------------------------------- MODULE PgPool -------------------------------
(***************************************************************************)
(* The bounded PostgreSQL connection pool every store of the backend runs  *)
(* on (backend/db.py:79-203).  HTTP threads enter `with pool as conn`,     *)
(* which acquires a connection (recycling, discarding or opening one, or   *)
(* waiting for one), and leave it, which rolls back and puts it in the     *)
(* free queue or discards it.  One action per step between two points      *)
(* where another thread can run: a queue operation, a statement on the     *)
(* wire, a critical section of _guard.                                     *)
(*                                                                         *)
(* Time is abstracted: a wait may end in the timeout at any moment.  The   *)
(* pool's close() is left out: its one caller, tools/purge_expired.py,     *)
(* runs it as the process ends.                                            *)
(***************************************************************************)
EXTENDS Integers, Sequences, SequencesExt, FiniteSets

CONSTANTS
    Threads,    \* threads of the ThreadingHTTPServer
    Conns,      \* identities of connections; one is reused once discounted
    MaxSize,    \* PgPool(max_size)
    MaxDepth,   \* bound: nested `with pool` in one thread
    NoThread, NoConn

ASSUME PoolAssumption ==
    /\ MaxSize \in Nat \ {0}            \* db.py:91-92
    /\ MaxDepth \in Nat \ {0}
    /\ NoThread \notin Threads
    /\ NoConn \notin Conns

VARIABLES
    created,    \* _created
    guard,      \* the thread that keeps _guard while it opens a connection
    free,       \* _free, a FIFO of connections
    conn,       \* what became of each connection
    stack,      \* _local.stack of each thread
    cur,        \* local `conn` of a thread inside acquire or release
    pc          \* where each thread is; "run" is outside the pool's code

vars == <<created, guard, free, conn, stack, cur, pc>>

\* "dead": the server dropped it and nobody has noticed; "closed": conn.closed.
ConnStates == {"absent", "ok", "dead", "closed"}

Uncounting == {"drop", "waitdrop", "uncount"}
InHand == {"ping", "waitping", "release"} \union Uncounting

PCs == {"run", "drain", "create", "recreate", "opening", "wait"} \union InHand

TypeOK ==
    /\ created \in 0..MaxSize
    /\ guard \in Threads \union {NoThread}
    /\ free \in Seq(Conns)
    /\ conn \in [Conns -> ConnStates]
    /\ stack \in [Threads -> Seq(Conns)]
    /\ cur \in [Threads -> Conns \union {NoConn}]
    /\ pc \in [Threads -> PCs]

Init ==
    /\ created = 0
    /\ guard = NoThread
    /\ free = <<>>
    /\ conn = [c \in Conns |-> "absent"]
    /\ stack = [t \in Threads |-> <<>>]
    /\ cur = [t \in Threads |-> NoConn]
    /\ pc = [t \in Threads |-> "run"]

Goto(t, from, to) == pc[t] = from /\ pc' = [pc EXCEPT ![t] = to]

Take(t, from, to) ==
    /\ free # <<>>
    /\ cur' = [cur EXCEPT ![t] = Head(free)]
    /\ free' = Tail(free)
    /\ Goto(t, from, to)
    /\ UNCHANGED <<created, guard, conn, stack>>

-----------------------------------------------------------------------------
(* acquire *)

Enter(t) ==
    /\ Len(stack[t]) < MaxDepth
    /\ Goto(t, "run", "drain")
    /\ UNCHANGED <<created, guard, free, conn, stack, cur>>

DrainGet(t) == Take(t, "drain", "ping")

DrainEmpty(t) ==
    /\ free = <<>>
    /\ Goto(t, "drain", "create")
    /\ UNCHANGED <<created, guard, free, conn, stack, cur>>

\* SELECT 1 answers: acquire returns and __enter__ pushes the connection.
PingOk(t) ==
    /\ Goto(t, "ping", "run") \/ Goto(t, "waitping", "run")
    /\ conn[cur[t]] = "ok"
    /\ stack' = [stack EXCEPT ![t] = Append(@, cur[t])]
    /\ cur' = [cur EXCEPT ![t] = NoConn]
    /\ UNCHANGED <<created, guard, free, conn>>

PingFails(t) ==
    /\ Goto(t, "ping", "drop") \/ Goto(t, "waitping", "waitdrop")
    /\ conn[cur[t]] = "dead"
    /\ conn' = [conn EXCEPT ![cur[t]] = "closed"]
    /\ UNCHANGED <<created, guard, free, stack, cur>>

\* The loss of count the comment of db.py:114-116 remembers.
UncountForgets(t) ==
    /\ guard = NoThread
    /\ \/ Goto(t, "drop", "drain")
       \/ Goto(t, "waitdrop", "recreate")
       \/ Goto(t, "uncount", "run")
    /\ created' = IF pc[t] = "drop" THEN created ELSE created - 1
    /\ conn' = [conn EXCEPT ![cur[t]] = "absent"]
    /\ cur' = [cur EXCEPT ![t] = NoConn]
    /\ UNCHANGED <<guard, free, stack>>

\* A critical section that lowers _created for a connection already closed.
Uncount(t) ==
    /\ guard = NoThread
    /\ \/ Goto(t, "drop", "drain")
       \/ Goto(t, "waitdrop", "recreate")
       \/ Goto(t, "uncount", "run")
    /\ created' = created - 1
    /\ conn' = [conn EXCEPT ![cur[t]] = "absent"]
    /\ cur' = [cur EXCEPT ![t] = NoConn]
    /\ UNCHANGED <<guard, free, stack>>

\* _created checked under _guard, the connection opened after releasing it.
OpenOutsideGuard(t) ==
    /\ guard = NoThread
    /\ created < MaxSize
    /\ Goto(t, "create", "opening") \/ Goto(t, "recreate", "opening")
    /\ UNCHANGED <<created, guard, free, conn, stack, cur>>

\* Room under _guard: open while still holding it.
StartOpening(t) ==
    /\ guard = NoThread
    /\ created < MaxSize
    /\ Goto(t, "create", "opening") \/ Goto(t, "recreate", "opening")
    /\ guard' = t
    /\ UNCHANGED <<created, free, conn, stack, cur>>

NoRoom(t) ==
    /\ guard = NoThread
    /\ created >= MaxSize
    /\ Goto(t, "create", "wait") \/ Goto(t, "recreate", "wait")
    /\ UNCHANGED <<created, guard, free, conn, stack, cur>>

OpenOk(t) ==
    /\ Goto(t, "opening", "run")
    /\ \E c \in Conns :
         /\ conn[c] = "absent"
         /\ conn' = [conn EXCEPT ![c] = "ok"]
         /\ stack' = [stack EXCEPT ![t] = Append(@, c)]
    /\ created' = created + 1
    /\ guard' = NoThread
    /\ UNCHANGED <<free, cur>>

OpenFailsLocked(t) ==
    /\ Goto(t, "opening", "run")
    /\ UNCHANGED <<created, guard, free, conn, stack, cur>>

\* psycopg.connect raises through `with self._guard` and __enter__.
OpenFails(t) ==
    /\ Goto(t, "opening", "run")
    /\ guard' = NoThread
    /\ UNCHANGED <<created, free, conn, stack, cur>>

WaitGet(t) == Take(t, "wait", "waitping")

\* The deadline passed: DatabaseError("postgres pool exhausted ...").
Exhausted(t) ==
    /\ Goto(t, "wait", "run")
    /\ UNCHANGED <<created, guard, free, conn, stack, cur>>

-----------------------------------------------------------------------------
(* the body of the `with`, and release *)

\* A statement of the body on a dropped connection: psycopg closes it.
UseDead(t) ==
    /\ pc[t] = "run"
    /\ stack[t] # <<>>
    /\ conn[Last(stack[t])] = "dead"
    /\ conn' = [conn EXCEPT ![Last(stack[t])] = "closed"]
    /\ UNCHANGED <<created, guard, free, stack, cur, pc>>

\* __exit__ hands the connection over without popping it.
ExitPeeks(t) ==
    /\ stack[t] # <<>>
    /\ Goto(t, "run", "release")
    /\ cur' = [cur EXCEPT ![t] = Last(stack[t])]
    /\ UNCHANGED <<created, guard, free, conn, stack>>

Exit(t) ==
    /\ stack[t] # <<>>
    /\ Goto(t, "run", "release")
    /\ cur' = [cur EXCEPT ![t] = Last(stack[t])]
    /\ stack' = [stack EXCEPT ![t] = Front(@)]
    /\ UNCHANGED <<created, guard, free, conn>>

\* rollback() succeeds, or is a no-op because no transaction is open, which
\* leaves a dropped connection unnoticed; a closed one is never put back.
Recycle(t) ==
    /\ Goto(t, "release", "run")
    /\ conn[cur[t]] \in {"ok", "dead"}
    /\ free' = Append(free, cur[t])
    /\ cur' = [cur EXCEPT ![t] = NoConn]
    /\ UNCHANGED <<created, guard, conn, stack>>

\* The early return of a closed connection falls through to the handler.
DiscardTwice(t) ==
    /\ Goto(t, "release", "uncount")
    /\ conn[cur[t]] \in {"dead", "closed"}
    /\ conn' = [conn EXCEPT ![cur[t]] = "closed"]
    /\ created' = IF conn[cur[t]] = "closed" THEN created - 1 ELSE created
    /\ UNCHANGED <<guard, free, stack, cur>>

\* conn.closed, or rollback() raises and the handler closes it.
Discard(t) ==
    /\ Goto(t, "release", "uncount")
    /\ conn[cur[t]] \in {"dead", "closed"}
    /\ conn' = [conn EXCEPT ![cur[t]] = "closed"]
    /\ UNCHANGED <<created, guard, free, stack, cur>>

-----------------------------------------------------------------------------

\* The server drops a connection (an idle timeout, a restart).
Drop(c) ==
    /\ conn[c] = "ok"
    /\ conn' = [conn EXCEPT ![c] = "dead"]
    /\ UNCHANGED <<created, guard, free, stack, cur, pc>>

\* The steps a thread takes on its own once it is inside acquire or release.
Step(t) ==
    \/ DrainGet(t) \/ DrainEmpty(t) \/ PingOk(t) \/ PingFails(t)
    \/ NoRoom(t) \/ OpenOk(t) \/ OpenFails(t) \/ WaitGet(t) \/ Exhausted(t)
    \/ Recycle(t) \/ Discard(t)

Next ==
    \/ \E t \in Threads :
         Enter(t) \/ Step(t) \/ Uncount(t) \/ StartOpening(t)
           \/ UseDead(t) \/ Exit(t)
    \/ \E c \in Conns : Drop(c)

Spec == Init /\ [][Next]_vars

\* Every thread keeps running; threading.Lock does not starve a waiter.
Fairness ==
    \A t \in Threads :
        WF_vars(Step(t)) /\ SF_vars(Uncount(t)) /\ SF_vars(NoRoom(t))
          /\ SF_vars(StartOpening(t))

FairSpec == Spec /\ Fairness

-----------------------------------------------------------------------------
(* Properties *)

Counted == {c \in Conns : conn[c] # "absent"}
Held(t) == {c \in Conns : cur[t] = c \/ c \in ToSet(stack[t])}

\* _created is the number of connections that exist: every path that gives one
\* up (a failed ping, a closed or failed release) discounts it exactly once.
CountMatches == created = Cardinality(Counted)

\* The server never sees more than max_size connections of this process,
\* counting the one being opened under _guard (db.py:134-138, 160-164).
Bounded ==
    LET opening == {t \in Threads : pc[t] = "opening"}
    IN  Cardinality({c \in Conns : conn[c] \in {"ok", "dead"}})
          + Cardinality(opening) <= MaxSize

\* Nobody shares a connection and none leaks: each one that exists is either
\* once in the free queue or with exactly one thread (the release of another
\* thread's connection and its leak, db.py:183-188).
Exclusive ==
    /\ \A t, u \in Threads : t # u => Held(t) \intersect Held(u) = {}
    /\ \A t \in Threads : Held(t) \intersect ToSet(free) = {}
    /\ IsInjective(free)
    /\ \A t \in Threads : IsInjective(stack[t]) /\ cur[t] \notin ToSet(stack[t])
    /\ \A c \in Conns :
         c \in Counted <=> c \in ToSet(free) \/ \E t \in Threads : c \in Held(t)

\* acquire and release always come back once the server stops dropping
\* connections: no path leaves _guard taken or waits without end.
ComesBack ==
    (<>[][\A c \in Conns : ~Drop(c)]_vars)
        => \A t \in Threads : []<>(pc[t] = "run")

\* "postgres pool exhausted (N connections)", db.py:143-149, is raised only
\* while the N connections exist.  The code does not keep this: a waiter is
\* not woken when a broken connection is discounted (README, section 6).
ExhaustedMeansFull ==
    [][\A t \in Threads : Exhausted(t) => created = MaxSize]_vars

\* The pool implements the lease of its connections.
borrower == [c \in Conns |->
    IF \E t \in Threads : c \in ToSet(stack[t])
    THEN CHOOSE t \in Threads : c \in ToSet(stack[t])
    ELSE NoThread]

Lease == INSTANCE ConnectionLease WITH lease <- borrower
Leases == Lease!Spec
=============================================================================
