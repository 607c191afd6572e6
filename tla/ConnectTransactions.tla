------------------------ MODULE ConnectTransactions ------------------------
(***************************************************************************)
(* OAuth transactions of the backend: ConnectService.start and .callback   *)
(* (backend/oauth.py:43-96) over the PostgreSQL transaction store          *)
(* (backend/pgstores.py:206-297), the HTTP callback route, the privacy     *)
(* erase and the purge.  Each store method is one database transaction, so *)
(* one step; the callbacks of several threads, of one process or of        *)
(* several Cloud Run instances, interleave between them.                   *)
(*                                                                         *)
(* A request to start is let in by its session, and its row is saved later:*)
(* an erase may come between.  The state of a transaction is as unguessable*)
(* as its id, so a callback names a transaction that was started.  What the exchange brings back is *)
(* abstracted to the transaction it came from; tokens.save, just before    *)
(* connections.save, is left to the module ManagedTokens.                  *)
(***************************************************************************)
EXTENDS Integers, FiniteSets

CONSTANTS
    Txns,           \* transaction ids (secrets.token_hex: never drawn twice)
    Installations, Providers, Threads,
    TTL,            \* TRANSACTION_TTL_S in ticks
    MaxTime,        \* bound: the clock stops here
    NoTxn, NoRow

ASSUME TxnAssumption ==
    /\ TTL \in Nat \ {0} /\ MaxTime \in Nat
    /\ Providers # {}
    /\ NoTxn \notin Txns /\ NoTxn \notin Installations \X Providers
    /\ NoRow \notin [inst : Installations, prov : Providers,
                     expires : Nat, consumed : BOOLEAN]

VARIABLES
    now,
    row,        \* table transactions: the row of each id, or NoRow
    origin,     \* installation and provider that started each id drawn so far
    job,        \* the callback each thread is serving
    pc,
    conn,       \* table connections: which transaction made each one
    codeUsed,   \* the provider's own memory of the codes it has exchanged
    attempts,   \* how many exchanges were started for each transaction
    erased,     \* what erase_installation has deleted: connections, then more
    doomed      \* history: transactions deleted by an erase

vars == <<now, row, origin, job, pc, conn, codeUsed, attempts, erased, doomed>>

Rows == [inst : Installations, prov : Providers,
         expires : 0..(MaxTime + TTL), consumed : BOOLEAN]

Kinds == {"code", "error", "nocode"}
Jobs == [txn : Txns \union {NoTxn}, prov : Providers, kind : Kinds,
         snap : Rows \union {NoRow}]
PCs == {"idle", "start", "find", "load", "expire", "mark", "exchange", "conn"}

TypeOK ==
    /\ now \in 0..MaxTime
    /\ row \in [Txns -> Rows \union {NoRow}]
    /\ origin \in [Txns -> (Installations \X Providers) \union {NoTxn}]
    /\ job \in [Threads -> Jobs]
    /\ \A t \in Threads :
         pc[t] \in {"expire", "mark", "exchange", "conn"} => job[t].snap # NoRow
    /\ pc \in [Threads -> PCs]
    /\ conn \in [Installations \X Providers -> Txns \union {NoTxn}]
    /\ codeUsed \subseteq Txns
    /\ attempts \in [Txns -> Nat]
    /\ erased \in [Installations -> SUBSET (Providers \union {"sessions", "rows"})]
    /\ doomed \subseteq Txns

NoJob == [txn |-> NoTxn, prov |-> CHOOSE p \in Providers : TRUE,
          kind |-> "nocode", snap |-> NoRow]

Init ==
    /\ now = 0
    /\ row = [x \in Txns |-> NoRow]
    /\ origin = [x \in Txns |-> NoTxn]
    /\ job = [t \in Threads |-> NoJob]
    /\ pc = [t \in Threads |-> "idle"]
    /\ conn = [c \in Installations \X Providers |-> NoTxn]
    /\ codeUsed = {}
    /\ attempts = [x \in Txns |-> 0]
    /\ erased = [i \in Installations |-> {}]
    /\ doomed = {}

Goto(t, from, to) == pc[t] = from /\ pc' = [pc EXCEPT ![t] = to]

\* The request is answered: the thread forgets it.
Answer(t, from) ==
    /\ Goto(t, from, "idle")
    /\ job' = [job EXCEPT ![t] = NoJob]

\* find_by_state: neither consumed nor at its expiry yet.
Findable(x) ==
    /\ row[x] # NoRow
    /\ ~row[x].consumed
    /\ now < row[x].expires

-----------------------------------------------------------------------------

\* /connect/<provider>: check_managed_access passes while there are sessions.
Authorize(t, i, p) ==
    /\ "sessions" \notin erased[i]
    /\ Goto(t, "idle", "start")
    /\ \E x \in Txns :
         /\ origin[x] = NoTxn
         /\ origin' = [origin EXCEPT ![x] = <<i, p>>]
         /\ job' = [job EXCEPT ![t] = [NoJob EXCEPT !.txn = x]]
    /\ UNCHANGED <<now, row, conn, codeUsed, attempts, erased, doomed>>

Start(t) ==
    LET x == job[t].txn
    IN  /\ Answer(t, "start")
        /\ row' = [row EXCEPT ![x] = [inst |-> origin[x][1], prov |-> origin[x][2],
                                      expires |-> now + TTL, consumed |-> FALSE]]
        /\ UNCHANGED <<now, origin, conn, codeUsed, attempts, erased, doomed>>

\* The browser comes back, perhaps once more, on the callback of provider p.
Arrive(t, x, p, k) ==
    /\ origin[x] # NoTxn
    /\ \A u \in Threads : pc[u] = "start" => job[u].txn # x
    /\ Goto(t, "idle", "find")
    /\ job' = [job EXCEPT ![t] = [txn |-> x, prov |-> p, kind |-> k, snap |-> NoRow]]
    /\ UNCHANGED <<now, row, origin, conn, codeUsed, attempts, erased, doomed>>

Rejects(t) ==
    LET x == job[t].txn
    IN  ~Findable(x) \/ row[x].prov # job[t].prov \/ job[t].kind = "nocode"

\* callback without the check of the provider.
FindAnyProvider(t) ==
    /\ pc[t] = "find"
    /\ IF Findable(job[t].txn) /\ job[t].kind # "nocode"
       THEN Goto(t, "find", "load") /\ UNCHANGED job
       ELSE Answer(t, "find")
    /\ UNCHANGED <<now, row, origin, conn, codeUsed, attempts, erased, doomed>>

\* find_by_state and the checks of callback that answer without consuming.
Find(t) ==
    /\ pc[t] = "find"
    /\ IF Rejects(t)
       THEN Answer(t, "find")
       ELSE Goto(t, "find", "load") /\ UNCHANGED job
    /\ UNCHANGED <<now, row, origin, conn, codeUsed, attempts, erased, doomed>>

\* consume that does not keep what it read.
LoadUnread(t) ==
    LET x == job[t].txn
    IN  /\ pc[t] = "load"
        /\ IF row[x] = NoRow \/ row[x].consumed
           THEN Answer(t, "load")
           ELSE /\ Goto(t, "load", IF now >= row[x].expires THEN "expire" ELSE "mark")
                /\ UNCHANGED job
        /\ UNCHANGED <<now, row, origin, conn, codeUsed, attempts, erased, doomed>>

\* consume, first half: the read, on which the second half acts.
Load(t) ==
    LET x == job[t].txn
    IN  /\ pc[t] = "load"
        /\ IF row[x] = NoRow \/ row[x].consumed
           THEN Answer(t, "load")
           ELSE /\ Goto(t, "load", IF now >= row[x].expires THEN "expire" ELSE "mark")
                /\ job' = [job EXCEPT ![t].snap = row[x]]
        /\ UNCHANGED <<now, row, origin, conn, codeUsed, attempts, erased, doomed>>

Expire(t) ==
    /\ Answer(t, "expire")
    /\ row' = [row EXCEPT ![job[t].txn] = NoRow]
    /\ UNCHANGED <<now, origin, conn, codeUsed, attempts, erased, doomed>>

\* save of the entry as it was read.
MarkNothing(t) ==
    /\ pc[t] = "mark"
    /\ row' = [row EXCEPT ![job[t].txn] = job[t].snap]
    /\ IF job[t].kind = "error"
       THEN Answer(t, "mark")
       ELSE Goto(t, "mark", "exchange") /\ UNCHANGED job
    /\ UNCHANGED <<now, origin, conn, codeUsed, attempts, erased, doomed>>

\* consume, second half: an upsert of the entry read, marked consumed.
Mark(t) ==
    /\ pc[t] = "mark"
    /\ row' = [row EXCEPT ![job[t].txn] = [job[t].snap EXCEPT !.consumed = TRUE]]
    /\ IF job[t].kind = "error"
       THEN Answer(t, "mark")
       ELSE Goto(t, "mark", "exchange") /\ UNCHANGED job
    /\ UNCHANGED <<now, origin, conn, codeUsed, attempts, erased, doomed>>

\* exchange and fetch_identity: the provider accepts a code once, and the call
\* may fail before or after the provider has taken it.
Exchange(t) ==
    LET x == job[t].txn
    IN  /\ pc[t] = "exchange"
        /\ attempts' = [attempts EXCEPT ![x] = @ + 1]
        /\ \/ /\ x \notin codeUsed
              /\ Goto(t, "exchange", "conn")
              /\ UNCHANGED job
              /\ codeUsed' = codeUsed \union {x}
           \/ /\ Answer(t, "exchange")
              /\ codeUsed' \in {codeUsed, codeUsed \union {x}}
        /\ UNCHANGED <<now, row, origin, conn, erased, doomed>>

\* connections.save under the route's provider and the installation consumed.
SaveConnection(t) ==
    /\ Answer(t, "conn")
    /\ conn' = [conn EXCEPT ![<<job[t].snap.inst, job[t].prov>>] = job[t].txn]
    /\ UNCHANGED <<now, row, origin, codeUsed, attempts, erased, doomed>>

-----------------------------------------------------------------------------

\* purge_expired that takes a row one tick early.
PurgeEarly ==
    /\ row' = [x \in Txns |->
                 IF row[x] # NoRow /\ (row[x].expires <= now + 1 \/ row[x].consumed)
                 THEN NoRow ELSE row[x]]
    /\ UNCHANGED <<now, origin, job, pc, conn, codeUsed, attempts, erased, doomed>>

Purge ==
    /\ row' = [x \in Txns |->
                 IF row[x] # NoRow /\ (row[x].expires <= now \/ row[x].consumed)
                 THEN NoRow ELSE row[x]]
    /\ UNCHANGED <<now, origin, job, pc, conn, codeUsed, attempts, erased, doomed>>

\* erase_installation: one connection per provider, the sessions, the rows
\* (then the installation, which this module does not keep).
EraseConnection(i, p) ==
    /\ erased' = [erased EXCEPT ![i] = @ \union {p}]
    /\ conn' = [conn EXCEPT ![<<i, p>>] = NoTxn]
    /\ UNCHANGED <<now, row, origin, job, pc, codeUsed, attempts, doomed>>

EraseSessions(i) ==
    /\ Providers \subseteq erased[i]
    /\ erased' = [erased EXCEPT ![i] = @ \union {"sessions"}]
    /\ UNCHANGED <<now, row, origin, job, pc, conn, codeUsed, attempts, doomed>>

RowsOf(i) == {x \in Txns : row[x] # NoRow /\ row[x].inst = i}

\* An erase that leaves the transactions still pending.
EraseConsumedRows(i) ==
    /\ "sessions" \in erased[i]
    /\ erased' = [erased EXCEPT ![i] = @ \union {"rows"}]
    /\ doomed' = doomed \union RowsOf(i)
    /\ row' = [x \in Txns |-> IF x \in RowsOf(i) /\ row[x].consumed
                              THEN NoRow ELSE row[x]]
    /\ UNCHANGED <<now, origin, job, pc, conn, codeUsed, attempts>>

EraseRows(i) ==
    /\ "sessions" \in erased[i]
    /\ erased' = [erased EXCEPT ![i] = @ \union {"rows"}]
    /\ doomed' = doomed \union RowsOf(i)
    /\ row' = [x \in Txns |-> IF x \in RowsOf(i) THEN NoRow ELSE row[x]]
    /\ UNCHANGED <<now, origin, job, pc, conn, codeUsed, attempts>>

Tick ==
    /\ now < MaxTime
    /\ now' = now + 1
    /\ UNCHANGED <<row, origin, job, pc, conn, codeUsed, attempts, erased, doomed>>

Callback(t) ==
    \/ Find(t) \/ Load(t) \/ Expire(t) \/ Mark(t) \/ Exchange(t)
    \/ SaveConnection(t)

Next ==
    \/ \E t \in Threads, i \in Installations, p \in Providers : Authorize(t, i, p)
    \/ \E t \in Threads, x \in Txns, p \in Providers, k \in Kinds : Arrive(t, x, p, k)
    \/ \E t \in Threads : Start(t) \/ Callback(t)
    \/ Purge
    \/ \E i \in Installations, p \in Providers : EraseConnection(i, p)
    \/ \E i \in Installations : EraseSessions(i) \/ EraseRows(i)
    \/ Tick

Spec == Init /\ [][Next]_vars

-----------------------------------------------------------------------------
(* Properties *)

Exchanging(x) ==
    \/ attempts[x] > 0
    \/ \E t \in Threads : job[t].txn = x /\ pc[t] \in {"exchange", "conn"}

\* Once a callback has gone for the exchange, no later callback finds the
\* transaction: not after races, a purge, an erase or the upsert of consume.
UsedNeverFindable == \A x \in Txns : Exchanging(x) => ~Findable(x)

\* The connection of an installation with a provider comes from a transaction
\* that very installation started for that very provider (oauth.py:68-71, 85).
ConnectionOfStarter ==
    \A c \in Installations \X Providers : conn[c] # NoTxn => origin[conn[c]] = c

\* "sin consumir: el callback legitimo sigue siendo posible" (oauth.py:69-70):
\* a callback on another provider's route leaves the row alone.
WrongProviderLeavesRow ==
    [][\A t \in Threads :
         Callback(t) /\ row' # row => origin[job[t].txn][2] = job[t].prov]_vars

\* A transaction the erase of its installation deleted is never found again,
\* though the upsert of a callback that had read it may write its row anew.
ErasedNotFindable == \A x \in doomed : ~Findable(x)

\* The purge takes only rows that find_by_state and consume already refuse
\* (backend/maintenance.py): a consent that is still good is never lost.
PurgeOnlyUnusable ==
    [][Purge => \A x \in Txns : row'[x] # row[x] => ~Findable(x)]_vars

\* "transacciones de un solo uso" (oauth.py:1, ports.py:155-156): at most one
\* callback is allowed to exchange.  The code does not keep this: two may pass
\* Load before either reaches Mark (README, section 6).
SingleUse == \A x \in Txns :
    attempts[x] + Cardinality({t \in Threads : job[t].txn = x /\ pc[t] = "exchange"}) <= 1
=============================================================================
