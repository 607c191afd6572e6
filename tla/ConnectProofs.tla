---------------------------- MODULE ConnectProofs ----------------------------
(***************************************************************************)
(* Proofs about ConnectTransactions for any transactions, installations,   *)
(* providers and threads, any TTL and any length of time.                  *)
(***************************************************************************)
EXTENDS ConnectTransactions, TLAPS

(***************************************************************************)
(* The inductive invariant.  UsedNeverFindable and ErasedNotFindable are   *)
(* one fact, UsedInv: the row of a transaction that was used or erased is  *)
(* gone or consumed.  Only Start writes a row that is not consumed, and    *)
(* BusyInv says that nobody has used, erased or even seen the transaction  *)
(* whose row it is about to write.  ConnectionOfStarter needs to know that *)
(* rows, and the copies of them that callbacks hold, tell who started the  *)
(* transaction, and that Find has compared the provider with the route.    *)
(***************************************************************************)

\* An id not yet drawn is nowhere.

FreshInv ==
    \A x \in Txns : origin[x] = NoTxn =>
        /\ row[x] = NoRow /\ attempts[x] = 0 /\ x \notin doomed
        /\ \A t \in Threads : job[t].txn # x

\* A thread at work names a transaction, and one about to save it is the first
\* to have anything to do with it.
BusyInv ==
    \A t \in Threads :
        /\ pc[t] # "idle" => job[t].txn \in Txns
        /\ pc[t] = "start" =>
              /\ row[job[t].txn] = NoRow /\ attempts[job[t].txn] = 0
              /\ job[t].txn \notin doomed
              /\ \A u \in Threads : u # t => job[u].txn # job[t].txn

\* A row tells who started its transaction, ...
RowInv ==
    \A x \in Txns : row[x] # NoRow => origin[x] = <<row[x].inst, row[x].prov>>

\* ... so does the copy a callback has read, ...
SnapInv ==
    \A t \in Threads : job[t].snap # NoRow =>
        /\ job[t].txn \in Txns
        /\ origin[job[t].txn] = <<job[t].snap.inst, job[t].snap.prov>>

\* ... and a callback past Find is on the route of its provider.
RouteInv ==
    \A t \in Threads : pc[t] \in {"load", "expire", "mark", "exchange", "conn"} =>
        origin[job[t].txn][2] = job[t].prov

Used(x) == Exchanging(x) \/ x \in doomed

UsedInv == \A x \in Txns : Used(x) => row[x] = NoRow \/ row[x].consumed

IInv ==
    /\ TypeOK /\ FreshInv /\ BusyInv /\ RowInv /\ SnapInv /\ RouteInv
    /\ UsedInv /\ ConnectionOfStarter

-----------------------------------------------------------------------------
(* What a thread does to its own job and pc, and that the others keep theirs. *)

LEMMA NoJobType ==
    /\ NoJob \in Jobs
    /\ NoJob.txn = NoTxn /\ NoJob.snap = NoRow /\ NoJob.kind = "nocode"
    /\ \A x \in Txns : [NoJob EXCEPT !.txn = x] \in Jobs
    /\ \A x \in Txns : [NoJob EXCEPT !.txn = x].txn = x /\ [NoJob EXCEPT !.txn = x].snap = NoRow
<1>1. (CHOOSE p \in Providers : TRUE) \in Providers
  BY TxnAssumption
<1>2. QED  BY <1>1 DEF NoJob, Jobs, Kinds

LEMMA AnswerFacts ==
    ASSUME TypeOK, NEW t \in Threads, NEW from, Answer(t, from)
    PROVE  /\ job' \in [Threads -> Jobs] /\ pc' \in [Threads -> PCs]
           /\ pc[t] = from /\ pc'[t] = "idle"
           /\ job'[t].txn = NoTxn /\ job'[t].snap = NoRow
           /\ \A u \in Threads : u # t => job'[u] = job[u] /\ pc'[u] = pc[u]
BY NoJobType DEF TypeOK, Answer, Goto, PCs

LEMMA MoveFacts ==
    ASSUME TypeOK, NEW t \in Threads, NEW from, NEW to \in PCs, Goto(t, from, to)
    PROVE  /\ pc' \in [Threads -> PCs]
           /\ pc[t] = from /\ pc'[t] = to
           /\ \A u \in Threads : u # t => pc'[u] = pc[u]
BY DEF TypeOK, Goto

LEMMA ReadFacts ==
    ASSUME TypeOK, NEW t \in Threads, NEW r \in Rows,
           job' = [job EXCEPT ![t].snap = r]
    PROVE  /\ job' \in [Threads -> Jobs]
           /\ job'[t].txn = job[t].txn /\ job'[t].prov = job[t].prov
           /\ job'[t].snap = r
           /\ \A u \in Threads : u # t => job'[u] = job[u]
BY DEF TypeOK, Jobs

(* The steps that no thread takes: they only delete. *)
Deletes ==
    \/ Purge \/ Tick \/ UNCHANGED vars
    \/ \E i \in Installations : EraseSessions(i) \/ EraseRows(i)
    \/ \E i \in Installations, p \in Providers : EraseConnection(i, p)

LEMMA DeleteFacts ==
    ASSUME TypeOK, Deletes
    PROVE  /\ TypeOK'
           /\ \A x \in Txns : row'[x] \in {row[x], NoRow}
           /\ \A x \in Txns : x \in doomed' => x \in doomed \/ (row'[x] = NoRow /\ row[x] # NoRow)
           /\ \A c \in Installations \X Providers : conn'[c] \in {conn[c], NoTxn}
           /\ UNCHANGED <<origin, job, pc, codeUsed, attempts>>
<1>. USE TxnAssumption
<1>1. UNCHANGED <<origin, job, pc, codeUsed, attempts>>
  BY DEF Deletes, Purge, Tick, vars, EraseSessions, EraseRows, EraseConnection
<1>2. /\ \A x \in Txns : row'[x] \in {row[x], NoRow}
      /\ row' \in [Txns -> Rows \union {NoRow}]
  <2>1. CASE UNCHANGED row
    BY <2>1 DEF TypeOK
  <2>2. CASE \E S \in SUBSET Txns : row' = [x \in Txns |-> IF x \in S THEN NoRow ELSE row[x]]
    BY <2>2 DEF TypeOK
  <2>3. ASSUME Purge PROVE <2>2!1
    <3>. DEFINE S == {x \in Txns : row[x] # NoRow /\ (row[x].expires <= now \/ row[x].consumed)}
    <3>1. row' = [x \in Txns |-> IF x \in S THEN NoRow ELSE row[x]]
      BY <2>3 DEF Purge
    <3>2. QED  BY <3>1
  <2>4. ASSUME NEW i \in Installations, EraseRows(i) PROVE <2>2!1
    BY <2>4 DEF EraseRows, RowsOf
  <2>5. QED  BY <2>1, <2>2, <2>3, <2>4 DEF Deletes, Tick, vars, EraseSessions, EraseConnection
<1>3. \A x \in Txns : x \in doomed' => x \in doomed \/ (row'[x] = NoRow /\ row[x] # NoRow)
  <2>1. CASE UNCHANGED doomed
    BY <2>1
  <2>2. ASSUME NEW i \in Installations, EraseRows(i), NEW x \in doomed', x \notin doomed
        PROVE  row'[x] = NoRow /\ row[x] # NoRow
    BY <2>2 DEF EraseRows, RowsOf
  <2>3. QED  BY <2>1, <2>2 DEF Deletes, Purge, Tick, vars, EraseSessions, EraseConnection
<1>4. /\ \A c \in Installations \X Providers : conn'[c] \in {conn[c], NoTxn}
      /\ conn' \in [Installations \X Providers -> Txns \union {NoTxn}]
  <2>1. CASE UNCHANGED conn
    BY <2>1 DEF TypeOK
  <2>2. ASSUME NEW i \in Installations, NEW p \in Providers, EraseConnection(i, p)
        PROVE  <1>4!1 /\ <1>4!2
    <3>1. conn' = [conn EXCEPT ![<<i, p>>] = NoTxn]
      BY <2>2 DEF EraseConnection
    <3>2. QED  BY <3>1 DEF TypeOK
  <2>3. QED  BY <2>1, <2>2 DEF Deletes, Purge, Tick, vars, EraseSessions, EraseRows
<1>5. doomed' \subseteq Txns
  BY DEF Deletes, Purge, Tick, vars, EraseSessions, EraseRows, RowsOf, EraseConnection, TypeOK
<1>6. now' \in 0..MaxTime
  <2>1. CASE UNCHANGED now
    BY <2>1 DEF TypeOK
  <2>2. CASE Tick
    BY <2>2 DEF Tick, TypeOK
  <2>3. QED  BY <2>1, <2>2 DEF Deletes, Purge, vars, EraseSessions, EraseRows, EraseConnection
<1>7. erased' \in [Installations -> SUBSET (Providers \union {"sessions", "rows"})]
  <2>1. CASE UNCHANGED erased
    BY <2>1 DEF TypeOK
  <2>2. CASE \E i \in Installations, e \in Providers \union {"sessions", "rows"} :
               erased' = [erased EXCEPT ![i] = @ \union {e}]
    BY <2>2 DEF TypeOK
  <2>3. ASSUME NEW i \in Installations, EraseSessions(i) \/ EraseRows(i)
        PROVE  <2>2!1
    BY <2>3 DEF EraseSessions, EraseRows
  <2>4. ASSUME NEW i \in Installations, NEW p \in Providers, EraseConnection(i, p)
        PROVE  <2>2!1
    BY <2>4 DEF EraseConnection
  <2>5. QED  BY <2>1, <2>2, <2>3, <2>4 DEF Deletes, Purge, Tick, vars
<1>8. TypeOK'
  BY <1>1, <1>2, <1>4, <1>5, <1>6, <1>7 DEF TypeOK
<1>9. QED  BY <1>1, <1>2, <1>3, <1>4, <1>8

LEMMA LoadFacts ==
    ASSUME IInv, NEW t \in Threads, Load(t)
    PROVE  /\ job' \in [Threads -> Jobs] /\ pc' \in [Threads -> PCs]
           /\ \A u \in Threads : u # t => job'[u] = job[u] /\ pc'[u] = pc[u]
           /\ \/ pc'[t] = "idle" /\ job'[t].txn = NoTxn /\ job'[t].snap = NoRow
              \/ /\ pc[t] = "load" /\ pc'[t] \in {"expire", "mark"}
                 /\ job'[t].txn = job[t].txn /\ job'[t].txn \in Txns
                 /\ job'[t].prov = job[t].prov
                 /\ job'[t].snap = row[job[t].txn] /\ job'[t].snap # NoRow
           /\ UNCHANGED <<now, row, origin, conn, codeUsed, attempts, erased, doomed>>
<1>. DEFINE x == job[t].txn
<1>1. CASE Answer(t, "load")
  BY <1>1, AnswerFacts DEF Load, IInv
<1>2. CASE row[x] # NoRow /\ ~row[x].consumed /\ pc[t] = "load"
  <2>1. x \in Txns /\ row[x] \in Rows
    BY <1>2 DEF IInv, BusyInv, TypeOK
  <2>2. job' = [job EXCEPT ![t].snap = row[x]]
    BY <1>2 DEF Load
  <2>3. PICK to \in {"expire", "mark"} : Goto(t, "load", to)
    BY <1>2 DEF Load
  <2>4. to \in PCs
    BY DEF PCs
  <2>5. /\ pc' \in [Threads -> PCs] /\ pc'[t] = to
        /\ \A u \in Threads : u # t => pc'[u] = pc[u]
    BY <2>3, <2>4, MoveFacts DEF IInv
  <2>6. QED  BY <1>2, <2>1, <2>2, <2>5, ReadFacts DEF Load, IInv
<1>3. QED  BY <1>1, <1>2 DEF Load, Goto

(* Every step preserves TypeOK: types. *)

LEMMA TypeStep ==
    ASSUME IInv, [Next]_vars PROVE TypeOK'
<1>. USE TxnAssumption DEF IInv, TypeOK, PCs
<1>1. ASSUME NEW t \in Threads, NEW i \in Installations, NEW p \in Providers,
             Authorize(t, i, p)
      PROVE  TypeOK'
  BY <1>1, NoJobType DEF Authorize, Goto, BusyInv
<1>2. ASSUME NEW t \in Threads, Start(t)
      PROVE  TypeOK'
  <2>1. job[t].txn \in Txns /\ origin[job[t].txn] \in Installations \X Providers
    BY <1>2 DEF Start, Answer, Goto, BusyInv, FreshInv
  <2>2. row' \in [Txns -> Rows \union {NoRow}]
    BY <1>2, <2>1 DEF Start, Rows
  <2>3. QED  BY <1>2, <2>2, AnswerFacts DEF Start
<1>3. ASSUME NEW t \in Threads, NEW x \in Txns, NEW p \in Providers,
             NEW k \in Kinds, Arrive(t, x, p, k)
      PROVE  TypeOK'
  BY <1>3 DEF Arrive, Goto, Jobs
<1>4. ASSUME NEW t \in Threads, Find(t)
      PROVE  TypeOK'
  BY <1>4, AnswerFacts, MoveFacts DEF Find, Rejects
<1>5. ASSUME NEW t \in Threads, Load(t)
      PROVE  TypeOK'
  BY <1>5, LoadFacts DEF vars
<1>6. ASSUME NEW t \in Threads, Expire(t)
      PROVE  TypeOK'
  BY <1>6, AnswerFacts DEF Expire
<1>7. ASSUME NEW t \in Threads, Mark(t)
      PROVE  TypeOK'
  <2>1. job[t].txn \in Txns /\ job[t].snap \in Rows
    BY <1>7 DEF Mark, Answer, Goto, BusyInv, Jobs
  <2>2. row' \in [Txns -> Rows \union {NoRow}]
    BY <1>7, <2>1 DEF Mark, Rows
  <2>3. QED  BY <1>7, <2>2, AnswerFacts, MoveFacts DEF Mark
<1>8. ASSUME NEW t \in Threads, Exchange(t)
      PROVE  TypeOK'
  BY <1>8, AnswerFacts, MoveFacts DEF Exchange, BusyInv
<1>9. ASSUME NEW t \in Threads, SaveConnection(t)
      PROVE  TypeOK'
  <2>1. conn' \in [Installations \X Providers -> Txns \union {NoTxn}]
    BY <1>9 DEF SaveConnection, Jobs
  <2>2. QED  BY <1>9, <2>1, AnswerFacts DEF SaveConnection
<1>10. ASSUME Deletes
      PROVE  TypeOK'
  BY <1>10, DeleteFacts DEF vars
<1>. QED  BY <1>1, <1>2, <1>3, <1>4, <1>5, <1>6, <1>7, <1>8, <1>9, <1>10 DEF Next, Callback, Deletes

(* Every step preserves FreshInv: ids not drawn yet. *)

LEMMA FreshStep ==
    ASSUME IInv, [Next]_vars PROVE FreshInv'
<1>. USE TxnAssumption DEF IInv, FreshInv, BusyInv, PCs
<1>1. ASSUME NEW t \in Threads, NEW i \in Installations, NEW p \in Providers,
             Authorize(t, i, p)
      PROVE  FreshInv'
  BY <1>1, NoJobType DEF Authorize, Goto, TypeOK
<1>2. ASSUME NEW t \in Threads, Start(t)
      PROVE  FreshInv'
  BY <1>2, AnswerFacts DEF Start, TypeOK
<1>3. ASSUME NEW t \in Threads, NEW x \in Txns, NEW p \in Providers,
             NEW k \in Kinds, Arrive(t, x, p, k)
      PROVE  FreshInv'
  BY <1>3 DEF Arrive, Goto, Jobs, TypeOK
<1>4. ASSUME NEW t \in Threads, Find(t)
      PROVE  FreshInv'
  BY <1>4, AnswerFacts, MoveFacts DEF Find, Rejects
<1>5. ASSUME NEW t \in Threads, Load(t)
      PROVE  FreshInv'
  BY <1>5, LoadFacts DEF vars, TypeOK
<1>6. ASSUME NEW t \in Threads, Expire(t)
      PROVE  FreshInv'
  BY <1>6, AnswerFacts DEF Expire
<1>7. ASSUME NEW t \in Threads, Mark(t)
      PROVE  FreshInv'
  BY <1>7, AnswerFacts, MoveFacts DEF Mark
<1>8. ASSUME NEW t \in Threads, Exchange(t)
      PROVE  FreshInv'
  BY <1>8, AnswerFacts, MoveFacts DEF Exchange
<1>9. ASSUME NEW t \in Threads, SaveConnection(t)
      PROVE  FreshInv'
  BY <1>9, AnswerFacts DEF SaveConnection
<1>10. ASSUME Deletes
      PROVE  FreshInv'
  BY <1>10, DeleteFacts DEF vars
<1>. QED  BY <1>1, <1>2, <1>3, <1>4, <1>5, <1>6, <1>7, <1>8, <1>9, <1>10 DEF Next, Callback, Deletes

(* Every step preserves BusyInv: threads at work. *)

LEMMA BusyStep ==
    ASSUME IInv, [Next]_vars PROVE BusyInv'
<1>. USE TxnAssumption DEF IInv, FreshInv, BusyInv, PCs
<1>1. ASSUME NEW t \in Threads, NEW i \in Installations, NEW p \in Providers,
             Authorize(t, i, p)
      PROVE  BusyInv'
  BY <1>1, NoJobType DEF Authorize, Goto, TypeOK
<1>2. ASSUME NEW t \in Threads, Start(t)
      PROVE  BusyInv'
  BY <1>2, AnswerFacts DEF Start
<1>3. ASSUME NEW t \in Threads, NEW x \in Txns, NEW p \in Providers,
             NEW k \in Kinds, Arrive(t, x, p, k)
      PROVE  BusyInv'
  BY <1>3 DEF Arrive, Goto, Jobs, TypeOK
<1>4. ASSUME NEW t \in Threads, Find(t)
      PROVE  BusyInv'
  BY <1>4, AnswerFacts, MoveFacts DEF Find, Rejects
<1>5. ASSUME NEW t \in Threads, Load(t)
      PROVE  BusyInv'
  BY <1>5, LoadFacts DEF vars, TypeOK
<1>6. ASSUME NEW t \in Threads, Expire(t)
      PROVE  BusyInv'
  BY <1>6, AnswerFacts DEF Expire
<1>7. ASSUME NEW t \in Threads, Mark(t)
      PROVE  BusyInv'
  BY <1>7, AnswerFacts, MoveFacts DEF Mark
<1>8. ASSUME NEW t \in Threads, Exchange(t)
      PROVE  BusyInv'
  BY <1>8, AnswerFacts, MoveFacts DEF Exchange
<1>9. ASSUME NEW t \in Threads, SaveConnection(t)
      PROVE  BusyInv'
  BY <1>9, AnswerFacts DEF SaveConnection
<1>10. ASSUME Deletes
      PROVE  BusyInv'
  BY <1>10, DeleteFacts DEF vars
<1>. QED  BY <1>1, <1>2, <1>3, <1>4, <1>5, <1>6, <1>7, <1>8, <1>9, <1>10 DEF Next, Callback, Deletes

(* Every step preserves RowInv: who started each row. *)

LEMMA RowStep ==
    ASSUME IInv, [Next]_vars PROVE RowInv'
<1>. USE TxnAssumption DEF IInv, RowInv, TypeOK
<1>1. ASSUME NEW t \in Threads, NEW i \in Installations, NEW p \in Providers,
             Authorize(t, i, p)
      PROVE  RowInv'
  BY <1>1 DEF Authorize, FreshInv
<1>2. ASSUME NEW t \in Threads, Start(t)
      PROVE  RowInv'
  BY <1>2, AnswerFacts DEF Start, BusyInv, Answer, Goto, FreshInv, Rows
<1>3. ASSUME NEW t \in Threads, NEW x \in Txns, NEW p \in Providers,
             NEW k \in Kinds, Arrive(t, x, p, k)
      PROVE  RowInv'
  BY <1>3 DEF Arrive
<1>4. ASSUME NEW t \in Threads, Find(t)
      PROVE  RowInv'
  BY <1>4, AnswerFacts, MoveFacts DEF Find, Rejects
<1>5. ASSUME NEW t \in Threads, Load(t)
      PROVE  RowInv'
  BY <1>5, LoadFacts DEF vars
<1>6. ASSUME NEW t \in Threads, Expire(t)
      PROVE  RowInv'
  BY <1>6, AnswerFacts DEF Expire
<1>7. ASSUME NEW t \in Threads, Mark(t)
      PROVE  RowInv'
  BY <1>7, AnswerFacts, MoveFacts DEF Mark, SnapInv, Answer, Goto, Rows, Jobs
<1>8. ASSUME NEW t \in Threads, Exchange(t)
      PROVE  RowInv'
  BY <1>8, AnswerFacts, MoveFacts DEF Exchange
<1>9. ASSUME NEW t \in Threads, SaveConnection(t)
      PROVE  RowInv'
  BY <1>9, AnswerFacts DEF SaveConnection
<1>10. ASSUME Deletes
      PROVE  RowInv'
  BY <1>10, DeleteFacts DEF vars
<1>. QED  BY <1>1, <1>2, <1>3, <1>4, <1>5, <1>6, <1>7, <1>8, <1>9, <1>10 DEF Next, Callback, Deletes

(* Every step preserves SnapInv: who started what a callback has read. *)

LEMMA SnapStep ==
    ASSUME IInv, [Next]_vars PROVE SnapInv'
<1>. USE TxnAssumption DEF IInv, SnapInv, PCs
<1>1. ASSUME NEW t \in Threads, NEW i \in Installations, NEW p \in Providers,
             Authorize(t, i, p)
      PROVE  SnapInv'
  BY <1>1, NoJobType DEF Authorize, Goto, TypeOK, FreshInv
<1>2. ASSUME NEW t \in Threads, Start(t)
      PROVE  SnapInv'
  BY <1>2, AnswerFacts DEF Start, TypeOK
<1>3. ASSUME NEW t \in Threads, NEW x \in Txns, NEW p \in Providers,
             NEW k \in Kinds, Arrive(t, x, p, k)
      PROVE  SnapInv'
  BY <1>3 DEF Arrive, Goto, Jobs, TypeOK
<1>4. ASSUME NEW t \in Threads, Find(t)
      PROVE  SnapInv'
  <2>1. CASE Answer(t, "find") /\ UNCHANGED origin
    BY <1>4, <2>1, AnswerFacts
  <2>2. CASE UNCHANGED <<job, origin>>
    BY <2>2
  <2>3. QED  BY <1>4, <2>1, <2>2 DEF Find
<1>5. ASSUME NEW t \in Threads, Load(t)
      PROVE  SnapInv'
  BY <1>5, LoadFacts DEF vars, TypeOK, RowInv
<1>6. ASSUME NEW t \in Threads, Expire(t)
      PROVE  SnapInv'
  BY <1>6, AnswerFacts DEF Expire
<1>7. ASSUME NEW t \in Threads, Mark(t)
      PROVE  SnapInv'
  <2>1. CASE Answer(t, "mark") /\ UNCHANGED origin
    BY <1>7, <2>1, AnswerFacts
  <2>2. CASE UNCHANGED <<job, origin>>
    BY <2>2
  <2>3. QED  BY <1>7, <2>1, <2>2 DEF Mark
<1>8. ASSUME NEW t \in Threads, Exchange(t)
      PROVE  SnapInv'
  <2>1. CASE Answer(t, "exchange") /\ UNCHANGED origin
    BY <1>8, <2>1, AnswerFacts
  <2>2. CASE UNCHANGED <<job, origin>>
    BY <2>2
  <2>3. QED  BY <1>8, <2>1, <2>2 DEF Exchange
<1>9. ASSUME NEW t \in Threads, SaveConnection(t)
      PROVE  SnapInv'
  BY <1>9, AnswerFacts DEF SaveConnection
<1>10. ASSUME Deletes
      PROVE  SnapInv'
  BY <1>10, DeleteFacts DEF vars
<1>. QED  BY <1>1, <1>2, <1>3, <1>4, <1>5, <1>6, <1>7, <1>8, <1>9, <1>10 DEF Next, Callback, Deletes

(* Every step preserves RouteInv: the route of a callback. *)

LEMMA RouteStep ==
    ASSUME IInv, [Next]_vars PROVE RouteInv'
<1>. USE TxnAssumption DEF IInv, RouteInv, PCs
<1>1. ASSUME NEW t \in Threads, NEW i \in Installations, NEW p \in Providers,
             Authorize(t, i, p)
      PROVE  RouteInv'
  BY <1>1, NoJobType DEF Authorize, Goto, TypeOK, FreshInv, BusyInv
<1>2. ASSUME NEW t \in Threads, Start(t)
      PROVE  RouteInv'
  BY <1>2, AnswerFacts DEF Start
<1>3. ASSUME NEW t \in Threads, NEW x \in Txns, NEW p \in Providers,
             NEW k \in Kinds, Arrive(t, x, p, k)
      PROVE  RouteInv'
  BY <1>3 DEF Arrive, Goto, Jobs, TypeOK
<1>4. ASSUME NEW t \in Threads, Find(t)
      PROVE  RouteInv'
  <2>1. CASE Answer(t, "find") /\ UNCHANGED origin
    BY <1>4, <2>1, AnswerFacts
  <2>2. CASE ~Rejects(t) /\ Goto(t, "find", "load") /\ UNCHANGED <<job, row, origin>>
    BY <1>4, <2>2, MoveFacts DEF Rejects, Findable, RowInv, TypeOK, BusyInv
  <2>3. QED  BY <1>4, <2>1, <2>2 DEF Find
<1>5. ASSUME NEW t \in Threads, Load(t)
      PROVE  RouteInv'
  BY <1>5, LoadFacts DEF vars, TypeOK
<1>6. ASSUME NEW t \in Threads, Expire(t)
      PROVE  RouteInv'
  BY <1>6, AnswerFacts DEF Expire
<1>7. ASSUME NEW t \in Threads, Mark(t)
      PROVE  RouteInv'
  BY <1>7, AnswerFacts, MoveFacts DEF Mark
<1>8. ASSUME NEW t \in Threads, Exchange(t)
      PROVE  RouteInv'
  BY <1>8, AnswerFacts, MoveFacts DEF Exchange
<1>9. ASSUME NEW t \in Threads, SaveConnection(t)
      PROVE  RouteInv'
  BY <1>9, AnswerFacts DEF SaveConnection
<1>10. ASSUME Deletes
      PROVE  RouteInv'
  BY <1>10, DeleteFacts DEF vars
<1>. QED  BY <1>1, <1>2, <1>3, <1>4, <1>5, <1>6, <1>7, <1>8, <1>9, <1>10 DEF Next, Callback, Deletes

(* Every step preserves UsedInv: what was used or erased. *)

LEMMA UsedStep ==
    ASSUME IInv, [Next]_vars PROVE UsedInv'
<1>. USE TxnAssumption DEF IInv, FreshInv, BusyInv, UsedInv, Used, Exchanging, PCs
<1>1. ASSUME NEW t \in Threads, NEW i \in Installations, NEW p \in Providers,
             Authorize(t, i, p)
      PROVE  UsedInv'
  BY <1>1, NoJobType DEF Authorize, Goto, TypeOK
<1>2. ASSUME NEW t \in Threads, Start(t)
      PROVE  UsedInv'
  <2>1. /\ \A u \in Threads : u # t => job'[u] = job[u] /\ pc'[u] = pc[u]
        /\ pc'[t] = "idle" /\ pc[t] = "start" /\ UNCHANGED <<attempts, doomed>>
    BY <1>2, AnswerFacts DEF Start
  <2>2. ASSUME NEW x \in Txns, x = job[t].txn PROVE ~Used(x)'
    BY <2>1, <2>2
  <2>3. ASSUME NEW x \in Txns, x # job[t].txn
        PROVE  row'[x] = row[x] /\ (Used(x)' => Used(x))
    BY <1>2, <2>1, <2>3 DEF Start, TypeOK
  <2>4. QED  BY <2>2, <2>3
<1>3. ASSUME NEW t \in Threads, NEW x \in Txns, NEW p \in Providers,
             NEW k \in Kinds, Arrive(t, x, p, k)
      PROVE  UsedInv'
  BY <1>3 DEF Arrive, Goto, Jobs, TypeOK
<1>4. ASSUME NEW t \in Threads, Find(t)
      PROVE  UsedInv'
  BY <1>4, AnswerFacts, MoveFacts DEF Find, Rejects
<1>5. ASSUME NEW t \in Threads, Load(t)
      PROVE  UsedInv'
  BY <1>5, LoadFacts DEF vars, TypeOK
<1>6. ASSUME NEW t \in Threads, Expire(t)
      PROVE  UsedInv'
  BY <1>6, AnswerFacts DEF Expire
<1>7. ASSUME NEW t \in Threads, Mark(t)
      PROVE  UsedInv'
  BY <1>7, AnswerFacts, MoveFacts DEF Mark, TypeOK, Rows, Jobs
<1>8. ASSUME NEW t \in Threads, Exchange(t)
      PROVE  UsedInv'
  BY <1>8, AnswerFacts, MoveFacts DEF Exchange, TypeOK
<1>9. ASSUME NEW t \in Threads, SaveConnection(t)
      PROVE  UsedInv'
  BY <1>9, AnswerFacts DEF SaveConnection
<1>10. ASSUME Deletes
      PROVE  UsedInv'
  BY <1>10, DeleteFacts DEF vars
<1>. QED  BY <1>1, <1>2, <1>3, <1>4, <1>5, <1>6, <1>7, <1>8, <1>9, <1>10 DEF Next, Callback, Deletes

(* Every step preserves ConnectionOfStarter: who started each connection. *)

LEMMA ConnStep ==
    ASSUME IInv, [Next]_vars PROVE ConnectionOfStarter'
<1>. USE TxnAssumption DEF IInv, ConnectionOfStarter
<1>1. ASSUME NEW t \in Threads, NEW i \in Installations, NEW p \in Providers,
             Authorize(t, i, p)
      PROVE  ConnectionOfStarter'
  BY <1>1 DEF Authorize, FreshInv, TypeOK
<1>2. ASSUME NEW t \in Threads, Start(t)
      PROVE  ConnectionOfStarter'
  BY <1>2, AnswerFacts DEF Start
<1>3. ASSUME NEW t \in Threads, NEW x \in Txns, NEW p \in Providers,
             NEW k \in Kinds, Arrive(t, x, p, k)
      PROVE  ConnectionOfStarter'
  BY <1>3 DEF Arrive
<1>4. ASSUME NEW t \in Threads, Find(t)
      PROVE  ConnectionOfStarter'
  BY <1>4, AnswerFacts, MoveFacts DEF Find, Rejects
<1>5. ASSUME NEW t \in Threads, Load(t)
      PROVE  ConnectionOfStarter'
  BY <1>5, LoadFacts DEF vars
<1>6. ASSUME NEW t \in Threads, Expire(t)
      PROVE  ConnectionOfStarter'
  BY <1>6, AnswerFacts DEF Expire
<1>7. ASSUME NEW t \in Threads, Mark(t)
      PROVE  ConnectionOfStarter'
  BY <1>7, AnswerFacts, MoveFacts DEF Mark
<1>8. ASSUME NEW t \in Threads, Exchange(t)
      PROVE  ConnectionOfStarter'
  BY <1>8, AnswerFacts, MoveFacts DEF Exchange
<1>9. ASSUME NEW t \in Threads, SaveConnection(t)
      PROVE  ConnectionOfStarter'
  <2>. DEFINE j == job[t]
  <2>1. /\ j.snap # NoRow /\ j.snap \in Rows /\ j.prov \in Providers
        /\ pc[t] = "conn"
    BY <1>9 DEF SaveConnection, Answer, Goto, TypeOK, Jobs
  <2>2. /\ origin[j.txn] = <<j.snap.inst, j.snap.prov>> /\ origin[j.txn][2] = j.prov
    BY <2>1 DEF SnapInv, RouteInv
  <2>3. origin[j.txn] = <<j.snap.inst, j.prov>>
    BY <2>2
  <2>4. conn' = [conn EXCEPT ![<<j.snap.inst, j.prov>>] = j.txn] /\ UNCHANGED origin
    BY <1>9 DEF SaveConnection
  <2>5. QED  BY <2>3, <2>4 DEF TypeOK
<1>10. ASSUME Deletes
      PROVE  ConnectionOfStarter'
  BY <1>10, DeleteFacts DEF vars
<1>. QED  BY <1>1, <1>2, <1>3, <1>4, <1>5, <1>6, <1>7, <1>8, <1>9, <1>10 DEF Next, Callback, Deletes

-----------------------------------------------------------------------------
LEMMA InitIInv == Init => IInv
<1>. SUFFICES ASSUME Init PROVE IInv
  OBVIOUS
<1>. USE TxnAssumption, NoJobType DEF Init
<1>1. TypeOK
  BY DEF TypeOK, Rows, PCs
<1>2. FreshInv /\ BusyInv /\ RowInv /\ SnapInv /\ RouteInv
  BY DEF FreshInv, BusyInv, RowInv, SnapInv, RouteInv
<1>3. UsedInv /\ ConnectionOfStarter
  BY DEF UsedInv, Used, Exchanging, ConnectionOfStarter
<1>4. QED  BY <1>1, <1>2, <1>3 DEF IInv

LEMMA StepIInv == IInv /\ [Next]_vars => IInv'
BY TypeStep, FreshStep, BusyStep, RowStep, SnapStep, RouteStep, UsedStep, ConnStep
   DEF IInv

LEMMA Inductive == Spec => []IInv
BY InitIInv, StepIInv, PTL DEF Spec

\* The state of the table, of the threads and of the history stays well formed;
\* in particular a callback past consume has the entry it consumed.
THEOREM TypeCorrect == Spec => []TypeOK
<1>1. IInv => TypeOK
  BY DEF IInv
<1>. QED  BY <1>1, Inductive, PTL

\* No callback finds a transaction that another has gone to exchange.
THEOREM UsedCorrect == Spec => []UsedNeverFindable
<1>1. IInv => UsedNeverFindable
  BY DEF IInv, UsedInv, Used, UsedNeverFindable, Findable
<1>. QED  BY <1>1, Inductive, PTL

\* What an erase deleted is not found again, whoever was about to write it.
THEOREM ErasedCorrect == Spec => []ErasedNotFindable
<1>1. IInv => ErasedNotFindable
  BY DEF IInv, TypeOK, UsedInv, Used, ErasedNotFindable, Findable
<1>. QED  BY <1>1, Inductive, PTL

\* A connection belongs to the installation and the provider that asked for it.
THEOREM StarterCorrect == Spec => []ConnectionOfStarter
<1>1. IInv => ConnectionOfStarter
  BY DEF IInv
<1>. QED  BY <1>1, Inductive, PTL

\* A callback on another provider's route leaves the transaction as it was.
THEOREM RouteCorrect == Spec => WrongProviderLeavesRow
<1>1. ASSUME IInv, NEW t \in Threads, Callback(t), row' # row
      PROVE  origin[job[t].txn][2] = job[t].prov
  <2>1. Expire(t) \/ Mark(t)
    BY <1>1 DEF Callback, Find, Load, Exchange, SaveConnection
  <2>2. pc[t] \in {"expire", "mark"}
    BY <2>1 DEF Expire, Mark, Answer, Goto
  <2>3. QED  BY <1>1, <2>2 DEF IInv, RouteInv
<1>2. IInv /\ [Next]_vars =>
        [\A t \in Threads : Callback(t) /\ row' # row
            => origin[job[t].txn][2] = job[t].prov]_vars
  BY <1>1
<1>. QED  BY <1>2, Inductive, PTL DEF Spec, WrongProviderLeavesRow

\* The purge takes no consent that could still be completed.
THEOREM PurgeCorrect == Spec => PurgeOnlyUnusable
<1>1. ASSUME IInv, Purge, NEW x \in Txns, row'[x] # row[x]
      PROVE  ~Findable(x)
  <2>1. row[x] # NoRow /\ (row[x].expires <= now \/ row[x].consumed)
    BY <1>1 DEF Purge
  <2>2. row[x] \in Rows /\ now \in Nat
    BY <1>1, <2>1, TxnAssumption DEF IInv, TypeOK
  <2>3. row[x].expires \in Nat
    BY <2>2, TxnAssumption DEF Rows
  <2>4. QED  BY <2>1, <2>2, <2>3 DEF Findable
<1>2. IInv /\ [Next]_vars =>
        [Purge => \A x \in Txns : row'[x] # row[x] => ~Findable(x)]_vars
  BY <1>1
<1>. QED  BY <1>2, Inductive, PTL DEF Spec, PurgeOnlyUnusable
=============================================================================
