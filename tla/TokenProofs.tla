----------------------------- MODULE TokenProofs -----------------------------
(***************************************************************************)
(* Proofs about ManagedTokens for any installations, accounts, threads and *)
(* processes, whether or not the provider rotates its refresh tokens.      *)
(***************************************************************************)
EXTENDS ManagedTokens, TLAPS

(***************************************************************************)
(* The inductive invariant.  EntryInv is what the code of oauth.py relies  *)
(* on when it writes back the entry it has read: past the second reading   *)
(* there is one.  LockInv is SingleFlight's first half; the second follows,*)
(* since a lock names one thread.                                          *)
(***************************************************************************)

EntryInv ==
    \A t \in Threads : pc[t] \in {"eTokens", "eLock", "eReload", "eRefresh", "eSave", "eConn"}
        => loc[t].entry # NoEntry

LockInv == \A t \in Threads : pc[t] \in Locked => lock[Key(t)] = t

IInv == TypeOK /\ EntryInv /\ LockInv

-----------------------------------------------------------------------------
(* What a thread does to its own pc and locals, and that the others keep theirs. *)

LEMMA Distinct ==
    /\ NoLoc \in Locals /\ NoLoc.inst = NoEntry
    /\ \A l \in Locals : l.inst = NoEntry => l = NoLoc
    /\ \A l \in Locals : l.inst # NoEntry =>
         /\ l \in [inst : Installations, acct : Accounts,
                   entry : Entries \union {NoEntry}, pair : 0..MaxPairs]
BY TokenAssumption DEF NoLoc, Locals

LEMMA MoveFacts ==
    ASSUME TypeOK, NEW t \in Threads, NEW from, NEW to \in PCs, Goto(t, from, to)
    PROVE  /\ pc' \in [Threads -> PCs]
           /\ pc[t] = from /\ pc'[t] = to
           /\ \A u \in Threads : u # t => pc'[u] = pc[u]
BY DEF TypeOK, Goto

LEMMA AnswerFacts ==
    ASSUME TypeOK, NEW t \in Threads, Answer(t)
    PROVE  /\ pc' \in [Threads -> PCs] /\ pc'[t] = "idle"
           /\ loc' \in [Threads -> Locals] /\ loc'[t] = NoLoc
           /\ \A u \in Threads : u # t => pc'[u] = pc[u] /\ loc'[u] = loc[u]
BY Distinct DEF TypeOK, Answer, PCs

\* A thread that works on an installation has an account and a pair.
LEMMA BusyFacts ==
    ASSUME TypeOK, NEW t \in Threads, pc[t] # "idle"
    PROVE  /\ loc[t] \in [inst : Installations, acct : Accounts,
                          entry : Entries \union {NoEntry}, pair : 0..MaxPairs]
           /\ loc[t].inst \in Installations /\ loc[t].acct \in Accounts
           /\ loc[t].pair \in 0..MaxPairs /\ loc[t].entry \in Entries \union {NoEntry}
           /\ Key(t) \in Processes \X Accounts
<1>1. loc[t] \in [inst : Installations, acct : Accounts,
                  entry : Entries \union {NoEntry}, pair : 0..MaxPairs]
  BY Distinct DEF TypeOK
<1>2. QED  BY <1>1, TokenAssumption DEF Key

\* New locals of one thread keep loc well formed.
LEMMA LocFacts ==
    ASSUME TypeOK, NEW t \in Threads,
           NEW l \in [inst : Installations, acct : Accounts,
                      entry : Entries \union {NoEntry}, pair : 0..MaxPairs],
           loc' = [loc EXCEPT ![t] = l]
    PROVE  /\ loc' \in [Threads -> Locals] /\ loc'[t] = l /\ loc'[t].inst # NoEntry
           /\ \A u \in Threads : u # t => loc'[u] = loc[u]
BY TokenAssumption DEF TypeOK, Locals

-----------------------------------------------------------------------------
(* Each step, seen by the lock. *)

Others(t) == \A u \in Threads : u # t => pc'[u] = pc[u] /\ loc'[u] = loc[u]
SameKey(t) == loc'[t].acct = loc[t].acct

\* What a step of t may do to its lock.
Locks(t) ==
    \/ pc[t] \notin Locked /\ pc'[t] \notin Locked /\ UNCHANGED lock
    \/ /\ pc[t] \notin Locked /\ pc'[t] \in Locked /\ SameKey(t)
       /\ lock[Key(t)] = NoThread /\ lock' = [lock EXCEPT ![Key(t)] = t]
    \/ pc[t] \in Locked /\ pc'[t] \in Locked /\ SameKey(t) /\ UNCHANGED lock
    \/ pc[t] \in Locked /\ pc'[t] \notin Locked /\ Unlock(t)

LEMMA LocksKeep ==
    ASSUME IInv, TypeOK', NEW t \in Threads, Others(t), Locks(t)
    PROVE  LockInv'
<1>1. ASSUME NEW u \in Threads, u # t, pc'[u] \in Locked
      PROVE  /\ Key(u)' = Key(u) /\ Key(u) \in Processes \X Accounts
             /\ lock[Key(u)] = u /\ pc[u] # "idle"
  <2>1. pc[u] \in Locked /\ pc[u] # "idle"
    BY <1>1 DEF Others, Locked
  <2>2. QED  BY <1>1, <2>1, BusyFacts DEF IInv, LockInv, Others, Key
<1>2. pc[t] \in Locked => pc[t] # "idle" /\ Key(t) \in Processes \X Accounts
  BY BusyFacts DEF Locked, IInv
<1>3. pc'[t] \in Locked => Key(t)' \in Processes \X Accounts
  <2>1. pc'[t] \in Locked => pc'[t] # "idle"
    BY DEF Locked
  <2>2. QED  BY <2>1, Distinct, TokenAssumption DEF TypeOK, Key
<1>4. CASE pc[t] \notin Locked /\ pc'[t] \notin Locked /\ UNCHANGED lock
  BY <1>1, <1>4 DEF LockInv
<1>8. CASE pc[t] \in Locked /\ pc'[t] \in Locked /\ SameKey(t) /\ UNCHANGED lock
  <2>1. Key(t)' = Key(t) /\ lock[Key(t)] = t
    BY <1>8 DEF SameKey, Key, LockInv, IInv
  <2>2. QED  BY <1>1, <1>8, <2>1 DEF LockInv
<1>5. CASE /\ pc'[t] \in Locked /\ SameKey(t)
           /\ lock[Key(t)] = NoThread /\ lock' = [lock EXCEPT ![Key(t)] = t]
  <2>1. Key(t)' = Key(t)
    BY <1>5 DEF SameKey, Key
  <2>2. ASSUME NEW u \in Threads, u # t, pc'[u] \in Locked PROVE lock'[Key(u)'] = u
    BY <1>1, <1>5, <2>2, TokenAssumption DEF IInv, TypeOK
  <2>3. lock'[Key(t)'] = t
    BY <1>3, <1>5, <2>1 DEF IInv, TypeOK
  <2>4. QED  BY <2>2, <2>3 DEF LockInv
<1>6. CASE pc[t] \in Locked /\ pc'[t] \notin Locked /\ Unlock(t)
  <2>1. ASSUME NEW u \in Threads, u # t, pc'[u] \in Locked PROVE lock'[Key(u)'] = u
    BY <1>1, <1>2, <1>6, <2>1 DEF IInv, LockInv, TypeOK, Unlock
  <2>2. QED  BY <1>6, <2>1 DEF LockInv
<1>7. QED  BY <1>4, <1>5, <1>6, <1>8 DEF Locks

-----------------------------------------------------------------------------
(* What a step of one thread has to show, and that it is enough. *)

Holding == {"eTokens", "eLock", "eReload", "eRefresh", "eSave", "eConn"}
Busy == [inst : Installations, acct : Accounts,
         entry : Entries \union {NoEntry}, pair : 0..MaxPairs]

\* The variables that are not a thread's own.
DataOK ==
    /\ now \in 0..MaxTime
    /\ conn \in [Installations -> Entries \union {NoEntry}]
    /\ tok \in [Accounts -> 0..MaxPairs]
    /\ lock \in [Processes \X Accounts -> Threads \union {NoThread}]
    /\ issued \in 0..MaxPairs
    /\ born \in [Pairs -> 0..MaxTime]
    /\ live \subseteq Pairs

\* t moves on, and keeps an entry where the code counts on one.
Moves(t) ==
    /\ pc' \in [Threads -> PCs] /\ loc' \in [Threads -> Locals]
    /\ loc'[t].inst = NoEntry <=> pc'[t] = "idle"
    /\ pc'[t] \in Holding => loc'[t].entry # NoEntry
    /\ Others(t)

LEMMA SafeKeep ==
    ASSUME IInv, NEW t \in Threads, DataOK', Moves(t), Locks(t)
    PROVE  IInv'
<1>1. TypeOK'
  BY DEF IInv, TypeOK, DataOK, Moves, Others
<1>2. EntryInv'
  BY DEF IInv, EntryInv, Moves, Others, Holding
<1>3. LockInv'
  BY <1>1, LocksKeep DEF Moves
<1>4. QED  BY <1>1, <1>2, <1>3 DEF IInv

LEMMA DataFacts == TypeOK => DataOK
BY DEF TypeOK, DataOK

\* A step that keeps the locals of a thread that is busy.
LEMMA MovesGoto ==
    ASSUME IInv, NEW t \in Threads, NEW from, NEW to \in PCs, Goto(t, from, to),
           from # "idle", to # "idle", loc' = loc,
           to \in Holding => loc[t].entry # NoEntry
    PROVE  Moves(t) /\ pc[t] = from /\ pc'[t] = to
BY MoveFacts DEF IInv, TypeOK, Moves, Others

\* ... that gives it new ones.
Sets(t, from, to, l) == Goto(t, from, to) /\ loc' = [loc EXCEPT ![t] = l]

LEMMA MovesWith ==
    ASSUME IInv, NEW t \in Threads, NEW from, NEW to \in PCs, NEW l \in Busy,
           Sets(t, from, to, l), to # "idle", to \in Holding => l.entry # NoEntry
    PROVE  Moves(t) /\ pc[t] = from /\ pc'[t] = to /\ loc'[t] = l
<1>1. loc' \in [Threads -> Locals] /\ loc'[t] = l /\ loc'[t].inst # NoEntry
      /\ \A u \in Threads : u # t => loc'[u] = loc[u]
  BY LocFacts DEF IInv, Busy, Sets
<1>2. QED  BY <1>1, MoveFacts DEF IInv, Moves, Others, Sets

\* ... and one that ends its request.
LEMMA MovesAnswer ==
    ASSUME IInv, NEW t \in Threads, Answer(t)
    PROVE  Moves(t) /\ pc'[t] = "idle"
BY AnswerFacts, Distinct DEF IInv, Moves, Others, Holding

LEMMA IssueFacts ==
    ASSUME TypeOK, NEW t \in Threads, NEW spent, Issue(t, spent)
    PROVE  /\ issued' \in 0..MaxPairs /\ issued + 1 \in 0..MaxPairs
           /\ born' \in [Pairs -> 0..MaxTime] /\ live' \subseteq Pairs
<1>1. issued + 1 \in Pairs /\ issued + 1 \in 0..MaxPairs
  BY TokenAssumption DEF TypeOK, Issue, Pairs
<1>2. QED  BY <1>1 DEF TypeOK, Issue

-----------------------------------------------------------------------------
(* The actions, in the order of the model. *)

LEMMA ExchangeIInv ==
    ASSUME IInv, NEW t \in Threads, NEW i \in Installations, NEW a \in Accounts,
           Exchange(t, i, a)
    PROVE  IInv'
<1>. USE DEF PCs, Holding, Locked, Locks
<1>d. DataOK /\ TypeOK
  BY DataFacts DEF IInv
<1>1. issued' \in 0..MaxPairs /\ issued + 1 \in 0..MaxPairs
      /\ born' \in [Pairs -> 0..MaxTime] /\ live' \subseteq Pairs
  BY <1>d, IssueFacts DEF Exchange
<1>. DEFINE l == [inst |-> i, acct |-> a, entry |-> NoEntry, pair |-> issued + 1]
<1>2. l \in Busy
  BY <1>1 DEF Busy
<1>6. Sets(t, "idle", "cTokens", l)
  BY DEF Exchange, Sets
<1>. HIDE DEF l
<1>3. Moves(t) /\ pc[t] = "idle" /\ pc'[t] = "cTokens"
  BY <1>2, <1>6, MovesWith
<1>4. DataOK' /\ Locks(t)
  BY <1>d, <1>1, <1>3 DEF Exchange, DataOK
<1>5. QED  BY <1>3, <1>4, SafeKeep

LEMMA CallbackIInv ==
    ASSUME IInv, NEW t \in Threads, CallbackSaveTokens(t) \/ CallbackSaveConnection(t)
    PROVE  IInv'
<1>. USE DEF PCs, Holding, Locked, Locks
<1>d. DataOK /\ TypeOK
  BY DataFacts DEF IInv
<1>2. CASE CallbackSaveTokens(t)
  <2>1. Moves(t) /\ pc[t] = "cTokens" /\ pc'[t] = "cConn"
    BY <1>2, MovesGoto DEF CallbackSaveTokens
  <2>2. loc[t].acct \in Accounts /\ loc[t].pair \in 0..MaxPairs
    BY <1>d, <2>1, BusyFacts
  <2>3. DataOK' /\ Locks(t)
    BY <1>2, <1>d, <2>1, <2>2 DEF CallbackSaveTokens, DataOK
  <2>4. QED  BY <2>1, <2>3, SafeKeep
<1>3. CASE CallbackSaveConnection(t)
  <2>1. Moves(t) /\ pc[t] = "cConn" /\ pc'[t] = "idle"
    BY <1>3, MovesAnswer DEF CallbackSaveConnection
  <2>2. [acct |-> loc[t].acct, at |-> now] \in Entries
    BY <1>d, <2>1, BusyFacts DEF DataOK, Entries
  <2>3. DataOK' /\ Locks(t)
    BY <1>3, <1>d, <2>1, <2>2 DEF CallbackSaveConnection, DataOK
  <2>4. QED  BY <2>1, <2>3, SafeKeep
<1>4. QED  BY <1>2, <1>3

\* What the two loads keep of the row they have read.
LEMMA LoadFacts ==
    ASSUME IInv, NEW t \in Threads, NEW i \in Installations, conn[i] # NoEntry,
           NEW to \in PCs, to # "idle", Goto(t, "idle", to),
           loc' = [loc EXCEPT ![t] = [inst |-> i, acct |-> conn[i].acct,
                                      entry |-> conn[i], pair |-> 0]]
    PROVE  Moves(t) /\ pc[t] = "idle" /\ pc'[t] = to
<1>. DEFINE l == [inst |-> i, acct |-> conn[i].acct, entry |-> conn[i], pair |-> 0]
<1>1. conn[i] \in Entries /\ conn[i].acct \in Accounts /\ 0 \in 0..MaxPairs
  BY TokenAssumption DEF IInv, TypeOK, Entries
<1>2. l \in Busy /\ l.entry # NoEntry
  BY <1>1 DEF Busy
<1>3. Sets(t, "idle", to, l)
  BY DEF Sets
<1>. HIDE DEF l
<1>4. QED  BY <1>2, <1>3, MovesWith

\* One field of the locals of a busy thread changes.
LEMMA FieldFacts ==
    ASSUME IInv, NEW t \in Threads, pc[t] # "idle"
    PROVE  /\ \A p \in 0..MaxPairs :
                /\ [loc[t] EXCEPT !.pair = p] \in Busy
                /\ [loc[t] EXCEPT !.pair = p].entry = loc[t].entry
                /\ [loc[t] EXCEPT !.pair = p].acct = loc[t].acct
                /\ [loc EXCEPT ![t].pair = p] = [loc EXCEPT ![t] = [loc[t] EXCEPT !.pair = p]]
           /\ \A e \in Entries \union {NoEntry} :
                /\ [loc[t] EXCEPT !.entry = e] \in Busy
                /\ [loc[t] EXCEPT !.entry = e].acct = loc[t].acct
                /\ [loc EXCEPT ![t].entry = e] = [loc EXCEPT ![t] = [loc[t] EXCEPT !.entry = e]]
<1>1. loc[t] \in Busy /\ t \in DOMAIN loc
  BY BusyFacts DEF IInv, TypeOK, Busy
<1>2. QED  BY <1>1 DEF Busy

SetsPair(t, from, to, p) == Goto(t, from, to) /\ loc' = [loc EXCEPT ![t].pair = p]

LEMMA MovesPair ==
    ASSUME IInv, NEW t \in Threads, NEW from, NEW to \in PCs, NEW p \in 0..MaxPairs,
           SetsPair(t, from, to, p), from # "idle", to # "idle",
           to \in Holding => loc[t].entry # NoEntry
    PROVE  Moves(t) /\ pc[t] = from /\ pc'[t] = to /\ SameKey(t)
<1>1. pc[t] # "idle"
  BY DEF Goto, SetsPair
<1>. DEFINE l == [loc[t] EXCEPT !.pair = p]
<1>2. l \in Busy /\ l.entry = loc[t].entry /\ l.acct = loc[t].acct
      /\ Sets(t, from, to, l)
  BY <1>1, FieldFacts DEF Sets, SetsPair
<1>. HIDE DEF l
<1>3. to \in Holding => l.entry # NoEntry
  BY <1>2
<1>4. Moves(t) /\ pc[t] = from /\ pc'[t] = to /\ loc'[t] = l
  BY <1>2, <1>3, MovesWith
<1>5. QED  BY <1>2, <1>4 DEF SameKey

LEMMA LoadIInv ==
    ASSUME IInv, NEW t \in Threads, NEW i \in Installations,
           LoadConnection(t, i) \/ DisconnectLoad(t, i)
    PROVE  IInv'
<1>. USE DEF PCs, Holding, Locked, Locks
<1>d. DataOK
  BY DataFacts DEF IInv
<1>1. Moves(t) /\ pc[t] = "idle" /\ pc'[t] \in {"eTokens", "dTokens"}
  BY LoadFacts DEF LoadConnection, DisconnectLoad
<1>2. DataOK' /\ Locks(t)
  BY <1>d, <1>1 DEF LoadConnection, DisconnectLoad, DataOK
<1>3. QED  BY <1>1, <1>2, SafeKeep

LEMMA LockIInv ==
    ASSUME IInv, NEW t \in Threads, LoadTokens(t) \/ Lock(t) \/ Reload(t)
    PROVE  IInv'
<1>. USE DEF PCs, Holding, Locked, Locks
<1>d. DataOK /\ TypeOK /\ EntryInv
  BY DataFacts DEF IInv
<1>1. CASE LoadTokens(t)
  <2>1. CASE Answer(t)
    <3>1. Moves(t) /\ pc'[t] = "idle" /\ pc[t] = "eTokens"
      BY <1>1, <2>1, MovesAnswer DEF LoadTokens
    <3>2. DataOK' /\ Locks(t)
      BY <1>1, <1>d, <3>1 DEF LoadTokens, DataOK
    <3>3. QED  BY <3>1, <3>2, SafeKeep
  <2>2. CASE ~Answer(t)
    <3>1. /\ Goto(t, "eTokens", IF Fresh(loc[t].entry) THEN "using" ELSE "eLock")
          /\ loc' = [loc EXCEPT ![t].pair = tok[loc[t].acct]]
      BY <1>1, <2>2 DEF LoadTokens
    <3>2. pc[t] = "eTokens" /\ loc[t].entry # NoEntry /\ tok[loc[t].acct] \in 0..MaxPairs
      BY <1>1, <1>d, BusyFacts DEF LoadTokens, EntryInv, DataOK
    <3>. DEFINE p == tok[loc[t].acct]
    <3>6. p \in 0..MaxPairs /\ loc' = [loc EXCEPT ![t].pair = p]
      BY <3>1, <3>2
    <3>7. Goto(t, "eTokens", "using") \/ Goto(t, "eTokens", "eLock")
      BY <3>1
    <3>. HIDE DEF p
    <3>8. ASSUME Goto(t, "eTokens", "using") PROVE Moves(t) /\ pc'[t] = "using"
      <4>1. SetsPair(t, "eTokens", "using", p) /\ "using" \in PCs
        BY <3>6, <3>8 DEF SetsPair
      <4>. HIDE DEF PCs, Holding
      <4>2. QED  BY <3>2, <3>6, <4>1, MovesPair
    <3>9. ASSUME Goto(t, "eTokens", "eLock") PROVE Moves(t) /\ pc'[t] = "eLock"
      <4>1. SetsPair(t, "eTokens", "eLock", p) /\ "eLock" \in PCs
        BY <3>6, <3>9 DEF SetsPair
      <4>. HIDE DEF PCs, Holding
      <4>2. QED  BY <3>2, <3>6, <4>1, MovesPair
    <3>3. Moves(t) /\ pc'[t] \in {"using", "eLock"}
      BY <3>7, <3>8, <3>9
    <3>4. DataOK' /\ Locks(t)
      BY <1>1, <1>d, <3>2, <3>3 DEF LoadTokens, DataOK
    <3>5. QED  BY <3>3, <3>4, SafeKeep
  <2>3. QED  BY <2>1, <2>2
<1>2. CASE Lock(t)
  <2>1. pc[t] = "eLock" /\ loc[t].entry # NoEntry /\ Key(t) \in Processes \X Accounts
    BY <1>2, <1>d, BusyFacts DEF Lock, Goto, EntryInv
  <2>2. Moves(t) /\ pc'[t] = "eReload"
    BY <1>2, <2>1, MovesGoto DEF Lock
  <2>3. DataOK'
    BY <1>2, <1>d, <2>1 DEF Lock, DataOK
  <2>4. Locks(t)
    BY <1>2, <2>1, <2>2 DEF Lock, SameKey
  <2>5. QED  BY <2>2, <2>3, <2>4, SafeKeep
<1>3. CASE Reload(t)
  <2>1. pc[t] = "eReload" /\ pc[t] # "idle"
    BY <1>3 DEF Reload, Goto
  <2>2. conn[loc[t].inst] \in Entries \union {NoEntry}
    BY <1>d, <2>1, BusyFacts DEF DataOK
  <2>. DEFINE l == [loc[t] EXCEPT !.entry = conn[loc[t].inst]]
  <2>3. l \in Busy /\ l.acct = loc[t].acct /\ loc' = [loc EXCEPT ![t] = l]
    BY <1>3, <2>1, <2>2, FieldFacts DEF Reload
  <2>7. Sets(t, "eReload", "eRetokens", l) /\ "eRetokens" \in PCs \ Holding
    BY <1>3, <2>3 DEF Reload, Sets
  <2>. HIDE DEF l
  <2>4. Moves(t) /\ pc'[t] = "eRetokens" /\ loc'[t] = l
    <3>. HIDE DEF PCs, Holding
    <3>1. QED  BY <2>3, <2>7, MovesWith
  <2>5. DataOK' /\ Locks(t)
    BY <1>3, <1>d, <2>1, <2>3, <2>4 DEF Reload, DataOK, SameKey
  <2>6. QED  BY <2>4, <2>5, SafeKeep
<1>4. QED  BY <1>1, <1>2, <1>3

\* Leaving through the lock.
LEMMA UnlockFacts ==
    ASSUME IInv, NEW t \in Threads, pc[t] \in Locked, pc'[t] \notin Locked, Unlock(t)
    PROVE  /\ lock' \in [Processes \X Accounts -> Threads \union {NoThread}]
           /\ Locks(t)
BY DEF IInv, TypeOK, Unlock, Locks

LEMMA ReloadTokensIInv ==
    ASSUME IInv, NEW t \in Threads, ReloadTokens(t)
    PROVE  IInv'
<1>. USE DEF PCs, Holding, Locked
<1>d. DataOK /\ TypeOK /\ pc[t] = "eRetokens"
  BY DataFacts DEF IInv, ReloadTokens
<1>1. CASE loc[t].entry = NoEntry \/ tok[loc[t].acct] = 0
  <2>1. Moves(t) /\ pc'[t] = "idle" /\ Unlock(t)
    BY <1>1, MovesAnswer DEF ReloadTokens
  <2>2. DataOK' /\ Locks(t)
    BY <1>d, <2>1, UnlockFacts DEF ReloadTokens, DataOK
  <2>3. QED  BY <2>1, <2>2, SafeKeep
<1>2. CASE ~(loc[t].entry = NoEntry \/ tok[loc[t].acct] = 0)
  <2>. DEFINE p == tok[loc[t].acct]
  <2>1. p \in 0..MaxPairs /\ loc[t].entry # NoEntry /\ loc' = [loc EXCEPT ![t].pair = p]
    BY <1>2, <1>d, BusyFacts DEF ReloadTokens, DataOK
  <2>2. \/ Goto(t, "eRetokens", "using") /\ Unlock(t)
        \/ Goto(t, "eRetokens", "eRefresh") /\ UNCHANGED lock
    BY <1>2 DEF ReloadTokens
  <2>. HIDE DEF p
  <2>3. ASSUME Goto(t, "eRetokens", "using"), Unlock(t) PROVE IInv'
    <3>1. Moves(t) /\ pc'[t] = "using"
      <4>1. SetsPair(t, "eRetokens", "using", p) /\ "using" \in PCs
        BY <2>1, <2>3 DEF SetsPair
      <4>. HIDE DEF PCs, Holding
      <4>2. QED  BY <2>1, <4>1, MovesPair
    <3>2. DataOK' /\ Locks(t)
      BY <1>d, <2>3, <3>1, UnlockFacts DEF ReloadTokens, DataOK
    <3>3. QED  BY <3>1, <3>2, SafeKeep
  <2>6. ASSUME Goto(t, "eRetokens", "eRefresh")
        PROVE  Moves(t) /\ pc'[t] = "eRefresh" /\ SameKey(t)
    <3>. DEFINE l == [loc[t] EXCEPT !.pair = p]
    <3>1. l \in Busy /\ l.entry # NoEntry /\ l.acct = loc[t].acct
          /\ Sets(t, "eRetokens", "eRefresh", l)
      BY <1>d, <2>1, <2>6, FieldFacts DEF Sets
    <3>. HIDE DEF l
    <3>2. Moves(t) /\ pc'[t] = "eRefresh" /\ loc'[t] = l
      <4>1. "eRefresh" \in PCs
        OBVIOUS
      <4>. HIDE DEF PCs, Holding
      <4>2. QED  BY <2>6, <3>1, <4>1, MovesWith
    <3>3. QED  BY <3>1, <3>2 DEF SameKey
  <2>4. ASSUME Goto(t, "eRetokens", "eRefresh"), UNCHANGED lock PROVE IInv'
    <3>1. Moves(t) /\ pc'[t] = "eRefresh" /\ SameKey(t)
      BY <2>4, <2>6
    <3>2. DataOK' /\ Locks(t)
      BY <1>d, <2>4, <3>1 DEF ReloadTokens, DataOK, Locks
    <3>3. QED  BY <3>1, <3>2, SafeKeep
  <2>5. QED  BY <2>2, <2>3, <2>4
<1>3. QED  BY <1>1, <1>2

LEMMA RefreshIInv ==
    ASSUME IInv, NEW t \in Threads, RefreshOk(t) \/ RefreshFails(t)
    PROVE  IInv'
<1>. USE DEF PCs, Holding, Locked
<1>d. DataOK /\ TypeOK /\ EntryInv /\ pc[t] = "eRefresh"
  BY DataFacts DEF IInv, RefreshOk, RefreshFails, Goto
<1>1. CASE RefreshOk(t)
  <2>1. issued' \in 0..MaxPairs /\ issued + 1 \in 0..MaxPairs
        /\ born' \in [Pairs -> 0..MaxTime] /\ live' \subseteq Pairs
    BY <1>1, <1>d, IssueFacts DEF RefreshOk
  <2>2. loc[t].entry # NoEntry /\ SetsPair(t, "eRefresh", "eSave", issued + 1)
        /\ "eSave" \in PCs
    BY <1>1, <1>d DEF RefreshOk, EntryInv, SetsPair
  <2>3. Moves(t) /\ pc'[t] = "eSave" /\ SameKey(t)
    <3>. HIDE DEF PCs, Holding
    <3>1. QED  BY <2>1, <2>2, MovesPair
  <2>4. DataOK' /\ Locks(t)
    BY <1>1, <1>d, <2>1, <2>3 DEF RefreshOk, DataOK, Locks
  <2>5. QED  BY <2>3, <2>4, SafeKeep
<1>2. CASE RefreshFails(t)
  <2>1. Moves(t) /\ pc'[t] = "idle" /\ Unlock(t)
    BY <1>2, MovesAnswer DEF RefreshFails
  <2>2. live' \subseteq Pairs
    BY <1>2, <1>d DEF RefreshFails, DataOK
  <2>3. DataOK' /\ Locks(t)
    BY <1>2, <1>d, <2>1, <2>2, UnlockFacts DEF RefreshFails, DataOK
  <2>4. QED  BY <2>1, <2>3, SafeKeep
<1>3. QED  BY <1>1, <1>2

LEMMA SaveIInv ==
    ASSUME IInv, NEW t \in Threads,
           RefreshSaveTokens(t) \/ RefreshSaveConnection(t) \/ Use(t)
    PROVE  IInv'
<1>. USE DEF PCs, Holding, Locked
<1>d. DataOK /\ TypeOK /\ EntryInv
  BY DataFacts DEF IInv
<1>1. CASE RefreshSaveTokens(t)
  <2>1. pc[t] = "eSave" /\ loc[t].entry # NoEntry /\ Goto(t, "eSave", "eConn")
    BY <1>1, <1>d DEF RefreshSaveTokens, Goto, EntryInv
  <2>2. loc[t].acct \in Accounts /\ loc[t].pair \in 0..MaxPairs
    BY <1>d, <2>1, BusyFacts
  <2>3. Moves(t) /\ pc'[t] = "eConn"
    BY <1>1, <2>1, MovesGoto DEF RefreshSaveTokens
  <2>4. DataOK' /\ Locks(t)
    BY <1>1, <1>d, <2>1, <2>2, <2>3 DEF RefreshSaveTokens, DataOK, Locks, SameKey
  <2>5. QED  BY <2>3, <2>4, SafeKeep
<1>2. CASE RefreshSaveConnection(t)
  <2>1. pc[t] = "eConn" /\ loc[t].entry # NoEntry /\ Goto(t, "eConn", "using")
    BY <1>2, <1>d DEF RefreshSaveConnection, Goto, EntryInv
  <2>2. loc[t].inst \in Installations /\ loc[t].entry \in Entries
    BY <1>d, <2>1, BusyFacts
  <2>3. [loc[t].entry EXCEPT !.at = now] \in Entries
    BY <1>d, <2>2 DEF DataOK, Entries
  <2>4. Moves(t) /\ pc'[t] = "using" /\ Unlock(t)
    BY <1>2, <2>1, MovesGoto DEF RefreshSaveConnection
  <2>5. DataOK' /\ Locks(t)
    BY <1>2, <1>d, <2>1, <2>2, <2>3, <2>4, UnlockFacts DEF RefreshSaveConnection, DataOK
  <2>6. QED  BY <2>4, <2>5, SafeKeep
<1>3. CASE Use(t)
  <2>1. Moves(t) /\ pc[t] = "using" /\ pc'[t] = "idle"
    BY <1>3, MovesAnswer DEF Use
  <2>2. DataOK' /\ Locks(t)
    BY <1>3, <1>d, <2>1 DEF Use, DataOK, Locks
  <2>3. QED  BY <2>1, <2>2, SafeKeep
<1>4. QED  BY <1>1, <1>2, <1>3

LEMMA DisconnectIInv ==
    ASSUME IInv, NEW t \in Threads,
           \/ DisconnectTokens(t) \/ DeleteConnection(t) \/ ListReferencing(t)
           \/ DeleteTokens(t) \/ Revoke(t)
    PROVE  IInv'
<1>. USE DEF PCs, Holding, Locked
<1>d. DataOK /\ TypeOK
  BY DataFacts DEF IInv
<1>1. CASE DisconnectTokens(t)
  <2>. DEFINE p == tok[loc[t].acct]
  <2>1. pc[t] = "dTokens" /\ SetsPair(t, "dTokens", "dDelete", p)
        /\ "dDelete" \in PCs \ Holding
    BY <1>1 DEF DisconnectTokens, Goto, SetsPair
  <2>2. p \in 0..MaxPairs
    BY <1>d, <2>1, BusyFacts DEF DataOK
  <2>. HIDE DEF p
  <2>3. Moves(t) /\ pc'[t] = "dDelete"
    <3>. HIDE DEF PCs, Holding
    <3>1. QED  BY <2>1, <2>2, MovesPair
  <2>4. DataOK' /\ Locks(t)
    BY <1>1, <1>d, <2>1, <2>3 DEF DisconnectTokens, DataOK, Locks
  <2>5. QED  BY <2>3, <2>4, SafeKeep
<1>2. CASE DeleteConnection(t)
  <2>1. pc[t] = "dDelete" /\ (Answer(t) \/ (Goto(t, "dDelete", "dRefs") /\ UNCHANGED loc))
    BY <1>2 DEF DeleteConnection
  <2>2. Moves(t) /\ pc'[t] \in {"idle", "dRefs"}
    BY <2>1, MovesAnswer, MovesGoto
  <2>3. DataOK' /\ Locks(t)
    BY <1>2, <1>d, <2>1, <2>2 DEF DeleteConnection, DataOK, Locks
  <2>4. QED  BY <2>2, <2>3, SafeKeep
<1>3. CASE ListReferencing(t)
  <2>1. pc[t] = "dRefs" /\ UNCHANGED loc
        /\ (Goto(t, "dRefs", "dRevoke") \/ Goto(t, "dRefs", "dTokDelete"))
    BY <1>3 DEF ListReferencing, Goto
  <2>2. Moves(t) /\ pc'[t] \in {"dRevoke", "dTokDelete"}
    BY <2>1, MovesGoto
  <2>3. DataOK' /\ Locks(t)
    BY <1>3, <1>d, <2>1, <2>2 DEF ListReferencing, DataOK, Locks
  <2>4. QED  BY <2>2, <2>3, SafeKeep
<1>4. CASE DeleteTokens(t)
  <2>1. pc[t] = "dTokDelete" /\ Goto(t, "dTokDelete", "dRevoke") /\ UNCHANGED loc
    BY <1>4 DEF DeleteTokens, Goto
  <2>2. Moves(t) /\ pc'[t] = "dRevoke" /\ loc[t].acct \in Accounts
    BY <1>d, <2>1, MovesGoto, BusyFacts
  <2>3. DataOK' /\ Locks(t)
    BY <1>4, <1>d, <2>1, <2>2, TokenAssumption DEF DeleteTokens, DataOK, Locks
  <2>4. QED  BY <2>2, <2>3, SafeKeep
<1>5. CASE Revoke(t)
  <2>1. Moves(t) /\ pc[t] = "dRevoke" /\ pc'[t] = "idle"
    BY <1>5, MovesAnswer DEF Revoke
  <2>2. live' \subseteq Pairs
    BY <1>5, <1>d DEF Revoke, DataOK
  <2>3. DataOK' /\ Locks(t)
    BY <1>5, <1>d, <2>1, <2>2 DEF Revoke, DataOK, Locks
  <2>4. QED  BY <2>1, <2>3, SafeKeep
<1>6. QED  BY <1>1, <1>2, <1>3, <1>4, <1>5

-----------------------------------------------------------------------------

LEMMA InitIInv == Init => IInv
<1>1. Init => TypeOK
  BY TokenAssumption, Distinct DEF Init, TypeOK, PCs, Pairs
<1>2. Init => EntryInv /\ LockInv
  BY DEF Init, EntryInv, LockInv, Locked
<1>3. QED  BY <1>1, <1>2 DEF IInv

LEMMA KeepIInv == ASSUME IInv, now' \in 0..MaxTime,
                         UNCHANGED <<conn, tok, lock, issued, born, live, pc, loc>>
                  PROVE  IInv'
BY DEF IInv, TypeOK, EntryInv, LockInv, Key

LEMMA StepIInv == IInv /\ [Next]_vars => IInv'
<1>. SUFFICES ASSUME IInv, [Next]_vars PROVE IInv'
  OBVIOUS
<1>1. CASE Tick
  <2>1. now' \in 0..MaxTime
    BY <1>1, TokenAssumption DEF IInv, TypeOK, Tick
  <2>2. QED  BY <1>1, <2>1, KeepIInv DEF Tick
<1>2. CASE UNCHANGED vars
  BY <1>2, KeepIInv DEF vars, IInv, TypeOK
<1>3. ASSUME NEW t \in Threads, Step(t) PROVE IInv'
  BY <1>3, CallbackIInv, LockIInv, ReloadTokensIInv, RefreshIInv, SaveIInv, DisconnectIInv
     DEF Step
<1>4. ASSUME NEW t \in Threads, NEW i \in Installations,
             \/ \E a \in Accounts : Exchange(t, i, a)
             \/ LoadConnection(t, i)
             \/ DisconnectLoad(t, i)
      PROVE IInv'
  BY <1>4, ExchangeIInv, LoadIInv
<1>5. QED  BY <1>1, <1>2, <1>3, <1>4 DEF Next

LEMMA Inductive == Spec => []IInv
BY InitIInv, StepIInv, PTL DEF Spec

\* The tables, the locks and the requests stay well formed; a request has its
\* locals exactly while it runs.
THEOREM TypeCorrect == Spec => []TypeOK
<1>1. IInv => TypeOK
  BY DEF IInv
<1>. QED  BY <1>1, Inductive, PTL

\* One refresh at a time per account in each process, for any of them.
THEOREM SingleFlightCorrect == Spec => []SingleFlight
<1>1. IInv => SingleFlight
  BY DEF IInv, LockInv, SingleFlight
<1>. QED  BY <1>1, Inductive, PTL

-----------------------------------------------------------------------------
(* What each step does to the locals of its thread, field by field.        *)

Moved(t, from, to, entry, pair) ==
    /\ Others(t) /\ pc[t] = from /\ pc'[t] = to
    /\ SameKey(t) /\ loc'[t].inst = loc[t].inst
    /\ loc'[t].entry = entry /\ loc'[t].pair = pair

Ended(t, from) == Others(t) /\ pc[t] = from /\ pc'[t] = "idle" /\ loc'[t] = NoLoc

LEMMA GotoMoved ==
    ASSUME TypeOK, NEW t \in Threads, NEW from, NEW to \in PCs, Goto(t, from, to), loc' = loc
    PROVE  Moved(t, from, to, loc[t].entry, loc[t].pair)
BY MoveFacts DEF Moved, Others, SameKey

LEMMA PairMoved ==
    ASSUME TypeOK, NEW t \in Threads, NEW from, NEW to \in PCs, Goto(t, from, to), from # "idle",
           NEW p \in 0..MaxPairs, loc' = [loc EXCEPT ![t].pair = p]
    PROVE  Moved(t, from, to, loc[t].entry, p)
<1>1. loc[t] \in Busy /\ t \in DOMAIN loc
  BY BusyFacts DEF TypeOK, Goto, Busy
<1>2. /\ loc'[t].inst = loc[t].inst /\ loc'[t].acct = loc[t].acct
      /\ loc'[t].entry = loc[t].entry /\ loc'[t].pair = p
  BY <1>1 DEF Busy
<1>3. \A u \in Threads : u # t => loc'[u] = loc[u]
  BY DEF TypeOK
<1>. QED  BY <1>2, <1>3, MoveFacts DEF Moved, Others, SameKey

LEMMA AnswerEnded ==
    ASSUME TypeOK, NEW t \in Threads, Answer(t) PROVE Ended(t, pc[t])
BY AnswerFacts DEF Ended, Others

LEMMA CallbackShape ==
    ASSUME TypeOK, NEW t \in Threads
    PROVE  /\ CallbackSaveTokens(t) => Moved(t, "cTokens", "cConn", loc[t].entry, loc[t].pair)
           /\ CallbackSaveConnection(t) => Ended(t, "cConn")
BY GotoMoved, AnswerEnded DEF CallbackSaveTokens, CallbackSaveConnection, PCs

LEMMA RefreshShape ==
    ASSUME TypeOK, NEW t \in Threads
    PROVE  /\ LoadTokens(t) =>
                \/ Ended(t, "eTokens")
                \/ /\ tok[loc[t].acct] # 0
                   /\ Moved(t, "eTokens", IF Fresh(loc[t].entry) THEN "using" ELSE "eLock",
                            loc[t].entry, tok[loc[t].acct])
           /\ Lock(t) => Moved(t, "eLock", "eReload", loc[t].entry, loc[t].pair)
           /\ Reload(t) => Moved(t, "eReload", "eRetokens", conn[loc[t].inst], loc[t].pair)
           /\ ReloadTokens(t) =>
                \/ Ended(t, "eRetokens")
                \/ /\ loc[t].entry # NoEntry /\ tok[loc[t].acct] # 0
                   /\ Moved(t, "eRetokens", IF Fresh(loc[t].entry) THEN "using" ELSE "eRefresh",
                            loc[t].entry, tok[loc[t].acct])
           /\ RefreshOk(t) => Moved(t, "eRefresh", "eSave", loc[t].entry, issued + 1)
           /\ RefreshFails(t) => Ended(t, "eRefresh")
           /\ RefreshSaveTokens(t) => Moved(t, "eSave", "eConn", loc[t].entry, loc[t].pair)
           /\ RefreshSaveConnection(t) => Moved(t, "eConn", "using", loc[t].entry, loc[t].pair)
           /\ Use(t) => Ended(t, "using")
<1>. USE DEF PCs
<1>1. pc[t] # "idle" => tok[loc[t].acct] \in 0..MaxPairs
  BY BusyFacts DEF TypeOK
<1>2. ASSUME LoadTokens(t), ~Ended(t, "eTokens")
      PROVE  /\ tok[loc[t].acct] # 0
             /\ Moved(t, "eTokens", IF Fresh(loc[t].entry) THEN "using" ELSE "eLock",
                      loc[t].entry, tok[loc[t].acct])
  <2>. DEFINE to == IF Fresh(loc[t].entry) THEN "using" ELSE "eLock"
              p == tok[loc[t].acct]
  <2>1. p # 0 /\ Goto(t, "eTokens", to) /\ loc' = [loc EXCEPT ![t].pair = p]
    BY <1>2, AnswerEnded DEF LoadTokens
  <2>2. to \in PCs
    OBVIOUS
  <2>3. p \in 0..MaxPairs
    BY <1>1, <1>2 DEF LoadTokens
  <2>. HIDE DEF to, p
  <2>4. Moved(t, "eTokens", to, loc[t].entry, p)
    BY <2>1, <2>2, <2>3, PairMoved
  <2>. QED  BY <2>1, <2>4 DEF to, p
<1>3. Lock(t) => Moved(t, "eLock", "eReload", loc[t].entry, loc[t].pair)
  BY GotoMoved DEF Lock
<1>4. ASSUME Reload(t) PROVE Moved(t, "eReload", "eRetokens", conn[loc[t].inst], loc[t].pair)
  <2>1. loc[t] \in Busy /\ t \in DOMAIN loc
    BY <1>4, BusyFacts DEF TypeOK, Goto, Busy, Reload
  <2>. DEFINE e == conn[loc[t].inst]
  <2>2. Goto(t, "eReload", "eRetokens") /\ loc' = [loc EXCEPT ![t].entry = e]
    BY <1>4 DEF Reload
  <2>. HIDE DEF e
  <2>3. /\ loc'[t].inst = loc[t].inst /\ loc'[t].acct = loc[t].acct
        /\ loc'[t].entry = e /\ loc'[t].pair = loc[t].pair
    BY <2>1, <2>2 DEF Busy
  <2>4. \A u \in Threads : u # t => loc'[u] = loc[u]
    BY <2>2 DEF TypeOK
  <2>. QED  BY <2>2, <2>3, <2>4, MoveFacts DEF Moved, Others, SameKey, e
<1>5. ASSUME ReloadTokens(t), ~Ended(t, "eRetokens")
      PROVE  /\ loc[t].entry # NoEntry /\ tok[loc[t].acct] # 0
             /\ Moved(t, "eRetokens", IF Fresh(loc[t].entry) THEN "using" ELSE "eRefresh",
                      loc[t].entry, tok[loc[t].acct])
  <2>. DEFINE to == IF Fresh(loc[t].entry) THEN "using" ELSE "eRefresh"
              p == tok[loc[t].acct]
  <2>1. /\ p # 0 /\ loc[t].entry # NoEntry
        /\ Goto(t, "eRetokens", to) /\ loc' = [loc EXCEPT ![t].pair = p]
    BY <1>5, AnswerEnded DEF ReloadTokens
  <2>2. to \in PCs
    OBVIOUS
  <2>3. p \in 0..MaxPairs
    BY <1>1, <1>5 DEF ReloadTokens
  <2>. HIDE DEF to, p
  <2>4. Moved(t, "eRetokens", to, loc[t].entry, p)
    BY <2>1, <2>2, <2>3, PairMoved
  <2>. QED  BY <2>1, <2>4 DEF to, p
<1>6. ASSUME RefreshOk(t) PROVE Moved(t, "eRefresh", "eSave", loc[t].entry, issued + 1)
  <2>. DEFINE p == issued + 1
  <2>1. p \in 0..MaxPairs
    BY <1>6, IssueFacts DEF RefreshOk
  <2>2. Goto(t, "eRefresh", "eSave") /\ loc' = [loc EXCEPT ![t].pair = p]
    BY <1>6 DEF RefreshOk
  <2>. HIDE DEF p
  <2>3. Moved(t, "eRefresh", "eSave", loc[t].entry, p)
    BY <2>1, <2>2, PairMoved
  <2>. QED  BY <2>3 DEF p
<1>7. RefreshFails(t) => Ended(t, "eRefresh")
  BY AnswerEnded DEF RefreshFails
<1>8. RefreshSaveTokens(t) => Moved(t, "eSave", "eConn", loc[t].entry, loc[t].pair)
  BY GotoMoved DEF RefreshSaveTokens
<1>9. RefreshSaveConnection(t) => Moved(t, "eConn", "using", loc[t].entry, loc[t].pair)
  BY GotoMoved DEF RefreshSaveConnection
<1>10. Use(t) => Ended(t, "using")
  BY AnswerEnded DEF Use
<1>. QED  BY <1>2, <1>3, <1>4, <1>5, <1>6, <1>7, <1>8, <1>9, <1>10

Erasing == {"dTokens", "dDelete", "dRefs", "dTokDelete", "dRevoke"}

\* A step of a disconnect stays in it or ends the request.
LEMMA EraseShape ==
    ASSUME TypeOK, NEW t \in Threads,
           \/ DisconnectTokens(t) \/ DeleteConnection(t) \/ ListReferencing(t)
           \/ DeleteTokens(t) \/ Revoke(t)
    PROVE  /\ Others(t) /\ pc[t] \in Erasing
           /\ pc'[t] \in Erasing \union {"idle"} /\ loc'[t].pair \in 0..MaxPairs
           /\ \/ loc'[t].pair = loc[t].pair \/ loc'[t].pair = 0
              \/ loc'[t].pair = tok[loc[t].acct] /\ loc[t].acct \in Accounts
<1>. USE DEF PCs, Erasing
<1>1. CASE DisconnectTokens(t)
  <2>. DEFINE p == tok[loc[t].acct]
  <2>1. loc[t].acct \in Accounts /\ p \in 0..MaxPairs
    BY <1>1, BusyFacts DEF TypeOK, DisconnectTokens, Goto
  <2>2. Goto(t, "dTokens", "dDelete") /\ loc' = [loc EXCEPT ![t].pair = p]
    BY <1>1 DEF DisconnectTokens
  <2>. HIDE DEF p
  <2>3. Moved(t, "dTokens", "dDelete", loc[t].entry, p)
    BY <2>1, <2>2, PairMoved
  <2>. QED  BY <2>1, <2>3 DEF Moved, p
<1>2. CASE ~DisconnectTokens(t)
  <2>1. /\ pc[t] \in Erasing
        /\ Answer(t) \/ \E to \in Erasing : Goto(t, pc[t], to) /\ loc' = loc
    BY <1>2 DEF DeleteConnection, ListReferencing, DeleteTokens, Revoke, Goto
  <2>2. CASE Answer(t)
    BY <2>1, <2>2, AnswerFacts, TokenAssumption DEF Others, NoLoc
  <2>3. ASSUME NEW to \in Erasing, Goto(t, pc[t], to), loc' = loc
        PROVE  Others(t) /\ pc'[t] = to /\ loc'[t].pair = loc[t].pair
    BY <2>3, MoveFacts DEF Others
  <2>4. loc[t].pair \in 0..MaxPairs
    BY <2>1, BusyFacts
  <2>. QED  BY <2>1, <2>2, <2>3, <2>4
<1>. QED  BY <1>1, <1>2

\* A request that begins, with what it has read.
LEMMA BeginShape ==
    ASSUME TypeOK, NEW t \in Threads, NEW i \in Installations
    PROVE  /\ \A a \in Accounts : Exchange(t, i, a) =>
                /\ Others(t) /\ pc[t] = "idle" /\ pc'[t] = "cTokens"
                /\ loc'[t] = [inst |-> i, acct |-> a, entry |-> NoEntry, pair |-> issued + 1]
           /\ LoadConnection(t, i) \/ DisconnectLoad(t, i) =>
                /\ Others(t) /\ pc[t] = "idle" /\ conn[i] # NoEntry
                /\ pc'[t] = IF LoadConnection(t, i) THEN "eTokens" ELSE "dTokens"
                /\ loc'[t] = [inst |-> i, acct |-> conn[i].acct, entry |-> conn[i], pair |-> 0]
<1>1. ASSUME NEW a \in Accounts, Exchange(t, i, a)
      PROVE  /\ Others(t) /\ pc[t] = "idle" /\ pc'[t] = "cTokens"
             /\ loc'[t] = [inst |-> i, acct |-> a, entry |-> NoEntry, pair |-> issued + 1]
  BY <1>1 DEF Exchange, Goto, Others, TypeOK
<1>2. ASSUME LoadConnection(t, i) \/ DisconnectLoad(t, i)
      PROVE  /\ Others(t) /\ pc[t] = "idle" /\ conn[i] # NoEntry
             /\ pc'[t] = IF LoadConnection(t, i) THEN "eTokens" ELSE "dTokens"
             /\ loc'[t] = [inst |-> i, acct |-> conn[i].acct, entry |-> conn[i], pair |-> 0]
  BY <1>2 DEF LoadConnection, DisconnectLoad, Goto, Others, TypeOK
<1>. QED  BY <1>1, <1>2

-----------------------------------------------------------------------------
(* What is known of the pairs: those in use have been issued, and one that *)
(* is still to be stored, or its connection, is not older than the lag.    *)

Storing == {"cTokens", "cConn", "eSave", "eConn"}

Stored ==
    /\ \A a \in Accounts : tok[a] <= issued
    /\ \A t \in Threads : loc[t].pair <= issued
    /\ \A p \in 1..issued : born[p] <= now
    /\ \A t \in Threads : pc[t] \in Storing =>
         loc[t].pair # 0 /\ now <= born[loc[t].pair] + Lag

LEMMA PairFacts ==
    ASSUME TypeOK, NEW t \in Threads
    PROVE  loc[t].pair \in 0..MaxPairs
<1>1. CASE pc[t] = "idle"
  BY <1>1, Distinct, TokenAssumption DEF TypeOK, NoLoc
<1>2. CASE pc[t] # "idle"
  BY <1>2, BusyFacts
<1>. QED  BY <1>1, <1>2

\* The times are numbers, for the pairs that were issued.
LEMMA Numbers ==
    ASSUME TypeOK
    PROVE  /\ now \in Nat /\ issued \in Nat /\ Lag \in Nat /\ Life \in Nat /\ Margin \in Nat
           /\ Margin < Life /\ MaxPairs \in Nat /\ issued <= MaxPairs
           /\ \A p \in Pairs : born[p] \in Nat
           /\ \A p : p \in 1..issued => p \in Pairs
           /\ \A a \in Accounts : tok[a] \in Nat /\ tok[a] <= MaxPairs
           /\ \A t \in Threads : loc[t].pair \in Nat /\ loc[t].pair <= MaxPairs
<1>1. \A t \in Threads : loc[t].pair \in Nat /\ loc[t].pair <= MaxPairs
  BY PairFacts, TokenAssumption
<1>2. \A p \in Pairs : born[p] \in 0..MaxTime
  BY DEF TypeOK
<1>3. \A a \in Accounts : tok[a] \in 0..MaxPairs
  BY DEF TypeOK
<1>. QED  BY <1>1, <1>2, <1>3, TokenAssumption DEF TypeOK, Pairs

\* A step that lets no time pass and issues no pair.
LEMMA StoredSame ==
    ASSUME IInv, Stored, NEW t \in Threads, Others(t), UNCHANGED <<now, issued, born>>,
           \A a \in Accounts : tok'[a] = tok[a] \/ tok'[a] <= issued,
           loc'[t].pair <= issued,
           pc'[t] \in Storing => pc[t] \in Storing /\ loc'[t].pair = loc[t].pair
    PROVE  Stored'
BY DEF Stored, Others

\* A step that issues one and keeps it in its locals.
LEMMA StoredIssue ==
    ASSUME IInv, Stored, NEW t \in Threads, Others(t), NEW spent, Issue(t, spent),
           UNCHANGED <<now, tok>>, loc'[t].pair = issued + 1
    PROVE  Stored'
<1>1. /\ issued' = issued + 1 /\ issued + 1 \in Pairs /\ born'[issued + 1] = now
      /\ \A p \in Pairs : p # issued + 1 => born'[p] = born[p]
  BY TokenAssumption DEF Issue, IInv, TypeOK, Pairs
<1>2. /\ now \in Nat /\ issued \in Nat /\ Lag \in Nat
      /\ \A p : p \in 1..issued => p \in Pairs
      /\ \A a \in Accounts : tok[a] \in Nat
      /\ \A u \in Threads : loc[u].pair \in Nat
  BY Numbers DEF IInv
<1>3. \A a \in Accounts : tok'[a] <= issued'
  BY <1>1, <1>2 DEF Stored
<1>4. \A u \in Threads : loc'[u].pair <= issued'
  BY <1>1, <1>2 DEF Stored, Others
<1>5. \A p \in 1..issued' : born'[p] <= now
  BY <1>1, <1>2 DEF Stored
<1>6. ASSUME NEW u \in Threads, pc'[u] \in Storing
      PROVE  loc'[u].pair # 0 /\ now <= born'[loc'[u].pair] + Lag
  <2>1. CASE u = t
    BY <1>1, <1>2, <2>1
  <2>2. CASE u # t
    <3>1. /\ loc'[u] = loc[u] /\ loc[u].pair # 0 /\ now <= born[loc[u].pair] + Lag
          /\ loc[u].pair <= issued
      BY <1>6, <2>2 DEF Stored, Others
    <3>2. loc[u].pair \in Pairs /\ loc[u].pair # issued + 1
      BY <1>2, <3>1
    <3>. QED  BY <1>1, <3>1, <3>2
  <2>. QED  BY <2>1, <2>2
<1>. QED  BY <1>3, <1>4, <1>5, <1>6 DEF Stored

LEMMA StoredStep ==
    ASSUME IInv, Stored, NEW t \in Threads, Step(t)
    PROVE  Stored'
<1>. USE DEF Storing
<1>t. TypeOK
  BY DEF IInv
<1>n. /\ 0 <= issued /\ \A a \in Accounts : tok[a] <= issued
      /\ \A u \in Threads : loc[u].pair <= issued
  BY <1>t, Numbers DEF Stored
<1>a. pc[t] # "idle" => loc[t].acct \in Accounts
  BY <1>t, BusyFacts
<1>e. NoLoc.pair = 0
  BY DEF NoLoc
<1>1. CASE RefreshOk(t)
  BY <1>1, <1>t, RefreshShape, StoredIssue DEF RefreshOk, Moved
<1>2. CASE CallbackSaveTokens(t) \/ RefreshSaveTokens(t)
  <2>1. \A a \in Accounts : tok'[a] = tok[a] \/ tok'[a] <= issued
    BY <1>2, <1>t, <1>n DEF CallbackSaveTokens, RefreshSaveTokens, TypeOK
  <2>. QED  BY <1>2, <1>t, <1>n, <2>1, CallbackShape, RefreshShape, StoredSame
            DEF CallbackSaveTokens, RefreshSaveTokens, Moved
<1>3. CASE CallbackSaveConnection(t) \/ RefreshSaveConnection(t)
  BY <1>3, <1>t, <1>n, <1>e, CallbackShape, RefreshShape, StoredSame
     DEF CallbackSaveConnection, RefreshSaveConnection, Moved, Ended
<1>4. CASE LoadTokens(t) \/ ReloadTokens(t)
  <2>1. UNCHANGED <<now, issued, born, tok>>
    BY <1>4 DEF LoadTokens, ReloadTokens
  <2>2. Others(t) /\ loc'[t].pair <= issued /\ pc'[t] \notin Storing
    BY <1>4, <1>t, <1>n, <1>a, <1>e, RefreshShape DEF Moved, Ended
  <2>. QED  BY <2>1, <2>2, StoredSame
<1>5. CASE Lock(t) \/ Reload(t) \/ RefreshFails(t) \/ Use(t)
  <2>1. UNCHANGED <<now, issued, born, tok>>
    BY <1>5 DEF Lock, Reload, RefreshFails, Use
  <2>2. Others(t) /\ loc'[t].pair <= issued /\ pc'[t] \notin Storing
    BY <1>5, <1>t, <1>n, <1>e, RefreshShape DEF Moved, Ended
  <2>. QED  BY <2>1, <2>2, StoredSame
<1>6. CASE \/ DisconnectTokens(t) \/ DeleteConnection(t) \/ ListReferencing(t)
           \/ DeleteTokens(t) \/ Revoke(t)
  <2>1. UNCHANGED <<now, issued, born>> /\ \A a \in Accounts : tok'[a] \in {tok[a], 0}
    BY <1>6, <1>t DEF DisconnectTokens, DeleteConnection, ListReferencing, DeleteTokens,
                      Revoke, TypeOK
  <2>2. Others(t) /\ loc'[t].pair <= issued /\ pc'[t] \notin Storing
    BY <1>6, <1>t, <1>n, EraseShape DEF Erasing
  <2>. QED  BY <1>n, <2>1, <2>2, StoredSame
<1>. QED  BY <1>1, <1>2, <1>3, <1>4, <1>5, <1>6 DEF Step

LEMMA StoredBegins ==
    ASSUME IInv, Stored, NEW t \in Threads, NEW i \in Installations,
           \/ \E a \in Accounts : Exchange(t, i, a)
           \/ LoadConnection(t, i)
           \/ DisconnectLoad(t, i)
    PROVE  Stored'
<1>t. TypeOK /\ 0 <= issued
  BY Numbers DEF IInv
<1>1. ASSUME NEW a \in Accounts, Exchange(t, i, a) PROVE Stored'
  <2>1. Others(t) /\ loc'[t] = [inst |-> i, acct |-> a, entry |-> NoEntry, pair |-> issued + 1]
    BY <1>1, <1>t, BeginShape
  <2>2. Issue(t, {}) /\ UNCHANGED <<now, tok>> /\ loc'[t].pair = issued + 1
    BY <1>1, <2>1 DEF Exchange
  <2>. QED  BY <2>1, <2>2, StoredIssue
<1>2. CASE LoadConnection(t, i) \/ DisconnectLoad(t, i)
  <2>1. /\ Others(t) /\ pc'[t] \in {"eTokens", "dTokens"}
        /\ loc'[t] = [inst |-> i, acct |-> conn[i].acct, entry |-> conn[i], pair |-> 0]
    BY <1>2, <1>t, BeginShape
  <2>2. loc'[t].pair = 0 /\ pc'[t] \notin Storing
    BY <2>1 DEF Storing
  <2>. QED  BY <1>2, <1>t, <2>1, <2>2, StoredSame DEF LoadConnection, DisconnectLoad
<1>. QED  BY <1>1, <1>2

LEMMA StoredTick == ASSUME IInv, Stored, Tick PROVE Stored'
<1>1. /\ now \in Nat /\ \A p : p \in 1..issued => born[p] \in Nat
      /\ Lag \in Nat /\ issued \in Nat /\ \A t \in Threads : loc[t].pair \in Nat
  BY Numbers DEF IInv
<1>2. ASSUME NEW t \in Threads, pc[t] \in Storing PROVE now + 1 <= born[loc[t].pair] + Lag
  <2>1. now < born[loc[t].pair] + Lag /\ loc[t].pair \in 1..issued
    BY <1>1, <1>2 DEF Tick, Storing, Stored
  <2>. QED  BY <1>1, <2>1
<1>3. \A p \in 1..issued : born[p] <= now + 1
  BY <1>1 DEF Stored
<1>. QED  BY <1>2, <1>3 DEF Stored, Tick

LEMMA StoredKept == IInv /\ Stored /\ [Next]_vars => Stored'
<1>. SUFFICES ASSUME IInv, Stored, [Next]_vars PROVE Stored'
  OBVIOUS
<1>1. CASE UNCHANGED vars
  BY <1>1 DEF vars, Stored
<1>. QED  BY <1>1, StoredStep, StoredBegins, StoredTick DEF Next

LEMMA StoredCorrect == Spec => [](IInv /\ Stored)
<1>1. Init => Stored
  <2>. SUFFICES ASSUME Init PROVE Stored
    OBVIOUS
  <2>1. /\ issued = 0 /\ tok = [a \in Accounts |-> 0] /\ loc = [t \in Threads |-> NoLoc]
        /\ pc = [t \in Threads |-> "idle"]
    BY DEF Init
  <2>. QED  BY <2>1 DEF Stored, Storing, NoLoc
<1>. QED  BY <1>1, InitIInv, StepIInv, StoredKept, PTL DEF Spec

-----------------------------------------------------------------------------
(* The age of what is served.  The code looks at the age of the            *)
(* connection, and the pair it takes may be older: that of a callback that *)
(* stored its tokens later, but by no more than twice the lag.             *)

Refreshing == {"eTokens", "eLock", "eReload", "eRetokens", "eRefresh", "eSave", "eConn"}

Since(p, at) == p # 0 => at <= born[p]

AgeOf(t) ==
    /\ pc[t] \in {"cConn", "eConn"} => Since(tok[loc[t].acct], born[loc[t].pair] - Lag)
    /\ pc[t] \in Refreshing /\ loc[t].entry # NoEntry =>
         /\ loc[t].entry.acct = loc[t].acct /\ loc[t].entry.at <= now
         /\ Since(tok[loc[t].acct], loc[t].entry.at - 2 * Lag)

AgeInv ==
    /\ \A i \in Installations : conn[i] # NoEntry =>
         conn[i].at <= now /\ Since(tok[conn[i].acct], conn[i].at - 2 * Lag)
    /\ \A t \in Threads : AgeOf(t)

\* Each installation connects the account Home gives it, whenever it does.
Own(Home) == \A i \in Installations : conn[i] # NoEntry => conn[i].acct = Home[i]

AtHome(Home) == \A t \in Threads : pc[t] \in Refreshing => loc[t].acct = Home[loc[t].inst]

LEMMA EntryNumbers ==
    ASSUME TypeOK
    PROVE  /\ \A i \in Installations : conn[i] # NoEntry =>
                conn[i].acct \in Accounts /\ conn[i].at \in Nat
           /\ \A t \in Threads : loc[t].entry # NoEntry =>
                loc[t].entry.acct \in Accounts /\ loc[t].entry.at \in Nat
<1>1. \A e \in Entries : e.acct \in Accounts /\ e.at \in Nat
  BY TokenAssumption DEF Entries
<1>2. \A i \in Installations : conn[i] # NoEntry => conn[i] \in Entries
  BY DEF TypeOK
<1>3. ASSUME NEW t \in Threads, loc[t].entry # NoEntry PROVE loc[t].entry \in Entries
  <2>1. pc[t] # "idle"
    BY <1>3, Distinct DEF TypeOK, NoLoc
  <2>. QED  BY <1>3, <2>1, BusyFacts
<1>. QED  BY <1>1, <1>2, <1>3

\* What a step of t may do to the tables, and that it keeps the ages.
LEMMA AgeKeep ==
    ASSUME IInv, Stored, AgeInv, NEW t \in Threads, Others(t), now' = now,
           \A p \in 1..issued : born'[p] = born[p],
           \A a \in Accounts : \/ tok'[a] = tok[a] \/ tok'[a] = 0
                               \/ tok'[a] \in 1..issued /\ now <= born[tok'[a]] + Lag,
           \A i \in Installations :
             \/ conn'[i] = conn[i] \/ conn'[i] = NoEntry
             \/ /\ tok' = tok /\ conn'[i].at <= now /\ conn'[i].at \in Nat
                /\ conn'[i].acct \in Accounts
                /\ Since(tok[conn'[i].acct], conn'[i].at - 2 * Lag),
           AgeOf(t)'
    PROVE  AgeInv'
<1>n. /\ now \in Nat /\ issued \in Nat /\ Lag \in Nat
      /\ \A p : p \in 1..issued => born[p] \in Nat
      /\ \A a \in Accounts : tok[a] \in Nat /\ tok[a] <= issued
      /\ \A u \in Threads : loc[u].pair \in Nat /\ loc[u].pair <= issued
  BY Numbers DEF IInv, Stored
<1>1. ASSUME NEW a \in Accounts, NEW x \in Int, x <= now - Lag, Since(tok[a], x)
      PROVE  tok'[a] # 0 => x <= born'[tok'[a]]
  <2>1. CASE tok'[a] = tok[a]
    BY <1>n, <1>1, <2>1 DEF Since
  <2>2. CASE tok'[a] \in 1..issued /\ now <= born[tok'[a]] + Lag
    <3>1. born'[tok'[a]] = born[tok'[a]] /\ born[tok'[a]] \in Nat
      BY <1>n, <2>2
    <3>. QED  BY <1>n, <1>1, <2>2, <3>1
  <2>. QED  BY <2>1, <2>2
<1>2. ASSUME NEW i \in Installations, conn'[i] # NoEntry
      PROVE  conn'[i].at <= now' /\ Since(tok[conn[i].acct], conn[i].at - 2 * Lag)'
  <2>1. CASE conn'[i] = conn[i]
    <3>1. /\ conn[i].acct \in Accounts /\ conn[i].at \in Nat /\ conn[i].at <= now
          /\ Since(tok[conn[i].acct], conn[i].at - 2 * Lag)
      BY <1>2, <2>1, EntryNumbers DEF IInv, AgeInv
    <3>2. conn[i].at - 2 * Lag \in Int /\ conn[i].at - 2 * Lag <= now - Lag
      BY <1>n, <3>1
    <3>3. tok'[conn[i].acct] # 0 => conn[i].at - 2 * Lag <= born'[tok'[conn[i].acct]]
      BY <1>1, <3>1, <3>2
    <3>. QED  BY <2>1, <3>1, <3>3 DEF Since
  <2>2. CASE /\ tok' = tok /\ conn'[i].at <= now /\ conn'[i].at \in Nat
             /\ conn'[i].acct \in Accounts
             /\ Since(tok[conn'[i].acct], conn'[i].at - 2 * Lag)
    BY <1>n, <2>2 DEF Since
  <2>. QED  BY <1>2, <2>1, <2>2
<1>3. ASSUME NEW u \in Threads, u # t PROVE AgeOf(u)'
  <2>1. pc'[u] = pc[u] /\ loc'[u] = loc[u] /\ AgeOf(u)
    BY <1>3 DEF Others, AgeInv
  <2>2. ASSUME pc[u] \in {"cConn", "eConn"}
        PROVE  tok'[loc[u].acct] # 0 => born'[loc[u].pair] - Lag <= born'[tok'[loc[u].acct]]
    <3>1. /\ loc[u].acct \in Accounts /\ loc[u].pair \in 1..issued
          /\ born[loc[u].pair] \in Nat /\ born[loc[u].pair] <= now
      <4>1. loc[u].acct \in Accounts /\ loc[u].pair # 0
        BY <2>2, BusyFacts DEF IInv, Stored, Storing
      <4>. QED  BY <1>n, <4>1 DEF Stored
    <3>. DEFINE x == born[loc[u].pair] - Lag
    <3>2. x \in Int /\ x <= now - Lag /\ Since(tok[loc[u].acct], x)
      BY <1>n, <2>1, <2>2, <3>1 DEF AgeOf
    <3>. HIDE DEF x
    <3>3. tok'[loc[u].acct] # 0 => x <= born'[tok'[loc[u].acct]]
      BY <1>1, <3>1, <3>2
    <3>. QED  BY <3>1, <3>3 DEF x
  <2>3. ASSUME pc[u] \in Refreshing, loc[u].entry # NoEntry
        PROVE  /\ loc[u].entry.acct = loc[u].acct /\ loc[u].entry.at <= now
               /\ tok'[loc[u].acct] # 0
                    => loc[u].entry.at - 2 * Lag <= born'[tok'[loc[u].acct]]
    <3>1. /\ loc[u].entry.acct = loc[u].acct /\ loc[u].entry.at <= now
          /\ loc[u].entry.at \in Nat /\ loc[u].acct \in Accounts
          /\ Since(tok[loc[u].acct], loc[u].entry.at - 2 * Lag)
      BY <2>1, <2>3, EntryNumbers DEF AgeOf, IInv
    <3>. DEFINE x == loc[u].entry.at - 2 * Lag
    <3>2. x \in Int /\ x <= now - Lag
      BY <1>n, <3>1
    <3>3. Since(tok[loc[u].acct], x)
      BY <3>1
    <3>. HIDE DEF x
    <3>4. tok'[loc[u].acct] # 0 => x <= born'[tok'[loc[u].acct]]
      BY <1>1, <3>1, <3>2, <3>3
    <3>. QED  BY <3>1, <3>4 DEF x
  <2>. QED  BY <2>1, <2>2, <2>3 DEF AgeOf, Since
<1>. QED  BY <1>2, <1>3 DEF AgeInv

LEMMA AgeStep ==
    ASSUME NEW Home, IInv, Stored, AgeInv, Own(Home), AtHome(Home), NEW t \in Threads, Step(t)
    PROVE  AgeInv'
<1>t. TypeOK /\ AgeOf(t)
  BY DEF IInv, AgeInv
<1>n. /\ now \in Nat /\ issued \in Nat /\ Lag \in Nat
      /\ \A p : p \in 1..issued => born[p] \in Nat
      /\ \A a \in Accounts : tok[a] \in Nat /\ tok[a] <= issued
      /\ loc[t].pair \in Nat /\ loc[t].pair <= issued
  BY Numbers DEF IInv, Stored
<1>a. pc[t] # "idle" => loc[t].acct \in Accounts /\ loc[t].inst \in Installations
  BY <1>t, BusyFacts
<1>s. pc[t] \in Storing => /\ loc[t].pair \in 1..issued /\ born[loc[t].pair] \in Nat
                           /\ now <= born[loc[t].pair] + Lag
  BY <1>n DEF Stored
<1>1. CASE CallbackSaveTokens(t) \/ RefreshSaveTokens(t)
  <2>1. /\ pc[t] \in {"cTokens", "eSave"} /\ pc'[t] \in {"cConn", "eConn"} /\ Others(t)
        /\ pc[t] = "cTokens" => pc'[t] = "cConn"
        /\ loc'[t].acct = loc[t].acct /\ loc'[t].entry = loc[t].entry
        /\ loc'[t].pair = loc[t].pair
    BY <1>1, <1>t, CallbackShape, RefreshShape DEF Moved, SameKey
  <2>2. /\ UNCHANGED <<now, conn, issued, born>>
        /\ tok' = [tok EXCEPT ![loc[t].acct] = loc[t].pair]
    BY <1>1 DEF CallbackSaveTokens, RefreshSaveTokens
  <2>3. /\ loc[t].acct \in Accounts /\ loc[t].pair \in 1..issued
        /\ born[loc[t].pair] \in Nat /\ now <= born[loc[t].pair] + Lag
    BY <1>a, <1>s, <2>1 DEF Storing
  <2>4. /\ tok'[loc[t].acct] = loc[t].pair
        /\ \A a \in Accounts : tok'[a] \in {tok[a], loc[t].pair}
    BY <1>t, <2>2, <2>3 DEF TypeOK
  <2>5. pc'[t] = "eConn" /\ loc[t].entry # NoEntry =>
          /\ loc[t].entry.acct = loc[t].acct /\ loc[t].entry.at <= now
          /\ loc[t].entry.at \in Nat
    BY <1>t, <2>1, EntryNumbers DEF AgeOf, Refreshing
  <2>6. AgeOf(t)'
    BY <1>n, <2>1, <2>2, <2>3, <2>4, <2>5 DEF AgeOf, Since, Refreshing
  <2>. QED  BY <2>1, <2>2, <2>3, <2>4, <2>6, AgeKeep
<1>2. CASE CallbackSaveConnection(t) \/ RefreshSaveConnection(t)
  <2>. DEFINE e == [acct |-> loc[t].acct, at |-> now]
  <2>1. Others(t) /\ pc[t] \in {"cConn", "eConn"} /\ pc'[t] \in {"idle", "using"}
    BY <1>2, <1>t, CallbackShape, RefreshShape DEF Moved, Ended
  <2>2. UNCHANGED <<now, tok, issued, born>> /\ conn' = [conn EXCEPT ![loc[t].inst] = e]
    <3>1. CASE CallbackSaveConnection(t)
      BY <3>1 DEF CallbackSaveConnection
    <3>2. CASE RefreshSaveConnection(t)
      <4>1. pc[t] = "eConn" /\ loc[t].entry # NoEntry /\ loc[t].entry \in Entries
        BY <1>t, <3>2, BusyFacts DEF RefreshSaveConnection, Goto, IInv, EntryInv
      <4>2. loc[t].entry.acct = loc[t].acct
        BY <1>t, <4>1 DEF AgeOf, Refreshing
      <4>3. [loc[t].entry EXCEPT !.at = now] = e
        BY <4>1, <4>2 DEF Entries
      <4>. QED  BY <3>2, <4>3 DEF RefreshSaveConnection
    <3>. QED  BY <1>2, <3>1, <3>2
  <2>3. loc[t].acct \in Accounts /\ e.acct = loc[t].acct /\ e.at = now
    BY <1>a, <2>1
  <2>4. Since(tok[loc[t].acct], now - 2 * Lag)
    <3>1. Since(tok[loc[t].acct], born[loc[t].pair] - Lag)
      BY <1>t, <2>1 DEF AgeOf
    <3>2. born[loc[t].pair] \in Nat /\ now <= born[loc[t].pair] + Lag
      BY <1>s, <2>1 DEF Storing
    <3>3. tok[loc[t].acct] # 0 => born[tok[loc[t].acct]] \in Nat
      BY <1>n, <2>3
    <3>. QED  BY <1>n, <3>1, <3>2, <3>3 DEF Since
  <2>5. \A i \in Installations : conn'[i] \in {conn[i], e}
    BY <1>t, <2>2 DEF TypeOK
  <2>. HIDE DEF e
  <2>6. AgeOf(t)'
    BY <2>1 DEF AgeOf, Refreshing
  <2>. QED  BY <1>n, <2>1, <2>2, <2>3, <2>4, <2>5, <2>6, AgeKeep
<1>3. CASE RefreshOk(t)
  <2>1. /\ Others(t) /\ pc[t] = "eRefresh" /\ pc'[t] = "eSave"
        /\ loc'[t].acct = loc[t].acct /\ loc'[t].entry = loc[t].entry
    BY <1>3, <1>t, RefreshShape DEF Moved, SameKey
  <2>2. /\ UNCHANGED <<now, conn, tok>>
        /\ \A p \in 1..issued : born'[p] = born[p]
    BY <1>3, <1>n, <1>t DEF RefreshOk, Issue, TypeOK
  <2>3. tok[loc[t].acct] # 0 => born'[tok[loc[t].acct]] = born[tok[loc[t].acct]]
    BY <1>n, <1>a, <2>1, <2>2
  <2>4. AgeOf(t)'
    BY <1>t, <2>1, <2>2, <2>3 DEF AgeOf, Since, Refreshing
  <2>. QED  BY <2>1, <2>2, <2>4, AgeKeep
<1>4. CASE Reload(t)
  <2>1. /\ Others(t) /\ pc[t] = "eReload" /\ pc'[t] = "eRetokens"
        /\ loc'[t].acct = loc[t].acct /\ loc'[t].entry = conn[loc[t].inst]
    BY <1>4, <1>t, RefreshShape DEF Moved, SameKey
  <2>2. UNCHANGED <<now, conn, tok, issued, born>>
    BY <1>4 DEF Reload
  <2>3. conn[loc[t].inst] # NoEntry =>
          /\ conn[loc[t].inst].acct = loc[t].acct /\ conn[loc[t].inst].at <= now
          /\ Since(tok[loc[t].acct], conn[loc[t].inst].at - 2 * Lag)
    BY <1>a, <2>1 DEF AgeInv, Own, AtHome, Refreshing
  <2>4. AgeOf(t)'
    BY <2>1, <2>2, <2>3 DEF AgeOf, Since
  <2>. QED  BY <2>1, <2>2, <2>4, AgeKeep
<1>5. CASE LoadTokens(t) \/ Lock(t) \/ ReloadTokens(t) \/ RefreshFails(t) \/ Use(t)
  <2>1. UNCHANGED <<now, conn, tok, issued, born>>
    BY <1>5 DEF LoadTokens, Lock, ReloadTokens, RefreshFails, Use
  <2>2. /\ Others(t) /\ pc'[t] \notin {"cConn", "eConn"}
        /\ \/ pc'[t] \notin Refreshing
           \/ /\ pc[t] \in Refreshing
              /\ loc'[t].acct = loc[t].acct /\ loc'[t].entry = loc[t].entry
    BY <1>5, <1>t, RefreshShape DEF Moved, SameKey, Ended, Refreshing
  <2>3. AgeOf(t)'
    BY <1>t, <2>1, <2>2 DEF AgeOf, Since
  <2>. QED  BY <2>1, <2>2, <2>3, AgeKeep
<1>6. CASE \/ DisconnectTokens(t) \/ DeleteConnection(t) \/ ListReferencing(t)
           \/ DeleteTokens(t) \/ Revoke(t)
  <2>1. /\ UNCHANGED <<now, issued, born>>
        /\ \A a \in Accounts : tok'[a] \in {tok[a], 0}
        /\ \A i \in Installations : conn'[i] \in {conn[i], NoEntry}
    BY <1>6, <1>t DEF DisconnectTokens, DeleteConnection, ListReferencing, DeleteTokens,
                      Revoke, TypeOK
  <2>2. Others(t) /\ pc'[t] \notin Refreshing /\ pc'[t] # "cConn"
    BY <1>6, <1>t, EraseShape DEF Refreshing, Erasing
  <2>3. AgeOf(t)'
    BY <2>2 DEF AgeOf, Refreshing
  <2>. QED  BY <2>1, <2>2, <2>3, AgeKeep
<1>. QED  BY <1>1, <1>2, <1>3, <1>4, <1>5, <1>6 DEF Step

LEMMA AgeBegins ==
    ASSUME IInv, Stored, AgeInv, NEW t \in Threads, NEW i \in Installations,
           \/ \E a \in Accounts : Exchange(t, i, a)
           \/ LoadConnection(t, i)
           \/ DisconnectLoad(t, i)
    PROVE  AgeInv'
<1>t. TypeOK /\ issued \in Nat
  BY Numbers DEF IInv
<1>1. ASSUME NEW a \in Accounts, Exchange(t, i, a) PROVE AgeInv'
  <2>1. Others(t) /\ pc'[t] = "cTokens"
    BY <1>1, <1>t, BeginShape
  <2>2. UNCHANGED <<now, conn, tok>> /\ \A p \in 1..issued : born'[p] = born[p]
    BY <1>1, <1>t DEF Exchange, Issue, TypeOK
  <2>3. AgeOf(t)'
    BY <2>1 DEF AgeOf, Refreshing
  <2>. QED  BY <2>1, <2>2, <2>3, AgeKeep
<1>2. CASE LoadConnection(t, i) \/ DisconnectLoad(t, i)
  <2>1. /\ Others(t) /\ pc'[t] \in {"eTokens", "dTokens"} /\ conn[i] # NoEntry
        /\ loc'[t] = [inst |-> i, acct |-> conn[i].acct, entry |-> conn[i], pair |-> 0]
    BY <1>2, <1>t, BeginShape
  <2>2. UNCHANGED <<now, conn, tok, issued, born>>
    BY <1>2 DEF LoadConnection, DisconnectLoad
  <2>3. loc'[t].acct = conn[i].acct /\ loc'[t].entry = conn[i]
    BY <2>1
  <2>4. conn[i].at <= now /\ Since(tok[conn[i].acct], conn[i].at - 2 * Lag)
    BY <2>1 DEF AgeInv
  <2>5. AgeOf(t)'
    BY <2>1, <2>2, <2>3, <2>4 DEF AgeOf, Since
  <2>. QED  BY <2>1, <2>2, <2>5, AgeKeep
<1>. QED  BY <1>1, <1>2

LEMMA AgeTick == ASSUME IInv, AgeInv, Tick PROVE AgeInv'
<1>1. now \in Nat /\ now' = now + 1 /\ UNCHANGED <<conn, tok, born, pc, loc>>
  BY Numbers DEF IInv, Tick
<1>2. /\ \A i \in Installations : conn[i] # NoEntry => conn[i].at \in Nat
      /\ \A t \in Threads : loc[t].entry # NoEntry => loc[t].entry.at \in Nat
  BY EntryNumbers DEF IInv
<1>3. ASSUME NEW i \in Installations, conn[i] # NoEntry
      PROVE  conn[i].at <= now + 1 /\ Since(tok[conn[i].acct], conn[i].at - 2 * Lag)
  BY <1>1, <1>2, <1>3 DEF AgeInv
<1>4. ASSUME NEW t \in Threads PROVE AgeOf(t)'
  <2>1. AgeOf(t)
    BY DEF AgeInv
  <2>2. loc[t].entry # NoEntry /\ loc[t].entry.at <= now => loc[t].entry.at <= now + 1
    BY <1>1, <1>2
  <2>. QED  BY <1>1, <2>1, <2>2 DEF AgeOf, Since
<1>. QED  BY <1>1, <1>3, <1>4 DEF AgeInv, Since

\* An account is read from a connection, and kept until the request ends.
LEMMA AtHomeKept ==
    ASSUME NEW Home, IInv, Own(Home), AtHome(Home), [Next]_vars
    PROVE  AtHome(Home)'
<1>t. TypeOK
  BY DEF IInv
<1>1. ASSUME NEW t \in Threads, Others(t),
             pc'[t] \in Refreshing => loc'[t].acct = Home[loc'[t].inst]
      PROVE  AtHome(Home)'
  BY <1>1 DEF AtHome, Others
<1>2. CASE UNCHANGED vars \/ Tick
  BY <1>2 DEF vars, Tick, AtHome
<1>3. ASSUME NEW t \in Threads, Step(t) PROVE AtHome(Home)'
  <2>1. CASE CallbackSaveTokens(t) \/ CallbackSaveConnection(t)
    BY <1>1, <1>t, <2>1, CallbackShape DEF Moved, Ended, Refreshing
  <2>2. CASE \/ LoadTokens(t) \/ Lock(t) \/ Reload(t) \/ ReloadTokens(t) \/ RefreshOk(t)
             \/ RefreshFails(t) \/ RefreshSaveTokens(t) \/ RefreshSaveConnection(t) \/ Use(t)
    <3>1. /\ Others(t)
          /\ \/ pc'[t] = "idle"
             \/ /\ pc[t] \in Refreshing
                /\ loc'[t].acct = loc[t].acct /\ loc'[t].inst = loc[t].inst
      BY <1>t, <2>2, RefreshShape DEF Moved, SameKey, Ended, Refreshing
    <3>. QED  BY <1>1, <3>1 DEF AtHome, Refreshing
  <2>3. CASE \/ DisconnectTokens(t) \/ DeleteConnection(t) \/ ListReferencing(t)
             \/ DeleteTokens(t) \/ Revoke(t)
    BY <1>1, <1>t, <2>3, EraseShape DEF Refreshing, Erasing
  <2>. QED  BY <1>3, <2>1, <2>2, <2>3 DEF Step
<1>4. ASSUME NEW t \in Threads, NEW i \in Installations,
             \/ \E a \in Accounts : Exchange(t, i, a)
             \/ LoadConnection(t, i)
             \/ DisconnectLoad(t, i)
      PROVE  AtHome(Home)'
  <2>1. ASSUME NEW a \in Accounts, Exchange(t, i, a) PROVE AtHome(Home)'
    <3>1. Others(t) /\ pc'[t] = "cTokens"
      BY <1>t, <2>1, BeginShape
    <3>. QED  BY <1>1, <3>1 DEF Refreshing
  <2>2. CASE LoadConnection(t, i) \/ DisconnectLoad(t, i)
    <3>1. /\ Others(t) /\ conn[i] # NoEntry
          /\ loc'[t] = [inst |-> i, acct |-> conn[i].acct, entry |-> conn[i], pair |-> 0]
      BY <1>t, <2>2, BeginShape
    <3>2. loc'[t].acct = Home[loc'[t].inst]
      BY <3>1 DEF Own
    <3>. QED  BY <1>1, <3>1, <3>2
  <2>. QED  BY <1>4, <2>1, <2>2
<1>. QED  BY <1>2, <1>3, <1>4 DEF Next

LEMMA AgeKept ==
    ASSUME NEW Home, IInv, Stored, AgeInv, Own(Home), AtHome(Home), [Next]_vars
    PROVE  AgeInv'
<1>1. CASE UNCHANGED vars
  BY <1>1 DEF vars, AgeInv, AgeOf, Since
<1>. QED  BY <1>1, AgeStep, AgeBegins, AgeTick DEF Next

\* A token is handed out young, when a pair is stored in time.
LEMMA ServedYoung ==
    ASSUME 2 * Lag <= Margin, IInv, Stored, AgeInv, [Next]_vars,
           NEW t \in Threads, pc[t] # "using", pc'[t] = "using"
    PROVE  now - born[loc'[t].pair] < Life
<1>t. TypeOK /\ AgeOf(t)
  BY DEF IInv, AgeInv
<1>n. /\ now \in Nat /\ issued \in Nat /\ Lag \in Nat /\ Life \in Nat /\ Margin \in Nat
      /\ Margin < Life /\ \A p : p \in 1..issued => born[p] \in Nat
      /\ \A a \in Accounts : tok[a] \in Nat /\ tok[a] <= issued
      /\ loc[t].pair \in Nat /\ loc[t].pair <= issued
  BY Numbers DEF IInv, Stored
<1>1. LoadTokens(t) \/ ReloadTokens(t) \/ RefreshSaveConnection(t)
  <2>1. ~UNCHANGED vars /\ ~Tick
    BY DEF vars, Tick
  <2>2. ASSUME NEW u \in Threads, Others(u) PROVE u = t
    BY <2>2 DEF Others
  <2>3. ASSUME NEW u \in Threads, Step(u)
        PROVE  LoadTokens(t) \/ ReloadTokens(t) \/ RefreshSaveConnection(t)
    <3>1. CASE CallbackSaveTokens(u) \/ CallbackSaveConnection(u)
      BY <1>t, <2>2, <3>1, CallbackShape DEF Moved, Ended
    <3>2. CASE Lock(u) \/ Reload(u) \/ RefreshOk(u) \/ RefreshFails(u)
               \/ RefreshSaveTokens(u) \/ Use(u)
      BY <1>t, <2>2, <3>2, RefreshShape DEF Moved, Ended
    <3>3. CASE LoadTokens(u) \/ ReloadTokens(u) \/ RefreshSaveConnection(u)
      BY <1>t, <2>2, <3>3, RefreshShape DEF Moved, Ended
    <3>4. CASE \/ DisconnectTokens(u) \/ DeleteConnection(u) \/ ListReferencing(u)
               \/ DeleteTokens(u) \/ Revoke(u)
      BY <1>t, <2>2, <3>4, EraseShape DEF Erasing
    <3>. QED  BY <2>3, <3>1, <3>2, <3>3, <3>4 DEF Step
  <2>4. ASSUME NEW u \in Threads, NEW i \in Installations,
               \/ \E a \in Accounts : Exchange(u, i, a)
               \/ LoadConnection(u, i)
               \/ DisconnectLoad(u, i)
        PROVE  FALSE
    BY <1>t, <2>2, <2>4, BeginShape
  <2>. QED  BY <2>1, <2>3, <2>4 DEF Next
<1>2. CASE RefreshSaveConnection(t)
  <2>1. pc[t] = "eConn" /\ loc'[t].pair = loc[t].pair
    BY <1>2, <1>t, RefreshShape DEF Moved
  <2>2. loc[t].pair # 0 /\ now <= born[loc[t].pair] + Lag
    BY <2>1 DEF Stored, Storing
  <2>3. born[loc[t].pair] \in Nat
    BY <1>n, <2>2
  <2>. QED  BY <1>n, <2>1, <2>2, <2>3
<1>3. CASE LoadTokens(t) \/ ReloadTokens(t)
  <2>1. /\ pc[t] \in Refreshing /\ loc[t].entry # NoEntry /\ Fresh(loc[t].entry)
        /\ tok[loc[t].acct] # 0 /\ loc'[t].pair = tok[loc[t].acct]
        /\ loc[t].acct \in Accounts
    <3>1. pc[t] \in {"eTokens", "eRetokens"}
      BY <1>3 DEF LoadTokens, ReloadTokens
    <3>2. pc[t] = "eTokens" => loc[t].entry # NoEntry
      BY DEF IInv, EntryInv
    <3>. QED  BY <1>3, <1>t, <3>1, <3>2, RefreshShape, BusyFacts DEF Moved, Ended, Refreshing
  <2>2. loc[t].entry.at \in Nat
    BY <1>t, <2>1, EntryNumbers
  <2>3. loc[t].entry.at - 2 * Lag <= born[tok[loc[t].acct]]
    BY <1>t, <2>1 DEF AgeOf, Since
  <2>4. born[tok[loc[t].acct]] \in Nat
    BY <1>n, <2>1
  <2>5. now - loc[t].entry.at < Life - Margin
    BY <2>1 DEF Fresh
  <2>. QED  BY <1>n, <2>1, <2>2, <2>3, <2>4, <2>5
<1>. QED  BY <1>1, <1>2, <1>3

\* "Access vigente o renovado" (oauth.py:126): the token a request is given has
\* not expired, whatever is connected, refreshed, disconnected or lost meanwhile
\* and in however many processes, if an installation always connects the same
\* account and the margin is twice the time a pair takes to be stored: one lag
\* for the pair of the request, one for a callback whose older pair is stored
\* over it.
THEOREM ServedCorrect ==
    ASSUME NEW Home, 2 * Lag <= Margin
    PROVE  Spec /\ []Own(Home) => NeverServesExpired
<1>1. Init => AgeInv /\ AtHome(Home)
  BY DEF Init, AgeInv, AgeOf, AtHome, Refreshing
<1>2. IInv /\ Stored /\ AgeInv /\ AtHome(Home) /\ Own(Home) /\ [Next]_vars
        => AgeInv' /\ AtHome(Home)'
  BY AgeKept, AtHomeKept
<1>3. IInv /\ Stored /\ AgeInv /\ [Next]_vars
        => [\A t \in Threads : pc[t] # "using" /\ pc'[t] = "using"
              => now - born[loc'[t].pair] < Life]_vars
  BY ServedYoung
<1>. QED  BY <1>1, <1>2, <1>3, StoredCorrect, PTL DEF Spec, NeverServesExpired

-----------------------------------------------------------------------------
(* The pair that a refresh spends.  A pair is in one place from its issue  *)
(* until it is stored, and then in one row; who reads it to spend it holds *)
(* the lock of the row.                                                    *)

SameProcess == \A t, u \in Threads : ProcOf[t] = ProcOf[u]

NotErasing == \A t \in Threads : pc[t] \notin Erasing

Unsaved == {"cTokens", "eSave"}

Private(t) ==
    /\ loc[t].pair \in live
    /\ \A a \in Accounts : tok[a] # loc[t].pair
    /\ \A u \in Threads : u # t => loc[u].pair # loc[t].pair

Spends(t) ==
    /\ loc[t].pair \in live
    /\ \A a \in Accounts : tok[a] = loc[t].pair => a = loc[t].acct
    /\ \A u \in Threads : pc[u] = "eRefresh" /\ loc[u].pair = loc[t].pair
         => loc[u].acct = loc[t].acct

LiveInv ==
    /\ \A t \in Threads : pc[t] \in Unsaved => Private(t)
    /\ \A t \in Threads : pc[t] = "eRefresh" => Spends(t)
    /\ \A a, b \in Accounts : tok[a] = tok[b] /\ tok[a] # 0 => a = b
    /\ \A a \in Accounts : tok[a] # 0 /\ tok[a] \notin live =>
         \E u \in Threads : pc[u] = "eSave" /\ loc[u].acct = a

LEMMA OneHolder ==
    ASSUME SameProcess, IInv, NEW t \in Threads, NEW u \in Threads,
           pc[t] \in Locked, pc[u] \in Locked, loc[t].acct = loc[u].acct
    PROVE  t = u
BY DEF SameProcess, IInv, LockInv, Key

LEMMA NotErasingKept ==
    ASSUME "disconnect" \notin Jobs, IInv, NotErasing, [Next]_vars
    PROVE  NotErasing'
<1>t. TypeOK
  BY DEF IInv
<1>1. ASSUME NEW t \in Threads, Others(t), pc'[t] \notin Erasing PROVE NotErasing'
  BY <1>1 DEF NotErasing, Others
<1>2. CASE UNCHANGED vars \/ Tick
  BY <1>2 DEF vars, Tick, NotErasing
<1>3. ASSUME NEW t \in Threads, Step(t) PROVE NotErasing'
  <2>1. CASE CallbackSaveTokens(t) \/ CallbackSaveConnection(t)
    BY <1>1, <1>t, <2>1, CallbackShape DEF Moved, Ended, Erasing
  <2>2. CASE \/ LoadTokens(t) \/ Lock(t) \/ Reload(t) \/ ReloadTokens(t) \/ RefreshOk(t)
             \/ RefreshFails(t) \/ RefreshSaveTokens(t) \/ RefreshSaveConnection(t) \/ Use(t)
    BY <1>1, <1>t, <2>2, RefreshShape DEF Moved, Ended, Erasing
  <2>3. CASE \/ DisconnectTokens(t) \/ DeleteConnection(t) \/ ListReferencing(t)
             \/ DeleteTokens(t) \/ Revoke(t)
    BY <1>t, <2>3, EraseShape DEF NotErasing
  <2>. QED  BY <1>3, <2>1, <2>2, <2>3 DEF Step
<1>4. ASSUME NEW t \in Threads, NEW i \in Installations,
             \/ \E a \in Accounts : Exchange(t, i, a)
             \/ LoadConnection(t, i)
             \/ DisconnectLoad(t, i)
      PROVE  NotErasing'
  <2>1. ~DisconnectLoad(t, i)
    BY DEF DisconnectLoad
  <2>2. Others(t) /\ pc'[t] \in {"cTokens", "eTokens"}
    BY <1>t, <1>4, <2>1, BeginShape
  <2>. QED  BY <1>1, <2>2 DEF Erasing
<1>. QED  BY <1>2, <1>3, <1>4 DEF Next

\* A step that stores, issues and spends nothing.
LEMMA LiveSame ==
    ASSUME IInv, LiveInv, NEW t \in Threads, Others(t), UNCHANGED <<tok, live>>,
           pc[t] # "eSave", pc'[t] \notin Unsaved, pc'[t] # "eRefresh",
           \/ loc'[t].pair = loc[t].pair \/ loc'[t].pair = 0
           \/ loc[t].acct \in Accounts /\ loc'[t].pair = tok[loc[t].acct]
    PROVE  LiveInv'
<1>1. 0 \notin live
  BY TokenAssumption DEF IInv, TypeOK, Pairs
<1>2. ASSUME NEW u \in Threads, pc'[u] \in Unsaved PROVE Private(u)'
  <2>1. u # t /\ loc'[u] = loc[u] /\ Private(u)
    BY <1>2 DEF Others, LiveInv
  <2>2. loc'[t].pair # loc[u].pair
    BY <1>1, <2>1 DEF Private
  <2>. QED  BY <2>1, <2>2 DEF Private, Others
<1>3. ASSUME NEW u \in Threads, pc'[u] = "eRefresh" PROVE Spends(u)'
  <2>1. u # t /\ loc'[u] = loc[u] /\ Spends(u)
    BY <1>3 DEF Others, LiveInv
  <2>. QED  BY <2>1 DEF Spends, Others
<1>4. ASSUME NEW a \in Accounts, tok[a] # 0, tok[a] \notin live
      PROVE  \E u \in Threads : pc'[u] = "eSave" /\ loc'[u].acct = a
  <2>1. PICK u \in Threads : pc[u] = "eSave" /\ loc[u].acct = a
    BY <1>4 DEF LiveInv
  <2>. QED  BY <2>1 DEF Others
<1>. QED  BY <1>2, <1>3, <1>4 DEF LiveInv

\* A pair reaches its row.
LEMMA LiveStore ==
    ASSUME IInv, LiveInv, NEW t \in Threads, Others(t), pc[t] \in Unsaved,
           pc'[t] \in {"cConn", "eConn"}, loc'[t].pair = loc[t].pair,
           tok' = [tok EXCEPT ![loc[t].acct] = loc[t].pair], live' = live
    PROVE  LiveInv'
<1>1. loc[t].acct \in Accounts /\ Private(t)
  BY BusyFacts DEF IInv, Unsaved, LiveInv
<1>2. /\ tok'[loc[t].acct] = loc[t].pair
      /\ \A a \in Accounts : a # loc[t].acct => tok'[a] = tok[a]
  BY <1>1 DEF IInv, TypeOK
<1>3. ASSUME NEW u \in Threads, pc'[u] \in Unsaved PROVE Private(u)'
  <2>1. u # t /\ loc'[u] = loc[u] /\ Private(u)
    BY <1>3 DEF Others, LiveInv, Unsaved
  <2>2. \A a \in Accounts : tok'[a] # loc[u].pair
    BY <1>1, <1>2, <2>1 DEF Private
  <2>. QED  BY <2>1, <2>2 DEF Private, Others
<1>4. ASSUME NEW u \in Threads, pc'[u] = "eRefresh" PROVE Spends(u)'
  <2>1. u # t /\ loc'[u] = loc[u] /\ Spends(u) /\ loc[u].pair # loc[t].pair
    BY <1>1, <1>4 DEF Others, LiveInv, Private
  <2>2. \A a \in Accounts : tok'[a] = loc[u].pair => a = loc[u].acct
    BY <1>2, <2>1 DEF Spends
  <2>. QED  BY <2>1, <2>2 DEF Spends, Others
<1>5. ASSUME NEW a \in Accounts, tok'[a] # 0, tok'[a] \notin live
      PROVE  \E u \in Threads : pc'[u] = "eSave" /\ loc'[u].acct = a
  <2>1. a # loc[t].acct
    BY <1>1, <1>2, <1>5 DEF Private
  <2>2. PICK u \in Threads : pc[u] = "eSave" /\ loc[u].acct = a
    BY <1>2, <1>5, <2>1 DEF LiveInv
  <2>. QED  BY <2>1, <2>2 DEF Others
<1>6. \A a, b \in Accounts : tok'[a] = tok'[b] /\ tok'[a] # 0 => a = b
  BY <1>1, <1>2 DEF Private, LiveInv
<1>. QED  BY <1>3, <1>4, <1>5, <1>6 DEF LiveInv

\* The second reading takes a pair that nobody else is about to spend.
LEMMA LiveReload ==
    ASSUME SameProcess, IInv, LiveInv, NEW t \in Threads, UNCHANGED <<tok, live>>,
           tok[loc[t].acct] # 0,
           Moved(t, "eRetokens", "eRefresh", loc[t].entry, tok[loc[t].acct])
    PROVE  LiveInv'
<1>1. /\ Others(t) /\ pc[t] = "eRetokens" /\ pc'[t] = "eRefresh"
      /\ loc'[t].acct = loc[t].acct /\ loc'[t].pair = tok[loc[t].acct]
  BY DEF Moved, SameKey
<1>2. loc[t].acct \in Accounts
  BY <1>1, BusyFacts DEF IInv
<1>3. tok[loc[t].acct] \in live
  <2>1. SUFFICES ASSUME tok[loc[t].acct] \notin live PROVE FALSE
    OBVIOUS
  <2>2. PICK u \in Threads : pc[u] = "eSave" /\ loc[u].acct = loc[t].acct
    BY <1>2, <2>1 DEF LiveInv
  <2>3. u = t
    BY <1>1, <2>2, OneHolder DEF Locked
  <2>. QED  BY <1>1, <2>2, <2>3
<1>4. ASSUME NEW u \in Threads, pc'[u] \in Unsaved PROVE Private(u)'
  <2>1. u # t /\ loc'[u] = loc[u] /\ Private(u)
    BY <1>1, <1>4 DEF Others, LiveInv, Unsaved
  <2>. QED  BY <1>1, <1>2, <2>1 DEF Private, Others
<1>5. ASSUME NEW u \in Threads, u # t, pc'[u] = "eRefresh"
      PROVE  /\ loc'[u] = loc[u] /\ Spends(u)
             /\ loc[u].pair = tok[loc[t].acct] => loc[u].acct = loc[t].acct
  BY <1>1, <1>2, <1>5 DEF Others, LiveInv, Spends
<1>6. Spends(t)'
  <2>1. \A a \in Accounts : tok[a] = tok[loc[t].acct] => a = loc[t].acct
    BY <1>2 DEF LiveInv
  <2>2. ASSUME NEW u \in Threads, pc'[u] = "eRefresh", loc'[u].pair = tok[loc[t].acct]
        PROVE  loc'[u].acct = loc[t].acct
    BY <1>1, <1>5, <2>2
  <2>. QED  BY <1>1, <1>3, <2>1, <2>2 DEF Spends
<1>7. ASSUME NEW u \in Threads, u # t, pc'[u] = "eRefresh" PROVE Spends(u)'
  <2>1. ASSUME NEW w \in Threads, pc'[w] = "eRefresh", loc'[w].pair = loc[u].pair
        PROVE  loc'[w].acct = loc[u].acct
    <3>1. CASE w = t
      BY <1>1, <1>5, <1>7, <2>1, <3>1
    <3>2. CASE w # t
      BY <1>1, <1>5, <1>7, <2>1, <3>2 DEF Spends, Others
    <3>. QED  BY <3>1, <3>2
  <2>. QED  BY <1>5, <1>7, <2>1 DEF Spends
<1>8. ASSUME NEW a \in Accounts, tok[a] # 0, tok[a] \notin live
      PROVE  \E u \in Threads : pc'[u] = "eSave" /\ loc'[u].acct = a
  <2>1. PICK u \in Threads : pc[u] = "eSave" /\ loc[u].acct = a
    BY <1>8 DEF LiveInv
  <2>. QED  BY <1>1, <2>1 DEF Others
<1>. QED  BY <1>4, <1>6, <1>7, <1>8 DEF LiveInv

\* A pair is issued, in place of one that only this thread was to spend.
LEMMA LiveIssue ==
    ASSUME IInv, Stored, LiveInv, NEW t \in Threads, Others(t), NEW spent, Issue(t, spent),
           tok' = tok, loc'[t].pair = issued + 1, pc'[t] \in Unsaved, pc[t] # "eSave",
           spent = {} \/ /\ pc[t] = "eRefresh" /\ spent = {loc[t].pair}
                         /\ pc'[t] = "eSave" /\ loc'[t].acct = loc[t].acct,
           \A u \in Threads : pc[u] = "eRefresh" /\ u # t => loc[u].pair \notin spent
    PROVE  LiveInv'
<1>n. /\ issued \in Nat /\ issued + 1 # 0
      /\ \A a \in Accounts : tok[a] # issued + 1
      /\ \A u \in Threads : loc[u].pair # issued + 1
  <2>1. /\ issued \in Nat /\ \A a \in Accounts : tok[a] \in Nat /\ tok[a] <= issued
        /\ \A u \in Threads : loc[u].pair \in Nat /\ loc[u].pair <= issued
    BY Numbers DEF IInv, Stored
  <2>. QED  BY <2>1
<1>1. issued + 1 \in live' /\ \A p \in live : p \notin spent => p \in live'
  BY DEF Issue
<1>2. ASSUME NEW u \in Threads, pc'[u] \in Unsaved PROVE Private(u)'
  <2>1. CASE u = t
    BY <1>n, <1>1, <2>1 DEF Private, Others
  <2>2. CASE u # t
    <3>1. loc'[u] = loc[u] /\ Private(u)
      BY <1>2, <2>2 DEF Others, LiveInv
    <3>2. loc[u].pair \notin spent
      BY <2>2, <3>1 DEF Private
    <3>. QED  BY <1>n, <1>1, <2>2, <3>1, <3>2 DEF Private, Others
  <2>. QED  BY <2>1, <2>2
<1>3. ASSUME NEW u \in Threads, pc'[u] = "eRefresh" PROVE Spends(u)'
  <2>1. u # t /\ loc'[u] = loc[u] /\ Spends(u) /\ loc[u].pair \notin spent
    BY <1>3 DEF Others, LiveInv, Unsaved
  <2>2. ASSUME NEW w \in Threads, pc'[w] = "eRefresh" PROVE w # t /\ loc'[w] = loc[w]
    BY <2>2 DEF Others, Unsaved
  <2>. QED  BY <1>1, <2>1, <2>2 DEF Spends, Others
<1>4. ASSUME NEW a \in Accounts, tok[a] # 0, tok[a] \notin live'
      PROVE  \E u \in Threads : pc'[u] = "eSave" /\ loc'[u].acct = a
  <2>1. CASE tok[a] \in live
    <3>1. tok[a] \in spent
      BY <1>1, <1>4, <2>1
    <3>2. /\ pc[t] = "eRefresh" /\ tok[a] = loc[t].pair
          /\ pc'[t] = "eSave" /\ loc'[t].acct = loc[t].acct
      BY <3>1
    <3>3. a = loc[t].acct
      BY <3>2 DEF LiveInv, Spends
    <3>. QED  BY <3>2, <3>3
  <2>2. CASE tok[a] \notin live
    <3>1. PICK u \in Threads : pc[u] = "eSave" /\ loc[u].acct = a
      BY <1>4, <2>2 DEF LiveInv
    <3>. QED  BY <3>1 DEF Others
  <2>. QED  BY <2>1, <2>2
<1>. QED  BY <1>2, <1>3, <1>4 DEF LiveInv

LEMMA LiveStep ==
    ASSUME SameProcess, "loss" \notin Jobs, IInv, Stored, LiveInv, NotErasing,
           NEW t \in Threads, Step(t)
    PROVE  LiveInv'
<1>t. TypeOK
  BY DEF IInv
<1>a. pc[t] # "idle" => loc[t].acct \in Accounts
  BY <1>t, BusyFacts
<1>e. NoLoc.pair = 0
  BY DEF NoLoc
<1>1. CASE CallbackSaveTokens(t) \/ RefreshSaveTokens(t)
  BY <1>1, <1>t, CallbackShape, RefreshShape, LiveStore
     DEF CallbackSaveTokens, RefreshSaveTokens, Moved, Unsaved
<1>2. CASE RefreshOk(t)
  <2>1. /\ Others(t) /\ pc[t] = "eRefresh" /\ pc'[t] = "eSave" /\ loc'[t].acct = loc[t].acct
        /\ loc'[t].pair = issued + 1
    BY <1>2, <1>t, RefreshShape DEF Moved, SameKey
  <2>2. Issue(t, {loc[t].pair}) /\ tok' = tok
    BY <1>2 DEF RefreshOk
  <2>3. ASSUME NEW u \in Threads, pc[u] = "eRefresh", u # t PROVE loc[u].pair # loc[t].pair
    <3>1. loc[u].pair = loc[t].pair => loc[u].acct = loc[t].acct
      BY <2>1, <2>3 DEF LiveInv, Spends
    <3>. QED  BY <2>1, <2>3, <3>1, OneHolder DEF Locked
  <2>. QED  BY <2>1, <2>2, <2>3, LiveIssue DEF Unsaved
<1>3. CASE ReloadTokens(t)
  <2>1. UNCHANGED <<tok, live>>
    BY <1>3 DEF ReloadTokens
  <2>2. CASE Ended(t, "eRetokens")
    BY <1>e, <2>1, <2>2, LiveSame DEF Ended, Unsaved
  <2>3. CASE /\ tok[loc[t].acct] # 0 /\ Fresh(loc[t].entry)
             /\ Moved(t, "eRetokens", "using", loc[t].entry, tok[loc[t].acct])
    BY <1>a, <2>1, <2>3, LiveSame DEF Moved, Unsaved
  <2>4. CASE /\ tok[loc[t].acct] # 0 /\ ~Fresh(loc[t].entry)
             /\ Moved(t, "eRetokens", "eRefresh", loc[t].entry, tok[loc[t].acct])
    BY <2>1, <2>4, LiveReload
  <2>. QED  BY <1>3, <1>t, <2>2, <2>3, <2>4, RefreshShape
<1>4. CASE LoadTokens(t)
  <2>1. UNCHANGED <<tok, live>>
    BY <1>4 DEF LoadTokens
  <2>2. /\ Others(t) /\ pc[t] = "eTokens" /\ pc'[t] \in {"idle", "using", "eLock"}
        /\ loc'[t].pair \in {0, tok[loc[t].acct]}
    BY <1>4, <1>t, <1>e, RefreshShape DEF Moved, Ended
  <2>. QED  BY <1>a, <2>1, <2>2, LiveSame DEF Unsaved
<1>5. CASE \/ Lock(t) \/ Reload(t) \/ RefreshFails(t) \/ RefreshSaveConnection(t) \/ Use(t)
           \/ CallbackSaveConnection(t)
  <2>1. UNCHANGED <<tok, live>>
    BY <1>5 DEF Lock, Reload, RefreshFails, RefreshSaveConnection, Use, CallbackSaveConnection
  <2>2. /\ Others(t) /\ pc[t] # "eSave"
        /\ pc'[t] \in {"eReload", "eRetokens", "idle", "using"}
        /\ loc'[t].pair \in {0, loc[t].pair}
    BY <1>5, <1>t, <1>e, RefreshShape, CallbackShape DEF Moved, Ended
  <2>. QED  BY <2>1, <2>2, LiveSame DEF Unsaved
<1>6. CASE \/ DisconnectTokens(t) \/ DeleteConnection(t) \/ ListReferencing(t)
           \/ DeleteTokens(t) \/ Revoke(t)
  BY <1>6, <1>t, EraseShape DEF NotErasing
<1>. QED  BY <1>1, <1>2, <1>3, <1>4, <1>5, <1>6 DEF Step

LEMMA LiveKept ==
    ASSUME SameProcess, "loss" \notin Jobs, "disconnect" \notin Jobs,
           IInv, Stored, LiveInv, NotErasing, [Next]_vars
    PROVE  LiveInv'
<1>t. TypeOK
  BY DEF IInv
<1>1. CASE UNCHANGED vars \/ Tick
  BY <1>1 DEF vars, Tick, LiveInv, Private, Spends
<1>2. ASSUME NEW t \in Threads, NEW i \in Installations,
             \/ \E a \in Accounts : Exchange(t, i, a)
             \/ LoadConnection(t, i)
             \/ DisconnectLoad(t, i)
      PROVE  LiveInv'
  <2>1. ASSUME NEW a \in Accounts, Exchange(t, i, a) PROVE LiveInv'
    <3>1. /\ Others(t) /\ pc[t] = "idle" /\ pc'[t] = "cTokens"
          /\ loc'[t] = [inst |-> i, acct |-> a, entry |-> NoEntry, pair |-> issued + 1]
      BY <1>t, <2>1, BeginShape
    <3>2. Issue(t, {}) /\ tok' = tok /\ loc'[t].pair = issued + 1
      BY <2>1, <3>1 DEF Exchange
    <3>. QED  BY <3>1, <3>2, LiveIssue DEF Unsaved
  <2>2. CASE LoadConnection(t, i)
    <3>1. /\ Others(t) /\ pc[t] = "idle" /\ pc'[t] = "eTokens"
          /\ loc'[t] = [inst |-> i, acct |-> conn[i].acct, entry |-> conn[i], pair |-> 0]
      BY <1>t, <2>2, BeginShape
    <3>2. UNCHANGED <<tok, live>> /\ loc'[t].pair = 0
      BY <2>2, <3>1 DEF LoadConnection
    <3>. QED  BY <3>1, <3>2, LiveSame DEF Unsaved
  <2>3. ~DisconnectLoad(t, i)
    BY DEF DisconnectLoad
  <2>. QED  BY <1>2, <2>1, <2>2, <2>3
<1>. QED  BY <1>1, <1>2, LiveStep DEF Next

LEMMA InitLive == Init => LiveInv /\ NotErasing
<1>. SUFFICES ASSUME Init PROVE LiveInv /\ NotErasing
  OBVIOUS
<1>1. pc = [t \in Threads |-> "idle"] /\ tok = [a \in Accounts |-> 0]
  BY DEF Init
<1>. QED  BY <1>1 DEF LiveInv, NotErasing, Unsaved, Erasing

\* The second reading under the lock does what it is for (oauth.py:142-147): in
\* one process, no refresh token that was already spent is sent again, for any
\* installations that share any accounts, reconnected at any time.  With two
\* processes, an answer that is lost, or a disconnect that revokes a pair that
\* another installation keeps, it may be: that is what the hypotheses leave out.
THEOREM UsesLiveCorrect ==
    ASSUME SameProcess, "loss" \notin Jobs, "disconnect" \notin Jobs
    PROVE  Spec => []RefreshUsesLive
<1>1. IInv /\ Stored /\ LiveInv /\ NotErasing /\ [Next]_vars => LiveInv' /\ NotErasing'
  BY LiveKept, NotErasingKept
<1>2. LiveInv => RefreshUsesLive
  BY DEF LiveInv, Spends, RefreshUsesLive
<1>. QED  BY <1>1, <1>2, InitLive, StoredCorrect, PTL DEF Spec

-----------------------------------------------------------------------------
(* Whom a refresh is for.  While a request waits to refresh, no callback   *)
(* of its installation is still to be stored: it would be as old as the    *)
(* connection that has gone stale.                                         *)

Calling == {"cTokens", "cConn"}
Waiting == {"eLock", "eReload", "eRetokens", "eRefresh", "eSave", "eConn"}

StaleOf(t) ==
    /\ pc[t] \in Refreshing => conn[loc[t].inst] # NoEntry
    /\ pc[t] \in Calling /\ conn[loc[t].inst] # NoEntry
         => born[loc[t].pair] <= conn[loc[t].inst].at
    /\ pc[t] = "eRetokens" => loc[t].entry = conn[loc[t].inst]
    /\ pc[t] = "eRefresh" => ~Fresh(conn[loc[t].inst])

\* u is in a callback of the installation that t works on.
Apart(t, u) ==
    pc[u] \in Calling /\ loc[u].inst = loc[t].inst =>
      /\ pc[t] \notin Waiting
      /\ pc[t] = "eTokens" => born[loc[u].pair] <= loc[t].entry.at

StaleInv ==
    /\ \A i \in Installations : conn[i] # NoEntry => conn[i].at <= now
    /\ \A t \in Threads : StaleOf(t)
    /\ \A t, u \in Threads : Apart(t, u)

\* A step of t that leaves the connections alone.
LEMMA StaleSame ==
    ASSUME IInv, Stored, StaleInv, NEW t \in Threads, Others(t), UNCHANGED <<now, conn>>,
           \A p \in 1..issued : born'[p] = born[p],
           StaleOf(t)', \A u \in Threads : Apart(t, u)' /\ Apart(u, t)'
    PROVE  StaleInv'
<1>1. ASSUME NEW u \in Threads, u # t
      PROVE  /\ pc'[u] = pc[u] /\ loc'[u] = loc[u]
             /\ pc[u] \in Calling => born'[loc[u].pair] = born[loc[u].pair]
  <2>1. pc[u] \in Calling => loc[u].pair \in 1..issued
    BY Numbers DEF Stored, Storing, Calling, IInv
  <2>. QED  BY <1>1, <2>1 DEF Others
<1>2. ASSUME NEW u \in Threads, u # t PROVE StaleOf(u)'
  BY <1>1, <1>2 DEF StaleInv, StaleOf, Fresh
<1>3. ASSUME NEW u \in Threads, NEW w \in Threads, u # t, w # t PROVE Apart(u, w)'
  BY <1>1, <1>3 DEF StaleInv, Apart
<1>. QED  BY <1>2, <1>3 DEF StaleInv

LEMMA StaleStep ==
    ASSUME NEW Home, SameProcess, Lag + Margin < Life, IInv, Stored, StaleInv, NotErasing,
           AtHome(Home), NEW t \in Threads, Step(t)
    PROVE  StaleInv'
<1>. USE DEF Calling, Waiting, Refreshing
<1>t. TypeOK /\ StaleOf(t) /\ \A u \in Threads : Apart(t, u) /\ Apart(u, t)
  BY DEF IInv, StaleInv
<1>n. /\ now \in Nat /\ issued \in Nat /\ Lag \in Nat /\ Life \in Nat /\ Margin \in Nat
      /\ \A p : p \in 1..issued => born[p] \in Nat /\ born[p] <= now
  BY Numbers DEF IInv, Stored
<1>a. pc[t] # "idle" => loc[t].inst \in Installations /\ loc[t].acct \in Accounts
  BY <1>t, BusyFacts
<1>s. ASSUME NEW u \in Threads, pc[u] \in Calling
      PROVE  /\ born[loc[u].pair] \in Nat /\ born[loc[u].pair] <= now
             /\ now <= born[loc[u].pair] + Lag /\ loc[u].pair \in 1..issued
  <2>1. loc[u].pair \in 1..issued /\ now <= born[loc[u].pair] + Lag
    BY <1>s, Numbers DEF Stored, Storing, IInv
  <2>. QED  BY <1>n, <2>1
<1>1. CASE CallbackSaveTokens(t)
  <2>1. /\ Others(t) /\ pc[t] = "cTokens" /\ pc'[t] = "cConn" /\ loc'[t].inst = loc[t].inst
        /\ loc'[t].pair = loc[t].pair /\ UNCHANGED <<now, conn, issued, born>>
    BY <1>1, <1>t, CallbackShape DEF CallbackSaveTokens, Moved
  <2>2. StaleOf(t)'
    BY <1>t, <2>1 DEF StaleOf
  <2>3. ASSUME NEW u \in Threads PROVE Apart(t, u)' /\ Apart(u, t)'
    BY <1>t, <2>1 DEF Apart, Others
  <2>. QED  BY <2>1, <2>2, <2>3, StaleSame
<1>2. CASE CallbackSaveConnection(t) \/ RefreshSaveConnection(t)
  <2>1. /\ Others(t) /\ pc[t] \in {"cConn", "eConn"} /\ pc'[t] \in {"idle", "using"}
        /\ UNCHANGED <<now, issued, born>>
    BY <1>2, <1>t, CallbackShape, RefreshShape
       DEF Moved, Ended, CallbackSaveConnection, RefreshSaveConnection
  <2>2. PICK e : e.at = now /\ e # NoEntry /\ conn' = [conn EXCEPT ![loc[t].inst] = e]
    <3>1. CASE CallbackSaveConnection(t)
      <4>. DEFINE e == [acct |-> loc[t].acct, at |-> now]
      <4>1. e.at = now /\ e \in [acct : Accounts, at : Nat]
        BY <1>a, <1>n, <2>1
      <4>2. conn' = [conn EXCEPT ![loc[t].inst] = e]
        BY <3>1 DEF CallbackSaveConnection
      <4>. HIDE DEF e
      <4>. QED  BY <4>1, <4>2, TokenAssumption
    <3>2. CASE RefreshSaveConnection(t)
      <4>. DEFINE e == [loc[t].entry EXCEPT !.at = now]
      <4>1. loc[t].entry \in Entries
        BY <1>t, <3>2, BusyFacts DEF RefreshSaveConnection, Goto, IInv, EntryInv
      <4>2. e.at = now /\ e \in [acct : Accounts, at : Nat]
        BY <1>n, <4>1 DEF Entries
      <4>3. conn' = [conn EXCEPT ![loc[t].inst] = e]
        BY <3>2 DEF RefreshSaveConnection
      <4>. HIDE DEF e
      <4>. QED  BY <4>2, <4>3, TokenAssumption
    <3>. QED  BY <1>2, <3>1, <3>2
  <2>3. /\ conn'[loc[t].inst] = e
        /\ \A i \in Installations : i # loc[t].inst => conn'[i] = conn[i]
    BY <1>a, <1>t, <2>1, <2>2 DEF TypeOK
  <2>4. \A i \in Installations : conn'[i] # NoEntry => conn'[i].at <= now
    BY <1>n, <2>2, <2>3 DEF StaleInv
  <2>5. ASSUME NEW u \in Threads, u # t, pc[u] \in {"eRetokens", "eRefresh"}
        PROVE  loc[u].inst # loc[t].inst
    <3>1. CASE pc[t] = "cConn"
      BY <1>t, <2>5, <3>1 DEF Apart
    <3>2. CASE pc[t] = "eConn"
      <4>1. loc[u].inst = loc[t].inst => loc[u].acct = loc[t].acct
        BY <2>5, <3>2 DEF AtHome
      <4>. QED  BY <2>5, <3>2, <4>1, OneHolder DEF Locked
    <3>. QED  BY <2>1, <3>1, <3>2
  <2>6. ASSUME NEW u \in Threads PROVE StaleOf(u)'
    <3>1. CASE u = t
      BY <2>1, <3>1 DEF StaleOf
    <3>2. CASE u # t
      <4>1. /\ pc'[u] = pc[u] /\ loc'[u] = loc[u] /\ StaleOf(u)
            /\ pc[u] # "idle" => loc[u].inst \in Installations
        BY <1>t, <2>1, <3>2, BusyFacts DEF Others, StaleInv
      <4>2. CASE loc[u].inst = loc[t].inst
        <5>1. pc[u] \in Calling => born[loc[u].pair] <= now
          BY <1>s
        <5>. QED  BY <2>1, <2>2, <2>3, <2>5, <3>2, <4>1, <4>2, <5>1 DEF StaleOf
      <4>3. CASE loc[u].inst # loc[t].inst
        <5>1. pc[u] # "idle" => conn'[loc[u].inst] = conn[loc[u].inst]
          BY <2>3, <4>1, <4>3
        <5>. QED  BY <2>1, <4>1, <5>1 DEF StaleOf, Fresh
      <4>. QED  BY <4>2, <4>3
    <3>. QED  BY <3>1, <3>2
  <2>7. ASSUME NEW u \in Threads, NEW w \in Threads PROVE Apart(u, w)'
    <3>1. Apart(u, w)
      BY DEF StaleInv
    <3>. QED  BY <2>1, <3>1 DEF Apart, Others
  <2>. QED  BY <2>1, <2>4, <2>6, <2>7 DEF StaleInv
<1>3. CASE LoadTokens(t)
  <2>1. UNCHANGED <<now, conn, issued, born>>
    BY <1>3 DEF LoadTokens
  <2>2. /\ Others(t) /\ pc[t] = "eTokens"
        /\ \/ pc'[t] \in {"idle", "using"}
           \/ /\ pc'[t] = "eLock" /\ loc'[t].inst = loc[t].inst /\ ~Fresh(loc[t].entry)
    BY <1>3, <1>t, RefreshShape DEF Moved, Ended
  <2>3. StaleOf(t)'
    BY <1>t, <2>1, <2>2 DEF StaleOf
  <2>4. ASSUME NEW u \in Threads, u # t, pc[u] \in Calling, ~Fresh(loc[t].entry)
        PROVE  loc[u].inst # loc[t].inst
    <3>1. loc[t].entry.at \in Nat
      BY <1>t, <2>2, EntryNumbers DEF IInv, EntryInv
    <3>2. ~(now - loc[t].entry.at < Life - Margin)
      BY <2>4 DEF Fresh
    <3>3. loc[u].inst = loc[t].inst => born[loc[u].pair] <= loc[t].entry.at
      BY <1>t, <2>2, <2>4 DEF Apart
    <3>4. born[loc[u].pair] \in Nat /\ now <= born[loc[u].pair] + Lag
      BY <1>s, <2>4
    <3>. QED  BY <1>n, <3>1, <3>2, <3>3, <3>4
  <2>5. ASSUME NEW u \in Threads PROVE Apart(t, u)' /\ Apart(u, t)'
    BY <2>2, <2>4 DEF Apart, Others
  <2>. QED  BY <2>1, <2>2, <2>3, <2>5, StaleSame
<1>4. CASE Lock(t) \/ RefreshFails(t) \/ RefreshSaveTokens(t) \/ Use(t)
  <2>1. UNCHANGED <<now, conn, issued, born>>
    BY <1>4 DEF Lock, RefreshFails, RefreshSaveTokens, Use
  <2>2. /\ Others(t)
        /\ \/ pc'[t] = "idle"
           \/ /\ pc[t] \in Waiting /\ pc'[t] \in {"eReload", "eConn"}
              /\ loc'[t].inst = loc[t].inst
    BY <1>4, <1>t, RefreshShape DEF Moved, Ended
  <2>3. StaleOf(t)'
    BY <1>t, <2>1, <2>2 DEF StaleOf
  <2>4. ASSUME NEW u \in Threads PROVE Apart(t, u)' /\ Apart(u, t)'
    BY <1>t, <2>2 DEF Apart, Others
  <2>. QED  BY <2>1, <2>2, <2>3, <2>4, StaleSame
<1>5. CASE Reload(t)
  <2>1. UNCHANGED <<now, conn, issued, born>>
    BY <1>5 DEF Reload
  <2>2. /\ Others(t) /\ pc[t] = "eReload" /\ pc'[t] = "eRetokens"
        /\ loc'[t].inst = loc[t].inst /\ loc'[t].entry = conn[loc[t].inst]
    BY <1>5, <1>t, RefreshShape DEF Moved
  <2>3. StaleOf(t)'
    BY <1>t, <2>1, <2>2 DEF StaleOf
  <2>4. ASSUME NEW u \in Threads PROVE Apart(t, u)' /\ Apart(u, t)'
    BY <1>t, <2>2 DEF Apart, Others
  <2>. QED  BY <2>1, <2>2, <2>3, <2>4, StaleSame
<1>6. CASE ReloadTokens(t)
  <2>1. UNCHANGED <<now, conn, issued, born>>
    BY <1>6 DEF ReloadTokens
  <2>2. /\ Others(t) /\ pc[t] = "eRetokens"
        /\ \/ pc'[t] \in {"idle", "using"}
           \/ /\ pc'[t] = "eRefresh" /\ loc'[t].inst = loc[t].inst /\ ~Fresh(loc[t].entry)
    BY <1>6, <1>t, RefreshShape DEF Moved, Ended
  <2>3. StaleOf(t)'
    BY <1>t, <2>1, <2>2 DEF StaleOf, Fresh
  <2>4. ASSUME NEW u \in Threads PROVE Apart(t, u)' /\ Apart(u, t)'
    BY <1>t, <2>2 DEF Apart, Others
  <2>. QED  BY <2>1, <2>2, <2>3, <2>4, StaleSame
<1>7. CASE RefreshOk(t)
  <2>1. UNCHANGED <<now, conn>> /\ \A p \in 1..issued : born'[p] = born[p]
    BY <1>7, <1>n, <1>t DEF RefreshOk, Issue, TypeOK
  <2>2. /\ Others(t) /\ pc[t] = "eRefresh" /\ pc'[t] = "eSave" /\ loc'[t].inst = loc[t].inst
    BY <1>7, <1>t, RefreshShape DEF Moved
  <2>3. StaleOf(t)'
    BY <1>t, <2>1, <2>2 DEF StaleOf
  <2>4. ASSUME NEW u \in Threads PROVE Apart(t, u)' /\ Apart(u, t)'
    BY <1>t, <2>2 DEF Apart, Others
  <2>. QED  BY <2>1, <2>2, <2>3, <2>4, StaleSame
<1>8. CASE \/ DisconnectTokens(t) \/ DeleteConnection(t) \/ ListReferencing(t)
           \/ DeleteTokens(t) \/ Revoke(t)
  BY <1>8, <1>t, EraseShape DEF NotErasing
<1>. QED  BY <1>1, <1>2, <1>3, <1>4, <1>5, <1>6, <1>7, <1>8 DEF Step

LEMMA StaleBegins ==
    ASSUME "reconnect" \notin Jobs, "disconnect" \notin Jobs, IInv, Stored, StaleInv,
           NEW t \in Threads, NEW i \in Installations,
           \/ \E a \in Accounts : Exchange(t, i, a)
           \/ LoadConnection(t, i)
           \/ DisconnectLoad(t, i)
    PROVE  StaleInv'
<1>. USE DEF Calling, Waiting, Refreshing
<1>t. TypeOK /\ issued \in Nat
  BY Numbers DEF IInv
<1>1. ASSUME NEW a \in Accounts, Exchange(t, i, a) PROVE StaleInv'
  <2>1. /\ Others(t) /\ pc[t] = "idle" /\ pc'[t] = "cTokens"
        /\ loc'[t] = [inst |-> i, acct |-> a, entry |-> NoEntry, pair |-> issued + 1]
    BY <1>1, <1>t, BeginShape
  <2>2. conn[i] = NoEntry /\ UNCHANGED <<now, conn>> /\ loc'[t].inst = i
        /\ \A p \in 1..issued : born'[p] = born[p]
    BY <1>1, <1>t, <2>1 DEF Exchange, Issue, TypeOK
  <2>3. StaleOf(t)'
    BY <2>1, <2>2 DEF StaleOf
  <2>4. ASSUME NEW u \in Threads PROVE Apart(t, u)' /\ Apart(u, t)'
    <3>1. u # t /\ pc[u] \in Refreshing => loc[u].inst # i
      BY <2>2 DEF StaleInv, StaleOf
    <3>. QED  BY <2>1, <2>2, <3>1 DEF Apart, Others
  <2>. QED  BY <2>1, <2>2, <2>3, <2>4, StaleSame
<1>2. CASE LoadConnection(t, i)
  <2>1. /\ Others(t) /\ pc[t] = "idle" /\ pc'[t] = "eTokens" /\ conn[i] # NoEntry
        /\ loc'[t] = [inst |-> i, acct |-> conn[i].acct, entry |-> conn[i], pair |-> 0]
    BY <1>2, <1>t, BeginShape
  <2>2. UNCHANGED <<now, conn, issued, born>> /\ loc'[t].inst = i /\ loc'[t].entry = conn[i]
    BY <1>2, <2>1 DEF LoadConnection
  <2>3. StaleOf(t)'
    BY <2>1, <2>2 DEF StaleOf
  <2>4. ASSUME NEW u \in Threads PROVE Apart(t, u)' /\ Apart(u, t)'
    <3>1. pc[u] \in Calling /\ loc[u].inst = i => born[loc[u].pair] <= conn[i].at
      BY <2>1 DEF StaleInv, StaleOf
    <3>. QED  BY <2>1, <2>2, <3>1 DEF Apart, Others
  <2>. QED  BY <2>1, <2>2, <2>3, <2>4, StaleSame
<1>3. ~DisconnectLoad(t, i)
  BY DEF DisconnectLoad
<1>. QED  BY <1>1, <1>2, <1>3

LEMMA StaleTick == ASSUME IInv, StaleInv, Tick PROVE StaleInv'
<1>1. /\ now \in Nat /\ Life \in Nat /\ Margin \in Nat /\ now' = now + 1
      /\ UNCHANGED <<conn, born, pc, loc>>
  BY Numbers DEF IInv, Tick
<1>2. \A i \in Installations : conn[i] # NoEntry => conn[i].at \in Nat /\ conn[i].at <= now
  BY EntryNumbers DEF IInv, StaleInv
<1>3. \A i \in Installations : conn[i] # NoEntry => conn[i].at <= now + 1
  BY <1>1, <1>2
<1>4. ASSUME NEW t \in Threads PROVE StaleOf(t)'
  <2>1. StaleOf(t)
    BY DEF StaleInv
  <2>2. CASE pc[t] = "eRefresh"
    <3>. DEFINE e == conn[loc[t].inst]
    <3>1. loc[t].inst \in Installations /\ e # NoEntry /\ ~Fresh(e)
      BY <2>1, <2>2, BusyFacts DEF IInv, StaleOf, Refreshing
    <3>2. e.at \in Nat
      BY <1>2, <3>1
    <3>3. conn'[loc'[t].inst] = e
      BY <1>1
    <3>. HIDE DEF e
    <3>4. ~(now' - e.at < Life - Margin)
      BY <1>1, <3>1, <3>2 DEF Fresh
    <3>5. ~Fresh(conn[loc[t].inst])'
      BY <3>3, <3>4 DEF Fresh
    <3>. QED  BY <1>1, <2>1, <3>5 DEF StaleOf
  <2>3. CASE pc[t] # "eRefresh"
    BY <1>1, <2>1, <2>3 DEF StaleOf
  <2>. QED  BY <2>2, <2>3
<1>5. \A t, u \in Threads : Apart(t, u)'
  BY <1>1 DEF StaleInv, Apart
<1>. QED  BY <1>1, <1>3, <1>4, <1>5 DEF StaleInv

LEMMA StaleKept ==
    ASSUME NEW Home, SameProcess, Lag + Margin < Life,
           "reconnect" \notin Jobs, "disconnect" \notin Jobs,
           IInv, Stored, StaleInv, NotErasing, AtHome(Home), [Next]_vars
    PROVE  StaleInv'
<1>1. CASE UNCHANGED vars
  BY <1>1 DEF vars, StaleInv, StaleOf, Apart, Fresh
<1>. QED  BY <1>1, StaleStep, StaleBegins, StaleTick DEF Next

\* ... and nobody refreshes for an installation whose connection another request
\* has refreshed meanwhile (oauth.py:142-147), in one process and however many
\* installations share an account, if each connects once, and one account: a
\* second consent makes the connection young under whoever is refreshing it.
THEOREM StaleCorrect ==
    ASSUME NEW Home, SameProcess, Lag + Margin < Life,
           "reconnect" \notin Jobs, "disconnect" \notin Jobs
    PROVE  Spec /\ []Own(Home) => []RefreshOnlyIfStale
<1>1. Init => StaleInv /\ NotErasing /\ AtHome(Home)
  BY DEF Init, StaleInv, StaleOf, Apart, Calling, Waiting, NotErasing, Erasing, AtHome, Refreshing
<1>2. IInv /\ Stored /\ StaleInv /\ NotErasing /\ AtHome(Home) /\ Own(Home) /\ [Next]_vars
        => StaleInv' /\ NotErasing' /\ AtHome(Home)'
  BY StaleKept, NotErasingKept, AtHomeKept
<1>3. StaleInv => RefreshOnlyIfStale
  BY DEF StaleInv, StaleOf, RefreshOnlyIfStale
<1>. QED  BY <1>1, <1>2, <1>3, StoredCorrect, PTL DEF Spec

=============================================================================
