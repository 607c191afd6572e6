--------------------------- MODULE ManagedTokens ---------------------------
(***************************************************************************)
(* Connections and tokens of one provider in the backend                   *)
(* (backend/oauth.py:84-91, 121-214): the end of a callback that stores    *)
(* them, ensure_fresh_token with its per-account lock, and disconnect.     *)
(* Accounts may be shared by installations (tokens are keyed by account,   *)
(* connections by installation); the locks live in each process, and Cloud *)
(* Run runs several.  Every store call is one step, and so is every call   *)
(* to the provider.                                                        *)
(*                                                                         *)
(* A pair (access + refresh token) is a number, with the time it was       *)
(* issued; `live` is what the provider still honours.  Time is in ticks.   *)
(***************************************************************************)
EXTENDS Integers

CONSTANTS
    Installations, Accounts, Threads, Processes,
    ProcOf,         \* the process each thread belongs to
    Life,           \* expires_in of every pair
    Margin,         \* REFRESH_MARGIN_S
    Lag,            \* a pair is stored at most Lag ticks after it was issued
    Rotates,        \* the provider spends a refresh token when it is used
    Jobs,           \* which of "connect", "reconnect" (of an installation that has
                    \* a connection), "refresh", "disconnect" and "loss" happen
    MaxTime, MaxPairs,      \* bounds: last tick, pairs ever issued
    NoEntry, NoThread

ASSUME TokenAssumption ==
    /\ ProcOf \in [Threads -> Processes]
    /\ Life \in Nat /\ Margin \in Nat /\ Lag \in Nat /\ Margin < Life
    /\ Rotates \in BOOLEAN
    /\ MaxTime \in Nat /\ MaxPairs \in Nat
    /\ NoThread \notin Threads
    /\ NoEntry \notin [acct : Accounts, at : Nat]
    /\ NoEntry \notin Installations /\ NoEntry \notin Accounts

VARIABLES
    now,
    conn,       \* table connections: account and obtained_at of each installation
    tok,        \* table tokens: the pair stored for each account, 0 if none
    lock,       \* _refresh_locks of each process
    issued,     \* number of pairs issued so far
    born,       \* when each pair was issued
    live,       \* pairs whose refresh token the provider still takes
    pc, loc     \* where each request is, and its local variables

vars == <<now, conn, tok, lock, issued, born, live, pc, loc>>

Pairs == 1..MaxPairs
Entries == [acct : Accounts, at : 0..MaxTime]
PCs == {"idle", "cTokens", "cConn", "eTokens", "eLock", "eReload", "eRetokens",
        "eRefresh", "eSave", "eConn", "using", "dTokens", "dDelete", "dRefs",
        "dTokDelete", "dRevoke"}
Locked == {"eReload", "eRetokens", "eRefresh", "eSave", "eConn"}

\* What an idle thread remembers: NoEntry stands for every unset local.
NoLoc == [inst |-> NoEntry, acct |-> NoEntry, entry |-> NoEntry, pair |-> 0]

Locals == [inst : Installations, acct : Accounts,
           entry : Entries \union {NoEntry}, pair : 0..MaxPairs]
            \union {NoLoc}

TypeOK ==
    /\ now \in 0..MaxTime
    /\ conn \in [Installations -> Entries \union {NoEntry}]
    /\ tok \in [Accounts -> 0..MaxPairs]
    /\ lock \in [Processes \X Accounts -> Threads \union {NoThread}]
    /\ issued \in 0..MaxPairs
    /\ born \in [Pairs -> 0..MaxTime]
    /\ live \subseteq Pairs
    /\ pc \in [Threads -> PCs]
    /\ loc \in [Threads -> Locals]
    /\ \A t \in Threads : loc[t].inst = NoEntry <=> pc[t] = "idle"

Init ==
    /\ now = 0
    /\ conn = [i \in Installations |-> NoEntry]
    /\ tok = [a \in Accounts |-> 0]
    /\ lock = [k \in Processes \X Accounts |-> NoThread]
    /\ issued = 0
    /\ born = [p \in Pairs |-> 0]
    /\ live = {}
    /\ pc = [t \in Threads |-> "idle"]
    /\ loc = [t \in Threads |-> NoLoc]

Goto(t, from, to) == pc[t] = from /\ pc' = [pc EXCEPT ![t] = to]
Answer(t) == pc' = [pc EXCEPT ![t] = "idle"] /\ loc' = [loc EXCEPT ![t] = NoLoc]

Key(t) == <<ProcOf[t], loc[t].acct>>
Unlock(t) == lock' = [lock EXCEPT ![Key(t)] = NoThread]

\* The whole of the pair's life, with no margin for the time it took to store.
FreshNoMargin(entry) == now - entry.at < Life

Fresh(entry) == now - entry.at < Life - Margin

\* The provider issues the next pair, in place of `spent` when it rotates.
Issue(t, spent) ==
    /\ issued < MaxPairs
    /\ issued' = issued + 1
    /\ born' = [born EXCEPT ![issued + 1] = now]
    /\ live' = (IF Rotates THEN live \ spent ELSE live) \union {issued + 1}

-----------------------------------------------------------------------------
(* callback, from the exchange on *)

Exchange(t, i, a) ==
    /\ "connect" \in Jobs
    /\ conn[i] = NoEntry \/ "reconnect" \in Jobs
    /\ Goto(t, "idle", "cTokens")
    /\ Issue(t, {})
    /\ loc' = [loc EXCEPT ![t] = [inst |-> i, acct |-> a,
                                  entry |-> NoEntry, pair |-> issued + 1]]
    /\ UNCHANGED <<now, conn, tok, lock>>

CallbackSaveTokens(t) ==
    /\ Goto(t, "cTokens", "cConn")
    /\ tok' = [tok EXCEPT ![loc[t].acct] = loc[t].pair]
    /\ UNCHANGED <<now, conn, lock, issued, born, live, loc>>

CallbackSaveConnection(t) ==
    /\ pc[t] = "cConn"
    /\ conn' = [conn EXCEPT ![loc[t].inst] = [acct |-> loc[t].acct, at |-> now]]
    /\ Answer(t)
    /\ UNCHANGED <<now, tok, lock, issued, born, live>>

-----------------------------------------------------------------------------
(* ensure_fresh_token, for list_resources or apply_metadata *)

LoadConnection(t, i) ==
    /\ "refresh" \in Jobs
    /\ conn[i] # NoEntry                    \* else 401 "not connected"
    /\ Goto(t, "idle", "eTokens")
    /\ loc' = [loc EXCEPT ![t] = [inst |-> i, acct |-> conn[i].acct,
                                  entry |-> conn[i], pair |-> 0]]
    /\ UNCHANGED <<now, conn, tok, lock, issued, born, live>>

LoadTokens(t) ==
    /\ pc[t] = "eTokens"
    /\ IF tok[loc[t].acct] = 0
       THEN Answer(t)                       \* 401 "tokens missing"
       ELSE /\ Goto(t, "eTokens", IF Fresh(loc[t].entry) THEN "using" ELSE "eLock")
            /\ loc' = [loc EXCEPT ![t].pair = tok[loc[t].acct]]
    /\ UNCHANGED <<now, conn, tok, lock, issued, born, live>>

\* A lock made anew for each request: nobody waits for anybody.
LockOfRequest(t) ==
    /\ Goto(t, "eLock", "eReload")
    /\ lock' = [lock EXCEPT ![Key(t)] = t]
    /\ UNCHANGED <<now, conn, tok, issued, born, live, loc>>

\* The wait for the lock without the second reading it is for.
LockNoReload(t) ==
    /\ Goto(t, "eLock", "eRefresh")
    /\ lock[Key(t)] = NoThread
    /\ lock' = [lock EXCEPT ![Key(t)] = t]
    /\ UNCHANGED <<now, conn, tok, issued, born, live, loc>>

Lock(t) ==
    /\ Goto(t, "eLock", "eReload")
    /\ lock[Key(t)] = NoThread
    /\ lock' = [lock EXCEPT ![Key(t)] = t]
    /\ UNCHANGED <<now, conn, tok, issued, born, live, loc>>

Reload(t) ==
    /\ Goto(t, "eReload", "eRetokens")
    /\ loc' = [loc EXCEPT ![t].entry = conn[loc[t].inst]]
    /\ UNCHANGED <<now, conn, tok, lock, issued, born, live>>

\* Second reading of the tokens but not of the age.
ReloadTokensBlind(t) ==
    /\ pc[t] = "eRetokens"
    /\ IF loc[t].entry = NoEntry \/ tok[loc[t].acct] = 0
       THEN Answer(t) /\ Unlock(t)
       ELSE /\ loc' = [loc EXCEPT ![t].pair = tok[loc[t].acct]]
            /\ Goto(t, "eRetokens", "eRefresh") /\ UNCHANGED lock
    /\ UNCHANGED <<now, conn, tok, issued, born, live>>

\* The rows may be gone: the AttributeError leaves through the lock, a 500.
ReloadTokens(t) ==
    /\ pc[t] = "eRetokens"
    /\ IF loc[t].entry = NoEntry \/ tok[loc[t].acct] = 0
       THEN Answer(t) /\ Unlock(t)
       ELSE /\ loc' = [loc EXCEPT ![t].pair = tok[loc[t].acct]]
            /\ IF Fresh(loc[t].entry)
               THEN Goto(t, "eRetokens", "using") /\ Unlock(t)
               ELSE Goto(t, "eRetokens", "eRefresh") /\ UNCHANGED lock
    /\ UNCHANGED <<now, conn, tok, issued, born, live>>

RefreshOk(t) ==
    /\ Goto(t, "eRefresh", "eSave")
    /\ loc[t].pair \in live
    /\ Issue(t, {loc[t].pair})
    /\ loc' = [loc EXCEPT ![t].pair = issued + 1]
    /\ UNCHANGED <<now, conn, tok, lock>>

\* The exception leaves the lock held: acquire() without `with`.
RefreshFailsLocked(t) ==
    /\ pc[t] = "eRefresh"
    /\ Answer(t)
    /\ live' \in {live} \union
         (IF Rotates /\ "loss" \in Jobs THEN {live \ {loc[t].pair}} ELSE {})
    /\ UNCHANGED <<now, conn, tok, lock, issued, born>>

\* Refused (reconnect required), or failed on the way: the provider may have
\* spent the refresh token without its answer ever arriving.
RefreshFails(t) ==
    /\ pc[t] = "eRefresh"
    /\ Answer(t)
    /\ Unlock(t)
    /\ live' \in {live} \union
         (IF Rotates /\ "loss" \in Jobs THEN {live \ {loc[t].pair}} ELSE {})
    /\ UNCHANGED <<now, conn, tok, issued, born>>

RefreshSaveTokens(t) ==
    /\ Goto(t, "eSave", "eConn")
    /\ tok' = [tok EXCEPT ![loc[t].acct] = loc[t].pair]
    /\ UNCHANGED <<now, conn, lock, issued, born, live, loc>>

\* The expiry stored where the time of the refresh belongs.
RefreshSaveExpiry(t) ==
    /\ Goto(t, "eConn", "using")
    /\ conn' = [conn EXCEPT ![loc[t].inst] = [loc[t].entry EXCEPT !.at = now + Life]]
    /\ Unlock(t)
    /\ UNCHANGED <<now, tok, issued, born, live, loc>>

\* obtained_at of the entry read before the network call; an upsert.
RefreshSaveConnection(t) ==
    /\ Goto(t, "eConn", "using")
    /\ conn' = [conn EXCEPT ![loc[t].inst] = [loc[t].entry EXCEPT !.at = now]]
    /\ Unlock(t)
    /\ UNCHANGED <<now, tok, issued, born, live, loc>>

\* The adapter uses the access token and the request is answered.
Use(t) ==
    /\ pc[t] = "using"
    /\ Answer(t)
    /\ UNCHANGED <<now, conn, tok, lock, issued, born, live>>

-----------------------------------------------------------------------------
(* disconnect: erase_local, then the best-effort revoke *)

DisconnectLoad(t, i) ==
    /\ "disconnect" \in Jobs
    /\ conn[i] # NoEntry
    /\ Goto(t, "idle", "dTokens")
    /\ loc' = [loc EXCEPT ![t] = [inst |-> i, acct |-> conn[i].acct,
                                  entry |-> conn[i], pair |-> 0]]
    /\ UNCHANGED <<now, conn, tok, lock, issued, born, live>>

DisconnectTokens(t) ==
    /\ Goto(t, "dTokens", "dDelete")
    /\ loc' = [loc EXCEPT ![t].pair = tok[loc[t].acct]]
    /\ UNCHANGED <<now, conn, tok, lock, issued, born, live>>

DeleteConnection(t) ==
    /\ pc[t] = "dDelete"
    /\ conn' = [conn EXCEPT ![loc[t].inst] = NoEntry]
    /\ IF loc[t].pair = 0
       THEN Answer(t)
       ELSE Goto(t, "dDelete", "dRefs") /\ UNCHANGED loc
    /\ UNCHANGED <<now, tok, lock, issued, born, live>>

Referenced(a) == \E i \in Installations : conn[i] # NoEntry /\ conn[i].acct = a

ListReferencing(t) ==
    /\ Goto(t, "dRefs", IF Referenced(loc[t].acct) THEN "dRevoke" ELSE "dTokDelete")
    /\ UNCHANGED <<now, conn, tok, lock, issued, born, live, loc>>

DeleteTokens(t) ==
    /\ Goto(t, "dTokDelete", "dRevoke")
    /\ tok' = [tok EXCEPT ![loc[t].acct] = 0]
    /\ UNCHANGED <<now, conn, lock, issued, born, live, loc>>

Revoke(t) ==
    /\ pc[t] = "dRevoke"
    /\ Answer(t)
    /\ live' \in {live, live \ {loc[t].pair}}
    /\ UNCHANGED <<now, conn, tok, lock, issued, born>>

-----------------------------------------------------------------------------

\* Time does not outrun a request that has a new pair still to be stored.
Tick ==
    /\ now < MaxTime
    /\ \A t \in Threads :
         pc[t] \in {"cTokens", "cConn", "eSave", "eConn"} => now < born[loc[t].pair] + Lag
    /\ now' = now + 1
    /\ UNCHANGED <<conn, tok, lock, issued, born, live, pc, loc>>

Step(t) ==
    \/ CallbackSaveTokens(t) \/ CallbackSaveConnection(t)
    \/ LoadTokens(t) \/ Lock(t) \/ Reload(t) \/ ReloadTokens(t) \/ RefreshOk(t)
    \/ RefreshFails(t) \/ RefreshSaveTokens(t) \/ RefreshSaveConnection(t) \/ Use(t)
    \/ DisconnectTokens(t) \/ DeleteConnection(t) \/ ListReferencing(t)
    \/ DeleteTokens(t) \/ Revoke(t)

Next ==
    \/ \E t \in Threads, i \in Installations :
         \/ \E a \in Accounts : Exchange(t, i, a)
         \/ LoadConnection(t, i)
         \/ DisconnectLoad(t, i)
    \/ \E t \in Threads : Step(t)
    \/ Tick

Spec == Init /\ [][Next]_vars

\* Requests keep running, and threading.Lock lets every waiter in.
FairSpec == Spec /\ \A t \in Threads : WF_vars(Step(t)) /\ SF_vars(Lock(t))

-----------------------------------------------------------------------------
(* Properties *)

\* One refresh at a time per account in a process ("single-flight por cuenta").
SingleFlight ==
    \A t, u \in Threads :
        /\ pc[t] \in Locked => lock[Key(t)] = t
        /\ pc[t] \in Locked /\ pc[u] \in Locked /\ t # u => Key(t) # Key(u)

\* What the second reading under the lock is for (oauth.py:142-147): no thread
\* sends a refresh token that another one has already spent.
RefreshUsesLive == \A t \in Threads : pc[t] = "eRefresh" => loc[t].pair \in live

\* ... nor refreshes for an installation that was refreshed while it waited.
RefreshOnlyIfStale ==
    \A t \in Threads : pc[t] = "eRefresh" => ~Fresh(conn[loc[t].inst])

\* "Access vigente o renovado" (oauth.py:126): the access token handed to the
\* adapter has not expired.
NeverServesExpired ==
    [][\A t \in Threads : pc[t] # "using" /\ pc'[t] = "using"
         => now - born[loc'[t].pair] < Life]_vars

\* The row kept for another installation (oauth.py:184-186) stays usable: the
\* revoke never takes from it the pair it is stored with.
SharedPairsSurvive ==
    [][\A t \in Threads : Revoke(t) /\ Referenced(loc[t].acct)
         => tok[loc[t].acct] \notin live \ live']_vars

\* "Borrado local siempre" (oauth.py:206): a connection that was deleted comes
\* back only through a new consent.  The code does not keep this: a refresh in
\* flight writes back what it has read (README, section 6).
ErasedStaysErased ==
    [][\A i \in Installations : conn[i] = NoEntry /\ conn'[i] # NoEntry
         => \E t \in Threads : CallbackSaveConnection(t)]_vars

\* Every request for an access token gets an answer, whoever fails meanwhile.
Answered == \A t \in Threads : pc[t] = "eTokens" ~> pc[t] \in {"idle", "using"}
=============================================================================
