----------------------------- MODULE RelayProofs -----------------------------
(***************************************************************************)
(* Proofs about RelayForward for any videos, any cooldown, any slack of    *)
(* the timers and any number of requests in flight.                        *)
(***************************************************************************)
EXTENDS RelayForward, SequenceTheorems, TLAPS

(***************************************************************************)
(* The inductive invariant.  The code tells a death from a stop by         *)
(* stopping_, the properties by what was asked of the process: StopInv     *)
(* says that the two agree while there is a process.  A destination is     *)
(* kept only in state Starting, which a stop leaves (StartInv): so none    *)
(* waits behind a process that is being stopped or that the kill timer     *)
(* takes.                                                                  *)
(***************************************************************************)

StopInv ==
    /\ proc # "down" => (stopping <=> asked)
    /\ proc = "dying" => stopping
    /\ stopping \in BOOLEAN /\ asked \in BOOLEAN
    /\ proc \in Procs

StartInv == state = "Starting" => proc = "starting" /\ ~stopping

IInv == StopInv /\ StartInv /\ PendingNotStranded /\ DeathToldOnce

\* What a step may do to the variables of the invariant.
core == <<proc, state, stopping, pendingDest, asked, notices>>

LEMMA InitIInv == Init => IInv
BY DEF Init, IInv, StopInv, StartInv, PendingNotStranded, DeathToldOnce, Procs

LEMMA LaunchIInv == ASSUME IInv, NEW d, Launch(d) PROVE IInv'
<1>. USE DEF IInv, StopInv, StartInv, PendingNotStranded, DeathToldOnce, Procs
<1>1. CASE LaunchRunning(d)
  BY <1>1 DEF LaunchRunning
<1>2. CASE LaunchBlocked
  BY <1>2 DEF LaunchBlocked
<1>3. CASE LaunchStarting(d)
  BY <1>3 DEF LaunchStarting
<1>4. CASE LaunchStarted(d)
  BY <1>4 DEF LaunchStarted
<1>5. CASE LaunchFailed(d)
  BY <1>5 DEF LaunchFailed
<1>6. QED  BY <1>1, <1>2, <1>3, <1>4, <1>5 DEF Launch

LEMMA StopIInv == ASSUME IInv, Stop PROVE IInv'
BY DEF IInv, StopInv, StartInv, PendingNotStranded, DeathToldOnce, Procs, Stop

LEMMA ClearIInv == ASSUME IInv, ClearForward PROVE IInv'
BY DEF IInv, StopInv, StartInv, PendingNotStranded, DeathToldOnce, Procs, ClearForward

LEMMA KeepIInv == ASSUME IInv, UNCHANGED core PROVE IInv'
BY DEF IInv, StopInv, StartInv, PendingNotStranded, DeathToldOnce, core

LEMMA ProcessIInv == ASSUME IInv, ProcessNext PROVE IInv'
<1>. USE DEF IInv, StopInv, StartInv, PendingNotStranded, DeathToldOnce, Procs, history
<1>1. CASE Started
  BY <1>1 DEF Started
<1>2. CASE FailsToStart
  BY <1>2 DEF FailsToStart
<1>3. CASE Ends
  <2>1. CASE stopping
    BY <1>3, <2>1 DEF Ends
  <2>2. CASE ~stopping
    <3>1. notices = 0 /\ ~asked
      BY <1>3, <2>2 DEF Ends
    <3>2. notices' = 1
      BY <1>3, <2>2, <3>1 DEF Ends
    <3>3. QED  BY <1>3, <2>2, <3>1, <3>2 DEF Ends
  <2>3. QED  BY <2>1, <2>2
<1>4. CASE KillTimeout
  BY <1>4 DEF KillTimeout
<1>5. QED  BY <1>1, <1>2, <1>3, <1>4 DEF ProcessNext

LEMMA PatchIInv == ASSUME IInv, PatchNext PROVE IInv'
<1>1. PICK i \in 1..Len(patches) : PatchServed(i) \/ PatchOk(i) \/ PatchFailed(i)
  BY DEF PatchNext
<1>2. /\ UNCHANGED <<proc, stopping, pendingDest, asked, notices>>
      /\ state' \in {state, "Running", "ForwardOk", "ForwardFailed"}
  BY <1>1 DEF PatchServed, PatchOk, PatchFailed, history
<1>3. QED  BY <1>2 DEF IInv, StopInv, StartInv, PendingNotStranded, DeathToldOnce

LEMMA DockIInv == ASSUME IInv, DockNext PROVE IInv'
<1>1. ASSUME NEW v, CreateSend(v) \/ CreateFailed(v) \/ Pick(v) \/ Bind(v) PROVE IInv'
  <2>1. UNCHANGED core
    BY <1>1 DEF CreateSend, CreateFailed, Pick, Bind, relay, history, core
  <2>2. QED  BY <2>1, KeepIInv
<1>2. ASSUME NEW v \in Videos, CreateReply(v) PROVE IInv'
  <2>1. CASE RefireOrDefer(v)
    BY <2>1, LaunchIInv, KeepIInv DEF RefireOrDefer, relay, core
  <2>2. CASE RefireMalformed(v)
    <3>1. /\ UNCHANGED <<proc, stopping, pendingDest, asked, notices>>
          /\ state' \in {state, "ForwardFailed"}
      BY <2>2 DEF RefireMalformed
    <3>2. QED  BY <3>1 DEF IInv, StopInv, StartInv, PendingNotStranded, DeathToldOnce
  <2>3. CASE UNCHANGED <<relay, asked, notices>>
    BY <2>3, KeepIInv DEF relay, core
  <2>4. QED  BY <1>2, <2>1, <2>2, <2>3 DEF CreateReply
<1>3. ASSUME NEW v, EndReply \/ DeleteReply \/ ManagedDeleteReply(v) PROVE IInv'
  BY <1>3, ClearIInv DEF EndReply, DeleteReply, ManagedDeleteReply, DropForward
<1>4. CASE DeferredTimer \/ Connect
  BY <1>4, LaunchIInv, KeepIInv DEF DeferredTimer, Connect, relay, core
<1>5. CASE Toggle
  BY <1>5, LaunchIInv, StopIInv DEF Toggle
<1>6. CASE NeedsReconnection
  BY <1>6, KeepIInv DEF NeedsReconnection, relay, history, core
<1>7. CASE Disconnect \/ ManagedLeft \/ ModeSwitch
  BY <1>7, StopIInv DEF Disconnect, ManagedLeft, ModeSwitch
<1>8. QED  BY <1>1, <1>2, <1>3, <1>4, <1>5, <1>6, <1>7 DEF DockNext

LEMMA StepIInv == IInv /\ [Next]_vars => IInv'
<1>. SUFFICES ASSUME IInv, [Next]_vars PROVE IInv'
  OBVIOUS
<1>1. CASE Tick \/ UNCHANGED vars
  BY <1>1, KeepIInv DEF Tick, vars, relay, history, core
<1>2. QED  BY <1>1, ProcessIInv, PatchIInv, DockIInv DEF Next

LEMMA Inductive == Spec => []IInv
BY InitIInv, StepIInv, PTL DEF Spec

\* A destination kept for onStarted waits for a start in course that nobody
\* asked to stop; or a start that failed at once has left it, with the process
\* down and the failure told.
THEOREM PendingCorrect == Spec => []PendingNotStranded
<1>1. IInv => PendingNotStranded
  BY DEF IInv
<1>. QED  BY <1>1, Inductive, PTL

\* A death nobody asked for is told exactly once, any other never.
THEOREM DeathCorrect == Spec => []DeathToldOnce
<1>1. IInv => DeathToldOnce
  BY DEF IInv
<1>. QED  BY <1>1, Inductive, PTL

\* The kill timer takes only a process that was itself asked to stop.
THEOREM KillCorrect == Spec => KillsOnlyAsked
<1>1. ASSUME IInv, ProcessNext, proc' = "dying", proc # "dying" PROVE asked
  BY <1>1 DEF ProcessNext, Started, FailsToStart, Ends, KillTimeout, IInv, StopInv
<1>2. ASSUME NEW d, Launch(d), proc' = "dying" PROVE proc = "dying"
  BY <1>2 DEF Launch, LaunchRunning, LaunchBlocked, LaunchStarting, LaunchStarted,
              LaunchFailed
<1>3. ASSUME PatchNext \/ DockNext \/ Tick, proc' = "dying" PROVE proc = "dying"
  BY <1>2, <1>3 DEF PatchNext, PatchServed, PatchOk, PatchFailed, DockNext, CreateSend,
     CreateReply, CreateFailed, Pick, Bind, RefireOrDefer, RefireMalformed, EndReply,
     DeleteReply, ManagedDeleteReply, DropForward, ClearForward, DeferredTimer, Toggle,
     Connect, NeedsReconnection, Disconnect, ManagedLeft, ModeSwitch, Stop, Tick, relay
<1>4. IInv /\ proc = "dying" => asked
  BY DEF IInv, StopInv
<1>5. IInv /\ [Next]_vars => [proc' = "dying" => asked]_vars
  BY <1>1, <1>3, <1>4 DEF Next
<1>. QED  BY <1>5, Inductive, PTL DEF Spec, KillsOnlyAsked

-----------------------------------------------------------------------------
(***************************************************************************)
(* Type correctness, and the deferred refire.                              *)
(***************************************************************************)

LEMMA AppendFacts ==
    ASSUME NEW S, NEW s \in Seq(S), NEW v \in S
    PROVE  /\ Append(s, v) \in Seq(S)
           /\ Range(Append(s, v)) = Range(s) \union {v}
           /\ Last(Append(s, v)) = v
           /\ IsInjective(s) /\ v \notin Range(s) => IsInjective(Append(s, v))
<1>1. /\ Append(s, v) \in Seq(S) /\ Len(Append(s, v)) = Len(s) + 1
      /\ DOMAIN s = 1..Len(s) /\ DOMAIN Append(s, v) = 1..Len(s) + 1
      /\ \A i \in 1..Len(s) : Append(s, v)[i] = s[i]
      /\ Append(s, v)[Len(s) + 1] = v
  OBVIOUS
<1>2. Len(s) \in Nat
  OBVIOUS
<1>3. 1..Len(s) + 1 = (1..Len(s)) \union {Len(s) + 1}
  BY <1>2
<1>4. Range(Append(s, v)) = Range(s) \union {v}
  BY <1>1, <1>2, <1>3 DEF Range
<1>5. Last(Append(s, v)) = v
  BY <1>1 DEF Last
<1>6. ASSUME IsInjective(s), v \notin Range(s) PROVE IsInjective(Append(s, v))
  BY <1>1, <1>2, <1>3, <1>6 DEF IsInjective, Range
<1>7. QED  BY <1>1, <1>4, <1>5, <1>6

LEMMA RemoveFacts ==
    ASSUME NEW S, NEW s \in Seq(S), NEW i \in 1..Len(s)
    PROVE  /\ RemoveAt(s, i) \in Seq(S) /\ Len(RemoveAt(s, i)) = Len(s) - 1
           /\ Range(RemoveAt(s, i)) \subseteq Range(s)
           /\ \A x \in Range(s) \ {s[i]} : x \in Range(RemoveAt(s, i))
           /\ IsInjective(s) => IsInjective(RemoveAt(s, i))
<1> DEFINE l == SubSeq(s, 1, i - 1)
           m == SubSeq(s, i + 1, Len(s))
           r == RemoveAt(s, i)
<1>1. /\ Len(s) \in Nat /\ DOMAIN s = 1..Len(s) /\ i \in 1..Len(s)
      /\ \A j \in 1..Len(s) : s[j] \in S
  OBVIOUS
<1>2. /\ l \in Seq(S) /\ Len(l) = i - 1
      /\ \A j \in 1..i - 1 : l[j] = s[j]
  <2>1. \A j \in 1..i - 1 : s[j] \in S
    BY <1>1
  <2>2. /\ l \in Seq(S) /\ Len(l) = IF 1 <= i - 1 THEN i - 1 - 1 + 1 ELSE 0
        /\ \A j \in 1..i - 1 - 1 + 1 : l[j] = s[1 + j - 1]
    BY <1>1, <2>1, SubSeqProperties
  <2>3. QED  BY <1>1, <2>2
<1>3. /\ m \in Seq(S) /\ Len(m) = Len(s) - i
      /\ \A j \in 1..Len(s) - i : m[j] = s[i + j]
  <2>1. \A j \in i + 1..Len(s) : s[j] \in S
    BY <1>1
  <2>2. /\ m \in Seq(S) /\ Len(m) = IF i + 1 <= Len(s) THEN Len(s) - (i + 1) + 1 ELSE 0
        /\ \A j \in 1..Len(s) - (i + 1) + 1 : m[j] = s[i + 1 + j - 1]
    BY <1>1, <2>1, SubSeqProperties
  <2>. HIDE DEF m
  <2>3. Len(s) - (i + 1) + 1 = Len(s) - i
    BY <1>1
  <2>4. Len(m) = Len(s) - i
    <3>1. CASE i + 1 <= Len(s)
      BY <2>2, <2>3, <3>1
    <3>2. CASE ~(i + 1 <= Len(s))
      <4>1. Len(s) - i = 0
        <5>1. i \in Int /\ Len(s) \in Int /\ i <= Len(s)
          BY <1>1
        <5>2. QED  BY <5>1, <3>2
      <4>2. QED  BY <2>2, <3>2, <4>1
    <3>3. QED  BY <3>1, <3>2
  <2>5. ASSUME NEW j \in 1..Len(s) - i PROVE m[j] = s[i + j]
    <3>1. i + 1 + j - 1 = i + j
      BY <1>1
    <3>2. m[j] = s[i + 1 + j - 1]
      BY <2>2, <2>3
    <3>3. QED  BY <3>1, <3>2
  <2>6. QED  BY <2>2, <2>4, <2>5
<1>. HIDE DEF l, m
<1>4. /\ l \o m \in Seq(S) /\ Len(l \o m) = Len(s) - 1
      /\ \A j \in 1..Len(s) - 1 : (l \o m)[j] = IF j < i THEN s[j] ELSE s[j + 1]
  <2>1. /\ l \o m \in Seq(S) /\ Len(l \o m) = Len(l) + Len(m)
        /\ \A j \in 1..Len(l) + Len(m) : (l \o m)[j] = IF j <= Len(l) THEN l[j] ELSE m[j - Len(l)]
    BY <1>2, <1>3, ConcatProperties
  <2>2. Len(l) + Len(m) = Len(s) - 1
    BY <1>1, <1>2, <1>3
  <2>3. ASSUME NEW j \in 1..Len(s) - 1
        PROVE  (l \o m)[j] = IF j < i THEN s[j] ELSE s[j + 1]
    <3>1. CASE j < i
      BY <1>1, <1>2, <2>1, <2>2, <3>1
    <3>2. CASE ~(j < i)
      <4>1. j - Len(l) \in 1..Len(s) - i /\ i + (j - Len(l)) = j + 1 /\ ~(j <= Len(l))
        BY <1>1, <1>2, <3>2
      <4>2. (l \o m)[j] = m[j - Len(l)] /\ m[j - Len(l)] = s[i + (j - Len(l))]
        BY <1>3, <2>1, <2>2, <4>1
      <4>3. QED  BY <3>2, <4>1, <4>2
    <3>3. QED  BY <3>1, <3>2
  <2>4. QED  BY <2>1, <2>2, <2>3
<1>5. r = l \o m
  BY DEF RemoveAt, l, m
<1>. HIDE DEF r
<1>6. /\ r \in Seq(S) /\ Len(r) = Len(s) - 1 /\ DOMAIN r = 1..Len(s) - 1
      /\ \A j \in 1..Len(s) - 1 : r[j] = IF j < i THEN s[j] ELSE s[j + 1]
  BY <1>4, <1>5
<1>7. Range(r) \subseteq Range(s)
  <2>1. ASSUME NEW j \in 1..Len(s) - 1 PROVE r[j] \in Range(s)
    <3>1. j \in DOMAIN s /\ j + 1 \in DOMAIN s
      BY <1>1
    <3>2. s[j] \in Range(s) /\ s[j + 1] \in Range(s)
      BY <3>1 DEF Range
    <3>3. QED  BY <1>6, <3>2
  <2>2. QED  BY <1>6, <2>1 DEF Range
<1>8. ASSUME IsInjective(s) PROVE IsInjective(r)
  <2>. SUFFICES ASSUME NEW a \in 1..Len(s) - 1, NEW b \in 1..Len(s) - 1, r[a] = r[b]
                PROVE  a = b
    BY <1>6 DEF IsInjective
  <2> DEFINE up(j) == IF j < i THEN j ELSE j + 1
  <2>1. up(a) \in 1..Len(s) /\ up(b) \in 1..Len(s)
    BY <1>1
  <2>2. r[a] = s[up(a)] /\ r[b] = s[up(b)]
    BY <1>6
  <2>3. up(a) = up(b)
    BY <1>1, <1>8, <2>1, <2>2 DEF IsInjective
  <2>4. QED  BY <1>1, <2>3
<1>9. ASSUME NEW x \in Range(s), x # s[i] PROVE x \in Range(r)
  <2>1. PICK j \in 1..Len(s) : s[j] = x
    BY <1>1 DEF Range
  <2>2. CASE j < i
    <3>1. j \in DOMAIN r /\ r[j] = x
      BY <1>1, <1>6, <2>1, <2>2
    <3>2. QED  BY <3>1 DEF Range
  <2>3. CASE j > i
    <3>1. j - 1 \in 1..Len(s) - 1 /\ ~(j - 1 < i) /\ j - 1 + 1 = j
      BY <1>1, <2>3
    <3>2. j - 1 \in DOMAIN r /\ r[j - 1] = x
      BY <1>6, <2>1, <3>1
    <3>3. QED  BY <3>2 DEF Range
  <2>4. QED  BY <1>1, <1>9, <2>1, <2>2, <2>3
<1>10. QED  BY <1>6, <1>7, <1>8, <1>9 DEF r

\* What TypeOK says of the variables of the manager, of the dock and of time.
FlagsOK == stopping \in BOOLEAN /\ clearPending \in BOOLEAN /\ asked \in BOOLEAN
RestOK ==
    /\ proc \in Procs /\ state \in States /\ pendingDest \in Videos \union {NoVideo}
    /\ kills \in 0..MaxKills /\ patches \in Seq(Patches) /\ Len(patches) <= MaxPatches
    /\ notices \in 0..2
ManagerOK == FlagsOK /\ RestOK
ClockOK == lastOk \in 0..now /\ now \in 1..MaxTime
RefireOK ==
    \/ refire = NoRefire
    \/ refire.video \in Range(created) /\ refire.fireAt \in 1..MaxTime + Cooldown
DockOK ==
    /\ live \in Range(created) \union {NoVideo} /\ RefireOK
    /\ usable \in BOOLEAN /\ managed \in BOOLEAN
    /\ inFlight \in BOOLEAN /\ creating \in [Videos -> Modes \union {"none"}]
    /\ \A v \in Range(created) : creating[v] = "none"
    /\ created \in Seq(Videos) /\ IsInjective(created)

LEMMA TypeParts == TypeOK <=> ManagerOK /\ ClockOK /\ DockOK
BY DEF TypeOK, ManagerOK, FlagsOK, RestOK, ClockOK, DockOK, RefireOK

LEMMA TypePartsNext == ManagerOK' /\ ClockOK' /\ DockOK' => TypeOK'
BY DEF TypeOK, ManagerOK, FlagsOK, RestOK, ClockOK, DockOK, RefireOK

LEMMA InitTypeOK == Init => TypeOK
<1>1. Range(<<>>) = {} /\ IsInjective(<<>>)
  BY DEF Range, IsInjective
<1>2. <<>> \in Seq(Patches) /\ <<>> \in Seq(Videos) /\ Len(<<>>) = 0
  OBVIOUS
<1>3. 0 \in 0..MaxKills /\ 1 \in 1..MaxTime /\ 0 \in 0..1 /\ 0 <= MaxPatches
  BY RelayAssumption
<1>4. Init => FlagsOK /\ usable \in BOOLEAN /\ managed \in BOOLEAN /\ inFlight \in BOOLEAN
  BY DEF Init, FlagsOK
<1>5. Init => RestOK /\ ClockOK /\ RefireOK
  BY <1>2, <1>3 DEF Init, RestOK, ClockOK, RefireOK, Procs, States
<1>6. Init => DockOK
  BY <1>1, <1>2, <1>4, <1>5 DEF Init, DockOK, Modes
<1>7. QED  BY <1>4, <1>5, <1>6 DEF TypeOK, FlagsOK, RestOK, ClockOK, RefireOK, DockOK

LEMMA PatchIfType ==
    ASSUME NEW d \in Videos \union {NoVideo}
    PROVE  PatchIf(d) \in Seq(Patches) /\ Patch(d) \in Patches /\ (d = NoVideo) \in BOOLEAN
<1>1. Patch(d) \in Patches
  BY DEF Patch, Patches
<1>2. <<>> \in Seq(Patches) /\ <<Patch(d)>> \in Seq(Patches)
  BY <1>1
<1>3. QED  BY <1>1, <1>2 DEF PatchIf

LEMMA LaunchType ==
    ASSUME ManagerOK, IInv, Bounds, NEW d \in Videos \union {NoVideo}, Launch(d)
    PROVE  ManagerOK' /\ lastOk' = lastOk
<1>1. FlagsOK'
  BY DEF ManagerOK, FlagsOK, Launch, LaunchRunning, Send, LaunchBlocked, LaunchStarting,
         LaunchStarted, LaunchFailed
<1>2. RestOK' /\ lastOk' = lastOk
  <2>. USE PatchIfType, RelayAssumption DEF ManagerOK, RestOK, Bounds, Procs, States
  <2>0. kills' = kills /\ lastOk' = lastOk
    BY DEF Launch
  <2>1. CASE LaunchRunning(d)
    <3>1. /\ UNCHANGED <<proc, state, notices>> /\ pendingDest' \in {pendingDest, d}
          /\ patches' = patches \/ patches' = Append(patches, Patch(d))
      BY <2>1, Zenon DEF LaunchRunning, Send
    <3>2. Append(patches, Patch(d)) \in Seq(Patches)
      OBVIOUS
    <3>3. QED  BY <2>0, <3>1, <3>2
  <2>2. CASE LaunchBlocked
    BY <2>0, <2>2 DEF LaunchBlocked
  <2>3. CASE LaunchStarting(d)
    BY <2>0, <2>3 DEF LaunchStarting
  <2>4. CASE LaunchStarted(d)
    BY <2>0, <2>4 DEF LaunchStarted
  <2>5. CASE LaunchFailed(d)
    BY <2>0, <2>5 DEF LaunchFailed
  <2>6. QED  BY <2>1, <2>2, <2>3, <2>4, <2>5, <2>0 DEF Launch
<1>3. QED  BY <1>1, <1>2 DEF ManagerOK

LEMMA StopType ==
    ASSUME ManagerOK, Bounds, Stop PROVE ManagerOK' /\ lastOk' = lastOk
<1>1. FlagsOK'
  BY DEF ManagerOK, FlagsOK, Stop
<1>2. RestOK' /\ lastOk' = lastOk
  BY RelayAssumption DEF ManagerOK, RestOK, Bounds, Stop, States
<1>3. QED  BY <1>1, <1>2 DEF ManagerOK

LEMMA ClearType ==
    ASSUME ManagerOK, Bounds, ClearForward PROVE ManagerOK' /\ lastOk' = lastOk
<1>1. FlagsOK'
  BY DEF ManagerOK, FlagsOK, ClearForward, Send
<1>2. RestOK' /\ lastOk' = lastOk
  <2>1. /\ UNCHANGED <<proc, pendingDest, lastOk, kills, notices>>
        /\ state' \in {state, "Stopped"}
        /\ patches' = patches \/ patches' = Append(patches, Patch(NoVideo))
    BY Zenon DEF ClearForward, Send
  <2>2. Append(patches, Patch(NoVideo)) \in Seq(Patches)
    BY PatchIfType DEF ManagerOK, RestOK
  <2>3. QED  BY <2>1, <2>2 DEF ManagerOK, RestOK, Bounds, States
<1>3. QED  BY <1>1, <1>2 DEF ManagerOK

LEMMA KeepType ==
    ASSUME ManagerOK, UNCHANGED <<relay, asked, notices>>
    PROVE  ManagerOK' /\ lastOk' = lastOk
BY DEF ManagerOK, FlagsOK, RestOK, relay

LEMMA ProcessType ==
    ASSUME TypeOK, IInv, ProcessNext, Bounds PROVE TypeOK'
<1>1. UNCHANGED <<lastOk, dock, now, created>>
  BY DEF ProcessNext, Started, FailsToStart, Ends, KillTimeout, history
<1>2. ClockOK' /\ DockOK'
  BY <1>1, TypeParts DEF ClockOK, DockOK, RefireOK, dock
<1>3. ManagerOK
  BY TypeParts
<1>4. FlagsOK'
  BY <1>3 DEF ManagerOK, FlagsOK, ProcessNext, Started, FailsToStart, Ends, KillTimeout, history
<1>5. RestOK'
  <2>. USE <1>3, PatchIfType, RelayAssumption DEF ManagerOK, RestOK, Bounds, Procs, States,
                                                  history
  <2>0. proc # "down" => notices = 0
    BY DEF IInv, DeathToldOnce
  <2>1. CASE Started
    BY <2>1 DEF Started
  <2>2. CASE FailsToStart
    BY <2>0, <2>2 DEF FailsToStart
  <2>3. CASE Ends
    BY <2>0, <2>3 DEF Ends
  <2>4. CASE KillTimeout
    BY <2>4 DEF KillTimeout
  <2>5. QED  BY <2>1, <2>2, <2>3, <2>4 DEF ProcessNext
<1>6. QED  BY <1>2, <1>4, <1>5, TypePartsNext DEF ManagerOK

LEMMA PatchType ==
    ASSUME TypeOK, PatchNext, Bounds PROVE TypeOK'
<1>1. PICK i \in 1..Len(patches) : PatchServed(i) \/ PatchOk(i) \/ PatchFailed(i)
  BY DEF PatchNext
<1>2. ManagerOK /\ ClockOK /\ DockOK /\ patches \in Seq(Patches) /\ patches[i] \in Patches
  BY TypeParts DEF ManagerOK, RestOK
<1>3. DockOK'
  BY <1>1, <1>2 DEF PatchServed, PatchOk, PatchFailed, DockOK, RefireOK, dock, history
<1>4. ClockOK'
  BY <1>1, <1>2 DEF PatchServed, PatchOk, PatchFailed, ClockOK, history
<1>5. patches' \in Seq(Patches) /\ Len(patches') <= MaxPatches
  <2>1. CASE PatchServed(i)
    <3>1. [patches[i] EXCEPT !.served = TRUE] \in Patches
      BY <1>2 DEF Patches
    <3>2. patches' = [patches EXCEPT ![i] = [patches[i] EXCEPT !.served = TRUE]]
      BY <2>1 DEF PatchServed
    <3>3. QED  BY <1>2, <3>1, <3>2 DEF ManagerOK, RestOK
  <2>2. CASE PatchOk(i) \/ PatchFailed(i)
    BY <1>2, <2>2, RemoveFacts DEF PatchOk, PatchFailed, Bounds
  <2>3. QED  BY <1>1, <2>1, <2>2
<1>6. /\ UNCHANGED <<proc, stopping, pendingDest, kills, asked, notices, clearPending>>
      /\ state' \in States
  BY <1>1, <1>2 DEF PatchServed, PatchOk, PatchFailed, history, ManagerOK, RestOK, States
<1>7. ManagerOK'
  BY <1>2, <1>5, <1>6 DEF ManagerOK, FlagsOK, RestOK
<1>8. QED  BY <1>3, <1>4, <1>7, TypePartsNext

LEMMA CreateReplyType ==
    ASSUME TypeOK, IInv, Bounds, NEW v \in Videos, CreateReply(v) PROVE TypeOK'
<1>1. /\ ManagerOK /\ ClockOK /\ DockOK /\ created \in Seq(Videos) /\ IsInjective(created)
      /\ \A w \in Range(created) : creating[w] = "none"
      /\ RefireOK
  BY TypeParts DEF DockOK
<1>2. v \notin Range(created)
  <2>1. creating[v] # "none"
    BY DEF CreateReply, Mode
  <2>2. QED  BY <1>1, <2>1
<1>3. /\ created' \in Seq(Videos) /\ IsInjective(created')
      /\ Range(created') = Range(created) \union {v}
  BY <1>1, <1>2, AppendFacts DEF CreateReply
<1>4. ManagerOK' /\ lastOk' = lastOk
  <2>1. CASE RefireOrDefer(v)
    BY <1>1, <2>1, LaunchType, KeepType DEF RefireOrDefer
  <2>2. CASE RefireMalformed(v)
    BY <1>1, <2>2 DEF RefireMalformed, ManagerOK, FlagsOK, RestOK, States
  <2>3. CASE UNCHANGED <<relay, asked, notices>>
    BY <1>1, <2>3, KeepType
  <2>4. QED  BY <2>1, <2>2, <2>3 DEF CreateReply
<1>5. refire' = RefireAfter(v) \/ refire' = [video |-> v, fireAt |-> lastOk + Cooldown]
  BY DEF CreateReply, RefireOrDefer, RefireMalformed, Schedule
<1>6. RefireOK'
  <2>1. lastOk + Cooldown \in 1..MaxTime + Cooldown
    BY <1>1, RelayAssumption DEF ClockOK
  <2>2. CASE refire' = RefireAfter(v)
    BY <1>1, <1>3, <2>2 DEF RefireAfter, RefireOK
  <2>3. CASE refire' = [video |-> v, fireAt |-> lastOk + Cooldown]
    BY <1>3, <2>1, <2>3 DEF RefireOK
  <2>4. QED  BY <1>5, <2>2, <2>3
<1>7. DockOK'
  <2>1. /\ creating' \in [Videos -> Modes \union {"none"}]
        /\ \A w \in Range(created') : creating'[w] = "none"
    <3>1. creating \in [Videos -> Modes \union {"none"}]
      BY <1>1 DEF DockOK
    <3>2. creating' = [creating EXCEPT ![v] = "none"]
      BY DEF CreateReply
    <3>3. Range(created) \subseteq Videos
      BY <1>1 DEF Range
    <3>4. QED  BY <1>1, <1>3, <3>1, <3>2, <3>3
  <2>2. /\ live' = v /\ inFlight' = FALSE /\ UNCHANGED <<usable, managed>>
    BY DEF CreateReply
  <2>3. QED  BY <1>1, <1>3, <1>6, <2>1, <2>2 DEF DockOK
<1>8. ClockOK'
  BY <1>1, <1>4 DEF CreateReply, ClockOK
<1>9. QED  BY <1>4, <1>7, <1>8, TypePartsNext

LEMMA SendType ==
    ASSUME TypeOK, NEW v \in Videos, CreateSend(v) \/ CreateFailed(v) PROVE TypeOK'
<1>1. ManagerOK /\ ClockOK /\ DockOK /\ creating \in [Videos -> Modes \union {"none"}]
  BY TypeParts DEF DockOK
<1>2. ManagerOK' /\ ClockOK'
  BY <1>1 DEF CreateSend, CreateFailed, relay, history, ManagerOK, FlagsOK, RestOK, ClockOK
<1>3. \A w \in Range(created) : creating[w] = "none" /\ w \in Videos
  BY <1>1 DEF DockOK, Range
<1>4. /\ creating' \in [Videos -> Modes \union {"none"}]
      /\ \A w \in Range(created) : creating'[w] = "none"
  <2>1. CASE CreateSend(v)
    BY <1>1, <1>3, <2>1 DEF CreateSend, Mode, Modes
  <2>2. CASE CreateFailed(v)
    BY <1>1, <1>3, <2>2 DEF CreateFailed
  <2>3. QED  BY <2>1, <2>2
<1>5. inFlight' \in BOOLEAN /\ UNCHANGED <<live, refire, usable, managed, created>>
  BY DEF CreateSend, CreateFailed, history
<1>6. DockOK'
  BY <1>1, <1>4, <1>5 DEF DockOK, RefireOK
<1>7. QED  BY <1>2, <1>6, TypePartsNext

LEMMA BindType ==
    ASSUME TypeOK, NEW v \in Videos, Bind(v) PROVE TypeOK'
<1>1. ManagerOK /\ ClockOK /\ DockOK /\ created \in Seq(Videos) /\ IsInjective(created)
  BY TypeParts DEF DockOK
<1>2. ManagerOK' /\ ClockOK'
  BY <1>1 DEF Bind, relay, ManagerOK, FlagsOK, RestOK, ClockOK
<1>3. /\ created' \in Seq(Videos) /\ IsInjective(created')
      /\ Range(created') = Range(created) \union {v}
  BY <1>1, AppendFacts DEF Bind
<1>4. /\ creating[v] = "none" /\ live' = v
      /\ UNCHANGED <<usable, managed, inFlight, creating>>
  BY DEF Bind
<1>5. RefireOK'
  BY <1>1, <1>3 DEF Bind, RefireAfter, RefireOK, DockOK
<1>6. DockOK'
  BY <1>1, <1>3, <1>4, <1>5 DEF DockOK
<1>7. QED  BY <1>2, <1>6, TypePartsNext

LEMMA PickType ==
    ASSUME TypeOK, NEW v, Pick(v) PROVE TypeOK'
<1>1. UNCHANGED <<relay, refire, usable, managed, inFlight, creating, now, history>>
  BY DEF Pick
<1>2. ManagerOK /\ ClockOK /\ DockOK /\ live' \in Range(created) \union {NoVideo}
  BY TypeParts DEF Pick
<1>3. ManagerOK' /\ ClockOK'
  BY <1>1, <1>2 DEF relay, history, ManagerOK, FlagsOK, RestOK, ClockOK
<1>4. DockOK'
  BY <1>1, <1>2 DEF history, DockOK, RefireOK
<1>5. QED  BY <1>3, <1>4, TypePartsNext

\* Whatever entries leave the combo, the rest of it stays well formed.
LEMMA DeleteType ==
    ASSUME TypeOK, Bounds, NEW v, DeleteReply \/ ManagedDeleteReply(v)
    PROVE  TypeOK'
<1>1. ManagerOK /\ ClockOK /\ DockOK /\ created \in Seq(Videos) /\ IsInjective(created)
  BY TypeParts DEF DockOK
<1>2. ASSUME NEW w, RemoveEntry(w)
      PROVE  /\ created' \in Seq(Videos) /\ Range(created') \subseteq Range(created)
             /\ IsInjective(created')
             /\ live # w /\ live \in Range(created) => live \in Range(created')
  <2>1. PICK i \in DOMAIN created : created[i] = w /\ created' = RemoveAt(created, i)
    BY <1>2 DEF RemoveEntry
  <2>2. i \in 1..Len(created)
    BY <1>1, <2>1
  <2>3. QED  BY <1>1, <2>1, <2>2, RemoveFacts
<1>3. /\ created' \in Seq(Videos) /\ Range(created') \subseteq Range(created)
      /\ IsInjective(created') /\ live' \in Range(created') \union {NoVideo}
  <2>1. CASE DeleteReply
    <3>1. <<>> \in Seq(Videos) /\ Range(<<>>) = {} /\ IsInjective(<<>>)
      BY DEF Range, IsInjective
    <3>2. QED  BY <1>2, <2>1, <3>1 DEF DeleteReply
  <2>2. CASE ManagedDeleteReply(v)
    <3>1. live \in Range(created) \union {NoVideo}
      BY <1>1 DEF DockOK
    <3>2. QED  BY <1>1, <1>2, <2>2, <3>1 DEF ManagedDeleteReply
  <2>3. QED  BY <2>1, <2>2
<1>4. ClearForward /\ refire' = NoRefire /\ UNCHANGED <<usable, managed, inFlight, creating, now>>
  BY DEF DeleteReply, ManagedDeleteReply, DropForward
<1>5. DockOK'
  BY <1>1, <1>3, <1>4 DEF DockOK, RefireOK
<1>6. ManagerOK' /\ ClockOK'
  BY <1>1, <1>4, ClearType DEF ClockOK
<1>7. QED  BY <1>5, <1>6, TypePartsNext

LEMMA DockType ==
    ASSUME TypeOK, IInv, DockNext, Bounds PROVE TypeOK'
<1>1. ManagerOK /\ ClockOK /\ DockOK /\ created \in Seq(Videos)
  BY TypeParts DEF DockOK
<1>2. ASSUME NEW v \in Videos, CreateReply(v) PROVE TypeOK'
  BY <1>2, CreateReplyType
<1>3. ASSUME NEW v \in Videos, CreateSend(v) \/ CreateFailed(v) \/ Bind(v) PROVE TypeOK'
  BY <1>3, SendType, BindType
<1>4. ASSUME NEW v, DeleteReply \/ ManagedDeleteReply(v) PROVE TypeOK'
  BY <1>4, DeleteType
<1>5. ASSUME NEW v \in Videos \union {NoVideo}, Pick(v) PROVE TypeOK'
  BY <1>5, PickType
<1>6. ASSUME EndReply \/ DeferredTimer \/ Toggle \/ Connect \/ NeedsReconnection
             \/ Disconnect \/ ManagedLeft \/ ModeSwitch
      PROVE  TypeOK'
  <2>1. UNCHANGED <<live, creating, created, now>>
    BY <1>6 DEF EndReply, DropForward, DeferredTimer, Toggle, Connect, NeedsReconnection,
                Disconnect, ManagedLeft, ModeSwitch, dock, history
  <2>2. refire' \in {refire, NoRefire}
    BY <1>6 DEF EndReply, DropForward, DeferredTimer, Toggle, Connect, NeedsReconnection,
                Disconnect, ManagedLeft, ModeSwitch, dock
  <2>3. usable' \in BOOLEAN /\ managed' \in BOOLEAN /\ inFlight' \in BOOLEAN
    BY <1>1, <1>6 DEF EndReply, DropForward, DeferredTimer, Toggle, Connect,
                      NeedsReconnection, Disconnect, ManagedLeft, ModeSwitch, dock, DockOK
  <2>4. DockOK'
    BY <1>1, <2>1, <2>2, <2>3 DEF DockOK, RefireOK
  <2>5. refire # NoRefire => refire.video \in Videos
    BY <1>1 DEF DockOK, RefireOK, Range
  <2>6. \/ UNCHANGED <<relay, asked, notices>> \/ Stop \/ ClearForward
        \/ \E d \in Videos \union {NoVideo} : Launch(d)
    BY <1>6, <2>5 DEF EndReply, DropForward, DeferredTimer, Toggle, Connect,
                      NeedsReconnection, Disconnect, ManagedLeft, ModeSwitch, history
  <2>7. ManagerOK' /\ lastOk' = lastOk
    BY <1>1, <2>6, LaunchType, StopType, ClearType, KeepType
  <2>8. ClockOK'
    BY <1>1, <2>1, <2>7 DEF ClockOK
  <2>9. QED  BY <2>4, <2>7, <2>8, TypePartsNext
<1>7. QED  BY <1>2, <1>3, <1>4, <1>5, <1>6 DEF DockNext

LEMMA StepTypeOK == TypeOK /\ IInv /\ [Next]_vars => TypeOK'
<1>. SUFFICES ASSUME TypeOK, IInv, [Next]_vars PROVE TypeOK'
  OBVIOUS
<1>1. CASE UNCHANGED vars
  BY <1>1 DEF TypeOK, vars, relay, dock, history
<1>2. CASE Tick
  BY <1>2, RelayAssumption DEF Tick, TypeOK, relay, dock, history
<1>3. QED  BY <1>1, <1>2, ProcessType, PatchType, DockType DEF Next

\* The manager, the dock and the history stay well formed, for any videos and
\* any bounds; in particular what is deferred is of a video that exists.
THEOREM TypeCorrect == Spec => []TypeOK
BY InitTypeOK, StepTypeOK, Inductive, PTL DEF Spec

LEMMA StepDeferred == TypeOK /\ DeferredIsNewest /\ [Next]_vars => DeferredIsNewest'
<1>. SUFFICES ASSUME TypeOK, DeferredIsNewest, [Next]_vars PROVE DeferredIsNewest'
  OBVIOUS
<1>1. ASSUME refire' = NoRefire \/ UNCHANGED <<refire, created>> PROVE DeferredIsNewest'
  BY <1>1 DEF DeferredIsNewest
<1>2. ASSUME NEW v \in Videos, CreateReply(v) PROVE DeferredIsNewest'
  <2>1. Last(created') = v
    BY <1>2, AppendFacts DEF CreateReply, TypeOK
  <2>2. refire' = RefireAfter(v) \/ refire' = [video |-> v, fireAt |-> lastOk + Cooldown]
    BY <1>2 DEF CreateReply, RefireOrDefer, RefireMalformed, Schedule
  <2>3. QED  BY <2>1, <2>2 DEF RefireAfter, DeferredIsNewest
<1>3. ASSUME ProcessNext \/ PatchNext \/ Tick \/ UNCHANGED vars
      PROVE  UNCHANGED <<refire, created>>
  BY <1>3 DEF ProcessNext, Started, FailsToStart, Ends, KillTimeout, PatchNext, PatchServed,
     PatchOk, PatchFailed, Tick, vars, dock, history
<1>4. CASE DockNext
  <2>1. ASSUME NEW v, CreateSend(v) \/ CreateFailed(v) \/ Pick(v)
        PROVE  UNCHANGED <<refire, created>>
    BY <2>1 DEF CreateSend, CreateFailed, Pick, history
  <2>2. ASSUME NEW v, EndReply \/ DeleteReply \/ ManagedDeleteReply(v) \/ DeferredTimer \/ ModeSwitch
        PROVE  refire' = NoRefire
    BY <2>2 DEF EndReply, DeleteReply, ManagedDeleteReply, DropForward, DeferredTimer, ModeSwitch
  <2>3. ASSUME Toggle \/ Connect \/ NeedsReconnection \/ Disconnect \/ ManagedLeft
        PROVE  UNCHANGED <<refire, created>>
    BY <2>3 DEF Toggle, Connect, NeedsReconnection, Disconnect, ManagedLeft, dock, history
  <2>4. ASSUME NEW v \in Videos, Bind(v) PROVE DeferredIsNewest'
    <3>1. refire' = RefireAfter(v)
      BY <2>4 DEF Bind
    <3>2. CASE v \in Range(created)
      BY <2>4, <3>1, <3>2 DEF Bind, RefireAfter, DeferredIsNewest
    <3>3. CASE v \notin Range(created)
      <4>1. Last(created') = v
        BY <2>4, <3>3, AppendFacts DEF Bind, TypeOK
      <4>2. QED  BY <3>1, <4>1 DEF RefireAfter, DeferredIsNewest
    <3>4. QED  BY <3>2, <3>3
  <2>5. QED  BY <1>1, <1>2, <1>4, <2>1, <2>2, <2>3, <2>4 DEF DockNext
<1>5. QED  BY <1>1, <1>3, <1>4 DEF Next

\* The deferred refire is of the video that entered the combo last, whatever was
\* created, adopted, deleted, chosen or deferred in between.
THEOREM DeferredCorrect == Spec => []DeferredIsNewest
<1>1. Init => DeferredIsNewest
  BY DEF Init, DeferredIsNewest
<1>. QED  BY <1>1, StepDeferred, TypeCorrect, PTL DEF Spec
=============================================================================
