---------------------------- MODULE RelayForward ----------------------------
(***************************************************************************)
(* The local relay of the plugin: the MediaMTX child process, the PATCH    *)
(* requests that point its forward at the ingest of a Facebook live video  *)
(* (relay_manager.cpp), and the part of the dock that decides when         *)
(* (metadata_dock.cpp): the create, end and delete replies of both modes,  *)
(* the refire deferred by the cooldown, the toggle, disconnect, logout,    *)
(* erase and mode switch.                                                  *)
(*                                                                         *)
(* Everything runs in one Qt event loop, so an action is one handler; what *)
(* interleaves is the child process, the replies of its Control API, the   *)
(* replies of Graph and the timers.  The destination derived from an       *)
(* ingest is named by its video.  The dock's relayState_ is the manager's  *)
(* state: the signal that copies it is delivered inside setState.          *)
(***************************************************************************)
EXTENDS Integers, Sequences, SequencesExt, FiniteSets

CONSTANTS
    Videos,      \* ids Graph gives to created live videos, in any order
    Cooldown,    \* relay::cooldownMs()
    Slack,       \* how early a coarse QTimer may fire
    MaxTime,     \* bound: the clock
    MaxPatches,  \* bound: PATCH requests in flight
    MaxKills,    \* bound: kill timers armed
    NoVideo

ASSUME RelayAssumption ==
    /\ Cooldown \in Nat \ {0} /\ Slack \in 0..Cooldown
    /\ MaxTime \in Nat \ {0} /\ MaxPatches \in Nat \ {0} /\ MaxKills \in Nat \ {0}
    /\ NoVideo \notin Videos

VARIABLES
    \* RelayManager
    proc,          \* proc_->state()
    state,         \* state_
    stopping,      \* stopping_
    pendingDest,   \* pendingDest_
    clearPending,  \* clearPending_
    lastOk,        \* lastOkMs_, 0 if no forward was ever accepted
    kills,         \* armed one-shot timers of stop()
    patches,       \* PATCH requests without a reply
    \* MetadataDock
    live,          \* currentFbLiveId()
    refire,        \* fbRefire_ and its timer
    usable,        \* platformUsable(Facebook)
    managed,       \* isManaged(): the mode is the other one
    inFlight,      \* fbIntentCreateInFlight_
    creating,      \* of each video, the mode its create in flight was sent in
    now,           \* the clock, from 1
    \* history
    created,       \* videos of the combo, in the order they entered it
    asked,         \* the last process was asked to stop (TRUE before the first)
    notices        \* messages about the death of this process

relay == <<proc, state, stopping, pendingDest, clearPending, lastOk, kills, patches>>
dock == <<live, refire, usable, managed, inFlight, creating>>
history == <<created, asked, notices>>
vars == <<relay, dock, now, history>>

States == {"Stopped", "Starting", "Running", "ForwardOk", "ForwardFailed", "Blocked"}
\* "dying": killed, and finished() not delivered yet.
Procs == {"down", "starting", "up", "dying"}
Patches == [dest: Videos \union {NoVideo}, served: BOOLEAN]   \* NoVideo: {"forward":[]}
NoRefire == [video |-> NoVideo, fireAt |-> 0]
Modes == {"Independent", "Managed"}
Mode == IF managed THEN "Managed" ELSE "Independent"

TypeOK ==
    /\ proc \in Procs
    /\ state \in States
    /\ stopping \in BOOLEAN /\ clearPending \in BOOLEAN
    /\ pendingDest \in Videos \union {NoVideo}
    /\ lastOk \in 0..now /\ now \in 1..MaxTime
    /\ kills \in 0..MaxKills
    /\ patches \in Seq(Patches) /\ Len(patches) <= MaxPatches
    /\ live \in Range(created) \union {NoVideo}
    /\ \/ refire = NoRefire
       \/ refire.video \in Range(created) /\ refire.fireAt \in 1..MaxTime + Cooldown
    /\ usable \in BOOLEAN /\ managed \in BOOLEAN
    /\ inFlight \in BOOLEAN /\ creating \in [Videos -> Modes \union {"none"}]
    /\ \A v \in Range(created) : creating[v] = "none"
    /\ created \in Seq(Videos) /\ IsInjective(created)
    /\ asked \in BOOLEAN /\ notices \in 0..2

Init ==
    /\ proc = "down" /\ state = "Stopped" /\ stopping = FALSE
    /\ pendingDest = NoVideo /\ clearPending = FALSE /\ lastOk = 0
    /\ kills = 0 /\ patches = <<>>
    /\ live = NoVideo /\ refire = NoRefire /\ usable = TRUE /\ managed = FALSE
    /\ inFlight = FALSE /\ creating = [v \in Videos |-> "none"] /\ now = 1
    /\ created = <<>> /\ asked = TRUE /\ notices = 0

CanRefire == lastOk = 0 \/ now - lastOk >= Cooldown
IsRunning(s) == s \notin {"Stopped", "Blocked"}        \* relay::stateIsRunning

-----------------------------------------------------------------------------
(* The relay manager: what each of its methods does to its variables.      *)

Patch(d) == [dest |-> d, served |-> FALSE]
PatchIf(d) == IF d = NoVideo THEN <<>> ELSE <<Patch(d)>>

\* sendPatch
Send(d) ==
    /\ patches' = Append(patches, Patch(d))
    /\ clearPending' = (d = NoVideo)

\* Mutant of LaunchRunning: ensureStarted resets stopping_ before it looks at
\* the process.
LaunchRunningForgets(d) ==
    /\ proc # "down" /\ stopping' = FALSE
    /\ \/ d = NoVideo /\ UNCHANGED <<pendingDest, patches, clearPending>>
       \/ d # NoVideo /\ Send(d) /\ UNCHANGED pendingDest
    /\ UNCHANGED <<proc, state, asked, notices>>

\* refireFromIngest (past its cooldown check) and refireDest with a process
\* that is not down; with NoVideo, ensureStarted alone.
LaunchRunning(d) ==
    /\ proc # "down"
    /\ \/ d = NoVideo /\ UNCHANGED <<pendingDest, patches, clearPending>>
       \/ d # NoVideo /\ state = "Starting" /\ pendingDest' = d
          /\ UNCHANGED <<patches, clearPending>>
       \/ d # NoVideo /\ state # "Starting" /\ Send(d) /\ UNCHANGED pendingDest
    /\ UNCHANGED <<proc, state, stopping, asked, notices>>

\* No binary, or a port is taken.
LaunchBlocked ==
    /\ proc = "down" /\ state' = "Blocked"
    /\ UNCHANGED <<proc, stopping, pendingDest, patches, clearPending, asked, notices>>

\* proc_->start() returns before the child started: the destination waits.
LaunchStarting(d) ==
    /\ proc = "down" /\ proc' = "starting" /\ state' = "Starting"
    /\ stopping' = FALSE /\ asked' = FALSE /\ notices' = 0
    /\ pendingDest' = IF d = NoVideo THEN pendingDest ELSE d
    /\ UNCHANGED <<patches, clearPending>>

\* The child starts inside proc_->start(): onStarted runs first.
LaunchStarted(d) ==
    LET sent == PatchIf(pendingDest) \o PatchIf(d)
    IN /\ proc = "down" /\ proc' = "up" /\ state' = "Running"
       /\ stopping' = FALSE /\ asked' = FALSE /\ notices' = 0
       /\ pendingDest' = NoVideo
       /\ patches' = patches \o sent
       /\ clearPending' = (clearPending /\ sent = <<>>)

\* FailedToStart inside proc_->start(): onProcessError runs first, and the
\* caller then keeps the destination for a start that is over.
LaunchFailed(d) ==
    /\ proc = "down" /\ state' = "Stopped"
    /\ stopping' = FALSE /\ asked' = FALSE /\ notices' = 1
    /\ pendingDest' = d
    /\ UNCHANGED <<proc, patches, clearPending>>

Launch(d) ==
    /\ \/ LaunchRunning(d) \/ LaunchBlocked \/ LaunchStarting(d)
       \/ LaunchStarted(d) \/ LaunchFailed(d)
    /\ UNCHANGED <<lastOk, kills>>

Stop ==
    /\ pendingDest' = NoVideo /\ state' = "Stopped"
    /\ IF proc = "down"
       THEN UNCHANGED <<stopping, kills, asked>>
       ELSE stopping' = TRUE /\ kills' = kills + 1 /\ asked' = TRUE
    /\ UNCHANGED <<proc, clearPending, lastOk, patches, notices>>

ClearForward ==
    /\ \/ proc = "down" /\ state' = "Stopped" /\ UNCHANGED <<patches, clearPending>>
       \/ proc # "down" /\ Send(NoVideo) /\ UNCHANGED state
    /\ UNCHANGED <<proc, stopping, pendingDest, lastOk, kills, asked, notices>>

-----------------------------------------------------------------------------
(* The child process, its Control API and the timers of the manager.       *)

\* Mutant of Started: the destination is sent and kept.
StartedKeepsPending ==
    /\ proc = "starting"
    /\ proc' = "up" /\ state' = "Running"
    /\ patches' = patches \o PatchIf(pendingDest)
    /\ clearPending' = (clearPending /\ pendingDest = NoVideo)
    /\ UNCHANGED <<stopping, pendingDest, lastOk, kills, dock, now, history>>

\* onStarted
Started ==
    /\ proc = "starting"
    /\ proc' = "up" /\ state' = "Running" /\ pendingDest' = NoVideo
    /\ patches' = patches \o PatchIf(pendingDest)
    /\ clearPending' = (clearPending /\ pendingDest = NoVideo)
    /\ UNCHANGED <<stopping, lastOk, kills, dock, now, history>>

\* Mutant of FailsToStart: it does not ask whether the death was expected.
FailsToStartAlwaysTells ==
    /\ proc = "starting" /\ proc' = "down"
    /\ pendingDest' = NoVideo /\ state' = "Stopped" /\ notices' = notices + 1
    /\ UNCHANGED <<stopping, clearPending, lastOk, kills, patches, dock, now, created, asked>>

\* onProcessError(FailedToStart)
FailsToStart ==
    /\ proc = "starting" /\ proc' = "down"
    /\ \/ stopping /\ UNCHANGED <<pendingDest, state, notices>>
       \/ ~stopping /\ pendingDest' = NoVideo /\ state' = "Stopped" /\ notices' = notices + 1
    /\ UNCHANGED <<stopping, clearPending, lastOk, kills, patches, dock, now, created, asked>>

\* onFinished, after onProcessError(Crashed) if it crashed
Ends ==
    /\ proc \in {"up", "dying"} /\ proc' = "down"
    /\ pendingDest' = NoVideo /\ stopping' = FALSE /\ state' = "Stopped"
    /\ notices' = IF stopping THEN notices ELSE notices + 1
    /\ UNCHANGED <<clearPending, lastOk, kills, patches, dock, now, created, asked>>

\* Mutant of KillTimeout: it kills whatever process is there.
KillTimeoutBlind ==
    /\ kills > 0 /\ kills' = kills - 1
    /\ proc' = IF proc # "down" THEN "dying" ELSE proc
    /\ UNCHANGED <<state, stopping, pendingDest, clearPending, lastOk, patches, dock, now, history>>

\* onKillTimeout
KillTimeout ==
    /\ kills > 0 /\ kills' = kills - 1
    /\ proc' = IF stopping /\ proc # "down" THEN "dying" ELSE proc
    /\ UNCHANGED <<state, stopping, pendingDest, clearPending, lastOk, patches, dock, now, history>>

\* MediaMTX takes a PATCH and dials the new destination.
PatchServed(i) ==
    /\ proc = "up" /\ ~patches[i].served
    /\ patches' = [patches EXCEPT ![i].served = TRUE]
    /\ UNCHANGED <<proc, state, stopping, pendingDest, clearPending, lastOk, kills,
                   dock, now, history>>

\* onPatchFinished, accepted
PatchOk(i) ==
    /\ patches[i].served /\ patches' = RemoveAt(patches, i)
    /\ \/ clearPending /\ state' = "Running" /\ UNCHANGED lastOk
       \/ ~clearPending /\ state' = "ForwardOk" /\ lastOk' = now
    /\ UNCHANGED <<proc, stopping, pendingDest, clearPending, kills, dock, now, history>>

\* onPatchFinished, refused or without an answer
PatchFailed(i) ==
    /\ patches' = RemoveAt(patches, i) /\ state' = "ForwardFailed"
    /\ UNCHANGED <<proc, stopping, pendingDest, clearPending, lastOk, kills, dock, now, history>>

-----------------------------------------------------------------------------
(* The dock.                                                               *)

\* Mutant of RefireAfter: setFbLiveId cancels nothing.
RefireKept(v) == refire

\* setFbLiveId: the deferred refire of another video goes.
RefireAfter(v) == IF refire.video = v THEN refire ELSE NoRefire

\* fbScheduleRefire
Schedule(v) == refire' = [video |-> v, fireAt |-> lastOk + Cooldown]

\* fbRefireOrDefer -> refireFromIngest
RefireOrDefer(v) ==
    \/ CanRefire /\ Launch(v) /\ refire' = RefireAfter(v)
    \/ ~CanRefire /\ Schedule(v) /\ UNCHANGED <<relay, asked, notices>>

\* An ingest that gives no destination: refireFromIngest only says so.
RefireMalformed(v) ==
    /\ state' = IF CanRefire THEN "ForwardFailed" ELSE state
    /\ refire' = RefireAfter(v)
    /\ UNCHANGED <<proc, stopping, pendingDest, clearPending, lastOk, kills, patches, asked, notices>>

\* onFbCreate asks the flag; Apply's create does not, but only runs with no
\* video selected.  A new id: the name of a deleted video serves again once
\* nothing refers to it.
CreateSend(v) ==
    /\ usable /\ (~inFlight \/ live = NoVideo)
    /\ creating[v] = "none" /\ v \notin Range(created)
    /\ v # pendingDest /\ \A i \in DOMAIN patches : patches[i].dest # v
    /\ inFlight' = TRUE /\ creating' = [creating EXCEPT ![v] = Mode]
    /\ UNCHANGED <<relay, live, refire, usable, managed, now, history>>

\* Mutant of CreateReply: the request stays open and is answered again.
CreateReplyKeeps(v) ==
    /\ creating[v] = Mode
    /\ inFlight' = FALSE /\ created' = Append(created, v) /\ live' = v
    /\ refire' = RefireAfter(v)
    /\ UNCHANGED <<relay, asked, notices, creating, usable, managed, now>>

\* The reply, in the mode it was asked in: the video becomes the current one,
\* with an ingest, without one, or with one that is no use.
CreateReply(v) ==
    /\ creating[v] = Mode
    /\ creating' = [creating EXCEPT ![v] = "none"] /\ inFlight' = FALSE
    /\ created' = Append(created, v) /\ live' = v
    /\ \/ RefireOrDefer(v)
       \/ RefireMalformed(v)
       \/ refire' = RefireAfter(v) /\ UNCHANGED <<relay, asked, notices>>
    /\ UNCHANGED <<usable, managed, now>>

\* Refused; or dropped, whatever it says, in the other mode.
CreateFailed(v) ==
    /\ creating[v] # "none" /\ creating' = [creating EXCEPT ![v] = "none"]
    /\ inFlight' = (inFlight /\ creating[v] # Mode)
    /\ UNCHANGED <<relay, live, refire, usable, managed, now, history>>

\* An end or a delete was accepted: clearForward, then fbCancelRefire.
DropForward == ClearForward /\ refire' = NoRefire

\* Independent asks that some video is still selected, not that it is the one
\* that ended; in Managed the reply names its video.
EndReply ==
    /\ live # NoVideo \/ managed
    /\ DropForward
    /\ UNCHANGED <<live, usable, managed, inFlight, creating, now, created>>

\* The entry of a video leaves the combo.
RemoveEntry(v) == \E i \in DOMAIN created : created[i] = v /\ created' = RemoveAt(created, i)

\* Independent removes the entry selected now.  If none is, all of them match
\* the empty id and leave.
DeleteReply ==
    /\ ~managed
    /\ \/ live = NoVideo /\ created' = <<>>
       \/ live # NoVideo /\ RemoveEntry(live)
    /\ live' \in Range(created') \union {NoVideo}
    /\ DropForward
    /\ UNCHANGED <<usable, managed, inFlight, creating, now>>

\* Managed removes the entry of the reply's id, if the combo has it.
ManagedDeleteReply(v) ==
    /\ managed
    /\ \/ v \in Range(created) /\ RemoveEntry(v)
       \/ v \notin Range(created) /\ UNCHANGED created
    /\ IF live = v THEN live' \in Range(created') \union {NoVideo} ELSE UNCHANGED live
    /\ DropForward
    /\ UNCHANGED <<usable, managed, inFlight, creating, now>>

\* An adopt or a status read selects a video: setFbLiveId, without a refire.
Bind(v) ==
    /\ creating[v] = "none" /\ live' = v /\ refire' = RefireAfter(v)
    /\ created' = IF v \in Range(created) THEN created ELSE Append(created, v)
    /\ UNCHANGED <<relay, usable, managed, inFlight, creating, now, asked, notices>>

\* The user chooses a video, or the list is filled again and none is selected:
\* this cancels nothing.
Pick(v) ==
    /\ v \in Range(created) \union {NoVideo} /\ live' = v
    /\ UNCHANGED <<relay, refire, usable, managed, inFlight, creating, now, history>>

\* fbFireRefire
DeferredTimer ==
    /\ refire # NoRefire /\ now >= refire.fireAt - Slack
    /\ refire' = NoRefire
    /\ IF now >= refire.fireAt /\ refire.video = live /\ usable /\ IsRunning(state)
       THEN Launch(refire.video)
       ELSE UNCHANGED <<relay, asked, notices>>
    /\ UNCHANGED <<live, usable, managed, inFlight, creating, now, created>>

\* onRelayToggle
Toggle ==
    /\ IF IsRunning(state) THEN Stop ELSE Launch(NoVideo)
    /\ UNCHANGED <<dock, now, created>>

\* A connection completes; finishManagedConnected runs fbValidateAtStartup.
Connect ==
    /\ ~usable /\ usable' = TRUE
    /\ IF managed THEN Launch(NoVideo) ELSE UNCHANGED <<relay, asked, notices>>
    /\ UNCHANGED <<live, refire, managed, inFlight, creating, now, created>>

\* Graph refuses the token of an update or a go live, or the backend the login.
NeedsReconnection ==
    /\ usable /\ usable' = FALSE
    /\ UNCHANGED <<relay, live, refire, managed, inFlight, creating, now, history>>

\* wipeLocal(Facebook), onDisconnectManaged(Facebook)
Disconnect ==
    /\ usable /\ usable' = FALSE /\ inFlight' = FALSE /\ Stop
    /\ UNCHANGED <<live, refire, managed, creating, now, created>>

\* The replies of a logout and of the two erases forget the Managed accounts,
\* whatever the mode is by then.
ManagedLeft ==
    /\ usable' = (usable /\ ~managed) /\ Stop
    /\ UNCHANGED <<live, refire, managed, inFlight, creating, now, created>>

\* cancelPendingForModeSwitch; the account of the other mode may be connected.
ModeSwitch ==
    /\ managed' = ~managed /\ usable' \in BOOLEAN /\ inFlight' = FALSE
    /\ refire' = NoRefire /\ Stop
    /\ UNCHANGED <<live, creating, now, created>>

Tick ==
    /\ now < MaxTime /\ now' = now + 1
    /\ UNCHANGED <<relay, dock, history>>

\* The bounds: no handler that could exceed them runs.
Bounds == Len(patches') <= MaxPatches /\ kills' <= MaxKills

ProcessNext == Started \/ FailsToStart \/ Ends \/ KillTimeout
PatchNext == \E i \in 1..Len(patches) : PatchServed(i) \/ PatchOk(i) \/ PatchFailed(i)
DockNext ==
    \/ \E v \in Videos : CreateSend(v) \/ CreateReply(v) \/ CreateFailed(v)
    \/ \E v \in Videos : ManagedDeleteReply(v) \/ Bind(v)
    \/ \E v \in Videos \union {NoVideo} : Pick(v)
    \/ EndReply \/ DeleteReply \/ DeferredTimer
    \/ Toggle \/ Connect \/ NeedsReconnection \/ Disconnect \/ ManagedLeft \/ ModeSwitch

Next == (ProcessNext \/ PatchNext \/ DockNext \/ Tick) /\ Bounds

Spec == Init /\ [][Next]_vars

\* An armed timer fires, a killed process ends and a start has an outcome.
FairSpec ==
    /\ Spec
    /\ WF_vars(KillTimeout)
    /\ WF_vars(proc = "dying" /\ Ends)
    /\ WF_vars((Started \/ FailsToStart) /\ Bounds)

-----------------------------------------------------------------------------
(* Properties.                                                             *)

\* A destination kept for onStarted (pendingDest_) has a start to wait for: one
\* in course that nobody asked to stop.  The exception is the one left behind
\* by a start that failed at once, inside start(): it stays, with the process
\* down and the failure told, until the next start sends or replaces it, or a
\* stop drops it.
PendingNotStranded ==
    pendingDest # NoVideo =>
        \/ proc = "starting" /\ ~asked
        \/ proc = "down" /\ ~asked /\ notices = 1

\* Every process that dies unasked is reported once, by onProcessError or by
\* onFinished, and one that was stopped is never reported as a failure.
DeathToldOnce ==
    /\ proc = "down" => notices = IF asked THEN 0 ELSE 1
    /\ proc # "down" => notices = 0

\* The deferred refire is of the video that entered the combo last: a create,
\* whatever its ingest, and an adopt take back the deferred destination of an
\* earlier video.
DeferredIsNewest == refire # NoRefire => refire.video = Last(created)

\* The timer of an earlier stop() never kills a process started since.
KillsOnlyAsked == [][proc' = "dying" => asked]_vars

\* A process that was asked to stop ends, even if it ignores terminate():
\* the timer finds stopping_ still set whatever is called meanwhile.
StopStops == (proc # "down" /\ asked) ~> proc = "down"

\* The deferred refire is given up only if its video is no longer current or
\* its relay is off: "espero un poco ... y sigo solo" (metadata_dock.cpp:2779).
\* The code does not keep this: a coarse timer that fires early finds it is
\* not due yet and nothing arms it again (README, section 6).
DeferredNotLost ==
    [][DeferredTimer /\ refire.video = live /\ usable /\ IsRunning(state)
         => relay' # relay]_vars

=============================================================================
