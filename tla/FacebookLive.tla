---------------------------- MODULE FacebookLive ----------------------------
(***************************************************************************)
(* The Facebook cycle of the dock (metadata_dock.cpp): which live video is *)
(* the current one, what is known of it, the requests to Graph (directly,  *)
(* or through the backend in Managed mode) and their replies, the          *)
(* automatic go live, and the watch over the signal of the relay that is   *)
(* to end the live when the encoder is gone.                               *)
(*                                                                         *)
(* Everything runs in one Qt event loop: an action is one handler.  What   *)
(* interleaves is the replies, which come in any order and long after      *)
(* Graph served them, the signal readings, and the handlers that run       *)
(* inside a modal dialog (QMessageBox spins the loop).                     *)
(*                                                                         *)
(* The ingest and the forward are RelayForward's, the queue of Apply is    *)
(* ApplyPipeline's: here the relay changes on its own, and Apply is its    *)
(* Facebook step.  fbAutoActive_, fbAutoArmed_, fbEndAutoPending_,         *)
(* fbSigPrecreated_ and fbAutoDeleteId_ are never set by code that runs:   *)
(* their branches are left out.                                            *)
(***************************************************************************)
EXTENDS Integers, Sequences, FiniteSets, SequencesExt

CONSTANTS
    Videos,       \* ids of live videos
    Titles,       \* what the title and description edits hold, None if invalid
    None,
    GoneFails,    \* meta::fbSignalDropCountsAsGone: lost readings in a row
    MaxWire,      \* bound: requests in flight when the user sends one
    MaxDialogs,   \* bound: open message boxes
    MaxPresses,   \* bound: what the user does
    MaxSignals    \* bound: readings of the signal and changes of the relay

ASSUME LiveAssumption ==
    /\ None \notin Videos \union Titles
    /\ GoneFails \in Nat \ {0, 1} /\ MaxWire \in Nat \ {0} /\ MaxDialogs \in Nat \ {0}
    /\ MaxPresses \in Nat /\ MaxSignals \in Nat

VARIABLES
    fb,        \* what the dock keeps of the cycle, see Docks
    watch,     \* what it keeps of the signal, see Watches
    dialogs,   \* open QMessageBoxes, the innermost last
    wire,      \* requests without a reply
    graph,     \* the videos at Facebook
    managed,   \* isManaged()
    conn,      \* Facebook connected in each mode: conn[isManaged()]
    loggedIn,  \* managedAuth_->hasUserSession()
    relay,     \* relayState_: "off", "late" (off, a reading in flight), "on", "ok"
    past,      \* history, see Pasts
    presses, signals

world == <<graph, managed, conn, loggedIn, relay>>
vars == <<fb, watch, dialogs, wire, world, past, presses, signals>>

Statuses == {"none", "unpublished", "live", "vod", "deleted"}
Verdicts == {"blocked", "audience", "verified"}
Chained == {"after_create", "after_go_live", "after_end"}   \* lambdas of startManagedFbOp
Reads == Chained \union {"status", "retry"}
Ops == Reads \union {"create", "go_live", "end", "delete", "adopt", "update"}

MaybeVideo == Videos \union {None}
MaybeTitle == Titles \union {None}

Docks ==
    [current: MaybeVideo,      \* currentFbLiveId()
     verifyId: MaybeVideo,     \* fbVerifyId_
     expected: MaybeTitle,     \* fbExpectedTitle_, fbExpectedDesc_
     verdict: Verdicts,        \* fbVerify_; "audience" is its privacy-unverified
     live: BOOLEAN,            \* fbLiveState(fbLastStatus_) is Live
     quiet: BOOLEAN,           \* fbQuietStatus_
     chain: MaybeVideo,        \* fbApplyChain_, fbApplyChainId_
     statusId: MaybeVideo,     \* fbStatusId_
     creating: BOOLEAN,        \* fbIntentCreateInFlight_
     applying: BOOLEAN,        \* Apply waits for its Facebook step
     applyCreate: BOOLEAN,     \* fbApplyCreatePending_
     goAfter: BOOLEAN,         \* fbGoLivePendingAfterCreate_
     going: BOOLEAN,           \* fbGoLiveInFlight_
     tried: MaybeVideo,        \* fbGoLiveAutoTriedId_
     asked: MaybeVideo,        \* fbAutoAudienceAskedId_
     confirm: BOOLEAN,         \* fbGoLiveConfirm_
     served: BOOLEAN,          \* fbSignalNoVideoServed_
     session: MaybeVideo,      \* fbAutoGoLiveSession_, fbAutoGoLiveId_
     settled: BOOLEAN,         \* 5 min since fbAutoGoLiveAtMs_
     endConfirm: BOOLEAN]      \* fbSigEndConfirm_

Watches ==
    [emitter: BOOLEAN,                  \* signalHasEmitter(relaySignal_)
     fails: 0..GoneFails,               \* fbSigFails_, no further than GoneFails
     ballot: BoundedSeq(BOOLEAN, 3),    \* fbSigBallot_
     gone: {"no", "short", "long"}]     \* fbSigGoneSince_: less than 30 s, or more

Pasts ==
    [wrote: [Videos -> MaybeTitle],  \* the last write to a video that was accepted
     checked: SUBSET Videos,         \* last read since as unpublished, and with it
     borrowed: SUBSET Videos,        \* fbVerifyId_ under the expectation of another
     went: SUBSET Videos]            \* a go_live was sent

Pending == [res |-> "pending"]
Failed(res) == [res |-> res]
Answer(id, status, title, public) ==
    [res |-> "ok", id |-> id, status |-> status, title |-> title, public |-> public]
Req(op, id, title) == [op |-> op, id |-> id, title |-> title, managed |-> managed, ans |-> Pending]
InFlight(ops) == \E i \in DOMAIN wire : wire[i].op \in ops /\ wire[i].managed = managed

TypeOK ==
    /\ fb \in Docks /\ watch \in Watches /\ past \in Pasts
    /\ \A i \in DOMAIN dialogs : dialogs[i] \in [kind: {"go", "ask", "end", "delete"}, id: Videos]
    /\ \A i \in DOMAIN wire : \/ wire[i].op \in {"create", "adopt"}
                              \/ wire[i].op \in Ops /\ wire[i].id \in Videos
    /\ graph \in [Videos -> [status: Statuses, title: MaybeTitle]]
    /\ managed \in BOOLEAN /\ conn \in [BOOLEAN -> BOOLEAN] /\ loggedIn \in BOOLEAN
    /\ relay \in {"off", "late", "on", "ok"}

\* The dock opens: a persisted id or none, videos of other tools at Facebook.
Init ==
    /\ graph \in [Videos -> {[status |-> s, title |-> None] : s \in {"none", "live"}}]
    /\ \E v \in MaybeVideo :
         /\ v # None => graph[v].status # "none"
         /\ fb = [current |-> v, verifyId |-> None, expected |-> None, verdict |-> "blocked",
                  live |-> FALSE, quiet |-> FALSE, chain |-> None, statusId |-> None,
                  creating |-> FALSE, applying |-> FALSE, applyCreate |-> FALSE,
                  goAfter |-> FALSE, going |-> FALSE, tried |-> None, asked |-> None,
                  confirm |-> FALSE, served |-> FALSE, session |-> None,
                  settled |-> FALSE, endConfirm |-> FALSE]
    /\ watch = [emitter |-> FALSE, fails |-> 0, ballot |-> <<>>, gone |-> "no"]
    /\ dialogs = <<>> /\ wire = <<>>
    /\ managed \in BOOLEAN /\ conn = [m \in BOOLEAN |-> TRUE] /\ loggedIn = TRUE
    /\ relay = "on"
    /\ past = [wrote |-> [v \in Videos |-> None], checked |-> {}, borrowed |-> {}, went |-> {}]
    /\ presses = 0 /\ signals = 0

-----------------------------------------------------------------------------
(* What the handlers are made of.  A handler is a set of effects: the dock *)
(* it leaves, the requests it sends, the message box it opens.             *)

Effect(f, out, box) == [f |-> f, out |-> out, box |-> box]
Leave(f) == Effect(f, <<>>, <<>>)
Sends(f, op, id) == Effect(f, <<Req(op, id, None)>>, <<>>)
Box(f, kind) == Effect(f, <<>>, <<[kind |-> kind, id |-> f.current]>>)
AndThen(e, d) == Effect(d.f, e.out \o d.out, e.box \o d.box)

Usable == conn[managed]                  \* platformUsable
Logged == ~managed \/ loggedIn           \* requireManagedLogin

ClearVerify(f) ==                        \* clearFbVerify
    [f EXCEPT !.expected = None, !.verifyId = None, !.confirm = FALSE, !.verdict = "blocked"]

EndSession(f) ==                         \* clearFbGoLiveSession
    [f EXCEPT !.session = None, !.settled = FALSE, !.endConfirm = FALSE]

NoteSession(f, id) ==                    \* noteFbGoLiveSession
    IF id = None THEN f ELSE [f EXCEPT !.session = id, !.settled = FALSE]

\* setFbLiveId: another id forgets the attempts and the session of the last.
SetLiveId(f, id) ==
    LET moved == id # f.current
        g == [f EXCEPT !.served = FALSE, !.current = id,
                       !.going = @ /\ ~moved,
                       !.tried = IF moved THEN None ELSE @,
                       !.asked = IF moved THEN None ELSE @]
    IN IF f.session \in {None, id} THEN g ELSE EndSession(g)

\* meta::facebookVerifyPrepared; a private audience blocks like a mismatch.
Prepared(expected, a) ==
    IF a.status # "unpublished" \/ a.title # expected THEN "blocked"
    ELSE IF a.public THEN "verified" ELSE "audience"

\* runFbVerification: only the video of the last write is verified.
Verify(f, id, a) ==
    IF f.verifyId = None /\ f.expected = None THEN [f EXCEPT !.verdict = "blocked"]
    ELSE IF id = f.verifyId /\ f.expected # None
    THEN [f EXCEPT !.verdict = Prepared(f.expected, a)] ELSE f

NoteUpdatedKeeps(f, id, title) ==   \* mutant: the verdict survives a write
    [f EXCEPT !.expected = title, !.verifyId = id]

\* noteFbUpdated
NoteUpdated(f, id, title) ==
    [f EXCEPT !.expected = title, !.verifyId = id, !.verdict = "blocked"]

\* startManagedFbOp of a read, an end, a delete or a go_live
StartManaged(f, op, id) == IF loggedIn THEN Sends(f, op, id) ELSE Leave(f)

\* startFbStatusIndependent
StartStatusIndependent(f, id) == Sends([f EXCEPT !.statusId = id, !.live = FALSE], "status", id)

StartStatus(f, id) ==
    IF managed THEN StartManaged(f, "status", id) ELSE StartStatusIndependent(f, id)
QuietStatus(f, id) == StartStatus([f EXCEPT !.quiet = TRUE], id)

\* fbChainSilentVerify
Chain(f, id) ==
    IF Usable THEN QuietStatus([f EXCEPT !.chain = id], id)
    ELSE Leave([f EXCEPT !.chain = None, !.quiet = TRUE])

\* the chained read came, or failed
ChainEnds(f) == [f EXCEPT !.chain = None, !.quiet = FALSE]

\* startFbCreateIndependent, or startManagedFbOp of a create
StartCreate(f, title) ==
    Effect([ClearVerify(f) EXCEPT !.expected = title, !.creating = TRUE],
           <<Req("create", None, title)>>, <<>>)

\* fbCreateForIntent
CreateForIntent(f, title) ==
    IF title # None /\ Logged /\ Usable THEN StartCreate(f, title) ELSE Leave(f)

\* The combo filled anew, or without v: it shows another item, or none.
Shown(f, v) ==
    {[f EXCEPT !.current = w] :
        w \in {None} \union {x \in Videos \ {v} : graph[x].status \notin {"none", "deleted"}}}

\* History of a write that was accepted, of a read, and of a verification id
\* that does not come with its own expectation.
Written(p, id, title) ==
    [p EXCEPT !.wrote[id] = title, !.checked = @ \ {id}, !.borrowed = @ \ {id}]
ReadAs(p, id, a) ==
    [p EXCEPT !.checked = IF a.status = "unpublished" /\ a.title = p.wrote[id]
                          THEN @ \union {id} ELSE @ \ {id}]
Taken(p, id) ==
    [p EXCEPT !.borrowed = IF fb.verdict # "blocked" \/ fb.expected # p.wrote[id]
                           THEN @ \union {id} ELSE @]

GoLivesOf(out) == {out[i].id : i \in {j \in DOMAIN out : out[j].op = "go_live"}}

\* A handler runs: w is what is left in flight, p the history so far.
Handle(effects, w, p) ==
    \E e \in effects :
        /\ Len(dialogs) + Len(e.box) <= MaxDialogs
        /\ fb' = e.f /\ wire' = w \o e.out /\ dialogs' = dialogs \o e.box
        /\ past' = [p EXCEPT !.went = @ \union GoLivesOf(e.out)]

-----------------------------------------------------------------------------
(* Going live.                                                             *)

\* fbSendAutoGoLive: it looks again at everything but the verdict.
SendAuto(f, id) ==
    IF id # f.verifyId \/ f.live \/ f.going \/ ~Usable \/ ~Logged THEN Leave(f)
    ELSE Sends([f EXCEPT !.going = TRUE, !.tried = id], "go_live", id)

\* tryFbAutoGoLive up to its decision
MayAuto(f, emitter, state) ==
    /\ ~f.going /\ f.current # None /\ f.current = f.verifyId /\ ~f.live
    /\ f.tried # f.current
    /\ Usable /\ Logged /\ emitter /\ state = "ok" /\ f.verdict # "blocked"

\* tryFbAutoGoLive and meta::fbAutoGoDecision: the cooldown may hold it back;
\* it goes, or asks once if the audience is not known and the notice is shown.
TryAuto(f, emitter, state) ==
    {Leave(f)} \union
    IF ~MayAuto(f, emitter, state) THEN {}
    ELSE {SendAuto(f, f.current)} \union
         (IF f.verdict = "audience" /\ f.asked # f.current
          THEN {Box([f EXCEPT !.asked = f.current], "ask")} ELSE {})

\* onFbGoLive after its dialog: nothing is looked at again but the connection.
SendManual(f, id) ==
    IF ~Usable THEN Leave([f EXCEPT !.going = FALSE])
    ELSE IF managed THEN StartManaged([f EXCEPT !.going = TRUE], "go_live", id)
    ELSE Sends([f EXCEPT !.going = TRUE], "go_live", id)

\* onFbGoLive without a video: it creates one first.
GoLiveCreates(f, title) ==
    IF f.creating \/ f.applyCreate \/ f.goAfter THEN Leave([f EXCEPT !.goAfter = TRUE])
    ELSE IF title = None \/ ~Usable THEN Leave(f)
    ELSE CreateForIntent([f EXCEPT !.goAfter = TRUE], title)

\* onFbGoLive: the notice about the audience may be hidden.
GoLivePressed(f, title) ==
    IF ~Logged THEN {Leave(f)}
    ELSE IF f.current = None THEN {GoLiveCreates(f, title)}
    ELSE IF f.current # f.verifyId \/ f.verdict = "blocked" THEN {Leave(f)}
    ELSE {Box(f, "go")} \union
         (IF f.verdict = "audience" THEN {SendManual(f, f.current)} ELSE {})

-----------------------------------------------------------------------------
(* Facebook and the backend answer: what was asked happens, and the answer *)
(* may be lost; or it fails; or the session has ended (401, code 190).     *)

Exists(id) == graph[id].status \in {"unpublished", "live", "vod"}
LiveIds == {v \in Videos : graph[v].status = "live"}

Answers(i, a) ==
    /\ wire' = [wire EXCEPT ![i].ans = a]
    /\ UNCHANGED <<fb, watch, dialogs, managed, conn, loggedIn, relay, past, presses, signals>>

\* Only a direct create may answer with a status; the backend sends none.
ServeCreate(i, r) ==
    /\ r.op = "create" /\ r.title # None
    /\ \E v \in Videos, s \in {"none", "unpublished"} :
         /\ graph[v].status = "none" /\ (r.managed => s = "none")
         /\ graph' = [graph EXCEPT ![v] = [status |-> "unpublished", title |-> r.title]]
         /\ Answers(i, Answer(v, s, None, FALSE)) \/ Answers(i, Failed("fail"))

\* A direct read asks for no privacy (meta::facebookStatusFields).
ServeRead(i, r) ==
    /\ r.op \in Reads /\ Exists(r.id)
    /\ \E public \in BOOLEAN :
         /\ public => r.managed
         /\ Answers(i, Answer(r.id, graph[r.id].status, graph[r.id].title, public))
    /\ UNCHANGED graph

ServeAdopt(i, r) ==
    /\ r.op = "adopt" /\ UNCHANGED graph
    /\ \E v \in MaybeVideo :
         /\ IF v = None THEN Cardinality(LiveIds) # 1 ELSE LiveIds = {v}
         /\ Answers(i, Answer(v, "live", None, FALSE))

After(r) ==
    LET v == graph[r.id] IN
    CASE r.op = "go_live" /\ v.status = "unpublished" -> [v EXCEPT !.status = "live"]
      [] r.op = "end" /\ v.status = "live" -> [v EXCEPT !.status = "vod"]
      [] r.op = "delete" /\ Exists(r.id) -> [v EXCEPT !.status = "deleted"]
      [] r.op = "update" /\ Exists(r.id) -> [v EXCEPT !.title = r.title]
      [] OTHER -> v

ServeWrite(i, r) ==
    /\ r.op \in {"go_live", "end", "delete", "update"}
    /\ After(r) # graph[r.id] \/ (r.op = "update" /\ Exists(r.id))
    /\ graph' = [graph EXCEPT ![r.id] = After(r)]
    /\ \/ Answers(i, Answer(r.id, "none", None, FALSE))
       \/ Answers(i, Failed("fail"))

\* Only a backend reply, a go_live or an update looks whether it is a 401.
Refuse(i, r) ==
    /\ \E res \in {"fail", "auth"} :
         /\ res = "auth" => r.managed \/ r.op \in {"go_live", "update"}
         /\ Answers(i, Failed(res))
    /\ UNCHANGED graph

Serve(i) ==
    /\ wire[i].ans = Pending
    /\ \/ ServeCreate(i, wire[i]) \/ ServeRead(i, wire[i]) \/ ServeAdopt(i, wire[i])
       \/ ServeWrite(i, wire[i]) \/ Refuse(i, wire[i])

-----------------------------------------------------------------------------
(* The replies of the backend: the lambda of startManagedFbOp.             *)

\* The confirmation of the automatic end came: end it, or it has ended.
Confirmed(f, id, a) ==
    LET g == [f EXCEPT !.endConfirm = FALSE, !.quiet = FALSE] IN
    IF a.status # "live" THEN Leave(EndSession(g))
    ELSE IF managed THEN StartManaged(g, "end", id) ELSE Sends(g, "end", id)
Confirms(f, id) == f.endConfirm /\ f.session = id

StatusFailed(f) ==
    LET g == [f EXCEPT !.endConfirm = FALSE, !.goAfter = FALSE]
    IN IF g.chain # None THEN ChainEnds(g) ELSE g

StatusRead(a) ==
    LET f == Verify(SetLiveId(fb, a.id), a.id, a)
        seen == [f EXCEPT !.live = (a.status = "live")]
        g == [f EXCEPT !.goAfter = FALSE, !.quiet = FALSE]
    IN IF Confirms(f, a.id) THEN {Confirmed(f, a.id, a)}
       ELSE IF f.chain = a.id THEN TryAuto(ChainEnds(f), watch.emitter, relay)
       ELSE IF f.goAfter /\ f.verdict # "blocked" THEN GoLivePressed(g, None)
       ELSE IF f.goAfter THEN {Leave([seen EXCEPT !.goAfter = FALSE, !.quiet = FALSE])}
       ELSE {Leave(seen)}

CreateFailedKeeps(f) ==   \* mutant: only Apply's entry is closed
    IF ~f.applyCreate THEN f
    ELSE [f EXCEPT !.creating = FALSE, !.applyCreate = FALSE, !.goAfter = FALSE, !.applying = FALSE]

\* Apply's create completes its entry, in error too: finishPlatform.
CreateFailed(f) ==
    LET g == [f EXCEPT !.creating = FALSE]
    IN IF ~f.applyCreate THEN g
       ELSE [g EXCEPT !.applyCreate = FALSE, !.goAfter = FALSE, !.applying = FALSE]

\* The created video is the one to verify; Apply's entry is completed.
CreateDone(id) ==
    [SetLiveId(fb, id) EXCEPT
        !.verifyId = id, !.creating = FALSE,
        !.applyCreate = FALSE, !.applying = @ /\ ~fb.applyCreate]

\* fbApplyCreatePending_ starts the chain, and without a status in the answer
\* there is a read of its own.
CreatedManaged(id) ==
    LET f == CreateDone(id)
        chained == IF fb.applyCreate /\ Usable THEN Chain(f, id) ELSE Leave(f)
    IN AndThen(chained, Sends([chained.f EXCEPT !.quiet = TRUE], "after_create", id))

ReadAfterOfCurrent(op, a) ==   \* mutant: the session is of the video shown
    LET f == Verify([fb EXCEPT !.live = (a.status = "live"), !.quiet = FALSE], a.id, a)
    IN IF op = "after_go_live" /\ a.status = "live" THEN NoteSession(f, f.current) ELSE f

ReadAfter(op, a) ==
    LET f == Verify([fb EXCEPT !.live = (a.status = "live"), !.quiet = FALSE], a.id, a)
    IN IF op = "after_go_live" /\ a.status = "live" THEN NoteSession(f, a.id) ELSE f

ReadAfterFailed(op) ==
    IF op # "after_go_live" THEN [fb EXCEPT !.quiet = FALSE]
    ELSE [fb EXCEPT !.live = FALSE, !.quiet = FALSE, !.verdict = "blocked"]

Adopted(id) == [EndSession(SetLiveId(fb, id)) EXCEPT !.verifyId = id, !.live = TRUE]

DeletedShown(id) ==   \* mutant: the video shown is taken from the combo
    {ClearVerify(EndSession([f EXCEPT !.live = FALSE])) : f \in Shown(fb, fb.current)}

Deleted(id) ==
    {ClearVerify(EndSession([f EXCEPT !.live = FALSE])) :
        f \in IF id # None /\ fb.current = id THEN Shown(fb, id) ELSE {fb}}

\* startManagedFacebookApply's lambda, and Op::UpFb (always chained in Managed)
Updated(r) ==
    LET f == [NoteUpdated(fb, r.id, r.title) EXCEPT !.applying = FALSE]
    IN IF Usable \/ (managed /\ ~r.managed) THEN Chain(f, r.id) ELSE Leave(f)

ManagedFailed(r) ==
    LET f == [fb EXCEPT !.endConfirm = FALSE] IN
    CASE r.op = "status" -> StatusFailed(f)
      [] r.op = "create" -> CreateFailed(f)
      [] r.op = "go_live" -> [f EXCEPT !.going = FALSE]
      [] r.op = "update" -> [fb EXCEPT !.applying = FALSE]
      [] r.op \in Chained -> ReadAfterFailed(r.op)
      [] OTHER -> f

ManagedDone(r, a) ==
    CASE r.op = "status" -> StatusRead(a)
      [] r.op = "create" -> {CreatedManaged(a.id)}
      [] r.op = "go_live" ->
           {Sends([fb EXCEPT !.live = FALSE, !.quiet = TRUE, !.going = FALSE], "after_go_live", r.id)}
      [] r.op = "end" ->
           {Sends([EndSession(fb) EXCEPT !.live = FALSE, !.quiet = TRUE], "after_end", r.id)}
      [] r.op = "delete" -> {Leave(f) : f \in Deleted(r.id)}
      [] r.op = "adopt" ->
           {Leave(IF a.id = None THEN [fb EXCEPT !.live = FALSE, !.verdict = "blocked"]
                  ELSE Adopted(a.id))}
      [] r.op = "update" -> {Updated(r)}
      [] r.op \in Chained -> {Leave(ReadAfter(r.op, a))}

-----------------------------------------------------------------------------
(* The replies of Graph in Independent mode: onReply.                      *)

\* Op::FbStatus retries once, with the id of the last read that was sent.
StatusRetries == Sends([fb EXCEPT !.endConfirm = FALSE], "retry", fb.statusId)

RetryFailed ==
    LET f == [fb EXCEPT !.endConfirm = FALSE]
        g == [f EXCEPT !.live = FALSE, !.confirm = FALSE, !.goAfter = FALSE]
    IN IF f.chain # None THEN ChainEnds(f)
       ELSE IF f.current = None THEN ClearVerify(g) ELSE [g EXCEPT !.verdict = "blocked"]

\* reportFbGoLiveObserved
Observed(f, a) ==
    LET g == [f EXCEPT !.confirm = FALSE]
    IN IF a.status = "live" THEN NoteSession(g, g.current) ELSE g

StatusReadDirect(a) ==
    LET f == Verify([fb EXCEPT !.live = (a.status = "live")], a.id, a)
        g == [f EXCEPT !.goAfter = FALSE, !.quiet = FALSE]
    IN IF f.goAfter
       THEN IF f.verdict # "blocked" /\ a.id = f.current THEN GoLivePressed(g, None) ELSE {Leave(g)}
       ELSE IF f.chain = a.id THEN TryAuto(ChainEnds(f), watch.emitter, relay)
       ELSE IF Confirms(f, a.id) THEN {Confirmed(f, a.id, a)}
       ELSE LET o == IF f.confirm THEN Observed(f, a) ELSE f IN {Leave([o EXCEPT !.quiet = FALSE])}

\* The read chained to the create is Apply's silent one if Apply asked for it.
CreatedDirect(a) ==
    LET f == CreateDone(a.id)
        told == a.status # "none"
        g == IF told THEN [f EXCEPT !.live = FALSE] ELSE f
        chained == IF fb.applyCreate THEN Chain(g, a.id) ELSE Leave(g)
    IN IF IF told THEN g.goAfter ELSE ~fb.applyCreate
       THEN AndThen(chained, QuietStatus(chained.f, a.id)) ELSE chained

GoneLiveAnyway ==   \* mutant: no look whether a video is shown
    QuietStatus([fb EXCEPT !.going = FALSE, !.confirm = TRUE], fb.current)

\* Op::FbGoLive, FbEnd and FbDelete act on the video that is shown now.
GoneLiveDirect ==
    IF fb.current = None THEN Leave(fb)
    ELSE QuietStatus([fb EXCEPT !.going = FALSE, !.confirm = TRUE], fb.current)

EndedDirect ==
    IF fb.current = None THEN Leave([fb EXCEPT !.live = FALSE])
    ELSE QuietStatus(EndSession(fb), fb.current)

DirectFailed(r) ==
    CASE r.op = "status" -> StatusRetries
      [] r.op = "retry" -> Leave(RetryFailed)
      [] r.op = "create" -> Leave(CreateFailed(fb))
      [] r.op = "go_live" -> Leave([fb EXCEPT !.going = FALSE])
      [] r.op = "update" -> Leave([fb EXCEPT !.applying = FALSE])
      [] OTHER -> Leave(fb)

DirectDone(r, a) ==
    CASE r.op \in {"status", "retry"} -> StatusReadDirect(a)
      [] r.op = "create" -> {CreatedDirect(a)}
      [] r.op = "go_live" -> {GoneLiveDirect}
      [] r.op = "end" -> {EndedDirect}
      [] r.op = "delete" -> {Leave(f) : f \in Deleted(fb.current)}
      [] r.op = "adopt" -> {Leave(IF a.id = None THEN fb ELSE Adopted(a.id))}
      [] r.op = "update" -> {Updated(r)}

-----------------------------------------------------------------------------
(* A reply is delivered.                                                   *)

\* Handlers of replies that return at once in the other mode.
Dropped(r) == r.managed # managed /\ ~(r.op = "update" /\ ~r.managed)

Expired(r) == r.ans.res = "auth"
\* The conditions a reply leaves: a 401 of the backend ends the session there,
\* and a go_live or an update refused so drops the connection.
Ends(r) ==
    /\ loggedIn' = (loggedIn /\ ~(Expired(r) /\ r.managed))
    /\ conn' = IF Expired(r) /\ r.op \in {"go_live", "update"}
               THEN [conn EXCEPT ![r.managed] = FALSE] ELSE conn

History(r, a) ==
    CASE r.op = "create" ->
           LET p == Taken([past EXCEPT !.wrote[a.id] = r.title], a.id)
           IN [p EXCEPT !.checked = @ \ {a.id}]
      [] r.op = "update" -> Written(past, a.id, r.title)
      [] r.op = "adopt" -> IF a.id = None THEN past ELSE Taken(past, a.id)
      [] r.op \in Reads -> ReadAs(past, a.id, a)
      [] OTHER -> past

Reply(i) ==
    LET r == wire[i]
        rest == RemoveAt(wire, i)
    IN /\ r.ans # Pending
       /\ IF Dropped(r)
          THEN /\ wire' = rest /\ UNCHANGED <<fb, dialogs, past, conn>>
               /\ loggedIn' = (loggedIn /\ ~(Expired(r) /\ r.managed))
          ELSE /\ Ends(r)
               /\ IF r.ans.res = "ok"
                  THEN Handle(IF r.managed THEN ManagedDone(r, r.ans) ELSE DirectDone(r, r.ans),
                              rest, History(r, r.ans))
                  ELSE Handle({IF r.managed THEN Leave(ManagedFailed(r)) ELSE DirectFailed(r)},
                              rest, past)
       /\ UNCHANGED <<watch, graph, managed, relay, presses, signals>>

-----------------------------------------------------------------------------
(* The user.                                                               *)

Pressing == dialogs = <<>> /\ presses < MaxPresses

\* A press that does something and keeps the world as it is.
Pressed(effects) ==
    /\ Pressing /\ Len(wire) < MaxWire
    /\ Handle(effects, wire, past)
    /\ <<fb, wire, dialogs>> # <<fb', wire', dialogs'>>
    /\ presses' = presses + 1 /\ UNCHANGED <<watch, world, signals>>

PressStatus ==
    /\ Logged /\ Usable /\ fb.current # None
    /\ Pressed({StartStatus(fb, fb.current)})

\* The backend gets the title as it is, startFbCreateIndependent looks at it.
PressCreate(t) ==
    /\ ~fb.creating /\ Logged /\ Usable /\ (managed \/ t # None)
    /\ Pressed({StartCreate(fb, t)})

PressGoLive(t) == Pressed(GoLivePressed(fb, t))

PressEnd == Logged /\ fb.current # None /\ Pressed({Box(fb, "end")})
PressDelete == Logged /\ fb.current # None /\ Pressed({Box(fb, "delete")})

PressAdopt == Logged /\ Usable /\ Pressed({Sends(fb, "adopt", None)})

\* onApply and the Facebook part of startApplyNext
PressApply(t) ==
    /\ ~fb.applying /\ Logged /\ Usable /\ t # None
    /\ LET f == [fb EXCEPT !.applying = TRUE] IN
       IF fb.current = None THEN Pressed({CreateForIntent([f EXCEPT !.applyCreate = TRUE], t)})
       ELSE Pressed({Effect(f, <<Req("update", fb.current, t)>>, <<>>)})

\* Another item of the combo, a pasted id, or a list that came.
Choose ==
    /\ presses < MaxPresses
    /\ fb' \in Shown(fb, None) \ {fb} /\ presses' = presses + 1
    /\ UNCHANGED <<watch, dialogs, wire, world, past, signals>>

\* The answer to the innermost dialog.  Only the automatic one looks again.
Answered(b) ==
    CASE b.kind = "go" -> SendManual(fb, b.id)
      [] b.kind = "ask" -> SendAuto(fb, b.id)
      [] OTHER -> IF ~Usable THEN Leave(fb)
                  ELSE IF managed THEN StartManaged(fb, b.kind, b.id) ELSE Sends(fb, b.kind, b.id)

AnswerDialog ==
    /\ dialogs # <<>> /\ dialogs' = Front(dialogs)
    /\ \E e \in {Leave(fb), Answered(Last(dialogs))} :
         /\ fb' = e.f /\ wire' = wire \o e.out
         /\ past' = [past EXCEPT !.went = @ \union GoLivesOf(e.out)]
    /\ UNCHANGED <<watch, world, presses, signals>>

Forgotten(p) == [p EXCEPT !.checked = {}, !.borrowed = {}]
Stopped == relay' \in IF relay \in {"on", "ok"} THEN {"off", "late"} ELSE {relay}

\* wipeLocal, or onDisconnectManaged
Disconnect ==
    /\ Pressing /\ Usable /\ presses' = presses + 1
    /\ conn' = [conn EXCEPT ![managed] = FALSE]
    /\ fb' = [ClearVerify(fb) EXCEPT
                !.creating = FALSE, !.applyCreate = FALSE, !.goAfter = FALSE, !.served = FALSE,
                !.going = @ /\ managed,
                !.tried = IF managed THEN @ ELSE None,
                !.asked = IF managed THEN @ ELSE None]
    /\ Stopped /\ past' = Forgotten(past)
    /\ UNCHANGED <<watch, dialogs, wire, graph, managed, loggedIn, signals>>

\* onModeChanged, cancelPendingForModeSwitch
ModeSwitch ==
    /\ Pressing /\ presses' = presses + 1 /\ managed' = ~managed
    /\ fb' = [EndSession(ClearVerify(fb)) EXCEPT
                !.chain = None, !.quiet = FALSE, !.creating = FALSE, !.applyCreate = FALSE,
                !.goAfter = FALSE, !.served = FALSE, !.going = FALSE, !.tried = None, !.asked = None]
    /\ watch' = [watch EXCEPT !.fails = 0, !.ballot = <<>>, !.gone = "no"]
    /\ Stopped /\ past' = Forgotten(past)
    /\ UNCHANGED <<dialogs, wire, graph, conn, loggedIn, signals>>

\* The end of a connect or of a revalidation: fbValidateAtStartup.
Connect ==
    /\ Pressing /\ Logged /\ presses' = presses + 1
    /\ conn' = [conn EXCEPT ![managed] = TRUE]
    /\ Handle({IF fb.quiet \/ fb.current = None THEN Leave(fb) ELSE QuietStatus(fb, fb.current)},
              wire, past)
    /\ UNCHANGED <<watch, graph, managed, loggedIn, relay, signals>>

Login ==
    /\ Pressing /\ ~loggedIn /\ loggedIn' = TRUE /\ presses' = presses + 1
    /\ UNCHANGED <<fb, watch, dialogs, wire, graph, managed, conn, relay, past, signals>>

-----------------------------------------------------------------------------
(* The signal of the relay.                                                *)

\* onRelayStateChanged
RelayChange ==
    /\ signals < MaxSignals /\ signals' = signals + 1
    /\ relay' \in {"off", "late", "on", "ok"} \ {relay}
    /\ relay' = "late" => relay \in {"on", "ok"}
    /\ Handle(IF relay' = "ok" THEN TryAuto(fb, watch.emitter, relay') ELSE {Leave(fb)}, wire, past)
    /\ UNCHANGED <<watch, graph, managed, conn, loggedIn, presses>>

LastThree(s) == IF Len(s) > 3 THEN Tail(s) ELSE s

\* fbSignalNoteResult
Noted(there) ==
    IF there
    THEN [watch EXCEPT !.fails = 0, !.gone = "no", !.ballot = LastThree(Append(@, TRUE))]
    ELSE LET n == IF watch.fails = GoneFails THEN GoneFails ELSE watch.fails + 1 IN
         [watch EXCEPT !.fails = n, !.ballot = LastThree(Append(@, FALSE)),
                       !.gone = IF @ = "no" /\ n \in {1, GoneFails} THEN "short" ELSE @]

\* meta::fbSignalBallotUnstable, fbAutoEndGuardsOk
Unstable(ballot) == Len(ballot) = 3 /\ ballot # <<TRUE, TRUE, TRUE>> /\ ballot # <<FALSE, FALSE, FALSE>>
AutoEndGuardsOk(w, confirmed) == confirmed /\ w.gone = "long" /\ fb.settled

\* fbMaybeAutoEnd: the confirmation it is about to ask for is passed as absent.
MaybeAutoEnd(f, w) ==
    IF \/ f.session = None \/ f.current # f.session \/ Unstable(w.ballot)
       \/ ~AutoEndGuardsOk(w, FALSE) \/ ~Usable
    THEN Leave(f)
    ELSE StartStatus([f EXCEPT !.endConfirm = TRUE], f.session)

\* Op::RelaySignal with an emitter: without a video it is an intent to create.
SignalWithout(f, t) ==
    IF f.served \/ f.creating \/ f.applyCreate \/ f.goAfter THEN Leave(f)
    ELSE CreateForIntent([f EXCEPT !.served = TRUE], t)

\* A reading of paths/get/live that cannot be read keeps relaySignal_.
Reading(kind, t) ==
    /\ relay # "off" /\ signals < MaxSignals /\ Len(wire) < MaxWire
    /\ LET w == [Noted(kind = "emitter") EXCEPT
                   !.emitter = IF kind = "unreadable" THEN @ ELSE kind = "emitter"]
           f == IF kind = "emitter" THEN [fb EXCEPT !.endConfirm = FALSE] ELSE fb
       IN /\ watch' = w
          /\ Handle(IF kind # "emitter"
                    THEN {IF w.fails = GoneFails THEN MaybeAutoEnd(f, w) ELSE Leave(f)}
                    ELSE IF f.current = None THEN {SignalWithout(f, t)}
                    ELSE TryAuto(f, TRUE, relay),
                    wire, past)
    /\ relay' = IF relay = "late" THEN "off" ELSE relay
    /\ signals' = signals + 1
    /\ UNCHANGED <<graph, managed, conn, loggedIn, presses>>

\* 30 s without the emitter, or 5 min after the go live.
Tick ==
    /\ \/ watch.gone = "short" /\ UNCHANGED fb
       \/ fb.session # None /\ ~fb.settled /\ fb' = [fb EXCEPT !.settled = TRUE]
    /\ watch' = [watch EXCEPT !.gone = IF @ = "short" THEN "long" ELSE @]
    /\ UNCHANGED <<dialogs, wire, world, past, presses, signals>>

-----------------------------------------------------------------------------
Press ==
    \/ PressStatus \/ PressEnd \/ PressDelete \/ PressAdopt \/ Choose
    \/ \E t \in MaybeTitle : PressCreate(t) \/ PressGoLive(t) \/ PressApply(t)
    \/ Disconnect \/ ModeSwitch \/ Connect \/ Login

Signal ==
    \/ \E k \in {"emitter", "none", "unreadable"}, t \in MaybeTitle : Reading(k, t)
    \/ RelayChange \/ Tick

Next ==
    \/ \E i \in DOMAIN wire : Serve(i) \/ Reply(i)
    \/ Press \/ AnswerDialog \/ Signal

Spec == Init /\ [][Next]_vars

-----------------------------------------------------------------------------
(* Properties.                                                             *)

Count(op, id, w) == Cardinality({i \in DOMAIN w : w[i].op = op /\ w[i].id = id})
SentNow(op, id) == Count(op, id, wire') > Count(op, id, wire)

\* The dock decides to put id on the air: it asks the user, or sends at once.
Decides(id) ==
    \/ /\ Len(dialogs') > Len(dialogs)
       /\ Last(dialogs').kind \in {"go", "ask"} /\ Last(dialogs').id = id
    \/ SentNow("go_live", id) /\ dialogs' = dialogs

Delivered(i) ==
    /\ presses' = presses /\ signals' = signals
    /\ wire[i].ans # Pending /\ IsPrefix(RemoveAt(wire, i), wire')

\* A go live is decided only for a video whose last reading, after the last
\* write to it that was accepted, showed it unpublished and as it was written
\* (or that took over the expectation of another one, see GoLiveVerified):
\* whatever the order of the replies, the verdict is never older than the
\* write (noteFbUpdated, runFbVerification, onFbGoLive, tryFbAutoGoLive).
GoLiveChecked ==
    [][\A v \in Videos : Decides(v) => v \in past'.checked \union past'.borrowed]_vars

\* onFbGoLive: "mismo ID que el verificado, estado leido UNPUBLISHED y
\* titulo/descripcion coincidentes".  When a go live is sent that must be so.
\* The code does not keep this: an adopted video takes over the verdict and
\* the expectation of the one before it (README, section 6).
GoLiveVerified ==
    [][\A v \in Videos : SentNow("go_live", v) => v \in past'.checked]_vars

\* fbIntentCreateInFlight_ holds the create button and the creates of the
\* signal back only while a create of this mode is in flight.
CreateFlagBacked == fb.creating => InFlight({"create"})

\* "Creando el video, espera un momento": somebody is working on it.  The code
\* does not keep this: a create that fails leaves the flag (README, section 6).
PendingBacked == fb.goAfter => InFlight({"create"} \union Reads)

\* In Managed mode the session that the watch may end is of a video that the
\* dock put on the air: the replies are told apart by the id of the request
\* however the selection changed since.
OwnSession == managed => fb.session \in past.went \union {None}

\* In Managed mode a reply changes the video that is shown only if it is of a
\* read the user asked for, a create or an adopt, or if that very video was
\* deleted: with another one selected since the request, it stays.
SelectionKept ==
    [][\A i \in DOMAIN wire :
         /\ Delivered(i) /\ wire[i].managed /\ managed
         /\ wire[i].op \notin {"status", "create", "adopt"} /\ fb'.current # fb.current
         => wire[i].op = "delete" /\ wire[i].id = fb.current]_vars

\* The encoder of a video this dock put on the air is gone for good: the dock
\* asks Facebook whether it is still live, to end it.
AutoEndAsked ==
    [][(/\ signals' > signals /\ watch'.fails = GoneFails
        /\ watch.gone = "long" /\ fb.settled /\ fb.session = fb.current
        /\ watch'.ballot = <<FALSE, FALSE, FALSE>> /\ Usable /\ Logged)
       => fb'.endConfirm]_vars
=============================================================================
