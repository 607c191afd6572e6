---------------------------- MODULE ApplyPipeline ----------------------------
(***************************************************************************)
(* "Apply changes" of the dock (metadata_dock.cpp): the queue of platforms *)
(* updated one after the other, the token refresh or session retry and the *)
(* bounded backoff of each, the lists and the Facebook create an update    *)
(* may need first, and what the user can do meanwhile: switch mode, log    *)
(* out, connect, disconnect, refresh a list, create or remove a video.     *)
(*                                                                         *)
(* Handlers run in one Qt event loop: an action is one handler, and what   *)
(* interleaves is the replies, the timer and the user.  A reply is told    *)
(* apart by its Op and mode only, as onReply and the lambdas do.           *)
(* fbAutoActive_, fbAutoArmed_ and fbEndAutoPending_ are never set by code *)
(* that runs, so their branches of the create reply are left out.          *)
(***************************************************************************)
EXTENDS Integers, Sequences, FiniteSets, FiniteSetsExt, SequencesExt

CONSTANTS
    Platforms,    \* of this instance
    Refreshable,  \* platforms whose direct account has a refresh token
    MaxRetries,   \* meta::kBackoffMaxRetries
    MaxSteps,     \* bound: what the user does, presses of Apply excepted
    MaxCopies     \* bound: equal requests in flight when the user sends one

Order == <<"Twitch", "YouTube", "Kick", "Facebook">>   \* of onApply

ASSUME ApplyAssumption ==
    /\ Platforms \subseteq {"Twitch", "YouTube", "Kick", "Facebook"}
    /\ Refreshable \subseteq Platforms \ {"Facebook"}
    /\ MaxRetries \in Nat /\ MaxSteps \in Nat /\ MaxCopies \in Nat \ {0}

VARIABLES
    apply,       \* what the Apply handlers keep, see Applies
    timers,      \* single shots of scheduleBackoff
    net,         \* requests without a reply: how many of each
    managed,     \* isManaged()
    loggedIn,    \* hasUserSession()
    conn,        \* connected platforms of each mode: conn[isManaged()]
    broadcasts,  \* the combo of broadcasts holds an item
    video,       \* the combo of Facebook holds an id
    \* history, of the Apply in course or the last one
    asked,       \* platforms put in the queue
    log,         \* times told a result, and sends since last taken fresh
    cuts,        \* what the user did to the step Apply was waiting for
    steps

dock == <<managed, loggedIn, conn, broadcasts, video>>
vars == <<apply, timers, net, dock, asked, log, cuts, steps>>

Kinds == {"update", "retry", "refresh", "session", "list", "create"}
Lists == {"YouTube", "Facebook"} \intersect Platforms
Requests ==
    {r \in [kind: Kinds, p: Platforms, managed: BOOLEAN] :
        /\ r.kind \in {"retry", "refresh"} => ~r.managed /\ r.p \in Refreshable
        /\ r.kind = "session" => r.managed
        /\ r.kind = "list" => r.p \in Lists
        /\ r.kind = "create" => r.p = "Facebook"}
Req(k, p, m) == [kind |-> k, p |-> p, managed |-> m]

Applies == [on: BOOLEAN,             \* the button is disabled
            queue: Seq(Platforms),   \* applyQueue_
            retried: BOOLEAN,        \* retried_
            resume: BOOLEAN,         \* backoffResume_
            tries: 0..MaxRetries,    \* backoffCount_
            afterList: BOOLEAN,      \* applyAfterList_
            creating: BOOLEAN,       \* fbApplyCreatePending_
            inFlight: BOOLEAN,       \* fbIntentCreateInFlight_
            lists: SUBSET Lists]     \* refreshButton_, fbRefreshButton_ enabled

Idle == [on |-> FALSE, queue |-> <<>>, retried |-> FALSE, resume |-> FALSE,
         tries |-> 0, afterList |-> FALSE, creating |-> FALSE, inFlight |-> FALSE,
         lists |-> Lists]

TypeOK ==
    /\ apply \in Applies /\ IsInjective(apply.queue)
    /\ timers \in Nat /\ net \in [Requests -> Nat]
    /\ managed \in BOOLEAN /\ loggedIn \in BOOLEAN
    /\ conn \in [BOOLEAN -> SUBSET Platforms]
    /\ broadcasts \in BOOLEAN /\ video \in BOOLEAN
    /\ asked \subseteq Platforms
    /\ log \in [Platforms -> [told: Nat, sends: Nat]]
    /\ cuts \subseteq {"switch", "disconnect", "refresh", "logout"}
    /\ steps \in 0..MaxSteps

\* Whatever loadStore restored.
Init ==
    /\ apply = Idle /\ timers = 0 /\ net = [r \in Requests |-> 0]
    /\ managed \in BOOLEAN /\ loggedIn \in BOOLEAN
    /\ conn \in [BOOLEAN -> SUBSET Platforms]
    /\ broadcasts = FALSE /\ video \in BOOLEAN
    /\ asked = {} /\ log = [p \in Platforms |-> [told |-> 0, sends |-> 0]]
    /\ cuts = {} /\ steps = 0

-----------------------------------------------------------------------------
(* The queue.                                                              *)

Sent(r, req) == [r EXCEPT ![req] = @ + 1]
Got(req) == [net EXCEPT ![req] = @ - 1]
Told(l, p) == [l EXCEPT ![p].told = @ + 1]
Pushed(a, p) == [a EXCEPT !.queue = <<p>> \o @]

\* finishApply
Done(a, l, r) ==
    /\ apply' = [a EXCEPT !.on = FALSE]
    /\ log' = l /\ net' = r

\* What startApplyNext (and startManaged*Apply) sends for p: the update, or
\* first the list of broadcasts, or the create of a video if there is a title.
Serve(p, a, l, r) ==
    \/ /\ p = "YouTube" /\ ~broadcasts'
       /\ apply' = [Pushed(a, p) EXCEPT !.afterList = TRUE,
                                        !.lists = IF managed' THEN @ \ {p} ELSE @]
       /\ net' = Sent(r, Req("list", p, managed'))
       /\ log' = [l EXCEPT ![p].sends = 0]
    \/ /\ p = "Facebook" /\ ~video'
       /\ \/ Done(a, Told(l, p), r)               \* no title; it is the last
          \/ /\ apply' = [Pushed(a, p) EXCEPT !.creating = TRUE, !.inFlight = TRUE]
             /\ net' = Sent(r, Req("create", p, managed'))
             /\ log' = l
    \/ /\ p = "YouTube" => broadcasts'
       /\ p = "Facebook" => video'
       /\ apply' = a /\ net' = Sent(r, Req("update", p, managed'))
       /\ log' = [l EXCEPT ![p].sends = @ + 1]

Authorized(p) == IF managed' THEN loggedIn' /\ p \in conn'[TRUE] ELSE p \in conn'[FALSE]

\* startApplyNext, from the state a, log l and requests r its caller leaves:
\* the platforms that are no longer usable are told so and passed over.
StartNext(a, l, r) ==
    LET q == a.queue
        able == {i \in 1..Len(q) : Authorized(q[i])}
        n == IF able = {} THEN Len(q) + 1 ELSE Min(able)
        kept == q = <<>> \/ (a.resume /\ n = 1)
        fresh == [a EXCEPT !.queue = SubSeq(q, n + 1, Len(q)), !.resume = FALSE,
                           !.retried = kept /\ @, !.tries = IF kept THEN @ ELSE 0]
        skipped == {q[i] : i \in 1..n - 1}
        told == [p \in Platforms |->
                   [l[p] EXCEPT !.told = IF p \in skipped THEN @ + 1 ELSE @]]
    IN  IF able = {} THEN Done(fresh, told, r) ELSE Serve(q[n], fresh, told, r)

NextAfter(p, r) == StartNext(apply, Told(log, p), r)   \* finishPlatform, then the next

Same(m, c) == loggedIn' = m /\ conn' = c /\ UNCHANGED <<managed, broadcasts, video>>

\* Mutants of Backoff: one more retry; the budget is not kept by the resend;
\* the caller does not return.
BackoffOneMore(p, r) ==
    /\ apply.tries <= MaxRetries
    /\ apply' = [Pushed(apply, p) EXCEPT !.tries = @ + 1, !.resume = TRUE]
    /\ timers' = timers + 1 /\ net' = r
    /\ UNCHANGED <<dock, asked, log, cuts, steps>>
BackoffForgetsResume(p, r) ==
    /\ apply.tries < MaxRetries
    /\ apply' = [Pushed(apply, p) EXCEPT !.tries = @ + 1]
    /\ timers' = timers + 1 /\ net' = r
    /\ UNCHANGED <<dock, asked, log, cuts, steps>>
BackoffGoesOn(p, r) ==
    /\ apply.tries < MaxRetries /\ Same(loggedIn, conn)
    /\ StartNext([Pushed(apply, p) EXCEPT !.tries = @ + 1, !.resume = TRUE], Told(log, p), r)
    /\ timers' = timers + 1 /\ UNCHANGED <<asked, cuts, steps>>

\* scheduleBackoff, for a rate limit or a server error.
Backoff(p, r) ==
    /\ apply.tries < MaxRetries
    /\ apply' = [Pushed(apply, p) EXCEPT !.tries = @ + 1, !.resume = TRUE]
    /\ timers' = timers + 1 /\ net' = r
    /\ UNCHANGED <<dock, asked, log, cuts, steps>>

-----------------------------------------------------------------------------
(* Replies and the timer.                                                  *)

\* UpTw, UpYt, UpKk, UpFb and their retries, in whatever mode they arrive.
DirectReply(req) ==
    LET p == req.p
        again == req.kind = "update" /\ ~apply.retried /\ p \in Refreshable
    IN  /\ req.kind \in {"update", "retry"} /\ ~req.managed
        /\ \/ again /\ apply' = [apply EXCEPT !.retried = TRUE]      \* 401
              /\ net' = Sent(Got(req), Req("refresh", p, FALSE))
              /\ UNCHANGED <<timers, dock, asked, log, cuts, steps>>
           \/ Backoff(p, Got(req))
           \/ /\ ~again /\ Same(loggedIn, [conn EXCEPT ![FALSE] = @ \ {p}])   \* 401
              /\ NextAfter(p, Got(req)) /\ UNCHANGED <<timers, asked, cuts, steps>>
           \/ /\ Same(loggedIn, conn)                  \* ok, refused, no answer
              /\ NextAfter(p, Got(req)) /\ UNCHANGED <<timers, asked, cuts, steps>>

\* TwRefresh, YtRefresh, KkRefresh
RefreshReply(req) ==
    /\ req.kind = "refresh"
    /\ \/ /\ net' = Sent(Got(req), Req("retry", req.p, FALSE))
          /\ log' = [log EXCEPT ![req.p].sends = @ + 1]
          /\ UNCHANGED <<apply, timers, dock, asked, cuts, steps>>
       \/ /\ Same(loggedIn, [conn EXCEPT ![FALSE] = @ \ {req.p}])
          /\ NextAfter(req.p, Got(req)) /\ UNCHANGED <<timers, asked, cuts, steps>>

Cut(cause, waiting) == cuts' = IF apply.on /\ waiting THEN cuts \union {cause} ELSE cuts

\* A reply no one acts on, so that what waits for it is cut.
Dropped(req, cause, waiting) ==
    /\ net' = Got(req) /\ Cut(cause, waiting)
    /\ UNCHANGED <<timers, managed, conn, broadcasts, video, asked, log, steps>>

\* A 401 of the backend ends the user session, even in the other mode.
MaybeLoggedOut(req) == loggedIn' \in {loggedIn} \union (IF req.managed THEN {FALSE} ELSE {})

\* The lambdas of startManaged*Apply.
ManagedReply(req) ==
    LET p == req.p
    IN  /\ req.kind = "update" /\ req.managed
        /\ \/ /\ ~managed /\ Dropped(req, "switch", TRUE)
              /\ MaybeLoggedOut(req) /\ UNCHANGED apply
           \/ managed /\ Backoff(p, Got(req))
           \/ /\ managed /\ ~apply.retried             \* no answer
              /\ apply' = [apply EXCEPT !.retried = TRUE]
              /\ net' = Sent(Got(req), Req("session", p, TRUE))
              /\ UNCHANGED <<timers, dock, asked, log, cuts, steps>>
           \/ /\ managed
              /\ \/ Same(loggedIn, conn)
                 \/ Same(FALSE, [conn EXCEPT ![TRUE] = @ \ {p}])   \* 401
              /\ NextAfter(p, Got(req)) /\ UNCHANGED <<timers, asked, cuts, steps>>

\* autoRetryManagedSession: the update is sent again without going through
\* the queue.  Without a login startManaged*Apply returns and says no more.
SessionReply(req) ==
    LET p == req.p
    IN  /\ req.kind = "session"
        /\ \/ ~managed /\ Dropped(req, "switch", TRUE) /\ UNCHANGED <<apply, loggedIn>>
           \/ /\ managed /\ Same(loggedIn, [conn EXCEPT ![TRUE] = @ \ {p}])
              /\ NextAfter(p, Got(req)) /\ UNCHANGED <<timers, asked, cuts, steps>>
           \/ managed /\ ~loggedIn /\ Dropped(req, "logout", TRUE) /\ UNCHANGED <<apply, loggedIn>>
           \/ /\ managed /\ loggedIn /\ Same(loggedIn, conn)
              /\ IF p \in conn[TRUE] THEN Serve(p, apply, log, Got(req)) ELSE NextAfter(p, Got(req))
              /\ UNCHANGED <<timers, asked, cuts, steps>>

\* Mutant of ListFailed: the flag stays up.
ListFailedKeeps(a, r) ==
    IF apply.afterList
    THEN StartNext([a EXCEPT !.queue = Tail(@)], Told(log, Head(apply.queue)), r)
    ELSE apply' = a /\ log' = log /\ net' = r

\* applyAfterList_ of YouTube is looked at by the lists of Facebook too.
ListFailed(a, r) ==
    IF apply.afterList
    THEN StartNext([a EXCEPT !.queue = Tail(@), !.afterList = FALSE],
                   Told(log, Head(apply.queue)), r)
    ELSE apply' = a /\ log' = log /\ net' = r

\* Mutant of ListLoaded: an empty list is told and the queue left there.
ListLoadedStops(found, a, r) ==
    LET b == [a EXCEPT !.afterList = FALSE]
    IN  IF ~apply.afterList THEN apply' = a /\ log' = log /\ net' = r
        ELSE IF found \/ b.queue = <<>> THEN StartNext(b, log, r)
        ELSE apply' = [b EXCEPT !.queue = Tail(@)] /\ log' = Told(log, Head(b.queue)) /\ net' = r

ListLoaded(found, a, r) ==
    LET b == [a EXCEPT !.afterList = FALSE]
    IN  IF ~apply.afterList THEN apply' = a /\ log' = log /\ net' = r
        ELSE IF found \/ b.queue = <<>> THEN StartNext(b, log, r)
        ELSE StartNext([b EXCEPT !.queue = Tail(@)], Told(log, Head(b.queue)), r)

\* YtList, FbList (the FbTargets request before it is part of it) and the
\* lambdas of fetchManaged*.  The button of the list is enabled first.
ListReply(req) ==
    LET p == req.p
        a == [apply EXCEPT !.lists = @ \union {p}]
        here == req.managed => managed
    IN  /\ req.kind = "list"
        /\ \/ /\ ~here /\ Dropped(req, "switch", apply.afterList)
              /\ MaybeLoggedOut(req) /\ apply' = a
           \/ /\ here
              /\ \/ Same(loggedIn, conn)
                 \/ req.managed /\ Same(FALSE, [conn EXCEPT ![TRUE] = @ \ {p}])   \* 401
              /\ ListFailed(a, Got(req)) /\ UNCHANGED <<timers, asked, cuts, steps>>
           \/ /\ here /\ UNCHANGED <<managed, loggedIn, conn>>
              /\ \E found \in BOOLEAN :
                   /\ broadcasts' = IF p = "YouTube" THEN found ELSE broadcasts
                   /\ video' = IF p = "Facebook" THEN found ELSE video
                   /\ ListLoaded(found, a, Got(req))
              /\ UNCHANGED <<timers, asked, cuts, steps>>

\* Mutant of Completed: the entry stays in the queue.
CompletedKeeps == [apply EXCEPT !.inFlight = FALSE, !.creating = FALSE]

Completed == [apply EXCEPT !.inFlight = FALSE, !.creating = FALSE,
                           !.queue = IF @ # <<>> /\ Head(@) = "Facebook" THEN Tail(@) ELSE @]

\* FbCreate and the lambda of startManagedFbOp: whichever create is answered
\* completes the entry of an Apply that waits for one.
CreateReply(req) ==
    /\ req.kind = "create" /\ MaybeLoggedOut(req)
    /\ \/ req.managed # managed /\ Dropped(req, "switch", FALSE) /\ UNCHANGED apply
       \/ /\ req.managed = managed
          /\ video' \in {video, TRUE}
          /\ UNCHANGED <<managed, conn, broadcasts, timers, asked, cuts, steps>>
          /\ IF apply.creating THEN StartNext(Completed, Told(log, "Facebook"), Got(req))
             ELSE /\ apply' = [apply EXCEPT !.inFlight = FALSE]
                  /\ net' = Got(req) /\ UNCHANGED log

\* onBackoffTimeout
BackoffTimeout ==
    /\ timers > 0 /\ timers' = timers - 1
    /\ Same(loggedIn, conn)
    /\ StartNext(apply, log, net)
    /\ UNCHANGED <<asked, cuts, steps>>

-----------------------------------------------------------------------------
(* The user.                                                               *)

\* q holds the platforms of S as onApply puts them in the queue.
InOrder(q, S) ==
    /\ Range(q) = S
    /\ \A i, j \in DOMAIN q : i < j =>
         \E a, b \in DOMAIN Order : a < b /\ Order[a] = q[i] /\ Order[b] = q[j]

\* onApply, with a valid title and the platforms of S ticked.
Apply(S) ==
    /\ ~apply.on /\ (managed => loggedIn)
    /\ asked' = S \intersect conn[managed] /\ asked' # {}
    /\ cuts' = {}
    /\ UNCHANGED <<timers, managed, loggedIn, conn, broadcasts, video, steps>>
    /\ \E q \in [1..Cardinality(asked') -> asked'] :
         /\ InOrder(q, asked')
         /\ StartNext([apply EXCEPT !.on = TRUE, !.queue = q],
                      [p \in Platforms |-> [told |-> 0, sends |-> 0]], net)

Step == steps < MaxSteps /\ steps' = steps + 1

\* cancelPendingForModeSwitch: the queue and the button are left as they are.
ModeSwitch ==
    /\ Step /\ managed' = ~managed
    /\ apply' = [apply EXCEPT !.creating = FALSE, !.inFlight = FALSE]
    /\ Cut("switch", apply.creating)
    /\ UNCHANGED <<timers, net, loggedIn, conn, broadcasts, video, asked, log>>

\* wipeLocal and onDisconnectManaged
Disconnect(p) ==
    /\ Step /\ p \in conn[managed] /\ conn' = [conn EXCEPT ![managed] = @ \ {p}]
    /\ broadcasts' = (broadcasts /\ ~(p = "YouTube" /\ ~managed))
    /\ apply' = IF p = "Facebook" THEN [apply EXCEPT !.creating = FALSE, !.inFlight = FALSE]
                ELSE apply
    /\ Cut("disconnect", p = "Facebook" /\ apply.creating)
    /\ UNCHANGED <<timers, net, managed, loggedIn, video, asked, log>>

\* A connect flow ends; the direct one of Facebook goes on with its list.
Connect(p) ==
    /\ Step /\ p \notin conn[managed] /\ (managed => loggedIn)
    /\ conn' = [conn EXCEPT ![managed] = @ \union {p}]
    /\ IF p = "Facebook" /\ ~managed
       THEN /\ video' = FALSE /\ apply' = [apply EXCEPT !.lists = @ \ {p}]
            /\ net[Req("list", p, FALSE)] < MaxCopies
            /\ net' = Sent(net, Req("list", p, FALSE))
       ELSE UNCHANGED <<video, apply, net>>
    /\ UNCHANGED <<timers, managed, loggedIn, broadcasts, asked, log, cuts>>

\* onRefreshBroadcasts, onRefreshFacebook
Refresh(p) ==
    /\ Step /\ p \in apply.lists \intersect conn[managed] /\ (managed => loggedIn)
    /\ net[Req("list", p, managed)] < MaxCopies
    /\ apply' = [apply EXCEPT !.afterList = FALSE, !.lists = @ \ {p}]
    /\ net' = Sent(net, Req("list", p, managed))
    /\ video' = (video /\ ~(p = "Facebook" /\ ~managed))
    /\ Cut("refresh", apply.afterList)
    /\ UNCHANGED <<timers, managed, loggedIn, conn, broadcasts, asked, log>>

\* onFbCreate, onFbGoLive without a video, and the emitter's signal
Create ==
    /\ Step /\ ~apply.inFlight /\ "Facebook" \in conn[managed] /\ (managed => loggedIn)
    /\ net[Req("create", "Facebook", managed)] < MaxCopies
    /\ net' = Sent(net, Req("create", "Facebook", managed))
    /\ apply' = [apply EXCEPT !.inFlight = TRUE]
    /\ UNCHANGED <<timers, dock, asked, log, cuts>>

\* The id of the combo is typed, cleared, or deleted.
ChooseVideo ==
    /\ Step /\ video' = ~video
    /\ UNCHANGED <<apply, timers, net, managed, loggedIn, conn, broadcasts, asked, log, cuts>>

\* The reply of onUserLogout, a 401 to any other request of the user session
\* (then the connections stay), and a login.
Logout ==
    /\ Step /\ loggedIn /\ loggedIn' = FALSE
    /\ \/ managed /\ conn' = [conn EXCEPT ![TRUE] = {}] /\ broadcasts' = FALSE
       \/ UNCHANGED <<conn, broadcasts>>
    /\ UNCHANGED <<apply, timers, net, managed, video, asked, log, cuts>>

Login ==
    /\ Step /\ managed /\ ~loggedIn /\ loggedIn' = TRUE
    /\ UNCHANGED <<apply, timers, net, managed, conn, broadcasts, video, asked, log, cuts>>

-----------------------------------------------------------------------------
Reply(req) ==
    /\ net[req] > 0
    /\ \/ DirectReply(req) \/ RefreshReply(req) \/ ManagedReply(req)
       \/ SessionReply(req) \/ ListReply(req) \/ CreateReply(req)

Replies == BackoffTimeout \/ \E req \in Requests : Reply(req)

User ==
    \/ \E S \in SUBSET Platforms : Apply(S)
    \/ \E p \in Platforms : Disconnect(p) \/ Connect(p)
    \/ \E p \in Lists : Refresh(p)
    \/ "Facebook" \in Platforms /\ (Create \/ ChooseVideo)
    \/ ModeSwitch \/ Logout \/ Login

Next == Replies \/ User

Spec == Init /\ [][Next]_vars

\* Every request ends, by its timeout at the latest, and timers fire.
FairSpec == Spec /\ WF_vars(Replies)

-----------------------------------------------------------------------------
(* Properties.                                                             *)

\* At most one step of an Apply is under way: an update, its retry, a token
\* refresh, a session retry, the backoff, the list or the create it waits for.
\* No stray list or create reply starts a second chain over the same queue.
OneStepAtATime ==
    LET moving == {r \in Requests : r.kind \notin {"list", "create"} /\ net[r] > 0}
        total == timers + (IF apply.afterList THEN 1 ELSE 0) + (IF apply.creating THEN 1 ELSE 0)
    IN  /\ Cardinality(moving) + total <= 1
        /\ \A r \in moving : net[r] = 1

\* applyQueue_.takeFirst() of a failed list is never called on an empty queue.
ListHasEntry == apply.afterList => apply.queue # <<>>

\* A platform still in the queue has been told nothing, none is told twice,
\* and when the button comes back every platform asked for has its answer.
AnsweredOnce ==
    /\ \A p \in Platforms : log[p].told <= IF p \in asked THEN 1 ELSE 0
    /\ \A i \in DOMAIN apply.queue : log[apply.queue[i]].told = 0
    /\ ~apply.on => \A p \in asked : log[p].told = 1

\* Seen by its user an Apply is one batch: each platform asked for is told once,
\* none before it was asked for, and the button comes back with the last of
\* them, whatever retries, lists, creates, cuts and strays come between.
Batch == INSTANCE ApplyBatch WITH
            open <- apply.on, told <- [p \in Platforms |-> log[p].told]
Answers == Batch!Spec

\* One refresh or session retry and two backoffs: a platform is sent at most
\* four times before it is given up, whatever the order of the refusals.
BoundedTries == \A p \in Platforms : log[p].sends <= MaxRetries + 2

\* An Apply in course waits for something that is under way, unless the user
\* cut the step it waits for.
NotStranded ==
    apply.on /\ cuts = {} =>
        \/ timers > 0
        \/ \E r \in Requests : r.kind \notin {"list", "create"} /\ net[r] > 0
        \/ apply.afterList /\ \E r \in Requests : r.kind = "list" /\ net[r] > 0
        \/ apply.creating /\ \E r \in Requests : r.kind = "create" /\ net[r] > 0

\* Every Apply the user lets run ends and enables its button again.
ApplyEnds == apply.on ~> (~apply.on \/ cuts # {})

\* metadata_dock.cpp:1203, of the mode switch: "Apply/refresh traffic keeps
\* its own bounded lifecycle": the switch alone does not leave it hanging.
SwitchLetsApplyEnd == apply.on ~> (~apply.on \/ cuts \ {"switch"} # {})

=============================================================================
