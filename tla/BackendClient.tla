--------------------------- MODULE BackendClient ---------------------------
(***************************************************************************)
(* The plugin's client of the backend (backend_auth.cpp), the file it      *)
(* keeps its secrets in (secure_store.cpp), and the handlers of the dock   *)
(* that use both in Managed mode: the revalidation at the start, login,    *)
(* connect with its polling, disconnect and the two erases.                *)
(*                                                                         *)
(* One Qt event loop: an action is one handler, or the delivery of one     *)
(* reply with every callback it runs.  What interleaves is the replies, of *)
(* several requests that share one session, and restarts of OBS, which     *)
(* forget the memory and keep the file.                                    *)
(*                                                                         *)
(* Installations, sessions and logins are numbers in the order they were   *)
(* issued, 0 is none.  The rest of Managed mode (lists, Apply, Facebook)   *)
(* is the job "apply": see ApplyPipeline and FacebookLive for its replies. *)
(***************************************************************************)
EXTENDS Integers, Sequences, FiniteSets, SequencesExt

CONSTANTS
    Platforms,
    Urls,        \* what STREAM_META_BACKEND_URL may be at a start
    None,
    Polls,       \* managedPollsLeft_ at the start of a browser flow
    MaxIssued,   \* bound: secrets issued
    MaxWire,     \* bound: requests in flight when the user or a timer adds one
    MaxPresses,  \* bound: what the user does, restarts included
    MaxFaults    \* bound: sessions the backend drops, changes of the disk

ASSUME ClientAssumption ==
    /\ None \notin Urls \union Platforms /\ Urls # {}
    /\ Polls \in Nat /\ MaxIssued \in Nat \ {0, 1} /\ MaxWire \in Nat \ {0}
    /\ MaxPresses \in Nat /\ MaxFaults \in Nat /\ IsFiniteSet(Platforms)

VARIABLES
    url,       \* managedBaseUrl_ of this start of OBS, or of the next
    dock,      \* what the client and the dock hold in memory, see Docks
    disk,      \* what the file holds, see Files
    full,      \* the file cannot be written
    wire,      \* requests without a reply
    server,    \* what the backends still honour, see Servers
    old,       \* logins whose window has passed
    past,      \* history: logins this dock has ended, saves that failed
    presses, faults

vars == <<url, dock, disk, full, wire, server, old, past, presses, faults>>

Secrets == 1..MaxIssued
MaybeSecret == 0..MaxIssued

Docks ==
    [open: BOOLEAN,                  \* OBS runs
     managed: BOOLEAN,               \* isManaged()
     session: MaybeSecret,           \* sessionToken_
     good: BOOLEAN,                  \* sessionExpiry_ is more than 30 s away
     user: MaybeSecret,              \* userSessionToken_
     conn: SUBSET Platforms,         \* managedAccount(p).connected
     pollFor: Platforms \union {None},  \* managedPollFor_, None if the timer is stopped
     pollsLeft: 0..Polls,            \* managedPollsLeft_
     button: BOOLEAN,                \* userLoginBtn_ and userSignupBtn_ are enabled
     said: {"", "busy", "refused", "storage"}]   \* userStatus_

Files ==
    [install: MaybeSecret,           \* backendInstall
     url: Urls \union {None},        \* backendBaseUrl
     user: MaybeSecret,              \* managedUser
     managed: BOOLEAN,               \* connectionMode
     conn: SUBSET Platforms,         \* managedYoutube ... managedFacebook
     other: BOOLEAN]                 \* provider accounts, facebookLiveId

Servers ==
    [issued: MaybeSecret,
     from: [Secrets -> Urls \union {None}],  \* the backend that issued it
     insts: SUBSET Secrets, sessions: SUBSET Secrets, users: SUBSET Secrets,
     conn: SUBSET Platforms]         \* accounts the backend holds

\* A job is what the callback of a request goes on with: n counts the
\* bootstraps of a connect.
Outers == {"login", "connect", "revalidate", "disconnecting", "erasing", "erasingAccount"}
Calls == {"status", "browser", "poll", "restatus", "disconnect", "erase", "eraseAccount", "apply"}
Paths == {"bootstrap", "session", "refresh", "api", "login", "signup", "me", "logout", "revoke"}
Job(do, p) == [do |-> do, p |-> p, n |-> 0]
NoJob == Job("none", None)

Req(path, job, inst, session, user) ==
    [path |-> path, job |-> job, inst |-> inst, session |-> session, user |-> user,
     ans |-> "pending", got |-> 0]

TypeOK ==
    /\ url \in Urls /\ dock \in Docks /\ disk \in Files /\ full \in BOOLEAN
    /\ server \in Servers /\ old \subseteq Secrets
    /\ \A i \in DOMAIN wire :
         /\ wire[i].path \in Paths /\ wire[i].job.do \in Outers \union Calls \union {"none"}
         /\ wire[i].inst \in MaybeSecret /\ wire[i].session \in MaybeSecret
         /\ wire[i].user \in MaybeSecret
    /\ past \in [ended: SUBSET Secrets, failed: BOOLEAN]

EmptyFile == [install |-> 0, url |-> None, user |-> 0, managed |-> FALSE, conn |-> {}, other |-> FALSE]
Closed ==
    [open |-> FALSE, managed |-> FALSE, session |-> 0, good |-> FALSE, user |-> 0, conn |-> {},
     pollFor |-> None, pollsLeft |-> 0, button |-> TRUE, said |-> ""]

\* OBS is closed after earlier uses.  A file with nothing that the dock owns
\* would have been cleared by saveStore.
Init ==
    /\ url \in Urls /\ dock = Closed /\ full = FALSE /\ wire = <<>>
    /\ \E u \in Urls, i \in {0, 1}, l \in {0, 2}, m \in BOOLEAN, o \in BOOLEAN,
          c \in {{}, Platforms} :
         /\ m \/ o \/ c # {} \/ i + l = 0
         /\ disk = [install |-> i, url |-> IF i + l = 0 THEN None ELSE u, user |-> l,
                    managed |-> m, conn |-> c, other |-> o]
         /\ server = [issued |-> 2,
                      from |-> [s \in Secrets |-> IF s <= 2 THEN u ELSE None],
                      insts |-> {i} \ {0}, sessions |-> {}, users |-> {l} \ {0}, conn |-> c]
    /\ old = {} /\ past = [ended |-> {}, failed |-> FALSE] /\ presses = 0 /\ faults = 0

-----------------------------------------------------------------------------
(* The file.  A handler is a function of the memory d and of the file k to *)
(* an effect: both, and the requests it sends.                             *)

Effect(d, k, out) == [d |-> d, k |-> k, out |-> out]
Leave(d, k) == Effect(d, k, <<>>)

\* managedUserRecordFromJson: a login that has expired reads as absent.
Stale(k) == k.user \in old

\* Store::load
Loaded(k) == IF Stale(k) THEN [k EXCEPT !.user = 0] ELSE k

\* Store::save: all or nothing.
Saved(k, new) == IF full THEN k ELSE new

\* MetadataDock::saveStore: what the dock does not own is kept, unless there
\* is nothing of its own to keep.
SaveStore(d, k) ==
    IF ~k.other /\ d.conn = {} /\ ~d.managed THEN EmptyFile
    ELSE Saved(k, [Loaded(k) EXCEPT !.managed = d.managed, !.conn = d.conn])

LoadAnyInstallation(k) == k.install   \* mutant: whatever backend it is of

\* Client::loadInstallation, installationUrlMatches
LoadInstallation(k) == IF k.url = url THEN k.install ELSE 0

\* Client::persistInstallation
PersistInstallation(k, id) == Saved(k, [Loaded(k) EXCEPT !.install = id, !.url = url])

-----------------------------------------------------------------------------
(* The sessions of the client.                                             *)

HasUser(d) == d.user # 0 /\ d.user \notin old      \* hasUserSession
ValidSession(d) == d.session # 0 /\ d.good         \* hasValidSession
RefreshUi(d, said) ==                              \* refreshManagedLoginUi
    IF ~d.managed THEN d
    ELSE [d EXCEPT !.button = ~HasUser(d), !.said = IF HasUser(d) THEN "" ELSE said]

ClearMemory(d, k) ==   \* mutant: the file keeps the login
    Leave([d EXCEPT !.user = 0], k)

\* clearUserSession, clearPersistedUserSession
ClearUser(d, k) ==
    Leave([d EXCEPT !.user = 0],
          IF Loaded(k).user = 0 THEN k ELSE Saved(k, [Loaded(k) EXCEPT !.user = 0]))

\* tryRestoreUserSession
Restore(d, k) ==
    LET none == [d EXCEPT !.user = 0] IN
    IF HasUser(d) THEN Leave(d, k)
    ELSE IF Loaded(k).user = 0 THEN Leave(none, k)
    ELSE IF k.url # url THEN ClearUser(none, k)
    ELSE Leave([d EXCEPT !.user = k.user], k)

\* The request that ensureSession sends when the session is not valid.
AuthReq(d, k, job) ==
    Req(IF d.session # 0 THEN "refresh" ELSE "session", job, LoadInstallation(k), d.session, 0)
SendAuth(d, k, job) == Effect(d, k, <<AuthReq(d, k, job)>>)

ApiReq(d, job) == Req("api", job, 0, d.session, d.user)
SendApi(d, k, job) == Effect(d, k, <<ApiReq(d, job)>>)

\* userSend, postPublic: the bearer only if it is valid
Bearer(d) == IF ValidSession(d) THEN d.session ELSE 0
SendUser(d, k, path) == Effect(d, k, <<Req(path, NoJob, 0, Bearer(d), d.user)>>)
SendPublic(d, k, path) == Effect(d, k, <<Req(path, NoJob, 0, Bearer(d), 0)>>)

\* ensureSession on behalf of apiSendUser: what is sent, if it can be; the
\* call that cannot be sent is answered at once.
CallReq(d, k, job) == IF ValidSession(d) THEN ApiReq(d, job) ELSE AuthReq(d, k, job)
NoIdentity(d, k) == ~ValidSession(d) /\ LoadInstallation(k) = 0
Call(d, k, job, unauth, storage) ==
    IF ~HasUser(d) THEN unauth
    ELSE IF NoIdentity(d, k) THEN storage ELSE Effect(d, k, <<CallReq(d, k, job)>>)

-----------------------------------------------------------------------------
(* What the dock does with an answer.                                      *)

Connected(d, k, p) ==              \* finishManagedConnected
    LET e == [d EXCEPT !.conn = @ \union {p}] IN Leave(e, SaveStore(e, k))
Stop(d) == [d EXCEPT !.pollFor = None]             \* managedPollTimer_->stop()

\* noteManagedAuthFailure
Lost(d, k, p) ==
    LET e == [d EXCEPT !.conn = @ \ {p}] IN Leave(RefreshUi(e, ""), SaveStore(e, k))

\* onEraseManagedData: what was of the installation goes, the login stays.
Erased(d, k) ==
    LET e == [d EXCEPT !.conn = {}, !.session = 0, !.good = FALSE]
        file == SaveStore(e, Saved(k, [Loaded(k) EXCEPT !.install = 0]))
    IN Effect(e, file,
              IF d.session = 0 THEN <<>> ELSE <<Req("revoke", NoJob, 0, d.session, 0)>>)

\* onEraseAccount
AccountErased(d, k) ==
    LET c == ClearUser(d, k)
        e == Erased(c.d, c.k)
    IN Effect(RefreshUi(e.d, ""), e.k, e.out)

\* The answer to a call: "ok", "empty" (Ok, but not connected, or never sent
\* because the refresh brought no session), "unauth", "storage" or "fail".
Answer(d, k, job, r) ==
    CASE job.do = "browser" ->
           Leave(IF ~d.managed THEN d
                 ELSE IF r = "ok" THEN [d EXCEPT !.pollFor = job.p, !.pollsLeft = Polls]
                 ELSE Stop(d), k)                  \* finishManagedError
      [] job.do = "poll" /\ r = "ok" -> Connected(Stop(d), k, job.p)
      [] job.do = "poll" /\ r = "unauth" -> Lost(Stop(d), k, job.p)
      [] job.do = "restatus" /\ r = "ok" /\ d.managed -> Leave(d, SaveStore(d, k))
      [] job.do \in {"restatus", "apply"} /\ r = "unauth" /\ d.managed -> Lost(d, k, job.p)
      [] job.do = "erase" /\ r \in {"ok", "empty"} -> Erased(d, k)
      [] job.do = "eraseAccount" /\ r \in {"ok", "empty"} /\ d.managed -> AccountErased(d, k)
      [] job.do = "eraseAccount" /\ r = "unauth" /\ d.managed -> Leave(RefreshUi(d, ""), k)
      [] OTHER -> Leave(d, k)

\* startManagedBrowserFlow
Browser(d, k, p) ==
    IF ~HasUser(d) THEN Leave(d, k)
    ELSE LET job == Job("browser", p)
         IN Call(d, k, job, Answer(d, k, job, "unauth"), Answer(d, k, job, "storage"))

\* onConnectManaged asks first whether the backend still holds the account.
Answered(d, k, job, r) ==
    IF job.do # "status" THEN Answer(d, k, job, r)
    ELSE IF ~d.managed THEN Leave(d, k)
    ELSE IF r = "ok" THEN Connected(d, k, job.p)
    ELSE Browser(d, k, job.p)

Ask(d, k, job) == Call(d, k, job, Answered(d, k, job, "unauth"), Answered(d, k, job, "storage"))

\* silentRevalidateManaged, up to its me()
SilentRevalidate(d, k) ==
    IF ~d.managed THEN Leave(d, k)
    ELSE LET e == Restore(d, k)
             f == RefreshUi(e.d, "")
         IN IF HasUser(f) THEN SendUser(f, e.k, "me") ELSE Leave(f, e.k)

\* onUserLogin's callback
LoginDone(d, k, r) ==
    IF ~d.managed THEN Leave(d, k)
    ELSE IF r = "ok" THEN SilentRevalidate(RefreshUi(d, ""), k)
    ELSE Leave(RefreshUi(d, IF r = "storage" THEN "storage" ELSE "refused"), k)

\* Each connected account is asked for; without a login each is lost.
RestatusAll(d, k) ==
    LET ps == SetToSeq(d.conn)
        none == [d EXCEPT !.conn = {}]
    IN IF d.conn = {} \/ (HasUser(d) /\ NoIdentity(d, k)) THEN Leave(d, k)
       ELSE IF ~HasUser(d) THEN Leave(RefreshUi(none, ""), SaveStore(none, k))
       ELSE Effect(d, k, [i \in DOMAIN ps |-> CallReq(d, k, Job("restatus", ps[i]))])

\* ensureSession of the dock and of login has answered r.
Ensured(d, k, job, r) ==
    CASE job.do = "login" ->
           IF r = "ok" /\ ValidSession(d) THEN SendPublic(d, k, "login") ELSE LoginDone(d, k, r)
      [] job.do = "connect" /\ d.managed ->
           IF r = "storage" THEN Effect(d, k, <<Req("bootstrap", job, 0, 0, 0)>>)
           ELSE IF r = "ok" THEN Ask(d, k, Job("status", job.p))
           ELSE Leave(Stop(d), k)                  \* finishManagedError
      [] job.do = "revalidate" /\ d.managed /\ r = "ok" -> RestatusAll(d, k)
      [] job.do = "disconnecting" /\ r = "ok" -> Ask(d, k, Job("disconnect", job.p))
      [] job.do = "erasing" /\ r = "ok" -> Ask(d, k, Job("erase", None))
      [] job.do = "erasingAccount" /\ r = "ok" /\ d.managed -> Ask(d, k, Job("eraseAccount", None))
      [] OTHER -> Leave(d, k)

\* ensureSession
Ensure(d, k, job) ==
    IF ValidSession(d) THEN Ensured(d, k, job, "ok")
    ELSE IF LoadInstallation(k) = 0 THEN Ensured(d, k, job, "storage")
    ELSE SendAuth(d, k, job)

\* The session came, or did not, for the one or the other.
Resume(d, k, job, r) ==
    IF job.do \in Outers THEN Ensured(d, k, job, r)
    ELSE IF r # "ok" THEN Answered(d, k, job, r)
    ELSE IF ValidSession(d) THEN SendApi(d, k, job) ELSE Answered(d, k, job, "empty")

\* onConnectManaged
StartConnect(d, k, job) == IF HasUser(d) THEN Ensure(d, k, job) ELSE Leave(d, k)

-----------------------------------------------------------------------------
(* The replies.                                                            *)

StoreSession(d, id) == [d EXCEPT !.session = id, !.good = TRUE]

\* ensureSession's lambda; a refresh that lost the race starts afresh.
Refreshed(d, k, r) ==
    IF r.ans = "ok" THEN Resume(IF r.got = 0 THEN d ELSE StoreSession(d, r.got), k, r.job, "ok")
    ELSE IF r.ans # "unauth" THEN Resume(d, k, r.job, r.ans)
    ELSE IF LoadInstallation(k) = 0 THEN Resume(d, k, r.job, "storage")
    ELSE Effect(d, k, <<Req("session", r.job, LoadInstallation(k), 0, 0)>>)

\* freshSession's lambda
Fresh(d, k, r) ==
    IF r.ans = "ok" THEN Resume(StoreSession(d, r.got), k, r.job, "ok")
    ELSE Resume([d EXCEPT !.session = 0, !.good = FALSE], k, r.job, r.ans)

BootstrappedUnsaved(d, k, r) ==   \* mutant: Ok although the identity is not stored
    IF ~d.managed THEN Leave(d, k)
    ELSE StartConnect([d EXCEPT !.session = 0], PersistInstallation(k, r.got),
                      [r.job EXCEPT !.n = @ + 1])

\* bootstrap's lambda: Ok only when the identity is stored, then connect again.
Bootstrapped(d, k, r) ==
    LET l == PersistInstallation(k, r.got) IN
    IF r.ans # "ok" \/ full THEN Leave(IF d.managed THEN Stop(d) ELSE d, k)
    ELSE LET e == [d EXCEPT !.session = 0, !.good = FALSE] IN
         IF ~e.managed THEN Leave(e, l)
         ELSE StartConnect(e, l, [r.job EXCEPT !.n = @ + 1])

\* login's lambda: without a file there is no restore, so no login either.
LoggedIn(d, k, r) ==
    IF r.ans # "ok" THEN LoginDone(d, k, r.ans)
    ELSE LET e == [d EXCEPT !.user = r.got] IN
         IF full THEN LET c == ClearUser(e, k) IN LoginDone(c.d, c.k, "storage")
         ELSE LoginDone(e, [Loaded(k) EXCEPT !.user = r.got, !.url = url], "ok")

\* onUserSignup's callback logs in at once.
SignedUp(d, k, r) ==
    IF ~d.managed THEN Leave(d, k)
    ELSE IF r.ans = "ok" THEN Ensure(d, k, Job("login", None))
    ELSE Leave(RefreshUi(d, "refused"), k)

\* silentRevalidateManaged: whatever the reason, all accounts are dropped.
MeAnswered(d, k, r) ==
    LET c == IF r.ans = "unauth" THEN ClearUser(d, k) ELSE Leave(d, k)
        e == RefreshUi([c.d EXCEPT !.conn = {}], "")
    IN IF ~c.d.managed THEN c
       ELSE IF r.ans = "ok" THEN Ensure(RefreshUi(c.d, ""), c.k, Job("revalidate", None))
       ELSE Leave(e, SaveStore(e, c.k))

\* onUserLogout
LoggedOut(d, k) ==
    LET c == ClearUser(d, k)
        e == RefreshUi([c.d EXCEPT !.conn = {}], "")
    IN IF c.d.managed THEN Leave(e, SaveStore(e, c.k)) ELSE c

\* apiSendUser's lambda: a 401 forgets both sessions.
Called(d, k, r) ==
    LET c == IF r.ans # "unauth" THEN Leave(d, k)
             ELSE ClearUser([d EXCEPT !.session = 0, !.good = FALSE], k)
    IN Answered(c.d, c.k, r.job, r.ans)

Delivered(d, k, r) ==
    CASE r.path = "refresh" -> Refreshed(d, k, r)
      [] r.path = "session" -> Fresh(d, k, r)
      [] r.path = "bootstrap" -> Bootstrapped(d, k, r)
      [] r.path = "login" -> LoggedIn(d, k, r)
      [] r.path = "signup" -> SignedUp(d, k, r)
      [] r.path = "me" -> MeAnswered(d, k, r)
      [] r.path = "logout" -> LoggedOut(d, k)
      [] r.path = "api" -> Called(d, k, r)
      [] OTHER -> Leave(d, k)

\* What a handler did takes effect; rest is the wire without its reply.
Handle(e, rest) ==
    /\ dock' = e.d /\ disk' = e.k /\ wire' = rest \o e.out
    /\ past' = [past EXCEPT !.ended = @ \union ({dock.user} \ {0, e.d.user})]

Reply(i) ==
    /\ wire[i].ans # "pending"
    /\ Handle(Delivered(dock, disk, wire[i]), RemoveAt(wire, i))
    /\ UNCHANGED <<url, full, server, old, presses, faults>>

-----------------------------------------------------------------------------
(* The backend, as the plugin meets it.                                    *)

Knows(set, id) == id \in set /\ server.from[id] = url
Gives(i, a, id) == wire' = [wire EXCEPT ![i].ans = a, ![i].got = id]

\* What was asked is done, and its answer may be lost.
Done(i, s, a, id) ==
    /\ server' = s
    /\ Gives(i, a, id) \/ (s # server /\ Gives(i, "fail", 0))

\* A new secret; set is what it belongs to, without the one it replaces.
Issues(i, s, set) ==
    /\ server.issued < MaxIssued
    /\ LET id == server.issued + 1
           new == [s EXCEPT !.issued = id, !.from[id] = url]
       IN Done(i, CASE set = "insts" -> [new EXCEPT !.insts = @ \union {id}]
                    [] set = "sessions" -> [new EXCEPT !.sessions = @ \union {id}]
                    [] OTHER -> [new EXCEPT !.users = @ \union {id}], "ok", id)

Admits(r) ==
    CASE r.path = "session" -> Knows(server.insts, r.inst)
      [] r.path = "refresh" -> Knows(server.insts, r.inst) /\ Knows(server.sessions, r.session)
      [] r.path \in {"me", "logout"} -> Knows(server.users, r.user)
      [] r.path = "api" -> Knows(server.sessions, r.session) /\ Knows(server.users, r.user)
      [] OTHER -> TRUE

ServeCall(i, r) ==
    CASE r.job.do \in {"status", "poll", "restatus"} ->
           Done(i, server, IF r.job.p \in server.conn THEN "ok" ELSE "empty", 0)
      [] r.job.do = "disconnect" -> Done(i, [server EXCEPT !.conn = @ \ {r.job.p}], "ok", 0)
      [] r.job.do \in {"erase", "eraseAccount"} ->
           \E kept \in {{}} \union (IF r.job.do = "erase" THEN {server.users} ELSE {}) :
             Done(i, [server EXCEPT !.insts = {}, !.sessions = {}, !.conn = {}, !.users = kept],
                  "ok", 0)
      [] OTHER -> Done(i, server, "ok", 0)

Serve(i) ==
    LET r == wire[i] IN
    /\ r.ans = "pending"
    /\ \/ Gives(i, "fail", 0) /\ UNCHANGED server
       \/ (~Admits(r) \/ r.path = "login") /\ Gives(i, "unauth", 0) /\ UNCHANGED server
       \/ /\ Admits(r)
          /\ CASE r.path = "bootstrap" -> Issues(i, server, "insts")
               [] r.path = "session" -> Issues(i, server, "sessions")
               [] r.path = "refresh" ->
                    \/ Issues(i, [server EXCEPT !.sessions = @ \ {r.session}], "sessions")
                    \/ Done(i, server, "ok", 0)        \* without a usable session in it
               [] r.path = "login" -> Issues(i, server, "users")
               [] r.path = "logout" ->
                    Done(i, [server EXCEPT !.users = @ \ {r.user}], "ok", 0)
               [] r.path = "revoke" ->
                    Done(i, [server EXCEPT !.sessions = @ \ {r.session}], "ok", 0)
               [] r.path = "api" -> ServeCall(i, r)
               [] OTHER -> Done(i, server, "ok", 0)
    /\ UNCHANGED <<url, dock, disk, full, old, past, presses, faults>>

\* The consent in the browser.
Consent(p) ==
    /\ dock.pollFor = p /\ p \notin server.conn
    /\ server' = [server EXCEPT !.conn = @ \union {p}]
    /\ UNCHANGED <<url, dock, disk, full, wire, old, past, presses, faults>>

-----------------------------------------------------------------------------
(* The user and OBS.                                                       *)


\* A press that the handler e answers.  The bounds are the model's.
Pressed(e) ==
    /\ dock.open /\ presses < MaxPresses /\ Len(wire) < MaxWire
    /\ Handle(e, wire) /\ presses' = presses + 1
    /\ UNCHANGED <<url, full, server, old, faults>>

Managed == dock.managed /\ HasUser(dock)           \* requireManagedLogin
Idle(jobs) == \A i \in DOMAIN wire : wire[i].job.do \notin jobs

\* The constructor of the dock: loadStore, then initManaged.
Open ==
    /\ ~dock.open
    /\ LET e == SilentRevalidate([Closed EXCEPT !.open = TRUE, !.managed = disk.managed,
                                                !.conn = Loaded(disk).conn], disk)
       IN Handle(Effect(RefreshUi(e.d, ""), e.k, e.out), <<>>)
    /\ UNCHANGED <<url, full, server, old, presses, faults>>

\* OBS ends, and starts again with this or another STREAM_META_BACKEND_URL.
Quit ==
    /\ dock.open /\ presses < MaxPresses /\ presses' = presses + 1
    /\ url' \in Urls /\ dock' = Closed /\ wire' = <<>>
    /\ UNCHANGED <<disk, full, server, old, past, faults>>

Busy(d) == [d EXCEPT !.button = FALSE, !.said = "busy"]

\* onUserLogin and onUserSignup, with fields that are valid
PressLogin ==
    /\ dock.managed /\ dock.button
    /\ Pressed(Ensure(Busy(dock), disk, Job("login", None)))
PressSignup ==
    /\ dock.managed /\ dock.button
    /\ Pressed(SendPublic(Busy(dock), disk, "signup"))

\* onUserLogout; a repaint in between may enable its button again.
PressLogout == Managed /\ Pressed(SendUser(dock, disk, "logout"))

\* onConnectManaged
PressConnect(p) == Managed /\ Pressed(StartConnect(dock, disk, Job("connect", p)))

\* onDisconnectManaged: first here, then at the backend if there is a login.
PressDisconnect(p) ==
    /\ dock.managed /\ p \in dock.conn
    /\ LET d == [dock EXCEPT !.conn = @ \ {p}]
           k == SaveStore(d, disk)
       IN Pressed(IF HasUser(d) THEN Ensure(d, k, Job("disconnecting", p)) ELSE Leave(d, k))

\* onEraseManagedData and onEraseAccount: each button waits for its answer.
PressErase ==
    /\ Managed /\ Idle({"erasing", "erase"})
    /\ Pressed(Ensure(dock, disk, Job("erasing", None)))
PressEraseAccount ==
    /\ Managed /\ Idle({"erasingAccount", "eraseAccount"})
    /\ Pressed(Ensure(dock, disk, Job("erasingAccount", None)))

\* Apply, the lists and the Facebook buttons, as far as the client sees them.
PressApply(p) ==
    /\ Managed /\ p \in dock.conn
    /\ Pressed(Ask(dock, disk, Job("apply", p)))

\* onModeChanged
ModeSwitch ==
    LET d == RefreshUi([Stop(dock) EXCEPT !.managed = ~@], "")
    IN Pressed(Leave(d, SaveStore(d, disk)))

PollTimeoutEndless ==   \* mutant: the count is not looked at
    /\ dock.pollFor # None /\ Len(wire) < MaxWire
    /\ Handle(IF ~dock.managed THEN Leave(Stop(dock), disk)
              ELSE IF ~HasUser(dock) THEN Leave(RefreshUi(Stop(dock), ""), disk)
              ELSE Ask([dock EXCEPT !.pollsLeft = @ - 1], disk, Job("poll", dock.pollFor)), wire)
    /\ UNCHANGED <<url, full, server, old, presses, faults>>

\* onManagedPollTimeout
PollTimeout ==
    /\ dock.pollFor # None /\ Len(wire) < MaxWire
    /\ Handle(IF ~dock.managed THEN Leave(Stop(dock), disk)
              ELSE IF ~HasUser(dock) THEN Leave(RefreshUi(Stop(dock), ""), disk)
              ELSE IF dock.pollsLeft = 0 THEN Leave(Stop(dock), disk)
              ELSE Ask([dock EXCEPT !.pollsLeft = @ - 1], disk, Job("poll", dock.pollFor)), wire)
    /\ UNCHANGED <<url, full, server, old, presses, faults>>

-----------------------------------------------------------------------------
(* Time, the disk and the backends.                                        *)

\* sessionExpiry_ is 30 s away.
SessionNears ==
    /\ dock.good /\ dock' = [dock EXCEPT !.good = FALSE]
    /\ UNCHANGED <<url, disk, full, wire, server, old, past, presses, faults>>

\* The window of a login passes (15 days, or less if 30 have passed).
LoginExpires(id) ==
    /\ faults < MaxFaults /\ id \in server.users \ old
    /\ old' = old \union {id} /\ faults' = faults + 1
    /\ UNCHANGED <<url, dock, disk, full, wire, server, past, presses>>

\* A session, a login or an installation is revoked, purged or erased from
\* elsewhere.
ServerDrops(id) ==
    /\ faults < MaxFaults /\ id \in server.insts \union server.sessions \union server.users
    /\ server' = [server EXCEPT !.insts = @ \ {id}, !.sessions = @ \ {id}, !.users = @ \ {id}]
    /\ faults' = faults + 1
    /\ UNCHANGED <<url, dock, disk, full, wire, old, past, presses>>

\* The file cannot be written, or can again.
DiskChanges ==
    /\ faults < MaxFaults /\ faults' = faults + 1
    /\ full' = ~full /\ past' = [past EXCEPT !.failed = TRUE]
    /\ UNCHANGED <<url, dock, disk, wire, server, old, presses>>

Next ==
    \/ Open \/ Quit \/ PollTimeout \/ SessionNears \/ DiskChanges
    \/ PressLogin \/ PressSignup \/ PressLogout \/ PressErase \/ PressEraseAccount \/ ModeSwitch
    \/ \E p \in Platforms : PressConnect(p) \/ PressDisconnect(p) \/ PressApply(p) \/ Consent(p)
    \/ \E i \in DOMAIN wire : Reply(i) \/ Serve(i)
    \/ \E id \in Secrets : LoginExpires(id) \/ ServerDrops(id)

Spec == Init /\ [][Next]_vars

-----------------------------------------------------------------------------
(* Properties.                                                             *)

\* A secret is only ever sent to the backend that issued it: the binding of
\* the file to a base URL (T-053) holds over restarts with another URL, over
\* the login that shares the binding with the installation, and over every
\* save that rewrites the file from memory.
OwnBackend ==
    \A i \in DOMAIN wire : \A s \in {wire[i].inst, wire[i].session, wire[i].user} \ {0} :
        server.from[s] = url

Carries(w, ids) == Cardinality({i \in DOMAIN w : w[i].user \in ids})

\* A login that the dock has ended (logout, 401, account erase, replaced by
\* another) is never sent again, not by a request that was waiting for a
\* session and not after a restart, as long as every save succeeded
\* ("memoria y disco van juntos", clearUserSession).
EndedStaysEnded ==
    [][past.failed \/ Carries(wire', past.ended) <= Carries(wire, past.ended)]_vars

\* One Connect registers one installation at most: bootstrap is asked once,
\* and what it brought is found again by the retry ("bootstrap once, then
\* retry", onConnectManaged).
BootstrapOnce == \A i \in DOMAIN wire : wire[i].path = "bootstrap" => wire[i].job.n = 0

\* "Local installation storage failed (DPAPI)" is only said of a store that
\* failed ("StorageError, // DPAPI/file persistence failed").  The code says
\* it to every first login: nothing registers the installation that login
\* needs except a Connect, and a Connect needs a login.
LoginNotStuck == dock.said = "storage" => past.failed

=============================================================================
