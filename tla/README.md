# Verification of obs-stream-metadata

`obs-stream-metadata` is an OBS dock that writes the title, the description and
the category of a live stream to YouTube, Twitch, Kick and Facebook, and a
backend ("Managed" mode) that keeps the OAuth tokens of those platforms for it.
This directory holds the TLA+ specifications of the parts of it that are hard
to test, the TLC configurations that check them on small instances, and the
TLAPS proofs of what holds for every instance.

Paths are relative to the root of the repository, whose sources are under
`src/`; so the backend is `src/backend/` and the plugin is `src/src/`. A comment
in a module that says `oauth.py:141` means `src/backend/oauth.py`, line 141.

## 1. The system

### Backend (Python, `ThreadingHTTPServer`, several Cloud Run instances)

| part | state | operations | talks to | what is hard |
|---|---|---|---|---|
| Pool (`db.py`) | `_created`, `_guard`, `_free`, a stack per thread | acquire, release, `with`, close | every store | threads that race for room; a connection the server dropped; each connection discounted exactly once |
| Connect transactions (`oauth.py`, `pgstores.py`) | table `transactions` | start, callback, consume, purge, erase | providers, browser, purge job | two callbacks of one consent; a row written back after it was deleted; expiry at the boundary |
| Managed tokens (`oauth.py`, `pgstores.py`) | tables `connections` (per installation) and `tokens` (per account), locks per process | callback saves, `ensure_fresh_token`, disconnect | providers, adapters | a refresh token that rotates; stale reads before the lock; disconnect in the middle of a refresh |
| Sessions (`auth.py`, `pgstores.py`, `http_server.py`) | tables `installations`, `sessions`, nonces | bootstrap, create, validate, refresh, revoke | plugin | load and save in separate statements; the cap of a user's sessions; revocation against a refresh in flight |
| Users and ownership (`users.py`, `http_server.py`) | table `users`, `user_id` of sessions, `owner_user_id` of tokens | signup, login, adopt, stamp the owner, enforce it, erase | sessions, tokens | an owner read before a callback and enforced after it |
| Privacy and maintenance (`privacy.py`, `maintenance.py`, `tools/purge_expired.py`) | none of its own | erase, purge | all tables | a sequence of database transactions with requests in flight between them |
| Adapters (`adapters/*.py`) | none | list, apply, exchange, refresh, revoke | providers | the answer of the provider lost |

The stores share the pool, one store method is one database transaction, and the
threads of one process and of several interleave between them.

### Plugin (C++, one Qt event loop)

| part | state | operations | talks to | what is hard |
|---|---|---|---|---|
| Apply (`metadata_dock.cpp`) | `applyQueue_`, `applyAfterList_`, `fbApplyCreatePending_`, `resumeRetry_`, `retryCount_`, `sessionRetried_`, the button, the backoff timer | `onApply`, `startApplyNext`, every reply, backoff, session retry | platforms, backend, login, Facebook create | replies that arrive after the user changed the mode, the list or the login; one budget of retries for several causes |
| Relay (`relay_manager.cpp`, `relay.cpp`, part of the dock) | child process, `state_`, `stopping_`, `pendingDest_`, `clearPending_`, cooldown, deferred refire | start, stop, refire, clear; replies of the Control API; process signals; timers | MediaMTX, Facebook create/end/delete | a process that starts or dies at any time, within a call or after it; replies of a previous process; timers that fire early |
| Facebook live cycle (`metadata_dock.cpp`, decisions in `metadata.cpp`) | current video, what is known of it, intents, pending verification, go live session, signal watch | status, create, go live, end, delete, adopt, update; automatic go live and end; message boxes | Graph, backend, relay, Apply | a reply that arrives after the selection, the mode or the login changed; a verdict older than a write; the handlers that run inside an open message box |
| Backend client (`backend_auth.cpp`) | installation, session, user session | bootstrap, ensureSession, apiSendUser, login, signup, me, logout | backend, credential file, dock | several requests that refresh one session; a login ended while requests wait; another backend at the next start |
| Credential file (`secure_store.cpp`) | one encrypted file | load, save, clear | client, dock | two writers of one file, each keeping what the other owns; a save that fails |
| Connect flows (`metadata_dock.cpp`) | per-platform sub-state, loopback listener, poll timer | PKCE, device code, polling, erase | browser, backend | an answer for a flow that was cancelled |
| Metadata rules, glue | none | parsing, validation | - | - |

An action of a plugin module is one whole Qt handler: nothing interleaves inside
it. What interleaves is the order of replies, signals of the child process,
timers and the user.

### What makes each part correct

* Pool: `_created` counts what exists; no more than `max_size` connections; one
  holder each; every thread comes back.
* Transactions: used once; a connection belongs to who asked for it; the purge
  and the erase take what they should and nothing they took comes back usable.
* Tokens: one refresh at a time, with a refresh token that is still good; no
  expired access token is handed out; a deleted connection stays deleted.
* Relay: no destination is lost or revived; a death is told once; a stopped
  relay stops; only a process that was asked to stop is killed.
* Apply: one step at a time; every platform gets one answer; a bounded number
  of sends; the button comes back.
* Facebook: no go live on a verdict older than what was last written; a reply
  never takes the selection away from the user; the session that the watch may
  end belongs to the video that was put on the air; no button waits for a create
  that is over; a lost encoder ends the live.
* Client and credential file: a secret goes only to the backend that issued it;
  a login that was ended is never used again, restarts included; a connect
  bootstraps at most once.
* Sessions and ownership: section 7.

## 2. Modules

| module | models | composed with |
|---|---|---|
| `ConnectionLease` | abstract: a connection is lent to one thread and given back by it | implemented by `PgPool` |
| `PgPool` | `PgPool.acquire`, `release`, `__enter__`, `__exit__` | `PROPERTY Leases` is the refinement |
| `PgPoolProofs` | theorems about `PgPool` | `EXTENDS PgPool` |
| `ConnectTransactions` | `ConnectService.start`, `.callback`, the transaction store, purge, erase | |
| `ConnectProofs` | theorems about `ConnectTransactions` | `EXTENDS ConnectTransactions` |
| `ManagedTokens` | the saves of a callback, `ensure_fresh_token`, `erase_local`, `disconnect` | takes over where `ConnectTransactions` abstracts the tokens |
| `TokenProofs` | theorems about `ManagedTokens` | `EXTENDS ManagedTokens` |
| `RelayForward` | `RelayManager` and the part of the dock that drives it | |
| `RelayProofs` | theorems about `RelayForward` | `EXTENDS RelayForward` |
| `ApplyBatch` | abstract: one batch of platforms at a time, each told its result once, the button back with the last | implemented by `ApplyPipeline` |
| `ApplyPipeline` | Apply, in Direct and in Managed mode, and the user operations that touch its state | `PROPERTY Answers` is the refinement |
| `ApplyProofs` | theorems about `ApplyPipeline` | `EXTENDS ApplyPipeline` |
| `FacebookLive` | the Facebook cycle of the dock with the requests to Graph or to the backend, the message boxes and the signal watch | its create is what `ApplyPipeline` waits for; its current video is what `RelayForward` forwards |
| `LiveProofs` | theorems about `FacebookLive` | `EXTENDS FacebookLive` |
| `BackendClient` | `backend_auth::Client`, `secure::Store` and the handlers of Managed mode that use them | its job "apply" stands for the requests of `ApplyPipeline` and `FacebookLive` |
| `ClientProofs` | theorems about `BackendClient` | `EXTENDS BackendClient` |
| `MC*` | symmetry sets and the assignment of threads to processes for TLC | |

A definition named as the mutated form of another, placed before it and said to
be one in its comment (for instance `MarkNothing` before `Mark`), belongs to no
next-state relation. It is what a plausible slip would make of that code, and
replacing the original by it makes a property fail.

### PgPool

`created`, `guard`, `free` and `stack` are `_created`, `_guard`, `_free` and
`_local.stack`; `cur` is the local variable `conn` of a thread inside the code;
`conn` is what has become of each connection, where "dead" is dropped by the
server with nobody the wiser and "closed" is `conn.closed`. There is one action
per point at which another thread can run: an operation of the queue, a
statement on the wire, a critical section. `StartOpening` and `OpenOk` /
`OpenFails` are two because the connection is opened with `_guard` held, so
that `Uncount`, `StartOpening` and `NoRoom` of other threads wait. Elapsed time
is abstracted: a wait may end in its timeout at any moment (`Exhausted`).

### ConnectTransactions

`row` is the table. `consume` is two steps, as in `pgstores.py:232-245`: `Load`
reads the entry into the thread (`job.snap`), `Mark` writes it back marked, and
`Expire` is the branch that deletes it. `Authorize` is the check of the session
and `Start` the save: an erase may come between. `Exchange` is the provider,
which takes a code once, and may have taken it though its answer is lost.
`EraseConnection`, `EraseSessions` and `EraseRows` are the database transactions
of `erase_installation`, in its order; `doomed` remembers what the last of them
deleted. `erase_user` deletes the same rows of every installation of a user.

### ManagedTokens

A pair of tokens is a number, with the tick it was issued at (`born`); `live`
is what the provider still honours. `conn` and `tok` are the two tables, `lock`
is `_refresh_locks` of each process, and `loc` holds what a request has read.
Every store call and every call to a provider is a step. `Fresh` is the test of
`oauth.py:138-140`, on the time of the save. `Lag` bounds how long after its
issue a pair is stored; `NeverServesExpired` depends on a margin of twice that:
one lag because the age is counted from the save, and one more because the pair
of another callback, issued before and stored after, may be in the row.

### RelayForward

The first block of variables is `RelayManager`, the second is the dock. `Launch`
is `refireFromIngest` / `refireDest` / `ensureStarted`, with every outcome the
platform allows: a start may succeed or fail inside `proc_->start()` or later.
`patches` holds requests without a reply, with whether MediaMTX has acted on
them. `DeferredTimer` is the deferred refire: its timer is a coarse `QTimer` and
may fire up to `Slack` early. `created` is what
the combo of the dock lists; a video that was deleted, and that nothing refers
to any more, gives its name to a later one. `asked` and `notices` are history.

Both modes drive the relay. `creating` keeps the mode each create was sent in,
since its reply is dropped in the other one (`onReply`, `metadata_dock.cpp:7418-7445`;
the reply of a Managed operation, `:5992-5993`). In its own mode it does the same
to the relay: `CreateReply` is `:8422-8446` in Independent and `:6275` with
`:6391-6408` in Managed. The ends differ in what they ask first and the deletes
in the entry they remove, so `EndReply` has a guard per mode and the deletes are
two actions; all three end in `DropForward`. `CreateSend` is the button
(`onFbCreate`, which looks at `fbIntentCreateInFlight_`) and Apply (`:6976`,
which does not, but creates only if no video is selected): two creates may be in
flight in one mode. `Bind` is an adopt (`:6190`, `:7878`) or a Managed status
read (`:6275`), which select a video without an ingest. `Disconnect` is that of
either mode; `ManagedLeft` is what the replies of a logout and of the two erases
(`:3647-3667`, `:3756-3774`, `:3866-3882`) do. The requests of end, delete, adopt
and status are not counted: their replies may come at any time. Branches that no
call of the code can reach (`fbForwardPending_` and the automatic preparation)
are left out, and a list that is read again is taken to show the same videos,
with none or any of them selected.

### ApplyPipeline

`apply` holds the members of the dock that drive the queue; `net` counts the
requests in flight by kind, platform and mode; `timers` are pending backoffs.
`StartNext` is `startApplyNext` with its loop over platforms that cannot be
served, and `Serve` what it does for one that can. The reply actions are one per
kind of reply, with every outcome the code tells apart; `cuts` records that the
user took away the step Apply was waiting for. Facebook's two requests for its
list (targets, then videos) are one. The text that is sent, and the silent
verification after a Facebook update, are left out (`FacebookLive` has both).

### FacebookLive

`fb` holds the Facebook members of the dock, `watch` those of the signal, named
in the comments of `Docks` and `Watches`; `dialogs` are the open message boxes,
`wire` the requests in flight, each with the mode it was sent in and with its
answer once Graph has served it: a reply may come long after, and in any order.
A handler is a function from `fb` to a set of effects (`Effect`: the new `fb`,
the requests it sends, the boxes it opens), and `AndThen` runs one handler
inside another, as the code calls it. A box keeps the event loop running, so
`AnswerDialog` goes on with whatever `fb` is by then. `graph` is what Facebook
holds: it may be changed from outside (`Answers` includes what the user did on
the site), and a write may be done though its answer is lost.

The two modes have two sets of reply handlers in the code and here:
`startManagedFbOp`'s lambda (`ManagedDone`, `ManagedFailed`, `ReadAfter`...) and
the cases of `onReply` (`DirectDone`, `DirectFailed`, `StatusReadDirect`...). The
relay is only its state, which changes by itself; Apply is its Facebook step
(`PressApply`, `Updated`). The title is one of `Titles`, or `None` when it is not
valid. `fbAutoActive_`, `fbAutoArmed_`, `fbEndAutoPending_`, `fbSigPrecreated_`
and `fbAutoDeleteId_` are never set by code that runs, and their branches are
left out. `past` is history: the videos whose last accepted write was read back,
and the ones that this dock put on the air.

### BackendClient

`dock` is the memory of the client and of the dock, lost by `Quit`; `disk` is the
file, kept. Installations, sessions and logins are numbers in the order they
were issued, with the backend that issued each in `server.from`. A request
carries the secrets it was sent with (`inst`, `session`, `user`) and the job that
its callback goes on with. A handler is a function of the memory and the file to
an effect, as above; `Call` is `apiSendUser` up to the request, `Called` its
reply, and `Ensure` / `Resume` the detour through `ensureSession`. `Saved` is
`Store::save`, which fails while `full` holds. `Restore` is the saved login at
the start, `SaveStore` is the save of the dock, which rewrites the same file.

`Init` is any file that earlier uses leave, with or without a saved login and an
installation, of this or of another backend. The button of the logout may be
enabled by a repaint while its request is in flight; the model lets the user
press whenever there is a login.

## 3. Runs

| run | question | result |
|---|---|---|
| `pool` | do two threads, two connections and nested `with` keep the count, the bound and one holder each; does every thread come back; does the pool implement the lease? | holds |
| `connect` | two transactions, two providers, two racing requests, with purge, erase and expiry | holds |
| `tokens_refresh` | two installations that share an account, two threads of one process | holds |
| `tokens_answered` | is every request answered, with refused and lost refreshes and disconnects? | holds |
| `tokens_shared` | does the row kept for another installation stay usable? | no: section 6 |
| `relay` | two videos over a relay that starts, dies, is stopped and is repointed | holds |
| `apply` | two platforms, both modes, any two things the user does meanwhile | holds |
| `apply_switch` | does an Apply survive a switch of mode? | no |
| `fblive` | two videos, both modes, replies in any order, message boxes, the signal and any two things the user does | holds |
| `fb_autoend` | does the dock ask for the confirmation that ends the live of a lost encoder? | no |
| `client` | two backends, restarts, a failing disk, dropped sessions and lost answers, and any two things the user does | holds |
| `client_login` | is "storage failed" said only of a storage that failed? | no |

The properties, by module. Each is stated and justified where it is defined.

* `PgPool`: `CountMatches`, `Bounded`, `Exclusive`, `ComesBack`, `Leases`.
* `ConnectTransactions`: `UsedNeverFindable`, `ConnectionOfStarter`,
  `ErasedNotFindable`, `WrongProviderLeavesRow`, `PurgeOnlyUnusable`.
* `ManagedTokens`: `SingleFlight`, `RefreshUsesLive`, `RefreshOnlyIfStale`,
  `NeverServesExpired`, `Answered`.
* `RelayForward`: `PendingNotStranded` (a destination kept for `onStarted` has a
  start to wait for; only a start that fails inside `start()` leaves one without,
  and then the process is down and the failure told), `DeathToldOnce`, `DeferredIsNewest`, `KillsOnlyAsked`,
  `StopStops`.
* `ApplyPipeline`: `OneStepAtATime`, `ListHasEntry`, `BoundedTries`,
  `NotStranded`, `ApplyEnds`, and `Answers`, that it implements `ApplyBatch`:
  what the user sees is one batch, each platform told once, and a button that
  comes back with the last answer and never before. `AnsweredOnce` says the same
  of a single state and of the queue too; no run repeats it, section 5 proves it.
* `FacebookLive`: `GoLiveChecked` (whatever the order of the replies, what lets
  a go live through is not older than the last write), `SelectionKept`,
  `OwnSession`, `CreateFlagBacked`.
* `BackendClient`: `OwnBackend`, `EndedStaysEnded` (no request is sent with a
  login this dock has ended, and the file does not bring it back),
  `BootstrapOnce`.

Six definitions state what the code does not keep and no run has room for:
`ExhaustedMeansFull`, `SingleUse`, `ErasedStaysErased`, `DeferredNotLost`,
`PendingBacked` and `GoLiveVerified`. Section 6 describes each; adding it to the
`.cfg` of its module shows the trace.

### Bounds, and why they are enough

* `pool`: two threads, two connections, two nested `with`. One more thread than
  connections is not needed for the races, which are between two critical
  sections of two threads; nesting lets one thread hold all there is while the
  other waits. The theorems of section 5 remove the bounds.
* `connect`: two transactions and two providers are needed for a callback on the
  wrong route; two threads for the race inside `consume`. `TTL = 1` with two
  ticks puts every step before, at and after the expiry. One installation: the
  rows of different installations do not meet (`ConnectionOfStarter` is proved
  for any number).
* `tokens_refresh`: `Life = 4`, `Margin = 2`, `Lag = 1`, five ticks: a pair is
  issued, goes stale, is refreshed and goes stale again. Only the jobs "connect"
  and "refresh" run, in one process and with one account: `RefreshUsesLive` does
  not hold with several processes or with a disconnect, nor the other two when an
  installation changes its account, and section 6 says so. Section 5 proves each
  under the conditions it needs, and no others.
* `tokens_answered`: the clock and the pairs run out, hence
  `CHECK_DEADLOCK FALSE`; every job runs.
* `relay`: two videos (a newer one takes over from an older, with their creates in
  flight in one mode or in both; they suffice because
  the name of a deleted video serves again), two requests in
  flight (replies out of order), one armed kill timer, `Cooldown = 1`,
  `Slack = 1`.
* `apply`: YouTube and Facebook are the two platforms that may need a list or a
  create before their update, and YouTube is also one that refreshes its token;
  Twitch and Kick take a proper part of YouTube's path. Two steps of the user
  are enough for a cut and a second start; `MaxRetries = 2` is the code's. An
  Apply that was cut, with the user's steps used up, goes no further, hence
  `CHECK_DEADLOCK FALSE`. `MaxCopies = 2` equal requests in flight.
* `fblive`: two videos are what a reply and a selection may disagree on. Two
  steps of the user, two of the signal or of the relay and two requests when the
  user sends one let a write overtake a read, a reply come after a switch of
  mode, and a box be answered after its video went; one box, because a second
  can only be opened by another press. The user and the signal stop, hence
  `CHECK_DEADLOCK FALSE`. `fb_autoend` needs three readings without emitter
  (`GoneFails` is the code's 3) and one video.
* `client`: two backends, since the question is whether a secret meets the wrong
  one; one platform, because the accounts differ only in the poll timer, which
  they share. `MaxIssued = 4` leaves two secrets beyond the ones that earlier
  uses left: an installation and a session, or a session and a login. One fault
  (a dropped session, a login that expires, a disk that fails) and two presses,
  where closing OBS is one. By hand, also with five secrets, and with three presses, five
  secrets and no fault: nothing more was found. OBS may stay closed, hence
  `CHECK_DEADLOCK FALSE`.

### Fairness

* Pool: a thread inside the pool keeps running (`WF` of `Step`), and
  `threading.Lock` lets in whoever waits (`SF` of the critical sections); an
  `Exhausted` after the deadline is one of the steps. `ComesBack` also assumes
  that the server stops dropping connections: one that drops each as it is made
  may keep a thread opening.
* Tokens: requests keep running (every call to a provider has a timeout), and
  the lock lets every waiter in.
* Relay: the kill timer of `stop()` fires, a killed process ends and a start has
  an outcome. Nothing is assumed of MediaMTX or of the user.
* Apply: every request ends, because `setTransferTimeout(30000)` is set on each
  request to a platform (`metadata_dock.cpp:4333`, `:4353`, `:4374`) and the
  client of the backend aborts after 15 s (`backend_auth.cpp:20`); and timers
  fire. The exception, `postPublic` (`backend_auth.cpp:442-459`), whose timer is
  never started, is not used by Apply.
* `FacebookLive` and `BackendClient` state no fairness: their properties are
  about what may not happen. That a signup or a login ends is not even true of
  the code (`postPublic`, section 6).

## 4. Reading the counterexamples

`tlc -config <cfg> <MC module>` in this directory prints the trace of a run that
is expected to fail. Each shows a disagreement between the code and what the
repository says of it.

## 5. Proofs

`tlapm` on `PgPoolProofs.tla`, `ConnectProofs.tla`, `TokenProofs.tla`,
`RelayProofs.tla`, `ApplyProofs.tla`, `ClientProofs.tla` and `LiveProofs.tla`.
The assumptions are the named ones of the modules (`PoolAssumption`,
`TxnAssumption`, `TokenAssumption`, `RelayAssumption`, `ApplyAssumption`,
`ClientAssumption`, `LiveAssumption`):
sizes are naturals (positive where the code requires it), the "none" values are
none of the others, and there are finitely many platforms.

**Pool.** For any threads, any connections and any `max_size`: `TypeCorrect`,
`CountCorrect`, `BoundedCorrect`, `ExclusiveCorrect`, and `ImplementsLease`, the
refinement of the abstract lease. `CountMatches` and `Exclusive` are not
inductive. The strengthening `IInv` adds `GuardInv` (only the thread that keeps
`_guard` is opening, and there is room: without it `OpenOk` could exceed
`max_size`) and `CurInv` (a thread has a connection in its hands exactly in the
code that handles one, and what is about to be discounted is closed: without it
`Uncount` could lower the count for a connection that is still in use), and the
finiteness of what is counted. `Bounded` then follows, since what exists is
counted and at most one thread is opening. The refinement maps the lease of a
connection to the thread whose stack holds it; `Exclusive` makes that thread
unique, and `Bounded` gives the guard of `Lend`.

**Transactions.** `TypeCorrect`, `UsedCorrect`, `ErasedCorrect`,
`StarterCorrect`, `RouteCorrect` and `PurgeCorrect`: every safety property of
`connect`, for any installations, providers, transactions and requests. What
makes them inductive: an id that was never drawn is nowhere (`FreshInv`), and a
thread about to save a row is the first to have anything to do with its id
(`BusyInv`); so no save brings back a transaction that was used or erased
(`UsedInv`). The row, and the copy a callback has read, name who started the
transaction (`RowInv`, `SnapInv`), and a callback past the check is on the route
of the provider of its transaction (`RouteInv`): so the connection it saves
belongs to the starter.

**Tokens.** `TypeCorrect` and `SingleFlightCorrect`. The lock is a table of
(process, account), and the account is a local of the request, so `LockInv`
needs that no step between the lock and its release changes it; `EntryInv` says
that a request past the second reading has an entry, and without it the row that
a refresh writes back could be no row at all. Each action is reduced to `Moves`
(what it does to the locals of its thread), `DataOK` (the tables) and `Locks`
(what it does to its lock), and `SafeKeep` puts the three together.

`ServedCorrect`, `UsesLiveCorrect` and `StaleCorrect` prove the other three
properties of `tokens_refresh`. Each has the conditions that its proof showed to be
needed as hypotheses of the theorem. `Stored` is common to them: a pair in use was
issued, and one still to be stored is not older than the lag.

* `ServedCorrect` (`NeverServesExpired`) takes every job, any number of processes,
  lost answers included. It needs `2 * Lag <= Margin`, and that an installation
  connects one account only (`Own`, for any assignment of accounts). `AgeInv` says
  how much older than its connection a stored pair may be: by two lags at most,
  and by one while the request that stores it is between its two saves. The margin
  is 120 s (`oauth.py:21`) and each call to a provider has a timeout of 30 s; a
  callback makes two before it stores what it got.
* `UsesLiveCorrect` (`RefreshUsesLive`) needs one process, no disconnect and no
  answer lost; reconnections are allowed, with any accounts. From its issue until
  it is stored a pair is in one place (`Private`), then in one row, and who is
  about to spend it holds the lock of that row's account (`Spends`): so when it is
  spent nobody else had it in hand, and the row that still names it belongs to the
  thread that will replace it.
* `StaleCorrect` (`RefreshOnlyIfStale`) needs one process, no disconnect, that an
  installation connects once and one account, and `Lag + Margin < Life`. While a
  request waits to refresh, no callback of its installation is still to be stored
  (`Apart`): it would have begun before the connection that has gone stale.

**Relay.** `TypeCorrect`, `DeferredCorrect`, `PendingCorrect`, `DeathCorrect` and
`KillCorrect`. What is deferred is the last video because every create that is
answered and every adopt take back the refire of another one, and an end or a
delete takes back any; the videos are a sequence, so the argument needs the type
invariant (a create appends a video that is not yet in it). The code tells a
death from a stop by `stopping_`, the properties by what was asked of that very
process: `StopInv` says that they agree while there is a process. A destination
is kept behind a process only in state `Starting`, which a stop leaves
(`StartInv`): so none waits behind a process that is being stopped or that the
kill timer takes. What `PendingNotStranded` does not exclude, and the code does
not either, is the destination of a start that failed inside `start()`; the
theorem says that this one is left with the process down, not asked to stop, and
its failure told once.

**Apply.** `TypeCorrect`, `OneStepCorrect`, `ListCorrect`, `AnsweredCorrect`,
`TriesCorrect`, `StrandedCorrect` and `ImplementsBatch`: every safety property of
`apply` and the refinement of the abstract batch, for any platforms, retry budget
and bounds. The code has no variable that says where an
Apply is, only flags, a timer and the requests in the air, so the proof first
recovers it: an Apply in course is always in exactly one of six phases (`Sending`,
`Backing` off before a retry, `Listing` for a video, `Creating` one, `Resting`
when it is over, `Stranded` after the user cut it), and each phase fixes what is
in the air for it. A reply to a list or a create that Apply did not ask for keeps
the phase (`Aside`). The rest of the invariant is the account of the platforms:
`Books` (answers and sends add up; the queue holds none twice, and Facebook
last), `Owed` (the one in hand and those in the queue have no answer yet, all
others have theirs), `Fresh` (whoever is still in the queue was not sent yet) and
`Spent` (the retries and the one new session bound the sends of the platform in
hand). `OneStepAtATime` alone is not inductive because nothing in it keeps a late
reply of the backoff from meeting a list in course; the phase does. For the
refinement every handler but `Apply` is classified once (`Goes`): it changes
neither the results nor the button, or it starts the next step (`Onward`), which
leaves something under way or ends the Apply, and takes no result back. That is
also why an Apply that was cut still owes an answer (`Debt`), without which the
last step of a batch could be taken for one that answers nobody; from `Debt`, the
results before and the results after (`Tells`), the step of the batch follows.

**Client.** `TypeCorrect`, `HomeCorrect`, `OnceCorrect` and `EndedCorrect`: every
property of `client`, for any platforms, base URLs and bounds. A handler is a
function of the memory and the file, and the functions call one another, so the
proof has one lemma per function: given a memory and a file that are `Safe`, its
effect is `Good`, that is, safe again and with requests that carry only secrets
that are `Mine` (issued by the backend of this start) and logins the handler has
met. `HandleKeeps` turns a good effect into the invariant of the next state once.
The strengthening: what the file holds is of the backend it names (`Bound`); it
names this start's backend, or the memory is silent and only signups, which carry
nothing, are in the air (`HomeInv`: without the second half the plugin could
restore a login of another backend with the first reply that comes); an ended
login is neither in the memory nor readable from the file (`EndInv`, as long as
every save succeeded); and a login that the backend has just issued is in no other
place, so that a logout that overtakes it does not end it too (`FreshInv`). A
retried connect finds the installation that its bootstrap stored, because what is
stored under the binding of this start is what `LoadInstallation` returns. That an
ended login is never sent again compares two states, so the lemmas carry along
that the requests with such a login never become more (`Unsent`).

**Facebook live.** `TypeCorrect`, `FlagCorrect`, `SessionCorrect`,
`CheckedCorrect` and `SelectionCorrect`: every property of `fblive`, for any
videos, titles and bounds. Here too a handler is an effect, and one lemma per
function says that a `Safe` dock gives a `Good` effect; `Joined` says what is in
the air after the requests of an effect are added to it. The strengthening:
the verdict on a video that has its own expectation is that of its last reading
since the last write to it that was accepted, and the expectation is what was
written (`Verified`); a reply is about the video that was asked, and a go live in
the air is of a video that a go live was sent for (`Sound` in `WireInv`), which
keeps the session of the dock that of such a video when the reply comes. A
create in the air backs the flag, and every reply, disconnect or switch that takes
the create away lowers it. `GoLiveChecked` is about decisions, so the answer to a
message box, which carries out a decision taken when the box was opened, only has
to be `Fine`; as the property compares two states, each step lemma carries its
step form `Checked` along with the invariant. `SelectionKept` speaks of the reply
that was delivered, and the action only of some reply: the lemmas `SameLeft` and
`WhichReply` show that two requests whose removal leaves the same requests in the
air are equal, so the two replies are about the same thing.

Only model-checked: every property under fairness (`ComesBack`, `Answered`,
`StopStops`, `ApplyEnds`), which the proof system does not reach. Every other
property of a passing run is stated by a theorem.

## 6. Where the code and its documentation disagree

Shown by a run:

* `tokens_shared`: `disconnect` revokes at the provider the pair whose row it
  has just kept for another installation.
* `apply_switch`: a switch of mode during an Apply leaves the button disabled.
* `fb_autoend`: `fbMaybeAutoEnd` tells `fbAutoEndGuardsOk` that there is no fresh
  confirmation, and asks for one only if it answers yes: the automatic end never
  happens.
* `client_login`: `login` needs an installation, which only `onConnectManaged`
  registers, after a login. A fresh install, or one whose installation was
  erased, is told that the storage failed and cannot log in.

Stated as a property, which the code does not keep, without a run of its own:

* `ExhaustedMeansFull`: a connection that breaks in `release` is discounted
  (`db.py:166-180`) without waking the threads that wait on the free queue; they
  can wait out the whole deadline and report "postgres pool exhausted"
  (`db.py:143-149`) though the pool has room.
* `SingleUse`: `consume` is a read and a write in two database transactions
  (`pgstores.py:232-245`), and two callbacks of one state can both pass it;
  "transacciones de un solo uso" (`oauth.py:1`).
* `ErasedStaysErased`: a refresh in flight writes back the connection and the
  tokens that a disconnect has deleted (`oauth.py:158-160`).
* `DeferredNotLost`: the coarse timer of the deferred forward may fire before its
  time; `fbFireRefire` then cancels the queue and nobody arms it again
  (`metadata_dock.cpp:2724-2729`), though the operator was told "sigo solo"
  (`:2778-2780`).
* `PendingBacked`: a create of a button that fails leaves
  `fbGoLivePendingAfterCreate_` set, and go live then always answers "Creando el
  vídeo" (`metadata_dock.cpp:5602-5610`); in Managed mode a create that succeeds
  does not go on with the go live either.
* `GoLiveVerified`: adopting a video sets `fbVerifyId_` without resetting the
  verdict and the expectation (`metadata_dock.cpp:7818-7908`), and the answer to
  the box of a manual go live does not look at the verdict again, against the
  comment at `:5618-5622`.

Found while modelling, without a run of their own:

* Transactions: a start whose session was checked before an erase saves its row
  after it, and the consent may still be completed.
* Tokens: the lock is per process (`oauth.py:141`), so two instances may spend
  one refresh token; a disconnect between the two saves of a callback leaves a
  connection without tokens; a reconnect with another account leaves tokens that
  no connection refers to. The second reading under the lock takes the connection
  again but not its account (`oauth.py:142-147`): if a callback has connected the
  installation with another account meanwhile, the request judges the tokens of
  the old account by the age of the new connection, or writes the connection back
  with a new time though the tokens it refreshed are the old account's. With two
  accounts TLC finds an expired token served, and a refresh for a connection that
  is still fresh; with one account and `Lag = Margin`, an expired token served.
* Relay: `ForwardOk` and `ForwardFailed` may be set by a reply that arrives when
  the process is gone, and count as running (`relay.h:150`). The cooldown looks
  at the last accepted request, not at the ones in flight, so two creates
  answered together make two handshakes; `refireFromIngest` keeps the
  destination after a start that failed within the call
  (`relay_manager.cpp:207-213`): the next start without a destination of its own
  sends it, even if its video has been ended or deleted meanwhile, since `clearForward` with no process leaves it.
  An Independent delete answered when no video is selected removes every entry of
  the combo, because each contains the empty id (`metadata_dock.cpp:8688-8697`). One flag says what a reply answers, and two
  requests may be in flight. The deferred forward is not cancelled by a
  disconnect, though a comment says the ingest is always forgotten
  (`metadata_dock.cpp:4683-4684`).
* Apply: it also hangs if Facebook is disconnected while it waits for the
  create, if the user refreshes a list while it waits for one (in Independent
  mode the button of the list is enabled), and if the session retry is answered
  after a logout. The reply of Facebook's list consumes the flag YouTube waits
  on. A create made by a button completes the entry of an Apply that waits for
  its own, and Apply does not look at `fbIntentCreateInFlight_` before it
  creates (a comment says that a create in flight is not duplicated,
  `metadata_dock.cpp:8853-8854`). After a switch from Independent to Managed,
  the platforms still in the queue are updated with the Managed accounts.
* Facebook: Apply creates while the create of a button is in flight
  (`metadata_dock.cpp:6976`). In Independent mode the replies of go live, end
  and delete act on the video selected by then. `fbQuietStatus_` stays set after
  a managed status, so that the next one is silent. `fbGoLiveInFlight_` stays set
  if the login is lost while the box is open or no video is selected when the
  reply comes, and a manual press does not look at it. A managed status that
  comes late selects its video again.
* Credential file: `saveStore` in Independent mode with nothing of its own to
  keep clears the whole file, installation and saved login included, against
  "Preserve anything this dock does not own" (`metadata_dock.cpp:4464-4465`). A
  saved login that has expired reads as absent, so that the message for an
  expired one is practically never shown.
* Client: a refresh that answers without a usable session makes `apiSendUser`
  answer Ok without sending anything (`backend_auth.cpp:724-728`), and the dock
  takes it for a success: an erase reports that the data are gone. The timer of
  `postPublic` is never started, so a signup or a login may hang with its buttons
  disabled. A late 401, or a late answer to a logout, ends a newer login. A
  refresh that overtakes a request gives that request a 401, which logs the user
  out. A `me` that fails for the network drops all Managed accounts. The connect
  of a second platform takes over the only poll timer, and an error of one stops
  the polling of the other; the answer to a poll does not look at the mode
  (`metadata_dock.cpp:3208`). An account erase answered in Independent mode
  leaves the local secrets, and a switch to Managed does not restore the saved
  login.

## 7. Plan

Written first, because they hold the state that everything else reads or are
where most interleavings meet: the pool, the transactions, the tokens, the relay
and Apply; then the Facebook cycle, the client of the backend and the credential
file, which is most of the plugin. What is left, in this order:

1. `Sessions` (`auth.py`, the sessions of `pgstores.py` and of
   `http_server.py`): rows of installation and user sessions; create, refresh,
   revoke, purge and erase as load and save steps. Properties: a revoked session
   is never valid again; the cap of a user's sessions; two refreshes of one
   session ("gana la primera"). `BackendClient` is its client, and its `Serve` is
   what `Sessions` would implement.
2. `Ownership` (`users.py`, `http_server.py`): the owner stamped by a callback
   and enforced by every managed request, with adoption and account erase.
3. The connect flows of Independent mode (loopback listener, device code).
4. Proofs about the modules of 1 and 2.

## 8. Not modelled

Backend: sessions, users and ownership (section 7), the migrations (one
transaction each, before the service starts), the encryption of tokens, the
adapters (one request each, whose outcomes are choices of the models), the HTTP
routing and rate limits, the in-memory and SQLite stores of development,
configuration and logging. `PgPool.close` is called only as the purge tool ends.

Plugin: the loopback listener, the PKCE state and the device codes of
Independent mode; `apiSend`, `apiGet`, `apiPost` and `revokeInstallation`, which
nothing in the dock calls; the `fbAuto*` cycle, which nothing arms; the texts,
limits and payloads of `metadata.cpp`, and the views; encryption by DPAPI; the
entry points of OBS, the tests, the proofs of concept, and the build.
