---------------------------- MODULE ClientProofs ----------------------------
(***************************************************************************)
(* What TLAPS proves of BackendClient, for any platforms, backends, bounds *)
(* and behaviour of the disk: whatever the order of the replies, the       *)
(* memory and the file hold secrets of the backend they are kept for, and  *)
(* no login that was ended.                                                *)
(***************************************************************************)
EXTENDS BackendClient, FiniteSetTheorems, SequenceTheorems, WellFoundedInduction, TLAPS

\* The login a start of OBS would find in the file.
Login(k) == Loaded(k).user

\* Nothing, or a secret of the backend of this start.
Mine(s) == s \in 0..server.issued /\ (s # 0 => server.from[s] = url)

\* What the file holds is of the backend it names.
Bound(k) ==
    /\ k \in Files
    /\ k.install \in 0..server.issued /\ (k.install # 0 => server.from[k.install] = k.url)
    /\ k.user \in 0..server.issued /\ (k.user # 0 => server.from[k.user] = k.url)
Ours(k) == k.url = url \/ (k.install = 0 /\ k.user = 0)
Silent(d) == d.user = 0 /\ d.session = 0

Jobs == [do : Outers \union Calls \union {"none"}, p : Platforms \union {None}, n : Nat]
Reqs == [path : Paths, job : Jobs, inst : MaybeSecret, session : MaybeSecret, user : MaybeSecret,
         ans : {"pending", "ok", "empty", "unauth", "fail"}, got : MaybeSecret]

JobOK(job) ==
    /\ job \in Jobs /\ (job.do \in {"connect", "status", "poll"} => job.p \in Platforms)
    /\ job.n # 0 => job.do = "connect"
Sound(r) ==
    /\ r \in Reqs /\ JobOK(r.job)
    /\ Mine(r.inst) /\ Mine(r.session) /\ Mine(r.user) /\ Mine(r.got)
    /\ r.job.n # 0 => r.path = "session"
    /\ r.path = "bootstrap" => r.job.do = "connect"
    /\ r.path \in {"bootstrap", "login"} /\ r.ans = "ok" => r.got # 0

\* A login that the backend has issued and the dock has not yet heard of.
NewLogin(r) == r.path = "login" /\ r.ans = "ok"

Shut == ~dock.open => dock = Closed /\ wire = <<>>
WireInv == wire \in Seq(Reqs) /\ \A i \in DOMAIN wire : Sound(wire[i])
HomeInv ==
    /\ Mine(dock.session) /\ Mine(dock.user) /\ Bound(disk)
    /\ Ours(disk) \/ (Silent(dock) /\ \A i \in DOMAIN wire : wire[i].path = "signup")
EndInv ==
    /\ past.ended \subseteq 1..server.issued
    /\ full => past.failed
    /\ past.failed \/ (dock.user \notin past.ended /\ Login(disk) \notin past.ended)
FreshInv ==
    \A i \in DOMAIN wire : NewLogin(wire[i]) =>
      /\ wire[i].got \notin past.ended \union {dock.user, Login(disk)}
      /\ \A j \in DOMAIN wire : NewLogin(wire[j]) /\ wire[j].got = wire[i].got => i = j

IInv == TypeOK /\ Shut /\ WireInv /\ HomeInv /\ EndInv /\ FreshInv

-----------------------------------------------------------------------------
(* What a handler keeps.  d and k are the memory and the file at some      *)
(* point of a handler, A the logins it may meet.                           *)

Ctx ==
    /\ url \in Urls /\ server \in Servers /\ old \subseteq Secrets
    /\ full \in BOOLEAN /\ (full => past.failed)

Safe(d, k, A) ==
    /\ d \in Docks /\ d.open /\ Mine(d.session) /\ Mine(d.user) /\ Bound(k)
    /\ Ours(k) \/ Silent(d)
    /\ Ours(disk) => Ours(k)
    /\ d.user \in A /\ Login(k) \in A
    /\ past.failed \/ (Login(k) = dock.user /\ dock.user # 0 => d.user = dock.user)

New(r, A) == Sound(r) /\ r.user \in A /\ r.ans = "pending"
Good(e, A) ==
    /\ Safe(e.d, e.k, A)
    /\ e.out \in Seq(Reqs) /\ \A i \in DOMAIN e.out : New(e.out[i], A)
    /\ Ours(e.k) \/ \A i \in DOMAIN e.out : e.out[i].path = "signup"

LEMMA Zero == 0 \in MaybeSecret /\ 0 \notin Secrets
BY ClientAssumption DEF MaybeSecret, Secrets

LEMMA MineZero == ASSUME Ctx PROVE Mine(0)
BY Zero DEF Ctx, Mine, Servers, MaybeSecret

LEMMA MineSecret == ASSUME Ctx, NEW s, Mine(s) PROVE s \in MaybeSecret
BY ClientAssumption DEF Ctx, Mine, Servers, MaybeSecret

LEMMA Leaves ==
    ASSUME NEW d, NEW k, NEW A, Safe(d, k, A)
    PROVE  Good(Leave(d, k), A)
BY DEF Good, Leave, Effect

LEMMA SendsOne ==
    ASSUME NEW d, NEW k, NEW A, Safe(d, k, A), NEW r, New(r, A), Ours(k) \/ r.path = "signup"
    PROVE  Good(Effect(d, k, <<r>>), A)
BY DEF Good, Effect, New, Sound

\* The memory may change, or forget its session.
LEMMA Moves ==
    ASSUME Ctx, NEW d, NEW k, NEW A, Safe(d, k, A), NEW e \in Docks, e.open,
           e.user = d.user, e.session \in {0, d.session}
    PROVE  Safe(e, k, A)
BY MineZero DEF Safe, Silent

LEMMA LoadedFacts ==
    ASSUME Ctx, NEW k, Bound(k)
    PROVE  /\ Bound(Loaded(k)) /\ Login(Loaded(k)) = Login(k) /\ Login(k) \in {0, k.user}
           /\ Ours(k) => Ours(Loaded(k))
           /\ Loaded(k).url = k.url /\ Loaded(k).install = k.install
<1>1. k \in Files
  BY DEF Bound
<1>2. CASE Stale(k)
  <2>1. Loaded(k) = [k EXCEPT !.user = 0]
    BY <1>2 DEF Loaded
  <2>2. /\ Loaded(k) \in Files /\ Loaded(k).user = 0 /\ Loaded(k).url = k.url
        /\ Loaded(k).install = k.install
    BY <1>1, <2>1, Zero DEF Files
  <2>3. Loaded(Loaded(k)).user = 0
    <3>1. Loaded(Loaded(k)) \in {Loaded(k), [Loaded(k) EXCEPT !.user = 0]}
      BY DEF Loaded
    <3>. QED  BY <2>2, <3>1 DEF Files
  <2>4. 0 \in 0..server.issued
    BY ClientAssumption DEF Ctx, Servers, MaybeSecret
  <2>. QED  BY <2>2, <2>3, <2>4 DEF Bound, Login, Ours
<1>3. CASE ~Stale(k)
  BY <1>3 DEF Loaded, Login, Bound
<1>. QED  BY <1>2, <1>3

LEMMA SaveStoreKeeps ==
    ASSUME Ctx, NEW d, NEW k, NEW A, 0 \in A, Safe(d, k, A)
    PROVE  Safe(d, SaveStore(d, k), A) /\ (Ours(k) => Ours(SaveStore(d, k)))
<1>1. Bound(Loaded(k)) /\ Login(Loaded(k)) = Login(k) /\ (Ours(k) => Ours(Loaded(k)))
  BY LoadedFacts DEF Safe
<1>2. CASE SaveStore(d, k) = EmptyFile
  <2>1. /\ EmptyFile \in Files /\ EmptyFile.install = 0 /\ EmptyFile.user = 0
    BY Zero DEF EmptyFile, Files
  <2>2. Login(EmptyFile) = 0
    <3>1. Loaded(EmptyFile) \in {EmptyFile, [EmptyFile EXCEPT !.user = 0]}
      BY DEF Loaded
    <3>. QED  BY <2>1, <3>1 DEF Login, Files
  <2>3. 0 \in 0..server.issued
    BY ClientAssumption DEF Ctx, Servers, MaybeSecret
  <2>4. Bound(EmptyFile) /\ Ours(EmptyFile)
    BY <2>1, <2>3 DEF Bound, Ours
  <2>. QED  BY <1>2, <2>2, <2>4 DEF Safe
<1>3. CASE SaveStore(d, k) = k
  BY <1>3
<1>4. CASE SaveStore(d, k) = [Loaded(k) EXCEPT !.managed = d.managed, !.conn = d.conn]
  <2>. DEFINE l == Loaded(k)
              n == [Loaded(k) EXCEPT !.managed = d.managed, !.conn = d.conn]
  <2>1. /\ n \in Files /\ n.install = l.install /\ n.user = l.user /\ n.url = l.url
    <3>1. l \in Files /\ d.managed \in BOOLEAN /\ d.conn \in SUBSET Platforms
      BY <1>1 DEF Safe, Docks, Bound
    <3>. HIDE DEF l
    <3>. QED  BY <3>1 DEF Files, l
  <2>2. Login(n) = Login(l)
    BY <1>1, <2>1 DEF Login, Loaded, Stale, Files, Bound
  <2>3. Bound(n) /\ (Ours(k) => Ours(n))
    BY <1>1, <2>1 DEF Bound, Ours
  <2>. HIDE DEF n, l
  <2>. QED  BY <1>1, <1>4, <2>2, <2>3 DEF Safe, n, l
<1>. QED  BY <1>2, <1>3, <1>4 DEF SaveStore, Saved

\* What the memory saves is still there.
LEMMA SaveMoves ==
    ASSUME Ctx, NEW d, NEW k, NEW A, 0 \in A, Safe(d, k, A), NEW e \in Docks, e.open,
           e.user = d.user, e.session \in {0, d.session}
    PROVE  Good(Leave(e, SaveStore(e, k)), A) /\ Safe(e, SaveStore(e, k), A)
BY Moves, SaveStoreKeeps, Leaves

LEMMA RefreshUiFacts ==
    ASSUME NEW d \in Docks, NEW said \in {"", "busy", "refused", "storage"}
    PROVE  /\ RefreshUi(d, said) \in Docks /\ RefreshUi(d, said).user = d.user
           /\ RefreshUi(d, said).session = d.session /\ RefreshUi(d, said).open = d.open
           /\ RefreshUi(d, said).managed = d.managed /\ RefreshUi(d, said).conn = d.conn
BY DEF RefreshUi, Docks, HasUser

\* The login goes from the memory and from the file.
LEMMA ClearUserKeeps ==
    ASSUME Ctx, NEW d, NEW k, NEW A, 0 \in A, Safe(d, k, A)
    PROVE  /\ Good(ClearUser(d, k), A) /\ ClearUser(d, k).d = [d EXCEPT !.user = 0]
           /\ ClearUser(d, k).out = <<>> /\ Safe(ClearUser(d, k).d, ClearUser(d, k).k, A)
           /\ ClearUser(d, k).d \in Docks /\ ClearUser(d, k).d.managed = d.managed
           /\ ClearUser(d, k).d.user = 0 /\ ClearUser(d, k).d.session = d.session
           /\ Ours(k) => Ours(ClearUser(d, k).k)
<1>. DEFINE e == [d EXCEPT !.user = 0]
            l == Loaded(k)
            n == [Loaded(k) EXCEPT !.user = 0]
<1>1. /\ e \in Docks /\ e.user = 0 /\ e.session = d.session /\ e.open = d.open
      /\ e.managed = d.managed
  BY Zero DEF Safe, Docks
<1>2. Bound(l) /\ Login(l) = Login(k) /\ (Ours(k) => Ours(l))
  BY LoadedFacts DEF Safe
<1>3. /\ n \in Files /\ n.user = 0 /\ n.install = l.install /\ n.url = l.url
  <2>1. l \in Files
    BY <1>2 DEF Bound
  <2>. QED  BY <2>1, Zero DEF Files
<1>4. Login(n) = 0
  <2>1. Loaded(n) \in {n, [n EXCEPT !.user = 0]}
    BY DEF Loaded
  <2>. QED  BY <1>3, <2>1 DEF Login, Files
<1>5. Bound(n) /\ (Ours(k) => Ours(n)) /\ Mine(0)
  BY <1>2, <1>3, MineZero DEF Bound, Ours, Mine
<1>6. ClearUser(d, k) = Leave(e, IF Login(k) = 0 THEN k ELSE IF full THEN k ELSE n)
  BY DEF ClearUser, Login, Saved
<1>. HIDE DEF e, n, l
<1>7. Safe(e, k, A) \/ ~(Login(k) = 0 \/ full)
  BY <1>1, <1>5 DEF Safe, Silent, Ctx
<1>8. Safe(e, n, A)
  BY <1>1, <1>4, <1>5 DEF Safe, Silent
<1>9. ClearUser(d, k).d = e /\ ClearUser(d, k).out = <<>>
      /\ ClearUser(d, k).k = IF Login(k) = 0 THEN k ELSE IF full THEN k ELSE n
  BY <1>6 DEF Leave, Effect
<1>10. Safe(e, ClearUser(d, k).k, A) /\ (Ours(k) => Ours(ClearUser(d, k).k))
  BY <1>5, <1>7, <1>8, <1>9
<1>11. Good(Leave(e, ClearUser(d, k).k), A) /\ ClearUser(d, k) = Leave(e, ClearUser(d, k).k)
  BY <1>6, <1>9, <1>10, Leaves
<1>. QED  BY <1>1, <1>9, <1>10, <1>11 DEF e

\* A login may come in whose bearer is of this backend.
LEMMA RestoreKeeps ==
    ASSUME Ctx, NEW d, NEW k, NEW A, 0 \in A, Safe(d, k, A)
    PROVE  /\ Good(Restore(d, k), A) /\ Safe(Restore(d, k).d, Restore(d, k).k, A)
           /\ Restore(d, k).d \in Docks /\ Restore(d, k).out = <<>>
           /\ Restore(d, k).d.managed = d.managed
<1>. DEFINE none == [d EXCEPT !.user = 0]
<1>1. CASE HasUser(d)
  BY <1>1, Leaves DEF Restore, Leave, Effect, Safe
<1>2. CASE ~HasUser(d)
  <2>1. /\ none \in Docks /\ none.user = 0 /\ none.session = d.session /\ none.open = d.open
        /\ none.managed = d.managed /\ [none EXCEPT !.user = 0] = none
    BY Zero DEF Safe, Docks
  <2>2. d.user # 0 => d.user \in old
    BY <1>2 DEF HasUser
  <2>3. Safe(none, k, A) \/ (Login(k) = dock.user /\ dock.user # 0)
    BY <2>1, MineZero DEF Safe, Silent
  <2>4. CASE Login(k) = 0
    <3>1. Restore(d, k) = Leave(none, k)
      BY <1>2, <2>4 DEF Restore, Login
    <3>2. Safe(none, k, A)
      BY <2>3, <2>4
    <3>. HIDE DEF none
    <3>. QED  BY <2>1, <3>1, <3>2, Leaves DEF Leave, Effect
  <2>5. CASE Login(k) # 0 /\ k.url # url
    <3>1. Restore(d, k) = ClearUser(none, k)
      BY <1>2, <2>5 DEF Restore, Login
    <3>2. ClearUser(none, k) = ClearUser(d, k)
      BY <2>1 DEF ClearUser
    <3>. QED  BY <3>1, <3>2, ClearUserKeeps
  <2>6. CASE Login(k) # 0 /\ k.url = url
    <3>. DEFINE e == [d EXCEPT !.user = k.user]
    <3>1. Restore(d, k) = Leave(e, k)
      BY <1>2, <2>6 DEF Restore, Login
    <3>2. Login(k) = k.user /\ Mine(k.user)
      BY <2>6, LoadedFacts DEF Safe, Bound, Mine
    <3>3. /\ e \in Docks /\ e.user = Login(k) /\ e.session = d.session /\ e.open = d.open
          /\ e.managed = d.managed
      BY <3>2, MineSecret DEF Safe, Docks
    <3>4. Safe(e, k, A)
      BY <2>6, <3>2, <3>3 DEF Safe, Ours
    <3>. HIDE DEF e
    <3>. QED  BY <3>1, <3>3, <3>4, Leaves DEF Leave, Effect
  <2>. QED  BY <2>4, <2>5, <2>6
<1>. QED  BY <1>1, <1>2

LEMMA InstallationMine ==
    ASSUME Ctx, NEW k, Bound(k)
    PROVE  Mine(LoadInstallation(k)) /\ (LoadInstallation(k) # 0 => k.url = url)
BY MineZero DEF LoadInstallation, Bound, Mine

LEMMA JobFacts ==
    ASSUME NEW do \in Outers \union Calls \union {"none"}, NEW p \in Platforms \union {None},
           do \in {"connect", "status", "poll"} => p \in Platforms
    PROVE  JobOK(Job(do, p)) /\ Job(do, p).n = 0 /\ Job(do, p).do = do /\ Job(do, p).p = p
BY DEF JobOK, Job, Jobs

LEMMA ReqFacts ==
    ASSUME Ctx, NEW A, NEW path \in Paths, NEW job, JobOK(job), NEW inst, Mine(inst),
           NEW session, Mine(session), NEW user, Mine(user), user \in A,
           job.n # 0 => path = "session", path = "bootstrap" => job.do = "connect"
    PROVE  New(Req(path, job, inst, session, user), A)
           /\ Req(path, job, inst, session, user).path = path
<1>1. inst \in MaybeSecret /\ session \in MaybeSecret /\ user \in MaybeSecret
  BY MineSecret
<1>. QED  BY <1>1, Zero, MineZero DEF Req, New, Sound, Reqs, JobOK

LEMMA NoJobOK == JobOK(NoJob) /\ NoJob.n = 0
BY JobFacts DEF NoJob

\* A call can be sent only by a dock whose file is of this backend.
LEMMA CallReqSound ==
    ASSUME Ctx, NEW d, NEW k, NEW A, 0 \in A, Safe(d, k, A), NEW job, JobOK(job), job.n = 0,
           HasUser(d)
    PROVE  New(CallReq(d, k, job), A) /\ Ours(k)
<1>1. Ours(k)
  BY DEF Safe, Silent, HasUser
<1>2. Mine(0) /\ Mine(d.session) /\ Mine(d.user) /\ Mine(LoadInstallation(k)) /\ d.user \in A
  BY MineZero, InstallationMine DEF Safe
<1>3. New(ApiReq(d, job), A)
  BY <1>2, ReqFacts DEF ApiReq, Paths
<1>4. New(AuthReq(d, k, job), A)
  <2>. DEFINE path == IF d.session # 0 THEN "refresh" ELSE "session"
  <2>1. path \in Paths /\ path # "bootstrap"
    BY DEF Paths
  <2>2. AuthReq(d, k, job) = Req(path, job, LoadInstallation(k), d.session, 0)
    BY DEF AuthReq
  <2>. HIDE DEF path
  <2>3. New(Req(path, job, LoadInstallation(k), d.session, 0), A)
    BY <1>2, <2>1, ReqFacts
  <2>. QED  BY <2>2, <2>3
<1>. QED  BY <1>1, <1>3, <1>4 DEF CallReq

LEMMA CallKeeps ==
    ASSUME Ctx, NEW d, NEW k, NEW A, 0 \in A, Safe(d, k, A), NEW job, JobOK(job), job.n = 0,
           NEW e, Good(e, A), NEW f, Good(f, A)
    PROVE  Good(Call(d, k, job, e, f), A)
<1>1. ASSUME HasUser(d) PROVE Good(Effect(d, k, <<CallReq(d, k, job)>>), A)
  BY <1>1, CallReqSound, SendsOne
<1>. QED  BY <1>1 DEF Call

\* The request of ensureSession, of a job that comes again only without a session.
LEMMA SendAuthKeeps ==
    ASSUME Ctx, NEW d, NEW k, NEW A, 0 \in A, Safe(d, k, A), NEW job, JobOK(job),
           job.n # 0 => d.session = 0, LoadInstallation(k) # 0
    PROVE  Good(SendAuth(d, k, job), A)
<1>1. Mine(0) /\ Mine(d.session) /\ Mine(LoadInstallation(k)) /\ Ours(k)
  BY MineZero, InstallationMine DEF Safe, Ours
<1>2. New(AuthReq(d, k, job), A)
  <2>. DEFINE path == IF d.session # 0 THEN "refresh" ELSE "session"
  <2>1. path \in Paths /\ path # "bootstrap" /\ (job.n # 0 => path = "session")
    BY DEF Paths
  <2>2. AuthReq(d, k, job) = Req(path, job, LoadInstallation(k), d.session, 0)
    BY DEF AuthReq
  <2>. HIDE DEF path
  <2>3. New(Req(path, job, LoadInstallation(k), d.session, 0), A)
    BY <1>1, <2>1, ReqFacts
  <2>. QED  BY <2>2, <2>3
<1>. QED  BY <1>1, <1>2, SendsOne DEF SendAuth

LEMMA SendUserKeeps ==
    ASSUME Ctx, NEW d, NEW k, NEW A, 0 \in A, Safe(d, k, A), HasUser(d),
           NEW path \in Paths \ {"bootstrap"}
    PROVE  Good(SendUser(d, k, path), A)
<1>1. Mine(0) /\ Mine(Bearer(d)) /\ Mine(d.user) /\ d.user \in A /\ Ours(k)
  BY MineZero DEF Safe, Bearer, Silent, HasUser
<1>2. New(Req(path, NoJob, 0, Bearer(d), d.user), A)
  BY <1>1, ReqFacts, NoJobOK
<1>. QED  BY <1>1, <1>2, SendsOne DEF SendUser

LEMMA SendPublicKeeps ==
    ASSUME Ctx, NEW d, NEW k, NEW A, 0 \in A, Safe(d, k, A),
           NEW path \in Paths \ {"bootstrap"}, ValidSession(d) \/ path = "signup"
    PROVE  Good(SendPublic(d, k, path), A)
<1>1. Mine(0) /\ Mine(Bearer(d)) /\ (Ours(k) \/ path = "signup")
  BY MineZero DEF Safe, Bearer, Silent, ValidSession
<1>2. New(Req(path, NoJob, 0, Bearer(d), 0), A)
  BY <1>1, ReqFacts, NoJobOK
<1>3. Req(path, NoJob, 0, Bearer(d), 0).path = path
  BY DEF Req
<1>. QED  BY <1>1, <1>2, <1>3, SendsOne DEF SendPublic

\* A repaint changes nothing else.
LEMMA RepaintKeeps ==
    ASSUME Ctx, NEW e, NEW A, Good(e, A), NEW said \in {"", "busy", "refused", "storage"}
    PROVE  Good(Effect(RefreshUi(e.d, said), e.k, e.out), A)
<1>1. /\ RefreshUi(e.d, said) \in Docks /\ RefreshUi(e.d, said).user = e.d.user
      /\ RefreshUi(e.d, said).session = e.d.session /\ RefreshUi(e.d, said).open = e.d.open
  BY RefreshUiFacts DEF Good, Safe
<1>2. Safe(RefreshUi(e.d, said), e.k, A)
  BY <1>1 DEF Good, Safe, Silent
<1>. QED  BY <1>2 DEF Good, Effect

LEMMA RepaintedKeeps ==
    ASSUME Ctx, NEW d, NEW k, NEW A, Safe(d, k, A),
           NEW said \in {"", "busy", "refused", "storage"}
    PROVE  Good(Leave(RefreshUi(d, said), k), A) /\ Safe(RefreshUi(d, said), k, A)
<1>1. /\ RefreshUi(d, said) \in Docks /\ RefreshUi(d, said).user = d.user
      /\ RefreshUi(d, said).session = d.session /\ RefreshUi(d, said).open = d.open
  BY RefreshUiFacts DEF Safe
<1>2. Safe(RefreshUi(d, said), k, A)
  BY <1>1 DEF Safe, Silent
<1>. QED  BY <1>2, Leaves

LEMMA SilentRevalidateKeeps ==
    ASSUME Ctx, NEW d, NEW k, NEW A, 0 \in A, Safe(d, k, A)
    PROVE  Good(SilentRevalidate(d, k), A)
<1>. DEFINE e == Restore(d, k)
            f == RefreshUi(e.d, "")
<1>1. CASE ~d.managed
  BY <1>1, Leaves DEF SilentRevalidate
<1>2. CASE d.managed
  <2>1. Good(e, A) /\ e.d \in Docks /\ e.out = <<>>
    BY RestoreKeeps
  <2>2. Good(Effect(f, e.k, e.out), A)
    BY <2>1, RepaintKeeps
  <2>3. Safe(f, e.k, A)
    BY <2>2 DEF Good, Effect
  <2>4. SilentRevalidate(d, k) = IF HasUser(f) THEN SendUser(f, e.k, "me") ELSE Leave(f, e.k)
    BY <1>2 DEF SilentRevalidate
  <2>. HIDE DEF e, f
  <2>5. "me" \in Paths \ {"bootstrap"}
    BY DEF Paths
  <2>. QED  BY <2>3, <2>4, <2>5, SendUserKeeps, Leaves
<1>. QED  BY <1>1, <1>2

-----------------------------------------------------------------------------
(* The answers.                                                            *)

LEMMA StopFacts ==
    ASSUME NEW d \in Docks
    PROVE  /\ Stop(d) \in Docks /\ Stop(d).open = d.open /\ Stop(d).user = d.user
           /\ Stop(d).session = d.session
BY DEF Stop, Docks

LEMMA StopKeeps ==
    ASSUME Ctx, NEW d, NEW k, NEW A, Safe(d, k, A)
    PROVE  Safe(Stop(d), k, A)
BY StopFacts, Moves DEF Safe

LEMMA ConnectedKeeps ==
    ASSUME Ctx, NEW d, NEW k, NEW A, 0 \in A, Safe(d, k, A), NEW p \in Platforms
    PROVE  Good(Connected(d, k, p), A)
<1>. DEFINE e == [d EXCEPT !.conn = @ \union {p}]
<1>1. e \in Docks /\ e.open /\ e.user = d.user /\ e.session = d.session
  BY DEF Safe, Docks
<1>. HIDE DEF e
<1>. QED  BY <1>1, SaveMoves DEF Connected, e

LEMMA LostKeeps ==
    ASSUME Ctx, NEW d, NEW k, NEW A, 0 \in A, Safe(d, k, A), NEW p
    PROVE  Good(Lost(d, k, p), A)
<1>. DEFINE e == [d EXCEPT !.conn = @ \ {p}]
<1>1. e \in Docks /\ e.open /\ e.user = d.user /\ e.session = d.session
  BY DEF Safe, Docks
<1>2. Lost(d, k, p) = Leave(RefreshUi(e, ""), SaveStore(e, k))
  BY DEF Lost
<1>. HIDE DEF e
<1>3. Safe(e, SaveStore(e, k), A)
  BY <1>1, SaveMoves
<1>. QED  BY <1>2, <1>3, RepaintedKeeps

LEMMA ErasedKeeps ==
    ASSUME Ctx, NEW d, NEW k, NEW A, 0 \in A, Safe(d, k, A)
    PROVE  Good(Erased(d, k), A)
<1>. DEFINE e == [d EXCEPT !.conn = {}, !.session = 0, !.good = FALSE]
            n == [Loaded(k) EXCEPT !.install = 0]
            m == Saved(k, n)
            r == Req("revoke", NoJob, 0, d.session, 0)
<1>1. e \in Docks /\ e.open /\ e.user = d.user /\ e.session = 0
  BY Zero DEF Safe, Docks
<1>2. /\ Bound(Loaded(k)) /\ Login(Loaded(k)) = Login(k)
      /\ (Ours(k) => Ours(Loaded(k))) /\ Loaded(k).url = k.url
  BY LoadedFacts DEF Safe
<1>3. n \in Files /\ n.install = 0 /\ n.user = Loaded(k).user /\ n.url = Loaded(k).url
  <2>. DEFINE l == Loaded(k)
  <2>1. l \in Files
    BY <1>2 DEF Bound
  <2>. HIDE DEF l
  <2>2. [l EXCEPT !.install = 0] \in Files /\ [l EXCEPT !.install = 0].install = 0
        /\ [l EXCEPT !.install = 0].user = l.user /\ [l EXCEPT !.install = 0].url = l.url
    BY <2>1, Zero DEF Files
  <2>. QED  BY <2>2 DEF l
<1>. HIDE DEF n
<1>4. Login(n) = Login(Loaded(k)) /\ Bound(n) /\ (Ours(k) => Ours(n))
  <2>1. Mine(0)
    BY MineZero
  <2>2. Login(n) = Login(Loaded(k))
    BY <1>2, <1>3 DEF Login, Loaded, Stale, Files, Bound
  <2>. QED  BY <1>2, <1>3, <2>1, <2>2 DEF Bound, Ours, Mine
<1>5. Safe(e, m, A) /\ (Ours(k) => Ours(m))
  BY <1>1, <1>2, <1>4, MineZero DEF Safe, Silent, Saved
<1>6. Safe(e, SaveStore(e, m), A) /\ (Ours(k) => Ours(SaveStore(e, m)))
  BY <1>5, SaveStoreKeeps
<1>7. Erased(d, k) = Effect(e, SaveStore(e, m), IF d.session = 0 THEN <<>> ELSE <<r>>)
  BY DEF Erased, n
<1>8. CASE d.session = 0
  BY <1>6, <1>7, <1>8, Leaves DEF Leave
<1>9. CASE d.session # 0
  <2>1. Ours(k) /\ Mine(d.session) /\ Mine(0)
    BY <1>9, MineZero DEF Safe, Silent
  <2>2. New(r, A)
    BY <2>1, ReqFacts, NoJobOK DEF Paths
  <2>. HIDE DEF e, m, r
  <2>. QED  BY <1>6, <1>7, <1>9, <2>1, <2>2, SendsOne
<1>. QED  BY <1>8, <1>9

LEMMA AccountErasedKeeps ==
    ASSUME Ctx, NEW d, NEW k, NEW A, 0 \in A, Safe(d, k, A)
    PROVE  Good(AccountErased(d, k), A)
<1>. DEFINE c == ClearUser(d, k)
            e == Erased(c.d, c.k)
<1>1. Safe(c.d, c.k, A)
  BY ClearUserKeeps
<1>2. Good(e, A)
  BY <1>1, ErasedKeeps
<1>3. AccountErased(d, k) = Effect(RefreshUi(e.d, ""), e.k, e.out)
  BY DEF AccountErased
<1>. HIDE DEF e
<1>. QED  BY <1>2, <1>3, RepaintKeeps

LEMMA AnswerKeeps ==
    ASSUME Ctx, NEW d, NEW k, NEW A, 0 \in A, Safe(d, k, A), NEW job, JobOK(job), NEW r
    PROVE  Good(Answer(d, k, job, r), A)
<1>1. Good(Leave(d, k), A)
  BY Leaves
<1>2. CASE job.do = "browser"
  <2>. DEFINE e == [d EXCEPT !.pollFor = job.p, !.pollsLeft = Polls]
  <2>1. e \in Docks /\ e.open = d.open /\ e.user = d.user /\ e.session = d.session
    <3>1. job.p \in Platforms \union {None} /\ Polls \in 0..Polls
      BY ClientAssumption DEF JobOK, Jobs
    <3>. QED  BY <3>1 DEF Safe, Docks
  <2>. HIDE DEF e
  <2>2. Safe(e, k, A) /\ Safe(Stop(d), k, A)
    <3>1. e.open /\ e.session \in {0, d.session}
      BY <2>1 DEF Safe
    <3>. QED  BY <2>1, <3>1, Moves, StopKeeps
  <2>3. Answer(d, k, job, r) \in {Leave(d, k), Leave(e, k), Leave(Stop(d), k)}
    BY <1>2 DEF Answer, e
  <2>. QED  BY <1>1, <2>2, <2>3, Leaves
<1>3. CASE job.do = "poll"
  <2>1. job.p \in Platforms /\ Safe(Stop(d), k, A)
    BY <1>3, StopKeeps DEF JobOK
  <2>2. Answer(d, k, job, r) \in
          {Connected(Stop(d), k, job.p), Lost(Stop(d), k, job.p), Leave(d, k)}
    BY <1>3 DEF Answer
  <2>. QED  BY <1>1, <2>1, <2>2, ConnectedKeeps, LostKeeps
<1>4. CASE job.do \in {"restatus", "apply"}
  <2>1. Answer(d, k, job, r) \in {Leave(d, SaveStore(d, k)), Lost(d, k, job.p), Leave(d, k)}
    BY <1>4 DEF Answer
  <2>2. Good(Leave(d, SaveStore(d, k)), A)
    BY SaveStoreKeeps, Leaves
  <2>. QED  BY <1>1, <2>1, <2>2, LostKeeps
<1>5. CASE job.do \in {"erase", "eraseAccount"}
  <2>1. Answer(d, k, job, r) \in
          {Erased(d, k), AccountErased(d, k), Leave(RefreshUi(d, ""), k), Leave(d, k)}
    BY <1>5 DEF Answer
  <2>2. Good(Leave(RefreshUi(d, ""), k), A)
    BY RepaintedKeeps
  <2>. QED  BY <1>1, <2>1, <2>2, ErasedKeeps, AccountErasedKeeps
<1>6. CASE job.do \notin {"browser", "poll", "restatus", "apply", "erase", "eraseAccount"}
  <2>1. Answer(d, k, job, r) = Leave(d, k)
    BY <1>6 DEF Answer
  <2>. QED  BY <1>1, <2>1
<1>. QED  BY <1>2, <1>3, <1>4, <1>5, <1>6

LEMMA AnsweredKeeps ==
    ASSUME Ctx, NEW d, NEW k, NEW A, 0 \in A, Safe(d, k, A), NEW job, JobOK(job), NEW r
    PROVE  Good(Answered(d, k, job, r), A)
<1>1. CASE job.do # "status"
  BY <1>1, AnswerKeeps DEF Answered
<1>2. CASE job.do = "status"
  <2>1. job.p \in Platforms
    BY <1>2 DEF JobOK
  <2>2. Good(Browser(d, k, job.p), A)
    <3>1. JobOK(Job("browser", job.p)) /\ Job("browser", job.p).n = 0
      BY <2>1, JobFacts DEF Calls
    <3>2. /\ Good(Answer(d, k, Job("browser", job.p), "unauth"), A)
          /\ Good(Answer(d, k, Job("browser", job.p), "storage"), A)
      BY <3>1, AnswerKeeps
    <3>3. Good(Leave(d, k), A)
      BY Leaves
    <3>. QED  BY <3>1, <3>2, <3>3, CallKeeps DEF Browser
  <2>3. Good(Leave(d, k), A) /\ Good(Connected(d, k, job.p), A)
    BY <2>1, Leaves, ConnectedKeeps
  <2>. QED  BY <1>2, <2>2, <2>3 DEF Answered
<1>. QED  BY <1>1, <1>2

LEMMA AskKeeps ==
    ASSUME Ctx, NEW d, NEW k, NEW A, 0 \in A, Safe(d, k, A), NEW job, JobOK(job), job.n = 0
    PROVE  Good(Ask(d, k, job), A)
BY AnsweredKeeps, CallKeeps DEF Ask

LEMMA LoginDoneKeeps ==
    ASSUME Ctx, NEW d, NEW k, NEW A, 0 \in A, Safe(d, k, A), NEW r
    PROVE  Good(LoginDone(d, k, r), A)
<1>1. Good(Leave(d, k), A) /\ Safe(RefreshUi(d, ""), k, A)
      /\ Good(Leave(RefreshUi(d, "storage"), k), A)
      /\ Good(Leave(RefreshUi(d, "refused"), k), A)
  BY Leaves, RepaintedKeeps
<1>2. Good(SilentRevalidate(RefreshUi(d, ""), k), A)
  BY <1>1, SilentRevalidateKeeps
<1>. QED  BY <1>1, <1>2 DEF LoginDone

LEMMA SetToSeqFacts ==
    ASSUME NEW S, IsFiniteSet(S)
    PROVE  /\ DOMAIN SetToSeq(S) = 1..Cardinality(S) /\ Cardinality(S) \in Nat
           /\ \A i \in DOMAIN SetToSeq(S) : SetToSeq(S)[i] \in S
<1>1. Cardinality(S) \in Nat
  BY FS_CardinalityType
<1>2. ExistsBijection(1..Cardinality(S), S)
  BY FS_CardinalityType
<1>3. Bijection(1..Cardinality(S), S) # {}
  BY <1>2 DEF ExistsBijection
<1>4. PICK f \in Bijection(1..Cardinality(S), S) : TRUE
  BY <1>3
<1>5. f \in [1..Cardinality(S) -> S] /\ IsInjective(f)
  BY <1>4 DEF Bijection, Injection
<1>6. SetToSeq(S) \in [1..Cardinality(S) -> S]
  BY <1>5 DEF SetToSeq
<1>. QED  BY <1>1, <1>6

LEMMA RestatusKeeps ==
    ASSUME Ctx, NEW d, NEW k, NEW A, 0 \in A, Safe(d, k, A)
    PROVE  Good(RestatusAll(d, k), A)
<1>. DEFINE ps == SetToSeq(d.conn)
            none == [d EXCEPT !.conn = {}]
            out == [i \in DOMAIN ps |-> CallReq(d, k, Job("restatus", ps[i]))]
<1>1. Good(Leave(d, k), A)
  BY Leaves
<1>2. Good(Leave(RefreshUi(none, ""), SaveStore(none, k)), A)
  <2>1. none \in Docks /\ none.open /\ none.user = d.user /\ none.session = d.session
    BY DEF Safe, Docks
  <2>. HIDE DEF none
  <2>. QED  BY <2>1, SaveMoves, RepaintedKeeps
<1>3. CASE HasUser(d)
  <2>1. IsFiniteSet(d.conn) /\ d.conn \subseteq Platforms
    BY ClientAssumption, FS_Subset DEF Safe, Docks
  <2>. DEFINE n == Cardinality(d.conn)
  <2>2. DOMAIN ps = 1..n /\ n \in Nat /\ \A i \in DOMAIN ps : ps[i] \in Platforms
    <3>1. DOMAIN ps = 1..n /\ n \in Nat /\ \A i \in DOMAIN ps : ps[i] \in d.conn
      BY <2>1, SetToSeqFacts
    <3>. QED  BY <2>1, <3>1
  <2>. HIDE DEF ps, n
  <2>3. ASSUME NEW i \in DOMAIN ps PROVE New(CallReq(d, k, Job("restatus", ps[i])), A)
    <3>1. ps[i] \in Platforms \union {None} /\ "restatus" \in Outers \union Calls \union {"none"}
      BY <2>2 DEF Calls
    <3>2. JobOK(Job("restatus", ps[i])) /\ Job("restatus", ps[i]).n = 0
      BY <3>1, JobFacts
    <3>. QED  BY <1>3, <3>2, CallReqSound
  <2>4. out \in [1..n -> Reqs] /\ \A i \in DOMAIN out : New(out[i], A)
    BY <2>2, <2>3 DEF New, Sound
  <2>5. out \in Seq(Reqs)
    BY <2>2, <2>4
  <2>6. Ours(k)
    BY <1>3 DEF Safe, Silent, HasUser
  <2>7. Good(Effect(d, k, out), A)
    BY <2>4, <2>5, <2>6 DEF Good, Effect
  <2>. HIDE DEF out
  <2>. QED  BY <1>1, <1>2, <2>7 DEF RestatusAll, out, ps
<1>4. CASE ~HasUser(d)
  BY <1>1, <1>2, <1>4 DEF RestatusAll
<1>. QED  BY <1>3, <1>4

\* A connect that comes again has an installation.
LEMMA EnsuredKeeps ==
    ASSUME Ctx, NEW d, NEW k, NEW A, 0 \in A, Safe(d, k, A), NEW job, JobOK(job), NEW r,
           job.do = "connect" => Ours(k), r = "storage" => job.n = 0
    PROVE  Good(Ensured(d, k, job, r), A)
<1>1. Good(Leave(d, k), A)
  BY Leaves
<1>2. CASE job.do = "login"
  <2>1. ValidSession(d) => Good(SendPublic(d, k, "login"), A)
    BY SendPublicKeeps DEF Paths
  <2>2. Good(LoginDone(d, k, r), A)
    BY LoginDoneKeeps
  <2>. QED  BY <1>2, <2>1, <2>2 DEF Ensured
<1>3. CASE job.do = "connect"
  <2>1. job.p \in Platforms
    BY <1>3 DEF JobOK
  <2>2. Good(Ask(d, k, Job("status", job.p)), A)
    <3>1. "status" \in Calls
      BY DEF Calls
    <3>2. JobOK(Job("status", job.p)) /\ Job("status", job.p).n = 0
      BY <2>1, <3>1, JobFacts
    <3>. QED  BY <3>2, AskKeeps
  <2>3. r = "storage" => Good(Effect(d, k, <<Req("bootstrap", job, 0, 0, 0)>>), A)
    <3>1. Mine(0) /\ "bootstrap" \in Paths
      BY MineZero DEF Paths
    <3>2. r = "storage" => New(Req("bootstrap", job, 0, 0, 0), A)
      BY <1>3, <3>1, ReqFacts
    <3>. QED  BY <1>3, <3>2, SendsOne
  <2>4. Good(Leave(Stop(d), k), A)
    BY StopKeeps, Leaves
  <2>. QED  BY <1>1, <1>3, <2>2, <2>3, <2>4 DEF Ensured
<1>4. CASE job.do = "revalidate"
  <2>1. Good(RestatusAll(d, k), A)
    BY RestatusKeeps
  <2>. QED  BY <1>1, <1>4, <2>1 DEF Ensured
<1>5. CASE job.do \in {"disconnecting", "erasing", "erasingAccount"}
  <2>1. job.p \in Platforms \union {None}
    BY DEF JobOK, Jobs
  <2>2. /\ JobOK(Job("disconnect", job.p)) /\ Job("disconnect", job.p).n = 0
        /\ JobOK(Job("erase", None)) /\ Job("erase", None).n = 0
        /\ JobOK(Job("eraseAccount", None)) /\ Job("eraseAccount", None).n = 0
    BY <2>1, JobFacts DEF Calls
  <2>3. /\ Good(Ask(d, k, Job("disconnect", job.p)), A)
        /\ Good(Ask(d, k, Job("erase", None)), A)
        /\ Good(Ask(d, k, Job("eraseAccount", None)), A)
    BY <2>2, AskKeeps
  <2>. QED  BY <1>1, <1>5, <2>3 DEF Ensured
<1>6. CASE job.do \notin {"login", "connect", "revalidate", "disconnecting", "erasing",
                          "erasingAccount"}
  BY <1>1, <1>6 DEF Ensured
<1>. QED  BY <1>2, <1>3, <1>4, <1>5, <1>6

LEMMA EnsureKeeps ==
    ASSUME Ctx, NEW d, NEW k, NEW A, 0 \in A, Safe(d, k, A), NEW job, JobOK(job),
           job.do = "connect" => Ours(k),
           job.n # 0 => d.session = 0 /\ LoadInstallation(k) # 0
    PROVE  Good(Ensure(d, k, job), A)
<1>1. Good(Ensured(d, k, job, "ok"), A)
  BY EnsuredKeeps
<1>2. LoadInstallation(k) = 0 => Good(Ensured(d, k, job, "storage"), A)
  BY EnsuredKeeps
<1>3. LoadInstallation(k) # 0 => Good(SendAuth(d, k, job), A)
  BY SendAuthKeeps
<1>. QED  BY <1>1, <1>2, <1>3 DEF Ensure

LEMMA ResumeKeeps ==
    ASSUME Ctx, NEW d, NEW k, NEW A, 0 \in A, Safe(d, k, A), NEW job, JobOK(job), NEW r,
           Ours(k), r = "storage" => job.n = 0
    PROVE  Good(Resume(d, k, job, r), A)
<1>1. Good(Ensured(d, k, job, r), A)
  BY EnsuredKeeps
<1>2. Good(Answered(d, k, job, r), A) /\ Good(Answered(d, k, job, "empty"), A)
  BY AnsweredKeeps
<1>3. job.do \notin Outers => Good(SendApi(d, k, job), A)
  <2>1. job.do \notin Outers => job.n = 0
    BY DEF JobOK, Outers
  <2>2. Mine(0) /\ Mine(d.session) /\ Mine(d.user) /\ d.user \in A /\ "api" \in Paths
    BY MineZero DEF Safe, Paths
  <2>3. job.do \notin Outers => New(ApiReq(d, job), A)
    BY <2>1, <2>2, ReqFacts DEF ApiReq
  <2>. QED  BY <2>3, SendsOne DEF SendApi
<1>. QED  BY <1>1, <1>2, <1>3 DEF Resume

LEMMA StartConnectKeeps ==
    ASSUME Ctx, NEW d, NEW k, NEW A, 0 \in A, Safe(d, k, A), NEW job, JobOK(job),
           job.n # 0 => d.session = 0 /\ LoadInstallation(k) # 0
    PROVE  Good(StartConnect(d, k, job), A)
<1>1. Good(Leave(d, k), A)
  BY Leaves
<1>2. HasUser(d) => Ours(k)
  BY DEF Safe, Silent, HasUser
<1>3. HasUser(d) => Good(Ensure(d, k, job), A)
  BY <1>2, EnsureKeeps
<1>. QED  BY <1>1, <1>3 DEF StartConnect
-----------------------------------------------------------------------------
(* The replies.                                                            *)

LEMMA StoreSessionKeeps ==
    ASSUME Ctx, NEW d, NEW k, NEW A, Safe(d, k, A), Ours(k), NEW id, Mine(id)
    PROVE  Safe(StoreSession(d, id), k, A)
<1>. DEFINE e == [d EXCEPT !.session = id, !.good = TRUE]
<1>1. e \in Docks /\ e.open = d.open /\ e.user = d.user /\ e.session = id
  BY MineSecret DEF Safe, Docks
<1>. HIDE DEF e
<1>2. Safe(e, k, A)
  BY <1>1 DEF Safe
<1>. QED  BY <1>2 DEF StoreSession, e

LEMMA ForgetKeeps ==
    ASSUME Ctx, NEW d, NEW k, NEW A, Safe(d, k, A)
    PROVE  LET e == [d EXCEPT !.session = 0, !.good = FALSE]
           IN Safe(e, k, A) /\ e.session = 0
<1>. DEFINE e == [d EXCEPT !.session = 0, !.good = FALSE]
<1>1. e \in Docks /\ e.open = d.open /\ e.user = d.user /\ e.session = 0
  BY Zero DEF Safe, Docks
<1>. HIDE DEF e
<1>2. Safe(e, k, A)
  BY <1>1, Moves DEF Safe
<1>. QED  BY <1>1, <1>2 DEF e

LEMMA RefreshedKeeps ==
    ASSUME Ctx, NEW d, NEW k, NEW A, 0 \in A, Safe(d, k, A), Ours(k), NEW r, Sound(r),
           r.path = "refresh"
    PROVE  Good(Refreshed(d, k, r), A)
<1>1. JobOK(r.job) /\ r.job.n = 0 /\ Mine(r.got) /\ Mine(0)
  BY MineZero DEF Sound
<1>. DEFINE e == IF r.got = 0 THEN d ELSE StoreSession(d, r.got)
<1>2. Safe(e, k, A)
  BY <1>1, StoreSessionKeeps
<1>3. Good(Resume(e, k, r.job, "ok"), A)
  BY <1>1, <1>2, ResumeKeeps
<1>4. Good(Resume(d, k, r.job, r.ans), A) /\ Good(Resume(d, k, r.job, "storage"), A)
  BY <1>1, ResumeKeeps
<1>5. Good(Effect(d, k, <<Req("session", r.job, LoadInstallation(k), 0, 0)>>), A)
  <2>1. Mine(LoadInstallation(k)) /\ "session" \in Paths
    BY InstallationMine DEF Safe, Paths
  <2>2. New(Req("session", r.job, LoadInstallation(k), 0, 0), A)
    BY <1>1, <2>1, ReqFacts
  <2>. QED  BY <2>2, SendsOne
<1>. QED  BY <1>3, <1>4, <1>5 DEF Refreshed

LEMMA FreshKeeps ==
    ASSUME Ctx, NEW d, NEW k, NEW A, 0 \in A, Safe(d, k, A), Ours(k), NEW r, Sound(r)
    PROVE  Good(Fresh(d, k, r), A)
<1>1. JobOK(r.job) /\ Mine(r.got) /\ r.ans # "storage"
  BY DEF Sound, Reqs
<1>. DEFINE e == [d EXCEPT !.session = 0, !.good = FALSE]
<1>2. Safe(StoreSession(d, r.got), k, A)
  BY <1>1, StoreSessionKeeps
<1>3. Good(Resume(StoreSession(d, r.got), k, r.job, "ok"), A)
  BY <1>1, <1>2, ResumeKeeps
<1>4. Safe(e, k, A)
  BY ForgetKeeps
<1>. HIDE DEF e
<1>5. Good(Resume(e, k, r.job, r.ans), A)
  BY <1>1, <1>4, ResumeKeeps
<1>. QED  BY <1>3, <1>5 DEF Fresh, e

\* What is written under the binding of this start keeps what was under it.
Installed(k, id) == [Loaded(k) EXCEPT !.install = id, !.url = url]
LEMMA InstalledKeeps ==
    ASSUME Ctx, NEW d, NEW k, NEW A, Safe(d, k, A), Ours(k), NEW id, Mine(id)
    PROVE  /\ Safe(d, Installed(k, id), A)
           /\ Installed(k, id).url = url /\ Installed(k, id).install = id
<1>. DEFINE l == Loaded(k)
            n == [l EXCEPT !.install = id, !.url = url]
<1>1. Bound(l) /\ Login(l) = Login(k) /\ Ours(l)
  BY LoadedFacts DEF Safe
<1>2. n \in Files /\ n.install = id /\ n.user = l.user /\ n.url = url
  <2>1. l \in Files
    BY <1>1 DEF Bound
  <2>. HIDE DEF l
  <2>. QED  BY <2>1, MineSecret DEF Files, Ctx
<1>3. Login(n) = Login(l)
  <2>. HIDE DEF n, l
  <2>. QED  BY <1>1, <1>2 DEF Login, Loaded, Stale, Files, Bound
<1>. HIDE DEF n, l
<1>4. Bound(n) /\ Ours(n)
  BY <1>1, <1>2 DEF Bound, Ours, Mine
<1>5. Safe(d, n, A)
  BY <1>1, <1>3, <1>4 DEF Safe
<1>. QED  BY <1>2, <1>5 DEF n, l, Installed

LEMMA BootstrappedKeeps ==
    ASSUME Ctx, NEW d, NEW k, NEW A, 0 \in A, Safe(d, k, A), Ours(k), NEW r, Sound(r),
           r.path = "bootstrap"
    PROVE  Good(Bootstrapped(d, k, r), A)
<1>. DEFINE n == Installed(k, r.got)
            e == [d EXCEPT !.session = 0, !.good = FALSE]
            again == [r.job EXCEPT !.n = @ + 1]
<1>1. Good(Leave(IF d.managed THEN Stop(d) ELSE d, k), A)
  <2>1. Good(Leave(Stop(d), k), A) /\ Good(Leave(d, k), A)
    BY StopKeeps, Leaves
  <2>. QED  BY <2>1
<1>2. ASSUME r.ans = "ok", ~full PROVE Good(Bootstrapped(d, k, r), A)
  <2>1. Mine(r.got) /\ r.got # 0
    BY <1>2 DEF Sound
  <2>2. Safe(d, n, A) /\ n.url = url /\ n.install = r.got
    BY <2>1, InstalledKeeps
  <2>. HIDE DEF n
  <2>3. Safe(e, n, A) /\ e.session = 0
    BY <2>2, ForgetKeeps
  <2>4. LoadInstallation(n) # 0
    BY <2>1, <2>2 DEF LoadInstallation
  <2>5. JobOK(again)
    <3>1. r.job.do = "connect" /\ JobOK(r.job)
      BY DEF Sound
    <3>2. again \in Jobs /\ again.do = r.job.do /\ again.p = r.job.p
      BY <3>1 DEF JobOK, Jobs
    <3>. HIDE DEF again
    <3>. QED  BY <3>1, <3>2 DEF JobOK
  <2>6. Bootstrapped(d, k, r) = IF ~e.managed THEN Leave(e, n) ELSE StartConnect(e, n, again)
    BY <1>2 DEF Bootstrapped, PersistInstallation, Saved, n, Installed
  <2>. HIDE DEF e, again
  <2>7. Good(StartConnect(e, n, again), A) /\ Good(Leave(e, n), A)
    BY <2>3, <2>4, <2>5, StartConnectKeeps, Leaves
  <2>. QED  BY <2>6, <2>7
<1>. QED  BY <1>1, <1>2 DEF Bootstrapped

LEMMA LoggedInKeeps ==
    ASSUME Ctx, NEW d, NEW k, NEW A, 0 \in A, Safe(d, k, A), Ours(k), NEW r, Sound(r),
           r.ans = "ok" => r.got \in A /\ r.got # dock.user
    PROVE  Good(LoggedIn(d, k, r), A)
<1>. DEFINE e == [d EXCEPT !.user = r.got]
            l == Loaded(k)
            n == [l EXCEPT !.user = r.got, !.url = url]
<1>1. CASE r.ans # "ok"
  BY <1>1, LoginDoneKeeps DEF LoggedIn
<1>2. CASE r.ans = "ok"
  <2>1. Mine(r.got) /\ r.got \in A /\ r.got # dock.user
    BY <1>2 DEF Sound
  <2>2. e \in Docks /\ e.open = d.open /\ e.user = r.got /\ e.session = d.session
    BY <2>1, MineSecret DEF Safe, Docks
  <2>. HIDE DEF e
  <2>3. CASE full
    <3>1. Safe(e, k, A)
      BY <2>1, <2>2, <2>3 DEF Safe, Ctx
    <3>2. Safe(ClearUser(e, k).d, ClearUser(e, k).k, A)
      BY <3>1, ClearUserKeeps
    <3>3. Good(LoginDone(ClearUser(e, k).d, ClearUser(e, k).k, "storage"), A)
      BY <3>2, LoginDoneKeeps
    <3>. QED  BY <1>2, <2>3, <3>3 DEF LoggedIn, e
  <2>4. CASE ~full
    <3>1. Bound(l) /\ Ours(l)
      BY LoadedFacts DEF Safe
    <3>2. n \in Files /\ n.install = l.install /\ n.user = r.got /\ n.url = url
      <4>1. l \in Files
        BY <3>1 DEF Bound
      <4>. HIDE DEF l
      <4>. QED  BY <2>1, <4>1, MineSecret DEF Files, Ctx
    <3>. HIDE DEF n, l
    <3>3. Bound(n) /\ Ours(n)
      BY <2>1, <3>1, <3>2 DEF Bound, Ours, Mine
    <3>4. Login(n) \in {0, r.got}
      BY <3>2, <3>3, LoadedFacts
    <3>5. Safe(e, n, A)
      BY <2>1, <2>2, <3>3, <3>4 DEF Safe
    <3>6. Good(LoginDone(e, n, "ok"), A)
      BY <3>5, LoginDoneKeeps
    <3>. QED  BY <1>2, <2>4, <3>6 DEF LoggedIn, e, n, l
  <2>. QED  BY <2>3, <2>4
<1>. QED  BY <1>1, <1>2

LEMMA SignedUpKeeps ==
    ASSUME Ctx, NEW d, NEW k, NEW A, 0 \in A, Safe(d, k, A), NEW r
    PROVE  Good(SignedUp(d, k, r), A)
<1>1. JobOK(Job("login", None)) /\ Job("login", None).n = 0 /\ Job("login", None).do = "login"
  BY JobFacts DEF Outers
<1>2. Good(Ensure(d, k, Job("login", None)), A)
  BY <1>1, EnsureKeeps
<1>3. Good(Leave(d, k), A) /\ Good(Leave(RefreshUi(d, "refused"), k), A)
  BY Leaves, RepaintedKeeps
<1>. QED  BY <1>2, <1>3 DEF SignedUp

\* All accounts are dropped, and saved so.
LEMMA DroppedKeeps ==
    ASSUME Ctx, NEW d, NEW k, NEW A, 0 \in A, Safe(d, k, A)
    PROVE  LET e == RefreshUi([d EXCEPT !.conn = {}], "") IN Good(Leave(e, SaveStore(e, k)), A)
<1>. DEFINE none == [d EXCEPT !.conn = {}]
            e == RefreshUi(none, "")
<1>1. none \in Docks /\ none.open = d.open /\ none.user = d.user /\ none.session = d.session
  BY DEF Safe, Docks
<1>. HIDE DEF none
<1>2. e \in Docks /\ e.open = none.open /\ e.user = none.user /\ e.session = none.session
  BY <1>1, RefreshUiFacts
<1>. HIDE DEF e
<1>3. e.open /\ e.user = d.user /\ e.session \in {0, d.session}
  BY <1>1, <1>2 DEF Safe
<1>4. Good(Leave(e, SaveStore(e, k)), A)
  BY <1>2, <1>3, SaveMoves
<1>. QED  BY <1>4 DEF e, none

LEMMA MeAnsweredKeeps ==
    ASSUME Ctx, NEW d, NEW k, NEW A, 0 \in A, Safe(d, k, A), NEW r
    PROVE  Good(MeAnswered(d, k, r), A)
<1>. DEFINE c == IF r.ans = "unauth" THEN ClearUser(d, k) ELSE Leave(d, k)
            job == Job("revalidate", None)
            e == RefreshUi([c.d EXCEPT !.conn = {}], "")
<1>1. Good(c, A)
  BY ClearUserKeeps, Leaves
<1>. HIDE DEF c
<1>2. Safe(c.d, c.k, A) /\ Safe(RefreshUi(c.d, ""), c.k, A)
  <2>1. Safe(c.d, c.k, A)
    BY <1>1 DEF Good
  <2>. QED  BY <2>1, RepaintedKeeps
<1>3. JobOK(job) /\ job.n = 0 /\ job.do = "revalidate"
  BY JobFacts DEF Outers
<1>4. Good(Ensure(RefreshUi(c.d, ""), c.k, job), A)
  <2>. HIDE DEF job
  <2>. QED  BY <1>2, <1>3, EnsureKeeps
<1>5. Good(Leave(e, SaveStore(e, c.k)), A)
  BY <1>2, DroppedKeeps
<1>6. MeAnswered(d, k, r) \in
        {c, Ensure(RefreshUi(c.d, ""), c.k, job), Leave(e, SaveStore(e, c.k))}
  BY DEF MeAnswered, c
<1>. QED  BY <1>1, <1>4, <1>5, <1>6

LEMMA LoggedOutKeeps ==
    ASSUME Ctx, NEW d, NEW k, NEW A, 0 \in A, Safe(d, k, A)
    PROVE  Good(LoggedOut(d, k), A)
<1>. DEFINE c == ClearUser(d, k)
            e == RefreshUi([c.d EXCEPT !.conn = {}], "")
<1>1. Good(c, A) /\ Safe(c.d, c.k, A)
  BY ClearUserKeeps
<1>2. LoggedOut(d, k) \in {c, Leave(e, SaveStore(e, c.k))}
  BY DEF LoggedOut
<1>. HIDE DEF c
<1>3. Good(Leave(e, SaveStore(e, c.k)), A)
  BY <1>1, DroppedKeeps
<1>. QED  BY <1>1, <1>2, <1>3

LEMMA CalledKeeps ==
    ASSUME Ctx, NEW d, NEW k, NEW A, 0 \in A, Safe(d, k, A), NEW r, JobOK(r.job)
    PROVE  Good(Called(d, k, r), A)
<1>. DEFINE f == [d EXCEPT !.session = 0, !.good = FALSE]
            c == IF r.ans # "unauth" THEN Leave(d, k) ELSE ClearUser(f, k)
<1>1. Safe(f, k, A)
  BY ForgetKeeps
<1>2. Good(ClearUser(f, k), A) /\ Good(Leave(d, k), A)
  <2>. HIDE DEF f
  <2>. QED  BY <1>1, ClearUserKeeps, Leaves
<1>3. Safe(c.d, c.k, A)
  <2>. HIDE DEF f
  <2>. QED  BY <1>2 DEF Good
<1>4. Called(d, k, r) = Answered(c.d, c.k, r.job, r.ans)
  BY DEF Called
<1>. HIDE DEF c
<1>. QED  BY <1>3, <1>4, AnsweredKeeps

\* Whatever the reply.
LEMMA DeliveredKeeps ==
    ASSUME Ctx, NEW d, NEW k, NEW A, 0 \in A, Safe(d, k, A), NEW r, Sound(r),
           Ours(k) \/ r.path = "signup", NewLogin(r) => r.got \in A /\ r.got # dock.user
    PROVE  Good(Delivered(d, k, r), A)
<1>1. r.path = "refresh" => Good(Refreshed(d, k, r), A)
  BY RefreshedKeeps
<1>2. r.path = "session" => Good(Fresh(d, k, r), A)
  BY FreshKeeps
<1>3. r.path = "bootstrap" => Good(Bootstrapped(d, k, r), A)
  BY BootstrappedKeeps
<1>4. r.path = "login" => Good(LoggedIn(d, k, r), A)
  BY LoggedInKeeps DEF NewLogin
<1>5. Good(SignedUp(d, k, r), A) /\ Good(MeAnswered(d, k, r), A)
  BY SignedUpKeeps, MeAnsweredKeeps
<1>6. Good(LoggedOut(d, k), A) /\ Good(Leave(d, k), A)
  BY LoggedOutKeeps, Leaves
<1>7. Good(Called(d, k, r), A)
  BY CalledKeeps DEF Sound
<1>. QED  BY <1>1, <1>2, <1>3, <1>4, <1>5, <1>6, <1>7 DEF Delivered

-----------------------------------------------------------------------------
(* The effect of a handler.                                                *)

LEMMA RemoveAtFacts ==
    ASSUME NEW S, NEW w \in Seq(S), NEW i \in DOMAIN w
    PROVE  /\ RemoveAt(w, i) \in Seq(S) /\ Len(RemoveAt(w, i)) = Len(w) - 1
           /\ \A j \in DOMAIN RemoveAt(w, i) :
                /\ j \in 1..(Len(w) - 1)
                /\ RemoveAt(w, i)[j] = w[IF j < i THEN j ELSE j + 1]
<1>1. i \in 1..Len(w) /\ Len(w) \in Nat
  OBVIOUS
<1>2. SubSeq(w, 1, i - 1) \in Seq(S) /\ Len(SubSeq(w, 1, i - 1)) = i - 1
  BY <1>1, SubSeqProperties
<1>3. SubSeq(w, i + 1, Len(w)) \in Seq(S) /\ Len(SubSeq(w, i + 1, Len(w))) = Len(w) - i
  BY <1>1, SubSeqProperties
<1>4. /\ \A j \in 1..(i - 1) : SubSeq(w, 1, i - 1)[j] = w[j]
      /\ \A j \in 1..(Len(w) - i) : SubSeq(w, i + 1, Len(w))[j] = w[i + j]
  BY <1>1, SubSeqProperties
<1>. DEFINE s == SubSeq(w, 1, i - 1)
            t == SubSeq(w, i + 1, Len(w))
<1>5. /\ s \in Seq(S) /\ Len(s) = i - 1 /\ t \in Seq(S) /\ Len(t) = Len(w) - i
      /\ \A j \in 1..(i - 1) : s[j] = w[j]
      /\ \A j \in 1..(Len(w) - i) : t[j] = w[i + j]
  BY <1>2, <1>3, <1>4
<1>6. RemoveAt(w, i) = s \o t
  BY DEF RemoveAt
<1>. HIDE DEF s, t
<1>7. /\ s \o t \in Seq(S) /\ Len(s \o t) = Len(s) + Len(t)
      /\ \A j \in 1..(Len(s) + Len(t)) :
           (s \o t)[j] = IF j <= Len(s) THEN s[j] ELSE t[j - Len(s)]
  BY <1>5, ConcatProperties
<1>8. Len(s) + Len(t) = Len(w) - 1
  BY <1>1, <1>5
<1>9. ASSUME NEW j \in 1..(Len(w) - 1)
      PROVE  (s \o t)[j] = w[IF j < i THEN j ELSE j + 1]
  <2>1. (s \o t)[j] = IF j <= i - 1 THEN s[j] ELSE t[j - (i - 1)]
    BY <1>5, <1>7, <1>8
  <2>2. CASE j < i
    <3>1. j \in 1..(i - 1) /\ j <= i - 1
      BY <1>1, <2>2
    <3>. QED  BY <1>5, <2>1, <2>2, <3>1
  <2>3. CASE ~(j < i)
    <3>1. ~(j <= i - 1) /\ j - (i - 1) \in 1..(Len(w) - i) /\ i + (j - (i - 1)) = j + 1
      BY <1>1, <2>3
    <3>. QED  BY <1>5, <2>1, <2>3, <3>1
  <2>. QED  BY <2>2, <2>3
<1>10. DOMAIN (s \o t) = 1..(Len(w) - 1)
  BY <1>7, <1>8, LenProperties
<1>. QED  BY <1>6, <1>7, <1>8, <1>9, <1>10

LEMMA InCtx == ASSUME IInv PROVE Ctx
BY DEF IInv, TypeOK, EndInv, Ctx

\* No request with a login of ids is added.
Unsent == past.failed \/ Carries(wire', past.ended) <= Carries(wire, past.ended)

Carriers(w, ids) == {i \in DOMAIN w : w[i].user \in ids}

LEMMA CarriesType ==
    ASSUME NEW w \in Seq(Reqs), NEW ids
    PROVE  /\ IsFiniteSet(Carriers(w, ids)) /\ Carries(w, ids) \in Nat
           /\ Carries(w, ids) = Cardinality(Carriers(w, ids))
<1>1. DOMAIN w = 1..Len(w) /\ Len(w) \in Nat
  BY LenProperties
<1>2. IsFiniteSet(1..Len(w)) /\ Carriers(w, ids) \in SUBSET (1..Len(w))
  BY <1>1, FS_Interval DEF Carriers
<1>3. IsFiniteSet(Carriers(w, ids))
  BY <1>2, FS_Subset
<1>. QED  BY <1>3, FS_CardinalityType DEF Carries, Carriers

\* Each that carries one stands for one that did.
LEMMA CarriesLess ==
    ASSUME NEW v \in Seq(Reqs), NEW w \in Seq(Reqs), NEW ids,
           NEW f \in [Carriers(v, ids) -> Carriers(w, ids)],
           \A i, j \in Carriers(v, ids) : f[i] = f[j] => i = j
    PROVE  Carries(v, ids) <= Carries(w, ids)
<1>1. IsInjective(f)
  BY DEF IsInjective
<1>2. f \in Injection(Carriers(v, ids), Carriers(w, ids))
  BY <1>1 DEF Injection
<1>3. Cardinality(Carriers(v, ids)) <= Cardinality(Carriers(w, ids))
  BY <1>2, CarriesType, FS_Injection
<1>. QED  BY <1>3, CarriesType

LEMMA EmptyCarries ==
    ASSUME NEW w \in Seq(Reqs), NEW ids
    PROVE  Carries(<<>>, ids) <= Carries(w, ids)
<1>1. Carriers(<<>>, ids) = {} /\ <<>> \in Seq(Reqs)
  BY DEF Carriers
<1>2. Carries(<<>>, ids) = 0
  BY <1>1, CarriesType, FS_EmptySet
<1>. QED  BY <1>2, CarriesType

LEMMA SameWire == ASSUME IInv, wire' = wire PROVE Unsent
<1>1. Carries(wire, past.ended) \in Nat
  BY CarriesType DEF IInv, WireInv
<1>. QED  BY <1>1 DEF Unsent

\* A handler whose effect is good keeps the invariant and sends no ended login.
LEMMA HandleKeeps ==
    ASSUME IInv, NEW A, NEW e, Good(e, A), NEW rest \in Seq(Reqs),
           \A i \in DOMAIN rest : Sound(rest[i]),
           Ours(disk) \/ \A i \in DOMAIN rest : rest[i].path = "signup",
           past.failed \/ A \cap past.ended = {},
           Carries(rest, past.ended) <= Carries(wire, past.ended),
           \A i \in DOMAIN rest : NewLogin(rest[i]) =>
             /\ rest[i].got \notin past.ended \union A \union {dock.user}
             /\ \A j \in DOMAIN rest : NewLogin(rest[j]) /\ rest[j].got = rest[i].got => i = j,
           Handle(e, rest), UNCHANGED <<url, full, server, old>>
    PROVE  IInv' /\ Unsent
<1>. DEFINE w == rest \o e.out
            over == past.ended \union ({dock.user} \ {0, e.d.user})
<1>1. /\ dock' = e.d /\ disk' = e.k /\ wire' = w /\ past' = [past EXCEPT !.ended = over]
      /\ url' = url /\ full' = full /\ server' = server /\ old' = old
  BY DEF Handle
<1>2. /\ Safe(e.d, e.k, A) /\ e.out \in Seq(Reqs) /\ \A i \in DOMAIN e.out : New(e.out[i], A)
      /\ Ours(e.k) \/ \A i \in DOMAIN e.out : e.out[i].path = "signup"
  BY DEF Good
<1>3. w \in Seq(Reqs)
  BY <1>2, ConcatProperties
<1>4. ASSUME NEW i \in DOMAIN w
      PROVE  \/ i \in DOMAIN rest /\ w[i] = rest[i]
             \/ w[i].ans = "pending" /\ \E j \in DOMAIN e.out : w[i] = e.out[j]
  <2>1. i \in 1..(Len(rest) + Len(e.out)) /\ Len(rest) \in Nat /\ Len(e.out) \in Nat
    BY <1>2, ConcatProperties, LenProperties
  <2>2. w[i] = IF i <= Len(rest) THEN rest[i] ELSE e.out[i - Len(rest)]
    BY <1>2, <2>1, ConcatProperties
  <2>3. CASE i <= Len(rest)
    BY <2>1, <2>2, <2>3, LenProperties
  <2>4. CASE ~(i <= Len(rest))
    <3>1. i - Len(rest) \in DOMAIN e.out
      BY <1>2, <2>1, <2>4, LenProperties
    <3>2. w[i] = e.out[i - Len(rest)] /\ New(e.out[i - Len(rest)], A)
      BY <1>2, <2>2, <2>4, <3>1
    <3>. QED  BY <3>1, <3>2 DEF New
  <2>. QED  BY <2>3, <2>4
<1>. HIDE DEF w, over
<1>5. past \in [ended: SUBSET Secrets, failed: BOOLEAN]
  BY DEF IInv, TypeOK
<1>6. /\ over \subseteq 1..server.issued /\ 1..server.issued \subseteq Secrets
      /\ past'.ended = over /\ past'.failed = past.failed
      /\ past' \in [ended: SUBSET Secrets, failed: BOOLEAN]
  <2>1. dock.user \in 0..server.issued /\ past.ended \subseteq 1..server.issued
    BY DEF IInv, HomeInv, Mine, EndInv
  <2>2. server.issued \in 0..MaxIssued
    BY InCtx DEF Ctx, Servers, MaybeSecret
  <2>3. over \subseteq 1..server.issued
    BY <2>1, <2>2, ClientAssumption DEF over
  <2>4. 1..server.issued \subseteq Secrets
    BY <2>2, ClientAssumption DEF Secrets
  <2>. QED  BY <1>1, <1>5, <2>3, <2>4
<1>7. ASSUME NEW i \in DOMAIN w PROVE Sound(w[i])
  BY <1>2, <1>4 DEF New
<1>8. TypeOK'
  <2>1. e.d \in Docks /\ e.k \in Files
    BY <1>2 DEF Safe, Bound
  <2>2. ASSUME NEW i \in DOMAIN w
        PROVE  /\ w[i].path \in Paths /\ w[i].job.do \in Outers \union Calls \union {"none"}
               /\ w[i].inst \in MaybeSecret /\ w[i].session \in MaybeSecret
               /\ w[i].user \in MaybeSecret
    BY <1>7 DEF Sound, Reqs, Jobs
  <2>. QED  BY <1>1, <1>6, <2>1, <2>2 DEF IInv, TypeOK
<1>9. Shut'
  BY <1>1, <1>2 DEF Shut, Safe
<1>10. WireInv'
  BY <1>1, <1>3, <1>7 DEF WireInv, Sound, Mine
<1>11. HomeInv'
  <2>1. Mine(e.d.session) /\ Mine(e.d.user) /\ Bound(e.k)
    BY <1>2 DEF Safe
  <2>2. Ours(e.k) \/ (Silent(e.d) /\ \A i \in DOMAIN w : w[i].path = "signup")
    BY <1>2, <1>4 DEF Safe
  <2>. QED  BY <1>1, <2>1, <2>2 DEF HomeInv, Mine, Bound, Ours, Silent
<1>12. EndInv'
  <2>1. e.d.user \in A /\ Login(e.k) \in A
        /\ (past.failed \/ (Login(e.k) = dock.user /\ dock.user # 0 => e.d.user = dock.user))
    BY <1>2 DEF Safe
  <2>2. full => past.failed
    BY DEF IInv, EndInv
  <2>3. past.failed \/ (e.d.user \notin over /\ Login(e.k) \notin over)
    BY <2>1 DEF over
  <2>4. Login(disk)' = Login(e.k)
    BY <1>1 DEF Login, Loaded, Stale
  <2>. QED  BY <1>1, <1>6, <2>2, <2>3, <2>4 DEF EndInv
<1>13. FreshInv'
  <2>1. Login(disk)' = Login(e.k)
    BY <1>1 DEF Login, Loaded, Stale
  <2>2. e.d.user \in A /\ Login(e.k) \in A
    BY <1>2 DEF Safe
  <2>3. SUFFICES ASSUME NEW i \in DOMAIN w, NewLogin(w[i])
                 PROVE  /\ w[i].got \notin over \union {e.d.user, Login(e.k)}
                        /\ \A j \in DOMAIN w :
                             NewLogin(w[j]) /\ w[j].got = w[i].got => i = j
    BY <1>1, <1>6, <2>1 DEF FreshInv, NewLogin
  <2>4. ASSUME NEW j \in DOMAIN w, NewLogin(w[j])
        PROVE  j \in DOMAIN rest /\ w[j] = rest[j]
    BY <1>4, <2>4 DEF NewLogin
  <2>5. i \in DOMAIN rest /\ w[i] = rest[i]
    BY <2>3, <2>4
  <2>6. w[i].got \notin over \union {e.d.user, Login(e.k)}
    BY <2>2, <2>3, <2>5 DEF over
  <2>7. ASSUME NEW j \in DOMAIN w, NewLogin(w[j]), w[j].got = w[i].got
        PROVE  i = j
    <3>1. j \in DOMAIN rest /\ w[j] = rest[j]
      BY <2>4, <2>7
    <3>. QED  BY <2>3, <2>5, <2>7, <3>1
  <2>. QED  BY <2>6, <2>7
<1>14. Unsent
  <2>1. SUFFICES ASSUME A \cap past.ended = {}
                 PROVE  Carries(w, past.ended) <= Carries(wire, past.ended)
    BY <1>1 DEF Unsent
  <2>2. Carriers(w, past.ended) \in SUBSET Carriers(rest, past.ended)
    BY <1>2, <1>4, <2>1 DEF Carriers, New
  <2>3. Cardinality(Carriers(w, past.ended)) <= Cardinality(Carriers(rest, past.ended))
    BY <2>2, CarriesType, FS_Subset
  <2>4. Carries(w, past.ended) <= Carries(rest, past.ended)
    BY <1>3, <2>3, CarriesType
  <2>5. /\ Carries(w, past.ended) \in Nat /\ Carries(rest, past.ended) \in Nat
        /\ Carries(wire, past.ended) \in Nat
    BY <1>3, CarriesType DEF IInv, WireInv
  <2>. QED  BY <2>4, <2>5
<1>. QED  BY <1>8, <1>9, <1>10, <1>11, <1>12, <1>13, <1>14 DEF IInv
-----------------------------------------------------------------------------
(* The user, OBS and the replies.                                          *)

\* The logins that a handler meets without a reply.
Known == {0, dock.user, Login(disk)}

LEMMA HereSafe == ASSUME IInv, dock.open PROVE Safe(dock, disk, Known) /\ 0 \in Known /\ Ctx
BY InCtx DEF IInv, TypeOK, HomeInv, Safe, Known

LEMMA EndedNotKnown == ASSUME IInv PROVE past.failed \/ Known \cap past.ended = {}
BY DEF IInv, EndInv, Known

\* What waits stays as it was.
LEMMA PressKeeps ==
    ASSUME IInv, NEW e, Good(e, Known), Handle(e, wire), UNCHANGED <<url, full, server, old>>
    PROVE  IInv' /\ Unsent
<1>1. wire \in Seq(Reqs) /\ \A i \in DOMAIN wire : Sound(wire[i])
  BY DEF IInv, WireInv
<1>2. Ours(disk) \/ \A i \in DOMAIN wire : wire[i].path = "signup"
  BY DEF IInv, HomeInv
<1>3. ASSUME NEW i \in DOMAIN wire, NewLogin(wire[i])
      PROVE  /\ wire[i].got \notin past.ended \union Known \union {dock.user}
             /\ \A j \in DOMAIN wire :
                  NewLogin(wire[j]) /\ wire[j].got = wire[i].got => i = j
  <2>1. wire[i].got # 0
    BY <1>1, <1>3 DEF Sound, NewLogin
  <2>2. wire[i].got \notin past.ended \union {dock.user, Login(disk)}
    BY <1>3 DEF IInv, FreshInv
  <2>3. \A j \in DOMAIN wire : NewLogin(wire[j]) /\ wire[j].got = wire[i].got => i = j
    BY <1>3 DEF IInv, FreshInv
  <2>. QED  BY <2>1, <2>2, <2>3 DEF Known
<1>4. past.failed \/ Known \cap past.ended = {}
  BY EndedNotKnown
<1>5. Carries(wire, past.ended) <= Carries(wire, past.ended)
  BY <1>1, CarriesType
<1>. QED  BY <1>1, <1>2, <1>3, <1>4, <1>5, HandleKeeps

LEMMA PressedKeeps == ASSUME IInv, NEW e, Good(e, Known), Pressed(e) PROVE IInv' /\ Unsent
BY PressKeeps DEF Pressed

LEMMA BusyKeeps ==
    ASSUME Ctx, NEW d, NEW k, NEW A, Safe(d, k, A)
    PROVE  Safe(Busy(d), k, A)
<1>. DEFINE e == [d EXCEPT !.button = FALSE, !.said = "busy"]
<1>1. e \in Docks /\ e.open = d.open /\ e.user = d.user /\ e.session = d.session
  BY DEF Safe, Docks
<1>. HIDE DEF e
<1>2. Safe(e, k, A)
  BY <1>1, Moves DEF Safe
<1>. QED  BY <1>2 DEF Busy, e

LEMMA OpenKeeps == ASSUME IInv, Open PROVE IInv' /\ Unsent
<1>. DEFINE d == [Closed EXCEPT !.open = TRUE, !.managed = disk.managed,
                                !.conn = Loaded(disk).conn]
            e == SilentRevalidate(d, disk)
            f == Effect(RefreshUi(e.d, ""), e.k, e.out)
<1>1. dock = Closed /\ Ctx /\ Bound(disk)
  BY InCtx DEF IInv, Shut, HomeInv, Open
<1>2. dock.user = 0 /\ past.ended \subseteq 1..server.issued
  BY <1>1 DEF Closed, IInv, EndInv
<1>3. /\ d \in Docks /\ d.open /\ d.session = 0 /\ d.user = 0
  <2>1. disk.managed \in BOOLEAN /\ Loaded(disk).conn \in SUBSET Platforms
    BY <1>1, LoadedFacts DEF Bound, Files
  <2>2. 0 \in MaybeSecret /\ 0 \in 0..Polls
    BY Zero, ClientAssumption
  <2>. QED  BY <2>1, <2>2 DEF Closed, Docks
<1>. HIDE DEF d
<1>4. Safe(d, disk, Known)
  BY <1>1, <1>2, <1>3, MineZero DEF Safe, Silent, Known
<1>5. Good(e, Known)
  BY <1>1, <1>4, SilentRevalidateKeeps DEF Known
<1>. HIDE DEF e
<1>6. Good(f, Known)
  BY <1>1, <1>5, RepaintKeeps
<1>7. Handle(f, <<>>) /\ UNCHANGED <<url, full, server, old>>
  BY DEF Open, d, e
<1>. HIDE DEF f
<1>8. past.failed \/ Known \cap past.ended = {}
  BY EndedNotKnown
<1>9. <<>> \in Seq(Reqs) /\ DOMAIN <<>> = {}
  OBVIOUS
<1>10. Carries(<<>>, past.ended) <= Carries(wire, past.ended)
  BY <1>9, EmptyCarries DEF IInv, WireInv
<1>. QED  BY <1>6, <1>7, <1>8, <1>9, <1>10, HandleKeeps

LEMMA QuitKeeps == ASSUME IInv, Quit PROVE IInv' /\ Unsent
<1>1. Ctx /\ Bound(disk)
  BY InCtx DEF IInv, HomeInv
<1>2. Closed \in Docks
  <2>1. 0 \in MaybeSecret /\ 0 \in 0..Polls
    BY Zero, ClientAssumption
  <2>. QED  BY <2>1 DEF Closed, Docks
<1>3. Closed.user = 0 /\ Closed.session = 0 /\ 0 \in 0..server.issued
  BY <1>1, ClientAssumption DEF Closed, Ctx, Servers, MaybeSecret
<1>4. TypeOK'
  BY <1>2 DEF Quit, IInv, TypeOK
<1>5. Shut' /\ WireInv' /\ FreshInv'
  BY DEF Quit, Shut, WireInv, FreshInv
<1>6. HomeInv'
  BY <1>1, <1>3 DEF Quit, HomeInv, Mine, Bound, Silent
<1>7. EndInv'
  BY <1>3 DEF Quit, IInv, EndInv, Login, Loaded, Stale
<1>8. Unsent
  BY EmptyCarries DEF IInv, WireInv, Quit, Unsent
<1>. QED  BY <1>4, <1>5, <1>6, <1>7, <1>8 DEF IInv

LEMMA PollTimeoutKeeps == ASSUME IInv, PollTimeout PROVE IInv' /\ Unsent
<1>1. dock.open
  <2>1. dock.pollFor # None
    BY DEF PollTimeout
  <2>2. Closed.pollFor = None
    BY DEF Closed
  <2>. QED  BY <2>1, <2>2 DEF IInv, Shut
<1>2. Safe(dock, disk, Known) /\ 0 \in Known /\ Ctx
  BY <1>1, HereSafe
<1>. DEFINE d == [dock EXCEPT !.pollsLeft = @ - 1]
            job == Job("poll", dock.pollFor)
<1>3. Safe(Stop(dock), disk, Known)
  BY <1>2, StopKeeps
<1>4. Good(Leave(Stop(dock), disk), Known)
  BY <1>3, Leaves
<1>5. Good(Leave(RefreshUi(Stop(dock), ""), disk), Known)
  BY <1>2, <1>3, RepaintedKeeps
<1>6. ASSUME dock.pollsLeft # 0 PROVE Good(Ask(d, disk, job), Known)
  <2>1. dock.pollFor \in Platforms
    BY <1>2 DEF Safe, Docks, PollTimeout
  <2>2. JobOK(job) /\ job.n = 0
    <3>1. "poll" \in Calls
      BY DEF Calls
    <3>. QED  BY <2>1, <3>1, JobFacts
  <2>3. d \in Docks /\ d.open = dock.open /\ d.user = dock.user /\ d.session = dock.session
    <3>1. dock \in Docks /\ dock.pollsLeft \in 0..Polls
      BY <1>2 DEF Safe, Docks
    <3>2. dock.pollsLeft - 1 \in 0..Polls
      BY <1>6, <3>1, ClientAssumption
    <3>. QED  BY <3>1, <3>2 DEF Docks
  <2>. HIDE DEF d, job
  <2>4. Safe(d, disk, Known)
    BY <1>1, <1>2, <2>3, Moves
  <2>. QED  BY <1>2, <2>2, <2>4, AskKeeps
<1>. DEFINE e == IF ~dock.managed THEN Leave(Stop(dock), disk)
                 ELSE IF ~HasUser(dock) THEN Leave(RefreshUi(Stop(dock), ""), disk)
                 ELSE IF dock.pollsLeft = 0 THEN Leave(Stop(dock), disk)
                 ELSE Ask(d, disk, job)
<1>. HIDE DEF d, job
<1>7. Good(e, Known)
  BY <1>4, <1>5, <1>6
<1>8. Handle(e, wire) /\ UNCHANGED <<url, full, server, old>>
  BY DEF PollTimeout, d, job
<1>. HIDE DEF e
<1>. QED  BY <1>7, <1>8, PressKeeps

LEMMA LoginPressKeeps == ASSUME IInv, PressLogin \/ PressSignup PROVE IInv' /\ Unsent
<1>1. dock.open
  BY DEF PressLogin, PressSignup, Pressed
<1>2. Safe(dock, disk, Known) /\ 0 \in Known /\ Ctx
  BY <1>1, HereSafe
<1>3. Safe(Busy(dock), disk, Known)
  BY <1>2, BusyKeeps
<1>4. JobOK(Job("login", None)) /\ Job("login", None).n = 0 /\ Job("login", None).do = "login"
  BY JobFacts DEF Outers
<1>5. Good(Ensure(Busy(dock), disk, Job("login", None)), Known)
  BY <1>2, <1>3, <1>4, EnsureKeeps
<1>6. Good(SendPublic(Busy(dock), disk, "signup"), Known)
  BY <1>2, <1>3, SendPublicKeeps DEF Paths
<1>. QED  BY <1>5, <1>6, PressedKeeps DEF PressLogin, PressSignup

LEMMA LogoutPressKeeps == ASSUME IInv, PressLogout PROVE IInv' /\ Unsent
<1>1. dock.open /\ HasUser(dock)
  BY DEF PressLogout, Pressed, Managed
<1>2. Good(SendUser(dock, disk, "logout"), Known)
  BY <1>1, HereSafe, SendUserKeeps DEF Paths
<1>. QED  BY <1>2, PressedKeeps DEF PressLogout

LEMMA ErasePressKeeps == ASSUME IInv, PressErase \/ PressEraseAccount PROVE IInv' /\ Unsent
<1>1. dock.open
  BY DEF PressErase, PressEraseAccount, Pressed
<1>2. /\ JobOK(Job("erasing", None)) /\ Job("erasing", None).n = 0
      /\ Job("erasing", None).do = "erasing"
  BY JobFacts DEF Outers
<1>3. /\ JobOK(Job("erasingAccount", None)) /\ Job("erasingAccount", None).n = 0
      /\ Job("erasingAccount", None).do = "erasingAccount"
  BY JobFacts DEF Outers
<1>4. /\ Good(Ensure(dock, disk, Job("erasing", None)), Known)
      /\ Good(Ensure(dock, disk, Job("erasingAccount", None)), Known)
  BY <1>1, <1>2, <1>3, HereSafe, EnsureKeeps
<1>. QED  BY <1>4, PressedKeeps DEF PressErase, PressEraseAccount

LEMMA ModeSwitchKeeps == ASSUME IInv, ModeSwitch PROVE IInv' /\ Unsent
<1>. DEFINE s == [Stop(dock) EXCEPT !.managed = ~@]
            d == RefreshUi(s, "")
<1>1. dock.open
  BY DEF ModeSwitch, Pressed
<1>2. Safe(dock, disk, Known) /\ 0 \in Known /\ Ctx
  BY <1>1, HereSafe
<1>3. s \in Docks /\ s.open = dock.open /\ s.user = dock.user /\ s.session = dock.session
  BY <1>2 DEF Safe, Stop, Docks
<1>. HIDE DEF s
<1>4. d \in Docks /\ d.open = s.open /\ d.user = s.user /\ d.session = s.session
  BY <1>3, RefreshUiFacts
<1>. HIDE DEF d
<1>5. Good(Leave(d, SaveStore(d, disk)), Known)
  BY <1>1, <1>2, <1>3, <1>4, SaveMoves
<1>6. Pressed(Leave(d, SaveStore(d, disk)))
  BY DEF ModeSwitch, d, s
<1>. QED  BY <1>5, <1>6, PressedKeeps

LEMMA AccountPressKeeps ==
    ASSUME IInv, NEW p \in Platforms, PressConnect(p) \/ PressDisconnect(p) \/ PressApply(p)
    PROVE  IInv' /\ Unsent
<1>1. dock.open
  BY DEF PressConnect, PressDisconnect, PressApply, Pressed
<1>2. Safe(dock, disk, Known) /\ 0 \in Known /\ Ctx
  BY <1>1, HereSafe
<1>3. CASE PressConnect(p)
  <2>1. JobOK(Job("connect", p)) /\ Job("connect", p).n = 0
    BY JobFacts DEF Outers
  <2>2. Good(StartConnect(dock, disk, Job("connect", p)), Known)
    BY <1>2, <2>1, StartConnectKeeps
  <2>. QED  BY <1>3, <2>2, PressedKeeps DEF PressConnect
<1>4. CASE PressApply(p)
  <2>1. JobOK(Job("apply", p)) /\ Job("apply", p).n = 0
    BY JobFacts DEF Calls
  <2>2. Good(Ask(dock, disk, Job("apply", p)), Known)
    BY <1>2, <2>1, AskKeeps
  <2>. QED  BY <1>4, <2>2, PressedKeeps DEF PressApply
<1>5. CASE PressDisconnect(p)
  <2>. DEFINE d == [dock EXCEPT !.conn = @ \ {p}]
              k == SaveStore(d, disk)
              job == Job("disconnecting", p)
              e == IF HasUser(d) THEN Ensure(d, k, job) ELSE Leave(d, k)
  <2>1. d \in Docks /\ d.open = dock.open /\ d.user = dock.user /\ d.session = dock.session
    BY <1>2 DEF Safe, Docks
  <2>2. Pressed(e)
    BY <1>5 DEF PressDisconnect
  <2>. HIDE DEF d
  <2>3. Good(Leave(d, k), Known) /\ Safe(d, k, Known)
    BY <1>1, <1>2, <2>1, SaveMoves
  <2>4. JobOK(job) /\ job.n = 0 /\ job.do = "disconnecting"
    BY JobFacts DEF Outers
  <2>. HIDE DEF k, job
  <2>5. Good(Ensure(d, k, job), Known)
    BY <1>2, <2>3, <2>4, EnsureKeeps
  <2>6. Good(e, Known)
    BY <2>3, <2>5
  <2>. HIDE DEF e
  <2>. QED  BY <2>2, <2>6, PressedKeeps
<1>. QED  BY <1>3, <1>4, <1>5

LEMMA ReplyKeeps == ASSUME IInv, NEW i \in DOMAIN wire, Reply(i) PROVE IInv' /\ Unsent
<1>. DEFINE r == wire[i]
            A == Known \union {s \in {r.got} : NewLogin(r)}
            rest == RemoveAt(wire, i)
            e == Delivered(dock, disk, r)
<1>1. wire \in Seq(Reqs) /\ \A j \in DOMAIN wire : Sound(wire[j])
  BY DEF IInv, WireInv
<1>2. dock.open
  BY DEF IInv, Shut
<1>3. Safe(dock, disk, Known) /\ 0 \in Known /\ Ctx
  BY <1>2, HereSafe
<1>4. Safe(dock, disk, A) /\ 0 \in A
  BY <1>3 DEF Safe
<1>5. Sound(r) /\ (Ours(disk) \/ r.path = "signup")
  BY <1>1 DEF IInv, HomeInv
<1>6. NewLogin(r) => r.got \in A /\ r.got \notin past.ended \union {dock.user}
  BY DEF IInv, FreshInv
<1>. HIDE DEF A, r
<1>7. Good(e, A)
  BY <1>3, <1>4, <1>5, <1>6, DeliveredKeeps
<1>8. Handle(e, rest) /\ UNCHANGED <<url, full, server, old>>
  BY DEF Reply, r
<1>9. past.failed \/ A \cap past.ended = {}
  BY <1>6, EndedNotKnown DEF A
<1>. DEFINE at(j) == IF j < i THEN j ELSE j + 1
<1>10. rest \in Seq(Reqs) /\ \A j \in DOMAIN rest :
          j \in 1..(Len(wire) - 1) /\ rest[j] = wire[at(j)]
  BY <1>1, RemoveAtFacts
<1>11. ASSUME NEW j \in DOMAIN rest
       PROVE  at(j) \in DOMAIN wire /\ at(j) # i /\ rest[j] = wire[at(j)] /\ j \in Nat /\ i \in Nat
  <2>1. j \in 1..(Len(wire) - 1) /\ Len(wire) \in Nat /\ DOMAIN wire = 1..Len(wire) /\ i \in Nat
    BY <1>1, <1>10, LenProperties
  <2>. QED  BY <1>10, <2>1
<1>. HIDE DEF e, rest
<1>12. ASSUME NEW j \in DOMAIN rest PROVE Sound(rest[j])
  <2>. HIDE DEF at
  <2>. QED  BY <1>1, <1>11
<1>13. Ours(disk) \/ \A j \in DOMAIN rest : rest[j].path = "signup"
  <2>. HIDE DEF at
  <2>. QED  BY <1>11 DEF IInv, HomeInv
<1>14. ASSUME NEW j \in DOMAIN rest, NewLogin(rest[j])
       PROVE  /\ rest[j].got \notin past.ended \union A \union {dock.user}
              /\ \A m \in DOMAIN rest :
                   NewLogin(rest[m]) /\ rest[m].got = rest[j].got => j = m
  <2>1. at(j) \in DOMAIN wire /\ at(j) # i /\ rest[j] = wire[at(j)]
    BY <1>11
  <2>2. \A m \in DOMAIN rest : at(m) = at(j) => j = m
    BY <1>11, <1>14
  <2>3. \A m \in DOMAIN rest : at(m) \in DOMAIN wire /\ rest[m] = wire[at(m)]
    BY <1>11
  <2>. HIDE DEF at
  <2>4. rest[j].got # 0
    BY <1>12, <1>14 DEF Sound, NewLogin
  <2>5. rest[j].got \notin past.ended \union {dock.user, Login(disk)}
    BY <1>14, <2>1 DEF IInv, FreshInv
  <2>6. NewLogin(r) => rest[j].got # r.got
    BY <1>14, <2>1 DEF IInv, FreshInv, r
  <2>7. \A m \in DOMAIN rest : NewLogin(rest[m]) /\ rest[m].got = rest[j].got => at(j) = at(m)
    BY <1>14, <2>1, <2>3 DEF IInv, FreshInv
  <2>. QED  BY <2>2, <2>4, <2>5, <2>6, <2>7 DEF A, Known
<1>15. Carries(rest, past.ended) <= Carries(wire, past.ended)
  <2>. DEFINE f == [j \in Carriers(rest, past.ended) |-> at(j)]
  <2>1. \A j \in Carriers(rest, past.ended) : at(j) \in Carriers(wire, past.ended)
    <3>. HIDE DEF at
    <3>. QED  BY <1>11 DEF Carriers
  <2>2. \A j, m \in Carriers(rest, past.ended) : at(j) = at(m) => j = m
    BY <1>11 DEF Carriers
  <2>. HIDE DEF at
  <2>3. f \in [Carriers(rest, past.ended) -> Carriers(wire, past.ended)]
    BY <2>1
  <2>4. \A j, m \in Carriers(rest, past.ended) : f[j] = f[m] => j = m
    BY <2>2
  <2>. HIDE DEF f
  <2>. QED  BY <1>1, <1>10, <2>3, <2>4, CarriesLess
<1>. HIDE DEF at
<1>. QED  BY <1>7, <1>8, <1>9, <1>10, <1>12, <1>13, <1>14, <1>15, HandleKeeps
-----------------------------------------------------------------------------
(* Time, the disk and the backends.                                        *)

LEMMA ServerFacts ==
    ASSUME IInv
    PROVE  /\ server \in Servers /\ server.issued \in Nat /\ server.issued <= MaxIssued
           /\ MaxIssued \in Nat
BY ClientAssumption DEF IInv, TypeOK, Servers, MaybeSecret

LEMMA SessionNearsKeeps == ASSUME IInv, SessionNears PROVE IInv' /\ Unsent
<1>1. dock.open
  <2>1. Closed.good = FALSE
    BY DEF Closed
  <2>. QED  BY <2>1 DEF IInv, Shut, SessionNears
<1>2. /\ dock' \in Docks /\ dock'.open = dock.open /\ dock'.user = dock.user
      /\ dock'.session = dock.session
  BY DEF IInv, TypeOK, SessionNears, Docks
<1>3. UNCHANGED <<url, disk, full, wire, server, old, past, presses, faults>>
  BY DEF SessionNears
<1>4. TypeOK' /\ Shut'
  BY <1>1, <1>2, <1>3 DEF IInv, TypeOK, Shut
<1>5. WireInv'
  BY <1>3 DEF IInv, WireInv, Sound, Mine
<1>6. HomeInv'
  BY <1>2, <1>3 DEF IInv, HomeInv, Mine, Bound, Ours, Silent
<1>7. EndInv'
  BY <1>2, <1>3 DEF IInv, EndInv, Login, Loaded, Stale
<1>8. FreshInv'
  BY <1>2, <1>3 DEF IInv, FreshInv, NewLogin, Login, Loaded, Stale
<1>9. Unsent
  BY <1>3, SameWire
<1>. QED  BY <1>4, <1>5, <1>6, <1>7, <1>8, <1>9 DEF IInv

LEMMA DiskChangesKeeps == ASSUME IInv, DiskChanges PROVE IInv' /\ Unsent
<1>1. /\ full' \in BOOLEAN /\ past'.failed /\ past'.ended = past.ended
      /\ past' \in [ended: SUBSET Secrets, failed: BOOLEAN]
  BY DEF IInv, TypeOK, DiskChanges
<1>2. UNCHANGED <<url, dock, disk, wire, server, old>>
  BY DEF DiskChanges
<1>3. TypeOK' /\ Shut'
  BY <1>1, <1>2 DEF IInv, TypeOK, Shut
<1>4. WireInv'
  BY <1>2 DEF IInv, WireInv, Sound, Mine
<1>5. HomeInv'
  BY <1>2 DEF IInv, HomeInv, Mine, Bound, Ours, Silent
<1>6. EndInv'
  BY <1>1, <1>2 DEF IInv, EndInv
<1>7. FreshInv'
  BY <1>1, <1>2 DEF IInv, FreshInv, NewLogin, Login, Loaded, Stale
<1>8. Unsent
  BY <1>2, SameWire
<1>. QED  BY <1>3, <1>4, <1>5, <1>6, <1>7, <1>8 DEF IInv

LEMMA LoginExpiresKeeps == ASSUME IInv, NEW id \in Secrets, LoginExpires(id) PROVE IInv' /\ Unsent
<1>1. old' \subseteq Secrets /\ UNCHANGED <<url, dock, disk, full, wire, server, past>>
  BY DEF IInv, TypeOK, LoginExpires
<1>2. TypeOK' /\ Shut'
  BY <1>1 DEF IInv, TypeOK, Shut
<1>3. WireInv'
  BY <1>1 DEF IInv, WireInv, Sound, Mine
<1>4. HomeInv'
  BY <1>1 DEF IInv, HomeInv, Mine, Bound, Ours, Silent
<1>5. Login(disk)' \in {0, Login(disk)}
  <2>1. Bound(disk) /\ disk \in Files
    BY DEF IInv, HomeInv, Bound
  <2>2. Login(disk) = IF disk.user \in old THEN 0 ELSE disk.user
    BY <2>1, Zero DEF Login, Loaded, Stale, Files
  <2>3. Login(disk)' = IF disk.user \in old' THEN 0 ELSE disk.user
    BY <1>1, <2>1, Zero DEF Login, Loaded, Stale, Files
  <2>4. disk.user \in old => disk.user \in old'
    BY DEF LoginExpires
  <2>. QED  BY <2>2, <2>3, <2>4
<1>6. 0 \notin past.ended
  BY ServerFacts DEF IInv, EndInv
<1>7. EndInv'
  BY <1>1, <1>5, <1>6 DEF IInv, EndInv
<1>8. FreshInv'
  <2>1. ASSUME NEW i \in DOMAIN wire, NewLogin(wire[i])
        PROVE  wire[i].got # 0
    BY <2>1 DEF IInv, WireInv, Sound, NewLogin
  <2>. QED  BY <1>1, <1>5, <2>1 DEF IInv, FreshInv, NewLogin
<1>9. Unsent
  BY <1>1, SameWire
<1>. QED  BY <1>2, <1>3, <1>4, <1>7, <1>8, <1>9 DEF IInv

\* The backend gives an answer, and perhaps a secret that is new.
LEMMA GiveKeeps ==
    ASSUME IInv, NEW i \in DOMAIN wire, wire[i].ans = "pending",
           NEW a \in {"ok", "empty", "unauth", "fail"}, NEW id, Gives(i, a, id),
           UNCHANGED <<url, dock, disk, full, old, past>>,
           server' \in Servers, server'.issued \in server.issued..(server.issued + 1),
           \A s \in 1..server.issued : server'.from[s] = server.from[s],
           id = 0 \/ (id = server.issued + 1 /\ server'.issued = id /\ server'.from[id] = url),
           wire[i].path \in {"bootstrap", "login"} /\ a = "ok" => id # 0
    PROVE  IInv' /\ Unsent
<1>. DEFINE r == [wire[i] EXCEPT !.ans = a, !.got = id]
<1>1. wire \in Seq(Reqs) /\ \A j \in DOMAIN wire : Sound(wire[j])
  BY DEF IInv, WireInv
<1>2. wire' = [wire EXCEPT ![i] = r]
  BY <1>1, LenProperties DEF Gives
<1>3. /\ server.issued \in Nat /\ server.issued <= server'.issued /\ server'.issued \in MaybeSecret
      /\ server'.issued \in Nat
  BY ServerFacts DEF Servers
<1>4. ASSUME NEW s, Mine(s) PROVE Mine(s)'
  BY <1>3, <1>4 DEF Mine
<1>5. Mine(id)' /\ id \in MaybeSecret
  BY <1>3, Zero, ServerFacts, ClientAssumption DEF Mine, MaybeSecret
<1>6. r \in Reqs /\ r.path = wire[i].path /\ r.job = wire[i].job /\ r.inst = wire[i].inst
      /\ r.session = wire[i].session /\ r.user = wire[i].user /\ r.ans = a /\ r.got = id
  BY <1>1, <1>5 DEF Sound, Reqs
<1>. HIDE DEF r
<1>7. /\ wire' \in Seq(Reqs) /\ DOMAIN wire' = DOMAIN wire /\ wire'[i] = r
      /\ \A j \in DOMAIN wire : j # i => wire'[j] = wire[j]
  BY <1>1, <1>2, <1>6
<1>8. ASSUME NEW j \in DOMAIN wire' PROVE Sound(wire[j])'
  <2>1. Mine(wire[j].inst) /\ Mine(wire[j].session) /\ Mine(wire[j].user) /\ Mine(wire[j].got)
    BY <1>1, <1>7 DEF Sound
  <2>2. CASE j # i
    <3>1. wire'[j] = wire[j] /\ Sound(wire[j])
      BY <1>1, <1>7, <2>2
    <3>2. /\ Mine(wire[j].inst)' /\ Mine(wire[j].session)' /\ Mine(wire[j].user)'
          /\ Mine(wire[j].got)'
      BY <1>3, <2>1, <3>1 DEF Mine
    <3>. QED  BY <3>1, <3>2 DEF Sound
  <2>3. CASE j = i
    <3>1. wire'[j] = r /\ Sound(wire[j])
      BY <1>1, <1>7, <2>3
    <3>2. /\ Mine(wire[j].inst)' /\ Mine(wire[j].session)' /\ Mine(wire[j].user)'
          /\ Mine(wire[j].got)'
      BY <1>3, <1>5, <1>6, <2>1, <2>3, <3>1 DEF Mine
    <3>. QED  BY <1>6, <2>3, <3>1, <3>2 DEF Sound
  <2>. QED  BY <2>2, <2>3
<1>9. TypeOK'
  <2>1. ASSUME NEW j \in DOMAIN wire'
        PROVE  /\ wire'[j].path \in Paths
               /\ wire'[j].job.do \in Outers \union Calls \union {"none"}
               /\ wire'[j].inst \in MaybeSecret /\ wire'[j].session \in MaybeSecret
               /\ wire'[j].user \in MaybeSecret
    BY <1>8 DEF Sound, Reqs, Jobs
  <2>. QED  BY <2>1 DEF IInv, TypeOK
<1>10. Shut'
  BY <1>7 DEF IInv, Shut
<1>11. WireInv'
  BY <1>7, <1>8 DEF WireInv
<1>12. HomeInv'
  <2>1. Mine(dock.session) /\ Mine(dock.user) /\ Bound(disk)
        /\ (Ours(disk) \/ (Silent(dock) /\ \A j \in DOMAIN wire : wire[j].path = "signup"))
    BY DEF IInv, HomeInv
  <2>2. Mine(dock.session)' /\ Mine(dock.user)'
    BY <1>3, <2>1 DEF Mine
  <2>3. Bound(disk)'
    BY <1>3, <2>1 DEF Bound
  <2>4. (\A j \in DOMAIN wire : wire[j].path = "signup")
          => \A j \in DOMAIN wire' : wire'[j].path = "signup"
    BY <1>6, <1>7
  <2>5. Ours(disk)' = Ours(disk) /\ Silent(dock)' = Silent(dock)
    BY DEF Ours, Silent
  <2>. QED  BY <2>1, <2>2, <2>3, <2>4, <2>5 DEF HomeInv
<1>13. Login(disk)' = Login(disk)
  BY DEF Login, Loaded, Stale
<1>14. EndInv'
  BY <1>3, <1>13 DEF IInv, EndInv
<1>15. FreshInv'
  <2>1. ASSUME NEW j \in DOMAIN wire, NewLogin(wire'[j]), j # i
        PROVE  NewLogin(wire[j]) /\ wire'[j].got = wire[j].got /\ wire[j].got <= server.issued
    <3>1. wire'[j] = wire[j]
      BY <1>7, <2>1
    <3>2. wire[j].got \in 0..server.issued
      BY <1>1 DEF Sound, Mine
    <3>. QED  BY <1>3, <2>1, <3>1, <3>2
  <2>2. ASSUME NewLogin(wire'[i]) PROVE wire'[i].got = server.issued + 1
    <3>1. wire[i].path = "login" /\ a = "ok" /\ wire'[i].got = id
      BY <1>6, <1>7, <2>2 DEF NewLogin
    <3>. QED  BY <3>1
  <2>3. /\ past.ended \subseteq 1..server.issued /\ dock.user \in 0..server.issued
        /\ Login(disk) \in 0..server.issued
    <3>1. Bound(disk) /\ Mine(dock.user)
      BY DEF IInv, HomeInv
    <3>2. Login(disk) \in {0, disk.user} /\ disk.user \in 0..server.issued
      BY <3>1, InCtx, LoadedFacts DEF Bound
    <3>. QED  BY <1>3, <3>1, <3>2 DEF IInv, EndInv, Mine
  <2>4. ASSUME NEW j \in DOMAIN wire, NewLogin(wire'[j])
        PROVE  wire'[j].got \notin past.ended \union {dock.user, Login(disk)}
    <3>1. CASE j = i
      <4>1. wire'[j].got = server.issued + 1
        BY <2>2, <2>4, <3>1
      <4>. QED  BY <1>3, <2>3, <4>1
    <3>2. CASE j # i
      BY <2>1, <2>4, <3>2 DEF IInv, FreshInv
    <3>. QED  BY <3>1, <3>2
  <2>5. ASSUME NEW j \in DOMAIN wire, NEW m \in DOMAIN wire, NewLogin(wire'[j]),
               NewLogin(wire'[m]), wire'[m].got = wire'[j].got
        PROVE  j = m
    <3>1. CASE j = i /\ m # i
      <4>1. wire'[m].got <= server.issued /\ wire'[j].got = server.issued + 1
        BY <2>1, <2>2, <2>5, <3>1
      <4>. QED  BY <1>3, <2>5, <4>1
    <3>2. CASE m = i /\ j # i
      <4>1. wire'[j].got <= server.issued /\ wire'[m].got = server.issued + 1
        BY <2>1, <2>2, <2>5, <3>2
      <4>. QED  BY <1>3, <2>5, <4>1
    <3>3. CASE j # i /\ m # i
      <4>1. /\ NewLogin(wire[j]) /\ wire'[j].got = wire[j].got
            /\ NewLogin(wire[m]) /\ wire'[m].got = wire[m].got
        BY <2>1, <2>5, <3>3
      <4>. QED  BY <2>5, <4>1 DEF IInv, FreshInv
    <3>. QED  BY <3>1, <3>2, <3>3
  <2>. QED  BY <1>7, <1>13, <2>4, <2>5 DEF FreshInv, NewLogin
<1>16. Unsent
  <2>1. Carriers(wire', past.ended) = Carriers(wire, past.ended)
    BY <1>6, <1>7 DEF Carriers
  <2>2. Carries(wire', past.ended) = Carries(wire, past.ended)
    BY <1>1, <1>7, <2>1, CarriesType
  <2>3. Carries(wire, past.ended) \in Nat
    BY <1>1, CarriesType
  <2>. QED  BY <2>2, <2>3 DEF Unsent
<1>. QED  BY <1>9, <1>10, <1>11, <1>12, <1>14, <1>15, <1>16 DEF IInv

\* Only the backend changes, not what it has issued.
LEMMA ServerKeeps ==
    ASSUME IInv, server' \in Servers, server'.issued = server.issued, server'.from = server.from,
           UNCHANGED <<url, dock, disk, full, wire, old, past>>
    PROVE  IInv' /\ Unsent
<1>1. TypeOK' /\ Shut'
  BY DEF IInv, TypeOK, Shut
<1>2. WireInv'
  BY DEF IInv, WireInv, Sound, Mine
<1>3. HomeInv'
  BY DEF IInv, HomeInv, Mine, Bound, Ours, Silent
<1>4. EndInv'
  BY DEF IInv, EndInv, Login, Loaded, Stale
<1>5. FreshInv'
  BY DEF IInv, FreshInv, NewLogin, Login, Loaded, Stale
<1>6. Unsent
  BY SameWire
<1>. QED  BY <1>1, <1>2, <1>3, <1>4, <1>5, <1>6 DEF IInv

LEMMA ServerDropsKeeps == ASSUME IInv, NEW id \in Secrets, ServerDrops(id) PROVE IInv' /\ Unsent
<1>1. /\ server' \in Servers /\ server'.issued = server.issued /\ server'.from = server.from
      /\ UNCHANGED <<url, dock, disk, full, wire, old, past>>
  BY ServerFacts DEF ServerDrops, Servers
<1>. QED  BY <1>1, ServerKeeps

LEMMA ConsentKeeps == ASSUME IInv, NEW p \in Platforms, Consent(p) PROVE IInv' /\ Unsent
<1>1. /\ server' \in Servers /\ server'.issued = server.issued /\ server'.from = server.from
      /\ UNCHANGED <<url, dock, disk, full, wire, old, past>>
  BY ServerFacts DEF Consent, Servers
<1>. QED  BY <1>1, ServerKeeps
\* What a call asked for is done.
LEMMA DoneKeeps ==
    ASSUME IInv, NEW i \in DOMAIN wire, wire[i].ans = "pending",
           wire[i].path \notin {"bootstrap", "login"},
           NEW s \in Servers, s.issued = server.issued, s.from = server.from,
           NEW a \in {"ok", "empty"}, Done(i, s, a, 0),
           UNCHANGED <<url, dock, disk, full, old, past>>
    PROVE  IInv' /\ Unsent
<1>1. server' = s /\ (Gives(i, a, 0) \/ Gives(i, "fail", 0))
  BY DEF Done
<1>2. server' \in Servers /\ server'.issued = server.issued /\ server'.from = server.from
  BY <1>1
<1>3. server'.issued \in server.issued..(server.issued + 1)
  BY <1>2, ServerFacts
<1>4. \A t \in 1..server.issued : server'.from[t] = server.from[t]
  BY <1>2
<1>5. a \in {"ok", "empty", "unauth", "fail"}
  OBVIOUS
<1>6. CASE Gives(i, a, 0)
  BY <1>2, <1>3, <1>4, <1>5, <1>6, GiveKeeps
<1>7. CASE Gives(i, "fail", 0)
  BY <1>2, <1>3, <1>4, <1>7, GiveKeeps
<1>. QED  BY <1>1, <1>6, <1>7

\* A secret is issued, whether its answer arrives or not.
LEMMA IssuesKeeps ==
    ASSUME IInv, NEW i \in DOMAIN wire, wire[i].ans = "pending",
           NEW s \in Servers, s.issued = server.issued, s.from = server.from,
           NEW set, Issues(i, s, set), UNCHANGED <<url, dock, disk, full, old, past>>,
           wire[i].path \in {"bootstrap", "login"} => s = server
    PROVE  IInv' /\ Unsent
<1>. DEFINE id == server.issued + 1
            new == [s EXCEPT !.issued = id, !.from[id] = url]
            x == CASE set = "insts" -> [new EXCEPT !.insts = @ \union {id}]
                   [] set = "sessions" -> [new EXCEPT !.sessions = @ \union {id}]
                   [] OTHER -> [new EXCEPT !.users = @ \union {id}]
<1>1. server.issued < MaxIssued /\ Done(i, x, "ok", id)
  BY DEF Issues
<1>2. id \in Secrets /\ id \in MaybeSecret /\ id \notin 1..server.issued /\ server.issued \in Nat
      /\ id # 0
  BY <1>1, ServerFacts DEF Secrets, MaybeSecret
<1>3. url \in Urls
  BY DEF IInv, TypeOK
<1>. HIDE DEF id
<1>4. /\ new \in Servers /\ new.issued = id /\ new.from = [server.from EXCEPT ![id] = url]
  BY <1>2, <1>3 DEF Servers
<1>. HIDE DEF new
<1>5. x \in Servers /\ x.issued = new.issued /\ x.from = new.from
  BY <1>2, <1>4 DEF Servers
<1>. HIDE DEF x
<1>6. server.from \in [Secrets -> Urls \union {None}]
  BY ServerFacts DEF Servers
<1>7. /\ x.from[id] = url /\ \A t \in 1..server.issued : x.from[t] = server.from[t]
  BY <1>2, <1>4, <1>5, <1>6
<1>8. server' = x /\ (Gives(i, "ok", id) \/ Gives(i, "fail", 0))
  BY <1>1 DEF Done
<1>9. server' \in Servers /\ server'.issued = id /\ server'.from[id] = url
      /\ \A t \in 1..server.issued : server'.from[t] = server.from[t]
  BY <1>4, <1>5, <1>7, <1>8
<1>10. server'.issued \in server.issued..(server.issued + 1) /\ id = server.issued + 1
  BY <1>2, <1>9 DEF id
<1>11. CASE Gives(i, "ok", id)
  BY <1>2, <1>9, <1>10, <1>11, GiveKeeps
<1>12. CASE Gives(i, "fail", 0)
  BY <1>9, <1>10, <1>12, GiveKeeps
<1>. QED  BY <1>8, <1>11, <1>12

LEMMA ServeCallKeeps ==
    ASSUME IInv, NEW i \in DOMAIN wire, wire[i].ans = "pending", wire[i].path = "api",
           ServeCall(i, wire[i]), UNCHANGED <<url, dock, disk, full, old, past>>
    PROVE  IInv' /\ Unsent
<1>. DEFINE r == wire[i]
<1>1. CASE r.job.do \in {"status", "poll", "restatus"}
  <2>1. Done(i, server, "ok", 0) \/ Done(i, server, "empty", 0)
    BY <1>1 DEF ServeCall
  <2>. QED  BY <2>1, ServerFacts, DoneKeeps
<1>2. CASE r.job.do = "disconnect"
  <2>. DEFINE s == [server EXCEPT !.conn = @ \ {r.job.p}]
  <2>1. Done(i, s, "ok", 0)
    BY <1>2 DEF ServeCall
  <2>2. s \in Servers /\ s.issued = server.issued /\ s.from = server.from
    BY ServerFacts DEF Servers
  <2>. HIDE DEF s
  <2>. QED  BY <2>1, <2>2, DoneKeeps
<1>3. CASE r.job.do \in {"erase", "eraseAccount"}
  <2>1. PICK kept \in {{}} \union (IF r.job.do = "erase" THEN {server.users} ELSE {}) :
          Done(i, [server EXCEPT !.insts = {}, !.sessions = {}, !.conn = {}, !.users = kept],
               "ok", 0)
    BY <1>3 DEF ServeCall
  <2>. DEFINE s == [server EXCEPT !.insts = {}, !.sessions = {}, !.conn = {}, !.users = kept]
  <2>2. kept \in SUBSET Secrets
    BY <2>1, ServerFacts DEF Servers
  <2>3. s \in Servers /\ s.issued = server.issued /\ s.from = server.from
    BY <2>2, ServerFacts DEF Servers
  <2>4. Done(i, s, "ok", 0)
    BY <2>1
  <2>. HIDE DEF s
  <2>. QED  BY <2>3, <2>4, DoneKeeps
<1>4. CASE r.job.do \notin {"status", "poll", "restatus", "disconnect", "erase", "eraseAccount"}
  <2>1. Done(i, server, "ok", 0)
    BY <1>4 DEF ServeCall
  <2>. QED  BY <2>1, ServerFacts, DoneKeeps
<1>. QED  BY <1>1, <1>2, <1>3, <1>4

LEMMA ServeKeeps == ASSUME IInv, NEW i \in DOMAIN wire, Serve(i) PROVE IInv' /\ Unsent
<1>. DEFINE r == wire[i]
<1>1. r.ans = "pending" /\ UNCHANGED <<url, dock, disk, full, old, past>>
  BY DEF Serve
<1>2. server \in Servers
  BY ServerFacts
<1>3. ASSUME NEW a \in {"fail", "unauth"}, Gives(i, a, 0), UNCHANGED server PROVE IInv' /\ Unsent
  <2>1. server'.issued \in server.issued..(server.issued + 1)
    BY <1>3, ServerFacts
  <2>. QED  BY <1>1, <1>2, <1>3, <2>1, GiveKeeps
<1>4. ASSUME NEW set, Issues(i, server, set) PROVE IInv' /\ Unsent
  BY <1>1, <1>2, <1>4, IssuesKeeps
<1>. DEFINE s == [server EXCEPT !.sessions = @ \ {r.session}]
            u == [server EXCEPT !.users = @ \ {r.user}]
<1>5. /\ s \in Servers /\ s.issued = server.issued /\ s.from = server.from
      /\ u \in Servers /\ u.issued = server.issued /\ u.from = server.from
  BY <1>2 DEF Servers
<1>6. \/ Gives(i, "fail", 0) /\ UNCHANGED server
      \/ Gives(i, "unauth", 0) /\ UNCHANGED server
      \/ r.path = "bootstrap" /\ Issues(i, server, "insts")
      \/ r.path = "session" /\ Issues(i, server, "sessions")
      \/ r.path = "refresh" /\ (Issues(i, s, "sessions") \/ Done(i, server, "ok", 0))
      \/ r.path = "login" /\ Issues(i, server, "users")
      \/ r.path = "logout" /\ Done(i, u, "ok", 0)
      \/ r.path = "revoke" /\ Done(i, s, "ok", 0)
      \/ r.path = "api" /\ ServeCall(i, r)
      \/ r.path \notin {"bootstrap", "session", "refresh", "login", "logout", "revoke", "api"}
         /\ Done(i, server, "ok", 0)
  BY DEF Serve
<1>. HIDE DEF s, u
<1>7. ASSUME r.path = "refresh", Issues(i, s, "sessions") PROVE IInv' /\ Unsent
  BY <1>1, <1>5, <1>7, IssuesKeeps
<1>8. ASSUME r.path \notin {"bootstrap", "login"}, Done(i, server, "ok", 0) PROVE IInv' /\ Unsent
  BY <1>1, <1>2, <1>8, DoneKeeps
<1>9. ASSUME r.path = "logout", Done(i, u, "ok", 0) PROVE IInv' /\ Unsent
  BY <1>1, <1>5, <1>9, DoneKeeps
<1>10. ASSUME r.path = "revoke", Done(i, s, "ok", 0) PROVE IInv' /\ Unsent
  BY <1>1, <1>5, <1>10, DoneKeeps
<1>11. ASSUME r.path = "api", ServeCall(i, r) PROVE IInv' /\ Unsent
  BY <1>1, <1>11, ServeCallKeeps
<1>. QED  BY <1>3, <1>4, <1>6, <1>7, <1>8, <1>9, <1>10, <1>11

-----------------------------------------------------------------------------
(* The theorems.                                                           *)

LEMMA InitInv == ASSUME Init PROVE IInv
<1>1. /\ url \in Urls /\ dock = Closed /\ full = FALSE /\ wire = <<>> /\ old = {}
      /\ past = [ended |-> {}, failed |-> FALSE]
  BY DEF Init
<1>2. PICK u \in Urls, i \in {0, 1}, l \in {0, 2}, m \in BOOLEAN, o \in BOOLEAN,
           c \in {{}, Platforms} :
        /\ m \/ o \/ c # {} \/ i + l = 0
        /\ disk = [install |-> i, url |-> IF i + l = 0 THEN None ELSE u, user |-> l,
                   managed |-> m, conn |-> c, other |-> o]
        /\ server = [issued |-> 2,
                     from |-> [s \in Secrets |-> IF s <= 2 THEN u ELSE None],
                     insts |-> {i} \ {0}, sessions |-> {}, users |-> {l} \ {0}, conn |-> c]
  BY Zenon DEF Init
<1>3. 1 \in Secrets /\ 2 \in Secrets /\ {0, 1, 2} \subseteq MaybeSecret /\ 0 \in 0..Polls
  BY ClientAssumption DEF Secrets, MaybeSecret
<1>4. server \in Servers /\ server.issued = 2 /\ server.from[1] = u /\ server.from[2] = u
  <2>1. [s \in Secrets |-> IF s <= 2 THEN u ELSE None] \in [Secrets -> Urls \union {None}]
    OBVIOUS
  <2>2. {i} \ {0} \subseteq Secrets /\ {l} \ {0} \subseteq Secrets /\ c \subseteq Platforms
    BY <1>2, <1>3
  <2>. QED  BY <1>2, <1>3, <2>1, <2>2 DEF Servers
<1>5. /\ disk \in Files /\ disk.install = i /\ disk.user = l
      /\ (i # 0 \/ l # 0 => disk.url = u)
  <2>1. i \in MaybeSecret /\ l \in MaybeSecret /\ c \subseteq Platforms
    BY <1>2, <1>3
  <2>2. (i # 0 \/ l # 0) => i + l # 0
    BY <1>2
  <2>. QED  BY <1>2, <2>1, <2>2 DEF Files
<1>6. Bound(disk)
  BY <1>2, <1>4, <1>5 DEF Bound
<1>7. Closed \in Docks /\ Closed.user = 0 /\ Closed.session = 0
  BY <1>3 DEF Closed, Docks
<1>8. TypeOK
  <2>1. past \in [ended : SUBSET Secrets, failed : BOOLEAN]
    BY <1>1
  <2>2. full \in BOOLEAN /\ old \subseteq Secrets
    BY <1>1
  <2>3. DOMAIN wire = {}
    BY <1>1
  <2>. QED  BY <1>1, <1>4, <1>5, <1>7, <2>1, <2>2, <2>3 DEF TypeOK
<1>9. Shut /\ WireInv /\ FreshInv
  BY <1>1 DEF Shut, WireInv, FreshInv
<1>10. HomeInv
  BY <1>1, <1>4, <1>6, <1>7 DEF HomeInv, Mine, Silent
<1>11. EndInv
  BY <1>1 DEF EndInv
<1>. QED  BY <1>8, <1>9, <1>10, <1>11 DEF IInv

LEMMA StepKept == ASSUME IInv, [Next]_vars PROVE IInv' /\ Unsent
<1>1. CASE Next
  <2>1. Open \/ Quit \/ PollTimeout => IInv' /\ Unsent
    BY OpenKeeps, QuitKeeps, PollTimeoutKeeps
  <2>2. SessionNears \/ DiskChanges => IInv' /\ Unsent
    BY SessionNearsKeeps, DiskChangesKeeps
  <2>3. PressLogin \/ PressSignup \/ PressLogout => IInv' /\ Unsent
    BY LoginPressKeeps, LogoutPressKeeps
  <2>4. PressErase \/ PressEraseAccount \/ ModeSwitch => IInv' /\ Unsent
    BY ErasePressKeeps, ModeSwitchKeeps
  <2>5. ASSUME NEW p \in Platforms
        PROVE  PressConnect(p) \/ PressDisconnect(p) \/ PressApply(p) \/ Consent(p)
                 => IInv' /\ Unsent
    BY AccountPressKeeps, ConsentKeeps
  <2>6. ASSUME NEW i \in DOMAIN wire PROVE Reply(i) \/ Serve(i) => IInv' /\ Unsent
    BY ReplyKeeps, ServeKeeps
  <2>7. ASSUME NEW id \in Secrets PROVE LoginExpires(id) \/ ServerDrops(id) => IInv' /\ Unsent
    BY LoginExpiresKeeps, ServerDropsKeeps
  <2>. QED  BY <1>1, <2>1, <2>2, <2>3, <2>4, <2>5, <2>6, <2>7 DEF Next
<1>2. CASE UNCHANGED vars
  <2>1. server' \in Servers /\ server'.issued = server.issued /\ server'.from = server.from
        /\ UNCHANGED <<url, dock, disk, full, wire, old, past>>
    BY <1>2, ServerFacts DEF vars
  <2>. QED  BY <2>1, ServerKeeps
<1>. QED  BY <1>1, <1>2

LEMMA IInvCorrect == Spec => []IInv
<1>1. Init => IInv
  BY InitInv
<1>2. IInv /\ [Next]_vars => IInv' /\ Unsent
  BY StepKept
<1>. QED  BY <1>1, <1>2, PTL DEF Spec

\* The memory, the file, the requests and the backends keep their types: no
\* reply is delivered to a handler that its job was not made for.
THEOREM TypeCorrect == Spec => []TypeOK
<1>1. IInv => TypeOK
  BY DEF IInv
<1>. QED  BY <1>1, IInvCorrect, PTL

\* No installation, session or login is sent to a backend that did not issue
\* it, whatever base URL OBS is started with and however often the file is
\* rewritten from memory (T-053).
THEOREM HomeCorrect == Spec => []OwnBackend
<1>1. IInv => OwnBackend
  BY DEF IInv, WireInv, Sound, Mine, OwnBackend
<1>. QED  BY <1>1, IInvCorrect, PTL

\* A Connect that registers an installation never registers a second one: the
\* retry that follows a bootstrap finds what it has stored.
THEOREM OnceCorrect == Spec => []BootstrapOnce
<1>1. IInv => BootstrapOnce
  BY DEF IInv, WireInv, Sound, BootstrapOnce
<1>. QED  BY <1>1, IInvCorrect, PTL
\* A login that was ended (logout, 401, account erase, another login) is in no
\* request that is sent later, by this start of OBS or by any other, as long
\* as every save succeeded.
THEOREM EndedCorrect == Spec => EndedStaysEnded
<1>1. IInv /\ [Next]_vars => Unsent
  BY StepKept
<1>2. IInv /\ [Next]_vars
        => [past.failed \/ Carries(wire', past.ended) <= Carries(wire, past.ended)]_vars
  BY <1>1 DEF Unsent
<1>. QED  BY <1>2, IInvCorrect, PTL DEF Spec, EndedStaysEnded
=============================================================================
