----------------------------- MODULE LiveProofs -----------------------------
(***************************************************************************)
(* What TLAPS proves of FacebookLive, for any videos, titles and bounds:   *)
(* in whatever order the replies come, the verdict that lets a video go    *)
(* live is not older than what was written to it, the session that may be  *)
(* ended is of a video this dock went live with, the selection stays with  *)
(* the user, and the flag of a create is backed by a create.               *)
(***************************************************************************)
EXTENDS FacebookLive, FiniteSetTheorems, SequenceTheorems, WellFoundedInduction, TLAPS

Told == [res : {"ok"}, id : MaybeVideo, status : Statuses, title : MaybeTitle, public : BOOLEAN]
Requests ==
    [op : Ops, id : MaybeVideo, title : MaybeTitle, managed : BOOLEAN,
     ans : {Pending, Failed("fail"), Failed("auth")} \union Told]
Boxes == [kind : {"go", "ask", "end", "delete"}, id : Videos]

\* A request that this code sends: about a video, and the reads that only one
\* of the modes sends.
Sent(r) ==
    /\ r \in Requests /\ (r.op \notin {"create", "adopt"} => r.id \in Videos)
    /\ r.op \in Chained => r.managed
    /\ r.op = "retry" => ~r.managed

\* What a reply says is of the video that was asked about, and a video is read
\* after its go live only if one was sent.
Sound(r) ==
    /\ Sent(r)
    /\ r.op \in {"go_live", "after_go_live"} => r.id \in past.went
    /\ r.ans.res = "ok" => r.ans \in Told
    /\ r.ans.res = "ok" /\ r.op # "adopt" => r.ans.id \in Videos
    /\ r.ans.res = "ok" /\ r.op \notin {"create", "adopt"} => r.ans.id = r.id

\* The verdict on a video that has its own expectation is that of its last
\* reading since the last write to it.
Verified(f, p) ==
    /\ f.expected = None => f.verdict = "blocked"
    /\ f.verifyId # None /\ f.verifyId \notin p.borrowed =>
         /\ f.expected = p.wrote[f.verifyId]
         /\ f.verdict # "blocked" => f.verifyId \in p.checked

WireInv ==
    /\ wire \in Seq(Requests)
    /\ \A i \in DOMAIN wire :
         /\ Sound(wire[i])
         /\ wire[i].op = "status" /\ ~wire[i].managed => fb.statusId \in Videos
BoxInv == dialogs \in Seq(Boxes)

Counted == presses \in Nat /\ signals \in Nat

IInv ==
    /\ TypeOK /\ WireInv /\ BoxInv /\ Counted
    /\ CreateFlagBacked /\ OwnSession /\ Verified(fb, past)

-----------------------------------------------------------------------------
(* What a handler keeps.  f is the dock at some point of a handler, p the  *)
(* history that goes with it, b that a create is in flight.                *)

Ctx ==
    /\ managed \in BOOLEAN /\ loggedIn \in BOOLEAN /\ conn \in [BOOLEAN -> BOOLEAN]

Safe(f, p, b) ==
    /\ f \in Docks /\ Verified(f, p)
    /\ managed => f.session \in past.went \union {None}
    /\ fb.statusId \in Videos => f.statusId \in Videos
    /\ f.creating => b

Cleared(p) == p.checked \union p.borrowed

New(r, f) ==
    /\ Sent(r) /\ r.managed = managed /\ r.ans = Pending
    /\ r.op = "after_go_live" => r.id \in past.went
    /\ r.op = "status" /\ ~managed => f.statusId \in Videos

Creates(out) == \E i \in DOMAIN out : out[i].op = "create"

Fine(e, p, b) ==
    /\ Safe(e.f, p, b \/ Creates(e.out))
    /\ e.out \in Seq(Requests) /\ \A i \in DOMAIN e.out : New(e.out[i], e.f)
    /\ e.box \in Seq(Boxes)

Good(e, p, b) ==
    /\ Fine(e, p, b)
    /\ \A i \in DOMAIN e.out : e.out[i].op = "go_live" => e.out[i].id \in Cleared(p)
    /\ \A i \in DOMAIN e.box : e.box[i].kind \in {"go", "ask"} => e.box[i].id \in Cleared(p)

\* w holds what s holds, and then what t holds.
Joined(w, s, t) ==
    /\ \A i \in DOMAIN w : (i \in DOMAIN s /\ w[i] = s[i]) \/ \E j \in DOMAIN t : w[i] = t[j]
    /\ \A i \in DOMAIN s : i \in DOMAIN w /\ w[i] = s[i]
    /\ \A j \in DOMAIN t : \E i \in DOMAIN w : w[i] = t[j]

LEMMA JoinFacts ==
    ASSUME NEW S, NEW s \in Seq(S), NEW t \in Seq(S)
    PROVE  s \o t \in Seq(S) /\ Joined(s \o t, s, t)
<1>. DEFINE w == s \o t
            m == Len(s)
            n == Len(t)
<1>1. /\ m \in Nat /\ n \in Nat /\ DOMAIN s = 1..m /\ DOMAIN t = 1..n
  BY LenProperties
<1>2. /\ w \in Seq(S) /\ Len(w) = m + n
      /\ \A i \in 1..(m + n) : w[i] = IF i <= m THEN s[i] ELSE t[i - m]
  BY ConcatProperties
<1>3. DOMAIN w = 1..(m + n)
  BY <1>2, LenProperties
<1>. HIDE DEF w, m, n
<1>4. ASSUME NEW i \in DOMAIN w
      PROVE  (i \in DOMAIN s /\ w[i] = s[i]) \/ \E j \in DOMAIN t : w[i] = t[j]
  <2>1. CASE i <= m
    BY <1>1, <1>2, <1>3, <2>1
  <2>2. CASE ~(i <= m)
    <3>1. i - m \in DOMAIN t /\ w[i] = t[i - m]
      BY <1>1, <1>2, <1>3, <2>2
    <3>. QED  BY <3>1
  <2>. QED  BY <2>1, <2>2
<1>5. ASSUME NEW i \in DOMAIN s PROVE i \in DOMAIN w /\ w[i] = s[i]
  BY <1>1, <1>2, <1>3
<1>6. ASSUME NEW j \in DOMAIN t PROVE \E i \in DOMAIN w : w[i] = t[j]
  <2>1. m + j \in DOMAIN w /\ ~(m + j <= m) /\ (m + j) - m = j
    BY <1>1, <1>3
  <2>2. w[m + j] = t[j]
    BY <1>2, <1>3, <2>1
  <2>. QED  BY <2>1, <2>2
<1>7. Joined(w, s, t)
  BY <1>4, <1>5, <1>6 DEF Joined
<1>. QED  BY <1>2, <1>7 DEF w

\* g differs from f in what the invariant does not look at.
Keeps(f, g) ==
    /\ g \in Docks /\ g.verifyId = f.verifyId /\ g.expected = f.expected
    /\ g.verdict \in {f.verdict, "blocked"} /\ g.session \in {f.session, None}
    /\ g.statusId = f.statusId /\ (g.creating => f.creating)

LEMMA Moves ==
    ASSUME NEW p, NEW b, NEW f, Safe(f, p, b), NEW g, Keeps(f, g)
    PROVE  Safe(g, p, b)
BY DEF Safe, Keeps, Verified

LEMMA NoneFacts == None \notin Videos /\ None \notin Titles /\ None \in MaybeVideo /\ None \in MaybeTitle
BY LiveAssumption DEF MaybeVideo, MaybeTitle

LEMMA VideoFacts == Videos \subseteq MaybeVideo
BY DEF MaybeVideo

LEMMA Leaves ==
    ASSUME NEW p, NEW b, NEW f, Safe(f, p, b)
    PROVE  Good(Leave(f), p, b) /\ Leave(f).f = f
BY DEF Good, Fine, Leave, Effect, Safe

LEMMA ReqFacts ==
    ASSUME Ctx, NEW op \in Ops, NEW id \in MaybeVideo, NEW title \in MaybeTitle
    PROVE  /\ Req(op, id, title) \in Requests /\ Req(op, id, title).op = op
           /\ Req(op, id, title).id = id /\ Req(op, id, title).managed = managed
           /\ Req(op, id, title).ans = Pending /\ Req(op, id, title).title = title
           /\ Pending.res = "pending"
BY DEF Ctx, Req, Requests, Pending

\* A handler sends one request.
LEMMA SendsOne ==
    ASSUME Ctx, NEW p, NEW b, NEW f, NEW r, New(r, f), Safe(f, p, b \/ r.op = "create")
    PROVE  /\ Fine(Effect(f, <<r>>, <<>>), p, b)
           /\ (r.op = "go_live" => r.id \in Cleared(p)) => Good(Effect(f, <<r>>, <<>>), p, b)
<1>. DEFINE e == Effect(f, <<r>>, <<>>)
<1>1. e.f = f /\ e.out = <<r>> /\ e.box = <<>>
  BY DEF Effect
<1>2. r \in Requests
  BY DEF New, Sent
<1>3. DOMAIN e.out = {1} /\ e.out[1] = r /\ e.out \in Seq(Requests) /\ e.box \in Seq(Boxes)
      /\ DOMAIN e.box = {}
  <2>1. DOMAIN <<r>> = {1} /\ <<r>>[1] = r /\ <<r>> \in Seq(Requests)
    BY <1>2
  <2>2. <<>> \in Seq(Boxes)
    OBVIOUS
  <2>3. DOMAIN <<>> = {}
    OBVIOUS
  <2>. QED  BY <1>1, <2>1, <2>2, <2>3
<1>4. Safe(f, p, b \/ Creates(e.out))
  <2>1. (b \/ r.op = "create") => (b \/ Creates(e.out))
    BY <1>3 DEF Creates
  <2>. QED  BY <2>1 DEF Safe
<1>. HIDE DEF e
<1>5. Fine(e, p, b)
  BY <1>1, <1>3, <1>4 DEF Fine
<1>. QED  BY <1>1, <1>3, <1>5 DEF Good, e

LEMMA SendsFine ==
    ASSUME Ctx, NEW p, NEW b, NEW f, Safe(f, p, b), NEW op \in Ops \ {"create"}, NEW id \in MaybeVideo,
           op # "adopt" => id \in Videos, op \in Chained => managed, op = "retry" => ~managed,
           op = "after_go_live" => id \in past.went,
           op = "status" /\ ~managed => f.statusId \in Videos
    PROVE  /\ Fine(Sends(f, op, id), p, b) /\ Sends(f, op, id).f = f
           /\ (op = "go_live" => id \in Cleared(p)) => Good(Sends(f, op, id), p, b)
<1>. DEFINE r == Req(op, id, None)
<1>1. /\ r \in Requests /\ r.op = op /\ r.id = id /\ r.managed = managed /\ r.ans = Pending
  BY ReqFacts, NoneFacts
<1>2. Sends(f, op, id) = Effect(f, <<r>>, <<>>) /\ Effect(f, <<r>>, <<>>).f = f
  BY DEF Sends, Effect
<1>. HIDE DEF r
<1>3. New(r, f)
  BY <1>1 DEF New, Sent, Ctx
<1>4. Safe(f, p, b \/ r.op = "create")
  BY DEF Safe
<1>. QED  BY <1>1, <1>2, <1>3, <1>4, SendsOne

LEMMA StartManagedGood ==
    ASSUME Ctx, managed, NEW p, NEW b, NEW f, Safe(f, p, b),
           NEW op \in {"status", "go_live", "end", "delete"}, NEW id \in Videos
    PROVE  /\ Fine(StartManaged(f, op, id), p, b) /\ StartManaged(f, op, id).f = f
           /\ (op = "go_live" => id \in Cleared(p)) => Good(StartManaged(f, op, id), p, b)
<1>1. Good(Leave(f), p, b) /\ Leave(f).f = f
  BY Leaves
<1>2. /\ op \in Ops \ {"create"} /\ op # "adopt" /\ op \notin Chained /\ op # "retry"
      /\ op # "after_go_live" /\ id \in MaybeVideo
  BY DEF Ops, Reads, Chained, MaybeVideo
<1>3. /\ Fine(Sends(f, op, id), p, b) /\ Sends(f, op, id).f = f
      /\ (op = "go_live" => id \in Cleared(p)) => Good(Sends(f, op, id), p, b)
  BY <1>2, SendsFine
<1>. QED  BY <1>1, <1>3 DEF StartManaged, Good

LEMMA StartStatusGood ==
    ASSUME Ctx, NEW p, NEW b, NEW f, Safe(f, p, b), NEW id \in Videos
    PROVE  /\ Good(StartStatus(f, id), p, b)
           /\ StartStatus(f, id).f.current = f.current
           /\ StartStatus(f, id).f.creating = f.creating
           /\ f.statusId \in Videos => StartStatus(f, id).f.statusId \in Videos
<1>1. CASE managed
  BY <1>1, StartManagedGood DEF StartStatus
<1>2. CASE ~managed
  <2>. DEFINE g == [f EXCEPT !.statusId = id, !.live = FALSE]
  <2>1. /\ g \in Docks /\ g.statusId = id /\ g.current = f.current /\ g.creating = f.creating
        /\ g.verifyId = f.verifyId /\ g.expected = f.expected /\ g.verdict = f.verdict
        /\ g.session = f.session
    <3>1. f \in Docks /\ id \in MaybeVideo
      BY VideoFacts DEF Safe
    <3>2. g \in Docks
      BY <3>1 DEF Docks
    <3>3. /\ g.statusId = id /\ g.current = f.current /\ g.creating = f.creating
          /\ g.verifyId = f.verifyId /\ g.expected = f.expected /\ g.verdict = f.verdict
          /\ g.session = f.session
      BY <3>1 DEF Docks
    <3>. QED  BY <3>2, <3>3
  <2>2. StartStatus(f, id) = Sends(g, "status", id)
    BY <1>2 DEF StartStatus, StartStatusIndependent
  <2>. HIDE DEF g
  <2>3. Safe(g, p, b)
    BY <2>1 DEF Safe, Verified
  <2>4. Good(Sends(g, "status", id), p, b) /\ Sends(g, "status", id).f = g
    BY <1>2, <2>1, <2>3, SendsFine DEF Ops, Reads, Chained, MaybeVideo
  <2>. QED  BY <2>1, <2>2, <2>4
<1>. QED  BY <1>1, <1>2

LEMMA QuietStatusGood ==
    ASSUME Ctx, NEW p, NEW b, NEW f, Safe(f, p, b), NEW id \in Videos
    PROVE  /\ Good(QuietStatus(f, id), p, b)
           /\ QuietStatus(f, id).f.current = f.current
           /\ QuietStatus(f, id).f.creating = f.creating
           /\ f.statusId \in Videos => QuietStatus(f, id).f.statusId \in Videos
<1>. DEFINE g == [f EXCEPT !.quiet = TRUE]
<1>1. Keeps(f, g) /\ g.current = f.current /\ g.statusId = f.statusId /\ g.creating = f.creating
  BY DEF Keeps, Safe, Docks
<1>2. QuietStatus(f, id) = StartStatus(g, id)
  BY DEF QuietStatus
<1>. HIDE DEF g
<1>3. Safe(g, p, b)
  BY <1>1, Moves
<1>. QED  BY <1>1, <1>2, <1>3, StartStatusGood

LEMMA ChainGood ==
    ASSUME Ctx, NEW p, NEW b, NEW f, Safe(f, p, b), NEW id \in Videos
    PROVE  /\ Good(Chain(f, id), p, b)
           /\ Chain(f, id).f.current = f.current
           /\ Chain(f, id).f.creating = f.creating
           /\ f.statusId \in Videos => Chain(f, id).f.statusId \in Videos
<1>. DEFINE g == [f EXCEPT !.chain = id]
            h == [f EXCEPT !.chain = None, !.quiet = TRUE]
<1>1. Keeps(f, g) /\ g.current = f.current /\ g.statusId = f.statusId /\ g.creating = f.creating
  <2>1. f \in Docks /\ id \in MaybeVideo /\ None \in MaybeVideo
    BY VideoFacts, NoneFacts DEF Safe
  <2>. QED  BY <2>1 DEF Keeps, Docks
<1>2. Keeps(f, h) /\ h.current = f.current /\ h.statusId = f.statusId /\ h.creating = f.creating
  <2>1. f \in Docks /\ id \in MaybeVideo /\ None \in MaybeVideo
    BY VideoFacts, NoneFacts DEF Safe
  <2>. QED  BY <2>1 DEF Keeps, Docks
<1>3. Chain(f, id) = IF Usable THEN QuietStatus(g, id) ELSE Leave(h)
  BY DEF Chain
<1>. HIDE DEF g, h
<1>4. Safe(g, p, b) /\ Safe(h, p, b)
  BY <1>1, <1>2, Moves
<1>5. Good(Leave(h), p, b) /\ Leave(h).f = h
  BY <1>4, Leaves
<1>. QED  BY <1>1, <1>2, <1>3, <1>4, <1>5, QuietStatusGood

\* What a change of mode resets.
LEMMA ForgetfulDock ==
    ASSUME NEW c \in Docks
    PROVE  [c EXCEPT !.chain = None, !.quiet = FALSE, !.creating = FALSE,
                     !.applyCreate = FALSE, !.goAfter = FALSE, !.served = FALSE,
                     !.going = FALSE, !.tried = None, !.asked = None] \in Docks
<1>1. None \in MaybeVideo
  BY NoneFacts
<1>. QED  BY <1>1, ZenonT(30) DEF Docks

LEMMA ChainEndsKeeps ==
    ASSUME NEW f \in Docks
    PROVE  Keeps(f, ChainEnds(f)) /\ ChainEnds(f).current = f.current
BY NoneFacts DEF ChainEnds, Keeps, Docks

LEMMA EndSessionKeeps ==
    ASSUME NEW f \in Docks
    PROVE  Keeps(f, EndSession(f)) /\ EndSession(f).current = f.current
BY NoneFacts DEF EndSession, Keeps, Docks

LEMMA ClearVerifyFacts ==
    ASSUME NEW f \in Docks
    PROVE  /\ ClearVerify(f) \in Docks /\ ClearVerify(f).verifyId = None
           /\ ClearVerify(f).expected = None /\ ClearVerify(f).verdict = "blocked"
           /\ ClearVerify(f).session = f.session /\ ClearVerify(f).statusId = f.statusId
           /\ ClearVerify(f).creating = f.creating /\ ClearVerify(f).current = f.current
BY NoneFacts DEF ClearVerify, Docks, Verdicts

LEMMA ClearVerifyKeeps ==
    ASSUME NEW p, NEW b, NEW f, Safe(f, p, b)
    PROVE  Safe(ClearVerify(f), p, b)
<1>1. f \in Docks
  BY DEF Safe
<1>. QED  BY <1>1, ClearVerifyFacts DEF Safe, Verified

LEMMA SetLiveIdKeeps ==
    ASSUME NEW f \in Docks, NEW id \in MaybeVideo
    PROVE  Keeps(f, SetLiveId(f, id)) /\ SetLiveId(f, id).current = id
<1>. DEFINE moved == id # f.current
            g == [f EXCEPT !.served = FALSE, !.current = id,
                           !.going = @ /\ ~moved,
                           !.tried = IF moved THEN None ELSE @,
                           !.asked = IF moved THEN None ELSE @]
<1>1. g \in Docks /\ g.current = id
  <2>. DEFINE going == f.going /\ ~moved
              tried == IF moved THEN None ELSE f.tried
              asked == IF moved THEN None ELSE f.asked
              h == [f EXCEPT !.served = FALSE, !.current = id, !.going = going,
                             !.tried = tried, !.asked = asked]
  <2>1. going \in BOOLEAN /\ tried \in MaybeVideo /\ asked \in MaybeVideo
    BY NoneFacts DEF Docks
  <2>2. g = h
    BY DEF Docks
  <2>. HIDE DEF going, tried, asked, moved
  <2>3. h \in Docks
    BY <2>1 DEF Docks
  <2>4. h.current = id
    BY DEF Docks
  <2>. QED  BY <2>2, <2>3, <2>4
<1>2. /\ g.verifyId = f.verifyId /\ g.expected = f.expected /\ g.verdict = f.verdict
      /\ g.session = f.session /\ g.statusId = f.statusId /\ g.creating = f.creating
  BY DEF Docks
<1>3. SetLiveId(f, id) = IF f.session \in {None, id} THEN g ELSE EndSession(g)
  BY DEF SetLiveId
<1>. HIDE DEF g, moved
<1>4. Keeps(g, EndSession(g)) /\ EndSession(g).current = id
  BY <1>1, EndSessionKeeps
<1>. QED  BY <1>1, <1>2, <1>3, <1>4 DEF Keeps

\* A second piece follows, from the dock of the first.
LEMMA AndThenGood ==
    ASSUME NEW p, NEW b, NEW e, Good(e, p, b), NEW d, Good(d, p, b),
           e.f.statusId \in Videos => d.f.statusId \in Videos
    PROVE  Good(AndThen(e, d), p, b) /\ AndThen(e, d).f = d.f
<1>. DEFINE out == e.out \o d.out
            box == e.box \o d.box
<1>1. /\ AndThen(e, d).f = d.f /\ AndThen(e, d).out = out /\ AndThen(e, d).box = box
  BY DEF AndThen, Effect
<1>2. /\ e.out \in Seq(Requests) /\ d.out \in Seq(Requests) /\ e.box \in Seq(Boxes) /\ d.box \in Seq(Boxes)
  BY DEF Good, Fine
<1>3. out \in Seq(Requests) /\ box \in Seq(Boxes)
  BY <1>2
<1>4. Joined(out, e.out, d.out) /\ Joined(box, e.box, d.box)
  BY <1>2, JoinFacts
<1>6. Creates(d.out) => Creates(out)
  <2>1. ASSUME NEW j \in DOMAIN d.out, d.out[j].op = "create"
        PROVE  Creates(out)
    <3>1. \E i \in DOMAIN out : out[i] = d.out[j]
      BY <1>4, <2>1 DEF Joined
    <3>. QED  BY <2>1, <3>1 DEF Creates
  <2>. QED  BY <2>1 DEF Creates
<1>. HIDE DEF out, box
<1>7. Safe(d.f, p, b \/ Creates(out))
  BY <1>6 DEF Good, Fine, Safe
<1>8. ASSUME NEW i \in DOMAIN out
      PROVE  New(out[i], d.f) /\ (out[i].op = "go_live" => out[i].id \in Cleared(p))
  BY <1>4 DEF Joined, Good, Fine, New
<1>9. ASSUME NEW i \in DOMAIN box
      PROVE  box[i].kind \in {"go", "ask"} => box[i].id \in Cleared(p)
  BY <1>4 DEF Joined, Good
<1>. QED  BY <1>1, <1>3, <1>7, <1>8, <1>9 DEF Good, Fine

LEMMA StartCreateGood ==
    ASSUME Ctx, NEW p, NEW b, NEW f, Safe(f, p, b), NEW title \in MaybeTitle
    PROVE  Good(StartCreate(f, title), p, b) /\ StartCreate(f, title).f.current = f.current
<1>. DEFINE r == Req("create", None, title)
            g == [ClearVerify(f) EXCEPT !.expected = title, !.creating = TRUE]
<1>1. /\ r \in Requests /\ r.op = "create" /\ r.id = None /\ r.managed = managed /\ r.ans = Pending
  BY ReqFacts, NoneFacts DEF Ops, Reads
<1>2. /\ g \in Docks /\ g.current = f.current /\ g.verifyId = None /\ g.verdict = "blocked"
      /\ g.session = f.session /\ g.statusId = f.statusId
  <2>. DEFINE h == ClearVerify(f)
  <2>1. f \in Docks
    BY DEF Safe
  <2>2. /\ h \in Docks /\ h.verifyId = None /\ h.verdict = "blocked"
        /\ h.session = f.session /\ h.statusId = f.statusId /\ h.current = f.current
    BY <2>1, ClearVerifyFacts
  <2>. HIDE DEF h
  <2>3. /\ [h EXCEPT !.expected = title, !.creating = TRUE] \in Docks
        /\ [h EXCEPT !.expected = title, !.creating = TRUE].current = h.current
        /\ [h EXCEPT !.expected = title, !.creating = TRUE].verifyId = h.verifyId
        /\ [h EXCEPT !.expected = title, !.creating = TRUE].verdict = h.verdict
        /\ [h EXCEPT !.expected = title, !.creating = TRUE].session = h.session
        /\ [h EXCEPT !.expected = title, !.creating = TRUE].statusId = h.statusId
    BY <2>2 DEF Docks
  <2>. QED  BY <2>2, <2>3 DEF h
<1>3. StartCreate(f, title) = Effect(g, <<r>>, <<>>) /\ Effect(g, <<r>>, <<>>).f = g
  BY DEF StartCreate, Effect
<1>. HIDE DEF r, g
<1>4. Safe(g, p, b \/ r.op = "create")
  BY <1>1, <1>2 DEF Safe, Verified
<1>5. New(r, g)
  BY <1>1 DEF New, Sent, Chained, Ctx
<1>. QED  BY <1>1, <1>2, <1>3, <1>4, <1>5, SendsOne

LEMMA CreateForIntentGood ==
    ASSUME Ctx, NEW p, NEW b, NEW f, Safe(f, p, b), NEW title \in MaybeTitle
    PROVE  /\ Good(CreateForIntent(f, title), p, b)
           /\ CreateForIntent(f, title).f.current = f.current
BY StartCreateGood, Leaves DEF CreateForIntent

\* A message box about the video that is shown.
LEMMA BoxGood ==
    ASSUME NEW p, NEW b, NEW f, Safe(f, p, b), NEW kind \in {"go", "ask", "end", "delete"},
           f.current \in Videos, kind \in {"go", "ask"} => f.current \in Cleared(p)
    PROVE  Good(Box(f, kind), p, b) /\ Box(f, kind).f = f
<1>. DEFINE x == [kind |-> kind, id |-> f.current]
            e == Box(f, kind)
<1>1. e.f = f /\ e.out = <<>> /\ e.box = <<x>>
  BY DEF Box, Effect
<1>2. x \in Boxes /\ x.kind = kind /\ x.id = f.current
  BY DEF Boxes
<1>. HIDE DEF x, e
<1>3. DOMAIN <<x>> = {1} /\ <<x>>[1] = x /\ <<x>> \in Seq(Boxes)
  BY <1>2
<1>4. <<>> \in Seq(Requests) /\ DOMAIN <<>> = {}
  OBVIOUS
<1>5. Safe(f, p, b \/ Creates(e.out))
  BY DEF Safe
<1>6. Fine(e, p, b)
  BY <1>1, <1>3, <1>4, <1>5 DEF Fine
<1>. QED  BY <1>1, <1>2, <1>3, <1>4, <1>6 DEF Good, e

-----------------------------------------------------------------------------
(* Going live.                                                             *)

\* The verdict stands for a reading.
LEMMA VerdictCleared ==
    ASSUME NEW p, NEW b, NEW f, Safe(f, p, b), f.verifyId # None, f.verdict # "blocked"
    PROVE  f.verifyId \in Videos /\ f.verifyId \in Cleared(p)
BY DEF Safe, Verified, Cleared, Docks, MaybeVideo

LEMMA SendAutoFine ==
    ASSUME Ctx, NEW p, NEW b, NEW f, Safe(f, p, b), NEW id \in Videos
    PROVE  /\ Fine(SendAuto(f, id), p, b) /\ SendAuto(f, id).f.current = f.current
           /\ id \in Cleared(p) => Good(SendAuto(f, id), p, b)
<1>. DEFINE g == [f EXCEPT !.going = TRUE, !.tried = id]
<1>1. Keeps(f, g) /\ g.current = f.current
  <2>1. f \in Docks /\ id \in MaybeVideo /\ None \in MaybeVideo
    BY VideoFacts, NoneFacts DEF Safe
  <2>. QED  BY <2>1 DEF Keeps, Docks
<1>2. SendAuto(f, id) = Leave(f) \/ SendAuto(f, id) = Sends(g, "go_live", id)
  BY DEF SendAuto
<1>. HIDE DEF g
<1>3. Safe(g, p, b)
  BY <1>1, Moves
<1>4. "go_live" \in Ops \ {"create"} /\ "go_live" \notin Chained /\ id \in MaybeVideo
  BY DEF Ops, Chained, MaybeVideo
<1>5. /\ Fine(Sends(g, "go_live", id), p, b) /\ Sends(g, "go_live", id).f = g
      /\ id \in Cleared(p) => Good(Sends(g, "go_live", id), p, b)
  BY <1>3, <1>4, SendsFine
<1>6. Good(Leave(f), p, b) /\ Leave(f).f = f
  BY Leaves
<1>. QED  BY <1>1, <1>2, <1>5, <1>6 DEF Good

LEMMA TryAutoGood ==
    ASSUME Ctx, NEW p, NEW b, NEW f, Safe(f, p, b), NEW emitter, NEW state,
           NEW e \in TryAuto(f, emitter, state)
    PROVE  Good(e, p, b) /\ e.f.current = f.current
<1>1. CASE e = Leave(f)
  BY <1>1, Leaves
<1>2. CASE e # Leave(f)
  <2>. DEFINE g == [f EXCEPT !.asked = f.current]
  <2>1. MayAuto(f, emitter, state) /\ (e = SendAuto(f, f.current) \/ e = Box(g, "ask"))
    BY <1>2 DEF TryAuto
  <2>2. f.current = f.verifyId /\ f.verifyId # None /\ f.verdict # "blocked"
    BY <2>1 DEF MayAuto
  <2>3. f.current \in Videos /\ f.current \in Cleared(p)
    BY <2>2, VerdictCleared
  <2>4. Keeps(f, g) /\ g.current = f.current
    <3>1. f \in Docks /\ f.current \in MaybeVideo /\ None \in MaybeVideo
      BY <2>3, VideoFacts, NoneFacts DEF Safe
    <3>. QED  BY <3>1 DEF Keeps, Docks
  <2>. HIDE DEF g
  <2>5. Safe(g, p, b)
    BY <2>4, Moves
  <2>6. Good(Box(g, "ask"), p, b) /\ Box(g, "ask").f = g
    BY <2>3, <2>4, <2>5, BoxGood
  <2>7. Good(SendAuto(f, f.current), p, b) /\ SendAuto(f, f.current).f.current = f.current
    BY <2>3, SendAutoFine
  <2>. QED  BY <2>1, <2>4, <2>6, <2>7
<1>. QED  BY <1>1, <1>2

LEMMA SendManualFine ==
    ASSUME Ctx, NEW p, NEW b, NEW f, Safe(f, p, b), NEW id \in Videos
    PROVE  /\ Fine(SendManual(f, id), p, b) /\ SendManual(f, id).f.current = f.current
           /\ id \in Cleared(p) => Good(SendManual(f, id), p, b)
<1>. DEFINE g == [f EXCEPT !.going = TRUE]
            h == [f EXCEPT !.going = FALSE]
<1>1. Keeps(f, g) /\ g.current = f.current /\ Keeps(f, h) /\ h.current = f.current
  BY DEF Keeps, Safe, Docks
<1>2. \/ SendManual(f, id) = Leave(h)
      \/ managed /\ SendManual(f, id) = StartManaged(g, "go_live", id)
      \/ SendManual(f, id) = Sends(g, "go_live", id)
  BY DEF SendManual
<1>. HIDE DEF g, h
<1>3. Safe(g, p, b) /\ Safe(h, p, b)
  BY <1>1, Moves
<1>4. "go_live" \in Ops \ {"create"} /\ "go_live" \notin Chained /\ id \in MaybeVideo
  BY DEF Ops, Chained, MaybeVideo
<1>5. /\ Fine(Sends(g, "go_live", id), p, b) /\ Sends(g, "go_live", id).f = g
      /\ id \in Cleared(p) => Good(Sends(g, "go_live", id), p, b)
  BY <1>3, <1>4, SendsFine
<1>6. Good(Leave(h), p, b) /\ Leave(h).f = h
  BY <1>3, Leaves
<1>7. managed =>
        /\ Fine(StartManaged(g, "go_live", id), p, b) /\ StartManaged(g, "go_live", id).f = g
        /\ id \in Cleared(p) => Good(StartManaged(g, "go_live", id), p, b)
  BY <1>3, StartManagedGood
<1>. QED  BY <1>1, <1>2, <1>5, <1>6, <1>7 DEF Good

LEMMA GoLiveCreatesGood ==
    ASSUME Ctx, NEW p, NEW b, NEW f, Safe(f, p, b), NEW title \in MaybeTitle
    PROVE  Good(GoLiveCreates(f, title), p, b) /\ GoLiveCreates(f, title).f.current = f.current
<1>. DEFINE g == [f EXCEPT !.goAfter = TRUE]
<1>1. Keeps(f, g) /\ g.current = f.current
  BY DEF Keeps, Safe, Docks
<1>2. \/ GoLiveCreates(f, title) = Leave(f)
      \/ GoLiveCreates(f, title) = Leave(g)
      \/ GoLiveCreates(f, title) = CreateForIntent(g, title)
  BY DEF GoLiveCreates
<1>. HIDE DEF g
<1>3. Safe(g, p, b)
  BY <1>1, Moves
<1>. QED  BY <1>1, <1>2, <1>3, Leaves, CreateForIntentGood

LEMMA GoLivePressedGood ==
    ASSUME Ctx, NEW p, NEW b, NEW f, Safe(f, p, b), NEW title \in MaybeTitle,
           NEW e \in GoLivePressed(f, title)
    PROVE  Good(e, p, b) /\ e.f.current = f.current
<1>1. CASE e = Leave(f)
  BY <1>1, Leaves
<1>2. CASE e = GoLiveCreates(f, title)
  BY <1>2, GoLiveCreatesGood
<1>3. CASE e # Leave(f) /\ e # GoLiveCreates(f, title)
  <2>1. /\ f.current # None /\ f.current = f.verifyId /\ f.verdict # "blocked"
        /\ e = Box(f, "go") \/ e = SendManual(f, f.current)
    BY <1>3 DEF GoLivePressed
  <2>2. f.current \in Videos /\ f.current \in Cleared(p)
    BY <2>1, VerdictCleared
  <2>. QED  BY <2>1, <2>2, BoxGood, SendManualFine
<1>. QED  BY <1>1, <1>2, <1>3

-----------------------------------------------------------------------------
(* What the replies do to the verdict.                                     *)

LEMMA ReadAsFacts ==
    ASSUME past \in Pasts, NEW id \in Videos, NEW a \in Told
    PROVE  /\ ReadAs(past, id, a) \in Pasts /\ ReadAs(past, id, a).went = past.went
           /\ ReadAs(past, id, a).wrote = past.wrote /\ ReadAs(past, id, a).borrowed = past.borrowed
           /\ ReadAs(past, id, a).checked =
                IF a.status = "unpublished" /\ a.title = past.wrote[id]
                THEN past.checked \union {id} ELSE past.checked \ {id}
BY DEF ReadAs, Pasts

\* A reading is of its video: it brings the verdict up to date.
LEMMA VerifyKeeps ==
    ASSUME past \in Pasts, NEW b, NEW f, Safe(f, past, b), NEW id \in Videos, NEW a \in Told
    PROVE  /\ Safe(Verify(f, id, a), ReadAs(past, id, a), b)
           /\ Verify(f, id, a).current = f.current /\ Verify(f, id, a).session = f.session
<1>. DEFINE g == Verify(f, id, a)
            p == ReadAs(past, id, a)
<1>1. f \in Docks
  BY DEF Safe
<1>2. /\ p.went = past.went /\ p.wrote = past.wrote /\ p.borrowed = past.borrowed
      /\ p.checked = IF a.status = "unpublished" /\ a.title = past.wrote[id]
                     THEN past.checked \union {id} ELSE past.checked \ {id}
  BY ReadAsFacts
<1>3. /\ g \in Docks /\ g.verifyId = f.verifyId /\ g.expected = f.expected
      /\ g.session = f.session /\ g.statusId = f.statusId /\ g.creating = f.creating
      /\ g.current = f.current
  <2>1. Prepared(f.expected, a) \in Verdicts /\ "blocked" \in Verdicts
    BY DEF Prepared, Verdicts
  <2>. QED  BY <1>1, <2>1 DEF Verify, Docks
<1>4. g.verdict =
        IF f.verifyId = None /\ f.expected = None THEN "blocked"
        ELSE IF id = f.verifyId /\ f.expected # None THEN Prepared(f.expected, a) ELSE f.verdict
  BY <1>1 DEF Verify, Docks
<1>. HIDE DEF g, p
<1>5. Verified(g, p)
  <2>1. g.expected = None => g.verdict = "blocked"
    BY <1>3, <1>4 DEF Safe, Verified
  <2>2. ASSUME g.verifyId # None, g.verifyId \notin p.borrowed
        PROVE  g.expected = p.wrote[g.verifyId] /\ (g.verdict # "blocked" => g.verifyId \in p.checked)
    <3>1. f.verifyId # None /\ f.verifyId \notin past.borrowed /\ f.expected = past.wrote[f.verifyId]
          /\ (f.verdict # "blocked" => f.verifyId \in past.checked)
      BY <1>2, <1>3, <2>2 DEF Safe, Verified
    <3>2. CASE id = f.verifyId /\ f.expected # None
      BY <1>2, <1>3, <1>4, <3>1, <3>2 DEF Prepared
    <3>3. CASE id # f.verifyId
      BY <1>2, <1>3, <1>4, <3>1, <3>3
    <3>4. CASE f.expected = None
      BY <1>2, <1>3, <2>1, <3>1, <3>4
    <3>. QED  BY <3>2, <3>3, <3>4
  <2>. QED  BY <2>1, <2>2 DEF Verified
<1>6. Safe(g, p, b)
  BY <1>2, <1>3, <1>5 DEF Safe
<1>. QED  BY <1>3, <1>6 DEF g, p

LEMMA ConfirmedGood ==
    ASSUME Ctx, NEW p, NEW b, NEW f, Safe(f, p, b), NEW id \in Videos, NEW a
    PROVE  Good(Confirmed(f, id, a), p, b) /\ Confirmed(f, id, a).f.current = f.current
<1>. DEFINE g == [f EXCEPT !.endConfirm = FALSE, !.quiet = FALSE]
<1>1. Keeps(f, g) /\ g.current = f.current
  BY DEF Keeps, Safe, Docks
<1>2. Confirmed(f, id, a) =
        IF a.status # "live" THEN Leave(EndSession(g))
        ELSE IF managed THEN StartManaged(g, "end", id) ELSE Sends(g, "end", id)
  BY DEF Confirmed
<1>. HIDE DEF g
<1>3. Safe(g, p, b)
  BY <1>1, Moves
<1>4. Keeps(g, EndSession(g)) /\ EndSession(g).current = f.current
  BY <1>1, EndSessionKeeps DEF Keeps
<1>5. Good(Leave(EndSession(g)), p, b) /\ Leave(EndSession(g)).f = EndSession(g)
  BY <1>3, <1>4, Moves, Leaves
<1>6. managed => Good(StartManaged(g, "end", id), p, b) /\ StartManaged(g, "end", id).f = g
  BY <1>3, StartManagedGood
<1>7. "end" \in Ops \ {"create"} /\ "end" \notin Chained /\ id \in MaybeVideo
  BY DEF Ops, Chained, MaybeVideo
<1>8. Good(Sends(g, "end", id), p, b) /\ Sends(g, "end", id).f = g
  BY <1>3, <1>7, SendsFine
<1>. QED  BY <1>1, <1>2, <1>4, <1>5, <1>6, <1>8

\* The read the user asked for, in Managed mode.
LEMMA StatusReadGood ==
    ASSUME Ctx, past \in Pasts, NEW b, Safe(fb, past, b), NEW a \in Told, a.id \in Videos,
           NEW e \in StatusRead(a)
    PROVE  Good(e, ReadAs(past, a.id, a), b)
<1>. DEFINE s == SetLiveId(fb, a.id)
            f == Verify(SetLiveId(fb, a.id), a.id, a)
            p == ReadAs(past, a.id, a)
            seen == [f EXCEPT !.live = (a.status = "live")]
            over == [seen EXCEPT !.goAfter = FALSE, !.quiet = FALSE]
            g == [f EXCEPT !.goAfter = FALSE, !.quiet = FALSE]
<1>1. Keeps(fb, s)
  BY SetLiveIdKeeps DEF Safe, MaybeVideo
<1>2. Safe(s, past, b)
  BY <1>1, Moves
<1>3. Safe(f, p, b)
  BY <1>2, VerifyKeeps
<1>4. \/ e = Confirmed(f, a.id, a)
      \/ e \in TryAuto(ChainEnds(f), watch.emitter, relay)
      \/ e \in GoLivePressed(g, None)
      \/ e = Leave(over) \/ e = Leave(seen)
  BY DEF StatusRead
<1>. HIDE DEF f, p, s
<1>5. Keeps(f, g) /\ Keeps(f, seen) /\ Keeps(f, over)
  <2>1. f \in Docks
    BY <1>3 DEF Safe
  <2>2. Keeps(f, g)
    BY <2>1 DEF Keeps, Docks
  <2>3. Keeps(f, seen)
    BY <2>1 DEF Keeps, Docks
  <2>4. Keeps(f, over)
    BY <2>1 DEF Keeps, Docks
  <2>. QED  BY <2>2, <2>3, <2>4
<1>6. Keeps(f, ChainEnds(f))
  BY <1>3, ChainEndsKeeps DEF Safe
<1>. HIDE DEF g, seen, over
<1>7. Safe(g, p, b) /\ Safe(seen, p, b) /\ Safe(over, p, b) /\ Safe(ChainEnds(f), p, b)
  BY <1>3, <1>5, <1>6, Moves
<1>8. CASE e = Confirmed(f, a.id, a)
  BY <1>3, <1>8, ConfirmedGood DEF p
<1>9. CASE e \in TryAuto(ChainEnds(f), watch.emitter, relay)
  BY <1>7, <1>9, TryAutoGood DEF p
<1>10. CASE e \in GoLivePressed(g, None)
  BY <1>7, <1>10, GoLivePressedGood, NoneFacts DEF p
<1>11. CASE e = Leave(over) \/ e = Leave(seen)
  BY <1>7, <1>11, Leaves DEF p
<1>. QED  BY <1>4, <1>8, <1>9, <1>10, <1>11

\* The history after a create: its title is what was written.
Born(id, title) ==
    [Taken([past EXCEPT !.wrote[id] = title], id) EXCEPT !.checked = @ \ {id}]

LEMMA TakenFacts ==
    ASSUME NEW q \in Pasts, NEW id \in Videos
    PROVE  /\ Taken(q, id) \in Pasts /\ Taken(q, id).went = q.went /\ Taken(q, id).wrote = q.wrote
           /\ Taken(q, id).checked = q.checked
           /\ id \notin Taken(q, id).borrowed => fb.verdict = "blocked" /\ fb.expected = q.wrote[id]
BY DEF Taken, Pasts

LEMMA BornFacts ==
    ASSUME past \in Pasts, NEW id \in Videos, NEW title \in MaybeTitle
    PROVE  /\ Born(id, title) \in Pasts /\ Born(id, title).went = past.went
           /\ Born(id, title).wrote[id] = title
           /\ id \notin Born(id, title).borrowed => fb.verdict = "blocked" /\ fb.expected = title
<1>. DEFINE q == [past EXCEPT !.wrote[id] = title]
            t == Taken(q, id)
<1>1. q \in Pasts /\ q.went = past.went /\ q.wrote[id] = title
  BY DEF Pasts
<1>. HIDE DEF q
<1>2. /\ t \in Pasts /\ t.went = q.went /\ t.wrote = q.wrote
      /\ id \notin t.borrowed => fb.verdict = "blocked" /\ fb.expected = q.wrote[id]
  BY <1>1, TakenFacts
<1>. HIDE DEF t
<1>3. /\ [t EXCEPT !.checked = @ \ {id}] \in Pasts
      /\ [t EXCEPT !.checked = @ \ {id}].went = t.went
      /\ [t EXCEPT !.checked = @ \ {id}].wrote = t.wrote
      /\ [t EXCEPT !.checked = @ \ {id}].borrowed = t.borrowed
  BY <1>2 DEF Pasts
<1>4. Born(id, title) = [t EXCEPT !.checked = @ \ {id}]
  BY DEF Born, t, q
<1>. QED  BY <1>1, <1>2, <1>3, <1>4

\* The video that was created is the one to verify, under what was expected.
LEMMA CreateDoneKeeps ==
    ASSUME past \in Pasts, NEW b, NEW c, Safe(fb, past, b), NEW id \in Videos, NEW title \in MaybeTitle
    PROVE  Safe(CreateDone(id), Born(id, title), c) /\ CreateDone(id).creating = FALSE
<1>. DEFINE s == SetLiveId(fb, id)
            g == CreateDone(id)
            p == Born(id, title)
<1>1. Keeps(fb, s)
  BY SetLiveIdKeeps DEF Safe, MaybeVideo
<1>2. s \in Docks /\ fb.applyCreate \in BOOLEAN
  BY <1>1 DEF Keeps, Safe, Docks
<1>3. g = [s EXCEPT !.verifyId = id, !.creating = FALSE,
                    !.applyCreate = FALSE, !.applying = @ /\ ~fb.applyCreate]
  BY DEF CreateDone
<1>. HIDE DEF s, g
<1>4. /\ g \in Docks /\ g.verifyId = id /\ g.creating = FALSE /\ g.expected = s.expected
      /\ g.verdict = s.verdict /\ g.session = s.session /\ g.statusId = s.statusId
  <2>. DEFINE t == s.applying /\ ~fb.applyCreate
  <2>1. t \in BOOLEAN
    OBVIOUS
  <2>2. g = [s EXCEPT !.verifyId = id, !.creating = FALSE, !.applyCreate = FALSE, !.applying = t]
    BY <1>2, <1>3 DEF Docks
  <2>. HIDE DEF t
  <2>. QED  BY <1>2, <2>1, <2>2 DEF Docks, MaybeVideo
<1>5. /\ p.went = past.went /\ p.wrote[id] = title
      /\ id \notin p.borrowed => fb.verdict = "blocked" /\ fb.expected = title
  BY BornFacts
<1>. HIDE DEF p
<1>6. Verified(g, p)
  BY <1>1, <1>4, <1>5 DEF Verified, Keeps, Safe
<1>7. Safe(g, p, c)
  BY <1>1, <1>4, <1>5, <1>6 DEF Safe, Keeps
<1>. QED  BY <1>4, <1>7 DEF g, p

LEMMA CreatedManagedGood ==
    ASSUME Ctx, managed, past \in Pasts, NEW b, NEW c, Safe(fb, past, b), NEW id \in Videos,
           NEW title \in MaybeTitle
    PROVE  Good(CreatedManaged(id), Born(id, title), c)
<1>. DEFINE f == CreateDone(id)
            p == Born(id, title)
            e == IF fb.applyCreate /\ Usable THEN Chain(f, id) ELSE Leave(f)
            g == [e.f EXCEPT !.quiet = TRUE]
            d == Sends(g, "after_create", id)
<1>1. Safe(f, p, c) /\ f.creating = FALSE
  BY CreateDoneKeeps
<1>. HIDE DEF f, p
<1>2. Good(e, p, c) /\ e.f.creating = FALSE
  BY <1>1, ChainGood, Leaves
<1>3. Safe(e.f, p, c)
  BY <1>2 DEF Good, Fine, Safe
<1>. HIDE DEF e
<1>4. Keeps(e.f, g) /\ g.statusId = e.f.statusId
  BY <1>3 DEF Keeps, Safe, Docks
<1>. HIDE DEF g
<1>5. Safe(g, p, c)
  BY <1>3, <1>4, Moves
<1>6. "after_create" \in Ops \ {"create"} /\ id \in MaybeVideo
  BY DEF Ops, Reads, Chained, MaybeVideo
<1>7. Good(d, p, c) /\ d.f = g
  BY <1>5, <1>6, SendsFine
<1>8. CreatedManaged(id) = AndThen(e, d)
  BY DEF CreatedManaged, d, g, e, f
<1>. HIDE DEF d
<1>9. Good(AndThen(e, d), p, c)
  BY <1>2, <1>4, <1>7, AndThenGood
<1>. QED  BY <1>8, <1>9 DEF p

LEMMA CreatedDirectGood ==
    ASSUME Ctx, past \in Pasts, NEW b, NEW c, Safe(fb, past, b), NEW a \in Told, a.id \in Videos,
           NEW title \in MaybeTitle
    PROVE  Good(CreatedDirect(a), Born(a.id, title), c)
<1>. DEFINE f == CreateDone(a.id)
            p == Born(a.id, title)
            g == IF a.status # "none" THEN [f EXCEPT !.live = FALSE] ELSE f
            e == IF fb.applyCreate THEN Chain(g, a.id) ELSE Leave(g)
            d == QuietStatus(e.f, a.id)
<1>1. Safe(f, p, c) /\ f.creating = FALSE
  BY CreateDoneKeeps
<1>. HIDE DEF f, p
<1>2. Keeps(f, g) /\ g.creating = FALSE
  <2>. DEFINE h == [f EXCEPT !.live = FALSE]
  <2>1. f \in Docks /\ f.creating = FALSE
    BY <1>1 DEF Safe
  <2>2. Keeps(f, f)
    BY <2>1 DEF Keeps
  <2>3. Keeps(f, h) /\ h.creating = f.creating
    BY <2>1 DEF Keeps, Docks
  <2>4. g = f \/ g = h
    OBVIOUS
  <2>. HIDE DEF g, h
  <2>. QED  BY <2>1, <2>2, <2>3, <2>4
<1>. HIDE DEF g
<1>3. Safe(g, p, c)
  BY <1>1, <1>2, Moves
<1>4. Good(e, p, c) /\ e.f.creating = FALSE
  BY <1>2, <1>3, ChainGood, Leaves
<1>5. Safe(e.f, p, c)
  BY <1>4 DEF Good, Fine, Safe
<1>. HIDE DEF e
<1>6. Good(d, p, c) /\ (e.f.statusId \in Videos => d.f.statusId \in Videos)
  BY <1>5, QuietStatusGood
<1>7. CreatedDirect(a) = AndThen(e, d) \/ CreatedDirect(a) = e
  BY DEF CreatedDirect, d, g, e, f
<1>. HIDE DEF d
<1>8. Good(AndThen(e, d), p, c)
  BY <1>4, <1>6, AndThenGood
<1>. QED  BY <1>4, <1>7, <1>8 DEF p

\* The reads that follow a request of the backend.
LEMMA ReadAfterKeeps ==
    ASSUME past \in Pasts, NEW b, Safe(fb, past, b), NEW a \in Told, a.id \in Videos, NEW op,
           op = "after_go_live" => a.id \in past.went
    PROVE  /\ Safe(ReadAfter(op, a), ReadAs(past, a.id, a), b)
           /\ ReadAfter(op, a).current = fb.current
<1>. DEFINE s == [fb EXCEPT !.live = (a.status = "live"), !.quiet = FALSE]
            f == Verify(s, a.id, a)
            p == ReadAs(past, a.id, a)
            g == [f EXCEPT !.session = a.id, !.settled = FALSE]
<1>1. Keeps(fb, s) /\ s.current = fb.current
  BY DEF Keeps, Safe, Docks
<1>. HIDE DEF s
<1>2. Safe(s, past, b)
  BY <1>1, Moves
<1>3. Safe(f, p, b) /\ f.current = fb.current
  BY <1>1, <1>2, VerifyKeeps
<1>4. ReadAfter(op, a) = IF op = "after_go_live" /\ a.status = "live" THEN g ELSE f
  BY NoneFacts DEF ReadAfter, NoteSession, f, s
<1>. HIDE DEF f
<1>5. /\ g \in Docks /\ g.current = f.current /\ g.session = a.id /\ g.verifyId = f.verifyId
      /\ g.expected = f.expected /\ g.verdict = f.verdict /\ g.statusId = f.statusId
      /\ g.creating = f.creating
  <2>1. f \in Docks /\ a.id \in MaybeVideo
    BY <1>3, VideoFacts DEF Safe
  <2>2. g \in Docks
    BY <2>1 DEF Docks
  <2>3. /\ g.current = f.current /\ g.session = a.id /\ g.verifyId = f.verifyId
        /\ g.expected = f.expected /\ g.verdict = f.verdict /\ g.statusId = f.statusId
        /\ g.creating = f.creating
    BY <2>1 DEF Docks
  <2>. QED  BY <2>2, <2>3
<1>6. p.went = past.went
  BY ReadAsFacts
<1>. HIDE DEF g, p
<1>7. op = "after_go_live" => Safe(g, p, b)
  BY <1>3, <1>5, <1>6 DEF Safe, Verified
<1>. QED  BY <1>3, <1>4, <1>5, <1>7 DEF p

LEMMA ReadAfterFailedKeeps ==
    ASSUME fb \in Docks, NEW op
    PROVE  Keeps(fb, ReadAfterFailed(op)) /\ ReadAfterFailed(op).current = fb.current
BY DEF ReadAfterFailed, Keeps, Docks, Verdicts

\* The video that was adopted takes over the verdict.
LEMMA AdoptedKeeps ==
    ASSUME past \in Pasts, NEW b, Safe(fb, past, b), NEW id \in Videos
    PROVE  Safe(Adopted(id), Taken(past, id), b)
<1>. DEFINE s == EndSession(SetLiveId(fb, id))
            g == Adopted(id)
            p == Taken(past, id)
<1>1. Keeps(fb, SetLiveId(fb, id))
  BY SetLiveIdKeeps DEF Safe, MaybeVideo
<1>2. Keeps(SetLiveId(fb, id), s)
  BY <1>1, EndSessionKeeps DEF Keeps
<1>3. Keeps(fb, s)
  BY <1>1, <1>2 DEF Keeps
<1>4. g = [s EXCEPT !.verifyId = id, !.live = TRUE]
  BY DEF Adopted
<1>. HIDE DEF s, g
<1>5. /\ g \in Docks /\ g.verifyId = id /\ g.creating = s.creating /\ g.expected = s.expected
      /\ g.verdict = s.verdict /\ g.session = s.session /\ g.statusId = s.statusId
  <2>1. s \in Docks /\ id \in MaybeVideo
    BY <1>3, VideoFacts DEF Keeps
  <2>2. g \in Docks
    BY <1>4, <2>1 DEF Docks
  <2>. QED  BY <1>4, <2>1, <2>2 DEF Docks
<1>6. /\ p.went = past.went /\ p.wrote = past.wrote
      /\ id \notin p.borrowed => fb.verdict = "blocked" /\ fb.expected = past.wrote[id]
  BY TakenFacts
<1>. HIDE DEF p
<1>7. Verified(g, p)
  BY <1>3, <1>5, <1>6 DEF Verified, Keeps, Safe
<1>8. Safe(g, p, b)
  BY <1>3, <1>5, <1>6, <1>7 DEF Safe, Keeps
<1>. QED  BY <1>8 DEF g, p

LEMMA DeletedKeeps ==
    ASSUME NEW b, Safe(fb, past, b), NEW id \in MaybeVideo, NEW g \in Deleted(id)
    PROVE  Safe(g, past, b) /\ (g.current # fb.current => id = fb.current)
<1>1. PICK f \in IF id # None /\ fb.current = id THEN Shown(fb, id) ELSE {fb} :
        g = ClearVerify(EndSession([f EXCEPT !.live = FALSE]))
  BY DEF Deleted
<1>2. /\ Keeps(fb, f) /\ (f.current # fb.current => id = fb.current)
  <2>1. CASE f = fb
    BY <2>1 DEF Keeps, Safe
  <2>2. CASE f \in Shown(fb, id) /\ id = fb.current
    <3>1. PICK w \in MaybeVideo : f = [fb EXCEPT !.current = w]
      BY <2>2 DEF Shown, MaybeVideo
    <3>. QED  BY <2>2, <3>1 DEF Keeps, Safe, Docks
  <2>. QED  BY <1>1, <2>1, <2>2
<1>. DEFINE h == [f EXCEPT !.live = FALSE]
<1>3. Keeps(fb, h) /\ h.current = f.current
  BY <1>2 DEF Keeps, Docks
<1>4. g = ClearVerify(EndSession(h))
  BY <1>1
<1>. HIDE DEF h
<1>5. Keeps(h, EndSession(h)) /\ EndSession(h).current = f.current
  BY <1>3, EndSessionKeeps DEF Keeps
<1>6. Safe(h, past, b)
  BY <1>3, Moves
<1>7. Safe(EndSession(h), past, b) /\ EndSession(h) \in Docks
  BY <1>5, <1>6, Moves DEF Keeps
<1>8. Safe(g, past, b) /\ g.current = EndSession(h).current
  BY <1>4, <1>7, ClearVerifyKeeps, ClearVerifyFacts
<1>. QED  BY <1>2, <1>5, <1>8

\* A write that was accepted takes the verdict away.
LEMMA UpdatedGood ==
    ASSUME Ctx, past \in Pasts, NEW b, Safe(fb, past, b), NEW r, r.id \in Videos, r.title \in MaybeTitle
    PROVE  /\ Good(Updated(r), Written(past, r.id, r.title), b)
           /\ Updated(r).f.current = fb.current
<1>. DEFINE f == [NoteUpdated(fb, r.id, r.title) EXCEPT !.applying = FALSE]
            p == Written(past, r.id, r.title)
<1>1. /\ f \in Docks /\ f.verifyId = r.id /\ f.expected = r.title /\ f.verdict = "blocked"
      /\ f.session = fb.session /\ f.statusId = fb.statusId /\ f.creating = fb.creating
      /\ f.current = fb.current
  <2>1. fb \in Docks /\ r.id \in MaybeVideo /\ "blocked" \in Verdicts
    BY VideoFacts DEF Safe, Verdicts
  <2>2. f = [fb EXCEPT !.expected = r.title, !.verifyId = r.id, !.verdict = "blocked",
                       !.applying = FALSE]
    BY <2>1 DEF NoteUpdated, Docks
  <2>. HIDE DEF f
  <2>3. f \in Docks
    BY <2>1, <2>2 DEF Docks
  <2>4. /\ f.verifyId = r.id /\ f.expected = r.title /\ f.verdict = "blocked"
        /\ f.session = fb.session /\ f.statusId = fb.statusId /\ f.creating = fb.creating
        /\ f.current = fb.current
    BY <2>1, <2>2 DEF Docks
  <2>. QED  BY <2>3, <2>4
<1>2. p.went = past.went /\ p.wrote[r.id] = r.title
  BY DEF Written, Pasts
<1>3. Updated(r) = IF Usable \/ (managed /\ ~r.managed) THEN Chain(f, r.id) ELSE Leave(f)
  BY DEF Updated
<1>. HIDE DEF f, p
<1>4. Safe(f, p, b)
  BY <1>1, <1>2 DEF Safe, Verified
<1>5. Good(Chain(f, r.id), p, b) /\ Chain(f, r.id).f.current = f.current
  BY <1>4, ChainGood
<1>6. Good(Leave(f), p, b) /\ Leave(f).f = f
  BY <1>4, Leaves
<1>. QED  BY <1>1, <1>3, <1>5, <1>6 DEF p

\* Nobody waits any longer for the create that failed.
LEMMA CreateFailedFacts ==
    ASSUME NEW f \in Docks
    PROVE  /\ Keeps(f, CreateFailed(f)) /\ CreateFailed(f).creating = FALSE
           /\ CreateFailed(f).current = f.current
BY DEF CreateFailed, Keeps, Docks

LEMMA StatusFailedKeeps ==
    ASSUME NEW f \in Docks
    PROVE  Keeps(f, StatusFailed(f)) /\ StatusFailed(f).current = f.current
<1>. DEFINE g == [f EXCEPT !.endConfirm = FALSE, !.goAfter = FALSE]
<1>1. Keeps(f, g) /\ g.current = f.current
  BY DEF Keeps, Docks
<1>2. StatusFailed(f) = IF g.chain # None THEN ChainEnds(g) ELSE g
  BY DEF StatusFailed
<1>. HIDE DEF g
<1>3. Keeps(g, ChainEnds(g)) /\ ChainEnds(g).current = g.current
  BY <1>1, ChainEndsKeeps DEF Keeps
<1>. QED  BY <1>1, <1>2, <1>3 DEF Keeps

LEMMA RetryFailedKeeps ==
    ASSUME NEW p, NEW b, Safe(fb, p, b)
    PROVE  Safe(RetryFailed, p, b)
<1>. DEFINE f == [fb EXCEPT !.endConfirm = FALSE]
            g == [f EXCEPT !.live = FALSE, !.confirm = FALSE, !.goAfter = FALSE]
            h == [g EXCEPT !.verdict = "blocked"]
<1>1. Keeps(fb, f)
  BY DEF Keeps, Safe, Docks
<1>2. RetryFailed = IF f.chain # None THEN ChainEnds(f)
                    ELSE IF f.current = None THEN ClearVerify(g) ELSE h
  BY DEF RetryFailed
<1>. HIDE DEF f
<1>3. Safe(f, p, b)
  BY <1>1, Moves
<1>4. Keeps(f, g)
  BY <1>3 DEF Keeps, Safe, Docks
<1>. HIDE DEF g
<1>5. Safe(g, p, b)
  BY <1>3, <1>4, Moves
<1>6. Keeps(g, h)
  BY <1>5 DEF Keeps, Safe, Docks, Verdicts
<1>7. Keeps(f, ChainEnds(f))
  BY <1>3, ChainEndsKeeps DEF Safe
<1>. HIDE DEF h
<1>. QED  BY <1>2, <1>3, <1>5, <1>6, <1>7, Moves, ClearVerifyKeeps

\* The read of Independent mode.
LEMMA StatusReadDirectGood ==
    ASSUME Ctx, ~managed, past \in Pasts, NEW b, Safe(fb, past, b), NEW a \in Told, a.id \in Videos,
           NEW e \in StatusReadDirect(a)
    PROVE  Good(e, ReadAs(past, a.id, a), b)
<1>. DEFINE s == [fb EXCEPT !.live = (a.status = "live")]
            f == Verify(s, a.id, a)
            p == ReadAs(past, a.id, a)
            g == [f EXCEPT !.goAfter = FALSE, !.quiet = FALSE]
            o == IF f.confirm THEN Observed(f, a) ELSE f
            h == [o EXCEPT !.quiet = FALSE]
<1>1. Keeps(fb, s)
  BY DEF Keeps, Safe, Docks
<1>2. \/ e \in GoLivePressed(g, None)
      \/ e = Leave(g)
      \/ e \in TryAuto(ChainEnds(f), watch.emitter, relay)
      \/ e = Confirmed(f, a.id, a)
      \/ e = Leave(h)
  BY DEF StatusReadDirect
<1>. HIDE DEF s
<1>3. Safe(f, p, b)
  BY <1>1, Moves, VerifyKeeps
<1>. HIDE DEF f, p
<1>4. Keeps(f, g)
  BY <1>3 DEF Keeps, Safe, Docks
<1>5. Keeps(f, ChainEnds(f))
  BY <1>3, ChainEndsKeeps DEF Safe
<1>. HIDE DEF g
<1>6. Safe(g, p, b) /\ Safe(ChainEnds(f), p, b)
  BY <1>3, <1>4, <1>5, Moves
<1>7. Safe(o, p, b)
  <2>. DEFINE k == [f EXCEPT !.confirm = FALSE]
              l == [k EXCEPT !.session = k.current, !.settled = FALSE]
  <2>1. Keeps(f, k)
    BY <1>3 DEF Keeps, Safe, Docks
  <2>2. o = f \/ o = k \/ o = l
    BY DEF Observed, NoteSession
  <2>. HIDE DEF k, o
  <2>3. Safe(k, p, b)
    BY <1>3, <2>1, Moves
  <2>4. /\ l \in Docks /\ l.verifyId = k.verifyId /\ l.expected = k.expected
        /\ l.verdict = k.verdict /\ l.statusId = k.statusId /\ l.creating = k.creating
    BY <2>3 DEF Safe, Docks
  <2>. HIDE DEF l
  <2>5. Safe(l, p, b)
    BY <2>3, <2>4 DEF Safe, Verified
  <2>. QED  BY <1>3, <2>2, <2>3, <2>5
<1>. HIDE DEF o
<1>8. Keeps(o, h)
  BY <1>7 DEF Keeps, Safe, Docks
<1>. HIDE DEF h
<1>9. Safe(h, p, b)
  BY <1>7, <1>8, Moves
<1>10. CASE e \in GoLivePressed(g, None)
  BY <1>6, <1>10, GoLivePressedGood, NoneFacts DEF p
<1>11. CASE e \in TryAuto(ChainEnds(f), watch.emitter, relay)
  BY <1>6, <1>11, TryAutoGood DEF p
<1>12. CASE e = Confirmed(f, a.id, a)
  BY <1>3, <1>12, ConfirmedGood DEF p
<1>13. CASE e = Leave(g) \/ e = Leave(h)
  BY <1>6, <1>9, <1>13, Leaves DEF p
<1>. QED  BY <1>2, <1>10, <1>11, <1>12, <1>13

LEMMA GoneLiveDirectGood ==
    ASSUME Ctx, NEW b, Safe(fb, past, b)
    PROVE  Good(GoneLiveDirect, past, b)
<1>. DEFINE g == [fb EXCEPT !.going = FALSE, !.confirm = TRUE]
<1>1. Keeps(fb, g)
  BY DEF Keeps, Safe, Docks
<1>2. GoneLiveDirect = IF fb.current = None THEN Leave(fb) ELSE QuietStatus(g, fb.current)
  BY DEF GoneLiveDirect
<1>. HIDE DEF g
<1>3. Safe(g, past, b)
  BY <1>1, Moves
<1>4. fb.current # None => fb.current \in Videos
  BY DEF Safe, Docks, MaybeVideo
<1>. QED  BY <1>2, <1>3, <1>4, Leaves, QuietStatusGood

LEMMA EndedDirectGood ==
    ASSUME Ctx, NEW b, Safe(fb, past, b)
    PROVE  Good(EndedDirect, past, b)
<1>. DEFINE g == [fb EXCEPT !.live = FALSE]
<1>1. Keeps(fb, g) /\ Keeps(fb, EndSession(fb))
  BY EndSessionKeeps DEF Keeps, Safe, Docks
<1>2. EndedDirect = IF fb.current = None THEN Leave(g) ELSE QuietStatus(EndSession(fb), fb.current)
  BY DEF EndedDirect
<1>. HIDE DEF g
<1>3. Safe(g, past, b) /\ Safe(EndSession(fb), past, b)
  BY <1>1, Moves
<1>4. fb.current # None => fb.current \in Videos
  BY DEF Safe, Docks, MaybeVideo
<1>. QED  BY <1>2, <1>3, <1>4, Leaves, QuietStatusGood

LEMMA MaybeAutoEndGood ==
    ASSUME Ctx, NEW p, NEW b, NEW f, Safe(f, p, b), NEW w
    PROVE  Good(MaybeAutoEnd(f, w), p, b)
<1>. DEFINE g == [f EXCEPT !.endConfirm = TRUE]
<1>1. Keeps(f, g)
  BY DEF Keeps, Safe, Docks
<1>2. \/ MaybeAutoEnd(f, w) = Leave(f)
      \/ f.session # None /\ MaybeAutoEnd(f, w) = StartStatus(g, f.session)
  BY DEF MaybeAutoEnd
<1>. HIDE DEF g
<1>3. Safe(g, p, b)
  BY <1>1, Moves
<1>4. f.session # None => f.session \in Videos
  BY DEF Safe, Docks, MaybeVideo
<1>. QED  BY <1>2, <1>3, <1>4, Leaves, StartStatusGood

LEMMA SignalWithoutGood ==
    ASSUME Ctx, NEW p, NEW b, NEW f, Safe(f, p, b), NEW title \in MaybeTitle
    PROVE  Good(SignalWithout(f, title), p, b)
<1>. DEFINE g == [f EXCEPT !.served = TRUE]
<1>1. Keeps(f, g)
  BY DEF Keeps, Safe, Docks
<1>2. SignalWithout(f, title) = Leave(f) \/ SignalWithout(f, title) = CreateForIntent(g, title)
  BY DEF SignalWithout
<1>. HIDE DEF g
<1>3. Safe(g, p, b)
  BY <1>1, Moves
<1>. QED  BY <1>2, <1>3, Leaves, CreateForIntentGood

-----------------------------------------------------------------------------
(* The replies.                                                            *)

LEMMA HistoryFacts ==
    ASSUME past \in Pasts, NEW r, Sound(r), r.ans.res = "ok"
    PROVE  /\ History(r, r.ans) \in Pasts /\ History(r, r.ans).went = past.went
           /\ r.op = "create" => History(r, r.ans) = Born(r.ans.id, r.title)
           /\ r.op = "update" => History(r, r.ans) = Written(past, r.id, r.title)
           /\ r.op = "adopt" =>
                History(r, r.ans) = IF r.ans.id = None THEN past ELSE Taken(past, r.ans.id)
           /\ r.op \in Reads => History(r, r.ans) = ReadAs(past, r.ans.id, r.ans)
           /\ r.op \in {"go_live", "end", "delete"} => History(r, r.ans) = past
<1>. DEFINE a == r.ans
<1>1. /\ r.op \in Ops /\ r.title \in MaybeTitle /\ a \in Told /\ a.id \in MaybeVideo
      /\ (r.op # "adopt" => a.id \in Videos) /\ (r.op = "update" => a.id = r.id)
  BY DEF Sound, Sent, Requests, Told
<1>2. CASE r.op = "create"
  <2>1. History(r, a) = Born(a.id, r.title)
    BY <1>2 DEF History, Born, Reads, Chained
  <2>2. Born(a.id, r.title) \in Pasts /\ Born(a.id, r.title).went = past.went
    BY <1>1, <1>2, BornFacts
  <2>. QED  BY <1>2, <2>1, <2>2 DEF Reads, Chained
<1>3. CASE r.op = "update"
  <2>1. History(r, a) = Written(past, r.id, r.title)
    BY <1>1, <1>3 DEF History, Reads, Chained
  <2>2. Written(past, r.id, r.title) \in Pasts /\ Written(past, r.id, r.title).went = past.went
    BY <1>1, <1>3 DEF Written, Pasts
  <2>. QED  BY <1>3, <2>1, <2>2 DEF Reads, Chained
<1>4. CASE r.op = "adopt"
  <2>1. History(r, a) = IF a.id = None THEN past ELSE Taken(past, a.id)
    BY <1>4 DEF History, Reads, Chained
  <2>2. a.id # None => Taken(past, a.id) \in Pasts /\ Taken(past, a.id).went = past.went
    BY <1>1, TakenFacts DEF MaybeVideo
  <2>. QED  BY <1>4, <2>1, <2>2 DEF Reads, Chained
<1>5. CASE r.op \in Reads
  <2>1. History(r, a) = ReadAs(past, a.id, a)
    BY <1>5 DEF History, Reads, Chained
  <2>2. r.op # "adopt" /\ r.op # "create" /\ r.op # "update" /\ r.op \notin {"go_live", "end", "delete"}
    BY <1>5 DEF Reads, Chained
  <2>3. /\ ReadAs(past, a.id, a) \in Pasts /\ ReadAs(past, a.id, a).went = past.went
    BY <1>1, <2>2, ReadAsFacts
  <2>. QED  BY <1>5, <2>1, <2>2, <2>3
<1>6. CASE r.op \in {"go_live", "end", "delete"}
  <2>1. r.op \notin Reads /\ r.op \notin {"create", "update", "adopt"}
    BY <1>6 DEF Reads, Chained
  <2>2. History(r, a) = past
    BY <2>1 DEF History
  <2>. QED  BY <2>1, <2>2
<1>. QED  BY <1>1, <1>2, <1>3, <1>4, <1>5, <1>6 DEF Ops

\* Another video is shown only when that very one was deleted.
Stays(r, g) == g.current # fb.current => r.op = "delete" /\ r.id = fb.current

LEMMA ManagedDoneGood ==
    ASSUME Ctx, managed, past \in Pasts, NEW b, NEW r, Sound(r), r.managed, r.ans.res = "ok",
           Safe(fb, past, b \/ r.op = "create"), NEW e \in ManagedDone(r, r.ans)
    PROVE  /\ Good(e, History(r, r.ans), b)
           /\ r.op \notin {"status", "create", "adopt"} => Stays(r, e.f)
<1>. DEFINE a == r.ans
            p == History(r, r.ans)
<1>1. /\ r.op \in Ops \ {"retry"} /\ r.title \in MaybeTitle /\ a \in Told /\ a.id \in MaybeVideo
      /\ r.id \in MaybeVideo
      /\ (r.op # "adopt" => a.id \in Videos)
      /\ (r.op \notin {"create", "adopt"} => r.id \in Videos /\ a.id = r.id)
      /\ (r.op \in {"go_live", "after_go_live"} => r.id \in past.went)
  BY DEF Sound, Sent, Requests, Told
<1>2. r.op # "create" => Safe(fb, past, b)
  BY DEF Safe
<1>3. CASE r.op = "status"
  <2>1. e \in StatusRead(a)
    BY <1>3 DEF ManagedDone, Chained
  <2>2. p = ReadAs(past, a.id, a)
    BY <1>3, HistoryFacts DEF Reads
  <2>. QED  BY <1>1, <1>2, <1>3, <2>1, <2>2, StatusReadGood
<1>4. CASE r.op = "create"
  <2>1. e = CreatedManaged(a.id)
    BY <1>4 DEF ManagedDone, Chained
  <2>2. p = Born(a.id, r.title)
    BY <1>4, HistoryFacts
  <2>. QED  BY <1>1, <1>4, <2>1, <2>2, CreatedManagedGood
<1>5. CASE r.op = "go_live"
  <2>. DEFINE g == [fb EXCEPT !.live = FALSE, !.quiet = TRUE, !.going = FALSE]
  <2>1. e = Sends(g, "after_go_live", r.id)
    BY <1>5 DEF ManagedDone, Chained
  <2>2. Keeps(fb, g) /\ g.current = fb.current
    BY <1>2, <1>5 DEF Keeps, Safe, Docks
  <2>. HIDE DEF g
  <2>3. Safe(g, past, b)
    BY <1>2, <1>5, <2>2, Moves
  <2>4. "after_go_live" \in Ops \ {"create"} /\ r.id \in Videos /\ r.id \in past.went
    BY <1>1, <1>5 DEF Ops, Reads, Chained
  <2>5. Good(Sends(g, "after_go_live", r.id), past, b) /\ Sends(g, "after_go_live", r.id).f = g
    BY <1>1, <2>3, <2>4, SendsFine
  <2>6. p = past
    BY <1>5, HistoryFacts
  <2>. QED  BY <1>5, <2>1, <2>2, <2>5, <2>6 DEF Stays
<1>6. CASE r.op = "end"
  <2>. DEFINE g == [EndSession(fb) EXCEPT !.live = FALSE, !.quiet = TRUE]
  <2>1. e = Sends(g, "after_end", r.id)
    BY <1>6 DEF ManagedDone, Chained
  <2>2. Keeps(fb, EndSession(fb)) /\ EndSession(fb).current = fb.current
    BY <1>2, <1>6, EndSessionKeeps DEF Safe
  <2>3. Keeps(fb, g) /\ g.current = fb.current
    BY <2>2 DEF Keeps, Docks
  <2>. HIDE DEF g
  <2>4. Safe(g, past, b)
    BY <1>2, <1>6, <2>3, Moves
  <2>5. "after_end" \in Ops \ {"create"} /\ r.id \in Videos
    BY <1>1, <1>6 DEF Ops, Reads, Chained
  <2>6. Good(Sends(g, "after_end", r.id), past, b) /\ Sends(g, "after_end", r.id).f = g
    BY <1>1, <2>4, <2>5, SendsFine
  <2>7. p = past
    BY <1>6, HistoryFacts
  <2>. QED  BY <1>6, <2>1, <2>3, <2>6, <2>7 DEF Stays
<1>7. CASE r.op = "delete"
  <2>1. PICK g \in Deleted(r.id) : e = Leave(g)
    BY <1>7 DEF ManagedDone, Chained
  <2>2. Safe(g, past, b) /\ (g.current # fb.current => r.id = fb.current)
    BY <1>1, <1>2, <1>7, DeletedKeeps
  <2>3. p = past
    BY <1>7, HistoryFacts
  <2>. QED  BY <1>7, <2>1, <2>2, <2>3, Leaves DEF Stays
<1>8. CASE r.op = "adopt"
  <2>. DEFINE g == [fb EXCEPT !.live = FALSE, !.verdict = "blocked"]
  <2>1. e = Leave(IF a.id = None THEN g ELSE Adopted(a.id))
    BY <1>8 DEF ManagedDone, Chained
  <2>2. p = IF a.id = None THEN past ELSE Taken(past, a.id)
    BY <1>8, HistoryFacts
  <2>3. Keeps(fb, g)
    BY <1>2, <1>8 DEF Keeps, Safe, Docks, Verdicts
  <2>. HIDE DEF g
  <2>4. Safe(g, past, b)
    BY <1>2, <1>8, <2>3, Moves
  <2>5. a.id # None => Safe(Adopted(a.id), Taken(past, a.id), b)
    BY <1>1, <1>2, <1>8, AdoptedKeeps DEF MaybeVideo
  <2>. QED  BY <1>8, <2>1, <2>2, <2>4, <2>5, Leaves
<1>9. CASE r.op = "update"
  <2>1. e = Updated(r)
    BY <1>9 DEF ManagedDone, Chained
  <2>2. p = Written(past, r.id, r.title)
    BY <1>9, HistoryFacts
  <2>. QED  BY <1>1, <1>2, <1>9, <2>1, <2>2, UpdatedGood DEF Stays
<1>10. CASE r.op \in Chained
  <2>1. e = Leave(ReadAfter(r.op, a))
    BY <1>10 DEF ManagedDone, Chained
  <2>2. p = ReadAs(past, a.id, a) /\ r.op # "create"
    BY <1>10, HistoryFacts DEF Reads, Chained
  <2>3. a.id \in Videos /\ (r.op = "after_go_live" => a.id \in past.went)
    BY <1>1, <1>10 DEF Chained
  <2>4. Safe(ReadAfter(r.op, a), p, b) /\ ReadAfter(r.op, a).current = fb.current
    BY <1>1, <1>2, <2>2, <2>3, ReadAfterKeeps
  <2>. QED  BY <2>1, <2>4, Leaves DEF Stays
<1>. QED  BY <1>1, <1>3, <1>4, <1>5, <1>6, <1>7, <1>8, <1>9, <1>10 DEF Ops, Reads

LEMMA ManagedFailedGood ==
    ASSUME NEW b, NEW r, Sound(r), r.managed, Safe(fb, past, b \/ r.op = "create")
    PROVE  Good(Leave(ManagedFailed(r)), past, b) /\ ManagedFailed(r).current = fb.current
<1>. DEFINE f == [fb EXCEPT !.endConfirm = FALSE]
            g == [f EXCEPT !.going = FALSE]
            h == [fb EXCEPT !.applying = FALSE]
<1>1. Keeps(fb, f) /\ f.current = fb.current /\ Keeps(fb, h) /\ h.current = fb.current
  BY DEF Keeps, Safe, Docks
<1>2. ManagedFailed(r) =
        CASE r.op = "status" -> StatusFailed(f)
          [] r.op = "create" -> CreateFailed(f)
          [] r.op = "go_live" -> g
          [] r.op = "update" -> h
          [] r.op \in Chained -> ReadAfterFailed(r.op)
          [] OTHER -> f
  BY DEF ManagedFailed
<1>. HIDE DEF f, h
<1>3. f \in Docks /\ fb \in Docks
  BY <1>1 DEF Keeps, Safe
<1>4. Keeps(f, g) /\ g.current = f.current
  BY <1>3 DEF Keeps, Docks
<1>. HIDE DEF g
<1>5. Keeps(f, StatusFailed(f)) /\ StatusFailed(f).current = f.current
  BY <1>3, StatusFailedKeeps
<1>6. Keeps(f, CreateFailed(f)) /\ CreateFailed(f).creating = FALSE /\ CreateFailed(f).current = f.current
  BY <1>3, CreateFailedFacts
<1>7. Keeps(fb, ReadAfterFailed(r.op)) /\ ReadAfterFailed(r.op).current = fb.current
  BY <1>3, ReadAfterFailedKeeps
<1>8. /\ Keeps(fb, ManagedFailed(r)) /\ ManagedFailed(r).current = fb.current
      /\ r.op = "create" => ManagedFailed(r).creating = FALSE
  <2>1. ASSUME NEW k, Keeps(f, k) PROVE Keeps(fb, k)
    BY <1>1, <2>1 DEF Keeps
  <2>2. CASE r.op = "status"
    BY <1>1, <1>2, <1>5, <2>1, <2>2 DEF Chained
  <2>3. CASE r.op = "create"
    BY <1>1, <1>2, <1>6, <2>1, <2>3 DEF Chained
  <2>4. CASE r.op = "go_live"
    BY <1>1, <1>2, <1>4, <2>1, <2>4 DEF Chained
  <2>5. CASE r.op = "update"
    BY <1>1, <1>2, <2>5 DEF Chained
  <2>6. CASE r.op \in Chained
    BY <1>2, <1>7, <2>6 DEF Chained
  <2>7. CASE r.op \notin Chained \union {"status", "create", "go_live", "update"}
    BY <1>1, <1>2, <2>7
  <2>. QED  BY <2>2, <2>3, <2>4, <2>5, <2>6, <2>7
<1>9. Safe(ManagedFailed(r), past, b)
  BY <1>8 DEF Safe, Keeps, Verified
<1>. QED  BY <1>8, <1>9, Leaves

LEMMA DirectDoneGood ==
    ASSUME Ctx, past \in Pasts, NEW b, NEW r, Sound(r), ~r.managed, r.ans.res = "ok",
           managed => r.op = "update",
           Safe(fb, past, b \/ r.op = "create"), NEW e \in DirectDone(r, r.ans)
    PROVE  Good(e, History(r, r.ans), b)
<1>. DEFINE a == r.ans
            p == History(r, r.ans)
<1>1. /\ r.op \in Ops \ Chained /\ r.title \in MaybeTitle /\ a \in Told /\ a.id \in MaybeVideo
      /\ (r.op # "adopt" => a.id \in Videos)
      /\ (r.op \notin {"create", "adopt"} => r.id \in Videos /\ a.id = r.id)
  BY DEF Sound, Sent, Requests, Told
<1>2. r.op # "create" => Safe(fb, past, b)
  BY DEF Safe
<1>3. CASE r.op \in {"status", "retry"}
  <2>1. e \in StatusReadDirect(a)
    BY <1>3 DEF DirectDone
  <2>2. p = ReadAs(past, a.id, a)
    BY <1>3, HistoryFacts DEF Reads
  <2>. QED  BY <1>1, <1>2, <1>3, <2>1, <2>2, StatusReadDirectGood
<1>4. CASE r.op = "create"
  <2>1. e = CreatedDirect(a)
    BY <1>4 DEF DirectDone
  <2>2. p = Born(a.id, r.title)
    BY <1>4, HistoryFacts
  <2>. QED  BY <1>1, <1>4, <2>1, <2>2, CreatedDirectGood
<1>5. CASE r.op = "go_live"
  <2>1. e = GoneLiveDirect /\ p = past
    BY <1>5, HistoryFacts DEF DirectDone
  <2>. QED  BY <1>2, <1>5, <2>1, GoneLiveDirectGood
<1>6. CASE r.op = "end"
  <2>1. e = EndedDirect /\ p = past
    BY <1>6, HistoryFacts DEF DirectDone
  <2>. QED  BY <1>2, <1>6, <2>1, EndedDirectGood
<1>7. CASE r.op = "delete"
  <2>1. PICK g \in Deleted(fb.current) : e = Leave(g)
    BY <1>7 DEF DirectDone
  <2>2. fb.current \in MaybeVideo
    BY DEF Safe, Docks
  <2>3. Safe(g, past, b)
    BY <1>2, <1>7, <2>2, DeletedKeeps
  <2>4. p = past
    BY <1>7, HistoryFacts
  <2>. QED  BY <2>1, <2>3, <2>4, Leaves
<1>8. CASE r.op = "adopt"
  <2>1. e = Leave(IF a.id = None THEN fb ELSE Adopted(a.id))
    BY <1>8 DEF DirectDone
  <2>2. p = IF a.id = None THEN past ELSE Taken(past, a.id)
    BY <1>8, HistoryFacts
  <2>3. a.id # None => Safe(Adopted(a.id), Taken(past, a.id), b)
    BY <1>1, <1>2, <1>8, AdoptedKeeps DEF MaybeVideo
  <2>. QED  BY <1>2, <1>8, <2>1, <2>2, <2>3, Leaves
<1>9. CASE r.op = "update"
  <2>1. e = Updated(r)
    BY <1>9 DEF DirectDone
  <2>2. p = Written(past, r.id, r.title)
    BY <1>9, HistoryFacts
  <2>. QED  BY <1>1, <1>2, <1>9, <2>1, <2>2, UpdatedGood
<1>. QED  BY <1>1, <1>3, <1>4, <1>5, <1>6, <1>7, <1>8, <1>9 DEF Ops, Reads

LEMMA DirectFailedGood ==
    ASSUME Ctx, NEW b, NEW r, Sound(r), ~r.managed, managed => r.op = "update",
           r.op = "status" => fb.statusId \in Videos,
           Safe(fb, past, b \/ r.op = "create")
    PROVE  Good(DirectFailed(r), past, b)
<1>1. r.op # "create" => Safe(fb, past, b)
  BY DEF Safe
<1>2. CASE r.op = "status"
  <2>. DEFINE g == [fb EXCEPT !.endConfirm = FALSE]
  <2>1. DirectFailed(r) = Sends(g, "retry", fb.statusId)
    BY <1>2 DEF DirectFailed, StatusRetries
  <2>2. Keeps(fb, g)
    BY DEF Keeps, Safe, Docks
  <2>. HIDE DEF g
  <2>3. Safe(g, past, b)
    BY <1>1, <1>2, <2>2, Moves
  <2>4. "retry" \in Ops \ {"create"} /\ "retry" \notin Chained /\ fb.statusId \in MaybeVideo
    BY <1>2 DEF Ops, Reads, Chained, MaybeVideo
  <2>5. ~managed /\ fb.statusId \in Videos
    BY <1>2
  <2>. QED  BY <2>1, <2>3, <2>4, <2>5, SendsFine
<1>3. CASE r.op = "retry"
  BY <1>1, <1>3, RetryFailedKeeps, Leaves DEF DirectFailed
<1>4. CASE r.op = "create"
  <2>1. Keeps(fb, CreateFailed(fb)) /\ CreateFailed(fb).creating = FALSE
    BY CreateFailedFacts DEF Safe
  <2>2. Safe(CreateFailed(fb), past, b)
    BY <2>1 DEF Keeps, Safe, Verified
  <2>. QED  BY <1>4, <2>2, Leaves DEF DirectFailed
<1>5. CASE r.op = "go_live"
  <2>1. Keeps(fb, [fb EXCEPT !.going = FALSE])
    BY DEF Keeps, Safe, Docks
  <2>. QED  BY <1>1, <1>5, <2>1, Moves, Leaves DEF DirectFailed
<1>6. CASE r.op = "update"
  <2>1. Keeps(fb, [fb EXCEPT !.applying = FALSE])
    BY DEF Keeps, Safe, Docks
  <2>. QED  BY <1>1, <1>6, <2>1, Moves, Leaves DEF DirectFailed
<1>7. CASE r.op \notin {"status", "retry", "create", "go_live", "update"}
  BY <1>1, <1>7, Leaves DEF DirectFailed
<1>. QED  BY <1>2, <1>3, <1>4, <1>5, <1>6, <1>7

-----------------------------------------------------------------------------
(* What is in flight.                                                      *)

LEMMA RemoveAtFacts ==
    ASSUME NEW S, NEW w \in Seq(S), NEW i \in DOMAIN w
    PROVE  /\ RemoveAt(w, i) \in Seq(S) /\ Len(RemoveAt(w, i)) = Len(w) - 1
           /\ DOMAIN RemoveAt(w, i) = 1..(Len(w) - 1)
           /\ \A j \in 1..(Len(w) - 1) : RemoveAt(w, i)[j] = w[IF j < i THEN j ELSE j + 1]
<1>. DEFINE s == SubSeq(w, 1, i - 1)
            t == SubSeq(w, i + 1, Len(w))
            L == Len(w)
<1>1. i \in 1..L /\ L \in Nat
  OBVIOUS
<1>2. /\ s \in Seq(S) /\ Len(s) = i - 1 /\ t \in Seq(S) /\ Len(t) = L - i
      /\ \A j \in 1..(i - 1) : s[j] = w[j]
      /\ \A j \in 1..(L - i) : t[j] = w[i + j]
  <2>1. s \in Seq(S) /\ Len(s) = i - 1 /\ \A j \in 1..(i - 1) : s[j] = w[j]
    BY <1>1, SubSeqProperties
  <2>2. t \in Seq(S) /\ Len(t) = L - i
    BY <1>1, SubSeqProperties
  <2>3. \A j \in 1..(L - i) : t[j] = w[i + j]
    BY <1>1, SubSeqProperties
  <2>. QED  BY <2>1, <2>2, <2>3
<1>3. RemoveAt(w, i) = s \o t
  BY DEF RemoveAt
<1>. HIDE DEF s, t, L
<1>4. /\ s \o t \in Seq(S) /\ Len(s \o t) = Len(s) + Len(t)
      /\ \A j \in 1..(Len(s) + Len(t)) :
           (s \o t)[j] = IF j <= Len(s) THEN s[j] ELSE t[j - Len(s)]
  BY <1>2, ConcatProperties
<1>5. Len(s) + Len(t) = L - 1
  BY <1>1, <1>2
<1>6. DOMAIN (s \o t) = 1..(L - 1)
  BY <1>4, <1>5, LenProperties
<1>7. ASSUME NEW j \in 1..(L - 1) PROVE (s \o t)[j] = w[IF j < i THEN j ELSE j + 1]
  <2>1. (s \o t)[j] = IF j <= i - 1 THEN s[j] ELSE t[j - (i - 1)]
    BY <1>2, <1>4, <1>5
  <2>2. CASE j < i
    <3>1. j \in 1..(i - 1) /\ j <= i - 1
      BY <1>1, <2>2
    <3>. QED  BY <1>2, <2>1, <2>2, <3>1
  <2>3. CASE ~(j < i)
    <3>1. ~(j <= i - 1) /\ j - (i - 1) \in 1..(L - i) /\ i + (j - (i - 1)) = j + 1
      BY <1>1, <2>3
    <3>. QED  BY <1>2, <2>1, <2>3, <3>1
  <2>. QED  BY <2>2, <2>3
<1>. QED  BY <1>3, <1>4, <1>5, <1>6, <1>7 DEF L

\* What is left is what there was but the one.
Left(v, w, i) ==
    /\ \A k \in DOMAIN v : \E j \in DOMAIN w : j # i /\ v[k] = w[j]
    /\ \A j \in DOMAIN w : j # i => \E k \in DOMAIN v : v[k] = w[j]

LEMMA LeftFacts ==
    ASSUME NEW S, NEW w \in Seq(S), NEW i \in DOMAIN w
    PROVE  Left(RemoveAt(w, i), w, i)
<1>. DEFINE v == RemoveAt(w, i)
            L == Len(w)
<1>1. i \in 1..L /\ L \in Nat /\ DOMAIN w = 1..L
  BY LenProperties
<1>2. DOMAIN v = 1..(L - 1) /\ \A j \in 1..(L - 1) : v[j] = w[IF j < i THEN j ELSE j + 1]
  BY RemoveAtFacts
<1>. HIDE DEF v, L
<1>3. ASSUME NEW k \in DOMAIN v PROVE \E j \in DOMAIN w : j # i /\ v[k] = w[j]
  <2>1. CASE k < i
    BY <1>1, <1>2, <2>1
  <2>2. CASE ~(k < i)
    <3>1. k + 1 \in DOMAIN w /\ k + 1 # i /\ v[k] = w[k + 1]
      BY <1>1, <1>2, <2>2
    <3>. QED  BY <3>1
  <2>. QED  BY <2>1, <2>2
<1>4. ASSUME NEW j \in DOMAIN w, j # i PROVE \E k \in DOMAIN v : v[k] = w[j]
  <2>1. CASE j < i
    BY <1>1, <1>2, <2>1
  <2>2. CASE ~(j < i)
    <3>1. j - 1 \in DOMAIN v /\ ~(j - 1 < i) /\ (j - 1) + 1 = j
      BY <1>1, <1>2, <1>4, <2>2
    <3>2. v[j - 1] = w[j]
      BY <1>2, <3>1
    <3>. QED  BY <3>1, <3>2
  <2>. QED  BY <2>1, <2>2
<1>. QED  BY <1>3, <1>4 DEF Left, v

Holders(op, id, w) == {i \in DOMAIN w : w[i].op = op /\ w[i].id = id}

LEMMA CountType ==
    ASSUME NEW w \in Seq(Requests), NEW op, NEW id
    PROVE  /\ IsFiniteSet(Holders(op, id, w)) /\ Count(op, id, w) \in Nat
           /\ Count(op, id, w) = Cardinality(Holders(op, id, w))
<1>1. DOMAIN w = 1..Len(w) /\ Len(w) \in Nat
  BY LenProperties
<1>2. IsFiniteSet(1..Len(w)) /\ Holders(op, id, w) \in SUBSET (1..Len(w))
  BY <1>1, FS_Interval DEF Holders
<1>3. IsFiniteSet(Holders(op, id, w))
  BY <1>2, FS_Subset
<1>. QED  BY <1>3, FS_CardinalityType DEF Count, Holders

\* A request that is gone counts no more.
LEMMA CountLeft ==
    ASSUME NEW w \in Seq(Requests), NEW i \in DOMAIN w, NEW op, NEW id
    PROVE  Count(op, id, RemoveAt(w, i)) <= Count(op, id, w)
<1>. DEFINE v == RemoveAt(w, i)
            f == [k \in Holders(op, id, v) |-> IF k < i THEN k ELSE k + 1]
            L == Len(w)
<1>1. i \in 1..L /\ L \in Nat /\ DOMAIN w = 1..L
  BY LenProperties
<1>2. /\ v \in Seq(Requests) /\ DOMAIN v = 1..(L - 1)
      /\ \A j \in 1..(L - 1) : v[j] = w[IF j < i THEN j ELSE j + 1]
  BY RemoveAtFacts
<1>. HIDE DEF v, L
<1>3. ASSUME NEW k \in Holders(op, id, v) PROVE f[k] \in Holders(op, id, w)
  <2>1. k \in 1..(L - 1) /\ v[k].op = op /\ v[k].id = id
    BY <1>2 DEF Holders
  <2>2. (IF k < i THEN k ELSE k + 1) \in 1..L
    BY <1>1, <2>1
  <2>3. f[k] = IF k < i THEN k ELSE k + 1
    OBVIOUS
  <2>. QED  BY <1>1, <1>2, <2>1, <2>2, <2>3 DEF Holders
<1>4. f \in [Holders(op, id, v) -> Holders(op, id, w)]
  BY <1>3
<1>5. \A j, k \in Holders(op, id, v) : f[j] = f[k] => j = k
  <2>1. Holders(op, id, v) \subseteq Int
    BY <1>1, <1>2 DEF Holders
  <2>. QED  BY <1>1, <2>1
<1>. HIDE DEF f
<1>6. f \in Injection(Holders(op, id, v), Holders(op, id, w))
  BY <1>4, <1>5 DEF Injection, IsInjective
<1>7. Cardinality(Holders(op, id, v)) <= Cardinality(Holders(op, id, w))
  BY <1>2, <1>6, CountType, FS_Injection
<1>. QED  BY <1>2, <1>7, CountType DEF v

\* What is sent counts if it is of that kind and of that video.
LEMMA CountJoined ==
    ASSUME NEW w \in Seq(Requests), NEW out \in Seq(Requests), NEW op, NEW id,
           \A j \in DOMAIN out : ~(out[j].op = op /\ out[j].id = id)
    PROVE  Count(op, id, w \o out) <= Count(op, id, w)
<1>. DEFINE v == w \o out
<1>1. v \in Seq(Requests) /\ Joined(v, w, out)
  BY JoinFacts
<1>. HIDE DEF v
<1>2. Holders(op, id, v) \in SUBSET Holders(op, id, w)
  BY <1>1 DEF Joined, Holders
<1>3. Cardinality(Holders(op, id, v)) <= Cardinality(Holders(op, id, w))
  BY <1>2, CountType, FS_Subset
<1>. QED  BY <1>1, <1>3, CountType DEF v

-----------------------------------------------------------------------------
(* A handler.                                                              *)

Checked == \A v \in Videos : Decides(v) => v \in past'.checked \union past'.borrowed

\* The rest of the state keeps its type.
WorldNext ==
    /\ graph' \in [Videos -> [status: Statuses, title: MaybeTitle]]
    /\ managed' \in BOOLEAN /\ conn' \in [BOOLEAN -> BOOLEAN] /\ loggedIn' \in BOOLEAN
    /\ relay' \in {"off", "late", "on", "ok"} /\ watch' \in Watches
    /\ presses' \in Nat /\ signals' \in Nat

LEMMA WireFacts ==
    ASSUME IInv
    PROVE  /\ wire \in Seq(Requests) /\ \A i \in DOMAIN wire : Sound(wire[i])
           /\ dialogs \in Seq(Boxes) /\ past \in Pasts /\ Ctx
           /\ Safe(fb, past, InFlight({"create"}))
BY DEF IInv, WireInv, BoxInv, TypeOK, Ctx, Safe, OwnSession, CreateFlagBacked

LEMMA WireOps ==
    ASSUME NEW r, Sent(r)
    PROVE  r.op \in {"create", "adopt"} \/ (r.op \in Ops /\ r.id \in Videos)
BY DEF Sent, Requests

LEMMA HandleInv ==
    ASSUME IInv, NEW p \in Pasts, p.went = past.went, NEW b, NEW e, Fine(e, p, b),
           NEW rest \in Seq(Requests),
           \A i \in DOMAIN rest : \E j \in DOMAIN wire : rest[i] = wire[j],
           b => \E i \in DOMAIN rest : rest[i].op = "create" /\ rest[i].managed = managed,
           fb' = e.f, wire' = rest \o e.out, BoxInv',
           past' = [p EXCEPT !.went = @ \union GoLivesOf(e.out)],
           WorldNext, managed' = managed
    PROVE  IInv'
<1>. DEFINE w == rest \o e.out
            q == [p EXCEPT !.went = @ \union GoLivesOf(e.out)]
<1>1. e.out \in Seq(Requests)
  BY DEF Fine
<1>2. w \in Seq(Requests) /\ Joined(w, rest, e.out)
  BY <1>1, JoinFacts
<1>3. ASSUME NEW j \in DOMAIN e.out PROVE New(e.out[j], e.f)
  BY DEF Fine
<1>4. GoLivesOf(e.out) \subseteq Videos
  BY <1>3 DEF GoLivesOf, New, Sent
<1>5. /\ q \in Pasts /\ q.went = past.went \union GoLivesOf(e.out) /\ q.checked = p.checked
      /\ q.borrowed = p.borrowed /\ q.wrote = p.wrote
  BY <1>4 DEF Pasts
<1>6. wire' = w /\ past' = q
  OBVIOUS
<1>. HIDE DEF w, q
<1>7. Safe(e.f, p, b \/ Creates(e.out))
  BY DEF Fine
<1>8. ASSUME NEW i \in DOMAIN w
      PROVE  Sound(w[i])' /\ (w[i].op = "status" /\ ~w[i].managed => e.f.statusId \in Videos)
  <2>1. CASE i \in DOMAIN rest /\ w[i] = rest[i]
    <3>1. PICK j \in DOMAIN wire : w[i] = wire[j]
      BY <2>1
    <3>2. /\ Sound(wire[j])
          /\ (wire[j].op = "status" /\ ~wire[j].managed => fb.statusId \in Videos)
      BY DEF IInv, WireInv
    <3>3. past.went \subseteq past'.went
      BY <1>5, <1>6
    <3>4. Sound(w[i])
      BY <3>1, <3>2
    <3>. HIDE DEF w
    <3>5. Sound(w[i])'
      BY <1>6, <3>3, <3>4 DEF Sound
    <3>. QED  BY <1>7, <3>1, <3>2, <3>5 DEF Safe
  <2>2. CASE \E j \in DOMAIN e.out : w[i] = e.out[j]
    <3>1. PICK j \in DOMAIN e.out : w[i] = e.out[j]
      BY <2>2
    <3>2. New(w[i], e.f)
      BY <1>3, <3>1
    <3>3. w[i].op = "go_live" => w[i].id \in GoLivesOf(e.out)
      BY <3>1 DEF GoLivesOf
    <3>4. Sound(w[i])'
      BY <1>5, <1>6, <3>2, <3>3 DEF New, Sound, Pending
    <3>. QED  BY <3>2, <3>4 DEF New
  <2>. QED  BY <1>2, <2>1, <2>2 DEF Joined
<1>9. TypeOK'
  <2>1. fb' \in Docks /\ past' \in Pasts
    BY <1>5, <1>6, <1>7 DEF Safe
  <2>2. \A i \in DOMAIN dialogs' : dialogs'[i] \in Boxes
    BY DEF BoxInv
  <2>3. \A i \in DOMAIN w : w[i].op \in {"create", "adopt"} \/ (w[i].op \in Ops /\ w[i].id \in Videos)
    BY <1>8, WireOps DEF Sound
  <2>. QED  BY <1>6, <2>1, <2>2, <2>3 DEF TypeOK, WorldNext, Boxes
<1>10. WireInv'
  BY <1>2, <1>6, <1>8 DEF WireInv
<1>11. BoxInv' /\ Counted'
  BY DEF Counted, WorldNext
<1>12. CreateFlagBacked'
  <2>1. SUFFICES ASSUME e.f.creating
                 PROVE  \E i \in DOMAIN w : w[i].op = "create" /\ w[i].managed = managed
    BY <1>6 DEF CreateFlagBacked, InFlight
  <2>2. b \/ Creates(e.out)
    BY <1>7, <2>1 DEF Safe
  <2>3. CASE b
    BY <1>2, <2>3 DEF Joined
  <2>4. CASE Creates(e.out)
    <3>1. PICK j \in DOMAIN e.out : e.out[j].op = "create"
      BY <2>4 DEF Creates
    <3>2. PICK i \in DOMAIN w : w[i] = e.out[j]
      BY <1>2 DEF Joined
    <3>. QED  BY <1>3, <3>1, <3>2 DEF New
  <2>. QED  BY <2>2, <2>3, <2>4
<1>13. OwnSession'
  BY <1>5, <1>6, <1>7 DEF OwnSession, Safe
<1>14. Verified(fb, past)'
  BY <1>5, <1>6, <1>7 DEF Safe, Verified
<1>. QED  BY <1>9, <1>10, <1>11, <1>12, <1>13, <1>14 DEF IInv

\* What a handler sends and asks is of videos that are cleared.
LEMMA HandleKeeps ==
    ASSUME IInv, NEW p \in Pasts, p.went = past.went, NEW b, NEW e, Good(e, p, b),
           NEW rest \in Seq(Requests),
           \A i \in DOMAIN rest : \E j \in DOMAIN wire : rest[i] = wire[j],
           b => \E i \in DOMAIN rest : rest[i].op = "create" /\ rest[i].managed = managed,
           \A v \in Videos : Count("go_live", v, rest) <= Count("go_live", v, wire),
           fb' = e.f, wire' = rest \o e.out, dialogs' = dialogs \o e.box,
           past' = [p EXCEPT !.went = @ \union GoLivesOf(e.out)],
           WorldNext, managed' = managed
    PROVE  IInv' /\ Checked
<1>. DEFINE w == rest \o e.out
            box == dialogs \o e.box
<1>1. /\ e.out \in Seq(Requests) /\ e.box \in Seq(Boxes) /\ dialogs \in Seq(Boxes)
      /\ wire \in Seq(Requests) /\ Fine(e, p, b)
  BY WireFacts DEF Good, Fine
<1>2. w \in Seq(Requests) /\ Joined(w, rest, e.out) /\ box \in Seq(Boxes) /\ Joined(box, dialogs, e.box)
  BY <1>1, JoinFacts
<1>3. ASSUME NEW j \in DOMAIN e.out
      PROVE  e.out[j].op = "go_live" => e.out[j].id \in Cleared(p)
  BY DEF Good
<1>4. BoxInv'
  BY <1>2 DEF BoxInv
<1>5. IInv'
  BY <1>1, <1>4, HandleInv
<1>6. past'.checked = p.checked /\ past'.borrowed = p.borrowed
  BY DEF Pasts
<1>7. wire' = w /\ dialogs' = box
  OBVIOUS
<1>. HIDE DEF w, box
<1>8. Checked
  <2>1. SUFFICES ASSUME NEW v \in Videos, Decides(v) PROVE v \in Cleared(p)
    BY <1>6 DEF Checked, Cleared
  <2>2. CASE Len(box) > Len(dialogs) /\ Last(box).kind \in {"go", "ask"} /\ Last(box).id = v
    <3>1. Len(dialogs) \in Nat /\ DOMAIN dialogs = 1..Len(dialogs) /\ Len(box) \in Nat
          /\ DOMAIN box = 1..Len(box)
      BY <1>1, <1>2, LenProperties
    <3>2. Len(box) \in DOMAIN box /\ Len(box) \notin DOMAIN dialogs
      BY <2>2, <3>1
    <3>3. PICK j \in DOMAIN e.box : box[Len(box)] = e.box[j]
      BY <1>2, <3>2 DEF Joined
    <3>. QED  BY <2>2, <3>3 DEF Last, Good
  <2>3. CASE Count("go_live", v, w) > Count("go_live", v, wire)
    <3>1. ASSUME \A j \in DOMAIN e.out : ~(e.out[j].op = "go_live" /\ e.out[j].id = v)
          PROVE  FALSE
      <4>1. Count("go_live", v, w) <= Count("go_live", v, rest)
        BY <1>1, <3>1, CountJoined DEF w
      <4>2. /\ Count("go_live", v, w) \in Nat /\ Count("go_live", v, rest) \in Nat
            /\ Count("go_live", v, wire) \in Nat
        BY <1>1, <1>2, CountType
      <4>. QED  BY <2>3, <4>1, <4>2
    <3>. QED  BY <1>3, <3>1
  <2>. QED  BY <1>7, <2>1, <2>2, <2>3 DEF Decides, SentNow
<1>. QED  BY <1>5, <1>8

\* What was in flight is still.
LEMMA PressKeeps ==
    ASSUME IInv, NEW effects, \A e \in effects : Good(e, past, InFlight({"create"})),
           Handle(effects, wire, past), WorldNext, managed' = managed
    PROVE  IInv' /\ Checked
<1>1. PICK e \in effects :
        /\ fb' = e.f /\ wire' = wire \o e.out /\ dialogs' = dialogs \o e.box
        /\ past' = [past EXCEPT !.went = @ \union GoLivesOf(e.out)]
  BY DEF Handle
<1>2. wire \in Seq(Requests) /\ past \in Pasts /\ Good(e, past, InFlight({"create"}))
  BY <1>1, WireFacts
<1>3. \A i \in DOMAIN wire : \E j \in DOMAIN wire : wire[i] = wire[j]
  OBVIOUS
<1>4. InFlight({"create"}) => \E i \in DOMAIN wire : wire[i].op = "create" /\ wire[i].managed = managed
  BY DEF InFlight
<1>5. \A v \in Videos : Count("go_live", v, wire) <= Count("go_live", v, wire)
  BY <1>2, CountType
<1>. QED  BY <1>1, <1>2, <1>3, <1>4, <1>5, HandleKeeps

\* Nothing is sent and nobody is asked.
LEMMA QuietDecides ==
    ASSUME IInv, wire' = wire, dialogs' = dialogs
    PROVE  Checked
<1>1. \A v \in Videos : Count("go_live", v, wire) \in Nat
  BY WireFacts, CountType
<1>2. Len(dialogs) \in Nat
  BY WireFacts, LenProperties
<1>. QED  BY <1>1, <1>2 DEF Checked, Decides, SentNow

LEMMA QuietKeeps ==
    ASSUME IInv, wire' = wire, dialogs' = dialogs, fb' \in Docks, fb'.statusId = fb.statusId,
           past' \in Pasts, past'.went = past.went, WorldNext,
           CreateFlagBacked', OwnSession', Verified(fb, past)'
    PROVE  IInv' /\ Checked
<1>1. TypeOK'
  BY DEF IInv, TypeOK, WorldNext
<1>2. WireInv'
  BY DEF IInv, WireInv, Sound
<1>3. BoxInv' /\ Counted'
  BY DEF IInv, BoxInv, Counted, WorldNext
<1>. QED  BY <1>1, <1>2, <1>3, QuietDecides DEF IInv

-----------------------------------------------------------------------------
(* Facebook and the backend.                                               *)

LEMMA AnswersKeeps ==
    ASSUME IInv, NEW i \in DOMAIN wire,
           NEW a \in {Failed("fail"), Failed("auth")} \union Told, Answers(i, a),
           a.res = "ok" => a \in Told,
           a.res = "ok" /\ wire[i].op # "adopt" => a.id \in Videos,
           a.res = "ok" /\ wire[i].op \notin {"create", "adopt"} => a.id = wire[i].id,
           graph' \in [Videos -> [status: Statuses, title: MaybeTitle]]
    PROVE  IInv' /\ Checked
<1>. DEFINE r == [wire[i] EXCEPT !.ans = a]
            w == [wire EXCEPT ![i] = r]
<1>1. wire \in Seq(Requests) /\ \A j \in DOMAIN wire : Sound(wire[j])
  BY WireFacts
<1>2. /\ r \in Requests /\ r.op = wire[i].op /\ r.id = wire[i].id /\ r.managed = wire[i].managed
      /\ r.ans = a
  BY <1>1 DEF Sound, Sent, Requests
<1>3. wire' = w
  BY DEF Answers
<1>. HIDE DEF r
<1>4. w \in Seq(Requests) /\ DOMAIN w = DOMAIN wire /\ \A j \in DOMAIN w : w[j] = IF j = i THEN r ELSE wire[j]
  BY <1>1, <1>2, ExceptSeq
<1>5. \A j \in DOMAIN wire :
        w[j].op = wire[j].op /\ w[j].id = wire[j].id /\ w[j].managed = wire[j].managed
  BY <1>2, <1>4
<1>. HIDE DEF w
<1>6. UNCHANGED <<fb, watch, dialogs, managed, conn, loggedIn, relay, past, presses, signals>>
  BY DEF Answers
<1>7. Sound(r)
  BY <1>1, <1>2 DEF Sound, Sent
<1>8. ASSUME NEW j \in DOMAIN w
      PROVE  /\ Sound(w[j]) /\ Sound(wire[j])'
             /\ w[j].op = "status" /\ ~w[j].managed => fb.statusId \in Videos
  <2>1. Sound(w[j])
    BY <1>1, <1>4, <1>7
  <2>2. Sound(wire[j])'
    BY <1>3, <1>6, <2>1 DEF Sound, Sent
  <2>. QED  BY <1>4, <1>5, <2>1, <2>2 DEF IInv, WireInv
<1>9. WireInv'
  BY <1>3, <1>4, <1>6, <1>8 DEF WireInv
<1>10. TypeOK'
  <2>1. \A j \in DOMAIN w : w[j].op \in {"create", "adopt"} \/ (w[j].op \in Ops /\ w[j].id \in Videos)
    BY <1>8, WireOps DEF Sound
  <2>. QED  BY <1>3, <1>6, <2>1 DEF IInv, TypeOK
<1>11. CreateFlagBacked'
  BY <1>3, <1>4, <1>5, <1>6 DEF IInv, CreateFlagBacked, InFlight
<1>12. Checked
  <2>1. \A v \in Videos : Holders("go_live", v, w) = Holders("go_live", v, wire)
    BY <1>4, <1>5 DEF Holders
  <2>2. \A v \in Videos : Count("go_live", v, w) = Count("go_live", v, wire)
                          /\ Count("go_live", v, wire) \in Nat
    BY <1>1, <1>4, <2>1, CountType
  <2>3. Len(dialogs) \in Nat
    BY WireFacts, LenProperties
  <2>. QED  BY <1>3, <1>6, <2>2, <2>3 DEF Checked, Decides, SentNow
<1>. QED  BY <1>6, <1>9, <1>10, <1>11, <1>12 DEF IInv, BoxInv, Counted, OwnSession, Verified

LEMMA AnswerFacts ==
    ASSUME NEW id \in MaybeVideo, NEW status \in Statuses, NEW title \in MaybeTitle,
           NEW public \in BOOLEAN
    PROVE  /\ Answer(id, status, title, public) \in Told
           /\ Answer(id, status, title, public).id = id
BY DEF Answer, Told

LEMMA FailedFacts == Failed("fail").res # "ok" /\ Failed("auth").res # "ok"
BY DEF Failed

LEMMA ServeKeeps == ASSUME IInv, NEW i \in DOMAIN wire, Serve(i) PROVE IInv' /\ Checked
<1>. DEFINE r == wire[i]
            Graphs == [Videos -> [status: Statuses, title: MaybeTitle]]
<1>1. /\ r \in Requests /\ (r.op \notin {"create", "adopt"} => r.id \in Videos)
      /\ graph \in Graphs
  BY WireFacts DEF Sound, Sent, IInv, TypeOK
<1>. HIDE DEF Graphs
<1>2. ASSUME NEW res \in {"fail", "auth"}, Answers(i, Failed(res)), graph' \in Graphs
      PROVE  IInv' /\ Checked
  BY <1>2, FailedFacts, AnswersKeeps DEF Graphs
<1>3. ASSUME NEW id \in MaybeVideo, NEW status \in Statuses, NEW title \in MaybeTitle,
             NEW public \in BOOLEAN, Answers(i, Answer(id, status, title, public)),
             graph' \in Graphs,
             r.op # "adopt" => id \in Videos,
             r.op \notin {"create", "adopt"} => id = r.id
      PROVE  IInv' /\ Checked
  <2>. DEFINE a == Answer(id, status, title, public)
  <2>1. a \in Told /\ a.id = id
    BY AnswerFacts
  <2>. HIDE DEF a
  <2>2. Answers(i, a)
    BY <1>3 DEF a
  <2>. QED  BY <1>3, <2>1, <2>2, AnswersKeeps DEF Graphs
<1>4. CASE ServeCreate(i, r)
  <2>1. PICK v \in Videos, s \in {"none", "unpublished"} :
          /\ graph' = [graph EXCEPT ![v] = [status |-> "unpublished", title |-> r.title]]
          /\ Answers(i, Answer(v, s, None, FALSE)) \/ Answers(i, Failed("fail"))
    BY <1>4 DEF ServeCreate
  <2>2. graph' \in Graphs
    BY <1>1, <2>1 DEF Graphs, Statuses, Requests
  <2>3. r.op = "create" /\ v \in MaybeVideo /\ s \in Statuses /\ None \in MaybeTitle
    BY <1>4, NoneFacts DEF ServeCreate, MaybeVideo, Statuses
  <2>. QED  BY <1>2, <1>3, <2>1, <2>2, <2>3
<1>5. CASE ServeRead(i, r)
  <2>1. PICK public \in BOOLEAN :
          Answers(i, Answer(r.id, graph[r.id].status, graph[r.id].title, public))
    BY <1>5 DEF ServeRead
  <2>2. graph' = graph /\ r.op \notin {"create", "adopt"}
    BY <1>5 DEF ServeRead, Reads, Chained
  <2>3. graph[r.id].status \in Statuses /\ graph[r.id].title \in MaybeTitle /\ r.id \in MaybeVideo
    BY <1>1, <2>2 DEF Graphs, MaybeVideo
  <2>. QED  BY <1>1, <1>3, <2>1, <2>2, <2>3
<1>6. CASE ServeAdopt(i, r)
  <2>1. PICK v \in MaybeVideo : Answers(i, Answer(v, "live", None, FALSE))
    BY <1>6 DEF ServeAdopt
  <2>2. r.op = "adopt" /\ graph' = graph /\ "live" \in Statuses /\ None \in MaybeTitle
    BY <1>6, NoneFacts DEF ServeAdopt, Statuses
  <2>. QED  BY <1>1, <1>3, <2>1, <2>2
<1>7. CASE ServeWrite(i, r)
  <2>1. /\ r.op \in {"go_live", "end", "delete", "update"}
        /\ graph' = [graph EXCEPT ![r.id] = After(r)]
        /\ \/ Answers(i, Answer(r.id, "none", None, FALSE))
           \/ Answers(i, Failed("fail"))
    BY <1>7 DEF ServeWrite
  <2>2. r.id \in Videos /\ r.title \in MaybeTitle
    BY <1>1, <2>1 DEF Requests
  <2>3. After(r) \in [status: Statuses, title: MaybeTitle]
    <3>. DEFINE v == graph[r.id]
    <3>1. v \in [status: Statuses, title: MaybeTitle]
      BY <1>1, <2>2 DEF Graphs
    <3>2. After(r) \in {v, [v EXCEPT !.status = "live"], [v EXCEPT !.status = "vod"],
                        [v EXCEPT !.status = "deleted"], [v EXCEPT !.title = r.title]}
      BY DEF After
    <3>. HIDE DEF v
    <3>. QED  BY <2>2, <3>1, <3>2 DEF Statuses
  <2>4. graph' \in Graphs
    BY <1>1, <2>1, <2>3 DEF Graphs
  <2>5. r.id \in MaybeVideo /\ "none" \in Statuses /\ None \in MaybeTitle
    BY <2>2, NoneFacts DEF MaybeVideo, Statuses
  <2>. QED  BY <1>2, <1>3, <2>1, <2>2, <2>4, <2>5
<1>8. CASE Refuse(i, r)
  <2>1. PICK res \in {"fail", "auth"} : Answers(i, Failed(res))
    BY <1>8 DEF Refuse
  <2>2. graph' = graph
    BY <1>8 DEF Refuse
  <2>. QED  BY <1>1, <1>2, <2>1, <2>2
<1>. QED  BY <1>4, <1>5, <1>6, <1>7, <1>8 DEF Serve

-----------------------------------------------------------------------------
(* The user.                                                               *)

LEMMA PressedKeeps ==
    ASSUME IInv, NEW effects, \A e \in effects : Good(e, past, InFlight({"create"})),
           Pressed(effects)
    PROVE  IInv' /\ Checked
<1>1. Handle(effects, wire, past) /\ presses' = presses + 1 /\ UNCHANGED <<watch, world, signals>>
  BY DEF Pressed
<1>2. WorldNext /\ managed' = managed
  BY <1>1 DEF IInv, TypeOK, Counted, WorldNext, world
<1>. QED  BY <1>1, <1>2, PressKeeps

LEMMA CurrentFacts ==
    ASSUME IInv
    PROVE  /\ Ctx /\ past \in Pasts /\ Safe(fb, past, InFlight({"create"})) /\ fb \in Docks
           /\ fb.current # None => fb.current \in Videos
BY WireFacts DEF Safe, Docks, MaybeVideo

LEMMA PressStatusKeeps == ASSUME IInv, PressStatus PROVE IInv' /\ Checked
<1>1. fb.current # None /\ Pressed({StartStatus(fb, fb.current)})
  BY DEF PressStatus
<1>2. Good(StartStatus(fb, fb.current), past, InFlight({"create"}))
  BY <1>1, CurrentFacts, StartStatusGood
<1>. QED  BY <1>1, <1>2, PressedKeeps

LEMMA PressCreateKeeps ==
    ASSUME IInv, NEW t \in MaybeTitle, PressCreate(t) PROVE IInv' /\ Checked
<1>1. Pressed({StartCreate(fb, t)})
  BY DEF PressCreate
<1>2. Good(StartCreate(fb, t), past, InFlight({"create"}))
  BY CurrentFacts, StartCreateGood
<1>. QED  BY <1>1, <1>2, PressedKeeps

LEMMA PressGoLiveKeeps ==
    ASSUME IInv, NEW t \in MaybeTitle, PressGoLive(t) PROVE IInv' /\ Checked
<1>1. Pressed(GoLivePressed(fb, t))
  BY DEF PressGoLive
<1>2. \A e \in GoLivePressed(fb, t) : Good(e, past, InFlight({"create"}))
  BY CurrentFacts, GoLivePressedGood
<1>. QED  BY <1>1, <1>2, PressedKeeps

LEMMA PressBoxKeeps == ASSUME IInv, PressEnd \/ PressDelete PROVE IInv' /\ Checked
<1>1. PICK kind \in {"end", "delete"} : fb.current # None /\ Pressed({Box(fb, kind)})
  BY DEF PressEnd, PressDelete
<1>2. fb.current \in Videos /\ kind \in {"go", "ask", "end", "delete"} /\ kind \notin {"go", "ask"}
  BY <1>1, CurrentFacts
<1>3. Good(Box(fb, kind), past, InFlight({"create"}))
  BY <1>2, CurrentFacts, BoxGood
<1>. QED  BY <1>1, <1>3, PressedKeeps

LEMMA PressAdoptKeeps == ASSUME IInv, PressAdopt PROVE IInv' /\ Checked
<1>1. Pressed({Sends(fb, "adopt", None)})
  BY DEF PressAdopt
<1>2. "adopt" \in Ops \ {"create"} /\ "adopt" \notin Chained /\ None \in MaybeVideo
  BY NoneFacts DEF Ops, Chained
<1>3. Good(Sends(fb, "adopt", None), past, InFlight({"create"}))
  BY <1>2, CurrentFacts, SendsFine
<1>. QED  BY <1>1, <1>3, PressedKeeps

LEMMA PressApplyKeeps ==
    ASSUME IInv, NEW t \in MaybeTitle, PressApply(t) PROVE IInv' /\ Checked
<1>. DEFINE f == [fb EXCEPT !.applying = TRUE]
            g == [f EXCEPT !.applyCreate = TRUE]
            r == Req("update", fb.current, t)
<1>1. \/ Pressed({CreateForIntent(g, t)})
      \/ fb.current # None /\ Pressed({Effect(f, <<r>>, <<>>)})
  BY DEF PressApply
<1>2. Keeps(fb, f) /\ Keeps(fb, g)
  BY CurrentFacts DEF Keeps, Docks
<1>. HIDE DEF f, g
<1>3. Safe(f, past, InFlight({"create"})) /\ Safe(g, past, InFlight({"create"}))
  BY <1>2, CurrentFacts, Moves
<1>4. Good(CreateForIntent(g, t), past, InFlight({"create"}))
  BY <1>3, CurrentFacts, CreateForIntentGood
<1>5. ASSUME fb.current # None
      PROVE  Good(Effect(f, <<r>>, <<>>), past, InFlight({"create"}))
  <2>1. fb.current \in Videos /\ fb.current \in MaybeVideo /\ "update" \in Ops
    BY <1>5, CurrentFacts DEF MaybeVideo, Ops
  <2>2. /\ r \in Requests /\ r.op = "update" /\ r.id = fb.current /\ r.managed = managed
        /\ r.ans = Pending
    BY <2>1, CurrentFacts, ReqFacts
  <2>. HIDE DEF r
  <2>3. New(r, f)
    BY <2>1, <2>2 DEF New, Sent, Chained
  <2>4. Safe(f, past, InFlight({"create"}) \/ r.op = "create") /\ r.op # "go_live"
    BY <1>3, <2>2 DEF Safe
  <2>. QED  BY <2>3, <2>4, CurrentFacts, SendsOne
<1>. QED  BY <1>1, <1>4, <1>5, PressedKeeps

\* The last readings of the signal.
LEMMA Ballots ==
    /\ <<>> \in BoundedSeq(BOOLEAN, 3)
    /\ \A s \in BoundedSeq(BOOLEAN, 3), x \in BOOLEAN :
         LastThree(Append(s, x)) \in BoundedSeq(BOOLEAN, 3)
<1>1. ASSUME NEW s \in Seq(BOOLEAN), Len(s) <= 3 PROVE s \in BoundedSeq(BOOLEAN, 3)
  <2>1. Len(s) \in Nat /\ DOMAIN s = 1..Len(s)
    BY LenProperties
  <2>2. Len(s) \in 0..3
    BY <1>1, <2>1
  <2>3. s \in [1..Len(s) -> BOOLEAN]
    BY <2>1
  <2>. QED  BY <2>2, <2>3 DEF BoundedSeq, SeqOf
<1>2. ASSUME NEW s \in BoundedSeq(BOOLEAN, 3) PROVE s \in Seq(BOOLEAN) /\ Len(s) <= 3
  <2>1. PICK m \in 0..3 : s \in [1..m -> BOOLEAN]
    BY DEF BoundedSeq, SeqOf
  <2>2. s \in Seq(BOOLEAN) /\ Len(s) = m
    BY <2>1
  <2>. QED  BY <2>2
<1>3. ASSUME NEW s \in BoundedSeq(BOOLEAN, 3), NEW x \in BOOLEAN
      PROVE  LastThree(Append(s, x)) \in BoundedSeq(BOOLEAN, 3)
  <2>. DEFINE t == Append(s, x)
  <2>1. t \in Seq(BOOLEAN) /\ Len(t) = Len(s) + 1 /\ Len(s) <= 3 /\ Len(s) \in Nat
    BY <1>2, AppendProperties, LenProperties
  <2>. HIDE DEF t
  <2>2. Len(t) > 3 => Tail(t) \in Seq(BOOLEAN) /\ Len(Tail(t)) = Len(t) - 1
    BY <2>1, HeadTailProperties, EmptySeq
  <2>3. CASE Len(t) > 3
    <3>1. LastThree(t) = Tail(t) /\ Len(t) - 1 <= 3
      BY <2>1, <2>3 DEF LastThree
    <3>. QED  BY <1>1, <2>2, <2>3, <3>1 DEF t
  <2>4. CASE ~(Len(t) > 3)
    <3>1. LastThree(t) = t /\ Len(t) <= 3
      BY <2>1, <2>4 DEF LastThree
    <3>. QED  BY <1>1, <2>1, <3>1 DEF t
  <2>. QED  BY <2>3, <2>4
<1>4. <<>> \in Seq(BOOLEAN) /\ Len(<<>>) <= 3
  OBVIOUS
<1>. QED  BY <1>1, <1>3, <1>4

\* The dock forgets what it verified, or shows another video.
LEMMA ChooseKeeps == ASSUME IInv, Choose PROVE IInv' /\ Checked
<1>1. /\ fb' \in Shown(fb, None) /\ presses' = presses + 1
      /\ UNCHANGED <<watch, dialogs, wire, world, past, signals>>
  BY DEF Choose
<1>2. PICK w \in MaybeVideo : fb' = [fb EXCEPT !.current = w]
  BY <1>1 DEF Shown, MaybeVideo
<1>3. /\ fb' \in Docks /\ fb'.statusId = fb.statusId /\ fb'.creating = fb.creating
      /\ fb'.session = fb.session /\ fb'.expected = fb.expected /\ fb'.verdict = fb.verdict
      /\ fb'.verifyId = fb.verifyId
  BY <1>2, CurrentFacts DEF Docks
<1>4. WorldNext
  BY <1>1 DEF IInv, TypeOK, Counted, WorldNext, world
<1>5. CreateFlagBacked' /\ OwnSession' /\ Verified(fb, past)'
  BY <1>1, <1>3 DEF IInv, CreateFlagBacked, InFlight, OwnSession, Verified, world
<1>6. past' \in Pasts /\ past'.went = past.went
  BY <1>1, CurrentFacts
<1>. QED  BY <1>1, <1>3, <1>4, <1>5, <1>6, QuietKeeps

LEMMA ForgottenFacts ==
    ASSUME past \in Pasts
    PROVE  Forgotten(past) \in Pasts /\ Forgotten(past).went = past.went
BY DEF Forgotten, Pasts

LEMMA DisconnectKeeps == ASSUME IInv, Disconnect PROVE IInv' /\ Checked
<1>. DEFINE c == ClearVerify(fb)
            going == c.going /\ managed
            tried == IF managed THEN c.tried ELSE None
            asked == IF managed THEN c.asked ELSE None
<1>1. /\ presses' = presses + 1 /\ conn' = [conn EXCEPT ![managed] = FALSE]
      /\ fb' = [c EXCEPT !.creating = FALSE, !.applyCreate = FALSE, !.goAfter = FALSE,
                         !.served = FALSE, !.going = @ /\ managed,
                         !.tried = IF managed THEN @ ELSE None,
                         !.asked = IF managed THEN @ ELSE None]
      /\ Stopped /\ past' = Forgotten(past)
      /\ UNCHANGED <<watch, dialogs, wire, graph, managed, loggedIn, signals>>
  BY DEF Disconnect
<1>2. /\ c \in Docks /\ c.verifyId = None /\ c.expected = None /\ c.verdict = "blocked"
      /\ c.session = fb.session /\ c.statusId = fb.statusId
  BY CurrentFacts, ClearVerifyFacts
<1>. HIDE DEF c
<1>3. going \in BOOLEAN /\ tried \in MaybeVideo /\ asked \in MaybeVideo
  BY <1>2, NoneFacts DEF Docks
<1>4. fb' = [c EXCEPT !.creating = FALSE, !.applyCreate = FALSE, !.goAfter = FALSE,
                      !.served = FALSE, !.going = going, !.tried = tried, !.asked = asked]
  BY <1>1, <1>2 DEF Docks
<1>. HIDE DEF going, tried, asked
<1>5. /\ fb' \in Docks /\ fb'.verifyId = None /\ fb'.expected = None /\ fb'.verdict = "blocked"
      /\ fb'.session = fb.session /\ fb'.statusId = fb.statusId /\ fb'.creating = FALSE
  <2>. DEFINE g == [c EXCEPT !.creating = FALSE, !.applyCreate = FALSE, !.goAfter = FALSE,
                             !.served = FALSE, !.going = going, !.tried = tried, !.asked = asked]
  <2>1. g \in Docks
    BY <1>2, <1>3 DEF Docks
  <2>2. /\ g.verifyId = c.verifyId /\ g.expected = c.expected /\ g.verdict = c.verdict
        /\ g.session = c.session /\ g.statusId = c.statusId /\ g.creating = FALSE
    BY <1>2 DEF Docks
  <2>3. fb' = g
    BY <1>4
  <2>. HIDE DEF g
  <2>. QED  BY <1>2, <2>1, <2>2, <2>3
<1>6. relay' \in {"off", "late", "on", "ok"}
  BY <1>1 DEF Stopped, IInv, TypeOK
<1>7. conn' \in [BOOLEAN -> BOOLEAN]
  BY <1>1 DEF IInv, TypeOK
<1>8. WorldNext
  BY <1>1, <1>6, <1>7 DEF IInv, TypeOK, Counted, WorldNext
<1>9. past' \in Pasts /\ past'.went = past.went
  BY <1>1, CurrentFacts, ForgottenFacts
<1>10. CreateFlagBacked' /\ Verified(fb, past)'
  BY <1>5 DEF CreateFlagBacked, Verified
<1>11. OwnSession'
  BY <1>1, <1>5, <1>9 DEF IInv, OwnSession
<1>. QED  BY <1>1, <1>5, <1>8, <1>9, <1>10, <1>11, QuietKeeps

LEMMA ModeSwitchKeeps == ASSUME IInv, ModeSwitch PROVE IInv' /\ Checked
<1>. DEFINE c == EndSession(ClearVerify(fb))
<1>1. /\ presses' = presses + 1 /\ managed' = ~managed
      /\ fb' = [c EXCEPT !.chain = None, !.quiet = FALSE, !.creating = FALSE,
                         !.applyCreate = FALSE, !.goAfter = FALSE, !.served = FALSE,
                         !.going = FALSE, !.tried = None, !.asked = None]
      /\ watch' = [watch EXCEPT !.fails = 0, !.ballot = <<>>, !.gone = "no"]
      /\ Stopped /\ past' = Forgotten(past)
      /\ UNCHANGED <<dialogs, wire, graph, conn, loggedIn, signals>>
  BY DEF ModeSwitch
<1>2. /\ c \in Docks /\ c.verifyId = None /\ c.expected = None /\ c.verdict = "blocked"
      /\ c.session = None /\ c.statusId = fb.statusId
  <2>. DEFINE d == ClearVerify(fb)
  <2>1. /\ d \in Docks /\ d.verifyId = None /\ d.expected = None /\ d.verdict = "blocked"
        /\ d.statusId = fb.statusId
    BY CurrentFacts, ClearVerifyFacts
  <2>. HIDE DEF d
  <2>2. c = EndSession(d)
    BY DEF d
  <2>3. EndSession(d).session = None
    BY <2>1 DEF EndSession, Docks
  <2>. QED  BY <2>1, <2>2, <2>3, EndSessionKeeps DEF Keeps
<1>. HIDE DEF c
<1>3. /\ fb' \in Docks /\ fb'.verifyId = None /\ fb'.expected = None /\ fb'.verdict = "blocked"
      /\ fb'.session = None /\ fb'.statusId = fb.statusId /\ fb'.creating = FALSE
  <2>. DEFINE g == [c EXCEPT !.chain = None, !.quiet = FALSE, !.creating = FALSE,
                             !.applyCreate = FALSE, !.goAfter = FALSE, !.served = FALSE,
                             !.going = FALSE, !.tried = None, !.asked = None]
  <2>1. g \in Docks
    BY <1>2, ForgetfulDock
  <2>2. /\ g.verifyId = c.verifyId /\ g.expected = c.expected /\ g.verdict = c.verdict
        /\ g.session = c.session /\ g.statusId = c.statusId /\ g.creating = FALSE
    BY <1>2 DEF Docks
  <2>3. fb' = g
    BY <1>1
  <2>. HIDE DEF g
  <2>. QED  BY <1>2, <2>1, <2>2, <2>3
<1>4. relay' \in {"off", "late", "on", "ok"}
  BY <1>1 DEF Stopped, IInv, TypeOK
<1>5. watch' \in Watches
  <2>1. watch \in Watches /\ <<>> \in BoundedSeq(BOOLEAN, 3) /\ 0 \in 0..GoneFails
    BY Ballots, LiveAssumption DEF IInv, TypeOK
  <2>. QED  BY <1>1, <2>1 DEF Watches
<1>6. WorldNext
  BY <1>1, <1>4, <1>5 DEF IInv, TypeOK, Counted, WorldNext
<1>7. past' \in Pasts /\ past'.went = past.went
  BY <1>1, CurrentFacts, ForgottenFacts
<1>8. CreateFlagBacked' /\ Verified(fb, past)' /\ OwnSession'
  BY <1>3 DEF CreateFlagBacked, Verified, OwnSession
<1>. QED  BY <1>1, <1>3, <1>6, <1>7, <1>8, QuietKeeps

LEMMA ConnectKeeps == ASSUME IInv, Connect PROVE IInv' /\ Checked
<1>. DEFINE e == IF fb.quiet \/ fb.current = None THEN Leave(fb) ELSE QuietStatus(fb, fb.current)
<1>1. /\ presses' = presses + 1 /\ conn' = [conn EXCEPT ![managed] = TRUE]
      /\ Handle({e}, wire, past)
      /\ UNCHANGED <<watch, graph, managed, loggedIn, relay, signals>>
  BY DEF Connect
<1>2. Good(e, past, InFlight({"create"}))
  BY CurrentFacts, Leaves, QuietStatusGood
<1>. HIDE DEF e
<1>3. WorldNext /\ managed' = managed
  BY <1>1 DEF IInv, TypeOK, Counted, WorldNext
<1>. QED  BY <1>1, <1>2, <1>3, PressKeeps

LEMMA LoginKeeps == ASSUME IInv, Login PROVE IInv' /\ Checked
<1>1. /\ loggedIn' = TRUE /\ presses' = presses + 1
      /\ UNCHANGED <<fb, watch, dialogs, wire, graph, managed, conn, relay, past, signals>>
  BY DEF Login
<1>2. WorldNext
  BY <1>1 DEF IInv, TypeOK, Counted, WorldNext
<1>3. CreateFlagBacked' /\ OwnSession' /\ Verified(fb, past)'
  BY <1>1 DEF IInv, CreateFlagBacked, InFlight, OwnSession, Verified
<1>. QED  BY <1>1, <1>2, <1>3, CurrentFacts, QuietKeeps

\* The user answers: what is sent was asked about.
LEMMA AnswerDialogKeeps ==
    ASSUME IInv, AnswerDialog
    PROVE  IInv' /\ Checked /\ fb'.current = fb.current
<1>. DEFINE x == Last(dialogs)
<1>1. /\ dialogs # <<>> /\ dialogs' = Front(dialogs) /\ UNCHANGED <<watch, world, presses, signals>>
  BY DEF AnswerDialog
<1>2. PICK e \in {Leave(fb), Answered(x)} :
        /\ fb' = e.f /\ wire' = wire \o e.out
        /\ past' = [past EXCEPT !.went = @ \union GoLivesOf(e.out)]
  BY DEF AnswerDialog
<1>3. dialogs \in Seq(Boxes) /\ Len(dialogs) \in Nat /\ DOMAIN dialogs = 1..Len(dialogs)
  BY WireFacts, LenProperties
<1>4. Len(dialogs) # 0
  BY <1>1, <1>3, EmptySeq
<1>5. x \in Boxes
  BY <1>3, <1>4 DEF Last
<1>6. Front(dialogs) \in Seq(Boxes) /\ Len(Front(dialogs)) = Len(dialogs) - 1
  <2>1. \A i \in 1..(Len(dialogs) - 1) : dialogs[i] \in Boxes
    BY <1>3
  <2>2. /\ SubSeq(dialogs, 1, Len(dialogs) - 1) \in Seq(Boxes)
        /\ Len(SubSeq(dialogs, 1, Len(dialogs) - 1)) = Len(dialogs) - 1
    BY <1>3, <1>4, SubSeqProperties
  <2>. QED  BY <2>2 DEF Front
<1>. HIDE DEF x
<1>7. Fine(Answered(x), past, InFlight({"create"})) /\ Answered(x).f.current = fb.current
  <2>1. x.id \in Videos /\ x.kind \in {"go", "ask", "end", "delete"}
    BY <1>5 DEF Boxes
  <2>2. CASE x.kind = "go"
    BY <2>1, <2>2, CurrentFacts, SendManualFine DEF Answered
  <2>3. CASE x.kind = "ask"
    BY <2>1, <2>3, CurrentFacts, SendAutoFine DEF Answered
  <2>4. CASE x.kind \in {"end", "delete"}
    <3>1. \/ Answered(x) = Leave(fb)
          \/ managed /\ Answered(x) = StartManaged(fb, x.kind, x.id)
          \/ Answered(x) = Sends(fb, x.kind, x.id)
      BY <2>4 DEF Answered
    <3>2. Good(Leave(fb), past, InFlight({"create"})) /\ Leave(fb).f = fb
      BY CurrentFacts, Leaves
    <3>3. managed => /\ Fine(StartManaged(fb, x.kind, x.id), past, InFlight({"create"}))
                     /\ StartManaged(fb, x.kind, x.id).f = fb
      BY <2>1, <2>4, CurrentFacts, StartManagedGood
    <3>4. /\ x.kind \in Ops \ {"create"} /\ x.kind \notin Chained /\ x.id \in MaybeVideo
          /\ x.kind \notin {"adopt", "retry", "after_go_live", "status"}
      BY <2>1, <2>4 DEF Ops, Chained, MaybeVideo
    <3>5. Fine(Sends(fb, x.kind, x.id), past, InFlight({"create"})) /\ Sends(fb, x.kind, x.id).f = fb
      BY <2>1, <3>4, CurrentFacts, SendsFine
    <3>. QED  BY <3>1, <3>2, <3>3, <3>5 DEF Good
  <2>. QED  BY <2>1, <2>2, <2>3, <2>4
<1>8. Good(Leave(fb), past, InFlight({"create"})) /\ Leave(fb).f = fb
  BY CurrentFacts, Leaves
<1>9. Fine(e, past, InFlight({"create"})) /\ e.f.current = fb.current
  BY <1>2, <1>7, <1>8 DEF Good
<1>10. BoxInv'
  BY <1>1, <1>6 DEF BoxInv
<1>11. WorldNext /\ managed' = managed
  BY <1>1 DEF IInv, TypeOK, Counted, WorldNext, world
<1>12. InFlight({"create"}) => \E i \in DOMAIN wire : wire[i].op = "create" /\ wire[i].managed = managed
  BY DEF InFlight
<1>13. wire \in Seq(Requests) /\ past \in Pasts /\ \A i \in DOMAIN wire : \E j \in DOMAIN wire : wire[i] = wire[j]
  BY WireFacts
<1>14. IInv'
  BY <1>2, <1>9, <1>10, <1>11, <1>12, <1>13, HandleInv
<1>15. Checked
  BY <1>1, <1>3, <1>6 DEF Checked, Decides
<1>. QED  BY <1>2, <1>9, <1>14, <1>15

-----------------------------------------------------------------------------
(* The signal of the relay.                                                *)

LEMMA TickKeeps ==
    ASSUME IInv, Tick
    PROVE  IInv' /\ Checked /\ fb'.current = fb.current
<1>1. /\ watch' = [watch EXCEPT !.gone = IF @ = "short" THEN "long" ELSE @]
      /\ UNCHANGED <<dialogs, wire, world, past, presses, signals>>
      /\ fb' = fb \/ fb' = [fb EXCEPT !.settled = TRUE]
  BY DEF Tick
<1>2. /\ fb' \in Docks /\ fb'.statusId = fb.statusId /\ fb'.creating = fb.creating
      /\ fb'.session = fb.session /\ fb'.expected = fb.expected /\ fb'.verdict = fb.verdict
      /\ fb'.verifyId = fb.verifyId /\ fb'.current = fb.current
  BY <1>1, CurrentFacts DEF Docks
<1>3. watch' \in Watches
  BY <1>1 DEF IInv, TypeOK, Watches
<1>4. WorldNext
  BY <1>1, <1>3 DEF IInv, TypeOK, Counted, WorldNext, world
<1>5. CreateFlagBacked' /\ OwnSession' /\ Verified(fb, past)'
  BY <1>1, <1>2 DEF IInv, CreateFlagBacked, InFlight, OwnSession, Verified, world
<1>6. past' \in Pasts /\ past'.went = past.went
  BY <1>1, CurrentFacts
<1>. QED  BY <1>1, <1>2, <1>4, <1>5, <1>6, QuietKeeps

LEMMA RelayChangeKeeps == ASSUME IInv, RelayChange PROVE IInv' /\ Checked
<1>. DEFINE effects == IF relay' = "ok" THEN TryAuto(fb, watch.emitter, relay') ELSE {Leave(fb)}
<1>1. /\ signals' = signals + 1 /\ relay' \in {"off", "late", "on", "ok"}
      /\ Handle(effects, wire, past)
      /\ UNCHANGED <<watch, graph, managed, conn, loggedIn, presses>>
  BY DEF RelayChange
<1>2. \A e \in effects : Good(e, past, InFlight({"create"}))
  BY CurrentFacts, Leaves, TryAutoGood
<1>. HIDE DEF effects
<1>3. WorldNext /\ managed' = managed
  BY <1>1 DEF IInv, TypeOK, Counted, WorldNext
<1>. QED  BY <1>1, <1>2, <1>3, PressKeeps

LEMMA NotedFacts ==
    ASSUME watch \in Watches, NEW there \in BOOLEAN
    PROVE  Noted(there) \in Watches
<1>. DEFINE n == IF watch.fails = GoneFails THEN GoneFails ELSE watch.fails + 1
<1>1. /\ LastThree(Append(watch.ballot, TRUE)) \in BoundedSeq(BOOLEAN, 3)
      /\ LastThree(Append(watch.ballot, FALSE)) \in BoundedSeq(BOOLEAN, 3)
  BY Ballots DEF Watches
<1>2. n \in 0..GoneFails /\ 0 \in 0..GoneFails
  BY LiveAssumption DEF Watches
<1>3. CASE there
  BY <1>1, <1>2, <1>3 DEF Noted, Watches
<1>4. CASE ~there
  <2>1. Noted(there) = [watch EXCEPT !.fails = n, !.ballot = LastThree(Append(@, FALSE)),
                          !.gone = IF @ = "no" /\ n \in {1, GoneFails} THEN "short" ELSE @]
    BY <1>4 DEF Noted
  <2>. HIDE DEF n
  <2>. QED  BY <1>1, <1>2, <2>1 DEF Watches
<1>. QED  BY <1>3, <1>4

LEMMA ReadingKeeps ==
    ASSUME IInv, NEW kind \in {"emitter", "none", "unreadable"}, NEW t \in MaybeTitle,
           Reading(kind, t)
    PROVE  IInv' /\ Checked
<1>. DEFINE n == Noted(kind = "emitter")
            w == [n EXCEPT !.emitter = IF kind = "unreadable" THEN @ ELSE kind = "emitter"]
            g == [fb EXCEPT !.endConfirm = FALSE]
            f == IF kind = "emitter" THEN g ELSE fb
            effects == IF kind # "emitter"
                       THEN {IF w.fails = GoneFails THEN MaybeAutoEnd(f, w) ELSE Leave(f)}
                       ELSE IF f.current = None THEN {SignalWithout(f, t)}
                       ELSE TryAuto(f, TRUE, relay)
<1>1. /\ watch' = w /\ Handle(effects, wire, past)
      /\ relay' = IF relay = "late" THEN "off" ELSE relay
      /\ signals' = signals + 1
      /\ UNCHANGED <<graph, managed, conn, loggedIn, presses>>
  BY DEF Reading
<1>2. n \in Watches
  BY NotedFacts DEF IInv, TypeOK
<1>. HIDE DEF n
<1>3. w \in Watches
  BY <1>2 DEF Watches
<1>. HIDE DEF w
<1>4. Keeps(fb, g)
  BY CurrentFacts DEF Keeps, Docks
<1>. HIDE DEF g
<1>5. Safe(f, past, InFlight({"create"}))
  BY <1>4, CurrentFacts, Moves
<1>. HIDE DEF f
<1>6. \A e \in effects : Good(e, past, InFlight({"create"}))
  <2>1. Good(MaybeAutoEnd(f, w), past, InFlight({"create"}))
    BY <1>5, CurrentFacts, MaybeAutoEndGood
  <2>2. Good(Leave(f), past, InFlight({"create"}))
    BY <1>5, Leaves
  <2>3. Good(SignalWithout(f, t), past, InFlight({"create"}))
    BY <1>5, CurrentFacts, SignalWithoutGood
  <2>4. \A e \in TryAuto(f, TRUE, relay) : Good(e, past, InFlight({"create"}))
    BY <1>5, CurrentFacts, TryAutoGood
  <2>. QED  BY <2>1, <2>2, <2>3, <2>4
<1>. HIDE DEF effects
<1>7. WorldNext /\ managed' = managed
  BY <1>1, <1>3 DEF IInv, TypeOK, Counted, WorldNext
<1>. QED  BY <1>1, <1>6, <1>7, PressKeeps

-----------------------------------------------------------------------------
(* The replies are delivered.                                              *)

\* What a reply does, and which video it leaves on show.
Delivers(i) ==
    wire[i].managed /\ managed /\ wire[i].op \notin {"status", "create", "adopt"} => Stays(wire[i], fb')

LEMMA ReplyKeeps ==
    ASSUME IInv, NEW i \in DOMAIN wire, Reply(i)
    PROVE  /\ IInv' /\ Checked /\ Delivers(i)
           /\ presses' = presses /\ signals' = signals
           /\ \E out \in Seq(Requests) : wire' = RemoveAt(wire, i) \o out
<1>. DEFINE r == wire[i]
            rest == RemoveAt(wire, i)
            c == \E k \in DOMAIN rest : rest[k].op = "create" /\ rest[k].managed = managed
<1>1. wire \in Seq(Requests) /\ Ctx /\ past \in Pasts /\ Sound(r)
      /\ Safe(fb, past, InFlight({"create"}))
  BY WireFacts
<1>2. rest \in Seq(Requests) /\ Left(rest, wire, i)
  BY <1>1, RemoveAtFacts, LeftFacts
<1>3. \A k \in DOMAIN rest : \E j \in DOMAIN wire : rest[k] = wire[j]
  BY <1>2 DEF Left
<1>4. \A v \in Videos : Count("go_live", v, rest) <= Count("go_live", v, wire)
  BY <1>1, CountLeft
<1>5. /\ r.ans # Pending
      /\ IF Dropped(r)
         THEN /\ wire' = rest /\ UNCHANGED <<fb, dialogs, past, conn>>
              /\ loggedIn' = (loggedIn /\ ~(Expired(r) /\ r.managed))
         ELSE /\ Ends(r)
              /\ IF r.ans.res = "ok"
                 THEN Handle(IF r.managed THEN ManagedDone(r, r.ans) ELSE DirectDone(r, r.ans),
                             rest, History(r, r.ans))
                 ELSE Handle({IF r.managed THEN Leave(ManagedFailed(r)) ELSE DirectFailed(r)},
                             rest, past)
      /\ UNCHANGED <<watch, graph, managed, relay, presses, signals>>
  BY DEF Reply
<1>6. r.op = "status" /\ ~r.managed => fb.statusId \in Videos
  BY DEF IInv, WireInv
<1>7. r.managed \in BOOLEAN /\ managed \in BOOLEAN
  BY <1>1 DEF Ctx, Sound, Sent, Requests
<1>8. InFlight({"create"}) => c \/ (r.op = "create" /\ r.managed = managed)
  <2>1. SUFFICES ASSUME NEW j \in DOMAIN wire, wire[j].op = "create", wire[j].managed = managed
                 PROVE  c \/ (r.op = "create" /\ r.managed = managed)
    BY DEF InFlight
  <2>2. CASE j = i
    BY <2>1, <2>2
  <2>3. CASE j # i
    <3>1. PICK k \in DOMAIN rest : rest[k] = wire[j]
      BY <1>2, <2>3 DEF Left
    <3>. QED  BY <2>1, <3>1
  <2>. QED  BY <2>2, <2>3
<1>9. Safe(fb, past, c \/ r.op = "create")
  BY <1>1, <1>8 DEF Safe
<1>10. WorldNext
  <2>1. loggedIn' \in BOOLEAN /\ conn' \in [BOOLEAN -> BOOLEAN]
    BY <1>5, <1>7 DEF Ends, IInv, TypeOK
  <2>. QED  BY <1>5, <2>1 DEF IInv, TypeOK, Counted, WorldNext
<1>. HIDE DEF c, rest, r
<1>11. CASE Dropped(r)
  <2>1. r.op = "create" => r.managed # managed
    BY <1>11 DEF Dropped
  <2>2. Safe(fb, past, c)
    BY <1>1, <1>8, <2>1 DEF Safe
  <2>3. Good(Leave(fb), past, c) /\ Leave(fb).f = fb /\ Leave(fb).out = <<>> /\ Leave(fb).box = <<>>
    BY <2>2, Leaves DEF Leave, Effect
  <2>4. wire' = rest \o Leave(fb).out /\ dialogs' = dialogs \o Leave(fb).box
    <3>1. rest \o <<>> = rest
      BY <1>2, ConcatEmptySeq
    <3>2. dialogs \o <<>> = dialogs
      BY WireFacts, ConcatEmptySeq
    <3>. QED  BY <1>5, <1>11, <2>3, <3>1, <3>2
  <2>5. past' = [past EXCEPT !.went = @ \union GoLivesOf(Leave(fb).out)]
    <3>1. GoLivesOf(<<>>) = {}
      BY DEF GoLivesOf
    <3>2. past' = past
      BY <1>5, <1>11
    <3>. QED  BY <1>1, <2>3, <3>1, <3>2 DEF Pasts
  <2>6. c => \E k \in DOMAIN rest : rest[k].op = "create" /\ rest[k].managed = managed
    BY DEF c
  <2>7. fb' = Leave(fb).f /\ managed' = managed
    BY <1>5, <1>11, <2>3
  <2>8. IInv' /\ Checked
    BY <1>1, <1>2, <1>3, <1>4, <1>10, <2>3, <2>4, <2>5, <2>6, <2>7, HandleKeeps
  <2>9. Delivers(i)
    BY <2>3, <2>7 DEF Delivers, Stays
  <2>10. Leave(fb).out \in Seq(Requests)
    BY <2>3 DEF Good, Fine
  <2>. QED  BY <1>5, <2>4, <2>8, <2>9, <2>10 DEF rest
<1>12. CASE ~Dropped(r)
  <2>1. /\ r.managed => managed
        /\ ~r.managed => (managed => r.op = "update")
    BY <1>7, <1>12 DEF Dropped
  <2>2. \E p \in Pasts : \E e :
          /\ p.went = past.went /\ Good(e, p, c)
          /\ r.managed /\ r.op \notin {"status", "create", "adopt"} => Stays(r, e.f)
          /\ fb' = e.f /\ wire' = rest \o e.out /\ dialogs' = dialogs \o e.box
          /\ past' = [p EXCEPT !.went = @ \union GoLivesOf(e.out)]
    <3>1. CASE r.ans.res = "ok"
      <4>. DEFINE p == History(r, r.ans)
      <4>1. PICK e \in IF r.managed THEN ManagedDone(r, r.ans) ELSE DirectDone(r, r.ans) :
              /\ fb' = e.f /\ wire' = rest \o e.out /\ dialogs' = dialogs \o e.box
              /\ past' = [p EXCEPT !.went = @ \union GoLivesOf(e.out)]
        BY <1>5, <1>12, <3>1 DEF Handle
      <4>2. p \in Pasts /\ p.went = past.went
        BY <1>1, <3>1, HistoryFacts
      <4>3. Good(e, p, c) /\ (r.managed /\ r.op \notin {"status", "create", "adopt"} => Stays(r, e.f))
        <5>1. CASE r.managed
          BY <1>1, <1>9, <2>1, <3>1, <4>1, <5>1, ManagedDoneGood
        <5>2. CASE ~r.managed
          BY <1>1, <1>9, <2>1, <3>1, <4>1, <5>2, DirectDoneGood
        <5>. QED  BY <5>1, <5>2
      <4>. HIDE DEF p
      <4>. QED  BY <4>1, <4>2, <4>3
    <3>2. CASE r.ans.res # "ok"
      <4>. DEFINE e == IF r.managed THEN Leave(ManagedFailed(r)) ELSE DirectFailed(r)
      <4>1. /\ fb' = e.f /\ wire' = rest \o e.out /\ dialogs' = dialogs \o e.box
            /\ past' = [past EXCEPT !.went = @ \union GoLivesOf(e.out)]
        BY <1>5, <1>12, <3>2 DEF Handle
      <4>2. Good(e, past, c) /\ (r.managed => e.f.current = fb.current)
        <5>1. CASE r.managed
          BY <1>1, <1>9, <5>1, ManagedFailedGood DEF Leave, Effect
        <5>2. CASE ~r.managed
          BY <1>1, <1>6, <1>9, <2>1, <5>2, DirectFailedGood
        <5>. QED  BY <5>1, <5>2
      <4>. HIDE DEF e
      <4>. QED  BY <1>1, <4>1, <4>2 DEF Stays
    <3>. QED  BY <3>1, <3>2
  <2>3. PICK p \in Pasts : \E e :
          /\ p.went = past.went /\ Good(e, p, c)
          /\ r.managed /\ r.op \notin {"status", "create", "adopt"} => Stays(r, e.f)
          /\ fb' = e.f /\ wire' = rest \o e.out /\ dialogs' = dialogs \o e.box
          /\ past' = [p EXCEPT !.went = @ \union GoLivesOf(e.out)]
    BY <2>2
  <2>4. PICK e :
          /\ p.went = past.went /\ Good(e, p, c)
          /\ r.managed /\ r.op \notin {"status", "create", "adopt"} => Stays(r, e.f)
          /\ fb' = e.f /\ wire' = rest \o e.out /\ dialogs' = dialogs \o e.box
          /\ past' = [p EXCEPT !.went = @ \union GoLivesOf(e.out)]
    BY <2>3
  <2>5. c => \E k \in DOMAIN rest : rest[k].op = "create" /\ rest[k].managed = managed
    BY DEF c
  <2>6. managed' = managed
    BY <1>5
  <2>7. IInv' /\ Checked
    BY <1>2, <1>3, <1>4, <1>10, <2>4, <2>5, <2>6, HandleKeeps
  <2>8. Delivers(i)
    BY <2>4 DEF Delivers, Stays, r
  <2>9. e.out \in Seq(Requests)
    BY <2>4 DEF Good, Fine
  <2>. QED  BY <1>5, <2>4, <2>7, <2>8, <2>9 DEF rest
<1>. QED  BY <1>11, <1>12

\* Two requests whose loss leaves the same ones in flight are the same.
LEMMA SameLeft ==
    ASSUME NEW S, NEW w \in Seq(S), NEW i \in DOMAIN w, NEW j \in DOMAIN w,
           i < j, RemoveAt(w, i) = RemoveAt(w, j)
    PROVE  w[i] = w[j]
<1>. DEFINE Odd == {k \in i..j : w[k] # w[i]}
            R == {ss \in Nat \X Nat : ss[1] < ss[2]}
            L == Len(w)
<1>1. /\ i \in 1..L /\ j \in 1..L /\ L \in Nat
  BY LenProperties
<1>2. \A k \in 1..(L - 1) : w[IF k < i THEN k ELSE k + 1] = w[IF k < j THEN k ELSE k + 1]
  <2>1. \A k \in 1..(L - 1) : RemoveAt(w, i)[k] = w[IF k < i THEN k ELSE k + 1]
    BY RemoveAtFacts
  <2>2. \A k \in 1..(L - 1) : RemoveAt(w, j)[k] = w[IF k < j THEN k ELSE k + 1]
    BY RemoveAtFacts
  <2>. QED  BY <2>1, <2>2
<1>. HIDE DEF L
<1>3. \A k \in i..(j - 1) : w[k + 1] = w[k]
  <2>1. SUFFICES ASSUME NEW k \in i..(j - 1) PROVE w[k + 1] = w[k]
    OBVIOUS
  <2>2. k \in 1..(L - 1) /\ ~(k < i) /\ k < j
    BY <1>1
  <2>. QED  BY <1>2, <2>2
<1>4. SUFFICES ASSUME Odd # {} PROVE FALSE
  BY <1>1
<1>5. Odd \subseteq Nat
  BY <1>1
<1>6. PICK x \in Odd : \A y \in Odd : <<y, x>> \notin R
  <2>1. IsWellFoundedOn(R, Nat)
    BY NatLessThanWellFounded DEF OpToRel
  <2>. HIDE DEF R, Odd
  <2>. QED  BY <1>4, <1>5, <2>1, WFMin
<1>7. x \in i..j /\ w[x] # w[i] /\ x # i
  BY <1>6
<1>8. x - 1 \in i..(j - 1) /\ (x - 1) + 1 = x /\ x - 1 \in i..j /\ x - 1 < x /\ x \in Nat /\ x - 1 \in Nat
  BY <1>1, <1>7
<1>9. w[x] = w[x - 1]
  BY <1>3, <1>8
<1>10. x - 1 \in Odd
  BY <1>7, <1>8, <1>9
<1>11. <<x - 1, x>> \in R
  BY <1>8
<1>. QED  BY <1>6, <1>10, <1>11

\* A reply that was delivered is told from what is left.
LEMMA WhichReply ==
    ASSUME NEW w \in Seq(Requests), NEW i \in DOMAIN w, NEW j \in DOMAIN w,
           NEW out \in Seq(Requests), IsPrefix(RemoveAt(w, i), RemoveAt(w, j) \o out)
    PROVE  w[i] = w[j]
<1>. DEFINE u == RemoveAt(w, i)
            v == RemoveAt(w, j)
            n == Len(w) - 1
<1>1. /\ u \in Seq(Requests) /\ v \in Seq(Requests) /\ Len(u) = n /\ Len(v) = n
  BY RemoveAtFacts
<1>2. n \in Nat /\ Len(out) \in Nat
  BY <1>1, LenProperties
<1>3. /\ v \o out \in Seq(Requests) /\ Len(v \o out) = n + Len(out)
      /\ \A k \in 1..n : (v \o out)[k] = v[k]
  <2>. HIDE DEF v, n
  <2>1. /\ v \o out \in Seq(Requests) /\ Len(v \o out) = Len(v) + Len(out)
        /\ \A k \in 1..(Len(v) + Len(out)) :
             (v \o out)[k] = IF k <= Len(v) THEN v[k] ELSE out[k - Len(v)]
    BY <1>1, ConcatProperties
  <2>. QED  BY <1>1, <1>2, <2>1
<1>4. IsPrefix(u, v \o out)
  OBVIOUS
<1>. HIDE DEF u, v, n
<1>5. \A k \in 1..n : u[k] = (v \o out)[k]
  BY <1>1, <1>2, <1>3, <1>4 DEF IsPrefix
<1>6. u = v
  <2>1. \A k \in 1..n : u[k] = v[k]
    BY <1>3, <1>5
  <2>. QED  BY <1>1, <2>1, SeqEqual
<1>7. i \in Int /\ j \in Int
  BY LenProperties
<1>8. CASE i = j
  BY <1>8
<1>9. CASE i < j
  BY <1>6, <1>9, SameLeft DEF u, v
<1>10. CASE j < i
  BY <1>6, <1>10, SameLeft DEF u, v
<1>. QED  BY <1>7, <1>8, <1>9, <1>10

-----------------------------------------------------------------------------
(* The theorems.                                                           *)

LEMMA InitInv == ASSUME Init PROVE IInv
<1>1. PICK v \in MaybeVideo :
         fb = [current |-> v, verifyId |-> None, expected |-> None, verdict |-> "blocked",
               live |-> FALSE, quiet |-> FALSE, chain |-> None, statusId |-> None,
               creating |-> FALSE, applying |-> FALSE, applyCreate |-> FALSE,
               goAfter |-> FALSE, going |-> FALSE, tried |-> None, asked |-> None,
               confirm |-> FALSE, served |-> FALSE, session |-> None,
               settled |-> FALSE, endConfirm |-> FALSE]
  BY Zenon DEF Init
<1>2. /\ fb \in Docks /\ fb.creating = FALSE /\ fb.session = None /\ fb.verifyId = None
      /\ fb.verdict = "blocked"
  BY <1>1, NoneFacts DEF Docks, Verdicts
<1>3. /\ graph \in [Videos -> {[status |-> s, title |-> None] : s \in {"none", "live"}}]
      /\ watch = [emitter |-> FALSE, fails |-> 0, ballot |-> <<>>, gone |-> "no"]
      /\ dialogs = <<>> /\ wire = <<>>
      /\ managed \in BOOLEAN /\ conn = [m \in BOOLEAN |-> TRUE] /\ loggedIn = TRUE
      /\ relay = "on"
      /\ past = [wrote |-> [w \in Videos |-> None], checked |-> {}, borrowed |-> {}, went |-> {}]
      /\ presses = 0 /\ signals = 0
  BY DEF Init
<1>4. watch \in Watches
  BY <1>3, Ballots, LiveAssumption DEF Watches
<1>5. past \in Pasts
  BY <1>3, NoneFacts DEF Pasts
<1>6. graph \in [Videos -> [status: Statuses, title: MaybeTitle]]
  <2>1. {[status |-> s, title |-> None] : s \in {"none", "live"}} \subseteq [status: Statuses, title: MaybeTitle]
    BY NoneFacts DEF Statuses
  <2>. QED  BY <1>3, <2>1
<1>7. DOMAIN dialogs = {} /\ DOMAIN wire = {}
  BY <1>3
<1>8. TypeOK
  <2>1. conn \in [BOOLEAN -> BOOLEAN] /\ loggedIn \in BOOLEAN /\ relay \in {"off", "late", "on", "ok"}
    BY <1>3
  <2>. QED  BY <1>2, <1>3, <1>4, <1>5, <1>6, <1>7, <2>1 DEF TypeOK
<1>9. wire \in Seq(Requests) /\ dialogs \in Seq(Boxes)
  BY <1>3
<1>10. WireInv /\ BoxInv /\ Counted
  BY <1>3, <1>7, <1>9 DEF WireInv, BoxInv, Counted
<1>11. CreateFlagBacked /\ OwnSession /\ Verified(fb, past)
  BY <1>2 DEF CreateFlagBacked, OwnSession, Verified
<1>. QED  BY <1>8, <1>10, <1>11 DEF IInv

LEMMA StepKept == ASSUME IInv, [Next]_vars PROVE IInv' /\ Checked
<1>1. CASE Next
  <2>1. ASSUME NEW i \in DOMAIN wire PROVE Serve(i) \/ Reply(i) => IInv' /\ Checked
    BY ServeKeeps, ReplyKeeps
  <2>2. PressStatus \/ PressEnd \/ PressDelete \/ PressAdopt \/ Choose => IInv' /\ Checked
    BY PressStatusKeeps, PressBoxKeeps, PressAdoptKeeps, ChooseKeeps
  <2>3. ASSUME NEW t \in MaybeTitle
        PROVE  PressCreate(t) \/ PressGoLive(t) \/ PressApply(t) => IInv' /\ Checked
    BY PressCreateKeeps, PressGoLiveKeeps, PressApplyKeeps
  <2>4. Disconnect \/ ModeSwitch \/ Connect \/ Login => IInv' /\ Checked
    BY DisconnectKeeps, ModeSwitchKeeps, ConnectKeeps, LoginKeeps
  <2>5. AnswerDialog \/ RelayChange \/ Tick => IInv' /\ Checked
    BY AnswerDialogKeeps, RelayChangeKeeps, TickKeeps
  <2>6. ASSUME NEW k \in {"emitter", "none", "unreadable"}, NEW t \in MaybeTitle
        PROVE  Reading(k, t) => IInv' /\ Checked
    BY ReadingKeeps
  <2>. QED  BY <1>1, <2>1, <2>2, <2>3, <2>4, <2>5, <2>6 DEF Next, Press, Signal
<1>2. CASE UNCHANGED vars
  <2>1. UNCHANGED <<fb, watch, dialogs, wire, graph, managed, conn, loggedIn, relay, past, presses, signals>>
    BY <1>2 DEF vars, world
  <2>2. WorldNext
    BY <2>1 DEF IInv, TypeOK, Counted, WorldNext
  <2>3. CreateFlagBacked' /\ OwnSession' /\ Verified(fb, past)'
    BY <2>1 DEF IInv, CreateFlagBacked, InFlight, OwnSession, Verified
  <2>. QED  BY <2>1, <2>2, <2>3, CurrentFacts, QuietKeeps
<1>. QED  BY <1>1, <1>2

LEMMA IInvCorrect == Spec => []IInv
<1>1. Init => IInv
  BY InitInv
<1>2. IInv /\ [Next]_vars => IInv'
  BY StepKept
<1>. QED  BY <1>1, <1>2, PTL DEF Spec

\* The dock, the watch, the requests and Facebook keep their types: no reply
\* is handled that the mode it was sent in does not know.
THEOREM TypeCorrect == Spec => []TypeOK
<1>1. IInv => TypeOK
  BY DEF IInv
<1>. QED  BY <1>1, IInvCorrect, PTL

\* fbIntentCreateInFlight_ is set only while a create of this mode is in
\* flight: neither a failed create, nor a disconnect or a mode switch with a
\* reply under way, leaves the create button dead.
THEOREM FlagCorrect == Spec => []CreateFlagBacked
<1>1. IInv => CreateFlagBacked
  BY DEF IInv
<1>. QED  BY <1>1, IInvCorrect, PTL

\* In Managed mode the session that the watch may end is of a video for which
\* this dock sent a go_live, whatever was selected when the replies came.
THEOREM SessionCorrect == Spec => []OwnSession
<1>1. IInv => OwnSession
  BY DEF IInv
<1>. QED  BY <1>1, IInvCorrect, PTL

\* A go live is decided only on a verdict that is not older than the last
\* write to the video that was accepted, in whatever order the replies of
\* writes, reads, creates and adopts come (or on one taken over by another
\* video, see GoLiveVerified).
THEOREM CheckedCorrect == Spec => GoLiveChecked
<1>1. IInv /\ [Next]_vars => Checked
  BY StepKept
<1>2. IInv /\ [Next]_vars
        => [\A v \in Videos : Decides(v) => v \in past'.checked \union past'.borrowed]_vars
  BY <1>1 DEF Checked
<1>. QED  BY <1>2, IInvCorrect, PTL DEF Spec, GoLiveChecked

LEMMA PressCounts == ASSUME Press PROVE presses' = presses + 1
<1>1. ASSUME NEW effects, Pressed(effects) PROVE presses' = presses + 1
  BY <1>1 DEF Pressed
<1>2. PressStatus \/ PressEnd \/ PressDelete \/ PressAdopt \/ Choose => presses' = presses + 1
  BY <1>1 DEF PressStatus, PressEnd, PressDelete, PressAdopt, Choose
<1>3. ASSUME NEW t \in MaybeTitle
      PROVE  PressCreate(t) \/ PressGoLive(t) \/ PressApply(t) => presses' = presses + 1
  BY <1>1 DEF PressCreate, PressGoLive, PressApply
<1>4. Disconnect \/ ModeSwitch \/ Connect \/ Login => presses' = presses + 1
  BY DEF Disconnect, ModeSwitch, Connect, Login
<1>. QED  BY <1>2, <1>3, <1>4 DEF Press

\* In Managed mode the reply of a go live, an end, an update or of the reads
\* that follow them leaves the selection alone, and that of a delete moves it
\* only off the video that was deleted.
THEOREM SelectionCorrect == Spec => SelectionKept
<1>. DEFINE Kept(i) ==
       /\ Delivered(i) /\ wire[i].managed /\ managed
       /\ wire[i].op \notin {"status", "create", "adopt"} /\ fb'.current # fb.current
       => wire[i].op = "delete" /\ wire[i].id = fb.current
<1>1. ASSUME IInv, Next, NEW i \in DOMAIN wire PROVE Kept(i)
  <2>1. SUFFICES ASSUME Delivered(i), wire[i].managed, managed,
                        wire[i].op \notin {"status", "create", "adopt"},
                        fb'.current # fb.current
                 PROVE  wire[i].op = "delete" /\ wire[i].id = fb.current
    OBVIOUS
  <2>2. presses' = presses /\ signals' = signals /\ presses \in Nat /\ signals \in Nat
    BY <1>1, <2>1 DEF Delivered, IInv, Counted
  <2>3. ~Press
    BY <2>2, PressCounts
  <2>4. ~AnswerDialog /\ ~Tick
    BY <1>1, <2>1, AnswerDialogKeeps, TickKeeps
  <2>5. ~RelayChange /\ \A k, t : ~Reading(k, t)
    <3>1. RelayChange => signals' = signals + 1
      BY DEF RelayChange
    <3>2. ASSUME NEW k, NEW t, Reading(k, t) PROVE signals' = signals + 1
      BY <3>2 DEF Reading
    <3>3. signals + 1 # signals
      BY <2>2
    <3>. QED  BY <2>2, <3>1, <3>2, <3>3
  <2>6. \A j \in DOMAIN wire : ~Serve(j)
    BY <2>1 DEF Serve, ServeCreate, ServeRead, ServeAdopt, ServeWrite, Refuse, Answers
  <2>7. PICK j \in DOMAIN wire : Reply(j)
    BY <1>1, <2>3, <2>4, <2>5, <2>6 DEF Next, Signal
  <2>8. Delivers(j) /\ \E out \in Seq(Requests) : wire' = RemoveAt(wire, j) \o out
    BY <1>1, <2>7, ReplyKeeps
  <2>9. PICK out \in Seq(Requests) : wire' = RemoveAt(wire, j) \o out
    BY <2>8
  <2>10. wire[i] = wire[j]
    <3>1. wire \in Seq(Requests)
      BY <1>1, WireFacts
    <3>2. IsPrefix(RemoveAt(wire, i), RemoveAt(wire, j) \o out)
      BY <2>1, <2>9 DEF Delivered
    <3>. QED  BY <3>1, <3>2, WhichReply
  <2>. QED  BY <2>1, <2>8, <2>10 DEF Delivers, Stays
<1>2. IInv /\ [Next]_vars => [\A i \in DOMAIN wire : Kept(i)]_vars
  BY <1>1
<1>. QED  BY <1>2, IInvCorrect, PTL DEF Spec, SelectionKept
=============================================================================
