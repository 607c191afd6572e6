----------------------------- MODULE ApplyProofs -----------------------------
(***************************************************************************)
(* What TLAPS proves of ApplyPipeline, for any platforms of this instance, *)
(* any retry budget and any bounds.  An Apply is always in one of six      *)
(* phases; each says who moves it on and how the queue, the results told   *)
(* and the sends of the platform in hand add up.                           *)
(***************************************************************************)
EXTENDS ApplyPipeline, FiniteSetTheorems, SequenceTheorems, WellFoundedInduction, TLAPS

\* The requests that are a step of Apply by themselves.
Moving == {r \in Requests : r.kind \notin {"list", "create"}}
Still(n) == \A m \in Moving : n[m] = 0
Alone(n, m) == n[m] = 1 /\ \A o \in Moving \ {m} : n[o] = 0

\* The queue q and the log l, when A was asked for.
Books(q, l, A) ==
    /\ \A p \in Platforms : l[p].told <= (IF p \in A THEN 1 ELSE 0)
    /\ \A p \in Platforms : l[p].sends <= MaxRetries + 2
    /\ IsInjective(q)
    /\ \A i \in DOMAIN q : q[i] \in A /\ l[q[i]].told = 0
    /\ \A i \in DOMAIN q : q[i] = "Facebook" => i = Len(q)

\* Only those of S are without an answer.
Owed(S, l, A) == \A p \in A : l[p].told = 0 => p \in S

\* The entries after the k-th have not been sent since they were asked for.
Fresh(q, l, k) == \A i \in DOMAIN q : i > k => l[q[i]].sends = 0

Spent(a) == a.tries + (IF a.retried THEN 1 ELSE 0)

Quiet == Still(net) /\ ~apply.afterList /\ ~apply.creating
Waits == apply.on /\ Owed(Range(apply.queue), log, asked)

\* m is under way.
Sending(m) ==
    /\ Alone(net, m) /\ timers = 0 /\ ~apply.afterList /\ ~apply.creating
    /\ apply.on /\ ~apply.resume
    /\ m.p \in asked /\ log[m.p].told = 0 /\ m.p \notin Range(apply.queue)
    /\ m.p = "Facebook" => apply.queue = <<>>
    /\ Owed(Range(apply.queue) \union {m.p}, log, asked)
    /\ Fresh(apply.queue, log, 0)
    /\ IF m.kind \in {"refresh", "session"}
       THEN apply.retried /\ log[m.p].sends <= apply.tries + 1
       ELSE log[m.p].sends <= Spent(apply) + 1

\* The first of the queue waits for the backoff.
Backing ==
    /\ timers = 1 /\ Quiet /\ Waits /\ apply.resume /\ apply.queue # <<>>
    /\ Fresh(apply.queue, log, 1) /\ log[apply.queue[1]].sends <= Spent(apply)

\* The first of the queue waits for its list.
Listing ==
    /\ apply.afterList /\ timers = 0 /\ Still(net) /\ ~apply.creating
    /\ Waits /\ ~apply.resume /\ apply.queue # <<>> /\ Fresh(apply.queue, log, 0)
    /\ cuts = {} => \E r \in Requests : r.kind = "list" /\ net[r] > 0

\* Facebook, the first of the queue, waits for its video.
Creating ==
    /\ apply.creating /\ timers = 0 /\ Still(net) /\ ~apply.afterList
    /\ Waits /\ ~apply.resume /\ apply.queue # <<>> /\ Fresh(apply.queue, log, 1)
    /\ apply.queue[1] = "Facebook" /\ net[Req("create", "Facebook", managed)] > 0

\* No Apply; and one that was cut, which nothing moves on any more.
Resting ==
    ~apply.on /\ timers = 0 /\ Quiet /\ apply.queue = <<>> /\ Owed({}, log, asked)
Stranded == apply.on /\ timers = 0 /\ Quiet /\ cuts # {}

Phase ==
    \/ \E m \in Moving : Sending(m)
    \/ Backing \/ Listing \/ Creating \/ Resting \/ Stranded

IInv == TypeOK /\ Books(apply.queue, log, asked) /\ Phase

-----------------------------------------------------------------------------
(* Sequences.                                                              *)

LEMMA Pushes ==
    ASSUME NEW S, NEW q \in Seq(S), NEW p \in S
    PROVE  /\ <<p>> \o q \in Seq(S) /\ <<p>> \o q # <<>>
           /\ Len(<<p>> \o q) = Len(q) + 1
           /\ DOMAIN (<<p>> \o q) = 1..Len(q) + 1
           /\ (<<p>> \o q)[1] = p
           /\ \A i \in 1..Len(q) : (<<p>> \o q)[i + 1] = q[i]
<1>1. <<p>> \in Seq(S) /\ Len(<<p>>) = 1 /\ <<p>>[1] = p
  OBVIOUS
<1>2. /\ <<p>> \o q \in Seq(S) /\ Len(<<p>> \o q) = Len(q) + 1
      /\ \A i \in 1..1 + Len(q) : (<<p>> \o q)[i] = IF i <= 1 THEN <<p>>[i] ELSE q[i - 1]
  BY <1>1, ConcatProperties
<1>3. Len(q) \in Nat
  OBVIOUS
<1>. HIDE <1>1
<1>4. (<<p>> \o q)[1] = p
  BY <1>1, <1>2, <1>3
<1>5. ASSUME NEW i \in 1..Len(q) PROVE (<<p>> \o q)[i + 1] = q[i]
  BY <1>2, <1>3
<1>6. DOMAIN (<<p>> \o q) = 1..Len(q) + 1 /\ <<p>> \o q # <<>>
  BY <1>2, <1>3, LenProperties, EmptySeq
<1>. QED  BY <1>2, <1>4, <1>5, <1>6

LEMMA Drops ==
    ASSUME NEW S, NEW q \in Seq(S), NEW n \in 1..Len(q) + 1
    PROVE  /\ SubSeq(q, n + 1, Len(q)) \in Seq(S)
           /\ DOMAIN SubSeq(q, n + 1, Len(q)) = 1..Len(SubSeq(q, n + 1, Len(q)))
           /\ Len(SubSeq(q, n + 1, Len(q))) = IF n > Len(q) THEN 0 ELSE Len(q) - n
           /\ \A i \in DOMAIN SubSeq(q, n + 1, Len(q)) :
                n + i \in DOMAIN q /\ SubSeq(q, n + 1, Len(q))[i] = q[n + i]
<1>. DEFINE s == SubSeq(q, n + 1, Len(q))
            L == Len(q)
<1>1. L \in Nat /\ DOMAIN q = 1..L /\ n \in 1..L + 1
  OBVIOUS
<1>2. \A i \in n + 1..L : q[i] \in S
  BY <1>1
<1>3. /\ s \in Seq(S)
      /\ Len(s) = IF n + 1 <= L THEN L - (n + 1) + 1 ELSE 0
      /\ \A i \in 1..L - (n + 1) + 1 : s[i] = q[n + 1 + i - 1]
  BY <1>1, <1>2, SubSeqProperties
<1>4. s \in Seq(S) /\ DOMAIN s = 1..Len(s)
  BY <1>3
<1>. HIDE DEF s, L
<1>5. Len(s) = IF n > L THEN 0 ELSE L - n
  BY <1>1, <1>3
<1>6. ASSUME NEW i \in DOMAIN s PROVE n + i \in DOMAIN q /\ s[i] = q[n + i]
  <2>1. i \in 1..L - n /\ i \in 1..L - (n + 1) + 1
    BY <1>1, <1>4, <1>5
  <2>2. n + 1 + i - 1 = n + i /\ n + i \in 1..L
    BY <1>1, <2>1
  <2>. QED  BY <1>1, <1>3, <2>1, <2>2
<1>. QED  BY <1>4, <1>5, <1>6 DEF s, L

LEMMA LeastOf ==
    ASSUME NEW n \in Nat, NEW S \in SUBSET (1..n), S # {}
    PROVE  Min(S) \in S /\ \A y \in S : Min(S) <= y
<1>. DEFINE R == {ss \in Nat \X Nat : ss[1] < ss[2]}
<1>1. IsWellFoundedOn(R, Nat)
  BY NatLessThanWellFounded DEF OpToRel
<1>2. S \subseteq Nat
  OBVIOUS
<1>3. PICK x \in S : \A y \in S : <<y, x>> \notin R
  <2>. HIDE DEF R
  <2>. QED  BY <1>1, <1>2, WFMin
<1>4. \A y \in S : ~(y < x)
  BY <1>2, <1>3
<1>5. \A y \in S : x <= y
  BY <1>2, <1>4
<1>. QED  BY <1>5 DEF Min

-----------------------------------------------------------------------------
(* The queue.                                                              *)

Logs == [Platforms -> [told : Nat, sends : Nat]]
Rec(a, l, r) == a \in Applies /\ l \in Logs /\ r \in [Requests -> Nat]
DockOK ==
    /\ managed \in BOOLEAN /\ loggedIn \in BOOLEAN /\ conn \in [BOOLEAN -> SUBSET Platforms]
    /\ broadcasts \in BOOLEAN /\ video \in BOOLEAN

LEMMA PushRange ==
    ASSUME NEW S, NEW q \in Seq(S), NEW p \in S
    PROVE  Range(<<p>> \o q) = Range(q) \union {p}
<1>. DEFINE s == <<p>> \o q
            L == Len(q)
<1>1. /\ s[1] = p /\ L \in Nat /\ DOMAIN s = 1..L + 1 /\ DOMAIN q = 1..L
      /\ \A i \in 1..L : s[i + 1] = q[i]
  BY Pushes
<1>. HIDE DEF s, L
<1>2. ASSUME NEW i \in DOMAIN s PROVE s[i] \in Range(q) \union {p}
  <2>1. CASE i = 1
    BY <1>1, <2>1
  <2>2. CASE i # 1
    <3>1. i - 1 \in DOMAIN q /\ i = (i - 1) + 1
      BY <1>1, <2>2
    <3>. QED  BY <1>1, <3>1 DEF Range
  <2>. QED  BY <2>1, <2>2
<1>3. ASSUME NEW i \in DOMAIN q PROVE q[i] \in Range(s)
  <2>1. i + 1 \in DOMAIN s /\ s[i + 1] = q[i]
    BY <1>1
  <2>. QED  BY <2>1 DEF Range
<1>4. p \in Range(s)
  <2>1. 1 \in DOMAIN s
    BY <1>1
  <2>. QED  BY <1>1, <2>1 DEF Range
<1>5. Range(s) \subseteq Range(q) \union {p}
  BY <1>2 DEF Range
<1>6. Range(q) \subseteq Range(s)
  BY <1>3 DEF Range
<1>. QED  BY <1>4, <1>5, <1>6 DEF s

\* Pushing the platform in hand back on the queue.
LEMMA PushBooks ==
    ASSUME NEW q \in Seq(Platforms), NEW p \in Platforms, NEW l \in Logs, NEW A,
           Books(q, l, A), p \in A, l[p].told = 0, p \notin Range(q),
           p = "Facebook" => q = <<>>, Fresh(q, l, 0)
    PROVE  /\ Books(<<p>> \o q, l, A) /\ Fresh(<<p>> \o q, l, 1)
           /\ l[p].sends = 0 => Fresh(<<p>> \o q, l, 0)
<1>. DEFINE s == <<p>> \o q
            L == Len(q)
<1>1. /\ s[1] = p /\ L \in Nat /\ DOMAIN s = 1..L + 1 /\ DOMAIN q = 1..L
      /\ \A i \in 1..L : s[i + 1] = q[i]
  BY Pushes
<1>2. q = <<>> => L = 0
  OBVIOUS
<1>3. Len(s) = L + 1
  BY Pushes
<1>. HIDE DEF s, L
<1>4. \A i \in DOMAIN s : i = 1 \/ (i - 1 \in DOMAIN q /\ s[i] = q[i - 1])
  <2>. SUFFICES ASSUME NEW i \in DOMAIN s, i # 1
                PROVE  i - 1 \in DOMAIN q /\ s[i] = q[i - 1]
    OBVIOUS
  <2>1. i - 1 \in 1..L /\ i = (i - 1) + 1
    BY <1>1
  <2>. QED  BY <1>1, <2>1
<1>5. \A i \in DOMAIN q : q[i] # p
  BY DEF Range
<1>6. IsInjective(s)
  <2>1. IsInjective(q)
    BY DEF Books
  <2>2. ASSUME NEW i \in DOMAIN s, NEW j \in DOMAIN s, s[i] = s[j], i # 1, j # 1
        PROVE  i = j
    <3>1. i - 1 = j - 1
      BY <1>4, <2>1, <2>2 DEF IsInjective
    <3>. QED  BY <1>1, <3>1
  <2>3. \A i \in DOMAIN s : s[i] = s[1] => i = 1
    BY <1>1, <1>4, <1>5
  <2>4. 1 \in DOMAIN s
    BY <1>1
  <2>. QED  BY <2>2, <2>3 DEF IsInjective
<1>7. \A i \in DOMAIN s : s[i] \in A /\ l[s[i]].told = 0
  BY <1>1, <1>4 DEF Books
<1>8. ASSUME NEW i \in DOMAIN s, s[i] = "Facebook" PROVE i = Len(s)
  <2>1. CASE i = 1
    BY <1>1, <1>2, <1>3, <1>8, <2>1
  <2>2. CASE i # 1
    <3>1. i - 1 = L
      BY <1>4, <1>8, <2>2 DEF Books, L
    <3>. QED  BY <1>1, <1>3, <3>1
  <2>. QED  BY <2>1, <2>2
<1>9. Books(s, l, A)
  BY <1>6, <1>7, <1>8 DEF Books
<1>10. Fresh(s, l, 1)
  <2>1. \A i \in DOMAIN q : l[q[i]].sends = 0
    BY <1>1 DEF Fresh
  <2>. QED  BY <1>4, <2>1 DEF Fresh
<1>11. ASSUME l[p].sends = 0 PROVE Fresh(s, l, 0)
  BY <1>1, <1>4, <1>10, <1>11 DEF Fresh
<1>. QED  BY <1>9, <1>10, <1>11 DEF s

Ready(p, a, l, r, A) ==
    /\ Still(r) /\ a.on /\ ~a.afterList /\ ~a.creating /\ ~a.resume
    /\ p \in A /\ l[p].told = 0 /\ p \notin Range(a.queue)
    /\ p = "Facebook" => a.queue = <<>>
    /\ Owed(Range(a.queue) \union {p}, l, A) /\ Fresh(a.queue, l, 0)
    /\ l[p].sends <= Spent(a) /\ Books(a.queue, l, A)

Kept == Rec(apply, log, net) /\ Books(apply.queue, log, asked) /\ Phase

LEMMA SentFacts ==
    ASSUME NEW r \in [Requests -> Nat], NEW q \in Requests
    PROVE  /\ Sent(r, q) \in [Requests -> Nat] /\ Sent(r, q)[q] = r[q] + 1
           /\ \A o \in Requests \ {q} : Sent(r, q)[o] = r[o]
BY DEF Sent

LEMMA MovingFacts == Moving \subseteq Requests
BY DEF Moving

\* A list or a create is no step of Apply by itself; another request is.
LEMMA SentAside ==
    ASSUME NEW r \in [Requests -> Nat], NEW q \in Requests, q \notin Moving
    PROVE  /\ Sent(r, q) \in [Requests -> Nat] /\ Sent(r, q)[q] > 0
           /\ \A m \in Moving : Sent(r, q)[m] = r[m]
           /\ Still(r) => Still(Sent(r, q))
<1>1. \A m \in Moving : m \in Requests \ {q}
  BY MovingFacts
<1>2. \A m \in Moving : Sent(r, q)[m] = r[m]
  BY <1>1, SentFacts
<1>3. r[q] \in Nat
  OBVIOUS
<1>. QED  BY <1>2, <1>3, SentFacts DEF Still

LEMMA SentAlone ==
    ASSUME NEW r \in [Requests -> Nat], NEW q \in Moving, Still(r)
    PROVE  Sent(r, q) \in [Requests -> Nat] /\ Alone(Sent(r, q), q)
<1>1. q \in Requests /\ \A m \in Moving \ {q} : m \in Requests \ {q}
  BY MovingFacts
<1>2. r[q] = 0 /\ \A m \in Moving \ {q} : r[m] = 0
  BY DEF Still
<1>. QED  BY <1>1, <1>2, SentFacts DEF Alone

LEMMA ReqFacts ==
    ASSUME NEW m \in BOOLEAN, NEW p \in Platforms
    PROVE  /\ Req("update", p, m) \in Requests
           /\ p \in Lists => Req("list", p, m) \in Requests
           /\ p = "Facebook" => Req("create", p, m) \in Requests
           /\ p \in Refreshable => Req("refresh", p, FALSE) \in Requests
           /\ p \in Refreshable => Req("retry", p, FALSE) \in Requests
           /\ Req("session", p, TRUE) \in Requests
BY DEF Req, Requests, Kinds

\* Books and debts look at what was told; the sends only have to keep in bound.
LEMMA BooksSame ==
    ASSUME NEW q \in Seq(Platforms), NEW l \in Logs, NEW k \in Logs, NEW A,
           \A p \in Platforms : k[p].told = l[p].told /\ k[p].sends <= MaxRetries + 2,
           Books(q, l, A)
    PROVE  Books(q, k, A)
<1>1. \A i \in DOMAIN q : q[i] \in Platforms
  OBVIOUS
<1>. QED  BY <1>1 DEF Books

LEMMA OwedSame ==
    ASSUME NEW l, NEW k, NEW A \in SUBSET Platforms, NEW S,
           \A p \in Platforms : k[p].told = l[p].told, Owed(S, l, A)
    PROVE  Owed(S, k, A)
BY DEF Owed

\* What is sent, or waited for, moves the Apply on.
LEMMA ServeKeeps ==
    ASSUME NEW p \in Platforms, NEW a, NEW l, NEW r, Rec(a, l, r),
           DockOK', timers' = 0, asked' \in SUBSET Platforms, Ready(p, a, l, r, asked'), Serve(p, a, l, r)
    PROVE  Kept'
<1>. USE ApplyAssumption
<1>1. a \in Applies /\ l \in Logs /\ r \in [Requests -> Nat] /\ a.queue \in Seq(Platforms)
  BY DEF Rec, Applies
<1>2. managed' \in BOOLEAN
  BY DEF DockOK
<1>. DEFINE s == <<p>> \o a.queue
<1>3. /\ s \in Seq(Platforms) /\ s # <<>> /\ s[1] = p
      /\ Range(s) = Range(a.queue) \union {p}
  BY <1>1, Pushes, PushRange
<1>4. /\ Books(s, l, asked') /\ Fresh(s, l, 1)
      /\ l[p].sends = 0 => Fresh(s, l, 0)
  BY <1>1, PushBooks DEF Ready
<1>5. CASE /\ p = "YouTube" /\ ~broadcasts'
           /\ apply' = [Pushed(a, p) EXCEPT !.afterList = TRUE,
                                            !.lists = IF managed' THEN @ \ {p} ELSE @]
           /\ net' = Sent(r, Req("list", p, managed'))
           /\ log' = [l EXCEPT ![p].sends = 0]
  <2>1. /\ apply' \in Applies /\ apply'.queue = s
        /\ apply'.afterList /\ ~apply'.creating /\ apply'.on /\ ~apply'.resume
    BY <1>1, <1>3, <1>5 DEF Pushed, Applies, Ready
  <2>2. /\ log' \in Logs /\ log'[p].sends = 0
        /\ \A o \in Platforms : log'[o].told = l[o].told
        /\ \A o \in Platforms \ {p} : log'[o].sends = l[o].sends
    BY <1>1, <1>5 DEF Logs
  <2>3. Req("list", p, managed') \in Requests /\ Req("list", p, managed').kind = "list"
    BY <1>2, <1>5, ReqFacts DEF Lists, Req
  <2>4. /\ net' \in [Requests -> Nat] /\ net'[Req("list", p, managed')] > 0 /\ Still(net)'
    <3>. DEFINE m0 == Req("list", p, managed')
    <3>1. net' = Sent(r, m0) /\ m0 \in Requests /\ m0 \notin Moving
      BY <1>5, <2>3 DEF Moving
    <3>. HIDE DEF m0
    <3>2. net' \in [Requests -> Nat] /\ net'[m0] > 0 /\ Still(net')
      BY <1>1, <3>1, SentAside DEF Ready
    <3>. QED  BY <3>2 DEF m0, Still
  <2>6. Books(s, log', asked')
    <3>1. \A o \in Platforms : log'[o].told = l[o].told /\ log'[o].sends <= MaxRetries + 2
      BY <1>4, <2>2 DEF Books
    <3>. HIDE DEF s
    <3>. QED  BY <1>1, <1>3, <1>4, <2>2, <3>1, BooksSame
  <2>7. Owed(Range(s), log', asked')
    <3>. HIDE DEF s
    <3>. QED  BY <1>3, <2>2, OwedSame DEF Ready
  <2>8. Fresh(s, log', 0)
    <3>. HIDE DEF s
    <3>1. \A i \in DOMAIN s : s[i] \in Platforms /\ (i = 1 \/ i > 1)
      BY <1>3
    <3>. QED  BY <1>3, <1>4, <2>2, <3>1 DEF Fresh
  <2>. QED  BY <2>1, <2>2, <2>3, <2>4, <2>6, <2>7, <2>8 DEF Kept, Rec, Phase, Listing, Waits
<1>6. CASE p = "Facebook" /\ ~video' /\ Done(a, Told(l, p), r)
  <2>1. /\ apply' \in Applies /\ apply'.queue = <<>> /\ ~apply'.on
        /\ ~apply'.afterList /\ ~apply'.creating
    BY <1>1, <1>6 DEF Done, Applies, Ready
  <2>2. log' \in Logs /\ log'[p].told = 1 /\ log'[p].sends = l[p].sends
    BY <1>1, <1>6 DEF Logs, Done, Told, Ready
  <2>3. \A o \in Platforms \ {p} : log'[o] = l[o]
    BY <1>1, <1>6 DEF Logs, Done, Told
  <2>4. net' \in [Requests -> Nat] /\ Still(net)'
    BY <1>1, <1>6 DEF Done, Ready, Still
  <2>5. Books(<<>>, log', asked')
    <3>1. \A o \in Platforms : /\ log'[o].told <= (IF o \in asked' THEN 1 ELSE 0)
                               /\ log'[o].sends <= MaxRetries + 2
      BY <2>2, <2>3 DEF Ready, Books
    <3>. QED  BY <3>1 DEF Books, IsInjective
  <2>6. Owed({}, log', asked')
    <3>1. Range(a.queue) = {}
      BY <1>6 DEF Ready, Range
    <3>. QED  BY <2>2, <2>3, <3>1 DEF Ready, Owed
  <2>. QED  BY <2>1, <2>2, <2>4, <2>5, <2>6 DEF Kept, Rec, Phase, Resting, Quiet
<1>7. CASE /\ p = "Facebook" /\ ~video'
           /\ apply' = [Pushed(a, p) EXCEPT !.creating = TRUE, !.inFlight = TRUE]
           /\ net' = Sent(r, Req("create", p, managed'))
           /\ log' = l
  <2>1. /\ apply' \in Applies /\ apply'.queue = s
        /\ apply'.creating /\ ~apply'.afterList /\ apply'.on /\ ~apply'.resume
    BY <1>1, <1>3, <1>7 DEF Pushed, Applies, Ready
  <2>2. Req("create", p, managed') \in Requests /\ Req("create", p, managed').kind = "create"
    BY <1>2, <1>7, ReqFacts DEF Req
  <2>3. /\ net' \in [Requests -> Nat] /\ net'[Req("create", "Facebook", managed')] > 0
        /\ Still(net)'
    <3>. DEFINE m0 == Req("create", p, managed')
    <3>1. net' = Sent(r, m0) /\ m0 \in Requests /\ m0 \notin Moving
      BY <1>7, <2>2 DEF Moving
    <3>. HIDE DEF m0
    <3>2. net' \in [Requests -> Nat] /\ net'[m0] > 0 /\ Still(net')
      BY <1>1, <3>1, SentAside DEF Ready
    <3>. QED  BY <1>7, <3>2 DEF m0, Still
  <2>4. Owed(Range(s), log', asked')
    <3>. HIDE DEF s
    <3>. QED  BY <1>3, <1>7 DEF Ready
  <2>. QED  BY <1>1, <1>3, <1>4, <1>7, <2>1, <2>3, <2>4 DEF Kept, Rec, Phase, Creating, Waits
<1>8. CASE /\ apply' = a /\ net' = Sent(r, Req("update", p, managed'))
           /\ log' = [l EXCEPT ![p].sends = @ + 1]
  <2>1. PICK m0 \in Moving : m0 = Req("update", p, managed') /\ m0.p = p /\ m0.kind = "update"
    <3>1. /\ Req("update", p, managed') \in Moving
          /\ Req("update", p, managed').p = p /\ Req("update", p, managed').kind = "update"
      BY <1>2, ReqFacts DEF Moving, Req
    <3>. QED  BY <3>1
  <2>2. log' \in Logs /\ log'[p].told = l[p].told /\ log'[p].sends = l[p].sends + 1
    <3>1. l[p] \in [told : Nat, sends : Nat]
      BY <1>1 DEF Logs
    <3>. DEFINE rec == [l[p] EXCEPT !.sends = l[p].sends + 1]
    <3>2. rec \in [told : Nat, sends : Nat] /\ rec.told = l[p].told /\ rec.sends = l[p].sends + 1
      BY <3>1
    <3>3. log' = [l EXCEPT ![p] = rec]
      BY <1>8
    <3>. HIDE DEF rec
    <3>. QED  BY <1>1, <3>2, <3>3 DEF Logs
  <2>3. \A o \in Platforms \ {p} : log'[o] = l[o]
    BY <1>1, <1>8 DEF Logs
  <2>4. net' \in [Requests -> Nat] /\ Alone(net', m0)
    BY <1>1, <1>8, <2>1, SentAlone DEF Ready
  <2>5. Spent(a) <= MaxRetries + 1
    BY <1>1 DEF Spent, Applies
  <2>6. Books(a.queue, log', asked')
    <3>1. l[p].sends \in Nat
      BY <1>1 DEF Logs
    <3>4. l[p].sends <= Spent(a) /\ Spent(a) \in Nat
      BY <1>1, ApplyAssumption DEF Ready, Spent, Applies
    <3>5. \A o \in Platforms : l[o].sends <= MaxRetries + 2
      BY <1>1 DEF Ready, Books
    <3>6. log'[p].sends <= MaxRetries + 2
      BY <2>2, <2>5, <3>1, <3>4, ApplyAssumption
    <3>2. \A o \in Platforms : log'[o].told = l[o].told /\ log'[o].sends <= MaxRetries + 2
      BY <2>2, <2>3, <3>5, <3>6
    <3>. QED  BY <1>1, <2>2, <3>2, BooksSame DEF Ready
  <2>7. Owed(Range(a.queue) \union {p}, log', asked')
    BY <2>2, <2>3, OwedSame DEF Ready
  <2>8. Fresh(a.queue, log', 0)
    <3>1. \A i \in DOMAIN a.queue : a.queue[i] \in Platforms \ {p}
      BY <1>1 DEF Ready, Range
    <3>. QED  BY <2>3, <3>1 DEF Ready, Fresh
  <2>9. Sending(m0)'
    <3>1. apply' = a
      BY <1>8
    <3>2. Alone(net, m0)'
      BY <2>4 DEF Alone
    <3>3. log'[m0.p].told = 0 /\ log'[m0.p].sends <= Spent(a) + 1
      BY <1>1, <2>1, <2>2 DEF Ready, Logs, Spent, Applies
    <3>4. Owed(Range(apply.queue) \union {m0.p}, log, asked)' /\ Fresh(apply.queue, log, 0)'
      BY <2>1, <2>7, <2>8, <3>1
    <3>. QED  BY <2>1, <3>1, <3>2, <3>3, <3>4 DEF Sending, Ready, Spent
  <2>. QED  BY <1>1, <1>8, <2>1, <2>2, <2>4, <2>6, <2>9 DEF Kept, Rec, Phase
<1>. QED  BY <1>5, <1>6, <1>7, <1>8 DEF Serve

\* The caller of startApplyNext leaves a queue of platforms that are owed an
\* answer; the first may have been sent before, if the backoff kept its budget.
Startable(a, l, r, A) ==
    /\ Books(a.queue, l, A) /\ a.on /\ ~a.afterList /\ ~a.creating /\ Still(r)
    /\ Owed(Range(a.queue), l, A) /\ Fresh(a.queue, l, 1)
    /\ a.queue # <<>> =>
         \/ l[a.queue[1]].sends = 0
         \/ a.resume /\ l[a.queue[1]].sends <= Spent(a)

\* What startApplyNext makes of a and l when the n-th entry is the one taken.
Kept1(a, n) == a.queue = <<>> \/ (a.resume /\ n = 1)
Skipped(a, n) == {a.queue[i] : i \in 1..n - 1}
Taken(a, n) ==
    [a EXCEPT !.queue = SubSeq(a.queue, n + 1, Len(a.queue)), !.resume = FALSE,
              !.retried = Kept1(a, n) /\ @, !.tries = IF Kept1(a, n) THEN @ ELSE 0]
ToldTo(l, S) == [p \in Platforms |-> [l[p] EXCEPT !.told = IF p \in S THEN @ + 1 ELSE @]]

\* The n-th entry is taken, those before it are told that they cannot be used.
LEMMA TakeReady ==
    ASSUME NEW a, NEW l, NEW r, Rec(a, l, r), NEW A \in SUBSET Platforms, Startable(a, l, r, A),
           NEW n \in 1..Len(a.queue) + 1
    PROVE  /\ Rec(Taken(a, n), ToldTo(l, Skipped(a, n)), r)
           /\ n <= Len(a.queue) => Ready(a.queue[n], Taken(a, n), ToldTo(l, Skipped(a, n)), r, A)
           /\ n > Len(a.queue) => /\ Taken(a, n).queue = <<>>
                                  /\ Owed({}, ToldTo(l, Skipped(a, n)), A)
                                  /\ Books(<<>>, ToldTo(l, Skipped(a, n)), A)
<1>. DEFINE k == Kept1(a, n)
            fresh == Taken(a, n)
            skipped == Skipped(a, n)
            told == ToldTo(l, skipped)
<1>. DEFINE q == a.queue
            t == SubSeq(q, n + 1, Len(q))
            L == Len(q)
<1>1. /\ a \in Applies /\ l \in Logs /\ r \in [Requests -> Nat] /\ q \in Seq(Platforms)
      /\ L \in Nat /\ DOMAIN q = 1..L /\ \A i \in 1..L : q[i] \in Platforms
  BY DEF Rec, Applies
<1>2. /\ t \in Seq(Platforms) /\ DOMAIN t = 1..Len(t)
      /\ Len(t) = IF n > L THEN 0 ELSE L - n
      /\ \A i \in DOMAIN t : n + i \in DOMAIN q /\ t[i] = q[n + i]
  BY <1>1, Drops
<1>3. n \in 1..L + 1 /\ skipped = {q[i] : i \in 1..n - 1}
  BY DEF Skipped
<1>. HIDE DEF q, t, L, k, fresh, skipped, told
<1>4. /\ fresh \in Applies /\ fresh.queue = t /\ fresh.on = a.on /\ ~fresh.resume
      /\ fresh.afterList = a.afterList /\ fresh.creating = a.creating
      /\ fresh.retried = (k /\ a.retried) /\ fresh.tries = (IF k THEN a.tries ELSE 0)
  <2>1. fresh = [a EXCEPT !.queue = t, !.resume = FALSE, !.retried = k /\ a.retried,
                          !.tries = IF k THEN a.tries ELSE 0]
    BY DEF t, q, fresh, k, Taken
  <2>2. k \in BOOLEAN
    BY DEF k, Kept1
  <2>3. 0 \in 0..MaxRetries
    BY ApplyAssumption
  <2>. QED  BY <1>1, <1>2, <2>1, <2>2, <2>3 DEF Applies
<1>5. /\ told \in Logs
      /\ \A p \in Platforms : /\ told[p].sends = l[p].sends
                             /\ told[p].told = l[p].told + (IF p \in skipped THEN 1 ELSE 0)
  <2>1. ASSUME NEW p \in Platforms
        PROVE  LET rec == [l[p] EXCEPT !.told = IF p \in skipped THEN @ + 1 ELSE @] IN
               /\ rec \in [told : Nat, sends : Nat] /\ rec.sends = l[p].sends
               /\ rec.told = l[p].told + (IF p \in skipped THEN 1 ELSE 0)
    <3>1. l[p] \in [told : Nat, sends : Nat]
      BY <1>1 DEF Logs
    <3>. QED  BY <3>1
  <2>. QED  BY <2>1 DEF Logs, told, ToldTo
<1>7. /\ Books(q, l, A) /\ a.on /\ ~a.afterList /\ ~a.creating /\ Still(r)
      /\ Owed(Range(q), l, A) /\ Fresh(q, l, 1)
      /\ q # <<>> => l[q[1]].sends = 0 \/ (a.resume /\ l[q[1]].sends <= Spent(a))
  BY DEF Startable, q
<1>8. \A i \in 1..L : q[i] \in skipped <=> i < n
  <2>1. ASSUME NEW i \in 1..L, i < n PROVE q[i] \in skipped
    <3>1. i \in 1..n - 1
      BY <1>1, <1>3, <2>1
    <3>. QED  BY <1>3, <3>1
  <2>2. ASSUME NEW i \in 1..L, q[i] \in skipped PROVE i < n
    <3>1. PICK j \in 1..n - 1 : q[i] = q[j]
      BY <1>3, <2>2
    <3>2. j \in 1..L /\ j < n
      BY <1>1, <1>3
    <3>. QED  BY <1>1, <1>7, <3>1, <3>2 DEF Books, IsInjective
  <2>. QED  BY <2>1, <2>2
<1>9. \A p \in Platforms : /\ told[p].told <= (IF p \in A THEN 1 ELSE 0)
                           /\ told[p].sends <= MaxRetries + 2
  <2>1. \A p \in Platforms : told[p].sends <= MaxRetries + 2 /\ l[p].told <= (IF p \in A THEN 1 ELSE 0)
    BY <1>5, <1>7 DEF Books
  <2>2. ASSUME NEW p \in skipped PROVE p \in A /\ l[p].told = 0
    <3>1. PICK j \in 1..n - 1 : p = q[j]
      BY <1>3
    <3>2. j \in DOMAIN q
      BY <1>1, <1>3
    <3>. QED  BY <1>7, <3>1, <3>2 DEF Books
  <2>3. \A p \in Platforms : l[p].told \in Nat
    BY <1>1 DEF Logs
  <2>4. ASSUME NEW p \in Platforms PROVE told[p].told <= (IF p \in A THEN 1 ELSE 0)
    <3>1. CASE p \in skipped
      BY <1>5, <2>2, <3>1
    <3>2. CASE p \notin skipped
      BY <1>5, <2>1, <2>3, <3>2
    <3>. QED  BY <3>1, <3>2
  <2>. QED  BY <2>1, <2>4
<1>10. \A i \in DOMAIN t : /\ n + i \in 1..L /\ n + i > 1 /\ t[i] = q[n + i]
                           /\ t[i] \in Platforms /\ t[i] \notin skipped
  <2>1. ASSUME NEW i \in DOMAIN t
        PROVE  /\ n + i \in 1..L /\ n + i > 1 /\ t[i] = q[n + i]
               /\ t[i] \in Platforms /\ t[i] \notin skipped
    <3>1. n + i \in 1..L /\ t[i] = q[n + i] /\ i \in Nat /\ i > 0
      BY <1>1, <1>2
    <3>2. n + i > 1 /\ ~(n + i < n)
      BY <1>1, <1>3, <3>1
    <3>. QED  BY <1>1, <1>8, <3>1, <3>2
  <2>. QED  BY <2>1
<1>11. Books(t, told, A) /\ Fresh(t, told, 0)
  <2>1. IsInjective(t)
    <3>. SUFFICES ASSUME NEW i \in DOMAIN t, NEW j \in DOMAIN t, t[i] = t[j] PROVE i = j
      BY DEF IsInjective
    <3>1. n + i = n + j
      BY <1>1, <1>7, <1>10 DEF Books, IsInjective
    <3>. QED  BY <1>1, <1>2, <1>3, <3>1
  <2>2. \A i \in DOMAIN t : t[i] \in A /\ told[t[i]].told = 0 /\ told[t[i]].sends = 0
    <3>. SUFFICES ASSUME NEW i \in DOMAIN t
                  PROVE  t[i] \in A /\ told[t[i]].told = 0 /\ told[t[i]].sends = 0
      OBVIOUS
    <3>1. t[i] \in A /\ l[t[i]].told = 0 /\ l[t[i]].sends = 0
      BY <1>1, <1>7, <1>10 DEF Books, Fresh
    <3>. QED  BY <1>5, <1>10, <3>1
  <2>3. ASSUME NEW i \in DOMAIN t, t[i] = "Facebook" PROVE i = Len(t)
    <3>1. n + i = L
      BY <1>1, <1>7, <1>10, <2>3 DEF Books, L
    <3>. QED  BY <1>1, <1>2, <1>3, <3>1
  <2>. QED  BY <1>9, <2>1, <2>2, <2>3 DEF Books, Fresh
<1>12. ASSUME n <= L PROVE Ready(q[n], fresh, told, r, A)
  <2>1. n \in 1..L /\ n \in DOMAIN q /\ q[n] \in Platforms
    BY <1>1, <1>3, <1>12
  <2>2. q[n] \in A /\ told[q[n]].told = 0
    <3>1. q[n] \notin skipped
      BY <1>3, <1>8, <2>1
    <3>. QED  BY <1>5, <1>7, <2>1, <3>1 DEF Books
  <2>3. q[n] \notin Range(t)
    <3>1. ASSUME NEW i \in DOMAIN t, t[i] = q[n] PROVE FALSE
      <4>1. n + i = n
        BY <1>1, <1>7, <1>10, <2>1, <3>1 DEF Books, IsInjective
      <4>. QED  BY <1>2, <1>3, <4>1
    <3>. QED  BY <3>1 DEF Range
  <2>4. ASSUME q[n] = "Facebook" PROVE t = <<>>
    <3>1. n = L
      BY <1>7, <2>1, <2>4 DEF Books, L
    <3>2. Len(t) = 0
      BY <1>1, <1>2, <3>1
    <3>. QED  BY <1>2, <3>2, EmptySeq
  <2>5. Owed(Range(t) \union {q[n]}, told, A)
    <3>. SUFFICES ASSUME NEW p \in A, told[p].told = 0, p # q[n] PROVE p \in Range(t)
      BY DEF Owed
    <3>1. l[p].told = 0 /\ p \notin skipped
      BY <1>1, <1>5 DEF Logs
    <3>2. PICK j \in DOMAIN q : p = q[j]
      BY <1>7, <3>1 DEF Owed, Range
    <3>3. j \in 1..L /\ j > n
      BY <1>1, <1>3, <1>8, <3>1, <3>2
    <3>4. j - n \in DOMAIN t /\ n + (j - n) = j
      BY <1>1, <1>2, <1>3, <3>3
    <3>. QED  BY <1>10, <3>2, <3>4 DEF Range
  <2>6. told[q[n]].sends <= Spent(fresh)
    <3>1. CASE n = 1
      BY <1>1, <1>2, <1>4, <1>5, <1>7, <2>1, <3>1 DEF Spent, Applies, k, Kept1, q
    <3>2. CASE n # 1
      <4>1. n > 1
        BY <1>1, <2>1, <3>2
      <4>2. told[q[n]].sends = 0
        BY <1>5, <1>7, <2>1, <4>1 DEF Fresh
      <4>3. Spent(fresh) \in Nat
        BY <1>4 DEF Spent, Applies
      <4>. QED  BY <4>2, <4>3
    <3>. QED  BY <3>1, <3>2
  <2>. QED  BY <1>4, <1>7, <1>11, <2>2, <2>3, <2>4, <2>5, <2>6 DEF Ready
<1>13. ASSUME n > L PROVE t = <<>> /\ Owed({}, told, A)
  <2>1. Len(t) = 0
    BY <1>2, <1>13
  <2>2. ASSUME NEW p \in A, told[p].told = 0 PROVE FALSE
    <3>1. l[p].told = 0 /\ p \notin skipped
      BY <1>1, <1>5, <2>2 DEF Logs
    <3>2. PICK j \in DOMAIN q : p = q[j]
      BY <1>7, <3>1 DEF Owed, Range
    <3>. QED  BY <1>1, <1>3, <1>8, <1>13, <3>1, <3>2
  <2>. QED  BY <1>2, <2>1, <2>2, EmptySeq DEF Owed
<1>. QED  BY <1>1, <1>4, <1>5, <1>11, <1>12, <1>13 DEF Rec, q, t, L, k, fresh, skipped, told

LEMMA StartKeeps ==
    ASSUME NEW a, NEW l, NEW r, Rec(a, l, r), DockOK', timers' = 0,
           asked' \in SUBSET Platforms, Startable(a, l, r, asked'), StartNext(a, l, r)
    PROVE  Kept'
<1>. DEFINE q == a.queue
            able == {i \in 1..Len(q) : Authorized(q[i])}
            n == IF able = {} THEN Len(q) + 1 ELSE Min(able)
            fresh == Taken(a, n)
            told == ToldTo(l, Skipped(a, n))
<1>1. IF able = {} THEN Done(fresh, told, r) ELSE Serve(q[n], fresh, told, r)
  BY DEF StartNext, Taken, ToldTo, Skipped, Kept1
<1>2. /\ a \in Applies /\ q \in Seq(Platforms) /\ Len(q) \in Nat
      /\ \A i \in 1..Len(q) : q[i] \in Platforms
  BY DEF Rec, Applies
<1>3. able # {} => n \in able
  BY <1>2, LeastOf
<1>4. able \subseteq 1..Len(q) /\ n \in 1..Len(q) + 1 /\ (able = {} => n > Len(q))
      /\ (able # {} => n <= Len(q) /\ q[n] \in Platforms)
  <2>1. able \subseteq 1..Len(q)
    OBVIOUS
  <2>2. CASE able = {}
    BY <1>2, <2>1, <2>2
  <2>3. CASE able # {}
    <3>. HIDE DEF able
    <3>1. n \in 1..Len(q)
      BY <1>3, <2>1, <2>3
    <3>. QED  BY <1>2, <2>1, <2>3, <3>1
  <2>. QED  BY <2>2, <2>3
<1>. HIDE DEF able, n
<1>5. /\ Rec(fresh, told, r)
      /\ n <= Len(q) => Ready(q[n], fresh, told, r, asked')
      /\ n > Len(q) => fresh.queue = <<>> /\ Owed({}, told, asked') /\ Books(<<>>, told, asked')
  BY <1>4, TakeReady
<1>6. /\ Startable(a, l, r, asked') /\ fresh.on = a.on /\ fresh.afterList = a.afterList
      /\ fresh.creating = a.creating
  BY <1>2 DEF Applies, Taken
<1>. HIDE DEF q, fresh, told
<1>7. CASE able = {}
  <2>1. Done(fresh, told, r)
    BY <1>1, <1>7
  <2>2. /\ apply' \in Applies /\ apply'.queue = <<>> /\ ~apply'.on
        /\ ~apply'.afterList /\ ~apply'.creating
    BY <1>4, <1>5, <1>6, <1>7, <2>1 DEF Done, Rec, Applies, Startable
  <2>3. log' = told /\ net' = r
    BY <2>1 DEF Done
  <2>4. Still(net)' /\ Rec(apply, log, net)'
    BY <1>5, <1>6, <2>2, <2>3 DEF Rec, Startable, Still
  <2>5. Owed({}, log', asked') /\ Books(<<>>, log', asked')
    BY <1>4, <1>5, <1>7, <2>3
  <2>. QED  BY <2>2, <2>4, <2>5 DEF Kept, Phase, Resting, Quiet
<1>8. CASE able # {}
  BY <1>1, <1>4, <1>5, <1>8, ServeKeeps
<1>. QED  BY <1>7, <1>8

-----------------------------------------------------------------------------
(* The invariant.                                                          *)

Others ==
    /\ timers \in Nat /\ DockOK /\ asked \in SUBSET Platforms
    /\ cuts \subseteq {"switch", "disconnect", "refresh", "logout"} /\ steps \in 0..MaxSteps

LEMMA Parts == IInv <=> Kept /\ Others
BY DEF IInv, Kept, Others, TypeOK, Rec, Logs, DockOK, Books

LEMMA PartsNext == IInv' <=> Kept' /\ Others'
BY DEF IInv, Kept, Others, TypeOK, Rec, Logs, DockOK, Books

\* Whatever happens tells the phase.
LEMMA PhaseOf ==
    ASSUME Kept
    PROVE  /\ \A m \in Moving : net[m] > 0 => Sending(m)
           /\ timers > 0 => Backing
           /\ apply.afterList => Listing
           /\ apply.creating => Creating
           /\ ~apply.on => Resting
<1>1. ASSUME NEW m \in Moving, net[m] > 0 PROVE Sending(m)
  <2>1. ~Still(net)
    BY <1>1 DEF Still
  <2>2. PICK o \in Moving : Sending(o)
    BY <2>1 DEF Kept, Phase, Backing, Listing, Creating, Resting, Stranded, Quiet
  <2>3. o = m
    BY <1>1, <2>2 DEF Sending, Alone
  <2>. QED  BY <2>2, <2>3
<1>2. timers > 0 => Backing
  <2>1. timers > 0 => timers # 0
    OBVIOUS
  <2>. QED  BY <2>1 DEF Kept, Phase, Sending, Listing, Creating, Resting, Stranded
<1>3. apply.afterList => Listing
  BY DEF Kept, Phase, Sending, Backing, Creating, Resting, Stranded, Quiet
<1>4. apply.creating => Creating
  BY DEF Kept, Phase, Sending, Backing, Listing, Resting, Stranded, Quiet
<1>5. ~apply.on => Resting
  BY DEF Kept, Phase, Sending, Backing, Listing, Creating, Stranded, Waits
<1>. QED  BY <1>1, <1>2, <1>3, <1>4, <1>5

\* What leaves the Apply and its requests alone, and the request it waits for.
LEMMA AsideKeeps ==
    ASSUME Kept, apply' \in Applies, net' \in [Requests -> Nat],
           UNCHANGED <<log, asked, timers>>, cuts \subseteq cuts',
           /\ apply'.queue = apply.queue /\ apply'.on = apply.on /\ apply'.tries = apply.tries
           /\ apply'.retried = apply.retried /\ apply'.resume = apply.resume
           /\ apply'.afterList = apply.afterList /\ apply'.creating = apply.creating,
           \A m \in Moving : net'[m] = net[m],
           apply.afterList /\ cuts' = {} => \E r \in Requests : r.kind = "list" /\ net'[r] > 0,
           apply.creating => net'[Req("create", "Facebook", managed')] > 0
    PROVE  Kept'
<1>1. Rec(apply, log, net)' /\ Books(apply.queue, log, asked)'
  BY DEF Kept, Rec
<1>2. Still(net) => Still(net)'
  BY DEF Still
<1>3. Quiet => Quiet'
  BY <1>2 DEF Quiet
<1>4. Waits => Waits'
  BY DEF Waits, Owed
<1>5. Fresh(apply.queue, log, 0)' = Fresh(apply.queue, log, 0)
      /\ Fresh(apply.queue, log, 1)' = Fresh(apply.queue, log, 1) /\ Spent(apply)' = Spent(apply)
  BY DEF Fresh, Spent
<1>6. ASSUME NEW m \in Moving, Sending(m) PROVE Sending(m)'
  <2>1. Alone(net, m)'
    BY <1>6 DEF Sending, Alone
  <2>. QED  BY <1>5, <1>6, <2>1 DEF Sending, Owed
<1>7. Backing => Backing'
  BY <1>3, <1>4, <1>5 DEF Backing
<1>8. Listing => Listing'
  BY <1>2, <1>4, <1>5 DEF Listing
<1>9. Creating => Creating'
  BY <1>2, <1>4, <1>5 DEF Creating
<1>10. Resting => Resting'
  BY <1>3 DEF Resting, Owed
<1>11. Stranded => Stranded'
  BY <1>3 DEF Stranded
<1>. QED  BY <1>1, <1>6, <1>7, <1>8, <1>9, <1>10, <1>11 DEF Kept, Phase

LEMMA StrandedKeeps ==
    ASSUME Kept, apply' \in Applies, net' \in [Requests -> Nat],
           UNCHANGED <<log, asked>>, timers' = 0, cuts' # {}, Still(net'),
           /\ apply'.queue = apply.queue /\ apply'.on
           /\ ~apply'.afterList /\ ~apply'.creating
    PROVE  Kept'
BY DEF Kept, Rec, Phase, Stranded, Quiet, Still

LEMMA GotFacts ==
    ASSUME net \in [Requests -> Nat], NEW r \in Requests, net[r] > 0
    PROVE  /\ Got(r) \in [Requests -> Nat] /\ Got(r)[r] = net[r] - 1
           /\ \A o \in Requests \ {r} : Got(r)[o] = net[o]
           /\ r \notin Moving => \A m \in Moving : Got(r)[m] = net[m]
           /\ r \notin Moving /\ Still(net) => Still(Got(r))
           /\ r \in Moving /\ Alone(net, r) => Still(Got(r))
<1>1. net[r] - 1 \in Nat
  OBVIOUS
<1>2. /\ Got(r) \in [Requests -> Nat] /\ Got(r)[r] = net[r] - 1
      /\ \A o \in Requests \ {r} : Got(r)[o] = net[o]
  BY <1>1 DEF Got
<1>3. \A m \in Moving : m # r => Got(r)[m] = net[m]
  BY <1>2, MovingFacts
<1>. QED  BY <1>2, <1>3 DEF Still, Alone

LEMMA ToldFacts ==
    ASSUME NEW l \in Logs, NEW p \in Platforms
    PROVE  /\ Told(l, p) \in Logs /\ Told(l, p)[p].told = l[p].told + 1
           /\ Told(l, p)[p].sends = l[p].sends
           /\ \A o \in Platforms \ {p} : Told(l, p)[o] = l[o]
<1>. DEFINE rec == [l[p] EXCEPT !.told = l[p].told + 1]
<1>1. l[p] \in [told : Nat, sends : Nat]
  BY DEF Logs
<1>2. rec \in [told : Nat, sends : Nat] /\ rec.told = l[p].told + 1 /\ rec.sends = l[p].sends
  BY <1>1
<1>3. Told(l, p) = [l EXCEPT ![p] = rec]
  BY DEF Told
<1>. HIDE DEF rec
<1>. QED  BY <1>2, <1>3 DEF Logs

\* The platform in hand gets its answer.
LEMMA ToldBooks ==
    ASSUME NEW q \in Seq(Platforms), NEW l \in Logs, NEW A \in SUBSET Platforms, NEW p \in A,
           Books(q, l, A), l[p].told = 0, p \notin Range(q)
    PROVE  /\ Books(q, Told(l, p), A)
           /\ Owed(Range(q) \union {p}, l, A) => Owed(Range(q), Told(l, p), A)
           /\ Fresh(q, l, 0) => Fresh(q, Told(l, p), 0)
<1>1. /\ Told(l, p) \in Logs /\ Told(l, p)[p].told = 1 /\ Told(l, p)[p].sends = l[p].sends
      /\ \A o \in Platforms \ {p} : Told(l, p)[o] = l[o]
  BY ToldFacts
<1>2. \A i \in DOMAIN q : q[i] \in Platforms \ {p}
  BY DEF Range
<1>3. \A o \in Platforms : /\ Told(l, p)[o].told <= (IF o \in A THEN 1 ELSE 0)
                           /\ Told(l, p)[o].sends <= MaxRetries + 2
  BY <1>1 DEF Books
<1>4. Books(q, Told(l, p), A)
  BY <1>1, <1>2, <1>3 DEF Books
<1>. QED  BY <1>1, <1>2, <1>4 DEF Owed, Fresh

LEMMA NextKeeps ==
    ASSUME Kept, Others, NEW m \in Moving, Sending(m), NextAfter(m.p, Got(m)),
           UNCHANGED <<timers, asked>>, DockOK'
    PROVE  Kept'
<1>1. /\ apply \in Applies /\ log \in Logs /\ net \in [Requests -> Nat]
      /\ apply.queue \in Seq(Platforms) /\ asked \in SUBSET Platforms
      /\ Books(apply.queue, log, asked)
  BY DEF Kept, Rec, Applies, Others
<1>2. m \in Requests /\ m.p \in asked /\ net[m] > 0 /\ timers = 0
  BY MovingFacts DEF Sending, Alone
<1>3. Got(m) \in [Requests -> Nat] /\ Still(Got(m))
  BY <1>1, <1>2, GotFacts DEF Sending
<1>4. /\ Told(log, m.p) \in Logs /\ Books(apply.queue, Told(log, m.p), asked)
      /\ Owed(Range(apply.queue), Told(log, m.p), asked) /\ Fresh(apply.queue, Told(log, m.p), 0)
  BY <1>1, <1>2, ToldFacts, ToldBooks DEF Sending
<1>5. /\ Fresh(apply.queue, Told(log, m.p), 1)
      /\ apply.queue # <<>> => Told(log, m.p)[apply.queue[1]].sends = 0
  <2>1. \A i \in DOMAIN apply.queue : i > 0
    BY <1>1
  <2>2. apply.queue # <<>> => 1 \in DOMAIN apply.queue
    BY <1>1
  <2>. QED  BY <1>4, <2>1, <2>2 DEF Fresh
<1>6. Startable(apply, Told(log, m.p), Got(m), asked)
  BY <1>3, <1>4, <1>5 DEF Startable, Sending
<1>. QED  BY <1>1, <1>2, <1>3, <1>4, <1>6, StartKeeps DEF NextAfter, Rec

LEMMA BackoffKept ==
    ASSUME Kept, Others, NEW m \in Moving, Sending(m), m.kind \in {"update", "retry"},
           Backoff(m.p, Got(m))
    PROVE  Kept'
<1>1. /\ apply \in Applies /\ log \in Logs /\ net \in [Requests -> Nat]
      /\ apply.queue \in Seq(Platforms) /\ asked \in SUBSET Platforms
      /\ Books(apply.queue, log, asked) /\ apply.tries \in 0..MaxRetries
  BY DEF Kept, Rec, Applies, Others
<1>2. m \in Requests /\ m.p \in asked /\ m.p \in Platforms /\ net[m] > 0 /\ timers = 0
  BY <1>1, MovingFacts DEF Sending, Alone
<1>3. Got(m) \in [Requests -> Nat] /\ Still(Got(m))
  BY <1>1, <1>2, GotFacts DEF Sending
<1>. DEFINE s == <<m.p>> \o apply.queue
<1>4. /\ s \in Seq(Platforms) /\ s # <<>> /\ s[1] = m.p
      /\ Range(s) = Range(apply.queue) \union {m.p}
  BY <1>1, <1>2, Pushes, PushRange
<1>5. Books(s, log, asked) /\ Fresh(s, log, 1)
  BY <1>1, <1>2, PushBooks DEF Sending
<1>. HIDE DEF s
<1>6. /\ apply' \in Applies /\ apply'.queue = s /\ apply'.tries = apply.tries + 1
      /\ apply'.resume /\ apply'.on = apply.on /\ apply'.retried = apply.retried
      /\ apply'.afterList = apply.afterList /\ apply'.creating = apply.creating
  <2>1. apply' = [apply EXCEPT !.queue = s, !.tries = apply.tries + 1, !.resume = TRUE]
    BY DEF Backoff, Pushed, s
  <2>2. apply.tries + 1 \in 0..MaxRetries
    BY <1>1, ApplyAssumption DEF Backoff
  <2>. QED  BY <1>1, <1>4, <2>1, <2>2 DEF Applies
<1>7. timers' = 1 /\ net' = Got(m) /\ log' = log /\ asked' = asked
  BY <1>2 DEF Backoff
<1>8. log[m.p].sends <= Spent(apply)'
  BY <1>1, <1>6 DEF Sending, Spent, Applies
<1>9. Backing'
  BY <1>3, <1>4, <1>5, <1>6, <1>7, <1>8 DEF Backing, Sending, Quiet, Waits, Still
<1>. QED  BY <1>1, <1>3, <1>5, <1>6, <1>7, <1>9 DEF Kept, Rec, Phase

LEMMA BackoffKeeps ==
    ASSUME IInv, NEW m \in Moving, Sending(m), m.kind \in {"update", "retry"},
           Backoff(m.p, Got(m))
    PROVE  IInv'
<1>1. Kept /\ Others
  BY Parts
<1>2. Others'
  BY <1>1 DEF Others, DockOK, dock, Backoff
<1>. QED  BY <1>1, <1>2, BackoffKept, PartsNext

LEMMA AnswerKeeps ==
    ASSUME IInv, NEW m \in Moving, Sending(m), NextAfter(m.p, Got(m)),
           UNCHANGED <<timers, asked, cuts, steps>>, DockOK'
    PROVE  IInv'
<1>1. Kept /\ Others
  BY Parts
<1>2. Others'
  BY <1>1 DEF Others
<1>. QED  BY <1>1, <1>2, NextKeeps, PartsNext

\* A token refresh or a session retry takes the place of the update.
LEMMA RetriedKeeps ==
    ASSUME Kept, Others, NEW m \in Moving, Sending(m), m.kind = "update", ~apply.retried,
           NEW o \in Moving, o.p = m.p, o.kind \in {"refresh", "session"},
           apply' = [apply EXCEPT !.retried = TRUE], net' = Sent(Got(m), o),
           UNCHANGED <<timers, asked, log>>
    PROVE  Kept'
<1>1. apply \in Applies /\ net \in [Requests -> Nat] /\ m \in Requests /\ net[m] > 0
  BY MovingFacts DEF Kept, Rec, Sending, Alone
<1>2. net' \in [Requests -> Nat] /\ Alone(net, o)'
  <2>1. Got(m) \in [Requests -> Nat] /\ Still(Got(m))
    BY <1>1, GotFacts DEF Sending
  <2>2. net' \in [Requests -> Nat] /\ Alone(net', o)
    BY <2>1, SentAlone
  <2>. QED  BY <2>2 DEF Alone
<1>3. /\ apply' \in Applies /\ apply'.retried
      /\ apply'.queue = apply.queue /\ apply'.on = apply.on /\ apply'.tries = apply.tries
      /\ apply'.resume = apply.resume /\ apply'.afterList = apply.afterList
      /\ apply'.creating = apply.creating
  BY <1>1 DEF Applies
<1>4. log[m.p].sends <= apply.tries + 1
  BY <1>1 DEF Sending, Spent, Applies
<1>5. Sending(o)'
  BY <1>2, <1>3, <1>4 DEF Sending, Owed, Fresh
<1>6. Rec(apply, log, net)' /\ Books(apply.queue, log, asked)'
  BY <1>2, <1>3 DEF Kept, Rec
<1>. QED  BY <1>5, <1>6 DEF Kept, Phase

LEMMA MovingReq ==
    ASSUME NEW req \in Requests, req.kind \notin {"list", "create"}
    PROVE  req \in Moving /\ req.p \in Platforms
BY DEF Moving, Requests

LEMMA DirectKeeps ==
    ASSUME IInv, NEW req \in Requests, net[req] > 0, DirectReply(req)
    PROVE  IInv'
<1>1. Kept /\ Others
  BY Parts
<1>2. req \in Moving /\ req.p \in Platforms /\ Sending(req)
  BY <1>1, MovingReq, PhaseOf DEF DirectReply
<1>3. CASE /\ req.kind = "update" /\ ~apply.retried /\ req.p \in Refreshable
           /\ apply' = [apply EXCEPT !.retried = TRUE]
           /\ net' = Sent(Got(req), Req("refresh", req.p, FALSE))
           /\ UNCHANGED <<timers, dock, asked, log, cuts, steps>>
  <2>1. /\ Req("refresh", req.p, FALSE) \in Moving /\ Req("refresh", req.p, FALSE).p = req.p
        /\ Req("refresh", req.p, FALSE).kind = "refresh"
    BY <1>2, <1>3, ReqFacts DEF Moving, Req
  <2>2. Kept'
    BY <1>1, <1>2, <1>3, <2>1, RetriedKeeps
  <2>3. Others'
    BY <1>1, <1>3 DEF Others, DockOK, dock
  <2>. QED  BY <2>2, <2>3, PartsNext
<1>4. CASE Backoff(req.p, Got(req))
  BY <1>2, <1>4, BackoffKeeps DEF DirectReply
<1>5. CASE /\ \/ Same(loggedIn, conn)
              \/ Same(loggedIn, [conn EXCEPT ![FALSE] = @ \ {req.p}])
           /\ NextAfter(req.p, Got(req)) /\ UNCHANGED <<timers, asked, cuts, steps>>
  <2>1. DockOK'
    BY <1>1, <1>5 DEF Others, DockOK, Same
  <2>. QED  BY <1>2, <1>5, <2>1, AnswerKeeps
<1>. QED  BY <1>3, <1>4, <1>5 DEF DirectReply

LEMMA RefreshKeeps ==
    ASSUME IInv, NEW req \in Requests, net[req] > 0, RefreshReply(req)
    PROVE  IInv'
<1>1. Kept /\ Others
  BY Parts
<1>2. req \in Moving /\ req.p \in Platforms /\ Sending(req) /\ req.kind = "refresh"
      /\ req.p \in Refreshable
  BY <1>1, MovingReq, PhaseOf DEF RefreshReply, Requests
<1>3. CASE /\ net' = Sent(Got(req), Req("retry", req.p, FALSE))
           /\ log' = [log EXCEPT ![req.p].sends = @ + 1]
           /\ UNCHANGED <<apply, timers, dock, asked, cuts, steps>>
  <2>1. PICK o \in Moving : o = Req("retry", req.p, FALSE) /\ o.p = req.p /\ o.kind = "retry"
    <3>1. /\ Req("retry", req.p, FALSE) \in Moving
          /\ Req("retry", req.p, FALSE).p = req.p /\ Req("retry", req.p, FALSE).kind = "retry"
      BY <1>2, ReqFacts DEF Moving, Req
    <3>. QED  BY <3>1
  <2>2. /\ apply \in Applies /\ log \in Logs /\ net \in [Requests -> Nat]
        /\ apply.queue \in Seq(Platforms) /\ Books(apply.queue, log, asked)
    BY <1>1 DEF Kept, Rec, Applies
  <2>3. net' \in [Requests -> Nat] /\ Alone(net', o)
    BY <1>2, <1>3, <2>1, <2>2, GotFacts, SentAlone DEF Sending
  <2>. DEFINE rec == [log[req.p] EXCEPT !.sends = log[req.p].sends + 1]
  <2>4. log[req.p] \in [told : Nat, sends : Nat]
    BY <1>2, <2>2 DEF Logs
  <2>5. rec \in [told : Nat, sends : Nat] /\ rec.told = log[req.p].told
        /\ rec.sends = log[req.p].sends + 1
    BY <2>4
  <2>6. log' = [log EXCEPT ![req.p] = rec]
    BY <1>3
  <2>. HIDE DEF rec
  <2>7. /\ log' \in Logs /\ log'[req.p].told = log[req.p].told
        /\ log'[req.p].sends = log[req.p].sends + 1
        /\ \A p \in Platforms \ {req.p} : log'[p] = log[p]
    BY <1>2, <2>2, <2>5, <2>6 DEF Logs
  <2>8. log[req.p].sends <= apply.tries + 1 /\ apply.retried
    BY <1>2 DEF Sending
  <2>9. Spent(apply) = apply.tries + 1 /\ apply.tries <= MaxRetries /\ apply.tries \in Nat
        /\ log[req.p].sends \in Nat
    BY <2>2, <2>4, <2>8, ApplyAssumption DEF Spent, Applies
  <2>10. log'[req.p].sends <= Spent(apply) + 1 /\ log'[req.p].sends <= MaxRetries + 2
    BY <2>7, <2>8, <2>9, ApplyAssumption
  <2>11. \A p \in Platforms : log'[p].told = log[p].told /\ log'[p].sends <= MaxRetries + 2
    BY <2>2, <2>7, <2>10 DEF Books
  <2>12. Books(apply.queue, log', asked)
    BY <2>2, <2>7, <2>11, BooksSame
  <2>13. Fresh(apply.queue, log', 0)
    <3>1. \A i \in DOMAIN apply.queue : apply.queue[i] \in Platforms \ {req.p}
      BY <1>2, <2>2 DEF Sending, Range
    <3>. QED  BY <1>2, <2>7, <3>1 DEF Sending, Fresh
  <2>14. Owed(Range(apply.queue) \union {req.p}, log', asked)
    BY <1>1, <1>2, <2>11, OwedSame DEF Sending, Others
  <2>15. Alone(net, o)'
    BY <2>3 DEF Alone
  <2>16. apply' = apply /\ asked' = asked /\ timers' = timers
    BY <1>3
  <2>17. Sending(o)'
    BY <1>2, <2>1, <2>7, <2>10, <2>13, <2>14, <2>15, <2>16 DEF Sending, Spent
  <2>18. Kept'
    BY <2>2, <2>3, <2>7, <2>12, <2>16, <2>17 DEF Kept, Rec, Phase
  <2>19. Others'
    BY <1>1, <1>3 DEF Others, DockOK, dock
  <2>. QED  BY <2>18, <2>19, PartsNext
<1>4. CASE /\ Same(loggedIn, [conn EXCEPT ![FALSE] = @ \ {req.p}])
           /\ NextAfter(req.p, Got(req)) /\ UNCHANGED <<timers, asked, cuts, steps>>
  <2>1. DockOK'
    BY <1>1, <1>4 DEF Others, DockOK, Same
  <2>. QED  BY <1>2, <1>4, <2>1, AnswerKeeps
<1>. QED  BY <1>3, <1>4 DEF RefreshReply

\* A reply that no one acts on leaves an Apply that was cut.
LEMMA DroppedKeeps ==
    ASSUME IInv, NEW req \in Moving, Sending(req), NEW cause \in {"switch", "logout"},
           Dropped(req, cause, TRUE), apply' = apply, loggedIn' \in BOOLEAN
    PROVE  IInv'
<1>1. Kept /\ Others
  BY Parts
<1>2. apply \in Applies /\ net \in [Requests -> Nat] /\ req \in Requests /\ net[req] > 0
  BY <1>1, MovingFacts DEF Kept, Rec, Sending, Alone
<1>3. net' \in [Requests -> Nat] /\ Still(net') /\ cuts' = cuts \union {cause}
  BY <1>2, GotFacts DEF Sending, Dropped, Cut
<1>4. Kept'
  BY <1>1, <1>2, <1>3, StrandedKeeps DEF Sending, Dropped
<1>5. Others'
  BY <1>1, <1>3 DEF Others, DockOK, Dropped
<1>. QED  BY <1>4, <1>5, PartsNext

LEMMA ManagedKeeps ==
    ASSUME IInv, NEW req \in Requests, net[req] > 0, ManagedReply(req)
    PROVE  IInv'
<1>1. Kept /\ Others
  BY Parts
<1>2. req \in Moving /\ req.p \in Platforms /\ Sending(req) /\ req.kind = "update"
  BY <1>1, MovingReq, PhaseOf DEF ManagedReply
<1>3. CASE Dropped(req, "switch", TRUE) /\ MaybeLoggedOut(req) /\ UNCHANGED apply
  <2>1. loggedIn' \in BOOLEAN
    BY <1>1, <1>3 DEF Others, DockOK, MaybeLoggedOut
  <2>. QED  BY <1>2, <1>3, <2>1, DroppedKeeps
<1>4. CASE Backoff(req.p, Got(req))
  BY <1>2, <1>4, BackoffKeeps
<1>5. CASE /\ ~apply.retried /\ apply' = [apply EXCEPT !.retried = TRUE]
           /\ net' = Sent(Got(req), Req("session", req.p, TRUE))
           /\ UNCHANGED <<timers, dock, asked, log, cuts, steps>>
  <2>1. /\ Req("session", req.p, TRUE) \in Moving /\ Req("session", req.p, TRUE).p = req.p
        /\ Req("session", req.p, TRUE).kind = "session"
    BY <1>2, <1>5, ReqFacts DEF Moving, Req
  <2>2. Kept'
    BY <1>1, <1>2, <1>5, <2>1, RetriedKeeps
  <2>3. Others'
    BY <1>1, <1>5 DEF Others, DockOK, dock
  <2>. QED  BY <2>2, <2>3, PartsNext
<1>6. CASE /\ \/ Same(loggedIn, conn)
              \/ Same(FALSE, [conn EXCEPT ![TRUE] = @ \ {req.p}])
           /\ NextAfter(req.p, Got(req)) /\ UNCHANGED <<timers, asked, cuts, steps>>
  <2>1. DockOK'
    BY <1>1, <1>6 DEF Others, DockOK, Same
  <2>. QED  BY <1>2, <1>6, <2>1, AnswerKeeps
<1>. QED  BY <1>3, <1>4, <1>5, <1>6 DEF ManagedReply

LEMMA SessionKeeps ==
    ASSUME IInv, NEW req \in Requests, net[req] > 0, SessionReply(req)
    PROVE  IInv'
<1>1. Kept /\ Others
  BY Parts
<1>2. req \in Moving /\ req.p \in Platforms /\ Sending(req) /\ req.kind = "session"
  BY <1>1, MovingReq, PhaseOf DEF SessionReply
<1>3. CASE Dropped(req, "switch", TRUE) /\ UNCHANGED <<apply, loggedIn>>
  <2>1. loggedIn' \in BOOLEAN
    BY <1>1, <1>3 DEF Others, DockOK
  <2>. QED  BY <1>2, <1>3, <2>1, DroppedKeeps
<1>4. CASE /\ Same(loggedIn, [conn EXCEPT ![TRUE] = @ \ {req.p}])
           /\ NextAfter(req.p, Got(req)) /\ UNCHANGED <<timers, asked, cuts, steps>>
  <2>1. DockOK'
    BY <1>1, <1>4 DEF Others, DockOK, Same
  <2>. QED  BY <1>2, <1>4, <2>1, AnswerKeeps
<1>5. CASE Dropped(req, "logout", TRUE) /\ UNCHANGED <<apply, loggedIn>>
  <2>1. loggedIn' \in BOOLEAN
    BY <1>1, <1>5 DEF Others, DockOK
  <2>. QED  BY <1>2, <1>5, <2>1, DroppedKeeps
<1>6. CASE Same(loggedIn, conn) /\ NextAfter(req.p, Got(req)) /\ UNCHANGED <<timers, asked, cuts, steps>>
  <2>1. DockOK'
    BY <1>1, <1>6 DEF Others, DockOK, Same
  <2>. QED  BY <1>2, <1>6, <2>1, AnswerKeeps
<1>7. CASE Same(loggedIn, conn) /\ Serve(req.p, apply, log, Got(req)) /\ UNCHANGED <<timers, asked, cuts, steps>>
  <2>1. DockOK'
    BY <1>1, <1>7 DEF Others, DockOK, Same
  <2>2. apply \in Applies /\ log \in Logs /\ net \in [Requests -> Nat] /\ Books(apply.queue, log, asked)
    BY <1>1 DEF Kept, Rec
  <2>3. Got(req) \in [Requests -> Nat] /\ Still(Got(req))
    BY <1>2, <2>2, GotFacts DEF Sending
  <2>4. log[req.p].sends <= Spent(apply)
    BY <1>2 DEF Sending, Spent
  <2>5. Ready(req.p, apply, log, Got(req), asked)
    BY <1>2, <2>2, <2>3, <2>4 DEF Ready, Sending
  <2>6. asked' = asked /\ timers' = 0 /\ asked \in SUBSET Platforms
    BY <1>1, <1>2, <1>7 DEF Sending, Others
  <2>7. Kept'
    BY <1>2, <1>7, <2>1, <2>2, <2>3, <2>5, <2>6, ServeKeeps DEF Rec
  <2>8. Others'
    BY <1>1, <1>7, <2>1 DEF Others
  <2>. QED  BY <2>7, <2>8, PartsNext
<1>. QED  BY <1>3, <1>4, <1>5, <1>6, <1>7 DEF SessionReply

LEMMA TailFacts ==
    ASSUME NEW q \in Seq(Platforms), q # <<>>
    PROVE  /\ Head(q) = q[1] /\ 1 \in DOMAIN q /\ Head(q) \in Platforms
           /\ Tail(q) \in Seq(Platforms) /\ Len(Tail(q)) = Len(q) - 1
           /\ Len(q) \in Nat /\ DOMAIN q = 1..Len(q) /\ DOMAIN Tail(q) = 1..Len(q) - 1
           /\ \A i \in DOMAIN Tail(q) : i + 1 \in DOMAIN q /\ Tail(q)[i] = q[i + 1]
           /\ Range(q) \subseteq Range(Tail(q)) \union {Head(q)}
<1>1. /\ Tail(q) \in Seq(Platforms) /\ Len(Tail(q)) = Len(q) - 1 /\ Head(q) = q[1]
      /\ \A i \in 1..Len(Tail(q)) : Tail(q)[i] = q[i + 1]
      /\ Len(q) \in Nat \ {0} /\ DOMAIN q = 1..Len(q)
  BY HeadTailProperties, EmptySeq
<1>. DEFINE t == Tail(q)
            L == Len(q)
<1>2. DOMAIN t = 1..Len(t) /\ \A i \in 1..L : q[i] \in Platforms
  BY <1>1
<1>. HIDE DEF t, L
<1>3. 1 \in 1..L /\ DOMAIN t = 1..L - 1 /\ \A i \in 1..L - 1 : i + 1 \in 1..L
  BY <1>1, <1>2 DEF t, L
<1>4. ASSUME NEW i \in DOMAIN q PROVE q[i] \in Range(t) \union {q[1]}
  <2>1. CASE i = 1
    BY <2>1
  <2>2. CASE i # 1
    <3>1. i - 1 \in 1..L - 1 /\ (i - 1) + 1 = i
      BY <1>1, <2>2 DEF L
    <3>2. i - 1 \in DOMAIN t /\ t[i - 1] = q[i]
      BY <1>1, <1>2, <1>3, <3>1 DEF t
    <3>. QED  BY <3>2 DEF Range
  <2>. QED  BY <2>1, <2>2
<1>5. Range(q) \subseteq Range(t) \union {q[1]}
  BY <1>4 DEF Range
<1>. QED  BY <1>1, <1>2, <1>3, <1>5 DEF t, L

\* The first of the queue gets its answer while it waits there.
LEMMA PopStartable ==
    ASSUME NEW a, NEW l, NEW r, Rec(a, l, r), NEW A \in SUBSET Platforms,
           a.on, ~a.afterList, ~a.creating, Still(r), a.queue # <<>>,
           Books(a.queue, l, A), Owed(Range(a.queue), l, A), Fresh(a.queue, l, 1),
           NEW b, b = [a EXCEPT !.queue = Tail(@)]
    PROVE  Rec(b, Told(l, Head(a.queue)), r) /\ Startable(b, Told(l, Head(a.queue)), r, A)
<1>. DEFINE q == a.queue
            t == Tail(q)
            p == Head(q)
<1>1. a \in Applies /\ l \in Logs /\ r \in [Requests -> Nat] /\ q \in Seq(Platforms) /\ q # <<>>
  BY DEF Rec, Applies
<1>2. /\ p = q[1] /\ 1 \in DOMAIN q /\ p \in Platforms /\ t \in Seq(Platforms)
      /\ Len(t) = Len(q) - 1 /\ Len(q) \in Nat /\ DOMAIN q = 1..Len(q) /\ DOMAIN t = 1..Len(q) - 1
      /\ \A i \in DOMAIN t : i + 1 \in DOMAIN q /\ t[i] = q[i + 1]
      /\ Range(q) \subseteq Range(t) \union {p}
  BY <1>1, TailFacts
<1>3. /\ b \in Applies /\ b.queue = t /\ b.on /\ ~b.afterList /\ ~b.creating
      /\ b.tries = a.tries /\ b.retried = a.retried
  BY <1>1, <1>2 DEF Applies
<1>4. Books(q, l, A) /\ Owed(Range(q), l, A) /\ Fresh(q, l, 1)
  OBVIOUS
<1>. HIDE DEF q, t, p
<1>5. p \in A /\ l[p].told = 0
  BY <1>2, <1>4 DEF Books
<1>6. \A i \in DOMAIN t : i + 1 # 1 /\ i + 1 > 1
  BY <1>2
<1>7. p \notin Range(t)
  BY <1>2, <1>4, <1>6 DEF Books, IsInjective, Range
<1>8. Books(t, l, A)
  <2>1. IsInjective(t)
    <3>. SUFFICES ASSUME NEW i \in DOMAIN t, NEW j \in DOMAIN t, t[i] = t[j] PROVE i = j
      BY DEF IsInjective
    <3>1. i + 1 = j + 1
      BY <1>2, <1>4 DEF Books, IsInjective
    <3>. QED  BY <1>2, <3>1
  <2>2. ASSUME NEW i \in DOMAIN t, t[i] = "Facebook" PROVE i = Len(t)
    <3>1. i + 1 = Len(q)
      BY <1>2, <1>4, <2>2 DEF Books
    <3>. QED  BY <1>2, <3>1
  <2>3. \A i \in DOMAIN t : t[i] \in A /\ l[t[i]].told = 0
    BY <1>2, <1>4 DEF Books
  <2>. QED  BY <1>4, <2>1, <2>2, <2>3 DEF Books
<1>9. Owed(Range(t) \union {p}, l, A)
  BY <1>2, <1>4 DEF Owed
<1>10. Fresh(t, l, 0)
  BY <1>2, <1>4, <1>6 DEF Fresh
<1>11. /\ Books(t, Told(l, p), A) /\ Owed(Range(t), Told(l, p), A) /\ Fresh(t, Told(l, p), 0)
       /\ Told(l, p) \in Logs
  BY <1>1, <1>2, <1>5, <1>7, <1>8, <1>9, <1>10, ToldBooks, ToldFacts
<1>12. /\ Fresh(t, Told(l, p), 1)
       /\ t # <<>> => Told(l, p)[t[1]].sends = 0
  <2>1. \A i \in DOMAIN t : i > 0
    BY <1>2
  <2>2. t # <<>> => 1 \in DOMAIN t
    BY <1>2, EmptySeq
  <2>. QED  BY <1>11, <2>1, <2>2 DEF Fresh
<1>13. Startable(b, Told(l, p), r, A)
  BY <1>3, <1>11, <1>12 DEF Startable
<1>. QED  BY <1>1, <1>3, <1>11, <1>13 DEF Rec, p, q

\* A list came while Apply waits for one: the first of the queue is tried
\* again, or gets its answer.
LEMMA ListedKeeps ==
    ASSUME Kept, Others, Listing, NEW r \in [Requests -> Nat], Still(r), NEW a \in Applies,
           /\ a.queue = apply.queue /\ a.on /\ ~a.afterList /\ ~a.creating,
           \/ StartNext(a, log, r)
           \/ StartNext([a EXCEPT !.queue = Tail(@)], Told(log, Head(a.queue)), r),
           UNCHANGED <<timers, asked>>, DockOK'
    PROVE  Kept'
<1>1. /\ log \in Logs /\ asked \in SUBSET Platforms /\ timers' = 0 /\ asked' = asked
      /\ Books(a.queue, log, asked) /\ a.queue # <<>> /\ a.queue \in Seq(Platforms)
      /\ Owed(Range(a.queue), log, asked) /\ Fresh(a.queue, log, 0)
  BY DEF Kept, Rec, Others, Listing, Waits, Applies
<1>2. Fresh(a.queue, log, 1) /\ log[a.queue[1]].sends = 0
  <2>1. \A i \in DOMAIN a.queue : i > 0
    BY <1>1
  <2>2. 1 \in DOMAIN a.queue
    BY <1>1
  <2>. QED  BY <1>1, <2>1, <2>2 DEF Fresh
<1>3. CASE StartNext(a, log, r)
  <2>1. Startable(a, log, r, asked)
    BY <1>1, <1>2 DEF Startable
  <2>. QED  BY <1>1, <1>3, <2>1, StartKeeps DEF Rec
<1>4. CASE StartNext([a EXCEPT !.queue = Tail(@)], Told(log, Head(a.queue)), r)
  <2>. DEFINE b == [a EXCEPT !.queue = Tail(@)]
              k == Told(log, Head(a.queue))
  <2>1. Rec(b, k, r) /\ Startable(b, k, r, asked)
    BY <1>1, <1>2, PopStartable DEF Rec
  <2>2. StartNext(b, k, r)
    BY <1>4
  <2>. HIDE DEF b, k
  <2>. QED  BY <1>1, <2>1, <2>2, StartKeeps
<1>. QED  BY <1>3, <1>4

LEMMA ListKeeps ==
    ASSUME IInv, NEW req \in Requests, net[req] > 0, ListReply(req)
    PROVE  IInv'
<1>. DEFINE a == [apply EXCEPT !.lists = @ \union {req.p}]
            b == [a EXCEPT !.afterList = FALSE]
<1>1. Kept /\ Others
  BY Parts
<1>2. req \notin Moving /\ req.p \in Lists /\ req.kind = "list"
  BY DEF ListReply, Moving, Requests
<1>3. apply \in Applies /\ log \in Logs /\ net \in [Requests -> Nat]
  BY <1>1 DEF Kept, Rec
<1>4. /\ Got(req) \in [Requests -> Nat] /\ \A m \in Moving : Got(req)[m] = net[m]
      /\ Still(net) => Still(Got(req)) /\ \A o \in Requests \ {req} : Got(req)[o] = net[o]
  BY <1>2, <1>3, GotFacts
<1>5. /\ a \in Applies /\ a.queue = apply.queue /\ a.on = apply.on /\ a.tries = apply.tries
      /\ a.retried = apply.retried /\ a.resume = apply.resume
      /\ a.afterList = apply.afterList /\ a.creating = apply.creating
  BY <1>2, <1>3 DEF Applies
<1>6. /\ b \in Applies /\ b.queue = apply.queue /\ b.on = apply.on
      /\ b.afterList = FALSE /\ b.creating = apply.creating
      /\ [a EXCEPT !.queue = Tail(@), !.afterList = FALSE] = [b EXCEPT !.queue = Tail(@)]
  <2>. HIDE DEF a
  <2>. QED  BY <1>5 DEF Applies
<1>7. apply.creating => Got(req)[Req("create", "Facebook", managed)] > 0
  <2>. SUFFICES ASSUME apply.creating
                PROVE  Got(req)[Req("create", "Facebook", managed)] > 0
    OBVIOUS
  <2>1. Creating /\ managed \in BOOLEAN
    BY <1>1, PhaseOf DEF Others, DockOK
  <2>2. "Facebook" \in Platforms
    <3>1. apply.queue \in Seq(Platforms) /\ apply.queue # <<>>
      BY <1>3, <2>1 DEF Creating, Applies
    <3>. QED  BY <2>1, <3>1 DEF Creating
  <2>3. Req("create", "Facebook", managed) \in Requests
    BY <2>1, <2>2, ReqFacts
  <2>4. Req("create", "Facebook", managed) # req
    BY <1>2 DEF Req
  <2>. QED  BY <1>4, <2>1, <2>3, <2>4 DEF Creating
<1>. HIDE DEF a, b
<1>8. CASE /\ Dropped(req, "switch", apply.afterList)
           /\ MaybeLoggedOut(req) /\ apply' = a
  <2>1. UNCHANGED <<log, asked, timers, managed>> /\ net' = Got(req) /\ cuts \subseteq cuts'
    BY <1>8 DEF Dropped, Cut
  <2>2. apply.afterList => cuts' # {}
    <3>1. apply.afterList => apply.on
      BY <1>1, PhaseOf DEF Listing, Waits
    <3>. QED  BY <1>8, <3>1 DEF Dropped, Cut
  <2>3. Kept'
    BY <1>1, <1>4, <1>5, <1>7, <1>8, <2>1, <2>2, AsideKeeps
  <2>4. Others'
    BY <1>1, <1>8 DEF Others, DockOK, Dropped, Cut, MaybeLoggedOut
  <2>. QED  BY <2>3, <2>4, PartsNext
<1>9. ASSUME DockOK', UNCHANGED <<timers, asked, cuts, steps, managed>>,
             \/ apply.afterList = FALSE /\ apply' = a /\ log' = log /\ net' = Got(req)
             \/ /\ apply.afterList
                /\ \/ StartNext(b, log, Got(req))
                   \/ StartNext([b EXCEPT !.queue = Tail(@)], Told(log, Head(b.queue)), Got(req))
      PROVE  IInv'
  <2>. SUFFICES Kept'
    BY <1>1, <1>9, PartsNext DEF Others
  <2>1. CASE apply.afterList = FALSE /\ apply' = a /\ log' = log /\ net' = Got(req)
    <3>1. UNCHANGED <<log, asked, timers, managed>> /\ cuts \subseteq cuts'
      BY <1>9, <2>1
    <3>2. apply.creating => net'[Req("create", "Facebook", managed')] > 0
      BY <1>7, <2>1, <3>1
    <3>. QED  BY <1>1, <1>4, <1>5, <2>1, <3>1, <3>2, AsideKeeps
  <2>2. CASE apply.afterList
    <3>1. Listing
      BY <1>1, <2>2, PhaseOf
    <3>2. b.on /\ ~b.creating /\ ~b.afterList /\ Still(Got(req))
      BY <1>4, <1>6, <3>1 DEF Listing, Waits
    <3>3. \/ StartNext(b, log, Got(req))
          \/ StartNext([b EXCEPT !.queue = Tail(@)], Told(log, Head(b.queue)), Got(req))
      BY <1>9, <2>2
    <3>4. DockOK' /\ UNCHANGED <<timers, asked>>
      BY <1>9
    <3>5. Got(req) \in [Requests -> Nat] /\ b \in Applies /\ b.queue = apply.queue
      BY <1>4, <1>6
    <3>. QED  BY <1>1, <3>1, <3>2, <3>3, <3>4, <3>5, ListedKeeps
  <2>. QED  BY <1>9, <2>1, <2>2
<1>10. CASE /\ \/ Same(loggedIn, conn)
               \/ Same(FALSE, [conn EXCEPT ![TRUE] = @ \ {req.p}])
            /\ ListFailed(a, Got(req)) /\ UNCHANGED <<timers, asked, cuts, steps>>
  <2>1. DockOK' /\ managed' = managed
    BY <1>1, <1>10 DEF Others, DockOK, Same
  <2>2. b.queue = apply.queue
    BY <1>6
  <2>. QED  BY <1>3, <1>6, <1>9, <1>10, <2>1, <2>2 DEF ListFailed, Applies
<1>11. CASE /\ UNCHANGED <<managed, loggedIn, conn>>
            /\ \E found \in BOOLEAN :
                 /\ broadcasts' = IF req.p = "YouTube" THEN found ELSE broadcasts
                 /\ video' = IF req.p = "Facebook" THEN found ELSE video
                 /\ ListLoaded(found, a, Got(req))
            /\ UNCHANGED <<timers, asked, cuts, steps>>
  <2>1. DockOK'
    BY <1>1, <1>11 DEF Others, DockOK
  <2>. QED  BY <1>3, <1>6, <1>9, <1>11, <2>1 DEF ListLoaded, Applies, b
<1>. QED  BY <1>8, <1>10, <1>11 DEF ListReply, a

LEMMA CreatedKeeps ==
    ASSUME IInv, NEW req \in Requests, net[req] > 0, CreateReply(req)
    PROVE  IInv'
<1>1. Kept /\ Others
  BY Parts
<1>2. /\ req \notin Moving /\ req.p = "Facebook" /\ req.kind = "create"
      /\ req = Req("create", "Facebook", req.managed) /\ req.managed \in BOOLEAN
  BY DEF CreateReply, Moving, Requests, Req
<1>3. apply \in Applies /\ log \in Logs /\ net \in [Requests -> Nat] /\ managed \in BOOLEAN
  BY <1>1 DEF Kept, Rec, Others, DockOK
<1>4. /\ Got(req) \in [Requests -> Nat] /\ \A m \in Moving : Got(req)[m] = net[m]
      /\ Still(net) => Still(Got(req)) /\ \A o \in Requests \ {req} : Got(req)[o] = net[o]
  BY <1>2, <1>3, GotFacts
<1>5. ASSUME apply.afterList, cuts = {} PROVE \E r \in Requests : r.kind = "list" /\ Got(req)[r] > 0
  <2>1. PICK r \in Requests : r.kind = "list" /\ net[r] > 0
    BY <1>1, <1>5, PhaseOf DEF Listing
  <2>2. r # req
    BY <1>2, <2>1
  <2>3. Got(req)[r] = net[r]
    <3>1. r \in Requests \ {req}
      BY <2>2
    <3>. QED  BY <1>3, <3>1, GotFacts
  <2>. QED  BY <2>1, <2>3
<1>6. CASE req.managed # managed /\ Dropped(req, "switch", FALSE) /\ UNCHANGED apply
           /\ MaybeLoggedOut(req)
  <2>1. UNCHANGED <<apply, log, asked, timers, managed, cuts>> /\ net' = Got(req)
    BY <1>6 DEF Dropped, Cut
  <2>2. ASSUME apply.creating PROVE net'[Req("create", "Facebook", managed')] > 0
    <3>1. Creating /\ "Facebook" \in Platforms
      BY <1>1, <1>2, <2>2, PhaseOf DEF Requests
    <3>2. Req("create", "Facebook", managed) \in Requests
      BY <1>3, <3>1, ReqFacts
    <3>3. Req("create", "Facebook", managed) # req
      BY <1>2, <1>6 DEF Req
    <3>. QED  BY <1>4, <2>1, <3>1, <3>2, <3>3 DEF Creating
  <2>3. Kept'
    BY <1>1, <1>3, <1>4, <1>5, <2>1, <2>2, AsideKeeps
  <2>4. Others'
    BY <1>1, <1>6 DEF Others, DockOK, Dropped, Cut, MaybeLoggedOut
  <2>. QED  BY <2>3, <2>4, PartsNext
<1>7. CASE /\ req.managed = managed /\ MaybeLoggedOut(req)
           /\ video' \in {video, TRUE}
           /\ UNCHANGED <<managed, conn, broadcasts, timers, asked, cuts, steps>>
           /\ IF apply.creating THEN StartNext(Completed, Told(log, "Facebook"), Got(req))
              ELSE /\ apply' = [apply EXCEPT !.inFlight = FALSE]
                   /\ net' = Got(req) /\ UNCHANGED log
  <2>1. DockOK'
    BY <1>1, <1>7 DEF Others, DockOK, MaybeLoggedOut
  <2>. SUFFICES Kept'
    BY <1>1, <1>7, <2>1, PartsNext DEF Others
  <2>2. CASE apply.creating
    <3>. DEFINE a == [apply EXCEPT !.inFlight = FALSE, !.creating = FALSE]
                b == [a EXCEPT !.queue = Tail(@)]
    <3>1. Creating
      BY <1>1, <2>2, PhaseOf
    <3>2. /\ a \in Applies /\ a.queue = apply.queue /\ a.on = apply.on /\ ~a.creating
          /\ a.afterList = apply.afterList /\ a.queue \in Seq(Platforms)
      BY <1>3 DEF Applies
    <3>3. a.queue # <<>> /\ Head(a.queue) = "Facebook"
      BY <3>1, <3>2, TailFacts DEF Creating
    <3>4. Completed = b
      BY <1>3, <3>2, <3>3 DEF Completed, Applies
    <3>. HIDE DEF a
    <3>5. Rec(a, log, Got(req)) /\ Still(Got(req))
      BY <1>3, <1>4, <3>1, <3>2 DEF Creating, Rec
    <3>6. /\ Books(a.queue, log, asked) /\ Owed(Range(a.queue), log, asked)
          /\ Fresh(a.queue, log, 1) /\ a.on /\ ~a.afterList /\ asked \in SUBSET Platforms
      BY <1>1, <3>1, <3>2 DEF Kept, Creating, Waits, Others
    <3>7. /\ Rec(b, Told(log, Head(a.queue)), Got(req))
          /\ Startable(b, Told(log, Head(a.queue)), Got(req), asked)
      BY <3>2, <3>3, <3>5, <3>6, PopStartable
    <3>. HIDE DEF b
    <3>8. StartNext(b, Told(log, "Facebook"), Got(req)) /\ timers' = 0 /\ asked' = asked
      BY <1>7, <2>2, <3>1, <3>4 DEF Creating
    <3>9. Startable(b, Told(log, "Facebook"), Got(req), asked') /\ Rec(b, Told(log, "Facebook"), Got(req))
      BY <3>3, <3>7, <3>8
    <3>10. asked' \in SUBSET Platforms
      BY <3>6, <3>8
    <3>. QED  BY <2>1, <3>8, <3>9, <3>10, StartKeeps
  <2>3. CASE ~apply.creating
    <3>1. apply' = [apply EXCEPT !.inFlight = FALSE] /\ net' = Got(req) /\ log' = log
      BY <1>7, <2>3
    <3>2. /\ apply' \in Applies /\ apply'.queue = apply.queue /\ apply'.on = apply.on
          /\ apply'.tries = apply.tries /\ apply'.retried = apply.retried
          /\ apply'.resume = apply.resume /\ apply'.afterList = apply.afterList
          /\ apply'.creating = apply.creating
      BY <1>3, <3>1 DEF Applies
    <3>3. UNCHANGED <<log, asked, timers, managed, cuts>>
      BY <1>7, <3>1
    <3>4. apply.afterList /\ cuts' = {} => \E r \in Requests : r.kind = "list" /\ net'[r] > 0
      BY <1>5, <3>1, <3>3
    <3>5. \A m \in Moving : net'[m] = net[m]
      BY <1>4, <3>1
    <3>6. net' \in [Requests -> Nat]
      BY <1>4, <3>1
    <3>7. cuts \subseteq cuts'
      BY <3>3
    <3>. QED  BY <1>1, <2>3, <3>2, <3>3, <3>4, <3>5, <3>6, <3>7, AsideKeeps
  <2>. QED  BY <2>2, <2>3
<1>. QED  BY <1>6, <1>7 DEF CreateReply

LEMMA TimeoutKeeps ==
    ASSUME IInv, BackoffTimeout
    PROVE  IInv'
<1>1. Kept /\ Others /\ Backing
  BY Parts, PhaseOf DEF BackoffTimeout
<1>2. DockOK' /\ asked' = asked /\ asked \in SUBSET Platforms
  BY <1>1 DEF BackoffTimeout, Same, Others, DockOK
<1>3. timers' = 0
  BY <1>1 DEF BackoffTimeout, Backing
<1>4. Startable(apply, log, net, asked)
  BY <1>1 DEF Startable, Backing, Kept, Quiet, Waits
<1>5. Kept'
  BY <1>1, <1>2, <1>3, <1>4, StartKeeps DEF BackoffTimeout, Kept
<1>6. Others'
  BY <1>1, <1>2, <1>3 DEF Others, BackoffTimeout
<1>. QED  BY <1>5, <1>6, PartsNext

-----------------------------------------------------------------------------
(* The user.                                                               *)

\* Requests may be added beside the step Apply waits for.
LEMMA MoreKeeps ==
    ASSUME IInv, apply' \in Applies, net' \in [Requests -> Nat],
           UNCHANGED <<log, asked, timers>>, cuts \subseteq cuts',
           /\ apply'.queue = apply.queue /\ apply'.on = apply.on /\ apply'.tries = apply.tries
           /\ apply'.retried = apply.retried /\ apply'.resume = apply.resume
           /\ apply'.afterList = apply.afterList /\ apply'.creating = apply.creating,
           \A r \in Requests : net'[r] >= net[r] /\ (r \in Moving => net'[r] = net[r]),
           managed' = managed \/ ~apply.creating
    PROVE  Kept'
<1>1. Kept /\ Others /\ net \in [Requests -> Nat] /\ managed \in BOOLEAN
  BY Parts DEF Kept, Rec, Others, DockOK
<1>2. \A m \in Moving : net'[m] = net[m]
  BY MovingFacts
<1>3. ASSUME apply.afterList, cuts' = {} PROVE \E r \in Requests : r.kind = "list" /\ net'[r] > 0
  <2>1. PICK r \in Requests : r.kind = "list" /\ net[r] > 0
    BY <1>1, <1>3, PhaseOf DEF Listing
  <2>2. net'[r] >= net[r] /\ net'[r] \in Nat /\ net[r] \in Nat
    BY <1>1, <2>1
  <2>. QED  BY <2>1, <2>2
<1>4. ASSUME apply.creating PROVE net'[Req("create", "Facebook", managed')] > 0
  <2>. DEFINE r == Req("create", "Facebook", managed)
  <2>1. Creating /\ managed' = managed
    BY <1>1, <1>4, PhaseOf
  <2>2. "Facebook" \in Platforms
    <3>1. apply.queue \in Seq(Platforms) /\ apply.queue # <<>> /\ apply.queue[1] = "Facebook"
      BY <1>1, <2>1 DEF Creating, Kept, Rec, Applies
    <3>. QED  BY <3>1
  <2>3. r \in Requests /\ net[r] > 0
    BY <1>1, <2>1, <2>2, ReqFacts DEF Creating
  <2>. HIDE DEF r
  <2>4. net'[r] > 0
    <3>1. net'[r] >= net[r] /\ net'[r] \in Nat /\ net[r] \in Nat
      BY <1>1, <2>3
    <3>. QED  BY <2>3, <3>1
  <2>. QED  BY <2>1, <2>4 DEF r
<1>5. apply.afterList /\ cuts' = {} => \E r \in Requests : r.kind = "list" /\ net'[r] > 0
  BY <1>3
<1>6. apply.creating => net'[Req("create", "Facebook", managed')] > 0
  BY <1>4
<1>. QED  BY <1>1, <1>2, <1>5, <1>6, AsideKeeps

\* What the user does changes no request but may send a list or a create.
LEMMA SentMore ==
    ASSUME net \in [Requests -> Nat], NEW q \in Requests, q \notin Moving
    PROVE  /\ Sent(net, q) \in [Requests -> Nat]
           /\ \A r \in Requests : /\ Sent(net, q)[r] >= net[r]
                                  /\ r \in Moving => Sent(net, q)[r] = net[r]
<1>1. /\ Sent(net, q) \in [Requests -> Nat] /\ Sent(net, q)[q] = net[q] + 1
      /\ \A o \in Requests \ {q} : Sent(net, q)[o] = net[o]
  BY SentFacts
<1>2. ASSUME NEW r \in Requests
      PROVE  Sent(net, q)[r] >= net[r] /\ (r \in Moving => Sent(net, q)[r] = net[r])
  <2>1. net[r] \in Nat /\ net[q] \in Nat
    OBVIOUS
  <2>2. CASE r = q
    BY <1>1, <2>1, <2>2
  <2>3. CASE r # q
    <3>1. Sent(net, q)[r] = net[r]
      BY <1>1, <2>3
    <3>. QED  BY <2>1, <3>1
  <2>. QED  BY <2>2, <2>3
<1>. QED  BY <1>1, <1>2

\* The queue of onApply: each once, Facebook last.
LEMMA OrderedQueue ==
    ASSUME NEW S \in SUBSET Platforms, NEW q \in [1..Cardinality(S) -> S], InOrder(q, S)
    PROVE  /\ q \in Seq(Platforms) /\ DOMAIN q = 1..Len(q) /\ Range(q) = S /\ IsInjective(q)
           /\ \A i \in DOMAIN q : q[i] = "Facebook" => i = Len(q)
<1>1. Cardinality(S) \in Nat
  <2>1. IsFiniteSet({"Twitch", "YouTube", "Kick", "Facebook"})
    <3>. DEFINE k == <<"Twitch", "YouTube", "Kick", "Facebook">>
    <3>1. IsFiniteSet({"Twitch"})
      BY FS_Singleton
    <3>2. IsFiniteSet({"Twitch"} \union {"YouTube"})
      BY <3>1, FS_AddElement
    <3>3. IsFiniteSet({"Twitch"} \union {"YouTube"} \union {"Kick"})
      BY <3>2, FS_AddElement
    <3>4. IsFiniteSet({"Twitch"} \union {"YouTube"} \union {"Kick"} \union {"Facebook"})
      BY <3>3, FS_AddElement
    <3>5. {"Twitch", "YouTube", "Kick", "Facebook"}
             = {"Twitch"} \union {"YouTube"} \union {"Kick"} \union {"Facebook"}
      OBVIOUS
    <3>. QED  BY <3>4, <3>5
  <2>2. S \subseteq {"Twitch", "YouTube", "Kick", "Facebook"}
    BY ApplyAssumption
  <2>. QED  BY <2>1, <2>2, FS_Subset, FS_CardinalityType
<1>2. q \in Seq(Platforms) /\ DOMAIN q = 1..Len(q) /\ Len(q) = Cardinality(S)
  BY <1>1
<1>3. ASSUME NEW i \in DOMAIN q, NEW j \in DOMAIN q, i < j PROVE q[i] # q[j] /\ q[i] # "Facebook"
  <2>1. PICK a \in DOMAIN Order, b \in DOMAIN Order :
           a < b /\ Order[a] = q[i] /\ Order[b] = q[j]
    BY <1>3 DEF InOrder
  <2>2. a \in 1..4 /\ b \in 1..4 /\ Order[1] = "Twitch" /\ Order[2] = "YouTube"
        /\ Order[3] = "Kick" /\ Order[4] = "Facebook"
    BY DEF Order
  <2>. QED  BY <2>1, <2>2
<1>4. ASSUME NEW i \in DOMAIN q, q[i] = "Facebook" PROVE i = Len(q)
  <2>1. i \in 1..Len(q) /\ Len(q) \in Nat /\ Len(q) \in DOMAIN q
    BY <1>1, <1>2
  <2>2. ~(i < Len(q))
    BY <1>3, <1>4, <2>1
  <2>. QED  BY <2>1, <2>2
<1>5. IsInjective(q)
  <2>1. ASSUME NEW i \in DOMAIN q, NEW j \in DOMAIN q, q[i] = q[j] PROVE i = j
    <3>1. i \in Int /\ j \in Int
      BY <1>2
    <3>2. ~(i < j) /\ ~(j < i)
      BY <1>3, <2>1
    <3>. QED  BY <3>1, <3>2
  <2>. QED  BY <2>1 DEF IsInjective
<1>. QED  BY <1>2, <1>4, <1>5 DEF InOrder

LEMMA ApplyKeeps ==
    ASSUME IInv, NEW S \in SUBSET Platforms, Apply(S)
    PROVE  IInv'
<1>. DEFINE l == [p \in Platforms |-> [told |-> 0, sends |-> 0]]
<1>1. Kept /\ Others /\ Resting
  BY Parts, PhaseOf DEF Apply
<1>2. DockOK' /\ asked' \in SUBSET Platforms /\ timers' = 0 /\ Others'
  BY <1>1 DEF Apply, Others, DockOK, Resting
<1>3. PICK q \in [1..Cardinality(asked') -> asked'] :
        /\ InOrder(q, asked')
        /\ StartNext([apply EXCEPT !.on = TRUE, !.queue = q], l, net)
  BY DEF Apply
<1>4. PICK a : a = [apply EXCEPT !.on = TRUE, !.queue = q]
  OBVIOUS
<1>5. /\ q \in Seq(Platforms) /\ DOMAIN q = 1..Len(q) /\ Range(q) = asked' /\ IsInjective(q)
      /\ \A i \in DOMAIN q : q[i] = "Facebook" => i = Len(q)
  BY <1>2, <1>3, OrderedQueue
<1>6. /\ a \in Applies /\ a.queue = q /\ a.on /\ a.afterList = apply.afterList
      /\ a.creating = apply.creating
  BY <1>1, <1>4, <1>5 DEF Kept, Rec, Applies
<1>7. /\ ~a.afterList /\ ~a.creating /\ Still(net) /\ net \in [Requests -> Nat]
  BY <1>1, <1>6 DEF Resting, Quiet, Kept, Rec
<1>8. l \in Logs /\ \A p \in Platforms : l[p].told = 0 /\ l[p].sends = 0
  BY DEF Logs
<1>. HIDE DEF l
<1>9. \A i \in DOMAIN q : q[i] \in asked' /\ q[i] \in Platforms
  BY <1>2, <1>3, <1>5
<1>10. Books(q, l, asked')
  <2>1. MaxRetries \in Nat
    BY ApplyAssumption
  <2>. QED  BY <1>5, <1>8, <1>9, <2>1 DEF Books
<1>11. Owed(Range(q), l, asked') /\ Fresh(q, l, 1)
  BY <1>5, <1>8, <1>9 DEF Owed, Fresh
<1>12. q # <<>> => l[q[1]].sends = 0
  BY <1>5, <1>8, <1>9
<1>13. Startable(a, l, net, asked')
  BY <1>6, <1>7, <1>10, <1>11, <1>12 DEF Startable
<1>14. Rec(a, l, net) /\ StartNext(a, l, net)
  BY <1>3, <1>4, <1>6, <1>7, <1>8 DEF Rec
<1>. QED  BY <1>2, <1>13, <1>14, StartKeeps, PartsNext

LEMMA StepBound ==
    ASSUME IInv, Step
    PROVE  Others /\ steps' \in 0..MaxSteps
<1>1. MaxSteps \in Nat
  BY ApplyAssumption
<1>. QED  BY <1>1, Parts DEF Others, Step

\* Its create is forgotten: Apply is stranded if it waited for one.
LEMMA ForgetKeeps ==
    ASSUME IInv, NEW cause, Cut(cause, apply.creating),
           apply' = [apply EXCEPT !.creating = FALSE, !.inFlight = FALSE],
           UNCHANGED <<net, log, asked, timers>>
    PROVE  Kept'
<1>1. Kept /\ apply \in Applies /\ net \in [Requests -> Nat]
  BY Parts DEF Kept, Rec
<1>2. /\ apply' \in Applies /\ apply'.queue = apply.queue /\ apply'.on = apply.on
      /\ apply'.tries = apply.tries /\ apply'.retried = apply.retried
      /\ apply'.resume = apply.resume /\ apply'.afterList = apply.afterList
      /\ apply'.creating = FALSE
  BY <1>1 DEF Applies
<1>3. CASE apply.creating
  <2>1. Creating
    BY <1>1, <1>3, PhaseOf
  <2>2. timers' = 0 /\ Still(net') /\ apply'.on /\ ~apply'.afterList /\ ~apply'.creating
    BY <1>2, <2>1 DEF Creating, Waits
  <2>3. cuts' # {}
    BY <1>3, <2>1 DEF Cut, Creating, Waits
  <2>. QED  BY <1>1, <1>2, <2>2, <2>3, StrandedKeeps
<1>4. CASE ~apply.creating
  <2>1. apply.creating = FALSE /\ cuts' = cuts
    BY <1>1, <1>4 DEF Cut, Applies
  <2>2. net' \in [Requests -> Nat]
    BY <1>1
  <2>3. \A r \in Requests : net'[r] >= net[r] /\ (r \in Moving => net'[r] = net[r])
    BY <1>1
  <2>. QED  BY <1>2, <1>4, <2>1, <2>2, <2>3, MoreKeeps
<1>. QED  BY <1>3, <1>4

LEMMA SwitchKeeps ==
    ASSUME IInv, ModeSwitch
    PROVE  IInv'
<1>1. Others'
  BY StepBound DEF ModeSwitch, Cut, Others, DockOK
<1>2. Kept'
  BY ForgetKeeps DEF ModeSwitch
<1>. QED  BY <1>1, <1>2, PartsNext

\* The dock alone changes, and the lists and the flag of the create.
LEMMA DockKeeps ==
    ASSUME IInv, apply' \in Applies, UNCHANGED <<net, log, asked, timers, cuts, managed>>,
           /\ apply'.queue = apply.queue /\ apply'.on = apply.on /\ apply'.tries = apply.tries
           /\ apply'.retried = apply.retried /\ apply'.resume = apply.resume
           /\ apply'.afterList = apply.afterList /\ apply'.creating = apply.creating
    PROVE  Kept'
<1>1. net \in [Requests -> Nat]
  BY Parts DEF Kept, Rec
<1>2. \A r \in Requests : net'[r] >= net[r] /\ (r \in Moving => net'[r] = net[r])
  BY <1>1
<1>3. net' \in [Requests -> Nat] /\ cuts \subseteq cuts'
  BY <1>1
<1>. QED  BY <1>2, <1>3, MoreKeeps

LEMMA DisconnectKeeps ==
    ASSUME IInv, NEW p \in Platforms, Disconnect(p)
    PROVE  IInv'
<1>1. Others'
  BY StepBound DEF Disconnect, Cut, Others, DockOK
<1>2. apply \in Applies
  BY Parts DEF Kept, Rec
<1>3. CASE p = "Facebook"
  <2>1. Cut("disconnect", apply.creating)
    BY <1>3 DEF Disconnect, Cut
  <2>. QED  BY <1>1, <1>3, <2>1, ForgetKeeps, PartsNext DEF Disconnect
<1>4. CASE p # "Facebook"
  <2>1. apply' = apply /\ cuts' = cuts
    BY <1>4 DEF Disconnect, Cut
  <2>. QED  BY <1>1, <1>2, <2>1, DockKeeps, PartsNext DEF Disconnect
<1>. QED  BY <1>3, <1>4

LEMMA ConnectKeeps ==
    ASSUME IInv, NEW p \in Platforms, Connect(p)
    PROVE  IInv'
<1>1. Others'
  BY StepBound DEF Connect, Others, DockOK
<1>2. apply \in Applies /\ net \in [Requests -> Nat]
  BY Parts DEF Kept, Rec
<1>3. CASE p = "Facebook" /\ ~managed
  <2>. DEFINE q == Req("list", p, FALSE)
  <2>1. q \in Requests /\ q \notin Moving
    <3>1. p \in Lists
      BY <1>3 DEF Lists
    <3>. QED  BY <3>1, ReqFacts DEF Req, Moving
  <2>2. net' = Sent(net, q) /\ apply' = [apply EXCEPT !.lists = @ \ {p}]
    BY <1>3 DEF Connect
  <2>. HIDE DEF q
  <2>3. /\ net' \in [Requests -> Nat]
        /\ \A r \in Requests : net'[r] >= net[r] /\ (r \in Moving => net'[r] = net[r])
    BY <1>2, <2>1, <2>2, SentMore
  <2>4. /\ apply' \in Applies /\ apply'.queue = apply.queue /\ apply'.on = apply.on
        /\ apply'.tries = apply.tries /\ apply'.retried = apply.retried
        /\ apply'.resume = apply.resume /\ apply'.afterList = apply.afterList
        /\ apply'.creating = apply.creating
    BY <1>2, <2>2 DEF Applies
  <2>5. UNCHANGED <<log, asked, timers>> /\ cuts \subseteq cuts' /\ managed' = managed
    BY DEF Connect
  <2>. QED  BY <1>1, <2>3, <2>4, <2>5, MoreKeeps, PartsNext
<1>4. CASE ~(p = "Facebook" /\ ~managed)
  <2>1. apply' = apply /\ net' = net
    BY <1>4 DEF Connect
  <2>. QED  BY <1>1, <1>2, <2>1, DockKeeps, PartsNext DEF Connect
<1>. QED  BY <1>3, <1>4

LEMMA UserRefreshKeeps ==
    ASSUME IInv, NEW p \in Lists, Refresh(p)
    PROVE  IInv'
<1>. DEFINE q == Req("list", p, managed)
<1>1. Others'
  BY StepBound DEF Refresh, Cut, Others, DockOK
<1>2. Kept /\ apply \in Applies /\ net \in [Requests -> Nat] /\ managed \in BOOLEAN
  BY Parts DEF Kept, Rec, Others, DockOK
<1>3. q \in Requests /\ q \notin Moving
  BY <1>2, ReqFacts DEF Req, Moving, Lists
<1>4. net' = Sent(net, q) /\ apply' = [apply EXCEPT !.afterList = FALSE, !.lists = @ \ {p}]
  BY DEF Refresh
<1>. HIDE DEF q
<1>5. /\ net' \in [Requests -> Nat]
      /\ \A r \in Requests : net'[r] >= net[r] /\ (r \in Moving => net'[r] = net[r])
  BY <1>2, <1>3, <1>4, SentMore
<1>6. /\ apply' \in Applies /\ apply'.queue = apply.queue /\ apply'.on = apply.on
      /\ apply'.tries = apply.tries /\ apply'.retried = apply.retried
      /\ apply'.resume = apply.resume /\ apply'.afterList = FALSE
      /\ apply'.creating = apply.creating
  BY <1>2, <1>4 DEF Applies
<1>7. UNCHANGED <<log, asked, timers, managed>> /\ Cut("refresh", apply.afterList)
  BY DEF Refresh
<1>8. Kept'
  <2>1. CASE apply.afterList
    <3>1. Listing
      BY <1>2, <2>1, PhaseOf
    <3>2. cuts' # {}
      BY <1>7, <2>1, <3>1 DEF Cut, Listing, Waits
    <3>3. Still(net')
      BY <1>2, <1>3, <1>4, <3>1, SentAside DEF Listing
    <3>4. timers' = 0 /\ apply'.on /\ ~apply'.afterList /\ ~apply'.creating
      BY <1>6, <1>7, <3>1 DEF Listing, Waits
    <3>. QED  BY <1>2, <1>5, <1>6, <1>7, <3>2, <3>3, <3>4, StrandedKeeps
  <2>2. CASE ~apply.afterList
    <3>1. apply'.afterList = apply.afterList /\ cuts \subseteq cuts'
      BY <1>2, <1>6, <1>7, <2>2 DEF Cut, Applies
    <3>. QED  BY <1>5, <1>6, <1>7, <3>1, MoreKeeps
  <2>. QED  BY <2>1, <2>2
<1>. QED  BY <1>1, <1>8, PartsNext

LEMMA UserCreateKeeps ==
    ASSUME IInv, "Facebook" \in Platforms, Create
    PROVE  IInv'
<1>. DEFINE q == Req("create", "Facebook", managed)
<1>1. Others'
  BY StepBound DEF Create, Others, DockOK, dock
<1>2. apply \in Applies /\ net \in [Requests -> Nat] /\ managed \in BOOLEAN
  BY Parts DEF Kept, Rec, Others, DockOK
<1>3. q \in Requests /\ q \notin Moving
  BY <1>2, ReqFacts DEF Req, Moving
<1>4. net' = Sent(net, q) /\ apply' = [apply EXCEPT !.inFlight = TRUE]
  BY DEF Create
<1>. HIDE DEF q
<1>5. /\ net' \in [Requests -> Nat]
      /\ \A r \in Requests : net'[r] >= net[r] /\ (r \in Moving => net'[r] = net[r])
  BY <1>2, <1>3, <1>4, SentMore
<1>6. /\ apply' \in Applies /\ apply'.queue = apply.queue /\ apply'.on = apply.on
      /\ apply'.tries = apply.tries /\ apply'.retried = apply.retried
      /\ apply'.resume = apply.resume /\ apply'.afterList = apply.afterList
      /\ apply'.creating = apply.creating
  BY <1>2, <1>4 DEF Applies
<1>7. UNCHANGED <<log, asked, timers, managed>> /\ cuts \subseteq cuts'
  BY DEF Create, dock
<1>. QED  BY <1>1, <1>5, <1>6, <1>7, MoreKeeps, PartsNext

LEMMA AccountKeeps ==
    ASSUME IInv, ChooseVideo \/ Logout \/ Login
    PROVE  IInv'
<1>1. Others'
  BY StepBound DEF ChooseVideo, Logout, Login, Others, DockOK
<1>2. apply \in Applies
  BY Parts DEF Kept, Rec
<1>3. UNCHANGED <<apply, net, log, asked, timers, cuts, managed>>
  BY DEF ChooseVideo, Logout, Login
<1>. QED  BY <1>1, <1>2, <1>3, DockKeeps, PartsNext

-----------------------------------------------------------------------------
(* The invariant, and what it gives.                                       *)

LEMMA InitKept ==
    ASSUME Init
    PROVE  IInv
<1>1. Idle \in Applies /\ Idle.queue = <<>> /\ ~Idle.on /\ ~Idle.afterList /\ ~Idle.creating
  BY ApplyAssumption DEF Idle, Applies
<1>2. MaxRetries \in Nat /\ MaxSteps \in Nat
  BY ApplyAssumption
<1>3. Others
  <2>1. DockOK
    BY DEF Init, DockOK
  <2>2. timers \in Nat /\ asked \in SUBSET Platforms /\ steps \in 0..MaxSteps
    BY <1>2 DEF Init
  <2>3. cuts \subseteq {"switch", "disconnect", "refresh", "logout"}
    BY DEF Init
  <2>. QED  BY <2>1, <2>2, <2>3 DEF Others
<1>4. Rec(apply, log, net)
  BY <1>1 DEF Init, Rec, Logs
<1>5. DOMAIN <<>> = {}
  OBVIOUS
<1>6. Books(apply.queue, log, asked)
  BY <1>1, <1>2, <1>5 DEF Init, Books, IsInjective
<1>7. Resting
  BY <1>1 DEF Init, Resting, Quiet, Still, Moving, Owed
<1>. QED  BY <1>3, <1>4, <1>6, <1>7, Parts DEF Kept, Phase

LEMMA StepKept ==
    ASSUME IInv, [Next]_vars
    PROVE  IInv'
<1>1. ASSUME NEW req \in Requests, Reply(req) PROVE IInv'
  BY <1>1, DirectKeeps, RefreshKeeps, ManagedKeeps, SessionKeeps, ListKeeps, CreatedKeeps
     DEF Reply
<1>2. CASE BackoffTimeout
  BY <1>2, TimeoutKeeps
<1>3. CASE \E S \in SUBSET Platforms : Apply(S)
  BY <1>3, ApplyKeeps
<1>4. CASE \E p \in Platforms : Disconnect(p) \/ Connect(p)
  BY <1>4, DisconnectKeeps, ConnectKeeps
<1>5. CASE \E p \in Lists : Refresh(p)
  BY <1>5, UserRefreshKeeps
<1>6. CASE "Facebook" \in Platforms /\ (Create \/ ChooseVideo)
  BY <1>6, UserCreateKeeps, AccountKeeps
<1>7. CASE ModeSwitch \/ Logout \/ Login
  BY <1>7, SwitchKeeps, AccountKeeps
<1>8. CASE UNCHANGED vars
  BY <1>8, Parts, PartsNext DEF vars, dock, Kept, Others, DockOK, Rec, Phase, Sending,
     Backing, Listing, Creating, Resting, Stranded, Quiet, Waits
<1>. QED  BY <1>1, <1>2, <1>3, <1>4, <1>5, <1>6, <1>7, <1>8 DEF Next, Replies, User

LEMMA AlwaysKept == Spec => []IInv
<1>1. Init => IInv
  BY InitKept
<1>2. IInv /\ [Next]_vars => IInv'
  BY StepKept
<1>. QED  BY <1>1, <1>2, PTL DEF Spec

\* The state of the dock, of its queue and of its history stays what TypeOK
\* says whatever replies come in whatever order, the queue without a double.
THEOREM TypeCorrect == Spec => []TypeOK
<1>1. IInv => TypeOK
  BY DEF IInv
<1>. QED  BY <1>1, AlwaysKept, PTL

LEMMA KeptOneStep == IInv => OneStepAtATime
<1>. SUFFICES ASSUME IInv PROVE OneStepAtATime
  OBVIOUS
<1>. DEFINE moving == {r \in Requests : r.kind \notin {"list", "create"} /\ net[r] > 0}
<1>1. Kept /\ net \in [Requests -> Nat] /\ moving \subseteq Moving
      /\ apply.afterList \in BOOLEAN /\ apply.creating \in BOOLEAN
  BY Parts DEF Kept, Rec, Applies, Moving
<1>2. CASE \E m \in Moving : Sending(m)
  <2>1. PICK m \in Moving : Sending(m)
    BY <1>2
  <2>2. net[m] = 1 /\ \A o \in Moving \ {m} : net[o] = 0
    BY <2>1 DEF Sending, Alone
  <2>3. moving = {m}
    BY <1>1, <2>1, <2>2 DEF Moving
  <2>4. timers = 0 /\ ~apply.afterList /\ ~apply.creating
    BY <2>1 DEF Sending
  <2>5. Cardinality(moving) = 1
    BY <2>3, FS_Singleton
  <2>. QED  BY <2>2, <2>3, <2>4, <2>5 DEF OneStepAtATime
<1>3. CASE ~\E m \in Moving : Sending(m)
  <2>1. moving = {}
    BY <1>1, <1>3, PhaseOf DEF Moving
  <2>2. Cardinality(moving) = 0
    BY <2>1, FS_EmptySet
  <2>3. timers + (IF apply.afterList THEN 1 ELSE 0) + (IF apply.creating THEN 1 ELSE 0) <= 1
    BY <1>1, <1>3 DEF Kept, Phase, Backing, Listing, Creating, Resting, Stranded, Quiet
  <2>4. timers \in Nat /\ \A r \in moving : net[r] = 1
    BY <2>1, Parts DEF Others
  <2>. HIDE DEF moving
  <2>5. Cardinality(moving) + (timers + (IF apply.afterList THEN 1 ELSE 0)
                                      + (IF apply.creating THEN 1 ELSE 0)) <= 1
    BY <2>2, <2>3, <2>4
  <2>. QED  BY <2>4, <2>5 DEF OneStepAtATime, moving
<1>. QED  BY <1>2, <1>3

\* Never two steps of an Apply at once, be they replies, the timer, a list or
\* a create: whatever stray answers come in, the queue has one chain over it.
THEOREM OneStepCorrect == Spec => []OneStepAtATime
BY KeptOneStep, AlwaysKept, PTL

LEMMA KeptAnswers == IInv => ListHasEntry /\ AnsweredOnce /\ BoundedTries /\ NotStranded
<1>. SUFFICES ASSUME IInv
              PROVE  ListHasEntry /\ AnsweredOnce /\ BoundedTries /\ NotStranded
  OBVIOUS
<1>1. Kept /\ asked \in SUBSET Platforms /\ log \in Logs
  BY Parts DEF Kept, Rec, Others
<1>2. ListHasEntry
  BY <1>1, PhaseOf DEF ListHasEntry, Listing
<1>3. AnsweredOnce
  <2>1. /\ \A p \in Platforms : log[p].told <= IF p \in asked THEN 1 ELSE 0
        /\ \A i \in DOMAIN apply.queue : log[apply.queue[i]].told = 0
    BY <1>1 DEF Kept, Books
  <2>2. ASSUME ~apply.on, NEW p \in asked PROVE log[p].told = 1
    <3>1. log[p].told # 0 /\ p \in Platforms
      BY <1>1, <2>2, PhaseOf DEF Resting, Owed
    <3>2. log[p].told <= 1
      BY <2>1, <2>2, <3>1
    <3>3. log[p].told \in Nat
      BY <1>1, <3>1 DEF Logs
    <3>. QED  BY <3>1, <3>2, <3>3
  <2>. QED  BY <2>1, <2>2 DEF AnsweredOnce
<1>4. BoundedTries
  BY <1>1 DEF Kept, Books, BoundedTries
<1>5. NotStranded
  <2>. SUFFICES ASSUME apply.on, cuts = {} PROVE NotStranded
    BY DEF NotStranded
  <2>1. CASE \E m \in Moving : Sending(m)
    <3>1. PICK m \in Moving : Sending(m)
      BY <2>1
    <3>2. net[m] > 0 /\ m \in Requests /\ m.kind \notin {"list", "create"}
      BY <3>1 DEF Sending, Alone, Moving
    <3>. QED  BY <3>2 DEF NotStranded
  <2>2. CASE Backing
    BY <2>2 DEF Backing, NotStranded
  <2>3. CASE Listing
    BY <2>3 DEF Listing, NotStranded
  <2>4. CASE Creating
    <3>1. apply.creating /\ net[Req("create", "Facebook", managed)] > 0
      BY <2>4 DEF Creating
    <3>2. "Facebook" \in Platforms
      <4>1. apply.queue \in Seq(Platforms) /\ apply.queue # <<>> /\ apply.queue[1] = "Facebook"
        BY <1>1, <2>4 DEF Creating, Kept, Rec, Applies
      <4>. QED  BY <4>1
    <3>3. managed \in BOOLEAN
      BY Parts DEF Others, DockOK
    <3>4. Req("create", "Facebook", managed) \in Requests
      BY <3>2, <3>3, ReqFacts
    <3>5. Req("create", "Facebook", managed).kind = "create"
      BY DEF Req
    <3>. QED  BY <3>1, <3>4, <3>5 DEF NotStranded
  <2>. QED  BY <1>1, <2>1, <2>2, <2>3, <2>4 DEF Kept, Phase, Resting, Stranded
<1>. QED  BY <1>2, <1>3, <1>4, <1>5

\* applyQueue_.takeFirst() of a failed list never meets an empty queue, though
\* replies, cuts and strays take entries out and put them back.
THEOREM ListCorrect == Spec => []ListHasEntry
BY KeptAnswers, AlwaysKept, PTL

\* No platform is told twice, none of the queue was told before its turn, and
\* when the button is enabled again each platform asked for has its answer.
THEOREM AnsweredCorrect == Spec => []AnsweredOnce
BY KeptAnswers, AlwaysKept, PTL

\* One refresh or session retry and MaxRetries backoffs, in whatever order the
\* platform refuses: it is sent at most MaxRetries + 2 times before it is told.
THEOREM TriesCorrect == Spec => []BoundedTries
BY KeptAnswers, AlwaysKept, PTL

\* An Apply in course that the user did not cut has a step under way: no reply
\* and no timer ends its chain with the button still disabled.
THEOREM StrandedCorrect == Spec => []NotStranded
BY KeptAnswers, AlwaysKept, PTL
-----------------------------------------------------------------------------
(* The batch the user sees.                                                *)

Busy(a, n) == a.afterList \/ a.creating \/ \E m \in Moving : n[m] # 0

\* A caller leaves the state a and the log l: what it starts is under way, or
\* the Apply is over, and nothing told is taken back.
Onward(a, l) ==
    /\ apply'.on => a.on /\ Busy(apply', net')
    /\ \A p \in Platforms : log'[p].told \in Nat /\ log'[p].told >= l[p].told

Stays ==
    apply'.on = apply.on /\ \A p \in Platforms : log'[p].told = log[p].told

\* An Apply that is on owes an answer, even one that was cut.
Debt == apply.on => \E p \in asked : log[p].told = 0

LEMMA ServeOnward ==
    ASSUME NEW p \in Platforms, NEW a, NEW l, NEW r, Rec(a, l, r),
           managed' \in BOOLEAN, Serve(p, a, l, r)
    PROVE  Onward(a, l)
<1>1. a \in Applies /\ l \in Logs /\ r \in [Requests -> Nat] /\ a.queue \in Seq(Platforms)
  BY DEF Rec, Applies
<1>2. \A o \in Platforms : l[o].told \in Nat
  BY <1>1 DEF Logs
<1>3. CASE /\ p = "YouTube" /\ ~broadcasts'
           /\ apply' = [Pushed(a, p) EXCEPT !.afterList = TRUE,
                                            !.lists = IF managed' THEN @ \ {p} ELSE @]
           /\ net' = Sent(r, Req("list", p, managed'))
           /\ log' = [l EXCEPT ![p].sends = 0]
  <2>1. apply'.afterList /\ apply'.on = a.on
    BY <1>1, <1>3 DEF Pushed, Applies
  <2>2. \A o \in Platforms : log'[o].told = l[o].told
    BY <1>1, <1>3 DEF Logs
  <2>. QED  BY <1>2, <2>1, <2>2 DEF Onward, Busy
<1>4. CASE p = "Facebook" /\ ~video' /\ Done(a, Told(l, p), r)
  <2>1. ~apply'.on
    BY <1>1, <1>4 DEF Done, Applies
  <2>2. \A o \in Platforms : log'[o].told \in Nat /\ log'[o].told >= l[o].told
    BY <1>1, <1>2, <1>4 DEF Done, Told, Logs
  <2>. QED  BY <2>1, <2>2 DEF Onward
<1>5. CASE /\ p = "Facebook" /\ ~video'
           /\ apply' = [Pushed(a, p) EXCEPT !.creating = TRUE, !.inFlight = TRUE]
           /\ log' = l
  <2>1. apply'.creating /\ apply'.on = a.on
    BY <1>1, <1>5 DEF Pushed, Applies
  <2>. QED  BY <1>2, <1>5, <2>1 DEF Onward, Busy
<1>6. CASE /\ apply' = a /\ net' = Sent(r, Req("update", p, managed'))
           /\ log' = [l EXCEPT ![p].sends = @ + 1]
  <2>. DEFINE m == Req("update", p, managed')
  <2>1. m \in Requests /\ m.kind = "update"
    BY ReqFacts DEF Req
  <2>2. m \in Moving
    BY <2>1 DEF Moving
  <2>3. net' = Sent(r, m)
    BY <1>6
  <2>. HIDE DEF m
  <2>4. net'[m] = r[m] + 1 /\ r[m] \in Nat
    BY <1>1, <2>1, <2>3, SentFacts
  <2>5. \A o \in Platforms : log'[o].told = l[o].told
    BY <1>1, <1>6 DEF Logs
  <2>. QED  BY <1>2, <1>6, <2>2, <2>4, <2>5 DEF Onward, Busy
<1>. QED  BY <1>3, <1>4, <1>5, <1>6 DEF Serve

LEMMA StartOnward ==
    ASSUME NEW a, NEW l, NEW r, Rec(a, l, r), managed' \in BOOLEAN, StartNext(a, l, r)
    PROVE  Onward(a, l)
<1>. DEFINE q == a.queue
            able == {i \in 1..Len(q) : Authorized(q[i])}
            n == IF able = {} THEN Len(q) + 1 ELSE Min(able)
            kept == q = <<>> \/ (a.resume /\ n = 1)
            fresh == [a EXCEPT !.queue = SubSeq(q, n + 1, Len(q)), !.resume = FALSE,
                               !.retried = kept /\ @, !.tries = IF kept THEN @ ELSE 0]
            skipped == {q[i] : i \in 1..n - 1}
            told == [p \in Platforms |->
                       [l[p] EXCEPT !.told = IF p \in skipped THEN @ + 1 ELSE @]]
<1>1. IF able = {} THEN Done(fresh, told, r) ELSE Serve(q[n], fresh, told, r)
  BY DEF StartNext
<1>2. /\ a \in Applies /\ l \in Logs /\ r \in [Requests -> Nat] /\ q \in Seq(Platforms)
      /\ Len(q) \in Nat /\ able \subseteq 1..Len(q)
  BY DEF Rec, Applies
<1>3. n \in 1..Len(q) + 1 /\ (able # {} => n \in 1..Len(q))
  <2>. HIDE DEF able, q
  <2>1. CASE able = {}
    <3>1. n = Len(q) + 1
      BY <2>1
    <3>. QED  BY <1>2, <2>1, <3>1
  <2>2. CASE able # {}
    <3>1. Min(able) \in able
      BY <1>2, <2>2, LeastOf
    <3>2. n \in 1..Len(q)
      BY <1>2, <2>2, <3>1
    <3>. QED  BY <1>2, <2>2, <3>2
  <2>. QED  BY <2>1, <2>2
<1>4. /\ told \in Logs
      /\ \A p \in Platforms : /\ told[p].told \in Nat /\ l[p].told \in Nat
                               /\ told[p].told >= l[p].told
  <2>. HIDE DEF skipped
  <2>1. \A p \in Platforms : l[p] \in [told : Nat, sends : Nat]
    BY <1>2 DEF Logs
  <2>. QED  BY <2>1 DEF Logs
<1>5. fresh \in Applies /\ fresh.on = a.on
  <2>. HIDE DEF n
  <2>1. SubSeq(q, n + 1, Len(q)) \in Seq(Platforms)
    BY <1>2, <1>3, Drops
  <2>2. kept \in BOOLEAN
    BY <1>2 DEF Applies
  <2>3. (IF kept THEN a.tries ELSE 0) \in 0..MaxRetries /\ (kept /\ a.retried) \in BOOLEAN
    BY <1>2, <2>2, ApplyAssumption DEF Applies
  <2>. HIDE DEF kept, q
  <2>. QED  BY <1>2, <2>1, <2>3 DEF Applies
<1>. HIDE DEF fresh, told
<1>6. CASE able = {}
  <2>1. ~apply'.on /\ log' = told
    BY <1>1, <1>5, <1>6 DEF Done, Applies
  <2>. QED  BY <1>4, <2>1 DEF Onward
<1>7. CASE able # {}
  <2>. HIDE DEF able, n
  <2>1. q[n] \in Platforms
    BY <1>2, <1>3, <1>7
  <2>2. Serve(q[n], fresh, told, r)
    BY <1>1, <1>7
  <2>. HIDE DEF q
  <2>3. Onward(fresh, told)
    BY <1>2, <1>4, <1>5, <2>1, <2>2, ServeOnward DEF Rec
  <2>. QED  BY <1>4, <1>5, <2>3 DEF Onward
<1>. QED  BY <1>6, <1>7

\* One handler, Apply excepted, as the batch sees it.
Goes == asked' = asked /\ (Stays \/ Onward(apply, log))

\* startApplyNext, from what a handler of the Apply in course leaves.
LEMMA StartGoes ==
    ASSUME IInv, managed' \in BOOLEAN, NEW a \in Applies, NEW l \in Logs,
           NEW r \in [Requests -> Nat], StartNext(a, l, r), asked' = asked,
           a.on = apply.on, \A p \in Platforms : l[p].told >= log[p].told
    PROVE  Goes
<1>1. Onward(a, l)
  BY StartOnward DEF Rec
<1>2. \A p \in Platforms : l[p].told \in Nat /\ log[p].told \in Nat
  BY Parts DEF Kept, Rec, Logs
<1>. QED  BY <1>1, <1>2 DEF Goes, Onward

\* The same, once p has its answer.
LEMMA AnswerGoes ==
    ASSUME IInv, managed' \in BOOLEAN, NEW a \in Applies, NEW p \in Platforms,
           NEW r \in [Requests -> Nat], StartNext(a, Told(log, p), r), asked' = asked,
           a.on = apply.on
    PROVE  Goes
<1>1. log \in Logs /\ \A o \in Platforms : log[o].told \in Nat
  BY Parts DEF Kept, Rec, Logs
<1>2. /\ Told(log, p) \in Logs /\ Told(log, p)[p].told = log[p].told + 1
      /\ \A o \in Platforms \ {p} : Told(log, p)[o] = log[o]
  BY <1>1, ToldFacts
<1>3. \A o \in Platforms : Told(log, p)[o].told >= log[o].told
  BY <1>1, <1>2
<1>. QED  BY <1>2, <1>3, StartGoes

LEMMA NextGoes ==
    ASSUME IInv, managed' \in BOOLEAN, NEW m \in Requests, net[m] > 0,
           NextAfter(m.p, Got(m)), asked' = asked
    PROVE  Goes
<1>1. apply \in Applies /\ net \in [Requests -> Nat] /\ m.p \in Platforms
  BY Parts DEF Kept, Rec, Requests
<1>2. Got(m) \in [Requests -> Nat]
  BY <1>1, GotFacts
<1>. QED  BY <1>1, <1>2, AnswerGoes DEF NextAfter

LEMMA BackoffGoes ==
    ASSUME IInv, NEW p, NEW r, Backoff(p, r)
    PROVE  Goes
<1>1. apply \in Applies
  BY Parts DEF Kept, Rec
<1>2. apply'.on = apply.on /\ log' = log /\ asked' = asked
  BY <1>1 DEF Backoff, Pushed, Applies
<1>. QED  BY <1>2 DEF Goes, Stays

LEMMA UpdateGoes ==
    ASSUME IInv, managed' \in BOOLEAN, NEW req \in Requests, net[req] > 0,
           DirectReply(req) \/ ManagedReply(req)
    PROVE  Goes
<1>1. apply \in Applies
  BY Parts DEF Kept, Rec
<1>2. CASE apply' = [apply EXCEPT !.retried = TRUE] /\ UNCHANGED <<asked, log>>
  BY <1>1, <1>2 DEF Goes, Stays, Applies
<1>3. CASE Backoff(req.p, Got(req))
  BY <1>3, BackoffGoes
<1>4. CASE NextAfter(req.p, Got(req)) /\ asked' = asked
  BY <1>4, NextGoes
<1>5. CASE Dropped(req, "switch", TRUE) /\ UNCHANGED apply
  BY <1>5 DEF Dropped, Goes, Stays
<1>. QED  BY <1>2, <1>3, <1>4, <1>5 DEF DirectReply, ManagedReply

LEMMA RefreshGoes ==
    ASSUME IInv, managed' \in BOOLEAN, NEW req \in Requests, net[req] > 0, RefreshReply(req)
    PROVE  Goes
<1>1. CASE log' = [log EXCEPT ![req.p].sends = @ + 1] /\ UNCHANGED <<apply, asked>>
  <2>1. log \in Logs
    BY Parts DEF Kept, Rec
  <2>2. \A o \in Platforms : log'[o].told = log[o].told
    BY <1>1, <2>1 DEF Logs
  <2>. QED  BY <1>1, <2>2 DEF Goes, Stays
<1>2. CASE NextAfter(req.p, Got(req)) /\ asked' = asked
  BY <1>2, NextGoes
<1>. QED  BY <1>1, <1>2 DEF RefreshReply

LEMMA SessionGoes ==
    ASSUME IInv, managed' \in BOOLEAN, NEW req \in Requests, net[req] > 0, SessionReply(req)
    PROVE  Goes
<1>1. CASE UNCHANGED <<apply, log, asked>>
  BY <1>1 DEF Goes, Stays
<1>2. CASE NextAfter(req.p, Got(req)) /\ asked' = asked
  BY <1>2, NextGoes
<1>3. CASE Serve(req.p, apply, log, Got(req)) /\ asked' = asked
  <2>1. /\ apply \in Applies /\ log \in Logs /\ net \in [Requests -> Nat]
        /\ req.p \in Platforms
    BY Parts DEF Kept, Rec, Requests
  <2>2. Got(req) \in [Requests -> Nat]
    BY <2>1, GotFacts
  <2>. QED  BY <1>3, <2>1, <2>2, ServeOnward DEF Rec, Goes
<1>. QED  BY <1>1, <1>2, <1>3 DEF SessionReply, Dropped

LEMMA ListGoes ==
    ASSUME IInv, managed' \in BOOLEAN, NEW req \in Requests, net[req] > 0, ListReply(req)
    PROVE  Goes
<1>. DEFINE a == [apply EXCEPT !.lists = @ \union {req.p}]
            b == [a EXCEPT !.afterList = FALSE]
<1>1. /\ Kept /\ apply \in Applies /\ log \in Logs /\ net \in [Requests -> Nat]
      /\ req.p \in Lists
  BY Parts DEF Kept, Rec, ListReply, Requests
<1>2. Got(req) \in [Requests -> Nat]
  BY <1>1, GotFacts
<1>3. /\ a \in Applies /\ a.queue = apply.queue /\ a.on = apply.on
      /\ a.afterList = apply.afterList
  BY <1>1 DEF Applies
<1>4. /\ b \in Applies /\ b.queue = apply.queue /\ b.on = apply.on
      /\ [a EXCEPT !.queue = Tail(@), !.afterList = FALSE] = [b EXCEPT !.queue = Tail(@)]
  <2>. HIDE DEF a
  <2>. QED  BY <1>3 DEF Applies
<1>. HIDE DEF a, b
<1>5. CASE apply' = a /\ log' = log /\ asked' = asked
  BY <1>3, <1>5 DEF Goes, Stays
<1>6. CASE StartNext(b, log, Got(req)) /\ asked' = asked
  <2>1. \A p \in Platforms : log[p].told >= log[p].told
    BY <1>1 DEF Logs
  <2>. QED  BY <1>1, <1>2, <1>4, <1>6, <2>1, StartGoes
<1>7. CASE /\ apply.afterList /\ asked' = asked
           /\ StartNext([b EXCEPT !.queue = Tail(@)], Told(log, Head(apply.queue)), Got(req))
  <2>1. apply.queue \in Seq(Platforms) /\ apply.queue # <<>>
    BY <1>1, <1>7, PhaseOf DEF Listing, Applies
  <2>2. Head(apply.queue) \in Platforms /\ Tail(apply.queue) \in Seq(Platforms)
    BY <2>1, TailFacts
  <2>3. /\ [b EXCEPT !.queue = Tail(@)] \in Applies
        /\ [b EXCEPT !.queue = Tail(@)].on = apply.on
    BY <1>4, <2>2 DEF Applies
  <2>. QED  BY <1>2, <1>7, <2>2, <2>3, AnswerGoes
<1>8. CASE ListFailed(a, Got(req)) /\ asked' = asked
  BY <1>4, <1>5, <1>7, <1>8 DEF ListFailed
<1>9. ASSUME NEW found \in BOOLEAN, ListLoaded(found, a, Got(req)), asked' = asked
      PROVE  Goes
  BY <1>4, <1>5, <1>6, <1>7, <1>9 DEF ListLoaded, b
<1>. QED  BY <1>5, <1>8, <1>9 DEF ListReply, Dropped, a

LEMMA CreateGoes ==
    ASSUME IInv, managed' \in BOOLEAN, NEW req \in Requests, net[req] > 0, CreateReply(req)
    PROVE  Goes
<1>1. apply \in Applies /\ net \in [Requests -> Nat] /\ "Facebook" \in Platforms
  BY Parts DEF Kept, Rec, CreateReply, Requests
<1>2. CASE UNCHANGED <<apply, log, asked>>
  BY <1>2 DEF Goes, Stays
<1>3. CASE apply' = [apply EXCEPT !.inFlight = FALSE] /\ UNCHANGED <<log, asked>>
  BY <1>1, <1>3 DEF Goes, Stays, Applies
<1>4. CASE StartNext(Completed, Told(log, "Facebook"), Got(req)) /\ asked' = asked
  <2>. DEFINE q == IF apply.queue # <<>> /\ Head(apply.queue) = "Facebook"
                   THEN Tail(apply.queue) ELSE apply.queue
  <2>1. q \in Seq(Platforms)
    <3>1. apply.queue \in Seq(Platforms)
      BY <1>1 DEF Applies
    <3>2. apply.queue # <<>> => Tail(apply.queue) \in Seq(Platforms)
      BY <3>1, TailFacts
    <3>. QED  BY <3>1, <3>2
  <2>2. Completed = [apply EXCEPT !.inFlight = FALSE, !.creating = FALSE, !.queue = q]
    BY <1>1 DEF Completed, Applies
  <2>. HIDE DEF q
  <2>3. Completed \in Applies /\ Completed.on = apply.on
    BY <1>1, <2>1, <2>2 DEF Applies
  <2>4. Got(req) \in [Requests -> Nat]
    BY <1>1, GotFacts
  <2>. QED  BY <1>1, <1>4, <2>3, <2>4, AnswerGoes
<1>. QED  BY <1>2, <1>3, <1>4 DEF CreateReply, Dropped

LEMMA TimeoutGoes ==
    ASSUME IInv, managed' \in BOOLEAN, BackoffTimeout
    PROVE  Goes
<1>1. apply \in Applies /\ log \in Logs /\ net \in [Requests -> Nat]
  BY Parts DEF Kept, Rec
<1>2. \A p \in Platforms : log[p].told >= log[p].told
  BY <1>1 DEF Logs
<1>. QED  BY <1>1, <1>2, StartGoes DEF BackoffTimeout

LEMMA ListedGoes ==
    ASSUME IInv, NEW p \in Lists, Refresh(p)
    PROVE  Goes
<1>1. apply \in Applies
  BY Parts DEF Kept, Rec
<1>2. UNCHANGED <<asked, log>> /\ apply'.on = apply.on
  BY <1>1 DEF Refresh, Applies
<1>. QED  BY <1>2 DEF Goes, Stays

\* Of the user's operations only Apply touches the batch.
LEMMA UserGoes ==
    ASSUME IInv,
           \/ \E p \in Platforms : Disconnect(p) \/ Connect(p)
           \/ \E p \in Lists : Refresh(p)
           \/ Create \/ ChooseVideo \/ ModeSwitch \/ Logout \/ Login
    PROVE  Goes
<1>1. apply \in Applies
  BY Parts DEF Kept, Rec
<1>2. CASE \E p \in Platforms : Disconnect(p) \/ Connect(p)
  <2>1. UNCHANGED <<asked, log>> /\ apply'.on = apply.on
    BY <1>1, <1>2 DEF Disconnect, Connect, Applies
  <2>. QED  BY <2>1 DEF Goes, Stays
<1>3. CASE \E p \in Lists : Refresh(p)
  BY <1>3, ListedGoes
<1>4. CASE Create
  BY <1>1, <1>4 DEF Create, Goes, Stays, Applies
<1>5. CASE ModeSwitch
  BY <1>1, <1>5 DEF ModeSwitch, Goes, Stays, Applies
<1>6. CASE ChooseVideo \/ Logout \/ Login
  BY <1>6 DEF ChooseVideo, Logout, Login, Goes, Stays
<1>. QED  BY <1>2, <1>3, <1>4, <1>5, <1>6

LEMMA StepGoes ==
    ASSUME IInv, IInv', [Next]_vars
    PROVE  Goes \/ \E S \in SUBSET Platforms : Apply(S)
<1>1. managed' \in BOOLEAN
  BY PartsNext DEF Others, DockOK
<1>2. ASSUME NEW req \in Requests, Reply(req) PROVE Goes
  BY <1>1, <1>2, UpdateGoes, RefreshGoes, SessionGoes, ListGoes, CreateGoes DEF Reply
<1>3. CASE BackoffTimeout
  BY <1>1, <1>3, TimeoutGoes
<1>4. CASE User
  BY <1>4, UserGoes DEF User
<1>5. CASE UNCHANGED vars
  BY <1>5 DEF vars, Goes, Stays
<1>. QED  BY <1>2, <1>3, <1>4, <1>5 DEF Next, Replies

\* The results of the batch: at most one each, of those asked for, and all of
\* them once the button is back.
Tells ==
    /\ apply.on \in BOOLEAN /\ asked \subseteq Platforms
    /\ \A p \in Platforms : log[p].told \in {0, 1} /\ (log[p].told = 1 => p \in asked)
    /\ ~apply.on => \A p \in asked : log[p].told = 1

LEMMA KeptTells == IInv => Tells
<1>. SUFFICES ASSUME IInv PROVE Tells
  OBVIOUS
<1>1. /\ Kept /\ asked \subseteq Platforms /\ log \in Logs /\ apply.on \in BOOLEAN
      /\ AnsweredOnce
  BY Parts, KeptAnswers DEF Kept, Rec, Others, Applies
<1>2. ASSUME NEW p \in Platforms
      PROVE  log[p].told \in {0, 1} /\ (log[p].told = 1 => p \in asked)
  <2>1. log[p].told \in Nat /\ log[p].told <= (IF p \in asked THEN 1 ELSE 0)
    BY <1>1 DEF Logs, AnsweredOnce
  <2>. QED  BY <2>1
<1>. QED  BY <1>1, <1>2 DEF Tells, AnsweredOnce

LEMMA TellsNext == IInv' => Tells'
BY KeptTells, PTL

\* Whoever is under way owes the platform in hand its answer.
LEMMA Indebted == IInv /\ ~Stranded => Debt
<1>. SUFFICES ASSUME IInv, ~Stranded, apply.on PROVE \E p \in asked : log[p].told = 0
  BY DEF Debt
<1>1. Kept /\ apply.queue \in Seq(Platforms)
  BY Parts DEF Kept, Rec, Applies
<1>2. CASE \E m \in Moving : Sending(m)
  BY <1>2 DEF Sending
<1>3. CASE apply.queue # <<>>
  <2>1. 1 \in DOMAIN apply.queue
    BY <1>1, <1>3, EmptySeq
  <2>. QED  BY <1>1, <2>1 DEF Kept, Books
<1>. QED  BY <1>1, <1>2, <1>3 DEF Kept, Phase, Backing, Listing, Creating, Resting

LEMMA IndebtedNext == IInv' /\ ~Stranded' => Debt'
BY Indebted, PTL

LEMMA ApplyUncut ==
    ASSUME NEW S, Apply(S)
    PROVE  cuts' = {}
BY DEF Apply

\* What is cut owes what it owed: only a handler that starts something, and so
\* is not cut, tells a result.
LEMMA DebtKept ==
    ASSUME IInv, Debt, IInv', [Next]_vars
    PROVE  Debt'
<1>1. CASE ~Stranded'
  BY <1>1, IndebtedNext
<1>2. CASE Stranded'
  <2>1. apply'.on /\ cuts' # {} /\ ~Busy(apply', net')
    <3>1. apply'.on /\ cuts' # {} /\ ~apply'.afterList /\ ~apply'.creating /\ Still(net)'
      BY <1>2 DEF Stranded, Quiet
    <3>2. \A m \in Moving : net'[m] = 0
      BY <3>1 DEF Still
    <3>. QED  BY <3>1, <3>2 DEF Busy
  <2>2. Goes
    BY <2>1, StepGoes, ApplyUncut
  <2>3. Stays /\ asked' = asked /\ asked \subseteq Platforms
    BY <2>1, <2>2, KeptTells DEF Goes, Onward, Tells
  <2>4. PICK p \in asked : log[p].told = 0
    BY <2>1, <2>3 DEF Stays, Debt
  <2>5. log'[p].told = 0 /\ p \in asked'
    BY <2>3, <2>4 DEF Stays
  <2>. QED  BY <2>5 DEF Debt
<1>. QED  BY <1>1, <1>2

\* A press of Apply opens a batch.
LEMMA ApplyOpens ==
    ASSUME IInv', Debt', NEW S \in SUBSET Platforms, Apply(S)
    PROVE  Batch!Next
<1>. DEFINE T == {p \in Platforms : log'[p].told = 1}
<1>1. /\ apply'.on \in BOOLEAN /\ asked' \subseteq Platforms
      /\ \A p \in Platforms : log'[p].told \in {0, 1} /\ (log'[p].told = 1 => p \in asked')
      /\ ~apply'.on => \A p \in asked' : log'[p].told = 1
  BY TellsNext DEF Tells
<1>2. ~apply.on /\ asked' # {}
  BY DEF Apply
<1>3. T \subseteq asked' /\ apply'.on = (T # asked')
  BY <1>1 DEF Debt
<1>4. [p \in Platforms |-> log'[p].told] = [p \in Platforms |-> IF p \in T THEN 1 ELSE 0]
  BY <1>1
<1>5. PICK A \in SUBSET Platforms : A = asked'
  BY <1>1
<1>6. PICK U \in SUBSET A : U = T
  BY <1>3, <1>5
<1>. HIDE DEF T
<1>7. Batch!Open(A, U)
  BY <1>2, <1>3, <1>4, <1>5, <1>6 DEF Batch!Open
<1>. QED  BY <1>7 DEF Batch!Next

\* Any other handler answers some of those owed, or is not seen.
LEMMA GoesAnswers ==
    ASSUME IInv, Debt, IInv', Debt', Goes
    PROVE  [Batch!Next]_(Batch!vars)
<1>. DEFINE S == {p \in Platforms : log[p].told = 0 /\ log'[p].told = 1}
            owed == {p \in asked : log[p].told = 0}
<1>1. /\ apply.on \in BOOLEAN /\ asked \subseteq Platforms
      /\ \A p \in Platforms : log[p].told \in {0, 1} /\ (log[p].told = 1 => p \in asked)
      /\ ~apply.on => \A p \in asked : log[p].told = 1
  BY KeptTells DEF Tells
<1>2. /\ apply'.on \in BOOLEAN /\ asked' = asked
      /\ \A p \in Platforms : log'[p].told \in {0, 1} /\ (log'[p].told = 1 => p \in asked)
      /\ ~apply'.on => \A p \in asked : log'[p].told = 1
  BY TellsNext DEF Tells, Goes
<1>3. /\ apply'.on => apply.on
      /\ \A p \in Platforms : log'[p].told >= log[p].told
  BY <1>1 DEF Goes, Stays, Onward
<1>4. \A p \in Platforms : log'[p].told = IF p \in S THEN 1 ELSE log[p].told
  BY <1>1, <1>2, <1>3
<1>5. S \subseteq owed
  BY <1>2
<1>6. CASE S = {}
  <2>1. \A p \in Platforms : log'[p].told = log[p].told
    BY <1>4, <1>6
  <2>2. apply'.on = apply.on
    BY <1>1, <1>2, <1>3, <2>1 DEF Debt
  <2>. QED  BY <1>2, <2>1, <2>2 DEF Batch!vars
<1>7. CASE S # {}
  <2>1. apply.on
    BY <1>1, <1>5, <1>7
  <2>2. apply'.on = (S # owed)
    BY <1>1, <1>2, <1>4, <1>5 DEF Debt
  <2>3. /\ [p \in Platforms |-> log'[p].told] =
              [p \in Platforms |-> IF p \in S THEN 1 ELSE [o \in Platforms |-> log[o].told][p]]
        /\ owed = {p \in asked : [o \in Platforms |-> log[o].told][p] = 0}
    BY <1>1, <1>4
  <2>4. PICK A \in SUBSET Platforms : A = S
    OBVIOUS
  <2>. HIDE DEF S, owed
  <2>5. Batch!Answer(A)
    BY <1>2, <1>5, <1>7, <2>1, <2>2, <2>3, <2>4 DEF Batch!Answer, Batch!Owed
  <2>. QED  BY <2>5 DEF Batch!Next
<1>. QED  BY <1>6, <1>7

\* Seen by the user an Apply is one batch: no platform is told before it is
\* asked for or twice, a second press does nothing while one is open, and the
\* button comes back with the last answer and never before.
THEOREM ImplementsBatch == Spec => Answers
<1>1. Init => Batch!Init /\ Debt
  <2>1. \A p \in Platforms : [o \in Platforms |-> [told |-> 0, sends |-> 0]][p].told = 0
    OBVIOUS
  <2>. QED  BY <2>1 DEF Init, Idle, Debt, Batch!Init
<1>2. IInv /\ Debt /\ IInv' /\ [Next]_vars => Debt'
  BY DebtKept
<1>3. IInv /\ Debt /\ IInv' /\ Debt' /\ [Next]_vars => [Batch!Next]_(Batch!vars)
  BY StepGoes, GoesAnswers, ApplyOpens
<1>. QED  BY <1>1, <1>2, <1>3, AlwaysKept, PTL DEF Spec, Answers, Batch!Spec
=============================================================================
