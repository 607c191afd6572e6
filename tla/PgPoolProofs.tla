---------------------------- MODULE PgPoolProofs ----------------------------
(***************************************************************************)
(* Proofs about PgPool for any threads, any connections and any max_size.  *)
(***************************************************************************)
EXTENDS PgPool, FiniteSetTheorems, TLAPS

(* The free queue and the per-thread stacks as sets of connections. *)

LEMMA AppendLemma ==
    ASSUME NEW S, NEW s \in Seq(S), NEW e \in S
    PROVE  /\ Append(s, e) \in Seq(S)
           /\ ToSet(Append(s, e)) = ToSet(s) \union {e}
           /\ IsInjective(s) /\ e \notin ToSet(s) => IsInjective(Append(s, e))
<1>1. /\ Append(s, e) \in Seq(S)
      /\ DOMAIN s = 1..Len(s) /\ Len(s) \in Nat
      /\ DOMAIN Append(s, e) = 1..(Len(s) + 1)
      /\ Append(s, e)[Len(s) + 1] = e
      /\ \A i \in 1..Len(s) : Append(s, e)[i] = s[i]
  OBVIOUS
<1>2. ASSUME NEW x PROVE x \in ToSet(Append(s, e)) <=> x \in ToSet(s) \union {e}
  <2>1. \A i \in 1..(Len(s) + 1) : i \in 1..Len(s) \/ i = Len(s) + 1
    BY <1>1
  <2>2. Len(s) + 1 \in 1..(Len(s) + 1) /\ 1..Len(s) \subseteq 1..(Len(s) + 1)
    BY <1>1
  <2>3. QED  BY <1>1, <2>1, <2>2, Zenon DEF ToSet
<1>3. ASSUME IsInjective(s), e \notin ToSet(s) PROVE IsInjective(Append(s, e))
  BY <1>1, <1>3 DEF IsInjective, ToSet
<1>4. QED  BY <1>1, <1>2, <1>3

LEMMA TailLemma ==
    ASSUME NEW S, NEW s \in Seq(S), s # <<>>, IsInjective(s)
    PROVE  /\ Tail(s) \in Seq(S)
           /\ Head(s) \in S
           /\ Head(s) \in ToSet(s)
           /\ ToSet(Tail(s)) = ToSet(s) \ {Head(s)}
           /\ IsInjective(Tail(s))
<1>1. /\ Tail(s) \in Seq(S) /\ Head(s) \in S
      /\ DOMAIN s = 1..Len(s) /\ Len(s) \in Nat \ {0}
      /\ DOMAIN Tail(s) = 1..(Len(s) - 1)
      /\ Head(s) = s[1]
      /\ \A i \in 1..(Len(s) - 1) : Tail(s)[i] = s[i + 1]
  OBVIOUS
<1>2. \A i \in 1..Len(s) : i = 1 \/ (i - 1 \in 1..(Len(s) - 1) /\ (i - 1) + 1 = i)
  BY <1>1
<1>3. 1 \in 1..Len(s) /\ \A i \in 1..(Len(s) - 1) : i + 1 \in 1..Len(s) /\ i + 1 # 1
  BY <1>1
<1>4. Head(s) \in ToSet(s)
  BY <1>1, <1>3 DEF ToSet
<1>5. ASSUME NEW x PROVE x \in ToSet(Tail(s)) <=> x \in ToSet(s) \ {Head(s)}
  <2>1. ASSUME NEW i \in 1..(Len(s) - 1), x = Tail(s)[i]
        PROVE  x \in ToSet(s) /\ x # Head(s)
    <3>1. i + 1 \in 1..Len(s) /\ i + 1 # 1 /\ 1 \in 1..Len(s) /\ x = s[i + 1]
      BY <1>1, <1>3, <2>1
    <3>2. QED  BY <1>1, <3>1 DEF ToSet, IsInjective
  <2>2. ASSUME NEW i \in 1..Len(s), x = s[i], x # Head(s)
        PROVE  x \in ToSet(Tail(s))
    <3>1. i - 1 \in 1..(Len(s) - 1) /\ Tail(s)[i - 1] = s[i]
      BY <1>1, <1>2, <2>2
    <3>2. QED  BY <1>1, <2>2, <3>1, Zenon DEF ToSet
  <2>3. QED  BY <1>1, <2>1, <2>2, Zenon DEF ToSet
<1>6. IsInjective(Tail(s))
  BY <1>1 DEF IsInjective
<1>7. QED  BY <1>1, <1>4, <1>5, <1>6

LEMMA FrontLemma ==
    ASSUME NEW S, NEW s \in Seq(S), s # <<>>, IsInjective(s)
    PROVE  /\ Front(s) \in Seq(S)
           /\ Last(s) \in S
           /\ Last(s) \in ToSet(s)
           /\ ToSet(Front(s)) = ToSet(s) \ {Last(s)}
           /\ IsInjective(Front(s))
<1>1. /\ Front(s) \in Seq(S) /\ Last(s) \in S
      /\ DOMAIN s = 1..Len(s) /\ Len(s) \in Nat \ {0}
      /\ DOMAIN Front(s) = 1..(Len(s) - 1)
      /\ Last(s) = s[Len(s)]
      /\ \A i \in 1..(Len(s) - 1) : Front(s)[i] = s[i]
  BY DEF Front, Last
<1>. DEFINE n == Len(s)
<1>a. n \in Nat \ {0}  BY <1>1
<1>. HIDE DEF n
<1>2. \A i \in 1..n : i = n \/ i \in 1..(n - 1)
  BY <1>a
<1>3. /\ n \in 1..n
      /\ \A i \in 1..(n - 1) : i \in 1..n /\ i # n
  BY <1>a
<1>. USE DEF n
<1>4. Last(s) \in ToSet(s)
  BY <1>1, <1>3 DEF ToSet
<1>5. ASSUME NEW x PROVE x \in ToSet(Front(s)) <=> x \in ToSet(s) \ {Last(s)}
  BY <1>1, <1>2, <1>3, Zenon DEF ToSet, IsInjective
<1>6. IsInjective(Front(s))
  BY <1>1 DEF IsInjective
<1>7. QED  BY <1>1, <1>4, <1>5, <1>6

-----------------------------------------------------------------------------
(***************************************************************************)
(* The inductive invariant.  CountMatches and Exclusive need to know where *)
(* a thread's local connection can be: `cur` is set exactly in the code    *)
(* that has one in its hands, a connection about to be discounted is       *)
(* closed, and only the thread that keeps _guard opens, with room for it.  *)
(***************************************************************************)

GuardInv ==
    /\ \A t \in Threads : pc[t] = "opening" <=> guard = t
    /\ guard # NoThread => created < MaxSize

CurInv ==
    \A t \in Threads :
        /\ cur[t] # NoConn <=> pc[t] \in InHand
        /\ pc[t] \in Uncounting => conn[cur[t]] = "closed"

CountInv == IsFiniteSet(Counted) /\ CountMatches

IInv == TypeOK /\ GuardInv /\ CurInv /\ CountInv /\ Exclusive

LEMMA InitIInv == Init => IInv
<1>. SUFFICES ASSUME Init PROVE IInv
  OBVIOUS
<1>. USE PoolAssumption DEF Init
<1>1. TypeOK
  BY DEF TypeOK, ConnStates, PCs
<1>2. GuardInv /\ CurInv
  BY DEF GuardInv, CurInv, InHand, Uncounting
<1>3. Counted = {}
  BY DEF Counted
<1>4. CountInv
  BY <1>3, FS_EmptySet DEF CountInv, CountMatches
<1>5. ToSet(free) = {} /\ \A t \in Threads : ToSet(stack[t]) = {} /\ Held(t) = {}
  BY DEF ToSet, Held
<1>6. IsInjective(free) /\ \A t \in Threads : IsInjective(stack[t])
  BY DEF IsInjective
<1>7. Exclusive
  BY <1>3, <1>5, <1>6 DEF Exclusive
<1>8. QED  BY <1>1, <1>2, <1>4, <1>7 DEF IInv

-----------------------------------------------------------------------------
(* Facts about one thread and the sets it touches. *)

LEMMA CurIsConn ==
    ASSUME TypeOK, CurInv, Exclusive, NEW t \in Threads, pc[t] \in InHand
    PROVE  /\ cur[t] \in Conns /\ cur[t] \in Held(t) /\ cur[t] \in Counted
           /\ cur[t] \notin ToSet(free) /\ cur[t] \notin ToSet(stack[t])
           /\ \A u \in Threads : u # t => cur[t] \notin Held(u)
BY DEF TypeOK, CurInv, Exclusive, Held, InHand

LEMMA CountedFinite ==
    ASSUME TypeOK, CountInv, NEW c \in Conns
    PROVE  /\ c \in Counted => created >= 1
           /\ IsFiniteSet(Counted \ {c}) /\ IsFiniteSet(Counted \union {c})
           /\ c \in Counted => Cardinality(Counted \ {c}) = created - 1
           /\ c \notin Counted => Cardinality(Counted \union {c}) = created + 1
<1>1. created \in Nat
  BY PoolAssumption DEF TypeOK
<1>2. IsFiniteSet(Counted) /\ created = Cardinality(Counted)
  BY DEF CountInv, CountMatches
<1>3. IsFiniteSet(Counted \ {c}) /\ IsFiniteSet(Counted \union {c})
  BY <1>2, FS_AddElement, FS_RemoveElement
<1>4. /\ c \in Counted => Cardinality(Counted \ {c}) = created - 1
      /\ c \notin Counted => Cardinality(Counted \union {c}) = created + 1
  BY <1>2, FS_AddElement, FS_RemoveElement
<1>5. c \in Counted => created # 0
  BY <1>2, FS_EmptySet
<1>6. QED  BY <1>1, <1>3, <1>4, <1>5

\* Steps that move no connection: the same ones exist, in the same places.
LEMMA NothingMoves ==
    ASSUME IInv, UNCHANGED <<created, free, stack, cur>>, Counted' = Counted
    PROVE  CountInv' /\ Exclusive'
<1>1. \A t \in Threads : Held(t)' = Held(t)
  BY DEF Held
<1>2. CountInv'
  BY DEF IInv, CountInv, CountMatches
<1>3. QED  BY <1>1, <1>2 DEF IInv, Exclusive

LEMMA TakeKeeps ==
    ASSUME IInv, NEW t \in Threads, NEW from \in PCs \ InHand,
           NEW to \in {"ping", "waitping"}, from # "opening", Take(t, from, to)
    PROVE  IInv'
<1>. DEFINE h == Head(free)
<1>. USE DEF Take, Goto
<1>0. TypeOK /\ GuardInv /\ CurInv /\ CountInv /\ Exclusive
  BY DEF IInv
<1>1. /\ free' \in Seq(Conns) /\ h \in Conns /\ h \in ToSet(free)
      /\ ToSet(free') = ToSet(free) \ {h} /\ IsInjective(free')
  BY <1>0, TailLemma DEF TypeOK, Exclusive
<1>2. cur[t] = NoConn /\ cur'[t] = h /\ \A u \in Threads : u # t => cur'[u] = cur[u]
  BY <1>0 DEF CurInv, TypeOK
<1>3. /\ Held(t)' = Held(t) \union {h}
      /\ \A u \in Threads : u # t => Held(u)' = Held(u)
  BY <1>1, <1>2, PoolAssumption DEF Held
<1>4. TypeOK'
  BY <1>0, <1>1 DEF TypeOK, PCs, InHand
<1>5. GuardInv' /\ CurInv'
  BY <1>0, <1>1, <1>2, PoolAssumption
     DEF GuardInv, CurInv, TypeOK, PCs, InHand, Uncounting
<1>6. CountInv' /\ Counted' = Counted
  BY <1>0 DEF CountInv, CountMatches, Counted
<1>7. \A u \in Threads : h \notin Held(u)
  BY <1>0, <1>1 DEF Exclusive
<1>8. \A u \in Threads : cur'[u] \notin ToSet(stack[u])
  BY <1>0, <1>1, <1>2, <1>7 DEF Exclusive, Held
<1>9. Exclusive'
  BY <1>0, <1>1, <1>3, <1>6, <1>7, <1>8 DEF Exclusive
<1>10. QED  BY <1>4, <1>5, <1>6, <1>9 DEF IInv

LEMMA NextIInv == IInv /\ [Next]_vars => IInv'
<1>. SUFFICES ASSUME IInv, [Next]_vars PROVE IInv'
  OBVIOUS
<1>0. TypeOK /\ GuardInv /\ CurInv /\ CountInv /\ Exclusive
  BY DEF IInv
<1>. USE PoolAssumption DEF Goto
<1>1. ASSUME NEW t \in Threads, Enter(t) \/ DrainEmpty(t) \/ Exhausted(t) \/ NoRoom(t)
      PROVE  IInv'
  <2>1. /\ pc[t] \notin InHand /\ pc'[t] \notin InHand
        /\ pc[t] # "opening" /\ pc'[t] # "opening" /\ pc'[t] \in PCs
        /\ \A u \in Threads : u # t => pc'[u] = pc[u]
        /\ UNCHANGED <<created, guard, free, conn, stack, cur>>
        /\ pc' = [pc EXCEPT ![t] = pc'[t]]
    BY <1>0, <1>1 DEF Enter, DrainEmpty, Exhausted, NoRoom, TypeOK, PCs, InHand, Uncounting
  <2>2. TypeOK'
    BY <1>0, <2>1 DEF TypeOK
  <2>3. GuardInv' /\ CurInv'
    BY <1>0, <2>1 DEF GuardInv, CurInv, InHand
  <2>4. CountInv' /\ Exclusive'
    BY <2>1, NothingMoves DEF Counted
  <2>5. QED  BY <2>2, <2>3, <2>4 DEF IInv
<1>2. ASSUME NEW t \in Threads, DrainGet(t) \/ WaitGet(t) PROVE IInv'
  BY <1>2, TakeKeeps DEF DrainGet, WaitGet, PCs, InHand, Uncounting
<1>3. ASSUME NEW t \in Threads, PingOk(t) PROVE IInv'
  <2>1. pc[t] \in {"ping", "waitping"} /\ pc'[t] = "run"
    BY <1>0, <1>3 DEF PingOk, TypeOK
  <2>2. /\ cur[t] \in Conns /\ cur[t] \notin ToSet(stack[t])
        /\ UNCHANGED <<created, guard, free, conn>>
        /\ pc' = [pc EXCEPT ![t] = "run"]
        /\ cur' = [cur EXCEPT ![t] = NoConn]
        /\ stack' = [stack EXCEPT ![t] = Append(stack[t], cur[t])]
        /\ stack[t] \in Seq(Conns) /\ IsInjective(stack[t])
    BY <1>0, <1>3, <2>1, CurIsConn DEF PingOk, InHand, TypeOK, Exclusive
  <2>3. /\ stack'[t] \in Seq(Conns) /\ IsInjective(stack'[t])
        /\ ToSet(stack'[t]) = ToSet(stack[t]) \union {cur[t]}
    BY <1>0, <2>2, AppendLemma DEF TypeOK
  <2>4. TypeOK'
    BY <1>0, <2>2, <2>3 DEF TypeOK, PCs, InHand
  <2>5. GuardInv' /\ CurInv'
    BY <1>0, <2>1, <2>2 DEF GuardInv, CurInv, TypeOK, InHand, Uncounting
  <2>6. \A u \in Threads : Held(u)' = Held(u)
    BY <1>0, <2>2, <2>3 DEF Held, TypeOK
  <2>7. CountInv' /\ Counted' = Counted
    BY <1>0, <2>2 DEF CountInv, CountMatches, Counted
  <2>8. \A u \in Threads : IsInjective(stack'[u]) /\ cur'[u] \notin ToSet(stack'[u])
    <3>1. NoConn \notin ToSet(stack'[t])
      BY <1>0, <2>3 DEF ToSet
    <3>2. QED  BY <1>0, <2>2, <2>3, <3>1 DEF Exclusive, TypeOK
  <2>9. Exclusive'
    BY <1>0, <2>2, <2>6, <2>7, <2>8 DEF Exclusive
  <2>10. QED  BY <2>4, <2>5, <2>7, <2>9 DEF IInv
<1>4. ASSUME NEW t \in Threads, PingFails(t) \/ Discard(t) PROVE IInv'
  <2>1. /\ pc[t] \in InHand \ Uncounting /\ pc'[t] \in Uncounting
        /\ pc' = [pc EXCEPT ![t] = pc'[t]]
        /\ conn' = [conn EXCEPT ![cur[t]] = "closed"]
        /\ conn[cur[t]] \in {"dead", "closed"}
        /\ UNCHANGED <<created, guard, free, stack, cur>>
    BY <1>0, <1>4 DEF PingFails, Discard, TypeOK, InHand, Uncounting
  <2>2. cur[t] \in Conns /\ \A u \in Threads : u # t => cur[u] # cur[t]
    BY <1>0, <2>1, CurIsConn DEF Held
  <2>3. TypeOK'
    BY <1>0, <2>1, <2>2 DEF TypeOK, PCs, InHand, ConnStates
  <2>4. GuardInv' /\ CurInv'
    BY <1>0, <2>1, <2>2 DEF GuardInv, CurInv, TypeOK, InHand, Uncounting
  <2>5. Counted' = Counted
    BY <1>0, <2>1, <2>2 DEF Counted, TypeOK
  <2>6. QED  BY <2>1, <2>3, <2>4, <2>5, NothingMoves DEF IInv
<1>5. ASSUME NEW t \in Threads, Uncount(t) PROVE IInv'
  <2>1. /\ pc[t] \in Uncounting /\ pc'[t] \in {"drain", "recreate", "run"}
        /\ pc' = [pc EXCEPT ![t] = pc'[t]]
        /\ created' = created - 1
        /\ conn' = [conn EXCEPT ![cur[t]] = "absent"]
        /\ cur' = [cur EXCEPT ![t] = NoConn]
        /\ UNCHANGED <<guard, free, stack>> /\ guard = NoThread
    BY <1>0, <1>5 DEF Uncount, TypeOK, Uncounting
  <2>2. /\ cur[t] \in Conns /\ cur[t] \in Held(t) /\ cur[t] \in Counted
        /\ cur[t] \notin ToSet(free) /\ cur[t] \notin ToSet(stack[t])
        /\ \A u \in Threads : u # t => cur[t] \notin Held(u)
    BY <1>0, <2>1, CurIsConn DEF InHand
  <2>3. Counted' = Counted \ {cur[t]}
    BY <1>0, <2>1, <2>2 DEF Counted, TypeOK
  <2>4. CountInv' /\ created >= 1
    BY <1>0, <2>1, <2>2, <2>3, CountedFinite DEF CountInv, CountMatches
  <2>5. TypeOK'
    <3>1. created' \in 0..MaxSize
      BY <1>0, <2>1, <2>4 DEF TypeOK
    <3>2. QED  BY <1>0, <2>1, <2>2, <3>1 DEF TypeOK, PCs, ConnStates
  <2>6. GuardInv' /\ CurInv'
    BY <1>0, <2>1, <2>2 DEF GuardInv, CurInv, TypeOK, InHand, Uncounting, Held
  <2>7. /\ Held(t)' = Held(t) \ {cur[t]}
        /\ \A u \in Threads : u # t => Held(u)' = Held(u)
    BY <1>0, <2>1, <2>2 DEF Held, TypeOK
  <2>8. \A u \in Threads : IsInjective(stack'[u]) /\ cur'[u] \notin ToSet(stack'[u])
    <3>1. NoConn \notin ToSet(stack[t])
      BY <1>0 DEF ToSet, TypeOK
    <3>2. QED  BY <1>0, <2>1, <3>1 DEF Exclusive, TypeOK
  <2>9. Exclusive'
    BY <1>0, <2>1, <2>2, <2>3, <2>7, <2>8 DEF Exclusive
  <2>10. QED  BY <2>4, <2>5, <2>6, <2>9 DEF IInv
<1>6. ASSUME NEW t \in Threads, StartOpening(t) \/ OpenFails(t) PROVE IInv'
  <2>1. /\ pc[t] \notin InHand /\ pc'[t] \in {"opening", "run"}
        /\ pc' = [pc EXCEPT ![t] = pc'[t]]
        /\ UNCHANGED <<created, free, conn, stack, cur>>
    BY <1>0, <1>6 DEF StartOpening, OpenFails, TypeOK, InHand, Uncounting
  <2>2. TypeOK'
    BY <1>0, <1>6, <2>1 DEF TypeOK, PCs, StartOpening, OpenFails
  <2>3. GuardInv'
    BY <1>0, <1>6, <2>1 DEF GuardInv, StartOpening, OpenFails, TypeOK
  <2>4. CurInv'
    BY <1>0, <2>1 DEF CurInv, TypeOK, InHand, Uncounting
  <2>5. QED  BY <2>1, <2>2, <2>3, <2>4, NothingMoves DEF IInv, Counted
<1>7. ASSUME NEW t \in Threads, OpenOk(t) PROVE IInv'
  <2>1. PICK c \in Conns : /\ conn[c] = "absent"
                           /\ conn' = [conn EXCEPT ![c] = "ok"]
                           /\ stack' = [stack EXCEPT ![t] = Append(stack[t], c)]
    BY <1>7 DEF OpenOk
  <2>2. /\ pc[t] = "opening" /\ pc' = [pc EXCEPT ![t] = "run"]
        /\ created' = created + 1 /\ guard' = NoThread /\ guard = t
        /\ created < MaxSize /\ UNCHANGED <<free, cur>>
        /\ stack[t] \in Seq(Conns) /\ IsInjective(stack[t])
    BY <1>0, <1>7 DEF OpenOk, GuardInv, TypeOK, Exclusive
  <2>3. c \notin Counted /\ Counted' = Counted \union {c}
    BY <1>0, <2>1 DEF Counted, TypeOK
  <2>4. /\ c \notin ToSet(free)
        /\ \A u \in Threads : c \notin Held(u) /\ c \notin ToSet(stack[u]) /\ c # cur[u]
    BY <1>0, <2>3 DEF Exclusive, Held
  <2>5. /\ stack'[t] \in Seq(Conns) /\ IsInjective(stack'[t])
        /\ ToSet(stack'[t]) = ToSet(stack[t]) \union {c}
    BY <1>0, <2>1, <2>2, <2>4, AppendLemma DEF TypeOK
  <2>6. TypeOK'
    BY <1>0, <2>1, <2>2, <2>5 DEF TypeOK, PCs, ConnStates
  <2>7. GuardInv'
    BY <1>0, <2>2 DEF GuardInv, TypeOK
  <2>8. CurInv'
    BY <1>0, <2>1, <2>2, <2>4 DEF CurInv, TypeOK, InHand, Uncounting
  <2>9. CountInv'
    BY <1>0, <2>2, <2>3, CountedFinite DEF CountInv, CountMatches
  <2>10. /\ Held(t)' = Held(t) \union {c}
         /\ \A u \in Threads : u # t => Held(u)' = Held(u)
    BY <1>0, <2>1, <2>2, <2>5 DEF Held, TypeOK
  <2>11. \A u \in Threads : IsInjective(stack'[u]) /\ cur'[u] \notin ToSet(stack'[u])
    BY <1>0, <2>1, <2>2, <2>4, <2>5 DEF Exclusive, TypeOK
  <2>12. Exclusive'
    BY <1>0, <2>2, <2>3, <2>4, <2>10, <2>11 DEF Exclusive
  <2>13. QED  BY <2>6, <2>7, <2>8, <2>9, <2>12 DEF IInv
<1>8. ASSUME NEW t \in Threads, Exit(t) PROVE IInv'
  <2>1. /\ pc[t] = "run" /\ pc' = [pc EXCEPT ![t] = "release"]
        /\ cur[t] = NoConn /\ cur' = [cur EXCEPT ![t] = Last(stack[t])]
        /\ stack' = [stack EXCEPT ![t] = Front(stack[t])]
        /\ stack[t] \in Seq(Conns) /\ IsInjective(stack[t]) /\ stack[t] # <<>>
        /\ UNCHANGED <<created, guard, free, conn>>
    BY <1>0, <1>8 DEF Exit, TypeOK, CurInv, Exclusive, InHand, Uncounting
  <2>2. /\ stack'[t] \in Seq(Conns) /\ IsInjective(stack'[t])
        /\ Last(stack[t]) \in Conns /\ Last(stack[t]) \in ToSet(stack[t])
        /\ ToSet(stack'[t]) = ToSet(stack[t]) \ {Last(stack[t])}
    BY <1>0, <2>1, FrontLemma DEF TypeOK
  <2>3. TypeOK'
    BY <1>0, <2>1, <2>2 DEF TypeOK, PCs, InHand
  <2>4. GuardInv' /\ CurInv'
    BY <1>0, <2>1, <2>2 DEF GuardInv, CurInv, TypeOK, InHand, Uncounting
  <2>5. \A u \in Threads : Held(u)' = Held(u)
    BY <1>0, <2>1, <2>2 DEF Held, TypeOK
  <2>6. CountInv' /\ Counted' = Counted
    BY <1>0, <2>1 DEF CountInv, CountMatches, Counted
  <2>7. \A u \in Threads : IsInjective(stack'[u]) /\ cur'[u] \notin ToSet(stack'[u])
    BY <1>0, <2>1, <2>2 DEF Exclusive, TypeOK
  <2>8. Exclusive'
    BY <1>0, <2>1, <2>5, <2>6, <2>7 DEF Exclusive
  <2>9. QED  BY <2>3, <2>4, <2>6, <2>8 DEF IInv
<1>9. ASSUME NEW t \in Threads, Recycle(t) PROVE IInv'
  <2>1. /\ pc[t] = "release" /\ pc' = [pc EXCEPT ![t] = "run"]
        /\ free' = Append(free, cur[t]) /\ cur' = [cur EXCEPT ![t] = NoConn]
        /\ UNCHANGED <<created, guard, conn, stack>>
    BY <1>9 DEF Recycle
  <2>2. /\ cur[t] \in Conns /\ cur[t] \in Held(t)
        /\ cur[t] \notin ToSet(free) /\ cur[t] \notin ToSet(stack[t])
        /\ \A u \in Threads : u # t => cur[t] \notin Held(u)
    BY <1>0, <2>1, CurIsConn DEF InHand
  <2>3. /\ free' \in Seq(Conns) /\ IsInjective(free')
        /\ ToSet(free') = ToSet(free) \union {cur[t]}
    BY <1>0, <2>1, <2>2, AppendLemma DEF TypeOK, Exclusive
  <2>4. TypeOK'
    BY <1>0, <2>1, <2>3 DEF TypeOK, PCs
  <2>5. GuardInv' /\ CurInv'
    BY <1>0, <2>1 DEF GuardInv, CurInv, TypeOK, InHand, Uncounting
  <2>6. /\ Held(t)' = Held(t) \ {cur[t]}
        /\ \A u \in Threads : u # t => Held(u)' = Held(u)
    BY <1>0, <2>1, <2>2 DEF Held, TypeOK
  <2>7. CountInv' /\ Counted' = Counted
    BY <1>0, <2>1 DEF CountInv, CountMatches, Counted
  <2>8. \A u \in Threads : IsInjective(stack'[u]) /\ cur'[u] \notin ToSet(stack'[u])
    <3>1. NoConn \notin ToSet(stack[t])
      BY <1>0 DEF ToSet, TypeOK
    <3>2. QED  BY <1>0, <2>1, <3>1 DEF Exclusive, TypeOK
  <2>9. Exclusive'
    BY <1>0, <2>2, <2>3, <2>6, <2>7, <2>8 DEF Exclusive
  <2>10. QED  BY <2>4, <2>5, <2>7, <2>9 DEF IInv
<1>10. ASSUME NEW t \in Threads, UseDead(t) PROVE IInv'
  <2>1. /\ Last(stack[t]) \in Conns /\ conn[Last(stack[t])] = "dead"
        /\ conn' = [conn EXCEPT ![Last(stack[t])] = "closed"]
        /\ UNCHANGED <<created, guard, free, stack, cur, pc>>
    BY <1>0, <1>10, FrontLemma DEF UseDead, TypeOK, Exclusive
  <2>2. TypeOK' /\ GuardInv' /\ CurInv' /\ Counted' = Counted
    BY <1>0, <2>1, CurIsConn
       DEF TypeOK, GuardInv, CurInv, Counted, ConnStates, InHand, Uncounting
  <2>3. QED  BY <2>1, <2>2, NothingMoves DEF IInv
<1>11. ASSUME NEW c \in Conns, Drop(c) PROVE IInv'
  <2>1. /\ conn[c] = "ok" /\ conn' = [conn EXCEPT ![c] = "dead"]
        /\ UNCHANGED <<created, guard, free, stack, cur, pc>>
    BY <1>11 DEF Drop
  <2>2. TypeOK' /\ GuardInv' /\ CurInv' /\ Counted' = Counted
    BY <1>0, <2>1 DEF TypeOK, GuardInv, CurInv, Counted, ConnStates, InHand, Uncounting
  <2>3. QED  BY <2>1, <2>2, NothingMoves DEF IInv
<1>12. CASE UNCHANGED vars
  <2>1. TypeOK' /\ GuardInv' /\ CurInv' /\ Counted' = Counted
    BY <1>0, <1>12 DEF vars, TypeOK, GuardInv, CurInv, Counted
  <2>2. QED  BY <1>12, <2>1, NothingMoves DEF IInv, vars
<1>13. QED
  BY <1>1, <1>2, <1>3, <1>4, <1>5, <1>6, <1>7, <1>8, <1>9, <1>10, <1>11, <1>12
     DEF Next, Step

-----------------------------------------------------------------------------

LEMMA Inductive == Spec => []IInv
<1>. QED  BY InitIInv, NextIInv, PTL DEF Spec

\* Whatever the threads do, _created stays within 0..max_size and the queue,
\* the stacks and the locals of acquire and release hold connections.
THEOREM TypeCorrect == Spec => []TypeOK
<1>1. IInv => TypeOK
  BY DEF IInv
<1>. QED  BY <1>1, Inductive, PTL

\* _created never drifts from the connections that exist (db.py:114-116).
THEOREM CountCorrect == Spec => []CountMatches
<1>1. IInv => CountMatches
  BY DEF IInv, CountInv
<1>. QED  BY <1>1, Inductive, PTL

\* No connection is shared, put back twice or leaked (db.py:183-188).
THEOREM ExclusiveCorrect == Spec => []Exclusive
<1>1. IInv => Exclusive
  BY DEF IInv
<1>. QED  BY <1>1, Inductive, PTL

\* The server sees at most max_size connections of this pool.
THEOREM BoundedCorrect == Spec => []Bounded
<1>1. ASSUME IInv PROVE Bounded
  <2>. DEFINE live == {c \in Conns : conn[c] \in {"ok", "dead"}}
              opening == {t \in Threads : pc[t] = "opening"}
  <2>1. /\ live \subseteq Counted /\ IsFiniteSet(Counted)
        /\ created = Cardinality(Counted) /\ created \in 0..MaxSize
    BY <1>1 DEF IInv, CountInv, CountMatches, Counted, TypeOK
  <2>2. Cardinality(live) \in Nat /\ Cardinality(live) <= created
    BY <2>1, FS_Subset, FS_CardinalityType
  <2>3. CASE guard = NoThread
    <3>1. opening = {}
      BY <1>1, <2>3, PoolAssumption DEF IInv, GuardInv
    <3>2. Cardinality(opening) = 0
      BY <3>1, FS_EmptySet
    <3>3. QED  BY <2>1, <2>2, <3>2, PoolAssumption DEF Bounded
  <2>4. CASE guard # NoThread
    <3>1. opening = {guard} /\ created < MaxSize
      BY <1>1, <2>4 DEF IInv, GuardInv, TypeOK
    <3>2. Cardinality(opening) = 1
      BY <3>1, FS_Singleton
    <3>3. QED  BY <2>1, <2>2, <3>1, <3>2, PoolAssumption DEF Bounded
  <2>5. QED  BY <2>3, <2>4
<1>. QED  BY <1>1, Inductive, PTL

-----------------------------------------------------------------------------
(* The pool implements ConnectionLease. *)

LEMMA BorrowerIs ==
    ASSUME Exclusive, NEW c \in Conns
    PROVE  /\ \A t \in Threads : c \in ToSet(stack[t]) => borrower[c] = t
           /\ (\A t \in Threads : c \notin ToSet(stack[t])) => borrower[c] = NoThread
<1>1. \A t, u \in Threads : c \in ToSet(stack[t]) /\ c \in ToSet(stack[u]) => t = u
  BY DEF Exclusive, Held
<1>2. QED  BY <1>1 DEF borrower

\* A connection that enters a thread's stack was nobody's, and there was room.
LEMMA Lends ==
    ASSUME IInv, IInv', NEW t \in Threads, NEW c \in Conns,
           \A u \in Threads : c \notin ToSet(stack[u]),
           \A u \in Threads :
               ToSet(stack'[u]) = ToSet(stack[u]) \union (IF u = t THEN {c} ELSE {}),
           c \in Counted \/ created < MaxSize
    PROVE  Lease!Lend(t, c)
<1>0. TypeOK /\ CountInv /\ Exclusive /\ Exclusive'
  BY DEF IInv
<1>1. borrower[c] = NoThread /\ borrower'[c] = t
  BY BorrowerIs DEF IInv, borrower, Exclusive, Held
<1>2. \A d \in Conns : d # c => borrower'[d] = borrower[d]
  <2>1. ASSUME NEW d \in Conns, d # c, NEW u \in Threads
        PROVE  d \in ToSet(stack'[u]) <=> d \in ToSet(stack[u])
    BY <2>1
  <2>2. QED  BY <2>1, Zenon DEF borrower
<1>3. borrower' = [borrower EXCEPT ![c] = t]
  BY <1>1, <1>2 DEF borrower
<1>4. Lease!Lent \subseteq Counted /\ c \notin Lease!Lent
  BY <1>0, <1>1 DEF Lease!Lent, borrower, Exclusive, Held
<1>5. Cardinality(Lease!Lent) < MaxSize
  <2>1. IsFiniteSet(Counted) /\ created = Cardinality(Counted) /\ created \in 0..MaxSize
    BY <1>0 DEF CountInv, CountMatches, TypeOK
  <2>2. Cardinality(Lease!Lent) \in Nat /\ Cardinality(Lease!Lent) <= created
    BY <1>4, <2>1, FS_Subset, FS_CardinalityType
  <2>3. CASE c \in Counted
    <3>1. /\ IsFiniteSet(Counted \ {c}) /\ Lease!Lent \subseteq Counted \ {c}
          /\ Cardinality(Counted \ {c}) = created - 1
      BY <1>0, <1>4, <2>3, CountedFinite
    <3>2. Cardinality(Lease!Lent) <= created - 1
      BY <3>1, FS_Subset
    <3>3. QED  BY <2>1, <2>2, <3>2, PoolAssumption
  <2>4. CASE created < MaxSize
    BY <2>1, <2>2, <2>4, PoolAssumption
  <2>5. QED  BY <2>3, <2>4
<1>6. QED  BY <1>1, <1>3, <1>5
            DEF Lease!Lend, Lease!Cardinality, Cardinality

LEMMA StepLeases == IInv /\ IInv' /\ [Next]_vars => [Lease!Next]_borrower
<1>. SUFFICES ASSUME IInv, IInv', [Next]_vars PROVE [Lease!Next]_borrower
  OBVIOUS
<1>0. TypeOK /\ TypeOK' /\ GuardInv /\ CurInv /\ Exclusive /\ Exclusive'
  BY DEF IInv
<1>1. CASE UNCHANGED stack
  BY <1>1 DEF borrower
<1>2. ASSUME NEW t \in Threads, PingOk(t) PROVE [Lease!Next]_borrower
  <2>1. /\ pc[t] \in InHand /\ cur[t] \in Conns /\ cur[t] \in Counted
        /\ \A u \in Threads : cur[t] \notin ToSet(stack[u])
    BY <1>0, <1>2, CurIsConn DEF PingOk, Goto, InHand, Held
  <2>2. \A u \in Threads :
          ToSet(stack'[u]) = ToSet(stack[u]) \union (IF u = t THEN {cur[t]} ELSE {})
    BY <1>0, <1>2, <2>1, AppendLemma DEF PingOk, TypeOK
  <2>3. Lease!Lend(t, cur[t])
    BY <2>1, <2>2, Lends
  <2>4. QED  BY <2>1, <2>3 DEF Lease!Next
<1>3. ASSUME NEW t \in Threads, OpenOk(t) PROVE [Lease!Next]_borrower
  <2>1. PICK c \in Conns : /\ conn[c] = "absent"
                           /\ stack' = [stack EXCEPT ![t] = Append(stack[t], c)]
    BY <1>3 DEF OpenOk
  <2>2. created < MaxSize /\ \A u \in Threads : c \notin ToSet(stack[u])
    BY <1>0, <1>3, <2>1, PoolAssumption DEF OpenOk, Goto, GuardInv, Exclusive, Counted, Held
  <2>3. \A u \in Threads :
          ToSet(stack'[u]) = ToSet(stack[u]) \union (IF u = t THEN {c} ELSE {})
    BY <1>0, <2>1, AppendLemma DEF TypeOK
  <2>4. Lease!Lend(t, c)
    BY <2>2, <2>3, Lends
  <2>5. QED  BY <2>4 DEF Lease!Next
<1>4. ASSUME NEW t \in Threads, Exit(t) PROVE [Lease!Next]_borrower
  <2>. DEFINE c == Last(stack[t])
  <2>1. /\ stack' = [stack EXCEPT ![t] = Front(stack[t])]
        /\ c \in Conns /\ c \in ToSet(stack[t])
        /\ ToSet(stack'[t]) = ToSet(stack[t]) \ {c}
    BY <1>0, <1>4, FrontLemma DEF Exit, TypeOK, Exclusive
  <2>. HIDE DEF c
  <2>2. \A u \in Threads : u # t => stack'[u] = stack[u] /\ c \notin ToSet(stack[u])
    BY <1>0, <2>1 DEF TypeOK, Exclusive, Held
  <2>3. borrower[c] = t /\ borrower'[c] = NoThread
    BY <1>0, <2>1, <2>2, BorrowerIs DEF borrower
  <2>4. ASSUME NEW d \in Conns, d # c PROVE borrower'[d] = borrower[d]
    <3>1. \A u \in Threads : d \in ToSet(stack'[u]) <=> d \in ToSet(stack[u])
      BY <2>1, <2>2, <2>4
    <3>2. QED  BY <3>1, Zenon DEF borrower
  <2>5. borrower' = [borrower EXCEPT ![c] = NoThread]
    BY <2>3, <2>4 DEF borrower
  <2>6. Lease!GiveBack(t, c)
    BY <2>3, <2>5 DEF Lease!GiveBack
  <2>7. QED  BY <2>1, <2>6 DEF Lease!Next
<1>5. QED
  BY <1>1, <1>2, <1>3, <1>4
     DEF Next, Step, vars, Enter, DrainGet, DrainEmpty, PingFails, NoRoom, OpenFails,
         WaitGet, Exhausted, Recycle, Discard, Uncount, StartOpening, UseDead, Drop, Take

\* Seen from its users, the pool lends each connection to one thread at a
\* time, never more than max_size at once, and takes it back from that thread.
THEOREM ImplementsLease == Spec => Leases
<1>1. Init => Lease!Init
  BY DEF Init, Lease!Init, borrower, ToSet
<1>. QED  BY <1>1, Inductive, StepLeases, PTL DEF Spec, Leases, Lease!Spec
=============================================================================
