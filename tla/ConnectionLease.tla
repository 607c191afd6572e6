-------------------------- MODULE ConnectionLease --------------------------
(***************************************************************************)
(* What backend/db.py:PgPool promises to `with pool as conn`: a connection *)
(* is lent to one thread at a time, only its borrower gives it back, and   *)
(* no more than MaxSize are out at once ("instancias x pool <=             *)
(* max_connections", db.py:82-83).                                         *)
(***************************************************************************)
EXTENDS Naturals, FiniteSets

CONSTANTS Threads, Conns, MaxSize, NoThread

VARIABLE lease      \* lease[c]: the thread inside `with pool` that got c

Lent == {c \in Conns : lease[c] # NoThread}

Init == lease = [c \in Conns |-> NoThread]

Lend(t, c) ==
    /\ lease[c] = NoThread
    /\ Cardinality(Lent) < MaxSize
    /\ lease' = [lease EXCEPT ![c] = t]

GiveBack(t, c) ==
    /\ lease[c] = t
    /\ lease' = [lease EXCEPT ![c] = NoThread]

Next == \E t \in Threads, c \in Conns : Lend(t, c) \/ GiveBack(t, c)

Spec == Init /\ [][Next]_lease
=============================================================================
