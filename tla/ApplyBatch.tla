----------------------------- MODULE ApplyBatch -----------------------------
(***************************************************************************)
(* What "Apply changes" promises to the user who pressed it                *)
(* (metadata_dock.cpp:6801-7331): the platforms asked for are one batch,   *)
(* each is told its result once, the button comes back with the last of    *)
(* them and not before, and no other batch begins meanwhile.               *)
(***************************************************************************)
EXTENDS Naturals

CONSTANT Platforms

VARIABLES
    open,     \* the button is disabled
    asked,    \* the platforms of the batch
    told      \* how many results each has been told

vars == <<open, asked, told>>

Owed == {p \in asked : told[p] = 0}

Init == ~open /\ asked = {} /\ told = [p \in Platforms |-> 0]

\* onApply: those of S that cannot be reached any more are told so at once.
Open(S, T) ==
    /\ ~open /\ S # {} /\ T \subseteq S
    /\ asked' = S /\ told' = [p \in Platforms |-> IF p \in T THEN 1 ELSE 0]
    /\ open' = (T # S)

\* finishPlatform for each of S, and finishApply after the last.
Answer(S) ==
    /\ open /\ S # {} /\ S \subseteq Owed
    /\ asked' = asked
    /\ told' = [p \in Platforms |-> IF p \in S THEN 1 ELSE told[p]]
    /\ open' = (S # Owed)

Next == \E S \in SUBSET Platforms : Answer(S) \/ \E T \in SUBSET S : Open(S, T)

Spec == Init /\ [][Next]_vars
=============================================================================
