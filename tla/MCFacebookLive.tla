--------------------------- MODULE MCFacebookLive ---------------------------
(* Instances of FacebookLive for TLC. *)
EXTENDS FacebookLive, TLC
Symmetry == Permutations(Videos)
=============================================================================
