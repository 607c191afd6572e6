--------------------------- MODULE MCRelayForward ---------------------------
EXTENDS RelayForward, TLC

Symmetry == Permutations(Videos)
=============================================================================
