-------------------------- MODULE MCBackendClient --------------------------
(* BackendClient for TLC: one platform, two backends that are alike.       *)
EXTENDS BackendClient, TLC

CONSTANTS p1, here, there

MCPlatforms == {p1}
MCUrls == {here, there}
Symmetry == Permutations(MCUrls)
=============================================================================
