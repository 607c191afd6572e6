-------------------------- MODULE MCManagedTokens --------------------------
EXTENDS ManagedTokens, TLC, FiniteSets

CONSTANTS t1, t2, p1, p2

OneProcess == [t \in Threads |-> p1]
TwoProcesses == [t \in Threads |-> IF t = t1 THEN p1 ELSE p2]

Symmetry == Permutations(Installations) \union Permutations(Accounts)
=============================================================================
