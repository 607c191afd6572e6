----------------------- MODULE MCConnectTransactions -----------------------
EXTENDS ConnectTransactions, TLC

Symmetry == Permutations(Txns) \union Permutations(Threads)
              \union Permutations(Installations)
=============================================================================
