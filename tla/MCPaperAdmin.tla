---------------------------- MODULE MCPaperAdmin ----------------------------
EXTENDS PaperAdmin, TLC
Symmetry == Permutations(Reqs) \cup Permutations(Workers) \cup Permutations(Questions)
=============================================================================
