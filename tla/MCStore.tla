------------------------------ MODULE MCStore -------------------------------
EXTENDS Store, TLC
Symm == Permutations(Texts) \cup Permutations(Vecs) \cup Permutations(Procs)
=============================================================================
