------------------------------ MODULE MCDaemon ------------------------------
(* Daemon with the symmetry of its connections, texts and embeddings.      *)
EXTENDS Daemon, TLC

Symm == Permutations(Conns) \cup Permutations(Texts) \cup Permutations(Vecs)
=============================================================================
