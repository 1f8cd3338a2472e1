-------------------------- MODULE MCIndexSnapshots --------------------------
(* The snapshots of a project on small instances.                          *)
EXTENDS IndexSnapshots, TLC

Symmetry == Permutations(Names) \cup Permutations(Texts)
=============================================================================
