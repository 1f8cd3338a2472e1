----------------------------- MODULE MCSessions -----------------------------
(* The tabs of one browser on small instances.                               *)
EXTENDS Sessions, TLC

Symmetry == Permutations(Requests)
=============================================================================
