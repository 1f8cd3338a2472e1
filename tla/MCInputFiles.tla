---------------------------- MODULE MCInputFiles ----------------------------
(* input/ of a project on small instances.                                 *)
EXTENDS InputFiles, TLC

CONSTANTS a, b  \* two names, sorted

PlaceOfNames == [n \in Names |-> IF n = a THEN 1 ELSE 2]
Symmetry == Permutations(Clients)
=============================================================================
