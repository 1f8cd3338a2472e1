--------------------------- MODULE MCCitationGuard ---------------------------
(* The citation guard on small instances.                                    *)
EXTENDS CitationGuard, TLC

Symmetry == Permutations(Documents) \cup Permutations(Readers)
=============================================================================
