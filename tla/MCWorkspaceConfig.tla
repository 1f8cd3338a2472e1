------------------------- MODULE MCWorkspaceConfig -------------------------
(* The configuration of a workspace on small instances.                     *)
EXTENDS WorkspaceConfig, TLC

CONSTANTS plain, keyed

KeyedReferences == [c \in Contents |-> IF c = keyed THEN Keys ELSE {}]
Symmetry == Permutations(Editors) \cup Permutations(Keys)
=============================================================================
