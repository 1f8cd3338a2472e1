--------------------------- MODULE MCUserManagers ---------------------------
(* The administrators of an installation on small instances.                *)
EXTENDS UserManagers, TLC

Symmetry == Permutations(Admins) \cup Permutations(CustomRoles)
=============================================================================
