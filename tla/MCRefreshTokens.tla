--------------------------- MODULE MCRefreshTokens ---------------------------
(* The refresh tokens of one user on small instances.                        *)
EXTENDS RefreshTokens, TLC

Symmetry == Permutations(Requests)
=============================================================================
