--------------------------- MODULE MCPublicClaims ---------------------------
(* Instances of PublicClaims for TLC.                                      *)
EXTENDS PublicClaims, TLC

CONSTANTS c1, r1, r2, r3

Symmetry == Permutations(ClaimRequest)
=============================================================================
