------------------------------ MODULE MCPortal ------------------------------
(* An instance of Portal for TLC.                                          *)
EXTENDS Portal, TLC

CONSTANTS ann, ben, c1, c2, m1, a1, a2, n1, n2

Symmetry == Permutations(User) \cup Permutations(Claim) \cup Permutations(Adjuster)
                \cup Permutations(Number)
=============================================================================
