-------------------------- MODULE MCPublicPolicies --------------------------
(* Instances of PublicPolicies for TLC.                                    *)
EXTENDS PublicPolicies, TLC

CONSTANTS p1, r1, r2, r3

(* Renewals of a month, and of a month back, which nothing refuses.        *)
MonthEitherWay == {-1, 1}

Symmetry == Permutations(Policy) \cup Permutations(Request)
=============================================================================
