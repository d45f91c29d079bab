------------------------------ MODULE MCForms ------------------------------
(* An instance of Forms for TLC.                                           *)
EXTENDS Forms, TLC

CONSTANTS s1, s2, f1, u1, d1, seed, other

MCAttempts == Form \X (1..MaxAttempt)

Symmetry == Permutations(Start)
=============================================================================
