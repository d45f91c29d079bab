---------------------------- MODULE MCClaimIntake ----------------------------
(* Instances of ClaimIntake for TLC.                                       *)
EXTENDS ClaimIntake, TLC

CONSTANTS c1, h1, h2

Row(s, cov) == [status |-> s, coverage |-> cov]

(* A policy that covers the claim, one with too little coverage, and one   *)
(* that is not active.                                                     *)
MCPolicies == {Row("Active", 2), Row("Active", 1), Row("Cancelled", 2)}
=============================================================================
