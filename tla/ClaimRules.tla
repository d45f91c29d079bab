----------------------------- MODULE ClaimRules -----------------------------
(***************************************************************************)
(* The rules about claims that the services share: the statuses and their  *)
(* transitions, and what the public API and the claims worker each require *)
(* of the policy.                                                          *)
(***************************************************************************)
EXTENDS Naturals

ClaimStatus == {"Submitted", "UnderReview", "Approved", "Denied", "Paid", "Closed"}

(* ClaimService.ValidateStatusTransition and its copy                      *)
(* ClaimWorkflowService.ValidateClaimTransition.                           *)
ClaimTransition ==
    {<<"Submitted", "UnderReview">>, <<"Submitted", "Denied">>,
     <<"UnderReview", "Approved">>, <<"UnderReview", "Denied">>,
     <<"Approved", "Paid">>, <<"Approved", "Closed">>,
     <<"Paid", "Closed">>}

ValidTransition(current, target) == <<current, target>> \in ClaimTransition

PolicyStatus == {"Draft", "Active", "Expired", "Cancelled", "Suspended"}

NoPolicy == [status |-> "none", coverage |-> 0]

PolicyRow == [status : PolicyStatus, coverage : Nat]

Covers(policy, amount) == policy.status = "Active" /\ amount <= policy.coverage

(* ClaimService.SubmitClaimAsync: the response of the three checks, as the *)
(* exception handler maps their exceptions.                                *)
SubmissionCheck(policy, amount) ==
    IF policy = NoPolicy THEN "404"
    ELSE IF policy.status # "Active" THEN "409"
    ELSE IF amount > policy.coverage THEN "400"
    ELSE "pass"

(* Mutated form of DetermineStatus: a claim for the full coverage is       *)
(* denied.                                                                 *)
DetermineStrictly(policy, amount) ==
    IF policy # NoPolicy /\ Covers(policy, amount + 1) THEN "UnderReview" ELSE "Denied"

(* ClaimsWorker.DetermineStatusAsync.                                      *)
DetermineStatus(policy, amount) ==
    IF policy # NoPolicy /\ Covers(policy, amount) THEN "UnderReview" ELSE "Denied"
=============================================================================
