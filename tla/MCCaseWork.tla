----------------------------- MODULE MCCaseWork -----------------------------
(* Instances of CaseWork for TLC: a claim case and a quote case.           *)
EXTENDS CaseWork, TLC

CONSTANTS claim, quote, r1, r2, r3, u1, u2

Claims == INSTANCE ClaimRules
Quotes == INSTANCE QuoteRules

MCStatus == Claims!ClaimStatus \cup Quotes!QuoteStatus

PerCase(ofClaim, ofQuote) ==
    [c \in {claim, quote} |-> IF c = claim THEN ofClaim ELSE ofQuote]

MCTransition == PerCase(Claims!ClaimTransition, Quotes!QuoteTransition)
MCStartFrom == PerCase("Submitted", "Underwriting")
MCStartStatus == PerCase({"UnderReview", "Denied"}, {"Approved", "Declined"})

Symmetry == Permutations(Request) \cup Permutations(Staff)
=============================================================================
