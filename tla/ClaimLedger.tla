---------------------------- MODULE ClaimLedger ----------------------------
(***************************************************************************)
(* What a claim looks like to the business: it is filed once, and then its *)
(* status moves only along the documented state machine, one transition at *)
(* a time, whoever works on it.                                            *)
(***************************************************************************)
EXTENDS ClaimRules

CONSTANT Claim

VARIABLE ledger     \* per claim: "none" or its status

Init == ledger = [c \in Claim |-> "none"]

File(c) ==
    /\ ledger[c] = "none"
    /\ ledger' = [ledger EXCEPT ![c] = "Submitted"]

Move(c, status) ==
    /\ ValidTransition(ledger[c], status)
    /\ ledger' = [ledger EXCEPT ![c] = status]

Next == \E c \in Claim : File(c) \/ \E s \in ClaimStatus : Move(c, s)

Spec == Init /\ [][Next]_ledger
=============================================================================
