---------------------------- MODULE PublicQuotes ----------------------------
(***************************************************************************)
(* POST /quotes/{id}/accept of the public API:                             *)
(* QuoteService.AcceptQuoteAsync on the Quotes table.                      *)
(*                                                                         *)
(* A request loads the row, checks it and saves the changed columns, with  *)
(* no lock and no concurrency token in between.  Nothing else changes the  *)
(* row but the deletion of its customer: what the private side decides is  *)
(* shown from the projection and not asked for here.                       *)
(***************************************************************************)
EXTENDS QuoteRules

CONSTANTS
    Quote,          \* rows of the Quotes table
    Acceptance      \* requests to accept a quote, each handled once

VARIABLES
    status,         \* Quotes.Status, or "none" where there is no row
    accepted,       \* quotes whose IsAccepted is set
    expired,        \* quotes whose ExpiresAt has passed
    pc,             \* per request: "new", "loaded", "saved" or its response
    target,         \* per request: the quote it asks for
    loaded          \* per request: the status it loaded

vars == <<status, accepted, expired, pc, target, loaded>>

Init ==
    /\ status = [q \in Quote |-> "none"]
    /\ accepted = {}
    /\ expired = {}
    /\ pc = [r \in Acceptance |-> "new"]
    /\ target \in [Acceptance -> Quote]
    /\ loaded = [r \in Acceptance |-> "Requested"]

-----------------------------------------------------------------------------
Go(r, from, to) == pc[r] = from /\ pc' = [pc EXCEPT ![r] = to]

Gone(q) == status[q] = "none"

Refused(q) == q \in accepted \cup expired

(* The row CreateQuoteAsync or the seeding inserts.                        *)
Insert(q, newStatus) ==
    /\ Gone(q)
    /\ status' = [status EXCEPT ![q] = newStatus]
    /\ accepted' = IF newStatus = "Approved" THEN accepted \cup {q} ELSE accepted
    /\ UNCHANGED <<expired, pc, target, loaded>>

(* Quotes.FindAsync and the checks on what it returned.                    *)
Load(r) ==
    LET q == target[r]
    IN  /\ Go(r, "new", IF Gone(q) THEN "404" ELSE IF Refused(q) THEN "409"
                        ELSE "loaded")
        /\ loaded' = IF Gone(q) THEN loaded ELSE [loaded EXCEPT ![r] = status[q]]
        /\ UNCHANGED <<status, accepted, expired, target>>

SaveWith(r, newStatus, isAccepted) ==
    LET q == target[r]
    IN  /\ Go(r, "loaded", "saved")
        /\ status' = [status EXCEPT ![q] = newStatus]
        /\ accepted' = IF isAccepted THEN accepted \cup {q} ELSE accepted
        /\ UNCHANGED <<expired, target, loaded>>

(* Mutated form of SaveAcceptance: a quote in underwriting is approved but *)
(* not accepted.                                                           *)
SaveStatusOnly(r) ==
    /\ ~Gone(target[r])
    /\ SaveWith(r, "Approved", loaded[r] = "Requested")

(* SaveChangesAsync: IsAccepted, and the status if it was Requested.       *)
SaveAcceptance(r) ==
    /\ ~Gone(target[r])
    /\ SaveWith(r, IF loaded[r] = "Requested" THEN "Approved" ELSE status[target[r]],
                TRUE)

(* The update of a row that was deleted affects none and throws, as may    *)
(* the save or the query after it for any other reason.                    *)
Fail(r) ==
    /\ Go(r, "loaded", "500") \/ Go(r, "saved", "500")
    /\ UNCHANGED <<status, accepted, expired, target, loaded>>

(* GetQuoteByIdAsync: the response, not found if the row is gone by now.   *)
Respond(r) ==
    /\ Go(r, "saved", IF Gone(target[r]) THEN "404" ELSE "200")
    /\ UNCHANGED <<status, accepted, expired, target, loaded>>

(* ExpiresAt < UtcNow from now on.                                         *)
Expire(q) ==
    /\ expired' = expired \cup {q}
    /\ UNCHANGED <<status, accepted, pc, target, loaded>>

(* CustomerService.DeleteCustomerAsync: the delete cascades to the quote.  *)
Delete(q) ==
    /\ status' = [status EXCEPT ![q] = "none"]
    /\ accepted' = accepted \ {q}
    /\ UNCHANGED <<expired, pc, target, loaded>>

Next ==
    \/ \E r \in Acceptance : Load(r) \/ SaveAcceptance(r) \/ Fail(r) \/ Respond(r)
    \/ \E q \in Quote : Expire(q) \/ Delete(q) \/ \E s \in QuoteStatus : Insert(q, s)

Spec == Init /\ [][Next]_vars

-----------------------------------------------------------------------------
(* However requests overlap, an acceptance and the status it brings are    *)
(* one: no quote is accepted and still requested, or approved and not      *)
(* accepted.                                                               *)
ApprovedIsAccepted ==
    \A q \in Quote :
        /\ status[q] = "Approved" => q \in accepted
        /\ q \in accepted => status[q] \in {"Approved", "Underwriting"}
=============================================================================
