---------------------------- MODULE PublicClaims ----------------------------
(***************************************************************************)
(* PUT /claims/{id}/status of the public API:                              *)
(* ClaimService.UpdateClaimStatusAsync on the Claims table.                *)
(*                                                                         *)
(* A request loads the row, validates the transition from the status it    *)
(* loaded, and saves the changed columns, with no lock and no concurrency  *)
(* token in between.                                                       *)
(***************************************************************************)
EXTENDS ClaimRules

CONSTANTS
    Claim,          \* claims filed with the public API
    ClaimRequest    \* requests to change a status, each handled once

VARIABLES
    status,         \* Claims.Status, or "none" for a deleted row
    resolved,       \* claims whose ResolvedDate is set
    stage,          \* per request: "new", "loaded", "saved" or its response
    claimOf,        \* per request: the claim it asks for
    loaded,         \* per request: the status it loaded
    contended       \* history: claims that two requests had loaded at a time

claimRows == <<status, resolved>>
claimVars == <<status, resolved, stage, claimOf, loaded, contended>>

ClaimResponse == {"200", "404", "409", "500"}

ClaimsTypeOK ==
    /\ status \in [Claim -> ClaimStatus \cup {"none"}]
    /\ resolved \subseteq Claim
    /\ stage \in [ClaimRequest -> {"new", "loaded", "saved"} \cup ClaimResponse]
    /\ claimOf \in [ClaimRequest -> Claim]
    /\ loaded \in [ClaimRequest -> ClaimStatus]
    /\ contended \subseteq Claim

(* Claims as SubmitClaimAsync files them.                                  *)
ClaimsInit ==
    /\ status = [c \in Claim |-> "Submitted"]
    /\ resolved = {}
    /\ stage = [r \in ClaimRequest |-> "new"]
    /\ claimOf \in [ClaimRequest -> Claim]
    /\ loaded = [r \in ClaimRequest |-> "Submitted"]
    /\ contended = {}

-----------------------------------------------------------------------------
Advance(r, from, to) == stage[r] = from /\ stage' = [stage EXCEPT ![r] = to]

Deleted(c) == status[c] = "none"

(* Claims.FindAsync.                                                       *)
LoadClaim(r) ==
    /\ Advance(r, "new", "loaded")
    /\ ~Deleted(claimOf[r])
    /\ loaded' = [loaded EXCEPT ![r] = status[claimOf[r]]]
    /\ UNCHANGED <<claimRows, claimOf>>

ClaimNotFound(r) ==
    /\ Deleted(claimOf[r])
    /\ Advance(r, "new", "404")
    /\ UNCHANGED <<claimRows, claimOf, loaded>>

(* ValidateStatusTransition throws: a conflict.                            *)
RefuseStatus(r, s) ==
    /\ Advance(r, "loaded", "409")
    /\ ~ValidTransition(loaded[r], s)
    /\ UNCHANGED <<claimRows, claimOf, loaded>>

(* Mutated form of Resolves: only a rejection is dated.                    *)
ResolvesDenied(s) == s = "Denied"

(* The statuses that set ResolvedDate.                                     *)
Resolves(s) == s \in {"Approved", "Denied", "Closed"}

SaveChanged(r, s) ==
    LET c == claimOf[r]
    IN  /\ Advance(r, "loaded", "saved")
        /\ ~Deleted(c)
        /\ status' = [status EXCEPT ![c] = s]
        /\ resolved' = IF Resolves(s) THEN resolved \cup {c} ELSE resolved
        /\ UNCHANGED <<claimOf, loaded>>

(* SaveChangesAsync: the status, and the date if the status resolves.      *)
SaveStatus(r, s) ==
    /\ ValidTransition(loaded[r], s)
    /\ SaveChanged(r, s)

(* The update of a row that was deleted affects none and throws, as may    *)
(* the save or the query after it for any other reason.                    *)
FailStatus(r) ==
    /\ Advance(r, "loaded", "500") \/ Advance(r, "saved", "500")
    /\ UNCHANGED <<claimRows, claimOf, loaded>>

(* GetClaimByIdAsync: the response, not found if the row is gone by now.   *)
RespondStatus(r) ==
    /\ Advance(r, "saved", IF Deleted(claimOf[r]) THEN "404" ELSE "200")
    /\ UNCHANGED <<claimRows, claimOf, loaded>>

(* CustomerService.DeleteCustomerAsync: the delete cascades to the claim.  *)
DeleteClaim(c) ==
    /\ ~Deleted(c)
    /\ status' = [status EXCEPT ![c] = "none"]
    /\ resolved' = resolved \ {c}
    /\ UNCHANGED <<stage, claimOf, loaded>>

LoadedBy(c) == {r \in ClaimRequest : claimOf[r] = c /\ stage[r] = "loaded"}
Overlaps(c) == \E r, q \in LoadedBy(c) : r # q

ClaimsNext ==
    /\ \/ \E r \in ClaimRequest :
           \/ LoadClaim(r) \/ ClaimNotFound(r) \/ FailStatus(r) \/ RespondStatus(r)
           \/ \E s \in ClaimStatus : RefuseStatus(r, s) \/ SaveStatus(r, s)
       \/ \E c \in Claim : DeleteClaim(c)
    /\ contended' = contended \cup {c \in Claim : Overlaps(c)'}

ClaimsSpec == ClaimsInit /\ [][ClaimsNext]_claimVars

-----------------------------------------------------------------------------
(* Whatever requests overlap, a claim that is decided, paid or closed has  *)
(* the date of its resolution. Nothing sets the date when a claim is paid: *)
(* it relies on the approval the request had loaded. Unless requests on it *)
(* overlapped, nothing that was resolved is open again.                    *)
ResolutionFits ==
    \A c \in Claim :
        /\ status[c] \in {"Approved", "Denied", "Paid", "Closed"} => c \in resolved
        /\ c \in resolved \ contended => status[c] \notin {"Submitted", "UnderReview"}

(* A claim moves along the documented state machine, however the requests  *)
(* on it overlap.                                                          *)
FollowsStateMachine ==
    [][\A c \in Claim :
        status'[c] \in {status[c], "none"}
        \/ ValidTransition(status[c], status'[c])]_status
=============================================================================
