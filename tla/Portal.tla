------------------------------- MODULE Portal -------------------------------
(***************************************************************************)
(* The operations portal: PortalOperationsService, one object with one     *)
(* lock for all users, and the pages on which they work.                   *)
(*                                                                         *)
(* The service checks nothing, and neither do the handlers of the pages.   *)
(* What may be done is decided by the buttons in the browser, and those    *)
(* are of what the page showed when the last batch that the browser        *)
(* applied was rendered. The batch that follows a click is a step of its   *)
(* own (the queue monitor even awaits a request over HTTP before it), so   *)
(* a page is stale after a click of another user and after its own.        *)
(* One quote, some claims and one queue stand for the sample data, and     *)
(* every user has each page open. The queues are never refreshed: the      *)
(* backend API of this repository has no operations/queues.                *)
(***************************************************************************)
EXTENDS ClaimRules, Naturals, Sequences, FiniteSets

CONSTANTS
    User,       \* operations users
    Claim,      \* claims of the sample data
    Adjuster,   \* users to whom claims of the sample data are assigned
    Message,    \* dead-lettered messages of the queue
    Number,     \* policy numbers that may be drawn
    Unbound,    \* no policy number
    MaxClick    \* bound on clicks

ASSUME NumberAssumption == Unbound \notin Number
ASSUME SubjectAssumption ==
    /\ Claim \cap Message = {}
    /\ \A p \in {"quote", "queue"} : p \notin Claim \cup Message
ASSUME MessageAssumption == IsFiniteSet(Message)

VARIABLES
    quote,       \* its status, IsAccepted and GeneratedPolicyNumber
    conversions, \* numbers its audit trail reports, in order
    claims,      \* per claim: Status, assignee, and whether it has a ResolvedDate
    entry,       \* per message: its State
    counts,      \* ReadyCount and InFlightCount of the queue
    trail,       \* per subject: its statuses in order, for a claim its audit trail
    shown,       \* per user and subject: which of them the browser shows
    raced,       \* history, per page: clicks on what had changed meanwhile
    clicks       \* number of clicks

rows == <<quote, conversions, claims, entry, counts>>
portalVars == <<rows, trail, shown, raced, clicks>>

PortalQuoteStatus == {"Review", "Approved", "Declined", "Bound"}
Resolved == {"Denied", "Paid", "Closed"}

Subject == {"quote"} \cup Claim \cup Message

(* The pages: the queue monitor shows all messages.                        *)
Pages == {"quote", "queue"} \cup Claim
PageOf(s) == IF s \in Message THEN "queue" ELSE s

(* The transitions a claim's page offers: those of the services but for    *)
(* the one that closes an approved claim.                                  *)
AvailableTransitions == ClaimTransition \ {<<"Approved", "Closed">>}

(* What the page of user u shows of s.                                     *)
Shown(u, s) == trail[s][shown[u][s]]

TotalDepth ==
    counts.ready + counts.inFlight + Cardinality({i \in Message : entry[i] = "DeadLetter"})

PortalInit ==
    /\ \E s \in {"Review", "Approved", "Declined"} :
          quote = [status |-> s, accepted |-> s = "Approved", number |-> Unbound]
    /\ conversions = <<>>
    /\ claims \in [Claim -> [status : {"Submitted", "UnderReview", "Approved", "Paid"},
                             dated : BOOLEAN, assignee : Adjuster]]
    /\ \A c \in Claim : claims[c].dated <=> claims[c].status = "Paid"
    /\ Adjuster = {claims[c].assignee : c \in Claim}
    /\ entry = [i \in Message |-> "DeadLetter"]
    /\ counts = [ready |-> 0, inFlight |-> 0]
    /\ trail = [s \in Subject |-> IF s = "quote" THEN <<quote.status>>
                                   ELSE IF s \in Claim THEN <<claims[s].status>>
                                   ELSE <<entry[s]>>]
    /\ shown = [u \in User |-> [s \in Subject |-> 1]]
    /\ raced = [p \in Pages |-> 0]
    /\ clicks = 0

-----------------------------------------------------------------------------
(* A render batch reaches the browser: the page, opened anew or open still,*)
(* shows s as it was at some time since. (The rows of the queue monitor    *)
(* are rendered together, which is not needed here.)                       *)
Render(u, s) ==
    /\ \E k \in (shown[u][s] + 1)..Len(trail[s]) : shown' = [shown EXCEPT ![u][s] = k]
    /\ UNCHANGED <<rows, trail, raced, clicks>>

(* A click that takes s to a status, but for what the service's method     *)
(* writes: the browser goes on showing what it showed.                     *)
Click(u, s, status) ==
    /\ clicks < MaxClick
    /\ clicks' = clicks + 1
    /\ raced' = IF shown[u][s] = Len(trail[s]) THEN raced
                ELSE [raced EXCEPT ![PageOf(s)] = @ + 1]
    /\ trail' = [trail EXCEPT ![s] = Append(@, status)]
    /\ UNCHANGED shown

SetQuoteStatus(u, status) ==
    /\ Shown(u, "quote") = "Review"
    /\ Click(u, "quote", status)
    /\ quote' = [quote EXCEPT !.status = status,
                              !.accepted = status \in {"Approved", "Bound"}]
    /\ UNCHANGED <<conversions, claims, entry, counts>>

(* Mutated form of PolicyNumber: every conversion draws a number.          *)
NewNumber(drawn) == drawn

(* GeneratedPolicyNumber ??= ...                                           *)
PolicyNumber(drawn) == IF quote.number = Unbound THEN drawn ELSE quote.number

ConvertQuoteToPolicy(u, drawn) ==
    /\ Shown(u, "quote") = "Approved"
    /\ Click(u, "quote", "Bound")
    /\ quote' = [status |-> "Bound", accepted |-> TRUE, number |-> PolicyNumber(drawn)]
    /\ conversions' = Append(conversions, quote'.number)
    /\ UNCHANGED <<claims, entry, counts>>

(* Mutated form of WithStatus: only a payment dates the claim.             *)
WithStatusPaid(claim, next) ==
    [claim EXCEPT !.status = next, !.dated = @ \/ next = "Paid"]

WithStatus(claim, next) ==
    [claim EXCEPT !.status = next, !.dated = @ \/ next \in Resolved]

TransitionClaim(u, c, next) ==
    /\ <<Shown(u, c), next>> \in AvailableTransitions
    /\ Click(u, c, next)
    /\ claims' = [claims EXCEPT ![c] = WithStatus(@, next)]
    /\ UNCHANGED <<quote, conversions, entry, counts>>

(* A page offers the adjusters who had a claim when it was opened, and one *)
(* that is open from the start all there ever are (GetAdjustersAsync).     *)
AssignClaim(c, assignee) ==
    /\ clicks < MaxClick
    /\ clicks' = clicks + 1
    /\ claims' = [claims EXCEPT ![c].assignee = assignee]
    /\ UNCHANGED <<quote, conversions, entry, counts, trail, shown, raced>>

(* Mutated form of RetryQueueMessage: the message stays a dead letter.     *)
RetryCopy(u, i) ==
    /\ Shown(u, i) = "DeadLetter"
    /\ Click(u, i, "DeadLetter")
    /\ counts' = [counts EXCEPT !.ready = @ + 1]
    /\ UNCHANGED <<quote, conversions, claims, entry>>

(* RetryQueueMessageAsync and ReprocessQueueMessageAsync.                  *)
RetryQueueMessage(u, i) ==
    /\ Shown(u, i) = "DeadLetter"
    /\ Click(u, i, "Retried")
    /\ entry' = [entry EXCEPT ![i] = "Retried"]
    /\ counts' = [counts EXCEPT !.ready = @ + 1]
    /\ UNCHANGED <<quote, conversions, claims>>

ReprocessQueueMessage(u, i) ==
    /\ Shown(u, i) = "DeadLetter"
    /\ Click(u, i, "Reprocessed")
    /\ entry' = [entry EXCEPT ![i] = "Reprocessed"]
    /\ counts' = [counts EXCEPT !.inFlight = @ + 1]
    /\ UNCHANGED <<quote, conversions, claims>>

PortalNext ==
    \/ \E u \in User :
        \/ \E s \in Subject : Render(u, s)
        \/ \E status \in {"Approved", "Declined"} : SetQuoteStatus(u, status)
        \/ \E drawn \in Number : ConvertQuoteToPolicy(u, drawn)
        \/ \E c \in Claim : \E next \in ClaimStatus : TransitionClaim(u, c, next)
        \/ \E i \in Message : RetryQueueMessage(u, i) \/ ReprocessQueueMessage(u, i)
    \/ \E c \in Claim : \E assignee \in Adjuster : AssignClaim(c, assignee)

PortalSpec == PortalInit /\ [][PortalNext]_portalVars

-----------------------------------------------------------------------------
(* However many users convert the quote, approve it again or decline it,   *)
(* it keeps one policy number, the one every conversion reported, and is   *)
(* accepted exactly while approved or bound. It is converted once, and     *)
(* once more at most for every click on what anybody, the one who clicks   *)
(* included, had changed since it was rendered; without such a click it is *)
(* bound exactly if it has a number.                                       *)
QuoteIsWhole ==
    /\ quote.accepted <=> quote.status \in {"Approved", "Bound"}
    /\ \A k \in DOMAIN conversions : conversions[k] = quote.number
    /\ Len(conversions) <= 1 + raced["quote"]
    /\ raced["quote"] = 0 => (quote.number # Unbound <=> quote.status = "Bound")

(* Entries of the audit trail that no transition of the services leads to. *)
Breaks(c) == {k \in 2..Len(trail[c]) : <<trail[c][k - 1], trail[c][k]>> \notin ClaimTransition}

(* A claim that is denied, paid or closed has a date. Its audit trail      *)
(* breaks the transitions of the services at most once for every click on  *)
(* what had changed since it was rendered (the second click of a double    *)
(* click is one), and without such a click no open claim is dated.         *)
ClaimFollowsPages ==
    \A c \in Claim :
        /\ claims[c].status \in Resolved => claims[c].dated
        /\ Cardinality(Breaks(c)) <= raced[c]
        /\ raced[c] = 0 /\ claims[c].dated => claims[c].status \in Resolved

(* Retrying or reprocessing a dead letter moves it within the queue: the   *)
(* depth the monitor shows grows by exactly the clicks on a message that   *)
(* was moved already, by whomever, and that the browser still showed as a  *)
(* dead letter.                                                            *)
DepthGrowsByRaces == TotalDepth = Cardinality(Message) + raced["queue"]
=============================================================================
