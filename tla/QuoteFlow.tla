----------------------------- MODULE QuoteFlow -----------------------------
(***************************************************************************)
(* A quote from its request to its acceptance and its underwriting:        *)
(* QuoteIntake and PublicQuotes over one Quotes table. The customer may    *)
(* accept the estimate before, while or after the worker decides, and may  *)
(* be deleted at any time; the seeded quotes are never underwritten.       *)
(***************************************************************************)
EXTENDS QuoteIntake

CONSTANT Acceptance     \* requests to accept a quote

VARIABLES
    status,     \* Quotes.Status, or "none" where there is no row
    accepted,   \* quotes whose IsAccepted is set
    expired,    \* quotes whose ExpiresAt has passed
    answer,     \* per acceptance: where its request stands
    target,     \* per acceptance: the quote it asks for
    loaded      \* per acceptance: the status it loaded

acceptVars == <<status, accepted, expired, answer, target, loaded>>
flowVars == <<vars, acceptVars>>

Accept == INSTANCE PublicQuotes WITH pc <- answer

FlowInit == Init /\ Accept!Init

-----------------------------------------------------------------------------
(* A row of the Quotes table comes and goes for both sides at once.        *)

CreateQuote(q) == SaveQuote(q) /\ Accept!Insert(q, "Requested")

(* SeedData inserts quotes without a command for the worker.               *)
SeedQuote(q) ==
    /\ q \in known /\ Reply(q, "new", "201")
    /\ requested' = requested \cup {q}
    /\ \E s \in {"Requested", "Underwriting", "Approved"} : Accept!Insert(q, s)
    /\ UNCHANGED <<offer, known, commands, handed, faults, caseVars, queueVars,
                   handlerVars>>

DeleteBoth(q) == DeleteCustomer(q) /\ Accept!Delete(q)

(* Every other step is one of the intake or of an acceptance.              *)
IntakeStep ==
    \/ \E q \in Quote :
          \/ CheckCustomer(q) \/ ForeignKeyViolation(q) \/ Respond(q)
          \/ FailRequest(q) \/ PublishCommand(q)
    \/ DeclareQueue
    \/ \E h \in Handler : Receive(h) \/ Work(h) \/ LoseConnection(h) \/ Crash(h)

AcceptStep ==
    \/ \E a \in Acceptance :
          Accept!Load(a) \/ Accept!SaveAcceptance(a) \/ Accept!Fail(a) \/ Accept!Respond(a)
    \/ \E q \in Quote : Accept!Expire(q)

FlowNext ==
    \/ \E q \in Quote : CreateQuote(q) \/ SeedQuote(q) \/ DeleteBoth(q)
    \/ IntakeStep /\ UNCHANGED acceptVars
    \/ AcceptStep /\ UNCHANGED vars

FlowSpec == FlowInit /\ [][FlowNext]_flowVars

-----------------------------------------------------------------------------
(* However acceptances overlap, with each other and with underwriting, an  *)
(* acceptance and the status it brings are one: no quote is accepted and   *)
(* still requested, or approved and not accepted.                          *)
ApprovedIsAccepted == Accept!ApprovedIsAccepted

(* What the customer accepted, the worker may still decline, but only for  *)
(* limits that the public API could have checked: not for its customer,    *)
(* who is still there. And it may not make the quote cheaper than the      *)
(* estimate that was accepted, nor dearer below the first risk tier.       *)
AcceptanceHolds ==
    \A q \in accepted :
        LET estimate == CalculatePremium(offer[q].type, offer[q].coverage)
        IN /\ case[q].status = "Declined" => ~Insurable(offer[q].type, offer[q].coverage)
           /\ case[q] # Undecided =>
                 IF offer[q].coverage <= 100000 THEN case[q].premium = estimate
                 ELSE case[q].premium > estimate
=============================================================================
