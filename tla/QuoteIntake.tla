---------------------------- MODULE QuoteIntake ----------------------------
(***************************************************************************)
(* From a quote request to its underwritten case:                          *)
(* QuoteService.CreateQuoteAsync of the public API, the command it leaves  *)
(* in the outbox, the intake queue, and QuotesWorker.ProcessMessageAsync.  *)
(*                                                                         *)
(* As in ClaimIntake the outbox is the one AtLeastOnce promises and        *)
(* SaveChangesAsync commits everything or throws.  The worker asks for the *)
(* customer, who may be deleted at any time.                               *)
(***************************************************************************)
EXTENDS QuoteRules, FiniteSets, Sequences

CONSTANTS
    Quote,          \* quotes to be requested, each by a customer of its own
    Handler,        \* deliveries the quotes worker handles at a time
    None,           \* no delivery
    Offers,         \* what may be asked for: records of type and coverage
    MaxCopies,      \* bound on copies of a command handed to the broker
    MaxFault        \* bound on crashes, lost connections and failed calls

ASSUME OffersAssumption == Offers \subseteq [type : PolicyType, coverage : Nat]
ASSUME NoneAssumption == None \notin Quote
ASSUME BoundsAssumption == MaxCopies \in Nat /\ MaxFault \in Nat

Undecided == [status |-> "none", premium |-> 0]

VARIABLES
    offer,          \* per quote: type and coverage
    known,          \* quotes whose customer exists
    requested,      \* Quotes: rows committed by the public API
    commands,       \* OutboxMessages: the quote-requested rows
    case,           \* PrivateQuoteCases: status and premium, or Undecided
    audit,          \* per case: the ToStatus of its audit entries, in order
    events,         \* per case: what its projection events announce
    processed,      \* ProcessedMessages of consumer worker-quotes
    request,        \* per quote: where its POST /quotes request stands
    handed,         \* per quote: copies of its command the broker was given
    bound, ready, held, dead, dropped,      \* the intake queue: WorkQueue
    pc, cur,        \* per handler: next step, quote of its delivery
    found,          \* per handler: the case it loaded was there
    decision,       \* per handler: the status and premium it evaluated
    faults          \* faults so far

queueVars == <<bound, ready, held, dead, dropped>>
apiVars == <<offer, known, requested, commands, request>>
caseVars == <<case, audit, events, processed>>
handlerVars == <<pc, cur, found, decision>>
vars == <<offer, known, requested, commands, case, audit, events, processed,
          request, handed, bound, ready, held, dead, dropped, pc, cur, found,
          decision, faults>>

Queue == INSTANCE WorkQueue WITH Message <- Quote, Consumer <- Handler

RequestState == {"new", "checked", "saved", "201", "404", "500"}
HandlerStep == {"idle", "dedup", "load", "evaluate", "save", "dispatch", "ack", "nack"}
Decision == [status : {"Approved", "Declined"}, premium : Nat]

TypeOK ==
    /\ offer \in [Quote -> Offers]
    /\ known \subseteq Quote
    /\ requested \subseteq known
    /\ commands \subseteq Quote
    /\ case \in [Quote -> Decision \cup {Undecided}]
    /\ audit \in [Quote -> Seq(QuoteStatus)]
    /\ events \in [Quote -> Seq(Decision)]
    /\ processed \subseteq commands
    /\ request \in [Quote -> RequestState]
    /\ handed \in [Quote -> Nat]
    /\ Queue!TypeOK
    /\ pc \in [Handler -> HandlerStep]
    /\ cur \in [Handler -> Quote \cup {None}]
    /\ found \in [Handler -> BOOLEAN]
    /\ decision \in [Handler -> Decision \cup {Undecided}]
    /\ faults \in 0 .. MaxFault

Init ==
    /\ offer \in [Quote -> Offers]
    /\ known \in SUBSET Quote
    /\ requested = {}
    /\ commands = {}
    /\ case = [q \in Quote |-> Undecided]
    /\ audit = [q \in Quote |-> <<>>]
    /\ events = [q \in Quote |-> <<>>]
    /\ processed = {}
    /\ request = [q \in Quote |-> "new"]
    /\ handed = [q \in Quote |-> 0]
    /\ Queue!Init
    /\ pc = [h \in Handler |-> "idle"]
    /\ cur = [h \in Handler |-> None]
    /\ found = [h \in Handler |-> FALSE]
    /\ decision = [h \in Handler |-> Undecided]
    /\ faults = 0

Fault == faults < MaxFault /\ faults' = faults + 1

-----------------------------------------------------------------------------
(* The public API.                                                         *)

Reply(q, from, to) == request[q] = from /\ request' = [request EXCEPT ![q] = to]

(* Customers.AnyAsync.                                                     *)
CheckCustomer(q) ==
    /\ Reply(q, "new", IF q \in known THEN "checked" ELSE "404")
    /\ UNCHANGED <<offer, known, requested, commands, handed, faults, caseVars,
                   queueVars, handlerVars>>

(* The quote and its command are inserted in one transaction, which the    *)
(* foreign key to the customer lets commit only while the customer exists. *)
SaveQuote(q) ==
    /\ Reply(q, "checked", "saved")
    /\ q \in known
    /\ requested' = requested \cup {q}
    /\ commands' = commands \cup {q}
    /\ UNCHANGED <<offer, known, handed, faults, caseVars, queueVars, handlerVars>>

ForeignKeyViolation(q) ==
    /\ q \notin known
    /\ Reply(q, "checked", "500")
    /\ UNCHANGED <<offer, known, requested, commands, handed, faults, caseVars,
                   queueVars, handlerVars>>

(* DispatchPendingAsync, then the customer's name: FirstAsync throws when  *)
(* the customer is gone by now.                                            *)
Respond(q) ==
    /\ Reply(q, "saved", IF q \in known THEN "201" ELSE "500")
    /\ UNCHANGED <<offer, known, requested, commands, handed, faults, caseVars,
                   queueVars, handlerVars>>

FailRequest(q) ==
    /\ Fault
    /\ Reply(q, "checked", "500") \/ Reply(q, "saved", "500")
    /\ UNCHANGED <<offer, known, requested, commands, handed, caseVars, queueVars,
                   handlerVars>>

(* DeleteCustomerAsync: the delete cascades to quotes, never to cases.     *)
DeleteCustomer(q) ==
    /\ q \in known
    /\ known' = known \ {q}
    /\ requested' = requested \ {q}
    /\ UNCHANGED <<offer, commands, request, handed, faults, caseVars, queueVars,
                   handlerVars>>

(* A dispatcher hands the command to the broker.                           *)
PublishCommand(q) ==
    /\ q \in commands
    /\ handed[q] < MaxCopies
    /\ handed' = [handed EXCEPT ![q] = @ + 1]
    /\ Queue!Publish(q)
    /\ UNCHANGED <<faults, apiVars, caseVars, handlerVars>>

-----------------------------------------------------------------------------
(* The quotes worker.                                                      *)

Step(h, from, to) == pc[h] = from /\ pc' = [pc EXCEPT ![h] = to]

DeclareQueue ==
    /\ Queue!Declare
    /\ UNCHANGED <<handed, faults, apiVars, caseVars, handlerVars>>

Receive(h) ==
    /\ Step(h, "idle", "dedup")
    /\ \E q \in Quote : Queue!Deliver(h, q) /\ cur' = [cur EXCEPT ![h] = q]
    /\ UNCHANGED <<found, decision, handed, faults, apiVars, caseVars>>

CheckProcessed(h) ==
    /\ Step(h, "dedup", IF cur[h] \in processed THEN "ack" ELSE "load")
    /\ UNCHANGED <<cur, found, decision, handed, faults, apiVars, caseVars, queueVars>>

LoadCase(h) ==
    /\ Step(h, "load", "evaluate")
    /\ found' = [found EXCEPT ![h] = case[cur[h]] # Undecided]
    /\ UNCHANGED <<cur, decision, handed, faults, apiVars, caseVars, queueVars>>

(* EvaluateUnderwritingAsync asks for the customer and decides.            *)
EvaluateUnderwriting(h) ==
    LET q == cur[h]
    IN  /\ Step(h, "evaluate", "save")
        /\ decision' = [decision EXCEPT ![h] =
               Evaluate(q \in known, offer[q].type, offer[q].coverage)]
        /\ UNCHANGED <<cur, found, handed, faults, apiVars, caseVars, queueVars>>

(* Mutated form of KeysAreFree: the database has no such keys.             *)
NoKeys(h) == cur[h] # None

(* The primary key (MessageId, ConsumerName) of ProcessedMessages and the  *)
(* unique index on PrivateQuoteCases.PublicQuoteId.                        *)
KeysAreFree(h) ==
    /\ cur[h] \notin processed
    /\ found[h] \/ case[cur[h]] = Undecided

(* SaveChangesAsync commits the case, which went through underwriting in   *)
(* memory, its audit entries, the processed message and the events.        *)
SaveCase(h) ==
    LET q == cur[h]
        created == IF found[h] THEN <<>> ELSE <<"Requested">>
    IN  /\ Step(h, "save", "dispatch")
        /\ KeysAreFree(h)
        /\ case' = [case EXCEPT ![q] = decision[h]]
        /\ audit' = [audit EXCEPT ![q] =
                        @ \o created \o <<"Underwriting", decision[h].status>>]
        /\ events' = [events EXCEPT ![q] = Append(@, decision[h])]
        /\ processed' = processed \cup {q}
        /\ UNCHANGED <<cur, found, decision, handed, faults, apiVars, queueVars>>

(* A duplicate handled concurrently committed first.                       *)
KeyViolation(h) ==
    /\ Step(h, "save", "nack")
    /\ ~KeysAreFree(h)
    /\ UNCHANGED <<cur, found, decision, handed, faults, apiVars, caseVars, queueVars>>

(* DispatchPendingAsync after the commit.                                  *)
Dispatch(h) ==
    /\ Step(h, "dispatch", "ack")
    /\ UNCHANGED <<cur, found, decision, handed, faults, apiVars, caseVars, queueVars>>

(* Any database or broker call inside the try block throws.                *)
Throw(h) ==
    /\ Fault
    /\ \E step \in HandlerStep \ {"idle", "nack"} : Step(h, step, "nack")
    /\ UNCHANGED <<cur, found, decision, handed, apiVars, caseVars, queueVars>>

Forget(h) ==
    /\ pc' = [pc EXCEPT ![h] = "idle"]
    /\ cur' = [cur EXCEPT ![h] = None]
    /\ found' = [found EXCEPT ![h] = FALSE]
    /\ decision' = [decision EXCEPT ![h] = Undecided]
    /\ UNCHANGED <<handed, apiVars, caseVars>>

Acknowledge(h) == pc[h] = "ack" /\ Queue!Ack(h) /\ Forget(h) /\ UNCHANGED faults

Reject(h) == pc[h] = "nack" /\ Queue!Reject(h) /\ Forget(h) /\ UNCHANGED faults

(* The connection is lost while the handler keeps running.                 *)
LoseConnection(h) ==
    /\ Fault
    /\ Queue!TakeBack(h)
    /\ UNCHANGED <<handed, apiVars, caseVars, handlerVars>>

(* The worker process stops with a delivery in its hands.                  *)
Crash(h) == Fault /\ Queue!TakeBack(h) /\ Forget(h)

-----------------------------------------------------------------------------
Request(q) ==
    \/ CheckCustomer(q) \/ SaveQuote(q) \/ ForeignKeyViolation(q)
    \/ Respond(q) \/ FailRequest(q)

Work(h) ==
    \/ CheckProcessed(h) \/ LoadCase(h) \/ EvaluateUnderwriting(h)
    \/ SaveCase(h) \/ KeyViolation(h) \/ Dispatch(h) \/ Throw(h)
    \/ Acknowledge(h) \/ Reject(h)

Next ==
    \/ \E q \in Quote : Request(q) \/ DeleteCustomer(q) \/ PublishCommand(q)
    \/ DeclareQueue
    \/ \E h \in Handler : Receive(h) \/ Work(h) \/ LoseConnection(h) \/ Crash(h)

Safety == Init /\ [][Next]_vars

-----------------------------------------------------------------------------
(* However often a command is delivered, and whichever handlers race, the  *)
(* quote is underwritten at most once and in one piece: the case with its  *)
(* three audit entries, one announcement of the same status and premium,   *)
(* and the processed message exist together.                               *)
UnderwrittenOnce ==
    \A q \in Quote :
        IF q \in processed
        THEN /\ audit[q] = <<"Requested", "Underwriting", case[q].status>>
             /\ events[q] = <<case[q]>>
        ELSE case[q] = Undecided /\ audit[q] = <<>> /\ events[q] = <<>>

(* A quote is declined for a reason only: its coverage or type is beyond   *)
(* the limits of automated underwriting, or its customer was deleted.      *)
DeclineHasCause ==
    \A q \in Quote :
        case[q].status = "Declined" =>
            ~Insurable(offer[q].type, offer[q].coverage) \/ q \notin known
=============================================================================
