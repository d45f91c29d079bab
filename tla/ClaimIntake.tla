---------------------------- MODULE ClaimIntake ----------------------------
(***************************************************************************)
(* From a filed claim to its private case: ClaimService.SubmitClaimAsync   *)
(* of the public API, the command it leaves in the outbox, the intake      *)
(* queue, and ClaimsWorker.ProcessMessageAsync.                            *)
(*                                                                         *)
(* The outbox is the one AtLeastOnce promises (and Outbox implements): it  *)
(* hands a committed command over at least once, perhaps more often.  A    *)
(* claim has exactly one command, so the claim names its message.          *)
(*                                                                         *)
(* SaveChangesAsync is one transaction: it either commits everything or,   *)
(* for a violated unique key or any other reason, throws.                  *)
(***************************************************************************)
EXTENDS ClaimRules, Sequences

CONSTANTS
    Claim,          \* claims to be filed, each against a policy of its own
    Handler,        \* deliveries the claims worker handles at a time: one
                    \* per instance, more while a lost connection recovers
    None,           \* no delivery
    Policies,       \* rows the policy of a claim may hold, a set of PolicyRow
    Amount,         \* the amount claimed
    MaxCopies,      \* bound on copies of a command handed to the broker
    MaxFault,       \* bound on crashes, lost connections and failed calls
    MaxPolicyChange \* bound on changes to policies

ASSUME AmountAssumption == Amount \in Nat
ASSUME PoliciesAssumption == Policies \subseteq PolicyRow
ASSUME NoneAssumption == None \notin Claim
ASSUME BoundsAssumption ==
    MaxCopies \in Nat /\ MaxFault \in Nat /\ MaxPolicyChange \in Nat

VARIABLES
    policy,         \* Policies: the row of each claim's policy, or NoPolicy
    filed,          \* Claims: claims committed by the public API
    commands,       \* OutboxMessages: the claim-submitted rows
    caseStatus,     \* PrivateClaimCases: status, or "none" without a case
    audit,          \* per case: the ToStatus of its audit entries, in order
    events,         \* per case: the statuses announced in projection events
    processed,      \* ProcessedMessages of consumer worker-claims
    request,        \* per claim: where its POST /claims request stands
    handed,         \* per claim: copies of its command the broker was given
    bound, ready, held, dead, dropped,      \* the intake queue: WorkQueue
    pc,             \* per handler: the step it is about to take
    cur,            \* per handler: the claim of its delivery
    found,          \* per handler: the case it loaded was there
    verdict,        \* per handler: the status it determined
    leaving,        \* claims whose customer is being deleted: checked, and
                    \* not yet saved
    wavered,        \* history: claims whose policy failed to cover them at
                    \* some time after the request checked it
    changes,        \* policy changes so far
    faults          \* faults so far

queueVars == <<bound, ready, held, dead, dropped>>
apiVars == <<filed, commands, request>>
caseVars == <<caseStatus, audit, events, processed>>
handlerVars == <<pc, cur, found, verdict>>
policyVars == <<policy, leaving, wavered, changes>>
vars == <<policy, filed, commands, caseStatus, audit, events, processed,
          request, handed, bound, ready, held, dead, dropped, pc, cur, found,
          verdict, leaving, wavered, changes, faults>>

Queue == INSTANCE WorkQueue WITH Message <- Claim, Consumer <- Handler

RequestState == {"new", "checked", "saved", "accepted", "404", "409", "400", "500"}
HandlerStep == {"idle", "dedup", "load", "determine", "save", "dispatch", "ack", "nack"}

TypeOK ==
    /\ policy \in [Claim -> Policies \cup {NoPolicy}]
    /\ filed \subseteq Claim
    /\ commands \subseteq Claim
    /\ caseStatus \in [Claim -> ClaimStatus \cup {"none"}]
    /\ audit \in [Claim -> Seq(ClaimStatus)]
    /\ events \in [Claim -> Seq(ClaimStatus)]
    /\ processed \subseteq Claim
    /\ request \in [Claim -> RequestState]
    /\ handed \in [Claim -> Nat]
    /\ Queue!TypeOK
    /\ pc \in [Handler -> HandlerStep]
    /\ cur \in [Handler -> Claim \cup {None}]
    /\ found \in [Handler -> BOOLEAN]
    /\ verdict \in [Handler -> {"none", "UnderReview", "Denied"}]
    /\ leaving \subseteq Claim
    /\ wavered \subseteq Claim
    /\ changes \in 0 .. MaxPolicyChange
    /\ faults \in 0 .. MaxFault

Init ==
    /\ policy \in [Claim -> Policies]
    /\ filed = {}
    /\ commands = {}
    /\ caseStatus = [c \in Claim |-> "none"]
    /\ audit = [c \in Claim |-> <<>>]
    /\ events = [c \in Claim |-> <<>>]
    /\ processed = {}
    /\ request = [c \in Claim |-> "new"]
    /\ handed = [c \in Claim |-> 0]
    /\ Queue!Init
    /\ pc = [h \in Handler |-> "idle"]
    /\ cur = [h \in Handler |-> None]
    /\ found = [h \in Handler |-> FALSE]
    /\ verdict = [h \in Handler |-> "none"]
    /\ leaving = {}
    /\ wavered = {}
    /\ changes = 0
    /\ faults = 0

Fault == faults < MaxFault /\ faults' = faults + 1

-----------------------------------------------------------------------------
(* The public API.                                                         *)

Reply(c, from, to) == request[c] = from /\ request' = [request EXCEPT ![c] = to]

(* SubmitClaimAsync reads the policy and checks it.                        *)
CheckPolicy(c) ==
    /\ Reply(c, "new",
             LET answer == SubmissionCheck(policy[c], Amount)
             IN  IF answer = "pass" THEN "checked" ELSE answer)
    /\ UNCHANGED <<filed, commands, handed, faults, caseVars, queueVars,
                   handlerVars, policyVars>>

(* The claim and its command are inserted in one transaction, which the    *)
(* foreign key to the policy lets commit only while the policy is there.   *)
SaveClaim(c) ==
    /\ Reply(c, "checked", "saved")
    /\ policy[c] # NoPolicy
    /\ filed' = filed \cup {c}
    /\ commands' = commands \cup {c}
    /\ UNCHANGED <<handed, faults, caseVars, queueVars, handlerVars, policyVars>>

ForeignKeyViolation(c) ==
    /\ policy[c] = NoPolicy
    /\ Reply(c, "checked", "500")
    /\ UNCHANGED <<filed, commands, handed, faults, caseVars, queueVars,
                   handlerVars, policyVars>>

(* DispatchPendingAsync, then the response.                                *)
AcceptClaim(c) ==
    /\ Reply(c, "saved", "accepted")
    /\ UNCHANGED <<filed, commands, handed, faults, caseVars, queueVars,
                   handlerVars, policyVars>>

(* The save or the dispatch throws, or the process stops: an error, which  *)
(* after the save does not mean that the claim was not filed.              *)
FailRequest(c) ==
    /\ Fault
    /\ Reply(c, "checked", "500") \/ Reply(c, "saved", "500")
    /\ UNCHANGED <<filed, commands, handed, caseVars, queueVars, handlerVars,
                   policyVars>>

(* A dispatcher hands the command to the broker.                           *)
PublishCommand(c) ==
    /\ c \in commands
    /\ handed[c] < MaxCopies
    /\ handed' = [handed EXCEPT ![c] = @ + 1]
    /\ Queue!Publish(c)
    /\ UNCHANGED <<faults, apiVars, caseVars, handlerVars, policyVars>>

(* PolicyService: UpdatePolicyAsync may store any status and coverage (it  *)
(* includes what activation, cancellation and renewal do).                 *)
ChangePolicy(c) ==
    /\ changes < MaxPolicyChange
    /\ changes' = changes + 1
    /\ policy[c] # NoPolicy
    /\ \E p \in Policies \ {policy[c]} :
        /\ policy' = [policy EXCEPT ![c] = p]
        /\ wavered' = IF Covers(p, Amount) \/ request[c] = "new"
                      THEN wavered ELSE wavered \cup {c}
    /\ UNCHANGED <<leaving, handed, faults, apiVars, caseVars, queueVars, handlerVars>>

(* CustomerService.DeleteCustomerAsync loads the customer's policies and   *)
(* refuses while one of them is active.                                    *)
CheckCustomer(c) ==
    /\ policy[c] # NoPolicy
    /\ policy[c].status # "Active"
    /\ leaving' = leaving \cup {c}
    /\ UNCHANGED <<policy, wavered, changes, handed, faults, apiVars, caseVars,
                   queueVars, handlerVars>>

(* The delete, whatever the policy is by now: it cascades to policies and  *)
(* their claims, never to private cases or outbox rows.                    *)
DeletePolicy(c) ==
    /\ changes < MaxPolicyChange
    /\ changes' = changes + 1
    /\ c \in leaving
    /\ leaving' = leaving \ {c}
    /\ policy' = [policy EXCEPT ![c] = NoPolicy]
    /\ filed' = filed \ {c}
    /\ wavered' = IF request[c] = "new" THEN wavered ELSE wavered \cup {c}
    /\ UNCHANGED <<commands, request, handed, faults, caseVars, queueVars,
                   handlerVars>>

-----------------------------------------------------------------------------
(* The claims worker.                                                      *)

Step(h, from, to) == pc[h] = from /\ pc' = [pc EXCEPT ![h] = to]

(* RabbitMqTopologyInitializer.StartAsync of the worker.                   *)
DeclareQueue ==
    /\ Queue!Declare
    /\ UNCHANGED <<handed, faults, apiVars, caseVars, handlerVars, policyVars>>

(* Mutated form of Receive: the consumer was registered with autoAck, so   *)
(* the broker forgets the message when it delivers it.                     *)
ReceiveAutoAck(h) ==
    /\ Step(h, "idle", "dedup")
    /\ ready # <<>>
    /\ ready' = Tail(ready)
    /\ cur' = [cur EXCEPT ![h] = Head(ready)]
    /\ UNCHANGED <<found, verdict, handed, faults, bound, held, dead, dropped,
                   apiVars, caseVars, policyVars>>

(* The broker pushes the next command to a consumer.                       *)
Receive(h) ==
    /\ Step(h, "idle", "dedup")
    /\ \E c \in Claim : Queue!Deliver(h, c) /\ cur' = [cur EXCEPT ![h] = c]
    /\ UNCHANGED <<found, verdict, handed, faults, apiVars, caseVars, policyVars>>

(* ProcessedMessages.AnyAsync: a command processed before is acknowledged. *)
CheckProcessed(h) ==
    /\ Step(h, "dedup", IF cur[h] \in processed THEN "ack" ELSE "load")
    /\ UNCHANGED <<cur, found, verdict, handed, faults, apiVars, caseVars,
                   queueVars, policyVars>>

(* PrivateClaimCases.FirstOrDefaultAsync.                                  *)
LoadCase(h) ==
    /\ Step(h, "load", "determine")
    /\ found' = [found EXCEPT ![h] = caseStatus[cur[h]] # "none"]
    /\ UNCHANGED <<cur, verdict, handed, faults, apiVars, caseVars, queueVars,
                   policyVars>>

(* Mutated form of Determine: a policy that is gone makes it throw.        *)
DetermineThrows(h) ==
    /\ Step(h, "determine", IF policy[cur[h]] = NoPolicy THEN "nack" ELSE "save")
    /\ verdict' = [verdict EXCEPT ![h] = DetermineStatus(policy[cur[h]], Amount)]
    /\ UNCHANGED <<cur, found, handed, faults, apiVars, caseVars, queueVars,
                   policyVars>>

(* DetermineStatusAsync reads the policy as it is now.                     *)
Determine(h) ==
    /\ Step(h, "determine", "save")
    /\ verdict' = [verdict EXCEPT ![h] = DetermineStatus(policy[cur[h]], Amount)]
    /\ UNCHANGED <<cur, found, handed, faults, apiVars, caseVars, queueVars,
                   policyVars>>

(* Mutated form of KeysAreFree: the database has no such keys.             *)
NoKeys(h) == cur[h] # None

(* The primary key (MessageId, ConsumerName) of ProcessedMessages and the  *)
(* unique index on PrivateClaimCases.PublicClaimId.                        *)
KeysAreFree(h) ==
    /\ cur[h] \notin processed
    /\ found[h] \/ caseStatus[cur[h]] = "none"

(* SaveChangesAsync commits the case, its audit entries, the processed     *)
(* message and the projection event in one transaction.                    *)
SaveCase(h) ==
    LET c == cur[h]
        created == IF found[h] THEN <<>> ELSE <<"Submitted">>
    IN  /\ Step(h, "save", "dispatch")
        /\ KeysAreFree(h)
        /\ caseStatus' = [caseStatus EXCEPT ![c] = verdict[h]]
        /\ audit' = [audit EXCEPT ![c] = @ \o created \o <<verdict[h]>>]
        /\ events' = [events EXCEPT ![c] = Append(@, verdict[h])]
        /\ processed' = processed \cup {c}
        /\ UNCHANGED <<cur, found, verdict, handed, faults, apiVars, queueVars,
                       policyVars>>

(* A duplicate handled concurrently committed first.                       *)
KeyViolation(h) ==
    /\ Step(h, "save", "nack")
    /\ ~KeysAreFree(h)
    /\ UNCHANGED <<cur, found, verdict, handed, faults, apiVars, caseVars,
                   queueVars, policyVars>>

(* DispatchPendingAsync after the commit.                                  *)
Dispatch(h) ==
    /\ Step(h, "dispatch", "ack")
    /\ UNCHANGED <<cur, found, verdict, handed, faults, apiVars, caseVars,
                   queueVars, policyVars>>

(* Any database or broker call inside the try block throws.                *)
Throw(h) ==
    /\ Fault
    /\ \E step \in HandlerStep \ {"idle", "nack"} : Step(h, step, "nack")
    /\ UNCHANGED <<cur, found, verdict, handed, apiVars, caseVars, queueVars,
                   policyVars>>

(* A handler forgets its delivery.                                         *)
Forget(h) ==
    /\ pc' = [pc EXCEPT ![h] = "idle"]
    /\ cur' = [cur EXCEPT ![h] = None]
    /\ found' = [found EXCEPT ![h] = FALSE]
    /\ verdict' = [verdict EXCEPT ![h] = "none"]
    /\ UNCHANGED <<handed, apiVars, policyVars>>

(* BasicAckAsync.                                                          *)
Acknowledge(h) ==
    /\ pc[h] = "ack"
    /\ Queue!Ack(h)
    /\ Forget(h)
    /\ UNCHANGED <<faults, caseVars>>

(* Mutated form of Reject: a delivery that failed is acknowledged.         *)
RejectAck(h) ==
    /\ pc[h] = "nack"
    /\ Queue!Ack(h)
    /\ Forget(h)
    /\ UNCHANGED <<faults, caseVars>>

(* BasicNackAsync without requeue, in the catch block.                     *)
Reject(h) ==
    /\ pc[h] = "nack"
    /\ Queue!Reject(h)
    /\ Forget(h)
    /\ UNCHANGED <<faults, caseVars>>

(* The connection is lost while the handler keeps running.                 *)
LoseConnection(h) ==
    /\ Fault
    /\ Queue!TakeBack(h)
    /\ UNCHANGED <<handed, apiVars, caseVars, handlerVars, policyVars>>

(* The worker process stops with a delivery in its hands.                  *)
Crash(h) ==
    /\ Fault
    /\ Queue!TakeBack(h)
    /\ Forget(h)
    /\ UNCHANGED caseVars

-----------------------------------------------------------------------------
Request(c) ==
    \/ CheckPolicy(c) \/ SaveClaim(c) \/ ForeignKeyViolation(c)
    \/ AcceptClaim(c) \/ FailRequest(c)

Work(h) ==
    \/ CheckProcessed(h) \/ LoadCase(h) \/ Determine(h)
    \/ SaveCase(h) \/ KeyViolation(h) \/ Dispatch(h) \/ Throw(h)
    \/ Acknowledge(h) \/ Reject(h)

Next ==
    \/ \E c \in Claim :
        \/ Request(c) \/ PublishCommand(c)
        \/ ChangePolicy(c) \/ CheckCustomer(c) \/ DeletePolicy(c)
    \/ DeclareQueue
    \/ \E h \in Handler :
        Receive(h) \/ Work(h) \/ LoseConnection(h) \/ Crash(h)

(* The outbox keeps its promise, the worker starts, and a handler that got *)
(* a delivery runs to its end.                                             *)
Fairness ==
    /\ WF_vars(DeclareQueue)
    /\ \A c \in Claim : WF_vars(handed[c] = 0 /\ PublishCommand(c))
    /\ \A h \in Handler : WF_vars(Receive(h)) /\ WF_vars(Work(h))

Safety == Init /\ [][Next]_vars
Spec == Safety /\ Fairness

-----------------------------------------------------------------------------
(* However often a command is delivered, and whichever handlers race, it   *)
(* is taken in at most once and in one piece: the case, its two audit      *)
(* entries, its projection event and the processed message exist together. *)
IntakeOnce ==
    \A c \in Claim :
        IF c \in processed
        THEN /\ caseStatus[c] \in {"UnderReview", "Denied"}
             /\ audit[c] = <<"Submitted", caseStatus[c]>>
             /\ events[c] = <<caseStatus[c]>>
        ELSE caseStatus[c] = "none" /\ audit[c] = <<>> /\ events[c] = <<>>

(* A command given to the broker does not vanish: until it is processed a  *)
(* copy is in the queue, with a consumer or in the dead-letter queue.  The *)
(* one exception is a command published before the queue was declared.     *)
NothingVanishes ==
    \A c \in Claim :
        handed[c] > dropped[c] => c \in processed \/ Queue!Has(c)

(* The dead-letter queue fills only for a reason: something failed, or the *)
(* command was handed over more than once and there are two handlers that  *)
(* may have had it at the same time.                                       *)
DeadLetterHasCause ==
    \A c \in Claim :
        dead[c] > 0 => faults > 0 \/ (handed[c] > 1 /\ \E g, h \in Handler : g # h)

(* The worker denies no claim that the API accepted, unless the policy     *)
(* stopped covering it in between.                                         *)
DenialHasCause == \A c \in Claim : caseStatus[c] = "Denied" => c \in wavered

(* A command in the outbox is settled eventually: processed, or put aside  *)
(* for an operator, or lost because no queue was bound.                    *)
EveryCommandSettled ==
    \A c \in Claim :
        c \in commands ~> c \in processed \/ dead[c] > 0 \/ dropped[c] > 0

(* The intake is a part of the life of a claim: it files it once and moves *)
(* it once, along the documented transitions.                              *)
lifeOf == [c \in Claim |->
              IF caseStatus[c] # "none" THEN caseStatus[c]
              ELSE IF c \in commands THEN "Submitted" ELSE "none"]
Ledger == INSTANCE ClaimLedger WITH ledger <- lifeOf
KeepsLedger == Ledger!Spec
=============================================================================
