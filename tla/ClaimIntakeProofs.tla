-------------------------- MODULE ClaimIntakeProofs --------------------------
(***************************************************************************)
(* Proofs about ClaimIntake, for every set of claims and handlers, every   *)
(* policy and amount, and every number of copies, faults and changes.      *)
(***************************************************************************)
EXTENDS ClaimIntake, SequenceTheorems, TLAPS

-----------------------------------------------------------------------------
(* The queue.  What each operation does to the claims that wait in it.     *)

LEMMA PublishWaits ==
    ASSUME Queue!TypeOK, NEW m \in Claim, Queue!Publish(m)
    PROVE  /\ Queue!TypeOK'
           /\ \A c \in Claim :
                Queue!Waiting(c)' <=> Queue!Waiting(c) \/ (bound /\ c = m)
<1>1. CASE bound
  <2>0. ready \in Seq(Claim) /\ ready' = Append(ready, m)
    BY <1>1 DEF Queue!Publish, Queue!TypeOK
  <2>1. /\ ready' \in Seq(Claim) /\ Len(ready') = Len(ready) + 1
        /\ ready'[Len(ready) + 1] = m
        /\ \A i \in 1 .. Len(ready) : ready'[i] = ready[i]
    BY <2>0
  <2>2. ASSUME NEW c \in Claim, Queue!Waiting(c)' PROVE Queue!Waiting(c) \/ c = m
    BY <2>0, <2>1, <2>2 DEF Queue!Waiting
  <2>3. ASSUME NEW c \in Claim, Queue!Waiting(c) PROVE Queue!Waiting(c)'
    BY <2>0, <2>1, <2>3 DEF Queue!Waiting
  <2>4. Queue!Waiting(m)'
    BY <2>0, <2>1 DEF Queue!Waiting
  <2>5. Queue!TypeOK'
    BY <1>1, <2>1 DEF Queue!Publish, Queue!TypeOK
  <2>6. QED
    BY <1>1, <2>2, <2>3, <2>4, <2>5
<1>2. CASE ~bound
  <2>1. /\ ready' = ready
        /\ dropped' = [dropped EXCEPT ![m] = @ + 1]
        /\ UNCHANGED <<bound, held, dead>>
    BY <1>2 DEF Queue!Publish
  <2>2. Queue!TypeOK'
    BY <2>1 DEF Queue!TypeOK
  <2>3. QED
    BY <1>2, <2>1, <2>2 DEF Queue!Waiting
<1>3. QED
  BY <1>1, <1>2

LEMMA DeliverWaits ==
    ASSUME Queue!TypeOK, NEW h \in Handler, NEW m \in Claim, Queue!Deliver(h, m)
    PROVE  /\ Queue!TypeOK'
           /\ Queue!Waiting(m)
           /\ \A c \in Claim : /\ Queue!Waiting(c)' => Queue!Waiting(c)
                               /\ Queue!Waiting(c) /\ c # m => Queue!Waiting(c)'
<1>1. /\ ready \in Seq(Claim) /\ ready # <<>> /\ m = ready[1]
      /\ ready' = Tail(ready)
  BY DEF Queue!Deliver, Queue!TypeOK
<1>2. /\ ready' \in Seq(Claim) /\ Len(ready') = Len(ready) - 1 /\ Len(ready) > 0
      /\ \A i \in 1 .. Len(ready) - 1 : ready'[i] = ready[i + 1]
  BY <1>1
<1>3. Queue!TypeOK'
  BY <1>2 DEF Queue!Deliver, Queue!TypeOK
<1>4. Queue!Waiting(m)
  BY <1>1, <1>2 DEF Queue!Waiting
<1>5. ASSUME NEW c \in Claim, Queue!Waiting(c)' PROVE Queue!Waiting(c)
  BY <1>1, <1>2, <1>5 DEF Queue!Waiting
<1>6. ASSUME NEW c \in Claim, Queue!Waiting(c), c # m PROVE Queue!Waiting(c)'
  <2>1. PICK i \in 1 .. Len(ready) : ready[i] = c
    BY <1>1, <1>6 DEF Queue!Waiting
  <2>2. i - 1 \in 1 .. Len(ready') /\ ready'[i - 1] = c
    BY <1>1, <1>2, <1>6, <2>1
  <2>3. QED
    BY <1>2, <2>2 DEF Queue!Waiting
<1>7. QED
  BY <1>3, <1>4, <1>5, <1>6

LEMMA TakeBackWaits ==
    ASSUME Queue!TypeOK, NEW h \in Handler, Queue!TakeBack(h)
    PROVE  /\ Queue!TypeOK'
           /\ held[h] \in Claim
           /\ \A c \in Claim :
                Queue!Waiting(c)' <=> Queue!Waiting(c) \/ c = held[h]
<1>1. held[h] \in Claim /\ ready \in Seq(Claim) /\ ready' = <<held[h]>> \o ready
  BY DEF Queue!TakeBack, Queue!TypeOK
<1>2. /\ ready' \in Seq(Claim) /\ Len(ready') = Len(ready) + 1
      /\ ready'[1] = held[h]
      /\ \A i \in 1 .. Len(ready) : ready'[i + 1] = ready[i]
  BY <1>1
<1>3. \A i \in 2 .. Len(ready) + 1 : ready'[i] = ready[i - 1]
  BY <1>1, <1>2
<1>4. Queue!TypeOK'
  BY <1>2 DEF Queue!TakeBack, Queue!TypeOK
<1>5. ASSUME NEW c \in Claim, Queue!Waiting(c)' PROVE Queue!Waiting(c) \/ c = held[h]
  BY <1>1, <1>2, <1>3, <1>5 DEF Queue!Waiting
<1>6. ASSUME NEW c \in Claim, Queue!Waiting(c) PROVE Queue!Waiting(c)'
  <2>1. PICK i \in 1 .. Len(ready) : ready[i] = c
    BY <1>1, <1>6 DEF Queue!Waiting
  <2>2. i + 1 \in 1 .. Len(ready') /\ ready'[i + 1] = c
    BY <1>1, <1>2, <2>1
  <2>3. QED
    BY <1>2, <2>2 DEF Queue!Waiting
<1>7. ASSUME NEW c \in Claim, c = held[h] PROVE Queue!Waiting(c)'
  BY <1>1, <1>2, <1>7 DEF Queue!Waiting
<1>8. QED
  BY <1>1, <1>4, <1>5, <1>6, <1>7

-----------------------------------------------------------------------------
(* The parts of the inductive invariant.                                   *)

(* Only commands that were committed travel, and a delivery stays with the *)
(* handler that works on it.                                               *)
CommandsInv ==
    /\ \A c \in Claim : request[c] \in {"new", "checked"} => c \notin commands
    /\ \A c \in Claim : Queue!Waiting(c) => c \in commands
    /\ \A h \in Handler : held[h] # None => pc[h] # "idle" /\ held[h] = cur[h]
    /\ \A h \in Handler : pc[h] # "idle" => cur[h] \in commands
    /\ processed \subseteq commands

(* What a handler remembers agrees with the database: a case it loaded is  *)
(* one that was taken in, and it acknowledges only what is processed.      *)
HandlerInv ==
    \A h \in Handler :
        /\ pc[h] = "save" => verdict[h] \in {"UnderReview", "Denied"}
        /\ pc[h] \in {"idle", "dedup"} => ~found[h]
        /\ found[h] => cur[h] \in processed
        /\ pc[h] \in {"dispatch", "ack"} => cur[h] \in processed

IInv == TypeOK /\ CommandsInv /\ HandlerInv /\ IntakeOnce /\ NothingVanishes

LEMMA InitIInv == Init => IInv
<1> SUFFICES ASSUME Init PROVE IInv
  OBVIOUS
<1>1. TypeOK
  <2>1. Queue!TypeOK
    BY DEF Init, Queue!Init, Queue!TypeOK
  <2>2. /\ caseStatus \in [Claim -> ClaimStatus \cup {"none"}]
        /\ audit \in [Claim -> Seq(ClaimStatus)]
        /\ events \in [Claim -> Seq(ClaimStatus)]
    BY DEF Init
  <2>3. QED
    BY <2>1, <2>2, BoundsAssumption DEF Init, TypeOK, RequestState, HandlerStep
<1>2. CommandsInv
  BY DEF Init, CommandsInv, Queue!Init, Queue!Waiting
<1>3. HandlerInv
  BY DEF Init, HandlerInv
<1>4. IntakeOnce
  BY DEF Init, IntakeOnce
<1>5. NothingVanishes
  BY DEF Init, NothingVanishes, Queue!Init
<1>6. QED
  BY <1>1, <1>2, <1>3, <1>4, <1>5 DEF IInv

-----------------------------------------------------------------------------
(* The public API and the policies do not touch queue, handlers and cases. *)

(* A step that changes only where a request stands, and counts a fault.    *)
LEMMA ReplyIInv ==
    ASSUME NEW c \in Claim, NEW from, NEW to \in RequestState, IInv,
           Reply(c, from, to), to \in {"new", "checked"} => from = "new",
           faults' \in 0 .. MaxFault,
           UNCHANGED <<filed, commands, handed, caseVars, queueVars,
                       handlerVars, policyVars>>
    PROVE  IInv'
<1> USE DEF IInv, caseVars, queueVars, handlerVars, policyVars
<1>1. TypeOK'
  BY DEF TypeOK, Reply, Queue!TypeOK
<1>2. CommandsInv'
  BY DEF TypeOK, CommandsInv, Reply, Queue!Waiting
<1>3. HandlerInv' /\ IntakeOnce' /\ NothingVanishes'
  BY DEF HandlerInv, IntakeOnce, NothingVanishes,
         Queue!Has, Queue!Waiting, Queue!InFlight
<1>4. QED
  BY <1>1, <1>2, <1>3

LEMMA FaultIsTyped == TypeOK /\ Fault => faults' \in 0 .. MaxFault
BY BoundsAssumption DEF TypeOK, Fault

LEMMA SaveClaimIInv ==
    ASSUME NEW c \in Claim, IInv, SaveClaim(c)
    PROVE  IInv'
<1> USE DEF IInv, caseVars, queueVars, handlerVars, policyVars
<1>1. TypeOK'
  BY DEF TypeOK, SaveClaim, Reply, RequestState, Queue!TypeOK
<1>2. CommandsInv'
  BY DEF TypeOK, CommandsInv, SaveClaim, Reply, Queue!Waiting
<1>3. HandlerInv' /\ IntakeOnce' /\ NothingVanishes'
  BY DEF HandlerInv, IntakeOnce, NothingVanishes, SaveClaim,
         Queue!Has, Queue!Waiting, Queue!InFlight
<1>4. QED
  BY <1>1, <1>2, <1>3

LEMMA RequestIInv ==
    ASSUME NEW c \in Claim, IInv, Request(c)
    PROVE  IInv'
<1>1. faults \in 0 .. MaxFault
  BY DEF IInv, TypeOK
<1>2. CASE CheckPolicy(c)
  <2>1. PICK to \in RequestState \ {"new"} : Reply(c, "new", to)
    BY <1>2 DEF CheckPolicy, SubmissionCheck, RequestState
  <2>2. QED
    BY <1>1, <1>2, <2>1, ReplyIInv DEF CheckPolicy
<1>3. CASE SaveClaim(c)
  BY <1>3, SaveClaimIInv
<1>4. CASE ForeignKeyViolation(c)
  BY <1>1, <1>4, ReplyIInv DEF ForeignKeyViolation, RequestState
<1>5. CASE AcceptClaim(c)
  BY <1>1, <1>5, ReplyIInv DEF AcceptClaim, RequestState
<1>6. CASE FailRequest(c)
  BY <1>6, FaultIsTyped, ReplyIInv DEF FailRequest, RequestState, IInv
<1>7. QED
  BY <1>2, <1>3, <1>4, <1>5, <1>6 DEF Request

LEMMA PublishCommandIInv ==
    ASSUME NEW c \in Claim, IInv, PublishCommand(c)
    PROVE  IInv'
<1> USE DEF IInv, apiVars, caseVars, handlerVars, policyVars
<1>1. Queue!TypeOK /\ Queue!Publish(c) /\ c \in commands
  BY DEF TypeOK, PublishCommand
<1>2. /\ Queue!TypeOK'
      /\ \A d \in Claim : Queue!Waiting(d)' <=> Queue!Waiting(d) \/ (bound /\ d = c)
  BY <1>1, PublishWaits
<1>3. UNCHANGED <<held, dead>>
  BY <1>1 DEF Queue!Publish
<1>4. TypeOK'
  BY <1>2 DEF TypeOK, PublishCommand
<1>5. CommandsInv'
  BY <1>1, <1>2, <1>3 DEF CommandsInv, PublishCommand
<1>6. HandlerInv' /\ IntakeOnce'
  BY DEF HandlerInv, IntakeOnce, PublishCommand
<1>7. NothingVanishes'
  <2>1. SUFFICES ASSUME NEW d \in Claim, handed'[d] > dropped'[d]
                 PROVE  d \in processed' \/ Queue!Has(d)'
    BY DEF NothingVanishes
  <2>2. Queue!Has(d) => Queue!Has(d)'
    BY <1>2, <1>3 DEF Queue!Has, Queue!InFlight
  <2>3. CASE d # c
    <3>1. handed'[d] = handed[d] /\ dropped'[d] = dropped[d]
      BY <1>1, <2>3 DEF TypeOK, PublishCommand, Queue!Publish, Queue!TypeOK
    <3>2. QED
      BY <2>1, <2>2, <3>1 DEF NothingVanishes, PublishCommand
  <2>4. CASE d = c /\ bound
    BY <1>2, <2>4 DEF Queue!Has
  <2>5. CASE d = c /\ ~bound
    <3>1. dropped' = [dropped EXCEPT ![c] = @ + 1]
      BY <1>1, <2>5 DEF Queue!Publish
    <3>2. handed[d] > dropped[d]
      BY <2>1, <2>5, <3>1 DEF TypeOK, PublishCommand, Queue!TypeOK
    <3>3. QED
      BY <2>2, <3>2 DEF NothingVanishes, PublishCommand
  <2>6. QED
    BY <2>3, <2>4, <2>5
<1>8. QED
  BY <1>4, <1>5, <1>6, <1>7

LEMMA ChangePolicyIInv ==
    ASSUME NEW c \in Claim, IInv, ChangePolicy(c)
    PROVE  IInv'
<1> USE DEF IInv, apiVars, caseVars, queueVars, handlerVars
<1>1. TypeOK'
  BY BoundsAssumption DEF TypeOK, ChangePolicy, Queue!TypeOK
<1>2. CommandsInv'
  BY DEF CommandsInv, ChangePolicy, Queue!Waiting
<1>3. HandlerInv' /\ IntakeOnce' /\ NothingVanishes'
  BY DEF HandlerInv, IntakeOnce, NothingVanishes, ChangePolicy,
         Queue!Has, Queue!Waiting, Queue!InFlight
<1>4. QED
  BY <1>1, <1>2, <1>3

LEMMA CheckCustomerIInv ==
    ASSUME NEW c \in Claim, IInv, CheckCustomer(c)
    PROVE  IInv'
<1> USE DEF IInv, apiVars, caseVars, queueVars, handlerVars
<1>1. TypeOK'
  BY DEF TypeOK, CheckCustomer, Queue!TypeOK
<1>2. CommandsInv'
  BY DEF CommandsInv, CheckCustomer, Queue!Waiting
<1>3. HandlerInv' /\ IntakeOnce' /\ NothingVanishes'
  BY DEF HandlerInv, IntakeOnce, NothingVanishes, CheckCustomer,
         Queue!Has, Queue!Waiting, Queue!InFlight
<1>4. QED
  BY <1>1, <1>2, <1>3

LEMMA DeletePolicyIInv ==
    ASSUME NEW c \in Claim, IInv, DeletePolicy(c)
    PROVE  IInv'
<1> USE DEF IInv, caseVars, queueVars, handlerVars
<1>1. TypeOK'
  BY BoundsAssumption DEF TypeOK, DeletePolicy, Queue!TypeOK
<1>2. CommandsInv'
  BY DEF CommandsInv, DeletePolicy, Queue!Waiting
<1>3. HandlerInv' /\ IntakeOnce' /\ NothingVanishes'
  BY DEF HandlerInv, IntakeOnce, NothingVanishes, DeletePolicy,
         Queue!Has, Queue!Waiting, Queue!InFlight
<1>4. QED
  BY <1>1, <1>2, <1>3

-----------------------------------------------------------------------------
(* The worker.                                                             *)

LEMMA DeclareQueueIInv ==
    ASSUME IInv, DeclareQueue
    PROVE  IInv'
<1> USE DEF IInv, apiVars, caseVars, handlerVars, policyVars, Queue!Declare
<1>1. TypeOK'
  BY DEF TypeOK, DeclareQueue, Queue!TypeOK
<1>2. CommandsInv'
  BY DEF CommandsInv, DeclareQueue, Queue!Waiting
<1>3. HandlerInv' /\ IntakeOnce' /\ NothingVanishes'
  BY DEF HandlerInv, IntakeOnce, NothingVanishes, DeclareQueue,
         Queue!Has, Queue!Waiting, Queue!InFlight
<1>4. QED
  BY <1>1, <1>2, <1>3

LEMMA ReceiveIInv ==
    ASSUME NEW h \in Handler, IInv, Receive(h)
    PROVE  IInv'
<1> USE DEF IInv, apiVars, caseVars, policyVars
<1>1. PICK m \in Claim : Queue!Deliver(h, m) /\ cur' = [cur EXCEPT ![h] = m]
  BY DEF Receive
<1>2. Queue!TypeOK /\ pc[h] = "idle" /\ pc' = [pc EXCEPT ![h] = "dedup"]
  BY DEF TypeOK, Receive, Step
<1>3. /\ Queue!TypeOK' /\ Queue!Waiting(m)
      /\ \A c \in Claim : /\ Queue!Waiting(c)' => Queue!Waiting(c)
                          /\ Queue!Waiting(c) /\ c # m => Queue!Waiting(c)'
  BY <1>1, <1>2, DeliverWaits
<1>4. held[h] = None /\ held' = [held EXCEPT ![h] = m] /\ UNCHANGED <<dead, dropped>>
  BY <1>1 DEF Queue!Deliver
<1>5. TypeOK'
  BY <1>1, <1>2, <1>3 DEF TypeOK, Receive, HandlerStep
<1>6. CommandsInv'
  BY <1>1, <1>2, <1>3, <1>4 DEF TypeOK, CommandsInv, Receive, Queue!TypeOK
<1>7. HandlerInv' /\ IntakeOnce'
  BY <1>1, <1>2 DEF TypeOK, HandlerInv, IntakeOnce, Receive
<1>8. \A c \in Claim : Queue!Has(c) => Queue!Has(c)'
  <2>1. Queue!InFlight(m)'
    BY <1>2, <1>4 DEF Queue!InFlight, Queue!TypeOK
  <2>2. ASSUME NEW c \in Claim, Queue!InFlight(c) PROVE Queue!InFlight(c)'
    BY <1>2, <1>4, <2>2, NoneAssumption DEF Queue!InFlight, Queue!TypeOK
  <2>3. QED
    BY <1>3, <1>4, <2>1, <2>2 DEF Queue!Has
<1>9. NothingVanishes'
  BY <1>4, <1>8 DEF NothingVanishes, Receive
<1>10. QED
  BY <1>5, <1>6, <1>7, <1>9

(* A step of a handler that changes nothing but its own state.             *)
LEMMA LocalIInv ==
    ASSUME NEW h \in Handler, IInv, NEW from \in HandlerStep \ {"idle"},
           NEW to \in HandlerStep \ {"idle", "dedup"}, Step(h, from, to),
           TypeOK', HandlerInv',
           UNCHANGED <<cur, handed, apiVars, caseVars, queueVars, policyVars>>
    PROVE  IInv'
<1> USE DEF IInv, apiVars, caseVars, queueVars, policyVars
<1>1. CommandsInv'
  BY DEF TypeOK, CommandsInv, Step, Queue!Waiting
<1>2. IntakeOnce' /\ NothingVanishes'
  BY DEF IntakeOnce, NothingVanishes, Queue!Has, Queue!Waiting, Queue!InFlight
<1>3. QED
  BY <1>1, <1>2

LEMMA CheckProcessedIInv ==
    ASSUME NEW h \in Handler, IInv, CheckProcessed(h)
    PROVE  IInv'
<1> USE DEF apiVars, caseVars, queueVars, policyVars
<1>1. PICK to \in {"ack", "load"} :
        /\ Step(h, "dedup", to)
        /\ to = "ack" => cur[h] \in processed
  BY DEF CheckProcessed
<1>2. TypeOK'
  BY <1>1 DEF IInv, TypeOK, CheckProcessed, Step, HandlerStep, Queue!TypeOK
<1>3. HandlerInv'
  BY <1>1 DEF IInv, TypeOK, HandlerInv, CheckProcessed, Step
<1>4. QED
  BY <1>1, <1>2, <1>3, LocalIInv DEF CheckProcessed, HandlerStep

LEMMA LoadCaseIInv ==
    ASSUME NEW h \in Handler, IInv, LoadCase(h)
    PROVE  IInv'
<1> USE DEF apiVars, caseVars, queueVars, policyVars
<1>1. TypeOK'
  BY DEF IInv, TypeOK, LoadCase, Step, HandlerStep, Queue!TypeOK
<1>2. cur[h] \in Claim
  BY DEF IInv, TypeOK, CommandsInv, LoadCase, Step
<1>3. HandlerInv'
  BY <1>2 DEF IInv, TypeOK, HandlerInv, IntakeOnce, LoadCase, Step
<1>4. QED
  BY <1>1, <1>3, LocalIInv DEF LoadCase, HandlerStep

LEMMA DetermineIInv ==
    ASSUME NEW h \in Handler, IInv, Determine(h)
    PROVE  IInv'
<1> USE DEF apiVars, caseVars, queueVars, policyVars
<1>1. DetermineStatus(policy[cur[h]], Amount) \in {"UnderReview", "Denied"}
  BY DEF DetermineStatus
<1>2. TypeOK'
  BY <1>1 DEF IInv, TypeOK, Determine, Step, HandlerStep, Queue!TypeOK
<1>3. HandlerInv'
  BY <1>1 DEF IInv, TypeOK, HandlerInv, Determine, Step
<1>4. QED
  BY <1>2, <1>3, LocalIInv DEF Determine, HandlerStep

LEMMA KeyViolationIInv ==
    ASSUME NEW h \in Handler, IInv, KeyViolation(h)
    PROVE  IInv'
<1> USE DEF apiVars, caseVars, queueVars, policyVars
<1>1. TypeOK'
  BY DEF IInv, TypeOK, KeyViolation, Step, HandlerStep, Queue!TypeOK
<1>2. HandlerInv'
  BY DEF IInv, TypeOK, HandlerInv, KeyViolation, Step
<1>3. QED
  BY <1>1, <1>2, LocalIInv DEF KeyViolation, HandlerStep

LEMMA DispatchIInv ==
    ASSUME NEW h \in Handler, IInv, Dispatch(h)
    PROVE  IInv'
<1> USE DEF apiVars, caseVars, queueVars, policyVars
<1>1. TypeOK'
  BY DEF IInv, TypeOK, Dispatch, Step, HandlerStep, Queue!TypeOK
<1>2. HandlerInv'
  BY DEF IInv, TypeOK, HandlerInv, Dispatch, Step
<1>3. QED
  BY <1>1, <1>2, LocalIInv DEF Dispatch, HandlerStep

LEMMA ThrowIInv ==
    ASSUME NEW h \in Handler, IInv, Throw(h)
    PROVE  IInv'
<1> USE DEF apiVars, caseVars, queueVars, policyVars
<1>1. PICK step \in HandlerStep \ {"idle", "nack"} : Step(h, step, "nack")
  BY DEF Throw
<1>2. faults' \in 0 .. MaxFault
  BY FaultIsTyped DEF IInv, Throw
<1>3. TypeOK'
  BY <1>1, <1>2 DEF IInv, TypeOK, Throw, Step, HandlerStep, Queue!TypeOK
<1>4. HandlerInv'
  BY <1>1 DEF IInv, TypeOK, HandlerInv, Throw, Step
<1>5. QED
  BY <1>1, <1>3, <1>4, LocalIInv DEF Throw, HandlerStep

(* A sequence of two, as SaveCase puts it together.                        *)
LEMMA PairOfSingletons ==
    ASSUME NEW a, NEW b
    PROVE  <<a>> \o <<b>> = <<a, b>>
<1> DEFINE S == {a, b}
           s == <<a>> \o <<b>>
           t == <<a, b>>
<1>1. s \in Seq(S) /\ Len(s) = 2 /\ s[1] = a /\ s[2] = b
  OBVIOUS
<1>2. t \in Seq(S) /\ Len(t) = 2 /\ t[1] = a /\ t[2] = b
  OBVIOUS
<1>3. \A i \in 1 .. 2 : i = 1 \/ i = 2
  OBVIOUS
<1> HIDE DEF S, s, t
<1>4. \A i \in 1 .. Len(s) : s[i] = t[i]
  BY <1>1, <1>2, <1>3
<1>5. s = t
  BY <1>1, <1>2, <1>4, SeqEqual
<1>6. QED
  BY <1>5 DEF s, t

(* The one step that changes cases.  The keys let it happen only for a     *)
(* claim that was not taken in, so that the case is a new one.             *)
LEMMA SaveCaseNew ==
    ASSUME NEW h \in Handler, IInv, SaveCase(h)
    PROVE  /\ cur[h] \in commands /\ cur[h] \notin processed
           /\ caseStatus[cur[h]] = "none"
           /\ verdict[h] \in {"UnderReview", "Denied"}
           /\ caseStatus' = [caseStatus EXCEPT ![cur[h]] = verdict[h]]
           /\ audit' = [audit EXCEPT ![cur[h]] = <<"Submitted", verdict[h]>>]
           /\ events' = [events EXCEPT ![cur[h]] = <<verdict[h]>>]
           /\ processed' = processed \cup {cur[h]}
<1>1. pc[h] = "save" /\ cur[h] \notin processed
  BY DEF SaveCase, Step, KeysAreFree
<1>2. cur[h] \in commands /\ cur[h] \in Claim
  BY <1>1 DEF IInv, TypeOK, CommandsInv
<1>3. verdict[h] \in {"UnderReview", "Denied"} /\ ~found[h]
  BY <1>1 DEF IInv, HandlerInv
<1>4. caseStatus[cur[h]] = "none" /\ audit[cur[h]] = <<>> /\ events[cur[h]] = <<>>
  BY <1>1, <1>2 DEF IInv, IntakeOnce
<1>5. <<>> \o <<"Submitted">> \o <<verdict[h]>> = <<"Submitted", verdict[h]>>
  BY PairOfSingletons
<1>6. Append(<<>>, verdict[h]) = <<verdict[h]>>
  BY <1>3
<1>7. QED
  BY <1>1, <1>2, <1>3, <1>4, <1>5, <1>6 DEF SaveCase

LEMMA SaveCaseIInv ==
    ASSUME NEW h \in Handler, IInv, SaveCase(h)
    PROVE  IInv'
<1> USE DEF apiVars, queueVars, policyVars
<1>1. /\ Step(h, "save", "dispatch")
      /\ UNCHANGED <<cur, found, verdict, handed, faults, apiVars, queueVars, policyVars>>
  BY DEF SaveCase
<1>2. /\ cur[h] \in commands /\ cur[h] \notin processed
      /\ verdict[h] \in {"UnderReview", "Denied"}
      /\ caseStatus' = [caseStatus EXCEPT ![cur[h]] = verdict[h]]
      /\ audit' = [audit EXCEPT ![cur[h]] = <<"Submitted", verdict[h]>>]
      /\ events' = [events EXCEPT ![cur[h]] = <<verdict[h]>>]
      /\ processed' = processed \cup {cur[h]}
  BY SaveCaseNew
<1>3. <<"Submitted", verdict[h]>> \in Seq(ClaimStatus) /\ <<verdict[h]>> \in Seq(ClaimStatus)
  BY <1>2 DEF ClaimStatus
<1>4. cur[h] \in Claim
  BY <1>2 DEF IInv, TypeOK
<1>5. TypeOK'
  <2>1. /\ caseStatus' \in [Claim -> ClaimStatus \cup {"none"}]
        /\ processed' \subseteq Claim
    BY <1>2, <1>4 DEF IInv, TypeOK, ClaimStatus
  <2>2. audit' \in [Claim -> Seq(ClaimStatus)]
    BY <1>2, <1>3 DEF IInv, TypeOK
  <2>3. events' \in [Claim -> Seq(ClaimStatus)]
    BY <1>2, <1>3 DEF IInv, TypeOK
  <2>4. pc' \in [Handler -> HandlerStep]
    BY <1>1 DEF IInv, TypeOK, Step, HandlerStep
  <2>5. QED
    BY <1>1, <2>1, <2>2, <2>3, <2>4 DEF IInv, TypeOK, Queue!TypeOK
<1>6. CommandsInv'
  BY <1>1, <1>2 DEF IInv, TypeOK, CommandsInv, Step, Queue!Waiting
<1>7. HandlerInv'
  BY <1>1, <1>2 DEF IInv, TypeOK, HandlerInv, Step
<1>8. IntakeOnce'
  <2>1. /\ processed' = processed \cup {cur[h]}
        /\ caseStatus'[cur[h]] = verdict[h]
        /\ audit'[cur[h]] = <<"Submitted", verdict[h]>>
        /\ events'[cur[h]] = <<verdict[h]>>
    BY <1>2, <1>4 DEF IInv, TypeOK, ClaimStatus
  <2>2. \A c \in Claim \ {cur[h]} : /\ caseStatus'[c] = caseStatus[c]
                                   /\ audit'[c] = audit[c]
                                   /\ events'[c] = events[c]
    BY <1>2, <1>4 DEF IInv, TypeOK
  <2>3. verdict[h] \in {"UnderReview", "Denied"}
    BY <1>2
  <2>4. QED
    BY <2>1, <2>2, <2>3 DEF IInv, IntakeOnce
<1>9. NothingVanishes'
  BY <1>1, <1>2 DEF IInv, NothingVanishes, Queue!Has, Queue!Waiting, Queue!InFlight
<1>10. QED
  BY <1>5, <1>6, <1>7, <1>8, <1>9 DEF IInv

LEMMA AcknowledgeIInv ==
    ASSUME NEW h \in Handler, IInv, Acknowledge(h)
    PROVE  IInv'
<1> USE DEF IInv, apiVars, caseVars, policyVars, Forget, Queue!Ack
<1>1. cur[h] \in processed
  BY DEF HandlerInv, Acknowledge
<1>2. TypeOK'
  BY DEF TypeOK, Acknowledge, HandlerStep, Queue!TypeOK
<1>3. CommandsInv'
  BY DEF TypeOK, CommandsInv, Acknowledge, Queue!Waiting, Queue!TypeOK
<1>4. HandlerInv' /\ IntakeOnce'
  BY DEF TypeOK, HandlerInv, IntakeOnce, Acknowledge
<1>5. ASSUME NEW c \in Claim, Queue!Has(c) PROVE c \in processed \/ Queue!Has(c)'
  <2>1. CASE Queue!InFlight(c) /\ held[h] = c
    BY <1>1, <2>1, NoneAssumption DEF CommandsInv
  <2>2. CASE Queue!InFlight(c) /\ held[h] # c
    BY <2>2 DEF Acknowledge, Queue!Has, Queue!InFlight, Queue!TypeOK, TypeOK
  <2>3. CASE Queue!Waiting(c) \/ dead[c] > 0
    BY <2>3 DEF Acknowledge, Queue!Has, Queue!Waiting
  <2>4. QED
    BY <1>5, <2>1, <2>2, <2>3 DEF Queue!Has
<1>6. NothingVanishes'
  BY <1>5 DEF NothingVanishes, Acknowledge
<1>7. QED
  BY <1>2, <1>3, <1>4, <1>6

LEMMA RejectIInv ==
    ASSUME NEW h \in Handler, IInv, Reject(h)
    PROVE  IInv'
<1> USE DEF IInv, apiVars, caseVars, policyVars, Forget, Queue!Reject
<1>1. dead' \in [Claim -> Nat]
      /\ \A c \in Claim : dead'[c] >= dead[c] /\ (held[h] = c => dead'[c] > 0)
  BY DEF TypeOK, Reject, Queue!TypeOK
<1>2. TypeOK'
  BY <1>1 DEF TypeOK, Reject, HandlerStep, Queue!TypeOK
<1>3. CommandsInv'
  BY DEF TypeOK, CommandsInv, Reject, Queue!Waiting, Queue!TypeOK
<1>4. HandlerInv' /\ IntakeOnce'
  BY DEF TypeOK, HandlerInv, IntakeOnce, Reject
<1>5. ASSUME NEW c \in Claim, Queue!Has(c) PROVE Queue!Has(c)'
  <2>1. CASE held[h] = c
    BY <1>1, <2>1 DEF Queue!Has
  <2>2. CASE Queue!InFlight(c) /\ held[h] # c
    BY <2>2 DEF Reject, Queue!Has, Queue!InFlight, Queue!TypeOK, TypeOK
  <2>3. CASE Queue!Waiting(c)
    BY <2>3 DEF Reject, Queue!Has, Queue!Waiting
  <2>4. CASE dead[c] > 0
    BY <1>1, <2>4 DEF Queue!Has, Queue!TypeOK, TypeOK
  <2>5. QED
    BY <1>5, <2>1, <2>2, <2>3, <2>4 DEF Queue!Has
<1>6. NothingVanishes'
  BY <1>5 DEF NothingVanishes, Reject
<1>7. QED
  BY <1>2, <1>3, <1>4, <1>6

(* A delivery that is taken back waits again.                              *)
LEMMA TakeBackHas ==
    ASSUME NEW h \in Handler, Queue!TypeOK, Queue!TakeBack(h), NEW c \in Claim,
           Queue!Has(c)
    PROVE  Queue!Has(c)'
<1>1. \A d \in Claim : Queue!Waiting(d)' <=> Queue!Waiting(d) \/ d = held[h]
  BY TakeBackWaits
<1>2. held' = [held EXCEPT ![h] = None] /\ dead' = dead
  BY DEF Queue!TakeBack
<1>3. CASE Queue!Waiting(c) \/ held[h] = c
  BY <1>1, <1>3 DEF Queue!Has
<1>4. CASE Queue!InFlight(c) /\ held[h] # c
  BY <1>2, <1>4 DEF Queue!Has, Queue!InFlight, Queue!TypeOK
<1>5. CASE dead[c] > 0
  BY <1>2, <1>5 DEF Queue!Has
<1>6. QED
  BY <1>3, <1>4, <1>5 DEF Queue!Has

LEMMA LoseConnectionIInv ==
    ASSUME NEW h \in Handler, IInv, LoseConnection(h)
    PROVE  IInv'
<1> USE DEF IInv, apiVars, caseVars, handlerVars, policyVars
<1>1. Queue!TypeOK /\ Queue!TakeBack(h)
  BY DEF TypeOK, LoseConnection
<1>2. /\ Queue!TypeOK' /\ held[h] \in Claim
      /\ \A c \in Claim : Queue!Waiting(c)' <=> Queue!Waiting(c) \/ c = held[h]
  BY <1>1, TakeBackWaits
<1>3. /\ held[h] # None /\ held' = [held EXCEPT ![h] = None]
      /\ UNCHANGED <<dead, dropped>>
  BY <1>1 DEF Queue!TakeBack
<1>4. TypeOK'
  <2>1. faults' \in 0 .. MaxFault
    BY FaultIsTyped DEF LoseConnection
  <2>2. QED
    BY <1>2, <2>1 DEF TypeOK, LoseConnection
<1>5. CommandsInv'
  <2>1. held[h] \in commands
    BY <1>3 DEF CommandsInv
  <2>2. \A c \in Claim : Queue!Waiting(c)' => c \in commands'
    BY <1>2, <2>1 DEF CommandsInv, LoseConnection
  <2>3. \A g \in Handler : held'[g] # None => pc'[g] # "idle" /\ held'[g] = cur'[g]
    BY <1>1, <1>3 DEF CommandsInv, LoseConnection, Queue!TypeOK
  <2>4. QED
    BY <2>2, <2>3 DEF CommandsInv, LoseConnection
<1>6. HandlerInv' /\ IntakeOnce'
  BY DEF HandlerInv, IntakeOnce, LoseConnection
<1>7. \A c \in Claim : Queue!Has(c) => Queue!Has(c)'
  BY <1>1, TakeBackHas
<1>8. NothingVanishes'
  BY <1>3, <1>7 DEF NothingVanishes, LoseConnection
<1>9. QED
  BY <1>4, <1>5, <1>6, <1>8

LEMMA CrashIInv ==
    ASSUME NEW h \in Handler, IInv, Crash(h)
    PROVE  IInv'
<1> USE DEF IInv, apiVars, caseVars, policyVars, Forget
<1>1. Queue!TypeOK /\ Queue!TakeBack(h)
  BY DEF TypeOK, Crash
<1>2. /\ Queue!TypeOK' /\ held[h] \in Claim
      /\ \A c \in Claim : Queue!Waiting(c)' <=> Queue!Waiting(c) \/ c = held[h]
  BY <1>1, TakeBackWaits
<1>3. /\ held[h] # None /\ held' = [held EXCEPT ![h] = None]
      /\ UNCHANGED <<dead, dropped>>
  BY <1>1 DEF Queue!TakeBack
<1>4. TypeOK'
  <2>1. faults' \in 0 .. MaxFault
    BY FaultIsTyped DEF Crash
  <2>2. QED
    BY <1>2, <2>1 DEF TypeOK, Crash, HandlerStep
<1>5. CommandsInv'
  <2>1. held[h] \in commands
    BY <1>3 DEF CommandsInv
  <2>2. \A c \in Claim : Queue!Waiting(c)' => c \in commands'
    BY <1>2, <2>1 DEF CommandsInv, Crash
  <2>3. \A g \in Handler : /\ held'[g] # None => pc'[g] # "idle" /\ held'[g] = cur'[g]
                           /\ pc'[g] # "idle" => cur'[g] \in commands'
    BY <1>1, <1>3 DEF TypeOK, CommandsInv, Crash, Queue!TypeOK
  <2>4. QED
    BY <2>2, <2>3 DEF CommandsInv, Crash
<1>6. HandlerInv' /\ IntakeOnce'
  BY DEF TypeOK, HandlerInv, IntakeOnce, Crash
<1>7. \A c \in Claim : Queue!Has(c) => Queue!Has(c)'
  BY <1>1, TakeBackHas
<1>8. NothingVanishes'
  BY <1>3, <1>7 DEF NothingVanishes, Crash
<1>9. QED
  BY <1>4, <1>5, <1>6, <1>8

LEMMA WorkIInv ==
    ASSUME NEW h \in Handler, IInv, Work(h)
    PROVE  IInv'
<1>1. CASE CheckProcessed(h)
  BY <1>1, CheckProcessedIInv
<1>2. CASE LoadCase(h)
  BY <1>2, LoadCaseIInv
<1>3. CASE Determine(h)
  BY <1>3, DetermineIInv
<1>4. CASE SaveCase(h)
  BY <1>4, SaveCaseIInv
<1>5. CASE KeyViolation(h)
  BY <1>5, KeyViolationIInv
<1>6. CASE Dispatch(h)
  BY <1>6, DispatchIInv
<1>7. CASE Throw(h)
  BY <1>7, ThrowIInv
<1>8. CASE Acknowledge(h)
  BY <1>8, AcknowledgeIInv
<1>9. CASE Reject(h)
  BY <1>9, RejectIInv
<1>10. QED
  BY <1>1, <1>2, <1>3, <1>4, <1>5, <1>6, <1>7, <1>8, <1>9 DEF Work

LEMMA NextIInv == IInv /\ [Next]_vars => IInv'
<1> SUFFICES ASSUME IInv, [Next]_vars PROVE IInv'
  OBVIOUS
<1>1. ASSUME NEW c \in Claim, Request(c) PROVE IInv'
  BY <1>1, RequestIInv
<1>2. ASSUME NEW c \in Claim, PublishCommand(c) PROVE IInv'
  BY <1>2, PublishCommandIInv
<1>3. ASSUME NEW c \in Claim, ChangePolicy(c) PROVE IInv'
  BY <1>3, ChangePolicyIInv
<1>4. ASSUME NEW c \in Claim, DeletePolicy(c) PROVE IInv'
  BY <1>4, DeletePolicyIInv
<1>5. ASSUME NEW c \in Claim, CheckCustomer(c) PROVE IInv'
  BY <1>5, CheckCustomerIInv
<1>6. CASE DeclareQueue
  BY <1>6, DeclareQueueIInv
<1>7. ASSUME NEW h \in Handler, Receive(h) PROVE IInv'
  BY <1>7, ReceiveIInv
<1>8. ASSUME NEW h \in Handler, Work(h) PROVE IInv'
  BY <1>8, WorkIInv
<1>9. ASSUME NEW h \in Handler, LoseConnection(h) PROVE IInv'
  BY <1>9, LoseConnectionIInv
<1>10. ASSUME NEW h \in Handler, Crash(h) PROVE IInv'
  BY <1>10, CrashIInv
<1>11. CASE UNCHANGED vars
  BY <1>11 DEF vars, IInv, TypeOK, CommandsInv, HandlerInv, IntakeOnce,
               NothingVanishes, Queue!TypeOK, Queue!Has, Queue!Waiting,
               Queue!InFlight
<1>12. QED
  BY <1>1, <1>2, <1>3, <1>4, <1>5, <1>6, <1>7, <1>8, <1>9, <1>10, <1>11 DEF Next

(* The inductive invariant holds in every reachable state.                 *)
LEMMA Invariance == Safety => []IInv
<1>1. Safety => Init /\ [][Next]_vars
  BY DEF Safety
<1>2. QED
  BY InitIInv, NextIInv, <1>1, PTL

-----------------------------------------------------------------------------
(* Every state is well typed: the worker commits a status it determined.   *)
THEOREM TypeCorrect == Safety => []TypeOK
<1>1. IInv => TypeOK
  BY DEF IInv
<1>2. QED
  BY Invariance, <1>1, PTL

(* However many handlers race over however many copies, and whatever       *)
(* fails, a claim is taken in at most once and in one piece.               *)
THEOREM TakenInOnce == Safety => []IntakeOnce
<1>1. IInv => IntakeOnce
  BY DEF IInv
<1>2. QED
  BY Invariance, <1>1, PTL

(* A command the queue accepted is processed, waiting, being handled or    *)
(* dead-lettered: no crash and no lost connection makes it vanish.         *)
THEOREM Conservation == Safety => []NothingVanishes
<1>1. IInv => NothingVanishes
  BY DEF IInv
<1>2. QED
  BY Invariance, <1>1, PTL

-----------------------------------------------------------------------------
(* Denials.  A claim whose request passed the checks is covered until its  *)
(* policy wavers; a command comes from such a request, and a handler that  *)
(* determined a denial did so after the policy wavered.                    *)
Passed == {"checked", "saved", "accepted", "500"}

CauseInv ==
    /\ \A c \in Claim :
          request[c] \in Passed /\ c \notin wavered => Covers(policy[c], Amount)
    /\ \A c \in commands : request[c] \in Passed
    /\ \A h \in Handler : pc[h] = "save" /\ verdict[h] = "Denied" => cur[h] \in wavered
    /\ DenialHasCause

LEMMA NoPolicyCoversNothing == ~Covers(NoPolicy, Amount)
BY DEF Covers, NoPolicy

LEMMA RequestCause ==
    ASSUME IInv, CauseInv, NEW c \in Claim, Request(c)
    PROVE  CauseInv'
<1> USE DEF caseVars, handlerVars, policyVars
<1>1. /\ UNCHANGED <<caseVars, handlerVars, policyVars>>
      /\ commands' = commands \/ (commands' = commands \cup {c} /\ request'[c] = "saved")
  BY DEF Request, CheckPolicy, SaveClaim, ForeignKeyViolation, AcceptClaim,
         FailRequest, Reply, IInv, TypeOK
<1>2. \A d \in Claim \ {c} : request'[d] = request[d]
  BY DEF Request, CheckPolicy, SaveClaim, ForeignKeyViolation, AcceptClaim,
         FailRequest, Reply, IInv, TypeOK
<1>3. CASE CheckPolicy(c)
  <2>1. request'[c] \in Passed => SubmissionCheck(policy[c], Amount) = "pass"
    BY <1>3 DEF CheckPolicy, Reply, SubmissionCheck, Passed, IInv, TypeOK
  <2>2. request'[c] \in Passed => Covers(policy[c], Amount)
    <3>1. ASSUME SubmissionCheck(policy[c], Amount) = "pass", policy[c] # NoPolicy
          PROVE  ~(Amount > policy[c].coverage) /\ policy[c].status = "Active"
      BY <3>1 DEF SubmissionCheck
    <3>2. SubmissionCheck(policy[c], Amount) = "pass" => policy[c] # NoPolicy
      BY DEF SubmissionCheck
    <3>3. policy[c] # NoPolicy => policy[c].coverage \in Nat
      BY PoliciesAssumption DEF IInv, TypeOK, PolicyRow
    <3> QED BY <2>1, <3>1, <3>2, <3>3, AmountAssumption DEF Covers
  <2>3. commands' = commands /\ c \notin commands
    BY <1>3 DEF CheckPolicy, Reply, IInv, CommandsInv
  <2> QED
    BY <1>1, <1>2, <2>2, <2>3 DEF CauseInv, DenialHasCause, IInv, TypeOK
<1>4. CASE ~CheckPolicy(c)
  <2>1. request[c] \in Passed /\ request'[c] \in Passed
    BY <1>4 DEF Request, SaveClaim, ForeignKeyViolation, AcceptClaim, FailRequest,
                Reply, Passed, IInv, TypeOK
  <2> QED
    BY <1>1, <1>2, <2>1 DEF CauseInv, DenialHasCause, IInv, TypeOK
<1> QED BY <1>3, <1>4

LEMMA PolicyCause ==
    ASSUME IInv, CauseInv, NEW c \in Claim,
           ChangePolicy(c) \/ CheckCustomer(c) \/ DeletePolicy(c)
    PROVE  CauseInv'
<1> USE DEF apiVars, caseVars, handlerVars
<1>1. UNCHANGED <<request, commands, caseVars, handlerVars>> /\ wavered \subseteq wavered'
  BY DEF ChangePolicy, CheckCustomer, DeletePolicy
<1>2. \A d \in Claim \ {c} : policy'[d] = policy[d]
  BY DEF ChangePolicy, CheckCustomer, DeletePolicy, IInv, TypeOK
<1>3. request[c] \in Passed /\ c \notin wavered' => Covers(policy'[c], Amount)
  <2>1. CASE ChangePolicy(c)
    BY <2>1 DEF ChangePolicy, Passed, IInv, TypeOK
  <2>2. CASE CheckCustomer(c)
    BY <2>2 DEF CheckCustomer, CauseInv
  <2>3. CASE DeletePolicy(c)
    BY <2>3 DEF DeletePolicy, Passed
  <2> QED BY <2>1, <2>2, <2>3
<1> QED
  BY <1>1, <1>2, <1>3 DEF CauseInv, DenialHasCause

LEMMA WorkCause ==
    ASSUME IInv, CauseInv, NEW h \in Handler, Work(h)
    PROVE  CauseInv'
<1> USE DEF apiVars, policyVars
<1>1. UNCHANGED <<apiVars, policyVars>>
  BY DEF Work, CheckProcessed, LoadCase, Determine, SaveCase, KeyViolation, Dispatch,
         Throw, Acknowledge, Reject, Forget
<1>2. CASE Determine(h)
  <2>1. cur[h] \in Claim /\ cur[h] \in commands
    BY <1>2 DEF Determine, Step, IInv, TypeOK, CommandsInv
  <2>2. verdict'[h] = "Denied" => cur[h] \in wavered
    BY <1>2, <2>1, NoPolicyCoversNothing
       DEF Determine, DetermineStatus, CauseInv, IInv, TypeOK
  <2> QED
    BY <1>1, <1>2, <2>2
       DEF Determine, Step, CauseInv, DenialHasCause, caseVars, IInv, TypeOK
<1>3. CASE SaveCase(h)
  <2>1. cur[h] \in Claim /\ pc[h] = "save"
    BY <1>3 DEF SaveCase, Step, IInv, TypeOK, CommandsInv
  <2>2. /\ caseStatus' = [caseStatus EXCEPT ![cur[h]] = verdict[h]]
        /\ pc' = [pc EXCEPT ![h] = "dispatch"]
        /\ UNCHANGED <<cur, verdict>>
    BY <1>3 DEF SaveCase, Step
  <2> QED
    BY <1>1, <2>1, <2>2 DEF CauseInv, DenialHasCause, IInv, TypeOK
<1>4. CASE ~Determine(h) /\ ~SaveCase(h)
  <2>1. /\ caseStatus' = caseStatus
        /\ pc'[h] # "save"
        /\ \A g \in Handler \ {h} :
              pc'[g] = pc[g] /\ cur'[g] = cur[g] /\ verdict'[g] = verdict[g]
    BY <1>4 DEF Work, CheckProcessed, LoadCase, KeyViolation, Dispatch, Throw,
                Acknowledge, Reject, Forget, Step, caseVars, IInv, TypeOK
  <2> QED
    BY <1>1, <2>1 DEF CauseInv, DenialHasCause
<1> QED BY <1>2, <1>3, <1>4

LEMMA DeliveryCause ==
    ASSUME IInv, CauseInv, NEW h \in Handler,
           Receive(h) \/ LoseConnection(h) \/ Crash(h)
    PROVE  CauseInv'
<1> USE DEF apiVars, caseVars, policyVars
<1>1. UNCHANGED <<apiVars, caseVars, policyVars>>
  BY DEF Receive, LoseConnection, Crash, Forget
<1>2. \A g \in Handler :
        pc'[g] = "save" => pc[g] = "save" /\ cur'[g] = cur[g] /\ verdict'[g] = verdict[g]
  <2>1. CASE Receive(h)
    BY <2>1 DEF Receive, Step, IInv, TypeOK
  <2>2. CASE LoseConnection(h)
    BY <2>2 DEF LoseConnection, handlerVars
  <2>3. CASE Crash(h)
    BY <2>3 DEF Crash, Forget, IInv, TypeOK
  <2> QED BY <2>1, <2>2, <2>3
<1> QED
  BY <1>1, <1>2 DEF CauseInv, DenialHasCause

LEMMA NextCause == IInv /\ CauseInv /\ [Next]_vars => CauseInv'
<1> SUFFICES ASSUME IInv, CauseInv, [Next]_vars PROVE CauseInv'
  OBVIOUS
<1>1. ASSUME NEW c \in Claim, PublishCommand(c) PROVE CauseInv'
  BY <1>1 DEF PublishCommand, CauseInv, DenialHasCause, apiVars, caseVars,
              handlerVars, policyVars
<1>2. CASE DeclareQueue
  BY <1>2 DEF DeclareQueue, CauseInv, DenialHasCause, apiVars, caseVars,
              handlerVars, policyVars
<1>3. CASE UNCHANGED vars
  BY <1>3 DEF vars, CauseInv, DenialHasCause
<1> QED
  BY <1>1, <1>2, <1>3, RequestCause, PolicyCause, WorkCause, DeliveryCause DEF Next

(* The worker denies no claim that the API accepted, unless the policy     *)
(* stopped covering it after it was checked, whatever happened meanwhile.  *)
THEOREM Denials == Safety => []DenialHasCause
<1>1. Init => CauseInv
  BY DEF Init, CauseInv, DenialHasCause, Passed
<1>2. CauseInv => DenialHasCause
  BY DEF CauseInv
<1>3. Safety => Init /\ [][Next]_vars
  BY DEF Safety
<1>4. QED
  BY Invariance, NextCause, <1>1, <1>2, <1>3, PTL

-----------------------------------------------------------------------------
(* Dead letters.  While nothing failed, a handler has the delivery it      *)
(* works on, a command that was handed over once has at most one copy in   *)
(* the queue and its handlers, and only racing handlers find it processed. *)
Raced(c) == handed[c] > 1 /\ \E g, h \in Handler : g # h

OneCopy(c) ==
    /\ \A i, j \in DOMAIN ready : ready[i] = c /\ ready[j] = c => i = j
    /\ Queue!Waiting(c) => ~Queue!InFlight(c)
    /\ \A g, h \in Handler : held[g] = c /\ held[h] = c => g = h

CalmInv ==
    /\ \A h \in Handler : pc[h] # "idle" => held[h] = cur[h]
    /\ \A c \in Claim : handed[c] = 0 => ~Queue!Waiting(c) /\ ~Queue!InFlight(c)
    /\ \A c \in Claim : handed[c] <= 1 => OneCopy(c)
    /\ \A h \in Handler :
          pc[h] \in {"load", "determine", "save"} /\ cur[h] \in processed => Raced(cur[h])
    /\ \A h \in Handler : pc[h] = "nack" => Raced(cur[h])
    /\ \A c \in Claim : dead[c] > 0 => Raced(c)

DeadInv == faults = 0 => CalmInv

(* A step that leaves queue and deliveries alone.                          *)
LEMMA QuietCalm ==
    ASSUME CalmInv, UNCHANGED <<handed, queueVars, cur>>,
           \A h \in Handler : pc'[h] # "idle" => held[h] = cur[h],
           \A h \in Handler :
              pc'[h] \in {"load", "determine", "save"} /\ cur[h] \in processed'
                  => Raced(cur[h]),
           \A h \in Handler : pc'[h] = "nack" => Raced(cur[h])
    PROVE  CalmInv'
<1>1. \A x : (Raced(x)' <=> Raced(x)) /\ (OneCopy(x)' <=> OneCopy(x))
              /\ (Queue!Waiting(x)' <=> Queue!Waiting(x))
              /\ (Queue!InFlight(x)' <=> Queue!InFlight(x))
  BY DEF Raced, OneCopy, queueVars, Queue!Waiting, Queue!InFlight
<1> QED
  BY <1>1 DEF CalmInv, queueVars

LEMMA PublishCalm ==
    ASSUME IInv, CalmInv, NEW c \in Claim, PublishCommand(c)
    PROVE  CalmInv'
<1> USE DEF caseVars, handlerVars
<1>1. /\ Queue!TypeOK /\ Queue!Publish(c)
      /\ handed \in [Claim -> Nat] /\ handed' = [handed EXCEPT ![c] = @ + 1]
  BY DEF IInv, TypeOK, PublishCommand
<1>2. /\ UNCHANGED <<held, dead, pc, cur, processed>>
      /\ \A d \in Claim : Queue!Waiting(d)' <=> Queue!Waiting(d) \/ (bound /\ d = c)
  BY <1>1, PublishWaits DEF Queue!Publish, PublishCommand
<1>3. \A d \in Claim : handed'[d] = IF d = c THEN handed[c] + 1 ELSE handed[d]
  BY <1>1
<1>4. \A d \in Claim : Raced(d) => Raced(d)'
  BY <1>1, <1>3 DEF Raced
<1>5. ready \in Seq(Claim)
      /\ (ready' = ready \/ (/\ Len(ready') = Len(ready) + 1 /\ ready' \in Seq(Claim)
                            /\ ready'[Len(ready) + 1] = c
                            /\ \A i \in 1 .. Len(ready) : ready'[i] = ready[i]))
  <2>1. ready \in Seq(Claim) /\ (ready' = ready \/ ready' = Append(ready, c))
    BY <1>1 DEF Queue!Publish, Queue!TypeOK
  <2> QED BY <2>1
<1>6. ASSUME NEW d \in Claim, handed'[d] <= 1 PROVE OneCopy(d)'
  <2>1. OneCopy(d) /\ (d = c => ~Queue!Waiting(d) /\ ~Queue!InFlight(d))
    BY <1>1, <1>3, <1>6 DEF CalmInv
  <2>2. ASSUME NEW i \in DOMAIN ready', NEW j \in DOMAIN ready',
               ready'[i] = d, ready'[j] = d
        PROVE  i = j
    <3>1. CASE ready' = ready
      BY <2>1, <2>2, <3>1 DEF OneCopy
    <3>2. CASE ready' # ready /\ d # c
      BY <1>5, <2>1, <2>2, <3>2 DEF OneCopy
    <3>3. CASE ready' # ready /\ d = c
      BY <1>5, <2>1, <2>2, <3>3 DEF Queue!Waiting
    <3> QED BY <3>1, <3>2, <3>3
  <2>3. Queue!Waiting(d)' => ~Queue!InFlight(d)'
    BY <1>2, <2>1 DEF OneCopy, Queue!InFlight
  <2>4. \A g, h \in Handler : held'[g] = d /\ held'[h] = d => g = h
    BY <1>2, <2>1 DEF OneCopy
  <2> QED BY <2>2, <2>3, <2>4 DEF OneCopy
<1>7. \A d \in Claim : handed'[d] = 0 => ~Queue!Waiting(d)' /\ ~Queue!InFlight(d)'
  <2>1. handed'[c] # 0
    BY <1>1
  <2> QED BY <1>2, <1>3, <2>1 DEF CalmInv, Queue!InFlight
<1>8. \A h \in Handler : pc[h] # "idle" => cur[h] \in Claim
  BY DEF IInv, TypeOK, CommandsInv
<1> QED
  BY <1>2, <1>4, <1>6, <1>7, <1>8 DEF CalmInv

LEMMA ReceiveCalm ==
    ASSUME IInv, CalmInv, NEW h \in Handler, Receive(h)
    PROVE  CalmInv'
<1> USE DEF caseVars
<1>1. PICK m \in Claim : Queue!Deliver(h, m) /\ cur' = [cur EXCEPT ![h] = m]
  BY DEF Receive
<1>2. /\ Queue!TypeOK /\ pc[h] = "idle" /\ pc' = [pc EXCEPT ![h] = "dedup"]
      /\ pc \in [Handler -> HandlerStep] /\ cur \in [Handler -> Claim \cup {None}]
  BY DEF IInv, TypeOK, Receive, Step
<1>3. /\ held[h] = None /\ held' = [held EXCEPT ![h] = m]
      /\ held \in [Handler -> Claim \cup {None}]
      /\ UNCHANGED <<dead, dropped, handed, processed>>
  BY <1>1, <1>2 DEF Queue!Deliver, Queue!TypeOK, Receive
<1>4. /\ Queue!Waiting(m)
      /\ \A c \in Claim : Queue!Waiting(c)' => Queue!Waiting(c)
  BY <1>1, <1>2, DeliverWaits
<1>5. /\ ready \in Seq(Claim) /\ ready' \in Seq(Claim) /\ m = ready[1]
      /\ Len(ready) > 0 /\ Len(ready') = Len(ready) - 1
      /\ \A i \in 1 .. Len(ready) - 1 : ready'[i] = ready[i + 1]
  <2>1. ready \in Seq(Claim) /\ ready # <<>> /\ m = ready[1] /\ ready' = Tail(ready)
    BY <1>1, <1>2 DEF Queue!Deliver, Queue!TypeOK
  <2> QED BY <2>1
<1>6. ASSUME NEW c \in Claim, handed[c] <= 1 PROVE OneCopy(c)'
  <2>1. OneCopy(c)
    BY <1>6 DEF CalmInv
  <2>2. ASSUME NEW i \in DOMAIN ready', NEW j \in DOMAIN ready',
               ready'[i] = c, ready'[j] = c
        PROVE  i = j
    <3>1. /\ i \in Nat /\ j \in Nat
          /\ i + 1 \in DOMAIN ready /\ ready[i + 1] = c
          /\ j + 1 \in DOMAIN ready /\ ready[j + 1] = c
      BY <1>5, <2>2
    <3>2. i + 1 = j + 1
      BY <2>1, <3>1 DEF OneCopy
    <3> QED BY <3>1, <3>2
  <2>3. c = m => ~Queue!Waiting(c)'
    <3>1. SUFFICES ASSUME c = m, NEW i \in DOMAIN ready', ready'[i] = c PROVE FALSE
      BY DEF Queue!Waiting
    <3>2. i + 1 \in DOMAIN ready /\ ready[i + 1] = c /\ 1 \in DOMAIN ready
          /\ ready[1] = c /\ i + 1 # 1
      BY <1>5, <3>1
    <3> QED BY <2>1, <3>2 DEF OneCopy
  <2>4. Queue!InFlight(c)' => Queue!InFlight(c) \/ c = m
    BY <1>3 DEF Queue!InFlight
  <2>5. Queue!Waiting(c)' => ~Queue!InFlight(c)'
    BY <1>4, <2>1, <2>3, <2>4 DEF OneCopy
  <2>6. c = m => ~Queue!InFlight(c)
    BY <1>4, <2>1 DEF OneCopy
  <2>7. \A f, g \in Handler : held'[f] = c /\ held'[g] = c => f = g
    BY <1>3, <2>1, <2>6 DEF OneCopy, Queue!InFlight
  <2> QED BY <2>2, <2>5, <2>7 DEF OneCopy
<1>7. \A c \in Claim : handed[c] = 0 => ~Queue!Waiting(c)' /\ ~Queue!InFlight(c)'
  <2>1. handed[m] # 0
    BY <1>4 DEF CalmInv
  <2>2. \A c \in Claim : Queue!InFlight(c)' => Queue!InFlight(c) \/ c = m
    BY <1>3 DEF Queue!InFlight
  <2> QED BY <1>4, <2>1, <2>2 DEF CalmInv
<1>8. \A x : Raced(x)' <=> Raced(x)
  BY <1>3 DEF Raced
<1> QED
  BY <1>1, <1>2, <1>3, <1>6, <1>7, <1>8 DEF CalmInv

(* The end of a delivery, acknowledged or rejected.                        *)
LEMMA EndCalm ==
    ASSUME IInv, CalmInv, NEW h \in Handler, Forget(h),
           held' = [held EXCEPT ![h] = None], UNCHANGED <<ready, caseVars>>,
           \A c \in Claim : dead'[c] > 0 => Raced(c)
    PROVE  CalmInv'
<1> USE DEF caseVars, Forget
<1>1. /\ pc \in [Handler -> HandlerStep] /\ cur \in [Handler -> Claim \cup {None}]
      /\ held \in [Handler -> Claim \cup {None}]
  BY DEF IInv, TypeOK, Queue!TypeOK
<1>2. \A x : Raced(x)' <=> Raced(x)
  BY DEF Raced
<1>3. \A c \in Claim : /\ Queue!Waiting(c)' <=> Queue!Waiting(c)
                       /\ Queue!InFlight(c)' => Queue!InFlight(c)
  BY <1>1, NoneAssumption DEF Queue!Waiting, Queue!InFlight
<1>4. \A c \in Claim : OneCopy(c) => OneCopy(c)'
  BY <1>1, <1>3, NoneAssumption DEF OneCopy
<1> QED
  BY <1>1, <1>2, <1>3, <1>4 DEF CalmInv

LEMMA WorkCalm ==
    ASSUME IInv, CalmInv, NEW h \in Handler, Work(h), faults' = faults, faults = 0
    PROVE  CalmInv'
<1> USE DEF apiVars, policyVars
<1>1. pc \in [Handler -> HandlerStep] /\ \A g \in Handler : pc[g] # "idle" => cur[g] \in Claim
  BY DEF IInv, TypeOK, CommandsInv
<1>2. CASE CheckProcessed(h)
  <2>1. /\ pc' = [pc EXCEPT ![h] = IF cur[h] \in processed THEN "ack" ELSE "load"]
        /\ pc[h] = "dedup" /\ UNCHANGED <<handed, queueVars, cur, processed>>
    BY <1>2 DEF CheckProcessed, Step, caseVars
  <2> QED BY <1>1, <2>1, QuietCalm DEF CalmInv
<1>3. CASE LoadCase(h) \/ Determine(h) \/ Dispatch(h)
  <2>1. /\ \E to \in {"determine", "save", "ack"} :
              /\ pc' = [pc EXCEPT ![h] = to]
              /\ to # "ack" => pc[h] \in {"load", "determine"}
        /\ pc[h] # "idle" /\ UNCHANGED <<handed, queueVars, cur, processed>>
    BY <1>3 DEF LoadCase, Determine, Dispatch, Step, caseVars
  <2> QED BY <1>1, <2>1, QuietCalm DEF CalmInv
<1>4. CASE SaveCase(h)
  <2>1. /\ pc[h] = "save" /\ pc' = [pc EXCEPT ![h] = "dispatch"]
        /\ processed' = processed \cup {cur[h]}
        /\ UNCHANGED <<handed, queueVars, cur>>
    BY <1>4 DEF SaveCase, Step
  <2>2. ASSUME NEW g \in Handler, g # h, pc[g] # "idle", cur[g] = cur[h]
        PROVE  Raced(cur[g])
    <3>1. held[g] = cur[g] /\ held[h] = cur[g] /\ cur[g] \in Claim
      BY <1>1, <2>1, <2>2 DEF CalmInv
    <3>2. ~OneCopy(cur[g])
      BY <2>2, <3>1 DEF OneCopy
    <3>3. ~(handed[cur[g]] <= 1) /\ handed[cur[g]] \in Nat
      BY <3>1, <3>2 DEF CalmInv, IInv, TypeOK
    <3> QED BY <2>2, <3>3 DEF Raced
  <2> QED BY <1>1, <2>1, <2>2, QuietCalm DEF CalmInv
<1>5. CASE KeyViolation(h)
  <2>1. /\ pc[h] = "save" /\ pc' = [pc EXCEPT ![h] = "nack"]
        /\ UNCHANGED <<handed, queueVars, cur, processed>>
    BY <1>5 DEF KeyViolation, Step, caseVars
  <2>2. cur[h] \in processed
    <3>1. cur[h] \in processed \/ caseStatus[cur[h]] # "none"
      BY <1>5 DEF KeyViolation, KeysAreFree
    <3> QED BY <1>1, <2>1, <3>1 DEF IInv, IntakeOnce
  <2> QED BY <1>1, <2>1, <2>2, QuietCalm DEF CalmInv
<1>6. CASE Throw(h)
  BY <1>6 DEF Throw, Fault
<1>7. CASE Acknowledge(h)
  BY <1>7, EndCalm DEF Acknowledge, Queue!Ack, CalmInv
<1>8. CASE Reject(h)
  <2>1. \A c \in Claim : dead'[c] > 0 => dead[c] > 0 \/ held[h] = c
    BY <1>8 DEF Reject, Queue!Reject
  <2>2. held[h] = cur[h] /\ Raced(cur[h])
    BY <1>8 DEF Reject, CalmInv
  <2> QED BY <1>8, <2>1, <2>2, EndCalm DEF Reject, Queue!Reject, CalmInv
<1> QED BY <1>2, <1>3, <1>4, <1>5, <1>6, <1>7, <1>8 DEF Work

LEMMA NextDead == IInv /\ DeadInv /\ [Next]_vars => DeadInv'
<1> SUFFICES ASSUME IInv, DeadInv, [Next]_vars, faults' = 0 PROVE CalmInv'
  BY DEF DeadInv
<1> USE DEF apiVars, caseVars, queueVars, handlerVars, policyVars
<1>1. faults \in Nat
  BY BoundsAssumption DEF IInv, TypeOK
<1>2. ASSUME UNCHANGED <<handed, queueVars, cur, pc, processed, faults>> PROVE CalmInv'
  BY <1>2, QuietCalm DEF DeadInv, CalmInv
<1>3. ASSUME NEW c \in Claim, Request(c) \/ ChangePolicy(c) \/ CheckCustomer(c) \/ DeletePolicy(c)
      PROVE  CalmInv'
  BY <1>1, <1>2, <1>3 DEF Request, CheckPolicy, SaveClaim, ForeignKeyViolation,
      AcceptClaim, FailRequest, Fault, ChangePolicy, CheckCustomer, DeletePolicy
<1>4. ASSUME NEW c \in Claim, PublishCommand(c) PROVE CalmInv'
  BY <1>4, PublishCalm DEF PublishCommand, DeadInv
<1>5. CASE DeclareQueue
  <2>1. UNCHANGED <<handed, ready, held, dead, cur, pc, processed, faults>>
    BY <1>5 DEF DeclareQueue, Queue!Declare
  <2> QED
    BY <2>1 DEF DeadInv, CalmInv, Raced, OneCopy, Queue!Waiting, Queue!InFlight
<1>6. ASSUME NEW h \in Handler, Receive(h) PROVE CalmInv'
  BY <1>6, ReceiveCalm DEF Receive, DeadInv
<1>7. ASSUME NEW h \in Handler, Work(h) PROVE CalmInv'
  <2>1. faults' = faults \/ Fault
    BY <1>7 DEF Work, CheckProcessed, LoadCase, Determine, SaveCase, KeyViolation,
        Dispatch, Throw, Acknowledge, Reject
  <2>2. faults' = faults /\ faults = 0
    BY <1>1, <2>1 DEF Fault
  <2> QED BY <1>7, <2>2, WorkCalm DEF DeadInv
<1>8. ASSUME NEW h \in Handler, LoseConnection(h) \/ Crash(h) PROVE CalmInv'
  BY <1>1, <1>8 DEF LoseConnection, Crash, Fault
<1>9. CASE UNCHANGED vars
  BY <1>2, <1>9 DEF vars
<1> QED
  BY <1>3, <1>4, <1>5, <1>6, <1>7, <1>8, <1>9 DEF Next

(* The dead-letter queue fills only after a failure, or when handlers race *)
(* over copies of a command.                                               *)
THEOREM DeadLetters == Safety => []DeadLetterHasCause
<1>1. Init => DeadInv
  BY NoneAssumption DEF Init, DeadInv, CalmInv, OneCopy, Queue!Init, Queue!Waiting,
     Queue!InFlight
<1>2. IInv /\ DeadInv => DeadLetterHasCause
  BY BoundsAssumption DEF DeadInv, CalmInv, Raced, DeadLetterHasCause, IInv, TypeOK
<1>3. Safety => Init /\ [][Next]_vars
  BY DEF Safety
<1>4. QED
  BY Invariance, NextDead, <1>1, <1>2, <1>3, PTL

-----------------------------------------------------------------------------
(* The intake implements ClaimLedger.                                      *)

LEMMA LifeMoves ==
    ASSUME IInv, [Next]_vars
    PROVE  [Ledger!Next]_lifeOf
<1>1. ASSUME UNCHANGED <<caseStatus, commands>> PROVE UNCHANGED lifeOf
  BY <1>1 DEF lifeOf
<1>2. ASSUME NEW c \in Claim, SaveClaim(c) PROVE Ledger!File(c)
  <2>1. /\ request[c] = "checked" /\ commands' = commands \cup {c}
        /\ caseStatus' = caseStatus
    BY <1>2 DEF SaveClaim, Reply, caseVars
  <2>2. c \notin commands
    BY <2>1 DEF IInv, CommandsInv
  <2>3. caseStatus[c] = "none"
    <3>1. c \notin processed
      BY <2>2 DEF IInv, CommandsInv
    <3>2. QED
      BY <3>1 DEF IInv, IntakeOnce
  <2>4. QED
    BY <2>1, <2>2, <2>3 DEF lifeOf, Ledger!File
<1>3. ASSUME NEW h \in Handler, SaveCase(h)
      PROVE  Ledger!Move(cur[h], verdict[h]) /\ cur[h] \in Claim
  <2>1. /\ cur[h] \in commands /\ caseStatus[cur[h]] = "none"
        /\ verdict[h] \in {"UnderReview", "Denied"}
        /\ caseStatus' = [caseStatus EXCEPT ![cur[h]] = verdict[h]]
    BY <1>3, SaveCaseNew
  <2>2. cur[h] \in Claim /\ commands' = commands
    BY <1>3, <2>1 DEF IInv, TypeOK, SaveCase, apiVars
  <2>3. lifeOf[cur[h]] = "Submitted"
    BY <2>1, <2>2 DEF lifeOf
  <2>4. lifeOf' = [lifeOf EXCEPT ![cur[h]] = verdict[h]]
    BY <2>1, <2>2 DEF lifeOf, IInv, TypeOK
  <2>5. QED
    BY <2>1, <2>2, <2>3, <2>4
       DEF Ledger!Move, Ledger!ValidTransition, Ledger!ClaimTransition
<1>4. ASSUME NEW c \in Claim, Request(c) PROVE SaveClaim(c) \/ UNCHANGED <<caseStatus, commands>>
  BY <1>4 DEF Request, CheckPolicy, ForeignKeyViolation, AcceptClaim, FailRequest, caseVars
<1>5. ASSUME NEW c \in Claim,
             \/ PublishCommand(c) \/ ChangePolicy(c)
             \/ CheckCustomer(c) \/ DeletePolicy(c)
      PROVE  UNCHANGED <<caseStatus, commands>>
  BY <1>5 DEF PublishCommand, ChangePolicy, CheckCustomer, DeletePolicy, apiVars, caseVars
<1>6. ASSUME NEW h \in Handler, Work(h) PROVE SaveCase(h) \/ UNCHANGED <<caseStatus, commands>>
  BY <1>6 DEF Work, CheckProcessed, LoadCase, Determine, KeyViolation, Dispatch,
              Throw, Acknowledge, Reject, Forget, apiVars, caseVars
<1>7. ASSUME NEW h \in Handler, Receive(h) \/ LoseConnection(h) \/ Crash(h)
      PROVE  UNCHANGED <<caseStatus, commands>>
  BY <1>7 DEF Receive, LoseConnection, Crash, Forget, apiVars, caseVars
<1>8. CASE DeclareQueue
  BY <1>1, <1>8 DEF DeclareQueue, apiVars, caseVars
<1>9. CASE UNCHANGED vars
  BY <1>1, <1>9 DEF vars
<1>10. \A c \in Claim, s \in {"UnderReview", "Denied"} :
         (Ledger!File(c) => Ledger!Next) /\ (Ledger!Move(c, s) => Ledger!Next)
  BY DEF Ledger!Next, Ledger!ClaimStatus
<1>11. ASSUME NEW h \in Handler, SaveCase(h) PROVE Ledger!Next
  BY <1>3, <1>10, <1>11, SaveCaseNew
<1>12. QED
  BY <1>1, <1>2, <1>4, <1>5, <1>6, <1>7, <1>8, <1>9, <1>10, <1>11 DEF Next

(* Filing and taking in are steps of the documented state machine: a claim *)
(* is filed once and moved once, from Submitted, by whichever handler.     *)
THEOREM Refinement == Safety => KeepsLedger
<1>1. Init => Ledger!Init
  BY DEF Init, Ledger!Init, lifeOf
<1>2. Safety => Init /\ [][Next]_vars
  BY DEF Safety
<1>3. QED
  BY <1>1, <1>2, Invariance, LifeMoves, PTL DEF KeepsLedger, Ledger!Spec
=============================================================================
