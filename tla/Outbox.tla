------------------------------- MODULE Outbox -------------------------------
(***************************************************************************)
(* The transactional outbox: RabbitMqOutboxDispatcher.DispatchPendingAsync *)
(* and the loop of OutboxPublisherService that calls it.                   *)
(*                                                                         *)
(* The public API, the backend API and the claims and quotes workers each  *)
(* hold a copy of this class and all of them read the same OutboxMessages  *)
(* table.  Besides the background loop, every request or delivery that     *)
(* writes a row dispatches the table itself.  A "dispatcher" here is one   *)
(* such activity, and any number of them run concurrently.                 *)
(*                                                                         *)
(* The columns PublishAttempts and LastError are written by the code and   *)
(* read by none, so they are left out.                                     *)
(***************************************************************************)
EXTENDS Naturals, FiniteSets

CONSTANTS
    Message,        \* identities of outbox rows
    Dispatcher,     \* concurrent executions of DispatchPendingAsync
    BatchSize,      \* rows read per dispatch: Take(50)
    Stamp,          \* values of OccurredAtUtc
    MaxFault        \* bound on failed publishes and aborted dispatches

ASSUME BatchSizeAssumption == BatchSize \in Nat \ {0}
ASSUME StampAssumption == Stamp \subseteq Nat
ASSUME MaxFaultAssumption == MaxFault \in Nat
ASSUME DispatcherAssumption == IsFiniteSet(Dispatcher)

VARIABLES
    committed,      \* rows present in the OutboxMessages table
    occurredAt,     \* the stamp each row carries, set by its writer's clock
                    \* before the transaction that inserts it commits
    published,      \* rows whose PublishedAtUtc is not null
    pc,             \* per dispatcher: "idle" or "publishing"
    todo,           \* per dispatcher: rows of its batch not tried yet
    sent,           \* per dispatcher: rows it marked in memory
    failed,         \* per dispatcher: rows whose publish threw
    handed,         \* per row: copies handed to the broker
    seen,           \* history: rows in the table when the batch was read
    faults          \* faults so far, at most MaxFault

table == <<committed, occurredAt, published>>
local == <<pc, todo, sent, failed, seen>>
vars == <<committed, occurredAt, published, pc, todo, sent, failed,
          handed, seen, faults>>

TypeOK ==
    /\ committed \subseteq Message
    /\ occurredAt \in [Message -> Stamp]
    /\ published \subseteq committed
    /\ pc \in [Dispatcher -> {"idle", "publishing"}]
    /\ todo \in [Dispatcher -> SUBSET Message]
    /\ sent \in [Dispatcher -> SUBSET Message]
    /\ failed \in [Dispatcher -> SUBSET Message]
    /\ handed \in [Message -> Nat]
    /\ seen \in [Dispatcher -> SUBSET Message]
    /\ faults \in 0 .. MaxFault

Init ==
    /\ committed = {}
    /\ occurredAt \in [Message -> Stamp]
    /\ published = {}
    /\ pc = [d \in Dispatcher |-> "idle"]
    /\ todo = [d \in Dispatcher |-> {}]
    /\ sent = [d \in Dispatcher |-> {}]
    /\ failed = [d \in Dispatcher |-> {}]
    /\ handed = [m \in Message |-> 0]
    /\ seen = [d \in Dispatcher |-> {}]
    /\ faults = 0

-----------------------------------------------------------------------------
(* Mutated forms of Pending: the query does not filter on PublishedAtUtc;  *)
(* the query goes on from the latest stamp that was published.             *)
PendingAll == committed
PendingLater ==
    {m \in committed \ published :
        \A n \in published : occurredAt[n] <= occurredAt[m]}

(* Where(PublishedAtUtc == null)                                           *)
Pending == committed \ published

(* OrderBy(OccurredAtUtc).Take(BatchSize): the earliest rows of S, ties    *)
(* broken either way.                                                      *)
Batches(S) ==
    {B \in SUBSET S :
        /\ B = S \/ Cardinality(B) = BatchSize
        /\ Cardinality(B) <= BatchSize
        /\ \A a \in S \ B, b \in B : occurredAt[b] <= occurredAt[a]}

(* Mutated form of Earliest: the list is walked in any order.              *)
EarliestAny(S) == S

(* The rows the foreach may reach next: the list is sorted by stamp.       *)
Earliest(S) == {m \in S : \A n \in S : occurredAt[m] <= occurredAt[n]}

(* A business transaction inserts rows and commits (OutboxMessageFactory   *)
(* stamped them before: commits need not follow the order of stamps).      *)
Commit(S) ==
    /\ S # {}
    /\ S \cap committed = {}
    /\ committed' = committed \cup S
    /\ UNCHANGED <<occurredAt, published, handed, faults, local>>

(* The query.  With nothing pending the method returns, and when the       *)
(* channel cannot be created it throws: neither changes any state.         *)
Read(d) ==
    /\ pc[d] = "idle"
    /\ Pending # {}
    /\ \E B \in Batches(Pending) : todo' = [todo EXCEPT ![d] = B]
    /\ pc' = [pc EXCEPT ![d] = "publishing"]
    /\ sent' = [sent EXCEPT ![d] = {}]
    /\ failed' = [failed EXCEPT ![d] = {}]
    /\ seen' = [seen EXCEPT ![d] = committed]
    /\ UNCHANGED <<table, handed, faults>>

(* BasicPublishAsync returns: the client has handed the message over, and  *)
(* the tracked row gets its PublishedAtUtc in memory.                      *)
PublishOk(d) ==
    \E m \in Earliest(todo[d]) :
        /\ handed' = [handed EXCEPT ![m] = @ + 1]
        /\ todo' = [todo EXCEPT ![d] = @ \ {m}]
        /\ sent' = [sent EXCEPT ![d] = @ \cup {m}]
        /\ UNCHANGED <<table, pc, failed, seen, faults>>

(* BasicPublishAsync throws: the loop goes on with the next row.           *)
PublishFail(d) ==
    /\ faults < MaxFault
    /\ faults' = faults + 1
    /\ \E m \in Earliest(todo[d]) :
        /\ todo' = [todo EXCEPT ![d] = @ \ {m}]
        /\ failed' = [failed EXCEPT ![d] = @ \cup {m}]
    /\ UNCHANGED <<table, handed, pc, sent, seen>>

(* Mutated forms of Save: the rows that failed are marked too; whole rows  *)
(* are written, stale columns included.                                    *)
SaveWith(d, rows, marked) ==
    /\ pc[d] = "publishing"
    /\ todo[d] = {}
    /\ committed' = rows
    /\ published' = marked
    /\ pc' = [pc EXCEPT ![d] = "idle"]
    /\ UNCHANGED <<occurredAt, todo, sent, failed, handed, seen, faults>>
SaveWholeBatch(d) == SaveWith(d, committed, published \cup sent[d] \cup failed[d])
SaveWholeRow(d) == SaveWith(d, committed, (published \ failed[d]) \cup sent[d])

(* SaveChangesAsync after the loop: only the modified columns are written, *)
(* so a row another dispatcher published stays published.                  *)
Save(d) ==
    /\ pc[d] = "publishing"
    /\ todo[d] = {}
    /\ published' = published \cup sent[d]
    /\ pc' = [pc EXCEPT ![d] = "idle"]
    /\ UNCHANGED <<committed, occurredAt, todo, sent, failed, handed, seen,
                   faults>>

(* The dispatch ends without saving: the process stops, or the save        *)
(* throws (the loop logs it, a request turns it into an error response).   *)
Abort(d) ==
    /\ pc[d] = "publishing"
    /\ faults < MaxFault
    /\ faults' = faults + 1
    /\ pc' = [pc EXCEPT ![d] = "idle"]
    /\ todo' = [todo EXCEPT ![d] = {}]
    /\ sent' = [sent EXCEPT ![d] = {}]
    /\ UNCHANGED <<table, failed, handed, seen>>

Next ==
    \/ \E S \in SUBSET Message : Commit(S)
    \/ \E d \in Dispatcher :
        Read(d) \/ PublishOk(d) \/ PublishFail(d) \/ Save(d) \/ Abort(d)

(* OutboxPublisherService runs until it is stopped: a dispatch starts      *)
(* within two seconds of a row being pending, and goes on once started.    *)
Fairness ==
    \A d \in Dispatcher :
        /\ WF_vars(Read(d))
        /\ WF_vars(PublishOk(d) \/ PublishFail(d))
        /\ WF_vars(Save(d) \/ Abort(d))

Safety == Init /\ [][Next]_vars
Spec == Safety /\ Fairness

-----------------------------------------------------------------------------
(* A row marked as published was handed to the broker: a publish that      *)
(* threw, in any dispatcher, never ends up marked by mistake.              *)
MarkedWasHanded == \A m \in published : handed[m] > 0

(* How many duplicates the consumers can see: every dispatcher working at  *)
(* the same time may hand a row over once, and every dispatch that did not *)
(* save may be the cause of one more copy.                                 *)
DuplicateBound == \A m \in Message : handed[m] <= Cardinality(Dispatcher) + faults

(* A published row never becomes pending again, although another           *)
(* dispatcher that read it as pending may save after it was marked.        *)
PublishedForGood == [][published \subseteq published']_vars

(* Rows go out in the order of their stamps, with two exceptions: a row    *)
(* whose own publish failed, and a row that was not in the table when the  *)
(* dispatcher read its batch.                                              *)
OrderedHandover ==
    [][\A d \in Dispatcher, b \in Message :
        b \in sent'[d] \ sent[d] =>
            \A a \in seen[d] :
                occurredAt[a] < occurredAt[b] /\ handed[a] = 0
                    => a \in failed[d]]_vars

(* Every row that was committed is published eventually, whichever         *)
(* dispatcher does it.                                                     *)
EveryRowPublished ==
    \A m \in Message : m \in committed ~> m \in published

(* The dispatchers implement the promise of AtLeastOnce.                   *)
handedOnce == {m \in Message : handed[m] > 0}
Promise == INSTANCE AtLeastOnce WITH handed <- handedOnce
KeepsPromise == Promise!Spec
=============================================================================
