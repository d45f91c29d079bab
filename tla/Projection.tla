----------------------------- MODULE Projection -----------------------------
(***************************************************************************)
(* The projections worker: ProcessClaimProjectionAsync, its twin for       *)
(* quotes, and the queue they consume.  It copies the status announced by  *)
(* the private side into the row the public API shows.                     *)
(*                                                                         *)
(* Rows are overwritten with the event that is handled, whatever its age;  *)
(* the only protection is that an event is handled once.  Events are       *)
(* handed over by the outbox (AtLeastOnce), usually in commit order.       *)
(***************************************************************************)
EXTENDS Naturals, Sequences

CONSTANTS
    Subject,        \* claims, or quotes
    Status,         \* statuses they are announced with
    Handler,        \* deliveries handled at a time
    None,           \* no delivery
    MaxEvents,      \* bound on events per subject
    MaxCopies,      \* bound on copies of an event handed to the broker
    MaxFault        \* bound on crashes, lost connections and failed calls

ASSUME BoundsAssumption ==
    MaxEvents \in Nat /\ MaxCopies \in Nat /\ MaxFault \in Nat

Event == Subject \X (1 .. MaxEvents)
Absent == [status |-> "absent", last |-> 0]

ASSUME NoneAssumption == None \notin Event
ASSUME StatusAssumption == Absent.status \notin Status

VARIABLES
    announced,      \* per subject: statuses announced, in commit order
    handed,         \* per event: copies the broker was given
    troubled,       \* history: subjects with an event handed over before
                    \* an earlier one
    overlapped,     \* history: subjects with two events handled at once
    projection,     \* per subject: status shown and the event it is from
    processed,      \* ProcessedMessages of this consumer
    applied,        \* history, per subject: events applied, in order
    bound, ready, held, dead, dropped,      \* the queue: WorkQueue
    pc, cur,        \* per handler: next step, event of its delivery
    loaded,         \* per handler: the row it loaded
    faults          \* faults so far

queueVars == <<bound, ready, held, dead, dropped>>
sourceVars == <<announced, handed, troubled>>
historyVars == <<sourceVars, overlapped>>
tableVars == <<projection, processed, applied>>
vars == <<announced, handed, troubled, overlapped, projection, processed, applied,
          bound, ready, held, dead, dropped, pc, cur, loaded, faults>>

Queue == INSTANCE WorkQueue WITH Message <- Event, Consumer <- Handler

HandlerStep == {"idle", "dedup", "load", "save", "ack", "nack"}
Row == [status : Status, last : 1 .. MaxEvents] \cup {Absent}

TypeOK ==
    /\ announced \in [Subject -> Seq(Status)]
    /\ handed \in [Event -> Nat]
    /\ troubled \subseteq Subject
    /\ overlapped \subseteq Subject
    /\ projection \in [Subject -> Row]
    /\ processed \subseteq Event
    /\ applied \in [Subject -> Seq(1 .. MaxEvents)]
    /\ Queue!TypeOK
    /\ pc \in [Handler -> HandlerStep]
    /\ cur \in [Handler -> Event \cup {None}]
    /\ loaded \in [Handler -> Row]
    /\ faults \in 0 .. MaxFault

Init ==
    /\ announced = [c \in Subject |-> <<>>]
    /\ handed = [e \in Event |-> 0]
    /\ troubled = {}
    /\ overlapped = {}
    /\ projection = [c \in Subject |-> Absent]
    /\ processed = {}
    /\ applied = [c \in Subject |-> <<>>]
    /\ Queue!Init
    /\ pc = [h \in Handler |-> "idle"]
    /\ cur = [h \in Handler |-> None]
    /\ loaded = [h \in Handler |-> Absent]
    /\ faults = 0

Fault == faults < MaxFault /\ faults' = faults + 1

-----------------------------------------------------------------------------
(* A transaction of the private side commits a status and its event.       *)
Announce(c) ==
    /\ Len(announced[c]) < MaxEvents
    /\ \E s \in Status : announced' = [announced EXCEPT ![c] = Append(@, s)]
    /\ UNCHANGED <<handed, troubled, overlapped, tableVars, queueVars, pc, cur, loaded, faults>>

(* A dispatcher hands an event over.  A later event may overtake one whose *)
(* publish failed, or that carries the stamp of a faster clock.            *)
PublishEvent(e) ==
    LET c == e[1]
    IN  /\ e[2] <= Len(announced[c])
        /\ handed[e] < MaxCopies
        /\ handed' = [handed EXCEPT ![e] = @ + 1]
        /\ troubled' = IF \E n \in 1 .. e[2] - 1 : handed[<<c, n>>] = 0
                       THEN troubled \cup {c} ELSE troubled
        /\ Queue!Publish(e)
        /\ UNCHANGED <<announced, overlapped, tableVars, pc, cur, loaded, faults>>

-----------------------------------------------------------------------------
Step(h, from, to) == pc[h] = from /\ pc' = [pc EXCEPT ![h] = to]

DeclareQueue ==
    /\ Queue!Declare
    /\ UNCHANGED <<historyVars, tableVars, pc, cur, loaded, faults>>

Busy(c) == \E h \in Handler : cur[h] # None /\ cur[h][1] = c

Receive(h) ==
    /\ Step(h, "idle", "dedup")
    /\ \E e \in Event :
          /\ Queue!Deliver(h, e)
          /\ cur' = [cur EXCEPT ![h] = e]
          /\ overlapped' = overlapped \cup {c \in {e[1]} : Busy(c)}
    /\ UNCHANGED <<sourceVars, tableVars, loaded, faults>>

CheckProcessed(h) ==
    /\ Step(h, "dedup", IF cur[h] \in processed THEN "ack" ELSE "load")
    /\ UNCHANGED <<historyVars, tableVars, queueVars, cur, loaded, faults>>

LoadRow(h) ==
    /\ Step(h, "load", "save")
    /\ loaded' = [loaded EXCEPT ![h] = projection[cur[h][1]]]
    /\ UNCHANGED <<historyVars, tableVars, queueVars, cur, faults>>

(* Mutated form of KeysAreFree: the database has no such keys.             *)
NoKeys(h) == cur[h] # None

(* The keys of ProcessedMessages and of the projection table.              *)
KeysAreFree(h) ==
    /\ cur[h] \notin processed
    /\ loaded[h] = Absent => projection[cur[h][1]] = Absent

(* Mutated form: only an inserted row gets the status.                     *)
InsertedOnly(row, was, status, n) ==
    [status |-> IF was = Absent THEN status ELSE row.status, last |-> n]

(* The row after the update: a column is written only if it differs from   *)
(* the value that was loaded.  LastMessageId always differs.               *)
Overwritten(row, was, status, n) ==
    [status |-> IF status = was.status THEN row.status ELSE status, last |-> n]

SaveWith(h, done) ==
    LET c == cur[h][1]
        n == cur[h][2]
    IN  /\ Step(h, "save", "ack")
        /\ KeysAreFree(h)
        /\ projection' = [projection EXCEPT
                             ![c] = Overwritten(@, loaded[h], announced[c][n], n)]
        /\ applied' = [applied EXCEPT ![c] = Append(@, n)]
        /\ processed' = done
        /\ UNCHANGED <<historyVars, queueVars, cur, loaded, faults>>

(* Mutated form of SaveRow: the processed message is not recorded.         *)
SaveRowOnly(h) == SaveWith(h, processed)

(* SaveChangesAsync: the row and the processed message in one transaction. *)
SaveRow(h) == SaveWith(h, processed \cup {cur[h]})

KeyViolation(h) ==
    /\ Step(h, "save", "nack")
    /\ ~KeysAreFree(h)
    /\ UNCHANGED <<historyVars, tableVars, queueVars, cur, loaded, faults>>

(* Any call inside the try block throws.                                   *)
Throw(h) ==
    /\ Fault
    /\ \E step \in HandlerStep \ {"idle", "nack"} : Step(h, step, "nack")
    /\ UNCHANGED <<historyVars, tableVars, queueVars, cur, loaded>>

Forget(h) ==
    /\ pc' = [pc EXCEPT ![h] = "idle"]
    /\ cur' = [cur EXCEPT ![h] = None]
    /\ loaded' = [loaded EXCEPT ![h] = Absent]
    /\ UNCHANGED <<historyVars, tableVars>>

(* Mutated form of Acknowledge: a handled delivery is never acknowledged.  *)
AcknowledgeNothing(h) ==
    /\ pc[h] = "ack"
    /\ Forget(h)
    /\ UNCHANGED <<queueVars, faults>>

Acknowledge(h) ==
    /\ pc[h] = "ack"
    /\ Queue!Ack(h)
    /\ Forget(h)
    /\ UNCHANGED faults

Reject(h) ==
    /\ pc[h] = "nack"
    /\ Queue!Reject(h)
    /\ Forget(h)
    /\ UNCHANGED faults

(* The connection is lost while the handler keeps running.                 *)
LoseConnection(h) ==
    /\ Fault
    /\ Queue!TakeBack(h)
    /\ UNCHANGED <<historyVars, tableVars, pc, cur, loaded>>

(* The worker process stops with a delivery in its hands.                  *)
Crash(h) ==
    /\ Fault
    /\ Queue!TakeBack(h)
    /\ Forget(h)

-----------------------------------------------------------------------------
Work(h) ==
    \/ CheckProcessed(h) \/ LoadRow(h) \/ SaveRow(h) \/ KeyViolation(h)
    \/ Throw(h) \/ Acknowledge(h) \/ Reject(h)

Next ==
    \/ \E c \in Subject : Announce(c)
    \/ \E e \in Event : PublishEvent(e)
    \/ DeclareQueue
    \/ \E h \in Handler :
        Receive(h) \/ Work(h) \/ LoseConnection(h) \/ Crash(h)

Fairness ==
    /\ WF_vars(DeclareQueue)
    /\ \A e \in Event : WF_vars(handed[e] = 0 /\ PublishEvent(e))
    /\ \A h \in Handler : WF_vars(Receive(h)) /\ WF_vars(Work(h))

Safety == Init /\ [][Next]_vars
Spec == Safety /\ Fairness

-----------------------------------------------------------------------------
(* However often an event is delivered, and whichever handlers race, it is *)
(* applied at most once: a late duplicate never brings an old status back. *)
AppliedOnce ==
    \A c \in Subject : \A i, j \in DOMAIN applied[c] :
        applied[c][i] = applied[c][j] => i = j

(* Subjects whose events met trouble on their way: one overtook another,   *)
(* two were handled at once, which takes more than the one replica that is *)
(* deployed, or a copy was dead-lettered or found no queue.                *)
Astray(c) ==
    \/ c \in troubled \cup overlapped
    \/ \E n \in 1 .. MaxEvents : dead[<<c, n>>] > 0 \/ dropped[<<c, n>>] > 0

(* Events that are handed over in commit order, handled one by one and not *)
(* lost are applied in that order, through duplicates, redeliveries and    *)
(* crashes: the status the public side shows never goes back.              *)
NeverGoesBack ==
    \A c \in Subject : ~Astray(c) =>
        \A i, j \in DOMAIN applied[c] : i < j => applied[c][i] < applied[c][j]

(* Unless two events of it were handled at once, the row is no mix of two: *)
(* the status is that of the event that LastMessageId names.               *)
RowIsWhole ==
    \A c \in Subject \ overlapped : projection[c] # Absent =>
        projection[c].status = announced[c][projection[c].last]

(* The public side catches up with the last status announced, unless the   *)
(* events of the claim went astray.                                        *)
CatchesUp ==
    \A c \in Subject :
        <>[](Astray(c) \/ projection[c].last = Len(announced[c]))
=============================================================================
