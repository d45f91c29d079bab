----------------------------- MODULE WorkQueue -----------------------------
(***************************************************************************)
(* A RabbitMQ queue as the workers use it: a durable queue bound to a      *)
(* topic exchange, manual acknowledgements, prefetch 1, and a dead-letter  *)
(* exchange that receives every delivery rejected without requeue.         *)
(*                                                                         *)
(* The broker is not part of the repository; this module states what the   *)
(* code relies on.  Copies of a message are told apart by nothing, and a   *)
(* copy that is taken back from a consumer goes to the front of the queue. *)
(***************************************************************************)
EXTENDS Naturals, Sequences

CONSTANTS Message, Consumer, None

VARIABLES
    bound,          \* the queue exists and is bound to its routing key
    ready,          \* messages waiting in the queue, oldest first
    held,           \* per consumer: the unacknowledged delivery, or None
    dead,           \* copies of each message in the dead-letter queue
    dropped         \* copies that matched no queue when they were published

vars == <<bound, ready, held, dead, dropped>>

TypeOK ==
    /\ bound \in BOOLEAN
    /\ ready \in Seq(Message)
    /\ held \in [Consumer -> Message \cup {None}]
    /\ dead \in [Message -> Nat]
    /\ dropped \in [Message -> Nat]

(* The durable queue may exist from an earlier start, or not yet.          *)
Init ==
    /\ bound \in BOOLEAN
    /\ ready = <<>>
    /\ held = [h \in Consumer |-> None]
    /\ dead = [m \in Message |-> 0]
    /\ dropped = [m \in Message |-> 0]

(* QueueDeclareAsync and QueueBindAsync when a worker starts.              *)
Declare ==
    /\ ~bound
    /\ bound' = TRUE
    /\ UNCHANGED <<ready, held, dead, dropped>>

(* BasicPublishAsync with mandatory = false: an unroutable message is lost *)
(* without an error.                                                       *)
Publish(m) ==
    /\ IF bound
       THEN ready' = Append(ready, m) /\ UNCHANGED dropped
       ELSE dropped' = [dropped EXCEPT ![m] = @ + 1] /\ UNCHANGED ready
    /\ UNCHANGED <<bound, held, dead>>

Deliver(h, m) ==
    /\ held[h] = None
    /\ ready # <<>>
    /\ m = Head(ready)
    /\ ready' = Tail(ready)
    /\ held' = [held EXCEPT ![h] = m]
    /\ UNCHANGED <<bound, dead, dropped>>

(* Acknowledging a delivery that was taken back has no effect.             *)
Ack(h) ==
    /\ held' = [held EXCEPT ![h] = None]
    /\ UNCHANGED <<bound, ready, dead, dropped>>

(* BasicNackAsync with requeue = false.                                    *)
Reject(h) ==
    /\ held' = [held EXCEPT ![h] = None]
    /\ dead' = [m \in Message |-> IF held[h] = m THEN dead[m] + 1 ELSE dead[m]]
    /\ UNCHANGED <<bound, ready, dropped>>

(* The consumer's connection is gone: the broker redelivers.               *)
TakeBack(h) ==
    /\ held[h] # None
    /\ ready' = <<held[h]>> \o ready
    /\ held' = [held EXCEPT ![h] = None]
    /\ UNCHANGED <<bound, dead, dropped>>

(* The broker, or a consumer it waits for, has a copy of m.                *)
Waiting(m) == \E i \in DOMAIN ready : ready[i] = m
InFlight(m) == \E h \in Consumer : held[h] = m
Has(m) == Waiting(m) \/ InFlight(m) \/ dead[m] > 0
=============================================================================
