---------------------------- MODULE AtLeastOnce ----------------------------
(***************************************************************************)
(* What the transactional outbox promises to the code that uses it.        *)
(*                                                                         *)
(* A service commits a message row in the same database transaction as the *)
(* change it announces.  From then on the row is handed to the broker at   *)
(* least once, possibly several times and in any order, and it is marked   *)
(* as published only after it was handed over.                             *)
(***************************************************************************)

CONSTANT Message    \* message identities (OutboxMessage.MessageId)

VARIABLES
    committed,      \* rows present in the OutboxMessages table
    handed,         \* rows given to the broker at least once
    published       \* rows whose PublishedAtUtc is set

vars == <<committed, handed, published>>

Init ==
    /\ committed = {}
    /\ handed = {}
    /\ published = {}

(* A business transaction inserts the rows S.                              *)
Commit(S) ==
    /\ S # {}
    /\ S \cap committed = {}
    /\ committed' = committed \cup S
    /\ UNCHANGED <<handed, published>>

(* The broker receives a copy of m.  A second copy is a stuttering step.   *)
Hand(m) ==
    /\ m \in committed
    /\ handed' = handed \cup {m}
    /\ UNCHANGED <<committed, published>>

(* Rows that were handed over are marked, never to be read again.          *)
Mark(S) ==
    /\ S \subseteq handed
    /\ published' = published \cup S
    /\ UNCHANGED <<committed, handed>>

Next ==
    \/ \E S \in SUBSET Message : Commit(S)
    \/ \E m \in Message : Hand(m)
    \/ \E S \in SUBSET Message : Mark(S)

Safety == Init /\ [][Next]_vars

(* Every committed row is handed over, and marked once it was.             *)
Fairness ==
    \A m \in Message : WF_vars(Hand(m)) /\ WF_vars(Mark({m}))

Spec == Safety /\ Fairness
=============================================================================
