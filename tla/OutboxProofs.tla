---------------------------- MODULE OutboxProofs ----------------------------
(***************************************************************************)
(* Proofs about Outbox, for every set of rows and dispatchers, every batch *)
(* size and every number of faults.                                        *)
(***************************************************************************)
EXTENDS Outbox, FiniteSetTheorems, TLAPS

(* A dispatcher works on rows it saw in the table, and a row it marked in  *)
(* memory was handed over.                                                 *)
BatchInv ==
    \A d \in Dispatcher :
        /\ todo[d] \subseteq seen[d]
        /\ seen[d] \subseteq committed
        /\ \A m \in sent[d] : m \in committed /\ handed[m] > 0

(* A row the dispatcher saw, left out of its batch and that nobody handed  *)
(* over carries no earlier stamp than the rows still to be tried.          *)
BatchIsEarliest ==
    \A d \in Dispatcher : \A m \in todo[d], a \in seen[d] :
        a \notin todo[d] \cup sent[d] \cup failed[d] /\ handed[a] = 0
            => occurredAt[m] <= occurredAt[a]

IInv == TypeOK /\ MarkedWasHanded /\ BatchInv /\ BatchIsEarliest

LEMMA InitIInv == Init => IInv
BY MaxFaultAssumption
   DEF Init, IInv, TypeOK, MarkedWasHanded, BatchInv, BatchIsEarliest

(* Each action preserves the inductive invariant.                          *)
LEMMA CommitIInv ==
    ASSUME NEW S \in SUBSET Message, IInv, Commit(S)
    PROVE  IInv'
BY DEF Commit, IInv, TypeOK, MarkedWasHanded, BatchInv, BatchIsEarliest, local

LEMMA ReadIInv ==
    ASSUME NEW d \in Dispatcher, IInv, Read(d)
    PROVE  IInv'
<1> USE DEF IInv, TypeOK, MarkedWasHanded
<1>1. PICK B \in Batches(Pending) : todo' = [todo EXCEPT ![d] = B]
  BY DEF Read
<1>2. B \subseteq Pending /\ B \subseteq committed
  BY DEF Batches, Pending
<1>3. TypeOK' /\ MarkedWasHanded'
  BY <1>1, <1>2 DEF Read, table
<1>4. BatchInv'
  BY <1>1, <1>2 DEF Read, table, BatchInv
<1>5. BatchIsEarliest'
  <2>1. SUFFICES ASSUME NEW e \in Dispatcher, NEW m \in todo'[e], NEW a \in seen'[e],
                        a \notin todo'[e] \cup sent'[e] \cup failed'[e],
                        handed[a] = 0
                 PROVE  occurredAt[m] <= occurredAt[a]
    BY DEF BatchIsEarliest, Read, table
  <2>2. CASE e # d
    BY <1>1, <2>1, <2>2 DEF BatchIsEarliest, Read
  <2>3. CASE e = d
    <3>1. m \in B /\ a \in committed /\ a \notin B
      BY <1>1, <2>1, <2>3 DEF Read
    <3>2. a \in Pending
      BY <2>1, <3>1 DEF Pending
    <3>3. QED
      BY <3>1, <3>2 DEF Batches
  <2>4. QED
    BY <2>2, <2>3
<1>6. QED
  BY <1>3, <1>4, <1>5

LEMMA PublishOkIInv ==
    ASSUME NEW d \in Dispatcher, IInv, PublishOk(d)
    PROVE  IInv'
<1>1. PICK m \in Earliest(todo[d]) :
        /\ handed' = [handed EXCEPT ![m] = @ + 1]
        /\ todo' = [todo EXCEPT ![d] = @ \ {m}]
        /\ sent' = [sent EXCEPT ![d] = @ \cup {m}]
        /\ UNCHANGED <<table, pc, failed, seen, faults>>
  BY DEF PublishOk
<1>2. m \in todo[d] /\ m \in Message /\ m \in committed
  BY DEF Earliest, IInv, TypeOK, BatchInv
<1>3. \A n \in Message : handed'[n] \in Nat /\ handed'[n] >= handed[n]
  BY <1>1, <1>2 DEF IInv, TypeOK
<1>4. handed'[m] > 0
  BY <1>1, <1>2 DEF IInv, TypeOK
<1>5. TypeOK' /\ MarkedWasHanded'
  BY <1>1, <1>2, <1>3 DEF IInv, TypeOK, MarkedWasHanded, table
<1>6. BatchInv'
  BY <1>1, <1>2, <1>3, <1>4 DEF IInv, TypeOK, BatchInv, table
<1>7. BatchIsEarliest'
  BY <1>1, <1>2, <1>3 DEF IInv, TypeOK, BatchInv, BatchIsEarliest, table
<1>8. QED
  BY <1>5, <1>6, <1>7 DEF IInv

LEMMA PublishFailIInv ==
    ASSUME NEW d \in Dispatcher, IInv, PublishFail(d)
    PROVE  IInv'
<1>1. PICK m \in Earliest(todo[d]) :
        /\ todo' = [todo EXCEPT ![d] = @ \ {m}]
        /\ failed' = [failed EXCEPT ![d] = @ \cup {m}]
  BY DEF PublishFail
<1>2. m \in todo[d] /\ m \in Message
  BY DEF Earliest, IInv, TypeOK
<1>3. TypeOK' /\ MarkedWasHanded' /\ BatchInv'
  BY <1>1, <1>2, MaxFaultAssumption
     DEF PublishFail, IInv, TypeOK, MarkedWasHanded, BatchInv, table
<1>4. BatchIsEarliest'
  BY <1>1, <1>2 DEF PublishFail, IInv, TypeOK, BatchIsEarliest, table
<1>5. QED
  BY <1>3, <1>4 DEF IInv

LEMMA SaveIInv ==
    ASSUME NEW d \in Dispatcher, IInv, Save(d)
    PROVE  IInv'
BY DEF Save, IInv, TypeOK, MarkedWasHanded, BatchInv, BatchIsEarliest

LEMMA AbortIInv ==
    ASSUME NEW d \in Dispatcher, IInv, Abort(d)
    PROVE  IInv'
BY MaxFaultAssumption
   DEF Abort, IInv, TypeOK, MarkedWasHanded, BatchInv, BatchIsEarliest, table

LEMMA NextIInv == IInv /\ [Next]_vars => IInv'
<1> SUFFICES ASSUME IInv, [Next]_vars PROVE IInv'
  OBVIOUS
<1>1. ASSUME NEW S \in SUBSET Message, Commit(S) PROVE IInv'
  BY <1>1, CommitIInv
<1>2. ASSUME NEW d \in Dispatcher, Read(d) PROVE IInv'
  BY <1>2, ReadIInv
<1>3. ASSUME NEW d \in Dispatcher, PublishOk(d) PROVE IInv'
  BY <1>3, PublishOkIInv
<1>4. ASSUME NEW d \in Dispatcher, PublishFail(d) PROVE IInv'
  BY <1>4, PublishFailIInv
<1>5. ASSUME NEW d \in Dispatcher, Save(d) PROVE IInv'
  BY <1>5, SaveIInv
<1>6. ASSUME NEW d \in Dispatcher, Abort(d) PROVE IInv'
  BY <1>6, AbortIInv
<1>7. CASE UNCHANGED vars
  BY <1>7 DEF vars, IInv, TypeOK, MarkedWasHanded, BatchInv, BatchIsEarliest
<1>8. QED
  BY <1>1, <1>2, <1>3, <1>4, <1>5, <1>6, <1>7 DEF Next

(* The inductive invariant holds in every reachable state.                 *)
LEMMA Invariance == Safety => []IInv
<1>1. Safety => Init /\ [][Next]_vars
  BY DEF Safety
<1>2. QED
  BY InitIInv, NextIInv, <1>1, PTL

(* The state of table and dispatchers is well typed: no dispatcher marks a *)
(* row that is not in the table.                                           *)
THEOREM TypeCorrect == Safety => []TypeOK
<1>1. IInv => TypeOK
  BY DEF IInv
<1>2. QED
  BY Invariance, <1>1, PTL

(* No row is marked as published that was not handed to the broker, for    *)
(* any number of concurrent dispatchers and faults.                        *)
THEOREM Marking == Safety => []MarkedWasHanded
<1>1. IInv => MarkedWasHanded
  BY DEF IInv
<1>2. QED
  BY Invariance, <1>1, PTL

(* A published row stays published, whatever stale dispatchers save.       *)
THEOREM PublishedStays == Safety => PublishedForGood
<1>1. Next => published \subseteq published'
  BY DEF Next, Commit, Read, PublishOk, PublishFail, Save, Abort, table, local
<1>2. [Next]_vars => [published \subseteq published']_vars
  BY <1>1
<1>3. QED
  BY <1>2, PTL DEF Safety, PublishedForGood

-----------------------------------------------------------------------------
(* What a step of the dispatchers does to the row it hands over.           *)
HandoverStep ==
    \A d \in Dispatcher, b \in Message :
        b \in sent'[d] \ sent[d] =>
            \A a \in seen[d] :
                occurredAt[a] < occurredAt[b] /\ handed[a] = 0
                    => a \in failed[d]

LEMMA HandoverInOrder == IInv /\ [Next]_vars => HandoverStep
<1> SUFFICES ASSUME IInv, [Next]_vars,
                    NEW d \in Dispatcher, NEW b \in Message,
                    b \in sent'[d] \ sent[d],
                    NEW a \in seen[d],
                    occurredAt[a] < occurredAt[b], handed[a] = 0
             PROVE  a \in failed[d]
  BY DEF HandoverStep
<1>1. ASSUME NEW e \in Dispatcher, PublishOk(e) PROVE a \in failed[d]
  <2>1. e = d /\ b \in Earliest(todo[d])
    BY <1>1 DEF PublishOk, IInv, TypeOK
  <2>2. occurredAt[a] \in Nat /\ occurredAt[b] \in Nat
    BY StampAssumption DEF IInv, TypeOK
  <2>3. a \notin todo[d]
    BY <2>1, <2>2 DEF Earliest
  <2>4. a \notin sent[d]
    BY DEF IInv, BatchInv
  <2>5. QED
    BY <2>1, <2>2, <2>3, <2>4 DEF Earliest, IInv, BatchIsEarliest
<1>2. ASSUME NEW e \in Dispatcher,
             Read(e) \/ PublishFail(e) \/ Save(e) \/ Abort(e)
      PROVE  FALSE
  BY <1>2 DEF Read, PublishFail, Save, Abort, IInv, TypeOK
<1>3. ASSUME NEW S \in SUBSET Message, Commit(S) PROVE FALSE
  BY <1>3 DEF Commit, local
<1>4. CASE UNCHANGED vars
  BY <1>4 DEF vars
<1>5. QED
  BY <1>1, <1>2, <1>3, <1>4 DEF Next

(* Rows leave in the order of their stamps, except those whose publish     *)
(* failed and those committed after the batch was read.                    *)
THEOREM Ordering == Safety => OrderedHandover
<1>1. IInv /\ [Next]_vars => [HandoverStep]_vars
  BY HandoverInOrder
<1>2. QED
  BY Invariance, <1>1, PTL DEF Safety, OrderedHandover, HandoverStep

-----------------------------------------------------------------------------
(* How many copies of a row there are. The dispatchers that handed it over *)
(* and have not saved, and those that are still going to hand it over.     *)
Owing(m) == {d \in Dispatcher : pc[d] = "publishing" /\ m \in sent[d]}
Coming(m) == {d \in Dispatcher : m \in todo[d]}

(* A row is tried once by each dispatch, and only while it runs.           *)
TriedInv ==
    \A d \in Dispatcher :
        /\ pc[d] = "idle" => todo[d] = {}
        /\ todo[d] \cap sent[d] = {}

(* Every copy of a pending row is owed to a dispatcher that has not saved, *)
(* or was left by one that stopped. Once the row is marked nobody reads it *)
(* again, and those who have read it can only hand it over once more each. *)
CopiesInv ==
    \A m \in Message :
        IF m \in published
        THEN handed[m] + Cardinality(Coming(m)) <= Cardinality(Dispatcher) + faults
        ELSE handed[m] <= Cardinality(Owing(m)) + faults

CountInv == TypeOK /\ TriedInv /\ CopiesInv

(* Who owes a row and who is still going to hand it over are different.    *)
LEMMA Counts ==
    ASSUME TriedInv, NEW m \in Message
    PROVE  /\ IsFiniteSet(Owing(m)) /\ IsFiniteSet(Coming(m))
           /\ Cardinality(Owing(m)) \in Nat /\ Cardinality(Coming(m)) \in Nat
           /\ Cardinality(Dispatcher) \in Nat
           /\ Cardinality(Owing(m)) + Cardinality(Coming(m)) <= Cardinality(Dispatcher)
<1>1. Owing(m) \subseteq Dispatcher /\ Coming(m) \subseteq Dispatcher
  BY DEF Owing, Coming
<1>2. /\ IsFiniteSet(Owing(m)) /\ IsFiniteSet(Coming(m))
      /\ IsFiniteSet(Owing(m) \cup Coming(m))
      /\ Cardinality(Owing(m) \cup Coming(m)) <= Cardinality(Dispatcher)
  BY <1>1, DispatcherAssumption, FS_Subset
<1>3. Owing(m) \cap Coming(m) = {}
  BY DEF Owing, Coming, TriedInv
<1>4. Cardinality(Owing(m) \cap Coming(m)) = 0
  BY <1>3, FS_EmptySet
<1>5. /\ Cardinality(Owing(m)) \in Nat /\ Cardinality(Coming(m)) \in Nat
      /\ Cardinality(Dispatcher) \in Nat
  BY <1>2, DispatcherAssumption, FS_CardinalityType
<1>6. Cardinality(Owing(m) \cup Coming(m)) = Cardinality(Owing(m)) + Cardinality(Coming(m))
  <2>1. Cardinality(Owing(m) \cup Coming(m)) =
          Cardinality(Owing(m)) + Cardinality(Coming(m)) - Cardinality(Owing(m) \cap Coming(m))
    BY <1>2, FS_Union
  <2> QED
    BY <2>1, <1>4, <1>5
<1> QED
  BY <1>2, <1>5, <1>6

(* A step that leaves the row's copies and its mark alone adds nobody who  *)
(* is going to hand over a marked row, and whoever no longer owes a        *)
(* pending one is a fault.                                                 *)
LEMMA NoCopy ==
    ASSUME CountInv, TriedInv', NEW d, NEW m \in Message,
           handed'[m] = handed[m], m \in published' <=> m \in published,
           faults \in Nat, faults' \in Nat, faults' >= faults,
           m \in published => Coming(m)' \subseteq Coming(m),
           m \notin published =>
               \/ Owing(m) \subseteq Owing(m)'
               \/ Owing(m) \ {d} \subseteq Owing(m)' /\ faults' = faults + 1
    PROVE  IF m \in published'
           THEN handed'[m] + Cardinality(Coming(m)') <= Cardinality(Dispatcher) + faults'
           ELSE handed'[m] <= Cardinality(Owing(m)') + faults'
<1>1. /\ IsFiniteSet(Owing(m)) /\ IsFiniteSet(Coming(m))
      /\ Cardinality(Owing(m)) \in Nat /\ Cardinality(Coming(m)) \in Nat
      /\ Cardinality(Dispatcher) \in Nat
  BY Counts DEF CountInv
<1>2. /\ IsFiniteSet(Owing(m)') /\ IsFiniteSet(Coming(m)')
      /\ Cardinality(Owing(m)') \in Nat /\ Cardinality(Coming(m)') \in Nat
  <2>1. Owing(m)' \subseteq Dispatcher /\ Coming(m)' \subseteq Dispatcher
    BY DEF Owing, Coming
  <2> QED
    BY <2>1, DispatcherAssumption, FS_Subset, FS_CardinalityType
<1>3. handed[m] \in Nat
  BY DEF CountInv, TypeOK
<1>4. CASE m \in published
  <2>1. Cardinality(Coming(m)') <= Cardinality(Coming(m))
    BY <1>1, <1>4, FS_Subset
  <2>2. handed[m] + Cardinality(Coming(m)) <= Cardinality(Dispatcher) + faults
    BY <1>4 DEF CountInv, CopiesInv
  <2> QED
    BY <1>1, <1>2, <1>3, <1>4, <2>1, <2>2
<1>5. CASE m \notin published
  <2>1. handed[m] <= Cardinality(Owing(m)) + faults
    BY <1>5 DEF CountInv, CopiesInv
  <2>2. CASE Owing(m) \subseteq Owing(m)'
    <3>1. Cardinality(Owing(m)) <= Cardinality(Owing(m)')
      BY <1>2, <2>2, FS_Subset
    <3> QED
      BY <1>1, <1>2, <1>3, <1>5, <2>1, <3>1
  <2>3. CASE Owing(m) \ {d} \subseteq Owing(m)' /\ faults' = faults + 1
    <3>1. Cardinality(Owing(m) \ {d}) <= Cardinality(Owing(m)')
      BY <1>2, <2>3, FS_Subset
    <3>2. /\ IsFiniteSet(Owing(m) \ {d})
          /\ Cardinality(Owing(m) \ {d}) = IF d \in Owing(m) THEN Cardinality(Owing(m)) - 1
                                                             ELSE Cardinality(Owing(m))
      BY <1>1, FS_RemoveElement
    <3>3. Cardinality(Owing(m) \ {d}) \in Nat
      BY <3>2, FS_CardinalityType
    <3> QED
      BY <1>1, <1>2, <1>3, <1>5, <2>1, <2>3, <3>1, <3>2, <3>3
  <2> QED
    BY <1>5, <2>2, <2>3
<1> QED
  BY <1>4, <1>5

(* Handing a row over: the one who was going to, owes it from now on.      *)
LEMMA PublishOkCounts ==
    ASSUME CountInv, NEW d \in Dispatcher, PublishOk(d)
    PROVE  TriedInv' /\ CopiesInv'
<1>1. PICK n \in Earliest(todo[d]) :
        /\ handed' = [handed EXCEPT ![n] = @ + 1]
        /\ todo' = [todo EXCEPT ![d] = @ \ {n}]
        /\ sent' = [sent EXCEPT ![d] = @ \cup {n}]
        /\ UNCHANGED <<table, pc, failed, seen, faults>>
  BY DEF PublishOk
<1>2. n \in todo[d] /\ n \in Message /\ pc[d] = "publishing" /\ n \notin sent[d]
  BY DEF Earliest, CountInv, TypeOK, TriedInv
<1>3. TriedInv'
  BY <1>1, <1>2 DEF CountInv, TypeOK, TriedInv, table
<1>4. faults \in Nat /\ published' = published
  BY <1>1, MaxFaultAssumption DEF table, CountInv, TypeOK
<1>5. ASSUME NEW m \in Message
      PROVE  IF m \in published'
             THEN handed'[m] + Cardinality(Coming(m)') <= Cardinality(Dispatcher) + faults'
             ELSE handed'[m] <= Cardinality(Owing(m)') + faults'
  <2>1. CASE m # n
    <3>1. handed'[m] = handed[m] /\ Coming(m)' = Coming(m) /\ Owing(m)' = Owing(m)
      BY <1>1, <1>2, <2>1 DEF Coming, Owing, CountInv, TypeOK
    <3> QED
      BY <1>1, <1>3, <1>4, <3>1, NoCopy
  <2>2. CASE m = n
    <3>1. handed'[n] = handed[n] + 1 /\ handed[n] \in Nat
      BY <1>1, <1>2 DEF CountInv, TypeOK
    <3>2. d \in Coming(n) /\ Coming(n)' = Coming(n) \ {d}
      BY <1>1, <1>2 DEF Coming, CountInv, TypeOK
    <3>3. d \notin Owing(n) /\ Owing(n)' = Owing(n) \cup {d}
      BY <1>1, <1>2 DEF Owing, CountInv, TypeOK
    <3>4. /\ IsFiniteSet(Owing(n)) /\ IsFiniteSet(Coming(n))
          /\ Cardinality(Owing(n)) \in Nat /\ Cardinality(Coming(n)) \in Nat
          /\ Cardinality(Dispatcher) \in Nat
      BY <1>2, Counts DEF CountInv
    <3>5. Cardinality(Coming(n)') = Cardinality(Coming(n)) - 1
      BY <3>2, <3>4, FS_RemoveElement
    <3>6. Cardinality(Owing(n)') = Cardinality(Owing(n)) + 1
      BY <3>3, <3>4, FS_AddElement
    <3>7. IF n \in published
          THEN handed[n] + Cardinality(Coming(n)) <= Cardinality(Dispatcher) + faults
          ELSE handed[n] <= Cardinality(Owing(n)) + faults
      BY <1>2 DEF CountInv, CopiesInv
    <3>8. faults' = faults
      BY <1>1
    <3> QED
      BY <1>4, <2>2, <3>1, <3>4, <3>5, <3>6, <3>7, <3>8
  <2> QED
    BY <2>1, <2>2
<1> QED
  BY <1>3, <1>5 DEF CopiesInv

(* Saving: a row that is marked now was pending until now, and whoever is  *)
(* still going to hand it over does not owe it yet.                        *)
LEMMA SaveCounts ==
    ASSUME CountInv, NEW d \in Dispatcher, Save(d)
    PROVE  TriedInv' /\ CopiesInv'
<1>1. TriedInv'
  BY DEF Save, CountInv, TypeOK, TriedInv
<1>2. faults \in Nat /\ faults' = faults /\ handed' = handed
  BY MaxFaultAssumption DEF Save, CountInv, TypeOK
<1>3. ASSUME NEW m \in Message
      PROVE  IF m \in published'
             THEN handed'[m] + Cardinality(Coming(m)') <= Cardinality(Dispatcher) + faults'
             ELSE handed'[m] <= Cardinality(Owing(m)') + faults'
  <2>1. Coming(m)' = Coming(m)
    BY DEF Save, Coming
  <2>2. CASE m \in published' <=> m \in published
    <3>1. m \notin published => Owing(m) \subseteq Owing(m)'
      BY <2>2 DEF Save, Owing, CountInv, TypeOK
    <3> QED
      BY <1>1, <1>2, <2>1, <2>2, <3>1, NoCopy
  <2>3. CASE ~(m \in published' <=> m \in published)
    <3>1. m \in published' /\ m \notin published
      BY <2>3 DEF Save
    <3>2. handed[m] <= Cardinality(Owing(m)) + faults /\ handed[m] \in Nat
      BY <3>1 DEF CountInv, CopiesInv, TypeOK
    <3>3. /\ Cardinality(Owing(m)) \in Nat /\ Cardinality(Coming(m)) \in Nat
          /\ Cardinality(Dispatcher) \in Nat
          /\ Cardinality(Owing(m)) + Cardinality(Coming(m)) <= Cardinality(Dispatcher)
      BY Counts DEF CountInv
    <3> QED
      BY <1>2, <2>1, <3>1, <3>2, <3>3
  <2> QED
    BY <2>2, <2>3
<1> QED
  BY <1>1, <1>3 DEF CopiesInv

(* Reading, failing, stopping and committing hand nothing over.            *)
LEMMA OthersCount ==
    ASSUME CountInv, NEW d, NEW S \in SUBSET Message,
           \/ d \in Dispatcher /\ (Read(d) \/ PublishFail(d) \/ Abort(d))
           \/ Commit(S)
           \/ UNCHANGED vars
    PROVE  TriedInv' /\ CopiesInv'
<1>1. handed' = handed /\ published' = published
  BY DEF Read, PublishFail, Abort, Commit, table, vars
<1>2. faults \in Nat /\ faults' \in Nat /\ faults' >= faults
  BY MaxFaultAssumption
     DEF Read, PublishFail, Abort, Commit, vars, CountInv, TypeOK
<1>3. TriedInv'
  BY DEF Read, PublishFail, Abort, Commit, local, vars, CountInv, TypeOK, TriedInv
<1>4. ASSUME NEW m \in Message
      PROVE  /\ m \in published => Coming(m)' \subseteq Coming(m)
             /\ \/ Owing(m) \subseteq Owing(m)'
                \/ Owing(m) \ {d} \subseteq Owing(m)' /\ faults' = faults + 1
  <2>1. CASE d \in Dispatcher /\ Read(d)
    <3>1. PICK B \in Batches(Pending) : todo' = [todo EXCEPT ![d] = B]
      BY <2>1 DEF Read
    <3>2. m \in published => m \notin B
      BY DEF Batches, Pending
    <3>3. m \in published => Coming(m)' \subseteq Coming(m)
      BY <3>1, <3>2 DEF Coming, CountInv, TypeOK
    <3>4. Owing(m) \subseteq Owing(m)'
      BY <2>1 DEF Read, Owing, CountInv, TypeOK
    <3> QED
      BY <3>3, <3>4
  <2>2. CASE d \in Dispatcher /\ PublishFail(d)
    <3>1. Coming(m)' \subseteq Coming(m)
      BY <2>2 DEF PublishFail, Coming, CountInv, TypeOK
    <3>2. Owing(m)' = Owing(m)
      BY <2>2 DEF PublishFail, Owing
    <3> QED
      BY <3>1, <3>2
  <2>3. CASE d \in Dispatcher /\ Abort(d)
    BY <2>3 DEF Abort, Coming, Owing, CountInv, TypeOK
  <2>4. CASE Commit(S) \/ UNCHANGED vars
    BY <2>4 DEF Commit, local, vars, Coming, Owing
  <2> QED
    BY <2>1, <2>2, <2>3, <2>4
<1>5. ASSUME NEW m \in Message
      PROVE  IF m \in published'
             THEN handed'[m] + Cardinality(Coming(m)') <= Cardinality(Dispatcher) + faults'
             ELSE handed'[m] <= Cardinality(Owing(m)') + faults'
  BY <1>1, <1>2, <1>3, <1>4, NoCopy
<1> QED
  BY <1>3, <1>5 DEF CopiesInv

LEMMA CountInit == Init => TriedInv /\ CopiesInv
<1> SUFFICES ASSUME Init
             PROVE  TriedInv /\ CopiesInv
  OBVIOUS
<1>1. TriedInv
  BY DEF Init, TriedInv
<1>2. \A m \in Message : Owing(m) = {} /\ m \notin published /\ handed[m] = 0 /\ faults = 0
  BY DEF Init, Owing
<1> QED
  BY <1>1, <1>2, FS_EmptySet DEF CopiesInv

LEMMA CountNext == CountInv /\ [Next]_vars => (TriedInv /\ CopiesInv)'
<1> SUFFICES ASSUME CountInv, [Next]_vars
             PROVE  TriedInv' /\ CopiesInv'
  OBVIOUS
<1>1. ASSUME NEW d \in Dispatcher,
             Read(d) \/ PublishOk(d) \/ PublishFail(d) \/ Save(d) \/ Abort(d)
      PROVE  TriedInv' /\ CopiesInv'
  BY <1>1, PublishOkCounts, SaveCounts, OthersCount
<1>2. ASSUME NEW S \in SUBSET Message, Commit(S)
      PROVE  TriedInv' /\ CopiesInv'
  BY <1>2, OthersCount
<1>3. CASE UNCHANGED vars
  <2>1. {} \in SUBSET Message
    OBVIOUS
  <2> QED
    BY <1>3, <2>1, OthersCount
<1> QED
  BY <1>1, <1>2, <1>3 DEF Next

(* The consumers see a row at most once per dispatcher, and once more for  *)
(* each failed publish or dispatch that did not save.                      *)
THEOREM Duplicating == Safety => []DuplicateBound
<1>1. TypeOK /\ TriedInv /\ CopiesInv => DuplicateBound
  <2> SUFFICES ASSUME TypeOK, TriedInv, CopiesInv, NEW m \in Message
               PROVE  handed[m] <= Cardinality(Dispatcher) + faults
    BY DEF DuplicateBound
  <2>1. /\ Cardinality(Owing(m)) \in Nat /\ Cardinality(Coming(m)) \in Nat
        /\ Cardinality(Dispatcher) \in Nat
        /\ Cardinality(Owing(m)) + Cardinality(Coming(m)) <= Cardinality(Dispatcher)
    BY Counts
  <2>2. handed[m] \in Nat /\ faults \in Nat
    BY MaxFaultAssumption DEF TypeOK
  <2>3. IF m \in published
        THEN handed[m] + Cardinality(Coming(m)) <= Cardinality(Dispatcher) + faults
        ELSE handed[m] <= Cardinality(Owing(m)) + faults
    BY DEF CopiesInv
  <2> QED
    BY <2>1, <2>2, <2>3
<1>2. Safety => []TypeOK
  BY TypeCorrect
<1>3. Safety => [](TriedInv /\ CopiesInv)
  <2>1. TypeOK /\ (TriedInv /\ CopiesInv) /\ [Next]_vars => (TriedInv /\ CopiesInv)'
    BY CountNext DEF CountInv
  <2> QED
    BY <1>2, <2>1, CountInit, PTL DEF Safety
<1> QED
  BY <1>1, <1>2, <1>3, PTL

-----------------------------------------------------------------------------
(* The dispatchers implement the safety part of AtLeastOnce: a step maps   *)
(* to one of its actions, or to a stutter.                                 *)
LEMMA StepRefines == IInv /\ IInv' /\ [Next]_vars => [Promise!Next]_(Promise!vars)
<1> SUFFICES ASSUME IInv, IInv', [Next]_vars
             PROVE  Promise!Next \/ UNCHANGED Promise!vars
  OBVIOUS
<1> USE DEF Promise!vars, handedOnce
<1>1. ASSUME NEW S \in SUBSET Message, Commit(S) PROVE Promise!Commit(S)
  BY <1>1 DEF Commit, Promise!Commit
<1>2. ASSUME NEW d \in Dispatcher, PublishOk(d)
      PROVE  \E m \in Message : Promise!Hand(m)
  <2>1. PICK m \in Earliest(todo[d]) : handed' = [handed EXCEPT ![m] = @ + 1]
    BY <1>2 DEF PublishOk
  <2>2. m \in Message /\ m \in committed
    BY DEF Earliest, IInv, TypeOK, BatchInv
  <2>3. handedOnce' = handedOnce \cup {m}
    BY <2>1, <2>2 DEF IInv, TypeOK
  <2>4. QED
    BY <1>2, <2>2, <2>3 DEF PublishOk, Promise!Hand, table
<1>3. ASSUME NEW d \in Dispatcher, Save(d)
      PROVE  \E S \in SUBSET Message : Promise!Mark(S)
  <2>1. sent[d] \subseteq handedOnce /\ sent[d] \in SUBSET Message
    BY DEF IInv, TypeOK, BatchInv
  <2>2. Promise!Mark(sent[d])
    BY <1>3, <2>1 DEF Save, Promise!Mark
  <2>3. QED
    BY <2>1, <2>2
<1>4. ASSUME NEW d \in Dispatcher, Read(d) \/ PublishFail(d) \/ Abort(d)
      PROVE  UNCHANGED Promise!vars
  BY <1>4 DEF Read, PublishFail, Abort, table
<1>5. CASE UNCHANGED vars
  BY <1>5 DEF vars
<1>6. QED
  BY <1>1, <1>2, <1>3, <1>4, <1>5 DEF Next, Promise!Next

(* Seen from the outside, concurrent dispatchers with faults behave as one *)
(* at-least-once outbox.                                                   *)
THEOREM Refinement == Safety => Promise!Safety
<1>1. Init => Promise!Init
  BY DEF Init, Promise!Init, handedOnce
<1>2. QED
  BY Invariance, StepRefines, <1>1, PTL DEF Safety, Promise!Safety
=============================================================================
