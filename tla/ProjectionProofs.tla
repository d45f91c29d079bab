--------------------------- MODULE ProjectionProofs ---------------------------
(***************************************************************************)
(* Safety theorems about Projection, for any number of subjects, statuses, *)
(* handlers, events, copies and faults.                                    *)
(***************************************************************************)
EXTENDS Projection, SequenceTheorems, TLAPS

-----------------------------------------------------------------------------
(* Events and the queue.                                                   *)

(* The earlier events of a subject.                                        *)
Before(e) == {<<e[1], n>> : n \in 1 .. e[2] - 1}

LEMMA EventParts ==
    ASSUME NEW e \in Event
    PROVE  e[1] \in Subject /\ e[2] \in 1 .. MaxEvents /\ e[2] \in Nat
           /\ e = <<e[1], e[2]>>
  BY BoundsAssumption DEF Event

LEMMA Earlier ==
    ASSUME NEW e \in Event, NEW f \in Before(e)
    PROVE  f \in Event /\ f[1] = e[1] /\ f[2] < e[2]
<1>1. PICK n \in 1 .. e[2] - 1 : f = <<e[1], n>>
  BY DEF Before
<1> QED
  BY <1>1, EventParts, BoundsAssumption DEF Event

(* Of two events of a subject one is before the other.                     *)
LEMMA InOrder ==
    ASSUME NEW e \in Event, NEW f \in Event, e[1] = f[1], f[2] < e[2]
    PROVE  f \in Before(e)
<1>1. f = <<e[1], f[2]>> /\ f[2] \in 1 .. e[2] - 1
  BY EventParts
<1> QED
  BY <1>1 DEF Before

LEMMA Published ==
    ASSUME Queue!TypeOK, NEW e \in Event, Queue!Publish(e)
    PROVE  /\ Queue!TypeOK'
           /\ UNCHANGED <<held, dead>>
           /\ \A f \in Event : dropped'[f] >= dropped[f]
           /\ \/ /\ Len(ready') = Len(ready) + 1 /\ Len(ready) \in Nat
                 /\ ready'[Len(ready) + 1] = e
                 /\ \A i \in 1 .. Len(ready) : ready'[i] = ready[i]
              \/ ready' = ready /\ dropped'[e] > 0
<1>1. CASE bound
  <2>1. /\ ready \in Seq(Event) /\ ready' = Append(ready, e)
        /\ UNCHANGED <<bound, held, dead, dropped>>
    BY <1>1 DEF Queue!Publish, Queue!TypeOK
  <2>2. /\ ready' \in Seq(Event) /\ Len(ready') = Len(ready) + 1
        /\ ready'[Len(ready) + 1] = e
        /\ \A i \in 1 .. Len(ready) : ready'[i] = ready[i]
        /\ Len(ready) \in Nat
    BY <2>1
  <2> QED BY <2>1, <2>2 DEF Queue!TypeOK
<1>2. CASE ~bound
  <2>1. /\ dropped' = [dropped EXCEPT ![e] = @ + 1]
        /\ UNCHANGED <<bound, held, dead, ready>>
    BY <1>2 DEF Queue!Publish
  <2> QED BY <2>1 DEF Queue!TypeOK
<1> QED BY <1>1, <1>2

LEMMA Delivered ==
    ASSUME Queue!TypeOK, NEW h \in Handler, NEW e \in Event, Queue!Deliver(h, e)
    PROVE  /\ Queue!TypeOK'
           /\ held[h] = None /\ held' = [held EXCEPT ![h] = e]
           /\ UNCHANGED <<dead, dropped>>
           /\ Len(ready) \in Nat \ {0} /\ Len(ready') = Len(ready) - 1
           /\ ready[1] = e
           /\ \A i \in 1 .. Len(ready) - 1 : ready'[i] = ready[i + 1]
<1>1. /\ ready \in Seq(Event) /\ ready # <<>> /\ e = ready[1] /\ ready' = Tail(ready)
      /\ held[h] = None /\ held' = [held EXCEPT ![h] = e]
      /\ UNCHANGED <<bound, dead, dropped>>
  BY DEF Queue!Deliver, Queue!TypeOK
<1>2. /\ ready' \in Seq(Event) /\ Len(ready) \in Nat \ {0}
      /\ Len(ready') = Len(ready) - 1
      /\ \A i \in 1 .. Len(ready) - 1 : ready'[i] = ready[i + 1]
  BY <1>1
<1> QED BY <1>1, <1>2 DEF Queue!TypeOK

LEMMA TakenBack ==
    ASSUME Queue!TypeOK, NEW h \in Handler, Queue!TakeBack(h)
    PROVE  /\ Queue!TypeOK'
           /\ held[h] \in Event /\ held' = [held EXCEPT ![h] = None]
           /\ UNCHANGED <<dead, dropped>>
           /\ Len(ready) \in Nat /\ Len(ready') = Len(ready) + 1
           /\ ready'[1] = held[h]
           /\ \A i \in 2 .. Len(ready) + 1 : ready'[i] = ready[i - 1]
<1>1. /\ held[h] \in Event /\ held' = [held EXCEPT ![h] = None]
      /\ ready \in Seq(Event) /\ ready' = <<held[h]>> \o ready
      /\ UNCHANGED <<bound, dead, dropped>>
  BY DEF Queue!TakeBack, Queue!TypeOK
<1>2. /\ ready' \in Seq(Event) /\ Len(ready') = Len(ready) + 1 /\ Len(ready) \in Nat
      /\ ready'[1] = held[h]
      /\ \A i \in 1 .. Len(ready) : ready'[i + 1] = ready[i]
  BY <1>1
<1>3. \A i \in 2 .. Len(ready) + 1 : ready'[i] = ready[i - 1]
  BY <1>2
<1> QED BY <1>1, <1>2, <1>3 DEF Queue!TypeOK

-----------------------------------------------------------------------------
(* Handlers and what was applied.                                          *)

Told(e) == e[2] <= Len(announced[e[1]])

(* A handler that is not idle works on an event that was announced, as are *)
(* those in the queue; it acknowledges what is processed, and the row it   *)
(* loaded is still there.                                                  *)
HandlerInv ==
    /\ \A h \in Handler : held[h] # None => pc[h] # "idle" /\ held[h] = cur[h]
    /\ \A h \in Handler : pc[h] = "idle" => cur[h] = None /\ loaded[h] = Absent
    /\ \A h \in Handler : pc[h] # "idle" => cur[h] \in Event /\ Told(cur[h])
    /\ \A h \in Handler : pc[h] = "ack" => cur[h] \in processed
    /\ \A h \in Handler : loaded[h] # Absent => projection[cur[h][1]] # Absent
    /\ \A i \in DOMAIN ready : Told(ready[i])

(* What is applied is processed, and was applied once.                     *)
AppliedInv ==
    /\ \A c \in Subject : \A i \in DOMAIN applied[c] : <<c, applied[c][i]>> \in processed
    /\ AppliedOnce

IInv == TypeOK /\ HandlerInv /\ AppliedInv

LEMMA InitIInv == Init => IInv
<1> SUFFICES ASSUME Init PROVE IInv
  OBVIOUS
<1>1. Queue!TypeOK /\ ready = <<>>
  BY DEF Init, Queue!Init, Queue!TypeOK
<1>2. TypeOK
  BY <1>1, BoundsAssumption DEF Init, TypeOK, HandlerStep, Row
<1>3. HandlerInv
  BY <1>1 DEF Init, HandlerInv, Queue!Init
<1>4. AppliedInv
  BY DEF Init, AppliedInv, AppliedOnce
<1> QED BY <1>2, <1>3, <1>4 DEF IInv

LEMMA FaultIsTyped == TypeOK /\ Fault => faults' \in 0 .. MaxFault
BY BoundsAssumption DEF TypeOK, Fault

LEMMA AnnounceIInv ==
    ASSUME IInv, NEW c \in Subject, Announce(c)
    PROVE  IInv' /\ \A d \in Subject : /\ Len(announced'[d]) >= Len(announced[d])
                                       /\ \A n \in 1 .. Len(announced[d]) :
                                             announced'[d][n] = announced[d][n]
<1> USE DEF IInv, tableVars, queueVars
<1>1. PICK s \in Status : announced' = [announced EXCEPT ![c] = Append(@, s)]
  BY DEF Announce
<1>2. announced[c] \in Seq(Status)
  BY DEF TypeOK
<1>3. /\ Append(announced[c], s) \in Seq(Status)
      /\ Len(Append(announced[c], s)) = Len(announced[c]) + 1 /\ Len(announced[c]) \in Nat
      /\ \A n \in 1 .. Len(announced[c]) : Append(announced[c], s)[n] = announced[c][n]
  BY <1>2
<1>4. \A d \in Subject : announced'[d] = IF d = c THEN Append(announced[c], s) ELSE announced[d]
  BY <1>1 DEF TypeOK
<1>5. announced' \in [Subject -> Seq(Status)]
  BY <1>1, <1>3 DEF TypeOK
<1>6. \A d \in Subject : Len(announced[d]) \in Nat
  BY DEF TypeOK
<1>7. \A d \in Subject : Len(announced'[d]) >= Len(announced[d])
  <2> SUFFICES ASSUME NEW d \in Subject PROVE Len(announced'[d]) >= Len(announced[d])
    OBVIOUS
  <2>1. CASE d = c
    <3>1. announced'[d] = Append(announced[c], s)
      BY <1>4, <2>1
    <3> QED BY <1>3, <2>1, <3>1
  <2>2. CASE d # c
    <3>1. announced'[d] = announced[d]
      BY <1>4, <2>2
    <3> QED BY <1>6, <3>1
  <2> QED BY <2>1, <2>2
<1>8. TypeOK'
  BY <1>5 DEF TypeOK, Announce, Queue!TypeOK
<1>9. \A e \in Event : Told(e) => Told(e)'
  <2> SUFFICES ASSUME NEW e \in Event, Told(e) PROVE Told(e)'
    OBVIOUS
  <2>1. e[1] \in Subject /\ e[2] \in Nat
    BY EventParts
  <2>2. Len(announced'[e[1]]) \in Nat
    BY <1>5, <2>1
  <2> QED BY <1>6, <1>7, <2>1, <2>2 DEF Told
<1>10. HandlerInv'
  <2>1. \A i \in DOMAIN ready : ready[i] \in Event
    BY DEF TypeOK, Queue!TypeOK
  <2> QED BY <1>9, <2>1 DEF HandlerInv, Announce
<1>11. AppliedInv'
  BY DEF AppliedInv, AppliedOnce, Announce
<1> QED BY <1>3, <1>4, <1>7, <1>8, <1>10, <1>11

LEMMA PublishIInv ==
    ASSUME IInv, NEW e \in Event, PublishEvent(e)
    PROVE  IInv'
<1> USE DEF IInv, tableVars
<1>1. Queue!TypeOK /\ Queue!Publish(e) /\ Told(e)
  BY DEF TypeOK, PublishEvent, Told
<1>2. /\ Queue!TypeOK' /\ UNCHANGED <<held, dead>>
      /\ \/ /\ Len(ready') = Len(ready) + 1 /\ Len(ready) \in Nat
            /\ ready'[Len(ready) + 1] = e
            /\ \A i \in 1 .. Len(ready) : ready'[i] = ready[i]
         \/ ready' = ready
  BY <1>1, Published
<1>3. TypeOK'
  <2>1. e[1] \in Subject
    BY EventParts
  <2>2. handed' \in [Event -> Nat] /\ troubled' \subseteq Subject
    <3>1. handed' = [handed EXCEPT ![e] = @ + 1] /\ handed \in [Event -> Nat]
      BY DEF TypeOK, PublishEvent
    <3>2. troubled' = troubled \/ troubled' = troubled \cup {e[1]}
      BY DEF PublishEvent
    <3> QED BY <2>1, <3>1, <3>2 DEF TypeOK
  <2> QED BY <1>2, <2>2 DEF TypeOK, PublishEvent
<1>4. \A i \in DOMAIN ready' : ready'[i] = e \/ \E j \in DOMAIN ready : ready'[i] = ready[j]
  <2>1. ready \in Seq(Event) /\ ready' \in Seq(Event)
    BY <1>1, <1>2 DEF Queue!TypeOK
  <2>2. DOMAIN ready = 1 .. Len(ready) /\ DOMAIN ready' = 1 .. Len(ready')
    BY <2>1
  <2>3. CASE ready' = ready
    BY <2>3
  <2>4. CASE ready' # ready
    <3>0. Len(ready') = Len(ready) + 1 /\ Len(ready) \in Nat
      BY <1>2, <2>4
    <3>1. \A i \in DOMAIN ready' : i = Len(ready) + 1 \/ i \in DOMAIN ready
      BY <2>2, <3>0
    <3> QED BY <1>2, <2>2, <2>4, <3>1
  <2> QED BY <2>3, <2>4
<1>5. HandlerInv'
  BY <1>1, <1>2, <1>4 DEF HandlerInv, Told, PublishEvent
<1>6. AppliedInv'
  BY DEF AppliedInv, AppliedOnce, PublishEvent
<1> QED BY <1>3, <1>5, <1>6

LEMMA DeclareIInv ==
    ASSUME IInv, DeclareQueue
    PROVE  IInv'
<1> USE DEF IInv, historyVars, sourceVars, tableVars, Queue!Declare
<1>1. TypeOK'
  BY DEF TypeOK, DeclareQueue, Queue!TypeOK
<1>2. HandlerInv' /\ AppliedInv'
  BY DEF HandlerInv, Told, AppliedInv, AppliedOnce, DeclareQueue
<1> QED BY <1>1, <1>2

LEMMA ReceiveIInv ==
    ASSUME IInv, NEW h \in Handler, Receive(h)
    PROVE  IInv'
<1> USE DEF IInv, sourceVars, tableVars
<1>1. PICK e \in Event : /\ Queue!Deliver(h, e) /\ cur' = [cur EXCEPT ![h] = e]
                         /\ overlapped' = overlapped \cup {c \in {e[1]} : Busy(c)}
  BY DEF Receive
<1>2. /\ Queue!TypeOK /\ pc[h] = "idle" /\ pc' = [pc EXCEPT ![h] = "dedup"]
      /\ UNCHANGED <<sourceVars, tableVars, loaded, faults>>
  BY DEF TypeOK, Receive, Step
<1>3. /\ Queue!TypeOK'
      /\ held[h] = None /\ held' = [held EXCEPT ![h] = e]
      /\ UNCHANGED <<dead, dropped>>
      /\ Len(ready) \in Nat \ {0} /\ Len(ready') = Len(ready) - 1
      /\ ready[1] = e
      /\ \A i \in 1 .. Len(ready) - 1 : ready'[i] = ready[i + 1]
  BY <1>1, <1>2, Delivered
<1>4. TypeOK'
  BY <1>1, <1>2, <1>3, EventParts DEF TypeOK, HandlerStep
<1>5. Told(e) /\ \A i \in DOMAIN ready' : Told(ready'[i])
  <2>1. DOMAIN ready = 1 .. Len(ready) /\ DOMAIN ready' = 1 .. Len(ready')
    BY <1>2, <1>3 DEF Queue!TypeOK
  <2>2. 1 \in DOMAIN ready /\ \A i \in DOMAIN ready' : i + 1 \in DOMAIN ready /\ ready'[i] = ready[i + 1]
    BY <1>3, <2>1
  <2> QED BY <1>3, <2>2 DEF HandlerInv
<1>6. HandlerInv'
  BY <1>1, <1>2, <1>3, <1>5 DEF TypeOK, HandlerInv, Told, Queue!TypeOK
<1>7. AppliedInv'
  BY <1>2 DEF AppliedInv, AppliedOnce
<1> QED BY <1>4, <1>6, <1>7

(* A handler goes on without touching the tables.                          *)
LEMMA LocalIInv ==
    ASSUME IInv, NEW h \in Handler, CheckProcessed(h) \/ LoadRow(h) \/ KeyViolation(h) \/ Throw(h)
    PROVE  IInv'
<1> USE DEF IInv, historyVars, sourceVars, tableVars, queueVars
<1>1. PICK to \in {"ack", "load", "save", "nack"} :
        /\ pc[h] # "idle" /\ pc' = [pc EXCEPT ![h] = to]
        /\ to = "ack" => cur[h] \in processed
  BY DEF CheckProcessed, LoadRow, KeyViolation, Throw, Step
<1>2. /\ UNCHANGED <<historyVars, tableVars, queueVars, cur>>
      /\ loaded' = loaded \/ loaded' = [loaded EXCEPT ![h] = projection[cur[h][1]]]
      /\ faults' \in 0 .. MaxFault
  BY FaultIsTyped DEF TypeOK, CheckProcessed, LoadRow, KeyViolation, Throw
<1>3. cur[h] \in Event /\ cur[h][1] \in Subject
  BY <1>1, EventParts DEF HandlerInv
<1>4. TypeOK'
  BY <1>1, <1>2, <1>3 DEF TypeOK, HandlerStep, Queue!TypeOK
<1>5. HandlerInv'
  BY <1>1, <1>2 DEF TypeOK, HandlerInv, Told
<1>6. AppliedInv'
  BY <1>2 DEF AppliedInv, AppliedOnce
<1> QED BY <1>4, <1>5, <1>6

(* What a save does, as the invariant lets it.                             *)
LEMMA Saved ==
    ASSUME IInv, NEW h \in Handler, SaveRow(h)
    PROVE  LET c == cur[h][1]
               n == cur[h][2]
           IN  /\ cur[h] \in Event /\ Told(cur[h]) /\ cur[h] \notin processed
               /\ c \in Subject /\ n \in 1 .. MaxEvents /\ n \in Nat /\ cur[h] = <<c, n>>
               /\ announced[c][n] \in Status
               /\ pc[h] = "save" /\ pc' = [pc EXCEPT ![h] = "ack"]
               /\ projection' = [projection EXCEPT
                     ![c] = Overwritten(@, loaded[h], announced[c][n], n)]
               /\ Overwritten(projection[c], loaded[h], announced[c][n], n)
                     \in [status : Status, last : {n}]
               /\ applied' = [applied EXCEPT ![c] = Append(@, n)]
               /\ processed' = processed \cup {cur[h]}
               /\ UNCHANGED <<historyVars, queueVars, cur, loaded, faults>>
<1> DEFINE c == cur[h][1]
           n == cur[h][2]
<1>1. /\ pc[h] = "save" /\ pc' = [pc EXCEPT ![h] = "ack"] /\ KeysAreFree(h)
      /\ projection' = [projection EXCEPT
            ![c] = Overwritten(@, loaded[h], announced[c][n], n)]
      /\ applied' = [applied EXCEPT ![c] = Append(@, n)]
      /\ processed' = processed \cup {cur[h]}
      /\ UNCHANGED <<historyVars, queueVars, cur, loaded, faults>>
  BY DEF SaveRow, SaveWith, Step
<1>2. /\ cur[h] \in Event /\ Told(cur[h]) /\ cur[h] \notin processed
      /\ c \in Subject /\ n \in 1 .. MaxEvents /\ n \in Nat /\ cur[h] = <<c, n>>
  BY <1>1, EventParts DEF IInv, HandlerInv, KeysAreFree
<1>3. announced[c][n] \in Status
  <2>1. announced[c] \in Seq(Status) /\ n \in 1 .. Len(announced[c])
    BY <1>2 DEF IInv, TypeOK, Told
  <2> QED BY <2>1
<1>4. announced[c][n] = loaded[h].status => projection[c].status \in Status
  <2>1. SUFFICES ASSUME announced[c][n] = loaded[h].status PROVE projection[c].status \in Status
    OBVIOUS
  <2>2. loaded[h] # Absent
    BY <1>3, <2>1, StatusAssumption
  <2>3. projection[c] # Absent /\ projection[c] \in Row
    BY <1>2, <2>2 DEF IInv, TypeOK, HandlerInv
  <2> QED BY <2>3 DEF Row
<1>5. Overwritten(projection[c], loaded[h], announced[c][n], n) \in [status : Status, last : {n}]
  BY <1>3, <1>4 DEF Overwritten
<1> QED BY <1>1, <1>2, <1>3, <1>5

LEMMA SaveRowIInv ==
    ASSUME IInv, NEW h \in Handler, SaveRow(h)
    PROVE  IInv'
<1> DEFINE c == cur[h][1]
           n == cur[h][2]
           row == Overwritten(projection[c], loaded[h], announced[c][n], n)
<1>1. /\ cur[h] \in Event /\ Told(cur[h]) /\ cur[h] \notin processed
      /\ c \in Subject /\ n \in 1 .. MaxEvents /\ n \in Nat /\ cur[h] = <<c, n>>
      /\ pc[h] = "save" /\ pc' = [pc EXCEPT ![h] = "ack"]
      /\ projection' = [projection EXCEPT ![c] = row]
      /\ row \in [status : Status, last : {n}]
      /\ applied' = [applied EXCEPT ![c] = Append(@, n)]
      /\ processed' = processed \cup {cur[h]}
      /\ UNCHANGED <<historyVars, queueVars, cur, loaded, faults>>
  BY Saved
<1> HIDE DEF row
<1> USE DEF IInv, historyVars, sourceVars, queueVars
<1>2. row \in Row /\ row # Absent
  <2>1. row.status \in Status /\ row \in [status : Status, last : 1 .. MaxEvents]
    BY <1>1
  <2> QED BY <2>1, StatusAssumption DEF Row
<1>3. /\ applied[c] \in Seq(1 .. MaxEvents) /\ Append(applied[c], n) \in Seq(1 .. MaxEvents)
      /\ DOMAIN applied[c] = 1 .. Len(applied[c]) /\ Len(applied[c]) \in Nat
      /\ DOMAIN Append(applied[c], n) = 1 .. Len(applied[c]) + 1
      /\ Append(applied[c], n)[Len(applied[c]) + 1] = n
      /\ \A i \in DOMAIN applied[c] : Append(applied[c], n)[i] = applied[c][i]
  <2>1. applied[c] \in Seq(1 .. MaxEvents)
    BY <1>1 DEF TypeOK
  <2> QED BY <1>1, <2>1
<1>4. TypeOK'
  <2>1. applied' \in [Subject -> Seq(1 .. MaxEvents)]
    BY <1>1, <1>3 DEF TypeOK
  <2>2. projection' \in [Subject -> Row]
    BY <1>1, <1>2 DEF TypeOK
  <2>3. pc' \in [Handler -> HandlerStep]
    BY <1>1 DEF TypeOK, HandlerStep
  <2> QED BY <1>1, <2>1, <2>2, <2>3 DEF TypeOK, Queue!TypeOK
<1>5. HandlerInv'
  <2>1. \A d \in Subject : projection[d] # Absent => projection'[d] # Absent
    BY <1>1, <1>2 DEF TypeOK
  <2>2. \A g \in Handler : loaded[g] # Absent => cur[g][1] \in Subject
    BY EventParts DEF HandlerInv
  <2> QED BY <1>1, <2>1, <2>2 DEF TypeOK, HandlerInv, Told
<1>6. \A d \in Subject : applied'[d] = IF d = c THEN Append(applied[c], n) ELSE applied[d]
  BY <1>1 DEF TypeOK
<1>7. AppliedInv'
  <2>1. ASSUME NEW d \in Subject, NEW i \in DOMAIN applied'[d]
        PROVE  <<d, applied'[d][i]>> \in processed'
    <3>1. CASE d # c
      <4>1. applied'[d] = applied[d]
        BY <1>6, <3>1
      <4>2. i \in DOMAIN applied[d]
        BY <4>1
      <4>3. <<d, applied[d][i]>> \in processed
        BY <4>2 DEF AppliedInv
      <4>4. processed \subseteq processed'
        BY <1>1
      <4> QED BY <4>1, <4>3, <4>4
    <3>2. CASE d = c /\ i \in DOMAIN applied[c]
      <4>1. applied'[d][i] = applied[c][i] /\ <<c, applied[c][i]>> \in processed
        BY <1>1, <1>3, <1>6, <3>2 DEF AppliedInv
      <4> QED BY <1>1, <3>2, <4>1
    <3>3. CASE d = c /\ i \notin DOMAIN applied[c]
      <4>1. i \in 1 .. Len(applied[c]) + 1
        BY <1>3, <1>6, <3>3
      <4>2. i = Len(applied[c]) + 1
        BY <1>3, <3>3, <4>1
      <4>3. applied'[d][i] = n
        BY <1>3, <1>6, <3>3, <4>2
      <4> QED BY <1>1, <3>3, <4>3
    <3> QED BY <3>1, <3>2, <3>3
  <2>2. \A i \in DOMAIN applied[c] : applied[c][i] # n
    BY <1>1 DEF AppliedInv
  <2>3. AppliedOnce'
    <3> SUFFICES ASSUME NEW d \in Subject, NEW i \in DOMAIN applied'[d],
                        NEW j \in DOMAIN applied'[d], applied'[d][i] = applied'[d][j]
                 PROVE  i = j
      BY DEF AppliedOnce
    <3>1. CASE d # c
      BY <1>6, <3>1 DEF AppliedInv, AppliedOnce
    <3>2. CASE d = c
      <4>1. \A k \in 1 .. Len(applied[c]) + 1 :
              k \in DOMAIN applied[c] \/ k = Len(applied[c]) + 1
        BY <1>3
      <4> QED BY <1>1, <1>3, <1>6, <2>2, <3>2, <4>1 DEF AppliedInv, AppliedOnce
    <3> QED BY <3>1, <3>2
  <2> QED BY <2>1, <2>3 DEF AppliedInv
<1> QED BY <1>4, <1>5, <1>7

(* The end of a delivery, acknowledged or rejected.                        *)
LEMMA EndIInv ==
    ASSUME IInv, NEW h \in Handler, Acknowledge(h) \/ Reject(h)
    PROVE  IInv'
<1> USE DEF IInv, historyVars, sourceVars, tableVars, Forget
<1>1. /\ Forget(h) /\ pc[h] # "idle" /\ UNCHANGED <<faults, ready, bound, dropped>>
      /\ held' = [held EXCEPT ![h] = None]
      /\ dead' = dead \/ dead' = [m \in Event |-> IF held[h] = m THEN dead[m] + 1 ELSE dead[m]]
  BY DEF Acknowledge, Reject, Queue!Ack, Queue!Reject
<1>2. TypeOK'
  BY <1>1 DEF TypeOK, HandlerStep, Row, Queue!TypeOK
<1>3. HandlerInv'
  BY <1>1 DEF TypeOK, HandlerInv, Told, Queue!TypeOK
<1>4. AppliedInv'
  BY <1>1 DEF AppliedInv, AppliedOnce
<1> QED BY <1>2, <1>3, <1>4

LEMMA TakeBackIInv ==
    ASSUME IInv, NEW h \in Handler, LoseConnection(h) \/ Crash(h)
    PROVE  IInv'
<1> USE DEF IInv, historyVars, sourceVars, tableVars
<1>1. Queue!TypeOK /\ Queue!TakeBack(h) /\ faults' \in 0 .. MaxFault
  BY FaultIsTyped DEF TypeOK, LoseConnection, Crash
<1>2. /\ Queue!TypeOK'
      /\ held[h] \in Event /\ held' = [held EXCEPT ![h] = None]
      /\ Len(ready) \in Nat /\ Len(ready') = Len(ready) + 1
      /\ ready'[1] = held[h]
      /\ \A i \in 2 .. Len(ready) + 1 : ready'[i] = ready[i - 1]
  BY <1>1, TakenBack
<1>3. /\ UNCHANGED <<historyVars, tableVars>>
      /\ UNCHANGED <<pc, cur, loaded>> \/ Forget(h)
  BY DEF LoseConnection, Crash, Forget
<1>4. TypeOK'
  BY <1>1, <1>2, <1>3 DEF TypeOK, HandlerStep, Row, Forget
<1>5. Told(held[h])
  BY <1>2, NoneAssumption DEF HandlerInv
<1>6. \A i \in DOMAIN ready' : ready'[i] = held[h] \/ \E j \in DOMAIN ready : ready'[i] = ready[j]
  <2>1. DOMAIN ready = 1 .. Len(ready) /\ DOMAIN ready' = 1 .. Len(ready')
    BY <1>1, <1>2 DEF Queue!TypeOK
  <2>2. ASSUME NEW i \in DOMAIN ready', i # 1 PROVE i - 1 \in DOMAIN ready /\ ready'[i] = ready[i - 1]
    BY <1>2, <2>1, <2>2
  <2> QED BY <1>2, <2>2
<1>7. HandlerInv'
  <2>1. held \in [Handler -> Event \cup {None}] /\ pc \in [Handler -> HandlerStep]
    BY DEF TypeOK, Queue!TypeOK
  <2>2. \A i \in DOMAIN ready' : Told(ready'[i])
    BY <1>5, <1>6 DEF HandlerInv, Told
  <2>3. CASE UNCHANGED <<pc, cur, loaded>>
    BY <1>2, <1>3, <2>1, <2>2, <2>3 DEF HandlerInv, Told
  <2>4. CASE Forget(h)
    BY <1>2, <1>3, <2>1, <2>2, <2>4 DEF TypeOK, HandlerInv, Told, Forget
  <2> QED BY <1>3, <2>3, <2>4
<1>8. AppliedInv'
  BY <1>3 DEF AppliedInv, AppliedOnce
<1> QED BY <1>4, <1>7, <1>8

LEMMA NextIInv == IInv /\ [Next]_vars => IInv'
<1> SUFFICES ASSUME IInv, [Next]_vars PROVE IInv'
  OBVIOUS
<1>1. ASSUME NEW h \in Handler, Work(h) PROVE IInv'
  BY <1>1, LocalIInv, SaveRowIInv, EndIInv DEF Work
<1>2. CASE UNCHANGED vars
  BY <1>2 DEF vars, IInv, TypeOK, Queue!TypeOK, HandlerInv, Told, AppliedInv, AppliedOnce
<1> QED
  BY <1>1, <1>2, AnnounceIInv, PublishIInv, DeclareIInv, ReceiveIInv, TakeBackIInv DEF Next

LEMMA Invariance == Safety => []IInv
<1>1. Safety => Init /\ [][Next]_vars
  BY DEF Safety
<1> QED BY InitIInv, NextIInv, <1>1, PTL

(* Every state is well typed: whatever races, no update leaves the row     *)
(* with the status of a row that is not there.                             *)
THEOREM TypeCorrect == Safety => []TypeOK
<1>1. IInv => TypeOK
  BY DEF IInv
<1> QED BY Invariance, <1>1, PTL

(* However many handlers race over however many copies, and whatever       *)
(* fails, an event is applied at most once.                                *)
THEOREM AppliesOnce == Safety => []AppliedOnce
<1>1. IInv => AppliedOnce
  BY DEF IInv, AppliedInv
<1> QED BY Invariance, <1>1, PTL

-----------------------------------------------------------------------------
(* The row.                                                                *)

Of(h, c) == cur[h] # None /\ cur[h][1] = c

(* A subject that was never handled twice at once has one handler, which   *)
(* knows the row as it is; a row shows an event that was announced.        *)
RowInv ==
    /\ \A c \in Subject \ overlapped : \A g, h \in Handler : Of(g, c) /\ Of(h, c) => g = h
    /\ \A h \in Handler : pc[h] = "save" /\ cur[h][1] \notin overlapped
                             => loaded[h] = projection[cur[h][1]]
    /\ \A c \in Subject : projection[c] # Absent => projection[c].last \in 1 .. Len(announced[c])
    /\ RowIsWhole

LEMMA WorkingOf ==
    ASSUME IInv, NEW h \in Handler, pc[h] # "idle"
    PROVE  cur[h] \in Event /\ cur[h][1] \in Subject /\ Of(h, cur[h][1])
  BY EventParts, NoneAssumption DEF IInv, HandlerInv, Of

LEMMA AnnounceRow ==
    ASSUME IInv, RowInv, NEW c \in Subject, Announce(c)
    PROVE  RowInv'
<1> USE DEF tableVars
<1>1. UNCHANGED <<tableVars, overlapped, pc, cur, loaded>>
  BY DEF Announce
<1>2. ASSUME NEW d \in Subject, projection[d] # Absent
      PROVE  /\ projection[d].last \in 1 .. Len(announced'[d])
             /\ announced'[d][projection[d].last] = announced[d][projection[d].last]
  <2>1. projection[d].last \in 1 .. Len(announced[d])
    BY <1>2 DEF RowInv
  <2>2. /\ Len(announced'[d]) >= Len(announced[d])
        /\ \A n \in 1 .. Len(announced[d]) : announced'[d][n] = announced[d][n]
    BY AnnounceIInv
  <2>3. Len(announced'[d]) \in Nat /\ Len(announced[d]) \in Nat
    BY AnnounceIInv DEF IInv, TypeOK
  <2> QED BY <2>1, <2>2, <2>3
<1> QED
  BY <1>1, <1>2 DEF RowInv, RowIsWhole, Of

LEMMA ReceiveRow ==
    ASSUME IInv, RowInv, NEW h \in Handler, Receive(h)
    PROVE  RowInv'
<1> USE DEF sourceVars, tableVars
<1>1. PICK e \in Event : /\ cur' = [cur EXCEPT ![h] = e]
                         /\ overlapped' = overlapped \cup {c \in {e[1]} : Busy(c)}
  BY DEF Receive
<1>2. /\ pc[h] = "idle" /\ pc' = [pc EXCEPT ![h] = "dedup"]
      /\ UNCHANGED <<sourceVars, tableVars, loaded>>
  BY DEF Receive, Step
<1>3. cur \in [Handler -> Event \cup {None}] /\ pc \in [Handler -> HandlerStep]
  BY DEF IInv, TypeOK
<1>4. ASSUME NEW c \in Subject \ overlapped', NEW f \in Handler, NEW g \in Handler,
             Of(f, c)', Of(g, c)'
      PROVE  f = g
  <2>1. c = e[1] => \A k \in Handler : ~Of(k, c)
    BY <1>1, <1>4 DEF Busy, Of
  <2>2. \A k \in Handler : Of(k, c)' => k = h \/ Of(k, c)
    BY <1>1, <1>3 DEF Of
  <2>3. Of(h, c)' => c = e[1]
    BY <1>1, <1>3 DEF Of
  <2> QED BY <1>1, <1>4, <2>1, <2>2, <2>3 DEF RowInv
<1>5. \A g \in Handler : pc'[g] = "save" => pc[g] = "save" /\ cur'[g] = cur[g]
  BY <1>1, <1>2, <1>3
<1> QED
  BY <1>1, <1>2, <1>4, <1>5 DEF RowInv, RowIsWhole

(* A handler goes on, or ends, without saving.                             *)
LEMMA IdleRow ==
    ASSUME IInv, RowInv, UNCHANGED <<historyVars, tableVars>>,
           \A h \in Handler : cur'[h] \in {cur[h], None},
           \A h \in Handler :
              pc'[h] = "save" => /\ cur'[h] = cur[h]
                                 /\ \/ pc[h] = "save" /\ loaded'[h] = loaded[h]
                                    \/ loaded'[h] = projection[cur[h][1]]
    PROVE  RowInv'
<1> USE DEF historyVars, sourceVars, tableVars
<1>1. \A h \in Handler, c \in Subject : Of(h, c)' => Of(h, c)
  BY DEF Of
<1> QED BY <1>1 DEF RowInv, RowIsWhole

LEMMA SaveRowRow ==
    ASSUME IInv, RowInv, NEW h \in Handler, SaveRow(h)
    PROVE  RowInv'
<1> DEFINE c == cur[h][1]
           n == cur[h][2]
           row == Overwritten(projection[c], loaded[h], announced[c][n], n)
<1>1. /\ cur[h] \in Event /\ Told(cur[h])
      /\ c \in Subject /\ n \in 1 .. MaxEvents /\ n \in Nat
      /\ pc[h] = "save" /\ pc' = [pc EXCEPT ![h] = "ack"]
      /\ projection' = [projection EXCEPT ![c] = row]
      /\ row \in [status : Status, last : {n}]
      /\ UNCHANGED <<historyVars, cur, loaded>>
  BY Saved
<1>2. c \notin overlapped => row.status = announced[c][n]
  <2>1. c \notin overlapped => loaded[h] = projection[c]
    BY <1>1 DEF RowInv
  <2> QED BY <2>1 DEF Overwritten
<1> HIDE DEF row
<1> USE DEF historyVars, sourceVars
<1>3. \A d \in Subject : projection'[d] = IF d = c THEN row ELSE projection[d]
  BY <1>1 DEF IInv, TypeOK
<1>4. row.last = n /\ n \in 1 .. Len(announced[c])
  <2>1. Len(announced[c]) \in Nat
    BY <1>1 DEF IInv, TypeOK
  <2> QED BY <1>1, <2>1 DEF Told
<1>5. ASSUME NEW g \in Handler, pc'[g] = "save", cur'[g][1] \notin overlapped'
      PROVE  loaded'[g] = projection'[cur'[g][1]]
  <2>1. g # h /\ pc[g] = "save" /\ cur'[g] = cur[g]
    BY <1>1, <1>5 DEF IInv, TypeOK
  <2>2. cur[g][1] \in Subject /\ Of(g, cur[g][1]) /\ Of(h, c)
    BY <1>1, <2>1, WorkingOf
  <2>3. cur[g][1] # c
    BY <1>1, <1>5, <2>1, <2>2 DEF RowInv
  <2> QED BY <1>1, <1>3, <1>5, <2>1, <2>2, <2>3 DEF RowInv
<1>6. \A d \in Subject : projection'[d] # Absent => projection'[d].last \in 1 .. Len(announced'[d])
  BY <1>1, <1>3, <1>4 DEF RowInv
<1>7. RowIsWhole'
  BY <1>1, <1>2, <1>3, <1>4 DEF RowInv, RowIsWhole
<1>8. \A d \in Subject \ overlapped' : \A f, g \in Handler : Of(f, d)' /\ Of(g, d)' => f = g
  BY <1>1 DEF RowInv, Of
<1> QED BY <1>5, <1>6, <1>7, <1>8 DEF RowInv

LEMMA NextRow == IInv /\ RowInv /\ [Next]_vars => RowInv'
<1> SUFFICES ASSUME IInv, RowInv, [Next]_vars PROVE RowInv'
  OBVIOUS
<1> USE DEF historyVars, sourceVars, tableVars
<1>1. pc \in [Handler -> HandlerStep] /\ cur \in [Handler -> Event \cup {None}]
      /\ loaded \in [Handler -> Row]
  BY DEF IInv, TypeOK
<1>2. ASSUME NEW e \in Event, PublishEvent(e) PROVE RowInv'
  <2>1. UNCHANGED <<announced, overlapped, tableVars, pc, cur, loaded>>
    BY <1>2 DEF PublishEvent
  <2> QED BY <2>1 DEF RowInv, RowIsWhole, Of
<1>3. CASE DeclareQueue \/ UNCHANGED vars
  <2>1. UNCHANGED <<announced, overlapped, tableVars, pc, cur, loaded>>
    BY <1>3 DEF DeclareQueue, vars
  <2> QED BY <2>1 DEF RowInv, RowIsWhole, Of
<1>4. ASSUME NEW h \in Handler,
             CheckProcessed(h) \/ LoadRow(h) \/ KeyViolation(h) \/ Throw(h)
      PROVE  RowInv'
  <2>1. /\ UNCHANGED <<historyVars, tableVars, cur>>
        /\ \A g \in Handler \ {h} : pc'[g] = pc[g] /\ loaded'[g] = loaded[g]
        /\ pc'[h] = "save" => loaded'[h] = projection[cur[h][1]]
    BY <1>1, <1>4 DEF CheckProcessed, LoadRow, KeyViolation, Throw, Step
  <2> QED BY <2>1, IdleRow
<1>5. ASSUME NEW h \in Handler, Acknowledge(h) \/ Reject(h) \/ Crash(h) \/ LoseConnection(h)
      PROVE  RowInv'
  <2>1. CASE Forget(h)
    <3>1. /\ UNCHANGED <<historyVars, tableVars>>
          /\ pc'[h] = "idle" /\ cur'[h] = None
          /\ \A g \in Handler \ {h} : pc'[g] = pc[g] /\ loaded'[g] = loaded[g] /\ cur'[g] = cur[g]
      BY <1>1, <2>1 DEF Forget
    <3> QED BY <3>1, IdleRow
  <2>2. CASE UNCHANGED <<historyVars, tableVars, pc, cur, loaded>>
    BY <2>2, IdleRow
  <2> QED BY <1>5, <2>1, <2>2 DEF Acknowledge, Reject, Crash, LoseConnection
<1> QED
  BY <1>2, <1>3, <1>4, <1>5, AnnounceRow, ReceiveRow, SaveRowRow DEF Next, Work

(* Unless two events of a subject were handled at once, its row is no mix  *)
(* of two, although only the columns that differ are written.              *)
THEOREM RowsAreWhole == Safety => []RowIsWhole
<1>1. Init => RowInv
  BY DEF Init, RowInv, RowIsWhole, Of
<1>2. RowInv => RowIsWhole
  BY DEF RowInv
<1>3. Safety => Init /\ [][Next]_vars
  BY DEF Safety
<1> QED BY Invariance, NextRow, <1>1, <1>2, <1>3, PTL

-----------------------------------------------------------------------------
(* The order.  Of a subject whose events did not go astray, every event    *)
(* handed over is processed, with a handler or in the queue; the earlier   *)
(* events of one in the queue are processed, with a handler or before it;  *)
(* those of one that is handled or processed are all processed.            *)
Queued(f, j) == \E i \in DOMAIN ready : i < j /\ ready[i] = f

OrderInv ==
    /\ \A e \in Event : ~Astray(e[1]) /\ handed[e] > 0
                           => e \in processed \/ Queue!InFlight(e) \/ Queue!Waiting(e)
    /\ \A j \in DOMAIN ready : ~Astray(ready[j][1]) =>
          \A f \in Before(ready[j]) : f \in processed \/ Queue!InFlight(f) \/ Queued(f, j)
    /\ \A h \in Handler : pc[h] # "idle" /\ ~Astray(cur[h][1]) => Before(cur[h]) \subseteq processed
    /\ \A e \in processed : ~Astray(e[1]) => Before(e) \subseteq processed
    /\ NeverGoesBack

(* A step that touches neither the queue nor what was applied.             *)
LEMMA QuietOrder ==
    ASSUME OrderInv,
           UNCHANGED <<handed, troubled, overlapped, processed, applied, cur,
                       ready, held, dead, dropped>>,
           \A h \in Handler : pc'[h] # "idle" => pc[h] # "idle"
    PROVE  OrderInv'
<1>1. \A x : Astray(x)' <=> Astray(x)
  BY DEF Astray
<1>2. \A x : /\ Queue!InFlight(x)' <=> Queue!InFlight(x)
             /\ Queue!Waiting(x)' <=> Queue!Waiting(x)
             /\ \A j : Queued(x, j)' <=> Queued(x, j)
  BY DEF Queue!InFlight, Queue!Waiting, Queued
<1> QED
  BY <1>1, <1>2 DEF OrderInv, NeverGoesBack, Before

LEMMA PublishOrder ==
    ASSUME IInv, OrderInv, NEW e \in Event, PublishEvent(e)
    PROVE  OrderInv'
<1> USE DEF tableVars
<1>1. /\ Queue!TypeOK /\ Queue!Publish(e)
      /\ handed \in [Event -> Nat] /\ handed' = [handed EXCEPT ![e] = @ + 1]
      /\ UNCHANGED <<overlapped, tableVars, pc, cur>>
  BY DEF IInv, TypeOK, PublishEvent
<1>2. /\ Queue!TypeOK' /\ UNCHANGED <<held, dead>>
      /\ \A f \in Event : dropped'[f] >= dropped[f]
      /\ \/ /\ Len(ready') = Len(ready) + 1 /\ Len(ready) \in Nat
            /\ ready'[Len(ready) + 1] = e
            /\ \A i \in 1 .. Len(ready) : ready'[i] = ready[i]
         \/ ready' = ready /\ dropped'[e] > 0
  BY <1>1, Published
<1>3. /\ dropped \in [Event -> Nat] /\ dropped' \in [Event -> Nat]
      /\ DOMAIN ready = 1 .. Len(ready) /\ DOMAIN ready' = 1 .. Len(ready')
      /\ Len(ready) \in Nat /\ \A i \in DOMAIN ready : ready[i] \in Event
  <2>1. ready \in Seq(Event) /\ ready' \in Seq(Event)
    BY <1>1, <1>2 DEF Queue!TypeOK
  <2>2. dropped \in [Event -> Nat] /\ dropped' \in [Event -> Nat]
    BY <1>1, <1>2 DEF Queue!TypeOK
  <2> QED BY <2>1, <2>2
<1>4. troubled \subseteq troubled'
  BY DEF PublishEvent
<1>5. \A c \in Subject : Astray(c) => Astray(c)'
  <2>1. \A c \in Subject, n \in 1 .. MaxEvents :
          dropped[<<c, n>>] > 0 => dropped'[<<c, n>>] > 0
    <3> SUFFICES ASSUME NEW c \in Subject, NEW n \in 1 .. MaxEvents, dropped[<<c, n>>] > 0
                 PROVE  dropped'[<<c, n>>] > 0
      OBVIOUS
    <3>1. PICK f \in Event : f = <<c, n>>
      BY DEF Event
    <3>2. dropped[f] \in Nat /\ dropped'[f] \in Nat /\ dropped'[f] >= dropped[f]
      BY <1>2, <1>3
    <3> QED BY <3>1, <3>2
  <2> QED BY <1>1, <1>2, <1>4, <2>1 DEF Astray
<1>6. ~Astray(e[1])' => ready' # ready
  <2>1. e[2] \in 1 .. MaxEvents /\ e = <<e[1], e[2]>>
    BY EventParts
  <2>2. dropped'[e] > 0 => Astray(e[1])'
    BY <2>1 DEF Astray
  <2>3. Len(ready') = Len(ready) + 1 => ready' # ready
    BY <1>3
  <2> QED BY <1>2, <2>2, <2>3
<1>7. \A i \in DOMAIN ready : i \in DOMAIN ready' /\ ready'[i] = ready[i]
  <2>1. CASE ready' = ready
    BY <2>1
  <2>2. CASE ready' # ready
    <3>1. DOMAIN ready' = 1 .. Len(ready) + 1
      BY <1>2, <1>3, <2>2
    <3>2. DOMAIN ready = 1 .. Len(ready) /\ Len(ready) \in Nat
      BY <1>3
    <3>3. \A i \in 1 .. Len(ready) : ready'[i] = ready[i]
      BY <1>2, <2>2
    <3>4. \A i \in 1 .. Len(ready) : i \in 1 .. Len(ready) + 1
      BY <3>2
    <3> QED BY <3>1, <3>2, <3>3, <3>4
  <2> QED BY <2>1, <2>2
<1>8. \A x : (Queue!InFlight(x) <=> Queue!InFlight(x)') /\ (Queue!Waiting(x) => Queue!Waiting(x)')
             /\ \A j : Queued(x, j) => Queued(x, j)'
  BY <1>2, <1>7 DEF Queue!InFlight, Queue!Waiting, Queued
<1>9. ASSUME ready' # ready
      PROVE  /\ Len(ready) + 1 \in DOMAIN ready' /\ ready'[Len(ready) + 1] = e
             /\ \A j \in DOMAIN ready' : j = Len(ready) + 1 \/ j \in DOMAIN ready
  <2>1. DOMAIN ready' = 1 .. Len(ready) + 1 /\ ready'[Len(ready) + 1] = e
    BY <1>2, <1>3, <1>9
  <2> QED BY <1>3, <2>1
<1>10. ASSUME NEW f \in Event, ~Astray(f[1])', handed'[f] > 0
       PROVE  f \in processed' \/ Queue!InFlight(f)' \/ Queue!Waiting(f)'
  <2>1. CASE f = e
    BY <1>6, <1>9, <1>10, <2>1 DEF Queue!Waiting
  <2>2. CASE f # e
    <3>1. handed[f] > 0 /\ ~Astray(f[1])
      BY <1>1, <1>5, <1>10, <2>2, EventParts
    <3> QED BY <1>1, <1>8, <3>1 DEF OrderInv
  <2> QED BY <2>1, <2>2
<1>11. ASSUME NEW j \in DOMAIN ready', ~Astray(ready[j][1])', NEW f \in Before(ready'[j])
       PROVE  f \in processed' \/ Queue!InFlight(f)' \/ Queued(f, j)'
  <2>1. CASE j \in DOMAIN ready
    <3>1. ready'[j] = ready[j] /\ ~Astray(ready[j][1])
      BY <1>3, <1>5, <1>7, <1>11, <2>1, EventParts
    <3> QED BY <1>1, <1>8, <1>11, <2>1, <3>1 DEF OrderInv
  <2>2. CASE j \notin DOMAIN ready
    <3>1. ready' # ready
      BY <2>2
    <3>2. j = Len(ready) + 1 /\ ready'[j] = e
      BY <1>9, <2>2, <3>1
    <3>3. f \in Event /\ f[1] = e[1]
      BY <1>11, <3>2, Earlier
    <3>4. ~Astray(f[1])' /\ ~Astray(f[1])
      BY <1>5, <1>11, <3>2, <3>3, EventParts
    <3>5. handed[f] > 0
      <4>1. PICK n \in 1 .. e[2] - 1 : f = <<e[1], n>>
        BY <1>11, <3>2 DEF Before
      <4>2. e[1] \notin troubled'
        BY <3>3, <3>4 DEF Astray
      <4>3. handed[f] # 0
        BY <4>1, <4>2 DEF PublishEvent
      <4> QED BY <1>1, <3>3, <4>3
    <3>6. f \in processed \/ Queue!InFlight(f) \/ Queue!Waiting(f)
      BY <3>3, <3>4, <3>5 DEF OrderInv
    <3>7. Queue!Waiting(f) => Queued(f, j)'
      BY <1>3, <1>7, <3>2 DEF Queue!Waiting, Queued
    <3> QED BY <1>1, <1>8, <3>6, <3>7
  <2> QED BY <2>1, <2>2
<1>12. \A h \in Handler : pc'[h] # "idle" /\ ~Astray(cur[h][1])' => Before(cur'[h]) \subseteq processed'
  <2>1. \A h \in Handler : pc[h] # "idle" => cur[h][1] \in Subject
    BY EventParts DEF IInv, HandlerInv
  <2> QED BY <1>1, <1>5, <2>1 DEF OrderInv
<1>13. \A f \in processed' : ~Astray(f[1])' => Before(f) \subseteq processed'
  <2>1. \A f \in processed : f[1] \in Subject
    BY EventParts DEF IInv, TypeOK
  <2> QED BY <1>1, <1>5, <2>1 DEF OrderInv
<1>14. NeverGoesBack'
  BY <1>1, <1>5 DEF OrderInv, NeverGoesBack
<1> QED BY <1>10, <1>11, <1>12, <1>13, <1>14 DEF OrderInv, Before

LEMMA ReceiveOrder ==
    ASSUME IInv, OrderInv, NEW h \in Handler, Receive(h)
    PROVE  OrderInv'
<1> USE DEF sourceVars, tableVars
<1>1. PICK e \in Event : /\ Queue!Deliver(h, e) /\ cur' = [cur EXCEPT ![h] = e]
                         /\ overlapped' = overlapped \cup {c \in {e[1]} : Busy(c)}
  BY DEF Receive
<1>2. /\ Queue!TypeOK /\ pc[h] = "idle" /\ pc' = [pc EXCEPT ![h] = "dedup"]
      /\ UNCHANGED <<sourceVars, tableVars>>
      /\ pc \in [Handler -> HandlerStep] /\ cur \in [Handler -> Event \cup {None}]
      /\ e[1] \in Subject
  BY EventParts DEF IInv, TypeOK, Receive, Step
<1>3. /\ Queue!TypeOK'
      /\ held[h] = None /\ held' = [held EXCEPT ![h] = e]
      /\ UNCHANGED <<dead, dropped>>
      /\ Len(ready) \in Nat \ {0} /\ Len(ready') = Len(ready) - 1
      /\ ready[1] = e
      /\ \A i \in 1 .. Len(ready) - 1 : ready'[i] = ready[i + 1]
  BY <1>1, <1>2, Delivered
<1>4. /\ DOMAIN ready = 1 .. Len(ready) /\ DOMAIN ready' = 1 .. Len(ready')
      /\ \A i \in DOMAIN ready : ready[i] \in Event
      /\ held \in [Handler -> Event \cup {None}]
  BY <1>2, <1>3 DEF Queue!TypeOK
<1>5. \A c : Astray(c) => Astray(c)'
  BY <1>1, <1>2, <1>3 DEF Astray
<1>6. \A j \in DOMAIN ready' : j + 1 \in DOMAIN ready /\ ready'[j] = ready[j + 1] /\ j \in Nat
  BY <1>3, <1>4
<1>7. \A i \in DOMAIN ready : i = 1 \/ (i - 1 \in DOMAIN ready' /\ ready'[i - 1] = ready[i])
  BY <1>3, <1>4
<1>8. \A f \in Event : Queue!InFlight(f) => Queue!InFlight(f)'
  BY <1>3, <1>4, NoneAssumption DEF Queue!InFlight
<1>9. Queue!InFlight(e)'
  BY <1>3, <1>4 DEF Queue!InFlight
<1>10. ~Astray(e[1])' => Before(e) \subseteq processed
  <2> SUFFICES ASSUME ~Astray(e[1])', NEW f \in Before(e) PROVE f \in processed
    OBVIOUS
  <2>1. f \in Event /\ f[1] = e[1]
    BY Earlier
  <2>2. ~Queue!InFlight(f)
    <3>1. SUFFICES ASSUME NEW g \in Handler, held[g] = f PROVE FALSE
      BY DEF Queue!InFlight
    <3>2. cur[g] = f /\ cur[g] # None
      BY <2>1, <3>1, NoneAssumption DEF IInv, HandlerInv
    <3>3. Busy(e[1])
      BY <2>1, <3>2 DEF Busy
    <3>4. e[1] \in overlapped'
      BY <1>1, <3>3
    <3> QED BY <3>4 DEF Astray
  <2>3. ~Queued(f, 1)
    BY <1>4 DEF Queued
  <2>4. 1 \in DOMAIN ready /\ ready[1] = e /\ ~Astray(e[1])
    BY <1>3, <1>4, <1>5
  <2> QED BY <2>2, <2>3, <2>4 DEF OrderInv
<1>11. ASSUME NEW f \in Event, ~Astray(f[1])', handed'[f] > 0
       PROVE  f \in processed' \/ Queue!InFlight(f)' \/ Queue!Waiting(f)'
  <2>1. f \in processed \/ Queue!InFlight(f) \/ Queue!Waiting(f)
    BY <1>2, <1>5, <1>11 DEF OrderInv
  <2>2. Queue!Waiting(f) => f = e \/ Queue!Waiting(f)'
    BY <1>3, <1>7 DEF Queue!Waiting
  <2> QED BY <1>2, <1>8, <1>9, <2>1, <2>2
<1>12. ASSUME NEW j \in DOMAIN ready', ~Astray(ready[j][1])', NEW f \in Before(ready'[j])
       PROVE  f \in processed' \/ Queue!InFlight(f)' \/ Queued(f, j)'
  <2>1. /\ j + 1 \in DOMAIN ready /\ ready'[j] = ready[j + 1] /\ j \in Nat
        /\ ready[j + 1] \in Event
    BY <1>4, <1>6
  <2>2. f \in Event
    BY <1>12, <2>1, Earlier
  <2>3. f \in processed \/ Queue!InFlight(f) \/ Queued(f, j + 1)
    BY <1>5, <1>12, <2>1 DEF OrderInv
  <2>4. ASSUME Queued(f, j + 1) PROVE f = e \/ Queued(f, j)'
    <3>1. PICK i \in DOMAIN ready : i < j + 1 /\ ready[i] = f
      BY <2>4 DEF Queued
    <3>2. CASE i = 1
      BY <1>3, <3>1, <3>2
    <3>3. CASE i # 1
      <4>1. i - 1 \in DOMAIN ready' /\ ready'[i - 1] = f /\ i - 1 < j
        BY <1>4, <1>7, <2>1, <3>1, <3>3
      <4> QED BY <4>1 DEF Queued
    <3> QED BY <3>2, <3>3
  <2> QED BY <1>2, <1>8, <1>9, <2>2, <2>3, <2>4
<1>13. \A g \in Handler : pc'[g] # "idle" /\ ~Astray(cur[g][1])' => Before(cur'[g]) \subseteq processed'
  <2>1. cur'[h] = e /\ \A g \in Handler \ {h} : cur'[g] = cur[g] /\ pc'[g] = pc[g]
    BY <1>1, <1>2
  <2> QED BY <1>2, <1>5, <1>10, <2>1 DEF OrderInv
<1>14. (\A f \in processed' : ~Astray(f[1])' => Before(f) \subseteq processed') /\ NeverGoesBack'
  BY <1>2, <1>5 DEF OrderInv, NeverGoesBack
<1> QED BY <1>11, <1>12, <1>13, <1>14 DEF OrderInv, Before

LEMMA SaveRowOrder ==
    ASSUME IInv, OrderInv, NEW h \in Handler, SaveRow(h)
    PROVE  OrderInv'
<1> DEFINE c == cur[h][1]
           n == cur[h][2]
<1>1. /\ cur[h] \in Event /\ cur[h] \notin processed
      /\ c \in Subject /\ n \in 1 .. MaxEvents /\ n \in Nat /\ cur[h] = <<c, n>>
      /\ pc[h] = "save" /\ pc' = [pc EXCEPT ![h] = "ack"]
      /\ applied' = [applied EXCEPT ![c] = Append(@, n)]
      /\ processed' = processed \cup {cur[h]}
      /\ UNCHANGED <<historyVars, queueVars, cur>>
  BY Saved
<1> USE DEF historyVars, sourceVars, queueVars
<1>2. \A x : Astray(x)' <=> Astray(x)
  BY <1>1 DEF Astray
<1>3. \A x : /\ Queue!InFlight(x)' <=> Queue!InFlight(x)
             /\ Queue!Waiting(x)' <=> Queue!Waiting(x)
             /\ \A j : Queued(x, j)' <=> Queued(x, j)
  BY <1>1 DEF Queue!InFlight, Queue!Waiting, Queued
<1>4. ~Astray(c) => Before(cur[h]) \subseteq processed
  BY <1>1 DEF OrderInv
<1>5. ASSUME ~Astray(c), NEW i \in DOMAIN applied[c] PROVE applied[c][i] < n
  <2> DEFINE k == applied[c][i]
  <2>1. k \in 1 .. MaxEvents /\ k \in Nat
    BY <1>1, <1>5, BoundsAssumption DEF IInv, TypeOK
  <2>2. <<c, k>> \in processed /\ <<c, k>> \in Event
    BY <1>1, <1>5, <2>1 DEF IInv, AppliedInv, Event
  <2>3. k # n
    BY <1>1, <2>2
  <2>4. ~(n < k)
    <3>1. SUFFICES ASSUME n < k PROVE FALSE
      OBVIOUS
    <3>2. cur[h] \in Before(<<c, k>>)
      BY <1>1, <2>2, <3>1, InOrder
    <3> QED BY <1>1, <1>5, <2>2, <3>2 DEF OrderInv
  <2> QED BY <1>1, <2>1, <2>3, <2>4
<1>6. NeverGoesBack'
  <2> SUFFICES ASSUME NEW d \in Subject, ~Astray(d), NEW i \in DOMAIN applied'[d],
                      NEW j \in DOMAIN applied'[d], i < j
               PROVE  applied'[d][i] < applied'[d][j]
    BY <1>2 DEF NeverGoesBack
  <2>1. CASE d # c
    <3>1. applied'[d] = applied[d]
      BY <1>1, <2>1 DEF IInv, TypeOK
    <3> QED BY <3>1 DEF OrderInv, NeverGoesBack
  <2>2. CASE d = c
    <3>1. applied[c] \in Seq(1 .. MaxEvents) /\ applied'[c] = Append(applied[c], n)
      BY <1>1 DEF IInv, TypeOK
    <3>2. /\ Len(applied[c]) \in Nat /\ DOMAIN applied[c] = 1 .. Len(applied[c])
          /\ DOMAIN applied'[c] = 1 .. Len(applied[c]) + 1
          /\ applied'[c][Len(applied[c]) + 1] = n
          /\ \A k \in DOMAIN applied[c] : applied'[c][k] = applied[c][k]
      BY <1>1, <3>1
    <3>3. i \in DOMAIN applied[c] /\ applied'[c][i] = applied[c][i]
      BY <2>2, <3>2
    <3>4. CASE j \in DOMAIN applied[c]
      BY <2>2, <3>2, <3>3, <3>4 DEF OrderInv, NeverGoesBack
    <3>5. CASE j \notin DOMAIN applied[c]
      <4>1. j = Len(applied[c]) + 1
        BY <2>2, <3>2, <3>5
      <4> QED BY <1>5, <2>2, <3>2, <3>3, <4>1
    <3> QED BY <3>4, <3>5
  <2> QED BY <2>1, <2>2
<1>7. \A g \in Handler : pc'[g] # "idle" /\ ~Astray(cur[g][1])' => Before(cur'[g]) \subseteq processed'
  <2>1. \A g \in Handler : pc'[g] # "idle" => pc[g] # "idle"
    BY <1>1 DEF IInv, TypeOK
  <2> QED BY <1>1, <1>2, <2>1 DEF OrderInv
<1>8. \A f \in processed' : ~Astray(f[1])' => Before(f) \subseteq processed'
  BY <1>1, <1>2, <1>4 DEF OrderInv
<1> QED
  BY <1>1, <1>2, <1>3, <1>6, <1>7, <1>8 DEF OrderInv, Before

(* A handler gives its delivery up: what it held is processed, or its      *)
(* subject has a dead letter now.                                          *)
LEMMA EndOrder ==
    ASSUME IInv, OrderInv, NEW h \in Handler, Acknowledge(h) \/ Reject(h)
    PROVE  OrderInv'
<1> USE DEF historyVars, sourceVars, tableVars
<1>1. /\ Forget(h) /\ UNCHANGED <<ready, dropped>>
      /\ held' = [held EXCEPT ![h] = None]
      /\ held \in [Handler -> Event \cup {None}]
      /\ pc \in [Handler -> HandlerStep] /\ cur \in [Handler -> Event \cup {None}]
      /\ dead \in [Event -> Nat]
  BY DEF IInv, TypeOK, Queue!TypeOK, Acknowledge, Reject, Queue!Ack, Queue!Reject
<1>2. /\ dead' \in [Event -> Nat] /\ \A f \in Event : dead'[f] >= dead[f]
      /\ held[h] \in Event => held[h] \in processed \/ dead'[held[h]] > 0
  <2>1. CASE Acknowledge(h)
    BY <1>1, <2>1, NoneAssumption DEF Acknowledge, Queue!Ack, IInv, HandlerInv
  <2>2. CASE Reject(h)
    BY <1>1, <2>2 DEF Reject, Queue!Reject
  <2> QED BY <2>1, <2>2
<1>3. \A c \in Subject : Astray(c) => Astray(c)'
  <2>1. \A c \in Subject, n \in 1 .. MaxEvents : dead[<<c, n>>] > 0 => dead'[<<c, n>>] > 0
    BY <1>1, <1>2 DEF Event
  <2> QED BY <1>1, <2>1 DEF Astray, Forget
<1>4. ASSUME NEW f \in Event, ~Astray(f[1])', Queue!InFlight(f)
      PROVE  f \in processed \/ Queue!InFlight(f)'
  <2>1. CASE held[h] = f
    <3>1. f[2] \in 1 .. MaxEvents /\ f = <<f[1], f[2]>>
      BY EventParts
    <3>2. ~(dead'[f] > 0)
      BY <1>4, <3>1 DEF Astray
    <3> QED BY <1>2, <2>1, <3>2
  <2>2. CASE held[h] # f
    BY <1>1, <1>4, <2>2 DEF Queue!InFlight
  <2> QED BY <2>1, <2>2
<1>5. \A x : (Queue!Waiting(x)' <=> Queue!Waiting(x)) /\ \A j : Queued(x, j)' <=> Queued(x, j)
  BY <1>1 DEF Queue!Waiting, Queued
<1>6. UNCHANGED <<handed, processed, applied>>
  BY <1>1 DEF Forget
<1>7. \A f \in Event : ~Astray(f[1])' /\ handed'[f] > 0
                          => f \in processed' \/ Queue!InFlight(f)' \/ Queue!Waiting(f)'
  BY <1>3, <1>4, <1>5, <1>6, EventParts DEF OrderInv
<1>8. ASSUME NEW j \in DOMAIN ready', ~Astray(ready[j][1])', NEW f \in Before(ready'[j])
      PROVE  f \in processed' \/ Queue!InFlight(f)' \/ Queued(f, j)'
  <2>1. j \in DOMAIN ready /\ ready'[j] = ready[j] /\ ready[j] \in Event
    BY <1>1, <1>8 DEF IInv, TypeOK, Queue!TypeOK
  <2>2. f \in Event /\ f[1] = ready[j][1] /\ f[1] \in Subject
    BY <1>8, <2>1, Earlier, EventParts
  <2> QED BY <1>3, <1>4, <1>5, <1>6, <1>8, <2>1, <2>2 DEF OrderInv
<1>9. \A g \in Handler : pc'[g] # "idle" /\ ~Astray(cur[g][1])' => Before(cur'[g]) \subseteq processed'
  <2>1. \A g \in Handler : pc'[g] # "idle" => pc[g] # "idle" /\ cur'[g] = cur[g]
    BY <1>1 DEF Forget
  <2>2. \A g \in Handler : pc[g] # "idle" => cur[g][1] \in Subject
    BY EventParts DEF IInv, HandlerInv
  <2> QED BY <1>3, <1>6, <2>1, <2>2 DEF OrderInv
<1>10. \A f \in processed' : ~Astray(f[1])' => Before(f) \subseteq processed'
  <2>1. \A f \in processed : f[1] \in Subject
    BY EventParts DEF IInv, TypeOK
  <2> QED BY <1>3, <1>6, <2>1 DEF OrderInv
<1>11. NeverGoesBack'
  BY <1>3, <1>6 DEF OrderInv, NeverGoesBack
<1> QED BY <1>7, <1>8, <1>9, <1>10, <1>11 DEF OrderInv, Before

LEMMA TakeBackOrder ==
    ASSUME IInv, OrderInv, NEW h \in Handler, LoseConnection(h) \/ Crash(h)
    PROVE  OrderInv'
<1> USE DEF historyVars, sourceVars, tableVars
<1>1. /\ Queue!TypeOK /\ Queue!TakeBack(h)
      /\ UNCHANGED <<historyVars, tableVars>>
      /\ UNCHANGED <<pc, cur>> \/ Forget(h)
      /\ pc \in [Handler -> HandlerStep] /\ cur \in [Handler -> Event \cup {None}]
  BY DEF IInv, TypeOK, LoseConnection, Crash, Forget
<1>2. /\ Queue!TypeOK'
      /\ held[h] \in Event /\ held' = [held EXCEPT ![h] = None]
      /\ UNCHANGED <<dead, dropped>>
      /\ Len(ready) \in Nat /\ Len(ready') = Len(ready) + 1
      /\ ready'[1] = held[h]
      /\ \A i \in 2 .. Len(ready) + 1 : ready'[i] = ready[i - 1]
  BY <1>1, TakenBack
<1>3. /\ DOMAIN ready = 1 .. Len(ready) /\ DOMAIN ready' = 1 .. Len(ready')
      /\ held \in [Handler -> Event \cup {None}]
      /\ 1 \in DOMAIN ready'
      /\ \A i \in DOMAIN ready : ready[i] \in Event
  <2>1. ready \in Seq(Event) /\ ready' \in Seq(Event) /\ held \in [Handler -> Event \cup {None}]
    BY <1>1, <1>2 DEF Queue!TypeOK
  <2> QED BY <1>2, <2>1
<1>4. \A x : Astray(x)' <=> Astray(x)
  BY <1>1, <1>2 DEF Astray
<1>5. \A i \in DOMAIN ready : i + 1 \in DOMAIN ready' /\ ready'[i + 1] = ready[i] /\ i \in Nat
  <2> SUFFICES ASSUME NEW i \in DOMAIN ready
               PROVE  i + 1 \in DOMAIN ready' /\ ready'[i + 1] = ready[i] /\ i \in Nat
    OBVIOUS
  <2>1. i \in Nat /\ i + 1 \in 2 .. Len(ready) + 1 /\ (i + 1) - 1 = i
    BY <1>2, <1>3
  <2> QED BY <1>2, <1>3, <2>1
<1>6. \A x : Queue!InFlight(x) => x = held[h] \/ Queue!InFlight(x)'
  BY <1>2, <1>3 DEF Queue!InFlight
<1>7. \A x : Queue!Waiting(x) => Queue!Waiting(x)'
  BY <1>5 DEF Queue!Waiting
<1>8. \A x : x = held[h] => Queue!Waiting(x)'
  BY <1>2, <1>3 DEF Queue!Waiting
<1>9. ~Astray(held[h][1]) => Before(held[h]) \subseteq processed
  <2>1. pc[h] # "idle" /\ held[h] = cur[h]
    BY <1>2, NoneAssumption DEF IInv, HandlerInv
  <2> QED BY <2>1 DEF OrderInv
<1>10. \A f \in Event : ~Astray(f[1])' /\ handed'[f] > 0
                          => f \in processed' \/ Queue!InFlight(f)' \/ Queue!Waiting(f)'
  BY <1>1, <1>4, <1>6, <1>7, <1>8 DEF OrderInv
<1>11. ASSUME NEW j \in DOMAIN ready', ~Astray(ready[j][1])', NEW f \in Before(ready'[j])
       PROVE  f \in processed' \/ Queue!InFlight(f)' \/ Queued(f, j)'
  <2>1. CASE j = 1
    BY <1>1, <1>2, <1>4, <1>9, <1>11, <2>1
  <2>2. CASE j # 1
    <3>1. j - 1 \in DOMAIN ready /\ j \in Nat /\ 1 < j /\ ready'[j] = ready[j - 1]
      BY <1>2, <1>3, <1>11, <2>2
    <3>2. f \in processed \/ Queue!InFlight(f) \/ Queued(f, j - 1)
      BY <1>4, <1>11, <3>1 DEF OrderInv
    <3>3. f = held[h] => Queued(f, j)'
      BY <1>2, <1>3, <3>1 DEF Queued
    <3>4. ASSUME Queued(f, j - 1) PROVE Queued(f, j)'
      <4>1. PICK i \in DOMAIN ready : i < j - 1 /\ ready[i] = f
        BY <3>4 DEF Queued
      <4>2. i + 1 \in DOMAIN ready' /\ ready'[i + 1] = f /\ i + 1 < j
        BY <1>5, <3>1, <4>1
      <4> QED BY <4>2 DEF Queued
    <3> QED BY <1>1, <1>6, <3>2, <3>3, <3>4
  <2> QED BY <2>1, <2>2
<1>12. \A g \in Handler : pc'[g] # "idle" /\ ~Astray(cur[g][1])' => Before(cur'[g]) \subseteq processed'
  <2>1. \A g \in Handler : pc'[g] # "idle" => pc[g] # "idle" /\ cur'[g] = cur[g]
    BY <1>1 DEF Forget
  <2> QED BY <1>1, <1>4, <2>1 DEF OrderInv
<1>13. (\A f \in processed' : ~Astray(f[1])' => Before(f) \subseteq processed') /\ NeverGoesBack'
  BY <1>1, <1>4 DEF OrderInv, NeverGoesBack
<1> QED BY <1>10, <1>11, <1>12, <1>13 DEF OrderInv, Before

LEMMA NextOrder == IInv /\ OrderInv /\ [Next]_vars => OrderInv'
<1> SUFFICES ASSUME IInv, OrderInv, [Next]_vars PROVE OrderInv'
  OBVIOUS
<1> USE DEF historyVars, sourceVars, tableVars, queueVars
<1>1. ASSUME NEW c \in Subject, Announce(c) PROVE OrderInv'
  BY <1>1, QuietOrder DEF Announce
<1>2. CASE DeclareQueue \/ UNCHANGED vars
  BY <1>2, QuietOrder DEF DeclareQueue, Queue!Declare, vars
<1>3. ASSUME NEW h \in Handler,
             CheckProcessed(h) \/ LoadRow(h) \/ KeyViolation(h) \/ Throw(h)
      PROVE  OrderInv'
  <2>1. /\ UNCHANGED <<historyVars, tableVars, queueVars, cur>> /\ pc[h] # "idle"
        /\ \A g \in Handler \ {h} : pc'[g] = pc[g]
    BY <1>3 DEF CheckProcessed, LoadRow, KeyViolation, Throw, Step, IInv, TypeOK
  <2> QED BY <2>1, QuietOrder
<1> QED
  BY <1>1, <1>2, <1>3, PublishOrder, ReceiveOrder, SaveRowOrder, EndOrder, TakeBackOrder
     DEF Next, Work

(* While the events of a subject do not go astray they are applied in the  *)
(* order they were announced, through duplicates, redeliveries, failed     *)
(* calls and crashes: the status the public side shows never goes back.    *)
THEOREM Order == Safety => []NeverGoesBack
<1>1. Init => OrderInv
  <2> SUFFICES ASSUME Init PROVE OrderInv
    OBVIOUS
  <2>1. ready = <<>> /\ processed = {} /\ applied = [c \in Subject |-> <<>>]
        /\ handed = [e \in Event |-> 0] /\ pc = [h \in Handler |-> "idle"]
    BY DEF Init, Queue!Init
  <2> QED BY <2>1 DEF OrderInv, NeverGoesBack
<1>2. OrderInv => NeverGoesBack
  BY DEF OrderInv
<1>3. Safety => Init /\ [][Next]_vars
  BY DEF Safety
<1> QED BY Invariance, NextOrder, <1>1, <1>2, <1>3, PTL

=============================================================================
