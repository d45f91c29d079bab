---------------------------- MODULE CaseWorkProofs ----------------------------
(***************************************************************************)
(* Theorems about CaseWork, for any number of cases, requests and users,   *)
(* and for every transition relation: nothing is used of the state         *)
(* machines of claims and quotes.                                          *)
(***************************************************************************)
EXTENDS CaseWork, TLAPS

(* What a request that waits to save has loaded: a status the case had at  *)
(* some time, no assignee while there was none, and if no other request    *)
(* had the case loaded, the case as it is.                                 *)
LoadedInv ==
    \A r \in Request :
        LET c == target[r]
        IN pc[r] = "loaded" =>
              /\ \E j \in DOMAIN audit[c] : audit[c][j].to = loaded[r].status
              /\ assigned[c] = <<>> => loaded[r].assignee = Nobody
              /\ c \notin overlapped => loaded[r] = [status |-> status[c],
                                                     assignee |-> assignee[c]]
              /\ DecidedForGood(c) => loaded[r].status \in StartStatus[c]

(* What a worker decided for good is as it was decided.                    *)
DecidedInv == \A c \in Case : DecidedForGood(c) => status[c] \in StartStatus[c]

(* The history variable misses no overlap.                                 *)
OverlapInv == \A c \in Case : Overlaps(c) => c \in overlapped

(* An audit trail is never empty: it starts with the worker's decision.    *)
StartedInv == \A c \in Case : Len(audit[c]) > 0

IInv ==
    /\ TypeOK
    /\ LoadedInv
    /\ DecidedInv
    /\ OverlapInv
    /\ StartedInv
    /\ TrailIsWhole
    /\ AssigneeIsAudited

Noted == overlapped' = overlapped \cup {c \in Case : Overlaps(c)'}

(* A sequence of one.                                                      *)
LEMMA One == ASSUME NEW x
             PROVE  Len(<<x>>) = 1 /\ DOMAIN <<x>> = {1} /\ <<x>>[1] = x
  OBVIOUS

-----------------------------------------------------------------------------
LEMMA InitIInv == Init => IInv
<1> SUFFICES ASSUME Init
             PROVE  IInv
  OBVIOUS
<1>1. \A c \in Case :
         /\ StartFrom[c] \in Status /\ status[c] \in Status
         /\ audit[c] = <<[from |-> StartFrom[c], to |-> status[c]]>>
         /\ announced[c] = <<status[c]>>
         /\ assigned[c] = <<>> /\ assignee[c] = Nobody
  BY StatusAssumption DEF Init
<1>2. TypeOK
  <2>1. audit \in [Case -> Seq(Change)]
    <3>1. \A c \in Case : [from |-> StartFrom[c], to |-> status[c]] \in Change
      BY <1>1 DEF Change
    <3> QED
      BY <3>1 DEF Init
  <2>2. announced \in [Case -> Seq(Status)] /\ assigned \in [Case -> Seq(Staff)]
    BY <1>1 DEF Init
  <2>3. loaded \in [Request -> Loaded]
    BY <1>1 DEF Init, Loaded
  <2> QED
    BY <2>1, <2>2, <2>3 DEF Init, TypeOK, RequestState
<1>3. LoadedInv /\ DecidedInv /\ OverlapInv
  BY DEF Init, LoadedInv, DecidedInv, OverlapInv, Overlaps, LoadedBy
<1>4. StartedInv
  <2> SUFFICES ASSUME NEW c \in Case
               PROVE  Len(audit[c]) > 0
    BY DEF StartedInv
  <2>1. Len(audit[c]) = 1
    BY <1>1, One
  <2> QED
    BY <2>1
<1>5. TrailIsWhole
  <2> SUFFICES ASSUME NEW c \in Case
               PROVE  /\ LastOf(audit[c]).to = status[c]
                      /\ Len(announced[c]) = Len(audit[c])
                      /\ \A i \in DOMAIN audit[c] : announced[c][i] = audit[c][i].to
                      /\ \A i \in 2 .. Len(audit[c]) :
                            /\ Valid(c, audit[c][i].from, audit[c][i].to)
                            /\ \E j \in 1 .. i - 1 : audit[c][j].to = audit[c][i].from
    BY DEF TrailIsWhole
  <2> DEFINE change == [from |-> StartFrom[c], to |-> status[c]]
  <2>0. audit[c] = <<change>> /\ announced[c] = <<status[c]>> /\ change.to = status[c]
    BY <1>1
  <2> HIDE DEF change
  <2>1. Len(audit[c]) = 1 /\ Len(announced[c]) = 1 /\ DOMAIN audit[c] = {1}
    BY <2>0, One
  <2>2. audit[c][1].to = status[c] /\ announced[c][1] = status[c]
    BY <2>0, One
  <2> QED
    BY <2>1, <2>2 DEF LastOf
<1>6. AssigneeIsAudited
  BY <1>1 DEF AssigneeIsAudited
<1> QED
  BY <1>2, <1>3, <1>4, <1>5, <1>6 DEF IInv

(* The history is kept by every step that notes the overlaps.              *)
LEMMA OverlapsNoted ==
  ASSUME IInv, Noted
  PROVE  OverlapInv' /\ overlapped' \subseteq Case /\ overlapped \subseteq overlapped'
  BY DEF IInv, TypeOK, Noted, OverlapInv

(* What loads no case and saves none keeps what is known of the cases.     *)
LEMMA RowsKeep ==
  ASSUME IInv, Noted, UNCHANGED rows
  PROVE  DecidedInv' /\ StartedInv' /\ TrailIsWhole' /\ AssigneeIsAudited'
<1>1. overlapped \subseteq overlapped'
  BY OverlapsNoted
<1> QED
  BY <1>1 DEF IInv, rows, DecidedInv, DecidedForGood, Valid, StartedInv, TrailIsWhole,
              LastOf, AssigneeIsAudited

LEMMA LoadKeeps ==
  ASSUME IInv, Noted, NEW r \in Request, Load(r)
  PROVE  IInv'
<1>1. OverlapInv' /\ overlapped' \subseteq Case /\ overlapped \subseteq overlapped'
  BY OverlapsNoted
<1>2. DecidedInv' /\ StartedInv' /\ TrailIsWhole' /\ AssigneeIsAudited'
  BY RowsKeep DEF Load
<1> DEFINE c == target[r]
           row == [status |-> status[c], assignee |-> assignee[c]]
<1>3. c \in Case /\ row \in Loaded
  BY DEF IInv, TypeOK, Loaded
<1>4. /\ pc' = [pc EXCEPT ![r] = "loaded"] /\ loaded' = [loaded EXCEPT ![r] = row]
      /\ UNCHANGED <<status, assignee, notes, audit, assigned, announced, target>>
  BY DEF Load, Go, rows
<1>5. TypeOK'
  BY <1>1, <1>3, <1>4 DEF IInv, TypeOK, RequestState
<1>6. LoadedInv'
  <2>1. \E j \in DOMAIN audit[c] : audit[c][j].to = status[c]
    <3>1. audit[c] \in Seq(Change) /\ Len(audit[c]) > 0
      BY <1>3 DEF IInv, TypeOK, StartedInv
    <3>2. Len(audit[c]) \in DOMAIN audit[c]
      BY <3>1
    <3> QED
      BY <1>3, <3>2 DEF IInv, TrailIsWhole, LastOf
  <2>2. assigned[c] = <<>> => assignee[c] = Nobody
    BY <1>3 DEF IInv, AssigneeIsAudited
  <2>3. DecidedForGood(c) => status[c] \in StartStatus[c]
    BY <1>3 DEF IInv, DecidedInv
  <2>4. row.status = status[c] /\ row.assignee = assignee[c]
    OBVIOUS
  <2> SUFFICES ASSUME NEW q \in Request, pc'[q] = "loaded"
               PROVE  LET d == target[q]
                      IN /\ \E j \in DOMAIN audit[d] : audit[d][j].to = loaded'[q].status
                         /\ assigned[d] = <<>> => loaded'[q].assignee = Nobody
                         /\ d \notin overlapped' =>
                               loaded'[q] = [status |-> status[d], assignee |-> assignee[d]]
                         /\ DecidedForGood(d) => loaded'[q].status \in StartStatus[d]
    BY <1>4 DEF LoadedInv, DecidedForGood, Valid
  <2>5. CASE q = r
    <3>1. loaded'[r] = row
      BY <1>4 DEF IInv, TypeOK
    <3> QED
      BY <2>1, <2>2, <2>3, <2>4, <2>5, <3>1
  <2>6. CASE q # r
    <3>1. pc[q] = "loaded" /\ loaded'[q] = loaded[q]
      BY <1>4, <2>6 DEF IInv, TypeOK
    <3> QED
      BY <1>1, <3>1 DEF IInv, LoadedInv
  <2> QED
    BY <2>5, <2>6
<1> QED
  BY <1>1, <1>2, <1>5, <1>6 DEF IInv

(* A request ends without touching the case.                               *)
LEMMA AnswerKeeps ==
  ASSUME IInv, Noted, UNCHANGED <<rows, target, loaded>>, NEW r \in Request,
         NEW answer \in RequestState \ {"loaded"}, pc' = [pc EXCEPT ![r] = answer]
  PROVE  IInv'
<1>1. OverlapInv' /\ overlapped' \subseteq Case /\ overlapped \subseteq overlapped'
  BY OverlapsNoted
<1>2. DecidedInv' /\ StartedInv' /\ TrailIsWhole' /\ AssigneeIsAudited'
  BY RowsKeep
<1>3. TypeOK'
  BY <1>1 DEF IInv, TypeOK, rows
<1>4. LoadedInv'
  BY <1>1 DEF IInv, TypeOK, LoadedInv, DecidedForGood, Valid, rows
<1> QED
  BY <1>1, <1>2, <1>3, <1>4 DEF IInv

(* Whatever a request saves, another that had the case loaded overlaps     *)
(* with it; what was loaded of other cases is as it was.                   *)
LEMMA OthersOverlap ==
  ASSUME IInv, NEW r \in Request, NEW q \in Request, q # r, target[q] = target[r],
         pc[q] = "loaded", pc[r] = "loaded"
  PROVE  target[r] \in overlapped
  BY DEF IInv, TypeOK, OverlapInv, Overlaps, LoadedBy

LEMMA SaveStatusKeeps ==
  ASSUME IInv, Noted, NEW r \in Request, NEW s \in Status, NEW withNote \in BOOLEAN,
         SaveStatus(r, s, withNote)
  PROVE  IInv'
<1>1. OverlapInv' /\ overlapped' \subseteq Case /\ overlapped \subseteq overlapped'
  BY OverlapsNoted
<1> DEFINE c == target[r]
           change == [from |-> loaded[r].status, to |-> s]
<1>2. /\ c \in Case /\ pc[r] = "loaded" /\ pc' = [pc EXCEPT ![r] = "saved"]
      /\ Valid(c, loaded[r].status, s)
      /\ status' = [status EXCEPT ![c] = s]
      /\ audit' = [audit EXCEPT ![c] = Append(audit[c], change)]
      /\ announced' = [announced EXCEPT ![c] = Append(announced[c], s)]
      /\ UNCHANGED <<assignee, assigned, target, loaded>>
  BY DEF SaveStatus, Go, IInv, TypeOK
<1>3. change \in Change /\ change.to = s /\ change.from = loaded[r].status
  BY DEF IInv, TypeOK, Loaded, Change
<1>4. audit[c] \in Seq(Change) /\ announced[c] \in Seq(Status)
  BY <1>2 DEF IInv, TypeOK
<1>5. /\ \A d \in Case : d # c => /\ status'[d] = status[d] /\ audit'[d] = audit[d]
                                  /\ announced'[d] = announced[d]
      /\ status'[c] = s /\ audit'[c] = Append(audit[c], change)
      /\ announced'[c] = Append(announced[c], s)
  BY <1>2 DEF IInv, TypeOK
<1> HIDE DEF change
<1>6. /\ Len(audit'[c]) = Len(audit[c]) + 1 /\ Len(audit[c]) \in Nat
      /\ Len(announced'[c]) = Len(announced[c]) + 1
      /\ DOMAIN audit[c] = 1 .. Len(audit[c]) /\ DOMAIN audit'[c] = 1 .. Len(audit'[c])
      /\ \A i \in DOMAIN audit[c] : audit'[c][i] = audit[c][i]
      /\ audit'[c][Len(audit[c]) + 1] = change
      /\ \A i \in 1 .. Len(announced[c]) : announced'[c][i] = announced[c][i]
      /\ announced'[c][Len(announced[c]) + 1] = s
  BY <1>3, <1>4, <1>5
<1>7. \E j \in DOMAIN audit[c] : audit[c][j].to = loaded[r].status
  BY <1>2 DEF IInv, LoadedInv
<1>8. TypeOK'
  <2>1. notes' \in [Case -> SUBSET Request]
    BY <1>2 DEF SaveStatus, IInv, TypeOK
  <2>2. audit' \in [Case -> Seq(Change)]
    <3>1. Append(audit[c], change) \in Seq(Change)
      BY <1>3, <1>4
    <3> QED
      BY <1>2, <3>1 DEF IInv, TypeOK
  <2>3. announced' \in [Case -> Seq(Status)]
    <3>1. Append(announced[c], s) \in Seq(Status)
      BY <1>4
    <3> QED
      BY <1>2, <3>1 DEF IInv, TypeOK
  <2>4. pc' \in [Request -> RequestState] /\ status' \in [Case -> Status]
    BY <1>2 DEF IInv, TypeOK, RequestState
  <2> QED
    BY <1>1, <1>2, <2>1, <2>2, <2>3, <2>4 DEF IInv, TypeOK
<1>9. ~DecidedForGood(c)
  BY <1>2 DEF IInv, LoadedInv, DecidedForGood
<1>10. DecidedInv'
  BY <1>5, <1>9 DEF IInv, DecidedInv, DecidedForGood, Valid
<1>11. StartedInv'
  BY <1>5, <1>6 DEF IInv, StartedInv
<1>12. TrailIsWhole'
  <2> SUFFICES ASSUME NEW d \in Case
               PROVE  /\ LastOf(audit'[d]).to = status'[d]
                      /\ Len(announced'[d]) = Len(audit'[d])
                      /\ \A i \in DOMAIN audit'[d] : announced'[d][i] = audit'[d][i].to
                      /\ \A i \in 2 .. Len(audit'[d]) :
                            /\ Valid(d, audit'[d][i].from, audit'[d][i].to)
                            /\ \E j \in 1 .. i - 1 : audit'[d][j].to = audit'[d][i].from
    BY DEF TrailIsWhole, LastOf, Valid
  <2>1. CASE d # c
    BY <1>5, <2>1 DEF IInv, TrailIsWhole
  <2>2. CASE d = c
    <3>1. /\ Len(announced[c]) = Len(audit[c])
          /\ \A i \in DOMAIN audit[c] : announced[c][i] = audit[c][i].to
          /\ \A i \in 2 .. Len(audit[c]) :
                /\ Valid(c, audit[c][i].from, audit[c][i].to)
                /\ \E j \in 1 .. i - 1 : audit[c][j].to = audit[c][i].from
      BY <1>2 DEF IInv, TrailIsWhole
    <3>2. LastOf(audit'[c]).to = status'[c]
      BY <1>3, <1>5, <1>6 DEF LastOf
    <3>3. \A i \in DOMAIN audit'[c] : announced'[c][i] = audit'[c][i].to
      BY <1>3, <1>6, <3>1
    <3>4. ASSUME NEW i \in 2 .. Len(audit'[c])
          PROVE  /\ Valid(c, audit'[c][i].from, audit'[c][i].to)
                 /\ \E j \in 1 .. i - 1 : audit'[c][j].to = audit'[c][i].from
      <4>1. CASE i <= Len(audit[c])
        <5>1. i \in 2 .. Len(audit[c]) /\ audit'[c][i] = audit[c][i]
          BY <1>6, <4>1
        <5>2. PICK j \in 1 .. i - 1 : audit[c][j].to = audit[c][i].from
          BY <3>1, <5>1
        <5>3. audit'[c][j] = audit[c][j]
          BY <1>6, <4>1
        <5> QED
          BY <3>1, <5>1, <5>2, <5>3
      <4>2. CASE i = Len(audit[c]) + 1
        <5>1. PICK j \in DOMAIN audit[c] : audit[c][j].to = loaded[r].status
          BY <1>7
        <5>2. j \in 1 .. i - 1 /\ audit'[c][j] = audit[c][j] /\ audit'[c][i] = change
          BY <1>6, <4>2
        <5> QED
          BY <1>2, <1>3, <5>1, <5>2
      <4> QED
        BY <1>6, <4>1, <4>2
    <3> QED
      BY <1>6, <2>2, <3>1, <3>2, <3>3, <3>4
  <2> QED
    BY <2>1, <2>2
<1>13. AssigneeIsAudited'
  BY <1>1, <1>2 DEF IInv, AssigneeIsAudited, LastOf
<1>14. LoadedInv'
  <2> SUFFICES ASSUME NEW q \in Request, pc'[q] = "loaded"
               PROVE  LET d == target[q]
                      IN /\ \E j \in DOMAIN audit'[d] : audit'[d][j].to = loaded[q].status
                         /\ assigned[d] = <<>> => loaded[q].assignee = Nobody
                         /\ d \notin overlapped' =>
                               loaded[q] = [status |-> status'[d], assignee |-> assignee[d]]
                         /\ DecidedForGood(d) => loaded[q].status \in StartStatus[d]
    BY <1>2 DEF LoadedInv, DecidedForGood, Valid
  <2>1. q # r /\ pc[q] = "loaded" /\ target[q] \in Case
    BY <1>2 DEF IInv, TypeOK
  <2>2. CASE target[q] = c
    <3>1. c \in overlapped'
      BY <1>1, <1>2, <2>1, <2>2, OthersOverlap
    <3>2. PICK j \in DOMAIN audit[c] : audit[c][j].to = loaded[q].status
      BY <2>1, <2>2 DEF IInv, LoadedInv
    <3>3. j \in DOMAIN audit'[c] /\ audit'[c][j] = audit[c][j]
      BY <1>6
    <3> QED
      BY <2>1, <2>2, <3>1, <3>2, <3>3 DEF IInv, LoadedInv
  <2>3. CASE target[q] # c
    BY <1>1, <1>5, <2>1, <2>3 DEF IInv, LoadedInv
  <2> QED
    BY <2>2, <2>3
<1> QED
  BY <1>1, <1>8, <1>10, <1>11, <1>12, <1>13, <1>14 DEF IInv

LEMMA SaveAssignmentKeeps ==
  ASSUME IInv, Noted, NEW r \in Request, NEW user \in Staff, SaveAssignment(r, user)
  PROVE  IInv'
<1>1. OverlapInv' /\ overlapped' \subseteq Case /\ overlapped \subseteq overlapped'
  BY OverlapsNoted
<1> DEFINE c == target[r]
<1>2. /\ c \in Case /\ pc[r] = "loaded" /\ pc' = [pc EXCEPT ![r] = "saved"]
      /\ assignee' = IF user = loaded[r].assignee THEN assignee
                     ELSE [assignee EXCEPT ![c] = user]
      /\ assigned' = [assigned EXCEPT ![c] = Append(assigned[c], user)]
      /\ UNCHANGED <<status, notes, audit, announced, target, loaded>>
  BY DEF SaveAssignment, Go, IInv, TypeOK
<1>3. /\ assigned[c] \in Seq(Staff)
      /\ \A d \in Case : d # c => assigned'[d] = assigned[d] /\ assignee'[d] = assignee[d]
      /\ assigned'[c] = Append(assigned[c], user)
      /\ assignee'[c] = IF user = loaded[r].assignee THEN assignee[c] ELSE user
  BY <1>2 DEF IInv, TypeOK
<1>4. /\ Len(assigned'[c]) = Len(assigned[c]) + 1 /\ Len(assigned[c]) \in Nat
      /\ DOMAIN assigned'[c] = 1 .. Len(assigned[c]) + 1
      /\ DOMAIN assigned[c] = 1 .. Len(assigned[c])
      /\ \A i \in DOMAIN assigned[c] : assigned'[c][i] = assigned[c][i]
      /\ assigned'[c][Len(assigned[c]) + 1] = user
      /\ assigned'[c] # <<>>
  BY <1>3
<1>5. TypeOK'
  BY <1>1, <1>2 DEF IInv, TypeOK, RequestState
<1>6. DecidedInv' /\ StartedInv' /\ TrailIsWhole'
  BY <1>2 DEF IInv, DecidedInv, DecidedForGood, Valid, StartedInv, TrailIsWhole, LastOf
<1>7. AssigneeIsAudited'
  <2> SUFFICES ASSUME NEW d \in Case
               PROVE  IF assigned'[d] = <<>> THEN assignee'[d] = Nobody
                      ELSE /\ \E i \in DOMAIN assigned'[d] : assignee'[d] = assigned'[d][i]
                           /\ d \notin overlapped' => assignee'[d] = LastOf(assigned'[d])
    BY DEF AssigneeIsAudited, LastOf
  <2>1. CASE d # c
    BY <1>1, <1>3, <2>1 DEF IInv, AssigneeIsAudited
  <2>2. CASE d = c /\ user # loaded[r].assignee
    BY <1>3, <1>4, <2>2 DEF LastOf
  <2>3. CASE d = c /\ user = loaded[r].assignee
    <3>1. assigned[c] # <<>>
      BY <1>2, <2>3, NobodyAssumption DEF IInv, LoadedInv
    <3>2. PICK i \in DOMAIN assigned[c] : assignee[c] = assigned[c][i]
      BY <1>2, <3>1 DEF IInv, AssigneeIsAudited
    <3>3. i \in DOMAIN assigned'[c] /\ assigned'[c][i] = assigned[c][i]
      BY <1>4
    <3>4. c \notin overlapped => assignee[c] = user
      <4>1. c \notin overlapped =>
               loaded[r] = [status |-> status[c], assignee |-> assignee[c]]
        BY <1>2 DEF IInv, LoadedInv
      <4> QED
        BY <2>3, <4>1
    <3> QED
      BY <1>1, <1>3, <1>4, <2>3, <3>2, <3>3, <3>4 DEF LastOf
  <2> QED
    BY <2>1, <2>2, <2>3
<1>8. LoadedInv'
  <2> SUFFICES ASSUME NEW q \in Request, pc'[q] = "loaded"
               PROVE  LET d == target[q]
                      IN /\ \E j \in DOMAIN audit[d] : audit[d][j].to = loaded[q].status
                         /\ assigned'[d] = <<>> => loaded[q].assignee = Nobody
                         /\ d \notin overlapped' =>
                               loaded[q] = [status |-> status[d], assignee |-> assignee'[d]]
                         /\ DecidedForGood(d) => loaded[q].status \in StartStatus[d]
    BY <1>2 DEF LoadedInv, DecidedForGood, Valid
  <2>1. q # r /\ pc[q] = "loaded" /\ target[q] \in Case
    BY <1>2 DEF IInv, TypeOK
  <2>2. CASE target[q] = c
    <3>1. c \in overlapped'
      BY <1>1, <1>2, <2>1, <2>2, OthersOverlap
    <3> QED
      BY <1>4, <2>1, <2>2, <3>1 DEF IInv, LoadedInv
  <2>3. CASE target[q] # c
    BY <1>1, <1>3, <2>1, <2>3 DEF IInv, LoadedInv
  <2> QED
    BY <2>2, <2>3
<1> QED
  BY <1>1, <1>5, <1>6, <1>7, <1>8 DEF IInv

LEMMA SaveNoteKeeps ==
  ASSUME IInv, Noted, NEW r \in Request, SaveNote(r)
  PROVE  IInv'
<1>1. OverlapInv' /\ overlapped' \subseteq Case /\ overlapped \subseteq overlapped'
  BY OverlapsNoted
<1>2. TypeOK'
  BY <1>1 DEF SaveNote, Go, IInv, TypeOK, RequestState
<1>3. LoadedInv'
  BY <1>1 DEF SaveNote, Go, IInv, TypeOK, LoadedInv, DecidedForGood, Valid
<1>4. DecidedInv' /\ StartedInv' /\ TrailIsWhole' /\ AssigneeIsAudited'
  BY <1>1 DEF SaveNote, IInv, DecidedInv, DecidedForGood, Valid, StartedInv, TrailIsWhole,
              LastOf, AssigneeIsAudited
<1> QED
  BY <1>1, <1>2, <1>3, <1>4 DEF IInv

LEMMA NextIInv == IInv /\ [Next]_vars => IInv'
<1> SUFFICES ASSUME IInv, [Next]_vars
             PROVE  IInv'
  OBVIOUS
<1>1. CASE UNCHANGED vars
  <2> USE <1>1 DEF vars, IInv
  <2>1. TypeOK'
    BY DEF TypeOK
  <2>2. LoadedInv'
    BY DEF LoadedInv, DecidedForGood, Valid
  <2>3. DecidedInv' /\ OverlapInv' /\ StartedInv'
    BY DEF DecidedInv, DecidedForGood, Valid, OverlapInv, Overlaps, LoadedBy, StartedInv
  <2>4. TrailIsWhole' /\ AssigneeIsAudited'
    BY DEF TrailIsWhole, Valid, LastOf, AssigneeIsAudited
  <2> QED
    BY <2>1, <2>2, <2>3, <2>4
<1>2. CASE Next
  <2>0. Noted
    BY <1>2 DEF Next, Noted
  <2>1. ASSUME NEW r \in Request, Load(r)
        PROVE  IInv'
    BY <2>0, <2>1, LoadKeeps
  <2>2. ASSUME NEW r \in Request, NEW s \in Status, RefuseStatus(r, s)
        PROVE  IInv'
    BY <2>0, <2>2, AnswerKeeps DEF RefuseStatus, Go, RequestState
  <2>3. ASSUME NEW r \in Request, Fail(r) \/ Respond(r)
        PROVE  IInv'
    BY <2>0, <2>3, AnswerKeeps DEF Fail, Respond, Go, RequestState
  <2>4. ASSUME NEW r \in Request, NEW s \in Status, NEW n \in BOOLEAN, SaveStatus(r, s, n)
        PROVE  IInv'
    BY <2>0, <2>4, SaveStatusKeeps
  <2>5. ASSUME NEW r \in Request, NEW u \in Staff, SaveAssignment(r, u)
        PROVE  IInv'
    BY <2>0, <2>5, SaveAssignmentKeeps
  <2>6. ASSUME NEW r \in Request, SaveNote(r)
        PROVE  IInv'
    BY <2>0, <2>6, SaveNoteKeeps
  <2> QED
    BY <1>2, <2>1, <2>2, <2>3, <2>4, <2>5, <2>6 DEF Next, Save
<1> QED
  BY <1>1, <1>2

LEMMA SpecIInv == Spec => []IInv
  BY InitIInv, NextIInv, PTL DEF Spec

-----------------------------------------------------------------------------
THEOREM TypeCorrect == Spec => []TypeOK
<1>1. IInv => TypeOK
  BY DEF IInv
<1> QED
  BY <1>1, SpecIInv, PTL

(* Audit trail, events and status tell one story, however requests overlap *)
(* and whatever the transitions are.                                       *)
THEOREM OneStory == Spec => []TrailIsWhole
<1>1. IInv => TrailIsWhole
  BY DEF IInv
<1> QED
  BY <1>1, SpecIInv, PTL

(* A case stays assigned, to a user its audit trail names.                 *)
THEOREM StaysAssigned == Spec => []AssigneeIsAudited
<1>1. IInv => AssigneeIsAudited
  BY DEF IInv
<1> QED
  BY <1>1, SpecIInv, PTL

(* The state machine is followed without overlap, and always by a case     *)
(* whose worker decided for good: a request that saves had loaded either   *)
(* the status the case has, or one from which nothing is valid.            *)
THEOREM Following == Spec => FollowsStateMachine
<1> DEFINE Follows(c) == c \notin overlapped' \/ DecidedForGood(c) =>
                            status'[c] = status[c] \/ Valid(c, status[c], status'[c])
<1>1. IInv /\ [Next]_vars => [\A c \in Case : Follows(c)]_vars
  <2> SUFFICES ASSUME IInv, Next, NEW c \in Case, c \notin overlapped' \/ DecidedForGood(c),
                      status'[c] # status[c]
               PROVE  Valid(c, status[c], status'[c])
    OBVIOUS
  <2>1. PICK r \in Request, s \in Status, n \in BOOLEAN : SaveStatus(r, s, n)
    BY DEF Next, Load, Save, Respond, RefuseStatus, SaveAssignment, SaveNote, Fail, rows
  <2>2. /\ target[r] = c /\ pc[r] = "loaded" /\ Valid(c, loaded[r].status, s)
        /\ status'[c] = s
    BY <2>1 DEF SaveStatus, Go, IInv, TypeOK
  <2>3. ~DecidedForGood(c)
    BY <2>2 DEF IInv, LoadedInv, DecidedForGood
  <2>4. c \notin overlapped
    BY <2>3 DEF Next
  <2>5. loaded[r] = [status |-> status[c], assignee |-> assignee[c]]
    BY <2>2, <2>4 DEF IInv, LoadedInv
  <2> QED
    BY <2>2, <2>5
<1>2. (\A c \in Case : Follows(c)) <=>
         \A c \in Case : c \notin overlapped' \/ DecidedForGood(c) =>
            status'[c] = status[c] \/ Valid(c, status[c], status'[c])
  OBVIOUS
<1> QED
  BY <1>1, SpecIInv, PTL DEF Spec, FollowsStateMachine
=============================================================================
