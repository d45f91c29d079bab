---------------------------- MODULE PublicApiProofs ----------------------------
(***************************************************************************)
(* Theorems about the public API: its policies (PublicPolicies), for any   *)
(* number of policies and requests and for all coverages and months, and   *)
(* its claims (PublicClaims), for any number of claims and requests.       *)
(***************************************************************************)
EXTENDS PublicPolicies, PublicClaims, TLAPS

-----------------------------------------------------------------------------
(* Columns and rows.                                                       *)

(* What may be assigned to the columns of a row.                           *)
Assignable(w) ==
    /\ DOMAIN w \subseteq Column
    /\ "status" \in DOMAIN w => w["status"] \in PolicyStatus
    /\ "coverage" \in DOMAIN w => w["coverage"] \in Coverage
    /\ "premium" \in DOMAIN w => w["premium"] \in Nat
    /\ "start" \in DOMAIN w => w["start"] \in Int
    /\ "end" \in DOMAIN w => w["end"] \in Int

Updating(r) == kind[r] \notin {"create", "delete"}

(* What a request that waits to save will write.                           *)
WantedInv ==
    /\ wanted = [r \in Request |-> wanted[r]]
    /\ \A r \in Request : DOMAIN wanted[r] \subseteq Column
    /\ \A r \in Request : pc[r] = "loaded" /\ Updating(r) => Assignable(wanted[r])
    /\ \A r \in Request : pc[r] = "loaded" /\ kind[r] = "create" => wanted[r] \in Row

(* The history misses no overlap.                                          *)
OverlapInv == Overlap => overlapped

IInv == TypeOK /\ WantedInv /\ OverlapInv /\ NoOrphan

LEMMA Premium == ASSUME NEW c \in Coverage PROVE CalculatePremium(Type, c) \in Nat
<1>1. c \in Nat /\ RateMultiplier[Type] \in Nat
  BY TypeAssumption, CoverageAssumption DEF PolicyType, RateMultiplier
<1>2. c * RateMultiplier[Type] \in Nat
  BY <1>1
<1>3. \A n \in Nat : RoundHalfEven(n, 120) \in Nat
  BY DEF RoundHalfEven
<1> QED BY <1>2, <1>3 DEF CalculatePremium

LEMMA DraftIsRow ==
    ASSUME NEW c \in Coverage, NEW start \in Int, NEW end \in Int
    PROVE  Drafted(c, start, end) \in Row
  BY Premium DEF Drafted, Row, PolicyStatus

LEMMA NoRowIsNoRow == NoRow \notin Row
  BY DEF NoRow, Row, PolicyStatus

(* Empty assignments, as a request has them before and after.              *)
LEMMA NothingWanted == DOMAIN <<>> = {} /\ Assignable(<<>>)
  BY DEF Assignable

-----------------------------------------------------------------------------
LEMMA InitIInv == Init => IInv
<1> SUFFICES ASSUME Init PROVE IInv
  OBVIOUS
<1>1. \A c \in Coverage : Drafted(c, 0, MaxTime) \in Row
  BY DraftIsRow, TimeAssumption
<1>2. \A r \in Request : wanted[r] = <<>> /\ DOMAIN wanted[r] = {}
  BY NothingWanted DEF Init
<1>3. TypeOK
  <2>1. row \in [Policy -> Row \cup {NoRow}]
    BY <1>1 DEF Init
  <2>2. now \in 0 .. MaxTime
    BY TimeAssumption DEF Init
  <2> QED BY <1>2, <2>1, <2>2 DEF Init, TypeOK
<1>4. WantedInv
  BY <1>2 DEF Init, WantedInv
<1>5. OverlapInv /\ NoOrphan
  BY DEF Init, OverlapInv, Overlap, NoOrphan
<1> QED BY <1>3, <1>4, <1>5 DEF IInv

(* What a step of the services does to the history.                        *)
Noted == overlapped' = (overlapped \/ Overlap')

LEMMA HistoryKept ==
    ASSUME IInv, Noted
    PROVE  OverlapInv' /\ overlapped' \in BOOLEAN
  BY DEF IInv, TypeOK, Noted, OverlapInv, Overlap

(* A request ends, or goes on, without touching the tables.                *)
LEMMA AnswerKeeps ==
    ASSUME IInv, Noted, UNCHANGED <<rows, kind, target, histories>>, now' \in 0 .. MaxTime,
           NEW r \in Request, NEW answer \in {"saved"} \cup Response,
           \/ UNCHANGED <<pc, wanted>>
           \/ /\ pc' = [pc EXCEPT ![r] = answer]
              /\ wanted' = wanted \/ wanted' = [wanted EXCEPT ![r] = <<>>]
    PROVE  IInv'
<1>1. OverlapInv' /\ overlapped' \in BOOLEAN
  BY HistoryKept
<1>2. answer # "loaded"
  BY DEF Response
<1>3. \A q \in Request : /\ pc'[q] = "loaded" => pc[q] = "loaded" /\ wanted'[q] = wanted[q]
                         /\ wanted'[q] = wanted[q] \/ wanted'[q] = <<>>
  BY <1>2 DEF IInv, TypeOK, WantedInv
<1>4. pc' \in [Request -> {"new", "loaded", "saved"} \cup Response]
  BY DEF IInv, TypeOK
<1>5. wanted' = [q \in Request |-> wanted'[q]]
  BY DEF IInv, WantedInv
<1>6. \A q \in Request : DOMAIN wanted'[q] \subseteq Column
  BY <1>3, NothingWanted DEF IInv, WantedInv
<1>7. TypeOK'
  BY <1>1, <1>4, <1>6 DEF IInv, TypeOK, rows, histories
<1>8. WantedInv'
  BY <1>3, <1>5, <1>6 DEF IInv, WantedInv, Updating
<1>9. NoOrphan'
  BY DEF IInv, NoOrphan, Gone, rows
<1> QED BY <1>1, <1>7, <1>8, <1>9 DEF IInv

(* A request has its columns assigned.                                     *)
LEMMA AssignKeeps ==
    ASSUME IInv, Noted, NEW r \in Request, NEW w, Assign(r, w),
           DOMAIN w \subseteq Column,
           Updating(r) => Assignable(w),
           kind[r] = "create" => w \in Row
    PROVE  IInv'
<1>1. OverlapInv' /\ overlapped' \in BOOLEAN
  BY HistoryKept
<1>2. /\ pc' = [pc EXCEPT ![r] = "loaded"] /\ wanted' = [wanted EXCEPT ![r] = w]
      /\ UNCHANGED <<rows, now, kind, target, histories>>
  BY DEF Assign, Go
<1>3. /\ pc' \in [Request -> {"new", "loaded", "saved"} \cup Response]
      /\ wanted' = [q \in Request |-> wanted'[q]] /\ wanted'[r] = w
      /\ \A q \in Request \ {r} : wanted'[q] = wanted[q] /\ pc'[q] = pc[q]
  BY <1>2 DEF IInv, TypeOK, WantedInv
<1>4. \A q \in Request : DOMAIN wanted'[q] \subseteq Column
  BY <1>3 DEF IInv, WantedInv
<1>5. TypeOK'
  BY <1>1, <1>2, <1>3, <1>4 DEF IInv, TypeOK, rows, histories
<1>6. WantedInv'
  BY <1>2, <1>3, <1>4 DEF IInv, WantedInv, Updating
<1>7. NoOrphan'
  BY <1>2 DEF IInv, NoOrphan, Gone, rows
<1> QED BY <1>1, <1>5, <1>6, <1>7 DEF IInv

(* The columns modified by an assignment can be assigned.                  *)
LEMMA ModifiedColumns ==
    ASSUME NEW p, NEW w
    PROVE  /\ DOMAIN Modified(p, w) \subseteq DOMAIN w
           /\ \A c \in DOMAIN Modified(p, w) : Modified(p, w)[c] = w[c]
           /\ \A c \in DOMAIN w : c \in DOMAIN Modified(p, w) <=> w[c] # row[p][c]
           /\ Assignable(w) => Assignable(Modified(p, w))
  BY DEF Modified, Assignable

(* The row after an update.                                                *)
LEMMA Updated ==
    ASSUME NEW old \in Row, NEW w, Assignable(w)
    PROVE  [c \in Column |-> IF c \in DOMAIN w THEN w[c] ELSE old[c]] \in Row
  BY DEF Column, Row, Assignable

(* What a save does, as the invariant lets it.                             *)
LEMMA Saved ==
    ASSUME IInv, NEW r \in Request, SavePolicy(r)
    PROVE  LET p == target[r] IN
           /\ p \in Policy /\ Updating(r) /\ Assignable(wanted[r])
           /\ pc[r] = "loaded" /\ pc' = [pc EXCEPT ![r] = "saved"]
           /\ wanted' = [wanted EXCEPT ![r] = <<>>]
           /\ UNCHANGED <<customer, now, kind, target>>
           /\ alone' = alone \cup {q \in {p} : CoverageAlone(wanted[r])}
           /\ shortened' = (shortened \ {q \in {p} : "end" \in DOMAIN wanted[r]})
                            \cup {q \in {p} : Shortens(wanted[r])}
           /\ \/ Gone(p) /\ wanted[r] = <<>> /\ row' = row
              \/ /\ ~Gone(p) /\ row[p] \in Row
                 /\ row' = [row EXCEPT ![p] =
                        [c \in Column |-> IF c \in DOMAIN wanted[r] THEN wanted[r][c]
                                          ELSE row[p][c]]]
<1> DEFINE p == target[r]
<1>1. /\ p \in Policy /\ Updating(r) /\ pc[r] = "loaded"
      /\ pc' = [pc EXCEPT ![r] = "saved"]
      /\ wanted' = [wanted EXCEPT ![r] = <<>>]
      /\ UNCHANGED <<customer, now, kind, target>>
      /\ alone' = alone \cup {q \in {p} : CoverageAlone(wanted[r])}
      /\ shortened' = (shortened \ {q \in {p} : "end" \in DOMAIN wanted[r]})
                       \cup {q \in {p} : Shortens(wanted[r])}
      /\ ~Gone(p) \/ wanted[r] = <<>>
  BY DEF IInv, TypeOK, SavePolicy, Go, Updating
<1>2. Assignable(wanted[r])
  BY <1>1 DEF IInv, WantedInv
<1>3. row' = [row EXCEPT ![p] =
                 IF Gone(p) THEN NoRow
                 ELSE [c \in Column |-> IF c \in DOMAIN wanted[r] THEN wanted[r][c]
                                        ELSE row[p][c]]]
  BY DEF SavePolicy
<1>4. CASE Gone(p)
  <2>1. row' = row
    BY <1>1, <1>3, <1>4 DEF IInv, TypeOK, Gone
  <2> QED BY <1>1, <1>2, <1>4, <2>1
<1>5. CASE ~Gone(p)
  <2>1. row[p] \in Row
    BY <1>1, <1>5 DEF IInv, TypeOK, Gone
  <2> QED BY <1>1, <1>2, <1>3, <1>5, <2>1
<1> QED BY <1>4, <1>5

LEMMA SavePolicyKeeps ==
    ASSUME IInv, Noted, NEW r \in Request, SavePolicy(r)
    PROVE  IInv'
<1>1. OverlapInv' /\ overlapped' \in BOOLEAN
  BY HistoryKept
<1> DEFINE p == target[r]
           new == [c \in Column |-> IF c \in DOMAIN wanted[r] THEN wanted[r][c] ELSE row[p][c]]
<1>2. /\ p \in Policy /\ Updating(r) /\ Assignable(wanted[r])
      /\ pc[r] = "loaded" /\ pc' = [pc EXCEPT ![r] = "saved"]
      /\ wanted' = [wanted EXCEPT ![r] = <<>>]
      /\ UNCHANGED <<customer, now, kind, target>>
      /\ alone' \subseteq Policy /\ shortened' \subseteq Policy
      /\ \/ Gone(p) /\ wanted[r] = <<>> /\ row' = row
         \/ ~Gone(p) /\ row[p] \in Row /\ row' = [row EXCEPT ![p] = new]
  BY Saved DEF IInv, TypeOK
<1>3. row[p] \in Row => new \in Row
  BY <1>2, Updated
<1> HIDE DEF new
<1>4. /\ pc' \in [Request -> {"new", "loaded", "saved"} \cup Response]
      /\ wanted' = [q \in Request |-> wanted'[q]] /\ wanted'[r] = <<>>
      /\ \A q \in Request \ {r} : wanted'[q] = wanted[q] /\ pc'[q] = pc[q]
  BY <1>2 DEF IInv, TypeOK, WantedInv
<1>5. \A q \in Request : DOMAIN wanted'[q] \subseteq Column
  BY <1>4, NothingWanted DEF IInv, WantedInv
<1>6. row' \in [Policy -> Row \cup {NoRow}]
  BY <1>2, <1>3 DEF IInv, TypeOK
<1>7. TypeOK'
  BY <1>1, <1>2, <1>4, <1>5, <1>6 DEF IInv, TypeOK
<1>8. WantedInv'
  BY <1>2, <1>4, <1>5, NothingWanted DEF IInv, TypeOK, WantedInv, Updating
<1>9. NoOrphan'
  BY <1>2 DEF IInv, NoOrphan, Gone
<1> QED BY <1>1, <1>7, <1>8, <1>9 DEF IInv

LEMMA SaveNewKeeps ==
    ASSUME IInv, Noted, NEW r \in Request, SaveNew(r)
    PROVE  IInv'
<1>1. OverlapInv' /\ overlapped' \in BOOLEAN
  BY HistoryKept
<1>2. /\ pc[r] = "loaded" /\ pc' = [pc EXCEPT ![r] = "saved"] /\ customer
      /\ row' = [row EXCEPT ![target[r]] = wanted[r]]
      /\ wanted' = [wanted EXCEPT ![r] = <<>>]
      /\ UNCHANGED <<customer, now, kind, target, histories>>
      /\ wanted[r] \in Row
  BY DEF IInv, WantedInv, SaveNew, Go
<1>3. /\ pc' \in [Request -> {"new", "loaded", "saved"} \cup Response]
      /\ wanted' = [q \in Request |-> wanted'[q]] /\ wanted'[r] = <<>>
      /\ \A q \in Request \ {r} : wanted'[q] = wanted[q] /\ pc'[q] = pc[q]
  BY <1>2 DEF IInv, TypeOK, WantedInv
<1>4. \A q \in Request : DOMAIN wanted'[q] \subseteq Column
  BY <1>3, NothingWanted DEF IInv, WantedInv
<1>5. row' \in [Policy -> Row \cup {NoRow}]
  BY <1>2 DEF IInv, TypeOK
<1>6. TypeOK'
  BY <1>1, <1>2, <1>3, <1>4, <1>5 DEF IInv, TypeOK, histories
<1>7. WantedInv'
  BY <1>2, <1>3, <1>4 DEF IInv, TypeOK, WantedInv, Updating
<1>8. NoOrphan'
  BY <1>2 DEF NoOrphan
<1> QED BY <1>1, <1>6, <1>7, <1>8 DEF IInv

LEMMA DeleteKeeps ==
    ASSUME IInv, Noted, NEW r \in Request, DeleteCustomer(r)
    PROVE  IInv'
<1>1. OverlapInv' /\ overlapped' \in BOOLEAN
  BY HistoryKept
<1>2. /\ pc' = [pc EXCEPT ![r] = "204"] /\ customer' = FALSE
      /\ row' = [p \in Policy |-> NoRow]
      /\ UNCHANGED <<now, kind, target, wanted, histories>>
  BY DEF DeleteCustomer, Go
<1>3. TypeOK'
  BY <1>1, <1>2 DEF IInv, TypeOK, Response, histories
<1>4. WantedInv'
  BY <1>2 DEF IInv, TypeOK, WantedInv, Updating
<1>5. NoOrphan'
  BY <1>2 DEF NoOrphan, Gone
<1> QED BY <1>1, <1>3, <1>4, <1>5 DEF IInv

-----------------------------------------------------------------------------
(* The requests that assign: what they write.                              *)

(* The premium goes with the coverage: each is written if it differs.      *)
Priced(old, w) ==
    \/ DOMAIN w \cap {"coverage", "premium"} = {}
    \/ \E c \in Coverage :
          /\ "coverage" \in DOMAIN w <=> c # old.coverage
          /\ "premium" \in DOMAIN w <=> CalculatePremium(Type, c) # old.premium
          /\ "coverage" \in DOMAIN w => w["coverage"] = c
          /\ "premium" \in DOMAIN w => w["premium"] = CalculatePremium(Type, c)

(* A start is written with an end.                                         *)
Dated(old, w) ==
    /\ "start" \in DOMAIN w => "end" \in DOMAIN w
    /\ "end" \in DOMAIN w /\ "start" \notin DOMAIN w => w["end"] > old.start

(* What an update, an activation, a cancellation or a renewal assigns to   *)
(* the policy it loaded.                                                   *)
Loads(r, w) ==
    LET old == row[target[r]]
    IN  /\ ~Gone(target[r]) /\ Assign(r, w)
        /\ Assignable(w) /\ Priced(old, w) /\ Dated(old, w)
        /\ kind[r] = "activate" => old.status = "Draft"

Refused(r) == \E answer \in Response : Refuse(r, answer)

(* A request that assigns a status and nothing else.                       *)
LEMMA StatusLoads ==
    ASSUME NEW r \in Request, NEW s \in PolicyStatus, ~Gone(target[r]),
           Assign(r, Modified(target[r], [status |-> s])),
           kind[r] = "activate" => row[target[r]].status = "Draft"
    PROVE  \E w : Loads(r, w)
<1> DEFINE w == Modified(target[r], [status |-> s])
<1>1. DOMAIN w \subseteq {"status"} /\ Assignable(w)
  <2>1. Assignable([status |-> s])
    BY DEF Assignable, Column
  <2> QED BY <2>1, ModifiedColumns
<1> HIDE DEF w
<1>2. Priced(row[target[r]], w) /\ Dated(row[target[r]], w)
  BY <1>1 DEF Priced, Dated
<1>3. Assign(r, w)
  BY DEF w
<1> QED BY <1>1, <1>2, <1>3 DEF Loads

LEMMA ActivateLoads ==
    ASSUME NEW r \in Request, Activate(r)
    PROVE  kind[r] = "activate" /\ (Refused(r) \/ \E w : Loads(r, w))
<1>1. /\ kind[r] = "activate"
      /\ \/ Refuse(r, "404") \/ Refuse(r, "409")
         \/ /\ ~Gone(target[r]) /\ row[target[r]].status = "Draft"
            /\ Assign(r, Modified(target[r], [status |-> "Active"]))
  BY DEF Activate, Find
<1> QED BY <1>1, StatusLoads DEF Refused, Response, PolicyStatus

LEMMA CancelLoads ==
    ASSUME NEW r \in Request, Cancel(r)
    PROVE  kind[r] = "cancel" /\ (Refused(r) \/ \E w : Loads(r, w))
<1>1. /\ kind[r] = "cancel"
      /\ \/ Refuse(r, "404") \/ Refuse(r, "409")
         \/ ~Gone(target[r]) /\ Assign(r, Modified(target[r], [status |-> "Cancelled"]))
  BY DEF Cancel, Find
<1> QED BY <1>1, StatusLoads DEF Refused, Response, PolicyStatus

LEMMA RenewLoads ==
    ASSUME IInv, NEW r \in Request, Renew(r)
    PROVE  kind[r] = "renew" /\ (Refused(r) \/ \E w : Loads(r, w))
<1> DEFINE p == target[r]
           active == Modified(p, [status |-> "Active"])
           Dates(m) == [c \in {"start", "end"} |-> IF c = "start" THEN now ELSE now + m]
           W(m) == [c \in DOMAIN Dates(m) \cup DOMAIN active |->
                       IF c \in DOMAIN Dates(m) THEN Dates(m)[c] ELSE active[c]]
<1>1. PICK m \in Months :
         \/ Refuse(r, "404") \/ Refuse(r, "409")
         \/ row[p].status \in {"Active", "Expired"} /\ Assign(r, W(m))
  BY DEF Renew
<1>2. kind[r] = "renew"
  BY DEF Renew
<1>3. DOMAIN active \subseteq {"status"} /\ Assignable(active)
  <2>1. Assignable([status |-> "Active"])
    BY DEF Assignable, Column, PolicyStatus
  <2> QED BY <2>1, ModifiedColumns
<1> HIDE DEF active
<1>4. /\ DOMAIN W(m) = {"start", "end"} \cup DOMAIN active
      /\ W(m)["start"] = now /\ W(m)["end"] = now + m
      /\ "status" \in DOMAIN active => W(m)["status"] = active["status"]
  BY <1>3
<1>5. now \in Int /\ m \in Int
  BY TimeAssumption DEF IInv, TypeOK
<1> HIDE DEF W
<1>6. Assignable(W(m))
  BY <1>3, <1>4, <1>5 DEF Assignable, Column
<1>7. Priced(row[p], W(m)) /\ Dated(row[p], W(m))
  BY <1>3, <1>4 DEF Priced, Dated
<1>8. row[p].status \in {"Active", "Expired"} => ~Gone(p)
  BY DEF Gone, NoRow
<1>9. CASE Refuse(r, "404") \/ Refuse(r, "409")
  BY <1>2, <1>9 DEF Refused, Response
<1>10. CASE row[p].status \in {"Active", "Expired"} /\ Assign(r, W(m))
  BY <1>2, <1>6, <1>7, <1>8, <1>10 DEF Loads
<1> QED BY <1>1, <1>9, <1>10

(* A request that assigns some of the columns an update may ask for.       *)
LEMMA AskedLoads ==
    ASSUME NEW r \in Request, NEW asked, ~Gone(target[r]), kind[r] = "update",
           Assign(r, Modified(target[r], asked)),
           "start" \notin DOMAIN asked,
           Assignable(asked),
           "end" \in DOMAIN asked => asked["end"] > row[target[r]].start,
           \/ DOMAIN asked \cap {"coverage", "premium"} = {}
           \/ /\ {"coverage", "premium"} \subseteq DOMAIN asked
              /\ asked["premium"] = CalculatePremium(Type, asked["coverage"])
    PROVE  \E w : Loads(r, w)
<1> DEFINE p == target[r]
           w == Modified(p, asked)
<1>1. /\ DOMAIN w \subseteq DOMAIN asked
      /\ \A x \in DOMAIN w : w[x] = asked[x]
      /\ \A x \in DOMAIN asked : x \in DOMAIN w <=> asked[x] # row[p][x]
      /\ Assignable(w)
  BY ModifiedColumns
<1>2. Assign(r, w)
  OBVIOUS
<1> HIDE DEF w
<1>3. Dated(row[p], w)
  BY <1>1 DEF Dated
<1>4. Priced(row[p], w)
  <2>1. CASE DOMAIN asked \cap {"coverage", "premium"} = {}
    BY <1>1, <2>1 DEF Priced
  <2>2. CASE /\ {"coverage", "premium"} \subseteq DOMAIN asked
             /\ asked["premium"] = CalculatePremium(Type, asked["coverage"])
    <3>1. asked["coverage"] \in Coverage
      BY <2>2 DEF Assignable
    <3> QED BY <1>1, <2>2, <3>1 DEF Priced
  <2> QED BY <2>1, <2>2
<1> QED BY <1>1, <1>2, <1>3, <1>4 DEF Loads

LEMMA UpdateLoads ==
    ASSUME NEW r \in Request, Update(r)
    PROVE  kind[r] = "update" /\ (Refused(r) \/ \E w : Loads(r, w))
<1> DEFINE p == target[r]
<1>1. /\ kind[r] = "update"
      /\ \/ Refuse(r, "404") \/ Refuse(r, "400")
         \/ /\ ~Gone(p)
            /\ \E s \in PolicyStatus :
                  \/ Assign(r, Modified(p, [status |-> s]))
                  \/ \E c \in Coverage : Assign(r, Modified(p, WithCoverage(s, c)))
                  \/ \E e \in 0 .. MaxTime : e > row[p].start /\
                        \/ Assign(r, Modified(p, WithEnd(s, e)))
                        \/ \E c \in Coverage : Assign(r, Modified(p, WithBoth(s, c, e)))
  BY StatusAssumption DEF Update, Find, WithStatus, EndsLater
<1>2. CASE Refuse(r, "404") \/ Refuse(r, "400")
  BY <1>1, <1>2 DEF Refused, Response
<1>3. ASSUME ~Gone(p), NEW s \in PolicyStatus, Assign(r, Modified(p, [status |-> s]))
      PROVE  \E w : Loads(r, w)
  BY <1>1, <1>3, StatusLoads
<1>4. ASSUME ~Gone(p), NEW s \in PolicyStatus, NEW c \in Coverage,
             Assign(r, Modified(p, WithCoverage(s, c)))
      PROVE  \E w : Loads(r, w)
  <2> DEFINE asked == WithCoverage(s, c)
  <2>1. /\ DOMAIN asked = {"status", "coverage", "premium"}
        /\ asked["status"] = s /\ asked["coverage"] = c
        /\ asked["premium"] = CalculatePremium(Type, c)
    BY DEF WithCoverage
  <2>2. Assign(r, Modified(p, asked))
    BY <1>4
  <2> HIDE DEF asked
  <2>3. Assignable(asked)
    BY <2>1, Premium DEF Assignable, Column
  <2> QED BY <1>1, <1>4, <2>1, <2>2, <2>3, AskedLoads
<1>5. ASSUME ~Gone(p), NEW s \in PolicyStatus, NEW e \in 0 .. MaxTime, e > row[p].start,
             Assign(r, Modified(p, WithEnd(s, e)))
      PROVE  \E w : Loads(r, w)
  <2> DEFINE asked == WithEnd(s, e)
  <2>1. DOMAIN asked = {"status", "end"} /\ asked["status"] = s /\ asked["end"] = e
    BY DEF WithEnd
  <2>2. Assign(r, Modified(p, asked))
    BY <1>5
  <2> HIDE DEF asked
  <2>3. Assignable(asked)
    BY <2>1, TimeAssumption DEF Assignable, Column
  <2> QED BY <1>1, <1>5, <2>1, <2>2, <2>3, AskedLoads
<1>6. ASSUME ~Gone(p), NEW s \in PolicyStatus, NEW c \in Coverage, NEW e \in 0 .. MaxTime,
             e > row[p].start, Assign(r, Modified(p, WithBoth(s, c, e)))
      PROVE  \E w : Loads(r, w)
  <2> DEFINE asked == WithBoth(s, c, e)
  <2>1. /\ DOMAIN asked = {"status", "coverage", "premium", "end"}
        /\ asked["status"] = s /\ asked["coverage"] = c
        /\ asked["premium"] = CalculatePremium(Type, c) /\ asked["end"] = e
    BY DEF WithBoth
  <2>2. Assign(r, Modified(p, asked))
    BY <1>6
  <2> HIDE DEF asked
  <2>3. Assignable(asked)
    BY <2>1, Premium, TimeAssumption DEF Assignable, Column
  <2> QED BY <1>1, <1>6, <2>1, <2>2, <2>3, AskedLoads
<1> QED BY <1>1, <1>2, <1>3, <1>4, <1>5, <1>6

(* What a creation and a deletion go on with.                              *)
LEMMA CreateLoads ==
    ASSUME NEW r \in Request, Create(r)
    PROVE  /\ kind[r] = "create"
           /\ \/ Refused(r)
              \/ \E c \in Coverage, start \in 0 .. MaxTime, end \in 0 .. MaxTime :
                    end > start /\ Assign(r, Drafted(c, start, end))
  BY DEF Create, Refused, Response

LEMMA CheckLoads ==
    ASSUME NEW r \in Request, CheckCustomer(r)
    PROVE  /\ kind[r] = "delete"
           /\ \/ Refused(r)
              \/ (\A p \in Policy : row[p].status # "Active") /\ Assign(r, <<>>)
  BY DEF CheckCustomer, Refused, Response

-----------------------------------------------------------------------------
(* Every step keeps the invariant.                                         *)
LEMMA RefusedKeeps == ASSUME IInv, Noted, NEW r \in Request, Refused(r) PROVE IInv'
  BY AnswerKeeps DEF Refused, Refuse, Go, IInv, TypeOK

LEMMA LoadsKeeps ==
    ASSUME IInv, Noted, NEW r \in Request, Updating(r), NEW w, Loads(r, w) PROVE IInv'
  BY AssignKeeps DEF Loads, Updating, Assignable

LEMMA NextIInv == IInv /\ [Next]_vars => IInv'
<1> SUFFICES ASSUME IInv, [Next]_vars PROVE IInv'
  OBVIOUS
<1>1. CASE UNCHANGED vars
  BY <1>1 DEF vars, rows, IInv, TypeOK, WantedInv, Updating, OverlapInv, Overlap, NoOrphan, Gone
<1>2. CASE Next
  <2>1. Noted
    BY <1>2 DEF Next, Noted
  <2>2. ASSUME NEW r \in Request, Activate(r) \/ Cancel(r) \/ Renew(r) \/ Update(r)
        PROVE  IInv'
    <3>1. Updating(r) /\ (Refused(r) \/ \E w : Loads(r, w))
      BY <2>2, ActivateLoads, CancelLoads, RenewLoads, UpdateLoads DEF Updating
    <3> QED BY <2>1, <3>1, RefusedKeeps, LoadsKeeps
  <2>3. ASSUME NEW r \in Request, Create(r) PROVE IInv'
    <3>1. CASE Refused(r)
      BY <2>1, <3>1, RefusedKeeps
    <3>2. ASSUME NEW c \in Coverage, NEW start \in 0 .. MaxTime, NEW end \in 0 .. MaxTime,
                 Assign(r, Drafted(c, start, end))
          PROVE  IInv'
      <4>1. kind[r] = "create"
        BY <2>3, CreateLoads
      <4>2. Drafted(c, start, end) \in Row
        BY DraftIsRow, TimeAssumption
      <4>3. DOMAIN Drafted(c, start, end) \subseteq Column
        BY DEF Drafted, Column
      <4> QED BY <2>1, <3>2, <4>1, <4>2, <4>3, AssignKeeps DEF Updating
    <3> QED BY <2>3, <3>1, <3>2, CreateLoads
  <2>4. ASSUME NEW r \in Request, CheckCustomer(r) PROVE IInv'
    <3>1. kind[r] = "delete"
      BY <2>4, CheckLoads
    <3>2. CASE Assign(r, <<>>)
      BY <2>1, <3>1, <3>2, AssignKeeps, NothingWanted DEF Updating
    <3> QED BY <2>1, <2>4, <3>2, CheckLoads, RefusedKeeps
  <2>5. ASSUME NEW r \in Request, RespondPolicy(r) \/ RespondNew(r) \/ Fail(r) PROVE IInv'
    <3>1. /\ UNCHANGED <<rows, now, kind, target, histories>>
          /\ \E answer \in Response : pc' = [pc EXCEPT ![r] = answer]
          /\ wanted' = wanted \/ wanted' = [wanted EXCEPT ![r] = <<>>]
      BY <2>5 DEF RespondPolicy, RespondNew, Fail, Go, Response
    <3> QED BY <2>1, <3>1, AnswerKeeps DEF IInv, TypeOK
  <2>6. CASE Tick
    <3>1. now' \in 0 .. MaxTime /\ UNCHANGED <<rows, pc, kind, target, wanted, histories>>
      BY <2>6, TimeAssumption DEF Tick, IInv, TypeOK
    <3>2. CASE Request = {}
      BY <2>1, <3>1, <3>2, HistoryKept
         DEF rows, histories, IInv, TypeOK, WantedInv, Updating, NoOrphan, Gone
    <3> QED BY <2>1, <3>1, <3>2, AnswerKeeps DEF Response
  <2> QED
    BY <1>2, <2>1, <2>2, <2>3, <2>4, <2>5, <2>6, SavePolicyKeeps, SaveNewKeeps, DeleteKeeps
       DEF Next
<1> QED BY <1>1, <1>2

LEMMA SpecIInv == Spec => []IInv
  BY InitIInv, NextIInv, PTL DEF Spec

(* The policies are well typed, whatever requests overlap.                 *)
THEOREM TypeCorrect == Spec => []TypeOK
<1>1. IInv => TypeOK
  BY DEF IInv
<1> QED BY <1>1, SpecIInv, PTL

(* No policy is left without its customer, for any number of creations     *)
(* that overlap with the deletion.                                         *)
THEOREM Orphans == Spec => []NoOrphan
<1>1. IInv => NoOrphan
  BY DEF IInv
<1> QED BY <1>1, SpecIInv, PTL

-----------------------------------------------------------------------------
(* The steps of Next, as far as rows and assignments go: nothing that the  *)
(* other requests assigned changes, and only a request that has loaded     *)
(* policies touches rows, and is done with them then.                      *)
Others(r) ==
    /\ UNCHANGED <<kind, target>>
    /\ \A q \in Request \ {r} : pc'[q] = pc[q] /\ wanted'[q] = wanted[q]

Step(r) ==
    \/ Others(r) /\ UNCHANGED <<row, histories>> /\ pc'[r] # "loaded"
    \/ /\ Updating(r) /\ Others(r) /\ UNCHANGED <<row, histories>>
       /\ \E w : Loads(r, w) /\ wanted'[r] = w
    \/ /\ kind[r] = "create" /\ Others(r) /\ UNCHANGED <<row, histories>>
       /\ \E c \in Coverage, start \in 0 .. MaxTime, end \in 0 .. MaxTime :
             end > start /\ wanted'[r] = Drafted(c, start, end)
    \/ /\ kind[r] = "delete" /\ Others(r) /\ UNCHANGED <<row, histories>>
       /\ \A p \in Policy : row[p].status # "Active"
    \/ SavePolicy(r) /\ Others(r)
    \/ SaveNew(r) /\ Others(r)
    \/ DeleteCustomer(r) /\ Others(r)

Quiet == UNCHANGED <<row, kind, target, pc, wanted, histories>>

LEMMA GoingIsStep ==
    ASSUME IInv, NEW r \in Request, NEW to, UNCHANGED <<kind, target>>,
           pc' = [pc EXCEPT ![r] = to],
           wanted' = wanted \/ \E w : wanted' = [wanted EXCEPT ![r] = w]
    PROVE  Others(r) /\ pc'[r] = to
  BY DEF IInv, TypeOK, WantedInv, Others

LEMMA AssignIsStep ==
    ASSUME IInv, NEW r \in Request, NEW w, Assign(r, w)
    PROVE  Others(r) /\ UNCHANGED <<row, histories>> /\ wanted'[r] = w
<1>1. /\ UNCHANGED <<rows, kind, target, histories>> /\ pc' = [pc EXCEPT ![r] = "loaded"]
      /\ wanted' = [wanted EXCEPT ![r] = w]
  BY DEF Assign, Go
<1>2. wanted'[r] = w
  BY <1>1 DEF IInv, WantedInv
<1> QED BY <1>1, <1>2, GoingIsStep DEF rows

LEMMA Steps == IInv /\ [Next]_vars => Quiet \/ \E r \in Request : Step(r)
<1> SUFFICES ASSUME IInv, [Next]_vars PROVE Quiet \/ \E r \in Request : Step(r)
  OBVIOUS
<1>1. ASSUME NEW r \in Request, Refused(r) PROVE Step(r)
  <2>1. PICK answer \in Response : Refuse(r, answer)
    BY <1>1 DEF Refused
  <2>2. Others(r) /\ pc'[r] = answer
    BY <2>1, GoingIsStep DEF Refuse, Go
  <2> QED BY <2>1, <2>2 DEF Refuse, rows, Step, Response
<1>2. ASSUME NEW r \in Request, Activate(r) \/ Cancel(r) \/ Renew(r) \/ Update(r)
      PROVE  Step(r)
  <2>1. Updating(r) /\ (Refused(r) \/ \E w : Loads(r, w))
    BY <1>2, ActivateLoads, CancelLoads, RenewLoads, UpdateLoads DEF Updating
  <2>2. ASSUME NEW w, Loads(r, w) PROVE Step(r)
    BY <2>1, <2>2, AssignIsStep DEF Loads, Step
  <2> QED BY <1>1, <2>1, <2>2
<1>3. ASSUME NEW r \in Request, Create(r) PROVE Step(r)
  BY <1>1, <1>3, CreateLoads, AssignIsStep DEF Step
<1>4. ASSUME NEW r \in Request, CheckCustomer(r) PROVE Step(r)
  BY <1>1, <1>4, CheckLoads, AssignIsStep DEF Step
<1>5. ASSUME NEW r \in Request, RespondPolicy(r) \/ RespondNew(r) \/ Fail(r) PROVE Step(r)
  <2>1. /\ UNCHANGED <<rows, kind, target, histories>>
        /\ \E answer \in Response : pc' = [pc EXCEPT ![r] = answer]
        /\ wanted' = wanted \/ wanted' = [wanted EXCEPT ![r] = <<>>]
    BY <1>5 DEF RespondPolicy, RespondNew, Fail, Go, Response
  <2>2. Others(r) /\ pc'[r] \in Response
    BY <2>1, GoingIsStep
  <2> QED BY <2>1, <2>2 DEF Step, rows, Response
<1>6. ASSUME NEW r \in Request, SavePolicy(r) PROVE Step(r)
  BY <1>6, GoingIsStep DEF SavePolicy, Go, Step
<1>7. ASSUME NEW r \in Request, SaveNew(r) PROVE Step(r)
  BY <1>7, GoingIsStep DEF SaveNew, Go, Step
<1>8. ASSUME NEW r \in Request, DeleteCustomer(r) PROVE Step(r)
  BY <1>8, GoingIsStep DEF DeleteCustomer, Go, Step
<1>9. CASE Tick \/ UNCHANGED vars
  BY <1>9 DEF Tick, vars, rows, histories, Quiet
<1> QED
  BY <1>2, <1>3, <1>4, <1>5, <1>6, <1>7, <1>8, <1>9 DEF Next

-----------------------------------------------------------------------------
(* Requests in turn.  A request that no other has overlapped with finds    *)
(* the rows, when it saves, as it loaded them.                             *)
InTurn == ~overlapped /\ ~overlapped'

LEMMA Turns == IInv /\ [Next]_vars /\ ~overlapped' => InTurn
  BY DEF vars, Next, InTurn, IInv, TypeOK

LEMMA RowsHold ==
    ASSUME IInv, InTurn, NEW r \in Request, Step(r)
    PROVE  /\ \A q \in Request \ {r} :
                 pc'[q] = "loaded" => pc[q] = "loaded" /\ UNCHANGED <<row, kind, target>>
           /\ \A q \in Request : target'[q] = target[q] /\ kind'[q] = kind[q]
                                 /\ target[q] \in Policy
<1>1. Others(r)
  BY DEF Step
<1>2. row' # row => pc[r] = "loaded"
  BY DEF Step, SavePolicy, SaveNew, DeleteCustomer, Go
<1>3. ASSUME NEW q \in Request \ {r}, pc[q] = "loaded", pc[r] = "loaded" PROVE FALSE
  BY <1>3 DEF InTurn, IInv, OverlapInv, Overlap
<1> QED BY <1>1, <1>2, <1>3 DEF Others, IInv, TypeOK

-----------------------------------------------------------------------------
(* Premiums.                                                               *)

(* Columns w written to a row leave it priced as its coverage asks for.    *)
LeavesPriced(old, w) ==
    LET coverage == IF "coverage" \in DOMAIN w THEN w["coverage"] ELSE old["coverage"]
        premium == IF "premium" \in DOMAIN w THEN w["premium"] ELSE old["premium"]
    IN  premium = CalculatePremium(Type, coverage)

(* What a request that waits to save will write: for a policy that never   *)
(* had a coverage saved alone, a premium only with the coverage that asks  *)
(* for it, whatever has become of the row; and in turn, what the row it    *)
(* loaded needs to be priced right.                                        *)
PremiumInv ==
    /\ \A r \in Request : pc[r] = "loaded" /\ Updating(r) /\ target[r] \notin alone
                              /\ "premium" \in DOMAIN wanted[r] =>
              /\ "coverage" \in DOMAIN wanted[r]
              /\ wanted[r]["premium"] = CalculatePremium(Type, wanted[r]["coverage"])
    /\ ~overlapped => \A r \in Request : pc[r] = "loaded" /\ Updating(r) =>
          /\ ~Gone(target[r])
          /\ row[target[r]].premium = CalculatePremium(Type, row[target[r]].coverage)
                => LeavesPriced(row[target[r]], wanted[r])
    /\ \A r \in Request : pc[r] = "loaded" /\ kind[r] = "create" =>
          wanted[r].premium = CalculatePremium(Type, wanted[r].coverage)
    /\ PremiumFits

(* What is assigned to a row that is priced right.                         *)
LEMMA PricedLeaves ==
    ASSUME NEW old \in Row, NEW w, Priced(old, w),
           old.premium = CalculatePremium(Type, old.coverage)
    PROVE  /\ LeavesPriced(old, w)
           /\ "premium" \in DOMAIN w =>
                 /\ "coverage" \in DOMAIN w
                 /\ w["premium"] = CalculatePremium(Type, w["coverage"])
<1>1. old["coverage"] = old.coverage /\ old["premium"] = old.premium
  BY DEF Row
<1>2. CASE DOMAIN w \cap {"coverage", "premium"} = {}
  BY <1>1, <1>2 DEF LeavesPriced
<1>3. ASSUME NEW c \in Coverage,
             /\ "coverage" \in DOMAIN w <=> c # old.coverage
             /\ "premium" \in DOMAIN w <=> CalculatePremium(Type, c) # old.premium
             /\ "coverage" \in DOMAIN w => w["coverage"] = c
             /\ "premium" \in DOMAIN w => w["premium"] = CalculatePremium(Type, c)
      PROVE  /\ LeavesPriced(old, w)
             /\ "premium" \in DOMAIN w =>
                   /\ "coverage" \in DOMAIN w
                   /\ w["premium"] = CalculatePremium(Type, w["coverage"])
  BY <1>1, <1>3 DEF LeavesPriced
<1> QED BY <1>2, <1>3 DEF Priced

LEMMA StepPremium ==
    ASSUME IInv, PremiumInv, overlapped => overlapped', ~overlapped' => InTurn,
           NEW r \in Request, Step(r)
    PROVE  PremiumInv'
<1>0. Others(r) /\ target' = target /\ kind' = kind /\ \A q \in Request : target[q] \in Policy
  BY DEF Step, Others, IInv, TypeOK
<1>1. \A q \in Policy : q \notin alone' => q \notin alone
  BY Saved DEF Step, histories, SaveNew, DeleteCustomer
<1>2. ~overlapped' =>
         \A q \in Request \ {r} : pc'[q] = "loaded" => pc[q] = "loaded" /\ UNCHANGED row
  BY RowsHold
<1> DEFINE Exact(p) == row[p].premium = CalculatePremium(Type, row[p].coverage)
<1>3. SUFFICES
        /\ pc'[r] = "loaded" /\ Updating(r) /\ target[r] \notin alone'
           /\ "premium" \in DOMAIN wanted'[r] =>
                  /\ "coverage" \in DOMAIN wanted'[r]
                  /\ wanted'[r]["premium"] = CalculatePremium(Type, wanted'[r]["coverage"])
        /\ ~overlapped' /\ pc'[r] = "loaded" /\ Updating(r) =>
              /\ row'[target[r]] # NoRow
              /\ row'[target[r]].premium = CalculatePremium(Type, row'[target[r]].coverage)
                    => LeavesPriced(row'[target[r]], wanted'[r])
        /\ pc'[r] = "loaded" /\ kind[r] = "create" =>
              wanted'[r].premium = CalculatePremium(Type, wanted'[r].coverage)
        /\ PremiumFits'
  <2>1. ASSUME NEW q \in Request \ {r}
        PROVE  /\ pc'[q] = pc[q] /\ wanted'[q] = wanted[q]
               /\ target'[q] = target[q] /\ kind'[q] = kind[q] /\ target[q] \in Policy
    BY <1>0, <2>1 DEF Others
  <2>2. \A q \in Request : Updating(q)' <=> Updating(q)
    BY <1>0 DEF Updating
  <2>3. \A q \in Request \ {r} :
           pc'[q] = "loaded" /\ Updating(q) /\ target[q] \notin alone'
           /\ "premium" \in DOMAIN wanted'[q] =>
                  /\ "coverage" \in DOMAIN wanted'[q]
                  /\ wanted'[q]["premium"] = CalculatePremium(Type, wanted'[q]["coverage"])
    BY <1>1, <2>1 DEF PremiumInv
  <2>4. ~overlapped' => \A q \in Request \ {r} : pc'[q] = "loaded" /\ Updating(q) =>
              /\ row'[target[q]] # NoRow
              /\ row'[target[q]].premium = CalculatePremium(Type, row'[target[q]].coverage)
                    => LeavesPriced(row'[target[q]], wanted'[q])
    BY <1>2, <2>1 DEF PremiumInv, Gone
  <2>5. \A q \in Request \ {r} : pc'[q] = "loaded" /\ kind[q] = "create" =>
              wanted'[q].premium = CalculatePremium(Type, wanted'[q].coverage)
    BY <2>1 DEF PremiumInv
  <2> QED BY <1>0, <2>2, <2>3, <2>4, <2>5 DEF PremiumInv, Gone
<1>4. UNCHANGED row => PremiumFits'
  BY <1>1 DEF PremiumInv, PremiumFits, Gone
<1>5. CASE UNCHANGED row /\ pc'[r] # "loaded"
  BY <1>4, <1>5
<1>6. ASSUME Updating(r), UNCHANGED <<row, histories>>, NEW w, Loads(r, w), wanted'[r] = w
      PROVE  /\ target[r] \notin alone /\ "premium" \in DOMAIN w =>
                   /\ "coverage" \in DOMAIN w
                   /\ w["premium"] = CalculatePremium(Type, w["coverage"])
             /\ row'[target[r]] # NoRow
             /\ row'[target[r]].premium = CalculatePremium(Type, row'[target[r]].coverage)
                   => LeavesPriced(row'[target[r]], w)
  <2> DEFINE old == row[target[r]]
  <2>1. ~Gone(target[r]) /\ Priced(old, w) /\ row'[target[r]] = old
    BY <1>6 DEF Loads
  <2>2. old \in Row /\ old # NoRow
    BY <1>0, <2>1 DEF IInv, TypeOK, Gone
  <2>3. target[r] \notin alone => old.premium = CalculatePremium(Type, old.coverage)
    BY <1>0, <2>1 DEF PremiumInv, PremiumFits
  <2> HIDE DEF old
  <2> QED BY <2>1, <2>2, <2>3, PricedLeaves
<1>7. ASSUME NEW c \in Coverage, NEW start, NEW end, wanted'[r] = Drafted(c, start, end)
      PROVE  wanted'[r].premium = CalculatePremium(Type, wanted'[r].coverage)
  BY <1>7 DEF Drafted
<1>8. CASE SavePolicy(r)
  <2> DEFINE p == target[r]
             w == wanted[r]
             new == [c \in Column |-> IF c \in DOMAIN w THEN w[c] ELSE row[p][c]]
  <2>1. /\ pc[r] = "loaded" /\ pc' = [pc EXCEPT ![r] = "saved"] /\ Updating(r)
        /\ alone' = alone \cup {q \in {p} : CoverageAlone(w)}
        /\ row' = row \/ (~Gone(p) /\ row[p] \in Row /\ row' = [row EXCEPT ![p] = new])
    BY <1>8, Saved
  <2>2. pc'[r] = "saved"
    BY <2>1 DEF IInv, TypeOK
  <2>3. /\ new["premium"] = IF "premium" \in DOMAIN w THEN w["premium"] ELSE row[p]["premium"]
        /\ new["coverage"] = IF "coverage" \in DOMAIN w THEN w["coverage"] ELSE row[p]["coverage"]
        /\ new.premium = new["premium"] /\ new.coverage = new["coverage"]
    BY DEF Column
  <2> HIDE DEF new
  <2>4. ~Gone(p) /\ row[p] \in Row /\ ~(overlapped' /\ p \in alone') =>
           new.premium = CalculatePremium(Type, new.coverage)
    <3>1. SUFFICES ASSUME ~Gone(p), row[p] \in Row, ~(overlapped' /\ p \in alone')
                   PROVE  new["premium"] = CalculatePremium(Type, new["coverage"])
      BY <2>3
    <3>2. row[p]["premium"] = CalculatePremium(Type, row[p]["coverage"])
      BY <1>0, <2>1, <3>1 DEF PremiumInv, PremiumFits, Row
    <3>3. CASE ~overlapped'
      <4>1. LeavesPriced(row[p], w)
        BY <2>1, <3>1, <3>2, <3>3 DEF PremiumInv, InTurn, Row
      <4> QED BY <2>3, <4>1 DEF LeavesPriced
    <3>4. CASE p \notin alone'
      <4>1. p \notin alone /\ ~CoverageAlone(w)
        BY <2>1, <3>4
      <4>2. "premium" \in DOMAIN w =>
               "coverage" \in DOMAIN w /\ w["premium"] = CalculatePremium(Type, w["coverage"])
        BY <2>1, <4>1 DEF PremiumInv
      <4> QED BY <2>3, <3>2, <4>1, <4>2 DEF CoverageAlone
    <3> QED BY <3>1, <3>3, <3>4
  <2>5. ASSUME NEW q \in Policy, row'[q] # NoRow, ~(overlapped' /\ q \in alone')
        PROVE  row'[q].premium = CalculatePremium(Type, row'[q].coverage)
    <3>1. CASE row'[q] = row[q]
      <4>1. ~Gone(q) /\ ~(overlapped /\ q \in alone)
        BY <1>1, <2>5, <3>1 DEF Gone
      <4> QED BY <3>1, <4>1 DEF PremiumInv, PremiumFits
    <3>2. CASE row'[q] # row[q]
      <4>1. q = p /\ row'[q] = new /\ ~Gone(p) /\ row[p] \in Row
        BY <1>0, <2>1, <3>2 DEF IInv, TypeOK
      <4> QED BY <2>4, <2>5, <4>1
    <3> QED BY <3>1, <3>2
  <2>6. PremiumFits'
    BY <2>5 DEF PremiumFits, Gone
  <2> QED BY <1>0, <2>1, <2>2, <2>6 DEF Updating
<1>9. CASE SaveNew(r)
  <2>1. /\ pc[r] = "loaded" /\ pc' = [pc EXCEPT ![r] = "saved"] /\ kind[r] = "create"
        /\ row' = [row EXCEPT ![target[r]] = wanted[r]]
    BY <1>9 DEF SaveNew, Go
  <2>2. pc'[r] = "saved"
    BY <2>1 DEF IInv, TypeOK
  <2>3. wanted[r].premium = CalculatePremium(Type, wanted[r].coverage)
    BY <2>1 DEF PremiumInv
  <2>4. \A q \in Policy : row'[q] = row[q] \/ row'[q] = wanted[r]
    BY <1>0, <2>1 DEF IInv, TypeOK
  <2>5. PremiumFits'
    BY <1>1, <2>3, <2>4 DEF PremiumInv, PremiumFits, Gone
  <2> QED BY <2>1, <2>2, <2>5 DEF Updating
<1>10. CASE DeleteCustomer(r)
  <2>1. pc' = [pc EXCEPT ![r] = "204"] /\ row' = [p \in Policy |-> NoRow]
    BY <1>10 DEF DeleteCustomer, Go
  <2>2. pc'[r] = "204"
    BY <2>1 DEF IInv, TypeOK
  <2>3. PremiumFits'
    BY <2>1 DEF PremiumFits, Gone
  <2> QED BY <2>2, <2>3
<1>11. CASE kind[r] = "delete" /\ UNCHANGED row
  BY <1>4, <1>11 DEF Updating
<1>12. CASE /\ Updating(r) /\ UNCHANGED <<row, histories>>
            /\ \E w : Loads(r, w) /\ wanted'[r] = w
  BY <1>4, <1>6, <1>12 DEF Updating, histories
<1>13. CASE /\ kind[r] = "create" /\ UNCHANGED row
            /\ \E c \in Coverage, start \in 0 .. MaxTime, end \in 0 .. MaxTime :
                  end > start /\ wanted'[r] = Drafted(c, start, end)
  BY <1>4, <1>7, <1>13 DEF Updating
<1> QED
  BY <1>5, <1>8, <1>9, <1>10, <1>11, <1>12, <1>13 DEF Step

(* A policy is priced as its coverage asks for, for every set of coverages *)
(* and through any overlap of requests, unless a save of it left the       *)
(* premium to the row, and always when requests do not overlap.            *)
THEOREM Pricing == Spec => []PremiumFits
<1>1. Init => PremiumInv
  <2> SUFFICES ASSUME Init PROVE PremiumInv
    OBVIOUS
  <2>1. \A r \in Request : pc[r] # "loaded"
    BY DEF Init
  <2>2. PremiumFits
    BY DEF Init, PremiumFits, Gone, Drafted
  <2> QED BY <2>1, <2>2 DEF PremiumInv
<1>2. IInv /\ PremiumInv /\ [Next]_vars => PremiumInv'
  <2> SUFFICES ASSUME IInv, PremiumInv, [Next]_vars PROVE PremiumInv'
    OBVIOUS
  <2>1. overlapped => overlapped'
    BY DEF vars, Next, IInv, TypeOK
  <2>2. ~overlapped' => InTurn
    BY Turns
  <2>3. Quiet => PremiumInv'
    BY <2>1 DEF Quiet, histories, PremiumInv, PremiumFits, Updating, Gone
  <2> QED BY <2>1, <2>2, <2>3, Steps, StepPremium
<1>3. PremiumInv => PremiumFits
  BY DEF PremiumInv
<1> QED BY <1>1, <1>2, <1>3, SpecIInv, PTL DEF Spec

-----------------------------------------------------------------------------
(* What a request checked still holds when it saves.                       *)
TurnInv ==
    ~overlapped => \A r \in Request : pc[r] = "loaded" =>
        /\ kind[r] = "activate" => row[target[r]].status = "Draft"
        /\ kind[r] = "delete" => \A p \in Policy : row[p].status # "Active"

LEMMA StepTurn ==
    ASSUME IInv, TurnInv, InTurn, NEW r \in Request, Step(r)
    PROVE  TurnInv'
<1>1. /\ \A q \in Request \ {r} :
            pc'[q] = "loaded" => pc[q] = "loaded" /\ UNCHANGED <<row, kind, target>>
      /\ \A q \in Request : target'[q] = target[q] /\ kind'[q] = kind[q]
  BY RowsHold
<1>2. SUFFICES ASSUME pc'[r] = "loaded"
               PROVE  /\ kind[r] = "activate" => row'[target[r]].status = "Draft"
                      /\ kind[r] = "delete" => \A p \in Policy : row'[p].status # "Active"
  BY <1>1 DEF TurnInv, InTurn
<1>3. ~(SavePolicy(r) \/ SaveNew(r) \/ DeleteCustomer(r))
  BY <1>2 DEF SavePolicy, SaveNew, DeleteCustomer, Go, IInv, TypeOK
<1>4. /\ UNCHANGED row
      /\ \/ Updating(r) /\ \E w : Loads(r, w)
         \/ kind[r] = "create"
         \/ kind[r] = "delete" /\ \A p \in Policy : row[p].status # "Active"
  BY <1>2, <1>3 DEF Step
<1> QED BY <1>4 DEF Loads, Updating

LEMMA NextTurn == IInv /\ TurnInv /\ [Next]_vars => TurnInv'
<1> SUFFICES ASSUME IInv, TurnInv, [Next]_vars, ~overlapped' PROVE TurnInv'
  BY DEF TurnInv
<1>1. InTurn
  BY Turns
<1>2. Quiet => TurnInv'
  BY <1>1 DEF Quiet, TurnInv, InTurn
<1> QED BY <1>1, <1>2, Steps, StepTurn

(* Requests that do not overlap activate nothing but drafts, and delete a  *)
(* customer only without active policies.                                  *)
THEOREM Rules == Spec => RulesHoldInTurn
<1>1. Init => TurnInv
  BY DEF Init, TurnInv
<1>2. IInv /\ TurnInv /\ [Next]_vars =>
        [~overlapped' => DeletedWithoutActive /\ \A r \in Request : ActivatedFromDraft(r)]_vars
  <2> SUFFICES ASSUME IInv, TurnInv, [Next]_vars, ~overlapped'
               PROVE  DeletedWithoutActive /\ \A r \in Request : ActivatedFromDraft(r)
    OBVIOUS
  <2>1. ~overlapped
    BY Turns DEF InTurn
  <2>2. DeletedWithoutActive
    <3>1. customer /\ ~customer' => \E r \in Request : DeleteCustomer(r)
      <4>1. ASSUME NEW r \in Request,
                   Activate(r) \/ Cancel(r) \/ Renew(r) \/ Update(r)
            PROVE  UNCHANGED customer
        BY <4>1, ActivateLoads, CancelLoads, RenewLoads, UpdateLoads
           DEF Refused, Loads, Refuse, Assign, rows
      <4>2. ASSUME NEW r \in Request, Create(r) \/ CheckCustomer(r)
            PROVE  UNCHANGED customer
        BY <4>2, CreateLoads, CheckLoads DEF Refused, Refuse, Assign, rows
      <4>3. ASSUME NEW r \in Request,
                   SavePolicy(r) \/ SaveNew(r) \/ RespondPolicy(r) \/ RespondNew(r) \/ Fail(r)
            PROVE  UNCHANGED customer
        BY <4>3 DEF SavePolicy, SaveNew, RespondPolicy, RespondNew, Fail, rows
      <4>4. Tick \/ UNCHANGED vars => UNCHANGED customer
        BY DEF Tick, rows, vars
      <4> QED BY <4>1, <4>2, <4>3, <4>4 DEF Next
    <3> QED BY <2>1, <3>1 DEF DeletedWithoutActive, DeleteCustomer, Go, TurnInv
  <2>3. ASSUME NEW r \in Request PROVE ActivatedFromDraft(r)
    BY <2>1 DEF TurnInv, ActivatedFromDraft
  <2> QED BY <2>2, <2>3
<1> QED BY <1>1, <1>2, NextTurn, SpecIInv, PTL DEF Spec, RulesHoldInTurn

-----------------------------------------------------------------------------
(* Dates.                                                                  *)

(* What a request will write leaves the row it loaded in order.            *)
DateInv ==
    /\ ~overlapped => \A r \in Request : pc[r] = "loaded" =>
          /\ Updating(r) => ~Gone(target[r]) /\ Dated(row[target[r]], wanted[r])
          /\ kind[r] = "create" => wanted[r].end > wanted[r].start
    /\ EndAfterStart

LEMMA StepDates ==
    ASSUME IInv, DateInv, InTurn, NEW r \in Request, Step(r)
    PROVE  DateInv'
<1>1. /\ \A q \in Request \ {r} :
            pc'[q] = "loaded" => pc[q] = "loaded" /\ UNCHANGED <<row, kind, target>>
      /\ \A q \in Request : target'[q] = target[q] /\ kind'[q] = kind[q] /\ target[q] \in Policy
      /\ \A q \in Request \ {r} : wanted'[q] = wanted[q]
  BY RowsHold DEF Step, Others
<1>2. SUFFICES
        /\ pc'[r] = "loaded" =>
              /\ Updating(r) => row'[target[r]] # NoRow /\ Dated(row'[target[r]], wanted'[r])
              /\ kind[r] = "create" => wanted'[r].end > wanted'[r].start
        /\ \A p \in Policy : row'[p] # NoRow /\ p \notin shortened' =>
              row'[p].end > row'[p].start
  BY <1>1 DEF DateInv, EndAfterStart, InTurn, Gone, Updating
<1>3. \A p \in Policy : ~Gone(p) =>
         /\ p \notin shortened => row[p]["end"] > row[p]["start"]
         /\ row[p] \in Row
  BY DEF InTurn, DateInv, EndAfterStart, IInv, TypeOK, Gone
<1>4. CASE UNCHANGED <<row, histories>> /\ pc'[r] # "loaded"
  BY <1>3, <1>4 DEF Gone, histories
<1>5. ASSUME UNCHANGED row, NEW w, Loads(r, w), wanted'[r] = w
      PROVE  row'[target[r]] # NoRow /\ Dated(row'[target[r]], w)
  BY <1>5 DEF Loads, Gone
<1>6. ASSUME NEW c \in Coverage, NEW start, NEW end, wanted'[r] = Drafted(c, start, end),
             end > start
      PROVE  wanted'[r].end > wanted'[r].start
  BY <1>6 DEF Drafted
<1>7. CASE SavePolicy(r)
  <2> DEFINE p == target[r]
             w == wanted[r]
             new == [c \in Column |-> IF c \in DOMAIN w THEN w[c] ELSE row[p][c]]
  <2>1. /\ pc[r] = "loaded" /\ pc' = [pc EXCEPT ![r] = "saved"] /\ Updating(r)
        /\ Assignable(w)
        /\ shortened' = (shortened \ {q \in {p} : "end" \in DOMAIN w})
                         \cup {q \in {p} : Shortens(w)}
        /\ Gone(p) \/ row' = [row EXCEPT ![p] = new]
    BY <1>7, Saved
  <2>2. pc'[r] = "saved"
    BY <2>1 DEF IInv, TypeOK
  <2>3. /\ ~Gone(p) /\ Dated(row[p], w)
        /\ p \notin shortened => row[p]["end"] > row[p]["start"]
        /\ row[p]["start"] \in Int /\ row[p]["end"] \in Int
    <3>1. ~Gone(p) /\ Dated(row[p], w)
      BY <2>1 DEF DateInv, InTurn
    <3> QED BY <1>1, <1>3, <3>1 DEF Row
  <2>4. p \notin shortened' => new["end"] > new["start"]
    <3>1. CASE "start" \in DOMAIN w
      <4>1. "end" \in DOMAIN w
        BY <2>3, <3>1 DEF Dated
      <4>2. w["end"] \in Int /\ w["start"] \in Int
        BY <2>1, <3>1, <4>1 DEF Assignable
      <4>3. p \notin shortened' => ~(w["end"] <= w["start"])
        BY <2>1, <3>1, <4>1 DEF Shortens
      <4> QED BY <3>1, <4>1, <4>2, <4>3 DEF Column
    <3>2. CASE "start" \notin DOMAIN w /\ "end" \in DOMAIN w
      BY <2>3, <3>2 DEF Dated, Column
    <3>3. CASE "start" \notin DOMAIN w /\ "end" \notin DOMAIN w
      <4>1. p \notin shortened' => p \notin shortened
        BY <2>1, <3>3
      <4> QED BY <2>3, <3>3, <4>1 DEF Column
    <3> QED BY <3>1, <3>2, <3>3
  <2>5. new.end = new["end"] /\ new.start = new["start"]
    BY DEF Column
  <2> HIDE DEF new
  <2>6. row'[p] = new /\ \A q \in Policy \ {p} : row'[q] = row[q]
    BY <1>1, <2>1, <2>3 DEF IInv, TypeOK
  <2>7. \A q \in Policy \ {p} : q \notin shortened' => q \notin shortened
    BY <2>1
  <2>8. \A q \in Policy : row'[q] # NoRow /\ q \notin shortened' =>
              row'[q].end > row'[q].start
    BY <1>3, <2>4, <2>5, <2>6, <2>7 DEF Gone
  <2> QED BY <2>2, <2>8
<1>8. CASE SaveNew(r)
  <2>1. /\ pc[r] = "loaded" /\ pc' = [pc EXCEPT ![r] = "saved"] /\ kind[r] = "create"
        /\ row' = [row EXCEPT ![target[r]] = wanted[r]]
    BY <1>8 DEF SaveNew, Go
  <2>2. pc'[r] = "saved" /\ wanted[r].end > wanted[r].start
    BY <2>1 DEF IInv, TypeOK, DateInv, InTurn
  <2>3. /\ \A q \in Policy : row'[q] = row[q] \/ row'[q] = wanted[r]
        /\ shortened' = shortened
    BY <1>8, <2>1 DEF IInv, TypeOK, SaveNew, histories
  <2> QED BY <1>3, <2>2, <2>3 DEF Gone
<1>9. CASE DeleteCustomer(r)
  <2>1. pc' = [pc EXCEPT ![r] = "204"] /\ row' = [p \in Policy |-> NoRow]
    BY <1>9 DEF DeleteCustomer, Go
  <2>2. pc'[r] = "204"
    BY <2>1 DEF IInv, TypeOK
  <2> QED BY <2>1, <2>2
<1>10. CASE kind[r] = "delete" /\ UNCHANGED <<row, histories>>
  BY <1>3, <1>10 DEF Updating, Gone, histories
<1>11. CASE /\ Updating(r) /\ UNCHANGED <<row, histories>> /\ \E w : Loads(r, w) /\ wanted'[r] = w
  BY <1>3, <1>5, <1>11 DEF Updating, Gone, histories
<1>12. CASE /\ kind[r] = "create" /\ UNCHANGED <<row, histories>>
            /\ \E c \in Coverage, start \in 0 .. MaxTime, end \in 0 .. MaxTime :
                  end > start /\ wanted'[r] = Drafted(c, start, end)
  BY <1>3, <1>6, <1>12 DEF Updating, Gone, histories
<1> QED
  BY <1>4, <1>7, <1>8, <1>9, <1>10, <1>11, <1>12 DEF Step

(* When requests do not overlap, only a renewal of less than a month       *)
(* leaves a policy that does not end after it starts, whatever months are  *)
(* asked for.                                                              *)
THEOREM Dating == Spec => []EndAfterStart
<1>1. Init => DateInv
  <2> SUFFICES ASSUME Init PROVE DateInv
    OBVIOUS
  <2>1. \A r \in Request : pc[r] # "loaded"
    BY DEF Init
  <2>2. EndAfterStart
    BY TimeAssumption DEF Init, EndAfterStart, Gone, Drafted
  <2> QED BY <2>1, <2>2 DEF DateInv
<1>2. IInv /\ DateInv /\ [Next]_vars => DateInv'
  <2> SUFFICES ASSUME IInv, DateInv, [Next]_vars PROVE DateInv'
    OBVIOUS
  <2>1. overlapped' => DateInv'
    BY DEF DateInv, EndAfterStart
  <2>2. ~overlapped' /\ Quiet => DateInv'
    BY Turns DEF Quiet, histories, InTurn, DateInv, EndAfterStart, Updating, Gone
  <2> QED BY <2>1, <2>2, Turns, Steps, StepDates
<1>3. DateInv => EndAfterStart
  BY DEF DateInv
<1> QED BY <1>1, <1>2, <1>3, SpecIInv, PTL DEF Spec

-----------------------------------------------------------------------------
(* The claims, and the requests that change their status.                  *)

(* A request that waits to save knows what it loaded: an approval that is  *)
(* not deleted by now has left its date behind, and if no other request    *)
(* had the claim loaded, the claim is still as it was.                     *)
LoadedInv ==
    \A r \in ClaimRequest :
        stage[r] = "loaded" /\ ~Deleted(claimOf[r]) =>
            /\ loaded[r] \in {"Approved", "Denied", "Paid", "Closed"}
                   => claimOf[r] \in resolved
            /\ claimOf[r] \notin contended => loaded[r] = status[claimOf[r]]

(* The history variable misses no overlap.                                 *)
ClaimOverlapInv == \A c \in Claim : Overlaps(c) => c \in contended

ClaimsInv == ClaimsTypeOK /\ LoadedInv /\ ClaimOverlapInv /\ ResolutionFits

(* What a step of the services does to the history.                        *)
ClaimsNoted == contended' = contended \cup {c \in Claim : Overlaps(c)'}

(* Claims as they are filed satisfy the invariant.                         *)
LEMMA InitClaims == ClaimsInit => ClaimsInv
  BY DEF ClaimsInit, ClaimsInv, ClaimsTypeOK, LoadedInv, ClaimOverlapInv, ResolutionFits, Overlaps,
         LoadedBy, ClaimStatus, ClaimResponse

(* The history is kept by every step that notes the overlaps.              *)
LEMMA ClaimOverlapsNoted ==
  ASSUME ClaimsInv, ClaimsNoted
  PROVE  ClaimOverlapInv' /\ contended' \subseteq Claim /\ contended \subseteq contended'
  BY DEF ClaimsInv, ClaimsTypeOK, ClaimsNoted, ClaimOverlapInv

(* Loading a claim.                                                        *)
LEMMA LoadClaimKeeps ==
  ASSUME ClaimsInv, NEW r \in ClaimRequest, LoadClaim(r), ClaimsNoted
  PROVE  ClaimsInv'
<1>1. ClaimOverlapInv' /\ contended' \subseteq Claim /\ contended \subseteq contended'
  BY ClaimOverlapsNoted
<1>2. ClaimsTypeOK'
  <2>1. status[claimOf[r]] \in ClaimStatus
    BY DEF ClaimsInv, ClaimsTypeOK, LoadClaim, Deleted
  <2> QED
    BY <1>1, <2>1 DEF ClaimsInv, ClaimsTypeOK, LoadClaim, Advance, claimRows
<1>3. LoadedInv'
  BY <1>1 DEF ClaimsInv, ClaimsTypeOK, LoadedInv, ResolutionFits, LoadClaim, Advance, Deleted, claimRows
<1>4. ResolutionFits'
  BY <1>1 DEF ClaimsInv, ClaimsTypeOK, ResolutionFits, LoadClaim, claimRows
<1> QED
  BY <1>1, <1>2, <1>3, <1>4 DEF ClaimsInv

(* A request that ends without touching the row.                           *)
LEMMA AnswerClaimKeeps ==
  ASSUME ClaimsInv, ClaimsNoted, UNCHANGED <<claimRows, claimOf, loaded>>, NEW r \in ClaimRequest,
         NEW answer \in ClaimResponse, stage' = [stage EXCEPT ![r] = answer]
  PROVE  ClaimsInv'
<1>1. ClaimOverlapInv' /\ contended' \subseteq Claim /\ contended \subseteq contended'
  BY ClaimOverlapsNoted
<1>2. ClaimsTypeOK'
  BY <1>1 DEF ClaimsInv, ClaimsTypeOK, claimRows
<1>3. LoadedInv'
  BY <1>1 DEF ClaimsInv, ClaimsTypeOK, LoadedInv, Deleted, ClaimResponse, claimRows
<1>4. ResolutionFits'
  BY <1>1 DEF ClaimsInv, ClaimsTypeOK, ResolutionFits, claimRows
<1> QED
  BY <1>1, <1>2, <1>3, <1>4 DEF ClaimsInv

(* Saving a status. Another request that had the claim loaded overlaps     *)
(* with this one, so that nothing is claimed of what it loaded.            *)
LEMMA SaveStatusKeeps ==
  ASSUME ClaimsInv, NEW r \in ClaimRequest, NEW s \in ClaimStatus, SaveStatus(r, s), ClaimsNoted
  PROVE  ClaimsInv'
<1>1. ClaimOverlapInv' /\ contended' \subseteq Claim /\ contended \subseteq contended'
  BY ClaimOverlapsNoted
<1> DEFINE c == claimOf[r]
<1>2. /\ c \in Claim /\ stage[r] = "loaded" /\ status[c] # "none"
      /\ stage' = [stage EXCEPT ![r] = "saved"]
      /\ status' = [status EXCEPT ![c] = s]
      /\ resolved' = IF Resolves(s) THEN resolved \cup {c} ELSE resolved
      /\ claimOf' = claimOf /\ loaded' = loaded
      /\ ValidTransition(loaded[r], s)
  BY DEF SaveStatus, SaveChanged, Advance, Deleted, ClaimsInv, ClaimsTypeOK
<1>3. resolved \subseteq resolved' /\ resolved' \subseteq resolved \cup {c}
  BY <1>2
<1>4. ClaimsTypeOK'
  BY <1>1, <1>2, <1>3 DEF ClaimsInv, ClaimsTypeOK
<1>5. ASSUME NEW q \in ClaimRequest, q # r, claimOf[q] = c, stage[q] = "loaded"
      PROVE  c \in contended
  BY <1>2, <1>5 DEF ClaimsInv, ClaimOverlapInv, Overlaps, LoadedBy
<1>6. LoadedInv'
  <2> SUFFICES ASSUME NEW q \in ClaimRequest, stage'[q] = "loaded", ~Deleted(claimOf[q])'
               PROVE  /\ loaded[q] \in {"Approved", "Denied", "Paid", "Closed"}
                             => claimOf[q] \in resolved'
                      /\ claimOf[q] \notin contended' => loaded[q] = status'[claimOf[q]]
    BY <1>2 DEF LoadedInv
  <2>1. q # r /\ stage[q] = "loaded" /\ claimOf[q] \in Claim
    BY <1>2 DEF ClaimsInv, ClaimsTypeOK
  <2>2. CASE claimOf[q] = c
    BY <1>1, <1>2, <1>3, <1>5, <2>1, <2>2 DEF ClaimsInv, LoadedInv, Deleted
  <2>3. CASE claimOf[q] # c
    BY <1>1, <1>2, <1>3, <2>1, <2>3 DEF ClaimsInv, ClaimsTypeOK, LoadedInv, Deleted
  <2> QED
    BY <2>2, <2>3
<1>7. ResolutionFits'
  <2> SUFFICES ASSUME NEW d \in Claim
               PROVE  /\ status'[d] \in {"Approved", "Denied", "Paid", "Closed"}
                             => d \in resolved'
                      /\ d \in resolved' \ contended'
                             => status'[d] \notin {"Submitted", "UnderReview"}
    BY DEF ResolutionFits
  <2>1. CASE d # c
    BY <1>1, <1>2, <1>3, <2>1 DEF ClaimsInv, ClaimsTypeOK, ResolutionFits
  <2>2. CASE d = c
    <3>1. status'[c] = s
      BY <1>2 DEF ClaimsInv, ClaimsTypeOK
    <3>2. Resolves(s) => c \in resolved' /\ s \notin {"Submitted", "UnderReview"}
      BY <1>2 DEF Resolves
    <3>3. s = "Paid" => c \in resolved'
      BY <1>2, <1>3 DEF ClaimsInv, LoadedInv, Deleted, ValidTransition, ClaimTransition
    <3>4. s = "UnderReview" /\ c \in resolved' => c \in contended
      <4>1. SUFFICES ASSUME s = "UnderReview", c \in resolved', c \notin contended
                     PROVE  FALSE
        OBVIOUS
      <4>2. c \in resolved /\ loaded[r] = "Submitted"
        BY <1>2, <4>1 DEF Resolves, ValidTransition, ClaimTransition
      <4>3. status[c] = "Submitted"
        BY <1>2, <4>1, <4>2 DEF ClaimsInv, LoadedInv, Deleted
      <4> QED
        BY <1>2, <4>1, <4>2, <4>3 DEF ClaimsInv, ResolutionFits
    <3>5. s # "Submitted"
      BY <1>2 DEF ValidTransition, ClaimTransition
    <3> QED
      BY <1>1, <2>2, <3>1, <3>2, <3>3, <3>4, <3>5 DEF ClaimStatus, Resolves
  <2> QED
    BY <2>1, <2>2
<1> QED
  BY <1>1, <1>4, <1>6, <1>7 DEF ClaimsInv

(* The deletion of a claim.                                                *)
LEMMA DeleteClaimKeeps ==
  ASSUME ClaimsInv, NEW c \in Claim, DeleteClaim(c), ClaimsNoted
  PROVE  ClaimsInv'
<1>1. ClaimOverlapInv' /\ contended' \subseteq Claim /\ contended \subseteq contended'
  BY ClaimOverlapsNoted
<1>2. ClaimsTypeOK'
  BY <1>1 DEF ClaimsInv, ClaimsTypeOK, DeleteClaim
<1>3. LoadedInv'
  BY <1>1 DEF ClaimsInv, ClaimsTypeOK, LoadedInv, DeleteClaim, Deleted
<1>4. ResolutionFits'
  BY <1>1 DEF ClaimsInv, ClaimsTypeOK, ResolutionFits, DeleteClaim
<1> QED
  BY <1>1, <1>2, <1>3, <1>4 DEF ClaimsInv

(* Every step keeps the invariant.                                         *)
LEMMA NextClaims == ClaimsInv /\ [ClaimsNext]_claimVars => ClaimsInv'
<1> SUFFICES ASSUME ClaimsInv, [ClaimsNext]_claimVars
             PROVE  ClaimsInv'
  OBVIOUS
<1>1. CASE UNCHANGED claimVars
  BY <1>1 DEF ClaimsInv, ClaimsTypeOK, LoadedInv, ClaimOverlapInv, ResolutionFits, Overlaps, LoadedBy,
              Deleted, claimVars, claimRows
<1>2. CASE ClaimsNext
  <2>0. ClaimsNoted
    BY <1>2 DEF ClaimsNext, ClaimsNoted
  <2>1. ASSUME NEW r \in ClaimRequest, LoadClaim(r)
        PROVE  ClaimsInv'
    BY <2>0, <2>1, LoadClaimKeeps
  <2>2. ASSUME NEW r \in ClaimRequest, ClaimNotFound(r)
        PROVE  ClaimsInv'
    BY <2>0, <2>2, AnswerClaimKeeps DEF ClaimNotFound, Advance, ClaimResponse
  <2>3. ASSUME NEW r \in ClaimRequest, FailStatus(r)
        PROVE  ClaimsInv'
    BY <2>0, <2>3, AnswerClaimKeeps DEF FailStatus, Advance, ClaimResponse
  <2>4. ASSUME NEW r \in ClaimRequest, RespondStatus(r)
        PROVE  ClaimsInv'
    BY <2>0, <2>4, AnswerClaimKeeps DEF RespondStatus, Advance, ClaimResponse
  <2>5. ASSUME NEW r \in ClaimRequest, NEW s \in ClaimStatus, RefuseStatus(r, s)
        PROVE  ClaimsInv'
    BY <2>0, <2>5, AnswerClaimKeeps DEF RefuseStatus, Advance, ClaimResponse
  <2>6. ASSUME NEW r \in ClaimRequest, NEW s \in ClaimStatus, SaveStatus(r, s)
        PROVE  ClaimsInv'
    BY <2>0, <2>6, SaveStatusKeeps
  <2>7. ASSUME NEW c \in Claim, DeleteClaim(c)
        PROVE  ClaimsInv'
    BY <2>0, <2>7, DeleteClaimKeeps
  <2> QED
    BY <1>2, <2>1, <2>2, <2>3, <2>4, <2>5, <2>6, <2>7 DEF ClaimsNext
<1> QED
  BY <1>1, <1>2

LEMMA SpecClaims == ClaimsSpec => []ClaimsInv
  BY InitClaims, NextClaims, PTL DEF ClaimsSpec

-----------------------------------------------------------------------------
(* Only statuses of a claim are ever saved.                                *)
THEOREM ClaimsTypeCorrect == ClaimsSpec => []ClaimsTypeOK
<1>1. ClaimsInv => ClaimsTypeOK
  BY DEF ClaimsInv
<1> QED
  BY <1>1, SpecClaims, PTL

(* However many requests overlap on however many claims, a claim that is   *)
(* decided, paid or closed is dated, and one that no requests overlapped   *)
(* on is not reopened once it was resolved.                                *)
THEOREM Resolution == ClaimsSpec => []ResolutionFits
<1>1. ClaimsInv => ResolutionFits
  BY DEF ClaimsInv
<1> QED
  BY <1>1, SpecClaims, PTL
=============================================================================
