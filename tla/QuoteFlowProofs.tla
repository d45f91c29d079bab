--------------------------- MODULE QuoteFlowProofs ---------------------------
(***************************************************************************)
(* Theorems about QuoteRules, and about QuoteFlow for any number of        *)
(* quotes, handlers, acceptances, copies and faults, and for whatever is   *)
(* asked for.                                                              *)
(***************************************************************************)
EXTENDS QuoteFlow, Integers, SequenceTheorems, TLAPS

-----------------------------------------------------------------------------
(* The two premium calculations, of the public API and of the quotes       *)
(* worker, for every type of policy and every coverage in whole dollars.   *)
(* Rounding first.                                                         *)

LEMMA Division == ASSUME NEW n \in Nat
                  PROVE  /\ n \div 480 \in Nat /\ n % 480 \in 0 .. 479
                         /\ n = 480 * (n \div 480) + (n % 480)
                         /\ n \div 120 \in Nat /\ n % 120 \in 0 .. 119
                         /\ n = 120 * (n \div 120) + (n % 120)
  OBVIOUS

(* A rounded quotient is at most half a cent away from the exact one.      *)
LEMMA HalfACentOff480 ==
    ASSUME NEW n \in Nat
    PROVE  /\ RoundHalfEven(n, 480) \in Nat
           /\ 960 * RoundHalfEven(n, 480) <= 2 * n + 480
           /\ 960 * RoundHalfEven(n, 480) >= 2 * n - 480
  BY Division DEF RoundHalfEven

LEMMA HalfACentOff120 ==
    ASSUME NEW n \in Nat
    PROVE  /\ RoundHalfEven(n, 120) \in Nat
           /\ 240 * RoundHalfEven(n, 120) <= 2 * n + 120
           /\ 240 * RoundHalfEven(n, 120) >= 2 * n - 120
  BY Division DEF RoundHalfEven

(* Equal quotients round alike, ties included.                             *)
LEMMA SameQuotient == ASSUME NEW x \in Nat
                      PROVE  RoundHalfEven(20 * x, 480) = RoundHalfEven(5 * x, 120)
<1>1. (20 * x) \div 480 = (5 * x) \div 120
  OBVIOUS
<1>2. (20 * x) % 480 = 4 * ((5 * x) % 120)
  OBVIOUS
<1> QED BY <1>1, <1>2, Division DEF RoundHalfEven

LEMMA RoundingGrows == ASSUME NEW m \in Nat, NEW n \in Nat, m <= n
                       PROVE  /\ RoundHalfEven(m, 480) <= RoundHalfEven(n, 480)
                              /\ RoundHalfEven(m, 120) <= RoundHalfEven(n, 120)
<1> SUFFICES ASSUME NEW d \in {120, 480}
             PROVE  RoundHalfEven(m, d) <= RoundHalfEven(n, d)
  OBVIOUS
<1> DEFINE q == m \div d
           r == m % d
           p == n \div d
           s == n % d
           Up(quotient, rest) == 2 * rest > d \/ (2 * rest = d /\ quotient % 2 = 1)
<1>1. /\ q \in Nat /\ r \in 0 .. (d - 1) /\ m = d * q + r
      /\ p \in Nat /\ s \in 0 .. (d - 1) /\ n = d * p + s
  <2>1. CASE d = 120
    BY <2>1, Division
  <2>2. CASE d = 480
    BY <2>2, Division
  <2> QED BY <2>1, <2>2
<1>2. /\ RoundHalfEven(m, d) = IF Up(q, r) THEN q + 1 ELSE q
      /\ RoundHalfEven(n, d) = IF Up(p, s) THEN p + 1 ELSE p
  BY DEF RoundHalfEven
<1> HIDE DEF q, r, p, s
<1>3. q < p \/ (q = p /\ r <= s)
  <2>1. CASE d = 120
    BY <2>1, <1>1
  <2>2. CASE d = 480
    BY <2>2, <1>1
  <2> QED BY <2>1, <2>2
<1>4. CASE q < p
  <2> HIDE DEF Up
  <2> QED BY <1>1, <1>2, <1>4
<1>5. CASE q = p /\ r <= s
  BY <1>1, <1>2, <1>5
<1> QED BY <1>3, <1>4, <1>5

LEMMA ProductGrows ==
    ASSUME NEW a \in Nat, NEW b \in Nat, NEW m \in Nat, NEW n \in Nat, a <= b, m <= n
    PROVE  a * m \in Nat /\ b * n \in Nat /\ a * m <= b * n
<1>1. PICK d \in Nat : b = a + d
  <2>1. b - a \in Nat /\ b = a + (b - a)
    OBVIOUS
  <2> QED BY <2>1
<1>2. PICK e \in Nat : n = m + e
  <2>1. n - m \in Nat /\ n = m + (n - m)
    OBVIOUS
  <2> QED BY <2>1
<1> QED BY <1>1, <1>2

-----------------------------------------------------------------------------
(* The tables.                                                             *)

LEMMA Rates == ASSUME NEW type \in PolicyType
               PROVE  /\ BaseRate[type] \div 5 \in 3 .. 9
                      /\ RateMultiplier[type] = 5 * (BaseRate[type] \div 5)
  BY DEF PolicyType, BaseRate, RateMultiplier

LEMMA Tiers ==
    ASSUME NEW coverage \in Nat
    PROVE  /\ coverage <= 100000 => RiskMultiplier(coverage) \div 5 = 20
           /\ coverage > 100000 => RiskMultiplier(coverage) \div 5 \in {21, 23, 26}
  BY DEF RiskMultiplier

LEMMA TiersGrow ==
    ASSUME NEW less \in Nat, NEW more \in Nat, less <= more
    PROVE  /\ RiskMultiplier(less) \div 5 \in 20 .. 26
           /\ RiskMultiplier(more) \div 5 \in 20 .. 26
           /\ RiskMultiplier(less) \div 5 <= RiskMultiplier(more) \div 5
  BY DEF RiskMultiplier

-----------------------------------------------------------------------------
(* The premium the worker determines is the estimate the customer was      *)
(* given up to the first risk tier, and more than it above: underwriting   *)
(* never makes a quote cheaper than its estimate, whatever the rounding.   *)
THEOREM EstimateIsLowest ==
    ASSUME NEW type \in PolicyType, NEW coverage \in Nat
    PROVE  IF coverage <= 100000
           THEN UnderwrittenPremium(type, coverage) = CalculatePremium(type, coverage)
           ELSE UnderwrittenPremium(type, coverage) > CalculatePremium(type, coverage)
<1> DEFINE rate == BaseRate[type] \div 5
           x == coverage * rate
           risk == RiskMultiplier(coverage) \div 5
<1>1. rate \in 3 .. 9 /\ RateMultiplier[type] = 5 * rate
  BY Rates
<1>2. x \in Nat /\ coverage * RateMultiplier[type] = 5 * x /\ x >= coverage
  BY <1>1
<1>3. CalculatePremium(type, coverage) = RoundHalfEven(5 * x, 120)
  BY <1>2 DEF CalculatePremium
<1>4. UnderwrittenPremium(type, coverage) = RoundHalfEven(x * risk, 480)
  BY DEF UnderwrittenPremium
<1>5. CASE coverage <= 100000
  <2>1. risk = 20
    BY <1>5, Tiers
  <2> HIDE DEF risk, x
  <2>2. x * risk = 20 * x
    BY <2>1, <1>2
  <2> QED BY <2>2, <1>2, <1>3, <1>4, <1>5, SameQuotient
<1>6. CASE coverage > 100000
  <2>1. risk \in {21, 23, 26}
    BY <1>6, Tiers
  <2> HIDE DEF risk, x
  <2>2. x * risk \in Nat /\ x * risk >= 21 * x
    BY <2>1, <1>2
  <2>3. /\ RoundHalfEven(x * risk, 480) \in Nat
        /\ 960 * RoundHalfEven(x * risk, 480) >= 42 * x - 480
    BY <2>2, <1>2, HalfACentOff480
  <2>4. /\ RoundHalfEven(5 * x, 120) \in Nat
        /\ 240 * RoundHalfEven(5 * x, 120) <= 10 * x + 120
    BY <1>2, HalfACentOff120
  <2>5. RoundHalfEven(x * risk, 480) > RoundHalfEven(5 * x, 120)
    BY <2>3, <2>4, <1>2, <1>6
  <2> QED BY <2>5, <1>3, <1>4, <1>6
<1> QED BY <1>5, <1>6

(* More coverage never costs less, neither by the estimate nor by the      *)
(* premium of the worker, across its tiers and through the rounding.       *)
THEOREM PremiumGrows ==
    ASSUME NEW type \in PolicyType, NEW less \in Nat, NEW more \in Nat, less <= more
    PROVE  /\ CalculatePremium(type, less) <= CalculatePremium(type, more)
           /\ UnderwrittenPremium(type, less) <= UnderwrittenPremium(type, more)
<1> DEFINE rate == BaseRate[type] \div 5
           Risk(c) == RiskMultiplier(c) \div 5
<1>1. rate \in 3 .. 9 /\ RateMultiplier[type] = 5 * rate
  BY Rates
<1>2. Risk(less) \in 20 .. 26 /\ Risk(more) \in 20 .. 26 /\ Risk(less) <= Risk(more)
  BY TiersGrow
<1> HIDE DEF rate, Risk
<1>3. CalculatePremium(type, less) <= CalculatePremium(type, more)
  <2>1. /\ less * RateMultiplier[type] \in Nat
        /\ more * RateMultiplier[type] \in Nat
        /\ less * RateMultiplier[type] <= more * RateMultiplier[type]
    BY <1>1, ProductGrows
  <2> QED BY <2>1, RoundingGrows DEF CalculatePremium
<1>4. UnderwrittenPremium(type, less) <= UnderwrittenPremium(type, more)
  <2>1. less * rate \in Nat /\ more * rate \in Nat /\ less * rate <= more * rate
    BY <1>1, ProductGrows
  <2>2. /\ (less * rate) * Risk(less) \in Nat
        /\ (more * rate) * Risk(more) \in Nat
        /\ (less * rate) * Risk(less) <= (more * rate) * Risk(more)
    BY <1>2, <2>1, ProductGrows
  <2>3. RoundHalfEven((less * rate) * Risk(less), 480)
          <= RoundHalfEven((more * rate) * Risk(more), 480)
    BY <2>2, RoundingGrows
  <2> QED BY <2>3 DEF UnderwrittenPremium, rate, Risk
<1> QED BY <1>3, <1>4

-----------------------------------------------------------------------------
(* The quote, its case and its acceptances.                                *)

(* What the worker may decide about q: what the rules say of its customer  *)
(* while there was one, and of no customer only once it was deleted.       *)
Sound(q, d) ==
    \/ d = Evaluate(TRUE, offer[q].type, offer[q].coverage)
    \/ q \notin known /\ d = Evaluate(FALSE, offer[q].type, offer[q].coverage)

RowTypes ==
    /\ offer \in [Quote -> Offers]
    /\ known \subseteq Quote
    /\ status \in [Quote -> {"none", "Requested", "Underwriting", "Approved"}]
    /\ accepted \subseteq Quote
    /\ answer \in [Acceptance -> {"new", "loaded", "saved", "200", "404", "409", "500"}]
    /\ target \in [Acceptance -> Quote]
    /\ loaded \in [Acceptance -> {"Requested", "Underwriting", "Approved"}]

(* A row needs its customer, so that what was deleted stays deleted; and   *)
(* an acceptance that found the quote past its request still does.         *)
OwnedInv == \A q \in Quote : status[q] # "none" => q \in known

PendingInv ==
    \A a \in Acceptance :
        answer[a] = "loaded" /\ target[a] \in known =>
            /\ status[target[a]] # "none"
            /\ loaded[a] # "Requested" => status[target[a]] # "Requested"

RowsInv == RowTypes /\ OwnedInv /\ PendingInv /\ ApprovedIsAccepted

CaseTypes ==
    /\ case \in [Quote -> Decision \cup {Undecided}]
    /\ audit \in [Quote -> Seq(QuoteStatus)]
    /\ events \in [Quote -> Seq(Decision)]
    /\ pc \in [Handler -> HandlerStep]
    /\ cur \in [Handler -> Quote \cup {None}]
    /\ found \in [Handler -> BOOLEAN]
    /\ decision \in [Handler -> Decision \cup {Undecided}]

(* A handler at work has a delivery, the case it found is still there, and *)
(* what it is about to save is sound.                                      *)
HandlerInv ==
    \A h \in Handler :
        /\ pc[h] # "idle" => cur[h] \in Quote
        /\ pc[h] \in {"evaluate", "save"} /\ found[h] => case[cur[h]] # Undecided
        /\ pc[h] = "save" => Sound(cur[h], decision[h])

CaseInv == \A q \in Quote : case[q] # Undecided => Sound(q, case[q])

WorkInv == CaseTypes /\ HandlerInv /\ CaseInv /\ UnderwrittenOnce

IInv == RowsInv /\ WorkInv

-----------------------------------------------------------------------------
(* Lemmas about the rules.                                                 *)

(* Underwriting decides something, with a premium in whole cents.          *)
LEMMA Decides ==
  ASSUME NEW k \in BOOLEAN, NEW o \in Offers
  PROVE  Evaluate(k, o.type, o.coverage) \in Decision
<1>1. o.type \in PolicyType /\ o.coverage \in Nat
  BY OffersAssumption
<1>2. UnderwrittenPremium(o.type, o.coverage) \in Nat
  <2>1. BaseRate[o.type] \div 5 \in Nat
    BY <1>1 DEF BaseRate, PolicyType
  <2>2. RiskMultiplier(o.coverage) \div 5 \in Nat
    BY DEF RiskMultiplier
  <2> DEFINE n == o.coverage * (BaseRate[o.type] \div 5)
                             * (RiskMultiplier(o.coverage) \div 5)
  <2>3. n \in Nat
    <3>1. ASSUME NEW x \in Nat, NEW y \in Nat, NEW z \in Nat
          PROVE  x * y * z \in Nat
      <4>1. x * y \in Nat
        BY <3>1
      <4> QED
        BY <3>1, <4>1
    <3> QED
      BY <1>1, <2>1, <2>2, <3>1
  <2> HIDE DEF n
  <2>4. RoundHalfEven(n, 480) \in Nat
    BY <2>3 DEF RoundHalfEven
  <2> QED
    BY <2>4 DEF UnderwrittenPremium, n
<1> QED
  BY <1>2 DEF Evaluate, Decision

(* A decision is never the absence of one.                                 *)
LEMMA DecisionIsDecided == Undecided \notin Decision
  BY DEF Undecided, Decision

(* The audit trail of a case that is new.                                  *)
LEMMA NewTrail ==
  ASSUME NEW s \in QuoteStatus
  PROVE  <<>> \o <<"Requested">> \o <<"Underwriting", s>>
             = <<"Requested", "Underwriting", s>>
<1>1. /\ <<>> \in Seq(QuoteStatus)
      /\ <<"Requested">> \in Seq(QuoteStatus)
      /\ <<"Underwriting", s>> \in Seq(QuoteStatus)
  BY DEF QuoteStatus
<1>2. <<>> \o <<"Requested">> = <<"Requested">>
  BY <1>1
<1>3. <<"Requested">> \o <<"Underwriting", s>> = <<"Requested", "Underwriting", s>>
  <2> DEFINE first == <<"Requested">>
             rest == <<"Underwriting", s>>
             whole == <<"Requested", "Underwriting", s>>
  <2>1. Len(first) = 1 /\ Len(rest) = 2 /\ Len(whole) = 3 /\ whole \in Seq(QuoteStatus)
    BY DEF QuoteStatus
  <2>2. /\ first \o rest \in Seq(QuoteStatus)
        /\ Len(first \o rest) = Len(first) + Len(rest)
        /\ \A i \in 1 .. Len(first) + Len(rest) :
              (first \o rest)[i] = IF i <= Len(first) THEN first[i] ELSE rest[i - Len(first)]
    BY <1>1, ConcatProperties
  <2>3. first[1] = whole[1] /\ rest[1] = whole[2] /\ rest[2] = whole[3]
    OBVIOUS
  <2> HIDE DEF first, rest, whole
  <2>4. \A i \in 1 .. 3 : (first \o rest)[i] = whole[i]
    BY <2>1, <2>2, <2>3
  <2> QED
    <3>1. Len(first \o rest) = 3 /\ Len(whole) = 3
      BY <2>1, <2>2
    <3>2. first \o rest = whole
      BY <2>1, <2>2, <2>4, <3>1, SeqEqual
    <3> QED
      BY <3>2 DEF first, rest, whole
<1> QED
  BY <1>2, <1>3

-----------------------------------------------------------------------------
(* The rows of the public side.                                            *)

LEMMA InitIInv == FlowInit => IInv
<1> SUFFICES ASSUME FlowInit
             PROVE  IInv
  OBVIOUS
<1>1. RowsInv
  BY DEF FlowInit, Init, Accept!Init, RowsInv, RowTypes, OwnedInv, PendingInv,
         ApprovedIsAccepted, Accept!ApprovedIsAccepted
<1>2. CaseTypes
  BY DEF FlowInit, Init, CaseTypes, HandlerStep
<1>3. HandlerInv /\ CaseInv /\ UnderwrittenOnce
  BY DEF FlowInit, Init, HandlerInv, CaseInv, UnderwrittenOnce
<1> QED
  BY <1>1, <1>2, <1>3 DEF IInv, WorkInv

(* A quote is inserted.                                                    *)
LEMMA InsertKeeps ==
  ASSUME RowsInv, NEW q \in Quote, NEW s \in {"Requested", "Underwriting", "Approved"},
         q \in known, Accept!Insert(q, s), UNCHANGED <<offer, known>>
  PROVE  RowsInv'
<1>1. RowTypes'
  BY DEF RowsInv, RowTypes, Accept!Insert
<1>2. OwnedInv'
  BY DEF RowsInv, RowTypes, OwnedInv, Accept!Insert
<1>3. PendingInv'
  BY DEF RowsInv, RowTypes, PendingInv, Accept!Insert, Accept!Gone
<1>4. ApprovedIsAccepted'
  BY DEF RowsInv, RowTypes, ApprovedIsAccepted, Accept!ApprovedIsAccepted,
         Accept!Insert, Accept!Gone
<1> QED
  BY <1>1, <1>2, <1>3, <1>4 DEF RowsInv

(* A quote is deleted with its customer.                                   *)
LEMMA DeleteKeeps ==
  ASSUME RowsInv, NEW q \in Quote, Accept!Delete(q), known' = known \ {q}, offer' = offer
  PROVE  RowsInv'
<1>1. RowTypes'
  BY DEF RowsInv, RowTypes, Accept!Delete
<1>2. OwnedInv' /\ PendingInv'
  BY DEF RowsInv, RowTypes, OwnedInv, PendingInv, Accept!Delete
<1>3. ApprovedIsAccepted'
  BY DEF RowsInv, RowTypes, ApprovedIsAccepted, Accept!ApprovedIsAccepted, Accept!Delete
<1> QED
  BY <1>1, <1>2, <1>3 DEF RowsInv

(* An acceptance takes a step. When it saves, its quote is past its        *)
(* request: by what it loaded, or by what it writes.                       *)
LEMMA AcceptKeeps ==
  ASSUME RowsInv, AcceptStep, UNCHANGED <<offer, known>>
  PROVE  RowsInv'
<1>1. ASSUME NEW a \in Acceptance, Accept!Load(a)
      PROVE  RowsInv'
  <2> USE <1>1 DEF RowsInv, RowTypes, Accept!Load, Accept!Go, Accept!Gone
  <2>1. RowTypes'
    OBVIOUS
  <2>2. OwnedInv'
    BY DEF OwnedInv
  <2>3. PendingInv'
    BY DEF PendingInv
  <2>4. ApprovedIsAccepted'
    BY DEF ApprovedIsAccepted, Accept!ApprovedIsAccepted
  <2> QED
    BY <2>1, <2>2, <2>3, <2>4
<1>2. ASSUME NEW a \in Acceptance, Accept!SaveAcceptance(a)
      PROVE  RowsInv'
  <2> USE DEF RowsInv
  <2> DEFINE q == target[a]
             new == IF loaded[a] = "Requested" THEN "Approved" ELSE status[q]
  <2>1. /\ q \in Quote /\ status[q] # "none" /\ q \in known
        /\ answer[a] = "loaded" /\ answer' = [answer EXCEPT ![a] = "saved"]
        /\ status' = [status EXCEPT ![q] = new]
        /\ accepted' = accepted \cup {q}
        /\ UNCHANGED <<target, loaded, offer, known>>
    BY <1>2 DEF RowTypes, OwnedInv, Accept!SaveAcceptance, Accept!SaveWith,
                Accept!Go, Accept!Gone
  <2>2. new \in {"Underwriting", "Approved"}
    BY <2>1 DEF RowTypes, PendingInv
  <2> HIDE DEF new
  <2>3. RowTypes'
    BY <2>1, <2>2 DEF RowTypes
  <2>4. OwnedInv'
    BY <2>1, <2>2 DEF RowTypes, OwnedInv
  <2>5. PendingInv'
    BY <2>1, <2>2 DEF RowTypes, PendingInv
  <2>6. ApprovedIsAccepted'
    BY <2>1, <2>2 DEF RowTypes, ApprovedIsAccepted, Accept!ApprovedIsAccepted
  <2> QED
    BY <2>3, <2>4, <2>5, <2>6
<1>3. ASSUME NEW a \in Acceptance, Accept!Fail(a) \/ Accept!Respond(a)
      PROVE  RowsInv'
  BY <1>3 DEF RowsInv, RowTypes, OwnedInv, PendingInv, ApprovedIsAccepted,
              Accept!ApprovedIsAccepted, Accept!Fail, Accept!Respond, Accept!Go, Accept!Gone
<1>4. ASSUME NEW q \in Quote, Accept!Expire(q)
      PROVE  RowsInv'
  BY <1>4 DEF RowsInv, RowTypes, OwnedInv, PendingInv, ApprovedIsAccepted,
              Accept!ApprovedIsAccepted, Accept!Expire
<1> QED
  BY <1>1, <1>2, <1>3, <1>4 DEF AcceptStep

-----------------------------------------------------------------------------
(* The cases of the private side.                                          *)

(* What is sound stays so: customers leave for good, offers stay.          *)
LEMMA SoundForGood ==
  ASSUME NEW q \in Quote, NEW d, Sound(q, d), offer' = offer, known' \subseteq known
  PROVE  Sound(q, d)'
  BY DEF Sound

(* Steps that change neither case nor handler.                             *)
LEMMA ElsewhereKeeps ==
  ASSUME WorkInv, UNCHANGED <<caseVars, handlerVars, offer>>, known' \subseteq known
  PROVE  WorkInv'
<1>1. CaseTypes' /\ UnderwrittenOnce'
  BY DEF WorkInv, CaseTypes, UnderwrittenOnce, caseVars, handlerVars
<1>2. HandlerInv'
  BY SoundForGood DEF WorkInv, HandlerInv, caseVars, handlerVars
<1>3. CaseInv'
  BY SoundForGood DEF WorkInv, CaseInv, caseVars
<1> QED
  BY <1>1, <1>2, <1>3 DEF WorkInv

(* A handler goes on without committing anything, to a step at which       *)
(* nothing more is asked of it, or becomes idle.                           *)
LEMMA GoingOnKeeps ==
  ASSUME WorkInv, UNCHANGED <<caseVars, offer, known>>, NEW h \in Handler,
         NEW step \in HandlerStep \ {"evaluate", "save"},
         NEW d \in Decision \cup {Undecided}, NEW f \in BOOLEAN,
         NEW q \in Quote \cup {None}, step # "idle" => q \in Quote,
         pc' = [pc EXCEPT ![h] = step], cur' = [cur EXCEPT ![h] = q],
         found' = [found EXCEPT ![h] = f], decision' = [decision EXCEPT ![h] = d]
  PROVE  WorkInv'
<1>1. CaseTypes' /\ UnderwrittenOnce'
  BY DEF WorkInv, CaseTypes, UnderwrittenOnce, caseVars
<1>2. HandlerInv'
  BY DEF WorkInv, CaseTypes, HandlerInv, Sound, caseVars
<1>3. CaseInv'
  BY DEF WorkInv, CaseInv, Sound, caseVars
<1> QED
  BY <1>1, <1>2, <1>3 DEF WorkInv

(* The same when the handler keeps what it holds.                          *)
LEMMA MovingKeeps ==
  ASSUME WorkInv, UNCHANGED <<caseVars, offer, known, cur, found, decision>>,
         NEW h \in Handler, NEW step \in HandlerStep \ {"idle", "evaluate", "save"},
         pc[h] # "idle", pc' = [pc EXCEPT ![h] = step]
  PROVE  WorkInv'
<1>1. cur[h] \in Quote /\ found[h] \in BOOLEAN /\ decision[h] \in Decision \cup {Undecided}
  BY DEF WorkInv, CaseTypes, HandlerInv
<1>2. /\ cur' = [cur EXCEPT ![h] = cur[h]]
      /\ found' = [found EXCEPT ![h] = found[h]]
      /\ decision' = [decision EXCEPT ![h] = decision[h]]
  BY DEF WorkInv, CaseTypes
<1> QED
  BY <1>1, <1>2, GoingOnKeeps

LEMMA LoadKeeps ==
  ASSUME WorkInv, NEW h \in Handler, LoadCase(h)
  PROVE  WorkInv'
<1> USE DEF LoadCase, Step
<1>1. CaseTypes' /\ UnderwrittenOnce'
  BY DEF WorkInv, CaseTypes, UnderwrittenOnce, caseVars, HandlerStep
<1>2. HandlerInv'
  BY DEF WorkInv, CaseTypes, HandlerInv, Sound, caseVars, apiVars
<1>3. CaseInv'
  BY DEF WorkInv, CaseInv, Sound, caseVars, apiVars
<1> QED
  BY <1>1, <1>2, <1>3 DEF WorkInv

(* What the worker evaluates is sound, by definition of the rules.         *)
LEMMA EvaluateKeeps ==
  ASSUME WorkInv, RowTypes, NEW h \in Handler, EvaluateUnderwriting(h)
  PROVE  WorkInv'
<1> DEFINE q == cur[h]
           d == Evaluate(q \in known, offer[q].type, offer[q].coverage)
<1>1. /\ q \in Quote /\ pc[h] = "evaluate" /\ pc' = [pc EXCEPT ![h] = "save"]
      /\ decision' = [decision EXCEPT ![h] = d]
      /\ UNCHANGED <<cur, found, caseVars, offer, known>>
  BY DEF WorkInv, HandlerInv, EvaluateUnderwriting, Step, apiVars
<1>2. d \in Decision
  <2>1. offer[q] \in Offers /\ (q \in known) \in BOOLEAN
    BY <1>1 DEF RowTypes
  <2> QED
    BY <2>1, Decides
<1>3. Sound(q, d)
  <2>1. CASE q \in known
    <3>1. d = Evaluate(TRUE, offer[q].type, offer[q].coverage)
      BY <2>1, Zenon
    <3> QED
      BY <3>1, Zenon DEF Sound
  <2>2. CASE q \notin known
    <3>1. (q \in known) = FALSE
      BY <2>2
    <3>2. d = Evaluate(FALSE, offer[q].type, offer[q].coverage)
      BY <3>1, Zenon
    <3> QED
      BY <2>2, <3>2, Zenon DEF Sound
  <2> QED
    BY <2>1, <2>2, Zenon
<1> HIDE DEF d
<1>4. CaseTypes' /\ UnderwrittenOnce'
  BY <1>1, <1>2 DEF WorkInv, CaseTypes, UnderwrittenOnce, caseVars, HandlerStep
<1>5. HandlerInv'
  BY <1>1, <1>3 DEF WorkInv, CaseTypes, HandlerInv, Sound, caseVars
<1>6. CaseInv'
  BY <1>1 DEF WorkInv, CaseInv, Sound, caseVars
<1> QED
  BY <1>4, <1>5, <1>6 DEF WorkInv

(* The keys are free only if nobody has processed the command, and then    *)
(* there is no case either: the handler found none and creates one.        *)
LEMMA SaveKeeps ==
  ASSUME WorkInv, NEW h \in Handler, SaveCase(h)
  PROVE  WorkInv'
<1> DEFINE q == cur[h]
           d == decision[h]
<1>1. /\ pc[h] = "save" /\ pc' = [pc EXCEPT ![h] = "dispatch"]
      /\ q \in Quote /\ q \notin processed /\ Sound(q, d)
      /\ case' = [case EXCEPT ![q] = d]
      /\ processed' = processed \cup {q}
      /\ UNCHANGED <<cur, found, decision, offer, known>>
  BY DEF WorkInv, HandlerInv, SaveCase, KeysAreFree, Step, apiVars
<1>2. case[q] = Undecided /\ audit[q] = <<>> /\ events[q] = <<>>
  BY <1>1 DEF WorkInv, UnderwrittenOnce
<1>3. found[h] = FALSE
  BY <1>1, <1>2 DEF WorkInv, CaseTypes, HandlerInv
<1>4. d \in Decision
  <2>1. d \in Decision \/ d = Undecided
    BY DEF WorkInv, CaseTypes
  <2>2. Sound(q, d) => d # Undecided
    BY DEF Sound, Undecided, Evaluate
  <2> QED
    BY <1>1, <2>1, <2>2
<1>5. d.status \in QuoteStatus
  BY <1>4 DEF Decision, QuoteStatus
<1>6. audit' = [audit EXCEPT ![q] = <<"Requested", "Underwriting", d.status>>]
  <2>1. audit' = [audit EXCEPT ![q] =
                    audit[q] \o <<"Requested">> \o <<"Underwriting", d.status>>]
    BY <1>3 DEF SaveCase
  <2>2. audit[q] \o <<"Requested">> \o <<"Underwriting", d.status>>
           = <<"Requested", "Underwriting", d.status>>
    BY <1>2, <1>5, NewTrail
  <2> QED
    BY <2>1, <2>2
<1>7. events' = [events EXCEPT ![q] = <<d>>]
  <2>1. events' = [events EXCEPT ![q] = Append(events[q], d)]
    BY DEF SaveCase
  <2>2. Append(<<>>, d) = <<d>>
    OBVIOUS
  <2> QED
    BY <1>2, <2>1, <2>2
<1>8. CaseTypes'
  <2>1. <<"Requested", "Underwriting", d.status>> \in Seq(QuoteStatus)
    BY <1>5 DEF QuoteStatus
  <2>2. <<d>> \in Seq(Decision)
    BY <1>4
  <2> HIDE DEF d
  <2> QED
    BY <1>1, <1>4, <1>6, <1>7, <2>1, <2>2 DEF WorkInv, CaseTypes, HandlerStep
<1>9. UnderwrittenOnce'
  BY <1>1, <1>6, <1>7 DEF WorkInv, CaseTypes, UnderwrittenOnce
<1>10. CaseInv'
  BY <1>1 DEF WorkInv, CaseTypes, CaseInv, Sound
<1>11. HandlerInv'
  <2>1. d # Undecided
    BY <1>4, DecisionIsDecided
  <2>2. \A p \in Quote : case[p] # Undecided => case'[p] # Undecided
    BY <1>1, <2>1 DEF WorkInv, CaseTypes
  <2>3. case'[q] # Undecided
    BY <1>1, <2>1 DEF WorkInv, CaseTypes
  <2> QED
    BY <1>1, <2>2, <2>3 DEF WorkInv, CaseTypes, HandlerInv, Sound
<1> QED
  BY <1>8, <1>9, <1>10, <1>11 DEF WorkInv

(* Every step of a handler keeps the cases right.                          *)
LEMMA WorkKeeps ==
  ASSUME WorkInv, RowTypes, NEW h \in Handler,
         Receive(h) \/ Work(h) \/ LoseConnection(h) \/ Crash(h)
  PROVE  WorkInv'
<1>0. pc[h] # "idle" => cur[h] \in Quote
  BY DEF WorkInv, HandlerInv
<1>1. CASE Receive(h)
  <2>1. PICK q \in Quote : cur' = [cur EXCEPT ![h] = q]
    BY <1>1 DEF Receive
  <2>2. /\ found' = [found EXCEPT ![h] = found[h]] /\ found[h] \in BOOLEAN
        /\ decision' = [decision EXCEPT ![h] = decision[h]]
        /\ decision[h] \in Decision \cup {Undecided}
    BY <1>1 DEF Receive, WorkInv, CaseTypes
  <2> QED
    BY <1>1, <2>1, <2>2, GoingOnKeeps DEF Receive, Step, HandlerStep, apiVars
<1>2. CASE CheckProcessed(h)
  BY <1>2, MovingKeeps DEF CheckProcessed, Step, HandlerStep, apiVars
<1>3. CASE LoadCase(h)
  BY <1>3, LoadKeeps
<1>4. CASE EvaluateUnderwriting(h)
  BY <1>4, EvaluateKeeps
<1>5. CASE SaveCase(h)
  BY <1>5, SaveKeeps
<1>6. CASE KeyViolation(h) \/ Dispatch(h)
  BY <1>6, MovingKeeps DEF KeyViolation, Dispatch, Step, HandlerStep, apiVars
<1>7. CASE Throw(h)
  BY <1>7, MovingKeeps DEF Throw, Step, HandlerStep, apiVars
<1>8. CASE Acknowledge(h) \/ Reject(h) \/ Crash(h)
  <2>1. Forget(h)
    BY <1>8 DEF Acknowledge, Reject, Crash
  <2>2. "idle" \in HandlerStep \ {"evaluate", "save"}
    BY DEF HandlerStep
  <2> QED
    BY <2>1, <2>2, GoingOnKeeps DEF Forget, apiVars
<1>9. CASE LoseConnection(h)
  BY <1>9, ElsewhereKeeps DEF LoseConnection, apiVars
<1> QED
  BY <1>1, <1>2, <1>3, <1>4, <1>5, <1>6, <1>7, <1>8, <1>9 DEF Work

-----------------------------------------------------------------------------
(* The two sides together.                                                 *)

LEMMA NextIInv == IInv /\ [FlowNext]_flowVars => IInv'
<1> SUFFICES ASSUME IInv, [FlowNext]_flowVars
             PROVE  IInv'
  OBVIOUS
<1> USE DEF IInv
<1>0. RowTypes
  BY DEF RowsInv
<1>1. ASSUME NEW q \in Quote, CreateQuote(q)
      PROVE  IInv'
  <2>1. RowsInv'
    BY <1>1, InsertKeeps DEF CreateQuote, SaveQuote
  <2>2. WorkInv'
    BY <1>1, ElsewhereKeeps DEF CreateQuote, SaveQuote
  <2> QED
    BY <2>1, <2>2
<1>2. ASSUME NEW q \in Quote, SeedQuote(q)
      PROVE  IInv'
  <2>1. RowsInv'
    BY <1>2, InsertKeeps DEF SeedQuote
  <2>2. WorkInv'
    BY <1>2, ElsewhereKeeps DEF SeedQuote
  <2> QED
    BY <2>1, <2>2
<1>3. ASSUME NEW q \in Quote, DeleteBoth(q)
      PROVE  IInv'
  <2>1. RowsInv'
    BY <1>3, DeleteKeeps DEF DeleteBoth, DeleteCustomer
  <2>2. WorkInv'
    BY <1>3, ElsewhereKeeps DEF DeleteBoth, DeleteCustomer
  <2> QED
    BY <2>1, <2>2
<1>4. CASE IntakeStep /\ UNCHANGED acceptVars
  <2>1. UNCHANGED <<offer, known>>
    BY <1>4 DEF IntakeStep, CheckCustomer, ForeignKeyViolation, Respond, FailRequest,
                PublishCommand, DeclareQueue, Receive, Work, LoseConnection, Crash,
                CheckProcessed, LoadCase, EvaluateUnderwriting, SaveCase, KeyViolation,
                Dispatch, Throw, Acknowledge, Reject, Forget, apiVars
  <2>2. RowsInv'
    BY <1>4, <2>1 DEF acceptVars, RowsInv, RowTypes, OwnedInv, PendingInv,
                      ApprovedIsAccepted, Accept!ApprovedIsAccepted
  <2>3. WorkInv'
    <3>1. ASSUME NEW q \in Quote,
                 \/ CheckCustomer(q) \/ ForeignKeyViolation(q) \/ Respond(q)
                 \/ FailRequest(q) \/ PublishCommand(q)
          PROVE  WorkInv'
      BY <2>1, <3>1, ElsewhereKeeps DEF CheckCustomer, ForeignKeyViolation, Respond,
                                        FailRequest, PublishCommand
    <3>2. CASE DeclareQueue
      BY <2>1, <3>2, ElsewhereKeeps DEF DeclareQueue
    <3> QED
      BY <1>0, <1>4, <3>1, <3>2, WorkKeeps DEF IntakeStep
  <2> QED
    BY <2>2, <2>3
<1>5. CASE AcceptStep /\ UNCHANGED vars
  <2>1. RowsInv'
    BY <1>5, AcceptKeeps DEF vars
  <2>2. WorkInv'
    BY <1>5, ElsewhereKeeps DEF vars, caseVars, handlerVars
  <2> QED
    BY <2>1, <2>2
<1>6. CASE UNCHANGED flowVars
  <2>1. RowsInv'
    BY <1>6 DEF flowVars, vars, acceptVars, RowsInv, RowTypes, OwnedInv, PendingInv,
                ApprovedIsAccepted, Accept!ApprovedIsAccepted
  <2>2. WorkInv'
    BY <1>6, ElsewhereKeeps DEF flowVars, vars, caseVars, handlerVars
  <2> QED
    BY <2>1, <2>2
<1> QED
  BY <1>1, <1>2, <1>3, <1>4, <1>5, <1>6 DEF FlowNext

LEMMA SpecIInv == FlowSpec => []IInv
  BY InitIInv, NextIInv, PTL DEF FlowSpec

-----------------------------------------------------------------------------
(* However many handlers race over however many copies, a quote is         *)
(* underwritten at most once and in one piece.                             *)
THEOREM Underwritten == FlowSpec => []UnderwrittenOnce
<1>1. IInv => UnderwrittenOnce
  BY DEF IInv, WorkInv
<1> QED
  BY <1>1, SpecIInv, PTL

(* A quote is declined only beyond the limits of automated underwriting or *)
(* when its customer was deleted.                                          *)
THEOREM Declining == FlowSpec => []DeclineHasCause
<1>1. IInv => DeclineHasCause
  <2> SUFFICES ASSUME IInv, NEW q \in Quote, case[q].status = "Declined"
               PROVE  ~Insurable(offer[q].type, offer[q].coverage) \/ q \notin known
    BY DEF DeclineHasCause
  <2>1. case[q] # Undecided
    BY DEF Undecided
  <2>2. Sound(q, case[q])
    BY <2>1 DEF IInv, WorkInv, CaseInv
  <2> QED
    BY <2>2 DEF Sound, Evaluate
<1> QED
  BY <1>1, SpecIInv, PTL

(* An acceptance and the status it brings are one.                         *)
THEOREM Approving == FlowSpec => []ApprovedIsAccepted
<1>1. IInv => ApprovedIsAccepted
  BY DEF IInv, RowsInv
<1> QED
  BY <1>1, SpecIInv, PTL

(* What was accepted is declined for its limits only, and costs what was   *)
(* estimated up to the first risk tier and more above it.                  *)
THEOREM Accepting == FlowSpec => []AcceptanceHolds
<1>1. IInv => AcceptanceHolds
  <2> SUFFICES ASSUME IInv, NEW q \in accepted
               PROVE  LET estimate == CalculatePremium(offer[q].type, offer[q].coverage)
                      IN /\ case[q].status = "Declined"
                                => ~Insurable(offer[q].type, offer[q].coverage)
                         /\ case[q] # Undecided =>
                               IF offer[q].coverage <= 100000
                               THEN case[q].premium = estimate
                               ELSE case[q].premium > estimate
    BY DEF AcceptanceHolds
  <2>1. q \in Quote /\ q \in known
    BY DEF IInv, RowsInv, RowTypes, OwnedInv, ApprovedIsAccepted, Accept!ApprovedIsAccepted
  <2>2. offer[q].type \in PolicyType /\ offer[q].coverage \in Nat
    BY <2>1, OffersAssumption DEF IInv, RowsInv, RowTypes
  <2>3. case[q] # Undecided => case[q] = Evaluate(TRUE, offer[q].type, offer[q].coverage)
    BY <2>1 DEF IInv, WorkInv, CaseInv, Sound
  <2>4. CASE case[q] = Undecided
    BY <2>4 DEF Undecided
  <2>5. CASE case[q] # Undecided
    BY <2>2, <2>3, <2>5, EstimateIsLowest DEF Evaluate
  <2> QED
    BY <2>4, <2>5
<1> QED
  BY <1>1, SpecIInv, PTL
=============================================================================
