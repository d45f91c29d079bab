--------------------------- MODULE PublicPolicies ---------------------------
(***************************************************************************)
(* The policies of one customer: PolicyService of the public API, and      *)
(* CustomerService.DeleteCustomerAsync.                                    *)
(*                                                                         *)
(* A request loads the row, checks it, and assigns to the loaded copy;     *)
(* SaveChangesAsync then writes the columns that differ from what was      *)
(* loaded, with no lock and no concurrency token in between.               *)
(***************************************************************************)
EXTENDS Integers, ClaimRules, QuoteRules

CONSTANTS
    Policy,         \* ids of policies
    Request,        \* requests, each handled once
    Type,           \* the type of the policies
    Coverage,       \* coverages asked for, in dollars
    StatusAsked,    \* statuses asked for by updates
    Months,         \* months asked for by renewals
    MaxTime         \* bound on the clock, in months

ASSUME TypeAssumption == Type \in PolicyType
ASSUME CoverageAssumption == Coverage \subseteq Nat
ASSUME StatusAssumption == StatusAsked \subseteq PolicyStatus
ASSUME TimeAssumption == MaxTime \in Nat \ {0} /\ Months \subseteq Int

Column == {"status", "coverage", "premium", "start", "end"}
Row == [status : PolicyStatus, coverage : Coverage, premium : Nat,
        start : Int, end : Int]
NoRow == [status |-> "none", coverage |-> 0, premium |-> 0, start |-> 0, end |-> 0]

VARIABLES
    customer,       \* the customer exists
    row,            \* Policies: per id, its row or NoRow
    now,            \* DateTime.UtcNow
    pc,             \* per request: "new", "loaded", "saved" or its response
    kind,           \* per request: the operation it performs
    target,         \* per request: the policy it asks for
    wanted,         \* per request: the columns it has yet to write, and their values
    overlapped,     \* history: two requests had loaded policies at a time
    alone,          \* history: policies that had a coverage saved without its premium
    shortened       \* history: policies whose end was last saved by a renewal that
                    \* did not ask for a month

rows == <<customer, row>>
histories == <<alone, shortened>>
vars == <<customer, row, now, pc, kind, target, wanted, overlapped, alone, shortened>>

Kind == {"create", "update", "activate", "cancel", "renew", "delete"}
Response == {"200", "201", "204", "400", "404", "409", "500"}

TypeOK ==
    /\ customer \in BOOLEAN
    /\ row \in [Policy -> Row \cup {NoRow}]
    /\ now \in 0 .. MaxTime
    /\ pc \in [Request -> {"new", "loaded", "saved"} \cup Response]
    /\ kind \in [Request -> Kind]
    /\ target \in [Request -> Policy]
    /\ \A r \in Request : DOMAIN wanted[r] \subseteq Column
    /\ overlapped \in BOOLEAN
    /\ alone \subseteq Policy /\ shortened \subseteq Policy

Drafted(coverage, start, end) ==
    [status |-> "Draft", coverage |-> coverage,
     premium |-> CalculatePremium(Type, coverage), start |-> start, end |-> end]

(* Some policies exist as CreatePolicyAsync left them; the id of a policy  *)
(* to be created is new.                                                   *)
Init ==
    /\ customer = TRUE
    /\ row \in [Policy -> {NoRow} \cup {Drafted(c, 0, MaxTime) : c \in Coverage}]
    /\ now = 0
    /\ pc = [r \in Request |-> "new"]
    /\ kind \in [Request -> Kind]
    /\ target \in [Request -> Policy]
    /\ \A r, s \in Request : kind[r] = "create" /\ target[s] = target[r] =>
           row[target[r]] = NoRow /\ (kind[s] = "create" => r = s)
    /\ wanted = [r \in Request |-> <<>>]
    /\ overlapped = FALSE
    /\ alone = {} /\ shortened = {}

-----------------------------------------------------------------------------
Go(r, from, to) == pc[r] = from /\ pc' = [pc EXCEPT ![r] = to]

Gone(p) == row[p] = NoRow

(* Request r is refused with a response, or assigns to columns w.          *)
Refuse(r, response) ==
    /\ Go(r, "new", response)
    /\ UNCHANGED <<rows, now, kind, target, wanted, histories>>
Assign(r, w) ==
    /\ Go(r, "new", "loaded")
    /\ wanted' = [wanted EXCEPT ![r] = w]
    /\ UNCHANGED <<rows, now, kind, target, histories>>

(* What Policies.FindAsync returned, the check on it and the assignments:  *)
(* w names columns and values, of which those that differ are modified.    *)
Modified(p, w) == [c \in {c \in DOMAIN w : w[c] # row[p][c]} |-> w[c]]

Find(r, k, ok, refusal, w) ==
    LET p == target[r]
    IN  /\ kind[r] = k
        /\ \/ Gone(p) /\ Refuse(r, "404")
           \/ ~Gone(p) /\ ~ok /\ Refuse(r, refusal)
           \/ ~Gone(p) /\ ok /\ Assign(r, Modified(p, w))

Activate(r) ==
    Find(r, "activate", row[target[r]].status = "Draft", "409",
         [status |-> "Active"])

Cancel(r) ==
    Find(r, "cancel", row[target[r]].status \notin {"Cancelled", "Expired"}, "409",
         [status |-> "Cancelled"])

(* RenewPolicyAsync: the dates start from the clock, which has moved since *)
(* they were last set, so both are always modified.                        *)
Renew(r) ==
    /\ kind[r] = "renew"
    /\ \E m \in Months :
        LET p == target[r]
            dates == [c \in {"start", "end"} |->
                         IF c = "start" THEN now ELSE now + m]
            status == Modified(p, [status |-> "Active"])
        IN  \/ Gone(p) /\ Refuse(r, "404")
            \/ /\ ~Gone(p)
               /\ row[p].status \notin {"Active", "Expired"}
               /\ Refuse(r, "409")
            \/ /\ row[p].status \in {"Active", "Expired"}
               /\ Assign(r, [c \in DOMAIN dates \cup DOMAIN status |->
                                IF c \in DOMAIN dates THEN dates[c] ELSE status[c]])

(* UpdatePolicyRequest: a status, a coverage or none, and an end date or    *)
(* none.                                                                   *)
WithStatus(s) == [status |-> s]

(* Mutated form of WithCoverage: the premium is not calculated again.      *)
WithCoverageOnly(s, c) == [status |-> s, coverage |-> c]
WithCoverage(s, c) ==
    [status |-> s, coverage |-> c, premium |-> CalculatePremium(Type, c)]
WithEnd(s, e) == [status |-> s, end |-> e]
WithBoth(s, c, e) ==
    [status |-> s, coverage |-> c, premium |-> CalculatePremium(Type, c), end |-> e]

(* Mutated form of EndsLater: the end may be the start.                    *)
EndsNotBefore(r, e) == e >= row[target[r]].start
EndsLater(r, e) == e > row[target[r]].start

Update(r) ==
    \E s \in StatusAsked :
        \/ Find(r, "update", TRUE, "400", WithStatus(s))
        \/ \E c \in Coverage : Find(r, "update", TRUE, "400", WithCoverage(s, c))
        \/ \E e \in 0 .. MaxTime :
            \/ Find(r, "update", EndsLater(r, e), "400", WithEnd(s, e))
            \/ \E c \in Coverage :
                Find(r, "update", EndsLater(r, e), "400", WithBoth(s, c, e))

(* What the histories keep of a save of columns w: the coverage without    *)
(* the premium, which the loaded one already matched; dates out of order.  *)
CoverageAlone(w) == "coverage" \in DOMAIN w /\ "premium" \notin DOMAIN w
Shortens(w) == {"start", "end"} \subseteq DOMAIN w /\ w["end"] <= w["start"]

(* SaveChangesAsync: an UPDATE of the modified columns, if there are any.  *)
SavePolicy(r) ==
    LET p == target[r]
    IN  /\ kind[r] \notin {"create", "delete"}
        /\ Go(r, "loaded", "saved")
        /\ ~Gone(p) \/ wanted[r] = <<>>
        /\ row' = [row EXCEPT ![p] =
               IF Gone(p) THEN NoRow
               ELSE [c \in Column |->
                        IF c \in DOMAIN wanted[r] THEN wanted[r][c] ELSE @[c]]]
        /\ wanted' = [wanted EXCEPT ![r] = <<>>]
        /\ alone' = alone \cup {q \in {p} : CoverageAlone(wanted[r])}
        /\ shortened' = (shortened \ {q \in {p} : "end" \in DOMAIN wanted[r]})
                         \cup {q \in {p} : Shortens(wanted[r])}
        /\ UNCHANGED <<customer, now, kind, target>>

(* GetPolicyByIdAsync: the response, not found if the row is gone by now.  *)
RespondPolicy(r) ==
    /\ kind[r] \notin {"create", "delete"}
    /\ Go(r, "saved", IF Gone(target[r]) THEN "404" ELSE "200")
    /\ UNCHANGED <<rows, now, kind, target, wanted, histories>>

-----------------------------------------------------------------------------
(* CreatePolicyAsync.                                                      *)
Create(r) ==
    /\ kind[r] = "create"
    /\ Gone(target[r])
    /\ \E c \in Coverage, start \in 0 .. MaxTime, end \in 0 .. MaxTime :
        \/ ~customer /\ Refuse(r, "404")
        \/ customer /\ end <= start /\ Refuse(r, "400")
        \/ customer /\ end > start /\ Assign(r, Drafted(c, start, end))

(* Mutated form of SaveNew: the row has no foreign key.                    *)
SaveNewUnchecked(r) ==
    /\ kind[r] = "create"
    /\ Go(r, "loaded", "saved")
    /\ Gone(target[r])
    /\ row' = [row EXCEPT ![target[r]] = wanted[r]]
    /\ wanted' = [wanted EXCEPT ![r] = <<>>]
    /\ UNCHANGED <<customer, now, kind, target, histories>>

(* The insert, which the foreign key lets commit only for a customer; the  *)
(* id is new, so no other creation has inserted it.                        *)
SaveNew(r) ==
    /\ kind[r] = "create"
    /\ Go(r, "loaded", "saved")
    /\ customer /\ Gone(target[r])
    /\ row' = [row EXCEPT ![target[r]] = wanted[r]]
    /\ wanted' = [wanted EXCEPT ![r] = <<>>]
    /\ UNCHANGED <<customer, now, kind, target, histories>>

(* FirstAsync throws when the customer is gone by now.                     *)
RespondNew(r) ==
    /\ kind[r] = "create"
    /\ Go(r, "saved", IF customer THEN "201" ELSE "500")
    /\ UNCHANGED <<rows, now, kind, target, wanted, histories>>

-----------------------------------------------------------------------------
(* DeleteCustomerAsync.                                                    *)

(* Mutated form of CheckCustomer: only drafts stand in the way.            *)
CheckDrafts(r) ==
    /\ kind[r] = "delete"
    /\ IF ~customer THEN Refuse(r, "404")
       ELSE IF \E p \in Policy : row[p].status = "Draft" THEN Refuse(r, "409")
       ELSE Assign(r, <<>>)

(* The customer and the policies are loaded together.                      *)
CheckCustomer(r) ==
    /\ kind[r] = "delete"
    /\ IF ~customer THEN Refuse(r, "404")
       ELSE IF \E p \in Policy : row[p].status = "Active" THEN Refuse(r, "409")
       ELSE Assign(r, <<>>)

(* The delete cascades to the policies, the loaded ones and any other.     *)
DeleteCustomer(r) ==
    /\ kind[r] = "delete"
    /\ Go(r, "loaded", "204")
    /\ customer
    /\ customer' = FALSE
    /\ row' = [p \in Policy |-> NoRow]
    /\ UNCHANGED <<now, kind, target, wanted, histories>>

-----------------------------------------------------------------------------
(* The save throws, for a row or customer that is gone by now or for any   *)
(* other reason, or the query after it.                                    *)
Fail(r) ==
    /\ Go(r, "loaded", "500") \/ Go(r, "saved", "500")
    /\ wanted' = [wanted EXCEPT ![r] = <<>>]
    /\ UNCHANGED <<rows, now, kind, target, histories>>

Tick ==
    /\ now < MaxTime
    /\ now' = now + 1
    /\ UNCHANGED <<rows, pc, kind, target, wanted, histories>>

Overlap == \E r, s \in {q \in Request : pc[q] = "loaded"} : r # s

Next ==
    /\ \/ \E r \in Request :
           \/ Activate(r) \/ Cancel(r) \/ Renew(r) \/ Update(r)
           \/ SavePolicy(r) \/ RespondPolicy(r)
           \/ Create(r) \/ SaveNew(r) \/ RespondNew(r)
           \/ CheckCustomer(r) \/ DeleteCustomer(r)
           \/ Fail(r)
       \/ Tick
    /\ overlapped' = (overlapped \/ Overlap')

Spec == Init /\ [][Next]_vars

-----------------------------------------------------------------------------
(* No policy is left without its customer, whichever creation overlaps     *)
(* with the deletion.                                                      *)
NoOrphan == ~customer => \A p \in Policy : Gone(p)

(* A policy is priced as its coverage asks for, whatever coverages are     *)
(* asked for: always if requests do not overlap, and through any overlap   *)
(* if every save of a coverage took its premium along.  Only the columns   *)
(* that differ are written, so a coverage that rounds to the premium that  *)
(* was loaded goes alone, and may then meet the premium of another.        *)
PremiumFits ==
    \A p \in Policy : ~Gone(p) /\ ~(overlapped /\ p \in alone) =>
        row[p].premium = CalculatePremium(Type, row[p].coverage)

(* When requests do not overlap, a policy ends after it starts unless the  *)
(* last to save its end was a renewal of less than a month, which nothing  *)
(* refuses; the next renewal or end date puts it right.                    *)
EndAfterStart ==
    ~overlapped => \A p \in Policy : ~Gone(p) /\ p \notin shortened =>
        row[p].end > row[p].start

(* When requests do not overlap, only a draft is activated, so that a      *)
(* cancelled policy is not revived, and a customer is deleted only without *)
(* active policies.  (Both rules are broken by an activation that overlaps *)
(* with a cancellation, or with the deletion.)                             *)
ActivatedFromDraft(r) ==
    kind[r] = "activate" /\ pc[r] = "loaded" /\ pc'[r] = "saved" =>
        row[target[r]].status = "Draft"
DeletedWithoutActive ==
    customer /\ ~customer' => \A p \in Policy : row[p].status # "Active"
RulesHoldInTurn ==
    [][~overlapped' =>
        DeletedWithoutActive /\ \A r \in Request : ActivatedFromDraft(r)]_vars
=============================================================================
