------------------------------ MODULE CaseWork ------------------------------
(***************************************************************************)
(* Staff working on private cases through the backend API:                 *)
(* UpdateStatusAsync, AssignAsync and AddNoteAsync of ClaimWorkflowService *)
(* and of QuoteWorkflowService, which differ only in their statuses.       *)
(*                                                                         *)
(* Each request loads the case, decides, and saves, with no lock and no    *)
(* concurrency token between load and save.  EF Core writes only the       *)
(* columns whose value differs from the loaded one.  The case starts as    *)
(* its worker left it.                                                     *)
(***************************************************************************)
EXTENDS Naturals, Sequences

CONSTANTS
    Case,           \* private cases
    Status,         \* their statuses
    Transition,     \* per case: the valid transitions, pairs of statuses
    StartFrom,      \* per case: the status before its worker's decision
    StartStatus,    \* per case: what its worker may have decided
    Request,        \* requests the backend API handles, each once
    Staff,          \* users a case can be assigned to
    Nobody          \* no user

ASSUME StatusAssumption ==
    /\ Transition \in [Case -> SUBSET (Status \X Status)]
    /\ StartFrom \in [Case -> Status]
    /\ StartStatus \in [Case -> SUBSET Status]
ASSUME NobodyAssumption == Nobody \notin Staff

VARIABLES
    status,         \* Status
    assignee,       \* AssignedToUserId
    notes,          \* requests whose note was added
    audit,          \* per case: status changes of its audit trail, in order
    assigned,       \* per case: assignees named by its audit trail, in order
    announced,      \* per case: statuses of its projection events, in order
    pc,             \* per request: where it stands
    target,         \* per request: the case it works on
    loaded,         \* per request: status and assignee it loaded
    overlapped      \* history: cases that two requests had loaded at a time

rows == <<status, assignee, notes, audit, assigned, announced>>
vars == <<status, assignee, notes, audit, assigned, announced, pc, target, loaded,
          overlapped>>

Change == [from : Status, to : Status]
RequestState == {"new", "loaded", "saved", "200", "409", "500"}
Loaded == [status : Status, assignee : Staff \cup {Nobody}]

TypeOK ==
    /\ status \in [Case -> Status]
    /\ assignee \in [Case -> Staff \cup {Nobody}]
    /\ notes \in [Case -> SUBSET Request]
    /\ audit \in [Case -> Seq(Change)]
    /\ assigned \in [Case -> Seq(Staff)]
    /\ announced \in [Case -> Seq(Status)]
    /\ pc \in [Request -> RequestState]
    /\ target \in [Request -> Case]
    /\ loaded \in [Request -> Loaded]
    /\ overlapped \subseteq Case

(* A case as its worker commits it: its last change is the decision.       *)
Init ==
    /\ status \in [Case -> Status]
    /\ \A c \in Case : status[c] \in StartStatus[c]
    /\ assignee = [c \in Case |-> Nobody]
    /\ notes = [c \in Case |-> {}]
    /\ audit = [c \in Case |-> <<[from |-> StartFrom[c], to |-> status[c]]>>]
    /\ assigned = [c \in Case |-> <<>>]
    /\ announced = [c \in Case |-> <<status[c]>>]
    /\ pc = [r \in Request |-> "new"]
    /\ target \in [Request -> Case]
    /\ loaded = [r \in Request |-> [status |-> StartFrom[target[r]],
                                   assignee |-> Nobody]]
    /\ overlapped = {}

-----------------------------------------------------------------------------
Valid(c, current, to) == <<current, to>> \in Transition[c]

Go(r, from, to) == pc[r] = from /\ pc' = [pc EXCEPT ![r] = to]

(* The query that starts each of the three methods.  No code deletes a     *)
(* case, so the one asked for is found.                                    *)
Load(r) ==
    /\ Go(r, "new", "loaded")
    /\ loaded' = [loaded EXCEPT ![r] = [status |-> status[target[r]],
                                        assignee |-> assignee[target[r]]]]
    /\ UNCHANGED <<rows, target>>

(* UpdateStatusAsync: an invalid transition is refused with a conflict.    *)
RefuseStatus(r, s) ==
    /\ Go(r, "loaded", "409")
    /\ ~Valid(target[r], loaded[r].status, s)
    /\ UNCHANGED <<rows, target, loaded>>

(* Mutated forms of SaveStatus: the transition is not validated; the whole *)
(* row is written, with the assignee that was loaded.                      *)
SaveStatusWith(r, s, withNote, newAssignee) ==
    LET c == target[r]
    IN  /\ Go(r, "loaded", "saved")
        /\ status' = [status EXCEPT ![c] = s]
        /\ audit' = [audit EXCEPT ![c] =
                        Append(@, [from |-> loaded[r].status, to |-> s])]
        /\ announced' = [announced EXCEPT ![c] = Append(@, s)]
        /\ notes' = IF withNote THEN [notes EXCEPT ![c] = @ \cup {r}] ELSE notes
        /\ assignee' = [assignee EXCEPT ![c] = newAssignee]
        /\ UNCHANGED <<assigned, target, loaded>>
SaveStatusUnchecked(r, s, withNote) ==
    SaveStatusWith(r, s, withNote, assignee[target[r]])
SaveStatusWholeRow(r, s, withNote) ==
    /\ Valid(target[r], loaded[r].status, s)
    /\ SaveStatusWith(r, s, withNote, loaded[r].assignee)

(* UpdateStatusAsync: the new status, its audit entry, an optional note    *)
(* and the projection event are saved in one transaction.                  *)
SaveStatus(r, s, withNote) ==
    LET c == target[r]
    IN  /\ Go(r, "loaded", "saved")
        /\ Valid(target[r], loaded[r].status, s)
        /\ status' = [status EXCEPT ![c] = s]
        /\ audit' = [audit EXCEPT ![c] =
                        Append(@, [from |-> loaded[r].status, to |-> s])]
        /\ announced' = [announced EXCEPT ![c] = Append(@, s)]
        /\ notes' = IF withNote THEN [notes EXCEPT ![c] = @ \cup {r}] ELSE notes
        /\ UNCHANGED <<assignee, assigned, target, loaded>>

(* AssignAsync: the column is written only if it differs from the loaded   *)
(* value; the audit entry is added in any case.                            *)
SaveAssignment(r, user) ==
    LET c == target[r]
    IN  /\ Go(r, "loaded", "saved")
        /\ assignee' = IF user = loaded[r].assignee THEN assignee
                       ELSE [assignee EXCEPT ![c] = user]
        /\ assigned' = [assigned EXCEPT ![c] = Append(@, user)]
        /\ UNCHANGED <<status, notes, audit, announced, target, loaded>>

(* Mutated form of SaveNote: the whole row is written, with the status     *)
(* that was loaded.                                                        *)
SaveNoteWholeRow(r) ==
    /\ Go(r, "loaded", "saved")
    /\ notes' = [notes EXCEPT ![target[r]] = @ \cup {r}]
    /\ status' = [status EXCEPT ![target[r]] = loaded[r].status]
    /\ UNCHANGED <<assignee, audit, assigned, announced, target, loaded>>

(* AddNoteAsync.                                                           *)
SaveNote(r) ==
    /\ Go(r, "loaded", "saved")
    /\ notes' = [notes EXCEPT ![target[r]] = @ \cup {r}]
    /\ UNCHANGED <<status, assignee, audit, assigned, announced, target, loaded>>

(* The save throws, or what follows it does, or the process stops: an      *)
(* error, which after the save does not mean that nothing was committed.   *)
Fail(r) ==
    /\ Go(r, "loaded", "500") \/ Go(r, "saved", "500")
    /\ UNCHANGED <<rows, target, loaded>>

(* The dispatch of the outbox (UpdateStatusAsync only) and the query that  *)
(* builds the response.                                                    *)
Respond(r) ==
    /\ Go(r, "saved", "200")
    /\ UNCHANGED <<rows, target, loaded>>

Save(r) ==
    \/ \E s \in Status :
        RefuseStatus(r, s) \/ \E n \in BOOLEAN : SaveStatus(r, s, n)
    \/ \E u \in Staff : SaveAssignment(r, u)
    \/ SaveNote(r)
    \/ Fail(r)

LoadedBy(c) == {r \in Request : target[r] = c /\ pc[r] = "loaded"}
Overlaps(c) == \E r, q \in LoadedBy(c) : r # q

Next ==
    /\ \E r \in Request : Load(r) \/ Save(r) \/ Respond(r)
    /\ overlapped' = overlapped \cup {c \in Case : Overlaps(c)'}

Spec == Init /\ [][Next]_vars

-----------------------------------------------------------------------------
LastOf(s) == s[Len(s)]

(* Whatever requests overlap, the audit trail of a case, the events about  *)
(* it and its status tell one story: every change is audited and announced *)
(* once and in the same order, the last of them is the status of the case, *)
(* so that no request brings back a status it had loaded before another    *)
(* changed it, and each is a valid transition from a status the case did   *)
(* have earlier, if not from the one it had when the change was saved.     *)
TrailIsWhole ==
    \A c \in Case :
        /\ LastOf(audit[c]).to = status[c]
        /\ Len(announced[c]) = Len(audit[c])
        /\ \A i \in DOMAIN audit[c] : announced[c][i] = audit[c][i].to
        /\ \A i \in 2 .. Len(audit[c]) :
              /\ Valid(c, audit[c][i].from, audit[c][i].to)
              /\ \E j \in 1 .. i - 1 : audit[c][j].to = audit[c][i].from

(* A case that was assigned stays assigned, to a user its audit trail      *)
(* names: a concurrent status change or note never takes it back. It is    *)
(* the user named last unless requests on the case overlapped: assigning   *)
(* the user that was loaded writes no column, but does write an audit      *)
(* entry.                                                                  *)
AssigneeIsAudited ==
    \A c \in Case :
        IF assigned[c] = <<>> THEN assignee[c] = Nobody
        ELSE /\ \E i \in DOMAIN assigned[c] : assignee[c] = assigned[c][i]
             /\ c \notin overlapped => assignee[c] = LastOf(assigned[c])

(* A case moves along the documented state machine when the requests on it *)
(* do not overlap, and even when they do if its worker has decided for     *)
(* good: that is so of every quote, which stays as it was decided, and of  *)
(* no claim.  (When requests on a claim overlap, one may save a transition *)
(* from a status that the case no longer has.)                             *)
DecidedForGood(c) == \A s \in StartStatus[c], t \in Status : ~Valid(c, s, t)
FollowsStateMachine ==
    [][\A c \in Case : c \notin overlapped' \/ DecidedForGood(c) =>
        status'[c] = status[c] \/ Valid(c, status[c], status'[c])]_vars
=============================================================================
