----------------------------- MODULE Heartbeat -----------------------------
(***************************************************************************)
(* The triage of the squad's board: runs of the heartbeat workflow, which  *)
(* read the open issues labelled "squad" page by page with ralph-triage.js *)
(* and then label and comment on those without a member, and jobs of the   *)
(* triage workflow, which do the same for the one issue that was labelled  *)
(* "squad". Nothing keeps runs and jobs from overlapping, with each other  *)
(* and with the people who label, close and reopen issues.                 *)
(*                                                                         *)
(* External: GitHub's list of issues is sorted by number, newest first,    *)
(* and a label put with the workflows' token starts no workflow.           *)
(***************************************************************************)
EXTENDS TriageRules, FiniteSets

CONSTANTS
    Issue,          \* numbers of issues and pull requests
    PullRequest,    \* those that are pull requests
    text,           \* text of each issue
    TeamFiles,      \* the versions of team.md, one after the other
    RoutingFile,    \* the contents of routing.md
    Keywords,       \* the keywords in each cell of examples
    Squad,          \* what the workflows make of each version of team.md
    Run,            \* heartbeat runs that may be under way at once
    PerPage,        \* issues in a page of the list
    MaxEvent        \* bound on what people do and on failed calls and lost
                    \* runners, together

ASSUME IssueAssumption == Issue \subseteq Nat /\ PullRequest \subseteq Issue
ASSUME PerPageAssumption == PerPage \in Nat \ {0}

(* What a workflow that checks out the repository reads: the labels of the *)
(* members, and to whom it gives each issue.                               *)
Read(team) ==
    LET roster == ParseRoster(team)
        rules == ParseRoutingRules(RoutingFile, Keywords)
        modules == ParseModuleOwnership(RoutingFile)
    IN [labels |-> MemberLabels(roster),
        agent |-> [i \in Issue |-> TriageIssue(text[i], rules, modules, roster)],
        lead |-> [i \in Issue |-> WorkflowTriage(text[i], WorkflowRoster(team))]]

Version == 1..Len(TeamFiles)
ASSUME SquadAssumption == Squad = [v \in Version |-> Read(TeamFiles[v])]

(* Whoever is given an issue is a member to the script, although the two   *)
(* workflows read team.md differently; no member's label is "squad".       *)
ASSUME TeamAssumption ==
    /\ 1 \in Version
    /\ \A v \in Version :
          /\ "squad" \notin Squad[v].labels
          /\ \A i \in Issue : \A member \in {Squad[v].agent[i], Squad[v].lead[i]} :
                member # NoMember => member.label \in Squad[v].labels

VARIABLES
    version,    \* the current version of team.md
    open,       \* issues that are open
    labels,     \* labels of each issue
    comments,   \* triage comments on each issue
    run,        \* heartbeat runs
    job,        \* the triage job of each issue
    events,     \* number of things people did
    faults,     \* number of faults
    disturbed   \* history: issues whose labels were changed by a person, or
                \* by somebody while another decision on them was pending

board == <<version, open, labels, comments>>
vars == <<version, open, labels, comments, run, job, events, faults, disturbed>>

NoJob == [step |-> "none", label |-> ""]
Idle == [step |-> "idle", page |-> 0, version |-> 0, decisions |-> {}]

Label == {"squad"} \cup UNION {Squad[v].labels : v \in Version}
RunState == [step : {"fetch", "label", "comment"}, page : Nat, version : Version,
             decisions : SUBSET (Nat \X Issue)]

TypeOK ==
    /\ version \in Version
    /\ open \subseteq Issue
    /\ labels \in [Issue -> SUBSET Label]
    /\ comments \in [Issue -> Nat]
    /\ run \in [Run -> RunState \cup {Idle}]
    /\ job \in [Issue -> {NoJob} \cup [step : {"queued", "labelled", "judged"}, label : Label]]
    /\ events \in Nat /\ faults \in Nat
    /\ disturbed \subseteq Issue

Init ==
    /\ version = 1
    /\ open = Issue
    /\ labels \in [Issue -> {{}, {"squad"}}]
    /\ comments = [i \in Issue |-> 0]
    /\ run = [r \in Run |-> Idle]
    /\ job = [i \in Issue |-> NoJob]
    /\ events = 0
    /\ faults = 0
    /\ disturbed = {}

-----------------------------------------------------------------------------
(* What ralph-triage.js computes from what it read.                        *)

(* Mutated form of IsUntriaged: the labels of the members do not count.    *)
IsInInbox(i, memberLabels) ==
    i \notin PullRequest /\ "squad" \in labels[i]

IsUntriaged(i, memberLabels) ==
    /\ i \notin PullRequest
    /\ "squad" \in labels[i]
    /\ labels[i] \cap memberLabels = {}

(* The issues of a page it decides on. The script does so after the last   *)
(* page, but from what it has read: it is as if it did so now. A decision  *)
(* is kept with the page it came from, as pages may shift and repeat one.  *)
Decisions(page, files) ==
    {i \in page : IsUntriaged(i, files.labels) /\ files.agent[i] # NoMember}

(* The results are in the order of the pages, newest first on each.        *)
Precedes(d, e) == d[1] < e[1] \/ (d[1] = e[1] /\ d[2] > e[2])
First(decisions) == {d \in decisions : \A e \in decisions \ {d} : Precedes(d, e)}

(* The runs that decided on an issue and are not done with it.             *)
Deciding(i) == {r \in Run : \E d \in run[r].decisions : d[2] = i}
JobPending(i) == job[i].step = "queued"

-----------------------------------------------------------------------------
(* The heartbeat.                                                          *)

Goto(r, state) == run' = [run EXCEPT ![r] = state]

Fault == events + faults < MaxEvent /\ faults' = faults + 1

(* The schedule, a closed or labelled issue or a person starts a run.      *)
StartRun(r) ==
    /\ run[r].step = "idle"
    /\ Goto(r, [Idle EXCEPT !.step = "fetch", !.page = 1, !.version = version])
    /\ UNCHANGED <<board, job, events, faults, disturbed>>

Listed == {i \in open : "squad" \in labels[i]}
Position(i) == Cardinality({j \in Listed : j >= i})

(* Mutated form of PageOf: pages are counted from zero.                    *)
PageFromZero(n) ==
    {i \in Listed : Position(i) \in n * PerPage + 1 .. (n + 1) * PerPage}

PageOf(n) ==
    {i \in Listed : Position(i) \in (n - 1) * PerPage + 1 .. n * PerPage}

Apply(r, decisions) ==
    IF decisions = {} THEN Idle
    ELSE [Idle EXCEPT !.step = "label", !.version = run[r].version, !.decisions = decisions]

Collected(r, page) ==
    run[r].decisions \cup ({run[r].page} \X Decisions(page, Squad[run[r].version]))

FetchPage(r) ==
    /\ run[r].step = "fetch"
    /\ LET page == PageOf(run[r].page)
           decisions == Collected(r, page)
       IN Goto(r, IF Cardinality(page) < PerPage THEN Apply(r, decisions)
                  ELSE [run[r] EXCEPT !.page = @ + 1, !.decisions = decisions])
    /\ UNCHANGED <<board, job, events, faults, disturbed>>

PutLabel(i, label) == labels' = [labels EXCEPT ![i] = @ \cup {label}]

AgentLabel(r, i) == Squad[run[r].version].agent[i].label

Finish(r, d) == Goto(r, Apply(r, run[r].decisions \ {d}))

(* Whether a decision on the issue is pending other than this one.         *)
Contended(r, d) ==
    \/ Deciding(d[2]) # {r}
    \/ JobPending(d[2])
    \/ \E e \in run[r].decisions \ {d} : e[2] = d[2]

AddLabel(r) ==
    /\ run[r].step = "label"
    /\ \E d \in First(run[r].decisions) :
          /\ PutLabel(d[2], AgentLabel(r, d[2]))
          /\ disturbed' = disturbed \cup {i \in {d[2]} : Contended(r, d)}
    /\ Goto(r, [run[r] EXCEPT !.step = "comment"])
    /\ UNCHANGED <<version, open, comments, job, events, faults>>

PutComment(i) == comments' = [comments EXCEPT ![i] = @ + 1]

(* Mutated form of CreateComment: the label is left to the next run.       *)
CreateCommentOnly(r) ==
    /\ run[r].step = "label"
    /\ \E d \in First(run[r].decisions) : PutComment(d[2]) /\ Finish(r, d)
    /\ UNCHANGED <<version, open, labels, job, events, faults, disturbed>>

CreateComment(r) ==
    /\ run[r].step = "comment"
    /\ \E d \in First(run[r].decisions) : PutComment(d[2]) /\ Finish(r, d)
    /\ UNCHANGED <<version, open, labels, job, events, faults, disturbed>>

(* A call that fails for one issue is caught: the next issue is handled.   *)
GiveUpIssue(r) ==
    /\ run[r].step \in {"label", "comment"}
    /\ Fault
    /\ \E d \in First(run[r].decisions) : Finish(r, d)
    /\ UNCHANGED <<board, job, events, disturbed>>

(* A failed call while fetching ends the run, and so does a lost runner.   *)
AbortRun(r) ==
    /\ run[r].step # "idle"
    /\ Fault
    /\ Goto(r, Idle)
    /\ UNCHANGED <<board, job, events, disturbed>>

-----------------------------------------------------------------------------
(* The triage workflow. Its job decides on the issue and the roster as     *)
(* they were when the label was put.                                       *)

JobLabel(i) ==
    /\ job[i].step = "queued"
    /\ PutLabel(i, job[i].label)
    /\ job' = [job EXCEPT ![i].step = "labelled"]
    /\ disturbed' = disturbed \cup {n \in {i} : Deciding(n) # {}}
    /\ UNCHANGED <<version, open, comments, run, events, faults>>

(* The label go:needs-research, which nothing here reads, is not kept.     *)
JobVerdict(i) ==
    /\ job[i].step = "labelled"
    /\ job' = [job EXCEPT ![i].step = "judged"]
    /\ UNCHANGED <<board, run, events, faults, disturbed>>

JobComment(i) ==
    /\ job[i].step = "judged"
    /\ PutComment(i)
    /\ job' = [job EXCEPT ![i] = NoJob]
    /\ UNCHANGED <<version, open, labels, run, events, faults, disturbed>>

(* No call of the job is caught: the first that fails ends it.             *)
AbortJob(i) ==
    /\ job[i].step # "none"
    /\ Fault
    /\ job' = [job EXCEPT ![i] = NoJob]
    /\ UNCHANGED <<board, run, events, disturbed>>

-----------------------------------------------------------------------------
(* People. Whatever they do counts as an event.                            *)

Event == events + faults < MaxEvent /\ events' = events + 1

Labelled(i) == labels[i] \cap Squad[version].labels

(* Labelling an issue "squad" starts its triage job, if there is a lead.   *)
(* One job of an issue at a time.                                          *)
AddSquad(i) ==
    /\ Event
    /\ i \in open /\ "squad" \notin labels[i] /\ job[i] = NoJob
    /\ PutLabel(i, "squad")
    /\ LET member == Squad[version].lead[i]
       IN job' = IF i \in PullRequest \/ member = NoMember THEN job
                 ELSE [job EXCEPT ![i] = [step |-> "queued", label |-> member.label]]
    /\ disturbed' = disturbed \cup {n \in {i} : Labelled(i) # {}}
    /\ UNCHANGED <<version, open, comments, run, faults>>

AssignMember(i) ==
    /\ Event
    /\ \E label \in Squad[version].labels \ labels[i] : PutLabel(i, label)
    /\ disturbed' = disturbed \cup {i}
    /\ UNCHANGED <<version, open, comments, run, job, faults>>

RemoveLabel(i) ==
    /\ Event
    /\ \E label \in labels[i] :
          /\ labels' = [labels EXCEPT ![i] = @ \ {label}]
          /\ disturbed' = disturbed \cup {n \in {i} : label # "squad"}
    /\ UNCHANGED <<version, open, comments, run, job, faults>>

CloseOrReopen(i) ==
    /\ Event
    /\ open' = IF i \in open THEN open \ {i} ELSE open \cup {i}
    /\ UNCHANGED <<version, labels, comments, run, job, faults, disturbed>>

(* A new version of team.md: labels of former members no longer count.     *)
EditTeam ==
    /\ Event
    /\ version + 1 \in Version
    /\ version' = version + 1
    /\ disturbed' = Issue
    /\ UNCHANGED <<open, labels, comments, run, job, faults>>

-----------------------------------------------------------------------------
RunStep(r) == StartRun(r) \/ FetchPage(r) \/ AddLabel(r) \/ CreateComment(r)
JobStep(i) == JobLabel(i) \/ JobVerdict(i) \/ JobComment(i)
People(i) == AddSquad(i) \/ AssignMember(i) \/ RemoveLabel(i) \/ CloseOrReopen(i)

Next ==
    \/ \E r \in Run : RunStep(r) \/ GiveUpIssue(r) \/ AbortRun(r)
    \/ \E i \in Issue : JobStep(i) \/ AbortJob(i) \/ People(i)
    \/ EditTeam

(* The schedule starts the heartbeat every half hour, and runners that are *)
(* not lost finish their steps.                                            *)
Fairness ==
    /\ \A r \in Run : WF_vars(RunStep(r))
    /\ \A i \in Issue : WF_vars(JobStep(i))

Spec == Init /\ [][Next]_vars /\ Fairness

-----------------------------------------------------------------------------
(* An issue is triaged once: it has one member and one comment, however    *)
(* pages shift and issues close, unless a person changed its labels or two *)
(* decisions on it overlapped.                                             *)
TriagedOnce ==
    \A i \in Issue \ disturbed : Cardinality(Labelled(i)) <= 1 /\ comments[i] <= 1

AtWork(i) == job[i] # NoJob \/ Deciding(i) # {}

(* A triage comment stands on an issue whose member the heartbeat          *)
(* recognises, whichever workflow wrote it; a member without a comment has *)
(* a failed call behind it, once nobody is at work on the issue.           *)
TriageIsWhole ==
    \A i \in Issue \ disturbed :
        /\ comments[i] > 0 => Labelled(i) # {}
        /\ Labelled(i) # {} /\ ~AtWork(i) /\ faults = 0 => comments[i] > 0

Inbox(i) ==
    i \in open \ PullRequest /\ "squad" \in labels[i] /\ Labelled(i) = {}

(* Every issue leaves the inbox: neither pages that shift, failed calls    *)
(* and lost runners nor members who leave keep it there for good.          *)
InboxEmpties == \A i \in Issue : Inbox(i) ~> ~Inbox(i)
=============================================================================
