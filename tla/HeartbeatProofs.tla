--------------------------- MODULE HeartbeatProofs ---------------------------
(***************************************************************************)
(* Theorems about the triage of the squad's board, for any issues, runs,   *)
(* pages, and versions of the squad's files that satisfy TeamAssumption.   *)
(***************************************************************************)
EXTENDS Heartbeat, FiniteSetTheorems, TLAPS

(* Run r has a decision on issue i for which it has put no label yet.      *)
Awaits(r, i) ==
    \E d \in run[r].decisions :
        d[2] = i /\ ~(run[r].step = "comment" /\ d \in First(run[r].decisions))

(* Run r, or the job of issue i, has put its label and owes the comment.   *)
Replies(r, i) == run[r].step = "comment" /\ \E d \in First(run[r].decisions) : d[2] = i
JobReplies(i) == job[i].step \in {"labelled", "judged"}

(* Decisions are for members.                                              *)
DecidedInv ==
    \A r \in Run : \A d \in run[r].decisions :
        Squad[run[r].version].agent[d[2]] # NoMember

(* The team is the first one, for everybody, as long as some issue is      *)
(* undisturbed.                                                            *)
SameTeam == version = 1 /\ \A r \in Run : run[r] # Idle => run[r].version = 1

(* What is true of an undisturbed issue. Whoever is going to label it      *)
(* decided so while nobody had; a comment stands on a labelled issue only; *)
(* who owes the comment is the one who put the label, and owes the first.  *)
Fresh(i) == (JobPending(i) \/ \E r \in Run : Awaits(r, i)) => Labelled(i) = {}

Quiet(i) == Labelled(i) = {} => comments[i] = 0

Owed(i) == (JobReplies(i) \/ \E r \in Run : Replies(r, i)) =>
               Labelled(i) # {} /\ comments[i] = 0

OneReply(i) ==
    \A r \in Run : Replies(r, i) => ~JobReplies(i) /\ \A q \in Run : Replies(q, i) => q = r

Once(i) == comments[i] <= 1 /\ \A a, b \in Labelled(i) : a = b

Answered(i) == faults = 0 /\ Labelled(i) # {} =>
                   comments[i] > 0 \/ JobReplies(i) \/ \E r \in Run : Replies(r, i)

JobFits(i) == JobPending(i) => job[i].label \in Squad[version].labels

Story(i) == /\ SameTeam /\ Fresh(i) /\ Quiet(i) /\ Owed(i) /\ OneReply(i) /\ Once(i)
            /\ Answered(i) /\ JobFits(i)

StoryInv == \A i \in Issue \ disturbed : Story(i)

IInv == TypeOK /\ DecidedInv /\ StoryInv

-----------------------------------------------------------------------------
(* Runs.                                                                   *)

(* A run's decisions are totally ordered.                                  *)
LEMMA OneFirst ==
  ASSUME TypeOK, NEW r \in Run,
         NEW d \in First(run[r].decisions), NEW e \in First(run[r].decisions)
  PROVE  d = e /\ d \in run[r].decisions /\ d \in Nat \X Issue
<1>1. run[r].decisions \subseteq Nat \X Issue
  BY DEF TypeOK, RunState, Idle
<1>2. d \in run[r].decisions /\ e \in run[r].decisions
  BY DEF First
<1>3. d # e => Precedes(d, e) /\ Precedes(e, d)
  BY <1>2 DEF First
<1>4. d[1] \in Nat /\ e[1] \in Nat /\ d[2] \in Nat /\ e[2] \in Nat
  BY <1>1, <1>2, IssueAssumption
<1>5. ~(Precedes(d, e) /\ Precedes(e, d))
  BY <1>4 DEF Precedes
<1> QED
  BY <1>1, <1>2, <1>3, <1>5

(* A run that is not idle.                                                 *)
LEMMA Busy ==
  ASSUME TypeOK, NEW r \in Run, run[r].step # "idle"
  PROVE  run[r] \in RunState /\ run[r] # Idle
  BY DEF TypeOK, Idle, RunState

(* What moving one run to a state does to the others: nothing.             *)
LEMMA Moved ==
  ASSUME TypeOK, DecidedInv, NEW r \in Run, NEW state \in RunState \cup {Idle}, Goto(r, state),
         state # Idle => \A d \in state.decisions : Squad[state.version].agent[d[2]] # NoMember
  PROVE  /\ run' \in [Run -> RunState \cup {Idle}]
         /\ DecidedInv'
         /\ run'[r] = state
         /\ \A q \in Run \ {r} : run'[q] = run[q]
         /\ \A q \in Run \ {r}, i \in Issue :
               (Awaits(q, i)' <=> Awaits(q, i)) /\ (Replies(q, i)' <=> Replies(q, i))
<1>1. run' = [run EXCEPT ![r] = state]
  BY DEF Goto
<1>2. /\ run' \in [Run -> RunState \cup {Idle}]
      /\ run'[r] = state
      /\ \A q \in Run \ {r} : run'[q] = run[q]
  BY <1>1 DEF TypeOK
<1>3. DecidedInv'
  <2>1. Idle.decisions = {}
    BY DEF Idle
  <2> QED
    BY <1>2, <2>1 DEF DecidedInv
<1>4. ASSUME NEW q \in Run \ {r}, NEW i \in Issue
      PROVE  (Awaits(q, i)' <=> Awaits(q, i)) /\ (Replies(q, i)' <=> Replies(q, i))
  BY <1>2 DEF Awaits, Replies
<1> QED
  BY <1>2, <1>3, <1>4

(* Finishing with the first decision, replied to or not, leaves the other  *)
(* decisions awaited.                                                      *)
LEMMA Finishing ==
  ASSUME TypeOK, DecidedInv, NEW r \in Run, run[r].step \in {"label", "comment"},
         NEW d \in First(run[r].decisions), Finish(r, d)
  PROVE  /\ run' \in [Run -> RunState \cup {Idle}]
         /\ DecidedInv'
         /\ SameTeam /\ version' = version => SameTeam'
         /\ \A q \in Run, i \in Issue :
               /\ Awaits(q, i)' => Awaits(q, i)
               /\ Replies(q, i)' <=> q # r /\ Replies(q, i)
<1> DEFINE rest == run[r].decisions \ {d}
           state == Apply(r, rest)
<1>1. run[r] \in RunState /\ run[r] # Idle
  BY Busy
<1>2. /\ state \in RunState \cup {Idle} /\ state.step \in {"idle", "label"}
      /\ state.decisions = rest
      /\ state # Idle => state.version = run[r].version
  BY <1>1 DEF Apply, Idle, RunState
<1>3. state # Idle => \A e \in state.decisions : Squad[state.version].agent[e[2]] # NoMember
  BY <1>2 DEF DecidedInv
<1>4. Goto(r, state)
  BY DEF Finish
<1> HIDE DEF state
<1>5. /\ run' \in [Run -> RunState \cup {Idle}]
      /\ DecidedInv'
      /\ run'[r] = state
      /\ \A q \in Run \ {r} : run'[q] = run[q]
      /\ \A q \in Run \ {r}, i \in Issue :
            (Awaits(q, i)' <=> Awaits(q, i)) /\ (Replies(q, i)' <=> Replies(q, i))
  BY <1>2, <1>3, <1>4, Moved
<1>6. SameTeam /\ version' = version => SameTeam'
  BY <1>1, <1>2, <1>5 DEF SameTeam
<1>7. ASSUME NEW i \in Issue
      PROVE  (Awaits(r, i)' => Awaits(r, i)) /\ ~Replies(r, i)'
  <2>1. ~Replies(r, i)'
    BY <1>2, <1>5 DEF Replies
  <2>2. ASSUME Awaits(r, i)'
        PROVE  Awaits(r, i)
    <3>1. PICK e \in run'[r].decisions : e[2] = i
      BY <2>2 DEF Awaits
    <3>2. e \in run[r].decisions /\ e # d
      BY <1>2, <1>5, <3>1
    <3>3. e \notin First(run[r].decisions)
      BY <3>2, OneFirst
    <3> QED
      BY <3>1, <3>2, <3>3 DEF Awaits
  <2> QED
    BY <2>1, <2>2
<1> QED
  BY <1>5, <1>6, <1>7

-----------------------------------------------------------------------------
(* Issues.                                                                 *)

(* A step that leaves an issue's labels of members, comments and job alone *)
(* keeps its story, if nobody decides on it who should not, and nobody     *)
(* leaves a comment owed without a fault.                                  *)
LEMMA Untouched ==
  ASSUME NEW i \in Issue, Story(i), SameTeam',
         Labelled(i)' = Labelled(i), comments'[i] = comments[i], job'[i] = job[i],
         \A r \in Run : Awaits(r, i)' => Awaits(r, i) \/ Labelled(i) = {},
         \A r \in Run : Replies(r, i)' => Replies(r, i),
         faults' = 0 => faults = 0 /\ \A r \in Run : Replies(r, i) => Replies(r, i)'
  PROVE  Story(i)'
<1>1. Fresh(i)'
  BY DEF Story, Fresh, JobPending
<1>2. Quiet(i)' /\ Once(i)'
  BY DEF Story, Quiet, Once
<1>3. Owed(i)' /\ OneReply(i)'
  BY DEF Story, Owed, OneReply, JobReplies
<1>4. Answered(i)'
  BY DEF Story, Answered, JobReplies
<1>5. JobFits(i)'
  BY DEF Story, JobFits, JobPending, SameTeam
<1> QED
  BY <1>1, <1>2, <1>3, <1>4, <1>5 DEF Story

(* A member's label other than "squad".                                    *)
LEMMA MemberLabel ==
  ASSUME TypeOK, NEW v \in Version, NEW i \in Issue,
         NEW member \in {Squad[v].agent[i], Squad[v].lead[i]}, member # NoMember
  PROVE  member.label \in Squad[v].labels /\ member.label \in Label
  BY TeamAssumption DEF Label

(* Putting a label on one issue.                                           *)
LEMMA Put ==
  ASSUME TypeOK, NEW x \in Issue, NEW label \in Label, PutLabel(x, label), version' = version
  PROVE  /\ labels' \in [Issue -> SUBSET Label]
         /\ \A i \in Issue : Labelled(i)' =
               IF i = x THEN Labelled(i) \cup ({label} \cap Squad[version].labels)
                        ELSE Labelled(i)
  BY DEF TypeOK, PutLabel, Labelled

(* The first label of a member: decided when there was none, and put when  *)
(* nobody else is at work. Who puts it owes the comment.                   *)
LEMMA FirstLabel ==
  ASSUME NEW i \in Issue, Story(i), SameTeam', Labelled(i) = {},
         NEW label, Labelled(i)' = {label}, comments'[i] = comments[i],
         faults' = faults,
         ~JobPending(i)', \A r \in Run : ~Awaits(r, i)',
         JobReplies(i)' \/ \E r \in Run : Replies(r, i)',
         \A r \in Run : Replies(r, i)' => ~JobReplies(i)' /\ \A q \in Run : Replies(q, i)' => q = r
  PROVE  Story(i)'
<1>1. comments[i] = 0
  BY DEF Story, Quiet
<1>2. Fresh(i)' /\ Quiet(i)' /\ Owed(i)' /\ OneReply(i)' /\ Once(i)'
  BY <1>1 DEF Fresh, Quiet, Owed, OneReply, Once
<1>3. Answered(i)' /\ JobFits(i)'
  BY DEF Answered, JobFits
<1> QED
  BY <1>2, <1>3 DEF Story

(* The comment that is owed.                                               *)
LEMMA Comment ==
  ASSUME TypeOK, NEW i \in Issue, Story(i), SameTeam',
         JobReplies(i) \/ \E r \in Run : Replies(r, i),
         Labelled(i)' = Labelled(i), comments'[i] = comments[i] + 1,
         JobPending(i)' => JobPending(i), job'[i].label = job[i].label \/ ~JobPending(i)',
         \A r \in Run : Awaits(r, i)' => Awaits(r, i),
         ~JobReplies(i)', \A r \in Run : ~Replies(r, i)'
  PROVE  Story(i)'
<1>1. Labelled(i) # {} /\ comments[i] = 0
  BY DEF Story, Owed
<1>2. ~JobPending(i) /\ \A r \in Run : ~Awaits(r, i)
  BY <1>1 DEF Story, Fresh
<1>3. Fresh(i)' /\ Quiet(i)' /\ Owed(i)' /\ OneReply(i)'
  BY <1>1, <1>2 DEF Fresh, Quiet, Owed, OneReply
<1>4. Once(i)' /\ Answered(i)' /\ JobFits(i)'
  BY <1>1, <1>2 DEF Story, Once, Answered, JobFits
<1> QED
  BY <1>3, <1>4 DEF Story
-----------------------------------------------------------------------------
(* The steps.                                                              *)

LEMMA InitIInv == Init => IInv
<1> SUFFICES ASSUME Init PROVE IInv
  OBVIOUS
<1>1. TypeOK
  BY TeamAssumption DEF Init, TypeOK, Label
<1>2. \A r \in Run : run[r] = Idle /\ Idle.decisions = {} /\ Idle.step = "idle"
  BY DEF Init, Idle
<1>3. DecidedInv
  BY <1>2 DEF DecidedInv
<1>4. ASSUME NEW i \in Issue
      PROVE  Story(i)
  <2>1. Labelled(i) = {} /\ comments[i] = 0
    BY TeamAssumption DEF Init, Labelled
  <2>2. job[i].step = "none"
    BY DEF Init, NoJob
  <2>3. ~JobReplies(i) /\ ~JobPending(i)
    BY <2>2 DEF JobReplies, JobPending
  <2>4. \A r \in Run : ~Replies(r, i)
    BY <1>2 DEF Replies
  <2>5. SameTeam
    BY <1>2 DEF SameTeam, Init
  <2> QED
    BY <2>1, <2>3, <2>4, <2>5
       DEF Story, Fresh, Quiet, Owed, OneReply, Once, Answered, JobFits
<1> QED
  BY <1>1, <1>3, <1>4 DEF IInv, StoryInv

(* A step of one run that changes nothing else an issue's story is about,  *)
(* and forgets no reply without a fault.                                   *)
LEMMA RunMoved ==
  ASSUME IInv, NEW r \in Run, NEW state \in RunState \cup {Idle}, Goto(r, state),
         state # Idle => \A d \in state.decisions : Squad[state.version].agent[d[2]] # NoMember,
         state # Idle => state.version = version \/ (run[r] # Idle /\ state.version = run[r].version),
         UNCHANGED <<board, job, disturbed>>,
         \A i \in Issue : Awaits(r, i)' => Awaits(r, i) \/ (SameTeam => Labelled(i) = {}),
         \A i \in Issue : ~Replies(r, i)',
         faults' = 0 => faults = 0 /\ \A i \in Issue : ~Replies(r, i)
  PROVE  run' \in [Run -> RunState \cup {Idle}] /\ DecidedInv' /\ StoryInv'
<1>1. /\ run' \in [Run -> RunState \cup {Idle}]
      /\ DecidedInv'
      /\ run'[r] = state
      /\ \A q \in Run \ {r} : run'[q] = run[q]
      /\ \A q \in Run \ {r}, i \in Issue :
            (Awaits(q, i)' <=> Awaits(q, i)) /\ (Replies(q, i)' <=> Replies(q, i))
  BY Moved DEF IInv
<1>2. ASSUME NEW i \in Issue \ disturbed'
      PROVE  Story(i)'
  <2>1. Story(i)
    BY DEF IInv, StoryInv
  <2>2. SameTeam
    BY <2>1 DEF Story
  <2>3. SameTeam'
    BY <1>1, <2>2 DEF SameTeam, board
  <2>4. Labelled(i)' = Labelled(i) /\ comments'[i] = comments[i] /\ job'[i] = job[i]
    BY DEF Labelled, board
  <2>5. \A q \in Run : Awaits(q, i)' => Awaits(q, i) \/ Labelled(i) = {}
    BY <1>1, <2>2
  <2>6. \A q \in Run : Replies(q, i)' => Replies(q, i)
    BY <1>1
  <2>7. faults' = 0 => faults = 0 /\ \A q \in Run : Replies(q, i) => Replies(q, i)'
    BY <1>1
  <2> QED
    BY ONLY i \in Issue, <2>1, <2>3, <2>4, <2>5, <2>6, <2>7, Untouched
<1> QED
  BY <1>1, <1>2 DEF StoryInv

LEMMA StartRunStep ==
  ASSUME IInv, NEW r \in Run, StartRun(r)
  PROVE  IInv'
<1> DEFINE state == [Idle EXCEPT !.step = "fetch", !.page = 1, !.version = version]
<1>1. /\ state \in RunState \cup {Idle}
      /\ state.step = "fetch" /\ state.decisions = {} /\ state.version = version
  BY DEF IInv, TypeOK, RunState, Idle
<1>2. Goto(r, state) /\ UNCHANGED <<board, job, disturbed>> /\ faults' = faults
      /\ events' = events /\ run[r].step = "idle"
  BY DEF StartRun
<1> HIDE DEF state
<1>3. run'[r] = state
  BY <1>1, <1>2, Moved DEF IInv
<1>4. \A i \in Issue : ~Awaits(r, i)' /\ ~Replies(r, i)' /\ ~Replies(r, i)
  BY <1>1, <1>2, <1>3 DEF Awaits, Replies
<1>5. run' \in [Run -> RunState \cup {Idle}] /\ DecidedInv' /\ StoryInv'
  BY <1>1, <1>2, <1>4, RunMoved
<1> QED
  BY <1>2, <1>5 DEF IInv, TypeOK, board

LEMMA FetchPageStep ==
  ASSUME IInv, NEW r \in Run, FetchPage(r)
  PROVE  IInv'
<1> DEFINE page == PageOf(run[r].page)
           found == Decisions(page, Squad[run[r].version])
           decisions == Collected(r, page)
           state == IF Cardinality(page) < PerPage THEN Apply(r, decisions)
                    ELSE [run[r] EXCEPT !.page = @ + 1, !.decisions = decisions]
<1>1. Goto(r, state) /\ UNCHANGED <<board, job, disturbed>> /\ faults' = faults
      /\ events' = events /\ run[r].step = "fetch"
  BY DEF FetchPage
<1>2. run[r] \in RunState /\ run[r] # Idle
  BY <1>1, Busy DEF IInv
<1>3. decisions = run[r].decisions \cup ({run[r].page} \X found)
  BY DEF Collected
<1>4. \A i \in found : i \in Issue /\ IsUntriaged(i, Squad[run[r].version].labels)
                           /\ Squad[run[r].version].agent[i] # NoMember
  BY DEF Decisions, PageOf, Listed, IInv, TypeOK
<1>5. decisions \subseteq Nat \X Issue
  BY <1>2, <1>3, <1>4 DEF RunState
<1>6. /\ state \in RunState \cup {Idle}
      /\ state.step \in {"idle", "label", "fetch"} /\ state.decisions = decisions
      /\ state # Idle => state.version = run[r].version
  <2> HIDE DEF decisions, page
  <2>1. CASE Cardinality(page) < PerPage
    <3>1. state = Apply(r, decisions)
      BY <2>1
    <3> HIDE DEF state
    <3> QED
      BY <1>2, <1>5, <3>1 DEF Apply, Idle, RunState
  <2>2. CASE ~(Cardinality(page) < PerPage)
    <3>1. state = [run[r] EXCEPT !.page = @ + 1, !.decisions = decisions]
      BY <2>2
    <3>2. run[r].page + 1 \in Nat
      BY <1>2 DEF RunState
    <3> HIDE DEF state
    <3> QED
      BY <1>1, <1>2, <1>5, <3>1, <3>2 DEF RunState, Idle
  <2> QED
    BY <2>1, <2>2
<1>7. \A d \in decisions : Squad[run[r].version].agent[d[2]] # NoMember
  BY <1>3, <1>4 DEF IInv, DecidedInv
<1> HIDE DEF state, decisions, found
<1>8. state # Idle => \A d \in state.decisions : Squad[state.version].agent[d[2]] # NoMember
  BY <1>6, <1>7
<1>9. run'[r] = state
  BY <1>1, <1>6, <1>8, Moved DEF IInv
<1>10. ASSUME NEW i \in Issue
       PROVE  /\ Awaits(r, i)' => Awaits(r, i) \/ (SameTeam => Labelled(i) = {})
              /\ ~Replies(r, i)' /\ ~Replies(r, i)
  <2>1. ~Replies(r, i)' /\ ~Replies(r, i)
    BY <1>1, <1>6, <1>9 DEF Replies
  <2>2. ASSUME Awaits(r, i)', SameTeam, ~Awaits(r, i)
        PROVE  Labelled(i) = {}
    <3>1. PICK d \in decisions : d[2] = i
      BY <1>6, <1>9, <2>2 DEF Awaits
    <3>2. d \notin run[r].decisions
      BY <1>1, <2>2, <3>1 DEF Awaits
    <3>3. i \in found
      BY <1>3, <3>1, <3>2
    <3> QED
      BY <1>2, <1>4, <2>2, <3>3 DEF IsUntriaged, Labelled, SameTeam
  <2> QED
    BY <2>1, <2>2
<1>11. run' \in [Run -> RunState \cup {Idle}] /\ DecidedInv' /\ StoryInv'
  BY <1>1, <1>2, <1>6, <1>8, <1>10, RunMoved
<1> QED
  BY <1>1, <1>11 DEF IInv, TypeOK, board

LEMMA AbortRunStep ==
  ASSUME IInv, NEW r \in Run, AbortRun(r)
  PROVE  IInv'
<1>1. Goto(r, Idle) /\ UNCHANGED <<board, job, disturbed>> /\ events' = events
      /\ faults' = faults + 1
  BY DEF AbortRun, Fault
<1>2. faults' \in Nat /\ faults' # 0
  BY <1>1 DEF IInv, TypeOK
<1>3. run'[r] = Idle
  BY <1>1, Moved DEF IInv
<1>4. \A i \in Issue : ~Awaits(r, i)' /\ ~Replies(r, i)'
  BY <1>3 DEF Awaits, Replies, Idle
<1>5. run' \in [Run -> RunState \cup {Idle}] /\ DecidedInv' /\ StoryInv'
  BY <1>1, <1>2, <1>4, RunMoved
<1> QED
  BY <1>1, <1>2, <1>5 DEF IInv, TypeOK, board

LEMMA GiveUpIssueStep ==
  ASSUME IInv, NEW r \in Run, GiveUpIssue(r)
  PROVE  IInv'
<1>1. PICK d \in First(run[r].decisions) : Finish(r, d)
  BY DEF GiveUpIssue
<1>2. run[r].step \in {"label", "comment"} /\ UNCHANGED <<board, job, disturbed>>
      /\ events' = events /\ faults' = faults + 1
  BY DEF GiveUpIssue, Fault
<1>3. faults' \in Nat /\ faults' # 0
  BY <1>2 DEF IInv, TypeOK
<1>4. TypeOK /\ DecidedInv
  BY DEF IInv
<1>5. /\ run' \in [Run -> RunState \cup {Idle}]
      /\ DecidedInv'
      /\ SameTeam /\ version' = version => SameTeam'
      /\ \A q \in Run, i \in Issue :
            /\ Awaits(q, i)' => Awaits(q, i)
            /\ Replies(q, i)' <=> q # r /\ Replies(q, i)
  BY ONLY <1>1, <1>2, <1>4, Finishing, r \in Run
<1>6. ASSUME NEW i \in Issue \ disturbed'
      PROVE  Story(i)'
  <2>1. Story(i)
    BY <1>2 DEF IInv, StoryInv
  <2>2. SameTeam'
    BY <1>2, <1>5, <2>1 DEF Story, board
  <2>3. Labelled(i)' = Labelled(i) /\ comments'[i] = comments[i] /\ job'[i] = job[i]
    BY <1>2 DEF Labelled, board
  <2>4. \A q \in Run : Awaits(q, i)' => Awaits(q, i) \/ Labelled(i) = {}
    BY <1>5
  <2>5. \A q \in Run : Replies(q, i)' => Replies(q, i)
    BY <1>5
  <2> QED
    BY ONLY i \in Issue, <1>3, <2>1, <2>2, <2>3, <2>4, <2>5, Untouched
<1> QED
  BY <1>2, <1>3, <1>5, <1>6 DEF IInv, TypeOK, StoryInv, board
LEMMA AddLabelStep ==
  ASSUME IInv, NEW r \in Run, AddLabel(r)
  PROVE  IInv'
<1> DEFINE state == [run[r] EXCEPT !.step = "comment"]
<1>1. PICK d \in First(run[r].decisions) :
         /\ PutLabel(d[2], AgentLabel(r, d[2]))
         /\ disturbed' = disturbed \cup {i \in {d[2]} : Contended(r, d)}
  BY DEF AddLabel
<1>2. run[r].step = "label" /\ Goto(r, state) /\ UNCHANGED <<version, open, comments, job>>
      /\ events' = events /\ faults' = faults
  BY DEF AddLabel
<1>3. run[r] \in RunState /\ run[r] # Idle
  BY <1>2, Busy DEF IInv
<1>4. d \in run[r].decisions /\ d[2] \in Issue
  BY OneFirst DEF IInv
<1>5. /\ state \in RunState /\ state.step = "comment"
      /\ state.decisions = run[r].decisions /\ state.version = run[r].version
  BY <1>3 DEF RunState
<1> DEFINE label == AgentLabel(r, d[2])
           v == run[r].version
<1>6. v \in Version /\ Squad[v].agent[d[2]] # NoMember
  BY <1>3, <1>4 DEF RunState, IInv, DecidedInv
<1>7. label \in Squad[v].labels /\ label \in Label
  BY <1>4, <1>6, MemberLabel DEF AgentLabel, IInv
<1> HIDE DEF state, label
<1>8. /\ labels' \in [Issue -> SUBSET Label]
      /\ \A i \in Issue : Labelled(i)' =
            IF i = d[2] THEN Labelled(i) \cup ({label} \cap Squad[version].labels)
                        ELSE Labelled(i)
  <2>1. TypeOK /\ PutLabel(d[2], label) /\ version' = version
    BY <1>1, <1>2 DEF IInv, label
  <2> QED
    BY ONLY <1>4, <1>7, <2>1, Put
<1>9. \A e \in state.decisions : Squad[state.version].agent[e[2]] # NoMember
  BY <1>5 DEF IInv, DecidedInv
<1>10. /\ run' \in [Run -> RunState \cup {Idle}]
       /\ DecidedInv'
       /\ run'[r] = state
       /\ \A q \in Run \ {r} : run'[q] = run[q]
       /\ \A q \in Run \ {r}, i \in Issue :
             (Awaits(q, i)' <=> Awaits(q, i)) /\ (Replies(q, i)' <=> Replies(q, i))
  BY <1>2, <1>5, <1>9, Moved DEF IInv
<1>11. \A i \in Issue : Awaits(r, i)' => Awaits(r, i)
  BY <1>2, <1>5, <1>10 DEF Awaits
<1>12. \A i \in Issue : ~Replies(r, i) /\ (Replies(r, i)' <=> i = d[2])
  <2>1. \A e \in First(run[r].decisions) : e = d
    BY OneFirst DEF IInv
  <2> QED
    BY <1>2, <1>5, <1>10, <2>1 DEF Replies
<1>13. ASSUME NEW i \in Issue \ disturbed'
       PROVE  Story(i)'
  <2>1. Story(i) /\ i \in Issue
    BY <1>1 DEF IInv, StoryInv
  <2>2. SameTeam
    BY <2>1 DEF Story
  <2>3. SameTeam'
    BY <1>2, <1>3, <1>5, <1>10, <2>2 DEF SameTeam
  <2>4. comments'[i] = comments[i] /\ job'[i] = job[i]
    BY <1>2
  <2>5. CASE i # d[2]
    <3>1. Labelled(i)' = Labelled(i)
      BY <1>8, <2>5
    <3>2. \A q \in Run : Awaits(q, i)' => Awaits(q, i) \/ Labelled(i) = {}
      BY <1>10, <1>11
    <3>3. \A q \in Run : Replies(q, i)' => Replies(q, i)
      BY <1>10, <1>12, <2>5
    <3>4. faults' = 0 => faults = 0 /\ \A q \in Run : Replies(q, i) => Replies(q, i)'
      BY <1>2, <1>10, <1>12
    <3> QED
      BY ONLY <2>1, <2>3, <2>4, <3>1, <3>2, <3>3, <3>4, Untouched
  <2>6. CASE i = d[2]
    <3>1. /\ Deciding(i) = {r} /\ ~JobPending(i)
          /\ \A e \in run[r].decisions : e[2] = i => e = d
      BY <1>1, <2>6 DEF Contended
    <3>2. Awaits(r, i)
      BY <1>2, <1>4, <2>6 DEF Awaits
    <3>3. Labelled(i) = {}
      BY <2>1, <3>2 DEF Story, Fresh
    <3>4. Labelled(i)' = {label}
      <4>1. v = version
        BY <1>3, <2>2 DEF SameTeam
      <4> QED
        BY <1>7, <1>8, <2>6, <3>3, <4>1
    <3>5. ~JobPending(i)'
      BY <2>4, <3>1 DEF JobPending
    <3>6. \A q \in Run : ~Awaits(q, i)'
      <4>1. \A q \in Run : Awaits(q, i) => q = r
        BY <3>1 DEF Awaits, Deciding
      <4>2. ~Awaits(r, i)'
        BY <1>4, <1>5, <1>10, <3>1 DEF Awaits
      <4> QED
        BY <1>10, <4>1, <4>2
    <3>7. \A q \in Run : Replies(q, i)' => q = r
      <4>1. \A q \in Run : Replies(q, i) => q = r
        BY <3>1 DEF Replies, Deciding, First
      <4> QED
        BY <1>10, <4>1
    <3>8. ~JobReplies(i)'
      BY <2>1, <2>4, <3>3 DEF Story, Owed, JobReplies
    <3>9. JobReplies(i)' \/ \E q \in Run : Replies(q, i)'
      BY <1>12, <2>6
    <3>10. \A q \in Run : Replies(q, i)' => ~JobReplies(i)' /\ \A p \in Run : Replies(p, i)' => p = q
      BY <3>7, <3>8
    <3>11. faults' = faults
      BY <1>2
    <3> QED
      BY ONLY <2>1, <2>3, <2>4, <3>3, <3>4, <3>5, <3>6, <3>9, <3>10, <3>11, FirstLabel
  <2> QED
    BY <2>5, <2>6
<1>14. disturbed' \subseteq Issue
  BY <1>1, <1>4 DEF IInv, TypeOK
<1> QED
  BY <1>2, <1>8, <1>10, <1>13, <1>14 DEF IInv, TypeOK, StoryInv

LEMMA CreateCommentStep ==
  ASSUME IInv, NEW r \in Run, CreateComment(r)
  PROVE  IInv'
<1>1. PICK d \in First(run[r].decisions) : PutComment(d[2]) /\ Finish(r, d)
  BY DEF CreateComment
<1>2. run[r].step = "comment" /\ UNCHANGED <<version, open, labels, job, disturbed>>
      /\ events' = events /\ faults' = faults
  BY DEF CreateComment
<1>3. TypeOK /\ DecidedInv /\ run[r].step \in {"label", "comment"}
  BY <1>2 DEF IInv
<1>4. /\ run' \in [Run -> RunState \cup {Idle}]
      /\ DecidedInv'
      /\ SameTeam /\ version' = version => SameTeam'
      /\ \A q \in Run, i \in Issue :
            /\ Awaits(q, i)' => Awaits(q, i)
            /\ Replies(q, i)' <=> q # r /\ Replies(q, i)
  BY ONLY <1>1, <1>3, Finishing, r \in Run
<1>5. d[2] \in Issue /\ \A e \in First(run[r].decisions) : e = d
  BY <1>3, OneFirst
<1>6. comments' = [comments EXCEPT ![d[2]] = @ + 1]
  BY <1>1 DEF PutComment
<1>7. comments' \in [Issue -> Nat]
  BY <1>3, <1>5, <1>6 DEF TypeOK
<1>8. ASSUME NEW i \in Issue \ disturbed'
      PROVE  Story(i)'
  <2>1. Story(i) /\ i \in Issue /\ TypeOK
    BY <1>2, <1>3 DEF IInv, StoryInv
  <2>2. SameTeam'
    BY <1>2, <1>4, <2>1 DEF Story
  <2>3. Labelled(i)' = Labelled(i) /\ job'[i] = job[i]
    BY <1>2 DEF Labelled
  <2>4. CASE i # d[2]
    <3>1. comments'[i] = comments[i]
      BY <1>3, <1>6, <2>4 DEF TypeOK
    <3>2. \A q \in Run : Awaits(q, i)' => Awaits(q, i) \/ Labelled(i) = {}
      BY <1>4
    <3>3. \A q \in Run : Replies(q, i)' => Replies(q, i)
      BY <1>4
    <3>4. faults' = 0 => faults = 0 /\ \A q \in Run : Replies(q, i) => Replies(q, i)'
      <4>1. ~Replies(r, i)
        BY <1>5, <2>4 DEF Replies
      <4> QED
        BY <1>2, <1>4, <4>1
    <3> QED
      BY ONLY <2>1, <2>2, <2>3, <3>1, <3>2, <3>3, <3>4, Untouched
  <2>5. CASE i = d[2]
    <3>1. Replies(r, i)
      BY <1>2, <2>5 DEF Replies
    <3>2. comments'[i] = comments[i] + 1
      BY <1>3, <1>5, <1>6, <2>5 DEF TypeOK
    <3>3. ~JobReplies(i)'
      BY <2>1, <2>3, <3>1 DEF Story, OneReply, JobReplies
    <3>4. \A q \in Run : ~Replies(q, i)'
      BY <1>4, <2>1, <3>1 DEF Story, OneReply
    <3>5. JobPending(i)' => JobPending(i)
      BY <2>3 DEF JobPending
    <3>6. job'[i].label = job[i].label \/ ~JobPending(i)'
      BY <2>3
    <3>7. \A q \in Run : Awaits(q, i)' => Awaits(q, i)
      BY <1>4
    <3>8. JobReplies(i) \/ \E q \in Run : Replies(q, i)
      BY <3>1
    <3> QED
      BY ONLY <2>1, <2>2, <2>3, <3>2, <3>3, <3>4, <3>5, <3>6, <3>7, <3>8, Comment
  <2> QED
    BY <2>4, <2>5
<1> QED
  BY <1>2, <1>4, <1>7, <1>8 DEF IInv, TypeOK, StoryInv
(* Steps that leave the runs alone: what the runs await and owe stays.     *)
LEMMA RunsStay ==
  ASSUME IInv, run' = run, version' = version
  PROVE  /\ DecidedInv'
         /\ SameTeam' <=> SameTeam
         /\ \A q \in Run, i \in Issue :
               (Awaits(q, i)' <=> Awaits(q, i)) /\ (Replies(q, i)' <=> Replies(q, i))
         /\ \A i \in Issue : Deciding(i)' = Deciding(i)
<1>1. DecidedInv'
  BY DEF IInv, DecidedInv
<1>2. SameTeam' <=> SameTeam
  BY DEF SameTeam
<1>3. \A q \in Run, i \in Issue :
         (Awaits(q, i)' <=> Awaits(q, i)) /\ (Replies(q, i)' <=> Replies(q, i))
  BY DEF Awaits, Replies
<1>4. \A i \in Issue : Deciding(i)' = Deciding(i)
  BY DEF Deciding
<1> QED
  BY <1>1, <1>2, <1>3, <1>4

(* ... and the story of every issue they leave alone too.                  *)
LEMMA Elsewhere ==
  ASSUME IInv, run' = run, version' = version, faults' = 0 => faults = 0,
         NEW i \in Issue \ disturbed, Labelled(i)' = Labelled(i),
         comments'[i] = comments[i], job'[i] = job[i]
  PROVE  Story(i)'
<1>1. Story(i) /\ i \in Issue
  BY DEF IInv, StoryInv
<1>2. SameTeam'
  BY <1>1, RunsStay DEF Story
<1>3. \A q \in Run : Awaits(q, i)' => Awaits(q, i) \/ Labelled(i) = {}
  BY RunsStay
<1>4. \A q \in Run : Replies(q, i)' => Replies(q, i)
  BY RunsStay
<1>5. faults' = 0 => faults = 0 /\ \A q \in Run : Replies(q, i) => Replies(q, i)'
  BY RunsStay
<1>6. Labelled(i)' = Labelled(i) /\ comments'[i] = comments[i] /\ job'[i] = job[i]
  OBVIOUS
<1> QED
  BY ONLY <1>1, <1>2, <1>3, <1>4, <1>5, <1>6, Untouched

(* A job that is under way.                                                *)
LEMMA UnderWay ==
  ASSUME TypeOK, NEW x \in Issue
  PROVE  /\ NoJob.step = "none"
         /\ job[x].step # "none" =>
               /\ job[x] \in [step : {"queued", "labelled", "judged"}, label : Label]
               /\ job[x].label \in Label
<1>1. NoJob.step = "none"
  BY DEF NoJob
<1>2. job[x] \in {NoJob} \cup [step : {"queued", "labelled", "judged"}, label : Label]
  BY DEF TypeOK
<1>3. ASSUME job[x] \in [step : {"queued", "labelled", "judged"}, label : Label]
      PROVE  job[x].label \in Label
  BY <1>3
<1> QED
  BY <1>1, <1>2, <1>3

LEMMA JobLabelStep ==
  ASSUME IInv, NEW x \in Issue, JobLabel(x)
  PROVE  IInv'
<1> DEFINE label == job[x].label
<1>1. /\ JobPending(x) /\ PutLabel(x, label)
      /\ job' = [job EXCEPT ![x].step = "labelled"]
      /\ disturbed' = disturbed \cup {n \in {x} : Deciding(n) # {}}
      /\ UNCHANGED <<version, open, comments, run, events, faults>>
  BY DEF JobLabel, JobPending
<1>2. TypeOK
  BY DEF IInv
<1>3. /\ job[x] \in [step : {"queued", "labelled", "judged"}, label : Label]
      /\ label \in Label
  BY <1>1, <1>2, UnderWay DEF JobPending
<1>4. /\ job'[x].step = "labelled"
      /\ \A i \in Issue \ {x} : job'[i] = job[i]
      /\ job' \in [Issue -> {NoJob} \cup [step : {"queued", "labelled", "judged"}, label : Label]]
  BY <1>1, <1>2, <1>3 DEF TypeOK
<1> HIDE DEF label
<1>5. /\ labels' \in [Issue -> SUBSET Label]
      /\ \A i \in Issue : Labelled(i)' =
            IF i = x THEN Labelled(i) \cup ({label} \cap Squad[version].labels)
                     ELSE Labelled(i)
  BY <1>1, <1>2, <1>3, Put
<1>6. ASSUME NEW i \in Issue \ disturbed', i # x
      PROVE  Story(i)'
  BY <1>1, <1>4, <1>5, <1>6, Elsewhere
<1>7. ASSUME x \notin disturbed'
      PROVE  Story(x)'
  <2>1. Story(x) /\ x \in Issue
    BY <1>1, <1>7 DEF IInv, StoryInv
  <2>2. SameTeam'
    BY <1>1, <2>1, RunsStay DEF Story
  <2>3. Labelled(x) = {}
    BY <1>1, <2>1 DEF Story, Fresh
  <2>4. Labelled(x)' = {label}
    <3>1. label \in Squad[version].labels
      BY <1>1, <2>1 DEF Story, JobFits, label
    <3> QED
      BY <1>5, <2>3, <3>1
  <2>5. comments'[x] = comments[x] /\ faults' = faults
    BY <1>1
  <2>6. Deciding(x)' = {}
    BY <1>1, <1>7, RunsStay
  <2>7. ~JobPending(x)' /\ JobReplies(x)'
    BY <1>4 DEF JobPending, JobReplies
  <2>8. \A q \in Run : ~Awaits(q, x)' /\ ~Replies(q, x)'
    BY <2>6 DEF Deciding, Awaits, Replies, First
  <2>9. /\ ~JobPending(x)'
        /\ \A q \in Run : ~Awaits(q, x)'
        /\ JobReplies(x)' \/ \E q \in Run : Replies(q, x)'
    BY <2>7, <2>8
  <2>10. \A q \in Run : Replies(q, x)' => ~JobReplies(x)' /\ \A p \in Run : Replies(p, x)' => p = q
    BY <2>8
  <2> QED
    BY ONLY <2>1, <2>2, <2>3, <2>4, <2>5, <2>9, <2>10, FirstLabel
<1>8. DecidedInv'
  BY <1>1, RunsStay
<1> QED
  BY <1>1, <1>2, <1>4, <1>5, <1>6, <1>7, <1>8 DEF IInv, TypeOK, StoryInv

LEMMA JobVerdictStep ==
  ASSUME IInv, NEW x \in Issue, JobVerdict(x)
  PROVE  IInv'
<1>1. /\ job[x].step = "labelled"
      /\ job' = [job EXCEPT ![x].step = "judged"]
      /\ UNCHANGED <<version, open, labels, comments, run, events, faults, disturbed>>
  BY DEF JobVerdict, board
<1>2. TypeOK
  BY DEF IInv
<1>3. job[x] \in [step : {"queued", "labelled", "judged"}, label : Label]
  BY <1>1, <1>2, UnderWay
<1>4. /\ job'[x].step = "judged"
      /\ \A i \in Issue \ {x} : job'[i] = job[i]
      /\ job' \in [Issue -> {NoJob} \cup [step : {"queued", "labelled", "judged"}, label : Label]]
  BY <1>1, <1>2, <1>3 DEF TypeOK
<1>5. \A i \in Issue : Labelled(i)' = Labelled(i)
  BY <1>1 DEF Labelled
<1>6. ASSUME NEW i \in Issue \ disturbed', i # x
      PROVE  Story(i)'
  BY <1>1, <1>4, <1>5, <1>6, Elsewhere
<1>7. ASSUME x \notin disturbed'
      PROVE  Story(x)'
  <2>1. Story(x)
    BY <1>1, <1>7 DEF IInv, StoryInv
  <2>2. JobReplies(x) /\ JobReplies(x)' /\ ~JobPending(x)' /\ ~JobPending(x)
    BY <1>1, <1>4 DEF JobPending, JobReplies
  <2>3. SameTeam' /\ \A q \in Run : (Awaits(q, x)' <=> Awaits(q, x)) /\ (Replies(q, x)' <=> Replies(q, x))
    BY <1>1, <2>1, RunsStay DEF Story
  <2>4. Labelled(x)' = Labelled(x) /\ comments'[x] = comments[x] /\ faults' = faults
    BY <1>1, <1>5
  <2> QED
    BY <2>1, <2>2, <2>3, <2>4
       DEF Story, Fresh, Quiet, Owed, OneReply, Once, Answered, JobFits
<1>8. DecidedInv'
  BY <1>1, RunsStay
<1> QED
  BY <1>1, <1>2, <1>4, <1>6, <1>7, <1>8 DEF IInv, TypeOK, StoryInv

LEMMA JobCommentStep ==
  ASSUME IInv, NEW x \in Issue, JobComment(x)
  PROVE  IInv'
<1>1. /\ JobReplies(x)
      /\ comments' = [comments EXCEPT ![x] = @ + 1]
      /\ job' = [job EXCEPT ![x] = NoJob]
      /\ UNCHANGED <<version, open, labels, run, events, faults, disturbed>>
  BY DEF JobComment, PutComment, JobReplies
<1>2. TypeOK
  BY DEF IInv
<1>3. /\ job'[x] = NoJob /\ comments'[x] = comments[x] + 1
      /\ \A i \in Issue \ {x} : job'[i] = job[i] /\ comments'[i] = comments[i]
      /\ comments' \in [Issue -> Nat]
      /\ job' \in [Issue -> {NoJob} \cup [step : {"queued", "labelled", "judged"}, label : Label]]
  BY <1>1, <1>2 DEF TypeOK
<1>4. \A i \in Issue : Labelled(i)' = Labelled(i)
  BY <1>1 DEF Labelled
<1>5. ASSUME NEW i \in Issue \ disturbed', i # x
      PROVE  Story(i)'
  BY <1>1, <1>3, <1>4, <1>5, Elsewhere
<1>6. ASSUME x \notin disturbed'
      PROVE  Story(x)'
  <2>1. Story(x) /\ x \in Issue
    BY <1>1, <1>6 DEF IInv, StoryInv
  <2>2. SameTeam' /\ \A q \in Run : (Awaits(q, x)' <=> Awaits(q, x)) /\ (Replies(q, x)' <=> Replies(q, x))
    BY <1>1, <2>1, RunsStay DEF Story
  <2>3. ~JobPending(x)' /\ ~JobReplies(x)'
    BY <1>2, <1>3, UnderWay DEF JobPending, JobReplies
  <2>4. \A q \in Run : ~Replies(q, x)'
    BY <1>1, <2>1, <2>2 DEF Story, OneReply
  <2>5. Labelled(x)' = Labelled(x) /\ comments'[x] = comments[x] + 1
    BY <1>3, <1>4
  <2>6. JobReplies(x) \/ \E q \in Run : Replies(q, x)
    BY <1>1
  <2>7. JobPending(x)' => JobPending(x)
    BY <2>3
  <2>8. job'[x].label = job[x].label \/ ~JobPending(x)'
    BY <2>3
  <2>9. \A q \in Run : Awaits(q, x)' => Awaits(q, x)
    BY <2>2
  <2>10. SameTeam' /\ ~JobReplies(x)'
    BY <2>2, <2>3
  <2> QED
    BY ONLY <1>2, <2>1, <2>4, <2>5, <2>6, <2>7, <2>8, <2>9, <2>10, Comment
<1>7. DecidedInv'
  BY <1>1, RunsStay
<1> QED
  BY <1>1, <1>2, <1>3, <1>5, <1>6, <1>7 DEF IInv, TypeOK, StoryInv

LEMMA AbortJobStep ==
  ASSUME IInv, NEW x \in Issue, AbortJob(x)
  PROVE  IInv'
<1>1. /\ faults' = faults + 1
      /\ job' = [job EXCEPT ![x] = NoJob]
      /\ UNCHANGED <<version, open, labels, comments, run, events, disturbed>>
  BY DEF AbortJob, Fault, board
<1>2. TypeOK
  BY DEF IInv
<1>3. /\ faults' \in Nat /\ faults' # 0 /\ job'[x] = NoJob
      /\ \A i \in Issue \ {x} : job'[i] = job[i]
      /\ job' \in [Issue -> {NoJob} \cup [step : {"queued", "labelled", "judged"}, label : Label]]
  BY <1>1, <1>2 DEF TypeOK
<1>4. \A i \in Issue : Labelled(i)' = Labelled(i)
  BY <1>1 DEF Labelled
<1>5. ASSUME NEW i \in Issue \ disturbed', i # x
      PROVE  Story(i)'
  BY <1>1, <1>3, <1>4, <1>5, Elsewhere
<1>6. ASSUME x \notin disturbed'
      PROVE  Story(x)'
  <2>1. Story(x)
    BY <1>1, <1>6 DEF IInv, StoryInv
  <2>2. SameTeam' /\ \A q \in Run : (Awaits(q, x)' <=> Awaits(q, x)) /\ (Replies(q, x)' <=> Replies(q, x))
    BY <1>1, <2>1, RunsStay DEF Story
  <2>3. ~JobPending(x)' /\ ~JobReplies(x)'
    BY <1>2, <1>3, UnderWay DEF JobPending, JobReplies
  <2>4. Labelled(x)' = Labelled(x) /\ comments'[x] = comments[x] /\ faults' # 0
    BY <1>1, <1>3, <1>4
  <2> QED
    BY <2>1, <2>2, <2>3, <2>4
       DEF Story, Fresh, Quiet, Owed, OneReply, Once, Answered, JobFits
<1>7. DecidedInv'
  BY <1>1, RunsStay
<1> QED
  BY <1>1, <1>2, <1>3, <1>5, <1>6, <1>7 DEF IInv, TypeOK, StoryInv
LEMMA AddSquadStep ==
  ASSUME IInv, NEW x \in Issue, AddSquad(x)
  PROVE  IInv'
<1> DEFINE member == Squad[version].lead[x]
<1>1. /\ events' = events + 1 /\ job[x] = NoJob /\ PutLabel(x, "squad")
      /\ disturbed' = disturbed \cup {n \in {x} : Labelled(n) # {}}
      /\ UNCHANGED <<version, open, comments, run, faults>>
  BY DEF AddSquad, Event
<1>2. job' = job \/ (member # NoMember /\ job' = [job EXCEPT ![x] = [step |-> "queued", label |-> member.label]])
  BY DEF AddSquad
<1>3. TypeOK /\ version \in Version
  BY DEF IInv, TypeOK
<1>4. member # NoMember => member.label \in Squad[version].labels /\ member.label \in Label
  BY <1>3, MemberLabel
<1> HIDE DEF member
<1>5. /\ job' \in [Issue -> {NoJob} \cup [step : {"queued", "labelled", "judged"}, label : Label]]
      /\ \A i \in Issue \ {x} : job'[i] = job[i]
      /\ job' = job \/ (job'[x].step = "queued" /\ job'[x].label \in Squad[version].labels)
  <2>1. CASE job' = job
    BY <1>3, <2>1 DEF TypeOK
  <2>2. CASE member # NoMember /\ job' = [job EXCEPT ![x] = [step |-> "queued", label |-> member.label]]
    BY <1>3, <1>4, <2>2 DEF TypeOK
  <2> QED
    BY <1>2, <2>1, <2>2
<1>6. "squad" \in Label /\ "squad" \notin Squad[version].labels
  BY <1>3, TeamAssumption DEF Label
<1>7. labels' \in [Issue -> SUBSET Label] /\ \A i \in Issue : Labelled(i)' = Labelled(i)
  <2>1. version' = version /\ PutLabel(x, "squad") /\ "squad" \in Label
    BY <1>1, <1>6
  <2>2. /\ labels' \in [Issue -> SUBSET Label]
        /\ \A i \in Issue : Labelled(i)' =
              IF i = x THEN Labelled(i) \cup ({"squad"} \cap Squad[version].labels)
                       ELSE Labelled(i)
    BY ONLY <1>3, <2>1, x \in Issue, Put
  <2> QED
    BY <1>6, <2>2
<1>8. ASSUME NEW i \in Issue \ disturbed', i # x \/ job' = job
      PROVE  Story(i)'
  BY <1>1, <1>5, <1>7, <1>8, Elsewhere
<1>9. ASSUME x \notin disturbed', job' # job
      PROVE  Story(x)'
  <2>1. Story(x) /\ Labelled(x) = {}
    BY <1>1, <1>9 DEF IInv, StoryInv
  <2>2. SameTeam' /\ \A q \in Run : (Awaits(q, x)' <=> Awaits(q, x)) /\ (Replies(q, x)' <=> Replies(q, x))
    BY <1>1, <2>1, RunsStay DEF Story
  <2>3. Labelled(x)' = {} /\ comments'[x] = comments[x] /\ ~JobReplies(x)'
    BY <1>1, <1>5, <1>7, <1>9, <2>1 DEF JobReplies
  <2>4. job'[x].label \in Squad[version]'.labels
    BY <1>1, <1>5, <1>9
  <2> QED
    BY <2>1, <2>2, <2>3, <2>4
       DEF Story, Fresh, Quiet, Owed, OneReply, Once, Answered, JobFits
<1>10. DecidedInv'
  BY <1>1, RunsStay
<1>11. StoryInv'
  BY <1>8, <1>9 DEF StoryInv
<1> QED
  BY <1>1, <1>3, <1>5, <1>7, <1>10, <1>11 DEF IInv, TypeOK

(* What people do to the labels of one issue disturbs it, unless its       *)
(* members stay.                                                           *)
LEMMA Relabelled ==
  ASSUME IInv, NEW x \in Issue, NEW new \in SUBSET Label, labels' = [labels EXCEPT ![x] = new],
         events' = events + 1, UNCHANGED <<version, open, comments, run, job, faults>>,
         disturbed \subseteq disturbed' /\ disturbed' \subseteq Issue,
         x \in disturbed' \/ Labelled(x)' = Labelled(x)
  PROVE  IInv'
<1>1. TypeOK'
  BY DEF IInv, TypeOK
<1>2. DecidedInv'
  BY RunsStay
<1>3. ASSUME NEW i \in Issue \ disturbed'
      PROVE  Story(i)'
  <2>1. Labelled(i)' = Labelled(i)
    BY DEF IInv, TypeOK, Labelled
  <2> QED
    BY <2>1, Elsewhere
<1> QED
  BY <1>1, <1>2, <1>3 DEF IInv, StoryInv

LEMMA AssignMemberStep ==
  ASSUME IInv, NEW x \in Issue, AssignMember(x)
  PROVE  IInv'
<1>1. PICK label \in Squad[version].labels : labels' = [labels EXCEPT ![x] = @ \cup {label}]
  BY DEF AssignMember, PutLabel
<1>2. /\ events' = events + 1 /\ UNCHANGED <<version, open, comments, run, job, faults>>
      /\ disturbed' = disturbed \cup {x}
  BY DEF AssignMember, Event
<1>3. labels[x] \cup {label} \in SUBSET Label /\ disturbed' \subseteq Issue
  BY <1>2 DEF IInv, TypeOK, Label
<1> QED
  BY <1>1, <1>2, <1>3, Relabelled

LEMMA RemoveLabelStep ==
  ASSUME IInv, NEW x \in Issue, RemoveLabel(x)
  PROVE  IInv'
<1>1. PICK label \in labels[x] :
         /\ labels' = [labels EXCEPT ![x] = @ \ {label}]
         /\ disturbed' = disturbed \cup {n \in {x} : label # "squad"}
  BY DEF RemoveLabel
<1>2. events' = events + 1 /\ UNCHANGED <<version, open, comments, run, job, faults>>
  BY DEF RemoveLabel, Event
<1>3. labels[x] \ {label} \in SUBSET Label /\ disturbed' \subseteq Issue
  BY <1>1 DEF IInv, TypeOK
<1>4. x \in disturbed' \/ Labelled(x)' = Labelled(x)
  <2>1. "squad" \notin Squad[version].labels
    BY TeamAssumption DEF IInv, TypeOK
  <2>2. labels'[x] = labels[x] \ {label}
    BY <1>1 DEF IInv, TypeOK
  <2> QED
    BY <1>1, <1>2, <2>1, <2>2 DEF Labelled
<1> QED
  BY <1>1, <1>2, <1>3, <1>4, Relabelled

LEMMA CloseOrReopenStep ==
  ASSUME IInv, NEW x \in Issue, CloseOrReopen(x)
  PROVE  IInv'
<1>1. /\ events' = events + 1
      /\ open' = IF x \in open THEN open \ {x} ELSE open \cup {x}
      /\ UNCHANGED <<version, labels, comments, run, job, faults, disturbed>>
  BY DEF CloseOrReopen, Event
<1>2. TypeOK'
  BY <1>1 DEF IInv, TypeOK
<1>3. \A i \in Issue \ disturbed' : Story(i)'
  BY <1>1, Elsewhere DEF Labelled
<1>4. DecidedInv'
  BY <1>1, RunsStay
<1> QED
  BY <1>2, <1>3, <1>4 DEF IInv, StoryInv

LEMMA EditTeamStep ==
  ASSUME IInv, EditTeam
  PROVE  IInv'
<1>1. /\ events' = events + 1 /\ version' \in Version /\ disturbed' = Issue
      /\ UNCHANGED <<open, labels, comments, run, job, faults>>
  BY DEF EditTeam, Event
<1>2. TypeOK'
  BY <1>1 DEF IInv, TypeOK
<1>3. DecidedInv'
  BY <1>1 DEF IInv, DecidedInv
<1> QED
  BY <1>1, <1>2, <1>3 DEF IInv, StoryInv

LEMMA NextIInv == IInv /\ [Next]_vars => IInv'
<1> SUFFICES ASSUME IInv, [Next]_vars PROVE IInv'
  OBVIOUS
<1>1. ASSUME NEW r \in Run, RunStep(r) \/ GiveUpIssue(r) \/ AbortRun(r)
      PROVE  IInv'
  BY <1>1, StartRunStep, FetchPageStep, AddLabelStep, CreateCommentStep,
     GiveUpIssueStep, AbortRunStep DEF RunStep
<1>2. ASSUME NEW i \in Issue, JobStep(i) \/ AbortJob(i)
      PROVE  IInv'
  BY <1>2, JobLabelStep, JobVerdictStep, JobCommentStep, AbortJobStep DEF JobStep
<1>3. ASSUME NEW i \in Issue, People(i)
      PROVE  IInv'
  BY <1>3, AddSquadStep, AssignMemberStep, RemoveLabelStep, CloseOrReopenStep DEF People
<1>4. CASE EditTeam
  BY <1>4, EditTeamStep
<1>5. CASE UNCHANGED vars
  <2>1. TypeOK'
    BY <1>5 DEF vars, IInv, TypeOK
  <2>2. \A i \in Issue \ disturbed' : Story(i)'
    BY <1>5, Elsewhere DEF vars, Labelled
  <2>3. DecidedInv'
    BY <1>5, RunsStay DEF vars
  <2> QED
    BY <2>1, <2>2, <2>3 DEF IInv, StoryInv
<1> QED
  BY <1>1, <1>2, <1>3, <1>4, <1>5 DEF Next

LEMMA Holds == Spec => []IInv
  BY InitIInv, NextIInv, PTL DEF Spec

(* Runs, jobs and labels keep to their types, whatever becomes of the team *)
(* while runs and jobs are under way.                                      *)
THEOREM TypeCorrect == Spec => []TypeOK
<1>1. IInv => TypeOK
  BY DEF IInv
<1> QED
  BY <1>1, Holds, PTL

-----------------------------------------------------------------------------
(* An undisturbed issue has one member and one comment, however the pages  *)
(* of overlapping runs shift: who labels it decided before anybody had and  *)
(* nobody else was to.                                                     *)
THEOREM Triaging == Spec => []TriagedOnce
<1>1. ASSUME IInv, NEW i \in Issue \ disturbed
      PROVE  Cardinality(Labelled(i)) <= 1 /\ comments[i] <= 1
  <2>1. Once(i)
    BY <1>1 DEF IInv, StoryInv, Story
  <2>2. CASE Labelled(i) = {}
    <3>1. Cardinality(Labelled(i)) = 0
      BY <2>2, FS_EmptySet
    <3> QED
      BY <2>1, <3>1 DEF Once
  <2>3. CASE Labelled(i) # {}
    <3>1. PICK label : Labelled(i) = {label}
      BY <2>1, <2>3 DEF Once
    <3>2. Cardinality(Labelled(i)) = 1
      BY <3>1, FS_Singleton
    <3> QED
      BY <2>1, <3>2 DEF Once
  <2> QED
    BY <2>2, <2>3
<1>2. IInv => TriagedOnce
  BY <1>1 DEF TriagedOnce
<1> QED
  BY <1>2, Holds, PTL

(* A comment stands on an undisturbed issue that has its member, and a     *)
(* member nobody is at work for has its comment unless a call failed.      *)
THEOREM Whole == Spec => []TriageIsWhole
<1>1. ASSUME IInv, NEW i \in Issue \ disturbed
      PROVE  /\ comments[i] > 0 => Labelled(i) # {}
             /\ Labelled(i) # {} /\ ~AtWork(i) /\ faults = 0 => comments[i] > 0
  <2>1. Quiet(i) /\ Answered(i)
    BY <1>1 DEF IInv, StoryInv, Story
  <2>2. comments[i] > 0 => Labelled(i) # {}
    BY <2>1 DEF Quiet
  <2>3. JobReplies(i) => job[i] # NoJob
    BY <1>1, UnderWay DEF JobReplies, IInv
  <2>4. \A r \in Run : Replies(r, i) => Deciding(i) # {}
    BY DEF Replies, Deciding, First
  <2>5. ~AtWork(i) => ~JobReplies(i) /\ \A r \in Run : ~Replies(r, i)
    BY <2>3, <2>4 DEF AtWork
  <2> QED
    BY <2>1, <2>2, <2>5 DEF Answered
<1>2. IInv => TriageIsWhole
  BY <1>1 DEF TriageIsWhole
<1> QED
  BY <1>2, Holds, PTL
=============================================================================
