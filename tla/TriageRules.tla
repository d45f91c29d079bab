---------------------------- MODULE TriageRules ----------------------------
(***************************************************************************)
(* How an issue of the squad's board finds its member: the decision of     *)
(* ralph-triage.js, and that of squad-triage.yml. The text of an issue is  *)
(* its title and body in lower case, its paths with forward slashes.       *)
(***************************************************************************)
EXTENDS SquadFiles

(* The first member of a sequence that passes the test, or NoMember.       *)
FirstMember(roster, Test(_)) ==
    LET i == SelectInSeq(roster, Test) IN IF i = 0 THEN NoMember ELSE roster[i]

(* A name of routing.md stands for the member of that name, else for the   *)
(* one with that role, else for one whose name, or else role, is part of   *)
(* it or has it as a part.                                                 *)
FindMember(target, roster) ==
    LET Overlap(a, b) == Includes(a, b) \/ Includes(b, a)
        found == FirstPositive(
                     <<SelectInSeq(roster, LAMBDA m : m.name = target),
                       SelectInSeq(roster, LAMBDA m : m.role = target),
                       SelectInSeq(roster, LAMBDA m : Overlap(target, m.name)),
                       SelectInSeq(roster, LAMBDA m : Overlap(target, m.role))>>)
    IN IF target = "" \/ found = 0 THEN NoMember ELSE roster[found]

(* The index of the first of the best elements of a set of indices, or 0.  *)
Best(indices, Score(_)) ==
    IF indices = {} THEN 0
    ELSE CHOOSE i \in indices :
            \A j \in indices : Score(j) < Score(i) \/ (Score(j) = Score(i) /\ i <= j)

FindBestModuleMatch(text, modules) ==
    Best({i \in DOMAIN modules : Includes(text, modules[i].modulePath)},
         LAMBDA i : Len(modules[i].modulePath))

FindBestRuleMatch(text, rules) ==
    LET matched == [i \in DOMAIN rules |->
                       SelectSeq(rules[i].keywords, LAMBDA k : Includes(text, k))]
        Score(i) == FoldLeft(LAMBDA sum, k : sum + Len(k), 100 * Len(matched[i]), matched[i])
    IN Best({i \in DOMAIN rules : matched[i] # <<>>}, Score)

(* The member of the first domain that fits both a role and the text, in   *)
(* the order of the roster.                                                *)
RoleKeywordMatch(text, roster, domains) ==
    FirstMember(roster, LAMBDA m : \E d \in domains :
                            IncludesAny(m.role, d.roles) /\ IncludesAny(text, d.words))

Domains ==
    {[roles |-> {"frontend", "ui"}, words |-> {"ui", "frontend", "css"}],
     [roles |-> {"backend", "api", "server"}, words |-> {"api", "backend", "database"}],
     [roles |-> {"test", "qa"}, words |-> {"test", "bug", "fix"}]}

FindRoleKeywordMatch(text, roster) == RoleKeywordMatch(text, roster, Domains)

FindLeadFallback(roster) ==
    FirstMember(roster, LAMBDA m : IncludesAny(m.role, {"lead", "architect"}))

FirstFound(members) ==
    FirstMember(members, LAMBDA m : m # NoMember)

TriageIssue(text, rules, modules, roster) ==
    LET module == FindBestModuleMatch(text, modules)
        rule == FindBestRuleMatch(text, rules)
    IN FirstFound(
        <<IF module = 0 THEN NoMember ELSE FindMember(modules[module].primary, roster),
          IF module = 0 THEN NoMember ELSE FindMember(modules[module].secondary, roster),
          IF rule = 0 THEN NoMember ELSE FindMember(rules[rule].agentName, roster),
          FindRoleKeywordMatch(text, roster),
          FindLeadFallback(roster)>>)

-----------------------------------------------------------------------------
(* squad-triage.yml: more words and roles, another notion of a lead, and   *)
(* no decision at all without one.                                         *)

WorkflowDomains ==
    {[roles |-> {"frontend", "ui"},
      words |-> {"ui", "frontend", "css", "component", "button", "page", "layout", "design"}],
     [roles |-> {"backend", "api", "server"},
      words |-> {"api", "backend", "database", "endpoint", "server", "auth"}],
     [roles |-> {"test", "qa", "quality"},
      words |-> {"test", "bug", "fix", "regression", "coverage"}],
     [roles |-> {"devops", "infra", "ops"},
      words |-> {"deploy", "ci", "pipeline", "docker", "infrastructure"}]}

WorkflowTriage(text, roster) ==
    LET lead == FirstMember(roster,
                    LAMBDA m : IncludesAny(m.role, {"lead", "architect", "coordinator"}))
    IN IF lead = NoMember THEN NoMember
       ELSE FirstFound(<<RoleKeywordMatch(text, roster, WorkflowDomains), lead>>)
=============================================================================
