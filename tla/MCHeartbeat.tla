---------------------------- MODULE MCHeartbeat ----------------------------
(* An instance of Heartbeat for TLC: this repository's team.md, shortened  *)
(* to what is read of it, as it is and after the frontend developer left,  *)
(* and a routing.md with the sections ralph-triage.js looks for.           *)
EXTENDS Heartbeat, TLC

CONSTANTS r1, r2

FrontendRow == TableRow(<<"lambert", "frontend dev", "active">>)

MCTeam(frontend) ==
    <<Heading("coordinator"),
      TableRow(<<"name", "role", "notes">>), Separator(3),
      TableRow(<<"squad", "coordinator", "routes work">>),
      Heading("members"),
      TableRow(<<"name", "role", "status">>), Separator(3),
      TableRow(<<"ripley", "lead / architect", "active">>)>>
    \o frontend \o
    <<TableRow(<<"dallas", "backend dev", "active">>),
      TableRow(<<"scribe", "session logger", "active">>),
      TableRow(<<"ralph", "work monitor", "monitor">>),
      Heading("project context")>>

MCTeamFiles == <<MCTeam(<<FrontendRow>>), MCTeam(<<>>)>>

MCRoutingFile ==
    <<Heading("work type -> agent"),
      TableRow(<<"work type", "agent", "examples">>), Separator(3),
      TableRow(<<"frontend / ui", "lambert", "blazor pages, layout">>),
      TableRow(<<"backend / apis", "dallas", "ef core, rabbitmq">>),
      Heading("module ownership"),
      TableRow(<<"module", "primary", "secondary">>), Separator(3),
      TableRow(<<"src/web", "lambert", "-">>),
      TableRow(<<"src/web/api", "lambert", "dallas">>),
      Heading("issue routing")>>

MCKeywords ==
    "blazor pages, layout" :> <<"blazor pages", "layout">>
        @@ "ef core, rabbitmq" :> <<"ef core", "rabbitmq">>

(* The two workflows disagree on the first issue and agree on the second.  *)
MCText == <<"rabbitmq drops claims", "the layout of src/web/api is gone">>

(* What the workflows make of that, which SquadAssumption compares with    *)
(* what their rules compute.                                               *)
Ripley == Member("ripley", "lead / architect")
Lambert == Member("lambert", "frontend dev")
Dallas == Member("dallas", "backend dev")

MCSquad ==
    <<[labels |-> {"squad:ripley", "squad:lambert", "squad:dallas"},
       agent |-> <<Dallas, Lambert>>, lead |-> <<Ripley, Lambert>>],
      [labels |-> {"squad:ripley", "squad:dallas"},
       agent |-> <<Dallas, Dallas>>, lead |-> <<Ripley, Dallas>>]>>
=============================================================================
