\* Two issues in pages of one, two heartbeats and the triage jobs.
SPECIFICATION Spec
CONSTANTS
    Issue = {1, 2}
    PullRequest = {}
    text <- MCText
    TeamFiles <- MCTeamFiles
    RoutingFile <- MCRoutingFile
    Squad <- MCSquad
    Keywords <- MCKeywords
    Run = {r1, r2}
    r1 = r1
    r2 = r2
    PerPage = 1
    MaxEvent = 2
INVARIANTS
    TriagedOnce
    TriageIsWhole
PROPERTY
    InboxEmpties
CHECK_DEADLOCK FALSE
