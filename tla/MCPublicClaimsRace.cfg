\* The documented state machine, when requests overlap.
SPECIFICATION ClaimsSpec
CONSTANTS
    c1 = c1
    r1 = r1
    r2 = r2
    r3 = r3
    Claim = {c1}
    ClaimRequest = {r1, r2, r3}
SYMMETRY Symmetry
PROPERTIES
    FollowsStateMachine
CHECK_DEADLOCK FALSE
