\* Three requests, overlapping or not, on the case of a claim and of a quote.
SPECIFICATION Spec
CONSTANTS
    claim = claim
    quote = quote
    r1 = r1
    r2 = r2
    r3 = r3
    u1 = u1
    u2 = u2
    Nobody = Nobody
    Case = {claim, quote}
    Status <- MCStatus
    Transition <- MCTransition
    StartFrom <- MCStartFrom
    StartStatus <- MCStartStatus
    Request = {r1, r2, r3}
    Staff = {u1, u2}
SYMMETRY Symmetry
INVARIANTS
    TrailIsWhole
    AssigneeIsAudited
PROPERTIES
    FollowsStateMachine
CHECK_DEADLOCK FALSE
