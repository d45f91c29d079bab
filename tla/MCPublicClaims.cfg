\* Three status requests on one claim, overlapping or not.
SPECIFICATION ClaimsSpec
CONSTANTS
    c1 = c1
    r1 = r1
    r2 = r2
    r3 = r3
    Claim = {c1}
    ClaimRequest = {r1, r2, r3}
SYMMETRY Symmetry
INVARIANTS
    ResolutionFits
CHECK_DEADLOCK FALSE
