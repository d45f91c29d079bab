\* Two users, four clicks on a quote, two claims and a dead letter.
SPECIFICATION PortalSpec
CONSTANTS
    ann = ann
    ben = ben
    c1 = c1
    m1 = m1
    c2 = c2
    a1 = a1
    a2 = a2
    n1 = n1
    n2 = n2
    Unbound = Unbound
    User = {ann, ben}
    Claim = {c1, c2}
    Adjuster = {a1, a2}
    Message = {m1}
    Number = {n1, n2}
    MaxClick = 4
SYMMETRY Symmetry
INVARIANTS
    QuoteIsWhole
    ClaimFollowsPages
    DepthGrowsByRaces
CHECK_DEADLOCK FALSE
