\* Two handlers racing over two events of a claim.
SPECIFICATION Spec
CONSTANTS
    c1 = c1
    h1 = h1
    h2 = h2
    None = None
    Subject = {c1}
    Status = {"UnderReview", "Approved"}
    Handler = {h1, h2}
    MaxEvents = 2
    MaxCopies = 2
    MaxFault = 2
INVARIANTS
    AppliedOnce
    NeverGoesBack
    RowIsWhole
PROPERTIES
    CatchesUp
CHECK_DEADLOCK FALSE
