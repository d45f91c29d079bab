\* One quote, two handlers racing over two copies of its command, and two
\* acceptances.
SPECIFICATION FlowSpec
CONSTANTS
    q1 = q1
    h1 = h1
    h2 = h2
    a1 = a1
    a2 = a2
    None = None
    Quote = {q1}
    Handler = {h1, h2}
    Acceptance = {a1, a2}
    Offers <- MCOffers
    MaxCopies = 2
    MaxFault = 2
SYMMETRY Symmetry
INVARIANTS
    UnderwrittenOnce
    DeclineHasCause
    ApprovedIsAccepted
    AcceptanceHolds
CHECK_DEADLOCK FALSE
