\* One claim, two handlers racing over up to three copies of its command.
SPECIFICATION Spec
CONSTANTS
    c1 = c1
    h1 = h1
    h2 = h2
    None = None
    Claim = {c1}
    Handler = {h1, h2}
    Policies <- MCPolicies
    Amount = 2
    MaxCopies = 3
    MaxFault = 2
    MaxPolicyChange = 2
INVARIANTS
    IntakeOnce
    NothingVanishes
    DenialHasCause
    DeadLetterHasCause
PROPERTIES
    KeepsLedger
    EveryCommandSettled
CHECK_DEADLOCK FALSE
