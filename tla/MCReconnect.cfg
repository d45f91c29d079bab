\* Three overlapping attempts, three losses and two failed calls.
SPECIFICATION DialogSpec
CONSTANTS
    Attempt = {a1, a2, a3}
    a1 = a1
    a2 = a2
    a3 = a3
    MaxLoss = 3
    MaxOutage = 2
INVARIANTS
    NeverStuck
    ReloadLosesNothing
PROPERTY
    FailedPageRecovers
CHECK_DEADLOCK FALSE
