\* Two starts of the API, a form of two attempts, an update and a deletion.
SPECIFICATION Spec
CONSTANTS
    s1 = s1
    s2 = s2
    f1 = f1
    u1 = u1
    d1 = d1
    seed = seed
    other = other
    NoEmail = NoEmail
    Start = {s1, s2}
    Api = {s1, s2}
    Form = {f1}
    MaxAttempt = 2
    Create <- MCAttempts
    Edit = {u1}
    Delete = {d1}
    Email = {seed, other}
    SeedEmail = {seed}
    SeedSaves = 3
    MaxFault = 1
SYMMETRY Symmetry
INVARIANTS
    SeededOnce
    FormsToldTruth
    FiledTwiceHasCause
CHECK_DEADLOCK FALSE
