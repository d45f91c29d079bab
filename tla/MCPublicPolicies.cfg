\* Three requests of any kind on the only policy of a customer.
SPECIFICATION Spec
CONSTANTS
    p1 = p1
    r1 = r1
    r2 = r2
    r3 = r3
    Policy = {p1}
    Request = {r1, r2, r3}
    Type = "Home"
    Coverage = {50000, 50001, 60000}
    StatusAsked = {"Active", "Expired"}
    Months <- MonthEitherWay
    MaxTime = 2
SYMMETRY Symmetry
INVARIANTS
    NoOrphan
    PremiumFits
    EndAfterStart
PROPERTIES
    RulesHoldInTurn
CHECK_DEADLOCK FALSE
