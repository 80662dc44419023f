CONSTANTS
    Address = {pool, u1, u2}
    Names = {n1, n2}
    Genesis = pool
    Nobody = Nobody
    NoName = NoName
    AccountFee = 1
    CarReward = 1
    MinReward = 1
    FeeShare = 2
    Window = 1
    ReportThreshold = 2
    Amounts = {2}
    MaxFunds = 7
    MaxCars = 2
    MaxStatuses = 1
    MaxTime = 1
SPECIFICATION Spec
SYMMETRY Interchangeable
INVARIANTS TypeOK PayoutsCovered NamesAgree CountsMatch PagesShowEveryCar
CHECK_DEADLOCK FALSE
