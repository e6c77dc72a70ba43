SPECIFICATION Spec
CONSTANTS
    Pair = {p1, p2, p3}
    InitialCash = 100
    Amount = {20, 60}
    Share = {100}
    MaxPosition = {20, 60}
    Viable = {10, 35}
    CaMult = {70, 130}
    CashPct = 50
    RiskPct = 50
    PositionPct = 40
    ExposurePct = 80
    MaxSingle = 45
    MaxDaily = 60
    ApprovalAbove = 25
    MinTrade = 10
    MaxOpen = 1
    MaxOrders = 3
SYMMETRY Symmetry
INVARIANTS
    MaxOpenHolds
    LimitsButForMultiplier
    OrdersBeatFees
