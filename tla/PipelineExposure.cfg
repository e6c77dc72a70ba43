SPECIFICATION Spec
CONSTANTS
    Pair = {p1, p2}
    InitialCash = 100
    Amount = {20}
    Share = {100}
    MaxPosition = {20}
    Viable = {10}
    CaMult = {100}
    CashPct = 25
    RiskPct = 20
    PositionPct = 40
    ExposurePct = 25
    MaxSingle = 45
    MaxDaily = 60
    ApprovalAbove = 45
    MinTrade = 10
    MaxOpen = 2
    MaxOrders = 2
INVARIANT ExposureWithinCap
