CONSTANTS
    c1 = c1
    c2 = c2
    Caller <- MCCaller
    Seed = {20}
    Amount = {10, 20}
    Portfolio = {80, 100}
    Loss = {1}
    Single = {20}
    Daily = {0, 30}
    MaxLoss = 1
    MaxCount = 2
    MaxGrown = 26
    HaltPct = 15
    CaMult = {70, 130}
    ApprovalAbove = 10
SPECIFICATION Spec
SYMMETRY Symmetry
CONSTRAINT Bounded
INVARIANTS
    SpendOvershootBounded
