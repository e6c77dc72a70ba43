SPECIFICATION VenueFairSpec
CONSTANTS
    MaxTrades = 2
    Pair = {"stock"}
    Stock = "stock"
    InitialCash = 4
    Unit = 2
    Quantity = {1, 3}
    Growth = 1
    MaxJobs = 3
    MaxOrders = 3
INVARIANTS
    LedgerMatchesAccount
    ClosedMeansSold
PROPERTY HeardFillIsBooked
CHECK_DEADLOCK FALSE
