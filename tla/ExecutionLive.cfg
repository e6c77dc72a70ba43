CONSTANTS
    btc = btc
    Pair <- MCPair
    Price = {2}
    MaxTrades = 2
    InitialCash = 8
    Spend = 4
    Fee = 0
    PartialFills = TRUE
    MinTrade = 2
    MaxOpen = 1
SPECIFICATION FairSpec
CONSTRAINT WhileResting
PROPERTY PendingResolved
    TerminalTradesAreFinal
    FollowsLifecycle
