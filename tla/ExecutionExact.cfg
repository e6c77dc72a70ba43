CONSTANTS
    btc = btc
    Pair <- MCPair
    Price <- MCPrice
    MaxTrades = 2
    InitialCash = 14
    Spend = 6
    Fee = 1
    PartialFills = TRUE
    MinTrade = 2
    MaxOpen = 2
SPECIFICATION Spec
CONSTRAINT Undiverged
INVARIANTS
    ExecutionTypeOK
    PositionsMatchExchange
    CashMatchesExchange
    FlatAccountExplainedByPnl
    LiveOrdersAreTracked
