CONSTANTS
    btc = btc
    Pair <- MCPair
    Price = {97, 103}
    MaxTrades = 2
    Quantity = 200
    FailureLimit = 1
    TrailPct = 3
    StopLossPct = 2
    TakeProfitPct = 5
SPECIFICATION FairSpec
INVARIANTS
    TypeOK
    PositionsAreWatched
    TiersSumToHolding
    StopCoversStopLoss
    CoinsBelongToTrades
PROPERTIES
    FiredStopSells
    BreachEnds
