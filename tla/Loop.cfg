\* Trips, halts, pauses, hangs and restarts of the trading loop
SPECIFICATION FairSpec
CONSTANTS
    Value <- MCValue
    MaxDdPct = 20
    MaxLoss = 1
    LossCap = 1
INVARIANTS
    PauseLetsOneBatchBegin
    TripStopsBatches
    TwoBatchesOverLimit
    AcknowledgedThisTrip
PROPERTIES
    HaltEnds
    HungLoopIsKilled
