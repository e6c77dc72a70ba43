\* Two signed commands, delivered up to twice, over a restart
SPECIFICATION FairSpec
CONSTANTS
    k1 = k1
    k2 = k2
    Command <- MCCommand
    May <- MCMay
    Pair = {p1}
    None = None
    Skew <- MCSkew
    MaxNow = 3
    MaxAge = 1
    Lead = 1
    PerCall = 1
    NonceCap = 1
    NonceDrop = 1
    Copies <- MCCopies
INVARIANTS
    ExecutedOnce
    PausedPairsAreBanned
PROPERTIES
    WatchlistConverges
