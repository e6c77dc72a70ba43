SPECIFICATION FairSpec
CONSTANTS
    Trade = {t1}
    Swap = {s1}
    MaxRestarts = 2
INVARIANT OrderedOnce
INVARIANT AnswersStand
INVARIANT OrdersAreBooked
INVARIANT BookedBuysCount
INVARIANT PositionsHaveStops
PROPERTY QueueDrains
