SPECIFICATION ViewsSpec
CONSTANTS
    MaxLen = 2
    Capacity = 3
    Lookback = 1
    Delays = {0, 1, 3}
    Points <- MCPoints
    OiBack = 2
    Steps = {0, 1, 2}
    MaxTicks = 6
CHECK_DEADLOCK FALSE
INVARIANTS
    RingIsWindow
    ViewIsLatest
    ScoredAfterFill
    OpenInterestInForce
