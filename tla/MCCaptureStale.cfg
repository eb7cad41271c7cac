SPECIFICATION Spec
CONSTANTS
    L3Ids <- MCIds
    SideOf <- MCSide
    PriceOf <- MCPrice
    Listed <- MCListed
    InPlace = FALSE
    MaxSize = 2
    BatchSize = 2
    MaxSessions = 2
    MaxCrashes = 1
    MaxEvents = 2
    MaxWire = 2
INVARIANT BookNeverStale
