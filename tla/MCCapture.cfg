SPECIFICATION Spec
CONSTANTS
    L3Ids <- MCIds
    SideOf <- MCSide
    PriceOf <- MCPrice
    Listed <- MCListed
    InPlace = TRUE
    MaxSize = 2
    BatchSize = 2
    MaxSessions = 2
    MaxCrashes = 1
    MaxEvents = 2
    MaxWire = 2
INVARIANTS
    TypeOK
    CaptureComplete
    MergedIsPrefix
    EpochsApart
    BookInStep
    TradesOnce
PROPERTIES
    FillsNotCancels
