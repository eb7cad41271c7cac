SPECIFICATION Spec
CONSTANTS
    p = p
    q = q
    Configs <- MCConfigs
    NTicks = 7
    TrainShare = 8
    NFolds = 2
    TopN = 2
    Scores = {1, 2}
    Failed = Failed
INVARIANTS
    OneResultEach
    BestIsBest
    TestedOnTheFuture
    PairedInTurn
