\* One swap of each kind, or two auto swaps, with every failure and one crash.
SPECIFICATION DaemonLiveSpec
CONSTANTS
    Scripts <- Scenarios
    MaxOuts = 2
    VSize = 140
    ContractValue = 2000
    MinRelayFee = 200
    RoutingFeeLimitPPM = 200000
    TargetBalance = 3
    MinSwapSize = 2
    MaxSwapSize = 5
    BackoffDivisor = 2
    MaxAttempts = 2
INVARIANTS
    DaemonTypeOK
    MoneyMovesOnlyWithSavedKeys
    RowTellsTheTruth
    MarkedAutoSwapsOverlapOnlyAfterExpiry
    BelowTargetOnlyByAFee
    RunningSwapsAreWatched
PROPERTIES
    ContractsAreSpent
    EndIsRecorded
CHECK_DEADLOCK FALSE
