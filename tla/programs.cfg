\* The web client and its form, the Liquid wallet, the exchange commands, the migrations.
SPECIFICATION ProgramsSpec
CONSTANTS
    Users <- WebUsers
    Payloads <- Pasted
    TypedAmounts <- Typed
    MinimumAmount = 2
    MaximumAmount = 8
    FeePercentage = 50
    Locks <- LockIds
    Amount <- LockAmount
    FirstCoins <- WalletCoins
    Sweeps <- Contracts
    MinRelayTxFee = 1
    Dust = 1
    FirstBalance <- Balances
    MaxRetries = 2
    MaxPolls = 2
    MaxCommands = 2
INVARIANTS
    MoneyHasKeys
    RequestedMeansPublished
    AskedForIsValid
    RefusedOnlyForKnownCauses
    NoStepIsRepeated
    SuccessMeansDelivered
    RunningDaemonHasItsSchema
    RollbackUndoesMigrate
PROPERTIES
    OnlyARefusalStopsTheTracker
    HistoryCatchesUp
CHECK_DEADLOCK FALSE
