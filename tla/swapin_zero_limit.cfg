\* Bitcoin, no failure; a deposit CltvMargin blocks before the contract's timeout.
SPECIFICATION Spec
CONSTANTS
    RequiredConfirmations = 2
    Chain = "BITCOIN"
    LockBlockDelta = 10
    CltvMargin = 3
    BlockRatio = 2
    FinalCltv = 1
    MaxCltvExpiry = 12
    Retries = 1
    Strays = {}
    Faults = {}
    Prompt = TRUE
    MaxHeight <- BitcoinHeights
    MaxPending = 1
    DepositBy = 8
    MaxDeposits = 1
    MaxDrift = 0
    MaxCrashes = 0
INVARIANTS
    PaymentEndsBeforeTimeout
CHECK_DEADLOCK FALSE
