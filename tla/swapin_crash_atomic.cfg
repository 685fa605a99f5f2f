\* Bitcoin, one crash and no other failure.
SPECIFICATION Spec
CONSTANTS
    RequiredConfirmations = 2
    Chain = "BITCOIN"
    LockBlockDelta = 10
    CltvMargin = 3
    BlockRatio = 2
    FinalCltv = 1
    MaxCltvExpiry = 12
    Retries = 1
    Strays = {}
    Faults = {}
    Prompt = TRUE
    MaxHeight <- BitcoinHeights
    MaxPending = 1
    DepositBy = 3
    MaxDeposits = 1
    MaxDrift = 0
    MaxCrashes = 1
INVARIANTS
    BothSucceedOrBothFail
CHECK_DEADLOCK FALSE
