\* Bitcoin, one crash and no other failure.
SPECIFICATION Spec
CONSTANTS
    RequiredConfirmations = 2
    Chain = "BITCOIN"
    LockBlockDelta = 3
    CltvGap = 4
    BlockRatio = 10
    Faults = {}
    Prompt = FALSE
    MaxHeight <- BitcoinHeights
    MaxPending = 1
    PayBy = 2
    MaxDrift = 0
    MaxCrashes = 1
INVARIANTS
    BothSucceedOrBothFail
CHECK_DEADLOCK FALSE
