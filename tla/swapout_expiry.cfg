\* Bitcoin, no crash; the cancellation of an expired invoice fails.
SPECIFICATION Spec
CONSTANTS
    RequiredConfirmations = 2
    Chain = "BITCOIN"
    LockBlockDelta = 3
    CltvGap = 4
    BlockRatio = 10
    Faults = {"cancel_error"}
    Prompt = FALSE
    MaxHeight <- BitcoinHeights
    MaxPending = 1
    PayBy = 2
    MaxDrift = 0
    MaxCrashes = 0
INVARIANTS
    ExpiredBeforeFundsWereSent
CHECK_DEADLOCK FALSE
