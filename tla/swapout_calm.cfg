\* Bitcoin, no crash, a funding transaction may be refused.
SPECIFICATION Spec
CONSTANTS
    RequiredConfirmations = 2
    Chain = "BITCOIN"
    LockBlockDelta = 3
    CltvGap = 4
    BlockRatio = 10
    Faults = {"send_error"}
    Prompt = FALSE
    MaxHeight <- BitcoinHeights
    MaxPending = 1
    PayBy = 2
    MaxDrift = 0
    MaxCrashes = 0
INVARIANTS
    TypeOK
    SettledOnlyAfterClaim
    OutcomeTruthful
    ClaimInTimeIsPaid
    StatusFollowsChain
PROPERTIES
    ImplementsView
    DoneIsFinal
CHECK_DEADLOCK FALSE
