\* Liquid, no crash: liveness and the refinement of AtomicSwap.
SPECIFICATION LiveSpec
CONSTANTS
    RequiredConfirmations = 2
    Chain = "LIQUID"
    LockBlockDelta = 1
    CltvGap = 5
    BlockRatio = 2
    Faults = {"send_error"}
    Prompt = TRUE
    MaxHeight <- LiquidHeights
    MaxPending = 1
    PayBy = 1
    MaxDrift = 1
    MaxCrashes = 0
PROPERTIES
    ContractIsSpent
    FundedSwapFinishes
    ImplementsAtomicSwap
CHECK_DEADLOCK FALSE
