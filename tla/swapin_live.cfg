\* Bitcoin, no crash, one deposit of the exact or another amount, one attempt to pay: liveness and the refinement of AtomicSwap.
SPECIFICATION LiveSpec
CONSTANTS
    RequiredConfirmations = 2
    Chain = "BITCOIN"
    LockBlockDelta = 10
    CltvMargin = 3
    BlockRatio = 2
    FinalCltv = 1
    MaxCltvExpiry = 12
    Retries = 1
    Strays = {"other"}
    Faults = {}
    Prompt = TRUE
    MaxHeight <- BitcoinHeights
    MaxPending = 1
    DepositBy = 3
    MaxDeposits = 1
    MaxDrift = 0
    MaxCrashes = 0
INVARIANTS
    PaymentEndsBeforeTimeout
    OutcomeTruthful
    StatusFollowsChain
PROPERTIES
    FundedSwapFinishes
    ImplementsAtomicSwap
CHECK_DEADLOCK FALSE
