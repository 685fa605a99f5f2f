\* Liquid, one crash, every failure, deposits of other amounts and assets.
SPECIFICATION Spec
CONSTANTS
    RequiredConfirmations = 2
    Chain = "LIQUID"
    LockBlockDelta = 3
    CltvMargin = 1
    BlockRatio = 2
    FinalCltv = 1
    MaxCltvExpiry = 12
    Retries = 2
    Strays = {"other", "foreign"}
    Faults = {"pay_ambiguous", "broadcast_error", "late_resume"}
    Prompt = TRUE
    MaxHeight <- LiquidHeights
    MaxPending = 1
    DepositBy = 3
    MaxDeposits = 2
    MaxDrift = 0
    MaxCrashes = 1
INVARIANTS
    TypeOK
    PaidOnlyWhenFunded
    ClaimOnlyWithSavedPreimage
PROPERTIES
    ImplementsView
CHECK_DEADLOCK FALSE
