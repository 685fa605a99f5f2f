\* Bitcoin, one crash, every failure and every order of LND's replies.
SPECIFICATION Spec
CONSTANTS
    RequiredConfirmations = 2
    Chain = "BITCOIN"
    LockBlockDelta = 2
    CltvGap = 3
    BlockRatio = 10
    Faults = {"send_error", "send_ambiguous", "cancel_race", "cancel_error", "settle_error", "broadcast_error", "late_resume"}
    Prompt = FALSE
    MaxHeight <- ShortHeights
    MaxPending = 1
    PayBy = 1
    MaxDrift = 0
    MaxCrashes = 1
INVARIANTS
    SettledOnlyWithRevealedPreimage
    FundedOnlyForHeldPayment
    FundedAtMostOnce
CHECK_DEADLOCK FALSE
