----------------------------- MODULE SwapStatus -----------------------------
(***************************************************************************)
(* What a client may see of a swap, and how it may change from one answer  *)
(* of the server to the next.  SwapOut and SwapIn are shown to implement   *)
(* SwapView with these moves; Daemon and WebClient assume no more of the   *)
(* server than this.                                                       *)
(***************************************************************************)

At(status) == [status |-> status, outcome |-> "NONE"]
Ended(outcome) == [status |-> "DONE", outcome |-> outcome]

(* From each status of a swap-out, what it becomes.                        *)
OutMoves ==
    [ CREATED |->
        {At("INVOICE_PAYMENT_INTENT_RECEIVED"), Ended("EXPIRED")},
      INVOICE_PAYMENT_INTENT_RECEIVED |->
        {At("CONTRACT_FUNDED_UNCONFIRMED"), Ended("ERROR"), Ended("EXPIRED")},
      CONTRACT_FUNDED_UNCONFIRMED |->
        {At("CONTRACT_FUNDED"), At("CONTRACT_CLAIMED_UNCONFIRMED")},
      CONTRACT_FUNDED |->
        {At("CONTRACT_CLAIMED_UNCONFIRMED"), At("CONTRACT_EXPIRED")},
      CONTRACT_EXPIRED |->
        {At("CONTRACT_CLAIMED_UNCONFIRMED"), At("CONTRACT_REFUNDED_UNCONFIRMED")},
      CONTRACT_CLAIMED_UNCONFIRMED |->
        {At("CONTRACT_REFUNDED_UNCONFIRMED"), Ended("SUCCESS")},
      CONTRACT_REFUNDED_UNCONFIRMED |->
        {At("CONTRACT_CLAIMED_UNCONFIRMED"), Ended("REFUNDED")},
      DONE |-> {} ]

(* The same of a swap-in whose contract gets one deposit.  A payment given *)
(* up for late may still succeed: INVOICE_PAID follows a refund, even a    *)
(* finished one.                                                           *)
InMoves ==
    [ CREATED |->
        {At("CONTRACT_FUNDED_UNCONFIRMED"),
         At("CONTRACT_AMOUNT_MISMATCH_UNCONFIRMED"),
         Ended("EXPIRED"), Ended("ERROR")},
      CONTRACT_AMOUNT_MISMATCH_UNCONFIRMED |->
        {At("CONTRACT_AMOUNT_MISMATCH"), Ended("ERROR")},
      CONTRACT_AMOUNT_MISMATCH |-> {At("CONTRACT_EXPIRED")},
      CONTRACT_FUNDED_UNCONFIRMED |->
        {At("CONTRACT_AMOUNT_MISMATCH_UNCONFIRMED"), At("CONTRACT_EXPIRED"),
         At("CONTRACT_FUNDED"), Ended("ERROR")},
      CONTRACT_FUNDED |-> {At("CONTRACT_EXPIRED"), At("INVOICE_PAID")},
      CONTRACT_EXPIRED |->
        {At("CONTRACT_REFUNDED_UNCONFIRMED"), At("INVOICE_PAID")},
      CONTRACT_REFUNDED_UNCONFIRMED |-> {Ended("REFUNDED"), At("INVOICE_PAID")},
      INVOICE_PAID |-> {At("CONTRACT_CLAIMED_UNCONFIRMED")},
      CONTRACT_CLAIMED_UNCONFIRMED |-> {Ended("SUCCESS")},
      DONE |-> {[status |-> "INVOICE_PAID", outcome |-> "REFUNDED"]} ]

=============================================================================
