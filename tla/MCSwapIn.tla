------------------------------- MODULE MCSwapIn ------------------------------
(* Instances of SwapIn for TLC.                                             *)
EXTENDS SwapIn

(* Enough blocks past the contract's timeout to refund it and confirm that. *)
BitcoinHeights == [BITCOIN |-> 15, LIQUID |-> 1]
LiquidHeights == [BITCOIN |-> 5, LIQUID |-> 9]

=============================================================================
