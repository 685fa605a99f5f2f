------------------------------ MODULE MCSwapOut ------------------------------
(* Instances of SwapOut for TLC.                                            *)
EXTENDS SwapOut

(* Enough blocks for a payment accepted at the last allowed height to reach *)
(* the end of its HTLC.                                                     *)
BitcoinHeights == [BITCOIN |-> 10, LIQUID |-> 1]
ShortHeights == [BITCOIN |-> 8, LIQUID |-> 1]
LiquidHeights == [BITCOIN |-> 8, LIQUID |-> 13]

=============================================================================
