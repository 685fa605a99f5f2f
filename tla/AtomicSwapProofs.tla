--------------------------- MODULE AtomicSwapProofs ---------------------------
(***************************************************************************)
(* AtomicSwap keeps its promise in both directions: its steps alone make   *)
(* the two payments both succeed or both fail.                             *)
(***************************************************************************)
EXTENDS AtomicSwap, TLAPS

(* In a swap-out the contract stands only on a held payment, and only a    *)
(* claim settles it.                                                       *)
OutInv ==
    /\ chainLeg = "locked" => lightningLeg = "held"
    /\ chainLeg = "claimed" => lightningLeg \in {"held", "settled"}
    /\ lightningLeg = "settled" => chainLeg = "claimed"

(* In a swap-in the payment stands only on a locked contract, and only a   *)
(* settled payment opens the claim.                                        *)
InInv ==
    /\ lightningLeg = "held" => chainLeg = "locked"
    /\ lightningLeg = "settled" => chainLeg \in {"locked", "claimed"}
    /\ chainLeg = "claimed" => lightningLeg = "settled"

LegsInv == (Direction = "out" /\ OutInv) \/ (Direction = "in" /\ InInv)

(* The two payments of a swap (what-is-a-swap.md) are both taken or both   *)
(* given back, whichever of them reveals the preimage.                     *)
THEOREM AtomicSwapAtomicity ==
    ASSUME Direction \in {"out", "in"}
    PROVE  Spec => []BothOrNeither
<1>1. Init => LegsInv
  BY DEF Init, LegsInv, OutInv, InInv
<1>2. LegsInv /\ [Next]_legs => LegsInv'
  <2> SUFFICES ASSUME LegsInv, [Next]_legs PROVE LegsInv'
    OBVIOUS
  <2> USE DEF LegsInv, OutInv, InInv
  <2>1. CASE Hold BY <2>1 DEF Hold
  <2>2. CASE Lock BY <2>2 DEF Lock
  <2>3. CASE Claim BY <2>3 DEF Claim
  <2>4. CASE Settle BY <2>4 DEF Settle
  <2>5. CASE Refund BY <2>5 DEF Refund
  <2>6. CASE Cancel BY <2>6 DEF Cancel
  <2>7. CASE UNCHANGED legs BY <2>7 DEF legs
  <2> QED BY <2>1, <2>2, <2>3, <2>4, <2>5, <2>6, <2>7 DEF Next
<1>3. LegsInv => BothOrNeither
  BY DEF LegsInv, OutInv, InInv, BothOrNeither
<1> QED BY <1>1, <1>2, <1>3, PTL DEF Spec

=============================================================================
