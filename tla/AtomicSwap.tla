----------------------------- MODULE AtomicSwap -----------------------------
(***************************************************************************)
(* What a swap promises (docs/src/what-is-a-swap.md): two payments, one on *)
(* the chain and one on Lightning, locked by the same preimage, of which   *)
(* either both are taken or both go back.                                  *)
(*                                                                         *)
(* The two directions differ in which payment reveals the preimage: in a   *)
(* swap-out the user claims on the chain and the server settles with what  *)
(* it learns; in a swap-in the user settles and the server claims.         *)
(***************************************************************************)
CONSTANT Direction      \* "out" or "in"

VARIABLES
    chainLeg,       \* the on-chain payment: "none", "locked", "claimed", "refunded"
    lightningLeg    \* the Lightning payment: "open", "held", "settled", "canceled"

legs == <<chainLeg, lightningLeg>>

Init ==
    /\ chainLeg = "none"
    /\ lightningLeg = "open"

(* The Lightning payment is locked; in a swap-in only against a locked     *)
(* contract, and again after it failed.                                    *)
Hold ==
    /\ \/ lightningLeg = "open"
       \/ Direction = "in" /\ lightningLeg = "canceled"
    /\ Direction = "in" => chainLeg = "locked"
    /\ lightningLeg' = "held"
    /\ UNCHANGED chainLeg

(* The contract is funded; in a swap-out only against a held payment.      *)
Lock ==
    /\ chainLeg = "none"
    /\ Direction = "out" => lightningLeg = "held"
    /\ chainLeg' = "locked"
    /\ UNCHANGED lightningLeg

Claim ==
    /\ chainLeg = "locked"
    /\ lightningLeg = IF Direction = "out" THEN "held" ELSE "settled"
    /\ chainLeg' = "claimed"
    /\ UNCHANGED lightningLeg

Settle ==
    /\ lightningLeg = "held"
    /\ chainLeg = IF Direction = "out" THEN "claimed" ELSE "locked"
    /\ lightningLeg' = "settled"
    /\ UNCHANGED chainLeg

(* The payments that go back: neither while the other one can be taken.    *)
Refund ==
    /\ chainLeg = "locked"
    /\ Direction = "in" => lightningLeg \in {"open", "canceled"}
    /\ chainLeg' = "refunded"
    /\ UNCHANGED lightningLeg

Cancel ==
    /\ lightningLeg \in {"open", "held"}
    /\ Direction = "out" => chainLeg \in {"none", "refunded"}
    /\ lightningLeg' = "canceled"
    /\ UNCHANGED chainLeg

Next == Hold \/ Lock \/ Claim \/ Settle \/ Refund \/ Cancel

Spec == Init /\ [][Next]_legs

(* Both payments are taken, or neither is.                                 *)
BothOrNeither ==
    /\ lightningLeg = "settled" => chainLeg # "refunded"
    /\ chainLeg = "claimed" => lightningLeg # "canceled"

=============================================================================
