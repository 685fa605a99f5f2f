------------------------------ MODULE SwapCommon ------------------------------
(***************************************************************************)
(* Vocabulary shared by the models of the server's two swap runners: where *)
(* a transaction is, the chain events nbxplorer delivers, and the          *)
(* confirmation test of BitcoinService.                                    *)
(***************************************************************************)
EXTENDS Integers, Sequences, FiniteSets

CONSTANT RequiredConfirmations   \* bitcoin.requiredConfirmations

ASSUME ConfirmationsAssumption == RequiredConfirmations \in Nat

(* Where a transaction is: not broadcast, in the mempool, or the height of *)
(* the block that holds it.                                                *)
Absent == -1
Mempool == 0

(* BitcoinService.hasEnoughConfirmations: the recorded height is 0 until a *)
(* confirmed event was processed.                                          *)
hasEnoughConfirmations(txHeight, blockchainHeight) ==
    /\ txHeight > 0
    /\ blockchainHeight - txHeight + 1 >= RequiredConfirmations

(* An nbxplorer event: a new block of height h, or the sighting of a       *)
(* transaction, with h = 0 while it is unconfirmed (height == null).       *)
Event(kind, h) == [kind |-> kind, h |-> h]

CountKind(events, kind) == Cardinality({i \in DOMAIN events : events[i].kind = kind})

=============================================================================
