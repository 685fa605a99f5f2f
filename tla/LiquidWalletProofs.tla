------------------------- MODULE LiquidWalletProofs -------------------------
(***************************************************************************)
(* No lock of the Liquid wallet is refused for another cause than the two  *)
(* of RefusedForKnownCause: for any number of locks and sweeps, any coins, *)
(* amounts and fees.                                                       *)
(***************************************************************************)
EXTENDS LiquidWallet, TLAPS

(* What the proofs need of the variables' types.                           *)
LockOK(l) ==
    lock[l] = [ pc |-> lock[l].pc, inputs |-> lock[l].inputs,
                commission |-> lock[l].commission, change |-> lock[l].change ]

ShapeOK ==
    /\ lock = [l \in Locks |-> lock[l]] /\ \A l \in Locks : LockOK(l)
    /\ chain = [l \in Locks |-> chain[l]]

(* A lock whose transaction is on its way is past its last step.           *)
SentIsOver ==
    \A l \in Locks : chain[l] # "none" => lock[l].pc \in {"sent", "failed"}

(* Another lock's transaction spends the coin.                             *)
TakenFrom(l, c) ==
    \E other \in Locks \ {l} : chain[other] # "none" /\ c \in lock[other].inputs

(* What a lock selected is still there, or another lock took it.           *)
InputsTraced ==
    \A l \in Locks : lock[l].pc \in {"selected", "built"} =>
      \A c \in lock[l].inputs : c \in utxos \/ TakenFrom(l, c)

(* A pset balances.                                                        *)
Balanced ==
    \A l \in Locks : lock[l].pc \in {"selected", "built"} =>
      lock[l].change = changeAmount(l, lock[l].inputs, lock[l].commission)

WalletInv ==
    /\ ShapeOK /\ SentIsOver /\ InputsTraced /\ Balanced
    /\ RefusedOnlyForKnownCauses

-----------------------------------------------------------------------------
(* A pset of coins of the wallet: it fails, or is balanced.                *)
LEMMA OutputsBalance ==
  ASSUME NEW l \in Locks, NEW pc, NEW S, NEW commission, LockOK(l)
  PROVE  LET r == addRequiredOutputs(l, pc, S, commission) IN
         /\ r = [pc |-> r.pc, inputs |-> r.inputs, commission |-> r.commission,
                 change |-> r.change]
         /\ \/ r.pc = "failed"
            \/ /\ r.pc = pc /\ r.inputs = S
               /\ r.change = changeAmount(l, r.inputs, r.commission)
BY DEF addRequiredOutputs, LockOK

(* The other locks keep their trace, whatever lock l becomes, as long as no*)
(* coin is lost and l's own transaction is not on its way.                 *)
LEMMA OneLockChanges ==
  ASSUME WalletInv, NEW l \in Locks, NEW r, lock' = [lock EXCEPT ![l] = r],
         chain[l] = "none", utxos' = utxos, chain' = chain,
         r = [pc |-> r.pc, inputs |-> r.inputs, commission |-> r.commission,
              change |-> r.change],
         r.pc # "sent",
         r.pc \in {"selected", "built"} =>
           /\ \A c \in r.inputs : c \in utxos \/ TakenFrom(l, c)
           /\ r.change = changeAmount(l, r.inputs, r.commission)
  PROVE  WalletInv'
<1> USE DEF WalletInv, ShapeOK
<1>1. lock'[l] = r /\ \A m \in Locks \ {l} : lock'[m] = lock[m]
  OBVIOUS
<1>2. \A m \in Locks : chain[m] # "none" => m # l /\ lock'[m] = lock[m]
  BY <1>1
<1>3. ShapeOK'
  BY <1>1 DEF LockOK
<1>4. SentIsOver'
  BY <1>1, <1>2 DEF SentIsOver
<1>5. \A m \in Locks : \A c : TakenFrom(m, c) => TakenFrom(m, c)'
  BY <1>2 DEF TakenFrom
<1>6. InputsTraced'
  BY <1>1, <1>5 DEF InputsTraced
<1>7. Balanced'
  BY <1>1 DEF Balanced, changeAmount
<1>8. RefusedOnlyForKnownCauses'
  <2> SUFFICES ASSUME NEW m \in Locks, lock'[m].pc = "sent", chain[m] = "none"
               PROVE  RefusedForKnownCause(m)'
    BY DEF RefusedOnlyForKnownCauses
  <2>1. lock'[m] = lock[m]
    BY <1>1
  <2>2. RefusedForKnownCause(m)
    BY <2>1 DEF RefusedOnlyForKnownCauses
  <2> QED BY <2>1, <2>2, <1>2 DEF RefusedForKnownCause
<1> QED BY <1>3, <1>4, <1>6, <1>7, <1>8

(* Coins only come in: nothing else changes.                               *)
LEMMA CoinsArrive ==
  ASSUME WalletInv, utxos \subseteq utxos', lock' = lock,
         chain' = [l \in Locks |-> chain'[l]],
         \A l \in Locks : chain'[l] = "none" <=> chain[l] = "none"
  PROVE  WalletInv'
<1> USE DEF WalletInv
<1>1. ShapeOK' /\ SentIsOver' /\ Balanced'
  BY DEF ShapeOK, LockOK, SentIsOver, Balanced, changeAmount
<1>2. InputsTraced'
  BY DEF InputsTraced, TakenFrom
<1>3. RefusedOnlyForKnownCauses'
  BY DEF RefusedOnlyForKnownCauses, RefusedForKnownCause
<1> QED BY <1>1, <1>2, <1>3

(* The selections and the fee.                                             *)
LEMMA SelectionsTrace ==
  ASSUME WalletInv, NEW l \in Locks,
         SelectCoins(l) \/ AdjustFee(l) \/ SelectAgain(l) \/ LockFails(l)
  PROVE  WalletInv'
<1> DEFINE Steps == {"idle", "selected", "reselect", "built"}
<1>1. LockOK(l) /\ lock = [m \in Locks |-> lock[m]]
  BY DEF WalletInv, ShapeOK
<1>2. lock[l].pc \in Steps => chain[l] = "none"
  BY DEF WalletInv, SentIsOver
<1>3. ASSUME NEW S \in getConfirmedUtxosAndInputValueForAmount(amountInFloat(l)),
             NEW pc \in {"selected", "built"}, NEW commission, chain[l] = "none",
             lock' = [lock EXCEPT ![l] = addRequiredOutputs(l, pc, S, commission)],
             UNCHANGED <<utxos, chain>>
      PROVE  WalletInv'
  <2> DEFINE r == addRequiredOutputs(l, pc, S, commission)
  <2>1. \A c \in S : c \in utxos
    BY <1>3 DEF getConfirmedUtxosAndInputValueForAmount, getUnspentUtxos
  <2>2. /\ r = [pc |-> r.pc, inputs |-> r.inputs, commission |-> r.commission,
                change |-> r.change]
        /\ \/ r.pc = "failed"
           \/ /\ r.pc = pc /\ r.inputs = S
              /\ r.change = changeAmount(l, r.inputs, r.commission)
    BY <1>1, OutputsBalance
  <2> HIDE DEF r
  <2> QED BY <2>1, <2>2, <1>3, OneLockChanges DEF r
<1>4. CASE SelectCoins(l)
  BY <1>2, <1>3, <1>4 DEF SelectCoins
<1>5. CASE SelectAgain(l)
  BY <1>2, <1>3, <1>5 DEF SelectAgain
<1>6. CASE LockFails(l)
  <2> DEFINE r == [lock[l] EXCEPT !.pc = "failed"]
  <2>1. /\ lock' = [lock EXCEPT ![l] = r]
        /\ chain[l] = "none" /\ utxos' = utxos /\ chain' = chain
    BY <1>2, <1>6 DEF LockFails, callRPCThrows
  <2>2. /\ r = [pc |-> r.pc, inputs |-> r.inputs, commission |-> r.commission,
                change |-> r.change]
        /\ r.pc = "failed"
    BY <1>1 DEF LockOK
  <2> HIDE DEF r
  <2> QED BY <2>1, <2>2, OneLockChanges
<1>7. CASE AdjustFee(l)
  <2> DEFINE new == getCommissionAmount(virtualSize(Cardinality(lock[l].inputs), LockOutputs))
  <2>1. /\ lock[l].pc = "selected" /\ chain[l] = "none"
        /\ utxos' = utxos /\ chain' = chain
    BY <1>2, <1>7 DEF AdjustFee
  <2>2. PICK r :
          /\ lock' = [lock EXCEPT ![l] = r]
          /\ \/ r = [lock[l] EXCEPT !.pc = "built"]
             \/ r = addRequiredOutputs(l, "built", lock[l].inputs, new)
             \/ r = [lock[l] EXCEPT !.pc = "reselect", !.commission = new]
    BY <1>7, <2>1 DEF AdjustFee
  <2> HIDE DEF new
  <2>3. \A c \in lock[l].inputs : c \in utxos \/ TakenFrom(l, c)
    BY <2>1 DEF WalletInv, InputsTraced
  <2>4. lock[l].change = changeAmount(l, lock[l].inputs, lock[l].commission)
    BY <2>1 DEF WalletInv, Balanced
  <2>5. CASE r = [lock[l] EXCEPT !.pc = "built"]
    <3>1. r.pc = "built" /\ r.inputs = lock[l].inputs
          /\ r.commission = lock[l].commission /\ r.change = lock[l].change
          /\ r = [pc |-> r.pc, inputs |-> r.inputs, commission |-> r.commission,
                  change |-> r.change]
      BY <1>1, <2>5 DEF LockOK
    <3> QED BY <3>1, <2>1, <2>2, <2>3, <2>4, OneLockChanges
  <2>6. CASE r = addRequiredOutputs(l, "built", lock[l].inputs, new)
    <3>1. /\ r = [pc |-> r.pc, inputs |-> r.inputs, commission |-> r.commission,
                  change |-> r.change]
          /\ \/ r.pc = "failed"
             \/ /\ r.pc = "built" /\ r.inputs = lock[l].inputs
                /\ r.change = changeAmount(l, r.inputs, r.commission)
      BY <1>1, <2>6, OutputsBalance
    <3> QED BY <3>1, <2>1, <2>2, <2>3, OneLockChanges
  <2>7. CASE r = [lock[l] EXCEPT !.pc = "reselect", !.commission = new]
    <3>1. r.pc = "reselect"
          /\ r = [pc |-> r.pc, inputs |-> r.inputs, commission |-> r.commission,
                  change |-> r.change]
      BY <1>1, <2>7 DEF LockOK
    <3> QED BY <3>1, <2>1, <2>2, OneLockChanges
  <2> QED BY <2>2, <2>5, <2>6, <2>7
<1> QED BY <1>4, <1>5, <1>6, <1>7

(* The broadcast.  What it takes from the others, it takes with a          *)
(* transaction that is on its way; what is refused has a known cause.      *)
LEMMA BroadcastTraces ==
  ASSUME WalletInv, NEW l \in Locks, BroadcastLock(l)
  PROVE  WalletInv'
<1> USE DEF WalletInv
<1>1. PICK answer \in {"sent", "failed"} : lock' = [lock EXCEPT ![l].pc = answer]
  BY DEF BroadcastLock
<1>2. chain[l] = "none" /\ lock[l].pc = "built"
  BY DEF BroadcastLock, SentIsOver
<1>3. /\ lock'[l].pc = answer
      /\ \A m \in Locks : /\ lock'[m].inputs = lock[m].inputs
                          /\ lock'[m].commission = lock[m].commission
                          /\ lock'[m].change = lock[m].change
                          /\ m # l => lock'[m] = lock[m]
  BY <1>1 DEF ShapeOK, LockOK
<1>4. /\ \A m \in Locks : chain[m] # "none" => chain'[m] # "none"
      /\ \A m \in Locks \ {l} : chain'[m] = chain[m]
      /\ chain' = [m \in Locks |-> chain'[m]]
  BY DEF BroadcastLock, ShapeOK
<1>5. \A m \in Locks : \A c : TakenFrom(m, c) => TakenFrom(m, c)'
  BY <1>3, <1>4 DEF TakenFrom
<1>6. ShapeOK'
  BY <1>1, <1>3, <1>4 DEF ShapeOK, LockOK
<1>7. SentIsOver'
  BY <1>3, <1>4 DEF SentIsOver
<1>8. InputsTraced'
  <2> SUFFICES ASSUME NEW m \in Locks, lock'[m].pc \in {"selected", "built"},
                      NEW c \in lock'[m].inputs
               PROVE  c \in utxos' \/ TakenFrom(m, c)'
    BY DEF InputsTraced
  <2>1. m # l /\ (c \in utxos \/ TakenFrom(m, c))
    BY <1>3 DEF InputsTraced
  <2>2. CASE c \in utxos /\ c \notin utxos'
    <3>1. chain'[l] = "mempool" /\ c \in lock'[l].inputs
      BY <2>2, <1>3 DEF BroadcastLock, ShapeOK
    <3> QED BY <3>1, <2>1 DEF TakenFrom
  <2> QED BY <2>1, <2>2, <1>5
<1>9. Balanced'
  BY <1>3 DEF Balanced, changeAmount
<1>10. RefusedOnlyForKnownCauses'
  <2> SUFFICES ASSUME NEW m \in Locks, lock'[m].pc = "sent", chain'[m] = "none"
               PROVE  RefusedForKnownCause(m)'
    BY DEF RefusedOnlyForKnownCauses
  <2>1. CASE m = l
    <3>1. ~Acceptable(l)
      BY <2>1 DEF BroadcastLock, ShapeOK
    <3>2. CASE ~(lock[l].change >= Dust)
      BY <3>2, <2>1, <1>3 DEF RefusedForKnownCause
    <3>3. CASE ~(lock[l].inputs \subseteq utxos)
      <4>1. PICK c \in lock[l].inputs : TakenFrom(l, c)
        BY <3>3, <1>2 DEF InputsTraced
      <4> QED BY <4>1, <1>3, <1>5, <2>1 DEF RefusedForKnownCause, TakenFrom
    <3> QED BY <3>1, <3>2, <3>3, <1>2 DEF Acceptable, Balanced
  <2>2. CASE m # l
    <3>1. RefusedForKnownCause(m)
      BY <2>2, <1>3, <1>4 DEF RefusedOnlyForKnownCauses
    <3> QED BY <3>1, <1>3, <1>4 DEF RefusedForKnownCause
  <2> QED BY <2>1, <2>2
<1> QED BY <1>6, <1>7, <1>8, <1>9, <1>10

-----------------------------------------------------------------------------
LEMMA WalletInit == LiquidWalletInit => WalletInv
BY DEF LiquidWalletInit, NewLock, WalletInv, ShapeOK, LockOK, SentIsOver,
       InputsTraced, Balanced, RefusedOnlyForKnownCauses

LEMMA WalletStep == WalletInv /\ [LiquidWalletNext]_walletVars => WalletInv'
<1> SUFFICES ASSUME WalletInv, [LiquidWalletNext]_walletVars PROVE WalletInv'
  OBVIOUS
<1>1. ASSUME NEW l \in Locks, LockMined(l) PROVE WalletInv'
  <2>1. /\ utxos \subseteq utxos' /\ lock' = lock
        /\ chain' = [m \in Locks |-> chain'[m]]
        /\ \A m \in Locks : chain'[m] = "none" <=> chain[m] = "none"
    BY <1>1 DEF LockMined, WalletInv, ShapeOK
  <2> QED BY <2>1, CoinsArrive
<1>2. ASSUME NEW s, NEW vbytes, Sweep(s, vbytes) PROVE WalletInv'
  <2>1. utxos \subseteq utxos' /\ lock' = lock /\ chain' = chain
    BY <1>2 DEF Sweep
  <2> QED BY <2>1, CoinsArrive DEF WalletInv, ShapeOK
<1>3. CASE UNCHANGED walletVars
  BY <1>3, CoinsArrive DEF walletVars, WalletInv, ShapeOK
<1> QED
  BY <1>1, <1>2, <1>3, SelectionsTrace, BroadcastTraces
  DEF LiquidWalletNext, ClaimContract, RefundContract

(* LiquidUtils.ts: whatever coins the wallet has, however many locks run   *)
(* at once and whatever the fees are, a lock is refused only because       *)
(* another one took a coin of it or because its change is dust.            *)
THEOREM WalletRefusesForKnownCauses == LiquidWalletSpec => []RefusedOnlyForKnownCauses
<1>1. WalletInv => RefusedOnlyForKnownCauses
  BY DEF WalletInv
<1> QED BY WalletInit, WalletStep, <1>1, PTL DEF LiquidWalletSpec

=============================================================================
