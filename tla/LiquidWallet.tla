---------------------------- MODULE LiquidWallet ----------------------------
(***************************************************************************)
(* The server's Liquid wallet.  Elements keeps the coins; every lock (the  *)
(* payment of a swap-out's contract) selects some, computes its fee,       *)
(* selects again when the fee leaves too little, and is broadcast.  Claims *)
(* and refunds of contracts bring coins in.  Locks of different swaps run  *)
(* at the same time and nothing reserves the coins one of them selected.   *)
(***************************************************************************)
EXTENDS Integers, FiniteSets, FiniteSetsExt

CONSTANTS
    Locks,           \* the swap-outs to pay
    Amount,          \* what each of them pays to its contract
    FirstCoins,      \* the wallet's coins at the start
    Sweeps,          \* the contracts to claim or refund, and what they hold
    MinRelayTxFee,   \* getmempoolinfo's minrelaytxfee, in sats
    Dust             \* the smallest output a node relays

Coins == [of : {"funds"} \cup Locks \cup DOMAIN Sweeps, value : Nat]

ASSUME LiquidWalletAssumption ==
    /\ Amount \in [Locks -> Nat]
    /\ FirstCoins \subseteq Coins
    /\ \A s \in DOMAIN Sweeps : Sweeps[s] \in Nat
    /\ MinRelayTxFee \in Nat /\ Dust \in Nat

VARIABLES
    utxos,   \* listunspent: confirmed coins no known transaction spends
    lock,    \* LiquidLockPSETBuilder.getPset and what follows, per lock
    chain,   \* what the network did with each lock's transaction
    swept    \* the contracts that were claimed or refunded

walletVars == <<utxos, lock, chain, swept>>

ValueOf(coins) == MapThenSumSet(LAMBDA c : c.value, coins)

-----------------------------------------------------------------------------
(* The size of a transaction before it is signed, in units of an input.    *)
virtualSize(ins, outs) == 1 + ins + outs

(* The rate is per kvB and multiplies vbytes: a fee is a thousand times    *)
(* what relaying asks for, so a size that is a little off never matters.   *)
getCommissionAmount(vbytes) == vbytes * MinRelayTxFee

(* A lock pays the contract, the change and the fee.                       *)
LockOutputs == 3

(* listunspent stops at the first coin that reaches the amount, or returns *)
(* every coin; the check of the sum compares sats with BTC and never fails.*)
getUnspentUtxos(amount) ==
    { S \in SUBSET utxos :
        \/ S = utxos /\ ValueOf(S) < amount
        \/ ValueOf(S) >= amount /\ \E c \in S : ValueOf(S \ {c}) < amount }

getConfirmedUtxosAndInputValueForAmount(amount) ==
    getUnspentUtxos(amount) \ {{}}

(* The amount to select for covers a fee of one vbyte, also the second     *)
(* time.                                                                   *)
amountInFloat(l) == Amount[l] + getCommissionAmount(1)

changeAmount(l, inputs, commission) == ValueOf(inputs) - Amount[l] - commission

(* mutant: the change still has the fee of one vbyte.                      *)
ChangeOfFirstFee(l, pc, inputs, commission) ==
    LET change == changeAmount(l, inputs, getCommissionAmount(1))
    IN  IF change < 0
          THEN [lock[l] EXCEPT !.pc = "failed"]
          ELSE [pc |-> pc, inputs |-> inputs, commission |-> commission,
                change |-> change]

(* addRequiredOutputs throws on a negative change.                         *)
addRequiredOutputs(l, pc, inputs, commission) ==
    LET change == changeAmount(l, inputs, commission)
    IN  IF change < 0
          THEN [lock[l] EXCEPT !.pc = "failed"]
          ELSE [pc |-> pc, inputs |-> inputs, commission |-> commission,
                change |-> change]

-----------------------------------------------------------------------------
NewLock == [pc |-> "idle", inputs |-> {}, commission |-> 0, change |-> 0]

LiquidWalletInit ==
    /\ utxos = FirstCoins
    /\ lock = [l \in Locks |-> NewLock]
    /\ chain = [l \in Locks |-> "none"]
    /\ swept = {}

(* The first pset, whose fee is that of one vbyte.                         *)
SelectCoins(l) ==
    /\ lock[l].pc = "idle"
    /\ \E S \in getConfirmedUtxosAndInputValueForAmount(amountInFloat(l)) :
         lock' = [lock EXCEPT ![l] =
                    addRequiredOutputs(l, "selected", S, getCommissionAmount(1))]
    /\ UNCHANGED <<utxos, chain, swept>>

(* Its real fee, taken from the change if that is enough.                  *)
AdjustFee(l) ==
    LET new == getCommissionAmount(virtualSize(Cardinality(lock[l].inputs), LockOutputs))
    IN  /\ lock[l].pc = "selected"
        /\ lock' = [lock EXCEPT ![l] =
             IF new <= @.commission THEN [@ EXCEPT !.pc = "built"]
             ELSE IF changeAmount(l, @.inputs, new) >= 0
               THEN addRequiredOutputs(l, "built", @.inputs, new)
               ELSE [@ EXCEPT !.pc = "reselect", !.commission = new]]
        /\ UNCHANGED <<utxos, chain, swept>>

(* The inputs are dropped and selected again; the fee stays.               *)
SelectAgain(l) ==
    /\ lock[l].pc = "reselect"
    /\ \E S \in getConfirmedUtxosAndInputValueForAmount(amountInFloat(l)) :
         lock' = [lock EXCEPT ![l] =
                    addRequiredOutputs(l, "built", S, lock[l].commission)]
    /\ UNCHANGED <<utxos, chain, swept>>

callRPCThrows(l) == lock' = [lock EXCEPT ![l].pc = "failed"]

(* A call to Elements fails, or no coin is left, or an input cannot be     *)
(* added: the swap ends as an error.                                       *)
LockFails(l) ==
    /\ lock[l].pc \in {"idle", "selected", "reselect", "built"}
    /\ callRPCThrows(l)
    /\ UNCHANGED <<utxos, chain, swept>>

(* What a node accepts: unspent inputs, balanced amounts, no dust.         *)
Acceptable(l) ==
    /\ lock[l].inputs \subseteq utxos
    /\ lock[l].change = changeAmount(l, lock[l].inputs, lock[l].commission)
    /\ lock[l].change >= Dust

(* getTx signs the pset whatever happened to its coins.  nbxplorer does    *)
(* not report a refusal; its own failure may come after the broadcast.     *)
BroadcastLock(l) ==
    /\ lock[l].pc = "built"
    /\ \E answer \in {"sent", "failed"} : lock' = [lock EXCEPT ![l].pc = answer]
    /\ IF Acceptable(l)
         THEN /\ chain' = [chain EXCEPT ![l] = "mempool"]
              /\ utxos' = utxos \ lock[l].inputs
         ELSE UNCHANGED <<chain, utxos>>
    /\ UNCHANGED swept

LockMined(l) ==
    /\ chain[l] = "mempool"
    /\ chain' = [chain EXCEPT ![l] = "mined"]
    /\ utxos' = utxos \cup {[of |-> l, value |-> lock[l].change]}
    /\ UNCHANGED <<lock, swept>>

(* The contract's output is found and unblinded; what it holds must pay    *)
(* for the fee.                                                            *)
Sweep(s, vbytes) ==
    LET outputAmount == Sweeps[s] - getCommissionAmount(vbytes)
    IN  /\ s \notin swept /\ outputAmount >= Dust
        /\ swept' = swept \cup {s}
        /\ utxos' = utxos \cup {[of |-> s, value |-> outputAmount]}
        /\ UNCHANGED <<lock, chain>>

(* Up to the block: a claim is measured without its outputs, a refund with *)
(* them.                                                                   *)
ClaimContract(s) == Sweep(s, virtualSize(1, 0))
RefundContract(s) == Sweep(s, virtualSize(1, 2))

LiquidWalletNext ==
    \/ \E l \in Locks : \/ SelectCoins(l) \/ AdjustFee(l) \/ SelectAgain(l)
                        \/ LockFails(l) \/ BroadcastLock(l) \/ LockMined(l)
    \/ \E s \in DOMAIN Sweeps : ClaimContract(s) \/ RefundContract(s)

LiquidWalletSpec == LiquidWalletInit /\ [][LiquidWalletNext]_walletVars

-----------------------------------------------------------------------------
(* A refused transaction is invisible to the server: the swap waits until  *)
(* the user's payment lapses.  Only two things lead there: another lock    *)
(* took one of the coins first, or the change is dust.  Recomputed fees,   *)
(* second selections and coins that arrive in between never do.            *)
RefusedForKnownCause(l) ==
    \/ ~(lock[l].change >= Dust)
    \/ \E other \in Locks \ {l} :
         chain[other] # "none" /\ lock[l].inputs \cap lock[other].inputs # {}

RefusedOnlyForKnownCauses ==
    \A l \in Locks :
      lock[l].pc = "sent" /\ chain[l] = "none" => RefusedForKnownCause(l)

=============================================================================
