------------------------------- MODULE SwapIn --------------------------------
(***************************************************************************)
(* One swap-in (chain -> Lightning) as the server runs it: SwapInRunner,   *)
(* the record it saves, the payment it asks LND for, the claim it          *)
(* broadcasts, the nbxplorer events it is fed, and the user, who deposits  *)
(* on the chain, takes or fails the payment, and may refund.               *)
(*                                                                         *)
(* As in SwapOut, a step is the code between two awaits and a task waiting *)
(* on an await is a program counter.                                       *)
(***************************************************************************)
EXTENDS SwapCommon, SwapStatus

CONSTANTS
    Chain,            \* "BITCOIN" or "LIQUID": the chain of the contract
    LockBlockDelta,   \* lockBlockDeltaIn, in Bitcoin blocks
    CltvMargin,       \* oneHourDifference
    BlockRatio,       \* Liquid blocks per Bitcoin block
    FinalCltv,        \* the least time lock of a route to the user's node
    MaxCltvExpiry,    \* LND's --max-cltv-expiry
    Retries,          \* attempts of retrySendPayment
    Strays,           \* deposits the user may make besides the exact one
    Faults,           \* the failures this instance admits
    Prompt,           \* BOOLEAN: miners, the user and the server's calls are prompt
    MaxHeight,        \* bound: the last block of each chain
    MaxPending,       \* bound: how many blocks the server may lag behind
    DepositBy,        \* bound: the last height at which the user deposits
    MaxDeposits,      \* bound: how many deposits are made
    MaxDrift,         \* bound: Liquid blocks by which Liquid may leave its pace
    MaxCrashes        \* bound: crashes of the server

Chains == {"BITCOIN", "LIQUID"}

(* A deposit pays the contract's address the exact inputAmount, another    *)
(* amount, or another Liquid asset.                                        *)
Deposits == {"exact", "other", "foreign"}
Spends == {"claim", "refund"}
ContractTxs == Deposits \cup Spends

FaultKinds ==
    { "pay_ambiguous",    \* the payment is under way, but the call reports an error
      "broadcast_error",  \* the claim is not accepted by nbxplorer
      "late_resume" }     \* events are dispatched before the swap is resumed

ASSUME SwapInAssumption ==
    /\ Chain \in Chains
    /\ LockBlockDelta \in Nat \ {0}
    /\ CltvMargin \in Nat
    /\ BlockRatio \in Nat \ {0}
    /\ FinalCltv \in Nat \ {0}
    /\ MaxCltvExpiry \in Nat
    /\ FinalCltv <= MaxCltvExpiry
    /\ Retries \in Nat \ {0}
    /\ Strays \subseteq Deposits \ {"exact"}
    /\ "foreign" \in Strays => Chain = "LIQUID"
    /\ Faults \subseteq FaultKinds
    /\ Prompt \in BOOLEAN
    /\ MaxHeight \in [Chains -> Nat \ {0}]
    /\ MaxPending \in Nat
    /\ DepositBy \in Nat
    /\ MaxDeposits \in Nat \ {0}
    /\ MaxDrift \in Nat
    /\ MaxCrashes \in Nat

Statuses ==
    { "CREATED", "CONTRACT_FUNDED_UNCONFIRMED", "CONTRACT_FUNDED", "INVOICE_PAID",
      "CONTRACT_CLAIMED_UNCONFIRMED", "DONE", "CONTRACT_EXPIRED",
      "CONTRACT_REFUNDED_UNCONFIRMED", "CONTRACT_AMOUNT_MISMATCH_UNCONFIRMED",
      "CONTRACT_AMOUNT_MISMATCH" }
Outcomes == {"NONE", "SUCCESS", "REFUNDED", "EXPIRED", "ERROR"}

VARIABLES
    swap,       \* the swap entity: every handler saves what it assigns
    up,         \* the server process runs
    runner,     \* SwapService.runningSwaps: "waiting" to be resumed, "running", "stopped"
    pay,        \* onStatusChange(CONTRACT_FUNDED) and retrySendPayment
    attempt,    \* ... its attempt
    cltvLimit,  \* ... and its limit, computed once
    claimer,    \* onStatusChange(INVOICE_PAID): "off", or the deposit it claims
    ev,         \* the event loop's handler: "idle", "record", "spend", "done"
    feed,       \* nbxplorer's events after lastEventId, oldest first
    payment,    \* LND's payment of the user's invoice
    htlcExpiry, \* the Bitcoin height at which its HTLC expires
    tip,        \* the height of each chain
    onchain,    \* where the deposits and the transactions that spend them are
    spends,     \* the deposit each of them spends
    crashes     \* bounded by MaxCrashes

tasks == <<pay, attempt, cltvLimit, claimer>>
server == <<swap, up, runner, tasks, ev>>
lightning == <<payment, htlcExpiry>>
chain == <<tip, onchain, spends>>
world == <<feed, lightning, chain>>
vars == <<server, world, crashes>>

(* createSwapIn locked the contract LockBlockDelta Bitcoin blocks past the *)
(* height 1 of its creation.                                               *)
timeoutBlockHeight ==
    1 + LockBlockDelta * (IF Chain = "LIQUID" THEN BlockRatio ELSE 1)

NewSwap ==
    [ status |-> "CREATED", outcome |-> "NONE", inputAmount |-> "exact",
      lockTx |-> "none", lockTxHeight |-> 0, unlockTxHeight |-> 0,
      preImage |-> FALSE ]

Init ==
    /\ swap = NewSwap
    /\ up = TRUE
    /\ runner = "running"
    /\ pay = "off"
    /\ attempt = 0
    /\ cltvLimit = 0
    /\ claimer = "off"
    /\ ev = "idle"
    /\ feed = << >>
    /\ payment = "none"
    /\ htlcExpiry = 0
    /\ tip = [c \in Chains |-> 1]
    /\ onchain = [t \in ContractTxs |-> Absent]
    /\ spends = [t \in Spends |-> "none"]
    /\ crashes = 0

(* The process exits: every task is gone, and the next start reads the     *)
(* entity from the database.                                               *)
Die ==
    /\ up' = FALSE
    /\ runner' = "waiting"
    /\ pay' = "off"
    /\ claimer' = "off"
    /\ ev' = "idle"
    /\ UNCHANGED <<swap, attempt, cltvLimit>>

-----------------------------------------------------------------------------
(* checkExpiry, once a minute: the swap may be older than expiryDuration.  *)
CheckExpiry ==
    /\ runner = "running"
    /\ swap.status = "CREATED"
    /\ swap' = [swap EXCEPT !.status = "DONE", !.outcome = "EXPIRED"]
    /\ runner' = "stopped"
    /\ UNCHANGED <<up, tasks, ev, world, crashes>>

-----------------------------------------------------------------------------
(* onStatusChange(CONTRACT_FUNDED).                                        *)

CltvWithoutMargin ==                                             \* mutant
    IF Chain = "BITCOIN"
      THEN timeoutBlockHeight - tip["BITCOIN"]
      ELSE (timeoutBlockHeight - tip["LIQUID"]) \div BlockRatio

(* The time left to the contract, less the margin, in Bitcoin blocks.      *)
remainingCltv ==
    IF Chain = "BITCOIN"
      THEN timeoutBlockHeight - tip["BITCOIN"] - CltvMargin
      ELSE (timeoutBlockHeight - tip["LIQUID"] - CltvMargin * BlockRatio) \div BlockRatio

ComputeLimit ==
    /\ pay = "limit"
    /\ cltvLimit' = remainingCltv
    /\ pay' = "send"
    /\ UNCHANGED <<swap, up, runner, attempt, claimer, ev, world, crashes>>

(* LND reads cltv_limit = 0 as no limit but its own; a negative number is  *)
(* an unsigned one beyond it.                                              *)
effectiveLimit == IF cltvLimit = 0 THEN MaxCltvExpiry ELSE cltvLimit

(* sendPaymentSync.  LND refuses to pay an invoice that is paid or being   *)
(* paid, and finds no route if the limit is too low, or no liquidity.      *)
SendPayment ==
    /\ pay = "send"
    /\ \/ /\ payment \in {"none", "failed"}
          /\ effectiveLimit \in FinalCltv .. MaxCltvExpiry
          /\ payment' = "inflight"
          /\ htlcExpiry' \in { tip["BITCOIN"] + l : l \in {FinalCltv, effectiveLimit} }
          /\ pay' = "wait"
       \/ /\ pay' = "failed"
          /\ UNCHANGED lightning
    /\ UNCHANGED <<swap, up, runner, attempt, cltvLimit, claimer, ev, feed, chain,
                   crashes>>

RepliesInFlight ==                                               \* mutant
    /\ pay = "wait"
    /\ \/ payment \in {"inflight", "settled"} /\ pay' = "paid"
       \/ payment = "failed" /\ pay' = "failed"
    /\ UNCHANGED <<swap, up, runner, attempt, cltvLimit, claimer, ev, world, crashes>>

PaymentReply ==
    /\ pay = "wait"
    /\ \/ payment = "settled" /\ pay' = "paid"
       \/ payment = "failed" /\ pay' = "failed"
       \/ "pay_ambiguous" \in Faults /\ pay' = "failed"
    /\ UNCHANGED <<swap, up, runner, attempt, cltvLimit, claimer, ev, world, crashes>>

(* The backoff, then the next attempt with the same limit; after the last  *)
(* one the contract is left to expire.                                     *)
RetryPayment ==
    /\ pay = "failed"
    /\ IF attempt < Retries
         THEN pay' = "send" /\ attempt' = attempt + 1
         ELSE pay' = "off" /\ UNCHANGED attempt
    /\ UNCHANGED <<swap, up, runner, cltvLimit, claimer, ev, world, crashes>>

PreImageNotSaved ==                                              \* mutant
    /\ pay = "paid"
    /\ swap' = [swap EXCEPT !.status = "INVOICE_PAID"]
    /\ pay' = "off"
    /\ claimer' = swap.lockTx
    /\ UNCHANGED <<up, runner, attempt, cltvLimit, ev, world, crashes>>

(* The status is not looked at again after the payment; the claim spends   *)
(* the deposit recorded now.                                               *)
InvoicePaid ==
    /\ pay = "paid"
    /\ swap' = [swap EXCEPT !.status = "INVOICE_PAID", !.preImage = TRUE]
    /\ pay' = "off"
    /\ claimer' = swap.lockTx
    /\ UNCHANGED <<up, runner, attempt, cltvLimit, ev, world, crashes>>

(* A transaction enters the mempool; nbxplorer may announce it only once   *)
(* it is confirmed, and announces a spend after the deposit it spends.     *)
DepositAnnounced(d) ==
    onchain[d] > Mempool \/ swap.lockTx = d \/ \E i \in DOMAIN feed : feed[i].kind = d

Announce(t, d) ==
    \/ /\ t \in Spends => DepositAnnounced(d)
       /\ feed' = Append(feed, Event(t, 0))
    \/ UNCHANGED feed

Spent(d) == \E t \in Spends : spends[t] = d /\ onchain[t] > Mempool

Spend(t, d) ==
    /\ onchain[t] = Absent
    /\ onchain[d] # Absent
    /\ ~Spent(d)
    /\ onchain' = [onchain EXCEPT ![t] = Mempool]
    /\ spends' = [spends EXCEPT ![t] = d]
    /\ Announce(t, d)

(* onStatusChange(INVOICE_PAID): build and broadcast the claim, once.  The *)
(* node refuses a conflict with a refund, and nbxplorer does not say so.   *)
BroadcastClaim ==
    /\ claimer # "off"
    /\ \/ /\ Spend("claim", claimer)
          /\ claimer' = "off"
          /\ UNCHANGED <<swap, up, runner, pay, attempt, cltvLimit, ev>>
       \/ /\ \/ onchain["claim"] # Absent
             \/ onchain["refund"] # Absent /\ spends["refund"] = claimer
          /\ claimer' = "off"
          /\ UNCHANGED <<swap, up, runner, pay, attempt, cltvLimit, ev, feed,
                         onchain, spends>>
       \/ /\ "broadcast_error" \in Faults
          /\ Die
          /\ UNCHANGED <<feed, onchain, spends>>
    /\ UNCHANGED <<lightning, tip, crashes>>

-----------------------------------------------------------------------------
(* The event loop, as in SwapOut.                                          *)

Dispatch(kind) ==
    /\ up /\ runner = "running"
    /\ ev = "idle"
    /\ feed # << >>
    /\ Head(feed).kind = kind

height == Head(feed).h

nullHeight(old) == IF height > 0 THEN height ELSE Absent        \* mutant

(* A recorded height is overwritten by the height of a confirmed event.    *)
confirmedHeight(old) == IF height > 0 THEN height ELSE old

HandlerThrows ==
    \/ /\ ev' = "done"
       /\ UNCHANGED <<swap, up, runner, tasks>>
    \/ Die

NeverExpiresFunded ==                                            \* mutant
    /\ swap.status \in {"CONTRACT_FUNDED_UNCONFIRMED", "CONTRACT_AMOUNT_MISMATCH"}
    /\ timeoutBlockHeight <= height

ExpiresUnseenMismatch ==                                         \* mutant
    /\ swap.status \in {"CONTRACT_FUNDED", "CONTRACT_FUNDED_UNCONFIRMED",
                        "CONTRACT_AMOUNT_MISMATCH_UNCONFIRMED"}
    /\ timeoutBlockHeight <= height

(* SwapInRunner.processNewBlock: the first branch whose condition holds.   *)
Expiring ==
    /\ swap.status \in {"CONTRACT_FUNDED", "CONTRACT_FUNDED_UNCONFIRMED",
                        "CONTRACT_AMOUNT_MISMATCH"}
    /\ timeoutBlockHeight <= height

BlockExpires ==
    /\ Expiring
    /\ swap' = [swap EXCEPT !.status = "CONTRACT_EXPIRED"]
    /\ UNCHANGED <<runner, pay, attempt>>

BlockConfirmsMismatch ==
    /\ swap.status = "CONTRACT_AMOUNT_MISMATCH_UNCONFIRMED"
    /\ hasEnoughConfirmations(swap.lockTxHeight, height)
    /\ swap' = [swap EXCEPT !.status = "CONTRACT_AMOUNT_MISMATCH"]
    /\ UNCHANGED <<runner, pay, attempt>>

FundsUnconfirmed ==                                              \* mutant
    /\ swap.status = "CONTRACT_FUNDED_UNCONFIRMED"
    /\ ~Expiring
    /\ swap' = [swap EXCEPT !.status = "CONTRACT_FUNDED"]
    /\ pay' = "limit"
    /\ attempt' = 1
    /\ UNCHANGED runner

BlockFunds ==
    /\ swap.status = "CONTRACT_FUNDED_UNCONFIRMED"
    /\ ~Expiring
    /\ hasEnoughConfirmations(swap.lockTxHeight, height)
    /\ swap' = [swap EXCEPT !.status = "CONTRACT_FUNDED"]
    /\ pay' = "limit"
    /\ attempt' = 1
    /\ UNCHANGED runner

FinishesUnconfirmed ==                                           \* mutant
    /\ \/ /\ swap.status = "CONTRACT_REFUNDED_UNCONFIRMED"
          /\ swap' = [swap EXCEPT !.status = "DONE", !.outcome = "REFUNDED"]
       \/ /\ swap.status = "CONTRACT_CLAIMED_UNCONFIRMED"
          /\ swap' = [swap EXCEPT !.status = "DONE", !.outcome = "SUCCESS"]
    /\ runner' = "stopped"
    /\ UNCHANGED <<pay, attempt>>

(* DONE resolves the promise run() returned: the runner is forgotten.      *)
BlockFinishes ==
    /\ hasEnoughConfirmations(swap.unlockTxHeight, height)
    /\ \/ /\ swap.status = "CONTRACT_REFUNDED_UNCONFIRMED"
          /\ swap' = [swap EXCEPT !.status = "DONE", !.outcome = "REFUNDED"]
       \/ /\ swap.status = "CONTRACT_CLAIMED_UNCONFIRMED"
          /\ swap' = [swap EXCEPT !.status = "DONE", !.outcome = "SUCCESS"]
    /\ runner' = "stopped"
    /\ UNCHANGED <<pay, attempt>>

BlockIgnored ==
    /\ ~Expiring
    /\ CASE swap.status \in {"CONTRACT_AMOUNT_MISMATCH_UNCONFIRMED",
                             "CONTRACT_FUNDED_UNCONFIRMED"} ->
              ~hasEnoughConfirmations(swap.lockTxHeight, height)
         [] swap.status \in {"CONTRACT_REFUNDED_UNCONFIRMED",
                             "CONTRACT_CLAIMED_UNCONFIRMED"} ->
              ~hasEnoughConfirmations(swap.unlockTxHeight, height)
         [] OTHER -> TRUE
    /\ UNCHANGED <<swap, runner, pay, attempt>>

ProcessNewBlock ==
    /\ Dispatch("block")
    /\ \/ BlockExpires \/ BlockConfirmsMismatch \/ BlockFunds \/ BlockFinishes
       \/ BlockIgnored
    /\ ev' = "done"
    /\ UNCHANGED <<up, cltvLimit, claimer, world, crashes>>

(* processContractFundingTx.  Another asset ends the swap; another amount  *)
(* makes it a mismatch, whatever its status, in a save of its own.         *)
RecordFunding(d) ==
    swap' = IF swap.status \in {"CREATED", "CONTRACT_FUNDED_UNCONFIRMED",
                               "CONTRACT_AMOUNT_MISMATCH_UNCONFIRMED"}
              THEN [swap EXCEPT
                      !.lockTxHeight = confirmedHeight(@),
                      !.inputAmount = d,
                      !.lockTx = d,
                      !.status = IF @ = "CREATED" THEN "CONTRACT_FUNDED_UNCONFIRMED"
                                                  ELSE @]
              ELSE swap

AssetMismatch(d) ==
    /\ d = "foreign"
    /\ swap' = [swap EXCEPT !.status = "DONE", !.outcome = "ERROR"]
    /\ runner' = "stopped"
    /\ ev' = "done"

AmountMismatch(d) ==
    /\ d \notin {"foreign", swap.inputAmount}
    /\ swap' = [swap EXCEPT !.status = "CONTRACT_AMOUNT_MISMATCH_UNCONFIRMED"]
    /\ ev' = "record"
    /\ UNCHANGED runner

ExpectedAmount(d) ==
    /\ d = swap.inputAmount
    /\ RecordFunding(d)
    /\ ev' = "done"
    /\ UNCHANGED runner

(* processContractFundingTx.  On Liquid it awaits findUnblindableOutputs    *)
(* first, and reads and writes the swap only after it.  A transaction that *)
(* it cannot unblind is ignored: such a deposit is none here.              *)
ProcessFundingTx ==
    /\ \E d \in Deposits :
         Dispatch(d) /\ (AssetMismatch(d) \/ AmountMismatch(d) \/ ExpectedAmount(d))
    /\ UNCHANGED <<up, tasks, world, crashes>>

RecordMismatch ==
    /\ ev = "record"
    /\ RecordFunding(Head(feed).kind)
    /\ ev' = "done"
    /\ UNCHANGED <<up, runner, tasks, world, crashes>>

(* processContractSpendingTx up to its first save, for a transaction that  *)
(* spends the recorded deposit; others are ignored.                        *)
RecordSpendingTx ==
    /\ \E t \in Spends : Dispatch(t)
    /\ \/ /\ swap.lockTx = "none"
          /\ HandlerThrows
       \/ /\ swap.lockTx # "none"
          /\ IF spends[Head(feed).kind] = swap.lockTx
               THEN /\ swap' = [swap EXCEPT !.unlockTxHeight = confirmedHeight(@)]
                    /\ ev' = "spend"
               ELSE ev' = "done" /\ UNCHANGED swap
          /\ UNCHANGED <<up, runner, tasks>>
    /\ UNCHANGED <<world, crashes>>

RefundIgnored ==                                                 \* mutant
    /\ ev = "spend"
    /\ swap' = IF Head(feed).kind = "claim" /\ swap.status = "INVOICE_PAID"
                 THEN [swap EXCEPT !.status = "CONTRACT_CLAIMED_UNCONFIRMED"]
                 ELSE swap
    /\ ev' = "done"
    /\ UNCHANGED <<up, runner, tasks, world, crashes>>

(* ... and the rest of it.                                                 *)
ApplySpendingTx ==
    /\ ev = "spend"
    /\ LET t == Head(feed).kind
       IN  CASE t = "claim" /\ swap.status = "INVOICE_PAID" ->
                  swap' = [swap EXCEPT !.status = "CONTRACT_CLAIMED_UNCONFIRMED"]
             [] t = "refund" /\ swap.status = "CONTRACT_EXPIRED" ->
                  swap' = [swap EXCEPT !.status = "CONTRACT_REFUNDED_UNCONFIRMED"]
             [] OTHER -> UNCHANGED swap
    /\ ev' = "done"
    /\ UNCHANGED <<up, runner, tasks, world, crashes>>

(* The swap ended, or it is not resumed yet.                               *)
NobodyListens ==
    /\ up /\ runner # "running"
    /\ ev = "idle"
    /\ feed # << >>
    /\ runner = "stopped" \/ swap.status = "DONE" \/ "late_resume" \in Faults
    /\ ev' = "done"
    /\ UNCHANGED <<swap, up, runner, tasks, world, crashes>>

CommitEvent ==
    /\ ev = "done"
    /\ ev' = "idle"
    /\ feed' = Tail(feed)
    /\ UNCHANGED <<swap, up, runner, tasks, lightning, chain, crashes>>

-----------------------------------------------------------------------------
(* Crashes and SwapService.onApplicationBootstrap: nothing under way is    *)
(* started again.                                                          *)

Crash ==
    /\ up
    /\ crashes < MaxCrashes
    /\ crashes' = crashes + 1
    /\ Die
    /\ UNCHANGED world

Restart ==
    /\ ~up
    /\ up' = TRUE
    /\ UNCHANGED <<swap, runner, tasks, ev, world, crashes>>

Resume ==
    /\ up /\ runner = "waiting"
    /\ swap.status # "DONE"
    /\ runner' = "running"
    /\ UNCHANGED <<swap, up, tasks, ev, world, crashes>>

-----------------------------------------------------------------------------
(* The world: the user, LND, the chains.                                   *)

(* The user, or anyone who knows the contract's address.                   *)
Deposit ==
    /\ tip[Chain] <= DepositBy
    /\ Cardinality({d \in Deposits : onchain[d] # Absent}) < MaxDeposits
    /\ \E d \in {"exact"} \cup Strays :
         /\ onchain[d] = Absent
         /\ onchain' = [onchain EXCEPT ![d] = Mempool]
         /\ Announce(d, d)
    /\ UNCHANGED <<server, lightning, tip, spends, crashes>>

(* The user's node takes the payment, or gives it up at the latest when    *)
(* the HTLC expires.                                                       *)
UserSettles ==
    /\ payment = "inflight"
    /\ tip["BITCOIN"] < htlcExpiry
    /\ payment' = "settled"
    /\ UNCHANGED <<server, feed, htlcExpiry, chain, crashes>>

PaymentFails ==
    /\ payment = "inflight"
    /\ payment' = "failed"
    /\ UNCHANGED <<server, feed, htlcExpiry, chain, crashes>>

(* The refund-psbt and refund-tx endpoints spend the saved lockTx.         *)
UserRefunds ==
    /\ swap.lockTx # "none"
    /\ tip[Chain] >= timeoutBlockHeight
    /\ Spend("refund", swap.lockTx)
    /\ UNCHANGED <<server, lightning, tip, crashes>>

(* The events of a block that mines the transactions S, a spend after the  *)
(* deposit it spends.                                                      *)
TxEvents(S, h) ==
    LET Of(t) == IF t \in S THEN <<Event(t, h)>> ELSE << >>
    IN  Of("exact") \o Of("other") \o Of("foreign") \o Of("claim") \o Of("refund")

Minable(S) ==
    /\ \A t \in S : onchain[t] = Mempool
    /\ \A t \in S \cap Spends :
         /\ onchain[spends[t]] > 0 \/ spends[t] \in S
         /\ ~Spent(spends[t])
         /\ \A u \in (S \cap Spends) \ {t} : spends[u] # spends[t]

(* Blocks do not come faster than the server handles them.  With Prompt,   *)
(* nor than its calls return and its retries come (5 and 10 minutes); the  *)
(* payment itself may take as long as its HTLC lasts, the user refunds an  *)
(* expired contract, and a block mines every transaction it can.           *)
Unhurried ==
    /\ CountKind(feed, "block") <= MaxPending
    /\ Prompt =>
        /\ claimer = "off" /\ pay \in {"off", "wait"}
        /\ payment = "settled" => pay = "off"
        /\ payment = "inflight" => tip["BITCOIN"] < htlcExpiry
        /\ swap.status = "CONTRACT_EXPIRED" /\ tip[Chain] > timeoutBlockHeight =>
             \E t \in Spends : onchain[t] # Absent

Mined(S) ==
    Prompt =>
        \A t \in ContractTxs \ S :
            onchain[t] = Mempool =>
                /\ t \in Spends
                /\ \/ Spent(spends[t])
                   \/ \E u \in S \cap Spends : spends[u] = spends[t]

NewBlock ==
    /\ tip[Chain] < MaxHeight[Chain]
    /\ Chain = "LIQUID" => tip["LIQUID"] <= tip["BITCOIN"] * BlockRatio + MaxDrift
    /\ Unhurried
    /\ \E S \in SUBSET ContractTxs :
         LET h == tip[Chain] + 1
         IN  /\ Minable(S) /\ Mined(S)
             /\ tip' = [tip EXCEPT ![Chain] = h]
             /\ onchain' = [t \in ContractTxs |-> IF t \in S THEN h ELSE onchain[t]]
             /\ \/ feed' = Append(feed, Event("block", h)) \o TxEvents(S, h)
                \/ feed' = Append(feed \o TxEvents(S, h), Event("block", h))
    /\ UNCHANGED <<server, lightning, spends, crashes>>

(* A Bitcoin block while the contract is on Liquid: no event of this swap. *)
NewBitcoinBlock ==
    /\ Chain = "LIQUID"
    /\ tip["BITCOIN"] < MaxHeight["BITCOIN"]
    /\ tip["BITCOIN"] * BlockRatio <= tip["LIQUID"] + MaxDrift
    /\ Unhurried
    /\ tip' = [tip EXCEPT !["BITCOIN"] = @ + 1]
    /\ UNCHANGED <<server, feed, lightning, onchain, spends, crashes>>

-----------------------------------------------------------------------------
ServerStep ==
    \/ CheckExpiry
    \/ ComputeLimit \/ SendPayment \/ PaymentReply \/ RetryPayment \/ InvoicePaid
    \/ BroadcastClaim
    \/ ProcessNewBlock \/ ProcessFundingTx \/ RecordMismatch
    \/ RecordSpendingTx \/ ApplySpendingTx
    \/ NobodyListens \/ CommitEvent
    \/ Restart \/ Resume

WorldStep ==
    Deposit \/ UserSettles \/ PaymentFails \/ UserRefunds \/ NewBlock \/ NewBitcoinBlock

Next == ServerStep \/ Crash \/ WorldStep

Spec == Init /\ [][Next]_vars

(* Every timer, reply and handler of the Node.js process gets its turn,    *)
(* blocks keep coming, LND ends an HTLC that expires, and the user takes   *)
(* an expired contract back.  The deposit and a crash are never fair.      *)
Fairness ==
    /\ WF_vars(ComputeLimit) /\ WF_vars(SendPayment) /\ WF_vars(PaymentReply)
    /\ WF_vars(RetryPayment) /\ WF_vars(InvoicePaid) /\ WF_vars(BroadcastClaim)
    /\ WF_vars(ProcessNewBlock) /\ WF_vars(ProcessFundingTx) /\ WF_vars(RecordMismatch)
    /\ WF_vars(RecordSpendingTx) /\ WF_vars(ApplySpendingTx)
    /\ WF_vars(NobodyListens) /\ WF_vars(CommitEvent)
    /\ WF_vars(Restart) /\ WF_vars(Resume)
    /\ WF_vars(UserRefunds) /\ WF_vars(tip["BITCOIN"] >= htlcExpiry /\ PaymentFails)
    /\ WF_vars(NewBlock) /\ WF_vars(NewBitcoinBlock)

LiveSpec == Spec /\ Fairness

-----------------------------------------------------------------------------
(* Properties.                                                             *)

EventKinds == {"block"} \cup ContractTxs
Heights == 0 .. MaxHeight[Chain]

(* The values of every variable (one entity of SwapIn.ts, its task state,  *)
(* and the world).                                                         *)
TypeOK ==
    /\ swap \in
         [ status : Statuses, outcome : Outcomes, inputAmount : {"exact", "other"},
           lockTx : {"none", "exact", "other"}, lockTxHeight : Heights,
           unlockTxHeight : Heights, preImage : BOOLEAN ]
    /\ up \in BOOLEAN
    /\ runner \in {"waiting", "running", "stopped"}
    /\ pay \in {"off", "limit", "send", "wait", "failed", "paid"}
    /\ attempt \in 0 .. Retries
    /\ cltvLimit \in Int
    /\ claimer \in {"off", "exact", "other"}
    /\ ev \in {"idle", "record", "spend", "done"}
    /\ feed \in Seq([kind : EventKinds, h : Heights])
    /\ payment \in {"none", "inflight", "settled", "failed"}
    /\ htlcExpiry \in Nat
    /\ tip \in [Chains -> Nat]
    /\ tip[Chain] <= MaxHeight[Chain]
    /\ onchain \in [ContractTxs -> {Absent} \cup Heights]
    /\ spends \in [Spends -> {"none", "exact", "other"}]
    /\ crashes \in 0 .. MaxCrashes

(* The invoice is paid only against a deposit of the exact amount that has *)
(* the required confirmations.                                             *)
PaidOnlyWhenFunded ==
    payment # "none" => hasEnoughConfirmations(onchain["exact"], tip[Chain])

(* SwapInRunner.ts: the limit makes sure "the cltv is lower enough than    *)
(* swap expiry": of a contract on Bitcoin, whose blocks both limits count, *)
(* a payment under way ends while the server can still claim before the    *)
(* user can refund.  Nothing is said of Liquid.                            *)
PaymentEndsBeforeTimeout ==
    Chain = "BITCOIN" /\ payment = "inflight" => htlcExpiry < timeoutBlockHeight

(* What DONE says of the money, by what the server took and gave.  A       *)
(* SUCCESS was paid and has its claim confirmed, a REFUNDED its refund,    *)
(* and for an EXPIRED the server neither paid nor claimed, then or later.  *)
(* Of deposits EXPIRED says nothing: checkExpiry (SwapInRunner.ts:59-69)   *)
(* goes by age alone, so one may be on its way or come later, against      *)
(* api.types.ts:72, "The swap expired before any funds were sent".         *)
OutcomeTruthful ==
    swap.status = "DONE" =>
        CASE swap.outcome = "SUCCESS" ->
               payment = "settled" /\ hasEnoughConfirmations(onchain["claim"], tip[Chain])
          [] swap.outcome = "REFUNDED" ->
               hasEnoughConfirmations(onchain["refund"], tip[Chain])
          [] swap.outcome = "ERROR" -> onchain["foreign"] # Absent
          [] OTHER -> payment = "none" /\ onchain["claim"] = Absent

(* When every event was handled and no task is left, the saved status is   *)
(* what the chain says.                                                    *)
Quiescent ==
    /\ up /\ runner = "running" /\ ev = "idle" /\ feed = << >>
    /\ pay = "off" /\ claimer = "off"

Buried(t) == onchain[t] > 0 /\ tip[Chain] >= onchain[t] + RequiredConfirmations + 1

StatusFollowsChain ==
    Quiescent =>
        /\ ~Buried("claim")
        /\ ~Buried("refund")
        /\ onchain["claim"] = Absent /\ onchain["refund"] = Absent =>
             \A d \in {"exact", "other"} : Buried(d) =>
               swap.status = IF tip[Chain] >= timeoutBlockHeight THEN "CONTRACT_EXPIRED"
                             ELSE IF d = "exact" THEN "CONTRACT_FUNDED"
                             ELSE "CONTRACT_AMOUNT_MISMATCH"

(* The two payments either both succeed or both fail.                      *)
BothSucceedOrBothFail ==
    payment = "settled" => onchain["refund"] <= Mempool

(* The claim reveals nothing the database does not keep: when it is on the *)
(* chain the user was paid, and the preimage was saved first.              *)
ClaimOnlyWithSavedPreimage ==
    onchain["claim"] # Absent => payment = "settled" /\ swap.preImage

(* Once recorded, a deposit does not stay in the contract.                 *)
FundedSwapFinishes == swap.lockTx # "none" ~> swap.status = "DONE"

(* The swap as a user sees it.                                             *)
chainLeg ==
    IF onchain["claim"] > 0 THEN "claimed"
    ELSE IF onchain["refund"] > 0 THEN "refunded"
    ELSE IF \E d \in Deposits : onchain[d] # Absent THEN "locked" ELSE "none"

lightningLeg ==
    CASE payment = "inflight" -> "held"
      [] payment = "settled" -> "settled"
      [] payment = "failed" -> "canceled"
      [] OTHER -> "open"

Abstract == INSTANCE AtomicSwap WITH Direction <- "in"

ImplementsAtomicSwap == Abstract!Spec

view == [status |-> swap.status, outcome |-> swap.outcome]

View == INSTANCE SwapView WITH Moves <- InMoves

(* What a further deposit adds to InMoves: of another amount or asset, it  *)
(* ends or stops a swap in whatever status it is met, even one being paid; *)
(* the payment under way is recorded all the same, and with it a swap that *)
(* ended goes on, its outcome kept.                                        *)
FurtherDepositMoves ==
    /\ Cardinality({d \in Deposits : onchain[d] # Absent}) > 1
    /\ \/ swap.status # "DONE" /\ view' = Ended("ERROR")
       \/ /\ UNCHANGED swap.outcome
          /\ \/ /\ swap.status # "DONE"
                /\ swap'.status = "CONTRACT_AMOUNT_MISMATCH_UNCONFIRMED"
             \/ /\ swap.status \in {"CONTRACT_AMOUNT_MISMATCH_UNCONFIRMED",
                                     "CONTRACT_AMOUNT_MISMATCH", "DONE"}
                /\ swap'.status = "INVOICE_PAID"
             \/ /\ swap.outcome # "NONE"
                /\ At(swap'.status) \in InMoves[swap.status]

(* What the user's polls are told follows SwapView as long as the contract *)
(* gets one deposit, whatever the order of deposit, payment, blocks and    *)
(* tasks: no status is skipped or taken back in a way a client does not    *)
(* expect.  With more deposits only the moves above are added, among them  *)
(* CONTRACT_FUNDED and INVOICE_PAID taken back to a mismatch               *)
(* (SwapInRunner.ts:207-213).                                              *)
ImplementsView ==
    View!Init /\ [][View!Next \/ FurtherDepositMoves]_view

=============================================================================
