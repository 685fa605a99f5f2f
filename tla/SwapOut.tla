------------------------------- MODULE SwapOut -------------------------------
(***************************************************************************)
(* One swap-out (Lightning -> chain) as the server runs it: SwapOutRunner, *)
(* the record it saves, its asynchronous tasks, the nbxplorer events it is *)
(* fed, LND's hold invoice, the contract on the chain, and the user.       *)
(*                                                                         *)
(* The server is one Node.js thread.  A step of the model is the code      *)
(* between two awaits; a task waiting on an await is a program counter,    *)
(* and everything else may run before it resumes.                          *)
(***************************************************************************)
EXTENDS SwapCommon, SwapStatus, FiniteSetsExt

CONSTANTS
    Chain,            \* "BITCOIN" or "LIQUID": the chain of the contract
    LockBlockDelta,   \* swap.lockBlockDelta.out
    CltvGap,          \* BLOCKS_BETWEEN_CLTV_AND_SWAP_EXPIRATIONS
    BlockRatio,       \* Liquid blocks per Bitcoin block
    Faults,           \* the failures this instance admits
    Prompt,           \* BOOLEAN: miners and the server's calls are prompt
    MaxHeight,        \* bound: the last block of each chain
    MaxPending,       \* bound: how many blocks the server may lag behind
    PayBy,            \* bound: the last height at which the user pays
    MaxDrift,         \* bound: Liquid blocks by which Liquid may leave its pace
    MaxCrashes        \* bound: crashes of the server

Chains == {"BITCOIN", "LIQUID"}
ContractTxs == {"lock", "claim", "refund"}

FaultKinds ==
    { "send_error",       \* the funding transaction is refused
      "send_ambiguous",   \* it is sent, but the call reports an error
      "cancel_race",      \* LND serves a cancellation after a later request
      "cancel_error",     \* a cancellation fails
      "settle_error",     \* a settlement fails
      "broadcast_error",  \* the refund is not accepted by nbxplorer
      "late_resume" }     \* events are dispatched before the swap is resumed

ASSUME SwapOutAssumption ==
    /\ Chain \in Chains
    /\ LockBlockDelta \in Nat \ {0}
    /\ CltvGap \in Nat
    /\ BlockRatio \in Nat \ {0}
    /\ Faults \subseteq FaultKinds
    /\ Prompt \in BOOLEAN
    /\ MaxHeight \in [Chains -> Nat \ {0}]
    /\ MaxPending \in Nat
    /\ PayBy \in Nat
    /\ MaxDrift \in Nat
    /\ MaxCrashes \in Nat

Statuses ==
    { "CREATED", "INVOICE_PAYMENT_INTENT_RECEIVED", "CONTRACT_FUNDED_UNCONFIRMED",
      "CONTRACT_FUNDED", "CONTRACT_CLAIMED_UNCONFIRMED", "DONE",
      "CONTRACT_EXPIRED", "CONTRACT_REFUNDED_UNCONFIRMED" }
Outcomes == {"NONE", "SUCCESS", "REFUNDED", "EXPIRED", "ERROR"}
InvoiceStates == {"OPEN", "ACCEPTED", "SETTLED", "CANCELED"}

VARIABLES
    swap,       \* the runner's swap entity, in memory
    db,         \* the same entity as last saved
    up,         \* the server process runs
    runner,     \* SwapService.runningSwaps: "waiting" to be resumed, "running", "stopped"
    poll,       \* waitForLightningPaymentIntent: "off", "idle", or the reply it holds
    expiry,     \* checkExpiry: "off", "armed", "cancelling", "cancelled"
    intent,     \* onStatusChange(INVOICE_PAYMENT_INTENT_RECEIVED)
    refunder,   \* onStatusChange(CONTRACT_EXPIRED): "off", "build"
    canceller,  \* onStatusChange(DONE) cancelling the invoice: "off", "cancel"
    ev,         \* the event loop's handler: "idle", "spend", "settle", "settled", "done"
    feed,       \* nbxplorer's events after lastEventId, oldest first
    invoice,    \* LND's state of the hold invoice
    htlcs,      \* expiry heights of the HTLCs that hold the payment
    tip,        \* the height of each chain
    onchain,    \* where the contract's transactions are
    sends,      \* how many times the contract was funded
    crashes     \* bounded by MaxCrashes

tasks == <<poll, expiry, intent, refunder, canceller>>
server == <<swap, db, up, runner, tasks, ev>>
world == <<feed, invoice, htlcs, tip, onchain, sends>>
vars == <<server, world, crashes>>

-----------------------------------------------------------------------------
(* SwapService.createSwapOut has added the hold invoice and saved the swap *)
(* in status CREATED, and startSwap has run the runner.                    *)

NewSwap ==
    [ status |-> "CREATED", outcome |-> "NONE", contract |-> FALSE,
      timeoutBlockHeight |-> 0, lockTx |-> FALSE, lockTxHeight |-> 0,
      unlockTxHeight |-> 0, preImage |-> FALSE ]

Init ==
    /\ swap = NewSwap
    /\ db = NewSwap
    /\ up = TRUE
    /\ runner = "running"
    /\ poll = "idle"
    /\ expiry = "armed"
    /\ intent = "off"
    /\ refunder = "off"
    /\ canceller = "off"
    /\ ev = "idle"
    /\ feed = << >>
    /\ invoice = "OPEN"
    /\ htlcs = {}
    /\ tip = [c \in Chains |-> 1]
    /\ onchain = [t \in ContractTxs |-> Absent]
    /\ sends = 0
    /\ crashes = 0

(* repository.save(swap): the whole entity.  A crash before the write is a *)
(* crash before the step, so assignment and save are one step.             *)
Save(s) == swap' = s /\ db' = s

(* Nest reports a rejected floating promise to nobody: Node exits.  Every  *)
(* task is gone, and the next start reads the entity from the database.    *)
Die ==
    /\ up' = FALSE
    /\ runner' = "waiting"
    /\ swap' = db
    /\ poll' = "off"
    /\ expiry' = "off"
    /\ intent' = "off"
    /\ refunder' = "off"
    /\ canceller' = "off"
    /\ ev' = "idle"
    /\ UNCHANGED db

-----------------------------------------------------------------------------
(* waitForLightningPaymentIntent.                                          *)

(* The loop's condition, then lookUpInvoice: the reply is what LND held    *)
(* when it served the request.                                             *)
PollInvoice ==
    /\ poll = "idle"
    /\ poll' = IF swap.status = "CREATED" THEN invoice ELSE "off"
    /\ UNCHANGED <<swap, db, up, runner, expiry, intent, refunder, canceller, ev,
                   world, crashes>>

(* The code after the await does not look at the status again.             *)
PollReply ==
    /\ poll \in InvoiceStates
    /\ IF poll = "ACCEPTED"
         THEN /\ Save([swap EXCEPT !.status = "INVOICE_PAYMENT_INTENT_RECEIVED"])
              /\ intent' = "contract"
              /\ poll' = "off"
         ELSE /\ poll' = IF poll = "CANCELED" THEN "off" ELSE "idle"
              /\ UNCHANGED <<swap, db, intent>>
    /\ UNCHANGED <<up, runner, expiry, refunder, canceller, ev, world, crashes>>

(* checkExpiry, once a minute while the status is CREATED; the swap may be *)
(* older than expiryDuration at any of them.  Unless "cancel_race", LND    *)
(* serves the cancellation before any request made later.                  *)
CancelServed ==
    \/ invoice' = IF invoice = "SETTLED" THEN "SETTLED" ELSE "CANCELED"
    \/ "cancel_error" \in Faults /\ UNCHANGED invoice

CheckExpiry ==
    /\ expiry = "armed"
    /\ IF swap.status = "CREATED"
         THEN IF "cancel_race" \in Faults
                THEN expiry' = "cancelling" /\ UNCHANGED invoice
                ELSE expiry' = "cancelled" /\ CancelServed
         ELSE expiry' = "off" /\ UNCHANGED invoice
    /\ UNCHANGED <<swap, db, up, runner, poll, intent, refunder, canceller, ev,
                   feed, htlcs, tip, onchain, sends, crashes>>

ServeExpiryCancel ==
    /\ expiry = "cancelling"
    /\ expiry' = "cancelled"
    /\ CancelServed
    /\ UNCHANGED <<swap, db, up, runner, poll, intent, refunder, canceller, ev,
                   feed, htlcs, tip, onchain, sends, crashes>>

(* The status is not looked at again after the await; stop() takes the     *)
(* runner out of runningSwaps.  Without "cancel_race" a lookup reply LND   *)
(* sent earlier is handled earlier.                                        *)
FinishExpiry ==
    /\ expiry = "cancelled"
    /\ "cancel_race" \in Faults \/ poll \in {"off", "idle", "CANCELED"}
    /\ Save([swap EXCEPT !.status = "DONE", !.outcome = "EXPIRED"])
    /\ expiry' = "off"
    /\ runner' = "stopped"
    /\ UNCHANGED <<up, poll, intent, refunder, canceller, ev, world, crashes>>

-----------------------------------------------------------------------------
(* onStatusChange(INVOICE_PAYMENT_INTENT_RECEIVED).                        *)

LastCltvExpiry == Max(htlcs)                                     \* mutant

(* getCltvExpiry: the HTLC that expires first.                             *)
getCltvExpiry == Min(htlcs)

TimeoutAtExpiry ==                                               \* mutant
    IF Chain = "BITCOIN"
      THEN getCltvExpiry
      ELSE tip["LIQUID"] + (getCltvExpiry - tip["BITCOIN"]) * BlockRatio

(* The height after which the server can take the contract's funds back:   *)
(* CltvGap Bitcoin blocks before the HTLC expires.                         *)
contractTimeout ==
    IF Chain = "BITCOIN"
      THEN getCltvExpiry - CltvGap
      ELSE tip["LIQUID"] + (getCltvExpiry - tip["BITCOIN"] - CltvGap) * BlockRatio

(* createContract asserts that the invoice is still ACCEPTED and, on       *)
(* Liquid, that the HTLC has not expired; a failed assertion rejects the   *)
(* floating onStatusChange.  On Liquid the contract is saved here.  The    *)
(* lookup and the two heights are awaited one after the other; they are    *)
(* read at one moment here.                                                *)
CreateContract ==
    /\ intent = "contract"
    /\ \/ /\ invoice = "ACCEPTED"
          /\ Chain = "LIQUID" => getCltvExpiry > tip["BITCOIN"]
          /\ LET s == [swap EXCEPT !.contract = TRUE,
                                   !.timeoutBlockHeight = contractTimeout]
             IN IF Chain = "LIQUID" THEN Save(s) ELSE swap' = s /\ UNCHANGED db
          /\ intent' = "track"
          /\ UNCHANGED <<up, runner, poll, expiry, refunder, canceller, ev>>
       \/ /\ \/ invoice # "ACCEPTED"
             \/ Chain = "LIQUID" /\ getCltvExpiry <= tip["BITCOIN"]
          /\ Die
    /\ UNCHANGED <<world, crashes>>

(* trackAddress, and on Bitcoin the save at the top of payToContractOnChain *)
TrackContract ==
    /\ intent = "track"
    /\ intent' = "sending"
    /\ IF Chain = "BITCOIN" THEN Save(swap) ELSE UNCHANGED <<swap, db>>
    /\ UNCHANGED <<up, runner, poll, expiry, refunder, canceller, ev, world, crashes>>

(* A transaction enters the mempool; nbxplorer may announce it only once   *)
(* it is confirmed, and announces a spend after the funding it spends.     *)
FundingAnnounced ==
    \/ onchain["lock"] > Mempool \/ db.lockTx
    \/ \E i \in DOMAIN feed : feed[i].kind = "lock"

Broadcast(t) ==
    /\ onchain' = [onchain EXCEPT ![t] = Mempool]
    /\ \/ /\ t # "lock" => FundingAnnounced
          /\ feed' = Append(feed, Event(t, 0))
       \/ UNCHANGED feed

(* lnd.sendCoinsOnChain, or nbxplorer.broadcastTx on Liquid: the money     *)
(* leaves before the reply arrives.                                        *)
SendCoins ==
    /\ intent = "sending"
    /\ intent' = "sent"
    /\ Broadcast("lock")
    /\ sends' = sends + 1
    /\ UNCHANGED <<swap, db, up, runner, poll, expiry, refunder, canceller, ev,
                   invoice, htlcs, tip, crashes>>

SendTimesOut ==                                                  \* mutant
    /\ \/ intent = "sent" /\ intent' \in {"off", "failed"}
       \/ intent = "sending" /\ intent' = "failed"
    /\ UNCHANGED <<swap, db, up, runner, poll, expiry, refunder, canceller, ev,
                   world, crashes>>

SendReply ==
    /\ \/ intent = "sent" /\ intent' = "off"
       \/ intent = "sent" /\ "send_ambiguous" \in Faults /\ intent' = "failed"
       \/ intent = "sending" /\ "send_error" \in Faults /\ intent' = "failed"
    /\ UNCHANGED <<swap, db, up, runner, poll, expiry, refunder, canceller, ev,
                   world, crashes>>

(* The catch block: whatever the status has become meanwhile.              *)
AbortPayment ==
    /\ intent = "failed"
    /\ intent' = "off"
    /\ Save([swap EXCEPT !.status = "DONE", !.outcome = "ERROR"])
    /\ canceller' = "cancel"
    /\ UNCHANGED <<up, runner, poll, expiry, refunder, ev, world, crashes>>

(* onStatusChange(DONE), outcome REFUNDED or ERROR: errors are logged.     *)
CancelInvoice ==
    /\ canceller = "cancel"
    /\ canceller' = "off"
    /\ CancelServed
    /\ UNCHANGED <<swap, db, up, runner, poll, expiry, intent, refunder, ev,
                   feed, htlcs, tip, onchain, sends, crashes>>

(* buildRefundTx sets nLockTime: the node takes the refund from then on.   *)
RefundUnlocked == tip[Chain] >= swap.timeoutBlockHeight

(* onStatusChange(CONTRACT_EXPIRED): build and broadcast the refund, once. *)
(* The node refuses a conflict with a mined claim, and may refuse one with *)
(* a claim in its mempool; nbxplorer does not report that.                 *)
BroadcastRefund ==
    /\ refunder = "build"
    /\ \/ /\ onchain["refund"] = Absent
          /\ onchain["claim"] <= Mempool
          /\ RefundUnlocked
          /\ Broadcast("refund")
          /\ refunder' = "off"
          /\ UNCHANGED <<swap, db, up, runner, poll, expiry, intent, canceller, ev>>
       \/ /\ onchain["claim"] # Absent \/ onchain["refund"] # Absent
          /\ refunder' = "off"
          /\ UNCHANGED <<swap, db, up, runner, poll, expiry, intent, canceller, ev,
                         onchain, feed>>
       \/ /\ "broadcast_error" \in Faults
          /\ Die
          /\ UNCHANGED <<onchain, feed>>
    /\ UNCHANGED <<invoice, htlcs, tip, sends, crashes>>

-----------------------------------------------------------------------------
(* The event loop: one event at a time, lastEventId advancing only when    *)
(* every handler is done.                                                  *)

Dispatch(kind) ==
    /\ up /\ runner = "running"
    /\ ev = "idle"
    /\ feed # << >>
    /\ Head(feed).kind = kind

height == Head(feed).h

nullHeight(old) == IF height > 0 THEN height ELSE Absent        \* mutant

(* A recorded height is overwritten by the height of a confirmed event.    *)
confirmedHeight(old) == IF height > 0 THEN height ELSE old

(* A handler throws: Nest's listener wrapper or the Liquid loop logs the   *)
(* error and the feed moves on, or the Bitcoin loop ends with the process  *)
(* and the event is delivered again after the restart.                     *)
HandlerThrows ==
    \/ /\ ev' = "done"
       /\ UNCHANGED <<swap, db, up, runner, tasks>>
    \/ Die

ExpiresWithoutRefund ==                                          \* mutant
    /\ swap.status = "CONTRACT_FUNDED"
    /\ swap.timeoutBlockHeight <= height
    /\ Save([swap EXCEPT !.status = "CONTRACT_EXPIRED"])
    /\ ev' = "done"
    /\ UNCHANGED <<refunder, canceller>>

ExpiresUnconfirmed ==                                            \* mutant
    /\ swap.status \in {"CONTRACT_FUNDED_UNCONFIRMED", "CONTRACT_FUNDED"}
    /\ swap.timeoutBlockHeight <= height
    /\ IF swap.unlockTxHeight = 0
         THEN Save([swap EXCEPT !.status = "CONTRACT_EXPIRED"]) /\ refunder' = "build"
         ELSE UNCHANGED <<swap, db, refunder>>
    /\ ev' = "done"
    /\ UNCHANGED canceller

(* SwapOutRunner.processNewBlock.                                          *)
BlockExpires ==
    /\ swap.status = "CONTRACT_FUNDED"
    /\ swap.timeoutBlockHeight <= height
    /\ IF swap.unlockTxHeight = 0
         THEN Save([swap EXCEPT !.status = "CONTRACT_EXPIRED"]) /\ refunder' = "build"
         ELSE UNCHANGED <<swap, db, refunder>>
    /\ ev' = "done"
    /\ UNCHANGED canceller

BlockFunds ==
    /\ swap.status = "CONTRACT_FUNDED_UNCONFIRMED"
    /\ hasEnoughConfirmations(swap.lockTxHeight, height)
    /\ Save([swap EXCEPT !.status = "CONTRACT_FUNDED"])
    /\ ev' = "done"
    /\ UNCHANGED <<refunder, canceller>>

RefundsUnconfirmed ==                                            \* mutant
    /\ swap.status = "CONTRACT_REFUNDED_UNCONFIRMED"
    /\ Save([swap EXCEPT !.status = "DONE", !.outcome = "REFUNDED"])
    /\ canceller' = "cancel"
    /\ ev' = "done"
    /\ UNCHANGED refunder

BlockRefunds ==
    /\ swap.status = "CONTRACT_REFUNDED_UNCONFIRMED"
    /\ hasEnoughConfirmations(swap.unlockTxHeight, height)
    /\ Save([swap EXCEPT !.status = "DONE", !.outcome = "REFUNDED"])
    /\ canceller' = "cancel"
    /\ ev' = "done"
    /\ UNCHANGED refunder

SettlesUnconfirmed ==                                            \* mutant
    /\ swap.status = "CONTRACT_CLAIMED_UNCONFIRMED"
    /\ ev' = "settle"
    /\ UNCHANGED <<swap, db, refunder, canceller>>

BlockSettles ==
    /\ swap.status = "CONTRACT_CLAIMED_UNCONFIRMED"
    /\ hasEnoughConfirmations(swap.unlockTxHeight, height)
    /\ ev' = "settle"
    /\ UNCHANGED <<swap, db, refunder, canceller>>

BlockIgnored ==
    /\ CASE swap.status = "CONTRACT_FUNDED" -> swap.timeoutBlockHeight > height
         [] swap.status = "CONTRACT_FUNDED_UNCONFIRMED" ->
              ~hasEnoughConfirmations(swap.lockTxHeight, height)
         [] swap.status \in {"CONTRACT_REFUNDED_UNCONFIRMED",
                             "CONTRACT_CLAIMED_UNCONFIRMED"} ->
              ~hasEnoughConfirmations(swap.unlockTxHeight, height)
         [] OTHER -> TRUE
    /\ ev' = "done"
    /\ UNCHANGED <<swap, db, refunder, canceller>>

ProcessNewBlock ==
    /\ Dispatch("block")
    /\ BlockExpires \/ BlockFunds \/ BlockRefunds \/ BlockSettles \/ BlockIgnored
    /\ UNCHANGED <<up, runner, poll, expiry, intent, world, crashes>>

(* settleInvoice inside the block handler.  LND refuses a cancelled        *)
(* invoice and accepts a settled one again.                                *)
SettleInvoice ==
    /\ ev = "settle"
    /\ \/ /\ invoice \in {"ACCEPTED", "SETTLED"}
          /\ swap.preImage
          /\ invoice' = "SETTLED"
          /\ ev' = "settled"
          /\ UNCHANGED <<swap, db, up, runner, tasks>>
       \/ /\ \/ invoice \in {"OPEN", "CANCELED"}
             \/ ~swap.preImage
             \/ "settle_error" \in Faults
          /\ HandlerThrows
          /\ UNCHANGED invoice
    /\ UNCHANGED <<feed, htlcs, tip, onchain, sends, crashes>>

FinishSwap ==
    /\ ev = "settled"
    /\ Save([swap EXCEPT !.status = "DONE", !.outcome = "SUCCESS"])
    /\ ev' = "done"
    /\ UNCHANGED <<up, runner, tasks, world, crashes>>

(* SwapOutRunner.processContractFundingTx, for the funding the server sent *)
ProcessFundingTx ==
    /\ Dispatch("lock")
    /\ IF /\ swap.contract
          /\ swap.status \in {"INVOICE_PAYMENT_INTENT_RECEIVED",
                              "CONTRACT_FUNDED_UNCONFIRMED"}
         THEN Save([swap EXCEPT !.lockTxHeight = confirmedHeight(@),
                                !.lockTx = TRUE,
                                !.status = "CONTRACT_FUNDED_UNCONFIRMED"])
         ELSE UNCHANGED <<swap, db>>
    /\ ev' = "done"
    /\ UNCHANGED <<up, runner, tasks, world, crashes>>

(* SwapOutRunner.processContractSpendingTx up to its first save: the       *)
(* unlocking transaction is recorded, unless a confirmed one already was.  *)
RecordSpendingTx ==
    /\ Dispatch("claim") \/ Dispatch("refund")
    /\ \/ /\ ~swap.contract
          /\ ev' = "done"
          /\ UNCHANGED <<swap, db, up, runner, tasks>>
       \/ /\ swap.contract /\ ~swap.lockTx
          /\ HandlerThrows
       \/ /\ swap.contract /\ swap.lockTx
          /\ IF swap.unlockTxHeight # 0 /\ height > 0
               THEN ev' = "done" /\ UNCHANGED <<swap, db>>
               ELSE /\ ev' = "spend"
                    /\ Save([swap EXCEPT !.unlockTxHeight =
                                 IF @ = 0 THEN height ELSE @])
          /\ UNCHANGED <<up, runner, tasks>>
    /\ UNCHANGED <<world, crashes>>

RefundTakenForClaim ==                                           \* mutant
    /\ Head(feed).kind = "refund"
    /\ Save([swap EXCEPT !.preImage = TRUE, !.status = "CONTRACT_CLAIMED_UNCONFIRMED"])

RefundOnlyAfterClaim ==                                          \* mutant
    /\ Head(feed).kind = "refund"
    /\ IF swap.status = "CONTRACT_CLAIMED_UNCONFIRMED"
         THEN Save([swap EXCEPT !.status = "CONTRACT_REFUNDED_UNCONFIRMED"])
         ELSE UNCHANGED <<swap, db>>

(* ... and the rest of it: the status.                                     *)
ApplyRefundTx ==
    /\ Head(feed).kind = "refund"
    /\ IF swap.status \in {"CONTRACT_EXPIRED", "CONTRACT_CLAIMED_UNCONFIRMED"}
         THEN Save([swap EXCEPT !.status = "CONTRACT_REFUNDED_UNCONFIRMED"])
         ELSE UNCHANGED <<swap, db>>

ClaimLosesToRefund ==                                            \* mutant
    /\ Head(feed).kind = "claim"
    /\ IF swap.status \in {"CONTRACT_FUNDED", "CONTRACT_EXPIRED",
                           "CONTRACT_FUNDED_UNCONFIRMED"}
         THEN Save([swap EXCEPT !.preImage = TRUE,
                                !.status = "CONTRACT_CLAIMED_UNCONFIRMED"])
         ELSE swap' = [swap EXCEPT !.preImage = TRUE] /\ UNCHANGED db

(* The preimage is saved only with the status.                             *)
ApplyClaimTx ==
    /\ Head(feed).kind = "claim"
    /\ IF swap.status \in {"CONTRACT_FUNDED", "CONTRACT_REFUNDED_UNCONFIRMED",
                           "CONTRACT_EXPIRED", "CONTRACT_FUNDED_UNCONFIRMED"}
         THEN Save([swap EXCEPT !.preImage = TRUE,
                                !.status = "CONTRACT_CLAIMED_UNCONFIRMED"])
         ELSE swap' = [swap EXCEPT !.preImage = TRUE] /\ UNCHANGED db

ApplySpendingTx ==
    /\ ev = "spend"
    /\ ApplyRefundTx \/ ApplyClaimTx
    /\ ev' = "done"
    /\ UNCHANGED <<up, runner, tasks, world, crashes>>

(* No runner is registered: the swap ended before this start, or it is not *)
(* resumed yet.                                                            *)
NobodyListens ==
    /\ up /\ runner # "running"
    /\ ev = "idle"
    /\ feed # << >>
    /\ runner = "stopped" \/ db.status = "DONE" \/ "late_resume" \in Faults
    /\ ev' = "done"
    /\ UNCHANGED <<swap, db, up, runner, tasks, world, crashes>>

CommitEvent ==
    /\ ev = "done"
    /\ ev' = "idle"
    /\ feed' = Tail(feed)
    /\ UNCHANGED <<swap, db, up, runner, tasks, invoice, htlcs, tip, onchain, sends,
                   crashes>>

-----------------------------------------------------------------------------
(* Crashes and SwapService.onApplicationBootstrap.                         *)

Crash ==
    /\ up
    /\ crashes < MaxCrashes
    /\ crashes' = crashes + 1
    /\ Die
    /\ UNCHANGED world

Restart ==
    /\ ~up
    /\ up' = TRUE
    /\ UNCHANGED <<swap, db, runner, tasks, ev, world, crashes>>

ResumesIntent ==                                                 \* mutant
    /\ up /\ runner = "waiting"
    /\ db.status # "DONE"
    /\ swap' = db
    /\ runner' = "running"
    /\ poll' = IF db.status = "CREATED" THEN "idle" ELSE "off"
    /\ expiry' = IF db.status = "CREATED" THEN "armed" ELSE "off"
    /\ intent' = IF db.status = "INVOICE_PAYMENT_INTENT_RECEIVED"
                   THEN "contract" ELSE intent
    /\ UNCHANGED <<db, up, refunder, canceller, ev, world, crashes>>

(* Every swap that is not DONE gets a runner; run() restarts the two       *)
(* pollers of a CREATED one, and nothing else.                             *)
Resume ==
    /\ up /\ runner = "waiting"
    /\ db.status # "DONE"
    /\ swap' = db
    /\ runner' = "running"
    /\ poll' = IF db.status = "CREATED" THEN "idle" ELSE "off"
    /\ expiry' = IF db.status = "CREATED" THEN "armed" ELSE "off"
    /\ UNCHANGED <<db, up, intent, refunder, canceller, ev, world, crashes>>

-----------------------------------------------------------------------------
(* The world: LND, the chains, the user.                                   *)

(* The payer's HTLCs expire at least cltvExpiry = out + gap blocks later.  *)
PayInvoice ==
    /\ invoice = "OPEN"
    /\ tip["BITCOIN"] <= PayBy
    /\ invoice' = "ACCEPTED"
    /\ LET earliest == tip["BITCOIN"] + LockBlockDelta + CltvGap
       IN  htlcs' \in (SUBSET {earliest, earliest + 1}) \ {{}}
    /\ UNCHANGED <<server, feed, tip, onchain, sends, crashes>>

(* expiryDuration passed, or LND gives up an HTLC that expires.            *)
InvoiceLapses ==
    /\ \/ invoice = "OPEN"
       \/ invoice = "ACCEPTED" /\ tip["BITCOIN"] >= getCltvExpiry
    /\ invoice' = "CANCELED"
    /\ UNCHANGED <<server, feed, htlcs, tip, onchain, sends, crashes>>

UserClaims ==
    /\ onchain["lock"] # Absent
    /\ onchain["claim"] = Absent
    /\ onchain["refund"] <= Mempool
    /\ Broadcast("claim")
    /\ UNCHANGED <<server, invoice, htlcs, tip, sends, crashes>>

(* The events of a block that mines the transactions S, a spend after the  *)
(* funding it spends.                                                      *)
TxEvents(S, h) ==
    (IF "lock" \in S THEN <<Event("lock", h)>> ELSE << >>)
    \o (IF "claim" \in S THEN <<Event("claim", h)>> ELSE << >>)
    \o (IF "refund" \in S THEN <<Event("refund", h)>> ELSE << >>)

Minable(S) ==
    /\ \A t \in S : onchain[t] = Mempool
    /\ S \cap {"claim", "refund"} # {} => onchain["lock"] > 0 \/ "lock" \in S
    /\ "claim" \in S => onchain["refund"] <= Mempool /\ "refund" \notin S
    /\ "refund" \in S => onchain["claim"] <= Mempool

(* The server lags at most MaxPending blocks behind (an outage included),  *)
(* and it does not take as long to pay as the contract lasts.              *)
PaymentPending ==
    /\ invoice = "ACCEPTED"
    /\ db.status = "CREATED" \/ intent # "off"

PaymentInTime ==
    /\ PaymentPending => tip["BITCOIN"] + 1 < getCltvExpiry - CltvGap
    /\ intent \in {"track", "sending", "sent", "failed"} =>
         tip[Chain] + 1 < swap.timeoutBlockHeight

(* Blocks do not come faster than the server handles them, or, with        *)
(* Prompt, broadcasts a refund; a block then mines every transaction it can *)
Unhurried ==
    /\ CountKind(feed, "block") <= MaxPending
    /\ Prompt => refunder = "off"

Mined(S) ==
    Prompt =>
        \A t \in ContractTxs \ S :
            onchain[t] = Mempool =>
                t # "lock" /\ \E u \in ContractTxs \ {"lock", t} :
                                 onchain[u] > Mempool \/ u \in S

(* A block of the contract's chain.                                        *)
NewBlock ==
    /\ tip[Chain] < MaxHeight[Chain]
    /\ Chain = "LIQUID" => tip["LIQUID"] <= tip["BITCOIN"] * BlockRatio + MaxDrift
    /\ PaymentInTime
    /\ Unhurried
    /\ \E S \in SUBSET ContractTxs :
         LET h == tip[Chain] + 1
         IN  /\ Minable(S) /\ Mined(S)
             /\ tip' = [tip EXCEPT ![Chain] = h]
             /\ onchain' = [t \in ContractTxs |-> IF t \in S THEN h ELSE onchain[t]]
             /\ \/ feed' = Append(feed, Event("block", h)) \o TxEvents(S, h)
                \/ feed' = Append(feed \o TxEvents(S, h), Event("block", h))
    /\ UNCHANGED <<server, invoice, htlcs, sends, crashes>>

(* A Bitcoin block while the contract is on Liquid: no event of this swap. *)
NewBitcoinBlock ==
    /\ Chain = "LIQUID"
    /\ tip["BITCOIN"] < MaxHeight["BITCOIN"]
    /\ tip["BITCOIN"] * BlockRatio <= tip["LIQUID"] + MaxDrift
    /\ PaymentInTime
    /\ Unhurried
    /\ tip' = [tip EXCEPT !["BITCOIN"] = @ + 1]
    /\ UNCHANGED <<server, feed, invoice, htlcs, onchain, sends, crashes>>

-----------------------------------------------------------------------------
ServerStep ==
    \/ PollInvoice \/ PollReply
    \/ CheckExpiry \/ ServeExpiryCancel \/ FinishExpiry
    \/ CreateContract \/ TrackContract \/ SendCoins \/ SendReply \/ AbortPayment
    \/ CancelInvoice \/ BroadcastRefund
    \/ ProcessNewBlock \/ SettleInvoice \/ FinishSwap
    \/ ProcessFundingTx \/ RecordSpendingTx \/ ApplySpendingTx
    \/ NobodyListens \/ CommitEvent
    \/ Restart \/ Resume

WorldStep ==
    PayInvoice \/ InvoiceLapses \/ UserClaims \/ NewBlock \/ NewBitcoinBlock

Next == ServerStep \/ Crash \/ WorldStep

Spec == Init /\ [][Next]_vars

(* Every timer, reply and handler of the Node.js process gets its turn, and *)
(* blocks keep coming.  The user owes nothing, and a crash is never fair.  *)
Fairness ==
    /\ WF_vars(PollInvoice) /\ WF_vars(PollReply)
    /\ WF_vars(CheckExpiry) /\ WF_vars(ServeExpiryCancel) /\ WF_vars(FinishExpiry)
    /\ WF_vars(CreateContract) /\ WF_vars(TrackContract) /\ WF_vars(SendCoins)
    /\ WF_vars(SendReply) /\ WF_vars(AbortPayment)
    /\ WF_vars(CancelInvoice) /\ WF_vars(BroadcastRefund)
    /\ WF_vars(ProcessNewBlock) /\ WF_vars(SettleInvoice) /\ WF_vars(FinishSwap)
    /\ WF_vars(ProcessFundingTx) /\ WF_vars(RecordSpendingTx)
    /\ WF_vars(ApplySpendingTx) /\ WF_vars(NobodyListens) /\ WF_vars(CommitEvent)
    /\ WF_vars(Restart) /\ WF_vars(Resume)
    /\ WF_vars(NewBlock) /\ WF_vars(NewBitcoinBlock)

LiveSpec == Spec /\ Fairness

-----------------------------------------------------------------------------
(* Properties.                                                             *)

EventKinds == {"block"} \cup ContractTxs
Heights == 0 .. MaxHeight[Chain]

(* The values of every variable (one entity of SwapOut.ts, its task state, *)
(* and the world).                                                         *)
TypeOK ==
    /\ {swap, db} \subseteq
         [ status : Statuses, outcome : Outcomes, contract : BOOLEAN,
           timeoutBlockHeight : Int, lockTx : BOOLEAN, lockTxHeight : Heights,
           unlockTxHeight : Heights, preImage : BOOLEAN ]
    /\ up \in BOOLEAN
    /\ runner \in {"waiting", "running", "stopped"}
    /\ poll \in {"off", "idle"} \cup InvoiceStates
    /\ expiry \in {"off", "armed", "cancelling", "cancelled"}
    /\ intent \in {"off", "contract", "track", "sending", "sent", "failed"}
    /\ refunder \in {"off", "build"}
    /\ canceller \in {"off", "cancel"}
    /\ ev \in {"idle", "spend", "settle", "settled", "done"}
    /\ feed \in Seq([kind : EventKinds, h : Heights])
    /\ invoice \in InvoiceStates
    /\ htlcs \subseteq Nat
    /\ tip \in [Chains -> Nat]
    /\ tip[Chain] <= MaxHeight[Chain]
    /\ onchain \in [ContractTxs -> {Absent} \cup Heights]
    /\ sends \in Nat
    /\ crashes \in 0 .. MaxCrashes

(* The server takes the Lightning payment only when the user's claim is in *)
(* a block with the required confirmations: the invoice is never settled   *)
(* on a claim that was replaced by the server's own refund, so the user    *)
(* never pays for funds the server took back (processNewBlock's settle     *)
(* branch against processContractSpendingTx's claim/refund switching).     *)
SettledOnlyAfterClaim ==
    invoice = "SETTLED" =>
        hasEnoughConfirmations(onchain["claim"], tip[Chain])

(* What DONE says of the money, whichever task wrote it: SUCCESS was paid  *)
(* on both sides, REFUNDED has the refund confirmed on the chain, EXPIRED  *)
(* and ERROR left nothing on the chain.                                    *)
OutcomeTruthful ==
    db.status = "DONE" =>
        CASE db.outcome = "SUCCESS" -> invoice = "SETTLED"
          [] db.outcome = "REFUNDED" ->
               hasEnoughConfirmations(onchain["refund"], tip[Chain])
          [] OTHER -> onchain["lock"] = Absent

(* A user's claim mined before the contract's timeout is always worth the  *)
(* Lightning payment: the HTLC is never given up under the server, because *)
(* CltvGap leaves room for the confirmations and the server's lag.         *)
ClaimInTimeIsPaid ==
    Chain = "BITCOIN" /\ onchain["claim"] \in 1 .. db.timeoutBlockHeight
        => invoice # "CANCELED"

(* The contract is funded at most once, whatever is retried, restarted or  *)
(* delivered twice.                                                        *)
FundedAtMostOnce == sends <= 1

(* Money goes on the chain only for a payment LND holds, in a contract the *)
(* database knows, whose refund opens CltvGap blocks before the first HTLC *)
(* of that payment expires.                                                *)
FundedOnlyForHeldPayment ==
    onchain["lock"] # Absent =>
        /\ htlcs # {}
        /\ db.contract
        /\ Chain = "BITCOIN" =>
             \A e \in htlcs : db.timeoutBlockHeight + CltvGap <= e

(* LND only ever learns a preimage that a claim on the chain revealed.     *)
SettledOnlyWithRevealedPreimage ==
    invoice = "SETTLED" \/ db.preImage => onchain["claim"] # Absent

(* what-is-a-swap.md: the two payments either both succeed or both fail.   *)
(* The user's money is not taken on Lightning for a contract the server    *)
(* took back, and a claim in time is not free of charge.                   *)
BothSucceedOrBothFail ==
    /\ invoice = "SETTLED" => onchain["refund"] <= Mempool
    /\ onchain["claim"] \in 1 .. db.timeoutBlockHeight => invoice # "CANCELED"

(* api.types.ts: an EXPIRED swap "expired before any funds were sent".     *)
ExpiredBeforeFundsWereSent ==
    db.status = "DONE" /\ db.outcome = "EXPIRED" => onchain["lock"] = Absent

(* When every event was handled and no task is left, the saved status is   *)
(* what the chain says: nothing was dropped, reordered or applied to the   *)
(* wrong status.  Two blocks are allowed for a funding and a timeout that  *)
(* are noticed by successive blocks.                                       *)
Quiescent ==
    /\ up /\ runner = "running" /\ ev = "idle" /\ feed = << >>
    /\ intent = "off" /\ refunder = "off" /\ canceller = "off"

Buried(t) == onchain[t] > 0 /\ tip[Chain] >= onchain[t] + RequiredConfirmations + 1

StatusFollowsChain ==
    Quiescent =>
        /\ Buried("claim") =>
             \/ db.outcome = "SUCCESS"
             \/ db.status = "CONTRACT_CLAIMED_UNCONFIRMED" /\ invoice = "CANCELED"
        /\ Buried("refund") => db.outcome = "REFUNDED"
        /\ Buried("lock") /\ onchain["claim"] = Absent /\ onchain["refund"] = Absent =>
             db.status = IF tip[Chain] <= db.timeoutBlockHeight - 1
                           THEN "CONTRACT_FUNDED" ELSE "CONTRACT_EXPIRED"

(* A finished swap stays finished: no task or event still under way        *)
(* reopens it or rewrites its outcome.                                     *)
DoneIsFinal ==
    [][db.status = "DONE" =>
         db'.status = "DONE" /\ db'.outcome = db.outcome]_vars

(* A funded contract does not lock the money for ever: the user claims it  *)
(* or the server's refund brings it back.                                  *)
ContractIsSpent ==
    onchain["lock"] # Absent ~> onchain["claim"] > 0 \/ onchain["refund"] > 0

(* ... the runner notices, and finishes the swap.                          *)
FundedSwapFinishes == onchain["lock"] # Absent ~> db.status = "DONE"

(* The swap as a user sees it: a leg on the chain and a leg on Lightning.  *)
chainLeg ==
    IF onchain["claim"] > 0 THEN "claimed"
    ELSE IF onchain["refund"] > 0 THEN "refunded"
    ELSE IF onchain["lock"] # Absent THEN "locked" ELSE "none"

lightningLeg ==
    CASE invoice = "OPEN" -> "open"
      [] invoice = "ACCEPTED" -> "held"
      [] invoice = "SETTLED" -> "settled"
      [] OTHER -> "canceled"

Abstract == INSTANCE AtomicSwap WITH Direction <- "out"

(* The runner implements the atomic swap: every step of it is a step of    *)
(* the two legs that AtomicSwap allows, or leaves both alone.              *)
ImplementsAtomicSwap == Abstract!Spec

View == INSTANCE SwapView
            WITH Moves <- OutMoves,
                 view <- [status |-> db.status, outcome |-> db.outcome]

(* What the user's polls are told follows SwapView: whatever the order of  *)
(* payment, blocks and tasks, no status is skipped, repeated or taken back *)
(* in a way a client does not expect.                                      *)
ImplementsView == View!Spec

=============================================================================
