----------------------------- MODULE SwapOutProofs -----------------------------
(***************************************************************************)
(* What holds of a swap-out for every chain, delta, fault, lag and number  *)
(* of crashes: the types of its state, that it funds the contract at most  *)
(* once, and that LND learns the preimage from the chain alone.  Then,     *)
(* under the hypotheses each theorem names: that it settles only after a   *)
(* confirmed claim, what polls are told, what DONE says, that the status   *)
(* catches up with the chain, that a claim in time is paid, and that the   *)
(* swap implements AtomicSwap.                                             *)
(***************************************************************************)
EXTENDS SwapOut, SequenceTheorems, FiniteSetTheorems, TLAPS

-----------------------------------------------------------------------------
(* Types.                                                                  *)

(* The handler under way is that of the first event of the feed.           *)
HandlerHasEvent == ev # "idle" => feed # << >>

(* The HTLCs PayInvoice can leave: none, or expiries drawn from two        *)
(* successive heights.  A held payment has at least one.                   *)
Payments == {{}} \cup UNION {{{e}, {e + 1}, {e, e + 1}} : e \in Nat}

HtlcsOK ==
    /\ htlcs \in Payments
    /\ invoice = "ACCEPTED" => htlcs # {}

(* TypeOK, the process apart from the world.                               *)
Entities ==
    [ status : Statuses, outcome : Outcomes, contract : BOOLEAN,
      timeoutBlockHeight : Int, lockTx : BOOLEAN, lockTxHeight : Heights,
      unlockTxHeight : Heights, preImage : BOOLEAN ]

TasksTypeOK ==
    /\ poll \in {"off", "idle"} \cup InvoiceStates
    /\ expiry \in {"off", "armed", "cancelling", "cancelled"}
    /\ intent \in {"off", "contract", "track", "sending", "sent", "failed"}
    /\ refunder \in {"off", "build"}
    /\ canceller \in {"off", "cancel"}

ProcessTypeOK ==
    /\ swap \in Entities /\ db \in Entities
    /\ up \in BOOLEAN
    /\ runner \in {"waiting", "running", "stopped"}
    /\ ev \in {"idle", "spend", "settle", "settled", "done"}
    /\ TasksTypeOK
    /\ crashes \in 0 .. MaxCrashes

Feeds == Seq([kind : EventKinds, h : Heights])

WorldTypeOK ==
    /\ feed \in Feeds
    /\ invoice \in InvoiceStates
    /\ htlcs \subseteq Nat
    /\ tip \in [Chains -> Nat]
    /\ tip[Chain] <= MaxHeight[Chain]
    /\ onchain \in [ContractTxs -> {Absent} \cup Heights]
    /\ sends \in Nat

(* The inductive form of TypeOK: Head(feed) must exist when a handler      *)
(* reads it, and so must the least expiry when the contract is built.      *)
TypeInv == ProcessTypeOK /\ WorldTypeOK /\ HandlerHasEvent /\ HtlcsOK

(* The two halves say what TypeOK says.                                    *)
LEMMA TypeHalves == TypeOK <=> ProcessTypeOK /\ WorldTypeOK
BY DEF TypeOK, ProcessTypeOK, TasksTypeOK, WorldTypeOK, Entities, Feeds

(* Zero, the height of an unconfirmed transaction, is a height.            *)
LEMMA HeightsAreNaturals == 0 \in Heights /\ Heights \subseteq Nat
BY SwapOutAssumption DEF Heights, Chains

(* getCltvExpiry is the expiry of the HTLC that expires first.             *)
LEMMA CltvExpiryIsLeast ==
    ASSUME HtlcsOK, htlcs # {}
    PROVE  /\ getCltvExpiry \in htlcs
           /\ \A e \in htlcs : getCltvExpiry <= e
           /\ getCltvExpiry \in Nat
<1>1. PICK e \in Nat : htlcs \in {{e}, {e + 1}, {e, e + 1}}
  BY DEF HtlcsOK, Payments
<1>2. \E x \in htlcs : \A y \in htlcs : x <= y
  BY <1>1
<1>3. getCltvExpiry \in htlcs /\ \A y \in htlcs : getCltvExpiry <= y
  BY <1>2 DEF getCltvExpiry, Min
<1> QED BY <1>1, <1>3

(* The first state is well typed.                                          *)
LEMMA InitTypeInv == Init => TypeInv
BY SwapOutAssumption, HeightsAreNaturals
DEF Init, NewSwap, TypeInv, ProcessTypeOK, TasksTypeOK, WorldTypeOK, Entities, Feeds,
    HandlerHasEvent, HtlcsOK, Payments, Statuses, Outcomes, InvoiceStates, Heights,
    EventKinds, Chains, ContractTxs, Absent

(* A broadcast announces at most the transaction, unconfirmed.             *)
LEMMA BroadcastType ==
    ASSUME WorldTypeOK, NEW t \in ContractTxs, Broadcast(t)
    PROVE  /\ onchain' \in [ContractTxs -> {Absent} \cup Heights]
           /\ feed' \in Feeds
           /\ feed # << >> => feed' # << >>
<1>1. Event(t, 0) \in [kind : EventKinds, h : Heights]
  BY HeightsAreNaturals DEF Event, EventKinds
<1>2. feed' = Append(feed, Event(t, 0)) \/ feed' = feed
  BY DEF Broadcast
<1>3. onchain' \in [ContractTxs -> {Absent} \cup Heights]
  BY HeightsAreNaturals DEF Broadcast, Mempool, WorldTypeOK
<1>4. /\ Append(feed, Event(t, 0)) \in Feeds
      /\ Append(feed, Event(t, 0)) # << >>
  <2> DEFINE Events == [kind : EventKinds, h : Heights]
  <2>1. feed \in Seq(Events) /\ Event(t, 0) \in Events
    BY <1>1 DEF WorldTypeOK, Feeds
  <2> HIDE DEF Events
  <2>2. /\ Append(feed, Event(t, 0)) \in Seq(Events)
        /\ Append(feed, Event(t, 0)) # << >>
    BY <2>1, AppendProperties
  <2> QED BY <2>2 DEF Events, Feeds
<1> QED BY <1>2, <1>3, <1>4 DEF WorldTypeOK

(* A status written over an entity leaves an entity.                       *)
LEMMA StatusTypeOnly ==
    ASSUME NEW x \in Statuses
    PROVE  \A t \in Entities : [t EXCEPT !.status = x] \in Entities
BY DEF Entities

(* ... and so do a status and an outcome.                                  *)
LEMMA StatusType ==
    ASSUME NEW s \in Entities, NEW x \in Statuses, NEW o \in Outcomes
    PROVE  /\ [s EXCEPT !.status = x] \in Entities
           /\ [s EXCEPT !.status = x, !.outcome = o] \in Entities
<1>1. [s EXCEPT !.status = x] \in Entities
  BY StatusTypeOnly
<1>2. \A t \in Entities : [t EXCEPT !.outcome = o] \in Entities
  BY DEF Entities
<1>3. [s EXCEPT !.status = x, !.outcome = o] = [[s EXCEPT !.status = x] EXCEPT !.outcome = o]
  OBVIOUS
<1> QED BY <1>1, <1>2, <1>3

(* ... and so do a preimage and the heights and status of a funding.       *)
LEMMA PreImageType ==
    ASSUME NEW s \in Entities, NEW x \in Statuses
    PROVE  /\ [s EXCEPT !.preImage = TRUE] \in Entities
           /\ [s EXCEPT !.preImage = TRUE, !.status = x] \in Entities
<1>1. \A t \in Entities : [t EXCEPT !.preImage = TRUE] \in Entities
  BY DEF Entities
<1>2. [s EXCEPT !.preImage = TRUE, !.status = x] =
        [[s EXCEPT !.preImage = TRUE] EXCEPT !.status = x]
  OBVIOUS
<1>3. \A t \in Entities : [t EXCEPT !.status = x] \in Entities
  BY StatusTypeOnly
<1> QED BY <1>1, <1>2, <1>3

LEMMA FundingType ==
    ASSUME NEW s \in Entities, NEW x \in Statuses, NEW h \in Heights
    PROVE  [s EXCEPT !.lockTxHeight = h, !.lockTx = TRUE, !.status = x] \in Entities
<1>1. [s EXCEPT !.lockTxHeight = h] \in Entities
  BY DEF Entities
<1>2. \A t \in Entities : [t EXCEPT !.lockTx = TRUE] \in Entities
  BY DEF Entities
<1>3. [s EXCEPT !.lockTxHeight = h, !.lockTx = TRUE, !.status = x] =
        [[[s EXCEPT !.lockTxHeight = h] EXCEPT !.lockTx = TRUE] EXCEPT !.status = x]
  OBVIOUS
<1>4. \A t \in Entities : [t EXCEPT !.status = x] \in Entities
  BY StatusTypeOnly
<1> QED BY <1>1, <1>2, <1>3, <1>4

(* A process that dies keeps what it saved.                                *)
LEMMA DeathType ==
    ASSUME TypeInv, Die, UNCHANGED <<world, crashes>>
    PROVE  TypeInv'
BY DEF TypeInv, ProcessTypeOK, TasksTypeOK, WorldTypeOK, InvoiceStates, Die,
       HandlerHasEvent, HtlcsOK, world

(* The poller, the expiry check and the handling of the payment intent     *)
(* keep the types.                                                         *)
LEMMA TaskStepType ==
    ASSUME TypeInv,
           \/ PollInvoice \/ PollReply
           \/ CheckExpiry \/ ServeExpiryCancel \/ FinishExpiry
           \/ CreateContract \/ TrackContract \/ SendCoins \/ SendReply
           \/ AbortPayment \/ CancelInvoice \/ BroadcastRefund
    PROVE  TypeInv'
<1>1. CASE CreateContract
  <2>1. CASE Die
    BY <1>1, <2>1, DeathType DEF CreateContract
  <2>2. CASE ~Die
    <3> USE <1>1, <2>2
    <3>1. invoice = "ACCEPTED"
      BY DEF CreateContract
    <3>2. getCltvExpiry \in Int
      BY <3>1, CltvExpiryIsLeast DEF TypeInv, HtlcsOK
    <3>3. contractTimeout \in Int
      BY <3>2, SwapOutAssumption
      DEF contractTimeout, Chains, TypeInv, WorldTypeOK
    <3>4. swap' \in Entities /\ db' \in Entities
      BY <3>3 DEF CreateContract, Save, Entities, TypeInv, ProcessTypeOK
    <3>5. ProcessTypeOK'
      BY <3>4 DEF CreateContract, TypeInv, ProcessTypeOK, TasksTypeOK
    <3>6. UNCHANGED world /\ ev' = ev
      BY DEF CreateContract
    <3> QED
      BY <3>5, <3>6 DEF TypeInv, WorldTypeOK, HandlerHasEvent, HtlcsOK, world
  <2> QED BY <2>1, <2>2
<1>2. CASE BroadcastRefund
  <2>1. CASE Die /\ UNCHANGED <<onchain, feed>>
    BY <1>2, <2>1, DeathType DEF BroadcastRefund, world
  <2>2. CASE ~(Die /\ UNCHANGED <<onchain, feed>>)
    <3>1. /\ refunder' = "off"
          /\ UNCHANGED <<swap, db, up, runner, poll, expiry, intent, canceller, ev>>
          /\ Broadcast("refund") \/ UNCHANGED <<onchain, feed>>
          /\ UNCHANGED <<invoice, htlcs, tip, sends, crashes>>
      BY <1>2, <2>2 DEF BroadcastRefund
    <3>2. ProcessTypeOK'
      BY <3>1 DEF TypeInv, ProcessTypeOK, TasksTypeOK
    <3>3. /\ onchain' \in [ContractTxs -> {Absent} \cup Heights]
          /\ feed' \in Feeds
          /\ feed # << >> => feed' # << >>
      <4>1. CASE Broadcast("refund")
        BY <4>1, BroadcastType DEF TypeInv, ContractTxs
      <4>2. CASE UNCHANGED <<onchain, feed>>
        BY <4>2 DEF TypeInv, WorldTypeOK
      <4> QED BY <3>1, <4>1, <4>2
    <3> QED
      BY <3>1, <3>2, <3>3 DEF TypeInv, WorldTypeOK, HandlerHasEvent, HtlcsOK
  <2> QED BY <2>1, <2>2
<1> USE DEF TypeInv, ProcessTypeOK, TasksTypeOK, WorldTypeOK, HandlerHasEvent,
            HtlcsOK, InvoiceStates
<1>3. CASE PollInvoice BY <1>3 DEF PollInvoice, world
<1>4. CASE PollReply
  BY <1>4 DEF PollReply, Save, Entities, Statuses, world
<1>5. CASE CheckExpiry BY <1>5 DEF CheckExpiry, CancelServed
<1>6. CASE ServeExpiryCancel BY <1>6 DEF ServeExpiryCancel, CancelServed
<1>7. CASE FinishExpiry
  <2>1. [swap EXCEPT !.status = "DONE", !.outcome = "EXPIRED"] \in Entities
    BY StatusType DEF Statuses, Outcomes
  <2> QED BY <1>7, <2>1 DEF FinishExpiry, Save, world
<1>8. CASE TrackContract BY <1>8 DEF TrackContract, Save, world
<1>9. CASE SendCoins
  <2>1. "lock" \in ContractTxs /\ Broadcast("lock")
    BY <1>9 DEF SendCoins, ContractTxs
  <2>2. /\ onchain' \in [ContractTxs -> {Absent} \cup Heights]
        /\ feed' \in Feeds
        /\ feed # << >> => feed' # << >>
    BY <2>1, BroadcastType
  <2> QED BY <1>9, <2>2 DEF SendCoins
<1>10. CASE SendReply BY <1>10 DEF SendReply, world
<1>11. CASE AbortPayment
  <2>1. [swap EXCEPT !.status = "DONE", !.outcome = "ERROR"] \in Entities
    BY StatusType DEF Statuses, Outcomes
  <2> QED BY <1>11, <2>1 DEF AbortPayment, Save, world
<1>12. CASE CancelInvoice BY <1>12 DEF CancelInvoice, CancelServed
<1> QED BY <1>1, <1>2, <1>3, <1>4, <1>5, <1>6, <1>7, <1>8, <1>9, <1>10, <1>11, <1>12

(* The event under way has a height, and the events after it remain.       *)
LEMMA HeadType ==
    ASSUME WorldTypeOK, feed # << >>
    PROVE  height \in Heights /\ Tail(feed) \in Feeds
<1> DEFINE Events == [kind : EventKinds, h : Heights]
<1>1. feed \in Seq(Events)
  BY DEF WorldTypeOK, Feeds
<1> HIDE DEF Events
<1>2. Head(feed) \in Events /\ Tail(feed) \in Seq(Events)
  BY <1>1, HeadTailProperties
<1> QED BY <1>2 DEF height, Feeds, Events

(* The handlers of nbxplorer's events, a crash and the restart keep the    *)
(* types.                                                                  *)
LEMMA EventStepType ==
    ASSUME TypeInv,
           \/ ProcessNewBlock \/ SettleInvoice \/ FinishSwap
           \/ ProcessFundingTx \/ RecordSpendingTx \/ ApplySpendingTx
           \/ NobodyListens \/ CommitEvent
           \/ Crash \/ Restart \/ Resume
    PROVE  TypeInv'
<1>1. CASE ProcessNewBlock
  <2>1. /\ UNCHANGED <<up, runner, poll, expiry, intent, world, crashes>>
        /\ ev' \in {"settle", "done"}
        /\ feed # << >>
        /\ refunder' \in {"build", refunder} /\ canceller' \in {"cancel", canceller}
        /\ swap' \in Entities /\ db' \in Entities
    <3>1. CASE BlockExpires
      <4>1. [swap EXCEPT !.status = "CONTRACT_EXPIRED"] \in Entities
        BY StatusType DEF Statuses, Outcomes, TypeInv, ProcessTypeOK
      <4> QED
        BY <1>1, <3>1, <4>1
        DEF ProcessNewBlock, BlockExpires, Dispatch, Save, TypeInv, ProcessTypeOK
    <3>2. CASE BlockFunds
      <4>1. [swap EXCEPT !.status = "CONTRACT_FUNDED"] \in Entities
        BY StatusType DEF Statuses, Outcomes, TypeInv, ProcessTypeOK
      <4> QED
        BY <1>1, <3>2, <4>1
        DEF ProcessNewBlock, BlockFunds, Dispatch, Save, TypeInv, ProcessTypeOK
    <3>3. CASE BlockRefunds
      <4>1. [swap EXCEPT !.status = "DONE", !.outcome = "REFUNDED"] \in Entities
        BY StatusType DEF Statuses, Outcomes, TypeInv, ProcessTypeOK
      <4> QED
        BY <1>1, <3>3, <4>1 DEF ProcessNewBlock, BlockRefunds, Dispatch, Save
    <3>4. CASE BlockSettles
      BY <1>1, <3>4
      DEF ProcessNewBlock, BlockSettles, Dispatch, TypeInv, ProcessTypeOK
    <3>5. CASE BlockIgnored
      BY <1>1, <3>5
      DEF ProcessNewBlock, BlockIgnored, Dispatch, TypeInv, ProcessTypeOK
    <3> QED BY <1>1, <3>1, <3>2, <3>3, <3>4, <3>5 DEF ProcessNewBlock
  <2> QED
    BY <2>1
    DEF TypeInv, ProcessTypeOK, TasksTypeOK, WorldTypeOK, HandlerHasEvent, HtlcsOK, world
<1>2. CASE SettleInvoice
  <2>1. feed # << >>
    BY <1>2 DEF SettleInvoice, TypeInv, HandlerHasEvent
  <2>2. CASE Die /\ UNCHANGED invoice
    BY <1>2, <2>2, DeathType DEF SettleInvoice, world
  <2>3. CASE ~(Die /\ UNCHANGED invoice)
    <3>1. /\ ev' \in {"settled", "done"}
          /\ invoice' \in {"SETTLED", invoice}
          /\ UNCHANGED <<swap, db, up, runner, tasks>>
          /\ UNCHANGED <<feed, htlcs, tip, onchain, sends, crashes>>
      BY <1>2, <2>3 DEF SettleInvoice, HandlerThrows
    <3> QED
      BY <2>1, <3>1
      DEF TypeInv, ProcessTypeOK, TasksTypeOK, WorldTypeOK, InvoiceStates,
          HandlerHasEvent, HtlcsOK, tasks
  <2> QED BY <2>2, <2>3
<1>3. CASE RecordSpendingTx
  <2>1. feed # << >> /\ height \in Heights
    BY <1>3, HeadType DEF RecordSpendingTx, Dispatch, TypeInv
  <2>2. CASE Die
    BY <1>3, <2>2, DeathType DEF RecordSpendingTx
  <2>3. CASE ~Die
    <3>1. /\ ev' \in {"spend", "done"}
          /\ swap' \in Entities /\ db' \in Entities
          /\ UNCHANGED <<up, runner, tasks, world, crashes>>
      BY <1>3, <2>1, <2>3
      DEF RecordSpendingTx, HandlerThrows, Save, Entities, TypeInv, ProcessTypeOK
    <3> QED
      BY <2>1, <3>1
      DEF TypeInv, ProcessTypeOK, TasksTypeOK, WorldTypeOK, HandlerHasEvent, HtlcsOK,
          tasks, world
  <2> QED BY <2>2, <2>3
<1>4. CASE Crash
  <2>1. Die /\ crashes' \in 0 .. MaxCrashes /\ UNCHANGED world
    BY <1>4, SwapOutAssumption DEF Crash, TypeInv, ProcessTypeOK
  <2> QED
    BY <2>1
    DEF TypeInv, ProcessTypeOK, TasksTypeOK, WorldTypeOK, InvoiceStates, Die,
        HandlerHasEvent, HtlcsOK, world
<1>5. CASE FinishSwap
  <2>1. [swap EXCEPT !.status = "DONE", !.outcome = "SUCCESS"] \in Entities
    BY StatusType DEF Statuses, Outcomes, TypeInv, ProcessTypeOK
  <2> QED
    BY <1>5, <2>1
    DEF FinishSwap, Save, TypeInv, ProcessTypeOK, TasksTypeOK, WorldTypeOK,
        HandlerHasEvent, HtlcsOK, tasks, world
<1>6. CASE ProcessFundingTx
  <2>1. feed # << >> /\ height \in Heights
    BY <1>6, HeadType DEF ProcessFundingTx, Dispatch, TypeInv
  <2>2. swap \in Entities /\ db \in Entities
    BY DEF TypeInv, ProcessTypeOK
  <2>3. confirmedHeight(swap.lockTxHeight) \in Heights
    BY <2>1, <2>2 DEF confirmedHeight, Entities
  <2>4. [swap EXCEPT !.lockTxHeight = confirmedHeight(swap.lockTxHeight), !.lockTx = TRUE,
                     !.status = "CONTRACT_FUNDED_UNCONFIRMED"] \in Entities
    BY <2>2, <2>3, FundingType DEF Statuses
  <2>5. swap' \in Entities /\ db' \in Entities
    BY <1>6, <2>2, <2>4 DEF ProcessFundingTx, Save
  <2> QED
    BY <1>6, <2>1, <2>5
    DEF ProcessFundingTx, TypeInv, ProcessTypeOK, TasksTypeOK, WorldTypeOK,
        HandlerHasEvent, HtlcsOK, tasks, world
<1>7. CASE ApplySpendingTx
  <2>1. swap \in Entities /\ db \in Entities
    BY DEF TypeInv, ProcessTypeOK
  <2>2. [swap EXCEPT !.status = "CONTRACT_REFUNDED_UNCONFIRMED"] \in Entities
    BY <2>1, StatusTypeOnly DEF Statuses
  <2>3. /\ [swap EXCEPT !.preImage = TRUE] \in Entities
        /\ [swap EXCEPT !.preImage = TRUE,
                         !.status = "CONTRACT_CLAIMED_UNCONFIRMED"] \in Entities
    BY <2>1, PreImageType DEF Statuses
  <2>4. swap' \in Entities /\ db' \in Entities
    BY <1>7, <2>1, <2>2, <2>3 DEF ApplySpendingTx, ApplyRefundTx, ApplyClaimTx, Save
  <2> QED
    BY <1>7, <2>4
    DEF ApplySpendingTx, TypeInv, ProcessTypeOK, TasksTypeOK, WorldTypeOK,
        HandlerHasEvent, HtlcsOK, tasks, world
<1>8. CASE CommitEvent
  <2>1. Tail(feed) \in Feeds
    BY <1>8, HeadType DEF CommitEvent, TypeInv, HandlerHasEvent
  <2> QED
    BY <1>8, <2>1
    DEF CommitEvent, TypeInv, ProcessTypeOK, TasksTypeOK, WorldTypeOK,
        HandlerHasEvent, HtlcsOK, tasks
<1> USE DEF TypeInv, ProcessTypeOK, TasksTypeOK, WorldTypeOK, HandlerHasEvent,
            HtlcsOK, tasks, world
<1>9. CASE NobodyListens BY <1>9 DEF NobodyListens
<1>10. CASE Restart BY <1>10 DEF Restart
<1>11. CASE Resume BY <1>11 DEF Resume
<1> QED BY <1>1, <1>2, <1>3, <1>4, <1>5, <1>6, <1>7, <1>8, <1>9, <1>10, <1>11

(* LND, the chains and the user keep the types.                            *)
LEMMA WorldStepType ==
    ASSUME TypeInv, WorldStep
    PROVE  TypeInv'
<1>1. UNCHANGED <<server, crashes>>
  BY DEF WorldStep, PayInvoice, InvoiceLapses, UserClaims, NewBlock, NewBitcoinBlock
<1>2. ProcessTypeOK'
  BY <1>1 DEF server, tasks, TypeInv, ProcessTypeOK, TasksTypeOK
<1>3. CASE PayInvoice
  <2>1. tip["BITCOIN"] + LockBlockDelta + CltvGap \in Nat
    BY SwapOutAssumption DEF TypeInv, WorldTypeOK, Chains
  <2> DEFINE e == tip["BITCOIN"] + LockBlockDelta + CltvGap
  <2>2. htlcs' \subseteq {e, e + 1} /\ htlcs' # {}
    BY <1>3 DEF PayInvoice
  <2>3. htlcs' \in {{e}, {e + 1}, {e, e + 1}}
    BY <2>2
  <2>4. htlcs' \in Payments /\ htlcs' # {} /\ htlcs' \subseteq Nat
    BY <2>1, <2>2, <2>3 DEF Payments
  <2> QED
    BY <1>1, <1>2, <1>3, <2>4
    DEF PayInvoice, server, TypeInv, WorldTypeOK, InvoiceStates, HandlerHasEvent, HtlcsOK
<1>4. CASE InvoiceLapses
  BY <1>1, <1>2, <1>4
  DEF InvoiceLapses, server, TypeInv, WorldTypeOK, InvoiceStates, HandlerHasEvent, HtlcsOK
<1>5. CASE UserClaims
  <2>1. "claim" \in ContractTxs /\ Broadcast("claim")
    BY <1>5 DEF UserClaims, ContractTxs
  <2>2. /\ onchain' \in [ContractTxs -> {Absent} \cup Heights]
        /\ feed' \in Feeds
        /\ feed # << >> => feed' # << >>
    BY <2>1, BroadcastType DEF TypeInv
  <2> QED
    BY <1>1, <1>2, <1>5, <2>2
    DEF UserClaims, server, TypeInv, WorldTypeOK, HandlerHasEvent, HtlcsOK
<1>6. CASE NewBlock
  <2> USE DEF TypeInv, WorldTypeOK
  <2>1. PICK S \in SUBSET ContractTxs :
          /\ onchain' = [t \in ContractTxs |-> IF t \in S THEN tip[Chain] + 1 ELSE onchain[t]]
          /\ tip' = [tip EXCEPT ![Chain] = tip[Chain] + 1]
          /\ \/ feed' = Append(feed, Event("block", tip[Chain] + 1)) \o TxEvents(S, tip[Chain] + 1)
             \/ feed' = Append(feed \o TxEvents(S, tip[Chain] + 1), Event("block", tip[Chain] + 1))
    BY <1>6 DEF NewBlock
  <2> DEFINE h == tip[Chain] + 1
  <2>2. h \in Heights /\ h <= MaxHeight[Chain]
    BY <1>6, SwapOutAssumption DEF NewBlock, Heights, Chains
  <2>3. tip' \in [Chains -> Nat] /\ tip'[Chain] = h
    BY <2>1, SwapOutAssumption DEF Chains
  <2>4. onchain' \in [ContractTxs -> {Absent} \cup Heights]
    BY <2>1, <2>2
  <2> DEFINE Events == [kind : EventKinds, h : Heights]
  <2>5. \A k \in EventKinds : Event(k, h) \in Events
    BY <2>2 DEF Event
  <2>6. feed \in Seq(Events) /\ Event("block", h) \in Events
    BY <2>5 DEF Feeds, EventKinds
  <2>7. Seq(Events) = Feeds
    BY DEF Feeds
  <2> HIDE DEF Events
  <2>8. TxEvents(S, h) \in Seq(Events)
    BY <2>5 DEF TxEvents, EventKinds, ContractTxs
  <2> DEFINE b == Event("block", h)
             txs == TxEvents(S, h)
  <2>9. feed' \in Seq(Events) /\ feed' # << >>
    <3> HIDE DEF b, txs
    <3>1. b \in Events /\ txs \in Seq(Events)
      BY <2>6, <2>8 DEF b, txs
    <3>2. feed' = Append(feed, b) \o txs \/ feed' = Append(feed \o txs, b)
      BY <2>1 DEF b, txs
    <3>3. Append(feed, b) \in Seq(Events) /\ Append(feed, b) # << >>
      BY <2>6, <3>1, AppendProperties
    <3>4. /\ Append(feed, b) \o txs \in Seq(Events)
          /\ Append(feed, b) \o txs # << >>
      BY <3>1, <3>3, ConcatProperties, ConcatEqualIffEmpty
    <3>5. /\ Append(feed \o txs, b) \in Seq(Events)
          /\ Append(feed \o txs, b) # << >>
      BY <2>6, <3>1, ConcatProperties, AppendProperties
    <3> QED BY <3>2, <3>4, <3>5
  <2> QED
    BY <1>1, <1>2, <1>6, <2>2, <2>3, <2>4, <2>7, <2>9
    DEF NewBlock, server, HandlerHasEvent, HtlcsOK
<1>7. CASE NewBitcoinBlock
  BY <1>1, <1>2, <1>7, SwapOutAssumption
  DEF NewBitcoinBlock, server, TypeInv, WorldTypeOK, Chains, HandlerHasEvent, HtlcsOK
<1> QED BY <1>3, <1>4, <1>5, <1>6, <1>7 DEF WorldStep

(* Every step keeps the types.                                             *)
LEMMA StepTypeInv == TypeInv /\ [Next]_vars => TypeInv'
<1> SUFFICES ASSUME TypeInv, [Next]_vars PROVE TypeInv'
  OBVIOUS
<1>1. CASE ServerStep \/ Crash
  BY <1>1, TaskStepType, EventStepType DEF ServerStep
<1>2. CASE WorldStep
  BY <1>2, WorldStepType
<1>3. CASE UNCHANGED vars
  BY <1>3
  DEF vars, server, world, tasks, TypeInv, ProcessTypeOK, TasksTypeOK, WorldTypeOK,
      HandlerHasEvent, HtlcsOK
<1> QED BY <1>1, <1>2, <1>3 DEF Next

(* Every variable keeps its type, whatever the chain, the faults and the   *)
(* crashes: SwapOut.ts's entity, SwapOutRunner's tasks, and the world.     *)
THEOREM SwapOutTypeOK == Spec => []TypeOK
<1>1. Spec => []TypeInv
  BY InitTypeInv, StepTypeInv, PTL DEF Spec
<1>2. TypeInv => TypeOK
  BY TypeHalves DEF TypeInv
<1> QED BY <1>1, <1>2, PTL

-----------------------------------------------------------------------------
(* The contract is funded at most once.                                    *)

(* A payment intent is acted upon once: while it can still be noticed the  *)
(* contract is not funded, and no restart brings a swap back to CREATED.   *)
OneIntent ==
    /\ sends <= 1
    /\ intent \in {"contract", "track", "sending"} => sends = 0
    /\ intent # "off" => swap.status # "CREATED" /\ db.status # "CREATED"
    /\ poll # "off" => sends = 0 /\ intent = "off"
    /\ runner = "waiting" => intent = "off" /\ poll = "off"
    /\ "CREATED" \in {swap.status, db.status} => sends = 0

(* A process that dies has no task left to fund the contract.              *)
LEMMA DeathOneIntent ==
    ASSUME OneIntent, Die, sends' = sends
    PROVE  OneIntent'
BY DEF OneIntent, Die

(* No step acts upon the intent twice.                                     *)
LEMMA StepOneIntent == TypeInv /\ OneIntent /\ [Next]_vars => OneIntent'
<1> SUFFICES ASSUME TypeInv, OneIntent, [Next]_vars PROVE OneIntent'
  OBVIOUS
<1>1. swap \in Entities /\ db \in Entities /\ sends \in Nat
  BY DEF TypeInv, ProcessTypeOK, WorldTypeOK
<1>2. CASE Die /\ sends' = sends
  BY <1>2, DeathOneIntent
<1> USE <1>1 DEF OneIntent, Entities
<1>3. CASE PollInvoice BY <1>3 DEF PollInvoice, world
<1>4. CASE PollReply BY <1>4 DEF PollReply, Save, InvoiceStates, world
<1>5. CASE CheckExpiry BY <1>5 DEF CheckExpiry
<1>6. CASE ServeExpiryCancel BY <1>6 DEF ServeExpiryCancel
<1>7. CASE FinishExpiry BY <1>7 DEF FinishExpiry, Save, world
<1>8. CASE CreateContract /\ ~Die BY <1>8 DEF CreateContract, Save, world
<1>9. CASE TrackContract BY <1>9 DEF TrackContract, Save, world
<1>10. CASE SendCoins BY <1>10 DEF SendCoins
<1>11. CASE SendReply BY <1>11 DEF SendReply, world
<1>12. CASE AbortPayment BY <1>12 DEF AbortPayment, Save, world
<1>13. CASE CancelInvoice BY <1>13 DEF CancelInvoice
<1>14. CASE BroadcastRefund /\ ~Die BY <1>14 DEF BroadcastRefund
<1>15. CASE ProcessNewBlock
  BY <1>15
  DEF ProcessNewBlock, BlockExpires, BlockFunds, BlockRefunds, BlockSettles,
      BlockIgnored, Save, world
<1>16. CASE SettleInvoice /\ ~Die BY <1>16 DEF SettleInvoice, HandlerThrows, tasks
<1>17. CASE FinishSwap BY <1>17 DEF FinishSwap, Save, tasks, world
<1>18. CASE ProcessFundingTx BY <1>18 DEF ProcessFundingTx, Save, tasks, world
<1>19. CASE RecordSpendingTx /\ ~Die
  BY <1>19 DEF RecordSpendingTx, HandlerThrows, Save, tasks, world
<1>20. CASE ApplySpendingTx
  BY <1>20 DEF ApplySpendingTx, ApplyRefundTx, ApplyClaimTx, Save, tasks, world
<1>21. CASE NobodyListens BY <1>21 DEF NobodyListens, tasks, world
<1>22. CASE CommitEvent BY <1>22 DEF CommitEvent, tasks
<1>23. CASE Crash BY <1>2, <1>23 DEF Crash, world
<1>24. CASE Restart BY <1>24 DEF Restart, tasks, world
<1>25. CASE Resume BY <1>25 DEF Resume, world
<1>26. CASE WorldStep
  BY <1>26
  DEF WorldStep, PayInvoice, InvoiceLapses, UserClaims, NewBlock, NewBitcoinBlock,
      server, tasks
<1>27. CASE UNCHANGED vars BY <1>27 DEF vars, server, tasks, world
<1> QED
  BY <1>2, <1>3, <1>4, <1>5, <1>6, <1>7, <1>8, <1>9, <1>10, <1>11, <1>12, <1>13, <1>14,
     <1>15, <1>16, <1>17, <1>18, <1>19, <1>20, <1>21, <1>22, <1>23, <1>24, <1>25, <1>26,
     <1>27
  DEF Next, ServerStep, CreateContract, BroadcastRefund, SettleInvoice, RecordSpendingTx, world

(* The contract is funded at most once, whatever is retried, restarted or  *)
(* delivered twice (SwapOutRunner.payToContractOnChain).                   *)
THEOREM SwapOutFundedAtMostOnce == Spec => []FundedAtMostOnce
<1>1. Init => OneIntent
  BY DEF Init, NewSwap, OneIntent
<1>2. OneIntent => FundedAtMostOnce
  BY DEF OneIntent, FundedAtMostOnce
<1> QED BY <1>1, <1>2, InitTypeInv, StepTypeInv, StepOneIntent, PTL DEF Spec

-----------------------------------------------------------------------------
(* The preimage comes from the chain.                                      *)

(* Events that do not reveal the preimage.                                 *)
SilentEvents == [kind : EventKinds \ {"claim"}, h : Heights]

(* Whoever knows the preimage knows it from a claim: the entity from an    *)
(* event of it, LND from the entity.                                       *)
RevealedByClaim ==
    onchain["claim"] = Absent =>
        /\ ~swap.preImage /\ ~db.preImage
        /\ invoice # "SETTLED"
        /\ feed \in Seq(SilentEvents)

(* A transaction that was broadcast stays broadcast.                       *)
LEMMA BroadcastIsForGood ==
    ASSUME TypeInv, [Next]_vars, NEW t \in ContractTxs, onchain[t] # Absent
    PROVE  onchain'[t] # Absent
<1> USE DEF TypeInv, WorldTypeOK
<1>1. CASE UNCHANGED onchain
  BY <1>1
<1>2. CASE \E u \in ContractTxs : Broadcast(u)
  BY <1>2 DEF Broadcast, Mempool, Absent
<1>3. CASE NewBlock
  BY <1>3, SwapOutAssumption DEF NewBlock, Absent, Chains
<1> QED
  BY <1>1, <1>2, <1>3
  DEF Next, ServerStep, WorldStep, vars, world, ContractTxs,
      PollInvoice, PollReply, CheckExpiry, ServeExpiryCancel, FinishExpiry,
      CreateContract, TrackContract, SendCoins, SendReply, AbortPayment,
      CancelInvoice, BroadcastRefund, ProcessNewBlock, SettleInvoice, FinishSwap,
      ProcessFundingTx, RecordSpendingTx, ApplySpendingTx, NobodyListens,
      CommitEvent, Crash, Restart, Resume, PayInvoice, InvoiceLapses, UserClaims,
      NewBitcoinBlock

(* Without a claim no step reveals the preimage.                           *)
LEMMA StepRevealedByClaim == TypeInv /\ RevealedByClaim /\ [Next]_vars => RevealedByClaim'
<1> SUFFICES ASSUME TypeInv, RevealedByClaim, [Next]_vars,
                    onchain'["claim"] = Absent
             PROVE  /\ ~swap'.preImage /\ ~db'.preImage
                    /\ invoice' # "SETTLED"
                    /\ feed' \in Seq(SilentEvents)
  BY DEF RevealedByClaim
<1>1. /\ onchain["claim"] = Absent
      /\ ~swap.preImage /\ ~db.preImage
      /\ invoice # "SETTLED"
      /\ feed \in Seq(SilentEvents)
  BY BroadcastIsForGood DEF RevealedByClaim, ContractTxs
<1>2. swap \in Entities /\ db \in Entities
  BY DEF TypeInv, ProcessTypeOK
<1>3. 0 \in Heights
  BY HeightsAreNaturals
<1>4. ~swap'.preImage /\ ~db'.preImage
  <2> USE <1>1, <1>2 DEF Entities
  <2>1. CASE Die
    BY <2>1 DEF Die
  <2>2. CASE ApplySpendingTx
    <3>1. feed # << >>
      BY <2>2 DEF ApplySpendingTx, TypeInv, HandlerHasEvent
    <3>2. Head(feed) \in SilentEvents
      BY <1>1, <3>1, HeadTailProperties
    <3>3. Head(feed).kind # "claim"
      BY <3>2 DEF SilentEvents
    <3> QED
      BY <2>2, <3>3 DEF ApplySpendingTx, ApplyRefundTx, ApplyClaimTx, Save
  <2>3. CASE ServerStep /\ ~Die /\ ~ApplySpendingTx
    BY <2>3
    DEF ServerStep, PollInvoice, PollReply, CheckExpiry, ServeExpiryCancel,
        FinishExpiry, CreateContract, TrackContract, SendCoins, SendReply,
        AbortPayment, CancelInvoice, BroadcastRefund, ProcessNewBlock, BlockExpires,
        BlockFunds, BlockRefunds, BlockSettles, BlockIgnored, SettleInvoice,
        HandlerThrows, FinishSwap, ProcessFundingTx, RecordSpendingTx, NobodyListens,
        CommitEvent, Restart, Resume, Save
  <2>4. CASE WorldStep \/ UNCHANGED vars
    BY <2>4
    DEF WorldStep, PayInvoice, InvoiceLapses, UserClaims, NewBlock, NewBitcoinBlock,
        server, vars
  <2> QED BY <2>1, <2>2, <2>3, <2>4 DEF Next, Crash
<1>5. invoice' # "SETTLED"
  BY <1>1
  DEF Next, ServerStep, WorldStep, vars, world, CancelServed,
      PollInvoice, PollReply, CheckExpiry, ServeExpiryCancel, FinishExpiry,
      CreateContract, TrackContract, SendCoins, SendReply, AbortPayment,
      CancelInvoice, BroadcastRefund, ProcessNewBlock, SettleInvoice, FinishSwap,
      ProcessFundingTx, RecordSpendingTx, ApplySpendingTx, NobodyListens,
      CommitEvent, Crash, Restart, Resume, PayInvoice, InvoiceLapses, UserClaims,
      NewBlock, NewBitcoinBlock
<1>6. feed' \in Seq(SilentEvents)
  <2>1. CASE feed' = feed
    BY <1>1, <2>1
  <2>2. CASE CommitEvent
    <3>1. feed # << >> /\ feed' = Tail(feed)
      BY <2>2 DEF CommitEvent, TypeInv, HandlerHasEvent
    <3> QED BY <1>1, <3>1, HeadTailProperties
  <2>3. ASSUME NEW t \in ContractTxs, Broadcast(t)
        PROVE  feed' \in Seq(SilentEvents)
    <3>1. t # "claim"
      BY <2>3 DEF Broadcast, Mempool, Absent, TypeInv, WorldTypeOK
    <3>2. Event(t, 0) \in SilentEvents
      BY <1>3, <3>1 DEF Event, SilentEvents, EventKinds
    <3> QED BY <1>1, <2>3, <3>2, AppendProperties DEF Broadcast
  <2>4. CASE NewBlock
    <3> DEFINE h == tip[Chain] + 1
               b == Event("block", h)
    <3>1. PICK S \in SUBSET ContractTxs :
            /\ onchain' = [t \in ContractTxs |-> IF t \in S THEN h ELSE onchain[t]]
            /\ \/ feed' = Append(feed, b) \o TxEvents(S, h)
               \/ feed' = Append(feed \o TxEvents(S, h), b)
      BY <2>4 DEF NewBlock
    <3>2. h \in Heights /\ h # Absent
      BY <2>4, SwapOutAssumption
      DEF NewBlock, Heights, Absent, Chains, TypeInv, WorldTypeOK
    <3>3. "claim" \notin S
      BY <3>1, <3>2 DEF ContractTxs
    <3>4. \A k \in EventKinds \ {"claim"} : Event(k, h) \in SilentEvents
      BY <3>2 DEF Event, SilentEvents
    <3>5. /\ Event("lock", h) \in SilentEvents
          /\ Event("refund", h) \in SilentEvents
          /\ b \in SilentEvents
      BY <3>4 DEF EventKinds, ContractTxs
    <3> DEFINE txs == TxEvents(S, h)
    <3> HIDE DEF h, b
    <3>6. txs \in Seq(SilentEvents)
      BY <3>3, <3>5 DEF TxEvents
    <3> HIDE DEF txs
    <3>7. Append(feed, b) \o txs \in Seq(SilentEvents)
      BY <1>1, <3>5, <3>6, AppendProperties, ConcatProperties
    <3>8. Append(feed \o txs, b) \in Seq(SilentEvents)
      BY <1>1, <3>5, <3>6, AppendProperties, ConcatProperties
    <3> QED BY <3>1, <3>7, <3>8 DEF txs
  <2> QED
    BY <2>1, <2>2, <2>3, <2>4
    DEF Next, ServerStep, WorldStep, vars, world, ContractTxs,
        PollInvoice, PollReply, CheckExpiry, ServeExpiryCancel, FinishExpiry,
        CreateContract, TrackContract, SendCoins, SendReply, AbortPayment,
        CancelInvoice, BroadcastRefund, ProcessNewBlock, SettleInvoice, FinishSwap,
        ProcessFundingTx, RecordSpendingTx, ApplySpendingTx, NobodyListens,
        Crash, Restart, Resume, PayInvoice, InvoiceLapses, UserClaims,
        NewBitcoinBlock
<1> QED BY <1>4, <1>5, <1>6

(* The server cannot settle the hold invoice by anything but what a claim  *)
(* on the chain revealed (SwapOutRunner.processContractSpendingTx).        *)
THEOREM SwapOutSettledOnlyWithRevealedPreimage ==
    Spec => []SettledOnlyWithRevealedPreimage
<1>1. Init => RevealedByClaim
  BY DEF Init, NewSwap, RevealedByClaim
<1>2. RevealedByClaim => SettledOnlyWithRevealedPreimage
  BY DEF RevealedByClaim, SettledOnlyWithRevealedPreimage
<1> QED BY <1>1, <1>2, InitTypeInv, StepTypeInv, StepRevealedByClaim, PTL DEF Spec

-----------------------------------------------------------------------------
(* The contract stands on a held payment.                                  *)

(* The contract of the entity opens its refund CltvGap blocks before the   *)
(* first HTLC expires.                                                     *)
Backed(s) ==
    /\ s.contract
    /\ Chain = "BITCOIN" => \A e \in htlcs : s.timeoutBlockHeight + CltvGap <= e

(* From the contract's creation on, the entity in memory describes a       *)
(* backed contract, and from the tracking of its address on the saved one  *)
(* does; the HTLCs do not change any more.                                 *)
PaymentBacked ==
    /\ intent \in {"track", "sending", "sent"} =>
         htlcs # {} /\ invoice # "OPEN" /\ Backed(swap)
    /\ intent \in {"sending", "sent"} => Backed(db)
    /\ intent = "track" /\ Chain = "LIQUID" => Backed(db)
    /\ onchain["lock"] # Absent =>
         sends # 0 /\ htlcs # {} /\ invoice # "OPEN" /\ Backed(swap) /\ Backed(db)

(* Only sendCoinsOnChain funds the contract.                               *)
LEMMA OnlySendCoinsFunds ==
    ASSUME TypeInv, [Next]_vars, ~SendCoins
    PROVE  (onchain["lock"] = Absent) => (onchain'["lock"] = Absent)
<1> SUFFICES ASSUME onchain["lock"] = Absent PROVE onchain'["lock"] = Absent
  OBVIOUS
<1>1. onchain \in [ContractTxs -> {Absent} \cup Heights]
  BY DEF TypeInv, WorldTypeOK
<1>2. CASE UNCHANGED onchain
  BY <1>2
<1>3. CASE Broadcast("claim") \/ Broadcast("refund")
  BY <1>1, <1>3 DEF Broadcast, ContractTxs
<1>4. CASE NewBlock
  BY <1>1, <1>4 DEF NewBlock, Minable, Mempool, Absent, ContractTxs
<1> QED
  BY <1>2, <1>3, <1>4
  DEF Next, ServerStep, WorldStep, vars, world,
      PollInvoice, PollReply, CheckExpiry, ServeExpiryCancel, FinishExpiry,
      CreateContract, TrackContract, SendReply, AbortPayment,
      CancelInvoice, BroadcastRefund, ProcessNewBlock, SettleInvoice, FinishSwap,
      ProcessFundingTx, RecordSpendingTx, ApplySpendingTx, NobodyListens,
      CommitEvent, Crash, Restart, Resume, PayInvoice, InvoiceLapses, UserClaims,
      NewBitcoinBlock

(* The contract field and the timeout of two entities agree.               *)
SameContract(s, t) ==
    s.contract = t.contract /\ s.timeoutBlockHeight = t.timeoutBlockHeight

(* Apart from the creation of the contract and a reload, the entity keeps  *)
(* its contract, and what is saved is what it is.                          *)
LEMMA ContractIsKept ==
    ASSUME TypeInv, [Next]_vars, ~CreateContract, ~Resume, ~Die
    PROVE  /\ SameContract(swap', swap)
           /\ SameContract(db', db) \/ SameContract(db', swap)
<1>1. swap \in Entities /\ db \in Entities
  BY DEF TypeInv, ProcessTypeOK
<1> USE <1>1 DEF SameContract, Entities
<1>2. CASE ServerStep
  <2>1. CASE PollInvoice \/ PollReply \/ CheckExpiry \/ ServeExpiryCancel \/ FinishExpiry
    BY <2>1
    DEF PollInvoice, PollReply, CheckExpiry, ServeExpiryCancel, FinishExpiry, Save
  <2>2. CASE TrackContract \/ SendCoins \/ SendReply \/ AbortPayment \/ CancelInvoice
             \/ BroadcastRefund
    BY <2>2
    DEF TrackContract, SendCoins, SendReply, AbortPayment, CancelInvoice,
        BroadcastRefund, Save
  <2>3. CASE ProcessNewBlock
    BY <2>3
    DEF ProcessNewBlock, BlockExpires, BlockFunds, BlockRefunds, BlockSettles,
        BlockIgnored, Save
  <2>4. CASE SettleInvoice \/ FinishSwap \/ ProcessFundingTx \/ RecordSpendingTx
    BY <2>4
    DEF SettleInvoice, HandlerThrows, FinishSwap, ProcessFundingTx, RecordSpendingTx, Save
  <2>5. CASE ApplySpendingTx \/ NobodyListens \/ CommitEvent \/ Restart
    BY <2>5
    DEF ApplySpendingTx, ApplyRefundTx, ApplyClaimTx, NobodyListens, CommitEvent,
        Restart, Save
  <2> QED BY <1>2, <2>1, <2>2, <2>3, <2>4, <2>5 DEF ServerStep
<1>3. CASE WorldStep \/ UNCHANGED vars
  BY <1>3
  DEF WorldStep, PayInvoice, InvoiceLapses, UserClaims, NewBlock, NewBitcoinBlock,
      server, vars
<1> QED BY <1>2, <1>3 DEF Next, Crash

(* A payment that was accepted keeps its HTLCs and does not become open.   *)
LEMMA PaymentIsKept ==
    ASSUME TypeInv, [Next]_vars, invoice # "OPEN"
    PROVE  htlcs' = htlcs /\ invoice' # "OPEN"
BY DEF Next, ServerStep, WorldStep, vars, world, CancelServed,
      PollInvoice, PollReply, CheckExpiry, ServeExpiryCancel, FinishExpiry,
      CreateContract, TrackContract, SendCoins, SendReply, AbortPayment,
      CancelInvoice, BroadcastRefund, ProcessNewBlock, SettleInvoice, FinishSwap,
      ProcessFundingTx, RecordSpendingTx, ApplySpendingTx, NobodyListens,
      CommitEvent, Crash, Restart, Resume, PayInvoice, InvoiceLapses, UserClaims,
      NewBlock, NewBitcoinBlock

(* The funding proceeds from the creation of the contract alone.           *)
LEMMA IntentProceeds ==
    ASSUME TypeInv, OneIntent, [Next]_vars, ~SendCoins
    PROVE  /\ sends' = sends
           /\ intent' \in {"track", "sending", "sent"} =>
                \/ CreateContract /\ ~Die
                \/ TrackContract
                \/ intent' = intent
<1> USE DEF OneIntent
<1>1. CASE ServerStep
  BY <1>1
  DEF ServerStep, PollInvoice, PollReply, CheckExpiry, ServeExpiryCancel,
      FinishExpiry, CreateContract, SendReply, AbortPayment, Die, TrackContract,
      CancelInvoice, BroadcastRefund, ProcessNewBlock, SettleInvoice, HandlerThrows,
      FinishSwap, ProcessFundingTx, RecordSpendingTx, ApplySpendingTx,
      NobodyListens, CommitEvent, Restart, Resume, tasks, world
<1>2. CASE WorldStep \/ UNCHANGED vars \/ Crash
  BY <1>2
  DEF WorldStep, PayInvoice, InvoiceLapses, UserClaims, NewBlock, NewBitcoinBlock,
      server, tasks, world, vars, Crash, Die
<1> QED BY <1>1, <1>2 DEF Next

(* No step leaves a funded contract without the payment behind it.         *)
LEMMA StepPaymentBacked ==
    TypeInv /\ OneIntent /\ PaymentBacked /\ [Next]_vars => PaymentBacked'
<1> SUFFICES ASSUME TypeInv, OneIntent, PaymentBacked, [Next]_vars PROVE PaymentBacked'
  OBVIOUS
<1>1. swap \in Entities /\ db \in Entities /\ sends \in Nat /\ htlcs \subseteq Nat
  BY DEF TypeInv, ProcessTypeOK, WorldTypeOK
<1>2. invoice # "OPEN" => htlcs' = htlcs /\ invoice' # "OPEN"
  BY PaymentIsKept
<1>3. CASE CreateContract /\ ~Die
  <2>1. /\ invoice = "ACCEPTED" /\ htlcs # {} /\ sends = 0
        /\ UNCHANGED <<onchain, htlcs, invoice, sends>>
        /\ intent' = "track"
    BY <1>3 DEF CreateContract, TypeInv, HtlcsOK, OneIntent, world
  <2>2. /\ getCltvExpiry \in Nat
        /\ \A e \in htlcs : getCltvExpiry <= e
    BY <2>1, CltvExpiryIsLeast DEF TypeInv
  <2>3. /\ swap'.contract
        /\ swap'.timeoutBlockHeight = contractTimeout
        /\ Chain = "LIQUID" => db' = swap'
    BY <1>1, <1>3 DEF CreateContract, Save, Entities
  <2>4. Backed(swap)'
    BY <1>1, <2>1, <2>2, <2>3, SwapOutAssumption DEF Backed, contractTimeout
  <2>5. Chain = "LIQUID" => Backed(db)'
    BY <2>3, <2>4 DEF Backed
  <2> QED BY <2>1, <2>4, <2>5 DEF PaymentBacked
<1>4. CASE TrackContract
  <2>1. /\ swap' = swap
        /\ db' = IF Chain = "BITCOIN" THEN swap ELSE db
        /\ UNCHANGED <<onchain, htlcs, invoice, sends>>
        /\ intent = "track" /\ intent' = "sending"
    BY <1>4 DEF TrackContract, Save, world
  <2> QED BY <2>1, SwapOutAssumption DEF PaymentBacked, Backed, Chains
<1>5. CASE SendCoins
  <2>1. /\ UNCHANGED <<swap, db, htlcs, invoice>>
        /\ intent = "sending" /\ intent' = "sent" /\ sends' = sends + 1
    BY <1>5 DEF SendCoins
  <2>2. htlcs # {} /\ invoice # "OPEN" /\ Backed(swap) /\ Backed(db)
    BY <2>1 DEF PaymentBacked
  <2>3. sends' # 0 /\ Backed(swap)' /\ Backed(db)'
    BY <1>1, <2>1, <2>2 DEF Backed
  <2> QED BY <2>1, <2>2, <2>3 DEF PaymentBacked
<1>6. CASE (Die \/ Resume) /\ ~SendCoins
  <2>1. swap' = db /\ db' = db /\ intent' = "off"
    BY <1>6 DEF Die, Resume, OneIntent
  <2>2. sends' = sends /\ (onchain["lock"] = Absent => onchain'["lock"] = Absent)
    BY <1>6, OnlySendCoinsFunds, IntentProceeds
  <2> QED BY <1>2, <2>1, <2>2 DEF PaymentBacked, Backed
<1>7. CASE ~CreateContract /\ ~TrackContract /\ ~SendCoins /\ ~Die /\ ~Resume
  <2>1. /\ SameContract(swap', swap)
        /\ SameContract(db', db) \/ SameContract(db', swap)
    BY <1>7, ContractIsKept
  <2>2. sends' = sends /\ (onchain["lock"] = Absent => onchain'["lock"] = Absent)
    BY <1>7, OnlySendCoinsFunds, IntentProceeds
  <2>3. intent' \in {"track", "sending", "sent"} => intent' = intent
    BY <1>7, IntentProceeds
  <2> QED BY <1>2, <2>1, <2>2, <2>3 DEF PaymentBacked, Backed, SameContract
<1>8. CASE CreateContract /\ Die
  <2>1. ~SendCoins
    BY <1>8 DEF CreateContract, SendCoins
  <2> QED BY <1>6, <1>8, <2>1
<1> QED BY <1>3, <1>4, <1>5, <1>6, <1>7, <1>8

(* Money goes on the chain only for a payment LND holds, in a saved        *)
(* contract whose refund opens BLOCKS_BETWEEN_CLTV_AND_SWAP_EXPIRATIONS    *)
(* blocks before the first HTLC expires (SwapOutRunner.createContract).    *)
THEOREM SwapOutFundedOnlyForHeldPayment == Spec => []FundedOnlyForHeldPayment
<1>1. Init => OneIntent /\ PaymentBacked
  BY DEF Init, NewSwap, OneIntent, PaymentBacked, ContractTxs
<1>2. PaymentBacked => FundedOnlyForHeldPayment
  BY DEF PaymentBacked, FundedOnlyForHeldPayment, Backed
<1> QED
  BY <1>1, <1>2, InitTypeInv, StepTypeInv, StepOneIntent, StepPaymentBacked, PTL DEF Spec

-----------------------------------------------------------------------------
(* The feed tells the truth.                                               *)

Spends == {"claim", "refund"}

(* The other transaction that spends the contract.                         *)
Rival(t) == IF t = "claim" THEN "refund" ELSE "claim"

(* The chain's heights are numbers.                                        *)
ChainNumbers == tip[Chain] \in Nat /\ \A t \in ContractTxs : onchain[t] \in Int

LEMMA ChainType == TypeInv => ChainNumbers
<1> SUFFICES ASSUME TypeInv PROVE ChainNumbers
  OBVIOUS
<1>1. tip[Chain] \in Nat
  BY SwapOutAssumption DEF TypeInv, WorldTypeOK
<1>2. \A t \in ContractTxs : onchain[t] \in {Absent} \cup Heights
  BY DEF TypeInv, WorldTypeOK
<1>3. \A x \in {Absent} \cup Heights : x \in Int
  BY HeightsAreNaturals DEF Absent
<1> QED BY <1>1, <1>2, <1>3 DEF ChainNumbers

(* A transaction is broadcast before it is mined, and a spend before its   *)
(* rival is.                                                               *)
Broadcasts(t) ==
    /\ Broadcast(t)
    /\ onchain[t] <= Mempool
    /\ t \in Spends => onchain[Rival(t)] <= Mempool
    /\ UNCHANGED tip

(* The steps that touch the chain or the feed.                             *)
LEMMA FeedSteps ==
    ASSUME TypeInv, OneIntent, PaymentBacked, [Next]_vars
    PROVE  \/ UNCHANGED <<feed, onchain, tip>>
           \/ UNCHANGED <<feed, onchain>> /\ NewBitcoinBlock
           \/ CommitEvent /\ UNCHANGED <<onchain, tip>>
           \/ \E t \in ContractTxs : Broadcasts(t)
           \/ NewBlock
<1>1. CASE SendCoins
  <2>1. onchain["lock"] = Absent
    BY <1>1 DEF SendCoins, OneIntent, PaymentBacked
  <2>2. Broadcasts("lock")
    BY <1>1, <2>1 DEF SendCoins, Broadcasts, Absent, Mempool, Spends
  <2> QED BY <2>2 DEF ContractTxs
<1>2. CASE UserClaims
  <2>1. Broadcasts("claim")
    BY <1>2 DEF UserClaims, Broadcasts, Absent, Mempool, Spends, Rival
  <2> QED BY <2>1 DEF ContractTxs
<1>3. CASE BroadcastRefund /\ ~UNCHANGED <<feed, onchain>>
  <2>1. Broadcasts("refund")
    BY <1>3 DEF BroadcastRefund, Broadcasts, Absent, Mempool, Spends, Rival
  <2> QED BY <2>1 DEF ContractTxs
<1>4. CASE BroadcastRefund /\ UNCHANGED <<feed, onchain>>
  BY <1>4 DEF BroadcastRefund
<1>5. CASE CommitEvent
  BY <1>5 DEF CommitEvent
<1>6. CASE NewBitcoinBlock
  BY <1>6 DEF NewBitcoinBlock
<1> QED
  BY <1>1, <1>2, <1>3, <1>4, <1>5, <1>6
  DEF Next, ServerStep, WorldStep, vars, world, PollInvoice, PollReply, CheckExpiry,
      ServeExpiryCancel, FinishExpiry, CreateContract, TrackContract, SendReply,
      AbortPayment, CancelInvoice, ProcessNewBlock, SettleInvoice, FinishSwap,
      ProcessFundingTx, RecordSpendingTx, ApplySpendingTx, NobodyListens, Crash,
      Restart, Resume, PayInvoice, InvoiceLapses

(* A block appends its events and those of the transactions it mines, the  *)
(* funding before a spend.                                                 *)
Mines(S, new) ==
    /\ Minable(S)
    /\ tip' = [tip EXCEPT ![Chain] = tip[Chain] + 1]
    /\ onchain' = [t \in ContractTxs |-> IF t \in S THEN tip[Chain] + 1 ELSE onchain[t]]
    /\ new \in Seq({Event(k, tip[Chain] + 1) : k \in S \cup {"block"}})
    /\ \A k \in S \cup {"block"} :
         \E i \in 1 .. Len(new) : new[i] = Event(k, tip[Chain] + 1)
    /\ \A i \in 1 .. Len(new) :
         new[i].kind \in Spends /\ "lock" \in S =>
             \E j \in 1 .. i : new[j].kind = "lock"
    /\ feed' = feed \o new

(* The sequence has x among its elements.                                  *)
Lists(s, x) == \E i \in 1 .. Len(s) : s[i] = x

(* One transaction's events, if it is mined.                               *)
LEMMA OneListed ==
    ASSUME NEW A, NEW k, NEW x, NEW T, k \in A => x \in T,
           NEW s, s = IF k \in A THEN <<x>> ELSE << >>
    PROVE  /\ s \in Seq(T)
           /\ k \in A => Len(s) > 0 /\ s[1] = x /\ Lists(s, x)
<1>1. CASE k \notin A
  <2>1. s = << >>
    BY <1>1
  <2> QED BY <1>1, <2>1, EmptySeq
<1>2. CASE k \in A
  <2>1. s = <<x>> /\ x \in T
    BY <1>2
  <2>2. s \in Seq(T) /\ Len(s) = 1 /\ s[1] = x
    BY <2>1
  <2> QED BY <2>2 DEF Lists
<1> QED BY <1>1, <1>2

(* What two sequences list, both list one after the other.                 *)
LEMMA BothListed ==
    ASSUME NEW T, NEW s \in Seq(T), NEW u \in Seq(T)
    PROVE  /\ s \o u \in Seq(T)
           /\ \A x : Lists(s, x) \/ Lists(u, x) => Lists(s \o u, x)
           /\ Len(s) > 0 => Len(s \o u) > 0 /\ (s \o u)[1] = s[1]
<1>1. PICK v : v = s \o u
  OBVIOUS
<1>2. /\ v \in Seq(T) /\ Len(v) = Len(s) + Len(u)
      /\ \A i \in 1 .. Len(s) + Len(u) :
           v[i] = IF i <= Len(s) THEN s[i] ELSE u[i - Len(s)]
  BY <1>1, ConcatProperties
<1>3. Len(s) \in Nat /\ Len(u) \in Nat
  BY LenProperties
<1>4. \A i \in 1 .. Len(s) : i \in 1 .. Len(v) /\ v[i] = s[i]
  BY <1>2, <1>3
<1>5. \A i \in 1 .. Len(u) :
        Len(s) + i \in 1 .. Len(v) /\ v[Len(s) + i] = u[i]
  <2> SUFFICES ASSUME NEW i \in 1 .. Len(u)
               PROVE  Len(s) + i \in 1 .. Len(v) /\ v[Len(s) + i] = u[i]
    OBVIOUS
  <2>1. PICK j : j = Len(s) + i
    OBVIOUS
  <2>2. j \in 1 .. Len(s) + Len(u) /\ ~(j <= Len(s)) /\ j - Len(s) = i
    BY <1>3, <2>1
  <2> QED BY <1>2, <2>1, <2>2
<1>6. ASSUME NEW x, Lists(s, x) \/ Lists(u, x) PROVE Lists(v, x)
  BY <1>4, <1>5, <1>6 DEF Lists
<1>7. Len(s) > 0 => Len(v) > 0 /\ v[1] = s[1]
  BY <1>2, <1>3, <1>4
<1> QED BY <1>1, <1>2, <1>6, <1>7

LEMMA TxEventsListed ==
    ASSUME NEW S \in SUBSET ContractTxs, NEW h
    PROVE  /\ TxEvents(S, h) \in Seq({Event(k, h) : k \in S})
           /\ \A k \in S : Lists(TxEvents(S, h), Event(k, h))
           /\ "lock" \in S =>
                Len(TxEvents(S, h)) > 0 /\ TxEvents(S, h)[1] = Event("lock", h)
<1>1. PICK lock, claim, refund :
        /\ lock = IF "lock" \in S THEN <<Event("lock", h)>> ELSE << >>
        /\ claim = IF "claim" \in S THEN <<Event("claim", h)>> ELSE << >>
        /\ refund = IF "refund" \in S THEN <<Event("refund", h)>> ELSE << >>
  OBVIOUS
<1>2. TxEvents(S, h) = (lock \o claim) \o refund
  BY <1>1 DEF TxEvents
<1> DEFINE New == {Event(k, h) : k \in S}
<1>3. \A k \in S : Event(k, h) \in New
  OBVIOUS
<1> HIDE DEF New
<1>4. /\ lock \in Seq(New)
      /\ "lock" \in S =>
           /\ Len(lock) > 0 /\ lock[1] = Event("lock", h)
           /\ Lists(lock, Event("lock", h))
  BY <1>1, <1>3, OneListed
<1>5. claim \in Seq(New) /\ ("claim" \in S => Lists(claim, Event("claim", h)))
  BY <1>1, <1>3, OneListed
<1>6. refund \in Seq(New) /\ ("refund" \in S => Lists(refund, Event("refund", h)))
  BY <1>1, <1>3, OneListed
<1>7. PICK both : both = lock \o claim
  OBVIOUS
<1>8. /\ both \in Seq(New)
      /\ "lock" \in S =>
           /\ Len(both) > 0 /\ both[1] = Event("lock", h)
           /\ Lists(both, Event("lock", h))
      /\ "claim" \in S => Lists(both, Event("claim", h))
  BY <1>4, <1>5, <1>7, BothListed
<1>9. PICK txs : txs = both \o refund
  OBVIOUS
<1>10. /\ txs \in Seq(New)
       /\ "lock" \in S => Len(txs) > 0 /\ txs[1] = Event("lock", h)
       /\ "lock" \in S => Lists(txs, Event("lock", h))
       /\ "claim" \in S => Lists(txs, Event("claim", h))
       /\ "refund" \in S => Lists(txs, Event("refund", h))
  BY <1>6, <1>8, <1>9, BothListed
<1>11. \A k \in S : Lists(txs, Event(k, h))
  BY <1>10 DEF ContractTxs
<1>12. TxEvents(S, h) = txs
  BY <1>2, <1>7, <1>9
<1> QED BY <1>10, <1>11, <1>12 DEF New

LEMMA BlockFeed ==
    ASSUME TypeInv, NewBlock
    PROVE  \E S \in SUBSET ContractTxs : \E new : Mines(S, new)
<1> DEFINE h == tip[Chain] + 1
           b == Event("block", h)
<1>1. PICK S \in SUBSET ContractTxs :
        /\ Minable(S)
        /\ tip' = [tip EXCEPT ![Chain] = h]
        /\ onchain' = [t \in ContractTxs |-> IF t \in S THEN h ELSE onchain[t]]
        /\ \/ feed' = Append(feed, b) \o TxEvents(S, h)
           \/ feed' = Append(feed \o TxEvents(S, h), b)
  BY DEF NewBlock
<1> DEFINE New == {Event(k, h) : k \in S \cup {"block"}}
           Old == [kind : EventKinds, h : Heights]
           All == New \cup Old
           txs == TxEvents(S, h)
<1>2. b \in New
  OBVIOUS
<1>3. /\ txs \in Seq(New)
      /\ \A k \in S : \E i \in 1 .. Len(txs) : txs[i] = Event(k, h)
      /\ "lock" \in S => Len(txs) > 0 /\ txs[1].kind = "lock"
  <2> DEFINE Txs == {Event(k, h) : k \in S}
  <2>1. Txs \subseteq New
    OBVIOUS
  <2>2. txs \in Seq(Txs)
    BY TxEventsListed
  <2> HIDE DEF Txs, New, h
  <2>3. txs \in Seq(New)
    BY <2>1, <2>2, SeqMonotonic
  <2>4. /\ \A k \in S : \E i \in 1 .. Len(txs) : txs[i] = Event(k, h)
        /\ "lock" \in S => Len(txs) > 0 /\ txs[1] = Event("lock", h)
    BY TxEventsListed DEF Lists
  <2>5. Event("lock", h).kind = "lock"
    BY DEF Event
  <2> QED BY <2>3, <2>4, <2>5
<1>4. feed \in Seq(Old)
  BY DEF TypeInv, WorldTypeOK, Feeds
<1>5. b.kind = "block"
  BY DEF Event
<1> HIDE DEF b, New, Old, txs
<1> DEFINE Complete(new) ==
             /\ new \in Seq(New)
             /\ \A k \in S \cup {"block"} : \E i \in 1 .. Len(new) : new[i] = Event(k, h)
             /\ \A i \in 1 .. Len(new) :
                  new[i].kind \in Spends /\ "lock" \in S =>
                      \E j \in 1 .. i : new[j].kind = "lock"
<1>6. Len(txs) \in Nat
  BY <1>3, LenProperties
<1>7. Complete(<<b>> \o txs)
  <2> DEFINE new == <<b>> \o txs
  <2>1. <<b>> \in Seq(New) /\ Len(<<b>>) = 1 /\ <<b>>[1] = b
    BY <1>2
  <2>2. /\ new \in Seq(New) /\ Len(new) = 1 + Len(txs)
        /\ \A i \in 1 .. 1 + Len(txs) : new[i] = IF i <= 1 THEN <<b>>[i] ELSE txs[i - 1]
    BY <1>3, <2>1, ConcatProperties
  <2> HIDE DEF new
  <2>3. 1 \in 1 .. Len(new) /\ new[1] = b
    BY <1>6, <2>1, <2>2
  <2>4. \A i \in 1 .. Len(txs) : i + 1 \in 1 .. Len(new) /\ new[i + 1] = txs[i]
    BY <1>6, <2>2
  <2>5. \A k \in S \cup {"block"} : \E i \in 1 .. Len(new) : new[i] = Event(k, h)
    BY <1>3, <2>3, <2>4 DEF b
  <2>6. ASSUME NEW i \in 1 .. Len(new), new[i].kind \in Spends, "lock" \in S
        PROVE  \E j \in 1 .. i : new[j].kind = "lock"
    <3>1. i # 1
      BY <1>5, <2>3, <2>6 DEF Spends
    <3>2. 2 \in 1 .. i /\ new[2] = txs[1]
      BY <1>3, <1>6, <2>2, <2>4, <2>6, <3>1
    <3> QED BY <1>3, <2>6, <3>2
  <2> QED BY <2>2, <2>5, <2>6 DEF new
<1>8. Complete(txs \o <<b>>)
  <2> DEFINE new == txs \o <<b>>
  <2>1. <<b>> \in Seq(New) /\ Len(<<b>>) = 1 /\ <<b>>[1] = b
    BY <1>2
  <2>2. /\ new \in Seq(New) /\ Len(new) = Len(txs) + 1
        /\ \A i \in 1 .. Len(txs) + 1 :
             new[i] = IF i <= Len(txs) THEN txs[i] ELSE <<b>>[i - Len(txs)]
    BY <1>3, <2>1, ConcatProperties
  <2> HIDE DEF new
  <2>3. Len(new) \in 1 .. Len(new) /\ new[Len(new)] = b
    BY <1>6, <2>1, <2>2
  <2>4. \A i \in 1 .. Len(txs) : i \in 1 .. Len(new) /\ new[i] = txs[i]
    BY <1>6, <2>2
  <2>5. \A k \in S \cup {"block"} : \E i \in 1 .. Len(new) : new[i] = Event(k, h)
    BY <1>3, <2>3, <2>4 DEF b
  <2>6. ASSUME NEW i \in 1 .. Len(new), "lock" \in S
        PROVE  \E j \in 1 .. i : new[j].kind = "lock"
    <3>1. 1 \in 1 .. i /\ new[1] = txs[1]
      BY <1>3, <1>6, <2>4, <2>6
    <3> QED BY <1>3, <2>6, <3>1
  <2> QED BY <2>2, <2>5, <2>6 DEF new
<1> HIDE DEF Complete
<1>9. feed \in Seq(All) /\ txs \in Seq(All) /\ b \in All
  BY <1>2, <1>3, <1>4
<1> HIDE DEF All
<1>10. /\ Append(feed, b) \o txs = feed \o (<<b>> \o txs)
       /\ Append(feed \o txs, b) = feed \o (txs \o <<b>>)
  <2>1. <<b>> \in Seq(All) /\ feed \o txs \in Seq(All)
    BY <1>9, ConcatProperties
  <2>2. /\ Append(feed, b) = feed \o <<b>>
        /\ Append(feed \o txs, b) = (feed \o txs) \o <<b>>
    BY <1>9, <2>1, AppendIsConcat
  <2> QED BY <1>9, <2>1, <2>2, ConcatAssociative
<1>11. \E new : feed' = feed \o new /\ Complete(new)
  BY <1>1, <1>7, <1>8, <1>10 DEF b, txs
<1> QED BY <1>1, <1>11 DEF Mines, New, Complete

(* The chain only grows: a transaction that was broadcast stays so, and one *)
(* that was mined keeps its height.                                        *)
LEMMA ChainGrows ==
    ASSUME TypeInv, OneIntent, PaymentBacked, [Next]_vars
    PROVE  /\ tip[Chain] <= tip'[Chain]
           /\ \A t \in ContractTxs :
                /\ onchain[t] # Absent => onchain'[t] # Absent
                /\ onchain[t] > 0 => onchain'[t] = onchain[t]
<1>1. /\ tip[Chain] \in Nat /\ \A t \in ContractTxs : onchain[t] \in Int
      /\ tip \in [Chains -> Nat] /\ Chain \in Chains
      /\ onchain \in [ContractTxs -> {Absent} \cup Heights]
  BY ChainType, SwapOutAssumption DEF ChainNumbers, TypeInv, WorldTypeOK
<1>2. CASE UNCHANGED <<onchain, tip>>
  BY <1>1, <1>2
<1>3. CASE UNCHANGED onchain /\ NewBitcoinBlock
  BY <1>1, <1>3 DEF NewBitcoinBlock, Chains
<1>4. CASE \E t \in ContractTxs : Broadcasts(t)
  BY <1>1, <1>4 DEF Broadcasts, Broadcast, Mempool, Absent
<1>5. CASE NewBlock
  <2>1. PICK S \in SUBSET ContractTxs :
          /\ \A t \in S : onchain[t] = Mempool
          /\ tip' = [tip EXCEPT ![Chain] = tip[Chain] + 1]
          /\ onchain' = [t \in ContractTxs |->
                           IF t \in S THEN tip[Chain] + 1 ELSE onchain[t]]
    BY <1>5, BlockFeed DEF Mines, Minable
  <2> QED BY <1>1, <2>1 DEF Mempool, Absent
<1> QED BY <1>2, <1>3, <1>4, <1>5, FeedSteps

(* Events that tell the truth of the chain: no height beyond the tip, only *)
(* transactions that were broadcast, and the height they have.             *)
TrueEvents ==
    { e \in [kind : EventKinds, h : Heights] :
        /\ e.h <= tip[Chain]
        /\ e.kind \in ContractTxs =>
             onchain[e.kind] # Absent /\ (e.h > 0 => onchain[e.kind] = e.h) }

(* What was true stays true.                                               *)
LEMMA TruthStays ==
    ASSUME TypeInv, OneIntent, PaymentBacked, [Next]_vars
    PROVE  TrueEvents \subseteq TrueEvents'
<1>1. ChainNumbers /\ ChainNumbers'
  BY StepTypeInv, ChainType, PTL
<1>2. /\ tip[Chain] <= tip'[Chain]
      /\ \A t \in ContractTxs :
           /\ onchain[t] # Absent => onchain'[t] # Absent
           /\ onchain[t] > 0 => onchain'[t] = onchain[t]
  BY ChainGrows
<1> SUFFICES ASSUME NEW e \in TrueEvents PROVE e \in TrueEvents'
  OBVIOUS
<1>3. /\ e \in [kind : EventKinds, h : Heights] /\ e.h \in Nat
      /\ e.h <= tip[Chain]
      /\ e.kind \in ContractTxs =>
           onchain[e.kind] # Absent /\ (e.h > 0 => onchain[e.kind] = e.h)
  BY HeightsAreNaturals DEF TrueEvents
<1>4. e.h <= tip'[Chain]
  BY <1>1, <1>2, <1>3 DEF ChainNumbers
<1>5. e.kind \in ContractTxs =>
        onchain'[e.kind] # Absent /\ (e.h > 0 => onchain'[e.kind] = e.h)
  BY <1>2, <1>3
<1> QED BY <1>3, <1>4, <1>5 DEF TrueEvents

(* What a step appends to the feed is true, and no spend is announced once *)
(* its rival is mined or with its rival.                                   *)
Announces(new) ==
    /\ feed' = feed \o new
    /\ \A i \in 1 .. Len(new) :
         new[i].kind \in Spends =>
             /\ onchain[Rival(new[i].kind)] <= Mempool
             /\ \A j \in 1 .. Len(new) : new[j].kind # Rival(new[i].kind)

(* A transaction that enters the mempool is announced by one event.        *)
LEMMA BroadcastAnnounces ==
    ASSUME TypeInv, [Next]_vars, NEW t \in ContractTxs, Broadcasts(t),
           feed' = Append(feed, Event(t, 0))
    PROVE  \E new \in Seq(TrueEvents') : Announces(new)
<1>1. onchain'[t] # Absent
  BY DEF Broadcasts, Broadcast, TypeInv, WorldTypeOK, Mempool, Absent
<1>2. tip'[Chain] \in Nat
  BY StepTypeInv, SwapOutAssumption DEF TypeInv, WorldTypeOK
<1>3. Event(t, 0) \in TrueEvents'
  BY <1>1, <1>2, HeightsAreNaturals DEF TrueEvents, Event, EventKinds
<1>4. <<Event(t, 0)>> \in Seq(TrueEvents')
  BY <1>3
<1>5. feed' = feed \o <<Event(t, 0)>>
  <2> DEFINE All == [kind : EventKinds, h : Heights]
  <2>1. feed \in Seq(All) /\ Event(t, 0) \in All
    BY HeightsAreNaturals DEF TypeInv, WorldTypeOK, Feeds, Event, EventKinds
  <2> HIDE DEF All
  <2> QED BY <2>1, AppendIsConcat
<1>6. /\ Len(<<Event(t, 0)>>) = 1
      /\ <<Event(t, 0)>>[1].kind = t
  BY DEF Event
<1>7. t \in Spends => onchain[Rival(t)] <= Mempool /\ t # Rival(t)
  BY DEF Broadcasts, Spends, Rival
<1>8. Announces(<<Event(t, 0)>>)
  BY <1>5, <1>6, <1>7 DEF Announces
<1> QED BY <1>4, <1>8

(* A block announces itself and what it mines.                             *)
LEMMA BlockAnnounces ==
    ASSUME TypeInv, [Next]_vars, NewBlock
    PROVE  \E new \in Seq(TrueEvents') : Announces(new)
<1> DEFINE h == tip[Chain] + 1
<1>1. PICK S \in SUBSET ContractTxs : \E new : Mines(S, new)
  BY BlockFeed
<1>2. PICK new : Mines(S, new)
  BY <1>1
<1>3. h \in Heights /\ tip'[Chain] = h
  <2>1. tip[Chain] \in Nat /\ tip[Chain] < MaxHeight[Chain]
    BY ChainType DEF NewBlock, ChainNumbers
  <2>2. tip'[Chain] = h
    BY <1>2, SwapOutAssumption DEF Mines, TypeInv, WorldTypeOK
  <2> QED BY <2>1, <2>2, SwapOutAssumption DEF Heights, Chains
<1> DEFINE New == {Event(k, h) : k \in S \cup {"block"}}
<1>4. New \subseteq TrueEvents'
  <2> SUFFICES ASSUME NEW k \in S \cup {"block"} PROVE Event(k, h) \in TrueEvents'
    OBVIOUS
  <2>1. k \in ContractTxs => onchain'[k] = h
    BY <1>2 DEF Mines, ContractTxs
  <2>2. k \in EventKinds
    BY DEF EventKinds
  <2> HIDE DEF h
  <2>3. h \in Nat /\ h # Absent
    BY <1>3, HeightsAreNaturals DEF Absent
  <2> QED BY <1>3, <2>1, <2>2, <2>3 DEF TrueEvents, Event
<1>5. new \in Seq(New) /\ feed' = feed \o new
  BY <1>2 DEF Mines
<1>6. \A e \in New : e.kind \in S \cup {"block"}
  BY DEF Event
<1> HIDE DEF New
<1>7. \A i \in 1 .. Len(new) : new[i] \in New
  BY <1>5, ElementOfSeq
<1>8. \A k \in S \cup {"block"} :
        k \in Spends => onchain[Rival(k)] <= Mempool /\ Rival(k) \notin S \cup {"block"}
  BY <1>2 DEF Mines, Minable, Mempool, Spends, Rival
<1>9. Announces(new)
  BY <1>5, <1>6, <1>7, <1>8 DEF Announces
<1>10. new \in Seq(TrueEvents')
  BY <1>4, <1>5, SeqMonotonic
<1> QED BY <1>9, <1>10

(* The feed loses its first event, or gains true ones.                     *)
LEMMA FeedChanges ==
    ASSUME TypeInv, OneIntent, PaymentBacked, [Next]_vars
    PROVE  \/ feed' = feed
           \/ CommitEvent /\ feed # << >> /\ feed' = Tail(feed)
           \/ \E new \in Seq(TrueEvents') : Announces(new)
<1>1. CASE CommitEvent
  BY <1>1 DEF CommitEvent, TypeInv, HandlerHasEvent
<1>2. ASSUME NEW t \in ContractTxs, Broadcasts(t)
      PROVE  feed' = feed \/ \E new \in Seq(TrueEvents') : Announces(new)
  BY <1>2, BroadcastAnnounces DEF Broadcasts, Broadcast
<1>3. CASE NewBlock
  BY <1>3, BlockAnnounces
<1> QED BY <1>1, <1>2, <1>3, FeedSteps

(* nbxplorer announces what is on the chain.                               *)
LEMMA FeedStaysTrue ==
    ASSUME TypeInv, OneIntent, PaymentBacked, [Next]_vars, feed \in Seq(TrueEvents)
    PROVE  feed' \in Seq(TrueEvents')
<1>1. feed \in Seq(TrueEvents')
  BY TruthStays, SeqMonotonic
<1>2. CASE CommitEvent /\ feed # << >> /\ feed' = Tail(feed)
  BY <1>1, <1>2, HeadTailProperties
<1>3. ASSUME NEW new \in Seq(TrueEvents'), Announces(new)
      PROVE  feed' \in Seq(TrueEvents')
  BY <1>1, <1>3, ConcatProperties DEF Announces
<1> QED BY <1>1, <1>2, <1>3, FeedChanges

(* The event under way is a true one.                                      *)
LEMMA HeadIsTrue ==
    ASSUME TypeInv, feed \in Seq(TrueEvents), feed # << >>
    PROVE  /\ height \in Nat /\ height <= tip[Chain]
           /\ Head(feed).kind \in ContractTxs =>
                /\ onchain[Head(feed).kind] # Absent
                /\ height > 0 => onchain[Head(feed).kind] = height
<1>1. Head(feed) \in TrueEvents
  BY HeadTailProperties
<1> QED BY <1>1, HeightsAreNaturals DEF TrueEvents, height

-----------------------------------------------------------------------------
(* One spend is mined, and the feed forgets its rival.                     *)

(* The feed holds no event of the transaction that t made impossible.      *)
RivalSilent(t) == \A i \in 1 .. Len(feed) : feed[i].kind # Rival(t)

(* After the event of a mined spend comes no event of its rival.           *)
SpendsInOrder ==
    \A i, j \in 1 .. Len(feed) :
        i < j /\ feed[i].kind \in Spends /\ feed[i].h > 0 =>
            feed[j].kind # Rival(feed[i].kind)

(* The contract is spent once.                                             *)
OneMined == onchain["claim"] <= 0 \/ onchain["refund"] <= 0

(* Where the events are after an event was handled, and after new ones     *)
(* came.                                                                   *)
LEMMA FeedShrunk ==
    ASSUME TypeInv, feed # << >>, feed' = Tail(feed)
    PROVE  /\ Len(feed) \in Nat /\ Len(feed') = Len(feed) - 1
           /\ \A i \in 1 .. Len(feed') : feed'[i] = feed[i + 1]
<1> DEFINE All == [kind : EventKinds, h : Heights]
<1>1. feed \in Seq(All)
  BY DEF TypeInv, WorldTypeOK, Feeds
<1> HIDE DEF All
<1> QED BY <1>1, HeadTailProperties, LenProperties

LEMMA FeedGrown ==
    ASSUME TypeInv, NEW new \in Seq(TrueEvents'), Announces(new)
    PROVE  /\ Len(feed) \in Nat /\ Len(new) \in Nat
           /\ Len(feed') = Len(feed) + Len(new)
           /\ \A i \in 1 .. Len(feed') :
                feed'[i] = IF i <= Len(feed) THEN feed[i] ELSE new[i - Len(feed)]
<1> DEFINE All == [kind : EventKinds, h : Heights] \cup TrueEvents'
<1>1. feed \in Seq(All) /\ new \in Seq(All)
  <2>1. feed \in Seq([kind : EventKinds, h : Heights])
    BY DEF TypeInv, WorldTypeOK, Feeds
  <2> QED BY <2>1, SeqMonotonic
<1>2. feed' = feed \o new
  BY DEF Announces
<1> HIDE DEF All
<1> QED BY <1>1, <1>2, ConcatProperties, LenProperties

(* Once a spend is mined its rival is not announced any more.              *)
LEMMA RivalStaysSilent ==
    ASSUME TypeInv, OneIntent, PaymentBacked, [Next]_vars,
           NEW t \in Spends, onchain[t] > 0, RivalSilent(t)
    PROVE  RivalSilent(t)' /\ onchain'[t] = onchain[t]
<1>1. onchain'[t] = onchain[t]
  BY ChainGrows DEF Spends, ContractTxs
<1>2. ChainNumbers /\ t \in ContractTxs
  BY ChainType DEF Spends, ContractTxs
<1>3. Rival(Rival(t)) = t /\ Rival(t) \in Spends
  BY DEF Rival, Spends
<1>4. CASE CommitEvent /\ feed # << >> /\ feed' = Tail(feed)
  <2>1. /\ Len(feed) \in Nat /\ Len(feed') = Len(feed) - 1
        /\ \A i \in 1 .. Len(feed') : feed'[i] = feed[i + 1]
    BY <1>4, FeedShrunk
  <2>2. ASSUME NEW i \in 1 .. Len(feed') PROVE feed'[i].kind # Rival(t)
    <3>1. i + 1 \in 1 .. Len(feed) /\ feed'[i] = feed[i + 1]
      BY <2>1
    <3> QED BY <3>1 DEF RivalSilent
  <2> QED BY <1>1, <2>2 DEF RivalSilent
<1>5. ASSUME NEW new \in Seq(TrueEvents'), Announces(new)
      PROVE  RivalSilent(t)'
  <2>1. \A i \in 1 .. Len(new) : new[i].kind # Rival(t)
    BY <1>2, <1>3, <1>5 DEF Announces, Mempool, ChainNumbers
  <2> QED BY <1>5, <2>1, FeedGrown DEF RivalSilent
<1> QED BY <1>1, <1>4, <1>5, FeedChanges DEF RivalSilent

(* ... so the spends stay in order.                                        *)
LEMMA StepSpendsInOrder ==
    ASSUME TypeInv, OneIntent, PaymentBacked, [Next]_vars, feed \in Seq(TrueEvents),
           SpendsInOrder
    PROVE  SpendsInOrder'
<1>1. CASE CommitEvent /\ feed # << >> /\ feed' = Tail(feed)
  <2>1. /\ Len(feed) \in Nat /\ Len(feed') = Len(feed) - 1
        /\ \A i \in 1 .. Len(feed') : feed'[i] = feed[i + 1]
    BY <1>1, FeedShrunk
  <2> SUFFICES ASSUME NEW i \in 1 .. Len(feed'), NEW j \in 1 .. Len(feed'), i < j,
                      feed'[i].kind \in Spends, feed'[i].h > 0
               PROVE  feed'[j].kind # Rival(feed'[i].kind)
    BY DEF SpendsInOrder
  <2>2. /\ i + 1 \in 1 .. Len(feed) /\ j + 1 \in 1 .. Len(feed) /\ i + 1 < j + 1
        /\ feed'[i] = feed[i + 1] /\ feed'[j] = feed[j + 1]
    BY <2>1
  <2> QED BY <2>2 DEF SpendsInOrder
<1>2. ASSUME NEW new \in Seq(TrueEvents'), Announces(new)
      PROVE  SpendsInOrder'
  <2>1. /\ Len(feed) \in Nat /\ Len(new) \in Nat
        /\ Len(feed') = Len(feed) + Len(new)
        /\ \A i \in 1 .. Len(feed') :
             feed'[i] = IF i <= Len(feed) THEN feed[i] ELSE new[i - Len(feed)]
    BY <1>2, FeedGrown
  <2> SUFFICES ASSUME NEW i \in 1 .. Len(feed'), NEW j \in 1 .. Len(feed'), i < j,
                      feed'[i].kind \in Spends, feed'[i].h > 0,
                      feed'[j].kind = Rival(feed'[i].kind)
               PROVE  FALSE
    BY DEF SpendsInOrder
  <2> DEFINE t == feed'[i].kind
  <2>2. CASE j <= Len(feed)
    BY <2>1, <2>2 DEF SpendsInOrder
  <2>3. CASE Len(feed) < i
    <3>1. /\ i - Len(feed) \in 1 .. Len(new) /\ j - Len(feed) \in 1 .. Len(new)
          /\ feed'[i] = new[i - Len(feed)] /\ feed'[j] = new[j - Len(feed)]
      BY <2>1, <2>3
    <3> QED BY <1>2, <3>1 DEF Announces
  <2>4. CASE i <= Len(feed) /\ Len(feed) < j
    <3>1. /\ i \in 1 .. Len(feed) /\ feed'[i] = feed[i]
          /\ j - Len(feed) \in 1 .. Len(new) /\ feed'[j] = new[j - Len(feed)]
      BY <2>1, <2>4
    <3>2. feed[i] \in TrueEvents
      BY <3>1, ElementOfSeq
    <3>3. onchain[t] = feed[i].h /\ onchain[t] > 0
      BY <3>1, <3>2 DEF TrueEvents, Spends, ContractTxs
    <3>4. feed'[j].kind = Rival(t) /\ Rival(t) \in Spends /\ Rival(Rival(t)) = t
      BY DEF Spends, Rival
    <3>5. onchain[t] <= Mempool
      BY <1>2, <3>1, <3>4 DEF Announces
    <3>6. onchain[t] \in Int
      BY ChainType DEF ChainNumbers, Spends, ContractTxs
    <3> QED BY <3>3, <3>5, <3>6 DEF Mempool
  <2> QED BY <2>1, <2>2, <2>3, <2>4
<1> QED BY <1>1, <1>2, FeedChanges DEF SpendsInOrder

(* ... and a contract that was spent is not spent again.                   *)
LEMMA StepOneMined ==
    ASSUME TypeInv, OneIntent, PaymentBacked, [Next]_vars, OneMined
    PROVE  OneMined'
<1>1. /\ ChainNumbers /\ ChainNumbers'
      /\ onchain \in [ContractTxs -> {Absent} \cup Heights]
  BY StepTypeInv, ChainType, PTL DEF TypeInv, WorldTypeOK
<1>2. CASE onchain' = onchain
  BY <1>2 DEF OneMined
<1>3. ASSUME NEW t \in ContractTxs, Broadcasts(t) PROVE OneMined'
  BY <1>1, <1>3 DEF Broadcasts, Broadcast, OneMined, Mempool, Spends, Rival, ContractTxs
<1>4. CASE NewBlock
  <2>1. PICK S \in SUBSET ContractTxs : \E new : Mines(S, new)
    BY <1>4, BlockFeed
  <2>2. /\ Minable(S)
        /\ onchain' = [t \in ContractTxs |-> IF t \in S THEN tip[Chain] + 1 ELSE onchain[t]]
    BY <2>1 DEF Mines
  <2> QED BY <1>1, <2>2 DEF Minable, OneMined, Mempool, ContractTxs, ChainNumbers
<1> QED BY <1>2, <1>3, <1>4, FeedSteps

-----------------------------------------------------------------------------
(* The server settles only after a confirmed claim.                        *)

(* The entity in memory differs from the saved one in its contract and its *)
(* preimage alone.                                                         *)
SavedAsIs ==
    /\ db.status = swap.status
    /\ db.outcome = swap.outcome
    /\ db.lockTx = swap.lockTx
    /\ db.lockTxHeight = swap.lockTxHeight
    /\ db.unlockTxHeight = swap.unlockTxHeight

(* The recorded unlocking height is that of a mined spend, whose rival is  *)
(* not to be heard of any more.                                            *)
RecordedSpend ==
    swap.unlockTxHeight > 0 =>
        \E t \in Spends : onchain[t] = swap.unlockTxHeight /\ RivalSilent(t)

(* Between two events the status names the spend that was recorded.        *)
StatusOfSpend ==
    ev # "spend" /\ swap.unlockTxHeight > 0 =>
        /\ swap.status = "CONTRACT_CLAIMED_UNCONFIRMED" =>
             onchain["claim"] = swap.unlockTxHeight
        /\ swap.status = "CONTRACT_REFUNDED_UNCONFIRMED" =>
             onchain["refund"] = swap.unlockTxHeight

ClaimConfirmed == hasEnoughConfirmations(onchain["claim"], tip[Chain])

SettlesForClaim == ev = "settle" \/ invoice = "SETTLED" => ClaimConfirmed

(* What the chain, the feed and the entity say of the spend.               *)
SpendInv ==
    /\ feed \in Seq(TrueEvents)
    /\ OneMined
    /\ SpendsInOrder
    /\ SavedAsIs
    /\ RecordedSpend
    /\ StatusOfSpend
    /\ SettlesForClaim

(* No step saves less than it changes.                                     *)
LEMMA StepSavedAsIs == TypeInv /\ SavedAsIs /\ [Next]_vars => SavedAsIs'
<1> SUFFICES ASSUME TypeInv, SavedAsIs, [Next]_vars PROVE SavedAsIs'
  OBVIOUS
<1>1. swap \in Entities /\ db \in Entities
  BY DEF TypeInv, ProcessTypeOK
<1> USE <1>1 DEF SavedAsIs, Entities
<1>2. CASE Die
  BY <1>2 DEF Die
<1>3. CASE UNCHANGED <<swap, db>>
  BY <1>3
<1>4. CASE \E s : Save(s)
  BY <1>4 DEF Save
<1>5. CASE CreateContract /\ ~Die
  BY <1>5 DEF CreateContract, Save
<1>6. CASE ApplySpendingTx
  BY <1>6 DEF ApplySpendingTx, ApplyRefundTx, ApplyClaimTx, Save
<1>7. CASE Resume
  BY <1>7 DEF Resume
<1>8. CASE PollReply \/ FinishExpiry \/ TrackContract \/ AbortPayment \/ FinishSwap
  BY <1>3, <1>4, <1>8 DEF PollReply, FinishExpiry, TrackContract, AbortPayment, FinishSwap
<1>9. CASE ProcessNewBlock
  BY <1>3, <1>4, <1>9
  DEF ProcessNewBlock, BlockExpires, BlockFunds, BlockRefunds, BlockSettles, BlockIgnored
<1>10. CASE SettleInvoice \/ ProcessFundingTx \/ RecordSpendingTx
  BY <1>2, <1>3, <1>4, <1>10
  DEF SettleInvoice, ProcessFundingTx, RecordSpendingTx, HandlerThrows
<1>11. CASE BroadcastRefund
  BY <1>2, <1>3, <1>11 DEF BroadcastRefund
<1> QED
  BY <1>2, <1>3, <1>5, <1>6, <1>7, <1>8, <1>9, <1>10, <1>11
  DEF Next, ServerStep, WorldStep, vars, server, PollInvoice, CheckExpiry,
      ServeExpiryCancel, SendCoins, SendReply, CancelInvoice, NobodyListens,
      CommitEvent, Crash, Restart, PayInvoice, InvoiceLapses, UserClaims, NewBlock,
      NewBitcoinBlock

(* Apart from the handler of a spend, no step touches what the entity says *)
(* of the spend, and only a block that finds the claim confirmed lets the  *)
(* server settle.                                                          *)
LEMMA SpendFrame ==
    ASSUME TypeInv, SavedAsIs, [Next]_vars, ~RecordSpendingTx, ~ApplySpendingTx
    PROVE  /\ swap'.unlockTxHeight = swap.unlockTxHeight
           /\ swap'.status \in {"CONTRACT_CLAIMED_UNCONFIRMED",
                                "CONTRACT_REFUNDED_UNCONFIRMED"} =>
                swap'.status = swap.status
           /\ ev = "spend" => ev' = "spend" \/ ~up'
           /\ ev' = "settle" => ev = "settle" \/ (ProcessNewBlock /\ BlockSettles)
           /\ invoice' = "SETTLED" => invoice = "SETTLED" \/ ev = "settle"
<1>1. swap \in Entities /\ db \in Entities
  BY DEF TypeInv, ProcessTypeOK
<1> USE <1>1 DEF SavedAsIs, Entities
<1>2. CASE Die /\ (CreateContract \/ BroadcastRefund \/ SettleInvoice \/ Crash)
  BY <1>2 DEF Die, CreateContract, BroadcastRefund, SettleInvoice, Crash, world
<1>3. CASE PollInvoice \/ PollReply \/ CheckExpiry \/ ServeExpiryCancel \/ FinishExpiry
  BY <1>3
  DEF PollInvoice, PollReply, CheckExpiry, ServeExpiryCancel, FinishExpiry,
      CancelServed, Save, world
<1>4. CASE (CreateContract /\ ~Die) \/ TrackContract \/ SendCoins \/ SendReply
  BY <1>4 DEF CreateContract, TrackContract, SendCoins, SendReply, Save, world
<1>5. CASE AbortPayment \/ CancelInvoice \/ (BroadcastRefund /\ ~Die)
  BY <1>5 DEF AbortPayment, CancelInvoice, BroadcastRefund, CancelServed, Save, world
<1>6. CASE ProcessNewBlock
  BY <1>6
  DEF ProcessNewBlock, BlockExpires, BlockFunds, BlockRefunds, BlockSettles,
      BlockIgnored, Dispatch, Save, world
<1>7. CASE (SettleInvoice /\ ~Die) \/ FinishSwap \/ ProcessFundingTx
  BY <1>7
  DEF SettleInvoice, HandlerThrows, FinishSwap, ProcessFundingTx, Dispatch, Save,
      tasks, world
<1>8. CASE NobodyListens \/ CommitEvent \/ Restart \/ Resume
  BY <1>8 DEF NobodyListens, CommitEvent, Restart, Resume, tasks, world
<1>9. CASE WorldStep \/ UNCHANGED vars
  BY <1>9
  DEF WorldStep, PayInvoice, InvoiceLapses, UserClaims, NewBlock, NewBitcoinBlock,
      server, tasks, world, vars
<1> QED
  BY <1>2, <1>3, <1>4, <1>5, <1>6, <1>7, <1>8, <1>9
  DEF Next, ServerStep, Crash

(* The height recorded with a spend is the height it has.                  *)
LEMMA StepRecordedSpend ==
    ASSUME TypeInv, OneIntent, PaymentBacked, SpendInv, [Next]_vars
    PROVE  RecordedSpend'
<1>1. swap \in Entities /\ db \in Entities
  BY DEF TypeInv, ProcessTypeOK
<1>2. SavedAsIs /\ RecordedSpend /\ SpendsInOrder /\ feed \in Seq(TrueEvents)
  BY DEF SpendInv
<1> SUFFICES ASSUME swap'.unlockTxHeight > 0
             PROVE  \E t \in Spends :
                      onchain'[t] = swap'.unlockTxHeight /\ RivalSilent(t)'
  BY DEF RecordedSpend
<1>3. CASE swap'.unlockTxHeight = swap.unlockTxHeight
  <2>1. PICK t \in Spends : onchain[t] = swap.unlockTxHeight /\ RivalSilent(t)
    BY <1>2, <1>3 DEF RecordedSpend
  <2>2. RivalSilent(t)' /\ onchain'[t] = onchain[t]
    BY <1>3, <2>1, RivalStaysSilent
  <2> QED BY <1>3, <2>1, <2>2
<1>4. CASE RecordSpendingTx /\ swap'.unlockTxHeight # swap.unlockTxHeight
  <2>1. feed # << >> /\ UNCHANGED world
    BY <1>4 DEF RecordSpendingTx, Dispatch
  <2> PICK t \in Spends : t = Head(feed).kind
    BY <1>4 DEF RecordSpendingTx, Dispatch, Spends
  <2>2. swap'.unlockTxHeight = height
    BY <1>1, <1>2, <1>4
    DEF RecordSpendingTx, HandlerThrows, Die, Save, SavedAsIs, Entities
  <2>3. onchain[t] = height /\ t # Rival(t)
    BY <1>2, <2>1, <2>2, HeadIsTrue DEF Spends, ContractTxs, Rival
  <2>4. /\ Len(feed) \in Nat /\ Len(feed) > 0
        /\ Head(feed) = feed[1]
    BY <1>2, <2>1, LenProperties, EmptySeq
  <2>5. RivalSilent(t)
    BY <1>2, <2>1, <2>2, <2>3, <2>4 DEF RivalSilent, SpendsInOrder, height
  <2>6. onchain' = onchain /\ RivalSilent(t)'
    BY <2>1, <2>5 DEF world, RivalSilent
  <2> QED BY <2>1, <2>2, <2>3, <2>6
<1>5. CASE ApplySpendingTx
  BY <1>1, <1>3, <1>5 DEF ApplySpendingTx, ApplyRefundTx, ApplyClaimTx, Save, Entities
<1> QED BY <1>2, <1>3, <1>4, <1>5, SpendFrame

(* The status follows the recorded spend, unless the process dies between  *)
(* the two saves of processContractSpendingTx.                             *)
LEMMA StepStatusOfSpend ==
    ASSUME TypeInv, OneIntent, PaymentBacked, SpendInv, [Next]_vars,
           ev = "spend" => up'
    PROVE  StatusOfSpend'
<1>1. swap \in Entities /\ db \in Entities
  BY DEF TypeInv, ProcessTypeOK
<1>2. SavedAsIs /\ RecordedSpend /\ StatusOfSpend
  BY DEF SpendInv
<1> SUFFICES ASSUME ev' # "spend", swap'.unlockTxHeight > 0
             PROVE  /\ swap'.status = "CONTRACT_CLAIMED_UNCONFIRMED" =>
                         onchain'["claim"] = swap'.unlockTxHeight
                    /\ swap'.status = "CONTRACT_REFUNDED_UNCONFIRMED" =>
                         onchain'["refund"] = swap'.unlockTxHeight
  BY DEF StatusOfSpend
<1>3. ASSUME NEW t \in Spends, onchain[t] = swap.unlockTxHeight,
             swap'.unlockTxHeight = swap.unlockTxHeight
      PROVE  onchain'[t] = swap'.unlockTxHeight
  BY <1>3, ChainGrows DEF Spends, ContractTxs
<1>4. CASE ApplySpendingTx
  <2>1. /\ swap'.unlockTxHeight = swap.unlockTxHeight
        /\ feed # << >>
        /\ Head(feed).kind \in Spends
    BY <1>1, <1>4
    DEF ApplySpendingTx, ApplyRefundTx, ApplyClaimTx, Save, Entities, Spends, TypeInv,
        HandlerHasEvent
  <2>2. PICK t \in Spends : onchain[t] = swap.unlockTxHeight /\ RivalSilent(t)
    BY <1>2, <2>1 DEF RecordedSpend
  <2>3. Head(feed).kind # Rival(t)
    <3>1. feed \in Seq(TrueEvents)
      BY DEF SpendInv
    <3>2. 1 \in 1 .. Len(feed) /\ Head(feed) = feed[1]
      BY <2>1, <3>1, LenProperties, EmptySeq
    <3> QED BY <2>2, <3>2 DEF RivalSilent
  <2>4. Head(feed).kind = t
    BY <2>1, <2>3 DEF Spends, Rival
  <2>5. onchain'[t] = swap'.unlockTxHeight
    BY <1>3, <2>1, <2>2
  <2> QED
    BY <1>1, <1>4, <2>4, <2>5
    DEF ApplySpendingTx, ApplyRefundTx, ApplyClaimTx, Save, Entities
<1>5. CASE ~ApplySpendingTx
  <2>1. /\ swap'.unlockTxHeight = swap.unlockTxHeight
        /\ swap'.status \in {"CONTRACT_CLAIMED_UNCONFIRMED",
                             "CONTRACT_REFUNDED_UNCONFIRMED"} => swap'.status = swap.status
        /\ ev # "spend"
    <3>1. CASE RecordSpendingTx
      BY <1>1, <1>2, <3>1
      DEF RecordSpendingTx, HandlerThrows, Die, Save, SavedAsIs, Entities, Dispatch
    <3>2. CASE ~RecordSpendingTx
      BY <1>2, <1>5, <3>2, SpendFrame
    <3> QED BY <3>1, <3>2
  <2> QED BY <1>2, <1>3, <2>1 DEF StatusOfSpend, Spends
<1> QED BY <1>4, <1>5

(* A confirmed transaction stays confirmed.                                *)
LEMMA ConfirmedStays ==
    ASSUME TypeInv, OneIntent, PaymentBacked, [Next]_vars, NEW t \in ContractTxs,
           hasEnoughConfirmations(onchain[t], tip[Chain])
    PROVE  hasEnoughConfirmations(onchain[t], tip[Chain])'
<1>1. ChainNumbers /\ ChainNumbers'
  BY StepTypeInv, ChainType, PTL
<1> QED
  BY <1>1, ChainGrows, ConfirmationsAssumption DEF hasEnoughConfirmations, ChainNumbers

(* The server settles for nothing but a confirmed claim.                   *)
LEMMA StepSettlesForClaim ==
    ASSUME TypeInv, OneIntent, PaymentBacked, SpendInv, [Next]_vars
    PROVE  SettlesForClaim'
<1>1. SavedAsIs /\ StatusOfSpend /\ SettlesForClaim /\ feed \in Seq(TrueEvents)
  BY DEF SpendInv
<1>2. ClaimConfirmed => ClaimConfirmed'
  BY ConfirmedStays DEF ClaimConfirmed, ContractTxs
<1>3. CASE RecordSpendingTx \/ ApplySpendingTx
  BY <1>1, <1>2, <1>3
  DEF RecordSpendingTx, ApplySpendingTx, HandlerThrows, Die, SettlesForClaim, world
<1>4. CASE ProcessNewBlock /\ BlockSettles
  <2>1. /\ swap.status = "CONTRACT_CLAIMED_UNCONFIRMED"
        /\ hasEnoughConfirmations(swap.unlockTxHeight, height)
        /\ ev = "idle" /\ feed # << >> /\ UNCHANGED world
    BY <1>4 DEF ProcessNewBlock, BlockSettles, Dispatch
  <2>2. onchain["claim"] = swap.unlockTxHeight
    BY <1>1, <2>1 DEF StatusOfSpend, hasEnoughConfirmations
  <2>3. height \in Nat /\ height <= tip[Chain]
    BY <1>1, <2>1, HeadIsTrue
  <2>4. ClaimConfirmed
    BY <2>1, <2>2, <2>3, ChainType, ConfirmationsAssumption
    DEF ClaimConfirmed, hasEnoughConfirmations, ChainNumbers, ContractTxs
  <2> QED BY <1>2, <2>4 DEF SettlesForClaim
<1>5. CASE ~RecordSpendingTx /\ ~ApplySpendingTx /\ ~(ProcessNewBlock /\ BlockSettles)
  BY <1>1, <1>2, <1>5, SpendFrame DEF SettlesForClaim
<1> QED BY <1>3, <1>4, <1>5

(* What is said of the spend stays true.                                   *)
LEMMA StepSpendInv ==
    ASSUME TypeInv, OneIntent, PaymentBacked, SpendInv, [Next]_vars,
           ev = "spend" => up'
    PROVE  SpendInv'
<1>1. (feed \in Seq(TrueEvents))'
  BY FeedStaysTrue DEF SpendInv
<1>2. OneMined' /\ SpendsInOrder' /\ SavedAsIs'
  BY StepOneMined, StepSpendsInOrder, StepSavedAsIs DEF SpendInv
<1>3. RecordedSpend' /\ StatusOfSpend' /\ SettlesForClaim'
  BY StepRecordedSpend, StepStatusOfSpend, StepSettlesForClaim
<1> QED BY <1>1, <1>2, <1>3 DEF SpendInv

LEMMA InitSpendInv == Init => SpendInv
<1> SUFFICES ASSUME Init PROVE SpendInv
  OBVIOUS
<1>1. feed \in Seq(TrueEvents) /\ Len(feed) = 0
  BY EmptySeq DEF Init
<1> QED
  BY <1>1
  DEF Init, NewSwap, SpendInv, OneMined, SpendsInOrder, SavedAsIs, RecordedSpend,
      StatusOfSpend, SettlesForClaim, Absent, ContractTxs

(* The process does not die between the two saves of                       *)
(* processContractSpendingTx.                                              *)
SpendIsApplied == [][ev = "spend" => up']_vars

(* The invariants of the state behind a spend, step by step.               *)
LEMMA SpendSpec ==
    Spec /\ SpendIsApplied => [](TypeInv /\ OneIntent /\ PaymentBacked /\ SpendInv)
<1>1. Init => OneIntent /\ PaymentBacked
  BY DEF Init, NewSwap, OneIntent, PaymentBacked, ContractTxs
<1>2. TypeInv /\ OneIntent /\ PaymentBacked /\ SpendInv /\ [Next]_vars
        /\ [ev = "spend" => up']_vars => SpendInv'
  <2>1. CASE UNCHANGED vars
    BY <2>1
    DEF vars, server, world, SpendInv, TrueEvents, OneMined, SpendsInOrder, SavedAsIs,
        RecordedSpend, RivalSilent, StatusOfSpend, SettlesForClaim, ClaimConfirmed
  <2>2. CASE ~UNCHANGED vars
    BY <2>2, StepSpendInv
  <2> QED BY <2>1, <2>2
<1> QED
  BY <1>1, <1>2, InitTypeInv, InitSpendInv, StepTypeInv, StepOneIntent,
     StepPaymentBacked, PTL
  DEF Spec, SpendIsApplied

(* The invoice is settled only for a claim that is in the chain with its   *)
(* confirmations, whatever fails and whenever the process dies, except     *)
(* between the two saves of processContractSpendingTx                      *)
(* (SwapOutRunner.processNewBlock).                                        *)
THEOREM SwapOutSettledOnlyAfterClaim ==
    Spec /\ SpendIsApplied => []SettledOnlyAfterClaim
<1>1. SpendInv => SettledOnlyAfterClaim
  BY DEF SpendInv, SettlesForClaim, ClaimConfirmed, SettledOnlyAfterClaim
<1> QED BY <1>1, SpendSpec, PTL

-----------------------------------------------------------------------------
(* What polls are told.                                                    *)

(* LND answers as it should: a cancellation is served in turn and does not *)
(* fail, and a funding that was sent is not reported as refused.           *)
LndAnswers == Faults \cap {"cancel_race", "cancel_error", "send_ambiguous"} = {}

(* Each task finds the status it was started for: the poller's reply that  *)
(* of a new swap, the expiry a swap that is not funded and whose invoice   *)
(* is gone, the payment intent its own status, or an expired swap it can   *)
(* do nothing for.                                                         *)
TasksFitStatus ==
    /\ poll \in {"OPEN", "ACCEPTED", "SETTLED"} => swap.status = "CREATED"
    /\ expiry # "cancelling"
    /\ expiry = "cancelled" =>
         /\ swap.status \in {"CREATED", "INVOICE_PAYMENT_INTENT_RECEIVED"}
         /\ invoice = "CANCELED" /\ intent \in {"off", "contract"} /\ sends = 0
    /\ intent \in {"contract", "track", "sending", "failed"} =>
         \/ swap.status = "INVOICE_PAYMENT_INTENT_RECEIVED"
         \/ intent = "contract" /\ swap.outcome = "EXPIRED"
    /\ intent = "failed" => sends = 0

(* The outcome is written with DONE; EXPIRED and ERROR are written of a    *)
(* contract that is not and will not be funded, SUCCESS of a settled       *)
(* invoice.                                                                *)
OutcomeFitsMoney ==
    /\ swap.status = "DONE" <=> swap.outcome # "NONE"
    /\ swap.outcome \in {"EXPIRED", "ERROR"} =>
         sends = 0 /\ (intent = "off" \/ (intent = "contract" /\ invoice = "CANCELED"))
    /\ ev \in {"settle", "settled"} => swap.status = "CONTRACT_CLAIMED_UNCONFIRMED"
    /\ ev = "settled" \/ swap.outcome = "SUCCESS" => invoice = "SETTLED"

(* Only a contract that was funded is claimed.                             *)
ClaimNeedsContract == onchain["claim"] # Absent => onchain["lock"] # Absent

StatusInv ==
    /\ feed \in Seq(TrueEvents)
    /\ SavedAsIs
    /\ RevealedByClaim
    /\ TasksFitStatus
    /\ OutcomeFitsMoney
    /\ ClaimNeedsContract

(* What the state behind a swap-out says, all of it.                       *)
SwapInv == TypeInv /\ OneIntent /\ PaymentBacked /\ StatusInv

(* A new swap has neither funds on the chain nor a settled invoice.        *)
LEMMA NotFundedYet ==
    ASSUME SwapInv
    PROVE  /\ swap.status = "CREATED" => sends = 0 /\ intent = "off"
           /\ sends = 0 =>
                /\ onchain["lock"] = Absent /\ invoice # "SETTLED"
                /\ feed # << >> => Head(feed).kind # "lock"
<1>1. TypeInv /\ OneIntent /\ PaymentBacked /\ RevealedByClaim /\ ClaimNeedsContract
      /\ feed \in Seq(TrueEvents)
  BY DEF SwapInv, StatusInv
<1>2. swap.status = "CREATED" => sends = 0 /\ intent = "off"
  BY <1>1 DEF OneIntent
<1>3. sends = 0 => onchain["lock"] = Absent /\ invoice # "SETTLED"
  BY <1>1 DEF PaymentBacked, RevealedByClaim, ClaimNeedsContract
<1>4. sends = 0 /\ feed # << >> => Head(feed).kind # "lock"
  BY <1>1, <1>3, HeadIsTrue DEF ContractTxs
<1> QED BY <1>2, <1>3, <1>4

(* What a poll may see of a step.                                          *)
SameView == swap'.status = swap.status /\ swap'.outcome = swap.outcome

ViewMoved ==
    [status |-> swap'.status, outcome |-> swap'.outcome] \in OutMoves[swap.status]

(* The view's moves that are made.                                         *)
LEMMA ViewMoves ==
    /\ At("INVOICE_PAYMENT_INTENT_RECEIVED") \in OutMoves["CREATED"]
    /\ \A s \in {"CREATED", "INVOICE_PAYMENT_INTENT_RECEIVED"} :
         Ended("EXPIRED") \in OutMoves[s]
    /\ Ended("ERROR") \in OutMoves["INVOICE_PAYMENT_INTENT_RECEIVED"]
    /\ At("CONTRACT_FUNDED_UNCONFIRMED") \in OutMoves["INVOICE_PAYMENT_INTENT_RECEIVED"]
    /\ At("CONTRACT_FUNDED") \in OutMoves["CONTRACT_FUNDED_UNCONFIRMED"]
    /\ At("CONTRACT_EXPIRED") \in OutMoves["CONTRACT_FUNDED"]
    /\ \A s \in {"CONTRACT_FUNDED_UNCONFIRMED", "CONTRACT_FUNDED", "CONTRACT_EXPIRED",
                 "CONTRACT_REFUNDED_UNCONFIRMED"} :
         At("CONTRACT_CLAIMED_UNCONFIRMED") \in OutMoves[s]
    /\ \A s \in {"CONTRACT_EXPIRED", "CONTRACT_CLAIMED_UNCONFIRMED"} :
         At("CONTRACT_REFUNDED_UNCONFIRMED") \in OutMoves[s]
    /\ Ended("SUCCESS") \in OutMoves["CONTRACT_CLAIMED_UNCONFIRMED"]
    /\ Ended("REFUNDED") \in OutMoves["CONTRACT_REFUNDED_UNCONFIRMED"]
    /\ OutMoves["DONE"] = {}
BY DEF OutMoves, At, Ended

(* An entity whose status and outcome alone are written.                   *)
LEMMA StatusWritten ==
    ASSUME NEW s \in Entities, NEW x \in Statuses, NEW o \in Outcomes
    PROVE  LET t == [s EXCEPT !.status = x]
               u == [s EXCEPT !.status = x, !.outcome = o]
           IN  /\ t.status = x /\ t.outcome = s.outcome
               /\ u.status = x /\ u.outcome = o
BY DEF Entities

(* The feed, the saved entity and the preimage need no look at the step.   *)
LEMMA StatusFrame ==
    ASSUME SwapInv, [Next]_vars
    PROVE  /\ feed' \in Seq(TrueEvents')
           /\ SavedAsIs' /\ RevealedByClaim' /\ ClaimNeedsContract'
<1>1. TypeInv /\ OneIntent /\ PaymentBacked /\ StatusInv
  BY DEF SwapInv
<1>2. feed' \in Seq(TrueEvents')
  BY <1>1, FeedStaysTrue DEF StatusInv
<1>3. SavedAsIs' /\ RevealedByClaim'
  BY <1>1, StepSavedAsIs, StepRevealedByClaim DEF StatusInv
<1>4. ClaimNeedsContract'
  <2>1. onchain["lock"] # Absent => onchain'["lock"] # Absent
    BY <1>1, BroadcastIsForGood DEF ContractTxs
  <2>2. CASE UNCHANGED onchain
    BY <1>1, <2>2 DEF StatusInv, ClaimNeedsContract
  <2>3. CASE UserClaims
    BY <2>1, <2>3 DEF UserClaims, ClaimNeedsContract
  <2>4. CASE SendCoins \/ BroadcastRefund
    BY <1>1, <2>1, <2>4
    DEF SendCoins, BroadcastRefund, Broadcast, StatusInv, ClaimNeedsContract, TypeInv,
        WorldTypeOK, ContractTxs
  <2>5. CASE NewBlock
    BY <1>1, <2>1, <2>5
    DEF NewBlock, Minable, StatusInv, ClaimNeedsContract, TypeInv, WorldTypeOK,
        ContractTxs, Mempool, Absent
  <2> QED
    BY <2>2, <2>3, <2>4, <2>5
    DEF Next, ServerStep, WorldStep, vars, world, PollInvoice, PollReply, CheckExpiry,
        ServeExpiryCancel, FinishExpiry, CreateContract, TrackContract, SendReply,
        AbortPayment, CancelInvoice, ProcessNewBlock, SettleInvoice, FinishSwap,
        ProcessFundingTx, RecordSpendingTx, ApplySpendingTx, NobodyListens,
        CommitEvent, Crash, Restart, Resume, PayInvoice, InvoiceLapses,
        NewBitcoinBlock
<1> QED BY <1>2, <1>3, <1>4

(* The tasks keep to their status, and move it as the view allows.         *)
LEMMA TaskKeepsStatus ==
    ASSUME LndAnswers, SwapInv, [Next]_vars,
           \/ PollInvoice \/ PollReply
           \/ CheckExpiry \/ ServeExpiryCancel \/ FinishExpiry
           \/ TrackContract \/ SendCoins \/ SendReply \/ AbortPayment \/ CancelInvoice
           \/ CreateContract /\ ~Die
           \/ BroadcastRefund /\ ~Die
    PROVE  TasksFitStatus' /\ OutcomeFitsMoney' /\ (ViewMoved \/ SameView)
<1>1. /\ swap \in Entities
      /\ OneIntent /\ TasksFitStatus /\ OutcomeFitsMoney
      /\ swap.status = "CREATED" => sends = 0 /\ intent = "off"
      /\ sends = 0 => invoice # "SETTLED"
  BY NotFundedYet DEF SwapInv, StatusInv, TypeInv, ProcessTypeOK
<1>2. "cancel_race" \notin Faults /\ "cancel_error" \notin Faults
      /\ "send_ambiguous" \notin Faults
  BY DEF LndAnswers
<1>3. /\ {"INVOICE_PAYMENT_INTENT_RECEIVED", "DONE"} \subseteq Statuses
      /\ {"EXPIRED", "ERROR"} \subseteq Outcomes
  BY DEF Statuses, Outcomes
<1>4. CASE PollReply /\ poll = "ACCEPTED"
  <2>1. /\ swap' = [swap EXCEPT !.status = "INVOICE_PAYMENT_INTENT_RECEIVED"]
        /\ intent' = "contract" /\ poll' = "off" /\ UNCHANGED <<expiry, ev, invoice, sends>>
        /\ swap.status = "CREATED"
    BY <1>1, <1>4 DEF PollReply, Save, world, TasksFitStatus
  <2>2. /\ swap'.status = "INVOICE_PAYMENT_INTENT_RECEIVED"
        /\ swap'.outcome = swap.outcome /\ swap.outcome = "NONE"
    BY <1>1, <1>3, <2>1, StatusWritten DEF OutcomeFitsMoney
  <2>3. TasksFitStatus' /\ OutcomeFitsMoney'
    BY <1>1, <2>1, <2>2 DEF TasksFitStatus, OutcomeFitsMoney
  <2>4. ViewMoved
    BY <2>1, <2>2, ViewMoves DEF ViewMoved, At
  <2> QED BY <2>3, <2>4
<1>5. CASE FinishExpiry
  <2>1. /\ swap' = [swap EXCEPT !.status = "DONE", !.outcome = "EXPIRED"]
        /\ expiry = "cancelled" /\ expiry' = "off"
        /\ poll \in {"off", "idle", "CANCELED"}
        /\ UNCHANGED <<poll, intent, ev, invoice, sends>>
    BY <1>2, <1>5 DEF FinishExpiry, Save, world
  <2>2. swap'.status = "DONE" /\ swap'.outcome = "EXPIRED"
    BY <1>1, <1>3, <2>1, StatusWritten
  <2>3. TasksFitStatus' /\ OutcomeFitsMoney'
    BY <1>1, <2>1, <2>2 DEF TasksFitStatus, OutcomeFitsMoney
  <2>4. ViewMoved
    BY <1>1, <2>1, <2>2, ViewMoves DEF ViewMoved, Ended, TasksFitStatus
  <2> QED BY <2>3, <2>4
<1>6. CASE AbortPayment
  <2>1. /\ swap' = [swap EXCEPT !.status = "DONE", !.outcome = "ERROR"]
        /\ intent = "failed" /\ intent' = "off"
        /\ UNCHANGED <<poll, expiry, ev, invoice, sends>>
    BY <1>6 DEF AbortPayment, Save, world
  <2>2. swap'.status = "DONE" /\ swap'.outcome = "ERROR"
    BY <1>1, <1>3, <2>1, StatusWritten
  <2>3. TasksFitStatus' /\ OutcomeFitsMoney'
    BY <1>1, <2>1, <2>2 DEF TasksFitStatus, OutcomeFitsMoney, OneIntent
  <2>4. ViewMoved
    BY <1>1, <2>1, <2>2, ViewMoves DEF ViewMoved, Ended, TasksFitStatus
  <2> QED BY <2>3, <2>4
<1>7. CASE CreateContract /\ ~Die
  <2>1. /\ swap'.status = swap.status /\ swap'.outcome = swap.outcome
        /\ invoice = "ACCEPTED" /\ intent = "contract" /\ intent' = "track"
        /\ UNCHANGED <<poll, expiry, ev, invoice, sends>>
    BY <1>1, <1>7 DEF CreateContract, Save, Entities, world
  <2> QED BY <1>1, <2>1 DEF TasksFitStatus, OutcomeFitsMoney, SameView
<1> USE DEF TasksFitStatus, OutcomeFitsMoney, SameView
<1>8. CASE PollInvoice
  BY <1>1, <1>8 DEF PollInvoice, world
<1>9. CASE PollReply /\ poll # "ACCEPTED"
  BY <1>1, <1>9 DEF PollReply, world
<1>10. CASE CheckExpiry
  BY <1>1, <1>2, <1>10 DEF CheckExpiry, CancelServed
<1>11. CASE ServeExpiryCancel
  BY <1>1, <1>11 DEF ServeExpiryCancel
<1>12. CASE TrackContract
  BY <1>1, <1>12 DEF TrackContract, Save, world
<1>13. CASE SendCoins
  BY <1>1, <1>13 DEF SendCoins
<1>14. CASE SendReply
  BY <1>1, <1>2, <1>14 DEF SendReply, world, OneIntent
<1>15. CASE CancelInvoice
  BY <1>1, <1>2, <1>15 DEF CancelInvoice, CancelServed
<1>16. CASE BroadcastRefund /\ ~Die
  BY <1>1, <1>16 DEF BroadcastRefund
<1> QED
  BY <1>4, <1>5, <1>6, <1>7, <1>8, <1>9, <1>10, <1>11, <1>12, <1>13, <1>14, <1>15, <1>16

(* A step that only writes a status which is not that of a new swap or of  *)
(* a payment intent, while no task minds.                                  *)
LEMMA HandlerMovesStatus ==
    ASSUME SwapInv,
           UNCHANGED <<poll, expiry, intent, invoice, sends>>,
           swap.status \notin {"CREATED", "INVOICE_PAYMENT_INTENT_RECEIVED", "DONE"},
           swap'.status = "DONE" <=> swap'.outcome # "NONE",
           swap'.outcome \notin {"EXPIRED", "ERROR"},
           swap'.outcome = "SUCCESS" => invoice = "SETTLED",
           ev' \notin {"settle", "settled"}
    PROVE  TasksFitStatus' /\ OutcomeFitsMoney'
BY DEF SwapInv, StatusInv, TasksFitStatus, OutcomeFitsMoney

(* The handlers of nbxplorer's events keep the tasks' statuses, and move   *)
(* the status as the view allows.                                          *)
LEMMA EventKeepsStatus ==
    ASSUME LndAnswers, SwapInv, [Next]_vars,
           \/ ProcessNewBlock \/ FinishSwap \/ ProcessFundingTx \/ ApplySpendingTx
           \/ SettleInvoice /\ ~Die
           \/ RecordSpendingTx /\ ~Die
           \/ NobodyListens \/ CommitEvent
    PROVE  TasksFitStatus' /\ OutcomeFitsMoney' /\ (ViewMoved \/ SameView)
<1>1. /\ swap \in Entities
      /\ OneIntent /\ TasksFitStatus /\ OutcomeFitsMoney
      /\ swap.status = "CREATED" => sends = 0 /\ intent = "off"
      /\ sends = 0 =>
           invoice # "SETTLED" /\ (feed # << >> => Head(feed).kind # "lock")
  BY NotFundedYet DEF SwapInv, StatusInv, TypeInv, ProcessTypeOK
<1>2. Statuses = { "CREATED", "INVOICE_PAYMENT_INTENT_RECEIVED",
                   "CONTRACT_FUNDED_UNCONFIRMED", "CONTRACT_FUNDED",
                   "CONTRACT_CLAIMED_UNCONFIRMED", "DONE", "CONTRACT_EXPIRED",
                   "CONTRACT_REFUNDED_UNCONFIRMED" }
      /\ {"REFUNDED", "SUCCESS"} \subseteq Outcomes
  BY DEF Statuses, Outcomes
<1>3. ASSUME NEW x \in Statuses \ {"DONE"},
             swap.status \notin {"CREATED", "INVOICE_PAYMENT_INTENT_RECEIVED", "DONE"},
             swap'.status = x, swap'.outcome = swap.outcome,
             At(x) \in OutMoves[swap.status],
             UNCHANGED <<poll, expiry, intent, invoice, sends>>, ev' = "done"
      PROVE  TasksFitStatus' /\ OutcomeFitsMoney' /\ ViewMoved
  <2>1. swap.outcome = "NONE"
    BY <1>1, <1>3 DEF OutcomeFitsMoney
  <2>2. TasksFitStatus' /\ OutcomeFitsMoney'
    BY <1>3, <2>1, HandlerMovesStatus
  <2> QED BY <1>3, <2>1, <2>2 DEF ViewMoved, At
<1>4. ASSUME SameView, UNCHANGED <<poll, expiry, intent, invoice, sends>>,
             ev' \notin {"settle", "settled"}
      PROVE  TasksFitStatus' /\ OutcomeFitsMoney' /\ SameView
  BY <1>1, <1>4 DEF TasksFitStatus, OutcomeFitsMoney, SameView
<1>5. CASE ProcessNewBlock
  <2>1. UNCHANGED <<poll, expiry, intent, invoice, sends>>
    BY <1>5 DEF ProcessNewBlock, world
  <2>2. CASE BlockExpires
    <3>1. CASE swap.unlockTxHeight = 0
      <4>1. /\ swap' = [swap EXCEPT !.status = "CONTRACT_EXPIRED"]
            /\ swap.status = "CONTRACT_FUNDED" /\ ev' = "done"
        BY <2>2, <3>1 DEF BlockExpires, Save
      <4>2. swap'.status = "CONTRACT_EXPIRED" /\ swap'.outcome = swap.outcome
        BY <1>1, <1>2, <4>1, StatusWritten
      <4> QED BY <1>2, <1>3, <2>1, <4>1, <4>2, ViewMoves
    <3>2. CASE swap.unlockTxHeight # 0
      BY <1>4, <2>1, <2>2, <3>2 DEF BlockExpires, SameView
    <3> QED BY <3>1, <3>2
  <2>3. CASE BlockFunds
    <3>1. /\ swap' = [swap EXCEPT !.status = "CONTRACT_FUNDED"]
          /\ swap.status = "CONTRACT_FUNDED_UNCONFIRMED" /\ ev' = "done"
      BY <2>3 DEF BlockFunds, Save
    <3>2. swap'.status = "CONTRACT_FUNDED" /\ swap'.outcome = swap.outcome
      BY <1>1, <1>2, <3>1, StatusWritten
    <3> QED BY <1>2, <1>3, <2>1, <3>1, <3>2, ViewMoves
  <2>4. CASE BlockRefunds
    <3>1. /\ swap' = [swap EXCEPT !.status = "DONE", !.outcome = "REFUNDED"]
          /\ swap.status = "CONTRACT_REFUNDED_UNCONFIRMED" /\ ev' = "done"
      BY <2>4 DEF BlockRefunds, Save
    <3>2. swap'.status = "DONE" /\ swap'.outcome = "REFUNDED"
      BY <1>1, <1>2, <3>1, StatusWritten
    <3>3. TasksFitStatus' /\ OutcomeFitsMoney'
      BY <2>1, <3>1, <3>2, HandlerMovesStatus
    <3> QED BY <3>1, <3>2, <3>3, ViewMoves DEF ViewMoved, Ended
  <2>5. CASE BlockSettles
    <3>1. /\ swap' = swap /\ swap.status = "CONTRACT_CLAIMED_UNCONFIRMED"
          /\ ev' = "settle"
      BY <2>5 DEF BlockSettles
    <3> QED BY <1>1, <2>1, <3>1 DEF TasksFitStatus, OutcomeFitsMoney, SameView
  <2>6. CASE BlockIgnored
    BY <1>4, <2>1, <2>6 DEF BlockIgnored, SameView
  <2> QED BY <1>5, <2>2, <2>3, <2>4, <2>5, <2>6 DEF ProcessNewBlock
<1>6. CASE SettleInvoice /\ ~Die
  BY <1>1, <1>6
  DEF SettleInvoice, HandlerThrows, tasks, TasksFitStatus, OutcomeFitsMoney, SameView
<1>7. CASE FinishSwap
  <2>1. /\ swap' = [swap EXCEPT !.status = "DONE", !.outcome = "SUCCESS"]
        /\ swap.status = "CONTRACT_CLAIMED_UNCONFIRMED" /\ invoice = "SETTLED"
        /\ ev' = "done" /\ UNCHANGED <<poll, expiry, intent, invoice, sends>>
    BY <1>1, <1>7 DEF FinishSwap, Save, tasks, world, OutcomeFitsMoney
  <2>2. swap'.status = "DONE" /\ swap'.outcome = "SUCCESS"
    BY <1>1, <1>2, <2>1, StatusWritten
  <2>3. TasksFitStatus' /\ OutcomeFitsMoney'
    BY <2>1, <2>2, HandlerMovesStatus
  <2> QED BY <2>1, <2>2, <2>3, ViewMoves DEF ViewMoved, Ended
<1>8. CASE ProcessFundingTx
  <2>1. /\ feed # << >> /\ Head(feed).kind = "lock" /\ ev' = "done"
        /\ UNCHANGED <<poll, expiry, intent, invoice, sends>>
    BY <1>8 DEF ProcessFundingTx, Dispatch, tasks, world
  <2>2. sends # 0
    BY <1>1, <2>1
  <2>3. CASE UNCHANGED swap
    BY <1>4, <2>1, <2>3 DEF SameView
  <2>4. CASE ~UNCHANGED swap
    <3>1. /\ swap'.status = "CONTRACT_FUNDED_UNCONFIRMED" /\ swap'.outcome = swap.outcome
          /\ swap.status \in {"INVOICE_PAYMENT_INTENT_RECEIVED",
                              "CONTRACT_FUNDED_UNCONFIRMED"}
      BY <1>1, <1>8, <2>4 DEF ProcessFundingTx, Save, Entities
    <3>2. swap.outcome = "NONE" /\ intent \in {"off", "sent"} /\ expiry # "cancelled"
      BY <1>1, <2>2, <3>1
      DEF TasksFitStatus, OutcomeFitsMoney, OneIntent, SwapInv, TypeInv, ProcessTypeOK,
          TasksTypeOK
    <3>3. TasksFitStatus' /\ OutcomeFitsMoney'
      BY <1>1, <2>1, <3>1, <3>2 DEF TasksFitStatus, OutcomeFitsMoney
    <3>4. ViewMoved \/ SameView
      BY <3>1, <3>2, ViewMoves DEF ViewMoved, SameView, At
    <3> QED BY <3>3, <3>4
  <2> QED BY <2>3, <2>4
<1>9. CASE RecordSpendingTx /\ ~Die
  <2>1. /\ SameView /\ ev' \in {"done", "spend"}
        /\ UNCHANGED <<poll, expiry, intent, invoice, sends>>
    BY <1>1, <1>9
    DEF RecordSpendingTx, HandlerThrows, Save, SameView, Entities, tasks, world
  <2> QED BY <1>4, <2>1
<1>10. CASE ApplySpendingTx
  <2>1. ev' = "done" /\ UNCHANGED <<poll, expiry, intent, invoice, sends>>
    BY <1>10 DEF ApplySpendingTx, tasks, world
  <2>2. CASE swap'.status = swap.status
    <3>1. SameView
      BY <1>1, <1>10, <2>2
      DEF ApplySpendingTx, ApplyRefundTx, ApplyClaimTx, Save, SameView, Entities
    <3> QED BY <1>4, <2>1, <3>1
  <2>3. CASE ApplyRefundTx /\ swap'.status # swap.status
    <3>1. /\ swap'.status = "CONTRACT_REFUNDED_UNCONFIRMED"
          /\ swap'.outcome = swap.outcome
          /\ swap.status \in {"CONTRACT_EXPIRED", "CONTRACT_CLAIMED_UNCONFIRMED"}
      BY <1>1, <2>3 DEF ApplyRefundTx, Save, Entities
    <3> QED BY <1>2, <1>3, <2>1, <3>1, ViewMoves
  <2>4. CASE ApplyClaimTx /\ swap'.status # swap.status
    <3>1. /\ swap'.status = "CONTRACT_CLAIMED_UNCONFIRMED"
          /\ swap'.outcome = swap.outcome
          /\ swap.status \in {"CONTRACT_FUNDED", "CONTRACT_REFUNDED_UNCONFIRMED",
                              "CONTRACT_EXPIRED", "CONTRACT_FUNDED_UNCONFIRMED"}
      BY <1>1, <2>4 DEF ApplyClaimTx, Save, Entities
    <3> QED BY <1>2, <1>3, <2>1, <3>1, ViewMoves
  <2> QED BY <1>10, <2>2, <2>3, <2>4 DEF ApplySpendingTx
<1>11. CASE NobodyListens \/ CommitEvent
  BY <1>4, <1>11 DEF NobodyListens, CommitEvent, SameView, tasks, world
<1> QED BY <1>5, <1>6, <1>7, <1>8, <1>9, <1>10, <1>11

(* Deaths, starts and the world keep the tasks' statuses.                  *)
LEMMA WorldKeepsStatus ==
    ASSUME SwapInv, [Next]_vars,
           \/ Die /\ UNCHANGED <<invoice, sends>>
           \/ Restart \/ Resume \/ WorldStep \/ UNCHANGED vars
    PROVE  TasksFitStatus' /\ OutcomeFitsMoney' /\ SameView
<1>1. OneIntent /\ SavedAsIs /\ TasksFitStatus /\ OutcomeFitsMoney
  BY DEF SwapInv, StatusInv
<1> USE <1>1 DEF TasksFitStatus, OutcomeFitsMoney, SameView, SavedAsIs
<1>2. CASE Die /\ UNCHANGED <<invoice, sends>>
  BY <1>2 DEF Die
<1>3. CASE Restart BY <1>3 DEF Restart, tasks, world
<1>4. CASE Resume BY <1>4 DEF Resume, world, OneIntent
<1>5. CASE WorldStep
  BY <1>5
  DEF WorldStep, PayInvoice, InvoiceLapses, UserClaims, NewBlock, NewBitcoinBlock,
      server, tasks
<1>6. CASE UNCHANGED vars BY <1>6 DEF vars, server, tasks, world
<1> QED BY <1>2, <1>3, <1>4, <1>5, <1>6

(* Every step keeps the invariant, and moves the view as it may.           *)
LEMMA StepSwapInv ==
    ASSUME LndAnswers, SwapInv, [Next]_vars
    PROVE  SwapInv' /\ (ViewMoved \/ SameView)
<1>1. TasksFitStatus' /\ OutcomeFitsMoney' /\ (ViewMoved \/ SameView)
  <2>1. CASE Die /\ UNCHANGED <<invoice, sends>>
    BY <2>1, WorldKeepsStatus
  <2>2. CASE ~(Die /\ UNCHANGED <<invoice, sends>>)
    <3>1. CreateContract \/ RecordSpendingTx \/ Crash => ~Die
      BY <2>2 DEF CreateContract, RecordSpendingTx, Crash, world
    <3>2. BroadcastRefund \/ SettleInvoice => ~Die
      BY <2>2 DEF BroadcastRefund, SettleInvoice, Die
    <3>3. ~Crash
      BY <3>1 DEF Crash
    <3>4. ServerStep \/ WorldStep \/ UNCHANGED vars
      BY <3>3 DEF Next
    <3>5. CASE \/ PollInvoice \/ PollReply
               \/ CheckExpiry \/ ServeExpiryCancel \/ FinishExpiry
               \/ CreateContract \/ TrackContract \/ SendCoins \/ SendReply
               \/ AbortPayment \/ CancelInvoice \/ BroadcastRefund
      BY <3>1, <3>2, <3>5, TaskKeepsStatus
    <3>6. CASE \/ ProcessNewBlock \/ SettleInvoice \/ FinishSwap
               \/ ProcessFundingTx \/ RecordSpendingTx \/ ApplySpendingTx
               \/ NobodyListens \/ CommitEvent
      BY <3>1, <3>2, <3>6, EventKeepsStatus
    <3>7. CASE Restart \/ Resume \/ WorldStep \/ UNCHANGED vars
      BY <3>7, WorldKeepsStatus
    <3> QED BY <3>4, <3>5, <3>6, <3>7 DEF ServerStep
  <2> QED BY <2>1, <2>2
<1>2. StatusInv'
  BY <1>1, StatusFrame DEF StatusInv
<1>3. TypeInv' /\ OneIntent' /\ PaymentBacked'
  BY StepTypeInv, StepOneIntent, StepPaymentBacked DEF SwapInv
<1> QED BY <1>1, <1>2, <1>3 DEF SwapInv

LEMMA InitSwapInv == Init => SwapInv
<1> SUFFICES ASSUME Init PROVE SwapInv
  OBVIOUS
<1>1. feed \in Seq(TrueEvents) /\ feed \in Seq(SilentEvents)
  BY EmptySeq DEF Init
<1>2. TypeInv
  BY InitTypeInv
<1> QED
  BY <1>1, <1>2
  DEF Init, NewSwap, SwapInv, OneIntent, PaymentBacked, StatusInv, SavedAsIs,
      RevealedByClaim, TasksFitStatus, OutcomeFitsMoney, ClaimNeedsContract, ContractTxs

LEMMA SwapSpec ==
    ASSUME LndAnswers
    PROVE  Spec => []SwapInv
BY InitSwapInv, StepSwapInv, PTL DEF Spec

(* Polls are told what SwapView allows, whatever the order of payment,     *)
(* blocks, spends and tasks, and however often the server stops, as long   *)
(* as LND answers as it should (SwapOutRunner's writes of status and       *)
(* outcome).                                                               *)
THEOREM SwapOutImplementsView ==
    ASSUME LndAnswers
    PROVE  Spec => ImplementsView
<1>1. Spec => []SwapInv
  BY SwapSpec
<1>2. Init => View!Init
  BY DEF Init, NewSwap, View!Init
<1>3. ASSUME SwapInv, [Next]_vars
      PROVE  [View!Next]_[status |-> db.status, outcome |-> db.outcome]
  <2>1. SwapInv' /\ (ViewMoved \/ SameView)
    BY <1>3, StepSwapInv
  <2>2. /\ db.status = swap.status /\ db.outcome = swap.outcome
        /\ db'.status = swap'.status /\ db'.outcome = swap'.outcome
    BY <1>3, <2>1 DEF SwapInv, StatusInv, SavedAsIs
  <2> QED BY <2>1, <2>2 DEF View!Next, ViewMoved, SameView
<1> QED BY <1>1, <1>2, <1>3, PTL DEF Spec, ImplementsView, View!Spec

(* No task, event or restart reopens a swap that is DONE or changes its    *)
(* outcome (the same writes).                                              *)
THEOREM SwapOutDoneIsFinal ==
    ASSUME LndAnswers
    PROVE  Spec => DoneIsFinal
<1>1. Spec => []SwapInv
  BY SwapSpec
<1>2. ASSUME SwapInv, [Next]_vars, db.status = "DONE"
      PROVE  db'.status = "DONE" /\ db'.outcome = db.outcome
  <2>1. SwapInv' /\ (ViewMoved \/ SameView)
    BY <1>2, StepSwapInv
  <2>2. /\ db.status = swap.status /\ db.outcome = swap.outcome
        /\ db'.status = swap'.status /\ db'.outcome = swap'.outcome
    BY <1>2, <2>1 DEF SwapInv, StatusInv, SavedAsIs
  <2>3. ~ViewMoved
    BY <1>2, <2>2, ViewMoves DEF ViewMoved
  <2> QED BY <1>2, <2>1, <2>2, <2>3 DEF SameView
<1> QED BY <1>1, <1>2, PTL DEF Spec, DoneIsFinal

-----------------------------------------------------------------------------
(* What DONE says.                                                         *)

RefundConfirmed == hasEnoughConfirmations(onchain["refund"], tip[Chain])

(* REFUNDED is written of a confirmed refund.                              *)
RefundBacked == swap.outcome = "REFUNDED" => RefundConfirmed

LEMMA StepRefundBacked ==
    ASSUME LndAnswers, SwapInv, SpendInv, RefundBacked, [Next]_vars
    PROVE  RefundBacked'
<1>1. /\ swap \in Entities /\ db \in Entities
      /\ TypeInv /\ OneIntent /\ PaymentBacked /\ SavedAsIs /\ StatusOfSpend
      /\ feed \in Seq(TrueEvents)
  BY DEF SwapInv, SpendInv, TypeInv, ProcessTypeOK
<1>2. RefundConfirmed => RefundConfirmed'
  BY <1>1, ConfirmedStays DEF RefundConfirmed, ContractTxs
<1>3. CASE ProcessNewBlock /\ BlockRefunds
  <2>1. /\ swap.status = "CONTRACT_REFUNDED_UNCONFIRMED"
        /\ hasEnoughConfirmations(swap.unlockTxHeight, height)
        /\ ev = "idle" /\ feed # << >>
    BY <1>3 DEF ProcessNewBlock, BlockRefunds, Dispatch
  <2>2. onchain["refund"] = swap.unlockTxHeight
    BY <1>1, <2>1 DEF StatusOfSpend, hasEnoughConfirmations
  <2>3. height \in Nat /\ height <= tip[Chain]
    BY <1>1, <2>1, HeadIsTrue
  <2>4. RefundConfirmed
    BY <1>1, <2>1, <2>2, <2>3, ChainType, ConfirmationsAssumption
    DEF RefundConfirmed, hasEnoughConfirmations, ChainNumbers, ContractTxs
  <2> QED BY <1>2, <2>4 DEF RefundBacked
<1>4. CASE ~(ProcessNewBlock /\ BlockRefunds)
  <2>1. swap'.outcome = "REFUNDED" => swap.outcome = "REFUNDED"
    <3> USE <1>1 DEF Entities, SavedAsIs
    <3>1. CASE Die \/ Resume
      BY <3>1 DEF Die, Resume
    <3>2. CASE PollReply \/ FinishExpiry \/ AbortPayment \/ FinishSwap
               \/ (CreateContract /\ ~Die) \/ TrackContract
      BY <3>2
      DEF PollReply, FinishExpiry, AbortPayment, FinishSwap, CreateContract,
          TrackContract, Save
    <3>3. CASE ProcessNewBlock
      BY <1>4, <3>3
      DEF ProcessNewBlock, BlockExpires, BlockFunds, BlockSettles, BlockIgnored, Save
    <3>4. CASE ProcessFundingTx \/ (RecordSpendingTx /\ ~Die) \/ ApplySpendingTx
      BY <3>4
      DEF ProcessFundingTx, RecordSpendingTx, HandlerThrows, ApplySpendingTx,
          ApplyRefundTx, ApplyClaimTx, Save
    <3>5. CASE UNCHANGED swap
      BY <3>5
    <3> QED
      BY <3>1, <3>2, <3>3, <3>4, <3>5
      DEF Next, ServerStep, WorldStep, vars, server, PollInvoice, CheckExpiry,
          ServeExpiryCancel, SendCoins, SendReply, CancelInvoice, BroadcastRefund,
          SettleInvoice, HandlerThrows, NobodyListens, CommitEvent, Crash, Restart,
          PayInvoice, InvoiceLapses, UserClaims, NewBlock, NewBitcoinBlock
  <2> QED BY <1>2, <2>1 DEF RefundBacked
<1> QED BY <1>3, <1>4

(* What DONE says of the money is true, whichever task or event wrote it,  *)
(* as long as LND answers as it should and the process does not die        *)
(* between the two saves of processContractSpendingTx.                     *)
THEOREM SwapOutOutcomeTruthful ==
    ASSUME LndAnswers
    PROVE  Spec /\ SpendIsApplied => []OutcomeTruthful
<1>1. Spec => []SwapInv
  BY SwapSpec
<1>2. Spec /\ SpendIsApplied => []SpendInv
  BY SpendSpec, PTL
<1>3. Init => RefundBacked
  BY DEF Init, NewSwap, RefundBacked
<1>4. SwapInv /\ SpendInv /\ RefundBacked /\ [Next]_vars => RefundBacked'
  BY StepRefundBacked
<1>5. SwapInv /\ RefundBacked => OutcomeTruthful
  <2> SUFFICES ASSUME SwapInv, RefundBacked, db.status = "DONE"
               PROVE  CASE db.outcome = "SUCCESS" -> invoice = "SETTLED"
                        [] db.outcome = "REFUNDED" -> RefundConfirmed
                        [] OTHER -> onchain["lock"] = Absent
    BY DEF OutcomeTruthful, RefundConfirmed
  <2>1. /\ db.outcome = swap.outcome /\ swap.outcome # "NONE" /\ swap.outcome \in Outcomes
        /\ OutcomeFitsMoney /\ PaymentBacked
    BY DEF SwapInv, StatusInv, SavedAsIs, OutcomeFitsMoney, TypeInv, ProcessTypeOK, Entities
  <2> QED BY <2>1 DEF OutcomeFitsMoney, PaymentBacked, RefundBacked, Outcomes
<1> QED BY <1>1, <1>2, <1>3, <1>4, <1>5, PTL DEF Spec

-----------------------------------------------------------------------------
(* Every event is handled in its turn.                                     *)

(* The event is still to be handled, or is being handled.                  *)
Awaits(e) == \E i \in 1 .. Len(feed) : feed[i] = e /\ (i = 1 => ev # "done")

(* It is awaited until its handler is done.                                *)
LEMMA StillAwaits ==
    ASSUME TypeInv, OneIntent, PaymentBacked, [Next]_vars, NEW e, Awaits(e)
    PROVE  \/ Awaits(e)'
           \/ feed # << >> /\ Head(feed) = e /\ ev # "done" /\ ev' = "done"
<1>1. PICK i \in 1 .. Len(feed) : feed[i] = e /\ (i = 1 => ev # "done")
  BY DEF Awaits
<1>2. /\ feed # << >> /\ Head(feed) = feed[1] /\ Len(feed) \in Nat
  BY <1>1, LenProperties, EmptySeq DEF TypeInv, WorldTypeOK, Feeds
<1> SUFFICES ASSUME i = 1 => ev' # "done" PROVE Awaits(e)'
  BY <1>1, <1>2
<1>3. CASE feed' = feed
  BY <1>1, <1>3 DEF Awaits
<1>4. CASE CommitEvent /\ feed' = Tail(feed)
  <2>1. i # 1 /\ ev' = "idle"
    BY <1>1, <1>4 DEF CommitEvent
  <2>2. i - 1 \in 1 .. Len(feed') /\ feed'[i - 1] = feed[i]
    BY <1>1, <1>2, <1>4, <2>1, FeedShrunk
  <2> QED BY <1>1, <2>1, <2>2 DEF Awaits
<1>5. ASSUME NEW new \in Seq(TrueEvents'), Announces(new)
      PROVE  Awaits(e)'
  <2>1. i \in 1 .. Len(feed') /\ feed'[i] = feed[i]
    BY <1>1, <1>5, FeedGrown
  <2> QED BY <1>1, <2>1 DEF Awaits
<1> QED BY <1>3, <1>4, <1>5, FeedChanges

(* What a block announces is awaited.                                      *)
LEMMA MinedAwaits ==
    ASSUME TypeInv, [Next]_vars, NewBlock, NEW h, h = tip[Chain] + 1
    PROVE  /\ tip'[Chain] = h
           /\ Awaits(Event("block", h))'
           /\ \A t \in ContractTxs :
                onchain'[t] = onchain[t] \/ (onchain'[t] = h /\ Awaits(Event(t, h))')
<1>1. PICK S \in SUBSET ContractTxs : \E x : Mines(S, x)
  BY BlockFeed
<1> PICK new : Mines(S, new)
  BY <1>1
<1>2. tip'[Chain] = h
  BY SwapOutAssumption DEF Mines, TypeInv, WorldTypeOK
<1> DEFINE New == {Event(k, h) : k \in S \cup {"block"}}
           Old == [kind : EventKinds, h : Heights]
           All == New \cup Old
<1>3. new \in Seq(New) /\ feed \in Seq(Old) /\ feed' = feed \o new
  BY DEF Mines, TypeInv, WorldTypeOK, Feeds
<1> HIDE DEF New, Old
<1>4. new \in Seq(All) /\ feed \in Seq(All)
  BY <1>3
<1> HIDE DEF All
<1>5. ev' = ev /\ (ev = "done" => Len(feed) # 0)
  <2>1. ev = "done" => feed # << >>
    BY DEF TypeInv, HandlerHasEvent
  <2> QED BY <1>4, <2>1, EmptySeq DEF NewBlock, server
<1>6. /\ Len(feed) \in Nat /\ Len(new) \in Nat
      /\ Len(feed') = Len(feed) + Len(new)
      /\ \A i \in 1 .. Len(new) : feed'[Len(feed) + i] = new[i]
  BY <1>3, <1>4, ConcatProperties, LenProperties
<1>7. ASSUME NEW k \in S \cup {"block"} PROVE Awaits(Event(k, h))'
  <2>1. PICK i \in 1 .. Len(new) : new[i] = Event(k, h)
    BY DEF Mines
  <2>2. PICK j : j = Len(feed) + i
    OBVIOUS
  <2>3. /\ j \in 1 .. Len(feed') /\ feed'[j] = Event(k, h)
        /\ j = 1 => ev' # "done"
    BY <1>5, <1>6, <2>1, <2>2
  <2> QED BY <2>3 DEF Awaits
<1>8. \A t \in ContractTxs : onchain'[t] = onchain[t] \/ (t \in S /\ onchain'[t] = h)
  BY DEF Mines
<1> QED BY <1>2, <1>7, <1>8

(* The event was announced, and is not awaited any more.                   *)
Handled(kind, h) ==
    /\ IF kind = "block" THEN h <= tip[Chain] ELSE h > 0 /\ onchain[kind] = h
    /\ ~Awaits(Event(kind, h))

HandledNow(e) ==
    feed # << >> /\ Head(feed) = e /\ ev # "done" /\ ev' = "done"

(* The handler alone makes a block handled.                                *)
LEMMA BlockHandled ==
    ASSUME TypeInv, OneIntent, PaymentBacked, [Next]_vars, NEW h \in Nat,
           Handled("block", h)'
    PROVE  Handled("block", h) \/ HandledNow(Event("block", h))
<1>1. ChainNumbers /\ ChainNumbers'
  BY StepTypeInv, ChainType, PTL
<1>2. CASE NewBlock
  <2>1. PICK g : g = tip[Chain] + 1
    OBVIOUS
  <2>2. tip'[Chain] = g /\ Awaits(Event("block", g))'
    BY <1>2, <2>1, MinedAwaits
  <2>3. h # g
    BY <2>2 DEF Handled
  <2> QED BY <1>1, <2>1, <2>2, <2>3, StillAwaits DEF Handled, HandledNow, ChainNumbers
<1>3. CASE ~NewBlock
  <2>1. tip'[Chain] = tip[Chain]
    <3>1. CASE NewBitcoinBlock
      BY <3>1, SwapOutAssumption DEF NewBitcoinBlock, TypeInv, WorldTypeOK, Chains
    <3> QED BY <1>3, <3>1, FeedSteps DEF Broadcasts
  <2> QED BY <2>1, StillAwaits DEF Handled, HandledNow
<1> QED BY <1>2, <1>3

(* ... and the sighting of a mined transaction.                            *)
LEMMA SightingHandled ==
    ASSUME TypeInv, OneIntent, PaymentBacked, [Next]_vars, NEW t \in ContractTxs,
           NEW h, Handled(t, h)'
    PROVE  Handled(t, h) \/ (onchain[t] = h /\ HandledNow(Event(t, h)))
<1>1. /\ ChainNumbers /\ ChainNumbers'
      /\ t # "block"
  <2>1. ChainNumbers /\ ChainNumbers'
    BY StepTypeInv, ChainType, PTL
  <2> QED BY <2>1 DEF ContractTxs
<1>2. onchain'[t] = onchain[t]
  <2>1. CASE NewBlock
    <3>1. PICK g : g = tip[Chain] + 1
      OBVIOUS
    <3>2. onchain'[t] = onchain[t] \/ (onchain'[t] = g /\ Awaits(Event(t, g))')
      BY <2>1, <3>1, MinedAwaits
    <3> QED BY <1>1, <3>2 DEF Handled
  <2>2. ASSUME NEW u \in ContractTxs, Broadcasts(u) PROVE onchain'[t] = onchain[t]
    BY <1>1, <2>2 DEF Broadcasts, Broadcast, Mempool, TypeInv, WorldTypeOK, Handled
  <2> QED BY <2>1, <2>2, FeedSteps DEF CommitEvent
<1> QED BY <1>1, <1>2, StillAwaits DEF HandledNow, Handled

-----------------------------------------------------------------------------
(* The saved status follows the chain.                                     *)

(* LND settles when it can, the runner is resumed before its events come,  *)
(* and a transaction needs a confirmation.                                 *)
ServerResumes ==
    /\ Faults \cap {"settle_error", "late_resume"} = {}
    /\ RequiredConfirmations > 0

(* nbxplorer announces a block, and what it mined, before the next one.    *)
HeightsInOrder ==
    \A i, j \in 1 .. Len(feed) : i < j /\ feed[j].h > 0 => feed[i].h <= feed[j].h

(* A spend is announced after the funding it spends.                       *)
FundingFirst ==
    \A i \in 1 .. Len(feed) :
        feed[i].kind \in Spends =>
            swap.lockTx \/ \E j \in 1 .. i : feed[j].kind = "lock"

(* The statuses of a contract whose funding was noticed.                   *)
Locked ==
    { "CONTRACT_FUNDED_UNCONFIRMED", "CONTRACT_FUNDED", "CONTRACT_EXPIRED",
      "CONTRACT_CLAIMED_UNCONFIRMED", "CONTRACT_REFUNDED_UNCONFIRMED" }

(* The entity knows the funding from the first event of it that is handled *)
(* on, and its height from the event of its block on.                      *)
LockNoticed ==
    /\ swap.lockTx <=> swap.status \in Locked \/ swap.outcome \in {"SUCCESS", "REFUNDED"}
    /\ swap.lockTx => onchain["lock"] # Absent
    /\ ev = "done" /\ Head(feed).kind = "lock" => swap.lockTx
    /\ \A h \in Heights : Handled("lock", h) =>
         /\ swap.lockTx
         /\ swap.status = "CONTRACT_FUNDED_UNCONFIRMED" => swap.lockTxHeight = h

(* The runner refunds an expired contract only, and a stopped one is done. *)
RefundFollowsExpiry ==
    /\ refunder = "build" \/ onchain["refund"] # Absent =>
         \/ swap.status \in {"CONTRACT_EXPIRED", "CONTRACT_CLAIMED_UNCONFIRMED",
                             "CONTRACT_REFUNDED_UNCONFIRMED"}
         \/ swap.outcome \in {"SUCCESS", "REFUNDED"}
    /\ swap.status = "CONTRACT_REFUNDED_UNCONFIRMED" => onchain["refund"] # Absent
    /\ runner = "stopped" => swap.status = "DONE"

StatusOf == [claim |-> "CONTRACT_CLAIMED_UNCONFIRMED",
             refund |-> "CONTRACT_REFUNDED_UNCONFIRMED"]
OutcomeOf == [claim |-> "SUCCESS", refund |-> "REFUNDED"]

(* A mined spend is recorded when its event is handled, and the status     *)
(* follows it.                                                             *)
SpendFollowed ==
    /\ \A t \in Spends, h \in Heights : Handled(t, h) => swap.unlockTxHeight = h
    /\ \A t \in Spends :
         swap.unlockTxHeight > 0 /\ onchain[t] = swap.unlockTxHeight =>
             \/ swap.status = StatusOf[t]
             \/ swap.outcome = OutcomeOf[t]
             \/ ev = "spend" /\ swap.status \in Locked
    /\ \/ ev = "spend" /\ height > 0
       \/ ev \in {"settle", "settled"}
       \/ swap.outcome \in {"SUCCESS", "REFUNDED"}
       => swap.unlockTxHeight > 0
    /\ swap.status = "CONTRACT_CLAIMED_UNCONFIRMED" => swap.preImage /\ db.preImage

(* Block h comes after t's own and gives it its confirmations.             *)
Past(t, h) ==
    onchain[t] > 0 /\ h > onchain[t] /\ h >= onchain[t] + RequiredConfirmations - 1

(* What a handled block leaves behind.                                     *)
BlockLeaves(h) ==
    /\ \A t \in Spends : Past(t, h) => swap.unlockTxHeight = onchain[t]
    /\ Past("claim", h) =>
         \/ swap.outcome = "SUCCESS"
         \/ swap.status = "CONTRACT_CLAIMED_UNCONFIRMED" /\ invoice = "CANCELED"
    /\ Past("refund", h) => swap.outcome = "REFUNDED"
    /\ Past("lock", h) =>
         swap.status \notin {"INVOICE_PAYMENT_INTENT_RECEIVED",
                             "CONTRACT_FUNDED_UNCONFIRMED"}
    /\ Past("lock", h - 1) /\ swap.timeoutBlockHeight <= h =>
         swap.status # "CONTRACT_FUNDED" \/ swap.unlockTxHeight # 0

BlocksFollowed == \A h \in Heights : Handled("block", h) => BlockLeaves(h)

(* The contract's timeout is the saved one, and has passed when it expired. *)
TimeoutKnown ==
    /\ \/ intent \in {"sending", "sent"}
       \/ intent = "track" /\ Chain = "LIQUID"
       \/ onchain["lock"] # Absent
       => db.timeoutBlockHeight = swap.timeoutBlockHeight
    /\ swap.status = "CONTRACT_EXPIRED" => swap.timeoutBlockHeight <= tip[Chain]

FollowInv ==
    /\ HeightsInOrder /\ FundingFirst
    /\ LockNoticed /\ RefundFollowsExpiry
    /\ SpendFollowed /\ BlocksFollowed /\ TimeoutKnown

(* All that is known of the swap.                                          *)
FullInv == SwapInv /\ SpendInv /\ FollowInv

(* The events keep their order.                                            *)
LEMMA StepHeightsInOrder ==
    ASSUME SwapInv, HeightsInOrder, [Next]_vars
    PROVE  HeightsInOrder'
<1>1. TypeInv /\ OneIntent /\ PaymentBacked /\ feed \in Seq(TrueEvents)
  BY DEF SwapInv, StatusInv
<1>2. CASE CommitEvent
  <2>1. /\ Len(feed) \in Nat /\ Len(feed') = Len(feed) - 1
        /\ \A i \in 1 .. Len(feed') : feed'[i] = feed[i + 1]
    BY <1>1, <1>2, FeedShrunk DEF CommitEvent, TypeInv, HandlerHasEvent
  <2> SUFFICES ASSUME NEW i \in 1 .. Len(feed'), NEW j \in 1 .. Len(feed'), i < j,
                      feed'[j].h > 0
               PROVE  feed'[i].h <= feed'[j].h
    BY DEF HeightsInOrder
  <2>2. /\ i + 1 \in 1 .. Len(feed) /\ j + 1 \in 1 .. Len(feed) /\ i + 1 < j + 1
        /\ feed'[i] = feed[i + 1] /\ feed'[j] = feed[j + 1]
    BY <2>1
  <2> QED BY <2>2 DEF HeightsInOrder
<1>3. ASSUME NEW t \in ContractTxs, Broadcasts(t) PROVE HeightsInOrder'
  <2>1. CASE feed' = Append(feed, Event(t, 0))
    <3>1. /\ Len(feed) \in Nat /\ Len(feed') = Len(feed) + 1
          /\ \A i \in 1 .. Len(feed) : feed'[i] = feed[i]
          /\ feed'[Len(feed) + 1].h = 0
      <4> DEFINE All == [kind : EventKinds, h : Heights]
      <4>1. feed \in Seq(All) /\ Event(t, 0) \in All
        BY <1>1, HeightsAreNaturals DEF TypeInv, WorldTypeOK, Feeds, Event, EventKinds
      <4>2. Event(t, 0).h = 0
        BY DEF Event
      <4> HIDE DEF All
      <4> QED BY <2>1, <4>1, <4>2, AppendProperties, LenProperties
    <3> QED BY <3>1 DEF HeightsInOrder
  <2> QED BY <1>3, <2>1 DEF Broadcasts, Broadcast, HeightsInOrder
<1>4. CASE NewBlock
  <2>1. PICK S \in SUBSET ContractTxs : \E x : Mines(S, x)
    BY <1>1, <1>4, BlockFeed
  <2> PICK new : Mines(S, new)
    BY <2>1
  <2>2. PICK g : g = tip[Chain] + 1
    OBVIOUS
  <2> DEFINE New == {Event(k, g) : k \in S \cup {"block"}}
             All == New \cup TrueEvents
  <2>3. new \in Seq(New) /\ feed' = feed \o new
    BY <2>2 DEF Mines
  <2>4. \A e \in New : e.h = g
    BY DEF Event
  <2>5. \A e \in TrueEvents : e.h \in Nat /\ e.h < g
    <3> SUFFICES ASSUME NEW e \in TrueEvents PROVE e.h \in Nat /\ e.h < g
      OBVIOUS
    <3>1. e.h \in Heights /\ e.h <= tip[Chain]
      BY DEF TrueEvents
    <3>2. e.h \in Nat
      BY <3>1, HeightsAreNaturals
    <3>3. tip[Chain] \in Nat
      BY <1>1, ChainType DEF ChainNumbers
    <3> HIDE DEF New, All
    <3> QED BY <2>2, <3>1, <3>2, <3>3
  <2> HIDE DEF New
  <2>6. new \in Seq(All) /\ feed \in Seq(All)
    BY <1>1, <2>3
  <2> HIDE DEF All
  <2>7. /\ Len(feed) \in Nat /\ Len(new) \in Nat /\ Len(feed') = Len(feed) + Len(new)
        /\ \A i \in 1 .. Len(feed') :
             feed'[i] = IF i <= Len(feed) THEN feed[i] ELSE new[i - Len(feed)]
    BY <2>3, <2>6, ConcatProperties, LenProperties
  <2>8. \A i \in 1 .. Len(feed) : feed[i] \in TrueEvents
    BY <1>1, ElementOfSeq
  <2>9. \A i \in 1 .. Len(new) : new[i] \in New
    BY <2>3, ElementOfSeq
  <2> SUFFICES ASSUME NEW i \in 1 .. Len(feed'), NEW j \in 1 .. Len(feed'), i < j,
                      feed'[j].h > 0
               PROVE  feed'[i].h <= feed'[j].h
    BY DEF HeightsInOrder
  <2>10. CASE j <= Len(feed)
    BY <2>7, <2>10 DEF HeightsInOrder
  <2>11. CASE Len(feed) < j
    <3>1. feed'[j].h = g
      BY <2>4, <2>7, <2>9, <2>11
    <3>2. feed'[i].h = g \/ (feed'[i].h \in Nat /\ feed'[i].h < g)
      BY <2>4, <2>5, <2>7, <2>8, <2>9
    <3>3. g \in Nat
      BY <1>1, <2>2, ChainType DEF ChainNumbers
    <3> QED BY <3>1, <3>2, <3>3
  <2> QED BY <2>7, <2>10, <2>11
<1>5. CASE feed' = feed
  BY <1>5 DEF HeightsInOrder
<1> QED BY <1>1, <1>2, <1>3, <1>4, <1>5, FeedSteps

(* The handlers of events, apart from a death inside one.                  *)
Handles ==
    \/ ProcessNewBlock \/ FinishSwap \/ ProcessFundingTx \/ ApplySpendingTx
    \/ SettleInvoice /\ ~Die
    \/ RecordSpendingTx /\ ~Die
    \/ NobodyListens

(* They leave the world, but for the invoice they settle, and the contract *)
(* as they are.                                                            *)
LEMMA HandlerFrame ==
    ASSUME TypeInv, [Next]_vars, Handles
    PROVE  /\ UNCHANGED <<feed, onchain, tip, sends, htlcs, runner, intent>>
           /\ ~SettleInvoice => UNCHANGED invoice
           /\ ~ProcessNewBlock => UNCHANGED refunder
           /\ swap'.contract = swap.contract
           /\ swap'.timeoutBlockHeight = swap.timeoutBlockHeight
           /\ SameContract(db', db) \/ SameContract(db', swap)
           /\ feed # << >>
<1>1. CASE ProcessNewBlock
  BY <1>1, ContractIsKept
  DEF ProcessNewBlock, Dispatch, world, SameContract, CreateContract, Resume, Die
<1>2. CASE FinishSwap \/ ProcessFundingTx \/ ApplySpendingTx
  BY <1>2, ContractIsKept
  DEF FinishSwap, ProcessFundingTx, ApplySpendingTx, Dispatch, tasks, world,
      SameContract, CreateContract, Resume, Die, TypeInv, HandlerHasEvent
<1>3. CASE (SettleInvoice \/ RecordSpendingTx) /\ ~Die
  <2>1. ~CreateContract /\ ~Resume
    BY <1>3 DEF SettleInvoice, RecordSpendingTx, HandlerThrows, Die, CreateContract, Resume, Dispatch, tasks
  <2> QED
    BY <1>3, <2>1, ContractIsKept
    DEF SettleInvoice, RecordSpendingTx, HandlerThrows, Dispatch, tasks, world,
        SameContract, TypeInv, HandlerHasEvent
<1>4. CASE NobodyListens
  BY <1>4 DEF NobodyListens, tasks, world, SameContract, server
<1> QED BY <1>1, <1>2, <1>3, <1>4 DEF Handles

(* Every other step leaves the entity as it is, or writes the status of a  *)
(* payment that is not funded; or it ends a handler.                       *)
LeavesRecord ==
    /\ swap'.lockTx = swap.lockTx
    /\ swap'.lockTxHeight = swap.lockTxHeight
    /\ swap'.unlockTxHeight = swap.unlockTxHeight
    /\ \/ SameView
       \/ /\ swap.status \in {"CREATED", "INVOICE_PAYMENT_INTENT_RECEIVED"}
          /\ swap'.status \in {"INVOICE_PAYMENT_INTENT_RECEIVED", "DONE"}
          /\ swap'.outcome \in {"NONE", "EXPIRED", "ERROR"}
    /\ swap.preImage /\ db.preImage => swap'.preImage /\ db'.preImage
    /\ ev' = ev \/ (ev' = "idle" /\ (ev = "done" \/ ~up'))
    /\ refunder' = "build" => refunder = "build"
    /\ runner' = "stopped" => runner = "stopped" \/ swap'.status = "DONE"
    /\ invoice = "CANCELED" => invoice' = "CANCELED"

LEMMA QuietStep ==
    ASSUME LndAnswers, SwapInv, [Next]_vars, ~Handles
    PROVE  LeavesRecord
<1>1. /\ swap \in Entities /\ db \in Entities
      /\ SavedAsIs /\ TasksFitStatus /\ OneIntent /\ OutcomeFitsMoney
  BY DEF SwapInv, StatusInv, TypeInv, ProcessTypeOK
<1>10. \/ PollReply \/ FinishExpiry \/ AbortPayment
       \/ PollInvoice \/ CheckExpiry \/ ServeExpiryCancel
       \/ (CreateContract /\ ~Die) \/ TrackContract \/ SendCoins \/ SendReply
       \/ CancelInvoice \/ (BroadcastRefund /\ ~Die)
       \/ CommitEvent \/ Restart \/ Resume
       \/ WorldStep \/ UNCHANGED vars
       \/ Crash
       \/ (CreateContract \/ BroadcastRefund \/ SettleInvoice \/ RecordSpendingTx) /\ Die
  BY DEF Next, ServerStep, Handles
<1> USE <1>1 DEF SavedAsIs, Entities, SameView, LeavesRecord
<1>2. CASE Die /\ UNCHANGED invoice
  BY <1>2 DEF Die
<1>3. CASE PollReply \/ FinishExpiry \/ AbortPayment
  <2>1. CASE PollReply
    BY <2>1 DEF PollReply, Save, world, TasksFitStatus, OutcomeFitsMoney
  <2>2. CASE FinishExpiry
    BY <2>2 DEF FinishExpiry, Save, world, TasksFitStatus
  <2>3. CASE AbortPayment
    BY <2>3 DEF AbortPayment, Save, world, TasksFitStatus
  <2> QED BY <1>3, <2>1, <2>2, <2>3
<1>4. CASE PollInvoice \/ CheckExpiry \/ ServeExpiryCancel
  BY <1>4 DEF PollInvoice, CheckExpiry, ServeExpiryCancel, CancelServed, world
<1>5. CASE (CreateContract /\ ~Die) \/ TrackContract \/ SendCoins \/ SendReply
  BY <1>5 DEF CreateContract, TrackContract, SendCoins, SendReply, Save, world
<1>6. CASE CancelInvoice \/ (BroadcastRefund /\ ~Die)
  BY <1>6 DEF CancelInvoice, BroadcastRefund, CancelServed
<1>7. CASE CommitEvent \/ Restart \/ Resume
  BY <1>7 DEF CommitEvent, Restart, Resume, tasks, world
<1>8. CASE WorldStep \/ UNCHANGED vars
  BY <1>8
  DEF WorldStep, PayInvoice, InvoiceLapses, UserClaims, NewBlock, NewBitcoinBlock,
      server, tasks, world, vars
<1>9. CASE \/ Crash
           \/ (CreateContract \/ BroadcastRefund \/ SettleInvoice \/ RecordSpendingTx) /\ Die
  BY <1>2, <1>9
  DEF Crash, CreateContract, BroadcastRefund, SettleInvoice, RecordSpendingTx, Die, world
<1> HIDE DEF SavedAsIs, Entities, SameView, LeavesRecord
<1> QED BY <1>3, <1>4, <1>5, <1>6, <1>7, <1>8, <1>9, <1>10

(* What the handlers write, field by field.                                *)
SameRecord ==
    /\ swap'.lockTx = swap.lockTx
    /\ swap'.lockTxHeight = swap.lockTxHeight
    /\ swap'.unlockTxHeight = swap.unlockTxHeight

Writes(x) == swap'.status = x /\ swap'.outcome = swap.outcome

BlockEffect ==
    /\ Head(feed).kind = "block"
    /\ ev = "idle" /\ ev' \in {"done", "settle"}
    /\ SameRecord
    /\ swap'.preImage = swap.preImage /\ db'.preImage \in {db.preImage, swap.preImage}
    /\ \/ /\ swap.status = "CONTRACT_FUNDED"
          /\ swap.timeoutBlockHeight <= height /\ swap.unlockTxHeight = 0
          /\ Writes("CONTRACT_EXPIRED") /\ ev' = "done"
       \/ /\ swap.status = "CONTRACT_FUNDED_UNCONFIRMED"
          /\ Writes("CONTRACT_FUNDED") /\ ev' = "done" /\ refunder' = refunder
       \/ /\ swap.status = "CONTRACT_REFUNDED_UNCONFIRMED"
          /\ hasEnoughConfirmations(swap.unlockTxHeight, height)
          /\ swap'.status = "DONE" /\ swap'.outcome = "REFUNDED"
          /\ ev' = "done" /\ refunder' = refunder
       \/ /\ swap.status = "CONTRACT_CLAIMED_UNCONFIRMED"
          /\ hasEnoughConfirmations(swap.unlockTxHeight, height)
          /\ SameView /\ ev' = "settle" /\ refunder' = refunder
       \/ /\ swap.status = "CONTRACT_FUNDED" =>
               swap.timeoutBlockHeight > height \/ swap.unlockTxHeight # 0
          /\ swap.status = "CONTRACT_FUNDED_UNCONFIRMED" =>
               ~hasEnoughConfirmations(swap.lockTxHeight, height)
          /\ swap.status \in {"CONTRACT_REFUNDED_UNCONFIRMED",
                              "CONTRACT_CLAIMED_UNCONFIRMED"} =>
               ~hasEnoughConfirmations(swap.unlockTxHeight, height)
          /\ SameView /\ ev' = "done" /\ refunder' = refunder

LEMMA BlockWrites ==
    ASSUME TypeInv, ProcessNewBlock
    PROVE  BlockEffect
<1>1. swap \in Entities /\ db \in Entities
  BY DEF TypeInv, ProcessTypeOK
<1>2. /\ Head(feed).kind = "block" /\ ev = "idle"
      /\ BlockExpires \/ BlockFunds \/ BlockRefunds \/ BlockSettles \/ BlockIgnored
      /\ swap.timeoutBlockHeight \in Int /\ height \in Int
  <2>1. height \in Heights
    BY HeadType DEF ProcessNewBlock, Dispatch, TypeInv
  <2>2. height \in Int
    BY <2>1, HeightsAreNaturals
  <2> QED BY <1>1, <2>2 DEF ProcessNewBlock, Dispatch, Entities
<1> USE <1>1, <1>2 DEF BlockEffect, SameRecord, SameView, Writes, Entities
<1>3. CASE BlockExpires
  BY <1>3 DEF BlockExpires, Save
<1>4. CASE BlockFunds
  BY <1>4 DEF BlockFunds, Save
<1>5. CASE BlockRefunds
  BY <1>5 DEF BlockRefunds, Save
<1>6. CASE BlockSettles
  BY <1>6 DEF BlockSettles
<1>7. CASE BlockIgnored
  BY <1>7 DEF BlockIgnored
<1> HIDE DEF BlockEffect, SameRecord, SameView, Writes, Entities
<1> QED BY <1>2, <1>3, <1>4, <1>5, <1>6, <1>7

FundingEffect ==
    /\ Head(feed).kind = "lock"
    /\ ev = "idle" /\ ev' = "done"
    /\ swap'.unlockTxHeight = swap.unlockTxHeight
    /\ swap'.preImage = swap.preImage /\ db'.preImage \in {db.preImage, swap.preImage}
    /\ \/ /\ swap.contract
          /\ swap.status \in {"INVOICE_PAYMENT_INTENT_RECEIVED",
                              "CONTRACT_FUNDED_UNCONFIRMED"}
          /\ swap'.lockTx /\ swap'.lockTxHeight = confirmedHeight(swap.lockTxHeight)
          /\ Writes("CONTRACT_FUNDED_UNCONFIRMED")
       \/ /\ ~swap.contract \/ swap.status \notin {"INVOICE_PAYMENT_INTENT_RECEIVED",
                                                   "CONTRACT_FUNDED_UNCONFIRMED"}
          /\ SameView /\ SameRecord

LEMMA FundingWrites ==
    ASSUME TypeInv, ProcessFundingTx
    PROVE  FundingEffect
<1>1. swap \in Entities /\ db \in Entities
  BY DEF TypeInv, ProcessTypeOK
<1> USE <1>1 DEF FundingEffect, SameRecord, SameView, Writes, Entities
<1>2. Head(feed).kind = "lock" /\ ev = "idle" /\ ev' = "done"
  BY DEF ProcessFundingTx, Dispatch
<1>3. CASE UNCHANGED <<swap, db>> /\ (~swap.contract \/ swap.status \notin
              {"INVOICE_PAYMENT_INTENT_RECEIVED", "CONTRACT_FUNDED_UNCONFIRMED"})
  BY <1>2, <1>3
<1>4. CASE /\ swap.contract
           /\ swap.status \in {"INVOICE_PAYMENT_INTENT_RECEIVED",
                               "CONTRACT_FUNDED_UNCONFIRMED"}
  <2>1. /\ swap' = [swap EXCEPT !.lockTxHeight = confirmedHeight(@), !.lockTx = TRUE,
                                !.status = "CONTRACT_FUNDED_UNCONFIRMED"]
        /\ db' = swap'
    BY <1>4 DEF ProcessFundingTx, Save
  <2> QED BY <1>2, <1>4, <2>1
<1> QED BY <1>3, <1>4 DEF ProcessFundingTx

SightingEffect ==
    /\ Head(feed).kind \in Spends
    /\ ev = "idle" /\ ev' \in {"done", "spend"}
    /\ SameView
    /\ swap'.lockTx = swap.lockTx /\ swap'.lockTxHeight = swap.lockTxHeight
    /\ swap'.preImage = swap.preImage /\ db'.preImage \in {db.preImage, swap.preImage}
    /\ \/ /\ ~swap.contract \/ ~swap.lockTx \/ (swap.unlockTxHeight # 0 /\ height > 0)
          /\ ev' = "done" /\ SameRecord
       \/ /\ swap.contract /\ swap.lockTx
          /\ swap.unlockTxHeight = 0 \/ height <= 0
          /\ ev' = "spend"
          /\ swap'.unlockTxHeight =
               IF swap.unlockTxHeight = 0 THEN height ELSE swap.unlockTxHeight

LEMMA SightingWrites ==
    ASSUME TypeInv, RecordSpendingTx, ~Die
    PROVE  SightingEffect
<1>1. swap \in Entities /\ db \in Entities
  BY DEF TypeInv, ProcessTypeOK
<1>2. Head(feed).kind \in Spends /\ ev = "idle" /\ height \in Int
  <2>1. Head(feed).kind \in Spends /\ ev = "idle" /\ feed # << >>
    BY DEF RecordSpendingTx, Dispatch, Spends
  <2>2. height \in Heights
    BY <2>1, HeadType DEF TypeInv
  <2> QED BY <2>1, <2>2, HeightsAreNaturals
<1> USE <1>1, <1>2 DEF SightingEffect, SameRecord, SameView, Entities
<1>3. CASE ~swap.contract \/ ~swap.lockTx
  BY <1>3 DEF RecordSpendingTx, HandlerThrows
<1>4. CASE swap.contract /\ swap.lockTx /\ swap.unlockTxHeight # 0 /\ height > 0
  BY <1>4 DEF RecordSpendingTx
<1>5. CASE swap.contract /\ swap.lockTx /\ ~(swap.unlockTxHeight # 0 /\ height > 0)
  <2>1. /\ swap' = [swap EXCEPT !.unlockTxHeight = IF @ = 0 THEN height ELSE @]
        /\ db' = swap' /\ ev' = "spend"
    BY <1>5 DEF RecordSpendingTx, Save
  <2>2. /\ swap'.unlockTxHeight =
             IF swap.unlockTxHeight = 0 THEN height ELSE swap.unlockTxHeight
        /\ swap'.lockTx = swap.lockTx /\ swap'.lockTxHeight = swap.lockTxHeight
        /\ swap'.preImage = swap.preImage /\ db'.preImage = swap.preImage
        /\ swap'.status = swap.status /\ swap'.outcome = swap.outcome
    BY <2>1
  <2>3. swap.unlockTxHeight = 0 \/ height <= 0
    BY <1>2, <1>5
  <2> QED BY <1>5, <2>1, <2>2, <2>3
<1> QED BY <1>3, <1>4, <1>5

SpendEffect ==
    /\ Head(feed).kind \in Spends
    /\ ev = "spend" /\ ev' = "done"
    /\ SameRecord
    /\ \/ /\ Head(feed).kind = "refund"
          /\ swap'.preImage = swap.preImage /\ db'.preImage \in {db.preImage, swap.preImage}
          /\ IF swap.status \in {"CONTRACT_EXPIRED", "CONTRACT_CLAIMED_UNCONFIRMED"}
               THEN Writes("CONTRACT_REFUNDED_UNCONFIRMED") ELSE SameView
       \/ /\ Head(feed).kind = "claim"
          /\ swap'.preImage /\ db'.preImage \in {db.preImage, swap'.preImage}
          /\ IF swap.status \in {"CONTRACT_FUNDED", "CONTRACT_REFUNDED_UNCONFIRMED",
                                 "CONTRACT_EXPIRED", "CONTRACT_FUNDED_UNCONFIRMED"}
               THEN Writes("CONTRACT_CLAIMED_UNCONFIRMED") /\ db'.preImage
               ELSE SameView

LEMMA SpendWrites ==
    ASSUME TypeInv, ApplySpendingTx
    PROVE  SpendEffect
<1>1. swap \in Entities /\ db \in Entities
  BY DEF TypeInv, ProcessTypeOK
<1>2. ev = "spend" /\ ev' = "done"
  BY DEF ApplySpendingTx
<1> USE <1>1, <1>2 DEF SpendEffect, SameRecord, SameView, Writes, Entities, Spends
<1>3. CASE ApplyRefundTx
  BY <1>3 DEF ApplyRefundTx, Save
<1>4. CASE ApplyClaimTx
  <2>1. CASE swap.status \in {"CONTRACT_FUNDED", "CONTRACT_REFUNDED_UNCONFIRMED",
                              "CONTRACT_EXPIRED", "CONTRACT_FUNDED_UNCONFIRMED"}
    BY <1>4, <2>1 DEF ApplyClaimTx, Save
  <2>2. CASE swap.status \notin {"CONTRACT_FUNDED", "CONTRACT_REFUNDED_UNCONFIRMED",
                                 "CONTRACT_EXPIRED", "CONTRACT_FUNDED_UNCONFIRMED"}
    BY <1>4, <2>2 DEF ApplyClaimTx
  <2> QED BY <2>1, <2>2
<1> QED BY <1>3, <1>4 DEF ApplySpendingTx

(* The handlers that touch the view alone.                                 *)
SettlingEffect ==
    /\ SameRecord
    /\ swap'.preImage = swap.preImage /\ db'.preImage \in {db.preImage, swap.preImage}
    /\ \/ /\ SettleInvoice /\ ~Die
          /\ ev = "settle" /\ SameView
          /\ \/ ev' = "settled" /\ invoice' = "SETTLED" /\ invoice # "CANCELED"
             \/ /\ ev' = "done" /\ invoice' = invoice
                /\ \/ invoice \in {"OPEN", "CANCELED"} \/ ~swap.preImage
                   \/ "settle_error" \in Faults
       \/ /\ FinishSwap
          /\ ev = "settled" /\ ev' = "done"
          /\ swap'.status = "DONE" /\ swap'.outcome = "SUCCESS"
       \/ /\ NobodyListens
          /\ ev = "idle" /\ ev' = "done" /\ SameView
          /\ runner = "stopped" \/ db.status = "DONE" \/ "late_resume" \in Faults

LEMMA SettlingWrites ==
    ASSUME TypeInv, (SettleInvoice /\ ~Die) \/ FinishSwap \/ NobodyListens
    PROVE  SettlingEffect
<1>1. swap \in Entities /\ db \in Entities
  BY DEF TypeInv, ProcessTypeOK
<1> USE <1>1 DEF SettlingEffect, SameRecord, SameView, Entities
<1>2. CASE SettleInvoice /\ ~Die
  BY <1>2 DEF SettleInvoice, HandlerThrows
<1>3. CASE FinishSwap
  BY <1>3 DEF FinishSwap, Save
<1>4. CASE NobodyListens
  BY <1>4 DEF NobodyListens
<1> QED BY <1>2, <1>3, <1>4

(* The handler whose effect is known.                                      *)
LEMMA HandlerWrites ==
    ASSUME TypeInv, Handles
    PROVE  BlockEffect \/ FundingEffect \/ SightingEffect \/ SpendEffect \/ SettlingEffect
BY BlockWrites, FundingWrites, SightingWrites, SpendWrites, SettlingWrites DEF Handles

(* A contract that was funded is known as such, except by a runner that    *)
(* has not been told yet.                                                  *)
LEMMA LockKnown ==
    ASSUME FullInv, onchain["lock"] # Absent
    PROVE  /\ swap.contract
           /\ swap.outcome \notin {"EXPIRED", "ERROR"} /\ swap.status # "CREATED"
           /\ swap.status # "INVOICE_PAYMENT_INTENT_RECEIVED" => swap.lockTx
<1>1. /\ swap \in Entities
      /\ OneIntent /\ PaymentBacked /\ OutcomeFitsMoney /\ LockNoticed
  BY DEF FullInv, SwapInv, StatusInv, FollowInv, TypeInv, ProcessTypeOK
<1>2. sends # 0 /\ swap.contract
  BY <1>1 DEF PaymentBacked, Backed
<1>3. swap.outcome \notin {"EXPIRED", "ERROR"} /\ swap.status # "CREATED"
  BY <1>1, <1>2 DEF OutcomeFitsMoney, OneIntent
<1>4. ASSUME swap.status # "INVOICE_PAYMENT_INTENT_RECEIVED" PROVE swap.lockTx
  <2>1. swap.status \in Locked \/ swap.status = "DONE"
    BY <1>1, <1>3, <1>4 DEF Entities, Statuses, Locked
  <2>2. swap.status = "DONE" => swap.outcome \in {"SUCCESS", "REFUNDED"}
    BY <1>1, <1>3 DEF OutcomeFitsMoney, Entities, Outcomes
  <2> QED BY <1>1, <2>1, <2>2 DEF LockNoticed
<1> QED BY <1>2, <1>3, <1>4

(* The event under way tells what is on the chain, and events before it    *)
(* were handled.                                                           *)
LEMMA HeadKnown ==
    ASSUME FullInv, feed # << >>
    PROVE  /\ height \in Nat /\ height \in Heights /\ height <= tip[Chain]
           /\ Head(feed) = feed[1] /\ Head(feed) = Event(Head(feed).kind, height)
           /\ Len(feed) \in Nat /\ Len(feed) > 0
           /\ Head(feed).kind \in ContractTxs =>
                /\ onchain[Head(feed).kind] # Absent
                /\ height > 0 => onchain[Head(feed).kind] = height
           /\ \A e : Awaits(e) /\ e # Head(feed) =>
                \E i \in 2 .. Len(feed) : feed[i] = e
<1>1. TypeInv /\ feed \in Seq(TrueEvents)
  BY DEF FullInv, SwapInv, StatusInv
<1>2. /\ height \in Nat /\ height <= tip[Chain]
      /\ Head(feed).kind \in ContractTxs =>
                /\ onchain[Head(feed).kind] # Absent
                /\ height > 0 => onchain[Head(feed).kind] = height
  BY <1>1, HeadIsTrue
<1>3. Head(feed) = feed[1] /\ Len(feed) \in Nat /\ Len(feed) > 0
  BY <1>1, LenProperties, EmptySeq
<1>4. Head(feed) = Event(Head(feed).kind, height) /\ height \in Heights
  <2>1. Head(feed) \in TrueEvents
    BY <1>1, HeadTailProperties
  <2>2. Head(feed) \in [kind : EventKinds, h : Heights]
    BY <2>1 DEF TrueEvents
  <2> QED BY <2>2 DEF Event, height
<1>5. \A e : Awaits(e) /\ e # Head(feed) => \E i \in 2 .. Len(feed) : feed[i] = e
  BY <1>3 DEF Awaits
<1> QED BY <1>2, <1>3, <1>4, <1>5

(* What an earlier block announced was handled before this event.          *)
LEMMA EarlierHandled ==
    ASSUME FullInv, feed # << >>, NEW kind, NEW g \in Nat, g > 0, g < height
    PROVE  ~Awaits(Event(kind, g))
<1> SUFFICES ASSUME Awaits(Event(kind, g)) PROVE FALSE
  OBVIOUS
<1>1. Event(kind, g) # Head(feed) /\ Event(kind, g).h = g
  BY HeadKnown DEF Event, height
<1>2. PICK i \in 2 .. Len(feed) : feed[i] = Event(kind, g)
  BY <1>1, HeadKnown
<1>3. feed[1].h <= feed[i].h
  BY <1>1, <1>2, HeadKnown DEF FullInv, FollowInv, HeightsInOrder
<1> QED BY <1>1, <1>2, <1>3, HeadKnown DEF height

(* A step leaves the spends and the funding of the entity as they are, or  *)
(* a handler writes them.                                                  *)
StepInv ==
    /\ LndAnswers /\ ServerResumes /\ FullInv /\ [Next]_vars
    /\ ev = "spend" => up'
    /\ SwapInv' /\ SpendInv'

LEMMA FullStep ==
    ASSUME StepInv
    PROVE  /\ TypeInv /\ OneIntent /\ PaymentBacked /\ SwapInv /\ SpendInv /\ FollowInv
           /\ SavedAsIs /\ OutcomeFitsMoney /\ TasksFitStatus /\ ChainNumbers
           /\ swap \in Entities /\ db \in Entities
           /\ TypeInv' /\ SavedAsIs' /\ OutcomeFitsMoney' /\ ChainNumbers'
           /\ swap' \in Entities
           /\ tip[Chain] <= tip'[Chain]
           /\ \A t \in ContractTxs :
                /\ onchain[t] # Absent => onchain'[t] # Absent
                /\ onchain[t] > 0 => onchain'[t] = onchain[t]
           /\ SameView \/ ViewMoved
           /\ ~Handles => LeavesRecord
           /\ ev # "done" /\ ev' = "done" => Handles
<1>1. /\ TypeInv /\ OneIntent /\ PaymentBacked /\ SwapInv /\ SpendInv /\ FollowInv
      /\ SavedAsIs /\ OutcomeFitsMoney /\ TasksFitStatus
      /\ TypeInv' /\ SavedAsIs' /\ OutcomeFitsMoney' /\ [Next]_vars /\ LndAnswers
  BY DEF StepInv, FullInv, SwapInv, StatusInv
<1>2. ChainNumbers /\ ChainNumbers'
  BY <1>1, ChainType, PTL
<1>3. swap \in Entities /\ db \in Entities /\ swap' \in Entities
  BY <1>1 DEF TypeInv, ProcessTypeOK
<1>4. SameView \/ ViewMoved
  BY <1>1, StepSwapInv
<1>5. /\ ~Handles => LeavesRecord
      /\ ev # "done" /\ ev' = "done" => Handles
  BY <1>1, QuietStep DEF LeavesRecord
<1> QED BY <1>1, <1>2, <1>3, <1>4, <1>5, ChainGrows

(* A funding that was noticed stays noticed, and a spend that was recorded *)
(* stays recorded.                                                         *)
LEMMA RecordStays ==
    ASSUME StepInv
    PROVE  /\ swap.lockTx => swap'.lockTx
           /\ swap.unlockTxHeight > 0 => swap'.unlockTxHeight = swap.unlockTxHeight
<1>1. TypeInv /\ (~Handles => LeavesRecord) /\ swap \in Entities
  BY FullStep
<1>2. CASE Handles
  BY <1>1, <1>2, HandlerWrites
  DEF BlockEffect, FundingEffect, SightingEffect, SpendEffect, SettlingEffect, SameRecord
<1> QED BY <1>1, <1>2 DEF LeavesRecord

(* A mined funding is known, or to come.                                   *)
LEMMA FundingKnown ==
    ASSUME FullInv, onchain["lock"] > 0
    PROVE  swap.lockTx \/ \E i \in 1 .. Len(feed) : feed[i].kind = "lock"
<1>1. CASE Awaits(Event("lock", onchain["lock"]))
  BY <1>1 DEF Awaits, Event
<1>2. CASE ~Awaits(Event("lock", onchain["lock"]))
  <2>1. PICK h : h = onchain["lock"]
    OBVIOUS
  <2>2. onchain["lock"] \in {Absent} \cup Heights
    BY DEF FullInv, SwapInv, TypeInv, WorldTypeOK, ContractTxs
  <2>3. h \in Heights /\ Handled("lock", h)
    BY <1>2, <2>1, <2>2 DEF Handled, Absent
  <2> QED BY <2>3 DEF FullInv, FollowInv, LockNoticed
<1> QED BY <1>1, <1>2

(* A spend keeps coming after the funding.                                 *)
LEMMA StepFundingFirst ==
    ASSUME StepInv
    PROVE  FundingFirst'
<1>1. /\ TypeInv /\ OneIntent /\ PaymentBacked /\ SavedAsIs /\ FundingFirst /\ LockNoticed
      /\ feed \in Seq(TrueEvents) /\ [Next]_vars /\ FullInv
  BY FullStep DEF FollowInv, SwapInv, StatusInv, StepInv
<1>2. swap.lockTx => swap'.lockTx
  BY RecordStays
<1> SUFFICES ASSUME NEW i \in 1 .. Len(feed'), feed'[i].kind \in Spends, ~swap'.lockTx
             PROVE  \E j \in 1 .. i : feed'[j].kind = "lock"
  BY DEF FundingFirst
<1>3. ~swap.lockTx
  BY <1>2
<1>4. CASE feed' = feed
  BY <1>1, <1>3, <1>4 DEF FundingFirst
<1>5. CASE CommitEvent
  <2>1. /\ Len(feed) \in Nat /\ Len(feed') = Len(feed) - 1
        /\ \A k \in 1 .. Len(feed') : feed'[k] = feed[k + 1]
        /\ feed # << >> /\ ev = "done"
    BY <1>1, <1>5, FeedShrunk DEF CommitEvent, TypeInv, HandlerHasEvent
  <2>2. feed[1].kind # "lock"
    <3>1. feed[1] = Head(feed)
      BY <2>1
    <3> QED BY <1>1, <1>3, <2>1, <3>1 DEF LockNoticed
  <2>3. i + 1 \in 1 .. Len(feed) /\ feed[i + 1].kind \in Spends
    BY <2>1
  <2>4. PICK j \in 1 .. i + 1 : feed[j].kind = "lock"
    BY <1>1, <1>3, <2>3 DEF FundingFirst
  <2>5. j - 1 \in 1 .. i /\ feed'[j - 1] = feed[j]
    BY <2>1, <2>2, <2>4
  <2> QED BY <2>4, <2>5
<1>6. ASSUME NEW t \in ContractTxs, Broadcasts(t), feed' = Append(feed, Event(t, 0))
      PROVE  \E j \in 1 .. i : feed'[j].kind = "lock"
  <2>1. /\ Len(feed) \in Nat /\ Len(feed') = Len(feed) + 1
        /\ \A k \in 1 .. Len(feed) : feed'[k] = feed[k]
        /\ feed'[Len(feed) + 1].kind = t
    <3> DEFINE All == [kind : EventKinds, h : Heights]
    <3>1. feed \in Seq(All) /\ Event(t, 0) \in All
      BY <1>1, HeightsAreNaturals DEF TypeInv, WorldTypeOK, Feeds, Event, EventKinds
    <3>2. Event(t, 0).kind = t
      BY DEF Event
    <3> HIDE DEF All
    <3> QED BY <1>6, <3>1, <3>2, AppendProperties, LenProperties
  <2>2. CASE i <= Len(feed)
    BY <1>1, <1>3, <2>1, <2>2 DEF FundingFirst
  <2>3. CASE i = Len(feed) + 1
    <3>1. t # "lock"
      BY <2>1, <2>3 DEF Spends
    <3>2. feed # feed'
      BY <2>1
    <3>3. onchain["lock"] > Mempool \/ db.lockTx
            \/ \E k \in DOMAIN feed : feed[k].kind = "lock"
      BY <1>6, <3>1, <3>2 DEF Broadcasts, Broadcast, FundingAnnounced
    <3>4. DOMAIN feed = 1 .. Len(feed)
      BY <1>1, LenProperties
    <3>5. \E k \in 1 .. Len(feed) : feed[k].kind = "lock"
      BY <1>1, <1>3, <3>3, <3>4, FundingKnown DEF SavedAsIs, Mempool
    <3> QED BY <2>1, <2>3, <3>5
  <2> QED BY <2>1, <2>2, <2>3
<1>7. CASE NewBlock
  <2>1. PICK S \in SUBSET ContractTxs : \E x : Mines(S, x)
    BY <1>1, <1>7, BlockFeed
  <2> PICK new : Mines(S, new)
    BY <2>1
  <2>2. PICK g : g = tip[Chain] + 1
    OBVIOUS
  <2> DEFINE New == {Event(k, g) : k \in S \cup {"block"}}
             All == New \cup TrueEvents
  <2>3. new \in Seq(New) /\ feed' = feed \o new
    BY <2>2 DEF Mines
  <2>4. \A e \in New : e.kind \in S \cup {"block"}
    BY DEF Event
  <2> HIDE DEF New
  <2>5. new \in Seq(All) /\ feed \in Seq(All)
    BY <1>1, <2>3
  <2> HIDE DEF All
  <2>6. /\ Len(feed) \in Nat /\ Len(new) \in Nat /\ Len(feed') = Len(feed) + Len(new)
        /\ \A k \in 1 .. Len(feed) + Len(new) :
             feed'[k] = IF k <= Len(feed) THEN feed[k] ELSE new[k - Len(feed)]
    BY <2>3, <2>5, ConcatProperties, LenProperties
  <2>7. CASE i <= Len(feed)
    <3>1. \E j \in 1 .. i : feed[j].kind = "lock"
      BY <1>1, <1>3, <2>6, <2>7 DEF FundingFirst
    <3> QED BY <2>6, <2>7, <3>1
  <2>8. CASE i > Len(feed)
    <3>1. i - Len(feed) \in 1 .. Len(new) /\ feed'[i] = new[i - Len(feed)]
      BY <2>6, <2>8
    <3>2. new[i - Len(feed)].kind \in S
      <4>1. new[i - Len(feed)] \in New
        BY <2>3, <3>1, ElementOfSeq
      <4> QED BY <2>4, <3>1, <4>1 DEF Spends
    <3>3. CASE "lock" \in S
      <4>1. PICK j \in 1 .. i - Len(feed) : new[j].kind = "lock"
        BY <3>1, <3>3 DEF Mines
      <4>2. PICK k : k = Len(feed) + j
        OBVIOUS
      <4>3. k \in 1 .. i /\ k \in 1 .. Len(feed) + Len(new) /\ k > Len(feed)
              /\ k - Len(feed) = j
        BY <2>6, <3>1, <4>2
      <4>4. feed'[k] = new[j]
        BY <2>6, <4>3
      <4> QED BY <4>1, <4>3, <4>4
    <3>4. CASE "lock" \notin S
      <4>1. onchain["lock"] > 0
        BY <3>1, <3>2, <3>4 DEF Mines, Minable, Spends
      <4>2. \E k \in 1 .. Len(feed) : feed[k].kind = "lock"
        BY <1>1, <1>3, <4>1, FundingKnown
      <4> QED BY <2>6, <2>8, <4>2
    <3> QED BY <3>3, <3>4
  <2> QED BY <2>6, <2>7, <2>8
<1> QED
  BY <1>1, <1>4, <1>5, <1>6, <1>7, FeedSteps DEF Broadcasts, Broadcast

(* The funding is noticed with its first event, and has its height from    *)
(* the event of its block on.                                              *)
LEMMA StepLockNoticed ==
    ASSUME StepInv
    PROVE  LockNoticed'
<1>1. /\ TypeInv /\ OneIntent /\ PaymentBacked /\ OutcomeFitsMoney /\ OutcomeFitsMoney'
      /\ LockNoticed /\ FullInv /\ [Next]_vars
      /\ swap \in Entities /\ db \in Entities /\ swap' \in Entities
      /\ (~Handles => LeavesRecord) /\ SavedAsIs
  BY FullStep DEF FollowInv, StepInv
<1>2. (swap.lockTx => swap'.lockTx) /\ swap.lockTx \in BOOLEAN /\ swap'.lockTx \in BOOLEAN
  BY <1>1, RecordStays DEF Entities
<1> DEFINE Noticed(s) == s.status \in Locked \/ s.outcome \in {"SUCCESS", "REFUNDED"}
<1>3. swap.lockTx <=> Noticed(swap)
  BY <1>1 DEF LockNoticed
<1>4. swap'.lockTx <=> Noticed(swap')
  <2> USE DEF Locked
  <2>1. CASE ~Handles
    <3>1. CASE SameView
      BY <1>1, <1>3, <2>1, <3>1 DEF LeavesRecord, SameView
    <3>2. CASE ~SameView
      <4>1. swap.outcome = "NONE" /\ swap.status \in {"CREATED", "INVOICE_PAYMENT_INTENT_RECEIVED"}
        BY <1>1, <2>1, <3>2 DEF LeavesRecord, OutcomeFitsMoney
      <4> QED BY <1>1, <1>3, <2>1, <3>2, <4>1 DEF LeavesRecord
    <3> QED BY <3>1, <3>2
  <2>2. CASE BlockEffect
    BY <1>3, <2>2 DEF BlockEffect, SameRecord, SameView, Writes
  <2>3. CASE FundingEffect
    BY <1>2, <1>3, <2>3 DEF FundingEffect, SameRecord, SameView, Writes
  <2>4. CASE SightingEffect
    BY <1>3, <2>4 DEF SightingEffect, SameView
  <2>5. CASE SpendEffect
    BY <1>3, <2>5 DEF SpendEffect, SameRecord, SameView, Writes
  <2>6. CASE SettlingEffect
    BY <1>1, <1>3, <2>6 DEF SettlingEffect, SameRecord, SameView, OutcomeFitsMoney
  <2> QED BY <1>1, <2>1, <2>2, <2>3, <2>4, <2>5, <2>6, HandlerWrites
<1>5. swap'.lockTx => onchain'["lock"] # Absent
  <2>1. onchain["lock"] # Absent => onchain'["lock"] # Absent
    BY FullStep DEF ContractTxs
  <2>2. CASE FundingEffect /\ Handles
    <3>1. feed # << >> /\ Head(feed).kind = "lock"
      BY <1>1, <2>2, HandlerFrame DEF FundingEffect
    <3> QED BY <1>1, <2>1, <3>1, HeadKnown DEF ContractTxs
  <2>3. CASE ~(FundingEffect /\ Handles)
    <3>1. swap'.lockTx = swap.lockTx
      BY <1>1, <2>3, HandlerWrites
      DEF LeavesRecord, BlockEffect, SightingEffect, SpendEffect, SettlingEffect, SameRecord
    <3> QED BY <1>1, <2>1, <3>1 DEF LockNoticed
  <2> QED BY <2>2, <2>3
<1>6. ASSUME feed # << >>, Head(feed).kind = "lock", ev # "done", ev' = "done"
      PROVE  /\ swap'.lockTx
             /\ FundingEffect \/ (SameView /\ SameRecord) \/ swap'.status = "DONE"
  <2>1. Handles
    BY <1>6, FullStep
  <2>2. onchain["lock"] # Absent
    BY <1>1, <1>6, HeadKnown DEF ContractTxs
  <2>3. /\ swap.contract /\ swap.outcome \notin {"EXPIRED", "ERROR"}
        /\ swap.status # "CREATED"
        /\ swap.status # "INVOICE_PAYMENT_INTENT_RECEIVED" => swap.lockTx
    BY <1>1, <2>2, LockKnown
  <2>4. CASE FundingEffect
    BY <1>2, <2>3, <2>4 DEF FundingEffect
  <2>5. CASE SettlingEffect
    <3>1. swap.status # "INVOICE_PAYMENT_INTENT_RECEIVED"
      <4>1. CASE ev \in {"settle", "settled"}
        BY <1>1, <4>1 DEF OutcomeFitsMoney
      <4>2. CASE ev \notin {"settle", "settled"}
        <5>1. runner = "stopped" \/ db.status = "DONE" \/ "late_resume" \in Faults
          BY <2>5, <4>2 DEF SettlingEffect
        <5> QED
          BY <1>1, <5>1 DEF SavedAsIs, FullInv, FollowInv, RefundFollowsExpiry, StepInv, ServerResumes
      <4> QED BY <4>1, <4>2
    <3> QED BY <1>2, <2>3, <2>5, <3>1 DEF SettlingEffect
  <2>6. ~BlockEffect /\ ~SightingEffect /\ ~SpendEffect
    BY <1>6 DEF BlockEffect, SightingEffect, SpendEffect, Spends
  <2> QED BY <1>1, <2>1, <2>4, <2>5, <2>6, HandlerWrites
<1>7. ev' = "done" /\ Head(feed').kind = "lock" => swap'.lockTx
  <2> SUFFICES ASSUME ev' = "done", Head(feed').kind = "lock" PROVE swap'.lockTx
    OBVIOUS
  <2>1. CASE ev = "done"
    <3>1. feed # << >> /\ ~CommitEvent
      BY <1>1, <2>1 DEF TypeInv, HandlerHasEvent, CommitEvent
    <3>2. Head(feed') = Head(feed)
      <4>1. CASE feed' = feed
        BY <4>1
      <4>2. ASSUME NEW new \in Seq(TrueEvents'), Announces(new)
            PROVE  Head(feed') = Head(feed)
        <5>1. 1 \in 1 .. Len(feed') /\ 1 \in 1 .. Len(feed) /\ feed'[1] = feed[1]
          BY <1>1, <3>1, <4>2, HeadKnown, FeedGrown
        <5>2. feed' # << >>
          BY <5>1
        <5> QED BY <5>1, <5>2
      <4> QED BY <1>1, <3>1, <4>1, <4>2, FeedChanges
    <3> QED BY <1>1, <1>2, <2>1, <3>2 DEF LockNoticed
  <2>2. CASE ev # "done"
    <3>1. Handles
      BY <2>2, FullStep
    <3>2. feed' = feed /\ feed # << >>
      BY <1>1, <3>1, HandlerFrame
    <3> QED BY <1>6, <2>2, <3>2
  <2> QED BY <2>1, <2>2
<1>8. ASSUME NEW h \in Heights, Handled("lock", h)'
      PROVE  /\ swap'.lockTx
             /\ swap'.status = "CONTRACT_FUNDED_UNCONFIRMED" => swap'.lockTxHeight = h
  <2>1. Handled("lock", h) \/ (onchain["lock"] = h /\ HandledNow(Event("lock", h)))
    BY <1>1, <1>8, SightingHandled DEF ContractTxs
  <2>2. h > 0
    BY <1>8 DEF Handled
  <2>3. CASE Handled("lock", h)
    <3>1. /\ swap.lockTx /\ onchain["lock"] = h
          /\ swap.status = "CONTRACT_FUNDED_UNCONFIRMED" => swap.lockTxHeight = h
      BY <1>1, <2>3 DEF LockNoticed, Handled
    <3>2. swap.status # "INVOICE_PAYMENT_INTENT_RECEIVED" /\ swap.status # "CREATED"
      BY <1>1, <1>3, <3>1 DEF Locked, OutcomeFitsMoney
    <3> SUFFICES ASSUME swap'.status = "CONTRACT_FUNDED_UNCONFIRMED"
                 PROVE  swap'.lockTxHeight = h
      BY <1>2, <3>1
    <3>3. CASE ~Handles
      BY <1>1, <3>1, <3>2, <3>3 DEF LeavesRecord, SameView
    <3>4. CASE FundingEffect /\ Handles
      <4>1. feed # << >> /\ Head(feed).kind = "lock"
        BY <1>1, <3>4, HandlerFrame DEF FundingEffect
      <4>2. height \in Nat /\ (height > 0 => height = h)
        BY <1>1, <3>1, <4>1, HeadKnown DEF ContractTxs
      <4> QED
        BY <3>1, <3>2, <3>4, <4>2 DEF FundingEffect, confirmedHeight, SameView, SameRecord
    <3>5. CASE BlockEffect
      BY <3>1, <3>5 DEF BlockEffect, SameRecord, SameView, Writes
    <3>6. CASE SightingEffect
      BY <3>1, <3>6 DEF SightingEffect, SameView
    <3>7. CASE SpendEffect
      BY <3>1, <3>7 DEF SpendEffect, SameRecord, SameView, Writes
    <3>8. CASE SettlingEffect
      BY <3>1, <3>8 DEF SettlingEffect, SameRecord, SameView
    <3> QED BY <1>1, <3>3, <3>4, <3>5, <3>6, <3>7, <3>8, HandlerWrites
  <2>4. CASE onchain["lock"] = h /\ HandledNow(Event("lock", h))
    <3>1. /\ feed # << >> /\ Head(feed).kind = "lock" /\ height = h
          /\ ev # "done" /\ ev' = "done"
      BY <2>4 DEF HandledNow, Event, height
    <3>2. /\ swap'.lockTx
          /\ FundingEffect \/ (SameView /\ SameRecord) \/ swap'.status = "DONE"
      BY <1>6, <3>1
    <3>3. SameView /\ SameRecord /\ ~FundingEffect => swap'.status # "CONTRACT_FUNDED_UNCONFIRMED"
      <4> SUFFICES ASSUME ~FundingEffect, SameView,
                          swap.status = "CONTRACT_FUNDED_UNCONFIRMED"
                   PROVE  FALSE
        BY DEF SameView
      <4>1. Handles /\ ~BlockEffect /\ ~SightingEffect /\ ~SpendEffect
        BY <3>1, FullStep DEF BlockEffect, SightingEffect, SpendEffect, Spends
      <4>2. SettlingEffect
        BY <1>1, <4>1, HandlerWrites
      <4>3. runner = "stopped" \/ db.status = "DONE" \/ "late_resume" \in Faults
              \/ ev \in {"settle", "settled"}
        BY <4>2 DEF SettlingEffect
      <4> QED
        BY <1>1, <4>3
        DEF OutcomeFitsMoney, SavedAsIs, FullInv, FollowInv, RefundFollowsExpiry, StepInv,
            ServerResumes
    <3>4. FundingEffect /\ swap'.status = "CONTRACT_FUNDED_UNCONFIRMED" => swap'.lockTxHeight = h
      <4>1. onchain["lock"] # Absent
        BY <1>1, <3>1, HeadKnown DEF ContractTxs
      <4> QED
        BY <1>1, <2>2, <3>1, <4>1, LockKnown DEF FundingEffect, confirmedHeight, SameView
    <3> QED BY <3>2, <3>3, <3>4
  <2> QED BY <2>1, <2>3, <2>4
<1> QED BY <1>4, <1>5, <1>7, <1>8 DEF LockNoticed

(* The moves of a status that are not made: a contract that expired or was *)
(* spent is not unfunded again, and what is done stays done.               *)
LEMMA ViewStays ==
    ASSUME SameView \/ ViewMoved, swap.status \in Statuses
    PROVE  /\ swap.status \in {"CONTRACT_EXPIRED", "CONTRACT_CLAIMED_UNCONFIRMED",
                               "CONTRACT_REFUNDED_UNCONFIRMED"} =>
                \/ swap'.status \in {"CONTRACT_EXPIRED", "CONTRACT_CLAIMED_UNCONFIRMED",
                                     "CONTRACT_REFUNDED_UNCONFIRMED"}
                \/ swap'.outcome \in {"SUCCESS", "REFUNDED"}
           /\ swap.status = "DONE" => SameView
           /\ swap.status = "CONTRACT_CLAIMED_UNCONFIRMED" =>
                \/ SameView
                \/ swap'.status = "CONTRACT_REFUNDED_UNCONFIRMED"
                \/ swap'.outcome = "SUCCESS"
           /\ swap'.status \in {"INVOICE_PAYMENT_INTENT_RECEIVED",
                                "CONTRACT_FUNDED_UNCONFIRMED"} =>
                swap.status \in {"CREATED", "INVOICE_PAYMENT_INTENT_RECEIVED",
                                 "CONTRACT_FUNDED_UNCONFIRMED"}
           /\ swap'.status = "CONTRACT_FUNDED" =>
                swap.status \in {"CONTRACT_FUNDED_UNCONFIRMED", "CONTRACT_FUNDED"}
           /\ swap'.status = "CREATED" => swap.status = "CREATED"
           /\ swap'.status = "CONTRACT_EXPIRED" =>
                swap.status \in {"CONTRACT_FUNDED", "CONTRACT_EXPIRED"}
<1>1. CASE SameView
  BY <1>1 DEF SameView
<1>2. CASE ViewMoved
  <2> DEFINE v == [status |-> swap'.status, outcome |-> swap'.outcome]
  <2>1. v \in OutMoves[swap.status] /\ v.status = swap'.status /\ v.outcome = swap'.outcome
    BY <1>2 DEF ViewMoved
  <2> HIDE DEF v
  <2>2. CASE swap.status \in {"CREATED", "INVOICE_PAYMENT_INTENT_RECEIVED"}
    BY <2>1, <2>2 DEF OutMoves, At, Ended, SameView
  <2>3. CASE swap.status \in {"CONTRACT_FUNDED_UNCONFIRMED", "CONTRACT_FUNDED"}
    BY <2>1, <2>3 DEF OutMoves, At, Ended, SameView
  <2>4. CASE swap.status \in {"CONTRACT_EXPIRED", "CONTRACT_CLAIMED_UNCONFIRMED"}
    BY <2>1, <2>4 DEF OutMoves, At, Ended, SameView
  <2>5. CASE swap.status \in {"CONTRACT_REFUNDED_UNCONFIRMED", "DONE"}
    BY <2>1, <2>5 DEF OutMoves, At, Ended, SameView
  <2> QED BY <2>2, <2>3, <2>4, <2>5 DEF Statuses
<1> QED BY <1>1, <1>2

(* Only the runner of an expired contract refunds it.                      *)
LEMMA StepRefundFollowsExpiry ==
    ASSUME StepInv
    PROVE  RefundFollowsExpiry'
<1>1. /\ TypeInv /\ OneIntent /\ PaymentBacked /\ OutcomeFitsMoney
      /\ RefundFollowsExpiry /\ FullInv /\ [Next]_vars
      /\ ~Handles => LeavesRecord
      /\ SameView \/ ViewMoved
      /\ swap.status \in Statuses
  BY FullStep DEF FollowInv, StepInv, Entities
<1>2. onchain'["refund"] # Absent => onchain["refund"] # Absent \/ refunder = "build"
  <2>1. onchain \in [ContractTxs -> {Absent} \cup Heights]
    BY <1>1 DEF TypeInv, WorldTypeOK
  <2>2. CASE UNCHANGED onchain
    BY <2>2
  <2>3. CASE NewBlock
    BY <2>1, <2>3 DEF NewBlock, Minable, Mempool, Absent, ContractTxs
  <2>4. CASE SendCoins \/ UserClaims
    BY <2>1, <2>4 DEF SendCoins, UserClaims, Broadcast, ContractTxs
  <2>5. CASE BroadcastRefund
    BY <2>5 DEF BroadcastRefund
  <2> QED
    BY <1>1, <2>2, <2>3, <2>4, <2>5
    DEF Next, ServerStep, WorldStep, vars, world, PollInvoice, PollReply, CheckExpiry,
        ServeExpiryCancel, FinishExpiry, CreateContract, TrackContract, SendReply,
        AbortPayment, CancelInvoice, ProcessNewBlock, SettleInvoice, FinishSwap,
        ProcessFundingTx, RecordSpendingTx, ApplySpendingTx, NobodyListens,
        CommitEvent, Crash, Restart, Resume, PayInvoice, InvoiceLapses,
        NewBitcoinBlock
<1>3. refunder' = "build" => refunder = "build" \/ swap'.status = "CONTRACT_EXPIRED"
  <2>1. CASE ~Handles
    BY <1>1, <2>1 DEF LeavesRecord
  <2>2. CASE Handles /\ ~ProcessNewBlock
    BY <1>1, <2>2, HandlerFrame
  <2>3. CASE ProcessNewBlock
    BY <1>1, <2>3, BlockWrites DEF BlockEffect, Writes
  <2> QED BY <2>1, <2>2, <2>3
<1>4. \/ swap.status \in {"CONTRACT_EXPIRED", "CONTRACT_CLAIMED_UNCONFIRMED",
                          "CONTRACT_REFUNDED_UNCONFIRMED"}
      \/ swap.outcome \in {"SUCCESS", "REFUNDED"}
      => \/ swap'.status \in {"CONTRACT_EXPIRED", "CONTRACT_CLAIMED_UNCONFIRMED",
                              "CONTRACT_REFUNDED_UNCONFIRMED"}
         \/ swap'.outcome \in {"SUCCESS", "REFUNDED"}
  BY <1>1, ViewStays DEF OutcomeFitsMoney, SameView
<1>5. ASSUME swap'.status = "CONTRACT_REFUNDED_UNCONFIRMED"
      PROVE  onchain'["refund"] # Absent
  <2>1. onchain["refund"] # Absent => onchain'["refund"] # Absent
    BY FullStep DEF ContractTxs
  <2>2. CASE Handles /\ SpendEffect /\ ~SameView
    <3>1. feed # << >> /\ Head(feed).kind = "refund"
      BY <1>1, <1>5, <2>2, HandlerFrame DEF SpendEffect, Writes
    <3> QED BY <1>1, <2>1, <3>1, HeadKnown DEF ContractTxs
  <2>3. CASE SameView
    BY <1>1, <1>5, <2>1, <2>3 DEF SameView, RefundFollowsExpiry
  <2>4. CASE ~Handles
    BY <1>1, <1>5, <2>3, <2>4 DEF LeavesRecord
  <2>5. CASE BlockEffect \/ FundingEffect \/ SightingEffect \/ SettlingEffect
    BY <1>5, <2>3, <2>5 DEF BlockEffect, FundingEffect, SightingEffect, SettlingEffect, Writes
  <2> QED BY <1>1, <2>2, <2>3, <2>4, <2>5, HandlerWrites
<1>6. runner' = "stopped" => swap'.status = "DONE"
  <2>1. runner = "stopped" => swap'.status = "DONE"
    BY <1>1, ViewStays DEF RefundFollowsExpiry, SameView
  <2>2. CASE Handles
    BY <1>1, <2>1, <2>2, HandlerFrame
  <2> QED BY <1>1, <2>1, <2>2 DEF LeavesRecord
<1> QED BY <1>1, <1>2, <1>3, <1>4, <1>5, <1>6 DEF RefundFollowsExpiry

(* The event under way stays the first until it is committed.              *)
LEMMA HeadStays ==
    ASSUME StepInv, feed # << >>, ~CommitEvent
    PROVE  Head(feed') = Head(feed) /\ feed' # << >>
<1>1. TypeInv /\ OneIntent /\ PaymentBacked /\ FullInv /\ [Next]_vars
  BY FullStep DEF StepInv
<1>2. CASE feed' = feed
  BY <1>2
<1>3. ASSUME NEW new \in Seq(TrueEvents'), Announces(new)
      PROVE  Head(feed') = Head(feed) /\ feed' # << >>
  <2>1. 1 \in 1 .. Len(feed') /\ feed'[1] = feed[1] /\ Head(feed) = feed[1]
    BY <1>1, <1>3, HeadKnown, FeedGrown
  <2>2. feed' # << >>
    BY <2>1
  <2> QED BY <2>1, <2>2
<1> QED BY <1>1, <1>2, <1>3, FeedChanges

(* The event of a spend finds the funding, and the spend that was recorded *)
(* is its own.                                                             *)
LEMMA SpendAtHead ==
    ASSUME FullInv, SpendInv, feed # << >>, Head(feed).kind \in Spends
    PROVE  /\ swap.contract /\ swap.lockTx
           /\ swap.unlockTxHeight > 0 =>
                onchain[Head(feed).kind] = swap.unlockTxHeight
<1>1. Head(feed) = feed[1] /\ 1 \in 1 .. Len(feed)
  BY HeadKnown
<1>2. swap.lockTx
  <2>1. swap.lockTx \/ \E j \in 1 .. 1 : feed[j].kind = "lock"
    BY <1>1 DEF FullInv, FollowInv, FundingFirst
  <2> QED BY <1>1, <2>1 DEF Spends
<1>3. swap.contract
  BY <1>2, LockKnown DEF FullInv, FollowInv, LockNoticed
<1>4. ASSUME swap.unlockTxHeight > 0
      PROVE  onchain[Head(feed).kind] = swap.unlockTxHeight
  <2>1. PICK u \in Spends : onchain[u] = swap.unlockTxHeight /\ RivalSilent(u)
    BY <1>4 DEF SpendInv, RecordedSpend
  <2>2. Head(feed).kind # Rival(u)
    BY <1>1, <2>1 DEF RivalSilent
  <2> QED BY <2>1, <2>2 DEF Spends, Rival
<1> QED BY <1>2, <1>3, <1>4

(* A recorded spend was mined before.                                      *)
LEMMA RecordedBefore ==
    ASSUME StepInv, NEW t \in Spends, swap.unlockTxHeight > 0,
           onchain'[t] = swap.unlockTxHeight
    PROVE  onchain[t] = swap.unlockTxHeight
<1>1. PICK u \in Spends : onchain[u] = swap.unlockTxHeight
  BY FullStep DEF SpendInv, RecordedSpend
<1>2. onchain'[u] = swap.unlockTxHeight
  BY <1>1, FullStep DEF Spends, ContractTxs
<1>3. OneMined' /\ swap.unlockTxHeight \in Int
  <2>1. swap.unlockTxHeight \in Heights
    BY FullStep DEF Entities
  <2>2. OneMined'
    BY DEF StepInv, SpendInv
  <2>3. swap.unlockTxHeight \in Nat
    BY <2>1, HeightsAreNaturals
  <2> QED BY <2>2, <2>3
<1> QED BY <1>1, <1>2, <1>3 DEF OneMined, Spends

(* What was handled of a spend is recorded.                                *)
LEMMA SpendRecorded ==
    ASSUME StepInv, NEW t \in Spends, NEW h \in Heights, Handled(t, h)'
    PROVE  swap'.unlockTxHeight = h
<1>1. /\ TypeInv /\ OneIntent /\ PaymentBacked /\ FullInv /\ SpendInv /\ [Next]_vars
      /\ SpendFollowed /\ OutcomeFitsMoney /\ SavedAsIs
      /\ swap \in Entities
  BY FullStep DEF StepInv, FollowInv
<1>2. /\ Handled(t, h) \/ (onchain[t] = h /\ HandledNow(Event(t, h)))
      /\ h > 0 /\ t # "block"
  BY <1>1, SightingHandled DEF ContractTxs, Spends, Handled
<1>3. CASE Handled(t, h)
  BY <1>1, <1>2, <1>3, RecordStays DEF SpendFollowed
<1>4. CASE onchain[t] = h /\ HandledNow(Event(t, h))
  <2>1. feed # << >> /\ Head(feed).kind = t /\ height = h /\ ev # "done" /\ ev' = "done"
    BY <1>4 DEF HandledNow, Event, height
  <2>2. /\ swap.contract /\ swap.lockTx
        /\ swap.unlockTxHeight > 0 => swap.unlockTxHeight = h
    BY <1>1, <1>4, <2>1, SpendAtHead
  <2> SUFFICES swap.unlockTxHeight > 0
    BY <2>2, RecordStays
  <2>3. Handles /\ ~BlockEffect /\ ~FundingEffect
    BY <2>1, FullStep DEF BlockEffect, FundingEffect, Spends
  <2>4. swap.unlockTxHeight \in Nat
    BY <1>1, HeightsAreNaturals DEF Entities
  <2>5. CASE SightingEffect
    BY <2>1, <2>2, <2>4, <2>5 DEF SightingEffect
  <2>6. CASE SpendEffect
    BY <1>1, <1>2, <2>1, <2>6 DEF SpendEffect, SpendFollowed
  <2>7. CASE SettlingEffect
    <3>1. CASE ev \in {"settle", "settled"}
      BY <1>1, <3>1 DEF SpendFollowed
    <3>2. CASE ev \notin {"settle", "settled"}
      <4>1. runner = "stopped" \/ db.status = "DONE" \/ "late_resume" \in Faults
        BY <2>7, <3>2 DEF SettlingEffect
      <4>2. swap.status = "DONE"
        BY <1>1, <4>1
        DEF SavedAsIs, FullInv, FollowInv, RefundFollowsExpiry, StepInv, ServerResumes
      <4>3. swap.outcome \in {"SUCCESS", "REFUNDED"}
        BY <1>1, <2>2, <4>2 DEF FullInv, FollowInv, LockNoticed, Locked
      <4> QED BY <1>1, <4>3 DEF SpendFollowed
    <3> QED BY <3>1, <3>2
  <2> QED BY <1>1, <2>3, <2>5, <2>6, <2>7, HandlerWrites
<1> QED BY <1>2, <1>3, <1>4

(* The status names the spend that was recorded.                           *)
Names(s, e, t) ==
    \/ s.status = StatusOf[t]
    \/ s.outcome = OutcomeOf[t]
    \/ e = "spend" /\ s.status \in Locked

LEMMA SpendNamed ==
    ASSUME StepInv, NEW t \in Spends,
           swap'.unlockTxHeight > 0, onchain'[t] = swap'.unlockTxHeight
    PROVE  Names(swap', ev', t)
<1>1. /\ TypeInv /\ OneIntent /\ PaymentBacked /\ FullInv /\ SpendInv /\ [Next]_vars
      /\ SpendFollowed /\ OutcomeFitsMoney /\ LockNoticed /\ RefundFollowsExpiry
      /\ swap \in Entities
      /\ ~Handles => LeavesRecord
  BY FullStep DEF StepInv, FollowInv
<1>2. /\ swap.unlockTxHeight \in Nat
      /\ t \in {"claim", "refund"}
      /\ StatusOf["claim"] = "CONTRACT_CLAIMED_UNCONFIRMED" /\ OutcomeOf["claim"] = "SUCCESS"
      /\ StatusOf["refund"] = "CONTRACT_REFUNDED_UNCONFIRMED" /\ OutcomeOf["refund"] = "REFUNDED"
  BY <1>1, HeightsAreNaturals DEF Entities, Spends, StatusOf, OutcomeOf
<1>3. CASE swap.unlockTxHeight = 0
  <2>1. Handles
    BY <1>1, <1>3 DEF LeavesRecord
  <2>2. SightingEffect /\ swap.lockTx /\ ev' = "spend" /\ SameView
    BY <1>1, <1>3, <2>1, HandlerWrites
    DEF BlockEffect, FundingEffect, SightingEffect, SpendEffect, SettlingEffect, SameRecord
  <2>3. swap.status \in Locked
    BY <1>1, <1>3, <2>2 DEF LockNoticed, SpendFollowed
  <2> QED BY <2>2, <2>3 DEF Names, SameView
<1>4. CASE swap.unlockTxHeight > 0
  <2>1. onchain[t] = swap.unlockTxHeight
    BY <1>4, RecordStays, RecordedBefore
  <2>2. Names(swap, ev, t)
    BY <1>1, <1>4, <2>1 DEF SpendFollowed, Names
  <2>3. ASSUME ev # "spend" PROVE swap.status = StatusOf[t] \/ swap.outcome = OutcomeOf[t]
    BY <2>2, <2>3 DEF Names
  <2>4. CASE SameView /\ (ev # "spend" \/ ev' = "spend")
    BY <2>2, <2>4 DEF Names, SameView
  <2>5. CASE ~Handles
    <3>1. SameView
      BY <1>1, <1>2, <2>2, <2>5 DEF LeavesRecord, Names, OutcomeFitsMoney, Locked
    <3>2. ev = "spend" => ev' = "spend"
      BY <1>1, <2>5 DEF LeavesRecord, StepInv
    <3> QED BY <2>4, <3>1, <3>2
  <2>6. CASE BlockEffect
    <3>1. ev # "spend"
      BY <2>6 DEF BlockEffect
    <3> QED
      BY <1>1, <1>2, <2>3, <2>4, <2>6, <3>1
      DEF BlockEffect, Names, OutcomeFitsMoney, Writes
  <2>7. CASE FundingEffect
    <3>1. ev # "spend"
      BY <2>7 DEF FundingEffect
    <3> QED
      BY <1>1, <1>2, <2>3, <2>4, <2>7, <3>1
      DEF FundingEffect, OutcomeFitsMoney, Writes
  <2>8. CASE SightingEffect
    BY <2>4, <2>8 DEF SightingEffect
  <2>9. CASE SpendEffect /\ Handles
    <3>1. feed # << >> /\ Head(feed).kind \in Spends
      BY <1>1, <2>9, HandlerFrame DEF SpendEffect
    <3>2. Head(feed).kind = t
      <4>1. onchain[Head(feed).kind] = swap.unlockTxHeight
        BY <1>1, <1>4, <3>1, SpendAtHead
      <4> QED BY <1>1, <1>2, <1>4, <2>1, <3>1, <4>1 DEF SpendInv, OneMined, Spends
    <3>3. t = "refund" => swap.status \notin {"CONTRACT_FUNDED_UNCONFIRMED", "CONTRACT_FUNDED"}
      <4>1. onchain[t] # Absent
        BY <1>2, <2>1 DEF Absent
      <4> QED BY <1>1, <4>1 DEF RefundFollowsExpiry, OutcomeFitsMoney
    <3>4. CASE t = "refund"
      BY <1>2, <2>2, <2>9, <3>2, <3>3, <3>4
      DEF SpendEffect, Names, Locked, Writes, SameView
    <3>5. CASE t = "claim"
      BY <1>2, <2>2, <2>9, <3>2, <3>5 DEF SpendEffect, Names, Locked, Writes, SameView
    <3> QED BY <1>2, <3>4, <3>5
  <2>10. CASE SettlingEffect
    <3>1. CASE SameView /\ ev # "spend"
      BY <2>4, <3>1
    <3>2. CASE FinishSwap /\ swap'.outcome = "SUCCESS" /\ ev = "settled"
      BY <1>1, <1>2, <2>3, <3>2 DEF OutcomeFitsMoney, Names
    <3> QED BY <2>10, <3>1, <3>2 DEF SettlingEffect
  <2> QED BY <1>1, <2>5, <2>6, <2>7, <2>8, <2>9, <2>10, HandlerWrites
<1> QED BY <1>2, <1>3, <1>4

(* The spend is recorded before anything follows from it.                  *)
LEMMA StepSpendFollowed ==
    ASSUME StepInv
    PROVE  SpendFollowed'
<1>1. /\ TypeInv /\ OneIntent /\ PaymentBacked /\ FullInv /\ SpendInv /\ [Next]_vars
      /\ SpendFollowed /\ OutcomeFitsMoney /\ SavedAsIs
      /\ swap \in Entities /\ db \in Entities /\ swap' \in Entities /\ db' \in Entities
      /\ ~Handles => LeavesRecord
  <2>1. TypeInv'
    BY FullStep
  <2> QED BY <2>1, FullStep DEF StepInv, FollowInv, TypeInv, ProcessTypeOK
<1>2. swap.unlockTxHeight > 0 => swap'.unlockTxHeight > 0
  BY RecordStays
<1>3. ASSUME ev' = "spend", height' > 0
      PROVE  swap'.unlockTxHeight > 0
  <2>1. CASE ev = "spend"
    <3>1. feed # << >> /\ ~CommitEvent
      BY <1>1, <2>1 DEF TypeInv, HandlerHasEvent, CommitEvent
    <3>2. height' = height
      BY <3>1, HeadStays DEF height
    <3> QED BY <1>1, <1>2, <1>3, <2>1, <3>2 DEF SpendFollowed
  <2>2. CASE ev # "spend"
    <3>1. Handles
      BY <1>1, <1>3, <2>2 DEF LeavesRecord
    <3>2. SightingEffect
      BY <1>1, <1>3, <2>2, <3>1, HandlerWrites
      DEF BlockEffect, FundingEffect, SpendEffect, SettlingEffect
    <3>3. height' = height
      BY <1>1, <3>1, HandlerFrame DEF height
    <3>4. swap.unlockTxHeight \in Nat
      BY <1>1, HeightsAreNaturals DEF Entities
    <3> QED BY <1>2, <1>3, <3>2, <3>3, <3>4 DEF SightingEffect
  <2> QED BY <2>1, <2>2
<1>4. ASSUME ev' \in {"settle", "settled"} PROVE swap'.unlockTxHeight > 0
  <2>1. CASE ev \in {"settle", "settled"}
    BY <1>1, <1>2, <2>1 DEF SpendFollowed
  <2>2. CASE ev \notin {"settle", "settled"}
    <3>1. Handles
      BY <1>1, <1>4, <2>2 DEF LeavesRecord
    <3>2. BlockEffect
      BY <1>1, <1>4, <2>2, <3>1, HandlerWrites
      DEF FundingEffect, SightingEffect, SpendEffect, SettlingEffect
    <3> QED BY <1>2, <1>4, <3>2 DEF BlockEffect, hasEnoughConfirmations
  <2> QED BY <2>1, <2>2
<1>5. ASSUME swap'.outcome \in {"SUCCESS", "REFUNDED"} PROVE swap'.unlockTxHeight > 0
  <2>1. CASE swap'.outcome = swap.outcome
    BY <1>1, <1>2, <1>5, <2>1 DEF SpendFollowed
  <2>2. CASE swap'.outcome # swap.outcome
    <3>1. Handles
      BY <1>1, <1>5, <2>2 DEF LeavesRecord, SameView
    <3>2. BlockEffect \/ (SettlingEffect /\ ev = "settled")
      BY <1>1, <2>2, <3>1, HandlerWrites
      DEF FundingEffect, SightingEffect, SpendEffect, SettlingEffect, SameView, Writes
    <3>3. CASE BlockEffect
      BY <1>2, <2>2, <3>3 DEF BlockEffect, hasEnoughConfirmations, SameView, Writes
    <3>4. CASE ev = "settled"
      BY <1>1, <1>2, <3>4 DEF SpendFollowed
    <3> QED BY <3>2, <3>3, <3>4
  <2> QED BY <2>1, <2>2
<1>6. ASSUME swap'.status = "CONTRACT_CLAIMED_UNCONFIRMED"
      PROVE  swap'.preImage /\ db'.preImage
  <2>1. CASE swap.status = "CONTRACT_CLAIMED_UNCONFIRMED"
    <3>1. swap.preImage /\ db.preImage
      BY <1>1, <2>1 DEF SpendFollowed
    <3>2. CASE ~Handles
      BY <1>1, <3>1, <3>2 DEF LeavesRecord
    <3>3. CASE BlockEffect \/ FundingEffect \/ SightingEffect \/ SettlingEffect
      BY <3>1, <3>3 DEF BlockEffect, FundingEffect, SightingEffect, SettlingEffect
    <3>4. CASE SpendEffect
      BY <1>1, <3>1, <3>4 DEF SpendEffect, Entities
    <3> QED BY <1>1, <3>2, <3>3, <3>4, HandlerWrites
  <2>2. CASE swap.status # "CONTRACT_CLAIMED_UNCONFIRMED"
    <3>1. ~SameView
      BY <1>6, <2>2 DEF SameView
    <3>2. Handles
      BY <1>1, <1>6, <2>2, <3>1 DEF LeavesRecord
    <3>3. SpendEffect
      BY <1>1, <1>6, <3>1, <3>2, HandlerWrites
      DEF BlockEffect, FundingEffect, SightingEffect, SettlingEffect, Writes
    <3> QED BY <1>6, <3>1, <3>3 DEF SpendEffect, Writes
  <2> QED BY <2>1, <2>2
<1>7. /\ \A t \in Spends, h \in Heights : Handled(t, h)' => swap'.unlockTxHeight = h
      /\ \A t \in Spends :
           swap'.unlockTxHeight > 0 /\ onchain'[t] = swap'.unlockTxHeight =>
               Names(swap', ev', t)
  BY SpendRecorded, SpendNamed
<1> QED BY <1>3, <1>4, <1>5, <1>6, <1>7 DEF SpendFollowed, Names

(* A funded contract keeps its timeout.                                    *)
LEMMA TimeoutKept ==
    ASSUME StepInv, swap.lockTx
    PROVE  swap'.timeoutBlockHeight = swap.timeoutBlockHeight
<1>1. /\ TypeInv /\ OneIntent /\ PaymentBacked /\ LockNoticed /\ TimeoutKnown
      /\ [Next]_vars /\ TasksFitStatus /\ OutcomeFitsMoney
  BY FullStep DEF StepInv, FollowInv
<1>2. db.timeoutBlockHeight = swap.timeoutBlockHeight
  BY <1>1 DEF LockNoticed, TimeoutKnown
<1>3. CASE Die \/ Resume
  BY <1>2, <1>3 DEF Die, Resume
<1>4. ~CreateContract
  <2> SUFFICES ASSUME intent = "contract" PROVE FALSE
    BY DEF CreateContract
  <2>1. sends = 0 /\ onchain["lock"] # Absent
    BY <1>1 DEF OneIntent, LockNoticed
  <2> QED BY <1>1, <2>1 DEF PaymentBacked
<1> QED BY <1>1, <1>3, <1>4, ContractIsKept DEF SameContract

(* What is saved of the timeout is what is in memory.                      *)
LEMMA StepTimeoutKnown ==
    ASSUME StepInv
    PROVE  TimeoutKnown'
<1>1. /\ TypeInv /\ OneIntent /\ PaymentBacked /\ LockNoticed /\ TimeoutKnown /\ FullInv
      /\ [Next]_vars /\ ChainNumbers /\ ChainNumbers' /\ tip[Chain] <= tip'[Chain]
      /\ ~Handles => LeavesRecord
      /\ SameView \/ ViewMoved
      /\ swap.status \in Statuses /\ swap.timeoutBlockHeight \in Int
  BY FullStep DEF StepInv, FollowInv, Entities
<1>2. ASSUME \/ intent' \in {"sending", "sent"}
             \/ intent' = "track" /\ Chain = "LIQUID"
             \/ onchain'["lock"] # Absent
      PROVE  db'.timeoutBlockHeight = swap'.timeoutBlockHeight
  <2>1. CASE Die \/ Resume
    BY <2>1 DEF Die, Resume
  <2>2. CASE CreateContract /\ ~Die
    <3>1. Chain = "LIQUID"
      <4>1. intent = "contract" /\ intent' = "track" /\ UNCHANGED onchain
        BY <2>2 DEF CreateContract, world
      <4>2. onchain["lock"] = Absent
        BY <1>1, <4>1 DEF OneIntent, PaymentBacked
      <4> QED BY <1>2, <4>1, <4>2
    <3> QED BY <2>2, <3>1 DEF CreateContract, Save
  <2>3. CASE TrackContract
    BY <1>1, <2>3, SwapOutAssumption DEF TrackContract, Save, Chains, TimeoutKnown
  <2>4. CASE ~Die /\ ~Resume /\ ~CreateContract /\ ~TrackContract
    <3>1. SameContract(swap', swap) /\ (SameContract(db', db) \/ SameContract(db', swap))
      BY <1>1, <2>4, ContractIsKept
    <3>2. CASE SendCoins
      <4>1. intent = "sending"
        BY <3>2 DEF SendCoins
      <4> QED BY <1>1, <3>1, <4>1 DEF SameContract, TimeoutKnown
    <3>3. CASE ~SendCoins
      <4>1. intent' \in {"track", "sending", "sent"} => intent' = intent
        BY <1>1, <2>4, <3>3, IntentProceeds
      <4>2. onchain'["lock"] # Absent => onchain["lock"] # Absent
        BY <1>1, <3>3, OnlySendCoinsFunds
      <4> QED BY <1>1, <1>2, <3>1, <4>1, <4>2 DEF SameContract, TimeoutKnown
    <3> QED BY <3>2, <3>3
  <2> QED BY <2>1, <2>2, <2>3, <2>4
<1>3. ASSUME swap'.status = "CONTRACT_EXPIRED"
      PROVE  swap'.timeoutBlockHeight <= tip'[Chain]
  <2>1. swap.status \in {"CONTRACT_FUNDED", "CONTRACT_EXPIRED"} /\ swap.lockTx
    BY <1>1, <1>3, ViewStays DEF LockNoticed, Locked
  <2>2. swap'.timeoutBlockHeight = swap.timeoutBlockHeight
    BY <2>1, TimeoutKept
  <2>3. swap.timeoutBlockHeight <= tip[Chain]
    <3>1. CASE swap.status = "CONTRACT_EXPIRED"
      BY <1>1, <3>1 DEF TimeoutKnown
    <3>2. CASE swap.status = "CONTRACT_FUNDED"
      <4>1. ~SameView /\ Handles
        BY <1>1, <1>3, <3>2 DEF SameView, LeavesRecord
      <4>2. BlockEffect
        BY <1>1, <1>3, <3>2, <4>1, HandlerWrites
        DEF FundingEffect, SightingEffect, SpendEffect, SettlingEffect, Writes
      <4>3. swap.timeoutBlockHeight <= height
        BY <1>3, <3>2, <4>1, <4>2 DEF BlockEffect
      <4>4. height \in Nat /\ height <= tip[Chain]
        BY <1>1, <4>1, HandlerFrame, HeadKnown
      <4> QED BY <1>1, <4>3, <4>4 DEF ChainNumbers
    <3> QED BY <2>1, <3>1, <3>2
  <2> QED BY <1>1, <2>2, <2>3 DEF ChainNumbers
<1> QED BY <1>2, <1>3 DEF TimeoutKnown

(* What lies before a block of the chain was mined before this step.       *)
LEMMA MinedBefore ==
    ASSUME StepInv, NEW t \in ContractTxs, NEW g \in Int, g <= tip'[Chain],
           onchain'[t] > 0, g > onchain'[t]
    PROVE  onchain[t] = onchain'[t]
<1>1. TypeInv /\ OneIntent /\ PaymentBacked /\ [Next]_vars /\ ChainNumbers /\ ChainNumbers'
  BY FullStep DEF StepInv
<1>2. CASE NewBlock
  <2>1. PICK h : h = tip[Chain] + 1
    OBVIOUS
  <2>2. tip'[Chain] = h /\ (onchain'[t] = onchain[t] \/ onchain'[t] = h)
    BY <1>1, <1>2, <2>1, MinedAwaits
  <2> QED BY <1>1, <2>2 DEF ChainNumbers
<1>3. ASSUME NEW u \in ContractTxs, Broadcasts(u) PROVE onchain[t] = onchain'[t]
  BY <1>1, <1>3 DEF Broadcasts, Broadcast, Mempool, TypeInv, WorldTypeOK
<1>4. CASE UNCHANGED onchain
  BY <1>4
<1> QED BY <1>1, <1>2, <1>3, <1>4, FeedSteps

(* LND does not take an invoice back.                                      *)
LEMMA CanceledStays ==
    ASSUME StepInv, invoice = "CANCELED"
    PROVE  invoice' = "CANCELED"
<1>1. /\ TypeInv /\ [Next]_vars
      /\ ~Handles => LeavesRecord
  BY FullStep DEF StepInv
<1>2. CASE Handles /\ SettleInvoice
  BY <1>2 DEF SettleInvoice
<1>3. CASE Handles /\ ~SettleInvoice
  BY <1>1, <1>3, HandlerFrame
<1> QED BY <1>1, <1>2, <1>3 DEF LeavesRecord

(* What lies before a block of the chain lay before it in the step's first *)
(* state, and what that implied still holds.                               *)
LEMMA PastBefore ==
    ASSUME StepInv, NEW t \in ContractTxs, NEW g \in Int, g <= tip'[Chain],
           Past(t, g)'
    PROVE  /\ onchain'[t] = onchain[t] /\ Past(t, g)
           /\ onchain[t] \in Nat /\ onchain[t] > 0 /\ onchain[t] < g
           /\ onchain["lock"] # Absent
<1>1. onchain'[t] > 0 /\ g > onchain'[t] /\ g >= onchain'[t] + RequiredConfirmations - 1
  BY DEF Past
<1>2. onchain'[t] = onchain[t]
  BY <1>1, MinedBefore
<1>3. onchain[t] \in Int
  BY FullStep DEF ChainNumbers
<1>4. onchain["lock"] # Absent
  <2>1. onchain[t] # Absent
    BY <1>1, <1>2 DEF Absent
  <2>2. CASE t = "lock"
    BY <2>1, <2>2
  <2>3. CASE t = "claim"
    BY <2>1, <2>3, FullStep DEF StepInv, FullInv, SwapInv, StatusInv, ClaimNeedsContract
  <2>4. CASE t = "refund"
    BY <2>1, <2>4, FullStep
    DEF FollowInv, RefundFollowsExpiry, LockNoticed, Locked
  <2> QED BY <2>2, <2>3, <2>4 DEF ContractTxs
<1> QED BY <1>1, <1>2, <1>3, <1>4 DEF Past

(* What a handled block left behind stays.                                 *)
LEMMA BlockStays ==
    ASSUME StepInv, NEW h \in Heights, h <= tip'[Chain], BlockLeaves(h)
    PROVE  BlockLeaves(h)'
<1>1. /\ FullInv /\ TypeInv /\ SpendInv /\ OneMined /\ LockNoticed /\ OutcomeFitsMoney
      /\ OutcomeFitsMoney' /\ [Next]_vars
      /\ ~Handles => LeavesRecord
      /\ SameView \/ ViewMoved
      /\ swap.status \in Statuses
      /\ h \in Int /\ h - 1 \in Int /\ h - 1 <= tip'[Chain]
  <2>1. h \in Nat /\ tip'[Chain] \in Nat
    BY HeightsAreNaturals, FullStep DEF ChainNumbers
  <2> QED BY <2>1, FullStep DEF StepInv, FollowInv, Entities, SpendInv
<1>2. "lock" \in ContractTxs /\ "claim" \in ContractTxs /\ "refund" \in ContractTxs
  BY DEF ContractTxs
<1>3. \A t \in Spends : Past(t, h)' => swap'.unlockTxHeight = onchain'[t]
  <2> SUFFICES ASSUME NEW t \in Spends, Past(t, h)'
               PROVE  swap'.unlockTxHeight = onchain'[t]
    OBVIOUS
  <2>1. Past(t, h) /\ onchain'[t] = onchain[t] /\ onchain[t] > 0
    BY <1>1, PastBefore DEF Spends, ContractTxs
  <2>2. swap.unlockTxHeight = onchain[t]
    BY <2>1 DEF BlockLeaves
  <2> QED BY <2>1, <2>2, RecordStays
<1>4. ASSUME Past("claim", h)'
      PROVE  \/ swap'.outcome = "SUCCESS"
             \/ swap'.status = "CONTRACT_CLAIMED_UNCONFIRMED" /\ invoice' = "CANCELED"
  <2>1. Past("claim", h) /\ onchain["claim"] > 0
    BY <1>1, <1>2, <1>4, PastBefore
  <2>2. CASE swap.outcome = "SUCCESS"
    BY <1>1, <2>2, ViewStays DEF OutcomeFitsMoney, SameView
  <2>3. CASE swap.status = "CONTRACT_CLAIMED_UNCONFIRMED" /\ invoice = "CANCELED"
    <3>1. swap'.status # "CONTRACT_REFUNDED_UNCONFIRMED"
      <4> SUFFICES ASSUME swap'.status = "CONTRACT_REFUNDED_UNCONFIRMED" PROVE FALSE
        OBVIOUS
      <4>1. Handles /\ ~SameView
        BY <1>1, <2>3 DEF LeavesRecord, SameView
      <4>2. SpendEffect
        BY <1>1, <4>1, HandlerWrites
        DEF BlockEffect, FundingEffect, SightingEffect, SettlingEffect, Writes
      <4>3. feed # << >> /\ Head(feed).kind = "refund"
        BY <1>1, <4>1, <4>2, HandlerFrame DEF SpendEffect, Writes
      <4>4. swap.unlockTxHeight = onchain["claim"]
        BY <2>1 DEF BlockLeaves, Spends
      <4>5. onchain["refund"] = onchain["claim"]
        BY <1>1, <2>1, <4>3, <4>4, SpendAtHead DEF Spends
      <4> QED BY <1>1, <2>1, <4>5, FullStep DEF OneMined, ChainNumbers, ContractTxs
    <3> QED BY <1>1, <2>3, <3>1, CanceledStays, ViewStays DEF SameView
  <2> QED BY <2>1, <2>2, <2>3 DEF BlockLeaves
<1>5. ASSUME Past("refund", h)' PROVE swap'.outcome = "REFUNDED"
  <2>1. swap.outcome = "REFUNDED"
    BY <1>1, <1>2, <1>5, PastBefore DEF BlockLeaves
  <2> QED BY <1>1, <2>1, ViewStays DEF OutcomeFitsMoney, SameView
<1>6. ASSUME Past("lock", h)'
      PROVE  swap'.status \notin {"INVOICE_PAYMENT_INTENT_RECEIVED",
                                  "CONTRACT_FUNDED_UNCONFIRMED"}
  <2>1. Past("lock", h) /\ onchain["lock"] # Absent
    BY <1>1, <1>2, <1>6, PastBefore
  <2>2. swap.status \notin {"INVOICE_PAYMENT_INTENT_RECEIVED",
                            "CONTRACT_FUNDED_UNCONFIRMED", "CREATED"}
    BY <1>1, <2>1, LockKnown DEF BlockLeaves
  <2> QED BY <1>1, <2>2, ViewStays
<1>7. ASSUME Past("lock", h - 1)', swap'.timeoutBlockHeight <= h
      PROVE  swap'.status # "CONTRACT_FUNDED" \/ swap'.unlockTxHeight # 0
  <2> SUFFICES ASSUME swap'.status = "CONTRACT_FUNDED" PROVE swap'.unlockTxHeight # 0
    OBVIOUS
  <2>1. Past("lock", h - 1) /\ onchain["lock"] \in Nat /\ onchain["lock"] < h - 1
    BY <1>1, <1>2, <1>7, PastBefore
  <2>2. Past("lock", h)
    BY <1>1, <2>1, ConfirmationsAssumption DEF Past
  <2>3. swap.status = "CONTRACT_FUNDED"
    BY <1>1, <2>2, ViewStays DEF BlockLeaves
  <2>4. swap'.timeoutBlockHeight = swap.timeoutBlockHeight
    BY <1>1, <2>3, TimeoutKept DEF LockNoticed, Locked
  <2>5. swap.unlockTxHeight # 0 /\ swap.unlockTxHeight \in Nat
    BY <1>7, <2>1, <2>3, <2>4, FullStep, HeightsAreNaturals DEF BlockLeaves, Entities
  <2> QED BY <2>5, RecordStays
<1> QED BY <1>3, <1>4, <1>5, <1>6, <1>7 DEF BlockLeaves

(* A block that is handled now found the sightings before it handled.      *)
LEMMA SightedBefore ==
    ASSUME StepInv, NEW h \in Heights, feed # << >>, height = h,
           NEW t \in ContractTxs, onchain[t] > 0, onchain[t] < h
    PROVE  onchain[t] \in Heights /\ Handled(t, onchain[t])
<1>1. FullInv /\ onchain[t] \in {Absent} \cup Heights
  BY FullStep DEF StepInv, TypeInv, WorldTypeOK
<1>2. PICK g : g = onchain[t]
  OBVIOUS
<1>3. g \in Heights /\ g \in Nat /\ t # "block"
  <2>1. g \in Heights
    BY <1>1, <1>2 DEF Absent
  <2> QED BY <2>1, HeightsAreNaturals DEF ContractTxs
<1>4. ~Awaits(Event(t, g))
  BY <1>1, <1>2, <1>3, EarlierHandled
<1> QED BY <1>2, <1>3, <1>4 DEF Handled

(* The handler of a block leaves what it should.                           *)
LEMMA BlockNow ==
    ASSUME StepInv, NEW h \in Heights, h <= tip'[Chain],
           HandledNow(Event("block", h))
    PROVE  BlockLeaves(h)'
<1>1. /\ FullInv /\ TypeInv /\ SpendInv /\ LockNoticed /\ LockNoticed' /\ SpendFollowed
      /\ OutcomeFitsMoney /\ OutcomeFitsMoney' /\ PaymentBacked /\ SavedAsIs
      /\ RefundFollowsExpiry /\ BlocksFollowed /\ swap \in Entities
      /\ SameView \/ ViewMoved
      /\ swap.status \in Statuses
  BY FullStep, StepLockNoticed DEF StepInv, FollowInv, Entities
<1>2. /\ feed # << >> /\ Head(feed).kind = "block" /\ height = h
      /\ ev # "done" /\ ev' = "done" /\ Handles
  BY FullStep DEF HandledNow, Event, height
<1>3. /\ h \in Int /\ h \in Nat /\ h - 1 \in Int /\ h - 1 <= tip'[Chain]
      /\ h <= tip[Chain] /\ tip[Chain] \in Nat
      /\ swap.unlockTxHeight \in Nat /\ swap.timeoutBlockHeight \in Int
      /\ RequiredConfirmations \in Nat
  <2>1. h \in Nat /\ tip'[Chain] \in Nat /\ tip[Chain] \in Nat /\ h <= tip[Chain]
    BY <1>1, <1>2, HeightsAreNaturals, HeadKnown, FullStep DEF ChainNumbers
  <2>2. h \in Int /\ h - 1 \in Int /\ h - 1 <= tip'[Chain]
    BY <2>1
  <2>3. swap.unlockTxHeight \in Heights /\ swap.timeoutBlockHeight \in Int
    BY <1>1 DEF Entities
  <2>4. swap.unlockTxHeight \in Nat
    BY <2>3, HeightsAreNaturals
  <2> QED BY <2>1, <2>2, <2>3, <2>4, ConfirmationsAssumption
<1>4. "lock" \in ContractTxs /\ "claim" \in ContractTxs /\ "refund" \in ContractTxs
  BY DEF ContractTxs
<1>5. /\ ~FundingEffect /\ ~SightingEffect /\ ~SpendEffect
      /\ BlockEffect \/ SettlingEffect
  <2>1. ~FundingEffect /\ ~SightingEffect /\ ~SpendEffect
    BY <1>2 DEF FundingEffect, SightingEffect, SpendEffect, Spends
  <2> QED BY <1>1, <1>2, <2>1, HandlerWrites
<1>6. \/ BlockEffect
      \/ ev = "settle" /\ SettlingEffect
      \/ swap'.outcome = "SUCCESS"
      \/ swap.status = "DONE"
  <2>1. SettlingEffect =>
          \/ ev = "settle" \/ swap'.outcome = "SUCCESS"
          \/ runner = "stopped" \/ db.status = "DONE" \/ "late_resume" \in Faults
    BY DEF SettlingEffect
  <2> QED
    BY <1>1, <1>5, <2>1
    DEF StepInv, ServerResumes, RefundFollowsExpiry, SavedAsIs
<1>7. ASSUME NEW t \in Spends, Past(t, h)'
      PROVE  /\ onchain'[t] = onchain[t] /\ onchain[t] \in Nat
             /\ swap.unlockTxHeight = onchain[t] /\ onchain[t] > 0
             /\ h >= onchain[t] + RequiredConfirmations - 1
             /\ swap.status = StatusOf[t] \/ swap.outcome = OutcomeOf[t]
             /\ onchain["lock"] # Absent
  <2>1. t \in ContractTxs
    BY DEF Spends, ContractTxs
  <2>2. /\ onchain'[t] = onchain[t] /\ Past(t, h) /\ onchain[t] \in Nat
        /\ onchain[t] > 0 /\ onchain[t] < h /\ onchain["lock"] # Absent
    BY <1>3, <1>7, <2>1, PastBefore
  <2>3. onchain[t] \in Heights /\ Handled(t, onchain[t])
    BY <1>2, <2>1, <2>2, SightedBefore
  <2>4. swap.unlockTxHeight = onchain[t]
    BY <1>1, <2>3 DEF SpendFollowed
  <2>5. ev # "spend"
    BY <1>5 DEF BlockEffect, SettlingEffect, OutcomeFitsMoney
  <2> QED BY <1>1, <2>2, <2>4, <2>5 DEF SpendFollowed, Past
<1>8. \A t \in Spends : Past(t, h)' => swap'.unlockTxHeight = onchain'[t]
  BY <1>7, RecordStays
<1>9. ASSUME Past("claim", h)'
      PROVE  \/ swap'.outcome = "SUCCESS"
             \/ swap'.status = "CONTRACT_CLAIMED_UNCONFIRMED" /\ invoice' = "CANCELED"
  <2>1. /\ swap.unlockTxHeight = onchain["claim"] /\ onchain["claim"] > 0
        /\ onchain["claim"] \in Nat /\ h >= onchain["claim"] + RequiredConfirmations - 1
        /\ swap.status = "CONTRACT_CLAIMED_UNCONFIRMED" \/ swap.outcome = "SUCCESS"
        /\ onchain["lock"] # Absent
    BY <1>7, <1>9 DEF Spends, StatusOf, OutcomeOf
  <2>2. CASE swap.outcome = "SUCCESS"
    BY <1>1, <2>2, ViewStays DEF OutcomeFitsMoney, SameView
  <2>3. CASE swap.status = "CONTRACT_CLAIMED_UNCONFIRMED"
    <3>1. ~BlockEffect
      <4>1. hasEnoughConfirmations(swap.unlockTxHeight, height)
        BY <1>2, <1>3, <2>1 DEF hasEnoughConfirmations
      <4> QED BY <1>2, <2>3, <4>1 DEF BlockEffect
    <3>2. CASE ev = "settle" /\ SettlingEffect
      <4>1. /\ invoice' = invoice /\ SameView
            /\ invoice \in {"OPEN", "CANCELED"} \/ ~swap.preImage \/ "settle_error" \in Faults
        BY <1>2, <3>2 DEF SettlingEffect
      <4>2. invoice = "CANCELED"
        BY <1>1, <2>1, <2>3, <4>1
        DEF SpendFollowed, PaymentBacked, StepInv, ServerResumes
      <4> QED BY <2>3, <4>1, <4>2 DEF SameView
    <3> QED BY <1>6, <2>3, <3>1, <3>2
  <2> QED BY <2>1, <2>2, <2>3
<1>10. ASSUME Past("refund", h)' PROVE swap'.outcome = "REFUNDED"
  <2>1. /\ swap.unlockTxHeight = onchain["refund"] /\ onchain["refund"] > 0
        /\ onchain["refund"] \in Nat /\ h >= onchain["refund"] + RequiredConfirmations - 1
        /\ swap.status = "CONTRACT_REFUNDED_UNCONFIRMED" \/ swap.outcome = "REFUNDED"
    BY <1>7, <1>10 DEF Spends, StatusOf, OutcomeOf
  <2>2. CASE swap.outcome = "REFUNDED"
    BY <1>1, <2>2, ViewStays DEF OutcomeFitsMoney, SameView
  <2>3. CASE swap.status = "CONTRACT_REFUNDED_UNCONFIRMED"
    <3>1. BlockEffect
      BY <1>1, <1>5, <2>3
      DEF SettlingEffect, OutcomeFitsMoney, StepInv, ServerResumes, RefundFollowsExpiry,
          SavedAsIs
    <3>2. hasEnoughConfirmations(swap.unlockTxHeight, height)
      BY <1>2, <1>3, <2>1 DEF hasEnoughConfirmations
    <3> QED BY <2>3, <3>1, <3>2 DEF BlockEffect
  <2> QED BY <2>1, <2>2, <2>3
<1>11. ASSUME Past("lock", h)'
       PROVE  swap'.status \notin {"INVOICE_PAYMENT_INTENT_RECEIVED",
                                   "CONTRACT_FUNDED_UNCONFIRMED"}
  <2>1. /\ onchain["lock"] \in Nat /\ onchain["lock"] > 0 /\ onchain["lock"] < h
        /\ h >= onchain["lock"] + RequiredConfirmations - 1
    BY <1>3, <1>4, <1>11, PastBefore DEF Past
  <2>2. onchain["lock"] \in Heights /\ Handled("lock", onchain["lock"])
    BY <1>2, <1>4, <2>1, SightedBefore
  <2>3. /\ swap.lockTx
        /\ swap.status = "CONTRACT_FUNDED_UNCONFIRMED" => swap.lockTxHeight = onchain["lock"]
    BY <1>1, <2>2 DEF LockNoticed
  <2>4. swap.status \notin {"CREATED", "INVOICE_PAYMENT_INTENT_RECEIVED"}
    BY <1>1, <2>3 DEF LockNoticed, Locked, OutcomeFitsMoney
  <2> SUFFICES ASSUME swap'.status \in {"INVOICE_PAYMENT_INTENT_RECEIVED",
                                        "CONTRACT_FUNDED_UNCONFIRMED"}
               PROVE  FALSE
    OBVIOUS
  <2>5. swap.status = "CONTRACT_FUNDED_UNCONFIRMED"
    BY <1>1, <2>4, ViewStays
  <2>6. hasEnoughConfirmations(swap.lockTxHeight, height)
    BY <1>2, <1>3, <2>1, <2>3, <2>5 DEF hasEnoughConfirmations
  <2>7. BlockEffect
    BY <1>1, <1>5, <2>5
    DEF SettlingEffect, OutcomeFitsMoney, StepInv, ServerResumes, RefundFollowsExpiry,
        SavedAsIs
  <2> QED BY <2>5, <2>6, <2>7 DEF BlockEffect, Writes
<1>12. ASSUME Past("lock", h - 1)', swap'.timeoutBlockHeight <= h,
              swap'.status = "CONTRACT_FUNDED"
       PROVE  swap'.unlockTxHeight # 0
  <2>1. /\ Past("lock", h - 1) /\ onchain["lock"] \in Nat /\ onchain["lock"] > 0
        /\ onchain["lock"] < h - 1
    BY <1>3, <1>4, <1>12, PastBefore
  <2>2. PICK g : g = h - 1
    OBVIOUS
  <2>3. g \in Nat /\ g > 0 /\ g < height /\ g \in Heights /\ g <= tip[Chain]
    BY <1>2, <1>3, <2>1, <2>2, SwapOutAssumption DEF Heights, Chains
  <2>4. Handled("block", g)
    BY <1>1, <1>2, <2>3, EarlierHandled DEF Handled
  <2>5. BlockLeaves(g) /\ Past("lock", g)
    BY <1>1, <2>1, <2>2, <2>3, <2>4 DEF BlocksFollowed
  <2>6. swap.status = "CONTRACT_FUNDED"
    BY <1>1, <1>12, <2>5, ViewStays DEF BlockLeaves
  <2>7. swap.timeoutBlockHeight <= h
    BY <1>1, <1>12, <2>6, TimeoutKept DEF LockNoticed, Locked
  <2>8. BlockEffect
    BY <1>1, <1>5, <2>6
    DEF SettlingEffect, OutcomeFitsMoney, StepInv, ServerResumes, RefundFollowsExpiry,
        SavedAsIs
  <2>9. swap.unlockTxHeight # 0
    BY <1>2, <1>3, <1>12, <2>6, <2>7, <2>8 DEF BlockEffect, Writes
  <2> QED BY <1>3, <2>9, RecordStays
<1> QED BY <1>8, <1>9, <1>10, <1>11, <1>12 DEF BlockLeaves

LEMMA StepBlocksFollowed ==
    ASSUME StepInv
    PROVE  BlocksFollowed'
<1> SUFFICES ASSUME NEW h \in Heights, Handled("block", h)' PROVE BlockLeaves(h)'
  BY DEF BlocksFollowed
<1>1. TypeInv /\ OneIntent /\ PaymentBacked /\ [Next]_vars /\ BlocksFollowed
  BY FullStep DEF StepInv, FollowInv
<1>2. h \in Nat /\ h <= tip'[Chain]
  BY HeightsAreNaturals DEF Handled
<1>3. Handled("block", h) \/ HandledNow(Event("block", h))
  BY <1>1, <1>2, BlockHandled
<1> QED BY <1>1, <1>2, <1>3, BlockStays, BlockNow DEF BlocksFollowed

LEMMA InitFollowInv == Init => FollowInv
<1> SUFFICES ASSUME Init PROVE FollowInv
  OBVIOUS
<1>1. /\ Len(feed) = 0 /\ ev = "idle" /\ intent = "off" /\ refunder = "off"
      /\ runner = "running" /\ swap = NewSwap /\ db = NewSwap
      /\ \A t \in ContractTxs : onchain[t] = Absent
  BY DEF Init
<1>2. \A h : \A t \in Spends \cup {"lock"} : ~Handled(t, h) /\ ~Past(t, h)
  BY <1>1 DEF Handled, Past, Absent, Spends, ContractTxs
<1>3. HeightsInOrder /\ FundingFirst
  BY <1>1 DEF HeightsInOrder, FundingFirst
<1>4. LockNoticed /\ RefundFollowsExpiry
  BY <1>1, <1>2 DEF LockNoticed, RefundFollowsExpiry, Locked, NewSwap, ContractTxs
<1>5. SpendFollowed
  BY <1>1, <1>2 DEF SpendFollowed, NewSwap
<1>6. BlocksFollowed /\ TimeoutKnown
  BY <1>1, <1>2 DEF BlocksFollowed, BlockLeaves, TimeoutKnown, NewSwap, Spends, ContractTxs
<1> QED BY <1>3, <1>4, <1>5, <1>6 DEF FollowInv

LEMMA StepFollowInv ==
    ASSUME StepInv
    PROVE  FollowInv'
<1>1. SwapInv /\ HeightsInOrder /\ [Next]_vars
  BY FullStep DEF StepInv, FollowInv
<1>2. HeightsInOrder' /\ FundingFirst' /\ LockNoticed'
  BY <1>1, StepHeightsInOrder, StepFundingFirst, StepLockNoticed
<1>3. RefundFollowsExpiry' /\ SpendFollowed' /\ BlocksFollowed' /\ TimeoutKnown'
  BY StepRefundFollowsExpiry, StepSpendFollowed, StepBlocksFollowed, StepTimeoutKnown
<1> QED BY <1>2, <1>3 DEF FollowInv

LEMMA FollowSpec ==
    ASSUME LndAnswers, ServerResumes
    PROVE  Spec /\ SpendIsApplied => []FullInv
<1>1. Spec /\ SpendIsApplied => [](SwapInv /\ SpendInv)
  BY SwapSpec, SpendSpec, PTL
<1>2. FullInv /\ SwapInv' /\ SpendInv' /\ [Next]_vars /\ [ev = "spend" => up']_vars
        => FollowInv'
  <2> SUFFICES ASSUME FullInv, SwapInv', SpendInv', [Next]_vars, [ev = "spend" => up']_vars
               PROVE  FollowInv'
    OBVIOUS
  <2>1. CASE UNCHANGED vars
    <3>1. FollowInv
      BY DEF FullInv
    <3> QED
      BY <2>1, <3>1
      DEF vars, server, tasks, world, FollowInv, HeightsInOrder, FundingFirst, LockNoticed,
          RefundFollowsExpiry, SpendFollowed, BlocksFollowed, BlockLeaves, TimeoutKnown,
          Handled, Awaits, Past, height
  <2>2. CASE ~UNCHANGED vars
    <3>1. StepInv
      BY <2>2 DEF StepInv
    <3> QED BY <3>1, StepFollowInv
  <2> QED BY <2>1, <2>2
<1> QED BY <1>1, <1>2, InitFollowInv, PTL DEF Spec, SpendIsApplied, FullInv

(* When every event was handled and no task is left, the saved status is   *)
(* what the chain says, however payment, funding, spends and blocks        *)
(* interleave and however often the process stops: no handler of           *)
(* SwapOutRunner drops an event, applies it to the wrong status or leaves  *)
(* a confirmation or a timeout unnoticed.  LND answers as it should, the   *)
(* runner is there before its events, and the process does not die between *)
(* the two saves of processContractSpendingTx.                             *)
THEOREM SwapOutStatusFollowsChain ==
    ASSUME LndAnswers, ServerResumes
    PROVE  Spec /\ SpendIsApplied => []StatusFollowsChain
<1>1. ASSUME FullInv, Quiescent PROVE StatusFollowsChain
  <2>1. /\ TypeInv /\ RevealedByClaim /\ OutcomeFitsMoney /\ SavedAsIs /\ LockNoticed
        /\ RefundFollowsExpiry /\ SpendFollowed /\ BlocksFollowed /\ TimeoutKnown
        /\ RecordedSpend /\ swap \in Entities
    BY <1>1 DEF FullInv, SwapInv, SpendInv, StatusInv, FollowInv, TypeInv, ProcessTypeOK
  <2>2. PICK h : h = tip[Chain]
    OBVIOUS
  <2>3. /\ h \in Nat /\ h \in Heights /\ RequiredConfirmations \in Nat
        /\ RequiredConfirmations > 0
        /\ \A t \in ContractTxs : onchain[t] \in Int
        /\ swap.timeoutBlockHeight \in Int
    <3>1. h \in Nat /\ h <= MaxHeight[Chain]
      BY <2>1, <2>2, ChainType DEF ChainNumbers, TypeInv, WorldTypeOK
    <3> QED
      BY <2>1, <3>1, ChainType, SwapOutAssumption, ConfirmationsAssumption
      DEF Heights, Chains, ChainNumbers, ServerResumes, Entities
  <2>4. BlockLeaves(h)
    <3>1. \A e : ~Awaits(e)
      BY <1>1 DEF Quiescent, Awaits
    <3>2. Handled("block", h)
      BY <2>2, <2>3, <3>1 DEF Handled
    <3> QED BY <2>1, <2>3, <3>2 DEF BlocksFollowed
  <2>5. \A t \in ContractTxs : Buried(t) => Past(t, h) /\ Past(t, h - 1)
    BY <2>2, <2>3 DEF Buried, Past
  <2>6. Buried("claim") =>
          \/ db.outcome = "SUCCESS"
          \/ db.status = "CONTRACT_CLAIMED_UNCONFIRMED" /\ invoice = "CANCELED"
    BY <2>1, <2>4, <2>5 DEF BlockLeaves, SavedAsIs, ContractTxs
  <2>7. Buried("refund") => db.outcome = "REFUNDED"
    BY <2>1, <2>4, <2>5 DEF BlockLeaves, SavedAsIs, ContractTxs
  <2>8. ASSUME Buried("lock"), onchain["claim"] = Absent, onchain["refund"] = Absent
        PROVE  db.status = IF tip[Chain] <= db.timeoutBlockHeight - 1
                             THEN "CONTRACT_FUNDED" ELSE "CONTRACT_EXPIRED"
    <3>1. onchain["lock"] # Absent /\ Past("lock", h) /\ Past("lock", h - 1)
      BY <2>5, <2>8 DEF Buried, Absent, ContractTxs
    <3>2. swap.unlockTxHeight = 0
      <4>1. ~(swap.unlockTxHeight > 0)
        BY <2>1, <2>8 DEF RecordedSpend, Spends, Absent
      <4>2. swap.unlockTxHeight \in Nat
        BY <2>1, HeightsAreNaturals DEF Entities
      <4> QED BY <4>1, <4>2
    <3>3. swap.outcome \notin {"EXPIRED", "ERROR"} /\ swap.status # "CREATED"
      BY <1>1, <3>1, LockKnown
    <3>4. swap.status # "DONE"
      <4>1. swap.outcome \notin {"SUCCESS", "REFUNDED"}
        BY <2>1, <3>2 DEF SpendFollowed
      <4> QED BY <2>1, <3>3, <4>1 DEF OutcomeFitsMoney, Entities, Outcomes
    <3>5. swap.status \notin {"CONTRACT_CLAIMED_UNCONFIRMED", "CONTRACT_REFUNDED_UNCONFIRMED"}
      BY <2>1, <2>8 DEF SpendFollowed, RevealedByClaim, RefundFollowsExpiry
    <3>6. swap.status \in {"CONTRACT_FUNDED", "CONTRACT_EXPIRED"}
      BY <2>1, <2>4, <3>1, <3>3, <3>4, <3>5 DEF BlockLeaves, Entities, Statuses
    <3>7. db.timeoutBlockHeight = swap.timeoutBlockHeight
      BY <2>1, <3>1 DEF TimeoutKnown
    <3>8. swap.status = "CONTRACT_FUNDED" => h < swap.timeoutBlockHeight
      BY <2>3, <2>4, <3>1, <3>2 DEF BlockLeaves
    <3>9. swap.status = "CONTRACT_EXPIRED" => swap.timeoutBlockHeight <= h
      BY <2>1, <2>2 DEF TimeoutKnown
    <3> QED BY <2>1, <2>2, <2>3, <3>6, <3>7, <3>8, <3>9 DEF SavedAsIs
  <2> QED BY <2>6, <2>7, <2>8 DEF StatusFollowsChain
<1>2. FullInv => StatusFollowsChain
  BY <1>1 DEF StatusFollowsChain
<1> QED BY <1>2, FollowSpec, PTL

-----------------------------------------------------------------------------
(* A claim in time is paid.                                                *)

(* nbxplorer announces every block: one that waits is followed by all the  *)
(* later ones.                                                             *)
BlocksListed ==
    \A i \in 1 .. Len(feed) :
        feed[i].kind = "block" =>
            /\ feed[i].h > 0
            /\ \A g \in feed[i].h .. tip[Chain] :
                 \E j \in 1 .. Len(feed) : feed[j] = Event("block", g)

(* The server is at most MaxPending blocks behind.                         *)
LagBounded ==
    \A i \in 1 .. Len(feed) :
        feed[i].kind = "block" => tip[Chain] <= feed[i].h + MaxPending

(* The blocks that wait are counted among the events.                      *)
LEMMA PendingBlocks ==
    ASSUME SwapInv, BlocksListed, NEW i \in 1 .. Len(feed), feed[i].kind = "block"
    PROVE  tip[Chain] - feed[i].h + 1 <= CountKind(feed, "block")
<1>1. feed \in Seq(TrueEvents) /\ TypeInv /\ ChainNumbers
  BY ChainType DEF SwapInv, StatusInv
<1>2. PICK b, n, m : b = feed[i].h /\ n = tip[Chain] /\ m = Len(feed)
  OBVIOUS
<1>3. b \in Nat /\ n \in Nat /\ b <= n /\ m \in Nat /\ DOMAIN feed = 1 .. m
  <2>1. feed[i] \in TrueEvents
    BY <1>1, ElementOfSeq
  <2>2. feed[i].h \in Heights /\ feed[i].h <= tip[Chain]
    BY <2>1 DEF TrueEvents
  <2>3. feed[i].h \in Nat
    BY <2>2, HeightsAreNaturals
  <2> QED BY <1>1, <1>2, <2>2, <2>3, LenProperties DEF ChainNumbers
<1> DEFINE Places == {j \in 1 .. m : feed[j].kind = "block"}
           place == [g \in b .. n |-> CHOOSE j \in 1 .. m : feed[j] = Event("block", g)]
<1>4. \A g \in b .. n : place[g] \in 1 .. m /\ feed[place[g]] = Event("block", g)
  <2> SUFFICES ASSUME NEW g \in b .. n
               PROVE  place[g] \in 1 .. m /\ feed[place[g]] = Event("block", g)
    OBVIOUS
  <2>1. \E j \in 1 .. m : feed[j] = Event("block", g)
    BY <1>2 DEF BlocksListed
  <2> QED BY <2>1
<1>5. \A g : Event("block", g).kind = "block" /\ Event("block", g).h = g
  BY DEF Event
<1>6. place \in [b .. n -> Places]
  BY <1>4, <1>5
<1>7. \A g, k \in b .. n : place[g] = place[k] => g = k
  <2> HIDE DEF place
  <2> QED BY <1>4, <1>5
<1>8. place \in Injection(b .. n, Places)
  <2> HIDE DEF place, Places
  <2> QED BY <1>6, <1>7 DEF Injection, IsInjective
<1>9. IsFiniteSet(Places) /\ Cardinality(Places) \in Nat
  <2>1. IsFiniteSet(1 .. m) /\ Places \in SUBSET (1 .. m)
    BY <1>3, FS_Interval
  <2> HIDE DEF Places
  <2>2. IsFiniteSet(Places)
    BY <2>1, FS_Subset
  <2> QED BY <2>2, FS_CardinalityType
<1>10. Cardinality(b .. n) <= Cardinality(Places)
  <2> HIDE DEF place, Places
  <2> QED BY <1>8, <1>9, FS_Injection
<1>11. Cardinality(b .. n) = n - b + 1
  BY <1>3, FS_Interval
<1>12. CountKind(feed, "block") = Cardinality(Places)
  BY <1>2, <1>3 DEF CountKind
<1> HIDE DEF place, Places
<1> QED BY <1>2, <1>3, <1>9, <1>10, <1>11, <1>12

(* The blocks that wait are a number of them.                              *)
LEMMA WaitingBlocks == TypeInv => CountKind(feed, "block") \in Nat
<1> SUFFICES ASSUME TypeInv PROVE CountKind(feed, "block") \in Nat
  OBVIOUS
<1> DEFINE Places == {j \in DOMAIN feed : feed[j].kind = "block"}
<1>1. DOMAIN feed = 1 .. Len(feed) /\ Len(feed) \in Nat
  BY LenProperties DEF TypeInv, WorldTypeOK, Feeds
<1>2. IsFiniteSet(1 .. Len(feed)) /\ Places \in SUBSET (1 .. Len(feed))
  BY <1>1, FS_Interval
<1> HIDE DEF Places
<1>3. IsFiniteSet(Places)
  BY <1>2, FS_Subset
<1>4. Cardinality(Places) \in Nat
  BY <1>3, FS_CardinalityType
<1> QED BY <1>4 DEF CountKind, Places

(* What a block adds to the feed.                                          *)
LEMMA BlockAdds ==
    ASSUME TypeInv, NewBlock, NEW n, n = tip[Chain] + 1
    PROVE  /\ tip'[Chain] = n
           /\ Len(feed) \in Nat /\ Len(feed') \in Nat /\ Len(feed) <= Len(feed')
           /\ \A i \in 1 .. Len(feed) : feed'[i] = feed[i]
           /\ \A i \in 1 .. Len(feed') : i \in 1 .. Len(feed) \/ feed'[i].h = n
           /\ \E j \in 1 .. Len(feed') : feed'[j] = Event("block", n)
<1>1. PICK S \in SUBSET ContractTxs : \E x : Mines(S, x)
  BY BlockFeed
<1> PICK new : Mines(S, new)
  BY <1>1
<1>2. tip'[Chain] = n
  BY SwapOutAssumption DEF Mines, TypeInv, WorldTypeOK
<1> DEFINE New == {Event(k, n) : k \in S \cup {"block"}}
           Old == [kind : EventKinds, h : Heights]
           All == New \cup Old
<1>3. new \in Seq(New) /\ feed \in Seq(Old) /\ feed' = feed \o new
  BY DEF Mines, TypeInv, WorldTypeOK, Feeds
<1>4. \A e \in New : e.h = n
  BY DEF Event
<1>5. PICK j \in 1 .. Len(new) : new[j] = Event("block", n)
  BY DEF Mines
<1> HIDE DEF New, Old
<1>6. new \in Seq(All) /\ feed \in Seq(All)
  BY <1>3
<1> HIDE DEF All
<1>7. /\ Len(feed) \in Nat /\ Len(new) \in Nat /\ Len(feed') = Len(feed) + Len(new)
      /\ \A i \in 1 .. Len(feed') :
           feed'[i] = IF i <= Len(feed) THEN feed[i] ELSE new[i - Len(feed)]
  BY <1>3, <1>6, ConcatProperties, LenProperties
<1>8. \A i \in 1 .. Len(new) : new[i].h = n
  BY <1>3, <1>4, ElementOfSeq
<1>9. PICK k : k = Len(feed) + j
  OBVIOUS
<1>10. k \in 1 .. Len(feed') /\ feed'[k] = Event("block", n)
  BY <1>5, <1>7, <1>9
<1>11. ASSUME NEW i \in 1 .. Len(feed'), i \notin 1 .. Len(feed) PROVE feed'[i].h = n
  <2>1. PICK l : l = i - Len(feed)
    OBVIOUS
  <2>2. l \in 1 .. Len(new) /\ feed'[i] = new[l]
    BY <1>7, <1>11, <2>1
  <2> QED BY <1>8, <2>2
<1> QED BY <1>2, <1>7, <1>10, <1>11

(* A broadcast adds no block.                                              *)
LEMMA BroadcastAdds ==
    ASSUME TypeInv, NEW t \in ContractTxs, Broadcast(t)
    PROVE  /\ Len(feed) \in Nat /\ Len(feed') \in Nat /\ Len(feed) <= Len(feed')
           /\ \A i \in 1 .. Len(feed) : feed'[i] = feed[i]
           /\ \A i \in 1 .. Len(feed') : i \in 1 .. Len(feed) \/ feed'[i].kind # "block"
<1> DEFINE All == [kind : EventKinds, h : Heights]
<1>1. feed \in Seq(All) /\ Event(t, 0) \in All /\ Event(t, 0).kind # "block"
  BY HeightsAreNaturals
  DEF TypeInv, WorldTypeOK, Feeds, Event, EventKinds, ContractTxs
<1> HIDE DEF All
<1>2. CASE feed' = feed
  BY <1>1, <1>2, LenProperties
<1>3. CASE feed' = Append(feed, Event(t, 0))
  <2>1. /\ Len(feed) \in Nat /\ Len(feed') = Len(feed) + 1
        /\ \A i \in 1 .. Len(feed) : feed'[i] = feed[i]
        /\ feed'[Len(feed) + 1] = Event(t, 0)
    BY <1>1, <1>3, AppendProperties, LenProperties
  <2> QED BY <1>1, <2>1
<1> QED BY <1>2, <1>3 DEF Broadcast

(* The runner keeps up with the blocks: each waits in its turn, and not    *)
(* more of them than the pace of the chain allows.                         *)
LEMMA StepLag ==
    ASSUME SwapInv, HeightsInOrder, BlocksListed, LagBounded, [Next]_vars
    PROVE  BlocksListed' /\ LagBounded'
<1>1. /\ TypeInv /\ OneIntent /\ PaymentBacked /\ feed \in Seq(TrueEvents)
      /\ tip[Chain] \in Nat /\ MaxPending \in Nat
  BY ChainType, SwapOutAssumption DEF SwapInv, StatusInv, ChainNumbers
<1>2. \A i \in 1 .. Len(feed) : feed[i].h \in Nat /\ feed[i].h <= tip[Chain]
  <2> SUFFICES ASSUME NEW i \in 1 .. Len(feed)
               PROVE  feed[i].h \in Nat /\ feed[i].h <= tip[Chain]
    OBVIOUS
  <2>1. feed[i] \in TrueEvents
    BY <1>1, ElementOfSeq
  <2>2. feed[i].h \in Heights /\ feed[i].h <= tip[Chain]
    BY <2>1 DEF TrueEvents
  <2> QED BY <2>2, HeightsAreNaturals
<1>3. CASE CommitEvent /\ tip' = tip
  <2>1. /\ Len(feed) \in Nat /\ Len(feed') = Len(feed) - 1
        /\ \A i \in 1 .. Len(feed') : feed'[i] = feed[i + 1] /\ i + 1 \in 1 .. Len(feed)
    BY <1>1, <1>3, FeedShrunk DEF CommitEvent, TypeInv, HandlerHasEvent
  <2>2. LagBounded'
    BY <1>3, <2>1 DEF LagBounded
  <2>3. ASSUME NEW i \in 1 .. Len(feed'), feed'[i].kind = "block",
               NEW g \in feed'[i].h .. tip[Chain]
        PROVE  \E j \in 1 .. Len(feed') : feed'[j] = Event("block", g)
    <3>1. PICK k : k = i + 1
      OBVIOUS
    <3>2. k \in 2 .. Len(feed) /\ feed'[i] = feed[k]
      BY <2>1, <3>1
    <3>3. PICK j \in 1 .. Len(feed) : feed[j] = Event("block", g)
      BY <2>3, <3>2 DEF BlocksListed
    <3>4. CASE j = 1
      <4>1. g <= feed[k].h
        <5>1. 1 \in 1 .. Len(feed) /\ k \in 1 .. Len(feed) /\ 1 < k
          BY <2>1, <3>2
        <5>2. feed[k].h > 0
          BY <2>3, <3>2, <5>1 DEF BlocksListed
        <5>3. feed[1].h <= feed[k].h
          BY <5>1, <5>2 DEF HeightsInOrder
        <5> QED BY <3>3, <3>4, <5>3 DEF Event
      <4>2. g = feed[k].h
        <5>1. feed[k].h \in Nat
          BY <1>2, <2>1, <3>2
        <5> QED BY <1>1, <2>3, <3>2, <4>1, <5>1
      <4>3. feed[k] = Event("block", g)
        <5>1. feed[k] \in TrueEvents
          BY <1>1, <2>1, <3>2, ElementOfSeq
        <5> QED BY <2>3, <3>2, <4>2, <5>1 DEF TrueEvents, Event
      <4> QED BY <3>2, <4>3
    <3>5. CASE j # 1
      <4>1. PICK l : l = j - 1
        OBVIOUS
      <4>2. l \in 1 .. Len(feed') /\ feed'[l] = feed[j]
        BY <2>1, <3>3, <3>5, <4>1
      <4> QED BY <3>3, <4>2
    <3> QED BY <3>4, <3>5
  <2>4. \A i \in 1 .. Len(feed') : feed'[i].kind = "block" => feed'[i].h > 0
    BY <2>1 DEF BlocksListed
  <2> QED BY <1>3, <2>2, <2>3, <2>4 DEF BlocksListed
<1>4. CASE tip'[Chain] = tip[Chain] /\ feed' = feed
  BY <1>4 DEF BlocksListed, LagBounded
<1>5. ASSUME NEW t \in ContractTxs, Broadcasts(t) PROVE BlocksListed' /\ LagBounded'
  <2>1. /\ tip' = tip /\ Len(feed) \in Nat /\ Len(feed') \in Nat /\ Len(feed) <= Len(feed')
        /\ \A i \in 1 .. Len(feed) : feed'[i] = feed[i] /\ i \in 1 .. Len(feed')
        /\ \A i \in 1 .. Len(feed') : i \in 1 .. Len(feed) \/ feed'[i].kind # "block"
    BY <1>1, <1>5, BroadcastAdds DEF Broadcasts
  <2>2. LagBounded'
    BY <2>1 DEF LagBounded
  <2>3. ASSUME NEW i \in 1 .. Len(feed'), feed'[i].kind = "block"
        PROVE  /\ feed'[i].h > 0
               /\ \A g \in feed'[i].h .. tip[Chain] :
                    \E j \in 1 .. Len(feed') : feed'[j] = Event("block", g)
    <3>1. i \in 1 .. Len(feed) /\ feed'[i] = feed[i]
      BY <2>1, <2>3
    <3>2. feed[i].h > 0
      BY <2>3, <3>1 DEF BlocksListed
    <3>3. ASSUME NEW g \in feed[i].h .. tip[Chain]
          PROVE  \E j \in 1 .. Len(feed') : feed'[j] = Event("block", g)
      <4>1. PICK j \in 1 .. Len(feed) : feed[j] = Event("block", g)
        BY <2>3, <3>1, <3>3 DEF BlocksListed
      <4> QED BY <2>1, <4>1
    <3> QED BY <3>1, <3>2, <3>3
  <2> QED BY <2>1, <2>2, <2>3 DEF BlocksListed
<1>6. CASE NewBlock
  <2>1. PICK n : n = tip[Chain] + 1
    OBVIOUS
  <2>2. /\ tip'[Chain] = n
        /\ Len(feed) \in Nat /\ Len(feed') \in Nat /\ Len(feed) <= Len(feed')
        /\ \A i \in 1 .. Len(feed) : feed'[i] = feed[i] /\ i \in 1 .. Len(feed')
        /\ \A i \in 1 .. Len(feed') : i \in 1 .. Len(feed) \/ feed'[i].h = n
        /\ \E j \in 1 .. Len(feed') : feed'[j] = Event("block", n)
    BY <1>1, <1>6, <2>1, BlockAdds
  <2>3. CountKind(feed, "block") <= MaxPending
    BY <1>6 DEF NewBlock, Unhurried
  <2>4. ASSUME NEW i \in 1 .. Len(feed'), feed'[i].kind = "block"
        PROVE  tip'[Chain] <= feed'[i].h + MaxPending
    <3>1. CASE i \in 1 .. Len(feed)
      <4>1. feed'[i] = feed[i] /\ feed[i].h \in Nat
        BY <1>2, <2>2, <3>1
      <4>2. tip[Chain] - feed[i].h + 1 <= CountKind(feed, "block")
        BY <2>4, <3>1, <4>1, PendingBlocks
      <4>3. CountKind(feed, "block") \in Nat
        BY <1>1, WaitingBlocks
      <4> QED BY <1>1, <2>1, <2>2, <2>3, <4>1, <4>2, <4>3
    <3>2. CASE i \notin 1 .. Len(feed)
      BY <1>1, <2>1, <2>2, <3>2
    <3> QED BY <3>1, <3>2
  <2>5. ASSUME NEW i \in 1 .. Len(feed'), feed'[i].kind = "block"
        PROVE  /\ feed'[i].h > 0
               /\ \A g \in feed'[i].h .. tip'[Chain] :
                    \E j \in 1 .. Len(feed') : feed'[j] = Event("block", g)
    <3>1. CASE i \in 1 .. Len(feed)
      <4>1. feed'[i] = feed[i] /\ feed[i].h \in Nat
        BY <1>2, <2>2, <3>1
      <4>2. feed[i].h > 0
        BY <2>5, <3>1, <4>1 DEF BlocksListed
      <4>3. ASSUME NEW g \in feed[i].h .. n
            PROVE  \E j \in 1 .. Len(feed') : feed'[j] = Event("block", g)
        <5>1. CASE g = n
          BY <2>2, <5>1
        <5>2. CASE g # n
          <6>1. g \in feed[i].h .. tip[Chain]
            BY <1>1, <2>1, <4>1, <4>3, <5>2
          <6>2. PICK j \in 1 .. Len(feed) : feed[j] = Event("block", g)
            BY <2>5, <3>1, <4>1, <6>1 DEF BlocksListed
          <6> QED BY <2>2, <6>2
        <5> QED BY <5>1, <5>2
      <4> QED BY <2>2, <4>1, <4>2, <4>3
    <3>2. CASE i \notin 1 .. Len(feed)
      <4>1. feed'[i].h = n /\ n > 0
        BY <1>1, <2>1, <2>2, <3>2
      <4>2. \A g \in n .. n : g = n
        BY <1>1, <2>1
      <4> QED BY <2>2, <4>1, <4>2
    <3> QED BY <3>1, <3>2
  <2> QED BY <2>4, <2>5 DEF BlocksListed, LagBounded
<1>7. CASE NewBitcoinBlock /\ feed' = feed
  <2>1. tip'[Chain] = tip[Chain]
    BY <1>1, <1>7, SwapOutAssumption DEF NewBitcoinBlock, TypeInv, WorldTypeOK, Chains
  <2> QED BY <1>4, <1>7, <2>1
<1> QED BY <1>1, <1>3, <1>4, <1>5, <1>6, <1>7, FeedSteps

(* The confirmations of a claim, and the server's lag, fit between the     *)
(* contract's timeout and the end of the HTLCs: the block that settles,    *)
(* which is not the claim's own, is handled by then.                       *)
GapCoversLag ==
    CltvGap > MaxPending + (IF RequiredConfirmations > 1
                              THEN RequiredConfirmations - 1 ELSE 1)

(* A payment whose HTLC expires has no claim in time that waits for it.    *)
LEMMA NoClaimWaits ==
    ASSUME ServerResumes, GapCoversLag, FullInv, LagBounded, Chain = "BITCOIN",
           invoice = "ACCEPTED", NEW e \in htlcs, e <= tip[Chain]
    PROVE  onchain["claim"] \notin 1 .. db.timeoutBlockHeight
<1> SUFFICES ASSUME onchain["claim"] \in 1 .. db.timeoutBlockHeight PROVE FALSE
  OBVIOUS
<1>1. /\ TypeInv /\ PaymentBacked /\ ClaimNeedsContract /\ OutcomeFitsMoney
      /\ BlocksFollowed /\ swap \in Entities /\ db \in Entities
  BY DEF FullInv, SwapInv, StatusInv, FollowInv, TypeInv, ProcessTypeOK
<1>2. db.timeoutBlockHeight + CltvGap <= e
  <2>1. onchain["claim"] # Absent
    BY <1>1 DEF Absent, Entities
  <2> QED BY <1>1, <2>1 DEF ClaimNeedsContract, PaymentBacked, Backed
<1>3. PICK b :
        b = onchain["claim"] + (IF RequiredConfirmations > 1
                                  THEN RequiredConfirmations - 1 ELSE 1)
  OBVIOUS
<1>4. /\ b \in Nat /\ b > onchain["claim"] /\ onchain["claim"] > 0
      /\ b >= onchain["claim"] + RequiredConfirmations - 1
      /\ b + MaxPending < tip[Chain] /\ MaxPending \in Nat /\ tip[Chain] \in Nat
  <2>1. db.timeoutBlockHeight \in Int /\ e \in Nat /\ tip[Chain] \in Nat
    BY <1>1, ChainType DEF Entities, TypeInv, WorldTypeOK, ChainNumbers
  <2> QED
    BY <1>2, <1>3, <2>1, SwapOutAssumption, ConfirmationsAssumption DEF GapCoversLag
<1>5. b \in Heights
  BY <1>1, <1>4, SwapOutAssumption DEF Heights, TypeInv, WorldTypeOK, Chains
<1>6. ~Awaits(Event("block", b))
  <2> SUFFICES ASSUME NEW i \in 1 .. Len(feed), feed[i] = Event("block", b)
               PROVE  FALSE
    BY DEF Awaits
  <2>1. feed[i].kind = "block" /\ feed[i].h = b
    BY DEF Event
  <2> QED BY <1>4, <2>1 DEF LagBounded
<1>7. BlockLeaves(b)
  BY <1>1, <1>4, <1>5, <1>6 DEF BlocksFollowed, Handled
<1>8. Past("claim", b)
  BY <1>4 DEF Past
<1> QED BY <1>1, <1>7, <1>8 DEF BlockLeaves, OutcomeFitsMoney

(* The task that cancels an invoice has a reason to.                       *)
CancelHasReason == canceller = "cancel" => swap.outcome \in {"REFUNDED", "ERROR"}

(* The funding is under way or made.                                       *)
Funding == onchain["lock"] # Absent \/ intent \in {"track", "sending", "sent"}

(* An invoice that is cancelled in spite of a contract was refunded, or    *)
(* its HTLC expired without a claim in time.                               *)
ClaimMissed ==
    Chain = "BITCOIN" /\ invoice = "CANCELED" /\ Funding =>
        \/ RefundConfirmed
        \/ /\ \E e \in htlcs : e <= tip[Chain]
           /\ onchain["claim"] \notin 1 .. db.timeoutBlockHeight

LEMMA StepCancelHasReason ==
    ASSUME StepInv, CancelHasReason
    PROVE  CancelHasReason'
<1>1. /\ OutcomeFitsMoney /\ [Next]_vars
      /\ SameView \/ ViewMoved
      /\ swap \in Entities /\ swap.status \in Statuses
  BY FullStep DEF StepInv, Entities
<1>2. ASSUME canceller = "cancel" PROVE swap'.outcome \in {"REFUNDED", "ERROR"}
  BY <1>1, <1>2, ViewStays DEF CancelHasReason, OutcomeFitsMoney, SameView
<1>3. CASE AbortPayment
  BY <1>1, <1>3 DEF AbortPayment, Save, Entities, CancelHasReason
<1>4. CASE ProcessNewBlock /\ canceller' # canceller
  BY <1>1, <1>4
  DEF ProcessNewBlock, BlockExpires, BlockFunds, BlockRefunds, BlockSettles,
      BlockIgnored, Save, Entities, CancelHasReason
<1>5. CASE canceller' \in {canceller, "off"}
  BY <1>2, <1>5 DEF CancelHasReason
<1> QED
  BY <1>1, <1>3, <1>4, <1>5
  DEF Next, ServerStep, WorldStep, vars, server, tasks, Die, PollInvoice, PollReply,
      CheckExpiry, ServeExpiryCancel, FinishExpiry, CreateContract, TrackContract,
      SendCoins, SendReply, CancelInvoice, BroadcastRefund, SettleInvoice,
      HandlerThrows, FinishSwap, ProcessFundingTx, RecordSpendingTx, ApplySpendingTx,
      NobodyListens, CommitEvent, Crash, Restart, Resume, PayInvoice, InvoiceLapses,
      UserClaims, NewBlock, NewBitcoinBlock

(* The steps that cancel the invoice.                                      *)
LEMMA WhoCancels ==
    ASSUME StepInv, invoice # "CANCELED", invoice' = "CANCELED"
    PROVE  /\ UNCHANGED <<onchain, tip, htlcs, db, intent>>
           /\ \/ swap.status = "CREATED"
              \/ canceller = "cancel"
              \/ InvoiceLapses
<1>1. TypeInv /\ TasksFitStatus /\ [Next]_vars /\ LndAnswers
  BY FullStep DEF StepInv
<1>2. CASE CheckExpiry
  BY <1>2 DEF CheckExpiry
<1>3. CASE CancelInvoice
  BY <1>3 DEF CancelInvoice
<1>4. CASE InvoiceLapses
  BY <1>4 DEF InvoiceLapses, server, tasks
<1>5. CASE ServeExpiryCancel
  BY <1>1, <1>5 DEF ServeExpiryCancel, TasksFitStatus
<1> QED
  BY <1>1, <1>2, <1>3, <1>4, <1>5
  DEF Next, ServerStep, WorldStep, vars, world, PollInvoice, PollReply, FinishExpiry,
      CreateContract, TrackContract, SendCoins, SendReply, AbortPayment,
      BroadcastRefund, ProcessNewBlock, SettleInvoice, FinishSwap, ProcessFundingTx,
      RecordSpendingTx, ApplySpendingTx, NobodyListens, CommitEvent, Crash, Restart,
      Resume, PayInvoice, UserClaims, NewBlock, NewBitcoinBlock

(* The timeout that is saved of a funded contract does not change.         *)
LEMMA SavedTimeoutKept ==
    ASSUME StepInv, onchain["lock"] # Absent
    PROVE  db'.timeoutBlockHeight = db.timeoutBlockHeight
<1>1. /\ TypeInv /\ OneIntent /\ PaymentBacked /\ TimeoutKnown /\ [Next]_vars
  BY FullStep DEF StepInv, FollowInv
<1>2. db.timeoutBlockHeight = swap.timeoutBlockHeight
  BY <1>1 DEF TimeoutKnown
<1>3. CASE Die \/ Resume
  BY <1>3 DEF Die, Resume
<1>4. ~CreateContract
  BY <1>1 DEF CreateContract, OneIntent, PaymentBacked
<1> QED BY <1>1, <1>2, <1>3, <1>4, ContractIsKept DEF SameContract

(* The server and LND give the payment up only for a refund, or when there *)
(* is no claim in time any more.                                           *)
LEMMA StepClaimMissed ==
    ASSUME StepInv, GapCoversLag, RefundBacked, LagBounded, CancelHasReason, ClaimMissed
    PROVE  ClaimMissed'
<1>1. /\ TypeInv /\ OneIntent /\ PaymentBacked /\ SwapInv /\ FullInv /\ [Next]_vars
      /\ ClaimNeedsContract /\ OutcomeFitsMoney /\ ChainNumbers /\ ChainNumbers'
      /\ db \in Entities /\ ServerResumes
      /\ tip[Chain] <= tip'[Chain] /\ htlcs \subseteq Nat
  BY FullStep DEF StepInv, SwapInv, StatusInv, TypeInv, WorldTypeOK
<1>2. SwapInv' /\ ClaimNeedsContract'
  BY FullStep DEF StepInv, SwapInv, StatusInv
<1>3. "claim" \in ContractTxs /\ "refund" \in ContractTxs
  BY DEF ContractTxs
<1> SUFFICES ASSUME Chain = "BITCOIN", invoice' = "CANCELED", Funding'
             PROVE  \/ RefundConfirmed'
                    \/ /\ \E e \in htlcs' : e <= tip'[Chain]
                       /\ onchain'["claim"] \notin 1 .. db'.timeoutBlockHeight
  BY DEF ClaimMissed
<1>4. RefundConfirmed => RefundConfirmed'
  BY <1>1, <1>3, ConfirmedStays DEF RefundConfirmed
<1>5. CASE invoice = "CANCELED"
  <2>1. Funding
    <3>1. CASE SendCoins
      BY <3>1 DEF SendCoins, Funding
    <3>2. CASE ~SendCoins
      <4>1. ~(CreateContract /\ ~Die)
        BY <1>5 DEF CreateContract
      <4>2. intent' \in {"track", "sending", "sent"} => intent' = intent \/ intent = "track"
        BY <1>1, <3>2, <4>1, IntentProceeds DEF TrackContract
      <4>3. onchain'["lock"] # Absent => onchain["lock"] # Absent
        BY <1>1, <3>2, OnlySendCoinsFunds
      <4> QED BY <4>2, <4>3 DEF Funding
    <3> QED BY <3>1, <3>2
  <2> SUFFICES ASSUME NEW e \in htlcs, e <= tip[Chain],
                      onchain["claim"] \notin 1 .. db.timeoutBlockHeight
               PROVE  /\ \E f \in htlcs' : f <= tip'[Chain]
                      /\ onchain'["claim"] \notin 1 .. db'.timeoutBlockHeight
    BY <1>4, <1>5, <2>1 DEF ClaimMissed
  <2>2. \E f \in htlcs' : f <= tip'[Chain]
    <3>1. htlcs' = htlcs
      BY <1>1, <1>5, PaymentIsKept
    <3>2. e \in Nat /\ e <= tip'[Chain]
      BY <1>1 DEF ChainNumbers
    <3> QED BY <3>1, <3>2
  <2>3. onchain'["claim"] \notin 1 .. db'.timeoutBlockHeight
    <3>1. CASE onchain["lock"] = Absent
      <4>1. onchain["claim"] = Absent
        BY <1>1, <3>1 DEF ClaimNeedsContract
      <4>2. CASE SendCoins
        BY <1>1, <4>1, <4>2
        DEF SendCoins, Broadcast, Absent, TypeInv, WorldTypeOK, ContractTxs
      <4>3. CASE ~SendCoins
        <5>1. onchain'["claim"] = Absent
          BY <1>1, <1>2, <3>1, <4>3, OnlySendCoinsFunds DEF ClaimNeedsContract
        <5> QED BY <5>1 DEF Absent
      <4> QED BY <4>2, <4>3
    <3>2. CASE onchain["lock"] # Absent
      <4>1. /\ db'.timeoutBlockHeight = db.timeoutBlockHeight
            /\ db.timeoutBlockHeight \in Int /\ CltvGap \in Nat
            /\ db.timeoutBlockHeight + CltvGap <= e
        BY <1>1, <3>2, SavedTimeoutKept, SwapOutAssumption
        DEF PaymentBacked, Backed, Entities
      <4>2. CASE UNCHANGED onchain
        BY <4>1, <4>2
      <4>3. ASSUME NEW t \in ContractTxs, Broadcasts(t)
            PROVE  onchain'["claim"] \notin 1 .. db'.timeoutBlockHeight
        BY <1>1, <4>1, <4>3
        DEF Broadcasts, Broadcast, Mempool, TypeInv, WorldTypeOK, ContractTxs
      <4>4. CASE NewBlock
        <5>1. PICK n : n = tip[Chain] + 1
          OBVIOUS
        <5>2. onchain'["claim"] \in {onchain["claim"], n}
          BY <1>1, <1>3, <4>4, <5>1, MinedAwaits
        <5>3. n > db.timeoutBlockHeight
          BY <1>1, <4>1, <5>1 DEF ChainNumbers
        <5> QED BY <1>1, <4>1, <5>1, <5>2, <5>3 DEF ChainNumbers
      <4> QED BY <1>1, <4>2, <4>3, <4>4, FeedSteps
    <3> QED BY <3>1, <3>2
  <2> QED BY <2>2, <2>3
<1>6. CASE invoice # "CANCELED"
  <2>1. /\ UNCHANGED <<onchain, tip, htlcs, db, intent>>
        /\ \/ swap.status = "CREATED" \/ canceller = "cancel" \/ InvoiceLapses
    BY <1>6, WhoCancels
  <2>2. Funding
    BY <2>1 DEF Funding
  <2>3. swap.status # "CREATED" /\ swap.outcome # "ERROR"
    BY <1>1, <1>6, <2>2, NotFundedYet DEF Funding, OutcomeFitsMoney
  <2>4. CASE canceller = "cancel"
    BY <1>4, <2>3, <2>4 DEF CancelHasReason, RefundBacked
  <2>5. CASE InvoiceLapses
    <3>1. invoice = "ACCEPTED" /\ tip["BITCOIN"] >= getCltvExpiry
      BY <1>1, <2>2, <2>5 DEF InvoiceLapses, PaymentBacked, Funding
    <3>2. getCltvExpiry \in htlcs /\ getCltvExpiry \in Nat
      BY <1>1, <3>1, CltvExpiryIsLeast DEF TypeInv, HtlcsOK
    <3>3. PICK e \in htlcs : e <= tip[Chain]
      BY <1>1, <3>1, <3>2 DEF ChainNumbers
    <3>4. onchain["claim"] \notin 1 .. db.timeoutBlockHeight
      BY <1>1, <3>1, <3>3, NoClaimWaits
    <3> QED BY <2>1, <3>3, <3>4
  <2> QED BY <2>1, <2>3, <2>4, <2>5
<1> QED BY <1>5, <1>6

(* All that is known of the payment.                                       *)
PaidInv ==
    /\ RefundBacked
    /\ BlocksListed /\ LagBounded
    /\ CancelHasReason /\ ClaimMissed

LEMMA PaidSpec ==
    ASSUME LndAnswers, ServerResumes, GapCoversLag
    PROVE  Spec /\ SpendIsApplied => [](FullInv /\ PaidInv)
<1>1. Spec /\ SpendIsApplied => []FullInv
  BY FollowSpec
<1>2. Init => PaidInv
  <2> SUFFICES ASSUME Init PROVE PaidInv
    OBVIOUS
  <2>1. Len(feed) = 0
    BY DEF Init
  <2> QED
    BY <2>1
    DEF Init, NewSwap, PaidInv, RefundBacked, BlocksListed, LagBounded, CancelHasReason,
        ClaimMissed
<1>3. FullInv /\ FullInv' /\ PaidInv /\ [Next]_vars /\ [ev = "spend" => up']_vars => PaidInv'
  <2> SUFFICES ASSUME FullInv, FullInv', PaidInv, [Next]_vars, [ev = "spend" => up']_vars
               PROVE  PaidInv'
    OBVIOUS
  <2>1. CASE UNCHANGED vars
    BY <2>1
    DEF vars, server, tasks, world, PaidInv, RefundBacked, RefundConfirmed, BlocksListed,
        LagBounded, CancelHasReason, ClaimMissed, Funding
  <2>2. CASE ~UNCHANGED vars
    <3>1. StepInv
      BY <2>2 DEF StepInv, FullInv
    <3>2. RefundBacked'
      BY StepRefundBacked DEF FullInv, PaidInv
    <3>3. BlocksListed' /\ LagBounded'
      BY StepLag DEF FullInv, FollowInv, PaidInv
    <3>4. CancelHasReason' /\ ClaimMissed'
      BY <3>1, StepCancelHasReason, StepClaimMissed DEF PaidInv
    <3> QED BY <3>2, <3>3, <3>4 DEF PaidInv
  <2> QED BY <2>1, <2>2
<1> QED BY <1>1, <1>2, <1>3, PTL DEF Spec, SpendIsApplied

(* A claim in time meets neither a confirmed refund nor a lapsed payment.  *)
LEMMA PaidInTime ==
    ASSUME FullInv, PaidInv, Chain = "BITCOIN"
    PROVE  onchain["claim"] \in 1 .. db.timeoutBlockHeight => invoice # "CANCELED"
<1> SUFFICES ASSUME onchain["claim"] \in 1 .. db.timeoutBlockHeight, invoice = "CANCELED"
             PROVE  FALSE
  OBVIOUS
<1>1. /\ ClaimNeedsContract /\ OneMined /\ ChainNumbers /\ ClaimMissed
      /\ db.timeoutBlockHeight \in Int
  BY ChainType
  DEF FullInv, SwapInv, StatusInv, SpendInv, PaidInv, TypeInv, ProcessTypeOK, Entities
<1>2. onchain["claim"] > 0 /\ Funding
  BY <1>1 DEF ClaimNeedsContract, Funding, Absent
<1>3. ~RefundConfirmed
  BY <1>1, <1>2 DEF OneMined, RefundConfirmed, hasEnoughConfirmations, ChainNumbers, ContractTxs
<1> QED BY <1>1, <1>2, <1>3 DEF ClaimMissed

(* A user's claim mined before the contract's timeout is worth the         *)
(* Lightning payment: neither the expiry of its HTLC nor a cancellation by *)
(* the runner comes before the block that settles it                       *)
(* (BLOCKS_BETWEEN_CLTV_AND_SWAP_EXPIRATIONS in                            *)
(* SwapOutRunner.createContract), when that many blocks cover the          *)
(* confirmations and the server's lag.                                     *)
THEOREM SwapOutClaimInTimeIsPaid ==
    ASSUME LndAnswers, ServerResumes, GapCoversLag
    PROVE  Spec /\ SpendIsApplied => []ClaimInTimeIsPaid
<1>1. FullInv /\ PaidInv => ClaimInTimeIsPaid
  BY PaidInTime DEF ClaimInTimeIsPaid
<1> QED BY <1>1, PaidSpec, PTL

(* what-is-a-swap.md's promise, of a swap-out whose contract is on         *)
(* Bitcoin: the two payments both succeed or both fail, under the same     *)
(* conditions; without SpendIsApplied a run of TLC refutes it.             *)
THEOREM SwapOutBothSucceedOrBothFail ==
    ASSUME LndAnswers, ServerResumes, GapCoversLag, Chain = "BITCOIN"
    PROVE  Spec /\ SpendIsApplied => []BothSucceedOrBothFail
<1>1. ASSUME FullInv, PaidInv PROVE BothSucceedOrBothFail
  <2>1. OneMined /\ SettlesForClaim /\ ChainNumbers
    BY <1>1, ChainType DEF FullInv, SwapInv, SpendInv
  <2>2. invoice = "SETTLED" => onchain["refund"] <= Mempool
    BY <2>1
    DEF OneMined, SettlesForClaim, ClaimConfirmed, hasEnoughConfirmations, Mempool,
        ChainNumbers, ContractTxs
  <2>3. onchain["claim"] \in 1 .. db.timeoutBlockHeight => invoice # "CANCELED"
    BY <1>1, PaidInTime
  <2> QED BY <2>2, <2>3 DEF BothSucceedOrBothFail
<1>2. FullInv /\ PaidInv => BothSucceedOrBothFail
  BY <1>1
<1> QED BY <1>2, PaidSpec, PTL

-----------------------------------------------------------------------------
(* Both payments, or neither.                                              *)

(* An instance of Bitcoin on which only the funding may fail, no process   *)
(* stops and nobody is late.                                               *)
Calm ==
    /\ Chain = "BITCOIN" /\ Faults \subseteq {"send_error"} /\ MaxCrashes = 0
    /\ Prompt /\ RequiredConfirmations > 0

(* The blocks after its own that a transaction waits for, at least, before *)
(* a handler of blocks finds it confirmed.                                 *)
BlocksToConfirm == IF RequiredConfirmations > 1 THEN RequiredConfirmations - 1 ELSE 1

(* Twice a confirmation and the server's lag fit between the contract's    *)
(* timeout and the end of the HTLCs: those of the funding, until the       *)
(* refund is broadcast, and those of a claim that competes with it.        *)
GapCoversRefund == CltvGap > 2 * (MaxPending + BlocksToConfirm) + 2

(* The block that spends the contract, at the latest.                      *)
SpentBy == swap.timeoutBlockHeight + BlocksToConfirm + MaxPending + 2

(* An expired contract is about to be spent.                               *)
ExpiryIsRefunded ==
    swap.status = "CONTRACT_EXPIRED" =>
        \/ refunder = "build"
        \/ onchain["refund"] # Absent \/ onchain["claim"] # Absent

(* The contract is funded before its timeout.                              *)
FundedEarly ==
    /\ PaymentPending => tip["BITCOIN"] < getCltvExpiry - CltvGap
    /\ intent \in {"track", "sending", "sent", "failed"} =>
         tip[Chain] < swap.timeoutBlockHeight
    /\ onchain["lock"] # Absent => onchain["lock"] <= swap.timeoutBlockHeight
    /\ onchain["lock"] = Mempool => tip[Chain] < swap.timeoutBlockHeight

(* ... and spent soon after it.                                            *)
SpentInTime ==
    /\ onchain["lock"] # Absent /\ SpentBy <= tip[Chain] =>
         onchain["claim"] > 0 \/ onchain["refund"] > 0
    /\ onchain["claim"] > 0 => onchain["claim"] <= SpentBy

(* The payment is given up for no contract that the user may claim.        *)
LapsedIsRefunded ==
    invoice = "CANCELED" /\ onchain["lock"] # Absent => onchain["refund"] > 0

(* A handler runs in a process, and that of a spend knows the funding.     *)
HandlerRuns ==
    /\ ev # "idle" => up
    /\ ev = "spend" => swap.lockTx

LegsInv ==
    HandlerRuns /\ ExpiryIsRefunded /\ FundedEarly /\ SpentInTime /\ LapsedIsRefunded

(* All that is known of a swap on a calm instance.                         *)
CalmInv == FullInv /\ PaidInv /\ LegsInv

LEMMA CalmMeans ==
    ASSUME Calm
    PROVE  /\ LndAnswers /\ ServerResumes
           /\ Chain = "BITCOIN" /\ "broadcast_error" \notin Faults
           /\ BlocksToConfirm \in Nat /\ BlocksToConfirm > 0
           /\ BlocksToConfirm >= RequiredConfirmations - 1
           /\ RequiredConfirmations \in Nat /\ MaxPending \in Nat /\ CltvGap \in Nat
           /\ LockBlockDelta \in Nat /\ LockBlockDelta > 0
           /\ GapCoversRefund => GapCoversLag
<1>1. RequiredConfirmations \in Nat /\ RequiredConfirmations > 0
  BY ConfirmationsAssumption DEF Calm
<1>2. MaxPending \in Nat /\ CltvGap \in Nat /\ LockBlockDelta \in Nat \ {0}
  BY SwapOutAssumption
<1> QED
  BY <1>1, <1>2
  DEF Calm, LndAnswers, ServerResumes, BlocksToConfirm, GapCoversRefund, GapCoversLag

(* The runner of an expired contract is not interrupted.                   *)
LEMMA StepExpiryIsRefunded ==
    ASSUME Calm, StepInv, ExpiryIsRefunded
    PROVE  ExpiryIsRefunded'
<1> SUFFICES ASSUME swap'.status = "CONTRACT_EXPIRED",
                    onchain["refund"] = Absent, onchain["claim"] = Absent
             PROVE  refunder' = "build" \/ onchain'["refund"] # Absent
  BY FullStep DEF ExpiryIsRefunded, ContractTxs
<1>1. /\ TypeInv /\ OneIntent /\ PaymentBacked /\ OutcomeFitsMoney /\ LockNoticed
      /\ [Next]_vars
      /\ ~Handles => LeavesRecord
      /\ SameView \/ ViewMoved
      /\ swap.status \in Statuses
  BY FullStep DEF StepInv, FollowInv, Entities
<1>2. CASE swap.status # "CONTRACT_EXPIRED"
  <2>1. ~SameView /\ Handles
    BY <1>1, <1>2 DEF SameView, LeavesRecord
  <2>2. ~BlockEffect => swap'.status # "CONTRACT_EXPIRED"
    BY <1>1, <2>1, HandlerWrites
    DEF FundingEffect, SightingEffect, SpendEffect, SettlingEffect, Writes
  <2>3. ProcessNewBlock
    BY <1>1, <2>1, <2>2, FundingWrites, SightingWrites, SpendWrites, SettlingWrites
    DEF Handles, BlockEffect, FundingEffect, SightingEffect, SpendEffect, SettlingEffect,
        Writes, ProcessNewBlock, Dispatch, Spends
  <2> QED
    BY <1>1, <1>2, <2>3
    DEF ProcessNewBlock, BlockExpires, BlockFunds, BlockRefunds, BlockSettles,
        BlockIgnored, Save, TypeInv, ProcessTypeOK, Entities
<1>3. CASE swap.status = "CONTRACT_EXPIRED"
  <2>1. refunder = "build"
    BY <1>3 DEF ExpiryIsRefunded
  <2>2. swap.lockTx /\ onchain["lock"] # Absent /\ intent # "contract" /\ ev # "settle"
    BY <1>1, <1>3 DEF LockNoticed, Locked, OneIntent, PaymentBacked, OutcomeFitsMoney
  <2>3. ~Crash
    BY <1>1 DEF Calm, Crash, TypeInv, ProcessTypeOK
  <2>4. CASE BroadcastRefund
    <3>1. onchain \in [ContractTxs -> {Absent} \cup Heights]
      BY <1>1 DEF TypeInv, WorldTypeOK
    <3> QED
      BY <2>4, <3>1 DEF BroadcastRefund, Broadcast, Calm, Mempool, Absent, ContractTxs
  <2>5. CASE ProcessNewBlock
    BY <1>1, <1>3, <2>1, <2>5, BlockWrites DEF BlockEffect
  <2>6. CASE RecordSpendingTx
    BY <2>1, <2>2, <2>6 DEF RecordSpendingTx, tasks
  <2> QED
    BY <1>1, <2>1, <2>2, <2>3, <2>4, <2>5, <2>6
    DEF Next, ServerStep, WorldStep, vars, server, tasks, PollInvoice, PollReply,
        CheckExpiry, ServeExpiryCancel, FinishExpiry, CreateContract, TrackContract,
        SendCoins, SendReply, AbortPayment, CancelInvoice, SettleInvoice, FinishSwap,
        ProcessFundingTx, ApplySpendingTx, NobodyListens, CommitEvent, Restart, Resume,
        PayInvoice, InvoiceLapses, UserClaims, NewBlock, NewBitcoinBlock
<1> QED BY <1>2, <1>3

(* The process does not stop between the two saves of a spend.             *)
LEMMA CalmAppliesSpends ==
    ASSUME Calm, FullInv, HandlerRuns, [Next]_vars, ev = "spend"
    PROVE  up'
<1>1. /\ TypeInv /\ OneIntent /\ PaymentBacked /\ LockNoticed /\ up /\ swap.lockTx
  BY DEF FullInv, SwapInv, StatusInv, FollowInv, HandlerRuns
<1>2. ~Crash
  BY <1>1 DEF Calm, Crash, TypeInv, ProcessTypeOK
<1>3. intent # "contract"
  BY <1>1 DEF LockNoticed, OneIntent, PaymentBacked
<1> QED
  BY <1>1, <1>2, <1>3
  DEF Calm, Next, ServerStep, WorldStep, vars, server, PollInvoice, PollReply,
      CheckExpiry, ServeExpiryCancel, FinishExpiry, CreateContract, TrackContract,
      SendCoins, SendReply, AbortPayment, CancelInvoice, BroadcastRefund,
      ProcessNewBlock, SettleInvoice, FinishSwap, ProcessFundingTx, RecordSpendingTx,
      Dispatch, ApplySpendingTx, NobodyListens, CommitEvent, Restart, Resume,
      PayInvoice, InvoiceLapses, UserClaims, NewBlock, NewBitcoinBlock

LEMMA StepHandlerRuns ==
    ASSUME StepInv, HandlerRuns
    PROVE  HandlerRuns'
<1>1. TypeInv /\ [Next]_vars /\ (~Handles => LeavesRecord)
  BY FullStep DEF StepInv
<1>2. ev' # "idle" => up'
  BY <1>1
  DEF HandlerRuns, Next, ServerStep, WorldStep, vars, server, tasks, Die, PollInvoice,
      PollReply, CheckExpiry, ServeExpiryCancel, FinishExpiry, CreateContract,
      TrackContract, SendCoins, SendReply, AbortPayment, CancelInvoice,
      BroadcastRefund, ProcessNewBlock, Dispatch, SettleInvoice, HandlerThrows,
      FinishSwap, ProcessFundingTx, RecordSpendingTx, ApplySpendingTx, NobodyListens,
      CommitEvent, Crash, Restart, Resume, PayInvoice, InvoiceLapses, UserClaims,
      NewBlock, NewBitcoinBlock
<1>3. ASSUME ev' = "spend" PROVE swap'.lockTx
  <2>1. CASE ev = "spend"
    BY <2>1, RecordStays DEF HandlerRuns
  <2>2. CASE ev # "spend"
    <3>1. Handles
      BY <1>1, <1>3, <2>2 DEF LeavesRecord
    <3> QED
      BY <1>1, <1>3, <2>2, <3>1, HandlerWrites
      DEF BlockEffect, FundingEffect, SightingEffect, SpendEffect, SettlingEffect,
          SettleInvoice, HandlerThrows, Die
  <2> QED BY <2>1, <2>2
<1> QED BY <1>2, <1>3 DEF HandlerRuns

(* The timeout of a funded contract does not change.                       *)
LEMMA FundedTimeoutKept ==
    ASSUME StepInv, onchain["lock"] # Absent
    PROVE  swap'.timeoutBlockHeight = swap.timeoutBlockHeight
<1>1. TimeoutKnown /\ TimeoutKnown' /\ onchain'["lock"] # Absent
  BY FullStep, StepFollowInv DEF FollowInv, ContractTxs
<1> QED BY <1>1, SavedTimeoutKept DEF TimeoutKnown

(* The steps of a payment that is not funded yet.                          *)
LEMMA IntentComesFrom ==
    ASSUME StepInv
    PROVE  /\ intent' # "off" => intent # "off" \/ (PollReply /\ swap.status = "CREATED")
           /\ intent' \in {"track", "sending", "sent", "failed"} =>
                \/ CreateContract /\ ~Die
                \/ /\ intent \in {"track", "sending", "sent", "failed"}
                   /\ swap'.timeoutBlockHeight = swap.timeoutBlockHeight
<1>1. /\ TypeInv /\ OneIntent /\ TasksFitStatus /\ [Next]_vars
  BY FullStep DEF StepInv
<1>2. intent' # "off" => intent # "off" \/ (PollReply /\ swap.status = "CREATED")
  BY <1>1
  DEF TasksFitStatus, InvoiceStates, OneIntent, Next, ServerStep, WorldStep, vars, server,
      tasks, Die, PollInvoice, PollReply, CheckExpiry, ServeExpiryCancel, FinishExpiry,
      CreateContract, TrackContract, SendCoins, SendReply, AbortPayment, CancelInvoice,
      BroadcastRefund, ProcessNewBlock, SettleInvoice, HandlerThrows, FinishSwap,
      ProcessFundingTx, RecordSpendingTx, ApplySpendingTx, NobodyListens, CommitEvent,
      Crash, Restart, Resume, PayInvoice, InvoiceLapses, UserClaims, NewBlock,
      NewBitcoinBlock
<1>3. ASSUME intent' \in {"track", "sending", "sent", "failed"}, ~(CreateContract /\ ~Die)
      PROVE  /\ intent \in {"track", "sending", "sent", "failed"}
             /\ ~Resume /\ ~Die /\ ~CreateContract
  BY <1>1, <1>3
  DEF OneIntent, Next, ServerStep, WorldStep, vars, server, tasks, Die, PollInvoice,
      PollReply, CheckExpiry, ServeExpiryCancel, FinishExpiry, CreateContract,
      TrackContract, SendCoins, SendReply, AbortPayment, CancelInvoice,
      BroadcastRefund, ProcessNewBlock, SettleInvoice, HandlerThrows, FinishSwap,
      ProcessFundingTx, RecordSpendingTx, ApplySpendingTx, NobodyListens, CommitEvent,
      Crash, Restart, Resume, PayInvoice, InvoiceLapses, UserClaims, NewBlock,
      NewBitcoinBlock
<1> QED BY <1>1, <1>2, <1>3, ContractIsKept DEF SameContract

(* Only a payment makes LND hold one.                                      *)
LEMMA InvoiceSteps ==
    ASSUME TypeInv, [Next]_vars
    PROVE  \/ invoice' = invoice
           \/ PayInvoice
           \/ SettleInvoice /\ invoice = "ACCEPTED" /\ invoice' = "SETTLED"
           \/ invoice \in {"OPEN", "ACCEPTED"} /\ invoice' = "CANCELED"
BY DEF Next, ServerStep, WorldStep, vars, world, CancelServed, TypeInv, WorldTypeOK,
      InvoiceStates, PollInvoice, PollReply, CheckExpiry, ServeExpiryCancel,
      FinishExpiry, CreateContract, TrackContract, SendCoins, SendReply, AbortPayment,
      CancelInvoice, BroadcastRefund, ProcessNewBlock, SettleInvoice, FinishSwap,
      ProcessFundingTx, RecordSpendingTx, ApplySpendingTx, NobodyListens,
      CommitEvent, Crash, Restart, Resume, InvoiceLapses, UserClaims, NewBlock,
      NewBitcoinBlock

LEMMA CltvExpiryIsHeld == HtlcsOK => htlcs = {} \/ getCltvExpiry \in htlcs
BY CltvExpiryIsLeast

(* The server pays no later than it may.                                   *)
LEMMA StepFundedEarly ==
    ASSUME Calm, StepInv, FundedEarly
    PROVE  FundedEarly'
<1>1. /\ TypeInv /\ OneIntent /\ PaymentBacked /\ SavedAsIs /\ SavedAsIs' /\ [Next]_vars
      /\ SameView \/ ViewMoved
      /\ swap.status \in Statuses /\ swap.timeoutBlockHeight \in Int
      /\ HtlcsOK' /\ HtlcsOK
  BY FullStep DEF StepInv, Entities, TypeInv
<1>2. /\ Chain = "BITCOIN" /\ Prompt /\ CltvGap \in Nat
      /\ LockBlockDelta \in Nat /\ LockBlockDelta > 0
      /\ tip \in [Chains -> Nat] /\ tip["BITCOIN"] \in Nat
      /\ onchain \in [ContractTxs -> {Absent} \cup Heights]
      /\ onchain["lock"] \in Int
  BY <1>1, CalmMeans, FullStep
  DEF Calm, TypeInv, WorldTypeOK, Chains, ChainNumbers, ContractTxs
<1>3. CASE NewBlock
  <2>1. PICK S \in SUBSET ContractTxs :
          /\ Minable(S) /\ Mined(S)
          /\ tip' = [tip EXCEPT !["BITCOIN"] = tip["BITCOIN"] + 1]
          /\ onchain' = [t \in ContractTxs |->
                           IF t \in S THEN tip["BITCOIN"] + 1 ELSE onchain[t]]
    BY <1>2, <1>3 DEF NewBlock
  <2>2. /\ tip'["BITCOIN"] = tip["BITCOIN"] + 1
        /\ UNCHANGED <<swap, db, intent, invoice, htlcs>>
        /\ onchain'["lock"] = IF "lock" \in S THEN tip["BITCOIN"] + 1 ELSE onchain["lock"]
    BY <1>2, <1>3, <2>1 DEF NewBlock, server, tasks, Chains, ContractTxs
  <2>3. PaymentInTime
    BY <1>3 DEF NewBlock
  <2>4. /\ "lock" \in S => onchain["lock"] = Mempool
        /\ onchain["lock"] = Mempool => "lock" \in S
    BY <1>2, <2>1 DEF Minable, Mined, ContractTxs
  <2>5. onchain'["lock"] # Mempool
    BY <1>2, <2>2, <2>4 DEF Mempool
  <2>6. onchain'["lock"] # Absent => onchain'["lock"] <= swap'.timeoutBlockHeight
    BY <1>1, <1>2, <2>2, <2>4 DEF FundedEarly, Mempool, Absent
  <2>7. PaymentPending' => tip'["BITCOIN"] < (getCltvExpiry - CltvGap)'
    BY <2>2, <2>3 DEF PaymentInTime, PaymentPending, getCltvExpiry
  <2>8. intent' \in {"track", "sending", "sent", "failed"} =>
          tip'[Chain] < swap'.timeoutBlockHeight
    BY <1>2, <2>2, <2>3 DEF PaymentInTime
  <2> QED BY <2>5, <2>6, <2>7, <2>8 DEF FundedEarly
<1>4. CASE ~NewBlock
  <2>1. tip' = tip
    BY <1>1, <1>2, <1>4, FeedSteps DEF NewBitcoinBlock, Broadcasts
  <2>2. ASSUME PaymentPending' PROVE tip'["BITCOIN"] < (getCltvExpiry - CltvGap)'
    <3>1. CASE PayInvoice
      <4>1. htlcs' # {} /\ \A e \in htlcs' : e >= tip["BITCOIN"] + LockBlockDelta + CltvGap
        BY <1>2, <3>1 DEF PayInvoice
      <4>2. getCltvExpiry' \in htlcs'
        <5>1. HtlcsOK'
          BY <1>1
        <5>2. (htlcs = {} \/ getCltvExpiry \in htlcs)'
          BY <5>1, CltvExpiryIsHeld, PTL
        <5> QED BY <4>1, <5>2
      <4>3. getCltvExpiry' >= tip["BITCOIN"] + LockBlockDelta + CltvGap
        BY <4>1, <4>2
      <4>4. getCltvExpiry' \in Nat
        BY <1>1, <4>2, FullStep DEF TypeInv, WorldTypeOK
      <4> QED BY <1>2, <2>1, <4>3, <4>4
    <3>2. CASE ~PayInvoice
      <4>1. invoice = "ACCEPTED"
        BY <1>1, <2>2, <3>2, InvoiceSteps DEF PaymentPending
      <4>2. htlcs' = htlcs
        BY <1>1, <4>1, PaymentIsKept
      <4>3. db'.status = "CREATED" => db.status = "CREATED"
        BY <1>1, ViewStays DEF SavedAsIs
      <4>4. intent' # "off" => intent # "off" \/ db.status = "CREATED"
        BY <1>1, IntentComesFrom DEF SavedAsIs
      <4>5. PaymentPending
        BY <2>2, <4>1, <4>3, <4>4 DEF PaymentPending
      <4> QED BY <2>1, <4>2, <4>5 DEF FundedEarly, getCltvExpiry
    <3> QED BY <3>1, <3>2
  <2>3. ASSUME intent' \in {"track", "sending", "sent", "failed"}
        PROVE  tip'[Chain] < swap'.timeoutBlockHeight
    <3>1. CASE CreateContract /\ ~Die
      <4>1. /\ PaymentPending /\ HtlcsOK /\ htlcs # {}
            /\ swap' = [swap EXCEPT !.contract = TRUE,
                                    !.timeoutBlockHeight = contractTimeout]
        BY <1>1, <1>2, <3>1 DEF CreateContract, PaymentPending, HtlcsOK
      <4>2. swap'.timeoutBlockHeight = getCltvExpiry - CltvGap
        BY <1>2, <4>1, FullStep DEF contractTimeout, Entities
      <4> QED BY <1>2, <2>1, <4>1, <4>2 DEF FundedEarly
    <3>2. CASE ~(CreateContract /\ ~Die)
      BY <2>1, <2>3, <3>2, IntentComesFrom DEF FundedEarly
    <3> QED BY <3>1, <3>2
  <2>4. CASE onchain["lock"] # Absent
    <3>1. onchain'["lock"] = onchain["lock"]
      <4>1. ASSUME NEW t \in ContractTxs, Broadcasts(t)
            PROVE  onchain'["lock"] = onchain["lock"]
        BY <1>2, <2>4, <4>1, HeightsAreNaturals
        DEF Broadcasts, Broadcast, ContractTxs, Mempool, Absent
      <4> QED BY <1>1, <1>4, <4>1, FeedSteps
    <3>2. swap'.timeoutBlockHeight = swap.timeoutBlockHeight
      BY <2>4, FundedTimeoutKept
    <3> QED BY <2>1, <2>2, <2>3, <2>4, <3>1, <3>2 DEF FundedEarly
  <2>5. CASE onchain["lock"] = Absent
    <3>1. CASE SendCoins
      <4>1. onchain'["lock"] = Mempool /\ swap' = swap /\ tip["BITCOIN"] < swap.timeoutBlockHeight
        BY <1>2, <3>1 DEF SendCoins, Broadcast, ContractTxs, FundedEarly
      <4> QED BY <1>1, <1>2, <2>1, <2>2, <2>3, <4>1 DEF FundedEarly, Mempool
    <3>2. CASE ~SendCoins
      <4>1. onchain'["lock"] = Absent
        BY <1>1, <2>5, <3>2, OnlySendCoinsFunds
      <4> QED BY <2>2, <2>3, <4>1 DEF FundedEarly, Mempool, Absent
    <3> QED BY <3>1, <3>2
  <2> QED BY <2>4, <2>5
<1> QED BY <1>3, <1>4

(* When a contract is not spent by its time, a spend waits to be mined.    *)
LEMMA SpendWaits ==
    ASSUME Calm, FullInv, PaidInv, LegsInv, Unhurried,
           onchain["lock"] # Absent, onchain["claim"] <= 0, onchain["refund"] <= 0,
           SpentBy <= tip[Chain] + 1
    PROVE  onchain["claim"] # Absent \/ onchain["refund"] # Absent
<1>1. /\ TypeInv /\ OneIntent /\ OutcomeFitsMoney /\ RevealedByClaim /\ RecordedSpend
      /\ SettlesForClaim /\ BlocksFollowed /\ LockNoticed /\ SpendFollowed
      /\ RefundFollowsExpiry /\ RefundBacked /\ BlocksListed /\ LagBounded
      /\ FundedEarly /\ ExpiryIsRefunded /\ SwapInv
      /\ swap \in Entities
  BY DEF FullInv, SwapInv, StatusInv, SpendInv, FollowInv, PaidInv, LegsInv, TypeInv,
         ProcessTypeOK
<1>2. /\ BlocksToConfirm \in Nat /\ BlocksToConfirm > 0
      /\ BlocksToConfirm >= RequiredConfirmations - 1
      /\ RequiredConfirmations \in Nat /\ MaxPending \in Nat
      /\ tip[Chain] \in Nat /\ onchain["lock"] \in Int
      /\ onchain["claim"] \in Int /\ onchain["refund"] \in Int
      /\ swap.timeoutBlockHeight \in Int
  BY <1>1, CalmMeans, ChainType DEF ChainNumbers, ContractTxs, Entities
<1>3. onchain["lock"] > 0 /\ onchain["lock"] <= swap.timeoutBlockHeight
  <2>1. onchain["lock"] \in {Absent} \cup Heights
    BY <1>1 DEF TypeInv, WorldTypeOK, ContractTxs
  <2>2. onchain["lock"] \in Nat
    BY <2>1, HeightsAreNaturals
  <2>3. onchain["lock"] # Mempool
    BY <1>1, <1>2 DEF FundedEarly, SpentBy
  <2> QED BY <1>1, <2>2, <2>3 DEF FundedEarly, Mempool
<1>4. PICK b : b = swap.timeoutBlockHeight + BlocksToConfirm + 1
  OBVIOUS
<1>5. b \in Nat /\ b + MaxPending <= tip[Chain] /\ b <= tip[Chain] /\ b - 1 \in Int
  BY <1>2, <1>3, <1>4 DEF SpentBy
<1>6. b \in Heights
  BY <1>1, <1>2, <1>5, SwapOutAssumption DEF Heights, TypeInv, WorldTypeOK, Chains
<1>7. ~Awaits(Event("block", b))
  <2> SUFFICES ASSUME NEW i \in 1 .. Len(feed), feed[i] = Event("block", b)
               PROVE  FALSE
    BY DEF Awaits
  <2>1. feed[i].kind = "block" /\ feed[i].h = b
    BY DEF Event
  <2>2. tip[Chain] - b + 1 <= CountKind(feed, "block")
    BY <1>1, <2>1, PendingBlocks
  <2>3. CountKind(feed, "block") \in Nat /\ CountKind(feed, "block") <= MaxPending
    BY <1>1, WaitingBlocks DEF Unhurried
  <2> QED BY <1>2, <1>5, <2>2, <2>3
<1>8. BlockLeaves(b)
  BY <1>1, <1>5, <1>6, <1>7 DEF BlocksFollowed, Handled
<1>9. Past("lock", b) /\ Past("lock", b - 1) /\ swap.timeoutBlockHeight <= b
  BY <1>2, <1>3, <1>4 DEF Past
<1>10. swap.unlockTxHeight = 0
  <2>1. ~(swap.unlockTxHeight > 0)
    BY <1>1, <1>2 DEF RecordedSpend, Spends
  <2>2. swap.unlockTxHeight \in Nat
    BY <1>1, HeightsAreNaturals DEF Entities
  <2> QED BY <2>1, <2>2
<1>11. swap.status \notin {"CREATED", "INVOICE_PAYMENT_INTENT_RECEIVED",
                           "CONTRACT_FUNDED_UNCONFIRMED", "CONTRACT_FUNDED"}
  BY <1>8, <1>9, <1>10, LockKnown DEF BlockLeaves
<1>12. swap.status # "DONE"
  <2>1. invoice # "SETTLED"
    BY <1>1, <1>2 DEF SettlesForClaim, ClaimConfirmed, hasEnoughConfirmations
  <2>2. ~RefundConfirmed
    BY <1>2 DEF RefundConfirmed, hasEnoughConfirmations
  <2>3. swap.outcome \notin {"SUCCESS", "REFUNDED", "EXPIRED", "ERROR"}
    BY <1>1, <2>1, <2>2, LockKnown DEF OutcomeFitsMoney, RefundBacked
  <2> QED BY <1>1, <2>3 DEF OutcomeFitsMoney, Entities, Outcomes
<1>13. CASE swap.status = "CONTRACT_EXPIRED"
  BY <1>1, <1>13 DEF ExpiryIsRefunded, Unhurried, Calm
<1>14. CASE swap.status = "CONTRACT_CLAIMED_UNCONFIRMED"
  BY <1>1, <1>14 DEF SpendFollowed, RevealedByClaim
<1>15. CASE swap.status = "CONTRACT_REFUNDED_UNCONFIRMED"
  BY <1>1, <1>15 DEF RefundFollowsExpiry
<1> QED BY <1>1, <1>11, <1>12, <1>13, <1>14, <1>15 DEF Entities, Statuses

(* ... and the block mines one.                                            *)
LEMMA StepSpentInTime ==
    ASSUME Calm, StepInv, PaidInv, LegsInv, FundedEarly'
    PROVE  SpentInTime'
<1>1. /\ TypeInv /\ OneIntent /\ PaymentBacked /\ FullInv /\ [Next]_vars
      /\ ChainNumbers /\ ChainNumbers'
      /\ SpentInTime /\ ClaimNeedsContract /\ Chain = "BITCOIN" /\ Prompt
      /\ onchain \in [ContractTxs -> {Absent} \cup Heights]
      /\ swap.timeoutBlockHeight \in Int /\ swap'.timeoutBlockHeight \in Int
      /\ BlocksToConfirm \in Nat /\ MaxPending \in Nat
  BY FullStep, CalmMeans
  DEF StepInv, LegsInv, Calm, SwapInv, StatusInv, TypeInv, WorldTypeOK, Entities
<1>2. /\ tip[Chain] \in Nat /\ tip'[Chain] \in Nat
      /\ \A t \in ContractTxs : onchain[t] \in Int /\ onchain'[t] \in Int
      /\ \A t \in ContractTxs : onchain[t] > 0 => onchain'[t] = onchain[t]
      /\ "lock" \in ContractTxs /\ "claim" \in ContractTxs /\ "refund" \in ContractTxs
  BY <1>1, FullStep DEF ChainNumbers, ContractTxs
<1>3. onchain["lock"] # Absent => SpentBy' = SpentBy
  BY FundedTimeoutKept DEF SpentBy
<1>4. CASE NewBlock
  <2>1. PICK S \in SUBSET ContractTxs :
          /\ Minable(S) /\ Mined(S)
          /\ tip' = [tip EXCEPT ![Chain] = tip[Chain] + 1]
          /\ onchain' = [t \in ContractTxs |->
                           IF t \in S THEN tip[Chain] + 1 ELSE onchain[t]]
    BY <1>4 DEF NewBlock
  <2>2. /\ tip'[Chain] = tip[Chain] + 1
        /\ \A t \in ContractTxs :
             onchain'[t] = IF t \in S THEN tip[Chain] + 1 ELSE onchain[t]
        /\ \A t \in S : onchain[t] = Mempool
    BY <1>1, <2>1, SwapOutAssumption DEF TypeInv, WorldTypeOK, Minable
  <2>3. onchain'["lock"] # Absent => onchain["lock"] # Absent
    BY <1>2, <2>2 DEF Mempool, Absent
  <2>4. ASSUME onchain'["lock"] # Absent, SpentBy' <= tip'[Chain]
        PROVE  onchain'["claim"] > 0 \/ onchain'["refund"] > 0
    <3>1. CASE onchain["claim"] > 0 \/ onchain["refund"] > 0
      BY <1>2, <3>1
    <3>2. CASE onchain["claim"] <= 0 /\ onchain["refund"] <= 0
      <4>1. onchain["claim"] # Absent \/ onchain["refund"] # Absent
        <5>1. SpentBy <= tip[Chain] + 1 /\ onchain["lock"] # Absent /\ Unhurried
          BY <1>3, <1>4, <2>2, <2>3, <2>4 DEF NewBlock
        <5> QED BY <1>1, <3>2, <5>1, SpendWaits
      <4>2. \A t \in {"claim", "refund"} :
              onchain[t] # Absent => onchain[t] = Mempool
        BY <1>1, <1>2, <3>2, HeightsAreNaturals DEF Mempool, ContractTxs
      <4>3. "claim" \in S \/ "refund" \in S
        <5>1. PICK t \in {"claim", "refund"} : onchain[t] = Mempool
          BY <4>1, <4>2
        <5>2. ASSUME t \notin S PROVE \E u \in ContractTxs \ {"lock", t} :
                                         onchain[u] > Mempool \/ u \in S
          BY <1>1, <2>1, <5>1, <5>2 DEF Mined, ContractTxs
        <5>3. \A u \in {"claim", "refund"} : ~(onchain[u] > Mempool)
          BY <1>2, <3>2 DEF Mempool
        <5> QED BY <5>2, <5>3 DEF ContractTxs
      <4> QED BY <1>2, <2>2, <4>3
    <3> QED BY <1>2, <3>1, <3>2
  <2>5. ASSUME onchain'["claim"] > 0 PROVE onchain'["claim"] <= SpentBy'
    <3>1. onchain["claim"] # Absent /\ onchain["lock"] # Absent /\ SpentBy' = SpentBy
      BY <1>1, <1>2, <1>3, <2>2, <2>5 DEF ClaimNeedsContract, Mempool, Absent
    <3>2. CASE "claim" \notin S
      BY <1>1, <1>2, <2>2, <2>5, <3>1, <3>2 DEF SpentInTime
    <3>3. CASE "claim" \in S
      <4>1. onchain["claim"] = Mempool /\ onchain["refund"] <= Mempool
        BY <2>1, <3>3 DEF Minable
      <4>2. ~(SpentBy <= tip[Chain])
        BY <1>1, <1>2, <3>1, <4>1 DEF SpentInTime, Mempool
      <4>3. SpentBy \in Int
        BY <1>1 DEF SpentBy
      <4> QED BY <1>2, <2>2, <3>1, <3>3, <4>2, <4>3
    <3> QED BY <3>2, <3>3
  <2> QED BY <2>4, <2>5 DEF SpentInTime
<1>5. CASE ~NewBlock
  <2>1. tip' = tip
    BY <1>1, <1>5, FeedSteps DEF NewBitcoinBlock, Broadcasts
  <2>2. \A t \in ContractTxs : onchain'[t] = onchain[t] \/ onchain'[t] = Mempool
    <3>1. ASSUME NEW t \in ContractTxs, Broadcasts(t)
          PROVE  \A u \in ContractTxs : onchain'[u] = onchain[u] \/ onchain'[u] = Mempool
      BY <1>1, <3>1 DEF Broadcasts, Broadcast
    <3> QED BY <1>1, <1>5, <3>1, FeedSteps
  <2>3. ASSUME onchain'["lock"] # Absent, SpentBy' <= tip'[Chain]
        PROVE  onchain'["claim"] > 0 \/ onchain'["refund"] > 0
    <3>1. CASE onchain["lock"] # Absent
      BY <1>1, <1>2, <1>3, <2>1, <2>3, <3>1 DEF SpentInTime
    <3>2. CASE onchain["lock"] = Absent
      <4>1. tip'[Chain] < swap'.timeoutBlockHeight
        BY <1>2, <2>2, <2>3, <3>2 DEF FundedEarly
      <4> QED BY <1>1, <1>2, <2>3, <4>1 DEF SpentBy
    <3> QED BY <3>1, <3>2
  <2>4. ASSUME onchain'["claim"] > 0 PROVE onchain'["claim"] <= SpentBy'
    <3>1. onchain'["claim"] = onchain["claim"]
      BY <1>2, <2>2, <2>4 DEF Mempool
    <3>2. onchain["lock"] # Absent
      BY <1>1, <2>4, <3>1 DEF ClaimNeedsContract, Absent
    <3> QED BY <1>1, <1>3, <2>4, <3>1, <3>2 DEF SpentInTime
  <2> QED BY <2>3, <2>4 DEF SpentInTime
<1> QED BY <1>4, <1>5

(* A claim that waits for its settlement is a recent one.                  *)
LEMMA ClaimIsSettled ==
    ASSUME Calm, FullInv, LagBounded, invoice = "ACCEPTED", onchain["claim"] > 0
    PROVE  tip[Chain] <= onchain["claim"] + BlocksToConfirm + MaxPending
<1> SUFFICES ASSUME tip[Chain] > onchain["claim"] + BlocksToConfirm + MaxPending
             PROVE  FALSE
  <2>1. /\ tip[Chain] \in Int /\ onchain["claim"] \in Int
        /\ BlocksToConfirm \in Int /\ MaxPending \in Int
    BY CalmMeans, ChainType DEF FullInv, SwapInv, ChainNumbers, ContractTxs
  <2> QED BY <2>1
<1>1. TypeInv /\ OutcomeFitsMoney /\ BlocksFollowed
  BY DEF FullInv, SwapInv, StatusInv, FollowInv
<1>2. PICK b : b = onchain["claim"] + BlocksToConfirm
  OBVIOUS
<1>3. /\ b \in Nat /\ b > onchain["claim"] /\ b >= onchain["claim"] + RequiredConfirmations - 1
      /\ b + MaxPending < tip[Chain] /\ b <= tip[Chain]
  <2>1. tip[Chain] \in Nat /\ onchain["claim"] \in Int
    BY <1>1, ChainType DEF ChainNumbers, ContractTxs
  <2> QED BY <1>2, <2>1, CalmMeans
<1>4. b \in Heights
  BY <1>1, <1>3, SwapOutAssumption DEF Heights, TypeInv, WorldTypeOK, Chains
<1>5. ~Awaits(Event("block", b))
  <2> SUFFICES ASSUME NEW i \in 1 .. Len(feed), feed[i] = Event("block", b)
               PROVE  FALSE
    BY DEF Awaits
  <2>1. feed[i].kind = "block" /\ feed[i].h = b
    BY DEF Event
  <2>2. tip[Chain] \in Nat /\ MaxPending \in Nat
    BY <1>1, ChainType, CalmMeans DEF ChainNumbers
  <2> QED BY <1>3, <2>1, <2>2 DEF LagBounded
<1>6. BlockLeaves(b) /\ Past("claim", b)
  BY <1>1, <1>3, <1>4, <1>5 DEF BlocksFollowed, Handled, Past
<1> QED BY <1>1, <1>6 DEF BlockLeaves, OutcomeFitsMoney

(* The server funds the contract of a payment that is held.                *)
LEMMA HeldWhenSent ==
    ASSUME Calm, FullInv, PaidInv, LegsInv, intent = "sending"
    PROVE  invoice = "ACCEPTED" /\ \A t \in ContractTxs : onchain[t] = Absent
<1>1. /\ TypeInv /\ OneIntent /\ PaymentBacked /\ TasksFitStatus /\ OutcomeFitsMoney
      /\ ClaimNeedsContract /\ RefundFollowsExpiry /\ ClaimMissed /\ FundedEarly
      /\ SwapInv /\ ChainNumbers
      /\ swap \in Entities /\ invoice \in InvoiceStates /\ htlcs \subseteq Nat
  BY ChainType
  DEF FullInv, SwapInv, StatusInv, FollowInv, PaidInv, LegsInv, TypeInv, ProcessTypeOK,
      WorldTypeOK
<1>2. onchain["lock"] = Absent /\ invoice # "SETTLED" /\ onchain["claim"] = Absent
  BY <1>1, NotFundedYet DEF OneIntent, ClaimNeedsContract
<1>3. onchain["refund"] = Absent
  <2>1. swap.status = "INVOICE_PAYMENT_INTENT_RECEIVED" /\ swap.outcome = "NONE"
    BY <1>1 DEF TasksFitStatus, OutcomeFitsMoney
  <2> QED BY <1>1, <2>1 DEF RefundFollowsExpiry
<1>4. invoice # "CANCELED"
  <2>1. ~RefundConfirmed
    BY <1>3 DEF RefundConfirmed, hasEnoughConfirmations, Absent
  <2>2. ASSUME NEW e \in htlcs PROVE ~(e <= tip[Chain])
    <3>1. swap.timeoutBlockHeight + CltvGap <= e /\ tip[Chain] < swap.timeoutBlockHeight
      BY <1>1, CalmMeans DEF PaymentBacked, Backed, FundedEarly
    <3> QED BY <1>1, <3>1, CalmMeans DEF ChainNumbers, Entities
  <2> QED BY <1>1, <2>1, <2>2, CalmMeans DEF ClaimMissed, Funding
<1>5. invoice # "OPEN"
  BY <1>1 DEF PaymentBacked
<1> QED BY <1>1, <1>2, <1>3, <1>4, <1>5 DEF InvoiceStates, ContractTxs

(* LND gives up an expired payment after the contract was refunded.        *)
LEMMA LapsesRefunded ==
    ASSUME Calm, GapCoversRefund, FullInv, PaidInv, LegsInv,
           invoice = "ACCEPTED", tip["BITCOIN"] >= getCltvExpiry, onchain["lock"] # Absent
    PROVE  onchain["refund"] > 0
<1>1. /\ TypeInv /\ PaymentBacked /\ SpentInTime /\ LagBounded /\ ChainNumbers
      /\ swap \in Entities
  BY ChainType
  DEF FullInv, SwapInv, PaidInv, LegsInv, TypeInv, ProcessTypeOK
<1>2. getCltvExpiry \in htlcs /\ getCltvExpiry \in Nat
  BY <1>1, CltvExpiryIsLeast DEF TypeInv, HtlcsOK
<1>3. /\ swap.timeoutBlockHeight + CltvGap <= getCltvExpiry
      /\ tip[Chain] >= getCltvExpiry
  BY <1>1, <1>2, CalmMeans DEF PaymentBacked, Backed
<1>4. /\ swap.timeoutBlockHeight \in Int /\ tip[Chain] \in Nat
      /\ onchain["claim"] \in Int
      /\ BlocksToConfirm \in Nat /\ MaxPending \in Nat /\ CltvGap \in Nat
  BY <1>1, CalmMeans DEF ChainNumbers, ContractTxs, Entities
<1>5. SpentBy + BlocksToConfirm + MaxPending < tip[Chain] /\ SpentBy \in Int
  BY <1>2, <1>3, <1>4 DEF SpentBy, GapCoversRefund
<1>6. onchain["claim"] > 0 \/ onchain["refund"] > 0
  BY <1>1, <1>4, <1>5 DEF SpentInTime
<1>7. ~(onchain["claim"] > 0)
  <2> SUFFICES ASSUME onchain["claim"] > 0 PROVE FALSE
    OBVIOUS
  <2>1. onchain["claim"] <= SpentBy
    BY <1>1 DEF SpentInTime
  <2>2. tip[Chain] <= onchain["claim"] + BlocksToConfirm + MaxPending
    BY <1>1, ClaimIsSettled
  <2> QED BY <1>4, <1>5, <2>1, <2>2
<1> QED BY <1>6, <1>7

LEMMA StepLapsedIsRefunded ==
    ASSUME Calm, GapCoversRefund, StepInv, PaidInv, LegsInv
    PROVE  LapsedIsRefunded'
<1> SUFFICES ASSUME invoice' = "CANCELED", onchain'["lock"] # Absent
             PROVE  onchain'["refund"] > 0
  BY DEF LapsedIsRefunded
<1>1. /\ TypeInv /\ OneIntent /\ PaymentBacked /\ FullInv /\ [Next]_vars
      /\ LapsedIsRefunded /\ CancelHasReason /\ RefundBacked
      /\ onchain["refund"] > 0 => onchain'["refund"] = onchain["refund"]
      /\ onchain["refund"] \in Int
  BY FullStep DEF StepInv, LegsInv, PaidInv, ContractTxs, ChainNumbers
<1>2. CASE invoice = "CANCELED"
  <2>1. CASE SendCoins
    BY <1>1, <1>2, <2>1, HeldWhenSent DEF SendCoins
  <2>2. CASE ~SendCoins
    <3>1. onchain["lock"] # Absent
      BY <1>1, <2>2, OnlySendCoinsFunds
    <3> QED BY <1>1, <1>2, <3>1 DEF LapsedIsRefunded
  <2> QED BY <2>1, <2>2
<1>3. CASE invoice # "CANCELED"
  <2>1. /\ UNCHANGED onchain /\ onchain["lock"] # Absent
        /\ \/ swap.status = "CREATED" \/ canceller = "cancel" \/ InvoiceLapses
    BY <1>3, WhoCancels
  <2>2. CASE swap.status = "CREATED"
    BY <1>1, <2>1, <2>2, LockKnown
  <2>3. CASE canceller = "cancel"
    <3>1. RefundConfirmed
      BY <1>1, <2>1, <2>3, LockKnown DEF CancelHasReason, RefundBacked
    <3> QED BY <2>1, <3>1 DEF RefundConfirmed, hasEnoughConfirmations
  <2>4. CASE InvoiceLapses
    <3>1. invoice = "ACCEPTED" /\ tip["BITCOIN"] >= getCltvExpiry
      BY <1>1, <2>1, <2>4 DEF InvoiceLapses, PaymentBacked
    <3> QED BY <1>1, <2>1, <3>1, LapsesRefunded
  <2> QED BY <2>1, <2>2, <2>3, <2>4
<1> QED BY <1>2, <1>3

(* Every step of a calm instance keeps what is known of it.                *)
LEMMA StepCalmInv ==
    ASSUME Calm, GapCoversRefund, CalmInv, [Next]_vars
    PROVE  StepInv /\ CalmInv'
<1>1. /\ FullInv /\ PaidInv /\ LegsInv /\ SwapInv /\ SpendInv
      /\ TypeInv /\ OneIntent /\ PaymentBacked /\ HeightsInOrder
      /\ RefundBacked /\ BlocksListed /\ LagBounded /\ CancelHasReason /\ ClaimMissed
      /\ HandlerRuns /\ ExpiryIsRefunded /\ FundedEarly
  BY DEF CalmInv, FullInv, SwapInv, FollowInv, PaidInv, LegsInv
<1>2. LndAnswers /\ ServerResumes /\ GapCoversLag
  BY CalmMeans
<1>3. ev = "spend" => up'
  BY <1>1, CalmAppliesSpends
<1>4. SwapInv' /\ SpendInv'
  BY <1>1, <1>2, <1>3, StepSwapInv, StepSpendInv
<1>5. StepInv
  BY <1>1, <1>2, <1>3, <1>4 DEF StepInv
<1>6. FullInv'
  BY <1>4, <1>5, StepFollowInv DEF FullInv
<1>7. PaidInv'
  <2>1. RefundBacked' /\ BlocksListed' /\ LagBounded'
    BY <1>1, <1>2, StepRefundBacked, StepLag
  <2>2. CancelHasReason' /\ ClaimMissed'
    BY <1>1, <1>2, <1>5, StepCancelHasReason, StepClaimMissed
  <2> QED BY <2>1, <2>2 DEF PaidInv
<1>8. LegsInv'
  <2>1. HandlerRuns' /\ ExpiryIsRefunded' /\ FundedEarly'
    BY <1>1, <1>5, StepHandlerRuns, StepExpiryIsRefunded, StepFundedEarly
  <2>2. SpentInTime' /\ LapsedIsRefunded'
    BY <1>1, <1>5, <2>1, StepSpentInTime, StepLapsedIsRefunded
  <2> QED BY <2>1, <2>2 DEF LegsInv
<1> QED BY <1>5, <1>6, <1>7, <1>8 DEF CalmInv

LEMMA CalmSpec ==
    ASSUME Calm, GapCoversRefund
    PROVE  Spec => []CalmInv
<1>1. Init => CalmInv
  <2> SUFFICES ASSUME Init PROVE CalmInv
    OBVIOUS
  <2>1. FullInv
    BY InitSwapInv, InitSpendInv, InitFollowInv DEF FullInv
  <2>2. Len(feed) = 0
    BY DEF Init
  <2>3. PaidInv
    BY <2>2
    DEF Init, NewSwap, PaidInv, RefundBacked, BlocksListed, LagBounded, CancelHasReason,
        ClaimMissed
  <2>4. HandlerRuns /\ ExpiryIsRefunded /\ SpentInTime /\ LapsedIsRefunded
    BY DEF Init, NewSwap, HandlerRuns, ExpiryIsRefunded, SpentInTime, LapsedIsRefunded,
           ContractTxs, Absent
  <2>5. FundedEarly
    BY DEF Init, FundedEarly, PaymentPending, ContractTxs, Absent, Mempool
  <2> QED BY <2>1, <2>3, <2>4, <2>5 DEF CalmInv, LegsInv
<1>2. CalmInv /\ [Next]_vars => CalmInv'
  BY StepCalmInv
<1> QED BY <1>1, <1>2, PTL DEF Spec

(* What a step that leaves the contract alone does to the payment.         *)
LEMMA PaymentSteps ==
    ASSUME CalmInv, CalmInv', [Next]_vars, UNCHANGED onchain
    PROVE  Abstract!Next \/ UNCHANGED Abstract!legs
<1>1. /\ TypeInv /\ ClaimNeedsContract /\ OneMined /\ SettlesForClaim
      /\ LapsedIsRefunded' /\ ChainNumbers
  BY ChainType DEF CalmInv, FullInv, SwapInv, StatusInv, SpendInv, LegsInv
<1>2. chainLeg' = chainLeg
  BY DEF chainLeg
<1>3. CASE invoice' = invoice
  BY <1>2, <1>3 DEF Abstract!legs, lightningLeg
<1>4. CASE PayInvoice
  BY <1>2, <1>4 DEF PayInvoice, Abstract!Next, Abstract!Hold, lightningLeg
<1>5. CASE SettleInvoice /\ invoice = "ACCEPTED" /\ invoice' = "SETTLED"
  <2>1. onchain["claim"] > 0
    BY <1>1, <1>5
    DEF SettleInvoice, SettlesForClaim, ClaimConfirmed, hasEnoughConfirmations
  <2> QED BY <1>2, <1>5, <2>1 DEF Abstract!Next, Abstract!Settle, chainLeg, lightningLeg
<1>6. CASE invoice \in {"OPEN", "ACCEPTED"} /\ invoice' = "CANCELED"
  <2>1. onchain["lock"] = Absent \/ onchain["refund"] > 0
    BY <1>1, <1>6 DEF LapsedIsRefunded
  <2>2. ~(onchain["claim"] > 0)
    BY <1>1, <2>1 DEF ClaimNeedsContract, OneMined, ChainNumbers, ContractTxs, Absent
  <2>3. chainLeg \in {"none", "refunded"}
    BY <2>1, <2>2 DEF chainLeg
  <2> QED BY <1>2, <1>6, <2>3 DEF Abstract!Next, Abstract!Cancel, lightningLeg
<1> QED BY <1>1, <1>3, <1>4, <1>5, <1>6, InvoiceSteps

(* ... a broadcast to the contract ...                                     *)
LEMMA BroadcastSteps ==
    ASSUME CalmInv, UNCHANGED invoice, NEW t \in ContractTxs, Broadcast(t),
           onchain[t] <= Mempool,
           t = "lock" => invoice = "ACCEPTED" /\ \A u \in ContractTxs : onchain[u] = Absent,
           t # "lock" => onchain["lock"] # Absent
    PROVE  Abstract!Next \/ UNCHANGED Abstract!legs
<1>1. onchain \in [ContractTxs -> {Absent} \cup Heights]
  BY DEF CalmInv, FullInv, SwapInv, TypeInv, WorldTypeOK
<1>2. /\ onchain'[t] = 0
      /\ \A u \in ContractTxs : u # t => onchain'[u] = onchain[u]
      /\ lightningLeg' = lightningLeg
  BY <1>1 DEF Broadcast, Mempool, lightningLeg
<1>3. CASE t = "lock"
  BY <1>2, <1>3
  DEF chainLeg, lightningLeg, Abstract!Next, Abstract!Lock, ContractTxs, Absent
<1>4. CASE t # "lock"
  <2>1. ~(onchain[t] > 0) /\ ~(onchain'[t] > 0)
    <3>1. onchain[t] \in Int
      BY ChainType DEF CalmInv, FullInv, SwapInv, ChainNumbers
    <3>2. onchain[t] <= 0
      BY DEF Mempool
    <3> QED BY <1>2, <3>1, <3>2
  <2>2. \A u \in {"claim", "refund"} : onchain'[u] > 0 <=> onchain[u] > 0
    BY <1>2, <2>1 DEF ContractTxs
  <2>3. onchain'["lock"] = onchain["lock"]
    BY <1>2, <1>4 DEF ContractTxs
  <2>4. chainLeg' = chainLeg
    BY <2>2, <2>3 DEF chainLeg
  <2> QED BY <1>2, <2>4 DEF Abstract!legs
<1> QED BY <1>3, <1>4

(* ... and a block that mines it or a spend of it.                         *)
LEMMA BlockSteps ==
    ASSUME CalmInv, NewBlock
    PROVE  Abstract!Next \/ UNCHANGED Abstract!legs
<1>1. /\ ChainNumbers /\ PaymentBacked /\ SettlesForClaim /\ LapsedIsRefunded
      /\ invoice \in InvoiceStates
  BY ChainType
  DEF CalmInv, FullInv, SwapInv, SpendInv, LegsInv, TypeInv, WorldTypeOK
<1>2. PICK S \in SUBSET ContractTxs :
        /\ Minable(S)
        /\ onchain' = [t \in ContractTxs |->
                         IF t \in S THEN tip[Chain] + 1 ELSE onchain[t]]
  BY DEF NewBlock
<1>3. /\ \A t \in ContractTxs :
           /\ onchain'[t] = IF t \in S THEN tip[Chain] + 1 ELSE onchain[t]
           /\ onchain[t] \in Int
      /\ \A t \in S : onchain[t] = 0
      /\ tip[Chain] + 1 > 0 /\ tip[Chain] + 1 \in Int
      /\ invoice' = invoice /\ lightningLeg' = lightningLeg
  BY <1>1, <1>2 DEF NewBlock, Minable, Mempool, ChainNumbers, lightningLeg
<1>4. CASE "claim" \in S
  <2>1. onchain["lock"] # Absent /\ onchain["claim"] = 0 /\ onchain["refund"] <= 0
    BY <1>2, <1>3, <1>4 DEF Minable, Mempool, Absent
  <2>2. invoice = "ACCEPTED"
    <3>1. invoice # "OPEN"
      BY <1>1, <2>1 DEF PaymentBacked
    <3>2. invoice # "SETTLED"
      BY <1>1, <2>1 DEF SettlesForClaim, ClaimConfirmed, hasEnoughConfirmations
    <3>3. invoice # "CANCELED"
      BY <1>1, <1>3, <2>1 DEF LapsedIsRefunded, ContractTxs
    <3> QED BY <1>1, <3>1, <3>2, <3>3 DEF InvoiceStates
  <2>3. chainLeg = "locked" /\ chainLeg' = "claimed"
    BY <1>3, <1>4, <2>1 DEF chainLeg, ContractTxs
  <2> QED BY <1>3, <2>2, <2>3 DEF lightningLeg, Abstract!Next, Abstract!Claim
<1>5. CASE "claim" \notin S /\ "refund" \in S
  <2>1. onchain["lock"] # Absent /\ onchain["refund"] = 0 /\ onchain["claim"] <= 0
    BY <1>2, <1>3, <1>5 DEF Minable, Mempool, Absent
  <2>2. chainLeg = "locked" /\ chainLeg' = "refunded"
    BY <1>3, <1>5, <2>1 DEF chainLeg, ContractTxs
  <2> QED BY <1>3, <2>2 DEF Abstract!Next, Abstract!Refund
<1>6. CASE "claim" \notin S /\ "refund" \notin S
  <2>1. onchain'["lock"] # Absent <=> onchain["lock"] # Absent
    BY <1>3 DEF Absent, ContractTxs
  <2>2. chainLeg' = chainLeg
    BY <1>3, <1>6, <2>1 DEF chainLeg, ContractTxs
  <2> QED BY <1>3, <2>2 DEF Abstract!legs
<1> QED BY <1>4, <1>5, <1>6

(* The runner implements the atomic swap, step by step: it funds only for  *)
(* a held payment, LND is told the preimage only of a mined claim, and the *)
(* payment is given up only before the contract is funded or after it was  *)
(* refunded (SwapOutRunner's onStatusChange and processNewBlock).  The     *)
(* contract is on Bitcoin, the process does not stop, LND and nbxplorer    *)
(* accept what they are sent, nobody is late by more than MaxPending       *)
(* blocks, and BLOCKS_BETWEEN_CLTV_AND_SWAP_EXPIRATIONS leaves room for    *)
(* two confirmations.                                                      *)
THEOREM SwapOutImplementsAtomicSwap ==
    ASSUME Calm, GapCoversRefund
    PROVE  Spec => ImplementsAtomicSwap
<1>1. Spec => []CalmInv
  BY CalmSpec
<1>2. Init => Abstract!Init
  BY DEF Init, Abstract!Init, chainLeg, lightningLeg, ContractTxs, Absent
<1>3. ASSUME CalmInv, CalmInv', [Next]_vars
      PROVE  Abstract!Next \/ UNCHANGED Abstract!legs
  <2>1. /\ FullInv /\ PaidInv /\ LegsInv /\ LockNoticed /\ OneIntent
        /\ RefundFollowsExpiry
    BY <1>3 DEF CalmInv, FullInv, SwapInv, FollowInv
  <2>2. CASE UNCHANGED onchain
    BY <1>3, <2>2, PaymentSteps
  <2>3. CASE SendCoins
    <3>1. invoice = "ACCEPTED" /\ \A u \in ContractTxs : onchain[u] = Absent
      BY <2>1, <2>3, HeldWhenSent DEF SendCoins
    <3> QED
      BY <1>3, <2>3, <3>1, BroadcastSteps DEF SendCoins, ContractTxs, Absent, Mempool
  <2>4. CASE UserClaims
    BY <1>3, <2>4, BroadcastSteps DEF UserClaims, ContractTxs, Absent, Mempool
  <2>5. CASE BroadcastRefund /\ ~UNCHANGED onchain
    <3>1. Broadcast("refund") /\ onchain["refund"] = Absent /\ UNCHANGED invoice
          /\ refunder = "build"
      BY <2>5 DEF BroadcastRefund
    <3>2. onchain["lock"] # Absent
      BY <2>1, <3>1 DEF RefundFollowsExpiry, LockNoticed, Locked
    <3> QED BY <1>3, <3>1, <3>2, BroadcastSteps DEF ContractTxs, Absent, Mempool
  <2>6. CASE NewBlock
    BY <1>3, <2>6, BlockSteps
  <2> QED
    BY <1>3, <2>2, <2>3, <2>4, <2>5, <2>6
    DEF Next, ServerStep, WorldStep, vars, world, PollInvoice, PollReply, CheckExpiry,
        ServeExpiryCancel, FinishExpiry, CreateContract, TrackContract, SendReply,
        AbortPayment, CancelInvoice, ProcessNewBlock, SettleInvoice, FinishSwap,
        ProcessFundingTx, RecordSpendingTx, ApplySpendingTx, NobodyListens,
        CommitEvent, Crash, Restart, Resume, PayInvoice, InvoiceLapses,
        NewBitcoinBlock
<1>4. CalmInv /\ CalmInv' /\ [Next]_vars => [Abstract!Next]_(Abstract!legs)
  BY <1>3
<1> QED BY <1>1, <1>2, <1>4, PTL DEF Spec, ImplementsAtomicSwap, Abstract!Spec

(* A funded contract is spent within a bounded number of blocks after its  *)
(* timeout, by the user or by the refund that processNewBlock starts, and  *)
(* no claim is mined later than that.                                      *)
THEOREM SwapOutSpentInTime ==
    ASSUME Calm, GapCoversRefund
    PROVE  Spec => []SpentInTime
<1>1. CalmInv => SpentInTime
  BY DEF CalmInv, LegsInv
<1> QED BY <1>1, CalmSpec, PTL

=============================================================================
