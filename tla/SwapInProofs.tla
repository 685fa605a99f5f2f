----------------------------- MODULE SwapInProofs ------------------------------
(***************************************************************************)
(* What holds of a swap-in for every chain, margin, retry, deposit, fault  *)
(* and number of crashes: the types of its state, that a claim never       *)
(* outruns the preimage the server saved, and that the invoice is paid     *)
(* only against a confirmed deposit of the exact amount.  Then, under the  *)
(* hypotheses each theorem names: what polls are told, what DONE says,     *)
(* that a calm swap-in is an atomic swap, and that its status follows the  *)
(* chain.                                                                  *)
(***************************************************************************)
EXTENDS SwapIn, SequenceTheorems, TLAPS

-----------------------------------------------------------------------------
(* Types.                                                                  *)

(* TypeOK, the process apart from the world.                               *)
Entities ==
    [ status : Statuses, outcome : Outcomes, inputAmount : {"exact", "other"},
      lockTx : {"none", "exact", "other"}, lockTxHeight : Heights,
      unlockTxHeight : Heights, preImage : BOOLEAN ]

TasksTypeOK ==
    /\ pay \in {"off", "limit", "send", "wait", "failed", "paid"}
    /\ attempt \in 0 .. Retries
    /\ cltvLimit \in Int
    /\ claimer \in {"off", "exact", "other"}

ProcessTypeOK ==
    /\ swap \in Entities
    /\ up \in BOOLEAN
    /\ runner \in {"waiting", "running", "stopped"}
    /\ ev \in {"idle", "record", "spend", "done"}
    /\ TasksTypeOK
    /\ crashes \in 0 .. MaxCrashes

Feeds == Seq([kind : EventKinds, h : Heights])

WorldTypeOK ==
    /\ feed \in Feeds
    /\ payment \in {"none", "inflight", "settled", "failed"}
    /\ htlcExpiry \in Nat
    /\ tip \in [Chains -> Nat]
    /\ tip[Chain] <= MaxHeight[Chain]
    /\ onchain \in [ContractTxs -> {Absent} \cup Heights]
    /\ spends \in [Spends -> {"none", "exact", "other"}]

(* The handler under way is that of the first event of the feed, and a     *)
(* mismatch of the amount that of a deposit in the right asset.            *)
HandlerHasEvent ==
    /\ ev # "idle" => feed # << >>
    /\ ev = "record" => Head(feed).kind \in {"exact", "other"}

(* The payment starts for a deposit that was recorded.                     *)
DepositKnown ==
    /\ swap.lockTxHeight > 0 => swap.lockTx # "none"
    /\ pay # "off" => swap.lockTx # "none"

(* The inductive form of TypeOK: a handler reads the first event, and the  *)
(* claim spends the recorded deposit.                                      *)
TypeInv == ProcessTypeOK /\ WorldTypeOK /\ HandlerHasEvent /\ DepositKnown

(* The two halves say what TypeOK says.                                    *)
LEMMA TypeHalves == TypeOK <=> ProcessTypeOK /\ WorldTypeOK
BY DEF TypeOK, ProcessTypeOK, TasksTypeOK, WorldTypeOK, Entities, Feeds

(* Zero, the height of an unconfirmed transaction, is a height.            *)
LEMMA HeightsAreNaturals == 0 \in Heights /\ Heights \subseteq Nat
BY SwapInAssumption DEF Heights, Chains

(* The first state is well typed.                                          *)
LEMMA InitTypeInv == Init => TypeInv
BY SwapInAssumption, HeightsAreNaturals
DEF Init, NewSwap, TypeInv, ProcessTypeOK, TasksTypeOK, WorldTypeOK, Entities, Feeds,
    HandlerHasEvent, DepositKnown, Statuses, Outcomes, Heights, EventKinds, Chains,
    ContractTxs, Deposits, Spends, Absent

(* The events of a block, and the feed they are added to.                  *)
LEMMA TxEventsType ==
    ASSUME NEW T, NEW S, NEW h, \A t \in S \cap ContractTxs : Event(t, h) \in T
    PROVE  TxEvents(S, h) \in Seq(T)
<1> DEFINE Of(t) == IF t \in S THEN <<Event(t, h)>> ELSE << >>
<1>1. << >> \in Seq(T) /\ \A e \in T : <<e>> \in Seq(T)
  OBVIOUS
<1>2. \A t \in ContractTxs : Of(t) \in Seq(T)
  BY <1>1
<1>3. /\ Of("exact") \in Seq(T) /\ Of("other") \in Seq(T) /\ Of("foreign") \in Seq(T)
      /\ Of("claim") \in Seq(T) /\ Of("refund") \in Seq(T)
  BY <1>2 DEF ContractTxs, Deposits, Spends
<1>4. TxEvents(S, h) =
        Of("exact") \o Of("other") \o Of("foreign") \o Of("claim") \o Of("refund")
  BY DEF TxEvents
<1> HIDE DEF Of
<1> QED BY <1>3, <1>4, ConcatProperties

(* ... which comes before the block or after it.                           *)
LEMMA BlockFeedType ==
    ASSUME NEW T, NEW s \in Seq(T), NEW b \in T, NEW txs \in Seq(T)
    PROVE  Append(s, b) \o txs \in Seq(T) /\ Append(s \o txs, b) \in Seq(T)
BY AppendProperties, ConcatProperties

(* A longer feed starts with the same event.                               *)
LEMMA AppendType ==
    ASSUME feed \in Feeds, NEW e \in [kind : EventKinds, h : Heights]
    PROVE  /\ Append(feed, e) \in Feeds
           /\ Append(feed, e) # << >>
           /\ feed # << >> => Head(Append(feed, e)) = Head(feed)
<1> DEFINE Events == [kind : EventKinds, h : Heights]
<1>1. feed \in Seq(Events) /\ e \in Events
  BY DEF Feeds
<1> HIDE DEF Events
<1>2. Append(feed, e) \in Seq(Events) /\ Append(feed, e) # << >>
  BY <1>1, AppendProperties
<1>3. feed # << >> => Head(Append(feed, e)) = Head(feed)
  BY <1>1
<1> QED BY <1>2, <1>3 DEF Feeds, Events

(* An announcement adds at most the transaction, unconfirmed.              *)
LEMMA AnnounceType ==
    ASSUME WorldTypeOK, NEW t \in ContractTxs, NEW d, Announce(t, d)
    PROVE  /\ feed' \in Feeds
           /\ feed # << >> => feed' # << >> /\ Head(feed') = Head(feed)
<1>1. Event(t, 0) \in [kind : EventKinds, h : Heights]
  BY HeightsAreNaturals DEF Event, EventKinds
<1>2. feed \in Feeds
  BY DEF WorldTypeOK
<1>3. CASE feed' = Append(feed, Event(t, 0))
  BY <1>1, <1>2, <1>3, AppendType
<1>4. CASE feed' = feed
  BY <1>2, <1>4
<1> QED BY <1>3, <1>4 DEF Announce

(* A spend is broadcast once, of the deposit it spends.                    *)
LEMMA SpendType ==
    ASSUME WorldTypeOK, NEW t \in Spends, NEW d \in {"exact", "other"}, Spend(t, d)
    PROVE  /\ onchain' \in [ContractTxs -> {Absent} \cup Heights]
           /\ spends' \in [Spends -> {"none", "exact", "other"}]
           /\ feed' \in Feeds
           /\ feed # << >> => feed' # << >> /\ Head(feed') = Head(feed)
<1>1. t \in ContractTxs
  BY DEF ContractTxs
<1>2. Announce(t, d)
  BY DEF Spend
<1> QED BY <1>1, <1>2, AnnounceType, HeightsAreNaturals DEF Spend, WorldTypeOK, Mempool

(* A status and an outcome written over an entity leave an entity.         *)
LEMMA StatusType ==
    ASSUME NEW s \in Entities, NEW x \in Statuses, NEW o \in Outcomes
    PROVE  /\ [s EXCEPT !.status = x] \in Entities
           /\ [s EXCEPT !.status = x, !.outcome = o] \in Entities
           /\ [s EXCEPT !.status = x, !.outcome = o].lockTx = s.lockTx
           /\ [s EXCEPT !.status = x, !.outcome = o].lockTxHeight = s.lockTxHeight
BY DEF Entities

(* A process that dies keeps what it saved.                                *)
LEMMA DeathType ==
    ASSUME TypeInv, Die, UNCHANGED <<world, crashes>>
    PROVE  TypeInv'
BY DEF TypeInv, ProcessTypeOK, TasksTypeOK, WorldTypeOK, Die, HandlerHasEvent,
       DepositKnown, world, lightning, chain

(* The event under way has a height, and the events after it remain.       *)
LEMMA HeadType ==
    ASSUME WorldTypeOK, feed # << >>
    PROVE  height \in Heights /\ Tail(feed) \in Feeds
<1> DEFINE Events == [kind : EventKinds, h : Heights]
<1>1. feed \in Seq(Events)
  BY DEF WorldTypeOK, Feeds
<1> HIDE DEF Events
<1>2. Head(feed) \in Events /\ Tail(feed) \in Seq(Events)
  BY <1>1, HeadTailProperties
<1> QED BY <1>2 DEF height, Feeds, Events

(* The payment of the invoice and the claim keep the types.                *)
LEMMA TaskStepType ==
    ASSUME TypeInv,
           \/ CheckExpiry
           \/ ComputeLimit \/ SendPayment \/ PaymentReply \/ RetryPayment \/ InvoicePaid
           \/ BroadcastClaim
    PROVE  TypeInv'
<1>1. CASE BroadcastClaim
  <2>1. CASE Die /\ UNCHANGED <<feed, onchain, spends>>
    BY <1>1, <2>1, DeathType DEF BroadcastClaim, world, lightning, chain
  <2>2. CASE ~(Die /\ UNCHANGED <<feed, onchain, spends>>)
    <3>1. /\ claimer \in {"exact", "other"} /\ claimer' = "off"
          /\ UNCHANGED <<swap, up, runner, pay, attempt, cltvLimit, ev>>
          /\ Spend("claim", claimer) \/ UNCHANGED <<feed, onchain, spends>>
          /\ UNCHANGED <<lightning, tip, crashes>>
      BY <1>1, <2>2 DEF BroadcastClaim, TypeInv, ProcessTypeOK, TasksTypeOK
    <3>2. /\ onchain' \in [ContractTxs -> {Absent} \cup Heights]
          /\ spends' \in [Spends -> {"none", "exact", "other"}]
          /\ feed' \in Feeds
          /\ feed # << >> => feed' # << >> /\ Head(feed') = Head(feed)
      <4>1. CASE Spend("claim", claimer)
        BY <3>1, <4>1, SpendType DEF TypeInv, Spends
      <4>2. CASE UNCHANGED <<feed, onchain, spends>>
        BY <4>2 DEF TypeInv, WorldTypeOK
      <4> QED BY <3>1, <4>1, <4>2
    <3> QED
      BY <3>1, <3>2
      DEF TypeInv, ProcessTypeOK, TasksTypeOK, WorldTypeOK, HandlerHasEvent,
          DepositKnown, lightning
  <2> QED BY <2>1, <2>2
<1> USE DEF TypeInv, ProcessTypeOK, TasksTypeOK, WorldTypeOK, HandlerHasEvent,
            DepositKnown
<1>2. CASE CheckExpiry
  <2>1. /\ swap' \in Entities
        /\ swap'.lockTx = swap.lockTx /\ swap'.lockTxHeight = swap.lockTxHeight
    BY <1>2, StatusType DEF CheckExpiry, Statuses, Outcomes
  <2> QED BY <1>2, <2>1 DEF CheckExpiry, tasks, world, lightning, chain
<1>3. CASE ComputeLimit
  <2>1. remainingCltv \in Int
    BY SwapInAssumption DEF remainingCltv, timeoutBlockHeight, Chains
  <2> QED BY <1>3, <2>1 DEF ComputeLimit, world, lightning, chain
<1>4. CASE SendPayment
  <2>1. effectiveLimit \in Int
    BY SwapInAssumption DEF effectiveLimit
  <2>2. tip["BITCOIN"] \in Nat
    BY DEF Chains
  <2>3. payment' \in {payment, "inflight"} /\ htlcExpiry' \in Nat
    BY <1>4, <2>1, <2>2, SwapInAssumption DEF SendPayment, lightning
  <2> QED BY <1>4, <2>3 DEF SendPayment, chain
<1>5. CASE PaymentReply BY <1>5 DEF PaymentReply, world, lightning, chain
<1>6. CASE RetryPayment
  BY <1>6, SwapInAssumption DEF RetryPayment, world, lightning, chain
<1>7. CASE InvoicePaid
  <2>1. /\ swap' \in Entities
        /\ swap'.lockTx = swap.lockTx /\ swap'.lockTxHeight = swap.lockTxHeight
    BY <1>7 DEF InvoicePaid, Entities, Statuses
  <2> QED BY <1>7, <2>1 DEF InvoicePaid, Entities, world, lightning, chain
<1> QED BY <1>1, <1>2, <1>3, <1>4, <1>5, <1>6, <1>7

(* Recording a deposit keeps the entity an entity, and remembers it.       *)
LEMMA RecordFundingType ==
    ASSUME TypeInv, feed # << >>, NEW d \in {"exact", "other"}, RecordFunding(d)
    PROVE  /\ swap' \in Entities
           /\ swap'.lockTxHeight > 0 => swap'.lockTx # "none"
           /\ swap.lockTx # "none" => swap'.lockTx # "none"
<1>1. height \in Heights
  BY HeadType DEF TypeInv
<1>2. swap \in Entities
  BY DEF TypeInv, ProcessTypeOK
<1>3. CASE swap' = swap
  BY <1>2, <1>3 DEF TypeInv, DepositKnown
<1>4. CASE swap' # swap
  BY <1>1, <1>2, <1>4 DEF RecordFunding, confirmedHeight, Entities, Statuses
<1> QED BY <1>3, <1>4

(* The handlers of nbxplorer's events, a crash and the restart keep the    *)
(* types.                                                                  *)
LEMMA EventStepType ==
    ASSUME TypeInv,
           \/ ProcessNewBlock \/ ProcessFundingTx \/ RecordMismatch
           \/ RecordSpendingTx \/ ApplySpendingTx
           \/ NobodyListens \/ CommitEvent
           \/ Crash \/ Restart \/ Resume
    PROVE  TypeInv'
<1>1. CASE ProcessNewBlock
  <2>1. /\ feed # << >> /\ ev' = "done"
        /\ UNCHANGED <<up, cltvLimit, claimer, world, crashes>>
    BY <1>1 DEF ProcessNewBlock, Dispatch
  <2>2. /\ swap' \in Entities
        /\ swap'.lockTx = swap.lockTx /\ swap'.lockTxHeight = swap.lockTxHeight
        /\ runner' \in {"stopped", runner}
        /\ pay' \in {"limit", pay} /\ attempt' \in 0 .. Retries
        /\ pay' # pay => swap.lockTxHeight > 0
    <3> USE SwapInAssumption
        DEF TypeInv, ProcessTypeOK, TasksTypeOK, hasEnoughConfirmations
    <3>1. CASE BlockExpires
      BY <3>1 DEF BlockExpires, Entities, Statuses
    <3>2. CASE BlockConfirmsMismatch
      BY <3>2 DEF BlockConfirmsMismatch, Entities, Statuses
    <3>3. CASE BlockFunds
      BY <3>3 DEF BlockFunds, Entities, Statuses
    <3>4. CASE BlockFinishes
      <4>1. PICK o \in Outcomes : swap' = [swap EXCEPT !.status = "DONE", !.outcome = o]
        BY <3>4 DEF BlockFinishes, Outcomes
      <4>2. "DONE" \in Statuses /\ swap \in Entities
        BY DEF Statuses
      <4>3. /\ swap' \in Entities
            /\ swap'.lockTx = swap.lockTx /\ swap'.lockTxHeight = swap.lockTxHeight
        BY <4>1, <4>2, StatusType
      <4> QED BY <3>4, <4>3 DEF BlockFinishes
    <3>5. CASE BlockIgnored
      BY <3>5 DEF BlockIgnored
    <3> QED BY <1>1, <3>1, <3>2, <3>3, <3>4, <3>5 DEF ProcessNewBlock
  <2> QED
    BY <2>1, <2>2
    DEF TypeInv, ProcessTypeOK, TasksTypeOK, WorldTypeOK, HandlerHasEvent,
        DepositKnown, world, lightning, chain
<1>2. CASE ProcessFundingTx
  <2>1. PICK d \in Deposits :
          Dispatch(d) /\ (AssetMismatch(d) \/ AmountMismatch(d) \/ ExpectedAmount(d))
    BY <1>2 DEF ProcessFundingTx
  <2>2. /\ feed # << >> /\ Head(feed).kind = d
        /\ UNCHANGED <<up, tasks, world, crashes>>
    BY <1>2, <2>1 DEF ProcessFundingTx, Dispatch
  <2>3. /\ swap' \in Entities
        /\ swap'.lockTxHeight > 0 => swap'.lockTx # "none"
        /\ swap.lockTx # "none" => swap'.lockTx # "none"
        /\ runner' \in {"stopped", runner}
        /\ ev' \in {"record", "done"}
        /\ ev' = "record" => d \in {"exact", "other"}
    <3> USE DEF TypeInv, ProcessTypeOK
    <3>1. CASE AssetMismatch(d)
      BY <3>1, StatusType DEF AssetMismatch, DepositKnown, Statuses, Outcomes
    <3>2. CASE AmountMismatch(d)
      BY <2>1, <3>2 DEF AmountMismatch, DepositKnown, Deposits, Entities, Statuses
    <3>3. CASE ExpectedAmount(d)
      <4>1. d \in {"exact", "other"} /\ RecordFunding(d)
        BY <3>3 DEF ExpectedAmount, Entities
      <4> QED BY <2>2, <3>3, <4>1, RecordFundingType DEF ExpectedAmount
    <3> QED BY <2>1, <3>1, <3>2, <3>3
  <2> QED
    BY <2>2, <2>3
    DEF TypeInv, ProcessTypeOK, TasksTypeOK, WorldTypeOK, HandlerHasEvent,
        DepositKnown, tasks, world, lightning, chain
<1>3. CASE RecordMismatch
  <2>1. /\ feed # << >> /\ Head(feed).kind \in {"exact", "other"}
        /\ RecordFunding(Head(feed).kind)
    BY <1>3 DEF RecordMismatch, TypeInv, HandlerHasEvent
  <2>2. /\ swap' \in Entities
        /\ swap'.lockTxHeight > 0 => swap'.lockTx # "none"
        /\ swap.lockTx # "none" => swap'.lockTx # "none"
    BY <2>1, RecordFundingType
  <2> QED
    BY <1>3, <2>1, <2>2
    DEF RecordMismatch, TypeInv, ProcessTypeOK, TasksTypeOK, WorldTypeOK,
        HandlerHasEvent, DepositKnown, tasks, world, lightning, chain
<1>4. CASE RecordSpendingTx
  <2>1. feed # << >> /\ height \in Heights
    BY <1>4, HeadType DEF RecordSpendingTx, Dispatch, TypeInv
  <2>2. CASE Die
    BY <1>4, <2>2, DeathType DEF RecordSpendingTx
  <2>3. CASE ~Die
    <3>1. /\ ev' \in {"spend", "done"}
          /\ swap' \in Entities
          /\ swap'.lockTx = swap.lockTx /\ swap'.lockTxHeight = swap.lockTxHeight
          /\ UNCHANGED <<up, runner, tasks, world, crashes>>
      BY <1>4, <2>1, <2>3
      DEF RecordSpendingTx, HandlerThrows, confirmedHeight, Entities, TypeInv, ProcessTypeOK
    <3> QED
      BY <2>1, <3>1
      DEF TypeInv, ProcessTypeOK, TasksTypeOK, WorldTypeOK, HandlerHasEvent,
          DepositKnown, tasks, world, lightning, chain
  <2> QED BY <2>2, <2>3
<1>5. CASE ApplySpendingTx
  <2>1. /\ swap' \in Entities
        /\ swap'.lockTx = swap.lockTx /\ swap'.lockTxHeight = swap.lockTxHeight
    BY <1>5 DEF ApplySpendingTx, Entities, Statuses, TypeInv, ProcessTypeOK
  <2> QED
    BY <1>5, <2>1
    DEF ApplySpendingTx, TypeInv, ProcessTypeOK, TasksTypeOK, WorldTypeOK,
        HandlerHasEvent, DepositKnown, tasks, world, lightning, chain
<1>6. CASE CommitEvent
  <2>1. Tail(feed) \in Feeds
    BY <1>6, HeadType DEF CommitEvent, TypeInv, HandlerHasEvent
  <2> QED
    BY <1>6, <2>1
    DEF CommitEvent, TypeInv, ProcessTypeOK, TasksTypeOK, WorldTypeOK,
        HandlerHasEvent, DepositKnown, tasks, lightning, chain
<1>7. CASE Crash
  <2>1. Die /\ crashes' \in 0 .. MaxCrashes /\ UNCHANGED world
    BY <1>7, SwapInAssumption DEF Crash, TypeInv, ProcessTypeOK
  <2> QED
    BY <2>1
    DEF TypeInv, ProcessTypeOK, TasksTypeOK, WorldTypeOK, Die, HandlerHasEvent,
        DepositKnown, world, lightning, chain
<1> USE DEF TypeInv, ProcessTypeOK, TasksTypeOK, WorldTypeOK, HandlerHasEvent,
            DepositKnown, tasks, world, lightning, chain
<1>8. CASE NobodyListens BY <1>8 DEF NobodyListens
<1>9. CASE Restart BY <1>9 DEF Restart
<1>10. CASE Resume BY <1>10 DEF Resume
<1> QED BY <1>1, <1>2, <1>3, <1>4, <1>5, <1>6, <1>7, <1>8, <1>9, <1>10

(* The user, LND and the chains keep the types.                            *)
LEMMA WorldStepType ==
    ASSUME TypeInv, WorldStep
    PROVE  TypeInv'
<1>1. UNCHANGED <<server, crashes>>
  BY DEF WorldStep, Deposit, UserSettles, PaymentFails, UserRefunds, NewBlock,
         NewBitcoinBlock
<1>2. ProcessTypeOK' /\ DepositKnown'
  BY <1>1 DEF server, tasks, TypeInv, ProcessTypeOK, TasksTypeOK, DepositKnown
<1>3. CASE Deposit
  <2>1. PICK d \in {"exact"} \cup Strays :
          onchain' = [onchain EXCEPT ![d] = Mempool] /\ Announce(d, d)
    BY <1>3 DEF Deposit
  <2>2. d \in ContractTxs
    BY SwapInAssumption DEF ContractTxs, Deposits
  <2>3. /\ feed' \in Feeds
        /\ feed # << >> => feed' # << >> /\ Head(feed') = Head(feed)
    BY <2>1, <2>2, AnnounceType DEF TypeInv
  <2>4. onchain' \in [ContractTxs -> {Absent} \cup Heights]
    BY <2>1, <2>2, HeightsAreNaturals DEF TypeInv, WorldTypeOK, Mempool
  <2> QED
    BY <1>1, <1>2, <1>3, <2>3, <2>4
    DEF Deposit, server, lightning, TypeInv, WorldTypeOK, HandlerHasEvent
<1>4. CASE UserSettles
  BY <1>1, <1>2, <1>4
  DEF UserSettles, server, chain, TypeInv, WorldTypeOK, HandlerHasEvent
<1>5. CASE PaymentFails
  BY <1>1, <1>2, <1>5
  DEF PaymentFails, server, chain, TypeInv, WorldTypeOK, HandlerHasEvent
<1>6. CASE UserRefunds
  <2>1. swap.lockTx \in {"exact", "other"}
    BY <1>6 DEF UserRefunds, Entities, TypeInv, ProcessTypeOK
  <2>2. "refund" \in Spends /\ Spend("refund", swap.lockTx)
    BY <1>6 DEF UserRefunds, Spends
  <2>3. /\ onchain' \in [ContractTxs -> {Absent} \cup Heights]
        /\ spends' \in [Spends -> {"none", "exact", "other"}]
        /\ feed' \in Feeds
        /\ feed # << >> => feed' # << >> /\ Head(feed') = Head(feed)
    BY <2>1, <2>2, SpendType DEF TypeInv
  <2> QED
    BY <1>1, <1>2, <1>6, <2>3
    DEF UserRefunds, server, lightning, TypeInv, WorldTypeOK, HandlerHasEvent
<1>7. CASE NewBlock
  <2> DEFINE h == tip[Chain] + 1
             b == Event("block", h)
  <2>1. PICK S \in SUBSET ContractTxs :
          /\ tip' = [tip EXCEPT ![Chain] = h]
          /\ onchain' = [t \in ContractTxs |-> IF t \in S THEN h ELSE onchain[t]]
          /\ \/ feed' = Append(feed, b) \o TxEvents(S, h)
             \/ feed' = Append(feed \o TxEvents(S, h), b)
    BY <1>7 DEF NewBlock
  <2>2. h \in Heights /\ h <= MaxHeight[Chain]
    BY <1>7, SwapInAssumption DEF NewBlock, Heights, Chains, TypeInv, WorldTypeOK
  <2>3. tip' \in [Chains -> Nat] /\ tip'[Chain] = h
    BY <2>1, SwapInAssumption DEF Chains, TypeInv, WorldTypeOK
  <2>4. onchain' \in [ContractTxs -> {Absent} \cup Heights]
    BY <2>1, <2>2 DEF TypeInv, WorldTypeOK
  <2> DEFINE Events == [kind : EventKinds, h : Heights]
             txs == TxEvents(S, h)
  <2>5. \A k \in EventKinds : Event(k, h) \in Events
    BY <2>2 DEF Event
  <2>6. feed \in Seq(Events) /\ b \in Events
    BY <2>5 DEF Feeds, EventKinds, TypeInv, WorldTypeOK
  <2>7. Seq(Events) = Feeds
    BY DEF Feeds
  <2> HIDE DEF Events, h, b
  <2>8. \A t \in S \cap ContractTxs : Event(t, h) \in Events
    BY <2>5 DEF EventKinds
  <2>9. txs \in Seq(Events)
    BY <2>8, TxEventsType
  <2> HIDE DEF txs
  <2>10. /\ feed' \in Seq(Events) /\ feed' # << >>
         /\ feed # << >> => Head(feed') = Head(feed)
    <3>1. CASE feed' = Append(feed, b) \o txs
      BY <2>6, <2>9, <3>1
    <3>2. CASE feed' = Append(feed \o txs, b)
      BY <2>6, <2>9, <3>2
    <3> QED BY <2>1, <3>1, <3>2 DEF txs
  <2> QED
    BY <1>1, <1>2, <1>7, <2>2, <2>3, <2>4, <2>7, <2>10
    DEF NewBlock, server, lightning, TypeInv, WorldTypeOK, HandlerHasEvent
<1>8. CASE NewBitcoinBlock
  BY <1>1, <1>2, <1>8, SwapInAssumption
  DEF NewBitcoinBlock, server, lightning, TypeInv, WorldTypeOK, Chains, HandlerHasEvent
<1> QED BY <1>3, <1>4, <1>5, <1>6, <1>7, <1>8 DEF WorldStep

(* Every step keeps the types.                                             *)
LEMMA StepTypeInv == TypeInv /\ [Next]_vars => TypeInv'
<1> SUFFICES ASSUME TypeInv, [Next]_vars PROVE TypeInv'
  OBVIOUS
<1>1. CASE ServerStep \/ Crash
  BY <1>1, TaskStepType, EventStepType DEF ServerStep
<1>2. CASE WorldStep
  BY <1>2, WorldStepType
<1>3. CASE UNCHANGED vars
  BY <1>3
  DEF vars, server, world, tasks, lightning, chain, TypeInv, ProcessTypeOK,
      TasksTypeOK, WorldTypeOK, HandlerHasEvent, DepositKnown
<1> QED BY <1>1, <1>2, <1>3 DEF Next

(* Every variable keeps its type, whatever the deposits, the faults and    *)
(* the crashes: SwapIn.ts's entity, SwapInRunner's tasks, and the world.   *)
THEOREM SwapInTypeOK == Spec => []TypeOK
<1>1. Spec => []TypeInv
  BY InitTypeInv, StepTypeInv, PTL DEF Spec
<1>2. TypeInv => TypeOK
  BY TypeHalves DEF TypeInv
<1> QED BY <1>1, <1>2, PTL

-----------------------------------------------------------------------------
(* The claim follows the payment.                                          *)

(* The payment's reply is true, the claim is built for a payment that was  *)
(* taken, and the preimage was saved before it is used.                    *)
ClaimFollowsPayment ==
    /\ pay = "paid" => payment = "settled"
    /\ claimer # "off" \/ onchain["claim"] # Absent =>
         payment = "settled" /\ swap.preImage

(* Neither a settled payment nor a saved preimage is lost again.           *)
LEMMA PreimageStays ==
    ASSUME TypeInv, [Next]_vars
    PROVE  /\ payment = "settled" => payment' = "settled"
           /\ swap.preImage => swap'.preImage
<1>1. swap \in Entities
  BY DEF TypeInv, ProcessTypeOK
<1> USE <1>1 DEF Entities
<1>2. CASE ServerStep
  BY <1>2
  DEF ServerStep, CheckExpiry, ComputeLimit, SendPayment, PaymentReply, RetryPayment,
      InvoicePaid, BroadcastClaim, ProcessNewBlock, BlockExpires,
      BlockConfirmsMismatch, BlockFunds, BlockFinishes, BlockIgnored,
      ProcessFundingTx, AssetMismatch, AmountMismatch, ExpectedAmount,
      RecordMismatch, RecordFunding, RecordSpendingTx, HandlerThrows, ApplySpendingTx,
      NobodyListens, CommitEvent, Restart, Resume, Die, world, lightning
<1>3. CASE WorldStep \/ Crash \/ UNCHANGED vars
  BY <1>3
  DEF WorldStep, Deposit, UserSettles, PaymentFails, UserRefunds, NewBlock,
      NewBitcoinBlock, Crash, Die, vars, server, world, lightning
<1> QED BY <1>2, <1>3 DEF Next

(* No step claims ahead of the payment.                                    *)
LEMMA StepClaimFollowsPayment ==
    TypeInv /\ ClaimFollowsPayment /\ [Next]_vars => ClaimFollowsPayment'
<1> SUFFICES ASSUME TypeInv, ClaimFollowsPayment, [Next]_vars PROVE ClaimFollowsPayment'
  OBVIOUS
<1>1. /\ payment = "settled" => payment' = "settled"
      /\ swap.preImage => swap'.preImage
  BY PreimageStays
<1>2. CASE InvoicePaid
  BY <1>2
  DEF InvoicePaid, world, lightning, chain, ClaimFollowsPayment, TypeInv,
      ProcessTypeOK, Entities
<1>3. CASE PaymentReply
  BY <1>1, <1>3 DEF PaymentReply, world, chain, lightning, ClaimFollowsPayment
<1>4. CASE BroadcastClaim
  BY <1>1, <1>4 DEF BroadcastClaim, Die, ClaimFollowsPayment
<1>5. CASE ~InvoicePaid /\ ~PaymentReply /\ ~BroadcastClaim
  <2>1. pay' = "paid" => pay = "paid"
    BY <1>5
    DEF Next, ServerStep, WorldStep, vars, server, tasks, CheckExpiry, ComputeLimit,
        SendPayment, RetryPayment, ProcessNewBlock, BlockExpires,
        BlockConfirmsMismatch, BlockFunds, BlockFinishes, BlockIgnored,
        ProcessFundingTx, RecordMismatch, RecordSpendingTx, HandlerThrows,
        ApplySpendingTx, NobodyListens, CommitEvent, Crash, Restart, Resume, Die,
        Deposit, UserSettles, PaymentFails, UserRefunds, NewBlock, NewBitcoinBlock
  <2>2. claimer' # "off" => claimer # "off"
    BY <1>5
    DEF Next, ServerStep, WorldStep, vars, server, tasks, CheckExpiry, ComputeLimit,
        SendPayment, RetryPayment, ProcessNewBlock, ProcessFundingTx, RecordMismatch,
        RecordSpendingTx, HandlerThrows, ApplySpendingTx, NobodyListens, CommitEvent,
        Crash, Restart, Resume, Die, Deposit, UserSettles, PaymentFails, UserRefunds,
        NewBlock, NewBitcoinBlock
  <2>3. onchain["claim"] = Absent => onchain'["claim"] = Absent
    <3>1. onchain \in [ContractTxs -> {Absent} \cup Heights]
      BY DEF TypeInv, WorldTypeOK
    <3>2. CASE Deposit
      BY <3>1, <3>2, SwapInAssumption DEF Deposit, ContractTxs, Deposits, Spends
    <3>3. CASE UserRefunds
      BY <3>1, <3>3 DEF UserRefunds, Spend, ContractTxs, Spends
    <3>4. CASE NewBlock
      BY <3>1, <3>4 DEF NewBlock, Minable, Mempool, Absent, ContractTxs, Spends
    <3>5. CASE UNCHANGED onchain
      BY <3>5
    <3> QED
      BY <1>5, <3>2, <3>3, <3>4, <3>5
      DEF Next, ServerStep, WorldStep, vars, world, chain, CheckExpiry, ComputeLimit,
          SendPayment, RetryPayment, ProcessNewBlock, ProcessFundingTx, RecordMismatch,
          RecordSpendingTx, ApplySpendingTx, NobodyListens, CommitEvent, Crash,
          Restart, Resume, UserSettles, PaymentFails, NewBitcoinBlock
  <2> QED BY <1>1, <2>1, <2>2, <2>3 DEF ClaimFollowsPayment
<1> QED BY <1>2, <1>3, <1>4, <1>5

(* The server's claim reveals nothing the database does not keep: the user *)
(* was paid, and SwapInRunner saved the preimage of the payment first.     *)
THEOREM SwapInClaimOnlyWithSavedPreimage == Spec => []ClaimOnlyWithSavedPreimage
<1>1. Init => ClaimFollowsPayment
  BY DEF Init, ClaimFollowsPayment, ContractTxs, Spends
<1>2. ClaimFollowsPayment => ClaimOnlyWithSavedPreimage
  BY DEF ClaimFollowsPayment, ClaimOnlyWithSavedPreimage
<1> QED
  BY <1>1, <1>2, InitTypeInv, StepTypeInv, StepClaimFollowsPayment, PTL DEF Spec

-----------------------------------------------------------------------------
(* The payment follows the deposit.                                        *)

(* Events that tell the truth of the chain: no height beyond the tip, only *)
(* transactions that were broadcast, and the height they have.             *)
TrueEvents ==
    { e \in [kind : EventKinds, h : Heights] :
        /\ e.h <= tip[Chain]
        /\ e.kind \in ContractTxs =>
             onchain[e.kind] # Absent /\ (e.h > 0 => onchain[e.kind] = e.h) }

(* As long as the swap can still become CONTRACT_FUNDED, the deposit it    *)
(* recorded is the exact one.                                              *)
Fundable == swap.status \in {"CREATED", "CONTRACT_FUNDED_UNCONFIRMED"}

RecordIsTrue ==
    Fundable =>
        /\ ev # "record"
        /\ swap.inputAmount = "exact"
        /\ swap.lockTxHeight > 0 => swap.lockTxHeight = onchain["exact"]

DepositConfirmed == hasEnoughConfirmations(onchain["exact"], tip[Chain])

PaymentFollowsDeposit ==
    /\ feed \in Seq(TrueEvents)
    /\ RecordIsTrue
    /\ pay # "off" \/ payment # "none" => DepositConfirmed

(* The chain's heights are numbers.                                        *)
ChainNumbers == tip[Chain] \in Nat /\ \A t \in ContractTxs : onchain[t] \in Int

LEMMA ChainType == TypeInv => ChainNumbers
<1> SUFFICES ASSUME TypeInv PROVE ChainNumbers
  OBVIOUS
<1>1. tip[Chain] \in Nat
  BY SwapInAssumption DEF TypeInv, WorldTypeOK
<1>2. \A t \in ContractTxs : onchain[t] \in {Absent} \cup Heights
  BY DEF TypeInv, WorldTypeOK
<1>3. \A x \in {Absent} \cup Heights : x \in Int
  BY HeightsAreNaturals DEF Absent
<1> QED BY <1>1, <1>2, <1>3 DEF ChainNumbers

(* The chain only grows: a transaction that was broadcast stays so, and one *)
(* that was mined keeps its height.                                        *)
LEMMA ChainGrows ==
    ASSUME TypeInv, [Next]_vars
    PROVE  /\ tip[Chain] <= tip'[Chain]
           /\ \A t \in ContractTxs :
                /\ onchain[t] # Absent => onchain'[t] # Absent
                /\ onchain[t] > 0 => onchain'[t] = onchain[t]
<1>1. tip[Chain] \in Nat /\ \A t \in ContractTxs : onchain[t] \in Int
  BY ChainType DEF ChainNumbers
<1> USE DEF TypeInv, WorldTypeOK
<1>2. CASE UNCHANGED <<tip, onchain>>
  BY <1>1, <1>2
<1>3. ASSUME NEW u \in ContractTxs, onchain[u] = Absent, UNCHANGED tip,
             onchain' = [onchain EXCEPT ![u] = Mempool]
      PROVE  /\ tip[Chain] <= tip'[Chain]
             /\ \A t \in ContractTxs :
                  /\ onchain[t] # Absent => onchain'[t] # Absent
                  /\ onchain[t] > 0 => onchain'[t] = onchain[t]
  BY <1>1, <1>3 DEF Absent, Mempool
<1>4. CASE Deposit
  <2>1. PICK d \in {"exact"} \cup Strays :
          onchain[d] = Absent /\ onchain' = [onchain EXCEPT ![d] = Mempool]
    BY <1>4 DEF Deposit
  <2>2. d \in ContractTxs /\ UNCHANGED tip
    BY <1>4, SwapInAssumption DEF Deposit, ContractTxs, Deposits
  <2> QED BY <1>3, <2>1, <2>2
<1>5. CASE BroadcastClaim \/ UserRefunds
  BY <1>2, <1>3, <1>5 DEF BroadcastClaim, UserRefunds, Spend, ContractTxs, Spends
<1>6. CASE NewBlock
  <2>1. PICK S \in SUBSET ContractTxs :
          /\ \A t \in S : onchain[t] = Mempool
          /\ tip' = [tip EXCEPT ![Chain] = tip[Chain] + 1]
          /\ onchain' = [t \in ContractTxs |->
                           IF t \in S THEN tip[Chain] + 1 ELSE onchain[t]]
    BY <1>6 DEF NewBlock, Minable
  <2> QED BY <1>1, <2>1, SwapInAssumption DEF Mempool, Absent
<1>7. CASE NewBitcoinBlock
  BY <1>1, <1>7, SwapInAssumption DEF NewBitcoinBlock, Chains
<1> QED
  BY <1>2, <1>4, <1>5, <1>6, <1>7
  DEF Next, ServerStep, WorldStep, vars, world, chain, CheckExpiry, ComputeLimit,
      SendPayment, PaymentReply, RetryPayment, InvoicePaid, ProcessNewBlock,
      ProcessFundingTx, RecordMismatch, RecordSpendingTx, ApplySpendingTx,
      NobodyListens, CommitEvent, Crash, Restart, Resume, UserSettles, PaymentFails

(* What was true stays true.                                               *)
LEMMA TruthStays ==
    ASSUME TypeInv, [Next]_vars
    PROVE  /\ TrueEvents \subseteq TrueEvents'
           /\ DepositConfirmed => DepositConfirmed'
<1>1. ChainNumbers /\ ChainNumbers'
  BY StepTypeInv, ChainType, PTL
<1>2. /\ tip[Chain] \in Nat /\ tip'[Chain] \in Nat
      /\ onchain["exact"] \in Int /\ onchain'["exact"] \in Int
  BY <1>1 DEF ChainNumbers, ContractTxs, Deposits
<1>3. /\ tip[Chain] <= tip'[Chain]
      /\ \A t \in ContractTxs :
           /\ onchain[t] # Absent => onchain'[t] # Absent
           /\ onchain[t] > 0 => onchain'[t] = onchain[t]
  BY ChainGrows
<1>4. ASSUME NEW e \in TrueEvents PROVE e \in TrueEvents'
  <2>1. /\ e \in [kind : EventKinds, h : Heights] /\ e.h \in Nat
        /\ e.h <= tip[Chain]
        /\ e.kind \in ContractTxs =>
             onchain[e.kind] # Absent /\ (e.h > 0 => onchain[e.kind] = e.h)
    BY HeightsAreNaturals DEF TrueEvents
  <2>2. e.h <= tip'[Chain]
    BY <1>2, <1>3, <2>1
  <2>3. e.kind \in ContractTxs =>
          onchain'[e.kind] # Absent /\ (e.h > 0 => onchain'[e.kind] = e.h)
    BY <1>3, <2>1
  <2> QED BY <2>1, <2>2, <2>3 DEF TrueEvents
<1>5. DepositConfirmed => DepositConfirmed'
  BY <1>2, <1>3, ConfirmationsAssumption
  DEF DepositConfirmed, hasEnoughConfirmations, ContractTxs, Deposits
<1> QED BY <1>4, <1>5

(* nbxplorer announces what is on the chain.                               *)
LEMMA FeedStaysTrue ==
    ASSUME TypeInv, [Next]_vars, feed \in Seq(TrueEvents)
    PROVE  feed' \in Seq(TrueEvents')
<1>1. feed \in Seq(TrueEvents')
  BY TruthStays
<1>2. CASE feed' = feed
  BY <1>1, <1>2
<1>3. CASE CommitEvent
  <2>1. feed # << >> /\ feed' = Tail(feed)
    BY <1>3 DEF CommitEvent, TypeInv, HandlerHasEvent
  <2> QED BY <1>1, <2>1, HeadTailProperties
<1>4. ASSUME NEW t \in ContractTxs, feed' = Append(feed, Event(t, 0)),
             onchain'[t] # Absent
      PROVE  feed' \in Seq(TrueEvents')
  <2>1. tip'[Chain] \in Nat
    BY StepTypeInv, SwapInAssumption DEF TypeInv, WorldTypeOK
  <2>2. Event(t, 0) \in TrueEvents'
    BY <1>4, <2>1, HeightsAreNaturals DEF TrueEvents, Event, EventKinds
  <2> QED BY <1>1, <1>4, <2>2, AppendProperties
<1>5. CASE NewBlock
  <2> DEFINE h == tip[Chain] + 1
             b == Event("block", h)
  <2>1. PICK S \in SUBSET ContractTxs :
          /\ tip' = [tip EXCEPT ![Chain] = h]
          /\ onchain' = [t \in ContractTxs |-> IF t \in S THEN h ELSE onchain[t]]
          /\ \/ feed' = Append(feed, b) \o TxEvents(S, h)
             \/ feed' = Append(feed \o TxEvents(S, h), b)
    BY <1>5 DEF NewBlock
  <2>2. h \in Heights /\ tip'[Chain] = h
    <3>1. tip[Chain] \in Nat /\ tip[Chain] < MaxHeight[Chain]
      BY <1>5, ChainType DEF NewBlock, ChainNumbers
    <3>2. tip'[Chain] = h
      BY <2>1, SwapInAssumption DEF TypeInv, WorldTypeOK
    <3> QED BY <3>1, <3>2, SwapInAssumption DEF Heights, Chains
  <2>3. ASSUME NEW k \in EventKinds, k \in ContractTxs => k \in S
        PROVE  Event(k, h) \in TrueEvents'
    <3>1. k \in ContractTxs => onchain'[k] = h
      BY <2>1, <2>3
    <3> HIDE DEF h
    <3>2. h \in Nat /\ h # Absent
      BY <2>2, HeightsAreNaturals DEF Absent
    <3> QED BY <2>2, <2>3, <3>1, <3>2 DEF TrueEvents, Event
  <2> DEFINE txs == TxEvents(S, h)
  <2>4. b \in TrueEvents'
    BY <2>3 DEF EventKinds, ContractTxs, Deposits, Spends
  <2>5. \A t \in S \cap ContractTxs : Event(t, h) \in TrueEvents'
    BY <2>3 DEF EventKinds
  <2>6. txs \in Seq(TrueEvents')
    BY <2>5, TxEventsType
  <2>7. feed' = Append(feed, b) \o txs \/ feed' = Append(feed \o txs, b)
    BY <2>1
  <2> HIDE DEF h, b, txs
  <2> QED BY <1>1, <2>4, <2>6, <2>7, BlockFeedType
<1>6. ASSUME NEW t \in ContractTxs, NEW d, Announce(t, d),
             onchain' = [onchain EXCEPT ![t] = Mempool]
      PROVE  feed' \in Seq(TrueEvents')
  <2>1. onchain'[t] # Absent
    BY <1>6 DEF TypeInv, WorldTypeOK, Mempool, Absent
  <2> QED BY <1>2, <1>4, <1>6, <2>1 DEF Announce
<1>7. CASE Deposit
  <2>1. PICK d \in {"exact"} \cup Strays :
          Announce(d, d) /\ onchain' = [onchain EXCEPT ![d] = Mempool]
    BY <1>7 DEF Deposit
  <2> QED BY <1>6, <2>1, SwapInAssumption DEF ContractTxs, Deposits
<1>8. CASE BroadcastClaim \/ UserRefunds
  BY <1>2, <1>6, <1>8 DEF BroadcastClaim, UserRefunds, Spend, ContractTxs, Spends
<1> QED
  BY <1>2, <1>3, <1>5, <1>7, <1>8
  DEF Next, ServerStep, WorldStep, vars, world, CheckExpiry, ComputeLimit, SendPayment,
      PaymentReply, RetryPayment, InvoicePaid, ProcessNewBlock, ProcessFundingTx,
      RecordMismatch, RecordSpendingTx, ApplySpendingTx, NobodyListens, Crash,
      Restart, Resume, UserSettles, PaymentFails, NewBitcoinBlock

(* The event under way is a true one.                                      *)
LEMMA HeadIsTrue ==
    ASSUME TypeInv, feed \in Seq(TrueEvents), feed # << >>
    PROVE  /\ height \in Nat /\ height <= tip[Chain]
           /\ Head(feed).kind \in ContractTxs =>
                /\ onchain[Head(feed).kind] # Absent
                /\ height > 0 => onchain[Head(feed).kind] = height
<1>1. Head(feed) \in TrueEvents
  BY HeadTailProperties
<1> QED BY <1>1, HeightsAreNaturals DEF TrueEvents, height

(* A deposit of the agreed amount is recorded at the height it has.        *)
LEMMA ExpectedAmountIsTrue ==
    ASSUME TypeInv, PaymentFollowsDeposit, feed # << >>, ev' = "done",
           ExpectedAmount(Head(feed).kind), UNCHANGED onchain
    PROVE  RecordIsTrue'
<1> SUFFICES ASSUME Fundable' PROVE RecordIsTrue'
  BY DEF RecordIsTrue
<1>1. swap \in Entities
  BY DEF TypeInv, ProcessTypeOK
<1>2. RecordFunding(Head(feed).kind) /\ Head(feed).kind = swap.inputAmount
  BY DEF ExpectedAmount
<1>3. Fundable
  BY <1>1, <1>2 DEF RecordFunding, Fundable, Entities
<1>4. /\ swap.inputAmount = "exact"
      /\ swap.lockTxHeight > 0 => swap.lockTxHeight = onchain["exact"]
  BY <1>3 DEF PaymentFollowsDeposit, RecordIsTrue
<1>5. height \in Nat /\ (height > 0 => onchain["exact"] = height)
  BY <1>2, <1>4, HeadIsTrue DEF PaymentFollowsDeposit, ContractTxs, Deposits
<1>6. /\ swap'.inputAmount = "exact"
      /\ swap'.lockTxHeight = confirmedHeight(swap.lockTxHeight)
  BY <1>1, <1>2, <1>3, <1>4 DEF RecordFunding, Fundable, Entities
<1> QED BY <1>4, <1>5, <1>6 DEF RecordIsTrue, confirmedHeight

(* What the swap remembers of the deposit stays true.                      *)
LEMMA RecordStaysTrue ==
    ASSUME TypeInv, PaymentFollowsDeposit, [Next]_vars
    PROVE  RecordIsTrue'
<1>1. swap \in Entities /\ onchain["exact"] \in Int
  BY ChainType DEF TypeInv, ProcessTypeOK, ChainNumbers, ContractTxs, Deposits
<1>2. CASE ProcessFundingTx
  <2>1. /\ feed # << >> /\ UNCHANGED world
        /\ \/ AssetMismatch(Head(feed).kind) \/ AmountMismatch(Head(feed).kind)
           \/ ExpectedAmount(Head(feed).kind) /\ ev' = "done"
    <3>1. PICK d \in Deposits :
            Dispatch(d) /\ (AssetMismatch(d) \/ AmountMismatch(d) \/ ExpectedAmount(d))
      BY <1>2 DEF ProcessFundingTx
    <3>2. feed # << >> /\ Head(feed).kind = d
      BY <3>1 DEF Dispatch
    <3>3. ExpectedAmount(d) => ev' = "done"
      BY DEF ExpectedAmount
    <3> QED BY <1>2, <3>1, <3>2, <3>3 DEF ProcessFundingTx
  <2>2. CASE AssetMismatch(Head(feed).kind)
    BY <1>1, <2>2 DEF AssetMismatch, RecordIsTrue, Fundable, Entities
  <2>3. CASE AmountMismatch(Head(feed).kind)
    BY <1>1, <2>3 DEF AmountMismatch, RecordIsTrue, Fundable, Entities
  <2>4. CASE ExpectedAmount(Head(feed).kind) /\ ev' = "done"
    BY <2>1, <2>4, ExpectedAmountIsTrue DEF world, chain
  <2> QED BY <2>1, <2>2, <2>3, <2>4
<1>3. CASE RecordMismatch
  <2>1. ~Fundable
    BY <1>3 DEF RecordMismatch, PaymentFollowsDeposit, RecordIsTrue
  <2>2. ~Fundable'
    BY <1>1, <1>3, <2>1 DEF RecordMismatch, RecordFunding, Fundable, Entities
  <2> QED BY <2>2 DEF RecordIsTrue
<1>4. CASE ~ProcessFundingTx /\ ~RecordMismatch
  <2>1. Fundable' =>
          /\ Fundable
          /\ swap'.inputAmount = swap.inputAmount
          /\ swap'.lockTxHeight = swap.lockTxHeight
    <3> USE <1>1, <1>4 DEF Fundable, Entities
    <3>1. CASE ServerStep
      BY <3>1
      DEF ServerStep, CheckExpiry, ComputeLimit, SendPayment, PaymentReply,
          RetryPayment, InvoicePaid, BroadcastClaim, ProcessNewBlock, BlockExpires,
          BlockConfirmsMismatch, BlockFunds, BlockFinishes, BlockIgnored,
          RecordSpendingTx, HandlerThrows, ApplySpendingTx, NobodyListens,
          CommitEvent, Restart, Resume, Die
    <3>2. CASE WorldStep \/ Crash \/ UNCHANGED vars
      BY <3>2
      DEF WorldStep, Deposit, UserSettles, PaymentFails, UserRefunds, NewBlock,
          NewBitcoinBlock, Crash, Die, vars, server
    <3> QED BY <3>1, <3>2 DEF Next
  <2>2. ev' = "record" => ev = "record"
    BY <1>4
    DEF Next, ServerStep, WorldStep, vars, server, tasks, CheckExpiry, ComputeLimit,
        SendPayment, PaymentReply, RetryPayment, InvoicePaid, BroadcastClaim,
        ProcessNewBlock, RecordSpendingTx, HandlerThrows, ApplySpendingTx,
        NobodyListens, CommitEvent, Crash, Restart, Resume, Die, Deposit, UserSettles,
        PaymentFails, UserRefunds, NewBlock, NewBitcoinBlock
  <2>3. onchain["exact"] > 0 => onchain'["exact"] = onchain["exact"]
    BY ChainGrows DEF ContractTxs, Deposits
  <2> QED BY <2>1, <2>2, <2>3 DEF PaymentFollowsDeposit, RecordIsTrue
<1> QED BY <1>2, <1>3, <1>4

(* The payment starts when the deposit is confirmed, and not before.       *)
LEMMA StepPaymentFollowsDeposit ==
    TypeInv /\ PaymentFollowsDeposit /\ [Next]_vars => PaymentFollowsDeposit'
<1> SUFFICES ASSUME TypeInv, PaymentFollowsDeposit, [Next]_vars
             PROVE  PaymentFollowsDeposit'
  OBVIOUS
<1>1. feed' \in Seq(TrueEvents')
  BY FeedStaysTrue DEF PaymentFollowsDeposit
<1>2. RecordIsTrue'
  BY RecordStaysTrue
<1>3. pay' # "off" \/ payment' # "none" => DepositConfirmed'
  <2>1. CASE ProcessNewBlock /\ BlockFunds
    <3>1. /\ swap.status = "CONTRACT_FUNDED_UNCONFIRMED"
          /\ hasEnoughConfirmations(swap.lockTxHeight, height)
          /\ feed # << >>
      BY <2>1 DEF ProcessNewBlock, Dispatch, BlockFunds
    <3>2. swap.lockTxHeight > 0 /\ swap.lockTxHeight = onchain["exact"]
      BY <3>1
      DEF PaymentFollowsDeposit, RecordIsTrue, Fundable, hasEnoughConfirmations
    <3>3. height \in Nat /\ height <= tip[Chain]
      BY <3>1, HeadIsTrue DEF PaymentFollowsDeposit
    <3>4. onchain["exact"] \in Int /\ tip[Chain] \in Nat
      BY ChainType DEF ChainNumbers, ContractTxs, Deposits
    <3>5. DepositConfirmed
      BY <3>1, <3>2, <3>3, <3>4, ConfirmationsAssumption
      DEF DepositConfirmed, hasEnoughConfirmations
    <3> QED BY <3>5, TruthStays
  <2>2. CASE ~(ProcessNewBlock /\ BlockFunds)
    <3>1. pay' # "off" => pay # "off"
      BY <2>2
      DEF Next, ServerStep, WorldStep, vars, server, tasks, CheckExpiry, ComputeLimit,
          SendPayment, PaymentReply, RetryPayment, InvoicePaid, BroadcastClaim,
          ProcessNewBlock, BlockExpires, BlockConfirmsMismatch, BlockFinishes,
          BlockIgnored, ProcessFundingTx, RecordMismatch, RecordSpendingTx,
          HandlerThrows, ApplySpendingTx, NobodyListens, CommitEvent, Crash, Restart,
          Resume, Die, Deposit, UserSettles, PaymentFails, UserRefunds, NewBlock,
          NewBitcoinBlock
    <3>2. payment' # "none" => payment # "none" \/ pay # "off"
      BY DEF Next, ServerStep, WorldStep, vars, world, lightning, CheckExpiry,
          ComputeLimit, SendPayment, PaymentReply, RetryPayment, InvoicePaid,
          BroadcastClaim, ProcessNewBlock, ProcessFundingTx, RecordMismatch,
          RecordSpendingTx, ApplySpendingTx, NobodyListens, CommitEvent, Crash,
          Restart, Resume, Deposit, UserSettles, PaymentFails, UserRefunds, NewBlock,
          NewBitcoinBlock
    <3> QED BY <3>1, <3>2, TruthStays DEF PaymentFollowsDeposit
  <2> QED BY <2>1, <2>2
<1> QED BY <1>1, <1>2, <1>3 DEF PaymentFollowsDeposit

(* The invoice is paid only against a deposit of the exact amount that has *)
(* the required confirmations, whatever other deposits, amounts and assets *)
(* arrive and in whatever order (SwapInRunner.processContractFundingTx).   *)
THEOREM SwapInPaidOnlyWhenFunded == Spec => []PaidOnlyWhenFunded
<1>1. Init => PaymentFollowsDeposit
  BY DEF Init, NewSwap, PaymentFollowsDeposit, RecordIsTrue, Fundable
<1>2. PaymentFollowsDeposit => PaidOnlyWhenFunded
  BY DEF PaymentFollowsDeposit, PaidOnlyWhenFunded, DepositConfirmed
<1> QED
  BY <1>1, <1>2, InitTypeInv, StepTypeInv, StepPaymentFollowsDeposit, PTL DEF Spec

-----------------------------------------------------------------------------
(* What the polls are told.                                                *)

(* With no deposit but the exact one, the swap is never a mismatch, and    *)
(* the refund and the claim spend that deposit.                            *)
OnlyExactDeposit ==
    /\ onchain["other"] = Absent /\ onchain["foreign"] = Absent
    /\ swap.lockTx \in {"none", "exact"} /\ swap.inputAmount = "exact"
    /\ swap.status \notin {"CONTRACT_AMOUNT_MISMATCH",
                            "CONTRACT_AMOUNT_MISMATCH_UNCONFIRMED"}
    /\ ev # "record"
    /\ claimer \in {"off", "exact"}
    /\ onchain["refund"] # Absent => spends["refund"] = "exact"

(* The swap while its payment may still succeed: it goes on without it,    *)
(* until the user has taken the contract back.                             *)
AwaitsPayment ==
    \/ swap.status \in {"CONTRACT_FUNDED", "CONTRACT_EXPIRED", "CONTRACT_REFUNDED_UNCONFIRMED"}
    \/ swap.status = "DONE" /\ swap.outcome = "REFUNDED"

(* A payment is noticed once, and it is what moves the swap to its claim.  *)
PaymentNoticedOnce ==
    /\ swap.preImage => pay = "off"
    /\ pay # "off" => AwaitsPayment
    /\ swap.status \in {"INVOICE_PAID", "CONTRACT_CLAIMED_UNCONFIRMED"} => swap.preImage
    /\ Fundable => pay = "off"
    /\ AwaitsPayment \/ Fundable => ~swap.preImage

(* The outcome is written with DONE; a payment noticed after a refund is   *)
(* the only thing that moves the status on, and no claim follows it.       *)
OutcomeIsWrittenLast ==
    /\ swap.outcome # "NONE" =>
         \/ swap.status = "DONE"
         \/ swap.status = "INVOICE_PAID" /\ swap.outcome = "REFUNDED"
    /\ swap.unlockTxHeight > 0 /\ ~swap.preImage => onchain["refund"] > 0
    /\ swap.outcome = "REFUNDED" => onchain["refund"] > 0 /\ onchain["claim"] = Absent

ViewInv == OnlyExactDeposit /\ PaymentNoticedOnce /\ OutcomeIsWrittenLast

(* The view's moves that are made.                                         *)
LEMMA ViewMoves ==
    /\ Ended("EXPIRED") \in InMoves["CREATED"]
    /\ At("CONTRACT_FUNDED_UNCONFIRMED") \in InMoves["CREATED"]
    /\ \A s \in {"CONTRACT_FUNDED_UNCONFIRMED", "CONTRACT_FUNDED"} :
         At("CONTRACT_EXPIRED") \in InMoves[s]
    /\ At("CONTRACT_FUNDED") \in InMoves["CONTRACT_FUNDED_UNCONFIRMED"]
    /\ \A s \in {"CONTRACT_FUNDED", "CONTRACT_EXPIRED", "CONTRACT_REFUNDED_UNCONFIRMED"} :
         At("INVOICE_PAID") \in InMoves[s]
    /\ [status |-> "INVOICE_PAID", outcome |-> "REFUNDED"] \in InMoves["DONE"]
    /\ At("CONTRACT_REFUNDED_UNCONFIRMED") \in InMoves["CONTRACT_EXPIRED"]
    /\ At("CONTRACT_CLAIMED_UNCONFIRMED") \in InMoves["INVOICE_PAID"]
    /\ Ended("SUCCESS") \in InMoves["CONTRACT_CLAIMED_UNCONFIRMED"]
    /\ Ended("REFUNDED") \in InMoves["CONTRACT_REFUNDED_UNCONFIRMED"]
BY DEF InMoves, At, Ended

(* With no stray deposit, the chain only ever sees spends of the exact one, *)
(* and no claim after a refund that was mined.                             *)
LEMMA ExactChainStep ==
    ASSUME Strays = {}, TypeInv, ViewInv, [Next]_vars
    PROVE  /\ onchain'["other"] = Absent /\ onchain'["foreign"] = Absent
           /\ onchain'["refund"] # Absent => spends'["refund"] = "exact"
           /\ onchain["refund"] > 0 => onchain'["refund"] > 0
           /\ swap.outcome = "REFUNDED" => onchain'["claim"] = Absent
<1>1. /\ onchain \in [ContractTxs -> {Absent} \cup Heights]
      /\ spends \in [Spends -> {"none", "exact", "other"}]
      /\ onchain["refund"] \in Int
      /\ {"exact", "other", "foreign", "claim", "refund"} \subseteq ContractTxs
      /\ {"claim", "refund"} \subseteq Spends
  BY ChainType DEF TypeInv, WorldTypeOK, ChainNumbers, ContractTxs, Deposits, Spends
<1>2. /\ onchain["other"] = Absent /\ onchain["foreign"] = Absent
      /\ onchain["refund"] # Absent => spends["refund"] = "exact"
      /\ swap.outcome = "REFUNDED" => onchain["refund"] > 0 /\ onchain["claim"] = Absent
      /\ swap.lockTx \in {"none", "exact"} /\ claimer \in {"off", "exact"}
  BY DEF ViewInv, OnlyExactDeposit, OutcomeIsWrittenLast
<1>3. CASE UNCHANGED <<onchain, spends>>
  BY <1>2, <1>3
<1>4. CASE Deposit
  BY <1>1, <1>2, <1>4 DEF Deposit, Absent, Mempool
<1>5. CASE BroadcastClaim /\ ~UNCHANGED <<onchain, spends>>
  <2>1. Spend("claim", "exact")
    BY <1>2, <1>5 DEF BroadcastClaim
  <2>2. ~(onchain["refund"] > 0 /\ spends["refund"] = "exact")
    BY <1>1, <2>1 DEF Spend, Spent, Mempool
  <2>3. swap.outcome # "REFUNDED"
    BY <1>1, <1>2, <2>2 DEF Absent
  <2> QED BY <1>1, <1>2, <2>1, <2>3 DEF Spend
<1>6. CASE UserRefunds
  <2>1. Spend("refund", "exact")
    BY <1>2, <1>6 DEF UserRefunds
  <2> QED BY <1>1, <1>2, <2>1 DEF Spend, Absent, Mempool
<1>7. CASE NewBlock
  <2>1. PICK S \in SUBSET ContractTxs :
          /\ \A t \in S : onchain[t] = Mempool
          /\ onchain' = [t \in ContractTxs |->
                           IF t \in S THEN tip[Chain] + 1 ELSE onchain[t]]
          /\ UNCHANGED spends
    BY <1>7 DEF NewBlock, Minable
  <2>2. Mempool # Absent
    BY DEF Mempool, Absent
  <2>3. onchain["refund"] > 0 => "refund" \notin S
    BY <1>1, <2>1 DEF Mempool
  <2>4. \A t \in ContractTxs : onchain[t] = Absent => onchain'[t] = Absent
    BY <2>1, <2>2
  <2> QED BY <1>1, <1>2, <2>1, <2>3, <2>4
<1> QED
  BY <1>3, <1>4, <1>5, <1>6, <1>7
  DEF Next, ServerStep, WorldStep, vars, world, chain, CheckExpiry, ComputeLimit,
      SendPayment, PaymentReply, RetryPayment, InvoicePaid, ProcessNewBlock,
      ProcessFundingTx, RecordMismatch, RecordSpendingTx, ApplySpendingTx,
      NobodyListens, CommitEvent, Crash, Restart, Resume, UserSettles, PaymentFails,
      NewBitcoinBlock

(* What a poll may see of a step.                                          *)
SameView == swap'.status = swap.status /\ swap'.outcome = swap.outcome

ViewMoved ==
    [status |-> swap'.status, outcome |-> swap'.outcome] \in InMoves[swap.status]

(* Whatever leaves the entity alone keeps the invariant, unless it starts  *)
(* a payment, a claim or a second save.                                    *)
LEMMA QuietStep ==
    ASSUME Strays = {}, TypeInv, ViewInv, [Next]_vars,
           swap' = swap,
           pay' # "off" => pay # "off",
           claimer' \in {"off", claimer},
           ev' = "record" => ev = "record"
    PROVE  ViewInv' /\ SameView
<1>1. /\ onchain'["other"] = Absent /\ onchain'["foreign"] = Absent
      /\ onchain'["refund"] # Absent => spends'["refund"] = "exact"
      /\ onchain["refund"] > 0 => onchain'["refund"] > 0
      /\ swap.outcome = "REFUNDED" => onchain'["claim"] = Absent
  BY ExactChainStep
<1>2. OnlyExactDeposit'
  BY <1>1 DEF ViewInv, OnlyExactDeposit
<1>3. PaymentNoticedOnce'
  BY DEF ViewInv, PaymentNoticedOnce, AwaitsPayment, Fundable
<1>4. OutcomeIsWrittenLast'
  BY <1>1 DEF ViewInv, OutcomeIsWrittenLast
<1> QED BY <1>2, <1>3, <1>4 DEF ViewInv, SameView

(* An entity whose status and outcome alone are written.                   *)
LEMMA StatusWritten ==
    ASSUME NEW s \in Entities, NEW x \in Statuses, NEW o \in Outcomes
    PROVE  LET t == [s EXCEPT !.status = x]
               u == [s EXCEPT !.status = x, !.outcome = o]
           IN  /\ t.status = x /\ t.outcome = s.outcome
               /\ u.status = x /\ u.outcome = o
               /\ t.preImage = s.preImage /\ u.preImage = s.preImage
               /\ t.lockTx = s.lockTx /\ u.lockTx = s.lockTx
               /\ t.inputAmount = s.inputAmount /\ u.inputAmount = s.inputAmount
               /\ t.unlockTxHeight = s.unlockTxHeight
               /\ u.unlockTxHeight = s.unlockTxHeight
BY DEF Entities

(* A block moves the status as the view allows.                            *)
LEMMA BlockKeepsView ==
    ASSUME Strays = {}, TypeInv, ClaimFollowsPayment, ViewInv, [Next]_vars,
           ProcessNewBlock
    PROVE  ViewInv' /\ (ViewMoved \/ SameView)
<1>1. /\ swap \in Entities
      /\ ev' = "done" /\ UNCHANGED <<onchain, spends, claimer>>
  BY DEF ProcessNewBlock, TypeInv, ProcessTypeOK, world, chain
<1>2. /\ OnlyExactDeposit /\ PaymentNoticedOnce /\ OutcomeIsWrittenLast
  BY DEF ViewInv
<1>3. {"CONTRACT_EXPIRED", "CONTRACT_FUNDED", "DONE"} \subseteq Statuses
  BY DEF Statuses
<1>4. {"REFUNDED", "SUCCESS"} \subseteq Outcomes
  BY DEF Outcomes
<1> USE <1>1, <1>2, <1>3, <1>4
        DEF OnlyExactDeposit, PaymentNoticedOnce, AwaitsPayment, Fundable,
            OutcomeIsWrittenLast
<1>5. CASE BlockExpires
  <2>1. /\ swap.status \in {"CONTRACT_FUNDED", "CONTRACT_FUNDED_UNCONFIRMED"}
        /\ swap' = [swap EXCEPT !.status = "CONTRACT_EXPIRED"]
        /\ UNCHANGED pay
    BY <1>5 DEF BlockExpires, Expiring
  <2>2. ViewInv'
    BY <2>1, StatusWritten DEF ViewInv
  <2>3. ViewMoved
    BY <2>1, ViewMoves, StatusWritten DEF ViewMoved, At
  <2> QED BY <2>2, <2>3
<1>6. CASE BlockConfirmsMismatch
  BY <1>6 DEF BlockConfirmsMismatch
<1>7. CASE BlockFunds
  <2>1. /\ swap.status = "CONTRACT_FUNDED_UNCONFIRMED"
        /\ swap' = [swap EXCEPT !.status = "CONTRACT_FUNDED"]
        /\ pay' = "limit"
    BY <1>7 DEF BlockFunds
  <2>2. ViewInv'
    BY <2>1, StatusWritten DEF ViewInv
  <2>3. ViewMoved
    BY <2>1, ViewMoves, StatusWritten DEF ViewMoved, At
  <2> QED BY <2>2, <2>3
<1>8. CASE BlockFinishes /\ swap.status = "CONTRACT_REFUNDED_UNCONFIRMED"
  <2>1. /\ swap' = [swap EXCEPT !.status = "DONE", !.outcome = "REFUNDED"]
        /\ swap.unlockTxHeight > 0
        /\ UNCHANGED pay
    BY <1>8 DEF BlockFinishes, hasEnoughConfirmations
  <2>2. onchain["refund"] > 0 /\ onchain["claim"] = Absent
    BY <1>8, <2>1 DEF ClaimFollowsPayment
  <2>3. ViewInv'
    BY <1>8, <2>1, <2>2, StatusWritten DEF ViewInv
  <2>4. ViewMoved
    BY <1>8, <2>1, ViewMoves, StatusWritten DEF ViewMoved, Ended
  <2> QED BY <2>3, <2>4
<1>9. CASE BlockFinishes /\ swap.status = "CONTRACT_CLAIMED_UNCONFIRMED"
  <2>1. /\ swap' = [swap EXCEPT !.status = "DONE", !.outcome = "SUCCESS"]
        /\ UNCHANGED pay
    BY <1>9 DEF BlockFinishes
  <2>2. ViewInv'
    BY <1>9, <2>1, StatusWritten DEF ViewInv
  <2>3. ViewMoved
    BY <1>9, <2>1, ViewMoves, StatusWritten DEF ViewMoved, Ended
  <2> QED BY <2>2, <2>3
<1>10. CASE BlockIgnored
  BY <1>10, QuietStep DEF BlockIgnored
<1> QED
  BY <1>5, <1>6, <1>7, <1>8, <1>9, <1>10 DEF ProcessNewBlock, BlockFinishes

(* A sighting of the deposit, or of what spends it, does so too.           *)
LEMMA SightingKeepsView ==
    ASSUME Strays = {}, TypeInv, ClaimFollowsPayment, PaymentFollowsDeposit, ViewInv,
           [Next]_vars,
           ProcessFundingTx \/ RecordMismatch \/ RecordSpendingTx \/ ApplySpendingTx
    PROVE  ViewInv' /\ (ViewMoved \/ SameView)
<1>1. /\ swap \in Entities
      /\ UNCHANGED <<onchain, spends>>
      /\ pay' \in {"off", pay} /\ claimer' \in {"off", claimer}
      /\ feed # << >>
  <2>1. swap \in Entities /\ (ev # "idle" => feed # << >>)
    BY DEF TypeInv, ProcessTypeOK, HandlerHasEvent
  <2>2. UNCHANGED <<onchain, spends>>
    BY DEF ProcessFundingTx, RecordMismatch, RecordSpendingTx, ApplySpendingTx, world,
           chain
  <2>3. pay' \in {"off", pay} /\ claimer' \in {"off", claimer}
    BY DEF ProcessFundingTx, RecordMismatch, RecordSpendingTx, ApplySpendingTx,
           HandlerThrows, Die, tasks
  <2>4. feed # << >>
    BY <2>1
    DEF ProcessFundingTx, RecordMismatch, RecordSpendingTx, ApplySpendingTx, Dispatch
  <2> QED BY <2>1, <2>2, <2>3, <2>4
<1>2. /\ OnlyExactDeposit /\ PaymentNoticedOnce /\ OutcomeIsWrittenLast
  BY DEF ViewInv
<1>3. /\ height \in Nat
      /\ Head(feed).kind \in ContractTxs =>
           /\ onchain[Head(feed).kind] # Absent
           /\ height > 0 => onchain[Head(feed).kind] = height
  BY <1>1, HeadIsTrue DEF PaymentFollowsDeposit
<1>4. CASE RecordMismatch
  BY <1>2, <1>4 DEF RecordMismatch, OnlyExactDeposit
<1>5. CASE swap' = swap /\ ev' # "record"
  BY <1>1, <1>5, QuietStep
<1> USE <1>1, <1>2
        DEF OnlyExactDeposit, PaymentNoticedOnce, AwaitsPayment, Fundable,
            OutcomeIsWrittenLast
<1>6. CASE ProcessFundingTx /\ ~(swap' = swap /\ ev' # "record")
  <2>1. PICK d \in Deposits :
          /\ Dispatch(d)
          /\ AssetMismatch(d) \/ AmountMismatch(d) \/ ExpectedAmount(d)
    BY <1>6 DEF ProcessFundingTx
  <2>2. d = "exact"
    BY <1>3, <2>1 DEF Dispatch, Deposits, ContractTxs
  <2>3. RecordFunding("exact") /\ ev' = "done" /\ UNCHANGED <<pay, claimer>>
    BY <1>6, <2>1, <2>2
    DEF ProcessFundingTx, AssetMismatch, AmountMismatch, ExpectedAmount, tasks
  <2>4. /\ swap.status \in {"CREATED", "CONTRACT_FUNDED_UNCONFIRMED"}
        /\ swap'.status = "CONTRACT_FUNDED_UNCONFIRMED"
        /\ swap'.lockTx = "exact" /\ swap'.inputAmount = "exact"
        /\ swap'.outcome = swap.outcome /\ swap'.preImage = swap.preImage
        /\ swap'.unlockTxHeight = swap.unlockTxHeight
    BY <1>6, <2>3 DEF RecordFunding, Entities
  <2>5. ViewInv'
    BY <2>3, <2>4 DEF ViewInv
  <2>6. ViewMoved \/ SameView
    BY <2>4, ViewMoves DEF ViewMoved, SameView, At
  <2> QED BY <2>5, <2>6
<1>7. CASE RecordSpendingTx /\ ~(swap' = swap /\ ev' # "record")
  <2>1. /\ swap' = [swap EXCEPT !.unlockTxHeight = confirmedHeight(@)]
        /\ ev' = "spend" /\ UNCHANGED <<pay, claimer>>
        /\ Head(feed).kind \in {"claim", "refund"}
    BY <1>7 DEF RecordSpendingTx, HandlerThrows, Die, Dispatch, Spends, tasks
  <2>2. height > 0 /\ ~swap.preImage => onchain["refund"] > 0
    BY <1>3, <2>1 DEF ClaimFollowsPayment, ContractTxs, Spends
  <2>3. /\ swap'.unlockTxHeight = confirmedHeight(swap.unlockTxHeight)
        /\ swap'.status = swap.status /\ swap'.outcome = swap.outcome
        /\ swap'.lockTx = swap.lockTx /\ swap'.inputAmount = swap.inputAmount
        /\ swap'.preImage = swap.preImage
    BY <2>1 DEF Entities
  <2>4. ViewInv'
    BY <2>1, <2>2, <2>3 DEF ViewInv, confirmedHeight
  <2> QED BY <2>3, <2>4 DEF SameView
<1>8. CASE ApplySpendingTx /\ ~(swap' = swap /\ ev' # "record")
  <2>1. /\ ev' = "done" /\ UNCHANGED <<pay, claimer>>
        /\ \/ /\ Head(feed).kind = "claim" /\ swap.status = "INVOICE_PAID"
              /\ swap' = [swap EXCEPT !.status = "CONTRACT_CLAIMED_UNCONFIRMED"]
           \/ /\ swap.status = "CONTRACT_EXPIRED"
              /\ swap' = [swap EXCEPT !.status = "CONTRACT_REFUNDED_UNCONFIRMED"]
    BY <1>8 DEF ApplySpendingTx, tasks
  <2>2. swap.outcome = "NONE"
    BY <1>3, <2>1 DEF ContractTxs, Spends, Entities, Outcomes
  <2>3. /\ swap'.outcome = swap.outcome /\ swap'.unlockTxHeight = swap.unlockTxHeight
        /\ swap'.lockTx = swap.lockTx /\ swap'.inputAmount = swap.inputAmount
        /\ swap'.preImage = swap.preImage
    BY <2>1 DEF Entities
  <2>4. \/ /\ swap.status = "INVOICE_PAID"
           /\ swap'.status = "CONTRACT_CLAIMED_UNCONFIRMED"
        \/ /\ swap.status = "CONTRACT_EXPIRED"
           /\ swap'.status = "CONTRACT_REFUNDED_UNCONFIRMED"
    BY <2>1 DEF Entities
  <2>5. ViewInv'
    BY <2>1, <2>2, <2>3, <2>4 DEF ViewInv
  <2>6. ViewMoved
    BY <2>2, <2>3, <2>4, ViewMoves DEF ViewMoved, At
  <2> QED BY <2>5, <2>6
<1> QED BY <1>4, <1>5, <1>6, <1>7, <1>8

(* Every step keeps the invariant and moves the view as it may.            *)
LEMMA StepViewInv ==
    ASSUME Strays = {}, TypeInv, ClaimFollowsPayment, PaymentFollowsDeposit, ViewInv,
           [Next]_vars
    PROVE  ViewInv' /\ (ViewMoved \/ SameView)
<1>1. swap \in Entities
  BY DEF TypeInv, ProcessTypeOK
<1>2. OnlyExactDeposit /\ PaymentNoticedOnce /\ OutcomeIsWrittenLast
  BY DEF ViewInv
<1>3. CASE CheckExpiry
  <2>1. /\ swap.status = "CREATED"
        /\ swap' = [swap EXCEPT !.status = "DONE", !.outcome = "EXPIRED"]
        /\ UNCHANGED <<pay, claimer, ev, onchain, spends>>
    BY <1>3 DEF CheckExpiry, tasks, world, chain
  <2>2. /\ swap'.status = "DONE" /\ swap'.outcome = "EXPIRED"
        /\ swap'.preImage = swap.preImage /\ swap'.unlockTxHeight = swap.unlockTxHeight
        /\ swap'.lockTx = swap.lockTx /\ swap'.inputAmount = swap.inputAmount
    BY <1>1, <2>1, StatusWritten DEF Statuses, Outcomes
  <2>3. ViewInv'
    BY <1>2, <2>1, <2>2
    DEF ViewInv, OnlyExactDeposit, PaymentNoticedOnce, AwaitsPayment, Fundable,
        OutcomeIsWrittenLast
  <2>4. ViewMoved
    BY <2>1, <2>2, ViewMoves DEF ViewMoved, Ended
  <2> QED BY <2>3, <2>4
<1>4. CASE InvoicePaid
  <2>1. /\ swap' = [swap EXCEPT !.status = "INVOICE_PAID", !.preImage = TRUE]
        /\ pay = "paid" /\ pay' = "off" /\ claimer' = swap.lockTx
        /\ UNCHANGED <<ev, onchain, spends>>
    BY <1>4 DEF InvoicePaid, world, chain
  <2>2. /\ swap'.status = "INVOICE_PAID" /\ swap'.outcome = swap.outcome
        /\ swap'.preImage /\ swap'.unlockTxHeight = swap.unlockTxHeight
        /\ swap'.lockTx = swap.lockTx /\ swap'.inputAmount = swap.inputAmount
    BY <1>1, <2>1 DEF Entities
  <2>3. /\ AwaitsPayment /\ swap.lockTx = "exact"
        /\ swap.outcome = IF swap.status = "DONE" THEN "REFUNDED" ELSE "NONE"
    BY <1>1, <1>2, <2>1
    DEF PaymentNoticedOnce, AwaitsPayment, OnlyExactDeposit, OutcomeIsWrittenLast,
        TypeInv, DepositKnown, Entities
  <2>4. ViewInv'
    BY <1>2, <2>1, <2>2, <2>3
    DEF ViewInv, OnlyExactDeposit, PaymentNoticedOnce, AwaitsPayment, Fundable,
        OutcomeIsWrittenLast
  <2>5. ViewMoved
    BY <2>2, <2>3, ViewMoves DEF ViewMoved, AwaitsPayment, At
  <2> QED BY <2>4, <2>5
<1>5. CASE ProcessNewBlock
  BY <1>5, BlockKeepsView
<1>6. CASE ProcessFundingTx \/ RecordMismatch \/ RecordSpendingTx \/ ApplySpendingTx
  BY <1>6, SightingKeepsView
<1>7. CASE ComputeLimit \/ SendPayment \/ PaymentReply \/ RetryPayment
           \/ BroadcastClaim \/ NobodyListens \/ CommitEvent \/ Restart \/ Resume
           \/ Crash \/ WorldStep \/ UNCHANGED vars
  <2>1. /\ swap' = swap /\ claimer' \in {"off", claimer}
        /\ pay' # "off" => pay # "off"
        /\ ev' = "record" => ev = "record"
    BY <1>7
    DEF ComputeLimit, SendPayment, PaymentReply, RetryPayment, BroadcastClaim, Die,
        NobodyListens, CommitEvent, Restart, Resume, Crash, WorldStep, Deposit,
        UserSettles, PaymentFails, UserRefunds, NewBlock, NewBitcoinBlock, vars,
        server, tasks
  <2> QED BY <2>1, QuietStep
<1> QED
  BY <1>3, <1>4, <1>5, <1>6, <1>7 DEF Next, ServerStep

(* Of a swap whose contract only gets the exact deposit, polls are told    *)
(* what SwapView allows, whatever the order of deposit, payment, blocks and *)
(* spends, whatever fails, and however often the server stops              *)
(* (SwapInRunner's writes of status and outcome).                          *)
THEOREM SwapInImplementsView ==
    ASSUME Strays = {}
    PROVE  Spec => ImplementsView
<1>1. Init => ClaimFollowsPayment /\ PaymentFollowsDeposit /\ ViewInv
  BY DEF Init, NewSwap, ClaimFollowsPayment, PaymentFollowsDeposit, RecordIsTrue,
         Fundable, ViewInv, OnlyExactDeposit, PaymentNoticedOnce, AwaitsPayment,
         OutcomeIsWrittenLast, ContractTxs, Deposits, Spends
<1>2. Spec => [](TypeInv /\ ClaimFollowsPayment /\ PaymentFollowsDeposit /\ ViewInv)
  BY <1>1, InitTypeInv, StepTypeInv, StepClaimFollowsPayment,
     StepPaymentFollowsDeposit, StepViewInv, PTL DEF Spec
<1>3. Init => View!Init
  BY DEF Init, NewSwap, View!Init, view
<1>4. ASSUME TypeInv, ClaimFollowsPayment, PaymentFollowsDeposit, ViewInv, [Next]_vars
      PROVE  [View!Next \/ FurtherDepositMoves]_view
  BY <1>4, StepViewInv DEF View!Next, view, ViewMoved, SameView
<1> QED BY <1>2, <1>3, <1>4, PTL DEF Spec, ImplementsView

-----------------------------------------------------------------------------
(* What DONE says.                                                         *)

(* The recorded height is that of the claim or of the refund, a saved      *)
(* preimage was paid for, and each outcome has what it speaks of.  A swap  *)
(* that expired was never paid: it was still CREATED.                      *)
OutcomeBacked ==
    /\ swap.unlockTxHeight > 0 =>
         swap.unlockTxHeight \in {onchain["claim"], onchain["refund"]}
    /\ swap.preImage => payment = "settled"
    /\ swap.status = "CREATED" => swap.lockTx = "none" /\ payment = "none"
    /\ swap.status = "DONE" => swap.outcome # "NONE"
    /\ CASE swap.outcome = "SUCCESS" ->
              payment = "settled" /\ hasEnoughConfirmations(onchain["claim"], tip[Chain])
         [] swap.outcome = "REFUNDED" ->
              hasEnoughConfirmations(onchain["refund"], tip[Chain])
         [] swap.outcome = "EXPIRED" ->
              swap.status = "DONE" /\ swap.lockTx = "none" /\ payment = "none"
         [] swap.outcome = "ERROR" -> FALSE
         [] OTHER -> TRUE

(* A transaction that was confirmed stays so.                              *)
LEMMA ConfirmedStays ==
    ASSUME TypeInv, [Next]_vars, NEW t \in ContractTxs,
           hasEnoughConfirmations(onchain[t], tip[Chain])
    PROVE  hasEnoughConfirmations(onchain'[t], tip'[Chain])
<1>1. ChainNumbers /\ ChainNumbers'
  BY StepTypeInv, ChainType, PTL
<1>2. /\ tip[Chain] \in Nat /\ tip'[Chain] \in Nat
      /\ onchain[t] \in Int /\ onchain'[t] \in Int
  BY <1>1 DEF ChainNumbers
<1>3. tip[Chain] <= tip'[Chain] /\ (onchain[t] > 0 => onchain'[t] = onchain[t])
  BY ChainGrows
<1> QED BY <1>2, <1>3, ConfirmationsAssumption DEF hasEnoughConfirmations

(* Nobody pays for a swap that is CREATED, or that expired: no task does.  *)
LEMMA UnpaidStays ==
    ASSUME ViewInv, [Next]_vars, payment = "none",
           \/ swap.status = "CREATED"
           \/ swap.status = "DONE" /\ swap.outcome = "EXPIRED"
    PROVE  payment' = "none"
<1>1. pay = "off"
  BY DEF ViewInv, PaymentNoticedOnce, AwaitsPayment
<1> QED
  BY <1>1
  DEF Next, ServerStep, WorldStep, vars, world, lightning, server, CheckExpiry,
      ComputeLimit, SendPayment, PaymentReply, RetryPayment, InvoicePaid, BroadcastClaim,
      ProcessNewBlock, ProcessFundingTx, RecordMismatch, RecordSpendingTx,
      ApplySpendingTx, NobodyListens, CommitEvent, Restart, Resume, Crash, Deposit,
      UserSettles, PaymentFails, UserRefunds, NewBlock, NewBitcoinBlock

(* A step that leaves what the outcome rests on leaves the outcome backed. *)
LEMMA BackedStays ==
    ASSUME TypeInv, ViewInv, OutcomeBacked, [Next]_vars,
           swap'.outcome = swap.outcome, swap'.unlockTxHeight = swap.unlockTxHeight,
           swap'.preImage => swap.preImage \/ payment = "settled",
           \/ swap'.status = swap.status /\ swap'.lockTx = swap.lockTx
           \/ /\ swap.outcome # "EXPIRED"
              /\ swap'.status \notin {"CREATED", "DONE"}
    PROVE  OutcomeBacked'
<1>1. payment = "settled" => payment' = "settled"
  BY PreimageStays
<1>2. /\ swap \in Entities
      /\ {"claim", "refund"} \subseteq ContractTxs
  BY DEF TypeInv, ProcessTypeOK, ContractTxs, Spends
<1>3. swap'.unlockTxHeight > 0 =>
        swap'.unlockTxHeight \in {onchain'["claim"], onchain'["refund"]}
  BY <1>2, ChainGrows DEF OutcomeBacked
<1>4. ASSUME NEW t \in {"claim", "refund"},
             hasEnoughConfirmations(onchain[t], tip[Chain])
      PROVE  hasEnoughConfirmations(onchain'[t], tip'[Chain])
  BY <1>2, <1>4, ConfirmedStays
<1>5. swap.status = "CREATED" \/ swap.outcome = "EXPIRED" => payment' = "none"
  BY UnpaidStays DEF OutcomeBacked
<1> QED BY <1>1, <1>2, <1>3, <1>4, <1>5 DEF OutcomeBacked, Entities, Outcomes

(* No step writes an outcome the chain and LND do not back, as long as the *)
(* two payments have not parted.                                           *)
LEMMA StepOutcomeBacked ==
    ASSUME Strays = {}, TypeInv, ClaimFollowsPayment, PaymentFollowsDeposit, ViewInv,
           BothSucceedOrBothFail, OutcomeBacked, [Next]_vars
    PROVE  OutcomeBacked'
<1>1. /\ swap \in Entities
      /\ OnlyExactDeposit /\ PaymentNoticedOnce /\ OutcomeIsWrittenLast
  BY DEF TypeInv, ProcessTypeOK, ViewInv
<1>2. CASE swap' = swap
  BY <1>2, BackedStays
<1>3. CASE CheckExpiry
  <2>1. /\ swap.status = "CREATED" /\ swap.lockTx = "none" /\ payment = "none"
        /\ swap' = [swap EXCEPT !.status = "DONE", !.outcome = "EXPIRED"]
        /\ UNCHANGED <<payment, onchain, tip>>
    BY <1>3 DEF CheckExpiry, OutcomeBacked, world, lightning, chain
  <2>2. /\ swap'.status = "DONE" /\ swap'.outcome = "EXPIRED"
        /\ swap'.preImage = swap.preImage /\ swap'.unlockTxHeight = swap.unlockTxHeight
        /\ swap'.lockTx = swap.lockTx
    BY <1>1, <2>1, StatusWritten DEF Statuses, Outcomes
  <2> QED BY <2>1, <2>2 DEF OutcomeBacked
<1>4. CASE InvoicePaid
  <2>1. /\ swap' = [swap EXCEPT !.status = "INVOICE_PAID", !.preImage = TRUE]
        /\ payment = "settled" /\ AwaitsPayment
    BY <1>1, <1>4 DEF InvoicePaid, ClaimFollowsPayment, PaymentNoticedOnce
  <2>2. /\ swap'.status = "INVOICE_PAID" /\ swap'.outcome = swap.outcome
        /\ swap'.unlockTxHeight = swap.unlockTxHeight
    BY <1>1, <2>1 DEF Entities
  <2>3. swap.outcome # "EXPIRED"
    BY <1>1, <2>1 DEF AwaitsPayment, OutcomeIsWrittenLast
  <2> QED BY <2>1, <2>2, <2>3, BackedStays
<1>5. CASE ProcessNewBlock /\ BlockFinishes
  <2>1. /\ feed # << >> /\ UNCHANGED <<payment, onchain, tip>>
        /\ hasEnoughConfirmations(swap.unlockTxHeight, height)
    BY <1>5 DEF ProcessNewBlock, Dispatch, BlockFinishes, world, lightning, chain
  <2>2. height \in Nat /\ height <= tip[Chain]
    BY <2>1, HeadIsTrue DEF PaymentFollowsDeposit
  <2>3. /\ tip[Chain] \in Nat /\ swap.unlockTxHeight \in Nat
        /\ onchain["refund"] \in Int
    BY <1>1, ChainType, HeightsAreNaturals
    DEF ChainNumbers, Entities, ContractTxs, Spends
  <2>4. hasEnoughConfirmations(swap.unlockTxHeight, tip[Chain])
    BY <2>1, <2>2, <2>3, ConfirmationsAssumption DEF hasEnoughConfirmations
  <2>5. /\ swap.unlockTxHeight > 0
        /\ swap.unlockTxHeight \in {onchain["claim"], onchain["refund"]}
    BY <2>1 DEF hasEnoughConfirmations, OutcomeBacked
  <2>6. CASE swap.status = "CONTRACT_REFUNDED_UNCONFIRMED"
    <3>1. swap' = [swap EXCEPT !.status = "DONE", !.outcome = "REFUNDED"]
      BY <1>5, <2>6 DEF BlockFinishes
    <3>2. onchain["claim"] = Absent
      BY <1>1, <2>6 DEF PaymentNoticedOnce, AwaitsPayment, ClaimFollowsPayment
    <3>3. swap.unlockTxHeight = onchain["refund"]
      BY <2>5, <3>2 DEF Absent
    <3>4. /\ swap'.status = "DONE" /\ swap'.outcome = "REFUNDED"
          /\ swap'.preImage = swap.preImage
          /\ swap'.unlockTxHeight = swap.unlockTxHeight
      BY <1>1, <3>1, StatusWritten DEF Statuses, Outcomes
    <3> QED BY <2>1, <2>4, <2>5, <3>3, <3>4 DEF OutcomeBacked
  <2>7. CASE swap.status = "CONTRACT_CLAIMED_UNCONFIRMED"
    <3>1. swap' = [swap EXCEPT !.status = "DONE", !.outcome = "SUCCESS"]
      BY <1>5, <2>7 DEF BlockFinishes
    <3>2. payment = "settled"
      BY <1>1, <2>7 DEF PaymentNoticedOnce, OutcomeBacked
    <3>3. swap.unlockTxHeight = onchain["claim"]
      BY <2>3, <2>5, <3>2 DEF BothSucceedOrBothFail, Mempool
    <3>4. /\ swap'.status = "DONE" /\ swap'.outcome = "SUCCESS"
          /\ swap'.preImage = swap.preImage
          /\ swap'.unlockTxHeight = swap.unlockTxHeight
      BY <1>1, <3>1, StatusWritten DEF Statuses, Outcomes
    <3> QED BY <2>1, <2>4, <2>5, <3>2, <3>3, <3>4 DEF OutcomeBacked
  <2> QED BY <1>5, <2>6, <2>7 DEF BlockFinishes
<1>6. CASE ProcessNewBlock /\ ~BlockFinishes /\ swap' # swap
  <2>1. PICK x \in {"CONTRACT_EXPIRED", "CONTRACT_AMOUNT_MISMATCH", "CONTRACT_FUNDED"} :
          /\ swap' = [swap EXCEPT !.status = x]
          /\ swap.status # "DONE"
    BY <1>6
    DEF ProcessNewBlock, BlockExpires, Expiring, BlockConfirmsMismatch, BlockFunds,
        BlockIgnored
  <2>2. /\ swap'.status = x /\ swap'.outcome = swap.outcome
        /\ swap'.preImage = swap.preImage /\ swap'.unlockTxHeight = swap.unlockTxHeight
    BY <1>1, <2>1 DEF Entities
  <2>3. swap.outcome # "EXPIRED"
    BY <1>1, <2>1 DEF OutcomeIsWrittenLast
  <2> QED BY <2>2, <2>3, BackedStays
<1>7. CASE ProcessFundingTx /\ swap' # swap
  <2>1. PICK d \in Deposits :
          /\ Dispatch(d)
          /\ AssetMismatch(d) \/ AmountMismatch(d) \/ ExpectedAmount(d)
    BY <1>7 DEF ProcessFundingTx
  <2>2. /\ feed # << >> /\ Head(feed).kind = d
        /\ d \in ContractTxs
    BY <2>1 DEF Dispatch, ContractTxs
  <2>3. onchain[d] # Absent
    BY <2>2, HeadIsTrue DEF PaymentFollowsDeposit
  <2>4. d = "exact"
    BY <1>1, <2>3 DEF OnlyExactDeposit, Deposits
  <2>5. RecordFunding("exact")
    BY <1>1, <2>1, <2>4
    DEF AssetMismatch, AmountMismatch, ExpectedAmount, OnlyExactDeposit
  <2>6. /\ swap.status \in {"CREATED", "CONTRACT_FUNDED_UNCONFIRMED"}
        /\ swap'.status = "CONTRACT_FUNDED_UNCONFIRMED"
        /\ swap'.outcome = swap.outcome /\ swap'.preImage = swap.preImage
        /\ swap'.unlockTxHeight = swap.unlockTxHeight
    BY <1>1, <1>7, <2>5 DEF RecordFunding, Entities, OnlyExactDeposit
  <2>7. swap.outcome # "EXPIRED"
    BY <1>1, <2>6 DEF OutcomeIsWrittenLast
  <2> QED BY <2>6, <2>7, BackedStays
<1>8. CASE RecordSpendingTx /\ swap' # swap
  <2>1. /\ swap' = [swap EXCEPT !.unlockTxHeight = confirmedHeight(@)]
        /\ feed # << >> /\ Head(feed).kind \in {"claim", "refund"}
        /\ UNCHANGED <<payment, onchain, tip>>
    BY <1>8
    DEF RecordSpendingTx, HandlerThrows, Die, Dispatch, Spends, world, lightning, chain
  <2>2. /\ swap'.unlockTxHeight = confirmedHeight(swap.unlockTxHeight)
        /\ swap'.status = swap.status /\ swap'.outcome = swap.outcome
        /\ swap'.lockTx = swap.lockTx /\ swap'.preImage = swap.preImage
    BY <1>1, <2>1 DEF Entities
  <2>3. height > 0 => onchain[Head(feed).kind] = height
    BY <2>1, HeadIsTrue DEF PaymentFollowsDeposit, ContractTxs, Spends
  <2> QED BY <2>1, <2>2, <2>3 DEF OutcomeBacked, confirmedHeight
<1>9. CASE ApplySpendingTx /\ swap' # swap
  <2>1. PICK x \in {"CONTRACT_CLAIMED_UNCONFIRMED", "CONTRACT_REFUNDED_UNCONFIRMED"} :
          /\ swap' = [swap EXCEPT !.status = x]
          /\ swap.status # "DONE"
    BY <1>9 DEF ApplySpendingTx
  <2>2. /\ swap'.status = x /\ swap'.outcome = swap.outcome
        /\ swap'.preImage = swap.preImage /\ swap'.unlockTxHeight = swap.unlockTxHeight
    BY <1>1, <2>1 DEF Entities
  <2>3. swap.outcome # "EXPIRED"
    BY <1>1, <2>1 DEF OutcomeIsWrittenLast
  <2> QED BY <2>2, <2>3, BackedStays
<1>10. CASE RecordMismatch
  BY <1>1, <1>10 DEF RecordMismatch, OnlyExactDeposit
<1> QED
  BY <1>2, <1>3, <1>4, <1>5, <1>6, <1>7, <1>8, <1>9, <1>10
  DEF Next, ServerStep, WorldStep, vars, server, ComputeLimit, SendPayment,
      PaymentReply, RetryPayment, BroadcastClaim, Die, NobodyListens, CommitEvent,
      Restart, Resume, Crash, Deposit, UserSettles, PaymentFails, UserRefunds, NewBlock,
      NewBitcoinBlock

(* Of a swap whose contract only gets the exact deposit, DONE tells the    *)
(* truth wherever the two payments have not parted: a SUCCESS was paid and *)
(* its claim is confirmed, a REFUNDED has its refund confirmed, and for an *)
(* EXPIRED the server neither paid nor claimed, whatever deposit is or     *)
(* gets into the contract (SwapInRunner.processNewBlock, checkExpiry).     *)
THEOREM SwapInOutcomeTruthful ==
    ASSUME Strays = {}
    PROVE  Spec /\ []BothSucceedOrBothFail => []OutcomeTruthful
<1>1. Init => /\ ClaimFollowsPayment /\ PaymentFollowsDeposit /\ ViewInv
              /\ OutcomeBacked
  BY DEF Init, NewSwap, ClaimFollowsPayment, PaymentFollowsDeposit, RecordIsTrue,
         Fundable, ViewInv, OnlyExactDeposit, PaymentNoticedOnce, AwaitsPayment,
         OutcomeIsWrittenLast, OutcomeBacked, ContractTxs, Deposits, Spends
<1>2. TypeInv /\ ClaimFollowsPayment /\ OutcomeBacked => OutcomeTruthful
  BY DEF OutcomeBacked, OutcomeTruthful, ClaimFollowsPayment, TypeInv, ProcessTypeOK,
         Entities, Outcomes
<1> QED
  BY <1>1, <1>2, InitTypeInv, StepTypeInv, StepClaimFollowsPayment,
     StepPaymentFollowsDeposit, StepViewInv, StepOutcomeBacked, PTL DEF Spec

-----------------------------------------------------------------------------
(* The payment ends before the contract.                                   *)

(* With one attempt, a payment is sent with the limit of the moment, since *)
(* no block comes in between.                                              *)
LimitIsFresh ==
    Chain = "BITCOIN" =>
      /\ pay # "off" => attempt = 1
      /\ pay = "send" => cltvLimit = remainingCltv
      /\ payment = "inflight" => htlcExpiry < timeoutBlockHeight

(* What the finding about the zero limit is about.                         *)
LimitIsNotZero == pay = "send" => cltvLimit # 0

(* No step sends a payment that outlives the contract.                     *)
LEMMA StepLimitIsFresh ==
    ASSUME Prompt, Retries = 1, CltvMargin # 0,
           TypeInv, LimitIsFresh, LimitIsNotZero, [Next]_vars
    PROVE  LimitIsFresh'
<1> SUFFICES ASSUME Chain = "BITCOIN"
             PROVE  /\ pay' # "off" => attempt' = 1
                    /\ pay' = "send" => cltvLimit' = remainingCltv'
                    /\ payment' = "inflight" => htlcExpiry' < timeoutBlockHeight
  BY DEF LimitIsFresh, timeoutBlockHeight
<1>1. /\ pay # "off" => attempt = 1
      /\ pay = "send" => cltvLimit = remainingCltv
      /\ payment = "inflight" => htlcExpiry < timeoutBlockHeight
  BY DEF LimitIsFresh
<1>2. ASSUME UNCHANGED tip PROVE remainingCltv' = remainingCltv
  BY <1>2 DEF remainingCltv, timeoutBlockHeight
<1>3. CASE ComputeLimit
  BY <1>1, <1>2, <1>3 DEF ComputeLimit, world, chain, lightning
<1>4. CASE SendPayment
  <2>1. /\ pay = "send" /\ pay' \in {"wait", "failed"} /\ UNCHANGED attempt
    BY <1>4 DEF SendPayment
  <2>2. effectiveLimit = timeoutBlockHeight - tip["BITCOIN"] - CltvMargin
    BY <1>1, <2>1 DEF effectiveLimit, remainingCltv, LimitIsNotZero
  <2>3. /\ tip["BITCOIN"] \in Nat /\ timeoutBlockHeight \in Int
        /\ CltvMargin \in Nat /\ FinalCltv \in Nat /\ MaxCltvExpiry \in Nat
    BY SwapInAssumption DEF TypeInv, WorldTypeOK, Chains, timeoutBlockHeight
  <2>4. payment' = "inflight" => htlcExpiry' < timeoutBlockHeight
    <3>1. CASE UNCHANGED lightning
      BY <1>1, <3>1 DEF lightning
    <3>2. CASE ~UNCHANGED lightning
      <4>1. /\ effectiveLimit \in FinalCltv .. MaxCltvExpiry
            /\ htlcExpiry' \in {tip["BITCOIN"] + FinalCltv,
                                tip["BITCOIN"] + effectiveLimit}
        BY <1>4, <3>2 DEF SendPayment
      <4> QED BY <2>2, <2>3, <4>1
    <3> QED BY <3>1, <3>2
  <2> QED BY <1>1, <2>1, <2>4
<1>5. CASE RetryPayment
  BY <1>1, <1>5 DEF RetryPayment, world, lightning
<1>6. CASE ProcessNewBlock
  <2>1. /\ \/ pay' = "limit" /\ attempt' = 1
           \/ UNCHANGED <<pay, attempt>>
        /\ UNCHANGED <<cltvLimit, lightning, tip>>
    BY <1>6
    DEF ProcessNewBlock, BlockExpires, BlockConfirmsMismatch, BlockFunds, BlockFinishes,
        BlockIgnored, world, chain
  <2> QED BY <1>1, <1>2, <2>1 DEF lightning
<1>7. CASE NewBlock
  <2>1. pay # "send" /\ UNCHANGED <<pay, attempt, lightning>>
    BY <1>7 DEF NewBlock, Unhurried, server, tasks
  <2> QED BY <1>1, <2>1 DEF lightning
<1>8. CASE ~ComputeLimit /\ ~SendPayment /\ ~RetryPayment /\ ~ProcessNewBlock /\ ~NewBlock
  <2>1. /\ \/ pay' = pay
           \/ pay' \in {"off", "paid", "failed"} /\ pay # "off"
           \/ pay' = "off"
        /\ UNCHANGED <<attempt, cltvLimit, tip>>
        /\ payment' = "inflight" => payment = "inflight"
        /\ UNCHANGED htlcExpiry
    BY <1>8
    DEF Next, ServerStep, WorldStep, vars, server, tasks, world, lightning, chain,
        CheckExpiry, PaymentReply, InvoicePaid, BroadcastClaim, ProcessFundingTx,
        RecordMismatch, RecordSpendingTx, HandlerThrows, ApplySpendingTx,
        NobodyListens, CommitEvent, Crash, Restart, Resume, Die, Deposit, UserSettles,
        PaymentFails, UserRefunds, NewBitcoinBlock
  <2> QED BY <1>1, <1>2, <2>1
<1> QED BY <1>3, <1>4, <1>5, <1>6, <1>7, <1>8

(* On Bitcoin, with a single attempt, calls that return within a block and *)
(* a margin, a payment ends before the user can refund, unless the limit   *)
(* was exactly zero: the retry and the zero limit are the only ways in     *)
(* which SwapInRunner's limit fails to bound it there.                     *)
THEOREM SwapInPaymentEndsBeforeTimeout ==
    ASSUME Chain = "BITCOIN", Prompt, Retries = 1, CltvMargin # 0
    PROVE  Spec /\ []LimitIsNotZero => []PaymentEndsBeforeTimeout
<1>1. Init => LimitIsFresh
  BY DEF Init, LimitIsFresh
<1>2. LimitIsFresh => PaymentEndsBeforeTimeout
  BY DEF LimitIsFresh, PaymentEndsBeforeTimeout
<1> QED
  BY <1>1, <1>2, InitTypeInv, StepTypeInv, StepLimitIsFresh, PTL DEF Spec

-----------------------------------------------------------------------------
(* Both payments, or neither.                                              *)

(* An instance of Bitcoin on which nothing fails and nobody is late, for a *)
(* swap whose contract only gets the exact deposit.                        *)
Calm ==
    /\ Chain = "BITCOIN" /\ Strays = {}
    /\ Faults \subseteq {"late_resume"} /\ MaxCrashes = 0
    /\ Prompt /\ Retries = 1 /\ CltvMargin # 0

(* A settled payment is on its way to a mined claim: its reply, the claim  *)
(* to broadcast, or the claim itself, which gets into a block before the   *)
(* timeout.                                                                *)
ClaimIsComing ==
    \/ pay \in {"wait", "paid"} /\ tip[Chain] < timeoutBlockHeight
    \/ claimer = "exact" /\ tip[Chain] < timeoutBlockHeight
    \/ /\ onchain["claim"] # Absent
       /\ onchain["claim"] = Mempool => tip[Chain] < timeoutBlockHeight

(* Before the timeout the refund does not exist; what exists spends a      *)
(* deposit the server has recorded.                                        *)
SpendsInOrder ==
    /\ onchain["refund"] # Absent =>
         /\ tip[Chain] >= timeoutBlockHeight
         /\ payment # "inflight" /\ payment # "settled"
    /\ onchain["claim"] # Absent => spends["claim"] = "exact"
    /\ claimer # "off" \/ (\E t \in Spends : onchain[t] # Absent) =>
         swap.lockTx # "none"
    /\ (\E t \in Spends : onchain[t] # Absent) => onchain["exact"] # Absent

CalmInv ==
    /\ up
    /\ payment = "inflight" => pay = "wait" /\ tip["BITCOIN"] <= htlcExpiry
    /\ payment = "settled" => ClaimIsComing
    /\ SpendsInOrder

(* The numbers of an instance on Bitcoin, and where its transactions are.  *)
LEMMA CalmNumbers ==
    ASSUME Calm, TypeInv
    PROVE  /\ tip \in [Chains -> Nat] /\ tip["BITCOIN"] \in Nat /\ htlcExpiry \in Nat
           /\ timeoutBlockHeight \in Int
           /\ FinalCltv \in Nat /\ FinalCltv > 0 /\ MaxCltvExpiry \in Nat
           /\ onchain \in [ContractTxs -> Int]
           /\ \A t \in ContractTxs : onchain[t] # Absent => onchain[t] >= 0
           /\ spends \in [Spends -> {"none", "exact", "other"}]
           /\ ContractTxs = {"exact", "other", "foreign", "claim", "refund"}
           /\ Spends = {"claim", "refund"}
           /\ Absent = -1 /\ Mempool = 0
<1>1. \A x \in {Absent} \cup Heights : x \in Int /\ (x # Absent => x >= 0)
  BY HeightsAreNaturals DEF Absent
<1>2. onchain \in [ContractTxs -> {Absent} \cup Heights]
  BY DEF TypeInv, WorldTypeOK
<1>3. /\ onchain \in [ContractTxs -> Int]
      /\ \A t \in ContractTxs : onchain[t] # Absent => onchain[t] >= 0
  BY <1>1, <1>2
<1>4. /\ tip \in [Chains -> Nat] /\ htlcExpiry \in Nat
      /\ spends \in [Spends -> {"none", "exact", "other"}]
  BY DEF TypeInv, WorldTypeOK
<1>5. /\ timeoutBlockHeight \in Int
      /\ FinalCltv \in Nat /\ FinalCltv > 0 /\ MaxCltvExpiry \in Nat
  BY SwapInAssumption DEF timeoutBlockHeight
<1> QED BY <1>3, <1>4, <1>5 DEF Chains, ContractTxs, Deposits, Spends, Absent, Mempool

(* What leaves LND, the chain and the tasks alone, and forgets no deposit. *)
LEMMA CalmStays ==
    ASSUME Calm, CalmInv, up',
           UNCHANGED <<payment, htlcExpiry, tip, onchain, spends, pay, claimer>>,
           swap.lockTx # "none" => swap'.lockTx # "none"
    PROVE  CalmInv'
BY DEF CalmInv, ClaimIsComing, SpendsInOrder, timeoutBlockHeight

(* No block comes between a settled payment and its claim in the mempool,  *)
(* and the next one mines the claim.                                       *)
LEMMA BlockKeepsCalm ==
    ASSUME Calm, TypeInv, ClaimFollowsPayment, LimitIsFresh, CalmInv, NewBlock
    PROVE  CalmInv'
<1> DEFINE b == tip["BITCOIN"]
<1>1. PICK S \in SUBSET ContractTxs :
        /\ Mined(S)
        /\ \A t \in S : onchain[t] = Mempool
        /\ tip' = [tip EXCEPT !["BITCOIN"] = b + 1]
        /\ onchain' = [t \in ContractTxs |-> IF t \in S THEN b + 1 ELSE onchain[t]]
  BY DEF NewBlock, Minable, Calm
<1>2. /\ UNCHANGED <<swap, up, pay, claimer, payment, htlcExpiry, spends>>
      /\ claimer = "off" /\ pay \in {"off", "wait"}
      /\ payment = "settled" => pay = "off"
      /\ payment = "inflight" => b < htlcExpiry
  BY DEF NewBlock, Unhurried, server, tasks, lightning, Calm
<1>3. tip'["BITCOIN"] = b + 1 /\ b \in Nat
  BY <1>1, CalmNumbers DEF Chains
<1>4. payment' = "inflight" => pay' = "wait" /\ tip'["BITCOIN"] <= htlcExpiry'
  BY <1>2, <1>3, CalmNumbers DEF CalmInv
<1>5. ASSUME payment = "settled" PROVE ClaimIsComing'
  <2>1. onchain["claim"] # Absent /\ spends["claim"] = "exact"
    BY <1>2, <1>5 DEF CalmInv, ClaimIsComing, SpendsInOrder
  <2>2. onchain["refund"] = Absent
    BY <1>5 DEF CalmInv, SpendsInOrder
  <2>3. ASSUME onchain["claim"] = Mempool PROVE "claim" \in S
    <3>1. ~Spent("exact")
      BY <2>2, <2>3, CalmNumbers DEF Spent
    <3>2. "refund" \notin S
      BY <1>1, <2>2, CalmNumbers
    <3> QED BY <1>1, <2>1, <2>3, <3>1, <3>2, CalmNumbers DEF Mined, Calm
  <2>4. onchain'["claim"] # Absent /\ onchain'["claim"] # Mempool
    BY <1>1, <1>3, <2>1, <2>3, CalmNumbers
  <2> QED BY <2>4 DEF ClaimIsComing
<1>6. SpendsInOrder'
  <2>1. \A t \in ContractTxs : onchain'[t] # Absent <=> onchain[t] # Absent
    BY <1>1, <1>3, CalmNumbers
  <2>2. timeoutBlockHeight' = timeoutBlockHeight
    BY DEF timeoutBlockHeight
  <2>3. onchain["refund"] # Absent => tip'[Chain] >= timeoutBlockHeight
    BY <1>3, CalmNumbers DEF CalmInv, SpendsInOrder, Calm
  <2> HIDE DEF b
  <2> QED BY <1>2, <2>1, <2>2, <2>3, CalmNumbers DEF CalmInv, SpendsInOrder
<1> QED BY <1>2, <1>4, <1>5, <1>6 DEF CalmInv

(* The payment is sent, taken, noticed and claimed before the timeout.     *)
LEMMA TaskKeepsCalm ==
    ASSUME Calm, TypeInv, ClaimFollowsPayment, ViewInv, LimitIsFresh, LimitIsFresh',
           CalmInv,
           \/ SendPayment \/ PaymentReply \/ RetryPayment \/ ComputeLimit
           \/ InvoicePaid \/ BroadcastClaim \/ UserSettles \/ PaymentFails
    PROVE  CalmInv'
<1>1. /\ Chain = "BITCOIN"
      /\ "pay_ambiguous" \notin Faults /\ "broadcast_error" \notin Faults
      /\ timeoutBlockHeight' = timeoutBlockHeight
  BY DEF Calm, timeoutBlockHeight
<1>2. /\ up
      /\ payment = "inflight" => pay = "wait" /\ tip["BITCOIN"] <= htlcExpiry
      /\ payment = "settled" => ClaimIsComing
      /\ SpendsInOrder
  BY DEF CalmInv
<1>3. payment = "inflight" => tip["BITCOIN"] < timeoutBlockHeight
  BY <1>1, <1>2, CalmNumbers DEF LimitIsFresh
<1>4. /\ claimer # "off" => payment = "settled"
      /\ pay = "paid" => payment = "settled"
      /\ onchain["claim"] # Absent => payment = "settled"
  BY DEF ClaimFollowsPayment
<1>5. CASE SendPayment
  <2>1. /\ pay = "send" /\ pay' \in {"wait", "failed"}
        /\ UNCHANGED <<swap, up, claimer, tip, onchain, spends>>
    BY <1>5 DEF SendPayment, chain
  <2>2. CASE UNCHANGED lightning
    BY <1>1, <1>2, <2>1, <2>2 DEF lightning, CalmInv, ClaimIsComing, SpendsInOrder
  <2>3. CASE ~UNCHANGED lightning
    <3>1. /\ payment' = "inflight" /\ pay' = "wait"
          /\ payment \in {"none", "failed"}
          /\ effectiveLimit \in FinalCltv .. MaxCltvExpiry
          /\ htlcExpiry' \in {tip["BITCOIN"] + FinalCltv,
                              tip["BITCOIN"] + effectiveLimit}
      BY <1>5, <2>3 DEF SendPayment
    <3>2. tip["BITCOIN"] <= htlcExpiry'
      BY <3>1, CalmNumbers
    <3>3. htlcExpiry' < timeoutBlockHeight
      BY <1>1, <3>1 DEF LimitIsFresh
    <3>4. htlcExpiry' \in Int
      BY <3>1, CalmNumbers
    <3>5. onchain["refund"] = Absent
      BY <1>1, <1>2, <3>2, <3>3, <3>4, CalmNumbers DEF SpendsInOrder
    <3> QED BY <1>2, <2>1, <3>1, <3>2, <3>5 DEF CalmInv, SpendsInOrder
  <2> QED BY <2>2, <2>3
<1>6. CASE PaymentReply
  <2>1. /\ pay = "wait"
        /\ payment = "settled" => pay' = "paid"
        /\ payment # "inflight"
        /\ UNCHANGED <<swap, up, claimer, payment, htlcExpiry, tip, onchain, spends>>
    BY <1>1, <1>6 DEF PaymentReply, world, lightning, chain
  <2> QED BY <1>1, <1>2, <2>1 DEF CalmInv, ClaimIsComing, SpendsInOrder
<1>7. CASE RetryPayment \/ ComputeLimit
  <2>1. /\ pay \in {"failed", "limit"}
        /\ UNCHANGED <<swap, up, claimer, payment, htlcExpiry, tip, onchain, spends>>
    BY <1>7 DEF RetryPayment, ComputeLimit, world, lightning, chain
  <2> QED BY <1>1, <1>2, <2>1 DEF CalmInv, ClaimIsComing, SpendsInOrder
<1>8. CASE InvoicePaid
  <2>1. /\ pay = "paid" /\ claimer' = swap.lockTx
        /\ swap'.lockTx = swap.lockTx
        /\ UNCHANGED <<up, payment, htlcExpiry, tip, onchain, spends>>
    BY <1>8
    DEF InvoicePaid, Entities, TypeInv, ProcessTypeOK, world, lightning, chain
  <2>2. swap.lockTx = "exact"
    BY <2>1 DEF TypeInv, DepositKnown, ViewInv, OnlyExactDeposit
  <2> QED BY <1>1, <1>2, <1>4, <2>1, <2>2 DEF CalmInv, ClaimIsComing, SpendsInOrder
<1>9. CASE BroadcastClaim
  <2>1. /\ claimer = "exact" /\ claimer' = "off" /\ payment = "settled"
        /\ onchain["refund"] = Absent
        /\ Spend("claim", claimer) \/ (onchain["claim"] # Absent /\ UNCHANGED <<onchain, spends>>)
        /\ UNCHANGED <<swap, up, pay, payment, htlcExpiry, tip>>
    BY <1>1, <1>2, <1>4, <1>9
    DEF BroadcastClaim, ViewInv, OnlyExactDeposit, SpendsInOrder, lightning
  <2>2. /\ onchain'["claim"] # Absent /\ spends'["claim"] = "exact"
        /\ onchain'["refund"] = Absent /\ onchain'["exact"] = onchain["exact"]
        /\ onchain["exact"] # Absent
        /\ onchain["claim"] # Absent => onchain'["claim"] = onchain["claim"]
    BY <1>2, <2>1, CalmNumbers DEF Spend, SpendsInOrder
  <2>3. onchain'["claim"] = Mempool => tip[Chain] < timeoutBlockHeight
    BY <1>2, <2>1, <2>2 DEF ClaimIsComing, Spend
  <2>4. swap.lockTx # "none"
    BY <1>2, <2>1 DEF SpendsInOrder
  <2> QED BY <1>1, <1>2, <2>1, <2>2, <2>3, <2>4 DEF CalmInv, ClaimIsComing, SpendsInOrder
<1>10. CASE UserSettles
  <2>1. /\ payment = "inflight" /\ payment' = "settled"
        /\ UNCHANGED <<swap, up, pay, claimer, tip, onchain, spends>>
    BY <1>10 DEF UserSettles, server, tasks, chain
  <2> QED BY <1>1, <1>2, <1>3, <2>1 DEF CalmInv, ClaimIsComing, SpendsInOrder
<1>11. CASE PaymentFails
  <2>1. /\ payment' = "failed"
        /\ UNCHANGED <<swap, up, pay, claimer, tip, onchain, spends>>
    BY <1>11 DEF PaymentFails, server, tasks, chain
  <2> QED BY <1>1, <1>2, <2>1 DEF CalmInv, SpendsInOrder
<1> QED BY <1>5, <1>6, <1>7, <1>8, <1>9, <1>10, <1>11

(* The deposit is recorded before anything spends it, and a refund waits   *)
(* for the timeout, when no payment is under way or unclaimed any more.    *)
LEMMA WorldKeepsCalm ==
    ASSUME Calm, TypeInv, ClaimFollowsPayment, PaymentFollowsDeposit, ViewInv,
           LimitIsFresh, CalmInv,
           \/ Deposit \/ UserRefunds
           \/ CheckExpiry \/ ProcessNewBlock \/ ProcessFundingTx \/ RecordMismatch
           \/ RecordSpendingTx \/ ApplySpendingTx \/ NobodyListens \/ CommitEvent
           \/ Resume
    PROVE  CalmInv'
<1>1. /\ Chain = "BITCOIN" /\ timeoutBlockHeight' = timeoutBlockHeight
      /\ swap \in Entities
  BY DEF Calm, timeoutBlockHeight, TypeInv, ProcessTypeOK
<1>2. /\ up
      /\ payment = "inflight" => pay = "wait" /\ tip["BITCOIN"] <= htlcExpiry
      /\ payment = "settled" => ClaimIsComing
      /\ SpendsInOrder
  BY DEF CalmInv
<1>3. CASE Deposit
  <2>1. /\ onchain' = [onchain EXCEPT !["exact"] = Mempool]
        /\ UNCHANGED <<swap, up, pay, claimer, payment, htlcExpiry, tip, spends>>
    BY <1>3 DEF Deposit, Calm, server, tasks, lightning
  <2>2. /\ onchain'["claim"] = onchain["claim"] /\ onchain'["refund"] = onchain["refund"]
        /\ onchain'["exact"] # Absent
    BY <2>1, CalmNumbers
  <2> QED
    BY <1>1, <1>2, <2>1, <2>2 DEF CalmInv, ClaimIsComing, SpendsInOrder, Spends
<1>4. CASE UserRefunds
  <2>1. /\ tip["BITCOIN"] >= timeoutBlockHeight /\ swap.lockTx = "exact"
        /\ Spend("refund", "exact")
        /\ UNCHANGED <<swap, up, pay, claimer, payment, htlcExpiry, tip>>
    BY <1>1, <1>4
    DEF UserRefunds, ViewInv, OnlyExactDeposit, server, tasks, lightning
  <2>2. payment # "inflight"
    BY <1>1, <1>2, <2>1, CalmNumbers DEF LimitIsFresh
  <2>3. payment # "settled"
    <3>1. SUFFICES ASSUME payment = "settled" PROVE FALSE
      OBVIOUS
    <3>2. onchain["claim"] # Absent /\ onchain["claim"] # Mempool
      BY <1>1, <1>2, <2>1, <3>1, CalmNumbers DEF ClaimIsComing
    <3>3. onchain["claim"] > Mempool /\ spends["claim"] = "exact"
      BY <1>2, <3>2, CalmNumbers DEF SpendsInOrder
    <3> QED BY <2>1, <3>3 DEF Spend, Spent, Spends
  <2>4. /\ onchain'["claim"] = onchain["claim"] /\ onchain'["exact"] = onchain["exact"]
        /\ spends'["claim"] = spends["claim"] /\ onchain["exact"] # Absent
    BY <2>1, CalmNumbers DEF Spend
  <2> QED
    BY <1>1, <1>2, <2>1, <2>2, <2>3, <2>4 DEF CalmInv, ClaimIsComing, SpendsInOrder
<1>5. CASE ProcessNewBlock
  <2>1. /\ UNCHANGED <<up, claimer, payment, htlcExpiry, tip, onchain, spends>>
        /\ pay' = pay \/ Fundable
        /\ swap'.lockTx = swap.lockTx
    BY <1>1, <1>5
    DEF ProcessNewBlock, BlockExpires, BlockConfirmsMismatch, BlockFunds, BlockFinishes,
        BlockIgnored, Fundable, Entities, world, lightning, chain
  <2>2. CASE pay' = pay
    BY <1>2, <2>1, <2>2, CalmStays
  <2>3. CASE Fundable
    <3>1. pay = "off"
      BY <2>3 DEF ViewInv, PaymentNoticedOnce
    <3> QED
      BY <1>1, <1>2, <2>1, <3>1 DEF CalmInv, ClaimIsComing, SpendsInOrder
  <2> QED BY <2>1, <2>2, <2>3
<1>6. CASE RecordSpendingTx
  <2>1. feed # << >> /\ Head(feed).kind \in Spends
    BY <1>6 DEF RecordSpendingTx, Dispatch
  <2>2. onchain[Head(feed).kind] # Absent
    BY <2>1, HeadIsTrue DEF PaymentFollowsDeposit, ContractTxs
  <2>3. swap.lockTx # "none"
    BY <1>2, <2>1, <2>2 DEF SpendsInOrder
  <2>4. /\ UNCHANGED <<up, payment, htlcExpiry, tip, onchain, spends, pay, claimer>>
        /\ swap'.lockTx = swap.lockTx
    BY <1>1, <1>6, <2>3
    DEF RecordSpendingTx, Entities, tasks, world, lightning, chain
  <2> QED BY <1>2, <2>4, CalmStays
<1>7. CASE ProcessFundingTx \/ RecordMismatch
  <2>1. feed # << >>
    BY <1>7 DEF ProcessFundingTx, RecordMismatch, Dispatch, TypeInv, HandlerHasEvent
  <2>2. swap.lockTx # "none" => swap'.lockTx # "none"
    <3>1. CASE RecordMismatch
      BY <3>1 DEF RecordMismatch, ViewInv, OnlyExactDeposit
    <3>2. CASE ProcessFundingTx
      <4>1. PICK d \in Deposits :
              AssetMismatch(d) \/ AmountMismatch(d) \/ ExpectedAmount(d)
        BY <3>2 DEF ProcessFundingTx
      <4>2. CASE AssetMismatch(d) \/ AmountMismatch(d)
        BY <1>1, <4>2 DEF AssetMismatch, AmountMismatch, Entities
      <4>3. CASE ExpectedAmount(d)
        BY <1>1, <2>1, <4>3, RecordFundingType DEF ExpectedAmount, Entities
      <4> QED BY <4>1, <4>2, <4>3
    <3> QED BY <1>7, <3>1, <3>2
  <2>3. UNCHANGED <<up, payment, htlcExpiry, tip, onchain, spends, pay, claimer>>
    BY <1>7 DEF ProcessFundingTx, RecordMismatch, tasks, world, lightning, chain
  <2> QED BY <1>2, <2>2, <2>3, CalmStays
<1>8. CASE CheckExpiry \/ ApplySpendingTx \/ NobodyListens \/ CommitEvent \/ Resume
  <2>1. UNCHANGED <<up, payment, htlcExpiry, tip, onchain, spends, pay, claimer>>
    BY <1>8
    DEF CheckExpiry, ApplySpendingTx, NobodyListens, CommitEvent, Resume, tasks, world,
        lightning, chain
  <2>2. swap'.lockTx = swap.lockTx
    BY <1>1, <1>8
    DEF CheckExpiry, ApplySpendingTx, NobodyListens, CommitEvent, Resume, Entities
  <2> QED BY <1>2, <2>1, <2>2, CalmStays
<1> QED BY <1>3, <1>4, <1>5, <1>6, <1>7, <1>8

(* Every step keeps the payment and the contract in step.                  *)
LEMMA StepCalmInv ==
    ASSUME Calm, TypeInv, ClaimFollowsPayment, PaymentFollowsDeposit, ViewInv,
           LimitIsFresh, LimitIsFresh', CalmInv, [Next]_vars
    PROVE  CalmInv'
<1>1. up /\ crashes \in Nat /\ MaxCrashes = 0 /\ Chain = "BITCOIN" /\ crashes <= 0
  BY DEF CalmInv, Calm, TypeInv, ProcessTypeOK
<1>2. ~Crash /\ ~Restart /\ ~NewBitcoinBlock
  BY <1>1 DEF Crash, Restart, NewBitcoinBlock
<1>3. CASE UNCHANGED vars
  BY <1>1, <1>3, CalmStays DEF vars, server, tasks, world, lightning, chain
<1>4. CASE Next
  BY <1>2, <1>4, TaskKeepsCalm, WorldKeepsCalm, BlockKeepsCalm
  DEF Next, ServerStep, WorldStep
<1> QED BY <1>3, <1>4

(* Every step is a step of the abstract swap, or none.                     *)
LEMMA StepAtomicSwap ==
    ASSUME Calm, TypeInv, ClaimFollowsPayment, PaymentFollowsDeposit, ViewInv, CalmInv,
           CalmInv', [Next]_vars
    PROVE  [Abstract!Next]_Abstract!legs
<1> USE DEF chainLeg, lightningLeg, Abstract!legs
<1>1. /\ Chain = "BITCOIN" /\ SpendsInOrder
      /\ onchain["other"] = Absent /\ onchain["foreign"] = Absent
      /\ payment \in {"none", "inflight", "settled", "failed"}
  BY DEF Calm, CalmInv, ViewInv, OnlyExactDeposit, TypeInv, WorldTypeOK
<1>2. /\ onchain["claim"] # Absent => payment = "settled"
      /\ onchain["refund"] # Absent => payment \in {"none", "failed"}
      /\ onchain["claim"] # Absent \/ onchain["refund"] # Absent =>
           onchain["exact"] # Absent
      /\ payment # "none" => onchain["exact"] # Absent
  BY <1>1, CalmNumbers
  DEF ClaimFollowsPayment, SpendsInOrder, PaymentFollowsDeposit, DepositConfirmed,
      hasEnoughConfirmations
<1>3. (\E d \in Deposits : onchain[d] # Absent) <=> onchain["exact"] # Absent
  BY <1>1 DEF Deposits
<1>4. CASE UNCHANGED <<payment, onchain>>
  BY <1>4
<1>5. CASE SendPayment /\ payment' # payment
  <2>1. /\ payment \in {"none", "failed"} /\ payment' = "inflight"
        /\ pay = "send" /\ UNCHANGED onchain
    BY <1>5 DEF SendPayment, lightning, chain
  <2>2. onchain["exact"] # Absent
    BY <2>1, CalmNumbers
    DEF PaymentFollowsDeposit, DepositConfirmed, hasEnoughConfirmations
  <2>3. onchain["refund"] = Absent /\ onchain["claim"] = Absent
    BY <1>2, <2>1 DEF CalmInv, SpendsInOrder
  <2>4. chainLeg = "locked" /\ chainLeg' = chainLeg
    BY <1>3, <2>1, <2>2, <2>3, CalmNumbers
  <2>5. lightningLeg \in {"open", "canceled"} /\ lightningLeg' = "held"
    BY <2>1
  <2> QED BY <2>4, <2>5 DEF Abstract!Next, Abstract!Hold
<1>6. CASE UserSettles
  <2>1. payment = "inflight" /\ payment' = "settled" /\ UNCHANGED onchain
    BY <1>6 DEF UserSettles, chain
  <2>2. chainLeg = "locked" /\ chainLeg' = chainLeg
    BY <1>2, <1>3, <2>1, CalmNumbers
  <2>3. lightningLeg = "held" /\ lightningLeg' = "settled"
    BY <2>1
  <2> QED BY <2>2, <2>3 DEF Abstract!Next, Abstract!Settle
<1>7. CASE PaymentFails
  <2>1. payment = "inflight" /\ payment' = "failed" /\ UNCHANGED onchain
    BY <1>7 DEF PaymentFails, chain
  <2>2. lightningLeg = "held" /\ lightningLeg' = "canceled" /\ UNCHANGED chainLeg
    BY <2>1
  <2> QED BY <2>2 DEF Abstract!Next, Abstract!Cancel
<1>8. CASE Deposit
  <2>1. /\ onchain["exact"] = Absent /\ UNCHANGED payment
        /\ onchain' = [onchain EXCEPT !["exact"] = Mempool]
    BY <1>8 DEF Deposit, Calm, lightning
  <2>2. onchain["claim"] = Absent /\ onchain["refund"] = Absent
    BY <1>2, <2>1
  <2>3. /\ onchain'["claim"] = Absent /\ onchain'["refund"] = Absent
        /\ onchain'["exact"] # Absent
    BY <2>1, <2>2, CalmNumbers
  <2>4. chainLeg = "none"
    BY <1>3, <2>1, <2>2, CalmNumbers
  <2>5. chainLeg' = "locked"
    BY <2>3, CalmNumbers DEF Deposits
  <2> QED BY <2>1, <2>4, <2>5 DEF Abstract!Next, Abstract!Lock
<1>9. CASE (BroadcastClaim \/ UserRefunds) /\ onchain' # onchain
  <2>1. PICK t \in Spends :
          /\ onchain[t] = Absent /\ onchain' = [onchain EXCEPT ![t] = Mempool]
          /\ UNCHANGED payment
    BY <1>9 DEF BroadcastClaim, UserRefunds, Spend, Spends, lightning
  <2>2. \A d \in Deposits : onchain'[d] = onchain[d]
    BY <2>1, CalmNumbers DEF Deposits
  <2>3. \A s \in Spends : onchain'[s] > 0 <=> onchain[s] > 0
    BY <2>1, CalmNumbers
  <2>4. UNCHANGED chainLeg
    BY <2>2, <2>3 DEF Spends
  <2> QED BY <2>1, <2>4
<1>10. CASE NewBlock
  <2>1. PICK S \in SUBSET ContractTxs :
          /\ \A t \in S : onchain[t] = Mempool
          /\ onchain' = [t \in ContractTxs |->
                           IF t \in S THEN tip[Chain] + 1 ELSE onchain[t]]
          /\ UNCHANGED payment
    BY <1>10 DEF NewBlock, Minable, lightning
  <2>2. tip[Chain] + 1 > 0
    BY <1>1, CalmNumbers
  <2>3. \A t \in ContractTxs :
          /\ onchain'[t] # Absent <=> onchain[t] # Absent
          /\ onchain[t] > 0 => onchain'[t] > 0
    BY <2>1, <2>2, CalmNumbers
  <2>4. (\E d \in Deposits : onchain'[d] # Absent) <=> onchain["exact"] # Absent
    BY <1>3, <2>3 DEF ContractTxs
  <2>5. CASE onchain["claim"] # Absent
    <3>1. /\ payment = "settled" /\ onchain["exact"] # Absent
          /\ onchain["refund"] = Absent /\ onchain'["refund"] = Absent
      BY <1>2, <2>3, <2>5, CalmNumbers
    <3>2. ~(onchain["refund"] > 0) /\ ~(onchain'["refund"] > 0)
      BY <3>1, CalmNumbers
    <3>3. \/ chainLeg = "locked" /\ chainLeg' = "claimed"
          \/ UNCHANGED chainLeg
      BY <1>3, <2>3, <2>4, <3>1, <3>2, CalmNumbers
    <3> QED BY <2>1, <3>1, <3>3 DEF Abstract!Next, Abstract!Claim
  <2>6. CASE onchain["claim"] = Absent /\ onchain["refund"] # Absent
    <3>1. /\ payment \in {"none", "failed"} /\ onchain["exact"] # Absent
          /\ onchain'["claim"] = Absent
      BY <1>2, <2>3, <2>6, CalmNumbers
    <3>2. ~(onchain["claim"] > 0) /\ ~(onchain'["claim"] > 0)
      BY <2>6, <3>1, CalmNumbers
    <3>3. \/ chainLeg = "locked" /\ chainLeg' = "refunded"
          \/ UNCHANGED chainLeg
      BY <1>3, <2>3, <2>4, <3>1, <3>2, CalmNumbers
    <3> QED BY <2>1, <3>1, <3>3 DEF Abstract!Next, Abstract!Refund
  <2>7. CASE onchain["claim"] = Absent /\ onchain["refund"] = Absent
    <3>1. onchain'["claim"] = Absent /\ onchain'["refund"] = Absent
      BY <2>3, <2>7, CalmNumbers
    <3>2. UNCHANGED chainLeg
      BY <1>3, <2>4, <2>7, <3>1, CalmNumbers
    <3> QED BY <2>1, <3>2
  <2> QED BY <2>5, <2>6, <2>7
<1> QED
  BY <1>4, <1>5, <1>6, <1>7, <1>8, <1>9, <1>10
  DEF Next, ServerStep, WorldStep, vars, world, lightning, chain, CheckExpiry,
      ComputeLimit, SendPayment, PaymentReply, RetryPayment, InvoicePaid,
      BroadcastClaim, ProcessNewBlock, ProcessFundingTx, RecordMismatch,
      RecordSpendingTx, ApplySpendingTx, NobodyListens, CommitEvent, Crash, Restart,
      Resume, UserRefunds, NewBitcoinBlock

(* Wherever nothing fails and nobody is late, the first states satisfy     *)
(* what every step keeps.                                                  *)
LEMMA CalmSpec ==
    ASSUME Calm
    PROVE  Spec /\ []LimitIsNotZero =>
             [](/\ TypeInv /\ ClaimFollowsPayment /\ PaymentFollowsDeposit /\ ViewInv
                /\ CalmInv)
<1>1. Init => /\ ClaimFollowsPayment /\ PaymentFollowsDeposit /\ ViewInv
              /\ LimitIsFresh /\ CalmInv
  BY DEF Init, NewSwap, ClaimFollowsPayment, PaymentFollowsDeposit, RecordIsTrue,
         Fundable, ViewInv, OnlyExactDeposit, PaymentNoticedOnce, AwaitsPayment,
         OutcomeIsWrittenLast, LimitIsFresh, CalmInv, SpendsInOrder, ContractTxs,
         Deposits, Spends
<1>2. TypeInv /\ LimitIsFresh /\ LimitIsNotZero /\ [Next]_vars => LimitIsFresh'
  BY StepLimitIsFresh DEF Calm
<1>3. TypeInv /\ ClaimFollowsPayment /\ PaymentFollowsDeposit /\ ViewInv /\ [Next]_vars
        => ViewInv'
  BY StepViewInv DEF Calm
<1> QED
  BY <1>1, <1>2, <1>3, InitTypeInv, StepTypeInv, StepClaimFollowsPayment,
     StepPaymentFollowsDeposit, StepCalmInv, PTL DEF Spec

(* On Bitcoin, where nothing fails, nobody is late and the limit is not    *)
(* zero, a swap-in is the atomic swap of what-is-a-swap.md: the server     *)
(* pays only against a locked contract, claims only what it paid for, and  *)
(* the user takes back only what was not.                                  *)
THEOREM SwapInImplementsAtomicSwap ==
    ASSUME Calm
    PROVE  Spec /\ []LimitIsNotZero => ImplementsAtomicSwap
<1>1. Init => Abstract!Init
  BY DEF Init, Abstract!Init, chainLeg, lightningLeg, ContractTxs, Deposits, Spends,
         Absent
<1>2. TypeInv /\ ClaimFollowsPayment /\ PaymentFollowsDeposit /\ ViewInv /\ CalmInv
        /\ CalmInv' /\ [Next]_vars => [Abstract!Next]_Abstract!legs
  BY StepAtomicSwap
<1> QED
  BY <1>1, <1>2, CalmSpec, PTL DEF Spec, ImplementsAtomicSwap, Abstract!Spec

(* ... and in particular the two payments both succeed or both fail.       *)
THEOREM SwapInBothSucceedOrBothFail ==
    ASSUME Calm
    PROVE  Spec /\ []LimitIsNotZero => []BothSucceedOrBothFail
<1>1. CalmInv => BothSucceedOrBothFail
  BY DEF CalmInv, SpendsInOrder, BothSucceedOrBothFail, Absent, Mempool
<1> QED BY <1>1, CalmSpec, PTL

-----------------------------------------------------------------------------
(* Every event is handled in its turn.                                     *)

(* The sequence has x among its elements.                                  *)
Lists(s, x) == \E i \in 1 .. Len(s) : s[i] = x

(* One transaction's events, if it is mined.                               *)
LEMMA OneListed ==
    ASSUME NEW A, NEW k, NEW x, NEW T, k \in A => x \in T,
           NEW s, s = IF k \in A THEN <<x>> ELSE << >>
    PROVE  s \in Seq(T) /\ (k \in A => Lists(s, x))
<1>1. CASE k \notin A
  BY <1>1
<1>2. CASE k \in A
  <2>1. s = <<x>> /\ x \in T
    BY <1>2
  <2>2. s \in Seq(T) /\ Len(s) = 1 /\ s[1] = x
    BY <2>1
  <2> QED BY <2>2 DEF Lists
<1> QED BY <1>1, <1>2

(* What two sequences list, both list one after the other.                 *)
LEMMA BothListed ==
    ASSUME NEW T, NEW s \in Seq(T), NEW u \in Seq(T)
    PROVE  /\ s \o u \in Seq(T)
           /\ \A x : Lists(s, x) \/ Lists(u, x) => Lists(s \o u, x)
<1>1. PICK v : v = s \o u
  OBVIOUS
<1>2. /\ v \in Seq(T) /\ Len(v) = Len(s) + Len(u)
      /\ \A i \in 1 .. Len(s) + Len(u) :
           v[i] = IF i <= Len(s) THEN s[i] ELSE u[i - Len(s)]
  BY <1>1, ConcatProperties
<1>3. Len(s) \in Nat /\ Len(u) \in Nat
  BY LenProperties
<1>4. \A i \in 1 .. Len(s) : i \in 1 .. Len(v) /\ v[i] = s[i]
  BY <1>2, <1>3
<1>5. ASSUME NEW i \in 1 .. Len(u)
      PROVE  \E j \in 1 .. Len(v) : v[j] = u[i]
  <2>1. PICK j : j = Len(s) + i
    OBVIOUS
  <2>2. j \in 1 .. Len(s) + Len(u) /\ ~(j <= Len(s)) /\ j - Len(s) = i
    BY <1>3, <2>1
  <2> QED BY <1>2, <2>2
<1>6. ASSUME NEW x, Lists(s, x) \/ Lists(u, x) PROVE Lists(v, x)
  BY <1>4, <1>5, <1>6 DEF Lists
<1> QED BY <1>1, <1>2, <1>6

(* A block's transactions are all announced, and nothing else is.          *)
LEMMA TxEventsListed ==
    ASSUME NEW S \in SUBSET ContractTxs, NEW h
    PROVE  /\ TxEvents(S, h) \in Seq({Event(k, h) : k \in S})
           /\ \A k \in S : Lists(TxEvents(S, h), Event(k, h))
<1>1. PICK exact, other, foreign, claim, refund :
        /\ exact = IF "exact" \in S THEN <<Event("exact", h)>> ELSE << >>
        /\ other = IF "other" \in S THEN <<Event("other", h)>> ELSE << >>
        /\ foreign = IF "foreign" \in S THEN <<Event("foreign", h)>> ELSE << >>
        /\ claim = IF "claim" \in S THEN <<Event("claim", h)>> ELSE << >>
        /\ refund = IF "refund" \in S THEN <<Event("refund", h)>> ELSE << >>
  OBVIOUS
<1>2. TxEvents(S, h) = (((exact \o other) \o foreign) \o claim) \o refund
  BY <1>1 DEF TxEvents
<1> DEFINE New == {Event(k, h) : k \in S}
<1>3. \A k \in S : Event(k, h) \in New
  OBVIOUS
<1> HIDE DEF New
<1>4. exact \in Seq(New) /\ ("exact" \in S => Lists(exact, Event("exact", h)))
  BY <1>1, <1>3, OneListed
<1>5. other \in Seq(New) /\ ("other" \in S => Lists(other, Event("other", h)))
  BY <1>1, <1>3, OneListed
<1>6. foreign \in Seq(New) /\ ("foreign" \in S => Lists(foreign, Event("foreign", h)))
  BY <1>1, <1>3, OneListed
<1>7. claim \in Seq(New) /\ ("claim" \in S => Lists(claim, Event("claim", h)))
  BY <1>1, <1>3, OneListed
<1>8. refund \in Seq(New) /\ ("refund" \in S => Lists(refund, Event("refund", h)))
  BY <1>1, <1>3, OneListed
<1>9. PICK a : a = exact \o other
  OBVIOUS
<1>10. /\ a \in Seq(New)
       /\ \A x : Lists(exact, x) \/ Lists(other, x) => Lists(a, x)
  BY <1>4, <1>5, <1>9, BothListed
<1>11. PICK b : b = a \o foreign
  OBVIOUS
<1>12. b \in Seq(New) /\ \A x : Lists(a, x) \/ Lists(foreign, x) => Lists(b, x)
  BY <1>6, <1>10, <1>11, BothListed
<1>13. PICK c : c = b \o claim
  OBVIOUS
<1>14. c \in Seq(New) /\ \A x : Lists(b, x) \/ Lists(claim, x) => Lists(c, x)
  BY <1>7, <1>12, <1>13, BothListed
<1>15. PICK txs : txs = c \o refund
  OBVIOUS
<1>16. txs \in Seq(New) /\ \A x : Lists(c, x) \/ Lists(refund, x) => Lists(txs, x)
  BY <1>8, <1>14, <1>15, BothListed
<1>17. \A k \in S : Lists(txs, Event(k, h))
  BY <1>4, <1>5, <1>6, <1>7, <1>8, <1>10, <1>12, <1>14, <1>16
  DEF ContractTxs, Deposits, Spends
<1>18. TxEvents(S, h) = txs
  BY <1>2, <1>9, <1>11, <1>13, <1>15
<1> QED BY <1>16, <1>17, <1>18 DEF New

(* A block appends its events and those of the transactions it mines.      *)
Mines(S, new) ==
    /\ Minable(S) /\ Mined(S)
    /\ tip' = [tip EXCEPT ![Chain] = tip[Chain] + 1]
    /\ onchain' = [t \in ContractTxs |-> IF t \in S THEN tip[Chain] + 1 ELSE onchain[t]]
    /\ new \in Seq({Event(k, tip[Chain] + 1) : k \in S \cup {"block"}})
    /\ \A k \in S \cup {"block"} : Lists(new, Event(k, tip[Chain] + 1))
    /\ feed' = feed \o new

LEMMA BlockFeed ==
    ASSUME TypeInv, NewBlock
    PROVE  \E S \in SUBSET ContractTxs : \E new : Mines(S, new)
<1> DEFINE h == tip[Chain] + 1
           b == Event("block", h)
<1>1. PICK S \in SUBSET ContractTxs :
        /\ Minable(S) /\ Mined(S)
        /\ tip' = [tip EXCEPT ![Chain] = h]
        /\ onchain' = [t \in ContractTxs |-> IF t \in S THEN h ELSE onchain[t]]
        /\ \/ feed' = Append(feed, b) \o TxEvents(S, h)
           \/ feed' = Append(feed \o TxEvents(S, h), b)
  BY DEF NewBlock
<1> DEFINE New == {Event(k, h) : k \in S \cup {"block"}}
           Old == [kind : EventKinds, h : Heights]
           All == New \cup Old
           txs == TxEvents(S, h)
<1>2. b \in New
  OBVIOUS
<1>3. txs \in Seq(New) /\ \A k \in S : Lists(txs, Event(k, h))
  <2> DEFINE Txs == {Event(k, h) : k \in S}
  <2>1. Txs \subseteq New
    OBVIOUS
  <2>2. txs \in Seq(Txs) /\ \A k \in S : Lists(txs, Event(k, h))
    BY TxEventsListed
  <2> HIDE DEF Txs, New, h, txs
  <2> QED BY <2>1, <2>2, SeqMonotonic
<1>4. feed \in Seq(Old)
  BY DEF TypeInv, WorldTypeOK, Feeds
<1>5. Lists(<<b>>, b)
  BY DEF Lists
<1> DEFINE Complete(new) ==
             new \in Seq(New) /\ \A k \in S \cup {"block"} : Lists(new, Event(k, h))
<1>6. Event("block", h) = b
  OBVIOUS
<1> HIDE DEF b, New, Old, txs, h
<1>7. <<b>> \in Seq(New)
  BY <1>2
<1>8. Complete(<<b>> \o txs) /\ Complete(txs \o <<b>>)
  BY <1>3, <1>5, <1>6, <1>7, BothListed
<1> HIDE DEF Complete
<1>9. feed \in Seq(All) /\ txs \in Seq(All) /\ b \in All
  BY <1>2, <1>3, <1>4, SeqMonotonic
<1> HIDE DEF All
<1>10. /\ Append(feed, b) \o txs = feed \o (<<b>> \o txs)
       /\ Append(feed \o txs, b) = feed \o (txs \o <<b>>)
  <2>1. <<b>> \in Seq(All) /\ feed \o txs \in Seq(All)
    BY <1>9, ConcatProperties
  <2>2. /\ Append(feed, b) = feed \o <<b>>
        /\ Append(feed \o txs, b) = (feed \o txs) \o <<b>>
    BY <1>9, <2>1, AppendIsConcat
  <2> QED BY <1>9, <2>1, <2>2, ConcatAssociative
<1>11. \E new : feed' = feed \o new /\ Complete(new)
  BY <1>1, <1>8, <1>10 DEF b, txs, h
<1> QED BY <1>1, <1>11 DEF Mines, New, Complete, h

(* A transaction is broadcast once, the deposit while there is time and    *)
(* the refund after the timeout.                                           *)
Broadcasts(t) ==
    /\ onchain[t] = Absent
    /\ onchain' = [onchain EXCEPT ![t] = Mempool]
    /\ feed' = feed \/ feed' = Append(feed, Event(t, 0))
    /\ t = "exact" => tip[Chain] <= DepositBy
    /\ UNCHANGED tip

(* The steps that touch the chain or the feed.                             *)
LEMMA FeedSteps ==
    ASSUME Calm, TypeInv, ViewInv, [Next]_vars
    PROVE  \/ UNCHANGED <<feed, onchain, tip>>
           \/ CommitEvent /\ UNCHANGED <<onchain, tip>>
           \/ \E t \in ContractTxs : Broadcasts(t)
           \/ NewBlock
<1>1. CASE Deposit
  <2>1. Broadcasts("exact")
    BY <1>1 DEF Deposit, Calm, Announce, Broadcasts
  <2> QED BY <2>1 DEF ContractTxs, Deposits
<1>2. CASE UserRefunds
  <2>1. Broadcasts("refund")
    BY <1>2 DEF UserRefunds, Spend, Announce, Broadcasts
  <2> QED BY <2>1 DEF ContractTxs, Spends
<1>3. CASE BroadcastClaim
  <2>1. Broadcasts("claim") \/ UNCHANGED <<feed, onchain, tip>>
    BY <1>3 DEF BroadcastClaim, Calm, Spend, Announce, Broadcasts
  <2> QED BY <2>1 DEF ContractTxs, Spends
<1>4. CASE CommitEvent
  BY <1>4 DEF CommitEvent, chain
<1>5. ~NewBitcoinBlock
  BY DEF NewBitcoinBlock, Calm
<1> QED
  BY <1>1, <1>2, <1>3, <1>4, <1>5
  DEF Next, ServerStep, WorldStep, vars, world, chain, CheckExpiry, ComputeLimit,
      SendPayment, PaymentReply, RetryPayment, InvoicePaid, ProcessNewBlock,
      ProcessFundingTx, RecordMismatch, RecordSpendingTx, ApplySpendingTx, NobodyListens,
      Crash, Restart, Resume, UserSettles, PaymentFails

(* Where the events are after an event was handled.                        *)
LEMMA FeedShrunk ==
    ASSUME TypeInv, feed # << >>, feed' = Tail(feed)
    PROVE  /\ Len(feed) \in Nat /\ Len(feed') = Len(feed) - 1
           /\ \A i \in 1 .. Len(feed') : feed'[i] = feed[i + 1]
<1> DEFINE All == [kind : EventKinds, h : Heights]
<1>1. feed \in Seq(All)
  BY DEF TypeInv, WorldTypeOK, Feeds
<1> HIDE DEF All
<1> QED BY <1>1, HeadTailProperties, LenProperties

(* ... and after new ones came: none of another block than the next.       *)
Grown ==
    /\ Len(feed) \in Nat /\ Len(feed') \in Nat /\ Len(feed) <= Len(feed')
    /\ \A i \in 1 .. Len(feed) : feed'[i] = feed[i]
    /\ \A i \in 1 .. Len(feed') : i > Len(feed) => feed'[i].h \in {0, tip[Chain] + 1}

LEMMA BroadcastGrows ==
    ASSUME TypeInv, NEW t \in ContractTxs, Broadcasts(t)
    PROVE  Grown
<1> DEFINE All == [kind : EventKinds, h : Heights]
<1>1. feed \in Seq(All) /\ Event(t, 0) \in All /\ Event(t, 0).h = 0
  BY HeightsAreNaturals DEF TypeInv, WorldTypeOK, Feeds, Event, EventKinds
<1> HIDE DEF All
<1>2. CASE feed' = feed
  BY <1>1, <1>2, LenProperties DEF Grown
<1>3. CASE feed' = Append(feed, Event(t, 0))
  <2>1. /\ Len(feed) \in Nat /\ Len(feed') = Len(feed) + 1
        /\ \A i \in 1 .. Len(feed) : feed'[i] = feed[i]
        /\ feed'[Len(feed) + 1].h = 0
    BY <1>1, <1>3, AppendProperties, LenProperties
  <2> QED BY <2>1 DEF Grown
<1> QED BY <1>2, <1>3 DEF Broadcasts

(* What a block announces is in the feed behind what was there.            *)
LEMMA BlockGrows ==
    ASSUME TypeInv, NEW S \in SUBSET ContractTxs, NEW new, Mines(S, new)
    PROVE  /\ Grown
           /\ \A k \in S \cup {"block"} : \E i \in 1 .. Len(feed') :
                i > Len(feed) /\ feed'[i] = Event(k, tip[Chain] + 1)
<1> DEFINE h == tip[Chain] + 1
           New == {Event(k, h) : k \in S \cup {"block"}}
           Old == [kind : EventKinds, h : Heights]
           All == New \cup Old
<1>1. new \in Seq(New) /\ feed \in Seq(Old) /\ feed' = feed \o new
  BY DEF Mines, TypeInv, WorldTypeOK, Feeds
<1>2. \A e \in New : e.h = h
  BY DEF Event
<1>3. \A k \in S \cup {"block"} : Lists(new, Event(k, h))
  BY DEF Mines
<1> HIDE DEF New, Old, h
<1>4. new \in Seq(All) /\ feed \in Seq(All)
  BY <1>1, SeqMonotonic
<1> HIDE DEF All
<1>5. /\ Len(feed) \in Nat /\ Len(new) \in Nat
      /\ Len(feed') = Len(feed) + Len(new)
      /\ \A i \in 1 .. Len(feed') :
           feed'[i] = IF i <= Len(feed) THEN feed[i] ELSE new[i - Len(feed)]
  BY <1>1, <1>4, ConcatProperties, LenProperties
<1>6. \A i \in 1 .. Len(new) : new[i].h = h
  BY <1>1, <1>2, ElementOfSeq
<1>7. Grown
  <2>1. \A i \in 1 .. Len(feed') : i > Len(feed) => feed'[i].h = h
    BY <1>5, <1>6
  <2> QED BY <1>5, <2>1 DEF Grown, h
<1>8. ASSUME NEW k \in S \cup {"block"}
      PROVE  \E i \in 1 .. Len(feed') : i > Len(feed) /\ feed'[i] = Event(k, h)
  <2>1. PICK i \in 1 .. Len(new) : new[i] = Event(k, h)
    BY <1>3 DEF Lists
  <2>2. PICK j : j = Len(feed) + i
    OBVIOUS
  <2>3. j \in 1 .. Len(feed') /\ j > Len(feed) /\ feed'[j] = new[i]
    BY <1>5, <2>1, <2>2
  <2> QED BY <2>1, <2>3
<1> QED BY <1>7, <1>8 DEF h

(* The feed loses its first event, or gains new ones.                      *)
LEMMA FeedChanges ==
    ASSUME Calm, TypeInv, ViewInv, [Next]_vars
    PROVE  \/ feed' = feed
           \/ CommitEvent /\ feed # << >> /\ feed' = Tail(feed)
           \/ Grown
<1>1. CASE CommitEvent
  BY <1>1 DEF CommitEvent, TypeInv, HandlerHasEvent
<1>2. CASE NewBlock
  BY <1>2, BlockFeed, BlockGrows
<1> QED BY <1>1, <1>2, BroadcastGrows, FeedSteps

(* The event is still to be handled, or is being handled.                  *)
Awaits(e) == \E i \in 1 .. Len(feed) : feed[i] = e /\ (i = 1 => ev # "done")

(* Its handler is done, in this step.                                      *)
HandledNow(e) == feed # << >> /\ Head(feed) = e /\ ev # "done" /\ ev' = "done"

(* It is awaited until its handler is done.                                *)
LEMMA StillAwaits ==
    ASSUME Calm, TypeInv, ViewInv, [Next]_vars, NEW e, Awaits(e)
    PROVE  Awaits(e)' \/ HandledNow(e)
<1>1. PICK i \in 1 .. Len(feed) : feed[i] = e /\ (i = 1 => ev # "done")
  BY DEF Awaits
<1>2. /\ feed # << >> /\ Head(feed) = feed[1] /\ Len(feed) \in Nat
  BY <1>1, LenProperties, EmptySeq DEF TypeInv, WorldTypeOK, Feeds
<1> SUFFICES ASSUME i = 1 => ev' # "done" PROVE Awaits(e)'
  BY <1>1, <1>2 DEF HandledNow
<1>3. CASE feed' = feed
  BY <1>1, <1>3 DEF Awaits
<1>4. CASE CommitEvent /\ feed' = Tail(feed)
  <2>1. i # 1 /\ ev' = "idle"
    BY <1>1, <1>4 DEF CommitEvent
  <2>2. i - 1 \in 1 .. Len(feed') /\ feed'[i - 1] = feed[i]
    BY <1>1, <1>2, <1>4, <2>1, FeedShrunk
  <2> QED BY <1>1, <2>1, <2>2 DEF Awaits
<1>5. CASE Grown
  <2>1. i \in 1 .. Len(feed') /\ feed'[i] = feed[i]
    BY <1>1, <1>5 DEF Grown
  <2> QED BY <1>1, <2>1 DEF Awaits
<1> QED BY <1>3, <1>4, <1>5, FeedChanges

(* What a block announces is awaited.                                      *)
LEMMA MinedAwaits ==
    ASSUME Calm, TypeInv, [Next]_vars, NewBlock, NEW h, h = tip[Chain] + 1
    PROVE  /\ tip'[Chain] = h
           /\ Awaits(Event("block", h))'
           /\ \A t \in ContractTxs :
                \/ onchain'[t] = onchain[t]
                \/ onchain[t] = Mempool /\ onchain'[t] = h /\ Awaits(Event(t, h))'
           /\ onchain["exact"] = Mempool => onchain'["exact"] = h
<1>1. PICK S \in SUBSET ContractTxs : \E x : Mines(S, x)
  BY BlockFeed
<1> PICK new : Mines(S, new)
  BY <1>1
<1>2. tip'[Chain] = h
  BY SwapInAssumption DEF Mines, TypeInv, WorldTypeOK
<1>3. ev' = ev /\ (ev = "done" => Len(feed) > 0)
  <2>1. ev = "done" => feed # << >>
    BY DEF TypeInv, HandlerHasEvent
  <2> QED BY <2>1, LenProperties, EmptySeq DEF NewBlock, server, TypeInv, WorldTypeOK, Feeds
<1>4. ASSUME NEW k \in S \cup {"block"} PROVE Awaits(Event(k, h))'
  <2>1. PICK i \in 1 .. Len(feed') : i > Len(feed) /\ feed'[i] = Event(k, h)
    BY BlockGrows
  <2>2. i = 1 => ev' # "done"
    BY <1>3, <2>1, BlockGrows DEF Grown
  <2> QED BY <2>1, <2>2 DEF Awaits
<1>5. \A t \in ContractTxs :
        IF t \in S THEN onchain[t] = Mempool /\ onchain'[t] = h ELSE onchain'[t] = onchain[t]
  BY DEF Mines, Minable
<1>6. onchain["exact"] = Mempool => "exact" \in S
  BY DEF Mines, Mined, Calm, ContractTxs, Deposits, Spends
<1> QED BY <1>2, <1>4, <1>5, <1>6 DEF ContractTxs, Deposits

(* The event was announced, and is not awaited any more.                   *)
Handled(kind, h) ==
    /\ IF kind = "block" THEN h <= tip[Chain] ELSE h > 0 /\ onchain[kind] = h
    /\ ~Awaits(Event(kind, h))

(* The handler alone makes a block handled.                                *)
LEMMA BlockHandled ==
    ASSUME Calm, TypeInv, ViewInv, [Next]_vars, NEW h \in Nat, Handled("block", h)'
    PROVE  Handled("block", h) \/ HandledNow(Event("block", h))
<1>1. ChainNumbers /\ ChainNumbers'
  BY StepTypeInv, ChainType, PTL
<1>2. CASE NewBlock
  <2>1. PICK g : g = tip[Chain] + 1
    OBVIOUS
  <2>2. tip'[Chain] = g /\ Awaits(Event("block", g))'
    BY <1>2, <2>1, MinedAwaits
  <2>3. h # g
    BY <2>2 DEF Handled
  <2> QED BY <1>1, <2>1, <2>2, <2>3, StillAwaits DEF Handled, ChainNumbers
<1>3. CASE ~NewBlock
  <2>1. tip'[Chain] = tip[Chain]
    BY <1>3, FeedSteps DEF Broadcasts
  <2> QED BY <2>1, StillAwaits DEF Handled
<1> QED BY <1>2, <1>3

(* ... and the sighting of a mined transaction.                            *)
LEMMA SightingHandled ==
    ASSUME Calm, TypeInv, ViewInv, [Next]_vars, NEW t \in ContractTxs, NEW h,
           Handled(t, h)'
    PROVE  Handled(t, h) \/ (onchain[t] = h /\ HandledNow(Event(t, h)))
<1>1. /\ ChainNumbers /\ ChainNumbers'
      /\ t # "block"
  <2>1. ChainNumbers /\ ChainNumbers'
    BY StepTypeInv, ChainType, PTL
  <2> QED BY <2>1 DEF ContractTxs, Deposits, Spends
<1>2. onchain'[t] = onchain[t]
  <2>1. CASE NewBlock
    <3>1. PICK g : g = tip[Chain] + 1
      OBVIOUS
    <3>2. onchain'[t] = onchain[t] \/ (onchain'[t] = g /\ Awaits(Event(t, g))')
      BY <2>1, <3>1, MinedAwaits
    <3> QED BY <1>1, <3>2 DEF Handled
  <2>2. ASSUME NEW u \in ContractTxs, Broadcasts(u) PROVE onchain'[t] = onchain[t]
    BY <1>1, <2>2 DEF Broadcasts, Mempool, TypeInv, WorldTypeOK, Handled
  <2> QED BY <2>1, <2>2, FeedSteps DEF CommitEvent
<1> QED BY <1>1, <1>2, StillAwaits DEF Handled

-----------------------------------------------------------------------------
(* The saved status follows the chain.                                     *)

(* A calm swap whose deposit is broadcast in time to be mined a block      *)
(* before the contract's timeout.                                          *)
InTime == Calm /\ DepositBy + 2 <= timeoutBlockHeight

(* nbxplorer announces a block, and what it mined, before the next one.    *)
HeightsInOrder ==
    \A i, j \in 1 .. Len(feed) : i < j /\ feed[j].h > 0 => feed[i].h <= feed[j].h

(* The deposit is mined before the timeout and the refund after it.        *)
MinedInTime ==
    /\ onchain["exact"] <= DepositBy + 1
    /\ onchain["exact"] = Mempool => tip[Chain] <= DepositBy
    /\ onchain["refund"] > 0 => onchain["refund"] > timeoutBlockHeight

(* The entity knows the deposit from the event of its block on.            *)
DepositNoticed ==
    \A h \in Heights : Handled("exact", h) =>
        /\ swap.status # "CREATED"
        /\ swap.status = "CONTRACT_FUNDED_UNCONFIRMED" => swap.lockTxHeight = h

(* A stopped runner is done, a paid swap is on its way to its claim, an    *)
(* expired one timed out, and a refund is known from a refund.             *)
StatusInOrder ==
    /\ runner # "waiting"
    /\ runner = "stopped" <=> swap.status = "DONE"
    /\ swap.preImage =>
         \/ swap.status \in {"INVOICE_PAID", "CONTRACT_CLAIMED_UNCONFIRMED"}
         \/ swap.outcome = "SUCCESS"
    /\ swap.outcome = "SUCCESS" => swap.preImage
    /\ swap.status = "CONTRACT_REFUNDED_UNCONFIRMED" => onchain["refund"] # Absent
    /\ swap.status = "CONTRACT_EXPIRED" => tip[Chain] >= timeoutBlockHeight

StatusOf == [claim |-> "CONTRACT_CLAIMED_UNCONFIRMED",
             refund |-> "CONTRACT_REFUNDED_UNCONFIRMED"]
OutcomeOf == [claim |-> "SUCCESS", refund |-> "REFUNDED"]

(* A mined spend is recorded when its event is handled, and the status     *)
(* follows it.                                                             *)
SpendFollowed ==
    /\ \A t \in Spends, h \in Heights : Handled(t, h) =>
         /\ swap.unlockTxHeight = h
         /\ swap.status = StatusOf[t] \/ swap.outcome = OutcomeOf[t]
    /\ ev = "spend" =>
         /\ Head(feed).kind \in Spends
         /\ height > 0 => swap.unlockTxHeight = height
    /\ swap.outcome \in {"SUCCESS", "REFUNDED"} => swap.unlockTxHeight > 0

(* Block h comes after t's own and gives it its confirmations.             *)
Past(t, h) ==
    onchain[t] > 0 /\ h > onchain[t] /\ h >= onchain[t] + RequiredConfirmations - 1

(* What a handled block leaves behind.                                     *)
BlockLeaves(h) ==
    /\ \A t \in Spends : Past(t, h) => swap.outcome = OutcomeOf[t]
    /\ Past("exact", h) => swap.status \notin {"CREATED", "CONTRACT_FUNDED_UNCONFIRMED"}
    /\ h >= timeoutBlockHeight =>
         /\ swap.status \notin {"CONTRACT_FUNDED_UNCONFIRMED", "CONTRACT_FUNDED"}
         /\ swap.status = "CREATED" => onchain["exact"] = Absent

BlocksFollowed == \A h \in Heights : Handled("block", h) => BlockLeaves(h)

FollowInv ==
    /\ HeightsInOrder /\ MinedInTime
    /\ DepositNoticed /\ StatusInOrder /\ SpendFollowed /\ BlocksFollowed

(* All that is known of a calm swap.                                       *)
KnownInv ==
    /\ TypeInv /\ ClaimFollowsPayment /\ PaymentFollowsDeposit /\ ViewInv
    /\ CalmInv /\ OutcomeBacked

FullInv == KnownInv /\ FollowInv

(* Of the two spends there is one, of a deposit the server has recorded;   *)
(* an outcome is final; the rest are the types.                            *)
LEMMA FullFacts ==
    ASSUME InTime, KnownInv
    PROVE  /\ swap \in Entities /\ ChainNumbers /\ tip[Chain] \in Nat
           /\ timeoutBlockHeight \in Nat /\ timeoutBlockHeight > 1 /\ DepositBy \in Nat
           /\ RequiredConfirmations \in Nat
           /\ swap.status \notin {"CONTRACT_AMOUNT_MISMATCH",
                                  "CONTRACT_AMOUNT_MISMATCH_UNCONFIRMED"}
           /\ onchain["claim"] # Absent =>
                onchain["refund"] = Absent /\ payment = "settled" /\ swap.preImage
           /\ onchain["refund"] # Absent =>
                /\ onchain["claim"] = Absent /\ payment # "settled" /\ ~swap.preImage
                /\ tip[Chain] >= timeoutBlockHeight
           /\ \A t \in Spends : onchain[t] # Absent =>
                /\ swap.lockTx = "exact" /\ spends[t] = "exact"
                /\ onchain["exact"] # Absent
           /\ swap.lockTx # "none" => swap.status # "CREATED"
           /\ swap.outcome # "NONE" <=> swap.status = "DONE"
           /\ swap.outcome = "REFUNDED" => onchain["refund"] > 0
           /\ swap.outcome = "SUCCESS" => payment = "settled"
           /\ swap.outcome = "EXPIRED" => swap.lockTx = "none"
           /\ swap.outcome # "ERROR"
           /\ swap.unlockTxHeight > 0 =>
                swap.unlockTxHeight \in {onchain["claim"], onchain["refund"]}
<1>1. /\ Calm /\ TypeInv /\ ClaimFollowsPayment /\ ViewInv /\ CalmInv /\ OutcomeBacked
  BY DEF InTime, KnownInv
<1>2. /\ swap \in Entities /\ ChainNumbers /\ tip[Chain] \in Nat
  BY <1>1, ChainType DEF TypeInv, ProcessTypeOK, ChainNumbers
<1>3. /\ timeoutBlockHeight \in Nat /\ timeoutBlockHeight > 1 /\ DepositBy \in Nat
      /\ RequiredConfirmations \in Nat
  BY <1>1, SwapInAssumption, ConfirmationsAssumption DEF timeoutBlockHeight, Calm
<1>4. /\ OnlyExactDeposit /\ PaymentNoticedOnce /\ OutcomeIsWrittenLast /\ SpendsInOrder
  BY <1>1 DEF ViewInv, CalmInv
<1>5. /\ onchain["claim"] # Absent => payment = "settled" /\ swap.preImage
      /\ onchain["refund"] # Absent =>
           tip[Chain] >= timeoutBlockHeight /\ payment # "settled"
      /\ swap.preImage => payment = "settled"
  BY <1>1, <1>4 DEF ClaimFollowsPayment, SpendsInOrder, OutcomeBacked
<1>6. \A t \in Spends : onchain[t] # Absent =>
        /\ swap.lockTx = "exact" /\ spends[t] = "exact" /\ onchain["exact"] # Absent
  BY <1>4 DEF SpendsInOrder, OnlyExactDeposit, Spends
<1>7. swap.outcome = "REFUNDED" => onchain["refund"] > 0
  BY <1>4 DEF OutcomeIsWrittenLast
<1>8. swap.outcome # "NONE" <=> swap.status = "DONE"
  <2>1. ~(swap.status = "INVOICE_PAID" /\ swap.outcome = "REFUNDED")
    BY <1>4, <1>5, <1>7 DEF PaymentNoticedOnce, Absent
  <2> QED BY <1>1, <1>4, <2>1 DEF OutcomeIsWrittenLast, OutcomeBacked
<1>9. /\ swap.lockTx # "none" => swap.status # "CREATED"
      /\ swap.outcome = "SUCCESS" => payment = "settled"
      /\ swap.outcome = "EXPIRED" => swap.lockTx = "none"
      /\ swap.outcome # "ERROR"
      /\ swap.unlockTxHeight > 0 =>
           swap.unlockTxHeight \in {onchain["claim"], onchain["refund"]}
  BY <1>1 DEF OutcomeBacked
<1>10. swap.status \notin {"CONTRACT_AMOUNT_MISMATCH",
                          "CONTRACT_AMOUNT_MISMATCH_UNCONFIRMED"}
  BY <1>4 DEF OnlyExactDeposit
<1> QED BY <1>2, <1>3, <1>5, <1>6, <1>7, <1>8, <1>9, <1>10

(* The first event of a feed of true ones.                                 *)
LEMMA HeadKnown ==
    ASSUME TypeInv, PaymentFollowsDeposit, feed # << >>
    PROVE  /\ height \in Nat /\ height \in Heights /\ height <= tip[Chain]
           /\ Head(feed) = feed[1] /\ Head(feed) = Event(Head(feed).kind, height)
           /\ Len(feed) \in Nat /\ Len(feed) > 0
           /\ Head(feed).kind \in ContractTxs =>
                /\ onchain[Head(feed).kind] # Absent
                /\ height > 0 => onchain[Head(feed).kind] = height
           /\ \A e : Awaits(e) /\ e # Head(feed) =>
                \E i \in 2 .. Len(feed) : feed[i] = e
<1>1. feed \in Seq(TrueEvents)
  BY DEF PaymentFollowsDeposit
<1>2. /\ height \in Nat /\ height <= tip[Chain]
      /\ Head(feed).kind \in ContractTxs =>
           /\ onchain[Head(feed).kind] # Absent
           /\ height > 0 => onchain[Head(feed).kind] = height
  BY <1>1, HeadIsTrue
<1>3. Head(feed) = feed[1] /\ Len(feed) \in Nat /\ Len(feed) > 0
  BY <1>1, LenProperties, EmptySeq
<1>4. Head(feed) = Event(Head(feed).kind, height) /\ height \in Heights
  <2>1. Head(feed) \in [kind : EventKinds, h : Heights]
    BY <1>1, HeadTailProperties DEF TrueEvents
  <2> QED BY <2>1 DEF Event, height
<1>5. \A e : Awaits(e) /\ e # Head(feed) => \E i \in 2 .. Len(feed) : feed[i] = e
  BY <1>3 DEF Awaits
<1> QED BY <1>2, <1>3, <1>4, <1>5

(* What an earlier block announced was handled before this event.          *)
LEMMA EarlierHandled ==
    ASSUME TypeInv, PaymentFollowsDeposit, HeightsInOrder, feed # << >>, NEW kind,
           NEW g \in Nat, g > 0, g < height
    PROVE  ~Awaits(Event(kind, g))
<1> SUFFICES ASSUME Awaits(Event(kind, g)) PROVE FALSE
  OBVIOUS
<1>1. Event(kind, g) # Head(feed) /\ Event(kind, g).h = g
  BY HeadKnown DEF Event, height
<1>2. PICK i \in 2 .. Len(feed) : feed[i] = Event(kind, g)
  BY <1>1, HeadKnown
<1>3. feed[1].h <= feed[i].h
  BY <1>1, <1>2, HeadKnown DEF HeightsInOrder
<1> QED BY <1>1, <1>2, <1>3, HeadKnown DEF height

(* A step writes this status and outcome, and nothing else of the record.  *)
Writes(s, o) ==
    /\ swap'.status = s /\ swap'.outcome = o
    /\ swap'.lockTx = swap.lockTx
    /\ swap'.lockTxHeight = swap.lockTxHeight
    /\ swap'.unlockTxHeight = swap.unlockTxHeight
    /\ swap'.preImage = swap.preImage

(* What each handler does to a calm swap.                                  *)
Handling == feed # << >> /\ UNCHANGED <<feed, onchain, tip, payment>>

BlockEffect ==
    /\ Handling /\ Head(feed).kind = "block" /\ ev = "idle" /\ ev' = "done"
    /\ runner = "running"
    /\ \/ /\ swap.status \in {"CONTRACT_FUNDED", "CONTRACT_FUNDED_UNCONFIRMED"}
          /\ timeoutBlockHeight <= height
          /\ Writes("CONTRACT_EXPIRED", swap.outcome) /\ runner' = runner
       \/ /\ swap.status = "CONTRACT_FUNDED_UNCONFIRMED"
          /\ ~(timeoutBlockHeight <= height)
          /\ Writes("CONTRACT_FUNDED", swap.outcome) /\ runner' = runner
       \/ \E t \in Spends :
            /\ swap.status = StatusOf[t]
            /\ hasEnoughConfirmations(swap.unlockTxHeight, height)
            /\ Writes("DONE", OutcomeOf[t]) /\ runner' = "stopped"
       \/ /\ Writes(swap.status, swap.outcome) /\ runner' = runner
          /\ swap.status \in {"CONTRACT_FUNDED", "CONTRACT_FUNDED_UNCONFIRMED"} =>
               ~(timeoutBlockHeight <= height)
          /\ swap.status = "CONTRACT_FUNDED_UNCONFIRMED" =>
               ~hasEnoughConfirmations(swap.lockTxHeight, height)
          /\ \A t \in Spends : swap.status = StatusOf[t] =>
               ~hasEnoughConfirmations(swap.unlockTxHeight, height)

DepositEffect ==
    /\ Handling /\ Head(feed).kind = "exact" /\ ev = "idle" /\ ev' = "done"
    /\ runner = "running" /\ runner' = runner
    /\ IF swap.status \in {"CREATED", "CONTRACT_FUNDED_UNCONFIRMED"}
         THEN /\ swap'.status = "CONTRACT_FUNDED_UNCONFIRMED"
              /\ swap'.lockTxHeight = confirmedHeight(swap.lockTxHeight)
              /\ swap'.lockTx = "exact"
              /\ swap'.outcome = swap.outcome /\ swap'.preImage = swap.preImage
              /\ swap'.unlockTxHeight = swap.unlockTxHeight
         ELSE Writes(swap.status, swap.outcome)

SightingEffect ==
    /\ Handling /\ Head(feed).kind \in Spends /\ ev = "idle" /\ ev' = "spend"
    /\ runner = "running" /\ runner' = runner
    /\ swap'.status = swap.status /\ swap'.outcome = swap.outcome
    /\ swap'.lockTx = swap.lockTx /\ swap'.lockTxHeight = swap.lockTxHeight
    /\ swap'.preImage = swap.preImage
    /\ swap'.unlockTxHeight = confirmedHeight(swap.unlockTxHeight)

SpendEffect ==
    /\ Handling /\ ev = "spend" /\ ev' = "done" /\ runner' = runner
    /\ CASE Head(feed).kind = "claim" /\ swap.status = "INVOICE_PAID" ->
              Writes("CONTRACT_CLAIMED_UNCONFIRMED", swap.outcome)
         [] Head(feed).kind = "refund" /\ swap.status = "CONTRACT_EXPIRED" ->
              Writes("CONTRACT_REFUNDED_UNCONFIRMED", swap.outcome)
         [] OTHER -> Writes(swap.status, swap.outcome)

IgnoredEffect ==
    /\ Handling /\ ev = "idle" /\ ev' = "done" /\ runner # "running" /\ runner' = runner
    /\ Writes(swap.status, swap.outcome)

ExpiryEffect ==
    /\ swap.status = "CREATED" /\ Writes("DONE", "EXPIRED")
    /\ ev' = ev /\ runner' = "stopped" /\ UNCHANGED <<feed, onchain, tip, payment>>

PaidEffect ==
    /\ payment = "settled" /\ ~swap.preImage /\ swap.status # "CREATED"
    /\ swap.status # "CONTRACT_FUNDED_UNCONFIRMED"
    /\ swap'.status = "INVOICE_PAID" /\ swap'.outcome = swap.outcome
    /\ swap'.lockTx = swap.lockTx /\ swap'.lockTxHeight = swap.lockTxHeight
    /\ swap'.unlockTxHeight = swap.unlockTxHeight /\ swap'.preImage
    /\ ev' = ev /\ runner' = runner /\ UNCHANGED <<feed, onchain, tip, payment>>

QuietEffect ==
    /\ Writes(swap.status, swap.outcome) /\ runner' = runner
    /\ ev' = ev \/ (ev = "done" /\ ev' = "idle")

(* A step of a calm swap, in which what is known stays known.              *)
StepInv ==
    InTime /\ KnownInv /\ runner # "waiting" /\ [Next]_vars /\ KnownInv'

LEMMA BlockStep ==
    ASSUME StepInv, ProcessNewBlock
    PROVE  BlockEffect
<1>1. /\ swap \in Entities
      /\ swap.status \notin {"CONTRACT_AMOUNT_MISMATCH",
                             "CONTRACT_AMOUNT_MISMATCH_UNCONFIRMED"}
  BY FullFacts DEF StepInv
<1>2. /\ Handling /\ Head(feed).kind = "block" /\ ev = "idle" /\ ev' = "done"
      /\ runner = "running"
  BY DEF ProcessNewBlock, Dispatch, Handling, world, lightning, chain
<1>3. CASE BlockExpires
  <2>1. Writes("CONTRACT_EXPIRED", swap.outcome)
    BY <1>1, <1>3 DEF BlockExpires, Writes, Entities
  <2> QED BY <1>1, <1>2, <1>3, <2>1 DEF BlockExpires, Expiring, BlockEffect
<1>4. CASE BlockConfirmsMismatch
  BY <1>1, <1>4 DEF BlockConfirmsMismatch
<1>5. CASE BlockFunds
  <2>1. Writes("CONTRACT_FUNDED", swap.outcome)
    BY <1>1, <1>5 DEF BlockFunds, Writes, Entities
  <2> QED BY <1>2, <1>5, <2>1 DEF BlockFunds, Expiring, BlockEffect
<1>6. CASE BlockFinishes
  <2>1. PICK t \in Spends :
          /\ swap.status = StatusOf[t]
          /\ swap' = [swap EXCEPT !.status = "DONE", !.outcome = OutcomeOf[t]]
    BY <1>6 DEF BlockFinishes, StatusOf, OutcomeOf, Spends
  <2>2. Writes("DONE", OutcomeOf[t])
    BY <1>1, <2>1 DEF Writes, Entities
  <2> QED BY <1>2, <1>6, <2>1, <2>2 DEF BlockFinishes, BlockEffect
<1>7. CASE BlockIgnored
  <2>1. /\ Writes(swap.status, swap.outcome) /\ runner' = runner
        /\ swap.status \in {"CONTRACT_FUNDED", "CONTRACT_FUNDED_UNCONFIRMED"} =>
             ~(timeoutBlockHeight <= height)
    BY <1>7 DEF BlockIgnored, Expiring, Writes
  <2>2. swap.status = "CONTRACT_FUNDED_UNCONFIRMED" =>
          ~hasEnoughConfirmations(swap.lockTxHeight, height)
    BY <1>7 DEF BlockIgnored
  <2>3. \A t \in Spends : swap.status = StatusOf[t] =>
          ~hasEnoughConfirmations(swap.unlockTxHeight, height)
    BY <1>7 DEF BlockIgnored, StatusOf, Spends
  <2> QED BY <1>2, <2>1, <2>2, <2>3 DEF BlockEffect
<1> QED BY <1>3, <1>4, <1>5, <1>6, <1>7 DEF ProcessNewBlock

LEMMA DepositStep ==
    ASSUME StepInv, ProcessFundingTx
    PROVE  DepositEffect
<1>1. /\ swap \in Entities /\ OnlyExactDeposit /\ TypeInv /\ PaymentFollowsDeposit
      /\ swap.status \notin {"CONTRACT_AMOUNT_MISMATCH",
                             "CONTRACT_AMOUNT_MISMATCH_UNCONFIRMED"}
  BY FullFacts DEF StepInv, KnownInv, ViewInv
<1>2. PICK d \in Deposits :
        Dispatch(d) /\ (AssetMismatch(d) \/ AmountMismatch(d) \/ ExpectedAmount(d))
  BY DEF ProcessFundingTx
<1>3. feed # << >> /\ Head(feed).kind = d /\ ev = "idle" /\ runner = "running"
  BY <1>2 DEF Dispatch
<1>4. d = "exact"
  BY <1>1, <1>3, HeadKnown DEF OnlyExactDeposit, Deposits, ContractTxs
<1>5. RecordFunding("exact") /\ ev' = "done" /\ runner' = runner
  BY <1>1, <1>2, <1>4
  DEF AssetMismatch, AmountMismatch, ExpectedAmount, OnlyExactDeposit
<1>6. Handling
  BY <1>3 DEF Handling, ProcessFundingTx, world, lightning, chain
<1>7. IF swap.status \in {"CREATED", "CONTRACT_FUNDED_UNCONFIRMED"}
        THEN /\ swap'.status = "CONTRACT_FUNDED_UNCONFIRMED"
             /\ swap'.lockTxHeight = confirmedHeight(swap.lockTxHeight)
             /\ swap'.lockTx = "exact"
             /\ swap'.outcome = swap.outcome /\ swap'.preImage = swap.preImage
             /\ swap'.unlockTxHeight = swap.unlockTxHeight
        ELSE Writes(swap.status, swap.outcome)
  BY <1>1, <1>5 DEF RecordFunding, Entities, Writes
<1> QED BY <1>3, <1>4, <1>5, <1>6, <1>7 DEF DepositEffect

LEMMA SightingStep ==
    ASSUME StepInv, RecordSpendingTx
    PROVE  SightingEffect
<1>1. PICK t \in Spends : Dispatch(t)
  BY DEF RecordSpendingTx
<1>2. /\ feed # << >> /\ Head(feed).kind = t /\ ev = "idle" /\ runner = "running"
      /\ t \in ContractTxs
  BY <1>1 DEF Dispatch, ContractTxs
<1>3. swap \in Entities /\ swap.lockTx = "exact" /\ spends[t] = "exact"
  <2>1. onchain[t] # Absent
    BY <1>2, HeadKnown DEF StepInv, KnownInv
  <2> QED BY <2>1, FullFacts DEF StepInv
<1>4. /\ swap' = [swap EXCEPT !.unlockTxHeight = confirmedHeight(@)]
      /\ ev' = "spend" /\ runner' = runner
      /\ UNCHANGED <<feed, onchain, tip, payment>>
  BY <1>2, <1>3 DEF RecordSpendingTx, world, lightning, chain
<1> QED BY <1>2, <1>3, <1>4 DEF SightingEffect, Handling, Entities

LEMMA SpendStep ==
    ASSUME StepInv, ApplySpendingTx
    PROVE  SpendEffect
<1>1. swap \in Entities /\ (ev # "idle" => feed # << >>)
  BY FullFacts DEF StepInv, KnownInv, TypeInv, HandlerHasEvent
<1>2. /\ Handling /\ ev = "spend" /\ ev' = "done" /\ runner' = runner
  BY <1>1 DEF ApplySpendingTx, Handling, world, lightning, chain
<1>3. CASE Head(feed).kind = "claim" /\ swap.status = "INVOICE_PAID"
  <2>1. swap' = [swap EXCEPT !.status = "CONTRACT_CLAIMED_UNCONFIRMED"]
    BY <1>3 DEF ApplySpendingTx
  <2>2. Writes("CONTRACT_CLAIMED_UNCONFIRMED", swap.outcome)
    BY <1>1, <2>1 DEF Writes, Entities
  <2> QED BY <1>2, <1>3, <2>2 DEF SpendEffect
<1>4. CASE Head(feed).kind = "refund" /\ swap.status = "CONTRACT_EXPIRED"
  <2>1. swap' = [swap EXCEPT !.status = "CONTRACT_REFUNDED_UNCONFIRMED"]
    BY <1>4 DEF ApplySpendingTx
  <2>2. Writes("CONTRACT_REFUNDED_UNCONFIRMED", swap.outcome)
    BY <1>1, <2>1 DEF Writes, Entities
  <2> QED BY <1>2, <1>4, <2>2 DEF SpendEffect
<1>5. CASE /\ ~(Head(feed).kind = "claim" /\ swap.status = "INVOICE_PAID")
           /\ ~(Head(feed).kind = "refund" /\ swap.status = "CONTRACT_EXPIRED")
  <2>1. swap' = swap
    BY <1>5 DEF ApplySpendingTx
  <2> QED BY <1>2, <1>5, <2>1 DEF SpendEffect, Writes
<1> QED BY <1>3, <1>4, <1>5

(* Every step is one of these.                                             *)
LEMMA StepEffect ==
    ASSUME StepInv
    PROVE  \/ BlockEffect \/ DepositEffect \/ SightingEffect \/ SpendEffect
           \/ IgnoredEffect \/ ExpiryEffect \/ PaidEffect \/ QuietEffect
<1>1. /\ Calm /\ TypeInv /\ ViewInv /\ CalmInv /\ CalmInv' /\ ClaimFollowsPayment
      /\ swap \in Entities /\ runner # "waiting"
  BY FullFacts DEF StepInv, KnownInv, InTime
<1>2. up /\ up' /\ ~Die
  BY <1>1 DEF CalmInv, Die
<1>3. CASE CheckExpiry
  <2>1. swap' = [swap EXCEPT !.status = "DONE", !.outcome = "EXPIRED"]
    BY <1>3 DEF CheckExpiry
  <2>2. Writes("DONE", "EXPIRED")
    BY <1>1, <2>1 DEF Writes, Entities
  <2> QED BY <1>3, <2>2 DEF CheckExpiry, ExpiryEffect, world, lightning, chain
<1>4. CASE InvoicePaid
  <2>1. /\ swap' = [swap EXCEPT !.status = "INVOICE_PAID", !.preImage = TRUE]
        /\ pay = "paid"
        /\ UNCHANGED <<ev, runner, feed, onchain, tip, payment>>
    BY <1>4 DEF InvoicePaid, world, lightning, chain
  <2>2. /\ payment = "settled" /\ ~swap.preImage /\ ~Fundable
    BY <1>1, <2>1 DEF ClaimFollowsPayment, ViewInv, PaymentNoticedOnce
  <2> QED BY <1>1, <2>1, <2>2 DEF PaidEffect, Fundable, Entities
<1>5. CASE NobodyListens
  BY <1>2, <1>5
  DEF NobodyListens, IgnoredEffect, Handling, Writes, world, lightning, chain
<1>6. CASE RecordMismatch
  BY <1>1, <1>6 DEF RecordMismatch, ViewInv, OnlyExactDeposit
<1>7. CASE \/ ComputeLimit \/ SendPayment \/ PaymentReply \/ RetryPayment
           \/ BroadcastClaim \/ CommitEvent \/ Restart \/ Resume \/ Crash
           \/ WorldStep \/ UNCHANGED vars
  BY <1>1, <1>2, <1>7
  DEF ComputeLimit, SendPayment, PaymentReply, RetryPayment, BroadcastClaim, CommitEvent,
      Restart, Resume, Crash, WorldStep, Deposit, UserSettles, PaymentFails, UserRefunds,
      NewBlock, NewBitcoinBlock, vars, server, QuietEffect, Writes
<1> QED
  BY <1>3, <1>4, <1>5, <1>6, <1>7, BlockStep, DepositStep, SightingStep, SpendStep
  DEF StepInv, Next, ServerStep

(* A step from a state in which it is known that the status follows.       *)
FollowStep == StepInv /\ FollowInv

LEMMA FollowFacts ==
    ASSUME FollowStep
    PROVE  /\ Calm /\ TypeInv /\ ViewInv /\ PaymentFollowsDeposit /\ [Next]_vars
           /\ HeightsInOrder /\ MinedInTime /\ DepositNoticed /\ StatusInOrder
           /\ SpendFollowed /\ BlocksFollowed
           /\ ChainNumbers /\ ChainNumbers' /\ tip[Chain] <= tip'[Chain]
           /\ \A t \in ContractTxs : onchain[t] # Absent => onchain'[t] # Absent
           /\ payment = "settled" => swap.lockTx # "none"
           /\ \A h \in Heights : h \in Nat
           /\ timeoutBlockHeight' = timeoutBlockHeight
<1>1. /\ Calm /\ TypeInv /\ ViewInv /\ PaymentFollowsDeposit /\ [Next]_vars /\ CalmInv
      /\ TypeInv' /\ FollowInv
  BY DEF FollowStep, StepInv, KnownInv, InTime
<1>2. /\ ChainNumbers /\ ChainNumbers' /\ tip[Chain] <= tip'[Chain]
      /\ \A t \in ContractTxs : onchain[t] # Absent => onchain'[t] # Absent
  <2>1. ChainNumbers /\ ChainNumbers'
    BY <1>1, ChainType, PTL
  <2> QED BY <1>1, <2>1, ChainGrows
<1>3. payment = "settled" => swap.lockTx # "none"
  BY <1>1 DEF CalmInv, ClaimIsComing, SpendsInOrder, TypeInv, DepositKnown, Spends
<1>4. \A h \in Heights : h \in Nat
  BY HeightsAreNaturals
<1>5. timeoutBlockHeight' = timeoutBlockHeight
  BY DEF timeoutBlockHeight
<1> QED BY <1>1, <1>2, <1>3, <1>4, <1>5 DEF FollowInv

(* Where the transactions and the tip are after a step.                    *)
LEMMA ChainStep ==
    ASSUME FollowStep
    PROVE  \/ UNCHANGED <<onchain, tip>>
           \/ \E t \in ContractTxs : Broadcasts(t)
           \/ /\ tip'[Chain] = tip[Chain] + 1
              /\ \A t \in ContractTxs :
                   \/ onchain'[t] = onchain[t]
                   \/ onchain[t] = Mempool /\ onchain'[t] = tip[Chain] + 1
              /\ onchain["exact"] = Mempool => onchain'["exact"] = tip[Chain] + 1
<1>1. CASE NewBlock
  <2>1. PICK g : g = tip[Chain] + 1
    OBVIOUS
  <2>2. /\ tip'[Chain] = g
        /\ \A t \in ContractTxs :
             \/ onchain'[t] = onchain[t]
             \/ onchain[t] = Mempool /\ onchain'[t] = g
        /\ onchain["exact"] = Mempool => onchain'["exact"] = g
    BY <1>1, <2>1, FollowFacts, MinedAwaits
  <2> QED BY <2>1, <2>2
<1>2. CASE ~NewBlock
  BY <1>2, FollowFacts, FeedSteps
<1> QED BY <1>1, <1>2

LEMMA StepHeightsInOrder ==
    ASSUME FollowStep
    PROVE  HeightsInOrder'
<1>1. /\ \A i \in 1 .. Len(feed) : feed[i].h \in Nat /\ feed[i].h <= tip[Chain]
      /\ \A i \in 1 .. Len(feed') : feed'[i].h \in Nat
  <2>1. /\ feed \in Seq(TrueEvents) /\ feed' \in Seq(TrueEvents')
        /\ \A e \in TrueEvents : e.h \in Nat /\ e.h <= tip[Chain]
        /\ \A e \in TrueEvents' : e.h \in Nat
    BY HeightsAreNaturals
    DEF FollowStep, StepInv, KnownInv, PaymentFollowsDeposit, TrueEvents
  <2> QED BY <2>1, ElementOfSeq
<1>2. tip[Chain] \in Nat
  BY FollowFacts DEF ChainNumbers
<1> SUFFICES ASSUME NEW i \in 1 .. Len(feed'), NEW j \in 1 .. Len(feed'),
                    i < j, feed'[j].h > 0
             PROVE  feed'[i].h <= feed'[j].h
  BY DEF HeightsInOrder
<1>3. CASE feed' = feed
  BY <1>3, FollowFacts DEF HeightsInOrder
<1>4. CASE feed # << >> /\ feed' = Tail(feed)
  <2>1. /\ Len(feed) \in Nat /\ Len(feed') = Len(feed) - 1
        /\ feed'[i] = feed[i + 1] /\ feed'[j] = feed[j + 1]
    BY <1>4, FollowFacts, FeedShrunk
  <2>2. i + 1 \in 1 .. Len(feed) /\ j + 1 \in 1 .. Len(feed) /\ i + 1 < j + 1
    BY <2>1
  <2>3. feed[j + 1].h > 0 => feed[i + 1].h <= feed[j + 1].h
    BY <2>2, FollowFacts DEF HeightsInOrder
  <2> QED BY <2>1, <2>3
<1>5. CASE Grown
  <2>1. /\ Len(feed) \in Nat /\ Len(feed') \in Nat
        /\ i <= Len(feed) => i \in 1 .. Len(feed) /\ feed'[i] = feed[i]
        /\ j <= Len(feed) => j \in 1 .. Len(feed) /\ feed'[j] = feed[j]
        /\ i > Len(feed) => feed'[i].h \in {0, tip[Chain] + 1}
        /\ j > Len(feed) => feed'[j].h \in {0, tip[Chain] + 1}
    BY <1>5 DEF Grown
  <2>2. CASE j <= Len(feed)
    <3>1. feed[j].h > 0 => feed[i].h <= feed[j].h
      BY <2>1, <2>2, FollowFacts DEF HeightsInOrder
    <3> QED BY <2>1, <2>2, <3>1
  <2>3. CASE j > Len(feed)
    BY <1>1, <1>2, <2>1, <2>3
  <2> QED BY <2>1, <2>2, <2>3
<1> QED BY <1>3, <1>4, <1>5, FollowFacts, FeedChanges

LEMMA StepMinedInTime ==
    ASSUME FollowStep
    PROVE  MinedInTime'
<1>1. /\ MinedInTime /\ ChainNumbers
      /\ "exact" \in ContractTxs /\ "refund" \in ContractTxs
      /\ onchain["exact"] \in Int /\ onchain["refund"] \in Int /\ tip[Chain] \in Nat
      /\ timeoutBlockHeight' = timeoutBlockHeight
  BY FollowFacts DEF ChainNumbers, ContractTxs, Deposits, Spends
<1>2. /\ timeoutBlockHeight \in Nat /\ DepositBy \in Nat
      /\ onchain["refund"] # Absent => tip[Chain] >= timeoutBlockHeight
  BY FullFacts DEF FollowStep, StepInv
<1>3. CASE UNCHANGED <<onchain, tip>>
  BY <1>1, <1>3 DEF MinedInTime
<1>4. ASSUME NEW t \in ContractTxs, Broadcasts(t) PROVE MinedInTime'
  <2>1. /\ onchain' = [onchain EXCEPT ![t] = Mempool] /\ tip' = tip
        /\ t = "exact" => tip[Chain] <= DepositBy
    BY <1>4 DEF Broadcasts
  <2>2. onchain \in [ContractTxs -> {Absent} \cup Heights]
    BY FollowFacts DEF TypeInv, WorldTypeOK
  <2>3. /\ onchain'["exact"] = IF t = "exact" THEN 0 ELSE onchain["exact"]
        /\ onchain'["refund"] = IF t = "refund" THEN 0 ELSE onchain["refund"]
    BY <1>1, <2>1, <2>2 DEF Mempool
  <2> QED BY <1>1, <1>2, <2>1, <2>3 DEF MinedInTime
<1>5. CASE /\ tip'[Chain] = tip[Chain] + 1
           /\ \A t \in ContractTxs :
                \/ onchain'[t] = onchain[t]
                \/ onchain[t] = Mempool /\ onchain'[t] = tip[Chain] + 1
           /\ onchain["exact"] = Mempool => onchain'["exact"] = tip[Chain] + 1
  <2>1. /\ \/ onchain'["exact"] = onchain["exact"]
           \/ onchain["exact"] = Mempool /\ onchain'["exact"] = tip[Chain] + 1
        /\ \/ onchain'["refund"] = onchain["refund"]
           \/ onchain["refund"] = Mempool /\ onchain'["refund"] = tip[Chain] + 1
        /\ onchain["exact"] = Mempool => onchain'["exact"] = tip[Chain] + 1
    BY <1>1, <1>5
  <2> QED BY <1>1, <1>2, <1>5, <2>1 DEF MinedInTime, Mempool, Absent
<1> QED BY <1>3, <1>4, <1>5, ChainStep

LEMMA StepDepositNoticed ==
    ASSUME FollowStep
    PROVE  DepositNoticed'
<1> SUFFICES ASSUME NEW h \in Heights, Handled("exact", h)'
             PROVE  /\ swap'.status # "CREATED"
                    /\ swap'.status = "CONTRACT_FUNDED_UNCONFIRMED" =>
                         swap'.lockTxHeight = h
  BY DEF DepositNoticed
<1>1. "exact" \in ContractTxs /\ "exact" \notin Spends /\ h \in Nat
  BY FollowFacts DEF ContractTxs, Deposits, Spends
<1>2. CASE Handled("exact", h)
  <2>1. /\ swap.status # "CREATED"
        /\ swap.status = "CONTRACT_FUNDED_UNCONFIRMED" => swap.lockTxHeight = h
    BY <1>2, FollowFacts DEF DepositNoticed
  <2>2. CASE DepositEffect
    <3>1. height > 0 => height = h
      BY <1>1, <1>2, <2>2, FollowFacts, HeadKnown DEF DepositEffect, Handling, Handled
    <3> QED BY <2>1, <2>2, <3>1 DEF DepositEffect, confirmedHeight, Writes
  <2> QED
    BY <2>1, <2>2, StepEffect
    DEF FollowStep, BlockEffect, SightingEffect, SpendEffect, IgnoredEffect, ExpiryEffect,
        PaidEffect, QuietEffect, Writes
<1>3. CASE onchain["exact"] = h /\ HandledNow(Event("exact", h))
  <2>1. /\ Head(feed).kind = "exact" /\ height = h /\ ev # "done" /\ ev' = "done"
        /\ h > 0
    BY <1>3 DEF HandledNow, Event, height, Handled
  <2>2. CASE DepositEffect
    BY <2>1, <2>2 DEF DepositEffect, confirmedHeight, Writes
  <2>3. CASE IgnoredEffect
    <3>1. swap.status = "DONE"
      BY <2>3, FollowFacts DEF IgnoredEffect, StatusInOrder, TypeInv, ProcessTypeOK
    <3> QED BY <2>3, <3>1 DEF IgnoredEffect, Writes
  <2>4. ~SpendEffect
    BY <1>1, <2>1, FollowFacts DEF SpendEffect, SpendFollowed
  <2> QED
    BY <1>1, <2>1, <2>2, <2>3, <2>4, StepEffect
    DEF FollowStep, BlockEffect, SightingEffect, ExpiryEffect, PaidEffect, QuietEffect
<1> QED BY <1>1, <1>2, <1>3, FollowFacts, SightingHandled

LEMMA StepStatusInOrder ==
    ASSUME FollowStep
    PROVE  StatusInOrder'
<1>1. /\ StatusInOrder /\ PaymentNoticedOnce /\ TypeInv /\ PaymentFollowsDeposit
      /\ timeoutBlockHeight' = timeoutBlockHeight
      /\ tip[Chain] \in Nat /\ tip'[Chain] \in Nat /\ tip[Chain] <= tip'[Chain]
      /\ onchain["refund"] # Absent => onchain'["refund"] # Absent
      /\ payment = "settled" => swap.lockTx # "none"
  BY FollowFacts DEF ViewInv, ChainNumbers, ContractTxs, Spends
<1>2. /\ swap \in Entities /\ timeoutBlockHeight \in Nat
      /\ swap.outcome # "NONE" <=> swap.status = "DONE"
      /\ swap.outcome = "REFUNDED" => onchain["refund"] # Absent
      /\ swap.outcome = "EXPIRED" => swap.lockTx = "none"
      /\ swap.outcome # "ERROR"
      /\ onchain["refund"] # Absent => payment # "settled" /\ ~swap.preImage
  <2>1. swap.outcome = "REFUNDED" => onchain["refund"] > 0
    BY FullFacts DEF FollowStep, StepInv
  <2>2. Absent > 0 => FALSE
    BY DEF Absent
  <2> QED BY <2>1, <2>2, FullFacts DEF FollowStep, StepInv
<1>3. swap.outcome \in Outcomes
  BY <1>2 DEF Entities
<1>4. CASE BlockEffect
  <2>1. runner = "running" /\ swap.status # "DONE" /\ swap.outcome = "NONE"
    BY <1>1, <1>2, <1>4 DEF BlockEffect, StatusInOrder
  <2>2. /\ height <= tip[Chain] /\ height \in Nat
        /\ UNCHANGED <<onchain, tip>>
    BY <1>1, <1>4, HeadKnown DEF BlockEffect, Handling
  <2>3. \A t \in Spends : swap.status = StatusOf[t] =>
          IF t = "claim" THEN swap.preImage ELSE t = "refund" /\ ~swap.preImage
    <3>1. swap.status = "CONTRACT_CLAIMED_UNCONFIRMED" => swap.preImage
      BY <1>1 DEF PaymentNoticedOnce
    <3>2. swap.status = "CONTRACT_REFUNDED_UNCONFIRMED" => ~swap.preImage
      BY <1>1, <1>2 DEF StatusInOrder
    <3> QED BY <3>1, <3>2 DEF Spends, StatusOf
  <2>4. OutcomeOf["claim"] = "SUCCESS" /\ OutcomeOf["refund"] = "REFUNDED"
    BY DEF OutcomeOf
  <2> QED
    BY <1>1, <1>2, <1>4, <2>1, <2>2, <2>3, <2>4 DEF BlockEffect, StatusInOrder, Writes
<1>5. CASE DepositEffect
  BY <1>1, <1>2, <1>5 DEF DepositEffect, StatusInOrder, Handling, Writes
<1>6. CASE SpendEffect
  <2>1. Head(feed).kind = "refund" => onchain["refund"] # Absent
    BY <1>1, <1>6, HeadKnown DEF SpendEffect, Handling, ContractTxs, Spends
  <2>2. CASE Head(feed).kind = "claim" /\ swap.status = "INVOICE_PAID"
    <3>1. Writes("CONTRACT_CLAIMED_UNCONFIRMED", swap.outcome) /\ runner' = runner
      BY <1>6, <2>2 DEF SpendEffect
    <3> QED BY <1>1, <1>2, <2>2, <3>1 DEF StatusInOrder, Writes
  <2>3. CASE Head(feed).kind = "refund" /\ swap.status = "CONTRACT_EXPIRED"
    <3>1. Writes("CONTRACT_REFUNDED_UNCONFIRMED", swap.outcome) /\ runner' = runner
      BY <1>6, <2>3 DEF SpendEffect
    <3> QED BY <1>1, <1>2, <2>1, <2>3, <3>1 DEF StatusInOrder, Writes
  <2>4. CASE /\ ~(Head(feed).kind = "claim" /\ swap.status = "INVOICE_PAID")
             /\ ~(Head(feed).kind = "refund" /\ swap.status = "CONTRACT_EXPIRED")
    <3>1. Writes(swap.status, swap.outcome) /\ runner' = runner
      BY <1>6, <2>4 DEF SpendEffect
    <3> QED BY <1>1, <1>2, <3>1 DEF StatusInOrder, Writes
  <2> QED BY <2>2, <2>3, <2>4
<1>7. CASE ExpiryEffect
  BY <1>1, <1>2, <1>7 DEF ExpiryEffect, StatusInOrder, Writes
<1>8. CASE PaidEffect
  <2>1. swap.status # "DONE"
    BY <1>1, <1>2, <1>3, <1>8 DEF PaidEffect, StatusInOrder, Outcomes
  <2> QED BY <1>1, <1>2, <1>8, <2>1 DEF PaidEffect, StatusInOrder
<1>9. CASE SightingEffect \/ IgnoredEffect \/ QuietEffect
  <2>1. /\ swap'.status = swap.status /\ swap'.outcome = swap.outcome
        /\ swap'.preImage = swap.preImage /\ runner' = runner
    BY <1>9 DEF SightingEffect, IgnoredEffect, QuietEffect, Writes
  <2> QED BY <1>1, <1>2, <2>1 DEF StatusInOrder
<1> QED
  BY <1>4, <1>5, <1>6, <1>7, <1>8, <1>9, StepEffect DEF FollowStep

(* The spend that exists is the only one, and where the status may be once *)
(* it does.                                                                *)
LEMMA SpendKnown ==
    ASSUME FollowStep, NEW t \in Spends, onchain[t] # Absent
    PROVE  /\ \A u \in Spends : onchain[u] # Absent => u = t
           /\ payment = "settled" <=> t = "claim"
           /\ swap.unlockTxHeight > 0 => swap.unlockTxHeight = onchain[t]
           /\ swap.status = "DONE" => swap.outcome = OutcomeOf[t]
           /\ t = "claim" => swap.preImage
           /\ t = "refund" => swap.status \notin
                {"CREATED", "INVOICE_PAID", "CONTRACT_CLAIMED_UNCONFIRMED"}
<1>1. /\ onchain["claim"] # Absent => onchain["refund"] = Absent /\ payment = "settled"
      /\ onchain["refund"] # Absent => onchain["claim"] = Absent /\ payment # "settled"
      /\ onchain["claim"] # Absent => swap.preImage
      /\ onchain["refund"] # Absent => ~swap.preImage
      /\ swap \in Entities /\ swap.lockTx = "exact"
      /\ swap.lockTx # "none" => swap.status # "CREATED"
      /\ swap.outcome # "NONE" <=> swap.status = "DONE"
      /\ swap.outcome = "REFUNDED" => onchain["refund"] > 0
      /\ swap.outcome = "SUCCESS" => payment = "settled"
      /\ swap.outcome = "EXPIRED" => swap.lockTx = "none"
      /\ swap.outcome # "ERROR"
      /\ swap.unlockTxHeight > 0 =>
           swap.unlockTxHeight \in {onchain["claim"], onchain["refund"]}
  BY FullFacts DEF FollowStep, StepInv
<1>2. t \in {"claim", "refund"} /\ ~(Absent > 0)
  BY DEF Spends, Absent
<1>3. swap.status = "DONE" => swap.outcome = OutcomeOf[t]
  <2>1. swap.outcome \in Outcomes
    BY <1>1 DEF Entities
  <2> QED BY <1>1, <1>2, <2>1 DEF OutcomeOf, Outcomes
<1>4. t = "refund" => swap.status \notin
        {"CREATED", "INVOICE_PAID", "CONTRACT_CLAIMED_UNCONFIRMED"}
  BY <1>1, FollowFacts DEF ViewInv, PaymentNoticedOnce
<1> QED BY <1>1, <1>2, <1>3, <1>4 DEF Spends

(* The mined spend stays recorded.                                         *)
LEMMA StaysFollowed ==
    ASSUME FollowStep, NEW t \in Spends, NEW h \in Heights, Handled(t, h)
    PROVE  /\ swap'.unlockTxHeight = h
           /\ swap'.status = StatusOf[t] \/ swap'.outcome = OutcomeOf[t]
<1>1. /\ swap.unlockTxHeight = h
      /\ swap.status = StatusOf[t] \/ swap.outcome = OutcomeOf[t]
  BY FollowFacts DEF SpendFollowed
<1>2. /\ t \in ContractTxs /\ h \in Nat /\ h > 0 /\ onchain[t] = h
      /\ StatusOf[t] \in {"CONTRACT_CLAIMED_UNCONFIRMED", "CONTRACT_REFUNDED_UNCONFIRMED"}
      /\ OutcomeOf[t] \in {"SUCCESS", "REFUNDED"}
      /\ \A u \in Spends : StatusOf[u] = StatusOf[t] => u = t
  BY FollowFacts DEF Handled, ContractTxs, Spends, StatusOf, OutcomeOf
<1>3. onchain[t] # Absent
  BY <1>2 DEF Absent
<1>4. /\ swap.outcome = OutcomeOf[t] => swap.status = "DONE"
      /\ swap.status = "DONE" => swap.outcome = OutcomeOf[t] /\ runner = "stopped"
  <2>1. swap.outcome # "NONE" => swap.status = "DONE"
    BY FullFacts DEF FollowStep, StepInv
  <2> QED BY <1>2, <1>3, <2>1, SpendKnown, FollowFacts DEF StatusInOrder
<1>5. CASE BlockEffect
  <2>1. swap.status = StatusOf[t]
    BY <1>1, <1>4, <1>5 DEF BlockEffect
  <2> QED BY <1>1, <1>2, <1>5, <2>1 DEF BlockEffect, Writes
<1>6. CASE DepositEffect
  BY <1>1, <1>2, <1>4, <1>6 DEF DepositEffect, Writes
<1>7. CASE SightingEffect
  <2>1. height > 0 => height = h
    BY <1>2, <1>3, <1>7, SpendKnown, FollowFacts, HeadKnown
    DEF SightingEffect, Handling, ContractTxs
  <2> QED BY <1>1, <1>7, <2>1 DEF SightingEffect, confirmedHeight
<1>8. CASE SpendEffect
  <2>1. swap.status \notin {"INVOICE_PAID", "CONTRACT_EXPIRED"}
    BY <1>1, <1>2, <1>4
  <2>2. Writes(swap.status, swap.outcome)
    BY <1>8, <2>1 DEF SpendEffect
  <2> QED BY <1>1, <2>2 DEF Writes
<1>9. ~PaidEffect
  <2>1. t \in {"claim", "refund"}
    BY DEF Spends
  <2> QED BY <1>3, <2>1, SpendKnown DEF PaidEffect
<1>10. ~ExpiryEffect
  BY <1>1, <1>2, <1>4 DEF ExpiryEffect
<1>11. CASE IgnoredEffect \/ QuietEffect
  BY <1>1, <1>11 DEF IgnoredEffect, QuietEffect, Writes
<1> QED
  BY <1>5, <1>6, <1>7, <1>8, <1>9, <1>10, <1>11, StepEffect DEF FollowStep

(* A refund is mined after the timeout, and the blocks up to the timeout    *)
(* have expired the swap when its event comes.                             *)
LEMMA RefundFindsExpired ==
    ASSUME FollowStep, feed # << >>, onchain["refund"] = height, height > 0
    PROVE  swap.status \in
             {"CONTRACT_EXPIRED", "CONTRACT_REFUNDED_UNCONFIRMED", "DONE"}
<1>1. /\ TypeInv /\ PaymentFollowsDeposit /\ HeightsInOrder /\ MinedInTime
      /\ BlocksFollowed /\ "refund" \in Spends
  BY FollowFacts DEF Spends
<1>2. /\ timeoutBlockHeight \in Nat /\ timeoutBlockHeight > 1 /\ swap \in Entities
      /\ tip[Chain] \in Nat /\ height \in Nat /\ height <= tip[Chain]
      /\ tip[Chain] <= MaxHeight[Chain] /\ MaxHeight[Chain] \in Nat
  <2>1. MaxHeight[Chain] \in Nat
    BY SwapInAssumption
  <2> QED
    BY <1>1, <2>1, FullFacts, HeadKnown DEF FollowStep, StepInv, TypeInv, WorldTypeOK
<1>3. timeoutBlockHeight < height
  BY <1>1 DEF MinedInTime
<1>4. timeoutBlockHeight \in Heights /\ timeoutBlockHeight <= tip[Chain]
  BY <1>2, <1>3 DEF Heights
<1>5. ~Awaits(Event("block", timeoutBlockHeight))
  BY <1>1, <1>2, <1>3, EarlierHandled
<1>6. BlockLeaves(timeoutBlockHeight)
  BY <1>1, <1>4, <1>5 DEF BlocksFollowed, Handled
<1>7. swap.status \notin {"CONTRACT_FUNDED_UNCONFIRMED", "CONTRACT_FUNDED"}
  BY <1>2, <1>6 DEF BlockLeaves
<1>8. onchain["refund"] # Absent
  BY DEF Absent
<1>9. /\ swap.status \notin {"CREATED", "INVOICE_PAID", "CONTRACT_CLAIMED_UNCONFIRMED"}
      /\ swap.status \notin {"CONTRACT_AMOUNT_MISMATCH",
                             "CONTRACT_AMOUNT_MISMATCH_UNCONFIRMED"}
  BY <1>1, <1>8, SpendKnown, FullFacts DEF FollowStep, StepInv
<1> QED BY <1>2, <1>7, <1>9 DEF Entities, Statuses

(* When its event is handled, the status follows it.                       *)
LEMMA ComesToFollow ==
    ASSUME FollowStep, NEW t \in Spends, NEW h \in Heights, h > 0, onchain[t] = h,
           HandledNow(Event(t, h))
    PROVE  /\ swap'.unlockTxHeight = h
           /\ swap'.status = StatusOf[t] \/ swap'.outcome = OutcomeOf[t]
<1>1. /\ feed # << >> /\ Head(feed).kind = t /\ height = h
      /\ ev # "done" /\ ev' = "done" /\ h \in Nat /\ onchain[t] # Absent
  BY FollowFacts DEF HandledNow, Event, height, Absent
<1>2. t \in {"claim", "refund"} /\ t # "exact" /\ t # "block"
  BY DEF Spends
<1>3. CASE SpendEffect
  <2>1. swap.unlockTxHeight = h
    BY <1>1, <1>3, FollowFacts DEF SpendFollowed, SpendEffect
  <2>2. CASE t = "claim"
    <3>1. \/ swap.status \in {"INVOICE_PAID", "CONTRACT_CLAIMED_UNCONFIRMED"}
          \/ swap.outcome = "SUCCESS"
      BY <1>1, <2>2, SpendKnown, FollowFacts DEF StatusInOrder
    <3> QED
      BY <1>1, <1>3, <2>1, <2>2, <3>1 DEF SpendEffect, Writes, StatusOf, OutcomeOf
  <2>3. CASE t = "refund"
    <3>1. swap.status \in {"CONTRACT_EXPIRED", "CONTRACT_REFUNDED_UNCONFIRMED", "DONE"}
      BY <1>1, <2>3, RefundFindsExpired
    <3>2. swap.status = "DONE" => swap.outcome = OutcomeOf[t]
      BY <1>1, SpendKnown
    <3> QED
      BY <1>1, <1>3, <2>1, <2>3, <3>1, <3>2 DEF SpendEffect, Writes, StatusOf, OutcomeOf
  <2> QED BY <1>2, <2>2, <2>3
<1>4. CASE IgnoredEffect
  <2>1. swap.outcome = OutcomeOf[t]
    BY <1>1, <1>4, SpendKnown, FollowFacts
    DEF IgnoredEffect, StatusInOrder, TypeInv, ProcessTypeOK
  <2>2. swap.unlockTxHeight = h
    BY <1>1, <1>2, <2>1, SpendKnown, FollowFacts DEF SpendFollowed, OutcomeOf
  <2> QED BY <1>4, <2>1, <2>2 DEF IgnoredEffect, Writes
<1> QED
  BY <1>1, <1>2, <1>3, <1>4, StepEffect
  DEF FollowStep, BlockEffect, DepositEffect, SightingEffect, ExpiryEffect, PaidEffect,
      QuietEffect

(* While its event is being handled, it stays the first of the feed.       *)
LEMMA FirstStays ==
    ASSUME FollowStep, ev # "done", feed # << >>
    PROVE  Head(feed') = Head(feed)
<1>1. /\ feed \in Feeds /\ feed' \in Feeds
  <2>1. TypeInv /\ TypeInv'
    BY FollowFacts, StepTypeInv
  <2> QED BY <2>1 DEF TypeInv, WorldTypeOK
<1>2. feed' = feed \/ Grown
  BY FollowFacts, FeedChanges DEF CommitEvent
<1>3. CASE Grown
  <2>1. Len(feed) > 0 /\ Len(feed) \in Nat /\ Head(feed) = feed[1]
    BY <1>1, LenProperties, EmptySeq DEF Feeds
  <2>2. feed'[1] = feed[1] /\ Len(feed') > 0
    BY <1>3, <2>1 DEF Grown
  <2>3. Head(feed') = feed'[1]
    BY <1>1, <2>2, EmptySeq DEF Feeds
  <2> QED BY <2>1, <2>2, <2>3
<1> QED BY <1>2, <1>3

LEMMA StepSpendFollowed ==
    ASSUME FollowStep
    PROVE  SpendFollowed'
<1>1. /\ SpendFollowed /\ StatusInOrder /\ TypeInv
      /\ swap.status = "CREATED" => swap.outcome = "NONE"
  BY FollowFacts, FullFacts DEF FollowStep, StepInv
<1>2. ASSUME NEW t \in Spends, NEW h \in Heights, Handled(t, h)'
      PROVE  /\ swap'.unlockTxHeight = h
             /\ swap'.status = StatusOf[t] \/ swap'.outcome = OutcomeOf[t]
  <2>1. t \in ContractTxs /\ h > 0
    BY <1>2 DEF ContractTxs, Handled, Spends
  <2>2. Handled(t, h) \/ (onchain[t] = h /\ HandledNow(Event(t, h)))
    BY <1>2, <2>1, FollowFacts, SightingHandled
  <2> QED BY <2>1, <2>2, StaysFollowed, ComesToFollow
<1>3. ASSUME ev' = "spend"
      PROVE  /\ Head(feed').kind \in Spends
             /\ height' > 0 => swap'.unlockTxHeight = height'
  <2>1. ev # "done" /\ feed # << >> /\ ~BlockEffect /\ ~DepositEffect /\ ~SpendEffect
        /\ ~IgnoredEffect
    <3>1. ev # "done" /\ feed # << >>
      BY <1>1, <1>3, StepEffect
      DEF FollowStep, BlockEffect, DepositEffect, SightingEffect, SpendEffect,
          IgnoredEffect, ExpiryEffect, PaidEffect, QuietEffect, Handling, TypeInv,
          HandlerHasEvent
    <3> QED
      BY <1>3, <3>1 DEF BlockEffect, DepositEffect, SpendEffect, IgnoredEffect
  <2>2. Head(feed') = Head(feed) /\ height' = height
    BY <2>1, FirstStays DEF height
  <2>3. CASE SightingEffect
    BY <2>2, <2>3 DEF SightingEffect, confirmedHeight
  <2>4. CASE ExpiryEffect \/ PaidEffect \/ QuietEffect
    BY <1>1, <1>3, <2>2, <2>4
    DEF ExpiryEffect, PaidEffect, QuietEffect, SpendFollowed, Writes
  <2> QED BY <2>1, <2>3, <2>4, StepEffect DEF FollowStep
<1>4. ASSUME swap'.outcome \in {"SUCCESS", "REFUNDED"}
      PROVE  swap'.unlockTxHeight > 0
  <2>1. CASE BlockEffect
    BY <1>1, <1>4, <2>1 DEF BlockEffect, SpendFollowed, Writes, hasEnoughConfirmations
  <2>2. CASE ~BlockEffect
    BY <1>1, <1>4, <2>2, StepEffect
    DEF FollowStep, DepositEffect, SightingEffect, SpendEffect, IgnoredEffect,
        ExpiryEffect, PaidEffect, QuietEffect, SpendFollowed, Writes, confirmedHeight
  <2> QED BY <2>1, <2>2
<1> QED BY <1>2, <1>3, <1>4 DEF SpendFollowed

(* A transaction that is past a known block was so before the step.        *)
LEMMA PastBefore ==
    ASSUME FollowStep, NEW t \in ContractTxs, NEW h \in Heights, h <= tip[Chain],
           Past(t, h)'
    PROVE  Past(t, h)
<1>1. /\ onchain'[t] > 0 /\ h > onchain'[t]
      /\ h >= onchain'[t] + RequiredConfirmations - 1
  BY DEF Past
<1>2. h \in Nat /\ tip[Chain] \in Nat
  BY FollowFacts DEF ChainNumbers
<1>3. onchain'[t] = onchain[t]
  <2>1. ASSUME NEW u \in ContractTxs, Broadcasts(u) PROVE onchain'[t] = onchain[t]
    <3>1. onchain' = [onchain EXCEPT ![u] = Mempool]
      BY <2>1 DEF Broadcasts
    <3>2. onchain \in [ContractTxs -> {Absent} \cup Heights]
      BY FollowFacts DEF TypeInv, WorldTypeOK
    <3>3. onchain'[t] = IF t = u THEN Mempool ELSE onchain[t]
      BY <3>1, <3>2
    <3> QED BY <1>1, <3>3 DEF Mempool
  <2>2. CASE onchain[t] = Mempool /\ onchain'[t] = tip[Chain] + 1
    BY <1>1, <1>2, <2>2
  <2> QED BY <2>1, <2>2, ChainStep
<1> QED BY <1>1, <1>3 DEF Past

(* The deposit is not made any more once the timeout is reached.           *)
LEMMA NoLateDeposit ==
    ASSUME FollowStep, tip[Chain] >= timeoutBlockHeight, onchain["exact"] = Absent
    PROVE  onchain'["exact"] = Absent
<1>1. /\ DepositBy + 2 <= timeoutBlockHeight /\ DepositBy \in Nat
      /\ timeoutBlockHeight \in Nat /\ tip[Chain] \in Nat /\ "exact" \in ContractTxs
  BY FullFacts DEF FollowStep, StepInv, InTime, ContractTxs, Deposits
<1>2. ASSUME NEW t \in ContractTxs, Broadcasts(t) PROVE onchain'["exact"] = Absent
  <2>1. t # "exact" /\ onchain' = [onchain EXCEPT ![t] = Mempool]
    BY <1>1, <1>2 DEF Broadcasts
  <2>2. onchain \in [ContractTxs -> {Absent} \cup Heights]
    BY FollowFacts DEF TypeInv, WorldTypeOK
  <2> QED BY <1>1, <2>1, <2>2
<1> QED BY <1>1, <1>2, ChainStep DEF Absent, Mempool

(* What a block left behind stays.                                         *)
LEMMA BlockStaysLeft ==
    ASSUME FollowStep, NEW h \in Heights, Handled("block", h)
    PROVE  BlockLeaves(h)'
<1>1. /\ BlockLeaves(h) /\ h <= tip[Chain] /\ h \in Nat
      /\ timeoutBlockHeight' = timeoutBlockHeight
  BY FollowFacts DEF BlocksFollowed, Handled
<1>2. /\ swap.outcome # "NONE" <=> swap.status = "DONE"
      /\ timeoutBlockHeight \in Nat /\ tip[Chain] \in Nat
  BY FullFacts DEF FollowStep, StepInv
<1>3. swap.status = "DONE" <=> runner = "stopped"
  BY FollowFacts DEF StatusInOrder
<1>4. DepositEffect => onchain["exact"] # Absent
  BY FollowFacts, HeadKnown DEF DepositEffect, Handling, ContractTxs, Deposits
<1>5. ASSUME NEW t \in Spends, Past(t, h)' PROVE swap'.outcome = OutcomeOf[t]
  <2>1. swap.outcome = OutcomeOf[t]
    BY <1>1, <1>5, PastBefore DEF BlockLeaves, ContractTxs
  <2>2. swap.status = "DONE" /\ runner = "stopped"
    <3>1. OutcomeOf[t] # "NONE"
      BY DEF Spends, OutcomeOf
    <3> QED BY <1>2, <1>3, <2>1, <3>1
  <2>3. ~BlockEffect /\ ~ExpiryEffect
    BY <2>2 DEF BlockEffect, ExpiryEffect
  <2> QED
    BY <2>1, <2>3, StepEffect
    DEF FollowStep, DepositEffect, SightingEffect, SpendEffect, IgnoredEffect, PaidEffect,
        QuietEffect, Writes
<1>6. ASSUME Past("exact", h)'
      PROVE  swap'.status \notin {"CREATED", "CONTRACT_FUNDED_UNCONFIRMED"}
  <2>1. swap.status \notin {"CREATED", "CONTRACT_FUNDED_UNCONFIRMED"}
    BY <1>1, <1>6, PastBefore DEF BlockLeaves, ContractTxs, Deposits
  <2> QED
    BY <2>1, StepEffect
    DEF FollowStep, BlockEffect, DepositEffect, SightingEffect, SpendEffect,
        IgnoredEffect, ExpiryEffect, PaidEffect, QuietEffect, Writes
<1>7. ASSUME h >= timeoutBlockHeight
      PROVE  /\ swap'.status \notin {"CONTRACT_FUNDED_UNCONFIRMED", "CONTRACT_FUNDED"}
             /\ swap'.status = "CREATED" => onchain'["exact"] = Absent
  <2>1. /\ swap.status \notin {"CONTRACT_FUNDED_UNCONFIRMED", "CONTRACT_FUNDED"}
        /\ swap.status = "CREATED" => onchain["exact"] = Absent
    BY <1>1, <1>7 DEF BlockLeaves
  <2>2. onchain["exact"] = Absent => onchain'["exact"] = Absent
    BY <1>1, <1>2, <1>7, NoLateDeposit
  <2> QED
    BY <1>4, <2>1, <2>2, StepEffect
    DEF FollowStep, BlockEffect, DepositEffect, SightingEffect, SpendEffect,
        IgnoredEffect, ExpiryEffect, PaidEffect, QuietEffect, Writes
<1> QED BY <1>1, <1>5, <1>6, <1>7 DEF BlockLeaves

(* The handler of a block leaves what it should.                           *)
LEMMA BlockComesToLeave ==
    ASSUME FollowStep, NEW h \in Heights, HandledNow(Event("block", h))
    PROVE  BlockLeaves(h)'
<1>1. /\ feed # << >> /\ Head(feed).kind = "block" /\ height = h
      /\ ev # "done" /\ ev' = "done" /\ h \in Nat
      /\ timeoutBlockHeight' = timeoutBlockHeight
  BY FollowFacts DEF HandledNow, Event, height
<1>2. /\ swap.outcome # "NONE" <=> swap.status = "DONE"
      /\ timeoutBlockHeight \in Nat /\ tip[Chain] \in Nat /\ h <= tip[Chain]
      /\ DepositBy + 2 <= timeoutBlockHeight /\ DepositBy \in Nat
      /\ RequiredConfirmations \in Nat
  BY <1>1, FollowFacts, FullFacts, HeadKnown DEF FollowStep, StepInv, InTime
<1>3. swap.status = "DONE" <=> runner = "stopped"
  BY FollowFacts DEF StatusInOrder
<1>4. /\ BlockEffect \/ (IgnoredEffect /\ swap.status = "DONE")
      /\ UNCHANGED <<onchain, tip>>
  <2>1. ~SpendEffect
    BY <1>1, FollowFacts DEF SpendEffect, SpendFollowed, Spends
  <2>2. BlockEffect \/ IgnoredEffect
    BY <1>1, <2>1, StepEffect
    DEF FollowStep, DepositEffect, SightingEffect, ExpiryEffect, PaidEffect,
        QuietEffect, Spends
  <2>3. IgnoredEffect => swap.status = "DONE"
    BY <1>3, FollowFacts DEF IgnoredEffect, StatusInOrder, TypeInv, ProcessTypeOK
  <2> QED BY <2>2, <2>3 DEF BlockEffect, IgnoredEffect, Handling
<1>5. ASSUME NEW t \in ContractTxs, onchain[t] > 0, onchain[t] < h
      PROVE  onchain[t] \in Heights /\ Handled(t, onchain[t]) /\ onchain[t] \in Nat
  <2>1. onchain[t] \in {Absent} \cup Heights
    BY FollowFacts DEF TypeInv, WorldTypeOK
  <2>2. onchain[t] \in Heights /\ onchain[t] \in Nat
    BY <1>5, <2>1, FollowFacts DEF Absent
  <2>3. ~Awaits(Event(t, onchain[t]))
    BY <1>1, <1>5, <2>2, FollowFacts, EarlierHandled
  <2> QED BY <1>5, <2>2, <2>3 DEF Handled, ContractTxs, Deposits, Spends
<1>6. ASSUME NEW t \in Spends, Past(t, h)' PROVE swap'.outcome = OutcomeOf[t]
  <2>1. /\ t \in ContractTxs /\ onchain[t] > 0 /\ h > onchain[t]
        /\ h >= onchain[t] + RequiredConfirmations - 1
    BY <1>4, <1>6 DEF Past, ContractTxs
  <2>2. PICK g : g = onchain[t]
    OBVIOUS
  <2>3. /\ g \in Nat /\ g > 0 /\ swap.unlockTxHeight = g
        /\ swap.status = StatusOf[t] \/ swap.outcome = OutcomeOf[t]
    BY <1>5, <2>1, <2>2, FollowFacts DEF SpendFollowed
  <2>4. /\ OutcomeOf[t] # "NONE" /\ StatusOf[t] # "DONE"
        /\ StatusOf[t] \notin {"CONTRACT_FUNDED", "CONTRACT_FUNDED_UNCONFIRMED"}
        /\ \A u \in Spends : StatusOf[u] = StatusOf[t] => u = t
    BY DEF Spends, OutcomeOf, StatusOf
  <2>5. CASE BlockEffect
    <3>1. swap.status = StatusOf[t]
      BY <1>2, <1>3, <2>3, <2>4, <2>5 DEF BlockEffect
    <3>2. hasEnoughConfirmations(swap.unlockTxHeight, height)
      BY <1>1, <1>2, <2>1, <2>2, <2>3 DEF hasEnoughConfirmations
    <3> QED BY <2>4, <2>5, <3>1, <3>2 DEF BlockEffect, Writes
  <2>6. CASE IgnoredEffect /\ swap.status = "DONE"
    BY <2>3, <2>4, <2>6 DEF IgnoredEffect, Writes
  <2> QED BY <1>4, <2>5, <2>6
<1>7. "exact" \in ContractTxs
  BY DEF ContractTxs, Deposits
<1>8. ASSUME Past("exact", h)'
      PROVE  swap'.status \notin {"CREATED", "CONTRACT_FUNDED_UNCONFIRMED"}
  <2>1. PICK g : g = onchain["exact"]
    OBVIOUS
  <2>2. g > 0 /\ h > g /\ h >= g + RequiredConfirmations - 1
    BY <1>4, <1>8, <2>1 DEF Past
  <2>3. /\ g \in Nat /\ swap.status # "CREATED"
        /\ swap.status = "CONTRACT_FUNDED_UNCONFIRMED" => swap.lockTxHeight = g
    BY <1>5, <1>7, <2>1, <2>2, FollowFacts DEF DepositNoticed
  <2>4. CASE BlockEffect
    <3>1. swap.status = "CONTRACT_FUNDED_UNCONFIRMED" =>
            hasEnoughConfirmations(swap.lockTxHeight, height)
      BY <1>1, <1>2, <2>2, <2>3 DEF hasEnoughConfirmations
    <3> QED BY <2>3, <2>4, <3>1 DEF BlockEffect, Writes
  <2>5. CASE IgnoredEffect /\ swap.status = "DONE"
    BY <2>5 DEF IgnoredEffect, Writes
  <2> QED BY <1>4, <2>4, <2>5
<1>9. ASSUME h >= timeoutBlockHeight
      PROVE  /\ swap'.status \notin {"CONTRACT_FUNDED_UNCONFIRMED", "CONTRACT_FUNDED"}
             /\ swap'.status = "CREATED" => onchain'["exact"] = Absent
  <2>1. timeoutBlockHeight <= height
    BY <1>1, <1>2, <1>9
  <2>2. swap.status = "CREATED" => onchain["exact"] = Absent
    <3>1. onchain["exact"] \in {Absent} \cup Heights
      BY <1>7, FollowFacts DEF TypeInv, WorldTypeOK
    <3>2. CASE onchain["exact"] = Mempool
      BY <1>2, <1>9, <3>2, FollowFacts DEF MinedInTime
    <3>3. CASE onchain["exact"] \in Heights /\ onchain["exact"] # Mempool
      <4>1. PICK g : g = onchain["exact"]
        OBVIOUS
      <4>2. g \in Nat /\ g > 0 /\ g <= DepositBy + 1
        BY <3>3, <4>1, FollowFacts DEF Mempool, MinedInTime
      <4>3. g < h
        BY <1>1, <1>2, <1>9, <4>2
      <4> QED BY <1>5, <1>7, <4>1, <4>2, <4>3, FollowFacts DEF DepositNoticed
    <3> QED BY <3>1, <3>2, <3>3
  <2>3. CASE BlockEffect
    BY <1>4, <2>1, <2>2, <2>3 DEF BlockEffect, Writes, StatusOf, Spends
  <2>4. CASE IgnoredEffect /\ swap.status = "DONE"
    BY <2>4 DEF IgnoredEffect, Writes
  <2> QED BY <1>4, <2>3, <2>4
<1> QED BY <1>1, <1>6, <1>8, <1>9 DEF BlockLeaves

LEMMA StepBlocksFollowed ==
    ASSUME FollowStep
    PROVE  BlocksFollowed'
<1> SUFFICES ASSUME NEW h \in Heights, Handled("block", h)'
             PROVE  BlockLeaves(h)'
  BY DEF BlocksFollowed
<1>1. Handled("block", h) \/ HandledNow(Event("block", h))
  BY FollowFacts, BlockHandled
<1> QED BY <1>1, BlockStaysLeft, BlockComesToLeave

(* FollowInv holds of the first state and is kept by every step.           *)
LEMMA InitFollowInv ==
    ASSUME InTime, Init
    PROVE  FollowInv
<1>1. /\ swap = NewSwap /\ runner = "running" /\ ev = "idle" /\ feed = << >>
      /\ tip[Chain] = 1 /\ \A t \in ContractTxs : onchain[t] = Absent
  BY SwapInAssumption DEF Init
<1>2. /\ timeoutBlockHeight \in Nat /\ timeoutBlockHeight > 1 /\ DepositBy \in Nat
      /\ "exact" \in ContractTxs /\ Spends \subseteq ContractTxs
      /\ Absent = -1 /\ Mempool = 0
  BY SwapInAssumption
  DEF timeoutBlockHeight, InTime, Calm, ContractTxs, Deposits, Spends, Absent, Mempool
<1>3. HeightsInOrder
  <2>1. Len(feed) = 0
    BY <1>1
  <2> QED BY <2>1 DEF HeightsInOrder
<1>4. MinedInTime
  BY <1>1, <1>2 DEF MinedInTime, Spends
<1>5. \A t \in ContractTxs : \A h : ~Handled(t, h) /\ ~Past(t, h)
  BY <1>1, <1>2 DEF Handled, Past, ContractTxs, Deposits, Spends
<1>6. DepositNoticed /\ StatusInOrder /\ SpendFollowed
  BY <1>1, <1>2, <1>5
  DEF DepositNoticed, StatusInOrder, SpendFollowed, NewSwap
<1>7. BlocksFollowed
  <2> SUFFICES ASSUME NEW h \in Heights, Handled("block", h) PROVE BlockLeaves(h)
    BY DEF BlocksFollowed
  <2>1. h \in Nat /\ h <= 1
    BY <1>1, HeightsAreNaturals DEF Handled
  <2> QED BY <1>2, <1>5, <2>1 DEF BlockLeaves
<1> QED BY <1>3, <1>4, <1>6, <1>7 DEF FollowInv

LEMMA StepFollowInv ==
    ASSUME FollowStep
    PROVE  FollowInv'
BY StepHeightsInOrder, StepMinedInTime, StepDepositNoticed, StepStatusInOrder,
   StepSpendFollowed, StepBlocksFollowed
DEF FollowInv

LEMMA FollowSpec ==
    ASSUME InTime
    PROVE  Spec /\ []LimitIsNotZero => [](KnownInv /\ FollowInv)
<1> DEFINE Base ==
             /\ TypeInv /\ ClaimFollowsPayment /\ PaymentFollowsDeposit /\ ViewInv
             /\ CalmInv
<1>1. Spec /\ []LimitIsNotZero => []Base
  BY CalmSpec DEF InTime
<1>2. Init => OutcomeBacked
  BY DEF Init, NewSwap, OutcomeBacked
<1>3. Base /\ OutcomeBacked /\ [Next]_vars => OutcomeBacked'
  <2>1. CalmInv => BothSucceedOrBothFail
    BY DEF CalmInv, SpendsInOrder, BothSucceedOrBothFail, Absent, Mempool
  <2> QED BY <2>1, StepOutcomeBacked DEF InTime, Calm
<1>4. Spec /\ []LimitIsNotZero => []KnownInv
  <2>1. Base /\ OutcomeBacked => KnownInv
    BY DEF KnownInv
  <2> HIDE DEF Base
  <2> QED BY <1>1, <1>2, <1>3, <2>1, PTL DEF Spec
<1>5. Init => FollowInv
  BY InitFollowInv
<1>6. KnownInv /\ FollowInv /\ [Next]_vars /\ KnownInv' => FollowInv'
  <2>1. FollowInv => runner # "waiting"
    BY DEF FollowInv, StatusInOrder
  <2> QED BY <2>1, StepFollowInv DEF FollowStep, StepInv
<1> QED BY <1>4, <1>5, <1>6, PTL DEF Spec

(* On Bitcoin, where nothing fails, nobody is late and the deposit is      *)
(* broadcast two blocks before the timeout, the saved status of an idle    *)
(* swap-in is what the chain says: SwapInRunner handled every event of     *)
(* nbxplorer in an order that lost none of them.                           *)
THEOREM SwapInStatusFollowsChain ==
    ASSUME InTime
    PROVE  Spec /\ []LimitIsNotZero => []StatusFollowsChain
<1>1. KnownInv /\ FollowInv => StatusFollowsChain
  <2> SUFFICES ASSUME KnownInv, FollowInv, Quiescent
               PROVE  /\ ~Buried("claim") /\ ~Buried("refund")
                      /\ onchain["claim"] = Absent /\ onchain["refund"] = Absent =>
                           \A d \in {"exact", "other"} : Buried(d) =>
                             swap.status = IF tip[Chain] >= timeoutBlockHeight
                                             THEN "CONTRACT_EXPIRED"
                                           ELSE IF d = "exact" THEN "CONTRACT_FUNDED"
                                           ELSE "CONTRACT_AMOUNT_MISMATCH"
    BY DEF StatusFollowsChain
  <2>1. /\ swap \in Entities /\ tip[Chain] \in Nat /\ timeoutBlockHeight \in Nat
        /\ RequiredConfirmations \in Nat /\ ChainNumbers
        /\ swap.outcome # "NONE" <=> swap.status = "DONE"
        /\ swap.status \notin {"CONTRACT_AMOUNT_MISMATCH",
                               "CONTRACT_AMOUNT_MISMATCH_UNCONFIRMED"}
    BY FullFacts
  <2>2. /\ TypeInv /\ ViewInv /\ CalmInv /\ OutcomeBacked /\ StatusInOrder
        /\ BlocksFollowed
    BY DEF KnownInv, FollowInv
  <2>3. swap.status # "DONE" /\ swap.outcome = "NONE"
    BY <2>1, <2>2 DEF Quiescent, StatusInOrder
  <2>4. BlockLeaves(tip[Chain])
    <3>1. tip[Chain] \in Heights
      <4>1. tip[Chain] <= MaxHeight[Chain] /\ MaxHeight[Chain] \in Nat
        BY <2>2, SwapInAssumption DEF TypeInv, WorldTypeOK
      <4> QED BY <2>1, <4>1 DEF Heights
    <3>2. \A e : ~Awaits(e)
      <4>1. Len(feed) = 0
        BY DEF Quiescent
      <4> QED BY <4>1 DEF Awaits
    <3> QED BY <2>1, <2>2, <3>1, <3>2 DEF Handled, BlocksFollowed
  <2>5. ASSUME NEW t \in ContractTxs, Buried(t) PROVE Past(t, tip[Chain])
    BY <2>1, <2>5 DEF Buried, Past, ChainNumbers
  <2>6. ASSUME NEW t \in Spends PROVE ~Buried(t)
    BY <2>3, <2>4, <2>5 DEF BlockLeaves, ContractTxs, Spends, OutcomeOf
  <2>7. ~Buried("other")
    BY <2>2 DEF ViewInv, OnlyExactDeposit, Buried, Absent
  <2>8. ASSUME Buried("exact"), onchain["claim"] = Absent, onchain["refund"] = Absent
        PROVE  swap.status = IF tip[Chain] >= timeoutBlockHeight
                               THEN "CONTRACT_EXPIRED" ELSE "CONTRACT_FUNDED"
    <3>1. swap.status \notin {"CREATED", "CONTRACT_FUNDED_UNCONFIRMED"}
      BY <2>4, <2>5, <2>8 DEF BlockLeaves, ContractTxs, Deposits
    <3>2. payment # "settled"
      BY <2>2, <2>8 DEF CalmInv, ClaimIsComing, Quiescent
    <3>3. swap.status \notin {"INVOICE_PAID", "CONTRACT_CLAIMED_UNCONFIRMED"}
      BY <2>2, <3>2 DEF ViewInv, PaymentNoticedOnce, OutcomeBacked
    <3>4. swap.status \in {"CONTRACT_FUNDED", "CONTRACT_EXPIRED"}
      BY <2>1, <2>2, <2>3, <2>8, <3>1, <3>3 DEF Entities, Statuses, StatusInOrder
    <3>5. tip[Chain] >= timeoutBlockHeight => swap.status # "CONTRACT_FUNDED"
      BY <2>4 DEF BlockLeaves
    <3>6. swap.status = "CONTRACT_EXPIRED" => tip[Chain] >= timeoutBlockHeight
      BY <2>2 DEF StatusInOrder
    <3> QED BY <3>4, <3>5, <3>6
  <2> QED BY <2>6, <2>7, <2>8 DEF Spends
<1> QED BY <1>1, FollowSpec, PTL
=============================================================================
