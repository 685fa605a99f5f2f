---------------------------- MODULE DaemonProofs ----------------------------
(***************************************************************************)
(* What the daemon keeps to in every scenario: keys are in the database    *)
(* before money moves, and a swap that counts as monitored has a goroutine.*)
(***************************************************************************)
EXTENDS Daemon, TLAPS

(* What the proofs need of the variables' types.                           *)
Texts ==
    mapStatus \cup { "UNSAVED", "NONE", "FORGOTTEN", "SUCCESS", "REFUNDED",
                     "EXPIRED", "ERROR", "FAILED" }

AnyRow ==
    [ status : Texts, outcome : Texts, copied : BOOLEAN, tx : Int,
      lockTx : BOOLEAN, refundAt : BOOLEAN, auto : BOOLEAN ]

RowOK(row) == row \in AnyRow

ServerOK(answer) ==
    answer \in [status : Texts, outcome : Texts] /\ answer.status # "UNSAVED"

ShapeOK ==
    /\ script \in Scripts
    /\ outRow = [id \in OutIds |-> outRow[id]]
    /\ payment = [id \in OutIds |-> payment[id]]
    /\ outServer = [id \in OutIds |-> outServer[id]]
    /\ outSpend = [id \in OutIds |-> outSpend[id]]
    /\ call = [id \in OutIds |-> call[id]]
    /\ \A id \in OutIds :
         /\ RowOK(outRow[id]) /\ ServerOK(outServer[id])
         /\ payment[id] = [state |-> payment[id].state, amount |-> payment[id].amount]
         /\ call[id] = [pc |-> call[id].pc, amount |-> call[id].amount]
         /\ outSpend[id] = [pool |-> outSpend[id].pool, mined |-> outSpend[id].mined]
    /\ RowOK(inRow) /\ ServerOK(inServer)
    /\ deposit = [sent |-> deposit.sent, again |-> deposit.again,
                  expired |-> deposit.expired]

(* The rows of a poll are rows of the database, each of a swap.            *)
Items == [kind : {"in"}, id : {0}, row : AnyRow] \cup [kind : {"out"}, id : OutIds, row : AnyRow]

Polls ==
    [ pc : {"sleep", "get", "claim", "fees", "refund", "preimage", "save"},
      queue : SUBSET Items, row : AnyRow, next : Texts,
      changed : BOOLEAN ]

PollOK(poll) == poll \in Polls /\ (poll.pc # "sleep" => poll.queue # {})

(* Past its first request, a poll has the status that it will save.        *)
StatusKnown(poll) == poll.pc \notin {"sleep", "get"} => poll.next # "UNSAVED"

Paid(id) == payment[id].state # "none"

Active ==
    { "INVOICE_PAYMENT_INTENT_RECEIVED", "CONTRACT_FUNDED_UNCONFIRMED",
      "CONTRACT_FUNDED", "CONTRACT_EXPIRED", "CONTRACT_CLAIMED_UNCONFIRMED",
      "CONTRACT_REFUNDED_UNCONFIRMED" }

(* The server has a contract, a spend, and the monitor a claim to make,    *)
(* only for a payment.                                                     *)
PaidFirst ==
    /\ \A id \in OutIds :
         /\ outServer[id].status \in Active => Paid(id)
         /\ outSpend[id].pool # None \/ outSpend[id].mined # None => Paid(id)
    /\ Polling("out", "claim") => Paid(Current.id)

(* Who is about to pay, or to learn the address, has the row.              *)
KeysSaved ==
    /\ \A id \in OutIds : Paid(id) \/ call[id].pc = "pay" => outRow[id] # NoRow
    /\ deposit.sent # "none" \/ inCall = "ok" => inRow # NoRow

KeysInv == ShapeOK /\ PollOK(mon) /\ StatusKnown(mon) /\ PaidFirst /\ KeysSaved

-----------------------------------------------------------------------------
(* The poll goes from one of its rows to the next.                         *)
LEMMA FirstIsOne ==
  ASSUME NEW queue, queue # {}, queue \subseteq Items
  PROVE  First(queue) \in queue
<1>1. \E item \in queue : \A other \in queue : other.kind = "in" => item.kind = "in"
  BY DEF Items
<1> QED BY <1>1 DEF First

LEMMA PollContinues ==
  ASSUME NEW queue, queue \subseteq Items
  PROVE  /\ PollOK(Continue(queue)) /\ Continue(queue).pc \in {"sleep", "get"}
<1>1. CASE queue = {}
  BY <1>1 DEF Continue, Asleep, Poll, PollOK, Polls, RowOK, AnyRow, NoRow, None, Texts
<1>2. CASE queue # {}
  <2>1. RowOK(First(queue).row)
    BY <1>2, FirstIsOne DEF Items, RowOK
  <2> QED BY <1>2, <2>1 DEF Continue, Poll, PollOK, Polls, RowOK, Texts
<1> QED BY <1>1, <1>2

LEMMA PollGoesOn ==
  ASSUME PollOK(mon)
  PROVE  PollOK(NextSwap) /\ NextSwap.pc \in {"sleep", "get"}
BY PollContinues DEF NextSwap, PollOK, Polls

LEMMA PollSaves ==
  ASSUME PollOK(mon), NEW poll, PollOK(poll), poll.queue # {}, poll.next # "UNSAVED"
  PROVE  /\ PollOK(SaveOrSkip(poll)) /\ StatusKnown(SaveOrSkip(poll))
         /\ SaveOrSkip(poll).pc \in {"sleep", "get", "save"}
BY PollGoesOn DEF SaveOrSkip, PollOK, Polls, StatusKnown

(* The swap that is polled.                                                *)
LEMMA CurrentIsItem ==
  ASSUME PollOK(mon), mon.pc # "sleep"
  PROVE  Current \in Items
BY FirstIsOne DEF Current, PollOK, Polls

(* A poll that moves on without a claim to make, and may save a swap-in,   *)
(* disturbs nothing else.                                                  *)
LEMMA PollMoves ==
  ASSUME KeysInv, PollOK(mon'), StatusKnown(mon'), mon'.pc # "claim",
         UNCHANGED <<procVars, outVars, inServer, deposit, inCall>>,
         inRow' = inRow \/ (RowOK(inRow') /\ inRow' # NoRow)
  PROVE  KeysInv'
<1>1. ShapeOK'
  BY DEF KeysInv, ShapeOK, procVars, outVars, ServerOK, RowOK
<1>2. PaidFirst' /\ KeysSaved'
  BY DEF KeysInv, PaidFirst, KeysSaved, Paid, outVars, Polling
<1>3. PollOK(mon)' /\ StatusKnown(mon)'
  BY DEF PollOK, Polls, StatusKnown
<1> QED BY <1>1, <1>2, <1>3 DEF KeysInv

-----------------------------------------------------------------------------
(* SwapMonitor on a swap-out.                                              *)
LEMMA AnswerOfOut ==
  ASSUME KeysInv, Polling("out", "get"), NEW answer, ServerOK(answer),
         answer.status = "CONTRACT_FUNDED" => Paid(Current.id)
  PROVE  LET poll == AfterGetSwapOut(answer) IN
         /\ PollOK(poll) /\ StatusKnown(poll)
         /\ poll.pc = "claim" => poll.queue = mon.queue /\ Paid(Current.id)
<1> DEFINE poll == [mon EXCEPT !.row.copied = TRUE, !.next = answer.status,
                     !.changed = answer.status # mon.row.status \/ ~mon.row.copied]
           ended == [mon EXCEPT !.pc = "save", !.next = "DONE", !.row.outcome = "FAILED"]
           other == [poll EXCEPT !.row.outcome = answer.outcome]
<1>1. PollOK(mon) /\ mon.queue # {}
  BY DEF KeysInv, PollOK, Polling
<1>2. /\ PollOK(poll) /\ poll.queue = mon.queue /\ poll.next = answer.status
  <2> DEFINE changed == answer.status # mon.row.status \/ ~mon.row.copied
  <2>1. poll = [mon EXCEPT !.row = [mon.row EXCEPT !.copied = TRUE],
                           !.next = answer.status, !.changed = changed]
    OBVIOUS
  <2>3. changed \in BOOLEAN
    OBVIOUS
  <2> HIDE DEF changed, poll
  <2>2. RowOK([mon.row EXCEPT !.copied = TRUE])
    BY <1>1 DEF PollOK, Polls, RowOK, AnyRow
  <2> QED BY <2>1, <2>2, <2>3, <1>1 DEF PollOK, Polls, RowOK, ServerOK
<1>3. answer.status # "UNSAVED"
  BY DEF ServerOK
<1>4. CASE answer = Forgotten
  <2>1. AfterGetSwapOut(answer) = ended
    BY <1>4 DEF AfterGetSwapOut, Forgotten, NoAnswer
  <2>2. ended.next = "DONE" /\ ended.pc = "save" /\ PollOK(ended)
    BY <1>1 DEF PollOK, Polls, RowOK, AnyRow, Texts, mapStatus
  <2> HIDE DEF ended
  <2> QED BY <2>1, <2>2 DEF StatusKnown
<1>5. CASE answer # Forgotten /\ answer.status = "CONTRACT_FUNDED"
  <2>1. AfterGetSwapOut(answer) = [poll EXCEPT !.pc = "claim"]
    BY <1>5 DEF AfterGetSwapOut
  <2> HIDE DEF poll
  <2>2. PollOK([poll EXCEPT !.pc = "claim"])
    BY <1>1, <1>2 DEF PollOK, Polls
  <2> QED BY <2>1, <2>2, <1>2, <1>3, <1>5 DEF StatusKnown, PollOK, Polls
<1>6. CASE /\ answer # Forgotten /\ answer.status = "DONE"
           /\ answer.outcome = "SUCCESS"
  <2>1. AfterGetSwapOut(answer) = [poll EXCEPT !.pc = "fees", !.row.outcome = "SUCCESS"]
    BY <1>6 DEF AfterGetSwapOut
  <2> HIDE DEF poll
  <2>2. PollOK([poll EXCEPT !.pc = "fees", !.row.outcome = "SUCCESS"])
    BY <1>1, <1>2 DEF PollOK, Polls, RowOK, AnyRow, Texts
  <2> QED BY <2>1, <2>2, <1>2, <1>3 DEF StatusKnown, PollOK, Polls
<1>7. CASE /\ answer # Forgotten /\ answer.status # "CONTRACT_FUNDED"
           /\ ~(answer.status = "DONE" /\ answer.outcome = "SUCCESS")
  <2>1. AfterGetSwapOut(answer) = SaveOrSkip(other)
    BY <1>7 DEF AfterGetSwapOut
  <2> HIDE DEF poll
  <2>2. PollOK(other) /\ other.queue = mon.queue /\ other.next = answer.status
    BY <1>2 DEF PollOK, Polls, RowOK, AnyRow, ServerOK
  <2> HIDE DEF other
  <2> QED BY <2>1, <2>2, <1>1, <1>3, PollSaves
<1> QED BY <1>4, <1>5, <1>6, <1>7

LEMMA MonitorOutKeeps == KeysInv /\ MonitorOut => KeysInv'
<1> SUFFICES ASSUME KeysInv, MonitorOut PROVE KeysInv'
  OBVIOUS
<1>1. PollOK(mon) /\ StatusKnown(mon)
  BY DEF KeysInv
<1>2. mon.pc # "sleep"
  BY DEF MonitorOut, MonitorSwapOut, ClaimSwapOut, GetFeesSwapOut, MonitorOutFails,
         MonitorSavesOut, Polling
<1>3. mon.queue # {} /\ Current \in Items
  BY <1>1, <1>2, CurrentIsItem DEF PollOK, Polls
<1>4. CASE MonitorSwapOut
  <2>1. Current.id \in OutIds
    BY <1>3, <1>4 DEF MonitorSwapOut, Polling, Items
  <2>2. /\ ServerOK(outServer[Current.id])
        /\ outServer[Current.id].status = "CONTRACT_FUNDED" => Paid(Current.id)
    BY <2>1 DEF KeysInv, ShapeOK, PaidFirst, Active
  <2>3. /\ PollOK(mon') /\ StatusKnown(mon')
        /\ mon'.pc = "claim" => mon'.queue = mon.queue /\ Paid(Current.id)
    BY <1>4, <2>2, AnswerOfOut DEF MonitorSwapOut, GetSwapOut, Out
  <2>4. ShapeOK' /\ KeysSaved'
    BY <1>4 DEF MonitorSwapOut, KeysInv, ShapeOK, KeysSaved, Paid, procVars, outVars, inVars,
                ServerOK, RowOK, AnyRow, NoRow
  <2>5. PaidFirst'
    BY <1>4, <2>3 DEF MonitorSwapOut, KeysInv, PaidFirst, Paid, outVars, Polling, Current
  <2>6. PollOK(mon)' /\ StatusKnown(mon)'
    BY <2>3 DEF PollOK, Polls, StatusKnown
  <2> QED BY <2>4, <2>5, <2>6 DEF KeysInv
<1>5. CASE ClaimSwapOut
  <2>1. PICK rate \in GetRecommendedFees :
          /\ outSpend' = [outSpend EXCEPT ![Out] = Broadcast(@, rate)]
          /\ mon' = SaveOrSkip([mon EXCEPT !.row.tx = rate])
    BY <1>5 DEF ClaimSwapOut
  <2>2. /\ mon.pc = "claim" /\ mon.next # "UNSAVED"
        /\ Out \in OutIds /\ Paid(Out)
    BY <1>1, <1>3, <1>5 DEF ClaimSwapOut, Polling, KeysInv, PaidFirst, StatusKnown,
                            Out, Items
  <2>3. PollOK([mon EXCEPT !.row.tx = rate])
    <3>1. rate \in Int
      BY DaemonAssumption DEF KeysInv, ShapeOK, GetRecommendedFees, ScriptKinds
    <3> QED BY <1>1, <3>1 DEF PollOK, Polls, RowOK, AnyRow
  <2>4. /\ PollOK(mon') /\ StatusKnown(mon') /\ mon'.pc # "claim"
    <3>1. /\ [mon EXCEPT !.row.tx = rate].queue = mon.queue
          /\ [mon EXCEPT !.row.tx = rate].next = mon.next
      BY <1>1 DEF PollOK, Polls
    <3> QED BY <2>1, <2>2, <2>3, <3>1, <1>1, <1>3, PollSaves
  <2>5. \A id \in OutIds :
          /\ outSpend'[id] = [pool |-> outSpend'[id].pool, mined |-> outSpend'[id].mined]
          /\ id # Out => outSpend'[id] = outSpend[id]
    BY <2>1 DEF KeysInv, ShapeOK, Broadcast
  <2>6. ShapeOK'
    BY <1>5, <2>1, <2>5 DEF ClaimSwapOut, KeysInv, ShapeOK, ServerOK, RowOK, AnyRow, procVars, inVars
  <2>7. PaidFirst'
    BY <1>5, <2>2, <2>4, <2>5 DEF ClaimSwapOut, KeysInv, PaidFirst, Paid, Polling
  <2>8. KeysSaved'
    BY <1>5 DEF ClaimSwapOut, KeysInv, KeysSaved, Paid, inVars, NoRow
  <2>9. PollOK(mon)' /\ StatusKnown(mon)'
    BY <2>4 DEF PollOK, Polls, StatusKnown
  <2> QED BY <2>6, <2>7, <2>8, <2>9 DEF KeysInv
<1>6. CASE GetFeesSwapOut \/ MonitorOutFails
  <2>1. /\ mon' = NextSwap \/ (mon' = SaveOrSkip(mon) /\ mon.pc = "fees")
        /\ UNCHANGED <<procVars, outVars, inVars>>
    BY <1>6 DEF GetFeesSwapOut, MonitorOutFails, Polling
  <2>2. PollOK(mon') /\ StatusKnown(mon') /\ mon'.pc # "claim"
    BY <2>1, <1>1, <1>3, PollSaves, PollGoesOn DEF StatusKnown
  <2> QED BY <2>1, <2>2, PollMoves DEF inVars
<1>7. CASE MonitorSavesOut
  <2>1. /\ Out \in OutIds /\ mon.next # "UNSAVED"
        /\ outRow' = [outRow EXCEPT ![Out] = [mon.row EXCEPT !.status = mon.next]]
        /\ mon' = NextSwap
    BY <1>1, <1>3, <1>7 DEF MonitorSavesOut, Polling, StatusKnown, Out, Items
  <2>2. PollOK(mon') /\ StatusKnown(mon') /\ mon'.pc # "claim"
    BY <2>1, <1>1, PollGoesOn DEF StatusKnown
  <2>3. LET saved == [mon.row EXCEPT !.status = mon.next]
        IN  RowOK(saved) /\ saved # NoRow
    BY <2>1, <1>1 DEF PollOK, Polls, RowOK, AnyRow, NoRow
  <2>4. \A id \in OutIds :
          /\ RowOK(outRow'[id])
          /\ id # Out => outRow'[id] = outRow[id]
          /\ id = Out => outRow'[id] # NoRow
    BY <2>1, <2>3 DEF KeysInv, ShapeOK
  <2>5. ShapeOK'
    BY <1>7, <2>1, <2>4 DEF MonitorSavesOut, KeysInv, ShapeOK, ServerOK, RowOK, AnyRow, procVars, inVars
  <2>6. PaidFirst' /\ KeysSaved'
    BY <1>7, <2>2, <2>4 DEF MonitorSavesOut, KeysInv, PaidFirst, Paid, Polling,
                            KeysSaved, inVars, NoRow
  <2>7. PollOK(mon)' /\ StatusKnown(mon)'
    BY <2>2 DEF PollOK, Polls, StatusKnown
  <2> QED BY <2>5, <2>6, <2>7 DEF KeysInv
<1> QED BY <1>4, <1>5, <1>6, <1>7 DEF MonitorOut

(* SwapMonitor on a swap-in.                                               *)
LEMMA AnswerOfIn ==
  ASSUME PollOK(mon), mon.pc = "get", NEW answer, ServerOK(answer)
  PROVE  LET poll == AfterGetSwapIn(answer) IN
         PollOK(poll) /\ StatusKnown(poll) /\ poll.pc # "claim"
<1> DEFINE poll == [mon EXCEPT !.next = answer.status,
                     !.changed = answer.status # mon.row.status]
<1>1. mon.queue # {} /\ answer.status # "UNSAVED"
  BY DEF PollOK, ServerOK
<1>2. /\ PollOK(poll) /\ poll.queue = mon.queue /\ poll.next = answer.status
      /\ poll.row = mon.row /\ poll.pc = "get"
  BY DEF PollOK, Polls, ServerOK
<1>3. CASE answer = Forgotten
  <2> DEFINE ended == [mon EXCEPT !.pc = "save", !.next = "DONE", !.row.outcome = "FAILED"]
  <2>1. AfterGetSwapIn(answer) = ended
    BY <1>3 DEF AfterGetSwapIn, Forgotten, NoAnswer
  <2>2. ended.next = "DONE" /\ ended.pc = "save" /\ PollOK(ended)
    BY <1>1 DEF PollOK, Polls, AnyRow, Texts, mapStatus
  <2> HIDE DEF ended
  <2> QED BY <2>1, <2>2 DEF StatusKnown
<1>4. CASE answer # Forgotten
  <2>1. \/ AfterGetSwapIn(answer) = SaveOrSkip([poll EXCEPT !.row.lockTx = TRUE])
        \/ AfterGetSwapIn(answer) =
             [poll EXCEPT !.pc = "preimage", !.row.outcome = "SUCCESS"]
        \/ AfterGetSwapIn(answer) = [poll EXCEPT !.pc = "refund", !.row.refundAt = TRUE]
        \/ AfterGetSwapIn(answer) = SaveOrSkip([poll EXCEPT !.row.outcome = answer.outcome])
        \/ AfterGetSwapIn(answer) = SaveOrSkip(poll)
    BY <1>4 DEF AfterGetSwapIn
  <2> HIDE DEF poll
  <2>2. LET p == [poll EXCEPT !.row.lockTx = TRUE]
        IN  PollOK(p) /\ p.queue = poll.queue /\ p.next = poll.next
    BY <1>2 DEF PollOK, Polls, AnyRow
  <2>3. LET p == [poll EXCEPT !.row.outcome = answer.outcome]
        IN  PollOK(p) /\ p.queue = poll.queue /\ p.next = poll.next
    BY <1>2 DEF PollOK, Polls, AnyRow, ServerOK
  <2>4. LET p == [poll EXCEPT !.pc = "preimage", !.row.outcome = "SUCCESS"]
        IN  PollOK(p) /\ p.pc = "preimage" /\ p.next = poll.next
    BY <1>1, <1>2 DEF PollOK, Polls, AnyRow, Texts
  <2>5. LET p == [poll EXCEPT !.pc = "refund", !.row.refundAt = TRUE]
        IN  PollOK(p) /\ p.pc = "refund" /\ p.next = poll.next
    BY <1>1, <1>2 DEF PollOK, Polls, AnyRow
  <2>6. CASE AfterGetSwapIn(answer) = SaveOrSkip([poll EXCEPT !.row.lockTx = TRUE])
    BY <2>6, <2>2, <1>1, <1>2, PollSaves
  <2>7. CASE AfterGetSwapIn(answer) = SaveOrSkip([poll EXCEPT !.row.outcome = answer.outcome])
    BY <2>7, <2>3, <1>1, <1>2, PollSaves
  <2>8. CASE AfterGetSwapIn(answer) = SaveOrSkip(poll)
    BY <2>8, <1>1, <1>2, PollSaves
  <2>9. CASE AfterGetSwapIn(answer) =
               [poll EXCEPT !.pc = "preimage", !.row.outcome = "SUCCESS"]
    <3> DEFINE p == [poll EXCEPT !.pc = "preimage", !.row.outcome = "SUCCESS"]
    <3>1. AfterGetSwapIn(answer) = p /\ PollOK(p) /\ p.pc = "preimage"
          /\ p.next = answer.status
      BY <2>9, <2>4, <1>2
    <3> HIDE DEF p
    <3> QED BY <3>1, <1>1 DEF StatusKnown
  <2>10. CASE AfterGetSwapIn(answer) =
                [poll EXCEPT !.pc = "refund", !.row.refundAt = TRUE]
    <3> DEFINE p == [poll EXCEPT !.pc = "refund", !.row.refundAt = TRUE]
    <3>1. AfterGetSwapIn(answer) = p /\ PollOK(p) /\ p.pc = "refund"
          /\ p.next = answer.status
      BY <2>10, <2>5, <1>2
    <3> HIDE DEF p
    <3> QED BY <3>1, <1>1 DEF StatusKnown
  <2> QED BY <2>1, <2>6, <2>7, <2>8, <2>9, <2>10
<1> QED BY <1>3, <1>4

LEMMA MonitorInKeeps == KeysInv /\ MonitorIn => KeysInv'
<1> SUFFICES ASSUME KeysInv, MonitorIn PROVE KeysInv'
  OBVIOUS
<1>1. PollOK(mon) /\ StatusKnown(mon) /\ ServerOK(inServer)
  BY DEF KeysInv, ShapeOK
<1>2. mon.queue # {}
  BY <1>1 DEF MonitorIn, MonitorSwapIn, FetchLockTx, InitiateRefund, getPreimage,
              MonitorInFails, MonitorSavesIn, Polling, PollOK
<1>3. CASE MonitorSwapIn
  <2>1. mon.pc = "get" /\ mon' = AfterGetSwapIn(inServer)
        /\ UNCHANGED <<procVars, outVars, inVars>>
    BY <1>3 DEF MonitorSwapIn, Polling, GetSwapIn, InSame
  <2>2. PollOK(mon') /\ StatusKnown(mon') /\ mon'.pc # "claim"
    BY <2>1, <1>1, AnswerOfIn
  <2> QED BY <2>1, <2>2, PollMoves DEF inVars
<1>4. CASE FetchLockTx
  <2>1. /\ mon.pc = "refund"
        /\ inRow' = [mon.row EXCEPT !.lockTx = TRUE]
        /\ mon' = [mon EXCEPT !.row.lockTx = TRUE]
        /\ UNCHANGED <<procVars, outVars, inServer, deposit, inCall>>
    BY <1>4 DEF FetchLockTx, Polling, InSame
  <2>2. RowOK(inRow') /\ inRow' # NoRow
    BY <2>1, <1>1 DEF PollOK, Polls, RowOK, AnyRow, NoRow
  <2>3. PollOK(mon') /\ StatusKnown(mon') /\ mon'.pc # "claim"
    BY <2>1, <1>1 DEF PollOK, Polls, AnyRow, StatusKnown
  <2> QED BY <2>1, <2>2, <2>3, PollMoves
<1>5. CASE InitiateRefund
  <2>1. PICK rate \in GetRecommendedFees :
          /\ mon.pc = "refund"
          /\ mon' = SaveOrSkip([mon EXCEPT !.row.tx = rate])
          /\ UNCHANGED <<procVars, outVars, inRow, inServer, deposit, inCall>>
    BY <1>5 DEF InitiateRefund, Polling, InSame
  <2>2. rate \in Int
    BY DaemonAssumption DEF KeysInv, ShapeOK, GetRecommendedFees, ScriptKinds
  <2>3. LET p == [mon EXCEPT !.row.tx = rate]
        IN  PollOK(p) /\ p.queue = mon.queue /\ p.next = mon.next
    BY <2>2, <1>1 DEF PollOK, Polls, AnyRow
  <2>4. mon.next # "UNSAVED"
    BY <2>1, <1>1 DEF StatusKnown
  <2>5. PollOK(mon') /\ StatusKnown(mon') /\ mon'.pc # "claim"
    BY <2>1, <2>3, <2>4, <1>1, <1>2, PollSaves
  <2> QED BY <2>1, <2>5, PollMoves
<1>6. CASE getPreimage \/ MonitorInFails
  <2>1. /\ mon' = NextSwap \/ (mon' = SaveOrSkip(mon) /\ mon.pc = "preimage")
        /\ UNCHANGED <<procVars, outVars, inVars>>
    BY <1>6 DEF getPreimage, MonitorInFails, Polling, InSame
  <2>2. PollOK(mon') /\ StatusKnown(mon') /\ mon'.pc # "claim"
    BY <2>1, <1>1, <1>2, PollSaves, PollGoesOn DEF StatusKnown
  <2> QED BY <2>1, <2>2, PollMoves DEF inVars
<1>7. CASE MonitorSavesIn
  <2>1. /\ mon.next # "UNSAVED"
        /\ inRow' = [mon.row EXCEPT !.status = mon.next]
        /\ mon' = NextSwap
        /\ UNCHANGED <<procVars, outVars, inServer, deposit, inCall>>
    BY <1>1, <1>7 DEF MonitorSavesIn, Polling, StatusKnown, InSame
  <2>2. RowOK(inRow') /\ inRow' # NoRow
    BY <2>1, <1>1 DEF PollOK, Polls, RowOK, AnyRow, NoRow
  <2>3. PollOK(mon') /\ StatusKnown(mon') /\ mon'.pc # "claim"
    BY <2>1, <1>1, PollGoesOn DEF StatusKnown
  <2> QED BY <2>1, <2>2, <2>3, PollMoves
<1> QED BY <1>3, <1>4, <1>5, <1>6, <1>7 DEF MonitorIn

-----------------------------------------------------------------------------
(* The gRPC calls and the auto-swap loop leave the monitor alone.          *)
LEMMA MonitorUntouched ==
  ASSUME KeysInv, UNCHANGED <<procVars, mon, outSpend>>, ShapeOK', KeysSaved',
         \A id \in OutIds :
           /\ Paid(id) => Paid(id)'
           /\ outServer'[id].status \in Active => outServer[id].status \in Active \/ Paid(id)'
  PROVE  KeysInv'
<1>1. PollOK(mon)' /\ StatusKnown(mon)'
  BY DEF KeysInv, PollOK, Polls, StatusKnown
<1>2. Polling("out", "claim") => Current.id \in OutIds
  BY CurrentIsItem DEF KeysInv, Polling, Items
<1>3. PaidFirst'
  BY <1>2 DEF KeysInv, PaidFirst, Polling, Current, Paid
<1> QED BY <1>1, <1>3 DEF KeysInv

LEMMA SwapOutCallKeeps ==
  ASSUME KeysInv, NEW id \in OutIds, SwapOutCall(id)
  PROVE  KeysInv'
<1>1. /\ ServerOK(Created) /\ Created.status \notin Active
      /\ RowOK(NewRow) /\ NewRow # NoRow
  <2>1. Created = [status |-> "CREATED", outcome |-> "NONE"]
    BY DEF Created, NoAnswer
  <2>2. NoRow \in AnyRow /\ NoRow.status = "UNSAVED"
    BY DEF NoRow, None, AnyRow, Texts
  <2>3. NewRow \in AnyRow /\ NewRow.status = "CREATED"
    BY <2>2 DEF NewRow, AnyRow, Texts, mapStatus
  <2>4. ServerOK(Created) /\ Created.status \notin Active
    BY <2>1 DEF ServerOK, Texts, mapStatus, Active
  <2>5. RowOK(NewRow)
    BY <2>3 DEF RowOK
  <2> QED BY <2>2, <2>3, <2>4, <2>5
<1> USE DEF KeysInv
<1>2. UNCHANGED <<procVars, mon, outSpend>> /\ UNCHANGED inVars
  BY DEF SwapOutCall, CreateSwapOut, SaveSwapOut, PayInvoice
<1>3. CASE CreateSwapOut(id)
  <2>1. /\ call' = [call EXCEPT ![id].pc = "save"] \/ call' = [call EXCEPT ![id].pc = "err"]
        /\ outServer' = outServer \/ outServer' = [outServer EXCEPT ![id] = Created]
        /\ UNCHANGED <<outRow, payment>>
    BY <1>3 DEF CreateSwapOut, SetCall
  <2>2. ShapeOK'
    BY <1>1, <1>2, <2>1 DEF ShapeOK, procVars, inVars, RowOK, ServerOK
  <2>3. KeysSaved'
    BY <1>2, <2>1 DEF ShapeOK, KeysSaved, Paid, inVars
  <2> QED BY <1>1, <1>2, <2>1, <2>2, <2>3, MonitorUntouched DEF ShapeOK, Paid
<1>4. CASE SaveSwapOut(id)
  <2>1. /\ \/ /\ call' = [call EXCEPT ![id].pc = "pay"]
              /\ outRow' = [outRow EXCEPT ![id] = NewRow]
           \/ call' = [call EXCEPT ![id].pc = "err"] /\ outRow' = outRow
        /\ UNCHANGED <<outServer, payment>>
    BY <1>4 DEF SaveSwapOut, SetCall
  <2>2. ShapeOK'
    BY <1>1, <1>2, <2>1 DEF ShapeOK, procVars, inVars, RowOK, ServerOK
  <2>3. KeysSaved'
    BY <1>1, <1>2, <2>1 DEF ShapeOK, KeysSaved, Paid, inVars
  <2> QED BY <1>2, <2>1, <2>2, <2>3, MonitorUntouched DEF Paid
<1>5. CASE PayInvoice(id)
  <2>1. /\ call[id].pc = "pay"
        /\ call' = [call EXCEPT ![id].pc = "ok"] \/ call' = [call EXCEPT ![id].pc = "err"]
        /\ \/ payment' = payment
           \/ \E state \in {"inflight", "failed"} : \E cost :
                payment' = [payment EXCEPT ![id] = [state |-> state, amount |-> cost]]
        /\ UNCHANGED <<outServer, outRow>>
    <3>1. ASSUME SendPaymentV2(id)
          PROVE  \E state \in {"inflight", "failed"} : \E cost :
                   payment' = [payment EXCEPT ![id] = [state |-> state, amount |-> cost]]
      BY <3>1 DEF SendPaymentV2
    <3> QED BY <1>5, <3>1 DEF PayInvoice, SetCall
  <2>2. ShapeOK'
    <3>1. /\ payment' = [i \in OutIds |-> payment'[i]]
          /\ \A i \in OutIds : payment'[i] = [state |-> payment'[i].state,
                                              amount |-> payment'[i].amount]
      <4> DEFINE new(state, cost) == [state |-> state, amount |-> cost]
      <4>1. \A state, cost : new(state, cost) = [state |-> new(state, cost).state,
                                                 amount |-> new(state, cost).amount]
        OBVIOUS
      <4>2. \/ payment' = payment
            \/ \E state, cost : payment' = [payment EXCEPT ![id] = new(state, cost)]
        BY <2>1
      <4> HIDE DEF new
      <4>3. ASSUME NEW state, NEW cost, payment' = [payment EXCEPT ![id] = new(state, cost)],
                   NEW i \in OutIds
            PROVE  payment'[i] = [state |-> payment'[i].state, amount |-> payment'[i].amount]
        BY <4>1, <4>3 DEF ShapeOK
      <4> QED BY <4>2, <4>3 DEF ShapeOK
    <3>2. /\ call' = [i \in OutIds |-> call'[i]]
          /\ \A i \in OutIds : call'[i] = [pc |-> call'[i].pc, amount |-> call'[i].amount]
      BY <2>1 DEF ShapeOK
    <3> QED BY <1>2, <2>1, <3>1, <3>2 DEF ShapeOK, procVars, inVars, RowOK, ServerOK
  <2>3. KeysSaved'
    BY <1>2, <2>1 DEF ShapeOK, KeysSaved, Paid, inVars
  <2>4. ASSUME NEW i \in OutIds, Paid(i)
        PROVE  Paid(i)'
    <3>1. payment'[i] = payment[i] \/ payment'[i].state \in {"inflight", "failed"}
      BY <2>1 DEF ShapeOK
    <3> QED BY <2>4, <3>1 DEF Paid
  <2> QED BY <1>2, <2>1, <2>2, <2>3, <2>4, MonitorUntouched
<1> QED BY <1>3, <1>4, <1>5 DEF SwapOutCall

(* A user's calls, and a deposit.                                          *)
LEMMA UserKeeps ==
  ASSUME KeysInv,
         \/ UserSwapsOut \/ UserSwapsIn \/ CreateSwapIn \/ SaveSwapIn \/ UserDeposits
         \/ UserDepositsAgain \/ RecoverReusedSwapAddress
  PROVE  KeysInv'
<1> USE DEF KeysInv
<1>1. /\ ServerOK(Created) /\ RowOK(NewRow) /\ NewRow # NoRow
  <2>1. ServerOK(Created)
    BY DEF Created, NoAnswer, ServerOK, Texts, mapStatus
  <2>2. NoRow \in AnyRow /\ NoRow.status = "UNSAVED"
    BY DEF NoRow, None, AnyRow, Texts
  <2>3. NewRow \in AnyRow /\ NewRow.status = "CREATED"
    BY <2>2 DEF NewRow, AnyRow, Texts, mapStatus
  <2> QED BY <2>1, <2>2, <2>3 DEF RowOK
<1>2. CASE UserSwapsOut
  <2>1. /\ call' = [call EXCEPT ![1] = [pc |-> "create", amount |-> 1]]
        /\ UNCHANGED <<procVars, mon, outRow, outServer, payment, outSpend, inVars>>
    BY <1>2 DEF UserSwapsOut
  <2>2. /\ call' = [i \in OutIds |-> call'[i]]
        /\ \A i \in OutIds : /\ call'[i] = [pc |-> call'[i].pc, amount |-> call'[i].amount]
                             /\ call'[i].pc = "pay" => call[i].pc = "pay"
    BY <2>1 DEF ShapeOK
  <2>3. ShapeOK' /\ KeysSaved'
    BY <2>1, <2>2 DEF ShapeOK, KeysSaved, Paid, procVars, inVars, RowOK, ServerOK
  <2> QED BY <2>1, <2>3, MonitorUntouched DEF Paid
<1>3. CASE ~UserSwapsOut
  <2>1. /\ UNCHANGED <<procVars, mon, outVars>>
        /\ inRow' = inRow \/ inRow' = NewRow
        /\ inServer' = inServer \/ inServer' = Created
    BY <1>3 DEF UserSwapsIn, CreateSwapIn, SaveSwapIn, UserDeposits, UserDepositsAgain,
                RecoverReusedSwapAddress, InSame, inVars
  <2>2. /\ deposit' = [sent |-> deposit'.sent, again |-> deposit'.again,
                       expired |-> deposit'.expired]
        /\ deposit'.sent # "none" => deposit.sent # "none" \/ inCall = "ok"
    BY <1>3 DEF UserSwapsIn, CreateSwapIn, SaveSwapIn, UserDeposits, UserDepositsAgain,
                RecoverReusedSwapAddress, ShapeOK
  <2>3. inCall' = "ok" => inCall = "ok" \/ inRow' = NewRow
    BY <1>3 DEF UserSwapsIn, CreateSwapIn, SaveSwapIn, UserDeposits, UserDepositsAgain,
                RecoverReusedSwapAddress, inVars
  <2>4. ShapeOK' /\ KeysSaved'
    BY <1>1, <2>1, <2>2, <2>3 DEF ShapeOK, KeysSaved, Paid, procVars, outVars, RowOK, ServerOK
  <2> QED BY <2>1, <2>4, MonitorUntouched DEF Paid, outVars
<1> QED BY <1>2, <1>3

(* The server and the chain of a swap-out.                                 *)
LEMMA OutMovesAreTexts ==
  ASSUME ShapeOK, NEW id \in OutIds, NEW view, view.status \in Texts,
         view.outcome \in Texts, view.status # "UNSAVED", ServerMoves(id, view)
  PROVE  /\ outServer' = [i \in OutIds |-> outServer'[i]]
         /\ \A i \in OutIds : /\ ServerOK(outServer'[i])
                              /\ i # id => outServer'[i] = outServer[i]
         /\ outServer'[id].status = view.status
BY DEF ShapeOK, ServerMoves, ServerOK

LEMMA OutEnvironmentKeeps ==
  ASSUME KeysInv, NEW id \in OutIds, OutEnvironment(id)
  PROVE  KeysInv'
<1> USE DEF KeysInv
<1>1. OutSame
  BY DEF OutEnvironment, ServerSeesPayment, ServerFunds, ServerCancels, ServerExpires,
         ServerRefunds, ServerSeesSpend, ServerFinishes, ServerForgetsOut,
         PaymentAdvances, OutSpendIsMined
<1> DEFINE Moved == /\ outServer' = [i \in OutIds |-> outServer'[i]]
                    /\ \A i \in OutIds : /\ ServerOK(outServer'[i])
                                         /\ i # id => outServer'[i] = outServer[i]
           Payments == /\ payment' = [i \in OutIds |-> payment'[i]]
                       /\ \A i \in OutIds :
                            /\ payment'[i] = [state |-> payment'[i].state,
                                              amount |-> payment'[i].amount]
                            /\ Paid(i)' <=> Paid(i)
           SpendsOK == /\ outSpend' = [i \in OutIds |-> outSpend'[i]]
                       /\ \A i \in OutIds :
                            /\ outSpend'[i] = [pool |-> outSpend'[i].pool,
                                               mined |-> outSpend'[i].mined]
                            /\ outSpend'[i].pool # None \/ outSpend'[i].mined # None
                                 => Paid(i)
<1>2. ASSUME Moved, Payments, SpendsOK, outServer'[id].status \in Active => Paid(id)
      PROVE  KeysInv'
  <2>1. ShapeOK' /\ KeysSaved'
    BY <1>1, <1>2 DEF OutSame, ShapeOK, KeysSaved, procVars, inVars, RowOK, ServerOK
  <2>2. PollOK(mon)' /\ StatusKnown(mon)'
    BY <1>1 DEF OutSame, PollOK, Polls, StatusKnown
  <2>3. Polling("out", "claim") => Current.id \in OutIds
    BY CurrentIsItem DEF Polling, Items
  <2>4. PaidFirst'
    BY <1>1, <1>2, <2>3 DEF OutSame, PaidFirst, Polling, Current
  <2> QED BY <2>1, <2>2, <2>4
<1>3. outServer' = outServer => Moved /\ (outServer'[id].status \in Active => Paid(id))
  BY DEF ShapeOK, PaidFirst
<1>4. payment' = payment => Payments
  BY DEF ShapeOK, Paid
<1>5. outSpend' = outSpend => SpendsOK
  BY DEF ShapeOK, PaidFirst
<1>6. ASSUME NEW status \in Texts \ {"UNSAVED"}, ServerMoves(id, At(status))
      PROVE  Moved /\ outServer'[id].status = status
  BY <1>6, OutMovesAreTexts DEF At, Texts
<1>7. ASSUME NEW outcome \in Texts, ServerMoves(id, Ended(outcome))
      PROVE  Moved /\ outServer'[id].status = "DONE"
  BY <1>7, OutMovesAreTexts DEF Ended, Texts, mapStatus
<1>8. CASE ServerSeesPayment(id)
  <2>1. Moved
    BY <1>6, <1>8 DEF ServerSeesPayment, Texts, mapStatus
  <2>2. Paid(id)
    BY <1>8 DEF ServerSeesPayment, Paid
  <2> QED BY <1>2, <1>4, <1>5, <1>8, <2>1, <2>2 DEF ServerSeesPayment
<1>9. CASE ServerFunds(id)
  <2>1. Moved
    BY <1>6, <1>9 DEF ServerFunds, Texts, mapStatus
  <2>2. Paid(id)
    BY <1>9 DEF ServerFunds, PaidFirst, OutIs, Active
  <2> QED BY <1>2, <1>4, <1>5, <1>9, <2>1, <2>2 DEF ServerFunds
<1>10. CASE ServerCancels(id)
  <2>1. Moved /\ outServer'[id].status = "DONE"
    BY <1>7, <1>10 DEF ServerCancels, Texts
  <2>2. payment' = [payment EXCEPT ![id].state = IF @ = "none" THEN "none" ELSE "failed"]
    BY <1>10 DEF ServerCancels
  <2>3. Payments
    BY <2>2 DEF ShapeOK, Paid
  <2>4. outServer'[id].status \notin Active
    BY <2>1 DEF Active
  <2> QED BY <1>2, <1>5, <1>10, <2>1, <2>3, <2>4 DEF ServerCancels
<1>11. CASE ServerExpires(id)
  <2>1. Moved
    BY <1>6, <1>11 DEF ServerExpires, Texts, mapStatus
  <2>2. Paid(id)
    BY <1>11 DEF ServerExpires, PaidFirst, OutIs, Active
  <2> QED BY <1>2, <1>4, <1>5, <1>11, <2>1, <2>2 DEF ServerExpires
<1>12. CASE ServerRefunds(id)
  <2>1. Paid(id)
    BY <1>12 DEF ServerRefunds, PaidFirst, OutIs, Active
  <2>2. outSpend' = [outSpend EXCEPT ![id].pool = Theirs]
    BY <1>12 DEF ServerRefunds
  <2>3. SpendsOK
    BY <2>1, <2>2 DEF ShapeOK, PaidFirst
  <2> QED BY <1>2, <1>3, <1>4, <1>12, <2>3 DEF ServerRefunds
<1>13. CASE ServerSeesSpend(id)
  <2>1. PICK tx \in {outSpend[id].pool, outSpend[id].mined} \ {None} :
          ServerMoves(id, At(IF tx = Theirs THEN "CONTRACT_REFUNDED_UNCONFIRMED"
                                           ELSE "CONTRACT_CLAIMED_UNCONFIRMED"))
    BY <1>13 DEF ServerSeesSpend
  <2>2. Moved
    BY <1>6, <2>1 DEF Texts, mapStatus
  <2>3. Paid(id)
    BY <2>1 DEF PaidFirst
  <2> QED BY <1>2, <1>4, <1>5, <1>13, <2>2, <2>3 DEF ServerSeesSpend
<1>14. CASE ServerFinishes(id)
  <2>1. Moved
    BY <1>7, <1>14 DEF ServerFinishes, Texts
  <2>2. Paid(id)
    BY <1>14 DEF ServerFinishes, PaidFirst, OutIs, Active
  <2>3. \/ payment' = [payment EXCEPT ![id].state = "succeeded"]
        \/ payment' = [payment EXCEPT ![id].state = "failed"]
    BY <1>14 DEF ServerFinishes
  <2>4. Payments
    BY <2>2, <2>3 DEF ShapeOK, Paid
  <2> QED BY <1>2, <1>5, <1>14, <2>1, <2>2, <2>4 DEF ServerFinishes
<1>15. CASE ServerForgetsOut(id)
  <2>1. outServer' = [outServer EXCEPT ![id] = Forgotten]
    BY <1>15 DEF ServerForgetsOut
  <2>2. Forgotten.status \notin Active /\ ServerOK(Forgotten)
    BY DEF Forgotten, NoAnswer, Active, ServerOK, Texts
  <2>3. Moved /\ outServer'[id].status \notin Active
    BY <2>1, <2>2 DEF ShapeOK
  <2> QED BY <1>2, <1>4, <1>5, <1>15, <2>3 DEF ServerForgetsOut
<1>16. CASE PaymentAdvances(id)
  <2>1. /\ payment[id].state = "inflight"
        /\ \/ payment' = [payment EXCEPT ![id].state = "held"]
           \/ payment' = [payment EXCEPT ![id].state = "failed"]
    BY <1>16 DEF PaymentAdvances
  <2>2. Payments
    BY <2>1 DEF ShapeOK, Paid
  <2> QED BY <1>2, <1>3, <1>5, <1>16, <2>2 DEF PaymentAdvances
<1>17. CASE OutSpendIsMined(id)
  <2>1. /\ outSpend[id].pool # None
        /\ outSpend' = [outSpend EXCEPT ![id] = [pool |-> None, mined |-> outSpend[id].pool]]
    BY <1>17 DEF OutSpendIsMined, Mined
  <2>2. SpendsOK
    BY <2>1 DEF ShapeOK, PaidFirst
  <2> QED BY <1>2, <1>3, <1>4, <1>17, <2>2 DEF OutSpendIsMined
<1> QED BY <1>8, <1>9, <1>10, <1>11, <1>12, <1>13, <1>14, <1>15, <1>16, <1>17
        DEF OutEnvironment

(* The server and the chain of a swap-in.                                  *)
LEMMA InMovesAreTexts ==
  ASSUME ShapeOK, NEW view, view.status \in Texts, view.outcome \in Texts,
         view.status # "UNSAVED", ServerInMoves(view)
  PROVE  ServerOK(inServer')
BY DEF ShapeOK, ServerInMoves, ServerOK

LEMMA InEnvironmentKeeps == KeysInv /\ InEnvironment => KeysInv'
<1> SUFFICES ASSUME KeysInv, InEnvironment PROVE KeysInv'
  OBVIOUS
<1> USE DEF KeysInv
<1>1. InServerSame
  BY DEF InEnvironment, ServerSeesDeposit, ServerConfirmsDeposit, TimeoutPasses,
         ServerSeesTimeout, ServerExpiresByAge, InvoiceIsSettled, InvoiceFails,
         ServerSeesPaid, ServerClaims, ServerSeesInSpend, ServerFinishesIn, ServerForgetsIn, InSpendIsMined
<1>2. ASSUME NEW status \in Texts \ {"UNSAVED"}, ServerInMoves(At(status))
      PROVE  ServerOK(inServer')
  BY <1>2, InMovesAreTexts DEF At, Texts
<1>3. ASSUME NEW outcome \in Texts, ServerInMoves(Ended(outcome))
      PROVE  ServerOK(inServer')
  BY <1>3, InMovesAreTexts DEF Ended, Texts, mapStatus
<1>4. ServerOK(inServer')
  <2> USE DEF Texts, mapStatus
  <2>1. CASE ServerSeesDeposit
    BY <1>2, <2>1 DEF ServerSeesDeposit
  <2>2. CASE ServerConfirmsDeposit
    BY <1>2, <2>2 DEF ServerConfirmsDeposit
  <2>3. CASE ServerSeesTimeout \/ ServerExpiresByAge
    BY <1>2, <1>3, <2>3 DEF ServerSeesTimeout, ServerExpiresByAge
  <2>4. CASE ServerSeesPaid
    <3> DEFINE view == [status |-> "INVOICE_PAID", outcome |-> inServer.outcome]
    <3>1. view.status = "INVOICE_PAID" /\ view.outcome \in Texts
      BY DEF ShapeOK, ServerOK
    <3>2. ServerInMoves(view)
      BY <2>4 DEF ServerSeesPaid
    <3> HIDE DEF view
    <3> QED BY <3>1, <3>2, InMovesAreTexts
  <2>5. CASE ServerSeesInSpend
    <3>1. PICK tx \in {inSpend.pool, inSpend.mined} \ {None} :
            ServerInMoves(At(IF tx = Theirs THEN "CONTRACT_CLAIMED_UNCONFIRMED"
                                            ELSE "CONTRACT_REFUNDED_UNCONFIRMED"))
      BY <2>5 DEF ServerSeesInSpend
    <3> QED BY <1>2, <3>1
  <2>6. CASE ServerFinishesIn
    BY <1>3, <2>6 DEF ServerFinishesIn
  <2>7. CASE ServerForgetsIn
    BY <2>7 DEF ServerForgetsIn, Forgotten, NoAnswer, ServerOK
  <2>8. CASE TimeoutPasses \/ InvoiceIsSettled \/ InvoiceFails \/ ServerClaims \/ InSpendIsMined
    BY <2>8 DEF TimeoutPasses, InvoiceIsSettled, InvoiceFails, ServerClaims, InSpendIsMined,
                ShapeOK
  <2> QED BY <2>1, <2>2, <2>3, <2>4, <2>5, <2>6, <2>7, <2>8 DEF InEnvironment
<1>5. /\ deposit' = [sent |-> deposit'.sent, again |-> deposit'.again,
                     expired |-> deposit'.expired]
      /\ deposit'.sent = deposit.sent
  BY DEF InEnvironment, ServerSeesDeposit, ServerConfirmsDeposit, TimeoutPasses,
         ServerSeesTimeout, ServerExpiresByAge, InvoiceIsSettled, InvoiceFails,
         ServerSeesPaid, ServerClaims, ServerSeesInSpend, ServerFinishesIn, ServerForgetsIn, InSpendIsMined, ShapeOK
<1>6. ShapeOK' /\ KeysSaved'
  BY <1>1, <1>4, <1>5 DEF InServerSame, InSame, ShapeOK, KeysSaved, Paid, procVars, outVars,
                          RowOK, ServerOK
<1> QED BY <1>1, <1>6, MonitorUntouched DEF InServerSame, InSame, outVars, Paid

-----------------------------------------------------------------------------
(* The auto-swap loop is a caller of SwapOut, and marks the rows.          *)
LEMMA CallsKeep ==
  ASSUME KeysInv, UNCHANGED <<procVars, mon, outRow, outServer, payment, outSpend, inVars>>,
         call' = [id \in OutIds |-> call'[id]],
         \A id \in OutIds : /\ call'[id] = [pc |-> call'[id].pc, amount |-> call'[id].amount]
                            /\ call'[id].pc = "pay" => call[id].pc = "pay"
  PROVE  KeysInv'
<1> USE DEF KeysInv
<1>1. ShapeOK' /\ KeysSaved'
  BY DEF ShapeOK, KeysSaved, Paid, procVars, inVars, RowOK, ServerOK
<1> QED BY <1>1, MonitorUntouched DEF Paid

LEMMA AutoSwapKeeps == KeysInv /\ AutoSwapStep => KeysInv'
<1> SUFFICES ASSUME KeysInv, AutoSwapStep PROVE KeysInv'
  OBVIOUS
<1> DEFINE Calls == /\ call' = [id \in OutIds |-> call'[id]]
                    /\ \A id \in OutIds :
                         /\ call'[id] = [pc |-> call'[id].pc, amount |-> call'[id].amount]
                         /\ call'[id].pc = "pay" => call[id].pc = "pay"
<1>1. UNCHANGED <<procVars, mon, inVars, outServer, payment, outSpend>>
  BY DEF AutoSwapStep, AutoSwapLoop, RecoverPendingAutoSwaps, CheckWhileRunning,
         RunAutoSwapCheck, AttemptFails, AttemptSucceeds, UpdateAutoSwap, WatcherStarts,
         WatcherEnds, outVars
<1>2. call' = call => Calls
  BY DEF KeysInv, ShapeOK
<1>3. call' = NoCalls => Calls
  BY DEF NoCalls
<1>4. ASSUME NEW amount, NEW attempt, CallSwapOut(amount, attempt)
      PROVE  Calls
  <2>1. \/ call' = NoCalls
        \/ \E id : call' = [NoCalls EXCEPT ![id] = [pc |-> "create", amount |-> amount]]
    BY <1>4 DEF CallSwapOut
  <2> QED BY <2>1, <1>3 DEF NoCalls
<1>5. CASE ~UpdateAutoSwap
  <2>1. UNCHANGED outRow
    BY <1>5 DEF AutoSwapStep, AutoSwapLoop, RecoverPendingAutoSwaps, CheckWhileRunning,
                RunAutoSwapCheck, AttemptFails, AttemptSucceeds, WatcherStarts,
                WatcherEnds, outVars
  <2>2. Calls
    <3>1. \/ call' = call \/ call' = NoCalls
          \/ \E amount, attempt : CallSwapOut(amount, attempt)
      BY <1>5 DEF AutoSwapStep, AutoSwapLoop, RecoverPendingAutoSwaps, CheckWhileRunning,
                  RunAutoSwapCheck, AttemptFails, AttemptSucceeds, WatcherStarts,
                  WatcherEnds, outVars
    <3> QED BY <3>1, <1>2, <1>3, <1>4
  <2> QED BY <1>1, <2>1, <2>2, CallsKeep
<1>6. CASE UpdateAutoSwap
  <2>1. /\ outRow' = outRow \/ outRow' = [outRow EXCEPT ![auto.id].auto = TRUE]
        /\ UNCHANGED call
    BY <1>6 DEF UpdateAutoSwap
  <2>2. /\ outRow' = [id \in OutIds |-> outRow'[id]]
        /\ \A id \in OutIds : /\ RowOK(outRow'[id])
                              /\ outRow[id] # NoRow => outRow'[id] # NoRow
    <3>1. \A id \in OutIds : outRow[id] \in AnyRow
      BY DEF KeysInv, ShapeOK, RowOK
    <3>2. outRow' = [id \in OutIds |-> outRow'[id]]
      BY <2>1 DEF KeysInv, ShapeOK
    <3>3. ASSUME NEW id \in OutIds
          PROVE  outRow'[id] = outRow[id] \/ outRow'[id] = [outRow[id] EXCEPT !.auto = TRUE]
      BY <2>1, <3>3 DEF KeysInv, ShapeOK
    <3>4. ASSUME NEW row \in AnyRow
          PROVE  [row EXCEPT !.auto = TRUE] \in AnyRow /\ [row EXCEPT !.auto = TRUE] # NoRow
      BY DEF AnyRow, NoRow
    <3> QED BY <3>1, <3>2, <3>3, <3>4 DEF RowOK
  <2>3. ShapeOK' /\ KeysSaved'
    BY <1>1, <2>1, <2>2 DEF KeysInv, ShapeOK, KeysSaved, Paid, procVars, inVars, RowOK, ServerOK
  <2> QED BY <1>1, <2>3, MonitorUntouched DEF KeysInv, Paid
<1> QED BY <1>5, <1>6

-----------------------------------------------------------------------------
(* Start, the polls and the crash; and the invariant itself.               *)
LEMMA PollStarts == KeysInv /\ MonitorSwaps => KeysInv'
<1> SUFFICES ASSUME KeysInv, MonitorSwaps PROVE KeysInv'
  OBVIOUS
<1> DEFINE rows == {[kind |-> "in", id |-> 0, row |-> inRow]} \cup
                   {[kind |-> "out", id |-> id, row |-> outRow[id]] : id \in OutIds}
<1>1. rows \subseteq Items
  BY DEF KeysInv, ShapeOK, RowOK, Items
<1>2. PICK queue \in SUBSET rows : mon' = Continue(queue)
  BY DEF MonitorSwaps
<1>3. PollOK(mon') /\ mon'.pc \in {"sleep", "get"}
  BY <1>1, <1>2, PollContinues
<1> QED BY <1>3, PollMoves DEF MonitorSwaps, StatusKnown, inVars

LEMMA CrashKeeps == KeysInv /\ DaemonCrash => KeysInv'
<1> SUFFICES ASSUME KeysInv, DaemonCrash PROVE KeysInv'
  OBVIOUS
<1>1. PollOK(mon') /\ mon'.pc = "sleep"
  BY PollContinues DEF DaemonCrash, Continue, Asleep, Poll
<1>2. PollOK(mon)' /\ StatusKnown(mon)'
  BY <1>1 DEF PollOK, Polls, StatusKnown
<1>3. ShapeOK'
  BY DEF DaemonCrash, KeysInv, ShapeOK, NoCalls, RowOK, ServerOK
<1>4. PaidFirst' /\ KeysSaved'
  BY <1>1 DEF DaemonCrash, KeysInv, PaidFirst, KeysSaved, Paid, Polling, NoCalls
<1> QED BY <1>2, <1>3, <1>4 DEF KeysInv

LEMMA KeysStep == KeysInv /\ [DaemonNext]_vars => KeysInv'
<1> SUFFICES ASSUME KeysInv, [DaemonNext]_vars PROVE KeysInv'
  OBVIOUS
<1>1. CASE DaemonStart \/ UNCHANGED vars
  <2>1. UNCHANGED <<script, mon, outVars, inVars>>
    BY <1>1 DEF DaemonStart, vars, procVars
  <2> QED BY <2>1 DEF KeysInv, ShapeOK, PollOK, Polls, StatusKnown, PaidFirst, KeysSaved, Paid,
                      Polling, Current, outVars, inVars, RowOK, ServerOK
<1> QED BY <1>1, PollStarts, MonitorOutKeeps, MonitorInKeeps, SwapOutCallKeeps, UserKeeps,
           AutoSwapKeeps, OutEnvironmentKeeps, InEnvironmentKeeps, CrashKeeps DEF DaemonNext

LEMMA KeysHold == DaemonSpec => []KeysInv
<1>1. DaemonInit => KeysInv
  <2> SUFFICES ASSUME DaemonInit PROVE KeysInv
    OBVIOUS
  <2>1. PollOK(mon) /\ mon.pc = "sleep"
    BY PollContinues DEF DaemonInit, Continue, Asleep, Poll
  <2>2. NoRow \in AnyRow /\ ServerOK(NoAnswer)
    BY DEF NoRow, None, AnyRow, NoAnswer, ServerOK, Texts
  <2>3. ShapeOK
    BY <2>2 DEF DaemonInit, ShapeOK, RowOK, NoSpend, NoCalls
  <2>4. PaidFirst /\ KeysSaved
    BY <2>1 DEF DaemonInit, PaidFirst, KeysSaved, Paid, Polling, NoCalls, NoAnswer, NoSpend,
                Active
  <2> QED BY <2>1, <2>3, <2>4 DEF KeysInv, StatusKnown
<1> QED BY <1>1, KeysStep, PTL DEF DaemonSpec

(* In every scenario, at every fee and for any number of swaps: the daemon *)
(* never pays an invoice whose preimage and key it did not save, and nobody*)
(* deposits to a contract whose refund key it did not save.                *)
THEOREM DaemonMoneyMovesOnlyWithSavedKeys == DaemonSpec => []MoneyMovesOnlyWithSavedKeys
<1>1. KeysInv => MoneyMovesOnlyWithSavedKeys
  BY DEF KeysInv, KeysSaved, Paid, MoneyMovesOnlyWithSavedKeys
<1> QED BY <1>1, KeysHold, PTL

-----------------------------------------------------------------------------
(* A swap is on monitoredSwaps only while one of its goroutines runs: each *)
(* of them takes it off the list when it ends, also for the others.        *)
WatchInv ==
    /\ watchers \in [OutIds -> [new : Nat, on : Nat]]
    /\ monitored \subseteq OutIds
    /\ \A id \in monitored : watchers[id].on > 0

LEMMA GoMonitorKeeps ==
  ASSUME WatchInv, NEW ids, GoMonitor(ids), UNCHANGED monitored
  PROVE  WatchInv'
BY DEF WatchInv, GoMonitor

LEMMA WatchStep == WatchInv /\ [DaemonNext]_vars => WatchInv'
<1> SUFFICES ASSUME WatchInv, [DaemonNext]_vars PROVE WatchInv'
  OBVIOUS
<1>1. CASE UNCHANGED <<monitored, watchers>>
  BY <1>1 DEF WatchInv
<1>2. CASE RecoverPendingAutoSwaps \/ CheckWhileRunning \/ UpdateAutoSwap
  BY <1>2, GoMonitorKeeps DEF RecoverPendingAutoSwaps, CheckWhileRunning, UpdateAutoSwap
<1>3. ASSUME NEW id \in OutIds, WatcherStarts(id)
      PROVE  WatchInv'
  <2>1. /\ watchers[id].new \in Nat \ {0} /\ watchers[id].on \in Nat
        /\ watchers' = [watchers EXCEPT ![id] = [new |-> watchers[id].new - 1,
                                                 on |-> watchers[id].on + 1]]
        /\ monitored' = monitored \cup {id}
    BY <1>3 DEF WatcherStarts, WatchInv
  <2> QED BY <2>1 DEF WatchInv
<1>4. ASSUME NEW id \in OutIds, WatcherEnds(id)
      PROVE  WatchInv'
  <2>1. /\ watchers[id].on \in Nat \ {0} /\ watchers[id].new \in Nat
        /\ watchers' = [watchers EXCEPT ![id].on = watchers[id].on - 1]
        /\ monitored' = monitored \ {id}
    BY <1>4 DEF WatcherEnds, WatchInv
  <2> QED BY <2>1 DEF WatchInv
<1>5. CASE DaemonCrash
  BY <1>5 DEF DaemonCrash, WatchInv, NoWatcher
<1>6. CASE RunAutoSwapCheck \/ AttemptFails \/ AttemptSucceeds
  BY <1>6, <1>1 DEF RunAutoSwapCheck, AttemptFails, AttemptSucceeds
<1>7. CASE MonitorOut \/ MonitorIn
  <2>1. UNCHANGED autoVars
    BY <1>7 DEF MonitorOut, MonitorSwapOut, ClaimSwapOut, GetFeesSwapOut, MonitorOutFails,
                MonitorSavesOut, MonitorIn, MonitorSwapIn, FetchLockTx, InitiateRefund,
                getPreimage, MonitorInFails, MonitorSavesIn, InSame
  <2> QED BY <1>1, <2>1 DEF autoVars
<1>8. CASE \/ UserSwapsIn \/ CreateSwapIn \/ SaveSwapIn \/ UserDeposits
           \/ UserDepositsAgain \/ RecoverReusedSwapAddress \/ InEnvironment
  <2>1. UNCHANGED autoVars
    BY <1>8 DEF UserSwapsIn, CreateSwapIn, SaveSwapIn, UserDeposits, UserDepositsAgain,
                RecoverReusedSwapAddress, InSame, InServerSame, InEnvironment,
                ServerSeesDeposit, ServerConfirmsDeposit, TimeoutPasses,
                ServerSeesTimeout, ServerExpiresByAge, InvoiceIsSettled, InvoiceFails, ServerSeesPaid,
                ServerClaims, ServerSeesInSpend, ServerFinishesIn, ServerForgetsIn,
                InSpendIsMined
  <2> QED BY <1>1, <2>1 DEF autoVars
<1>9. ASSUME NEW id \in OutIds, SwapOutCall(id) \/ OutEnvironment(id)
      PROVE  WatchInv'
  <2>1. UNCHANGED autoVars
    BY <1>9 DEF SwapOutCall, CreateSwapOut, SaveSwapOut, PayInvoice, OutEnvironment, OutSame,
                ServerSeesPayment, ServerFunds, ServerCancels, ServerExpires, ServerRefunds,
                ServerSeesSpend, ServerFinishes, ServerForgetsOut, PaymentAdvances,
                OutSpendIsMined
  <2> QED BY <1>1, <2>1 DEF autoVars
<1>10. CASE DaemonStart \/ MonitorSwaps \/ UserSwapsOut \/ UNCHANGED vars
  BY <1>10, <1>1 DEF DaemonStart, MonitorSwaps, UserSwapsOut, vars, autoVars
<1> QED BY <1>2, <1>3, <1>4, <1>5, <1>6, <1>7, <1>8, <1>9, <1>10
        DEF DaemonNext, AutoSwapStep, AutoSwapLoop

(* For any number of swaps and of goroutines for each: a running swap that *)
(* isSwapBeingMonitored finds on the list has a goroutine that will end.   *)
THEOREM DaemonRunningSwapsAreWatched == DaemonSpec => []RunningSwapsAreWatched
<1>1. DaemonInit => WatchInv
  BY DEF DaemonInit, WatchInv, NoWatcher
<1>2. WatchInv => RunningSwapsAreWatched
  BY DEF WatchInv, RunningSwapsAreWatched
<1> QED BY <1>1, <1>2, WatchStep, PTL DEF DaemonSpec

=============================================================================
