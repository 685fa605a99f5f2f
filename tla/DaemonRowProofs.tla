--------------------------- MODULE DaemonRowProofs ---------------------------
(***************************************************************************)
(* What the rows of the daemon's database say of its swaps: a finished row *)
(* tells the truth, two marked auto swaps hold liquidity at once only after*)
(* one expired, what they take leaves the target balance in the channels   *)
(* but for a routing fee, and every value is one the code can hold.        *)
(***************************************************************************)
EXTENDS DaemonProofs, WellFoundedInduction, FiniteSetTheorems

Outcomes == {"NONE", "SUCCESS", "REFUNDED", "EXPIRED", "ERROR"}

(* The answers for a swap-out.  A swap with a payment blocks the loop while*)
(* it is in Before, and never again from Over on: a contract that expired, *)
(* which only a timeout brings about, blocks nothing any more.  A contract,*)
(* and so a spend of it, only exists in Contracted.                        *)
OutStatuses == {"NONE", "FORGOTTEN"} \cup DOMAIN OutMoves

Early ==
    { "CREATED", "INVOICE_PAYMENT_INTENT_RECEIVED", "CONTRACT_FUNDED_UNCONFIRMED",
      "CONTRACT_FUNDED" }

Late ==
    { "CONTRACT_EXPIRED", "CONTRACT_CLAIMED_UNCONFIRMED", "CONTRACT_REFUNDED_UNCONFIRMED" }

Before == Early \cup (IF Faulty("timeout") THEN {} ELSE Late)

Over == {"FORGOTTEN", "DONE"} \cup (IF Faulty("timeout") THEN Late ELSE {})

Blocks(id) == Spent(payment[id]) /\ outServer[id].status \in Before

Contracted ==
    { "CONTRACT_FUNDED_UNCONFIRMED", "CONTRACT_FUNDED", "CONTRACT_EXPIRED",
      "CONTRACT_CLAIMED_UNCONFIRMED", "CONTRACT_REFUNDED_UNCONFIRMED", "DONE" }

Succeeded(id) == outServer[id].status = "DONE" /\ outServer[id].outcome = "SUCCESS"

Lost(id) ==
    \/ outServer[id].status = "FORGOTTEN"
    \/ outServer[id].status = "DONE" /\ outServer[id].outcome # "SUCCESS"

HasSpend(spend) == spend.pool # None \/ spend.mined # None

SpendOK(spend) == spend \in Spends /\ (spend.mined # None => spend.pool = None)

(* A swap-out between the daemon's call, LND's payment, the server and the *)
(* chain: each knows less than the one before it.                          *)
OutOK(id) ==
    /\ outServer[id] \in [status : OutStatuses, outcome : Outcomes]
    /\ SpendOK(outSpend[id])
    /\ HasSpend(outSpend[id]) => outServer[id].status \in Contracted
    /\ call[id].pc = "create" => outServer[id].status = "NONE"
    /\ call[id].pc \in {"save", "pay"} => outServer[id].status # "NONE"
    /\ call[id].pc \in {"create", "save", "pay"} \/ outServer[id].status = "NONE"
         => payment[id].state = "none"
    /\ payment[id].state = "succeeded" => Succeeded(id)
    /\ Succeeded(id) => outSpend[id].mined # None

(* The claim that was mined, and paid for.                                 *)
ClaimIs(id, tx) ==
    payment[id].state = "succeeded" /\ tx = outSpend[id].mined /\ tx # None

OutRowTrue(id) ==
    outRow[id].status = "DONE" =>
      IF outRow[id].outcome = "SUCCESS" THEN ClaimIs(id, outRow[id].tx) ELSE Lost(id)

(* What the monitor is about to save.                                      *)
OutPollTrue ==
    mon.pc \notin {"sleep", "get"} /\ Current.kind = "out" =>
      /\ mon.pc \in {"claim", "fees", "save"}
      /\ mon.pc = "claim" =>
           mon.next = "CONTRACT_FUNDED" /\ outServer[Current.id].status \in Contracted
      /\ mon.pc = "fees" => mon.next = "DONE" /\ mon.row.outcome = "SUCCESS"
      /\ mon.next = "DONE" =>
           IF mon.row.outcome = "SUCCESS"
             THEN Succeeded(Current.id) /\ (mon.pc = "save" => ClaimIs(Current.id, mon.row.tx))
             ELSE Lost(Current.id)

OutTruth == OutPollTrue /\ \A id \in OutIds : OutOK(id) /\ OutRowTrue(id)

(* A swap-in: the payment of the invoice, and a spend of the contract, only*)
(* exist in Started.                                                       *)
InStatuses == {"NONE", "FORGOTTEN"} \cup DOMAIN InMoves

Started ==
    { "CONTRACT_FUNDED", "CONTRACT_EXPIRED", "CONTRACT_REFUNDED_UNCONFIRMED",
      "INVOICE_PAID", "CONTRACT_CLAIMED_UNCONFIRMED", "DONE" }

(* The server ended the swap before it saw a deposit, and so for good.     *)
EndedUnseen ==
    /\ inServer.status = "DONE" /\ inServer.outcome = "EXPIRED"
    /\ inInvoice.state = "open" /\ ~HasSpend(inSpend)

(* What an outcome says of the payment and of the spend.                   *)
InEndedAs(outcome) ==
    /\ outcome = "REFUNDED" => inSpend.mined \in Rates
    /\ outcome = "EXPIRED" => EndedUnseen

InOK ==
    /\ inServer \in [status : InStatuses, outcome : Outcomes]
    /\ inInvoice \in [own : BOOLEAN, state : {"open", "paying", "settled", "failed"}]
    /\ SpendOK(inSpend)
    /\ HasSpend(inSpend) \/ inInvoice.state # "open" => inServer.status \in Started
    /\ inCall = "create" => inServer.status = "NONE"
    /\ InEndedAs(inServer.outcome)
    /\ inServer.status = "NONE" =>
         /\ inCall # "save" /\ inRow.status = "UNSAVED"
         /\ \A item \in mon.queue : item.kind # "in"

InRowTrue ==
    inRow.status = "DONE" =>
      InEndedAs(inRow.outcome) /\ (inRow.outcome = "SUCCESS" => inInvoice.state = "settled")

(* ... and what a poll of it read is not finished: FetchLockTx saves the   *)
(* status that it read.                                                    *)
InPollTrue ==
    /\ mon.pc # "sleep" => mon.row.status # "DONE"
    /\ \A item \in mon.queue : item.row.status # "DONE"
    /\ mon.pc \notin {"sleep", "get"} /\ Current.kind = "in" =>
         /\ mon.pc = "refund" => /\ inServer.status \in Started /\ ~EndedUnseen
                                /\ mon.next = "CONTRACT_EXPIRED"
         /\ mon.next = "DONE" =>
              /\ InEndedAs(mon.row.outcome)
              /\ mon.pc = "save" /\ mon.row.outcome = "SUCCESS" => inInvoice.state = "settled"

InTruth == InOK /\ InRowTrue /\ InPollTrue

(* The marks: what is marked was paid for and is on the running list as    *)
(* long as it blocks the loop, and none does while another is called for.  *)
MarkedHolds(id) == outRow[id].auto /\ Blocks(id)

ExpiryIsAFault ==
    \A id \in OutIds : outServer[id].status = "CONTRACT_EXPIRED" => Faulty("timeout")

RowsKnowTheEnd ==
    /\ \A id \in OutIds : outRow[id].status \in {"DONE", "CONTRACT_EXPIRED"} =>
                            outServer[id].status \in Over
    /\ mon.pc \notin {"sleep", "get"} /\ Current.kind = "out"
       /\ mon.next \in {"DONE", "CONTRACT_EXPIRED"} => outServer[Current.id].status \in Over

MarksAreLate ==
    \A id \in OutIds :
      /\ outServer[id].status = "NONE" \/ call[id].pc \in {"create", "save", "pay"} =>
           ~outRow[id].auto
      /\ Paid(id) \/ call[id].pc = "pay" => outRow[id].status # "UNSAVED"
      /\ call[id].pc = "ok" => outServer[id].status # "NONE"

(* A poll has one copy of a row, and no mark the row has not.              *)
CopiesOfMarks ==
    /\ \A item \in mon.queue :
         /\ item.kind = "out" /\ item.row.auto => outRow[item.id].auto
         /\ \A other \in mon.queue : item.kind = other.kind /\ item.id = other.id => item = other
    /\ mon.pc # "sleep" /\ Current.kind = "out" /\ mon.row.auto => outRow[Current.id].auto

MarkedIsRunning ==
    /\ auto.pc \in {"call", "mark"} => auto.id \in OutIds
    /\ auto.pc = "mark" =>
         /\ outServer[auto.id].status # "NONE"
         /\ call[auto.id].pc \notin {"create", "save", "pay"}
    /\ auto.pc # "off" => \A id \in OutIds : MarkedHolds(id) => id \in running
    /\ auto.pc = "call" => \A id \in OutIds : ~MarkedHolds(id)
    /\ auto.pc = "mark" =>
         \A id \in OutIds :
           IF id = auto.id THEN Blocks(id) => id \in running ELSE ~MarkedHolds(id)

MarkInv ==
    /\ ExpiryIsAFault /\ RowsKnowTheEnd /\ MarksAreLate /\ CopiesOfMarks
    /\ MarkedIsRunning
    /\ \A i, j \in OutIds : i # j => ~(MarkedHolds(i) /\ MarkedHolds(j))

-----------------------------------------------------------------------------
(* A set of numbers has a least one: CallSwapOut takes it.                 *)
Below == {p \in Nat \X Nat : p[1] < p[2]}

LEMMA LeastExists ==
  ASSUME NEW S, S \subseteq Nat, S # {}
  PROVE  \E x \in S : \A y \in S : x <= y
<1>1. IsWellFoundedOn(Below, Nat)
  BY NatLessThanWellFounded DEF OpToRel, Below
<1>2. PICK x \in S : \A y \in S : ~(<<y, x>> \in Below)
  BY <1>1, WFMin
<1>3. ASSUME NEW y \in S
      PROVE  x <= y
  <2>1. x \in Nat /\ y \in Nat
    BY <1>2
  <2>2. <<y, x>> \in Nat \X Nat /\ <<y, x>>[1] = y /\ <<y, x>>[2] = x
    BY <2>1
  <2>3. ~(y < x)
    BY <1>2, <2>2 DEF Below
  <2> QED BY <2>1, <2>3
<1> QED BY <1>2, <1>3

LEMMA CallsAnUnusedSwap ==
  ASSUME NEW amount, NEW attempt, CallSwapOut(amount, attempt)
  PROVE  \/ auto' = AutoIdle /\ call' = NoCalls
         \/ \E id \in OutIds :
              /\ outServer[id].status = "NONE"
              /\ auto' = [pc |-> "call", attempt |-> attempt, amount |-> amount, id |-> id]
              /\ call' = [NoCalls EXCEPT ![id] = [pc |-> "create", amount |-> amount]]
<1> DEFINE unused == {id \in OutIds : id <= script.swaps /\ outServer[id].status = "NONE"}
<1>1. CASE unused = {}
  BY <1>1 DEF CallSwapOut
<1>2. CASE unused # {}
  <2>1. unused \subseteq Nat
    BY DEF OutIds
  <2>2. Min(unused) \in unused
    BY <1>2, <2>1, LeastExists DEF Min
  <2>3. /\ auto' = [pc |-> "call", attempt |-> attempt, amount |-> amount,
                    id |-> Min(unused)]
        /\ call' = [NoCalls EXCEPT ![Min(unused)] = [pc |-> "create", amount |-> amount]]
    BY <1>2 DEF CallSwapOut
  <2> QED BY <2>2, <2>3
<1> QED BY <1>1, <1>2

-----------------------------------------------------------------------------
(* What the monitor makes of an answer.                                    *)
LEMMA OutAnswerIs ==
  ASSUME PollOK(mon), NEW answer, ServerOK(answer)
  PROVE  LET poll == AfterGetSwapOut(answer) IN
         \/ poll = NextSwap
         \/ /\ poll.queue = mon.queue
            /\ poll.row.auto = mon.row.auto /\ poll.row.status = mon.row.status
            /\ \/ /\ answer = Forgotten
                  /\ poll.pc = "save" /\ poll.next = "DONE" /\ poll.row.outcome = "FAILED"
               \/ /\ answer.status = "CONTRACT_FUNDED"
                  /\ poll.pc = "claim" /\ poll.next = answer.status
               \/ /\ answer.status = "DONE" /\ answer.outcome = "SUCCESS"
                  /\ poll.pc = "fees" /\ poll.next = answer.status
                  /\ poll.row.outcome = "SUCCESS"
               \/ /\ ~(answer.status = "DONE" /\ answer.outcome = "SUCCESS")
                  /\ poll.pc = "save" /\ poll.next = answer.status
                  /\ poll.row.outcome = answer.outcome
<1> DEFINE changed == answer.status # mon.row.status \/ ~mon.row.copied
           copied == [mon.row EXCEPT !.copied = TRUE]
           poll == [mon EXCEPT !.row = copied, !.next = answer.status, !.changed = changed]
<1>1. /\ poll = [mon EXCEPT !.row.copied = TRUE, !.next = answer.status,
                            !.changed = answer.status # mon.row.status \/ ~mon.row.copied]
      /\ mon \in Polls /\ mon.row \in AnyRow
  BY DEF PollOK, Polls
<1>2. /\ copied \in AnyRow /\ copied.auto = mon.row.auto
      /\ copied.status = mon.row.status
  BY <1>1 DEF AnyRow
<1>3. changed \in BOOLEAN /\ answer.status \in Texts /\ answer.outcome \in Texts
  BY DEF ServerOK
<1> HIDE DEF changed, copied
<1>4. /\ poll.queue = mon.queue /\ poll.next = answer.status /\ poll.row = copied
      /\ poll \in Polls
  BY <1>1, <1>2, <1>3 DEF Polls
<1> HIDE DEF poll
<1>5. CASE answer = Forgotten
  <2>1. AfterGetSwapOut(answer) =
          [mon EXCEPT !.pc = "save", !.next = "DONE", !.row.outcome = "FAILED"]
    BY <1>5 DEF AfterGetSwapOut, Forgotten, NoAnswer
  <2> QED BY <1>1, <1>5, <2>1 DEF Polls, AnyRow
<1>6. CASE answer # Forgotten /\ answer.status = "CONTRACT_FUNDED"
  <2>1. AfterGetSwapOut(answer) = [poll EXCEPT !.pc = "claim"]
    BY <1>1, <1>6 DEF AfterGetSwapOut
  <2> QED BY <1>2, <1>4, <1>6, <2>1 DEF Polls
<1>7. CASE answer # Forgotten /\ answer.status = "DONE" /\ answer.outcome = "SUCCESS"
  <2>1. AfterGetSwapOut(answer) = [poll EXCEPT !.pc = "fees", !.row.outcome = "SUCCESS"]
    BY <1>1, <1>7 DEF AfterGetSwapOut
  <2>2. LET p == [poll EXCEPT !.pc = "fees", !.row.outcome = "SUCCESS"]
        IN  /\ p.queue = mon.queue /\ p.next = answer.status /\ p.pc = "fees"
            /\ p.row = [copied EXCEPT !.outcome = "SUCCESS"]
    BY <1>4 DEF Polls
  <2> QED BY <1>2, <1>7, <2>1, <2>2 DEF AnyRow
<1>8. CASE /\ answer # Forgotten /\ answer.status # "CONTRACT_FUNDED"
           /\ ~(answer.status = "DONE" /\ answer.outcome = "SUCCESS")
  <2> DEFINE other == [poll EXCEPT !.row.outcome = answer.outcome]
             row == [copied EXCEPT !.outcome = answer.outcome]
  <2>1. AfterGetSwapOut(answer) = SaveOrSkip(other)
    BY <1>1, <1>8 DEF AfterGetSwapOut
  <2>2. /\ row.auto = mon.row.auto /\ row.status = mon.row.status
        /\ row.outcome = answer.outcome /\ row \in AnyRow
    BY <1>2, <1>3 DEF AnyRow
  <2> HIDE DEF row
  <2>3. other.queue = mon.queue /\ other.next = answer.status /\ other.row = row
        /\ other \in Polls
    BY <1>4, <2>2 DEF row, Polls
  <2> HIDE DEF other
  <2>4. LET p == [other EXCEPT !.pc = "save"]
        IN  /\ p.queue = mon.queue /\ p.next = answer.status /\ p.row = row
            /\ p.pc = "save"
    BY <2>3 DEF Polls
  <2> QED BY <1>8, <2>1, <2>2, <2>4 DEF SaveOrSkip
<1> QED BY <1>5, <1>6, <1>7, <1>8

LEMMA InAnswerIs ==
  ASSUME PollOK(mon), mon.pc = "get", NEW answer, ServerOK(answer)
  PROVE  LET poll == AfterGetSwapIn(answer) IN
         \/ poll = NextSwap
         \/ /\ poll.queue = mon.queue /\ poll.row.status = mon.row.status
            /\ \/ poll.pc = "save" /\ poll.next = "DONE" /\ poll.row.outcome = "FAILED"
               \/ /\ answer.status = "CONTRACT_EXPIRED"
                  /\ poll.pc = "refund" /\ poll.next = answer.status
               \/ /\ poll.pc = "preimage" /\ poll.next = answer.status
                  /\ poll.row.outcome = "SUCCESS"
               \/ /\ answer.status = "DONE" /\ answer.outcome # "SUCCESS"
                  /\ poll.pc = "save" /\ poll.next = answer.status
                  /\ poll.row.outcome = answer.outcome
               \/ /\ answer.status # "DONE"
                  /\ poll.pc = "save" /\ poll.next = answer.status
<1> DEFINE poll == [mon EXCEPT !.next = answer.status,
                     !.changed = answer.status # mon.row.status]
<1>1. /\ mon \in Polls /\ mon.row \in AnyRow
      /\ answer.status \in Texts /\ answer.outcome \in Texts
  BY DEF PollOK, Polls, ServerOK
<1>2. /\ poll.queue = mon.queue /\ poll.next = answer.status /\ poll.row = mon.row
      /\ poll \in Polls
  BY <1>1 DEF Polls
<1>3. CASE answer = Forgotten
  <2>1. AfterGetSwapIn(answer) =
          [mon EXCEPT !.pc = "save", !.next = "DONE", !.row.outcome = "FAILED"]
    BY <1>3 DEF AfterGetSwapIn, Forgotten, NoAnswer
  <2> QED BY <1>1, <2>1 DEF Polls, AnyRow
<1>4. CASE answer # Forgotten
  <2>1. \/ /\ answer.status # "DONE"
           /\ AfterGetSwapIn(answer) = SaveOrSkip([poll EXCEPT !.row.lockTx = TRUE])
        \/ AfterGetSwapIn(answer) = [poll EXCEPT !.pc = "preimage", !.row.outcome = "SUCCESS"]
        \/ /\ answer.status = "CONTRACT_EXPIRED"
           /\ AfterGetSwapIn(answer) = [poll EXCEPT !.pc = "refund", !.row.refundAt = TRUE]
        \/ /\ answer.status = "DONE" /\ answer.outcome # "SUCCESS"
           /\ AfterGetSwapIn(answer) = SaveOrSkip([poll EXCEPT !.row.outcome = answer.outcome])
        \/ answer.status # "DONE" /\ AfterGetSwapIn(answer) = SaveOrSkip(poll)
    BY <1>4 DEF AfterGetSwapIn
  <2> HIDE DEF poll
  <2>2. ASSUME NEW p \in Polls, p.queue = mon.queue, p.next = answer.status
        PROVE  \/ SaveOrSkip(p) = NextSwap
               \/ /\ SaveOrSkip(p).queue = mon.queue /\ SaveOrSkip(p).pc = "save"
                  /\ SaveOrSkip(p).next = answer.status /\ SaveOrSkip(p).row = p.row
    BY <2>2 DEF SaveOrSkip, Polls
  <2>3. CASE /\ answer.status # "DONE"
             /\ AfterGetSwapIn(answer) = SaveOrSkip([poll EXCEPT !.row.lockTx = TRUE])
    <3> DEFINE p == [poll EXCEPT !.row.lockTx = TRUE]
    <3>1. /\ p \in Polls /\ p.queue = mon.queue /\ p.next = answer.status
          /\ p.row.status = mon.row.status
      BY <1>1, <1>2 DEF Polls, AnyRow
    <3> HIDE DEF p
    <3> QED BY <2>2, <2>3, <3>1 DEF p
  <2>4. CASE AfterGetSwapIn(answer) = [poll EXCEPT !.pc = "preimage", !.row.outcome = "SUCCESS"]
    BY <1>1, <1>2, <2>4 DEF Polls, AnyRow
  <2>5. CASE /\ answer.status = "CONTRACT_EXPIRED"
             /\ AfterGetSwapIn(answer) = [poll EXCEPT !.pc = "refund", !.row.refundAt = TRUE]
    BY <1>1, <1>2, <2>5 DEF Polls, AnyRow
  <2>6. CASE /\ answer.status = "DONE" /\ answer.outcome # "SUCCESS"
             /\ AfterGetSwapIn(answer) = SaveOrSkip([poll EXCEPT !.row.outcome = answer.outcome])
    <3> DEFINE p == [poll EXCEPT !.row.outcome = answer.outcome]
    <3>1. /\ p \in Polls /\ p.queue = mon.queue /\ p.next = answer.status
          /\ p.row.status = mon.row.status /\ p.row.outcome = answer.outcome
      BY <1>1, <1>2 DEF Polls, AnyRow
    <3> HIDE DEF p
    <3> QED BY <2>2, <2>6, <3>1 DEF p
  <2>7. CASE answer.status # "DONE" /\ AfterGetSwapIn(answer) = SaveOrSkip(poll)
    BY <1>2, <2>2, <2>7
  <2> QED BY <2>1, <2>3, <2>4, <2>5, <2>6, <2>7
<1> QED BY <1>3, <1>4

-----------------------------------------------------------------------------
(* A swap-out's truth.  What ended stays ended, and its claim mined.       *)
OutLasts(id) ==
    /\ Succeeded(id) => Succeeded(id)'
    /\ Lost(id) => Lost(id)'
    /\ outServer[id].status \in Contracted => outServer'[id].status \in Contracted
    /\ payment[id].state = "succeeded" => payment'[id].state = "succeeded"
    /\ outSpend[id].mined # None => outSpend'[id].mined = outSpend[id].mined

FinishedBefore(id) ==
    outRow'[id].status = "DONE" =>
      /\ outRow[id].status = "DONE"
      /\ outRow'[id].outcome = outRow[id].outcome /\ outRow'[id].tx = outRow[id].tx

LEMMA OutWorldMoves ==
  ASSUME KeysInv, OutTruth,
         \A id \in OutIds : OutOK(id)' /\ OutLasts(id) /\ FinishedBefore(id),
         UNCHANGED mon \/ mon'.pc \in {"sleep", "get"}
  PROVE  OutTruth'
<1>1. ASSUME NEW id \in OutIds
      PROVE  OutRowTrue(id)'
  BY DEF OutTruth, OutRowTrue, ClaimIs, OutLasts, FinishedBefore
<1>2. OutPollTrue'
  <2>1. CASE mon'.pc \in {"sleep", "get"}
    BY <2>1 DEF OutPollTrue
  <2>2. CASE mon.pc \notin {"sleep", "get"} /\ Current.kind = "out" /\ UNCHANGED mon
    <3>1. Current.id \in OutIds /\ Current' = Current
      BY <2>2, CurrentIsItem DEF KeysInv, Items, Current
    <3>2. OutLasts(Current.id)
      BY <3>1
    <3>3. OutPollTrue
      BY DEF OutTruth
    <3> QED BY <2>2, <3>1, <3>2, <3>3 DEF OutPollTrue, OutLasts, ClaimIs
  <2>3. CASE Current.kind # "out" /\ UNCHANGED mon
    BY <2>3 DEF OutPollTrue, Current
  <2> QED BY <2>1, <2>2, <2>3
<1> QED BY <1>1, <1>2 DEF OutTruth

(* The calls: the server creates a swap that nothing was paid for.         *)
LEMMA OutCallsAreTrue ==
  ASSUME KeysInv, OutTruth, NEW id \in OutIds, SwapOutCall(id)
  PROVE  OutTruth'
<1>1. OutOK(id) /\ ShapeOK
  BY DEF OutTruth, KeysInv
<1>2. UNCHANGED <<procVars, mon, outSpend>>
  BY DEF SwapOutCall, CreateSwapOut, SaveSwapOut, PayInvoice
<1>3. ASSUME NEW i \in OutIds, i # id
      PROVE  OutOK(i)' /\ OutLasts(i) /\ FinishedBefore(i)
  <2>1. /\ outServer'[i] = outServer[i] /\ call'[i] = call[i] /\ payment'[i] = payment[i]
        /\ outRow'[i] = outRow[i] /\ outSpend'[i] = outSpend[i]
    BY <1>1, <1>2, <1>3 DEF SwapOutCall, CreateSwapOut, SaveSwapOut, PayInvoice,
                            SendPaymentV2, SetCall, ShapeOK
  <2> QED BY <2>1 DEF OutTruth, OutOK, OutLasts, FinishedBefore, Succeeded, Lost
<1>4. CASE CreateSwapOut(id)
  <2>1. /\ call[id].pc = "create" /\ call'[id].pc \in {"save", "err"}
        /\ outServer'[id] \in {outServer[id], Created}
        /\ call'[id].pc = "save" => outServer'[id] = Created
        /\ UNCHANGED <<outRow, payment>>
    BY <1>1, <1>4 DEF CreateSwapOut, SetCall, ShapeOK
  <2>2. Created = [status |-> "CREATED", outcome |-> "NONE"]
    BY DEF Created, NoAnswer
  <2>3. outServer[id].status = "NONE"
    BY <1>1, <2>1 DEF OutOK
  <2> QED BY <1>1, <1>2, <1>3, <2>1, <2>2, <2>3, OutWorldMoves
          DEF OutOK, OutLasts, FinishedBefore, Succeeded, Lost, Contracted, OutStatuses,
              OutMoves, Outcomes
<1>5. CASE SaveSwapOut(id)
  <2>1. /\ call[id].pc = "save" /\ call'[id].pc \in {"pay", "err"}
        /\ outRow'[id] \in {outRow[id], NewRow}
        /\ UNCHANGED <<outServer, payment>>
    BY <1>1, <1>5 DEF SaveSwapOut, SetCall, ShapeOK
  <2>2. NewRow.status = "CREATED"
    BY DEF NewRow, NoRow
  <2> QED BY <1>1, <1>2, <1>3, <2>1, <2>2, OutWorldMoves
          DEF OutOK, OutLasts, FinishedBefore, Succeeded, Lost
<1>6. CASE PayInvoice(id)
  <2>1. /\ call[id].pc = "pay" /\ call'[id].pc \in {"ok", "err"}
        /\ payment'[id].state \in {payment[id].state, "inflight", "failed"}
        /\ UNCHANGED <<outServer, outRow>>
    BY <1>1, <1>6 DEF PayInvoice, SendPaymentV2, SetCall, ShapeOK
  <2> QED BY <1>1, <1>2, <1>3, <2>1, OutWorldMoves
          DEF OutOK, OutLasts, FinishedBefore, Succeeded, Lost
<1> QED BY <1>4, <1>5, <1>6 DEF SwapOutCall

LEMMA OutCallersAreTrue ==
  ASSUME KeysInv, OutTruth, UNCHANGED <<outServer, payment, outSpend>>,
         \A id \in OutIds : FinishedBefore(id),
         UNCHANGED mon \/ mon'.pc = "sleep",
         \A id \in OutIds :
           \/ call'[id].pc \in {call[id].pc, "off"}
           \/ call'[id].pc = "create" /\ outServer[id].status = "NONE"
  PROVE  OutTruth'
<1>1. ASSUME NEW id \in OutIds
      PROVE  OutOK(id)' /\ OutLasts(id)
  <2>1. OutOK(id)
    BY DEF OutTruth
  <2> QED BY <2>1 DEF OutOK, OutLasts, Succeeded, Lost
<1> QED BY <1>1, OutWorldMoves

(* The server and the chain.                                               *)
LEMMA OutWorldIsTrue ==
  ASSUME KeysInv, OutTruth, NEW id \in OutIds, OutEnvironment(id)
  PROVE  OutTruth'
<1>1. /\ OutOK(id) /\ ShapeOK /\ PaidFirst /\ SpendOK(outSpend[id])
      /\ outServer[id] \in [status : OutStatuses, outcome : Outcomes]
  BY DEF OutTruth, KeysInv, OutOK
<1>2. OutSame
  BY DEF OutEnvironment, ServerSeesPayment, ServerFunds, ServerCancels, ServerExpires,
         ServerRefunds, ServerSeesSpend, ServerFinishes, ServerForgetsOut,
         PaymentAdvances, OutSpendIsMined
<1>3. ASSUME NEW view, view.status \in OutStatuses, view.outcome \in Outcomes,
             ServerMoves(id, view)
      PROVE  /\ outServer'[id] \in [status : OutStatuses, outcome : Outcomes]
             /\ outServer'[id].status = view.status /\ outServer'[id].outcome = view.outcome
             /\ view \in OutMoves[outServer[id].status]
  BY <1>1, <1>3 DEF ServerMoves, ShapeOK
<1>4. ASSUME NEW i \in OutIds, i # id
      PROVE  OutOK(i)' /\ OutLasts(i) /\ FinishedBefore(i)
  <2>1. /\ outServer'[i] = outServer[i] /\ payment'[i] = payment[i]
        /\ outSpend'[i] = outSpend[i]
    BY <1>1, <1>4
       DEF OutEnvironment, ServerSeesPayment, ServerFunds, ServerCancels, ServerExpires,
           ServerRefunds, ServerSeesSpend, ServerFinishes, ServerForgetsOut,
           PaymentAdvances, OutSpendIsMined, ServerMoves, ShapeOK
  <2> QED BY <1>2, <2>1 DEF OutTruth, OutOK, OutLasts, FinishedBefore, Succeeded, Lost, OutSame
<1>5. FinishedBefore(id) /\ call'[id] = call[id] /\ UNCHANGED mon
  BY <1>2 DEF OutSame, FinishedBefore
<1>6. SUFFICES OutOK(id)' /\ OutLasts(id)
  BY <1>2, <1>4, <1>5, OutWorldMoves DEF OutSame, FinishedBefore
<1> DEFINE Facts == { "CONTRACT_FUNDED_UNCONFIRMED", "CONTRACT_FUNDED", "CONTRACT_EXPIRED",
                      "CONTRACT_CLAIMED_UNCONFIRMED", "CONTRACT_REFUNDED_UNCONFIRMED",
                      "INVOICE_PAYMENT_INTENT_RECEIVED" }
(* A status on the way, of a swap that was paid for.                       *)
<1>7. ASSUME NEW status \in Facts, ServerMoves(id, At(status)),
             UNCHANGED <<payment, outSpend>>,
             outServer[id].status \in Contracted => status \in Contracted,
             outServer[id].status \notin {"NONE", "FORGOTTEN", "DONE"}
      PROVE  OutOK(id)' /\ OutLasts(id)
  <2>1. At(status).status = status /\ At(status).outcome = "NONE"
    BY DEF At
  <2>2. status \in OutStatuses /\ "NONE" \in Outcomes
    BY DEF OutStatuses, OutMoves, Outcomes
  <2>3. /\ outServer'[id] \in [status : OutStatuses, outcome : Outcomes]
        /\ outServer'[id].status = status
    BY <1>3, <1>7, <2>1, <2>2
  <2> QED BY <1>1, <1>5, <1>7, <2>3 DEF OutOK, OutLasts, Succeeded, Lost
<1>8. ASSUME NEW outcome \in Outcomes, ServerMoves(id, Ended(outcome)), UNCHANGED outSpend,
             outServer[id].status \notin {"NONE", "FORGOTTEN", "DONE"},
             payment'[id].state = "succeeded" => outcome = "SUCCESS",
             call[id].pc \in {"create", "save", "pay"} => payment'[id].state = "none",
             outcome = "SUCCESS" => outSpend[id].mined # None
      PROVE  OutOK(id)' /\ OutLasts(id)
  <2>1. Ended(outcome).status = "DONE" /\ Ended(outcome).outcome = outcome
    BY DEF Ended
  <2>2. "DONE" \in OutStatuses
    BY DEF OutStatuses, OutMoves
  <2>3. /\ outServer'[id] \in [status : OutStatuses, outcome : Outcomes]
        /\ outServer'[id].status = "DONE" /\ outServer'[id].outcome = outcome
    BY <1>3, <1>8, <2>1, <2>2
  <2> QED BY <1>1, <1>5, <1>8, <2>3 DEF OutOK, OutLasts, Succeeded, Lost, Contracted
<1>9. CASE ServerSeesPayment(id) \/ ServerFunds(id) \/ ServerExpires(id)
  BY <1>7, <1>9 DEF ServerSeesPayment, ServerFunds, ServerExpires, OutIs, Contracted
<1>10. CASE ServerCancels(id)
  <2>1. /\ outServer[id].status \in {"CREATED", "INVOICE_PAYMENT_INTENT_RECEIVED"}
        /\ \E outcome \in {"ERROR", "EXPIRED"} : ServerMoves(id, Ended(outcome))
        /\ UNCHANGED outSpend
        /\ payment'[id].state = IF payment[id].state = "none" THEN "none" ELSE "failed"
    BY <1>1, <1>10 DEF ServerCancels, OutIs, ShapeOK
  <2> QED BY <1>1, <1>8, <2>1 DEF OutOK, Outcomes
<1>11. CASE ServerRefunds(id)
  <2>1. /\ outServer[id].status = "CONTRACT_EXPIRED" /\ outSpend[id] = NoSpend
        /\ outSpend' = [outSpend EXCEPT ![id].pool = Theirs]
        /\ UNCHANGED <<payment, outServer>>
    BY <1>11 DEF ServerRefunds, OutIs
  <2>2. outSpend'[id] = [pool |-> Theirs, mined |-> None]
    BY <1>1, <2>1 DEF ShapeOK, NoSpend
  <2> QED BY <1>1, <1>5, <2>1, <2>2 DEF OutOK, OutLasts, Succeeded, Lost, SpendOK, Spends,
                                       Contracted, HasSpend, NoSpend
<1>12. CASE ServerSeesSpend(id)
  <2>1. PICK status \in {"CONTRACT_REFUNDED_UNCONFIRMED", "CONTRACT_CLAIMED_UNCONFIRMED"} :
          ServerMoves(id, At(status))
    BY <1>12 DEF ServerSeesSpend
  <2>2. outServer[id].status \in Contracted /\ UNCHANGED <<payment, outSpend>>
    BY <1>1, <1>12 DEF ServerSeesSpend, OutOK, HasSpend
  <2>3. outServer[id].status # "DONE"
    <3>1. OutMoves["DONE"] = {}
      BY DEF OutMoves
    <3>2. At(status) \in OutMoves[outServer[id].status]
      BY <2>1 DEF ServerMoves
    <3> QED BY <3>1, <3>2
  <2> QED BY <1>7, <2>1, <2>2, <2>3 DEF Contracted
<1>13. CASE ServerFinishes(id)
  <2>1. /\ outServer[id].status \in {"CONTRACT_CLAIMED_UNCONFIRMED",
                                     "CONTRACT_REFUNDED_UNCONFIRMED"}
        /\ UNCHANGED outSpend
        /\ \/ /\ ServerMoves(id, Ended("SUCCESS")) /\ payment'[id].state = "succeeded"
              /\ outSpend[id].mined # None
           \/ ServerMoves(id, Ended("REFUNDED")) /\ payment'[id].state = "failed"
    BY <1>1, <1>13 DEF ServerFinishes, OutIs, ShapeOK, None
  <2>2. call[id].pc \notin {"create", "save", "pay"}
    BY <1>1, <2>1 DEF OutOK, PaidFirst, Active, Paid
  <2> QED BY <1>8, <2>1, <2>2 DEF Outcomes
<1>14. CASE ServerForgetsOut(id)
  <2>1. /\ outServer[id].status = "CREATED" /\ outServer'[id] = Forgotten
        /\ UNCHANGED <<payment, outSpend>> /\ payment[id].state # "succeeded"
    BY <1>1, <1>14 DEF ServerForgetsOut, OutIs, ShapeOK
  <2>2. Forgotten = [status |-> "FORGOTTEN", outcome |-> "NONE"]
    BY DEF Forgotten, NoAnswer
  <2> QED BY <1>1, <1>5, <2>1, <2>2 DEF OutOK, OutLasts, Succeeded, Lost, OutStatuses,
                                       Outcomes, Contracted
<1>15. CASE PaymentAdvances(id)
  <2>1. /\ payment[id].state = "inflight" /\ payment'[id].state \in {"held", "failed"}
        /\ UNCHANGED <<outServer, outSpend>>
    BY <1>1, <1>15 DEF PaymentAdvances, ShapeOK
  <2> QED BY <1>1, <1>5, <2>1 DEF OutOK, OutLasts, Succeeded, Lost
<1>16. CASE OutSpendIsMined(id)
  <2>1. /\ outSpend[id].pool # None /\ outSpend'[id] = Mined(outSpend[id])
        /\ UNCHANGED <<payment, outServer>>
    BY <1>1, <1>16 DEF OutSpendIsMined, ShapeOK
  <2> QED BY <1>1, <1>5, <2>1 DEF OutOK, OutLasts, Succeeded, Lost, SpendOK, Spends, Mined,
                                 HasSpend
<1> QED BY <1>9, <1>10, <1>11, <1>12, <1>13, <1>14, <1>15, <1>16 DEF OutEnvironment

(* The monitor: what it is about to save is true.                          *)
LEMMA OutPollsAreTrue == KeysInv /\ OutTruth /\ MonitorOut => OutTruth'
<1> SUFFICES ASSUME KeysInv, OutTruth, MonitorOut PROVE OutTruth'
  OBVIOUS
<1>1. /\ PollOK(mon) /\ ShapeOK /\ mon.pc # "sleep" /\ Current.kind = "out"
  BY DEF KeysInv, MonitorOut, MonitorSwapOut, ClaimSwapOut, GetFeesSwapOut, MonitorOutFails,
         MonitorSavesOut, Polling
<1>2. Out \in OutIds /\ Out = Current.id
  BY <1>1, CurrentIsItem DEF Items, Out
<1>3. OutPollTrue /\ \A id \in OutIds : OutOK(id) /\ OutRowTrue(id)
  BY DEF OutTruth
<1>4. NextSwap.pc \in {"sleep", "get"}
  BY <1>1, PollGoesOn
<1>5. ASSUME UNCHANGED outVars, mon'.pc \notin {"sleep", "get"} => OutPollTrue'
      PROVE  OutTruth'
  BY <1>3, <1>5 DEF OutTruth, OutPollTrue, OutOK, OutRowTrue, ClaimIs, Succeeded, Lost, outVars
<1>6. CASE MonitorSwapOut
  <2> DEFINE answer == outServer[Out]
  <2>1. /\ mon' = AfterGetSwapOut(answer) /\ UNCHANGED outVars /\ ServerOK(answer)
    BY <1>1, <1>2, <1>6 DEF MonitorSwapOut, GetSwapOut, ShapeOK
  <2>2. \/ mon' = NextSwap
        \/ /\ mon'.queue = mon.queue
           /\ \/ /\ answer = Forgotten
                 /\ mon'.pc = "save" /\ mon'.next = "DONE" /\ mon'.row.outcome = "FAILED"
              \/ /\ answer.status = "CONTRACT_FUNDED"
                 /\ mon'.pc = "claim" /\ mon'.next = answer.status
              \/ /\ answer.status = "DONE" /\ answer.outcome = "SUCCESS"
                 /\ mon'.pc = "fees" /\ mon'.next = answer.status
                 /\ mon'.row.outcome = "SUCCESS"
              \/ /\ ~(answer.status = "DONE" /\ answer.outcome = "SUCCESS")
                 /\ mon'.pc = "save" /\ mon'.next = answer.status
                 /\ mon'.row.outcome = answer.outcome
    BY <1>1, <2>1, OutAnswerIs
  <2>3. ASSUME mon'.queue = mon.queue
        PROVE  Current' = Current
    BY <2>3 DEF Current
  <2>4. Forgotten.status = "FORGOTTEN"
    BY DEF Forgotten, NoAnswer
  <2> QED BY <1>2, <1>4, <1>5, <2>1, <2>2, <2>3, <2>4
          DEF OutPollTrue, Succeeded, Lost, Contracted, outVars
<1>7. CASE ClaimSwapOut
  <2>1. PICK rate \in GetRecommendedFees :
          /\ outSpend' = [outSpend EXCEPT ![Out] = Broadcast(outSpend[Out], rate)]
          /\ mon' = SaveOrSkip([mon EXCEPT !.row.tx = rate])
    BY <1>1, <1>2, <1>7 DEF ClaimSwapOut, ShapeOK
  <2>2. /\ mon.next = "CONTRACT_FUNDED" /\ outServer[Out].status \in Contracted
        /\ UNCHANGED <<outRow, outServer, payment, call>>
    BY <1>1, <1>2, <1>3, <1>7 DEF ClaimSwapOut, Polling, OutPollTrue
  <2>3. rate \in Rates /\ rate # None
    <3>1. script.rates \subseteq Nat \ {0}
      BY <1>1, DaemonAssumption DEF ShapeOK, ScriptKinds
    <3> QED BY <1>1, <3>1 DEF GetRecommendedFees, ShapeOK, Rates, None
  <2>4. /\ SpendOK(outSpend'[Out])
        /\ outSpend[Out].mined # None => outSpend'[Out] = outSpend[Out]
        /\ outSpend'[Out].mined = outSpend[Out].mined
    <3>1. SpendOK(outSpend[Out]) /\ outSpend'[Out] = Broadcast(outSpend[Out], rate)
      BY <1>1, <1>2, <1>3, <2>1 DEF OutOK, ShapeOK
    <3>2. PostRefund(outSpend[Out], rate) => outSpend[Out].mined = None
      BY DEF PostRefund
    <3> QED BY <2>3, <3>1, <3>2 DEF Broadcast, SpendOK, Spends
  <2>5. ASSUME NEW i \in OutIds
        PROVE  OutOK(i)' /\ OutLasts(i) /\ FinishedBefore(i)
    <3>1. CASE i = Out
      BY <1>2, <1>3, <2>2, <2>4, <3>1 DEF OutOK, OutLasts, FinishedBefore, Succeeded, Lost
    <3>2. CASE i # Out
      <4>1. outSpend'[i] = outSpend[i]
        BY <1>1, <2>1, <3>2 DEF ShapeOK
      <4> QED BY <1>3, <2>2, <4>1 DEF OutOK, OutLasts, FinishedBefore, Succeeded, Lost
    <3> QED BY <3>1, <3>2
  <2>6. \/ mon' = NextSwap
        \/ mon'.queue = mon.queue /\ mon'.pc = "save" /\ mon'.next = "CONTRACT_FUNDED"
    BY <1>1, <2>1, <2>2 DEF SaveOrSkip, PollOK, Polls
  <2>7. ASSUME mon'.queue = mon.queue
        PROVE  Current' = Current
    BY <2>7 DEF Current
  <2>8. OutPollTrue'
    BY <1>4, <2>6, <2>7 DEF OutPollTrue
  <2>9. ASSUME NEW i \in OutIds
        PROVE  OutRowTrue(i)'
    BY <1>3, <2>2, <2>5 DEF OutRowTrue, ClaimIs, OutLasts
  <2> QED BY <2>5, <2>8, <2>9 DEF OutTruth
<1>8. CASE GetFeesSwapOut
  <2>1. /\ mon.pc = "fees" /\ UNCHANGED outVars
        /\ \/ mon' = NextSwap
           \/ /\ mon' = SaveOrSkip(mon) /\ payment[Out].state = "succeeded"
              /\ GetFeeFromTxId(outSpend[Out], mon.row.tx)
    BY <1>8 DEF GetFeesSwapOut, Polling
  <2>2. mon.next = "DONE" /\ mon.row.outcome = "SUCCESS" /\ Succeeded(Out)
    BY <1>1, <1>2, <1>3, <2>1 DEF OutPollTrue
  <2>3. payment[Out].state = "succeeded" /\ GetFeeFromTxId(outSpend[Out], mon.row.tx)
          => ClaimIs(Out, mon.row.tx)
    BY <1>2, <1>3, <2>2 DEF OutOK, SpendOK, GetFeeFromTxId, ClaimIs
  <2>4. \/ mon' = NextSwap
        \/ /\ mon'.queue = mon.queue /\ mon'.pc = "save" /\ mon'.next = mon.next
           /\ mon'.row = mon.row /\ ClaimIs(Out, mon.row.tx)
    BY <1>1, <2>1, <2>3 DEF SaveOrSkip, PollOK, Polls
  <2>5. ASSUME mon'.queue = mon.queue
        PROVE  Current' = Current
    BY <2>5 DEF Current
  <2> QED BY <1>2, <1>4, <1>5, <2>1, <2>2, <2>4, <2>5
          DEF OutPollTrue, Succeeded, ClaimIs, outVars
<1>9. CASE MonitorOutFails
  BY <1>4, <1>5, <1>9 DEF MonitorOutFails
<1>10. CASE MonitorSavesOut
  <2>1. /\ mon.pc = "save" /\ mon' = NextSwap
        /\ outRow' = [outRow EXCEPT ![Out] = [mon.row EXCEPT !.status = mon.next]]
        /\ UNCHANGED <<outServer, payment, outSpend, call>>
    BY <1>10 DEF MonitorSavesOut, Polling
  <2>2. LET saved == [mon.row EXCEPT !.status = mon.next]
        IN  /\ saved.status = mon.next /\ saved.outcome = mon.row.outcome
            /\ saved.tx = mon.row.tx
    BY <1>1 DEF PollOK, Polls, AnyRow
  <2>3. /\ outRow'[Out].status = mon.next /\ outRow'[Out].outcome = mon.row.outcome
        /\ outRow'[Out].tx = mon.row.tx
        /\ \A i \in OutIds : i # Out => outRow'[i] = outRow[i]
    BY <1>1, <1>2, <2>1, <2>2 DEF ShapeOK
  <2>4. ASSUME NEW i \in OutIds
        PROVE  OutOK(i)' /\ OutRowTrue(i)'
    <3>1. CASE i = Out
      BY <1>1, <1>2, <1>3, <2>1, <2>3, <3>1
         DEF OutOK, OutRowTrue, OutPollTrue, ClaimIs, Succeeded, Lost
    <3>2. CASE i # Out
      BY <1>3, <2>1, <2>3, <3>2 DEF OutOK, OutRowTrue, ClaimIs, Succeeded, Lost
    <3> QED BY <3>1, <3>2
  <2> QED BY <1>4, <2>1, <2>4 DEF OutTruth, OutPollTrue
<1> QED BY <1>6, <1>7, <1>8, <1>9, <1>10 DEF MonitorOut

(* A poll of the swap-in goes on with it, or with the next swap.           *)
LEMMA InPollGoesOn ==
  ASSUME KeysInv, MonitorIn
  PROVE  /\ PollOK(mon) /\ mon.pc # "sleep" /\ Current.kind = "in" /\ Current \in mon.queue
         /\ \/ mon'.pc \in {"sleep", "get"} /\ mon' = NextSwap
            \/ mon'.queue = mon.queue /\ Current' = Current
         /\ UNCHANGED <<procVars, outVars, autoVars, inServer, deposit, inInvoice, inCall>>
<1>1. PollOK(mon) /\ mon.pc # "sleep" /\ Current.kind = "in" /\ ServerOK(inServer)
  BY DEF KeysInv, ShapeOK, MonitorIn, MonitorSwapIn, FetchLockTx, InitiateRefund, getPreimage,
         MonitorInFails, MonitorSavesIn, Polling
<1>2. Current \in mon.queue
  BY <1>1, FirstIsOne DEF Current, PollOK, Polls
<1>3. NextSwap.pc \in {"sleep", "get"}
  BY <1>1, PollGoesOn
<1>4. UNCHANGED <<procVars, outVars, autoVars, inServer, deposit, inInvoice, inCall>>
  BY DEF MonitorIn, MonitorSwapIn, FetchLockTx, InitiateRefund, getPreimage,
         MonitorInFails, MonitorSavesIn, InSame, inVars
<1>5. mon' = NextSwap \/ mon'.queue = mon.queue
  <2>1. CASE MonitorSwapIn
    <3>1. mon.pc = "get" /\ mon' = AfterGetSwapIn(inServer)
      BY <2>1 DEF MonitorSwapIn, Polling, GetSwapIn
    <3> QED BY <1>1, <3>1, InAnswerIs
  <2>2. CASE ~MonitorSwapIn
    BY <1>1, <2>2 DEF MonitorIn, FetchLockTx, InitiateRefund, getPreimage, MonitorInFails,
                      MonitorSavesIn, SaveOrSkip, PollOK, Polls
  <2> QED BY <2>1, <2>2
<1> QED BY <1>1, <1>2, <1>3, <1>4, <1>5 DEF Current

LEMMA OutTruthStep == KeysInv /\ OutTruth /\ [DaemonNext]_vars => OutTruth'
<1> SUFFICES ASSUME KeysInv, OutTruth, [DaemonNext]_vars PROVE OutTruth'
  OBVIOUS
<1> USE DEF FinishedBefore
<1>1. ShapeOK
  BY DEF KeysInv
<1>2. ASSUME UNCHANGED <<mon, outVars>>
      PROVE  OutTruth'
  BY <1>2, OutCallersAreTrue DEF outVars
<1>3. CASE MonitorIn
  <2>1. /\ UNCHANGED outVars /\ Current.kind = "in"
        /\ \/ mon'.pc \in {"sleep", "get"}
           \/ mon'.queue = mon.queue /\ Current' = Current
    BY <1>3, InPollGoesOn
  <2> QED BY <2>1 DEF OutTruth, OutPollTrue, OutOK, OutRowTrue, ClaimIs, Succeeded, Lost, outVars
<1>4. CASE UserSwapsOut
  <2>1. /\ outServer[1].status = "NONE"
        /\ call' = [call EXCEPT ![1] = [pc |-> "create", amount |-> 1]]
        /\ UNCHANGED <<mon, outRow, outServer, payment, outSpend>>
    BY <1>4 DEF UserSwapsOut
  <2> QED BY <1>1, <2>1, OutCallersAreTrue DEF ShapeOK
<1>5. CASE AutoSwapStep
  <2>1. UNCHANGED <<mon, outServer, payment, outSpend>>
    BY <1>5 DEF AutoSwapStep, AutoSwapLoop, RecoverPendingAutoSwaps, CheckWhileRunning,
                RunAutoSwapCheck, AttemptFails, AttemptSucceeds, UpdateAutoSwap,
                WatcherStarts, WatcherEnds, outVars
  <2>2. \A id \in OutIds : FinishedBefore(id)
    <3>1. CASE UNCHANGED outRow
      BY <3>1
    <3>2. CASE outRow' = [outRow EXCEPT ![auto.id].auto = TRUE]
      <4>1. ASSUME NEW id \in OutIds
            PROVE  outRow'[id] = outRow[id] \/ outRow'[id] = [outRow[id] EXCEPT !.auto = TRUE]
        BY <1>1, <3>2 DEF ShapeOK
      <4>2. \A id \in OutIds : outRow[id] \in AnyRow
        BY <1>1 DEF ShapeOK, RowOK
      <4> QED BY <4>1, <4>2 DEF AnyRow
    <3> QED BY <1>5, <3>1, <3>2
            DEF AutoSwapStep, AutoSwapLoop, RecoverPendingAutoSwaps, CheckWhileRunning,
                RunAutoSwapCheck, AttemptFails, AttemptSucceeds, UpdateAutoSwap,
                WatcherStarts, WatcherEnds, outVars
  <2>3. \/ call' = call \/ call' = NoCalls
        \/ \E amount, attempt : CallSwapOut(amount, attempt)
    BY <1>5 DEF AutoSwapStep, AutoSwapLoop, RecoverPendingAutoSwaps, CheckWhileRunning,
                RunAutoSwapCheck, AttemptFails, AttemptSucceeds, UpdateAutoSwap,
                WatcherStarts, WatcherEnds, outVars
  <2>4. ASSUME NEW id \in OutIds
        PROVE  \/ call'[id].pc \in {call[id].pc, "off"}
               \/ call'[id].pc = "create" /\ outServer[id].status = "NONE"
    <3>1. NoCalls[id].pc = "off"
      BY DEF NoCalls
    <3>2. ASSUME NEW amount, NEW attempt, CallSwapOut(amount, attempt)
          PROVE  \/ call'[id].pc = "off"
                 \/ call'[id].pc = "create" /\ outServer[id].status = "NONE"
      <4>1. \/ call' = NoCalls
            \/ \E i \in OutIds :
                 /\ outServer[i].status = "NONE"
                 /\ call' = [NoCalls EXCEPT ![i] = [pc |-> "create", amount |-> amount]]
        BY <3>2, CallsAnUnusedSwap
      <4> QED BY <3>1, <4>1 DEF NoCalls
    <3> QED BY <2>3, <3>1, <3>2
  <2> QED BY <2>1, <2>2, <2>4, OutCallersAreTrue
<1>6. CASE DaemonCrash
  <2>1. /\ UNCHANGED <<outRow, outServer, payment, outSpend>>
        /\ mon'.pc = "sleep" /\ call' = NoCalls
    BY <1>6 DEF DaemonCrash, Asleep, Poll
  <2> QED BY <2>1, OutCallersAreTrue DEF NoCalls
<1>7. CASE MonitorSwaps
  <2>1. UNCHANGED outVars /\ mon'.pc \in {"sleep", "get"}
    BY <1>7 DEF MonitorSwaps, Continue, Asleep, Poll
  <2> QED BY <2>1 DEF OutTruth, OutPollTrue, OutOK, OutRowTrue, ClaimIs, Succeeded, Lost, outVars
<1>8. CASE \/ UserSwapsIn \/ CreateSwapIn \/ SaveSwapIn \/ UserDeposits
           \/ UserDepositsAgain \/ RecoverReusedSwapAddress \/ InEnvironment
           \/ DaemonStart \/ UNCHANGED vars
  BY <1>2, <1>8
     DEF UserSwapsIn, CreateSwapIn, SaveSwapIn, UserDeposits,
         UserDepositsAgain, RecoverReusedSwapAddress, InSame, InServerSame, InEnvironment,
         ServerSeesDeposit, ServerConfirmsDeposit, TimeoutPasses,
         ServerSeesTimeout, ServerExpiresByAge, InvoiceIsSettled, InvoiceFails, ServerSeesPaid,
         ServerClaims, ServerSeesInSpend, ServerFinishesIn, ServerForgetsIn,
         InSpendIsMined, DaemonStart, vars
<1> QED BY <1>3, <1>4, <1>5, <1>6, <1>7, <1>8, OutCallsAreTrue, OutWorldIsTrue, OutPollsAreTrue
        DEF DaemonNext

-----------------------------------------------------------------------------
(* A swap-in's truth.                                                      *)
LEMMA InWorldMoves ==
  ASSUME KeysInv, InTruth, InOK', UNCHANGED mon, inRow'.status # "DONE" \/ inRow' = inRow,
         inSpend.mined \in Rates => inSpend'.mined \in Rates,
         EndedUnseen => EndedUnseen',
         inServer.status \in Started =>
           inServer'.status \in Started /\ (EndedUnseen' => EndedUnseen),
         inInvoice.state = "settled" /\ inServer.status # "NONE" => inInvoice'.state = "settled"
  PROVE  InTruth'
<1>1. ASSUME NEW outcome, InEndedAs(outcome)
      PROVE  InEndedAs(outcome)'
  BY <1>1 DEF InEndedAs
<1>2. InRowTrue'
  BY <1>1 DEF InTruth, InRowTrue, InOK
<1>3. InPollTrue'
  <2>1. InPollTrue /\ Current' = Current
    BY DEF InTruth, Current
  <2>2. InEndedAs(mon.row.outcome) => InEndedAs(mon.row.outcome)'
    BY <1>1
  <2>3. mon.pc # "sleep" => Current \in mon.queue
    BY FirstIsOne DEF KeysInv, Current, PollOK, Polls
  <2>4. mon.pc # "sleep" /\ Current.kind = "in" => inServer.status # "NONE"
    BY <2>3 DEF InTruth, InOK
  <2> QED BY <2>1, <2>2, <2>4 DEF InPollTrue
<1> QED BY <1>2, <1>3 DEF InTruth

(* The call and the deposits.                                              *)
LEMMA InCallsAreTrue ==
  ASSUME KeysInv, InTruth,
         \/ UserSwapsIn \/ CreateSwapIn \/ SaveSwapIn \/ UserDeposits
         \/ UserDepositsAgain \/ RecoverReusedSwapAddress
  PROVE  InTruth'
<1>1. InOK /\ ShapeOK /\ UNCHANGED mon
  BY DEF InTruth, KeysInv, UserSwapsIn, CreateSwapIn, SaveSwapIn, UserDeposits,
         UserDepositsAgain, RecoverReusedSwapAddress
<1> USE DEF InOK, InEndedAs, EndedUnseen, SpendOK, HasSpend
<1>2. CASE UserSwapsIn
  BY <1>1, <1>2, InWorldMoves DEF UserSwapsIn
<1>3. CASE CreateSwapIn
  <2>1. Created = [status |-> "CREATED", outcome |-> "NONE"]
    BY DEF Created, NoAnswer
  <2>2. Created \in [status : InStatuses, outcome : Outcomes]
    BY <2>1 DEF InStatuses, InMoves, Outcomes
  <2> QED BY <1>1, <1>3, <2>1, <2>2, InWorldMoves DEF CreateSwapIn, Started
<1>4. CASE SaveSwapIn
  <2>1. NewRow.status = "CREATED"
    BY DEF NewRow, NoRow
  <2> QED BY <1>1, <1>4, <2>1, InWorldMoves DEF SaveSwapIn
<1>5. CASE UserDeposits \/ UserDepositsAgain \/ RecoverReusedSwapAddress
  <2>1. UNCHANGED <<inRow, inServer, inSpend, inInvoice, inCall>>
    BY <1>1, <1>5 DEF UserDeposits, UserDepositsAgain, RecoverReusedSwapAddress, ShapeOK
  <2>2. InOK'
    BY <1>1, <2>1
  <2> QED BY <1>1, <2>1, <2>2, InWorldMoves
<1> QED BY <1>2, <1>3, <1>4, <1>5

(* The server and the chain.                                               *)
LEMMA InServerAnswers ==
  ASSUME InOK, NEW view, ServerInMoves(view), view.status \in InStatuses,
         view.outcome \in Outcomes
  PROVE  /\ inServer' \in [status : InStatuses, outcome : Outcomes]
         /\ inServer'.status = view.status /\ inServer'.outcome = view.outcome
         /\ view \in InMoves[inServer.status]
BY DEF InOK, ServerInMoves

LEMMA InWorldIsTrue == KeysInv /\ InTruth /\ InEnvironment => InTruth'
<1> SUFFICES ASSUME KeysInv, InTruth, InEnvironment PROVE InTruth'
  OBVIOUS
<1>1. InOK /\ ShapeOK /\ UNCHANGED <<mon, inRow, inCall>>
  BY DEF InTruth, KeysInv, InServerSame, InEnvironment,
         ServerSeesDeposit, ServerConfirmsDeposit, TimeoutPasses,
         ServerSeesTimeout, ServerExpiresByAge, InvoiceIsSettled, InvoiceFails, ServerSeesPaid,
         ServerClaims, ServerSeesInSpend, ServerFinishesIn, ServerForgetsIn,
         InSpendIsMined
(* The server moves on: its status stays in Started, its outcome is true.  *)
<1>2. ASSUME NEW view, ServerInMoves(view), UNCHANGED <<deposit, inSpend>>,
             view.status \in InStatuses \ {"NONE"}, view.outcome \in Outcomes,
             inServer.status \in Started => view.status \in Started,
             inServer.status # "NONE", ~EndedUnseen, UNCHANGED inInvoice,
             view.outcome = "REFUNDED" => inSpend.mined \in Rates,
             view.outcome = "EXPIRED" => inServer.status = "CREATED" /\ view.status = "DONE"
      PROVE  InTruth'
  <2>1. /\ inServer' \in [status : InStatuses, outcome : Outcomes]
        /\ inServer'.status = view.status /\ inServer'.outcome = view.outcome
    BY <1>1, <1>2, InServerAnswers
  <2>2. view.outcome = "EXPIRED" => EndedUnseen'
    BY <1>1, <1>2, <2>1 DEF InOK, Started, EndedUnseen
  <2>3. inServer.status \in Started => (EndedUnseen' => EndedUnseen)
    BY <1>2, <2>1 DEF EndedUnseen, Started
  <2>4. InOK'
    BY <1>1, <1>2, <2>1, <2>2 DEF InOK, InEndedAs, EndedUnseen
  <2> QED BY <1>1, <1>2, <2>1, <2>3, <2>4, InWorldMoves
<1>3. CASE ServerSeesDeposit
  <2>1. PICK status \in {"CONTRACT_FUNDED_UNCONFIRMED", "CONTRACT_AMOUNT_MISMATCH_UNCONFIRMED"} :
          ServerInMoves(At(status))
    BY <1>3 DEF ServerSeesDeposit
  <2> QED BY <1>2, <1>3, <2>1
          DEF ServerSeesDeposit, InIs, At, InStatuses, InMoves, Outcomes, Started, EndedUnseen
<1>4. CASE ServerConfirmsDeposit
  <2>1. CASE inServer.status = "CONTRACT_FUNDED_UNCONFIRMED"
    <3>1. /\ ServerInMoves(At("CONTRACT_FUNDED"))
          /\ inInvoice' = [inInvoice EXCEPT !.state = "paying"]
          /\ UNCHANGED <<deposit, inSpend>>
      BY <1>4, <2>1 DEF ServerConfirmsDeposit, InIs
    <3>2. /\ inServer' \in [status : InStatuses, outcome : Outcomes]
          /\ inServer'.status = "CONTRACT_FUNDED" /\ inServer'.outcome = "NONE"
      <4>1. /\ At("CONTRACT_FUNDED").status = "CONTRACT_FUNDED"
            /\ At("CONTRACT_FUNDED").outcome = "NONE"
        BY DEF At
      <4>2. "CONTRACT_FUNDED" \in InStatuses /\ "NONE" \in Outcomes
        BY DEF InStatuses, InMoves, Outcomes
      <4> QED BY <1>1, <3>1, <4>1, <4>2, InServerAnswers
    <3>3. inInvoice.state = "open"
      BY <1>1, <2>1 DEF InOK, Started
    <3>4. InOK'
      <4>1. inInvoice' \in [own : BOOLEAN, state : {"open", "paying", "settled", "failed"}]
        BY <1>1, <3>1 DEF InOK
      <4>2. inServer.status # "NONE" /\ inServer'.status # "NONE"
        BY <2>1, <3>2
      <4>3. inServer'.status \in Started
        BY <3>2 DEF Started
      <4> QED BY <1>1, <3>1, <3>2, <4>1, <4>2, <4>3 DEF InOK, InEndedAs, EndedUnseen
    <3> QED BY <1>1, <2>1, <3>1, <3>2, <3>3, <3>4, InWorldMoves DEF Started, EndedUnseen
  <2>2. CASE inServer.status # "CONTRACT_FUNDED_UNCONFIRMED"
    BY <1>2, <1>4, <2>2
       DEF ServerConfirmsDeposit, InIs, At, InStatuses, InMoves, Outcomes, Started, EndedUnseen
  <2> QED BY <2>1, <2>2
<1>5. CASE ServerSeesTimeout
  BY <1>2, <1>5
     DEF ServerSeesTimeout, InIs, At, InStatuses, InMoves, Outcomes, Started, EndedUnseen
<1>14. CASE ServerExpiresByAge
  BY <1>2, <1>14
     DEF ServerExpiresByAge, InIs, Ended, InStatuses, InMoves, Outcomes, Started, EndedUnseen
<1>6. CASE ServerSeesPaid
  <2> DEFINE view == [status |-> "INVOICE_PAID", outcome |-> inServer.outcome]
  <2>1. /\ view.status = "INVOICE_PAID" /\ view.outcome = inServer.outcome
        /\ ServerInMoves(view) /\ inServer.status # "NONE"
        /\ UNCHANGED <<deposit, inSpend, inInvoice>>
    BY <1>6 DEF ServerSeesPaid, InIs
  <2> HIDE DEF view
  <2>2. "INVOICE_PAID" \in InStatuses /\ "INVOICE_PAID" \in Started
    BY DEF InStatuses, InMoves, Started
  <2>3. ~EndedUnseen
    BY <1>6 DEF ServerSeesPaid, EndedUnseen
  <2> QED BY <1>1, <1>2, <2>1, <2>2, <2>3 DEF InOK, InEndedAs, EndedUnseen
<1>7. CASE ServerSeesInSpend
  <2>1. PICK status \in {"CONTRACT_CLAIMED_UNCONFIRMED", "CONTRACT_REFUNDED_UNCONFIRMED"} :
          ServerInMoves(At(status))
    BY <1>7 DEF ServerSeesInSpend
  <2>2. /\ inServer.status \in Started /\ ~EndedUnseen
        /\ UNCHANGED <<deposit, inSpend, inInvoice>>
    BY <1>1, <1>7 DEF ServerSeesInSpend, InOK, HasSpend, EndedUnseen
  <2> QED BY <1>2, <2>1, <2>2 DEF At, InStatuses, InMoves, Outcomes, Started, EndedUnseen
<1>8. CASE ServerFinishesIn
  <2>1. CASE inServer.status = "CONTRACT_CLAIMED_UNCONFIRMED"
    BY <1>2, <1>8, <2>1
       DEF ServerFinishesIn, InIs, Ended, InStatuses, InMoves, Outcomes, Started, EndedUnseen
  <2>2. CASE inServer.status # "CONTRACT_CLAIMED_UNCONFIRMED"
    <3>1. inSpend.mined > None /\ inSpend \in Spends
      BY <1>1, <1>8, <2>2 DEF ServerFinishesIn, InIs, InOK, SpendOK
    <3>2. inSpend.mined \in Rates
      BY <3>1 DEF Spends, None, Theirs
    <3> QED BY <1>2, <1>8, <2>2, <3>2
            DEF ServerFinishesIn, InIs, Ended, InStatuses, InMoves, Outcomes, Started, EndedUnseen
  <2> QED BY <2>1, <2>2
<1>9. CASE ServerForgetsIn
  <2>1. /\ inServer.status = "CREATED" /\ inServer' = Forgotten
        /\ UNCHANGED <<deposit, inSpend, inInvoice>>
    BY <1>9 DEF ServerForgetsIn, InIs
  <2>2. Forgotten = [status |-> "FORGOTTEN", outcome |-> "NONE"]
    BY DEF Forgotten, NoAnswer
  <2>3. Forgotten \in [status : InStatuses, outcome : Outcomes]
    BY <2>2 DEF InStatuses, Outcomes
  <2>4. InOK'
    BY <1>1, <2>1, <2>2, <2>3 DEF InOK, InEndedAs, EndedUnseen, Started
  <2> QED BY <1>1, <2>1, <2>2, <2>4, InWorldMoves DEF Started, EndedUnseen
<1>10. CASE TimeoutPasses
  <2>1. UNCHANGED <<inServer, inSpend, inInvoice>> /\ ~deposit.expired
    BY <1>10 DEF TimeoutPasses
  <2>2. InOK'
    BY <1>1, <2>1 DEF InOK, InEndedAs, EndedUnseen
  <2> QED BY <1>1, <2>1, <2>2, InWorldMoves DEF EndedUnseen
<1>11. CASE InvoiceIsSettled \/ InvoiceFails
  <2>1. /\ UNCHANGED <<deposit, inSpend, inServer>> /\ inInvoice.state = "paying"
        /\ inInvoice' \in [own : BOOLEAN, state : {"open", "paying", "settled", "failed"}]
        /\ inInvoice'.state \in {"settled", "failed"}
    BY <1>1, <1>11 DEF InvoiceIsSettled, InvoiceFails, InOK
  <2>2. InOK'
    BY <1>1, <2>1 DEF InOK, InEndedAs, EndedUnseen
  <2> QED BY <1>1, <2>1, <2>2, InWorldMoves DEF EndedUnseen
<1>12. CASE ServerClaims
  <2>1. /\ inServer.status = "INVOICE_PAID" /\ inSpend = NoSpend
        /\ inSpend' = [inSpend EXCEPT !.pool = Theirs]
        /\ UNCHANGED <<deposit, inServer, inInvoice>>
    BY <1>12 DEF ServerClaims, InIs
  <2>2. inSpend' = [pool |-> Theirs, mined |-> None] /\ inSpend.mined = None
    BY <2>1 DEF NoSpend
  <2>3. InOK'
    BY <1>1, <2>1, <2>2 DEF InOK, InEndedAs, EndedUnseen, SpendOK, Spends, Started, HasSpend
  <2> QED BY <1>1, <2>1, <2>2, <2>3, InWorldMoves DEF EndedUnseen
<1>13. CASE InSpendIsMined
  <2>1. /\ inSpend.pool # None /\ inSpend' = [pool |-> None, mined |-> inSpend.pool]
        /\ UNCHANGED <<deposit, inServer, inInvoice>>
    BY <1>13 DEF InSpendIsMined, Mined
  <2>2. None \notin Rates
    <3>1. \A s \in Scripts : s.rates \subseteq Nat \ {0}
      BY DaemonAssumption DEF ScriptKinds
    <3> QED BY <3>1 DEF Rates, None
  <2>3. inSpend.mined = None
    BY <1>1, <2>1 DEF InOK, SpendOK
  <2>4. InOK'
    BY <1>1, <2>1, <2>2, <2>3 DEF InOK, InEndedAs, EndedUnseen, SpendOK, Spends, HasSpend
  <2> QED BY <1>1, <2>1, <2>2, <2>3, <2>4, InWorldMoves DEF EndedUnseen, HasSpend
<1> QED BY <1>3, <1>4, <1>5, <1>6, <1>7, <1>8, <1>9, <1>10, <1>11, <1>12, <1>13, <1>14
        DEF InEnvironment

(* The monitor.  Whoever is polled has a row that is not finished.         *)
LEMMA InPollsAreTrue == KeysInv /\ InTruth /\ MonitorIn => InTruth'
<1> SUFFICES ASSUME KeysInv, InTruth, MonitorIn PROVE InTruth'
  OBVIOUS
<1>1. /\ PollOK(mon) /\ mon.pc # "sleep" /\ Current.kind = "in" /\ Current \in mon.queue
      /\ \/ mon'.pc \in {"sleep", "get"} /\ mon' = NextSwap
         \/ mon'.queue = mon.queue /\ Current' = Current
      /\ UNCHANGED <<inServer, deposit, inInvoice, inCall>>
      /\ inServer.status # "NONE"
  BY InPollGoesOn DEF InTruth, InOK
<1>2. /\ InOK /\ mon.row.status # "DONE" /\ ServerOK(inServer)
      /\ \A item \in mon.queue : item.row.status # "DONE"
      /\ mon.pc \notin {"sleep", "get"} =>
           /\ mon.pc = "refund" => /\ inServer.status \in Started /\ ~EndedUnseen
                                  /\ mon.next = "CONTRACT_EXPIRED"
           /\ mon.next = "DONE" =>
                /\ InEndedAs(mon.row.outcome)
                /\ mon.pc = "save" /\ mon.row.outcome = "SUCCESS" => inInvoice.state = "settled"
  BY <1>1 DEF InTruth, InPollTrue, KeysInv, ShapeOK
<1>3. mon' = NextSwap => InPollTrue'
  <2>1. ASSUME NEW queue \in SUBSET Items, \A item \in queue : item.row.status # "DONE"
        PROVE  LET poll == Continue(queue)
               IN  /\ poll.pc \in {"sleep", "get"}
                   /\ poll.pc # "sleep" => poll.row.status # "DONE"
                   /\ \A item \in poll.queue : item.row.status # "DONE"
    <3>1. CASE queue = {}
      BY <3>1 DEF Continue, Asleep, Poll
    <3>2. CASE queue # {}
      BY <2>1, <3>2, FirstIsOne DEF Continue, Poll
    <3> QED BY <3>1, <3>2
  <2> QED BY <1>1, <1>2, <2>1 DEF NextSwap, InPollTrue, PollOK, Polls
<1>4. CASE MonitorSwapIn
  <2>1. mon.pc = "get" /\ mon' = AfterGetSwapIn(inServer) /\ UNCHANGED <<inRow, inSpend>>
    BY <1>4 DEF MonitorSwapIn, Polling, GetSwapIn, inVars
  <2>2. InRowTrue' /\ \A outcome : InEndedAs(outcome)' = InEndedAs(outcome)
    BY <1>1, <2>1 DEF InTruth, InRowTrue, InEndedAs, EndedUnseen
  <2>3. InPollTrue'
    <3>1. CASE mon' = NextSwap
      BY <1>3, <3>1
    <3>2. CASE mon' # NextSwap
      <4>1. /\ mon'.queue = mon.queue /\ mon'.row.status = mon.row.status
            /\ \/ mon'.pc = "save" /\ mon'.next = "DONE" /\ mon'.row.outcome = "FAILED"
               \/ /\ inServer.status = "CONTRACT_EXPIRED"
                  /\ mon'.pc = "refund" /\ mon'.next = inServer.status
               \/ /\ mon'.pc = "preimage" /\ mon'.next = inServer.status
                  /\ mon'.row.outcome = "SUCCESS"
               \/ /\ inServer.status = "DONE" /\ inServer.outcome # "SUCCESS"
                  /\ mon'.pc = "save" /\ mon'.next = inServer.status
                  /\ mon'.row.outcome = inServer.outcome
               \/ /\ inServer.status # "DONE"
                  /\ mon'.pc = "save" /\ mon'.next = inServer.status
        BY <1>1, <1>2, <2>1, <3>2, InAnswerIs
      <4>2. InEndedAs(inServer.outcome) /\ InEndedAs("FAILED") /\ InEndedAs("SUCCESS")
        BY <1>2 DEF InOK, InEndedAs, EndedUnseen
      <4>3. mon'.next = "DONE" =>
              /\ InEndedAs(mon'.row.outcome)
              /\ mon'.pc = "save" => mon'.row.outcome # "SUCCESS"
        BY <4>1, <4>2
      <4>4. mon'.next = "DONE" => InEndedAs(mon.row.outcome)'
        BY <4>3, <1>1, <2>1 DEF InEndedAs, EndedUnseen
      <4>5. mon'.pc = "refund" => /\ inServer'.status \in Started /\ ~EndedUnseen'
                                  /\ mon'.next = "CONTRACT_EXPIRED"
        BY <4>1, <1>1 DEF Started, EndedUnseen
      <4> QED BY <1>2, <4>1, <4>3, <4>4, <4>5 DEF InPollTrue
    <3> QED BY <3>1, <3>2
  <2>4. InOK'
    BY <1>1, <1>2, <2>1 DEF InOK, InEndedAs, EndedUnseen
  <2> QED BY <2>2, <2>3, <2>4 DEF InTruth
<1>5. CASE FetchLockTx
  <2>1. /\ mon.pc = "refund" /\ inRow' = [mon.row EXCEPT !.lockTx = TRUE]
        /\ mon' = [mon EXCEPT !.row.lockTx = TRUE] /\ UNCHANGED inSpend
    BY <1>5 DEF FetchLockTx, Polling
  <2>2. /\ inRow'.status = mon.row.status /\ mon'.row.status = mon.row.status
        /\ mon'.pc = "refund" /\ mon'.next = mon.next /\ mon'.queue = mon.queue
    BY <1>1, <2>1 DEF PollOK, Polls, AnyRow
  <2> QED BY <1>1, <1>2, <2>1, <2>2 DEF InTruth, InRowTrue, InPollTrue, InOK, InEndedAs, EndedUnseen
<1>6. CASE InitiateRefund
  <2>1. PICK rate \in GetRecommendedFees :
          /\ inSpend' = Broadcast(inSpend, rate)
          /\ mon' = SaveOrSkip([mon EXCEPT !.row.tx = rate])
    BY <1>6 DEF InitiateRefund
  <2>2. /\ mon.pc = "refund" /\ mon.next = "CONTRACT_EXPIRED"
        /\ inServer.status \in Started /\ ~EndedUnseen /\ UNCHANGED inRow
    BY <1>1, <1>2, <1>6 DEF InitiateRefund, Polling
  <2>3. rate \in Rates /\ rate # None
    <3>1. script.rates \subseteq Nat \ {0} /\ script \in Scripts
      BY DaemonAssumption DEF KeysInv, ShapeOK, ScriptKinds
    <3> QED BY <3>1 DEF GetRecommendedFees, Rates, None
  <2>4. SpendOK(inSpend') /\ inSpend'.mined = inSpend.mined
    BY <1>2, <2>1, <2>3 DEF InOK, Broadcast, PostRefund, SpendOK, Spends
  <2>5. \/ mon' = NextSwap
        \/ /\ mon'.queue = mon.queue /\ mon'.pc = "save" /\ mon'.next = "CONTRACT_EXPIRED"
           /\ mon'.row.status = mon.row.status
    BY <1>1, <2>1, <2>2 DEF SaveOrSkip, PollOK, Polls, AnyRow
  <2>6. InOK' /\ InRowTrue'
    BY <1>1, <1>2, <2>2, <2>4 DEF InTruth, InOK, InRowTrue, InEndedAs, EndedUnseen
  <2>7. InPollTrue'
    BY <1>2, <1>3, <2>5 DEF InPollTrue
  <2> QED BY <2>6, <2>7 DEF InTruth
<1>7. CASE getPreimage
  <2>1. /\ mon.pc = "preimage" /\ UNCHANGED <<inRow, inSpend>>
        /\ \/ mon' = NextSwap
           \/ mon' = SaveOrSkip(mon) /\ inInvoice.state = "settled"
    BY <1>7 DEF getPreimage, Polling, MonitorPaymentReception, inVars
  <2>2. \/ mon' = NextSwap
        \/ /\ mon'.queue = mon.queue /\ mon'.pc = "save" /\ mon'.next = mon.next
           /\ mon'.row = mon.row /\ inInvoice.state = "settled"
    BY <1>1, <2>1 DEF SaveOrSkip, PollOK, Polls
  <2>3. InOK' /\ InRowTrue'
    BY <1>1, <1>2, <2>1 DEF InTruth, InOK, InRowTrue, InEndedAs, EndedUnseen
  <2>4. InPollTrue'
    BY <1>1, <1>2, <1>3, <2>1, <2>2 DEF InPollTrue, InEndedAs, EndedUnseen
  <2> QED BY <2>3, <2>4 DEF InTruth
<1>8. CASE MonitorInFails
  <2>1. mon' = NextSwap /\ UNCHANGED <<inRow, inSpend>>
    BY <1>8 DEF MonitorInFails, inVars
  <2>2. InOK' /\ InRowTrue'
    BY <1>1, <1>2, <2>1 DEF InTruth, InOK, InRowTrue, InEndedAs, EndedUnseen
  <2> QED BY <1>3, <2>1, <2>2 DEF InTruth
<1>9. CASE MonitorSavesIn
  <2>1. /\ mon.pc = "save" /\ inRow' = [mon.row EXCEPT !.status = mon.next]
        /\ mon' = NextSwap /\ UNCHANGED inSpend
    BY <1>9 DEF MonitorSavesIn, Polling
  <2>2. inRow'.status = mon.next /\ inRow'.outcome = mon.row.outcome
    BY <1>1, <2>1 DEF PollOK, Polls, AnyRow
  <2>3. InOK' /\ InRowTrue'
    BY <1>1, <1>2, <2>1, <2>2 DEF InTruth, InOK, InRowTrue, InEndedAs, EndedUnseen
  <2> QED BY <1>3, <2>1, <2>3 DEF InTruth
<1> QED BY <1>4, <1>5, <1>6, <1>7, <1>8, <1>9 DEF MonitorIn

(* A poll of a swap-out goes on with it, or with the next swap.            *)
LEMMA OutPollGoesOn ==
  ASSUME KeysInv, MonitorOut
  PROVE  /\ PollOK(mon) /\ mon.pc # "sleep" /\ Current.kind = "out" /\ Current \in mon.queue
         /\ \/ mon' = NextSwap
            \/ /\ mon'.queue = mon.queue /\ Current' = Current
               /\ mon'.row.status = mon.row.status /\ mon'.row.auto = mon.row.auto
               /\ UNCHANGED outRow
         /\ UNCHANGED <<procVars, inVars, autoVars, outServer, payment, call>>
<1>1. PollOK(mon) /\ mon.pc # "sleep" /\ Current.kind = "out" /\ ShapeOK
  BY DEF KeysInv, MonitorOut, MonitorSwapOut, ClaimSwapOut, GetFeesSwapOut, MonitorOutFails,
         MonitorSavesOut, Polling
<1>2. Current \in mon.queue /\ Out \in OutIds
  BY <1>1, FirstIsOne DEF Current, PollOK, Polls, Items, Out
<1>3. UNCHANGED <<procVars, inVars, autoVars, outServer, payment, call>>
  BY DEF MonitorOut, MonitorSwapOut, ClaimSwapOut, GetFeesSwapOut, MonitorOutFails,
         MonitorSavesOut, outVars
<1>4. \/ mon' = NextSwap
      \/ /\ mon'.queue = mon.queue /\ mon'.row.status = mon.row.status
         /\ mon'.row.auto = mon.row.auto /\ UNCHANGED outRow
  <2>1. CASE MonitorSwapOut
    <3>1. mon' = AfterGetSwapOut(outServer[Out]) /\ ServerOK(outServer[Out]) /\ UNCHANGED outRow
      BY <1>1, <1>2, <2>1 DEF MonitorSwapOut, GetSwapOut, ShapeOK, outVars
    <3> QED BY <1>1, <3>1, OutAnswerIs
  <2>2. CASE ClaimSwapOut
    <3>1. PICK rate \in GetRecommendedFees :
            mon' = SaveOrSkip([mon EXCEPT !.row.tx = rate]) /\ UNCHANGED outRow
      BY <2>2 DEF ClaimSwapOut
    <3> QED BY <1>1, <3>1 DEF SaveOrSkip, PollOK, Polls, AnyRow
  <2>3. CASE GetFeesSwapOut
    <3>1. mon' \in {SaveOrSkip(mon), NextSwap} /\ UNCHANGED outRow
      BY <2>3 DEF GetFeesSwapOut, outVars
    <3> QED BY <1>1, <3>1 DEF SaveOrSkip, PollOK, Polls
  <2>4. CASE MonitorOutFails \/ MonitorSavesOut
    BY <2>4 DEF MonitorOutFails, MonitorSavesOut
  <2> QED BY <2>1, <2>2, <2>3, <2>4 DEF MonitorOut
<1> QED BY <1>1, <1>2, <1>3, <1>4 DEF Current

LEMMA InTruthStep == KeysInv /\ InTruth /\ [DaemonNext]_vars => InTruth'
<1> SUFFICES ASSUME KeysInv, InTruth, [DaemonNext]_vars PROVE InTruth'
  OBVIOUS
<1>1. InOK /\ InRowTrue /\ InPollTrue
  BY DEF InTruth
<1>2. ASSUME UNCHANGED <<mon, inVars>>
      PROVE  InTruth'
  BY <1>1, <1>2 DEF InTruth, InOK, InRowTrue, InPollTrue, InEndedAs, EndedUnseen, Current, inVars
(* A new row of the poll is one of those that are not finished.            *)
<1>3. ASSUME NEW queue \in SUBSET Items, mon' = Continue(queue),
             \A item \in queue : /\ item.row.status # "DONE"
                                 /\ inServer.status = "NONE" => item.kind # "in",
             UNCHANGED <<inRow, inServer, deposit, inSpend, inInvoice>>,
             inCall' = inCall \/ inCall' \notin {"create", "save"}
      PROVE  InTruth'
  <2>1. /\ mon'.pc \in {"sleep", "get"} /\ mon'.queue = queue
        /\ mon'.pc # "sleep" => mon'.row.status # "DONE"
    <3>1. CASE queue = {}
      BY <1>3, <3>1 DEF Continue, Asleep, Poll
    <3>2. CASE queue # {}
      BY <1>3, <3>2, FirstIsOne DEF Continue, Poll
    <3> QED BY <3>1, <3>2
  <2>2. InPollTrue'
    BY <1>3, <2>1 DEF InPollTrue
  <2> QED BY <1>1, <1>3, <2>1, <2>2 DEF InTruth, InOK, InRowTrue, InEndedAs, EndedUnseen
<1>4. CASE MonitorOut
  <2>1. /\ PollOK(mon) /\ mon.pc # "sleep" /\ Current.kind = "out" /\ Current \in mon.queue
        /\ \/ mon' = NextSwap
           \/ /\ mon'.queue = mon.queue /\ Current' = Current
              /\ mon'.row.status = mon.row.status
        /\ UNCHANGED inVars
    BY <1>4, OutPollGoesOn
  <2>2. CASE mon' = NextSwap
    BY <1>1, <1>3, <2>1, <2>2 DEF NextSwap, PollOK, Polls, InPollTrue, InOK, inVars
  <2>3. CASE mon' # NextSwap
    BY <1>1, <2>1, <2>3 DEF InTruth, InOK, InRowTrue, InPollTrue, InEndedAs, EndedUnseen, inVars
  <2> QED BY <2>2, <2>3
<1>5. CASE MonitorSwaps
  <2> DEFINE swapIns == {[kind |-> "in", id |-> 0, row |-> inRow]}
             swapOuts == {[kind |-> "out", id |-> id, row |-> outRow[id]] : id \in OutIds}
  <2>1. /\ mon' = Continue({item \in swapIns \cup swapOuts : Pending(item.row)})
        /\ UNCHANGED inVars
    BY <1>5 DEF MonitorSwaps
  <2>2. swapIns \cup swapOuts \subseteq Items
    BY DEF KeysInv, ShapeOK, RowOK, Items
  <2>3. \A item \in swapIns : Pending(item.row) => inServer.status # "NONE"
    BY <1>1 DEF InOK, Pending
  <2>4. \A item \in swapOuts : item.kind = "out"
    OBVIOUS
  <2> QED BY <1>3, <2>1, <2>2, <2>3, <2>4 DEF Pending, inVars
<1>6. CASE DaemonCrash
  <2>1. /\ mon' = Continue({}) /\ UNCHANGED <<inRow, inServer, deposit, inSpend, inInvoice>>
        /\ inCall' \in {"ok", "off"}
    BY <1>6 DEF DaemonCrash, Continue
  <2> QED BY <1>3, <2>1
<1>7. ASSUME NEW id \in OutIds, SwapOutCall(id) \/ OutEnvironment(id)
      PROVE  UNCHANGED <<mon, inVars>>
  BY <1>7 DEF SwapOutCall, CreateSwapOut, SaveSwapOut, PayInvoice, OutEnvironment, OutSame,
              ServerSeesPayment, ServerFunds, ServerCancels, ServerExpires, ServerRefunds,
              ServerSeesSpend, ServerFinishes, ServerForgetsOut, PaymentAdvances,
              OutSpendIsMined
<1>8. UserSwapsOut \/ AutoSwapStep \/ DaemonStart \/ UNCHANGED vars => UNCHANGED <<mon, inVars>>
  BY DEF UserSwapsOut, AutoSwapStep, AutoSwapLoop, RecoverPendingAutoSwaps, CheckWhileRunning,
         RunAutoSwapCheck, AttemptFails, AttemptSucceeds, UpdateAutoSwap, WatcherStarts,
         WatcherEnds, DaemonStart, vars
<1> QED BY <1>2, <1>4, <1>5, <1>6, <1>7, <1>8, InCallsAreTrue, InWorldIsTrue, InPollsAreTrue
        DEF DaemonNext

LEMMA TruthHolds == DaemonSpec => [](KeysInv /\ OutTruth /\ InTruth)
<1>1. DaemonInit => OutTruth
  <2> SUFFICES ASSUME DaemonInit PROVE OutTruth
    OBVIOUS
  <2>1. /\ NoAnswer \in [status : OutStatuses, outcome : Outcomes] /\ NoAnswer.status = "NONE"
        /\ SpendOK(NoSpend) /\ ~HasSpend(NoSpend) /\ NoRow.status = "UNSAVED"
        /\ mon.pc = "sleep"
    BY DEF DaemonInit, NoAnswer, OutStatuses, Outcomes, SpendOK, Spends, NoSpend, HasSpend,
           NoRow, Asleep, Poll
  <2> QED BY <2>1 DEF DaemonInit, OutTruth, OutPollTrue, OutOK, OutRowTrue, Succeeded, NoCalls
<1>2. DaemonInit => InTruth
  <2> SUFFICES ASSUME DaemonInit PROVE InTruth
    OBVIOUS
  <2>1. /\ NoAnswer \in [status : InStatuses, outcome : Outcomes] /\ NoAnswer.status = "NONE"
        /\ NoAnswer.outcome = "NONE"
        /\ SpendOK(NoSpend) /\ ~HasSpend(NoSpend) /\ NoRow.status = "UNSAVED"
        /\ mon.pc = "sleep" /\ mon.queue = {}
    BY DEF DaemonInit, NoAnswer, InStatuses, Outcomes, SpendOK, Spends, NoSpend, HasSpend,
           NoRow, Asleep, Poll
  <2> QED BY <2>1 DEF DaemonInit, InTruth, InPollTrue, InOK, InRowTrue, InEndedAs, EndedUnseen
<1> QED BY <1>1, <1>2, KeysHold, OutTruthStep, InTruthStep, PTL DEF DaemonSpec

(* In every scenario, whatever fails and whenever the daemon stops: a      *)
(* swap-out that its row calls a success was paid for and claimed by the   *)
(* transaction of the row, any other finished one cost nothing; a swap-in  *)
(* was paid or refunded as its row says, or ended before the server saw a  *)
(* deposit, and then nothing was paid and nothing was taken.               *)
THEOREM DaemonRowTellsTheTruth == DaemonSpec => []RowTellsTheTruth
<1>1. OutTruth /\ InTruth => RowTellsTheTruth
  <2> SUFFICES ASSUME OutTruth, InTruth PROVE RowTellsTheTruth
    OBVIOUS
  <2>1. ASSUME NEW id \in OutIds, outRow[id].status = "DONE"
        PROVE  IF outRow[id].outcome = "SUCCESS"
                 THEN payment[id].state = "succeeded" /\ outRow[id].tx = outSpend[id].mined
                 ELSE payment[id].state # "succeeded"
    <3>1. OutOK(id) /\ OutRowTrue(id)
      BY DEF OutTruth
    <3> QED BY <2>1, <3>1 DEF OutOK, OutRowTrue, ClaimIs, Succeeded, Lost
  <2>2. inRow.status = "DONE" =>
          /\ inRow.outcome = "SUCCESS" => inInvoice.state = "settled"
          /\ inRow.outcome = "REFUNDED" => inSpend.mined \in Rates
          /\ inRow.outcome = "EXPIRED" => inInvoice.state = "open" /\ inSpend = NoSpend
    BY DEF InTruth, InRowTrue, InEndedAs, EndedUnseen, InOK, SpendOK, Spends, HasSpend, NoSpend
  <2> QED BY <2>1, <2>2 DEF RowTellsTheTruth
<1> QED BY <1>1, TruthHolds, PTL

-----------------------------------------------------------------------------
(* The scenario never changes.                                             *)
LEMMA ScriptStays ==
  ASSUME [DaemonNext]_vars
  PROVE  UNCHANGED script
<1>1. ASSUME NEW id \in OutIds,
             SwapOutCall(id) \/ OutEnvironment(id) \/ WatcherStarts(id) \/ WatcherEnds(id)
      PROVE  UNCHANGED script
  BY <1>1 DEF SwapOutCall, CreateSwapOut, SaveSwapOut, PayInvoice, OutEnvironment, OutSame,
         ServerSeesPayment, ServerFunds, ServerCancels, ServerExpires, ServerRefunds,
         ServerSeesSpend, ServerFinishes, ServerForgetsOut, PaymentAdvances,
         OutSpendIsMined, WatcherStarts, WatcherEnds, procVars
<1> QED BY <1>1
        DEF DaemonNext, AutoSwapStep, AutoSwapLoop, RecoverPendingAutoSwaps, CheckWhileRunning,
            RunAutoSwapCheck, AttemptFails, AttemptSucceeds, UpdateAutoSwap, MonitorOut,
            MonitorSwapOut, ClaimSwapOut, GetFeesSwapOut, MonitorOutFails, MonitorSavesOut,
            MonitorIn, MonitorSwapIn, FetchLockTx, InitiateRefund, getPreimage,
            MonitorInFails, MonitorSavesIn,
            UserSwapsOut, DaemonCrash, UserSwapsIn, CreateSwapIn, SaveSwapIn,
            UserDeposits, UserDepositsAgain, RecoverReusedSwapAddress, InSame, InServerSame,
            InEnvironment, ServerSeesDeposit, ServerConfirmsDeposit, TimeoutPasses,
            ServerSeesTimeout, ServerExpiresByAge, InvoiceIsSettled, InvoiceFails, ServerSeesPaid,
            ServerClaims, ServerSeesInSpend, ServerFinishesIn, ServerForgetsIn,
            InSpendIsMined, DaemonStart, MonitorSwaps, vars, procVars

(* What any step does to a swap-out: what is over stays over, money only   *)
(* moves for a call that is about to pay, ...                              *)
OutGoesOn(id) ==
    /\ outServer[id].status \in Over => outServer'[id].status \in Over'
    /\ outServer'[id].status = "CONTRACT_EXPIRED" =>
         outServer[id].status = "CONTRACT_EXPIRED" \/ Faulty("timeout")
    /\ outServer'[id].status = "NONE" => outServer[id].status = "NONE"
    /\ Blocks(id)' => Blocks(id) \/ call[id].pc = "pay"
    /\ Paid(id)' => Paid(id) \/ call[id].pc = "pay"

(* ... a call takes its steps in their order, ...                          *)
CallGoesOn(id) ==
    \/ call'[id].pc \in {call[id].pc, "off", "err"}
    \/ call'[id].pc = "create" /\ outServer[id].status = "NONE"
    \/ call[id].pc = "create" /\ call'[id].pc = "save"
    \/ call[id].pc = "save" /\ call'[id].pc = "pay" /\ outRow'[id] = NewRow
    \/ call[id].pc = "pay" /\ call'[id].pc = "ok"

(* ... and a row is written by the call, by the monitor or by the mark.    *)
RowGoesOn(id) ==
    \/ outRow'[id] = outRow[id]
    \/ call[id].pc = "save" /\ outRow'[id] = NewRow
    \/ /\ Polling("out", "save") /\ id = Current.id /\ mon' = NextSwap
       /\ outRow'[id].status = mon.next /\ outRow'[id].auto = mon.row.auto
    \/ /\ auto.pc = "mark" /\ id = auto.id /\ auto' = AutoIdle
       /\ outRow'[id].status = outRow[id].status /\ outRow'[id].auto

LEMMA OutWorldGoesOn ==
  ASSUME KeysInv, OutTruth, NEW id \in OutIds, OutEnvironment(id), NEW i \in OutIds
  PROVE  OutGoesOn(i) /\ UNCHANGED <<outRow, call, mon, auto, running>>
<1>1. ShapeOK /\ PaidFirst /\ OutOK(id)
  BY DEF KeysInv, OutTruth
<1>2. OutSame
  BY DEF OutEnvironment, ServerSeesPayment, ServerFunds, ServerCancels, ServerExpires,
         ServerRefunds, ServerSeesSpend, ServerFinishes, ServerForgetsOut,
         PaymentAdvances, OutSpendIsMined
<1>0. UNCHANGED script
  BY <1>2 DEF OutSame, procVars
<1> USE DEF OutGoesOn, Blocks, Before, Early, Late, Faulty, Paid, Spent, OutIs, Over
<1>3. CASE i # id
  <2>1. outServer'[i] = outServer[i] /\ payment'[i] = payment[i]
    BY <1>1, <1>3 DEF OutEnvironment, ServerSeesPayment, ServerFunds, ServerCancels,
           ServerExpires, ServerRefunds, ServerSeesSpend, ServerFinishes, ServerForgetsOut,
           PaymentAdvances, OutSpendIsMined, ServerMoves, ShapeOK
  <2> QED BY <1>0, <1>2, <2>1 DEF OutSame, autoVars
<1>4. ASSUME NEW view, ServerMoves(id, view)
      PROVE  outServer'[id].status = view.status
  BY <1>1, <1>4 DEF ServerMoves, ShapeOK, ServerOK
<1>5. ASSUME NEW status, ServerMoves(id, At(status))
      PROVE  outServer'[id].status = status
  BY <1>4, <1>5 DEF At
<1>6. ASSUME NEW outcome, ServerMoves(id, Ended(outcome))
      PROVE  outServer'[id].status = "DONE"
  BY <1>4, <1>6 DEF Ended
<1>7. OutGoesOn(id)
  <2>1. CASE ServerSeesPayment(id) \/ ServerFunds(id) \/ ServerExpires(id)
    BY <1>5, <2>1 DEF ServerSeesPayment, ServerFunds, ServerExpires
  <2>2. CASE ServerCancels(id)
    <3>1. /\ outServer'[id].status = "DONE"
          /\ payment'[id].state = "none" <=> payment[id].state = "none"
      BY <1>1, <1>6, <2>2 DEF ServerCancels, ShapeOK
    <3> QED BY <3>1
  <2>3. CASE ServerRefunds(id) \/ OutSpendIsMined(id)
    BY <1>0, <2>3 DEF ServerRefunds, OutSpendIsMined
  <2>4. CASE ServerSeesSpend(id)
    <3>1. PICK status \in {"CONTRACT_REFUNDED_UNCONFIRMED", "CONTRACT_CLAIMED_UNCONFIRMED"} :
            ServerMoves(id, At(status)) /\ UNCHANGED payment
      BY <2>4 DEF ServerSeesSpend
    <3>2. outServer'[id].status \in Late \ {"CONTRACT_EXPIRED"}
      BY <1>5, <3>1
    <3>3. outServer[id].status \in Contracted
      BY <1>1, <2>4 DEF ServerSeesSpend, OutOK, HasSpend
    <3>4. outServer[id].status # "DONE"
      BY <3>1 DEF ServerMoves, OutMoves
    <3>5. Before' = Before /\ Over' = Over
      BY <1>0
    <3>6. outServer[id].status \notin {"NONE", "FORGOTTEN", "DONE"}
      BY <3>3, <3>4 DEF Contracted
    <3>7. CASE Faulty("timeout")
      BY <3>1, <3>2, <3>5, <3>6, <3>7
    <3>8. CASE ~Faulty("timeout")
      BY <3>1, <3>2, <3>3, <3>5, <3>6, <3>8 DEF Contracted
    <3> QED BY <3>7, <3>8
  <2>5. CASE ServerFinishes(id)
    <3>1. /\ outServer'[id].status = "DONE"
          /\ outServer[id].status \in Active
      BY <1>6, <2>5 DEF ServerFinishes, Active
    <3> QED BY <1>1, <3>1 DEF PaidFirst
  <2>6. CASE ServerForgetsOut(id)
    <3>1. outServer'[id].status = "FORGOTTEN" /\ UNCHANGED payment
      BY <1>1, <2>6 DEF ServerForgetsOut, ShapeOK, Forgotten, NoAnswer
    <3> QED BY <3>1
  <2>7. CASE PaymentAdvances(id)
    <3>1. /\ payment[id].state = "inflight" /\ payment'[id].state \in {"held", "failed"}
          /\ UNCHANGED outServer
      BY <1>1, <2>7 DEF PaymentAdvances, ShapeOK
    <3> QED BY <1>0, <3>1
  <2> QED BY <2>1, <2>2, <2>3, <2>4, <2>5, <2>6, <2>7 DEF OutEnvironment
<1> QED BY <1>2, <1>3, <1>7 DEF OutSame, autoVars

LEMMA OutCallGoesOn ==
  ASSUME KeysInv, OutTruth, NEW id \in OutIds, SwapOutCall(id), NEW i \in OutIds
  PROVE  /\ OutGoesOn(i) /\ CallGoesOn(i) /\ UNCHANGED <<mon, auto, running>>
         /\ outRow'[i] = outRow[i] \/ (call[i].pc = "save" /\ outRow'[i] = NewRow)
<1>1. ShapeOK /\ OutOK(id)
  BY DEF KeysInv, OutTruth
<1> USE DEF OutGoesOn, CallGoesOn, Blocks, Before, Early, Late, Faulty, Paid, Spent, OutIs,
           Over
<1>2. UNCHANGED <<mon, auto, running>>
  BY DEF SwapOutCall, CreateSwapOut, SaveSwapOut, PayInvoice, autoVars
<1>0. UNCHANGED script
  BY DEF SwapOutCall, CreateSwapOut, SaveSwapOut, PayInvoice, procVars
<1>3. CASE i # id
  <2>1. /\ outServer'[i] = outServer[i] /\ payment'[i] = payment[i]
        /\ call'[i] = call[i] /\ outRow'[i] = outRow[i]
    BY <1>1, <1>3 DEF SwapOutCall, CreateSwapOut, SaveSwapOut, PayInvoice,
           SendPaymentV2, SetCall, ShapeOK
  <2> QED BY <1>0, <1>2, <2>1
<1>4. CASE i = id /\ CreateSwapOut(id)
  <2>1. /\ call[id].pc = "create" /\ call'[id].pc \in {"save", "err"}
        /\ outServer'[id] \in {outServer[id], Created}
        /\ UNCHANGED <<outRow, payment>>
    BY <1>1, <1>4 DEF CreateSwapOut, SetCall, ShapeOK
  <2>2. Created.status = "CREATED"
    BY DEF Created, NoAnswer
  <2>3. outServer[id].status = "NONE" /\ payment[id].state = "none"
    BY <1>1, <2>1 DEF OutOK
  <2> QED BY <1>2, <1>4, <2>1, <2>2, <2>3
<1>5. CASE i = id /\ SaveSwapOut(id)
  <2>1. /\ call[id].pc = "save"
        /\ \/ call'[id].pc = "pay" /\ outRow'[id] = NewRow
           \/ call'[id].pc = "err" /\ outRow'[id] = outRow[id]
        /\ UNCHANGED <<outServer, payment>>
    BY <1>1, <1>5 DEF SaveSwapOut, SetCall, ShapeOK
  <2> QED BY <1>0, <1>2, <1>5, <2>1
<1>6. CASE i = id /\ PayInvoice(id)
  <2>1. /\ call[id].pc = "pay" /\ call'[id].pc \in {"ok", "err"}
        /\ UNCHANGED <<outServer, outRow>>
    BY <1>1, <1>6 DEF PayInvoice, SendPaymentV2, SetCall, ShapeOK
  <2> QED BY <1>0, <1>2, <1>6, <2>1
<1> QED BY <1>3, <1>4, <1>5, <1>6 DEF SwapOutCall

LEMMA AutoSwapGoesOn ==
  ASSUME KeysInv, AutoSwapStep, NEW i \in OutIds
  PROVE  /\ UNCHANGED <<mon, outServer, payment, outSpend>>
         /\ OutGoesOn(i) /\ CallGoesOn(i) /\ RowGoesOn(i)
<1>1. ShapeOK
  BY DEF KeysInv
<1>2. UNCHANGED <<mon, outServer, payment, outSpend>>
  BY DEF AutoSwapStep, AutoSwapLoop, RecoverPendingAutoSwaps, CheckWhileRunning,
         RunAutoSwapCheck, AttemptFails, AttemptSucceeds, UpdateAutoSwap, WatcherStarts,
         WatcherEnds, outVars
<1>0. UNCHANGED script
  BY DEF AutoSwapStep, AutoSwapLoop, RecoverPendingAutoSwaps, CheckWhileRunning,
         RunAutoSwapCheck, AttemptFails, AttemptSucceeds, UpdateAutoSwap, WatcherStarts,
         WatcherEnds, procVars
<1>3. \/ call' = call \/ call' = NoCalls
      \/ \E amount, attempt : CallSwapOut(amount, attempt)
  BY DEF AutoSwapStep, AutoSwapLoop, RecoverPendingAutoSwaps, CheckWhileRunning,
         RunAutoSwapCheck, AttemptFails, AttemptSucceeds, UpdateAutoSwap, WatcherStarts,
         WatcherEnds, outVars
<1>4. CallGoesOn(i)
  <2>1. NoCalls[i].pc = "off"
    BY DEF NoCalls
  <2>2. ASSUME NEW amount, NEW attempt, CallSwapOut(amount, attempt)
        PROVE  \/ call'[i].pc = "off"
               \/ call'[i].pc = "create" /\ outServer[i].status = "NONE"
    <3>1. \/ call' = NoCalls
          \/ \E id \in OutIds :
               /\ outServer[id].status = "NONE"
               /\ call' = [NoCalls EXCEPT ![id] = [pc |-> "create", amount |-> amount]]
      BY <2>2, CallsAnUnusedSwap
    <3> QED BY <2>1, <3>1 DEF NoCalls
  <2> QED BY <1>3, <2>1, <2>2 DEF CallGoesOn
<1>5. RowGoesOn(i)
  <2>1. CASE UNCHANGED outRow
    BY <2>1 DEF RowGoesOn
  <2>2. CASE /\ auto.pc = "mark" /\ auto' = AutoIdle
             /\ outRow' = [outRow EXCEPT ![auto.id].auto = TRUE]
    <3>1. CASE i = auto.id
      <4>1. outRow'[i] = [outRow[i] EXCEPT !.auto = TRUE] /\ outRow[i] \in AnyRow
        BY <1>1, <2>2, <3>1 DEF ShapeOK, RowOK
      <4>2. outRow'[i].status = outRow[i].status /\ outRow'[i].auto
        BY <4>1 DEF AnyRow
      <4> QED BY <2>2, <3>1, <4>2 DEF RowGoesOn
    <3>2. CASE i # auto.id
      BY <1>1, <2>2, <3>2 DEF RowGoesOn, ShapeOK
    <3> QED BY <3>1, <3>2
  <2> QED BY <2>1, <2>2
          DEF AutoSwapStep, AutoSwapLoop, RecoverPendingAutoSwaps, CheckWhileRunning,
              RunAutoSwapCheck, AttemptFails, AttemptSucceeds, UpdateAutoSwap,
              WatcherStarts, WatcherEnds, outVars
<1> QED BY <1>0, <1>2, <1>4, <1>5 DEF OutGoesOn, Blocks, Before, Late, Faulty, Paid, Over

(* All of it, for every step.                                              *)
LEMMA StepGoesOn ==
  ASSUME KeysInv, OutTruth, [DaemonNext]_vars, NEW i \in OutIds
  PROVE  OutGoesOn(i) /\ CallGoesOn(i) /\ RowGoesOn(i)
<1> USE DEF OutGoesOn, Blocks, Before, Late, Faulty, Paid, Over
<1>0. UNCHANGED script
  BY ScriptStays
<1>1. ShapeOK
  BY DEF KeysInv
<1>2. CASE UNCHANGED <<outRow, outServer, payment>>
  <2>1. CASE UserSwapsOut
    <3>1. /\ outServer[1].status = "NONE"
          /\ call' = [call EXCEPT ![1] = [pc |-> "create", amount |-> 1]]
      BY <2>1 DEF UserSwapsOut
    <3> QED BY <1>0, <1>1, <1>2, <3>1 DEF CallGoesOn, RowGoesOn, ShapeOK
  <2>2. CASE DaemonCrash
    <3>1. call'[i].pc = "off"
      BY <2>2 DEF DaemonCrash, NoCalls
    <3> QED BY <1>0, <1>2, <3>1 DEF CallGoesOn, RowGoesOn
  <2>3. CASE AutoSwapStep
    BY <2>3, AutoSwapGoesOn
  <2>4. CASE \E id \in OutIds : SwapOutCall(id)
    BY <2>4, OutCallGoesOn DEF RowGoesOn
  <2>5. CASE \E id \in OutIds : OutEnvironment(id)
    BY <2>5, OutWorldGoesOn DEF CallGoesOn, RowGoesOn
  <2>6. CASE MonitorOut \/ MonitorIn
    BY <1>0, <1>2, <2>6, OutPollGoesOn, InPollGoesOn DEF CallGoesOn, RowGoesOn, outVars
  <2>7. CASE \/ UserSwapsIn \/ CreateSwapIn \/ SaveSwapIn \/ UserDeposits
             \/ UserDepositsAgain \/ RecoverReusedSwapAddress \/ InEnvironment
             \/ DaemonStart \/ MonitorSwaps \/ UNCHANGED vars
    <3>1. UNCHANGED outVars
      BY <2>7 DEF UserSwapsIn, CreateSwapIn, SaveSwapIn, UserDeposits,
           UserDepositsAgain, RecoverReusedSwapAddress, InSame, InServerSame, InEnvironment,
           ServerSeesDeposit, ServerConfirmsDeposit, TimeoutPasses,
           ServerSeesTimeout, ServerExpiresByAge, InvoiceIsSettled, InvoiceFails, ServerSeesPaid,
           ServerClaims, ServerSeesInSpend, ServerFinishesIn, ServerForgetsIn,
           InSpendIsMined, DaemonStart, MonitorSwaps, vars
    <3> QED BY <1>0, <3>1 DEF CallGoesOn, RowGoesOn, outVars
  <2> QED BY <2>1, <2>2, <2>3, <2>4, <2>5, <2>6, <2>7 DEF DaemonNext
<1>3. CASE \E id \in OutIds : SwapOutCall(id)
  BY <1>3, OutCallGoesOn DEF RowGoesOn
<1>4. CASE \E id \in OutIds : OutEnvironment(id)
  BY <1>4, OutWorldGoesOn DEF CallGoesOn, RowGoesOn
<1>5. CASE AutoSwapStep
  BY <1>5, AutoSwapGoesOn
<1>6. CASE MonitorOut
  <2>1. UNCHANGED <<outServer, payment, call>> /\ PollOK(mon) /\ Current.kind = "out"
    BY <1>6, OutPollGoesOn
  <2>2. UNCHANGED outRow \/ MonitorSavesOut
    BY <1>6 DEF MonitorOut, MonitorSwapOut, ClaimSwapOut, GetFeesSwapOut, MonitorOutFails, outVars
  <2>3. RowGoesOn(i)
    <3>1. CASE MonitorSavesOut
      <4>1. LET saved == [mon.row EXCEPT !.status = mon.next]
            IN  saved.status = mon.next /\ saved.auto = mon.row.auto
        BY <2>1 DEF PollOK, Polls, AnyRow
      <4>2. i = Out => /\ outRow'[i].status = mon.next /\ outRow'[i].auto = mon.row.auto
                       /\ Polling("out", "save") /\ mon' = NextSwap
        BY <1>1, <3>1, <4>1 DEF MonitorSavesOut, ShapeOK
      <4>3. i # Out => outRow'[i] = outRow[i]
        BY <1>1, <3>1 DEF MonitorSavesOut, ShapeOK
      <4> QED BY <4>2, <4>3 DEF RowGoesOn, Out
    <3> QED BY <2>2, <3>1 DEF RowGoesOn
  <2> QED BY <1>0, <2>1, <2>3 DEF CallGoesOn
<1>7. CASE MonitorIn
  BY <1>7, <1>2, InPollGoesOn DEF outVars
<1> QED BY <1>2, <1>3, <1>4, <1>5, <1>6, <1>7
        DEF DaemonNext, UserSwapsOut, DaemonCrash, UserSwapsIn, CreateSwapIn, SaveSwapIn,
            UserDeposits, UserDepositsAgain, RecoverReusedSwapAddress, InSame, InServerSame,
            InEnvironment, ServerSeesDeposit, ServerConfirmsDeposit, TimeoutPasses,
            ServerSeesTimeout, ServerExpiresByAge, InvoiceIsSettled, InvoiceFails, ServerSeesPaid,
            ServerClaims, ServerSeesInSpend, ServerFinishesIn, ServerForgetsIn,
            InSpendIsMined, DaemonStart, MonitorSwaps, vars, outVars

-----------------------------------------------------------------------------
(* The marks.  A poll of rows with their marks ...                         *)
LEMMA MarksOfAPoll ==
  ASSUME NEW queue \in SUBSET Items, mon' = Continue(queue),
         \A item \in queue :
           /\ item.kind = "out" /\ item.row.auto => outRow'[item.id].auto
           /\ \A other \in queue : item.kind = other.kind /\ item.id = other.id => item = other
  PROVE  CopiesOfMarks'
<1>1. CASE queue = {}
  BY <1>1 DEF CopiesOfMarks, Continue, Asleep, Poll
<1>2. CASE queue # {}
  <2>1. mon'.queue = queue /\ Current' = First(queue) /\ mon'.row = First(queue).row
    BY <1>2 DEF Continue, Poll, Current
  <2> QED BY <1>2, <2>1, FirstIsOne DEF CopiesOfMarks
<1> QED BY <1>1, <1>2

(* ... keeps them, as long as the rows keep theirs: the one whose mark is  *)
(* overwritten is polled no more.                                          *)
LEMMA CopiesStep ==
  ASSUME KeysInv, KeysInv', OutTruth, MarkInv, [DaemonNext]_vars
  PROVE  CopiesOfMarks'
<1>1. PollOK(mon) /\ CopiesOfMarks /\ MarksAreLate
  BY DEF KeysInv, MarkInv
<1>2. mon.pc # "sleep" => Current \in mon.queue /\ Current \in Items
  BY <1>1, FirstIsOne DEF Current, PollOK, Polls
<1>3. \A id \in OutIds : RowGoesOn(id)
  BY StepGoesOn
<1>4. ASSUME NEW id \in OutIds, outRow[id].auto, ~outRow'[id].auto
      PROVE  Polling("out", "save") /\ id = Current.id /\ mon' = NextSwap
  BY <1>1, <1>3, <1>4 DEF RowGoesOn, MarksAreLate
<1>5. CASE mon' = NextSwap
  <2>1. /\ NextSwap = Continue(mon.queue \ {Current})
        /\ mon.queue \ {Current} \in SUBSET Items
    BY <1>1 DEF NextSwap, PollOK, Polls
  <2>2. ASSUME NEW item \in mon.queue \ {Current}, item.kind = "out", item.row.auto
        PROVE  outRow'[item.id].auto
    <3>1. outRow[item.id].auto /\ item.id \in OutIds
      BY <1>1, <2>1, <2>2 DEF CopiesOfMarks, Items
    <3>2. ~(Polling("out", "save") /\ item.id = Current.id)
      BY <1>1, <1>2, <2>2 DEF CopiesOfMarks, Polling
    <3> QED BY <1>4, <3>1, <3>2
  <2> QED BY <1>1, <1>5, <2>1, <2>2, MarksOfAPoll DEF CopiesOfMarks
<1>6. CASE mon' # NextSwap /\ mon'.queue = mon.queue /\ Current' = Current
           /\ (mon'.pc # "sleep" => mon.pc # "sleep")
           /\ (Current.kind = "out" => mon'.row.auto = mon.row.auto)
  <2>1. \A id \in OutIds : outRow[id].auto => outRow'[id].auto
    BY <1>4, <1>6
  <2>2. mon.queue \subseteq Items
    BY <1>1 DEF PollOK, Polls
  <2>3. \A item \in mon.queue : item.kind = "out" => item.id \in OutIds
    BY <2>2 DEF Items
  <2> QED BY <1>1, <1>2, <1>6, <2>1, <2>3 DEF CopiesOfMarks
<1>7. CASE MonitorSwaps
  <2> DEFINE swapIns == {[kind |-> "in", id |-> 0, row |-> inRow]}
             swapOuts == {[kind |-> "out", id |-> id, row |-> outRow[id]] : id \in OutIds}
             queue == {item \in swapIns \cup swapOuts : Pending(item.row)}
  <2>1. mon' = Continue(queue) /\ UNCHANGED outRow
    BY <1>7 DEF MonitorSwaps, outVars
  <2>2. queue \in SUBSET Items
    BY DEF KeysInv, ShapeOK, RowOK, Items
  <2>3. ASSUME NEW item \in queue
        PROVE  /\ item.kind = "out" => item.row = outRow[item.id]
               /\ \A other \in queue : item.kind = other.kind /\ item.id = other.id => item = other
    OBVIOUS
  <2> QED BY <2>1, <2>2, <2>3, MarksOfAPoll
<1>8. CASE DaemonCrash
  BY <1>8 DEF DaemonCrash, CopiesOfMarks, Asleep, Poll
<1>9. CASE MonitorOut \/ MonitorIn
  <2>1. \/ mon' = NextSwap
        \/ /\ mon'.queue = mon.queue /\ Current' = Current /\ mon.pc # "sleep"
           /\ Current.kind = "out" => mon'.row.auto = mon.row.auto
    BY <1>9, OutPollGoesOn, InPollGoesOn
  <2> QED BY <1>5, <1>6, <2>1
<1>10. CASE UNCHANGED mon
  BY <1>5, <1>6, <1>10 DEF Current
<1>11. ASSUME NEW id \in OutIds, SwapOutCall(id) \/ OutEnvironment(id)
       PROVE  UNCHANGED mon
  BY <1>11, OutCallGoesOn, OutWorldGoesOn
<1>12. AutoSwapStep => UNCHANGED mon
  BY DEF AutoSwapStep, AutoSwapLoop, RecoverPendingAutoSwaps, CheckWhileRunning,
         RunAutoSwapCheck, AttemptFails, AttemptSucceeds, UpdateAutoSwap, WatcherStarts,
         WatcherEnds
<1> QED BY <1>7, <1>8, <1>9, <1>10, <1>11, <1>12
        DEF DaemonNext, UserSwapsOut, UserSwapsIn, CreateSwapIn, SaveSwapIn, UserDeposits,
            UserDepositsAgain, RecoverReusedSwapAddress, InServerSame,
            InEnvironment, ServerSeesDeposit, ServerConfirmsDeposit, TimeoutPasses,
            ServerSeesTimeout, ServerExpiresByAge, InvoiceIsSettled, InvoiceFails, ServerSeesPaid,
            ServerClaims, ServerSeesInSpend, ServerFinishesIn, ServerForgetsIn,
            InSpendIsMined, DaemonStart, vars

LEMMA RowsKnowStep ==
  ASSUME KeysInv, KeysInv', OutTruth, MarkInv, [DaemonNext]_vars
  PROVE  RowsKnowTheEnd'
<1>1. PollOK(mon) /\ RowsKnowTheEnd /\ ShapeOK /\ ExpiryIsAFault
  BY DEF KeysInv, MarkInv
<1>2. \A id \in OutIds : RowGoesOn(id) /\ OutGoesOn(id)
  BY StepGoesOn
<1>3. mon.pc # "sleep" /\ Current.kind = "out" => Current.id \in OutIds
  BY <1>1, CurrentIsItem DEF Items
<1>4. ASSUME NEW id \in OutIds, outRow'[id].status \in {"DONE", "CONTRACT_EXPIRED"}
      PROVE  outServer'[id].status \in Over'
  <2>1. NewRow.status = "CREATED"
    BY DEF NewRow, NoRow
  <2>2. outServer[id].status \in Over
    BY <1>1, <1>2, <1>4, <2>1 DEF RowGoesOn, RowsKnowTheEnd, Polling
  <2> QED BY <1>2, <2>2 DEF OutGoesOn
<1> DEFINE Known == mon'.pc \notin {"sleep", "get"} /\ Current'.kind = "out"
                      /\ mon'.next \in {"DONE", "CONTRACT_EXPIRED"}
                    => outServer'[Current'.id].status \in Over'
<1>5. CASE UNCHANGED mon
  <2>1. Current' = Current
    BY <1>5 DEF Current
  <2>2. Known
    BY <1>1, <1>2, <1>3, <1>5, <2>1 DEF RowsKnowTheEnd, OutGoesOn
  <2> QED BY <1>4, <2>2 DEF RowsKnowTheEnd
<1>6. CASE mon'.pc \in {"sleep", "get"}
  BY <1>4, <1>6 DEF RowsKnowTheEnd
<1>7. CASE MonitorIn
  BY <1>4, <1>6, <1>7, InPollGoesOn DEF RowsKnowTheEnd
<1>8. CASE MonitorOut
  <2>1. /\ Current.kind = "out" /\ Current.id \in OutIds
        /\ \/ mon' = NextSwap
           \/ mon'.queue = mon.queue /\ Current' = Current
        /\ UNCHANGED outServer
    BY <1>3, <1>8, OutPollGoesOn
  <2>2. NextSwap.pc \in {"sleep", "get"}
    BY <1>1, PollGoesOn
  <2>3. CASE mon' # NextSwap /\ MonitorSwapOut
    <3>1. mon' = AfterGetSwapOut(outServer[Out]) /\ ServerOK(outServer[Out])
      BY <1>1, <2>1, <2>3 DEF MonitorSwapOut, GetSwapOut, ShapeOK, Out
    <3>2. outServer[Out] = Forgotten \/ mon'.next = outServer[Out].status
      BY <1>1, <2>3, <3>1, OutAnswerIs
    <3>3. Known
      BY <1>1, <2>1, <2>3, <3>2, ScriptStays DEF Over, Late, ExpiryIsAFault, Faulty, Out, Forgotten, NoAnswer
    <3> QED BY <1>4, <3>3 DEF RowsKnowTheEnd
  <2>4. CASE mon' # NextSwap /\ ~MonitorSwapOut
    <3>1. mon.pc \notin {"sleep", "get"} /\ mon'.next = mon.next
      <4>1. CASE ClaimSwapOut
        <5>1. PICK rate \in GetRecommendedFees : mon' = SaveOrSkip([mon EXCEPT !.row.tx = rate])
          BY <4>1 DEF ClaimSwapOut
        <5> QED BY <1>1, <2>4, <4>1, <5>1 DEF ClaimSwapOut, Polling, SaveOrSkip, PollOK, Polls
      <4>2. CASE GetFeesSwapOut
        BY <1>1, <2>4, <4>2 DEF GetFeesSwapOut, Polling, SaveOrSkip, PollOK, Polls
      <4> QED BY <1>8, <2>4, <4>1, <4>2 DEF MonitorOut, MonitorOutFails, MonitorSavesOut
    <3>2. Known
      BY <1>1, <2>1, <2>4, <3>1, ScriptStays DEF RowsKnowTheEnd, Over, Late, Faulty
    <3> QED BY <1>4, <3>2 DEF RowsKnowTheEnd
  <2> QED BY <1>6, <2>1, <2>2, <2>3, <2>4
<1>9. MonitorSwaps \/ DaemonCrash => mon'.pc \in {"sleep", "get"}
  BY DEF MonitorSwaps, DaemonCrash, Continue, Asleep, Poll
<1>10. ASSUME NEW id \in OutIds, SwapOutCall(id) \/ OutEnvironment(id)
       PROVE  UNCHANGED mon
  BY <1>10, OutCallGoesOn, OutWorldGoesOn
<1>11. AutoSwapStep => UNCHANGED mon
  BY DEF AutoSwapStep, AutoSwapLoop, RecoverPendingAutoSwaps, CheckWhileRunning,
         RunAutoSwapCheck, AttemptFails, AttemptSucceeds, UpdateAutoSwap, WatcherStarts,
         WatcherEnds
<1> QED BY <1>5, <1>6, <1>7, <1>8, <1>9, <1>10, <1>11
        DEF DaemonNext, UserSwapsOut, UserSwapsIn, CreateSwapIn, SaveSwapIn, UserDeposits,
            UserDepositsAgain, RecoverReusedSwapAddress, InServerSame,
            InEnvironment, ServerSeesDeposit, ServerConfirmsDeposit, TimeoutPasses,
            ServerSeesTimeout, ServerExpiresByAge, InvoiceIsSettled, InvoiceFails, ServerSeesPaid,
            ServerClaims, ServerSeesInSpend, ServerFinishesIn, ServerForgetsIn,
            InSpendIsMined, DaemonStart, vars

LEMMA MarksAreLateStep ==
  ASSUME KeysInv, OutTruth, MarkInv, [DaemonNext]_vars
  PROVE  MarksAreLate'
<1>1. /\ MarksAreLate /\ CopiesOfMarks /\ MarkedIsRunning /\ StatusKnown(mon)
      /\ \A id \in OutIds : OutOK(id)
  BY DEF KeysInv, MarkInv, OutTruth
<1> SUFFICES ASSUME NEW id \in OutIds
             PROVE  /\ outServer'[id].status = "NONE"
                         \/ call'[id].pc \in {"create", "save", "pay"} => ~outRow'[id].auto
                    /\ Paid(id)' \/ call'[id].pc = "pay" => outRow'[id].status # "UNSAVED"
                    /\ call'[id].pc = "ok" => outServer'[id].status # "NONE"
  BY DEF MarksAreLate
<1>2. OutGoesOn(id) /\ CallGoesOn(id) /\ RowGoesOn(id)
  BY StepGoesOn
<1>3. NewRow.status = "CREATED" /\ NewRow.auto = FALSE
  BY DEF NewRow, NoRow
<1>4. outServer'[id].status = "NONE" \/ call'[id].pc \in {"create", "save", "pay"}
        => ~outRow'[id].auto
  <2> SUFFICES ASSUME outServer'[id].status = "NONE"
                        \/ call'[id].pc \in {"create", "save", "pay"}
               PROVE  ~outRow'[id].auto
    OBVIOUS
  <2>1. outServer[id].status = "NONE" \/ call[id].pc \in {"create", "save", "pay"}
    BY <1>2 DEF OutGoesOn, CallGoesOn
  <2>2. ~outRow[id].auto
    BY <1>1, <2>1 DEF MarksAreLate
  <2>3. ~(Polling("out", "save") /\ id = Current.id /\ mon.row.auto)
    BY <1>1, <2>2 DEF CopiesOfMarks, Polling
  <2>4. ~(auto.pc = "mark" /\ id = auto.id)
    BY <1>1, <2>1 DEF MarkedIsRunning
  <2> QED BY <1>2, <1>3, <2>2, <2>3, <2>4 DEF RowGoesOn
<1>5. Paid(id)' \/ call'[id].pc = "pay" => outRow'[id].status # "UNSAVED"
  <2>1. mon.pc = "save" => mon.next # "UNSAVED"
    BY <1>1 DEF StatusKnown
  <2>2. CASE Paid(id) \/ call[id].pc = "pay"
    <3>1. outRow[id].status # "UNSAVED"
      BY <1>1, <2>2 DEF MarksAreLate
    <3> QED BY <1>2, <1>3, <2>1, <3>1 DEF RowGoesOn, Polling
  <2>3. CASE ~(Paid(id) \/ call[id].pc = "pay")
    BY <1>2, <1>3, <2>3 DEF OutGoesOn, CallGoesOn
  <2> QED BY <2>2, <2>3
<1>6. call'[id].pc = "ok" => outServer'[id].status # "NONE"
  BY <1>1, <1>2 DEF MarksAreLate, OutOK, OutGoesOn, CallGoesOn
<1> QED BY <1>4, <1>5, <1>6

(* A marked swap that blocks the loop after a step did so before it.       *)
LEMMA MarkedHoldsBefore ==
  ASSUME KeysInv, OutTruth, MarkInv, [DaemonNext]_vars, NEW id \in OutIds
  PROVE  /\ MarkedHolds(id)' => \/ MarkedHolds(id)
                                \/ auto.pc = "mark" /\ id = auto.id /\ Blocks(id)
                                   /\ auto' = AutoIdle
         /\ auto.pc = "mark" /\ id = auto.id /\ Blocks(id)' => Blocks(id)
<1>1. MarksAreLate /\ CopiesOfMarks /\ MarkedIsRunning
  BY DEF MarkInv
<1>2. OutGoesOn(id) /\ RowGoesOn(id)
  BY StepGoesOn
<1>3. auto.pc = "mark" /\ id = auto.id /\ Blocks(id)' => Blocks(id)
  BY <1>1, <1>2 DEF MarkedIsRunning, OutGoesOn
<1>4. ASSUME MarkedHolds(id)', ~(auto.pc = "mark" /\ id = auto.id /\ auto' = AutoIdle)
      PROVE  MarkedHolds(id)
  <2>1. outRow'[id].auto /\ Blocks(id)'
    BY <1>4 DEF MarkedHolds
  <2>2. NewRow.auto = FALSE
    BY DEF NewRow, NoRow
  <2>3. outRow[id].auto
    BY <1>1, <1>2, <1>4, <2>1, <2>2 DEF RowGoesOn, CopiesOfMarks, Polling
  <2>4. Blocks(id)
    BY <1>1, <1>2, <2>1, <2>3 DEF OutGoesOn, MarksAreLate
  <2> QED BY <2>3, <2>4 DEF MarkedHolds
<1> QED BY <1>3, <1>4 DEF MarkedHolds

LEMMA MarkedIsRunningStep ==
  ASSUME KeysInv, OutTruth, MarkInv, [DaemonNext]_vars
  PROVE  /\ MarkedIsRunning'
         /\ \A i, j \in OutIds : i # j => ~(MarkedHolds(i) /\ MarkedHolds(j))'
<1>1. /\ MarkedIsRunning /\ RowsKnowTheEnd /\ MarksAreLate /\ ExpiryIsAFault /\ ShapeOK
      /\ \A i, j \in OutIds : i # j => ~(MarkedHolds(i) /\ MarkedHolds(j))
  BY DEF MarkInv, KeysInv
<1>2. \A id \in OutIds : OutGoesOn(id) /\ CallGoesOn(id)
  BY StepGoesOn
<1>3. AutoIdle.pc = "idle"
  BY DEF AutoIdle, AutoStopped
<1>4. ASSUME NEW id \in OutIds, MarkedHolds(id)'
      PROVE  \/ MarkedHolds(id)
             \/ auto.pc = "mark" /\ id = auto.id /\ Blocks(id) /\ auto' = AutoIdle
  BY <1>4, MarkedHoldsBefore
<1>5. ASSUME NEW i \in OutIds, NEW j \in OutIds, i # j, MarkedHolds(i)', MarkedHolds(j)'
      PROVE  FALSE
  <2>1. MarkedHolds(i) /\ MarkedHolds(j) => FALSE
    BY <1>1, <1>5
  <2> QED BY <1>1, <1>4, <1>5, <2>1 DEF MarkedIsRunning
<1>6. \A i, j \in OutIds : i # j => ~(MarkedHolds(i) /\ MarkedHolds(j))'
  BY <1>5
<1>7. ASSUME UNCHANGED <<auto, running>>
      PROVE  MarkedIsRunning'
  <2>1. ASSUME NEW id \in OutIds, MarkedHolds(id)'
        PROVE  MarkedHolds(id)
    BY <1>3, <1>4, <1>7, <2>1
  <2>2. auto.pc = "mark" =>
          /\ outServer'[auto.id].status # "NONE"
          /\ call'[auto.id].pc \notin {"create", "save", "pay"}
          /\ Blocks(auto.id)' => Blocks(auto.id)
    <3> SUFFICES ASSUME auto.pc = "mark"
                 PROVE  /\ outServer'[auto.id].status # "NONE"
                        /\ call'[auto.id].pc \notin {"create", "save", "pay"}
                        /\ Blocks(auto.id)' => Blocks(auto.id)
      OBVIOUS
    <3>1. /\ auto.id \in OutIds /\ outServer[auto.id].status # "NONE"
          /\ call[auto.id].pc \notin {"create", "save", "pay"}
      BY <1>1 DEF MarkedIsRunning
    <3>2. OutGoesOn(auto.id) /\ CallGoesOn(auto.id)
      BY <1>2, <3>1
    <3>3. Blocks(auto.id)' => Blocks(auto.id) \/ call[auto.id].pc = "pay"
      BY <1>7, <3>2 DEF OutGoesOn
    <3> QED BY <3>1, <3>2, <3>3 DEF OutGoesOn, CallGoesOn
  <2> QED BY <1>1, <1>7, <2>1, <2>2 DEF MarkedIsRunning
<1>8. CASE DaemonCrash
  <2>1. auto'.pc = "off"
    BY <1>8 DEF DaemonCrash, AutoStopped
  <2> QED BY <1>6, <2>1 DEF MarkedIsRunning
<1>9. CASE RecoverPendingAutoSwaps
  <2>1. /\ auto'.pc = "idle" /\ auto.pc = "off"
        /\ running' = {id \in OutIds : /\ Pending(outRow[id]) /\ outRow[id].auto
                                       /\ outRow[id].status # "CONTRACT_EXPIRED"}
    BY <1>3, <1>9 DEF RecoverPendingAutoSwaps, GetPendingAutoSwapOuts
  <2>2. ASSUME NEW id \in OutIds, MarkedHolds(id)
        PROVE  id \in running'
    <3>1. /\ outRow[id].auto /\ Paid(id)
          /\ outServer[id].status \notin Over
      BY <2>2 DEF MarkedHolds, Blocks, Before, Early, Late, Spent, Paid, Over
    <3>2. outRow[id].status \notin {"UNSAVED", "DONE", "CONTRACT_EXPIRED"}
      BY <1>1, <3>1 DEF MarksAreLate, RowsKnowTheEnd
    <3> QED BY <2>1, <3>1, <3>2 DEF Pending
  <2> QED BY <1>4, <1>6, <2>1, <2>2 DEF MarkedIsRunning
<1>10. ASSUME NEW amount, NEW attempt, CallSwapOut(amount, attempt),
              auto.pc # "mark", \A id \in OutIds : ~MarkedHolds(id), UNCHANGED running
       PROVE  MarkedIsRunning'
  <2>1. \A id \in OutIds : ~MarkedHolds(id)'
    BY <1>4, <1>10
  <2>2. \/ auto' = AutoIdle
        \/ \E id \in OutIds :
             auto' = [pc |-> "call", attempt |-> attempt, amount |-> amount, id |-> id]
    BY <1>10, CallsAnUnusedSwap
  <2>3. \/ auto'.pc = "idle"
        \/ auto'.pc = "call" /\ auto'.id \in OutIds
    BY <1>3, <2>2
  <2> QED BY <2>1, <2>3 DEF MarkedIsRunning
<1>11. CASE RunAutoSwapCheck
  <2>1. /\ auto.pc = "idle" /\ running = {} /\ UNCHANGED running
        /\ \E amount : CallSwapOut(amount, 1)
    BY <1>11 DEF RunAutoSwapCheck
  <2>2. \A id \in OutIds : ~MarkedHolds(id)
    BY <1>1, <2>1 DEF MarkedIsRunning
  <2> QED BY <1>6, <1>10, <2>1, <2>2
<1>12. CASE AttemptFails
  <2>1. /\ auto.pc = "call" /\ UNCHANGED running
        /\ \/ auto' = AutoIdle
           \/ \E amount, attempt : CallSwapOut(amount, attempt)
    BY <1>12 DEF AttemptFails
  <2>2. \A id \in OutIds : ~MarkedHolds(id)
    BY <1>1, <2>1 DEF MarkedIsRunning
  <2>3. auto' = AutoIdle => MarkedIsRunning'
    BY <1>3, <1>4, <2>1, <2>2 DEF MarkedIsRunning
  <2> QED BY <1>6, <1>10, <2>1, <2>2, <2>3
<1>13. CASE AttemptSucceeds
  <2>1. /\ auto.pc = "call" /\ call[auto.id].pc = "ok"
        /\ running' = running \cup {auto.id}
        /\ auto'.pc = "mark" /\ auto'.id = auto.id
        /\ call' = NoCalls /\ UNCHANGED outServer
    BY <1>13 DEF AttemptSucceeds, AutoStopped
  <2>2. auto.id \in OutIds /\ \A id \in OutIds : ~MarkedHolds(id)
    BY <1>1, <2>1 DEF MarkedIsRunning
  <2>3. outServer'[auto.id].status # "NONE" /\ call'[auto.id].pc = "off"
    BY <1>1, <2>1, <2>2 DEF MarksAreLate, NoCalls
  <2>4. \A id \in OutIds : ~MarkedHolds(id)'
    BY <1>4, <2>1, <2>2
  <2> QED BY <1>6, <2>1, <2>2, <2>3, <2>4 DEF MarkedIsRunning
<1>14. CASE UpdateAutoSwap
  <2>1. auto.pc = "mark" /\ auto'.pc = "idle" /\ UNCHANGED running
    BY <1>3, <1>14 DEF UpdateAutoSwap
  <2>2. ASSUME NEW id \in OutIds, MarkedHolds(id)'
        PROVE  id \in running
    <3>1. Blocks(id) /\ (id # auto.id => MarkedHolds(id))
      BY <1>4, <2>2 DEF MarkedHolds
    <3> QED BY <1>1, <2>1, <3>1 DEF MarkedIsRunning
  <2> QED BY <1>6, <2>1, <2>2 DEF MarkedIsRunning
<1>15. ASSUME NEW id \in OutIds, WatcherEnds(id)
       PROVE  MarkedIsRunning'
  <2>1. /\ outServer[id].status \in {"DONE", "CONTRACT_EXPIRED"}
        /\ running' = running \ {id} /\ UNCHANGED <<auto, outVars>>
    BY <1>15 DEF WatcherEnds, GetSwapOut
  <2>2. ~Blocks(id)
    BY <1>1, <2>1 DEF Blocks, Before, Early, Late, ExpiryIsAFault
  <2>3. \A i \in OutIds : /\ Blocks(i)' <=> Blocks(i)
                          /\ MarkedHolds(i)' <=> MarkedHolds(i)
    BY <2>1, ScriptStays DEF Blocks, Before, Faulty, MarkedHolds, outVars
  <2> QED BY <1>1, <2>1, <2>2, <2>3 DEF MarkedIsRunning, MarkedHolds, outVars
<1>16. CASE \/ CheckWhileRunning \/ UserSwapsOut \/ DaemonStart \/ MonitorSwaps \/ UNCHANGED vars
            \/ MonitorOut \/ MonitorIn \/ UserSwapsIn \/ CreateSwapIn \/ SaveSwapIn
            \/ UserDeposits \/ UserDepositsAgain \/ RecoverReusedSwapAddress \/ InEnvironment
  <2>1. UNCHANGED <<auto, running>>
    BY <1>16, OutPollGoesOn, InPollGoesOn
       DEF CheckWhileRunning, UserSwapsOut, DaemonStart, MonitorSwaps, vars, UserSwapsIn,
           CreateSwapIn, SaveSwapIn, UserDeposits, UserDepositsAgain,
           RecoverReusedSwapAddress, InSame, InServerSame,
           InEnvironment, ServerSeesDeposit, ServerConfirmsDeposit, TimeoutPasses,
           ServerSeesTimeout, ServerExpiresByAge, InvoiceIsSettled, InvoiceFails, ServerSeesPaid,
           ServerClaims, ServerSeesInSpend, ServerFinishesIn, ServerForgetsIn,
           InSpendIsMined, autoVars
  <2> QED BY <1>6, <1>7, <2>1
<1>17. ASSUME NEW id \in OutIds, SwapOutCall(id) \/ OutEnvironment(id) \/ WatcherStarts(id)
       PROVE  MarkedIsRunning'
  <2>1. UNCHANGED <<auto, running>>
    BY <1>17, OutCallGoesOn, OutWorldGoesOn DEF WatcherStarts
  <2> QED BY <1>7, <2>1
<1> QED BY <1>6, <1>8, <1>9, <1>11, <1>12, <1>13, <1>14, <1>15, <1>16, <1>17
        DEF DaemonNext, AutoSwapStep, AutoSwapLoop

(* The invariant of the marks.                                             *)
LEMMA MarksHold == DaemonSpec => [](KeysInv /\ OutTruth /\ MarkInv)
<1>1. DaemonInit => MarkInv
  <2> SUFFICES ASSUME DaemonInit PROVE MarkInv
    OBVIOUS
  <2>1. /\ mon.pc = "sleep" /\ mon.queue = {} /\ auto.pc = "off"
        /\ \A id \in OutIds :
             /\ outRow[id].status = "UNSAVED" /\ outRow[id].auto = FALSE
             /\ outServer[id].status = "NONE" /\ payment[id].state = "none"
             /\ call[id].pc = "off"
    BY DEF DaemonInit, Asleep, Poll, AutoStopped, NoRow, NoAnswer, NoCalls
  <2>2. \A id \in OutIds : ~Blocks(id) /\ ~Paid(id)
    BY <2>1 DEF Blocks, Spent, Paid
  <2> QED BY <2>1, <2>2 DEF MarkInv, ExpiryIsAFault, RowsKnowTheEnd, MarksAreLate,
                            CopiesOfMarks, MarkedIsRunning, MarkedHolds
<1>2. KeysInv /\ OutTruth /\ ExpiryIsAFault /\ [DaemonNext]_vars => ExpiryIsAFault'
  BY StepGoesOn, ScriptStays DEF ExpiryIsAFault, OutGoesOn, Faulty
<1>3. KeysInv /\ KeysInv' /\ OutTruth /\ MarkInv /\ [DaemonNext]_vars => MarkInv'
  BY <1>2, CopiesStep, RowsKnowStep, MarksAreLateStep, MarkedIsRunningStep DEF MarkInv
<1> QED BY <1>1, <1>3, TruthHolds, PTL DEF DaemonSpec

(* For any number of auto swaps, at any balance, with every failure and at *)
(* every crash: while one that is marked holds liquidity, the loop calls   *)
(* for no other one that comes to be marked and hold some as well, unless  *)
(* the timeout of a contract passes and one of the two may have expired.   *)
THEOREM DaemonMarkedAutoSwapsOverlapOnlyAfterExpiry ==
  DaemonSpec => []MarkedAutoSwapsOverlapOnlyAfterExpiry
<1>1. MarkInv => MarkedAutoSwapsOverlapOnlyAfterExpiry
  <2>1. ASSUME NEW id \in OutIds, outRow[id].auto, HoldsLiquidity(id), ~MayHaveExpired(id)
        PROVE  MarkedHolds(id)
    BY <2>1 DEF HoldsLiquidity, MayHaveExpired, MarkedHolds, Blocks, Before, Early, Late, OutIs
  <2> QED BY <2>1 DEF MarkInv, MarkedAutoSwapsOverlapOnlyAfterExpiry
<1> QED BY <1>1, MarksHold, PTL

-----------------------------------------------------------------------------
(* What a set of payments takes from the balance: GetChannelLocalBalance's *)
(* sum.                                                                    *)
Paying(p, S) == MapThenSumSet(LAMBDA id : p[id].amount, S)

(* A family of subsets of a finite set has a minimal one: what holds of a  *)
(* set whenever it holds of its proper subsets holds of all.               *)
LEMMA MinimalExists ==
  ASSUME NEW S, IsFiniteSet(S), NEW B, B \subseteq SUBSET S, B # {}
  PROVE  \E T \in B : \A U \in B : U \subseteq T => U = T
<1> DEFINE N == {Cardinality(T) : T \in B}
<1>1. \A T \in B : IsFiniteSet(T) /\ Cardinality(T) \in Nat
  BY FS_Subset, FS_CardinalityType
<1>2. N \subseteq Nat /\ N # {}
  BY <1>1
<1>3. PICK n \in N : \A m \in N : n <= m
  <2> HIDE DEF N
  <2> QED BY <1>2, LeastExists
<1>4. PICK T \in B : Cardinality(T) = n
  BY <1>3
<1>5. ASSUME NEW U \in B, U \subseteq T
      PROVE  U = T
  <2>1. Cardinality(T) <= Cardinality(U)
    BY <1>3, <1>4
  <2>2. IsFiniteSet(T) /\ U \in SUBSET T /\ Cardinality(U) \in Nat /\ Cardinality(T) \in Nat
    BY <1>1, <1>5
  <2>3. Cardinality(U) <= Cardinality(T) /\ (Cardinality(T) = Cardinality(U) => T = U)
    BY <2>2, FS_Subset
  <2> QED BY <2>1, <2>2, <2>3
<1> QED BY <1>5

-----------------------------------------------------------------------------
(* The fold that MapThenSumSet is.                                         *)
Pick(s) == CHOOSE x \in s : TRUE
FoldStep(g, p, s) == IF s = {} THEN 0 ELSE p[Pick(s)].amount + g[s \ {Pick(s)}]
IsFold(g, p, S) == g = [s \in SUBSET S |-> FoldStep(g, p, s)]
TheFold(p, S) == CHOOSE g : IsFold(g, p, S)

LEMMA PickIsIn == ASSUME NEW s, s # {} PROVE Pick(s) \in s
BY DEF Pick

(* MapThenSumSet, with names for what it chooses.                          *)
LEMMA PayingIsFold == ASSUME NEW p, NEW S PROVE Paying(p, S) = TheFold(p, S)[S]
BY Zenon DEF Paying, MapThenSumSet, MapThenFoldSet, TheFold, IsFold, FoldStep, Pick

(* Subsets of a given size and smaller.                                    *)
UpTo(S, n) == {s \in SUBSET S : Cardinality(s) <= n}

(* The fold exists on the subsets up to any size.                          *)
FoldsUpTo(p, S, n) == \E g : g = [s \in UpTo(S, n) |-> FoldStep(g, p, s)]

LEMMA FoldUpTo ==
  ASSUME NEW S, IsFiniteSet(S), NEW p, NEW n \in Nat
  PROVE  FoldsUpTo(p, S, n)
<1> DEFINE Lacks == {m \in Nat : ~FoldsUpTo(p, S, m)}
<1>0. \A s \in SUBSET S : IsFiniteSet(s) /\ Cardinality(s) \in Nat
  BY FS_Subset, FS_CardinalityType
<1>1. SUFFICES ASSUME Lacks # {} PROVE FALSE
  OBVIOUS
<1>2. PICK m \in Lacks : \A k \in Lacks : m <= k
  <2>1. Lacks \subseteq Nat
    OBVIOUS
  <2> HIDE DEF Lacks
  <2> QED BY <1>1, <2>1, LeastExists
<1>3. CASE m = 0
  <2>1. \A s \in UpTo(S, 0) : s = {}
    BY <1>0, FS_EmptySet DEF UpTo
  <2> DEFINE g == [s \in UpTo(S, 0) |-> 0]
  <2>2. g = [s \in UpTo(S, 0) |-> FoldStep(g, p, s)]
    <3>1. \A s \in UpTo(S, 0) : FoldStep(g, p, s) = 0
      BY <2>1 DEF FoldStep
    <3> HIDE DEF UpTo
    <3> QED BY <3>1
  <2>3. FoldsUpTo(p, S, 0)
    BY <2>2 DEF FoldsUpTo
  <2> QED BY <1>2, <1>3, <2>3
<1>4. CASE m # 0
  <2> DEFINE k == m - 1
  <2>1. k \in Nat /\ k \notin Lacks
    BY <1>2, <1>4
  <2>2. PICK g : g = [s \in UpTo(S, k) |-> FoldStep(g, p, s)]
    BY <2>1 DEF FoldsUpTo
  <2> DEFINE h == [s \in UpTo(S, m) |-> FoldStep(g, p, s)]
  <2>3. UpTo(S, k) \subseteq UpTo(S, m)
    BY <1>0, <1>2, <2>1 DEF UpTo
  <2>4. \A s \in UpTo(S, k) : h[s] = g[s]
    <3> HIDE DEF k
    <3> QED BY <2>2, <2>3
  <2>5. ASSUME NEW s \in UpTo(S, m), s # {}
        PROVE  s \ {Pick(s)} \in UpTo(S, k)
    <3>1. Pick(s) \in s /\ IsFiniteSet(s) /\ s \in SUBSET S
      BY <1>0, <2>5, PickIsIn DEF UpTo
    <3>2. Cardinality(s \ {Pick(s)}) = Cardinality(s) - 1
      BY <3>1, FS_RemoveElement
    <3>3. Cardinality(s) <= m /\ Cardinality(s) \in Nat
      BY <1>0 DEF UpTo
    <3> QED BY <1>2, <3>1, <3>2, <3>3 DEF UpTo
  <2>6. \A s \in UpTo(S, m) : FoldStep(g, p, s) = FoldStep(h, p, s)
    <3> HIDE DEF k, h
    <3> QED BY <2>4, <2>5 DEF FoldStep
  <2>7. h = [s \in UpTo(S, m) |-> FoldStep(h, p, s)]
    BY <2>6
  <2>8. FoldsUpTo(p, S, m)
    <3> HIDE DEF h
    <3> QED BY <2>7 DEF FoldsUpTo
  <2> QED BY <1>2, <2>8
<1> QED BY <1>3, <1>4

(* ... so it exists, and TheFold is one.                                   *)
LEMMA FoldExists ==
  ASSUME NEW S, IsFiniteSet(S), NEW p
  PROVE  IsFold(TheFold(p, S), p, S)
<1>1. Cardinality(S) \in Nat
  BY FS_CardinalityType
<1>2. PICK g : g = [s \in UpTo(S, Cardinality(S)) |-> FoldStep(g, p, s)]
  <2>1. FoldsUpTo(p, S, Cardinality(S))
    BY <1>1, FoldUpTo
  <2> QED BY <2>1, Zenon DEF FoldsUpTo
<1>3. UpTo(S, Cardinality(S)) = SUBSET S
  BY FS_Subset DEF UpTo
<1>4. IsFold(g, p, S)
  BY <1>2, <1>3 DEF IsFold
<1> QED BY <1>4 DEF TheFold

(* Two folds agree where both are defined.                                 *)
LEMMA FoldsAgree ==
  ASSUME NEW S, IsFiniteSet(S), NEW p, NEW R, NEW g, NEW h,
         S \subseteq R, IsFold(g, p, S), IsFold(h, p, R)
  PROVE  g[S] = h[S]
<1> DEFINE Differ == {s \in SUBSET S : g[s] # h[s]}
<1>1. SUFFICES ASSUME Differ # {} PROVE FALSE
  OBVIOUS
<1>2. PICK s \in Differ : \A u \in Differ : u \subseteq s => u = s
  <2>1. Differ \subseteq SUBSET S
    OBVIOUS
  <2> HIDE DEF Differ
  <2> QED BY <1>1, <2>1, MinimalExists
<1>3. g[s] = FoldStep(g, p, s) /\ h[s] = FoldStep(h, p, s)
  BY <1>2 DEF IsFold
<1>4. CASE s = {}
  BY <1>2, <1>3, <1>4 DEF FoldStep
<1>5. CASE s # {}
  <2>1. Pick(s) \in s
    BY <1>5, PickIsIn
  <2>2. s \ {Pick(s)} \subseteq s /\ s \ {Pick(s)} # s
    BY <2>1
  <2>3. g[s \ {Pick(s)}] = h[s \ {Pick(s)}]
    BY <1>2, <2>2
  <2> QED BY <1>2, <1>3, <1>5, <2>3 DEF FoldStep
<1> QED BY <1>4, <1>5

(* What the sum of a set is, from those of smaller sets.                   *)
LEMMA PayingUnfolds ==
  ASSUME NEW S, IsFiniteSet(S), NEW p
  PROVE  Paying(p, S) = IF S = {} THEN 0 ELSE p[Pick(S)].amount + Paying(p, S \ {Pick(S)})
<1> DEFINE T == S \ {Pick(S)}
<1>1. IsFold(TheFold(p, S), p, S)
  BY FoldExists
<1>2. TheFold(p, S)[S] = FoldStep(TheFold(p, S), p, S)
  BY <1>1 DEF IsFold
<1>3. T \subseteq S /\ IsFiniteSet(T)
  BY FS_Subset
<1>4. IsFold(TheFold(p, T), p, T)
  BY <1>3, FoldExists
<1>5. TheFold(p, T)[T] = TheFold(p, S)[T]
  BY <1>1, <1>3, <1>4, FoldsAgree
<1>6. Paying(p, S) = TheFold(p, S)[S] /\ Paying(p, T) = TheFold(p, T)[T]
  BY PayingIsFold
<1> QED BY <1>2, <1>5, <1>6 DEF FoldStep

LEMMA PayingNone == ASSUME NEW p PROVE Paying(p, {}) = 0
BY FS_EmptySet, PayingUnfolds

(* The sum of natural numbers is one.                                      *)
LEMMA PayingType ==
  ASSUME NEW S, IsFiniteSet(S), NEW p, \A x \in S : p[x].amount \in Nat
  PROVE  Paying(p, S) \in Nat
<1> DEFINE Bad == {T \in SUBSET S : Paying(p, T) \notin Nat}
<1>1. SUFFICES ASSUME Bad # {} PROVE FALSE
  OBVIOUS
<1>2. PICK T \in Bad : \A U \in Bad : U \subseteq T => U = T
  <2>1. Bad \subseteq SUBSET S
    OBVIOUS
  <2> HIDE DEF Bad
  <2> QED BY <1>1, <2>1, MinimalExists
<1>3. T # {}
  <2>1. Paying(p, {}) = 0
    BY PayingNone
  <2>2. Paying(p, T) \notin Nat
    BY <1>2
  <2> QED BY <2>1, <2>2
<1>4. Pick(T) \in T /\ Pick(T) \in S
  BY <1>2, <1>3, PickIsIn
<1>5. Paying(p, T \ {Pick(T)}) \in Nat
  BY <1>2, <1>4
<1>6. Paying(p, T) = p[Pick(T)].amount + Paying(p, T \ {Pick(T)})
  BY <1>2, <1>3, FS_Subset, PayingUnfolds
<1> QED BY <1>2, <1>4, <1>5, <1>6

(* A member counts once, whichever the fold takes first.                   *)
LEMMA PayingSplits ==
  ASSUME NEW S, IsFiniteSet(S), NEW p, \A x \in S : p[x].amount \in Nat, NEW x \in S
  PROVE  Paying(p, S) = p[x].amount + Paying(p, S \ {x})
<1> DEFINE Bad == {T \in SUBSET S : \E y \in T : Paying(p, T) # p[y].amount + Paying(p, T \ {y})}
<1>1. SUFFICES ASSUME Bad # {} PROVE FALSE
  OBVIOUS
<1>2. PICK T \in Bad : \A U \in Bad : U \subseteq T => U = T
  <2>1. Bad \subseteq SUBSET S
    OBVIOUS
  <2> HIDE DEF Bad
  <2> QED BY <1>1, <2>1, MinimalExists
<1>3. PICK y \in T : Paying(p, T) # p[y].amount + Paying(p, T \ {y})
  BY <1>2
<1> DEFINE z == Pick(T)
<1>4. z \in T
  BY <1>3, PickIsIn
<1>5. Paying(p, T) = p[z].amount + Paying(p, T \ {z})
  BY <1>2, <1>3, FS_Subset, PayingUnfolds
<1> HIDE DEF z
<1>6. y # z
  BY <1>3, <1>5
<1>7. Paying(p, T \ {z}) = p[y].amount + Paying(p, (T \ {z}) \ {y})
  <2>1. T \ {z} \notin Bad
    BY <1>2, <1>4
  <2> QED BY <1>2, <1>3, <1>6, <2>1
<1>8. Paying(p, T \ {y}) = p[z].amount + Paying(p, (T \ {y}) \ {z})
  <2>1. T \ {y} \notin Bad
    BY <1>2, <1>3
  <2> QED BY <1>2, <1>4, <1>6, <2>1
<1>9. (T \ {z}) \ {y} = (T \ {y}) \ {z} /\ (T \ {z}) \ {y} \in SUBSET S
  BY <1>2
<1>10. Paying(p, (T \ {z}) \ {y}) \in Nat /\ p[y].amount \in Nat /\ p[z].amount \in Nat
  BY <1>2, <1>3, <1>4, <1>9, FS_Subset, PayingType
<1> DEFINE rest == Paying(p, (T \ {z}) \ {y})
<1>11. Paying(p, T) = p[z].amount + (p[y].amount + rest)
  BY <1>5, <1>7
<1>12. p[y].amount + Paying(p, T \ {y}) = p[y].amount + (p[z].amount + rest)
  BY <1>8, <1>9
<1>13. p[z].amount + (p[y].amount + rest) = p[y].amount + (p[z].amount + rest)
  <2> HIDE DEF rest
  <2>1. rest \in Nat
    BY <1>10 DEF rest
  <2> QED BY <1>10, <2>1
<1> QED BY <1>3, <1>11, <1>12, <1>13

(* The sum is of the members' values, whatever the rest of the function.   *)
LEMMA PayingSame ==
  ASSUME NEW S, IsFiniteSet(S), NEW p, NEW q, \A x \in S : p[x].amount = q[x].amount
  PROVE  Paying(p, S) = Paying(q, S)
<1> DEFINE Bad == {T \in SUBSET S : Paying(p, T) # Paying(q, T)}
<1>1. SUFFICES ASSUME Bad # {} PROVE FALSE
  OBVIOUS
<1>2. PICK T \in Bad : \A U \in Bad : U \subseteq T => U = T
  <2>1. Bad \subseteq SUBSET S
    OBVIOUS
  <2> HIDE DEF Bad
  <2> QED BY <1>1, <2>1, MinimalExists
<1>3. T # {}
  BY <1>2, PayingNone
<1>4. Pick(T) \in T /\ Pick(T) \in S
  BY <1>2, <1>3, PickIsIn
<1>5. Paying(p, T \ {Pick(T)}) = Paying(q, T \ {Pick(T)})
  BY <1>2, <1>4
<1>6. /\ Paying(p, T) = p[Pick(T)].amount + Paying(p, T \ {Pick(T)})
      /\ Paying(q, T) = q[Pick(T)].amount + Paying(q, T \ {Pick(T)})
  BY <1>2, <1>3, FS_Subset, PayingUnfolds
<1> QED BY <1>2, <1>4, <1>5, <1>6

(* More members take more.                                                 *)
LEMMA PayingGrows ==
  ASSUME NEW S, IsFiniteSet(S), NEW p, \A x \in S : p[x].amount \in Nat, NEW T \in SUBSET S
  PROVE  Paying(p, T) <= Paying(p, S)
<1> DEFINE Bad == {U \in SUBSET S : T \subseteq U /\ ~(Paying(p, T) <= Paying(p, U))}
<1>0. \A U \in SUBSET S : IsFiniteSet(U) /\ Paying(p, U) \in Nat
  BY FS_Subset, PayingType
<1>1. SUFFICES ASSUME Bad # {} PROVE FALSE
  OBVIOUS
<1>2. PICK U \in Bad : \A V \in Bad : V \subseteq U => V = U
  <2>1. Bad \subseteq SUBSET S
    OBVIOUS
  <2> HIDE DEF Bad
  <2> QED BY <1>1, <2>1, MinimalExists
<1>3. U # T
  BY <1>0, <1>2
<1>4. PICK x \in U : x \notin T
  BY <1>2, <1>3
<1>5. Paying(p, T) <= Paying(p, U \ {x})
  BY <1>2, <1>4
<1>6. Paying(p, U) = p[x].amount + Paying(p, U \ {x})
  BY <1>0, <1>2, PayingSplits
<1> QED BY <1>0, <1>2, <1>4, <1>5, <1>6

(* Fewer payments of the same amounts take no more.                        *)
LEMMA PayingShrinks ==
  ASSUME NEW S \in SUBSET OutIds, NEW T \in SUBSET S, NEW p, NEW q,
         \A id \in S : p[id].amount \in Nat,
         \A id \in T : q[id].amount = p[id].amount
  PROVE  /\ Paying(p, S) \in Nat /\ Paying(q, T) \in Nat
         /\ Paying(q, T) <= Paying(p, S)
<1>1. IsFiniteSet(S) /\ IsFiniteSet(T)
  <2>1. IsFiniteSet(OutIds)
    BY DaemonAssumption, FS_Interval DEF OutIds
  <2> QED BY <2>1, FS_Subset
<1>2. Paying(q, T) = Paying(p, T)
  BY <1>1, PayingSame
<1>3. Paying(p, S) \in Nat /\ Paying(p, T) \in Nat
  BY <1>1, PayingType
<1>4. Paying(p, T) <= Paying(p, S)
  BY <1>1, PayingGrows
<1> QED BY <1>2, <1>3, <1>4

(* One more payment takes its amount.                                      *)
LEMMA PayingOneMore ==
  ASSUME NEW S \in SUBSET OutIds, NEW x \in OutIds, NEW p, NEW q,
         NEW T \in SUBSET (S \cup {x}),
         \A id \in S : p[id].amount \in Nat,
         \A id \in T \ {x} : q[id].amount = p[id].amount,
         x \in T => q[x].amount \in Nat,
         NEW most \in Nat, x \in T => q[x].amount <= most
  PROVE  Paying(q, T) \in Nat /\ Paying(q, T) <= Paying(p, S) + most
<1>1. /\ Paying(p, S) \in Nat /\ Paying(q, T \ {x}) \in Nat
      /\ Paying(q, T \ {x}) <= Paying(p, S)
  <2>1. T \ {x} \in SUBSET S
    OBVIOUS
  <2> QED BY <2>1, PayingShrinks
<1>2. CASE x \in T
  <2>1. \A id \in T : q[id].amount \in Nat
    BY <1>2
  <2>2. IsFiniteSet(T)
    <3>1. IsFiniteSet(OutIds) /\ T \subseteq OutIds
      BY DaemonAssumption, FS_Interval DEF OutIds
    <3> QED BY <3>1, FS_Subset
  <2>3. Paying(q, T) = q[x].amount + Paying(q, T \ {x})
    BY <1>2, <2>1, <2>2, PayingSplits
  <2>4. q[x].amount \in Nat /\ q[x].amount <= most
    BY <1>2
  <2> DEFINE rest == Paying(q, T \ {x})
             sum == Paying(p, S)
  <2>5. rest \in Nat /\ sum \in Nat /\ rest <= sum /\ Paying(q, T) = q[x].amount + rest
    BY <1>1, <2>3
  <2> HIDE DEF rest
  <2>6. Paying(q, T) \in Nat /\ Paying(q, T) <= sum + most
    <3> HIDE DEF sum
    <3> QED BY <2>4, <2>5
  <2> QED BY <2>6
<1>3. CASE x \notin T
  <2>1. T \ {x} = T
    BY <1>3
  <2>2. /\ Paying(p, S) \in Nat /\ Paying(q, T) \in Nat
        /\ Paying(q, T) <= Paying(p, S)
    BY <1>1, <2>1
  <2> QED BY <2>2
<1> QED BY <1>2, <1>3

-----------------------------------------------------------------------------
(* The auto swaps' share of the balance.                                   *)
SpentIds == {id \in OutIds : Spent(payment[id])}

(* GetChannelLocalBalance in these terms.                                  *)
LEMMA BalanceIs == GetChannelLocalBalance = script.balance - Paying(payment, SpentIds)
BY Zenon DEF GetChannelLocalBalance, Paying, SpentIds

(* The most that the routing fee of an auto swap can be.                   *)
HighestFee == FeeLimitSat(MaxSwapSize)

(* The payments that are marked, or about to be, and what a call for one   *)
(* more may take.                                                          *)
Counted == {id \in SpentIds : outRow[id].auto \/ (auto.pc = "mark" /\ id = auto.id)}

Reserved == IF auto.pc = "call" THEN auto.amount + HighestFee ELSE 0

AmountsOK ==
    /\ auto.amount \in Nat /\ auto.amount <= MaxSwapSize
    /\ \A id \in OutIds : payment[id].amount \in Nat /\ call[id].amount \in Nat

(* The server goes on, and settles, only while it holds the payment.       *)
PaymentIsHeld ==
    \A id \in OutIds : outServer[id].status \in Active => payment[id].state = "held"

(* The call is for the amount that was reserved, and so is its payment,    *)
(* with its fee.                                                           *)
CallIsReserved ==
    script.user = "auto" /\ auto.pc = "call" =>
      /\ call[auto.id].amount = auto.amount
      /\ Spent(payment[auto.id]) => payment[auto.id].amount <= auto.amount + HighestFee

TargetIsKept ==
    script.user = "auto" /\ script.balance >= TargetBalance =>
      Paying(payment, Counted) + Reserved <= script.balance - TargetBalance + HighestFee

(* LND pays with what it has.                                              *)
NothingOverdrawn == Paying(payment, SpentIds) <= script.balance

BalanceInv ==
    AmountsOK /\ PaymentIsHeld /\ CallIsReserved /\ TargetIsKept /\ NothingOverdrawn

(* What a step does to a payment: it goes on, or the call that is to make  *)
(* it starts it.                                                           *)
PaymentGoesOn(id) ==
    payment'[id].amount = payment[id].amount /\ (Spent(payment'[id]) => Spent(payment[id]))

PaymentStarts(id) ==
    /\ call[id].pc = "pay" /\ ~Spent(payment[id]) /\ outServer' = outServer
    /\ \E fee \in 0 .. FeeLimitSat(call[id].amount) :
         payment'[id].amount = call[id].amount + fee
    /\ Spent(payment'[id]) => payment'[id].amount <= GetChannelLocalBalance
    /\ \A i \in OutIds \ {id} : payment'[i] = payment[i]
    /\ UNCHANGED auto

(* A step moves each payment on, or starts the one of a call.              *)
LEMMA PaymentsGoOn ==
  ASSUME KeysInv, OutTruth, PaymentIsHeld, [DaemonNext]_vars
  PROVE  \/ \A id \in OutIds : PaymentGoesOn(id)
         \/ \E id \in OutIds : PaymentStarts(id)
<1>1. ShapeOK /\ \A id \in OutIds : OutOK(id)
  BY DEF KeysInv, OutTruth
<1>2. UNCHANGED payment => \A id \in OutIds : PaymentGoesOn(id)
  BY DEF PaymentGoesOn
<1>3. ASSUME NEW id \in OutIds, SwapOutCall(id)
      PROVE  \/ \A i \in OutIds : PaymentGoesOn(i)
             \/ PaymentStarts(id)
  <2>1. UNCHANGED payment \/ (PayInvoice(id) /\ SendPaymentV2(id))
    BY <1>3 DEF SwapOutCall, CreateSwapOut, SaveSwapOut, PayInvoice
  <2>2. CASE PayInvoice(id) /\ SendPaymentV2(id)
    <3>1. call[id].pc = "pay" /\ UNCHANGED <<outServer, auto>>
      BY <2>2 DEF PayInvoice, autoVars
    <3>5. PICK fee \in 0 .. FeeLimitSat(call[id].amount) :
            payment' = [payment EXCEPT ![id] =
              [ state |-> IF call[id].amount + fee <= GetChannelLocalBalance
                            THEN "inflight" ELSE "failed",
                amount |-> call[id].amount + fee ]]
      BY <2>2 DEF SendPaymentV2
    <3>2. ~Spent(payment[id])
      BY <1>1, <3>1 DEF OutOK, Spent
    <3>3. /\ payment'[id].amount = call[id].amount + fee
          /\ Spent(payment'[id]) => call[id].amount + fee <= GetChannelLocalBalance
          /\ \A i \in OutIds \ {id} : payment'[i] = payment[i]
      BY <1>1, <3>5 DEF ShapeOK, Spent
    <3>4. PaymentStarts(id)
      BY <3>1, <3>2, <3>3 DEF PaymentStarts
    <3> QED BY <3>4
  <2> QED BY <1>2, <2>1, <2>2
<1>4. ASSUME NEW id \in OutIds, OutEnvironment(id), NEW i \in OutIds
      PROVE  PaymentGoesOn(i)
  <2>1. CASE UNCHANGED payment
    BY <2>1 DEF PaymentGoesOn
  <2>2. CASE ServerCancels(id) \/ ServerFinishes(id) \/ PaymentAdvances(id)
    <3>1. ServerFinishes(id) \/ PaymentAdvances(id) => Spent(payment[id])
      BY DEF ServerFinishes, PaymentAdvances, OutIs, PaymentIsHeld, Active, Spent
    <3>2. /\ i # id => payment'[i] = payment[i]
          /\ payment'[id].amount = payment[id].amount
          /\ ServerCancels(id) => payment'[id].state \in {"none", "failed"}
      <4>1. CASE ServerCancels(id)
        BY <1>1, <4>1 DEF ServerCancels, ShapeOK
      <4>2. CASE ServerFinishes(id) /\ ~ServerCancels(id)
        BY <1>1, <4>2 DEF ServerFinishes, ShapeOK
      <4>3. CASE PaymentAdvances(id) /\ ~ServerCancels(id)
        BY <1>1, <4>3 DEF PaymentAdvances, ShapeOK
      <4> QED BY <2>2, <4>1, <4>2, <4>3
    <3>3. Spent(payment'[id]) => Spent(payment[id])
      BY <2>2, <3>1, <3>2 DEF Spent
    <3> QED BY <3>2, <3>3 DEF PaymentGoesOn
  <2> QED BY <1>4, <2>1, <2>2
          DEF OutEnvironment, ServerSeesPayment, ServerFunds, ServerCancels, ServerExpires,
              ServerRefunds, ServerSeesSpend, ServerFinishes, ServerForgetsOut,
              PaymentAdvances, OutSpendIsMined
<1>5. CASE AutoSwapStep
  BY <1>2, <1>5, AutoSwapGoesOn
<1>6. CASE MonitorOut \/ MonitorIn
  BY <1>2, <1>6, OutPollGoesOn, InPollGoesOn DEF outVars
<1> QED BY <1>2, <1>3, <1>4, <1>5, <1>6
        DEF DaemonNext, UserSwapsOut, DaemonCrash, UserSwapsIn, CreateSwapIn, SaveSwapIn,
            UserDeposits, UserDepositsAgain, RecoverReusedSwapAddress, InSame, InServerSame,
            InEnvironment, ServerSeesDeposit, ServerConfirmsDeposit, TimeoutPasses,
            ServerSeesTimeout, ServerExpiresByAge, InvoiceIsSettled, InvoiceFails, ServerSeesPaid,
            ServerClaims, ServerSeesInSpend, ServerFinishesIn, ServerForgetsIn,
            InSpendIsMined, DaemonStart, MonitorSwaps, vars, outVars

(* A higher amount has no lower limit for its routing fee.                 *)
LEMMA FeeLimitGrows ==
  ASSUME NEW low \in Nat, NEW high \in Nat, low <= high
  PROVE  /\ FeeLimitSat(low) \in Nat /\ FeeLimitSat(high) \in Nat
         /\ FeeLimitSat(low) <= FeeLimitSat(high)
<1> DEFINE rest == high - low
           l == low * RoutingFeeLimitPPM
           r == rest * RoutingFeeLimitPPM
           h == high * RoutingFeeLimitPPM
<1>1. RoutingFeeLimitPPM \in Nat /\ rest \in Nat /\ high = low + rest
  BY RoutingFeeAssumption
<1>2. l \in Nat /\ r \in Nat /\ h \in Nat /\ h = l + r
  <2> HIDE DEF rest
  <2> QED BY <1>1
<1>3. l \div 1000000 \in Nat /\ h \div 1000000 \in Nat /\ l \div 1000000 <= h \div 1000000
  <2> HIDE DEF l, r, h
  <2> QED BY <1>2
<1> QED BY <1>3 DEF FeeLimitSat

LEMMA HighestFeeIsHighest ==
  /\ HighestFee \in Nat
  /\ \A amount \in Nat : /\ FeeLimitSat(amount) \in Nat
                         /\ amount <= MaxSwapSize => FeeLimitSat(amount) <= HighestFee
<1>1. MaxSwapSize \in Nat
  BY AutoSwapAssumption DEF Validate
<1> QED BY <1>1, FeeLimitGrows DEF HighestFee

(* What the loop asks for is some of the excess, ...                       *)
LEMMA SwapAmountIs ==
  ASSUME NEW excess \in Nat
  PROVE  /\ SwapAmount(excess) \in Nat /\ SwapAmount(excess) <= excess
         /\ SwapAmount(excess) <= MaxSwapSize
<1> DEFINE S == {excess, MaxSwapSize}
<1>1. S \subseteq Nat /\ S # {}
  BY AutoSwapAssumption DEF Validate
<1>2. \E x \in S : \A y \in S : x <= y
  <2> HIDE DEF S
  <2> QED BY <1>1, LeastExists
<1>3. SwapAmount(excess) \in S /\ \A y \in S : SwapAmount(excess) <= y
  BY <1>2 DEF SwapAmount, Min
<1> QED BY <1>1, <1>3

(* ... or less, after a failure.                                           *)
LEMMA SmallerAmount ==
  ASSUME NEW amount \in Nat
  PROVE  amount \div BackoffDivisor \in Nat /\ amount \div BackoffDivisor <= amount
BY AutoSwapAssumption DEF Validate

(* What is left is a number: what counts is part of what was spent.        *)
LEMMA BalanceIsInt ==
  ASSUME KeysInv, AmountsOK
  PROVE  /\ Paying(payment, SpentIds) \in Nat /\ Paying(payment, Counted) \in Nat
         /\ Paying(payment, Counted) <= Paying(payment, SpentIds)
         /\ script.balance \in Nat /\ GetChannelLocalBalance \in Int
<1>1. SpentIds \in SUBSET OutIds /\ Counted \in SUBSET SpentIds
  BY DEF SpentIds, Counted
<1>2. /\ Paying(payment, SpentIds) \in Nat /\ Paying(payment, Counted) \in Nat
      /\ Paying(payment, Counted) <= Paying(payment, SpentIds)
  BY <1>1, PayingShrinks DEF AmountsOK
<1>3. script.balance \in Nat
  BY DaemonAssumption DEF KeysInv, ShapeOK, ScriptKinds
<1> QED BY <1>2, <1>3, BalanceIs

(* The calls of the loop.                                                  *)
AutoCalls ==
    /\ UNCHANGED <<outRow, outServer, payment>>
    /\ auto'.pc = "call" /\ auto'.id \in OutIds
    /\ auto'.amount \in Nat /\ auto'.amount <= MaxSwapSize
    /\ outServer[auto'.id].status = "NONE"
    /\ \A i \in OutIds : call'[i].amount = IF i = auto'.id THEN auto'.amount ELSE 0
    /\ \/ auto.pc = "call" /\ auto'.amount <= auto.amount
       \/ auto.pc = "idle" /\ auto'.amount <= GetChannelLocalBalance - TargetBalance

AutoStops ==
    /\ auto'.pc \in {"off", "idle"} /\ auto'.amount = 0
    /\ \A i \in OutIds : call'[i].amount \in {0, call[i].amount}

AutoWaits ==
    /\ UNCHANGED auto
    /\ \A i \in OutIds :
         \/ call'[i].amount = call[i].amount
         \/ script.user = "out" /\ call'[i].amount = 1

(* The loop makes a call, ends one, waits, or takes its success.           *)
LEMMA CallsGoOn ==
  ASSUME KeysInv, AmountsOK, [DaemonNext]_vars
  PROVE  AutoWaits \/ AutoStops \/ AutoCalls \/ AttemptSucceeds
<1>1. ShapeOK
  BY DEF KeysInv
<1>2. /\ AutoIdle.pc = "idle" /\ AutoIdle.amount = 0
      /\ AutoStopped.pc = "off" /\ AutoStopped.amount = 0
      /\ \A i \in OutIds : NoCalls[i].amount = 0
  BY DEF AutoIdle, AutoStopped, NoCalls
<1>3. UNCHANGED <<auto, call>> => AutoWaits
  BY DEF AutoWaits
<1>4. ASSUME NEW amount \in Nat, NEW attempt, CallSwapOut(amount, attempt),
             amount <= MaxSwapSize, UNCHANGED <<outRow, outServer, payment>>,
             \/ auto.pc = "call" /\ amount <= auto.amount
             \/ auto.pc = "idle" /\ amount <= GetChannelLocalBalance - TargetBalance
      PROVE  AutoStops \/ AutoCalls
  <2>1. CASE auto' = AutoIdle /\ call' = NoCalls
    BY <1>2, <2>1 DEF AutoStops
  <2>2. CASE \E id \in OutIds :
               /\ outServer[id].status = "NONE"
               /\ auto' = [pc |-> "call", attempt |-> attempt, amount |-> amount, id |-> id]
               /\ call' = [NoCalls EXCEPT ![id] = [pc |-> "create", amount |-> amount]]
    <3>1. PICK id \in OutIds :
               /\ outServer[id].status = "NONE"
               /\ auto' = [pc |-> "call", attempt |-> attempt, amount |-> amount, id |-> id]
               /\ call' = [NoCalls EXCEPT ![id] = [pc |-> "create", amount |-> amount]]
      BY <2>2
    <3>2. \A i \in OutIds : call'[i].amount = IF i = id THEN amount ELSE 0
      BY <3>1 DEF NoCalls
    <3>3. auto'.pc = "call" /\ auto'.id = id /\ auto'.amount = amount
      BY <3>1
    <3> QED BY <1>4, <3>1, <3>2, <3>3 DEF AutoCalls
  <2> QED BY <1>4, <2>1, <2>2, CallsAnUnusedSwap
<1>5. CASE RunAutoSwapCheck
  <2> DEFINE excess == GetChannelLocalBalance - TargetBalance
  <2>1. excess \in Nat
    BY <1>5, BalanceIsInt, AutoSwapAssumption DEF RunAutoSwapCheck, Validate
  <2>2. /\ auto.pc = "idle" /\ CallSwapOut(SwapAmount(excess), 1)
        /\ UNCHANGED <<outRow, outServer, payment>>
    BY <1>5 DEF RunAutoSwapCheck
  <2>3. /\ SwapAmount(excess) \in Nat /\ SwapAmount(excess) <= excess
        /\ SwapAmount(excess) <= MaxSwapSize
    BY <2>1, SwapAmountIs
  <2> QED BY <1>4, <2>2, <2>3
<1>6. CASE AttemptFails
  <2> DEFINE amount == auto.amount \div BackoffDivisor
  <2>1. /\ auto.pc = "call" /\ UNCHANGED <<outRow, outServer, payment>>
        /\ \/ auto' = AutoIdle /\ call' = NoCalls
           \/ CallSwapOut(amount, auto.attempt + 1)
    BY <1>6 DEF AttemptFails
  <2>2. amount \in Nat /\ amount <= auto.amount /\ amount <= MaxSwapSize
    <3>1. auto.amount \in Nat /\ auto.amount <= MaxSwapSize /\ MaxSwapSize \in Nat
      BY AutoSwapAssumption DEF AmountsOK, Validate
    <3>2. amount \in Nat /\ amount <= auto.amount
      BY <3>1, SmallerAmount
    <3> HIDE DEF amount
    <3> QED BY <3>1, <3>2
  <2> HIDE DEF amount
  <2>3. auto' = AutoIdle /\ call' = NoCalls => AutoStops
    BY <1>2 DEF AutoStops
  <2> QED BY <1>4, <2>1, <2>2, <2>3
<1>7. CASE RecoverPendingAutoSwaps \/ UpdateAutoSwap
  <2>1. auto' = AutoIdle /\ UNCHANGED call
    BY <1>7 DEF RecoverPendingAutoSwaps, UpdateAutoSwap, outVars
  <2> QED BY <1>2, <2>1 DEF AutoStops
<1>8. CASE DaemonCrash
  <2>1. auto' = AutoStopped /\ call' = NoCalls
    BY <1>8 DEF DaemonCrash
  <2> QED BY <1>2, <2>1 DEF AutoStops
<1>9. CASE UserSwapsOut
  <2>1. /\ script.user = "out" /\ UNCHANGED auto
        /\ call' = [call EXCEPT ![1] = [pc |-> "create", amount |-> 1]]
    BY <1>9 DEF UserSwapsOut, autoVars
  <2>2. \A i \in OutIds : call'[i].amount = call[i].amount \/ call'[i].amount = 1
    BY <1>1, <2>1 DEF ShapeOK
  <2> QED BY <2>1, <2>2 DEF AutoWaits
<1>10. ASSUME NEW id \in OutIds, SwapOutCall(id)
       PROVE  AutoWaits
  <2>1. UNCHANGED auto /\ \E pc : SetCall(id, pc)
    BY <1>10 DEF SwapOutCall, CreateSwapOut, SaveSwapOut, PayInvoice, autoVars
  <2>2. \A i \in OutIds : call'[i].amount = call[i].amount
    BY <1>1, <2>1 DEF ShapeOK, SetCall
  <2> QED BY <2>1, <2>2 DEF AutoWaits
<1>11. ASSUME NEW id \in OutIds, OutEnvironment(id) \/ WatcherStarts(id) \/ WatcherEnds(id)
       PROVE  AutoWaits
  BY <1>3, <1>11
     DEF OutEnvironment, OutSame,
         ServerSeesPayment, ServerFunds, ServerCancels, ServerExpires, ServerRefunds,
         ServerSeesSpend, ServerFinishes, ServerForgetsOut, PaymentAdvances,
         OutSpendIsMined, WatcherStarts, WatcherEnds, autoVars, outVars
<1>12. CASE MonitorOut \/ MonitorIn
  <2>1. UNCHANGED <<auto, call>>
    BY <1>12, OutPollGoesOn, InPollGoesOn DEF outVars, autoVars
  <2> QED BY <1>3, <2>1
<1>13. CASE \/ CheckWhileRunning \/ DaemonStart \/ MonitorSwaps \/ UNCHANGED vars
            \/ UserSwapsIn \/ CreateSwapIn \/ SaveSwapIn
            \/ UserDeposits \/ UserDepositsAgain \/ RecoverReusedSwapAddress \/ InEnvironment
  <2>1. UNCHANGED <<auto, call>>
    BY <1>13
       DEF CheckWhileRunning, DaemonStart, MonitorSwaps, vars, UserSwapsIn,
           CreateSwapIn, SaveSwapIn, UserDeposits, UserDepositsAgain,
           RecoverReusedSwapAddress, InSame, InServerSame,
           InEnvironment, ServerSeesDeposit, ServerConfirmsDeposit, TimeoutPasses,
           ServerSeesTimeout, ServerExpiresByAge, InvoiceIsSettled, InvoiceFails, ServerSeesPaid,
           ServerClaims, ServerSeesInSpend, ServerFinishesIn, ServerForgetsIn,
           InSpendIsMined, autoVars, outVars
  <2> QED BY <1>3, <2>1
<1> QED BY <1>5, <1>6, <1>7, <1>8, <1>9, <1>10, <1>11, <1>12, <1>13
        DEF DaemonNext, AutoSwapStep, AutoSwapLoop

(* The parts of BalanceInv, one by one: the amounts, ...                   *)
LEMMA AmountsStep ==
  ASSUME KeysInv, OutTruth, PaymentIsHeld, AmountsOK, [DaemonNext]_vars
  PROVE  AmountsOK'
<1>1. /\ auto'.amount \in Nat /\ auto'.amount <= MaxSwapSize
      /\ \A id \in OutIds : call'[id].amount \in Nat
  <2>3. MaxSwapSize \in Nat
    BY AutoSwapAssumption DEF Validate
  <2>1. CASE AttemptSucceeds
    BY <2>1, <2>3 DEF AttemptSucceeds, AutoStopped, NoCalls
  <2>2. CASE AutoWaits \/ AutoStops \/ AutoCalls
    BY <2>2, <2>3 DEF AutoWaits, AutoStops, AutoCalls, AmountsOK
  <2> QED BY <2>1, <2>2, CallsGoOn
<1>2. \A id \in OutIds : payment'[id].amount \in Nat
  <2>1. ASSUME NEW id \in OutIds, PaymentStarts(id)
        PROVE  \A i \in OutIds : payment'[i].amount \in Nat
    <3>1. call[id].amount \in Nat /\ FeeLimitSat(call[id].amount) \in Nat
      BY HighestFeeIsHighest DEF AmountsOK
    <3>2. payment'[id].amount \in Nat
      BY <2>1, <3>1 DEF PaymentStarts
    <3> QED BY <2>1, <3>2 DEF PaymentStarts, AmountsOK
  <2> QED BY <2>1, PaymentsGoOn DEF PaymentGoesOn, AmountsOK
<1> QED BY <1>1, <1>2 DEF AmountsOK

(* ... the payment the server goes on for, ...                             *)
LEMMA PaymentIsHeldStep ==
  ASSUME KeysInv, OutTruth, PaymentIsHeld, [DaemonNext]_vars
  PROVE  PaymentIsHeld'
<1>1. ShapeOK /\ \A id \in OutIds : OutOK(id)
  BY DEF KeysInv, OutTruth
<1>2. CASE UNCHANGED <<outServer, payment>>
  BY <1>2 DEF PaymentIsHeld
<1>3. ASSUME NEW id \in OutIds, SwapOutCall(id)
      PROVE  PaymentIsHeld'
  <2>1. CASE SaveSwapOut(id)
    BY <1>2, <2>1 DEF SaveSwapOut
  <2>2. CASE CreateSwapOut(id)
    <3>1. /\ UNCHANGED payment
          /\ \A i \in OutIds : outServer'[i] \in {outServer[i], Created}
      BY <1>1, <2>2 DEF CreateSwapOut, ShapeOK
    <3>2. Created.status \notin Active
      BY DEF Created, NoAnswer, Active
    <3> QED BY <3>1, <3>2 DEF PaymentIsHeld
  <2>3. CASE PayInvoice(id)
    <3>1. /\ UNCHANGED outServer /\ call[id].pc = "pay"
          /\ \A i \in OutIds \ {id} : payment'[i] = payment[i]
      BY <1>1, <2>3 DEF PayInvoice, SendPaymentV2, ShapeOK
    <3>2. outServer[id].status \notin Active
      BY <1>1, <3>1 DEF OutOK, PaymentIsHeld
    <3> QED BY <3>1, <3>2 DEF PaymentIsHeld
  <2> QED BY <1>3, <2>1, <2>2, <2>3 DEF SwapOutCall
<1>4. ASSUME NEW id \in OutIds, OutEnvironment(id)
      PROVE  PaymentIsHeld'
  <2>1. \A i \in OutIds \ {id} : outServer'[i] = outServer[i] /\ payment'[i] = payment[i]
    BY <1>1, <1>4 DEF OutEnvironment, ServerSeesPayment, ServerFunds, ServerCancels,
           ServerExpires, ServerRefunds, ServerSeesSpend, ServerFinishes, ServerForgetsOut,
           PaymentAdvances, OutSpendIsMined, ServerMoves, ShapeOK
  <2>2. ASSUME NEW view, ServerMoves(id, view)
        PROVE  outServer'[id].status = view.status
    BY <1>1, <2>2 DEF ServerMoves, ShapeOK, ServerOK
  <2>3. ASSUME NEW outcome, ServerMoves(id, Ended(outcome))
        PROVE  outServer'[id].status \notin Active
    BY <2>2, <2>3 DEF Ended, Active
  <2>4. CASE ServerSeesPayment(id)
    BY <2>1, <2>4 DEF ServerSeesPayment, PaymentIsHeld
  <2>5. CASE ServerFunds(id) \/ ServerExpires(id)
    BY <2>1, <2>5 DEF ServerFunds, ServerExpires, PaymentIsHeld, OutIs, Active
  <2>6. CASE ServerCancels(id) \/ ServerFinishes(id)
    <3>1. outServer'[id].status \notin Active
      BY <2>3, <2>6 DEF ServerCancels, ServerFinishes
    <3> QED BY <2>1, <3>1 DEF PaymentIsHeld
  <2>7. CASE ServerSeesSpend(id)
    <3>1. PICK tx, view :
            /\ tx \in {outSpend[id].pool, outSpend[id].mined} \ {None}
            /\ ServerMoves(id, view) /\ UNCHANGED payment
      BY <2>7 DEF ServerSeesSpend
    <3>2. outServer[id].status \in Contracted
      BY <1>1, <3>1 DEF OutOK, HasSpend
    <3>3. outServer[id].status # "DONE"
      BY <3>1 DEF ServerMoves, OutMoves
    <3>4. outServer[id].status \in Active
      BY <3>2, <3>3 DEF Contracted, Active
    <3> QED BY <2>1, <3>1, <3>4 DEF PaymentIsHeld
  <2>8. CASE ServerForgetsOut(id)
    <3>1. outServer'[id].status \notin Active
      BY <1>1, <2>8 DEF ServerForgetsOut, ShapeOK, Forgotten, NoAnswer, Active
    <3> QED BY <2>1, <3>1 DEF PaymentIsHeld
  <2>9. CASE PaymentAdvances(id)
    <3>1. outServer[id].status \notin Active /\ UNCHANGED outServer
      BY <2>9 DEF PaymentAdvances, PaymentIsHeld
    <3> QED BY <2>1, <3>1 DEF PaymentIsHeld
  <2>10. CASE ServerRefunds(id) \/ OutSpendIsMined(id)
    BY <1>2, <2>10 DEF ServerRefunds, OutSpendIsMined
  <2> QED BY <1>4, <2>4, <2>5, <2>6, <2>7, <2>8, <2>9, <2>10 DEF OutEnvironment
<1>5. CASE AutoSwapStep
  <2>1. 1 \in OutIds
    BY DaemonAssumption DEF OutIds
  <2> QED BY <1>2, <1>5, <2>1, AutoSwapGoesOn
<1>6. CASE MonitorOut \/ MonitorIn
  <2>1. UNCHANGED <<outServer, payment>>
    BY <1>6, OutPollGoesOn, InPollGoesOn DEF outVars
  <2> QED BY <1>2, <2>1
<1> QED BY <1>2, <1>3, <1>4, <1>5, <1>6
        DEF DaemonNext, UserSwapsOut, DaemonCrash, UserSwapsIn, CreateSwapIn, SaveSwapIn,
            UserDeposits, UserDepositsAgain, RecoverReusedSwapAddress, InSame, InServerSame,
            InEnvironment, ServerSeesDeposit, ServerConfirmsDeposit, TimeoutPasses,
            ServerSeesTimeout, ServerExpiresByAge, InvoiceIsSettled, InvoiceFails, ServerSeesPaid,
            ServerClaims, ServerSeesInSpend, ServerFinishesIn, ServerForgetsIn,
            InSpendIsMined, DaemonStart, MonitorSwaps, vars, outVars

(* ... the amount of the loop's call, ...                                  *)
LEMMA CallIsReservedStep ==
  ASSUME KeysInv, OutTruth, MarkInv, BalanceInv, [DaemonNext]_vars
  PROVE  CallIsReserved'
<1>1. /\ ShapeOK /\ CallIsReserved /\ PaymentIsHeld /\ AmountsOK /\ MarkedIsRunning
      /\ \A id \in OutIds : OutOK(id)
  BY DEF KeysInv, OutTruth, BalanceInv, MarkInv
<1>2. UNCHANGED script
  BY ScriptStays
<1> SUFFICES ASSUME script.user = "auto", auto'.pc = "call"
             PROVE  /\ call'[auto'.id].amount = auto'.amount
                    /\ Spent(payment'[auto'.id]) =>
                         payment'[auto'.id].amount <= auto'.amount + HighestFee
  BY <1>2 DEF CallIsReserved, Spent
<1>3. CASE AutoWaits
  <2>1. /\ UNCHANGED auto /\ auto.id \in OutIds
        /\ call'[auto.id].amount = auto.amount
        /\ call[auto.id].amount = auto.amount
        /\ Spent(payment[auto.id]) => payment[auto.id].amount <= auto.amount + HighestFee
    BY <1>1, <1>3 DEF AutoWaits, CallIsReserved, MarkedIsRunning
  <2>2. CASE \A id \in OutIds : PaymentGoesOn(id)
    BY <2>1, <2>2 DEF PaymentGoesOn
  <2>3. CASE \E id \in OutIds : PaymentStarts(id)
    <3>1. PICK id \in OutIds : PaymentStarts(id)
      BY <2>3
    <3>2. CASE id = auto.id
      <4>1. PICK fee \in 0 .. FeeLimitSat(auto.amount) : payment'[id].amount = auto.amount + fee
        BY <2>1, <3>1, <3>2 DEF PaymentStarts
      <4>2. /\ auto.amount \in Nat /\ HighestFee \in Nat
            /\ FeeLimitSat(auto.amount) \in Nat /\ FeeLimitSat(auto.amount) <= HighestFee
        BY <1>1, HighestFeeIsHighest DEF AmountsOK
      <4>3. fee <= HighestFee /\ fee \in Nat
        BY <4>1, <4>2
      <4>4. payment'[auto.id].amount <= auto.amount + HighestFee
        BY <3>2, <4>1, <4>2, <4>3
      <4> QED BY <2>1, <4>4
    <3>3. CASE id # auto.id
      BY <2>1, <3>1, <3>3 DEF PaymentStarts
    <3> QED BY <3>2, <3>3
  <2> QED BY <1>1, <2>1, <2>2, <2>3, PaymentsGoOn
<1>4. CASE AutoCalls
  <2>1. /\ auto'.id \in OutIds /\ call'[auto'.id].amount = auto'.amount
        /\ outServer[auto'.id].status = "NONE" /\ UNCHANGED payment
    BY <1>4 DEF AutoCalls
  <2>2. ~Spent(payment[auto'.id])
    BY <1>1, <2>1 DEF OutOK, Spent
  <2> QED BY <2>1, <2>2
<1>5. CASE AutoStops \/ AttemptSucceeds
  BY <1>5 DEF AutoStops, AttemptSucceeds, AutoStopped
<1> QED BY <1>1, <1>3, <1>4, <1>5, CallsGoOn

(* ... what LND has, ...                                                   *)
LEMMA NothingOverdrawnStep ==
  ASSUME KeysInv, OutTruth, BalanceInv, [DaemonNext]_vars
  PROVE  NothingOverdrawn'
<1>1. AmountsOK /\ NothingOverdrawn /\ PaymentIsHeld /\ UNCHANGED script
  BY ScriptStays DEF BalanceInv
<1>2. SpentIds \in SUBSET OutIds /\ SpentIds' \in SUBSET OutIds
  BY DEF SpentIds
<1>3. /\ Paying(payment, SpentIds) \in Nat /\ script.balance \in Nat
      /\ Paying(payment, SpentIds) <= script.balance
  BY <1>1, BalanceIsInt DEF NothingOverdrawn
<1>4. SUFFICES /\ Paying(payment', SpentIds') \in Nat
               /\ Paying(payment', SpentIds') <= script.balance
  <2>1. Paying(payment, SpentIds)' = Paying(payment', SpentIds')
    OBVIOUS
  <2> QED BY <1>1, <1>4, <2>1 DEF NothingOverdrawn
<1>5. CASE \A id \in OutIds : PaymentGoesOn(id)
  <2>1. SpentIds' \in SUBSET SpentIds
    BY <1>5 DEF SpentIds, PaymentGoesOn, Spent
  <2>2. /\ \A id \in SpentIds : payment[id].amount \in Nat
        /\ \A id \in SpentIds' : payment'[id].amount = payment[id].amount
    BY <1>1, <1>2, <1>5 DEF PaymentGoesOn, AmountsOK
  <2>3. /\ Paying(payment', SpentIds') \in Nat
        /\ Paying(payment', SpentIds') <= Paying(payment, SpentIds)
    BY <1>2, <2>1, <2>2, PayingShrinks
  <2> QED BY <1>3, <2>3
<1>6. ASSUME NEW id \in OutIds, PaymentStarts(id)
      PROVE  /\ Paying(payment', SpentIds') \in Nat
             /\ Paying(payment', SpentIds') <= script.balance
  <2>1. /\ payment'[id].amount \in Nat
        /\ \A i \in OutIds \ {id} : payment'[i] = payment[i]
        /\ id \in SpentIds' =>
             payment'[id].amount <= script.balance - Paying(payment, SpentIds)
    <3>1. call[id].amount \in Nat /\ FeeLimitSat(call[id].amount) \in Nat
      BY <1>1, HighestFeeIsHighest DEF AmountsOK
    <3>2. payment'[id].amount \in Nat
      BY <1>6, <3>1 DEF PaymentStarts
    <3> QED BY <1>6, <3>2, BalanceIs DEF PaymentStarts, SpentIds, Spent
  <2>2. SpentIds' \in SUBSET (SpentIds \cup {id})
    BY <2>1 DEF SpentIds, Spent
  <2> DEFINE most == script.balance - Paying(payment, SpentIds)
  <2>3. most \in Nat
    BY <1>3
  <2>4. /\ \A i \in SpentIds : payment[i].amount \in Nat
        /\ \A i \in SpentIds' \ {id} : payment'[i].amount = payment[i].amount
    BY <1>1, <1>2, <2>1 DEF AmountsOK
  <2>5. /\ Paying(payment', SpentIds') \in Nat
        /\ Paying(payment', SpentIds') <= Paying(payment, SpentIds) + most
    <3> HIDE DEF most
    <3>1. id \in SpentIds' => payment'[id].amount \in Nat /\ payment'[id].amount <= most
      BY <2>1 DEF most
    <3> QED BY <1>2, <2>2, <2>3, <2>4, <3>1, PayingOneMore
  <2> QED BY <1>3, <2>5
<1> QED BY <1>1, <1>5, <1>6, PaymentsGoOn

(* What counts after a step did before, at the same amount, or is the swap *)
(* that the loop's call has just paid for.                                 *)
LEMMA CountedBefore ==
  ASSUME KeysInv, OutTruth, MarkInv, BalanceInv, [DaemonNext]_vars, NEW id \in Counted'
  PROVE  /\ id \in OutIds
         /\ \/ id \in Counted /\ payment'[id].amount = payment[id].amount
            \/ /\ AttemptSucceeds /\ id = auto.id /\ UNCHANGED payment
               /\ Spent(payment[id])
<1>1. /\ MarksAreLate /\ CopiesOfMarks /\ MarkedIsRunning /\ PaymentIsHeld /\ AmountsOK
  BY DEF MarkInv, BalanceInv
<1>2. /\ id \in OutIds /\ Spent(payment'[id])
      /\ outRow'[id].auto \/ (auto'.pc = "mark" /\ id = auto'.id)
  BY DEF Counted, SpentIds, Spent
<1>3. OutGoesOn(id) /\ RowGoesOn(id)
  BY <1>2, StepGoesOn
<1>4. outRow'[id].auto => outRow[id].auto \/ (auto.pc = "mark" /\ id = auto.id)
  <2>1. NewRow.auto = FALSE
    BY DEF NewRow, NoRow
  <2> QED BY <1>1, <1>2, <1>3, <2>1 DEF RowGoesOn, CopiesOfMarks, Polling
<1>5. auto'.pc = "mark" => UNCHANGED auto \/ (AttemptSucceeds /\ auto'.id = auto.id)
  <2>1. AttemptSucceeds => auto'.id = auto.id
    BY DEF AttemptSucceeds, AutoStopped
  <2> QED BY <1>1, <2>1, CallsGoOn DEF AutoWaits, AutoStops, AutoCalls
<1>6. ASSUME outRow[id].auto \/ (auto.pc = "mark" /\ id = auto.id)
      PROVE  id \in Counted /\ payment'[id].amount = payment[id].amount
  <2>1. call[id].pc # "pay"
    BY <1>1, <1>2, <1>6 DEF MarksAreLate, MarkedIsRunning
  <2>2. PaymentGoesOn(id)
    <3>1. ASSUME NEW i \in OutIds, PaymentStarts(i)
          PROVE  PaymentGoesOn(id)
      BY <1>2, <2>1, <3>1 DEF PaymentStarts, PaymentGoesOn
    <3> QED BY <1>1, <1>2, <3>1, PaymentsGoOn
  <2> QED BY <1>2, <1>6, <2>2 DEF PaymentGoesOn, Counted, SpentIds
<1>7. ASSUME AttemptSucceeds, id = auto.id
      PROVE  UNCHANGED payment /\ Spent(payment[id])
  BY <1>2, <1>7 DEF AttemptSucceeds
<1> QED BY <1>2, <1>4, <1>5, <1>6, <1>7

(* ... and the target: the call reserved what it took.                     *)
LEMMA TargetIsKeptStep ==
  ASSUME KeysInv, OutTruth, MarkInv, BalanceInv, [DaemonNext]_vars
  PROVE  TargetIsKept'
<1>1. /\ AmountsOK /\ CallIsReserved /\ TargetIsKept /\ MarkedIsRunning /\ UNCHANGED script
  BY ScriptStays DEF BalanceInv, MarkInv
<1> SUFFICES ASSUME script.user = "auto", script.balance >= TargetBalance
             PROVE  Paying(payment', Counted') + Reserved'
                      <= script.balance - TargetBalance + HighestFee
  <2>1. Paying(payment, Counted)' = Paying(payment', Counted')
    OBVIOUS
  <2> QED BY <1>1, <2>1 DEF TargetIsKept
<1>2. /\ Paying(payment, Counted) \in Nat /\ Paying(payment, SpentIds) \in Nat
      /\ Paying(payment, Counted) <= Paying(payment, SpentIds)
      /\ script.balance \in Nat /\ TargetBalance \in Nat
      /\ auto.amount \in Nat /\ HighestFee \in Nat /\ Reserved \in Nat
      /\ Paying(payment, Counted) + Reserved <= script.balance - TargetBalance + HighestFee
  BY <1>1, BalanceIsInt, HighestFeeIsHighest, AutoSwapAssumption
     DEF TargetIsKept, AmountsOK, Reserved, Validate
<1>3. Counted \in SUBSET OutIds /\ \A id \in Counted : payment[id].amount \in Nat
  BY <1>1 DEF Counted, SpentIds, AmountsOK
<1>4. ASSUME ~AttemptSucceeds
      PROVE  /\ Paying(payment', Counted') \in Nat
             /\ Paying(payment', Counted') <= Paying(payment, Counted)
  <2>1. Counted' \in SUBSET Counted
    BY <1>4, CountedBefore
  <2>2. \A id \in Counted' : payment'[id].amount = payment[id].amount
    BY <1>4, CountedBefore
  <2> QED BY <1>3, <2>1, <2>2, PayingShrinks
<1>5. CASE AutoWaits /\ ~AttemptSucceeds
  <2>1. Reserved' = Reserved
    BY <1>5 DEF AutoWaits, Reserved
  <2> QED BY <1>2, <1>4, <1>5, <2>1
<1>6. CASE AutoStops /\ ~AttemptSucceeds
  <2>1. Reserved' = 0
    BY <1>6 DEF AutoStops, Reserved
  <2> QED BY <1>2, <1>4, <1>6, <2>1
<1>7. CASE AutoCalls /\ ~AttemptSucceeds
  <2>1. Reserved' = auto'.amount + HighestFee /\ auto'.amount \in Nat
    BY <1>7 DEF AutoCalls, Reserved
  <2>2. CASE auto.pc = "call" /\ auto'.amount <= auto.amount
    <3>1. Reserved = auto.amount + HighestFee
      BY <2>2 DEF Reserved
    <3> QED BY <1>2, <1>4, <1>7, <2>1, <2>2, <3>1
  <2>3. CASE auto'.amount <= GetChannelLocalBalance - TargetBalance
    <3>1. auto'.amount <= script.balance - Paying(payment, SpentIds) - TargetBalance
      BY <2>3, BalanceIs
    <3> QED BY <1>2, <1>4, <1>7, <2>1, <3>1
  <2> QED BY <1>7, <2>2, <2>3 DEF AutoCalls
<1>8. CASE AttemptSucceeds
  <2>1. /\ auto.id \in OutIds /\ Reserved = auto.amount + HighestFee /\ UNCHANGED payment
        /\ Spent(payment[auto.id]) => payment[auto.id].amount <= Reserved
    BY <1>1, <1>8 DEF AttemptSucceeds, Reserved, MarkedIsRunning, CallIsReserved
  <2>2. Reserved' = 0
    BY <1>8 DEF AttemptSucceeds, AutoStopped, Reserved
  <2>3. /\ Counted' \in SUBSET (Counted \cup {auto.id})
        /\ auto.id \in Counted' => Spent(payment[auto.id])
    <3>1. auto.id \in Counted' => Spent(payment[auto.id])
      BY <2>1 DEF Counted, SpentIds, Spent
    <3> QED BY <3>1, CountedBefore
  <2>4. \A id \in Counted' \ {auto.id} : payment'[id].amount = payment[id].amount
    BY <2>1
  <2>5. auto.id \in Counted' =>
          payment'[auto.id].amount \in Nat /\ payment'[auto.id].amount <= Reserved
    BY <1>1, <2>1, <2>3 DEF AmountsOK
  <2>6. /\ Paying(payment', Counted') \in Nat
        /\ Paying(payment', Counted') <= Paying(payment, Counted) + Reserved
    BY <1>2, <1>3, <2>1, <2>3, <2>4, <2>5, PayingOneMore
  <2> QED BY <1>2, <2>1, <2>2, <2>6
<1> QED BY <1>1, <1>5, <1>6, <1>7, <1>8, CallsGoOn

(* The invariant of the balance.                                           *)
LEMMA BalanceHolds == DaemonSpec => [](KeysInv /\ BalanceInv)
<1>1. DaemonInit /\ KeysInv => BalanceInv
  <2> SUFFICES ASSUME DaemonInit, KeysInv PROVE BalanceInv
    OBVIOUS
  <2>1. /\ auto.pc = "off" /\ auto.amount = 0
        /\ \A id \in OutIds :
             /\ outServer[id].status = "NONE"
             /\ payment[id].state = "none" /\ payment[id].amount = 0
             /\ call[id].amount = 0
    BY DEF DaemonInit, AutoStopped, NoAnswer, NoCalls
  <2>2. SpentIds = {} /\ Counted = {} /\ Reserved = 0
    BY <2>1 DEF SpentIds, Counted, Reserved, Spent
  <2>3. Paying(payment, SpentIds) = 0 /\ Paying(payment, Counted) = 0
    BY <2>2, PayingNone
  <2>4. AmountsOK /\ PaymentIsHeld /\ CallIsReserved
    BY <2>1, AutoSwapAssumption DEF AmountsOK, PaymentIsHeld, CallIsReserved, Active, Validate
  <2>5. script.balance \in Nat /\ TargetBalance \in Nat
    BY <2>4, BalanceIsInt, AutoSwapAssumption DEF Validate
  <2> QED BY <2>2, <2>3, <2>4, <2>5, HighestFeeIsHighest
          DEF BalanceInv, TargetIsKept, NothingOverdrawn
<1>2. KeysInv /\ OutTruth /\ MarkInv /\ BalanceInv /\ [DaemonNext]_vars => BalanceInv'
  BY AmountsStep, PaymentIsHeldStep, CallIsReservedStep, TargetIsKeptStep,
     NothingOverdrawnStep DEF BalanceInv
<1> QED BY <1>1, <1>2, MarksHold, PTL DEF DaemonSpec

(* For any balance, target, sizes, fee limit, retries and number of swaps: *)
(* what auto swaps whose marks are in place hold and have spent leaves the *)
(* target in the channels, but for the routing fee of one swap.            *)
THEOREM DaemonBelowTargetOnlyByAFee == DaemonSpec => []BelowTargetOnlyByAFee
<1>1. KeysInv /\ BalanceInv => BelowTargetOnlyByAFee
  <2> SUFFICES ASSUME KeysInv, BalanceInv, script.user = "auto", script.balance >= TargetBalance,
                      \A id \in OutIds : Spent(payment[id]) => outRow[id].auto
               PROVE  GetChannelLocalBalance + HighestFee >= TargetBalance
    BY DEF BelowTargetOnlyByAFee, HighestFee
  <2>1. /\ Paying(payment, Counted) \in Nat /\ script.balance \in Nat
        /\ TargetBalance \in Nat /\ HighestFee \in Nat /\ Reserved \in Nat
        /\ Paying(payment, Counted) + Reserved <= script.balance - TargetBalance + HighestFee
    BY BalanceIsInt, HighestFeeIsHighest, AutoSwapAssumption
       DEF BalanceInv, TargetIsKept, AmountsOK, Reserved, Validate
  <2>2. SpentIds = Counted
    BY DEF SpentIds, Counted
  <2>3. GetChannelLocalBalance = script.balance - Paying(payment, Counted)
    BY <2>2, BalanceIs
  <2> QED BY <2>1, <2>3
<1> QED BY <1>1, BalanceHolds, PTL

-----------------------------------------------------------------------------
(* What the variables hold, beyond the shapes that the other proofs need.  *)
RowFits(row) ==
    /\ row.status \in {"UNSAVED"} \cup mapStatus
    /\ row.outcome \in Outcomes \cup {"FAILED"}
    /\ row.tx \in Rates \cup {None}

(* Every row, and every copy of one that a poll has.                       *)
RowsFit ==
    /\ RowFits(inRow) /\ RowFits(mon.row)
    /\ \A id \in OutIds : RowFits(outRow[id])
    /\ \A item \in mon.queue : RowFits(item.row)
    /\ mon.pc \notin {"sleep", "get"} => mon.next \in mapStatus

(* A swap that was saved is known to the server, or was: 404 has one form. *)
AnswersFit ==
    /\ \A id \in OutIds :
         /\ outRow[id].status # "UNSAVED" => outServer[id].status # "NONE"
         /\ outServer[id].status = "FORGOTTEN" => outServer[id].outcome = "NONE"
    /\ inServer.status = "FORGOTTEN" => inServer.outcome = "NONE"
    /\ \A item \in mon.queue : item.kind = "out" => outServer[item.id].status # "NONE"

ProcessFits ==
    /\ up \in BOOLEAN /\ crashes \in 0 .. script.crashes
    /\ running \subseteq OutIds
    /\ \A id \in OutIds : goroutines(id) <= script.goroutines

TypeInv == RowsFit /\ AnswersFit /\ ProcessFits /\ WatchInv

(* The rates of a behaviour are of its scenario.                           *)
LEMMA RatesAreKnown ==
  ASSUME ShapeOK
  PROVE  GetRecommendedFees \subseteq Rates
BY DEF ShapeOK, GetRecommendedFees, Rates

(* A new row of the poll is one of those it has read.                      *)
LEMMA RowsOfAPoll ==
  ASSUME NEW queue \in SUBSET Items, mon' = Continue(queue),
         \A item \in queue : RowFits(item.row)
  PROVE  /\ RowFits(mon.row)' /\ mon'.queue = queue /\ mon'.pc \in {"sleep", "get"}
<1>1. CASE queue = {}
  BY <1>1 DEF Continue, Asleep, Poll, NoRow, RowFits, Outcomes
<1>2. CASE queue # {}
  <2>1. RowFits(First(queue).row)
    BY <1>2, FirstIsOne
  <2> QED BY <1>2, <2>1 DEF Continue, Poll, RowFits
<1> QED BY <1>1, <1>2

(* The monitor's poll goes on with a row that fits, or with the next one.  *)
PollFits(poll) ==
    \/ poll = NextSwap
    \/ poll.queue = mon.queue /\ RowFits(poll.row) /\ poll.next \in mapStatus

(* An answer for a swap-out brings a status and an outcome that fit.       *)
LEMMA RowOfOutAnswer ==
  ASSUME PollOK(mon), RowFits(mon.row), NEW answer, ServerOK(answer),
         answer.status \in OutStatuses \ {"NONE"}, answer.outcome \in Outcomes,
         answer.status = "FORGOTTEN" => answer.outcome = "NONE"
  PROVE  PollFits(AfterGetSwapOut(answer))
<1> DEFINE changed == answer.status # mon.row.status \/ ~mon.row.copied
           copied == [mon.row EXCEPT !.copied = TRUE]
           poll == [mon EXCEPT !.row = copied, !.next = answer.status, !.changed = changed]
<1>1. /\ poll = [mon EXCEPT !.row.copied = TRUE, !.next = answer.status,
                            !.changed = answer.status # mon.row.status \/ ~mon.row.copied]
      /\ mon \in Polls /\ mon.row \in AnyRow
  BY DEF PollOK, Polls
<1>2. copied \in AnyRow /\ RowFits(copied)
  BY <1>1 DEF AnyRow, RowFits
<1>3. changed \in BOOLEAN /\ answer.status \in Texts /\ answer.outcome \in Texts
  BY DEF ServerOK
<1> HIDE DEF changed, copied
<1>4. /\ poll.queue = mon.queue /\ poll.next = answer.status /\ poll.row = copied
      /\ poll \in Polls
  BY <1>1, <1>2, <1>3 DEF Polls
<1> HIDE DEF poll
<1>5. CASE answer = Forgotten
  <2>1. AfterGetSwapOut(answer) =
          [mon EXCEPT !.pc = "save", !.next = "DONE", !.row.outcome = "FAILED"]
    BY <1>5 DEF AfterGetSwapOut, Forgotten, NoAnswer
  <2> DEFINE row == [mon.row EXCEPT !.outcome = "FAILED"]
             ended == [mon EXCEPT !.pc = "save", !.next = "DONE", !.row = row]
  <2>2. RowFits(row)
    BY <1>1 DEF RowFits, AnyRow
  <2> HIDE DEF row
  <2>3. ended.queue = mon.queue /\ ended.row = row /\ ended.next = "DONE"
    BY <1>1 DEF Polls
  <2>4. AfterGetSwapOut(answer) = ended
    BY <1>1, <2>1 DEF row
  <2> HIDE DEF ended
  <2> QED BY <2>2, <2>3, <2>4 DEF PollFits, mapStatus
<1>6. answer # Forgotten => answer.status \in mapStatus
  <2>1. answer.status = "FORGOTTEN" => answer = Forgotten
    BY DEF ServerOK, Forgotten, NoAnswer
  <2> QED BY <2>1 DEF OutStatuses, OutMoves, mapStatus
<1>7. CASE answer # Forgotten /\ answer.status = "CONTRACT_FUNDED"
  <2>1. AfterGetSwapOut(answer) = [poll EXCEPT !.pc = "claim"]
    BY <1>1, <1>7 DEF AfterGetSwapOut
  <2> QED BY <1>2, <1>4, <1>6, <1>7, <2>1 DEF Polls, PollFits
<1>8. CASE answer # Forgotten /\ answer.status = "DONE" /\ answer.outcome = "SUCCESS"
  <2>1. AfterGetSwapOut(answer) = [poll EXCEPT !.pc = "fees", !.row.outcome = "SUCCESS"]
    BY <1>1, <1>8 DEF AfterGetSwapOut
  <2> DEFINE row == [copied EXCEPT !.outcome = "SUCCESS"]
  <2>2. LET p == [poll EXCEPT !.pc = "fees", !.row.outcome = "SUCCESS"]
        IN  /\ p.queue = mon.queue /\ p.next = answer.status /\ p.row = row
    BY <1>4 DEF Polls
  <2>3. RowFits(row)
    BY <1>2 DEF RowFits, AnyRow, Outcomes
  <2> HIDE DEF row
  <2> QED BY <1>6, <1>8, <2>1, <2>2, <2>3 DEF PollFits
<1>9. CASE /\ answer # Forgotten /\ answer.status # "CONTRACT_FUNDED"
           /\ ~(answer.status = "DONE" /\ answer.outcome = "SUCCESS")
  <2> DEFINE other == [poll EXCEPT !.row.outcome = answer.outcome]
             row == [copied EXCEPT !.outcome = answer.outcome]
  <2>1. AfterGetSwapOut(answer) = SaveOrSkip(other)
    BY <1>1, <1>9 DEF AfterGetSwapOut
  <2>2. RowFits(row) /\ row \in AnyRow
    BY <1>2, <1>3 DEF AnyRow, RowFits
  <2> HIDE DEF row
  <2>3. other.queue = mon.queue /\ other.next = answer.status /\ other.row = row
        /\ other \in Polls
    BY <1>4, <2>2 DEF row, Polls
  <2> HIDE DEF other
  <2>4. LET p == [other EXCEPT !.pc = "save"]
        IN  /\ p.queue = mon.queue /\ p.next = answer.status /\ p.row = row
    BY <2>3 DEF Polls
  <2> QED BY <1>6, <1>9, <2>1, <2>2, <2>4 DEF SaveOrSkip, PollFits
<1> QED BY <1>5, <1>7, <1>8, <1>9

(* The same of an answer for a swap-in.                                    *)
LEMMA RowOfInAnswer ==
  ASSUME PollOK(mon), RowFits(mon.row), NEW answer, ServerOK(answer),
         answer.status \in InStatuses \ {"NONE"}, answer.outcome \in Outcomes,
         answer.status = "FORGOTTEN" => answer.outcome = "NONE"
  PROVE  PollFits(AfterGetSwapIn(answer))
<1> DEFINE poll == [mon EXCEPT !.next = answer.status,
                     !.changed = answer.status # mon.row.status]
<1>1. /\ mon \in Polls /\ mon.row \in AnyRow
      /\ answer.status \in Texts /\ answer.outcome \in Texts
  BY DEF PollOK, Polls, ServerOK
<1>2. /\ poll.queue = mon.queue /\ poll.next = answer.status /\ poll.row = mon.row
      /\ poll \in Polls
  BY <1>1 DEF Polls
<1>3. ASSUME NEW row \in {mon.row, [mon.row EXCEPT !.lockTx = TRUE],
                          [mon.row EXCEPT !.refundAt = TRUE],
                          [mon.row EXCEPT !.outcome = "SUCCESS"],
                          [mon.row EXCEPT !.outcome = "FAILED"],
                          [mon.row EXCEPT !.outcome = answer.outcome]}
      PROVE  RowFits(row) /\ row \in AnyRow
  BY <1>1 DEF RowFits, AnyRow, Outcomes, Texts
<1>4. CASE answer = Forgotten
  <2>1. AfterGetSwapIn(answer) =
          [mon EXCEPT !.pc = "save", !.next = "DONE", !.row.outcome = "FAILED"]
    BY <1>4 DEF AfterGetSwapIn, Forgotten, NoAnswer
  <2> DEFINE row == [mon.row EXCEPT !.outcome = "FAILED"]
             ended == [mon EXCEPT !.pc = "save", !.next = "DONE", !.row = row]
  <2>2. RowFits(row)
    BY <1>3
  <2> HIDE DEF row
  <2>3. ended.queue = mon.queue /\ ended.row = row /\ ended.next = "DONE"
    BY <1>1 DEF Polls
  <2>4. AfterGetSwapIn(answer) = ended
    BY <1>1, <2>1 DEF row
  <2> HIDE DEF ended
  <2> QED BY <2>2, <2>3, <2>4 DEF PollFits, mapStatus
<1>5. CASE answer # Forgotten
  <2>1. \/ AfterGetSwapIn(answer) = SaveOrSkip([poll EXCEPT !.row.lockTx = TRUE])
        \/ AfterGetSwapIn(answer) = [poll EXCEPT !.pc = "preimage", !.row.outcome = "SUCCESS"]
        \/ AfterGetSwapIn(answer) = [poll EXCEPT !.pc = "refund", !.row.refundAt = TRUE]
        \/ AfterGetSwapIn(answer) = SaveOrSkip([poll EXCEPT !.row.outcome = answer.outcome])
        \/ AfterGetSwapIn(answer) = SaveOrSkip(poll)
    BY <1>5 DEF AfterGetSwapIn
  <2>2. answer.status \in mapStatus
    <3>1. answer.status = "FORGOTTEN" => answer = Forgotten
      BY DEF ServerOK, Forgotten, NoAnswer
    <3> QED BY <1>5, <3>1 DEF InStatuses, InMoves, mapStatus
  <2> HIDE DEF poll
  <2>3. ASSUME NEW p \in Polls, p.queue = mon.queue, p.next = answer.status, RowFits(p.row)
        PROVE  PollFits(p) /\ PollFits(SaveOrSkip(p))
    <3>1. LET q == [p EXCEPT !.pc = "save"]
          IN  q.queue = p.queue /\ q.next = p.next /\ q.row = p.row
      BY DEF Polls
    <3> QED BY <2>2, <2>3, <3>1 DEF PollFits, SaveOrSkip
  <2>4. ASSUME NEW p, NEW row \in AnyRow, RowFits(row), NEW pc \in {"get", "preimage", "refund"},
               p = [poll EXCEPT !.row = row] \/ p = [poll EXCEPT !.pc = pc, !.row = row]
        PROVE  PollFits(p) /\ PollFits(SaveOrSkip(p))
    <3>1. p \in Polls /\ p.queue = mon.queue /\ p.next = answer.status /\ p.row = row
      BY <1>2, <2>4 DEF Polls
    <3> QED BY <2>3, <2>4, <3>1
  <2>5. CASE AfterGetSwapIn(answer) = SaveOrSkip([poll EXCEPT !.row.lockTx = TRUE])
    <3> DEFINE row == [mon.row EXCEPT !.lockTx = TRUE]
    <3>1. [poll EXCEPT !.row.lockTx = TRUE] = [poll EXCEPT !.row = row]
      BY <1>2 DEF Polls
    <3> QED BY <1>3, <2>4, <2>5, <3>1
  <2>6. CASE AfterGetSwapIn(answer) = [poll EXCEPT !.pc = "preimage", !.row.outcome = "SUCCESS"]
    <3> DEFINE row == [mon.row EXCEPT !.outcome = "SUCCESS"]
    <3>1. [poll EXCEPT !.pc = "preimage", !.row.outcome = "SUCCESS"]
            = [poll EXCEPT !.pc = "preimage", !.row = row]
      BY <1>2 DEF Polls
    <3> QED BY <1>3, <2>4, <2>6, <3>1
  <2>7. CASE AfterGetSwapIn(answer) = [poll EXCEPT !.pc = "refund", !.row.refundAt = TRUE]
    <3> DEFINE row == [mon.row EXCEPT !.refundAt = TRUE]
    <3>1. [poll EXCEPT !.pc = "refund", !.row.refundAt = TRUE]
            = [poll EXCEPT !.pc = "refund", !.row = row]
      BY <1>2 DEF Polls
    <3> QED BY <1>3, <2>4, <2>7, <3>1
  <2>8. CASE AfterGetSwapIn(answer) = SaveOrSkip([poll EXCEPT !.row.outcome = answer.outcome])
    <3> DEFINE row == [mon.row EXCEPT !.outcome = answer.outcome]
    <3>1. [poll EXCEPT !.row.outcome = answer.outcome] = [poll EXCEPT !.row = row]
      BY <1>2 DEF Polls
    <3> QED BY <1>3, <2>4, <2>8, <3>1
  <2>9. CASE AfterGetSwapIn(answer) = SaveOrSkip(poll)
    BY <1>2, <2>3, <2>9
  <2> QED BY <2>1, <2>5, <2>6, <2>7, <2>8, <2>9
<1> QED BY <1>4, <1>5

(* The steps of the monitor: what is saved is the row of the poll.         *)
LEMMA PolledRows ==
  ASSUME KeysInv, OutTruth, InTruth, RowsFit, AnswersFit, MonitorOut \/ MonitorIn
  PROVE  PollFits(mon') /\ RowFits(inRow') /\ \A id \in OutIds : RowFits(outRow'[id])
<1>1. /\ PollOK(mon) /\ StatusKnown(mon) /\ ShapeOK /\ Current \in mon.queue
      /\ RowFits(mon.row) /\ mon \in Polls /\ mon.row \in AnyRow
      /\ GetRecommendedFees \subseteq Rates
  BY OutPollGoesOn, InPollGoesOn, RatesAreKnown DEF KeysInv, RowsFit, PollOK, Polls
<1>2. Current \in Items
  BY <1>1 DEF PollOK, Polls
<1>3. mon.pc \notin {"sleep", "get"} => mon.next \in mapStatus
  BY DEF RowsFit
<1>4. ASSUME NEW row \in AnyRow, RowFits(row), mon.next \in mapStatus,
             NEW p, p = [mon EXCEPT !.row = row]
      PROVE  PollFits(p) /\ PollFits(SaveOrSkip(p))
  <2>1. p.queue = mon.queue /\ p.next = mon.next /\ p.row = row /\ p \in Polls
    BY <1>1, <1>4 DEF Polls
  <2>2. LET q == [p EXCEPT !.pc = "save"]
        IN  q.queue = p.queue /\ q.next = p.next /\ q.row = p.row
    BY <2>1 DEF Polls
  <2> QED BY <1>4, <2>1, <2>2 DEF PollFits, SaveOrSkip
<1>5. mon.next \in mapStatus => PollFits(SaveOrSkip(mon))
  <2>1. mon = [mon EXCEPT !.row = mon.row]
    BY <1>1 DEF Polls
  <2> QED BY <1>1, <1>4, <2>1
<1>6. ASSUME NEW rate \in GetRecommendedFees, mon.next \in mapStatus
      PROVE  PollFits(SaveOrSkip([mon EXCEPT !.row.tx = rate]))
  <2> DEFINE row == [mon.row EXCEPT !.tx = rate]
  <2>1. rate \in Rates /\ rate \in Int
    <3>1. script.rates \subseteq Nat
      BY <1>1, DaemonAssumption DEF ShapeOK, ScriptKinds
    <3> QED BY <1>1, <1>6, <3>1 DEF GetRecommendedFees
  <2>2. row \in AnyRow /\ RowFits(row)
    BY <1>1, <2>1 DEF AnyRow, RowFits
  <2>3. [mon EXCEPT !.row.tx = rate] = [mon EXCEPT !.row = row]
    BY <1>1 DEF Polls
  <2> QED BY <1>4, <1>6, <2>2, <2>3
<1>7. PollFits(NextSwap)
  BY DEF PollFits
<1>8. ASSUME mon.next \in mapStatus
      PROVE  RowFits([mon.row EXCEPT !.status = mon.next])
  BY <1>1, <1>8 DEF RowFits, AnyRow
<1>9. RowFits(inRow) /\ \A id \in OutIds : RowFits(outRow[id])
  BY DEF RowsFit
<1>10. CASE MonitorOut
  <2>1. UNCHANGED inRow /\ Out \in OutIds
    BY <1>2, <1>10, OutPollGoesOn DEF inVars, Out, Items
  <2>2. CASE MonitorSwapOut
    <3>1. /\ outServer[Out].status # "NONE"
          /\ outServer[Out].status = "FORGOTTEN" => outServer[Out].outcome = "NONE"
      BY <1>1, <1>10, <2>1, OutPollGoesOn DEF AnswersFit, Out
    <3>2. ServerOK(outServer[Out])
      BY <1>1, <2>1 DEF ShapeOK
    <3>3. outServer[Out].status \in OutStatuses /\ outServer[Out].outcome \in Outcomes
      BY <2>1 DEF OutTruth, OutOK
    <3>4. PollFits(AfterGetSwapOut(outServer[Out]))
      BY <1>1, <3>1, <3>2, <3>3, RowOfOutAnswer
    <3> QED BY <1>9, <2>1, <2>2, <3>4 DEF MonitorSwapOut, GetSwapOut, outVars
  <2>3. CASE ClaimSwapOut
    <3>1. PICK rate \in GetRecommendedFees : mon' = SaveOrSkip([mon EXCEPT !.row.tx = rate])
      BY <2>3 DEF ClaimSwapOut
    <3>2. mon.next \in mapStatus /\ UNCHANGED outRow
      BY <1>3, <2>3 DEF ClaimSwapOut, Polling
    <3> QED BY <1>6, <1>9, <2>1, <3>1, <3>2
  <2>4. CASE GetFeesSwapOut
    <3>1. mon.next \in mapStatus /\ UNCHANGED outRow /\ mon' \in {SaveOrSkip(mon), NextSwap}
      BY <1>3, <2>4 DEF GetFeesSwapOut, Polling, outVars
    <3> QED BY <1>5, <1>7, <1>9, <2>1, <3>1
  <2>5. CASE MonitorOutFails
    BY <1>7, <1>9, <2>1, <2>5 DEF MonitorOutFails, outVars
  <2>6. CASE MonitorSavesOut
    <3>1. /\ mon.next \in mapStatus /\ mon' = NextSwap
          /\ outRow' = [outRow EXCEPT ![Out] = [mon.row EXCEPT !.status = mon.next]]
      BY <1>3, <2>6 DEF MonitorSavesOut, Polling
    <3>2. \A id \in OutIds :
            outRow'[id] \in {outRow[id], [mon.row EXCEPT !.status = mon.next]}
      BY <1>1, <3>1 DEF ShapeOK
    <3> QED BY <1>7, <1>8, <1>9, <2>1, <3>1, <3>2
  <2> QED BY <1>10, <2>2, <2>3, <2>4, <2>5, <2>6 DEF MonitorOut
<1>11. CASE MonitorIn
  <2>1. UNCHANGED outRow /\ inServer.status # "NONE"
    <3>1. Current.kind = "in" /\ UNCHANGED outVars
      BY <1>11, InPollGoesOn
    <3> QED BY <1>1, <3>1 DEF InTruth, InOK, outVars
  <2>2. CASE MonitorSwapIn
    <3>1. /\ ServerOK(inServer) /\ inServer.status \in InStatuses
          /\ inServer.outcome \in Outcomes
          /\ inServer.status = "FORGOTTEN" => inServer.outcome = "NONE"
      BY <1>1 DEF ShapeOK, InTruth, InOK, AnswersFit
    <3>2. PollFits(AfterGetSwapIn(inServer))
      BY <1>1, <2>1, <3>1, RowOfInAnswer
    <3> QED BY <1>9, <2>1, <2>2, <3>2 DEF MonitorSwapIn, GetSwapIn, inVars
  <2>3. CASE FetchLockTx
    <3> DEFINE row == [mon.row EXCEPT !.lockTx = TRUE]
    <3>1. row \in AnyRow /\ RowFits(row)
      BY <1>1 DEF AnyRow, RowFits
    <3>2. [mon EXCEPT !.row.lockTx = TRUE] = [mon EXCEPT !.row = row]
      BY <1>1 DEF Polls
    <3>3. mon.next \in mapStatus /\ mon' = [mon EXCEPT !.row = row] /\ inRow' = row
      BY <1>3, <2>3, <3>2 DEF FetchLockTx, Polling
    <3> QED BY <1>4, <1>9, <2>1, <3>1, <3>3
  <2>4. CASE InitiateRefund
    <3>1. PICK rate \in GetRecommendedFees : mon' = SaveOrSkip([mon EXCEPT !.row.tx = rate])
      BY <2>4 DEF InitiateRefund
    <3>2. mon.next \in mapStatus /\ UNCHANGED inRow
      BY <1>3, <2>4 DEF InitiateRefund, Polling
    <3> QED BY <1>6, <1>9, <2>1, <3>1, <3>2
  <2>5. CASE getPreimage
    <3>1. mon.next \in mapStatus /\ UNCHANGED inRow /\ mon' \in {SaveOrSkip(mon), NextSwap}
      BY <1>3, <2>5 DEF getPreimage, Polling, inVars
    <3> QED BY <1>5, <1>7, <1>9, <2>1, <3>1
  <2>6. CASE MonitorInFails
    BY <1>7, <1>9, <2>1, <2>6 DEF MonitorInFails, inVars
  <2>7. CASE MonitorSavesIn
    <3>1. /\ mon.next \in mapStatus /\ mon' = NextSwap
          /\ inRow' = [mon.row EXCEPT !.status = mon.next]
      BY <1>3, <2>7 DEF MonitorSavesIn, Polling
    <3> QED BY <1>7, <1>8, <1>9, <2>1, <3>1
  <2> QED BY <1>11, <2>2, <2>3, <2>4, <2>5, <2>6, <2>7 DEF MonitorIn
<1> QED BY <1>10, <1>11

(* The polls, and what leaves them alone.                                  *)
LEMMA QueueGoesOn ==
  ASSUME KeysInv, [DaemonNext]_vars
  PROVE  \/ MonitorOut \/ MonitorIn \/ MonitorSwaps
         \/ mon' = Continue({}) /\ UNCHANGED <<outRow, inRow>>
         \/ UNCHANGED mon
<1>1. DaemonCrash => mon' = Continue({}) /\ UNCHANGED <<outRow, inRow>>
  BY DEF DaemonCrash, Continue
<1>2. ASSUME NEW id \in OutIds, SwapOutCall(id) \/ OutEnvironment(id)
      PROVE  UNCHANGED mon
  BY <1>2 DEF SwapOutCall, CreateSwapOut, SaveSwapOut, PayInvoice, OutEnvironment, OutSame,
              ServerSeesPayment, ServerFunds, ServerCancels, ServerExpires, ServerRefunds,
              ServerSeesSpend, ServerFinishes, ServerForgetsOut, PaymentAdvances,
              OutSpendIsMined
<1>3. \/ UserSwapsOut \/ AutoSwapStep \/ DaemonStart \/ UNCHANGED vars
      \/ UserSwapsIn \/ CreateSwapIn \/ SaveSwapIn \/ UserDeposits
      \/ UserDepositsAgain \/ RecoverReusedSwapAddress \/ InEnvironment
      => UNCHANGED mon
  BY DEF UserSwapsOut, AutoSwapStep, AutoSwapLoop, RecoverPendingAutoSwaps, CheckWhileRunning,
         RunAutoSwapCheck, AttemptFails, AttemptSucceeds, UpdateAutoSwap, WatcherStarts,
         WatcherEnds, DaemonStart, vars, UserSwapsIn, CreateSwapIn, SaveSwapIn, UserDeposits,
         UserDepositsAgain, RecoverReusedSwapAddress, InSame, InServerSame, InEnvironment,
         ServerSeesDeposit, ServerConfirmsDeposit, TimeoutPasses,
         ServerSeesTimeout, ServerExpiresByAge, InvoiceIsSettled, InvoiceFails, ServerSeesPaid,
         ServerClaims, ServerSeesInSpend, ServerFinishesIn, ServerForgetsIn,
         InSpendIsMined
<1> QED BY <1>1, <1>2, <1>3 DEF DaemonNext

(* A row that another step than the monitor's writes is new, or is marked. *)
LEMMA OtherRows ==
  ASSUME KeysInv, OutTruth, [DaemonNext]_vars, ~MonitorOut, ~MonitorIn
  PROVE  /\ inRow' \in {inRow, NewRow}
         /\ \A id \in OutIds :
              outRow'[id] \in {outRow[id], NewRow, [outRow[id] EXCEPT !.auto = TRUE]}
<1>1. ShapeOK
  BY DEF KeysInv
<1>2. ASSUME NEW id \in OutIds, SwapOutCall(id)
      PROVE  UNCHANGED inRow /\ \A i \in OutIds : outRow'[i] \in {outRow[i], NewRow}
  <2>1. UNCHANGED inRow
    BY <1>2 DEF SwapOutCall, CreateSwapOut, SaveSwapOut, PayInvoice, inVars
  <2> QED BY <1>2, <2>1, OutCallGoesOn
<1>3. ASSUME NEW id \in OutIds, OutEnvironment(id)
      PROVE  UNCHANGED <<inRow, outRow>>
  BY <1>3 DEF OutEnvironment, OutSame, ServerSeesPayment, ServerFunds, ServerCancels,
              ServerExpires, ServerRefunds, ServerSeesSpend, ServerFinishes,
              ServerForgetsOut, PaymentAdvances, OutSpendIsMined, inVars
<1>4. CASE UpdateAutoSwap
  <2>1. /\ UNCHANGED inRow
        /\ UNCHANGED outRow \/ outRow' = [outRow EXCEPT ![auto.id].auto = TRUE]
    BY <1>4 DEF UpdateAutoSwap, inVars
  <2> QED BY <1>1, <2>1 DEF ShapeOK
<1>5. CASE AutoSwapStep /\ ~UpdateAutoSwap
  BY <1>5 DEF AutoSwapStep, AutoSwapLoop, RecoverPendingAutoSwaps, CheckWhileRunning,
         RunAutoSwapCheck, AttemptFails, AttemptSucceeds, WatcherStarts,
         WatcherEnds, outVars, inVars
<1>6. CASE \/ UserSwapsOut \/ DaemonStart \/ DaemonCrash \/ MonitorSwaps \/ UNCHANGED vars
           \/ UserSwapsIn \/ CreateSwapIn \/ SaveSwapIn \/ UserDeposits
           \/ UserDepositsAgain \/ RecoverReusedSwapAddress \/ InEnvironment
  BY <1>6
     DEF UserSwapsOut, DaemonStart, DaemonCrash, MonitorSwaps, vars, outVars, inVars,
         UserSwapsIn, CreateSwapIn, SaveSwapIn, UserDeposits,
         UserDepositsAgain, RecoverReusedSwapAddress, InSame, InServerSame, InEnvironment,
         ServerSeesDeposit, ServerConfirmsDeposit, TimeoutPasses,
         ServerSeesTimeout, ServerExpiresByAge, InvoiceIsSettled, InvoiceFails, ServerSeesPaid,
         ServerClaims, ServerSeesInSpend, ServerFinishesIn, ServerForgetsIn,
         InSpendIsMined
<1> QED BY <1>2, <1>3, <1>4, <1>5, <1>6 DEF DaemonNext

(* The parts of TypeInv, one by one: the rows, ...                         *)
LEMMA RowsFitStep ==
  ASSUME KeysInv, OutTruth, InTruth, RowsFit, AnswersFit, [DaemonNext]_vars
  PROVE  RowsFit'
<1>1. /\ RowFits(inRow) /\ RowFits(mon.row) /\ ShapeOK /\ PollOK(mon)
      /\ \A id \in OutIds : RowFits(outRow[id])
      /\ \A item \in mon.queue : RowFits(item.row)
      /\ mon.pc \notin {"sleep", "get"} => mon.next \in mapStatus
  BY DEF RowsFit, KeysInv
<1>2. RowFits(inRow') /\ \A id \in OutIds : RowFits(outRow'[id])
  <2>1. CASE MonitorOut \/ MonitorIn
    BY <2>1, PolledRows
  <2>2. RowFits(NewRow)
    BY DEF NewRow, NoRow, RowFits, Outcomes, mapStatus
  <2>3. \A id \in OutIds : RowFits([outRow[id] EXCEPT !.auto = TRUE])
    BY <1>1 DEF RowFits, ShapeOK, RowOK, AnyRow
  <2> QED BY <1>1, <2>1, <2>2, <2>3, OtherRows
<1>3. ASSUME NEW queue \in SUBSET Items, mon' = Continue(queue),
             \A item \in queue : RowFits(item.row)
      PROVE  RowsFit'
  <2>1. RowFits(mon.row)' /\ mon'.queue = queue /\ mon'.pc \in {"sleep", "get"}
    BY <1>3, RowsOfAPoll
  <2>2. RowFits(inRow)' /\ \A id \in OutIds : RowFits(outRow[id])'
    BY <1>2
  <2>3. \A item \in mon'.queue : RowFits(item.row)'
    BY <1>3, <2>1 DEF RowFits
  <2> QED BY <2>1, <2>2, <2>3 DEF RowsFit
<1>4. CASE MonitorOut \/ MonitorIn
  <2>1. PollFits(mon')
    BY <1>4, PolledRows
  <2>2. CASE mon' = NextSwap
    <3>1. mon.queue \ {Current} \in SUBSET Items
      BY <1>1 DEF PollOK, Polls
    <3> QED BY <1>1, <1>3, <2>2, <3>1 DEF NextSwap
  <2>3. CASE mon'.queue = mon.queue /\ RowFits(mon'.row) /\ mon'.next \in mapStatus
    BY <1>1, <1>2, <2>3 DEF RowsFit, RowFits
  <2> QED BY <2>1, <2>2, <2>3 DEF PollFits
<1>5. CASE MonitorSwaps
  <2> DEFINE swapIns == {[kind |-> "in", id |-> 0, row |-> inRow]}
             swapOuts == {[kind |-> "out", id |-> id, row |-> outRow[id]] : id \in OutIds}
             queue == {item \in swapIns \cup swapOuts : Pending(item.row)}
  <2>1. mon' = Continue(queue)
    BY <1>5 DEF MonitorSwaps
  <2>2. queue \in SUBSET Items
    BY <1>1 DEF ShapeOK, RowOK, Items
  <2>3. \A item \in queue : RowFits(item.row)
    BY <1>1
  <2> QED BY <1>3, <2>1, <2>2, <2>3
<1>6. CASE mon' = Continue({})
  BY <1>3, <1>6
<1>7. CASE UNCHANGED mon
  BY <1>1, <1>2, <1>7 DEF RowsFit, RowFits
<1> QED BY <1>4, <1>5, <1>6, <1>7, QueueGoesOn

(* Only the server that loses a swap answers 404 for one it had.           *)
LEMMA AnswersAre404 ==
  ASSUME KeysInv, OutTruth, [DaemonNext]_vars
  PROVE  /\ \A id \in OutIds :
              outServer'[id].status = "FORGOTTEN" => outServer'[id] \in {outServer[id], Forgotten}
         /\ inServer'.status = "FORGOTTEN" => inServer' \in {inServer, Forgotten}
<1>1. ShapeOK
  BY DEF KeysInv
<1>2. ASSUME NEW id \in OutIds, NEW view, ServerMoves(id, view), view.status # "FORGOTTEN"
      PROVE  outServer'[id].status # "FORGOTTEN"
  BY <1>1, <1>2 DEF ServerMoves, ShapeOK, ServerOK
<1>3. ASSUME NEW view, ServerInMoves(view), view.status # "FORGOTTEN"
      PROVE  inServer'.status # "FORGOTTEN"
  BY <1>1, <1>3 DEF ServerInMoves, ShapeOK, ServerOK
<1>4. ASSUME NEW status, status # "FORGOTTEN"
      PROVE  At(status).status # "FORGOTTEN"
  BY <1>4 DEF At
<1>5. \A outcome : Ended(outcome).status # "FORGOTTEN"
  BY DEF Ended
<1>6. ASSUME NEW id \in OutIds, OutEnvironment(id), NEW i \in OutIds,
             outServer'[i].status = "FORGOTTEN"
      PROVE  outServer'[i] \in {outServer[i], Forgotten}
  <2>1. \/ outServer' = outServer
        \/ outServer' = [outServer EXCEPT ![id] = Forgotten]
        \/ \E view : ServerMoves(id, view) /\ view.status # "FORGOTTEN"
    <3>1. CASE ServerSeesPayment(id) \/ ServerFunds(id) \/ ServerExpires(id)
      BY <1>4, <3>1 DEF ServerSeesPayment, ServerFunds, ServerExpires
    <3>2. CASE ServerCancels(id) \/ ServerFinishes(id)
      BY <1>5, <3>2 DEF ServerCancels, ServerFinishes
    <3>3. CASE ServerSeesSpend(id)
      <4>1. PICK status \in {"CONTRACT_REFUNDED_UNCONFIRMED", "CONTRACT_CLAIMED_UNCONFIRMED"} :
              ServerMoves(id, At(status))
        BY <3>3 DEF ServerSeesSpend
      <4> QED BY <1>4, <4>1
    <3>4. CASE \/ ServerRefunds(id) \/ ServerForgetsOut(id) \/ PaymentAdvances(id)
               \/ OutSpendIsMined(id)
      BY <3>4 DEF ServerRefunds, ServerForgetsOut, PaymentAdvances, OutSpendIsMined
    <3> QED BY <1>6, <3>1, <3>2, <3>3, <3>4 DEF OutEnvironment
  <2>2. i # id => outServer'[i] = outServer[i]
    BY <1>1, <2>1 DEF ServerMoves, ShapeOK
  <2>3. outServer' = [outServer EXCEPT ![id] = Forgotten] => outServer'[id] = Forgotten
    BY <1>1 DEF ShapeOK
  <2> QED BY <1>2, <1>6, <2>1, <2>2, <2>3
<1>7. CASE InEnvironment
  <2>1. UNCHANGED outServer
    BY <1>7 DEF InEnvironment, ServerSeesDeposit, ServerConfirmsDeposit, TimeoutPasses,
         ServerSeesTimeout, ServerExpiresByAge, InvoiceIsSettled, InvoiceFails, ServerSeesPaid,
         ServerClaims, ServerSeesInSpend, ServerFinishesIn, ServerForgetsIn,
         InSpendIsMined, InServerSame, InSame, outVars
  <2>2. inServer'.status = "FORGOTTEN" => inServer' \in {inServer, Forgotten}
    <3>1. CASE ServerSeesDeposit \/ ServerConfirmsDeposit
      BY <1>3, <1>4, <3>1 DEF ServerSeesDeposit, ServerConfirmsDeposit
    <3>2. CASE ServerSeesTimeout \/ ServerExpiresByAge \/ ServerFinishesIn
      BY <1>3, <1>4, <1>5, <3>2 DEF ServerSeesTimeout, ServerExpiresByAge, ServerFinishesIn
    <3>3. CASE ServerSeesPaid
      BY <1>3, <3>3 DEF ServerSeesPaid
    <3>4. CASE ServerSeesInSpend
      <4>1. PICK status \in {"CONTRACT_REFUNDED_UNCONFIRMED", "CONTRACT_CLAIMED_UNCONFIRMED"} :
              ServerInMoves(At(status))
        BY <3>4 DEF ServerSeesInSpend
      <4> QED BY <1>3, <1>4, <4>1
    <3>5. CASE \/ TimeoutPasses \/ InvoiceIsSettled \/ InvoiceFails \/ ServerClaims
               \/ ServerForgetsIn \/ InSpendIsMined
      BY <3>5 DEF TimeoutPasses, InvoiceIsSettled, InvoiceFails, ServerClaims,
                  ServerForgetsIn, InSpendIsMined
    <3> QED BY <1>7, <3>1, <3>2, <3>3, <3>4, <3>5 DEF InEnvironment
  <2> QED BY <2>1, <2>2
<1>8. Created.status # "FORGOTTEN"
  BY DEF Created, NoAnswer
<1>9. ASSUME NEW id \in OutIds, SwapOutCall(id)
      PROVE  /\ UNCHANGED inServer
             /\ \A i \in OutIds : outServer'[i] \in {outServer[i], Created}
  <2>1. /\ UNCHANGED inServer
        /\ UNCHANGED outServer \/ outServer' = [outServer EXCEPT ![id] = Created]
    BY <1>9 DEF SwapOutCall, CreateSwapOut, SaveSwapOut, PayInvoice, inVars
  <2> QED BY <1>1, <2>1 DEF ShapeOK
<1>10. ASSUME NEW id \in OutIds, OutEnvironment(id)
       PROVE  UNCHANGED inServer
  BY <1>10 DEF OutEnvironment, OutSame, ServerSeesPayment, ServerFunds, ServerCancels,
               ServerExpires, ServerRefunds, ServerSeesSpend, ServerFinishes,
               ServerForgetsOut, PaymentAdvances, OutSpendIsMined, inVars
<1>11. CASE CreateSwapIn
  BY <1>8, <1>11 DEF CreateSwapIn, InSame, outVars
<1>12. CASE MonitorOut \/ MonitorIn
  BY <1>12, OutPollGoesOn, InPollGoesOn DEF outVars, inVars
<1>13. CASE \/ UserSwapsOut \/ AutoSwapStep \/ DaemonStart \/ DaemonCrash \/ MonitorSwaps
            \/ UserSwapsIn \/ SaveSwapIn \/ UserDeposits \/ UNCHANGED vars
            \/ UserDepositsAgain \/ RecoverReusedSwapAddress
  <2>1. UNCHANGED <<outServer, inServer>>
    BY <1>13
       DEF UserSwapsOut, AutoSwapStep, AutoSwapLoop, RecoverPendingAutoSwaps,
           CheckWhileRunning, RunAutoSwapCheck, AttemptFails, AttemptSucceeds,
           UpdateAutoSwap, WatcherStarts, WatcherEnds, DaemonStart, DaemonCrash,
           MonitorSwaps, UserSwapsIn, SaveSwapIn, UserDeposits, UserDepositsAgain,
           RecoverReusedSwapAddress, InSame, vars, outVars, inVars
  <2> QED BY <2>1
<1> QED BY <1>6, <1>7, <1>8, <1>9, <1>10, <1>11, <1>12, <1>13 DEF DaemonNext

(* ... the answers, ...                                                    *)
LEMMA AnswersFitStep ==
  ASSUME KeysInv, OutTruth, InTruth, AnswersFit, [DaemonNext]_vars
  PROVE  AnswersFit'
<1>1. PollOK(mon) /\ ShapeOK
  BY DEF KeysInv
<1>2. \A id \in OutIds : OutGoesOn(id) /\ RowGoesOn(id)
  BY StepGoesOn
<1>3. \A item \in mon'.queue : item.kind = "out" => outServer'[item.id].status # "NONE"
  <2>1. ASSUME NEW item \in mon.queue, item.kind = "out"
        PROVE  outServer'[item.id].status # "NONE"
    <3>1. item.id \in OutIds /\ outServer[item.id].status # "NONE"
      BY <1>1, <2>1 DEF PollOK, Polls, Items, AnswersFit
    <3> QED BY <1>2, <3>1 DEF OutGoesOn
  <2>2. CASE MonitorSwaps
    <3>1. ASSUME NEW item \in mon'.queue, item.kind = "out"
          PROVE  outServer'[item.id].status # "NONE"
      <4>1. mon'.queue = {i \in {[kind |-> "in", id |-> 0, row |-> inRow]} \cup
                {[kind |-> "out", id |-> id, row |-> outRow[id]] : id \in OutIds} :
                Pending(i.row)}
        BY <2>2 DEF MonitorSwaps, Continue, Asleep, Poll
      <4>2. item.id \in OutIds /\ Pending(outRow[item.id])
        BY <3>1, <4>1
      <4> QED BY <1>2, <4>2 DEF OutGoesOn, AnswersFit, Pending
    <3> QED BY <3>1
  <2>3. CASE MonitorOut \/ MonitorIn
    <3>1. mon' = NextSwap \/ mon'.queue = mon.queue
      BY <2>3, OutPollGoesOn, InPollGoesOn
    <3>2. NextSwap.queue \subseteq mon.queue
      BY DEF NextSwap, Continue, Asleep, Poll
    <3> QED BY <2>1, <3>1, <3>2
  <2>4. CASE mon' = Continue({}) \/ UNCHANGED mon
    BY <2>1, <2>4 DEF Continue, Asleep, Poll
  <2> QED BY <2>2, <2>3, <2>4, QueueGoesOn
<1>4. ASSUME NEW id \in OutIds, outRow'[id].status # "UNSAVED"
      PROVE  outServer'[id].status # "NONE"
  <2>1. outServer[id].status # "NONE"
    <3>1. CASE outRow'[id].status = outRow[id].status
      BY <1>4, <3>1 DEF AnswersFit
    <3>2. CASE call[id].pc = "save"
      BY <3>2 DEF OutTruth, OutOK
    <3>3. CASE Polling("out", "save") /\ id = Current.id
      <4>1. Current \in mon.queue /\ Current.kind = "out"
        BY <1>1, <3>3, FirstIsOne DEF Polling, Current, PollOK, Polls
      <4> QED BY <3>3, <4>1 DEF AnswersFit
    <3> QED BY <1>2, <3>1, <3>2, <3>3 DEF RowGoesOn
  <2> QED BY <1>2, <2>1 DEF OutGoesOn
<1>5. Forgotten.outcome = "NONE"
  BY DEF Forgotten, NoAnswer
<1> QED BY <1>3, <1>4, <1>5, AnswersAre404 DEF AnswersFit

(* ... and the process with its goroutines.                                *)
LEMMA ProcessFitsStep ==
  ASSUME ShapeOK, MarkInv, WatchInv, ProcessFits, [DaemonNext]_vars
  PROVE  ProcessFits'
<1>1. UNCHANGED script /\ script.crashes \in Nat /\ script.goroutines \in Nat
  BY ScriptStays, DaemonAssumption DEF ShapeOK, ScriptKinds
<1>2. ASSUME UNCHANGED <<up, crashes, running, watchers>>
      PROVE  ProcessFits'
  BY <1>1, <1>2 DEF ProcessFits, goroutines
<1>3. ASSUME NEW ids, GoMonitor(ids), NEW id \in OutIds
      PROVE  goroutines(id)' <= script.goroutines
  <2>1. /\ watchers[id].new \in Nat /\ watchers[id].on \in Nat
        /\ watchers[id].new + watchers[id].on <= script.goroutines
    BY DEF ProcessFits, goroutines, WatchInv
  <2>2. CASE id \in ids /\ watchers[id].new + watchers[id].on < script.goroutines
    <3>1. watchers'[id] = [watchers[id] EXCEPT !.new = @ + 1]
      BY <1>3, <2>2 DEF GoMonitor, goroutines
    <3>2. watchers'[id].new = watchers[id].new + 1 /\ watchers'[id].on = watchers[id].on
      BY <3>1 DEF WatchInv
    <3> QED BY <1>1, <2>1, <2>2, <3>2 DEF goroutines
  <2>3. CASE ~(id \in ids /\ watchers[id].new + watchers[id].on < script.goroutines)
    <3>1. watchers'[id] = watchers[id]
      BY <1>3, <2>3 DEF GoMonitor, goroutines
    <3> QED BY <2>1, <3>1 DEF goroutines
  <2> QED BY <2>2, <2>3
<1>4. CASE RecoverPendingAutoSwaps \/ CheckWhileRunning \/ UpdateAutoSwap
  <2>1. /\ UNCHANGED <<up, crashes>> /\ \E ids : GoMonitor(ids)
        /\ running' \in {running, GetPendingAutoSwapOuts}
    BY <1>4 DEF RecoverPendingAutoSwaps, CheckWhileRunning, UpdateAutoSwap, procVars
  <2>2. GetPendingAutoSwapOuts \subseteq OutIds
    BY DEF GetPendingAutoSwapOuts
  <2> QED BY <1>1, <1>3, <2>1, <2>2 DEF ProcessFits
<1>5. CASE AttemptSucceeds
  <2>1. /\ auto.id \in OutIds /\ running' = running \cup {auto.id}
        /\ UNCHANGED <<up, crashes, watchers>>
    BY <1>5 DEF AttemptSucceeds, MarkInv, MarkedIsRunning, procVars
  <2> QED BY <1>1, <2>1 DEF ProcessFits, goroutines
<1>6. ASSUME NEW id \in OutIds, WatcherStarts(id) \/ WatcherEnds(id)
      PROVE  ProcessFits'
  <2>1. /\ UNCHANGED <<up, crashes>> /\ running' \subseteq running
        /\ \A i \in OutIds \ {id} : watchers'[i] = watchers[i]
    BY <1>6 DEF WatcherStarts, WatcherEnds, WatchInv, procVars
  <2>2. watchers[id].new \in Nat /\ watchers[id].on \in Nat
    BY DEF WatchInv
  <2>3. goroutines(id)' <= goroutines(id)
    <3>1. CASE WatcherStarts(id)
      <4>1. /\ watchers' = [watchers EXCEPT ![id] = [new |-> watchers[id].new - 1,
                                                     on |-> watchers[id].on + 1]]
        BY <3>1 DEF WatcherStarts
      <4> QED BY <2>2, <4>1 DEF WatchInv, goroutines
    <3>2. CASE WatcherEnds(id)
      <4>1. watchers' = [watchers EXCEPT ![id].on = watchers[id].on - 1]
        BY <3>2 DEF WatcherEnds
      <4>2. watchers'[id].new = watchers[id].new /\ watchers'[id].on = watchers[id].on - 1
        BY <4>1 DEF WatchInv
      <4> QED BY <2>2, <4>2 DEF goroutines
    <3> QED BY <1>6, <3>1, <3>2
  <2>4. goroutines(id) \in Nat /\ goroutines(id) <= script.goroutines
    BY <2>2 DEF goroutines, ProcessFits
  <2>5. goroutines(id)' \in Int
    <3>1. watchers'[id].new \in Int /\ watchers'[id].on \in Int
      BY <1>6, <2>2, WatchStep DEF WatchInv
    <3> QED BY <3>1 DEF goroutines
  <2>6. goroutines(id)' <= script.goroutines
    BY <1>1, <2>3, <2>4, <2>5
  <2>7. \A i \in OutIds \ {id} : goroutines(i)' <= script.goroutines
    BY <2>1 DEF goroutines, ProcessFits
  <2> QED BY <1>1, <2>1, <2>6, <2>7 DEF ProcessFits
<1>7. CASE DaemonCrash
  <2>1. /\ up' = FALSE /\ running' = {} /\ crashes < script.crashes
        /\ crashes' = crashes + 1 /\ watchers' = [id \in OutIds |-> NoWatcher]
    BY <1>7 DEF DaemonCrash
  <2>2. crashes' \in 0 .. script.crashes
    BY <1>1, <2>1 DEF ProcessFits
  <2>3. \A id \in OutIds : watchers'[id].new = 0 /\ watchers'[id].on = 0
    BY <2>1 DEF NoWatcher
  <2>4. \A id \in OutIds : goroutines(id)' <= script.goroutines
    BY <1>1, <2>3 DEF goroutines
  <2> QED BY <1>1, <2>1, <2>2, <2>4 DEF ProcessFits
<1>8. CASE DaemonStart
  BY <1>1, <1>8 DEF DaemonStart, ProcessFits, goroutines, autoVars
<1>9. ASSUME NEW id \in OutIds, SwapOutCall(id) \/ OutEnvironment(id)
      PROVE  ProcessFits'
  <2>1. UNCHANGED <<procVars, autoVars>>
    BY <1>9 DEF SwapOutCall, CreateSwapOut, SaveSwapOut, PayInvoice, OutEnvironment, OutSame,
                ServerSeesPayment, ServerFunds, ServerCancels, ServerExpires, ServerRefunds,
                ServerSeesSpend, ServerFinishes, ServerForgetsOut, PaymentAdvances,
                OutSpendIsMined
  <2> QED BY <1>2, <2>1 DEF procVars, autoVars
<1>10. CASE MonitorOut \/ MonitorIn
  <2>1. UNCHANGED <<procVars, autoVars>>
    BY <1>10 DEF MonitorOut, MonitorSwapOut, ClaimSwapOut, GetFeesSwapOut, MonitorOutFails,
                MonitorSavesOut, MonitorIn, MonitorSwapIn, FetchLockTx, InitiateRefund,
                getPreimage, MonitorInFails, MonitorSavesIn, InSame
  <2> QED BY <1>2, <2>1 DEF procVars, autoVars
<1>11. CASE \/ UserSwapsOut \/ RunAutoSwapCheck \/ AttemptFails \/ MonitorSwaps
            \/ UserSwapsIn \/ CreateSwapIn \/ SaveSwapIn \/ UserDeposits \/ UNCHANGED vars
            \/ UserDepositsAgain \/ RecoverReusedSwapAddress \/ InEnvironment
  <2>1. UNCHANGED <<procVars, running, watchers>>
    BY <1>11
       DEF UserSwapsOut, RunAutoSwapCheck, AttemptFails, MonitorSwaps, vars, autoVars,
           UserSwapsIn, CreateSwapIn, SaveSwapIn, UserDeposits, UserDepositsAgain,
           RecoverReusedSwapAddress, InSame, InServerSame, InEnvironment,
           ServerSeesDeposit, ServerConfirmsDeposit, TimeoutPasses,
           ServerSeesTimeout, ServerExpiresByAge, InvoiceIsSettled, InvoiceFails, ServerSeesPaid,
           ServerClaims, ServerSeesInSpend, ServerFinishesIn, ServerForgetsIn,
           InSpendIsMined
  <2> QED BY <1>2, <2>1 DEF procVars
<1> QED BY <1>4, <1>5, <1>6, <1>7, <1>8, <1>9, <1>10, <1>11
        DEF DaemonNext, AutoSwapStep, AutoSwapLoop

(* The invariant of the types.                                             *)
LEMMA TypesHold == DaemonSpec => []TypeInv
<1>1. DaemonInit /\ KeysInv => TypeInv
  <2> SUFFICES ASSUME DaemonInit, KeysInv PROVE TypeInv
    OBVIOUS
  <2>1. RowFits(NoRow)
    BY DEF RowFits, NoRow, Outcomes
  <2>2. RowsFit /\ AnswersFit
    BY <2>1 DEF RowsFit, AnswersFit, DaemonInit, Asleep, Poll, NoRow, NoAnswer
  <2>3. script.crashes \in Nat /\ script.goroutines \in Nat
    BY DaemonAssumption DEF KeysInv, ShapeOK, ScriptKinds
  <2>4. WatchInv /\ \A id \in OutIds : watchers[id].new = 0 /\ watchers[id].on = 0
    BY DEF DaemonInit, WatchInv, NoWatcher
  <2>5. ProcessFits
    <3>1. \A id \in OutIds : goroutines(id) <= script.goroutines
      BY <2>3, <2>4 DEF goroutines
    <3>2. up \in BOOLEAN /\ running \subseteq OutIds
      BY DEF DaemonInit
    <3>3. crashes \in 0 .. script.crashes
      BY <2>3 DEF DaemonInit
    <3> QED BY <3>1, <3>2, <3>3 DEF ProcessFits
  <2> QED BY <2>2, <2>4, <2>5 DEF TypeInv
<1>2. KeysInv /\ OutTruth /\ InTruth /\ MarkInv /\ TypeInv /\ [DaemonNext]_vars => TypeInv'
  BY RowsFitStep, AnswersFitStep, ProcessFitsStep, WatchStep DEF TypeInv, KeysInv
<1> QED BY <1>1, <1>2, TruthHolds, MarksHold, PTL DEF DaemonSpec

(* For any rates, faults, number of crashes and of goroutines: a row holds *)
(* a status and an outcome that the clients can map and a transaction of a *)
(* recommended rate, the bounds of the scenario are kept, and LND's balance*)
(* is never overdrawn.                                                     *)
THEOREM DaemonTypes == DaemonSpec => []DaemonTypeOK
<1>1. KeysInv /\ OutTruth /\ InTruth /\ BalanceInv /\ TypeInv => DaemonTypeOK
  <2> SUFFICES ASSUME KeysInv, OutTruth, InTruth, BalanceInv, TypeInv PROVE DaemonTypeOK
    OBVIOUS
  <2>1. ShapeOK /\ PollOK(mon) /\ RowsFit /\ ProcessFits /\ WatchInv
    BY DEF KeysInv, TypeInv
  <2>2. \A row \in AnyRow : RowFits(row) => row \in Rows
    BY DEF AnyRow, RowFits, Rows, Outcomes
  <2>3. outRow \in [OutIds -> Rows] /\ inRow \in Rows /\ mon.row \in Rows
    BY <2>1, <2>2 DEF ShapeOK, RowOK, PollOK, Polls, RowsFit
  <2>4. /\ \A id \in OutIds :
             outServer[id].status \in {"NONE", "FORGOTTEN"} \cup DOMAIN OutMoves
        /\ inServer.status \in {"NONE", "FORGOTTEN"} \cup DOMAIN InMoves
    BY DEF OutTruth, OutOK, OutStatuses, InTruth, InOK, InStatuses
  <2>5. outSpend \in [OutIds -> Spends] /\ inSpend \in Spends
    BY <2>1 DEF OutTruth, OutOK, InTruth, InOK, SpendOK, ShapeOK
  <2>6. GetChannelLocalBalance >= 0
    <3>1. /\ Paying(payment, SpentIds) \in Nat /\ script.balance \in Nat
          /\ Paying(payment, SpentIds) <= script.balance
      BY BalanceIsInt DEF BalanceInv, NothingOverdrawn
    <3> QED BY <3>1, BalanceIs
  <2> QED BY <2>1, <2>3, <2>4, <2>5, <2>6 DEF DaemonTypeOK, ProcessFits, WatchInv, ShapeOK
<1> QED BY <1>1, TruthHolds, BalanceHolds, TypesHold, PTL

=============================================================================
