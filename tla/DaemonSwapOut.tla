---------------------------- MODULE DaemonSwapOut ----------------------------
(***************************************************************************)
(* A swap-out as the daemon runs it: the gRPC call that creates and pays   *)
(* it, SwapMonitor's polls that claim its contract, and the parts of the   *)
(* server, of LND and of the chain they depend on.                         *)
(***************************************************************************)
EXTENDS DaemonState, FiniteSetsExt

CONSTANT RoutingFeeLimitPPM   \* AutoSwapConfig

ASSUME RoutingFeeAssumption == RoutingFeeLimitPPM \in Nat

(* A payment that took money from the local balance: its amount has the    *)
(* routing fee.                                                            *)
Spent(p) == p.state \in {"inflight", "held", "succeeded"}

GetChannelLocalBalance ==
    LET Amount(id) == payment[id].amount
    IN  script.balance - MapThenSumSet(Amount, {id \in OutIds : Spent(payment[id])})

SetCall(id, pc) == call' = [call EXCEPT ![id].pc = pc]

-----------------------------------------------------------------------------
(* Server.SwapOut, the gRPC handler.                                       *)

(* The amount is in the server's range and the address is of the network,  *)
(* or the call ends here.  Then the server creates the swap: it may do so  *)
(* and the answer be lost.                                                 *)
CreateSwapOut(id) ==
    /\ call[id].pc = "create"
    /\ \/ /\ SetCall(id, "save")
          /\ outServer' = [outServer EXCEPT ![id] = Created]
       \/ /\ Faulty("create_lost")
          /\ SetCall(id, "err")
          /\ outServer' = [outServer EXCEPT ![id] = Created]
       \/ /\ Faulty("server_down")
          /\ SetCall(id, "err")
          /\ UNCHANGED outServer
    /\ UNCHANGED <<procVars, mon, outRow, payment, outSpend, inVars, autoVars>>

PaysBeforeSaving(id) ==                                          \* mutant
    /\ call[id].pc = "save"
    /\ SetCall(id, "pay")
    /\ UNCHANGED <<procVars, mon, outRow, outServer, payment, outSpend, inVars,
                   autoVars>>

(* SaveSwapOut: the row has the claim key and the preimage.                *)
SaveSwapOut(id) ==
    /\ call[id].pc = "save"
    /\ \/ /\ outRow' = [outRow EXCEPT ![id] = NewRow]
          /\ SetCall(id, "pay")
       \/ /\ Faulty("save_fails")
          /\ SetCall(id, "err")
          /\ UNCHANGED outRow
    /\ UNCHANGED <<procVars, mon, outServer, payment, outSpend, inVars, autoVars>>

(* The routing fee LND may add, rounded down.  A user's SwapOut is of 1    *)
(* here: its limit of 0.5 % is 0 as well.                                  *)
FeeLimitSat(amount) == (amount * RoutingFeeLimitPPM) \div 1000000

(* LND fails a payment that its channels cannot carry.                     *)
SendPaymentV2(id) ==
    \E fee \in 0 .. FeeLimitSat(call[id].amount) :
      LET cost == call[id].amount + fee
      IN  payment' = [payment EXCEPT ![id] =
            [ state |-> IF cost <= GetChannelLocalBalance THEN "inflight" ELSE "failed",
              amount |-> cost ]]

(* PayInvoice returns at the payment's first update, whatever it says, or  *)
(* fails: before the payment is sent, or after.                            *)
PayInvoice(id) ==
    /\ call[id].pc = "pay"
    /\ \/ SetCall(id, "ok") /\ SendPaymentV2(id)
       \/ /\ Faulty("pay_fails")
          /\ SetCall(id, "err")
          /\ UNCHANGED payment
       \/ /\ Faulty("pay_ambiguous")
          /\ SetCall(id, "err") /\ SendPaymentV2(id)
    /\ UNCHANGED <<procVars, mon, outRow, outServer, outSpend, inVars, autoVars>>

SwapOutCall(id) == CreateSwapOut(id) \/ SaveSwapOut(id) \/ PayInvoice(id)

(* A user calls SwapOut.                                                   *)
UserSwapsOut ==
    /\ up /\ script.user = "out"
    /\ call[1].pc = "off" /\ outServer[1].status = "NONE"
    /\ call' = [call EXCEPT ![1] = [pc |-> "create", amount |-> 1]]
    /\ UNCHANGED <<procVars, mon, outRow, outServer, payment, outSpend, inVars,
                   autoVars>>

-----------------------------------------------------------------------------
(* SwapMonitor.MonitorSwapOut.                                             *)

Out == Current.id

ClaimsOnTransition(answer) ==                                    \* mutant
    LET poll == [mon EXCEPT !.row.copied = TRUE, !.next = answer.status,
                     !.changed = answer.status # mon.row.status \/ ~mon.row.copied]
    IN  CASE answer = Forgotten ->
               [mon EXCEPT !.pc = "save", !.next = "DONE", !.row.outcome = "FAILED"]
          [] /\ answer.status = "CONTRACT_FUNDED"
             /\ mon.row.status = "CONTRACT_FUNDED_UNCONFIRMED" ->
               [poll EXCEPT !.pc = "claim"]
          [] answer.status = "DONE" /\ answer.outcome = "SUCCESS" ->
               [poll EXCEPT !.pc = "fees", !.row.outcome = "SUCCESS"]
          [] OTHER -> SaveOrSkip([poll EXCEPT !.row.outcome = answer.outcome])

(* GetSwapOut, and the switch on the status it answers.  404 ends the swap *)
(* as FAILED; a funded contract is claimed at every poll, a success waits  *)
(* for its fees.  The first answer brings the refund key to copy, a later  *)
(* one the contract's address, with the status that follows.               *)
AfterGetSwapOut(answer) ==
    LET poll == [mon EXCEPT !.row.copied = TRUE, !.next = answer.status,
                     !.changed = answer.status # mon.row.status \/ ~mon.row.copied]
    IN  CASE answer = Forgotten ->
               [mon EXCEPT !.pc = "save", !.next = "DONE", !.row.outcome = "FAILED"]
          [] answer.status = "CONTRACT_FUNDED" -> [poll EXCEPT !.pc = "claim"]
          [] answer.status = "DONE" /\ answer.outcome = "SUCCESS" ->
               [poll EXCEPT !.pc = "fees", !.row.outcome = "SUCCESS"]
          [] OTHER -> SaveOrSkip([poll EXCEPT !.row.outcome = answer.outcome])

MonitorSwapOut ==
    /\ Polling("out", "get")
    /\ mon' = AfterGetSwapOut(GetSwapOut(Out))
    /\ UNCHANGED <<procVars, outVars, inVars, autoVars>>

(* The recommended rate, the build, the broadcast.  TxID is the transaction*)
(* that was built, whether a node accepted it or not.                      *)
ClaimSwapOut ==
    /\ Polling("out", "claim")
    /\ \E rate \in GetRecommendedFees :
         /\ rate <= 200
         /\ BuildClaimPSBT(mon.row, rate)
         /\ outSpend' = [outSpend EXCEPT ![Out] = Broadcast(@, rate)]
         /\ mon' = SaveOrSkip([mon EXCEPT !.row.tx = rate])
    /\ UNCHANGED <<procVars, outRow, outServer, payment, call, inVars, autoVars>>

(* Waits for the payment to end.                                           *)
MonitorPaymentRequest(id) == payment[id].state \in {"succeeded", "failed"}

FeesOfAnyTx ==                                                   \* mutant
    /\ Polling("out", "fees")
    /\ MonitorPaymentRequest(Out)
    /\ mon' = IF payment[Out].state = "succeeded" THEN SaveOrSkip(mon) ELSE NextSwap
    /\ UNCHANGED <<procVars, outVars, inVars, autoVars>>

(* The fee on the chain is that of the transaction TxID names.             *)
GetFeesSwapOut ==
    /\ Polling("out", "fees")
    /\ MonitorPaymentRequest(Out)
    /\ mon' = IF /\ payment[Out].state = "succeeded"
                 /\ GetFeeFromTxId(outSpend[Out], mon.row.tx)
                THEN SaveOrSkip(mon) ELSE NextSwap
    /\ UNCHANGED <<procVars, outVars, inVars, autoVars>>

(* Some rate the code may be told makes it give up for this poll.          *)
ClaimMayFail ==
    \E rate \in GetRecommendedFees : rate > 200 \/ ~BuildClaimPSBT(mon.row, rate)

(* Any other failed request: the error is logged, the row is not saved.    *)
MonitorOutFails ==
    /\ \/ Polling("out", "get") /\ Faulty("server_down")
       \/ /\ Polling("out", "claim")
          /\ ClaimMayFail \/ Faulty("server_down") \/ Faulty("mempool_down")
       \/ Polling("out", "fees") /\ Faulty("mempool_down")
       \/ Polling("out", "save") /\ Faulty("save_fails")
    /\ mon' = NextSwap
    /\ UNCHANGED <<procVars, outVars, inVars, autoVars>>

(* SaveSwapOut writes the whole row read at the start of the poll.         *)
MonitorSavesOut ==
    /\ Polling("out", "save")
    /\ outRow' = [outRow EXCEPT ![Out] = [mon.row EXCEPT !.status = mon.next]]
    /\ mon' = NextSwap
    /\ UNCHANGED <<procVars, outServer, payment, outSpend, call, inVars, autoVars>>

MonitorOut ==
    \/ MonitorSwapOut \/ ClaimSwapOut \/ GetFeesSwapOut
    \/ MonitorOutFails \/ MonitorSavesOut

-----------------------------------------------------------------------------
(* The server and its nodes, as SwapOut models them: no more than SwapView *)
(* and the chain allow.                                                    *)

OutIs(id, statuses) == outServer[id].status \in statuses

ServerMoves(id, view) ==
    /\ view \in OutMoves[outServer[id].status]
    /\ outServer' = [outServer EXCEPT ![id].status = view.status,
                                      ![id].outcome = view.outcome]

OutSame == UNCHANGED <<procVars, mon, outRow, call, inVars, autoVars>>

(* A held payment, and the contract the server funds for it.               *)
ServerSeesPayment(id) ==
    /\ OutIs(id, {"CREATED"}) /\ payment[id].state = "held"
    /\ ServerMoves(id, At("INVOICE_PAYMENT_INTENT_RECEIVED"))
    /\ OutSame /\ UNCHANGED <<payment, outSpend>>

ServerFunds(id) ==
    /\ \/ OutIs(id, {"INVOICE_PAYMENT_INTENT_RECEIVED"})
          /\ ServerMoves(id, At("CONTRACT_FUNDED_UNCONFIRMED"))
       \/ OutIs(id, {"CONTRACT_FUNDED_UNCONFIRMED"})
          /\ ServerMoves(id, At("CONTRACT_FUNDED"))
    /\ OutSame /\ UNCHANGED <<payment, outSpend>>

(* The invoice is cancelled: it expired, or the contract was not funded.   *)
ServerCancels(id) ==
    /\ \/ OutIs(id, {"CREATED"}) /\ ServerMoves(id, Ended("EXPIRED"))
       \/ OutIs(id, {"INVOICE_PAYMENT_INTENT_RECEIVED"})
          /\ \E outcome \in {"ERROR", "EXPIRED"} : ServerMoves(id, Ended(outcome))
    /\ payment' = [payment EXCEPT ![id].state = IF @ = "none" THEN "none" ELSE "failed"]
    /\ OutSame /\ UNCHANGED outSpend

ServerExpires(id) ==
    /\ Faulty("timeout") /\ OutIs(id, {"CONTRACT_FUNDED"})
    /\ ServerMoves(id, At("CONTRACT_EXPIRED"))
    /\ OutSame /\ UNCHANGED <<payment, outSpend>>

ServerRefunds(id) ==
    /\ OutIs(id, {"CONTRACT_EXPIRED"}) /\ outSpend[id] = NoSpend
    /\ outSpend' = [outSpend EXCEPT ![id].pool = Theirs]
    /\ OutSame /\ UNCHANGED <<payment, outServer>>

ServerSeesSpend(id) ==
    /\ \E tx \in {outSpend[id].pool, outSpend[id].mined} \ {None} :
         ServerMoves(id, At(IF tx = Theirs THEN "CONTRACT_REFUNDED_UNCONFIRMED"
                                           ELSE "CONTRACT_CLAIMED_UNCONFIRMED"))
    /\ OutSame /\ UNCHANGED <<payment, outSpend>>

(* The invoice is settled or cancelled once the spend has confirmed.       *)
ServerFinishes(id) ==
    /\ \/ OutIs(id, {"CONTRACT_CLAIMED_UNCONFIRMED"}) /\ outSpend[id].mined > None
          /\ ServerMoves(id, Ended("SUCCESS"))
          /\ payment' = [payment EXCEPT ![id].state = "succeeded"]
       \/ OutIs(id, {"CONTRACT_REFUNDED_UNCONFIRMED"}) /\ outSpend[id].mined = Theirs
          /\ ServerMoves(id, Ended("REFUNDED"))
          /\ payment' = [payment EXCEPT ![id].state = "failed"]
    /\ OutSame /\ UNCHANGED outSpend

(* The server loses a swap that holds nothing.                             *)
ServerForgetsOut(id) ==
    /\ Faulty("server_forgets")
    /\ OutIs(id, {"CREATED"}) /\ payment[id].state \in {"none", "failed"}
    /\ outServer' = [outServer EXCEPT ![id] = Forgotten]
    /\ OutSame /\ UNCHANGED <<payment, outSpend>>

(* LND finds a route to the open invoice, or gives up.                     *)
PaymentAdvances(id) ==
    /\ payment[id].state = "inflight"
    /\ \/ OutIs(id, {"CREATED"}) /\ payment' = [payment EXCEPT ![id].state = "held"]
       \/ payment' = [payment EXCEPT ![id].state = "failed"]
    /\ OutSame /\ UNCHANGED <<outServer, outSpend>>

OutSpendIsMined(id) ==
    /\ outSpend[id].pool # None
    /\ outSpend' = [outSpend EXCEPT ![id] = Mined(@)]
    /\ OutSame /\ UNCHANGED <<payment, outServer>>

OutEnvironment(id) ==
    \/ ServerSeesPayment(id) \/ ServerFunds(id)
    \/ ServerCancels(id) \/ ServerExpires(id) \/ ServerRefunds(id)
    \/ ServerSeesSpend(id) \/ ServerFinishes(id) \/ ServerForgetsOut(id)
    \/ PaymentAdvances(id) \/ OutSpendIsMined(id)

=============================================================================
