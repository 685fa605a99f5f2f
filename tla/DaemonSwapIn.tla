---------------------------- MODULE DaemonSwapIn ----------------------------
(***************************************************************************)
(* A swap-in as the daemon runs it: the gRPC call that creates it,         *)
(* SwapMonitor's polls that refund an expired contract, the recovery of a  *)
(* deposit to a used address, and the parts of the server, of LND and of   *)
(* the chain they depend on.                                               *)
(***************************************************************************)
EXTENDS DaemonState

CONSTANT MinRelayFee   \* minRelayFee, in sats

ASSUME MinRelayFeeAssumption == MinRelayFee \in Nat

Deposits == {"none", "exact", "other"}

InSame == UNCHANGED <<procVars, outVars, autoVars>>

-----------------------------------------------------------------------------
(* Server.SwapIn, the gRPC handler: the server creates the swap for the    *)
(* invoice and the key, the row is saved, and only then does the user      *)
(* learn the contract's address.  The invoice is of the daemon's own LND,  *)
(* or the user brought one.                                                *)

UserSwapsIn ==
    /\ up /\ script.user = "in" /\ inCall = "off" /\ inServer.status = "NONE"
    /\ inCall' = "create"
    /\ \E own \in BOOLEAN : inInvoice' = [own |-> own, state |-> "open"]
    /\ InSame /\ UNCHANGED <<mon, inRow, inServer, deposit, inSpend>>

CreateSwapIn ==
    /\ inCall = "create"
    /\ \/ inCall' = "save" /\ inServer' = Created
       \/ Faulty("create_lost") /\ inCall' = "err" /\ inServer' = Created
       \/ Faulty("server_down") /\ inCall' = "err" /\ UNCHANGED inServer
    /\ InSame /\ UNCHANGED <<mon, inRow, deposit, inSpend, inInvoice>>

(* SaveSwapIn: the row has the refund key.                                 *)
SaveSwapIn ==
    /\ inCall = "save"
    /\ \/ inRow' = NewRow /\ inCall' = "ok"
       \/ Faulty("save_fails") /\ inCall' = "err" /\ UNCHANGED inRow
    /\ InSame /\ UNCHANGED <<mon, inServer, deposit, inSpend, inInvoice>>

(* The user pays to the address, the amount asked for or another one, and  *)
(* also after the contract's timeout or the end of the swap.               *)
UserDeposits ==
    /\ inCall = "ok" /\ deposit.sent = "none"
    /\ \E d \in Deposits \ {"none"} : deposit' = [deposit EXCEPT !.sent = d]
    /\ InSame /\ UNCHANGED <<mon, inRow, inServer, inSpend, inInvoice, inCall>>

-----------------------------------------------------------------------------
(* SwapMonitor.MonitorSwapIn.                                              *)

NoNotFoundCase(answer) ==                                        \* mutant
    LET poll == [mon EXCEPT !.next = answer.status,
                     !.changed = answer.status # mon.row.status]
    IN  CASE answer.status = "CONTRACT_FUNDED_UNCONFIRMED" ->
               SaveOrSkip([poll EXCEPT !.row.lockTx = TRUE])
          [] answer.status = "DONE" /\ answer.outcome = "SUCCESS" ->
               [poll EXCEPT !.pc = "preimage", !.row.outcome = "SUCCESS"]
          [] answer.status = "CONTRACT_EXPIRED" /\ ~mon.row.refundAt ->
               [poll EXCEPT !.pc = "refund", !.row.refundAt = TRUE]
          [] OTHER -> SaveOrSkip(poll)

(* GetSwapIn, and the switch on the status it answers.  A refund is asked  *)
(* for once: RefundRequestedAt is set before it is made.                   *)
AfterGetSwapIn(answer) ==
    LET poll == [mon EXCEPT !.next = answer.status,
                     !.changed = answer.status # mon.row.status]
    IN  CASE answer = Forgotten ->
               [mon EXCEPT !.pc = "save", !.next = "DONE", !.row.outcome = "FAILED"]
          [] answer.status = "CONTRACT_FUNDED_UNCONFIRMED" ->
               SaveOrSkip([poll EXCEPT !.row.lockTx = TRUE])
          [] answer.status = "DONE" /\ answer.outcome = "SUCCESS" ->
               [poll EXCEPT !.pc = "preimage", !.row.outcome = "SUCCESS"]
          [] answer.status = "CONTRACT_EXPIRED" /\ ~mon.row.refundAt ->
               [poll EXCEPT !.pc = "refund", !.row.refundAt = TRUE]
          [] answer.status = "DONE" /\ answer.outcome # "SUCCESS" ->
               SaveOrSkip([poll EXCEPT !.row.outcome = answer.outcome])
          [] OTHER -> SaveOrSkip(poll)

MonitorSwapIn ==
    /\ Polling("in", "get")
    /\ mon' = AfterGetSwapIn(GetSwapIn)
    /\ InSame /\ UNCHANGED inVars

(* InitiateRefund.  A lock transaction that was not recorded is fetched    *)
(* from the server and saved, with RefundRequestedAt and the status of the *)
(* last save.                                                              *)
FetchLockTx ==
    /\ Polling("in", "refund") /\ ~mon.row.lockTx
    /\ inRow' = [mon.row EXCEPT !.lockTx = TRUE]
    /\ mon' = [mon EXCEPT !.row.lockTx = TRUE]
    /\ InSame /\ UNCHANGED <<inServer, deposit, inSpend, inInvoice, inCall>>

(* The build, the broadcast, and RefundTxID.                               *)
InitiateRefund ==
    /\ Polling("in", "refund") /\ mon.row.lockTx
    /\ \E rate \in GetRecommendedFees :
         /\ rate <= 200
         /\ BuildRefundPSBT(mon.row, rate)
         /\ inSpend' = Broadcast(inSpend, rate)
         /\ mon' = SaveOrSkip([mon EXCEPT !.row.tx = rate])
    /\ InSame /\ UNCHANGED <<inRow, inServer, deposit, inInvoice, inCall>>

(* Waits for an invoice of this LND to be settled, and fails for an invoice*)
(* it does not have.                                                       *)
MonitorPaymentReception == ~inInvoice.own \/ inInvoice.state = "settled"

getPreimage ==
    /\ Polling("in", "preimage")
    /\ MonitorPaymentReception
    /\ mon' = IF inInvoice.own THEN SaveOrSkip(mon) ELSE NextSwap
    /\ InSame /\ UNCHANGED inVars

RefundMayFail ==
    \E rate \in GetRecommendedFees :
      rate > 200 \/ (mon.row.lockTx /\ ~BuildRefundPSBT(mon.row, rate))

(* Any failed request: the error is logged, the row is not saved.          *)
MonitorInFails ==
    /\ \/ Polling("in", "get") /\ Faulty("server_down")
       \/ /\ Polling("in", "refund")
          /\ \/ RefundMayFail \/ Faulty("mempool_down") \/ Faulty("server_down")
             \/ ~mon.row.lockTx /\ Faulty("save_fails")
       \/ Polling("in", "save") /\ Faulty("save_fails")
    /\ mon' = NextSwap
    /\ InSame /\ UNCHANGED inVars

MonitorSavesIn ==
    /\ Polling("in", "save")
    /\ inRow' = [mon.row EXCEPT !.status = mon.next]
    /\ mon' = NextSwap
    /\ InSame /\ UNCHANGED <<inServer, deposit, inSpend, inInvoice, inCall>>

MonitorIn ==
    \/ MonitorSwapIn \/ FetchLockTx \/ InitiateRefund \/ getPreimage
    \/ MonitorInFails \/ MonitorSavesIn

-----------------------------------------------------------------------------
(* Server.RecoverReusedSwapAddress: the user sent money to the contract's  *)
(* address again, and asks for it back.                                    *)
UserDepositsAgain ==
    /\ deposit.sent # "none" /\ deposit.again = "none"
    /\ deposit' = [deposit EXCEPT !.again = "sent"]
    /\ InSame /\ UNCHANGED <<mon, inRow, inServer, inSpend, inInvoice, inCall>>

(* The size is that of the transaction without its witness, and is only    *)
(* used for rates of 135 and more.                                         *)
BuildPSBTFromOutpoint(feeRate) ==
    LET fee == IF feeRate < 135 THEN MinRelayFee ELSE feeRate * (VSize \div 2)
    IN  fee < ContractValue

(* The swap is found by the address of the outpoint; its lock time must    *)
(* have passed, or the node refuses the transaction.                       *)
RecoverReusedSwapAddress ==
    /\ up /\ deposit.again = "sent" /\ inRow # NoRow /\ deposit.expired
    /\ \E rate \in GetRecommendedFees : rate <= 200 /\ BuildPSBTFromOutpoint(rate)
    /\ deposit' = [deposit EXCEPT !.again = "recovered"]
    /\ InSame /\ UNCHANGED <<mon, inRow, inServer, inSpend, inInvoice, inCall>>

-----------------------------------------------------------------------------
(* The server and its nodes, as SwapIn models them: no more than SwapView  *)
(* and the chain allow.                                                    *)

ServerInMoves(view) ==
    /\ view \in InMoves[inServer.status]
    /\ inServer' = [inServer EXCEPT !.status = view.status, !.outcome = view.outcome]

InIs(statuses) == inServer.status \in statuses

InServerSame == InSame /\ UNCHANGED <<mon, inRow, inCall>>

ServerSeesDeposit ==
    /\ InIs({"CREATED"}) /\ deposit.sent # "none"
    /\ LET view == At(IF deposit.sent = "exact" THEN "CONTRACT_FUNDED_UNCONFIRMED"
                      ELSE "CONTRACT_AMOUNT_MISMATCH_UNCONFIRMED")
       IN  ServerInMoves(view)
    /\ InServerSame /\ UNCHANGED <<deposit, inSpend, inInvoice>>

(* A confirmed deposit; the payment of the invoice starts with it.         *)
ServerConfirmsDeposit ==
    /\ \/ InIs({"CONTRACT_FUNDED_UNCONFIRMED"})
          /\ ServerInMoves(At("CONTRACT_FUNDED"))
          /\ inInvoice' = [inInvoice EXCEPT !.state = "paying"]
       \/ InIs({"CONTRACT_AMOUNT_MISMATCH_UNCONFIRMED"})
          /\ ServerInMoves(At("CONTRACT_AMOUNT_MISMATCH"))
          /\ UNCHANGED inInvoice
    /\ InServerSame /\ UNCHANGED <<deposit, inSpend>>

(* checkExpiry: a swap the server saw no deposit of expires by its age,    *)
(* whatever the user has sent in the meantime; its events are not looked at*)
(* any more.                                                               *)
ServerExpiresByAge ==
    /\ InIs({"CREATED"}) /\ ServerInMoves(Ended("EXPIRED"))
    /\ InServerSame /\ UNCHANGED <<deposit, inSpend, inInvoice>>

(* The contract's timeout, and the server's notice of it.                  *)
TimeoutPasses ==
    /\ Faulty("timeout") /\ inServer.status # "NONE" /\ ~deposit.expired
    /\ deposit' = [deposit EXCEPT !.expired = TRUE]
    /\ InServerSame /\ UNCHANGED <<inServer, inSpend, inInvoice>>

ServerSeesTimeout ==
    /\ deposit.expired
    /\ InIs({"CONTRACT_FUNDED_UNCONFIRMED", "CONTRACT_FUNDED",
             "CONTRACT_AMOUNT_MISMATCH"})
    /\ ServerInMoves(At("CONTRACT_EXPIRED"))
    /\ InServerSame /\ UNCHANGED <<deposit, inSpend, inInvoice>>

InvoiceIsSettled ==
    /\ inInvoice.state = "paying"
    /\ inInvoice' = [inInvoice EXCEPT !.state = "settled"]
    /\ InServerSame /\ UNCHANGED <<deposit, inSpend, inServer>>

InvoiceFails ==
    /\ inInvoice.state = "paying"
    /\ inInvoice' = [inInvoice EXCEPT !.state = "failed"]
    /\ InServerSame /\ UNCHANGED <<deposit, inSpend, inServer>>

(* ... even after the contract expired or was refunded.                    *)
ServerSeesPaid ==
    /\ inInvoice.state = "settled"
    /\ InIs({"CONTRACT_FUNDED", "CONTRACT_EXPIRED", "CONTRACT_REFUNDED_UNCONFIRMED",
             "DONE"})
    /\ ServerInMoves([status |-> "INVOICE_PAID", outcome |-> inServer.outcome])
    /\ InServerSame /\ UNCHANGED <<deposit, inSpend, inInvoice>>

ServerClaims ==
    /\ InIs({"INVOICE_PAID"}) /\ inSpend = NoSpend
    /\ inSpend' = [inSpend EXCEPT !.pool = Theirs]
    /\ InServerSame /\ UNCHANGED <<deposit, inServer, inInvoice>>

ServerSeesInSpend ==
    /\ \E tx \in {inSpend.pool, inSpend.mined} \ {None} :
         ServerInMoves(At(IF tx = Theirs THEN "CONTRACT_CLAIMED_UNCONFIRMED"
                                         ELSE "CONTRACT_REFUNDED_UNCONFIRMED"))
    /\ InServerSame /\ UNCHANGED <<deposit, inSpend, inInvoice>>

ServerFinishesIn ==
    /\ \/ InIs({"CONTRACT_CLAIMED_UNCONFIRMED"}) /\ inSpend.mined = Theirs
          /\ ServerInMoves(Ended("SUCCESS"))
       \/ InIs({"CONTRACT_REFUNDED_UNCONFIRMED"}) /\ inSpend.mined > None
          /\ ServerInMoves(Ended("REFUNDED"))
    /\ InServerSame /\ UNCHANGED <<deposit, inSpend, inInvoice>>

ServerForgetsIn ==
    /\ Faulty("server_forgets")
    /\ InIs({"CREATED"}) /\ deposit.sent = "none"
    /\ inServer' = Forgotten
    /\ InServerSame /\ UNCHANGED <<deposit, inSpend, inInvoice>>

InSpendIsMined ==
    /\ inSpend.pool # None
    /\ inSpend' = Mined(inSpend)
    /\ InServerSame /\ UNCHANGED <<deposit, inServer, inInvoice>>

InEnvironment ==
    \/ ServerSeesDeposit \/ ServerConfirmsDeposit \/ ServerExpiresByAge
    \/ TimeoutPasses \/ ServerSeesTimeout \/ InvoiceIsSettled \/ InvoiceFails \/ ServerSeesPaid
    \/ ServerClaims \/ ServerSeesInSpend \/ ServerFinishesIn \/ ServerForgetsIn
    \/ InSpendIsMined

=============================================================================
