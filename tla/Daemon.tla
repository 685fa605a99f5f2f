------------------------------- MODULE Daemon -------------------------------
(***************************************************************************)
(* The daemon as a whole: Start's loops over the parts, its crashes, and   *)
(* what its user relies on.                                                *)
(***************************************************************************)
EXTENDS DaemonAutoSwap, DaemonSwapIn

DaemonInit ==
    /\ script \in Scripts
    /\ up = FALSE
    /\ mon = Asleep
    /\ outRow = [id \in OutIds |-> NoRow]
    /\ outServer = [id \in OutIds |-> NoAnswer]
    /\ payment = [id \in OutIds |-> [state |-> "none", amount |-> 0]]
    /\ outSpend = [id \in OutIds |-> NoSpend]
    /\ call = NoCalls
    /\ inRow = NoRow
    /\ inServer = NoAnswer
    /\ deposit = [sent |-> "none", again |-> "none", expired |-> FALSE]
    /\ inSpend = NoSpend
    /\ inInvoice = [own |-> TRUE, state |-> "open"]
    /\ inCall = "off"
    /\ auto = AutoStopped
    /\ running = {}
    /\ monitored = {}
    /\ watchers = [id \in OutIds |-> NoWatcher]
    /\ crashes = 0

(* Start: the server answers, with the configured network, or the process  *)
(* ends and is started again.                                              *)
DaemonStart ==
    /\ ~up
    /\ up' = TRUE
    /\ UNCHANGED <<script, crashes, mon, outVars, inVars, autoVars>>

(* MonitorSwaps: both queries at the start of the poll.                    *)
MonitorSwaps ==
    LET swapIns == {[kind |-> "in", id |-> 0, row |-> inRow]}
        swapOuts == {[kind |-> "out", id |-> id, row |-> outRow[id]] : id \in OutIds}
        queue == {item \in swapIns \cup swapOuts : Pending(item.row)}
    IN  /\ up /\ mon = Asleep /\ queue # {}
        /\ mon' = Continue(queue)
        /\ UNCHANGED <<procVars, outVars, inVars, autoVars>>

(* The process ends: calls, goroutines and lists are gone.  A user who was *)
(* told the contract's address still knows it.                             *)
DaemonCrash ==
    /\ up /\ crashes < script.crashes
    /\ crashes' = crashes + 1
    /\ up' = FALSE
    /\ mon' = Asleep
    /\ call' = NoCalls
    /\ inCall' = IF inCall = "ok" THEN "ok" ELSE "off"
    /\ auto' = AutoStopped
    /\ running' = {}
    /\ monitored' = {}
    /\ watchers' = [id \in OutIds |-> NoWatcher]
    /\ UNCHANGED <<script, outRow, outServer, payment, outSpend, inRow, inServer,
                   deposit, inSpend, inInvoice>>

DaemonNext ==
    \/ DaemonStart \/ MonitorSwaps \/ MonitorOut \/ MonitorIn
    \/ UserSwapsOut \/ (\E id \in OutIds : SwapOutCall(id))
    \/ UserSwapsIn \/ CreateSwapIn \/ SaveSwapIn \/ UserDeposits
    \/ UserDepositsAgain \/ RecoverReusedSwapAddress
    \/ AutoSwapStep
    \/ (\E id \in OutIds : OutEnvironment(id)) \/ InEnvironment
    \/ DaemonCrash

DaemonSpec == DaemonInit /\ [][DaemonNext]_vars

(* The goroutines run, and what SwapMonitor asks for again and again       *)
(* succeeds again and again: the server and mempool.space answer, a rate   *)
(* allows the spend, the database writes.  Nothing is asked of the server, *)
(* the chain or the user.                                                  *)
DaemonFairness ==
    /\ WF_vars(DaemonStart \/ MonitorSwaps \/ MonitorOut \/ MonitorIn)
    /\ SF_vars(MonitorSwapOut \/ MonitorSwapIn)
    /\ SF_vars(ClaimSwapOut \/ FetchLockTx \/ InitiateRefund)
    /\ SF_vars(GetFeesSwapOut \/ getPreimage)
    /\ SF_vars(MonitorSavesOut \/ MonitorSavesIn)
    /\ WF_vars(AutoSwapLoop)
    /\ WF_vars(\E id \in OutIds : SwapOutCall(id))
    /\ WF_vars(\E id \in OutIds : WatcherStarts(id) \/ WatcherEnds(id))

DaemonLiveSpec == DaemonSpec /\ DaemonFairness

-----------------------------------------------------------------------------
(* What the daemon's user relies on.                                       *)

Rates == UNION {s.rates : s \in Scripts}

(* The statuses GetSwapIn and GetSwapOut of the gRPC server can show.       *)
mapStatus ==
    { "CREATED", "INVOICE_PAYMENT_INTENT_RECEIVED", "CONTRACT_FUNDED_UNCONFIRMED",
      "CONTRACT_FUNDED", "INVOICE_PAID", "CONTRACT_CLAIMED_UNCONFIRMED", "DONE",
      "CONTRACT_REFUNDED_UNCONFIRMED", "CONTRACT_EXPIRED",
      "CONTRACT_AMOUNT_MISMATCH_UNCONFIRMED", "CONTRACT_AMOUNT_MISMATCH" }

Rows ==
    [ status : {"UNSAVED"} \cup mapStatus,
      outcome : {"NONE", "SUCCESS", "REFUNDED", "EXPIRED", "ERROR", "FAILED"},
      copied : BOOLEAN,
      tx : Rates \cup {None},
      lockTx : BOOLEAN, refundAt : BOOLEAN, auto : BOOLEAN ]

Spends == [pool : Rates \cup {None, Theirs}, mined : Rates \cup {None, Theirs}]

(* Every row, answer and transaction is one the code and its services can  *)
(* hold.                                                                   *)
DaemonTypeOK ==
    /\ script \in Scripts /\ up \in BOOLEAN /\ crashes \in 0 .. script.crashes
    /\ outRow \in [OutIds -> Rows] /\ inRow \in Rows
    /\ \A id \in OutIds : outServer[id].status \in
         {"NONE", "FORGOTTEN"} \cup DOMAIN OutMoves
    /\ inServer.status \in {"NONE", "FORGOTTEN"} \cup DOMAIN InMoves
    /\ outSpend \in [OutIds -> Spends] /\ inSpend \in Spends
    /\ mon.row \in Rows
    /\ \A id \in OutIds : goroutines(id) <= script.goroutines
    /\ running \subseteq OutIds /\ monitored \subseteq OutIds
    /\ GetChannelLocalBalance >= 0

(* No money leaves before the keys that bring it back are in the database: *)
(* no payment without the preimage and the claim key, no deposit without   *)
(* the refund key, whatever call fails and whenever the daemon stops.      *)
MoneyMovesOnlyWithSavedKeys ==
    /\ \A id \in OutIds : payment[id].state # "none" => outRow[id] # NoRow
    /\ deposit.sent # "none" => inRow # NoRow

(* What a finished row says happened.  A swap-out: a success was claimed by*)
(* the recorded transaction and paid for, any other outcome cost nothing.  *)
(* A swap-in: a success was paid, a refunded one has a refund that is      *)
(* mined, of an expired one nothing was paid and nothing was taken: what   *)
(* the user sent too late to be seen is still in the contract.             *)
RowTellsTheTruth ==
    /\ \A id \in OutIds : outRow[id].status = "DONE" =>
         IF outRow[id].outcome = "SUCCESS"
           THEN payment[id].state = "succeeded" /\ outRow[id].tx = outSpend[id].mined
           ELSE payment[id].state # "succeeded"
    /\ inRow.status = "DONE" =>
         CASE inRow.outcome = "SUCCESS" -> inInvoice.state = "settled"
           [] inRow.outcome = "REFUNDED" -> inSpend.mined \in Rates
           [] inRow.outcome = "EXPIRED" -> inInvoice.state = "open" /\ inSpend = NoSpend
           [] OTHER -> TRUE

(* The payment is under way: its money is neither settled nor back.        *)
HoldsLiquidity(id) ==
    /\ Spent(payment[id])
    /\ OutIs(id, {"CREATED", "INVOICE_PAYMENT_INTENT_RECEIVED",
                  "CONTRACT_FUNDED_UNCONFIRMED", "CONTRACT_FUNDED",
                  "CONTRACT_EXPIRED", "CONTRACT_CLAIMED_UNCONFIRMED",
                  "CONTRACT_REFUNDED_UNCONFIRMED"})

(* The contract's timeout passes in this behaviour, and the swap may have  *)
(* been CONTRACT_EXPIRED.                                                  *)
MayHaveExpired(id) ==
    /\ Faulty("timeout")
    /\ OutIs(id, {"CONTRACT_EXPIRED", "CONTRACT_CLAIMED_UNCONFIRMED",
                  "CONTRACT_REFUNDED_UNCONFIRMED"})

(* Two swaps marked as auto swaps hold liquidity at the same time only if  *)
(* the contract of one of them expired: monitorSwapUntilTerminal takes     *)
(* CONTRACT_EXPIRED for an end and frees the running list while the        *)
(* payment is still held.  A swap whose mark is missing (a crash before    *)
(* UpdateAutoSwap, a failed write) is not on the list after a restart, and *)
(* nothing is claimed of it here.                                          *)
MarkedAutoSwapsOverlapOnlyAfterExpiry ==
    \A i, j \in OutIds :
      /\ i # j /\ outRow[i].auto /\ outRow[j].auto
      /\ HoldsLiquidity(i) /\ HoldsLiquidity(j)
      => MayHaveExpired(i) \/ MayHaveExpired(j)

(* Auto swaps take the balance below the target by no more than the routing*)
(* fee of one swap of the maximum size: the check spends the whole excess  *)
(* and leaves nothing for the fee.  Payments of calls that were reported as*)
(* failed, and of swaps whose mark is missing, are not what the check      *)
(* planned with: nothing is claimed while there is one.                    *)
BelowTargetOnlyByAFee ==
    script.user = "auto" /\ script.balance >= TargetBalance =>
      \/ GetChannelLocalBalance + FeeLimitSat(MaxSwapSize) >= TargetBalance
      \/ \E id \in OutIds : Spent(payment[id]) /\ ~outRow[id].auto

(* A running swap that counts as monitored has a goroutine that will take  *)
(* it off the list: whichever of two goroutines ends first, and whenever   *)
(* the daemon stops, no finished swap blocks the next one for ever.        *)
RunningSwapsAreWatched ==
    \A id \in running \cap monitored : watchers[id].on > 0

(* A contract the user may spend is spent: a funded swap-out is claimed    *)
(* unless it expires first, an expired swap-in is refunded unless its      *)
(* invoice is paid after all; no failed request, high fee or restart makes *)
(* the daemon give up.  The one exception is a refund whose request was    *)
(* saved by FetchLockTx and then failed: it is never repeated.             *)
ContractsAreSpent ==
    []<>( /\ \A id \in OutIds :
               OutIs(id, {"CONTRACT_FUNDED"}) => outSpend[id] # NoSpend
          /\ inServer.status = "CONTRACT_EXPIRED" /\ inRow # NoRow =>
               inSpend # NoSpend \/ (inRow.refundAt /\ inRow.tx = None) )

(* The end of every swap reaches its row.  The exceptions: TxID is not the *)
(* claim that was mined (one that was replaced, or not saved), and the     *)
(* invoice of a swap-in is of another node.                                *)
EndIsRecorded ==
    []<>( /\ \A id \in OutIds :
               OutIs(id, {"DONE"}) /\ outRow[id] # NoRow =>
                 \/ outRow[id].status = "DONE"
                 \/ outServer[id].outcome = "SUCCESS" /\ outRow[id].tx # outSpend[id].mined
          /\ inServer.status = "DONE" /\ inRow # NoRow =>
               \/ inRow.status = "DONE"
               \/ inServer.outcome = "SUCCESS" /\ ~inInvoice.own )

=============================================================================
