----------------------------- MODULE DaemonState -----------------------------
(***************************************************************************)
(* The 40swap daemon: a process beside the user's LND node that creates    *)
(* swaps (gRPC server), follows them (SwapMonitor), claims or refunds      *)
(* their contracts, and starts swap-outs of its own (AutoSwapService).     *)
(*                                                                         *)
(* This module has the state its parts share and the transactions they     *)
(* build; DaemonSwapOut, DaemonSwapIn and DaemonAutoSwap are the parts,    *)
(* Daemon composes them.  A step is the code between two calls to the      *)
(* server, LND, the chain or the database.                                 *)
(***************************************************************************)
EXTENDS Integers, FiniteSets, SwapStatus

CONSTANTS
    Scripts,        \* the scenarios of this instance
    MaxOuts,        \* bound: the swap-outs the server may create
    VSize,          \* virtual size of a claim or a refund
    ContractValue   \* value of the contract's output, in sats

FaultKinds ==
    { "create_lost",       \* the server creates a swap, its answer is lost
      "save_fails",        \* the database refuses a write
      "pay_fails",         \* PayInvoice fails before the payment starts
      "pay_ambiguous",     \* ... after it started
      "server_down",       \* a request to the server fails
      "server_forgets",    \* the server answers 404 for a swap it created
      "mempool_down",      \* a request to mempool.space fails
      "timeout" }          \* a contract's timeout passes

(* One behaviour has one scenario: who asks for swaps (a user swapping out,*)
(* a user swapping in, the auto-swap loop), which failures happen, what    *)
(* GetRecommendedFees answers in sat/vB, how often the daemon crashes, how *)
(* many auto swaps there are, how many goroutines of                       *)
(* monitorSwapUntilTerminal each of them gets at once, and LND's local     *)
(* balance at the start.                                                   *)
ScriptKinds ==
    [ user : {"out", "in", "auto"}, faults : SUBSET FaultKinds,
      rates : SUBSET (Nat \ {0}), crashes : Nat,
      swaps : Nat, goroutines : Nat, balance : Nat ]

ASSUME DaemonAssumption ==
    /\ Scripts \subseteq ScriptKinds
    /\ MaxOuts \in Nat \ {0}
    /\ VSize \in Nat
    /\ ContractValue \in Nat

VARIABLES
    script,      \* the scenario of this behaviour
    up,          \* the daemon has passed Start's checks
    mon,         \* SwapMonitor: the poll under way
    outRow,      \* the daemon's table swap_outs
    outServer,   \* the server's answer to GET /swap/out/:id
    payment,     \* LND's payment of each swap-out
    outSpend,    \* the spends of each swap-out's contract
    call,        \* the gRPC call SwapOut that creates each swap-out
    inRow,       \* the daemon's table swap_ins
    inServer,    \* the server's answer to GET /swap/in/:id
    deposit,     \* what the user sent to the swap-in's contract
    inSpend,     \* the spends of that contract
    inInvoice,   \* the user's invoice, as the server pays it
    inCall,      \* the gRPC call SwapIn
    auto,        \* AutoSwapService: the check under way
    running,     \* ... runningSwaps
    monitored,   \* ... monitoredSwaps
    watchers,    \* ... goroutines of monitorSwapUntilTerminal, per swap
    crashes      \* of the daemon, bounded by the scenario

Faulty(kind) == kind \in script.faults

outVars == <<outRow, outServer, payment, outSpend, call>>
inVars == <<inRow, inServer, deposit, inSpend, inInvoice, inCall>>
autoVars == <<auto, running, monitored, watchers>>
procVars == <<script, up, crashes>>
vars == <<procVars, mon, outVars, inVars, autoVars>>

-----------------------------------------------------------------------------
(* Transactions.  A spend of a contract is named by its fee rate: the same *)
(* rate gives the same transaction, a higher one replaces it (the input    *)
(* signals RBF).  0 is no transaction.                                     *)

None == 0
Theirs == -1     \* the server's own spend of the contract

GetRecommendedFees == script.rates

(* An output of 1000 sats or less is refused.                              *)
BuildContractSpendBasePsbt(feeAmount) == ContractValue - feeAmount > 1000

(* The first build, with a fee of 1, gives the size; the second has the    *)
(* fee.                                                                    *)
BuildTransactionWithFee(satsPerVbyte) ==
    /\ BuildContractSpendBasePsbt(1)
    /\ BuildContractSpendBasePsbt(VSize * satsPerVbyte)

(* A swap-out's claim needs the contract's address and the refund key, both*)
(* copied from the server; a swap-in's refund needs the lock transaction.  *)
BuildClaimPSBT(row, feeRate) == row.copied /\ BuildTransactionWithFee(feeRate)

BuildRefundPSBT(row, feeRate) == row.lockTx /\ BuildTransactionWithFee(feeRate)

NoSpend == [pool |-> None, mined |-> None]

(* mempool.space takes the daemon's transaction, or answers an error.      *)
PostRefund(spend, rate) ==
    spend.mined = None /\ spend.pool # Theirs /\ rate > spend.pool

(* PostRefund, then the server's claim or refund-tx endpoint: nbxplorer    *)
(* does not report a refused transaction, so the fallback succeeds whatever*)
(* becomes of the transaction.                                             *)
Broadcast(spend, rate) ==
    IF PostRefund(spend, rate) THEN [spend EXCEPT !.pool = rate] ELSE spend

(* mempool.space knows a transaction of the chain or of the mempool.       *)
GetFeeFromTxId(spend, tx) == tx # None /\ tx \in {spend.pool, spend.mined}

Mined(spend) == [pool |-> None, mined |-> spend.pool]

-----------------------------------------------------------------------------
(* Answers and rows.                                                       *)

OutIds == 1 .. MaxOuts

(* What the server answers before it created the swap, and after it lost   *)
(* it: both are 404.                                                       *)
NoAnswer == [status |-> "NONE", outcome |-> "NONE"]
Forgotten == [NoAnswer EXCEPT !.status = "FORGOTTEN"]
Created == [NoAnswer EXCEPT !.status = "CREATED"]

NoRow ==
    [ status |-> "UNSAVED", outcome |-> "NONE", copied |-> FALSE,
      tx |-> None, lockTx |-> FALSE, refundAt |-> FALSE, auto |-> FALSE ]

NewRow == [NoRow EXCEPT !.status = "CREATED"]

NotExpired(row) ==                                               \* mutant
    row.status \notin {"UNSAVED", "DONE", "CONTRACT_EXPIRED"}

(* GetPendingSwapOuts, GetPendingSwapIns: Status is not DONE.              *)
Pending(row) == row.status \notin {"UNSAVED", "DONE"}

GetSwapOut(id) == outServer[id]

GetSwapIn == inServer

NoCalls == [id \in OutIds |-> [pc |-> "off", amount |-> 0]]

(* The poll: where it is, the rows it read at its start and has still to   *)
(* process, currentSwap, newStatus, and whether it must be saved.          *)
Poll(pc, queue, row) ==
    [ pc |-> pc, queue |-> queue, row |-> row, next |-> "UNSAVED", changed |-> FALSE ]

Asleep == Poll("sleep", {}, NoRow)

(* Swap-ins come first; the queries ask for no other order.                *)
First(queue) ==
    CHOOSE item \in queue :
      \A other \in queue : other.kind = "in" => item.kind = "in"

Current == First(mon.queue)

(* The loops of MonitorSwaps, which go on with the next swap, also after   *)
(* an error.                                                               *)
Continue(queue) ==
    IF queue = {} THEN Asleep ELSE Poll("get", queue, First(queue).row)

NextSwap == Continue(mon.queue \ {Current})

(* ... once the swap is processed: saved if anything changed.              *)
SaveOrSkip(poll) == IF poll.changed THEN [poll EXCEPT !.pc = "save"] ELSE NextSwap

(* The head of the queue is a swap of this kind, and the poll is at pc.    *)
Polling(kind, pc) == mon.pc = pc /\ Current.kind = kind

=============================================================================
