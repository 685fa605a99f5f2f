--------------------------- MODULE DaemonAutoSwap ---------------------------
(***************************************************************************)
(* AutoSwapService: at every interval, if no swap of its own is running    *)
(* and the local balance exceeds the target, it calls SwapOut for the      *)
(* excess; a goroutine per swap takes it off the running list when it      *)
(* ends.                                                                   *)
(***************************************************************************)
EXTENDS DaemonSwapOut

CONSTANTS
    TargetBalance,   \* AutoSwapConfig, in units of the model
    MinSwapSize,
    MaxSwapSize,
    BackoffDivisor,  \* 1 / BackoffFactor
    MaxAttempts

Validate ==
    /\ TargetBalance \in Nat \ {0}
    /\ BackoffDivisor \in Nat \ {0, 1}
    /\ MaxAttempts \in Nat \ {0}
    /\ MinSwapSize \in Nat \ {0}
    /\ MaxSwapSize \in Nat /\ MaxSwapSize > MinSwapSize

ASSUME AutoSwapAssumption == Validate

AutoStopped == [pc |-> "off", attempt |-> 0, amount |-> 0, id |-> 0]
AutoIdle == [AutoStopped EXCEPT !.pc = "idle"]

NoWatcher == [new |-> 0, on |-> 0]

goroutines(id) == watchers[id].new + watchers[id].on

(* go monitorSwapUntilTerminal                                             *)
GoMonitor(ids) ==
    watchers' = [id \in OutIds |->
                   IF id \in ids /\ goroutines(id) < script.goroutines
                     THEN [watchers[id] EXCEPT !.new = @ + 1] ELSE watchers[id]]

-----------------------------------------------------------------------------

PendingWithContract ==                                           \* mutant
    {id \in OutIds : /\ Pending(outRow[id]) /\ outRow[id].auto
                     /\ outRow[id].status \notin {"CREATED", "CONTRACT_EXPIRED"}}

GetPendingAutoSwapOuts ==
    {id \in OutIds : /\ Pending(outRow[id]) /\ outRow[id].auto
                     /\ outRow[id].status # "CONTRACT_EXPIRED"}

RecoverPendingAutoSwaps ==
    /\ up /\ script.user = "auto" /\ auto.pc = "off"
    /\ running' = GetPendingAutoSwapOuts
    /\ GoMonitor(GetPendingAutoSwapOuts)
    /\ auto' = AutoIdle
    /\ UNCHANGED <<procVars, mon, outVars, inVars, monitored>>

(* RunAutoSwapCheck with a swap running: it starts the goroutines that are *)
(* not there yet.  One that was started and has not run yet is started     *)
(* again.                                                                  *)
CheckWhileRunning ==
    /\ auto.pc = "idle" /\ running # {}
    /\ GoMonitor(running \ monitored)
    /\ UNCHANGED <<procVars, mon, outVars, inVars, auto, running, monitored>>

MaxForExcess(excess) == Max({excess, MaxSwapSize})               \* mutant

(* The amount for an excess of the balance over the target.                *)
SwapAmount(excess) == Min({excess, MaxSwapSize})

(* SwapOut is called for the next swap the server creates.                 *)
CallSwapOut(amount, attempt) ==
    LET unused == {id \in OutIds : id <= script.swaps
                                  /\ outServer[id].status = "NONE"} IN
    IF unused = {}
      THEN auto' = AutoIdle /\ call' = NoCalls
      ELSE /\ auto' = [pc |-> "call", attempt |-> attempt, amount |-> amount,
                       id |-> Min(unused)]
           /\ call' = [NoCalls EXCEPT ![Min(unused)] = [pc |-> "create",
                                                        amount |-> amount]]

(* RunAutoSwapCheck with no swap running.                                  *)
RunAutoSwapCheck ==
    /\ auto.pc = "idle" /\ running = {}
    /\ GetChannelLocalBalance > TargetBalance
    /\ SwapAmount(GetChannelLocalBalance - TargetBalance) >= MinSwapSize
    /\ CallSwapOut(SwapAmount(GetChannelLocalBalance - TargetBalance), 1)
    /\ UNCHANGED <<procVars, mon, outRow, outServer, payment, outSpend, inVars,
                   running, monitored, watchers>>

(* The call failed: a smaller amount is tried, whatever became of the swap *)
(* and the payment of the failed call.                                     *)
AttemptFails ==
    /\ auto.pc = "call" /\ call[auto.id].pc = "err"
    /\ LET amount == auto.amount \div BackoffDivisor IN
       IF amount < MinSwapSize \/ auto.attempt = MaxAttempts
         THEN auto' = AutoIdle /\ call' = NoCalls
         ELSE CallSwapOut(amount, auto.attempt + 1)
    /\ UNCHANGED <<procVars, mon, outRow, outServer, payment, outSpend, inVars,
                   running, monitored, watchers>>

(* addRunningSwap                                                          *)
AttemptSucceeds ==
    /\ auto.pc = "call" /\ call[auto.id].pc = "ok"
    /\ running' = running \cup {auto.id}
    /\ auto' = [AutoStopped EXCEPT !.pc = "mark", !.id = auto.id]
    /\ call' = NoCalls
    /\ UNCHANGED <<procVars, mon, outRow, outServer, payment, outSpend, inVars,
                   monitored, watchers>>

(* UpdateAutoSwap updates one column of the row; an error is logged.       *)
UpdateAutoSwap ==
    /\ auto.pc = "mark"
    /\ \/ outRow' = [outRow EXCEPT ![auto.id].auto = TRUE]
       \/ Faulty("save_fails") /\ UNCHANGED outRow
    /\ GoMonitor({auto.id})
    /\ auto' = AutoIdle
    /\ UNCHANGED <<procVars, mon, outServer, payment, outSpend, call, inVars,
                   running, monitored>>

-----------------------------------------------------------------------------
(* monitorSwapUntilTerminal                                                *)

WatcherStarts(id) ==
    /\ watchers[id].new > 0
    /\ watchers' = [watchers EXCEPT ![id] = [new |-> @.new - 1, on |-> @.on + 1]]
    /\ monitored' = monitored \cup {id}
    /\ UNCHANGED <<procVars, mon, outVars, inVars, auto, running>>

EndsWithoutUnset(id) ==                                          \* mutant
    /\ watchers[id].on > 0
    /\ GetSwapOut(id).status \in {"DONE", "CONTRACT_EXPIRED"}
    /\ watchers' = [watchers EXCEPT ![id].on = @ - 1]
    /\ UNCHANGED <<procVars, mon, outVars, inVars, auto, running, monitored>>

(* GetSwapOut answers a terminal status; the deferred unsetSwapMonitored.  *)
WatcherEnds(id) ==
    /\ watchers[id].on > 0
    /\ GetSwapOut(id).status \in {"DONE", "CONTRACT_EXPIRED"}
    /\ running' = running \ {id}
    /\ watchers' = [watchers EXCEPT ![id].on = @ - 1]
    /\ monitored' = monitored \ {id}
    /\ UNCHANGED <<procVars, mon, outVars, inVars, auto>>

AutoSwapLoop ==
    \/ RecoverPendingAutoSwaps \/ CheckWhileRunning \/ RunAutoSwapCheck
    \/ AttemptFails \/ AttemptSucceeds \/ UpdateAutoSwap

AutoSwapStep ==
    AutoSwapLoop \/ \E id \in OutIds : WatcherStarts(id) \/ WatcherEnds(id)

=============================================================================
