--------------------------- MODULE ExchangeProofs ---------------------------
(***************************************************************************)
(* The operator's commands make no transfer twice, and "swap" says that it *)
(* succeeded only when everything was delivered: for any balances, numbers *)
(* of attempts, polls and commands.                                        *)
(***************************************************************************)
EXTENDS Exchange, TLAPS

Steps == {swap[i] : i \in DOMAIN swap}

(* What the proofs need of the type of the command.                        *)
Commands ==
    [ name : CommandNames \cup {"none"}, at : Nat, attempt : Nat,
      result : {"none", "ok", "error"}, done : [Steps -> Nat], gaveUp : BOOLEAN ]

(* A command that runs is at one of its steps.                             *)
InScript == Running => command.at \in 1 .. Len(Script(command.name))

(* What is not reached was not done, what is done was done once.           *)
DoneOnce ==
    /\ \A s \in Steps : command.done[s] <= 1
    /\ Running =>
         \A i \in command.at .. Len(Script(command.name)) :
           command.done[Script(command.name)[i]] = 0

(* Unless a call was given up, "swap" leaves nothing undone behind it.     *)
MustBeDone == {"pay", "LNX-BTC", "BTC-LBT", "withdraw"}

DeliveredSoFar ==
    command.name = "swap" /\ command.result # "error" /\ ~command.gaveUp =>
      /\ \A i \in 1 .. 7 :
           /\ swap[i] \in MustBeDone
           /\ i < command.at \/ command.result = "ok"
           => command.done[swap[i]] = 1
      /\ command.at > 4 \/ command.result = "ok" => invoice = "paid"

CommandInv == command \in Commands /\ InScript /\ DoneOnce /\ DeliveredSoFar

-----------------------------------------------------------------------------
(* The scripts: no step occurs twice.                                      *)
LEMMA SwapIs ==
  /\ Len(swap) = 7 /\ DOMAIN swap = 1 .. 7
  /\ swap[1] = "address" /\ swap[2] = "invoice" /\ swap[3] = "pay" /\ swap[4] = "monitor"
  /\ swap[5] = "LNX-BTC" /\ swap[6] = "BTC-LBT" /\ swap[7] = "withdraw"
BY DEF swap

LEMMA StepsAre ==
  Steps = {"address", "invoice", "pay", "monitor", "LNX-BTC", "BTC-LBT", "withdraw"}
<1>1. 1 .. 7 = {1, 2, 3, 4, 5, 6, 7}
  OBVIOUS
<1> QED BY <1>1, SwapIs DEF Steps

LEMMA ScriptIs ==
  ASSUME NEW name \in CommandNames
  PROVE  /\ Len(Script(name)) \in Nat \ {0}
         /\ \A i \in 1 .. Len(Script(name)) : Script(name)[i] \in Steps
         /\ \A i, j \in 1 .. Len(Script(name)) : Script(name)[i] = Script(name)[j] => i = j
<1>1. CASE name = "swap"
  <2>1. Script(name) = swap
    BY <1>1 DEF Script, IsTransfer
  <2>2. \A i \in 1 .. 7 : i = 1 \/ i = 2 \/ i = 3 \/ i = 4 \/ i = 5 \/ i = 6 \/ i = 7
    OBVIOUS
  <2>3. \A i \in 1 .. 7 : swap[i] \in Steps
    BY SwapIs DEF Steps
  <2>4. \A i, j \in 1 .. 7 : swap[i] = swap[j] => i = j
    BY <2>2, SwapIs
  <2> QED BY <2>1, <2>3, <2>4, SwapIs
<1>2. CASE name # "swap"
  <2>1. PICK s \in Steps : Script(name) = <<s>>
    BY <1>2, StepsAre DEF Script, CommandNames, IsTransfer
  <2> QED BY <2>1
<1> QED BY <1>1, <1>2

LEMMA StepIs ==
  ASSUME CommandInv, Running
  PROVE  /\ command.name \in CommandNames
         /\ Len(Script(command.name)) \in Nat \ {0}
         /\ command.at \in 1 .. Len(Script(command.name))
         /\ step \in Steps /\ step = Script(command.name)[command.at]
         /\ command.done[step] = 0
<1>1. command.name \in CommandNames
  BY DEF CommandInv, Commands, Running
<1> QED BY <1>1, ScriptIs DEF CommandInv, InScript, DoneOnce, step, Commands

-----------------------------------------------------------------------------
(* The step is over.                                                       *)
Proceeds ==
    \/ /\ command.at = Len(Script(command.name))
       /\ command'.at = command.at /\ command'.result = "ok"
    \/ /\ command.at # Len(Script(command.name))
       /\ command'.at = command.at + 1 /\ command'.result = "none"

(* Whatever a step does to its command, it counts what was served, goes on *)
(* from what was served or given up, and repeats only what was not.        *)
LEMMA StepKeeps ==
  ASSUME CommandInv, Running, command' \in Commands, command'.name = command.name,
         NEW n \in {0, 1}, command'.done = [command.done EXCEPT ![step] = @ + n],
         \/ command'.result = "error"
         \/ command'.result = "none" /\ command'.at = command.at /\ n = 0
         \/ Proceeds,
         command.gaveUp => command'.gaveUp,
         Proceeds /\ ~command'.gaveUp /\ step \in MustBeDone => n = 1,
         Proceeds /\ command.name = "swap" /\ step = "monitor" => invoice' = "paid",
         step # "invoice" /\ invoice = "paid" => invoice' = "paid"
  PROVE  CommandInv'
<1> DEFINE name == command.name
           last == Len(Script(name))
<1>1. /\ name \in CommandNames /\ last \in Nat \ {0} /\ command.at \in 1 .. last
      /\ step \in Steps /\ step = Script(name)[command.at] /\ command.done[step] = 0
  BY StepIs
<1>2. /\ \A i \in 1 .. last : Script(name)[i] \in Steps
      /\ \A i, j \in 1 .. last : Script(name)[i] = Script(name)[j] => i = j
  BY <1>1, ScriptIs
<1>3. command.done \in [Steps -> Nat] /\ command.name # "none" /\ command.result = "none"
  BY DEF CommandInv, Commands, Running
<1>4. /\ command'.done[step] = n
      /\ \A s \in Steps \ {step} : command'.done[s] = command.done[s]
  BY <1>1, <1>3
<1>5. InScript'
  BY <1>1 DEF InScript, Running, Proceeds
<1>6. DoneOnce'
  <2>1. \A s \in Steps : command'.done[s] <= 1
    BY <1>3, <1>4 DEF CommandInv, DoneOnce
  <2>2. ASSUME Running', NEW i \in command'.at .. last
        PROVE  command'.done[Script(name)[i]] = 0
    <3>1. /\ command'.at = command.at /\ n = 0
          \/ command'.at = command.at + 1
      BY <2>2 DEF Running, Proceeds
    <3>2. i \in command.at .. last /\ i \in 1 .. last /\ (i # command.at \/ n = 0)
      BY <3>1, <1>1, <2>2
    <3>3. command.done[Script(name)[i]] = 0 /\ Script(name)[i] \in Steps
      BY <3>2, <1>2 DEF CommandInv, DoneOnce
    <3>4. Script(name)[i] # step \/ n = 0
      BY <3>2, <1>1, <1>2
    <3> QED BY <3>3, <3>4, <1>4
  <2> QED BY <2>1, <2>2 DEF DoneOnce
<1>7. DeliveredSoFar'
  <2> SUFFICES ASSUME command.name = "swap", command'.result # "error", ~command'.gaveUp
               PROVE  /\ \A i \in 1 .. 7 :
                           /\ swap[i] \in MustBeDone
                           /\ i < command'.at \/ command'.result = "ok"
                           => command'.done[swap[i]] = 1
                      /\ command'.at > 4 \/ command'.result = "ok" => invoice' = "paid"
    BY DEF DeliveredSoFar
  <2>1. /\ Script(name) = swap /\ last = 7 /\ step = swap[command.at]
        /\ command.at \in 1 .. 7
    BY <1>1, SwapIs DEF Script, IsTransfer
  <2>2. /\ \A i \in 1 .. 7 : swap[i] \in MustBeDone /\ i < command.at => command.done[swap[i]] = 1
        /\ command.at > 4 => invoice = "paid"
    BY <1>3 DEF CommandInv, DeliveredSoFar
  <2>3. ASSUME NEW i \in 1 .. 7, swap[i] \in MustBeDone,
               i < command'.at \/ command'.result = "ok"
        PROVE  command'.done[swap[i]] = 1
    <3>1. swap[i] \in Steps
      BY SwapIs DEF Steps
    <3>2. CASE i = command.at
      <4>1. Proceeds
        BY <3>2, <2>3
      <4> QED BY <4>1, <3>2, <2>1, <2>3, <1>4
    <3>3. CASE i # command.at
      <4>1. i < command.at
        BY <3>3, <2>1, <2>3 DEF Proceeds
      <4>2. swap[i] # step
        BY <3>3, <2>1, <1>2
      <4> QED BY <4>1, <4>2, <3>1, <2>2, <2>3, <1>4
    <3> QED BY <3>2, <3>3
  <2>4. command'.at > 4 \/ command'.result = "ok" => invoice' = "paid"
    <3> SUFFICES ASSUME command'.at > 4 \/ command'.result = "ok" PROVE invoice' = "paid"
      OBVIOUS
    <3>1. CASE command.at = 4
      <4>1. Proceeds /\ step = "monitor"
        BY <3>1, <2>1, SwapIs
      <4> QED BY <4>1
    <3>2. CASE command.at > 4
      <4>1. command.at \in {5, 6, 7}
        BY <3>2, <2>1
      <4>2. step # "invoice"
        BY <4>1, <2>1, SwapIs
      <4> QED BY <3>2, <4>2, <2>2
    <3>3. CASE command.at < 4
      BY <3>3, <2>1 DEF Proceeds
    <3> QED BY <3>1, <3>2, <3>3, <2>1
  <2> QED BY <2>3, <2>4
<1> QED BY <1>5, <1>6, <1>7 DEF CommandInv

-----------------------------------------------------------------------------
(* What the commands' updates do to the record.                            *)
LEMMA ProceedIs ==
  ASSUME CommandInv, Running, NEW c \in Commands, c.name = command.name, c.at = command.at,
         c.result = "none"
  PROVE  /\ Proceed(c) \in Commands /\ Proceed(c).name = command.name
         /\ Proceed(c).done = c.done /\ Proceed(c).gaveUp = c.gaveUp
         /\ \/ /\ command.at = Len(Script(command.name))
               /\ Proceed(c).at = command.at /\ Proceed(c).result = "ok"
            \/ /\ command.at # Len(Script(command.name))
               /\ Proceed(c).at = command.at + 1 /\ Proceed(c).result = "none"
<1>1. CASE c.at = Len(Script(c.name))
  BY <1>1 DEF Proceed, Commands
<1>2. CASE c.at # Len(Script(c.name))
  <2> DEFINE next == c.at + 1
  <2>1. next \in Nat
    BY DEF Commands
  <2>2. Proceed(c) = [c EXCEPT !.at = next, !.attempt = 1]
    BY <1>2 DEF Proceed
  <2> HIDE DEF next
  <2> DEFINE one == [c EXCEPT !.at = next]
  <2>3. one \in Commands /\ Proceed(c) = [one EXCEPT !.attempt = 1]
    BY <2>1, <2>2 DEF Commands
  <2>4. /\ one.name = c.name /\ one.done = c.done /\ one.gaveUp = c.gaveUp
        /\ one.at = next /\ one.result = c.result
    BY <2>1 DEF Commands
  <2> HIDE DEF one
  <2>5. /\ Proceed(c) \in Commands /\ Proceed(c).name = one.name /\ Proceed(c).done = one.done
        /\ Proceed(c).gaveUp = one.gaveUp /\ Proceed(c).at = one.at
        /\ Proceed(c).result = one.result
    BY <2>3 DEF Commands
  <2> QED BY <1>2, <2>4, <2>5 DEF next
<1> QED BY <1>1, <1>2

LEMMA FailIs ==
  ASSUME CommandInv
  PROVE  /\ Fail(command) \in Commands /\ Fail(command).name = command.name
         /\ Fail(command).done = command.done /\ Fail(command).gaveUp = command.gaveUp
         /\ Fail(command).result = "error"
BY DEF CommandInv, Commands, Fail

LEMMA RetryIs ==
  ASSUME CommandInv, Running
  PROVE  LET c == [command EXCEPT !.attempt = @ + 1] IN
         /\ c \in Commands /\ c.name = command.name /\ c.done = command.done
         /\ c.gaveUp = command.gaveUp /\ c.result = "none" /\ c.at = command.at
BY DEF CommandInv, Commands, Running

LEMMA CountIs ==
  ASSUME CommandInv, Running, NEW c \in Commands, c.done = command.done
  PROVE  /\ Count(c) \in Commands /\ Count(c).name = c.name /\ Count(c).at = c.at
         /\ Count(c).result = c.result /\ Count(c).gaveUp = c.gaveUp
         /\ Count(c).done = [command.done EXCEPT ![step] = @ + 1]
<1>1. step \in Steps
  BY StepIs
<1>2. [c.done EXCEPT ![step] = @ + 1] \in [Steps -> Nat]
  BY <1>1 DEF Commands
<1> QED BY <1>2 DEF Count, Commands

(* A step that was not served leaves the counts as they are.               *)
LEMMA Uncounted ==
  ASSUME CommandInv, Running
  PROVE  command.done = [command.done EXCEPT ![step] = @ + 0]
BY StepIs DEF CommandInv, Commands

-----------------------------------------------------------------------------
(* The steps of a command.                                                 *)
LEMMA CallUnservedKeeps == CommandInv /\ CallUnserved => CommandInv'
<1> SUFFICES ASSUME CommandInv, CallUnserved PROVE CommandInv'
  OBVIOUS
<1>1. Running /\ IsCall(step) /\ step # "monitor"
  BY DEF CallUnserved, IsCall, IsTransfer
<1>2. PICK answer \in Answers \ {"done"} : command' = withRetry(answer)
  BY DEF CallUnserved
<1>3. step # "invoice" => invoice' = invoice
  BY DEF CallUnserved
<1> DEFINE c == [command EXCEPT !.gaveUp = TRUE]
<1>4. /\ c \in Commands /\ c.name = command.name /\ c.at = command.at /\ c.gaveUp
      /\ c.done = command.done /\ c.result = "none"
  BY <1>1 DEF CommandInv, Commands, Running
<1>5. \/ command' = [command EXCEPT !.attempt = @ + 1]
      \/ command' = Proceed(c)
      \/ command' = Fail(command)
  BY <1>2 DEF withRetry, Answers
<1> HIDE DEF c
<1>6. CASE command' = [command EXCEPT !.attempt = @ + 1]
  <2>1. /\ command' \in Commands /\ command'.name = command.name
        /\ command'.done = command.done /\ command'.gaveUp = command.gaveUp
        /\ command'.result = "none" /\ command'.at = command.at
    BY <1>1, <1>6, RetryIs
  <2>2. ~Proceeds
    BY <2>1, <1>1, StepIs DEF Proceeds
  <2> QED BY <2>1, <2>2, <1>1, <1>3, Uncounted, StepKeeps
<1>7. CASE command' = Proceed(c)
  <2>1. /\ command' \in Commands /\ command'.name = command.name
        /\ command'.done = command.done /\ command'.gaveUp /\ Proceeds
    BY <1>1, <1>4, <1>7, ProceedIs DEF Proceeds
  <2> QED BY <2>1, <1>1, <1>3, Uncounted, StepKeeps
<1>8. CASE command' = Fail(command)
  <2>1. /\ command' \in Commands /\ command'.name = command.name
        /\ command'.done = command.done /\ command'.gaveUp = command.gaveUp
        /\ command'.result = "error" /\ ~Proceeds
    BY <1>8, FailIs DEF Proceeds
  <2> QED BY <2>1, <1>1, <1>3, Uncounted, StepKeeps
<1> QED BY <1>5, <1>6, <1>7, <1>8

(* A step that was served is counted, and proceeds or fails.               *)
LEMMA ServedKeeps ==
  ASSUME CommandInv, Running, step # "monitor",
         NEW c \in {Proceed(command), Fail(command)}, command' = Count(c),
         step # "invoice" /\ invoice = "paid" => invoice' = "paid"
  PROVE  CommandInv'
<1>1. command \in Commands /\ command.result = "none"
  BY DEF CommandInv, Running
<1>2. CASE c = Proceed(command)
  <2>1. c \in Commands /\ c.done = command.done
    BY <1>1, <1>2, ProceedIs
  <2>2. /\ command' \in Commands /\ command'.name = command.name
        /\ command'.done = [command.done EXCEPT ![step] = @ + 1]
        /\ command'.gaveUp = command.gaveUp /\ Proceeds
    BY <1>1, <1>2, <2>1, ProceedIs, CountIs DEF Proceeds
  <2> QED BY <2>2, StepKeeps
<1>3. CASE c = Fail(command)
  <2>1. c \in Commands /\ c.done = command.done
    BY <1>3, FailIs
  <2>2. /\ command' \in Commands /\ command'.name = command.name
        /\ command'.done = [command.done EXCEPT ![step] = @ + 1]
        /\ command'.gaveUp = command.gaveUp /\ command'.result = "error" /\ ~Proceeds
    BY <1>3, <2>1, FailIs, CountIs DEF Proceeds
  <2> QED BY <2>2, StepKeeps
<1> QED BY <1>2, <1>3

LEMMA CallServedKeeps == CommandInv /\ CallServed => CommandInv'
<1> SUFFICES ASSUME CommandInv, CallServed PROVE CommandInv'
  OBVIOUS
<1>1. Running /\ step # "monitor"
  BY DEF CallServed, IsCall, IsTransfer
<1>2. PICK answer \in {"done", "error"} : command' = Count(withRetry(answer))
  BY DEF CallServed
<1>3. withRetry(answer) \in {Proceed(command), Fail(command)}
  BY DEF withRetry, isRetryableResponse
<1>4. step # "invoice" => invoice' = invoice
  BY DEF CallServed, Serve
<1> QED BY <1>1, <1>2, <1>3, <1>4, ServedKeeps

LEMMA PayKeeps == CommandInv /\ Pay => CommandInv'
<1> SUFFICES ASSUME CommandInv, Pay PROVE CommandInv'
  OBVIOUS
<1>1. Running /\ step = "pay"
  BY DEF Pay
<1>2. CASE PaySucceeds /\ \E c \in {Proceed(command), Fail(command)} : command' = Count(c)
  BY <1>1, <1>2, ServedKeeps DEF PaySucceeds
<1>3. CASE command' = Fail(command) /\ UNCHANGED invoice
  <2>1. /\ command' \in Commands /\ command'.name = command.name
        /\ command'.done = command.done /\ command'.gaveUp = command.gaveUp
        /\ command'.result = "error" /\ ~Proceeds
    BY <1>3, FailIs DEF Proceeds
  <2> QED BY <2>1, <1>1, <1>3, Uncounted, StepKeeps
<1> QED BY <1>2, <1>3 DEF Pay

LEMMA PollKeeps == CommandInv /\ Poll => CommandInv'
<1> SUFFICES ASSUME CommandInv, Poll PROVE CommandInv'
  OBVIOUS
<1>1. Running /\ step = "monitor" /\ step \notin MustBeDone /\ UNCHANGED invoice
  BY DEF Poll, MustBeDone
<1>2. command \in Commands /\ command.result = "none"
  BY <1>1 DEF CommandInv, Running
<1>3. \/ command' = [command EXCEPT !.attempt = @ + 1]
      \/ command' = Proceed(command) /\ (command.name = "swap" => invoice = "paid")
      \/ command' = Fail(command)
  BY DEF Poll, PollStates
<1>4. CASE command' = [command EXCEPT !.attempt = @ + 1]
  <2>1. /\ command' \in Commands /\ command'.name = command.name
        /\ command'.done = command.done /\ command'.gaveUp = command.gaveUp
        /\ command'.result = "none" /\ command'.at = command.at
    BY <1>1, <1>4, RetryIs
  <2>2. ~Proceeds
    BY <2>1, <1>1, StepIs DEF Proceeds
  <2> QED BY <2>1, <2>2, <1>1, Uncounted, StepKeeps
<1>5. CASE command' = Proceed(command) /\ (command.name = "swap" => invoice = "paid")
  <2>1. /\ command' \in Commands /\ command'.name = command.name
        /\ command'.done = command.done /\ command'.gaveUp = command.gaveUp /\ Proceeds
    BY <1>1, <1>2, <1>5, ProceedIs DEF Proceeds
  <2> QED BY <2>1, <1>1, <1>5, Uncounted, StepKeeps
<1>6. CASE command' = Fail(command)
  <2>1. /\ command' \in Commands /\ command'.name = command.name
        /\ command'.done = command.done /\ command'.gaveUp = command.gaveUp
        /\ command'.result = "error" /\ ~Proceeds
    BY <1>6, FailIs DEF Proceeds
  <2> QED BY <2>1, <1>1, Uncounted, StepKeeps
<1> QED BY <1>3, <1>4, <1>5, <1>6

-----------------------------------------------------------------------------
(* A new command has done nothing yet.                                     *)
LEMMA NewCommand ==
  ASSUME NEW name \in CommandNames \cup {"none"}
  PROVE  LET c == [NoCommand EXCEPT !.name = name] IN
         /\ c \in Commands /\ c.name = name /\ c.at = 1 /\ c.result = "none"
         /\ \A s \in Steps : c.done[s] = 0
BY DEF NoCommand, Commands, Steps

LEMMA RunKeeps ==
  ASSUME CommandInv, NEW name \in CommandNames, Run(name)
  PROVE  CommandInv'
<1>1. /\ command' \in Commands /\ command'.name = name /\ command'.at = 1
      /\ command'.result = "none" /\ \A s \in Steps : command'.done[s] = 0
  BY NewCommand DEF Run
<1>2. InScript' /\ DoneOnce'
  BY <1>1, ScriptIs DEF InScript, DoneOnce
<1>3. DeliveredSoFar'
  BY <1>1 DEF DeliveredSoFar
<1> QED BY <1>1, <1>2, <1>3 DEF CommandInv

LEMMA OthersKeep ==
  ASSUME CommandInv, Credit \/ InvoiceExpires \/ UNCHANGED exchangeVars
  PROVE  CommandInv'
<1>1. command' = command /\ (invoice = "paid" => invoice' = "paid")
  BY DEF Credit, InvoiceExpires, exchangeVars
<1> QED BY <1>1 DEF CommandInv, InScript, DoneOnce, DeliveredSoFar, Running

LEMMA CommandsHold == ExchangeSpec => []CommandInv
<1>1. ExchangeInit => CommandInv
  <2> SUFFICES ASSUME ExchangeInit PROVE CommandInv
    OBVIOUS
  <2>1. command = [NoCommand EXCEPT !.name = "none"]
    BY DEF ExchangeInit, NoCommand
  <2>2. /\ command \in Commands /\ command.name = "none"
        /\ \A s \in Steps : command.done[s] = 0
    BY <2>1, NewCommand
  <2> QED BY <2>2 DEF CommandInv, InScript, DoneOnce, DeliveredSoFar, Running
<1>2. CommandInv /\ [ExchangeNext]_exchangeVars => CommandInv'
  BY RunKeeps, CallUnservedKeeps, CallServedKeeps, PayKeeps, PollKeeps, OthersKeep
     DEF ExchangeNext, CommandStep
<1> QED BY <1>1, <1>2, PTL DEF ExchangeSpec

(* cli.ts, BitfinexProvider.withRetry: no command makes a call again that  *)
(* was served, however many attempts it has and whatever answers are lost, *)
(* as long as "in progress" and "please wait" mean that nothing was done.  *)
THEOREM ExchangeNoStepIsRepeated == ExchangeSpec => []NoStepIsRepeated
<1>1. CommandInv => NoStepIsRepeated
  <2> SUFFICES ASSUME CommandInv PROVE NoStepIsRepeated
    OBVIOUS
  <2>1. DOMAIN command.done = Steps
    BY DEF CommandInv, Commands
  <2> QED BY <2>1 DEF CommandInv, DoneOnce, NoStepIsRepeated
<1> QED BY <1>1, CommandsHold, PTL

(* BitfinexProvider.swap: for any numbers of attempts and polls, success   *)
(* means that the payment arrived and every transfer was made.             *)
THEOREM ExchangeSuccessMeansDelivered == ExchangeSpec => []SuccessMeansDelivered
<1>1. CommandInv => SuccessMeansDelivered
  <2> SUFFICES ASSUME CommandInv, command.name = "swap", command.result = "ok", ~command.gaveUp
               PROVE  /\ invoice = "paid"
                      /\ \A s \in MustBeDone : command.done[s] = 1
    BY DEF SuccessMeansDelivered, MustBeDone
  <2>1. /\ invoice = "paid"
        /\ \A i \in 1 .. 7 : swap[i] \in MustBeDone => command.done[swap[i]] = 1
    BY DEF CommandInv, DeliveredSoFar
  <2> QED BY <2>1, SwapIs DEF MustBeDone
<1> QED BY <1>1, CommandsHold, PTL

=============================================================================
