------------------------------ MODULE Exchange ------------------------------
(***************************************************************************)
(* The operator's command line.  "swap" moves Lightning liquidity into the *)
(* Liquid wallet by way of Bitfinex: an invoice of the exchange is paid by *)
(* LND, the deposit is converted twice and withdrawn.  The other commands  *)
(* are single steps of it, for finishing by hand what "swap" left undone.  *)
(* Amounts are in units of the one amount the commands are given.          *)
(***************************************************************************)
EXTENDS Integers, Sequences

CONSTANTS
    FirstBalance,   \* what each account holds at the start
    MaxRetries,     \* attempts of one API call
    MaxPolls,       \* polls of an invoice
    MaxCommands     \* bound: the commands the operator runs

Accounts == {"node", "LNX", "BTC", "LBT", "wallet"}

ASSUME ExchangeAssumption ==
    /\ FirstBalance \in [Accounts -> Nat]
    /\ MaxRetries \in Nat \ {0} /\ MaxPolls \in Nat \ {0}
    /\ MaxCommands \in Nat

VARIABLES
    command,    \* the command that runs, and the step it is at
    balance,    \* what each account holds
    invoice,    \* the exchange's last invoice
    commands    \* how many commands were run

exchangeVars == <<command, balance, invoice, commands>>

-----------------------------------------------------------------------------
swap == << "address", "invoice", "pay", "monitor", "LNX-BTC", "BTC-LBT", "withdraw" >>

(* "exchange", which is given its two currencies, and "withdraw".          *)
IsTransfer(s) == s \in {"LNX-BTC", "BTC-LBT", "withdraw"}

(* The steps of each command.                                              *)
Script(name) ==
    CASE name = "swap" -> swap
      [] name = "create-address" -> << "address" >>
      [] name = "create-invoice" -> << "invoice" >>
      [] name = "pay-invoice" -> << "pay" >>
      [] name = "monitor-invoice" -> << "monitor" >>
      [] IsTransfer(name) -> << name >>

CommandNames ==
    { "swap", "create-address", "create-invoice", "pay-invoice",
      "monitor-invoice", "LNX-BTC", "BTC-LBT", "withdraw" }

NoCommand ==
    [ name |-> "none", at |-> 1, attempt |-> 1, result |-> "none",
      done |-> [s \in {swap[i] : i \in DOMAIN swap} |-> 0], gaveUp |-> FALSE ]

Running == command.name # "none" /\ command.result = "none"
step == Script(command.name)[command.at]

ExchangeInit ==
    /\ command = NoCommand
    /\ balance = FirstBalance
    /\ invoice = "none"
    /\ commands = 0

Run(name) ==
    /\ ~Running /\ commands < MaxCommands
    /\ commands' = commands + 1
    /\ command' = [NoCommand EXCEPT !.name = name]
    /\ UNCHANGED <<balance, invoice>>

(* The step is over; the last one ends the command.                        *)
Proceed(c) ==
    IF c.at = Len(Script(c.name))
      THEN [c EXCEPT !.result = "ok"]
      ELSE [c EXCEPT !.at = @ + 1, !.attempt = 1]

Fail(c) == [c EXCEPT !.result = "error"]
Count(c) == [c EXCEPT !.done[step] = @ + 1]

-----------------------------------------------------------------------------
(* The calls of the exchange's API.                                        *)

Move(from, to) == [balance EXCEPT ![from] = @ - 1, ![to] = @ + 1]

(* exchangeCurrency and withdraw: what a transfer moves.                   *)
Transfer(s) ==
    CASE s = "LNX-BTC" -> <<"LNX", "BTC">>
      [] s = "BTC-LBT" -> <<"BTC", "LBT">>
      [] s = "withdraw" -> <<"LBT", "wallet">>

IsCall(s) == IsTransfer(s) \/ s \in {"address", "invoice"}

(* The exchange does what it is asked.                                     *)
Serve(s) ==
    IF IsTransfer(s)
      THEN /\ balance[Transfer(s)[1]] > 0
           /\ balance' = Move(Transfer(s)[1], Transfer(s)[2])
           /\ UNCHANGED invoice
      ELSE /\ invoice' = IF s = "invoice" THEN "not_paid" ELSE invoice
           /\ UNCHANGED balance

(* "please wait", as an error or inside a success: nothing was done.       *)
Answers == {"done", "in progress", "please wait", "error"}

(* mutant: a network error is retried like a busy exchange.                *)
AnyErrorIsRetryable(answer) == answer \in {"in progress", "please wait", "error"}

isRetryableResponse(answer) == answer \in {"in progress", "please wait"}

(* mutant: the last failure is swallowed.                                  *)
withRetrySwallows(answer) ==
    IF isRetryableResponse(answer) /\ command.attempt < MaxRetries
      THEN [command EXCEPT !.attempt = @ + 1]
      ELSE Proceed(command)

(* withRetry: the answer of the last attempt counts whatever it is, so     *)
(* "in progress" passes for a success.                                     *)
withRetry(answer) ==
    IF isRetryableResponse(answer) /\ command.attempt < MaxRetries
      THEN [command EXCEPT !.attempt = @ + 1]
      ELSE CASE answer = "done" -> Proceed(command)
             [] answer = "in progress" -> Proceed([command EXCEPT !.gaveUp = TRUE])
             [] OTHER -> Fail(command)

(* swap() takes the invoice out of whatever answer it got.                 *)
CallUnserved ==
    /\ Running /\ IsCall(step)
    /\ \E answer \in Answers \ {"done"} :
         /\ command' = withRetry(answer)
         /\ invoice' = IF step = "invoice" /\ command'.gaveUp THEN "none" ELSE invoice
    /\ UNCHANGED <<balance, commands>>

(* An address that exists is not created again, but a call is made.  The   *)
(* answer of a call that was served may be lost.  It is never "in progress"*)
(* or "please wait": that these mean that nothing was done, as withRetry   *)
(* takes for granted, is an assumption about the exchange.                 *)
CallServed ==
    /\ Running /\ IsCall(step)
    /\ Serve(step)
    /\ \E answer \in {"done", "error"} :
         LET c == withRetry(answer) IN command' = Count(c)
    /\ UNCHANGED commands

-----------------------------------------------------------------------------
(* payInvoice.  The command pay-invoice passes its channel as the CLTV     *)
(* limit and its CLTV limit as the channel: there is no such channel.      *)
ChannelExists == command.name # "pay-invoice"

PaySucceeds ==
    /\ invoice = "not_paid" /\ balance["node"] > 0 /\ ChannelExists
    /\ invoice' = "settling"
    /\ balance' = [balance EXCEPT !["node"] = @ - 1]

(* sendPaymentSync may fail after the payment has begun.                   *)
Pay ==
    /\ Running /\ step = "pay"
    /\ \/ PaySucceeds /\ \E c \in {Proceed(command), Fail(command)} : command' = Count(c)
       \/ command' = Fail(command) /\ UNCHANGED <<invoice, balance>>
    /\ UNCHANGED commands

(* The exchange credits a settled payment.                                 *)
Credit ==
    /\ invoice = "settling"
    /\ invoice' = "paid"
    /\ balance' = [balance EXCEPT !["LNX"] = @ + 1]
    /\ UNCHANGED <<command, commands>>

InvoiceExpires ==
    /\ invoice = "not_paid"
    /\ invoice' = "expired"
    /\ UNCHANGED <<command, balance, commands>>

PollStates == {"unknown", IF invoice = "settling" THEN "not_paid" ELSE invoice}

(* monitorInvoice: a read that fails is repeated like one that finds the   *)
(* invoice unpaid, but the last failure is thrown.                         *)
Poll ==
    /\ Running /\ step = "monitor"
    /\ \/ \E state \in PollStates :
            command' =
              IF state \in {"paid", "expired"}
                THEN IF state = "paid" \/ command.name # "swap"
                       THEN Proceed(command) ELSE Fail(command)
              ELSE IF command.attempt < MaxPolls
                THEN [command EXCEPT !.attempt = @ + 1]
              ELSE IF command.name = "swap" THEN Fail(command) ELSE Proceed(command)
       \/ command' = IF command.attempt < MaxPolls
                       THEN [command EXCEPT !.attempt = @ + 1] ELSE Fail(command)
    /\ UNCHANGED <<balance, invoice, commands>>

CommandStep == CallUnserved \/ CallServed \/ Pay \/ Poll

ExchangeNext ==
    \/ \E name \in CommandNames : Run(name)
    \/ CommandStep \/ Credit \/ InvoiceExpires

ExchangeSpec == ExchangeInit /\ [][ExchangeNext]_exchangeVars

-----------------------------------------------------------------------------
(* A retry repeats a call that did nothing, never one that was served and  *)
(* whose answer was lost: no command converts or withdraws twice, if "in   *)
(* progress" and "please wait" are only answered to calls that did nothing.*)
NoStepIsRepeated == \A s \in DOMAIN command.done : command.done[s] <= 1

(* When "swap" reports success, the payment reached the exchange and every *)
(* conversion and the withdrawal were made; the exception is a call still  *)
(* "in progress" at its last attempt, which passes for a success.  The same*)
(* assumption about the exchange is made.                                  *)
SuccessMeansDelivered ==
    command.name = "swap" /\ command.result = "ok" /\ ~command.gaveUp =>
      /\ invoice = "paid"
      /\ \A s \in {"pay", "LNX-BTC", "BTC-LBT", "withdraw"} : command.done[s] = 1

=============================================================================
