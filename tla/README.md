# 40swap in TLA+

40swap exchanges bitcoin on a chain (Bitcoin or Liquid) for bitcoin on
Lightning, through a server that is the counterparty of every swap. In a
**swap-in** the user funds a contract on the chain and the server pays the
user's Lightning invoice; in a **swap-out** the user pays a hold invoice of the
server's and the server funds a contract the user claims. Both payments are
locked by one preimage, so that "either both succeed or both fail"
(`docs/src/what-is-a-swap.md`).

This directory holds TLA+ models of that code, TLC configurations that check
them, and theorems proved with TLAPS. Paths below are relative to the
repository; `PROJECT.json` maps every definition to its lines.

## 1. Inventory

### The components

| Component | Code | State | Operations | Correct when |
|---|---|---|---|---|
| Swap-out runner | `server-backend/src/SwapOutRunner.ts` | the `SwapOut` entity, in memory and saved; a lookup loop, an expiry timer, floating status handlers | `waitForLightningPaymentIntent`, `checkExpiry`, `createContract`, `payToContractOnChain`, `processNewTransaction`, `processNewBlock`, refund, settle | funds the contract once and only against a held payment; settles only after a confirmed claim; takes the contract back in time; never rewrites a finished swap |
| Swap-in runner | `server-backend/src/SwapInRunner.ts` | the `SwapIn` entity; an expiry timer, `retrySendPayment`, floating status handlers | `checkExpiry`, `processNewTransaction`, `processNewBlock`, payment with retries, claim | pays only for a confirmed exact deposit; the payment ends before the user can refund; claims what it paid for |
| Swap service | `SwapService.ts` | `runningSwaps` | create, `runAndMonitor`, resume at start, fan-out of events | every unfinished swap has a runner |
| nbxplorer feed | `NbxplorerService.ts`, `ApplicationState` | `lastEventId` of each chain | long poll, emit to the runners, advance | no event lost or applied out of order |
| LND service | `LndService.ts` | none (LND keeps the invoices and payments) | add, look up, settle, cancel a hold invoice; `sendCoins`; `sendPaymentSync` | its callers cope with ambiguous replies |
| Bitcoin service | `BitcoinService.ts` | none | height, `hasEnoughConfirmations` | counts the block of the transaction as one confirmation |
| Controllers | `SwapInController.ts`, `SwapOutController.ts`, `shared/src/api.types.ts` | none | show a swap; claim and refund PSBTs, broadcast | a swap's status only makes the moves its clients expect |
| SDK and web frontend | `shared/src/sdk/`, `swap-frontend/src/` | the form; the swaps and keys in IndexedDB; a tracker per open page | validate, create, then store the keys; poll; claim or refund, then store the date; delete, export, import | what the form asks for is what it validated; who paid has the keys; an expired or funded contract is spent whatever page is closed |
| Daemon monitor | `daemon/daemon/{daemon,swap_in,swap_out}.go` | rows of the daemon's database | ten-second poll: copy the status, claim, refund, record fees | does not give up a claim or refund; a row ends as the server's does |
| Daemon auto-swap | `daemon/daemon/auto_swap.go` | running list, monitored set, `IsAutoSwap` column | check, start a swap-out, watch it, recover | two auto-swaps overlap only as section 4 says, across restarts; the balance stays at the target but for a fee |
| Daemon RPC, database, clients | `daemon/{rpc,database,bitcoin,lightning,swaps}` | the rows above | creation of swaps, row saves, recovery of a reused address, I/O | keys are saved before money moves |
| Migrations | `daemon/database/migrations.go`, its CLI, `daemon/cmd/main.go` | the schema and gormigrate's table | migrate, roll back, reset, start | the daemon runs on the schema its code needs |
| Liquid wallet | `LiquidService.ts`, `LiquidUtils.ts` | Elements' coins | select coins, fee, change; claim, refund | a lock it sends is one the network takes |
| Operator CLI, exchange | `cli.ts`, `providers/BitfinexProvider.ts` | none (balances at the exchange) | invoice, pay, convert, withdraw, with retries | no conversion or withdrawal is made twice |
| Others | scripts and signatures, prices and fees, metrics, health, deployment | | | |

### How they interact

The server is one Node.js process and one thread. nbxplorer's events are
emitted one at a time (`emitAsync`), `SwapService` hands each to the runners of
all unfinished swaps, and `lastEventId` advances when every handler has
returned. Beside that loop, each runner has floating promises that nobody
awaits: the invoice lookup loop, the expiry timer, and the `onStatusChange`
handlers that fund, pay, claim, refund and cancel. All of them assign to one
entity object and save it whole, so that what is between two `await`s is atomic
and everything else interleaves. A promise that rejects without a handler ends
the process.

LND and the chain nodes are other processes: a call takes effect before its
reply arrives, and may report an error after it did. The user acts on the chain
and on Lightning independently of both, through the SDK, the daemon or a wallet.
The daemon polls the server over HTTP and shares its database between a monitor
loop, the auto-swap loop and the RPC handlers, which are goroutines. A browser
polls the same endpoints from every open page, and the pages share one store.

### What is hard

`PROJECT.json` lists the hazards with the line at which each bites and the
properties that cover it. They come from eight sources: a status read before an
`await` and overwritten after it; a task that a restart does not resume; a
handler saved in two steps whose event is delivered again; claim and refund of
one contract racing on the chain; time locks counted in two chains' blocks; a
row that one goroutine or page reads, another changes and the first writes back;
a call that took effect although its caller was told it failed; and coins, lists
and schemas that outlive the process that was changing them.

## 2. The modules

| Module | Models | Extends or composes | Proofs |
|---|---|---|---|
| `SwapCommon` | confirmations, events | | |
| `AtomicSwap` | the abstract promise of a swap | | `AtomicSwapProofs` |
| `SwapStatus`, `SwapView` | what a client may see of a swap | | |
| `SwapOut` | the swap-out runner with feed, LND, chain, user | `SwapCommon`; implements `AtomicSwap` and `SwapView` | `SwapOutProofs` |
| `SwapIn` | the swap-in runner, likewise | the same | `SwapInProofs` |
| `DaemonState` | the daemon's shared state, its transactions, the poll | `SwapStatus` | |
| `DaemonSwapOut`, `DaemonSwapIn` | a swap in the daemon: gRPC call, polls, its environment | `DaemonState` | |
| `DaemonAutoSwap` | the auto-swap loop and its goroutines | `DaemonSwapOut` | |
| `Daemon` | the whole daemon, its crashes, its properties | the three above | `DaemonProofs`, `DaemonRowProofs` |
| `WebClient` | SDK, store and pages | `SwapStatus` | `WebClientProofs` |
| `SwapForm` | the form that asks for a swap | | `WebClientProofs` |
| `LiquidWallet` | the server's coins and locks | | `LiquidWalletProofs` |
| `Exchange` | the operator's commands | | `ExchangeProofs` |
| `Migrations` | the daemon's schema | | |
| `MCSwapOut`, `MCSwapIn`, `MCDaemon`, `MCPrograms` | instances for TLC | | |

Two abstract specifications tie them together. `AtomicSwap` is what a swap
promises its two parties. `SwapView` is what the server promises those who poll
it: both runners are proved to implement it (section 5 says when), and the daemon's and the web
client's servers move by the same `OutMoves` and `InMoves`, so that what a
client is checked against is what the runners were shown to show.

Both runners are proved to implement `AtomicSwap` as well, where nothing but the
payment itself fails and blocks are prompt. Theorems worth proving next: the
refinement of a swap-out on Liquid, whose timeout is a conversion between the heights
of two chains.

## 3. The models

### `SwapCommon`

`hasEnoughConfirmations` as in `BitcoinService`, the position of a transaction
(absent, in the mempool, at a height) and nbxplorer's events.

### `AtomicSwap`

Two legs. The chain leg goes none → locked → claimed or refunded; the Lightning
leg goes open → held → settled or canceled. `Direction` says which leg reveals
the preimage: in a swap-out the contract is claimed while the payment is held
and the payment is settled after it; in a swap-in the payment is settled while
the contract is locked and the contract is claimed after it. No leg may go back
while the other can be taken.

### `SwapOut`

One swap-out from the moment `createSwapOut` has saved it.

- `swap` and `db` are the entity in memory and as last saved. They differ
  between an assignment and its `save`, and after a crash `swap` is `db`.
- The floating tasks are program counters: `poll` (the lookup loop, with the
  reply it was given), `expiry`, `intent` (contract creation, tracking,
  sending, the reply), `refunder`, `canceller`. `ev` is the program counter of
  the handler of the event at the head of `feed`.
- `feed` holds nbxplorer's events after `lastEventId`. `CommitEvent` is the
  save of `lastEventId`, so a crash before it delivers the event again.
- `invoice` and `htlcs` are LND's; `onchain` says where funding, claim and
  refund are, `tip` the height of each chain.

| Code | Actions |
|---|---|
| `waitForLightningPaymentIntent` | `PollInvoice`, `PollReply` |
| `checkExpiry`, `stop` | `CheckExpiry`, `ServeExpiryCancel`, `FinishExpiry` |
| `onStatusChange(INVOICE_PAYMENT_INTENT_RECEIVED)` | `CreateContract`, `TrackContract`, `SendCoins`, `SendReply`, `AbortPayment` |
| `onStatusChange(CONTRACT_EXPIRED)`, `(DONE)` | `BroadcastRefund`, `CancelInvoice` |
| `processNewBlock` | `ProcessNewBlock` (one disjunct per branch), `SettleInvoice`, `FinishSwap` |
| `processNewTransaction` | `ProcessFundingTx`, `RecordSpendingTx`, `ApplySpendingTx` |
| the event loops, `SwapService` | `NobodyListens`, `CommitEvent`, `Restart`, `Resume` |
| environment | `PayInvoice`, `InvoiceLapses`, `UserClaims`, `NewBlock`, `NewBitcoinBlock`, `Crash` |

`processContractSpendingTx` saves twice, and so is two actions: `RecordSpendingTx`
ends at the first save, `ApplySpendingTx` is the rest. `SettleInvoice` and
`FinishSwap` are the two sides of `settleInvoice`.

### `SwapIn`

One swap-in from the moment `createSwapIn` has saved it. Every handler saves
what it assigns before it awaits anything else, so one variable `swap` stands
for the entity. `pay`, `attempt` and `cltvLimit` are `onStatusChange(CONTRACT_FUNDED)`
with `retrySendPayment`; `claimer` is `onStatusChange(INVOICE_PAID)`. A deposit
pays the exact amount, another amount, or another Liquid asset, and `spends`
says which deposit the claim and the refund spend. LND's payment is `payment`
with `htlcExpiry`: an attempt may lock its HTLC for any length a route may have, of which
the least (`FinalCltv`) and the largest (`cltvLimit`) are tried.

| Code | Actions |
|---|---|
| `checkExpiry`, `stop` | `CheckExpiry` |
| `onStatusChange(CONTRACT_FUNDED)`, `retrySendPayment`, `sendPayment` | `ComputeLimit`, `SendPayment`, `PaymentReply`, `RetryPayment`, `InvoicePaid` |
| `onStatusChange(INVOICE_PAID)` | `BroadcastClaim` |
| `processNewBlock` | `ProcessNewBlock` |
| `processContractFundingTx` | `ProcessFundingTx`, `RecordMismatch` (a mismatch is saved twice) |
| `processContractSpendingTx` | `RecordSpendingTx`, `ApplySpendingTx` |
| the event loops, `SwapService` | `NobodyListens`, `CommitEvent`, `Restart`, `Resume` |
| environment | `Deposit`, `UserSettles`, `PaymentFails`, `UserRefunds`, `NewBlock`, `NewBitcoinBlock`, `Crash` |

### `SwapStatus`, `SwapView`

`OutMoves` and `InMoves` give, for each status, what the next answer of
`GET /swap/out/:id` or `/swap/in/:id` may be. `SwapView` is the state machine
with these moves. `ImplementsView` maps the saved entity of a runner to it.
The moves are what a client sees without a crash at the server's end of a
swap-out; a swap-in implements them with one. They are those of a swap-in with
one deposit: a further deposit of another amount moves the status back to
`CONTRACT_AMOUNT_MISMATCH_UNCONFIRMED` from anywhere (`SwapInRunner.ts:207-213`),
one of another asset to DONE, and `ImplementsView` of `SwapIn` allows these moves
beside them (`FurtherDepositMoves`) and no others.

### The daemon

One behaviour has one scenario (`script`): who asks for swaps, which failures
happen, the fee rates, the crashes. A step is the code between two calls to the
server, LND, the chain or the database.

- `outRow`, `inRow` are the tables, `call` and `inCall` the gRPC calls that
  create the swaps, `mon` the poll: the rows it read at its start and has not
  come to, the row it is at, the status it will save. The row is saved whole,
  with what the poll read, over what others wrote meanwhile.
- `outServer`, `inServer` are the server's answers. `payment` is LND's,
  `outSpend` and `inSpend` the spends of the contracts, named by their fee rate.
- `auto`, `running`, `monitored`, `watchers` are `AutoSwapService`. A goroutine
  that was started and has not run yet (`watchers[id].new`) is not on the list.

| Code | Actions |
|---|---|
| `Server.SwapOut` | `CreateSwapOut`, `SaveSwapOut`, `PayInvoice` |
| `Server.SwapIn`, `RecoverReusedSwapAddress` | `CreateSwapIn`, `SaveSwapIn`, `RecoverReusedSwapAddress` |
| `Start`, `MonitorSwaps` | `DaemonStart`, `MonitorSwaps` |
| `MonitorSwapOut`, `ClaimSwapOut`, `GetFeesSwapOut` | actions of the same names, `MonitorSavesOut`, `MonitorOutFails` |
| `MonitorSwapIn`, `InitiateRefund`, `getPreimage` | actions of the same names, `FetchLockTx` (its early save), `MonitorSavesIn`, `MonitorInFails` |
| `RecoverPendingAutoSwaps`, `RunAutoSwapCheck` | `RecoverPendingAutoSwaps`, `CheckWhileRunning`, `RunAutoSwapCheck`, `AttemptFails`, `AttemptSucceeds`, `UpdateAutoSwap` |
| `monitorSwapUntilTerminal` | `WatcherStarts`, `WatcherEnds` |
| environment | `OutEnvironment`, `InEnvironment`, `User…`, `DaemonCrash` |

### `WebClient`

One user and one swap: the request, the row in IndexedDB, a backup, a tracker per
page, the server by `SwapView`'s moves. `LocalSwapStorageService.update` is a get
and a put, so `UpdateStatus…` and `UpdateDate…` are two actions each and another
page, the deletion or an import may come in between. `refresh` is `Find`, the
update, `FindById`, and for a contract to spend `GetPsbt`, `Publish` and the
update of the date.

### `SwapForm`

The form before `WebClient`'s `CreateSwap`: `fields` is its store, `formErrors`
the fields marked, `config` whether `createResource` has the configuration.
`setForm` is every edit together with the effect that validates again,
`createSwap` the click up to the next event of the browser: with the
configuration loaded its awaits are of resolved promises, so that validation and
request are one step; without it `validate` returns and the request goes out in
`ConfigLoads`, with the chain of the click and the fields of that moment. A
pasted text is what it decodes as and the amount it has.

### `LiquidWallet`

The coins of Elements, and per lock the steps of `getPset`: selection, fee,
second selection, then the broadcast, whose refusal nbxplorer hides. Claims and
refunds bring coins in. `virtualSize` counts a transaction in units of an input.

### `Exchange`

A command is a list of steps. Every API call goes through `withRetry`;
`CallServed` and `CallUnserved` are what the exchange did and what it answered.
A call that was served answers "done", or its answer is lost. That "in progress"
and "please wait" mean that nothing was done is what `withRetry` takes for granted
(`BitfinexProvider.ts:45-75`), and an assumption of the module about the exchange.
`Pay` and `Poll` are `payInvoice` and `monitorInvoice`.

### `Migrations`

A schema is the set of its tables, of the columns that come or go, of enum
values and of the NOT NULLs that come or go. Each migration is what it adds and
drops and what its rollback does. `Migrate` is gormigrate's run of everything
pending in one transaction, `Reset` one rollback at a time.

### Abstractions of the runners

- One swap. Swaps share the process (a rejected promise ends it for all), which
  `Crash` stands for, and LND's funds, which are not modelled.
- Transactions are identified by what they do. Amounts are "exact" or "other".
  Reorganisations are left out: the code does not handle them.
- The failures of LND and nbxplorer are the members of `Faults`, so that a run
  says which of them it admits.
- nbxplorer announces a transaction in the mempool or only once it is mined,
  a block before or after its transactions, and never a spend before the output
  it spends.

## 4. What the runs check

`MCSwapOut` and `MCSwapIn` hold the heights of the instances, `MCDaemon` and
`MCPrograms` the scenarios; every other constant is in the `.cfg`. `daemon` takes three to
four minutes with two workers, every other run under two.

| Run | Instance | Shows |
|---|---|---|
| `swapout_calm` | Bitcoin, no crash, funding may be refused, transactions may wait in the mempool for any time | `SettledOnlyAfterClaim`, `OutcomeTruthful`, `ClaimInTimeIsPaid`, `StatusFollowsChain`, `DoneIsFinal`, and that the saved swap implements `SwapView` |
| `swapout_races` | Bitcoin, one crash anywhere, every failure in `FaultKinds` | what no failure breaks: `FundedAtMostOnce`, `FundedOnlyForHeldPayment`, `SettledOnlyWithRevealedPreimage` |
| `swapout_liquid_live` | Liquid, chains drifting by one block | `ContractIsSpent`, `FundedSwapFinishes`, and that the runner implements `AtomicSwap` |
| `swapin_live` | Bitcoin, one deposit of the exact or of another amount, one attempt to pay | `PaymentEndsBeforeTimeout`, `OutcomeTruthful`, `StatusFollowsChain`, `FundedSwapFinishes`, and that the runner implements `AtomicSwap` |
| `swapin_liquid` | Liquid, one crash, every failure, up to two deposits, exact or of another amount or asset, until the third block | `PaidOnlyWhenFunded`, `ClaimOnlyWithSavedPreimage`, and that the swap implements `SwapView` but for what a further deposit does |
| `daemon` | one user swapping out or in with every failure and a crash, or out with nothing to pay with, or the auto-swap loop in five scenarios | `MoneyMovesOnlyWithSavedKeys`, `RowTellsTheTruth`, `MarkedAutoSwapsOverlapOnlyAfterExpiry`, `BelowTargetOnlyByAFee`, `RunningSwapsAreWatched`, `ContractsAreSpent`, `EndIsRecorded` |
| `programs` | each behaviour runs one of `WebClient`, `SwapForm`, `LiquidWallet`, `Exchange`, `Migrations` | `MoneyHasKeys`, `RequestedMeansPublished`, `OnlyARefusalStopsTheTracker`, `HistoryCatchesUp`; `AskedForIsValid`; `RefusedOnlyForKnownCauses`; `NoStepIsRepeated`, `SuccessMeansDelivered`; `RunningDaemonHasItsSchema`, `RollbackUndoesMigrate` |
| `swapout_crash_atomic` | one crash, nothing else | **violated** `BothSucceedOrBothFail` |
| `swapout_expiry` | a cancellation fails | **violated** `ExpiredBeforeFundsWereSent` |
| `swapin_stale_limit` | a payment fails at its HTLC's expiry and is retried | **violated** `PaymentEndsBeforeTimeout` |
| `swapin_zero_limit` | a late deposit | **violated** `PaymentEndsBeforeTimeout` |
| `swapin_crash_atomic` | one crash, nothing else | **violated** `BothSucceedOrBothFail` |

Deadlock checking is off: a finished swap with all blocks mined stops, as do a
daemon without swaps and an operator who has run all commands. The five modules
of `programs` share nothing; the variable `program` says which of them runs.

### Bounds

- `RequiredConfirmations = 2` tells "in a block" from "confirmed" and makes an
  off-by-one in either direction visible.
- `LockBlockDelta` and `CltvGap` are scaled down (the gap is 20 blocks in the
  code), keeping what matters: the gap is larger than the confirmations plus the blocks
  the server may lag (`MaxPending`), as the code's is. With a gap below that,
  `ClaimInTimeIsPaid` fails, which is what the gap is for.
- `MaxHeight` reaches past the end of the HTLC (swap-out) or past the confirmed
  refund (swap-in), so that every branch of `processNewBlock` is taken.
- `PayBy` and `DepositBy` let the payment or deposit come at several heights.
- `MaxPending = 1` lets two blocks of events queue up, enough for every
  reordering of two transactions and a block.
- `MaxDrift` and `BlockRatio = 2` give Liquid several blocks per Bitcoin block
  and let either chain run ahead.
- `MaxCrashes = 1`: each failure found needs one crash, and a second one starts
  from a state the first restart already reaches.
- `Strays` is both kinds of wrong deposit in `swapin_liquid`, where two of the
  three deposits are made, in any order (`MaxDeposits = 2`). `DepositBy = 3` lets
  the second one come when the exact one is confirmed and its payment under way
  or made, so that a late mismatch is reached. In
  `swapin_live` one deposit is made (`MaxDeposits = 1`), exact or not: with two
  of them `FundedSwapFinishes` fails, see below.
- `MaxOuts = 2` lets two auto swaps overlap. With a balance of 0, LND fails the
  payment and the daemon follows a swap that ends unpaid. The fee rates 2 and 5
  replace each other, 8 leaves the output below 1000 sats, 201 is above the
  daemon's limit. The balances make one swap take the excess with nothing left for
  its fee (7 and 8), a second one fit (10), or the excess be smaller than the
  maximum (6). `RoutingFeeLimitPPM` is 200000, far above the code's, so that a swap
  of the maximum may cost a fee of 1. Two goroutines per swap are enough for one
  to end while the other runs.
- The auto-swap scenario whose contract expires has one swap. With two it has
  582000 states, too many to check liveness on: its safety was checked by itself,
  where the exception of `MarkedAutoSwapsOverlapOnlyAfterExpiry` does occur (TLC
  violates the property without it at once). For every number of swaps it is proved.
- `WebUsers`: two pages on a swap-in, whose tracker waits for the user; or one
  page with a lost request and a reload, or a deletion and an import. The
  tracker of a swap-out shares its steps with the other.
- A fee of half, limits of 2 and 8 and the amounts 0, 2, 4 and 8 make each of the
  two amounts valid, too small or, for an invoice, too large; the payloads are
  one of every kind of destination, two invoices and none.
- The coins of 24, 15 and 12 pay a lock's real fee, leave dust, or make it
  select again; two locks compete for them.
- `MaxRetries`, `MaxPolls` and `MaxCommands` are 2: a last attempt and one
  before it, and a command that finishes what the first left undone.
- Every database level from none to the thirteenth migration is initial.

### The world's speed and fairness

`Spec` has no fairness. What it assumes of time are guards of `NewBlock` and
`NewBitcoinBlock`: the server is at most `MaxPending` blocks behind, and in a
swap-out (`PaymentInTime`) it does not take as long to fund a contract as the
contract lasts. `swapout_calm` and `swapout_races` assume no more
(`Prompt = FALSE`): a transaction may wait in the mempool for any time.

With `Prompt = TRUE` two more guards hold. `Unhurried`: a block does not
overtake a broadcast that is under way, nor in a swap-in a reply or the
payment's retries, minutes apart. `Mined`: a block mines every transaction it
can. Blocks take ten minutes, or one on Liquid, and the code has no fee bumping,
so nothing less would let any contract be spent in time. The theorems hold for
both values.

`LiveSpec` adds `Fairness`: weak fairness of each action of the Node.js process,
which is the event loop's guarantee (a resolved promise and an elapsed timer are
run), and of blocks; in a swap-in also of the user's refund and of LND ending an
HTLC at its expiry. It is not assumed of the user's payment, claim or
settlement, nor of crashes.

`DaemonLiveSpec` adds weak fairness of the daemon's start, its polls, its calls and
its auto-swap loop, which is what goroutines and tickers give, and strong
fairness of each request the monitor repeats at every poll: the server and
mempool.space answer, a rate allows the spend and the database writes again and
again. Nothing is asked of the server's progress, the chain or the user.
`WebFairness` lets the pages run, lets the user open the history for a swap that
is not done, and give an address when asked for one.

The runners' liveness runs have no crash: after one, a swap-out past
`INVOICE_PAYMENT_INTENT_RECEIVED` or `CONTRACT_EXPIRED` and a swap-in past
`CONTRACT_FUNDED` really are stuck, since the restart resumes nothing but the
expiry timer and the lookup loop.

### What the violated runs show

1. **Swap-out, crash between two saves** (`SwapOutRunner.ts:334`). The unlock
   transaction's height is saved first, status and preimage later. After a crash
   in between, the repeated event returns early and the invoice is never settled.
2. **Swap-out, expiry** (`SwapOutRunner.ts:79`). A failed or late cancellation
   records DONE/EXPIRED over a payment that is funding its contract.
3. **Swap-in, retried payment** (`SwapInRunner.ts:79`). The time-lock limit is
   relative and computed once; a retry blocks later may outlive the contract.
4. **Swap-in, zero limit** (`SwapInRunner.ts:99`). A limit of 0 means no limit to
   LND.
5. **Swap-in, crash during the payment** (`SwapInRunner.ts:46`). The payment goes
   on in LND, no task waits for it after the restart, and the user refunds.

### What else the models show

None of these is a run of its own. Each is a state the named model reaches, or
an exception a property states.

*The runners.* A swap-in may be recorded as EXPIRED with its deposit on the way
(`SwapInRunner.ts:59-69`), against `api.types.ts:72`, "expired before any funds were
sent". After `send_ambiguous`, DONE/ERROR is recorded for a contract that
was funded. A second deposit during the payment moves a swap-in back to
`CONTRACT_AMOUNT_MISMATCH_UNCONFIRMED` from any status, and an exact and another
deposit on one swap-in may leave it there for good. With `late_resume`, events
are lost to a swap that is not resumed yet. A refund mined while a swap-in is
still `CONTRACT_FUNDED_UNCONFIRMED` leaves it in `CONTRACT_EXPIRED`.

*The daemon.* A claim that replaces another, or a refund, is broadcast before its
id is saved, so `TxID` may name a transaction that was never mined; a swap-out
then stays in the daemon's pending list after its success (`EndIsRecorded`). A
refund that fails after `FetchLockTx` saved `RefundRequestedAt` is not asked for
again (`ContractsAreSpent`). A fallback to the server succeeds even when
nbxplorer refused the transaction. An auto swap whose call failed after its
payment began, or whose mark was lost, does not count as running: a second one
starts beside it, and both auto-swap properties make an exception of it. A swap
whose contract expired is taken for ended (`auto_swap.go:152`) while its payment is
still held, so the next one may start beside it
(`MarkedAutoSwapsOverlapOnlyAfterExpiry`). A swap of the whole excess leaves
nothing for its routing fee and takes the balance below the target
(`BelowTargetOnlyByAFee`). A swap the server has forgotten answers 404 for ever and
stays on the running list, which stops the loop (`auto_swap.go:146`). The monitor
waits inside a poll for a payment or an invoice to end, and follows no other
swap meanwhile. The option `minrelayfee` is documented as a rate per kB
(`cmd/main.go:128`) and used as a fee (`bitcoin/helpers.go:413`).

*The web client.* A create whose answer is lost leaves a swap on the server that
no store knows. A broadcast the node refuses is answered like one it takes
(`NbxplorerService.ts:363`): the date is written, no page asks again and the
contract stays unspent, which is the one exception of
`OnlyARefusalStopsTheTracker`. A
poll stops at DONE, so an INVOICE_PAID that follows a refund is not shown. A page
that waits for the refund address polls no more. A form that is sent before the
configuration has loaded is not validated, and if it is edited meanwhile the
request has the new fields with the chain of the click (`SwapForm.tsx:174-177`,
`211`): `AskedForIsValid` promises no more for it than a pair with Lightning.

*The Liquid wallet.* The rate of `getCommissionAmount` is per kvB and multiplies
vbytes. The selection covers the fee of one vbyte, so a lock may fail although
other coins would pay it, and coins are not reserved while a lock is built.

*The exchange commands.* `pay-invoice` passes its CLTV limit as the channel and
its channel as the limit (`cli.ts:291`), and finds no route. "In progress" at the
last attempt passes for a success.

*The migrations.* The last two have rollbacks that do nothing: after a rollback
the next migrate fails, the daemon logs another variable's error
(`cmd/main.go:229`) and starts, and works, on the schema that is there. `reset`
stops at the second migration while a row has no outcome, although
`database.go:151` says that it will "WIPE all tables".

## 5. What is proved

Unless a theorem names a hypothesis, it is about `Spec` with the constants under
the modules' `ASSUME`s only: any chain, any deltas and bounds, prompt or not, any
set of failures, any number of crashes. TLC checks the same properties on small
instances. Each hypothesis excludes exactly what section 4 shows to break the
property.

**`AtomicSwapProofs`.** `AtomicSwapAtomicity`: in the abstract swap both
payments are taken or neither.

**`SwapOutProofs`.**

- `SwapOutTypeOK`. `TypeOK` is not inductive alone: a handler past its first
  save reads `Head(feed)`, so `HandlerHasEvent` says that the event is there,
  and `getCltvExpiry` is a minimum, so `HtlcsOK` says that a contract is only
  created for a nonempty set of HTLCs.
- `SwapOutFundedAtMostOnce` from `OneIntent`: once a funding was sent, the
  status has left CREATED in memory and in the database and the task that would
  send is past sending, so neither `Resume` nor a lookup can start it again.
- `SwapOutSettledOnlyWithRevealedPreimage` from `RevealedByClaim`: as long as
  there is no claim, the feed holds no event of one, and nothing else gives the
  server a preimage.
- `SwapOutFundedOnlyForHeldPayment` from `PaymentBacked`: the contract in
  memory, and the saved one once the money may leave, was computed from the
  HTLCs LND holds, which never change after the payment was accepted.
- `SwapOutSettledOnlyAfterClaim`, for any failures and crashes, under
  `SpendIsApplied`: the process does not die between the two saves of
  `processContractSpendingTx`. The feed is true (`TrueEvents`), one spend is
  mined (`OneMined`), and after its event comes none of its rival
  (`SpendsInOrder`). Hence the height that is recorded first is the mined
  spend's (`RecordedSpend`), and between two events the status names that spend
  (`StatusOfSpend`), so that the confirmations a block counts are the claim's.
  A death between the two saves breaks `StatusOfSpend`: it is violation 1.
- `SwapOutImplementsView` and `SwapOutDoneIsFinal`, for any crashes, under
  `LndAnswers`: no cancellation is served late or fails, and a funding that was
  sent is not reported as refused. `TasksFitStatus` says which status each
  waiting task finds although it does not look again; `OutcomeFitsMoney` says
  what each outcome knows of the money. Without `LndAnswers` an expiry is written
  over a payment under way: violation 2, and `send_ambiguous` above.
- `SwapOutOutcomeTruthful`, under both hypotheses: `RefundBacked` adds that
  REFUNDED is written of a confirmed refund.
- `SwapOutStatusFollowsChain`, for any crashes and on either chain, under both
  hypotheses and `ServerResumes`: a settlement does not fail, no event is
  dispatched before the swap is resumed, and `requiredConfirmations` is not 0.
  An event is `Handled` when it was announced and is not awaited in the feed any
  more; only a handler that ends makes it so (`BlockHandled`, `SightingHandled`),
  and nbxplorer's order (`HeightsInOrder`, `FundingFirst`) makes everything an
  earlier block announced handled before (`EarlierHandled`). `FollowInv` says what
  each handled event left behind: the funding and its height (`LockNoticed`), the
  recorded spend and the status that names it (`SpendFollowed`), and, of a block
  (`BlockLeaves`), that no confirmation and no timeout it brought went unnoticed.
  The property is this of the last block. Without a settlement's answer the
  status waits for the next block; with `late_resume` an event meets no runner.
- `SwapOutClaimInTimeIsPaid`, for any crashes and payments, under the same
  hypotheses and `GapCoversLag`: the gap is longer than the server's lag and the
  blocks from a claim to the one that settles it. A block that waits in the feed
  is followed by all later ones (`BlocksListed`), a block is not mined while more
  than `MaxPending` wait, hence the server is at most that far behind
  (`LagBounded`, by counting places of the feed, `PendingBlocks`). So when an HTLC
  expires, the block that should have settled a claim in time was handled, and
  `BlockLeaves` says that it did (`NoClaimWaits`). `ClaimMissed` carries this to the
  states after the cancellation, together with the cancellations the runner asks
  for (`CancelHasReason`). A gap of one block less is refuted by TLC.
- `SwapOutBothSucceedOrBothFail`, of a contract on Bitcoin under the same
  hypotheses: the documentation's promise. What violation 1 shows to break it is
  the only way a crash can.
- `SwapOutImplementsAtomicSwap` and `SwapOutSpentInTime`, on Bitcoin under `Calm`
  (no crash, only the funding may fail, prompt blocks, `requiredConfirmations` not
  0) and `GapCoversRefund`: the gap covers twice a confirmation and the server's
  lag. What the first theorem needs beyond the others is that a payment is given up
  only before the funding or after the refund, that is, by which block the contract
  is spent. `FundedEarly`: the contract is funded, and mined, before its timeout.
  So by the block `SpentBy` the server has handled the one that ends a funded
  contract, hence a spend waits (`SpendWaits`, from `BlockLeaves` and
  `ExpiryIsRefunded`) and a prompt block mines it (`SpentInTime`). A claim mined by
  then is settled before the HTLC expires (`ClaimIsSettled`); what LND gives up at
  that height was therefore refunded (`LapsedIsRefunded`). The code's gap of 20 and
  3 confirmations leave room for a lag of 6 blocks; with the least gap less one, TLC
  finds a payment that lapses while the refund is still to be mined.
  `SwapOutSpentInTime` is the bounded form of `ContractIsSpent`. With
  `AtomicSwapAtomicity` the first is the documentation's promise again.

**`SwapInProofs`.**

- `SwapInTypeOK`, with `HandlerHasEvent` and `DepositKnown` (only a deposit
  that was made and is not of another asset is recorded).
- `SwapInClaimOnlyWithSavedPreimage` from `ClaimFollowsPayment`: a task that
  waits to claim has a settled payment and a saved preimage.
- `SwapInPaidOnlyWhenFunded` from `PaymentFollowsDeposit`: the feed's heights
  are those of the chain (`TrueEvents`), the record of a swap that may still be
  funded is that of the exact deposit (`RecordIsTrue`), hence the confirmations
  counted are the deposit's own.
- `SwapInImplementsView`, for any failures, retries and crashes, when the
  contract gets no deposit but the exact one (`Strays = {}`), so that the property's
  exception for further deposits does not arise. `ViewInv` says that a payment is noticed
  once, in a status that awaits it.
- `SwapInOutcomeTruthful`, under `Strays = {}` and `[]BothSucceedOrBothFail`. Of
  an expired swap-in it says that nothing was paid and nothing claimed. It does not
  say that nothing was deposited, as `api.types.ts:72` does: `checkExpiry` looks at
  the age alone, and a deposit on its way is then seen by nobody and lost to the swap.
  `OutcomeBacked` says whose height is recorded. When the payment settles and the
  user takes the contract back as well (violation 5), the recorded height may be
  that of the transaction that lost.
- `SwapInPaymentEndsBeforeTimeout`, on Bitcoin, from `LimitIsFresh`: no block comes between
  the limit and the payment, and the HTLC expires at most `limit` blocks after
  it. `Retries = 1`, `Prompt` and `[]LimitIsNotZero` exclude violations 3 and 4
  and nothing else.
- `SwapInImplementsAtomicSwap` and `SwapInBothSucceedOrBothFail`, for any deltas,
  margins above 0 and confirmations, when nothing goes wrong (`Calm`: on Bitcoin,
  one deposit, one attempt to pay, no crash, prompt blocks). `CalmInv`: a payment
  under way is waited for and its HTLC has not expired; a settled one has its
  claim mined, or on its way and the timeout ahead (`ClaimIsComing`); and there
  is no refund before the timeout. With `AtomicSwapAtomicity` this is the
  documentation's promise.
- `SwapInStatusFollowsChain`, under `Calm`, `[]LimitIsNotZero` and a deposit that
  is broadcast two blocks before the timeout (`InTime`), for any lag of the
  server. The property speaks of the states in which every event was handled, and
  is not inductive: `FollowInv` says of every state what each handled event left
  behind. An event is `Handled` once it was announced and is not in the feed, as
  for a swap-out. The deposit's leaves its height (`DepositNoticed`), a spend's
  its height and the status that names it (`SpendFollowed`), a block's no
  confirmation and no timeout unnoticed (`BlockLeaves`). It needs that the feed is
  in the order of the chain (`HeightsInOrder`), that the deposit is mined before
  the timeout and the refund after it (`MinedInTime`), and what each status
  knows (`StatusInOrder`). `InTime` cannot be weaker: TLC refutes the property for
  a deposit one block later. It is mined in the timeout's block, its refund is
  announced while the status is `CONTRACT_FUNDED_UNCONFIRMED`, `SwapInRunner.ts:287`
  ignores it, and the swap stays in `CONTRACT_EXPIRED`.

**`LiquidWalletProofs`.** `WalletRefusesForKnownCauses`: a lock that was sent and
that the network does not have shares a coin with one it took, or has a change
below the dust limit. The inductive invariant says that the change of a built
lock is what its inputs leave, that every coin it selected is in the wallet or
spent by another lock the network has, and that a lock the network has is past its
last step.

**`DaemonProofs`.**

- `DaemonMoneyMovesOnlyWithSavedKeys`, for any scenarios, any number of swaps,
  failures, fees and crashes. `KeysSaved` adds to the property the calls that
  are about to pay or to show the address. `PaidFirst` says that only a payment
  gives the server a contract, the chain a spend and the monitor a claim, which
  needs the shapes of rows, answers and polls (`ShapeOK`, `PollOK`) and that a
  poll past its first request has a status to save (`StatusKnown`), so that no
  save turns a row into none.
- `DaemonRunningSwapsAreWatched`, for any number of goroutines of one swap. Its
  invariant is about every monitored swap, running or not.

**`DaemonRowProofs`.**

- `DaemonRowTellsTheTruth` from `OutTruth` and `InTruth`: what a poll holds while
  it waits for a transaction or a fee is still true of the server and the chain
  when it saves, because what it is about (an end, a payment, a mined
  transaction) is never undone. The server expires a swap-in by its age, whatever
  was deposited, and the user may deposit after it: what EXPIRED says is that the
  invoice is open and the contract untouched (`EndedUnseen`).
- `DaemonMarkedAutoSwapsOverlapOnlyAfterExpiry` from `MarkInv`: a mark is set late,
  on a row the monitor may hold a copy of; a copy can lose a mark but not bring one
  back, and a marked swap that holds liquidity is on the running list whenever the
  loop looks, unless its contract expired.
- `DaemonBelowTargetOnlyByAFee` from `BalanceInv`: the payments under way or made,
  with their fees, and what the loop has reserved for the call it is about to make
  fit in what the balance has above the target and one fee (`HighestFee`). The call asks for what was reserved
  (`CallIsReserved`), a payment is held while the server goes on with the swap
  (`PaymentIsHeld`), and LND pays only with what it has (`NothingOverdrawn`). The
  property is about a sum over the swaps, which is a fold: the lemmas on `Paying`
  say that it exists and what it gains when one swap's payment changes. Where one
  would write an induction, they take a smallest counterexample
  (`MinimalExists`), which the provers can instantiate.
- `DaemonTypes` from `TypeInv` and the invariants above: rows, and the copies of
  them that a poll holds, have statuses the clients can map and transactions of
  the scenario's rates (`RowsFit`), a saved swap is known to the server or was
  (`AnswersFit`), goroutines and crashes stay within the scenario (`ProcessFits`).

**`WebClientProofs`.** `WebMoneyHasKeys` and `WebRequestedMeansPublished`, for any
number of pages that write the same store. `WebInv`: rows and files that are
there have their keys (`RowsHaveKeys`), a swap is stored before its page can be
paid from (`StoredFirst`), and whoever is about to write a request date knows of a
request that was made (`RequestsWereMade`). `FormAsksForWhatIsValid`, for any
payloads, amounts and limits: `FormInv` adds to `AskedForIsValid` that the fields
always pair Lightning with one chain, which the selectors and the flip keep and
from which the chain of a request follows (`ChainIsOfThePair`).

**`ExchangeProofs`.** `ExchangeNoStepIsRepeated` and
`ExchangeSuccessMeansDelivered` from `CommandInv`: what the script has not reached
was not done, what is behind it was done once unless a call was given up. The
proofs are about any number of retries and any lost answers, under the assumption
of section 3 that "in progress" and "please wait" mean that nothing was done.

Each invariant is proved with one lemma per group of actions, and each theorem
combines initialisation, step and implication with PTL.

Only model-checked, on the bounds above:

- liveness, and `LiveSpec` as such: fairness and `ENABLED` are outside the
  prover's reach;
- `StatusFollowsChain` of a swap-in whose deposit is not the exact one: its record
  may be overwritten, and `Calm` leaves such a deposit out;
- `ImplementsAtomicSwap` of a swap-out on Liquid, the instance `swapout_liquid_live`
  checks: the theorem is about Bitcoin;
- the migrations, whose module has no constants: every database level is
  initial, and TLC's enumeration of them is exhaustive.

## 6. What is not modelled

- Scripts, signatures, PSBT and PSET encoding, blinding: abstracted to who can
  spend what from which height on. Amounts and fees are modelled where a branch
  depends on them: the daemon's builds, the auto-swap loop, the Liquid wallet.
- Chain reorganisations and fee bumping by the server: the code has no handling
  of either.
- Moments between reads that are one step here: `createContract` of a swap-out
  awaits the lookup of the invoice and the heights of both chains in turn
  (`SwapOutRunner.ts:179-195`), and a block may come in between; a swap-in's deposit
  on Liquid is unblinded in an await (`SwapInRunner.ts:178`) before anything of the
  swap is read, and one that cannot be unblinded is ignored (`196-199`).
- `RecoverReusedSwapAddress` of a deposit that was the first: the daemon's model
  has it for a second deposit on the address only.
- Several swaps at once in the server: they share the process, LND's balance and
  the coins of `LiquidWallet`, nothing else.
- Failing reads of the daemon's database: `MonitorSwaps` tries again at the next
  poll; `RecoverPendingAutoSwaps` logs the failure and does not, after which a
  second auto swap could start beside the first.
- Two pages on a swap-out, and the SDK's in-memory persistence: the tracker's
  steps are those of the models with another store.
- The order of pending swaps within a poll: the queries have none, the model
  takes swap-ins before swap-outs, as the loops do, and one order within them.
- The server's validation of requests, quotes and prices, read-only
  commands, HTTP and gRPC encoding, generated types and clients
  (`server-backend/src/lnd/lnrpc`, `daemon/api`), metrics, health and deployment:
  no state of a swap depends on how they work. The form when its configuration
  cannot be fetched: reading the failed resource throws, and the page stays broken.
- The server's own schema migrations: generated, and only ever applied forward.
