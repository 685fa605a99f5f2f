----------------------------- MODULE MCPrograms -----------------------------
(***************************************************************************)
(* The instances of WebClient, SwapForm, LiquidWallet, Exchange and        *)
(* Migrations for TLC.  They share nothing, so one run checks them side by *)
(* side: each behaviour runs one of the programs.                          *)
(***************************************************************************)
EXTENDS WebClient, SwapForm, LiquidWallet, Exchange, Migrations

VARIABLE program

-----------------------------------------------------------------------------
User(k, pages, f, c, d) ==
    [kind |-> k, tabs |-> pages, faults |-> f, closes |-> c, deletes |-> d]

(* Two pages on a swap-in, whose tracker waits for the user; one page with *)
(* a failure and a reload, or with a deletion and an import.               *)
WebUsers ==
    { User("in", 1 .. 2, 0, 0, 0) }
    \cup UNION { {User(k, {1}, 1, 1, 0), User(k, {1}, 0, 0, 1)} : k \in {"in", "out"} }

(* With a fee of half, 4 may be swapped, 2 leaves too little, and the input*)
(* for 8 is too much.                                                      *)
Pasted ==
    { NoPayload, [is |-> "invoice", amount |-> 2], [is |-> "invoice", amount |-> 8],
      [is |-> "bitcoin address", amount |-> 0], [is |-> "liquid address", amount |-> 0] }
Typed == {0, 2, 4}

(* A lock of 10 costs a fee of 1 at first, of 5 or 6 in the end: 24 pays   *)
(* it, 15 leaves dust, 12 makes it select again.                           *)
LockIds == {"l1", "l2"}
LockAmount == [l \in LockIds |-> 10]
WalletCoins == {[of |-> "funds", value |-> v] : v \in {24, 15, 12}}
Contracts == [big |-> 20, small |-> 3]

(* The exchange has a reserve of its own in two currencies.                *)
Balances == [node |-> 2, LNX |-> 1, BTC |-> 1, LBT |-> 0, wallet |-> 0]

-----------------------------------------------------------------------------
ProgramsInit ==
    /\ program \in {"web", "form", "wallet", "exchange", "migrations"}
    /\ WebInit /\ SwapFormInit /\ LiquidWalletInit /\ ExchangeInit /\ MigrationsInit
    /\ program = "web" \/ user = CHOOSE u \in Users : TRUE
    /\ program = "migrations" \/ (applied = 0)

ProgramsNext ==
    /\ UNCHANGED program
    /\ \/ /\ program = "web" /\ WebNext
          /\ UNCHANGED <<swapFormVars, walletVars, exchangeVars, migrationVars>>
       \/ /\ program = "form" /\ SwapFormNext
          /\ UNCHANGED <<webVars, walletVars, exchangeVars, migrationVars>>
       \/ /\ program = "wallet" /\ LiquidWalletNext
          /\ UNCHANGED <<webVars, swapFormVars, exchangeVars, migrationVars>>
       \/ /\ program = "exchange" /\ ExchangeNext
          /\ UNCHANGED <<webVars, swapFormVars, walletVars, migrationVars>>
       \/ /\ program = "migrations" /\ MigrationsNext
          /\ UNCHANGED <<webVars, swapFormVars, walletVars, exchangeVars>>

(* The other programs leave every page closed: the fairness of WebClient   *)
(* asks nothing of them.                                                   *)
ProgramsSpec ==
    /\ ProgramsInit /\ [][ProgramsNext]_<<program, webVars, swapFormVars, walletVars, exchangeVars, migrationVars>>
    /\ WebFairness

=============================================================================
