----------------------------- MODULE Migrations -----------------------------
(***************************************************************************)
(* The schema of the daemon's database: the thirteen migrations, and the   *)
(* tools that apply and undo them (the daemon's start, and the commands    *)
(* migrate, rollback and reset).  A schema is the set of what it has:      *)
(* tables, types, columns that come or go, values of the enums, and the    *)
(* NOT NULLs that come or go.  The commands run while the daemon is down.  *)
(***************************************************************************)
EXTENDS Naturals, Sequences, SequencesExt

VARIABLES
    schema,     \* what the database has
    applied,    \* gormigrate's table: how many migrations were applied
    tool,       \* who uses the database
    unfinished  \* a row has no outcome

migrationVars == <<schema, applied, tool, unfinished>>

-----------------------------------------------------------------------------
(* The migrations.                                                         *)

swap_status ==
    { "CREATED", "INVOICE_PAYMENT_INTENT_RECEIVED", "CONTRACT_FUNDED_UNCONFIRMED",
      "CONTRACT_FUNDED", "INVOICE_PAID", "CONTRACT_CLAIMED_UNCONFIRMED", "DONE",
      "CONTRACT_REFUNDED_UNCONFIRMED", "CONTRACT_EXPIRED" }

swap_outcome == { "FAILED", "SUCCESS", "REFUNDED", "EXPIRED" }

Mismatches == { "CONTRACT_AMOUNT_MISMATCH_UNCONFIRMED", "CONTRACT_AMOUNT_MISMATCH" }

(* A step of a migration adds and drops; it fails when it adds what is     *)
(* there or drops what is not.                                             *)
Change(add, drop) == [add |-> add, drop |-> drop]
Migration(Migrate, Rollback) == [Migrate |-> Migrate, Rollback |-> Rollback]
Reversible(add, drop) == Migration(Change(add, drop), Change(drop, add))
Nothing == Change({}, {})

CreateSwapsTables ==
    { "swap_outs", "swap_ins", "swap_outs.claim_pubkey", "swap_ins.claim_tx_id",
      "swap_ins.on_chain_fee_sats", "NOT NULL outcome", "NOT NULL fees" }
    \cup swap_status \cup swap_outcome

RemoveNotNullInOutcome == Reversible({}, {"NOT NULL outcome"})
AddColumnRefundRequested == Reversible({"swap_ins.refund_requested_at"}, {})
RemoveNotNullSwapOut == Reversible({}, {"NOT NULL fees"})

(* mutant: the rollback forgets a column.                                  *)
TxIdIsNotDropped ==
    Migration(Change({ "swap_outs.pre_image", "swap_outs.timeout_block_height",
                       "swap_outs.tx_id" }, {}),
              Change({}, {"swap_outs.pre_image", "swap_outs.timeout_block_height"}))

AddPreimageTxIdTimeoutBlockHeightToSwapOut ==
    Reversible({ "swap_outs.pre_image", "swap_outs.timeout_block_height",
                 "swap_outs.tx_id" }, {})

ChangeNameClaimPubkey ==
    Reversible({"swap_outs.claim_private_key"}, {"swap_outs.claim_pubkey"})

DropClaimTxForSwapIns == Reversible({}, {"swap_ins.claim_tx_id"})
AddLockTxIdToSwapIn == Reversible({"swap_ins.lock_tx_id", "swap_ins.refund_amount"}, {})
AddIsAutoSwapToSwapOut == Reversible({"swap_outs.is_auto_swap"}, {})

AddContractFieldsToSwapOut ==
    Reversible({"swap_outs.contract_address", "swap_outs.refund_public_key"}, {})

RenameOnchainFeeSatsAndAddCreatedAndUpdatedAt ==
    Reversible({ "swap_outs.created_at", "swap_outs.updated_at",
                 "swap_ins.onchain_fee_sats" }, {"swap_ins.on_chain_fee_sats"})

(* mutant: one of the two values is missing.                               *)
OneMismatchOnly == Migration(Change({"CONTRACT_AMOUNT_MISMATCH"}, {}), Nothing)

(* A value cannot leave an enum: undoing these two does nothing.           *)
AddErrorOutcome == Migration(Change({"ERROR"}, {}), Nothing)
AddContractAmountMismatchStatus == Migration(Change(Mismatches, {}), Nothing)

(* The first one is undone by dropping the tables and the types.           *)
migrations ==
    << Migration(Change(CreateSwapsTables, {}), Nothing), RemoveNotNullInOutcome,
       AddColumnRefundRequested, RemoveNotNullSwapOut,
       AddPreimageTxIdTimeoutBlockHeightToSwapOut, ChangeNameClaimPubkey,
       DropClaimTxForSwapIns, AddLockTxIdToSwapIn, AddIsAutoSwapToSwapOut,
       AddContractFieldsToSwapOut, RenameOnchainFeeSatsAndAddCreatedAndUpdatedAt,
       AddErrorOutcome, AddContractAmountMismatchStatus >>

(* The columns and values the daemon's code reads and writes.              *)
Required ==
    { "swap_outs", "swap_outs.claim_private_key", "swap_outs.pre_image",
      "swap_outs.timeout_block_height", "swap_outs.tx_id", "swap_outs.is_auto_swap",
      "swap_outs.contract_address", "swap_outs.refund_public_key",
      "swap_outs.created_at", "swap_outs.updated_at", "swap_ins",
      "swap_ins.onchain_fee_sats", "swap_ins.refund_requested_at",
      "swap_ins.lock_tx_id", "swap_ins.refund_amount" }
    \cup swap_status \cup swap_outcome \cup Mismatches \cup {"ERROR"}

(* And what a row without an outcome must not meet.                        *)
Forbidden == {"NOT NULL outcome"}

-----------------------------------------------------------------------------
(* The Migrator: gormigrate runs all that is pending in one transaction.   *)

Alter(S, change) == (S \ change.drop) \cup change.add

Alters(S, change) ==
    change.add \cap S = {} /\ change.drop \subseteq S

(* The schema and whether every migration so far succeeded.                *)
Apply(r, migration) ==
    [ ok |-> r.ok /\ Alters(r.schema, migration.Migrate),
      schema |-> Alter(r.schema, migration.Migrate) ]

Pending(from) == SubSeq(migrations, from + 1, Len(migrations))

Migrate ==
    LET r == FoldLeft(Apply, [ok |-> TRUE, schema |-> schema], Pending(applied))
    IN  IF r.ok
          THEN schema' = r.schema /\ applied' = Len(migrations)
          ELSE UNCHANGED <<schema, applied>>

(* RollbackLast.  NOT NULL cannot come back to a column with a NULL.       *)
Undoes(change) ==
    Alters(schema, change) /\ ~(unfinished /\ change.add \cap Forbidden # {})

Rollback ==
    LET change == migrations[applied].Rollback
    IN  /\ applied > 0 /\ Undoes(change)
        /\ applied' = applied - 1
        /\ schema' = IF applied = 1 THEN {} ELSE Alter(schema, change)
        /\ unfinished' = (unfinished /\ applied > 1)

-----------------------------------------------------------------------------
(* The schema that the first n migrations make.                            *)
SchemaOf(n) ==
    FoldLeft(Apply, [ok |-> TRUE, schema |-> {}], SubSeq(migrations, 1, n)).schema

(* The database of any earlier release.                                    *)
MigrationsInit ==
    /\ applied \in 0 .. Len(migrations)
    /\ schema = SchemaOf(applied)
    /\ tool = "none"
    /\ unfinished \in (IF applied > 1 THEN BOOLEAN ELSE {FALSE})

(* A failed migration is logged, and the daemon runs.                      *)
DaemonStarts ==
    /\ tool = "none"
    /\ Migrate
    /\ tool' = "daemon"
    /\ UNCHANGED unfinished

DaemonWrites ==
    /\ tool = "daemon"
    /\ Required \subseteq schema
    /\ unfinished' \in (IF Forbidden \cap schema = {} THEN BOOLEAN ELSE {FALSE})
    /\ UNCHANGED <<schema, applied, tool>>

(* The daemon stops, or the reset is interrupted: every migration is       *)
(* undone in a transaction of its own.                                     *)
ToolStops ==
    /\ tool # "none"
    /\ tool' = "none"
    /\ UNCHANGED <<schema, applied, unfinished>>

CliMigrate == tool = "none" /\ Migrate /\ UNCHANGED <<tool, unfinished>>

CliRollback == tool = "none" /\ Rollback /\ UNCHANGED tool

CliReset ==
    /\ tool = "none"
    /\ tool' = "reset"
    /\ UNCHANGED <<schema, applied, unfinished>>

Reset == tool = "reset" /\ Rollback /\ UNCHANGED tool

MigrationsNext ==
    \/ DaemonStarts \/ DaemonWrites \/ ToolStops
    \/ CliMigrate \/ CliRollback \/ CliReset \/ Reset

MigrationsSpec == MigrationsInit /\ [][MigrationsNext]_migrationVars

-----------------------------------------------------------------------------
(* Values of enums that an undone migration left behind: they stop it from *)
(* being applied again, for every start until the first migration is undone*)
(* and the types are dropped.                                              *)
Leftover == (Mismatches \cup {"ERROR"}) \cap (schema \ SchemaOf(applied))

(* The daemon runs on a schema that has all it reads and writes, although  *)
(* its start ignores a failed migration: only a rollback that left enum    *)
(* values behind makes one fail, wherever a reset was interrupted.         *)
RunningDaemonHasItsSchema ==
    tool = "daemon" =>
      \/ Required \subseteq schema /\ Forbidden \cap schema = {}
      \/ Leftover # {}

(* Rolling back restores the schema of the earlier level, enum values      *)
(* apart, so that what was undone can be applied again and a completed     *)
(* reset leaves an empty database.                                         *)
RollbackUndoesMigrate ==
    /\ schema = SchemaOf(applied) \cup Leftover
    /\ applied = 0 => schema = {}

=============================================================================
