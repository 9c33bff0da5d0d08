----------------------------- MODULE MCUpgrade -----------------------------
(***************************************************************************)
(* Installing, upgrading and removing XBus, on small instances: the        *)
(* migration of the data root, the installer, the files of the user it     *)
(* edits, and the snapshot of the database.                                *)
(*                                                                         *)
(* Each specification keeps its own view of the files, and they share no   *)
(* variable, so a property of one holds in every interleaving with the     *)
(* others exactly when it holds while the others rest.  A behaviour        *)
(* therefore picks one of them (component) and lets it run.                *)
(***************************************************************************)
EXTENDS Integers, FiniteSets, TLC

CONSTANTS i1, i2, d1, d2

VARIABLES
  component,
  legacy, canon, stagedRoot, sourceBackup, destBackup, journal, migration, migrations,
  legacyLive, verdict, worked,                                           \* DataMigration
  plugin, backups, staging, manifest, schema, snapshots, entry, hooks, enabled, run,
  installs, result, prior,                                               \* Install
  config, settings, call, installed, calls, edits, outcome,              \* UserScope
  main, wal, archive, digest, tmp, writer, pc, before, taken             \* DbSnapshot

migrationVars ==
  <<legacy, canon, stagedRoot, sourceBackup, destBackup, journal, migration, migrations,
    legacyLive, verdict, worked>>

installVars ==
  <<plugin, backups, staging, manifest, schema, snapshots, entry, hooks, enabled, run,
    installs, result, prior>>

scopeVars == <<config, settings, call, installed, calls, edits, outcome>>

snapshotVars == <<main, wal, archive, digest, tmp, writer, pc, before, taken>>

vars == <<component, migrationVars, installVars, scopeVars, snapshotVars>>

(* Two installs, a crash between any two steps, and three writes.          *)
Migration == INSTANCE DataMigration WITH
  MaxInstall <- 2, MaxRev <- 3, staging <- stagedRoot, run <- migration, installs <- migrations

Installer == INSTANCE Install WITH MaxInstall <- 3, config <- entry

(* Three calls for two installs and two data directories, and one edit.    *)
Scope == INSTANCE UserScope WITH
  Id <- {i1, i2}, DataDir <- {d1, d2}, MaxCalls <- 3, MaxEdits <- 1, manifest <- installed

Snapshot == INSTANCE DbSnapshot WITH MaxCommit <- 4

Init ==
  /\ component \in {"migration", "installer", "scope", "snapshot"}
  /\ Migration!Init /\ Installer!Init /\ Scope!Init /\ Snapshot!Init
  /\ component # "migration" => legacy = Migration!Absent /\ canon = Migration!Absent
  /\ component # "installer" => entry = Installer!None /\ enabled = "absent"
  /\ component # "scope" =>
       /\ config = [readable |-> TRUE, xbus |-> Scope!NoEntry, others |-> FALSE]
       /\ settings = [readable |-> TRUE, handlers |-> {}, enabled |-> "absent"]
  /\ component # "snapshot" => wal = Snapshot!NoWal

MigrationStep ==
  component = "migration" /\ Migration!Next /\ UNCHANGED <<component, installVars, scopeVars, snapshotVars>>

InstallerStep ==
  component = "installer" /\ Installer!Next /\ UNCHANGED <<component, migrationVars, scopeVars, snapshotVars>>

ScopeStep ==
  component = "scope" /\ Scope!Next /\ UNCHANGED <<component, migrationVars, installVars, snapshotVars>>

SnapshotStep ==
  component = "snapshot" /\ Snapshot!Next /\ UNCHANGED <<component, migrationVars, installVars, scopeVars>>

Next == MigrationStep \/ InstallerStep \/ ScopeStep \/ SnapshotStep

Spec == Init /\ [][Next]_vars

-----------------------------------------------------------------------------
(* Properties.                                                             *)

(* Whatever crashes, rolls back or is repeated (data-migration.ts): the    *)
(* legacy secret travels with the legacy database, the completion marker   *)
(* means that the root is migrated, no canonical root is destroyed, users' *)
(* work is never displaced, and no fresher credential is replaced.         *)
MigrationIsSafe ==
  [][component = "migration" =>
       /\ Migration!SecretTravelsWithItsDatabase' /\ Migration!MarkerMeansMigrated'
       /\ Migration!DestinationIsNeverLostStep /\ Migration!WorkIsNeverDisplacedStep
       /\ Migration!CarryNeverRegressesStep]_vars


(* The two files of the user (user-scope-config.ts): a registration that   *)
(* reports success is complete in both, one that fails leaves both as it   *)
(* found them, the user's own servers and hooks survive every step, and    *)
(* the entry of another install is left alone.                             *)
ScopeIsSafe ==
  [][component = "scope" =>
       /\ Scope!RegisteredMeansBoth' /\ Scope!FailureRestoresBoth'
       /\ Scope!UserPartIsPreservedStep /\ Scope!OnlyOwnEntriesAreTakenStep]_vars
=============================================================================
