------------------------------- MODULE Install -------------------------------
(***************************************************************************)
(* `xbus install`, `repair` and `uninstall` (src/cli/install.ts, src/cli/  *)
(* main.ts): the plugin directory, its backup, the install manifest, the   *)
(* schema of the database with its snapshot, and the entries in the two    *)
(* user-scope files.  Every step of an install may throw, fail its check,  *)
(* or be the last one before a crash; installs follow one another.         *)
(*                                                                         *)
(* Install n delivers plugin version n, whose broker migrates the database *)
(* to schema Schema(n).  The data-root migration that install also drives  *)
(* is the subject of DataMigration, the steps of a restore of DbSnapshot,  *)
(* the merge and strip of the user-scope files of UserScope.               *)
(***************************************************************************)
EXTENDS Naturals

CONSTANT MaxInstall   \* how often the installer is run

VARIABLES
  plugin,    \* version in the plugin directory, 0 when there is none
  backups,   \* per install, the plugin version it moved aside, 0 when none
  staging,   \* per install, a staged plugin is left in the install root
  manifest,  \* the install manifest, NoManifest when there is none
  schema,    \* schema version of the database, 0 when there is none
  snapshots, \* per install, the schema of its snapshot, 0 when none
  config,    \* owner of the xbus entry in ~/.claude.json
  hooks,     \* owner tag of the xbus handlers in settings.json
  enabled,   \* enabledPlugins.xbus in settings.json
  run,       \* the running install and what it keeps in memory
  installs,  \* installs started
  result,    \* outcome of the last install
  prior      \* what the last install found (ghost; no code reads it)

vars == <<plugin, backups, staging, manifest, schema, snapshots, config, hooks,
          enabled, run, installs, result, prior>>

Ids == 1..MaxInstall
NoManifest == [version |-> 0, id |-> 0]
RepairId == MaxInstall + 1    \* the ownership tag of a repair without an install id

None == [kind |-> "none", id |-> 0]
Foreign == [kind |-> "foreign", id |-> 0]
Untagged == [kind |-> "untagged", id |-> 0]
Tag(i) == [kind |-> "id", id |-> i]

Schema(n) == (n + 1) \div 2 + 1

Steps == {"stage", "backup", "swap", "data", "manifest", "contract", "snapshot",
          "health", "register", "persistent", "rewrite", "finish"}

Idle == [pc |-> "idle", swapped |-> FALSE, armed |-> FALSE, scope |-> TRUE,
         persistent |-> FALSE, force |-> FALSE]

Installed == [plugin |-> plugin, manifest |-> manifest, config |-> config, hooks |-> hooks, schema |-> schema]

Init ==
  /\ plugin = 0
  /\ backups = [i \in Ids |-> 0]
  /\ staging = [i \in Ids |-> FALSE]
  /\ manifest = NoManifest
  /\ schema = 0
  /\ snapshots = [i \in Ids |-> 0]
  /\ config \in {None, Foreign}
  /\ hooks = None
  /\ enabled \in {"absent", "false"}
  /\ run = Idle
  /\ installs = 0
  /\ result = "none"
  /\ prior = Installed

Scope == <<config, hooks, enabled>>

Goto(pc) == run' = [run EXCEPT !.pc = pc]

-----------------------------------------------------------------------------
(* The user-scope operations install calls, by what they leave behind.     *)

CanRegister == config # Foreign

(* Mutant: the strip keeps handlers whose tag the host has dropped.        *)
MutUnregistered(i) ==
  /\ config' = IF config = Tag(i) THEN None ELSE config
  /\ hooks' = IF hooks = Tag(i) THEN None ELSE hooks

(* unregisterUserScope: what carries this install's tag, and handlers of   *)
(* our path whose tag the host has dropped.                                *)
unregistered(i) ==
  /\ config' = IF config = Tag(i) THEN None ELSE config
  /\ hooks' = IF hooks \in {Tag(i), Untagged} THEN None ELSE hooks

(* unregisterUserScope on the failure paths: only once it was registered.  *)
reversed == IF run.armed THEN unregistered(installs) ELSE UNCHANGED <<config, hooks>>

-----------------------------------------------------------------------------
(* planInstall and the pre-flight checks passed; a conflict of data roots, *)
(* a reparse point or a broker that cannot be stopped end the install      *)
(* before any change.                                                      *)
Start(scope, persistent, force) ==
  /\ run.pc = "idle"
  /\ installs < MaxInstall
  /\ installs' = installs + 1
  /\ run' = [Idle EXCEPT !.pc = "stage", !.scope = scope, !.persistent = persistent, !.force = force]
  /\ result' = "running"
  /\ prior' = Installed
  /\ UNCHANGED <<plugin, backups, staging, manifest, schema, snapshots, Scope>>

(* Copy the payload, checksum by checksum.                                 *)
Stage ==
  /\ run.pc = "stage"
  /\ staging' = [staging EXCEPT ![installs] = TRUE]
  /\ Goto("backup")
  /\ UNCHANGED <<plugin, backups, manifest, schema, snapshots, Scope, installs, result, prior>>

(* Move the prior plugin directory aside as a whole.                       *)
BackUp ==
  /\ run.pc = "backup"
  /\ backups' = [backups EXCEPT ![installs] = plugin]
  /\ plugin' = 0
  /\ Goto("swap")
  /\ UNCHANGED <<staging, manifest, schema, snapshots, Scope, installs, result, prior>>

Swap ==
  /\ run.pc = "swap"
  /\ plugin' = installs
  /\ staging' = [staging EXCEPT ![installs] = FALSE]
  /\ run' = [run EXCEPT !.pc = "data", !.swapped = TRUE]
  /\ UNCHANGED <<backups, manifest, schema, snapshots, Scope, installs, result, prior>>

(* The data root and its secret (DataMigration).                           *)
PrepareData ==
  /\ run.pc = "data"
  /\ Goto("manifest")
  /\ UNCHANGED <<plugin, backups, staging, manifest, schema, snapshots, Scope, installs, result, prior>>

WriteManifest ==
  /\ run.pc = "manifest"
  /\ manifest' = [version |-> installs, id |-> 0]
  /\ Goto("contract")
  /\ UNCHANGED <<plugin, backups, staging, schema, snapshots, Scope, installs, result, prior>>

(* The installed plugin satisfies the artifact contract.                   *)
CheckContract ==
  /\ run.pc = "contract"
  /\ Goto("snapshot")
  /\ UNCHANGED <<plugin, backups, staging, manifest, schema, snapshots, Scope, installs, result, prior>>

(* Mutant: a snapshot is taken only across a whole major step.             *)
MutSnapshot ==
  /\ run.pc = "snapshot"
  /\ snapshots' = [snapshots EXCEPT ![installs] =
                     IF schema > 0 /\ schema + 1 < Schema(installs) THEN schema ELSE 0]
  /\ Goto("health")
  /\ UNCHANGED <<plugin, backups, staging, manifest, schema, Scope, installs, result, prior>>

(* A database whose schema the health check would raise is snapshot first. *)
Snapshot ==
  /\ run.pc = "snapshot"
  /\ snapshots' = [snapshots EXCEPT ![installs] =
                     IF schema > 0 /\ schema < Schema(installs) THEN schema ELSE 0]
  /\ Goto("health")
  /\ UNCHANGED <<plugin, backups, staging, manifest, schema, Scope, installs, result, prior>>

(* healthCheck: the broker migrates the database as it starts.             *)
CheckHealth ==
  /\ run.pc = "health"
  /\ schema' = Schema(installs)
  /\ Goto(IF run.scope THEN "register" ELSE "finish")
  /\ UNCHANGED <<plugin, backups, staging, manifest, snapshots, Scope, installs, result, prior>>

(* registerUserScope succeeds and arms its reversal.                       *)
Register ==
  /\ run.pc = "register"
  /\ CanRegister
  /\ config' = Tag(installs)
  /\ hooks' = Tag(installs)
  /\ run' = [run EXCEPT !.pc = IF run.persistent THEN "persistent" ELSE "rewrite", !.armed = TRUE]
  /\ UNCHANGED <<plugin, backups, staging, manifest, schema, snapshots, enabled, installs, result, prior>>

(* setPersistentEnable refuses a foreign value unless forced.              *)
EnablePersistent ==
  /\ run.pc = "persistent"
  /\ enabled = "false" => run.force
  /\ enabled' = "true"
  /\ Goto("rewrite")
  /\ UNCHANGED <<plugin, backups, staging, manifest, schema, snapshots, config, hooks, installs, result, prior>>

RewriteManifest ==
  /\ run.pc = "rewrite"
  /\ manifest' = [manifest EXCEPT !.id = installs]
  /\ Goto("finish")
  /\ UNCHANGED <<plugin, backups, staging, schema, snapshots, Scope, installs, result, prior>>

(* Marker written, snapshot discarded, plugin backup removed.              *)
Finish ==
  /\ run.pc = "finish"
  /\ snapshots' = [snapshots EXCEPT ![installs] = 0]
  /\ backups' = [backups EXCEPT ![installs] = 0]
  /\ run' = Idle
  /\ result' = "ok"
  /\ UNCHANGED <<plugin, staging, manifest, schema, Scope, installs, prior>>

-----------------------------------------------------------------------------
(* The failure paths.                                                      *)

(* restoreDbSnapshot, and the snapshot is discarded when it succeeded.     *)
(* `live` is the schema the database has by then.                          *)
restoredDb(live) ==
  \/ /\ snapshots[installs] # 0
     /\ schema' = snapshots[installs]
     /\ snapshots' = [snapshots EXCEPT ![installs] = 0]
  \/ schema' = live /\ UNCHANGED snapshots

(* Mutant: only the new plugin is removed.                                 *)
MutRollback ==
  /\ plugin' = 0
  /\ manifest' = NoManifest
  /\ UNCHANGED backups

(* rollback: the new plugin goes, the backup comes back, no manifest.      *)
rollback ==
  /\ plugin' = backups[installs]
  /\ backups' = [backups EXCEPT ![installs] = 0]
  /\ manifest' = NoManifest

Failed == run' = Idle /\ result' = "failed"

(* The data migration failed, or the installed plugin breaks the contract: *)
(* the database was not touched yet.                                       *)
FailEarly ==
  /\ run.pc \in {"data", "contract"}
  /\ rollback
  /\ Failed
  /\ UNCHANGED <<staging, schema, snapshots, Scope, installs, prior>>

(* Mutant: the plugin is rolled back without the database.                 *)
MutRestoreDbThenRollback(live) ==
  /\ snapshots' = [snapshots EXCEPT ![installs] = 0]
  /\ schema' = live
  /\ reversed
  /\ rollback
  /\ Failed

(* restoreDbThenRollback: database first, then the user scope, then the    *)
(* plugin.                                                                 *)
restoreDbThenRollback(live) ==
  /\ restoredDb(live)
  /\ reversed
  /\ rollback
  /\ Failed

(* The broker of the health check migrated the database, then failed.      *)
FailHealth ==
  /\ run.pc = "health"
  /\ \E live \in {schema, Schema(installs)} : restoreDbThenRollback(live)
  /\ UNCHANGED <<staging, enabled, installs, prior>>

(* registerUserScope refuses or fails (it restores both files itself), or  *)
(* setPersistentEnable does, after which the registration is reversed.     *)
FailScope ==
  /\ run.pc \in {"register", "persistent"}
  /\ restoreDbThenRollback(schema)
  /\ UNCHANGED <<staging, enabled, installs, prior>>

(* Mutant: the catch does not undo a completed registration.               *)
MutThrow ==
  /\ run.pc \in Steps
  /\ staging' = [staging EXCEPT ![installs] = FALSE]
  /\ restoredDb(schema)
  /\ plugin' = IF backups[installs] # 0 THEN backups[installs]
               ELSE IF run.swapped THEN 0 ELSE plugin
  /\ backups' = [backups EXCEPT ![installs] = 0]
  /\ manifest' = NoManifest
  /\ Failed
  /\ UNCHANGED <<config, hooks, enabled, installs, prior>>

(* Any other exception: the outer catch.  It removes the plugin only after *)
(* the swap, and the manifest always.                                      *)
Throw ==
  /\ run.pc \in Steps
  /\ staging' = [staging EXCEPT ![installs] = FALSE]
  /\ restoredDb(schema)
  /\ reversed
  /\ plugin' = IF backups[installs] # 0 THEN backups[installs]
               ELSE IF run.swapped THEN 0 ELSE plugin
  /\ backups' = [backups EXCEPT ![installs] = 0]
  /\ manifest' = NoManifest
  /\ Failed
  /\ UNCHANGED <<enabled, installs, prior>>

(* The installer is killed.                                                *)
Crash ==
  /\ run.pc # "idle"
  /\ run' = Idle
  /\ result' = "crashed"
  /\ UNCHANGED <<plugin, backups, staging, manifest, schema, snapshots, Scope, installs, prior>>

-----------------------------------------------------------------------------
(* uninstall: the user scope first, then plugin, manifest and backups; the *)
(* data only when asked.                                                   *)
Uninstall(removeData) ==
  /\ run.pc = "idle"
  /\ manifest # NoManifest
  /\ IF manifest.id # 0
     THEN unregistered(manifest.id) /\ enabled' = "absent"
     ELSE UNCHANGED Scope
  /\ plugin' = 0
  /\ manifest' = NoManifest
  /\ backups' = [i \in Ids |-> 0]
  /\ schema' = IF removeData THEN 0 ELSE schema
  /\ result' = "uninstalled"
  /\ UNCHANGED <<staging, snapshots, run, installs, prior>>

(* repairUserScope with force, under the install id of the manifest or one *)
(* made up on the spot.                                                    *)
Repair ==
  /\ run.pc = "idle"
  /\ manifest # NoManifest
  /\ LET id == IF manifest.id = 0 THEN RepairId ELSE manifest.id IN
     config' = Tag(id) /\ hooks' = Tag(id)
  /\ UNCHANGED <<plugin, backups, staging, manifest, schema, snapshots, enabled, run, installs, result, prior>>

(* The host rewrites settings.json and drops the tag of our handlers.      *)
HostStripsTag ==
  /\ run.pc = "idle"
  /\ hooks.kind = "id"
  /\ hooks' = Untagged
  /\ UNCHANGED <<plugin, backups, staging, manifest, schema, snapshots, config, enabled, run, installs, result, prior>>

Next ==
  \/ \E s, p, f \in BOOLEAN : Start(s, p, f)
  \/ Stage \/ BackUp \/ Swap \/ PrepareData \/ WriteManifest \/ CheckContract
  \/ Snapshot \/ CheckHealth \/ Register \/ EnablePersistent \/ RewriteManifest \/ Finish
  \/ FailEarly \/ FailHealth \/ FailScope \/ Throw \/ Crash
  \/ \E d \in BOOLEAN : Uninstall(d)
  \/ Repair \/ HostStripsTag

Spec == Init /\ [][Next]_vars

-----------------------------------------------------------------------------
(* A failed install gives the prior plugin back, whichever step failed     *)
(* (install: "automatic rollback on failure").                             *)
FailureRestoresPlugin ==
  result = "failed" => plugin = prior.plugin

(* A failed upgrade never leaves a forward-migrated database under the     *)
(* rolled-back plugin: the database is back at the schema the install      *)
(* found, unless the snapshot is retained because the restore failed, or   *)
(* there was no database to protect.                                       *)
FailureRestoresSchema ==
  result = "failed" /\ prior.schema > 0 =>
    \/ schema = prior.schema
    \/ snapshots[installs] = prior.schema

(* A failure after the registration does not orphan it: no entry carries   *)
(* the tag of an install that failed (install: "rollback must also         *)
(* unregister the two config files").                                      *)
NoOrphanRegistration ==
  result = "failed" => config # Tag(installs) /\ hooks # Tag(installs)

(* Uninstalling an install that had registered itself leaves no entry of   *)
(* it, even if the host has dropped the ownership tag of the handlers.     *)
UninstallLeavesNoEntryStep ==
  (result' = "uninstalled" /\ result # "uninstalled" /\ manifest.id # 0) =>
    /\ config' \notin {Tag(manifest.id)}
    /\ hooks' \notin {Tag(manifest.id), Untagged}
    /\ enabled' # "true"

UninstallLeavesNoEntry == [][UninstallLeavesNoEntryStep]_vars

-----------------------------------------------------------------------------
(* What the repository says and the code does not do.                      *)

(* "so a failed upgrade leaves a WORKING prior install": the registration  *)
(* and the manifest of the install that was there are still there.         *)
FailedUpgradeLeavesPriorInstall ==
  result = "failed" /\ prior.manifest.id # 0 =>
    manifest = prior.manifest /\ (config.kind = "id" <=> prior.config.kind = "id")

(* "never leave a half-applied persistent state".                          *)
FailureLeavesNotEnabled ==
  result = "failed" /\ prior.plugin = 0 /\ installs = 1 => enabled # "true"

(* "records an install manifest so uninstall removes exactly what it       *)
(* created": after an install that succeeded, nothing of it is left.       *)
UninstallRemovesEverything ==
  [][result = "ok" /\ result' = "uninstalled" => config'.kind # "id" /\ hooks'.kind # "id"]_vars
=============================================================================
