---------------------------- MODULE DataMigration ----------------------------
(***************************************************************************)
(* The migration of the legacy data root into the canonical one            *)
(* (src/cli/data-migration.ts) as the installer runs it (src/cli/          *)
(* install.ts): classification, the journaled copy, the promotion, and the *)
(* tail of the install that touches the data root (credentials, secret,    *)
(* health check, marker).  An install may crash between any two durable    *)
(* steps, a step may throw, and installs are repeated.                     *)
(*                                                                         *)
(* A root is Absent or a record of what the code tells apart: its database *)
(* (two databases are byte-identical iff the records are equal), its       *)
(* secret, its credential file and its completion marker.                  *)
(***************************************************************************)
EXTENDS Naturals, FiniteSets

CONSTANTS
  MaxInstall,   \* how often the installer is run
  MaxRev        \* how often brokers write to a database

VARIABLES
  legacy,      \* ~/.claude/xbus
  canon,       \* <installRoot>/data
  staging,     \* per install, the staged copy
  sourceBackup,\* per install, the copy of the legacy root
  destBackup,  \* per install, the canonical root that was moved aside
  journal,     \* per install, the state on disk, "none" before the first write
  run,         \* the installer: its pc and what it keeps in memory
  installs,    \* installs started so far
  legacyLive,  \* a broker runs on the legacy root
  verdict,     \* per install, what it decided (ghost; no code reads it)
  worked       \* users' work reached the canonical root outside an install (ghost)

vars == <<legacy, canon, staging, sourceBackup, destBackup, journal, run,
          installs, legacyLive, verdict, worked>>

Install == 1..MaxInstall
Absent == [kind |-> "absent"]
NoDb == [kind |-> "nodb"]

(* ok: integrity_check; user: rows of sessions, messages, aliases; audit:  *)
(* rows of audit_events; old: a schema below this build's.                 *)
Database(origin, rev, ok, user, audit, old) ==
  [kind |-> "db", origin |-> origin, rev |-> rev, ok |-> ok, user |-> user,
   audit |-> audit, old |-> old]

Root(db, secret, creds, marker) ==
  [kind |-> "root", db |-> db, secret |-> secret, creds |-> creds, marker |-> marker]

(* A credential record: 0 absent, 1 and 2 dated, 3 without updatedAt.      *)
NoCreds == 0
Undated == 3

Idle == [pc |-> "idle", seen |-> Absent, aside |-> FALSE, migrated |-> FALSE, snapshot |-> NoDb]

-----------------------------------------------------------------------------
(* The decision, a pure function of the two summaries.                     *)

exists(root) == root.kind = "root"
hasDb(root) == exists(root) /\ root.db.kind = "db"

hasRuntimeData(root) == hasDb(root) /\ (root.db.user \/ root.db.audit)

classifyRoot(self, other) ==
  CASE exists(self) /\ self.marker -> "completed_migration"
    [] ~exists(self) -> "absent"
    [] exists(self) /\ ~self.marker /\ ~hasDb(self) ->
         IF self.secret # "none" THEN "incomplete_migration" ELSE "empty"
    [] OTHER ->
         CASE ~self.db.ok -> "corrupt"
           [] self.db.ok /\ hasDb(other) /\ self.db = other.db -> "identical_copy"
           [] self.db.ok /\ ~(hasDb(other) /\ self.db = other.db) ->
                CASE ~hasRuntimeData(self) -> "health_only"
                  [] hasRuntimeData(self) /\ hasRuntimeData(other) /\ other.db.ok ->
                       "conflicting_runtime_data"
                  [] OTHER -> "runtime_authoritative"

(* Mutant: two databases with user data are no conflict, the legacy one    *)
(* wins.                                                                   *)
MutDecideMigration(old, new) ==
  LET lc == classifyRoot(old, new) IN
  CASE exists(new) /\ new.marker -> "already_migrated"
    [] OTHER -> IF lc \in {"runtime_authoritative", "conflicting_runtime_data"}
                THEN "migrate" ELSE IF lc = "corrupt" THEN "conflict" ELSE "no_migration"

decideMigration(old, new) ==
  LET lc == classifyRoot(old, new)
      nc == classifyRoot(new, old)
  IN  CASE exists(new) /\ new.marker -> "already_migrated"
        [] ~(exists(new) /\ new.marker) /\ lc \in {"corrupt", "conflicting_runtime_data"} ->
             "conflict"
        [] ~(exists(new) /\ new.marker) /\ lc = "runtime_authoritative" ->
             IF nc \in {"absent", "empty", "health_only"} THEN "migrate"
             ELSE IF nc = "identical_copy" THEN "no_migration" ELSE "conflict"
        [] OTHER -> "no_migration"

(* Mutant: an older legacy record replaces a fresher canonical one.        *)
MutCarryDurableCredentials(old, new) == IF old = NoCreds THEN new ELSE old

(* carryDurableCredentials for one key: the canonical record stays unless  *)
(* both are dated and the legacy one is newer.                             *)
carryDurableCredentials(old, new) ==
  CASE old = NoCreds -> new
    [] old # NoCreds /\ new = NoCreds -> old
    [] OTHER -> IF new = Undated \/ old = Undated \/ new >= old THEN new ELSE old

-----------------------------------------------------------------------------
Health == Database("fresh", 0, TRUE, FALSE, FALSE, FALSE)
Legacy(rev, ok, old) == Database("legacy", rev, ok, TRUE, TRUE, old)

(* Roots an earlier build can have left behind.                            *)
Init ==
  /\ legacy \in {Absent, Root(NoDb, "none", 2, FALSE)}
       \cup {Root(Legacy(0, ok, old), "ls", c, FALSE) :
               ok \in BOOLEAN, old \in BOOLEAN, c \in {1, 2}}
  /\ canon \in {Absent, Root(NoDb, "none", NoCreds, FALSE), Root(NoDb, "cs", 1, FALSE),
                Root(Health, "cs", NoCreds, FALSE), Root(Health, "cs", Undated, FALSE),
                Root(Database("fresh", 1, TRUE, TRUE, TRUE, FALSE), "cs", 2, FALSE)}
  /\ staging = [i \in Install |-> Absent]
  /\ sourceBackup = [i \in Install |-> Absent]
  /\ destBackup = [i \in Install |-> Absent]
  /\ journal = [i \in Install |-> "none"]
  /\ run = Idle
  /\ installs = 0
  /\ legacyLive \in (IF hasDb(legacy) /\ legacy.db.ok THEN BOOLEAN ELSE {FALSE})
  /\ verdict = [i \in Install |-> "none"]
  /\ worked = (hasDb(canon) /\ canon.db.user)

Files == <<staging, sourceBackup, destBackup>>

Goto(pc) == run' = [run EXCEPT !.pc = pc]

(* The installer returns or dies.                                          *)
End == run' = Idle

Journal(state) == journal' = [journal EXCEPT ![installs] = state]

(* planInstall and the start of install: a conflict ends it before any     *)
(* change.  stopOwnedBrokerForUpgrade looks at the canonical root only.    *)
Plan ==
  /\ run.pc = "idle"
  /\ installs < MaxInstall
  /\ installs' = installs + 1
  /\ LET decision == decideMigration(legacy, canon) IN
     /\ verdict' = [verdict EXCEPT ![installs + 1] = decision]
     /\ \/ decision = "conflict" /\ UNCHANGED run
        \/ decision = "migrate" /\ Goto("migrate")
        \/ decision \in {"no_migration", "already_migrated"} /\ Goto("prepare")
  /\ UNCHANGED <<legacy, canon, Files, journal, legacyLive, worked>>

(* migrateDataRoot looks again, and writes the first journal entry.        *)
MigrateStart ==
  /\ run.pc = "migrate"
  /\ LET decision == decideMigration(legacy, canon) IN
     \/ /\ decision = "migrate"
        /\ run' = [run EXCEPT !.pc = "backup", !.seen = legacy]
        /\ Journal("planned")
     \/ decision = "conflict" /\ End /\ UNCHANGED journal
     \/ decision \notin {"migrate", "conflict"} /\ Goto("prepare") /\ UNCHANGED journal
  /\ UNCHANGED <<legacy, canon, Files, installs, legacyLive, verdict, worked>>

(* Steps 1 to 4: back up the source, validate it, clear the staging area.  *)
Backup ==
  /\ run.pc = "backup"
  /\ sourceBackup' = [sourceBackup EXCEPT ![installs] = legacy]
  /\ staging' = [staging EXCEPT ![installs] = Absent]
  /\ legacy.db.ok
  /\ Goto("copy")
  /\ Journal("staging_created")
  /\ UNCHANGED <<legacy, canon, destBackup, installs, legacyLive, verdict, worked>>

(* Step 5, file by file: a crash can leave the database without the rest.  *)
CopyDb ==
  /\ run.pc = "copy"
  /\ staging' = [staging EXCEPT ![installs] = Root(legacy.db, "none", NoCreds, FALSE)]
  /\ Goto("copyrest")
  /\ UNCHANGED <<legacy, canon, sourceBackup, destBackup, journal, installs, legacyLive, verdict, worked>>

CopyRest ==
  /\ run.pc = "copyrest"
  /\ staging' = [staging EXCEPT ![installs] =
                   [@ EXCEPT !.secret = legacy.secret, !.creds = legacy.creds]]
  /\ Goto("verify")
  /\ Journal("copy_complete")
  /\ UNCHANGED <<legacy, canon, sourceBackup, destBackup, installs, legacyLive, verdict, worked>>

(* Step 6: the staged copy must be what the summary at the start saw.      *)
Verify ==
  /\ run.pc = "verify"
  /\ staging[installs].db = run.seen.db
  /\ staging[installs].secret = run.seen.secret
  /\ Goto("aside")
  /\ Journal("copy_verified")
  /\ UNCHANGED <<legacy, canon, Files, installs, legacyLive, verdict, worked>>

(* Mutant: the destination is removed instead of moved aside.              *)
MutMoveAside ==
  /\ run.pc = "aside"
  /\ canon' = Absent
  /\ run' = [run EXCEPT !.pc = "asideJournal", !.aside = exists(canon)]
  /\ UNCHANGED <<legacy, Files, journal, installs, legacyLive, verdict, worked>>

(* Step 7: one rename moves the whole destination into the backup ...      *)
MoveAside ==
  /\ run.pc = "aside"
  /\ canon' = Absent
  /\ destBackup' = [destBackup EXCEPT ![installs] = canon]
  /\ run' = [run EXCEPT !.pc = "asideJournal", !.aside = exists(canon)]
  /\ UNCHANGED <<legacy, staging, sourceBackup, journal, installs, legacyLive, verdict, worked>>

(* ... and the journal records it.                                         *)
MoveAsideJournal ==
  /\ run.pc = "asideJournal"
  /\ Goto("promote")
  /\ Journal("destination_backed_up")
  /\ UNCHANGED <<legacy, canon, Files, installs, legacyLive, verdict, worked>>

(* Mutant: the staged files are copied into a directory that keeps the     *)
(* secret of the destination.                                              *)
MutPromote ==
  /\ run.pc = "promote"
  /\ canon' = IF run.aside THEN [staging[installs] EXCEPT !.secret = destBackup[installs].secret]
                           ELSE staging[installs]
  /\ staging' = [staging EXCEPT ![installs] = Absent]
  /\ run' = [run EXCEPT !.pc = "promoteJournal", !.migrated = TRUE]
  /\ UNCHANGED <<legacy, sourceBackup, destBackup, journal, installs, legacyLive, verdict, worked>>

(* Step 8: one rename promotes the staged root ...                         *)
Promote ==
  /\ run.pc = "promote"
  /\ canon' = staging[installs]
  /\ staging' = [staging EXCEPT ![installs] = Absent]
  /\ run' = [run EXCEPT !.pc = "promoteJournal", !.migrated = TRUE]
  /\ UNCHANGED <<legacy, sourceBackup, destBackup, journal, installs, legacyLive, verdict, worked>>

PromoteJournal ==
  /\ run.pc = "promoteJournal"
  /\ Goto("prepare")
  /\ Journal("staging_promoted")
  /\ UNCHANGED <<legacy, canon, Files, installs, legacyLive, verdict, worked>>

Migrating == {"backup", "copy", "copyrest", "verify", "aside", "asideJournal", "promote", "promoteJournal"}

(* Mutant: the rollback forgets the destination it moved aside.            *)
MutRollback ==
  /\ run.pc \in Migrating
  /\ staging' = [staging EXCEPT ![installs] = Absent]
  /\ destBackup' = [destBackup EXCEPT ![installs] = Absent]
  /\ Journal("rolled_back")
  /\ End
  /\ UNCHANGED <<legacy, canon, sourceBackup, installs, legacyLive, verdict, worked>>

(* A step throws (an I/O error, a failed integrity check, a hash that      *)
(* changed): drop the staging area, put the destination back when it was   *)
(* moved aside and its place is empty, record the outcome, abort.          *)
Rollback ==
  /\ run.pc \in Migrating
  /\ staging' = [staging EXCEPT ![installs] = Absent]
  /\ IF run.aside /\ ~exists(canon)
     THEN /\ canon' = destBackup[installs]
          /\ destBackup' = [destBackup EXCEPT ![installs] = Absent]
     ELSE UNCHANGED <<canon, destBackup>>
  /\ Journal("rolled_back")
  /\ End
  /\ UNCHANGED <<legacy, sourceBackup, installs, legacyLive, verdict, worked>>

(* The restore itself throws: the journal says so.                         *)
RollbackFails ==
  /\ run.pc \in Migrating
  /\ run.aside /\ ~exists(canon)
  /\ staging' = [staging EXCEPT ![installs] = Absent]
  /\ Journal("failed")
  /\ End
  /\ UNCHANGED <<legacy, canon, sourceBackup, destBackup, installs, legacyLive, verdict, worked>>

-----------------------------------------------------------------------------
(* The tail of install, as far as it touches the data root.                *)

Credentials(root) == IF exists(root) THEN root.creds ELSE NoCreds

(* mkdir, carryDurableCredentials, loadOrCreateRootSecret, and the         *)
(* snapshot of a database whose schema will rise.                          *)
Prepare ==
  /\ run.pc = "prepare"
  /\ LET here == IF exists(canon) THEN canon ELSE Root(NoDb, "none", NoCreds, FALSE) IN
     /\ canon' = [here EXCEPT
                    !.creds = carryDurableCredentials(Credentials(legacy), @),
                    !.secret = IF @ = "none" THEN "ns" ELSE @]
     /\ run' = [run EXCEPT !.pc = "health",
                           !.snapshot = IF hasDb(canon) /\ canon.db.old THEN canon.db ELSE NoDb]
  /\ UNCHANGED <<legacy, Files, journal, installs, legacyLive, verdict, worked>>

(* What a broker start leaves in a database: the schema, and the audit row *)
(* of verifyLedgerNow.                                                     *)
Started(db) ==
  IF db.kind = "db" THEN [db EXCEPT !.rev = @ + 1, !.audit = TRUE, !.old = FALSE]
  ELSE [Health EXCEPT !.rev = 1, !.audit = TRUE]

(* The health check starts and stops a broker on the canonical root.       *)
HealthCheck ==
  /\ run.pc = "health"
  /\ canon' = [canon EXCEPT !.db = Started(@)]
  /\ Goto("commit")
  /\ UNCHANGED <<legacy, Files, journal, installs, legacyLive, verdict, worked>>

(* A failure after the migration: the snapshot is put back if there is     *)
(* one, the plugin is rolled back, the data root is left as it is.         *)
TailFails ==
  /\ run.pc \in {"prepare", "health", "commit"}
  /\ canon' = IF run.snapshot # NoDb THEN [canon EXCEPT !.db = run.snapshot] ELSE canon
  /\ End
  /\ UNCHANGED <<legacy, Files, journal, installs, legacyLive, verdict, worked>>

(* Mutant: the marker is written by every install.                         *)
MutCommit ==
  /\ run.pc = "commit"
  /\ canon' = [canon EXCEPT !.marker = TRUE]
  /\ End
  /\ UNCHANGED <<legacy, Files, journal, installs, legacyLive, verdict, worked>>

(* The marker, after everything else succeeded.                            *)
Commit ==
  /\ run.pc = "commit"
  /\ canon' = IF run.migrated THEN [canon EXCEPT !.marker = TRUE] ELSE canon
  /\ End
  /\ UNCHANGED <<legacy, Files, journal, installs, legacyLive, verdict, worked>>

-----------------------------------------------------------------------------
(* The machine dies, or the installer is killed.                           *)
Crash ==
  /\ run.pc # "idle"
  /\ End
  /\ UNCHANGED <<legacy, canon, Files, journal, installs, legacyLive, verdict, worked>>

(* Between installs a broker runs on the canonical root: it creates what   *)
(* is missing, and users work with it.                                     *)
BrokerOnCanon ==
  /\ run.pc = "idle"
  /\ installs > 0
  /\ LET here == IF exists(canon) THEN canon ELSE Root(NoDb, "none", NoCreds, FALSE)
         secret == IF here.secret = "none" THEN "ns" ELSE here.secret
         db == Started(here.db)
     IN  /\ db.ok /\ db.rev <= MaxRev
         /\ canon' = [here EXCEPT !.db = [db EXCEPT !.user = TRUE], !.secret = secret,
                                  !.creds = IF @ = Undated THEN @ ELSE 2]
  /\ worked' = TRUE
  /\ UNCHANGED <<legacy, Files, journal, run, installs, legacyLive, verdict>>

(* A broker of the earlier build on the legacy root writes, or stops.      *)
BrokerOnLegacy ==
  /\ legacyLive
  /\ legacy.db.rev < MaxRev
  /\ legacy' = [legacy EXCEPT !.db.rev = @ + 1]
  /\ UNCHANGED <<canon, Files, journal, run, installs, legacyLive, verdict, worked>>

LegacyStops ==
  /\ legacyLive
  /\ legacyLive' = FALSE
  /\ UNCHANGED <<legacy, canon, Files, journal, run, installs, verdict, worked>>

Next ==
  \/ Plan \/ MigrateStart \/ Backup \/ CopyDb \/ CopyRest \/ Verify \/ MoveAside
  \/ MoveAsideJournal \/ Promote \/ PromoteJournal \/ Rollback \/ RollbackFails
  \/ Prepare \/ HealthCheck \/ TailFails \/ Commit \/ Crash
  \/ BrokerOnCanon \/ BrokerOnLegacy \/ LegacyStops

Spec == Init /\ [][Next]_vars

-----------------------------------------------------------------------------
(* The authoritative secret travels with its database: whatever crashes,   *)
(* rolls back or is repeated, a canonical root that holds the legacy       *)
(* database holds the legacy secret, never that of a health-only install   *)
(* (data-migration.ts, safety invariants: promotion moves the whole        *)
(* authoritative root as a unit).                                          *)
SecretTravelsWithItsDatabase ==
  hasDb(canon) /\ canon.db.origin = "legacy" => canon.secret = "ls"

(* No step destroys a canonical root: what a step takes out of its place   *)
(* is in the backup of that install ("never delete the destination         *)
(* pre-migration backup"), and a backup only leaves it for its old place.  *)
DestinationIsNeverLostStep ==
  /\ (exists(canon) /\ ~exists(canon')) => destBackup'[installs] = canon
  /\ \A i \in Install :
       (exists(destBackup[i]) /\ destBackup'[i] # destBackup[i]) => canon' = destBackup[i]

DestinationIsNeverLost == [][DestinationIsNeverLostStep]_vars

(* Users' work in the canonical root is never displaced by a migration:    *)
(* two databases with work in both end in a conflict, whatever earlier     *)
(* installs crashed on ("never auto-merge", "never pick newest").          *)
WorkIsNeverDisplacedStep ==
  (hasDb(canon) /\ canon.db.ok /\ canon.db.user /\ canon.db.origin = "fresh")
    => hasDb(canon') /\ canon'.db.origin = "fresh"

WorkIsNeverDisplaced == [][WorkIsNeverDisplacedStep]_vars

(* The completion marker means what later installers take it for: the root *)
(* it lies in holds the migrated database.                                 *)
MarkerMeansMigrated ==
  exists(canon) /\ canon.marker => hasDb(canon) /\ canon.db.origin = "legacy"

(* The credential carry never replaces a fresher canonical record, and an  *)
(* undated one counts as fresh.                                            *)
CarryNeverRegressesStep ==
  (run.pc = "prepare" /\ exists(canon) /\ canon.creds # NoCreds) =>
    /\ canon.creds = Undated => canon'.creds = Undated
    /\ canon.creds # Undated => canon'.creds >= canon.creds

CarryNeverRegresses == [][CarryNeverRegressesStep]_vars

-----------------------------------------------------------------------------
(* What the repository says and the code does not do.                      *)

(* "A health-only db has the schema but no sessions/messages/aliases/audit *)
(* rows": a canonical database nobody worked with is no runtime data.      *)
UnusedDatabaseIsHealthOnly ==
  hasDb(canon) /\ canon.db.origin = "fresh" /\ ~worked => ~hasRuntimeData(canon)

(* "on failure the destination is restored from its pre-migration backup   *)
(* and the journal records the rollback".                                  *)
RolledBackMeansRestored ==
  [][\A i \in Install : (journal[i] # "rolled_back" /\ journal'[i] = "rolled_back")
       => ~exists(destBackup'[i])]_vars

(* "Caller MUST ensure the broker is stopped first."                       *)
MigratesStoppedRoot == run.pc \in Migrating => ~legacyLive

(* "crash recovery": an install that migrated and died or failed part-way  *)
(* can be run again; the second one meets a conflict only when a broker    *)
(* wrote to one of the roots in between.                                   *)
RerunMeetsNoConflict ==
  \A i \in Install \ {1} :
    verdict[i] = "conflict" /\ verdict[i - 1] = "migrate" => worked \/ legacy.db.rev > 0
=============================================================================
