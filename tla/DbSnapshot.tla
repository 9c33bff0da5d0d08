------------------------------ MODULE DbSnapshot ------------------------------
(***************************************************************************)
(* Snapshot and restore of the database around an upgrade                  *)
(* (src/cli/db-snapshot.ts), file by file, with a crash between any two    *)
(* steps.  The database is a main file and a write-ahead log; the archive  *)
(* is a directory with a copy of each and a manifest of digests.           *)
(*                                                                         *)
(* The content of a file is the number of the last commit it reflects;     *)
(* Torn is a file that no commit produced.  What SQLite would show for a   *)
(* pair of files is View: a log is replayed over the main file it belongs  *)
(* to, and over any other main file it gives a database nobody committed.  *)
(***************************************************************************)
EXTENDS Integers

CONSTANT MaxCommit   \* commits made to the database

VARIABLES
  main,      \* last commit checkpointed into the main file, Torn, or Gone
  wal,       \* the log: NoWal or the commits it holds and the main file it extends
  archive,   \* the archived main file, NoFile before the copy
  digest,    \* the digest in the manifest of the snapshot, NoFile without one
  tmp,       \* <db>.restore-tmp
  writer,    \* a broker has the database open
  pc,        \* the step of the running snapshot or restore
  before,    \* what the database showed when the restore began (ghost)
  taken      \* what the database showed when the snapshot was taken (ghost)

vars == <<main, wal, archive, digest, tmp, writer, pc, before, taken>>

Torn == -1
NoFile == -2
NoWal == [last |-> 0, base |-> 0]

(* What opening the two files shows.                                       *)
View ==
  IF wal = NoWal THEN main
  ELSE IF main \in wal.base..wal.last THEN wal.last ELSE Torn

Init ==
  /\ main = 1
  /\ wal \in {NoWal, [last |-> 2, base |-> 1]}
  /\ archive = NoFile
  /\ digest = NoFile
  /\ tmp = NoFile
  /\ writer = FALSE
  /\ pc = "idle"
  /\ before = NoFile
  /\ taken = NoFile

-----------------------------------------------------------------------------
(* The broker of the health check (or of a session) opens the database,    *)
(* commits, checkpoints when the log is long, and closes; an orderly close *)
(* folds the whole log into the main file.                                 *)
Open ==
  /\ pc = "idle" /\ ~writer /\ View # Torn
  /\ writer' = TRUE
  /\ UNCHANGED <<main, wal, archive, digest, tmp, pc, before, taken>>

CommitTx ==
  /\ writer /\ View < MaxCommit
  /\ wal' = [last |-> View + 1, base |-> IF wal = NoWal THEN main ELSE wal.base]
  /\ UNCHANGED <<main, archive, digest, tmp, writer, pc, before, taken>>

Checkpoint ==
  /\ writer /\ wal # NoWal
  /\ main' = View
  /\ wal' = NoWal
  /\ UNCHANGED <<archive, digest, tmp, writer, pc, before, taken>>

Close ==
  /\ writer
  /\ main' = View
  /\ wal' = NoWal
  /\ writer' = FALSE
  /\ UNCHANGED <<archive, digest, tmp, pc, before, taken>>

(* The broker dies, or its start throws, without a close: the log stays.   *)
Die ==
  /\ writer
  /\ writer' = FALSE
  /\ UNCHANGED <<main, wal, archive, digest, tmp, pc, before, taken>>

-----------------------------------------------------------------------------
(* snapshotDbCheckpointed, with the writer stopped: checkpoint, ...        *)
checkpointMainDb ==
  /\ pc = "idle" /\ ~writer /\ digest = NoFile
  /\ main' = View
  /\ wal' = NoWal
  /\ pc' = "copy"
  /\ taken' = View
  /\ UNCHANGED <<archive, digest, tmp, writer, before>>

(* ... copy through a temporary name, ...                                  *)
snapshotCopy ==
  /\ pc = "copy"
  /\ archive' = main
  /\ pc' = "manifest"
  /\ UNCHANGED <<main, wal, digest, tmp, writer, before, taken>>

(* ... and write the manifest last: without it there is no snapshot.       *)
snapshotManifest ==
  /\ pc = "manifest"
  /\ digest' = archive
  /\ pc' = "idle"
  /\ UNCHANGED <<main, wal, archive, tmp, writer, before, taken>>

(* The archive rots on disk.                                               *)
ArchiveRots ==
  /\ pc = "idle"
  /\ archive # NoFile
  /\ archive' = Torn
  /\ UNCHANGED <<main, wal, digest, tmp, writer, pc, before, taken>>

-----------------------------------------------------------------------------
(* Mutant: the digests of the archive are not checked.                     *)
MutVerifySnapshot == digest # NoFile

(* readSnapshotManifest and verifySnapshot.                                *)
verifySnapshot == digest # NoFile /\ archive = digest

(* restoreDbSnapshot with the writer stopped: verify, copy the archived    *)
(* main file to a temporary name, ...                                      *)
restoreCopy ==
  /\ pc = "idle" /\ ~writer
  /\ verifySnapshot
  /\ tmp' = archive
  /\ before' = View
  /\ pc' = "sidecars"
  /\ UNCHANGED <<main, wal, archive, digest, writer, taken>>

(* Mutant: the live log stays.                                             *)
MutRemoveSidecars ==
  /\ pc = "sidecars"
  /\ pc' = "rename"
  /\ UNCHANGED <<main, wal, archive, digest, tmp, writer, before, taken>>

(* ... remove the live sidecars, ...                                       *)
removeSidecars ==
  /\ pc = "sidecars"
  /\ wal' = NoWal
  /\ pc' = "rename"
  /\ UNCHANGED <<main, archive, digest, tmp, writer, before, taken>>


(* ... and rename the copy over the main file.                             *)
restoreRename ==
  /\ pc = "rename"
  /\ main' = tmp
  /\ tmp' = NoFile
  /\ pc' = "restored"
  /\ UNCHANGED <<wal, archive, digest, writer, before, taken>>

(* The installer goes on after a restore, and discards the snapshot.       *)
discardSnapshot ==
  /\ pc = "restored"
  /\ archive' = NoFile
  /\ digest' = NoFile
  /\ pc' = "idle"
  /\ UNCHANGED <<main, wal, tmp, writer, before, taken>>

(* A crash during a snapshot or a restore.                                 *)
Crash ==
  /\ pc \in {"copy", "manifest", "sidecars", "rename"}
  /\ pc' = "crashed"
  /\ UNCHANGED <<main, wal, archive, digest, tmp, writer, before, taken>>

(* The next run finds what is there.                                       *)
Recover ==
  /\ pc = "crashed"
  /\ pc' = "idle"
  /\ tmp' = NoFile
  /\ UNCHANGED <<main, wal, archive, digest, writer, before, taken>>

Next ==
  \/ Open \/ CommitTx \/ Checkpoint \/ Close \/ Die
  \/ checkpointMainDb \/ snapshotCopy \/ snapshotManifest \/ ArchiveRots
  \/ restoreCopy \/ removeSidecars \/ restoreRename \/ discardSnapshot
  \/ Crash \/ Recover

Spec == Init /\ [][Next]_vars

-----------------------------------------------------------------------------
(* A restore that completes shows exactly the database the snapshot was    *)
(* taken of: no log of the discarded database is replayed over it, and no  *)
(* archive that changed since is trusted.                                  *)
RestoreGivesTheSnapshot == pc = "restored" => View = taken

(* Whatever crashes, the database can be read: it is never torn.           *)
NeverTorn == View # Torn

-----------------------------------------------------------------------------
(* What the repository says and the code does not do.                      *)

(* "A crash between steps leaves either the pre-restore state or the       *)
(* restored state".                                                        *)
CrashLeavesBeforeOrAfter ==
  [][(pc = "rename" /\ pc' = "crashed") => View' \in {before, taken}]_vars
=============================================================================
