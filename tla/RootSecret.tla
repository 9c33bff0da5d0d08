----------------------------- MODULE RootSecret -----------------------------
(***************************************************************************)
(* The per-installation root secret (src/ipc/root-secret.ts): every broker *)
(* and every client derives its keys from the secret that                  *)
(* loadOrCreateRootSecret returns, so all of them must end with the bytes  *)
(* that are on disk.  Several processes run it at once on a first start.   *)
(*                                                                         *)
(* `hidden` is the Windows ACL orphan the code recovers from: the file is  *)
(* there but reads as absent or as EPERM until the directory is hardened.  *)
(***************************************************************************)
EXTENDS Naturals

CONSTANTS
  Proc,     \* processes that load the secret
  Forcers   \* those of them that run it with forceReinit

VARIABLES
  disk,    \* what <dataDir>/auth/root.secret holds
  hidden,  \* the file cannot be read because of its directory's ACL
  pc,      \* where each process stands in loadOrCreateRootSecret
  mem      \* the secret each process returned with, None before that

vars == <<disk, hidden, pc, mem>>

None == "none"
Malformed == "malformed"
Old == "old"                \* a secret from before
Secret == Proc \cup {Old}   \* a process generates a secret of its own

Pc == {"read", "recover", "create", "adopt", "done", "failed"}

TypeOK ==
  /\ disk \in Secret \cup {None, Malformed}
  /\ hidden \in BOOLEAN
  /\ pc \in [Proc -> Pc]
  /\ mem \in [Proc -> Secret \cup {None}]

Init ==
  /\ disk \in {None, Malformed, Old}
  /\ hidden \in (IF disk = None THEN {FALSE} ELSE BOOLEAN)
  /\ pc = [p \in Proc |-> "read"]
  /\ mem = [p \in Proc |-> None]

-----------------------------------------------------------------------------
Goto(p, where) == pc' = [pc EXCEPT ![p] = where] /\ UNCHANGED mem

Return(p, secret) ==
  /\ pc' = [pc EXCEPT ![p] = "done"]
  /\ mem' = [mem EXCEPT ![p] = secret]

(* tryReadSecret over a file that can be read: its bytes, an error on a    *)
(* malformed file unless it is to be replaced, or absence.                 *)
tryReadSecret(p, absent) ==
  \/ disk \in Secret /\ Return(p, disk)
  \/ disk = Malformed /\ p \notin Forcers /\ Goto(p, "failed")
  \/ disk = Malformed /\ p \in Forcers /\ Goto(p, absent)
  \/ disk = None /\ Goto(p, absent)

(* hardenDir re-grants access to the directory, best effort.               *)
hardenDir == hidden' \in {FALSE, hidden}

(* The hot path: one plain read.  A hidden file reads as absent, or throws *)
(* EPERM and is read once more after hardenDir.                            *)
ReadHot(p) ==
  /\ pc[p] = "read"
  /\ UNCHANGED disk
  /\ \/ ~hidden /\ tryReadSecret(p, "recover") /\ UNCHANGED hidden
     \/ hidden /\ Goto(p, "recover") /\ UNCHANGED hidden
     \/ /\ hidden
        /\ hardenDir
        /\ IF hidden' THEN \E w \in {"recover", "failed"} : Goto(p, w)
                      ELSE tryReadSecret(p, "recover")

(* The secret was not found: re-grant access and look once more before     *)
(* anything is created.                                                    *)
Recover(p) ==
  /\ pc[p] = "recover"
  /\ UNCHANGED disk
  /\ hardenDir
  /\ \/ p \in Forcers /\ Goto(p, "create")
     \/ p \notin Forcers /\ ~hidden' /\ tryReadSecret(p, "create")
     \/ p \notin Forcers /\ hidden' /\ \E w \in {"create", "failed"} : Goto(p, w)

(* Mutant: the temporary file is renamed over the secret (last writer      *)
(* wins) instead of linked.                                                *)
MutWriteSecretExclusive(p) == disk' = p /\ Return(p, p)

(* writeSecretExclusive: link fails when the path exists, so the first     *)
(* writer wins and the others go on to adopt what is there.                *)
writeSecretExclusive(p) ==
  \/ disk = None /\ disk' = p /\ Return(p, p)
  \/ disk # None /\ UNCHANGED disk /\ Goto(p, "adopt")

(* Mutant: a reinitialisation is not told apart from a first use.          *)
MutCreate(p) ==
  /\ pc[p] = "create"
  /\ disk' = p
  /\ Return(p, p)
  /\ UNCHANGED hidden

(* The create branch; forceReinit is a deliberate replacement.             *)
Create(p) ==
  /\ pc[p] = "create"
  /\ \/ p \in Forcers /\ disk' = p /\ Return(p, p)
     \/ p \notin Forcers /\ writeSecretExclusive(p)
  /\ UNCHANGED hidden

(* EEXIST: read the winner's secret, never overwrite it.                   *)
Adopt(p) ==
  /\ pc[p] = "adopt"
  /\ UNCHANGED <<disk, hidden>>
  /\ \/ ~hidden /\ disk \in Secret /\ Return(p, disk)
     \/ (hidden \/ disk = Malformed) /\ Goto(p, "failed")

(* A process dies and is started again; its memory is gone.                *)
Restart(p) ==
  /\ pc[p] # "read"
  /\ pc' = [pc EXCEPT ![p] = "read"]
  /\ mem' = [mem EXCEPT ![p] = None]
  /\ UNCHANGED <<disk, hidden>>

Next == \E p \in Proc : ReadHot(p) \/ Recover(p) \/ Create(p) \/ Adopt(p) \/ Restart(p)

Spec == Init /\ [][Next]_vars

-----------------------------------------------------------------------------
(* However many processes race to create the secret, and wherever they     *)
(* crash, each one that returns holds exactly the bytes on disk            *)
(* (writeSecretExclusive: "every racer ends holding the exact secret that  *)
(* is on disk"), unless a process that was told to reinitialise has put    *)
(* its own there since.                                                    *)
HoldersHoldTheDiskSecret ==
  \A p \in Proc : mem[p] # None => mem[p] = disk \/ disk \in Forcers

(* A usable secret on disk is replaced only by a process that was told to  *)
(* reinitialise, and a malformed one is never replaced as a side effect of *)
(* an ordinary load.                                                       *)
OnlyForceReplacesStep ==
  disk # None /\ disk' # disk => \E p \in Forcers : pc[p] = "create" /\ disk' = p

OnlyForceReplaces == [][OnlyForceReplacesStep]_vars

(* What the proofs carry from step to step.                                *)
Inv == TypeOK /\ HoldersHoldTheDiskSecret
=============================================================================
