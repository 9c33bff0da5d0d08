----------------------------- MODULE OwnerSecrets -----------------------------
(***************************************************************************)
(* The two files in which clients keep what they need to take up a durable *)
(* identity again: owner-secrets.json and durable-names.json               *)
(* (channel/owner-secret-store.ts), as the MCP servers of one project and  *)
(* one agent type write them (channel/mcp-server.ts) and read them at      *)
(* start (channel/server.ts), against the names and secrets the broker     *)
(* keeps (setNameOwnershipActive in broker/store.ts).                      *)
(*                                                                         *)
(* A save reads the whole file, writes a temporary file under a fixed name *)
(* (created empty, then filled) and renames it over the file; every        *)
(* process may be interrupted or killed between these steps.  A secret is  *)
(* identified with the identity it was minted for.                         *)
(***************************************************************************)
EXTENDS Naturals

CONSTANTS Proc,        \* MCP servers, one identity each
          Name,        \* session names
          None,
          Overlap,     \* saves of two processes may overlap
          Faults,      \* an answer may be lost, a process killed while it saves
          MaxAcks      \* bound: names the broker awards

VARIABLES holder,      \* broker: name -> identity that holds it, or None
          minted,      \* broker: identities with an owner secret
          requested,   \* process -> deps.requestedSessionName
          up,          \* processes that have registered since they started
          job,         \* process -> what it has still to save, or Idle
          file, tmp,   \* the two files and their temporary files
          acks         \* answers sent: the clock of the stamps

vars == <<holder, minted, requested, up, job, file, tmp, acks>>

File == {"secrets", "names"}
Idle == [at |-> "idle"]

NoSecrets == [n \in Name |-> None]
NoNames   == [name |-> None, stamp |-> 0]
Empty(f)  == IF f = "secrets" THEN NoSecrets ELSE NoNames

(* What is on disk under a path: no file, a file cut short, or a whole one. *)
Gone(f)     == [is |-> "gone", data |-> Empty(f)]
Torn(f)     == [is |-> "torn", data |-> Empty(f)]
Whole(data) == [is |-> "whole", data |-> data]

(* readStore, readDurableNames: an unreadable file counts as empty. *)
readStore(f) == file[f].data

loadOwnerSecret(n) == readStore("secrets")[n]

resolveDurableName == readStore("names").name

Init == /\ holder = [n \in Name |-> None] /\ minted = {}
        /\ requested \in [Proc -> Name]
        /\ up = {} /\ job = [p \in Proc |-> Idle]
        /\ file = [f \in File |-> Gone(f)] /\ tmp = [f \in File |-> Gone(f)]
        /\ acks = 0

Quiet(p) == \A q \in Proc \ {p} : Overlap \/ job[q].at \in {"idle", "read"}

(***************************************************************************)
(* What a client does with an answer that carries its name: save a secret  *)
(* that was minted for it just now; after a rename without one, copy the   *)
(* secret it has under the name it asked for at start; then save the name. *)
(***************************************************************************)
Job(f, n, s) == [at |-> "read", file |-> f, name |-> n, secret |-> s, stamp |-> acks + 1, copy |-> None]

MutAfterRename(p, n, fresh) ==  (* Mutant: a reused secret stays under the old name. *)
  IF fresh THEN Job("secrets", n, p) ELSE Job("names", n, None)

AfterRename(p, n, fresh) ==
  CASE fresh -> Job("secrets", n, p)
    [] ~fresh /\ requested[p] # n /\ loadOwnerSecret(requested[p]) # None
         -> Job("secrets", n, loadOwnerSecret(requested[p]))
    [] OTHER -> Job("names", n, None)

AfterRegister(p, n, fresh) == IF fresh THEN Job("secrets", n, p) ELSE Job("names", n, None)

(* setNameOwnershipActive: a secret is minted for the first name only. *)
Award(p, n) == /\ holder' = [m \in Name |-> IF m = n THEN p ELSE IF holder[m] = p THEN None ELSE holder[m]]
               /\ minted' = minted \cup {p}

HeldBy(p) == {n \in Name : holder[n] = p}

(* register_session: a session that holds a name keeps it; otherwise it is   *)
(* awarded the one it asks for, unless another session holds that.          *)
Register(p) ==
  /\ p \notin up /\ job[p] = Idle /\ acks < MaxAcks
  /\ LET n == IF HeldBy(p) # {} THEN CHOOSE m \in HeldBy(p) : TRUE ELSE requested[p]
     IN  IF holder[n] \notin {p, None}
         THEN up' = up \cup {p} /\ UNCHANGED <<holder, minted, job>>
         ELSE /\ Award(p, n)
              /\ \/ /\ up' = up \cup {p}
                    /\ job' = [job EXCEPT ![p] = AfterRegister(p, n, p \notin minted)]
                 \/ Faults /\ UNCHANGED <<up, job>>
  /\ acks' = acks + 1
  /\ UNCHANGED <<requested, file, tmp>>

(* xbus_rename, by a session with or without a name. *)
Rename(p, n) ==
  /\ p \in up /\ job[p] = Idle /\ acks < MaxAcks
  /\ holder[n] \in {p, None}
  /\ Award(p, n)
  /\ \/ job' = [job EXCEPT ![p] = AfterRename(p, n, p \notin minted)]
     \/ Faults /\ UNCHANGED job
  /\ acks' = acks + 1
  /\ UNCHANGED <<requested, up, file, tmp>>

(***************************************************************************)
(* saveOwnerSecret and saveDurableName, step by step.                      *)
(***************************************************************************)
Follow(p) == IF job[p].file = "secrets"
             THEN [job EXCEPT ![p].at = "read", ![p].file = "names", ![p].copy = None]
             ELSE [job EXCEPT ![p] = Idle]

MutStale(p) ==  (* Mutant: a name is written whatever its stamp. *)
  FALSE

(* saveDurableName returns early when the record is newer. *)
Stale(p) == job[p].file = "names" /\ readStore("names").stamp > job[p].stamp

Updated(p) == IF job[p].file = "secrets"
              THEN [readStore("secrets") EXCEPT ![job[p].name] = job[p].secret]
              ELSE [name |-> job[p].name, stamp |-> job[p].stamp]

ReadFile(p) ==
  /\ job[p].at = "read" /\ Quiet(p)
  /\ job' = IF Stale(p) THEN Follow(p)
            ELSE [job EXCEPT ![p].at = "open", ![p].copy = Updated(p)]
  /\ UNCHANGED <<holder, minted, requested, up, file, tmp, acks>>

MutOpenTmp(p) ==  (* Mutant: the file is written in place. *)
  /\ job[p].at = "open"
  /\ job' = [job EXCEPT ![p].at = "fill"]
  /\ tmp' = [tmp EXCEPT ![job[p].file] = Torn(job[p].file)]
  /\ file' = [file EXCEPT ![job[p].file] = Torn(job[p].file)]
  /\ UNCHANGED <<holder, minted, requested, up, acks>>

OpenTmp(p) ==
  /\ job[p].at = "open"
  /\ job' = [job EXCEPT ![p].at = "fill"]
  /\ tmp' = [tmp EXCEPT ![job[p].file] = Torn(job[p].file)]
  /\ UNCHANGED <<holder, minted, requested, up, file, acks>>

(* Bytes go into the temporary file that was opened; if another process has *)
(* renamed it meanwhile, they go into the file itself.                      *)
FillTmp(p) ==
  /\ job[p].at = "fill"
  /\ job' = [job EXCEPT ![p].at = "move"]
  /\ IF tmp[job[p].file].is = "gone"
     THEN file' = [file EXCEPT ![job[p].file] = Whole(job[p].copy)] /\ UNCHANGED tmp
     ELSE tmp' = [tmp EXCEPT ![job[p].file] = Whole(job[p].copy)] /\ UNCHANGED file
  /\ UNCHANGED <<holder, minted, requested, up, acks>>

(* A rename without a temporary file throws, which writeStore swallows. *)
MoveTmp(p) ==
  /\ job[p].at = "move"
  /\ job' = Follow(p)
  /\ LET f == job[p].file
     IN  IF tmp[f].is = "gone" THEN UNCHANGED <<file, tmp>>
         ELSE /\ file' = [file EXCEPT ![f] = tmp[f]]
              /\ tmp' = [tmp EXCEPT ![f] = Gone(f)]
  /\ UNCHANGED <<holder, minted, requested, up, acks>>

(* The process ends and is started again: it asks for the durable name on   *)
(* file, or for the workspace's name as before.                             *)
Restart(p) ==
  /\ p \in up /\ (Faults \/ job[p] = Idle)
  /\ up' = up \ {p}
  /\ job' = [job EXCEPT ![p] = Idle]
  /\ requested' = [requested EXCEPT ![p] = IF resolveDurableName # None THEN resolveDurableName ELSE @]
  /\ UNCHANGED <<holder, minted, file, tmp, acks>>

Next == \E p \in Proc : \/ Register(p) \/ (\E n \in Name : Rename(p, n))
                        \/ ReadFile(p) \/ OpenTmp(p) \/ FillTmp(p) \/ MoveTmp(p)
                        \/ Restart(p)

Spec == Init /\ [][Next]_vars

(***************************************************************************)
(* Properties.                                                             *)
(***************************************************************************)
Secrets == [Name -> Proc \cup {None}]
Names   == [name : Name \cup {None}, stamp : Nat]
Disk(f) == [is : {"gone", "torn", "whole"}, data : IF f = "secrets" THEN Secrets ELSE Names]
Jobs    == [at : {"read", "open", "fill", "move"}, file : File, name : Name, secret : Proc \cup {None},
            stamp : Nat, copy : {None} \cup Secrets \cup Names]

TypeOK == /\ holder \in [Name -> Proc \cup {None}] /\ minted \subseteq Proc
          /\ requested \in [Proc -> Name] /\ up \subseteq Proc /\ acks \in Nat
          /\ job \in [Proc -> {Idle} \cup Jobs]
          /\ file = [f \in File |-> file[f]] /\ tmp = [f \in File |-> tmp[f]]
          /\ \A f \in File : file[f] \in Disk(f) /\ tmp[f] \in Disk(f)

(* When a process has saved what it was told, its secret is on file under   *)
(* the name it holds: register and rename take the secret along, however    *)
(* often the session is renamed and restarted.                              *)
SecretFollowsName ==
  \A p \in up : job[p] = Idle => \A n \in HeldBy(p) : loadOwnerSecret(n) = p

(* The files are whole at every moment, whoever is killed where: nothing    *)
(* but the rename touches them.                                             *)
FilesAreWhole == \A f \in File : file[f].is # "torn"

(* The durable name never goes back to an older one: the stamp of the       *)
(* answer decides, not the order in which the processes come to save.       *)
NewerNameStaysStep == readStore("names")'.stamp >= readStore("names").stamp

NewerNameStays == [][NewerNameStaysStep]_vars

(***************************************************************************)
(* The inductive invariants.  While saves do not overlap, one process      *)
(* writes at a time, from a copy that is at least as new as the file, into *)
(* a temporary file that is its own.                                       *)
(***************************************************************************)
Active(p) == job[p].at \in {"open", "fill", "move"}

OneWriter == \A p, q \in Proc : p # q => ~Active(p) \/ ~Active(q)

Writing(p) ==
  Active(p) =>
    /\ job[p].file = "secrets" => job[p].copy \in Secrets
    /\ job[p].file = "names" => /\ job[p].copy = [name |-> job[p].name, stamp |-> job[p].stamp]
                                /\ readStore("names").stamp <= job[p].stamp
    /\ job[p].at = "fill" => tmp[job[p].file].is = "torn"
    /\ job[p].at = "move" => tmp[job[p].file] = Whole(job[p].copy)

Inv == TypeOK /\ OneWriter /\ FilesAreWhole /\ \A p \in Proc : Writing(p)

(* A process alone, without faults: what it holds, asks for and has on file *)
(* as its durable name is under its secret, or will be after this save.     *)
Kept(p) ==
  /\ up \subseteq minted /\ (p \notin minted => HeldBy(p) = {})
  /\ resolveDurableName # None => loadOwnerSecret(resolveDurableName) = p
  /\ job[p] = Idle => /\ \A n \in HeldBy(p) : loadOwnerSecret(n) = p
                      /\ p \in minted => loadOwnerSecret(requested[p]) = p
  /\ job[p] # Idle =>
       /\ p \in minted /\ HeldBy(p) \subseteq {job[p].name}
       /\ loadOwnerSecret(requested[p]) = p \/ (job[p].file = "secrets" /\ requested[p] = job[p].name)
       /\ job[p].file = "names" => loadOwnerSecret(job[p].name) = p
       /\ job[p].file = "secrets" => job[p].secret = p
       /\ job[p].file = "secrets" /\ Active(p) =>
            /\ job[p].copy[job[p].name] = p
            /\ \A n \in Name : loadOwnerSecret(n) = p => job[p].copy[n] = p

(***************************************************************************)
(* What the repository says and the code does not do.                      *)
(***************************************************************************)
(* channel/owner-secret-store.ts: the older identity's "by-name             *)
(* owner-secret (never overwritten)".  The last of two overlapping saves    *)
(* writes the file without the other's entry.                               *)
SecretStays ==
  [][\A n \in Name : loadOwnerSecret(n) # None => loadOwnerSecret(n)' # None]_vars

(***************************************************************************)
(* Proofs.                                                                 *)
(***************************************************************************)
(* The invariants hold at first.                                           *)
LEMMA InitInv ==
  ASSUME Init
  PROVE  Inv /\ \A p \in Proc : p # None => Kept(p)
  <1>1. TypeOK
    BY DEF Init, TypeOK, File, Gone, Disk, Empty, NoSecrets, NoNames, Secrets, Names
  <1>2. OneWriter /\ FilesAreWhole /\ \A p \in Proc : Writing(p)
    BY DEF Init, OneWriter, FilesAreWhole, Writing, Active, Idle, Gone
  <1>3. \A p \in Proc : p # None => Kept(p)
    BY DEF Init, Kept, HeldBy, resolveDurableName, readStore, File, Gone, Empty, NoNames
  <1> QED BY <1>1, <1>2, <1>3 DEF Inv

(* Every step keeps the first invariant, for any set of processes.         *)
LEMMA StepKeepsInv ==
  ASSUME ~Overlap, Inv, Next \/ UNCHANGED vars
  PROVE  Inv'
  <1> USE DEF File
  <1>0. TypeOK /\ OneWriter /\ FilesAreWhole /\ \A p \in Proc : Writing(p)
    BY DEF Inv
  <1>1. ASSUME NEW p \in Proc, job[p].at # "idle" PROVE job[p] \in Jobs
    BY <1>0, <1>1 DEF TypeOK, Idle
  <1>2. ASSUME NEW p \in Proc, NEW j \in {Idle} \cup Jobs, job' = [job EXCEPT ![p] = j]
        PROVE  /\ job' \in [Proc -> {Idle} \cup Jobs] /\ job'[p] = j
               /\ \A q \in Proc : q # p => job'[q] = job[q]
    BY <1>0, <1>2 DEF TypeOK
  <1>3. ASSUME NEW p \in Proc, NEW j \in {Idle} \cup Jobs, j.at \in {"idle", "read"},
               job' = [job EXCEPT ![p] = j], UNCHANGED <<file, tmp>>
        PROVE  OneWriter' /\ FilesAreWhole' /\ \A q \in Proc : Writing(q)'
    <2>1. ~Active(p)' /\ \A q \in Proc : q # p => job'[q] = job[q]
      BY <1>2, <1>3 DEF Active
    <2>2. OneWriter'
      BY <1>0, <2>1 DEF OneWriter, Active
    <2>3. ASSUME NEW q \in Proc PROVE Writing(q)'
      BY <1>0, <1>3, <2>1 DEF Writing, Active, readStore
    <2> QED BY <1>0, <1>3, <2>2, <2>3 DEF FilesAreWhole
  <1>4. ASSUME NEW p \in Proc, NEW j \in Jobs, j.at \in {"open", "fill", "move"}, job' = [job EXCEPT ![p] = j],
               \A q \in Proc : q # p => ~Active(q), Writing(p)'
        PROVE  OneWriter' /\ \A q \in Proc : Writing(q)'
    <2>1. \A q \in Proc : q # p => ~Active(q)'
      BY <1>2, <1>4 DEF Active
    <2> QED BY <1>4, <2>1 DEF OneWriter, Writing
  <1>5. ASSUME NEW p \in Proc, Active(p) PROVE \A q \in Proc : q # p => ~Active(q)
    BY <1>0, <1>5 DEF OneWriter
  <1>6. ASSUME NEW p \in Proc, Register(p) \/ \E n \in Name : Rename(p, n) PROVE Inv'
    <2>1. ASSUME NEW f \in File, NEW n \in Name, NEW s \in Proc \cup {None}
          PROVE  Job(f, n, s) \in Jobs /\ Job(f, n, s).at = "read"
      BY <1>0 DEF Job, Jobs, TypeOK
    <2>2. ASSUME NEW n \in Name, NEW b PROVE AfterRegister(p, n, b) \in Jobs /\ AfterRegister(p, n, b).at = "read"
      BY <2>1 DEF AfterRegister
    <2>3. ASSUME NEW n \in Name, NEW b \in BOOLEAN
          PROVE  AfterRename(p, n, b) \in Jobs /\ AfterRename(p, n, b).at = "read"
      <3>1. requested[p] \in Name /\ readStore("secrets") \in Secrets
        BY <1>0 DEF TypeOK, Disk, readStore
      <3>2. loadOwnerSecret(requested[p]) \in Proc \cup {None}
        BY <3>1 DEF loadOwnerSecret, Secrets
      <3> QED BY <2>1, <3>2 DEF AfterRename
    <2>4. /\ UNCHANGED <<requested, file, tmp>> /\ acks' = acks + 1
          /\ up' = up \/ up' = up \cup {p}
          /\ UNCHANGED <<holder, minted>> \/ \E n \in Name : Award(p, n)
          /\ \/ job' = job
             \/ \E j \in Jobs : j.at = "read" /\ job' = [job EXCEPT ![p] = j]
      <3>1. CASE Register(p)
        <4> DEFINE n == IF HeldBy(p) # {} THEN CHOOSE m \in HeldBy(p) : TRUE ELSE requested[p]
        <4>1. n \in Name
          BY <1>0 DEF HeldBy, TypeOK
        <4>2. /\ UNCHANGED <<requested, file, tmp>> /\ acks' = acks + 1
              /\ up' = up \/ up' = up \cup {p}
              /\ UNCHANGED <<holder, minted>> \/ Award(p, n)
              /\ job' = job \/ job' = [job EXCEPT ![p] = AfterRegister(p, n, p \notin minted)]
          BY <3>1 DEF Register
        <4> HIDE DEF n
        <4> QED BY <2>2, <4>1, <4>2
      <3>2. CASE \E n \in Name : Rename(p, n)
        BY <2>3, <3>2 DEF Rename
      <3> QED BY <1>6, <3>1, <3>2
    <2>5. OneWriter' /\ FilesAreWhole' /\ \A q \in Proc : Writing(q)'
      <3>1. CASE job' = job
        <4>1. job' = [job EXCEPT ![p] = job[p]] /\ UNCHANGED <<file, tmp>>
          BY <1>0, <2>4, <3>1 DEF TypeOK
        <4> QED BY <1>0, <3>1, <4>1 DEF OneWriter, FilesAreWhole, Writing, Active, readStore
      <3>2. CASE \E j \in Jobs : j.at = "read" /\ job' = [job EXCEPT ![p] = j]
        BY <1>3, <2>4, <3>2
      <3> QED BY <2>4, <3>1, <3>2
    <2>6. TypeOK'
      <3>1. job' \in [Proc -> {Idle} \cup Jobs]
        BY <1>0, <1>2, <2>4 DEF TypeOK
      <3>2. holder' \in [Name -> Proc \cup {None}] /\ minted' \subseteq Proc
        BY <1>0, <2>4 DEF TypeOK, Award
      <3> QED BY <1>0, <2>4, <3>1, <3>2 DEF TypeOK
    <2> QED BY <2>5, <2>6 DEF Inv
  <1>7. ASSUME NEW p \in Proc, Restart(p) PROVE Inv'
    <2>1. OneWriter' /\ FilesAreWhole' /\ \A q \in Proc : Writing(q)'
      BY <1>3, <1>7 DEF Restart, Idle
    <2>2. job' \in [Proc -> {Idle} \cup Jobs]
      BY <1>2, <1>7 DEF Restart
    <2>3. resolveDurableName \in Name \cup {None}
      BY <1>0 DEF resolveDurableName, readStore, TypeOK, Disk, Names
    <2>4. requested' \in [Proc -> Name]
      BY <1>0, <1>7, <2>3 DEF Restart, TypeOK
    <2>5. TypeOK'
      BY <1>0, <1>7, <2>2, <2>4 DEF Restart, TypeOK
    <2> QED BY <2>1, <2>5 DEF Inv
  <1>8. ASSUME NEW p \in Proc, job[p].at = "read" \/ Active(p)
        PROVE  /\ job[p] \in Jobs
               /\ \E j \in {Idle} \cup Jobs : j.at \in {"idle", "read"} /\ Follow(p) = [job EXCEPT ![p] = j]
    <2>1. job[p] \in Jobs
      BY <1>1, <1>8 DEF Active
    <2>2. CASE job[p].file = "secrets"
      <3> DEFINE j == [job[p] EXCEPT !.at = "read", !.file = "names", !.copy = None]
      <3>1. j \in Jobs /\ j.at = "read"
        BY <2>1 DEF Jobs
      <3>2. Follow(p) = [job EXCEPT ![p] = j]
        BY <1>0, <2>2 DEF Follow, TypeOK
      <3> QED BY <2>1, <3>1, <3>2
    <2>3. CASE job[p].file # "secrets"
      BY <2>1, <2>3 DEF Follow, Idle
    <2> QED BY <2>2, <2>3
  <1>9. ASSUME NEW p \in Proc, ReadFile(p) PROVE Inv'
    <2>1. /\ job[p] \in Jobs /\ ~Active(p) /\ \A q \in Proc : q # p => ~Active(q)
          /\ UNCHANGED <<holder, minted, requested, up, file, tmp, acks>>
      BY <1>8, <1>9 DEF ReadFile, Quiet, Active
    <2>2. CASE Stale(p)
      <3>1. PICK j \in {Idle} \cup Jobs : j.at \in {"idle", "read"} /\ job' = [job EXCEPT ![p] = j]
        BY <1>8, <1>9, <2>2 DEF ReadFile
      <3>2. OneWriter' /\ FilesAreWhole' /\ \A q \in Proc : Writing(q)'
        BY <1>3, <2>1, <3>1
      <3>3. TypeOK'
        BY <1>0, <1>2, <2>1, <3>1 DEF TypeOK
      <3> QED BY <3>2, <3>3 DEF Inv
    <2>3. CASE ~Stale(p)
      <3> DEFINE j == [job[p] EXCEPT !.at = "open", !.copy = Updated(p)]
      <3>1. job' = [job EXCEPT ![p] = j]
        BY <1>0, <1>9, <2>3 DEF ReadFile, TypeOK
      <3>2. job[p].name \in Name /\ job[p].secret \in Proc \cup {None} /\ job[p].stamp \in Nat /\ job[p].file \in File
        BY <2>1 DEF Jobs
      <3>3. readStore("secrets") \in Secrets /\ readStore("names").stamp \in Nat
        BY <1>0 DEF TypeOK, Disk, Names, readStore
      <3>4. /\ job[p].file = "secrets" => Updated(p) \in Secrets
            /\ job[p].file = "names" => /\ Updated(p) = [name |-> job[p].name, stamp |-> job[p].stamp]
                                       /\ Updated(p) \in Names
        BY <3>2, <3>3 DEF Updated, Secrets, Names
      <3>5. j \in Jobs /\ j.at = "open" /\ j.copy = Updated(p) /\ j.file = job[p].file /\ j.name = job[p].name /\ j.stamp = job[p].stamp
        BY <2>1, <3>2, <3>4 DEF Jobs
      <3> HIDE DEF j
      <3>6. job'[p] = j /\ job' \in [Proc -> {Idle} \cup Jobs]
        BY <1>2, <3>1, <3>5
      <3>7. Writing(p)'
        BY <2>1, <2>3, <3>2, <3>3, <3>4, <3>5, <3>6 DEF Writing, Stale, readStore
      <3>8. OneWriter' /\ \A q \in Proc : Writing(q)'
        BY <1>4, <2>1, <3>1, <3>5, <3>7
      <3>9. TypeOK' /\ FilesAreWhole'
        BY <1>0, <2>1, <3>6 DEF TypeOK, FilesAreWhole
      <3> QED BY <3>8, <3>9 DEF Inv
    <2> QED BY <2>2, <2>3
  <1>10. ASSUME NEW p \in Proc, NEW at \in {"fill", "move"}, Active(p), job' = [job EXCEPT ![p].at = at],
                UNCHANGED <<holder, minted, requested, up, file, acks>>,
                tmp' = [tmp EXCEPT ![job[p].file] = IF at = "fill" THEN Torn(job[p].file) ELSE Whole(job[p].copy)]
         PROVE  Inv'
    <2> DEFINE j == [job[p] EXCEPT !.at = at]
    <2>1. job[p] \in Jobs /\ Writing(p)
      BY <1>0, <1>8, <1>10
    <2>2. j \in Jobs /\ j.at = at /\ j.copy = job[p].copy /\ j.file = job[p].file /\ j.name = job[p].name /\ j.stamp = job[p].stamp
      BY <2>1 DEF Jobs
    <2>3. job' = [job EXCEPT ![p] = j]
      BY <1>0, <1>10 DEF TypeOK
    <2> HIDE DEF j
    <2>4. job'[p] = j /\ job' \in [Proc -> {Idle} \cup Jobs]
      BY <1>2, <2>2, <2>3
    <2>5. job[p].file \in File
      BY <2>1 DEF Jobs
    <2>6. tmp'[job[p].file] = (IF at = "fill" THEN Torn(job[p].file) ELSE Whole(job[p].copy))
          /\ tmp' = [f \in File |-> tmp'[f]] /\ \A f \in File : f # job[p].file => tmp'[f] = tmp[f]
      BY <1>0, <1>10, <2>5 DEF TypeOK
    <2>7. Writing(p)'
      BY <1>10, <2>1, <2>2, <2>4, <2>6 DEF Writing, Active, readStore, Torn
    <2>8. OneWriter' /\ \A q \in Proc : Writing(q)'
      BY <1>4, <1>5, <1>10, <2>2, <2>3, <2>7
    <2>9. job[p].copy \in IF job[p].file = "secrets" THEN Secrets ELSE Names
      <3>1. CASE job[p].file = "secrets"
        BY <1>10, <2>1, <3>1 DEF Writing
      <3>2. CASE job[p].file = "names"
        <4>1. job[p].copy = [name |-> job[p].name, stamp |-> job[p].stamp]
          BY <1>10, <2>1, <3>2 DEF Writing
        <4>2. job[p].name \in Name /\ job[p].stamp \in Nat
          BY <2>1 DEF Jobs
        <4> QED BY <3>2, <4>1, <4>2 DEF Names
      <3> QED BY <2>5, <3>1, <3>2
    <2>10. tmp'[job[p].file] \in Disk(job[p].file)
      BY <2>5, <2>6, <2>9 DEF Torn, Whole, Disk, Empty, NoSecrets, NoNames, Secrets, Names
    <2>11. TypeOK' /\ FilesAreWhole'
      BY <1>0, <1>10, <2>4, <2>6, <2>10 DEF TypeOK, FilesAreWhole
    <2> QED BY <2>8, <2>11 DEF Inv
  <1>11. ASSUME NEW p \in Proc, OpenTmp(p) \/ FillTmp(p) PROVE Inv'
    <2>1. CASE OpenTmp(p)
      BY <1>10, <2>1 DEF OpenTmp, Active
    <2>2. CASE FillTmp(p)
      <3>1. Active(p) /\ tmp[job[p].file].is = "torn"
        BY <1>0, <2>2 DEF FillTmp, Active, Writing
      <3> QED BY <1>10, <2>2, <3>1 DEF FillTmp
    <2> QED BY <1>11, <2>1, <2>2
  <1>12. ASSUME NEW p \in Proc, MoveTmp(p) PROVE Inv'
    <2> DEFINE f == job[p].file
    <2>1. Active(p) /\ job[p] \in Jobs /\ tmp[f] = Whole(job[p].copy) /\ f \in File
      <3>1. Active(p)
        BY <1>12 DEF MoveTmp, Active
      <3>2. job[p] \in Jobs
        BY <1>8, <3>1
      <3> QED BY <1>0, <1>12, <3>1, <3>2 DEF MoveTmp, Writing, Jobs
    <2>2. /\ file' = [file EXCEPT ![f] = Whole(job[p].copy)] /\ tmp' = [tmp EXCEPT ![f] = Gone(f)]
          /\ job' = Follow(p) /\ UNCHANGED <<holder, minted, requested, up, acks>>
      BY <1>12, <2>1 DEF MoveTmp, Whole
    <2>3. PICK j \in {Idle} \cup Jobs : j.at \in {"idle", "read"} /\ job' = [job EXCEPT ![p] = j]
      BY <1>8, <2>1, <2>2
    <2>4. \A q \in Proc : ~Active(q)'
      BY <1>2, <1>5, <2>1, <2>3 DEF Active
    <2>5. /\ \A g \in File : file'[g] = IF g = f THEN tmp[f] ELSE file[g]
          /\ \A g \in File : tmp'[g] = IF g = f THEN Gone(f) ELSE tmp[g]
          /\ file' = [g \in File |-> file'[g]] /\ tmp' = [g \in File |-> tmp'[g]]
      BY <1>0, <2>1, <2>2 DEF TypeOK
    <2>6. Gone(f) \in Disk(f)
      BY DEF Gone, Disk, Empty, NoSecrets, NoNames, Secrets, Names
    <2>7. TypeOK'
      <3>1. job' \in [Proc -> {Idle} \cup Jobs]
        BY <1>2, <2>3
      <3>2. \A g \in File : file'[g] \in Disk(g) /\ tmp'[g] \in Disk(g)
        BY <1>0, <2>1, <2>5, <2>6 DEF TypeOK
      <3> QED BY <1>0, <2>2, <2>5, <3>1, <3>2 DEF TypeOK
    <2>8. FilesAreWhole'
      BY <1>0, <2>1, <2>5 DEF FilesAreWhole, Whole
    <2> QED BY <2>4, <2>7, <2>8 DEF Inv, OneWriter, Writing
  <1>13. CASE UNCHANGED vars
    BY <1>0, <1>13 DEF vars, Inv, TypeOK, OneWriter, FilesAreWhole, Writing, Active, readStore
  <1> QED BY <1>6, <1>7, <1>9, <1>11, <1>12, <1>13 DEF Next

(* The durable name on file never gets older.                              *)
LEMMA StepKeepsNewerName ==
  ASSUME ~Overlap, Inv, Next \/ UNCHANGED vars
  PROVE  NewerNameStaysStep
  <1> USE DEF File
  <1>0. TypeOK /\ \A p \in Proc : Writing(p)
    BY DEF Inv
  <1>1. CASE file' = file
    BY <1>0, <1>1 DEF NewerNameStaysStep, readStore, TypeOK, Disk, Names
  <1>2. ASSUME NEW p \in Proc, FillTmp(p) PROVE file' = file
    BY <1>0, <1>2 DEF FillTmp, Writing, Active
  <1>3. ASSUME NEW p \in Proc, MoveTmp(p), file' # file PROVE NewerNameStaysStep
    <2>1. /\ Active(p) /\ tmp[job[p].file] = Whole(job[p].copy)
          /\ file' = [file EXCEPT ![job[p].file] = tmp[job[p].file]]
      BY <1>0, <1>3 DEF MoveTmp, Active, Writing
    <2>2. CASE job[p].file = "names"
      <3>0. /\ job[p].copy = [name |-> job[p].name, stamp |-> job[p].stamp]
            /\ readStore("names").stamp <= job[p].stamp
        BY <1>0, <2>1, <2>2 DEF Writing
      <3>1. job[p].copy.stamp = job[p].stamp
        BY <3>0
      <3>2. file'["names"].data = job[p].copy
        BY <1>0, <2>1, <2>2 DEF TypeOK, Whole
      <3> QED BY <3>0, <3>1, <3>2 DEF NewerNameStaysStep, readStore
    <2>3. CASE job[p].file # "names"
      <3>1. file'["names"] = file["names"]
        BY <1>0, <2>1, <2>3 DEF TypeOK
      <3> QED BY <1>0, <3>1 DEF NewerNameStaysStep, readStore, TypeOK, Disk, Names
    <2> QED BY <2>2, <2>3
  <1> QED BY <1>1, <1>2, <1>3
          DEF Next, vars, Register, Rename, ReadFile, OpenTmp, Restart

(* Every step of a process alone, without faults, keeps the second.        *)
LEMMA StepKeepsKept ==
  ASSUME NEW p, Proc = {p}, p # None, None \notin Name, ~Faults, ~Overlap, Inv, Inv', Kept(p),
         Next \/ UNCHANGED vars
  PROVE  Kept(p)'
  <1> USE DEF File
  <1>0. TypeOK /\ Writing(p) /\ p \in Proc /\ TypeOK'
    BY DEF Inv
  <1>1. /\ requested[p] \in Name
        /\ \A n \in Name : holder[n] \in {p, None} /\ loadOwnerSecret(n) \in {p, None}
        /\ resolveDurableName \in Name \cup {None}
    <2>1. readStore("secrets") \in Secrets /\ readStore("names") \in Names
      BY <1>0 DEF TypeOK, Disk, readStore
    <2> QED BY <1>0, <2>1 DEF TypeOK, loadOwnerSecret, resolveDurableName, Secrets, Names
  <1>2. ASSUME NEW n \in Name, Award(p, n)
        PROVE  HeldBy(p)' = {n} /\ p \in minted'
    BY <1>0, <1>2 DEF Award, HeldBy, TypeOK
  <1>3. CASE Register(p)
    <2> DEFINE n == IF HeldBy(p) # {} THEN CHOOSE m \in HeldBy(p) : TRUE ELSE requested[p]
    <2>1. n \in Name /\ (HeldBy(p) # {} => n \in HeldBy(p)) /\ (HeldBy(p) = {} => n = requested[p])
      BY <1>1 DEF HeldBy
    <2>2. /\ Award(p, n) /\ up' = up \cup {p} /\ job[p] = Idle
          /\ job' = [job EXCEPT ![p] = AfterRegister(p, n, p \notin minted)]
          /\ UNCHANGED <<requested, file, tmp>>
      BY <1>1, <1>3, <2>1 DEF Register
    <2> HIDE DEF n
    <2>3. job'[p] = AfterRegister(p, n, p \notin minted)
      BY <1>0, <2>2 DEF TypeOK
    <2>4. HeldBy(p)' = {n} /\ p \in minted' /\ up' \subseteq minted'
      BY <1>2, <2>1, <2>2 DEF Kept, Award
    <2>5. p \in minted => loadOwnerSecret(n) = p /\ loadOwnerSecret(requested[p]) = p
      BY <2>1, <2>2 DEF Kept
    <2>6. p \notin minted => n = requested[p]
      BY <2>1 DEF Kept
    <2>7. /\ job'[p] # Idle /\ job'[p].name = n /\ job'[p].at = "read"
          /\ p \notin minted => job'[p].file = "secrets" /\ job'[p].secret = p
          /\ p \in minted => job'[p].file = "names"
      BY <2>3 DEF AfterRegister, Job, Idle
    <2> QED BY <2>2, <2>4, <2>5, <2>6, <2>7 DEF Kept, Active, loadOwnerSecret, resolveDurableName, readStore
  <1>4. ASSUME NEW n \in Name, Rename(p, n) PROVE Kept(p)'
    <2>1. /\ Award(p, n) /\ up' = up /\ job[p] = Idle /\ p \in minted
          /\ job' = [job EXCEPT ![p] = AfterRename(p, n, p \notin minted)]
          /\ UNCHANGED <<requested, file, tmp>>
      BY <1>4 DEF Rename, Kept
    <2>2. job'[p] = AfterRename(p, n, FALSE)
      BY <1>0, <2>1 DEF TypeOK
    <2>3. HeldBy(p)' = {n} /\ p \in minted' /\ up' \subseteq minted'
      BY <1>2, <2>1 DEF Kept, Award
    <2>4. loadOwnerSecret(requested[p]) = p
      BY <2>1 DEF Kept
    <2>5. /\ job'[p] # Idle /\ job'[p].name = n /\ job'[p].at = "read"
          /\ \/ job'[p].file = "secrets" /\ job'[p].secret = p
             \/ job'[p].file = "names" /\ requested[p] = n
      BY <2>2, <2>4 DEF AfterRename, Job, Idle
    <2> QED BY <2>1, <2>3, <2>4, <2>5 DEF Kept, Active, loadOwnerSecret, resolveDurableName, readStore
  <1>5. CASE Restart(p)
    <2>1. /\ job[p] = Idle /\ job' = [job EXCEPT ![p] = Idle] /\ up' = up \ {p}
          /\ requested' = [requested EXCEPT ![p] = IF resolveDurableName # None THEN resolveDurableName ELSE @]
          /\ UNCHANGED <<holder, minted, file, tmp>>
      BY <1>5 DEF Restart
    <2>2. job'[p] = Idle /\ requested'[p] \in {requested[p], resolveDurableName}
          /\ (resolveDurableName = None => requested'[p] = requested[p])
      BY <1>0, <2>1 DEF TypeOK
    <2> QED BY <2>1, <2>2 DEF Kept, HeldBy, loadOwnerSecret, resolveDurableName, readStore
  <1>6. ASSUME job[p].at \in {"read", "open", "fill", "move"}
        PROVE  job[p] # Idle /\ job[p] \in Jobs /\ job[p].name \in Name /\ job[p].file \in File
    <2>1. job[p] # Idle /\ job[p] \in Jobs
      BY <1>0, <1>6 DEF TypeOK, Idle
    <2> QED BY <2>1 DEF Jobs
  <1>7. ASSUME job[p].at \in {"read", "open", "fill", "move"}, job' = Follow(p),
               UNCHANGED <<holder, minted, requested, up>>,
               \A n \in Name : loadOwnerSecret(n) = p => loadOwnerSecret(n)' = p,
               resolveDurableName' \in {resolveDurableName, job[p].name},
               resolveDurableName' # resolveDurableName => job[p].file = "names",
               \A n \in Name : job[p].file = "secrets" /\ n = job[p].name => loadOwnerSecret(n)' = p
        PROVE  Kept(p)'
    <2>1. job[p] # Idle /\ job[p] \in Jobs /\ job[p].name \in Name
      BY <1>6, <1>7
    <2>2. \A n \in Name : n \in {job[p].name, requested[p]} => loadOwnerSecret(n)' = p
      <3>1. job[p].file \in File
        BY <1>6, <1>7
      <3> QED BY <1>1, <1>7, <2>1, <3>1 DEF Kept
    <2>3. resolveDurableName' # None => loadOwnerSecret(resolveDurableName)' = p
      BY <1>1, <1>7, <2>1, <2>2 DEF Kept, loadOwnerSecret
    <2>4. CASE job[p].file = "secrets"
      <3>1. job'[p] = [job[p] EXCEPT !.at = "read", !.file = "names", !.copy = None]
        BY <1>0, <1>7, <2>4 DEF Follow, TypeOK
      <3>2. job'[p].at = "read" /\ job'[p].file = "names" /\ job'[p].name = job[p].name /\ job'[p] # Idle
        BY <2>1, <3>1 DEF Jobs, Idle
      <3> QED BY <1>1, <1>7, <2>1, <2>2, <2>3, <3>2 DEF Kept, HeldBy, Active, loadOwnerSecret, readStore
    <2>5. CASE job[p].file # "secrets"
      <3>1. job'[p] = Idle
        BY <1>0, <1>7, <2>5 DEF Follow, TypeOK
      <3> QED BY <1>1, <1>7, <2>1, <2>2, <2>3, <3>1 DEF Kept, HeldBy, loadOwnerSecret, readStore
    <2> QED BY <2>4, <2>5
  <1>8. CASE ReadFile(p)
    <2>1. UNCHANGED <<holder, minted, requested, up, file, tmp>> /\ job[p].at = "read"
      BY <1>8 DEF ReadFile
    <2>2. CASE Stale(p)
      BY <1>7, <1>8, <2>1, <2>2 DEF ReadFile, Stale, loadOwnerSecret, resolveDurableName, readStore
    <2>3. CASE ~Stale(p)
      <3>1. job'[p] = [job[p] EXCEPT !.at = "open", !.copy = Updated(p)]
        BY <1>0, <1>8, <2>3 DEF ReadFile, TypeOK
      <3>2. job[p] \in Jobs /\ job[p] # Idle /\ job[p].name \in Name /\ job[p].file \in File
        BY <1>6, <2>1
      <3>3. /\ job'[p].at = "open" /\ job'[p].file = job[p].file /\ job'[p].name = job[p].name
            /\ job'[p].secret = job[p].secret /\ job'[p].copy = Updated(p) /\ job'[p] # Idle
        BY <3>1, <3>2 DEF Jobs, Idle
      <3>4. readStore("secrets") \in Secrets
        BY <1>0 DEF TypeOK, Disk, readStore
      <3>5. job[p].file = "secrets" =>
              \A n \in Name : Updated(p)[n] = IF n = job[p].name THEN p ELSE loadOwnerSecret(n)
        BY <3>2, <3>4 DEF Updated, Kept, Secrets, loadOwnerSecret
      <3> QED BY <2>1, <3>2, <3>3, <3>5 DEF Kept, HeldBy, Active, loadOwnerSecret, resolveDurableName, readStore
    <2> QED BY <2>2, <2>3
  <1>9. ASSUME NEW at \in {"fill", "move"}, Active(p), job' = [job EXCEPT ![p].at = at],
               UNCHANGED <<holder, minted, requested, up, file>>
        PROVE  Kept(p)'
    <2>1. job[p] \in Jobs /\ job[p] # Idle
      BY <1>6, <1>9 DEF Active
    <2>2. job'[p] = [job[p] EXCEPT !.at = at]
      BY <1>0, <1>9 DEF TypeOK
    <2>3. /\ job'[p].at = at /\ job'[p].file = job[p].file /\ job'[p].name = job[p].name
          /\ job'[p].secret = job[p].secret /\ job'[p].copy = job[p].copy /\ job'[p] # Idle
      BY <2>1, <2>2 DEF Jobs, Idle
    <2> QED BY <1>9, <2>1, <2>3 DEF Kept, HeldBy, Active, loadOwnerSecret, resolveDurableName, readStore
  <1>10. CASE OpenTmp(p) \/ FillTmp(p)
    <2>1. CASE FillTmp(p)
      <3>1. file' = file /\ Active(p)
        BY <1>0, <2>1 DEF FillTmp, Writing, Active
      <3> QED BY <1>9, <2>1, <3>1 DEF FillTmp
    <2> QED BY <1>9, <1>10, <2>1 DEF OpenTmp, Active
  <1>11. CASE MoveTmp(p)
    <2>1. /\ job[p].at = "move" /\ Active(p) /\ job' = Follow(p) /\ UNCHANGED <<holder, minted, requested, up>>
          /\ tmp[job[p].file] = Whole(job[p].copy) /\ file' = [file EXCEPT ![job[p].file] = Whole(job[p].copy)]
      BY <1>0, <1>11 DEF MoveTmp, Writing, Active, Whole
    <2>2. job[p] # Idle /\ job[p] \in Jobs /\ job[p].name \in Name /\ job[p].file \in File
      BY <1>6, <2>1
    <2>3. \A f \in File : file'[f] = IF f = job[p].file THEN Whole(job[p].copy) ELSE file[f]
      BY <1>0, <2>1, <2>2 DEF TypeOK
    <2>4. CASE job[p].file = "secrets"
      <3>1. \A n \in Name : loadOwnerSecret(n)' = job[p].copy[n]
        BY <2>3, <2>4 DEF loadOwnerSecret, readStore, Whole
      <3>2. resolveDurableName' = resolveDurableName
        BY <2>3, <2>4 DEF resolveDurableName, readStore
      <3> QED BY <1>7, <2>1, <2>2, <2>4, <3>1, <3>2 DEF Kept
    <2>5. CASE job[p].file = "names"
      <3>1. \A n \in Name : loadOwnerSecret(n)' = loadOwnerSecret(n)
        BY <2>3, <2>5 DEF loadOwnerSecret, readStore
      <3>2. job[p].copy = [name |-> job[p].name, stamp |-> job[p].stamp]
        BY <1>0, <2>1, <2>5 DEF Writing
      <3>3. resolveDurableName' = job[p].name
        BY <2>3, <2>5, <3>2 DEF resolveDurableName, readStore, Whole
      <3> QED BY <1>7, <2>1, <2>2, <2>5, <3>1, <3>3
    <2> QED BY <2>2, <2>4, <2>5
  <1>12. CASE UNCHANGED vars
    BY <1>12 DEF vars, Kept, HeldBy, Active, loadOwnerSecret, resolveDurableName, readStore
  <1> QED BY <1>3, <1>4, <1>5, <1>8, <1>10, <1>11, <1>12 DEF Next
=============================================================================
