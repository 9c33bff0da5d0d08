---------------------------- MODULE MCProcesses ----------------------------
(***************************************************************************)
(* Processes and the files they share: starting and stopping brokers, the  *)
(* root secret, the owner secrets of MCP servers, the children of the      *)
(* broker, the sessions from their SessionStart hook to their removal, and *)
(* what is reported of a session.                                          *)
(*                                                                         *)
(* They share no variable, so a property of one holds in every             *)
(* interleaving with the others exactly when it holds while the others     *)
(* rest.  A behaviour therefore picks one of them (component) and lets it  *)
(* run.  Processes.cfg gives the constants their small values; the proofs  *)
(* leave them open.  Each part, like those of ProcessSteps, is followed by *)
(* the lemma that its steps keep its inductive invariant (Inv of its       *)
(* module); the theorems at the end lift these to the composition.         *)
(***************************************************************************)
EXTENDS ProcessSteps

CONSTANTS
  Broker, Client, Version, MaxKill, MaxStop, Impatient,   \* Startup
  Loader, Forcers,                                        \* RootSecret
  Single, Pair, Name, PairName, MaxAcks, MaxPairAcks      \* OwnerSecrets

(* Null is not a value of the columns that may hold it, and what a secret  *)
(* file holds when it holds no secret is not a secret.                     *)
ASSUME NullAssumption ==
  /\ Null \notin Nat /\ Null \notin [ino : Nat, owner : Broker]
  /\ Null \notin {Single} \cup Pair \cup Name \cup PairName

ASSUME SecretAssumption == Loader \cap {"none", "malformed", "old"} = {}

ASSUME ForcersAssumption == Forcers \subseteq Loader

ASSUME BoundAssumption == MaxAcks \in Nat /\ MaxPairAcks \in Nat

VARIABLES
  component,
  pc, build, seen, schema, socket, inode, ino, file, recycled, client, kills, stops,  \* Startup
  disk, hidden, at, mem,                                                              \* RootSecret
  holder, minted, requested, registered, job, saved, tmp, acks                        \* OwnerSecrets

startVars == <<pc, build, seen, schema, socket, inode, ino, file, recycled, client, kills, stops>>

rootVars == <<disk, hidden, at, mem>>

ownerVars == <<holder, minted, requested, registered, job, saved, tmp, acks>>

vars == <<component, startVars, stopVars, rootVars, ownerVars, childVars, sessionVars, routeVars>>

-----------------------------------------------------------------------------
(* Brokers that start, clients that want one, graceful stops and kills.    *)
Start == INSTANCE Startup WITH None <- Null

(* No broker is there at first.                                            *)
LEMMA StartBegins ==
  ASSUME Start!Init
  PROVE  Start!Inv
  BY SMTT(60) DEF Start!Init, Start!Inv, Start!Typed, Start!State, Start!Inodes, Start!OwnPath,
         Start!NothingToUnlink, Start!Serving

(* Every step of brokers and clients keeps it.                             *)
LEMMA StartKeepsInv ==
  ASSUME Start!Inv, Start!Next \/ UNCHANGED startVars
  PROVE  Start!Inv'
  <1> USE DEF Start!Inv, Start!Typed, Start!State
  <1> Null \notin Start!Path /\ Null \notin Nat
    BY NullAssumption DEF Start!Path
  <1>a. ASSUME NEW b \in Broker, NEW to \in Start!State, Start!Goto(b, to)
        PROVE  pc' \in [Broker -> Start!State] /\ pc'[b] = to /\ \A o \in Broker \ {b} : pc'[o] = pc[o]
    BY <1>a DEF Start!Goto
  <1>1. ASSUME NEW b \in Broker, NEW to \in Start!State \ {"probing", "recovering", "unlinking", "bound", "up"},
               ~Start!Serving(b), Start!Goto(b, to), UNCHANGED <<socket, inode, ino, kills>>
        PROVE  Start!Inv'
    <2>1. socket # Null => socket.owner \in Broker
      BY DEF Start!Path
    <2>2. Start!Typed'
      BY <1>1, <1>a
    <2>3. ASSUME kills = 0 PROVE Start!Inodes' /\ Start!OwnPath' /\ Start!NothingToUnlink'
      BY <1>1, <1>a, <2>1, <2>3 DEF Start!Inodes, Start!OwnPath, Start!NothingToUnlink, Start!Serving
    <2> QED BY <1>1, <2>2, <2>3
  <1>2. ASSUME NEW b \in Broker, ~Start!Serving(b), socket = Null, Start!Bind(b), UNCHANGED <<ino, kills>>
        PROVE  Start!Inv'
    <2>1. /\ socket' = [ino |-> inode + 1, owner |-> b] /\ inode' = inode + 1
          /\ Start!Goto(b, "bound")
      BY <1>2 DEF Start!Bind
    <2>2. socket' \in Start!Path /\ socket'.ino = inode + 1 /\ socket'.owner = b
      BY <2>1 DEF Start!Path
    <2>3. Start!Typed'
      BY <1>2, <1>a, <2>1, <2>2
    <2>4. ASSUME kills = 0 PROVE Start!Inodes' /\ Start!OwnPath' /\ Start!NothingToUnlink'
      BY <1>2, <1>a, <2>1, <2>2, <2>4 DEF Start!Inodes, Start!OwnPath, Start!NothingToUnlink, Start!Serving
    <2> QED BY <1>2, <2>3, <2>4
  <1>3. ASSUME NEW b \in Broker, Start!Listen(b) PROVE Start!Inv'
    <2>0. ~Start!Serving(b) /\ kills' = kills
      BY <1>3 DEF Start!Listen, Start!Serving
    <2>1. CASE socket = Null
      BY <1>2, <1>3, <2>0, <2>1 DEF Start!Listen
    <2>2. CASE socket # Null
      <3>1. /\ ino' = [ino EXCEPT ![b] = socket.ino] /\ Start!Goto(b, "probing")
            /\ UNCHANGED <<socket, inode>>
        BY <1>3, <2>2 DEF Start!Listen
      <3>2. socket.ino \in Nat /\ socket.owner \in Broker
        BY <2>2 DEF Start!Path
      <3>3. Start!Typed'
        BY <1>a, <2>0, <3>1, <3>2
      <3>4. ASSUME kills = 0 PROVE Start!Inodes' /\ Start!OwnPath' /\ Start!NothingToUnlink'
        BY <1>a, <2>0, <2>2, <3>1, <3>2, <3>4 DEF Start!Inodes, Start!OwnPath, Start!NothingToUnlink, Start!Serving
      <3> QED BY <2>0, <3>3, <3>4
    <2> QED BY <2>1, <2>2
  <1>4. ASSUME NEW b \in Broker, Start!probeStaleSocket(b) PROVE Start!Inv'
    <2>0. pc[b] = "probing" /\ UNCHANGED <<socket, inode, ino, kills>>
      BY <1>4 DEF Start!probeStaleSocket
    <2>1. CASE Start!Reachable
      BY <1>1, <1>4, <2>0, <2>1 DEF Start!probeStaleSocket, Start!Serving
    <2>2. CASE ~Start!Reachable
      <3>1. Start!Goto(b, "recovering")
        BY <1>4, <2>2 DEF Start!probeStaleSocket
      <3>2. kills = 0 => socket = Null
        BY <2>2 DEF Start!Reachable, Start!OwnPath
      <3> QED BY <1>a, <2>0, <3>1, <3>2 DEF Start!Inodes, Start!OwnPath, Start!NothingToUnlink, Start!Serving
    <2> QED BY <2>1, <2>2
  <1>5. ASSUME NEW b \in Broker, Start!StatAgain(b) PROVE Start!Inv'
    <2>0. pc[b] = "recovering" /\ UNCHANGED <<socket, inode, ino, kills>>
      BY <1>5 DEF Start!StatAgain
    <2>1. CASE Start!Goto(b, "rebinding")
      BY <1>1, <2>0, <2>1 DEF Start!Serving
    <2>2. CASE Start!Goto(b, "unlinking") /\ socket # Null /\ socket.ino = ino[b]
      BY <1>a, <2>0, <2>2 DEF Start!NothingToUnlink
    <2> QED BY <1>5, <2>1, <2>2 DEF Start!StatAgain
  <1>6. ASSUME NEW b \in Broker, Start!Unlink(b) PROVE Start!Inv'
    BY <1>6, <1>a DEF Start!Unlink, Start!NothingToUnlink
  <1>7. ASSUME NEW b \in Broker, Start!ListenAgain(b) PROVE Start!Inv'
    <2>0. ~Start!Serving(b) /\ UNCHANGED <<ino, kills>>
      BY <1>7 DEF Start!ListenAgain, Start!Serving
    <2>1. CASE socket = Null
      BY <1>2, <1>7, <2>0, <2>1 DEF Start!ListenAgain
    <2>2. CASE socket # Null
      BY <1>1, <1>7, <2>0, <2>2 DEF Start!ListenAgain
    <2> QED BY <2>1, <2>2
  <1>8. ASSUME NEW b \in Broker, Start!writeStateFile(b) PROVE Start!Inv'
    BY <1>8, <1>a DEF Start!writeStateFile, Start!Inodes, Start!OwnPath, Start!NothingToUnlink, Start!Serving
  <1>9. ASSUME NEW b \in Broker, Start!Stop(b) PROVE Start!Inv'
    <2>1. pc[b] = "up" /\ socket' = Null /\ Start!Goto(b, "closing") /\ UNCHANGED <<inode, ino, kills>>
      BY <1>9 DEF Start!Stop
    <2> QED BY <1>a, <2>1 DEF Start!Inodes, Start!OwnPath, Start!NothingToUnlink, Start!Serving
  <1>10. ASSUME NEW b \in Broker, Start!Kill(b) PROVE Start!Inv'
    <2>1. kills' = kills + 1 /\ Start!Goto(b, "gone") /\ UNCHANGED <<socket, inode, ino>>
      BY <1>10 DEF Start!Kill
    <2> QED BY <1>a, <2>1
  <1>11. ASSUME NEW b \in Broker,
                \/ Start!OpenDatabase(b) \/ Start!Migrated(b) \/ Start!CheckSingleton(b) \/ Start!ReadOwnState(b) \/ Start!RemoveState(b)
                \/ \E c \in Client : Start!spawnDetachedBroker(c, b)
         PROVE  Start!Inv'
    <2>1. ~Start!Serving(b) /\ UNCHANGED <<socket, inode, ino, kills>>
      BY <1>11
      DEF Start!OpenDatabase, Start!Migrated, Start!CheckSingleton, Start!ReadOwnState, Start!RemoveState, Start!spawnDetachedBroker, Start!Serving
    <2>2. \E to \in {"gone", "migrating", "checking", "binding", "removing", "opening"} : Start!Goto(b, to)
      BY <1>11
      DEF Start!OpenDatabase, Start!Migrated, Start!CheckSingleton, Start!ReadOwnState, Start!RemoveState, Start!spawnDetachedBroker
    <2> QED BY <1>1, <2>1, <2>2
  <1>12. CASE UNCHANGED <<pc, socket, inode, ino, kills>>
    BY <1>12 DEF Start!Inodes, Start!OwnPath, Start!NothingToUnlink, Start!Serving
  <1>13. ASSUME NEW b \in Broker, Start!Migrate(b) PROVE Start!Inv'
    <2>1. ~Start!Serving(b) /\ UNCHANGED <<socket, inode, ino, kills>>
      BY <1>13 DEF Start!Migrate, Start!Serving
    <2>2. Start!Goto(b, "gone") \/ UNCHANGED pc
      BY <1>13 DEF Start!Migrate
    <2> QED BY <1>1, <1>12, <2>1, <2>2
  <1>14. ASSUME NEW b \in Broker, Start!Recycle(b) PROVE Start!Inv'
    BY <1>12, <1>14 DEF Start!Recycle
  <1>15. ASSUME NEW c \in Client, Start!ensureBroker(c) PROVE Start!Inv'
    <2>1. CASE \E b \in Broker : Start!spawnDetachedBroker(c, b)
      BY <1>11, <2>1
    <2>2. CASE Start!TryReuse(c) \/ Start!Consult(c) \/ Start!waitUntilReachable(c) \/ Start!GiveUp(c) \/ Start!Again(c)
      BY <1>12, <2>2 DEF Start!TryReuse, Start!Consult, Start!waitUntilReachable, Start!GiveUp, Start!Again
    <2> QED BY <1>15, <2>1, <2>2 DEF Start!ensureBroker
  <1>16. CASE UNCHANGED startVars
    BY <1>12, <1>16 DEF startVars
  <1> QED
    BY <1>3, <1>4, <1>5, <1>6, <1>7, <1>8, <1>9, <1>10, <1>11, <1>13, <1>14, <1>15, <1>16, Zenon
    DEF Start!Next, Start!BrokerStep

-----------------------------------------------------------------------------
(* Racing processes, some of which reinitialise.                           *)
Root == INSTANCE RootSecret WITH Proc <- Loader, pc <- at

(* Nobody holds a secret at first.                                         *)
LEMMA RootBegins ==
  ASSUME Root!Init
  PROVE  Root!Inv
  BY Zenon DEF Root!Init, Root!Inv, Root!TypeOK, Root!HoldersHoldTheDiskSecret, Root!Secret, Root!Pc

(* Agreement and the types, together.  The disk goes from nothing to the   *)
(* secret of the process that links first while nobody holds one; after    *)
(* that only a reinitialisation changes it.                                *)
LEMMA RootKeepsInv ==
  ASSUME Root!Inv, Root!Next \/ UNCHANGED rootVars
  PROVE  Root!Inv'
  <1> USE DEF Root!Inv, Root!TypeOK, Root!HoldersHoldTheDiskSecret
  <1>0. Loader \cap {Root!None, Root!Malformed, Root!Old} = {}
    BY SecretAssumption DEF Root!None, Root!Malformed, Root!Old
  <1>1. CASE UNCHANGED rootVars
    BY <1>1 DEF rootVars
  <1>2. ASSUME NEW p \in Loader, NEW absent \in Root!Pc, Root!tryReadSecret(p, absent), disk' = disk
        PROVE  /\ at' \in [Loader -> Root!Pc] /\ mem' \in [Loader -> Root!Secret \cup {Root!None}]
               /\ Root!HoldersHoldTheDiskSecret'
    BY <1>2 DEF Root!tryReadSecret, Root!Goto, Root!Return, Root!Pc
  <1>3. ASSUME NEW p \in Loader, Root!ReadHot(p) PROVE Root!Inv'
    BY <1>2, <1>3, Zenon DEF Root!ReadHot, Root!hardenDir, Root!Goto, Root!Pc
  <1>4. ASSUME NEW p \in Loader, Root!Recover(p) PROVE Root!Inv'
    BY <1>2, <1>4, Zenon DEF Root!Recover, Root!hardenDir, Root!Goto, Root!Pc
  <1>5. ASSUME NEW p \in Loader, Root!Create(p) PROVE Root!Inv'
    <2>1. CASE p \in Forcers /\ disk' = p /\ Root!Return(p, p)
      BY <1>5, <2>1 DEF Root!Create, Root!Return, Root!Secret, Root!Pc
    <2>2. CASE disk = Root!None /\ disk' = p /\ Root!Return(p, p)
      <3>1. \A q \in Loader : mem[q] = Root!None
        BY <1>0, <2>2, ForcersAssumption
      <3> QED BY <1>5, <2>2, <3>1 DEF Root!Create, Root!Return, Root!Secret, Root!Pc
    <2>3. CASE disk' = disk /\ Root!Goto(p, "adopt")
      BY <1>5, <2>3 DEF Root!Create, Root!Goto, Root!Pc
    <2> QED BY <1>5, <2>1, <2>2, <2>3 DEF Root!Create, Root!writeSecretExclusive
  <1>6. ASSUME NEW p \in Loader, Root!Adopt(p) PROVE Root!Inv'
    BY <1>6 DEF Root!Adopt, Root!Goto, Root!Return, Root!Pc
  <1>7. ASSUME NEW p \in Loader, Root!Restart(p) PROVE Root!Inv'
    BY <1>7 DEF Root!Restart, Root!Pc
  <1> QED BY <1>1, <1>3, <1>4, <1>5, <1>6, <1>7 DEF Root!Next

(* Only the create branch writes the file, and without forceReinit only    *)
(* where there is none.                                                    *)
LEMMA RootReplacesByForce ==
  ASSUME Root!Next \/ UNCHANGED rootVars
  PROVE  Root!OnlyForceReplacesStep
  BY DEF rootVars, Root!Next, Root!ReadHot, Root!Recover, Root!Create, Root!writeSecretExclusive,
     Root!Adopt, Root!Restart, Root!OnlyForceReplacesStep

-----------------------------------------------------------------------------
(* One MCP server that is not killed while it saves; several with lost     *)
(* answers and kills.                                                      *)
Alone == INSTANCE OwnerSecrets WITH
  Proc <- {Single}, None <- Null, Overlap <- FALSE, Faults <- FALSE,
  up <- registered, file <- saved

Both == INSTANCE OwnerSecrets WITH
  Proc <- Pair, Name <- PairName, None <- Null, Overlap <- FALSE, Faults <- TRUE, MaxAcks <- MaxPairAcks,
  up <- registered, file <- saved

-----------------------------------------------------------------------------
(* The parts that rest do so in one initial state.                         *)
Init ==
  /\ component \in {"start", "stop", "root", "alone", "both", "children", "sessions", "routes"}
  /\ Start!Init /\ Halt!Init /\ Root!Init /\ Children!Init /\ Sessions!Init /\ Routes!Init
  /\ IF component = "both" THEN Both!Init ELSE Alone!Init
  /\ component # "start" => schema = 0
  /\ component # "stop" => foreign = {}
  /\ component # "root" => disk = Root!None
  /\ component \notin {"alone", "both"} => requested[Single] = CHOOSE n \in Name : TRUE
  /\ component # "sessions" => transcript = {}

StartStep ==
  component = "start" /\ Start!Next
    /\ UNCHANGED <<component, stopVars, rootVars, ownerVars, childVars, sessionVars, routeVars>>

StopStep ==
  component = "stop" /\ Halt!Next
    /\ UNCHANGED <<component, startVars, rootVars, ownerVars, childVars, sessionVars, routeVars>>

RootStep ==
  component = "root" /\ Root!Next
    /\ UNCHANGED <<component, startVars, stopVars, ownerVars, childVars, sessionVars, routeVars>>

OwnerStep ==
  /\ \/ component = "alone" /\ Alone!Next
     \/ component = "both" /\ Both!Next
  /\ UNCHANGED <<component, startVars, stopVars, rootVars, childVars, sessionVars, routeVars>>

ChildStep ==
  component = "children" /\ Children!Next
    /\ UNCHANGED <<component, startVars, stopVars, rootVars, ownerVars, sessionVars, routeVars>>

SessionStep ==
  component = "sessions" /\ Sessions!Next
    /\ UNCHANGED <<component, startVars, stopVars, rootVars, ownerVars, childVars, routeVars>>

RouteStep ==
  component = "routes" /\ Routes!Next
    /\ UNCHANGED <<component, startVars, stopVars, rootVars, ownerVars, childVars, sessionVars>>

Next == StartStep \/ StopStep \/ RootStep \/ OwnerStep \/ ChildStep \/ SessionStep \/ RouteStep

Spec == Init /\ [][Next]_vars

-----------------------------------------------------------------------------
(* Properties.                                                             *)

(* As long as no broker is killed, never more than one serves, whatever    *)
(* clients, starters and stopping brokers do between two system calls      *)
(* (ensure.ts, singleton.ts, ipc/server.ts).                               *)
AtMostOneServing == component = "start" /\ kills = 0 => Start!AtMostOneServing

(* `xbus stop` and the installer (main.ts, host.ts) signal a pid only      *)
(* after it was proved to be that of a live broker of this user, and a     *)
(* broker that shuts down over IPC is one whose instance id they had read, *)
(* also when brokers are replaced in between.                              *)
StopsOnlyProven == component = "stop" => Halt!SignalsOnlyProven /\ Halt!StopsOnlyNamed

(* However many processes race to create the root secret, and wherever     *)
(* they crash, each that returns holds the bytes on disk, unless one that  *)
(* was told to reinitialise has replaced them since (root-secret.ts); and  *)
(* a secret on disk, a malformed one included, is replaced only by such a  *)
(* process.                                                                *)
HoldersHoldTheDiskSecret ==
  [][component = "root" => Root!HoldersHoldTheDiskSecret' /\ Root!OnlyForceReplacesStep]_vars

(* When an MCP server has saved what it was told, its secret is on file    *)
(* under the name it holds; the files are whole whoever is killed where,   *)
(* and the durable name never goes back to an older one                    *)
(* (owner-secret-store.ts).                                                *)
SecretFollowsName ==
  [][/\ component = "alone" => Alone!SecretFollowsName'
     /\ component = "both" => Both!FilesAreWhole' /\ Both!NewerNameStaysStep]_vars

(* A stop of a managed session (daemon.ts) signals a child launched for    *)
(* that session, never another process that has its pid by now, and a      *)
(* handle is of a process that has not been reaped.                        *)
KillsOnlyItsChild ==
  component = "children" => Children!KillsOnlyItsChild /\ Children!HandleIsOfAProcess

(* Copies of the hook, repeated starts, imports and restarts (store.ts,    *)
(* session-import.ts) record one birth per session; a session labelled     *)
(* ready can be addressed; what clears an expiry restores the whole        *)
(* session; and an import neither takes a session back to dormant nor      *)
(* lowers its epoch.                                                       *)
SessionsAreSound ==
  [][component = "sessions" =>
       /\ Sessions!OneBirth' /\ Sessions!ReadyIsAddressable'
       /\ Sessions!ResurrectionIsCompleteStep /\ Sessions!ImportSparesKnownStep]_vars

(* A session counts as ready only on a signal of its current epoch: not on *)
(* one its former owner gave before, or gives after, a takeover, a resume  *)
(* or a restart of the broker (signalReadiness, register).                 *)
ReadyWasSignalled == component = "routes" => Routes!ReadyWasSignalled

(* A session the daemon lists with a consumption path has one that the     *)
(* gates of processNext and checkpointPull let pass, and the dashboard,    *)
(* which decodes the receive control on its own, lists it in the same      *)
(* class (routing-class.ts, daemon.ts, read-model.ts).                     *)
ReportsAreTrue == component = "routes" => Routes!PathCanBePulled /\ Routes!ListAgreesWithDashboard

-----------------------------------------------------------------------------
(* Theorems.                                                               *)

(* A step of the composition is a step of the part that was picked, and    *)
(* leaves the variables of the others alone.                               *)
LEMMA RunsAlone ==
  ASSUME [Next]_vars
  PROVE  /\ component' = component
         /\ component = "start" => Start!Next \/ UNCHANGED startVars
         /\ component = "stop" => Halt!Next \/ UNCHANGED stopVars
         /\ component = "root" => Root!Next \/ UNCHANGED rootVars
         /\ component = "alone" => Alone!Next \/ UNCHANGED ownerVars
         /\ component = "both" => Both!Next \/ UNCHANGED ownerVars
         /\ component = "children" => Children!Next \/ UNCHANGED childVars
         /\ component = "sessions" => Sessions!Next \/ UNCHANGED sessionVars
         /\ component = "routes" => Routes!Next \/ UNCHANGED routeVars
  <1>1. CASE UNCHANGED vars
    BY <1>1, SMTT(60) DEF vars
  <1>2. CASE Next
    BY <1>2 DEF Next, StartStep, StopStep, RootStep, OwnerStep, ChildStep, SessionStep, RouteStep
  <1> QED BY <1>1, <1>2

(* As long as no broker was killed, at most one serves, for any number of  *)
(* broker processes, clients and graceful stops, whatever they do between  *)
(* two system calls.                                                       *)
THEOREM OneServes == Spec => []AtMostOneServing
  <1> DEFINE Inv == component = "start" => Start!Inv
  <1>1. Init => Inv
    BY StartBegins DEF Init
  <1>2. ASSUME Inv, [Next]_vars PROVE Inv'
    BY <1>2, RunsAlone, StartKeepsInv
  <1>3. Inv => AtMostOneServing
    BY DEF Start!Inv, Start!OwnPath, Start!AtMostOneServing, AtMostOneServing
  <1> QED BY <1>1, <1>2, <1>3, PTL DEF Spec

(* Whatever brokers start, end and have their pids recycled in between,    *)
(* and however many callers act at once, a pid is signalled only after it  *)
(* was proved to be a live broker of this user, and the frame stops only a *)
(* broker whose instance id a caller had read.                             *)
THEOREM StopsOnlyWhatWasProven == Spec => []StopsOnlyProven
  <1> DEFINE Inv == component = "stop" => Halt!Inv
  <1>1. Init => Inv
    BY HaltBegins DEF Init
  <1>2. ASSUME Inv, [Next]_vars PROVE Inv'
    BY <1>2, RunsAlone, HaltKeepsInv
  <1>3. Inv => StopsOnlyProven
    BY DEF Halt!Inv, StopsOnlyProven
  <1> QED BY <1>1, <1>2, <1>3, PTL DEF Spec

(* However many processes load the secret at once, and wherever they are   *)
(* killed and started again, every one that has a secret has the one that  *)
(* is on disk: link creates the file for one of them only, and the others  *)
(* adopt what they find.  What is there is replaced, malformed or not,     *)
(* only by a process that was told to reinitialise.                        *)
THEOREM HoldersAgree == Spec => HoldersHoldTheDiskSecret
  <1> DEFINE Inv == component = "root" => Root!Inv
  <1>1. Init => Inv
    BY RootBegins DEF Init
  <1>2. ASSUME Inv, [Next]_vars PROVE Inv'
    BY <1>2, RunsAlone, RootKeepsInv
  <1>3. ASSUME Inv, Inv', [Next]_vars
        PROVE  component = "root" => Root!HoldersHoldTheDiskSecret' /\ Root!OnlyForceReplacesStep
    BY <1>3, RunsAlone, RootReplacesByForce DEF Root!Inv
  <1> QED BY <1>1, <1>2, <1>3, PTL DEF Spec, HoldersHoldTheDiskSecret

(* A stop signals only a child launched for the session it names, and a    *)
(* handle is of a process that has not been reaped, for any number of      *)
(* sessions, children and restarts and any reuse of pids.                  *)
THEOREM StopHitsItsChild == Spec => []KillsOnlyItsChild
  <1> DEFINE Inv == component = "children" => Children!Inv
  <1>1. Init => Inv
    BY ChildrenBegin DEF Init
  <1>2. ASSUME Inv, [Next]_vars PROVE Inv'
    BY <1>2, RunsAlone, ChildrenKeepInv
  <1>3. Inv => KillsOnlyItsChild
    BY ChildrenAreHit DEF KillsOnlyItsChild
  <1> QED BY <1>1, <1>2, <1>3, PTL DEF Spec

(* SessionsAreSound holds of every step, for any number of sessions and    *)
(* hooks and any bounds: one birth per session, ready sessions have their  *)
(* alias, what clears an expiry restores all of it, and no import takes a  *)
(* session back.                                                           *)
THEOREM SessionsStaySound == Spec => SessionsAreSound
  <1> DEFINE I == component = "sessions" => Sessions!Inv
  <1>1. Init => I
    BY SessionsBegin DEF Init
  <1>2. ASSUME I, [Next]_vars
        PROVE  /\ I'
               /\ component = "sessions" =>
                    /\ Sessions!OneBirth' /\ Sessions!ReadyIsAddressable'
                    /\ Sessions!ResurrectionIsCompleteStep /\ Sessions!ImportSparesKnownStep
    BY <1>2, RunsAlone, SessionsKeepInv
  <1> QED BY <1>1, <1>2, PTL DEF Spec, SessionsAreSound

(* No session counts as ready on the word of a former owner, whatever the  *)
(* number of connections, takeovers, resumes and restarts.                 *)
THEOREM ReadinessIsCurrent == Spec => []ReadyWasSignalled
  <1> DEFINE Inv == component = "routes" => Routes!Inv
  <1>1. Init => Inv
    BY RoutesBegin DEF Init
  <1>2. ASSUME Inv, [Next]_vars PROVE Inv'
    BY <1>2, RunsAlone, RoutesKeepInv
  <1>3. Inv => ReadyWasSignalled
    BY DEF Routes!Inv, ReadyWasSignalled
  <1> QED BY <1>1, <1>2, <1>3, PTL DEF Spec

(* A reported consumption path passes the gates of the pulls, and the      *)
(* daemon's list and the dashboard's agree on every session.               *)
THEOREM ReportedPathIsOpen == Spec => []ReportsAreTrue
  <1> DEFINE Inv == component = "routes" => Routes!Inv
  <1>1. Init => Inv
    BY RoutesBegin DEF Init
  <1>2. ASSUME Inv, [Next]_vars PROVE Inv'
    BY <1>2, RunsAlone, RoutesKeepInv
  <1>3. Inv => ReportsAreTrue
    BY ReportsFollow DEF ReportsAreTrue
  <1> QED BY <1>1, <1>2, <1>3, PTL DEF Spec

(* SecretFollowsName holds of every step: for a server alone, over any     *)
(* names, and for any number of servers that lose answers and are killed,  *)
(* as long as their saves do not overlap.  Saves are ordered by OneWriter; *)
(* Kept relates what a server asks for, holds and has on file.             *)
THEOREM SecretsFollowNames == Spec => SecretFollowsName
  <1> DEFINE A == component = "alone" => Alone!Inv /\ Alone!Kept(Single)
             B == component = "both" => Both!Inv
  <1>0. Single # Null /\ Null \notin Name
    BY NullAssumption
  <1>1. Init => A /\ B
    <2> SUFFICES ASSUME Init PROVE A /\ B
      OBVIOUS
    <2>1. ASSUME component = "alone" PROVE Alone!Inv /\ Alone!Kept(Single)
      <3>0. Alone!Init
        BY <2>1 DEF Init
      <3> QED BY <1>0, <3>0, Alone!InitInv
    <2>2. ASSUME component = "both" PROVE Both!Inv
      <3>0. Both!Init
        BY <2>2 DEF Init
      <3> QED BY <3>0, Both!InitInv
    <2> QED BY <2>1, <2>2
  <1>2. ASSUME A, B, [Next]_vars
        PROVE  /\ A' /\ B'
               /\ component = "alone" => Alone!SecretFollowsName'
               /\ component = "both" => Both!FilesAreWhole' /\ Both!NewerNameStaysStep
    <2>1. ASSUME component = "alone" PROVE Alone!Inv' /\ Alone!Kept(Single)' /\ Alone!SecretFollowsName'
      <3>1. Alone!Next \/ UNCHANGED Alone!vars
        BY <1>2, <2>1, RunsAlone DEF ownerVars, Alone!vars
      <3>2. Alone!Inv'
        BY <1>2, <2>1, <3>1, Alone!StepKeepsInv
      <3>3. Alone!Kept(Single)'
        BY <1>0, <1>2, <2>1, <3>1, <3>2, Alone!StepKeepsKept, SMTT(60)
      <3>4. registered' \subseteq {Single}
        BY <3>2 DEF Alone!Inv, Alone!TypeOK
      <3> QED BY <3>2, <3>3, <3>4, ZenonT(60) DEF Alone!Kept, Alone!SecretFollowsName
    <2>2. ASSUME component = "both" PROVE Both!Inv' /\ Both!FilesAreWhole' /\ Both!NewerNameStaysStep
      <3>1. Both!Next \/ UNCHANGED Both!vars
        BY <1>2, <2>2, RunsAlone DEF ownerVars, Both!vars
      <3>2. Both!Inv'
        BY <1>2, <2>2, <3>1, Both!StepKeepsInv
      <3>3. Both!NewerNameStaysStep
        BY <1>2, <2>2, <3>1, Both!StepKeepsNewerName
      <3> QED BY <3>2, <3>3 DEF Both!Inv
    <2>3. component' = component
      BY <1>2, RunsAlone
    <2> QED BY <2>1, <2>2, <2>3, SMTT(60)
  <1>3. A /\ B /\ [Next]_vars
        => [/\ component = "alone" => Alone!SecretFollowsName'
            /\ component = "both" => Both!FilesAreWhole' /\ Both!NewerNameStaysStep]_vars
    BY <1>2
  <1>4. A /\ B /\ [Next]_vars => A' /\ B'
    BY <1>2
  <1> QED BY <1>1, <1>3, <1>4, PTL DEF Spec, SecretFollowsName
=============================================================================
