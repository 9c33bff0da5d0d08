------------------------------ MODULE Startup ------------------------------
(***************************************************************************)
(* How clients bring a broker up (broker/ensure.ts), how a broker process  *)
(* becomes the one that serves the data directory (broker/host.ts,         *)
(* broker/singleton.ts, the bind of ipc/server.ts, the migration runner)   *)
(* and how it leaves.  Processes interleave between any two system calls   *)
(* on what they share: the socket path, the state file and the database.   *)
(*                                                                         *)
(* The endpoint is a Unix socket.  Its inode numbers are taken to be fresh;*)
(* a file system that reuses them is worse than this model.                *)
(***************************************************************************)
EXTENDS Naturals

CONSTANTS
  Broker,      \* broker processes, each started at most once
  Client,      \* hooks, MCP servers and commands that call ensureBroker
  None,
  Version,     \* schema versions of the builds: 1 .. n
  MaxKill,     \* bound: hard kills of a broker
  MaxStop,     \* bound: graceful stops
  Impatient    \* whether a client may give up while a broker is still starting

VARIABLES
  pc,          \* where each broker process is
  build,       \* the schema version of its build
  seen,        \* the schema it found when it opened the database
  schema,      \* the schema version of the database
  socket,      \* what the socket path holds: None or [ino, owner]
  inode,       \* inodes handed out
  ino,         \* the inode a recovering broker captured
  file,        \* the broker the state file names, or None
  recycled,    \* brokers whose pid now belongs to another process
  client,      \* where each call of ensureBroker is
  kills, stops

vars == <<pc, build, seen, schema, socket, inode, ino, file, recycled, client, kills, stops>>

Serving(b) == pc[b] \in {"bound", "up"}
Starting(b) == pc[b] \in {"opening", "migrating", "checking", "binding", "probing", "recovering", "unlinking", "rebinding"}
Alive(b) == pc[b] \notin {"unborn", "gone"}

Init ==
  /\ pc = [b \in Broker |-> "unborn"]
  /\ build \in [Broker -> Version]
  /\ seen = [b \in Broker |-> 0]
  /\ schema \in {0} \cup Version
  /\ socket = None /\ inode = 0 /\ ino = [b \in Broker |-> None]
  /\ file = None /\ recycled = {}
  /\ client = [c \in Client |-> "idle"]
  /\ kills = 0 /\ stops = 0

(* A connection succeeds when the owner of the socket still listens on it. *)
Reachable == socket # None /\ Serving(socket.owner)

Goto(b, to) == pc' = [pc EXCEPT ![b] = to]
Call(c, to) == client' = [client EXCEPT ![c] = to]

-----------------------------------------------------------------------------
(* The broker process: startBrokerHost.                                    *)

(* runMigrations reads what is applied; a newer schema is refused.         *)
OpenDatabase(b) ==
  /\ pc[b] = "opening"
  /\ seen' = [seen EXCEPT ![b] = schema]
  /\ Goto(b, IF schema > build[b] THEN "gone" ELSE "migrating")
  /\ UNCHANGED <<build, schema, socket, inode, ino, file, recycled, client, kills, stops>>

(* One migration, one transaction; it fails when another process applied   *)
(* it in the meantime.                                                     *)
Migrate(b) ==
  /\ pc[b] = "migrating" /\ seen[b] < build[b]
  /\ IF schema > seen[b]
     THEN Goto(b, "gone") /\ UNCHANGED <<schema, seen>>
     ELSE /\ schema' = seen[b] + 1
          /\ seen' = [seen EXCEPT ![b] = @ + 1]
          /\ UNCHANGED pc
  /\ UNCHANGED <<build, socket, inode, ino, file, recycled, client, kills, stops>>

Migrated(b) ==
  /\ pc[b] = "migrating" /\ seen[b] = build[b]
  /\ Goto(b, "checking")
  /\ UNCHANGED <<build, seen, schema, socket, inode, ino, file, recycled, client, kills, stops>>

(* checkSingleton of the host: only an answer on the endpoint stops it.    *)
CheckSingleton(b) ==
  /\ pc[b] = "checking"
  /\ Goto(b, IF Reachable THEN "gone" ELSE "binding")
  /\ UNCHANGED <<build, seen, schema, socket, inode, ino, file, recycled, client, kills, stops>>

Bind(b) ==
  /\ socket' = [ino |-> inode + 1, owner |-> b]
  /\ inode' = inode + 1
  /\ Goto(b, "bound")

(* listenOnce: bind; on a path in use, capture its inode and probe.        *)
Listen(b) ==
  /\ pc[b] = "binding"
  /\ IF socket = None
     THEN Bind(b) /\ UNCHANGED ino
     ELSE /\ ino' = [ino EXCEPT ![b] = socket.ino]
          /\ Goto(b, "probing")
          /\ UNCHANGED <<socket, inode>>
  /\ UNCHANGED <<build, seen, schema, file, recycled, client, kills, stops>>

(* Mutant: the path is taken for stale without a probe.                    *)
MutProbeStaleSocket(b) ==
  /\ pc[b] = "probing"
  /\ Goto(b, "recovering")
  /\ UNCHANGED <<build, seen, schema, socket, inode, ino, file, recycled, client, kills, stops>>

probeStaleSocket(b) ==
  /\ pc[b] = "probing"
  /\ Goto(b, IF Reachable THEN "gone" ELSE "recovering")
  /\ UNCHANGED <<build, seen, schema, socket, inode, ino, file, recycled, client, kills, stops>>

(* The second stat: unlink only what is still the inode that was probed.   *)
StatAgain(b) ==
  /\ pc[b] = "recovering"
  /\ Goto(b, IF socket # None /\ socket.ino = ino[b] THEN "unlinking" ELSE "rebinding")
  /\ UNCHANGED <<build, seen, schema, socket, inode, ino, file, recycled, client, kills, stops>>

(* The unlink goes by path.                                                *)
Unlink(b) ==
  /\ pc[b] = "unlinking"
  /\ socket' = None
  /\ Goto(b, "rebinding")
  /\ UNCHANGED <<build, seen, schema, inode, ino, file, recycled, client, kills, stops>>

(* The retry: no further recovery.                                         *)
ListenAgain(b) ==
  /\ pc[b] = "rebinding"
  /\ IF socket = None THEN Bind(b) ELSE Goto(b, "gone") /\ UNCHANGED <<socket, inode>>
  /\ UNCHANGED <<build, seen, schema, ino, file, recycled, client, kills, stops>>

writeStateFile(b) ==
  /\ pc[b] = "bound"
  /\ file' = b
  /\ Goto(b, "up")
  /\ UNCHANGED <<build, seen, schema, socket, inode, ino, recycled, client, kills, stops>>

(* A graceful stop closes the listener, which unlinks the socket path.     *)
Stop(b) ==
  /\ pc[b] = "up" /\ stops < MaxStop
  /\ stops' = stops + 1
  /\ socket' = None
  /\ Goto(b, "closing")
  /\ UNCHANGED <<build, seen, schema, inode, ino, file, recycled, client, kills>>

(* removeStateFileIfOwned reads the file and then unlinks the path.        *)
ReadOwnState(b) ==
  /\ pc[b] = "closing"
  /\ Goto(b, IF file = b THEN "removing" ELSE "gone")
  /\ UNCHANGED <<build, seen, schema, socket, inode, ino, file, recycled, client, kills, stops>>

RemoveState(b) ==
  /\ pc[b] = "removing"
  /\ file' = None
  /\ Goto(b, "gone")
  /\ UNCHANGED <<build, seen, schema, socket, inode, ino, recycled, client, kills, stops>>

(* A hard kill leaves the socket path and the state file behind.           *)
Kill(b) ==
  /\ Serving(b) /\ kills < MaxKill
  /\ kills' = kills + 1
  /\ Goto(b, "gone")
  /\ UNCHANGED <<build, seen, schema, socket, inode, ino, file, recycled, client, stops>>

(* The system gives the pid of a dead broker to another process.           *)
Recycle(b) ==
  /\ pc[b] = "gone" /\ file = b /\ b \notin recycled
  /\ recycled' = recycled \cup {b}
  /\ UNCHANGED <<pc, build, seen, schema, socket, inode, ino, file, client, kills, stops>>

-----------------------------------------------------------------------------
(* The client: ensureBroker.                                               *)

(* A new call; the first probe reuses a broker that answers.               *)
TryReuse(c) ==
  /\ client[c] \in {"idle", "degraded"}
  /\ Call(c, IF Reachable THEN "ok" ELSE "checking")
  /\ UNCHANGED <<pc, build, seen, schema, socket, inode, ino, file, recycled, kills, stops>>

(* Mutant: a live pid is taken for the broker.                             *)
MutClassifyLiveness(b) == IF Alive(b) \/ b \in recycled THEN "proven_live_broker" ELSE "proven_dead_or_recycled"

(* classifyLiveness with both creation times at hand.                      *)
classifyLiveness(b) == IF Alive(b) THEN "proven_live_broker" ELSE "proven_dead_or_recycled"

checkSingleton ==
  CASE Reachable -> "already_running"
    [] ~Reachable /\ file = None -> "acquired"
    [] ~Reachable /\ file # None -> IF classifyLiveness(file) = "proven_dead_or_recycled" THEN "stale_cleared" ELSE "contended"

Consult(c) ==
  /\ client[c] = "checking"
  /\ Call(c, IF checkSingleton \in {"already_running", "contended"} THEN "waiting" ELSE "spawning")
  /\ UNCHANGED <<pc, build, seen, schema, socket, inode, ino, file, recycled, kills, stops>>

spawnDetachedBroker(c, b) ==
  /\ client[c] = "spawning" /\ pc[b] = "unborn"
  /\ Goto(b, "opening")
  /\ Call(c, "waiting")
  /\ UNCHANGED <<build, seen, schema, socket, inode, ino, file, recycled, kills, stops>>

waitUntilReachable(c) ==
  /\ client[c] = "waiting" /\ Reachable
  /\ Call(c, "ok")
  /\ UNCHANGED <<pc, build, seen, schema, socket, inode, ino, file, recycled, kills, stops>>

(* The deadline passes; the call is degraded and a later one tries again.  *)
GiveUp(c) ==
  /\ client[c] = "waiting" /\ ~Reachable
  /\ Impatient \/ ~\E b \in Broker : Starting(b)
  /\ Call(c, "degraded")
  /\ UNCHANGED <<pc, build, seen, schema, socket, inode, ino, file, recycled, kills, stops>>

(* The session ends and another begins.                                    *)
Again(c) ==
  /\ client[c] = "ok"
  /\ Call(c, "idle")
  /\ UNCHANGED <<pc, build, seen, schema, socket, inode, ino, file, recycled, kills, stops>>

-----------------------------------------------------------------------------

BrokerStep(b) ==
  \/ OpenDatabase(b) \/ Migrate(b) \/ Migrated(b) \/ CheckSingleton(b)
  \/ Listen(b) \/ probeStaleSocket(b) \/ StatAgain(b) \/ Unlink(b) \/ ListenAgain(b)
  \/ writeStateFile(b) \/ ReadOwnState(b) \/ RemoveState(b)

ensureBroker(c) ==
  \/ TryReuse(c) \/ Consult(c) \/ waitUntilReachable(c) \/ GiveUp(c) \/ Again(c)
  \/ \E b \in Broker : spawnDetachedBroker(c, b)

Next ==
  \/ \E b \in Broker : BrokerStep(b) \/ Stop(b) \/ Kill(b) \/ Recycle(b)
  \/ \E c \in Client : ensureBroker(c)

Spec == Init /\ [][Next]_vars

(* Processes that run are scheduled, and sessions keep being started.      *)
Fair == /\ \A b \in Broker : WF_vars(BrokerStep(b))
        /\ \A c \in Client : WF_vars(ensureBroker(c))

FairSpec == Spec /\ Fair

-----------------------------------------------------------------------------

(* As long as no broker is killed, never more than one serves, whatever    *)
(* clients, starters and stopping brokers do between two system calls.     *)
AtMostOneServing == \A b, o \in Broker : Serving(b) /\ Serving(o) => b = o

(* After a hard kill, with its socket and state file left behind and its   *)
(* pid perhaps recycled, the next sessions bring a broker up again.        *)
AutoStartRecovers == []<>Reachable

-----------------------------------------------------------------------------
(* What the repository says and the code does not do.                      *)

(* "we never end up with two live brokers".                                *)
NeverTwoBrokers == AtMostOneServing

(* The state file is written "so `xbus stop` can target this broker".      *)
StateFileNamesServer == \A b \in Broker : pc[b] = "up" => file # None

(* "Running old code against a database an upgraded build already migrated *)
(* forward risks silent corruption".                                       *)
NoOldCodeOnNewSchema == \A b \in Broker : Serving(b) => schema <= build[b]

-----------------------------------------------------------------------------
(* Why one broker serves.  As long as none was killed, the socket path     *)
(* belongs to a broker that listens on it, so a probe that fails has found *)
(* the path gone; a path that appears later has a new inode, and the       *)
(* second stat keeps the recovering broker from unlinking it.              *)
State ==
  {"unborn", "opening", "migrating", "checking", "binding", "probing", "recovering", "unlinking",
   "rebinding", "bound", "up", "closing", "removing", "gone"}

Path == [ino : Nat, owner : Broker]

Typed ==
  /\ pc \in [Broker -> State]
  /\ inode \in Nat /\ kills \in Nat
  /\ socket \in Path \cup {None}
  /\ ino \in [Broker -> Nat \cup {None}]

Inodes ==
  /\ socket # None => socket.ino <= inode
  /\ \A b \in Broker : pc[b] \in {"probing", "recovering"} => ino[b] \in Nat /\ ino[b] <= inode

OwnPath ==
  /\ socket # None => Serving(socket.owner)
  /\ \A b \in Broker : Serving(b) => socket # None /\ socket.owner = b

NothingToUnlink ==
  \A b \in Broker : /\ pc[b] # "unlinking"
                    /\ pc[b] = "recovering" => socket = None \/ socket.ino # ino[b]

Inv == Typed /\ (kills = 0 => Inodes /\ OwnPath /\ NothingToUnlink)
=============================================================================
