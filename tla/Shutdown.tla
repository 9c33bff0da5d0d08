------------------------------ MODULE Shutdown ------------------------------
(***************************************************************************)
(* How a broker is stopped: `xbus stop` (cli/main.ts) and the installer    *)
(* (cli/install.ts) classify what the state file names, ask over IPC, and  *)
(* fall back to a signal.  Meanwhile brokers start, lose their socket, end *)
(* and have their pid given to another process.  Starting is Startup's     *)
(* subject and is one step here.                                           *)
(***************************************************************************)
EXTENDS Naturals

CONSTANTS
  Broker,      \* broker processes, each with its own pid and instance id
  Stop, Setup, \* callers: `xbus stop`, and the installer before an upgrade
  None,
  MaxKill      \* bound: brokers that end without cleaning up

VARIABLES
  life,        \* of each broker process
  foreign,     \* brokers of another user of the system
  marked,      \* whether its creation time could be read when it started
  file,        \* the broker the state file names, or None
  recycled,    \* brokers whose pid another process has
  caller,      \* [at, pid, name] of each caller
  named,       \* brokers whose instance id a caller read (no code reads it)
  proven,      \* brokers a caller proved to be live (no code reads it)
  signalled,   \* pids a SIGTERM was sent to, with what had the pid
  kills

vars == <<life, foreign, marked, file, recycled, caller, named, proven, signalled, kills>>

Caller == Stop \cup Setup
Idle == [at |-> "idle", pid |-> None, name |-> None]
Serving(b) == life[b] \in {"bound", "up"}
Running(b) == life[b] \notin {"unborn", "gone"}
pidIsAlive(b) == Running(b) \/ b \in recycled

Init ==
  /\ life = [b \in Broker |-> "unborn"]
  /\ foreign \in SUBSET Broker
  /\ marked = {} /\ file = None /\ recycled = {}
  /\ caller = [c \in Caller |-> Idle]
  /\ named = {} /\ proven = {} /\ signalled = {} /\ kills = 0

Become(b, l) == life' = [life EXCEPT ![b] = l]
Goto(c, at) == caller' = [caller EXCEPT ![c].at = at]

-----------------------------------------------------------------------------
(* Broker processes.                                                       *)

(* A broker that was started binds the endpoint nobody serves.             *)
StartBroker(b) ==
  /\ life[b] = "unborn" /\ ~\E o \in Broker : Serving(o)
  /\ Become(b, "bound")
  /\ UNCHANGED <<foreign, marked, file, recycled, caller, named, proven, signalled, kills>>

(* The state file, with the creation time if the system gave it.           *)
WriteState(b) ==
  /\ life[b] = "bound"
  /\ Become(b, "up")
  /\ file' = b
  /\ \E known \in BOOLEAN : marked' = IF known THEN marked \cup {b} ELSE marked
  /\ UNCHANGED <<foreign, recycled, caller, named, proven, signalled, kills>>

(* Its socket path is unlinked, or it no longer answers in time.           *)
BecomeUnreachable(b) ==
  /\ life[b] = "up"
  /\ Become(b, "unreachable")
  /\ UNCHANGED <<foreign, marked, file, recycled, caller, named, proven, signalled, kills>>

(* doStop, after an IPC shutdown or a SIGTERM.                             *)
DoStop(b) ==
  /\ life[b] \in {"closing", "terminated"}
  /\ Become(b, "gone")
  /\ file' = IF file = b THEN None ELSE file
  /\ UNCHANGED <<foreign, marked, recycled, caller, named, proven, signalled, kills>>

EndWithoutCleanup(b) ==
  /\ Running(b) /\ kills < MaxKill
  /\ kills' = kills + 1
  /\ Become(b, "gone")
  /\ UNCHANGED <<foreign, marked, file, recycled, caller, named, proven, signalled>>

RecyclePid(b) ==
  /\ life[b] = "gone" /\ b \notin recycled
  /\ recycled' = recycled \cup {b}
  /\ UNCHANGED <<life, foreign, marked, file, caller, named, proven, signalled, kills>>

-----------------------------------------------------------------------------
(* The callers.                                                            *)


(* Only the creation time arm is wired: no caller passes a handshake.      *)
classifyLiveness(b) ==
  CASE ~pidIsAlive(b) -> "proven_dead_or_recycled"
    [] pidIsAlive(b) /\ b \in marked -> IF Running(b) THEN "proven_live_broker" ELSE "proven_dead_or_recycled"
    [] pidIsAlive(b) /\ b \notin marked -> "inconclusive"

classifyShutdown ==
  CASE file = None -> "none"
    [] file \in foreign -> "refuse"
    [] file \in Broker \ foreign /\ classifyLiveness(file) = "proven_dead_or_recycled" -> "stale"
    [] file \in Broker \ foreign /\ classifyLiveness(file) = "inconclusive" -> "refuse"
    [] file \in Broker \ foreign /\ classifyLiveness(file) = "proven_live_broker" -> "ipc"

Classify(c) ==
  /\ caller[c].at = "idle"
  /\ caller' = [caller EXCEPT ![c] = [at |-> classifyShutdown, pid |-> file, name |-> None]]
  /\ proven' = IF classifyShutdown = "ipc" /\ Running(file) THEN proven \cup {file} ELSE proven
  /\ UNCHANGED <<life, foreign, marked, file, recycled, named, signalled, kills>>

(* Nothing runs: a stale state file is unlinked, by path.                  *)
NothingToStop(c) ==
  /\ caller[c].at \in {"none", "stale"}
  /\ file' = IF caller[c].at = "stale" THEN None ELSE file
  /\ Goto(c, "free")
  /\ UNCHANGED <<life, foreign, marked, recycled, named, proven, signalled, kills>>

Refuse(c) ==
  /\ caller[c].at = "refuse"
  /\ Goto(c, "refused")
  /\ UNCHANGED <<life, foreign, marked, file, recycled, named, proven, signalled, kills>>

(* The instance id is read from the state file a second time.              *)
ReadName(c) ==
  /\ caller[c].at = "ipc"
  /\ caller' = [caller EXCEPT ![c].at = "asking", ![c].name = file]
  /\ named' = named \cup ({file} \ {None})
  /\ UNCHANGED <<life, foreign, marked, file, recycled, proven, signalled, kills>>

(* Mutant: the broker that answers stops, whichever was meant.             *)
MutOnShutdown(c, b) ==
  /\ caller[c].at = "asking" /\ Serving(b)
  /\ Become(b, "closing")
  /\ Goto(c, IF c \in Stop THEN "stopped" ELSE "waiting")
  /\ UNCHANGED <<foreign, marked, file, recycled, named, proven, signalled, kills>>

(* onShutdown at the broker that serves the endpoint.                      *)
onShutdown(c, b) ==
  /\ caller[c].at = "asking" /\ Serving(b)
  /\ IF caller[c].name = b
     THEN Become(b, "closing") /\ Goto(c, IF c \in Stop THEN "stopped" ELSE "waiting")
     ELSE Goto(c, IF c \in Stop THEN "refused" ELSE "waiting") /\ UNCHANGED life
  /\ UNCHANGED <<foreign, marked, file, recycled, named, proven, signalled, kills>>

(* Nobody answers within the time of the request.                          *)
AskFails(c) ==
  /\ caller[c].at = "asking" /\ ~\E b \in Broker : Serving(b)
  /\ Goto(c, "waiting")
  /\ UNCHANGED <<life, foreign, marked, file, recycled, named, proven, signalled, kills>>

(* The fallback: SIGTERM to the pid of the decision if some process has it.*)
Signal(c) ==
  LET pid == caller[c].pid
      hit == IF Running(pid) THEN "broker" ELSE "stranger" IN
  /\ caller[c].at = "waiting" /\ pidIsAlive(pid)
  /\ signalled' = signalled \cup {<<pid, hit>>}
  /\ IF hit = "broker" THEN Become(pid, "terminated") /\ UNCHANGED recycled
                       ELSE recycled' = recycled \ {pid} /\ UNCHANGED life
  /\ Goto(c, IF c \in Stop THEN "stopped" ELSE "signalled")
  /\ UNCHANGED <<foreign, marked, file, named, proven, kills>>

(* The pid is gone; the installer removes the state file.                  *)
PidGone(c) ==
  /\ caller[c].at \in {"waiting", "signalled"} /\ ~pidIsAlive(caller[c].pid)
  /\ file' = IF c \in Setup THEN None ELSE file
  /\ Goto(c, IF c \in Setup THEN "free" ELSE "refused")
  /\ UNCHANGED <<life, foreign, marked, recycled, named, proven, signalled, kills>>

(* The installer waits two seconds for a signalled process.                *)
DidNotExit(c) ==
  /\ caller[c].at = "signalled" /\ pidIsAlive(caller[c].pid)
  /\ Goto(c, "refused")
  /\ UNCHANGED <<life, foreign, marked, file, recycled, named, proven, signalled, kills>>

stopOwnedBrokerForUpgrade(c) == c \in Setup /\ (PidGone(c) \/ DidNotExit(c))

cmdStop(c) == c \in Stop /\ PidGone(c)

CallerStep(c) ==
  \/ Classify(c) \/ NothingToStop(c) \/ Refuse(c) \/ ReadName(c) \/ AskFails(c) \/ Signal(c)
  \/ \E b \in Broker : onShutdown(c, b)
  \/ cmdStop(c) \/ stopOwnedBrokerForUpgrade(c)

BrokerStep(b) == WriteState(b) \/ DoStop(b)

Next ==
  \/ \E c \in Caller : CallerStep(c)
  \/ \E b \in Broker : BrokerStep(b) \/ StartBroker(b) \/ BecomeUnreachable(b) \/ EndWithoutCleanup(b) \/ RecyclePid(b)

Spec == Init /\ [][Next]_vars

-----------------------------------------------------------------------------

(* A pid is signalled only after it was proved to be that of a live broker *)
(* of this user: never on a pid whose process is merely alive.             *)
SignalsOnlyProven == \A s \in signalled : s[1] \in proven /\ s[1] \notin foreign

(* A broker that shuts down over IPC is one whose instance id a caller had *)
(* read, also when brokers are replaced between the read and the request.  *)
StopsOnlyNamed == \A b \in Broker : life[b] = "closing" => b \in named

-----------------------------------------------------------------------------
(* What the repository says and the code does not do.                      *)

(* "SIGTERM cannot hit an unrelated recycled process".                     *)
NoStrangerSignalled == \A s \in signalled : s[2] = "broker"

(* "gracefully stop an owned running broker ... and verify no live writer  *)
(* remains".                                                               *)
FreeMeansNoWriter == [][\A c \in Setup : caller'[c].at = "free" /\ caller[c].at # "free" => ~\E b \in Broker : Running(b)]_vars

-----------------------------------------------------------------------------
(* Why only proven brokers are signalled: a caller gets past its decision  *)
(* only with a pid that was proved live at the decision, and keeps it.     *)
Committed == {"ipc", "asking", "waiting", "signalled"}
Places == Committed \cup {"idle", "none", "stale", "refuse", "refused", "free", "stopped"}
Callers == [Caller -> [at : Places, pid : Broker \cup {None}, name : Broker \cup {None}]]
Lives == {"unborn", "bound", "up", "unreachable", "closing", "terminated", "gone"}

Decided ==
  \A c \in Caller : caller[c].at \in Committed => caller[c].pid \in proven \ foreign

NamesWereRead ==
  \A c \in Caller : caller[c].at = "asking" /\ caller[c].name \in Broker => caller[c].name \in named

Inv ==
  /\ foreign \subseteq Broker /\ proven \subseteq Broker
  /\ file \in Broker \cup {None}
  /\ caller \in Callers
  /\ life \in [Broker -> Lives]
  /\ Decided /\ NamesWereRead /\ SignalsOnlyProven /\ StopsOnlyNamed
=============================================================================
