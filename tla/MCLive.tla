------------------------------- MODULE MCLive -------------------------------
(***************************************************************************)
(* What must eventually happen, on the smallest instances in which it can  *)
(* fail to.                                                                *)
(*                                                                         *)
(* The parts share no variable, so a property of one holds in every        *)
(* interleaving with the others exactly when it holds while the others     *)
(* rest.  A behaviour therefore picks one of them (component) and lets it  *)
(* run.                                                                    *)
(***************************************************************************)
EXTENDS Integers, Sequences, FiniteSets

CONSTANTS bob, m1, m2, c1, c2, r1, r2, k1, k2, b1, b2, b3, h1, s1, red, ada, ben, eager, Null

VARIABLES
  component,
  sess, msg, del, inj, rcpt, nextSeq, shown,                                          \* Delivery
  conns, hello, buf, totalBuffered, recent, windows, wire, sent, dispatched, early,
  closedFor,                                                                          \* IpcServer
  secret, phase, listening, socket, client, broker, up, down, pending, result,
  injected, presented, ivs,                                                           \* IpcLink
  at, on, answer, try, clients, connected, stored, ends, silences,                    \* McpServer
  worker, generation, seq, waiting, queue, alive, events, settled, closed,            \* ReadWorker
  running, stops, epoch, mcp, hookSeen, row, spent, audit, plugin, registers, turn,
  again, hook, waker, age, context, kills,                                            \* Hooks
  serving, restarts, session, started, mail, disk, attached, announcer, removed,      \* Lifecycle
  pc, build, seen, schema, path, inode, ino, file, recycled, caller, killed, stopped, \* Startup
  condition, state, now, advice, tries, drops,                                        \* SelfHeal
  last, cursor, load, streaming, list, selected, lists, reads, marks, sending, drawnUpTo, seenTurns, \* Console
  ctl, disabled, committed, view, drawn, lastSig, status, retry, reading,             \* Inspector
  version, streams, broadcasting, broadcastPending, snapshots, answers, written, missed, faults \* Broadcast

coreVars == <<sess, msg, del, inj, rcpt, nextSeq, shown>>

serverVars ==
  <<conns, hello, buf, totalBuffered, recent, windows, wire, sent, dispatched, early, closedFor>>

linkVars ==
  <<secret, phase, listening, socket, client, broker, up, down, pending, result, injected, presented, ivs>>

toolVars == <<at, on, answer, try, clients, connected, stored, ends, silences>>

workerVars == <<worker, generation, seq, waiting, queue, alive, events, settled, closed>>

turnVars ==
  <<running, stops, epoch, mcp, hookSeen, row, spent, audit, plugin, registers, turn, again, hook, waker,
    age, context, kills>>

sessionVars == <<serving, restarts, session, started, mail, disk, attached, announcer, removed>>

startVars == <<pc, build, seen, schema, path, inode, ino, file, recycled, caller, killed, stopped>>

healVars == <<condition, state, now, advice, tries, drops>>

consoleVars ==
  <<last, cursor, load, streaming, list, selected, lists, reads, marks, sending, drawnUpTo, seenTurns>>

inspectorVars == <<ctl, disabled, committed, view, drawn, lastSig, status, retry, reading>>

streamVars ==
  <<version, streams, broadcasting, broadcastPending, snapshots, answers, written, missed, faults>>

vars == <<component, coreVars, serverVars, linkVars, toolVars, workerVars, turnVars, sessionVars, startVars,
          healVars, consoleVars, inspectorVars, streamVars>>

-----------------------------------------------------------------------------
(* One message a session writes to itself, with any required responses.    *)
Core == INSTANCE Delivery WITH
  Session <- {bob}, Message <- {m1},
  Request <- [from : {bob}, to : {bob}, ack : BOOLEAN, reply : BOOLEAN, ttl : {-1}],
  MaxEpoch <- 1, MaxLogical <- 1, maxAttempts <- 2, maxBackoff <- 0, ackDeadline <- 1,
  injectionTtl <- 2, retention <- 2

(* One connection that writes up to four frames.                           *)
Server == INSTANCE IpcServer WITH
  Conn <- {c1}, Payload <- {"ch", "cf", "rec"}, maxConnections <- 2, connectRate <- 2, maxFrameBytes <- 1,
  drainCap <- 2, globalBudget <- 8, MaxSent <- 4, MaxAccepts <- 0

(* Two requests over a link whose ends may hold different secrets.         *)
Link == INSTANCE IpcLink WITH
  Request <- {r1, r2}, Secret <- {k1, k2}, Size <- {"fits", "overFrame"}, Width <- 4

(* One tool call and the registration at the start, with a broker that     *)
(* ends and a connection that goes silent.                                 *)
Tools == INSTANCE McpServer WITH
  Tool <- {c1}, Eager <- eager, Overlap <- TRUE, MayRefuse <- FALSE, CutsHandshake <- TRUE,
  MaxEnds <- 1, MaxSilences <- 1, pc <- at

Worker == INSTANCE ReadWorker WITH maxInFlight <- 2, MaxRead <- 2, pending <- waiting

(* One copy of the checkpoint hook, killed at most once.                   *)
Turns == INSTANCE Hooks WITH
  Hook <- {h1}, Msg <- {m1}, PluginLoads <- {FALSE}, AutoContinue <- TRUE, MaxEnds <- 1, MaxKills <- 1,
  MaxEpoch <- 1, up <- running, ends <- stops, eager <- registers, shown <- context

Sessions == INSTANCE Lifecycle WITH
  Session <- {s1}, Hook <- {h1}, Source <- {"startup", "compact"}, MaxEpoch <- 2, MaxEnds <- 1,
  MaxRemoved <- 1, up <- serving, ends <- restarts, row <- session, mcp <- attached, hook <- announcer

(* Three broker processes, of which one is killed, and two clients.        *)
Start == INSTANCE Startup WITH
  Broker <- {b1, b2, b3}, Client <- {c1, c2}, None <- Null, Version <- {1}, MaxKill <- 1, MaxStop <- 0,
  Impatient <- FALSE, socket <- path, client <- caller, kills <- killed, stops <- stopped

Planner == INSTANCE SelfHeal WITH maxAttempts <- 4, baseBackoffMs <- 1, maxBackoffMs <- 5, MaxDrops <- 1

Reader == INSTANCE Console WITH
  Thread <- {red}, None <- Null, turnLimit <- 9, MaxTurn <- 1, MaxRead <- 1, MaxList <- 1,
  phase <- load, shown <- drawnUpTo, seen <- seenTurns

Buttons == INSTANCE Inspector WITH MaxAction <- 2, MaxRetry <- 5

Stream == INSTANCE Broadcast WITH
  Client <- {ada, ben}, MaxVersion <- 2, MaxOpen <- 2, reads <- snapshots, sent <- written

-----------------------------------------------------------------------------
Init ==
  /\ component \in {"delivery", "server", "link", "tools", "worker", "turns", "sessions", "start", "planner",
                    "console", "inspector", "stream"}
  /\ Core!Init /\ Server!Init /\ Link!Init /\ Tools!Init /\ Worker!Init /\ Turns!Init /\ Sessions!Init
  /\ Start!Init /\ Planner!Init /\ Reader!Init /\ Buttons!Init /\ Stream!Init
  /\ component # "link" => secret = [e \in {"client", "broker"} |-> k1]
  /\ component # "turns" => running
  /\ component # "sessions" => disk = {}
  /\ component # "start" => schema = 0
  /\ component # "planner" => condition = "disconnected"

(* The part that runs; the others rest.                                    *)
Only(name) ==
  /\ component = name
  /\ UNCHANGED component
  /\ IF name = "delivery" THEN TRUE ELSE UNCHANGED coreVars
  /\ IF name = "server" THEN TRUE ELSE UNCHANGED serverVars
  /\ IF name = "link" THEN TRUE ELSE UNCHANGED linkVars
  /\ IF name = "tools" THEN TRUE ELSE UNCHANGED toolVars
  /\ IF name = "worker" THEN TRUE ELSE UNCHANGED workerVars
  /\ IF name = "turns" THEN TRUE ELSE UNCHANGED turnVars
  /\ IF name = "sessions" THEN TRUE ELSE UNCHANGED sessionVars
  /\ IF name = "start" THEN TRUE ELSE UNCHANGED startVars
  /\ IF name = "planner" THEN TRUE ELSE UNCHANGED healVars
  /\ IF name = "console" THEN TRUE ELSE UNCHANGED consoleVars
  /\ IF name = "inspector" THEN TRUE ELSE UNCHANGED inspectorVars
  /\ IF name = "stream" THEN TRUE ELSE UNCHANGED streamVars

Next ==
  \/ Only("delivery") /\ Core!Next
  \/ Only("server") /\ Server!Next
  \/ Only("link") /\ Link!Next
  \/ Only("tools") /\ Tools!Next
  \/ Only("worker") /\ Worker!Next
  \/ Only("turns") /\ Turns!Next
  \/ Only("sessions") /\ Sessions!Next
  \/ Only("start") /\ Start!Next
  \/ Only("planner") /\ Planner!Next
  \/ Only("console") /\ Reader!Next
  \/ Only("inspector") /\ Buttons!Next
  \/ Only("stream") /\ Stream!Next

(* The broker's clock goes on and its reaper sweeps.  The fairness of the  *)
(* other parts is stated and explained in their modules and is the         *)
(* hypothesis of what is claimed of them: timers fire, processes that were *)
(* started run on, bytes that were written arrive.                         *)
Fairness ==
  /\ WF_coreVars(component = "delivery" /\ Core!Tick)
  /\ WF_coreVars(component = "delivery" /\ Core!Sweep)

Spec == Init /\ [][Next]_vars /\ Fairness

-----------------------------------------------------------------------------
(* Properties.                                                             *)

(* No delivery hangs (reaper.ts): an injection nobody acknowledges is      *)
(* taken back, and the work of an idle recipient ends with its session.    *)
WorkEnds == component = "delivery" => Core!AckedOrTakenBack /\ Core!AbandonedWorkEnds

(* Nothing waits for ever, whatever is lost, killed or restarted: a frame  *)
(* that was written is dispatched or its connection ends (ipc/server.ts);  *)
(* a request settles and a handshake that stalls frees its slot            *)
(* (ipc/client.ts); a tool call returns (mcp-server.ts); a dashboard read  *)
(* settles (read-worker.ts); the hooks, the rewaker and the turn they      *)
(* belong to end (checkpoint-hook.ts, rewaker.ts, session-start-hook.ts).  *)
CallsEnd ==
  /\ component = "server" /\ Server!Fair => Server!EveryFrameIsDispatched
  /\ component = "link" /\ Link!Fair => Link!EveryRequestSettles /\ Link!HandshakeSlotIsFreed
  /\ component = "tools" /\ Tools!Fair => Tools!EveryCallEnds
  /\ component = "worker" /\ Worker!Fair => Worker!EveryReadSettles
  /\ component = "turns" /\ Turns!Fair => Turns!TurnEnds /\ Turns!RewakerEnds
  /\ component = "sessions" /\ Sessions!Fair => Sessions!HookEnds


(* The pages catch up (app.js, server.ts): given polls and answers that    *)
(* sometimes succeed, a turn gets into the list and a committed action is  *)
(* drawn, the buttons come back, and a broadcast that fails does not end   *)
(* the live updates.                                                       *)
PagesCatchUp ==
  /\ component = "console" /\ Reader!Fair => Reader!ListCatchesUp
  /\ component = "inspector" /\ Buttons!Fair => Buttons!InspectorSettles /\ Buttons!CommittedIsDrawn
  /\ component = "stream" /\ Stream!Fair => Stream!BroadcastEnds
=============================================================================
