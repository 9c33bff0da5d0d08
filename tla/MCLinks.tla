------------------------------ MODULE MCLinks ------------------------------
(***************************************************************************)
(* The way from a Claude session to the broker, on small instances: the    *)
(* IPC server and its framing, the secure link of one client, the tool     *)
(* calls of the MCP server, and the hooks.                                 *)
(*                                                                         *)
(* Each layer is specified against what it needs of the next one, and no   *)
(* two share a variable, so a property of one holds in every interleaving  *)
(* with the others exactly when it holds while the others rest.  A         *)
(* behaviour therefore picks one of them (component) and lets it run.      *)
(***************************************************************************)
EXTENDS Integers, Sequences, FiniteSets, TLC

CONSTANTS c1, c2, c3, c4, r1, r2, r3, r4, k1, k2, eagerly, h1, h2, m1

VARIABLES
  component,
  conns, hello, buf, totalBuffered, recent, windows, wire, sent, dispatched, early,
  closedFor,                                                       \* IpcServer
  secret, phase, listening, socket, client, broker, up, down, pending, result,
  injected, presented, ivs,                                        \* IpcLink
  pc, on, answer, try, clients, connected, stored, ends, silences, \* McpServer
  running, stops, epoch, mcp, hookSeen, row, spent, audit, plugin, eager, turn, again,
  hook, waker, age, shown, kills                                   \* Hooks

serverVars == <<conns, hello, buf, totalBuffered, recent, windows, wire, sent, dispatched, early, closedFor>>

linkVars ==
  <<secret, phase, listening, socket, client, broker, up, down, pending, result, injected, presented, ivs>>

mcpVars == <<pc, on, answer, try, clients, connected, stored, ends, silences>>

hookVars ==
  <<running, stops, epoch, mcp, hookSeen, row, spent, audit, plugin, eager, turn, again,
    hook, waker, age, shown, kills>>

vars == <<component, serverVars, linkVars, mcpVars, hookVars>>

(* One connection and every kind of frame; four connections that share the *)
(* limits.                                                                 *)
Stream == INSTANCE IpcServer WITH
  Conn <- {c1}, Payload <- {"ch", "cf", "rec", "plain", "notJson", "empty", "long"},
  maxConnections <- 1, connectRate <- 1, maxFrameBytes <- 2, drainCap <- 2, globalBudget <- 5,
  MaxSent <- 4, MaxAccepts <- 0

Shared == INSTANCE IpcServer WITH
  Conn <- {c1, c2, c3, c4}, Payload <- {"ch", "rec"}, maxConnections <- 2, connectRate <- 2,
  maxFrameBytes <- 2, drainCap <- 1, globalBudget <- 2, MaxSent <- 1, MaxAccepts <- 1

(* A counter of three numbers and frames that do not fit; a counter that   *)
(* does not run out and frames that fit.                                   *)
Narrow == INSTANCE IpcLink WITH
  Request <- {r1, r2, r3, r4}, Secret <- {k1, k2}, Size <- {"fits", "overFrame", "overPlaintext"}, Width <- 3

Wide == INSTANCE IpcLink WITH
  Request <- {r1, r2, r3}, Secret <- {k1, k2}, Size <- {"fits", "overPlaintext"}, Width <- 5

(* A call that overlaps the eager registration and loses the broker twice; *)
(* three calls one after the other.                                        *)
Overlapping == INSTANCE McpServer WITH
  Tool <- {c1}, Eager <- eagerly, Overlap <- TRUE, MayRefuse <- TRUE, CutsHandshake <- TRUE,
  MaxEnds <- 2, MaxSilences <- 1

Serial == INSTANCE McpServer WITH
  Tool <- {c1, c2, c3}, Eager <- eagerly, Overlap <- FALSE, MayRefuse <- FALSE, CutsHandshake <- FALSE,
  MaxEnds <- 1, MaxSilences <- 1

(* Two copies of the checkpoint hook, with and without the plugin.         *)
Turns == INSTANCE Hooks WITH
  Hook <- {h1, h2}, Msg <- {m1}, PluginLoads <- BOOLEAN, AutoContinue <- TRUE, MaxEnds <- 1,
  MaxKills <- 0, MaxEpoch <- 2, up <- running, ends <- stops

Init ==
  /\ component \in {"stream", "shared", "narrow", "wide", "overlapping", "serial", "turns"}
  /\ IF component = "shared" THEN Shared!Init ELSE Stream!Init
  /\ IF component = "wide" THEN Wide!Init ELSE Narrow!Init
  /\ component \notin {"narrow", "wide"} => secret = [e \in {"client", "broker"} |-> k1]
  /\ IF component = "serial" THEN Serial!Init ELSE Overlapping!Init
  /\ Turns!Init
  /\ component # "turns" => running /\ plugin

ServerStep ==
  /\ \/ component = "stream" /\ Stream!Next
     \/ component = "shared" /\ Shared!Next
  /\ UNCHANGED <<component, linkVars, mcpVars, hookVars>>

LinkStep ==
  /\ \/ component = "narrow" /\ Narrow!Next
     \/ component = "wide" /\ Wide!Next
  /\ UNCHANGED <<component, serverVars, mcpVars, hookVars>>

McpStep ==
  /\ \/ component = "overlapping" /\ Overlapping!Next
     \/ component = "serial" /\ Serial!Next
  /\ UNCHANGED <<component, serverVars, linkVars, hookVars>>

HookStep ==
  component = "turns" /\ Turns!Next /\ UNCHANGED <<component, serverVars, linkVars, mcpVars>>

Next == ServerStep \/ LinkStep \/ McpStep \/ HookStep

Spec == Init /\ [][Next]_vars

-----------------------------------------------------------------------------
(* Properties.                                                             *)

(* However a stream is cut into chunks (framing.ts, server.ts), the frames *)
(* of a peer are dispatched in order, none twice and none skipped; no      *)
(* complete frame is left behind in the buffer of an open connection; none *)
(* reaches the daemon before the handshake has ended; and the limits on    *)
(* connections hold over any order of accepts, closes and windows.         *)
FramesAreDispatched ==
  /\ component = "stream" =>
       Stream!FramesInOrder /\ Stream!NothingCompleteWaits /\ Stream!OnlySecureFramesAreHandled
  /\ component = "shared" => Shared!FramesInOrder /\ Shared!AcceptsAreBounded

(* The link (client.ts, secure-channel.ts): a request is answered only by  *)
(* the answer to it, also after timeouts; both ends use one key; no vector *)
(* is used twice under it, also where the counter ends; and a client that  *)
(* follows the protocol is never cut off by the record check.              *)
LinkIsSound ==
  /\ component = "narrow" => Narrow!OneKeyPerConnection /\ Narrow!AnswerIsForTheRequest /\ Narrow!FreshVectors
  /\ component = "wide" => Wide!OneKeyPerConnection /\ Wide!AnswerIsForTheRequest /\ Wide!NextRecordOpens

(* Tool calls (mcp-server.ts): a message is stored at most twice however   *)
(* often the connection is lost, a call that reports success has stored    *)
(* it, and calls that do not overlap survive the loss of one connection.   *)
ToolCallsAreSound ==
  /\ component = "overlapping" => Overlapping!StoredAtMostTwice /\ Overlapping!SuccessIsStored
  /\ component = "serial" => Serial!StoredAtMostTwice /\ Serial!SuccessIsStored /\ Serial!SurvivesOneLoss

(* The Stop hook (checkpoint-hook.ts): the operator is told once per epoch *)
(* that the plugin is absent, however many copies ask and however often    *)
(* the broker restarts, and only when no MCP component registered in the   *)
(* epoch; and a turn is continued at most once.                            *)
StopIsHonest ==
  [][component = "turns" =>
       /\ Turns!ToldOncePerEpoch' /\ Turns!ToldOnlyWhenNeverRegisteredStep
       /\ Turns!ContinuedOnceStep]_vars
=============================================================================
