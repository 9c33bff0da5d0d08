---------------------------- MODULE MCDashboard ----------------------------
(***************************************************************************)
(* The dashboard, on small instances: the read worker, the live stream and *)
(* the tab tokens of its server; the console, the timeline, the roster and *)
(* the collections of its pages.                                           *)
(*                                                                         *)
(* They share no variable, so a property of one holds in every             *)
(* interleaving with the others exactly when it holds while the others     *)
(* rest.  A behaviour therefore picks one of them (component) and lets it  *)
(* run.                                                                    *)
(***************************************************************************)
EXTENDS Naturals, Sequences, FiniteSets, TLC

CONSTANTS ada, ben, alice, work, play, red, s1, s2, ready, gone, idle, Null

VARIABLES
  component,
  worker, generation, seq, pending, queue, alive, events, settled, closed,       \* ReadWorker
  version, streams, broadcasting, broadcastPending, polls, answers, sent, missed,
  faults,                                                                        \* Broadcast
  nonces, tokens, minted, issued, stored, fragment, page, using, restarts,       \* TabToken
  last, cursor, phase, streaming, list, selected, lists, reads, marks, sending,
  shown, seen,                                                                   \* Console
  turns, dialog,                                                                 \* Timeline
  sessions, payload, showInternal, filter, cache, body,                          \* Roster
  table, agents, tab, posts, lastId, deleted                                     \* Collections

workerVars == <<worker, generation, seq, pending, queue, alive, events, settled, closed>>

streamVars ==
  <<version, streams, broadcasting, broadcastPending, polls, answers, sent, missed, faults>>

tokenVars == <<nonces, tokens, minted, issued, stored, fragment, page, using, restarts>>

consoleVars ==
  <<last, cursor, phase, streaming, list, selected, lists, reads, marks, sending, shown, seen>>

timelineVars == <<turns, dialog>>

rosterVars == <<sessions, payload, showInternal, filter, cache, body>>

collectionVars == <<table, agents, tab, posts, lastId, deleted>>

vars == <<component, workerVars, streamVars, tokenVars, consoleVars, timelineVars, rosterVars, collectionVars>>

Worker == INSTANCE ReadWorker WITH maxInFlight <- 2, MaxRead <- 3

Stream == INSTANCE Broadcast WITH Client <- {ada, ben}, MaxVersion <- 4, MaxOpen <- 4, reads <- polls

Tokens == INSTANCE TabToken WITH Tab <- {ada, ben}, MaxMint <- 2, MaxRestart <- 1

(* A thread shorter than what one read returns.                            *)
Reader == INSTANCE Console WITH
  Thread <- {red}, None <- Null, turnLimit <- 9, MaxTurn <- 2, MaxRead <- 1, MaxList <- 1

Thread == INSTANCE Timeline WITH MaxTurn <- 2

Rows == INSTANCE Roster WITH Session <- {s1, s2}, Label <- {ready, gone}, Class <- {idle}, MaxCount <- 1

(* Two tabs, two names and an agent that may be removed.                   *)
Groups == INSTANCE Collections WITH
  Tab <- {ada, ben}, Agent <- {alice}, Name <- {work, play}, MaxId <- 2, MaxPost <- 1

Init ==
  /\ component \in {"worker", "stream", "tokens", "console", "timeline", "roster", "collections"}
  /\ Worker!Init /\ Stream!Init /\ Tokens!Init /\ Reader!Init /\ Thread!Init /\ Rows!Init /\ Groups!Init

WorkerStep ==
  component = "worker" /\ Worker!Next
    /\ UNCHANGED <<component, streamVars, tokenVars, consoleVars, timelineVars, rosterVars, collectionVars>>

StreamStep ==
  component = "stream" /\ Stream!Next
    /\ UNCHANGED <<component, workerVars, tokenVars, consoleVars, timelineVars, rosterVars, collectionVars>>

TokenStep ==
  component = "tokens" /\ Tokens!Next
    /\ UNCHANGED <<component, workerVars, streamVars, consoleVars, timelineVars, rosterVars, collectionVars>>

ConsoleStep ==
  component = "console" /\ Reader!Next
    /\ UNCHANGED <<component, workerVars, streamVars, tokenVars, timelineVars, rosterVars, collectionVars>>

TimelineStep ==
  component = "timeline" /\ Thread!Next
    /\ UNCHANGED <<component, workerVars, streamVars, tokenVars, consoleVars, rosterVars, collectionVars>>

RosterStep ==
  component = "roster" /\ Rows!Next
    /\ UNCHANGED <<component, workerVars, streamVars, tokenVars, consoleVars, timelineVars, collectionVars>>

CollectionStep ==
  component = "collections" /\ Groups!Next
    /\ UNCHANGED <<component, workerVars, streamVars, tokenVars, consoleVars, timelineVars, rosterVars>>

Next ==
  \/ WorkerStep \/ StreamStep \/ TokenStep
  \/ ConsoleStep \/ TimelineStep \/ RosterStep \/ CollectionStep

Spec == Init /\ [][Next]_vars

-----------------------------------------------------------------------------
(* Properties.                                                             *)

(* The read worker (read-worker.ts): no dead worker is handed out, a read  *)
(* is pending only on the current one, and the late death of a replaced    *)
(* worker fails no read but its own.                                       *)
WorkerIsCurrent ==
  [][component = "worker" =>
       /\ Worker!NoCorpse' /\ Worker!PendingOnCurrentWorker'
       /\ Worker!DeathFailsOwnReadsOnlyStep]_vars


(* Tab tokens (auth.ts, app.js): a nonce yields at most one token, however *)
(* often its page is reloaded or copied, and a page that asks to be opened *)
(* again has given up its token.                                           *)
NonceYieldsOneToken ==
  component = "tokens" => Tokens!NonceYieldsOneToken /\ Tokens!LostTabStartsClean

(* The operator's read cursor covers only turns the page has drawn: a late *)
(* answer, a reply stored between the read and the mark, and a lost mark   *)
(* never report an unseen turn as read (app.js).                           *)
ReadOnlyWhatWasShown == component = "console" => Reader!ReadOnlyWhatWasShown

=============================================================================
