------------------------------ MODULE Broadcast -----------------------------
(***************************************************************************)
(* The live stream of the dashboard (broker/dashboard/server.ts): change   *)
(* notifications are collapsed into broadcasts, one read fanned out to all *)
(* open streams, and a new stream gets a snapshot of its own.              *)
(*                                                                         *)
(* The reads go through one worker, which takes them in order; a read that *)
(* fails fails all reads under way (ReadWorker).  What a client knows is   *)
(* the version of the database of the last line written to it.             *)
(***************************************************************************)
EXTENDS Naturals, Sequences, FiniteSets

CONSTANTS
  Client,       \* browser tabs
  MaxVersion,   \* bound: changes of the database
  MaxOpen       \* bound: streams ever opened, and reads that fail

VARIABLES
  version,
  streams,      \* the clients whose stream is open
  broadcasting,
  broadcastPending,
  reads,        \* reads under way: 0 a broadcast, else the snapshot of a client
  answers,      \* reads answered: <<who, version>>
  sent,         \* per client, the version last written to it
  missed,       \* clients to which a failed read was owed (no code reads it)
  faults        \* streams opened and reads failed so far

vars == <<version, streams, broadcasting, broadcastPending, reads, answers, sent, missed, faults>>

Init ==
  /\ version = 1
  /\ streams = {}
  /\ broadcasting = FALSE /\ broadcastPending = FALSE
  /\ reads = << >> /\ answers = << >>
  /\ sent = [c \in Client |-> 0]
  /\ missed = {}
  /\ faults = 0

(* handleStream: the stream is added, then its snapshot is asked for.      *)
Open(c) ==
  /\ c \notin streams /\ faults < MaxOpen
  /\ \A i \in 1 .. Len(reads) : reads[i] # c
  /\ \A i \in 1 .. Len(answers) : answers[i][1] # c
  /\ faults' = faults + 1
  /\ streams' = streams \cup {c}
  /\ sent' = [sent EXCEPT ![c] = 0]
  /\ missed' = missed \ {c}
  /\ reads' = Append(reads, c)
  /\ UNCHANGED <<version, broadcasting, broadcastPending, answers>>

Disconnect(c) ==
  /\ c \in streams
  /\ streams' = streams \ {c}
  /\ UNCHANGED <<version, broadcasting, broadcastPending, reads, answers, sent, missed, faults>>

(* Mutant: the exception leaves the flag up.                               *)
MutCast(q, lost, f) ==
  \/ broadcasting' = TRUE /\ reads' = Append(q, "broadcast") /\ missed' = lost /\ faults' = f
  \/ /\ f < MaxOpen
     /\ broadcasting' = TRUE /\ reads' = q /\ missed' = lost \cup streams /\ faults' = f + 1

(* A broadcast starts, behind the reads q.  The reader may throw at once   *)
(* (the spawn of a worker failed): then nothing is read and the flag falls.*)
Cast(q, lost, f) ==
  \/ broadcasting' = TRUE /\ reads' = Append(q, "broadcast") /\ missed' = lost /\ faults' = f
  \/ /\ f < MaxOpen
     /\ broadcasting' = FALSE /\ reads' = q /\ missed' = lost \cup streams /\ faults' = f + 1


Busy == broadcasting

(* A mutation of the broker: notifyChange, broadcast.                      *)
Change ==
  /\ version < MaxVersion
  /\ version' = version + 1
  /\ \/ streams = {} /\ UNCHANGED <<broadcasting, broadcastPending, reads, missed, faults>>
     \/ /\ streams # {} /\ Busy
        /\ broadcastPending' = TRUE
        /\ UNCHANGED <<broadcasting, reads, missed, faults>>
     \/ streams # {} /\ ~Busy /\ Cast(reads, missed, faults) /\ UNCHANGED broadcastPending
  /\ UNCHANGED <<streams, answers, sent>>

(* The worker reads the database as it is now.                             *)
ReadNow ==
  /\ reads # << >>
  /\ answers' = Append(answers, <<Head(reads), version>>)
  /\ reads' = Tail(reads)
  /\ UNCHANGED <<version, streams, broadcasting, broadcastPending, sent, missed, faults>>

NoCast(q, lost, f) == broadcasting' = FALSE /\ reads' = q /\ missed' = lost /\ faults' = f

(* Mutant: what was pending is dropped with the end of the broadcast.      *)
MutDone(q, lost, f) == broadcastPending' = FALSE /\ NoCast(q, lost, f)

(* done: the flag falls, and one more broadcast follows when changes came  *)
(* in the meantime and somebody still listens.                             *)
Done(q, lost, f) ==
  /\ broadcastPending' = FALSE
  /\ IF broadcastPending /\ streams # {} THEN Cast(q, lost, f) ELSE NoCast(q, lost, f)

(* An answer is written to the stream it is for, or to all of them.        *)
Write ==
  LET who == Head(answers)[1]
      to == (IF who = "broadcast" THEN Client ELSE {who}) \cap streams
      still == IF Head(answers)[2] = version THEN missed \ to ELSE missed IN
  /\ answers # << >>
  /\ answers' = Tail(answers)
  /\ sent' = [c \in Client |-> IF c \in to THEN Head(answers)[2] ELSE sent[c]]
  /\ IF who = "broadcast" THEN Done(reads, still, faults)
     ELSE missed' = still /\ UNCHANGED <<broadcasting, broadcastPending, reads, faults>>
  /\ UNCHANGED <<version, streams>>

(* The reads under way fail: every one of them is skipped.                 *)
ReadsFail ==
  LET failed == {reads[i] : i \in 1 .. Len(reads)}
      lost == missed \cup (IF "broadcast" \in failed THEN streams ELSE failed \cap Client) IN
  /\ reads # << >> /\ faults < MaxOpen
  /\ IF "broadcast" \in failed THEN Done(<< >>, lost, faults + 1)
     ELSE /\ missed' = lost /\ reads' = << >> /\ faults' = faults + 1
          /\ UNCHANGED <<broadcasting, broadcastPending>>
  /\ UNCHANGED <<version, streams, answers, sent>>

Next ==
  \/ \E c \in Client : Open(c) \/ Disconnect(c)
  \/ Change \/ ReadNow \/ Write \/ ReadsFail

Fair == WF_vars(ReadNow) /\ WF_vars(Write)

Spec == Init /\ [][Next]_vars /\ Fair

-----------------------------------------------------------------------------


(* However many changes come, at most one read is under way for all        *)
(* streams together.                                                       *)
OneBroadcastAtATime ==
  Cardinality({i \in 1 .. Len(reads) : reads[i] = "broadcast"}) +
  Cardinality({i \in 1 .. Len(answers) : answers[i][1] = "broadcast"}) <= 1

(* The flag always falls again: a reader that throws does not end the live *)
(* updates for good.                                                       *)
BroadcastEnds == []<>~broadcasting
=============================================================================
