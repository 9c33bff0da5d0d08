----------------------------- MODULE ReadWorker -----------------------------
(***************************************************************************)
(* The executor that hands the dashboard's reads to a worker thread        *)
(* (broker/dashboard/read-worker.ts).                                      *)
(*                                                                         *)
(* A worker answers its queue in order.  A query may wedge it, it may      *)
(* crash or exit, and its events reach the executor some time later,       *)
(* possibly after it has been replaced.                                    *)
(***************************************************************************)
EXTENDS Naturals, Sequences, FiniteSets

CONSTANTS
  maxInFlight,   \* reads under way before run rejects
  MaxRead        \* bound: reads ever issued

Read == 1 .. MaxRead

(* A read starts at most one generation, and ends at most one.             *)
Gen == 1 .. 2 * MaxRead + 1

VARIABLES
  worker,        \* the generation of the current worker, 0 when there is none
  generation,
  seq,
  pending,       \* per read, the generation it was issued on, 0 when not pending
  queue,         \* per generation, reads posted and not yet answered
  alive,         \* the generations whose thread runs
  events,        \* on their way: <<g, r, ok>> an answer, <<g, 0, FALSE>> a death
  settled,       \* per read: "none", "ok" or "failed"
  closed

vars == <<worker, generation, seq, pending, queue, alive, events, settled, closed>>

Init ==
  /\ worker = 0 /\ generation = 0 /\ seq = 0
  /\ pending = [r \in Read |-> 0]
  /\ queue = [g \in Gen |-> << >>]
  /\ alive = {}
  /\ events = {}
  /\ settled = [r \in Read |-> "none"]
  /\ closed = FALSE

Pending == {r \in Read : pending[r] # 0}

Settle(rs, how) ==
  /\ pending' = [r \in Read |-> IF r \in rs THEN 0 ELSE pending[r]]
  /\ settled' = [r \in Read |-> IF r \in rs THEN how ELSE settled[r]]

(* ensure: the generation moves before the spawn, which may throw.         *)
Ensured(g) == g = IF worker = 0 THEN generation + 1 ELSE generation

(* run, the call recorded under the generation of the worker and posted.   *)
Run ==
  LET r == seq + 1 IN
  /\ seq < MaxRead /\ ~closed
  /\ Cardinality(Pending) < maxInFlight
  /\ \E g \in Gen :
       /\ Ensured(g)
       /\ generation' = g /\ worker' = g
       /\ alive' = IF worker = 0 THEN alive \cup {g} ELSE alive
       /\ pending' = [pending EXCEPT ![r] = g]
       /\ queue' = [queue EXCEPT ![g] = Append(@, r)]
  /\ seq' = r
  /\ UNCHANGED <<events, settled, closed>>

(* run, rejected at once: closed, overloaded, or the spawn throws.         *)
RunRejected ==
  /\ seq < MaxRead
  /\ \/ (closed \/ Cardinality(Pending) >= maxInFlight) /\ UNCHANGED generation
     \/ ~closed /\ Cardinality(Pending) < maxInFlight /\ worker = 0 /\ generation' = generation + 1
  /\ seq' = seq + 1
  /\ settled' = [settled EXCEPT ![seq + 1] = "failed"]
  /\ UNCHANGED <<worker, pending, queue, alive, events, closed>>

(* The worker thread takes the head of its queue and posts the answer.     *)
Answer(g, ok) ==
  /\ g \in alive /\ queue[g] # << >>
  /\ queue' = [queue EXCEPT ![g] = Tail(@)]
  /\ events' = events \cup {<<g, Head(queue[g]), ok>>}
  /\ UNCHANGED <<worker, generation, seq, pending, alive, settled, closed>>

(* The thread crashes or exits.                                            *)
Die(g) ==
  /\ g \in alive
  /\ alive' = alive \ {g}
  /\ events' = events \cup {<<g, 0, FALSE>>}
  /\ UNCHANGED <<worker, generation, seq, pending, queue, settled, closed>>

(* The message handler; the answer of a worker that was replaced finds     *)
(* neither its generation nor its call.                                    *)
Message(g, r, ok) ==
  /\ <<g, r, ok>> \in events /\ r # 0
  /\ events' = events \ {<<g, r, ok>>}
  /\ Settle(IF g = generation /\ pending[r] = g THEN {r} ELSE {}, IF ok THEN "ok" ELSE "failed")
  /\ UNCHANGED <<worker, generation, seq, queue, alive, closed>>

(* Mutant: a late death fails whatever is pending.                         *)
MutFailedBy(g) == Pending

FailedBy(g) == IF g = generation THEN {r \in Pending : pending[r] = g} ELSE {}

(* Mutant: the dead worker stays in place.                                 *)
MutAfterDeath(g) == worker

AfterDeath(g) == IF g = generation THEN 0 ELSE worker

(* The error and exit handlers.                                            *)
Death(g) ==
  /\ <<g, 0, FALSE>> \in events
  /\ events' = events \ {<<g, 0, FALSE>>}
  /\ Settle(FailedBy(g), "failed")
  /\ worker' = AfterDeath(g)
  /\ UNCHANGED <<generation, seq, queue, alive, closed>>

(* The worker is terminated and its generation invalidated.                *)
Terminate ==
  /\ worker' = 0
  /\ generation' = generation + 1
  /\ alive' = alive \ {worker}
  /\ events' = IF worker \in alive THEN events \cup {<<worker, 0, FALSE>>} ELSE events

(* Mutant: the worker is replaced and the calls it had are left.           *)
MutReplaceWorker == worker # 0 /\ Terminate /\ UNCHANGED <<pending, settled>>

replaceWorker == Terminate /\ Settle(Pending, "failed")

(* The timer of a read fires.                                              *)
Timeout(r) ==
  /\ r \in Pending
  /\ replaceWorker
  /\ UNCHANGED <<seq, queue, closed>>

Close ==
  /\ ~closed
  /\ closed' = TRUE
  /\ Terminate
  /\ Settle(Pending, "failed")
  /\ UNCHANGED <<seq, queue>>

Next ==
  \/ Run \/ RunRejected \/ Close
  \/ \E g \in alive : Die(g) \/ \E ok \in BOOLEAN : Answer(g, ok)
  \/ \E e \in events : Message(e[1], e[2], e[3]) \/ Death(e[1])
  \/ \E r \in Read : Timeout(r)

(* A timer that is not cleared fires.                                      *)
Fair == \A r \in Read : WF_vars(Timeout(r))

Spec == Init /\ [][Next]_vars /\ Fair

-----------------------------------------------------------------------------

(* Whatever the worker does, every read that was taken is answered: no     *)
(* request of the dashboard hangs on a dead or wedged worker.              *)
EveryReadSettles == \A r \in Read : pending[r] # 0 ~> pending[r] = 0

(* "A stale worker's late error/exit can only fail calls from ITS OWN      *)
(* generation": when the death of a worker is handled, the reads it fails  *)
(* had been issued to that worker.                                         *)
DeathFailsOwnReadsOnlyStep ==
  \A g \in Gen : <<g, 0, FALSE>> \in events \ events' =>
    \A r \in Pending : settled'[r] = "failed" => pending[r] = g

DeathFailsOwnReadsOnly == [][DeathFailsOwnReadsOnlyStep]_vars

(* No corpse is handed out: when the current worker is dead, the event     *)
(* that makes the executor drop it is on its way.                          *)
NoCorpse == worker # 0 /\ worker \notin alive => <<worker, 0, FALSE>> \in events

(* A read is pending only on the current worker, so replacing it settles   *)
(* all there is.                                                           *)
PendingOnCurrentWorker == \A r \in Pending : pending[r] = worker /\ settled[r] = "none"
=============================================================================
