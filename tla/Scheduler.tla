----------------------------- MODULE Scheduler -----------------------------
(***************************************************************************)
(* The scheduler (broker/scheduler.ts), the schedules of the store and the *)
(* pruning of their runs by the reaper.                                    *)
(*                                                                         *)
(* Time counts units; a day has DayLength of them.  A tick selects what is *)
(* due and then handles each schedule in a transaction of its own, so a    *)
(* crash falls between two of them.  Nothing else of the broker runs       *)
(* during a tick.  The concurrency gate is left out: a run is settled in   *)
(* the transaction that claims it, so no other run is ever in flight.      *)
(***************************************************************************)
EXTENDS Naturals, Sequences, FiniteSets

CONSTANTS
  Schedule, Target,
  None,          \* NULL
  DayLength,
  baseStep,      \* the least step of a deferral (15 minutes)
  pushLimit,     \* steps a candidate is pushed out of quiet hours (96)
  sessionCap,    \* perSessionWakeCapPerDay
  retention,     \* age at which the run of a slot is pruned
  Plans,         \* what a schedule may be created with
  MaxTime        \* bound: the clock

VARIABLES
  now,
  schedule,      \* the rows of schedules; None before it is created
  runs,          \* the rows of schedule_runs: [s, slot, state]
  due,           \* what the tick under way has selected and not yet handled
  fired,         \* every message enqueued: [s, slot, at] (no code reads the time)
  refused        \* schedules whose recipient was refused for good (no code reads it)

vars == <<now, schedule, runs, due, fired, refused>>

Day(t) == t \div DayLength
Larger(a, b) == IF a > b THEN a ELSE b

Init ==
  /\ now = 0
  /\ schedule = [s \in Schedule |-> None]
  /\ runs = {} /\ due = << >> /\ fired = {} /\ refused = {}

Exists(s) == schedule[s] # None
Idle == due = << >>

-----------------------------------------------------------------------------
(* The schedules of the store, as operatorSchedule reaches them.           *)

(* A first run may be given as an instant, past or future; else it is now. *)
NewSchedule(p) ==
  [plan |-> p, next |-> IF p.first = None THEN now ELSE p.first,
   fires |-> 0, wakes |-> 0, wakesDay |-> None, state |-> "active"]

NewRun(s, slot, state) == [s |-> s, slot |-> slot, state |-> state]

(* An interval below the floor is refused.                                 *)
createSchedule(s, p) ==
  /\ Idle /\ ~Exists(s)
  /\ p.kind = "interval" => p.expr >= p.minInterval
  /\ schedule' = [schedule EXCEPT ![s] = NewSchedule(p)]
  /\ UNCHANGED <<now, runs, due, fired, refused>>

(* Mutant: a schedule that is over can be resumed.                         *)
MutSetScheduleState(s, state) ==
  /\ Idle /\ Exists(s)
  /\ schedule' = [schedule EXCEPT ![s].state = state, ![s].next = IF @ = None THEN now + 1 ELSE @]
  /\ UNCHANGED <<now, runs, due, fired, refused>>

setScheduleState(s, state) ==
  /\ Idle /\ Exists(s)
  /\ schedule[s].state \notin {"cancelled", "exhausted"}
  /\ schedule' = [schedule EXCEPT ![s].state = state]
  /\ UNCHANGED <<now, runs, due, fired, refused>>

operatorSchedule(s) ==
  \/ \E p \in Plans : createSchedule(s, p)
  \/ \E state \in {"paused", "active", "cancelled"} : setScheduleState(s, state)

-----------------------------------------------------------------------------
(* The tick.                                                               *)

Due(s) ==
  /\ Exists(s) /\ schedule[s].state = "active"
  /\ schedule[s].next # None /\ schedule[s].next <= now

(* The due schedules, the earliest first.                                  *)
Tick ==
  /\ Idle
  /\ \E q \in [1 .. Cardinality({s \in Schedule : Due(s)}) -> {s \in Schedule : Due(s)}] :
       /\ q # << >>
       /\ \A i, j \in DOMAIN q : i < j => q[i] # q[j] /\ schedule[q[i]].next <= schedule[q[j]].next
       /\ due' = q
  /\ UNCHANGED <<now, schedule, runs, fired, refused>>

(* Windows [start, end) of the day; one with start > end wraps midnight.   *)
inQuietHours(t, quiet) ==
  LET cur == t % DayLength IN
  \E w \in quiet : IF w[1] <= w[2] THEN cur >= w[1] /\ cur < w[2]
                                  ELSE cur >= w[1] \/ cur < w[2]

(* Mutant: a recurrence is due again at once.                              *)
MutComputeNextRun(p, after) == IF p.kind = "interval" THEN after ELSE None

computeNextRun(p, after) ==
  CASE p.kind = "once" -> None
    [] p.kind = "interval" -> after + (IF p.expr > 0 THEN Larger(p.expr, p.minInterval) ELSE p.minInterval)
    [] p.kind = "cron" -> IF p.expr > 0 THEN after + Larger(p.expr, p.minInterval) ELSE None

step(p) == Larger(p.minInterval, baseStep)

(* The candidate, pushed out of the quiet hours by at most pushLimit steps.*)
Pushed(p, t) ==
  LET at(k) == t + k * step(p)
      k == CHOOSE k \in 0 .. pushLimit :
             /\ k = pushLimit \/ ~inQuietHours(at(k), p.quiet)
             /\ \A j \in 0 .. k - 1 : inQuietHours(at(j), p.quiet)
  IN at(k)

(* Mutant: a deferred one-time schedule is over.                           *)
MutExhausted(s, mode, fires) ==
  \/ s.plan.maxFires # None /\ fires >= s.plan.maxFires
  \/ s.plan.kind = "once"

Exhausted(s, mode, fires) ==
  /\ mode # "deferred"
  /\ \/ s.plan.maxFires # None /\ fires >= s.plan.maxFires
     \/ s.plan.kind = "once"

(* advance: the row after one slot was handled.                            *)
advance(s, mode) ==
  LET p == s.plan
      fires == s.fires + (IF mode = "fired" THEN 1 ELSE 0)
      regular == computeNextRun(p, now)
      candidate == IF mode = "deferred" /\ regular = None THEN now + step(p) ELSE regular
      over == Exhausted(s, mode, fires)
  IN [s EXCEPT !.fires = fires,
               !.next = IF over \/ candidate = None THEN None ELSE Pushed(p, candidate),
               !.state = IF over THEN "exhausted" ELSE @]

(* Mutant: the wakes of today are not counted.                             *)
MutWakesToday(s) == 0

wakesToday(s) == IF s.wakesDay = Day(now) THEN s.wakes ELSE 0

(* The per-session cap counts the slots of today, not what fired today.    *)
SentToday(target) ==
  Cardinality({r \in runs : /\ r.state = "sent" /\ Day(r.slot) = Day(now)
                            /\ schedule[r.s].plan.target = target})

(* The gates, in the order of fireOne.                                     *)
Blocked(s) ==
  \/ inQuietHours(now, s.plan.quiet)
  \/ s.plan.wakeLimit # None /\ wakesToday(s) >= s.plan.wakeLimit
  \/ sessionCap > 0 /\ SentToday(s.plan.target) >= sessionCap

(* fireOne: claim the slot, pass the gates, send, advance: one             *)
(* transaction.  A slot that has a run is only advanced over.              *)
fireOne(outcome) ==
  LET id == Head(due)
      s == schedule[id]
      run(state) == runs \cup {NewRun(id, s.next, state)}
  IN
  /\ due # << >>
  /\ due' = Tail(due)
  /\ IF \E r \in runs : r.s = id /\ r.slot = s.next
     THEN schedule' = [schedule EXCEPT ![id] = advance(s, "terminal")] /\ UNCHANGED <<runs, fired, refused>>
     ELSE IF Blocked(s)
     THEN schedule' = [schedule EXCEPT ![id] = advance(s, "deferred")]
          /\ runs' = run("skipped") /\ UNCHANGED <<fired, refused>>
     ELSE CASE outcome = "sent" ->
            /\ runs' = run("sent")
            /\ fired' = fired \cup {[s |-> id, slot |-> s.next, at |-> now]}
            /\ schedule' = [schedule EXCEPT ![id] =
                 [advance(s, "fired") EXCEPT !.wakes = wakesToday(s) + 1, !.wakesDay = Day(now)]]
            /\ UNCHANGED refused
       [] outcome = "unresolved" ->
            /\ runs' = run("failed")
            /\ schedule' = [schedule EXCEPT ![id] = advance(s, "deferred")]
            /\ UNCHANGED <<fired, refused>>
       [] outcome = "refused" ->
            /\ runs' = run("failed")
            /\ schedule' = [schedule EXCEPT ![id] = advance(s, "terminal")]
            /\ refused' = refused \cup {id}
            /\ UNCHANGED fired
  /\ UNCHANGED now

(* A transaction that fails is rolled back; the tick goes on.              *)
TickError ==
  /\ due # << >>
  /\ due' = Tail(due)
  /\ UNCHANGED <<now, schedule, runs, fired, refused>>

(* The broker ends between two transactions.                               *)
Crash ==
  /\ due # << >>
  /\ due' = << >>
  /\ UNCHANGED <<now, schedule, runs, fired, refused>>

reapOldScheduleRuns ==
  LET old == {r \in runs : r.slot + retention < now} IN
  /\ Idle /\ old # {}
  /\ runs' = runs \ old
  /\ UNCHANGED <<now, schedule, due, fired, refused>>

TimePasses ==
  /\ Idle /\ now < MaxTime
  /\ now' = now + 1
  /\ UNCHANGED <<schedule, runs, due, fired, refused>>

Next ==
  \/ \E s \in Schedule : operatorSchedule(s)
  \/ Tick \/ TickError \/ Crash \/ reapOldScheduleRuns \/ TimePasses
  \/ \E o \in {"sent", "unresolved", "refused"} : fireOne(o)

Spec == Init /\ [][Next]_vars

-----------------------------------------------------------------------------

(* A schedule that may run again has its next slot after every slot it has *)
(* handled, whatever was deferred, paused or lost in a crash: so a run may *)
(* be pruned although it is what keeps its slot from being taken twice.    *)
SlotsAdvance ==
  \A s \in Schedule : Exists(s) /\ schedule[s].next # None =>
    /\ \A f \in fired : f.s = s => f.slot < schedule[s].next
    /\ \A r \in runs : r.s = s => r.slot < schedule[s].next

(* A one-time schedule sends once, and is over only when it has sent or    *)
(* its recipient was refused for good: quiet hours, a limit or a recipient *)
(* that cannot be resolved for the moment do not lose it.                  *)
OnceIsSentOnce ==
  \A s \in Schedule : Exists(s) /\ schedule[s].plan.kind = "once" =>
    /\ Cardinality({f \in fired : f.s = s}) <= 1
    /\ schedule[s].state = "exhausted" => s \in refused \/ \E f \in fired : f.s = s
    /\ schedule[s].state = "active" => schedule[s].next # None

(* A schedule wakes its target on no day more often than its limit, and    *)
(* fires no more often than it may, over midnight and over a crash.        *)
LimitsHold ==
  \A s \in Schedule : Exists(s) =>
    LET mine == {f \in fired : f.s = s}
        p == schedule[s].plan IN
    /\ p.wakeLimit # None => \A d \in 0 .. Day(MaxTime) :
         Cardinality({f \in mine : Day(f.at) = d}) <= p.wakeLimit
    /\ p.maxFires # None /\ p.maxFires > 0 => Cardinality(mine) <= p.maxFires

-----------------------------------------------------------------------------
(* What the repository says and the code does not do.                      *)

(* "so we never schedule INTO a quiet window (advance PAST it)".           *)
NeverIntoQuietHours ==
  \A s \in Schedule : Exists(s) /\ schedule[s].next # None /\ (\E r \in runs : r.s = s) =>
    ~inQuietHours(schedule[s].next, schedule[s].plan.quiet)

(* "count TODAY's fires to any schedule targeting the same address".       *)
SessionCapHolds ==
  \A t \in Target, d \in 0 .. Day(MaxTime) :
    Cardinality({f \in fired : schedule[f.s].plan.target = t /\ Day(f.at) = d}) <= sessionCap

(* "schedule_expr may be an ISO instant (treated as 'once')": a schedule   *)
(* with nothing left to run is not active.                                 *)
ActiveIsArmed ==
  \A s \in Schedule : Exists(s) /\ schedule[s].state = "active" => schedule[s].next # None
=============================================================================
