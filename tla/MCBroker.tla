------------------------------ MODULE MCBroker ------------------------------
(***************************************************************************)
(* The broker's own machinery around the delivery core, on small           *)
(* instances: dead letters, the cap of a sweep, threads, schedules, the    *)
(* audit ledger and the awards of adapters.                                *)
(*                                                                         *)
(* The six write tables of their own and share no variable, so a property  *)
(* of one holds in every interleaving with the others exactly when it      *)
(* holds while the others rest.  A behaviour therefore picks one of them   *)
(* (component) and lets it run.                                            *)
(***************************************************************************)
EXTENDS Integers, Sequences, FiniteSets, TLC

CONSTANTS alice, bob, operator, m1, k1, s1, s2, d1, d2, d3, d4, c1, v1, Null

VARIABLES
  component,
  sess, msg, del, inj, rcpt, nextSeq, shown,             \* DeadLetters
  line, due, missed,                                     \* ReapCap
  row, turn, open, rnext, thr, part, removals,           \* Threads
  now, schedule, slots, selected, fired, refused,        \* Scheduler
  rows, anchors, state, rotten, missing, reports,        \* Ledger
  registry, recorded, conns, connHello, connAuth, connAwarded, last   \* Adapter

deliveryVars == <<sess, msg, del, inj, rcpt, nextSeq, shown>>

capVars == <<line, due, missed>>

threadVars == <<row, turn, open, rnext, thr, part, removals>>

scheduleVars == <<now, schedule, slots, selected, fired, refused>>

ledgerVars == <<rows, anchors, state, rotten, missing, reports>>

adapterVars == <<registry, recorded, conns, connHello, connAuth, connAwarded, last>>

vars == <<component, deliveryVars, capVars, threadVars, scheduleVars, ledgerVars, adapterVars>>

(* One message a session writes to itself, with any required responses.    *)
Dead == INSTANCE DeadLetters WITH
  Session <- {bob}, Message <- {m1},
  Request <- [from : {bob}, to : {bob}, ack : BOOLEAN, reply : BOOLEAN, ttl : {-1, 1}],
  MaxEpoch <- 2, MaxLogical <- 1, maxAttempts <- 2, maxBackoff <- 1, ackDeadline <- 1,
  injectionTtl <- 2, retention <- 2

(* Three deliveries in flight to one session and one to another.           *)
Cap == INSTANCE ReapCap WITH
  Slot <- {d1, d2, d3, d4}, Recipient <- {alice, bob}, perSessionCap <- 1, MaxWait <- 4,
  recipientOf <- [m \in {d1, d2, d3, d4} |-> IF m = d4 THEN alice ELSE bob]

(* Two sessions and the operator; and one session that is removed and      *)
(* retries under one idempotency key.                                      *)
Pair == INSTANCE Threads WITH
  Peer <- {alice, bob}, Operator <- operator, Key <- {}, None <- Null, MaxMsg <- 3, MaxRemove <- 0,
  msg <- turn

Removal == INSTANCE Threads WITH
  Peer <- {alice}, Operator <- operator, Key <- {k1}, None <- Null, MaxMsg <- 3, MaxRemove <- 1,
  msg <- turn

Plan(kind, expr, quiet, limit, fires, first) ==
  [kind |-> kind, expr |-> expr, minInterval |-> 1, quiet |-> quiet, wakeLimit |-> limit,
   maxFires |-> fires, target |-> bob, first |-> first]

(* A day of four units.  One schedule of any kind, with quiet hours and    *)
(* limits; and two schedules that meet in one tick.                        *)
Single == INSTANCE Scheduler WITH
  Schedule <- {s1}, Target <- {bob}, None <- Null, DayLength <- 4, baseStep <- 1, pushLimit <- 4,
  sessionCap <- 2, retention <- 2, MaxTime <- 7, runs <- slots, due <- selected,
  Plans <- {Plan("once", 0, {<<3, 1>>}, Null, Null, f) : f \in {Null, 1}} \cup
           {Plan("interval", 1, {}, 1, Null, Null), Plan("interval", 2, {<<3, 4>>}, Null, 2, 1),
            Plan("cron", 2, {}, Null, Null, Null)}

Double == INSTANCE Scheduler WITH
  Schedule <- {s1, s2}, Target <- {bob}, None <- Null, DayLength <- 4, baseStep <- 1, pushLimit <- 4,
  sessionCap <- 1, retention <- 2, MaxTime <- 3, runs <- slots, due <- selected,
  Plans <- {Plan("once", 0, {<<1, 2>>}, Null, Null, Null), Plan("interval", 1, {}, 1, 2, Null)}

(* Six events, of which two rows are damaged.                              *)
Audit == INSTANCE Ledger WITH MaxSeq <- 6, MaxDamage <- 2, MayDrop <- FALSE

Flags == {"send", "manual", "checkpoint", "live", "ack"}

FullRun ==
  {"restart", "reconnect", "queued", "fencing", "secretRedaction", "telemetryRedaction", "packaged"}

(* One record of evidence, with any set of flags, and with the battery of  *)
(* a full run for a whole ladder, one with a rung missing, and one with a  *)
(* verification missing; and two records of few kinds.                     *)
Award == INSTANCE Adapter WITH
  Conn <- {c1}, AdapterId <- {alice}, Build <- {v1}, MaxRecord <- 1, open <- conns,
  Observed <- SUBSET Flags \cup
              {Flags \cup FullRun, (Flags \ {"manual"}) \cup FullRun, Flags \cup (FullRun \ {"queued"})}

Reaward == INSTANCE Adapter WITH
  Conn <- {c1}, AdapterId <- {alice}, Build <- {v1}, MaxRecord <- 2, open <- conns,
  Observed <- {{"send"}, Flags \cup FullRun}

Init ==
  /\ component \in {"dead letters", "cap", "threads", "removal", "schedule", "schedules", "ledger",
                   "award", "re-award"}
  /\ Dead!Init /\ Cap!Init /\ Audit!Init
  /\ IF component = "removal" THEN Removal!Init ELSE Pair!Init
  /\ IF component = "schedules" THEN Double!Init ELSE Single!Init
  /\ IF component = "re-award" THEN Reaward!Init ELSE Award!Init

DeadLetterStep ==
  component = "dead letters" /\ Dead!NextWithRecovery
    /\ UNCHANGED <<component, capVars, threadVars, scheduleVars, ledgerVars, adapterVars>>

CapStep ==
  component = "cap" /\ Cap!Next
    /\ UNCHANGED <<component, deliveryVars, threadVars, scheduleVars, ledgerVars, adapterVars>>

ThreadStep ==
  /\ \/ component = "threads" /\ Pair!Next
     \/ component = "removal" /\ Removal!Next
  /\ UNCHANGED <<component, deliveryVars, capVars, scheduleVars, ledgerVars, adapterVars>>

ScheduleStep ==
  /\ \/ component = "schedule" /\ Single!Next
     \/ component = "schedules" /\ Double!Next
  /\ UNCHANGED <<component, deliveryVars, capVars, threadVars, ledgerVars, adapterVars>>

LedgerStep ==
  component = "ledger" /\ Audit!Next
    /\ UNCHANGED <<component, deliveryVars, capVars, threadVars, scheduleVars, adapterVars>>

AdapterStep ==
  /\ \/ component = "award" /\ Award!Next
     \/ component = "re-award" /\ Reaward!Next
  /\ UNCHANGED <<component, deliveryVars, capVars, threadVars, scheduleVars, ledgerVars>>

Next == DeadLetterStep \/ CapStep \/ ThreadStep \/ ScheduleStep \/ LedgerStep \/ AdapterStep

Spec == Init /\ [][Next]_vars

-----------------------------------------------------------------------------
(* Properties.                                                             *)

(* Whatever is redriven, discarded or cancelled (deadletter.ts,            *)
(* cancellation.ts), and in whatever epoch: no body is shown twice in one  *)
(* epoch, live work has a timeout left before it is dead again, a terminal *)
(* state is left only by a redrive or a discard of a dead letter, and what *)
(* a hard cancel found waiting is neither shown nor acknowledged later.    *)
DeadLettersAreSafe ==
  [][component = "dead letters" =>
       /\ Dead!RedriveNeverDuplicates' /\ Dead!LiveWorkHasBudget'
       /\ Dead!OnlyDeadLettersMoveStep /\ Dead!CancelledIsFinalStep]_vars

(* With a cap on the timeouts of one session per sweep (reaper.ts), a due  *)
(* delivery waits no longer than the others of its session take.           *)
WaitIsBounded == component = "cap" => Cap!WaitIsBounded

(* Whatever sends, replies, console messages, retries and removals         *)
(* interleave (store.ts): turns are numbered without gaps, a turn answers  *)
(* an earlier turn of its thread, a retried call stores nothing, open work *)
(* has a live recipient, and what the operator has not seen stays unread   *)
(* until it is marked read.                                                *)
ThreadsAreSound ==
  [][/\ component = "threads" =>
          /\ Pair!TurnsAreDense' /\ Pair!AnswersOwnThread' /\ Pair!OpenWorkHasRecipient'
          /\ Pair!UnreadUntilMarkedStep
     /\ component = "removal" =>
          /\ Removal!TurnsAreDense' /\ Removal!AnswersOwnThread' /\ Removal!OpenWorkHasRecipient'
          /\ Removal!OneRowPerKey' /\ Removal!UnreadUntilMarkedStep]_vars

(* The scheduler (scheduler.ts) sends a one-time schedule once and loses   *)
(* it only to a refusal, keeps to the daily and the total limit over       *)
(* midnight and over a crash, and never takes a slot again, so that runs   *)
(* may be pruned.                                                          *)
SchedulesAreKept ==
  /\ component = "schedule" => Single!OnceIsSentOnce /\ Single!LimitsHold /\ Single!SlotsAdvance
  /\ component = "schedules" => Double!OnceIsSentOnce /\ Double!LimitsHold /\ Double!SlotsAdvance

(* Verification of the ledger (ledger.ts) names the first damaged row and  *)
(* nothing else, whatever was pruned and appended before and after, and no *)
(* mutation commits without its event.                                     *)
LedgerLocalizesDamage ==
  component = "ledger" =>
    /\ Audit!UndamagedVerifies /\ Audit!DamageIsLocalized
    /\ Audit!ReportsStay /\ Audit!NoStateWithoutEvent

(* The award of an adapter's connection (enforce.ts, tier.ts) is exactly   *)
(* what the evidence of its identity showed when it registered, and never  *)
(* outlives the registration it was made for.                              *)
AwardIsWhatTheEvidenceShows ==
  /\ component = "award" => Award!NoStaleAward /\ Award!AwardIsWhatTheEvidenceShows
  /\ component = "re-award" => Reaward!NoStaleAward /\ Reaward!AwardIsWhatTheEvidenceShows
=============================================================================
