------------------------------- MODULE SelfHeal -------------------------------
(***************************************************************************)
(* The bounded reconnect planner (channel/self-heal.ts) and a caller that  *)
(* keeps to its contract: it asks planSelfHeal, records each attempt it is *)
(* told to make, and resets the episode when it finds the channel healthy. *)
(* No caller is wired in the repository.                                   *)
(*                                                                         *)
(* The clock starts at 1: 0 stands for "no attempt yet" in lastAttemptAt.  *)
(***************************************************************************)
EXTENDS Integers, Sequences, SequencesExt, FiniteSetsExt

CONSTANTS maxAttempts, baseBackoffMs, maxBackoffMs,  \* SelfHealPolicy
          MaxDrops    \* bound: episodes

VARIABLES condition,  \* ChannelCondition
          state,      \* SelfHealState
          now,
          advice,     \* what the planner said last
          tries,      \* ghost: times of the attempts of this episode
          drops

vars == <<condition, state, now, advice, tries, drops>>

Unhealthy == {"disconnected", "never_registered", "broker_unreachable"}

backoffForAttempt(attempt) == Min({baseBackoffMs * 2^attempt, maxBackoffMs})

recordAttempt(s, t) == [attempts |-> s.attempts + 1, lastAttemptAt |-> t]

resetSelfHeal == [attempts |-> 0, lastAttemptAt |-> 0]

MutPlanBudget(c, s, t) ==  (* Mutant: one attempt too many. *)
  IF c = "connected" THEN "noop"
  ELSE IF s.attempts > maxAttempts THEN "degrade"
  ELSE IF s.lastAttemptAt > 0 /\ t - s.lastAttemptAt < backoffForAttempt(s.attempts) THEN "backoff"
  ELSE "attempt"

MutPlanFirst(c, s, t) ==  (* Mutant: every wait is the first one. *)
  IF c = "connected" THEN "noop"
  ELSE IF s.attempts >= maxAttempts THEN "degrade"
  ELSE IF s.lastAttemptAt > 0 /\ t - s.lastAttemptAt < baseBackoffMs THEN "backoff"
  ELSE "attempt"

MutPlanOrder(c, s, t) ==  (* Mutant: a spent budget still waits for the backoff, which never ends. *)
  IF c = "connected" THEN "noop"
  ELSE IF s.lastAttemptAt > 0 THEN "backoff"
  ELSE IF s.attempts >= maxAttempts THEN "degrade"
  ELSE "attempt"

planSelfHeal(c, s, t) ==
  IF c = "connected" THEN "noop"
  ELSE IF s.attempts >= maxAttempts THEN "degrade"
  ELSE IF s.lastAttemptAt > 0 /\ t - s.lastAttemptAt < backoffForAttempt(s.attempts) THEN "backoff"
  ELSE "attempt"

Init == condition \in Unhealthy /\ state = resetSelfHeal /\ now = 1 /\ advice = "noop" /\ tries = <<>> /\ drops = 0

(* The caller's path runs: an attempt that succeeds connects the channel.   *)
Heal ==
  LET plan == planSelfHeal(condition, state, now)
  IN  /\ advice' = plan
      /\ CASE plan = "noop"    -> state' = resetSelfHeal /\ tries' = <<>> /\ UNCHANGED condition
           [] plan = "attempt" -> /\ state' = recordAttempt(state, now) /\ tries' = Append(tries, now)
                                  /\ condition' \in {"connected", condition}
           [] OTHER            -> UNCHANGED <<state, tries, condition>>
      /\ UNCHANGED <<now, drops>>

(* The clock; time that no backoff depends on is left out. *)
Elapse ==
  /\ state.lastAttemptAt > 0 /\ now - state.lastAttemptAt < maxBackoffMs
  /\ now' = now + 1
  /\ UNCHANGED <<condition, state, advice, tries, drops>>

(* The channel goes down after it was found healthy. *)
Drop ==
  /\ condition = "connected" /\ state = resetSelfHeal /\ drops < MaxDrops
  /\ condition' \in Unhealthy /\ drops' = drops + 1
  /\ UNCHANGED <<state, now, advice, tries>>

(* One way of being down turns into another. *)
Shift ==
  /\ condition \in Unhealthy /\ condition' \in Unhealthy \ {condition}
  /\ UNCHANGED <<state, now, advice, tries, drops>>

Next == Heal \/ Elapse \/ Drop \/ Shift

Spec == Init /\ [][Next]_vars

(* The caller's path keeps executing and time passes. *)
Fair == WF_vars(Heal) /\ WF_vars(Elapse)

FairSpec == Spec /\ Fair

(***************************************************************************)
(* Properties.                                                             *)
(***************************************************************************)
(* planSelfHeal, over any sequence of losses, partial recoveries and kinds  *)
(* of failure: no episode makes more than maxAttempts attempts.             *)
AttemptsBounded == Len(tries) <= maxAttempts

(* Between two attempts of an episode lies the backoff of the later one,    *)
(* which doubles up to the cap.                                             *)
AttemptsSpaced == \A i \in 1..(Len(tries) - 1) : tries[i + 1] - tries[i] >= backoffForAttempt(i)

(* A channel that stays down is given up: the planner does not wait for     *)
(* ever, and does not try for ever.                                         *)
DownEndsInDegrade == []<>(condition = "connected" \/ advice = "degrade")
=============================================================================
