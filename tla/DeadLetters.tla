---------------------------- MODULE DeadLetters ----------------------------
(***************************************************************************)
(* The delivery core together with the two stores that take work out of    *)
(* its normal course: src/broker/deadletter.ts (redrive and discard of a   *)
(* dead letter) and src/broker/cancellation.ts (cancel by the sender).     *)
(* They write the same deliveries row as the operations of Delivery.  The  *)
(* broker serves the listing of dead letters; redrive, discard and cancel  *)
(* have no frame yet and are exercised by the repository's tests.          *)
(***************************************************************************)
EXTENDS Delivery

(* Mutant: the counters of the dead attempt are carried over.              *)
MutRedriven(d) ==
  [QueuedDelivery(d.ttl) EXCEPT !.attempts = d.attempts]

(* The row after a redrive: a new delivery id, queued, and the counters,   *)
(* the failure category, the backoff, the lease and the target generation  *)
(* of the old attempt cleared.  The acceptance TTL stays.                  *)
Redriven(d) == QueuedDelivery(d.ttl)

(* Mutant: the injection ledger of the message is cleared as well.         *)
MutRedrive(m) ==
  /\ del[m].state = "dead_letter"
  /\ del' = [del EXCEPT ![m] = Redriven(@)]
  /\ inj' = [inj EXCEPT ![m] = [e \in Epoch |-> <<>>]]
  /\ UNCHANGED <<sess, msg, rcpt, nextSeq, shown>>

(* redrive.  `validate' is the caller's and may refuse, which changes      *)
(* nothing; the context_injections of the message are counted for the      *)
(* warning and left alone.                                                 *)
Redrive(m) ==
  /\ del[m].state = "dead_letter"
  /\ del' = [del EXCEPT ![m] = Redriven(@)]
  /\ UNCHANGED <<sess, msg, inj, rcpt, nextSeq, shown>>

(* Mutant: the update has no state clause.                                 *)
MutDiscard(m) ==
  /\ Stored(m)
  /\ del' = [del EXCEPT ![m].state = "cancelled", ![m].category = "discarded"]
  /\ UNCHANGED <<sess, msg, inj, rcpt, nextSeq, shown>>

(* discard.                                                                *)
Discard(m) ==
  /\ del[m].state = "dead_letter"
  /\ del' = [del EXCEPT ![m].state = "cancelled", ![m].category = "discarded"]
  /\ UNCHANGED <<sess, msg, inj, rcpt, nextSeq, shown>>

(* Mutant: a hard cancel parks the delivery in a state that still waits.   *)
MutCancel(m) ==
  /\ del[m].state \in Waiting
  /\ del' = [del EXCEPT ![m].state = "retry_wait"]
  /\ UNCHANGED <<sess, msg, inj, rcpt, nextSeq, shown>>

(* cancel: a hard cancel of what waits.  In flight or accepted it is       *)
(* advisory and in a terminal state refused: both only write the audit.    *)
Cancel(m) ==
  /\ del[m].state \in Waiting
  /\ del' = [del EXCEPT ![m].state = "cancelled"]
  /\ UNCHANGED <<sess, msg, inj, rcpt, nextSeq, shown>>

NextWithRecovery ==
  \/ Next
  \/ \E m \in Message : Redrive(m) \/ Discard(m) \/ Cancel(m)

RecoverySpec == Init /\ [][NextWithRecovery]_vars

-----------------------------------------------------------------------------
(* The header of deadletter.ts: a redrive "never silently duplicates an    *)
(* injected request".  Whatever is redriven, in whatever epoch, after any  *)
(* number of timeouts, each epoch sees the body once, because the ledger   *)
(* outlives the delivery identity.                                         *)
RedriveNeverDuplicates ==
  \A m \in Message, e \in Epoch : shown[m][e] <= 1

(* Work that is still to be delivered has a timeout left before it is dead *)
(* again: redrive resets the counters because otherwise a message dead of  *)
(* ack timeouts "would be re-dead-lettered on the first ack timeout".      *)
LiveWorkHasBudget ==
  \A m \in Message : del[m].state \in Live => del[m].attempts < maxAttempts

(* A terminal state is left in two ways only: a dead letter is queued as a *)
(* fresh attempt, or it is discarded.  Nothing else the broker does brings *)
(* back what was completed, rejected, expired, cancelled or discarded.     *)
OnlyDeadLettersMoveStep ==
  \A m \in Message :
    isTerminal(del[m].state) /\ del'[m].state # del[m].state
      => /\ del[m].state = "dead_letter"
         /\ \/ del'[m].state = "cancelled"
            \/ del'[m].state = "queued" /\ del'[m].attempts = 0

OnlyDeadLettersMove == [][OnlyDeadLettersMoveStep]_vars

(* What a sender may rely on after a hard cancel ("delivery prevented"):   *)
(* a delivery that a cancel found waiting is not shown to anyone any more, *)
(* in this epoch or a later one, and never acknowledged.                   *)
CancelledIsFinalStep ==
  \A m \in Message :
    Cancel(m) \/ del[m].state = "cancelled"
      => /\ del'[m].state = "cancelled"
         /\ shown'[m] = shown[m] /\ rcpt'[m].ack = rcpt[m].ack

CancelledIsFinal == [][CancelledIsFinalStep]_vars

-----------------------------------------------------------------------------
(* What the repository says and the code does not do.                      *)

(* cancellation.ts answers a hard cancel with "delivery prevented before   *)
(* any context injection", and its header says that it must not claim a    *)
(* cancel "once the message may already be in the model".                  *)
CancelledBeforeInjection ==
  [][\A m \in Message : Cancel(m) => \A e \in Epoch : shown[m][e] = 0]_vars

(* ADR 0027: "dead-letter redrive already re-presents correctly".  The     *)
(* first pull of a delivery attempt (target_generation is still NULL) of a *)
(* session that has not expired presents the body.                         *)
AttemptIsPresented ==
  [][\A m \in Message :
       /\ Stored(m) /\ ~sess[msg[m].to].expired
       /\ del[m].gen = 0 /\ del'[m].state = "transport_written"
       => \E e \in Epoch : shown'[m][e] > shown[m][e]]_vars
=============================================================================
