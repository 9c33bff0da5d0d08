------------------------------ MODULE Timeline ------------------------------
(***************************************************************************)
(* What the console says of one conversation: the states it derives for    *)
(* its turns (timeline.js, prestage.js), the flags of the thread list, and *)
(* the retry and the redelivery it offers (app.js), over the deliveries    *)
(* of the turns as the broker moves them.                                  *)
(*                                                                         *)
(* Time is what the derivations tell apart: whether a deadline has passed  *)
(* and whether a turn is older than the stall threshold.                   *)
(***************************************************************************)
EXTENDS Naturals, Sequences, FiniteSets

CONSTANT MaxTurn   \* bound: turns of the thread

VARIABLES
  turns,     \* the turns: author, raw delivery state, ack receipt, requiresReply,
             \* deadline ("none", "ahead", "passed"), old, and the turn it repeats
  dialog     \* the redelivery under way: [turn, phase]

vars == <<turns, dialog>>

Turn == 1 .. Len(turns)
NoDialog == [turn |-> 0, phase |-> "none"]

Init == turns = << >> /\ dialog = NoDialog

-----------------------------------------------------------------------------
(* The derivations.                                                        *)

mapDeliveryState(s) ==
  CASE s \in {"queued", "retry_wait", "dispatching"} -> "queued"
    [] s = "transport_written" -> "delivered"
    [] s = "accepted" -> "acknowledged"
    [] s = "completed" -> "replied"
    [] s \in {"dead_letter", "rejected", "expired", "cancelled"} -> "failed"

isPast(deadline) == deadline = "passed"

(* Mutant: a passed deadline beats a reply.                                *)
MutDeriveTurnState(t) ==
  LET ds == mapDeliveryState(t.state) IN
  IF isPast(t.deadline) THEN "expired"
  ELSE IF ds = "replied" THEN "replied"
  ELSE IF ds = "failed" \/ t.ack = "rejected" THEN "failed"
  ELSE IF ds = "acknowledged" THEN IF t.reply THEN "reply-pending" ELSE "acknowledged"
  ELSE IF ds = "delivered" THEN "injected" ELSE "queued"

deriveTurnState(t) ==
  LET ds == mapDeliveryState(t.state) IN
  IF ds = "replied" THEN "replied"
  ELSE IF ds = "failed" \/ t.ack = "rejected" THEN "failed"
  ELSE IF isPast(t.deadline) THEN "expired"
  ELSE IF ds = "acknowledged" THEN IF t.reply THEN "reply-pending" ELSE "acknowledged"
  ELSE IF ds = "delivered" THEN "injected" ELSE "queued"

(* Mutant: a turn that waits for its reply is never stalled.               *)
MutIsStalled(t) ==
  t.author = "operator" /\
  \/ deriveTurnState(t) \in {"failed", "expired"}
  \/ deriveTurnState(t) \in {"queued", "injected"} /\ t.old

isStalled(t) ==
  t.author = "operator" /\
  \/ deriveTurnState(t) \in {"failed", "expired"}
  \/ deriveTurnState(t) \in {"queued", "injected", "reply-pending"} /\ t.old

(* summarizeThreadWork, and what the header of the open thread makes of it.*)
summarizeThreadWork ==
  LET count(P(_)) == Cardinality({i \in Turn : P(turns[i])})
      isFailed(t) == deriveTurnState(t) = "failed"
      isExpired(t) == deriveTurnState(t) = "expired" IN
  [failed |-> count(isFailed), expired |-> count(isExpired), stalled |-> count(isStalled)]

needsAttention ==
  LET w == summarizeThreadWork IN w.failed > 0 \/ w.expired > 0 \/ w.stalled > 0

(* threads(): the list knows the last turn only.                           *)
latestTurnState == mapDeliveryState(turns[Len(turns)].state)

threadListAttention ==
  IF turns = << >> THEN "none"
  ELSE IF latestTurnState = "failed" THEN "failed"
  ELSE IF latestTurnState # "replied" /\ turns[Len(turns)].old THEN "stalled"
  ELSE "none"

retryOffered(t) == t.author = "operator" /\ deriveTurnState(t) \in {"failed", "expired"}

canRedeliverTurn(t) ==
  t.author = "operator" /\
  deriveTurnState(t) \in {"injected", "acknowledged", "reply-pending", "failed", "expired"}

-----------------------------------------------------------------------------
(* The conversation.                                                       *)

NewTurn(author, reply, deadline, of) ==
  [author |-> author, state |-> "queued", ack |-> "none", reply |-> reply,
   deadline |-> deadline, old |-> FALSE, of |-> of]

CanAdd == Len(turns) < MaxTurn

OperatorTurn(reply, deadline) ==
  /\ CanAdd
  /\ turns' = Append(turns, NewTurn("operator", reply, deadline, 0))
  /\ UNCHANGED dialog

Move(i, from, to) ==
  /\ turns[i].author = "operator" /\ turns[i].state \in from
  /\ turns' = [turns EXCEPT ![i].state = to]
  /\ UNCHANGED dialog

Pull(i) == turns[i].deadline # "passed" /\ Move(i, {"queued", "retry_wait"}, "transport_written")
AckTimeout(i) == \E to \in {"retry_wait", "dead_letter"} : Move(i, {"transport_written"}, to)
AcceptanceTtl(i) == turns[i].deadline = "passed" /\ Move(i, {"queued", "retry_wait"}, "expired")

Ack(i, ok) ==
  /\ turns[i].author = "operator" /\ turns[i].state = "transport_written"
  /\ turns' = [turns EXCEPT ![i].state = IF ok THEN "accepted" ELSE "rejected",
                            ![i].ack = IF ok THEN "accepted" ELSE "rejected"]
  /\ UNCHANGED dialog

(* The reply is a turn addressed to the operator, who never pulls it.      *)
Reply(i) ==
  /\ CanAdd
  /\ turns[i].author = "operator" /\ turns[i].state \in {"transport_written", "accepted"}
  /\ turns' = Append([turns EXCEPT ![i].state = "completed"], NewTurn("claude", FALSE, "none", 0))
  /\ UNCHANGED dialog

(* A turn grows old after the turns before it.                             *)
GrowOld(i) ==
  /\ ~turns[i].old /\ \A j \in 1 .. i - 1 : turns[j].old
  /\ turns' = [turns EXCEPT ![i].old = TRUE]
  /\ UNCHANGED dialog

DeadlinePasses(i) ==
  /\ turns[i].deadline = "ahead"
  /\ turns' = [turns EXCEPT ![i].deadline = "passed"]
  /\ UNCHANGED dialog

(* retryTurn: the text again, as a message of its own, with no deadline.   *)
retryTurn(i) ==
  /\ CanAdd /\ retryOffered(turns[i])
  /\ turns' = Append(turns, NewTurn("operator", turns[i].reply, "none",
                                    IF turns[i].of = 0 THEN i ELSE turns[i].of))
  /\ UNCHANGED dialog

-----------------------------------------------------------------------------
(* redeliverTurn.                                                          *)

(* Mutant: accepted work is put back in the queue unasked.                 *)
MutOperatorRedeliver(i, confirmed) ==
  IF turns[i].state \in {"queued", "retry_wait", "transport_written", "accepted"} THEN "queued" ELSE "refused"

operatorRedeliver(i, confirmed) ==
  IF turns[i].state \in {"queued", "retry_wait", "transport_written"} \/ (turns[i].state = "accepted" /\ confirmed)
  THEN "queued" ELSE "refused"

(* The first attempt, unconfirmed.  The broker refuses accepted work and   *)
(* a terminal delivery with the same code, and redeliverNeedsReplayConfirm *)
(* takes it for the first: the page asks.                                  *)
Redeliver(i) ==
  LET to == operatorRedeliver(i, FALSE) IN
  /\ dialog = NoDialog /\ canRedeliverTurn(turns[i])
  /\ turns' = IF to = "queued" THEN [turns EXCEPT ![i].state = to] ELSE turns
  /\ dialog' = IF to = "queued" THEN NoDialog ELSE [turn |-> i, phase |-> "asking"]

(* The operator answers; a confirmed replay that is refused is an error.   *)
Confirm(yes) ==
  LET i == dialog.turn IN
  /\ dialog.phase = "asking"
  /\ turns' = IF yes /\ operatorRedeliver(i, TRUE) = "queued" THEN [turns EXCEPT ![i].state = "queued"] ELSE turns
  /\ dialog' = NoDialog

Next ==
  \/ \E r \in BOOLEAN, d \in {"none", "ahead"} : OperatorTurn(r, d)
  \/ \E i \in Turn : \/ Pull(i) \/ AckTimeout(i) \/ AcceptanceTtl(i) \/ Reply(i)
                     \/ GrowOld(i) \/ DeadlinePasses(i) \/ retryTurn(i) \/ Redeliver(i)
                     \/ \E ok \in BOOLEAN : Ack(i, ok)
  \/ \E yes \in BOOLEAN : Confirm(yes)

Spec == Init /\ [][Next]_vars

-----------------------------------------------------------------------------

(* Whatever the clock does later, a turn that was answered is offered      *)
(* neither a retry nor a redelivery and is not counted as stalled.         *)
AnsweredIsSettled ==
  \A i \in Turn : turns[i].state = "completed" =>
    ~retryOffered(turns[i]) /\ ~canRedeliverTurn(turns[i]) /\ ~isStalled(turns[i])

(* A message of the operator that still owes an answer, or ended without   *)
(* one, does not go unnoticed: once it is old the open thread asks for     *)
(* attention.                                                              *)
OwedIsNoticed ==
  (\E i \in Turn : /\ turns[i].author = "operator" /\ turns[i].old /\ turns[i].reply
                   /\ turns[i].state # "completed") => needsAttention

(* Accepted work goes back to the queue only through the dialog, never by  *)
(* a first attempt that raced with the acknowledgement.                    *)
AcceptedReplayIsConfirmedStep ==
  \A i \in Turn : turns[i].state = "accepted" /\ turns'[i].state = "queued" =>
    dialog.turn = i

AcceptedReplayIsConfirmed == [][AcceptedReplayIsConfirmedStep]_vars

-----------------------------------------------------------------------------
(* What the repository says and the code does not do.                      *)

(* "No reply yet": a thread the list flags as stalled has a message of the *)
(* operator that was not answered.                                         *)
StalledMeansUnanswered ==
  threadListAttention = "stalled" =>
    \E i \in Turn : turns[i].author = "operator" /\ turns[i].state # "completed"

(* "This message was already ACCEPTED by the recipient": the page asks     *)
(* about a message that was accepted.                                      *)
AskedWasAccepted ==
  dialog.phase = "asking" => turns[dialog.turn].ack = "accepted"

(* "Safe retry for a FAILED or EXPIRED operator turn": the recipient does  *)
(* not accept both a turn and the turn that repeats it.                    *)
RetryIsSafe ==
  \A i, j \in Turn : turns[j].of = i =>
    ~(turns[i].state \in {"accepted", "completed"} /\ turns[j].state \in {"accepted", "completed"})
=============================================================================
