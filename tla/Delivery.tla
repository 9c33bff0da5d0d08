------------------------------ MODULE Delivery ------------------------------
(***************************************************************************)
(* The delivery core of the broker: what happens to a message between the  *)
(* send that stores it and the ack, reply, timeout or expiry that ends it. *)
(* Sources: src/broker/delivery.ts, receipts.ts, reaper.ts, controls.ts,   *)
(* the register, send, readiness and redeliver operations of store.ts, and *)
(* the frame handlers of daemon.ts that call them.                         *)
(*                                                                         *)
(* The broker is one Node process over a synchronous SQLite handle, so a   *)
(* handler is one atomic step; what interleaves is the order in which the  *)
(* connections, the reaper's timer and the clock take their steps.         *)
(*                                                                         *)
(* Time.  An ISO timestamp column `x_at' is modelled by what is left of it,*)
(* max(0, x_at - now): 0 means "<= now", and None stands for SQL NULL.     *)
(* Tick lets a unit pass.  So time is unbounded and the state is finite.   *)
(***************************************************************************)
EXTENDS Integers, Sequences, FiniteSets

-----------------------------------------------------------------------------
(* The state table of protocol/states.ts.                                  *)

(* "absent" is not a state of the code: it stands for "no row yet".        *)
DeliveryState ==
  {"absent", "queued", "dispatching", "transport_written", "accepted",
   "completed", "retry_wait", "rejected", "expired", "dead_letter",
   "cancelled"}

TERMINAL_STATES ==
  {"completed", "rejected", "expired", "dead_letter", "cancelled"}

(* The states the checkpoint and the reaper select as "not yet injected".  *)
Waiting == {"queued", "retry_wait"}

(* The states a recipient, or the reaper, still has to move on.            *)
Live == Waiting \cup {"transport_written"}

(* EDGES, without the trigger names: <<from, to>>.                         *)
EDGES ==
  {<<"queued", "dispatching">>,
   <<"dispatching", "transport_written">>, <<"dispatching", "retry_wait">>,
   <<"transport_written", "accepted">>, <<"transport_written", "rejected">>,
   <<"transport_written", "completed">>, <<"transport_written", "retry_wait">>,
   <<"accepted", "completed">>, <<"accepted", "rejected">>,
   <<"retry_wait", "dispatching">>, <<"retry_wait", "dead_letter">>}
  \cup ({"queued", "dispatching", "transport_written", "accepted", "retry_wait"}
        \X {"expired", "cancelled"})

isTerminal(state) == state \in TERMINAL_STATES

isLegalTransition(from, to) == <<from, to>> \in EDGES

-----------------------------------------------------------------------------
CONSTANTS
  Session,        \* session ids
  Message,        \* message ids the id generator may still hand out
  Null,           \* the NULL of a session or message column
  Request,        \* the send requests peers make
  MaxEpoch,       \* bound: lifecycles of one session
  MaxLogical,     \* bound: injections of one message in one epoch
  maxAttempts,    \* DEFAULT_BACKOFF.maxAttempts
  maxBackoff,     \* longest retry delay
  ackDeadline,    \* ackDeadlineMs
  injectionTtl,   \* ReceiptStore.ttlMs
  retention       \* MEANINGFUL_ACTIVITY_RETENTION_MS

None == -1

Timer == Nat \cup {None}

SendInput ==
  [from : Session, to : Session, ack : BOOLEAN, reply : BOOLEAN, ttl : Timer]

ASSUME NullAssumption == Null \notin Session \cup Message

ASSUME RequestAssumption == Request \subseteq SendInput

ASSUME BoundAssumption ==
  /\ MaxEpoch \in Nat \ {0} /\ MaxLogical \in Nat \ {0}
  /\ maxAttempts \in Nat \ {0} /\ maxBackoff \in Nat
  /\ ackDeadline \in Nat \ {0} /\ injectionTtl \in Nat \ {0}
  /\ retention \in Nat \ {0}

Epoch == 1 .. MaxEpoch

VARIABLES
  sess,     \* sessions: active_epoch, readiness, control, expired_at, expires_at
  msg,      \* messages: the immutable row
  del,      \* deliveries: the row that moves
  inj,      \* context_injections, by message and epoch, in logical order
  rcpt,     \* receipts of type ack and reply, by message
  nextSeq,  \* recipient_sequences
  shown     \* history: bodies handed out by a pull, by message and epoch

vars == <<sess, msg, del, inj, rcpt, nextSeq, shown>>

-----------------------------------------------------------------------------
(* Rows.                                                                   *)

SessionRow ==
  [epoch : 0 .. MaxEpoch, ready : BOOLEAN, active : BOOLEAN,
   expired : BOOLEAN, idle : Timer]

MessageRow ==
  [from : Session \cup {Null}, to : Session \cup {Null}, ack : BOOLEAN,
   reply : BOOLEAN, seq : Nat, parent : Message \cup {Null}]

FailureCategory ==
  {"none", "ack_timeout", "ack_timeout_exhausted", "expired_before_injection",
   "recipient_inactive_15_days", "reply_pending_unanswered_15_days"}

DeliveryRow ==
  [state : DeliveryState, lease : Timer, next : Timer, ttl : Timer,
   attempts : Nat, gen : 0 .. MaxEpoch, category : FailureCategory]

InjectionRow == [ttl : Nat, used : {"none", "ack", "reply"}]

ReceiptRow == [ack : {"none", "accepted", "rejected"}, reply : BOOLEAN]

NoSession ==
  [epoch |-> 0, ready |-> FALSE, active |-> TRUE, expired |-> FALSE,
   idle |-> None]

NoMessage ==
  [from |-> Null, to |-> Null, ack |-> FALSE, reply |-> FALSE, seq |-> 0,
   parent |-> Null]

Stored(m) == del[m].state # "absent"

(* A stored delivery starts queued, with every nullable column NULL.       *)
QueuedDelivery(ttl) ==
  [state |-> "queued", lease |-> None, next |-> None, ttl |-> ttl,
   attempts |-> 0, gen |-> 0, category |-> "none"]

NewInjection(ttl) == [ttl |-> ttl, used |-> "none"]

Init ==
  /\ sess = [s \in Session |-> NoSession]
  /\ msg = [m \in Message |-> NoMessage]
  /\ del = [m \in Message |-> [QueuedDelivery(None) EXCEPT !.state = "absent"]]
  /\ inj = [m \in Message |-> [e \in Epoch |-> <<>>]]
  /\ rcpt = [m \in Message |-> [ack |-> "none", reply |-> FALSE]]
  /\ nextSeq = [s \in Session |-> 1]
  /\ shown = [m \in Message |-> [e \in Epoch |-> 0]]

-----------------------------------------------------------------------------
(* What several operations share.                                          *)

(* A registered connection keeps the authority of the epoch it registered  *)
(* under, also after that epoch is superseded: the actions below take any  *)
(* epoch handed out so far, and assertCurrentEpoch decides.                *)
Held(s) == 1 .. sess[s].epoch

(* Mutant: the fence lets superseded epochs through.                       *)
MutAssertCurrentEpoch(s, e) == e <= sess[s].epoch

assertCurrentEpoch(s, e) == sess[s].epoch = e

(* refreshActivity / refreshMeaningfulActivity: a tombstone stays as it is.*)
refreshActivity(s) ==
  [sess EXCEPT ![s].idle = IF sess[s].expired THEN @ ELSE retention]

ackDeadlineFor(m) == IF msg[m].ack THEN ackDeadline ELSE None

(* Mutant: dead letters are still selected.                                *)
MutPending(s) ==
  {m \in Message : /\ msg[m].to = s
                   /\ del[m].state \in Waiting \cup {"dead_letter"}
                   /\ del[m].ttl # 0
                   /\ del[m].next <= 0}

(* pendingForSession(Id): waiting, acceptance TTL open, backoff elapsed.   *)
Pending(s) ==
  {m \in Message : /\ msg[m].to = s
                   /\ del[m].state \in Waiting
                   /\ del[m].ttl # 0
                   /\ del[m].next <= 0}

(* Mutant: no ORDER BY.                                                    *)
MutBatches(s) == SUBSET Pending(s) \ {{}}

(* ORDER BY recipient_sequence LIMIT n, for the n the caller asked for.    *)
Batches(s) ==
  {B \in SUBSET Pending(s) :
     /\ B # {}
     /\ \A m \in B, n \in Pending(s) : msg[n].seq < msg[m].seq => n \in B}

(* Mutant: issue does not see the row that is already there.               *)
MutFresh(m, e) == TRUE

(* issue(logical number 1) returns an id only once per (message, epoch).   *)
Fresh(m, e) == inj[m][e] = <<>>

(* Mutant: fire-and-forget messages are not closed out.                    *)
MutCompletesOnInjection(m, e) == FALSE

(* completeIfNoResponseRequired, reached only with a fresh injection.      *)
CompletesOnInjection(m, e) == Fresh(m, e) /\ ~msg[m].ack /\ ~msg[m].reply

(* The delivery row after the compare-and-set to transport_written and the *)
(* close-out: next_attempt_at and the category survive unless it completes.*)
Injected(m, e) ==
  IF CompletesOnInjection(m, e)
  THEN [del[m] EXCEPT !.state = "completed", !.lease = None, !.next = None,
                      !.gen = e, !.category = "none"]
  ELSE [del[m] EXCEPT !.state = "transport_written",
                      !.lease = ackDeadlineFor(m), !.gen = e]

(* One pull of the batch B in epoch e: every row is re-marked, but a body  *)
(* already injected in this epoch is suppressed.  Only a pull that shows a *)
(* body counts as activity of the recipient.                               *)
Inject(s, e, B) ==
  /\ del' = [m \in Message |-> IF m \in B THEN Injected(m, e) ELSE del[m]]
  /\ inj' = [m \in Message |->
               IF m \in B /\ Fresh(m, e)
               THEN [inj[m] EXCEPT ![e] = <<NewInjection(injectionTtl)>>]
               ELSE inj[m]]
  /\ shown' = [m \in Message |->
                 IF m \in B /\ Fresh(m, e)
                 THEN [shown[m] EXCEPT ![e] = @ + 1] ELSE shown[m]]
  /\ sess' = IF \E m \in B : Fresh(m, e) THEN refreshActivity(s) ELSE sess
  /\ UNCHANGED <<msg, rcpt, nextSeq>>

(* ReceiptStore.authorize for the i-th injection of m in epoch e: named by *)
(* the caller, or the latest when no injection id is given.                *)
authorize(m, e, i, op) ==
  /\ i \in 1 .. Len(inj[m][e])
  /\ inj[m][e][i].ttl > 0
  /\ inj[m][e][i].used # op

(* ReceiptStore.consume overwrites consumed_op.                            *)
consume(m, e, i, op) == [inj EXCEPT ![m][e][i].used = op]

(* Mutant: the sequence counter is not advanced.                           *)
MutStore(r, row) ==
  /\ ~Stored(r)
  /\ msg' = [msg EXCEPT ![r] = row]
  /\ UNCHANGED nextSeq

(* The messages row of a new message r, with the recipient's next sequence.*)
Store(r, row) ==
  /\ ~Stored(r)
  /\ msg' = [msg EXCEPT ![r] = row]
  /\ nextSeq' = [nextSeq EXCEPT ![row.to] = @ + 1]

-----------------------------------------------------------------------------
(* Sessions, as far as delivery depends on them.                           *)

(* register: the first registration of a session id.                       *)
RegisterFirst(s) ==
  /\ sess[s].epoch = 0
  /\ sess' = [sess EXCEPT ![s].epoch = 1, ![s].idle = retention]
  /\ UNCHANGED <<msg, del, inj, rcpt, nextSeq, shown>>

(* Mutant: reply authority stays behind in the old epoch.                  *)
MutRegisterFresh(s) ==
  /\ sess[s].epoch \in 1 .. MaxEpoch - 1
  /\ sess' = [sess EXCEPT ![s].epoch = @ + 1, ![s].ready = FALSE,
                          ![s].expired = FALSE, ![s].idle = retention]
  /\ del' = [m \in Message |->
               IF msg[m].to = s /\ del[m].state = "transport_written"
               THEN [del[m] EXCEPT !.state = "queued"] ELSE del[m]]
  /\ UNCHANGED <<msg, inj, rcpt, nextSeq, shown>>

(* register with supersede, or of an expired session: a new epoch.  What   *)
(* was in flight is queued again (its lease is left behind), and every     *)
(* accepted delivery that still owes a reply gets reply authority in the   *)
(* new epoch (rehomeAcceptedReplyAuthority), without showing its body.     *)
RegisterFresh(s) ==
  /\ sess[s].epoch \in 1 .. MaxEpoch - 1
  /\ LET e == sess[s].epoch + 1 IN
       /\ sess' = [sess EXCEPT ![s].epoch = e, ![s].ready = FALSE,
                               ![s].expired = FALSE, ![s].idle = retention]
       /\ inj' = [m \in Message |->
                    IF /\ msg[m].to = s /\ del[m].state = "accepted"
                       /\ msg[m].reply /\ Fresh(m, e)
                    THEN [inj[m] EXCEPT ![e] = <<NewInjection(retention)>>]
                    ELSE inj[m]]
  /\ del' = [m \in Message |->
               IF msg[m].to = s /\ del[m].state = "transport_written"
               THEN [del[m] EXCEPT !.state = "queued"] ELSE del[m]]
  /\ UNCHANGED <<msg, rcpt, nextSeq, shown>>

(* register of a further component: it joins the current epoch, and what   *)
(* is in flight without a running lease is queued again.                   *)
RegisterJoin(s) ==
  /\ sess[s].epoch > 0 /\ ~sess[s].expired
  /\ del' = [m \in Message |->
               IF /\ msg[m].to = s /\ del[m].state = "transport_written"
                  /\ del[m].lease <= 0
               THEN [del[m] EXCEPT !.state = "queued"] ELSE del[m]]
  /\ UNCHANGED <<sess, msg, inj, rcpt, nextSeq, shown>>

(* signal_readiness: r is the verdict of resolveReadiness, a READY state   *)
(* or one of the others.                                                   *)
SignalReadiness(s, e, r) ==
  /\ assertCurrentEpoch(s, e)
  /\ sess' = [sess EXCEPT ![s].ready = r]
  /\ UNCHANGED <<msg, del, inj, rcpt, nextSeq, shown>>

(* Mutant: a rename that resumes the session leaves its readiness alone.   *)
MutRenameSession(s, e) ==
  /\ assertCurrentEpoch(s, e)
  /\ sess' = [sess EXCEPT ![s].expired = FALSE, ![s].idle = retention]
  /\ UNCHANGED <<msg, del, inj, rcpt, nextSeq, shown>>

(* renameSession, once the name is won (Identity has the names).  A rename *)
(* of an expired session resumes it in the epoch it expired in, and only   *)
(* then touches the readiness.                                             *)
RenameSession(s, e) ==
  /\ assertCurrentEpoch(s, e)
  /\ sess' = [sess EXCEPT ![s].ready = sess[s].ready /\ ~sess[s].expired,
                          ![s].expired = FALSE, ![s].idle = retention]
  /\ UNCHANGED <<msg, del, inj, rcpt, nextSeq, shown>>

(* set_control by the session itself is meaningful activity ...            *)
SetControl(s, a) ==
  /\ sess[s].epoch > 0
  /\ sess' = [refreshActivity(s) EXCEPT ![s].active = a]
  /\ UNCHANGED <<msg, del, inj, rcpt, nextSeq, shown>>

(* ... and by the operator console is not.                                 *)
OperatorSetControl(s, a) ==
  /\ sess[s].epoch > 0
  /\ sess' = [sess EXCEPT ![s].active = a]
  /\ UNCHANGED <<msg, del, inj, rcpt, nextSeq, shown>>

-----------------------------------------------------------------------------
(* Messages.                                                               *)

(* Mutant: the recipient is not resolved before the insert.                *)
MutSend(m, r) ==
  /\ sess[r.from].epoch > 0
  /\ Store(m, [from |-> r.from, to |-> r.to, ack |-> r.ack,
               reply |-> r.reply, seq |-> nextSeq[r.to], parent |-> Null])
  /\ del' = [del EXCEPT ![m] = QueuedDelivery(r.ttl)]
  /\ sess' = refreshActivity(r.from)
  /\ UNCHANGED <<inj, rcpt, shown>>

(* send.  There is no epoch check on this path: any registered connection  *)
(* may send.  A retry under a known idempotency key is answered from the   *)
(* stored row and changes nothing.                                         *)
Send(m, r) ==
  /\ sess[r.from].epoch > 0 /\ sess[r.to].epoch > 0 /\ ~sess[r.to].expired
  /\ Store(m, [from |-> r.from, to |-> r.to, ack |-> r.ack,
               reply |-> r.reply, seq |-> nextSeq[r.to], parent |-> Null])
  /\ del' = [del EXCEPT ![m] = QueuedDelivery(r.ttl)]
  /\ sess' = refreshActivity(r.from)
  /\ UNCHANGED <<inj, rcpt, shown>>

(* checkpoint_pull_hook (role hook) and inbox (role mcp, inboxView): the   *)
(* session must be ready and its control active.                           *)
CheckpointPull(s, e, B) ==
  /\ assertCurrentEpoch(s, e) /\ sess[s].ready /\ sess[s].active
  /\ B \in Batches(s)
  /\ Inject(s, e, B)

(* process_next: the next message only, whatever the control says.         *)
ProcessNext(s, e, m) ==
  /\ assertCurrentEpoch(s, e) /\ sess[s].ready
  /\ {m} \in Batches(s)
  /\ Inject(s, e, {m})

(* checkpoint_pull (onCheckpointPull: pendingForSession, markInjected).    *)
(* This path looks at neither readiness nor control.                       *)
ConnectionPull(s, e, B) ==
  /\ assertCurrentEpoch(s, e)
  /\ B \in Batches(s)
  /\ Inject(s, e, B)

(* redeliver: the body again, under the next logical number.  The delivery *)
(* row is not consulted and not changed.                                   *)
Redeliver(s, e, m) ==
  /\ assertCurrentEpoch(s, e) /\ msg[m].to = s
  /\ Len(inj[m][e]) \in 1 .. MaxLogical - 1
  /\ inj' = [inj EXCEPT ![m][e] = Append(@, NewInjection(injectionTtl))]
  /\ sess' = refreshActivity(s)
  /\ UNCHANGED <<msg, del, rcpt, nextSeq, shown>>

(* Mutant: the outcome of the compare-and-set is ignored.                  *)
MutAck(s, e, m, i, status) ==
  /\ assertCurrentEpoch(s, e) /\ msg[m].to = s
  /\ rcpt[m].ack = "none"
  /\ authorize(m, e, i, "ack")
  /\ del' = [del EXCEPT ![m].state = IF @ = "transport_written"
                                     THEN status ELSE @]
  /\ rcpt' = [rcpt EXCEPT ![m].ack = status]
  /\ inj' = consume(m, e, i, "ack")
  /\ sess' = refreshActivity(s)
  /\ UNCHANGED <<msg, nextSeq, shown>>

(* ack: the first acknowledgement.  A later one is answered from the       *)
(* receipt (same status) or refused, and changes nothing.                  *)
Ack(s, e, m, i, status) ==
  /\ assertCurrentEpoch(s, e) /\ msg[m].to = s
  /\ rcpt[m].ack = "none"
  /\ authorize(m, e, i, "ack")
  /\ del[m].state = "transport_written"
  /\ del' = [del EXCEPT ![m].state = status]
  /\ rcpt' = [rcpt EXCEPT ![m].ack = status]
  /\ inj' = consume(m, e, i, "ack")
  /\ sess' = refreshActivity(s)
  /\ UNCHANGED <<msg, nextSeq, shown>>

(* reply: r is the stored answer to m.  The original delivery completes if *)
(* it is in flight or accepted; from any other state it stays.             *)
Reply(s, e, m, i, r) ==
  /\ assertCurrentEpoch(s, e) /\ msg[m].to = s
  /\ authorize(m, e, i, "reply")
  /\ ~sess[msg[m].from].expired
  /\ Store(r, [from |-> s, to |-> msg[m].from, ack |-> FALSE, reply |-> FALSE,
               seq |-> nextSeq[msg[m].from], parent |-> m])
  /\ del' = [del EXCEPT
               ![r] = QueuedDelivery(None),
               ![m].state = IF @ \in {"accepted", "transport_written"}
                            THEN "completed" ELSE @]
  /\ rcpt' = [rcpt EXCEPT ![m].reply = TRUE]
  /\ inj' = consume(m, e, i, "reply")
  /\ sess' = refreshActivity(s)
  /\ UNCHANGED shown

(* Mutant: terminal work is requeued too.                                  *)
MutOperatorRedeliver(m) ==
  /\ Stored(m) /\ del[m].state # "accepted"
  /\ del' = [del EXCEPT ![m].state = "queued", ![m].next = None,
                        ![m].lease = None]
  /\ UNCHANGED <<sess, msg, inj, rcpt, nextSeq, shown>>

(* operatorRedeliver of work not yet accepted.                             *)
OperatorRedeliver(m) ==
  /\ del[m].state \in Live
  /\ del' = [del EXCEPT ![m].state = "queued", ![m].next = None,
                        ![m].lease = None]
  /\ UNCHANGED <<sess, msg, inj, rcpt, nextSeq, shown>>

(* operatorRedeliver of accepted work, with confirmReplayAccepted.         *)
OperatorReplayAccepted(m) ==
  /\ del[m].state = "accepted"
  /\ del' = [del EXCEPT ![m].state = "queued", ![m].next = None,
                        ![m].lease = None]
  /\ UNCHANGED <<sess, msg, inj, rcpt, nextSeq, shown>>

-----------------------------------------------------------------------------
(* The reaper: one sweep is one transaction of three passes, in this order.*)

(* Mutant: the reaper looks for timeouts among the waiting rows.           *)
MutAckDue ==
  {m \in Message : /\ del[m].state = "retry_wait"
                   /\ msg[m].ack /\ del[m].lease = 0}

AckDue ==
  {m \in Message : /\ del[m].state = "transport_written"
                   /\ msg[m].ack /\ del[m].lease = 0}

SessionsDue ==
  {s \in Session : sess[s].epoch > 0 /\ ~sess[s].expired /\ sess[s].idle = 0}

(* Mutant: the budget is compared before the attempt is counted.           *)
MutReapAckTimeout(d, delay) ==
  IF d.attempts > maxAttempts
  THEN [d EXCEPT !.state = "dead_letter", !.attempts = @ + 1, !.lease = None,
                 !.category = "ack_timeout_exhausted"]
  ELSE [d EXCEPT !.state = "retry_wait", !.attempts = @ + 1, !.lease = None,
                 !.next = delay, !.category = "ack_timeout"]

(* Mutant: jitter is subtracted, so the delay can be negative.             *)
MutReapAckTimeoutJitter(d, delay) ==
  IF d.attempts + 1 >= maxAttempts
  THEN [d EXCEPT !.state = "dead_letter", !.attempts = @ + 1, !.lease = None,
                 !.category = "ack_timeout_exhausted"]
  ELSE [d EXCEPT !.state = "retry_wait", !.attempts = @ + 1, !.lease = None,
                 !.next = delay - maxBackoff - 2, !.category = "ack_timeout"]

(* The delays a retry may get: full jitter, so anything up to the bound.   *)
nextBackoffMs == 0 .. maxBackoff

(* A budget of maxAttempts timeouts, then dead_letter.                     *)
reapAckTimeout(d, delay) ==
  IF d.attempts + 1 >= maxAttempts
  THEN [d EXCEPT !.state = "dead_letter", !.attempts = @ + 1, !.lease = None,
                 !.category = "ack_timeout_exhausted"]
  ELSE [d EXCEPT !.state = "retry_wait", !.attempts = @ + 1, !.lease = None,
                 !.next = delay, !.category = "ack_timeout"]

reapAcceptanceTtl(d) ==
  IF d.state \in Waiting /\ d.ttl = 0
  THEN [d EXCEPT !.state = "expired", !.category = "expired_before_injection"]
  ELSE d

(* Mutant: what is in flight is left alone.                                *)
MutReapExpiredSession(d, owesReply) ==
  IF d.state \in Waiting
  THEN [d EXCEPT !.state = "dead_letter", !.next = None, !.lease = None,
                 !.category = "recipient_inactive_15_days"]
  ELSE IF d.state = "accepted" /\ owesReply
  THEN [d EXCEPT !.state = "expired", !.next = None, !.lease = None,
                 !.category = "reply_pending_unanswered_15_days"]
  ELSE d

(* The deliveries of a session that has been idle for the retention time.  *)
reapExpiredSession(d, owesReply) ==
  IF d.state \in Live
  THEN [d EXCEPT !.state = "dead_letter", !.next = None, !.lease = None,
                 !.category = "recipient_inactive_15_days"]
  ELSE IF d.state = "accepted" /\ owesReply
  THEN [d EXCEPT !.state = "expired", !.next = None, !.lease = None,
                 !.category = "reply_pending_unanswered_15_days"]
  ELSE d

(* The delivery of m after the three passes.                               *)
Swept(m, delay) ==
  LET timed == IF m \in AckDue THEN reapAckTimeout(del[m], delay) ELSE del[m]
      fresh == reapAcceptanceTtl(timed)
  IN  IF msg[m].to \in SessionsDue
      THEN reapExpiredSession(fresh, msg[m].reply) ELSE fresh

Sweep ==
  /\ \E delay \in [Message -> nextBackoffMs] :
       del' = [m \in Message |-> Swept(m, delay[m])]
  /\ sess' = [s \in Session |->
                IF s \in SessionsDue
                THEN [sess[s] EXCEPT !.expired = TRUE, !.ready = FALSE]
                ELSE sess[s]]
  /\ UNCHANGED <<msg, inj, rcpt, nextSeq, shown>>

(* A unit of time passes.                                                  *)
Elapse(t) == IF t > 0 THEN t - 1 ELSE t

Tick ==
  /\ sess' = [s \in Session |-> [sess[s] EXCEPT !.idle = Elapse(@)]]
  /\ del' = [m \in Message |->
               [del[m] EXCEPT !.lease = Elapse(@), !.next = Elapse(@),
                              !.ttl = Elapse(@)]]
  /\ inj' = [m \in Message |-> [e \in Epoch |->
               [i \in 1 .. Len(inj[m][e]) |->
                  [inj[m][e][i] EXCEPT !.ttl = Elapse(@)]]]]
  /\ UNCHANGED <<msg, rcpt, nextSeq, shown>>

-----------------------------------------------------------------------------
SessionStep(s) ==
  \/ RegisterFirst(s) \/ RegisterFresh(s) \/ RegisterJoin(s)
  \/ \E a \in BOOLEAN : SetControl(s, a) \/ OperatorSetControl(s, a)
  \/ \E e \in Held(s) : RenameSession(s, e)
  \/ \E e \in Held(s), r \in BOOLEAN : SignalReadiness(s, e, r)

PullStep(s, e) ==
  \/ \E B \in SUBSET Message : CheckpointPull(s, e, B) \/ ConnectionPull(s, e, B)
  \/ \E m \in Message : ProcessNext(s, e, m)

ReceiverStep(s, e, m) ==
  \/ Redeliver(s, e, m)
  \/ \E i \in 1 .. MaxLogical :
       \/ \E status \in {"accepted", "rejected"} : Ack(s, e, m, i, status)
       \/ \E r \in Message : Reply(s, e, m, i, r)

Next ==
  \/ \E s \in Session : SessionStep(s)
  \/ \E s \in Session : \E e \in Held(s) :
       PullStep(s, e) \/ \E m \in Message : ReceiverStep(s, e, m)
  \/ \E m \in Message :
       \/ \E r \in Request : Send(m, r)
       \/ OperatorRedeliver(m) \/ OperatorReplayAccepted(m)
  \/ Sweep
  \/ Tick

Spec == Init /\ [][Next]_vars

-----------------------------------------------------------------------------
(* Type invariant.                                                         *)
TypeOK ==
  /\ sess \in [Session -> SessionRow]
  /\ msg \in [Message -> MessageRow]
  /\ del \in [Message -> DeliveryRow]
  /\ inj \in [Message -> [Epoch -> Seq(InjectionRow)]]
  /\ rcpt \in [Message -> ReceiptRow]
  /\ nextSeq \in [Session -> Nat \ {0}]
  /\ shown \in [Message -> [Epoch -> Nat]]

RowAgrees(m) ==
  \/ /\ Stored(m)
     /\ msg[m].from \in Session /\ sess[msg[m].from].epoch > 0
     /\ msg[m].to \in Session /\ sess[msg[m].to].epoch > 0
  \/ /\ ~Stored(m) /\ msg[m].to = Null
     /\ rcpt[m].ack = "none" /\ ~rcpt[m].reply
     /\ \A e \in Epoch : inj[m][e] = <<>> /\ shown[m][e] = 0

(* Referential integrity, which the tables get from foreign keys and the   *)
(* operations from their order: a delivery row goes with a message between *)
(* two registered sessions, and nothing is injected, shown or receipted    *)
(* for a message that is not stored.                                       *)
RowsAgree == \A m \in Message : RowAgrees(m)

RecipientEpoch(m) == sess[msg[m].to].epoch

(* The Layer-3 promise of docs/delivery-semantics.md, kept by the null     *)
(* result of ReceiptStore.issue: however pulls, timeouts, requeues, joins  *)
(* and operator redeliveries interleave, a body is shown at most once per  *)
(* epoch, and never without an injection row (explicit redelivery and the  *)
(* peeking form of inbox, which says it does not mark, are not counted).   *)
BodyShownAtMostOnce ==
  \A m \in Message, e \in Epoch :
    shown[m][e] <= 1 /\ shown[m][e] <= Len(inj[m][e])

(* Work the recipient still has to act on is actionable: a delivery that   *)
(* is in flight, or accepted with a reply owed, has an injection row in    *)
(* the recipient's current epoch (the row authorize looks up), and nothing *)
(* is in flight to a superseded epoch.  This is what the requeue and       *)
(* rehomeAcceptedReplyAuthority in register are for.                       *)
OwedWorkIsActionable ==
  \A m \in Message :
    /\ del[m].state = "transport_written" => del[m].gen = RecipientEpoch(m)
    /\ \/ del[m].state = "transport_written"
       \/ del[m].state = "accepted" /\ msg[m].reply
       => inj[m][RecipientEpoch(m)] # <<>>

(* Only a delivery that asked for an ack can time out (ackDeadlineFor, and *)
(* the eligibility filter of reapAckTimeouts), the budget is never         *)
(* exceeded, and it is used up exactly when the reaper says so.            *)
RetryBudget ==
  \A m \in Message :
    /\ del[m].state = "transport_written" => (del[m].lease # None <=> msg[m].ack)
    /\ del[m].attempts > 0 \/ del[m].state = "retry_wait" => msg[m].ack
    /\ del[m].attempts <= maxAttempts
    /\ del[m].attempts = maxAttempts
         <=> del[m].category = "ack_timeout_exhausted"
    /\ del[m].category = "ack_timeout_exhausted" => del[m].state = "dead_letter"

(* completeIfNoResponseRequired: a message that asks for no response is    *)
(* finished by its first injection, in whatever epoch, and never waits     *)
(* again; so it can never be requeued with its body spent.                 *)
FireAndForgetEndsWhenShown ==
  \A m \in Message :
    /\ Stored(m) /\ ~msg[m].ack /\ ~msg[m].reply
    /\ \E e \in Epoch : inj[m][e] # <<>>
    => del[m].state = "completed"

(* Receipts rest on injections: nobody acknowledges or answers a message   *)
(* whose body was never shown to the recipient in some epoch, and the      *)
(* delivery state agrees with the ack receipt.                             *)
ReceiptImpliesShown ==
  \A m \in Message :
    /\ rcpt[m].ack # "none" \/ rcpt[m].reply => \E e \in Epoch : shown[m][e] > 0
    /\ del[m].state = "accepted" => rcpt[m].ack = "accepted"
    /\ del[m].state = "rejected" <=> rcpt[m].ack = "rejected"

(* ORDER BY recipient_sequence: a message is never shown for the first     *)
(* time ahead of an earlier one to the same recipient, unless that one is  *)
(* over or its acceptance TTL has run out.                                 *)
FirstShownInOrder ==
  \A m, n \in Message :
    /\ Stored(m) /\ Stored(n) /\ msg[m].to = msg[n].to
    /\ msg[m].seq < msg[n].seq
    /\ \E e \in Epoch : shown[n][e] > 0
    => \/ \E e \in Epoch : shown[m][e] > 0
       \/ isTerminal(del[m].state) \/ del[m].ttl = 0

(* recipient_sequences: the sequence numbers of a recipient's messages are *)
(* distinct, and every number below the next one is in use.                *)
SequencesAreDense ==
  \A s \in Session :
    LET to == {m \in Message : Stored(m) /\ msg[m].to = s} IN
      /\ {msg[m].seq : m \in to} = 1 .. nextSeq[s] - 1
      /\ \A m, n \in to : msg[m].seq = msg[n].seq => m = n

(* However messages, answers, retries and epochs interleave: a message is  *)
(* first shown in the order of the recipient's sequence, the sequence has  *)
(* no gap and no duplicate though send and reply both allocate it, a       *)
(* receipt rests on a body that was shown, and work that asks for no       *)
(* response is over once it is shown (delivery.ts, store.ts, receipts.ts). *)
DeliveriesAreSound ==
  FirstShownInOrder /\ SequencesAreDense /\ ReceiptImpliesShown /\ FireAndForgetEndsWhenShown

-----------------------------------------------------------------------------
(* Action properties.                                                      *)

(* states.ts: terminal states are absorbing.  No interleaving of the wired *)
(* operations takes a delivery out of one.                                 *)
TerminalIsAbsorbing ==
  [][\A m \in Message : isTerminal(del[m].state) => del'[m].state = del[m].state]_vars

(* assertCurrentEpoch: once an epoch is superseded, its part of the        *)
(* injection ledger is frozen; no late pull, ack, reply or redeliver from  *)
(* a connection of that epoch adds to it, spends it, or shows a body.      *)
SupersededEpochIsFrozen ==
  [][\A m \in Message, e \in Epoch :
       Stored(m) /\ e < RecipientEpoch(m) =>
         /\ shown'[m][e] = shown[m][e]
         /\ Len(inj'[m][e]) = Len(inj[m][e])
         /\ \A i \in 1 .. Len(inj[m][e]) :
              inj'[m][e][i].used = inj[m][e][i].used]_vars

(* refreshActivity: activity never revives a tombstone.  A registration    *)
(* does, under a new epoch, and so does a rename, which keeps the epoch    *)
(* and moves no delivery; either way the session starts out not ready,     *)
(* whatever it signalled while expired, with a full retention time ahead.  *)
TombstoneNeedsResume ==
  [][\A s \in Session : sess[s].expired /\ ~sess'[s].expired =>
       /\ ~sess'[s].ready /\ sess'[s].idle = retention
       /\ \/ sess'[s].epoch = sess[s].epoch + 1
          \/ sess'[s].epoch = sess[s].epoch /\ del' = del /\ inj' = inj]_vars

-----------------------------------------------------------------------------
(* Liveness.  The clock advances, and the daemon's 30-second timer runs    *)
(* the sweep for as long as the broker is up.                              *)
Fairness == WF_vars(Tick) /\ WF_vars(Sweep)

FairSpec == Spec /\ Fairness

(* An ack-required delivery never stays in flight: if nobody acknowledges, *)
(* the lease runs out and a sweep (or a join) takes it back.               *)
AckedOrTakenBack ==
  \A m \in Message :
    (del[m].state = "transport_written" /\ msg[m].ack)
      ~> del[m].state # "transport_written"

(* No delivery outlives an idle recipient: a delivery that waits or is in  *)
(* flight ends, unless its recipient shows meaningful activity again.      *)
(* This rests on reapExpiredSessions taking the in-flight rows along.      *)
AbandonedWorkEnds ==
  \A m \in Message :
    LET s == msg[m].to IN
      (del[m].state \in Live /\ ~sess[s].expired)
        ~> (del[m].state \notin Live \/ sess[s].idle = retention)

-----------------------------------------------------------------------------
(* What the repository says and the code does not do.                      *)

(* readiness.ts: the ready states are "the only states in which the broker *)
(* may perform a NEW context injection".                                   *)
InjectsOnlyWhenReady ==
  [][\A m \in Message :
       (\E e \in Epoch : shown'[m][e] > shown[m][e]) => sess[msg[m].to].ready]_vars

(* states.ts: EDGES is "the complete, authoritative edge set".             *)
EveryMoveIsAnEdge ==
  [][\A m \in Message :
       Stored(m) /\ del'[m].state # del[m].state
         => isLegalTransition(del[m].state, del'[m].state)]_vars

(* delivery.ts, reply: it "records a completion receipt, and completes the *)
(* original delivery".                                                     *)
ReplyCompletesOriginal ==
  \A m \in Message : rcpt[m].reply => isTerminal(del[m].state)

(* ADR 0003: per injection, "zero or one terminal reply".                  *)
OneReplyPerInjection ==
  \A m \in Message :
    Cardinality({r \in Message : msg[r].parent = m}) <=
      Cardinality({p \in Epoch \X (1 .. MaxLogical) : p[2] <= Len(inj[m][p[1]])})

(* reaper.ts: expiry dead-letters "EVERY non-terminal delivery to this     *)
(* now-tombstoned recipient", so that none is left as an orphan.           *)
NoWorkForTombstone ==
  \A m \in Message : del[m].state \in Live => ~sess[msg[m].to].expired

(* store.ts, register: a join will "re-queue only LEASE-EXPIRED injections *)
(* (genuinely abandoned), never fresh ones".                               *)
JoinRequeuesOnlyAbandoned ==
  [][\A s \in Session, m \in Message :
       /\ RegisterJoin(s)
       /\ del[m].state = "transport_written" /\ del'[m].state = "queued"
       => del[m].lease = 0]_vars

(* reaper.ts: messages expire when the TTL "has passed before EVER being   *)
(* injected".                                                              *)
ExpiredBeforeInjection ==
  \A m \in Message : del[m].category = "expired_before_injection"
    => \A e \in Epoch : shown[m][e] = 0
=============================================================================
