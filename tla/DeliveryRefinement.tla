------------------------- MODULE DeliveryRefinement -------------------------
(***************************************************************************)
(* The delivery core implements the delivery contract, for any sets of     *)
(* sessions, messages and requests and any values of the bounds.           *)
(***************************************************************************)
EXTENDS DeliverySafety

-----------------------------------------------------------------------------
(* The part of RetryBudget that is about one delivery.                     *)
WithinBudget(m) ==
  /\ del[m].state = "transport_written" => (del[m].lease # None <=> msg[m].ack)
  /\ del[m].attempts > 0 \/ del[m].state = "retry_wait" => msg[m].ack
  /\ del[m].attempts <= maxAttempts
  /\ del[m].attempts = maxAttempts
       <=> del[m].category = "ack_timeout_exhausted"
  /\ del[m].category = "ack_timeout_exhausted" => del[m].state = "dead_letter"

(* The three passes of a sweep keep a delivery within its budget.          *)
LEMMA SweptWithinBudget ==
  ASSUME TypeOK, NEW m \in Message, NEW delay \in nextBackoffMs, WithinBudget(m),
         msg'[m] = msg[m], del'[m] = Swept(m, delay)
  PROVE  WithinBudget(m)'
  <1> DEFINE Good(d) ==
        /\ d \in DeliveryRow
        /\ d.state = "transport_written" => (d.lease # None <=> msg[m].ack)
        /\ d.attempts > 0 \/ d.state = "retry_wait" => msg[m].ack
        /\ d.attempts <= maxAttempts
        /\ d.attempts = maxAttempts <=> d.category = "ack_timeout_exhausted"
        /\ d.category = "ack_timeout_exhausted" => d.state = "dead_letter"
  <1> DEFINE timed == IF m \in AckDue THEN reapAckTimeout(del[m], delay) ELSE del[m]
             fresh == reapAcceptanceTtl(timed)
  <1>0. delay \in Timer
    BY BoundAssumption, SMTT(60) DEF nextBackoffMs, Timer
  <1>1. Good(del[m])
    BY SMTT(60) DEF TypeOK, WithinBudget
  <1>2. Good(timed)
    <2>1. CASE m \notin AckDue
      BY <1>1, <2>1, SMTT(60)
    <2> DEFINE a == del[m].attempts
    <2>2. CASE m \in AckDue
      <3>1. msg[m].ack /\ del[m] \in DeliveryRow /\ a \in Nat
        BY <1>1, <2>2, Zenon DEF AckDue, DeliveryRow
      <3>2. a < maxAttempts
        BY <1>1, <2>2, <3>1, BoundAssumption DEF AckDue
      <3>3. CASE a + 1 >= maxAttempts
        <4>1. timed = [del[m] EXCEPT !.state = "dead_letter", !.attempts = a + 1,
                         !.lease = None, !.category = "ack_timeout_exhausted"]
          BY <2>2, <3>3 DEF reapAckTimeout
        <4>2. a + 1 = maxAttempts /\ a + 1 \in Nat
          BY <3>1, <3>2, <3>3, BoundAssumption
        <4> HIDE DEF timed, a
        <4>3. timed \in DeliveryRow
          BY <3>1, <4>1, <4>2, TimerFacts, Zenon DEF DeliveryRow, DeliveryState, FailureCategory
        <4>4. /\ timed.state = "dead_letter" /\ timed.attempts = a + 1
              /\ timed.category = "ack_timeout_exhausted"
          BY <3>1, <4>1 DEF DeliveryRow
        <4> QED BY <3>1, <4>2, <4>3, <4>4, BoundAssumption
      <3>4. CASE ~(a + 1 >= maxAttempts)
        <4>1. timed = [del[m] EXCEPT !.state = "retry_wait", !.attempts = a + 1,
                         !.lease = None, !.next = delay, !.category = "ack_timeout"]
          BY <2>2, <3>4 DEF reapAckTimeout
        <4>2. a + 1 < maxAttempts /\ a + 1 \in Nat
          BY <3>1, <3>4, BoundAssumption
        <4> HIDE DEF timed, a
        <4>3. timed \in DeliveryRow
          BY <1>0, <3>1, <4>1, <4>2, TimerFacts, Zenon
          DEF DeliveryRow, DeliveryState, FailureCategory
        <4>4. /\ timed.state = "retry_wait" /\ timed.attempts = a + 1
              /\ timed.category = "ack_timeout"
          BY <3>1, <4>1 DEF DeliveryRow
        <4> QED BY <3>1, <4>2, <4>3, <4>4, BoundAssumption
      <3> QED BY <3>3, <3>4, ZenonT(60)
    <2> QED BY <2>1, <2>2, ZenonT(60)
  <1> HIDE DEF timed
  <1>3. Good(fresh)
    BY <1>2, BoundAssumption, Zenon
    DEF reapAcceptanceTtl, DeliveryRow, DeliveryState, FailureCategory, Waiting
  <1> HIDE DEF fresh
  <1>4. Good(reapExpiredSession(fresh, msg[m].reply))
    BY <1>3, TimerFacts, BoundAssumption, ZenonT(60)
    DEF reapExpiredSession, DeliveryRow, DeliveryState, FailureCategory, Waiting, Live
  <1>5. del'[m] = fresh \/ del'[m] = reapExpiredSession(fresh, msg[m].reply)
    BY DEF Swept, timed, fresh
  <1>6. Good(del'[m])
    BY <1>3, <1>4, <1>5
  <1> QED BY <1>6 DEF WithinBudget

(* RetryBudget is an invariant: however timeouts, pulls, requeues and      *)
(* registrations interleave, a delivery is retried for a missing ack only  *)
(* if it asked for one, at most maxAttempts times, and the last of them    *)
(* dead-letters it.                                                        *)
THEOREM RetriesWithinBudget == Spec => []RetryBudget
  <1>0. RetryBudget <=> \A m \in Message : WithinBudget(m)
    BY DEF RetryBudget, WithinBudget
  <1>1. Init => RetryBudget
    <2> SUFFICES ASSUME Init, NEW m \in Message PROVE WithinBudget(m)
      BY <1>0
    <2>1. del[m] = [QueuedDelivery(None) EXCEPT !.state = "absent"]
      BY DEF Init
    <2> QED BY <2>1, BoundAssumption DEF QueuedDelivery, WithinBudget
  <1>2. ASSUME TypeOK, TypeOK', RowsAgree, RetryBudget, [Next]_vars
        PROVE  RetryBudget'
    <2> SUFFICES ASSUME NEW m \in Message PROVE WithinBudget(m)'
      BY DEF RetryBudget, WithinBudget
    <2>0. WithinBudget(m)
      BY <1>2, <1>0
    <2>a. del[m] \in DeliveryRow /\ msg[m] \in MessageRow
      BY <1>2 DEF TypeOK
    <2>1. CASE Opened(m)
      BY <2>1, BoundAssumption DEF Opened, WithinBudget, QueuedDelivery
    <2>2. CASE ~Opened(m)
      <3>0. msg'[m] = msg[m]
        BY <1>2, <2>2, MessageImmutable
      <3>1. CASE del'[m] = del[m]
        BY <2>0, <3>0, <3>1 DEF WithinBudget
      <3>2. CASE Tick
        <4>1. Elapse(del[m].lease) = None <=> del[m].lease = None
          BY <2>a DEF Elapse, DeliveryRow, Timer, None
        <4> QED BY <1>2, <2>0, <3>0, <3>2, <4>1, TickDelivery DEF WithinBudget
      <3>3. CASE Requeued(m)
        BY <2>0, <2>a, <3>0, <3>3, ZenonT(60)
        DEF Requeued, WithinBudget, DeliveryRow, Live, Waiting
      <3>4. CASE Taken(m)
        BY <2>0, <2>a, <3>0, <3>4, BoundAssumption
        DEF Taken, Injected, ackDeadlineFor, CompletesOnInjection, WithinBudget,
            DeliveryRow, MessageRow, Waiting, None
      <3>5. CASE Answered(m)
        BY <2>0, <2>a, <3>0, <3>5 DEF Answered, WithinBudget, DeliveryRow
      <3>6. CASE Reaped(m)
        BY <1>2, <2>0, <3>0, <3>6, SweptWithinBudget DEF Reaped
      <3> QED BY <1>2, <2>2, <3>1, <3>2, <3>3, <3>4, <3>5, <3>6, RowMoves
    <2> QED BY <2>1, <2>2
  <1> QED BY <1>1, <1>2, TypeCorrect, PTL DEF Spec

-----------------------------------------------------------------------------
(* TombstoneNeedsResume holds: neither activity, nor a join, nor an        *)
(* operator, nor time clears expired_at; only register does, under a new   *)
(* epoch, and a rename, which moves no delivery.  Both leave the session   *)
(* not ready.                                                              *)
THEOREM TombstoneStays == Spec => TombstoneNeedsResume
  <1> DEFINE Stays ==
        \A s \in Session : sess[s].expired /\ ~sess'[s].expired =>
          /\ ~sess'[s].ready /\ sess'[s].idle = retention
          /\ \/ sess'[s].epoch = sess[s].epoch + 1
             \/ sess'[s].epoch = sess[s].epoch /\ del' = del /\ inj' = inj
  <1>1. ASSUME TypeOK, TypeOK', RowsAgree, [Next]_vars PROVE Stays
    <2> SUFFICES ASSUME NEW s \in Session, sess[s].expired, ~sess'[s].expired
                 PROVE  /\ ~sess'[s].ready /\ sess'[s].idle = retention
                        /\ \/ sess'[s].epoch = sess[s].epoch + 1
                           \/ sess'[s].epoch = sess[s].epoch /\ del' = del /\ inj' = inj
      OBVIOUS
    <2>0. sess[s] \in SessionRow
      BY <1>1 DEF TypeOK
    <2>a. ASSUME NEW t \in Session, sess' = refreshActivity(t) PROVE FALSE
      BY <1>1, <2>a, RefreshKeeps, Zenon DEF TypeOK
    <2>1. ASSUME NEW t \in Session,
                 RegisterFirst(t) \/ RegisterFresh(t) \/ RegisterJoin(t)
          PROVE  /\ sess'[s].epoch = sess[s].epoch + 1
                 /\ ~sess'[s].ready /\ sess'[s].idle = retention
      <3>1. CASE RegisterFirst(t)
        <4>1. sess'[s] = sess[s] \/ sess'[s] = [sess[s] EXCEPT !.epoch = 1, !.idle = retention]
          BY <1>1, <3>1 DEF RegisterFirst, TypeOK
        <4> QED BY <2>0, <4>1, Zenon DEF SessionRow
      <3>2. CASE RegisterFresh(t)
        <4>1. sess'[s] = sess[s] \/
              sess'[s] = [sess[s] EXCEPT !.epoch = sess[s].epoch + 1, !.ready = FALSE,
                                         !.expired = FALSE, !.idle = retention]
          BY <1>1, <3>2, Zenon DEF RegisterFresh, TypeOK
        <4> QED BY <2>0, <4>1, Zenon DEF SessionRow
      <3>3. CASE RegisterJoin(t)
        BY <3>3 DEF RegisterJoin
      <3> QED BY <2>1, <3>1, <3>2, <3>3
    <2>2. ASSUME NEW t \in Session, NEW e \in Epoch, NEW B \in SUBSET Message,
                 Pull(t, e, B)
          PROVE  FALSE
      BY <2>a, <2>2 DEF Pull, Inject
    <2>3. ASSUME NEW t \in Session, NEW e \in Epoch, NEW n \in Message,
                 \/ Redeliver(t, e, n)
                 \/ \E i \in Nat, status \in {"accepted", "rejected"} :
                      Ack(t, e, n, i, status)
                 \/ \E i \in Nat, r \in Message : Reply(t, e, n, i, r)
          PROVE  FALSE
      BY <2>a, <2>3, SMTT(60) DEF Redeliver, Ack, Reply
    <2>4. ASSUME NEW n \in Message, NEW r \in Request, Send(n, r)
          PROVE  FALSE
      BY <2>a, <2>4, RequestAssumption DEF Send, SendInput
    <2>5. CASE Quiet
      <3>1. sess'[s].expired # sess[s].expired
        BY ZenonT(60)
      <3> QED BY <2>5, <3>1 DEF Quiet
    <2>11. CASE \E n \in Message : Requeue(n)
      BY <2>11 DEF Requeue
    <2>6. CASE Sweep
      BY <2>0, <2>6, Zenon DEF Sweep, SessionRow
    <2>7. CASE Tick
      BY <2>0, <2>7, Zenon DEF Tick, SessionRow
    <2>8. CASE \E t \in Session :
                 RegisterFirst(t) \/ RegisterFresh(t) \/ RegisterJoin(t)
      BY <2>1, <2>8
    <2>9. ~ \/ \E t \in Session, e \in Epoch, B \in SUBSET Message : Pull(t, e, B)
            \/ \E t \in Session, e \in Epoch, n \in Message : Redeliver(t, e, n)
            \/ \E n \in Message, r \in Request : Send(n, r)
      BY <2>2, <2>3, <2>4, SMTT(60)
    <2>10. ~ \/ \E t \in Session, e \in Epoch, n \in Message, i \in Nat,
                   status \in {"accepted", "rejected"} : Ack(t, e, n, i, status)
             \/ \E t \in Session, e \in Epoch, n \in Message, i \in Nat, r \in Message :
                   Reply(t, e, n, i, r)
      BY <2>3
    <2> QED BY <1>1, <2>5, <2>6, <2>7, <2>8, <2>9, <2>10, <2>11,
            StepForms, ZenonT(60)
  <1> QED BY <1>1, TypeCorrect, PTL DEF Spec, TombstoneNeedsResume

-----------------------------------------------------------------------------
(* Work that is in flight, or accepted with a reply owed.                  *)
Owed(m) == del[m].state = "transport_written" \/ (del[m].state = "accepted" /\ msg[m].reply)

Actionable(m) ==
  /\ del[m].state = "transport_written" => del[m].gen = RecipientEpoch(m)
  /\ Owed(m) => inj[m][RecipientEpoch(m)] # <<>>

(* A new epoch of the recipient takes back what is in flight, and gives    *)
(* reply authority for what is accepted.                                   *)
LEMMA FreshEpochActionable ==
  ASSUME TypeOK, RowsAgree, NEW s \in Session, RegisterFresh(s), NEW m \in Message,
         msg[m].to = s
  PROVE  Actionable(m)'
  <1> DEFINE e == sess[s].epoch + 1
  <1>0. msg' = msg /\ sess'[s].epoch = e /\ e \in Epoch
    BY BoundAssumption DEF RegisterFresh, TypeOK, SessionRow, Epoch
  <1>1. del'[m].state # "transport_written"
    BY DEF RegisterFresh, TypeOK, DeliveryRow
  <1>2. ASSUME del'[m].state = "accepted", msg[m].reply
        PROVE  inj'[m][e] # <<>>
    <2>1. del[m].state = "accepted"
      BY <1>2 DEF RegisterFresh, TypeOK, DeliveryRow
    <2>2. CASE Fresh(m, e)
      <3>1. inj'[m] = [inj[m] EXCEPT ![e] = <<NewInjection(retention)>>]
        BY <1>2, <2>1, <2>2 DEF RegisterFresh
      <3> QED BY <1>0, <3>1 DEF TypeOK
    <2>3. CASE ~Fresh(m, e)
      BY <2>3 DEF RegisterFresh, Fresh
    <2> QED BY <2>2, <2>3
  <1> HIDE DEF e
  <1>3. RecipientEpoch(m)' = e
    BY <1>0 DEF RecipientEpoch
  <1> QED BY <1>0, <1>1, <1>2, <1>3 DEF Actionable, Owed

(* What a sweep leaves owed was owed before.                               *)
LEMMA SweptOwed ==
  ASSUME TypeOK, NEW m \in Message, NEW d \in nextBackoffMs,
         Swept(m, d).state \in {"transport_written", "accepted"}
  PROVE  Swept(m, d).state = del[m].state /\ Swept(m, d).gen = del[m].gen
  <1>1. del[m] \in DeliveryRow
    BY DEF TypeOK
  <1> QED BY <1>1 DEF Swept, reapAckTimeout, reapAcceptanceTtl, reapExpiredSession,
             Waiting, Live, DeliveryRow

(* OwedWorkIsActionable is an invariant: a recipient that starts a new     *)
(* epoch, at whatever moment, can still act on everything it owes.         *)
THEOREM OwedActionable == Spec => []OwedWorkIsActionable
  <1>0. OwedWorkIsActionable <=> \A m \in Message : Actionable(m)
    BY DEF OwedWorkIsActionable, Actionable, Owed
  <1>1. Init => OwedWorkIsActionable
    <2> SUFFICES ASSUME Init, NEW m \in Message PROVE Actionable(m)
      BY <1>0
    <2>1. del[m] = [QueuedDelivery(None) EXCEPT !.state = "absent"]
      BY DEF Init
    <2> QED BY <2>1 DEF QueuedDelivery, Actionable, Owed
  <1>2. ASSUME TypeOK, TypeOK', RowsAgree, OwedWorkIsActionable, [Next]_vars
        PROVE  OwedWorkIsActionable'
    <2> SUFFICES ASSUME NEW m \in Message PROVE Actionable(m)'
      BY DEF OwedWorkIsActionable, Actionable, Owed
    <2> DEFINE e == RecipientEpoch(m)
    <2>0. Actionable(m) /\ del[m] \in DeliveryRow
      BY <1>0, <1>2 DEF TypeOK
    <2>1. CASE Opened(m) \/ Requeued(m)
      <3>1. del'[m].state = "queued"
        <4>1. CASE Opened(m)
          BY <4>1 DEF Opened, QueuedDelivery
        <4>2. CASE Requeued(m)
          BY <2>0, <4>2, Zenon DEF Requeued, DeliveryRow
        <4> QED BY <2>1, <4>1, <4>2
      <3> QED BY <3>1 DEF Actionable, Owed
    <2>2. CASE ~Stored(m) /\ ~Opened(m)
      <3>1. CASE Tick
        BY <1>2, <2>2, <3>1, TickDelivery DEF Stored, Actionable, Owed
      <3>2. ~(Taken(m) \/ Answered(m) \/ Requeued(m))
        BY <2>2, SMTT(60) DEF Stored, Requeued, Taken, Answered, Live, Waiting
      <3>3. CASE Reaped(m)
        BY <1>2, <2>2, <3>3, SweptOwed, SMTT(60) DEF Reaped, Stored, Actionable, Owed
      <3> QED BY <1>2, <2>2, <3>1, <3>2, <3>3, RowMoves DEF Stored, Actionable, Owed
    <2>3. CASE Stored(m) /\ RegisterFresh(msg[m].to)
      BY <1>2, <2>3, FreshEpochActionable, SMTT(60) DEF RowsAgree, RowAgrees
    <2>4. CASE Stored(m) /\ ~RegisterFresh(msg[m].to)
      <3>1. msg'[m] = msg[m]
        BY <1>2, <2>4, MessageImmutable, SMTT(60) DEF Opened
      <3>2. msg[m].to \in Session /\ sess[msg[m].to].epoch > 0
        BY <1>2, <2>4 DEF RowsAgree, RowAgrees
      <3>3. e' = e
        <4>1. sess'[msg[m].to].epoch = sess[msg[m].to].epoch \/ RegisterFirst(msg[m].to)
          BY <1>2, <2>4, <3>2, EpochStep
        <4>2. ~RegisterFirst(msg[m].to)
          BY <3>2 DEF RegisterFirst
        <4> QED BY <3>1, <4>1, <4>2 DEF RecipientEpoch
      <3>4. e \in Epoch
        BY <1>2, <3>2, BoundAssumption, SMTT(60) DEF TypeOK, SessionRow, RecipientEpoch, Epoch
      <3>5. inj[m][e] # <<>> => inj'[m][e] # <<>>
        BY <1>2, <3>4, InjectionStays
      <3> HIDE DEF e
      <3>6. /\ Actionable(m) <=>
                 /\ del[m].state = "transport_written" => del[m].gen = e
                 /\ Owed(m) => inj[m][e] # <<>>
            /\ Actionable(m)' <=>
                 /\ del'[m].state = "transport_written" => del'[m].gen = e
                 /\ Owed(m)' => inj'[m][e] # <<>>
        BY <3>3 DEF Actionable, e
      <3>7. CASE del'[m] = del[m]
        BY <2>0, <3>1, <3>5, <3>6, <3>7, SMTT(60) DEF Owed
      <3>8. CASE Tick
        BY <1>2, <2>0, <3>1, <3>5, <3>6, <3>8, TickDelivery DEF Owed
      <3>9. CASE Taken(m)
        BY <2>0, <3>6, <3>9 DEF Taken, Injected, DeliveryRow, e
      <3>10. CASE Answered(m)
        BY <2>0, <3>5, <3>6, <3>10, SMTT(60) DEF Answered, Owed, DeliveryRow
      <3>11. CASE Reaped(m)
        BY <1>2, <2>0, <3>1, <3>5, <3>6, <3>11, SweptOwed DEF Reaped, Owed
      <3> QED BY <1>2, <2>1, <3>7, <3>8, <3>9, <3>10, <3>11, RowMoves, ZenonT(60)
    <2> QED BY <2>1, <2>2, <2>3, <2>4, SMTT(60)
  <1> QED BY <1>1, <1>2, TypeCorrect, PTL DEF Spec


-----------------------------------------------------------------------------
(* SupersededEpochIsFrozen holds: a connection that kept the authority of  *)
(* an epoch its session has left adds nothing to the injections of that    *)
(* epoch, spends none of them and is shown no body there.                  *)
THEOREM SupersededFrozen == Spec => SupersededEpochIsFrozen
  <1> DEFINE Frozen(m, e) ==
        /\ shown'[m][e] = shown[m][e]
        /\ Len(inj'[m][e]) = Len(inj[m][e])
        /\ \A i \in 1 .. Len(inj[m][e]) : inj'[m][e][i].used = inj[m][e][i].used
  <1>1. ASSUME TypeOK, TypeOK', RowsAgree, [Next]_vars, NEW m \in Message, NEW e \in Epoch,
               e < RecipientEpoch(m)
        PROVE  Frozen(m, e)
    <2>a. ASSUME shown'[m][e] = shown[m][e], inj'[m][e] = inj[m][e] PROVE Frozen(m, e)
      BY <2>a
    <2>b. ASSUME NEW s \in Session, NEW d, assertCurrentEpoch(s, d), msg[m].to = s
          PROVE  d # e
      BY <1>1, <2>b, HeldType DEF assertCurrentEpoch, RecipientEpoch, TypeOK, SessionRow, Epoch
    <2>1. CASE \E s \in Session : RegisterFirst(s) \/ RegisterJoin(s)
      BY <2>a, <2>1 DEF RegisterFirst, RegisterJoin
    <2>2. ASSUME NEW s \in Session, RegisterFresh(s) PROVE Frozen(m, e)
      <3> DEFINE d == sess[s].epoch + 1
      <3>1. d \in Epoch /\ (msg[m].to = s => d # e)
        <4>1. sess[s].epoch \in 1 .. MaxEpoch - 1 /\ e \in 1 .. MaxEpoch
          BY <1>1, <2>2 DEF RegisterFresh, Epoch
        <4>2. msg[m].to = s => e < sess[s].epoch
          BY <1>1 DEF RecipientEpoch
        <4> QED BY <4>1, <4>2, BoundAssumption DEF Epoch
      <3>2. \/ inj'[m] = inj[m]
            \/ msg[m].to = s /\ inj'[m] = [inj[m] EXCEPT ![d] = <<NewInjection(retention)>>]
        BY <2>2 DEF RegisterFresh
      <3> HIDE DEF d
      <3>3. inj'[m][e] = inj[m][e]
        BY <1>1, <3>1, <3>2 DEF TypeOK
      <3> QED BY <2>a, <2>2, <3>3 DEF RegisterFresh
    <2>3. ASSUME NEW s \in Session, NEW d \in Epoch, NEW B \in SUBSET Message, Pull(s, d, B)
          PROVE  Frozen(m, e)
      <3>1. m \in B => d # e
        BY <2>b, <2>3 DEF Pull, Batches, Pending
      <3>2. inj'[m][e] = inj[m][e] /\ shown'[m][e] = shown[m][e]
        BY <1>1, <2>3, <3>1 DEF Pull, Inject, TypeOK
      <3> QED BY <2>a, <3>2
    <2>4. ASSUME NEW s \in Session, NEW d \in Epoch, NEW n \in Message, Redeliver(s, d, n)
          PROVE  Frozen(m, e)
      <3>1. n = m => d # e
        BY <2>b, <2>4 DEF Redeliver
      <3>2. inj'[m][e] = inj[m][e]
        BY <1>1, <2>4, <3>1, SMTT(60) DEF Redeliver, TypeOK
      <3> QED BY <2>a, <2>4, <3>2 DEF Redeliver
    <2>5. ASSUME NEW s \in Session, NEW d \in Epoch, NEW n \in Message, NEW i \in Nat, NEW op,
                 assertCurrentEpoch(s, d), msg[n].to = s, inj' = consume(n, d, i, op),
                 shown' = shown
          PROVE  Frozen(m, e)
      <3>1. n = m => d # e
        BY <2>b, <2>5
      <3>2. inj'[m][e] = inj[m][e]
        BY <1>1, <2>5, <3>1 DEF consume, TypeOK
      <3> QED BY <2>a, <2>5, <3>2
    <2>6. ASSUME NEW s \in Session, NEW d \in Epoch, NEW n \in Message, NEW i \in Nat,
                 NEW status \in {"accepted", "rejected"}, Ack(s, d, n, i, status)
          PROVE  Frozen(m, e)
      BY <2>5, <2>6 DEF Ack
    <2>7. ASSUME NEW s \in Session, NEW d \in Epoch, NEW n \in Message, NEW i \in Nat,
                 NEW r \in Message, Reply(s, d, n, i, r)
          PROVE  Frozen(m, e)
      BY <2>5, <2>7 DEF Reply
    <2>8. CASE Tick
      <3>1. shown' = shown
        BY <2>8, ZenonT(60) DEF Tick
      <3> QED BY <1>1, <2>8, <3>1, TickInjections, SMTT(60)
    <2>9. CASE \/ \E n \in Message, r \in Request : Send(n, r)
               \/ \E n \in Message : Requeue(n)
               \/ Quiet \/ Sweep
      BY <2>a, <2>9, Zenon DEF Send, Requeue, Quiet, Sweep
    <2> QED BY <1>1, <2>1, <2>2, <2>3, <2>4, <2>6, <2>7, <2>8, <2>9, StepForms, ZenonT(60)
  <1>2. ASSUME TypeOK, TypeOK', RowsAgree, [Next]_vars
        PROVE  \A m \in Message, e \in Epoch :
                 Stored(m) /\ e < RecipientEpoch(m) =>
                   /\ shown'[m][e] = shown[m][e]
                   /\ Len(inj'[m][e]) = Len(inj[m][e])
                   /\ \A i \in 1 .. Len(inj[m][e]) :
                        inj'[m][e][i].used = inj[m][e][i].used
    BY <1>1, <1>2
  <1> QED BY <1>2, TypeCorrect, PTL DEF Spec, SupersededEpochIsFrozen

(* A delivery row in any live state is open: a requeue, a retry or an      *)
(* acceptance is invisible to the contract.                                *)
PhaseOf(m) ==
  IF ~Stored(m) THEN "unsent"
  ELSE IF isTerminal(del[m].state) THEN "closed" ELSE "open"

EpochOf == [s \in Session |-> sess[s].epoch]

OwnerOf == [m \in Message |-> msg[m].to]

Phases == [m \in Message |-> PhaseOf(m)]

Contract == INSTANCE DeliveryContract WITH
  epoch <- EpochOf, owner <- OwnerOf, phase <- Phases, views <- shown

(* Every behaviour of the delivery core, seen through this mapping, is a   *)
(* behaviour of the contract: a body is shown only to its recipient, only  *)
(* in the recipient's current epoch, at most once there, and never after   *)
(* the delivery is over.                                                   *)
ImplementsContract == Contract!Spec

-----------------------------------------------------------------------------
(* Seen through the mapping, a step leaves a message as it is, closes an   *)
(* open one, or opens one that was not stored.                             *)
Closes(m) == PhaseOf(m) = "open" /\ PhaseOf(m)' = "closed"

(* What a step may do to the phase of one message, from RowMoves.          *)
LEMMA PhaseMoves ==
  ASSUME TypeOK, RowsAgree, [Next]_vars, NEW m \in Message
  PROVE  \/ PhaseOf(m)' = PhaseOf(m)
         \/ Closes(m)
         \/ Opened(m) /\ PhaseOf(m) = "unsent" /\ PhaseOf(m)' = "open"
  <1>0. del[m] \in DeliveryRow
    BY DEF TypeOK
  <1>a. del'[m].state = del[m].state => PhaseOf(m)' = PhaseOf(m)
    BY DEF PhaseOf, Stored
  <1>b. ASSUME Stored(m), ~isTerminal(del[m].state), del'[m].state # "absent"
        PROVE  PhaseOf(m)' = PhaseOf(m) \/ Closes(m)
    BY <1>b DEF PhaseOf, Stored, Closes
  <1>1. CASE Tick
    BY <1>1, <1>a, TickDelivery
  <1>2. CASE Opened(m)
    BY <1>2 DEF Opened, QueuedDelivery, PhaseOf, Stored, isTerminal, TERMINAL_STATES
  <1>3. CASE Requeued(m)
    <2>1. del'[m].state = "queued"
      <3>1. CASE del'[m] = [del[m] EXCEPT !.state = "queued"]
        BY <1>0, <3>1 DEF DeliveryRow
      <3>2. CASE del'[m] = [del[m] EXCEPT !.state = "queued", !.next = None, !.lease = None]
        BY <1>0, <3>2 DEF DeliveryRow
      <3> QED BY <1>3, <3>1, <3>2 DEF Requeued
    <2>2. Stored(m) /\ ~isTerminal(del[m].state)
      BY <1>3 DEF Requeued, Live, Waiting, Stored, isTerminal, TERMINAL_STATES
    <2> QED BY <1>b, <2>1, <2>2
  <1>4. CASE Taken(m)
    <2>1. del'[m].state \in {"completed", "transport_written"}
      BY <1>0, <1>4 DEF Taken, Injected, DeliveryRow
    <2>2. Stored(m) /\ ~isTerminal(del[m].state)
      BY <1>4 DEF Taken, Waiting, Stored, isTerminal, TERMINAL_STATES
    <2> QED BY <1>b, <2>1, <2>2
  <1>5. CASE Answered(m)
    <2>1. del'[m].state \in {"accepted", "rejected", "completed"}
      BY <1>0, <1>5 DEF Answered, DeliveryRow
    <2>2. Stored(m) /\ ~isTerminal(del[m].state)
      BY <1>5 DEF Answered, Stored, isTerminal, TERMINAL_STATES
    <2> QED BY <1>b, <2>1, <2>2
  <1>6. CASE Reaped(m)
    <2>1. PICK d \in nextBackoffMs : del'[m] = Swept(m, d)
      BY <1>6 DEF Reaped
    <2>2. CASE isTerminal(del[m].state)
      BY <1>a, <2>1, <2>2, SweptTerminal
    <2>3. CASE ~Stored(m)
      <3>1. Swept(m, d) = del[m]
        BY <2>3 DEF Stored, Swept, AckDue, reapAcceptanceTtl, reapExpiredSession, Waiting, Live
      <3> QED BY <1>a, <2>1, <3>1
    <2>4. CASE Stored(m) /\ ~isTerminal(del[m].state)
      <3> DEFINE Kept(x) == x \in DeliveryRow /\ x.state # "absent"
                 timed == IF m \in AckDue THEN reapAckTimeout(del[m], d) ELSE del[m]
                 fresh == reapAcceptanceTtl(timed)
      <3>1. Kept(timed)
        <4>1. d \in Timer
          BY BoundAssumption DEF nextBackoffMs, Timer
        <4>2. del[m].attempts + 1 \in Nat
          BY <1>0 DEF DeliveryRow
        <4> QED BY <1>0, <2>4, <4>1, <4>2, TimerFacts, Zenon
            DEF reapAckTimeout, DeliveryRow, DeliveryState, FailureCategory, Stored
      <3> HIDE DEF timed
      <3>2. Kept(fresh)
        BY <3>1, Zenon DEF reapAcceptanceTtl, DeliveryRow, DeliveryState, FailureCategory
      <3> HIDE DEF fresh
      <3>3. Kept(reapExpiredSession(fresh, msg[m].reply))
        BY <3>2, TimerFacts, Zenon DEF reapExpiredSession, DeliveryRow, DeliveryState, FailureCategory
      <3>4. del'[m] = fresh \/ del'[m] = reapExpiredSession(fresh, msg[m].reply)
        BY <2>1 DEF Swept, timed, fresh
      <3> QED BY <1>b, <2>4, <3>2, <3>3, <3>4
    <2> QED BY <2>2, <2>3, <2>4
  <1> QED BY <1>a, <1>1, <1>2, <1>3, <1>4, <1>5, <1>6, RowMoves

(* A step that shows nothing, opens nothing and moves no epoch closes some *)
(* open messages, or none.                                                 *)
LEMMA CloseStep ==
  ASSUME TypeOK, RowsAgree, [Next]_vars, EpochOf' = EpochOf, OwnerOf' = OwnerOf,
         shown' = shown, \A m \in Message : ~Opened(m)
  PROVE  Contract!Next
  <1> DEFINE C == {m \in Message : Closes(m)}
  <1>1. \A m \in Message : PhaseOf(m)' = PhaseOf(m) \/ Closes(m)
    BY PhaseMoves
  <1>2. \A m \in C : Phases[m] = "open"
    BY DEF Phases, Closes
  <1>3. Phases' = [m \in Message |-> IF m \in C THEN "closed" ELSE Phases[m]]
    BY <1>1 DEF Phases, Closes
  <1>4. Contract!Close(C)
    BY <1>2, <1>3 DEF Contract!Close
  <1> QED BY <1>4 DEF Contract!Next

(* A registration begins an epoch: what it requeues stays open.            *)
LEMMA BeginStep ==
  ASSUME TypeOK, TypeOK', RowsAgree, [Next]_vars, NEW s \in Session,
         RegisterFirst(s) \/ RegisterFresh(s)
  PROVE  Contract!Begin(s)
  <1>1. msg' = msg /\ shown' = shown
    BY DEF RegisterFirst, RegisterFresh
  <1>2. sess[s].epoch \in 0 .. MaxEpoch - 1
    BY BoundAssumption DEF RegisterFirst, RegisterFresh, TypeOK, SessionRow
  <1>3. EpochOf' = [EpochOf EXCEPT ![s] = @ + 1]
    <2>1. sess'[s].epoch = sess[s].epoch + 1
      BY DEF RegisterFirst, RegisterFresh, TypeOK, SessionRow
    <2>2. \A t \in Session : t # s => sess'[t] = sess[t]
      BY DEF RegisterFirst, RegisterFresh, TypeOK
    <2> QED BY <2>1, <2>2, Zenon DEF EpochOf
  <1>4. ASSUME NEW m \in Message PROVE PhaseOf(m)' = PhaseOf(m)
    <2>1. del[m] \in DeliveryRow
      BY DEF TypeOK
    <2>2. \/ del'[m] = del[m]
          \/ del[m].state = "transport_written" /\ del'[m] = [del[m] EXCEPT !.state = "queued"]
      BY DEF RegisterFirst, RegisterFresh
    <2> QED BY <2>1, <2>2 DEF PhaseOf, Stored, isTerminal, TERMINAL_STATES, DeliveryRow
  <1>5. Phases' = Phases /\ OwnerOf' = OwnerOf
    BY <1>1, <1>4 DEF Phases, OwnerOf
  <1> QED BY <1>1, <1>2, <1>3, <1>5, BoundAssumption DEF Contract!Begin, EpochOf

(* A pull presents the bodies that are fresh in the current epoch, and     *)
(* closes those among them that ask for no response.                       *)
LEMMA PresentStep ==
  ASSUME TypeOK, RowsAgree, BodyShownAtMostOnce, [Next]_vars,
         NEW s \in Session, NEW e \in Epoch, NEW B \in SUBSET Message, Pull(s, e, B)
  PROVE  Contract!Next
  <1> DEFINE F == {m \in B : Fresh(m, e)}
             C == {m \in Message : Closes(m)}
  <1>1. EpochOf' = EpochOf
    <2>1. \A t \in Session : sess'[t].epoch = sess[t].epoch
      BY RefreshKeeps DEF Pull, Inject, TypeOK
    <2> QED BY <2>1 DEF EpochOf
  <1>2. OwnerOf' = OwnerOf
    BY DEF Pull, Inject, OwnerOf
  <1>3. EpochOf[s] = e
    BY DEF Pull, assertCurrentEpoch, EpochOf
  <1>4. ASSUME NEW m \in B
        PROVE  /\ OwnerOf[m] = s /\ Phases[m] = "open"
               /\ del[m].state \in Waiting /\ del'[m] = Injected(m, e)
    <2>1. msg[m].to = s /\ del[m].state \in Waiting
      BY DEF Pull, Batches, Pending
    <2>2. del'[m] = Injected(m, e)
      BY DEF Pull, Inject
    <2> QED BY <2>1, <2>2
        DEF OwnerOf, Phases, PhaseOf, Stored, Waiting, isTerminal, TERMINAL_STATES
  <1>5. ASSUME NEW m \in F PROVE shown[m][e] = 0
    <2>1. shown[m][e] \in Nat /\ shown[m][e] <= Len(inj[m][e]) /\ inj[m][e] = <<>>
      BY DEF BodyShownAtMostOnce, Fresh, TypeOK
    <2> QED BY <2>1
  <1>6. shown' = [m \in Message |-> IF m \in F THEN [shown[m] EXCEPT ![e] = 1] ELSE shown[m]]
    <2>1. shown' = [m \in Message |->
                      IF m \in F THEN [shown[m] EXCEPT ![e] = @ + 1] ELSE shown[m]]
      BY DEF Pull, Inject
    <2>2. ASSUME NEW m \in F
          PROVE  [shown[m] EXCEPT ![e] = @ + 1] = [shown[m] EXCEPT ![e] = 1]
      <3>1. shown[m][e] + 1 = 1
        BY <1>5
      <3> QED BY <3>1, Zenon
    <2> QED BY <2>1, <2>2
  <1>7. ASSUME NEW m \in Message
        PROVE  PhaseOf(m)' = PhaseOf(m) \/ (Closes(m) /\ m \in F)
    <2>1. CASE m \notin B
      BY <2>1 DEF Pull, Inject, PhaseOf, Stored
    <2>2. CASE m \in B
      <3>1. del[m] \in DeliveryRow
        BY DEF TypeOK
      <3>2. \/ m \in F /\ del'[m].state = "completed"
            \/ del'[m].state = "transport_written"
        <4>1. del'[m] = Injected(m, e)
          BY <1>4, <2>2
        <4>2. CASE CompletesOnInjection(m, e)
          BY <2>2, <3>1, <4>1, <4>2 DEF Injected, CompletesOnInjection, DeliveryRow
        <4>3. CASE ~CompletesOnInjection(m, e)
          BY <3>1, <4>1, <4>3 DEF Injected, DeliveryRow
        <4> QED BY <4>2, <4>3
      <3>3. PhaseOf(m) = "open"
        BY <1>4, <2>2, Zenon DEF Phases
      <3> QED BY <3>2, <3>3 DEF PhaseOf, Stored, Closes, isTerminal, TERMINAL_STATES
    <2> QED BY <2>1, <2>2
  <1>8. C \subseteq F /\ F \in SUBSET Message /\ C \in SUBSET Message
    BY <1>7 DEF Closes
  <1>9. Phases' = [m \in Message |-> IF m \in C THEN "closed" ELSE Phases[m]]
    BY <1>7 DEF Phases, Closes
  <1>10. Contract!Present(s, F, C)
    BY <1>1, <1>2, <1>3, <1>4, <1>5, <1>6, <1>8, <1>9 DEF Contract!Present, Epoch
  <1> QED BY <1>8, <1>10 DEF Contract!Next

(* send submits a message to its recipient.                                *)
LEMMA SendStep ==
  ASSUME TypeOK, RowsAgree, NEW n \in Message, NEW r \in Request, Send(n, r)
  PROVE  Contract!Next
  <1>0. r.from \in Session /\ r.to \in Session
    BY RequestAssumption DEF SendInput
  <1>1. EpochOf' = EpochOf
    <2>1. \A t \in Session : sess'[t].epoch = sess[t].epoch
      BY <1>0, RefreshKeeps, Zenon DEF Send, TypeOK
    <2> QED BY <2>1 DEF EpochOf
  <1>2. shown' = shown
    BY DEF Send
  <1>3. OwnerOf' = [OwnerOf EXCEPT ![n] = r.to]
    <2>1. msg' = [msg EXCEPT ![n] = [from |-> r.from, to |-> r.to, ack |-> r.ack,
                    reply |-> r.reply, seq |-> nextSeq[r.to], parent |-> Null]]
      BY DEF Send, Store
    <2>2. msg'[n].to = r.to /\ \A m \in Message : m # n => msg'[m] = msg[m]
      BY <2>1 DEF TypeOK
    <2> QED BY <2>2, Zenon DEF OwnerOf
  <1>4. Phases[n] = "unsent"
    BY DEF Send, Store, Phases, PhaseOf
  <1>5. Phases' = [m \in Message |-> IF m = n THEN "open"
                                     ELSE IF m \in {} THEN "closed" ELSE Phases[m]]
    <2>1. del'[n].state = "queued" /\ \A m \in Message : m # n => del'[m] = del[m]
      BY DEF Send, QueuedDelivery, TypeOK
    <2> QED BY <2>1 DEF Phases, PhaseOf, Stored, isTerminal, TERMINAL_STATES
  <1>6. Contract!Open(n, r.to, {})
    BY <1>3, <1>4, <1>5 DEF Contract!Open
  <1>7. Contract!Submit(n, r.to)
    BY <1>1, <1>2, <1>6 DEF Contract!Submit
  <1> QED BY <1>0, <1>7 DEF Contract!Next

(* reply submits the answer to the sender of the request, and closes the   *)
(* request if it is in flight or accepted.                                 *)
LEMMA ReplyStep ==
  ASSUME TypeOK, RowsAgree, NEW s \in Session, NEW e \in Epoch, NEW n \in Message,
         NEW i \in Nat, NEW r \in Message, Reply(s, e, n, i, r)
  PROVE  Contract!Next
  <1> DEFINE to == msg[n].from
             C == IF del[n].state \in {"accepted", "transport_written"} THEN {n} ELSE {}
  <1>0. Stored(n) /\ ~Stored(r) /\ n # r /\ to \in Session
    BY NullAssumption DEF Reply, Store, RowsAgree, RowAgrees
  <1>1. EpochOf' = EpochOf
    <2>1. \A t \in Session : sess'[t].epoch = sess[t].epoch
      BY RefreshKeeps, Zenon DEF Reply, TypeOK
    <2> QED BY <2>1 DEF EpochOf
  <1>2. shown' = shown
    BY DEF Reply
  <1>3. OwnerOf' = [OwnerOf EXCEPT ![r] = to]
    <2>1. msg' = [msg EXCEPT ![r] = [from |-> s, to |-> to, ack |-> FALSE,
                    reply |-> FALSE, seq |-> nextSeq[to], parent |-> n]]
      BY DEF Reply, Store
    <2> HIDE DEF to
    <2>2. msg'[r].to = to /\ \A m \in Message : m # r => msg'[m] = msg[m]
      BY <2>1 DEF TypeOK
    <2> QED BY <2>2, Zenon DEF OwnerOf
  <1>4. Phases[r] = "unsent"
    BY <1>0 DEF Phases, PhaseOf
  <1>5. \A c \in C : Phases[c] = "open"
    BY <1>0 DEF Phases, PhaseOf, isTerminal, TERMINAL_STATES
  <1>6. Phases' = [m \in Message |-> IF m = r THEN "open"
                                     ELSE IF m \in C THEN "closed" ELSE Phases[m]]
    <2>1. del'[r].state = "queued"
      BY <1>0 DEF Reply, QueuedDelivery, TypeOK
    <2>2. \A m \in Message : m \notin {n, r} => del'[m] = del[m]
      BY DEF Reply, TypeOK
    <2>3. del'[n].state = IF del[n].state \in {"accepted", "transport_written"}
                          THEN "completed" ELSE del[n].state
      <3>1. del[n] \in DeliveryRow
        BY DEF TypeOK
      <3>2. del'[n] = [del[n] EXCEPT !.state =
                         IF @ \in {"accepted", "transport_written"}
                         THEN "completed" ELSE @]
        BY <1>0 DEF Reply, TypeOK
      <3> QED BY <3>1, <3>2 DEF DeliveryRow
    <2>4. ASSUME NEW m \in Message
          PROVE  PhaseOf(m)' = IF m = r THEN "open"
                               ELSE IF m \in C THEN "closed" ELSE PhaseOf(m)
      <3>1. CASE m = r
        BY <2>1, <3>1 DEF PhaseOf, Stored, isTerminal, TERMINAL_STATES
      <3>2. CASE m = n
        BY <1>0, <2>3, <3>2 DEF PhaseOf, Stored, isTerminal, TERMINAL_STATES
      <3>3. CASE m \notin {n, r}
        BY <2>2, <3>3 DEF PhaseOf, Stored
      <3> QED BY <3>1, <3>2, <3>3
    <2> QED BY <2>4 DEF Phases
  <1>7. C \in SUBSET Message /\ r \notin C /\ \A c, d \in C : c = d
    BY <1>0
  <1> HIDE DEF C, to
  <1>8. Contract!Open(r, to, C)
    BY <1>3, <1>4, <1>5, <1>6, <1>7 DEF Contract!Open
  <1>9. Contract!Submit(r, to)
    BY <1>1, <1>2, <1>7, <1>8 DEF Contract!Submit
  <1> QED BY <1>0, <1>9 DEF Contract!Next

(* Every step of the core is a step of the contract, or changes nothing of *)
(* what it speaks about.                                                   *)
LEMMA StepImplements ==
  ASSUME TypeOK, TypeOK', RowsAgree, BodyShownAtMostOnce, [Next]_vars
  PROVE  Contract!Next
  <1>1. CASE \E s \in Session : RegisterFirst(s) \/ RegisterFresh(s)
    BY <1>1, BeginStep DEF Contract!Next
  <1>2. CASE \E s \in Session, e \in Epoch, B \in SUBSET Message : Pull(s, e, B)
    BY <1>2, PresentStep
  <1>3. CASE \E m \in Message, r \in Request : Send(m, r)
    BY <1>3, SendStep
  <1>4. CASE \E s \in Session, e \in Epoch, m \in Message, i \in Nat, r \in Message :
               Reply(s, e, m, i, r)
    BY <1>4, ReplyStep
  <1>5. ASSUME msg' = msg, shown' = shown, \A t \in Session : sess'[t].epoch = sess[t].epoch,
               \A m \in Message : del[m].state = "absent" => del'[m].state = "absent"
        PROVE  Contract!Next
    <2>1. OwnerOf' = OwnerOf /\ EpochOf' = EpochOf
      BY <1>5 DEF OwnerOf, EpochOf
    <2>2. ASSUME NEW m \in Message, Opened(m) PROVE FALSE
      <3>1. PICK t \in Timer : del'[m] = QueuedDelivery(t)
        BY <2>2 DEF Opened
      <3>2. del'[m].state = "queued"
        BY <3>1 DEF QueuedDelivery
      <3> QED BY <1>5, <2>2, <3>2 DEF Opened, Stored
    <2> QED BY <1>5, <2>1, <2>2, CloseStep
  <1>6. CASE \E s \in Session : RegisterJoin(s)
    BY <1>5, <1>6 DEF RegisterJoin
  <1>7. CASE \E s \in Session, e \in Epoch, m \in Message : Redeliver(s, e, m)
    <2>1. PICK s \in Session : /\ sess' = refreshActivity(s)
                               /\ UNCHANGED <<msg, del, shown>>
      BY <1>7 DEF Redeliver
    <2>2. \A t \in Session : sess'[t].epoch = sess[t].epoch
      BY <2>1, RefreshKeeps, Zenon DEF TypeOK
    <2> QED BY <1>5, <2>1, <2>2
  <1>8. CASE \E s \in Session, e \in Epoch, m \in Message, i \in Nat,
               status \in {"accepted", "rejected"} : Ack(s, e, m, i, status)
    <2>1. PICK s \in Session, m \in Message :
            /\ sess' = refreshActivity(s) /\ UNCHANGED <<msg, shown>>
            /\ del[m].state = "transport_written"
            /\ \E status : del' = [del EXCEPT ![m].state = status]
      BY <1>8, Zenon DEF Ack
    <2>2. \A t \in Session : sess'[t].epoch = sess[t].epoch
      BY <2>1, RefreshKeeps, Zenon DEF TypeOK
    <2>3. \A n \in Message : n # m => del'[n] = del[n]
      BY <2>1 DEF TypeOK
    <2> QED BY <1>5, <2>1, <2>2, <2>3
  <1>9. CASE \E m \in Message : Requeue(m)
    BY <1>5, <1>9 DEF Requeue, Live, Waiting, TypeOK
  <1>10. CASE Quiet
    <2>1. \A t \in Session : sess'[t].epoch = sess[t].epoch
      BY <1>10, Zenon DEF Quiet
    <2>2. msg' = msg /\ del' = del /\ shown' = shown
      BY <1>10, ZenonT(60) DEF Quiet
    <2> QED BY <1>5, <2>1, <2>2, Zenon
  <1>11. CASE Sweep
    <2>1. \A t \in Session : sess'[t].epoch = sess[t].epoch
      BY <1>11, ZenonT(60) DEF Sweep, TypeOK, SessionRow
    <2>2. ASSUME NEW m \in Message, del[m].state = "absent" PROVE del'[m] = del[m]
      <3>1. m \notin AckDue /\ del[m].state \notin Waiting /\ del[m].state \notin Live
        BY <2>2 DEF AckDue, Waiting, Live
      <3>2. reapAcceptanceTtl(del[m]) = del[m] /\ reapExpiredSession(del[m], msg[m].reply) = del[m]
        BY <2>2, <3>1 DEF reapAcceptanceTtl, reapExpiredSession
      <3>3. \A d : Swept(m, d) = del[m]
        BY <3>1, <3>2, Zenon DEF Swept
      <3> QED BY <1>11, <3>3, Zenon DEF Sweep
    <2> QED BY <1>5, <1>11, <2>1, <2>2, ZenonT(60) DEF Sweep
  <1>12. CASE Tick
    <2>1. \A t \in Session : sess'[t].epoch = sess[t].epoch
      BY <1>12, Zenon DEF Tick, TypeOK, SessionRow
    <2> QED BY <1>5, <1>12, <2>1, TickDelivery, ZenonT(60) DEF Tick
  <1> QED BY <1>1, <1>2, <1>3, <1>4, <1>6, <1>7, <1>8, <1>9, <1>10, <1>11, <1>12, StepForms

(* The delivery core implements the contract: for any sets of sessions and *)
(* messages, whatever the order of pulls, acks, replies, sweeps, requeues  *)
(* and registrations, a body is shown to its recipient only, in its        *)
(* current epoch, once there, and never after the delivery is over.        *)
THEOREM CoreImplementsContract == Spec => ImplementsContract
  <1>1. Init => Contract!Init
    <2> SUFFICES ASSUME Init PROVE Contract!Init
      OBVIOUS
    <2>1. EpochOf = [s \in Session |-> 0] /\ OwnerOf = [m \in Message |-> Null]
      BY DEF Init, NoSession, NoMessage, EpochOf, OwnerOf
    <2>2. Phases = [m \in Message |-> "unsent"]
      BY DEF Init, QueuedDelivery, Phases, PhaseOf, Stored
    <2> QED BY <2>1, <2>2 DEF Init, Epoch, Contract!Init
  <1>2. ASSUME TypeOK, TypeOK', RowsAgree, BodyShownAtMostOnce, [Next]_vars
        PROVE  [Contract!Next]_Contract!cvars
    BY <1>2, StepImplements
  <1> QED BY <1>1, <1>2, TypeCorrect, ShownAtMostOnce, PTL
      DEF Spec, ImplementsContract, Contract!Spec
=============================================================================
