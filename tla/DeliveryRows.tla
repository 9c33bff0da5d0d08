---------------------------- MODULE DeliveryRows ----------------------------
(***************************************************************************)
(* The rows of the delivery core, for any sets of sessions, messages and   *)
(* requests and any values of the bounds and durations: type correctness   *)
(* and referential integrity, with the lemmas about single operations that *)
(* everything else rests on; LedgerStep, what a step may do to the         *)
(* injection ledger, which gives the at-most-once promise; and RowMoves,   *)
(* what a step may do to one delivery.                                     *)
(***************************************************************************)
EXTENDS Delivery, TLAPS

(* Two facts about timers: they stay timers, and NULL stays NULL.          *)
LEMMA TimerFacts ==
  /\ ackDeadline \in Timer /\ injectionTtl \in Timer /\ retention \in Timer
  /\ None \in Timer
  /\ \A t \in Timer : Elapse(t) \in Timer
  /\ \A t \in Timer : Elapse(t) = None <=> t = None
  /\ \A t \in Timer : t = 0 => Elapse(t) = 0
  /\ \A t \in Nat : Elapse(t) \in Nat
  BY BoundAssumption DEF Timer, None, Elapse

(* The row that send and reply insert is a delivery row.                   *)
LEMMA QueuedDeliveryType ==
  ASSUME NEW t \in Timer PROVE QueuedDelivery(t) \in DeliveryRow
  BY TimerFacts, BoundAssumption DEF QueuedDelivery, DeliveryRow, DeliveryState, FailureCategory

(* A row stays a delivery row when its state column is written.            *)
LEMMA StateChangeType ==
  ASSUME NEW d \in DeliveryRow, NEW state \in DeliveryState
  PROVE  /\ [d EXCEPT !.state = state] \in DeliveryRow
         /\ [d EXCEPT !.state = state, !.next = None, !.lease = None]
              \in DeliveryRow
  BY TimerFacts, Zenon DEF DeliveryRow

(* The row issue inserts is an injection row.                              *)
LEMMA NewInjectionType ==
  ASSUME NEW t \in Nat PROVE NewInjection(t) \in InjectionRow
  BY DEF NewInjection, InjectionRow

(* refreshActivity keeps the session rows well typed.                      *)
LEMMA RefreshType ==
  ASSUME NEW s \in Session, sess \in [Session -> SessionRow]
  PROVE  refreshActivity(s) \in [Session -> SessionRow]
  BY TimerFacts DEF refreshActivity, SessionRow

(* refreshActivity changes neither the epoch nor the expiry.               *)
LEMMA RefreshKeeps ==
  ASSUME NEW s \in Session, NEW t \in Session, sess \in [Session -> SessionRow]
  PROVE  /\ refreshActivity(s)[t].epoch = sess[t].epoch
         /\ refreshActivity(s)[t].expired = sess[t].expired
  BY DEF refreshActivity, SessionRow

(* An injection of any batch keeps the four tables well typed.             *)
LEMMA InjectType ==
  ASSUME TypeOK, NEW s \in Session, NEW e \in Epoch, NEW B \in SUBSET Message,
         Inject(s, e, B)
  PROVE  TypeOK'
  <1>1. sess' \in [Session -> SessionRow]
    BY RefreshType DEF Inject, TypeOK
  <1>2. ASSUME NEW m \in Message PROVE Injected(m, e) \in DeliveryRow
    <2>1. del[m] \in DeliveryRow /\ e \in 0 .. MaxEpoch
      BY BoundAssumption DEF TypeOK, Epoch
    <2>2. ackDeadlineFor(m) \in Timer
      BY TimerFacts DEF ackDeadlineFor
    <2> QED BY <2>1, <2>2, TimerFacts, Zenon
            DEF Injected, DeliveryRow, DeliveryState, FailureCategory
  <1>3. del' \in [Message -> DeliveryRow]
    BY <1>2 DEF Inject, TypeOK
  <1>4. inj' \in [Message -> [Epoch -> Seq(InjectionRow)]]
    BY NewInjectionType, BoundAssumption DEF Inject, TypeOK
  <1>5. shown' \in [Message -> [Epoch -> Nat]]
    BY DEF Inject, TypeOK
  <1> QED BY <1>1, <1>3, <1>4, <1>5 DEF Inject, TypeOK

-----------------------------------------------------------------------------
(* The epoch a connection holds is one of the epochs.                      *)
LEMMA HeldType ==
  ASSUME TypeOK, NEW s \in Session, NEW e \in Held(s) PROVE e \in Epoch
  BY BoundAssumption DEF TypeOK, SessionRow, Held, Epoch

(* Allocating a sequence and inserting a message keeps types.              *)
LEMMA StoreType ==
  ASSUME TypeOK, NEW r \in Message, NEW row \in MessageRow, row.to \in Session,
         Store(r, row)
  PROVE  msg' \in [Message -> MessageRow] /\ nextSeq' \in [Session -> Nat \ {0}]
  BY DEF TypeOK, Store

(* Spending an injection keeps the ledger well typed.                      *)
LEMMA ConsumeType ==
  ASSUME TypeOK, NEW m \in Message, NEW e \in Epoch, NEW i,
         NEW op \in {"ack", "reply"}, authorize(m, e, i, op)
  PROVE  consume(m, e, i, op) \in [Message -> [Epoch -> Seq(InjectionRow)]]
  <1>1. inj[m][e] \in Seq(InjectionRow) /\ i \in 1 .. Len(inj[m][e])
    BY DEF TypeOK, authorize
  <1>2. inj[m][e][i] \in InjectionRow
    BY <1>1
  <1>3. [inj[m][e][i] EXCEPT !.used = op] \in InjectionRow
    BY <1>2 DEF InjectionRow
  <1>4. [inj[m][e] EXCEPT ![i] = [inj[m][e][i] EXCEPT !.used = op]]
          \in Seq(InjectionRow)
    BY <1>1, <1>3
  <1> QED BY <1>1, <1>4 DEF TypeOK, consume

(* A row stays a delivery row through a whole sweep, and none is made.     *)
LEMMA SweptType ==
  ASSUME TypeOK, NEW m \in Message, NEW d \in nextBackoffMs
  PROVE  /\ Swept(m, d) \in DeliveryRow
         /\ (Swept(m, d).state = "absent") <=> (del[m].state = "absent")
  <1>1. del[m] \in DeliveryRow /\ d \in Timer
    BY BoundAssumption DEF TypeOK, Timer, nextBackoffMs
  <1>2. ASSUME NEW x \in DeliveryRow PROVE reapAckTimeout(x, d) \in DeliveryRow
    <2>1. x.attempts + 1 \in Nat
      BY DEF DeliveryRow
    <2>2. CASE x.attempts + 1 >= maxAttempts
      BY <2>1, <2>2, TimerFacts, Zenon
      DEF reapAckTimeout, DeliveryRow, DeliveryState, FailureCategory
    <2>3. CASE ~(x.attempts + 1 >= maxAttempts)
      BY <1>1, <2>1, <2>3, TimerFacts, Zenon
      DEF reapAckTimeout, DeliveryRow, DeliveryState, FailureCategory
    <2> QED BY <2>2, <2>3
  <1>3. ASSUME NEW x \in DeliveryRow PROVE reapAcceptanceTtl(x) \in DeliveryRow
    BY Zenon DEF reapAcceptanceTtl, DeliveryRow, DeliveryState, FailureCategory
  <1>4. ASSUME NEW x \in DeliveryRow, NEW owes
        PROVE  reapExpiredSession(x, owes) \in DeliveryRow
    BY TimerFacts, Zenon DEF reapExpiredSession, DeliveryRow, DeliveryState, FailureCategory
  <1>5. ASSUME NEW x \in DeliveryRow PROVE reapAckTimeout(x, d).state # "absent"
    BY DEF reapAckTimeout, DeliveryRow
  <1>6. ASSUME NEW x \in DeliveryRow
        PROVE  (reapAcceptanceTtl(x).state = "absent") <=> (x.state = "absent")
    BY DEF reapAcceptanceTtl, Waiting, DeliveryRow
  <1>7. ASSUME NEW x \in DeliveryRow, NEW owes
        PROVE  (reapExpiredSession(x, owes).state = "absent") <=> (x.state = "absent")
    BY DEF reapExpiredSession, Live, Waiting, DeliveryRow
  <1> DEFINE timed == IF m \in AckDue THEN reapAckTimeout(del[m], d) ELSE del[m]
             fresh == reapAcceptanceTtl(timed)
  <1>8. timed \in DeliveryRow /\ ((timed.state = "absent") <=> (del[m].state = "absent"))
    BY <1>1, <1>2, <1>5 DEF AckDue
  <1>9. Swept(m, d) = IF msg[m].to \in SessionsDue THEN reapExpiredSession(fresh, msg[m].reply) ELSE fresh
    BY Zenon DEF Swept
  <1> HIDE DEF timed
  <1>10. fresh \in DeliveryRow /\ ((fresh.state = "absent") <=> (del[m].state = "absent"))
    BY <1>3, <1>6, <1>8
  <1> HIDE DEF fresh
  <1> QED BY <1>4, <1>7, <1>9, <1>10

-----------------------------------------------------------------------------
(* The steps, grouped by what they do to the tables.                       *)

(* The three pulls: a batch, in sequence order, in the current epoch.      *)
Pull(s, e, B) ==
  /\ assertCurrentEpoch(s, e) /\ e \in Epoch
  /\ B \in Batches(s) /\ Inject(s, e, B)

(* A step that moves no row but the sessions', and no epoch; if it clears  *)
(* a tombstone, the session is not ready and has its retention time ahead. *)
Quiet ==
  /\ sess' \in [Session -> SessionRow]
  /\ \A s \in Session : /\ sess'[s].epoch = sess[s].epoch
                        /\ \/ sess'[s].expired = sess[s].expired
                           \/ ~sess'[s].ready /\ sess'[s].idle = retention
  /\ UNCHANGED <<msg, del, inj, rcpt, nextSeq, shown>>

(* operatorRedeliver, of either kind.                                      *)
Requeue(m) ==
  /\ del[m].state \in Live \cup {"accepted"}
  /\ del' = [del EXCEPT ![m].state = "queued", ![m].next = None,
                        ![m].lease = None]
  /\ UNCHANGED <<sess, msg, inj, rcpt, nextSeq, shown>>

(* Every step in one of the forms the inductions distinguish.              *)
LEMMA StepForms ==
  ASSUME TypeOK, [Next]_vars
  PROVE  \/ \E s \in Session : RegisterFirst(s) \/ RegisterFresh(s) \/ RegisterJoin(s)
         \/ \E s \in Session, e \in Epoch, B \in SUBSET Message : Pull(s, e, B)
         \/ \E s \in Session, e \in Epoch, m \in Message : Redeliver(s, e, m)
         \/ \E s \in Session, e \in Epoch, m \in Message, i \in Nat,
               status \in {"accepted", "rejected"} : Ack(s, e, m, i, status)
         \/ \E s \in Session, e \in Epoch, m \in Message, i \in Nat, r \in Message :
               Reply(s, e, m, i, r)
         \/ \E m \in Message, r \in Request : Send(m, r)
         \/ \E m \in Message : Requeue(m)
         \/ Quiet
         \/ Sweep
         \/ Tick
  <1>1. CASE UNCHANGED vars
    BY <1>1 DEF vars, Quiet, TypeOK
  <1>2. ASSUME NEW s \in Session, SessionStep(s)
        PROVE  Quiet \/ RegisterFirst(s) \/ RegisterFresh(s) \/ RegisterJoin(s)
    <2>1. ASSUME NEW a \in BOOLEAN, SetControl(s, a) PROVE Quiet
      <3>1. refreshActivity(s) \in [Session -> SessionRow]
        BY RefreshType DEF TypeOK
      <3>2. \A t \in Session :
              /\ refreshActivity(s)[t].epoch = sess[t].epoch
              /\ refreshActivity(s)[t].expired = sess[t].expired
        BY RefreshKeeps DEF TypeOK
      <3> QED BY <2>1, <3>1, <3>2 DEF SetControl, Quiet, SessionRow
    <2>2. ASSUME NEW a \in BOOLEAN, OperatorSetControl(s, a) PROVE Quiet
      BY <2>2, ZenonT(60) DEF OperatorSetControl, Quiet, TypeOK, SessionRow
    <2>3. ASSUME NEW e \in Held(s), NEW r \in BOOLEAN, SignalReadiness(s, e, r)
          PROVE  Quiet
      BY <2>3, ZenonT(60) DEF SignalReadiness, Quiet, TypeOK, SessionRow
    <2>4. ASSUME NEW e \in Held(s), RenameSession(s, e) PROVE Quiet
      <3>1. sess[s] \in SessionRow
        BY DEF TypeOK
      <3> DEFINE row == [sess[s] EXCEPT !.ready = sess[s].ready /\ ~sess[s].expired,
                                        !.expired = FALSE, !.idle = retention]
      <3>2. row \in SessionRow /\ row.epoch = sess[s].epoch
        BY <3>1, TimerFacts, Zenon DEF SessionRow
      <3>3. row.expired = sess[s].expired \/ (~row.ready /\ row.idle = retention)
        BY <3>1, Zenon DEF SessionRow
      <3>4. sess' = [sess EXCEPT ![s] = row]
        BY <2>4, Zenon DEF RenameSession, TypeOK
      <3> HIDE DEF row
      <3>5. sess' \in [Session -> SessionRow]
        BY <3>2, <3>4 DEF TypeOK
      <3>6. \A t \in Session : sess'[t] = IF t = s THEN row ELSE sess[t]
        BY <3>4 DEF TypeOK
      <3>7. ASSUME NEW t \in Session
            PROVE  /\ sess'[t].epoch = sess[t].epoch
                   /\ \/ sess'[t].expired = sess[t].expired
                      \/ ~sess'[t].ready /\ sess'[t].idle = retention
        <4>1. CASE t = s
          BY <3>2, <3>3, <3>6, <4>1
        <4>2. CASE t # s
          BY <3>6, <4>2
        <4> QED BY <4>1, <4>2
      <3>8. UNCHANGED <<msg, del, inj, rcpt, nextSeq, shown>>
        BY <2>4 DEF RenameSession
      <3> QED BY <3>5, <3>7, <3>8 DEF Quiet
    <2> QED BY <1>2, <2>1, <2>2, <2>3, <2>4 DEF SessionStep
  <1>3. ASSUME NEW s \in Session, NEW e \in Held(s), PullStep(s, e)
        PROVE  \E B \in SUBSET Message : Pull(s, e, B)
    <2>1. e \in Epoch
      BY HeldType
    <2>2. ASSUME NEW B \in SUBSET Message,
                 CheckpointPull(s, e, B) \/ ConnectionPull(s, e, B)
          PROVE  Pull(s, e, B)
      BY <2>1, <2>2 DEF CheckpointPull, ConnectionPull, Pull
    <2>3. ASSUME NEW m \in Message, ProcessNext(s, e, m) PROVE Pull(s, e, {m})
      BY <2>1, <2>3 DEF ProcessNext, Pull
    <2> QED BY <1>3, <2>2, <2>3, Zenon DEF PullStep
  <1>4. ASSUME NEW m \in Message, OperatorRedeliver(m) \/ OperatorReplayAccepted(m)
        PROVE  Requeue(m)
    BY <1>4 DEF OperatorRedeliver, OperatorReplayAccepted, Requeue
  <1>5. ASSUME NEW s \in Session, NEW e \in Held(s), NEW m \in Message,
               ReceiverStep(s, e, m)
        PROVE  /\ e \in Epoch
               /\ \/ Redeliver(s, e, m)
                  \/ \E i \in Nat, status \in {"accepted", "rejected"} :
                       Ack(s, e, m, i, status)
                  \/ \E i \in Nat, r \in Message : Reply(s, e, m, i, r)
    <2>1. e \in Epoch /\ 1 .. MaxLogical \subseteq Nat
      BY HeldType, BoundAssumption
    <2> QED BY <1>5, <2>1 DEF ReceiverStep
  <1>6. CASE \E s \in Session : SessionStep(s)
    BY <1>2, <1>6
  <1>7. CASE \E s \in Session : \E e \in Held(s) : PullStep(s, e)
    <2>0. PICK s \in Session : \E e \in Held(s) : PullStep(s, e)
      BY <1>7
    <2>1. PICK e \in Held(s) : PullStep(s, e)
      BY <2>0
    <2>2. PICK B \in SUBSET Message : Pull(s, e, B)
      BY <1>3, <2>1
    <2> QED BY <2>2 DEF Pull
  <1>8. CASE \E s \in Session : \E e \in Held(s) : \E m \in Message :
               ReceiverStep(s, e, m)
    <2>0. PICK s \in Session : \E e \in Held(s) : \E m \in Message :
                                 ReceiverStep(s, e, m)
      BY <1>8
    <2>1. PICK e \in Held(s), m \in Message : ReceiverStep(s, e, m)
      BY <2>0
    <2> QED BY <1>5, <2>1
  <1>9. CASE \E m \in Message : \/ \E r \in Request : Send(m, r)
                                \/ OperatorRedeliver(m) \/ OperatorReplayAccepted(m)
    BY <1>4, <1>9
  <1> QED BY <1>1, <1>6, <1>7, <1>8, <1>9 DEF Next

-----------------------------------------------------------------------------
(* Type correctness and referential integrity.  They are proved together:  *)
(* a reply is typed only because the message it answers has a sender.      *)

(* Every action keeps the tables well typed.                               *)
LEMMA TypeStep ==
  ASSUME TypeOK, RowsAgree, [Next]_vars
  PROVE  TypeOK'
  <1>1. ASSUME NEW s \in Session, RegisterFirst(s) PROVE TypeOK'
    <2>1. sess[s] \in SessionRow /\ 1 \in 0 .. MaxEpoch
      BY BoundAssumption DEF TypeOK
    <2>2. [sess[s] EXCEPT !.epoch = 1, !.idle = retention] \in SessionRow
      BY <2>1, TimerFacts, Zenon DEF SessionRow
    <2>3. sess' = [sess EXCEPT ![s] = [sess[s] EXCEPT !.epoch = 1, !.idle = retention]]
      BY <1>1, Zenon DEF RegisterFirst, TypeOK
    <2> QED BY <1>1, <2>2, <2>3 DEF RegisterFirst, TypeOK
  <1>2. ASSUME NEW s \in Session, RegisterFresh(s) PROVE TypeOK'
    <2> DEFINE e == sess[s].epoch + 1
    <2>1. e \in Epoch
      BY <1>2, BoundAssumption DEF RegisterFresh, TypeOK, SessionRow, Epoch
    <2>2. sess' \in [Session -> SessionRow]
      <3>1. sess[s] \in SessionRow /\ e \in 0 .. MaxEpoch
        BY <2>1 DEF TypeOK, Epoch
      <3>2. [sess[s] EXCEPT !.epoch = e, !.ready = FALSE, !.expired = FALSE,
                            !.idle = retention] \in SessionRow
        BY <3>1, TimerFacts, Zenon DEF SessionRow
      <3>3. sess' = [sess EXCEPT ![s] = [sess[s] EXCEPT !.epoch = e,
                       !.ready = FALSE, !.expired = FALSE, !.idle = retention]]
        BY <1>2, ZenonT(60) DEF RegisterFresh, TypeOK
      <3> QED BY <3>2, <3>3 DEF TypeOK
    <2>3. <<NewInjection(retention)>> \in Seq(InjectionRow)
      BY NewInjectionType, BoundAssumption
    <2>4. inj' \in [Message -> [Epoch -> Seq(InjectionRow)]]
      BY <1>2, <2>1, <2>3 DEF RegisterFresh, TypeOK
    <2>5. del' \in [Message -> DeliveryRow]
      BY <1>2, StateChangeType, ZenonT(60) DEF RegisterFresh, TypeOK, DeliveryState
    <2> QED BY <1>2, <2>2, <2>4, <2>5 DEF RegisterFresh, TypeOK
  <1>3. ASSUME NEW s \in Session, RegisterJoin(s) PROVE TypeOK'
    BY <1>3, StateChangeType, Zenon DEF RegisterJoin, TypeOK, DeliveryState
  <1>4. ASSUME NEW s \in Session, NEW e \in Epoch, NEW B \in SUBSET Message,
               Pull(s, e, B)
        PROVE  TypeOK'
    BY <1>4, InjectType DEF Pull
  <1>5. ASSUME NEW s \in Session, NEW e \in Epoch, NEW m \in Message,
               Redeliver(s, e, m)
        PROVE  TypeOK'
    <2>1. inj[m][e] \in Seq(InjectionRow)
          /\ NewInjection(injectionTtl) \in InjectionRow
      BY NewInjectionType, BoundAssumption DEF TypeOK
    <2>2. Append(inj[m][e], NewInjection(injectionTtl)) \in Seq(InjectionRow)
      BY <2>1
    <2>3. inj' \in [Message -> [Epoch -> Seq(InjectionRow)]]
      BY <1>5, <2>2 DEF Redeliver, TypeOK
    <2>4. sess' \in [Session -> SessionRow]
      BY <1>5, RefreshType, Zenon DEF Redeliver, TypeOK
    <2> QED BY <1>5, <2>3, <2>4 DEF Redeliver, TypeOK
  <1>6. ASSUME NEW s \in Session, NEW e \in Epoch, NEW m \in Message,
               NEW i \in Nat, NEW status \in {"accepted", "rejected"},
               Ack(s, e, m, i, status)
        PROVE  TypeOK'
    <2>1. inj' \in [Message -> [Epoch -> Seq(InjectionRow)]]
      BY <1>6, ConsumeType DEF Ack
    <2>2. sess' \in [Session -> SessionRow]
      BY <1>6, RefreshType, Zenon DEF Ack, TypeOK
    <2>3. del' \in [Message -> DeliveryRow]
      <3>1. del' = [del EXCEPT ![m] = [del[m] EXCEPT !.state = status]]
        BY <1>6 DEF Ack, TypeOK
      <3> QED BY <3>1, StateChangeType, Zenon DEF TypeOK, DeliveryState
    <2>4. rcpt' \in [Message -> ReceiptRow]
      BY <1>6, Zenon DEF Ack, TypeOK, ReceiptRow
    <2> QED BY <1>6, <2>1, <2>2, <2>3, <2>4 DEF Ack, TypeOK
  <1>7. ASSUME NEW s \in Session, NEW e \in Epoch, NEW m \in Message,
               NEW i \in Nat, NEW r \in Message, Reply(s, e, m, i, r)
        PROVE  TypeOK'
    <2> DEFINE row == [from |-> s, to |-> msg[m].from, ack |-> FALSE,
                       reply |-> FALSE, seq |-> nextSeq[msg[m].from],
                       parent |-> m]
    <2>1. msg[m].from \in Session
      BY <1>7, NullAssumption DEF Reply, RowsAgree, RowAgrees
    <2>2. row \in MessageRow /\ row.to \in Session
      BY <2>1 DEF MessageRow, TypeOK
    <2>3. msg' \in [Message -> MessageRow] /\ nextSeq' \in [Session -> Nat \ {0}]
      BY <1>7, <2>2, StoreType DEF Reply
    <2>4. inj' \in [Message -> [Epoch -> Seq(InjectionRow)]]
      BY <1>7, ConsumeType DEF Reply
    <2>5. sess' \in [Session -> SessionRow]
      BY <1>7, RefreshType, Zenon DEF Reply, TypeOK
    <2>6. QueuedDelivery(None) \in DeliveryRow
      BY QueuedDeliveryType, TimerFacts
    <2>7. del' \in [Message -> DeliveryRow]
      BY <1>7, <2>6, ZenonT(60) DEF Reply, TypeOK, DeliveryRow, DeliveryState
    <2>8. rcpt' \in [Message -> ReceiptRow]
      BY <1>7, Zenon DEF Reply, TypeOK, ReceiptRow
    <2> QED BY <1>7, <2>3, <2>4, <2>5, <2>7, <2>8 DEF Reply, TypeOK
  <1>8. ASSUME NEW m \in Message, NEW r \in Request, Send(m, r) PROVE TypeOK'
    <2> DEFINE row == [from |-> r.from, to |-> r.to, ack |-> r.ack,
                       reply |-> r.reply, seq |-> nextSeq[r.to], parent |-> Null]
    <2>1. r \in SendInput
      BY RequestAssumption
    <2>2. row \in MessageRow /\ row.to \in Session
      BY <2>1 DEF SendInput, MessageRow, TypeOK
    <2>3. msg' \in [Message -> MessageRow] /\ nextSeq' \in [Session -> Nat \ {0}]
      BY <1>8, <2>2, StoreType DEF Send
    <2>4. sess' \in [Session -> SessionRow]
      BY <1>8, <2>1, RefreshType DEF Send, TypeOK, SendInput
    <2>5. QueuedDelivery(r.ttl) \in DeliveryRow
      BY <2>1, QueuedDeliveryType DEF SendInput
    <2>6. del' \in [Message -> DeliveryRow]
      BY <1>8, <2>5 DEF Send, TypeOK
    <2> QED BY <1>8, <2>3, <2>4, <2>6 DEF Send, TypeOK
  <1>9. ASSUME NEW m \in Message, Requeue(m) PROVE TypeOK'
    <2>1. del' = [del EXCEPT ![m] = [del[m] EXCEPT !.state = "queued",
                                        !.next = None, !.lease = None]]
      BY <1>9, Zenon DEF Requeue, TypeOK
    <2>2. del' \in [Message -> DeliveryRow]
      BY <2>1, StateChangeType, Zenon DEF TypeOK, DeliveryState
    <2> QED BY <1>9, <2>2 DEF Requeue, TypeOK
  <1>10. CASE Quiet
    BY <1>10, SMTT(60) DEF Quiet, TypeOK
  <1>11. CASE Sweep
    <2>1. PICK delay \in [Message -> nextBackoffMs] :
            del' = [m \in Message |-> Swept(m, delay[m])]
      BY <1>11, Zenon DEF Sweep
    <2>2. del' \in [Message -> DeliveryRow]
      BY <2>1, SweptType, SMTT(60)
    <2>3. sess' \in [Session -> SessionRow]
      BY <1>11, ZenonT(60) DEF Sweep, TypeOK, SessionRow
    <2> QED BY <1>11, <2>2, <2>3, ZenonT(60) DEF Sweep, TypeOK
  <1>12. CASE Tick
    <2>1. sess' \in [Session -> SessionRow]
      BY <1>12, TimerFacts, ZenonT(60) DEF Tick, TypeOK, SessionRow
    <2>2. del' \in [Message -> DeliveryRow]
      BY <1>12, TimerFacts, ZenonT(60) DEF Tick, TypeOK, DeliveryRow
    <2>3. ASSUME NEW q \in Seq(InjectionRow)
          PROVE  [i \in 1 .. Len(q) |-> [q[i] EXCEPT !.ttl = Elapse(@)]]
                   \in Seq(InjectionRow)
      <3>1. ASSUME NEW i \in 1 .. Len(q)
            PROVE  [q[i] EXCEPT !.ttl = Elapse(@)] \in InjectionRow
        <4>1. q[i] \in InjectionRow
          BY <2>3, <3>1
        <4> QED BY <4>1, TimerFacts DEF InjectionRow
      <3> QED BY <3>1
    <2>4. inj' \in [Message -> [Epoch -> Seq(InjectionRow)]]
      BY <1>12, <2>3, ZenonT(60) DEF Tick, TypeOK
    <2> QED BY <1>12, <2>1, <2>2, <2>4, Zenon DEF Tick, TypeOK
  <1> QED
    BY <1>1, <1>2, <1>3, <1>4, <1>5, <1>6, <1>7, <1>8, <1>9, <1>10, <1>11, <1>12,
       StepForms

(* Epochs move only by registration, and never back.                       *)
LEMMA EpochStep ==
  ASSUME TypeOK, [Next]_vars, NEW s \in Session
  PROVE  \/ sess'[s].epoch = sess[s].epoch
         \/ RegisterFirst(s) /\ sess'[s].epoch = 1
         \/ RegisterFresh(s) /\ sess'[s].epoch = sess[s].epoch + 1
  <1>1. ASSUME NEW t \in Session, RegisterFirst(t) \/ RegisterFresh(t)
        PROVE  \/ sess'[s].epoch = sess[s].epoch
               \/ RegisterFirst(s) /\ sess'[s].epoch = 1
               \/ RegisterFresh(s) /\ sess'[s].epoch = sess[s].epoch + 1
    <2>1. CASE RegisterFirst(t)
      BY <2>1, Zenon DEF RegisterFirst, TypeOK, SessionRow
    <2>2. CASE RegisterFresh(t)
      <3>1. t # s => sess'[s] = sess[s]
        BY <2>2 DEF RegisterFresh, TypeOK
      <3>2. sess'[t].epoch = sess[t].epoch + 1
        BY <2>2 DEF RegisterFresh, TypeOK, SessionRow
      <3> QED BY <2>2, <3>1, <3>2
    <2> QED BY <1>1, <2>1, <2>2
  <1>2. ASSUME NEW t \in Session, RegisterJoin(t) PROVE sess'[s].epoch = sess[s].epoch
    BY <1>2 DEF RegisterJoin
  <1>3. ASSUME NEW t \in Session, sess' = sess \/ sess' = refreshActivity(t)
        PROVE  sess'[s].epoch = sess[s].epoch
    BY <1>3, RefreshKeeps DEF TypeOK
  <1>4. ASSUME NEW t \in Session, NEW e \in Epoch, NEW B \in SUBSET Message,
               Pull(t, e, B)
        PROVE  sess' = sess \/ sess' = refreshActivity(t)
    BY <1>4 DEF Pull, Inject
  <1>5. ASSUME NEW m \in Message, NEW r \in Request, Send(m, r)
        PROVE  r.from \in Session /\ sess' = refreshActivity(r.from)
    BY <1>5, RequestAssumption, SMTT(60) DEF Send, SendInput
  <1>6. CASE Sweep
    BY <1>6, ZenonT(60) DEF Sweep, TypeOK, SessionRow
  <1>7. CASE Tick
    BY <1>7, Zenon DEF Tick, TypeOK, SessionRow
  <1>8. ASSUME \E m \in Message, r \in Request : Send(m, r)
        PROVE  sess'[s].epoch = sess[s].epoch
    BY <1>3, <1>5, <1>8
  <1>9. ASSUME \E t \in Session, e \in Epoch, B \in SUBSET Message : Pull(t, e, B)
        PROVE  sess'[s].epoch = sess[s].epoch
    BY <1>3, <1>4, <1>9
  <1>10. ASSUME \/ \E t \in Session, e \in Epoch, m \in Message : Redeliver(t, e, m)
                \/ \E t \in Session, e \in Epoch, m \in Message, i \in Nat,
                      status \in {"accepted", "rejected"} : Ack(t, e, m, i, status)
                \/ \E t \in Session, e \in Epoch, m \in Message, i \in Nat, r \in Message :
                      Reply(t, e, m, i, r)
         PROVE  sess'[s].epoch = sess[s].epoch
    <2>1. \E t \in Session : sess' = sess \/ sess' = refreshActivity(t)
      BY <1>10, ZenonT(60) DEF Redeliver, Ack, Reply
    <2> QED BY <1>3, <2>1
  <1>11. ASSUME (\E m \in Message : Requeue(m)) \/ Quiet
         PROVE  sess'[s].epoch = sess[s].epoch
    BY <1>3, <1>11 DEF Requeue, Quiet
  <1> QED BY <1>1, <1>2, <1>6, <1>7, <1>8, <1>9, <1>10, <1>11, StepForms

(* Time changes what is left of a timestamp, and nothing else.             *)
LEMMA TickDelivery ==
  ASSUME TypeOK, Tick, NEW m \in Message
  PROVE  /\ del'[m].state = del[m].state /\ del'[m].gen = del[m].gen
         /\ del'[m].attempts = del[m].attempts
         /\ del'[m].category = del[m].category
         /\ del'[m].lease = Elapse(del[m].lease)
         /\ del'[m].next = Elapse(del[m].next)
         /\ del'[m].ttl = Elapse(del[m].ttl)
  <1>1. del[m] \in DeliveryRow
    BY SMTT(60) DEF TypeOK
  <1>2. del'[m] = [del[m] EXCEPT !.lease = Elapse(@), !.next = Elapse(@),
                                 !.ttl = Elapse(@)]
    BY Zenon DEF Tick
  <1> QED BY <1>1, <1>2 DEF DeliveryRow

(* Time adds, drops and spends no injection.                               *)
LEMMA TickInjections ==
  ASSUME TypeOK, TypeOK', Tick, NEW m \in Message, NEW e \in Epoch
  PROVE  /\ Len(inj'[m][e]) = Len(inj[m][e])
         /\ inj'[m][e] = <<>> <=> inj[m][e] = <<>>
         /\ \A i \in 1 .. Len(inj[m][e]) : inj'[m][e][i].used = inj[m][e][i].used
  <1>1. inj[m][e] \in Seq(InjectionRow) /\ inj'[m][e] \in Seq(InjectionRow)
    BY SMTT(60) DEF TypeOK
  <1>2. inj'[m][e] = [i \in 1 .. Len(inj[m][e]) |->
                        [inj[m][e][i] EXCEPT !.ttl = Elapse(@)]]
    BY Zenon DEF Tick
  <1>3. Len(inj'[m][e]) = Len(inj[m][e])
    BY <1>1, <1>2
  <1>4. inj'[m][e] = <<>> <=> inj[m][e] = <<>>
    BY <1>1, <1>3
  <1>5. ASSUME NEW i \in 1 .. Len(inj[m][e])
        PROVE  inj'[m][e][i].used = inj[m][e][i].used
    <2>1. inj[m][e][i] \in InjectionRow
      BY <1>1, SMTT(60)
    <2> QED BY <1>2, <2>1 DEF InjectionRow
  <1> QED BY <1>3, <1>4, <1>5

(* Every action keeps the tables in agreement.                             *)
LEMMA RowsStep ==
  ASSUME TypeOK, TypeOK', RowsAgree, [Next]_vars, NEW m \in Message
  PROVE  RowAgrees(m)'
  <1> USE NullAssumption DEF Stored, RowAgrees
  <1>0. RowAgrees(m)
    BY SMTT(60) DEF RowsAgree
  <1>a. ASSUME NEW s \in Session, sess[s].epoch > 0 PROVE sess'[s].epoch > 0
    <2>1. sess[s].epoch \in Nat
      BY DEF TypeOK, SessionRow
    <2>2. \/ sess'[s].epoch = sess[s].epoch
          \/ sess'[s].epoch = 1
          \/ sess'[s].epoch = sess[s].epoch + 1
      BY EpochStep
    <2> QED BY <1>a, <2>1, <2>2
  <1>b. ASSUME /\ UNCHANGED <<msg[m], rcpt[m], inj[m], shown[m]>>
               /\ del'[m].state = "absent" <=> del[m].state = "absent"
        PROVE  RowAgrees(m)'
    BY <1>0, <1>a, <1>b
  <1>1. ASSUME NEW s \in Session,
               RegisterFirst(s) \/ RegisterFresh(s) \/ RegisterJoin(s)
        PROVE  RowAgrees(m)'
    <2>1. CASE RegisterFirst(s)
      BY <2>1, <1>b, SMTT(60) DEF RegisterFirst
    <2>2. CASE RegisterFresh(s)
      BY <2>2, <1>0, <1>a DEF RegisterFresh, TypeOK, DeliveryRow
    <2>3. CASE RegisterJoin(s)
      BY <2>3, <1>b DEF RegisterJoin, TypeOK, DeliveryRow
    <2> QED BY <1>1, <2>1, <2>2, <2>3
  <1>4. ASSUME NEW s \in Session, NEW e \in Epoch, NEW B \in SUBSET Message,
               Pull(s, e, B)
        PROVE  RowAgrees(m)'
    <2>1. m \in B => msg[m].to = s
      BY <1>4 DEF Pull, Batches, Pending
    <2>2. CASE m \in B
      <3>1. del'[m] = Injected(m, e) /\ msg' = msg
        BY <1>4, <2>2 DEF Pull, Inject
      <3>2. del'[m].state # "absent"
        BY <3>1 DEF Injected, TypeOK, DeliveryRow
      <3> QED BY <1>0, <1>a, <2>1, <2>2, <3>1, <3>2
    <2>3. CASE m \notin B
      BY <1>4, <1>b, <2>3, SMTT(60) DEF Pull, Inject
    <2> QED BY <2>2, <2>3
  <1>5. ASSUME NEW s \in Session, NEW e \in Epoch, NEW n \in Message,
               Redeliver(s, e, n)
        PROVE  RowAgrees(m)'
    <2>1. /\ UNCHANGED <<msg, del, rcpt, shown>> /\ msg[n].to = s
          /\ m # n => inj'[m] = inj[m]
      BY <1>5 DEF Redeliver, TypeOK
    <2>2. CASE m = n
      <3>1. Stored(m)
        BY <1>0, <2>1, <2>2
      <3> QED BY <1>0, <1>a, <2>1, <3>1
    <2>3. CASE m # n
      BY <1>b, <2>1, <2>3
    <2> QED BY <2>2, <2>3
  <1>6. ASSUME NEW s \in Session, NEW e \in Epoch, NEW n \in Message,
               NEW i \in Nat, NEW status \in {"accepted", "rejected"},
               Ack(s, e, n, i, status)
        PROVE  RowAgrees(m)'
    <2>1. CASE m = n
      <3>1. /\ del[n].state = "transport_written" /\ msg' = msg
            /\ del' = [del EXCEPT ![n].state = status]
        BY ONLY <1>6 DEF Ack
      <3>2. del'[m].state = status
        BY <2>1, <3>1 DEF TypeOK, DeliveryRow
      <3> QED BY <1>0, <1>a, <2>1, <3>1, <3>2
    <2>2. CASE m # n
      BY <1>6, <1>b, <2>2 DEF Ack, consume, TypeOK
    <2> QED BY <2>1, <2>2
  <1>7. ASSUME NEW s \in Session, NEW e \in Epoch, NEW n \in Message,
               NEW i \in Nat, NEW r \in Message, Reply(s, e, n, i, r)
        PROVE  RowAgrees(m)'
    <2>1. /\ ~Stored(r) /\ r # n /\ Stored(n) /\ RowAgrees(n)
          /\ msg' = [msg EXCEPT ![r] = [from |-> s, to |-> msg[n].from,
                      ack |-> FALSE, reply |-> FALSE,
                      seq |-> nextSeq[msg[n].from], parent |-> n]]
      BY <1>7 DEF RowsAgree, Reply, Store
    <2>2. CASE m = r
      <3>1. msg'[m].from = s /\ msg'[m].to = msg[n].from /\ del'[m].state = "queued"
        BY <1>7, <2>1, <2>2 DEF Reply, TypeOK, QueuedDelivery
      <3>2. sess[s].epoch > 0
        BY <1>7, <2>1 DEF Reply
      <3> QED BY <3>1, <3>2, <2>1, <1>a
    <2>3. CASE m = n
      <3>1. msg'[m] = msg[m] /\ del'[m].state # "absent"
        BY <1>7, <2>1, <2>3, SMTT(60) DEF Reply, TypeOK, DeliveryRow
      <3> QED BY <3>1, <2>1, <2>3, <1>a
    <2>4. CASE m \notin {n, r}
      BY <1>7, <1>b, <2>1, <2>4 DEF Reply, consume, TypeOK
    <2> QED BY <2>2, <2>3, <2>4
  <1>8. ASSUME NEW n \in Message, NEW r \in Request, Send(n, r) PROVE RowAgrees(m)'
    <2>1. r \in SendInput
      BY RequestAssumption
    <2>2. CASE m = n
      <3>1. msg'[m].from = r.from /\ msg'[m].to = r.to /\ del'[m].state = "queued"
        BY <1>8, <2>2 DEF Send, Store, TypeOK, QueuedDelivery
      <3>2. sess[r.from].epoch > 0 /\ sess[r.to].epoch > 0
        BY <1>8, SMTT(60) DEF Send
      <3> QED BY <2>1, <3>1, <3>2, <1>a DEF SendInput
    <2>3. CASE m # n
      BY <1>8, <1>b, <2>3 DEF Send, Store, TypeOK
    <2> QED BY <2>2, <2>3
  <1>9. ASSUME NEW n \in Message, Requeue(n) PROVE RowAgrees(m)'
    BY <1>9, <1>b DEF Requeue, TypeOK, DeliveryRow, Live, Waiting
  <1>10. CASE Quiet
    BY <1>10, <1>b, SMTT(60) DEF Quiet
  <1>11. CASE Sweep
    <2>1. PICK delay \in [Message -> nextBackoffMs] :
            del' = [n \in Message |-> Swept(n, delay[n])]
      BY <1>11, Zenon DEF Sweep
    <2>2. del'[m] = Swept(m, delay[m])
      BY <2>1, SMTT(60)
    <2>3. del'[m].state = "absent" <=> del[m].state = "absent"
      BY <2>1, <2>2, SweptType
    <2> QED BY <1>11, <1>b, <2>3, ZenonT(60) DEF Sweep
  <1>12. CASE Tick
    <2>1. del'[m].state = del[m].state
      BY <1>12, TickDelivery
    <2>2. \A e \in Epoch : inj[m][e] = <<>> => inj'[m][e] = <<>>
      BY <1>12, TickInjections, SMTT(60)
    <2>3. msg' = msg /\ rcpt' = rcpt /\ shown' = shown
      BY <1>12, Zenon DEF Tick
    <2> QED BY <1>0, <1>a, <2>1, <2>2, <2>3
  <1> QED
    BY <1>1, <1>4, <1>5, <1>6, <1>7, <1>8, <1>9, <1>10, <1>11, <1>12, StepForms, ZenonT(60)

(* TypeOK and RowsAgree are invariants of the delivery core.               *)
THEOREM TypeCorrect == Spec => [](TypeOK /\ RowsAgree)
  <1>1. Init => TypeOK
    <2> SUFFICES ASSUME Init PROVE TypeOK
      OBVIOUS
    <2>1. sess \in [Session -> SessionRow]
      BY BoundAssumption, TimerFacts DEF Init, NoSession, SessionRow
    <2>2. msg \in [Message -> MessageRow]
      BY SMTT(60) DEF Init, NoMessage, MessageRow
    <2>3. [QueuedDelivery(None) EXCEPT !.state = "absent"] \in DeliveryRow
      BY QueuedDeliveryType, StateChangeType, TimerFacts, Zenon DEF DeliveryState
    <2>4. del \in [Message -> DeliveryRow]
      BY <2>3 DEF Init
    <2>5. rcpt \in [Message -> ReceiptRow]
      BY DEF Init, ReceiptRow
    <2>6. <<>> \in Seq(InjectionRow)
      OBVIOUS
    <2>7. inj \in [Message -> [Epoch -> Seq(InjectionRow)]]
      BY <2>6 DEF Init
    <2>8. nextSeq \in [Session -> Nat \ {0}] /\ shown \in [Message -> [Epoch -> Nat]]
      BY DEF Init
    <2> QED BY <2>1, <2>2, <2>4, <2>5, <2>7, <2>8 DEF TypeOK
  <1>2. Init => RowsAgree
    BY DEF Init, RowsAgree, RowAgrees, Stored, QueuedDelivery, NoMessage
  <1>3. TypeOK /\ RowsAgree /\ [Next]_vars => (TypeOK /\ RowsAgree)'
    <2> SUFFICES ASSUME TypeOK, RowsAgree, [Next]_vars PROVE TypeOK' /\ RowsAgree'
      OBVIOUS
    <2>1. TypeOK'
      BY ONLY TypeOK, RowsAgree, [Next]_vars, TypeStep
    <2>2. \A m \in Message : RowAgrees(m)'
      BY ONLY TypeOK, RowsAgree, [Next]_vars, <2>1, RowsStep
    <2> QED BY ONLY <2>1, <2>2 DEF RowsAgree
  <1> QED BY <1>1, <1>2, <1>3, PTL DEF Spec

-----------------------------------------------------------------------------
(* Whether an injection row exists, and whether a body was shown, change   *)
(* together in a pull, and only rows of the current epoch change at all.   *)
LEMMA LedgerStep ==
  ASSUME TypeOK, TypeOK', RowsAgree, [Next]_vars,
         NEW m \in Message, NEW e \in Epoch
  PROVE  \/ /\ shown'[m][e] = shown[m][e]
            /\ Len(inj'[m][e]) >= Len(inj[m][e])
         \/ /\ shown'[m][e] = shown[m][e] + 1
            /\ Len(inj[m][e]) = 0 /\ Len(inj'[m][e]) = 1
  <1> DEFINE Same == shown'[m][e] = shown[m][e] /\ Len(inj'[m][e]) >= Len(inj[m][e])
  <1>0. inj[m][e] \in Seq(InjectionRow) /\ shown[m][e] \in Nat
    BY DEF TypeOK
  <1>a. Len(inj[m][e]) \in Nat
    BY <1>0
  <1>b. shown' = shown /\ inj'[m][e] = inj[m][e] => Same
    BY <1>a
  <1>1. ASSUME NEW s \in Session,
               RegisterFirst(s) \/ RegisterFresh(s) \/ RegisterJoin(s)
        PROVE  Same
    <2>1. CASE RegisterFirst(s) \/ RegisterJoin(s)
      BY <2>1, <1>b DEF RegisterFirst, RegisterJoin
    <2>2. CASE RegisterFresh(s)
      <3>1. shown' = shown
        BY <2>2 DEF RegisterFresh
      <3>2. inj'[m][e] = inj[m][e] \/ inj[m][e] = <<>>
        BY <2>2 DEF RegisterFresh, Fresh, TypeOK
      <3>3. inj'[m][e] \in Seq(InjectionRow)
        BY DEF TypeOK
      <3> QED BY <3>1, <3>2, <3>3, <1>b
    <2> QED BY <1>1, <2>1, <2>2
  <1>2. ASSUME NEW s \in Session, NEW f \in Epoch, NEW B \in SUBSET Message,
               Pull(s, f, B)
        PROVE  \/ Same
               \/ /\ shown'[m][e] = shown[m][e] + 1
                  /\ Len(inj[m][e]) = 0 /\ Len(inj'[m][e]) = 1
    <2>1. CASE m \in B /\ Fresh(m, f) /\ e = f
      <3>1. shown'[m][e] = shown[m][e] + 1 /\ inj[m][e] = <<>>
        BY <1>2, <2>1 DEF Pull, Inject, Fresh, TypeOK
      <3>2. inj'[m][e] = <<NewInjection(injectionTtl)>>
        BY <1>2, <2>1 DEF Pull, Inject, TypeOK
      <3> QED BY <3>1, <3>2
    <2>2. CASE ~(m \in B /\ Fresh(m, f) /\ e = f)
      <3>1. shown'[m][e] = shown[m][e] /\ inj'[m][e] = inj[m][e]
        BY <1>2, <2>2 DEF Pull, Inject, TypeOK
      <3> QED BY <3>1, <1>a
    <2> QED BY <2>1, <2>2
  <1>3. ASSUME NEW s \in Session, NEW f \in Epoch, NEW n \in Message,
               Redeliver(s, f, n)
        PROVE  Same
    <2>1. shown' = shown
      BY <1>3 DEF Redeliver
    <2>2. CASE m = n /\ e = f
      <3>1. inj'[m][e] = Append(inj[m][e], NewInjection(injectionTtl))
        BY <1>3, <2>2 DEF Redeliver, TypeOK
      <3>2. NewInjection(injectionTtl) \in InjectionRow
        BY NewInjectionType, BoundAssumption
      <3> QED BY <2>1, <3>1, <3>2, <1>0
    <2>3. CASE ~(m = n /\ e = f)
      BY <1>3, <2>1, <2>3, <1>b DEF Redeliver, TypeOK
    <2> QED BY <2>2, <2>3
  <1>4. ASSUME NEW f \in Epoch, NEW n \in Message, NEW i \in Nat,
               NEW op \in {"ack", "reply"}, inj' = consume(n, f, i, op)
        PROVE  Len(inj'[m][e]) = Len(inj[m][e])
    BY <1>0, <1>4 DEF consume, TypeOK
  <1>5. CASE Tick
    <2>1. shown' = shown
      BY <1>5, Zenon DEF Tick
    <2> QED BY <1>5, <2>1, <1>a, TickInjections, SMTT(60)
  <1>6. ASSUME NEW s \in Session, NEW f \in Epoch, NEW n \in Message, NEW i \in Nat,
               NEW status \in {"accepted", "rejected"}, Ack(s, f, n, i, status)
        PROVE  Same
    BY <1>4, <1>6, <1>a DEF Ack
  <1>7. ASSUME NEW s \in Session, NEW f \in Epoch, NEW n \in Message, NEW i \in Nat,
               NEW r \in Message, Reply(s, f, n, i, r)
        PROVE  Same
    BY <1>4, <1>7, <1>a, SMTT(60) DEF Reply
  <1>8. ASSUME \/ \E n \in Message, r \in Request : Send(n, r)
               \/ \E n \in Message : Requeue(n)
               \/ Quiet \/ Sweep
        PROVE  Same
    BY <1>8, <1>b, Zenon DEF Send, Requeue, Quiet, Sweep
  <1> QED BY <1>1, <1>2, <1>3, <1>5, <1>6, <1>7, <1>8, StepForms

(* Injection rows are never deleted.                                       *)
LEMMA InjectionStays ==
  ASSUME TypeOK, TypeOK', RowsAgree, [Next]_vars, NEW m \in Message, NEW e \in Epoch,
         inj[m][e] # <<>>
  PROVE  inj'[m][e] # <<>>
  <1> DEFINE a == Len(inj[m][e])
             b == Len(inj'[m][e])
  <1>1. inj[m][e] \in Seq(InjectionRow) /\ inj'[m][e] \in Seq(InjectionRow)
    BY DEF TypeOK
  <1>2. a \in Nat /\ b \in Nat /\ a # 0
    BY <1>1, SMTT(60)
  <1>3. b >= a
    BY <1>2, LedgerStep
  <1>4. b # 0
    <2> HIDE DEF a, b
    <2> QED BY <1>2, <1>3, SMTT(60)
  <1> QED BY <1>4

-----------------------------------------------------------------------------
(* BodyShownAtMostOnce is an invariant: no interleaving of pulls, sweeps,  *)
(* requeues and registrations shows a body twice in one epoch.             *)
THEOREM ShownAtMostOnce == Spec => []BodyShownAtMostOnce
  <1>1. Init => BodyShownAtMostOnce
    BY DEF Init, BodyShownAtMostOnce
  <1>2. ASSUME TypeOK, TypeOK', RowsAgree, BodyShownAtMostOnce, [Next]_vars
        PROVE  BodyShownAtMostOnce'
    <2> SUFFICES ASSUME NEW m \in Message, NEW e \in Epoch
                 PROVE  shown'[m][e] <= 1 /\ shown'[m][e] <= Len(inj'[m][e])
      BY DEF BodyShownAtMostOnce
    <2> DEFINE a == shown[m][e]
               b == Len(inj[m][e])
               c == shown'[m][e]
               d == Len(inj'[m][e])
    <2>1. a <= 1 /\ a <= b
      BY <1>2 DEF BodyShownAtMostOnce
    <2>2. a \in Nat /\ b \in Nat /\ c \in Nat /\ d \in Nat
      <3>1. inj[m][e] \in Seq(InjectionRow) /\ inj'[m][e] \in Seq(InjectionRow)
        BY <1>2 DEF TypeOK
      <3> QED BY <1>2, <3>1 DEF TypeOK
    <2>3. (c = a /\ d >= b) \/ (c = a + 1 /\ b = 0 /\ d = 1)
      BY <1>2, LedgerStep
    <2> SUFFICES c <= 1 /\ c <= d
      BY SMTT(60)
    <2> HIDE DEF a, b, c, d
    <2> QED BY <2>1, <2>2, <2>3
  <1> QED BY <1>1, <1>2, TypeCorrect, PTL DEF Spec

-----------------------------------------------------------------------------
(* Moves of one delivery.                                                  *)

Opened(m) == ~Stored(m) /\ \E t \in Timer : del'[m] = QueuedDelivery(t)

Requeued(m) ==
  /\ del[m].state \in Live \cup {"accepted"}
  /\ \/ del'[m] = [del[m] EXCEPT !.state = "queued"]
     \/ del'[m] = [del[m] EXCEPT !.state = "queued", !.next = None, !.lease = None]

Taken(m) ==
  /\ del[m].state \in Waiting /\ RecipientEpoch(m) \in Epoch
  /\ del'[m] = Injected(m, RecipientEpoch(m))
  /\ inj'[m][RecipientEpoch(m)] # <<>>

Answered(m) ==
  \/ /\ del[m].state = "transport_written"
     /\ \E status \in {"accepted", "rejected"} :
          del'[m] = [del[m] EXCEPT !.state = status]
  \/ /\ del[m].state \in {"accepted", "transport_written"}
     /\ del'[m] = [del[m] EXCEPT !.state = "completed"]

Reaped(m) == Sweep /\ \E d \in nextBackoffMs : del'[m] = Swept(m, d)

(* What a step may do to one delivery.                                     *)
LEMMA RowMoves ==
  ASSUME TypeOK, RowsAgree, [Next]_vars, NEW m \in Message
  PROVE  \/ del'[m] = del[m] \/ Tick \/ Opened(m) \/ Requeued(m) \/ Taken(m)
         \/ Answered(m) \/ Reaped(m)
  <1>1. ASSUME NEW s \in Session,
               RegisterFirst(s) \/ RegisterFresh(s) \/ RegisterJoin(s)
        PROVE  del'[m] = del[m] \/ Requeued(m)
    BY <1>1, Zenon DEF RegisterFirst, RegisterFresh, RegisterJoin, Requeued, Live, TypeOK
  <1>2. ASSUME NEW s \in Session, NEW e \in Epoch, NEW B \in SUBSET Message,
               Pull(s, e, B)
        PROVE  del'[m] = del[m] \/ Taken(m)
    <2>1. CASE m \notin B
      BY <1>2, <2>1 DEF Pull, Inject
    <2>2. CASE m \in B
      <3>1. del[m].state \in Waiting /\ RecipientEpoch(m) = e
        BY <1>2, <2>2 DEF Pull, Batches, Pending, RecipientEpoch, assertCurrentEpoch
      <3>2. del'[m] = Injected(m, e)
        BY <1>2, <2>2 DEF Pull, Inject
      <3>3. inj'[m][e] # <<>>
        BY <1>2, <2>2 DEF Pull, Inject, Fresh, TypeOK
      <3> QED BY <3>1, <3>2, <3>3 DEF Taken
    <2> QED BY <2>1, <2>2
  <1>3. ASSUME NEW s \in Session, NEW e \in Epoch, NEW n \in Message, NEW i \in Nat,
               NEW status \in {"accepted", "rejected"}, Ack(s, e, n, i, status)
        PROVE  del'[m] = del[m] \/ Answered(m)
    BY <1>3, Zenon DEF Ack, Answered, TypeOK
  <1>4. ASSUME NEW s \in Session, NEW e \in Epoch, NEW n \in Message, NEW i \in Nat,
               NEW r \in Message, Reply(s, e, n, i, r)
        PROVE  del'[m] = del[m] \/ Answered(m) \/ Opened(m)
    <2>1. Stored(n) /\ ~Stored(r) /\ n # r
      BY <1>4, NullAssumption DEF Reply, Store, RowsAgree, RowAgrees
    <2>2. CASE m = r
      <3>1. del'[m] = QueuedDelivery(None)
        BY <1>4, <2>1, <2>2 DEF Reply, TypeOK
      <3> QED BY <2>1, <2>2, <3>1, TimerFacts DEF Opened
    <2>3. CASE m = n
      <3>1. del[m] \in DeliveryRow
        BY DEF TypeOK
      <3>2. del'[m] = [del[m] EXCEPT !.state =
                         IF @ \in {"accepted", "transport_written"}
                         THEN "completed" ELSE @]
        BY <1>4, <2>1, <2>3 DEF Reply, TypeOK
      <3> QED BY <3>1, <3>2 DEF Answered, DeliveryRow
    <2>4. CASE m \notin {n, r}
      BY <1>4, <2>4 DEF Reply, TypeOK
    <2> QED BY <2>2, <2>3, <2>4
  <1>5. ASSUME NEW n \in Message, NEW r \in Request, Send(n, r)
        PROVE  del'[m] = del[m] \/ Opened(m)
    <2>1. r.ttl \in Timer
      BY RequestAssumption DEF SendInput
    <2> QED BY <1>5, <2>1 DEF Send, Store, Opened, TypeOK
  <1>6. ASSUME NEW n \in Message, Requeue(n)
        PROVE  del'[m] = del[m] \/ Requeued(m)
    BY <1>6, Zenon DEF Requeue, Requeued, TypeOK
  <1>7. ASSUME Sweep PROVE Reaped(m)
    BY <1>7, Zenon DEF Sweep, Reaped
  <1>8. ASSUME NEW s \in Session, NEW e \in Epoch, NEW n \in Message,
               Redeliver(s, e, n)
        PROVE  del'[m] = del[m]
    BY <1>8 DEF Redeliver
  <1> QED BY <1>1, <1>2, <1>3, <1>4, <1>5, <1>6, <1>7, <1>8, StepForms, Zenon DEF Quiet

(* The messages row is immutable: only the send or reply that stores a     *)
(* message writes it.                                                      *)
LEMMA MessageImmutable ==
  ASSUME TypeOK, RowsAgree, [Next]_vars, NEW m \in Message
  PROVE  msg'[m] = msg[m] \/ Opened(m)
  <1>1. ASSUME NEW s \in Session,
               RegisterFirst(s) \/ RegisterFresh(s) \/ RegisterJoin(s)
        PROVE  msg' = msg
    BY <1>1 DEF RegisterFirst, RegisterFresh, RegisterJoin
  <1>2. ASSUME NEW s \in Session, NEW e \in Epoch, NEW B \in SUBSET Message,
               Pull(s, e, B)
        PROVE  msg' = msg
    BY <1>2 DEF Pull, Inject
  <1>3. ASSUME NEW s \in Session, NEW e \in Epoch, NEW n \in Message,
               \/ Redeliver(s, e, n)
               \/ \E i \in Nat, status \in {"accepted", "rejected"} :
                    Ack(s, e, n, i, status)
        PROVE  msg' = msg
    BY <1>3 DEF Redeliver, Ack
  <1>4. ASSUME NEW s \in Session, NEW e \in Epoch, NEW n \in Message, NEW i \in Nat,
               NEW r \in Message, Reply(s, e, n, i, r)
        PROVE  msg'[m] = msg[m] \/ Opened(m)
    <2>1. Stored(n) /\ ~Stored(r) /\ n # r
      BY <1>4, NullAssumption DEF Reply, Store, RowsAgree, RowAgrees
    <2>2. CASE m = r
      <3>1. del'[m] = QueuedDelivery(None)
        BY <1>4, <2>1, <2>2 DEF Reply, TypeOK
      <3> QED BY <2>1, <2>2, <3>1, TimerFacts DEF Opened
    <2>3. CASE m # r
      <3>1. DOMAIN msg = Message /\ \E row : msg' = [msg EXCEPT ![r] = row]
        BY <1>4, Zenon DEF Reply, Store, TypeOK
      <3> QED BY ONLY m \in Message, <2>3, <3>1
    <2> QED BY <2>2, <2>3
  <1>5. ASSUME NEW n \in Message, NEW r \in Request, Send(n, r)
        PROVE  msg'[m] = msg[m] \/ Opened(m)
    <2>1. r.ttl \in Timer
      BY RequestAssumption DEF SendInput
    <2>2. /\ ~Stored(n) /\ del' = [del EXCEPT ![n] = QueuedDelivery(r.ttl)]
          /\ \E row : msg' = [msg EXCEPT ![n] = row]
      BY ONLY <1>5, Zenon DEF Send, Store
    <2>3. DOMAIN msg = Message /\ DOMAIN del = Message
      BY DEF TypeOK
    <2>4. CASE m = n
      <3>1. ~Stored(m) /\ del'[m] = QueuedDelivery(r.ttl)
        BY ONLY m \in Message, <2>2, <2>3, <2>4
      <3> QED BY ONLY <2>1, <3>1 DEF Opened
    <2>5. CASE m # n
      BY ONLY m \in Message, <2>2, <2>3, <2>5
    <2> QED BY <2>4, <2>5
  <1>6. ASSUME Quiet \/ Sweep \/ Tick \/ \E n \in Message : Requeue(n)
        PROVE  msg' = msg
    BY <1>6, Zenon DEF Quiet, Sweep, Tick, Requeue
  <1> QED BY <1>1, <1>2, <1>3, <1>4, <1>5, <1>6, StepForms

(* A sweep leaves a finished delivery as it is.                            *)
LEMMA SweptTerminal ==
  ASSUME TypeOK, NEW m \in Message, NEW d \in nextBackoffMs,
         isTerminal(del[m].state)
  PROVE  Swept(m, d) = del[m]
  BY DEF Swept, AckDue, reapAcceptanceTtl, reapExpiredSession, isTerminal, Waiting,
     Live, TERMINAL_STATES

-----------------------------------------------------------------------------
(* TerminalIsAbsorbing holds: no operation of the broker takes a delivery  *)
(* out of completed, rejected, expired, dead_letter or cancelled.          *)
THEOREM TerminalAbsorbing == Spec => TerminalIsAbsorbing
  <1> DEFINE Absorbs ==
        \A m \in Message : isTerminal(del[m].state) => del'[m].state = del[m].state
  <1>1. ASSUME TypeOK, RowsAgree, [Next]_vars PROVE Absorbs
    <2> SUFFICES ASSUME NEW m \in Message, isTerminal(del[m].state)
                 PROVE  del'[m].state = del[m].state
      OBVIOUS
    <2>1. CASE Tick
      BY <2>1, TickDelivery, <1>1
    <2>2. CASE Opened(m) \/ Requeued(m) \/ Taken(m) \/ Answered(m)
      BY <2>2 DEF Opened, Requeued, Taken, Answered, Stored, isTerminal, Waiting,
         Live, TERMINAL_STATES
    <2>3. CASE Reaped(m)
      BY <1>1, <2>3, SweptTerminal DEF Reaped
    <2> QED BY <1>1, <2>1, <2>2, <2>3, RowMoves
  <1> QED BY <1>1, TypeCorrect, PTL DEF Spec, TerminalIsAbsorbing
=============================================================================
