--------------------------- MODULE DeliverySafety ---------------------------
(***************************************************************************)
(* The order of deliveries and the receipts they leave: LedgerBacksRows,   *)
(* what each column of a delivery says of the ledger, is kept by every     *)
(* step, and with it DeliveriesAreSound.                                   *)
(***************************************************************************)
EXTENDS DeliveryRows

-----------------------------------------------------------------------------
(* What the ledger says of a message, over all epochs.                     *)
EverInjected(m) == \E e \in Epoch : inj[m][e] # <<>>

EverShown(m) == \E e \in Epoch : shown[m][e] > 0

(* The state of a delivery, its backoff and its receipts all rest on the   *)
(* ledger, and the ledger on a body that was shown.                        *)
BackedByLedger(m) ==
  /\ EverInjected(m) => EverShown(m)
  /\ del[m].state = "transport_written" \/ del[m].next # None => EverInjected(m)
  /\ rcpt[m].ack # "none" \/ rcpt[m].reply => EverInjected(m)
  /\ del[m].state = "accepted" => rcpt[m].ack = "accepted"
  /\ del[m].state = "rejected" <=> rcpt[m].ack = "rejected"
  /\ Stored(m) /\ ~msg[m].ack /\ ~msg[m].reply /\ EverInjected(m)
       => del[m].state = "completed"
  /\ del[m].state # "dispatching"

LedgerBacksRows == \A m \in Message : BackedByLedger(m)

(* The sweep reads no ledger: what it leaves in flight, accepted or        *)
(* rejected was so before, and a backoff is given only to what was in      *)
(* flight.                                                                 *)
LEMMA SweptMoves ==
  ASSUME TypeOK, NEW m \in Message, NEW d \in nextBackoffMs
  PROVE  /\ Swept(m, d).state \in {"transport_written", "accepted", "completed", "absent"}
              => Swept(m, d).state = del[m].state
         /\ Swept(m, d).state = "rejected" <=> del[m].state = "rejected"
         /\ del[m].state = "completed" => Swept(m, d).state = "completed"
         /\ del[m].state = "absent" => Swept(m, d).state = "absent"
         /\ Swept(m, d).state = "dispatching" => del[m].state = "dispatching"
         /\ Swept(m, d).next # None
              => del[m].next # None \/ del[m].state = "transport_written"
         /\ Swept(m, d).ttl = del[m].ttl
  <1> DEFINE Moves(x, y) ==
        /\ y \in DeliveryRow
        /\ y.state \in {"transport_written", "accepted", "completed", "absent"}
             => y.state = x.state
        /\ y.state = "rejected" <=> x.state = "rejected"
        /\ x.state = "completed" => y.state = "completed"
        /\ x.state = "absent" => y.state = "absent"
        /\ y.state = "dispatching" => x.state = "dispatching"
        /\ y.next # None => x.next # None \/ x.state = "transport_written"
        /\ y.ttl = x.ttl
  <1> DEFINE timed == IF m \in AckDue THEN reapAckTimeout(del[m], d) ELSE del[m]
             fresh == reapAcceptanceTtl(timed)
  <1>0. del[m] \in DeliveryRow /\ d \in Timer
    BY BoundAssumption DEF TypeOK, Timer, nextBackoffMs
  <1>1. Moves(del[m], timed)
    <2>1. CASE m \notin AckDue
      BY <1>0, <2>1
    <2>2. CASE m \in AckDue
      <3>1. del[m].state = "transport_written" /\ del[m].attempts + 1 \in Nat
        BY <1>0, <2>2 DEF AckDue, DeliveryRow
      <3>2. \/ timed = [del[m] EXCEPT !.state = "dead_letter", !.attempts = @ + 1,
                          !.lease = None, !.category = "ack_timeout_exhausted"]
            \/ timed = [del[m] EXCEPT !.state = "retry_wait", !.attempts = @ + 1,
                          !.lease = None, !.next = d, !.category = "ack_timeout"]
        BY <2>2 DEF reapAckTimeout
      <3> HIDE DEF timed
      <3> QED BY <1>0, <3>1, <3>2, TimerFacts, ZenonT(60) DEF DeliveryRow, DeliveryState, FailureCategory
    <2> QED BY <2>1, <2>2, Zenon
  <1> HIDE DEF timed
  <1>2. Moves(del[m], fresh)
    BY <1>1, Zenon DEF reapAcceptanceTtl, DeliveryRow, DeliveryState, FailureCategory, Waiting
  <1> HIDE DEF fresh
  <1>3. Moves(del[m], reapExpiredSession(fresh, msg[m].reply))
    BY <1>2, TimerFacts, ZenonT(60)
    DEF reapExpiredSession, DeliveryRow, DeliveryState, FailureCategory, Live, Waiting
  <1>4. Swept(m, d) = fresh \/ Swept(m, d) = reapExpiredSession(fresh, msg[m].reply)
    BY DEF Swept, timed, fresh
  <1>5. Moves(del[m], Swept(m, d))
    BY <1>2, <1>3, <1>4, Zenon
  <1> QED BY <1>5, SMTT(60)

(* A body once shown, or an injection once made, stays on record.          *)
LEMMA RecordStays ==
  ASSUME TypeOK, TypeOK', RowsAgree, [Next]_vars, NEW m \in Message
  PROVE  /\ EverInjected(m) => EverInjected(m)'
         /\ EverShown(m) => EverShown(m)'
  <1>1. EverInjected(m) => EverInjected(m)'
    BY InjectionStays DEF EverInjected
  <1>2. ASSUME NEW e \in Epoch, shown[m][e] > 0 PROVE shown'[m][e] > 0
    <2>1. shown[m][e] \in Nat
      BY DEF TypeOK
    <2>2. shown'[m][e] = shown[m][e] \/ shown'[m][e] = shown[m][e] + 1
      BY LedgerStep
    <2> QED BY <1>2, <2>1, <2>2
  <1> QED BY <1>1, <1>2 DEF EverShown

(* Every step keeps the rows of a message backed by its ledger.            *)
LEMMA BackedStep ==
  ASSUME TypeOK, TypeOK', RowsAgree, [Next]_vars, NEW m \in Message, BackedByLedger(m)
  PROVE  BackedByLedger(m)'
  <1>0. del[m] \in DeliveryRow /\ rcpt[m] \in ReceiptRow /\ msg[m] \in MessageRow
    BY DEF TypeOK
  <1>s. /\ EverInjected(m) => EverInjected(m)'
        /\ EverShown(m) => EverShown(m)'
    BY RecordStays, SMTT(60)
  <1>a. ASSUME msg'[m] = msg[m], rcpt'[m] = rcpt[m],
               EverInjected(m)' => EverInjected(m),
               \/ del'[m].state = del[m].state
               \/ del'[m].state \notin {"transport_written", "accepted", "rejected", "dispatching"}
                  /\ del[m].state \notin {"rejected", "completed"}
                  /\ (del'[m].state = "absent" <=> del[m].state = "absent"),
               del'[m].next # None => del[m].next # None \/ del[m].state = "transport_written"
        PROVE  BackedByLedger(m)'
    BY <1>s, <1>a DEF BackedByLedger, Stored
  <1>1. ASSUME NEW s \in Session, RegisterFirst(s) \/ RegisterFresh(s) \/ RegisterJoin(s)
        PROVE  BackedByLedger(m)'
    <2>1. msg' = msg /\ rcpt' = rcpt
      BY <1>1 DEF RegisterFirst, RegisterFresh, RegisterJoin
    <2>2. \/ del'[m] = del[m]
          \/ del[m].state = "transport_written" /\ del'[m] = [del[m] EXCEPT !.state = "queued"]
      BY <1>1, SMTT(60) DEF RegisterFirst, RegisterFresh, RegisterJoin
    <2>3. EverInjected(m)' => EverInjected(m)
      <3>1. CASE inj'[m] = inj[m]
        BY <3>1 DEF EverInjected
      <3>2. CASE inj'[m] # inj[m]
        <4>1. del[m].state = "accepted"
          BY <1>1, <3>2 DEF RegisterFirst, RegisterFresh, RegisterJoin
        <4> QED BY <4>1 DEF BackedByLedger
      <3> QED BY <3>1, <3>2
    <2> QED BY <1>0, <1>a, <2>1, <2>2, <2>3 DEF DeliveryRow
  <1>2. ASSUME NEW s \in Session, NEW e \in Epoch, NEW B \in SUBSET Message, Pull(s, e, B)
        PROVE  BackedByLedger(m)'
    <2>1. CASE m \notin B
      <3>1. UNCHANGED <<msg[m], rcpt[m], del[m], inj[m]>>
        BY <1>2, <2>1, SMTT(60) DEF Pull, Inject
      <3> QED BY <1>a, <3>1, SMTT(60) DEF EverInjected
    <2>2. CASE m \in B
      <3>1. /\ msg' = msg /\ rcpt' = rcpt /\ del'[m] = Injected(m, e)
            /\ del[m].state \in Waiting
        BY <1>2, <2>2, Zenon DEF Pull, Inject, Batches, Pending
      <3>2. EverInjected(m)' /\ EverShown(m)'
        <4>1. CASE Fresh(m, e)
          <5>1. shown'[m][e] = shown[m][e] + 1 /\ shown[m][e] \in Nat
            BY <1>2, <2>2, <4>1 DEF Pull, Inject, TypeOK
          <5>2. inj'[m][e] = <<NewInjection(injectionTtl)>>
            BY <1>2, <2>2, <4>1 DEF Pull, Inject, TypeOK
          <5>3. inj'[m][e] # <<>>
            BY <5>2, SMTT(60)
          <5> QED BY <5>1, <5>3 DEF EverInjected, EverShown
        <4>2. CASE ~Fresh(m, e)
          <5>1. EverInjected(m)
            BY <4>2 DEF Fresh, EverInjected
          <5> QED BY <1>s, <5>1, Zenon DEF BackedByLedger
        <4> QED BY <4>1, <4>2
      <3>3. ASSUME ~msg[m].ack, ~msg[m].reply PROVE CompletesOnInjection(m, e)
        <4>1. Stored(m) /\ del[m].state # "completed"
          BY <3>1, SMTT(60) DEF Waiting, Stored
        <4>2. ~EverInjected(m)
          BY <3>3, <4>1 DEF BackedByLedger
        <4> QED BY <3>3, <4>2 DEF EverInjected, CompletesOnInjection, Fresh
      <3>4. /\ del'[m].state \in {"completed", "transport_written"}
            /\ CompletesOnInjection(m, e) => del'[m].state = "completed"
        BY <1>0, <3>1, SMTT(60) DEF Injected, DeliveryRow
      <3>5. rcpt[m].ack # "rejected"
        BY <3>1 DEF BackedByLedger, Waiting
      <3> QED BY <3>1, <3>2, <3>3, <3>4, <3>5, SMTT(60) DEF BackedByLedger
    <2> QED BY <2>1, <2>2
  <1>3. ASSUME NEW s \in Session, NEW e \in Epoch, NEW n \in Message, Redeliver(s, e, n)
        PROVE  BackedByLedger(m)'
    <2>1. UNCHANGED <<msg, rcpt, del>>
      BY <1>3 DEF Redeliver
    <2>2. EverInjected(m)' => EverInjected(m)
      <3>1. CASE m # n
        BY <1>3, <3>1 DEF Redeliver, EverInjected, TypeOK
      <3>2. CASE m = n
        <4>1. Len(inj[m][e]) # 0
          BY <1>3, <3>2, BoundAssumption DEF Redeliver
        <4>2. inj[m][e] # <<>>
          BY <4>1
        <4> QED BY <4>2 DEF EverInjected
      <3> QED BY <3>1, <3>2
    <2> QED BY <1>a, <2>1, <2>2
  <1>4. ASSUME NEW s \in Session, NEW e \in Epoch, NEW n \in Message, NEW i \in Nat,
               NEW op \in {"ack", "reply"}, authorize(n, e, i, op), inj' = consume(n, e, i, op)
        PROVE  /\ EverInjected(m)' => EverInjected(m)
               /\ m = n => EverInjected(m)
    <2>1. CASE m # n
      BY <1>4, <2>1, SMTT(60) DEF consume, EverInjected, TypeOK
    <2>2. CASE m = n
      <3>1. Len(inj[m][e]) # 0
        BY <1>4, <2>2 DEF authorize
      <3>2. inj[m][e] # <<>>
        BY <3>1
      <3> QED BY <3>2 DEF EverInjected
    <2> QED BY <2>1, <2>2
  <1>5. ASSUME NEW s \in Session, NEW e \in Epoch, NEW n \in Message, NEW i \in Nat,
               NEW status \in {"accepted", "rejected"}, Ack(s, e, n, i, status)
        PROVE  BackedByLedger(m)'
    <2>1. (EverInjected(m)' => EverInjected(m)) /\ (m = n => EverInjected(m)) /\ msg' = msg
      BY <1>4, <1>5 DEF Ack
    <2>2. CASE m # n
      <3>1. del'[m] = del[m] /\ rcpt'[m] = rcpt[m]
        BY <1>5, <2>2, SMTT(60) DEF Ack, TypeOK
      <3> QED BY <1>a, <2>1, <3>1
    <2>3. CASE m = n
      <3>1. /\ del'[m] = [del[m] EXCEPT !.state = status]
            /\ rcpt'[m] = [rcpt[m] EXCEPT !.ack = status]
            /\ del[m].state = "transport_written"
        BY <1>5, <2>3 DEF Ack, TypeOK
      <3>2. /\ del'[m].state = status /\ rcpt'[m].ack = status
            /\ rcpt'[m].reply = rcpt[m].reply /\ del'[m].next = del[m].next
        BY <1>0, <3>1 DEF DeliveryRow, ReceiptRow
      <3>3. Stored(m)
        BY <3>1 DEF Stored
      <3>4. msg[m].ack \/ msg[m].reply
        BY <2>1, <2>3, <3>1, <3>3 DEF BackedByLedger
      <3> QED BY <1>s, <2>1, <2>3, <3>2, <3>4 DEF BackedByLedger
    <2> QED BY <2>2, <2>3
  <1>6. ASSUME NEW s \in Session, NEW e \in Epoch, NEW n \in Message, NEW i \in Nat,
               NEW r \in Message, Reply(s, e, n, i, r)
        PROVE  BackedByLedger(m)'
    <2>1. (EverInjected(m)' => EverInjected(m)) /\ (m = n => EverInjected(m))
      BY <1>4, <1>6 DEF Reply
    <2>2. Stored(n) /\ ~Stored(r) /\ n # r
      BY <1>6, NullAssumption DEF Reply, Store, RowsAgree, RowAgrees
    <2>3. CASE m \notin {n, r}
      <3>1. UNCHANGED <<msg[m], rcpt[m], del[m]>>
        BY <1>6, <2>3 DEF Reply, Store, TypeOK
      <3> QED BY <1>a, <2>1, <3>1
    <2>4. CASE m = n
      <3>1. /\ del'[m] = [del[m] EXCEPT !.state =
                            IF @ \in {"accepted", "transport_written"} THEN "completed" ELSE @]
            /\ rcpt'[m] = [rcpt[m] EXCEPT !.reply = TRUE]
            /\ msg'[m] = msg[m]
        BY <1>6, <2>2, <2>4 DEF Reply, Store, TypeOK
      <3>2. /\ del'[m].state = IF del[m].state \in {"accepted", "transport_written"}
                               THEN "completed" ELSE del[m].state
            /\ rcpt'[m].ack = rcpt[m].ack /\ del'[m].next = del[m].next
        BY <1>0, <3>1, SMTT(60) DEF DeliveryRow, ReceiptRow
      <3> QED BY <1>s, <2>1, <2>2, <2>4, <3>1, <3>2 DEF BackedByLedger, Stored
    <2>5. CASE m = r
      <3>1. del'[m] = QueuedDelivery(None) /\ rcpt'[m] = rcpt[m]
        BY <1>6, <2>2, <2>5, SMTT(60) DEF Reply, TypeOK
      <3>2. rcpt[m].ack = "none" /\ ~rcpt[m].reply /\ ~EverInjected(m)
        BY <2>2, <2>5 DEF RowsAgree, RowAgrees, EverInjected
      <3> QED BY <2>1, <3>1, <3>2 DEF BackedByLedger, QueuedDelivery
    <2> QED BY <2>3, <2>4, <2>5
  <1>7. ASSUME NEW n \in Message, NEW r \in Request, Send(n, r)
        PROVE  BackedByLedger(m)'
    <2>1. UNCHANGED <<inj, rcpt, shown>> /\ (EverInjected(m)' => EverInjected(m))
      BY <1>7, SMTT(60) DEF Send, EverInjected
    <2>2. CASE m # n
      <3>1. msg'[m] = msg[m] /\ del'[m] = del[m]
        BY <1>7, <2>2, ZenonT(60) DEF Send, Store, TypeOK
      <3> QED BY <1>a, <2>1, <3>1, SMTT(60)
    <2>3. CASE m = n
      <3>1. del'[m] = QueuedDelivery(r.ttl) /\ ~Stored(m)
        BY <1>7, <2>3, ZenonT(60) DEF Send, Store, TypeOK
      <3>2. rcpt[m].ack = "none" /\ ~rcpt[m].reply /\ ~EverInjected(m)
        BY <3>1 DEF RowsAgree, RowAgrees, EverInjected
      <3> QED BY <2>1, <3>1, <3>2, SMTT(60) DEF BackedByLedger, QueuedDelivery
    <2> QED BY <2>2, <2>3, SMTT(60)
  <1>8. ASSUME NEW n \in Message, Requeue(n) PROVE BackedByLedger(m)'
    <2>1. UNCHANGED <<msg, rcpt, inj>>
      BY <1>8 DEF Requeue
    <2>2. CASE m # n
      BY <1>8, <1>a, <2>1, <2>2 DEF Requeue, EverInjected, TypeOK
    <2>3. CASE m = n
      <3>1. /\ del'[m] = [del[m] EXCEPT !.state = "queued", !.next = None, !.lease = None]
            /\ del[m].state \in Live \cup {"accepted"}
        BY <1>8, <2>3 DEF Requeue, TypeOK
      <3>2. del'[m].state = "queued" /\ del'[m].next = None
        BY <1>0, <3>1, SMTT(60) DEF DeliveryRow
      <3> QED BY <1>a, <2>1, <3>1, <3>2 DEF Live, Waiting, EverInjected
    <2> QED BY <2>2, <2>3
  <1>9. CASE Quiet
    BY <1>9, <1>a, ZenonT(60) DEF Quiet, EverInjected
  <1>10. CASE Sweep
    <2>1. PICK delay \in [Message -> nextBackoffMs] :
            del' = [n \in Message |-> Swept(n, delay[n])]
      BY <1>10, Zenon DEF Sweep
    <2>2. del'[m] = Swept(m, delay[m]) /\ delay[m] \in nextBackoffMs
      BY <2>1, SMTT(60)
    <2>3. UNCHANGED <<msg, rcpt, inj>>
      BY <1>10, ZenonT(60) DEF Sweep
    <2>4. /\ del'[m].state \in {"transport_written", "accepted", "completed", "absent"}
               => del'[m].state = del[m].state
          /\ del'[m].state = "rejected" <=> del[m].state = "rejected"
          /\ del[m].state = "completed" => del'[m].state = "completed"
          /\ del'[m].state = "dispatching" => del[m].state = "dispatching"
          /\ del'[m].next # None => del[m].next # None \/ del[m].state = "transport_written"
          /\ del[m].state = "absent" => del'[m].state = "absent"
      BY <2>2, SweptMoves
    <2> QED BY <1>a, <2>3, <2>4 DEF EverInjected
  <1>11. CASE Tick
    <2>1. UNCHANGED <<msg, rcpt>> /\ del'[m].state = del[m].state
      BY <1>11, TickDelivery, ZenonT(60) DEF Tick
    <2>2. del'[m].next = None <=> del[m].next = None
      BY <1>0, <1>11, TickDelivery, TimerFacts DEF DeliveryRow
    <2>3. EverInjected(m)' => EverInjected(m)
      BY <1>11, TickInjections DEF EverInjected
    <2> QED BY <1>a, <2>1, <2>2, <2>3, SMTT(60)
  <1> QED BY <1>1, <1>2, <1>3, <1>5, <1>6, <1>7, <1>8, <1>9, <1>10, <1>11, StepForms

(* A step stores at most one message, which takes the next number of its   *)
(* recipient; no other message is stored, dropped or renumbered.           *)
LEMMA MailStep ==
  ASSUME TypeOK, TypeOK', RowsAgree, [Next]_vars
  PROVE  \/ /\ msg' = msg /\ nextSeq' = nextSeq
            /\ \A m \in Message : Stored(m)' <=> Stored(m)
         \/ \E r \in Message :
              /\ ~Stored(r) /\ Stored(r)' /\ msg'[r].to \in Session
              /\ msg'[r].seq = nextSeq[msg'[r].to]
              /\ nextSeq' = [nextSeq EXCEPT ![msg'[r].to] = @ + 1]
              /\ \A m \in Message \ {r} : msg'[m] = msg[m] /\ (Stored(m)' <=> Stored(m))
              /\ shown' = shown
  <1> DEFINE Same == /\ msg' = msg /\ nextSeq' = nextSeq
                     /\ \A m \in Message : Stored(m)' <=> Stored(m)
  <1> DEFINE New(r) ==
        /\ ~Stored(r) /\ Stored(r)' /\ msg'[r].to \in Session
        /\ msg'[r].seq = nextSeq[msg'[r].to]
        /\ nextSeq' = [nextSeq EXCEPT ![msg'[r].to] = @ + 1]
        /\ \A m \in Message \ {r} : msg'[m] = msg[m] /\ (Stored(m)' <=> Stored(m))
        /\ shown' = shown
  <1>0. \A m \in Message : del[m] \in DeliveryRow
    BY DEF TypeOK
  <1>1. ASSUME NEW s \in Session, RegisterFirst(s) \/ RegisterFresh(s) \/ RegisterJoin(s)
        PROVE  Same
    BY <1>0, <1>1 DEF RegisterFirst, RegisterFresh, RegisterJoin, Stored, DeliveryRow
  <1>2. ASSUME NEW s \in Session, NEW e \in Epoch, NEW B \in SUBSET Message, Pull(s, e, B)
        PROVE  Same
    <2>1. msg' = msg /\ nextSeq' = nextSeq
      BY <1>2 DEF Pull, Inject
    <2>2. ASSUME NEW m \in Message PROVE Stored(m)' <=> Stored(m)
      <3>1. CASE m \in B
        <4>1. del'[m] = Injected(m, e) /\ del[m].state \in Waiting
          BY <1>2, <3>1, ZenonT(60) DEF Pull, Inject, Batches, Pending
        <4> QED BY <1>0, <4>1, SMTT(60) DEF Injected, Stored, Waiting, DeliveryRow
      <3>2. CASE m \notin B
        BY <1>2, <3>2, Zenon DEF Pull, Inject, Stored
      <3> QED BY <3>1, <3>2
    <2> QED BY <2>1, <2>2, SMTT(60)
  <1>3. ASSUME NEW s \in Session, NEW e \in Epoch, NEW n \in Message, Redeliver(s, e, n)
        PROVE  Same
    BY <1>3 DEF Redeliver, Stored
  <1>4. ASSUME NEW s \in Session, NEW e \in Epoch, NEW n \in Message, NEW i \in Nat,
               NEW status \in {"accepted", "rejected"}, Ack(s, e, n, i, status)
        PROVE  Same
    BY <1>0, <1>4 DEF Ack, Stored, TypeOK, DeliveryRow
  <1>5. ASSUME NEW s \in Session, NEW e \in Epoch, NEW n \in Message, NEW i \in Nat,
               NEW r \in Message, Reply(s, e, n, i, r)
        PROVE  New(r)
    <2>1. Stored(n) /\ ~Stored(r) /\ n # r /\ msg[n].from \in Session
      BY <1>5, NullAssumption DEF Reply, Store, RowsAgree, RowAgrees
    <2>2. /\ msg' = [msg EXCEPT ![r] =
                       [from |-> s, to |-> msg[n].from, ack |-> FALSE, reply |-> FALSE,
                        seq |-> nextSeq[msg[n].from], parent |-> n]]
          /\ nextSeq' = [nextSeq EXCEPT ![msg[n].from] = @ + 1]
          /\ shown' = shown
      BY <1>5 DEF Reply, Store
    <2>3. msg'[r].to = msg[n].from /\ msg'[r].seq = nextSeq[msg[n].from]
      BY <2>2, Zenon DEF TypeOK
    <2>4. del'[r] = QueuedDelivery(None)
      BY <1>5, <2>1, SMTT(60) DEF Reply, TypeOK
    <2>5. Stored(r)'
      BY <2>4 DEF Stored, QueuedDelivery
    <2>6. ASSUME NEW m \in Message \ {r} PROVE msg'[m] = msg[m] /\ (Stored(m)' <=> Stored(m))
      <3>1. msg'[m] = msg[m]
        BY <2>2 DEF TypeOK
      <3>2. CASE m = n
        <4>1. del'[m] = [del[m] EXCEPT !.state =
                           IF @ \in {"accepted", "transport_written"} THEN "completed" ELSE @]
          BY <1>5, <2>1, <3>2 DEF Reply, TypeOK
        <4> QED BY <1>0, <3>1, <4>1 DEF Stored, DeliveryRow
      <3>3. CASE m # n
        <4>1. del'[m] = del[m]
          BY <1>5, <3>3 DEF Reply, TypeOK
        <4> QED BY <3>1, <4>1 DEF Stored
      <3> QED BY <3>2, <3>3, Zenon
    <2> QED BY <2>1, <2>2, <2>3, <2>5, <2>6, Zenon
  <1>6. ASSUME NEW n \in Message, NEW r \in Request, Send(n, r)
        PROVE  New(n)
    <2>1. r.to \in Session
      BY RequestAssumption DEF SendInput
    <2>2. /\ msg' = [msg EXCEPT ![n] =
                       [from |-> r.from, to |-> r.to, ack |-> r.ack, reply |-> r.reply,
                        seq |-> nextSeq[r.to], parent |-> Null]]
          /\ nextSeq' = [nextSeq EXCEPT ![r.to] = @ + 1]
          /\ shown' = shown /\ ~Stored(n)
      BY <1>6 DEF Send, Store
    <2>3. msg'[n].to = r.to /\ msg'[n].seq = nextSeq[r.to]
      BY <2>2, ZenonT(60) DEF TypeOK
    <2>4. del'[n] = QueuedDelivery(r.ttl)
      BY <1>6, ZenonT(60) DEF Send, TypeOK
    <2>5. Stored(n)'
      BY <2>4, SMTT(60) DEF Stored, QueuedDelivery
    <2>6. ASSUME NEW m \in Message \ {n} PROVE msg'[m] = msg[m] /\ (Stored(m)' <=> Stored(m))
      BY <1>6, <2>2, Zenon DEF Send, Stored, TypeOK
    <2> QED BY <2>1, <2>2, <2>3, <2>5, <2>6, ZenonT(60)
  <1>7. ASSUME NEW n \in Message, Requeue(n) PROVE Same
    <2>1. ASSUME NEW m \in Message PROVE Stored(m)' <=> Stored(m)
      <3>1. CASE m = n
        <4>1. /\ del'[m] = [del[m] EXCEPT !.state = "queued", !.next = None, !.lease = None]
              /\ del[m].state # "absent"
          BY <1>7, <3>1 DEF Requeue, TypeOK, Live, Waiting
        <4>2. del'[m].state = "queued"
          BY <1>0, <4>1 DEF DeliveryRow
        <4> QED BY <4>1, <4>2 DEF Stored
      <3>2. CASE m # n
        <4>1. del'[m] = del[m]
          BY <1>7, <3>2 DEF Requeue, TypeOK
        <4> QED BY <4>1 DEF Stored
      <3> QED BY <3>1, <3>2
    <2> QED BY <1>7, <2>1 DEF Requeue
  <1>8. ASSUME Quiet PROVE Same
    BY <1>8, SMTT(60) DEF Quiet, Stored
  <1>9. ASSUME Sweep PROVE Same
    <2>1. PICK delay \in [Message -> nextBackoffMs] :
            del' = [n \in Message |-> Swept(n, delay[n])]
      BY <1>9, Zenon DEF Sweep
    <2>2. ASSUME NEW m \in Message PROVE Stored(m)' <=> Stored(m)
      <3>1. del'[m] = Swept(m, delay[m]) /\ delay[m] \in nextBackoffMs
        BY <2>1, SMTT(60)
      <3> QED BY <3>1, SweptMoves DEF Stored
    <2> QED BY <1>9, <2>2, ZenonT(60) DEF Sweep
  <1>10. ASSUME Tick PROVE Same
    <2>1. ASSUME NEW m \in Message PROVE Stored(m)' <=> Stored(m)
      BY <1>10, TickDelivery DEF Stored
    <2> QED BY <1>10, <2>1, Zenon DEF Tick
  <1> HIDE DEF Same, New
  <1>11. ASSUME \E s \in Session, e \in Epoch, n \in Message, i \in Nat, r \in Message :
                  Reply(s, e, n, i, r)
         PROVE  \E r \in Message : New(r)
    BY <1>5, <1>11
  <1>12. ASSUME \E n \in Message, r \in Request : Send(n, r)
         PROVE  \E r \in Message : New(r)
    BY <1>6, <1>12
  <1>13. ASSUME \/ \E s \in Session : RegisterFirst(s) \/ RegisterFresh(s) \/ RegisterJoin(s)
                \/ \E s \in Session, e \in Epoch, B \in SUBSET Message : Pull(s, e, B)
                \/ \E s \in Session, e \in Epoch, m \in Message : Redeliver(s, e, m)
         PROVE  Same
    BY <1>1, <1>2, <1>3, <1>13
  <1>14. ASSUME \E s \in Session, e \in Epoch, m \in Message, i \in Nat,
                   status \in {"accepted", "rejected"} : Ack(s, e, m, i, status)
         PROVE  Same
    BY <1>4, <1>14
  <1>15. ASSUME (\E m \in Message : Requeue(m)) \/ Quiet \/ Sweep \/ Tick
         PROVE  Same
    BY <1>7, <1>8, <1>9, <1>10, <1>15
  <1>16. Same \/ \E r \in Message : New(r)
    BY <1>11, <1>12, <1>13, <1>14, <1>15, StepForms, SMTT(60)
  <1> QED BY <1>16 DEF Same, New

(* SequencesAreDense is inductive.                                         *)
LEMMA DenseStep ==
  ASSUME TypeOK, TypeOK', RowsAgree, RowsAgree', SequencesAreDense, [Next]_vars
  PROVE  SequencesAreDense'
  <1> DEFINE To(s) == {m \in Message : Stored(m) /\ msg[m].to = s}
             Dense(s) == /\ {msg[m].seq : m \in To(s)} = 1 .. nextSeq[s] - 1
                         /\ \A m, n \in To(s) : msg[m].seq = msg[n].seq => m = n
  <1> SUFFICES ASSUME NEW s \in Session PROVE Dense(s)'
    BY SMTT(60) DEF SequencesAreDense
  <1>0. Dense(s) /\ nextSeq[s] \in Nat \ {0}
    BY Zenon DEF SequencesAreDense, TypeOK
  <1>1. CASE /\ msg' = msg /\ nextSeq' = nextSeq
             /\ \A m \in Message : Stored(m)' <=> Stored(m)
    <2>1. To(s)' = To(s)
      BY <1>1
    <2> HIDE DEF To
    <2> QED BY <1>0, <1>1, <2>1
  <1>2. ASSUME NEW r \in Message,
               ~Stored(r), Stored(r)', msg'[r].to \in Session,
               msg'[r].seq = nextSeq[msg'[r].to],
               nextSeq' = [nextSeq EXCEPT ![msg'[r].to] = @ + 1],
               \A m \in Message \ {r} : msg'[m] = msg[m] /\ (Stored(m)' <=> Stored(m))
        PROVE  Dense(s)'
    <2>1. CASE msg'[r].to # s
      <3>1. To(s)' = To(s) /\ r \notin To(s)
        BY <1>2, <2>1
      <3>2. nextSeq'[s] = nextSeq[s]
        BY <1>2, <2>1, SMTT(60) DEF TypeOK
      <3>3. \A m \in To(s) : msg'[m].seq = msg[m].seq
        BY <1>2, <3>1
      <3> HIDE DEF To
      <3>4. {msg'[m].seq : m \in To(s)} = {msg[m].seq : m \in To(s)}
        BY <3>3, SMTT(60)
      <3> QED BY <1>0, <3>1, <3>2, <3>3, <3>4
    <2>2. CASE msg'[r].to = s
      <3>1. To(s)' = To(s) \cup {r} /\ r \notin To(s)
        BY <1>2, <2>2
      <3>2. nextSeq'[s] = nextSeq[s] + 1 /\ msg'[r].seq = nextSeq[s]
        BY <1>2, <2>2, SMTT(60) DEF TypeOK
      <3>3. \A m \in To(s) : msg'[m].seq = msg[m].seq
        BY <1>2, <3>1
      <3> HIDE DEF To
      <3>4. {msg'[m].seq : m \in To(s) \cup {r}} = {msg[m].seq : m \in To(s)} \cup {nextSeq[s]}
        BY <3>2, <3>3, SMTT(60)
      <3>5. {msg'[m].seq : m \in To(s)'} = 1 .. nextSeq'[s] - 1
        <4>1. {msg'[m].seq : m \in To(s)'} = {msg[m].seq : m \in To(s)} \cup {nextSeq[s]}
          BY <3>1, <3>4
        <4>2. \A k \in Nat \ {0} : (1 .. k - 1) \cup {k} = 1 .. (k + 1) - 1
          BY SMTT(60)
        <4> QED BY <1>0, <3>2, <4>1, <4>2
      <3>6. ASSUME NEW m \in To(s)', NEW n \in To(s)', msg'[m].seq = msg'[n].seq PROVE m = n
        <4>1. \A k \in To(s) : msg'[k].seq \in 1 .. nextSeq[s] - 1
          BY <1>0, <3>3
        <4>2. \A k \in To(s) : msg'[k].seq # nextSeq[s]
          BY <1>0, <4>1, SMTT(60)
        <4> QED BY <1>0, <3>1, <3>2, <3>3, <3>6, <4>2
      <3> QED BY <3>5, <3>6
    <2> QED BY <2>1, <2>2
  <1> HIDE DEF Dense
  <1> QED BY <1>1, <1>2, MailStep

(* A message is first shown in order: the batch of a pull leaves out no    *)
(* earlier message that waits, and whatever does not wait any more has     *)
(* been shown, is over, or is out of time.                                 *)
LEMMA OrderStep ==
  ASSUME TypeOK, TypeOK', RowsAgree, RowsAgree', LedgerBacksRows, LedgerBacksRows',
         SequencesAreDense, FirstShownInOrder, [Next]_vars
  PROVE  FirstShownInOrder'
  <1> DEFINE Passed(m) == EverShown(m) \/ isTerminal(del[m].state) \/ del[m].ttl = 0
  <1> SUFFICES ASSUME NEW m \in Message, NEW n \in Message,
                      Stored(m)', Stored(n)', msg'[m].to = msg'[n].to,
                      msg'[m].seq < msg'[n].seq, EverShown(n)'
               PROVE  Passed(m)'
    BY ZenonT(60) DEF FirstShownInOrder, EverShown
  <1>1. Stored(m) /\ Stored(n) /\ msg'[m] = msg[m] /\ msg'[n] = msg[n]
    <2>1. CASE \A k \in Message : Stored(k)' <=> Stored(k)
      <3>1. ASSUME NEW k \in Message, Stored(k) PROVE msg'[k] = msg[k]
        BY <3>1, MessageImmutable, SMTT(60) DEF Opened
      <3> QED BY <2>1, <3>1
    <2>2. ASSUME NEW r \in Message, ~Stored(r), Stored(r)', msg'[r].to \in Session,
                 msg'[r].seq = nextSeq[msg'[r].to],
                 \A k \in Message \ {r} : msg'[k] = msg[k] /\ (Stored(k)' <=> Stored(k)),
                 shown' = shown
          PROVE  Stored(m) /\ Stored(n) /\ msg'[m] = msg[m] /\ msg'[n] = msg[n]
      <3>1. n # r
        <4>1. ~EverShown(r)
          BY <2>2, SMTT(60) DEF RowsAgree, RowAgrees, EverShown
        <4> QED BY <2>2, <4>1, SMTT(60) DEF EverShown
      <3>2. msg'[n] = msg[n] /\ Stored(n)
        BY <2>2, <3>1
      <3>3. m # r
        <4> SUFFICES ASSUME m = r PROVE FALSE
          OBVIOUS
        <4> DEFINE s == msg[n].to
        <4>1. s = msg'[r].to /\ s \in Session /\ nextSeq[s] \in Nat \ {0}
          BY <2>2, <3>2, SMTT(60) DEF TypeOK
        <4>2. msg[n].seq \in {msg[k].seq : k \in {j \in Message : Stored(j) /\ msg[j].to = s}}
          BY <3>2, SMTT(60)
        <4>3. msg[n].seq \in 1 .. nextSeq[s] - 1
          BY <4>1, <4>2, SMTT(60) DEF SequencesAreDense
        <4>4. nextSeq[s] < msg[n].seq
          BY <2>2, <3>2, <4>1
        <4> HIDE DEF s
        <4> QED BY <4>1, <4>3, <4>4
      <3> QED BY <2>2, <3>2, <3>3, SMTT(60)
    <2> QED BY <2>1, <2>2, MailStep
  <1>2. ASSUME Passed(m) PROVE Passed(m)'
    <2>1. CASE EverShown(m)
      BY <2>1, RecordStays, SMTT(60)
    <2>2. CASE isTerminal(del[m].state)
      <3>1. CASE Tick
        BY <2>2, <3>1, TickDelivery
      <3>2. CASE Opened(m) \/ Requeued(m) \/ Taken(m) \/ Answered(m)
        BY <2>2, <3>2, SMTT(60) DEF Opened, Requeued, Taken, Answered, Stored, isTerminal, Waiting,
           Live, TERMINAL_STATES
      <3>3. CASE Reaped(m)
        BY <2>2, <3>3, SweptTerminal, SMTT(60) DEF Reaped
      <3> QED BY <2>2, <3>1, <3>2, <3>3, RowMoves, SMTT(60)
    <2>3. CASE del[m].ttl = 0
      <3>0. del[m] \in DeliveryRow
        BY SMTT(60) DEF TypeOK
      <3>1. CASE Tick
        BY <2>3, <3>1, TickDelivery, TimerFacts DEF Elapse
      <3>2. CASE Requeued(m) \/ Taken(m) \/ Answered(m)
        BY <2>3, <3>0, <3>2, ZenonT(60) DEF Requeued, Taken, Answered, Injected, DeliveryRow
      <3>3. CASE Reaped(m)
        BY <2>3, <3>3, SweptMoves DEF Reaped
      <3> QED BY <1>1, <2>3, <3>1, <3>2, <3>3, RowMoves, Zenon DEF Opened
    <2> QED BY <1>2, <2>1, <2>2, <2>3, SMTT(60)
  <1>3. CASE EverShown(n)
    <2>1. Passed(m)
      BY <1>1, <1>3, SMTT(60) DEF FirstShownInOrder, EverShown
    <2> QED BY <1>2, <2>1, SMTT(60)
  <1>4. CASE ~EverShown(n)
    <2>1. PICK s \in Session, e \in Epoch, B \in SUBSET Message : Pull(s, e, B) /\ n \in B
      <3>1. PICK f \in Epoch : shown'[n][f] > 0
        BY DEF EverShown
      <3>2. shown'[n] # shown[n]
        BY <1>4, <3>1 DEF EverShown
      <3>3. shown' # shown
        BY <3>2, SMTT(60)
      <3>4. \E s \in Session, e \in Epoch, B \in SUBSET Message : Pull(s, e, B)
        BY <3>3, StepForms, ZenonT(60) DEF RegisterFirst, RegisterFresh, RegisterJoin, Redeliver, Ack,
           Reply, Send, Requeue, Quiet, Sweep, Tick
      <3>5. PICK s \in Session, e \in Epoch, B \in SUBSET Message : Pull(s, e, B)
        BY <3>4
      <3>6. n \in B
        BY <3>2, <3>5, ZenonT(60) DEF Pull, Inject
      <3> QED BY <3>5, <3>6, SMTT(60)
    <2>2. msg[m].to = s /\ msg[n].to = s /\ msg[m].seq < msg[n].seq
      BY <1>1, <2>1, SMTT(60) DEF Pull, Batches, Pending
    <2>3. m \in Pending(s) => m \in B
      BY <2>1, <2>2 DEF Pull, Batches
    <2>4. BackedByLedger(m) /\ BackedByLedger(m)' /\ del[m] \in DeliveryRow
      BY SMTT(60) DEF LedgerBacksRows, TypeOK
    <2>5. CASE m \in Pending(s)
      <3>1. EverInjected(m)'
        <4>1. CASE Fresh(m, e)
          <5>1. inj'[m][e] = <<NewInjection(injectionTtl)>>
            <6>1. inj'[m] = [inj[m] EXCEPT ![e] = <<NewInjection(injectionTtl)>>]
              BY <2>1, <2>3, <2>5, <4>1 DEF Pull, Inject
            <6>2. inj[m] \in [Epoch -> Seq(InjectionRow)]
              BY DEF TypeOK
            <6> QED BY <6>1, <6>2
          <5>2. inj'[m][e] # <<>>
            BY <5>1, SMTT(60)
          <5> QED BY <5>2, SMTT(60) DEF EverInjected
        <4>2. CASE ~Fresh(m, e)
          BY <4>2, RecordStays, SMTT(60) DEF EverInjected, Fresh
        <4> QED BY <4>1, <4>2, ZenonT(60)
      <3> QED BY <2>4, <3>1, ZenonT(60) DEF BackedByLedger
    <2>6. CASE m \notin Pending(s)
      <3>1. \/ isTerminal(del[m].state) \/ del[m].ttl = 0
            \/ del[m].state \in {"transport_written", "accepted", "dispatching"}
            \/ del[m].next # None
        BY <1>1, <2>2, <2>4, <2>6, SMTT(60)
        DEF Pending, Stored, isTerminal, TERMINAL_STATES, Waiting, DeliveryRow, DeliveryState,
            Timer, None
      <3>2. Passed(m)
        BY <2>4, <3>1, Zenon DEF BackedByLedger
      <3> QED BY <1>2, <3>2, SMTT(60)
    <2> QED BY <2>5, <2>6, SMTT(60)
  <1> QED BY <1>3, <1>4, SMTT(60)

(* DeliveriesAreSound is an invariant, for any number of sessions,         *)
(* messages and epochs: the order of first showing, the numbering, the     *)
(* receipts and the end of fire-and-forget work all follow from            *)
(* LedgerBacksRows, which says on which record each column of a delivery   *)
(* rests.                                                                  *)
THEOREM DeliveriesSound == Spec => []DeliveriesAreSound
  <1> DEFINE Inv == LedgerBacksRows /\ SequencesAreDense /\ FirstShownInOrder
  <1>1. Init => Inv
    <2> SUFFICES ASSUME Init PROVE Inv
      OBVIOUS
    <2>1. \A m \in Message : del[m] = [QueuedDelivery(None) EXCEPT !.state = "absent"]
      BY SMTT(60) DEF Init
    <2>2. ASSUME NEW m \in Message PROVE ~Stored(m) /\ BackedByLedger(m)
      <3>1. del[m].state = "absent" /\ del[m].next = None
        BY <2>1 DEF QueuedDelivery
      <3>2. ~EverInjected(m) /\ rcpt[m].ack = "none" /\ ~rcpt[m].reply
        BY DEF Init, EverInjected
      <3> QED BY <3>1, <3>2, Zenon DEF BackedByLedger, Stored
    <2>3. SequencesAreDense
      <3> SUFFICES ASSUME NEW s \in Session
                   PROVE  LET to == {m \in Message : Stored(m) /\ msg[m].to = s} IN
                            /\ {msg[m].seq : m \in to} = 1 .. nextSeq[s] - 1
                            /\ \A m, n \in to : msg[m].seq = msg[n].seq => m = n
        BY DEF SequencesAreDense
      <3>1. {m \in Message : Stored(m) /\ msg[m].to = s} = {}
        BY <2>2
      <3>2. nextSeq[s] = 1 /\ 1 .. 1 - 1 = {}
        BY DEF Init
      <3> QED BY <3>1, <3>2
    <2> QED BY <2>2, <2>3 DEF LedgerBacksRows, FirstShownInOrder
  <1>2. ASSUME TypeOK, TypeOK', RowsAgree, RowsAgree', Inv, [Next]_vars PROVE Inv'
    <2>1. LedgerBacksRows'
      BY <1>2, BackedStep, SMTT(60) DEF LedgerBacksRows
    <2> QED BY <1>2, <2>1, DenseStep, OrderStep
  <1>3. Inv => DeliveriesAreSound
    BY DEF LedgerBacksRows, BackedByLedger, EverInjected, EverShown, DeliveriesAreSound,
       ReceiptImpliesShown, FireAndForgetEndsWhenShown
  <1> QED BY <1>1, <1>2, <1>3, TypeCorrect, PTL DEF Spec
=============================================================================
