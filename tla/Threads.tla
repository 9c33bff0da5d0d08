------------------------------ MODULE Threads -------------------------------
(***************************************************************************)
(* Conversations: threads, their turns and read marks, and the operator    *)
(* console that opens, continues and reads them (broker/store.ts,          *)
(* broker/delivery.ts, broker/operator.ts, broker/daemon.ts).              *)
(*                                                                         *)
(* A message is its position in msg; the thread of a root message is the   *)
(* message itself (thread_id = message_id = correlation_id).  Deliveries   *)
(* are reduced to the set of messages that are still open; module Delivery *)
(* has their states.                                                       *)
(***************************************************************************)
EXTENDS Integers, Sequences, FiniteSets

CONSTANTS
  Peer,       \* session ids of Claude sessions
  Operator,   \* OPERATOR_SESSION_ID
  Key,        \* idempotency keys
  None,
  MaxMsg,     \* bound: messages stored
  MaxRemove   \* bound: records removed

Actor == Peer \cup {Operator}

VARIABLES
  row,      \* sessions: none, live or expired
  msg,      \* messages, in the order of insertion
  open,     \* messages whose delivery is not terminal
  rnext,    \* recipient_sequences: the next number, 0 when there is no row
  thr,      \* threads and thread_sequences: last turn and next number
  part,     \* thread_participants: the read cursor, -1 when there is no row
  removals

vars == <<row, msg, open, rnext, thr, part, removals>>

Message == 1 .. MaxMsg

Stored == 1 .. Len(msg)

Turns(t) == {m \in Stored : msg[m].thread = t}

NoThread == [last |-> 0, next |-> 0]

-----------------------------------------------------------------------------

(* The operator row is provisioned before the daemon binds.                *)
ensureOperatorSession ==
  /\ row = [a \in Actor |-> IF a = Operator THEN "live" ELSE "none"]
  /\ rnext = [a \in Actor |-> IF a = Operator THEN 1 ELSE 0]

Init ==
  /\ ensureOperatorSession
  /\ msg = << >>
  /\ open = {}
  /\ thr = [t \in Message |-> NoThread]
  /\ part = [t \in Message |-> [a \in Actor |-> -1]]
  /\ removals = 0

(* A session registers for the first time, or again after its removal or   *)
(* its expiry.                                                             *)
Register(p) ==
  /\ row[p] # "live"
  /\ row' = [row EXCEPT ![p] = "live"]
  /\ rnext' = [rnext EXCEPT ![p] = IF @ = 0 THEN 1 ELSE @]
  /\ UNCHANGED <<msg, open, thr, part, removals>>

(* The sweep finds p idle: its open deliveries become dead letters.        *)
Expire(p) ==
  /\ row[p] = "live"
  /\ row' = [row EXCEPT ![p] = "expired"]
  /\ open' = {m \in open : msg[m].to # p}
  /\ UNCHANGED <<msg, rnext, thr, part, removals>>

-----------------------------------------------------------------------------

(* The message an earlier call with the same key stored.                   *)
Duplicate(from, k) == k # None /\ \E m \in Stored : msg[m].from = from /\ msg[m].key = k

(* Mutant: the retry is looked up per recipient.                           *)
MutFirstCall(from, to, k) == ~(Duplicate(from, k) /\ \E m \in Stored : msg[m].to = to /\ msg[m].key = k)

FirstCall(from, to, k) == ~Duplicate(from, k)

(* ux_recipseq: an insert at a number already used aborts the transaction. *)
SequenceIsFree(to) ==
  /\ rnext[to] > 0
  /\ \A m \in Stored : msg[m].to = to => msg[m].rseq # rnext[to]

ensureThread(t) == [thr EXCEPT ![t] = IF @.next = 0 THEN [last |-> 0, next |-> 1] ELSE @]

(* Mutant: the number is taken from the last turn shown, which touchThread *)
(* has not moved yet.                                                      *)
MutAllocThreadSequence(th, t) == [number |-> th[t].next, thr |-> th]

allocThreadSequence(th, t) ==
  LET n == IF th[t].next = 0 THEN 1 ELSE th[t].next
  IN [number |-> n, thr |-> [th EXCEPT ![t].next = n + 1]]

(* Mutant: the turn number is added to the last one.                       *)
MutTouchThread(th, t, n) == [th EXCEPT ![t].last = @ + n]

touchThread(th, t, n) ==
  [th EXCEPT ![t].last = IF n > @ THEN n ELSE @]

(* INSERT OR IGNORE: the cursor of a participant is never reset.           *)
ensureParticipant(pt, t, a) == [pt EXCEPT ![t][a] = IF @ = -1 THEN 0 ELSE @]

(* The common part of send, reply and operatorSend: the recipient number,  *)
(* the turn, the message and its delivery.                                 *)
StoreTurn(th, from, to, t, parent, k) ==
  LET turn == allocThreadSequence(th, t) IN
  /\ SequenceIsFree(to)
  /\ Len(msg) < MaxMsg
  /\ msg' = Append(msg, [from |-> from, to |-> to, thread |-> t, tseq |-> turn.number,
                         rseq |-> rnext[to], parent |-> parent, key |-> k])
  /\ rnext' = [rnext EXCEPT ![to] = @ + 1]
  /\ thr' = touchThread(turn.thr, t, turn.number)

(* resolveRecipient and the expiry guard; the operator is addressable too. *)
Send(from, to, k) ==
  LET m == Len(msg) + 1 IN
  /\ from \in Peer /\ row[from] # "none"
  /\ FirstCall(from, to, k)
  /\ row[to] = "live"
  /\ m <= MaxMsg
  /\ StoreTurn(ensureThread(m), from, to, m, None, k)
  /\ part' = ensureParticipant(ensureParticipant(part, m, from), m, to)
  /\ open' = open \cup {m}
  /\ UNCHANGED <<row, removals>>

(* Mutant: the expiry of the original sender is not looked at.             *)
MutReplyTarget(m) == row[msg[m].from] # "none"

(* The original sender must not be expired; a removed one has no row for   *)
(* recipient_sequences to refer to.                                        *)
ReplyTarget(m) == row[msg[m].from] = "live"

Reply(p, m, k) ==
  LET t == msg[m].thread IN
  /\ row[p] # "none" /\ msg[m].to = p
  /\ FirstCall(p, msg[m].from, k)
  /\ ReplyTarget(m)
  /\ StoreTurn(thr, p, msg[m].from, t, m, k)
  /\ part' = [part EXCEPT ![t][p] = IF @ = -1 \/ @ > thr[t].next THEN @ ELSE thr[t].next]
  /\ open' = (open \ {m}) \cup {Len(msg) + 1}
  /\ UNCHANGED <<row, removals>>

-----------------------------------------------------------------------------
(* The operator console.                                                   *)

OpenThread(to, k) ==
  LET m == Len(msg) + 1 IN
  /\ FirstCall(Operator, to, k)
  /\ to # Operator /\ row[to] = "live"
  /\ m <= MaxMsg
  /\ StoreTurn(ensureThread(m), Operator, to, m, None, k)
  /\ part' = ensureParticipant(ensureParticipant(part, m, Operator), m, to)
  /\ open' = open \cup {m}
  /\ UNCHANGED <<row, removals>>

(* The turn answered: one named by the caller, which must belong to the    *)
(* thread, or else the latest.                                             *)
LatestTurn(t) == CHOOSE m \in Turns(t) : \A n \in Turns(t) : msg[n].tseq <= msg[m].tseq

(* Mutant: any stored message may be named.                                *)
MutParents(t) == Stored

Parents(t) == Turns(t) \cup {LatestTurn(t)}

(* The recorded participant, if there is one; the two of a peer thread     *)
(* joined at the same instant, so either may be found.                     *)
PeersOf(t) == {p \in Peer : part[t][p] >= 0}

(* Mutant: sending counts as reading.                                      *)
MutCursorAfterSend(pt, t) == [pt EXCEPT ![t][Operator] = thr[t].next]

CursorAfterSend(pt, t) == pt

ContinueThread(t, to, parent, k) ==
  /\ FirstCall(Operator, to, k)
  /\ to # Operator /\ row[to] = "live"
  /\ thr[t].next > 0
  /\ part[t][Operator] >= 0
  /\ parent \in Parents(t)
  /\ PeersOf(t) = {} \/ to \in PeersOf(t)
  /\ StoreTurn(thr, Operator, to, t, parent, k)
  /\ part' = CursorAfterSend(ensureParticipant(ensureParticipant(part, t, Operator), t, to), t)
  /\ open' = open \cup {Len(msg) + 1}
  /\ UNCHANGED <<row, removals>>

(* The console sends the last turn of the view it shows, which may be old. *)
MarkThreadRead(t, upTo) ==
  /\ thr[t].next > 0 /\ upTo <= thr[t].last
  /\ LET pt == ensureParticipant(part, t, Operator)
     IN part' = [pt EXCEPT ![t][Operator] = IF upTo > @ THEN upTo ELSE @]
  /\ UNCHANGED <<row, msg, open, rnext, thr, removals>>

(* Mutant: the deliveries of the removed session stay as they are.         *)
MutClosedOnRemoval(p) == open

ClosedOnRemoval(p) == {m \in open : msg[m].to # p}

OperatorRemoveRecord(p) ==
  /\ row[p] # "none"       \* and disconnected; connections are not modelled
  /\ removals < MaxRemove
  /\ row' = [row EXCEPT ![p] = "none"]
  /\ open' = ClosedOnRemoval(p)
  /\ rnext' = [rnext EXCEPT ![p] = 0]
  /\ part' = [t \in Message |-> [part[t] EXCEPT ![p] = -1]]
  /\ removals' = removals + 1
  /\ UNCHANGED <<msg, thr>>

Keys == Key \cup {None}

Next ==
  \/ \E p \in Peer : Register(p) \/ Expire(p) \/ OperatorRemoveRecord(p)
  \/ \E p \in Peer, to \in Actor, k \in Keys : Send(p, to, k)
  \/ \E p \in Peer, m \in Stored, k \in Keys : Reply(p, m, k)
  \/ \E to \in Actor, k \in Keys : OpenThread(to, k)
  \/ \E t \in Stored, to \in Actor, m \in Stored, k \in Keys : ContinueThread(t, to, m, k)
  \/ \E t \in Stored, n \in 0 .. MaxMsg : MarkThreadRead(t, n)

Spec == Init /\ [][Next]_vars

-----------------------------------------------------------------------------

(* The rows are of the types the schema gives them.                        *)
TypeOK ==
  /\ row \in [Actor -> {"none", "live", "expired"}]
  /\ rnext \in [Actor -> 0 .. MaxMsg + 1]
  /\ open \subseteq Stored
  /\ \A m \in Stored : msg[m].from \in Actor /\ msg[m].to \in Actor /\ msg[m].thread \in Stored
  /\ thr \in [Message -> [last : 0 .. MaxMsg, next : 0 .. MaxMsg + 1]]
  /\ part \in [Message -> [Actor -> -1 .. MaxMsg]]

(* The turns of a thread are numbered 1, 2, 3, ... without gap or repeat,  *)
(* however sends, replies and console messages interleave, and the thread  *)
(* row knows the last of them (allocThreadSequence: "monotonic, gap-free").*)
TurnsAreDense ==
  \A t \in Stored :
    /\ {msg[m].tseq : m \in Turns(t)} = 1 .. Cardinality(Turns(t))
    /\ msg[t].thread = t => thr[t].last = Cardinality(Turns(t))

(* A retried call stores nothing: no two messages of one sender share an   *)
(* idempotency key, whoever they are addressed to and whichever of the     *)
(* three operations stored them.                                           *)
OneRowPerKey ==
  \A m, n \in Stored :
    msg[m].from = msg[n].from /\ msg[m].key = msg[n].key /\ msg[m].key # None => m = n

(* What a turn answers is an earlier turn of the same thread.              *)
AnswersOwnThread ==
  \A m \in Stored :
    \/ msg[m].parent = None /\ msg[m].thread = m
    \/ /\ msg[m].parent \in Turns(msg[m].thread)
       /\ msg[msg[m].parent].tseq < msg[m].tseq

(* Open work has somebody to do it: neither expiry nor removal of a        *)
(* session leaves a delivery to it open, and none is queued afterwards.    *)
OpenWorkHasRecipient == \A m \in open : row[msg[m].to] = "live"

Unread(t) == {m \in Turns(t) : msg[m].from # Operator /\ msg[m].tseq > part[t][Operator]}

(* A turn the operator has not seen stays unread until it is marked read:  *)
(* sending into the thread, replies and removals never clear it.  The mark *)
(* itself moves no other row.                                              *)
UnreadUntilMarkedStep ==
  \A t \in Stored : ~(Unread(t) \subseteq Unread(t)') => msg' = msg /\ row' = row

UnreadUntilMarked == [][UnreadUntilMarkedStep]_vars

-----------------------------------------------------------------------------
(* What the repository says and the code does not do.                      *)

(* "Post-remove: same physical id -> fresh identity": a registered session *)
(* can be sent to, so its next number is free.                             *)
FreshIdentityCanReceive == \A p \in Peer : row[p] = "live" => SequenceIsFree(p)

(* "a thread is a conversation with ONE session".                          *)
OnePeerPerThread ==
  \A m, n \in Stored :
    /\ msg[m].thread = msg[n].thread
    /\ msg[m].from = Operator /\ msg[n].from = Operator
    => msg[m].to = msg[n].to
=============================================================================
