------------------------------- MODULE ReapCap -------------------------------
(***************************************************************************)
(* The order and the per-session cap of the ack-timeout sweep              *)
(* (reapAckTimeouts in broker/reaper.ts): the due deliveries are taken     *)
(* oldest first, at most perSessionCap of one recipient in one sweep.      *)
(*                                                                         *)
(* A slot stands for one delivery and, once that has ended, for the next   *)
(* one to the same recipient, so that the load never stops.  A delivery    *)
(* that is taken is retried or dead-lettered; both leave the slot waiting. *)
(***************************************************************************)
EXTENDS Integers, FiniteSets, Sequences, SequencesExt

CONSTANTS Slot,
          Recipient,
          recipientOf,     \* recipient_session_id of each slot
          perSessionCap,   \* 0: no cap
          MaxWait          \* bound: where the count of missed sweeps stops

VARIABLES line,    \* deliveries in flight, by updated_at
          due,     \* those whose lease has expired
          missed   \* sweeps since then

vars == <<line, due, missed>>

Init == line = <<>> /\ due = {} /\ missed = [m \in Slot |-> 0]

TypeOK == /\ line \in Seq(Slot) /\ due \subseteq Slot
          /\ missed \in [Slot -> 0 .. MaxWait]

Ended(gone) ==
  /\ line' = SelectSeq(line, LAMBDA m : m \notin gone)
  /\ due' = due \ gone

(* A pull writes updated_at, so the delivery is the youngest. *)
Pull(m) ==
  /\ m \notin ToSet(line)
  /\ line' = Append(line, m)
  /\ UNCHANGED <<due, missed>>

LeaseExpires(m) ==
  /\ m \in ToSet(line) \ due
  /\ due' = due \cup {m}
  /\ UNCHANGED <<line, missed>>

(* An ack, or the end of the delivery by another way. *)
Answer(m) ==
  /\ m \in ToSet(line)
  /\ Ended({m}) /\ missed' = [missed EXCEPT ![m] = 0]

(* The rows of the query: due, by updated_at. *)
Rows == SelectSeq(line, LAMBDA m : m \in due)

Before(i, rows) == {j \in 1 .. i - 1 : recipientOf[rows[j]] = recipientOf[rows[i]]}

MutTakenYoungest(rows) ==  (* Mutant: the youngest first. *)
  LET back == Reverse(rows)
  IN  {back[i] : i \in {k \in DOMAIN back : perSessionCap > 0 => Cardinality(Before(k, back)) < perSessionCap}}

MutTakenTogether(rows) ==  (* Mutant: one count for all sessions. *)
  {rows[i] : i \in {k \in DOMAIN rows : perSessionCap > 0 => k - 1 < perSessionCap}}

(* The loop, which passes over a row whose session has used its share. *)
Taken(rows) ==
  {rows[i] : i \in {k \in DOMAIN rows : perSessionCap > 0 => Cardinality(Before(k, rows)) < perSessionCap}}

reapAckTimeouts ==
  LET taken == Taken(Rows)
  IN  /\ due # {}
      /\ Ended(taken)
      /\ missed' = [m \in Slot |-> IF m \in due \ taken THEN IF missed[m] < MaxWait THEN missed[m] + 1 ELSE MaxWait
                                   ELSE 0]

Next == reapAckTimeouts \/ \E m \in Slot : Pull(m) \/ LeaseExpires(m) \/ Answer(m)

Spec == Init /\ [][Next]_vars

(* The sweep runs on a timer. *)
FairSpec == Spec /\ WF_vars(reapAckTimeouts)

(***************************************************************************)
(* Properties.                                                             *)
(***************************************************************************)
(* A due delivery misses a sweep only while others of the same recipient    *)
(* are served before it, and none of those is served twice: the sweeps it   *)
(* misses times the cap are fewer than the deliveries of its recipient,     *)
(* whatever the load of that or another session (reapAckTimeouts).          *)
WaitIsBounded ==
  \A m \in due : missed[m] * perSessionCap < Cardinality({n \in Slot : recipientOf[n] = recipientOf[m]})

(* Every due delivery is taken or answered, under a load that never stops.  *)
DueIsTakenBack == \A m \in Slot : m \in due ~> m \notin due
=============================================================================
