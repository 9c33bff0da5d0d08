-------------------------- MODULE DeliveryContract --------------------------
(***************************************************************************)
(* What the broker promises about delivery (docs/delivery-semantics.md,    *)
(* docs/injection-crash-windows.md), without saying how: no leases, no     *)
(* timers, no injection rows, no receipts.                                 *)
(*                                                                         *)
(* A message is submitted once, to one session.  While it is open its body *)
(* may be shown to that session, once per lifecycle (epoch), and only in   *)
(* the current one.  Once closed it stays closed, and is not shown again.  *)
(***************************************************************************)
EXTENDS Naturals

CONSTANTS Session, Message, Null, MaxEpoch

VARIABLES epoch, owner, phase, views

cvars == <<epoch, owner, phase, views>>

Init ==
  /\ epoch = [s \in Session |-> 0]
  /\ owner = [m \in Message |-> Null]
  /\ phase = [m \in Message |-> "unsent"]
  /\ views = [m \in Message |-> [e \in 1 .. MaxEpoch |-> 0]]

(* A session starts a lifecycle.                                           *)
Begin(s) ==
  /\ epoch[s] < MaxEpoch
  /\ epoch' = [epoch EXCEPT ![s] = @ + 1]
  /\ UNCHANGED <<owner, phase, views>>

(* The phases after submitting m and closing the messages of C.            *)
Open(m, s, C) ==
  /\ phase[m] = "unsent" /\ m \notin C
  /\ \A c \in C : phase[c] = "open"
  /\ owner' = [owner EXCEPT ![m] = s]
  /\ phase' = [n \in Message |-> IF n = m THEN "open"
                                 ELSE IF n \in C THEN "closed" ELSE phase[n]]

(* A message is submitted; a reply may close the message it answers.       *)
Submit(m, s) ==
  /\ \E C \in SUBSET Message : (\A c, d \in C : c = d) /\ Open(m, s, C)
  /\ UNCHANGED <<epoch, views>>

(* The bodies of B are shown to s; those of C ask for nothing more.        *)
Present(s, B, C) ==
  /\ epoch[s] \in 1 .. MaxEpoch
  /\ C \subseteq B
  /\ \A m \in B : /\ phase[m] = "open" /\ owner[m] = s
                  /\ views[m][epoch[s]] = 0
  /\ views' = [m \in Message |-> IF m \in B
                                 THEN [views[m] EXCEPT ![epoch[s]] = 1]
                                 ELSE views[m]]
  /\ phase' = [m \in Message |-> IF m \in C THEN "closed" ELSE phase[m]]
  /\ UNCHANGED <<epoch, owner>>

(* Rejected, timed out, expired.                                           *)
Close(C) ==
  /\ \A m \in C : phase[m] = "open"
  /\ phase' = [m \in Message |-> IF m \in C THEN "closed" ELSE phase[m]]
  /\ UNCHANGED <<epoch, owner, views>>

Next ==
  \/ \E s \in Session : Begin(s)
  \/ \E m \in Message, s \in Session : Submit(m, s)
  \/ \E s \in Session, B, C \in SUBSET Message : Present(s, B, C)
  \/ \E C \in SUBSET Message : Close(C)

Spec == Init /\ [][Next]_cvars
=============================================================================
