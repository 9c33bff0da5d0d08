------------------------------- MODULE Roster -------------------------------
(***************************************************************************)
(* The roster table of the console page (renderSessions in app.js): rows   *)
(* are kept from one payload to the next and rebuilt only when a signature *)
(* of the session changes.                                                 *)
(*                                                                         *)
(* A session is what the table shows of it: its label, the number of       *)
(* deliveries, the routing class that words its status, the connection its *)
(* details show, and whether it is internal.                               *)
(***************************************************************************)
EXTENDS Naturals, Sequences, SequencesExt, FiniteSets

CONSTANTS Session, Label, Class, MaxCount

VARIABLES
  sessions,     \* the broker's sessions, newest first
  payload,      \* window.__sessions: the sessions of the last payload
  showInternal, \* the checkbox
  filter,       \* the sessions the roster filter lets through
  cache,        \* rosterRowCache: session id -> [sig, row]
  body          \* the rows of the table, in order; a row is the session it was built from

vars == <<sessions, payload, showInternal, filter, cache, body>>

Entry == [id : Session, label : Label, count : 0 .. MaxCount, class : Class, internal : BOOLEAN]

Ids(s) == {s[i].id : i \in DOMAIN s}

NoCache == [x \in {} |-> 0]

Init ==
  /\ sessions = << >> /\ payload = << >>
  /\ showInternal = FALSE /\ filter = Session
  /\ cache = NoCache /\ body = << >>

(* Mutant: the signature leaves out the label.                             *)
MutSessionRowSig(s) == <<s.id, s.count, s.internal>>

sessionRowSig(s) == <<s.id, s.label, s.count, s.internal>>

(* Put a row at its place: it moves there from where it is, if anywhere.   *)
Placed(rows, i, cur) ==
  IF i <= Len(cur) /\ cur[i] = rows[i] THEN cur
  ELSE LET rest == SelectSeq(cur, LAMBDA r : r # rows[i]) IN
       SubSeq(rest, 1, i - 1) \o <<rows[i]>> \o SubSeq(rest, i, Len(rest))


(* reconcileRows: rows that are not wanted are removed, then each is moved *)
(* or inserted, from the first on, where it is not in place.               *)
reconcileRows(rows) ==
  FoldLeft(LAMBDA cur, i : Placed(rows, i, cur),
           SelectSeq(body, LAMBDA r : \E i \in DOMAIN rows : rows[i] = r),
           [i \in 1 .. Len(rows) |-> i])

Shown(p, internal, f) == SelectSeq(p, LAMBDA s : (internal \/ ~s.internal) /\ s.id \in f)

(* The row of a session: the one in the cache if the signature is the same.*)
RowOf(s) ==
  IF s.id \in DOMAIN cache /\ cache[s.id].sig = sessionRowSig(s) THEN cache[s.id]
  ELSE [sig |-> sessionRowSig(s), row |-> s]

(* renderSessions; an empty result clears the cache.                       *)
renderSessions(p, internal, f) ==
  LET shown == Shown(p, internal, f) IN
  /\ payload' = p
  /\ cache' = [x \in Ids(shown) |-> RowOf(shown[CHOOSE i \in DOMAIN shown : shown[i].id = x])]
  /\ body' = IF shown = << >> THEN << >> ELSE reconcileRows([i \in DOMAIN shown |-> RowOf(shown[i]).row])

-----------------------------------------------------------------------------

(* The broker's side: a session comes, goes, or changes.                   *)
SessionAppears(e) ==
  /\ e.id \notin Ids(sessions)
  /\ sessions' = <<e>> \o sessions
  /\ UNCHANGED <<payload, showInternal, filter, cache, body>>

SessionChanges(i, e) ==
  /\ e.id = sessions[i].id /\ e.internal = sessions[i].internal /\ e # sessions[i]
  /\ sessions' = [sessions EXCEPT ![i] = e]
  /\ UNCHANGED <<payload, showInternal, filter, cache, body>>

SessionRemoved(i) ==
  /\ sessions' = RemoveAt(sessions, i)
  /\ UNCHANGED <<payload, showInternal, filter, cache, body>>

(* A poll or a stream frame brings the sessions.                           *)
PayloadArrives ==
  /\ renderSessions(sessions, showInternal, filter)
  /\ UNCHANGED <<sessions, showInternal, filter>>

(* The checkbox and the filters draw the payload again.                    *)
ToggleInternal ==
  /\ showInternal' = ~showInternal
  /\ renderSessions(payload, ~showInternal, filter)
  /\ UNCHANGED <<sessions, filter>>

SetFilter(f) ==
  /\ filter' = f
  /\ renderSessions(payload, showInternal, f)
  /\ UNCHANGED <<sessions, showInternal>>

Next ==
  \/ \E e \in Entry : SessionAppears(e) \/ \E i \in DOMAIN sessions : SessionChanges(i, e)
  \/ \E i \in DOMAIN sessions : SessionRemoved(i)
  \/ PayloadArrives \/ ToggleInternal
  \/ \E f \in SUBSET Session : SetFilter(f)

Spec == Init /\ [][Next]_vars

-----------------------------------------------------------------------------

(* The table shows exactly the sessions of the last payload that pass the  *)
(* filters, each once and in the order of the payload, with their present  *)
(* label and counts: a row reused from an earlier payload never shows the  *)
(* state of a session as it was, or a session that is gone.                *)
TableIsThePayload ==
  LET shown == Shown(payload, showInternal, filter)
      told(s) == <<s.id, s.label, s.count>> IN
  [i \in DOMAIN body |-> told(body[i])] = [i \in DOMAIN shown |-> told(shown[i])]

-----------------------------------------------------------------------------
(* What the repository says and the code does not do.                      *)

(* "covering every field the row renders": the status of a row is worded   *)
(* by the session's present routing class.                                 *)
StatusIsPresent ==
  LET shown == Shown(payload, showInternal, filter) IN
  \A i \in DOMAIN shown : i \in DOMAIN body => body[i].class = shown[i].class
=============================================================================
