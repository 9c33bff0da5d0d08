------------------------------ MODULE Console ------------------------------
(***************************************************************************)
(* The operator's console page (broker/dashboard/static/app.js): the list  *)
(* of threads, the thread that is selected, the timeline that is drawn,    *)
(* and the reads and posts between the page and the broker.                *)
(*                                                                         *)
(* A thread is the number of its turns; turn n has thread sequence n.      *)
(* Every answer is a snapshot taken when the broker reads, and is applied  *)
(* when it arrives: answers of different requests overtake each other.     *)
(***************************************************************************)
EXTENDS Naturals, FiniteSets

CONSTANTS
  Thread,
  None,        \* no thread
  turnLimit,   \* turns one read of a thread returns (500 in the code)
  MaxTurn,     \* bound: turns of a thread
  MaxRead,     \* bound: reads under way when the operator starts one
  MaxList      \* bound: lists under way when one is asked for

VARIABLES
  last,        \* per thread, last_thread_sequence
  cursor,      \* per thread, the operator's last_read_thread_seq
  phase,       \* "loading", "running" or, after a failed first load, "stuck"
  streaming,   \* is the change stream open?
  list,        \* the threads of the list, with the last sequence it shows
  selected,    \* consoleState.selectedThreadId
  lists,       \* thread lists under way
  reads,       \* thread reads under way
  marks,       \* mark-read posts under way: <<thread, upToSequence>>
  sending,     \* the thread a composed message is being sent to
  shown,       \* the timeline on the page: [thread, upTo]
  seen         \* per thread, the turns ever drawn (no code reads it)

vars == <<last, cursor, phase, streaming, list, selected, lists, reads, marks, sending, shown, seen>>

NoAnswer == [last |-> 0, cursor |-> 0]

Lesser(a, b) == IF a < b THEN a ELSE b

Init ==
  /\ last = [t \in Thread |-> 0]
  /\ cursor = [t \in Thread |-> 0]
  /\ phase = "loading" /\ streaming = FALSE
  /\ list = [t \in {} |-> 0]
  /\ selected = None /\ sending = None
  /\ lists = {} /\ reads = {} /\ marks = {}
  /\ shown = [thread |-> None, upTo |-> 0]
  /\ seen = [t \in Thread |-> {}]

broker == <<last, cursor>>

-----------------------------------------------------------------------------
(* Reading the list.                                                       *)

(* The answer to /api/threads, or the frame of the stream: kind "poll" is  *)
(* only drawn, after "fresh" the selected timeline is read again, and      *)
(* `open` is the thread to be selected when that is done.                  *)
AskList(kind, open) ==
  [kind |-> kind, open |-> open, of |-> [t \in {u \in Thread : last[u] > 0} |-> last[t]]]

(* A read of a thread: "mark" marks it read, "quiet" does not, and "sent"  *)
(* refreshes the list after it has marked it.                              *)
AskThread(t, kind, open) == [thread |-> t, kind |-> kind, open |-> open, ans |-> NoAnswer]

CanAsk == Cardinality(reads) < MaxRead
CanList == Cardinality(lists) < MaxList

(* boot: the first refresh; stream and poll start only after it.           *)
FirstRefresh(ok) ==
  /\ phase = "loading"
  /\ phase' = IF ok THEN "running" ELSE "stuck"
  /\ streaming' = ok
  /\ list' = IF ok THEN AskList("poll", None).of ELSE list
  /\ UNCHANGED <<broker, selected, lists, reads, marks, sending, shown, seen>>

(* The interval: refresh reads, and what it read is drawn later.           *)
Poll ==
  /\ phase = "running" /\ CanList
  /\ lists' = lists \cup {AskList("poll", None)}
  /\ UNCHANGED <<broker, phase, streaming, list, selected, reads, marks, sending, shown, seen>>

(* Mutant: the first poll that fails ends the polling.                     *)
MutPollFails ==
  /\ phase = "running"
  /\ phase' = "stuck"
  /\ UNCHANGED <<broker, streaming, list, selected, lists, reads, marks, sending, shown, seen>>

(* refresh with /api/threads failing: the list is drawn empty.             *)
PollFails ==
  /\ phase = "running"
  /\ list' = [t \in {} |-> 0]
  /\ UNCHANGED <<broker, phase, streaming, selected, lists, reads, marks, sending, shown, seen>>

StreamFrame ==
  /\ phase = "running" /\ streaming /\ CanList
  /\ ~\E l \in lists : l.kind = "fresh"
  /\ lists' = lists \cup {AskList("fresh", None)}
  /\ UNCHANGED <<broker, phase, streaming, list, selected, reads, marks, sending, shown, seen>>

StreamDrops ==
  /\ streaming
  /\ streaming' = FALSE
  /\ UNCHANGED <<broker, phase, list, selected, lists, reads, marks, sending, shown, seen>>

(* What follows a list: selectThread for a new thread, else nothing.       *)
Chosen(open) == IF open = None THEN selected ELSE open
Opens(open) == IF open = None THEN {} ELSE {AskThread(open, "mark", None)}

(* renderThreadList; then, for a fresh list, the selected timeline is read *)
(* quietly, and only when that is done a new thread is selected.           *)
ListArrives(l) ==
  /\ list' = l.of
  /\ lists' = lists \ {l}
  /\ IF l.kind = "poll" THEN UNCHANGED <<reads, selected>>
     ELSE IF selected # None
     THEN reads' = reads \cup {AskThread(selected, "quiet", l.open)} /\ UNCHANGED selected
     ELSE reads' = reads \cup Opens(l.open) /\ selected' = Chosen(l.open)
  /\ UNCHANGED <<broker, phase, streaming, marks, sending, shown, seen>>

ListFails(l) ==
  /\ l.kind = "fresh"
  /\ lists' = lists \ {l}
  /\ reads' = reads \cup Opens(l.open)
  /\ selected' = Chosen(l.open)
  /\ UNCHANGED <<broker, phase, streaming, list, marks, sending, shown, seen>>

-----------------------------------------------------------------------------
(* Reading a thread.                                                       *)

Select(t) ==
  /\ t \in DOMAIN list /\ CanAsk
  /\ selected' = t
  /\ reads' = reads \cup {AskThread(t, "mark", None)}
  /\ UNCHANGED <<broker, phase, streaming, list, lists, marks, sending, shown, seen>>

ServerReads(r) ==
  /\ r.ans = NoAnswer
  /\ reads' = (reads \ {r}) \cup {[r EXCEPT !.ans = [last |-> last[r.thread], cursor |-> cursor[r.thread]]]}
  /\ UNCHANGED <<broker, phase, streaming, list, selected, lists, marks, sending, shown, seen>>

(* Mutant: the page marks what the list shows by now.                      *)
MutMarkOf(r) ==
  IF r.kind # "quiet" /\ r.thread \in DOMAIN list /\ list[r.thread] > r.ans.cursor
  THEN {<<r.thread, list[r.thread]>>} ELSE {}

MarkOf(r) ==
  IF r.kind # "quiet" /\ r.ans.last > r.ans.cursor THEN {<<r.thread, r.ans.last>>} ELSE {}

(* renderTimeline draws the answer, whatever is selected by now; a read    *)
(* that is not quiet marks the thread read.                                *)
ThreadArrives(r) ==
  LET upTo == Lesser(r.ans.last, turnLimit) IN
  /\ r.ans # NoAnswer
  /\ shown' = [thread |-> r.thread, upTo |-> upTo]
  /\ seen' = [seen EXCEPT ![r.thread] = @ \cup (1 .. upTo)]
  /\ marks' = marks \cup MarkOf(r)
  /\ reads' = (reads \ {r}) \cup Opens(r.open)
  /\ selected' = Chosen(r.open)
  /\ IF r.kind = "sent" THEN lists' = lists \cup {AskList("fresh", None)} ELSE UNCHANGED lists
  /\ UNCHANGED <<broker, phase, streaming, list, sending>>

(* A read that fails: an error replaces the timeline, a quiet one keeps it.*)
ThreadFails(r) ==
  /\ reads' = (reads \ {r}) \cup Opens(r.open)
  /\ selected' = Chosen(r.open)
  /\ shown' = IF r.kind = "quiet" THEN shown ELSE [thread |-> None, upTo |-> 0]
  /\ IF r.kind = "sent" THEN lists' = lists \cup {AskList("fresh", None)} ELSE UNCHANGED lists
  /\ UNCHANGED <<broker, phase, streaming, list, marks, sending, seen>>

-----------------------------------------------------------------------------
(* Writing.                                                                *)

(* markThreadRead: the cursor never goes back.                             *)
MarkRead(m) ==
  /\ marks' = marks \ {m}
  /\ cursor' = [cursor EXCEPT ![m[1]] = IF m[2] > @ THEN m[2] ELSE @]
  /\ UNCHANGED <<last, phase, streaming, list, selected, lists, reads, sending, shown, seen>>

MarkLost(m) ==
  /\ marks' = marks \ {m}
  /\ UNCHANGED <<broker, phase, streaming, list, selected, lists, reads, sending, shown, seen>>

PeerReplies(t) ==
  /\ last[t] \in 1 .. MaxTurn - 1
  /\ last' = [last EXCEPT ![t] = @ + 1]
  /\ UNCHANGED <<cursor, phase, streaming, list, selected, lists, reads, marks, sending, shown, seen>>

(* sendComposed: the recipient is looked up in the list; when the list is  *)
(* empty the broker refuses the message.                                   *)
SendComposed(ok) ==
  /\ selected # None /\ shown.thread # None /\ sending = None
  /\ LET stored == ok /\ selected \in DOMAIN list IN
     /\ stored => last[selected] < MaxTurn
     /\ last' = IF stored THEN [last EXCEPT ![selected] = @ + 1] ELSE last
     /\ sending' = IF stored THEN selected ELSE None
  /\ UNCHANGED <<cursor, phase, streaming, list, selected, lists, reads, marks, shown, seen>>

SendAnswered ==
  /\ sending # None /\ CanAsk
  /\ reads' = reads \cup {AskThread(sending, "sent", None)}
  /\ sending' = None
  /\ UNCHANGED <<broker, phase, streaming, list, selected, lists, marks, shown, seen>>

(* retryTurn and redeliverTurn act on the thread that is drawn; the first  *)
(* adds a turn, the second re-presents one.                                *)
ActOnTurn(new, ok) ==
  /\ shown.thread # None /\ CanAsk
  /\ LET t == shown.thread IN
     /\ ok /\ new => last[t] < MaxTurn
     /\ last' = IF ok /\ new THEN [last EXCEPT ![t] = @ + 1] ELSE last
     /\ reads' = IF ok THEN reads \cup {AskThread(t, "sent", None)} ELSE reads
  /\ UNCHANGED <<cursor, phase, streaming, list, selected, lists, marks, sending, shown, seen>>

startNewThread(t) ==
  /\ phase = "running" /\ last[t] = 0 /\ CanList
  /\ last' = [last EXCEPT ![t] = 1]
  /\ lists' = lists \cup {[kind |-> "fresh", open |-> t,
                           of |-> [u \in {v \in Thread : last'[v] > 0} |-> last'[u]]]}
  /\ UNCHANGED <<cursor, phase, streaming, list, selected, reads, marks, sending, shown, seen>>

Next ==
  \/ \E ok \in BOOLEAN : FirstRefresh(ok) \/ SendComposed(ok) \/ \E new \in BOOLEAN : ActOnTurn(new, ok)
  \/ Poll \/ PollFails \/ StreamFrame \/ StreamDrops \/ SendAnswered
  \/ \E l \in lists : ListArrives(l) \/ ListFails(l)
  \/ \E r \in reads : ServerReads(r) \/ ThreadArrives(r) \/ ThreadFails(r)
  \/ \E m \in marks : MarkRead(m) \/ MarkLost(m)
  \/ \E t \in Thread : Select(t) \/ PeerReplies(t) \/ startNewThread(t)

Spec == Init /\ [][Next]_vars

(* The interval fires again and again, what is asked is answered, and not  *)
(* every read fails.  (Strong fairness where the bounds on what is under   *)
(* way can disable a step that nothing disables in the code.)              *)
Fair ==
  /\ SF_vars(Poll)
  /\ \A t \in Thread : \A n \in 1 .. MaxTurn :
       SF_vars(\E l \in lists : t \in DOMAIN l.of /\ l.of[t] >= n /\ ListArrives(l))
  /\ SF_vars(\E r \in reads : ServerReads(r))
  /\ SF_vars(\E r \in reads : ThreadArrives(r))

FairSpec == Spec /\ Fair

-----------------------------------------------------------------------------

(* The operator's cursor covers only turns the page has drawn (in threads  *)
(* no longer than what one read returns): an answer that arrives late, a   *)
(* reply stored between the read and the mark, and a mark that is lost or  *)
(* overtaken never report an unseen turn as read.                          *)
ReadOnlyWhatWasShown == \A t \in Thread : 1 .. cursor[t] \subseteq seen[t]

(* Once the page runs, every turn gets into the list, whatever happens to  *)
(* the stream and although a failed poll draws the list empty.             *)
ListCatchesUp ==
  \A t \in Thread : \A n \in 1 .. MaxTurn :
    phase = "running" /\ last[t] >= n ~> t \in DOMAIN list /\ list[t] >= n

-----------------------------------------------------------------------------
(* What the repository says and the code does not do.                      *)

(* "If the selected thread is open, keep its timeline fresh": with nothing *)
(* under way, the timeline on the page is the selected thread's.           *)
ShownIsSelected ==
  reads = {} /\ lists = {} /\ shown.thread # None => shown.thread = selected

(* "stream dropped; the poll below keeps the UI fresh": a turn of the      *)
(* selected thread gets drawn, unless another thread is selected.          *)
OpenTimelineCatchesUp ==
  \A t \in Thread : \A n \in 1 .. MaxTurn :
    (phase = "running" /\ selected = t /\ last[t] >= n) ~>
       (selected # t \/ (shown.thread = t /\ shown.upTo >= n))

(* "retries and failures render in one ordered timeline": what the page    *)
(* reports as read it has drawn, however long the thread.                  *)
MarkedWasDrawn == \A m \in marks : 1 .. m[2] \subseteq seen[m[1]]
=============================================================================
