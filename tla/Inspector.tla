----------------------------- MODULE Inspector ------------------------------
(***************************************************************************)
(* The agent inspector of the dashboard: an operator action is posted to   *)
(* the broker, the view is read again, and the status line says what       *)
(* happened (dashboard/static/agents.js: runControl, guardedRefresh,       *)
(* postMutationStatus, scheduleRefreshRetry, renderInspector).             *)
(*                                                                         *)
(* Actions are numbered in the order they are submitted.  The view is the  *)
(* set of actions the broker had committed when it was last read.  What    *)
(* happens inside one turn of the event loop is one step: the operator     *)
(* sees the status line between steps only.                                *)
(***************************************************************************)
EXTENDS Naturals

CONSTANTS
  MaxAction,   \* bound: actions submitted
  MaxRetry     \* attempts of scheduleRefreshRetry (5 in the code)

VARIABLES
  ctl,         \* per action, what its runControl waits for
  disabled,    \* the buttons are disabled
  committed,   \* actions the broker has committed
  view,        \* the actions the view shows
  drawn,       \* the view the inspector was last drawn from
  lastSig,     \* the view the one-second timer last looked at
  status,      \* the status line: its class and the action it speaks of
  retry,       \* the pending retry timer: its action and attempt, 0 when none
  reading      \* retries whose timer has fired and whose read is under way

vars == <<ctl, disabled, committed, view, drawn, lastSig, status, retry, reading>>

Action == 1 .. MaxAction

NoRetry == [of |-> 0, attempt |-> 0]

Blank == [cls |-> "none", of |-> 0]

Init ==
  /\ ctl = [a \in Action |-> "new"]
  /\ disabled = FALSE
  /\ committed = {}
  /\ view = {}
  /\ drawn = {}
  /\ lastSig = {}
  /\ status = Blank
  /\ retry = NoRetry
  /\ reading = {}

(* The panel is rebuilt: a new status line and new, enabled buttons.       *)
renderInspector ==
  /\ status' = Blank
  /\ disabled' = FALSE
  /\ drawn' = view'

Submit(a) ==
  /\ ctl[a] = "new" /\ \A b \in 1 .. a - 1 : ctl[b] # "new"
  /\ ~disabled
  /\ ctl' = [ctl EXCEPT ![a] = "post"]
  /\ disabled' = TRUE
  /\ status' = [cls |-> "pending", of |-> a]
  /\ UNCHANGED <<committed, view, drawn, lastSig, retry, reading>>

(* The buttons come back with the answer, before the view is read again.   *)
PostOk(a) ==
  /\ ctl[a] = "post"
  /\ committed' = committed \cup {a}
  /\ ctl' = [ctl EXCEPT ![a] = "refresh"]
  /\ disabled' = FALSE
  /\ UNCHANGED <<view, drawn, lastSig, status, retry, reading>>

PostFailed(a) ==
  /\ ctl[a] = "post"
  /\ ctl' = [ctl EXCEPT ![a] = "done"]
  /\ disabled' = FALSE
  /\ status' = [cls |-> "err", of |-> a]
  /\ UNCHANGED <<committed, view, drawn, lastSig, retry, reading>>

(* Mutant: a read never replaces what was shown first.                     *)
MutGuardedRefresh(ok) == view' = IF ok /\ view = {} THEN committed ELSE view

(* guardedRefresh: the read succeeds, and then shows all that is committed,*)
(* or it fails and leaves the view as it was.                              *)
guardedRefresh(ok) == view' = IF ok THEN committed ELSE view

(* runControl after the refresh: the status is set, and then the inspector *)
(* is drawn.                                                               *)
Refreshed(a, ok) ==
  /\ ctl[a] = "refresh"
  /\ guardedRefresh(ok)
  /\ ctl' = [ctl EXCEPT ![a] = "done"]
  /\ retry' = IF ok THEN retry ELSE [of |-> a, attempt |-> 1]
  /\ renderInspector
  /\ UNCHANGED <<committed, lastSig, reading>>

(* Mutant: the retries start again after the last.                         *)
MutNextRetry(r) == [r EXCEPT !.attempt = IF @ + 1 > MaxRetry THEN 1 ELSE @ + 1]

NextRetry(r) == IF r.attempt + 1 > MaxRetry THEN NoRetry ELSE [r EXCEPT !.attempt = @ + 1]

RetryFires ==
  /\ retry # NoRetry
  /\ reading' = reading \cup {retry}
  /\ retry' = NoRetry
  /\ UNCHANGED <<ctl, disabled, committed, view, drawn, lastSig, status>>

(* The read of a retry ends, whatever the inspector shows by then.  The    *)
(* next retry replaces a timer that another action may have set.           *)
RetryRead(r, ok) ==
  /\ r \in reading
  /\ reading' = reading \ {r}
  /\ guardedRefresh(ok)
  /\ IF ok THEN renderInspector /\ UNCHANGED retry
     ELSE /\ retry' = NextRetry(r)
          /\ status' = [cls |-> "pending", of |-> r.of]
          /\ UNCHANGED <<disabled, drawn>>
  /\ UNCHANGED <<ctl, committed, lastSig>>

(* The five-second poll of app.js.                                         *)
Poll(ok) ==
  /\ guardedRefresh(ok)
  /\ UNCHANGED <<ctl, disabled, committed, drawn, lastSig, status, retry, reading>>

(* The one-second timer draws the inspector again when what it shows has   *)
(* changed.                                                                *)
Redraw ==
  /\ lastSig # view
  /\ lastSig' = view
  /\ UNCHANGED <<ctl, committed, view, retry, reading>>
  /\ renderInspector

Next ==
  \/ \E a \in Action : Submit(a) \/ PostOk(a) \/ PostFailed(a)
  \/ \E a \in Action, ok \in BOOLEAN : Refreshed(a, ok)
  \/ RetryFires
  \/ \E r \in reading, ok \in BOOLEAN : RetryRead(r, ok)
  \/ \E ok \in BOOLEAN : Poll(ok)
  \/ Redraw

(* Requests are answered or time out, the browser runs its timers, and a   *)
(* poll that is repeated for ever succeeds now and then.                   *)
Fair ==
  /\ \A a \in Action : WF_vars(PostOk(a) \/ PostFailed(a))
  /\ \A a \in Action : WF_vars(\E ok \in BOOLEAN : Refreshed(a, ok))
  /\ WF_vars(RetryFires)
  /\ WF_vars(\E r \in reading, ok \in BOOLEAN : RetryRead(r, ok))
  /\ SF_vars(Poll(TRUE))
  /\ WF_vars(Redraw)

Spec == Init /\ [][Next]_vars /\ Fair

-----------------------------------------------------------------------------

(* However actions, retries and polls overlap, the buttons come back and   *)
(* the retries end, reads that keep failing included.                      *)
InspectorSettles == []<>(~disabled /\ retry = NoRetry /\ reading = {})

(* What the broker has committed is drawn in the end, although the read    *)
(* after the action may have failed and its retries may be used up.        *)
CommittedIsDrawn == \A a \in Action : a \in committed ~> a \in drawn

-----------------------------------------------------------------------------
(* What the repository says and the code does not do.                      *)

(* "Every action shows pending -> success/failure": when runControl ends,  *)
(* the status line speaks of its action.                                   *)
OutcomeIsShown ==
  [][\A a \in Action : ctl[a] # "done" /\ ctl'[a] = "done" => status'.of = a]_vars

(* "Only overwrite the status if the inspector is still showing THIS retry *)
(* context": the line never goes back to an earlier action.                *)
StatusIsOfTheLastAction == [][status' = Blank \/ status'.of >= status.of]_vars
=============================================================================
