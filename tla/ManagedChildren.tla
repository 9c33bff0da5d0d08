--------------------------- MODULE ManagedChildren ---------------------------
(***************************************************************************)
(* Background sessions the broker launches (launcher/spawn-managed-        *)
(* session.ts): the markers in the sessions table (broker/store.ts), the   *)
(* process handles in the memory of the daemon (broker/daemon.ts), the     *)
(* processes and their pids.  A restart of the broker loses the handles    *)
(* and keeps the markers.                                                  *)
(***************************************************************************)
EXTENDS Naturals

CONSTANTS
  Session, Child,   \* a child is launched once, with a launch key of its own
  Pid, None, Stranger,
  MaxRestart        \* bound: restarts of the broker

VARIABLES
  proc,       \* each child: unborn, running, zombie, exited
  of,         \* the session and the pid it was launched with
  holder,     \* the process that has a pid: a child, Stranger or None
  marker,     \* sessions.managed_*: None or the child it was written for
  handle,     \* managedChildren: None or a child
  watched,    \* children whose exit callback is registered
  stopped,    \* children the operator stopped (no code reads it)
  hit,        \* processes that got a SIGTERM (no code reads it)
  restarts

vars == <<proc, of, holder, marker, handle, watched, stopped, hit, restarts>>

NoChild == [session |-> None, pid |-> None]

Init ==
  /\ proc = [k \in Child |-> "unborn"]
  /\ of = [k \in Child |-> NoChild]
  /\ holder = [p \in Pid |-> None]
  /\ marker = [s \in Session |-> None]
  /\ handle = [s \in Session |-> None]
  /\ watched = {} /\ stopped = {} /\ hit = {} /\ restarts = 0

(* markManagedSessionExited and clearManagedSession write the same columns.*)
cleared(s) == marker' = [marker EXCEPT ![s] = None]

recordManagedSession(s, k) == marker' = [marker EXCEPT ![s] = k]

registerManagedChild(s, k) ==
  /\ handle' = [handle EXCEPT ![s] = k]
  /\ watched' = watched \cup {k}

(* The launch path: spawn, record, register, in one turn of the event loop.*)
spawnManagedSession(s, k, p) ==
  /\ proc[k] = "unborn" /\ holder[p] = None
  /\ proc' = [proc EXCEPT ![k] = "running"]
  /\ of' = [of EXCEPT ![k] = [session |-> s, pid |-> p]]
  /\ holder' = [holder EXCEPT ![p] = k]
  /\ recordManagedSession(s, k)
  /\ registerManagedChild(s, k)
  /\ UNCHANGED <<stopped, hit, restarts>>

(* A child of this broker stays a zombie until its exit has been handled.  *)
Exit(k) ==
  /\ proc[k] = "running"
  /\ IF k \in watched
     THEN proc' = [proc EXCEPT ![k] = "zombie"] /\ UNCHANGED holder
     ELSE /\ proc' = [proc EXCEPT ![k] = "exited"]
          /\ holder' = [holder EXCEPT ![of[k].pid] = None]
  /\ UNCHANGED <<of, marker, handle, watched, stopped, hit, restarts>>

(* Mutant: the handle of a child that exited is kept.                      *)
MutOnExit(k) ==
  /\ k \in watched /\ proc[k] = "zombie"
  /\ proc' = [proc EXCEPT ![k] = "exited"]
  /\ holder' = [holder EXCEPT ![of[k].pid] = None]
  /\ watched' = watched \ {k}
  /\ cleared(of[k].session)
  /\ UNCHANGED <<of, handle, stopped, hit, restarts>>

(* The exit callback of the child, which goes by the session alone.        *)
OnExit(k) ==
  /\ k \in watched /\ proc[k] = "zombie"
  /\ proc' = [proc EXCEPT ![k] = "exited"]
  /\ holder' = [holder EXCEPT ![of[k].pid] = None]
  /\ watched' = watched \ {k}
  /\ handle' = [handle EXCEPT ![of[k].session] = None]
  /\ cleared(of[k].session)
  /\ UNCHANGED <<of, stopped, hit, restarts>>

(* Mutant: the recorded pid is enough.                                     *)
MutKillable(s) == marker[s] # None

(* The handle is of the child the markers name: same pid, same launch key. *)
Killable(s) == handle[s] # None /\ handle[s] = marker[s] /\ of[handle[s]].pid = of[marker[s]].pid

(* clearManagedSession refuses a session without markers.                  *)
clearManagedSession(s) == marker[s] # None /\ cleared(s)

(* stop_managed: clear the markers, signal through the handle, forget it.  *)
stopManaged(s) ==
  /\ clearManagedSession(s)
  /\ hit' = IF Killable(s) THEN hit \cup {<<s, holder[of[marker[s]].pid]>>} ELSE hit
  /\ stopped' = stopped \cup {marker[s]}
  /\ handle' = [handle EXCEPT ![s] = None]
  /\ UNCHANGED <<proc, of, holder, watched, restarts>>

(* The operating system gives a free pid to some process, and takes it back*)
TakePid(p) ==
  /\ holder[p] = None
  /\ holder' = [holder EXCEPT ![p] = Stranger]
  /\ UNCHANGED <<proc, of, marker, handle, watched, stopped, hit, restarts>>

FreePid(p) ==
  /\ holder[p] = Stranger
  /\ holder' = [holder EXCEPT ![p] = None]
  /\ UNCHANGED <<proc, of, marker, handle, watched, stopped, hit, restarts>>

RestartBroker ==
  /\ restarts < MaxRestart
  /\ restarts' = restarts + 1
  /\ handle' = [s \in Session |-> None]
  /\ watched' = {}
  /\ proc' = [k \in Child |-> IF proc[k] = "zombie" THEN "exited" ELSE proc[k]]
  /\ holder' = [p \in Pid |-> IF holder[p] \in Child /\ proc[holder[p]] = "zombie" THEN None ELSE holder[p]]
  /\ UNCHANGED <<of, marker, stopped, hit>>

Next ==
  \/ \E s \in Session : stopManaged(s) \/ \E k \in Child, p \in Pid : spawnManagedSession(s, k, p)
  \/ \E k \in Child : Exit(k) \/ OnExit(k)
  \/ \E p \in Pid : TakePid(p) \/ FreePid(p)
  \/ RestartBroker

Spec == Init /\ [][Next]_vars

-----------------------------------------------------------------------------

(* A stop signals a child that was launched for the session it names, never*)
(* another process that has its pid by now, whatever exits, restarts of the*)
(* broker and relaunches come between.                                     *)
KillsOnlyItsChild == \A h \in hit : h[2] \in Child /\ of[h[2]].session = h[1]

(* A handle is of a process that has not been reaped: its pid is its own.  *)
HandleIsOfAProcess ==
  \A s \in Session : handle[s] # None =>
    proc[handle[s]] \in {"running", "zombie"} /\ holder[of[handle[s]].pid] = handle[s]

-----------------------------------------------------------------------------
(* What the repository says and the code does not do.                      *)

(* "On the child's exit we clear the session's managed markers ... and drop*)
(* the handle": the handle of a running child goes only with a stop of it  *)
(* or with the broker.                                                     *)
ExitDropsItsOwn ==
  [][\A s \in Session :
       handle[s] # None /\ handle'[s] = None /\ proc'[handle[s]] = "running"
         => handle[s] \in stopped' \/ restarts' # restarts]_vars

-----------------------------------------------------------------------------
(* Why a stop hits its child: a handle is dropped in the step that reaps   *)
(* its child, so the pid behind a handle cannot have been given away.      *)
Typed ==
  /\ proc \in [Child -> {"unborn", "running", "zombie", "exited"}]
  /\ of \in [Child -> [session : Session \cup {None}, pid : Pid \cup {None}]]
  /\ holder \in [Pid -> Child \cup {Stranger, None}]
  /\ marker \in [Session -> Child \cup {None}]
  /\ handle \in [Session -> Child \cup {None}]
  /\ watched \subseteq Child

Unreaped(k) == proc[k] \in {"running", "zombie"}

PidsAreHeld ==
  \A k \in Child : Unreaped(k) => of[k].pid \in Pid /\ of[k].session \in Session /\ holder[of[k].pid] = k

HandlesAreLive ==
  \A s \in Session : handle[s] # None =>
    Unreaped(handle[s]) /\ handle[s] \in watched /\ of[handle[s]].session = s

HitsWereLaunched ==
  \A h \in hit : h[2] \in Child /\ proc[h[2]] # "unborn" /\ of[h[2]].session = h[1]

Inv == Typed /\ PidsAreHeld /\ HandlesAreLive /\ HitsWereLaunched
==============================================================================
