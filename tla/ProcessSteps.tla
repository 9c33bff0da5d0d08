---------------------------- MODULE ProcessSteps ----------------------------
(***************************************************************************)
(* Sessions and the processes behind them: the sessions from their         *)
(* SessionStart hook to their removal (Lifecycle), the background sessions *)
(* the broker launches (ManagedChildren), the stop of a broker (Shutdown), *)
(* and what is reported of a session (Routing).  Each is followed by the   *)
(* lemma that its steps keep its inductive invariant; MCProcesses composes *)
(* them with the other processes and states the theorems.                  *)
(***************************************************************************)
EXTENDS Integers, TLAPS

CONSTANTS
  Null, Stranger,
  Session, Child, Pid, MaxRestart,                        \* ManagedChildren
  Visible, Hook, Source, MaxEpoch, MaxEnds, MaxRemoved,   \* Lifecycle
  Host, Stopper, Installer, MaxEnded,                     \* Shutdown: brokers and their callers
  Conn, MaxTakeover, MaxCrash                             \* Routing

(* Who holds a pid is a child, a process of somebody else, or nobody.      *)
ASSUME ChildAssumption == Null \notin Child /\ Stranger \notin Child \cup {Null}

(* The state file names a broker or is not there.                          *)
ASSUME HostAssumption == Null \notin Host

(* Epochs are counted from one.                                            *)
ASSUME RouteAssumption == MaxTakeover \in Nat \ {0} /\ MaxCrash \in Nat

VARIABLES
  proc, of, owner, marker, handle, watched, stopped, hit, restarts,                   \* ManagedChildren
  up, ends, row, started, mail, transcript, mcp, hook, removed,                       \* Lifecycle
  life, foreign, marked, named_file, gone, caller, named, proven, signalled, ended,   \* Shutdown
  sessionRow, receiving, live, auth, lastSignal, crashes                              \* Routing

childVars == <<proc, of, owner, marker, handle, watched, stopped, hit, restarts>>

sessionVars == <<up, ends, row, started, mail, transcript, mcp, hook, removed>>

stopVars == <<life, foreign, marked, named_file, gone, caller, named, proven, signalled, ended>>

routeVars == <<sessionRow, receiving, live, auth, lastSignal, crashes>>

-----------------------------------------------------------------------------
(* Sessions and the copies of their SessionStart hook.                     *)
Sessions == INSTANCE Lifecycle WITH Session <- Visible, disk <- transcript

(* What every write of a session's row keeps: its shape, the alias of what *)
(* has registered, the whole of what comes back from an expiry, and the    *)
(* standing of a known session.                                            *)
Carries(r, q) ==
  /\ q \in Sessions!Row /\ Sessions!Sound(q)
  /\ r.expired /\ q.there /\ ~q.expired => q.alias /\ q.clock /\ q.ready = "initializing"
  /\ r.there /\ q.there => /\ r.mgmt = "active" => q.mgmt = "active"
                          /\ q.epoch >= r.epoch

(* Every step of hooks, servers and the broker writes rows that way.       *)
LEMMA SessionRowsCarry ==
  ASSUME Sessions!Inv, Sessions!Next \/ UNCHANGED sessionVars
  PROVE  row' \in [Visible -> Sessions!Row] /\ \A s \in Visible : Carries(row[s], row'[s])
  <1>0. row \in [Visible -> Sessions!Row] /\ \A s \in Visible : Sessions!Sound(row[s])
    BY DEF Sessions!Inv
  <1>1. ASSUME NEW r \in Sessions!Row, Sessions!Sound(r) PROVE Carries(r, r)
    BY <1>1 DEF Carries, Sessions!Row
  <1>2. ASSUME NEW s, NEW q, row' = [row EXCEPT ![s] = q], s \in Visible => Carries(row[s], q)
        PROVE  row' \in [Visible -> Sessions!Row] /\ \A t \in Visible : Carries(row[t], row'[t])
    <2>1. \A t \in Visible : row'[t] = IF t = s THEN q ELSE row[t]
      BY <1>0, <1>2
    <2>2. \A t \in Visible : Carries(row[t], row'[t])
      BY <1>0, <1>1, <1>2, <2>1
    <2>3. row' \in [Visible -> Sessions!Row]
      BY <1>0, <1>2, <2>2, Zenon DEF Carries
    <2> QED BY <2>2, <2>3
  <1>3. ASSUME row' = row
        PROVE  row' \in [Visible -> Sessions!Row] /\ \A t \in Visible : Carries(row[t], row'[t])
    BY <1>0, <1>1, <1>3
  <1>4. \A r \in Sessions!Row : Carries(r, Sessions!NoRow)
    BY DEF Carries, Sessions!NoRow, Sessions!Row, Sessions!Sound
  <1>5. ASSUME NEW s \in Visible, NEW conn \in {"mcp"} \cup Hook
        PROVE  Carries(row[s], Sessions!Register(s, conn))
    <2>0. row[s] \in Sessions!Row /\ Sessions!Sound(row[s])
      BY <1>0
    <2>1. CASE ~row[s].there
      BY <2>0, <2>1, Zenon DEF Carries, Sessions!Register, Sessions!NoRow, Sessions!Row, Sessions!Sound
    <2>2. CASE row[s].there /\ row[s].expired
      <3> DEFINE q == [row[s] EXCEPT !.epoch = @ + 1, !.expired = FALSE, !.state = "connected",
                                     !.ready = "initializing", !.clock = TRUE, !.alias = TRUE]
      <3>1. Sessions!Register(s, conn) = q
        BY <2>2 DEF Sessions!Register
      <3>2. q \in Sessions!Row
        <4>1. row[s].epoch + 1 \in Nat
          BY <2>0 DEF Sessions!Row
        <4> QED BY <2>0, <4>1, Zenon DEF Sessions!Row
      <3>3. /\ q.alias = TRUE /\ q.clock = TRUE /\ q.ready = "initializing" /\ q.there = row[s].there
            /\ q.mgmt = row[s].mgmt /\ q.epoch >= row[s].epoch
        BY <2>0 DEF Sessions!Row
      <3> HIDE DEF q
      <3> QED BY <2>2, <3>1, <3>2, <3>3 DEF Carries, Sessions!Sound
    <2>3. CASE row[s].there /\ ~row[s].expired
      <3> DEFINE q == [row[s] EXCEPT !.state = "connected", !.bound = IF @ = "none" THEN conn ELSE @]
      <3>1. Sessions!Register(s, conn) = q
        BY <2>3 DEF Sessions!Register
      <3>2. q \in Sessions!Row
        BY <2>0, Zenon DEF Sessions!Row
      <3>3. /\ q.there = row[s].there /\ q.expired = row[s].expired /\ q.alias = row[s].alias
            /\ q.mgmt = row[s].mgmt /\ q.epoch = row[s].epoch /\ row[s].epoch \in Nat
        BY <2>0 DEF Sessions!Row
      <3> HIDE DEF q
      <3> QED BY <2>0, <2>3, <3>1, <3>2, <3>3 DEF Carries, Sessions!Sound
    <2> QED BY <2>1, <2>2, <2>3
  <1>6. ASSUME NEW s \in Visible, NEW conn PROVE Carries(row[s], Sessions!Closed(s, conn))
    <2> DEFINE q == [row[s] EXCEPT !.state = "disconnected", !.bound = "none"]
    <2>0. row[s] \in Sessions!Row /\ Sessions!Sound(row[s])
      BY <1>0
    <2>1. Sessions!Closed(s, conn) = q \/ Sessions!Closed(s, conn) = row[s]
      BY DEF Sessions!Closed
    <2>2. q \in Sessions!Row
      BY <2>0, Zenon DEF Sessions!Row
    <2>3. /\ q.there = row[s].there /\ q.expired = row[s].expired /\ q.alias = row[s].alias
          /\ q.mgmt = row[s].mgmt /\ q.epoch = row[s].epoch /\ row[s].epoch \in Nat
      BY <2>0 DEF Sessions!Row
    <2> HIDE DEF q
    <2>4. Carries(row[s], q)
      BY <2>0, <2>2, <2>3 DEF Carries, Sessions!Sound
    <2> QED BY <1>1, <2>0, <2>1, <2>4
  <1>7. ASSUME NEW r, NEW q, NEW b \in BOOLEAN, Carries(r, q) PROVE Carries(r, [q EXCEPT !.live = b])
    BY <1>7 DEF Carries, Sessions!Row, Sessions!Sound
  <1>a. ASSUME NEW r \in Sessions!Row, Sessions!Sound(r)
        PROVE  Carries(r, [r EXCEPT !.mgmt = "active"])
    <2>1. [r EXCEPT !.mgmt = "active"] \in Sessions!Row
      BY DEF Sessions!Row
    <2> QED BY <1>a, <2>1 DEF Carries, Sessions!Row, Sessions!Sound
  <1>8. CASE Sessions!BrokerStarts
    <2>1. CASE row' = [s \in Visible |-> Sessions!Import(s)]
      <3>1. \A s \in Visible : Carries(row[s], Sessions!Import(s))
        <4> SUFFICES ASSUME NEW s \in Visible PROVE Carries(row[s], Sessions!Import(s))
          OBVIOUS
        <4> DEFINE q == [Sessions!NoRow EXCEPT !.there = TRUE, !.mgmt = "dormant"]
        <4>1. q \in Sessions!Row /\ q.epoch = 0 /\ q.there = TRUE
          BY Zenon DEF Sessions!NoRow, Sessions!Row
        <4>2. Sessions!Import(s) = row[s] \/ (~row[s].there /\ Sessions!Import(s) = q)
          BY DEF Sessions!Import
        <4> HIDE DEF q
        <4>3. ~row[s].there => Carries(row[s], q)
          BY <1>0, <4>1 DEF Carries, Sessions!Sound
        <4> QED BY <1>0, <1>1, <4>2, <4>3
      <3> QED BY <2>1, <3>1 DEF Carries
    <2> QED BY <1>3, <1>8, <2>1 DEF Sessions!BrokerStarts
  <1>9. ASSUME NEW s \in Visible, NEW src \in Source,
               Sessions!announceSession(s, src) \/ Sessions!McpAnnounces(s, src)
        PROVE  row' \in [Visible -> Sessions!Row] /\ \A t \in Visible : Carries(row[t], row'[t])
    <2>1. row' = row \/ row' = [row EXCEPT ![s].mgmt = "active"]
      BY <1>9 DEF Sessions!announceSession, Sessions!McpAnnounces
    <2> QED BY <1>0, <1>2, <1>3, <1>a, <2>1
  <1>10. ASSUME NEW s \in Visible, Sessions!Expire(s)
         PROVE  row' \in [Visible -> Sessions!Row] /\ \A t \in Visible : Carries(row[t], row'[t])
    <2> DEFINE q == [row[s] EXCEPT !.expired = TRUE, !.ready = "disconnected", !.alias = FALSE, !.live = FALSE]
    <2>0. row[s] \in Sessions!Row
      BY <1>0
    <2>1. q \in Sessions!Row
      BY <2>0, Zenon DEF Sessions!Row
    <2>2. /\ q.expired = TRUE /\ q.there = row[s].there
          /\ q.mgmt = row[s].mgmt /\ q.epoch = row[s].epoch /\ row[s].epoch \in Nat
      BY <2>0 DEF Sessions!Row
    <2>3. row' = [row EXCEPT ![s] = q] /\ row[s].there
      BY <1>10, Zenon DEF Sessions!Expire
    <2> HIDE DEF q
    <2>4. Carries(row[s], q)
      BY <2>1, <2>2, <2>3 DEF Carries, Sessions!Sound
    <2> QED BY <1>2, <2>3, <2>4, Zenon
  <1>11. ASSUME NEW s \in Visible, Sessions!RenameSession(s)
         PROVE  row' \in [Visible -> Sessions!Row] /\ \A t \in Visible : Carries(row[t], row'[t])
    <2> DEFINE ready == IF row[s].expired THEN "initializing" ELSE row[s].ready
               q == [row[s] EXCEPT !.expired = FALSE, !.clock = TRUE, !.ready = ready,
                                   !.alias = @ \/ row[s].expired]
    <2>0. row[s] \in Sessions!Row /\ Sessions!Sound(row[s])
      BY <1>0
    <2>1. q \in Sessions!Row
      <3>1. row[s].alias \/ row[s].expired \in BOOLEAN
        BY <2>0 DEF Sessions!Row
      <3>2. ready \in {"initializing", "ready_checkpoint", "disconnected"}
        BY <2>0 DEF Sessions!Row
      <3> HIDE DEF ready
      <3> QED BY <2>0, <3>1, <3>2, Zenon DEF Sessions!Row
    <2>2. /\ q.there = row[s].there /\ q.expired = FALSE /\ q.clock = TRUE /\ q.ready = ready
          /\ q.mgmt = row[s].mgmt /\ q.epoch = row[s].epoch /\ row[s].epoch \in Nat
      BY <2>0 DEF Sessions!Row
    <2>3. row[s].alias \/ row[s].expired => q.alias
      BY <2>0 DEF Sessions!Row
    <2>4. row' = [row EXCEPT ![s] = q]
      BY <1>11, Zenon DEF Sessions!RenameSession
    <2> HIDE DEF q
    <2>5. Carries(row[s], q)
      BY <2>0, <2>1, <2>2, <2>3 DEF Carries, Sessions!Sound
    <2> QED BY <1>2, <2>4, <2>5, Zenon
  <1>12. ASSUME NEW s \in Visible, Sessions!SignalReadiness(s)
         PROVE  row' \in [Visible -> Sessions!Row] /\ \A t \in Visible : Carries(row[t], row'[t])
    <2>0. row[s].there /\ row[s].epoch = mcp[s].epoch
      BY <1>12 DEF Sessions!SignalReadiness, Sessions!Authorised
    <2>1. Carries(row[s], [row[s] EXCEPT !.ready = "ready_checkpoint"])
      BY <1>0 DEF Carries, Sessions!Row, Sessions!Sound
    <2> QED BY <1>2, <1>12, <2>1, Zenon DEF Sessions!SignalReadiness
  <1>13. ASSUME NEW s \in Visible,
                Sessions!OperatorRemoveRecord(s) \/ Sessions!McpRegisters(s) \/ Sessions!McpCloses(s)
         PROVE  row' \in [Visible -> Sessions!Row] /\ \A t \in Visible : Carries(row[t], row'[t])
    <2>1. CASE Sessions!OperatorRemoveRecord(s)
      BY <1>0, <1>2, <1>4, <2>1, Zenon DEF Sessions!OperatorRemoveRecord
    <2>2. CASE Sessions!McpRegisters(s)
      <3>1. Carries(row[s], [Sessions!Register(s, "mcp") EXCEPT !.live = TRUE])
        BY <1>5, <1>7, Zenon
      <3> QED BY <1>2, <2>2, <3>1, Zenon DEF Sessions!McpRegisters
    <2>3. CASE Sessions!McpCloses(s)
      <3>1. Carries(row[s], [Sessions!Closed(s, "mcp") EXCEPT !.live = FALSE])
        BY <1>6, <1>7, Zenon
      <3> QED BY <1>2, <1>3, <2>3, <3>1, Zenon DEF Sessions!McpCloses
    <2> QED BY <1>13, <2>1, <2>2, <2>3
  <1>14. ASSUME NEW h \in Hook, Sessions!HookSteps(h)
         PROVE  row' \in [Visible -> Sessions!Row] /\ \A t \in Visible : Carries(row[t], row'[t])
    <2>1. CASE Sessions!Connect(h)
      BY <1>3, <2>1 DEF Sessions!Connect
    <2>2. CASE Sessions!HookRegisters(h)
      BY <1>2, <1>5, <2>2, Zenon DEF Sessions!HookRegisters
    <2>3. CASE Sessions!HookAnnounces(h)
      <3>1. row' = row \/ row' = [row EXCEPT ![hook[h].s].mgmt = "active"]
        BY <2>3 DEF Sessions!HookAnnounces, Sessions!announceSession
      <3>2. CASE row' = [row EXCEPT ![hook[h].s].mgmt = "active"]
        <4>1. hook[h].s \in Visible => Carries(row[hook[h].s], [row[hook[h].s] EXCEPT !.mgmt = "active"])
          BY <1>0, <1>a
        <4> QED BY <1>2, <3>2, <4>1, Zenon
      <3> QED BY <1>3, <3>1, <3>2
    <2>4. CASE Sessions!HookExits(h)
      BY <1>2, <1>3, <1>6, <2>4 DEF Sessions!HookExits
    <2> QED BY <1>14, <2>1, <2>2, <2>3, <2>4 DEF Sessions!HookSteps
  <1>15. CASE \/ Sessions!BrokerEnds \/ UNCHANGED sessionVars
              \/ \E s \in Visible : \/ \E how \in {"id", "alias"} : Sessions!Send(s, how)
                                   \/ \E h \in Hook, src \in Source : Sessions!Launch(h, s, src)
    BY <1>3, <1>15, Zenon DEF Sessions!BrokerEnds, Sessions!Send, Sessions!Launch, sessionVars
  <1> QED BY <1>8, <1>9, <1>10, <1>11, <1>12, <1>13, <1>14, <1>15 DEF Sessions!Next

(* A birth is recorded once: started counts to one.                        *)
LEMMA BirthIsCounted ==
  ASSUME Sessions!Inv, Sessions!Next \/ UNCHANGED sessionVars
  PROVE  started' \in [Visible -> {0, 1}]
  <1>0. started \in [Visible -> {0, 1}]
    BY DEF Sessions!Inv
  <1>1. ASSUME NEW s, NEW src, Sessions!announceSession(s, src) PROVE started' \in [Visible -> {0, 1}]
    BY <1>0, <1>1 DEF Sessions!announceSession
  <1>2. CASE \/ \E s \in Visible, src \in Source : Sessions!McpAnnounces(s, src)
             \/ \E h \in Hook : Sessions!HookAnnounces(h)
    BY <1>1, <1>2, Zenon DEF Sessions!McpAnnounces, Sessions!HookAnnounces
  <1>3. CASE UNCHANGED started
    BY <1>0, <1>3
  <1> QED BY <1>2, <1>3, Zenon DEF Sessions!Next, sessionVars, Sessions!BrokerStarts, Sessions!BrokerEnds,
        Sessions!Expire, Sessions!OperatorRemoveRecord, Sessions!McpRegisters, Sessions!McpCloses,
        Sessions!SignalReadiness, Sessions!RenameSession, Sessions!Send, Sessions!Launch,
        Sessions!HookSteps, Sessions!Connect, Sessions!HookRegisters, Sessions!HookExits

(* No session is known at first.                                           *)
LEMMA SessionsBegin ==
  ASSUME Sessions!Init
  PROVE  Sessions!Inv
  BY DEF Sessions!Init, Sessions!Inv, Sessions!Row, Sessions!NoRow, Sessions!Sound

(* Every step keeps the invariant and is of the kind the properties allow. *)
LEMMA SessionsKeepInv ==
  ASSUME Sessions!Inv, Sessions!Next \/ UNCHANGED sessionVars
  PROVE  /\ Sessions!Inv' /\ Sessions!OneBirth' /\ Sessions!ReadyIsAddressable'
         /\ Sessions!ResurrectionIsCompleteStep /\ Sessions!ImportSparesKnownStep
  <1>1. started' \in [Visible -> {0, 1}]
    BY BirthIsCounted
  <1>2. Sessions!OneBirth'
    BY <1>1 DEF Sessions!OneBirth
  <1>3. row' \in [Visible -> Sessions!Row] /\ \A s \in Visible : Carries(row[s], row'[s])
    BY SessionRowsCarry
  <1>4. Sessions!ReadyIsAddressable'
    BY <1>3 DEF Carries, Sessions!Sound, Sessions!ReadyIsAddressable, Sessions!deriveSessionLabel
  <1>5. Sessions!ResurrectionIsCompleteStep /\ Sessions!ImportSparesKnownStep
    BY <1>3 DEF Carries, Sessions!ResurrectionIsCompleteStep, Sessions!ImportSparesKnownStep
  <1>6. Sessions!Inv'
    BY <1>1, <1>3 DEF Sessions!Inv, Carries
  <1> QED BY <1>2, <1>4, <1>5, <1>6

-----------------------------------------------------------------------------
(* Launches for sessions, pids that are given away, restarts.              *)
Children == INSTANCE ManagedChildren WITH None <- Null, holder <- owner

(* No child was launched at first.                                         *)
LEMMA ChildrenBegin ==
  ASSUME Children!Init
  PROVE  Children!Inv
  BY DEF Children!Init, Children!NoChild, Children!Inv, Children!Typed, Children!Unreaped,
         Children!PidsAreHeld, Children!HandlesAreLive, Children!HitsWereLaunched

(* Every step of broker, children and operating system keeps it.           *)
LEMMA ChildrenKeepInv ==
  ASSUME Children!Inv, Children!Next \/ UNCHANGED childVars
  PROVE  Children!Inv'
  <1> USE DEF Children!Inv, Children!Typed, Children!Unreaped
  <1> Null \notin Child /\ Stranger \notin Child /\ Null # Stranger
    BY ChildAssumption
  <1>1. ASSUME NEW s \in Session, NEW k \in Child, NEW p \in Pid, Children!spawnManagedSession(s, k, p)
        PROVE  Children!Inv'
    <2> USE <1>1 DEF Children!spawnManagedSession, Children!recordManagedSession, Children!registerManagedChild
    <2>1. Children!Typed'
      OBVIOUS
    <2>2. of'[k].session = s /\ of'[k].pid = p /\ proc'[k] = "running" /\ owner'[p] = k
      OBVIOUS
    <2>3. \A j \in Child \ {k} : of'[j] = of[j] /\ proc'[j] = proc[j]
      OBVIOUS
    <2>4. Children!PidsAreHeld'
      BY <2>2, <2>3 DEF Children!PidsAreHeld
    <2>5. Children!HandlesAreLive'
      BY <2>2, <2>3 DEF Children!HandlesAreLive
    <2>6. Children!HitsWereLaunched'
      BY <2>2, <2>3 DEF Children!HitsWereLaunched
    <2> QED BY <2>1, <2>4, <2>5, <2>6
  <1>2. ASSUME NEW k \in Child, Children!Exit(k) PROVE Children!Inv'
    <2>1. CASE k \in watched
      <3>1. proc[k] = "running" /\ proc' = [proc EXCEPT ![k] = "zombie"]
            /\ UNCHANGED <<owner, of, marker, handle, watched, hit>>
        BY <1>2, <2>1 DEF Children!Exit
      <3>2. Children!Typed' /\ Children!PidsAreHeld'
        BY <3>1 DEF Children!PidsAreHeld
      <3>3. Children!HandlesAreLive' /\ Children!HitsWereLaunched'
        BY <3>1 DEF Children!HandlesAreLive, Children!HitsWereLaunched
      <3> QED BY <3>2, <3>3
    <2>2. CASE k \notin watched
      <3>1. /\ proc' = [proc EXCEPT ![k] = "exited"]
            /\ owner' = [owner EXCEPT ![of[k].pid] = Null]
            /\ UNCHANGED <<of, marker, handle, watched, hit>>
            /\ of[k].pid \in Pid /\ owner[of[k].pid] = k
        BY <1>2, <2>2 DEF Children!Exit, Children!PidsAreHeld
      <3>2. Children!Typed'
        BY <3>1
      <3>3. Children!PidsAreHeld'
        BY <3>1 DEF Children!PidsAreHeld
      <3>4. Children!HandlesAreLive' /\ Children!HitsWereLaunched'
        BY <2>2, <3>1 DEF Children!HandlesAreLive, Children!HitsWereLaunched
      <3> QED BY <3>2, <3>3, <3>4
    <2> QED BY <2>1, <2>2
  <1>3. ASSUME NEW k \in Child, Children!OnExit(k) PROVE Children!Inv'
    <2>1. /\ proc[k] = "zombie" /\ proc' = [proc EXCEPT ![k] = "exited"]
          /\ owner' = [owner EXCEPT ![of[k].pid] = Null]
          /\ watched' = watched \ {k}
          /\ handle' = [handle EXCEPT ![of[k].session] = Null]
          /\ marker' = [marker EXCEPT ![of[k].session] = Null]
          /\ UNCHANGED <<of, hit>>
          /\ of[k].pid \in Pid /\ of[k].session \in Session /\ owner[of[k].pid] = k
      BY <1>3 DEF Children!OnExit, Children!cleared, Children!PidsAreHeld
    <2>2. Children!Typed'
      BY <2>1
    <2>3. Children!PidsAreHeld'
      BY <2>1 DEF Children!PidsAreHeld
    <2>4. Children!HandlesAreLive' /\ Children!HitsWereLaunched'
      BY <2>1 DEF Children!HandlesAreLive, Children!HitsWereLaunched
    <2> QED BY <2>2, <2>3, <2>4
  <1>4. ASSUME NEW s \in Session, Children!stopManaged(s) PROVE Children!Inv'
    <2>1. /\ marker' = [marker EXCEPT ![s] = Null] /\ handle' = [handle EXCEPT ![s] = Null]
          /\ UNCHANGED <<proc, of, owner, watched>>
      BY <1>4 DEF Children!stopManaged, Children!clearManagedSession, Children!cleared
    <2>2. Children!Typed' /\ Children!PidsAreHeld' /\ Children!HandlesAreLive'
      BY <2>1 DEF Children!PidsAreHeld, Children!HandlesAreLive
    <2>3. CASE Children!Killable(s)
      <3>1. handle[s] \in Child /\ of[handle[s]].session = s /\ Children!Unreaped(handle[s])
        BY <2>3 DEF Children!Killable, Children!HandlesAreLive
      <3>2. owner[of[marker[s]].pid] = handle[s]
        BY <2>3, <3>1 DEF Children!Killable, Children!PidsAreHeld
      <3>3. hit' = hit \cup {<<s, handle[s]>>}
        BY <1>4, <2>3, <3>2 DEF Children!stopManaged
      <3> QED BY <2>1, <2>2, <3>1, <3>3 DEF Children!HitsWereLaunched
    <2>4. CASE ~Children!Killable(s)
      <3>1. hit' = hit
        BY <1>4, <2>4 DEF Children!stopManaged
      <3> QED BY <2>1, <2>2, <3>1 DEF Children!HitsWereLaunched
    <2> QED BY <2>3, <2>4
  <1>5. ASSUME NEW p \in Pid, Children!TakePid(p) \/ Children!FreePid(p) PROVE Children!Inv'
    <2>1. /\ owner[p] \in {Null, Stranger} /\ \E o \in {Null, Stranger} : owner' = [owner EXCEPT ![p] = o]
          /\ UNCHANGED <<proc, of, marker, handle, watched, stopped, hit>>
      BY <1>5 DEF Children!TakePid, Children!FreePid
    <2>2. Children!Typed'
      BY <2>1
    <2>3. Children!PidsAreHeld'
      BY <2>1 DEF Children!PidsAreHeld
    <2>4. Children!HandlesAreLive' /\ Children!HitsWereLaunched'
      BY <2>1 DEF Children!HandlesAreLive, Children!HitsWereLaunched
    <2> QED BY <2>2, <2>3, <2>4
  <1>6. CASE Children!RestartBroker
    <2> USE <1>6 DEF Children!RestartBroker
    <2>1. Children!Typed'
      OBVIOUS
    <2>2. Children!PidsAreHeld'
      BY DEF Children!PidsAreHeld
    <2>3. Children!HandlesAreLive' /\ Children!HitsWereLaunched'
      BY DEF Children!HandlesAreLive, Children!HitsWereLaunched
    <2> QED BY <2>1, <2>2, <2>3
  <1>7. CASE UNCHANGED childVars
    BY <1>7 DEF childVars, Children!PidsAreHeld, Children!HandlesAreLive, Children!HitsWereLaunched
  <1> QED BY <1>1, <1>2, <1>3, <1>4, <1>5, <1>6, <1>7 DEF Children!Next

(* The invariant says what the two properties say.                         *)
LEMMA ChildrenAreHit ==
  ASSUME Children!Inv
  PROVE  Children!KillsOnlyItsChild /\ Children!HandleIsOfAProcess
  <1>1. Children!KillsOnlyItsChild
    BY DEF Children!Inv, Children!HitsWereLaunched, Children!KillsOnlyItsChild
  <1>2. Children!HandleIsOfAProcess
    BY ChildAssumption
    DEF Children!Inv, Children!Typed, Children!HandlesAreLive, Children!PidsAreHeld, Children!Unreaped,
        Children!HandleIsOfAProcess
  <1> QED BY <1>1, <1>2

-----------------------------------------------------------------------------
(* `xbus stop` and the installer against brokers that may die.             *)
Halt == INSTANCE Shutdown WITH
  Broker <- Host, Stop <- Stopper, Setup <- Installer, None <- Null, MaxKill <- MaxEnded,
  file <- named_file, recycled <- gone, kills <- ended

(* Nobody has signalled anything at first.                                 *)
LEMMA HaltBegins ==
  ASSUME Halt!Init
  PROVE  Halt!Inv
  BY DEF Halt!Init, Halt!Idle, Halt!Inv, Halt!Committed, Halt!Places, Halt!Callers, Halt!Lives,
         Halt!Decided, Halt!NamesWereRead, Halt!SignalsOnlyProven, Halt!StopsOnlyNamed

(* The decision to ask over IPC is a proof that the named broker runs.     *)
LEMMA IpcIsProof ==
  ASSUME named_file \in Host \cup {Null}, foreign \subseteq Host
  PROVE  /\ Halt!classifyShutdown \in Halt!Places
         /\ Halt!classifyShutdown \in Halt!Committed => /\ Halt!classifyShutdown = "ipc"
                                              /\ named_file \in Host \ foreign /\ Halt!Running(named_file)
  <1> Null \notin Host
    BY HostAssumption
  <1>1. ASSUME NEW b \in Host
        PROVE  /\ Halt!classifyLiveness(b) \in {"proven_dead_or_recycled", "proven_live_broker", "inconclusive"}
               /\ Halt!classifyLiveness(b) = "proven_live_broker" => Halt!Running(b)
    BY DEF Halt!classifyLiveness
  <1>2. CASE named_file = Null
    <2>1. Halt!classifyShutdown = "none"
      BY <1>2 DEF Halt!classifyShutdown
    <2> QED BY <2>1 DEF Halt!Committed, Halt!Places
  <1>3. CASE named_file \in foreign
    <2>1. Halt!classifyShutdown = "refuse"
      BY <1>3 DEF Halt!classifyShutdown
    <2> QED BY <2>1 DEF Halt!Committed, Halt!Places
  <1>4. CASE named_file \in Host \ foreign
    <2>1. /\ Halt!classifyLiveness(named_file) = "proven_dead_or_recycled" => Halt!classifyShutdown = "stale"
          /\ Halt!classifyLiveness(named_file) = "inconclusive" => Halt!classifyShutdown = "refuse"
          /\ Halt!classifyLiveness(named_file) = "proven_live_broker" => Halt!classifyShutdown = "ipc"
      BY <1>4, SMTT(60) DEF Halt!classifyShutdown
    <2> QED BY <1>1, <1>4, <2>1 DEF Halt!Committed, Halt!Places
  <1> QED BY <1>2, <1>3, <1>4

(* Every step of brokers, callers and operating system keeps it.           *)
LEMMA HaltKeepsInv ==
  ASSUME Halt!Inv, Halt!Next \/ UNCHANGED stopVars
  PROVE  Halt!Inv'
  <1> USE DEF Halt!Inv
  <1> Null \notin Host
    BY HostAssumption
  <1>a. ASSUME NEW c \in Halt!Caller, NEW place \in Halt!Places, Halt!Goto(c, place), place # "asking",
               place \in Halt!Committed => caller[c].at \in Halt!Committed,
               UNCHANGED <<foreign, named, proven>>
        PROVE  /\ caller' \in Halt!Callers
               /\ Halt!Decided' /\ Halt!NamesWereRead'
    BY <1>a, SMTT(60) DEF Halt!Goto, Halt!Callers, Halt!Decided, Halt!NamesWereRead
  <1>1. ASSUME NEW b \in Host,
               Halt!StartBroker(b) \/ Halt!WriteState(b) \/ Halt!BecomeUnreachable(b) \/ Halt!DoStop(b) \/ Halt!EndWithoutCleanup(b)
               \/ Halt!RecyclePid(b)
        PROVE  Halt!Inv'
    <2>1. UNCHANGED <<foreign, caller, named, proven, signalled>>
      BY <1>1 DEF Halt!StartBroker, Halt!WriteState, Halt!BecomeUnreachable, Halt!DoStop, Halt!EndWithoutCleanup, Halt!RecyclePid
    <2>2. \/ life' = life
          \/ \E l \in {"bound", "up", "unreachable", "gone"} : life' = [life EXCEPT ![b] = l]
      BY <1>1 DEF Halt!StartBroker, Halt!WriteState, Halt!BecomeUnreachable, Halt!DoStop, Halt!EndWithoutCleanup, Halt!RecyclePid, Halt!Become
    <2>3. named_file' \in Host \cup {Null}
      BY <1>1 DEF Halt!StartBroker, Halt!WriteState, Halt!BecomeUnreachable, Halt!DoStop, Halt!EndWithoutCleanup, Halt!RecyclePid
    <2>4. life' \in [Host -> Halt!Lives] /\ Halt!StopsOnlyNamed'
      BY <2>1, <2>2 DEF Halt!Lives, Halt!StopsOnlyNamed
    <2> QED BY <2>1, <2>3, <2>4 DEF Halt!Callers, Halt!Decided, Halt!NamesWereRead, Halt!SignalsOnlyProven
  <1>2. ASSUME NEW c \in Halt!Caller, Halt!Classify(c) PROVE Halt!Inv'
    <2>1. /\ caller' = [caller EXCEPT ![c] = [at |-> Halt!classifyShutdown, pid |-> named_file, name |-> Null]]
          /\ proven' = IF Halt!classifyShutdown = "ipc" /\ Halt!Running(named_file) THEN proven \cup {named_file} ELSE proven
          /\ UNCHANGED <<life, foreign, named_file, named, signalled>>
      BY <1>2 DEF Halt!Classify
    <2>2. /\ Halt!classifyShutdown \in Halt!Places
          /\ Halt!classifyShutdown \in Halt!Committed => /\ Halt!classifyShutdown = "ipc"
                                               /\ named_file \in Host \ foreign /\ Halt!Running(named_file)
      BY IpcIsProof
    <2>3. caller' \in Halt!Callers
      BY <2>1, <2>2 DEF Halt!Callers
    <2>4. proven \subseteq proven' /\ proven' \subseteq Host
      BY <2>1, <2>2 DEF Halt!Committed
    <2>5. Halt!Decided'
      BY <2>1, <2>2, <2>4 DEF Halt!Decided, Halt!Callers
    <2>6. Halt!NamesWereRead'
      BY <2>1, SMTT(60) DEF Halt!NamesWereRead, Halt!Callers
    <2> QED BY <2>1, <2>3, <2>4, <2>5, <2>6 DEF Halt!SignalsOnlyProven, Halt!StopsOnlyNamed
  <1>3. ASSUME NEW c \in Halt!Caller, Halt!NothingToStop(c) \/ Halt!Refuse(c) \/ Halt!AskFails(c) \/ Halt!PidGone(c) \/ Halt!DidNotExit(c)
        PROVE  Halt!Inv'
    <2>1. /\ UNCHANGED <<life, foreign, named, proven, signalled>> /\ named_file' \in {named_file, Null}
          /\ \/ \E place \in {"free", "refused"} : Halt!Goto(c, place)
             \/ caller[c].at = "asking" /\ Halt!Goto(c, "waiting")
      BY <1>3, SMTT(60) DEF Halt!NothingToStop, Halt!Refuse, Halt!AskFails, Halt!PidGone, Halt!DidNotExit
    <2>2. /\ caller' \in Halt!Callers
          /\ Halt!Decided' /\ Halt!NamesWereRead'
      BY <1>a, <2>1 DEF Halt!Committed, Halt!Places
    <2>3. foreign' \subseteq Host /\ proven' \subseteq Host /\ named_file' \in Host \cup {Null}
      BY <2>1
    <2>4. life' \in [Host -> Halt!Lives] /\ Halt!SignalsOnlyProven' /\ Halt!StopsOnlyNamed'
      BY <2>1 DEF Halt!SignalsOnlyProven, Halt!StopsOnlyNamed
    <2> QED BY ONLY <2>2, <2>3, <2>4, Zenon DEF Halt!Inv
  <1>4. ASSUME NEW c \in Halt!Caller, Halt!ReadName(c) PROVE Halt!Inv'
    <2>1. /\ caller[c].at = "ipc" /\ named' = named \cup ({named_file} \ {Null})
          /\ caller' = [caller EXCEPT ![c].at = "asking", ![c].name = named_file]
          /\ UNCHANGED <<life, foreign, named_file, proven, signalled>>
      BY <1>4 DEF Halt!ReadName
    <2>2. caller' \in Halt!Callers
      <3>1. caller'[c] = [caller[c] EXCEPT !.at = "asking", !.name = named_file]
        BY <2>1 DEF Halt!Callers
      <3>2. caller'[c] \in [at : Halt!Places, pid : Host \cup {Null}, name : Host \cup {Null}]
        BY <3>1, Zenon DEF Halt!Callers, Halt!Places, Halt!Committed
      <3> QED BY <2>1, <3>2 DEF Halt!Callers
    <2>3. Halt!Decided'
      BY <2>1 DEF Halt!Decided, Halt!Committed, Halt!Callers
    <2>4. Halt!NamesWereRead'
      BY <2>1 DEF Halt!NamesWereRead, Halt!Callers
    <2> QED BY <2>1, <2>2, <2>3, <2>4 DEF Halt!SignalsOnlyProven, Halt!StopsOnlyNamed
  <1>5. ASSUME NEW c \in Halt!Caller, NEW b \in Host, Halt!onShutdown(c, b) PROVE Halt!Inv'
    <2>1. /\ caller[c].at = "asking" /\ UNCHANGED <<foreign, named_file, named, proven, signalled>>
          /\ \E place \in {"stopped", "waiting", "refused"} : Halt!Goto(c, place)
          /\ life' = life \/ (caller[c].name = b /\ life' = [life EXCEPT ![b] = "closing"])
      BY <1>5 DEF Halt!onShutdown, Halt!Become
    <2>2. /\ caller' \in Halt!Callers
          /\ Halt!Decided' /\ Halt!NamesWereRead'
      BY <1>a, <2>1 DEF Halt!Committed, Halt!Places
    <2>3. Halt!StopsOnlyNamed'
      BY <2>1 DEF Halt!StopsOnlyNamed, Halt!NamesWereRead
    <2>4. life' \in [Host -> Halt!Lives]
      BY <2>1 DEF Halt!Lives
    <2> QED BY <2>1, <2>2, <2>3, <2>4 DEF Halt!SignalsOnlyProven
  <1>6. ASSUME NEW c \in Halt!Caller, Halt!Signal(c) PROVE Halt!Inv'
    <2>1. /\ caller[c].at = "waiting" /\ UNCHANGED <<foreign, named_file, named, proven>>
          /\ \E h : signalled' = signalled \cup {<<caller[c].pid, h>>}
          /\ \E place \in {"stopped", "signalled"} : Halt!Goto(c, place)
          /\ life' = life \/ life' = [life EXCEPT ![caller[c].pid] = "terminated"]
      BY <1>6, Zenon DEF Halt!Signal, Halt!Become
    <2>2. caller[c].pid \in proven \ foreign
      BY <2>1 DEF Halt!Decided, Halt!Committed
    <2>3. /\ caller' \in Halt!Callers
          /\ Halt!Decided' /\ Halt!NamesWereRead'
      BY <1>a, <2>1 DEF Halt!Committed, Halt!Places
    <2>4. Halt!SignalsOnlyProven' /\ Halt!StopsOnlyNamed'
      BY <2>1, <2>2 DEF Halt!SignalsOnlyProven, Halt!StopsOnlyNamed
    <2>5. life' \in [Host -> Halt!Lives]
      BY <2>1 DEF Halt!Lives
    <2>6. foreign' \subseteq Host /\ proven' \subseteq Host /\ named_file' \in Host \cup {Null}
      BY <2>1
    <2> QED BY ONLY <2>3, <2>4, <2>5, <2>6, Zenon DEF Halt!Inv
  <1>7. CASE UNCHANGED stopVars
    BY <1>7 DEF stopVars, Halt!Callers, Halt!Decided, Halt!NamesWereRead, Halt!SignalsOnlyProven, Halt!StopsOnlyNamed
  <1> QED
    BY <1>1, <1>2, <1>3, <1>4, <1>5, <1>6, <1>7
    DEF Halt!Next, Halt!CallerStep, Halt!BrokerStep, Halt!cmdStop, Halt!stopOwnedBrokerForUpgrade

-----------------------------------------------------------------------------
(* One session, its connections, and what is reported of it.               *)
Routes == INSTANCE Routing WITH row <- sessionRow, signalled <- lastSignal, MaxEpoch <- MaxTakeover

(* The session is not known at first.                                      *)
LEMMA RoutesBegin ==
  ASSUME Routes!Init
  PROVE  Routes!Inv
  BY RouteAssumption
  DEF Routes!Init, Routes!Inv, Routes!TypeOK, Routes!ReadyWasSignalled, Routes!READY_STATES, Routes!Readiness,
      Routes!NoRow, Routes!Shut, Routes!Absent, Routes!Row, Routes!Auth

(* What a signal can make of a session (resolveReadiness in readiness.ts). *)
LEMMA SignalResolves ==
  ASSUME NEW mode, NEW ack, NEW h
  PROVE  Routes!resolveReadiness(mode, ack, h) \in Routes!Readiness
  BY DEF Routes!resolveReadiness, Routes!Readiness

(* Every code of setControl is one the column may hold. *)
LEMMA ControlCodes == \A mode : Routes!setControl(mode) \in -1 .. 3
  BY DEF Routes!setControl

(* A connection that has registered is a connection (onRegister). *)
LEMMA RouteOpens ==
  ASSUME Routes!TypeOK, NEW c \in Conn, NEW role \in {"mcp", "hook"}, NEW e \in 0 .. MaxTakeover, NEW base \in SUBSET Conn,
         Routes!Open(c, e, role), Routes!Live(base, c, role)
  PROVE  auth' \in [Conn -> Routes!Auth] /\ live' \subseteq Conn /\ UNCHANGED <<receiving, lastSignal, crashes>>
  <1>1. [open |-> TRUE, epoch |-> e, role |-> role] \in Routes!Auth
    BY DEF Routes!Auth
  <1>2. auth \in [Conn -> Routes!Auth]
    BY DEF Routes!TypeOK
  <1> QED BY <1>1, <1>2 DEF Routes!Open, Routes!Live

(* What is left to show of a registration: its row. *)
LEMMA RouteRowSuffices ==
  ASSUME Routes!Inv, sessionRow' \in Routes!Row, sessionRow'.ready \in Routes!READY_STATES => lastSignal = sessionRow'.epoch,
         auth' \in [Conn -> Routes!Auth], live' \subseteq Conn, UNCHANGED <<receiving, lastSignal, crashes>>
  PROVE  Routes!Inv'
  BY DEF Routes!Inv, Routes!TypeOK, Routes!ReadyWasSignalled

(* The first registration of a session (register in store.ts). *)
LEMMA FirstKeepsRoute ==
  ASSUME Routes!Inv, NEW c \in Conn, NEW role \in {"mcp", "hook"}, NEW mode \in {"hook_checkpoint", "live"},
         NEW ack \in BOOLEAN, Routes!RegisterFirst(c, role, mode, ack)
  PROVE  Routes!Inv'
  <1>1. sessionRow' = [there |-> TRUE, state |-> "connected", bound |-> c, epoch |-> 1, ready |-> "initializing",
                expired |-> FALSE, mode |-> mode, ack |-> ack]
    BY DEF Routes!RegisterFirst, Routes!NoRow
  <1>2. 1 \in 0 .. MaxTakeover
    BY RouteAssumption
  <1>3. auth' \in [Conn -> Routes!Auth] /\ live' \subseteq Conn /\ UNCHANGED <<receiving, lastSignal, crashes>>
    BY <1>2, RouteOpens DEF Routes!Inv, Routes!TypeOK, Routes!RegisterFirst
  <1>4. sessionRow' \in Routes!Row /\ sessionRow'.ready \notin Routes!READY_STATES
    BY <1>1, <1>2 DEF Routes!Row, Routes!Readiness, Routes!READY_STATES
  <1> QED BY <1>3, <1>4, RouteRowSuffices

(* A takeover or a resume: the readiness waits for a signal. *)
LEMMA FreshKeepsRoute ==
  ASSUME Routes!Inv, NEW c \in Conn, NEW role \in {"mcp", "hook"}, Routes!RegisterFresh(c, role)
  PROVE  Routes!Inv'
  <1>1. sessionRow \in Routes!Row
    BY DEF Routes!Inv, Routes!TypeOK
  <1>2. sessionRow.epoch + 1 \in 0 .. MaxTakeover
    BY <1>1, RouteAssumption DEF Routes!RegisterFresh, Routes!Row
  <1>3. auth' \in [Conn -> Routes!Auth] /\ live' \subseteq Conn /\ UNCHANGED <<receiving, lastSignal, crashes>>
    BY <1>2, RouteOpens DEF Routes!Inv, Routes!RegisterFresh
  <1>4. sessionRow' = [there |-> sessionRow.there, state |-> "connected", bound |-> sessionRow.bound,
                       epoch |-> sessionRow.epoch + 1, ready |-> "initializing", expired |-> FALSE,
                       mode |-> sessionRow.mode, ack |-> sessionRow.ack]
    BY <1>1 DEF Routes!RegisterFresh, Routes!Row
  <1>5. sessionRow' \in Routes!Row /\ sessionRow'.ready \notin Routes!READY_STATES
    BY <1>1, <1>2, <1>4 DEF Routes!Row, Routes!Readiness, Routes!READY_STATES
  <1> QED BY <1>3, <1>5, RouteRowSuffices

(* A join: readiness and epoch stay. *)
LEMMA JoinKeepsRoute ==
  ASSUME Routes!Inv, NEW c \in Conn, NEW role \in {"mcp", "hook"}, Routes!RegisterJoin(c, role)
  PROVE  Routes!Inv'
  <1>1. sessionRow \in Routes!Row /\ live \in SUBSET Conn
    BY DEF Routes!Inv, Routes!TypeOK
  <1>2. sessionRow.epoch \in 0 .. MaxTakeover
    BY <1>1 DEF Routes!Row
  <1>3. auth' \in [Conn -> Routes!Auth] /\ live' \subseteq Conn /\ UNCHANGED <<receiving, lastSignal, crashes>>
    BY <1>1, <1>2, RouteOpens DEF Routes!Inv, Routes!RegisterJoin
  <1> DEFINE b == IF sessionRow.bound = Routes!Absent THEN c ELSE sessionRow.bound
  <1>4. sessionRow' = [sessionRow EXCEPT !.state = "connected", !.bound = b] /\ b \in Conn \cup {Routes!Absent}
    BY <1>1 DEF Routes!RegisterJoin, Routes!Row
  <1> HIDE DEF b
  <1>5. sessionRow' \in Routes!Row /\ sessionRow'.ready = sessionRow.ready /\ sessionRow'.epoch = sessionRow.epoch
    BY <1>1, <1>4 DEF Routes!Row
  <1> QED BY <1>3, <1>5, RouteRowSuffices DEF Routes!Inv, Routes!ReadyWasSignalled

(* A signal of the current epoch (signalReadiness in store.ts). *)
LEMMA SignalKeepsRoute ==
  ASSUME Routes!Inv, NEW c \in Conn, NEW h, Routes!SignalReadiness(c, h)
  PROVE  Routes!Inv'
  <1> DEFINE ready == Routes!resolveReadiness(sessionRow.mode, sessionRow.ack, h)
  <1>0. sessionRow \in Routes!Row
    BY DEF Routes!Inv, Routes!TypeOK
  <1>1. ready \in Routes!Readiness
    BY SignalResolves
  <1> HIDE DEF ready
  <1>2. /\ sessionRow' = [sessionRow EXCEPT !.ready = ready] /\ lastSignal' = sessionRow.epoch
        /\ UNCHANGED <<receiving, live, auth, crashes>>
    BY DEF Routes!SignalReadiness, Routes!Current, ready
  <1>3. sessionRow' \in Routes!Row /\ sessionRow'.epoch = sessionRow.epoch /\ sessionRow.epoch \in 0 .. MaxTakeover
    BY <1>0, <1>1, <1>2 DEF Routes!Row
  <1> QED BY <1>2, <1>3 DEF Routes!Inv, Routes!TypeOK, Routes!ReadyWasSignalled

(* Every step of the broker keeps the invariant. *)
LEMMA RoutesKeepInv ==
  ASSUME Routes!Inv, Routes!Next \/ UNCHANGED routeVars
  PROVE  Routes!Inv'
  <1>0. /\ sessionRow \in Routes!Row /\ auth \in [Conn -> Routes!Auth] /\ live \subseteq Conn
        /\ Routes!ReadyWasSignalled
    BY DEF Routes!Inv, Routes!TypeOK
  <1>b. Routes!Shut \in Routes!Auth
    BY RouteAssumption DEF Routes!Shut, Routes!Auth
  <1>1. ASSUME NEW c \in Conn, Routes!onConnClose(c) PROVE Routes!Inv'
    <2>1. sessionRow' \in Routes!Row /\ sessionRow'.ready = sessionRow.ready /\ sessionRow'.epoch = sessionRow.epoch
      BY <1>0, <1>1 DEF Routes!onConnClose, Routes!Row
    <2>2. auth' \in [Conn -> Routes!Auth] /\ live' \subseteq Conn /\ UNCHANGED <<receiving, lastSignal, crashes>>
      BY <1>0, <1>1, <1>b DEF Routes!onConnClose
    <2> QED BY <1>0, <2>1, <2>2, RouteRowSuffices DEF Routes!ReadyWasSignalled
  <1>2. ASSUME NEW c \in Conn, Routes!RenameSession(c) PROVE Routes!Inv'
    <2>1. UNCHANGED <<receiving, live, auth, lastSignal, crashes>>
      BY <1>2 DEF Routes!RenameSession
    <2>2. /\ sessionRow' \in Routes!Row /\ sessionRow'.epoch = sessionRow.epoch
          /\ sessionRow'.ready \in {sessionRow.ready, "initializing"}
      BY <1>0, <1>2 DEF Routes!RenameSession, Routes!Row, Routes!Readiness
    <2>3. sessionRow'.ready \in Routes!READY_STATES => lastSignal = sessionRow'.epoch
      BY <1>0, <2>2 DEF Routes!READY_STATES, Routes!ReadyWasSignalled
    <2> QED BY <1>0, <2>1, <2>2, <2>3, RouteRowSuffices
  <1>3. ASSUME NEW mode \in Routes!ReceiveControl,
               Routes!OperatorSetControl(mode) \/ \E c \in Conn : Routes!SetControl(c, mode)
        PROVE  Routes!Inv'
    <2>1. receiving' = Routes!setControl(mode) /\ UNCHANGED <<sessionRow, live, auth, lastSignal, crashes>>
      BY <1>3 DEF Routes!OperatorSetControl, Routes!SetControl
    <2>2. receiving' \in -1 .. 3
      BY <2>1, ControlCodes
    <2> QED BY <2>1, <2>2 DEF Routes!Inv, Routes!TypeOK, Routes!ReadyWasSignalled
  <1>4. CASE Routes!reapExpiredSession
    <2>1. live' = {} /\ UNCHANGED <<receiving, auth, lastSignal, crashes>>
      BY <1>4 DEF Routes!reapExpiredSession
    <2>2. sessionRow' \in Routes!Row /\ sessionRow'.ready = "disconnected"
      BY <1>0, <1>4 DEF Routes!reapExpiredSession, Routes!Row, Routes!Readiness
    <2>3. sessionRow'.ready \notin Routes!READY_STATES
      BY <2>2 DEF Routes!READY_STATES
    <2> QED BY <1>0, <2>1, <2>2, <2>3, RouteRowSuffices
  <1>5. CASE Routes!Crash
    <2>1. /\ UNCHANGED <<sessionRow, receiving, live, lastSignal>>
          /\ crashes' \in 0 .. MaxCrash /\ auth' = [c \in Conn |-> Routes!Shut]
      BY <1>5, RouteAssumption DEF Routes!Crash, Routes!Inv, Routes!TypeOK
    <2>2. auth' \in [Conn -> Routes!Auth]
      BY <1>b, <2>1
    <2> QED BY <2>1, <2>2 DEF Routes!Inv, Routes!TypeOK, Routes!ReadyWasSignalled
  <1>6. CASE UNCHANGED routeVars
    BY <1>6 DEF Routes!Inv, Routes!TypeOK, Routes!ReadyWasSignalled, routeVars
  <1> QED BY <1>1, <1>2, <1>3, <1>4, <1>5, <1>6, FirstKeepsRoute, FreshKeepsRoute, JoinKeepsRoute, SignalKeepsRoute
      DEF Routes!Next

(* What is reported has a consumption path the gates of the pulls let pass, *)
(* because a readiness is one of seven words; and the two decoders of the   *)
(* control agree.                                                           *)
LEMMA ReportsFollow ==
  ASSUME Routes!Inv
  PROVE  Routes!PathCanBePulled /\ Routes!ListAgreesWithDashboard
  <1>1. Routes!PathCanBePulled
    BY DEF Routes!Inv, Routes!TypeOK, Routes!Row, Routes!Readiness, Routes!PathCanBePulled, Routes!hasConsumptionPath,
           Routes!isAutonomouslyRoutable, Routes!listSessions, Routes!routingClassOf, Routes!deriveRoutingClass,
           Routes!wakeProbe, Routes!acceptsInjection, Routes!READY_STATES
  <1>2. Routes!ListAgreesWithDashboard
    BY DEF Routes!ListAgreesWithDashboard, Routes!listSessions, Routes!readModel, Routes!routingClassOf,
           Routes!wakeProbe, Routes!getControl, Routes!receiveControlFromCode
  <1> QED BY <1>1, <1>2
=============================================================================
