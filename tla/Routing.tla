------------------------------- MODULE Routing -------------------------------
(***************************************************************************)
(* What the broker tells others about one session: its readiness           *)
(* (broker/readiness.ts), its receive control (broker/controls.ts), the    *)
(* routing class that is derived from them (broker/routing-class.ts), and  *)
(* the four places that report it: the list of sessions, the answer to a   *)
(* send and the caller's own status (broker/daemon.ts), and the dashboard  *)
(* (broker/dashboard/read-model.ts).                                       *)
(*                                                                         *)
(* Sessions share nothing that matters here, so there is one.  It has      *)
(* several connections, each of an MCP server or a hook; connection        *)
(* numbers start again with every broker.  The wake probe has no caller    *)
(* that records a proof and stays unproven.                                *)
(***************************************************************************)
EXTENDS Integers

CONSTANTS Conn,        \* connection numbers
          MaxEpoch,    \* bound: takeovers and resumes
          MaxCrash     \* bound: crashes of the broker

VARIABLES row,         \* the sessions row
          receiving,   \* session_controls.receiving, Absent when there is no row
          live,        \* component_instances: connections of live mcp components
          auth,        \* connAuth: what each open connection registered as
          signalled,   \* epoch of the last signal that was accepted
          crashes

vars == <<row, receiving, live, auth, signalled, crashes>>

Absent == -1
Readiness == {"initializing", "ready_checkpoint", "ready_live", "degraded_ack_unavailable",
              "degraded_hook_unavailable", "incompatible", "disconnected"}
ReceiveControl == {"active", "paused", "do_not_disturb", "manual_checkpoint"}
Hint == {"yes", "no", "unset"}

NoRow == [there |-> FALSE, state |-> "disconnected", bound |-> Absent, epoch |-> 0, ready |-> "initializing",
          expired |-> FALSE, mode |-> "disconnected", ack |-> FALSE]
Shut == [open |-> FALSE, epoch |-> 0, role |-> "none"]

Init == /\ row = NoRow /\ receiving = Absent /\ live = {} /\ auth = [c \in Conn |-> Shut]
        /\ signalled = 0 /\ crashes = 0

(***************************************************************************)
(* Readiness, control, routing class.                                      *)
(***************************************************************************)
READY_STATES == {"ready_checkpoint", "ready_live"}
acceptsInjection(r) == r \in READY_STATES

(* capabilities.includes('ack') unless the hint says otherwise. *)
resolveReadiness(mode, ack, h) ==
  CASE h.versionOk = "no" -> "incompatible"
    [] h.versionOk # "no" /\ (h.ack = "no" \/ (h.ack = "unset" /\ ~ack)) -> "degraded_ack_unavailable"
    [] OTHER -> IF mode = "hook_checkpoint"
                  THEN IF h.hook = "no" THEN "degraded_hook_unavailable" ELSE "ready_checkpoint"
                  ELSE IF h.live = "yes" THEN "ready_live" ELSE "ready_checkpoint"

setControl(mode) ==
  CASE mode = "paused" -> 0 [] mode = "do_not_disturb" -> 2 [] mode = "manual_checkpoint" -> 3 [] OTHER -> 1

getControl(code) ==
  CASE code = 0 -> "paused" [] code = 2 -> "do_not_disturb" [] code = 3 -> "manual_checkpoint" [] OTHER -> "active"

MutReceiveControlFromCode(code) ==  (* Mutant: the codes are the positions in the type. *)
  CASE code = 1 -> "paused" [] code = 2 -> "do_not_disturb" [] code = 3 -> "manual_checkpoint" [] OTHER -> "active"

(* The dashboard's own decoder of the code. *)
receiveControlFromCode(code) ==
  CASE code = 0 -> "paused" [] code = 2 -> "do_not_disturb" [] code = 3 -> "manual_checkpoint" [] OTHER -> "active"

MutDeriveRoutingClass(ready, state, expired, proven, control) ==  (* Mutant: the control is asked before the readiness. *)
  CASE expired \/ state = "disconnected" -> "unavailable"
    [] control # "active" -> IF control = "manual_checkpoint" THEN "degraded_checkpoint_only" ELSE "unavailable"
    [] ready = "initializing" -> "pending_activation"
    [] ready = "ready_live" -> "ready_live"
    [] ready = "ready_checkpoint" -> IF proven THEN "ready_wakeable" ELSE "degraded_checkpoint_only"
    [] OTHER -> "unavailable"

deriveRoutingClass(ready, state, expired, proven, control) ==
  IF expired \/ ready \in {"incompatible", "disconnected"} \/ state = "disconnected" THEN "unavailable"
  ELSE IF ready = "initializing" THEN "pending_activation"
  ELSE IF ready \in {"degraded_ack_unavailable", "degraded_hook_unavailable"} THEN "unavailable"
  ELSE IF control # "active"
    THEN IF control = "manual_checkpoint" THEN "degraded_checkpoint_only" ELSE "unavailable"
  ELSE IF ready = "ready_live" THEN "ready_live"
  ELSE IF proven THEN "ready_wakeable" ELSE "degraded_checkpoint_only"

isAutonomouslyRoutable(class) == class \in {"ready_live", "ready_wakeable"}
hasConsumptionPath(class) == class \in {"ready_live", "ready_wakeable", "degraded_checkpoint_only"}

(* WakeProbeStore: unproven until a proof is recorded. *)
wakeProbe == FALSE

routingClassOf(state) == deriveRoutingClass(row.ready, state, row.expired, wakeProbe, getControl(receiving))

(***************************************************************************)
(* The reports.                                                            *)
(***************************************************************************)
listSessions == routingClassOf(row.state)
status == routingClassOf("connected")
readModel == deriveRoutingClass(row.ready, row.state, row.expired, FALSE, receiveControlFromCode(receiving))

(* onSend: the state the sender is told; the class beside it is that of the list. *)
sendState ==
  CASE row.ready = "initializing" -> "queued_receiver_initializing"
    [] row.ready \in {"degraded_ack_unavailable", "degraded_hook_unavailable"} -> "queued_receiver_degraded"
    [] OTHER -> IF row.mode = "hook_checkpoint" THEN "queued_until_checkpoint" ELSE "queued"

(***************************************************************************)
(* Registration and the end of a connection.                               *)
(***************************************************************************)
Open(c, epoch, role) ==
  /\ auth' = [auth EXCEPT ![c] = [open |-> TRUE, epoch |-> epoch, role |-> role]]
  /\ UNCHANGED <<receiving, signalled, crashes>>

Live(base, c, role) == live' = IF role = "mcp" THEN base \cup {c} ELSE base

RegisterFirst(c, role, mode, ack) ==
  /\ ~auth[c].open /\ ~row.there
  /\ row' = [NoRow EXCEPT !.there = TRUE, !.state = "connected", !.bound = c, !.epoch = 1, !.mode = mode, !.ack = ack]
  /\ Live(live, c, role) /\ Open(c, 1, role)

(* A takeover, or any registration of an expired session; the mode, the    *)
(* capabilities and the bound connection stay.                             *)
RegisterFresh(c, role) ==
  /\ ~auth[c].open /\ row.there /\ row.epoch < MaxEpoch
  /\ row' = [row EXCEPT !.epoch = @ + 1, !.state = "connected", !.ready = "initializing", !.expired = FALSE]
  /\ Live({}, c, role) /\ Open(c, row.epoch + 1, role)

(* A join; one live mcp component per epoch. *)
RegisterJoin(c, role) ==
  /\ ~auth[c].open /\ row.there /\ ~row.expired
  /\ role = "mcp" => live \subseteq {c}
  /\ row' = [row EXCEPT !.state = "connected", !.bound = IF @ = Absent THEN c ELSE @]
  /\ Live(live, c, role) /\ Open(c, row.epoch, role)

onConnClose(c) ==
  /\ auth[c].open
  /\ row' = IF row.bound = c THEN [row EXCEPT !.state = "disconnected", !.bound = Absent] ELSE row
  /\ live' = live \ {c} /\ auth' = [auth EXCEPT ![c] = Shut]
  /\ UNCHANGED <<receiving, signalled, crashes>>

(* The broker dies and is started again: no handler runs, the rows stay. *)
Crash ==
  /\ crashes < MaxCrash /\ crashes' = crashes + 1
  /\ auth' = [c \in Conn |-> Shut]
  /\ UNCHANGED <<row, receiving, live, signalled>>

(***************************************************************************)
(* Requests of a connection, the reaper, the operator.                     *)
(***************************************************************************)
MutCurrent(c) == auth[c].open  (* Mutant: a superseded connection may still signal. *)

Current(c) == auth[c].open /\ auth[c].epoch = row.epoch

SignalReadiness(c, h) ==
  /\ Current(c)
  /\ row' = [row EXCEPT !.ready = resolveReadiness(row.mode, row.ack, h)]
  /\ signalled' = auth[c].epoch
  /\ UNCHANGED <<receiving, live, auth, crashes>>

(* renameSession. *)
RenameSession(c) ==
  /\ Current(c)
  /\ row' = [row EXCEPT !.expired = FALSE, !.ready = IF row.expired THEN "initializing" ELSE @]
  /\ UNCHANGED <<receiving, live, auth, signalled, crashes>>

SetControl(c, mode) ==
  /\ auth[c].open /\ receiving' = setControl(mode)
  /\ UNCHANGED <<row, live, auth, signalled, crashes>>

OperatorSetControl(mode) ==
  /\ row.there /\ receiving' = setControl(mode)
  /\ UNCHANGED <<row, live, auth, signalled, crashes>>

reapExpiredSession ==
  /\ row.there /\ ~row.expired
  /\ row' = [row EXCEPT !.expired = TRUE, !.ready = "disconnected"]
  /\ live' = {}
  /\ UNCHANGED <<receiving, auth, signalled, crashes>>

Next == \/ \E c \in Conn, role \in {"mcp", "hook"} :
             \/ \E mode \in {"hook_checkpoint", "live"}, ack \in BOOLEAN : RegisterFirst(c, role, mode, ack)
             \/ RegisterFresh(c, role) \/ RegisterJoin(c, role)
        \/ \E c \in Conn : \/ onConnClose(c) \/ RenameSession(c)
                           \/ \E h \in [versionOk : Hint, ack : Hint, hook : Hint, live : Hint] : SignalReadiness(c, h)
                           \/ \E mode \in ReceiveControl : SetControl(c, mode)
        \/ \E mode \in ReceiveControl : OperatorSetControl(mode)
        \/ reapExpiredSession \/ Crash

Spec == Init /\ [][Next]_vars

Row == [there : BOOLEAN, state : {"connected", "disconnected"}, bound : Conn \cup {Absent}, epoch : 0 .. MaxEpoch,
        ready : Readiness, expired : BOOLEAN, mode : {"disconnected", "hook_checkpoint", "live"}, ack : BOOLEAN]

Auth == [open : BOOLEAN, epoch : 0 .. MaxEpoch, role : {"none", "mcp", "hook"}]

TypeOK ==
  /\ row \in Row /\ receiving \in -1 .. 3 /\ live \subseteq Conn /\ auth \in [Conn -> Auth]
  /\ signalled \in 0 .. MaxEpoch /\ crashes \in 0 .. MaxCrash

(***************************************************************************)
(* Properties.                                                             *)
(***************************************************************************)
(* A session counts as ready only on a signal of its current epoch: not on  *)
(* one its former owner gave before, or gives after, a takeover, a resume   *)
(* or a restart of the broker (signalReadiness, register).                  *)
ReadyWasSignalled == row.ready \in READY_STATES => signalled = row.epoch

(* What every step keeps; the reports follow from it.                       *)
Inv == TypeOK /\ ReadyWasSignalled

(* A session reported with a consumption path has one: a manual step        *)
(* (processNext) passes the readiness gate, and where the report is that it *)
(* consumes by itself, or where the receiver is not set to manual, so does  *)
(* an automatic checkpoint (checkpointPull).                                *)
PathCanBePulled ==
  hasConsumptionPath(listSessions) =>
    /\ acceptsInjection(row.ready) /\ ~row.expired
    /\ isAutonomouslyRoutable(listSessions) \/ getControl(receiving) # "manual_checkpoint"
         => getControl(receiving) = "active"

(* The list of the daemon and that of the dashboard, which decode the       *)
(* control on their own, never disagree on the class of a session           *)
(* (routingClassOf, DashboardReadModel.sessions).                           *)
ListAgreesWithDashboard == listSessions = readModel

(***************************************************************************)
(* What the repository says and the code does not do.                      *)
(***************************************************************************)
(* onListSessions: "a disconnected/stale session is never advertised as     *)
(* routable".  A fresh registration writes no bound connection, so where    *)
(* there was none its end is not noticed.                                   *)
StaleIsNotRoutable == (\A c \in Conn : ~auth[c].open) => ~hasConsumptionPath(listSessions)

(* onStatus: the caller's class is "derived identically to xbus_sessions +  *)
(* the dashboard".  It takes the session for connected, and the row says    *)
(* otherwise once the connection that registered first has closed.          *)
StatusAgreesWithList == (\E c \in Conn : auth[c].open) => status = listSessions

(* onSend: "the sender is never told a disconnected/stale recipient is      *)
(* queued_until_checkpoint".  The state it is told still depends on the     *)
(* readiness alone, which outlives the connection.                          *)
SenderIsToldOfDisconnect ==
  row.there /\ ~row.expired /\ row.state = "disconnected" => sendState # "queued_until_checkpoint"
=============================================================================
