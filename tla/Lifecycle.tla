------------------------------ MODULE Lifecycle ------------------------------
(***************************************************************************)
(* How a session becomes visible: the SessionStart hook                    *)
(* (channel/session-start-hook.ts), the announcement it makes              *)
(* (announceSession in broker/store.ts), the import of old transcripts at  *)
(* the start of the broker (broker/session-import.ts, broker/host.ts), and *)
(* the label the dashboard derives (deriveSessionLabel in                  *)
(* broker/dashboard/read-model.ts), with the registrations, the expiry and *)
(* the removal they meet.                                                  *)
(*                                                                         *)
(* A hook process may run in several copies for one start and fail at any  *)
(* step; its registration, like that of the MCP server, is Identity's      *)
(* register without the names.                                             *)
(***************************************************************************)
EXTENDS Naturals

CONSTANTS Session, Hook,
          Source,      \* SessionStart sources that are tried
          MaxEpoch,    \* bound: registrations of an expired session
          MaxEnds,     \* bound: ends of the broker
          MaxRemoved   \* bound: records removed

VARIABLES up, ends,    \* broker
          row,         \* sessions and the automatic alias row
          started,     \* SESSION_STARTED events in the ledger
          mail,        \* sessions with a queued delivery
          disk,        \* sessions with a transcript
          mcp, hook,   \* connections and processes
          removed

vars == <<up, ends, row, started, mail, disk, mcp, hook, removed>>

NoRow == [there |-> FALSE, mgmt |-> "active", state |-> "disconnected", bound |-> "none",
          ready |-> "initializing", expired |-> FALSE, clock |-> FALSE, epoch |-> 0, alias |-> FALSE,
          live |-> FALSE]    \* component_instances: an mcp component that is live

Idle == [pc |-> "idle", s |-> "none", source |-> "none", gen |-> 0]

Shut == [open |-> FALSE, epoch |-> 0, gen |-> 0]

Init == /\ up = FALSE /\ ends = 0
        /\ row = [s \in Session |-> NoRow] /\ started = [s \in Session |-> 0]
        /\ mail = {} /\ disk \in SUBSET Session
        /\ mcp = [s \in Session |-> Shut] /\ hook = [h \in Hook |-> Idle] /\ removed = 0

(***************************************************************************)
(* The broker.                                                             *)
(***************************************************************************)
MutImport(s) ==  (* Mutant: an id that is known is listed again. *)
  IF s \in disk THEN [NoRow EXCEPT !.there = TRUE, !.mgmt = "dormant"] ELSE row[s]

(* The sessions with a transcript; no transcript is opened. *)
scanTranscripts == disk

(* importDormantSessions: a known id is skipped. *)
Import(s) ==
  IF s \in scanTranscripts /\ ~row[s].there THEN [NoRow EXCEPT !.there = TRUE, !.mgmt = "dormant"] ELSE row[s]

(* startBrokerHost: the import, before the daemon binds; a scan that fails  *)
(* is skipped.                                                              *)
BrokerStarts ==
  /\ ~up /\ up' = TRUE
  /\ row' \in {row, [s \in Session |-> Import(s)]}
  /\ UNCHANGED <<ends, started, mail, disk, mcp, hook, removed>>

BrokerEnds ==
  /\ up /\ ends < MaxEnds
  /\ up' = FALSE /\ ends' = ends + 1
  /\ UNCHANGED <<row, started, mail, disk, mcp, hook, removed>>

(* register: first, of an expired session, or a join. *)
Register(s, conn) ==
  LET r == row[s] IN
  IF ~r.there
    THEN [NoRow EXCEPT !.there = TRUE, !.state = "connected", !.bound = conn, !.clock = TRUE, !.epoch = 1, !.alias = TRUE]
  ELSE IF r.expired
    THEN [r EXCEPT !.epoch = @ + 1, !.expired = FALSE, !.state = "connected", !.ready = "initializing", !.clock = TRUE, !.alias = TRUE]
  ELSE [r EXCEPT !.state = "connected", !.bound = IF @ = "none" THEN conn ELSE @]

MayRegister(s) == row[s].expired => row[s].epoch < MaxEpoch

(* onConnClose. *)
Closed(s, conn) == IF row[s].bound = conn THEN [row[s] EXCEPT !.state = "disconnected", !.bound = "none"] ELSE row[s]

(* reapExpiredSessions: 15 days without meaningful activity. *)
Expire(s) ==
  /\ up /\ row[s].there /\ ~row[s].expired /\ row[s].clock
  /\ row' = [row EXCEPT ![s].expired = TRUE, ![s].ready = "disconnected", ![s].alias = FALSE, ![s].live = FALSE]
  /\ mail' = mail \ {s}
  /\ UNCHANGED <<up, ends, started, disk, mcp, hook, removed>>

(* resolveRecipient and the guards of send. *)
Send(s, how) ==
  /\ up /\ row[s].there /\ ~row[s].expired
  /\ how = "id" \/ row[s].alias
  /\ mail' = mail \cup {s}
  /\ UNCHANGED <<up, ends, row, started, disk, mcp, hook, removed>>

OperatorRemoveRecord(s) ==
  /\ up /\ row[s].there /\ row[s].state # "connected" /\ removed < MaxRemoved
  /\ row' = [row EXCEPT ![s] = NoRow] /\ mail' = mail \ {s} /\ removed' = removed + 1
  /\ UNCHANGED <<up, ends, started, disk, mcp, hook>>

(***************************************************************************)
(* The MCP server of a session.                                            *)
(***************************************************************************)
Alive(c) == up /\ c.gen = ends

(* A row that a broker left live when it ended keeps the next owner out.   *)
McpRegisters(s) ==
  /\ up /\ ~mcp[s].open /\ MayRegister(s) /\ ~row[s].live
  /\ row' = [row EXCEPT ![s] = [Register(s, "mcp") EXCEPT !.live = TRUE]]
  /\ mcp' = [mcp EXCEPT ![s] = [open |-> TRUE, epoch |-> Register(s, "mcp").epoch, gen |-> ends]]
  /\ disk' = disk \cup {s}
  /\ UNCHANGED <<up, ends, started, mail, hook, removed>>

(* The connection goes down; a broker that has ended runs no handler. *)
McpCloses(s) ==
  /\ mcp[s].open
  /\ mcp' = [mcp EXCEPT ![s] = Shut]
  /\ row' = IF Alive(mcp[s]) THEN [row EXCEPT ![s] = [Closed(s, "mcp") EXCEPT !.live = FALSE]] ELSE row
  /\ UNCHANGED <<up, ends, started, mail, disk, hook, removed>>

Authorised(s) == mcp[s].open /\ Alive(mcp[s]) /\ row[s].there /\ row[s].epoch = mcp[s].epoch

SignalReadiness(s) ==
  /\ Authorised(s)
  /\ row' = [row EXCEPT ![s].ready = "ready_checkpoint"]
  /\ UNCHANGED <<up, ends, started, mail, disk, mcp, hook, removed>>

MutRename(s) ==  (* Mutant: the tombstone goes, its traces stay. *)
  /\ Authorised(s)
  /\ row' = [row EXCEPT ![s].expired = FALSE, ![s].clock = TRUE]
  /\ UNCHANGED <<up, ends, started, mail, disk, mcp, hook, removed>>

(* renameSession resumes an expired session in its epoch. *)
RenameSession(s) ==
  /\ Authorised(s)
  /\ row' = [row EXCEPT ![s].expired = FALSE, ![s].clock = TRUE,
                        ![s].ready = IF row[s].expired THEN "initializing" ELSE @,
                        ![s].alias = @ \/ row[s].expired]
  /\ UNCHANGED <<up, ends, started, mail, disk, mcp, hook, removed>>

(***************************************************************************)
(* announceSession, for an authenticated connection.                       *)
(***************************************************************************)
normalizeLifecycleSource(src) == IF src \in {"startup", "clear", "compact"} THEN src ELSE "resume"

MutAnnounce(s, src) ==  (* Mutant: whoever announces is active, and what starts is recorded. *)
  /\ row' = [row EXCEPT ![s].mgmt = "active", ![s].expired = FALSE]
  /\ started' = [started EXCEPT ![s] = IF src = "startup" THEN @ + 1 ELSE @]

(* The kinds that may repeat append an event each time; a birth does once. *)
announceSession(s, src) ==
  LET source == normalizeLifecycleSource(src)
  IN  IF row[s].expired THEN UNCHANGED <<row, started>>
      ELSE /\ row' = [row EXCEPT ![s].mgmt = "active"]
           /\ started' = [started EXCEPT ![s] = IF source = "startup" /\ @ = 0 THEN 1 ELSE @]

(* Any registered connection may announce; the MCP server's stands for one  *)
(* that has idled since.                                                    *)
McpAnnounces(s, src) ==
  /\ mcp[s].open /\ Alive(mcp[s]) /\ row[s].there
  /\ announceSession(s, src)
  /\ UNCHANGED <<up, ends, mail, disk, mcp, hook, removed>>

(***************************************************************************)
(* main, runSessionStart.                                                  *)
(***************************************************************************)
Set(h, p) == hook' = [hook EXCEPT ![h] = p]

(* Claude starts the session's hook, in as many copies as are configured. *)
Launch(h, s, src) ==
  /\ hook[h].pc = "idle"
  /\ Set(h, [pc |-> "connect", s |-> s, source |-> src, gen |-> ends])
  /\ disk' = disk \cup {s}
  /\ UNCHANGED <<up, ends, row, started, mail, mcp, removed>>

MutConnect(h) ==  (* Mutant: the hook waits for a broker. *)
  /\ hook[h].pc = "connect" /\ up
  /\ Set(h, [hook[h] EXCEPT !.pc = "register", !.gen = ends])
  /\ UNCHANGED <<up, ends, row, started, mail, disk, mcp, removed>>

(* ensureBrokerDefault may or may not have one up by then. *)
Connect(h) ==
  /\ hook[h].pc = "connect"
  /\ Set(h, IF up THEN [hook[h] EXCEPT !.pc = "register", !.gen = ends] ELSE Idle)
  /\ UNCHANGED <<up, ends, row, started, mail, disk, mcp, removed>>

HookRegisters(h) ==
  /\ hook[h].pc = "register" /\ Alive(hook[h]) /\ MayRegister(hook[h].s)
  /\ row' = [row EXCEPT ![hook[h].s] = Register(hook[h].s, h)]
  /\ Set(h, [hook[h] EXCEPT !.pc = "announce"])
  /\ UNCHANGED <<up, ends, started, mail, disk, mcp, removed>>

HookAnnounces(h) ==
  /\ hook[h].pc = "announce" /\ Alive(hook[h]) /\ row[hook[h].s].there
  /\ announceSession(hook[h].s, hook[h].source)
  /\ Set(h, [hook[h] EXCEPT !.pc = "close"])
  /\ UNCHANGED <<up, ends, mail, disk, mcp, removed>>

(* The client closes and the hook exits with 0: after its announcement, or  *)
(* after a request that failed, timed out or was refused.                   *)
HookExits(h) ==
  /\ hook[h].pc \in {"register", "announce", "close"}
  /\ Set(h, Idle)
  /\ row' = IF Alive(hook[h]) THEN [row EXCEPT ![hook[h].s] = Closed(hook[h].s, h)] ELSE row
  /\ UNCHANGED <<up, ends, started, mail, disk, mcp, removed>>

HookSteps(h) == Connect(h) \/ HookRegisters(h) \/ HookAnnounces(h) \/ HookExits(h)

Next == \/ BrokerStarts \/ BrokerEnds
        \/ \E s \in Session : \/ Expire(s) \/ OperatorRemoveRecord(s) \/ McpRegisters(s) \/ McpCloses(s)
                              \/ SignalReadiness(s) \/ RenameSession(s)
                              \/ \E how \in {"id", "alias"} : Send(s, how)
                              \/ \E src \in Source : McpAnnounces(s, src)
                              \/ \E h \in Hook, src \in Source : Launch(h, s, src)
        \/ \E h \in Hook : HookSteps(h)

Spec == Init /\ [][Next]_vars

(* A hook process runs, and its requests time out. *)
Fair == \A h \in Hook : WF_vars(HookSteps(h))

FairSpec == Spec /\ Fair

(* deriveSessionLabel. *)
MutLabel(r) ==  (* Mutant: the tombstone is looked at last. *)
  IF r.mgmt = "dormant" THEN "dormant"
  ELSE IF r.state = "disconnected" THEN "active-disconnected"
  ELSE IF r.ready = "ready_checkpoint" THEN "active-ready"
  ELSE IF r.expired THEN "expired" ELSE "active-starting"

deriveSessionLabel(r) ==
  IF r.expired THEN "expired"
  ELSE IF r.mgmt = "dormant" THEN "dormant"
  ELSE IF r.state = "disconnected" THEN "active-disconnected"
  ELSE IF r.ready = "ready_checkpoint" THEN "active-ready" ELSE "active-starting"

(***************************************************************************)
(* Properties.                                                             *)
(***************************************************************************)
(* One birth per session: copies of the hook, repeated starts, imports and  *)
(* restarts of the broker never record SESSION_STARTED twice.               *)
OneBirth == \A s \in Session : started[s] <= 1

(* What clears an expiry restores the whole session: alias, retention clock *)
(* and a readiness that waits for a signal.  An announcement never does.    *)
ResurrectionIsCompleteStep ==
  \A s \in Session : row[s].expired /\ row'[s].there /\ ~row'[s].expired
    => row'[s].alias /\ row'[s].clock /\ row'[s].ready = "initializing"

ResurrectionIsComplete == [][ResurrectionIsCompleteStep]_vars

(* An import never takes a session back to dormant, and leaves expiry and   *)
(* epoch of a known session alone.                                          *)
ImportSparesKnownStep ==
  \A s \in Session : row[s].there /\ row'[s].there =>
    /\ row[s].mgmt = "active" => row'[s].mgmt = "active"
    /\ row'[s].epoch >= row[s].epoch

ImportSparesKnown == [][ImportSparesKnownStep]_vars

(* A session labelled ready accepts mail under both of its addresses,       *)
(* unless it came from an import.                                           *)
ReadyIsAddressable ==
  \A s \in Session : row[s].there /\ deriveSessionLabel(row[s]) = "active-ready" /\ row[s].epoch > 0
    => ~row[s].expired /\ row[s].alias

(* The shape of a row; and the inductive invariant behind the properties:   *)
(* a session that has registered, and is not expired, has its alias, and    *)
(* only a session that is known is expired.                                 *)
Row == [there : BOOLEAN, mgmt : {"active", "dormant"}, state : {"connected", "disconnected"},
        bound : {"none", "mcp"} \cup Hook, ready : {"initializing", "ready_checkpoint", "disconnected"},
        expired : BOOLEAN, clock : BOOLEAN, epoch : Nat, alias : BOOLEAN, live : BOOLEAN]

Sound(r) == /\ r.there /\ r.epoch > 0 /\ ~r.expired => r.alias
            /\ r.expired => r.there

Inv == /\ row \in [Session -> Row] /\ started \in [Session -> {0, 1}]
       /\ \A s \in Session : Sound(row[s])

(* Claude is never kept waiting: every hook process ends. *)
HookEnds == \A h \in Hook : hook[h].pc # "idle" ~> hook[h].pc = "idle"

(***************************************************************************)
(* What the repository says and the code does not do.                      *)
(***************************************************************************)
(* broker/session-import.ts: an import "never misroutes (dormant is         *)
(* unroutable)".  A send by session id asks only for the expiry.            *)
DormantIsUnroutable == [][\A s \in mail' \ mail : deriveSessionLabel(row[s]) # "dormant"]_vars

(* broker/store.ts: the automatic alias is "the always-present fallback     *)
(* address".  An imported session that comes back joins, and only a first   *)
(* registration or an expired one writes the alias row.                     *)
ConnectedHasAlias ==
  \A s \in Session : row[s].there /\ row[s].state = "connected" /\ ~row[s].expired => row[s].alias

(* docs/adr/0020: dormant is "never connected this lifetime".  A session    *)
(* whose hook fails between registration and announcement stays dormant.    *)
DormantIsNotConnected ==
  \A s \in Session : deriveSessionLabel(row[s]) = "dormant" /\ row[s].there
     => ~(mcp[s].open /\ row[s].ready = "ready_checkpoint" /\ row[s].state = "connected")
=============================================================================
