-------------------------------- MODULE Hooks --------------------------------
(***************************************************************************)
(* The hook processes of a session around the turns of its model: the      *)
(* checkpoint hooks at UserPromptSubmit and Stop                           *)
(* (channel/checkpoint-hook.ts, hook-entry.ts) and the resident rewaker    *)
(* (channel/rewaker.ts), with the activation diagnosis of the broker       *)
(* (diagnoseActivationOnce in broker/store.ts) and the eager registration  *)
(* of the MCP server.                                                      *)
(*                                                                         *)
(* Every hook process may run in several copies (plugin and user settings  *)
(* both name it), lose its connection at any step, or be killed by the     *)
(* timeout of the client that started it.  The broker side of a pull is    *)
(* the delivery core in brief: a body is handed out once per epoch.        *)
(***************************************************************************)
EXTENDS Integers, FiniteSets

CONSTANTS Hook,          \* copies of the checkpoint hook
          Msg,
          PluginLoads,   \* BOOLEAN choices: does the MCP server load?
          AutoContinue,  \* XBUS_AUTO_CONTINUE_ON_STOP
          MaxEnds,       \* bound: ends of the broker
          MaxKills,      \* bound: killed hooks
          MaxEpoch       \* bound: registrations that start an epoch

VARIABLES up, ends,      \* broker
          epoch, mcp, hookSeen,  \* its rows of the session
          row, spent,    \* deliveries; bodies handed out in this epoch
          audit,         \* epoch -> PLUGIN_NOT_LOADED events
          plugin, eager, \* MCP server: loaded; eager registration tried
          turn, again,   \* Claude: phase of the turn; stop_hook_active
          hook,          \* the checkpoint hook processes
          waker, age,    \* the rewaker and its time on earth
          shown,         \* bodies in the model's context
          kills

vars == <<up, ends, epoch, mcp, hookSeen, row, spent, audit, plugin, eager, turn, again, hook, waker, age, shown, kills>>

broker == <<up, ends, epoch, mcp, hookSeen, row, spent, audit>>
client == <<plugin, eager, turn, again, shown, kills>>

Off      == [pc |-> "off", got |-> {}, gen |-> 0, code |-> 0]
MaxLife  == 1     \* polls within maxLifetimeMs

Init == /\ up \in BOOLEAN /\ ends = 0
        /\ epoch = 1 /\ mcp = "none" /\ hookSeen = FALSE
        /\ row = [m \in Msg |-> "absent"] /\ spent = {}
        /\ audit = [e \in 1..MaxEpoch |-> 0]
        /\ plugin \in PluginLoads /\ eager = FALSE
        /\ turn = "idle" /\ again = FALSE
        /\ hook = [h \in Hook |-> Off]
        /\ waker = [pc |-> "connect", gen |-> 0] /\ age = 0
        /\ shown = {} /\ kills = 0

Alive(p) == up /\ p.gen = ends

(***************************************************************************)
(* The MCP server and the broker.                                          *)
(***************************************************************************)
(* notifications/initialized: one attempt, whose failure is swallowed. *)
EagerRegister ==
  /\ plugin /\ ~eager
  /\ eager' = TRUE
  /\ \/ up /\ mcp' = "live"
     \/ ~up /\ UNCHANGED mcp
  /\ UNCHANGED <<up, ends, epoch, hookSeen, row, spent, audit, plugin, turn, again, hook, waker, age, shown, kills>>

(* A tool call within a turn registers again. *)
ToolCall ==
  /\ plugin /\ eager /\ turn = "run" /\ up /\ mcp # "live"
  /\ mcp' = "live"
  /\ UNCHANGED <<up, ends, epoch, hookSeen, row, spent, audit, client, hook, waker, age>>

BrokerEnds ==
  /\ up /\ ends < MaxEnds
  /\ up' = FALSE /\ ends' = ends + 1
  /\ mcp' = IF mcp = "live" THEN "closed" ELSE mcp
  /\ UNCHANGED <<epoch, hookSeen, row, spent, audit, client, hook, waker, age>>

BrokerStarts ==
  /\ ~up /\ up' = TRUE
  /\ UNCHANGED <<ends, epoch, mcp, hookSeen, row, spent, audit, client, hook, waker, age>>

SendArrives(m) ==
  /\ up /\ row[m] = "absent"
  /\ row' = [row EXCEPT ![m] = "queued"]
  /\ UNCHANGED <<up, ends, epoch, mcp, hookSeen, spent, audit, client, hook, waker, age>>

(* An ack deadline passes; retry_wait. *)
Requeue(m) ==
  /\ up /\ row[m] = "injected"
  /\ row' = [row EXCEPT ![m] = "queued"]
  /\ UNCHANGED <<up, ends, epoch, mcp, hookSeen, spent, audit, client, hook, waker, age>>

(* An expired session is taken up again by its hook: a new epoch, in which  *)
(* no component has registered but the hook.                                *)
NewEpoch ==
  /\ up /\ mcp # "live" /\ epoch < MaxEpoch
  /\ epoch' = epoch + 1 /\ mcp' = "none" /\ hookSeen' = TRUE
  /\ spent' = {} /\ row' = [m \in Msg |-> IF row[m] = "injected" THEN "queued" ELSE row[m]]
  /\ UNCHANGED <<up, ends, audit, client, hook, waker, age>>

(***************************************************************************)
(* runCheckpoint.                                                          *)
(***************************************************************************)
Set(h, p) == hook' = [hook EXCEPT ![h] = p]

MutConnect(h) ==  (* Mutant: the hook waits until a broker is there. *)
  /\ hook[h].pc = "connect" /\ up
  /\ Set(h, [hook[h] EXCEPT !.pc = "register", !.gen = ends])
  /\ UNCHANGED <<broker, client, waker, age>>

Connect(h) ==
  /\ hook[h].pc = "connect"
  /\ Set(h, IF up THEN [hook[h] EXCEPT !.pc = "register", !.gen = ends] ELSE Off)
  /\ UNCHANGED <<broker, client, waker, age>>

Register(h) ==
  /\ hook[h].pc = "register" /\ Alive(hook[h])
  /\ hookSeen' = TRUE
  /\ Set(h, [hook[h] EXCEPT !.pc = "pull"])
  /\ UNCHANGED <<up, ends, epoch, mcp, row, spent, audit, client, waker, age>>

Queued == {m \in Msg : row[m] = "queued"}

(* checkpoint_pull_hook: the broker commits, then answers. *)
Pull(h) ==
  /\ hook[h].pc = "pull" /\ Alive(hook[h])
  /\ row' = [m \in Msg |-> IF row[m] = "queued" THEN "injected" ELSE row[m]]
  /\ spent' = spent \cup Queued
  /\ Set(h, [hook[h] EXCEPT !.pc = "pulled", !.got = Queued \ spent])
  /\ UNCHANGED <<up, ends, epoch, mcp, hookSeen, audit, client, waker, age>>

Pulled(h) ==
  /\ hook[h].pc = "pulled" /\ Alive(hook[h])
  /\ Set(h, [hook[h] EXCEPT !.pc = IF turn = "stop" THEN "diagnose" ELSE "print"])
  /\ UNCHANGED <<broker, client, waker, age>>

(* diagnoseActivationOnce. *)
activation == IF mcp = "live" THEN "CONNECTED"
              ELSE IF mcp = "closed" THEN "MCP_DISCONNECTED"
              ELSE IF hookSeen THEN "DEGRADED_HOOK_ONLY" ELSE "PLUGIN_NOT_LOADED"

Absent == activation \in {"PLUGIN_NOT_LOADED", "DEGRADED_HOOK_ONLY"}

MutDiagnose(h) ==  (* Mutant: no look for an earlier event. *)
  /\ hook[h].pc = "diagnose" /\ Alive(hook[h])
  /\ audit' = IF Absent THEN [audit EXCEPT ![epoch] = @ + 1] ELSE audit
  /\ Set(h, [hook[h] EXCEPT !.pc = "print"])
  /\ UNCHANGED <<up, ends, epoch, mcp, hookSeen, row, spent, client, waker, age>>

MutDiagnoseLive(h) ==  (* Mutant: a component that is not live does not count. *)
  /\ hook[h].pc = "diagnose" /\ Alive(hook[h])
  /\ audit' = IF mcp # "live" /\ audit[epoch] = 0 THEN [audit EXCEPT ![epoch] = 1] ELSE audit
  /\ Set(h, [hook[h] EXCEPT !.pc = "print"])
  /\ UNCHANGED <<up, ends, epoch, mcp, hookSeen, row, spent, client, waker, age>>

(* activation_diagnose: the notice goes out with the one audit event. *)
Diagnose(h) ==
  /\ hook[h].pc = "diagnose" /\ Alive(hook[h])
  /\ audit' = IF Absent /\ audit[epoch] = 0 THEN [audit EXCEPT ![epoch] = 1] ELSE audit
  /\ Set(h, [hook[h] EXCEPT !.pc = "print"])
  /\ UNCHANGED <<up, ends, epoch, mcp, hookSeen, row, spent, client, waker, age>>

MutwantContinue(h) ==  (* Mutant: stop_hook_active is not looked at. *)
  AutoContinue /\ turn = "stop" /\ hook[h].got # {}

wantContinue(h) == AutoContinue /\ turn = "stop" /\ ~again /\ hook[h].got # {}

(* main: print additionalContext and exit with the code. *)
PrintAndExit(h) ==
  /\ hook[h].pc = "print"
  /\ shown' = shown \cup hook[h].got
  /\ Set(h, [Off EXCEPT !.pc = "exited", !.code = IF wantContinue(h) THEN 2 ELSE 0])
  /\ UNCHANGED <<broker, plugin, eager, turn, again, waker, age, kills>>

(* A request fails: the diagnosis is best effort, anything else ends the    *)
(* hook with exit code 0.                                                   *)
RequestFails(h) ==
  /\ hook[h].pc \in {"register", "pull", "pulled", "diagnose"} /\ ~Alive(hook[h])
  /\ Set(h, IF hook[h].pc = "diagnose" THEN [hook[h] EXCEPT !.pc = "print"] ELSE [Off EXCEPT !.pc = "exited"])
  /\ UNCHANGED <<broker, client, waker, age>>

(* Claude's own timeout ends the process. *)
Kill(h) ==
  /\ hook[h].pc \notin {"off", "exited"} /\ kills < MaxKills
  /\ kills' = kills + 1
  /\ Set(h, [Off EXCEPT !.pc = "exited"])
  /\ UNCHANGED <<broker, plugin, eager, turn, again, waker, age, shown>>

(***************************************************************************)
(* The turn, as Claude runs it: the hooks of an event all run, and the     *)
(* turn goes on after Stop if one of them exits with 2.                    *)
(***************************************************************************)
Launch == hook' = [h \in Hook |-> [Off EXCEPT !.pc = "connect"]]

HooksDone == \A h \in Hook : hook[h].pc \in {"exited", "off"}

UserPrompt ==
  /\ turn = "idle"
  /\ turn' = "prompt" /\ again' = FALSE /\ Launch
  /\ UNCHANGED <<broker, plugin, eager, waker, age, shown, kills>>

RunModel ==
  /\ turn = "prompt" /\ HooksDone
  /\ turn' = "run"
  /\ UNCHANGED <<broker, plugin, eager, again, hook, waker, age, shown, kills>>

(* By then the client has initialised its MCP servers. *)
Stop ==
  /\ turn = "run" /\ (plugin => eager)
  /\ turn' = "stop" /\ Launch
  /\ UNCHANGED <<broker, plugin, eager, again, waker, age, shown, kills>>

EndStop ==
  /\ turn = "stop" /\ HooksDone
  /\ IF \E h \in Hook : hook[h].code = 2
     THEN turn' = "run" /\ again' = TRUE
     ELSE turn' = "idle" /\ again' = FALSE
  /\ hook' = [h \in Hook |-> Off]
  /\ UNCHANGED <<broker, plugin, eager, waker, age, shown, kills>>

(***************************************************************************)
(* runRewaker.                                                             *)
(***************************************************************************)
Wakeable == {"connect", "poll", "sleep"}

RewakerConnects ==
  /\ waker.pc = "connect"
  /\ waker' = IF up THEN [pc |-> "poll", gen |-> ends] ELSE [waker EXCEPT !.pc = "exit0"]
  /\ hookSeen' = (hookSeen \/ up)
  /\ UNCHANGED <<up, ends, epoch, mcp, row, spent, audit, client, hook, age>>

MutRewakerPolls ==  (* Mutant: the lifetime is not looked at. *)
  /\ waker.pc = "poll"
  /\ waker' = [waker EXCEPT !.pc = IF ~Alive(waker) THEN "exit0" ELSE IF Queued # {} THEN "exit2" ELSE "sleep"]
  /\ UNCHANGED <<broker, client, hook, age>>

(* wake_poll; the lifetime counts only after a poll without success. *)
RewakerPolls ==
  /\ waker.pc = "poll"
  /\ waker' = [waker EXCEPT !.pc = IF ~Alive(waker) THEN "exit0"
                                   ELSE IF Queued # {} THEN "exit2"
                                   ELSE IF age >= MaxLife THEN "exit0" ELSE "sleep"]
  /\ UNCHANGED <<broker, client, hook, age>>

RewakerSleeps ==
  /\ waker.pc = "sleep"
  /\ waker' = [waker EXCEPT !.pc = "poll"]
  /\ age' = IF age < MaxLife THEN age + 1 ELSE age
  /\ UNCHANGED <<broker, client, hook>>

(* asyncRewake: Claude begins a turn, or goes on with the one it has. *)
Rewake ==
  /\ waker.pc = "exit2" /\ turn = "idle"
  /\ waker' = [waker EXCEPT !.pc = "exit0"]
  /\ turn' = "prompt" /\ again' = FALSE /\ Launch
  /\ UNCHANGED <<broker, plugin, eager, age, shown, kills>>

HookSteps == \E h \in Hook : \/ Connect(h) \/ Register(h) \/ Pull(h) \/ Pulled(h)
                             \/ Diagnose(h) \/ PrintAndExit(h) \/ RequestFails(h)

RewakerSteps == RewakerConnects \/ RewakerPolls \/ RewakerSleeps

Next == \/ HookSteps \/ RewakerSteps \/ Rewake
        \/ \E h \in Hook : Kill(h)
        \/ UserPrompt \/ RunModel \/ Stop \/ EndStop
        \/ EagerRegister \/ ToolCall \/ BrokerEnds \/ BrokerStarts \/ NewEpoch
        \/ \E m \in Msg : SendArrives(m) \/ Requeue(m)

Spec == Init /\ [][Next]_vars

(* Hook processes run; the model stops talking; Claude reads exit codes. *)
Fair == /\ WF_vars(HookSteps) /\ WF_vars(RewakerSteps)
        /\ WF_vars(Stop) /\ WF_vars(EndStop) /\ WF_vars(RunModel) /\ WF_vars(EagerRegister)

FairSpec == Spec /\ Fair

(***************************************************************************)
(* Properties.                                                             *)
(***************************************************************************)
TypeOK == /\ mcp \in {"none", "live", "closed"} /\ turn \in {"idle", "prompt", "run", "stop"}
          /\ row \in [Msg -> {"absent", "queued", "injected"}] /\ shown \subseteq Msg
          /\ waker.pc \in Wakeable \cup {"exit0", "exit2"}

(* A turn is continued at most once: a continued turn's Stop ends it,       *)
(* however many messages come and however many copies of the hook run.      *)
ContinuedOnceStep == turn = "stop" /\ again => turn' # "run"

ContinuedOnce == [][ContinuedOnceStep]_vars

(* The operator is told once per epoch that the plugin is absent, however   *)
(* many Stop hooks ask and however often the broker is restarted.           *)
ToldOncePerEpoch == \A e \in 1..MaxEpoch : audit[e] <= 1

(* The notice is given only when no MCP component registered in the epoch,  *)
(* never for a channel that was up and went down.                           *)
ToldOnlyWhenNeverRegisteredStep == audit' # audit => mcp = "none"

ToldOnlyWhenNeverRegistered == [][ToldOnlyWhenNeverRegisteredStep]_vars

(* A turn ends: no lost connection, restart or killed copy keeps the model  *)
(* from coming to rest.                                                     *)
TurnEnds == turn = "prompt" ~> turn = "idle"

(* The rewaker ends within its lifetime, with or without a wake. *)
RewakerEnds == <>(waker.pc \notin Wakeable)

(***************************************************************************)
(* What the repository says and the code does not do.                      *)
(***************************************************************************)
(* docs/injection-crash-windows.md: a broker that commits the injection and *)
(* ends before it answers, or a hook that dies with the payload, is a "safe *)
(* retry".  The next pull takes the message and leaves out its body.        *)
RePullShows ==
  [][\A h \in Hook, m \in Msg :
       hook[h].pc = "pull" /\ hook'[h].pc = "pulled" /\ row[m] = "queued" /\ m \notin shown
         => m \in hook'[h].got \/ \E g \in Hook : m \in hook[g].got]_vars

(* channel/mcp-server.ts: the eager registration makes the component's      *)
(* presence "true for every loaded session regardless of tool use".         *)
ToldOnlyWhenBare == audit[1] > 0 => ~plugin
=============================================================================
