------------------------------ MODULE UserScope ------------------------------
(***************************************************************************)
(* The manager of the user-scope configuration (src/cli/user-scope-config. *)
(* ts): the xbus MCP server in ~/.claude.json, the lifecycle hooks and the *)
(* plugin enablement in settings.json.  Each call is one process; it reads *)
(* both files, writes one after the other with a backup, validates, and    *)
(* rolls back; it may crash between the writes.  Between calls the user    *)
(* and the host edit the same files.                                       *)
(***************************************************************************)
EXTENDS Naturals, FiniteSets

CONSTANTS
  Id,        \* install ids
  DataDir,   \* data directories an entry may point at
  MaxCalls,  \* calls of the manager
  MaxEdits   \* edits by the user and the host

VARIABLES
  config,     \* ~/.claude.json
  settings,   \* settings.json
  call,       \* the running call: its pc, options, what it read, its backups
  manifest,   \* the id in the install manifest, None without one
  calls,
  edits,
  outcome     \* the last call and how it ended, with the files it found (ghost)

vars == <<config, settings, call, manifest, calls, edits, outcome>>

None == "none"
Events == {"SessionStart", "Stop"}     \* UserPromptSubmit is wired as Stop is
UserHandler == "user"

(* The dist entry each event's handler must invoke.                        *)
hookEntries(ev) == IF ev = "SessionStart" THEN "session-start-hook" ELSE "hook-entry"

xbusMcpEntry(i, d) == [tag |-> i, env |-> d]
NoEntry == [tag |-> None, env |-> None]
ForeignEntry == [tag |-> None, env |-> "foreign"]

Handler(ev, entry, tag) == [ev |-> ev, entry |-> entry, tag |-> tag]
UserHandlers == {Handler(ev, UserHandler, None) : ev \in Events}

isXbusHookHandler(h) == h.entry # UserHandler

(* readable: the bytes parse as JSON.  A file that does not exist is one   *)
(* that does not parse and holds nothing of the user.  All installs share  *)
(* one plugin directory, so the entry paths of one are those of another.   *)
Init ==
  /\ config \in [readable : BOOLEAN, xbus : {NoEntry, ForeignEntry}, others : BOOLEAN]
  /\ settings \in [readable : BOOLEAN, handlers : {{}, UserHandlers}, enabled : {"absent", "false"}]
  /\ call = [pc |-> "idle"]
  /\ manifest = None
  /\ calls = 0
  /\ edits = 0
  /\ outcome = [pc |-> None]

-----------------------------------------------------------------------------
(* readClaudeConfig(...) ?? {}: a file that does not parse reads as empty. *)
readClaudeConfig == IF config.readable THEN config ELSE [readable |-> TRUE, xbus |-> NoEntry, others |-> FALSE]
readClaudeSettings ==
  IF settings.readable THEN settings ELSE [readable |-> TRUE, handlers |-> {}, enabled |-> "absent"]

applyMcp(c, i, d) == [c EXCEPT !.xbus = xbusMcpEntry(i, d)]

(* Mutant: the event's groups are replaced, not filtered.                  *)
MutApplyHooks(s, i) ==
  [s EXCEPT !.handlers = {Handler(ev, hookEntries(ev), i) : ev \in Events}]

(* Drop every prior handler of ours, append this install's, event by event.*)
applyHooks(s, i) ==
  [s EXCEPT !.handlers = {h \in @ : ~isXbusHookHandler(h)} \cup {Handler(ev, hookEntries(ev), i) : ev \in Events}]

(* Mutant: the key is removed whoever owns it.                             *)
MutStripMcp(c, i) == [c EXCEPT !.xbus = NoEntry]

stripMcp(c, i) == IF c.xbus.tag = i THEN [c EXCEPT !.xbus = NoEntry] ELSE c

(* Remove a handler of ours that carries this install's tag or none.       *)
stripHooks(s, i) ==
  [s EXCEPT !.handlers = {h \in @ : ~(isXbusHookHandler(h) /\ h.tag \in {i, None})}]

(* makeValidateSettings and the idempotency test look for the same thing.  *)
hooksPresent(s, i) == \A ev \in Events : Handler(ev, hookEntries(ev), i) \in s.handlers

(* Mutant: the entry in ~/.claude.json alone decides.                      *)
MutAlreadyRegistered(c, s, i, d) == c.xbus = xbusMcpEntry(i, d)

alreadyRegistered(c, s, i, d) == c.xbus = xbusMcpEntry(i, d) /\ hooksPresent(s, i)

-----------------------------------------------------------------------------
(* A call begins with one read of both files.  `op` is install, repair or  *)
(* uninstall; `force` lets it take a key that is not ours (repair only);   *)
(* `persistent` is the opt-in of an install, "force" with --force.  An      *)
(* install has a new id; the others take theirs from the manifest.         *)
Call(op, i, d, persistent) ==
  /\ call.pc = "idle"
  /\ calls < MaxCalls
  /\ CASE op = "install" -> i # manifest
       [] op = "repair" -> manifest # None => i = manifest
       [] op = "uninstall" -> i = manifest
  /\ calls' = calls + 1
  /\ call' = [pc |-> IF op = "uninstall" THEN "strip config" ELSE "config",
              op |-> op, id |-> i, dir |-> d, force |-> op = "repair", persistent |-> persistent,
              config |-> config, settings |-> settings, cfgBackup |-> config, setBackup |-> settings]
  /\ outcome' = [pc |-> None]
  /\ UNCHANGED <<config, settings, manifest, edits>>

Return(ok) ==
  /\ call' = [pc |-> "idle"]
  /\ outcome' = [call EXCEPT !.pc = IF ok THEN "ok" ELSE "failed"]
  /\ manifest' = CASE call.op = "repair" -> manifest
                   [] call.op = "install" /\ ok -> call.id
                   [] OTHER -> None

Goto(pc) ==
  /\ call' = [call EXCEPT !.pc = pc]
  /\ UNCHANGED <<outcome, manifest>>

Registered == IF call.persistent = "no" THEN Return(TRUE) ELSE Goto("persistent")

(* registerUserScope up to the first write: refuse a key that is not ours, *)
(* stop when everything is in place, else write ~/.claude.json.            *)
RegisterConfig ==
  /\ call.pc = "config"
  /\ LET c == readClaudeConfig
         refuse == c.xbus = ForeignEntry /\ ~call.force
         done == alreadyRegistered(c, readClaudeSettings, call.id, call.dir) IN
     \/ refuse /\ Return(FALSE) /\ UNCHANGED config
     \/ ~refuse /\ done /\ Registered /\ UNCHANGED config
     \/ ~refuse /\ ~done /\ config' = applyMcp(c, call.id, call.dir) /\ Goto("settings")
  /\ UNCHANGED <<settings, calls, edits>>

(* The second file.                                                        *)
RegisterSettings ==
  /\ call.pc = "settings"
  /\ settings' = applyHooks(readClaudeSettings, call.id)
  /\ Registered
  /\ UNCHANGED <<config, calls, edits>>

(* Mutant: the first file is not rolled back when the second one fails.    *)
MutRegisterFails ==
  /\ call.pc = "settings"
  /\ settings' = call.setBackup
  /\ Return(FALSE)
  /\ UNCHANGED <<config, calls, edits>>

(* A write throws or a validation fails: rollbackTxn on both, byte-exact.  *)
RegisterFails ==
  /\ call.pc = "settings"
  /\ config' = call.cfgBackup
  /\ settings' = call.setBackup
  /\ Return(FALSE)
  /\ UNCHANGED <<calls, edits>>

(* setPersistentEnable runs in the same process, so its backup goes to the *)
(* same file.  A conflict, or a write that fails, makes the installer take *)
(* the registration back.                                                  *)
setPersistentEnable ==
  /\ call.pc = "persistent"
  /\ LET enabled == readClaudeSettings.enabled
         conflict == enabled = "false" /\ call.persistent # "force" IN
     \/ /\ enabled # "true" /\ ~conflict
        /\ settings' = [readClaudeSettings EXCEPT !.enabled = "true"]
        /\ call' = [call EXCEPT !.pc = "done", !.setBackup = settings]
     \/ enabled = "true" /\ call' = [call EXCEPT !.pc = "done"] /\ UNCHANGED settings
     \/ enabled # "true" /\ call' = [call EXCEPT !.pc = "strip config", !.op = "undo"] /\ UNCHANGED settings
  /\ UNCHANGED <<config, calls, edits, outcome, manifest>>

InstallDone ==
  /\ call.pc = "done"
  /\ Return(TRUE)
  /\ UNCHANGED <<config, settings, calls, edits>>

(* unregisterUserScope strips both files and writes what changed.          *)
UnregisterConfig ==
  /\ call.pc = "strip config"
  /\ config' = IF config.readable THEN stripMcp(config, call.id) ELSE config
  /\ call' = [call EXCEPT !.pc = "strip settings", !.cfgBackup = config, !.setBackup = settings]
  /\ UNCHANGED <<settings, calls, edits, outcome, manifest>>

(* An uninstall clears the enablement next, whatever unregister returned.  *)
Unregistered == IF call.op = "undo" THEN Return(FALSE) ELSE Goto("clear")

UnregisterSettings ==
  /\ call.pc = "strip settings"
  /\ settings' = IF settings.readable THEN stripHooks(settings, call.id) ELSE settings
  /\ Unregistered
  /\ UNCHANGED <<config, calls, edits>>

UnregisterFails ==
  /\ call.pc = "strip settings"
  /\ config' = call.cfgBackup
  /\ Unregistered
  /\ UNCHANGED <<settings, calls, edits>>

(* clearPersistentEnable: the key goes, or its write fails and is undone.  *)
clearPersistentEnable ==
  /\ call.pc = "clear"
  /\ \/ settings' = IF settings.readable THEN [settings EXCEPT !.enabled = "absent"] ELSE settings
     \/ UNCHANGED settings
  /\ Return(TRUE)
  /\ UNCHANGED <<config, calls, edits>>

(* The process is killed between two writes.                               *)
Crash ==
  /\ call.pc # "idle"
  /\ call' = [pc |-> "idle"]
  /\ outcome' = [pc |-> "crashed"]
  /\ UNCHANGED <<config, settings, manifest, calls, edits>>

-----------------------------------------------------------------------------
(* Edits between calls: the host drops the tags of hook handlers, or the   *)
(* user removes a handler of ours or sets the enablement to false.         *)
Edit(s) ==
  /\ call.pc = "idle"
  /\ edits < MaxEdits
  /\ settings.readable
  /\ s # settings
  /\ settings' = s
  /\ edits' = edits + 1
  /\ outcome' = [pc |-> "edited"]
  /\ UNCHANGED <<config, call, manifest, calls>>

HostStripsTags == Edit([settings EXCEPT !.handlers = {[h EXCEPT !.tag = None] : h \in @}])
UserRemovesHandler == \E h \in settings.handlers : Edit([settings EXCEPT !.handlers = @ \ {h}])
UserDisables == Edit([settings EXCEPT !.enabled = "false"])

Next ==
  \/ \E i \in Id, d \in DataDir, p \in {"no", "yes", "force"} : Call("install", i, d, p)
  \/ \E i \in Id, d \in DataDir, op \in {"repair", "uninstall"} : Call(op, i, d, "no")
  \/ RegisterConfig \/ RegisterSettings \/ RegisterFails \/ setPersistentEnable \/ InstallDone
  \/ UnregisterConfig \/ UnregisterSettings \/ UnregisterFails \/ clearPersistentEnable
  \/ Crash
  \/ HostStripsTags \/ UserRemovesHandler \/ UserDisables

Spec == Init /\ [][Next]_vars

-----------------------------------------------------------------------------
UserPart(c, s) == <<c.others, {h \in s.handlers : ~isXbusHookHandler(h)}>>

(* The user's own servers and hooks survive every step of every call that  *)
(* found files that parse (applyMcp, applyHooks, stripMcp, stripHooks and  *)
(* the rollbacks).                                                         *)
UserPartIsPreservedStep ==
  (call.pc # "idle" /\ call.config.readable /\ call.settings.readable)
    => UserPart(config', settings') = UserPart(config, settings)

UserPartIsPreserved == [][UserPartIsPreservedStep]_vars

(* A registration that reports success is complete in both files, and in   *)
(* the settings it is the only one, whatever a crashed call, an earlier    *)
(* install, the host or the user left in one of them.                      *)
RegisteredMeansBoth ==
  (outcome.pc = "ok" /\ outcome.op \in {"install", "repair"}) =>
    /\ config.xbus = xbusMcpEntry(outcome.id, outcome.dir)
    /\ hooksPresent(settings, outcome.id)
    /\ \A ev \in Events : Cardinality({h \in settings.handlers : isXbusHookHandler(h) /\ h.ev = ev}) = 1

(* A registration that fails leaves both files as it found them ("If the   *)
(* SECOND file fails, the FIRST is rolled back too").                      *)
FailureRestoresBoth ==
  (outcome.pc = "failed" /\ outcome.op \in {"install", "repair"}) =>
    config = outcome.config /\ settings = outcome.settings

(* Taking a registration back leaves the entry of another install alone,   *)
(* and a key that is not ours changes hands only in a repair.              *)
OnlyOwnEntriesAreTakenStep ==
  call.pc # "idle" =>
    /\ (call.pc = "strip config" /\ config.xbus.tag # call.id) => config'.xbus = config.xbus
    /\ (call.config.readable /\ config.xbus = ForeignEntry /\ config'.xbus # ForeignEntry)
         => call.op = "repair"

OnlyOwnEntriesAreTaken == [][OnlyOwnEntriesAreTakenStep]_vars

-----------------------------------------------------------------------------
(* What the repository says and the code does not do.                      *)

(* "PRESERVING: never touch the user's OTHER mcp servers / hooks /         *)
(* top-level keys."                                                        *)
NeverTouchesOthers ==
  [][call.pc # "idle" => UserPart(config', settings') = UserPart(config, settings)]_vars

(* "Backup of the pre-install settings.json (restorable)."                 *)
BackupIsPreInstall ==
  (outcome.pc = "ok" /\ outcome.op = "install" /\ outcome.settings.readable
     /\ settings.handlers # outcome.settings.handlers) => outcome.setBackup = outcome.settings

(* "uninstall removes ONLY the `xbus` enabledPlugins entry it added".      *)
ClearsOnlyItsOwn ==
  [][(call.pc = "clear" /\ settings.enabled = "false") => settings'.enabled = "false"]_vars
=============================================================================
