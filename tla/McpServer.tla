------------------------------ MODULE McpServer ------------------------------
(***************************************************************************)
(* The MCP server of a session (channel/mcp-server.ts): tool calls and the *)
(* eager registration run concurrently, share one IpcClient and one        *)
(* connected flag, and connect, say hello, register and signal readiness   *)
(* in ensureBroker before they send their own request.  A call that meets  *)
(* a lost connection reconnects and tries once more.                       *)
(*                                                                         *)
(* The field `client` is always the newest client; after every await the   *)
(* code reads it anew.  The broker is what these requests see of it:       *)
(* hello before register, register before anything else, a frame before    *)
(* the end of the handshake closes the connection.  It may end at any      *)
(* time; ensureBroker (broker/ensure.ts) starts it again.                  *)
(***************************************************************************)
EXTENDS Integers, Sequences, FiniteSets

CONSTANTS Tool,        \* tool calls, each a send_message without a key
          Eager,       \* the registration on notifications/initialized
          Overlap,     \* a call may begin before the one before has ended
          MayRefuse,   \* the broker may refuse register_session
          CutsHandshake, \* the broker may end while a client shakes hands
          MaxEnds,     \* bound: ends of the broker
          MaxSilences  \* bound: timeouts on a connection that is up

VARIABLES pc,        \* call -> where it waits
          on,        \* call -> the client its promise belongs to
          answer,    \* call -> the broker's answer on its way
          try,       \* call -> first attempt or the retry
          clients,   \* every IpcClient made, oldest first
          connected,
          stored,    \* messages the broker stored for a call
          ends, silences

vars == <<pc, on, answer, try, clients, connected, stored, ends, silences>>

Call  == Tool \cup {Eager}
Stage == {"hello", "register", "signal", "dispatch"}   \* awaiting request()
Ended == {"done", "failed"}

Init == /\ pc = [c \in Call |-> "new"] /\ on = [c \in Call |-> 0]
        /\ answer = [c \in Call |-> "none"] /\ try = [c \in Call |-> 1]
        /\ clients = <<>> /\ connected = FALSE
        /\ stored = [c \in Call |-> 0] /\ ends = 0 /\ silences = 0

newest == Len(clients)
Up(k)  == clients[k].socket \in {"handshaking", "secure"}

(* Promise reactions run before the next event. *)
Settled == \A c \in Call : pc[c] # "rejected"

(***************************************************************************)
(* IpcClient.request on the newest client: before its handshake is over    *)
(* the frame goes out in plaintext and the broker hangs up; on a closed    *)
(* socket it is lost.                                                      *)
(***************************************************************************)
Ask(c, stage) ==
  /\ pc' = [pc EXCEPT ![c] = stage]
  /\ on' = [on EXCEPT ![c] = newest]
  /\ answer' = [answer EXCEPT ![c] = "none"]

Spoilt(cs) == [cs EXCEPT ![Len(cs)].socket = IF @ = "handshaking" THEN "ending" ELSE @]

MutFail(c, transient) ==  (* Mutant: the retry is not counted. *)
  IF transient /\ c \in Tool
  THEN /\ pc' = [pc EXCEPT ![c] = "ensure"]
       /\ connected' = FALSE /\ UNCHANGED try
       /\ clients' = IF newest > 0 /\ Up(newest) THEN [clients EXCEPT ![newest].socket = "ending"] ELSE clients
  ELSE /\ pc' = [pc EXCEPT ![c] = IF c \in Tool THEN "failed" ELSE "done"]
       /\ UNCHANGED <<try, connected, clients>>

MutFailAtOnce(c, transient) ==  (* Mutant: a lost connection is an application error. *)
  /\ pc' = [pc EXCEPT ![c] = IF c \in Tool THEN "failed" ELSE "done"]
  /\ UNCHANGED <<try, connected, clients>>

(* toolCall's catch clauses; the eager registration swallows its error. *)
Fail(c, transient) ==
  IF transient /\ c \in Tool /\ try[c] = 1
  THEN /\ pc' = [pc EXCEPT ![c] = "ensure"]
       /\ try' = [try EXCEPT ![c] = 2]
       /\ connected' = FALSE
       /\ clients' = IF newest > 0 /\ Up(newest) THEN [clients EXCEPT ![newest].socket = "ending"] ELSE clients
  ELSE /\ pc' = [pc EXCEPT ![c] = IF c \in Tool THEN "failed" ELSE "done"]
       /\ UNCHANGED <<try, connected, clients>>

(* handle: a request arrives on stdin. *)
Begin(c) ==
  /\ Settled /\ pc[c] = "new"
  /\ Overlap \/ \A d \in Call : pc[d] \in Ended \cup {"new"}
  /\ IF ~connected
     THEN pc' = [pc EXCEPT ![c] = "ensure"] /\ UNCHANGED <<on, answer, clients>>
     ELSE IF c = Eager
     THEN pc' = [pc EXCEPT ![c] = "done"] /\ UNCHANGED <<on, answer, clients>>
     ELSE Ask(c, "dispatch") /\ clients' = Spoilt(clients)
  /\ UNCHANGED <<try, connected, stored, ends, silences>>

(* ensureBroker, once a broker is up: a new client, whatever others do. *)
NewClient(c) ==
  /\ Settled /\ pc[c] = "ensure"
  /\ clients' = Append(clients, [socket |-> "handshaking", hello |-> FALSE, registered |-> FALSE])
  /\ pc' = [pc EXCEPT ![c] = "connect"]
  /\ on' = [on EXCEPT ![c] = newest + 1]
  /\ UNCHANGED <<answer, try, connected, stored, ends, silences>>

(* The handshake of this call's client succeeds; hello goes to the newest. *)
HandshakeDone(c) ==
  /\ Settled /\ pc[c] = "connect" /\ clients[on[c]].socket = "handshaking"
  /\ Ask(c, "hello")
  /\ clients' = Spoilt([clients EXCEPT ![on[c]].socket = "secure"])
  /\ UNCHANGED <<try, connected, stored, ends, silences>>

MutHandshakeTimeout(c) ==  (* Mutant: no timer runs during the handshake. *)
  FALSE

(* connect() watches only its timer once the socket was open. *)
HandshakeTimeout(c) ==
  /\ Settled /\ pc[c] = "connect" /\ ~Up(on[c])
  /\ Fail(c, FALSE)
  /\ UNCHANGED <<on, answer, stored, ends, silences>>

(* The broker handles a request of a call. *)
Serve(c) ==
  /\ Settled /\ pc[c] \in Stage /\ answer[c] = "none" /\ clients[on[c]].socket = "secure"
  /\ \E ok \in BOOLEAN :
       /\ pc[c] = "hello" => ok
       /\ pc[c] = "register" /\ ok => clients[on[c]].hello
       /\ pc[c] = "register" /\ ~ok => MayRefuse \/ ~clients[on[c]].hello
       /\ pc[c] \in {"signal", "dispatch"} => ok = clients[on[c]].registered
       /\ answer' = [answer EXCEPT ![c] = IF ok THEN "ok" ELSE "error"]
       /\ clients' = [clients EXCEPT ![on[c]].hello = @ \/ pc[c] = "hello",
                                     ![on[c]].registered = @ \/ (pc[c] = "register" /\ ok)]
       /\ stored' = [stored EXCEPT ![c] = IF pc[c] = "dispatch" /\ ok THEN @ + 1 ELSE @]
  /\ UNCHANGED <<pc, on, try, connected, ends, silences>>

(***************************************************************************)
(* An answer arrives.  ensureBroker looks at the answer to hello only; the *)
(* answers to register_session and signal_readiness are not looked at.     *)
(***************************************************************************)
MutAnswered(c) ==  (* Mutant: an error answer counts as a result. *)
  /\ Settled /\ pc[c] \in Stage /\ answer[c] # "none" /\ Up(on[c])
  /\ IF pc[c] \in {"hello", "register"}
     THEN /\ Ask(c, IF pc[c] = "hello" THEN "register" ELSE "signal")
          /\ clients' = Spoilt(clients) /\ UNCHANGED connected
     ELSE IF pc[c] = "signal" /\ c # Eager
     THEN Ask(c, "dispatch") /\ clients' = Spoilt(clients) /\ connected' = TRUE
     ELSE pc' = [pc EXCEPT ![c] = "done"] /\ connected' = TRUE /\ UNCHANGED <<on, answer, clients>>
  /\ UNCHANGED <<try, stored, ends, silences>>

Answered(c) ==
  /\ Settled /\ pc[c] \in Stage /\ answer[c] # "none" /\ Up(on[c])
  /\ CASE pc[c] = "hello" -> Ask(c, "register") /\ clients' = Spoilt(clients) /\ UNCHANGED connected
       [] pc[c] = "register" -> Ask(c, "signal") /\ clients' = Spoilt(clients) /\ UNCHANGED connected
       [] pc[c] = "signal" -> /\ connected' = TRUE
                              /\ IF c = Eager
                                 THEN pc' = [pc EXCEPT ![c] = "done"] /\ UNCHANGED <<on, answer, clients>>
                                 ELSE Ask(c, "dispatch") /\ clients' = Spoilt(clients)
       [] pc[c] = "dispatch" -> /\ pc' = [pc EXCEPT ![c] = IF answer[c] = "ok" THEN "done" ELSE "failed"]
                                /\ UNCHANGED <<on, answer, clients, connected>>
  /\ UNCHANGED <<try, stored, ends, silences>>

(* A request times out: its client is gone, or the broker is silent. *)
RequestTimeout(c) ==
  /\ Settled /\ pc[c] \in Stage
  /\ \/ clients[on[c]].socket = "closed" /\ UNCHANGED silences
     \/ Up(on[c]) /\ silences < MaxSilences /\ silences' = silences + 1
  /\ Fail(c, TRUE)
  /\ UNCHANGED <<on, answer, stored, ends>>

(* The socket of a client closes: onClose clears the one flag, and every    *)
(* request waiting on that client is rejected.                              *)
Closed(k) ==
  /\ Settled /\ clients[k].socket = "ending"
  /\ clients' = [clients EXCEPT ![k].socket = "closed"]
  /\ connected' = FALSE
  /\ pc' = [c \in Call |-> IF pc[c] \in Stage /\ on[c] = k THEN "rejected" ELSE pc[c]]
  /\ UNCHANGED <<on, answer, try, stored, ends, silences>>

(* toolCall's catch clause, for a call whose request was rejected. *)
Rejected(c) ==
  /\ pc[c] = "rejected"
  /\ Fail(c, TRUE)
  /\ UNCHANGED <<on, answer, stored, ends, silences>>

(* The broker ends, restarted by the next ensureBroker. *)
BrokerEnds ==
  /\ Settled /\ ends < MaxEnds
  /\ \E k \in 1..newest : Up(k)
  /\ CutsHandshake \/ \A k \in 1..newest : clients[k].socket # "handshaking"
  /\ clients' = [k \in 1..newest |-> IF Up(k) THEN [clients[k] EXCEPT !.socket = "ending"] ELSE clients[k]]
  /\ ends' = ends + 1
  /\ UNCHANGED <<pc, on, answer, try, connected, stored, silences>>

Events == \/ \E c \in Call : \/ NewClient(c) \/ HandshakeDone(c) \/ HandshakeTimeout(c) \/ Serve(c)
                             \/ Answered(c) \/ RequestTimeout(c) \/ Rejected(c)
          \/ \E k \in 1..newest : Closed(k)

AllEnded == \A c \in Call : pc[c] \in Ended

Next == Events \/ (\E c \in Call : Begin(c)) \/ BrokerEnds
        \/ (AllEnded /\ UNCHANGED vars)

Spec == Init /\ [][Next]_vars

(* Timers fire, the broker answers, events are delivered. *)
Fair == WF_vars(Events)

FairSpec == Spec /\ Fair

(***************************************************************************)
(* Properties.                                                             *)
(***************************************************************************)
TypeOK == /\ pc \in [Call -> Stage \cup Ended \cup {"new", "ensure", "connect", "rejected"}]
          /\ on \in [Call -> 0..newest] /\ try \in [Call -> {1, 2}] /\ connected \in BOOLEAN

(* Calls that do not overlap survive the loss of one established            *)
(* connection: the call that meets it reconnects, registers and is          *)
(* answered.                                                                *)
SurvivesOneLoss == ends + silences <= 1 => \A c \in Call : pc[c] # "failed"

(* However often the connection is lost, the message of one tool call is    *)
(* stored at most twice.                                                    *)
StoredAtMostTwice == \A c \in Tool : stored[c] <= 2

(* A call that was told it succeeded has its message stored. *)
SuccessIsStored == \A c \in Tool : pc[c] = "done" => stored[c] >= 1

(* Every tool call ends, also the ones that lose their client to another    *)
(* call, wait on a connection that was closed under the handshake, or are   *)
(* rejected while they retry.                                               *)
EveryCallEnds == \A c \in Tool : pc[c] # "new" ~> pc[c] \in Ended

(***************************************************************************)
(* What the repository says and the code does not do.                      *)
(***************************************************************************)
(* channel/mcp-server.ts: "ensureBroker swallows connect failures and a     *)
(* later tool call retries."  With the broker up all the time, a call that  *)
(* arrives during the eager registration fails.                             *)
NoLossNoFailure == ends + silences = 0 => \A c \in Call : pc[c] # "failed"

(* channel/mcp-server.ts: the "NEXT tool call transparently reconnects +    *)
(* re-registers".  After a refused register_session the connection counts   *)
(* as connected and no later call registers.                                *)
ConnectedIsRegistered == connected /\ Up(newest) => clients[newest].registered
=============================================================================
