------------------------------- MODULE IpcLink -------------------------------
(***************************************************************************)
(* One connection between an IpcClient (ipc/client.ts) and the IpcServer   *)
(* of the broker (ipc/server.ts), over the secure channel of               *)
(* ipc/secure-channel.ts: hello, server hello and finish in plaintext,     *)
(* then sealed records with a sequence number per direction.               *)
(*                                                                         *)
(* The socket is a FIFO in each direction that either end may destroy.     *)
(* Cryptography is symbolic: a derived key is the secret and the           *)
(* transcript it was derived from, a proof is a term nobody builds without *)
(* the key.  Timers fire at any time while they are armed.  Every request  *)
(* here is a pull of one message: the broker marks the message injected    *)
(* before it sends the answer, as onCheckpointPull and inboxView do.       *)
(***************************************************************************)
EXTENDS Integers, Sequences, FiniteSets

CONSTANTS Request,      \* the requests the client may make, one id each
          Secret,       \* root secrets an installation has had
          Size,         \* sizes a frame may have, a subset of AllSizes
          Width         \* sequence numbers are below Width (2^32 in the code)

VARIABLES secret,       \* root secret each end holds
          phase,        \* connect() of the client
          listening,    \* onHsData is installed on the client's socket
          socket,       \* the client's socket: "none", "up", "down"
          client,       \* SecureSession of the client, or NoSession
          broker,       \* the server's entry in conns
          up, down,     \* frames on the wire, client to broker and back
          pending,      \* the client's pending map
          result,       \* how the promise of each request settled
          injected,     \* messages the broker has marked injected
          presented,    \* ghost: messages whose body reached the client
          ivs           \* ghost: initialization vectors used, per direction

vars == <<secret, phase, listening, socket, client, broker, up, down,
          pending, result, injected, presented, ivs>>

(* A frame fits; or fits as plaintext but not once it is sealed and wrapped *)
(* in base64 (FRAME_BYTES equals MAX_PLAINTEXT); or not even as plaintext.  *)
AllSizes == {"fits", "overFrame", "overPlaintext"}

NoSession == [key |-> <<>>, sendSeq |-> 0, recvSeq |-> 0]
Established(s) == s.key # <<>>

(***************************************************************************)
(* secure-channel.ts                                                       *)
(***************************************************************************)
startClientHandshake == [kind |-> "ch", nonce |-> "cn"]

deriveAll(s, hello, core) == <<s, hello, core>>

proof(key, label) == <<label, key>>

serverHandshake(s, hello) ==
  LET core == [nonce |-> "sn"]
      key  == deriveAll(s, hello, core)
  IN  [key |-> key,
       hello |-> [kind |-> "sh", core |-> core, proof |-> proof(key, "server-finished")]]

clientFinish(s, hello, sh) ==
  LET key == deriveAll(s, hello, sh.core)
  IN  [key |-> key, ok |-> sh.proof = proof(key, "server-finished"),
       finish |-> [kind |-> "cf", proof |-> proof(key, "client-finished")]]

serverVerifyFinish(key, cf) == cf.proof = proof(key, "client-finished")

SecureSession(key) == [NoSession EXCEPT !.key = key]

iv(seq) == seq % Width

(* seal throws on an oversized plaintext and on an exhausted counter before *)
(* it takes a sequence number; encodeFrame throws after seal took one.      *)
MutSeal(s, size) ==  (* Mutant: the counter is not checked for exhaustion. *)
  [session |-> IF size = "overPlaintext" THEN s ELSE [s EXCEPT !.sendSeq = @ + 1],
   sealed  |-> size # "overPlaintext",
   written |-> size = "fits",
   seq     |-> iv(s.sendSeq)]

MutSealEarly(s, size) ==  (* Mutant: the number is taken before the size is checked. *)
  [session |-> [s EXCEPT !.sendSeq = @ + 1],
   sealed  |-> size # "overPlaintext" /\ s.sendSeq < Width - 1,
   written |-> size = "fits" /\ s.sendSeq < Width - 1,
   seq     |-> iv(s.sendSeq)]

seal(s, size) ==
  LET throws == size = "overPlaintext" \/ s.sendSeq >= Width - 1
  IN  [session |-> IF throws THEN s ELSE [s EXCEPT !.sendSeq = @ + 1],
       sealed  |-> ~throws,
       written |-> ~throws /\ size = "fits",
       seq     |-> iv(s.sendSeq)]

open(s, rec) ==
  [ok |-> rec.seq = iv(s.recvSeq) /\ rec.key = s.key,
   session |-> [s EXCEPT !.recvSeq = @ + 1]]

Record(s, out, r) == [kind |-> "rec", key |-> s.key, seq |-> out.seq, req |-> r]

Used(dir, out) == [ivs EXCEPT ![dir] = IF out.sealed THEN Append(@, out.seq) ELSE @]

(***************************************************************************)
(* States.  The two ends need not hold the same secret: a client may have  *)
(* read the file before a rotation.                                        *)
(***************************************************************************)
Closed == [open |-> FALSE, hello |-> <<>>, session |-> NoSession]

Init == /\ secret \in [{"client", "broker"} -> Secret]
        /\ phase = "idle" /\ listening = FALSE /\ socket = "none"
        /\ client = NoSession /\ broker = Closed
        /\ up = <<>> /\ down = <<>>
        /\ pending = {} /\ result = [r \in Request |-> "none"]
        /\ injected = {} /\ presented = {}
        /\ ivs = [d \in {"up", "down"} |-> <<>>]

(***************************************************************************)
(* The client.                                                             *)
(***************************************************************************)
Connect == /\ phase = "idle"
           /\ phase' = "hello" /\ socket' = "up" /\ listening' = TRUE
           /\ up' = <<startClientHandshake>>
           /\ broker' = [Closed EXCEPT !.open = TRUE]
           /\ UNCHANGED <<secret, client, down, pending, result, injected, presented, ivs>>

ConnectFails == /\ phase = "idle"
                /\ phase' = "failed"
                /\ UNCHANGED <<secret, listening, socket, client, broker, up, down,
                               pending, result, injected, presented, ivs>>

(* The timer rejects connect(); onHsData stays installed and the socket open. *)
HandshakeTimeout == /\ phase = "hello"
                    /\ phase' = "failed"
                    /\ UNCHANGED <<secret, listening, socket, client, broker, up, down,
                                   pending, result, injected, presented, ivs>>

MutOnHsData ==  (* Mutant: the proof of the broker is not compared. *)
  /\ listening /\ socket = "up" /\ down # <<>> /\ Head(down).kind = "sh"
  /\ listening' = FALSE /\ down' = Tail(down)
  /\ LET fin == clientFinish(secret["client"], startClientHandshake, Head(down))
     IN  /\ client' = SecureSession(fin.key)
         /\ up' = Append(up, fin.finish)
         /\ phase' = IF phase = "hello" THEN "open" ELSE phase
  /\ UNCHANGED <<secret, socket, broker, pending, result, injected, presented, ivs>>

onHsData ==
  /\ listening /\ socket = "up" /\ down # <<>> /\ Head(down).kind = "sh"
  /\ listening' = FALSE /\ down' = Tail(down)
  /\ LET fin == clientFinish(secret["client"], startClientHandshake, Head(down))
     IN  \/ /\ fin.ok
            /\ client' = SecureSession(fin.key)
            /\ up' = Append(up, fin.finish)
            /\ phase' = IF phase = "hello" THEN "open" ELSE phase
         \/ /\ ~fin.ok
            /\ phase' = "failed"
            /\ UNCHANGED <<client, up>>
  /\ UNCHANGED <<secret, socket, broker, pending, result, injected, presented, ivs>>

(* A write to a destroyed socket does not throw: the request waits for its  *)
(* timer.                                                                   *)
request(r) ==
  /\ phase = "open" /\ result[r] = "none"
  /\ \E size \in Size :
       LET out == seal(client, size)
       IN  /\ client' = out.session
           /\ ivs' = Used("up", out)
           /\ up' = IF out.written /\ socket = "up" THEN Append(up, Record(client, out, r)) ELSE up
           /\ pending' = IF out.written THEN pending \cup {r} ELSE pending
           /\ result' = [result EXCEPT ![r] = IF out.written THEN "waiting" ELSE "refused"]
  /\ UNCHANGED <<secret, phase, listening, socket, broker, down, injected, presented>>

RequestTimeout(r) ==
  /\ r \in pending
  /\ pending' = pending \ {r}
  /\ result' = [result EXCEPT ![r] = "timeout"]
  /\ UNCHANGED <<secret, phase, listening, socket, client, broker, up, down,
                 injected, presented, ivs>>

MutOnFrame(r) ==  (* Mutant: an answer settles whichever request waits. *)
  /\ \E q \in (IF pending = {} THEN {r} ELSE pending) :
       result' = [result EXCEPT ![q] = IF q \in pending THEN "answered" ELSE @]
  /\ pending' = {q \in pending : result'[q] # "answered"}

(* An answer nobody waits for any more goes to the push handlers. *)
onFrame(r) ==
  /\ pending' = pending \ {r}
  /\ result' = [result EXCEPT ![r] = IF r \in pending THEN "answered" ELSE @]

onData ==
  /\ phase = "open" /\ socket = "up" /\ down # <<>>
  /\ down' = Tail(down)
  /\ LET in == open(client, Head(down))
     IN  \/ /\ in.ok
            /\ client' = in.session
            /\ onFrame(Head(down).req)
            /\ presented' = presented \cup {Head(down).req}
            /\ UNCHANGED socket
         \/ /\ ~in.ok
            /\ socket' = "down"
            /\ UNCHANGED <<client, pending, result, presented>>
  /\ UNCHANGED <<secret, phase, listening, broker, up, injected, ivs>>

(* close(): the caller destroys the socket. *)
close == /\ socket = "up" /\ phase # "hello"
         /\ socket' = "down"
         /\ UNCHANGED <<secret, phase, listening, client, broker, up, down,
                        pending, result, injected, presented, ivs>>

MutOnClose ==  (* Mutant: the map is cleared and nobody is told. *)
  /\ socket = "down" /\ socket' = "closed"
  /\ pending' = {}
  /\ UNCHANGED <<secret, phase, listening, client, broker, up, down,
                 result, injected, presented, ivs>>

(* The close event, once: every pending request is rejected.  A request    *)
(* made later still writes to the dead socket and waits for its timer.     *)
onClose == /\ socket = "down" /\ socket' = "closed"
           /\ pending' = {}
           /\ result' = [r \in Request |-> IF r \in pending THEN "closed" ELSE result[r]]
           /\ UNCHANGED <<secret, phase, listening, client, broker, up, down,
                          injected, presented, ivs>>

(***************************************************************************)
(* The broker.                                                             *)
(***************************************************************************)
closeConn == /\ broker' = Closed
             /\ up' = <<>>
             /\ socket' = IF socket = "up" THEN "down" ELSE socket

Read == broker.open /\ up # <<>>

onClientHello ==
  /\ Read /\ Head(up).kind = "ch" /\ ~Established(broker.session)
  /\ LET srv == serverHandshake(secret["broker"], Head(up))
     IN  /\ broker' = [broker EXCEPT !.hello = srv.key]
         /\ down' = IF socket = "up" THEN Append(down, srv.hello) ELSE down
  /\ up' = Tail(up)
  /\ UNCHANGED <<secret, phase, listening, socket, client, pending, result,
                 injected, presented, ivs>>

onClientFinish ==
  /\ Read /\ Head(up).kind = "cf" /\ ~Established(broker.session)
  /\ \/ /\ broker.hello # <<>> /\ serverVerifyFinish(broker.hello, Head(up))
        /\ broker' = [broker EXCEPT !.session = SecureSession(broker.hello), !.hello = <<>>]
        /\ up' = Tail(up)
        /\ UNCHANGED socket
     \/ /\ ~(broker.hello # <<>> /\ serverVerifyFinish(broker.hello, Head(up)))
        /\ closeConn
  /\ UNCHANGED <<secret, phase, listening, client, down, pending, result,
                 injected, presented, ivs>>

(* send of makeServerConn: whatever seal or encodeFrame throws is logged,  *)
(* and nothing else happens.                                               *)
send(s, size, r) ==
  LET out == seal(s, size)
  IN  /\ broker' = [broker EXCEPT !.session = out.session]
      /\ ivs' = Used("down", out)
      /\ down' = IF out.written /\ socket = "up" THEN Append(down, Record(s, out, r)) ELSE down

(* A record: opened, handed to the daemon, answered; or the connection is  *)
(* closed.                                                                 *)
onRecord ==
  /\ Read /\ Head(up).kind = "rec"
  /\ LET in == open(broker.session, Head(up))
     IN  \/ /\ Established(broker.session) /\ in.ok
            /\ injected' = injected \cup {Head(up).req}
            /\ \E size \in Size : send(in.session, size, Head(up).req)
            /\ up' = Tail(up)
            /\ UNCHANGED socket
         \/ /\ ~(Established(broker.session) /\ in.ok)
            /\ closeConn
            /\ UNCHANGED <<down, injected, ivs>>
  /\ UNCHANGED <<secret, phase, listening, client, pending, result, presented>>

(* The handshake timer is cleared when the session is established. *)
MutHandshakeTimer ==  (* Mutant: the timer is cleared by the hello already. *)
  /\ broker.open /\ ~Established(broker.session) /\ broker.hello = <<>>
  /\ closeConn
  /\ UNCHANGED <<secret, phase, listening, client, down, pending, result,
                 injected, presented, ivs>>

HandshakeTimer == /\ broker.open /\ ~Established(broker.session)
                  /\ closeConn
                  /\ UNCHANGED <<secret, phase, listening, client, down, pending,
                                 result, injected, presented, ivs>>

(* The idle timer, a shutdown of the server, or the peer's close. *)
ServerClose == /\ broker.open
               /\ closeConn
               /\ UNCHANGED <<secret, phase, listening, client, down, pending,
                              result, injected, presented, ivs>>

Next == \/ Connect \/ ConnectFails \/ HandshakeTimeout \/ onHsData
        \/ (\E r \in Request : request(r) \/ RequestTimeout(r))
        \/ onData \/ close \/ onClose
        \/ onClientHello \/ onClientFinish \/ onRecord
        \/ HandshakeTimer \/ ServerClose

Spec == Init /\ [][Next]_vars

(* Timers fire and events are delivered; nobody is obliged to call, and     *)
(* the idle timer is not relied on.                                         *)
Fair == /\ WF_vars(HandshakeTimeout) /\ WF_vars(HandshakeTimer) /\ WF_vars(onClose)
        /\ \A r \in Request : WF_vars(RequestTimeout(r))

FairSpec == Spec /\ Fair

(***************************************************************************)
(* Properties.                                                             *)
(***************************************************************************)
TypeOK == /\ phase \in {"idle", "hello", "open", "failed"}
          /\ socket \in {"none", "up", "down", "closed"}
          /\ pending \subseteq Request
          /\ result \in [Request -> {"none", "waiting", "refused", "answered", "timeout", "closed"}]

(* connect() resolves only against a broker that holds the client's root    *)
(* secret, and whenever both ends have a session it rests on one key:       *)
(* clientFinish and serverVerifyFinish compare proofs over one transcript.  *)
OneKeyPerConnection ==
  /\ phase = "open" => secret["client"] = secret["broker"]
  /\ Established(client) /\ Established(broker.session) => client.key = broker.session.key

(* A request is answered only after the broker handled that very request:   *)
(* an answer that comes after its request timed out settles no other one.   *)
AnswerIsForTheRequest == \A r \in Request : result[r] = "answered" => r \in injected

(* No initialization vector is used twice under one key: seal refuses       *)
(* before the counter of a direction wraps.                                 *)
FreshVectors == \A d \in DOMAIN ivs : \A i, j \in 1..Len(ivs[d]) : ivs[d][i] = ivs[d][j] => i = j

(* While the broker has a session and nothing was lost to size, its next    *)
(* expected number is the number of the next record on the wire: the finish *)
(* is written before the first record and FIFO order does the rest, so a    *)
(* client that follows the protocol is never closed by open or by the       *)
(* pre-handshake check.                                                     *)
NextRecordOpens ==
  broker.open /\ up # <<>> /\ Head(up).kind = "rec" /\ "overFrame" \notin Size
    => Established(broker.session) /\ open(broker.session, Head(up)).ok

(* Every request settles: answered, refused, timed out, or rejected by the  *)
(* close of its connection.                                                 *)
EveryRequestSettles == \A r \in Request : result[r] = "waiting" ~> result[r] # "waiting"

(* A connection that does not finish its handshake does not keep its slot:  *)
(* the handshake timer outlives the hello.                                  *)
HandshakeSlotIsFreed ==
  broker.open /\ ~Established(broker.session) ~> ~broker.open \/ Established(broker.session)

(***************************************************************************)
(* What the repository says and the code does not do.                      *)
(***************************************************************************)
(* docs/secure-transport-spec.md: "(XBus uses an ordered stream; no gaps)". *)
(* seal takes a number before encodeFrame refuses the frame.                *)
NoGaps ==
  broker.open /\ Established(broker.session) /\ up # <<>> /\ Head(up).kind = "rec"
    => open(broker.session, Head(up)).ok

(* docs/delivery-semantics.md says of an injected, unacknowledged message   *)
(* "Already presented once".  An answer that does not fit is logged and     *)
(* dropped after its messages were marked.                                  *)
InjectedWasPresented ==
  \A r \in injected :
    socket = "up" /\ phase = "open" => \/ r \in presented
                                       \/ \E i \in 1..Len(down) : down[i].kind = "rec" /\ down[i].req = r

(* docs/secure-transport-spec.md: on sequence overflow "the connection is   *)
(* closed before reuse".  seal throws, the request is rejected and the      *)
(* connection stays up, of no further use.                                  *)
OverflowCloses ==
  [][\A r \in Request : client.sendSeq = Width - 1 /\ result[r] = "none" /\ result'[r] = "refused"
       => socket' # "up"]_vars
=============================================================================
