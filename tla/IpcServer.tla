------------------------------ MODULE IpcServer ------------------------------
(***************************************************************************)
(* The receiving side of the broker's endpoint: the accept path of         *)
(* ipc/server.ts with its limits and timers, and the incremental           *)
(* FrameDecoder of ipc/framing.ts, for several connections that share one  *)
(* buffer budget.                                                          *)
(*                                                                         *)
(* A byte stream is a sequence of bytes; a frame on it is one byte that    *)
(* declares the length (the four prefix bytes of the code) followed by     *)
(* that many body bytes.  The network cuts the stream into chunks          *)
(* wherever it likes.  A data handler runs to its end, so it is one step.  *)
(* Peers write frames of the handshake and sealed records, in the order    *)
(* and number they like: an older client, a client with another secret or  *)
(* a client that stops in the middle is among them.                        *)
(***************************************************************************)
EXTENDS Integers, Sequences, FiniteSets, FiniteSetsExt, SequencesExt

CONSTANTS Conn,             \* connections over the life of the server
          Payload,          \* frames peers write, a subset of AllPayloads
          maxConnections,
          connectRate,      \* connections accepted per window
          maxFrameBytes,    \* the longest body a frame may declare
          drainCap,         \* frames one drain hands out
          globalBudget,     \* bytes all decoders may hold
          MaxSent,          \* bound: frames a peer writes on one connection
          MaxAccepts        \* bound: windows of the rate limit that pass

VARIABLES conns,            \* connection -> "new", "open", "secure", "closed"
          hello,            \* connections with pendingKeys
          buf,              \* connection -> bytes the decoder holds
          totalBuffered,    \* the server's running count of those bytes
          recent,           \* connectTimestamps: accepts in the window
          windows,          \* windows that have passed
          wire,             \* connection -> bytes written and not yet read
          sent,             \* ghost: connection -> frames written
          dispatched,       \* ghost: connection -> frames handed to dispatch
          early,            \* ghost: a frame reached onFrame before the handshake ended
          closedFor         \* ghost: the budget was the reason of a close
                            \* although the bytes held were within it

vars == <<conns, hello, buf, totalBuffered, recent, windows, wire, sent,
          dispatched, early, closedFor>>

AllPayloads == {"ch", "chOther", "cf", "cfOther", "rec", "recOther", "plain",
                "notJson", "empty", "long"}

Live == {c \in Conn : conns[c] \in {"open", "secure"}}

(* Declared lengths: records are longer than the other frames. *)
LengthOf(p) == CASE p = "empty" -> 0
                 [] p = "long" -> maxFrameBytes + 1
                 [] p = "rec" -> maxFrameBytes
                 [] OTHER -> 1

encodeFrame(p) == <<[len |-> LengthOf(p), what |-> p]>>
                    \o [i \in 1..LengthOf(p) |-> [len |-> 0, what |-> "body"]]

(***************************************************************************)
(* FrameDecoder                                                            *)
(***************************************************************************)
hasCompleteFrame(b) == b # <<>> /\ Len(b) >= 1 + Head(b).len

(* drain: complete frames leave the buffer, at most drainCap of them; a bad *)
(* length or body throws, with the frames before it lost to the caller.     *)
RECURSIVE drainFrom(_, _)
drainFrom(b, frames) ==
  CASE Len(frames) = drainCap -> [buf |-> b, frames |-> frames, hasMore |-> hasCompleteFrame(b), throws |-> FALSE]
    [] b = <<>> -> [buf |-> b, frames |-> frames, hasMore |-> FALSE, throws |-> FALSE]
    [] b # <<>> /\ (Head(b).len = 0 \/ Head(b).len > maxFrameBytes) ->
         [buf |-> b, frames |-> <<>>, hasMore |-> FALSE, throws |-> TRUE]
    [] Len(b) < 1 + Head(b).len -> [buf |-> b, frames |-> frames, hasMore |-> FALSE, throws |-> FALSE]
    [] Head(b).what = "notJson" -> [buf |-> b, frames |-> <<>>, hasMore |-> FALSE, throws |-> TRUE]
    [] OTHER -> drainFrom(SubSeq(b, 2 + Head(b).len, Len(b)), Append(frames, Head(b).what))

MutDrain(b) ==  (* Mutant: the cap is reported as the end of the buffer. *)
  [drainFrom(b, <<>>) EXCEPT !.hasMore = FALSE]

MutDrainLate(b) ==  (* Mutant: the length is checked once the body is there. *)
  IF b # <<>> /\ Head(b).len > maxFrameBytes /\ Len(b) < 1 + Head(b).len
  THEN [buf |-> b, frames |-> <<>>, hasMore |-> FALSE, throws |-> FALSE]
  ELSE drainFrom(b, <<>>)

MutDrainDrops(b) ==  (* Mutant: what is left behind a capped drain is thrown away. *)
  LET r == drainFrom(b, <<>>)
  IN  IF Len(r.frames) = drainCap THEN [r EXCEPT !.buf = <<>>, !.hasMore = FALSE] ELSE r

drain(b) == drainFrom(b, <<>>)

(***************************************************************************)
(* The dispatch of frames to one connection, as a fold over what the       *)
(* decoder hands out.  The connection may be closed on the way, and the    *)
(* frames after that are dropped.                                          *)
(***************************************************************************)
MutDispatch(d, p) ==  (* Mutant: a plain frame is served before the handshake. *)
  CASE d.state = "closed" -> d
    [] d.state = "open" /\ p = "ch" -> [d EXCEPT !.hello = TRUE, !.out = Append(@, p)]
    [] d.state = "open" /\ p = "cf" /\ d.hello -> [d EXCEPT !.state = "secure", !.hello = FALSE, !.out = Append(@, p)]
    [] p \in {"rec", "plain"} -> [d EXCEPT !.out = Append(@, p), !.early = @ \/ d.state # "secure"]
    [] OTHER -> [d EXCEPT !.state = "closed", !.out = Append(@, p)]

dispatch(d, p) ==
  CASE d.state = "closed" -> d
    [] d.state = "open" /\ p = "ch" -> [d EXCEPT !.hello = TRUE, !.out = Append(@, p)]
    [] d.state = "open" /\ p = "cf" /\ d.hello -> [d EXCEPT !.state = "secure", !.hello = FALSE, !.out = Append(@, p)]
    [] d.state = "secure" /\ p = "rec" -> [d EXCEPT !.out = Append(@, p), !.early = @ \/ d.state # "secure"]
    [] OTHER -> [d EXCEPT !.state = "closed", !.out = Append(@, p)]

(* The loop of the data handler: dispatch, and drain again while there is  *)
(* more.  continueDrain does not touch the count of buffered bytes.        *)
RECURSIVE DispatchAll(_, _)
DispatchAll(d, r) ==
  LET e == FoldLeft(dispatch, d, r.frames)
      \* closeConn reads the decoder as it is when the connection closes
      at == IF d.state # "closed" /\ e.state = "closed" THEN [e EXCEPT !.held = Len(r.buf)] ELSE e
      done == [at EXCEPT !.buf = r.buf, !.throws = r.throws]
  IN  IF r.throws \/ ~r.hasMore THEN done ELSE DispatchAll(done, drain(r.buf))

(***************************************************************************)
(* closeConn: the bytes the decoder holds leave the count, which is kept   *)
(* from going below zero.                                                  *)
(***************************************************************************)
NotNegative(n) == IF n < 0 THEN 0 ELSE n

Init == /\ conns = [c \in Conn |-> "new"] /\ hello = {}
        /\ buf = [c \in Conn |-> <<>>] /\ totalBuffered = 0
        /\ recent = 0 /\ windows = 0
        /\ wire = [c \in Conn |-> <<>>] /\ sent = [c \in Conn |-> <<>>]
        /\ dispatched = [c \in Conn |-> <<>>] /\ early = FALSE /\ closedFor = FALSE

closeConn(c) == /\ conns' = [conns EXCEPT ![c] = "closed"]
                /\ hello' = hello \ {c}
                /\ totalBuffered' = NotNegative(totalBuffered - Len(buf[c]))
                /\ buf' = [buf EXCEPT ![c] = <<>>]
                /\ wire' = [wire EXCEPT ![c] = <<>>]

(***************************************************************************)
(* accept                                                                  *)
(***************************************************************************)
MutAccept(c) ==  (* Mutant: the time of an accepted connection is not kept. *)
  /\ conns[c] = "new"
  /\ conns' = [conns EXCEPT ![c] = IF Cardinality(Live) >= maxConnections THEN "closed" ELSE "open"]
  /\ UNCHANGED <<hello, buf, totalBuffered, recent, windows, wire, sent, dispatched, early, closedFor>>

accept(c) ==
  /\ conns[c] = "new"
  /\ \/ /\ Cardinality(Live) >= maxConnections \/ recent >= connectRate
        /\ conns' = [conns EXCEPT ![c] = "closed"]
        /\ UNCHANGED recent
     \/ /\ Cardinality(Live) < maxConnections /\ recent < connectRate
        /\ conns' = [conns EXCEPT ![c] = "open"]
        /\ recent' = recent + 1
  /\ UNCHANGED <<hello, buf, totalBuffered, windows, wire, sent, dispatched, early, closedFor>>

(* The sliding window of the rate limit lets go of its oldest entry. *)
WindowSlides == /\ recent > 0 /\ windows < MaxAccepts
                /\ recent' = recent - 1 /\ windows' = windows + 1
                /\ UNCHANGED <<conns, hello, buf, totalBuffered, wire, sent, dispatched, early, closedFor>>

(* The peer writes a frame. *)
PeerWrites(c, p) ==
  /\ c \in Live /\ Len(sent[c]) < MaxSent
  /\ wire' = [wire EXCEPT ![c] = @ \o encodeFrame(p)]
  /\ sent' = [sent EXCEPT ![c] = Append(@, p)]
  /\ UNCHANGED <<conns, hello, buf, totalBuffered, recent, windows, dispatched, early, closedFor>>

(***************************************************************************)
(* The data handler: push, count, budget, dispatch.  A push that throws    *)
(* has grown the buffer and not the count; both it and the budget end in   *)
(* closeConn.                                                              *)
(***************************************************************************)
Data(c, n) ==
  LET before == Len(buf[c])
      r      == drain(buf[c] \o SubSeq(wire[c], 1, n))
      total  == IF r.throws THEN totalBuffered ELSE totalBuffered + Len(r.buf) - before
      over   == ~r.throws /\ total > globalBudget
      d      == DispatchAll([state |-> conns[c], hello |-> c \in hello, out |-> <<>>, early |-> early,
                             buf |-> r.buf, throws |-> FALSE, held |-> 0],
                            IF r.throws \/ over THEN [r EXCEPT !.frames = <<>>, !.hasMore = FALSE] ELSE r)
      closes == r.throws \/ over \/ d.throws \/ d.state = "closed"
      held   == IF d.state = "closed" THEN d.held ELSE Len(d.buf)
  IN  /\ c \in Live /\ n \in 1..Len(wire[c])
      /\ conns' = [conns EXCEPT ![c] = IF closes THEN "closed" ELSE d.state]
      /\ hello' = IF d.hello /\ ~closes THEN hello \cup {c} ELSE hello \ {c}
      /\ buf' = [buf EXCEPT ![c] = IF closes THEN <<>> ELSE d.buf]
      /\ totalBuffered' = IF closes THEN NotNegative(total - held) ELSE total
      /\ wire' = [wire EXCEPT ![c] = IF closes THEN <<>> ELSE SubSeq(@, n + 1, Len(@))]
      /\ dispatched' = [dispatched EXCEPT ![c] = @ \o d.out]
      /\ early' = d.early
      /\ closedFor' = (closedFor \/ (over /\ FoldFunction(LAMBDA s, k : k + Len(s), 0,
                                               [buf EXCEPT ![c] = r.buf]) <= globalBudget))
      /\ UNCHANGED <<recent, windows, sent>>

(* The handshake timer, cleared once the connection is secure; the idle    *)
(* timer and the end of the peer, at any time.                             *)
HandshakeTimeout(c) == /\ conns[c] = "open"
                       /\ closeConn(c)
                       /\ UNCHANGED <<recent, windows, sent, dispatched, early, closedFor>>

SocketEnds(c) == /\ conns[c] = "secure"
                 /\ closeConn(c)
                 /\ UNCHANGED <<recent, windows, sent, dispatched, early, closedFor>>

Next == \/ WindowSlides
        \/ \E c \in Conn : \/ accept(c) \/ HandshakeTimeout(c) \/ SocketEnds(c)
                           \/ (\E p \in Payload : PeerWrites(c, p))
                           \/ (\E n \in 1..Len(wire[c]) : Data(c, n))

Spec == Init /\ [][Next]_vars

(* Bytes on the wire arrive. *)
Fair == \A c \in Conn : WF_vars(\E n \in 1..Len(wire[c]) : Data(c, n))

FairSpec == Spec /\ Fair

(***************************************************************************)
(* Properties.                                                             *)
(***************************************************************************)
TypeOK == /\ conns \in [Conn -> {"new", "open", "secure", "closed"}]
          /\ hello \subseteq Conn /\ totalBuffered \in Nat /\ recent \in 0..connectRate

(* However the stream is cut into chunks, dispatch sees the frames the peer *)
(* wrote, in order, none twice and none skipped.                            *)
FramesInOrder == \A c \in Conn : IsPrefix(dispatched[c], sent[c])

(* When a data handler ends, no complete frame is left in the buffer of a   *)
(* connection that is still open: nothing would come to drain it until the  *)
(* peer happened to write again.                                            *)
NothingCompleteWaits == \A c \in Live : ~hasCompleteFrame(buf[c])

(* The body of a frame that declares too much is never collected: what such *)
(* a connection holds does not grow.  (It may hold the rest of a chunk: a   *)
(* drain that stops at its cap does not look at the next length.)           *)
OversizeNeverGrowsStep ==
  \A c \in Live : buf[c] # <<>> /\ Head(buf[c]).len > maxFrameBytes => Len(buf'[c]) <= Len(buf[c])

OversizeNeverGrows == [][OversizeNeverGrowsStep]_vars

(* A frame reaches the daemon only over a connection that had finished its  *)
(* handshake.                                                               *)
OnlySecureFramesAreHandled == ~early

(* At most connectRate connections plus one per slide of the window were    *)
(* ever accepted, and never more than maxConnections are open.              *)
AcceptsAreBounded ==
  /\ Cardinality(Live) <= maxConnections
  /\ Cardinality({c \in Conn : sent[c] # <<>> \/ c \in Live}) <= connectRate + windows

(* Every frame a peer wrote is dispatched unless its connection ends.       *)
EveryFrameIsDispatched ==
  \A c \in Conn : Len(dispatched[c]) < Len(sent[c]) ~> conns[c] = "closed" \/ Len(dispatched[c]) = Len(sent[c])

(***************************************************************************)
(* What the repository says and the code does not do.                      *)
(***************************************************************************)
(* ipc/framing.ts calls bufferedBytes "Bytes currently buffered (for global *)
(* budget accounting)".  The total drifts from the sum of the buffers.      *)
TotalIsBytesHeld ==
  totalBuffered = FoldFunction(LAMBDA s, k : k + Len(s), 0, buf)

(* ADR 0010 bounds clients by "a global buffered-byte budget".  A           *)
(* connection is closed for exceeding it although fewer bytes are held.     *)
BudgetClosesOnlyOverBudget == ~closedFor
=============================================================================
