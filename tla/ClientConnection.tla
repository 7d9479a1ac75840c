-------------------------- MODULE ClientConnection --------------------------
(***************************************************************************)
(* handle_connection of src/src/tcp_server.rs: one client, its receive     *)
(* buffer, the frame loop with resynchronisation, the limits, the timeouts *)
(* and the responses.  A zone router's clients are edge routers, so the    *)
(* frames come from connection.rs and the responses go to its reader_task. *)
(*                                                                         *)
(* The client is external.  It sends a few pieces, frames and garbage; TCP *)
(* delivers their bytes in chunks of any size, after any delay.  The frame *)
(* in position i has the clrid i.                                          *)
(***************************************************************************)
EXTENDS RouterProtocol

CONSTANTS
  Pieces,            \* what the client may send, names that PieceBytes knows
  MaxPieces,         \* bound on the number of pieces
  MaxRead,           \* most bytes that one read_buf returns
  max_buffer_size, max_frame_size,
  frame_timeout, idle_timeout,
  ScanWindow, ScanKeep   \* 64 and 8 in the code

\* What Config::parse checks of these.
Accepted == max_frame_size <= max_buffer_size /\ frame_timeout > 0

WellFormed == {"read", "write", "segments", "codecs", "keepalive"}
Garbage == {"noise", "absurd", "short", "binary", "long", "tiny", "wide",
            "unmarked", "cut"}

ASSUME ClientConnectionAssumption ==
  /\ Pieces \subseteq WellFormed \union Garbage
  /\ MaxPieces \in Nat /\ MaxRead \in Nat \ {0}
  /\ max_frame_size \in Nat /\ max_buffer_size \in Nat
  /\ frame_timeout \in Nat /\ idle_timeout \in Nat
  /\ Accepted
  /\ ScanWindow \in Nat /\ ScanKeep \in 0 .. ScanWindow

VARIABLES
  input,      \* what the client sends
  expected,   \* history: the frames that a scan of the whole input finds
  wire,       \* bytes that have not been read
  buf,        \* the receive buffer
  at,         \* "read", "parse", "forward", "write", "hung" or "closed"
  why,        \* why it is closed
  frame,      \* the request being forwarded
  response,   \* the response being written
  frames,     \* history: the frames decoded
  out,        \* bytes written to the client
  elapsed,    \* time since last_frame_time
  begun,      \* history: time since the first byte of buf was read
  idle,       \* time since the read began
  cancelled   \* the cancellation token

clock == <<elapsed, begun, idle>>
vars == <<input, expected, wire, buf, at, why, frame, response, frames, out,
          clock, cancelled>>

-----------------------------------------------------------------------------
(* The client (external) *)

ClientFrame(segment, is_write, clrid, payload) ==
  <<ROUTER_MAGIC>> \o to_le_bytes(1 + Len(segment) + 1 + 9 + Len(payload), 4)
    \o <<Len(segment)>> \o segment \o <<is_write, SHARD_MAGIC>>
    \o to_le_bytes(clrid, 4) \o to_le_bytes(Len(payload), 4) \o payload

PieceBytes(piece, clrid) ==
  CASE piece = "read" -> ClientFrame(<<65>>, 0, clrid, <<>>)
    [] piece = "write" -> ClientFrame(<<65>>, 1, clrid, <<ROUTER_MAGIC>>)
    [] piece = "segments" -> ClientFrame(GETSEGMENTS, 0, clrid, <<>>)
    [] piece = "codecs" -> ClientFrame(GETCODECS, 0, clrid, <<>>)
    [] piece = "keepalive" -> build_keepalive_frame(clrid)
    \* a byte that is no magic, a magic with an absurd length, a complete
    \* frame without room for a shard header, a segment that is not UTF-8, a
    \* frame above max_frame_size, a total_len below two, a segment longer
    \* than its frame, room for a shard header without its magic, and the
    \* beginning of a frame, which takes the bytes that follow for its rest
    [] piece = "noise" -> <<0>>
    [] piece = "absurd" -> <<ROUTER_MAGIC, 0, 0, 0, 2>>
    [] piece = "short" -> <<ROUTER_MAGIC, 3, 0, 0, 0, 0, 1, SHARD_MAGIC>>
    [] piece = "binary" -> ClientFrame(<<SHARD_MAGIC>>, 0, clrid, <<>>)
    [] piece = "long" -> ClientFrame(<<65>>, 0, clrid, Text(max_frame_size - 14))
    [] piece = "tiny" -> <<ROUTER_MAGIC, 1, 0, 0, 0, 0>>
    [] piece = "wide" -> <<ROUTER_MAGIC, 3, 0, 0, 0, 9, 65, 0>>
    [] piece = "unmarked" ->
         <<ROUTER_MAGIC, 12, 0, 0, 0, 1, 65>> \o [k \in 1 .. 10 |-> 0]
    [] piece = "cut" -> <<ROUTER_MAGIC, 12, 0, 0, 0, 1, 65>>

SentBytes == FlattenSeq([k \in DOMAIN input |-> PieceBytes(input[k], k)])

\* The frames of a stream: at every offset either a frame begins, or the
\* beginning of one that is not complete, or the next offset is tried.
FramesIn(stream) ==
  LET decoded(n) == try_decode_router(From(stream, n + 1))
      found[n \in 0 .. Len(stream)] ==
        IF n = Len(stream) THEN <<>>
        ELSE CASE decoded(n).kind = "frame" ->
                    <<decoded(n)>> \o found[n + decoded(n).frame_len]
               [] decoded(n).kind = "malformed" -> found[n + 1]
               [] decoded(n).kind = "incomplete" -> <<>>
  IN found[0]

Clrids(fs) == [k \in DOMAIN fs |-> fs[k].original_clrid]

-----------------------------------------------------------------------------
Init ==
  /\ input \in UNION {[1 .. n -> Pieces] : n \in 0 .. MaxPieces}
  /\ wire = SentBytes
  /\ expected = FramesIn(wire)
  /\ buf = <<>> /\ at = "read" /\ why = "none"
  /\ frame = Incomplete /\ response = <<>> /\ frames = <<>> /\ out = <<>>
  /\ elapsed = 0 /\ begun = 0 /\ idle = 0
  /\ cancelled = FALSE

\* Leaving handle_connection drops the socket, the buffer and the timers.
Close(reason) ==
  /\ at' = "closed" /\ why' = reason
  /\ wire' = <<>> /\ buf' = <<>> /\ frame' = Incomplete /\ response' = <<>>
  /\ elapsed' = 0 /\ idle' = 0
  /\ UNCHANGED <<input, expected, frames, out, begun, cancelled>>

\* Back to select!, which starts a new read with its own timeout.
AwaitRead == at' = "read" /\ idle' = 0

-----------------------------------------------------------------------------
(* select!: biased, so nothing is read once the token is cancelled. *)

SeeCancel == at = "read" /\ cancelled /\ Close("cancelled")

ReadSome ==
  /\ at = "read" /\ ~cancelled
  /\ \E n \in 1 .. MaxRead :
       /\ n <= Len(wire)
       /\ buf' = buf \o SubSeq(wire, 1, n)
       /\ wire' = From(wire, n + 1)
  /\ begun' = IF buf = <<>> THEN 0 ELSE begun
  /\ at' = "parse"
  /\ UNCHANGED <<input, expected, why, frame, response, frames, out, elapsed,
                 idle, cancelled>>

ReadEof == at = "read" /\ ~cancelled /\ wire = <<>> /\ Close("eof")

ReadFails == at = "read" /\ ~cancelled /\ Close("read")

\* Mutant: a started frame keeps the connection open.
IdleTimeoutEmpty ==
  at = "read" /\ ~cancelled /\ idle >= idle_timeout /\ buf = <<>>
    /\ Close("idle_timeout")

IdleTimeout ==
  at = "read" /\ ~cancelled /\ idle >= idle_timeout /\ Close("idle_timeout")

-----------------------------------------------------------------------------
(* The frame loop, one round per action. *)

Decoded == try_decode_router(buf)

Parsing(kind) ==
  at = "parse" /\ Len(buf) <= max_buffer_size /\ Decoded.kind = kind

BufferExceeded == at = "parse" /\ Len(buf) > max_buffer_size /\ Close("buffer")

\* "frame completion timeout (slow client)"
FrameTimeout ==
  Parsing("incomplete") /\ elapsed > frame_timeout /\ Close("frame_timeout")

WaitForMore ==
  /\ Parsing("incomplete") /\ elapsed <= frame_timeout
  /\ AwaitRead
  /\ UNCHANGED <<input, expected, wire, buf, why, frame, response, frames, out,
                 elapsed, begun, cancelled>>

FrameExceeds ==
  /\ Parsing("frame") /\ Decoded.frame_len > max_frame_size
  /\ Close("max_frame")

\* Mutant: the frame stays in the buffer.
SplitNothing(b, n) == b

\* What buf.split_to(n) leaves.
split_off(b, n) == From(b, n + 1)

\* A keepalive is activity and nothing else, anything else a request.
TakeFrame ==
  /\ Parsing("frame") /\ Decoded.frame_len <= max_frame_size
  /\ elapsed' = 0 /\ begun' = 0
  /\ frames' = Append(frames, Decoded)
  /\ buf' = split_off(buf, Decoded.frame_len)
  /\ IF Decoded.segment = KEEPALIVE_SEGMENT
     THEN UNCHANGED <<at, frame>>
     ELSE at' = "forward" /\ frame' = Decoded
  /\ UNCHANGED <<input, expected, wire, why, response, out, idle, cancelled>>

\* Drop one byte and all before the next magic; without one, keep a window.
Resync ==
  /\ Parsing("malformed")
  /\ LET rest == Tail(buf)
         pos == find_next_router_magic(rest)
     IN IF pos > 0
        THEN buf' = From(rest, pos) /\ UNCHANGED <<at, idle>>
        ELSE /\ buf' = IF Len(rest) > ScanWindow
                       THEN From(rest, Len(rest) - ScanKeep + 1) ELSE rest
             /\ AwaitRead
  /\ UNCHANGED <<input, expected, wire, why, frame, response, frames, out,
                 elapsed, begun, cancelled>>

-----------------------------------------------------------------------------
(* forward().await, module Forwarder, and the response *)

\* What forward may return for a frame, as bytes for the client.
ForwardResults(f) ==
  CASE f.segment = GETSEGMENTS ->
         {serialize_get_segments(f.original_clrid, <<<<65>>>>)}
    [] f.segment = GETCODECS -> {serialize_codecs(f.original_clrid, Text(2))}
    [] OTHER ->
         {RestoreClrid(Response(0, payload), f.original_clrid) :
            payload \in {<<>>, <<SHARD_MAGIC>>}}
         \union {build_error_response(f.original_clrid, code) : code \in 1 .. 4}

Forward ==
  /\ at = "forward"
  /\ response' \in ForwardResults(frame)
  /\ at' = "write"
  /\ UNCHANGED <<input, expected, wire, buf, why, frame, frames, out, clock,
                 cancelled>>

\* write_all and flush
WriteResponse ==
  /\ at = "write"
  /\ out' = out \o response
  /\ at' = "parse"
  /\ frame' = Incomplete /\ response' = <<>>
  /\ UNCHANGED <<input, expected, wire, buf, why, frames, clock, cancelled>>

\* A client that does not read holds the write up, for ever if it likes.
WriteHangs ==
  /\ at = "write"
  /\ at' = "hung"
  /\ UNCHANGED <<input, expected, wire, buf, why, frame, response, frames, out,
                 clock, cancelled>>

WriteFails == at \in {"write", "hung"} /\ Close("write")

-----------------------------------------------------------------------------
(* The environment *)

Later(t, limit) == IF t <= limit THEN t + 1 ELSE t

\* The frame loop does not await anything but forward and the write.
TimePasses ==
  /\ at \in {"read", "forward", "write"}
  /\ elapsed' = Later(elapsed, frame_timeout)
  /\ begun' = IF buf = <<>> THEN 0 ELSE Later(begun, frame_timeout)
  /\ idle' = IF at = "read" THEN Later(idle, idle_timeout) ELSE idle
  /\ UNCHANGED <<input, expected, wire, buf, at, why, frame, response, frames,
                 out, cancelled>>

Cancel ==
  /\ at # "closed" /\ ~cancelled
  /\ cancelled' = TRUE
  /\ UNCHANGED <<input, expected, wire, buf, at, why, frame, response, frames,
                 out, clock>>

-----------------------------------------------------------------------------
SelectStep == SeeCancel \/ ReadSome \/ ReadEof \/ ReadFails \/ IdleTimeout

ParseStep ==
  \/ BufferExceeded \/ FrameTimeout \/ WaitForMore \/ FrameExceeds
  \/ TakeFrame \/ Resync

Next ==
  \/ SelectStep \/ ParseStep
  \/ Forward \/ WriteResponse \/ WriteHangs \/ WriteFails
  \/ TimePasses \/ Cancel

Spec == Init /\ [][Next]_vars

\* Timers fire, the loop runs, forward returns (ForwardReturns of Forwarder),
\* and a write ends if the client reads.  Nothing is assumed of the client.
Fairness ==
  /\ WF_vars(TimePasses) /\ WF_vars(IdleTimeout) /\ WF_vars(SeeCancel)
  /\ WF_vars(ParseStep) /\ WF_vars(Forward) /\ WF_vars(WriteResponse)

FairSpec == Spec /\ Fairness

-----------------------------------------------------------------------------
(* Properties *)

Byte == 0 .. 255
Reasons == {"none", "cancelled", "eof", "read", "idle_timeout", "buffer",
            "frame_timeout", "max_frame", "write"}

\* Type invariant.  A decoded frame has room for its clrid, whatever the bytes
\* were: forward's check "frame too short for CLRID" never fails.
TypeOK ==
  /\ \A s \in {wire, buf, response, out} : \A k \in DOMAIN s : s[k] \in Byte
  /\ Len(buf) <= max_buffer_size + MaxRead
  /\ at \in {"read", "parse", "forward", "write", "hung", "closed"}
  /\ why \in Reasons /\ (at = "closed") = (why # "none")
  /\ at \in {"forward", "write", "hung"} => frame.kind = "frame"
  /\ Len(frames) <= Len(expected)
  /\ \A k \in DOMAIN frames : frames[k].clrid_offset + 3 <= frames[k].frame_len
  /\ elapsed \in 0 .. frame_timeout + 1 /\ begun \in 0 .. frame_timeout + 1
  /\ idle \in 0 .. idle_timeout + 1
  /\ cancelled \in BOOLEAN

\* Resynchronisation and the chunks in which bytes arrive make no difference:
\* what the frame loop decodes are the frames of the whole stream, in order;
\* it has found them all when it has read everything and waits for more.
FramesFound ==
  /\ IsPrefix(frames, expected)
  /\ at = "read" /\ wire = <<>> => frames = expected

Compliant ==
  \A k \in DOMAIN input :
    input[k] \in WellFormed /\ Len(PieceBytes(input[k], k)) <= max_frame_size

\* A client that sends only frames of legal size, keepalives of connection.rs
\* among them, has every one of them decoded with its clrid and is never
\* disconnected for what it sends, if the buffer has room for a frame and a
\* read.  (Config::parse only asks for room for a frame.)
CompliantServed ==
  Compliant =>
    /\ Clrids(expected) = [k \in DOMAIN input |-> k]
    /\ max_frame_size + MaxRead <= max_buffer_size + 1 =>
         why \notin {"buffer", "max_frame"}

\* The clrids of the frames that are no keepalives.
RequestsIn(fs) ==
  FlattenSeq([k \in DOMAIN fs |-> IF fs[k].segment = KEEPALIVE_SEGMENT
                                  THEN <<>> ELSE <<fs[k].original_clrid>>])

\* Every request is answered exactly once, under the client's clrid and in the
\* order of the requests, keepalives are not, and the reader_task of a router
\* on the other side finds exactly these responses in the bytes.
AnsweredInOrder ==
  LET answered == ResponsesIn(out) IN
  /\ IsPrefix(answered, RequestsIn(frames))
  /\ at \in {"read", "parse"} => answered = RequestsIn(frames)

\* The handler comes to an end, unless the client lets a write hang: the frame
\* loop terminates on any input and a silent client is timed out.
HandlerEnds == <>(at \in {"closed", "hung"})

\* config.rs: "Maximum time allowed to complete a single frame (seconds)." A
\* connection is closed for it only if the bytes of a frame have been waiting
\* for the rest of it for longer than that.
FrameGetsItsTime == why = "frame_timeout" => begun > frame_timeout
=============================================================================
