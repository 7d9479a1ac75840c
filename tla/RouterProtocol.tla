--------------------------- MODULE RouterProtocol ---------------------------
(***************************************************************************)
(* The frames of src/src/protocol.rs, and the response framing that        *)
(* reader_task of src/src/connection.rs expects.  A byte is a number below *)
(* 256, a buffer a sequence of bytes.  Fixed names and texts are cut down  *)
(* to letters; all lengths and offsets are the code's.  Offsets count from *)
(* 1 here and from 0 there.                                                *)
(***************************************************************************)
EXTENDS Naturals, Sequences, SequencesExt

ROUTER_MAGIC == 254
SHARD_MAGIC == 255

\* One letter stands for "__keepalive__", "GETSEGMENTS" and "__codecs__".
KEEPALIVE_SEGMENT == <<75>>
GETSEGMENTS == <<71>>
GETCODECS == <<67>>

\* A text that nobody reads, of the given length.
Text(n) == [k \in 1 .. n |-> 84]

to_le_bytes(n, width) == [k \in 1 .. width |-> (n \div 256 ^ (k - 1)) % 256]

\* Only ever called with four bytes, to make a u32.
from_le_bytes(s) == s[1] + 256 * (s[2] + 256 * (s[3] + 256 * s[4]))

From(s, k) == SubSeq(s, k, Len(s))

-----------------------------------------------------------------------------
(* Router frames: magic, total_len (4), seg_len (1), segment, is_write (1), *)
(* shard magic, clrid (4), payload_len (4), payload.                        *)

\* Bytes of the UTF-8 character that begins with byte b; 0 if none does.
Width(b) ==
  CASE b < 128 -> 1 [] b \in 194 .. 223 -> 2 [] b \in 224 .. 239 -> 3
    [] b \in 240 .. 244 -> 4 [] OTHER -> 0

Continuation == 128 .. 191

\* The second byte excludes overlong forms, surrogates and what is above U+10FFFF.
SecondBytes(b) ==
  CASE b = 224 -> 160 .. 191 [] b = 237 -> 128 .. 159
    [] b = 240 -> 144 .. 191 [] b = 244 -> 128 .. 143 [] OTHER -> Continuation

\* Every other byte begins a complete character, and every continuation byte
\* belongs to one.
from_utf8_ok(s) ==
  \A k \in DOMAIN s :
    IF s[k] \in Continuation
    THEN \E j \in 1 .. 3 :
           j < k /\ s[k - j] \notin Continuation /\ Width(s[k - j]) > j
    ELSE /\ Width(s[k]) > 0 /\ k + Width(s[k]) - 1 <= Len(s)
         /\ \A j \in 1 .. Width(s[k]) - 1 : s[k + j] \in Continuation
         /\ Width(s[k]) > 1 => s[k + 1] \in SecondBytes(s[k])

Incomplete == [kind |-> "incomplete"]
Malformed == [kind |-> "malformed"]

try_decode_router(buf) ==
  LET total_len == from_le_bytes(SubSeq(buf, 2, 5))
      frame_len == 5 + total_len
      segment == SubSeq(buf, 7, 6 + buf[6])
      is_write_pos == 7 + buf[6]
      shard_start == is_write_pos + 1
  IN IF Len(buf) < 5 THEN Incomplete
     ELSE IF buf[1] # ROUTER_MAGIC \/ total_len > 16 * 1024 * 1024 THEN Malformed
     ELSE IF Len(buf) < frame_len THEN Incomplete
     ELSE IF \/ total_len < 2 \/ is_write_pos > frame_len
             \/ ~from_utf8_ok(segment)
             \/ shard_start + 8 > frame_len \/ buf[shard_start] # SHARD_MAGIC
       THEN Malformed
     ELSE [kind |-> "frame", segment |-> segment,
           is_write |-> buf[is_write_pos] = 1,
           clrid_offset |-> shard_start + 1,
           original_clrid |->
             from_le_bytes(SubSeq(buf, shard_start + 1, shard_start + 4)),
           frame_len |-> frame_len]

\* Mutant: the last one.
FindLastMagic(buf) == SelectLastInSeq(buf, LAMBDA b : b = ROUTER_MAGIC)

\* 0 when there is none.
find_next_router_magic(buf) ==
  SelectInSeq(buf, LAMBDA b : b = ROUTER_MAGIC)

\* Mutant: total_len leaves out the four bytes that follow the clrid.
KeepaliveWithoutPlaceholder(clrid) ==
  <<ROUTER_MAGIC>> \o to_le_bytes(1 + Len(KEEPALIVE_SEGMENT) + 1 + 5, 4)
    \o <<Len(KEEPALIVE_SEGMENT)>> \o KEEPALIVE_SEGMENT \o <<0>>
    \o <<SHARD_MAGIC>> \o to_le_bytes(clrid, 4) \o to_le_bytes(0, 4)

build_keepalive_frame(clrid) ==
  <<ROUTER_MAGIC>> \o to_le_bytes(1 + Len(KEEPALIVE_SEGMENT) + 1 + 9, 4)
    \o <<Len(KEEPALIVE_SEGMENT)>> \o KEEPALIVE_SEGMENT \o <<0>>
    \o <<SHARD_MAGIC>> \o to_le_bytes(clrid, 4) \o to_le_bytes(0, 4)

-----------------------------------------------------------------------------
(* Responses: shard magic, clrid (4), payload_len (4), payload. *)

Response(clrid, payload) ==
  <<SHARD_MAGIC>> \o to_le_bytes(clrid, 4) \o to_le_bytes(Len(payload), 4)
    \o payload

Field(id, type, value) ==
  to_le_bytes(id, 2) \o <<type>> \o to_le_bytes(Len(value), 4) \o value

\* "ERROR", one field of declared length 4, then the message's length and its
\* three digits (404, 503, 408 or 500, by error_code).
build_error_response(clrid, error_code) ==
  Response(clrid, <<5>> \o Text(5) \o to_le_bytes(1, 2)
                    \o Field(1, 1, to_le_bytes(3, 4)) \o Text(3))

\* A key field and a zero count for every segment.
serialize_get_segments(clrid, segments) ==
  LET count == 2 * Len(segments) IN
  Response(clrid, <<7>> \o Text(7) \o to_le_bytes(count, 2)
    \o FlattenSeq([k \in 1 .. Len(segments) |->
         Field(2 * k - 1, 1, segments[k]) \o Field(2 * k, 3, to_le_bytes(0, 4))]))

serialize_codecs(clrid, codec_bytes) ==
  Response(clrid, <<7>> \o Text(7) \o to_le_bytes(1, 2)
                    \o Field(1, 9, codec_bytes))

\* Mutant: a response without payload is left alone.
RestoreClridOfPayload(response, clrid) ==
  IF Len(response) > 9
  THEN <<response[1]>> \o to_le_bytes(clrid, 4) \o From(response, 6)
  ELSE response

\* The forwarder gives the client its own clrid back.
RestoreClrid(response, clrid) ==
  IF Len(response) >= 9
  THEN <<response[1]>> \o to_le_bytes(clrid, 4) \o From(response, 6)
  ELSE response

\* The clrids of the responses that reader_task, the other side of a
\* connection between two routers, finds in a stream of bytes: a byte that is
\* not the magic is skipped, an incomplete response is waited for.
ResponsesIn(stream) ==
  LET end(n) == n + 9 + from_le_bytes(SubSeq(stream, n + 6, n + 9))
      found[n \in 0 .. Len(stream)] ==
        IF Len(stream) - n < 9 THEN <<>>
        ELSE IF stream[n + 1] # SHARD_MAGIC THEN found[n + 1]
        ELSE IF end(n) > Len(stream) THEN <<>>
        ELSE <<from_le_bytes(SubSeq(stream, n + 2, n + 5))>> \o found[end(n)]
  IN found[0]
=============================================================================
