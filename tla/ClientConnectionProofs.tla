----------------------- MODULE ClientConnectionProofs -----------------------
(***************************************************************************)
(* The frame loop of handle_connection decodes exactly the frames of the   *)
(* stream, for every input, every way of cutting it into chunks and every  *)
(* limit; every request is answered once and in order; and a client that   *)
(* sends only legal frames is served.  What a recursive function such as   *)
(* FramesIn computes is reasoned about through its defining equation       *)
(* (Finds); that a solution exists, and what it finds, is shown by         *)
(* induction over a set of numbers (AllNat).                               *)
(***************************************************************************)
EXTENDS ClientConnection, SequenceTheorems, WellFoundedInduction, TLAPS

Bytes == Seq(Byte)

\* Natural numbers are well-ordered.
LEMMA LeastNat ==
  ASSUME NEW T \in SUBSET Nat, T # {}
  PROVE  \E m \in T : \A k \in T : m <= k
<1> DEFINE R == OpToRel(<, Nat)
<1>1. IsWellFoundedOn(R, Nat)
  BY NatLessThanWellFounded
<1> HIDE DEF R
<1>2. PICK m \in T : \A k \in T : ~ (<<k, m>> \in R)
  BY <1>1, WFMin
<1>3. \A k, n \in Nat : <<k, n>> \in R <=> k < n
  BY DEF R, OpToRel
<1>4. ASSUME NEW k \in T PROVE m <= k
  <2>1. ~ (k < m) /\ k \in Nat /\ m \in Nat
    BY <1>2, <1>3
  <2> QED
    BY <2>1
<1> QED
  BY <1>4

\* Induction, for a set of numbers.
LEMMA AllNat ==
  ASSUME NEW T, 0 \in T, \A n \in Nat : n \in T => n + 1 \in T
  PROVE  Nat \subseteq T
<1> SUFFICES ASSUME Nat \ T # {} PROVE FALSE
  OBVIOUS
<1>1. PICK m \in Nat \ T : \A k \in Nat \ T : m <= k
  BY LeastNat
<1>2. m # 0 /\ m - 1 \in Nat /\ ~(m <= m - 1)
  OBVIOUS
<1>3. m - 1 \in T
  BY <1>1, <1>2
<1> QED
  BY <1>2, <1>3

\* What From leaves.
LEMMA FromLeaves ==
  ASSUME NEW s \in Bytes, NEW k \in 1 .. Len(s) + 1
  PROVE  /\ From(s, k) \in Bytes
         /\ Len(From(s, k)) = Len(s) - k + 1
         /\ \A i \in 1 .. Len(s) - k + 1 : From(s, k)[i] = s[k + i - 1]
BY SubSeqProperties DEF Bytes, From

\* A buffer is a sequence of bytes.
LEMMA BytesAre ==
  ASSUME NEW s \in Bytes
  PROVE  Len(s) \in Nat /\ DOMAIN s = 1 .. Len(s) /\ \A k \in 1 .. Len(s) : s[k] \in Byte
BY DEF Bytes

\* Joining is associative.
AssociatesIn(S) == \A k, l, m \in Seq(S) : (k \o l) \o m = k \o (l \o m)

LEMMA Associates == \A S : AssociatesIn(S)
BY ConcatAssociative DEF AssociatesIn

LEMMA BytesAssociate == \A k, l, m \in Bytes : (k \o l) \o m = k \o (l \o m)
BY Associates DEF AssociatesIn, Bytes

\* Four bytes make a number.
LEMMA FourBytes ==
  ASSUME NEW t, \A i \in 1 .. 4 : t[i] \in Byte
  PROVE  from_le_bytes(t) \in Nat
<1>1. t[1] \in Nat /\ t[2] \in Nat /\ t[3] \in Nat /\ t[4] \in Nat
  <2>1. 1 \in 1 .. 4 /\ 2 \in 1 .. 4 /\ 3 \in 1 .. 4 /\ 4 \in 1 .. 4
    OBVIOUS
  <2>2. t[1] \in Byte /\ t[2] \in Byte /\ t[3] \in Byte /\ t[4] \in Byte
    BY <2>1
  <2> QED
    BY <2>2 DEF Byte
<1> QED
  BY <1>1 DEF from_le_bytes

\* u32::from_le_bytes of four bytes inside a buffer.
LEMMA FourBytesOf ==
  ASSUME NEW s \in Bytes, NEW k \in Nat \ {0}, k + 3 <= Len(s)
  PROVE  from_le_bytes(SubSeq(s, k, k + 3)) \in Nat
<1>1. \A i \in k .. k + 3 : s[i] \in Byte
  BY BytesAre
<1>2. \A i \in 1 .. 4 : SubSeq(s, k, k + 3)[i] = s[k + i - 1]
  BY <1>1, SubSeqProperties
<1>3. \A i \in 1 .. 4 : SubSeq(s, k, k + 3)[i] \in Byte
  BY <1>1, <1>2
<1> QED
  BY <1>3, FourBytes

\* The parts of try_decode_router: the length that the header declares, what is
\* wrong with a complete frame, and the frame.
TotalLen(b) == from_le_bytes(SubSeq(b, 2, 5))

HeaderBad(b) ==
  \/ TotalLen(b) < 2 \/ 7 + b[6] > 5 + TotalLen(b)
  \/ ~from_utf8_ok(SubSeq(b, 7, 6 + b[6]))
  \/ 7 + b[6] + 1 + 8 > 5 + TotalLen(b) \/ b[7 + b[6] + 1] # SHARD_MAGIC

FrameOf(b) ==
  [kind |-> "frame", segment |-> SubSeq(b, 7, 6 + b[6]),
   is_write |-> b[7 + b[6]] = 1,
   clrid_offset |-> 7 + b[6] + 1 + 1,
   original_clrid |->
     from_le_bytes(SubSeq(b, 7 + b[6] + 1 + 1, 7 + b[6] + 1 + 4)),
   frame_len |-> 5 + TotalLen(b)]

\* The first four bytes after the magic, and whether the frame can be one.
Refused(b) == b[1] # ROUTER_MAGIC \/ TotalLen(b) > 16 * 1024 * 1024

\* try_decode_router, one decision after the other.
LEMMA DecodeIs ==
  ASSUME NEW b
  PROVE  /\ Len(b) < 5 => try_decode_router(b) = Incomplete
         /\ ~(Len(b) < 5) /\ Refused(b) => try_decode_router(b) = Malformed
         /\ ~(Len(b) < 5) /\ ~Refused(b) =>
              /\ Len(b) < 5 + TotalLen(b) => try_decode_router(b) = Incomplete
              /\ ~(Len(b) < 5 + TotalLen(b)) =>
                   try_decode_router(b) =
                     IF HeaderBad(b) THEN Malformed ELSE FrameOf(b)
BY DEF try_decode_router, TotalLen, HeaderBad, FrameOf, Refused

\* A byte is a natural number.
LEMMA ByteIsNat == \A x \in Byte : x \in Nat
BY DEF Byte

\* What try_decode_router returns is told apart by its kind.
LEMMA Kinds ==
  /\ Incomplete.kind = "incomplete" /\ Malformed.kind = "malformed"
  /\ \A b : FrameOf(b).kind = "frame"
BY DEF Incomplete, Malformed, FrameOf

\* What try_decode_router returns: fewer than five bytes are incomplete, a first
\* byte that is no magic is malformed, and a frame lies inside the buffer with
\* room for its clrid.
LEMMA DecodeKind ==
  ASSUME NEW b \in Bytes
  PROVE  /\ Len(b) < 5 => try_decode_router(b).kind = "incomplete"
         /\ Len(b) >= 5 /\ b[1] # ROUTER_MAGIC => try_decode_router(b).kind = "malformed"
         /\ try_decode_router(b).kind \in {"incomplete", "malformed", "frame"}
         /\ try_decode_router(b).kind = "frame" =>
              /\ Len(b) >= 5
              /\ try_decode_router(b).frame_len \in 5 .. Len(b)
              /\ try_decode_router(b).clrid_offset + 3
                   <= try_decode_router(b).frame_len
<1>1. Len(b) \in Nat
  BY BytesAre
<1>2. Len(b) >= 5 => TotalLen(b) \in Nat
  BY <1>1, FourBytesOf DEF TotalLen
<1>4. FrameOf(b).frame_len = 5 + TotalLen(b)
  BY DEF FrameOf
<1>5. FrameOf(b).clrid_offset = 7 + b[6] + 1 + 1
  BY DEF FrameOf
<1>6. ASSUME ~(Len(b) < 5 + TotalLen(b)), Len(b) >= 5, ~HeaderBad(b)
      PROVE  FrameOf(b).clrid_offset + 3 <= FrameOf(b).frame_len
  <2>1. TotalLen(b) >= 2 /\ TotalLen(b) \in Nat
    BY <1>2, <1>6 DEF HeaderBad
  <2>2. 6 \in 1 .. Len(b)
    BY <1>1, <1>6, <2>1
  <2>3. b[6] \in Nat
    BY <2>2, BytesAre, ByteIsNat
  <2>4. 7 + b[6] + 1 + 8 <= 5 + TotalLen(b)
    BY <1>6, <2>1, <2>3 DEF HeaderBad
  <2> QED
    BY <1>4, <1>5, <2>1, <2>3, <2>4
<1> QED
  BY <1>1, <1>2, <1>4, <1>6, DecodeIs, Kinds DEF Refused

\* Two buffers that agree on the first bytes.
LEMMA SameSub ==
  ASSUME NEW b \in Bytes, NEW c \in Bytes, Len(b) <= Len(c),
         \A i \in 1 .. Len(b) : c[i] = b[i],
         NEW m \in Nat \ {0}, NEW n \in 0 .. Len(b)
  PROVE  SubSeq(c, m, n) = SubSeq(b, m, n)
<1>1. Len(b) \in Nat /\ Len(c) \in Nat
  BY BytesAre
<1>2. /\ \A i \in m .. n : b[i] \in Byte
      /\ \A i \in m .. n : c[i] \in Byte
  BY <1>1, BytesAre
<1>3. /\ SubSeq(b, m, n) \in Seq(Byte) /\ SubSeq(c, m, n) \in Seq(Byte)
      /\ Len(SubSeq(b, m, n)) = Len(SubSeq(c, m, n))
      /\ Len(SubSeq(b, m, n)) = IF m <= n THEN n - m + 1 ELSE 0
      /\ \A i \in 1 .. n - m + 1 :
           SubSeq(b, m, n)[i] = b[m + i - 1] /\ SubSeq(c, m, n)[i] = c[m + i - 1]
  BY <1>1, <1>2, SubSeqProperties
<1>4. \A i \in 1 .. Len(SubSeq(b, m, n)) : SubSeq(b, m, n)[i] = SubSeq(c, m, n)[i]
  <2>1. Len(SubSeq(b, m, n)) = n - m + 1 \/ Len(SubSeq(b, m, n)) = 0
    BY <1>3
  <2>2. \A i \in 1 .. n - m + 1 : SubSeq(b, m, n)[i] = SubSeq(c, m, n)[i]
    BY <1>3
  <2>3. 1 .. 0 = {}
    OBVIOUS
  <2> QED
    BY <2>1, <2>2, <2>3
<1> QED
  BY <1>3, <1>4, SeqEqual

\* What is decoded, or found malformed, does not depend on bytes that come later.
LEMMA DecodeAgrees ==
  ASSUME NEW b \in Bytes, NEW c \in Bytes, Len(b) <= Len(c),
         \A i \in 1 .. Len(b) : c[i] = b[i],
         try_decode_router(b).kind # "incomplete"
  PROVE  try_decode_router(c) = try_decode_router(b)
<1>1. Len(b) \in Nat /\ Len(c) \in Nat
  BY BytesAre
<1>2. Len(b) >= 5 /\ ~(Len(b) < 5) /\ ~(Len(c) < 5)
  BY DecodeKind, <1>1
<1>3. TotalLen(c) = TotalLen(b)
  <2>1. 5 \in 0 .. Len(b) /\ 2 \in Nat \ {0}
    BY <1>1, <1>2
  <2>2. SubSeq(c, 2, 5) = SubSeq(b, 2, 5)
    BY <2>1, SameSub
  <2> QED
    BY <2>2 DEF TotalLen
<1>4. TotalLen(b) \in Nat
  BY <1>1, <1>2, FourBytesOf DEF TotalLen
<1>5. c[1] = b[1]
  BY <1>1, <1>2
<1>6. Refused(b) <=> Refused(c)
  BY <1>3, <1>5 DEF Refused
<1>7. CASE Refused(b)
  BY <1>2, <1>6, <1>7, DecodeIs
<1>8. CASE ~Refused(b)
  <2>1. ~(Len(b) < 5 + TotalLen(b))
    BY <1>2, <1>8, DecodeIs, Kinds
  <2>2. ~(Len(c) < 5 + TotalLen(c))
    BY <1>1, <1>3, <1>4, <2>1
  <2>3. (HeaderBad(b) <=> HeaderBad(c)) /\ (~HeaderBad(b) => FrameOf(c) = FrameOf(b))
    <3>1. CASE TotalLen(b) < 2
      BY <1>3, <3>1 DEF HeaderBad
    <3>2. CASE ~(TotalLen(b) < 2)
      <4>1. 6 \in 1 .. Len(b)
        BY <1>1, <1>4, <2>1, <3>2
      <4>2. c[6] = b[6]
        BY <4>1
      <4>3. b[6] \in Nat
        BY <4>1, BytesAre, ByteIsNat
      <4>4. CASE 7 + b[6] > 5 + TotalLen(b)
        BY <1>3, <4>2, <4>4 DEF HeaderBad
      <4>5. CASE ~(7 + b[6] > 5 + TotalLen(b))
        <5>1. SubSeq(c, 7, 6 + b[6]) = SubSeq(b, 7, 6 + b[6])
          BY <1>1, <1>4, <2>1, <4>3, <4>5, SameSub
        <5>2. CASE 7 + b[6] + 1 + 8 > 5 + TotalLen(b)
          BY <1>3, <4>2, <5>2 DEF HeaderBad
        <5>3. CASE ~(7 + b[6] + 1 + 8 > 5 + TotalLen(b))
          <6>1. 7 + b[6] \in 1 .. Len(b) /\ 7 + b[6] + 1 \in 1 .. Len(b)
            <7>1. PICK x \in Nat, l \in Nat, m \in Nat :
                    x = b[6] /\ l = TotalLen(b) /\ m = Len(b)
              BY <1>1, <1>4, <4>3
            <7>2. ~(m < 5 + l) /\ ~(7 + x + 1 + 8 > 5 + l)
              BY <2>1, <5>3, <7>1
            <7>3. 7 + x \in 1 .. m /\ 7 + x + 1 \in 1 .. m
              BY <7>2
            <7> QED
              BY <7>1, <7>3
          <6>2. c[7 + b[6]] = b[7 + b[6]] /\ c[7 + b[6] + 1] = b[7 + b[6] + 1]
            BY <6>1
          <6>3. SubSeq(c, 7 + b[6] + 1 + 1, 7 + b[6] + 1 + 4)
                  = SubSeq(b, 7 + b[6] + 1 + 1, 7 + b[6] + 1 + 4)
            <7>1. PICK x \in Nat, l \in Nat, m \in Nat :
                    x = b[6] /\ l = TotalLen(b) /\ m = Len(b)
              BY <1>1, <1>4, <4>3
            <7>2. ~(m < 5 + l) /\ ~(7 + x + 1 + 8 > 5 + l)
              BY <2>1, <5>3, <7>1
            <7>3. 7 + x + 1 + 4 \in 0 .. m /\ 7 + x + 1 + 1 \in Nat \ {0}
              BY <7>2
            <7> QED
              BY <7>1, <7>3, SameSub
          <6>4. FrameOf(c) = FrameOf(b)
            BY <1>3, <4>2, <5>1, <6>2, <6>3 DEF FrameOf
          <6>5. HeaderBad(b) <=> HeaderBad(c)
            BY <1>3, <4>2, <5>1, <6>2 DEF HeaderBad
          <6> QED
            BY <6>4, <6>5
        <5> QED
          BY <5>2, <5>3
      <4> QED
        BY <4>4, <4>5
    <3> QED
      BY <3>1, <3>2
  <2> QED
    BY <1>2, <1>6, <1>8, <2>1, <2>2, <2>3, DecodeIs
<1> QED
  BY <1>7, <1>8
-----------------------------------------------------------------------------
(* The frames of a stream *)

\* What FramesIn tries at offset n.
At(s, n) == try_decode_router(From(s, n + 1))

Body(s, f, n) ==
  IF n = Len(s) THEN <<>>
  ELSE CASE At(s, n).kind = "frame" -> <<At(s, n)>> \o f[n + At(s, n).frame_len]
         [] At(s, n).kind = "malformed" -> f[n + 1]
         [] At(s, n).kind = "incomplete" -> <<>>

\* f finds, from every offset of s, the frames that begin there or later.
Finds(s, f) == f = [n \in 0 .. Len(s) |-> Body(s, f, n)]

\* What begins at an offset of a stream ends inside the stream.
LEMMA AtInside ==
  ASSUME NEW s \in Bytes, NEW n \in 0 .. Len(s)
  PROVE  /\ Len(From(s, n + 1)) = Len(s) - n
         /\ At(s, n).kind \in {"frame", "malformed", "incomplete"}
         /\ At(s, n).kind = "frame" => At(s, n).frame_len \in 5 .. Len(s) - n
<1>1. n + 1 \in 1 .. Len(s) + 1 /\ Len(s) \in Nat
  BY BytesAre
<1>2. From(s, n + 1) \in Bytes /\ Len(From(s, n + 1)) = Len(s) - n
  BY <1>1, FromLeaves
<1> QED
  BY <1>2, DecodeKind DEF At

\* The body looks at larger offsets only.
LEMMA BodyAgrees ==
  ASSUME NEW s \in Bytes, NEW n \in 0 .. Len(s), NEW f, NEW g,
         \A k \in n + 1 .. Len(s) : f[k] = g[k]
  PROVE  Body(s, f, n) = Body(s, g, n)
<1>1. Len(s) \in Nat
  BY BytesAre
<1>2. CASE n = Len(s)
  BY <1>2 DEF Body
<1>3. CASE n # Len(s)
  <2>1. f[n + 1] = g[n + 1]
    BY <1>1, <1>3
  <2>2. At(s, n).kind = "frame" => f[n + At(s, n).frame_len] = g[n + At(s, n).frame_len]
    <3>1. SUFFICES ASSUME At(s, n).kind = "frame"
                   PROVE  n + At(s, n).frame_len \in n + 1 .. Len(s)
      OBVIOUS
    <3>2. At(s, n).frame_len \in 5 .. Len(s) - n
      BY <3>1, AtInside
    <3> QED
      BY <1>1, <3>2
  <2>3. At(s, n).kind \in {"frame", "malformed", "incomplete"}
    BY AtInside
  <2> QED
    BY <2>1, <2>2, <2>3 DEF Body
<1> QED
  BY <1>2, <1>3

\* Some function satisfies the equation in the last m offsets.
FindsLast(s, m) ==
  \E f : /\ DOMAIN f = 0 .. Len(s) /\ f = [n \in 0 .. Len(s) |-> f[n]]
         /\ \A n \in Len(s) - m .. Len(s) : f[n] = Body(s, f, n)

\* The recursion of FramesIn is well-founded.
LEMMA FoundExists ==
  ASSUME NEW s \in Bytes
  PROVE  \E f : Finds(s, f)
<1> Len(s) \in Nat
  BY BytesAre
<1> DEFINE T == {m \in Nat : m <= Len(s) => FindsLast(s, m)}
<1>1. 0 \in T
  <2> DEFINE f == [n \in 0 .. Len(s) |-> <<>>]
  <2>1. f[Len(s)] = Body(s, f, Len(s))
    BY DEF Body
  <2>2. \A n \in Len(s) - 0 .. Len(s) : n = Len(s)
    OBVIOUS
  <2>3. DOMAIN f = 0 .. Len(s) /\ f = [n \in 0 .. Len(s) |-> f[n]]
    OBVIOUS
  <2>4. FindsLast(s, 0)
    BY <2>1, <2>2, <2>3 DEF FindsLast
  <2> QED
    BY <2>4
<1>2. ASSUME NEW m \in Nat, m \in T PROVE m + 1 \in T
  <2> SUFFICES ASSUME m + 1 <= Len(s) PROVE FindsLast(s, m + 1)
    OBVIOUS
  <2>1. FindsLast(s, m)
    BY <1>2
  <2>2. PICK f : /\ DOMAIN f = 0 .. Len(s) /\ f = [n \in 0 .. Len(s) |-> f[n]]
                 /\ \A n \in Len(s) - m .. Len(s) : f[n] = Body(s, f, n)
    BY <2>1 DEF FindsLast
  <2>3. PICK j \in 0 .. Len(s) : j = Len(s) - (m + 1)
    <3>1. Len(s) - (m + 1) \in 0 .. Len(s)
      OBVIOUS
    <3> QED
      BY <3>1
  <2>4. PICK g : g = [n \in 0 .. Len(s) |-> IF n = j THEN Body(s, f, j) ELSE f[n]]
    OBVIOUS
  <2>5. \A n \in j + 1 .. Len(s) : g[n] = f[n]
    BY <2>4
  <2>6. ASSUME NEW n \in Len(s) - (m + 1) .. Len(s) PROVE g[n] = Body(s, g, n)
    <3>1. n \in 0 .. Len(s) /\ n >= j
      BY <2>3
    <3>2. \A k \in n + 1 .. Len(s) : f[k] = g[k]
      BY <2>5, <3>1
    <3>3. Body(s, f, n) = Body(s, g, n)
      BY <3>1, <3>2, BodyAgrees
    <3>4. CASE n = j
      BY <2>4, <3>1, <3>3, <3>4
    <3>5. CASE n # j
      <4>1. n \in Len(s) - m .. Len(s)
        BY <2>3, <3>1, <3>5
      <4>2. g[n] = f[n]
        BY <2>4, <3>1, <3>5
      <4> QED
        BY <2>2, <3>3, <4>1, <4>2
    <3> QED
      BY <3>4, <3>5
  <2>7. DOMAIN g = 0 .. Len(s) /\ g = [n \in 0 .. Len(s) |-> g[n]]
    BY <2>4
  <2> QED
    BY <2>6, <2>7 DEF FindsLast
<1> HIDE DEF T
<1>3. Nat \subseteq T
  BY <1>1, <1>2, AllNat
<1>4. FindsLast(s, Len(s))
  BY <1>3 DEF T
<1>5. PICK f : /\ DOMAIN f = 0 .. Len(s) /\ f = [n \in 0 .. Len(s) |-> f[n]]
               /\ \A n \in Len(s) - Len(s) .. Len(s) : f[n] = Body(s, f, n)
  BY <1>4 DEF FindsLast
<1>6. \A n \in 0 .. Len(s) : f[n] = Body(s, f, n)
  BY <1>5
<1>7. f = [n \in 0 .. Len(s) |-> Body(s, f, n)]
  BY <1>5, <1>6
<1> QED
  BY <1>7 DEF Finds

\* FramesIn is what such a function finds from the first offset on.
LEMMA FramesInIs ==
  ASSUME NEW s \in Bytes
  PROVE  \E f : Finds(s, f) /\ FramesIn(s) = f[0]
<1> DEFINE f == CHOOSE h : h = [n \in 0 .. Len(s) |-> Body(s, h, n)]
<1>1. Finds(s, f)
  BY FoundExists, Zenon DEF Finds
<1>2. FramesIn(s) = f[0]
  BY DEF FramesIn, Body, At
<1> QED
  BY <1>1, <1>2

\* What is found, by the first thing that begins at an offset.
LEMMA FoundFrom ==
  ASSUME NEW s \in Bytes, NEW f, Finds(s, f), NEW n \in 0 .. Len(s)
  PROVE  /\ n = Len(s) => f[n] = <<>>
         /\ n # Len(s) /\ At(s, n).kind = "malformed" => f[n] = f[n + 1]
         /\ At(s, n).kind = "incomplete" => f[n] = <<>>
         /\ n # Len(s) /\ At(s, n).kind = "frame" =>
              f[n] = <<At(s, n)>> \o f[n + At(s, n).frame_len]
<1>1. f[n] = Body(s, f, n)
  BY DEF Finds
<1> QED
  BY <1>1 DEF Body

\* Everything that a stream may hold.
Found(s) == {At(s, n) : n \in 0 .. Len(s)}

\* The offsets among the last m find sequences of frames.
FindsFrames(s, f, m) ==
  \A n \in Len(s) - m .. Len(s) : n \in 0 .. Len(s) => f[n] \in Seq(Found(s))

\* From every offset a sequence of what the stream holds is found.
LEMMA FoundTypes ==
  ASSUME NEW s \in Bytes, NEW f, Finds(s, f)
  PROVE  \A n \in 0 .. Len(s) : f[n] \in Seq(Found(s))
<1> Len(s) \in Nat
  BY BytesAre
<1> DEFINE T == {m \in Nat : FindsFrames(s, f, m)}
<1>1. 0 \in T
  <2>1. Len(s) \in 0 .. Len(s)
    OBVIOUS
  <2>2. f[Len(s)] = <<>>
    BY <2>1, FoundFrom
  <2>3. \A n \in Len(s) - 0 .. Len(s) : n = Len(s)
    OBVIOUS
  <2>4. <<>> \in Seq(Found(s))
    OBVIOUS
  <2>5. FindsFrames(s, f, 0)
    BY <2>2, <2>3, <2>4 DEF FindsFrames
  <2> QED
    BY <2>5
<1>2. ASSUME NEW m \in Nat, m \in T PROVE m + 1 \in T
  <2>1. ASSUME NEW n \in Len(s) - (m + 1) .. Len(s), n \in 0 .. Len(s)
        PROVE  f[n] \in Seq(Found(s))
    <3>1. \A k \in n + 1 .. Len(s) : f[k] \in Seq(Found(s))
      <4>1. FindsFrames(s, f, m)
        BY <1>2
      <4> QED
        BY <2>1, <4>1 DEF FindsFrames
    <3>2. CASE n = Len(s)
      <4>1. f[n] = <<>>
        BY <2>1, <3>2, FoundFrom
      <4> QED
        BY <4>1
    <3>3. CASE n # Len(s) /\ At(s, n).kind = "malformed"
      <4>1. n + 1 \in n + 1 .. Len(s)
        BY <2>1, <3>3
      <4> QED
        BY <2>1, <3>1, <3>3, <4>1, FoundFrom
    <3>4. CASE At(s, n).kind = "incomplete"
      <4>1. f[n] = <<>>
        BY <2>1, <3>4, FoundFrom
      <4> QED
        BY <4>1
    <3>5. CASE n # Len(s) /\ At(s, n).kind = "frame"
      <4>1. PICK k \in n + 1 .. Len(s) : k = n + At(s, n).frame_len
        <5>1. At(s, n).frame_len \in 5 .. Len(s) - n
          BY <2>1, <3>5, AtInside
        <5>2. n + At(s, n).frame_len \in n + 1 .. Len(s)
          BY <2>1, <5>1
        <5> QED
          BY <5>2
      <4>2. f[n] = <<At(s, n)>> \o f[k]
        BY <2>1, <3>5, <4>1, FoundFrom
      <4>3. At(s, n) \in Found(s)
        BY <2>1 DEF Found
      <4>4. <<At(s, n)>> \in Seq(Found(s)) /\ f[k] \in Seq(Found(s))
        BY <3>1, <4>3
      <4> QED
        BY <4>2, <4>4, ConcatProperties
    <3> QED
      BY <2>1, <3>2, <3>3, <3>4, <3>5, AtInside
  <2> QED
    BY <2>1 DEF FindsFrames
<1> HIDE DEF T
<1>3. Len(s) \in T
  BY <1>1, <1>2, AllNat
<1>4. FindsFrames(s, f, Len(s))
  BY <1>3 DEF T
<1> QED
  BY <1>4 DEF FindsFrames

\* A byte that is not the magic begins nothing.
LEMMA SkipByte ==
  ASSUME NEW s \in Bytes, NEW f, Finds(s, f), NEW n \in 0 .. Len(s), n # Len(s),
         s[n + 1] # ROUTER_MAGIC
  PROVE  f[n] = f[n + 1]
<1>1. Len(s) \in Nat /\ n + 1 \in 0 .. Len(s) /\ n + 1 \in 1 .. Len(s) + 1
  BY BytesAre
<1>2. /\ From(s, n + 1) \in Bytes /\ Len(From(s, n + 1)) = Len(s) - n
      /\ From(s, n + 1)[1] = s[n + 1]
  BY <1>1, FromLeaves
<1>3. CASE Len(s) - n >= 5
  <2>1. At(s, n).kind = "malformed"
    BY <1>2, <1>3, DecodeKind DEF At
  <2> QED
    BY <2>1, FoundFrom
<1>4. CASE ~(Len(s) - n >= 5)
  <2>1. At(s, n).kind = "incomplete"
    BY <1>1, <1>2, <1>4, DecodeKind DEF At
  <2>2. f[n] = <<>>
    BY <2>1, FoundFrom
  <2>3. CASE n + 1 = Len(s)
    BY <1>1, <2>2, <2>3, FoundFrom
  <2>4. CASE n + 1 # Len(s)
    <3>1. n + 1 + 1 \in 1 .. Len(s) + 1
      BY <1>1, <2>4
    <3>2. From(s, n + 1 + 1) \in Bytes /\ Len(From(s, n + 1 + 1)) = Len(s) - (n + 1)
      BY <3>1, FromLeaves
    <3>3. At(s, n + 1).kind = "incomplete"
      BY <1>1, <1>4, <3>2, DecodeKind DEF At
    <3> QED
      BY <1>1, <2>2, <3>3, FoundFrom
  <2> QED
    BY <2>3, <2>4
<1> QED
  BY <1>3, <1>4

\* Nor do several.
LEMMA SkipBytes ==
  ASSUME NEW s \in Bytes, NEW f, Finds(s, f), NEW n \in 0 .. Len(s),
         NEW j \in 0 .. Len(s) - n,
         \A k \in n + 1 .. n + j : s[k] # ROUTER_MAGIC
  PROVE  f[n] = f[n + j]
<1> Len(s) \in Nat
  BY BytesAre
<1> DEFINE T == {m \in Nat : m <= j => f[n] = f[n + m]}
<1>1. 0 \in T
  OBVIOUS
<1>2. ASSUME NEW m \in Nat, m \in T PROVE m + 1 \in T
  <2> SUFFICES ASSUME m + 1 <= j PROVE f[n] = f[n + (m + 1)]
    OBVIOUS
  <2>1. f[n] = f[n + m]
    BY <1>2
  <2>2. /\ n + m \in 0 .. Len(s) /\ n + m # Len(s) /\ n + m + 1 \in n + 1 .. n + j
        /\ n + (m + 1) = n + m + 1
    OBVIOUS
  <2>3. f[n + m] = f[n + m + 1]
    BY <2>2, SkipByte
  <2> QED
    BY <2>1, <2>2, <2>3
<1> HIDE DEF T
<1>3. j \in T
  BY <1>1, <1>2, AllNat
<1> QED
  BY <1>3 DEF T
-----------------------------------------------------------------------------
(* What the client sends *)

\* Bytes and bytes are bytes.
LEMMA Joined ==
  ASSUME NEW s \in Bytes, NEW t \in Bytes
  PROVE  s \o t \in Bytes
BY ConcatProperties DEF Bytes

\* to_le_bytes makes bytes of any number.
LEMMA ToLeBytes ==
  ASSUME NEW n \in Nat, NEW w \in {2, 4}
  PROVE  to_le_bytes(n, w) \in Bytes
<1>1. ASSUME NEW k \in 1 .. w PROVE (n \div 256 ^ (k - 1)) % 256 \in Byte
  <2>1. k \in {1, 2, 3, 4}
    OBVIOUS
  <2>2. CASE k = 1
    <3>1. 256 ^ (k - 1) = 1
      BY <2>2
    <3> QED
      BY <3>1 DEF Byte
  <2>3. CASE k = 2
    <3>1. 256 ^ (k - 1) = 256
      BY <2>3
    <3> QED
      BY <3>1 DEF Byte
  <2>4. CASE k = 3
    <3>1. 256 ^ (k - 1) = 256 * 256
      BY <2>4
    <3> QED
      BY <3>1 DEF Byte
  <2>5. CASE k = 4
    <3>1. 256 ^ (k - 1) = 256 * 256 * 256
      BY <2>5
    <3> QED
      BY <3>1 DEF Byte
  <2> QED
    BY <2>1, <2>2, <2>3, <2>4, <2>5
<1>2. w \in Nat
  OBVIOUS
<1> QED
  BY <1>1, <1>2 DEF to_le_bytes, Bytes

\* A text is a sequence of bytes, of any length.
LEMMA TextBytes ==
  ASSUME NEW n \in Int
  PROVE  Text(n) \in Bytes
<1>1. 84 \in Byte
  BY DEF Byte
<1>2. CASE n \in Nat
  BY <1>1, <1>2 DEF Text, Bytes
<1>3. CASE n \notin Nat
  <2>1. 1 .. n = {} /\ 1 .. 0 = {}
    BY <1>3
  <2>2. Text(n) = [k \in 1 .. 0 |-> 84]
    BY <2>1 DEF Text
  <2> QED
    BY <1>1, <2>2 DEF Bytes
<1> QED
  BY <1>2, <1>3

\* A frame of a client is a sequence of bytes.
LEMMA ClientFrameBytes ==
  ASSUME NEW segment \in Bytes, NEW is_write \in Byte, NEW clrid \in Nat,
         NEW payload \in Bytes, Len(segment) \in Byte
  PROVE  ClientFrame(segment, is_write, clrid, payload) \in Bytes
<1>1. /\ Len(segment) \in Nat /\ Len(payload) \in Nat
  BY BytesAre
<1>2. /\ to_le_bytes(1 + Len(segment) + 1 + 9 + Len(payload), 4) \in Bytes
      /\ to_le_bytes(clrid, 4) \in Bytes /\ to_le_bytes(Len(payload), 4) \in Bytes
  BY <1>1, ToLeBytes
<1>3. /\ <<ROUTER_MAGIC>> \in Bytes /\ <<Len(segment)>> \in Bytes
      /\ <<is_write, SHARD_MAGIC>> \in Bytes
  BY DEF Bytes, ROUTER_MAGIC, SHARD_MAGIC, Byte
<1> QED
  BY <1>2, <1>3, Joined DEF ClientFrame

\* So is everything that a client sends, frame or garbage.
LEMMA PieceIsBytes ==
  ASSUME NEW piece \in Pieces, NEW clrid \in Nat
  PROVE  PieceBytes(piece, clrid) \in Bytes
<1>1. piece \in WellFormed \union Garbage
  BY ClientConnectionAssumption
<1>2. /\ <<65>> \in Bytes /\ GETSEGMENTS \in Bytes /\ GETCODECS \in Bytes
      /\ KEEPALIVE_SEGMENT \in Bytes /\ <<SHARD_MAGIC>> \in Bytes
      /\ <<ROUTER_MAGIC>> \in Bytes /\ <<0>> \in Bytes /\ <<>> \in Bytes
  BY DEF Bytes, Byte, GETSEGMENTS, GETCODECS, KEEPALIVE_SEGMENT, ROUTER_MAGIC,
    SHARD_MAGIC
<1>3. /\ Len(<<65>>) \in Byte /\ Len(GETSEGMENTS) \in Byte
      /\ Len(GETCODECS) \in Byte /\ Len(<<SHARD_MAGIC>>) \in Byte
      /\ 0 \in Byte /\ 1 \in Byte
  BY DEF Byte, GETSEGMENTS, GETCODECS, KEEPALIVE_SEGMENT
<1>4. CASE piece \in {"read", "write", "segments", "codecs", "binary"}
  BY <1>2, <1>3, <1>4, ClientFrameBytes DEF PieceBytes
<1>5. CASE piece = "keepalive"
  <2>1. build_keepalive_frame(clrid) \in Bytes
    <3>1. /\ to_le_bytes(1 + Len(KEEPALIVE_SEGMENT) + 1 + 9, 4) \in Bytes
          /\ to_le_bytes(clrid, 4) \in Bytes /\ to_le_bytes(0, 4) \in Bytes
      BY ToLeBytes DEF KEEPALIVE_SEGMENT
    <3>2. <<Len(KEEPALIVE_SEGMENT)>> \in Bytes
      BY DEF Bytes, Byte, KEEPALIVE_SEGMENT
    <3> QED
      BY <1>2, <3>1, <3>2, Joined DEF build_keepalive_frame
  <2> QED
    BY <1>5, <2>1 DEF PieceBytes
<1>6. CASE piece = "noise"
  BY <1>2, <1>6 DEF PieceBytes
<1>7. CASE piece = "absurd"
  BY <1>7 DEF PieceBytes, Bytes, Byte, ROUTER_MAGIC
<1>8. CASE piece = "short"
  BY <1>8 DEF PieceBytes, Bytes, Byte, ROUTER_MAGIC, SHARD_MAGIC
<1>9. CASE piece = "long"
  <2>1. max_frame_size - 14 \in Int
    BY ClientConnectionAssumption
  <2>2. Text(max_frame_size - 14) \in Bytes
    BY <2>1, TextBytes
  <2> QED
    BY <1>2, <1>3, <1>9, <2>2, ClientFrameBytes DEF PieceBytes
<1>10. CASE piece = "tiny"
  BY <1>10 DEF PieceBytes, Bytes, Byte, ROUTER_MAGIC
<1>11. CASE piece = "wide"
  BY <1>11 DEF PieceBytes, Bytes, Byte, ROUTER_MAGIC
<1>12. CASE piece \in {"unmarked", "cut"}
  <2>1. <<ROUTER_MAGIC, 12, 0, 0, 0, 1, 65>> \in Bytes
    BY DEF Bytes, Byte, ROUTER_MAGIC
  <2>2. [k \in 1 .. 10 |-> 0] \in Bytes
    BY DEF Bytes, Byte
  <2> QED
    BY <1>12, <2>1, <2>2, Joined DEF PieceBytes
<1> QED
  BY <1>1, <1>4, <1>5, <1>6, <1>7, <1>8, <1>9, <1>10, <1>11, <1>12
  DEF WellFormed, Garbage

\* f joins the first sequences of q.
Joins(q, f) ==
  f = [i \in 1 .. Len(q) |-> IF i = 1 THEN q[i] ELSE f[i - 1] \o q[i]]

JoinsFirst(q, m) ==
  \E f : /\ f = [i \in 1 .. Len(q) |-> f[i]]
         /\ \A i \in 1 .. m : f[i] = IF i = 1 THEN q[i] ELSE f[i - 1] \o q[i]

\* The recursion of FlattenSeq is well-founded.
LEMMA JoinsExist ==
  ASSUME NEW q, Len(q) \in Nat
  PROVE  \E f : Joins(q, f)
<1> DEFINE T == {m \in Nat : m <= Len(q) => JoinsFirst(q, m)}
<1>1. 0 \in T
  <2>1. PICK f : f = [i \in 1 .. Len(q) |-> <<>>]
    OBVIOUS
  <2>2. f = [i \in 1 .. Len(q) |-> f[i]] /\ 1 .. 0 = {}
    BY <2>1
  <2>3. JoinsFirst(q, 0)
    BY <2>2 DEF JoinsFirst
  <2> QED
    BY <2>3
<1>2. ASSUME NEW m \in Nat, m \in T PROVE m + 1 \in T
  <2> SUFFICES ASSUME m + 1 <= Len(q) PROVE JoinsFirst(q, m + 1)
    OBVIOUS
  <2>1. PICK f : /\ f = [i \in 1 .. Len(q) |-> f[i]]
                 /\ \A i \in 1 .. m : f[i] = IF i = 1 THEN q[i] ELSE f[i - 1] \o q[i]
    BY <1>2 DEF JoinsFirst
  <2>2. PICK g : g = [i \in 1 .. Len(q) |->
                       IF i = m + 1
                       THEN IF i = 1 THEN q[i] ELSE f[i - 1] \o q[i]
                       ELSE f[i]]
    OBVIOUS
  <2>3. \A i \in 1 .. m : g[i] = f[i]
    BY <2>2
  <2>4. ASSUME NEW i \in 1 .. m + 1
        PROVE  g[i] = IF i = 1 THEN q[i] ELSE g[i - 1] \o q[i]
    <3>1. i # 1 => g[i - 1] = f[i - 1]
      BY <2>3
    <3>2. CASE i = m + 1
      <4>1. g[i] = IF i = 1 THEN q[i] ELSE f[i - 1] \o q[i]
        BY <2>2, <3>2
      <4> QED
        BY <3>1, <4>1
    <3>3. CASE i # m + 1
      <4>1. i \in 1 .. m
        BY <3>3
      <4>2. f[i] = IF i = 1 THEN q[i] ELSE f[i - 1] \o q[i]
        BY <2>1, <4>1
      <4> QED
        BY <2>3, <3>1, <4>1, <4>2
    <3> QED
      BY <3>2, <3>3
  <2>5. g = [i \in 1 .. Len(q) |-> g[i]]
    BY <2>2
  <2> QED
    BY <2>4, <2>5 DEF JoinsFirst
<1> HIDE DEF T
<1>3. Len(q) \in T
  BY <1>1, <1>2, AllNat
<1>4. JoinsFirst(q, Len(q))
  BY <1>3 DEF T
<1>5. PICK f : /\ f = [i \in 1 .. Len(q) |-> f[i]]
               /\ \A i \in 1 .. Len(q) :
                    f[i] = IF i = 1 THEN q[i] ELSE f[i - 1] \o q[i]
  BY <1>4 DEF JoinsFirst
<1>6. f = [i \in 1 .. Len(q) |-> IF i = 1 THEN q[i] ELSE f[i - 1] \o q[i]]
  BY <1>5
<1> QED
  BY <1>6 DEF Joins

\* Joining sequences of bytes gives bytes.
LEMMA FlattenBytes ==
  ASSUME NEW q \in Seq(Bytes)
  PROVE  FlattenSeq(q) \in Bytes
<1> Len(q) \in Nat /\ \A i \in 1 .. Len(q) : q[i] \in Bytes
  OBVIOUS
<1>1. CASE Len(q) = 0
  <2>1. q = <<>>
    BY <1>1
  <2>2. FlattenSeq(q) = <<>>
    BY <1>1, <2>1 DEF FlattenSeq
  <2> QED
    BY <2>2 DEF Bytes
<1>2. CASE Len(q) # 0
  <2> DEFINE f == CHOOSE h : h = [i \in 1 .. Len(q) |->
                                    IF i = 1 THEN q[i] ELSE h[i - 1] \o q[i]]
  <2>1. Joins(q, f)
    BY JoinsExist, Zenon DEF Joins
  <2>2. FlattenSeq(q) = f[Len(q)]
    BY <1>2 DEF FlattenSeq
  <2> HIDE DEF f
  <2>3. PICK g : Joins(q, g) /\ FlattenSeq(q) = g[Len(q)]
    BY <2>1, <2>2
  <2>4. \A i \in 1 .. Len(q) : g[i] = IF i = 1 THEN q[i] ELSE g[i - 1] \o q[i]
    BY <2>3 DEF Joins
  <2> DEFINE T == {m \in Nat : m + 1 <= Len(q) => g[m + 1] \in Bytes}
  <2>5. 0 \in T
    BY <1>2, <2>4
  <2>6. ASSUME NEW m \in Nat, m \in T PROVE m + 1 \in T
    <3> SUFFICES ASSUME m + 1 + 1 <= Len(q) PROVE g[m + 1 + 1] \in Bytes
      OBVIOUS
    <3>1. g[m + 1] \in Bytes /\ q[m + 1 + 1] \in Bytes
      BY <2>6
    <3>2. g[m + 1 + 1] = g[m + 1] \o q[m + 1 + 1]
      <4>1. PICK i \in 1 .. Len(q) : i = m + 1 + 1 /\ i # 1 /\ i - 1 = m + 1
        OBVIOUS
      <4>2. g[i] = g[i - 1] \o q[i]
        BY <2>4, <4>1
      <4> QED
        BY <4>1, <4>2
    <3> QED
      BY <3>1, <3>2, Joined
  <2> HIDE DEF T
  <2>7. Len(q) - 1 \in T
    <3>1. Len(q) - 1 \in Nat
      BY <1>2
    <3> QED
      BY <2>5, <2>6, <3>1, AllNat
  <2>8. g[Len(q)] \in Bytes
    BY <1>2, <2>7 DEF T
  <2> QED
    BY <2>3, <2>8
<1> QED
  BY <1>1, <1>2

\* A client's input, of pieces that the model knows.
Inputs == UNION {[1 .. n -> Pieces] : n \in 0 .. MaxPieces}

\* The whole input is a sequence of bytes.
LEMMA SentIsBytes ==
  ASSUME input \in Inputs
  PROVE  SentBytes \in Bytes
<1>1. PICK n \in 0 .. MaxPieces : input \in [1 .. n -> Pieces]
  BY DEF Inputs
<1>2. n \in Nat /\ DOMAIN input = 1 .. n
  BY <1>1, ClientConnectionAssumption
<1>3. \A k \in 1 .. n : PieceBytes(input[k], k) \in Bytes
  BY <1>1, <1>2, PieceIsBytes
<1>4. [k \in 1 .. n |-> PieceBytes(input[k], k)] \in Seq(Bytes)
  BY <1>2, <1>3
<1> QED
  BY <1>2, <1>4, FlattenBytes DEF SentBytes
-----------------------------------------------------------------------------
(* The buffer and the stream *)

\* b is what s holds from offset n on, as far as b goes.
Holds(s, n, b) == Len(b) <= Len(s) - n /\ \A i \in 1 .. Len(b) : b[i] = s[n + i]

\* What s holds behind its first n bytes.
LEMMA RestOf ==
  ASSUME NEW s \in Bytes, NEW n \in 0 .. Len(s)
  PROVE  \E c \in Bytes : /\ c = From(s, n + 1) /\ Len(c) = Len(s) - n
                          /\ \A i \in 1 .. Len(c) : c[i] = s[n + i]
<1>1. PICK k \in 1 .. Len(s) + 1 : k = n + 1 /\ Len(s) - k + 1 = Len(s) - n
  <2>1. /\ Len(s) \in Nat /\ n + 1 \in 1 .. Len(s) + 1
        /\ Len(s) - (n + 1) + 1 = Len(s) - n
    BY BytesAre
  <2> QED
    BY <2>1
<1>2. PICK c \in Bytes : c = From(s, k)
  BY FromLeaves
<1>3. Len(c) = Len(s) - k + 1 /\ \A i \in 1 .. Len(s) - k + 1 : c[i] = s[k + i - 1]
  BY <1>2, FromLeaves
<1>4. ASSUME NEW i \in 1 .. Len(c) PROVE c[i] = s[n + i]
  <2>1. k + i - 1 = n + i
    BY <1>1
  <2>2. c[i] = s[k + i - 1]
    BY <1>3
  <2> QED
    BY <2>1, <2>2
<1> QED
  BY <1>1, <1>2, <1>3, <1>4

\* A decision made on the buffer is the one made on the whole stream.
LEMMA SameDecision ==
  ASSUME NEW s \in Bytes, NEW b \in Bytes, NEW n \in 0 .. Len(s), Holds(s, n, b),
         try_decode_router(b).kind # "incomplete"
  PROVE  At(s, n) = try_decode_router(b) /\ n # Len(s)
<1>1. Len(s) \in Nat /\ Len(b) \in Nat
  BY BytesAre
<1>2. PICK c \in Bytes : /\ c = From(s, n + 1) /\ Len(c) = Len(s) - n
                         /\ \A i \in 1 .. Len(c) : c[i] = s[n + i]
  BY RestOf
<1>3. Len(b) <= Len(c) /\ \A i \in 1 .. Len(b) : c[i] = b[i]
  <2>1. Len(b) <= Len(c) /\ Len(c) \in Nat
    BY <1>1, <1>2 DEF Holds
  <2>2. \A i \in 1 .. Len(b) : i \in 1 .. Len(c)
    BY <1>1, <2>1
  <2>3. \A i \in 1 .. Len(b) : b[i] = s[n + i]
    BY DEF Holds
  <2> QED
    BY <1>2, <2>1, <2>2, <2>3
<1>4. try_decode_router(c) = try_decode_router(b)
  BY <1>3, DecodeAgrees
<1>5. Len(b) >= 5
  BY <1>1, DecodeKind
<1> QED
  BY <1>1, <1>2, <1>4, <1>5 DEF At, Holds

\* Nothing begins in the buffer: either it is the beginning of one frame, or
\* it has no magic.
Quiet(b) ==
  \/ try_decode_router(b).kind = "incomplete"
  \/ \A k \in 1 .. Len(b) : b[k] # ROUTER_MAGIC

\* When everything has been read and nothing begins in the buffer, no frame is
\* left in the stream.
LEMMA QuietEnd ==
  ASSUME NEW s \in Bytes, NEW f, Finds(s, f), NEW b \in Bytes,
         NEW n \in 0 .. Len(s), Holds(s, n, b), Len(b) = Len(s) - n, Quiet(b)
  PROVE  f[n] = <<>>
<1>1. Len(s) \in Nat
  BY BytesAre
<1>2. CASE try_decode_router(b).kind = "incomplete"
  <2>1. PICK c \in Bytes : /\ c = From(s, n + 1) /\ Len(c) = Len(b)
                           /\ \A i \in 1 .. Len(c) : c[i] = s[n + i]
    BY RestOf
  <2>2. \A i \in 1 .. Len(b) : c[i] = b[i]
    BY <1>1, <2>1 DEF Holds
  <2>3. From(s, n + 1) = b
    BY <2>1, <2>2, SeqEqual DEF Bytes
  <2> QED
    BY <1>2, <2>3, FoundFrom DEF At
<1>3. CASE \A k \in 1 .. Len(b) : b[k] # ROUTER_MAGIC
  <2>1. \A k \in n + 1 .. n + Len(b) : s[k] # ROUTER_MAGIC
    <3>1. SUFFICES ASSUME NEW k \in n + 1 .. n + Len(b) PROVE s[k] # ROUTER_MAGIC
      OBVIOUS
    <3>2. PICK i \in 1 .. Len(b) : k = n + i
      <4>1. k - n \in 1 .. Len(b) /\ k = n + (k - n)
        BY <1>1
      <4> QED
        BY <4>1
    <3> QED
      BY <1>3, <3>2 DEF Holds
  <2>2. Len(b) \in 0 .. Len(s) - n /\ n + Len(b) = Len(s)
    BY <1>1
  <2>3. f[n] = f[n + Len(b)]
    BY <2>1, <2>2, SkipBytes
  <2>4. f[Len(s)] = <<>>
    <3>1. Len(s) \in 0 .. Len(s)
      BY <1>1
    <3> QED
      BY <3>1, FoundFrom
  <2> QED
    BY <2>2, <2>3, <2>4
<1> QED
  BY <1>2, <1>3 DEF Quiet

\* find_next_router_magic finds the first one.
LEMMA NextMagic ==
  ASSUME NEW b \in Bytes
  PROVE  LET p == find_next_router_magic(b) IN
         /\ p \in 0 .. Len(b)
         /\ p = 0 => \A k \in 1 .. Len(b) : b[k] # ROUTER_MAGIC
         /\ p # 0 => \A k \in 1 .. p - 1 : b[k] # ROUTER_MAGIC
<1> DEFINE I == {k \in 1 .. Len(b) : b[k] = ROUTER_MAGIC}
<1>1. Len(b) \in Nat
  BY BytesAre
<1>2. find_next_router_magic(b) = IF I # {} THEN Min(I) ELSE 0
  BY DEF find_next_router_magic, SelectInSeq
<1>3. CASE I = {}
  BY <1>1, <1>2, <1>3
<1>4. CASE I # {}
  <2>1. I \in SUBSET Nat
    BY <1>1
  <2>2. \E m \in I : \A k \in I : m <= k
    BY <1>4, <2>1, LeastNat
  <2>3. Min(I) \in I /\ \A k \in I : Min(I) <= k
    BY <2>2, Zenon DEF Min
  <2>4. PICK m \in I : m = Min(I) /\ \A k \in I : m <= k
    BY <2>3
  <2>5. m \in 1 .. Len(b)
    BY <2>4
  <2>6. ASSUME NEW k \in 1 .. m - 1 PROVE b[k] # ROUTER_MAGIC
    <3>1. k \in 1 .. Len(b) /\ ~(m <= k)
      BY <1>1, <2>5
    <3>2. k \notin I
      BY <2>4, <3>1
    <3> QED
      BY <3>1, <3>2
  <2>7. find_next_router_magic(b) = m
    BY <1>2, <1>4, <2>4
  <2> QED
    BY <1>1, <2>5, <2>6, <2>7
<1> QED
  BY <1>3, <1>4

\* b and then w are what s holds from offset n on.
Aligned(s, n, b, w) ==
  /\ Len(b) + Len(w) = Len(s) - n
  /\ Holds(s, n, b)
  /\ \A i \in 1 .. Len(w) : w[i] = s[n + Len(b) + i]

\* Reading moves bytes from w to b.
LEMMA ReadAligned ==
  ASSUME NEW s \in Bytes, NEW n \in 0 .. Len(s), NEW b \in Bytes,
         NEW w \in Bytes, Aligned(s, n, b, w), NEW k \in 1 .. Len(w)
  PROVE  /\ b \o SubSeq(w, 1, k) \in Bytes /\ From(w, k + 1) \in Bytes
         /\ Aligned(s, n, b \o SubSeq(w, 1, k), From(w, k + 1))
<1>1. /\ Len(s) \in Nat /\ Len(b) \in Nat /\ Len(w) \in Nat
      /\ n \in Nat /\ k \in Nat /\ k >= 1 /\ k <= Len(w)
  BY BytesAre
<1>0. Len(b) + Len(w) = Len(s) - n
  BY DEF Aligned
<1>2. PICK r \in Bytes : r = SubSeq(w, 1, k) /\ Len(r) = k
                         /\ \A i \in 1 .. k : r[i] = w[i]
  <2>1. \A i \in 1 .. k : w[i] \in Byte
    <3>1. \A i \in 1 .. k : i \in 1 .. Len(w)
      BY <1>1
    <3> QED
      BY <3>1, BytesAre
  <2>2. /\ SubSeq(w, 1, k) \in Seq(Byte)
        /\ Len(SubSeq(w, 1, k)) = IF 1 <= k THEN k - 1 + 1 ELSE 0
        /\ \A i \in 1 .. k - 1 + 1 : SubSeq(w, 1, k)[i] = w[1 + i - 1]
    BY <1>1, <2>1, SubSeqProperties
  <2>3. k - 1 + 1 = k /\ 1 <= k /\ \A i \in 1 .. k : 1 + i - 1 = i
    BY <1>1
  <2> QED
    BY <2>2, <2>3 DEF Bytes
<1>3. PICK c \in Bytes : c = b \o SubSeq(w, 1, k) /\ Len(c) = Len(b) + k
                         /\ \A i \in 1 .. Len(b) + k :
                              c[i] = IF i <= Len(b) THEN b[i] ELSE r[i - Len(b)]
  <2>1. /\ b \o r \in Seq(Byte) /\ Len(b \o r) = Len(b) + Len(r)
        /\ \A i \in 1 .. Len(b) + Len(r) :
             (b \o r)[i] = IF i <= Len(b) THEN b[i] ELSE r[i - Len(b)]
    BY ConcatProperties DEF Bytes
  <2> QED
    BY <1>2, <2>1 DEF Bytes
<1>4. PICK d \in Bytes : d = From(w, k + 1) /\ Len(d) = Len(w) - k
                         /\ \A i \in 1 .. Len(w) - k : d[i] = w[k + 1 + i - 1]
  <2>1. k + 1 \in 1 .. Len(w) + 1
    BY <1>1
  <2>2. Len(w) - (k + 1) + 1 = Len(w) - k
    BY <1>1
  <2>3. /\ From(w, k + 1) \in Bytes
        /\ Len(From(w, k + 1)) = Len(w) - (k + 1) + 1
        /\ \A i \in 1 .. Len(w) - (k + 1) + 1 :
             From(w, k + 1)[i] = w[k + 1 + i - 1]
    BY <2>1, FromLeaves
  <2> QED
    BY <2>2, <2>3
<1>5. Len(c) + Len(d) = Len(s) - n
  <2>1. Len(c) = Len(b) + k /\ Len(d) = Len(w) - k
    BY <1>3, <1>4
  <2> QED
    BY <1>1, <1>0, <2>1
<1>6. ASSUME NEW i \in 1 .. Len(c) PROVE c[i] = s[n + i]
  <2>1. CASE i <= Len(b)
    BY <1>1, <1>3, <2>1 DEF Aligned, Holds
  <2>2. CASE ~(i <= Len(b))
    <3>1. PICK j \in 1 .. k : j = i - Len(b) /\ n + Len(b) + j = n + i
      <4>1. i - Len(b) \in 1 .. k /\ n + Len(b) + (i - Len(b)) = n + i
        BY <1>1, <1>3, <2>2
      <4> QED
        BY <4>1
    <3>2. c[i] = r[j] /\ r[j] = w[j]
      BY <1>2, <1>3, <2>2, <3>1
    <3>3. j \in 1 .. Len(w)
      BY <1>1
    <3> QED
      BY <3>1, <3>2, <3>3 DEF Aligned
  <2> QED
    BY <2>1, <2>2
<1>7. ASSUME NEW i \in 1 .. Len(d) PROVE d[i] = s[n + Len(c) + i]
  <2>1. PICK j \in 1 .. Len(w) : j = k + 1 + i - 1 /\ n + Len(b) + j = n + Len(c) + i
    <3>1. k + 1 + i - 1 \in 1 .. Len(w)
          /\ n + Len(b) + (k + 1 + i - 1) = n + Len(c) + i
      BY <1>1, <1>3, <1>4
    <3> QED
      BY <3>1
  <2>2. d[i] = w[j]
    BY <1>4, <2>1
  <2> QED
    BY <2>1, <2>2 DEF Aligned
<1>8. Len(c) <= Len(s) - n
  BY <1>1, <1>3, <1>4, <1>5
<1> QED
  BY <1>3, <1>4, <1>5, <1>6, <1>7, <1>8 DEF Aligned, Holds

\* Dropping the first bytes of b advances the offset.
LEMMA DropAligned ==
  ASSUME NEW s \in Bytes, NEW n \in 0 .. Len(s), NEW b \in Bytes,
         NEW w \in Bytes, Aligned(s, n, b, w), NEW k \in 0 .. Len(b)
  PROVE  /\ From(b, k + 1) \in Bytes /\ Len(From(b, k + 1)) = Len(b) - k
         /\ n + k \in 0 .. Len(s)
         /\ Aligned(s, n + k, From(b, k + 1), w)
<1>1. /\ Len(s) \in Nat /\ Len(b) \in Nat /\ Len(w) \in Nat
      /\ n \in Nat /\ k \in Nat /\ k <= Len(b)
  BY BytesAre
<1>0. Len(b) + Len(w) = Len(s) - n
  BY DEF Aligned
<1>2. PICK c \in Bytes : c = From(b, k + 1) /\ Len(c) = Len(b) - k
                         /\ \A i \in 1 .. Len(b) - k : c[i] = b[k + 1 + i - 1]
  <2>1. k + 1 \in 1 .. Len(b) + 1 /\ Len(b) - (k + 1) + 1 = Len(b) - k
    BY <1>1
  <2>2. /\ From(b, k + 1) \in Bytes
        /\ Len(From(b, k + 1)) = Len(b) - (k + 1) + 1
        /\ \A i \in 1 .. Len(b) - (k + 1) + 1 : From(b, k + 1)[i] = b[k + 1 + i - 1]
    BY <2>1, FromLeaves
  <2> QED
    BY <2>1, <2>2
<1>3. n + k \in 0 .. Len(s) /\ Len(c) + Len(w) = Len(s) - (n + k)
      /\ Len(c) <= Len(s) - (n + k)
  <2>1. Len(c) = Len(b) - k
    BY <1>2
  <2> QED
    BY <1>1, <1>0, <2>1
<1>4. ASSUME NEW i \in 1 .. Len(c) PROVE c[i] = s[n + k + i]
  <2>1. PICK j \in 1 .. Len(b) : j = k + 1 + i - 1 /\ n + j = n + k + i
    <3>1. k + 1 + i - 1 \in 1 .. Len(b) /\ n + (k + 1 + i - 1) = n + k + i
      BY <1>1, <1>2
    <3> QED
      BY <3>1
  <2>2. c[i] = b[j]
    BY <1>2, <2>1
  <2> QED
    BY <2>1, <2>2 DEF Aligned, Holds
<1>5. ASSUME NEW i \in 1 .. Len(w) PROVE w[i] = s[n + k + Len(c) + i]
  <2>1. n + k + Len(c) + i = n + Len(b) + i
    <3>1. Len(c) = Len(b) - k
      BY <1>2
    <3> QED
      BY <1>1, <3>1
  <2> QED
    BY <2>1 DEF Aligned
<1> QED
  BY <1>2, <1>3, <1>4, <1>5 DEF Aligned, Holds

\* Bytes of the buffer before a magic begin nothing.
LEMMA SkipAligned ==
  ASSUME NEW s \in Bytes, NEW f, Finds(s, f), NEW n \in 0 .. Len(s),
         NEW b \in Bytes, NEW w \in Bytes, Aligned(s, n, b, w),
         NEW j \in 0 .. Len(b), \A k \in 1 .. j : b[k] # ROUTER_MAGIC
  PROVE  f[n] = f[n + j]
<1>1. Len(s) \in Nat /\ Len(b) \in Nat /\ Len(w) \in Nat
  BY BytesAre
<1>2. j \in 0 .. Len(s) - n
  BY <1>1 DEF Aligned
<1>3. ASSUME NEW k \in n + 1 .. n + j PROVE s[k] # ROUTER_MAGIC
  <2>1. PICK i \in 1 .. j : k = n + i
    <3>1. k - n \in 1 .. j /\ k = n + (k - n)
      BY <1>1
    <3> QED
      BY <3>1
  <2>2. i \in 1 .. Len(b)
    BY <1>1
  <2>3. b[i] = s[k]
    BY <2>1, <2>2 DEF Aligned, Holds
  <2> QED
    BY <2>3
<1> QED
  BY <1>2, <1>3, SkipBytes

\* Tail leaves all but the first byte.
LEMMA TailIs ==
  ASSUME NEW b \in Bytes, Len(b) # 0
  PROVE  Tail(b) = From(b, 2)
<1>1. Len(b) \in Nat /\ b # <<>>
  BY BytesAre
<1>2. PICK c \in Bytes : c = From(b, 2) /\ Len(c) = Len(b) - 1
                         /\ \A i \in 1 .. Len(b) - 1 : c[i] = b[2 + i - 1]
  <2>1. 2 \in 1 .. Len(b) + 1 /\ Len(b) - 2 + 1 = Len(b) - 1
    BY <1>1
  <2> QED
    BY <2>1, FromLeaves
<1>3. Tail(b) \in Seq(Byte) /\ Len(Tail(b)) = Len(b) - 1
      /\ \A i \in 1 .. Len(b) - 1 : Tail(b)[i] = b[i + 1]
  BY <1>1 DEF Bytes
<1>4. \A i \in 1 .. Len(b) - 1 : Tail(b)[i] = c[i]
  <2>1. \A i \in 1 .. Len(b) - 1 : i + 1 = 2 + i - 1
    BY <1>1
  <2> QED
    BY <1>2, <1>3, <2>1
<1> QED
  BY <1>2, <1>3, <1>4, SeqEqual DEF Bytes

\* Reading on: skipping what is malformed, and what has no magic after it.
LEMMA ResyncAligned ==
  ASSUME NEW s \in Bytes, NEW f, Finds(s, f), NEW n \in 0 .. Len(s),
         NEW b \in Bytes, NEW w \in Bytes, Aligned(s, n, b, w),
         try_decode_router(b).kind = "malformed"
  PROVE  /\ Tail(b) \in Bytes /\ Len(Tail(b)) = Len(b) - 1
         /\ n + 1 \in 0 .. Len(s)
         /\ Aligned(s, n + 1, Tail(b), w) /\ f[n] = f[n + 1]
<1>1. Holds(s, n, b)
  BY DEF Aligned
<1>2. At(s, n).kind = "malformed" /\ n # Len(s)
  BY <1>1, SameDecision
<1>3. f[n] = f[n + 1]
  BY <1>2, FoundFrom
<1>4. Len(b) \in Nat /\ Len(b) # 0 /\ 1 \in 0 .. Len(b)
  <2>1. ~(Len(b) < 5) /\ Len(b) \in Nat
    BY DecodeKind, BytesAre
  <2> QED
    BY <2>1
<1>5. /\ From(b, 1 + 1) \in Bytes /\ Len(From(b, 1 + 1)) = Len(b) - 1
      /\ n + 1 \in 0 .. Len(s) /\ Aligned(s, n + 1, From(b, 1 + 1), w)
  BY <1>4, DropAligned
<1>6. Tail(b) = From(b, 1 + 1)
  <2>1. 1 + 1 = 2
    OBVIOUS
  <2> QED
    BY <1>4, <2>1, TailIs
<1> QED
  BY <1>3, <1>5, <1>6
-----------------------------------------------------------------------------
(* The frame loop decodes the frames of the stream *)

\* The frames of s, and the frames found so far: with those that begin at n or
\* later they are all of them, and what has been read and not decoded, and what
\* has not been read, is what s holds from n on.
Frames(s) == {x \in Found(s) : x.kind = "frame"}

Progress(s, f, n) ==
  /\ frames \in Seq(Frames(s))
  /\ frames \o f[n] = f[0]
  /\ at # "closed" => Aligned(s, n, buf, wire)
  /\ at = "read" => Quiet(buf)

PInv ==
  /\ input \in Inputs
  /\ wire \in Bytes /\ buf \in Bytes
  /\ \E f : /\ Finds(SentBytes, f) /\ expected = f[0]
            /\ \E n \in 0 .. Len(SentBytes) : Progress(SentBytes, f, n)

\* Initially nothing is decoded and everything is on the wire.
LEMMA PInvInit == Init => PInv
<1> SUFFICES ASSUME Init PROVE PInv
  OBVIOUS
<1>1. input \in Inputs
  BY DEF Init, Inputs
<1>2. SentBytes \in Bytes
  BY <1>1, SentIsBytes
<1>3. PICK s \in Bytes : s = SentBytes
  BY <1>2
<1>4. wire = s /\ expected = FramesIn(s) /\ buf = <<>> /\ frames = <<>>
      /\ at = "read"
  BY <1>3 DEF Init
<1>5. PICK f : Finds(s, f) /\ expected = f[0]
  BY <1>4, FramesInIs
<1>6. Len(s) \in Nat /\ 0 \in 0 .. Len(s)
  BY BytesAre
<1>7. Progress(s, f, 0)
  <2>1. <<>> \in Seq(Frames(s))
    OBVIOUS
  <2>2. <<>> \o f[0] = f[0]
    BY <1>5, <1>6, FoundTypes, ConcatEmptySeq
  <2>3. <<>> \in Bytes /\ Len(<<>>) = 0 /\ 1 .. 0 = {}
    BY DEF Bytes
  <2>4. Aligned(s, 0, <<>>, s)
    BY <1>6, <2>3 DEF Aligned, Holds
  <2>5. Quiet(<<>>)
    BY <2>3 DEF Quiet
  <2> QED
    BY <1>4, <2>1, <2>2, <2>4, <2>5 DEF Progress
<1>8. <<>> \in Bytes
  BY DEF Bytes
<1> QED
  BY <1>1, <1>3, <1>4, <1>5, <1>6, <1>7, <1>8 DEF PInv

\* Every round of the loop keeps its place in the stream.
LEMMA PInvStep == PInv /\ [Next]_vars => PInv'
<1> SUFFICES ASSUME PInv, [Next]_vars PROVE PInv'
  OBVIOUS
<1> USE DEF PInv
<1>1. SentBytes \in Bytes
  BY SentIsBytes
<1>2. PICK s \in Bytes : s = SentBytes
  BY <1>1
<1>3. PICK f : /\ Finds(s, f) /\ expected = f[0]
               /\ \E n \in 0 .. Len(s) : Progress(s, f, n)
  BY <1>2
<1>4. PICK n \in 0 .. Len(s) : Progress(s, f, n)
  BY <1>3
<1>5. input' = input /\ expected' = expected
  BY DEF Next, SelectStep, ParseStep, SeeCancel, ReadSome, ReadEof, ReadFails,
    IdleTimeout, BufferExceeded, FrameTimeout, WaitForMore, FrameExceeds,
    TakeFrame, Resync, Forward, WriteResponse, WriteHangs, WriteFails,
    TimePasses, Cancel, Close, vars
<1> SUFFICES /\ wire' \in Bytes /\ buf' \in Bytes
             /\ \E m \in 0 .. Len(s) : Progress(s, f, m)'
  <2>1. s = SentBytes'
    BY <1>2, <1>5 DEF SentBytes
  <2> QED
    BY <1>3, <1>5, <2>1
<1> HIDE DEF PInv
<1>6. wire \in Bytes /\ buf \in Bytes
  BY DEF PInv
<1>7. Len(s) \in Nat /\ Len(buf) \in Nat /\ Len(wire) \in Nat /\ n \in Nat
  BY <1>6, BytesAre
<1>8. f[n] \in Seq(Found(s)) /\ frames \in Seq(Frames(s))
      /\ frames \in Seq(Found(s))
  <2>1. Frames(s) \subseteq Found(s)
    BY DEF Frames
  <2> QED
    BY <1>3, <1>4, <2>1, FoundTypes, SeqMonotonic DEF Progress
<1>9. ASSUME NEW reason, Close(reason)
      PROVE  /\ wire' \in Bytes /\ buf' \in Bytes
             /\ \E m \in 0 .. Len(s) : Progress(s, f, m)'
  <2>1. wire' = <<>> /\ buf' = <<>> /\ at' = "closed" /\ frames' = frames
    BY <1>9 DEF Close
  <2>2. Progress(s, f, n)'
    BY <1>4, <2>1 DEF Progress
  <2> QED
    BY <2>1, <2>2 DEF Bytes
<1>10. ASSUME UNCHANGED <<wire, buf, frames>>, at # "closed",
              at' = at \/ at' # "read"
       PROVE  /\ wire' \in Bytes /\ buf' \in Bytes
              /\ \E m \in 0 .. Len(s) : Progress(s, f, m)'
  <2>1. Progress(s, f, n)'
    BY <1>4, <1>10 DEF Progress
  <2> QED
    BY <1>6, <1>10, <2>1
<1>11. CASE UNCHANGED vars
  <2>1. Progress(s, f, n)'
    BY <1>4, <1>11 DEF Progress, vars
  <2> QED
    BY <1>6, <1>11, <2>1 DEF vars
<1>12. CASE ReadSome
  <2>1. Aligned(s, n, buf, wire)
    BY <1>4, <1>12 DEF ReadSome, Progress
  <2>2. PICK k \in 1 .. MaxRead : /\ k <= Len(wire)
                                  /\ buf' = buf \o SubSeq(wire, 1, k)
                                  /\ wire' = From(wire, k + 1)
    BY <1>12 DEF ReadSome
  <2>3. k \in 1 .. Len(wire)
    <3>1. MaxRead \in Nat
      BY ClientConnectionAssumption
    <3> QED
      BY <1>7, <2>2, <3>1
  <2>4. /\ buf' \in Bytes /\ wire' \in Bytes
        /\ Aligned(s, n, buf', wire')
    BY <1>6, <2>1, <2>2, <2>3, ReadAligned
  <2>5. at' = "parse" /\ frames' = frames
    BY <1>12 DEF ReadSome
  <2>6. Progress(s, f, n)'
    BY <1>4, <2>4, <2>5 DEF Progress, Aligned, Holds
  <2> QED
    BY <2>4, <2>6
<1>13. CASE WaitForMore
  <2>1. try_decode_router(buf).kind = "incomplete" /\ at = "parse"
    BY <1>13 DEF WaitForMore, Parsing, Decoded
  <2>2. UNCHANGED <<wire, buf, frames>>
    BY <1>13 DEF WaitForMore
  <2>3. Quiet(buf)
    BY <2>1 DEF Quiet
  <2>4. Progress(s, f, n)'
    BY <1>4, <2>1, <2>2, <2>3 DEF Progress, Quiet
  <2> QED
    BY <1>6, <2>2, <2>4
<1>14. CASE TakeFrame
  <2>1. /\ at = "parse" /\ try_decode_router(buf).kind = "frame"
        /\ frames' = Append(frames, try_decode_router(buf))
        /\ buf' = From(buf, try_decode_router(buf).frame_len + 1)
        /\ wire' = wire /\ at' # "read"
    BY <1>14 DEF TakeFrame, Parsing, Decoded, split_off
  <2>2. Aligned(s, n, buf, wire) /\ Holds(s, n, buf)
    BY <1>4, <2>1 DEF Progress, Aligned
  <2>3. PICK d : d = try_decode_router(buf)
    OBVIOUS
  <2>4. At(s, n) = d /\ n # Len(s) /\ d.kind = "frame"
    BY <1>6, <2>1, <2>2, <2>3, SameDecision
  <2>5. d.frame_len \in 0 .. Len(buf)
    <3>1. d.frame_len \in 5 .. Len(buf)
      BY <1>6, <2>1, <2>3, DecodeKind
    <3> QED
      BY <1>7, <3>1
  <2>6. PICK m \in 0 .. Len(s) : /\ m = n + d.frame_len
                                 /\ buf' \in Bytes
                                 /\ Aligned(s, m, buf', wire')
    BY <1>6, <2>1, <2>2, <2>3, <2>5, DropAligned
  <2>7. f[n] = <<d>> \o f[m]
    BY <1>3, <2>4, <2>6, FoundFrom
  <2>8. d \in Found(s) /\ d \in Frames(s)
    BY <2>4 DEF Found, Frames
  <2>9. frames' = frames \o <<d>> /\ frames' \in Seq(Frames(s))
    BY <1>8, <2>1, <2>3, <2>8, AppendIsConcat, AppendProperties
  <2>10. frames' \o f[m] = f[0]
    <3>1. f[m] \in Seq(Found(s)) /\ <<d>> \in Seq(Found(s))
      BY <1>3, <2>8, FoundTypes
    <3>2. (frames \o <<d>>) \o f[m] = frames \o (<<d>> \o f[m])
      <4>1. AssociatesIn(Found(s))
        BY Associates
      <4> QED
        BY <1>8, <3>1, <4>1 DEF AssociatesIn
    <3> QED
      BY <1>4, <2>7, <2>9, <3>2 DEF Progress
  <2>11. Progress(s, f, m)'
    BY <2>1, <2>6, <2>9, <2>10 DEF Progress, Aligned, Holds
  <2> QED
    BY <1>6, <2>1, <2>6, <2>11
<1>15. CASE Resync
  <2>1. at = "parse" /\ try_decode_router(buf).kind = "malformed"
        /\ wire' = wire /\ frames' = frames
    BY <1>15 DEF Resync, Parsing, Decoded
  <2>2. Aligned(s, n, buf, wire)
    BY <1>4, <2>1 DEF Progress
  <2>3. PICK rest \in Bytes : /\ rest = Tail(buf)
                              /\ Aligned(s, n + 1, rest, wire)
    BY <1>3, <1>6, <2>1, <2>2, ResyncAligned
  <2>4. PICK j \in 0 .. Len(s) : /\ j = n + 1 /\ f[n] = f[j]
                                 /\ Aligned(s, j, rest, wire)
    BY <1>3, <1>6, <2>1, <2>2, <2>3, ResyncAligned
  <2>5. PICK p \in 0 .. Len(rest) :
          /\ p = find_next_router_magic(rest)
          /\ p = 0 => \A k \in 1 .. Len(rest) : rest[k] # ROUTER_MAGIC
          /\ p # 0 => \A k \in 1 .. p - 1 : rest[k] # ROUTER_MAGIC
    BY NextMagic
  <2>6. Len(rest) \in Nat
    BY BytesAre
  <2>7. ASSUME NEW k \in 0 .. Len(rest), buf' = From(rest, k + 1),
               \A i \in 1 .. k : rest[i] # ROUTER_MAGIC,
               at' = "read" => Quiet(buf')
        PROVE  /\ wire' \in Bytes /\ buf' \in Bytes
               /\ \E m \in 0 .. Len(s) : Progress(s, f, m)'
    <3>1. PICK m \in 0 .. Len(s) : /\ m = j + k
                                   /\ buf' \in Bytes
                                   /\ Aligned(s, m, buf', wire')
      BY <1>6, <2>1, <2>4, <2>7, DropAligned
    <3>2. f[j] = f[m]
      BY <1>3, <1>6, <2>4, <2>7, <3>1, SkipAligned
    <3>3. Progress(s, f, m)'
      BY <1>4, <2>1, <2>4, <2>7, <3>1, <3>2 DEF Progress, Aligned, Holds, Quiet
    <3> QED
      BY <1>6, <2>1, <3>1, <3>3
  <2>8. CASE p # 0
    <3>1. buf' = From(rest, p) /\ at' = "parse"
      BY <1>15, <2>1, <2>3, <2>5, <2>6, <2>8 DEF Resync
    <3>2. PICK k \in 0 .. Len(rest) : k = p - 1 /\ k + 1 = p
      <4>1. p - 1 \in 0 .. Len(rest) /\ (p - 1) + 1 = p
        BY <2>6, <2>8
      <4> QED
        BY <4>1
    <3> QED
      BY <2>5, <2>7, <2>8, <3>1, <3>2
  <2>9. CASE p = 0
    <3>1. /\ buf' = IF Len(rest) > ScanWindow
                    THEN From(rest, Len(rest) - ScanKeep + 1) ELSE rest
          /\ at' = "read"
      BY <1>15, <2>3, <2>5, <2>6, <2>9 DEF Resync, AwaitRead
    <3>2. PICK k \in 0 .. Len(rest) : buf' = From(rest, k + 1)
      <4>1. CASE Len(rest) > ScanWindow
        <5>1. PICK k \in 0 .. Len(rest) : k = Len(rest) - ScanKeep
          <6>1. Len(rest) - ScanKeep \in 0 .. Len(rest)
            BY <2>6, <4>1, ClientConnectionAssumption
          <6> QED
            BY <6>1
        <5> QED
          BY <3>1, <4>1, <5>1
      <4>2. CASE ~(Len(rest) > ScanWindow)
        <5>1. From(rest, 0 + 1) = rest
          BY <2>6, SubSeqFull DEF From, Bytes
        <5>2. 0 \in 0 .. Len(rest)
          BY <2>6
        <5> QED
          BY <3>1, <4>2, <5>1, <5>2
      <4> QED
        BY <4>1, <4>2
    <3>3. \A i \in 1 .. k : rest[i] # ROUTER_MAGIC
      BY <2>5, <2>6, <2>9
    <3>4. Quiet(buf')
      <4>1. PICK c \in Bytes :
              /\ c = From(rest, k + 1) /\ Len(c) = Len(rest) - k
              /\ \A i \in 1 .. Len(rest) - k : c[i] = rest[k + 1 + i - 1]
        <5>1. k + 1 \in 1 .. Len(rest) + 1
              /\ Len(rest) - (k + 1) + 1 = Len(rest) - k
          BY <2>6
        <5> QED
          BY <5>1, FromLeaves
      <4>2. ASSUME NEW i \in 1 .. Len(c) PROVE c[i] # ROUTER_MAGIC
        <5>1. PICK l \in 1 .. Len(rest) : l = k + 1 + i - 1
          <6>1. k + 1 + i - 1 \in 1 .. Len(rest)
            BY <2>6, <4>1
          <6> QED
            BY <6>1
        <5> QED
          BY <2>5, <2>9, <4>1, <5>1
      <4> QED
        BY <3>2, <4>1, <4>2 DEF Quiet
    <3> QED
      BY <2>7, <3>2, <3>3, <3>4
  <2> QED
    BY <2>5, <2>8, <2>9
<1>16. CASE SeeCancel \/ ReadEof \/ ReadFails \/ IdleTimeout
  BY <1>9, <1>16 DEF SeeCancel, ReadEof, ReadFails, IdleTimeout
<1>17. CASE BufferExceeded \/ FrameTimeout \/ FrameExceeds \/ WriteFails
  BY <1>9, <1>17 DEF BufferExceeded, FrameTimeout, FrameExceeds, WriteFails
<1>18. CASE Forward \/ WriteResponse \/ WriteHangs \/ TimePasses \/ Cancel
  BY <1>10, <1>18 DEF Forward, WriteResponse, WriteHangs, TimePasses, Cancel
<1> QED
  BY <1>11, <1>12, <1>13, <1>14, <1>15, <1>16, <1>17, <1>18
  DEF Next, SelectStep, ParseStep

\* A sequence is a prefix of what continues it.
LEMMA PrefixOfJoined ==
  ASSUME NEW S, NEW s \in Seq(S), NEW t \in Seq(S)
  PROVE  IsPrefix(s, s \o t)
<1>1. Len(s) \in Nat /\ Len(s) <= Len(s \o t)
  BY ConcatProperties
<1>2. SubSeq(s \o t, 1, Len(s)) = SubSeq(s, 1, Len(s))
  <2>1. CASE Len(s) = 0
    BY <2>1, SubSeqEmpty
  <2>2. CASE Len(s) # 0
    <3>1. 1 \in 1 .. Len(s) /\ Len(s) \in 1 .. Len(s)
      BY <1>1, <2>2
    <3> QED
      BY <3>1, SubSeqOfConcat1
  <2> QED
    BY <2>1, <2>2
<1> QED
  BY <1>1, <1>2 DEF IsPrefix

\* The invariant holds in every reachable state.
LEMMA PInvHolds == Spec => []PInv
<1>1. PInv /\ UNCHANGED vars => PInv'
  BY PInvStep
<1> QED
  BY PInvInit, PInvStep, PTL DEF Spec

\* FramesFound, whatever the client sends, however its bytes are cut into
\* chunks, and whatever the limits and the window of the resynchronisation.
THEOREM StreamDecoded == Spec => []FramesFound
<1>1. PInv => FramesFound
  <2> SUFFICES ASSUME PInv PROVE FramesFound
    OBVIOUS
  <2>1. SentBytes \in Bytes
    BY SentIsBytes DEF PInv
  <2>2. PICK s \in Bytes : s = SentBytes
    BY <2>1
  <2>3. PICK f : /\ Finds(s, f) /\ expected = f[0]
                 /\ \E n \in 0 .. Len(s) : Progress(s, f, n)
    BY <2>2 DEF PInv
  <2>4. PICK n \in 0 .. Len(s) : Progress(s, f, n)
    BY <2>3
  <2>5. frames \in Seq(Found(s)) /\ f[n] \in Seq(Found(s))
    <3>1. Frames(s) \subseteq Found(s)
      BY DEF Frames
    <3> QED
      BY <2>3, <2>4, <3>1, FoundTypes, SeqMonotonic DEF Progress
  <2>6. expected = frames \o f[n]
    BY <2>3, <2>4 DEF Progress
  <2>7. IsPrefix(frames, frames \o f[n])
    BY <2>5, PrefixOfJoined
  <2>8. ASSUME at = "read", wire = <<>> PROVE frames = expected
    <3>1. Aligned(s, n, buf, wire) /\ Quiet(buf) /\ buf \in Bytes
      BY <2>4, <2>8 DEF Progress, PInv
    <3>2. Len(buf) = Len(s) - n /\ Holds(s, n, buf)
      <4>1. Len(wire) = 0 /\ Len(buf) \in Nat
        BY <2>8, <3>1, BytesAre
      <4> QED
        BY <3>1, <4>1 DEF Aligned
    <3>3. f[n] = <<>>
      BY <2>3, <3>1, <3>2, QuietEnd
    <3> QED
      BY <2>5, <2>6, <3>3, ConcatEmptySeq
  <2> QED
    BY <2>6, <2>7, <2>8 DEF FramesFound
<1> QED
  BY <1>1, PInvHolds, PTL

\* try_decode_router never hands out a frame without room for the clrid that
\* forward() overwrites at clrid_offset, whatever the bytes were.
ClridsInside ==
  \A k \in DOMAIN frames : frames[k].clrid_offset + 3 <= frames[k].frame_len

\* forward's check "frame too short for CLRID" never fails.
THEOREM RoomForClrid == Spec => []ClridsInside
<1>1. PInv => ClridsInside
  <2> SUFFICES ASSUME PInv, NEW k \in DOMAIN frames
               PROVE  frames[k].clrid_offset + 3 <= frames[k].frame_len
    BY DEF ClridsInside
  <2>1. SentBytes \in Bytes
    BY SentIsBytes DEF PInv
  <2>2. PICK s \in Bytes : s = SentBytes /\ frames \in Seq(Frames(s))
    BY <2>1 DEF PInv, Progress
  <2>3. frames[k] \in Frames(s)
    BY <2>2
  <2>4. PICK n \in 0 .. Len(s) : frames[k] = At(s, n) /\ At(s, n).kind = "frame"
    BY <2>3 DEF Frames, Found
  <2>5. From(s, n + 1) \in Bytes
    <3>1. n + 1 \in 1 .. Len(s) + 1
      BY BytesAre
    <3> QED
      BY <3>1, FromLeaves
  <2> QED
    BY <2>4, <2>5, DecodeKind DEF At
<1> QED
  BY <1>1, PInvHolds, PTL

\* The receive buffer is bounded: its limit is checked before the next read.
BufferBounded ==
  /\ Len(buf) <= max_buffer_size + MaxRead
  /\ at = "read" => Len(buf) <= max_buffer_size

\* buf never outgrows max_buffer_size by more than what one read returns.
THEOREM BufferLimited == Spec => []BufferBounded
<1> max_buffer_size \in Nat /\ MaxRead \in Nat
  BY ClientConnectionAssumption
<1>1. Init => BufferBounded
  BY DEF Init, BufferBounded
<1>2. PInv /\ BufferBounded /\ [Next]_vars => BufferBounded'
  <2> SUFFICES ASSUME PInv, BufferBounded, [Next]_vars PROVE BufferBounded'
    OBVIOUS
  <2>1. buf \in Bytes /\ wire \in Bytes /\ Len(buf) \in Nat /\ Len(wire) \in Nat
    BY BytesAre DEF PInv
  <2>2. ASSUME NEW reason, Close(reason) PROVE BufferBounded'
    BY <2>2 DEF Close, BufferBounded
  <2>3. CASE UNCHANGED vars
    BY <2>3 DEF vars, BufferBounded
  <2>4. ASSUME UNCHANGED buf, at' = at \/ at' # "read" PROVE BufferBounded'
    BY <2>4 DEF BufferBounded
  <2>5. CASE ReadSome
    <3>1. PICK k \in 1 .. MaxRead : /\ k <= Len(wire) /\ at = "read"
                                    /\ buf' = buf \o SubSeq(wire, 1, k)
      BY <2>5 DEF ReadSome
    <3>2. PICK r \in Bytes : r = SubSeq(wire, 1, k) /\ Len(r) = k
      <4>1. \A i \in 1 .. k : i \in 1 .. Len(wire)
        BY <2>1, <3>1
      <4>2. \A i \in 1 .. k : wire[i] \in Byte
        BY <2>1, <4>1, BytesAre
      <4>3. /\ SubSeq(wire, 1, k) \in Seq(Byte)
            /\ Len(SubSeq(wire, 1, k)) = IF 1 <= k THEN k - 1 + 1 ELSE 0
        BY <4>2, SubSeqProperties
      <4>4. k - 1 + 1 = k /\ 1 <= k
        OBVIOUS
      <4> QED
        BY <4>3, <4>4 DEF Bytes
    <3>3. Len(buf') = Len(buf) + k
      BY <2>1, <3>1, <3>2, ConcatProperties DEF Bytes
    <3>4. Len(buf) <= max_buffer_size /\ at' = "parse"
      BY <2>5, <3>1 DEF BufferBounded, ReadSome
    <3> QED
      BY <2>1, <3>3, <3>4 DEF BufferBounded
  <2>6. ASSUME NEW k \in 0 .. Len(buf), Len(buf) <= max_buffer_size,
               buf' = From(buf, k + 1)
        PROVE  BufferBounded'
    <3>1. Len(buf') = Len(buf) - k
      <4>1. k + 1 \in 1 .. Len(buf) + 1 /\ Len(buf) - (k + 1) + 1 = Len(buf) - k
        BY <2>1
      <4> QED
        BY <2>1, <2>6, <4>1, FromLeaves
    <3> QED
      BY <2>1, <2>6, <3>1 DEF BufferBounded
  <2>7. CASE WaitForMore
    BY <2>7 DEF WaitForMore, Parsing, BufferBounded
  <2>8. CASE TakeFrame
    <3>1. /\ Len(buf) <= max_buffer_size
          /\ try_decode_router(buf).kind = "frame"
          /\ buf' = From(buf, try_decode_router(buf).frame_len + 1)
      BY <2>8 DEF TakeFrame, Parsing, Decoded, split_off
    <3>2. PICK k \in 0 .. Len(buf) : k = try_decode_router(buf).frame_len
      <4>1. try_decode_router(buf).frame_len \in 5 .. Len(buf)
        BY <2>1, <3>1, DecodeKind
      <4> QED
        BY <2>1, <4>1
    <3> QED
      BY <2>6, <3>1, <3>2
  <2>9. CASE Resync
    <3>1. Len(buf) <= max_buffer_size /\ try_decode_router(buf).kind = "malformed"
      BY <2>9 DEF Resync, Parsing, Decoded
    <3>2. ~(Len(buf) < 5)
      BY <2>1, <3>1, DecodeKind
    <3>3. PICK rest \in Bytes : rest = Tail(buf) /\ Len(rest) = Len(buf) - 1
                                /\ Len(rest) \in Nat
      <4>1. buf # <<>> /\ Len(buf) - 1 \in Nat
        BY <2>1, <3>2
      <4> QED
        BY <2>1, <4>1, HeadTailProperties DEF Bytes
    <3>4. ASSUME NEW k \in 0 .. Len(rest), buf' = From(rest, k + 1)
          PROVE  BufferBounded'
      <4>1. Len(buf') = Len(rest) - k
        <5>1. k + 1 \in 1 .. Len(rest) + 1 /\ Len(rest) - (k + 1) + 1 = Len(rest) - k
          BY <3>3
        <5> QED
          BY <3>4, <5>1, FromLeaves
      <4> QED
        BY <2>1, <3>1, <3>3, <4>1 DEF BufferBounded
    <3>5. PICK p \in 0 .. Len(rest) : p = find_next_router_magic(rest)
      BY NextMagic
    <3>6. CASE p # 0
      <4>1. buf' = From(rest, p)
        BY <2>9, <3>3, <3>5, <3>6 DEF Resync
      <4>2. p - 1 \in 0 .. Len(rest) /\ (p - 1) + 1 = p
        BY <3>3, <3>6
      <4> QED
        BY <3>4, <4>1, <4>2
    <3>7. CASE p = 0 /\ Len(rest) > ScanWindow
      <4>1. buf' = From(rest, (Len(rest) - ScanKeep) + 1)
        BY <2>9, <3>3, <3>5, <3>7 DEF Resync
      <4>2. Len(rest) - ScanKeep \in 0 .. Len(rest)
        BY <3>3, <3>7, ClientConnectionAssumption
      <4> QED
        BY <3>4, <4>1, <4>2
    <3>8. CASE p = 0 /\ ~(Len(rest) > ScanWindow)
      <4>1. buf' = rest
        BY <2>9, <3>3, <3>5, <3>8 DEF Resync
      <4> QED
        BY <2>1, <3>1, <3>3, <4>1 DEF BufferBounded
    <3> QED
      BY <3>3, <3>5, <3>6, <3>7, <3>8
  <2>10. CASE SeeCancel \/ ReadEof \/ ReadFails \/ IdleTimeout
    BY <2>2, <2>10 DEF SeeCancel, ReadEof, ReadFails, IdleTimeout
  <2>11. CASE BufferExceeded \/ FrameTimeout \/ FrameExceeds \/ WriteFails
    BY <2>2, <2>11 DEF BufferExceeded, FrameTimeout, FrameExceeds, WriteFails
  <2>12. CASE Forward \/ WriteResponse \/ WriteHangs \/ TimePasses \/ Cancel
    BY <2>4, <2>12 DEF Forward, WriteResponse, WriteHangs, TimePasses, Cancel
  <2> QED
    BY <2>3, <2>5, <2>7, <2>8, <2>9, <2>10, <2>11, <2>12
    DEF Next, SelectStep, ParseStep
<1> QED
  BY <1>1, <1>2, PInvHolds, PTL DEF Spec
-----------------------------------------------------------------------------
(* Responses and what reader_task finds *)

\* Induction from the end of a stream to its beginning.
LEMMA Backward ==
  ASSUME NEW l \in Nat, NEW P,
         \A n \in 0 .. l : (\A k \in n + 1 .. l : k \in P) => n \in P
  PROVE  0 .. l \subseteq P
<1> DEFINE T == {m \in Nat : \A n \in 0 .. l : l - n <= m => n \in P}
<1>1. 0 \in T
  <2>1. \A n \in 0 .. l : l - n <= 0 => n = l /\ n + 1 .. l = {}
    OBVIOUS
  <2> QED
    BY <2>1
<1>2. ASSUME NEW m \in Nat, m \in T PROVE m + 1 \in T
  <2> SUFFICES ASSUME NEW n \in 0 .. l, l - n <= m + 1 PROVE n \in P
    OBVIOUS
  <2>1. \A k \in n + 1 .. l : k \in 0 .. l /\ l - k <= m
    OBVIOUS
  <2> QED
    BY <1>2, <2>1
<1> HIDE DEF T
<1>3. l \in T
  BY <1>1, <1>2, AllNat
<1> QED
  BY <1>3 DEF T

\* The number in the four bytes from k on.
U32(s, k) == s[k] + 256 * (s[k + 1] + 256 * (s[k + 2] + 256 * s[k + 3]))

\* from_le_bytes reads them.
LEMMA ReadsU32 ==
  ASSUME NEW s \in Bytes, NEW k \in Nat \ {0}, NEW e, e = k + 3, e <= Len(s)
  PROVE  /\ from_le_bytes(SubSeq(s, k, e)) = U32(s, k)
         /\ U32(s, k) \in Nat
<1>1. /\ \A i \in k .. e : i \in 1 .. Len(s)
      /\ Len(s) \in Nat /\ k \in Int /\ e \in Int
  BY BytesAre
<1>2. \A i \in k .. e : s[i] \in Byte
  BY <1>1, BytesAre
<1>3. \A i \in 1 .. e - k + 1 : SubSeq(s, k, e)[i] = s[k + i - 1]
  BY <1>1, <1>2, SubSeqProperties
<1>4. e - k + 1 = 4 /\ k + 1 - 1 = k /\ k + 2 - 1 = k + 1 /\ k + 3 - 1 = k + 2
      /\ k + 4 - 1 = k + 3
  BY <1>1
<1>5. /\ SubSeq(s, k, e)[1] = s[k] /\ SubSeq(s, k, e)[2] = s[k + 1]
      /\ SubSeq(s, k, e)[3] = s[k + 2] /\ SubSeq(s, k, e)[4] = s[k + 3]
  <2>1. /\ SubSeq(s, k, e)[1] = s[k + 1 - 1] /\ SubSeq(s, k, e)[2] = s[k + 2 - 1]
        /\ SubSeq(s, k, e)[3] = s[k + 3 - 1] /\ SubSeq(s, k, e)[4] = s[k + 4 - 1]
    <3>1. \A i \in 1 .. 4 : SubSeq(s, k, e)[i] = s[k + i - 1]
      BY <1>3, <1>4
    <3>2. 1 \in 1 .. 4 /\ 2 \in 1 .. 4 /\ 3 \in 1 .. 4 /\ 4 \in 1 .. 4
      OBVIOUS
    <3> QED
      BY <3>1, <3>2
  <2> QED
    BY <1>4, <2>1
<1>6. s[k] \in Nat /\ s[k + 1] \in Nat /\ s[k + 2] \in Nat /\ s[k + 3] \in Nat
  <2>1. k \in k .. e /\ k + 1 \in k .. e /\ k + 2 \in k .. e /\ k + 3 \in k .. e
    BY <1>1
  <2> QED
    BY <1>2, <2>1, ByteIsNat
<1>7. from_le_bytes(SubSeq(s, k, e)) = U32(s, k)
  BY <1>5 DEF from_le_bytes, U32
<1>8. U32(s, k) \in Nat
  <2>1. PICK a \in Nat, b \in Nat, c \in Nat, d \in Nat :
          s[k] = a /\ s[k + 1] = b /\ s[k + 2] = c /\ s[k + 3] = d
    BY <1>6
  <2>2. a + 256 * (b + 256 * (c + 256 * d)) \in Nat
    OBVIOUS
  <2> QED
    BY <2>1, <2>2 DEF U32
<1> QED
  BY <1>7, <1>8

\* Writing a number that was read gives the same bytes.
LEMMA WritesBack ==
  ASSUME NEW t, \A i \in 1 .. 4 : t[i] \in Byte
  PROVE  \A i \in 1 .. 4 : to_le_bytes(from_le_bytes(t), 4)[i] = t[i]
<1>1. PICK a \in 0 .. 255, b \in 0 .. 255, c \in 0 .. 255, d \in 0 .. 255 :
        t[1] = a /\ t[2] = b /\ t[3] = c /\ t[4] = d
  <2>1. 1 \in 1 .. 4 /\ 2 \in 1 .. 4 /\ 3 \in 1 .. 4 /\ 4 \in 1 .. 4
    OBVIOUS
  <2>2. /\ t[1] \in 0 .. 255 /\ t[2] \in 0 .. 255
        /\ t[3] \in 0 .. 255 /\ t[4] \in 0 .. 255
    BY <2>1 DEF Byte
  <2> QED
    BY <2>2
<1>2. PICK n \in Nat : n = a + 256 * (b + 256 * (c + 256 * d))
  <2>1. a + 256 * (b + 256 * (c + 256 * d)) \in Nat
    OBVIOUS
  <2> QED
    BY <2>1
<1>3. from_le_bytes(t) = n
  BY <1>1, <1>2 DEF from_le_bytes
<1>4. /\ n % 256 = a /\ (n \div 256) % 256 = b
      /\ (n \div (256 * 256)) % 256 = c
      /\ (n \div (256 * 256 * 256)) % 256 = d
  <2>1. n % 256 = a
    BY <1>2
  <2>2. n \div 256 = b + 256 * (c + 256 * d)
    BY <1>2
  <2>3. n \div (256 * 256) = c + 256 * d
    BY <1>2
  <2>4. n \div (256 * 256 * 256) = d
    BY <1>2
  <2>5. (b + 256 * (c + 256 * d)) % 256 = b /\ (c + 256 * d) % 256 = c /\ d % 256 = d
    OBVIOUS
  <2> QED
    BY <2>1, <2>2, <2>3, <2>4, <2>5
<1>5. \A i \in 1 .. 4 : to_le_bytes(n, 4)[i] = (n \div 256 ^ (i - 1)) % 256
  BY DEF to_le_bytes
<1>6. /\ 256 ^ 0 = 1 /\ 256 ^ 1 = 256 /\ 256 ^ 2 = 256 * 256
      /\ 256 ^ 3 = 256 * 256 * 256
  OBVIOUS
<1>7. /\ to_le_bytes(n, 4)[1] = a /\ to_le_bytes(n, 4)[2] = b
      /\ to_le_bytes(n, 4)[3] = c /\ to_le_bytes(n, 4)[4] = d
  <2>1. 1 - 1 = 0 /\ 2 - 1 = 1 /\ 3 - 1 = 2 /\ 4 - 1 = 3 /\ n \div 1 = n
    OBVIOUS
  <2> QED
    BY <1>4, <1>5, <1>6, <2>1
<1> QED
  BY <1>1, <1>3, <1>7

\* to_le_bytes gives as many bytes as asked for; a small number is the first.
LEMMA WritesSmall ==
  ASSUME NEW n \in 0 .. 255, NEW w \in {2, 4}
  PROVE  /\ Len(to_le_bytes(n, w)) = w
         /\ to_le_bytes(n, w)[1] = n
         /\ \A i \in 2 .. w : to_le_bytes(n, w)[i] = 0
<1>1. \A i \in 1 .. w : to_le_bytes(n, w)[i] = (n \div 256 ^ (i - 1)) % 256
  BY DEF to_le_bytes
<1>2. /\ 256 ^ 0 = 1 /\ 256 ^ 1 = 256 /\ 256 ^ 2 = 256 * 256
      /\ 256 ^ 3 = 256 * 256 * 256
  OBVIOUS
<1>3. n \div 1 = n /\ n % 256 = n /\ (n \div 256) % 256 = 0
      /\ (n \div (256 * 256)) % 256 = 0 /\ (n \div (256 * 256 * 256)) % 256 = 0
  OBVIOUS
<1>4. to_le_bytes(n, w)[1] = n
  <2>1. 1 - 1 = 0 /\ 1 \in 1 .. w
    OBVIOUS
  <2>2. to_le_bytes(n, w)[1] = (n \div 1) % 256
    <3>1. to_le_bytes(n, w)[1] = (n \div 256 ^ (1 - 1)) % 256
      BY <1>1, <2>1
    <3>2. 256 ^ (1 - 1) = 1
      OBVIOUS
    <3> QED
      BY <3>1, <3>2
  <2> QED
    BY <1>3, <2>2
<1>5. ASSUME NEW i \in 2 .. w PROVE to_le_bytes(n, w)[i] = 0
  <2>1. i = 2 \/ i = 3 \/ i = 4
    OBVIOUS
  <2>2. to_le_bytes(n, w)[i] = (n \div 256 ^ (i - 1)) % 256
    BY <1>1
  <2>3. CASE i = 2
    <3>1. i - 1 = 1
      BY <2>3
    <3> QED
      BY <1>2, <1>3, <2>2, <3>1
  <2>4. CASE i = 3
    <3>1. i - 1 = 2
      BY <2>4
    <3> QED
      BY <1>2, <1>3, <2>2, <3>1
  <2>5. CASE i = 4
    <3>1. i - 1 = 3
      BY <2>5
    <3> QED
      BY <1>2, <1>3, <2>2, <3>1
  <2> QED
    BY <2>1, <2>3, <2>4, <2>5
<1>6. Len(to_le_bytes(n, w)) = w
  BY DEF to_le_bytes
<1> QED
  BY <1>4, <1>5, <1>6

\* What ResponsesIn finds from offset n on, if g finds what comes later.
RBody(s, g, n) ==
  IF Len(s) - n < 9 THEN <<>>
  ELSE IF s[n + 1] # SHARD_MAGIC THEN g[n + 1]
  ELSE IF n + 9 + from_le_bytes(SubSeq(s, n + 6, n + 9)) > Len(s) THEN <<>>
  ELSE <<from_le_bytes(SubSeq(s, n + 2, n + 5))>>
         \o g[n + 9 + from_le_bytes(SubSeq(s, n + 6, n + 9))]

\* g finds the responses that begin at an offset of s or later.
Answers(s, g) == g = [n \in 0 .. Len(s) |-> RBody(s, g, n)]

\* The header of a response.
LEMMA HeaderReads ==
  ASSUME NEW s \in Bytes, NEW n \in Nat, Len(s) - n >= 9
  PROVE  /\ from_le_bytes(SubSeq(s, n + 6, n + 9)) = U32(s, n + 6)
         /\ from_le_bytes(SubSeq(s, n + 2, n + 5)) = U32(s, n + 2)
         /\ U32(s, n + 6) \in Nat /\ U32(s, n + 2) \in Nat
<1>1. Len(s) \in Nat
  BY BytesAre
<1>2. PICK k \in Nat \ {0}, e \in Nat : k = n + 6 /\ e = n + 9 /\ e = k + 3 /\ e <= Len(s)
  <2>1. /\ n + 6 \in Nat \ {0} /\ n + 9 \in Nat /\ n + 9 = (n + 6) + 3
        /\ n + 9 <= Len(s)
    BY <1>1
  <2> QED
    BY <2>1
<1>3. PICK j \in Nat \ {0}, l \in Nat : j = n + 2 /\ l = n + 5 /\ l = j + 3 /\ l <= Len(s)
  <2>1. /\ n + 2 \in Nat \ {0} /\ n + 5 \in Nat /\ n + 5 = (n + 2) + 3
        /\ n + 5 <= Len(s)
    BY <1>1
  <2> QED
    BY <2>1
<1>4. from_le_bytes(SubSeq(s, k, e)) = U32(s, k) /\ U32(s, k) \in Nat
  BY <1>2, ReadsU32
<1>5. from_le_bytes(SubSeq(s, j, l)) = U32(s, j) /\ U32(s, j) \in Nat
  BY <1>3, ReadsU32
<1> QED
  BY <1>2, <1>3, <1>4, <1>5

\* The same, by what the header holds.
LEMMA RBodyIs ==
  ASSUME NEW s \in Bytes, NEW g, NEW n \in 0 .. Len(s)
  PROVE  /\ Len(s) - n < 9 => RBody(s, g, n) = <<>>
         /\ Len(s) - n >= 9 /\ s[n + 1] # SHARD_MAGIC => RBody(s, g, n) = g[n + 1]
         /\ Len(s) - n >= 9 /\ s[n + 1] = SHARD_MAGIC =>
              /\ n + 9 + U32(s, n + 6) > Len(s) => RBody(s, g, n) = <<>>
              /\ ~(n + 9 + U32(s, n + 6) > Len(s)) =>
                   /\ RBody(s, g, n) = <<U32(s, n + 2)>> \o g[n + 9 + U32(s, n + 6)]
                   /\ n + 9 + U32(s, n + 6) \in n + 1 .. Len(s)
<1>1. Len(s) \in Nat /\ n \in Nat
  BY BytesAre
<1>2. CASE Len(s) - n < 9
  BY <1>1, <1>2 DEF RBody
<1>3. CASE Len(s) - n >= 9
  <2>1. /\ from_le_bytes(SubSeq(s, n + 6, n + 9)) = U32(s, n + 6)
        /\ from_le_bytes(SubSeq(s, n + 2, n + 5)) = U32(s, n + 2)
        /\ U32(s, n + 6) \in Nat
    BY <1>1, <1>3, HeaderReads
  <2>2. ~(n + 9 + U32(s, n + 6) > Len(s)) => n + 9 + U32(s, n + 6) \in n + 1 .. Len(s)
    BY <1>1, <2>1
  <2>3. ~(Len(s) - n < 9)
    BY <1>1, <1>3
  <2> QED
    BY <2>1, <2>2, <2>3 DEF RBody
<1> QED
  BY <1>1, <1>2, <1>3

\* It looks at larger offsets only.
LEMMA RBodyAgrees ==
  ASSUME NEW s \in Bytes, NEW n \in 0 .. Len(s), NEW f, NEW g,
         \A k \in n + 1 .. Len(s) : f[k] = g[k]
  PROVE  RBody(s, f, n) = RBody(s, g, n)
<1>1. Len(s) \in Nat
  BY BytesAre
<1>2. CASE Len(s) - n < 9
  BY <1>2, RBodyIs
<1>3. CASE Len(s) - n >= 9 /\ s[n + 1] # SHARD_MAGIC
  <2>1. f[n + 1] = g[n + 1]
    BY <1>1, <1>3
  <2> QED
    BY <1>3, <2>1, RBodyIs
<1>4. CASE Len(s) - n >= 9 /\ s[n + 1] = SHARD_MAGIC /\ n + 9 + U32(s, n + 6) > Len(s)
  BY <1>4, RBodyIs
<1>5. CASE Len(s) - n >= 9 /\ s[n + 1] = SHARD_MAGIC /\ ~(n + 9 + U32(s, n + 6) > Len(s))
  <2>1. n + 9 + U32(s, n + 6) \in n + 1 .. Len(s)
    BY <1>5, RBodyIs
  <2>2. f[n + 9 + U32(s, n + 6)] = g[n + 9 + U32(s, n + 6)]
    BY <2>1
  <2> QED
    BY <1>5, <2>2, RBodyIs
<1>6. Len(s) - n < 9 \/ Len(s) - n >= 9
  BY <1>1
<1> QED
  BY <1>2, <1>3, <1>4, <1>5, <1>6

\* g finds the responses that begin in the last m offsets.
AnswersLast(s, m) ==
  \E g : /\ DOMAIN g = 0 .. Len(s) /\ g = [n \in 0 .. Len(s) |-> g[n]]
         /\ \A n \in Len(s) - m .. Len(s) : g[n] = RBody(s, g, n)

\* The recursion of ResponsesIn is well-founded.
LEMMA AnswersExist ==
  ASSUME NEW s \in Bytes
  PROVE  \E g : Answers(s, g)
<1> Len(s) \in Nat
  BY BytesAre
<1> DEFINE T == {m \in Nat : m <= Len(s) => AnswersLast(s, m)}
<1>1. 0 \in T
  <2>1. PICK g : g = [n \in 0 .. Len(s) |-> <<>>]
    OBVIOUS
  <2>2. Len(s) \in 0 .. Len(s) /\ Len(s) - Len(s) < 9
    OBVIOUS
  <2>3. RBody(s, g, Len(s)) = <<>>
    BY <2>2, RBodyIs
  <2>4. \A n \in Len(s) - 0 .. Len(s) : n = Len(s)
    OBVIOUS
  <2>5. DOMAIN g = 0 .. Len(s) /\ g = [n \in 0 .. Len(s) |-> g[n]]
    BY <2>1
  <2>6. AnswersLast(s, 0)
    BY <2>1, <2>2, <2>3, <2>4, <2>5 DEF AnswersLast
  <2> QED
    BY <2>6
<1>2. ASSUME NEW m \in Nat, m \in T PROVE m + 1 \in T
  <2> SUFFICES ASSUME m + 1 <= Len(s) PROVE AnswersLast(s, m + 1)
    OBVIOUS
  <2>1. AnswersLast(s, m)
    BY <1>2
  <2>2. PICK f : /\ DOMAIN f = 0 .. Len(s) /\ f = [n \in 0 .. Len(s) |-> f[n]]
                 /\ \A n \in Len(s) - m .. Len(s) : f[n] = RBody(s, f, n)
    BY <2>1 DEF AnswersLast
  <2>3. PICK j \in 0 .. Len(s) : j = Len(s) - (m + 1)
    <3>1. Len(s) - (m + 1) \in 0 .. Len(s)
      OBVIOUS
    <3> QED
      BY <3>1
  <2>4. PICK g : g = [n \in 0 .. Len(s) |-> IF n = j THEN RBody(s, f, j) ELSE f[n]]
    OBVIOUS
  <2>5. \A n \in j + 1 .. Len(s) : g[n] = f[n]
    BY <2>4
  <2>6. ASSUME NEW n \in Len(s) - (m + 1) .. Len(s) PROVE g[n] = RBody(s, g, n)
    <3>1. n \in 0 .. Len(s) /\ n >= j
      BY <2>3
    <3>2. \A k \in n + 1 .. Len(s) : f[k] = g[k]
      BY <2>5, <3>1
    <3>3. RBody(s, f, n) = RBody(s, g, n)
      BY <3>1, <3>2, RBodyAgrees
    <3>4. CASE n = j
      BY <2>4, <3>1, <3>3, <3>4
    <3>5. CASE n # j
      <4>1. n \in Len(s) - m .. Len(s)
        BY <2>3, <3>1, <3>5
      <4>2. g[n] = f[n]
        BY <2>4, <3>1, <3>5
      <4> QED
        BY <2>2, <3>3, <4>1, <4>2
    <3> QED
      BY <3>4, <3>5
  <2>7. DOMAIN g = 0 .. Len(s) /\ g = [n \in 0 .. Len(s) |-> g[n]]
    BY <2>4
  <2> QED
    BY <2>6, <2>7 DEF AnswersLast
<1> HIDE DEF T
<1>3. Nat \subseteq T
  BY <1>1, <1>2, AllNat
<1>4. AnswersLast(s, Len(s))
  BY <1>3 DEF T
<1>5. PICK g : /\ DOMAIN g = 0 .. Len(s) /\ g = [n \in 0 .. Len(s) |-> g[n]]
               /\ \A n \in Len(s) - Len(s) .. Len(s) : g[n] = RBody(s, g, n)
  BY <1>4 DEF AnswersLast
<1>6. \A n \in 0 .. Len(s) : g[n] = RBody(s, g, n)
  BY <1>5
<1>7. g = [n \in 0 .. Len(s) |-> RBody(s, g, n)]
  BY <1>5, <1>6
<1> QED
  BY <1>7 DEF Answers

\* ResponsesIn is what such a function finds from the first offset on.
LEMMA ResponsesInIs ==
  ASSUME NEW s \in Bytes
  PROVE  \E g : Answers(s, g) /\ ResponsesIn(s) = g[0]
<1> DEFINE g == CHOOSE h : h = [n \in 0 .. Len(s) |-> RBody(s, h, n)]
<1>1. Answers(s, g)
  BY AnswersExist, Zenon DEF Answers
<1>2. ResponsesIn(s) = g[0]
  BY DEF ResponsesIn, RBody
<1> QED
  BY <1>1, <1>2

\* It finds clrids.
LEMMA AnswersTypes ==
  ASSUME NEW s \in Bytes, NEW g, Answers(s, g)
  PROVE  \A n \in 0 .. Len(s) : g[n] \in Seq(Nat)
<1> Len(s) \in Nat
  BY BytesAre
<1> DEFINE P == {n \in 0 .. Len(s) : g[n] \in Seq(Nat)}
<1>1. ASSUME NEW n \in 0 .. Len(s), \A k \in n + 1 .. Len(s) : k \in P
      PROVE  n \in P
  <2>1. g[n] = RBody(s, g, n)
    BY DEF Answers
  <2>2. CASE RBody(s, g, n) = <<>>
    <3>1. <<>> \in Seq(Nat)
      OBVIOUS
    <3> QED
      BY <2>1, <2>2, <3>1
  <2>3. CASE Len(s) - n >= 9 /\ RBody(s, g, n) = g[n + 1]
    <3>1. n + 1 \in n + 1 .. Len(s)
      BY <2>3
    <3> QED
      BY <1>1, <2>1, <2>3, <3>1
  <2>4. ASSUME NEW k \in n + 1 .. Len(s), NEW c \in Nat,
               RBody(s, g, n) = <<c>> \o g[k]
        PROVE  n \in P
    <3>1. g[k] \in Seq(Nat) /\ <<c>> \in Seq(Nat)
      BY <1>1
    <3>2. <<c>> \o g[k] \in Seq(Nat)
      BY <3>1, ConcatProperties
    <3> QED
      BY <2>1, <2>4, <3>2
  <2>5. Len(s) - n >= 9 => U32(s, n + 2) \in Nat
    BY HeaderReads
  <2>6. Len(s) - n < 9 \/ Len(s) - n >= 9
    OBVIOUS
  <2> QED
    BY <2>2, <2>3, <2>4, <2>5, <2>6, RBodyIs
<1> HIDE DEF P
<1>2. 0 .. Len(s) \subseteq P
  BY <1>1, Backward
<1> QED
  BY <1>2 DEF P

\* From j on, s holds what t holds.
Shifted(s, t, j) == \A i \in 1 .. Len(t) : s[j + i] = t[i]

\* Bytes that are found j further on make the same number.
LEMMA SameU32 ==
  ASSUME NEW s, NEW t, NEW j \in Nat, Len(t) \in Nat, Shifted(s, t, j),
         NEW k \in Nat \ {0}, k + 3 <= Len(t)
  PROVE  U32(s, j + k) = U32(t, k)
<1> DEFINE l == j + k
<1>1. /\ k \in 1 .. Len(t) /\ k + 1 \in 1 .. Len(t)
      /\ k + 2 \in 1 .. Len(t) /\ k + 3 \in 1 .. Len(t)
  OBVIOUS
<1>2. /\ s[j + k] = t[k] /\ s[j + (k + 1)] = t[k + 1]
      /\ s[j + (k + 2)] = t[k + 2] /\ s[j + (k + 3)] = t[k + 3]
  BY <1>1 DEF Shifted
<1>3. j + (k + 1) = l + 1 /\ j + (k + 2) = l + 2 /\ j + (k + 3) = l + 3
  OBVIOUS
<1>4. s[l] = t[k] /\ s[l + 1] = t[k + 1] /\ s[l + 2] = t[k + 2] /\ s[l + 3] = t[k + 3]
  BY <1>2, <1>3
<1> QED
  BY <1>4 DEF U32

\* What is found in t is found in r \o t after r.
LEMMA AnswersShift ==
  ASSUME NEW r \in Bytes, NEW t \in Bytes, NEW g, NEW h,
         Answers(r \o t, g), Answers(t, h)
  PROVE  g[Len(r)] = h[0]
<1>0. PICK s \in Bytes : s = r \o t /\ Answers(s, g)
  BY Joined
<1>1. Len(r) \in Nat /\ Len(t) \in Nat /\ Len(s) \in Nat
  BY BytesAre
<1>2. Len(s) = Len(r) + Len(t)
  BY <1>0, ConcatProperties DEF Bytes
<1>3. \A i \in 1 .. Len(t) : s[Len(r) + i] = t[i]
  <2>1. SUFFICES ASSUME NEW i \in 1 .. Len(t) PROVE s[Len(r) + i] = t[i]
    OBVIOUS
  <2>2. PICK m \in 1 .. Len(r) + Len(t) : m = Len(r) + i /\ ~(m <= Len(r)) /\ m - Len(r) = i
    <3>1. /\ Len(r) + i \in 1 .. Len(r) + Len(t) /\ ~(Len(r) + i <= Len(r))
          /\ (Len(r) + i) - Len(r) = i
      BY <1>1
    <3> QED
      BY <3>1
  <2>3. s[m] = t[m - Len(r)]
    BY <1>0, <2>2, ConcatProperties DEF Bytes
  <2> QED
    BY <2>2, <2>3
<1> DEFINE P == {n \in 0 .. Len(t) : g[Len(r) + n] = h[n]}
<1>4. ASSUME NEW n \in 0 .. Len(t), \A k \in n + 1 .. Len(t) : k \in P
      PROVE  n \in P
  <2>1. PICK m \in 0 .. Len(s) : m = Len(r) + n /\ Len(s) - m = Len(t) - n
    <3>1. Len(r) + n \in 0 .. Len(s) /\ Len(s) - (Len(r) + n) = Len(t) - n
      BY <1>1, <1>2
    <3> QED
      BY <3>1
  <2>2. g[m] = RBody(s, g, m) /\ h[n] = RBody(t, h, n)
    BY <1>0 DEF Answers
  <2>3. CASE Len(t) - n < 9
    BY <2>1, <2>2, <2>3, RBodyIs
  <2>4. CASE Len(t) - n >= 9
    <3>1. s[m + 1] = t[n + 1] /\ n + 1 \in n + 1 .. Len(t)
          /\ Len(r) + (n + 1) = m + 1
      <4>1. n + 1 \in 1 .. Len(t) /\ n + 1 \in n + 1 .. Len(t)
            /\ Len(r) + (n + 1) = m + 1
        BY <1>1, <2>1, <2>4
      <4>2. s[Len(r) + (n + 1)] = t[n + 1]
        BY <1>3, <4>1
      <4> QED
        BY <4>1, <4>2
    <3>2. U32(s, m + 6) = U32(t, n + 6)
      <4>1. PICK k \in Nat \ {0} : k = n + 6 /\ k + 3 <= Len(t)
        <5>1. n + 6 \in Nat \ {0} /\ (n + 6) + 3 <= Len(t)
          BY <1>1, <2>4
        <5> QED
          BY <5>1
      <4>2. Len(r) + k = m + 6
        BY <1>1, <2>1, <4>1
      <4>3. U32(s, Len(r) + k) = U32(t, k)
        <5>1. Shifted(s, t, Len(r))
          BY <1>3 DEF Shifted
        <5> QED
          BY <1>1, <4>1, <5>1, SameU32
      <4> QED
        BY <4>1, <4>2, <4>3
    <3>3. U32(s, m + 2) = U32(t, n + 2)
      <4>1. PICK k \in Nat \ {0} : k = n + 2 /\ k + 3 <= Len(t)
        <5>1. n + 2 \in Nat \ {0} /\ (n + 2) + 3 <= Len(t)
          BY <1>1, <2>4
        <5> QED
          BY <5>1
      <4>2. Len(r) + k = m + 2
        BY <1>1, <2>1, <4>1
      <4>3. U32(s, Len(r) + k) = U32(t, k)
        <5>1. Shifted(s, t, Len(r))
          BY <1>3 DEF Shifted
        <5> QED
          BY <1>1, <4>1, <5>1, SameU32
      <4> QED
        BY <4>1, <4>2, <4>3
    <3>4. U32(t, n + 6) \in Nat
      BY <2>4, HeaderReads
    <3>5. CASE t[n + 1] # SHARD_MAGIC
      <4>1. g[m] = g[m + 1] /\ h[n] = h[n + 1]
        BY <2>1, <2>2, <2>4, <3>1, <3>5, RBodyIs
      <4>2. n + 1 \in P
        BY <1>4, <3>1
      <4> QED
        BY <2>1, <3>1, <4>1, <4>2
    <3>6. CASE t[n + 1] = SHARD_MAGIC /\ n + 9 + U32(t, n + 6) > Len(t)
      <4>1. m + 9 + U32(s, m + 6) > Len(s)
        BY <1>1, <1>2, <2>1, <3>2, <3>4, <3>6
      <4>2. RBody(s, g, m) = <<>>
        BY <2>1, <2>4, <3>1, <3>6, <4>1, RBodyIs
      <4>3. RBody(t, h, n) = <<>>
        BY <2>4, <3>6, RBodyIs
      <4> QED
        BY <2>1, <2>2, <4>2, <4>3
    <3>7. CASE t[n + 1] = SHARD_MAGIC /\ ~(n + 9 + U32(t, n + 6) > Len(t))
      <4>1. PICK e \in n + 1 .. Len(t) : /\ e = n + 9 + U32(t, n + 6)
                                         /\ h[n] = <<U32(t, n + 2)>> \o h[e]
        BY <2>2, <2>4, <3>7, RBodyIs
      <4>2. ~(m + 9 + U32(s, m + 6) > Len(s)) /\ m + 9 + U32(s, m + 6) = Len(r) + e
        <5>1. PICK u \in Nat : u = U32(t, n + 6) /\ u = U32(s, m + 6)
          BY <3>2, <3>4
        <5>2. e = n + 9 + u /\ n \in Nat /\ m = Len(r) + n /\ e <= Len(t)
          BY <2>1, <4>1, <5>1
        <5>3. m + 9 + u = Len(r) + e /\ ~(m + 9 + u > Len(s))
          BY <1>1, <1>2, <5>2
        <5> QED
          BY <5>1, <5>3
      <4>3. g[m] = <<U32(s, m + 2)>> \o g[Len(r) + e]
        <5>1. RBody(s, g, m) = <<U32(s, m + 2)>> \o g[m + 9 + U32(s, m + 6)]
          BY <2>1, <2>4, <3>1, <3>7, <4>2, RBodyIs
        <5> QED
          BY <2>2, <4>2, <5>1
      <4>4. g[Len(r) + e] = h[e]
        BY <1>4
      <4> QED
        BY <2>1, <3>3, <4>1, <4>3, <4>4
    <3> QED
      BY <3>5, <3>6, <3>7
  <2>5. Len(t) - n < 9 \/ Len(t) - n >= 9
    BY <1>1
  <2> QED
    BY <2>3, <2>4, <2>5
<1> HIDE DEF P
<1>5. 0 .. Len(t) \subseteq P
  BY <1>1, <1>4, Backward
<1>6. 0 \in P /\ Len(r) + 0 = Len(r)
  BY <1>1, <1>5
<1> QED
  BY <1>6 DEF P

\* A complete response with the clrid c.
Proper(r, c) ==
  /\ r \in Bytes /\ Len(r) >= 9
  /\ r[1] = SHARD_MAGIC /\ U32(r, 2) = c /\ 9 + U32(r, 6) = Len(r)

\* reader_task finds a complete response, then what comes after it.
LEMMA Consumed ==
  ASSUME NEW r, NEW c, Proper(r, c), NEW t \in Bytes
  PROVE  /\ ResponsesIn(r \o t) = <<c>> \o ResponsesIn(t)
         /\ c \in Nat /\ ResponsesIn(t) \in Seq(Nat)
<1>1. /\ r \in Bytes /\ Len(r) >= 9
      /\ r[1] = SHARD_MAGIC /\ U32(r, 2) = c /\ 9 + U32(r, 6) = Len(r)
  BY DEF Proper
<1>2. Len(r) \in Nat /\ Len(t) \in Nat
  BY <1>1, BytesAre
<1>3. PICK s \in Bytes : /\ s = r \o t /\ Len(s) = Len(r) + Len(t)
                         /\ \A i \in 1 .. Len(r) : s[i] = r[i]
  <2>1. /\ r \o t \in Seq(Byte) /\ Len(r \o t) = Len(r) + Len(t)
        /\ \A i \in 1 .. Len(r) + Len(t) :
             (r \o t)[i] = IF i <= Len(r) THEN r[i] ELSE t[i - Len(r)]
    BY <1>1, ConcatProperties DEF Bytes
  <2>2. \A i \in 1 .. Len(r) : i \in 1 .. Len(r) + Len(t) /\ i <= Len(r)
    BY <1>2
  <2>3. \A i \in 1 .. Len(r) : (r \o t)[i] = r[i]
    BY <2>1, <2>2
  <2> QED
    BY <2>1, <2>3 DEF Bytes
<1>4. PICK g : Answers(s, g) /\ ResponsesIn(s) = g[0]
  BY ResponsesInIs
<1>5. PICK h : Answers(t, h) /\ ResponsesIn(t) = h[0]
  BY ResponsesInIs
<1>6. g[Len(r)] = h[0]
  <2>1. r \in Bytes /\ Answers(r \o t, g) /\ Answers(t, h)
    BY <1>1, <1>3, <1>4, <1>5
  <2> QED
    BY <2>1, AnswersShift
<1>7. /\ 0 \in 0 .. Len(s) /\ 0 \in Nat /\ Len(s) - 0 >= 9 /\ 0 + 1 = 1
      /\ 0 + 2 = 2 /\ 0 + 6 = 6
  BY <1>1, <1>2, <1>3
<1>8. s[1] = SHARD_MAGIC
  <2>1. 1 \in 1 .. Len(r)
    BY <1>1, <1>2
  <2> QED
    BY <1>1, <1>3, <2>1
<1>9. U32(s, 2) = c /\ 9 + U32(s, 6) = Len(r) /\ U32(s, 6) \in Nat /\ c \in Nat
  <2>1. \A i \in 1 .. Len(r) : s[0 + i] = r[i]
    <3>1. \A i \in 1 .. Len(r) : 0 + i = i
      BY <1>2
    <3> QED
      BY <1>3, <3>1
  <2>2. /\ 2 \in Nat \ {0} /\ 2 + 3 <= Len(r) /\ 2 = 0 + 2
        /\ 6 \in Nat \ {0} /\ 6 + 3 <= Len(r) /\ 6 = 0 + 6
    BY <1>1, <1>2
  <2>6. ASSUME NEW k \in {2, 6} PROVE U32(s, k) = U32(r, k)
    <3>1. k \in Nat \ {0} /\ k + 3 <= Len(r) /\ k = 0 + k
      BY <2>2
    <3>2. PICK j \in Nat : j = 0
      OBVIOUS
    <3>3. j + k = k /\ \A i \in 1 .. Len(r) : s[j + i] = r[i]
      BY <2>1, <3>1, <3>2
    <3>4. U32(s, j + k) = U32(r, k)
      <4>1. Shifted(s, r, j)
        BY <3>3 DEF Shifted
      <4> QED
        BY <1>2, <3>1, <4>1, SameU32
    <3> QED
      BY <3>3, <3>4
  <2>3. U32(s, 2) = U32(r, 2)
    BY <2>6
  <2>4. U32(s, 6) = U32(r, 6)
    BY <2>6
  <2>5. U32(s, 0 + 6) \in Nat /\ U32(s, 0 + 2) \in Nat
    BY <1>7, HeaderReads
  <2> QED
    BY <1>1, <1>7, <2>3, <2>4, <2>5
<1>10. g[0] = <<c>> \o g[Len(r)]
  <2>1. g[0] = RBody(s, g, 0)
    BY <1>4, <1>7 DEF Answers
  <2>2. 0 + 9 + U32(s, 0 + 6) = Len(r) /\ ~(0 + 9 + U32(s, 0 + 6) > Len(s))
    BY <1>2, <1>3, <1>7, <1>9
  <2>3. RBody(s, g, 0) = <<U32(s, 0 + 2)>> \o g[0 + 9 + U32(s, 0 + 6)]
    BY <1>7, <1>8, <2>2, RBodyIs
  <2> QED
    BY <1>7, <1>9, <2>1, <2>2, <2>3
<1>11. h[0] \in Seq(Nat)
  <2>1. 0 \in 0 .. Len(t)
    BY <1>2
  <2> QED
    BY <1>5, <2>1, AnswersTypes
<1> QED
  BY <1>3, <1>4, <1>5, <1>6, <1>9, <1>10, <1>11

\* r begins with what s holds.
Begins(r, s) == \A i \in 1 .. Len(s) : r[i] = s[i]

\* Concatenation, byte by byte.
LEMMA ConcatIs ==
  ASSUME NEW s \in Bytes, NEW t \in Bytes
  PROVE  /\ s \o t \in Bytes /\ Len(s \o t) = Len(s) + Len(t)
         /\ Begins(s \o t, s) /\ Shifted(s \o t, t, Len(s))
<1>1. Len(s) \in Nat /\ Len(t) \in Nat
  BY BytesAre
<1>2. /\ s \o t \in Seq(Byte) /\ Len(s \o t) = Len(s) + Len(t)
      /\ \A i \in 1 .. Len(s) + Len(t) :
           (s \o t)[i] = IF i <= Len(s) THEN s[i] ELSE t[i - Len(s)]
  BY ConcatProperties DEF Bytes
<1>3. \A i \in 1 .. Len(s) : i \in 1 .. Len(s) + Len(t) /\ i <= Len(s)
  BY <1>1
<1>4. ASSUME NEW i \in 1 .. Len(t) PROVE (s \o t)[Len(s) + i] = t[i]
  <2>1. PICK m \in 1 .. Len(s) + Len(t) :
          m = Len(s) + i /\ ~(m <= Len(s)) /\ m - Len(s) = i
    <3>1. /\ Len(s) + i \in 1 .. Len(s) + Len(t) /\ ~(Len(s) + i <= Len(s))
          /\ (Len(s) + i) - Len(s) = i
      BY <1>1
    <3> QED
      BY <3>1
  <2>2. (s \o t)[m] = t[m - Len(s)]
    BY <1>2, <2>1
  <2> QED
    BY <2>1, <2>2
<1>5. \A i \in 1 .. Len(s) : (s \o t)[i] = s[i]
  BY <1>2, <1>3
<1> QED
  BY <1>2, <1>4, <1>5 DEF Bytes, Begins, Shifted

\* A byte, four bytes and a rest: where the four bytes are.
LEMMA ByteAndFour ==
  ASSUME NEW x \in Byte, NEW a \in Bytes, Len(a) = 4, NEW p \in Bytes
  PROVE  /\ <<x>> \o a \o p \in Bytes /\ Len(<<x>> \o a \o p) = 5 + Len(p)
         /\ (<<x>> \o a \o p)[1] = x
         /\ U32(<<x>> \o a \o p, 2) = from_le_bytes(a)
         /\ Shifted(<<x>> \o a \o p, p, 5)
<1>1. <<x>> \in Bytes /\ Len(<<x>>) = 1 /\ <<x>>[1] = x /\ Len(p) \in Nat
  BY BytesAre DEF Bytes
<1>2. PICK c \in Bytes : /\ c = <<x>> \o a /\ Len(c) = 5 /\ c[1] = x
                         /\ Shifted(c, a, 1)
  <2>1. PICK w \in Bytes : w = <<x>> /\ Len(w) = 1 /\ w[1] = x
    BY <1>1
  <2>2. PICK c \in Bytes : /\ c = w \o a /\ Len(c) = Len(w) + Len(a)
                           /\ Begins(c, w) /\ Shifted(c, a, Len(w))
    BY ConcatIs
  <2>3. c[1] = x
    <3>1. 1 \in 1 .. Len(w)
      BY <2>1
    <3> QED
      BY <2>1, <2>2, <3>1 DEF Begins
  <2>4. c = <<x>> \o a /\ Len(c) = 5 /\ Shifted(c, a, 1)
    BY <2>1, <2>2
  <2> QED
    BY <2>3, <2>4
<1>3. PICK r \in Bytes : /\ r = c \o p /\ Len(r) = 5 + Len(p)
                         /\ \A i \in 1 .. 5 : r[i] = c[i]
                         /\ Shifted(r, p, 5)
  <2>1. PICK r \in Bytes : /\ r = c \o p /\ Len(r) = Len(c) + Len(p)
                           /\ Begins(r, c) /\ Shifted(r, p, Len(c))
    BY ConcatIs
  <2>2. \A i \in 1 .. 5 : r[i] = c[i]
    BY <1>2, <2>1 DEF Begins
  <2> QED
    BY <1>2, <2>1, <2>2
<1>4. r[1] = x
  <2>1. 1 \in 1 .. 5
    OBVIOUS
  <2> QED
    BY <1>2, <1>3, <2>1
<1>5. U32(r, 2) = from_le_bytes(a)
  <2>1. /\ 2 \in 1 .. 5 /\ 3 \in 1 .. 5 /\ 4 \in 1 .. 5 /\ 5 \in 1 .. 5
        /\ 1 \in 1 .. 4 /\ 2 \in 1 .. 4 /\ 3 \in 1 .. 4 /\ 4 \in 1 .. 4
        /\ 1 + 1 = 2 /\ 1 + 2 = 3 /\ 1 + 3 = 4 /\ 1 + 4 = 5
        /\ 2 + 1 = 3 /\ 2 + 2 = 4 /\ 2 + 3 = 5
    OBVIOUS
  <2>2. /\ r[2] = c[1 + 1] /\ r[3] = c[1 + 2] /\ r[4] = c[1 + 3] /\ r[5] = c[1 + 4]
    BY <1>3, <2>1
  <2>3. r[2] = a[1] /\ r[2 + 1] = a[2] /\ r[2 + 2] = a[3] /\ r[2 + 3] = a[4]
    BY <1>2, <2>1, <2>2 DEF Shifted
  <2> QED
    BY <2>3 DEF U32, from_le_bytes
<1> QED
  BY <1>2, <1>3, <1>4, <1>5

\* Four bytes, found later.
LEMMA FourLater ==
  ASSUME NEW r, NEW a, Shifted(r, a, 5), Len(a) \in Nat, Len(a) >= 4
  PROVE  U32(r, 6) = from_le_bytes(a)
<1>1. /\ 1 \in 1 .. Len(a) /\ 2 \in 1 .. Len(a) /\ 3 \in 1 .. Len(a)
      /\ 4 \in 1 .. Len(a)
      /\ 5 + 1 = 6 /\ 5 + 2 = 6 + 1 /\ 5 + 3 = 6 + 2 /\ 5 + 4 = 6 + 3
  OBVIOUS
<1>2. /\ r[5 + 1] = a[1] /\ r[5 + 2] = a[2] /\ r[5 + 3] = a[3] /\ r[5 + 4] = a[4]
  BY <1>1 DEF Shifted
<1>3. /\ r[6] = a[1] /\ r[6 + 1] = a[2] /\ r[6 + 2] = a[3] /\ r[6 + 3] = a[4]
  BY <1>1, <1>2
<1> QED
  BY <1>3 DEF U32, from_le_bytes

\* The number of a client's four bytes.
IsU32(c) == \E u : (\A i \in 1 .. 4 : u[i] \in Byte) /\ c = from_le_bytes(u)

\* Such a number comes back as it went.
LEMMA U32Kept ==
  ASSUME NEW c, IsU32(c)
  PROVE  /\ c \in Nat /\ to_le_bytes(c, 4) \in Bytes /\ Len(to_le_bytes(c, 4)) = 4
         /\ from_le_bytes(to_le_bytes(c, 4)) = c
<1>1. PICK u : (\A i \in 1 .. 4 : u[i] \in Byte) /\ c = from_le_bytes(u)
  BY DEF IsU32
<1>2. c \in Nat
  BY <1>1, FourBytes
<1>3. to_le_bytes(c, 4) \in Bytes
  BY <1>2, ToLeBytes
<1>4. Len(to_le_bytes(c, 4)) = 4
  BY DEF to_le_bytes
<1>5. \A i \in 1 .. 4 : to_le_bytes(c, 4)[i] = u[i]
  BY <1>1, WritesBack
<1>6. /\ to_le_bytes(c, 4)[1] = u[1] /\ to_le_bytes(c, 4)[2] = u[2]
      /\ to_le_bytes(c, 4)[3] = u[3] /\ to_le_bytes(c, 4)[4] = u[4]
  BY <1>5
<1>7. from_le_bytes(to_le_bytes(c, 4)) = from_le_bytes(u)
  BY <1>6 DEF from_le_bytes
<1> QED
  BY <1>1, <1>2, <1>3, <1>4, <1>7

\* Nor does a small length change.
LEMMA SmallKept ==
  ASSUME NEW n \in 0 .. 255
  PROVE  /\ to_le_bytes(n, 4) \in Bytes /\ Len(to_le_bytes(n, 4)) = 4
         /\ from_le_bytes(to_le_bytes(n, 4)) = n
<1>1. PICK t : t = to_le_bytes(n, 4) /\ t \in Bytes /\ Len(t) = 4
  <2>1. to_le_bytes(n, 4) \in Bytes
    BY ToLeBytes
  <2>2. Len(to_le_bytes(n, 4)) = 4
    BY WritesSmall
  <2> QED
    BY <2>1, <2>2
<1>2. t[1] = n /\ \A i \in 2 .. 4 : t[i] = 0
  BY <1>1, WritesSmall
<1>3. t[2] = 0 /\ t[3] = 0 /\ t[4] = 0
  BY <1>2
<1>4. from_le_bytes(t) = n
  BY <1>2, <1>3 DEF from_le_bytes
<1> QED
  BY <1>1, <1>4

\* Every response that the router makes is complete.
LEMMA ProperResponse ==
  ASSUME NEW c, IsU32(c), NEW payload \in Bytes, Len(payload) \in 0 .. 255
  PROVE  Proper(Response(c, payload), c)
<1>1. PICK a \in Bytes : a = to_le_bytes(c, 4) /\ Len(a) = 4 /\ from_le_bytes(a) = c
  BY U32Kept
<1>2. PICK b \in Bytes : /\ b = to_le_bytes(Len(payload), 4) /\ Len(b) = 4
                         /\ from_le_bytes(b) = Len(payload)
  BY SmallKept
<1>3. PICK p \in Bytes : /\ p = b \o payload /\ Len(p) = 4 + Len(payload)
                         /\ Begins(p, b)
  BY <1>2, ConcatIs
<1>4. SHARD_MAGIC \in Byte
  BY DEF SHARD_MAGIC, Byte
<1>5. PICK r \in Bytes : /\ r = <<SHARD_MAGIC>> \o a \o p
                         /\ Len(r) = 5 + Len(p) /\ r[1] = SHARD_MAGIC
                         /\ U32(r, 2) = from_le_bytes(a)
                         /\ Shifted(r, p, 5)
  <2>1. /\ <<SHARD_MAGIC>> \o a \o p \in Bytes
        /\ Len(<<SHARD_MAGIC>> \o a \o p) = 5 + Len(p)
        /\ (<<SHARD_MAGIC>> \o a \o p)[1] = SHARD_MAGIC
        /\ U32(<<SHARD_MAGIC>> \o a \o p, 2) = from_le_bytes(a)
        /\ Shifted(<<SHARD_MAGIC>> \o a \o p, p, 5)
    BY <1>1, <1>4, ByteAndFour
  <2> QED
    BY <2>1
<1>6. Response(c, payload) = r
  <2>1. PICK h \in Bytes : h = <<SHARD_MAGIC>> \o a
    <3>1. <<SHARD_MAGIC>> \in Bytes
      BY <1>4 DEF Bytes
    <3> QED
      BY <3>1, Joined
  <2>2. (h \o b) \o payload = h \o (b \o payload)
    BY BytesAssociate
  <2> QED
    BY <1>1, <1>2, <1>3, <1>5, <2>1, <2>2 DEF Response
<1>7. U32(r, 6) = from_le_bytes(p)
  <2>1. Len(p) \in Nat /\ Len(p) >= 4
    BY <1>3
  <2> QED
    BY <1>5, <2>1, FourLater
<1>8. from_le_bytes(p) = Len(payload)
  <2>0. 1 \in 1 .. 4 /\ 2 \in 1 .. 4 /\ 3 \in 1 .. 4 /\ 4 \in 1 .. 4
    OBVIOUS
  <2>1. p[1] = b[1] /\ p[2] = b[2] /\ p[3] = b[3] /\ p[4] = b[4]
    BY <1>2, <1>3, <2>0 DEF Begins
  <2>2. from_le_bytes(p) = from_le_bytes(b)
    BY <2>1 DEF from_le_bytes
  <2> QED
    BY <1>2, <2>2
<1>9. Len(r) >= 9 /\ 9 + Len(payload) = Len(r)
  <2>1. PICK m \in Nat : m = Len(payload)
    BY BytesAre
  <2>2. Len(r) = 5 + (4 + m)
    BY <1>3, <1>5, <2>1
  <2> QED
    BY <2>1, <2>2
<1> QED
  BY <1>1, <1>5, <1>6, <1>7, <1>8, <1>9 DEF Proper

\* And stays so when the forwarder gives the client its clrid back.
LEMMA ProperRestored ==
  ASSUME NEW r, NEW d, Proper(r, d), NEW c, IsU32(c)
  PROVE  Proper(RestoreClrid(r, c), c)
<1>1. /\ r \in Bytes /\ Len(r) >= 9 /\ Len(r) \in Nat
      /\ r[1] = SHARD_MAGIC /\ 9 + U32(r, 6) = Len(r)
  BY BytesAre DEF Proper
<1>2. PICK a \in Bytes : a = to_le_bytes(c, 4) /\ Len(a) = 4 /\ from_le_bytes(a) = c
  BY U32Kept
<1>3. PICK p \in Bytes : /\ p = From(r, 6) /\ Len(p) = Len(r) - 6 + 1
                         /\ \A i \in 1 .. Len(r) - 6 + 1 : p[i] = r[6 + i - 1]
  <2>1. 6 \in 1 .. Len(r) + 1
    BY <1>1
  <2> QED
    BY <1>1, <2>1, FromLeaves
<1>4. SHARD_MAGIC \in Byte
  BY DEF SHARD_MAGIC, Byte
<1>5. PICK x \in Bytes : /\ x = <<SHARD_MAGIC>> \o a \o p
                         /\ Len(x) = 5 + Len(p) /\ x[1] = SHARD_MAGIC
                         /\ U32(x, 2) = from_le_bytes(a)
                         /\ Shifted(x, p, 5)
  <2>1. /\ <<SHARD_MAGIC>> \o a \o p \in Bytes
        /\ Len(<<SHARD_MAGIC>> \o a \o p) = 5 + Len(p)
        /\ (<<SHARD_MAGIC>> \o a \o p)[1] = SHARD_MAGIC
        /\ U32(<<SHARD_MAGIC>> \o a \o p, 2) = from_le_bytes(a)
        /\ Shifted(<<SHARD_MAGIC>> \o a \o p, p, 5)
    BY <1>2, <1>4, ByteAndFour
  <2> QED
    BY <2>1
<1>6. RestoreClrid(r, c) = x
  BY <1>1, <1>2, <1>3, <1>5 DEF RestoreClrid
<1>7. U32(x, 6) = U32(r, 6)
  <2>1. Len(p) \in Nat /\ Len(p) >= 4
    BY <1>1, <1>3
  <2>2. U32(x, 6) = from_le_bytes(p)
    BY <1>5, <2>1, FourLater
  <2>3. /\ 1 \in 1 .. Len(r) - 6 + 1 /\ 2 \in 1 .. Len(r) - 6 + 1
        /\ 3 \in 1 .. Len(r) - 6 + 1 /\ 4 \in 1 .. Len(r) - 6 + 1
        /\ 6 + 1 - 1 = 6 /\ 6 + 2 - 1 = 6 + 1 /\ 6 + 3 - 1 = 6 + 2
        /\ 6 + 4 - 1 = 6 + 3
    BY <1>1
  <2>4. p[1] = r[6] /\ p[2] = r[6 + 1] /\ p[3] = r[6 + 2] /\ p[4] = r[6 + 3]
    BY <1>3, <2>3
  <2>5. from_le_bytes(p) = U32(r, 6)
    BY <2>4 DEF from_le_bytes, U32
  <2> QED
    BY <2>2, <2>5
<1>8. Len(x) = Len(r)
  BY <1>1, <1>3, <1>5
<1> QED
  BY <1>1, <1>2, <1>5, <1>6, <1>7, <1>8 DEF Proper

\* A sequence of n bytes.
Sized(s, n) == s \in Bytes /\ Len(s) = n

\* Lengths add up.
LEMMA SizedJoin ==
  ASSUME NEW s, NEW t, NEW m \in Nat, NEW n \in Nat, Sized(s, m), Sized(t, n)
  PROVE  Sized(s \o t, m + n)
BY ConcatIs DEF Sized

\* The texts, numbers and fields that the payloads are made of.
LEMMA PartsSized ==
  /\ \A n \in Nat : Sized(Text(n), n)
  /\ \A n \in 0 .. 255 : Sized(to_le_bytes(n, 4), 4) /\ Sized(to_le_bytes(n, 2), 2)
  /\ \A x \in Byte : Sized(<<x>>, 1)
<1>1. ASSUME NEW n \in Nat PROVE Sized(Text(n), n)
  <2>1. Text(n) \in Bytes
    BY TextBytes
  <2>2. Len(Text(n)) = n
    BY DEF Text
  <2> QED
    BY <2>1, <2>2 DEF Sized
<1>2. ASSUME NEW n \in 0 .. 255, NEW w \in {2, 4} PROVE Sized(to_le_bytes(n, w), w)
  <2>1. to_le_bytes(n, w) \in Bytes
    BY ToLeBytes
  <2>2. Len(to_le_bytes(n, w)) = w
    BY WritesSmall
  <2> QED
    BY <2>1, <2>2 DEF Sized
<1>3. ASSUME NEW x \in Byte PROVE Sized(<<x>>, 1)
  BY DEF Sized, Bytes
<1> QED
  BY <1>1, <1>2, <1>3

\* A field is seven bytes longer than its value.
LEMMA FieldSized ==
  ASSUME NEW id \in 0 .. 255, NEW type \in Byte, NEW value, NEW n \in 0 .. 255,
         Sized(value, n)
  PROVE  Sized(Field(id, type, value), 7 + n)
<1>1. PICK a : a = to_le_bytes(id, 2) \o <<type>> /\ Sized(a, 2 + 1)
  BY PartsSized, SizedJoin
<1>2. PICK l : l = to_le_bytes(Len(value), 4) /\ Sized(l, 4)
  <2>1. Len(value) = n
    BY DEF Sized
  <2> QED
    BY <2>1, PartsSized
<1>3. Sized(a \o l, (2 + 1) + 4)
  BY <1>1, <1>2, SizedJoin
<1>4. Sized((a \o l) \o value, ((2 + 1) + 4) + n)
  <2>1. (2 + 1) + 4 \in Nat /\ n \in Nat
    OBVIOUS
  <2> QED
    BY <1>3, <2>1, SizedJoin
<1>5. ((2 + 1) + 4) + n = 7 + n
  OBVIOUS
<1> QED
  BY <1>1, <1>2, <1>4, <1>5 DEF Field

\* Joining no sequences gives none.
LEMMA FlattenNone == FlattenSeq(<<>>) = <<>>
<1>1. Len(<<>>) = 0
  OBVIOUS
<1> QED
  BY <1>1 DEF FlattenSeq

\* FlattenSeq is what joining ends with.
LEMMA FlattenIs ==
  ASSUME NEW q, Len(q) \in Nat, Len(q) # 0, q # <<>>
  PROVE  \E g : Joins(q, g) /\ FlattenSeq(q) = g[Len(q)]
<1> DEFINE f == CHOOSE h : h = [i \in 1 .. Len(q) |->
                                  IF i = 1 THEN q[i] ELSE h[i - 1] \o q[i]]
<1>1. Joins(q, f)
  BY JoinsExist, Zenon DEF Joins
<1>2. FlattenSeq(q) = f[Len(q)]
  BY DEF FlattenSeq
<1> HIDE DEF f
<1> QED
  BY <1>1, <1>2

\* A sequence that is appended is joined last.
LEMMA FlattenAppend ==
  ASSUME NEW T, NEW q \in Seq(Seq(T)), NEW e \in Seq(T)
  PROVE  FlattenSeq(Append(q, e)) = FlattenSeq(q) \o e
<1>1. PICK p : /\ p = Append(q, e) /\ Len(p) = Len(q) + 1 /\ p[Len(q) + 1] = e
               /\ \A i \in 1 .. Len(q) : p[i] = q[i]
  <2>1. /\ Len(Append(q, e)) = Len(q) + 1 /\ Append(q, e)[Len(q) + 1] = e
        /\ \A i \in 1 .. Len(q) : Append(q, e)[i] = q[i]
    BY AppendProperties
  <2> QED
    BY <2>1
<1>2. Len(q) \in Nat /\ Len(p) \in Nat /\ Len(p) # 0 /\ p # <<>>
  BY <1>1
<1>3. PICK g : Joins(p, g) /\ FlattenSeq(p) = g[Len(p)]
  BY <1>2, FlattenIs
<1>4. \A i \in 1 .. Len(p) : g[i] = IF i = 1 THEN p[i] ELSE g[i - 1] \o p[i]
  BY <1>3 DEF Joins
<1>5. CASE Len(q) = 0
  <2>1. q = <<>>
    BY <1>5
  <2>2. g[1] = e
    BY <1>1, <1>4, <1>5
  <2>3. <<>> \o e = e
    BY ConcatEmptySeq
  <2> QED
    BY <1>1, <1>3, <1>5, <2>1, <2>2, <2>3, FlattenNone
<1>6. CASE Len(q) # 0
  <2>1. q # <<>>
    BY <1>6
  <2>2. PICK f : Joins(q, f) /\ FlattenSeq(q) = f[Len(q)]
    BY <1>2, <1>6, <2>1, FlattenIs
  <2>3. \A i \in 1 .. Len(q) : f[i] = IF i = 1 THEN q[i] ELSE f[i - 1] \o q[i]
    BY <2>2 DEF Joins
  <2> DEFINE U == {m \in Nat : m + 1 <= Len(q) => f[m + 1] = g[m + 1]}
  <2>4. 0 \in U
    <3>1. 1 \in 1 .. Len(q) /\ 1 \in 1 .. Len(p) /\ 0 + 1 = 1
      BY <1>1, <1>2, <1>6
    <3>2. f[1] = q[1] /\ g[1] = p[1] /\ p[1] = q[1]
      BY <1>1, <1>4, <2>3, <3>1
    <3> QED
      BY <3>1, <3>2
  <2>5. ASSUME NEW m \in Nat, m \in U PROVE m + 1 \in U
    <3> SUFFICES ASSUME m + 1 + 1 <= Len(q) PROVE f[m + 1 + 1] = g[m + 1 + 1]
      OBVIOUS
    <3>1. f[m + 1] = g[m + 1]
      BY <1>2, <2>5
    <3>2. PICK i \in 1 .. Len(q) : i = m + 1 + 1 /\ i # 1 /\ i - 1 = m + 1
      BY <1>2
    <3>3. i \in 1 .. Len(p)
      BY <1>1, <1>2
    <3>4. f[i] = f[i - 1] \o q[i] /\ g[i] = g[i - 1] \o p[i] /\ p[i] = q[i]
      BY <1>1, <1>4, <2>3, <3>2, <3>3
    <3> QED
      BY <3>1, <3>2, <3>4
  <2> HIDE DEF U
  <2>6. Len(q) - 1 \in U
    <3>1. Len(q) - 1 \in Nat
      BY <1>2, <1>6
    <3> QED
      BY <2>4, <2>5, <3>1, AllNat
  <2>7. f[Len(q)] = g[Len(q)]
    <3>1. Len(q) - 1 + 1 = Len(q) /\ Len(q) <= Len(q)
      BY <1>2
    <3> QED
      BY <2>6, <3>1 DEF U
  <2>8. g[Len(p)] = g[Len(q)] \o e
    <3>1. PICK i \in 1 .. Len(p) : i = Len(p) /\ i # 1 /\ i - 1 = Len(q) /\ i = Len(q) + 1
      <4>1. Len(p) \in 1 .. Len(p) /\ Len(p) # 1 /\ Len(p) - 1 = Len(q)
        BY <1>1, <1>2, <1>6
      <4> QED
        BY <1>1, <4>1
    <3>2. g[i] = g[i - 1] \o p[i]
      BY <1>4, <3>1
    <3> QED
      BY <1>1, <3>1, <3>2
  <2> QED
    BY <1>1, <1>3, <2>2, <2>7, <2>8
<1> QED
  BY <1>5, <1>6

\* A decoded frame's clrid was read from four of its bytes.
LEMMA DecodedClrid ==
  ASSUME NEW b \in Bytes, try_decode_router(b).kind = "frame"
  PROVE  IsU32(try_decode_router(b).original_clrid)
<1>1. /\ ~(Len(b) < 5) /\ ~Refused(b)
      /\ ~(Len(b) < 5 + TotalLen(b)) /\ ~HeaderBad(b)
      /\ try_decode_router(b) = FrameOf(b)
  BY DecodeIs, Kinds
<1>2. Len(b) \in Nat /\ TotalLen(b) \in Nat
  <2>1. Len(b) \in Nat
    BY BytesAre
  <2>2. 2 \in Nat \ {0} /\ 2 + 3 <= Len(b) /\ 2 + 3 = 5
    BY <1>1, <2>1
  <2> QED
    BY <2>1, <2>2, FourBytesOf DEF TotalLen
<1>3. b[6] \in Nat
  <2>1. TotalLen(b) >= 2
    BY <1>1, <1>2 DEF HeaderBad
  <2>2. 6 \in 1 .. Len(b)
    BY <1>1, <1>2, <2>1
  <2> QED
    BY <2>2, BytesAre, ByteIsNat
<1>4. 7 + b[6] + 1 + 8 <= 5 + TotalLen(b)
  BY <1>1, <1>2, <1>3 DEF HeaderBad
<1>5. PICK k \in Nat \ {0}, e \in Nat :
        /\ k = 7 + b[6] + 1 + 1 /\ e = 7 + b[6] + 1 + 4
        /\ e = k + 3 /\ e <= Len(b)
  <2>1. PICK x \in Nat, l \in Nat, t \in Nat : x = b[6] /\ l = Len(b) /\ t = TotalLen(b)
    BY <1>2, <1>3
  <2>2. 7 + x + 1 + 8 <= 5 + t /\ ~(l < 5 + t)
    BY <1>1, <1>4, <2>1
  <2>3. /\ 7 + x + 1 + 1 \in Nat \ {0} /\ 7 + x + 1 + 4 \in Nat
        /\ 7 + x + 1 + 4 = (7 + x + 1 + 1) + 3
        /\ 7 + x + 1 + 4 <= l
    BY <2>2
  <2> QED
    BY <2>1, <2>3
<1>6. PICK u : u = SubSeq(b, k, e) /\ \A i \in 1 .. e - k + 1 : u[i] = b[k + i - 1]
  <2>1. \A i \in k .. e : i \in 1 .. Len(b)
    <3>1. k >= 1 /\ e <= Len(b)
      BY <1>5
    <3> QED
      BY <1>2, <3>1
  <2>2. \A i \in k .. e : b[i] \in Byte
    BY <2>1, BytesAre
  <2>3. \A i \in 1 .. e - k + 1 : SubSeq(b, k, e)[i] = b[k + i - 1]
    BY <2>2, SubSeqProperties
  <2> QED
    BY <2>3
<1>7. \A i \in 1 .. 4 : u[i] \in Byte
  <2>1. SUFFICES ASSUME NEW i \in 1 .. 4 PROVE u[i] \in Byte
    OBVIOUS
  <2>2. i \in 1 .. e - k + 1 /\ k + i - 1 \in 1 .. Len(b)
    <3>1. e = k + 3 /\ e <= Len(b)
      BY <1>5
    <3> QED
      BY <1>2, <3>1
  <2> QED
    BY <1>6, <2>2, BytesAre
<1>8. FrameOf(b).original_clrid = from_le_bytes(u)
  BY <1>5, <1>6 DEF FrameOf
<1> QED
  BY <1>1, <1>7, <1>8 DEF IsU32

\* Whatever forward() returns for a frame is a complete response with its clrid.
LEMMA ForwardProper ==
  ASSUME NEW f, IsU32(f.original_clrid), NEW r \in ForwardResults(f)
  PROVE  Proper(r, f.original_clrid)
<1> DEFINE c == f.original_clrid
<1> HIDE DEF c
<1>0. IsU32(c) /\ c = f.original_clrid
  BY DEF c
<1>1. ASSUME NEW payload, NEW n \in 0 .. 255, Sized(payload, n)
      PROVE  Proper(Response(c, payload), c)
  BY <1>0, <1>1, ProperResponse DEF Sized
<1>2. ASSUME NEW code \in 1 .. 4 PROVE Proper(build_error_response(c, code), c)
  <2>1. Sized(to_le_bytes(3, 4), 4)
    <3>1. 3 \in 0 .. 255
      OBVIOUS
    <3> QED
      BY <3>1, PartsSized
  <2>2. Sized(Field(1, 1, to_le_bytes(3, 4)), 7 + 4)
    <3>1. 1 \in 0 .. 255 /\ 1 \in Byte /\ 4 \in 0 .. 255
      BY DEF Byte
    <3> QED
      BY <2>1, <3>1, FieldSized
  <2>3. Sized(<<5>>, 1) /\ Sized(Text(5), 5) /\ Sized(to_le_bytes(1, 2), 2)
        /\ Sized(Text(3), 3)
    <3>1. 5 \in Byte /\ 5 \in Nat /\ 3 \in Nat /\ 1 \in 0 .. 255
      BY DEF Byte
    <3> QED
      BY <3>1, PartsSized
  <2>4. Sized(<<5>> \o Text(5), 1 + 5)
    BY <2>3, SizedJoin
  <2>5. Sized(<<5>> \o Text(5) \o to_le_bytes(1, 2), 8)
    <3>1. 1 + 5 = 6 /\ 6 + 2 = 8
      OBVIOUS
    <3> QED
      BY <2>3, <2>4, <3>1, SizedJoin
  <2>6. Sized(<<5>> \o Text(5) \o to_le_bytes(1, 2) \o Field(1, 1, to_le_bytes(3, 4)), 19)
    <3>1. 7 + 4 = 11 /\ 8 + 11 = 19
      OBVIOUS
    <3> QED
      BY <2>2, <2>5, <3>1, SizedJoin
  <2>7. Sized(<<5>> \o Text(5) \o to_le_bytes(1, 2)
                \o Field(1, 1, to_le_bytes(3, 4)) \o Text(3), 22)
    <3>1. 19 + 3 = 22
      OBVIOUS
    <3> QED
      BY <2>3, <2>6, <3>1, SizedJoin
  <2>8. 22 \in 0 .. 255
    OBVIOUS
  <2> QED
    BY <1>1, <2>7, <2>8 DEF build_error_response
<1>3. Proper(serialize_codecs(c, Text(2)), c)
  <2>1. Sized(<<7>>, 1) /\ Sized(Text(7), 7) /\ Sized(to_le_bytes(1, 2), 2)
        /\ Sized(Text(2), 2)
    <3>1. 7 \in Byte /\ 7 \in Nat /\ 2 \in Nat /\ 1 \in 0 .. 255
      BY DEF Byte
    <3> QED
      BY <3>1, PartsSized
  <2>2. Sized(Field(1, 9, Text(2)), 7 + 2)
    <3>1. 1 \in 0 .. 255 /\ 9 \in Byte /\ 2 \in 0 .. 255
      BY DEF Byte
    <3> QED
      BY <2>1, <3>1, FieldSized
  <2>3. Sized(<<7>> \o Text(7), 1 + 7)
    BY <2>1, SizedJoin
  <2>4. Sized(<<7>> \o Text(7) \o to_le_bytes(1, 2), 10)
    <3>1. 1 + 7 = 8 /\ 8 + 2 = 10
      OBVIOUS
    <3> QED
      BY <2>1, <2>3, <3>1, SizedJoin
  <2>5. Sized(<<7>> \o Text(7) \o to_le_bytes(1, 2) \o Field(1, 9, Text(2)), 19)
    <3>1. 7 + 2 = 9 /\ 10 + 9 = 19
      OBVIOUS
    <3> QED
      BY <2>2, <2>4, <3>1, SizedJoin
  <2>6. 19 \in 0 .. 255
    OBVIOUS
  <2> QED
    BY <1>1, <2>5, <2>6 DEF serialize_codecs
<1>4. Proper(serialize_get_segments(c, <<<<65>>>>), c)
  <2>1. Sized(<<7>>, 1) /\ Sized(Text(7), 7) /\ Sized(to_le_bytes(2, 2), 2)
        /\ Sized(<<65>>, 1) /\ Sized(to_le_bytes(0, 4), 4)
    <3>1. 7 \in Byte /\ 65 \in Byte /\ 7 \in Nat /\ 2 \in 0 .. 255 /\ 0 \in 0 .. 255
      BY DEF Byte
    <3> QED
      BY <3>1, PartsSized
  <2>2. Sized(Field(1, 1, <<65>>), 7 + 1) /\ Sized(Field(2, 3, to_le_bytes(0, 4)), 7 + 4)
    <3>1. 1 \in 0 .. 255 /\ 1 \in Byte /\ 2 \in 0 .. 255 /\ 3 \in Byte /\ 4 \in 0 .. 255
      BY DEF Byte
    <3> QED
      BY <2>1, <3>1, FieldSized
  <2>3. PICK e : e = Field(1, 1, <<65>>) \o Field(2, 3, to_le_bytes(0, 4)) /\ Sized(e, 19)
    <3>1. 7 + 1 = 8 /\ 7 + 4 = 11 /\ 8 + 11 = 19
      OBVIOUS
    <3>2. Sized(Field(1, 1, <<65>>) \o Field(2, 3, to_le_bytes(0, 4)), 8 + 11)
      BY <2>2, <3>1, SizedJoin
    <3> QED
      BY <3>1, <3>2
  <2>4. FlattenSeq([k \in 1 .. Len(<<<<65>>>>) |->
                      Field(2 * k - 1, 1, <<<<65>>>>[k])
                        \o Field(2 * k, 3, to_le_bytes(0, 4))]) = e
    <3>1. Len(<<<<65>>>>) = 1 /\ <<<<65>>>>[1] = <<65>>
          /\ 2 * 1 - 1 = 1 /\ 2 * 1 = 2
      OBVIOUS
    <3>2. [k \in 1 .. 1 |-> Field(2 * k - 1, 1, <<<<65>>>>[k])
                              \o Field(2 * k, 3, to_le_bytes(0, 4))] = <<e>>
      <4>1. PICK q : q = [k \in 1 .. 1 |-> Field(2 * k - 1, 1, <<<<65>>>>[k])
                                            \o Field(2 * k, 3, to_le_bytes(0, 4))]
        OBVIOUS
      <4>3. 1 \in 1 .. 1 /\ \A k \in 1 .. 1 : k = 1
        OBVIOUS
      <4>2. q[1] = e
        <5>1. q[1] = Field(2 * 1 - 1, 1, <<<<65>>>>[1]) \o Field(2 * 1, 3, to_le_bytes(0, 4))
          BY <4>1, <4>3, Zenon
        <5>2. Field(2 * 1 - 1, 1, <<<<65>>>>[1]) = Field(1, 1, <<65>>)
          BY <3>1
        <5>3. Field(2 * 1, 3, to_le_bytes(0, 4)) = Field(2, 3, to_le_bytes(0, 4))
          BY <3>1
        <5> QED
          BY <2>3, <5>1, <5>2, <5>3
      <4>4. q = [k \in 1 .. 1 |-> e]
        BY <4>1, <4>2, <4>3
      <4>5. <<e>> = [k \in 1 .. 1 |-> e]
        OBVIOUS
      <4> QED
        BY <4>1, <4>4, <4>5
    <3>3. FlattenSeq(<<e>>) = e
      <4>1. <<e>> = Append(<<>>, e) /\ <<>> \in Seq(Seq(Byte)) /\ e \in Seq(Byte)
        BY <2>3 DEF Sized, Bytes
      <4>2. FlattenSeq(Append(<<>>, e)) = FlattenSeq(<<>>) \o e
        BY <4>1, FlattenAppend
      <4>3. <<>> \o e = e
        BY <4>1, ConcatEmptySeq
      <4> QED
        BY <4>1, <4>2, <4>3, FlattenNone
    <3> QED
      BY <3>1, <3>2, <3>3
  <2>5. Sized(<<7>> \o Text(7), 1 + 7)
    BY <2>1, SizedJoin
  <2>6. Sized(<<7>> \o Text(7) \o to_le_bytes(2, 2), 10)
    <3>1. 1 + 7 = 8 /\ 8 + 2 = 10
      OBVIOUS
    <3> QED
      BY <2>1, <2>5, <3>1, SizedJoin
  <2>7. Sized(<<7>> \o Text(7) \o to_le_bytes(2, 2) \o e, 29)
    <3>1. 10 + 19 = 29
      OBVIOUS
    <3> QED
      BY <2>3, <2>6, <3>1, SizedJoin
  <2>8. 29 \in 0 .. 255 /\ 2 * Len(<<<<65>>>>) = 2
    OBVIOUS
  <2>9. Proper(Response(c, <<7>> \o Text(7) \o to_le_bytes(2, 2) \o e), c)
    BY <1>1, <2>7, <2>8
  <2> QED
    BY <2>4, <2>8, <2>9 DEF serialize_get_segments
<1>5. ASSUME NEW payload \in {<<>>, <<SHARD_MAGIC>>}
      PROVE  Proper(RestoreClrid(Response(0, payload), c), c)
  <2>1. IsU32(0)
    <3>1. PICK u : u = <<0, 0, 0, 0>>
      OBVIOUS
    <3>2. \A i \in 1 .. 4 : u[i] = 0
      BY <3>1
    <3>3. (\A i \in 1 .. 4 : u[i] \in Byte) /\ from_le_bytes(u) = 0
      BY <3>2 DEF Byte, from_le_bytes
    <3> QED
      BY <3>3 DEF IsU32
  <2>2. payload \in Bytes /\ Len(payload) \in 0 .. 255
    <3>1. SHARD_MAGIC \in Byte
      BY DEF SHARD_MAGIC, Byte
    <3>2. Sized(<<SHARD_MAGIC>>, 1)
      BY <3>1, PartsSized
    <3>3. <<>> \in Bytes /\ Len(<<>>) = 0 /\ 0 \in 0 .. 255 /\ 1 \in 0 .. 255
      BY DEF Bytes
    <3> QED
      BY <3>2, <3>3 DEF Sized
  <2>3. Proper(Response(0, payload), 0)
    BY <2>1, <2>2, ProperResponse
  <2> QED
    BY <1>0, <2>3, ProperRestored
<1> QED
  BY <1>0, <1>2, <1>3, <1>4, <1>5 DEF ForwardResults

\* A decoded request is the last of the requests.
LEMMA RequestAppended ==
  ASSUME NEW S, NEW fs \in Seq(S), NEW d \in S,
         \A x \in S : x.original_clrid \in Nat
  PROVE  /\ d.segment = KEEPALIVE_SEGMENT =>
              RequestsIn(Append(fs, d)) = RequestsIn(fs) \o <<>>
         /\ d.segment # KEEPALIVE_SEGMENT =>
              RequestsIn(Append(fs, d)) = RequestsIn(fs) \o <<d.original_clrid>>
<1> DEFINE Id(x) == IF x.segment = KEEPALIVE_SEGMENT THEN <<>> ELSE <<x.original_clrid>>
<1>1. PICK q : q = [k \in DOMAIN fs |-> Id(fs[k])]
  OBVIOUS
<1>2. Len(fs) \in Nat /\ DOMAIN fs = 1 .. Len(fs) /\ \A k \in 1 .. Len(fs) : fs[k] \in S
  OBVIOUS
<1>3. \A x \in S : Id(x) \in Seq(Nat)
  OBVIOUS
<1>4. q \in Seq(Seq(Nat)) /\ Len(q) = Len(fs)
  BY <1>1, <1>2, <1>3
<1>5. PICK p : p = [k \in DOMAIN Append(fs, d) |-> Id(Append(fs, d)[k])]
  OBVIOUS
<1>6. p = Append(q, Id(d))
  <2>1. /\ Append(fs, d) \in Seq(S) /\ Len(Append(fs, d)) = Len(fs) + 1
        /\ \A k \in 1 .. Len(fs) : Append(fs, d)[k] = fs[k]
        /\ Append(fs, d)[Len(fs) + 1] = d
    BY AppendProperties
  <2>2. DOMAIN Append(fs, d) = 1 .. Len(fs) + 1
    BY <2>1
  <2>3. Id(d) \in Seq(Nat)
    BY <1>3
  <2>4. /\ Append(q, Id(d)) \in Seq(Seq(Nat)) /\ Len(Append(q, Id(d))) = Len(fs) + 1
        /\ \A k \in 1 .. Len(fs) : Append(q, Id(d))[k] = q[k]
        /\ Append(q, Id(d))[Len(fs) + 1] = Id(d)
    BY <1>4, <2>3, AppendProperties
  <2>5. p \in Seq(Seq(Nat)) /\ Len(p) = Len(fs) + 1
    <3>1. \A k \in 1 .. Len(fs) + 1 : Append(fs, d)[k] \in S
      BY <2>1, <2>2
    <3> QED
      BY <1>2, <1>3, <1>5, <2>2, <3>1
  <2>6. ASSUME NEW k \in 1 .. Len(fs) + 1 PROVE p[k] = Append(q, Id(d))[k]
    <3>1. p[k] = Id(Append(fs, d)[k])
      BY <1>5, <2>2
    <3>2. CASE k = Len(fs) + 1
      BY <2>1, <2>4, <3>1, <3>2
    <3>3. CASE k # Len(fs) + 1
      <4>1. k \in 1 .. Len(fs)
        BY <1>2, <3>3
      <4> QED
        BY <1>1, <1>2, <2>1, <2>4, <3>1, <4>1
    <3> QED
      BY <3>2, <3>3
  <2> QED
    BY <2>4, <2>5, <2>6, SeqEqual
<1>7. RequestsIn(Append(fs, d)) = FlattenSeq(p) /\ RequestsIn(fs) = FlattenSeq(q)
  BY <1>1, <1>5 DEF RequestsIn
<1>8. Id(d) \in Seq(Nat)
  BY <1>3
<1>9. FlattenSeq(p) = FlattenSeq(q) \o Id(d)
  BY <1>4, <1>6, <1>8, FlattenAppend
<1> QED
  BY <1>7, <1>9
-----------------------------------------------------------------------------
(* The answers are those of the requests, in their order *)

\* The frames of the stream are ones that try_decode_router found, so a decoded
\* frame's clrid is a u32.
LEMMA FrameClrid ==
  ASSUME NEW s \in Bytes
  PROVE  \A x \in Frames(s) : x.kind = "frame" /\ IsU32(x.original_clrid)
                            /\ x.original_clrid \in Nat
<1>1. SUFFICES ASSUME NEW x \in Frames(s)
               PROVE  x.kind = "frame" /\ IsU32(x.original_clrid)
                      /\ x.original_clrid \in Nat
  OBVIOUS
<1>2. PICK n \in 0 .. Len(s) : x = At(s, n) /\ x.kind = "frame"
  BY DEF Frames, Found
<1>3. PICK b \in Bytes : b = From(s, n + 1)
  <2>1. n + 1 \in 1 .. Len(s) + 1
    BY BytesAre
  <2> QED
    BY <2>1, FromLeaves
<1>4. IsU32(x.original_clrid)
  BY <1>2, <1>3, DecodedClrid DEF At
<1> QED
  BY <1>2, <1>4, U32Kept

\* What reader_task finds in w before whatever follows.
Tells(w, ids) ==
  /\ w \in Bytes /\ ids \in Seq(Nat)
  /\ \A t \in Bytes : ResponsesIn(w \o t) = ids \o ResponsesIn(t)

\* One more response tells one more clrid.
LEMMA TellsMore ==
  ASSUME NEW w, NEW ids, Tells(w, ids), NEW r, NEW c, Proper(r, c)
  PROVE  Tells(w \o r, ids \o <<c>>)
<1>1. w \in Bytes /\ ids \in Seq(Nat) /\ r \in Bytes
  BY DEF Tells, Proper
<1>2. w \o r \in Bytes /\ <<>> \in Bytes
  BY <1>1, Joined DEF Bytes
<1>3. c \in Nat
  BY <1>2, Consumed
<1>4. <<c>> \in Seq(Nat) /\ ids \o <<c>> \in Seq(Nat)
  BY <1>1, <1>3, ConcatProperties
<1>5. ASSUME NEW t \in Bytes
      PROVE  ResponsesIn((w \o r) \o t) = (ids \o <<c>>) \o ResponsesIn(t)
  <2>1. (w \o r) \o t = w \o (r \o t)
    BY <1>1, BytesAssociate
  <2>2. r \o t \in Bytes
    BY <1>1, Joined
  <2>3. ResponsesIn(w \o (r \o t)) = ids \o ResponsesIn(r \o t)
    BY <2>2 DEF Tells
  <2>4. ResponsesIn(r \o t) = <<c>> \o ResponsesIn(t) /\ ResponsesIn(t) \in Seq(Nat)
    BY Consumed
  <2>5. ids \o (<<c>> \o ResponsesIn(t)) = (ids \o <<c>>) \o ResponsesIn(t)
    <3>1. ids \in Seq(Nat) /\ <<c>> \in Seq(Nat) /\ ResponsesIn(t) \in Seq(Nat)
      BY <1>1, <1>4, <2>4
    <3>2. (ids \o <<c>>) \o ResponsesIn(t) = ids \o (<<c>> \o ResponsesIn(t))
      <4>1. AssociatesIn(Nat)
        BY Associates
      <4> QED
        BY <3>1, <4>1 DEF AssociatesIn
    <3> QED
      BY <3>2
  <2> QED
    BY <2>1, <2>3, <2>4, <2>5
<1> QED
  BY <1>2, <1>4, <1>5 DEF Tells

\* No bytes tell nothing, and all of the output tells what ResponsesIn says.
LEMMA TellsAll ==
  /\ Tells(<<>>, <<>>)
  /\ \A w, ids : Tells(w, ids) => ResponsesIn(w) = ids
<1>1. <<>> \in Bytes /\ <<>> \in Seq(Nat) /\ Len(<<>>) = 0
  BY DEF Bytes
<1>2. ASSUME NEW t \in Bytes
      PROVE  <<>> \o t = t /\ <<>> \o ResponsesIn(t) = ResponsesIn(t)
  <2>1. ResponsesIn(t) \in Seq(Nat)
    <3>1. PICK g : Answers(t, g) /\ ResponsesIn(t) = g[0]
      BY ResponsesInIs
    <3>2. 0 \in 0 .. Len(t)
      BY BytesAre
    <3> QED
      BY <3>1, <3>2, AnswersTypes
  <2>2. \A x \in Seq(Byte) : <<>> \o x = x
    BY ConcatEmptySeq
  <2>3. \A x \in Seq(Nat) : <<>> \o x = x
    BY ConcatEmptySeq
  <2> QED
    BY <2>1, <2>2, <2>3 DEF Bytes
<1>3. Tells(<<>>, <<>>)
  BY <1>1, <1>2 DEF Tells
<1>4. ResponsesIn(<<>>) = <<>>
  <2>1. PICK g : Answers(<<>>, g) /\ ResponsesIn(<<>>) = g[0]
    BY <1>1, ResponsesInIs
  <2>2. 0 \in 0 .. Len(<<>>) /\ Len(<<>>) - 0 < 9
    BY <1>1
  <2>3. g[0] = RBody(<<>>, g, 0)
    BY <2>1, <2>2 DEF Answers
  <2>4. RBody(<<>>, g, 0) = <<>>
    BY <1>1, <2>2, RBodyIs
  <2> QED
    BY <2>1, <2>3, <2>4
<1>5. ASSUME NEW w, NEW ids, Tells(w, ids) PROVE ResponsesIn(w) = ids
  <2>1. w \in Bytes /\ ids \in Seq(Nat)
    BY <1>5 DEF Tells
  <2>2. ResponsesIn(w \o <<>>) = ids \o ResponsesIn(<<>>)
    BY <1>1, <1>5 DEF Tells
  <2>3. w \o <<>> = w
    <3>1. \A x \in Seq(Byte) : x \o <<>> = x
      BY ConcatEmptySeq
    <3> QED
      BY <2>1, <3>1 DEF Bytes
  <2>4. ids \o <<>> = ids
    BY <2>1, ConcatEmptySeq
  <2> QED
    BY <1>4, <2>2, <2>3, <2>4
<1> QED
  BY <1>3, <1>5

\* The clrids that have been told, the one whose response is on its way, and
\* the requests among the frames.
Serving == at \in {"forward", "write", "hung"}

AInv ==
  /\ \E ids \in Seq(Nat), rest \in Seq(Nat) :
       /\ Tells(out, ids)
       /\ RequestsIn(frames) = ids \o rest
       /\ at \in {"read", "parse"} => rest = <<>>
       /\ Serving => rest = <<frame.original_clrid>>
  /\ Serving => IsU32(frame.original_clrid)
  /\ at \in {"write", "hung"} => Proper(response, frame.original_clrid)

\* Initially nothing is asked and nothing answered.
LEMMA AInvInit == Init => AInv
<1> SUFFICES ASSUME Init PROVE AInv
  OBVIOUS
<1>1. out = <<>> /\ frames = <<>> /\ at = "read"
  BY DEF Init
<1>2. RequestsIn(<<>>) = <<>> \o <<>>
  <2>1. DOMAIN <<>> = {} /\ <<>> \o <<>> = <<>>
    OBVIOUS
  <2>2. PICK q : q = [k \in DOMAIN <<>> |-> IF <<>>[k].segment = KEEPALIVE_SEGMENT
                                          THEN <<>> ELSE <<<<>>[k].original_clrid>>]
    OBVIOUS
  <2>3. q = <<>>
    BY <2>1, <2>2
  <2>4. RequestsIn(<<>>) = FlattenSeq(q)
    BY <2>2 DEF RequestsIn
  <2> QED
    BY <2>1, <2>3, <2>4, FlattenNone
<1>3. <<>> \in Seq(Nat)
  OBVIOUS
<1> QED
  BY <1>1, <1>2, <1>3, TellsAll DEF AInv, Serving

\* Every step keeps it.
LEMMA AInvStep == PInv /\ AInv /\ [Next]_vars => AInv'
<1> SUFFICES ASSUME PInv, AInv, [Next]_vars PROVE AInv'
  OBVIOUS
<1>1. PICK ids \in Seq(Nat), rest \in Seq(Nat) :
        /\ Tells(out, ids)
        /\ RequestsIn(frames) = ids \o rest
        /\ at \in {"read", "parse"} => rest = <<>>
        /\ Serving => rest = <<frame.original_clrid>>
  BY DEF AInv
<1>2. /\ Serving => IsU32(frame.original_clrid)
      /\ at \in {"write", "hung"} => Proper(response, frame.original_clrid)
  BY DEF AInv
<1>3. ASSUME NEW reason, Close(reason) PROVE AInv'
  <2>1. at' = "closed" /\ out' = out /\ frames' = frames
    BY <1>3 DEF Close
  <2>2. ~Serving' /\ at' \notin {"read", "parse"} /\ at' \notin {"write", "hung"}
    BY <2>1 DEF Serving
  <2> QED
    BY <1>1, <2>1, <2>2 DEF AInv
<1>4. ASSUME UNCHANGED <<out, frames, frame, response>>,
             \/ at \in {"read", "parse"} /\ at' \in {"read", "parse"}
             \/ at' = at
             \/ at = "write" /\ at' = "hung"
      PROVE  AInv'
  <2>1. /\ Serving' => Serving
        /\ at' \in {"read", "parse"} => at \in {"read", "parse"}
        /\ at' \in {"write", "hung"} => at \in {"write", "hung"}
    BY <1>4 DEF Serving
  <2>2. /\ Tells(out', ids) /\ RequestsIn(frames') = ids \o rest
        /\ at' \in {"read", "parse"} => rest = <<>>
        /\ Serving' => rest = <<frame'.original_clrid>>
    BY <1>1, <1>4, <2>1
  <2>3. /\ Serving' => IsU32(frame'.original_clrid)
        /\ at' \in {"write", "hung"} => Proper(response', frame'.original_clrid)
    BY <1>2, <1>4, <2>1
  <2> QED
    BY <2>2, <2>3 DEF AInv
<1>5. CASE UNCHANGED vars
  BY <1>4, <1>5 DEF vars
<1>6. CASE TakeFrame
  <2>1. /\ at = "parse" /\ try_decode_router(buf).kind = "frame"
        /\ frames' = Append(frames, try_decode_router(buf))
        /\ out' = out
        /\ IF try_decode_router(buf).segment = KEEPALIVE_SEGMENT
           THEN at' = at
           ELSE at' = "forward" /\ frame' = try_decode_router(buf)
    BY <1>6 DEF TakeFrame, Parsing, Decoded
  <2>2. PICK d : d = try_decode_router(buf)
    OBVIOUS
  <2>3. SentBytes \in Bytes
    BY SentIsBytes DEF PInv
  <2>4. PICK s \in Bytes : s = SentBytes /\ frames \in Seq(Frames(s))
    BY <2>3 DEF PInv, Progress
  <2>5. buf \in Bytes
    BY DEF PInv
  <2>6. IsU32(d.original_clrid) /\ d.original_clrid \in Nat
    BY <2>1, <2>2, <2>5, DecodedClrid, U32Kept
  <2>7. rest = <<>> /\ RequestsIn(frames) = ids
    BY <1>1, <2>1, ConcatEmptySeq
  <2>8. /\ d.segment = KEEPALIVE_SEGMENT => RequestsIn(frames') = ids \o <<>>
        /\ d.segment # KEEPALIVE_SEGMENT =>
             RequestsIn(frames') = ids \o <<d.original_clrid>>
    <3>1. PICK S : S = Frames(s) \union {d}
      OBVIOUS
    <3>2. d \in S /\ \A x \in S : x.original_clrid \in Nat
      BY <2>6, <3>1, FrameClrid
    <3>3. frames \in Seq(S)
      BY <2>4, <3>1, SeqMonotonic
    <3> QED
      BY <2>1, <2>2, <2>7, <3>2, <3>3, RequestAppended
  <2>9. CASE d.segment = KEEPALIVE_SEGMENT
    <3>1. at' = "parse" /\ ~Serving' /\ at' \notin {"write", "hung"}
      BY <2>1, <2>2, <2>9 DEF Serving
    <3>2. <<>> \in Seq(Nat)
      OBVIOUS
    <3> QED
      BY <1>1, <2>1, <2>8, <2>9, <3>1, <3>2 DEF AInv
  <2>10. CASE d.segment # KEEPALIVE_SEGMENT
    <3>1. at' = "forward" /\ frame' = d /\ at' \notin {"read", "parse"}
          /\ at' \notin {"write", "hung"}
      BY <2>1, <2>2, <2>10
    <3>2. <<d.original_clrid>> \in Seq(Nat)
      BY <2>6
    <3> QED
      BY <1>1, <2>1, <2>6, <2>8, <2>10, <3>1, <3>2 DEF AInv
  <2> QED
    BY <2>9, <2>10
<1>7. CASE Forward
  <2>1. /\ at = "forward" /\ at' = "write" /\ response' \in ForwardResults(frame)
        /\ out' = out /\ frames' = frames /\ frame' = frame
    BY <1>7 DEF Forward
  <2>2. Serving /\ at' \notin {"read", "parse"}
    BY <2>1 DEF Serving
  <2>3. Proper(response', frame.original_clrid)
    BY <1>2, <2>1, <2>2, ForwardProper
  <2> QED
    BY <1>1, <1>2, <2>1, <2>2, <2>3 DEF AInv
<1>8. CASE WriteResponse
  <2>1. at = "write" /\ at' = "parse" /\ out' = out \o response /\ frames' = frames
    BY <1>8 DEF WriteResponse
  <2>2. Serving /\ ~Serving' /\ at' \notin {"write", "hung"}
    BY <2>1 DEF Serving
  <2>3. PICK c : c = frame.original_clrid /\ Proper(response, c) /\ rest = <<c>>
    BY <1>1, <1>2, <2>1, <2>2
  <2>4. Tells(out', ids \o <<c>>)
    BY <1>1, <2>1, <2>3, TellsMore
  <2>5. ids \o <<c>> \in Seq(Nat) /\ <<>> \in Seq(Nat)
    BY <2>4 DEF Tells
  <2>6. RequestsIn(frames') = (ids \o <<c>>) \o <<>>
    BY <1>1, <2>1, <2>3, <2>5, ConcatEmptySeq
  <2> QED
    BY <2>1, <2>2, <2>4, <2>5, <2>6 DEF AInv
<1>9. CASE SeeCancel \/ ReadEof \/ ReadFails \/ IdleTimeout
  BY <1>3, <1>9 DEF SeeCancel, ReadEof, ReadFails, IdleTimeout
<1>10. CASE BufferExceeded \/ FrameTimeout \/ FrameExceeds \/ WriteFails
  BY <1>3, <1>10 DEF BufferExceeded, FrameTimeout, FrameExceeds, WriteFails
<1>11. CASE ReadSome \/ WaitForMore \/ Resync
  <2>1. UNCHANGED <<out, frames, frame, response>>
    BY <1>11 DEF ReadSome, WaitForMore, Resync
  <2>2. at \in {"read", "parse"} /\ at' \in {"read", "parse"}
    BY <1>11 DEF ReadSome, WaitForMore, Resync, Parsing, AwaitRead
  <2> QED
    BY <1>4, <2>1, <2>2
<1>12. CASE WriteHangs \/ TimePasses \/ Cancel
  BY <1>4, <1>12 DEF WriteHangs, TimePasses, Cancel
<1> QED
  BY <1>5, <1>6, <1>7, <1>8, <1>9, <1>10, <1>11, <1>12
  DEF Next, SelectStep, ParseStep

\* AnsweredInOrder, whatever forward() returns and whenever it is read: on the
\* wire there are always the complete responses of the first requests.
THEOREM AnsweredOnceInOrder == Spec => []AnsweredInOrder
<1>1. PInv /\ AInv /\ UNCHANGED vars => AInv'
  BY AInvStep
<1>2. AInv => AnsweredInOrder
  <2> SUFFICES ASSUME AInv PROVE AnsweredInOrder
    OBVIOUS
  <2>1. PICK ids \in Seq(Nat), rest \in Seq(Nat) :
          /\ Tells(out, ids)
          /\ RequestsIn(frames) = ids \o rest
          /\ at \in {"read", "parse"} => rest = <<>>
    BY DEF AInv
  <2>2. ResponsesIn(out) = ids
    BY <2>1, TellsAll
  <2>3. IsPrefix(ids, ids \o rest)
    BY PrefixOfJoined
  <2>4. ids \o <<>> = ids
    BY ConcatEmptySeq
  <2> QED
    BY <2>1, <2>2, <2>3, <2>4 DEF AnsweredInOrder
<1> QED
  BY <1>1, <1>2, AInvInit, AInvStep, PInvHolds, PTL DEF Spec

\* What TypeOK says of the control state and the clocks.
Plain ==
  /\ response \in Bytes
  /\ at \in {"read", "parse", "forward", "write", "hung", "closed"}
  /\ why \in Reasons /\ (at = "closed") = (why # "none")
  /\ Serving => frame.kind = "frame"
  /\ elapsed \in 0 .. frame_timeout + 1 /\ begun \in 0 .. frame_timeout + 1
  /\ idle \in 0 .. idle_timeout + 1
  /\ cancelled \in BOOLEAN

\* Every step keeps it.
LEMMA PlainStep == PInv /\ AInv /\ Plain /\ [Next]_vars => Plain'
<1> SUFFICES ASSUME PInv, AInv, Plain, [Next]_vars PROVE Plain'
  OBVIOUS
<1>1. frame_timeout \in Nat /\ idle_timeout \in Nat
  BY ClientConnectionAssumption
<1>2. ASSUME NEW reason \in Reasons \ {"none"}, Close(reason) PROVE Plain'
  <2>1. /\ at' = "closed" /\ why' = reason /\ response' = <<>>
        /\ elapsed' = 0 /\ idle' = 0 /\ begun' = begun /\ cancelled' = cancelled
    BY <1>2 DEF Close
  <2>2. ~Serving' /\ <<>> \in Bytes /\ 0 \in 0 .. frame_timeout + 1
        /\ 0 \in 0 .. idle_timeout + 1
    BY <1>1, <2>1 DEF Serving, Bytes
  <2> QED
    BY <2>1, <2>2 DEF Plain
<1>3. CASE UNCHANGED vars
  BY <1>3 DEF Plain, vars, clock, Serving
<1>4. CASE SeeCancel \/ ReadEof \/ ReadFails \/ IdleTimeout
  <2>1. {"cancelled", "eof", "read", "idle_timeout"} \subseteq Reasons \ {"none"}
    BY DEF Reasons
  <2> QED
    BY <1>2, <1>4, <2>1 DEF SeeCancel, ReadEof, ReadFails, IdleTimeout
<1>5. CASE BufferExceeded \/ FrameTimeout \/ FrameExceeds \/ WriteFails
  <2>1. {"buffer", "frame_timeout", "max_frame", "write"} \subseteq Reasons \ {"none"}
    BY DEF Reasons
  <2> QED
    BY <1>2, <1>5, <2>1 DEF BufferExceeded, FrameTimeout, FrameExceeds, WriteFails
<1>6. CASE ReadSome
  <2>1. at = "read" /\ at' = "parse" /\ UNCHANGED <<why, response, elapsed, idle, cancelled>>
    BY <1>6 DEF ReadSome
  <2>2. begun' \in {0, begun}
    BY <1>6 DEF ReadSome
  <2> QED
    BY <1>1, <2>1, <2>2 DEF Plain, Serving
<1>7. CASE WaitForMore
  BY <1>1, <1>7 DEF WaitForMore, Parsing, AwaitRead, Plain, Serving
<1>8. CASE TakeFrame
  <2>1. /\ at = "parse" /\ Decoded.kind = "frame"
        /\ elapsed' = 0 /\ begun' = 0
        /\ UNCHANGED <<why, response, idle, cancelled>>
    BY <1>8 DEF TakeFrame, Parsing
  <2>2. CASE Decoded.segment = KEEPALIVE_SEGMENT
    <3>1. at' = at
      BY <1>8, <2>2 DEF TakeFrame
    <3> QED
      BY <1>1, <2>1, <3>1 DEF Plain, Serving
  <2>3. CASE Decoded.segment # KEEPALIVE_SEGMENT
    <3>1. at' = "forward" /\ frame' = Decoded
      BY <1>8, <2>3 DEF TakeFrame
    <3> QED
      BY <1>1, <2>1, <3>1 DEF Plain, Serving
  <2> QED
    BY <2>2, <2>3
<1>9. CASE Resync
  <2>1. /\ at = "parse" /\ UNCHANGED <<why, response, elapsed, begun, cancelled>>
    BY <1>9 DEF Resync, Parsing
  <2>2. CASE find_next_router_magic(Tail(buf)) > 0
    <3>1. at' = at /\ idle' = idle
      BY <1>9, <2>2 DEF Resync
    <3> QED
      BY <2>1, <3>1 DEF Plain, Serving
  <2>3. CASE ~(find_next_router_magic(Tail(buf)) > 0)
    <3>1. at' = "read" /\ idle' = 0
      BY <1>9, <2>3 DEF Resync, AwaitRead
    <3> QED
      BY <1>1, <2>1, <3>1 DEF Plain, Serving
  <2> QED
    BY <2>2, <2>3
<1>10. CASE Forward
  <2>1. /\ at = "forward" /\ at' = "write" /\ response' \in ForwardResults(frame)
        /\ UNCHANGED <<why, frame, elapsed, begun, idle, cancelled>>
    BY <1>10 DEF Forward, clock
  <2>2. IsU32(frame.original_clrid) /\ Serving
    BY <2>1 DEF AInv, Serving
  <2>3. response' \in Bytes
    BY <2>1, <2>2, ForwardProper DEF Proper
  <2> QED
    BY <2>1, <2>2, <2>3 DEF Plain
<1>11. CASE WriteResponse
  <2>1. /\ at = "write" /\ at' = "parse" /\ response' = <<>>
        /\ UNCHANGED <<why, elapsed, begun, idle, cancelled>>
    BY <1>11 DEF WriteResponse, clock
  <2>2. <<>> \in Bytes
    BY DEF Bytes
  <2> QED
    BY <2>1, <2>2 DEF Plain, Serving
<1>12. CASE WriteHangs
  BY <1>12 DEF WriteHangs, clock, Plain, Serving
<1>13. CASE TimePasses
  <2>1. UNCHANGED <<at, why, frame, response, cancelled>>
    BY <1>13 DEF TimePasses
  <2>2. ASSUME NEW limit \in Nat, NEW x \in 0 .. limit + 1
        PROVE  Later(x, limit) \in 0 .. limit + 1
    BY DEF Later
  <2>3. /\ elapsed' = Later(elapsed, frame_timeout)
        /\ begun' \in {0, Later(begun, frame_timeout)}
        /\ idle' \in {idle, Later(idle, idle_timeout)}
    BY <1>13 DEF TimePasses
  <2>4. elapsed' \in 0 .. frame_timeout + 1
    BY <1>1, <2>2, <2>3 DEF Plain
  <2>5. begun' \in 0 .. frame_timeout + 1
    <3>1. Later(begun, frame_timeout) \in 0 .. frame_timeout + 1
      BY <1>1, <2>2 DEF Plain
    <3>2. 0 \in 0 .. frame_timeout + 1
      BY <1>1
    <3> QED
      BY <2>3, <3>1, <3>2
  <2>6. idle' \in 0 .. idle_timeout + 1
    <3>1. Later(idle, idle_timeout) \in 0 .. idle_timeout + 1
      BY <1>1, <2>2 DEF Plain
    <3> QED
      BY <2>3, <3>1 DEF Plain
  <2> QED
    BY <2>1, <2>4, <2>5, <2>6 DEF Plain, Serving
<1>14. CASE Cancel
  BY <1>14 DEF Cancel, clock, Plain, Serving
<1> QED
  BY <1>3, <1>4, <1>5, <1>6, <1>7, <1>8, <1>9, <1>10, <1>11, <1>12, <1>13, <1>14
  DEF Next, SelectStep, ParseStep

\* TypeOK, with the bound on the buffer and the room for the clrid.
THEOREM TypeCorrect == Spec => []TypeOK
<1>1. Init => Plain
  <2>1. frame_timeout \in Nat /\ idle_timeout \in Nat
    BY ClientConnectionAssumption
  <2>2. 0 \in 0 .. frame_timeout + 1 /\ 0 \in 0 .. idle_timeout + 1
    BY <2>1
  <2>3. <<>> \in Bytes /\ "none" \in Reasons
    BY DEF Bytes, Reasons
  <2> QED
    BY <2>2, <2>3 DEF Init, Plain, Serving
<1>2. PInv /\ AInv /\ UNCHANGED vars => AInv'
  BY AInvStep
<1>3. PInv /\ AInv /\ Plain /\ UNCHANGED vars => Plain'
  BY PlainStep
<1>4. PInv /\ AInv /\ Plain /\ ClridsInside /\ BufferBounded => TypeOK
  <2> SUFFICES ASSUME PInv, AInv, Plain, ClridsInside, BufferBounded PROVE TypeOK
    OBVIOUS
  <2>1. wire \in Bytes /\ buf \in Bytes /\ response \in Bytes /\ out \in Bytes
    BY DEF PInv, Plain, AInv, Tells
  <2>2. \A s \in {wire, buf, response, out} : \A k \in DOMAIN s : s[k] \in Byte
    BY <2>1, BytesAre
  <2>3. Len(frames) <= Len(expected)
    <3>1. SentBytes \in Bytes
      BY SentIsBytes DEF PInv
    <3>2. PICK s \in Bytes : s = SentBytes
      BY <3>1
    <3>3. PICK f : /\ Finds(s, f) /\ expected = f[0]
                   /\ \E n \in 0 .. Len(s) : Progress(s, f, n)
      BY <3>2 DEF PInv
    <3>4. PICK n \in 0 .. Len(s) : Progress(s, f, n)
      BY <3>3
    <3>5. frames \in Seq(Found(s)) /\ f[n] \in Seq(Found(s))
      <4>1. Frames(s) \subseteq Found(s)
        BY DEF Frames
      <4> QED
        BY <3>3, <3>4, <4>1, FoundTypes, SeqMonotonic DEF Progress
    <3>6. expected = frames \o f[n]
      BY <3>3, <3>4 DEF Progress
    <3> QED
      BY <3>5, <3>6, PrefixOfJoined DEF IsPrefix
  <2> QED
    BY <2>2, <2>3 DEF TypeOK, Plain, ClridsInside, BufferBounded, Serving
<1> QED
  BY <1>1, <1>2, <1>3, <1>4, AInvInit, AInvStep, PlainStep, PInvHolds, RoomForClrid,
    BufferLimited, PTL DEF Spec
-----------------------------------------------------------------------------
(* What a compliant client sends, byte by byte *)

\* t lies in x after the first j bytes.
Has(x, t, j) ==
  /\ x \in Bytes /\ t \in Bytes /\ j \in Nat
  /\ j + Len(t) <= Len(x) /\ Shifted(x, t, j)

\* What is joined to x lies in the result, ...
LEMMA HasNew ==
  ASSUME NEW x, NEW n \in Nat, Sized(x, n), NEW t \in Bytes
  PROVE  Has(x \o t, t, n)
<1>1. x \in Bytes /\ Len(x) = n
  BY DEF Sized
<1>2. /\ x \o t \in Bytes /\ Len(x \o t) = Len(x) + Len(t)
      /\ Shifted(x \o t, t, Len(x))
  BY <1>1, ConcatIs
<1>3. Len(t) \in Nat
  BY BytesAre
<1> QED
  BY <1>1, <1>2, <1>3 DEF Has

\* ... and so does what lay in x.
LEMMA HasKept ==
  ASSUME NEW x, NEW t, NEW j, Has(x, t, j), NEW y \in Bytes
  PROVE  Has(x \o y, t, j)
<1>1. x \in Bytes /\ t \in Bytes /\ j \in Nat /\ j + Len(t) <= Len(x)
  BY DEF Has
<1>2. Len(x) \in Nat /\ Len(t) \in Nat /\ Len(y) \in Nat
  BY <1>1, BytesAre
<1>3. PICK z \in Bytes : z = x \o y /\ Len(z) = Len(x) + Len(y) /\ Begins(z, x)
  BY <1>1, ConcatIs
<1>4. ASSUME NEW i \in 1 .. Len(t) PROVE z[j + i] = t[i]
  <2>1. PICK k \in 1 .. Len(x) : k = j + i
    <3>1. j + i \in 1 .. Len(x)
      BY <1>1, <1>2
    <3> QED
      BY <3>1
  <2>2. z[k] = x[k]
    BY <1>3 DEF Begins
  <2>3. x[j + i] = t[i]
    BY DEF Has, Shifted
  <2> QED
    BY <2>1, <2>2, <2>3
<1>5. Shifted(z, t, j)
  BY <1>4 DEF Shifted
<1>6. j + Len(t) <= Len(z)
  BY <1>1, <1>2, <1>3
<1> QED
  BY <1>1, <1>3, <1>5, <1>6 DEF Has

\* The length of what is joined.
LEMMA SizedSum ==
  ASSUME NEW x, NEW y, NEW m \in Nat, NEW n \in Nat, NEW k, k = m + n,
         Sized(x, m), Sized(y, n)
  PROVE  Sized(x \o y, k)
BY SizedJoin

\* One byte of it, and four.
LEMMA HasByte ==
  ASSUME NEW x, NEW b, NEW j, Has(x, <<b>>, j)
  PROVE  x[j + 1] = b
<1>1. Len(<<b>>) = 1 /\ 1 \in 1 .. 1 /\ <<b>>[1] = b
  OBVIOUS
<1> QED
  BY <1>1 DEF Has, Shifted

LEMMA HasU32 ==
  ASSUME NEW x, NEW t, NEW j, Has(x, t, j), Len(t) = 4
  PROVE  U32(x, j + 1) = from_le_bytes(t)
<1>1. 1 \in 1 .. 4 /\ 2 \in 1 .. 4 /\ 3 \in 1 .. 4 /\ 4 \in 1 .. 4 /\ j \in Nat
  BY DEF Has
<1>2. x[j + 1] = t[1] /\ x[j + 2] = t[2] /\ x[j + 3] = t[3] /\ x[j + 4] = t[4]
  BY <1>1 DEF Has, Shifted
<1>3. j + 1 + 1 = j + 2 /\ j + 1 + 2 = j + 3 /\ j + 1 + 3 = j + 4
  BY <1>1
<1> QED
  BY <1>2, <1>3 DEF U32, from_le_bytes

\* The bytes of one frame, with the clrid c.
Framed(b, c) ==
  /\ b \in Bytes
  /\ try_decode_router(b).kind = "frame"
  /\ try_decode_router(b).frame_len = Len(b)
  /\ try_decode_router(b).original_clrid = c

\* A frame with a segment name of one letter, byte by byte.
Layout(b, c) ==
  /\ b \in Bytes /\ Len(b) >= 17 /\ Len(b) <= 255
  /\ b[1] = ROUTER_MAGIC /\ U32(b, 2) = Len(b) - 5
  /\ b[6] = 1 /\ b[7] < 128
  /\ b[9] = SHARD_MAGIC /\ U32(b, 10) = c

\* An ASCII letter is a character of its own.
LEMMA AsciiWidth ==
  ASSUME NEW x \in Nat, x < 128
  PROVE  x \notin Continuation /\ Width(x) = 1
<1>1. x \notin Continuation
  BY DEF Continuation
<1>2. Width(x) = 1
  BY DEF Width
<1> QED
  BY <1>1, <1>2

\* It is decoded.
LEMMA LayoutFramed ==
  ASSUME NEW b, NEW c, Layout(b, c)
  PROVE  Framed(b, c)
<1>1. b \in Bytes /\ Len(b) \in Nat /\ Len(b) >= 17 /\ Len(b) <= 255
  BY BytesAre DEF Layout
<1>2. TotalLen(b) = Len(b) - 5
  <2>1. 2 \in Nat \ {0} /\ 5 = 2 + 3 /\ 5 <= Len(b)
    BY <1>1
  <2> QED
    BY <1>1, <2>1, ReadsU32 DEF TotalLen, Layout
<1>3. ~(Len(b) < 5) /\ ~Refused(b) /\ ~(Len(b) < 5 + TotalLen(b))
  BY <1>1, <1>2 DEF Refused, Layout
<1>4. b[6] = 1 /\ 6 + b[6] = 7 /\ 7 + b[6] = 8 /\ 7 + b[6] + 1 = 9
      /\ 7 + b[6] + 1 + 1 = 10 /\ 7 + b[6] + 1 + 4 = 13 /\ 7 + b[6] + 1 + 8 = 17
  BY DEF Layout
<1>5. from_utf8_ok(SubSeq(b, 7, 7))
  <2>1. \A i \in 7 .. 7 : b[i] \in Byte
    BY <1>1, BytesAre
  <2>2. /\ SubSeq(b, 7, 7) \in Seq(Byte) /\ Len(SubSeq(b, 7, 7)) = 1
        /\ SubSeq(b, 7, 7)[1] = b[7]
    <3>1. b[7] \in Byte
      BY <2>1
    <3> QED
      BY <2>1, SubSeqProperties
  <2>3. \A k \in DOMAIN SubSeq(b, 7, 7) : SubSeq(b, 7, 7)[k] = b[7]
    BY <2>2
  <2>4. b[7] \notin Continuation /\ Width(b[7]) = 1
    <3>1. b[7] \in Byte
      BY <2>1
    <3>2. b[7] < 128
      BY DEF Layout
    <3>3. b[7] \in Nat
      BY <3>1 DEF Byte
    <3> QED
      BY <3>2, <3>3, AsciiWidth
  <2> DEFINE t == SubSeq(b, 7, 7)
  <2>5. DOMAIN t = 1 .. 1 /\ Len(t) = 1
    BY <2>2
  <2> HIDE DEF t
  <2>6. ASSUME NEW k \in DOMAIN t, t[k] = b[7]
        PROVE  /\ t[k] \notin Continuation
               /\ Width(t[k]) > 0 /\ k + Width(t[k]) - 1 <= Len(t)
               /\ \A j \in 1 .. Width(t[k]) - 1 : t[k + j] \in Continuation
               /\ ~(Width(t[k]) > 1)
    BY <2>4, <2>5, <2>6
  <2>7. \A k \in DOMAIN t : t[k] = b[7]
    BY <2>3 DEF t
  <2>8. from_utf8_ok(t)
    BY <2>6, <2>7 DEF from_utf8_ok
  <2> QED
    BY <2>8 DEF t
<1>6. ~HeaderBad(b)
  BY <1>1, <1>2, <1>4, <1>5 DEF HeaderBad, Layout
<1>7. try_decode_router(b) = FrameOf(b)
  BY <1>3, <1>6, DecodeIs
<1>8. FrameOf(b).original_clrid = c
  <2>1. 10 \in Nat \ {0} /\ 13 = 10 + 3 /\ 13 <= Len(b)
    BY <1>1
  <2>2. from_le_bytes(SubSeq(b, 10, 13)) = c
    BY <1>1, <2>1, ReadsU32 DEF Layout
  <2> QED
    BY <1>4, <2>2 DEF FrameOf
<1>9. FrameOf(b).frame_len = Len(b)
  <2>1. 5 + TotalLen(b) = Len(b)
    BY <1>1, <1>2
  <2> QED
    BY <2>1 DEF FrameOf
<1> QED
  BY <1>1, <1>7, <1>8, <1>9, Kinds DEF Framed

\* The frames that a client builds are laid out like this.
LEMMA FrameLayout ==
  ASSUME NEW c, IsU32(c), NEW letter \in 0 .. 127, NEW w \in Byte,
         NEW payload, NEW m \in 0 .. 100, Sized(payload, m)
  PROVE  Layout(ClientFrame(<<letter>>, w, c, payload), c)
<1>1. PICK n \in 0 .. 255 : n = 12 + m
  OBVIOUS
<1>2. PICK l \in Bytes : l = to_le_bytes(n, 4) /\ Sized(l, 4) /\ from_le_bytes(l) = n
  BY SmallKept DEF Sized
<1>3. PICK a \in Bytes : a = to_le_bytes(c, 4) /\ Sized(a, 4) /\ from_le_bytes(a) = c
  BY U32Kept DEF Sized
<1>4. PICK p \in Bytes : p = to_le_bytes(Len(payload), 4) /\ Sized(p, 4)
  <2>1. Len(payload) \in 0 .. 255
    BY DEF Sized
  <2> QED
    BY <2>1, SmallKept DEF Sized
<1>5. /\ <<ROUTER_MAGIC>> \in Bytes /\ <<1>> \in Bytes /\ <<letter>> \in Bytes
      /\ <<w>> \in Bytes /\ <<SHARD_MAGIC>> \in Bytes /\ <<w, SHARD_MAGIC>> \in Bytes
      /\ Sized(<<ROUTER_MAGIC>>, 1) /\ Sized(<<1>>, 1) /\ Sized(<<letter>>, 1)
      /\ Sized(<<w, SHARD_MAGIC>>, 2)
  BY DEF Bytes, Byte, ROUTER_MAGIC, SHARD_MAGIC, Sized
<1>6. PICK x1 : /\ x1 = <<ROUTER_MAGIC>> \o l /\ Sized(x1, 5)
                /\ Has(x1, l, 1) /\ x1[1] = ROUTER_MAGIC
  <2>1. PICK v : v = <<ROUTER_MAGIC>> /\ Sized(v, 1) /\ v[1] = ROUTER_MAGIC
    BY <1>5
  <2>2. Sized(v \o l, 5)
    BY <1>2, <2>1, SizedSum
  <2>4. Has(v \o l, l, 1)
    BY <1>2, <2>1, HasNew
  <2>5. Begins(v \o l, v)
    BY <2>1, ConcatIs DEF Sized
  <2>3. (v \o l)[1] = v[1]
    BY <2>1, <2>5 DEF Begins, Sized
  <2> QED
    BY <2>1, <2>2, <2>3, <2>4
<1>7. Has(x1, <<ROUTER_MAGIC>>, 0)
  BY <1>5, <1>6 DEF Has, Shifted, Sized
<1>8. PICK x2 : /\ x2 = x1 \o <<1>> /\ Sized(x2, 6)
                /\ Has(x2, <<1>>, 5) /\ Has(x2, l, 1) /\ Has(x2, <<ROUTER_MAGIC>>, 0)
  <2>1. Sized(x1 \o <<1>>, 6)
    BY <1>5, <1>6, SizedSum
  <2>2. Has(x1 \o <<1>>, <<1>>, 5)
    BY <1>5, <1>5, <1>6, <1>7, HasNew
  <2> QED
    BY <1>5, <1>6, <1>7, <2>1, <2>2, HasKept
<1>9. PICK x3 : /\ x3 = x2 \o <<letter>> /\ Sized(x3, 7) /\ Has(x3, <<letter>>, 6)
                /\ Has(x3, <<1>>, 5) /\ Has(x3, l, 1) /\ Has(x3, <<ROUTER_MAGIC>>, 0)
  <2>1. Sized(x2 \o <<letter>>, 7)
    BY <1>5, <1>8, SizedSum
  <2>2. Has(x2 \o <<letter>>, <<letter>>, 6)
    BY <1>5, <1>5, <1>8, HasNew
  <2> QED
    BY <1>5, <1>8, <2>1, <2>2, HasKept
<1>10. PICK x4 : /\ x4 = x3 \o <<w, SHARD_MAGIC>> /\ Sized(x4, 9)
                 /\ Has(x4, <<w, SHARD_MAGIC>>, 7) /\ Has(x4, <<letter>>, 6)
                 /\ Has(x4, <<1>>, 5) /\ Has(x4, l, 1) /\ Has(x4, <<ROUTER_MAGIC>>, 0)
  <2>1. Sized(x3 \o <<w, SHARD_MAGIC>>, 9)
    BY <1>5, <1>9, SizedSum
  <2>2. Has(x3 \o <<w, SHARD_MAGIC>>, <<w, SHARD_MAGIC>>, 7)
    BY <1>5, <1>5, <1>9, HasNew
  <2> QED
    BY <1>5, <1>9, <2>1, <2>2, HasKept
<1>11. PICK x5 : /\ x5 = x4 \o a /\ Sized(x5, 13) /\ Has(x5, a, 9)
                 /\ Has(x5, <<w, SHARD_MAGIC>>, 7) /\ Has(x5, <<letter>>, 6)
                 /\ Has(x5, <<1>>, 5) /\ Has(x5, l, 1) /\ Has(x5, <<ROUTER_MAGIC>>, 0)
  <2>1. Sized(x4 \o a, 13)
    BY <1>3, <1>10, SizedSum
  <2> QED
    BY <1>10, <2>1, HasNew, HasKept
<1>12. PICK x6 : /\ x6 = x5 \o p /\ Sized(x6, 17) /\ Has(x6, a, 9)
                 /\ Has(x6, <<w, SHARD_MAGIC>>, 7) /\ Has(x6, <<letter>>, 6)
                 /\ Has(x6, <<1>>, 5) /\ Has(x6, l, 1) /\ Has(x6, <<ROUTER_MAGIC>>, 0)
  <2>1. Sized(x5 \o p, 17)
    BY <1>4, <1>11, SizedSum
  <2> QED
    BY <1>11, <2>1, HasKept
<1>13. PICK b : /\ b = x6 \o payload /\ Sized(b, 17 + m) /\ Has(b, a, 9)
                /\ Has(b, <<w, SHARD_MAGIC>>, 7) /\ Has(b, <<letter>>, 6)
                /\ Has(b, <<1>>, 5) /\ Has(b, l, 1) /\ Has(b, <<ROUTER_MAGIC>>, 0)
  <2>1. 17 \in Nat /\ m \in Nat /\ payload \in Bytes
    BY DEF Sized
  <2>2. Sized(x6 \o payload, 17 + m)
    BY <1>12, <2>1, SizedJoin
  <2> QED
    BY <1>12, <2>1, <2>2, HasKept
<1>14. b = ClientFrame(<<letter>>, w, c, payload)
  <2>1. Len(<<letter>>) = 1 /\ 1 + 1 + 1 + 9 + Len(payload) = n
    BY <1>1 DEF Sized
  <2> QED
    BY <1>2, <1>3, <1>4, <1>6, <1>8, <1>9, <1>10, <1>11, <1>12, <1>13, <2>1
    DEF ClientFrame
<1>15. /\ b[1] = ROUTER_MAGIC /\ b[6] = 1 /\ b[7] = letter
       /\ U32(b, 2) = n /\ U32(b, 10) = c
  <2>1. b[0 + 1] = ROUTER_MAGIC /\ b[5 + 1] = 1 /\ b[6 + 1] = letter
    BY <1>13, HasByte
  <2>2. U32(b, 1 + 1) = n /\ U32(b, 9 + 1) = c
    BY <1>2, <1>3, <1>13, HasU32 DEF Sized
  <2> QED
    BY <2>1, <2>2
<1>16. b[9] = SHARD_MAGIC
  <2>1. <<w, SHARD_MAGIC>>[2] = SHARD_MAGIC /\ Len(<<w, SHARD_MAGIC>>) = 2
        /\ 2 \in 1 .. 2 /\ 7 + 2 = 9
    OBVIOUS
  <2>2. Shifted(b, <<w, SHARD_MAGIC>>, 7)
    BY <1>13 DEF Has
  <2>3. b[7 + 2] = <<w, SHARD_MAGIC>>[2]
    BY <2>1, <2>2 DEF Shifted
  <2> QED
    BY <2>1, <2>3
<1>17. b \in Bytes /\ Len(b) = 17 + m
  BY <1>13 DEF Sized
<1>18. Len(b) >= 17 /\ Len(b) <= 255 /\ n = Len(b) - 5 /\ letter < 128
  BY <1>1, <1>17
<1> QED
  BY <1>14, <1>15, <1>16, <1>17, <1>18 DEF Layout

\* A keepalive is such a frame.
LEMMA KeepaliveIs ==
  ASSUME NEW c, IsU32(c)
  PROVE  build_keepalive_frame(c) = ClientFrame(<<75>>, 0, c, <<>>)
<1>1. PICK h \in Bytes : h = <<ROUTER_MAGIC>> \o to_le_bytes(12, 4) \o <<1>> \o <<75>>
  <2>1. to_le_bytes(12, 4) \in Bytes
    BY SmallKept
  <2>2. <<ROUTER_MAGIC>> \in Bytes /\ <<1>> \in Bytes /\ <<75>> \in Bytes
    BY DEF Bytes, Byte, ROUTER_MAGIC
  <2> QED
    BY <2>1, <2>2, Joined
<1>2. PICK z \in Bytes : z = <<0>> /\ Len(z) = 1 /\ z[1] = 0
  <2>1. <<0>> \in Bytes
    BY DEF Bytes, Byte
  <2> QED
    BY <2>1
<1>3. PICK m \in Bytes : m = <<SHARD_MAGIC>> /\ Len(m) = 1 /\ m[1] = SHARD_MAGIC
  <2>1. <<SHARD_MAGIC>> \in Bytes
    BY DEF Bytes, Byte, SHARD_MAGIC
  <2> QED
    BY <2>1
<1>4. (h \o z) \o m = h \o (z \o m)
  BY BytesAssociate
<1>5. z \o m = <<0, SHARD_MAGIC>>
  <2>1. PICK x \in Bytes : x = z \o m /\ Len(x) = 2 /\ Begins(x, z) /\ Shifted(x, m, 1)
    <3>1. PICK x \in Bytes : /\ x = z \o m /\ Len(x) = Len(z) + Len(m)
                             /\ Begins(x, z) /\ Shifted(x, m, Len(z))
      BY ConcatIs
    <3>2. Len(x) = 2 /\ Shifted(x, m, 1)
      BY <1>2, <1>3, <3>1
    <3> QED
      BY <3>1, <3>2
  <2>2. x[1] = 0 /\ x[1 + 1] = SHARD_MAGIC
    BY <1>2, <1>3, <2>1 DEF Begins, Shifted
  <2>3. PICK y \in Bytes : /\ y = <<0, SHARD_MAGIC>> /\ Len(y) = 2
                          /\ y[1] = 0 /\ y[2] = SHARD_MAGIC
    <3>1. <<0, SHARD_MAGIC>> \in Bytes
      BY DEF Bytes, Byte, SHARD_MAGIC
    <3> QED
      BY <3>1
  <2>4. \A i \in 1 .. 2 : x[i] = y[i]
    BY <2>2, <2>3
  <2>5. x = y
    BY <2>1, <2>3, <2>4, SeqEqual DEF Bytes
  <2> QED
    BY <2>1, <2>3, <2>5
<1>6. h \o <<0>> \o <<SHARD_MAGIC>> = h \o <<0, SHARD_MAGIC>>
  BY <1>2, <1>3, <1>4, <1>5
<1>7. to_le_bytes(c, 4) \in Bytes /\ to_le_bytes(0, 4) \in Bytes
  BY U32Kept, SmallKept
<1>8. Len(<<>>) = 0 /\ Len(<<75>>) = 1 /\ 1 + 1 + 1 + 9 = 12 /\ 1 + 1 + 1 + 9 + 0 = 12
  OBVIOUS
<1>9. build_keepalive_frame(c)
        = h \o <<0>> \o <<SHARD_MAGIC>> \o to_le_bytes(c, 4) \o to_le_bytes(0, 4)
  BY <1>1, <1>8 DEF build_keepalive_frame, KEEPALIVE_SEGMENT
<1>10. PICK g \in Bytes :
         g = h \o <<0, SHARD_MAGIC>> \o to_le_bytes(c, 4) \o to_le_bytes(0, 4)
  <2>1. <<0, SHARD_MAGIC>> \in Bytes
    BY DEF Bytes, Byte, SHARD_MAGIC
  <2> QED
    BY <1>7, <2>1, Joined
<1>11. ClientFrame(<<75>>, 0, c, <<>>) = g \o <<>>
  BY <1>1, <1>8, <1>10 DEF ClientFrame
<1>12. g \o <<>> = g
  BY ConcatEmptySeq DEF Bytes
<1> QED
  BY <1>6, <1>9, <1>10, <1>11, <1>12

\* So everything well-formed is a frame.
LEMMA WellFormedFramed ==
  ASSUME NEW piece \in WellFormed, NEW c, IsU32(c)
  PROVE  Framed(PieceBytes(piece, c), c)
<1>1. /\ Sized(<<>>, 0) /\ Sized(<<ROUTER_MAGIC>>, 1)
      /\ 0 \in 0 .. 100 /\ 1 \in 0 .. 100
      /\ 65 \in 0 .. 127 /\ 71 \in 0 .. 127 /\ 67 \in 0 .. 127 /\ 75 \in 0 .. 127
      /\ 0 \in Byte /\ 1 \in Byte
  BY DEF Sized, Bytes, Byte, ROUTER_MAGIC
<1>2. CASE piece = "read"
  BY <1>1, <1>2, FrameLayout, LayoutFramed DEF PieceBytes
<1>3. CASE piece = "write"
  BY <1>1, <1>3, FrameLayout, LayoutFramed DEF PieceBytes
<1>4. CASE piece = "segments"
  BY <1>1, <1>4, FrameLayout, LayoutFramed DEF PieceBytes, GETSEGMENTS
<1>5. CASE piece = "codecs"
  BY <1>1, <1>5, FrameLayout, LayoutFramed DEF PieceBytes, GETCODECS
<1>6. CASE piece = "keepalive"
  <2>1. Layout(ClientFrame(<<75>>, 0, c, <<>>), c)
    BY <1>1, FrameLayout
  <2>2. PieceBytes(piece, c) = ClientFrame(<<75>>, 0, c, <<>>)
    BY <1>6, KeepaliveIs DEF PieceBytes
  <2> QED
    BY <2>1, <2>2, LayoutFramed
<1> QED
  BY <1>2, <1>3, <1>4, <1>5, <1>6 DEF WellFormed
-----------------------------------------------------------------------------
(* ... and what becomes of it *)

\* A buffer that holds all of a frame is not found incomplete.
LEMMA DecodeEnough ==
  ASSUME NEW b \in Bytes, NEW c \in Bytes, Len(b) <= Len(c),
         \A i \in 1 .. Len(b) : c[i] = b[i],
         try_decode_router(c).kind = "frame",
         try_decode_router(c).frame_len <= Len(b)
  PROVE  try_decode_router(b).kind # "incomplete"
<1>1. Len(b) \in Nat /\ Len(c) \in Nat
  BY BytesAre
<1>2. ~(Len(c) < 5) /\ ~Refused(c) /\ try_decode_router(c) = FrameOf(c)
  BY DecodeIs, Kinds
<1>3. TotalLen(c) \in Nat
  <2>1. 2 \in Nat \ {0} /\ 2 + 3 = 5 /\ 5 <= Len(c)
    BY <1>1, <1>2
  <2> QED
    BY <2>1, FourBytesOf DEF TotalLen
<1>4. 5 + TotalLen(c) <= Len(b)
  BY <1>2 DEF FrameOf
<1>5. Len(b) >= 5
  BY <1>1, <1>3, <1>4
<1>6. TotalLen(b) = TotalLen(c)
  <2>1. 5 \in 0 .. Len(b) /\ 2 \in Nat \ {0}
    BY <1>1, <1>5
  <2> QED
    BY <2>1, SameSub DEF TotalLen
<1>7. ~(Len(b) < 5) /\ ~(Len(b) < 5 + TotalLen(b))
  BY <1>1, <1>3, <1>4, <1>5, <1>6
<1> QED
  BY <1>7, DecodeIs, Kinds

\* In s the k-th frame lies between the offsets n and j.
Lies(s, k, n, j) ==
  /\ At(s, n).kind = "frame"
  /\ n + At(s, n).frame_len = j
  /\ At(s, n).frame_len <= max_frame_size
  /\ At(s, n).original_clrid = k

\* It stays there when bytes follow.
LEMMA LiesKept ==
  ASSUME NEW s \in Bytes, NEW e \in Bytes, NEW n \in 0 .. Len(s), NEW k, NEW j,
         Lies(s, k, n, j)
  PROVE  Lies(s \o e, k, n, j)
<1>1. Len(s) \in Nat /\ Len(e) \in Nat
  BY BytesAre
<1>2. PICK t \in Bytes : t = s \o e /\ Len(t) = Len(s) + Len(e) /\ Begins(t, s)
  BY ConcatIs
<1>3. PICK b \in Bytes : /\ b = From(s, n + 1) /\ Len(b) = Len(s) - n
                         /\ \A i \in 1 .. Len(b) : b[i] = s[n + i]
  BY RestOf
<1>4. ASSUME NEW i \in 1 .. Len(b) PROVE b[i] = t[n + i]
  <2>1. PICK m \in 1 .. Len(s) : m = n + i
    <3>1. n + i \in 1 .. Len(s)
      BY <1>1, <1>3
    <3> QED
      BY <3>1
  <2>2. b[i] = s[m] /\ t[m] = s[m]
    BY <1>2, <1>3, <2>1 DEF Begins
  <2> QED
    BY <2>1, <2>2
<1>5. Holds(t, n, b) /\ n \in 0 .. Len(t)
  <2>1. Len(b) <= Len(t) - n /\ n \in 0 .. Len(t)
    BY <1>1, <1>2, <1>3
  <2> QED
    BY <1>4, <2>1 DEF Holds
<1>6. At(s, n) = try_decode_router(b)
  BY <1>3 DEF At
<1>7. At(t, n) = At(s, n)
  BY <1>5, <1>6, SameDecision DEF Lies
<1> QED
  BY <1>2, <1>7 DEF Lies

\* A frame that is joined to s lies behind s.
LEMMA LiesNew ==
  ASSUME NEW s \in Bytes, NEW e, NEW k, Framed(e, k), Len(e) <= max_frame_size
  PROVE  Lies(s \o e, k, Len(s), Len(s \o e))
<1>1. e \in Bytes /\ Len(s) \in Nat /\ Len(e) \in Nat
  BY BytesAre DEF Framed
<1>2. PICK t \in Bytes : /\ t = s \o e /\ Len(t) = Len(s) + Len(e)
                         /\ Shifted(t, e, Len(s))
  BY <1>1, ConcatIs
<1>3. Holds(t, Len(s), e) /\ Len(s) \in 0 .. Len(t)
  <2>1. Len(e) <= Len(t) - Len(s) /\ Len(s) \in 0 .. Len(t)
    BY <1>1, <1>2
  <2> QED
    BY <1>2, <2>1 DEF Holds, Shifted
<1>4. At(t, Len(s)) = try_decode_router(e)
  BY <1>1, <1>3, SameDecision DEF Framed
<1> QED
  BY <1>2, <1>4 DEF Lies, Framed

\* The first m pieces.
SentFirst(m) == FlattenSeq([k \in 1 .. m |-> PieceBytes(input[k], k)])

\* What is sent of n pieces, piece by piece.
LEMMA SentGrows ==
  ASSUME input \in Inputs, NEW n \in Nat, DOMAIN input = 1 .. n
  PROVE  /\ SentFirst(n) = SentBytes
         /\ SentFirst(0) = <<>>
         /\ \A m \in 0 .. n : SentFirst(m) \in Bytes
         /\ \A m \in 0 .. n - 1 :
              SentFirst(m + 1) = SentFirst(m) \o PieceBytes(input[m + 1], m + 1)
<1>1. \A k \in 1 .. n : PieceBytes(input[k], k) \in Bytes
  <2>1. \A k \in 1 .. n : input[k] \in Pieces /\ k \in Nat
    BY DEF Inputs
  <2> QED
    BY <2>1, PieceIsBytes
<1> DEFINE q(m) == [k \in 1 .. m |-> PieceBytes(input[k], k)]
<1>2. \A m \in 0 .. n : q(m) \in Seq(Bytes)
  BY <1>1
<1>3. \A m \in 0 .. n : SentFirst(m) \in Bytes
  BY <1>2, FlattenBytes DEF SentFirst
<1>4. SentFirst(0) = <<>>
  <2>1. q(0) = <<>>
    OBVIOUS
  <2> QED
    BY <2>1, FlattenNone DEF SentFirst
<1>5. ASSUME NEW m \in 0 .. n - 1
      PROVE  SentFirst(m + 1) = SentFirst(m) \o PieceBytes(input[m + 1], m + 1)
  <2>1. m \in 0 .. n /\ m + 1 \in 1 .. n /\ m + 1 \in 0 .. n /\ m \in Nat
    OBVIOUS
  <2>2. PICK e \in Bytes : e = PieceBytes(input[m + 1], m + 1)
    BY <1>1, <2>1
  <2>3. q(m) \in Seq(Seq(Byte)) /\ q(m + 1) \in Seq(Seq(Byte)) /\ e \in Seq(Byte)
    BY <1>2, <2>1 DEF Bytes
  <2>4. q(m + 1) = Append(q(m), e)
    <3>1. Len(q(m)) = m /\ Len(q(m + 1)) = m + 1
      BY <2>1
    <3>2. /\ Append(q(m), e) \in Seq(Seq(Byte)) /\ Len(Append(q(m), e)) = m + 1
          /\ Append(q(m), e)[m + 1] = e
          /\ \A i \in 1 .. m : Append(q(m), e)[i] = q(m)[i]
      BY <2>3, <3>1, AppendProperties
    <3>3. \A i \in 1 .. m + 1 : Append(q(m), e)[i] = q(m + 1)[i]
      BY <2>1, <2>2, <3>2
    <3> QED
      BY <2>3, <3>1, <3>2, <3>3, SeqEqual
  <2>5. FlattenSeq(Append(q(m), e)) = FlattenSeq(q(m)) \o e
    BY <2>3, FlattenAppend
  <2> QED
    BY <2>2, <2>4, <2>5 DEF SentFirst
<1>6. SentFirst(n) = SentBytes
  BY DEF SentFirst, SentBytes
<1> QED
  BY <1>3, <1>4, <1>5, <1>6

\* s is made of n frames, with the clrids 1 to n; the k-th ends at d[k].
Laid(s, d, n) ==
  /\ d[0] = 0 /\ d[n] = Len(s)
  /\ \A k \in 0 .. n : d[k] \in 0 .. Len(s)
  /\ \A k \in 1 .. n : Lies(s, k, d[k - 1], d[k])

\* The first m pieces are.
LaidFirst(m) ==
  \A k \in 1 .. m :
    /\ Len(SentFirst(k - 1)) \in 0 .. Len(SentFirst(m))
    /\ Lies(SentFirst(m), k, Len(SentFirst(k - 1)), Len(SentFirst(k)))

\* A compliant client sends frames, one after the other.
LEMMA CompliantLaid ==
  ASSUME input \in Inputs, NEW n \in Nat, DOMAIN input = 1 .. n,
         \A k \in 1 .. n : IsU32(k), Compliant
  PROVE  \E d : Laid(SentBytes, d, n)
<1> DEFINE e(k) == PieceBytes(input[k], k)
           T == {m \in Nat : m <= n => LaidFirst(m)}
<1>1. \A k \in 1 .. n : Framed(e(k), k) /\ Len(e(k)) <= max_frame_size
  BY WellFormedFramed DEF Compliant
<1>2. \A m \in 0 .. n : SentFirst(m) \in Bytes /\ Len(SentFirst(m)) \in Nat
  BY SentGrows, BytesAre
<1>3. 0 \in T
  BY DEF LaidFirst
<1>4. ASSUME NEW m \in Nat, m \in T PROVE m + 1 \in T
  <2> SUFFICES ASSUME m + 1 <= n PROVE LaidFirst(m + 1)
    OBVIOUS
  <2>1. /\ m \in 0 .. n /\ m \in 0 .. n - 1 /\ m + 1 \in 1 .. n /\ m + 1 \in 0 .. n
        /\ LaidFirst(m)
    BY <1>4
  <2>2. PICK s \in Bytes : s = SentFirst(m)
    BY <1>2, <2>1
  <2>3. PICK b \in Bytes : b = e(m + 1) /\ Framed(b, m + 1) /\ Len(b) <= max_frame_size
    BY <1>1, <2>1 DEF Framed
  <2>4. SentFirst(m + 1) = s \o b
    BY <2>1, <2>2, <2>3, SentGrows
  <2>5. Len(s \o b) = Len(s) + Len(b) /\ Len(s) \in Nat /\ Len(b) \in Nat
    BY ConcatIs, BytesAre
  <2>6. Lies(s \o b, m + 1, Len(s), Len(s \o b))
    BY <2>3, LiesNew
  <2>7. ASSUME NEW k \in 1 .. m + 1
        PROVE  /\ Len(SentFirst(k - 1)) \in 0 .. Len(s \o b)
               /\ Lies(s \o b, k, Len(SentFirst(k - 1)), Len(SentFirst(k)))
    <3>1. CASE k = m + 1
      <4>1. SentFirst(k - 1) = s /\ SentFirst(k) = s \o b
        <5>1. k - 1 = m
          BY <3>1
        <5> QED
          BY <2>2, <2>4, <3>1, <5>1
      <4> QED
        BY <2>5, <2>6, <3>1, <4>1
    <3>2. CASE k \in 1 .. m
      <4>1. PICK j \in 0 .. Len(s) :
              j = Len(SentFirst(k - 1)) /\ Lies(s, k, j, Len(SentFirst(k)))
        BY <2>1, <2>2, <3>2 DEF LaidFirst
      <4>2. Lies(s \o b, k, j, Len(SentFirst(k)))
        BY <4>1, LiesKept
      <4>3. j \in 0 .. Len(s \o b)
        BY <2>5
      <4> QED
        BY <4>1, <4>2, <4>3
    <3> QED
      BY <3>1, <3>2
  <2> QED
    BY <2>4, <2>7 DEF LaidFirst
<1> HIDE DEF T
<1>5. n \in T
  BY <1>3, <1>4, AllNat
<1>6. LaidFirst(n)
  BY <1>5 DEF T
<1>7. PICK d : d = [k \in 0 .. n |-> Len(SentFirst(k))]
  OBVIOUS
<1>8. SentFirst(n) = SentBytes /\ Len(SentFirst(0)) = 0
  BY SentGrows
<1>9. d[0] = 0 /\ d[n] = Len(SentBytes)
  BY <1>7, <1>8
<1>10. ASSUME NEW k \in 0 .. n PROVE d[k] \in 0 .. Len(SentBytes)
  <2>1. CASE k = n
    BY <1>2, <1>7, <1>8, <2>1
  <2>2. CASE k # n
    <3>1. PICK i \in 1 .. n : i - 1 = k
      <4>1. k + 1 \in 1 .. n /\ (k + 1) - 1 = k
        BY <2>2
      <4> QED
        BY <4>1
    <3>2. Len(SentFirst(i - 1)) \in 0 .. Len(SentFirst(n))
      BY <1>6 DEF LaidFirst
    <3> QED
      BY <1>7, <1>8, <3>1, <3>2
  <2> QED
    BY <2>1, <2>2
<1>11. ASSUME NEW k \in 1 .. n PROVE Lies(SentBytes, k, d[k - 1], d[k])
  <2>1. k \in 0 .. n /\ k - 1 \in 0 .. n
    OBVIOUS
  <2>2. d[k] = Len(SentFirst(k)) /\ d[k - 1] = Len(SentFirst(k - 1))
    BY <1>7, <2>1
  <2> QED
    BY <1>6, <1>8, <2>2 DEF LaidFirst
<1>12. Laid(SentBytes, d, n)
  BY <1>9, <1>10, <1>11 DEF Laid
<1> QED
  BY <1>12

\* x holds the frames that follow the k-th.
Numbered(s, x, k, n) ==
  /\ x \in Seq(Found(s)) /\ Len(x) = n - k
  /\ \A i \in 1 .. n - k : x[i].original_clrid = k + i

\* They are found, and nothing else is.
LEMMA LaidFound ==
  ASSUME NEW s \in Bytes, NEW n \in Nat, NEW d, Laid(s, d, n), NEW f, Finds(s, f)
  PROVE  Numbered(s, f[0], 0, n)
<1>1. Len(s) \in Nat /\ 0 \in 0 .. n /\ n \in 0 .. n
  BY BytesAre
<1>2. \A j \in 0 .. Len(s) : f[j] \in Seq(Found(s))
  BY FoundTypes
<1> DEFINE P == {k \in 0 .. n : Numbered(s, f[d[k]], k, n)}
<1>3. ASSUME NEW k \in 0 .. n, \A m \in k + 1 .. n : m \in P PROVE k \in P
  <2>1. PICK j \in 0 .. Len(s) : j = d[k]
    BY DEF Laid
  <2>2. CASE k = n
    <3>1. f[j] = <<>>
      BY <2>1, <2>2, FoundFrom DEF Laid
    <3>2. Numbered(s, f[j], k, n)
      BY <2>2, <3>1 DEF Numbered
    <3> QED
      BY <2>1, <3>2
  <2>3. CASE k # n
    <3>1. PICK l \in 1 .. n : l = k + 1 /\ l - 1 = k /\ l \in k + 1 .. n /\ l \in 0 .. n
      <4>1. k + 1 \in 1 .. n /\ k + 1 - 1 = k /\ k + 1 \in k + 1 .. n /\ k + 1 \in 0 .. n
        BY <2>3
      <4> QED
        BY <4>1
    <3>2. PICK m \in 0 .. Len(s) : m = d[l]
      BY <3>1 DEF Laid
    <3>3. Lies(s, l, j, m)
      BY <2>1, <3>1, <3>2 DEF Laid
    <3>4. j # Len(s)
      <4>1. At(s, j).frame_len \in 5 .. Len(s) - j
        BY <3>3, AtInside DEF Lies
      <4> QED
        BY <1>1, <4>1
    <3>5. f[j] = <<At(s, j)>> \o f[m]
      BY <3>3, <3>4, FoundFrom DEF Lies
    <3>6. PICK x \in Seq(Found(s)) : x = f[m] /\ Len(x) = n - l
                                   /\ \A i \in 1 .. n - l : x[i].original_clrid = l + i
      BY <1>3, <3>1, <3>2 DEF Numbered
    <3>7. PICK h \in Seq(Found(s)) : h = <<At(s, j)>> /\ Len(h) = 1 /\ h[1] = At(s, j)
      <4>1. PICK a \in Found(s) : a = At(s, j)
        BY DEF Found
      <4>2. <<a>> \in Seq(Found(s)) /\ Len(<<a>>) = 1 /\ <<a>>[1] = a
        OBVIOUS
      <4> QED
        BY <4>1, <4>2
    <3>8. PICK y \in Seq(Found(s)) :
            /\ y = h \o x /\ Len(y) = 1 + Len(x)
            /\ \A i \in 1 .. 1 + Len(x) : y[i] = IF i <= 1 THEN h[i] ELSE x[i - 1]
      <4>1. /\ h \o x \in Seq(Found(s)) /\ Len(h \o x) = Len(h) + Len(x)
            /\ \A i \in 1 .. Len(h) + Len(x) :
                 (h \o x)[i] = IF i <= Len(h) THEN h[i] ELSE x[i - Len(h)]
        BY ConcatProperties
      <4> QED
        BY <3>7, <4>1
    <3>9. Len(y) = n - k
      BY <3>1, <3>6, <3>8
    <3>10. ASSUME NEW i \in 1 .. n - k PROVE y[i].original_clrid = k + i
      <4>0. i \in 1 .. 1 + Len(x)
        BY <3>8, <3>9
      <4>1. CASE i = 1
        BY <3>1, <3>3, <3>7, <3>8, <4>0, <4>1 DEF Lies
      <4>2. CASE i # 1
        <5>1. PICK p \in 1 .. n - l : p = i - 1 /\ ~(i <= 1) /\ l + p = k + i
          <6>1. i - 1 \in 1 .. n - l /\ ~(i <= 1) /\ l + (i - 1) = k + i
            BY <3>1, <4>2
          <6> QED
            BY <6>1
        <5>2. y[i] = x[p]
          BY <3>8, <4>0, <5>1
        <5> QED
          BY <3>6, <5>1, <5>2
      <4> QED
        BY <4>1, <4>2
    <3>11. Numbered(s, y, k, n)
      BY <3>9, <3>10 DEF Numbered
    <3> QED
      BY <2>1, <3>5, <3>6, <3>7, <3>8, <3>11
  <2> QED
    BY <2>2, <2>3
<1> HIDE DEF P
<1>4. 0 .. n \subseteq P
  BY <1>3, Backward
<1>5. Numbered(s, f[d[0]], 0, n)
  BY <1>1, <1>4 DEF P
<1> QED
  BY <1>5 DEF Laid

\* A number with a byte more than those below m.
ByteMore(c, m) == c < 256 * m

\* Its lowest byte and the others.
Split(c, a, x) == x \in Byte /\ c = x + 256 * a

LEMMA LowByte ==
  ASSUME NEW c \in Nat, NEW m \in Nat, ByteMore(c, m)
  PROVE  \E a \in Nat : a < m /\ \E x : Split(c, a, x)
<1>1. PICK a, x : a = c \div 256 /\ x = c % 256
  OBVIOUS
<1>2. a \in Nat /\ x \in 0 .. 255 /\ c = x + 256 * a
  BY <1>1
<1>3. a < m
  BY <1>2 DEF ByteMore
<1> QED
  BY <1>2, <1>3 DEF Split, Byte

\* A number below 256 ^ 4 has four bytes.
LEMMA SmallU32 ==
  ASSUME NEW c \in Nat, c < 256 * 256 * 256 * 256
  PROVE  IsU32(c)
<1>1. PICK l \in Nat, m \in Nat :
        ByteMore(c, m) /\ (\A a \in Nat : a < m => ByteMore(a, l))
                       /\ (\A b \in Nat : b < l => ByteMore(b, 256))
  <2>1. PICK l \in Nat : l = 256 * 256
    OBVIOUS
  <2>2. PICK m \in Nat : m = 256 * l /\ c < 256 * m
    BY <2>1
  <2>3. \A b \in Nat : b < l => ByteMore(b, 256)
    BY <2>1 DEF ByteMore
  <2>4. \A a \in Nat : a < m => ByteMore(a, l)
    BY <2>2 DEF ByteMore
  <2>5. ByteMore(c, m)
    BY <2>2 DEF ByteMore
  <2> QED
    BY <2>3, <2>4, <2>5
<1>2. PICK a \in Nat : a < m /\ \E x : Split(c, a, x)
  BY <1>1, LowByte
<1>3. PICK b \in Nat : b < l /\ \E x : Split(a, b, x)
  BY <1>1, <1>2, LowByte
<1>4. PICK t \in Nat : t < 256 /\ \E x : Split(b, t, x)
  BY <1>1, <1>3, LowByte
<1>5. PICK x, y, z : Split(c, a, x) /\ Split(a, b, y) /\ Split(b, t, z)
  BY <1>2, <1>3, <1>4
<1>6. PICK u : u = <<x, y, z, t>>
  OBVIOUS
<1>7. u[1] = x /\ u[2] = y /\ u[3] = z /\ u[4] = t
  BY <1>6
<1>8. \A i \in 1 .. 4 : u[i] \in Byte
  <2>1. x \in Byte /\ y \in Byte /\ z \in Byte /\ t \in Byte
    BY <1>4, <1>5 DEF Split, Byte
  <2> QED
    BY <1>7, <2>1
<1>9. c = x + 256 * (y + 256 * (z + 256 * t))
  BY <1>5 DEF Split
<1>10. from_le_bytes(u) = c
  BY <1>7, <1>9 DEF from_le_bytes
<1> QED
  BY <1>8, <1>10 DEF IsU32

\* The numbers of a config in which a frame and a read fit the buffer.
Fits == max_frame_size + MaxRead <= max_buffer_size + 1

\* The buffer begins where a frame begins; a read is awaited with less than a
\* frame in it.
Between(s, d, n) ==
  /\ why \notin {"buffer", "max_frame"}
  /\ Len(buf) <= max_buffer_size
  /\ at = "read" => Len(buf) = 0 \/ Len(buf) < max_frame_size
  /\ at # "closed" => \E j \in 0 .. n : Aligned(s, d[j], buf, wire)

CInv ==
  Compliant /\ Fits =>
    \E n \in Nat : \E d : Laid(SentBytes, d, n) /\ Between(SentBytes, d, n)

\* Initially nothing has been read.
LEMMA CInvInit ==
  ASSUME \A k \in 1 .. MaxPieces : IsU32(k), Init
  PROVE  CInv
<1> SUFFICES ASSUME Compliant, Fits
             PROVE  \E n \in Nat : \E d : Laid(SentBytes, d, n) /\ Between(SentBytes, d, n)
  BY DEF CInv
<1>1. input \in Inputs
  BY DEF Init, Inputs
<1>2. PICK n \in 0 .. MaxPieces : input \in [1 .. n -> Pieces]
  BY <1>1 DEF Inputs
<1>3. n \in Nat /\ DOMAIN input = 1 .. n /\ \A k \in 1 .. n : IsU32(k)
  BY <1>2, ClientConnectionAssumption
<1>4. PICK s \in Bytes : s = SentBytes
  BY <1>1, SentIsBytes
<1>5. PICK d : Laid(s, d, n)
  BY <1>1, <1>3, <1>4, CompliantLaid
<1>6. wire = s /\ buf = <<>> /\ why = "none"
  BY <1>4 DEF Init
<1>7. Len(s) \in Nat /\ Len(<<>>) = 0 /\ 1 .. 0 = {} /\ d[0] = 0
  BY <1>5, BytesAre DEF Laid
<1>8. Aligned(s, d[0], buf, wire)
  BY <1>6, <1>7 DEF Aligned, Holds
<1>9. Between(s, d, n)
  BY <1>3, <1>6, <1>7, <1>8, ClientConnectionAssumption DEF Between
<1> QED
  BY <1>3, <1>4, <1>5, <1>9

\* What the client sends does not change.
LEMMA InputKept == [Next]_vars => input' = input
BY DEF Next, SelectStep, ParseStep, SeeCancel, ReadSome, ReadEof, ReadFails,
  IdleTimeout, BufferExceeded, FrameTimeout, WaitForMore, FrameExceeds, TakeFrame,
  Resync, Forward, WriteResponse, WriteHangs, WriteFails, TimePasses, Cancel, Close,
  AwaitRead, vars

\* At the offset of a frame the buffer decodes to it or has less than all of it.
LEMMA AtFrame ==
  ASSUME NEW s \in Bytes, NEW n \in Nat, NEW d, Laid(s, d, n), NEW j \in 0 .. n,
         NEW b \in Bytes, NEW w \in Bytes, Aligned(s, d[j], b, w)
  PROVE  /\ try_decode_router(b).kind # "malformed"
         /\ try_decode_router(b).kind = "incomplete" =>
              Len(b) = 0 \/ Len(b) < max_frame_size
         /\ try_decode_router(b).kind = "frame" =>
              /\ try_decode_router(b).frame_len <= max_frame_size
              /\ \E k \in 0 .. n : d[k] = d[j] + try_decode_router(b).frame_len
         /\ Len(w) # 0 => max_frame_size >= 5
<1>1. PICK m \in 0 .. Len(s) : m = d[j]
  BY DEF Laid
<1>2. Len(s) \in Nat /\ Len(b) \in Nat /\ Len(w) \in Nat
  BY BytesAre
<1>3. Len(b) + Len(w) = Len(s) - m /\ Holds(s, m, b)
  BY <1>1 DEF Aligned
<1>4. CASE m = Len(s)
  <2>1. Len(b) = 0 /\ Len(w) = 0
    BY <1>2, <1>3, <1>4
  <2>2. try_decode_router(b).kind = "incomplete"
    BY <2>1, DecodeKind
  <2> QED
    BY <2>1, <2>2
<1>5. CASE m # Len(s)
  <2>1. PICK k \in 1 .. n : k = j + 1 /\ k - 1 = j
    <3>1. j # n
      BY <1>1, <1>5 DEF Laid
    <3>2. j + 1 \in 1 .. n /\ (j + 1) - 1 = j
      BY <3>1
    <3> QED
      BY <3>2
  <2>2. Lies(s, k, m, d[k])
    BY <1>1, <2>1 DEF Laid
  <2>3. PICK l \in 5 .. Len(s) - m : l = At(s, m).frame_len
    BY <2>2, AtInside DEF Lies
  <2>4. l <= max_frame_size /\ d[k] = m + l /\ At(s, m).kind = "frame"
    BY <2>2, <2>3 DEF Lies
  <2>5. max_frame_size >= 5
    BY <1>2, <2>3, <2>4, ClientConnectionAssumption
  <2>6. CASE try_decode_router(b).kind # "incomplete"
    <3>1. At(s, m) = try_decode_router(b)
      BY <1>3, <2>6, SameDecision
    <3>2. k \in 0 .. n
      OBVIOUS
    <3> QED
      BY <1>1, <2>3, <2>4, <2>5, <2>6, <3>1, <3>2
  <2>7. CASE try_decode_router(b).kind = "incomplete"
    <3>1. PICK c \in Bytes : /\ c = From(s, m + 1) /\ Len(c) = Len(s) - m
                             /\ \A i \in 1 .. Len(c) : c[i] = s[m + i]
      BY RestOf
    <3>2. At(s, m) = try_decode_router(c)
      BY <3>1 DEF At
    <3>3. Len(b) <= Len(c) /\ \A i \in 1 .. Len(b) : c[i] = b[i]
      <4>1. ASSUME NEW i \in 1 .. Len(b) PROVE c[i] = b[i]
        <5>1. i \in 1 .. Len(c)
          BY <1>2, <1>3, <3>1 DEF Holds
        <5>2. c[i] = s[m + i]
          BY <3>1, <5>1
        <5> QED
          BY <1>3, <5>1, <5>2 DEF Holds
      <4> QED
        BY <1>3, <3>1, <4>1 DEF Holds
    <3>4. ~(l <= Len(b))
      BY <2>3, <2>4, <2>7, <3>2, <3>3, DecodeEnough
    <3>5. Len(b) < max_frame_size
      BY <1>2, <2>3, <2>4, <3>4, ClientConnectionAssumption
    <3> QED
      BY <2>5, <2>7, <3>5
  <2> QED
    BY <2>6, <2>7
<1> QED
  BY <1>4, <1>5

\* Every round of the loop is at a frame, and takes it or needs more of it.
LEMMA CInvStep == PInv /\ CInv /\ [Next]_vars => CInv'
<1> SUFFICES ASSUME PInv, CInv, [Next]_vars, Compliant', Fits'
             PROVE  (\E n \in Nat : \E d : Laid(SentBytes, d, n) /\ Between(SentBytes, d, n))'
  BY DEF CInv
<1>1. SentBytes' = SentBytes /\ Compliant /\ Fits
  BY InputKept DEF SentBytes, Compliant, Fits
<1>2. PICK s \in Bytes : s = SentBytes
  BY SentIsBytes DEF PInv
<1>3. PICK n \in Nat : \E d : Laid(s, d, n) /\ Between(s, d, n)
  BY <1>1, <1>2 DEF CInv
<1>4. PICK d : Laid(s, d, n) /\ Between(s, d, n)
  BY <1>3
<1>5. buf \in Bytes /\ wire \in Bytes /\ Len(buf) \in Nat /\ Len(wire) \in Nat
  BY BytesAre DEF PInv
<1>6. max_frame_size \in Nat /\ max_buffer_size \in Nat /\ MaxRead \in Nat
      /\ max_frame_size + MaxRead <= max_buffer_size + 1
  BY <1>1, ClientConnectionAssumption DEF Fits
<1>7. SUFFICES Between(s, d, n)'
  BY <1>1, <1>2, <1>4
<1>8. ASSUME NEW reason, Close(reason), reason \notin {"buffer", "max_frame"}
      PROVE  Between(s, d, n)'
  <2>1. Len(<<>>) = 0
    OBVIOUS
  <2> QED
    BY <1>6, <1>8, <2>1 DEF Close, Between
<1>9. ASSUME UNCHANGED <<wire, buf, why>>, at # "closed", at' = at \/ at' # "read"
      PROVE  Between(s, d, n)'
  BY <1>4, <1>9 DEF Between, Aligned, Holds
<1>10. CASE UNCHANGED vars
  BY <1>4, <1>10 DEF Between, Aligned, Holds, vars
<1>11. CASE ReadSome
  <2>1. at = "read" /\ at' = "parse" /\ why' = why
    BY <1>11 DEF ReadSome
  <2>2. PICK j \in 0 .. n : Aligned(s, d[j], buf, wire)
    BY <1>4, <2>1 DEF Between
  <2>3. PICK k \in 1 .. MaxRead : /\ k <= Len(wire)
                                  /\ buf' = buf \o SubSeq(wire, 1, k)
                                  /\ wire' = From(wire, k + 1)
    BY <1>11 DEF ReadSome
  <2>4. k \in 1 .. Len(wire) /\ d[j] \in 0 .. Len(s)
    BY <1>4, <1>5, <2>3 DEF Laid
  <2>5. Aligned(s, d[j], buf', wire')
    BY <1>5, <2>2, <2>3, <2>4, ReadAligned
  <2>6. Len(buf') = Len(buf) + k
    <3>1. SubSeq(wire, 1, k) \in Bytes /\ Len(SubSeq(wire, 1, k)) = k
      <4>1. \A i \in 1 .. k : wire[i] \in Byte
        BY <1>5, <2>4, BytesAre
      <4>2. /\ SubSeq(wire, 1, k) \in Seq(Byte)
            /\ Len(SubSeq(wire, 1, k)) = IF 1 <= k THEN k - 1 + 1 ELSE 0
        BY <1>5, <2>4, <4>1, SubSeqProperties
      <4> QED
        BY <2>4, <4>2 DEF Bytes
    <3> QED
      BY <1>5, <2>3, <3>1, ConcatIs
  <2>7. Len(buf') <= max_buffer_size
    <3>1. max_frame_size >= 5
      <4>1. Len(wire) # 0
        BY <1>5, <2>4
      <4> QED
        BY <1>4, <1>5, <2>2, <4>1, AtFrame
    <3>2. Len(buf) = 0 \/ Len(buf) < max_frame_size
      BY <1>4, <2>1 DEF Between
    <3> QED
      BY <1>5, <1>6, <2>6, <3>1, <3>2
  <2> QED
    BY <1>4, <2>1, <2>5, <2>7 DEF Between, Aligned, Holds
<1>12. CASE WaitForMore
  <2>1. /\ at = "parse" /\ try_decode_router(buf).kind = "incomplete"
        /\ UNCHANGED <<wire, buf, why>>
    BY <1>12 DEF WaitForMore, Parsing, Decoded
  <2>2. PICK j \in 0 .. n : Aligned(s, d[j], buf, wire)
    BY <1>4, <2>1 DEF Between
  <2>3. Len(buf) = 0 \/ Len(buf) < max_frame_size
    BY <1>4, <1>5, <2>1, <2>2, AtFrame
  <2> QED
    BY <1>4, <2>1, <2>2, <2>3 DEF Between, Aligned, Holds
<1>13. CASE TakeFrame
  <2>1. /\ at = "parse" /\ at' # "read" /\ wire' = wire /\ why' = why
        /\ try_decode_router(buf).kind = "frame"
        /\ buf' = From(buf, try_decode_router(buf).frame_len + 1)
    BY <1>13 DEF TakeFrame, Parsing, Decoded, split_off
  <2>2. PICK j \in 0 .. n : Aligned(s, d[j], buf, wire)
    BY <1>4, <2>1 DEF Between
  <2>3. PICK l \in 0 .. Len(buf) : l = try_decode_router(buf).frame_len
    <3>1. try_decode_router(buf).frame_len \in 5 .. Len(buf)
      BY <1>5, <2>1, DecodeKind
    <3>2. try_decode_router(buf).frame_len \in 0 .. Len(buf)
      BY <1>5, <3>1
    <3> QED
      BY <3>2
  <2>4. PICK k \in 0 .. n : d[k] = d[j] + l
    BY <1>4, <1>5, <2>1, <2>2, <2>3, AtFrame
  <2>5. d[j] \in 0 .. Len(s)
    BY <1>4 DEF Laid
  <2>6. Aligned(s, d[k], buf', wire') /\ Len(buf') = Len(buf) - l
    <3>1. PICK m \in 0 .. Len(s) : m = d[j] /\ Aligned(s, m, buf, wire)
      BY <2>2, <2>5
    <3>2. /\ Len(From(buf, l + 1)) = Len(buf) - l
          /\ Aligned(s, m + l, From(buf, l + 1), wire)
      BY <1>5, <3>1, DropAligned
    <3>3. buf' = From(buf, l + 1) /\ d[k] = m + l
      BY <2>1, <2>3, <2>4, <3>1
    <3> QED
      BY <2>1, <3>2, <3>3
  <2>7. Len(buf') <= max_buffer_size
    <3>1. Len(buf) <= max_buffer_size
      BY <1>4 DEF Between
    <3> QED
      BY <1>5, <1>6, <2>3, <2>6, <3>1
  <2> QED
    BY <1>4, <2>1, <2>6, <2>7 DEF Between, Aligned, Holds
<1>14. ASSUME Resync \/ FrameExceeds \/ BufferExceeded PROVE FALSE
  <2>1. at = "parse"
    BY <1>14 DEF Resync, FrameExceeds, BufferExceeded, Parsing
  <2>2. PICK j \in 0 .. n : Aligned(s, d[j], buf, wire)
    BY <1>4, <2>1 DEF Between
  <2>3. try_decode_router(buf).kind # "malformed"
    BY <1>4, <1>5, <2>2, AtFrame
  <2>4. try_decode_router(buf).kind = "frame" =>
          try_decode_router(buf).frame_len <= max_frame_size
    BY <1>4, <1>5, <2>2, AtFrame
  <2>5. ~Resync
    BY <2>3 DEF Resync, Parsing, Decoded
  <2>6. ~FrameExceeds
    <3>1. ASSUME FrameExceeds PROVE FALSE
      <4>1. /\ try_decode_router(buf).kind = "frame"
            /\ try_decode_router(buf).frame_len > max_frame_size
        BY <3>1 DEF FrameExceeds, Parsing, Decoded
      <4>2. try_decode_router(buf).frame_len \in 5 .. Len(buf)
        BY <1>5, <4>1, DecodeKind
      <4> QED
        BY <1>5, <1>6, <2>4, <4>1, <4>2
    <3> QED
      BY <3>1
  <2>7. ~BufferExceeded
    BY <1>4, <1>5, <1>6 DEF BufferExceeded, Between
  <2> QED
    BY <1>14, <2>5, <2>6, <2>7
<1>15. CASE SeeCancel \/ ReadEof \/ ReadFails \/ IdleTimeout
  BY <1>8, <1>15 DEF SeeCancel, ReadEof, ReadFails, IdleTimeout
<1>16. CASE FrameTimeout \/ WriteFails
  BY <1>8, <1>16 DEF FrameTimeout, WriteFails
<1>17. CASE Forward \/ WriteResponse \/ WriteHangs \/ TimePasses \/ Cancel
  BY <1>9, <1>17 DEF Forward, WriteResponse, WriteHangs, TimePasses, Cancel
<1> QED
  BY <1>10, <1>11, <1>12, <1>13, <1>14, <1>15, <1>16, <1>17
  DEF Next, SelectStep, ParseStep

\* CompliantServed, whatever the limits, the chunks and the timing.  A clrid is
\* a u32, so it numbers fewer than 256 ^ 4 pieces.
THEOREM CompliantClientServed ==
  MaxPieces < 256 * 256 * 256 * 256 => (Spec => []CompliantServed)
<1> SUFFICES ASSUME MaxPieces < 256 * 256 * 256 * 256
             PROVE  Spec => []CompliantServed
  OBVIOUS
<1>1. \A k \in 1 .. MaxPieces : IsU32(k)
  <2>1. \A k \in 1 .. MaxPieces : k \in Nat /\ k < 256 * 256 * 256 * 256
    BY ClientConnectionAssumption
  <2> QED
    BY <2>1, SmallU32
<1>2. Init => CInv
  BY <1>1, CInvInit
<1>3. PInv /\ CInv => CompliantServed
  <2> SUFFICES ASSUME PInv, CInv, Compliant
               PROVE  /\ Clrids(expected) = [k \in DOMAIN input |-> k]
                      /\ Fits => why \notin {"buffer", "max_frame"}
    BY DEF CompliantServed, Fits
  <2>1. PICK n \in 0 .. MaxPieces : input \in [1 .. n -> Pieces]
    BY DEF PInv, Inputs
  <2>2. n \in Nat /\ DOMAIN input = 1 .. n /\ \A k \in 1 .. n : IsU32(k)
    BY <1>1, <2>1, ClientConnectionAssumption
  <2>3. PICK s \in Bytes : s = SentBytes
    BY SentIsBytes DEF PInv
  <2>4. PICK f : Finds(s, f) /\ expected = f[0]
    BY <2>3 DEF PInv
  <2>5. PICK d : Laid(s, d, n)
    BY <2>2, <2>3, CompliantLaid DEF PInv
  <2>6. Numbered(s, expected, 0, n)
    BY <2>2, <2>4, <2>5, LaidFound
  <2>7. DOMAIN expected = 1 .. n /\ \A i \in 1 .. n : expected[i].original_clrid = i
    BY <2>2, <2>6 DEF Numbered
  <2>8. Clrids(expected) = [k \in DOMAIN input |-> k]
    BY <2>2, <2>7 DEF Clrids
  <2>9. Fits => why \notin {"buffer", "max_frame"}
    BY DEF CInv, Between
  <2> QED
    BY <2>8, <2>9
<1>4. PInv /\ CInv /\ [Next]_vars => CInv'
  BY CInvStep
<1> QED
  BY <1>2, <1>3, <1>4, PInvHolds, PTL DEF Spec
=============================================================================
