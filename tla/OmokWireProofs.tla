--------------------------- MODULE OmokWireProofs ---------------------------
(***************************************************************************)
(* Proofs about OmokWire, for any sizes of packets, words, buffers and the *)
(* TCP window, any durations of sleeps, and any number of clicks, stones   *)
(* and sleeps.                                                             *)
(***************************************************************************)
EXTENDS OmokWire, SequenceTheorems, FiniteSetTheorems, TLAPS

-----------------------------------------------------------------------------
(* Sequences of bytes *)

\* A function on 1..n is a sequence.
LEMMA FunctionIsSeq ==
  ASSUME NEW S, NEW n \in Nat, NEW f \in [1 .. n -> S]
  PROVE  f \in Seq(S) /\ Len(f) = n /\ DOMAIN f = 1 .. n
<1>1. f \in Seq(S)
  BY SeqDef
<1>2. Len(f) \in Nat /\ DOMAIN f = 1 .. Len(f) /\ DOMAIN f = 1 .. n
  BY <1>1, LenProperties
<1> QED
  BY <1>1, <1>2

\* s holds the bytes of a stream from position a on.
RunsFrom(s, a) == \A i \in 1 .. Len(s) : s[i] = a + i - 1

\* What follows on in the stream may be appended.
LEMMA RunsConcat ==
  ASSUME NEW s \in Seq(Nat), NEW t \in Seq(Nat), NEW a \in Nat,
         RunsFrom(s, a), RunsFrom(t, a + Len(s))
  PROVE  RunsFrom(s \o t, a)
<1>1. /\ Len(s \o t) = Len(s) + Len(t)
      /\ \A i \in 1 .. Len(s) + Len(t) :
           (s \o t)[i] = IF i <= Len(s) THEN s[i] ELSE t[i - Len(s)]
  BY ConcatProperties
<1>2. Len(s) \in Nat /\ Len(t) \in Nat
  BY LenProperties
<1> SUFFICES ASSUME NEW i \in 1 .. Len(s \o t)
             PROVE  (s \o t)[i] = a + i - 1
  BY DEF RunsFrom
<1>3. CASE i <= Len(s)
  BY <1>1, <1>2, <1>3 DEF RunsFrom
<1>4. CASE ~(i <= Len(s))
  <2>1. (s \o t)[i] = t[i - Len(s)] /\ i - Len(s) \in 1 .. Len(t)
    BY <1>1, <1>2, <1>4
  <2>2. t[i - Len(s)] = (a + Len(s)) + (i - Len(s)) - 1
    BY <2>1 DEF RunsFrom
  <2> QED
    BY <1>2, <2>1, <2>2
<1> QED
  BY <1>3, <1>4

\* A piece of a stream is a piece of the stream.
LEMMA RunsSubSeq ==
  ASSUME NEW s \in Seq(Nat), NEW a \in Nat, RunsFrom(s, a),
         NEW m \in 1 .. Len(s) + 1, NEW n \in 0 .. Len(s)
  PROVE  /\ SubSeq(s, m, n) \in Seq(Nat)
         /\ Len(SubSeq(s, m, n)) = IF m <= n THEN n - m + 1 ELSE 0
         /\ RunsFrom(SubSeq(s, m, n), a + m - 1)
<1>1. Len(s) \in Nat /\ \A i \in 1 .. Len(s) : s[i] \in Nat
  BY LenProperties, ElementOfSeq
<1>2. /\ SubSeq(s, m, n) \in Seq(Nat)
      /\ Len(SubSeq(s, m, n)) = IF m <= n THEN n - m + 1 ELSE 0
      /\ \A i \in 1 .. n - m + 1 : SubSeq(s, m, n)[i] = s[m + i - 1]
  BY <1>1, SubSeqProperties
<1>3. ASSUME NEW i \in 1 .. Len(SubSeq(s, m, n))
      PROVE  SubSeq(s, m, n)[i] = a + m - 1 + i - 1
  <2>1. i \in 1 .. n - m + 1 /\ m + i - 1 \in 1 .. Len(s)
    BY <1>1, <1>2
  <2> QED
    BY <1>2, <2>1 DEF RunsFrom
<1> QED
  BY <1>2, <1>3 DEF RunsFrom

\* A run of bytes is determined by where it starts and its length.
LEMMA RunsEqual ==
  ASSUME NEW s \in Seq(Nat), NEW a \in Nat, RunsFrom(s, a)
  PROVE  s = [i \in 1 .. Len(s) |-> a + i - 1]
<1>1. Len(s) \in Nat /\ s \in [1 .. Len(s) -> Nat]
  BY LenProperties
<1> QED
  BY <1>1 DEF RunsFrom

-----------------------------------------------------------------------------
(* PacketVector *)

VectorOK(v) == v \in Vectors /\ VectorHolds(v)

\* What has been written and not used.
Unused(v) == Peek(v, UseSize(v))

\* The numbers of a vector that is all right.
LEMMA VectorSizes ==
  ASSUME NEW v, VectorOK(v)
  PROVE  /\ Len(v.bytes) \in Nat /\ v.read_head \in Nat /\ v.bytes \in Seq(Nat)
         /\ UseSize(v) \in Nat /\ BufferSize(v) \in Nat /\ UseSize(v) <= CAPACITY
         /\ Unused(v) \in Seq(Nat) /\ Len(Unused(v)) = UseSize(v)
         /\ \A i \in 1 .. UseSize(v) : Unused(v)[i] = v.bytes[v.read_head + i]
<1>1. Len(v.bytes) \in Nat /\ v.read_head \in Nat /\ v.bytes \in Seq(Nat)
      /\ DOMAIN v.bytes = 1 .. Len(v.bytes)
  BY LenProperties DEF VectorOK, Vectors
<1>2. UseSize(v) \in Nat /\ BufferSize(v) \in Nat /\ UseSize(v) <= CAPACITY
  BY <1>1, CapacityAssumption DEF VectorOK, VectorHolds, UseSize, BufferSize
<1>3. \A i \in 1 .. UseSize(v) : /\ v.read_head + i \in 1 .. Len(v.bytes)
                                /\ ByteAt(v, v.read_head + i) = v.bytes[v.read_head + i]
  BY <1>1, <1>2 DEF UseSize, ByteAt
<1>4. \A i \in 1 .. UseSize(v) : v.bytes[v.read_head + i] \in Nat
  BY <1>1, <1>3, ElementOfSeq
<1>5. Unused(v) \in [1 .. UseSize(v) -> Nat]
  BY <1>3, <1>4 DEF Unused, Peek
<1> QED
  BY <1>1, <1>2, <1>3, <1>5, FunctionIsSeq DEF Unused, Peek

\* write(), and recv() with move_write_head: the bytes are added behind.
LEMMA WriteVector ==
  ASSUME NEW v, VectorOK(v), NEW s \in Seq(Nat), Len(s) <= BufferSize(v)
  PROVE  /\ VectorOK(WriteBytes(v, s))
         /\ UseSize(WriteBytes(v, s)) = UseSize(v) + Len(s)
         /\ WriteBytes(v, s).read_head = v.read_head
         /\ Unused(WriteBytes(v, s)) = Unused(v) \o s
<1> DEFINE w == WriteBytes(v, s)
<1>1. w.bytes = v.bytes \o s /\ w.read_head = v.read_head
  BY DEF WriteBytes, VectorOK, Vectors
<1>2. /\ w.bytes \in Seq(Nat) /\ Len(w.bytes) = Len(v.bytes) + Len(s) /\ Len(s) \in Nat
      /\ \A i \in 1 .. Len(v.bytes) + Len(s) :
           w.bytes[i] = IF i <= Len(v.bytes) THEN v.bytes[i] ELSE s[i - Len(v.bytes)]
  BY <1>1, VectorSizes, ConcatProperties, LenProperties
<1>3. VectorOK(w)
  <2>1. w \in Vectors
    BY <1>2, VectorSizes DEF WriteBytes, VectorOK, Vectors
  <2>2. VectorHolds(w)
    BY <1>1, <1>2, VectorSizes, CapacityAssumption DEF VectorOK, VectorHolds, BufferSize
  <2> QED
    BY <2>1, <2>2 DEF VectorOK
<1>4. UseSize(w) = UseSize(v) + Len(s)
  BY <1>1, <1>2, VectorSizes DEF UseSize
<1> HIDE DEF w
<1>5. Unused(w) = Unused(v) \o s
  <2>1. /\ Unused(v) \o s \in Seq(Nat) /\ Len(Unused(v) \o s) = UseSize(v) + Len(s)
        /\ \A i \in 1 .. UseSize(v) + Len(s) :
             (Unused(v) \o s)[i] = IF i <= UseSize(v) THEN Unused(v)[i] ELSE s[i - UseSize(v)]
    <3>1. Unused(v) \in Seq(Nat) /\ Len(Unused(v)) = UseSize(v)
      BY VectorSizes
    <3> DEFINE u == Unused(v)
    <3>2. u \in Seq(Nat)
      BY <3>1
    <3> HIDE DEF u
    <3>3. /\ u \o s \in Seq(Nat) /\ Len(u \o s) = Len(u) + Len(s)
          /\ \A i \in 1 .. Len(u) + Len(s) :
               (u \o s)[i] = IF i <= Len(u) THEN u[i] ELSE s[i - Len(u)]
      BY <3>2, ConcatProperties
    <3>4. Len(u) = UseSize(v)
      BY <3>1 DEF u
    <3> QED
      BY <3>3, <3>4 DEF u
  <2>2. /\ Unused(w) \in Seq(Nat) /\ Len(Unused(w)) = UseSize(v) + Len(s)
        /\ \A i \in 1 .. UseSize(v) + Len(s) : Unused(w)[i] = w.bytes[v.read_head + i]
    BY <1>1, <1>3, <1>4, VectorSizes
  <2>3. ASSUME NEW i \in 1 .. UseSize(v) + Len(s)
        PROVE  Unused(w)[i] = (Unused(v) \o s)[i]
    <3>1. /\ v.read_head + i \in 1 .. Len(v.bytes) + Len(s)
          /\ (v.read_head + i <= Len(v.bytes)) <=> (i <= UseSize(v))
          /\ v.read_head + i - Len(v.bytes) = i - UseSize(v)
      <4>1. Len(v.bytes) \in Nat /\ v.read_head \in Nat /\ UseSize(v) \in Nat
            /\ UseSize(v) = Len(v.bytes) - v.read_head /\ Len(s) \in Nat
        BY <1>2, VectorSizes DEF UseSize
      <4> QED
        BY <4>1
    <3>2. w.bytes[v.read_head + i]
            = IF i <= UseSize(v) THEN v.bytes[v.read_head + i] ELSE s[i - UseSize(v)]
      <4>1. CASE i <= UseSize(v)
        BY <1>2, <3>1, <4>1
      <4>2. CASE ~(i <= UseSize(v))
        <5>1. ~(v.read_head + i <= Len(v.bytes))
          BY <3>1, <4>2
        <5>2. \A j \in 1 .. Len(v.bytes) + Len(s) :
                ~(j <= Len(v.bytes)) => w.bytes[j] = s[j - Len(v.bytes)]
          BY <1>2
        <5>3. w.bytes[v.read_head + i] = s[v.read_head + i - Len(v.bytes)]
          <6>1. v.read_head \in Nat /\ Len(v.bytes) \in Nat /\ i \in Nat
            BY <1>2, VectorSizes
          <6> QED
            BY <3>1, <5>1, <5>2, <6>1
        <5> QED
          BY <3>1, <4>2, <5>3
      <4> QED
        BY <4>1, <4>2
    <3>3. i <= UseSize(v) => Unused(v)[i] = v.bytes[v.read_head + i]
      BY <1>2, VectorSizes
    <3> QED
      BY <2>1, <2>2, <3>2, <3>3
  <2> QED
    BY <2>1, <2>2, <2>3, SeqEqual
<1> QED
  BY <1>1, <1>3, <1>4, <1>5 DEF w

\* move_read_head(): the first n unused bytes are used.
LEMMA MoveVector ==
  ASSUME NEW v, VectorOK(v), NEW n \in 0 .. UseSize(v)
  PROVE  /\ VectorOK(MoveReadHead(v, n))
         /\ UseSize(MoveReadHead(v, n)) = UseSize(v) - n
         /\ Unused(MoveReadHead(v, n)) = SubSeq(Unused(v), n + 1, UseSize(v))
<1> DEFINE w == MoveReadHead(v, n)
<1>1. w.bytes = v.bytes /\ w.read_head = v.read_head + n /\ w \in Vectors
  BY VectorSizes DEF MoveReadHead, VectorOK, Vectors
<1>2. VectorOK(w) /\ UseSize(w) = UseSize(v) - n
  BY <1>1, VectorSizes DEF VectorOK, VectorHolds, UseSize
<1> HIDE DEF w
<1>3. /\ Unused(w) \in Seq(Nat) /\ Len(Unused(w)) = UseSize(v) - n
      /\ \A i \in 1 .. UseSize(v) - n : Unused(w)[i] = v.bytes[v.read_head + n + i]
  BY <1>1, <1>2, VectorSizes
<1>4. /\ SubSeq(Unused(v), n + 1, UseSize(v)) \in Seq(Nat)
      /\ Len(SubSeq(Unused(v), n + 1, UseSize(v))) = UseSize(v) - n
      /\ \A i \in 1 .. UseSize(v) - n :
           SubSeq(Unused(v), n + 1, UseSize(v))[i] = Unused(v)[n + 1 + i - 1]
  <2>1. \A i \in n + 1 .. UseSize(v) : Unused(v)[i] \in Nat
    BY VectorSizes, ElementOfSeq
  <2> QED
    BY <2>1, VectorSizes, SubSeqProperties
<1>5. \A i \in 1 .. UseSize(v) - n :
        Unused(w)[i] = SubSeq(Unused(v), n + 1, UseSize(v))[i]
  <2> SUFFICES ASSUME NEW i \in 1 .. UseSize(v) - n
               PROVE  Unused(w)[i] = SubSeq(Unused(v), n + 1, UseSize(v))[i]
    OBVIOUS
  <2>1. /\ UseSize(v) \in Nat /\ v.read_head \in Nat
        /\ \A j \in 1 .. UseSize(v) : Unused(v)[j] = v.bytes[v.read_head + j]
    BY VectorSizes
  <2>2. n + i \in 1 .. UseSize(v) /\ n + 1 + i - 1 = n + i
        /\ v.read_head + n + i = v.read_head + (n + i)
    BY <2>1
  <2>3. Unused(v)[n + i] = v.bytes[v.read_head + (n + i)]
    BY <2>1, <2>2
  <2> QED
    BY <1>3, <1>4, <2>2, <2>3
<1>6. Unused(w) = SubSeq(Unused(v), n + 1, UseSize(v))
  BY <1>3, <1>4, <1>5, SeqEqual
<1> QED
  BY <1>2, <1>6 DEF w

\* rewind(): the unused bytes stay, and so does their number.
LEMMA RewindVector ==
  ASSUME NEW v, VectorOK(v)
  PROVE  /\ VectorOK(Rewind(v)) /\ Rewind(v).read_head = 0
         /\ Len(Rewind(v).bytes) = UseSize(v)
         /\ UseSize(Rewind(v)) = UseSize(v)
         /\ Unused(Rewind(v)) = Unused(v)
<1> DEFINE w == Rewind(v)
<1>1. w.bytes = Unused(v) /\ w.read_head = 0
  BY DEF Rewind, Unused
<1>2. w \in Vectors
  BY VectorSizes DEF Rewind, Unused, Vectors
<1>3. VectorOK(w) /\ UseSize(w) = UseSize(v) /\ Len(w.bytes) = UseSize(v)
  BY <1>1, <1>2, VectorSizes DEF VectorOK, VectorHolds, UseSize
<1> HIDE DEF w
<1>4. /\ Unused(w) \in Seq(Nat) /\ Len(Unused(w)) = UseSize(v)
      /\ \A i \in 1 .. UseSize(v) : Unused(w)[i] = w.bytes[0 + i]
  BY <1>1, <1>3, VectorSizes
<1>5. \A i \in 1 .. UseSize(v) : Unused(w)[i] = Unused(v)[i]
  BY <1>1, <1>4, VectorSizes
<1>6. Unused(w) = Unused(v)
  BY <1>4, <1>5, VectorSizes, SeqEqual
<1> QED
  BY <1>1, <1>3, <1>6 DEF w

\* The start of the buffer is the read head where it has been rewound, so
\* that get_buffer() gives send() the bytes that are due.
LEMMA SendVector ==
  ASSUME NEW v, v.read_head = 0, v \in Vectors
  PROVE  SendBytes(v) = Unused(v)
BY DEF SendBytes, Unused, Peek, Vectors

-----------------------------------------------------------------------------
(* Packet *)

PacketOK(p) ==
  /\ p \in [buffer : Seq(Nat), payload_capacity : Nat, read_head : Nat]
  /\ p.read_head <= Len(p.buffer) /\ Len(p.buffer) <= p.payload_capacity

\* Packet::write grows the buffer before it would be full: nothing is written
\* behind its end, and what was written and read before stays.
THEOREM WriteFits ==
  ASSUME NEW p, PacketOK(p), NEW data \in Seq(Nat)
  PROVE  /\ PacketOK(PacketWrite(p, data))
         /\ PacketWrite(p, data).buffer = p.buffer \o data
         /\ PacketWrite(p, data).read_head = p.read_head
<1> DEFINE needed == Len(p.buffer) + Len(data)
           length == Larger(2 * p.payload_capacity, needed)
           roomy == IF needed >= p.payload_capacity THEN PacketResize(p, length) ELSE p
<1>1. /\ p.buffer \in Seq(Nat) /\ p.payload_capacity \in Nat /\ p.read_head \in Nat
      /\ Len(p.buffer) \in Nat /\ Len(data) \in Nat
      /\ p.read_head <= Len(p.buffer)
      /\ Len(p.buffer) <= p.payload_capacity
  BY LenProperties DEF PacketOK
<1>2. length \in Nat /\ length >= needed
  BY <1>1 DEF Larger
<1> HIDE DEF length
<1>3. Smaller(length, Len(p.buffer)) = Len(p.buffer) /\ Smaller(length, p.read_head) = p.read_head
  BY <1>1, <1>2 DEF Smaller
<1>4. SubSeq(p.buffer, 1, Len(p.buffer)) = p.buffer
  BY <1>1, SubSeqFull
<1>5. /\ roomy \in [buffer : Seq(Nat), payload_capacity : Nat, read_head : Nat]
      /\ roomy.buffer = p.buffer /\ roomy.read_head = p.read_head
      /\ roomy.payload_capacity >= needed
  <2>1. CASE needed >= p.payload_capacity
    <3>1. roomy = [buffer |-> p.buffer, payload_capacity |-> length, read_head |-> p.read_head]
      BY <1>3, <1>4, <2>1 DEF PacketResize
    <3> QED
      BY <1>1, <1>2, <3>1
  <2>2. CASE ~(needed >= p.payload_capacity)
    BY <1>1, <2>2 DEF PacketOK
  <2> QED
    BY <2>1, <2>2
<1>6. PacketWrite(p, data) = [roomy EXCEPT !.buffer = roomy.buffer \o data]
  BY DEF PacketWrite, length
<1>7. p.buffer \o data \in Seq(Nat) /\ Len(p.buffer \o data) = needed
  BY <1>1, ConcatProperties
<1> HIDE DEF roomy
<1>8. /\ PacketWrite(p, data) \in [buffer : Seq(Nat), payload_capacity : Nat, read_head : Nat]
      /\ PacketWrite(p, data).buffer = p.buffer \o data
      /\ PacketWrite(p, data).read_head = p.read_head
      /\ PacketWrite(p, data).payload_capacity = roomy.payload_capacity
  BY <1>5, <1>6, <1>7
<1> QED
  BY <1>1, <1>5, <1>7, <1>8 DEF PacketOK

\* What is written behind a packet that has been read to its end is what
\* pre_send() takes of it (Session::process_packet).
LEMMA AnswerAlone ==
  ASSUME NEW p, PacketOK(p), p.buffer = <<>>, p.read_head = 0,
         NEW n \in Nat, NEW bytes \in Seq(Nat)
  PROVE  LET request == PacketRead(PacketWrite(p, Foreign(n)), n)
             answer == PacketWrite(request, bytes)
         IN  /\ PacketOK(request)
             /\ PacketOK(answer)
             /\ PacketContents(answer) = bytes
<1> DEFINE whole == PacketWrite(p, Foreign(n))
           request == PacketRead(whole, n)
           answer == PacketWrite(request, bytes)
<1>1. Foreign(n) \in Seq(Nat) /\ Len(Foreign(n)) = n
  BY FunctionIsSeq DEF Foreign, Junk
<1>2. PacketOK(whole) /\ whole.buffer = p.buffer \o Foreign(n) /\ whole.read_head = 0
  BY <1>1, WriteFits
<1>3. whole.buffer = Foreign(n)
  BY <1>1, <1>2, ConcatEmptySeq
<1> HIDE DEF whole
<1>4. PacketOK(request) /\ request.buffer = Foreign(n) /\ request.read_head = n
  BY <1>1, <1>2, <1>3 DEF PacketRead, PacketOK
<1> HIDE DEF request
<1>5. PacketOK(answer) /\ answer.buffer = Foreign(n) \o bytes /\ answer.read_head = n
  BY <1>4, WriteFits
<1> HIDE DEF answer
<1>6. PacketContents(answer) = SubSeq(Foreign(n) \o bytes, n + 1, Len(Foreign(n) \o bytes))
  BY <1>5 DEF PacketContents
<1>7. /\ Foreign(n) \o bytes \in Seq(Nat) /\ Len(Foreign(n) \o bytes) = n + Len(bytes)
      /\ Len(bytes) \in Nat
      /\ \A i \in 1 .. n + Len(bytes) :
           (Foreign(n) \o bytes)[i] = IF i <= n THEN Foreign(n)[i] ELSE bytes[i - n]
  <2> DEFINE f == Foreign(n)
  <2>1. f \in Seq(Nat) /\ Len(f) = n
    BY <1>1
  <2> HIDE DEF f
  <2>2. /\ f \o bytes \in Seq(Nat) /\ Len(f \o bytes) = Len(f) + Len(bytes)
        /\ \A i \in 1 .. Len(f) + Len(bytes) :
             (f \o bytes)[i] = IF i <= Len(f) THEN f[i] ELSE bytes[i - Len(f)]
    BY <2>1, ConcatProperties
  <2>3. Len(bytes) \in Nat
    BY LenProperties
  <2> QED
    BY <2>1, <2>2, <2>3 DEF f
<1> DEFINE both == Foreign(n) \o bytes
           piece == SubSeq(both, n + 1, n + Len(bytes))
<1> HIDE DEF both
<1>8. /\ piece \in Seq(Nat) /\ Len(piece) = Len(bytes)
      /\ \A i \in 1 .. Len(bytes) : piece[i] = both[n + 1 + i - 1]
  <2>1. \A i \in n + 1 .. n + Len(bytes) : both[i] \in Nat
    BY <1>7, ElementOfSeq DEF both
  <2> QED
    BY <1>7, <2>1, SubSeqProperties
<1>9. ASSUME NEW i \in 1 .. Len(bytes)
      PROVE  piece[i] = bytes[i]
  <2>1. n + i \in 1 .. n + Len(bytes) /\ ~(n + i <= n) /\ n + i - n = i /\ n + 1 + i - 1 = n + i
    BY <1>7
  <2>2. both[n + i] = bytes[n + i - n]
    BY <1>7, <2>1 DEF both
  <2> QED
    BY <1>8, <2>1, <2>2
<1>10. piece = bytes
  BY <1>8, <1>9, SeqEqual
<1> QED
  BY <1>4, <1>5, <1>6, <1>7, <1>10 DEF both, answer, request, whole

-----------------------------------------------------------------------------
(* The lengths of the packets *)

\* The header says how long a packet is; a buffer holds it, and its reader
\* does not read more (the make_packet functions, both process_packet).
LEMMA Sizes ==
  ASSUME NEW k \in Kinds
  PROVE  /\ Written(k) = Length(k) /\ Length(k) \in Nat
         /\ HeaderSize \in Nat /\ 1 <= HeaderSize /\ HeaderSize < Length(k)
         /\ Length(k) < CAPACITY
         /\ ReadSize(k) \in Nat /\ ReadSize(k) <= Length(k)
<1>1. /\ HeaderSize \in Nat \ {0} /\ StoneSize \in Nat \ {0} /\ CellSize \in Nat \ {0}
      /\ ServerWord \in Nat \ {0} /\ ClientWord \in Nat \ {0} /\ ClientWord <= ServerWord
  BY SizesAssumption
<1>2. Length(k) < CAPACITY
  BY PacketsAssumption
<1>3. CASE k = "DROP_STONE_REQUEST"
  BY <1>1, <1>2, <1>3 DEF Written, Length, ReadSize
<1>4. CASE k = "ASSIGN_STONE"
  BY <1>1, <1>2, <1>4 DEF Written, Length, ReadSize
<1>5. CASE k = "DROP_STONE_RESPONSE"
  BY <1>1, <1>2, <1>5 DEF Written, Length, ReadSize
<1>6. CASE k = "NOTIFY_SERVER_TIME"
  BY <1>1, <1>2, <1>6 DEF Written, Length, ReadSize
<1>7. CASE k = "NOTIFY_GAME_RESULT"
  BY <1>1, <1>2, <1>7 DEF Written, Length, ReadSize
<1> QED
  BY <1>3, <1>4, <1>5, <1>6, <1>7 DEF Kinds

-----------------------------------------------------------------------------
(* The packets of a direction, one behind the other *)

SentOK(q) ==
  /\ q \in Seq([kind : Kinds, start : Nat \ {0}])
  /\ \A i \in DOMAIN q : \A j \in DOMAIN q :
       j < i => q[j].start + Written(q[j].kind) <= q[i].start
  /\ \A i \in DOMAIN q :
       i + 1 \in DOMAIN q => q[i + 1].start = q[i].start + Written(q[i].kind)

End(q) == IF q = <<>> THEN 1 ELSE LET last == q[Len(q)] IN last.start + Written(last.kind)

Start(q, n) == IF n \in DOMAIN q THEN q[n].start ELSE End(q)

\* A packet ends where the next one starts.
LEMMA Starts ==
  ASSUME NEW q, SentOK(q), NEW n \in DOMAIN q
  PROVE  /\ n \in 1 .. Len(q) /\ Len(q) \in Nat
         /\ q[n].kind \in Kinds /\ q[n].start \in Nat \ {0}
         /\ Start(q, n + 1) = q[n].start + Written(q[n].kind)
         /\ q[n].start + Written(q[n].kind) <= End(q) /\ End(q) \in Nat \ {0}
<1>1. DOMAIN q = 1 .. Len(q) /\ Len(q) \in Nat
      /\ \A i \in 1 .. Len(q) : q[i] \in [kind : Kinds, start : Nat \ {0}]
  BY LenProperties, ElementOfSeq DEF SentOK
<1>2. q # <<>> /\ Len(q) \in DOMAIN q
  BY <1>1
<1>3. End(q) = q[Len(q)].start + Written(q[Len(q)].kind)
  BY <1>2 DEF End
<1>4. q[n].kind \in Kinds /\ q[n].start \in Nat \ {0}
      /\ q[Len(q)].kind \in Kinds /\ q[Len(q)].start \in Nat \ {0}
  BY <1>1, <1>2
<1>5. Written(q[n].kind) \in Nat /\ Written(q[Len(q)].kind) \in Nat
  BY <1>4, Sizes
<1>6. Start(q, n + 1) = q[n].start + Written(q[n].kind)
  <2>1. CASE n = Len(q)
    <3>1. n + 1 \notin DOMAIN q
      BY <1>1, <2>1
    <3> QED
      BY <1>3, <2>1, <3>1 DEF Start
  <2>2. CASE n # Len(q)
    <3>1. n + 1 \in DOMAIN q
      BY <1>1, <2>2
    <3> QED
      BY <3>1 DEF Start, SentOK
  <2> QED
    BY <2>1, <2>2
<1>7. q[n].start + Written(q[n].kind) <= End(q)
  <2>1. CASE n = Len(q)
    BY <1>3, <1>4, <1>5, <2>1
  <2>2. CASE n # Len(q)
    <3>1. n < Len(q)
      BY <1>1, <2>2
    <3>2. q[n].start + Written(q[n].kind) <= q[Len(q)].start
      BY <1>2, <3>1 DEF SentOK
    <3> QED
      BY <1>3, <1>4, <1>5, <3>2
  <2> QED
    BY <2>1, <2>2
<1> QED
  BY <1>1, <1>3, <1>4, <1>5, <1>6, <1>7

\* The stream's end, with or without packets.
LEMMA EndType ==
  ASSUME NEW q, SentOK(q)
  PROVE  /\ Len(q) \in Nat /\ DOMAIN q = 1 .. Len(q)
         /\ End(q) \in Nat \ {0}
         /\ \A n \in 1 .. Len(q) + 1 : Start(q, n) \in Nat \ {0} /\ Start(q, n) <= End(q)
<1>1. Len(q) \in Nat /\ DOMAIN q = 1 .. Len(q)
  BY LenProperties DEF SentOK
<1>2. End(q) \in Nat \ {0}
  <2>1. CASE q = <<>>
    BY <2>1 DEF End
  <2>2. CASE q # <<>>
    <3>1. Len(q) \in DOMAIN q
      BY <1>1, <2>2, EmptySeq DEF SentOK
    <3> QED
      BY <3>1, Starts
  <2> QED
    BY <2>1, <2>2
<1>3. ASSUME NEW n \in 1 .. Len(q) + 1
      PROVE  Start(q, n) \in Nat \ {0} /\ Start(q, n) <= End(q)
  <2>1. CASE n \in DOMAIN q
    <3>1. q[n].start \in Nat \ {0} /\ q[n].start + Written(q[n].kind) <= End(q)
          /\ Written(q[n].kind) \in Nat
      BY <2>1, Starts, Sizes
    <3> QED
      BY <1>2, <2>1, <3>1 DEF Start
  <2>2. CASE n \notin DOMAIN q
    BY <1>2, <2>2 DEF Start
  <2> QED
    BY <2>1, <2>2
<1> QED
  BY <1>1, <1>2, <1>3

\* No two packets start in the same place, and none at the end.
LEMMA StartIsUnique ==
  ASSUME NEW q, SentOK(q), NEW n \in DOMAIN q, NEW m \in 1 .. Len(q) + 1,
         q[n].start = Start(q, m)
  PROVE  n = m
<1>1. Len(q) \in Nat /\ DOMAIN q = 1 .. Len(q)
  BY EndType
<1>2. /\ q[n].start \in Nat /\ Written(q[n].kind) \in Nat /\ Written(q[n].kind) >= 1
      /\ q[n].start + Written(q[n].kind) <= End(q)
  <2>1. q[n].kind \in Kinds /\ q[n].start \in Nat
        /\ q[n].start + Written(q[n].kind) <= End(q)
    BY Starts
  <2> QED
    BY <2>1, Sizes
<1>3. m \in DOMAIN q
  <2>1. CASE m \notin DOMAIN q
    <3>1. q[n].start = End(q)
      BY <2>1 DEF Start
    <3> QED
      BY <1>2, <3>1
  <2> QED
    BY <2>1
<1>4. /\ q[m].start \in Nat /\ Written(q[m].kind) \in Nat /\ Written(q[m].kind) >= 1
      /\ q[n].start = q[m].start
  <2>1. q[m].kind \in Kinds /\ q[m].start \in Nat
    BY <1>3, Starts
  <2> QED
    BY <1>3, <2>1, Sizes DEF Start
<1>5. ~(n < m)
  <2> SUFFICES ASSUME n < m PROVE FALSE
    OBVIOUS
  <2>1. q[n].start + Written(q[n].kind) <= q[m].start
    BY <1>3 DEF SentOK
  <2> QED
    BY <1>2, <1>4, <2>1
<1>6. ~(m < n)
  <2> SUFFICES ASSUME m < n PROVE FALSE
    OBVIOUS
  <2>1. q[m].start + Written(q[m].kind) <= q[n].start
    BY <1>3 DEF SentOK
  <2> QED
    BY <1>2, <1>4, <2>1
<1> QED
  BY <1>1, <1>3, <1>5, <1>6

\* A packet more leaves the others where they are.
LEMMA SentAppend ==
  ASSUME NEW q, SentOK(q), NEW k \in Kinds
  PROVE  LET more == Append(q, [kind |-> k, start |-> End(q)])
         IN  /\ SentOK(more)
             /\ End(more) = End(q) + Written(k)
             /\ Len(more) = Len(q) + 1
             /\ \A i \in 1 .. Len(q) : more[i] = q[i]
             /\ more[Len(q) + 1].kind = k
             /\ \A m \in 1 .. Len(q) + 1 : Start(more, m) = Start(q, m)
<1> DEFINE new == [kind |-> k, start |-> End(q)]
           more == Append(q, new)
<1>1. /\ Len(q) \in Nat /\ DOMAIN q = 1 .. Len(q) /\ End(q) \in Nat \ {0}
      /\ q \in Seq([kind : Kinds, start : Nat \ {0}])
  BY EndType DEF SentOK
<1>2. new \in [kind : Kinds, start : Nat \ {0}] /\ new.start = End(q) /\ new.kind = k
  BY <1>1
<1> HIDE DEF new
<1>3. /\ more \in Seq([kind : Kinds, start : Nat \ {0}])
      /\ Len(more) = Len(q) + 1 /\ DOMAIN more = 1 .. Len(q) + 1
      /\ \A i \in 1 .. Len(q) : more[i] = q[i]
      /\ more[Len(q) + 1] = new
  BY <1>1, <1>2
<1> HIDE DEF more
<1>4. ASSUME NEW i \in DOMAIN more, NEW j \in DOMAIN more, j < i
      PROVE  more[j].start + Written(more[j].kind) <= more[i].start
  <2>1. j \in DOMAIN q /\ more[j] = q[j]
    BY <1>1, <1>3, <1>4
  <2>2. CASE i = Len(q) + 1
    <3>1. q[j].start + Written(q[j].kind) <= End(q)
      BY <2>1, Starts
    <3> QED
      BY <1>2, <1>3, <2>1, <2>2, <3>1
  <2>3. CASE i # Len(q) + 1
    <3>1. i \in DOMAIN q /\ more[i] = q[i]
      BY <1>1, <1>3, <2>3
    <3> QED
      BY <1>4, <2>1, <3>1 DEF SentOK
  <2> QED
    BY <2>2, <2>3
<1>5. ASSUME NEW i \in DOMAIN more, i + 1 \in DOMAIN more
      PROVE  more[i + 1].start = more[i].start + Written(more[i].kind)
  <2>1. i \in DOMAIN q /\ more[i] = q[i]
    BY <1>1, <1>3, <1>5
  <2>2. CASE i = Len(q)
    <3>1. q # <<>>
      BY <1>1, <2>1
    <3>2. End(q) = q[i].start + Written(q[i].kind)
      BY <2>2, <3>1 DEF End
    <3> QED
      BY <1>2, <1>3, <2>1, <2>2, <3>2
  <2>3. CASE i # Len(q)
    <3>1. i + 1 \in DOMAIN q /\ more[i + 1] = q[i + 1]
      BY <1>1, <1>3, <2>1, <2>3
    <3> QED
      BY <2>1, <3>1 DEF SentOK
  <2> QED
    BY <2>2, <2>3
<1>6. End(more) = End(q) + Written(k)
  <2>1. more # <<>>
    BY <1>1, <1>3
  <2> QED
    BY <1>2, <1>3, <2>1 DEF End
<1>7. ASSUME NEW m \in 1 .. Len(q) + 1
      PROVE  Start(more, m) = Start(q, m)
  <2>1. CASE m \in DOMAIN q
    BY <1>1, <1>3, <2>1 DEF Start
  <2>2. CASE m \notin DOMAIN q
    <3>1. m = Len(q) + 1 /\ m \in DOMAIN more
      BY <1>1, <1>3, <2>2
    <3> QED
      BY <1>2, <1>3, <2>2, <3>1 DEF Start
  <2> QED
    BY <2>1, <2>2
<1> QED
  BY <1>2, <1>3, <1>4, <1>5, <1>6, <1>7 DEF SentOK, more, new

-----------------------------------------------------------------------------
(* One direction of the connection: receive buffer r, TCP's bytes p, send   *)
(* buffer s, packets sent q, packets taken out g; spoiled says whether a     *)
(* send() has failed.                                                       *)

Due(q, g) == Start(q, Len(g) + 1)

Delivered(r, p, q, g) ==
  /\ RunsFrom(Unused(r), Due(q, g))
  /\ RunsFrom(p, Due(q, g) + UseSize(r))
  /\ Due(q, g) + UseSize(r) + Len(p) <= End(q)

Queued(r, p, s, q, g) ==
  /\ VectorHolds(s)
  /\ RunsFrom(Unused(s), Due(q, g) + UseSize(r) + Len(p))
  /\ Due(q, g) + UseSize(r) + Len(p) + UseSize(s) = End(q)

DirOK(r, p, s, q, g, spoiled) ==
  /\ VectorOK(r)
  /\ p \in Seq(Nat)
  /\ s \in Vectors /\ s.read_head = 0
  /\ SentOK(q)
  /\ g \in Seq(Kinds) /\ Len(g) <= Len(q)
  /\ Delivered(r, p, q, g)
  /\ spoiled \/ Queued(r, p, s, q, g)

\* The numbers of a direction.
LEMMA DirNumbers ==
  ASSUME NEW r, NEW p, NEW s, NEW q, NEW g, NEW spoiled, DirOK(r, p, s, q, g, spoiled)
  PROVE  /\ Len(g) \in Nat /\ Len(q) \in Nat /\ Len(p) \in Nat
         /\ Len(g) + 1 \in 1 .. Len(q) + 1
         /\ Due(q, g) \in Nat \ {0} /\ End(q) \in Nat \ {0}
         /\ UseSize(r) \in Nat /\ Unused(r) \in Seq(Nat) /\ Len(Unused(r)) = UseSize(r)
<1>1. Len(g) \in Nat /\ Len(p) \in Nat /\ Len(g) <= Len(q)
  BY LenProperties DEF DirOK
<1>2. SentOK(q)
  BY DEF DirOK
<1>3. Len(q) \in Nat /\ End(q) \in Nat \ {0}
  BY <1>2, EndType
<1>4. Len(g) + 1 \in 1 .. Len(q) + 1
  BY <1>1, <1>3
<1>5. Due(q, g) \in Nat \ {0}
  BY <1>2, <1>4, EndType DEF Due
<1> QED
  BY <1>1, <1>3, <1>4, <1>5, VectorSizes DEF DirOK

\* pre_send adds a packet to a direction (PacketVector::write).
LEMMA DirPut ==
  ASSUME NEW r, NEW p, NEW s, NEW q, NEW g, DirOK(r, p, s, q, g, FALSE),
         NEW k \in Kinds, NEW bytes, bytes = [i \in 1 .. Written(k) |-> End(q) + i - 1],
         Len(bytes) <= BufferSize(s)
  PROVE  DirOK(r, p, WriteBytes(s, bytes),
               Append(q, [kind |-> k, start |-> End(q)]), g, FALSE)
<1> DEFINE more == Append(q, [kind |-> k, start |-> End(q)])
           t == WriteBytes(s, bytes)
<1>1. /\ Len(g) \in Nat /\ Len(q) \in Nat /\ Len(p) \in Nat
      /\ Len(g) + 1 \in 1 .. Len(q) + 1
      /\ Due(q, g) \in Nat \ {0} /\ End(q) \in Nat \ {0}
      /\ UseSize(r) \in Nat
  BY DirNumbers
<1>2. Written(k) \in Nat
  BY Sizes
<1>3. bytes \in Seq(Nat) /\ Len(bytes) = Written(k) /\ RunsFrom(bytes, End(q))
  <2>1. bytes \in [1 .. Written(k) -> Nat]
    BY <1>1, <1>2
  <2>2. bytes \in Seq(Nat) /\ Len(bytes) = Written(k)
    BY <1>2, <2>1, FunctionIsSeq
  <2> QED
    BY <2>2 DEF RunsFrom
<1>4. /\ SentOK(more) /\ End(more) = End(q) + Written(k) /\ Len(more) = Len(q) + 1
      /\ Due(more, g) = Due(q, g)
  <2>1. SentOK(q)
    BY DEF DirOK
  <2> QED
    BY <1>1, <2>1, SentAppend DEF Due
<1> HIDE DEF more
<1>5. /\ VectorOK(s) /\ RunsFrom(Unused(s), Due(q, g) + UseSize(r) + Len(p))
      /\ Due(q, g) + UseSize(r) + Len(p) + UseSize(s) = End(q)
  BY DEF DirOK, Queued, VectorOK
<1>6. /\ VectorOK(t) /\ UseSize(t) = UseSize(s) + Len(bytes) /\ t.read_head = s.read_head
      /\ Unused(t) = Unused(s) \o bytes
  BY <1>3, <1>5, WriteVector
<1> HIDE DEF t
<1>7. RunsFrom(Unused(t), Due(q, g) + UseSize(r) + Len(p))
  <2>1. Unused(s) \in Seq(Nat) /\ Len(Unused(s)) = UseSize(s) /\ UseSize(s) \in Nat
    BY <1>5, VectorSizes
  <2>2. RunsFrom(bytes, Due(q, g) + UseSize(r) + Len(p) + Len(Unused(s)))
    BY <1>3, <1>5, <2>1
  <2>3. Due(q, g) + UseSize(r) + Len(p) \in Nat
    BY <1>1
  <2> QED
    BY <1>3, <1>5, <1>6, <2>1, <2>2, <2>3, RunsConcat
<1>8. Queued(r, p, t, more, g)
  <2>1. UseSize(s) \in Nat
    BY <1>5, VectorSizes
  <2> QED
    BY <1>1, <1>2, <1>3, <1>4, <1>5, <1>6, <1>7, <2>1 DEF Queued, VectorOK
<1>9. Delivered(r, p, more, g)
  <2>1. Due(q, g) + UseSize(r) + Len(p) <= End(q)
    BY DEF DirOK, Delivered
  <2>2. Due(more, g) + UseSize(r) + Len(p) <= End(more)
    BY <1>1, <1>2, <1>4, <2>1
  <2> QED
    BY <1>4, <2>2 DEF DirOK, Delivered
<1>10. Len(g) <= Len(more)
  BY <1>1, <1>4 DEF DirOK
<1>11. t \in Vectors /\ t.read_head = 0
  BY <1>6 DEF DirOK, VectorOK
<1> QED
  BY <1>4, <1>8, <1>9, <1>10, <1>11 DEF DirOK, more, t

\* recv() moves bytes from TCP to the receive buffer.
LEMMA DirReceive ==
  ASSUME NEW r, NEW p, NEW s, NEW q, NEW g, NEW spoiled, DirOK(r, p, s, q, g, spoiled),
         NEW n \in 1 .. Len(p), n <= BufferSize(r)
  PROVE  DirOK(WriteBytes(r, SubSeq(p, 1, n)), SubSeq(p, n + 1, Len(p)), s, q, g, spoiled)
<1> DEFINE a == Due(q, g)
           x == SubSeq(p, 1, n)
           y == SubSeq(p, n + 1, Len(p))
           t == WriteBytes(r, x)
<1>1. /\ Len(p) \in Nat /\ a \in Nat \ {0} /\ End(q) \in Nat \ {0}
      /\ UseSize(r) \in Nat /\ Unused(r) \in Seq(Nat) /\ Len(Unused(r)) = UseSize(r)
  BY DirNumbers
<1>2. /\ VectorOK(r) /\ p \in Seq(Nat)
      /\ RunsFrom(Unused(r), a) /\ RunsFrom(p, a + UseSize(r))
      /\ a + UseSize(r) + Len(p) <= End(q)
  BY DEF DirOK, Delivered
<1> HIDE DEF a
<1>3. /\ x \in Seq(Nat) /\ Len(x) = n /\ RunsFrom(x, a + UseSize(r))
  <2>1. a + UseSize(r) \in Nat /\ 1 \in 1 .. Len(p) + 1 /\ n \in 0 .. Len(p)
    BY <1>1
  <2>2. /\ SubSeq(p, 1, n) \in Seq(Nat)
        /\ Len(SubSeq(p, 1, n)) = IF 1 <= n THEN n - 1 + 1 ELSE 0
        /\ RunsFrom(SubSeq(p, 1, n), (a + UseSize(r)) + 1 - 1)
    BY <1>2, <2>1, RunsSubSeq
  <2>3. (a + UseSize(r)) + 1 - 1 = a + UseSize(r) /\ n - 1 + 1 = n /\ 1 <= n
    BY <1>1
  <2> QED
    BY <2>2, <2>3
<1>4. /\ y \in Seq(Nat) /\ Len(y) = Len(p) - n /\ RunsFrom(y, a + UseSize(r) + n)
  <2>1. a + UseSize(r) \in Nat /\ n + 1 \in 1 .. Len(p) + 1 /\ Len(p) \in 0 .. Len(p)
    BY <1>1
  <2>2. /\ SubSeq(p, n + 1, Len(p)) \in Seq(Nat)
        /\ Len(SubSeq(p, n + 1, Len(p))) = IF n + 1 <= Len(p) THEN Len(p) - (n + 1) + 1 ELSE 0
        /\ RunsFrom(SubSeq(p, n + 1, Len(p)), (a + UseSize(r)) + (n + 1) - 1)
    BY <1>2, <2>1, RunsSubSeq
  <2>3. /\ (a + UseSize(r)) + (n + 1) - 1 = a + UseSize(r) + n
        /\ (IF n + 1 <= Len(p) THEN Len(p) - (n + 1) + 1 ELSE 0) = Len(p) - n
    BY <1>1
  <2> QED
    BY <2>2, <2>3
<1> HIDE DEF x, y
<1>5. /\ VectorOK(t) /\ UseSize(t) = UseSize(r) + n /\ Unused(t) = Unused(r) \o x
  BY <1>2, <1>3, WriteVector
<1> HIDE DEF t
<1>6. RunsFrom(Unused(t), a)
  BY <1>1, <1>2, <1>3, <1>5, RunsConcat
<1>7. a + UseSize(t) = a + UseSize(r) + n /\ a + UseSize(t) + Len(y) = a + UseSize(r) + Len(p)
  BY <1>1, <1>4, <1>5
<1>8. Delivered(t, y, q, g)
  BY <1>2, <1>4, <1>6, <1>7 DEF Delivered, a
<1>9. spoiled \/ Queued(t, y, s, q, g)
  BY <1>7 DEF DirOK, Queued, a
<1> QED
  BY <1>4, <1>5, <1>8, <1>9 DEF DirOK, t, x, y

\* send() moves bytes from the send buffer to TCP, and the rest is rewound.
LEMMA DirSend ==
  ASSUME NEW r, NEW p, NEW s, NEW q, NEW g, DirOK(r, p, s, q, g, FALSE),
         NEW n \in 1 .. UseSize(s)
  PROVE  DirOK(r, p \o SubSeq(SendBytes(s), 1, n), Rewind(MoveReadHead(s, n)), q, g, FALSE)
<1> DEFINE b == Due(q, g) + UseSize(r)
           u == Unused(s)
           x == SubSeq(u, 1, n)
           t == Rewind(MoveReadHead(s, n))
<1>1. /\ Len(p) \in Nat /\ b \in Nat /\ End(q) \in Nat \ {0}
  <2>1. /\ Len(p) \in Nat /\ Due(q, g) \in Nat \ {0} /\ UseSize(r) \in Nat
        /\ End(q) \in Nat \ {0}
    BY DirNumbers
  <2> QED
    BY <2>1
<1>2. /\ VectorOK(s) /\ p \in Seq(Nat) /\ RunsFrom(p, b)
      /\ RunsFrom(u, b + Len(p)) /\ b + Len(p) + UseSize(s) = End(q)
      /\ SendBytes(s) = u
  BY SendVector DEF DirOK, Delivered, Queued, VectorOK
<1>3. UseSize(s) \in Nat /\ u \in Seq(Nat) /\ Len(u) = UseSize(s)
  BY <1>2, VectorSizes
<1> HIDE DEF b, u
<1>4. /\ x \in Seq(Nat) /\ Len(x) = n /\ RunsFrom(x, b + Len(p))
  <2>1. b + Len(p) \in Nat /\ 1 \in 1 .. Len(u) + 1 /\ n \in 0 .. Len(u)
    BY <1>1, <1>3
  <2>2. /\ x \in Seq(Nat) /\ Len(x) = IF 1 <= n THEN n - 1 + 1 ELSE 0
        /\ RunsFrom(x, (b + Len(p)) + 1 - 1)
    BY <1>2, <1>3, <2>1, RunsSubSeq
  <2>3. (b + Len(p)) + 1 - 1 = b + Len(p) /\ n - 1 + 1 = n /\ 1 <= n
    BY <1>1
  <2> QED
    BY <2>2, <2>3
<1>5. /\ VectorOK(t) /\ t.read_head = 0 /\ UseSize(t) = UseSize(s) - n
      /\ Unused(t) = SubSeq(u, n + 1, UseSize(s))
  <2>1. n \in 0 .. UseSize(s)
    BY <1>3
  <2> QED
    BY <1>2, <2>1, MoveVector, RewindVector DEF u
<1>6. RunsFrom(Unused(t), b + Len(p) + n)
  <2>1. b + Len(p) \in Nat /\ n + 1 \in 1 .. Len(u) + 1 /\ Len(u) \in 0 .. Len(u)
    BY <1>1, <1>3
  <2>2. RunsFrom(SubSeq(u, n + 1, Len(u)), (b + Len(p)) + (n + 1) - 1)
    BY <1>2, <1>3, <2>1, RunsSubSeq
  <2>3. (b + Len(p)) + (n + 1) - 1 = b + Len(p) + n
    BY <1>1
  <2> QED
    BY <1>3, <1>5, <2>2, <2>3
<1> HIDE DEF x, t
<1>7. p \o x \in Seq(Nat) /\ Len(p \o x) = Len(p) + n /\ RunsFrom(p \o x, b)
  BY <1>1, <1>2, <1>4, ConcatProperties, RunsConcat
<1>8. b + Len(p \o x) = b + Len(p) + n
  BY <1>1, <1>7
<1>9. Delivered(r, p \o x, q, g)
  <2>1. b + Len(p \o x) <= End(q)
    BY <1>1, <1>2, <1>3, <1>8
  <2> QED
    BY <1>7, <2>1 DEF DirOK, Delivered, b
<1>10. Queued(r, p \o x, t, q, g)
  <2>1. b + Len(p \o x) + UseSize(t) = End(q)
    BY <1>1, <1>2, <1>3, <1>5, <1>8
  <2> QED
    BY <1>5, <1>6, <1>8, <2>1 DEF Queued, VectorOK, b
<1>11. t \in Vectors
  BY <1>5 DEF VectorOK
<1>12. SubSeq(SendBytes(s), 1, n) = x
  BY <1>2 DEF x
<1> QED
  BY <1>5, <1>7, <1>9, <1>10, <1>11, <1>12 DEF DirOK, t

\* A failed send() spoils the send buffer and nothing else.
LEMMA DirFail ==
  ASSUME NEW r, NEW p, NEW s, NEW q, NEW g, DirOK(r, p, s, q, g, FALSE)
  PROVE  DirOK(r, p, Rewind(MoveReadHead(s, -1)), q, g, TRUE)
<1> DEFINE v == MoveReadHead(s, -1)
<1>1. v.bytes = s.bytes /\ v.read_head = -1
  BY DEF MoveReadHead, DirOK, Vectors
<1>2. s.bytes \in Seq(Nat) /\ Len(s.bytes) \in Nat /\ DOMAIN s.bytes = 1 .. Len(s.bytes)
  BY LenProperties DEF DirOK, Vectors
<1>3. UseSize(v) \in Nat
  BY <1>1, <1>2 DEF UseSize
<1>4. \A i \in 1 .. UseSize(v) : ByteAt(v, v.read_head + i) \in Nat
  BY <1>1, <1>2, ElementOfSeq DEF ByteAt, Junk
<1> HIDE DEF v
<1>5. Peek(v, UseSize(v)) \in Seq(Nat)
  BY <1>3, <1>4, FunctionIsSeq DEF Peek
<1> QED
  BY <1>5 DEF DirOK, Rewind, Vectors, v

\* rewind() of the receive buffer changes nothing of the stream.
LEMMA DirRewind ==
  ASSUME NEW r, NEW p, NEW s, NEW q, NEW g, NEW spoiled, DirOK(r, p, s, q, g, spoiled)
  PROVE  DirOK(Rewind(r), p, s, q, g, spoiled)
<1>1. VectorOK(r)
  BY DEF DirOK
<1>2. VectorOK(Rewind(r)) /\ UseSize(Rewind(r)) = UseSize(r) /\ Unused(Rewind(r)) = Unused(r)
  BY <1>1, RewindVector
<1> QED
  BY <1>2 DEF DirOK, Delivered, Queued

Header(start) == [i \in 1 .. HeaderSize |-> start + i - 1]

\* What lies at the read head is the header of the packet that is due.
LEMMA DirHeader ==
  ASSUME NEW r, NEW p, NEW s, NEW q, NEW g, NEW spoiled, DirOK(r, p, s, q, g, spoiled),
         HeaderSize <= UseSize(r)
  PROVE  /\ Len(g) + 1 \in DOMAIN q
         /\ Peek(r, HeaderSize) = Header(Due(q, g))
<1>1. /\ Len(g) + 1 \in 1 .. Len(q) + 1 /\ Len(p) \in Nat
      /\ Due(q, g) \in Nat \ {0} /\ End(q) \in Nat \ {0} /\ UseSize(r) \in Nat
  BY DirNumbers
<1>2. HeaderSize \in Nat \ {0}
  BY SizesAssumption
<1>3. Due(q, g) + UseSize(r) + Len(p) <= End(q) /\ RunsFrom(Unused(r), Due(q, g))
  BY DEF DirOK, Delivered
<1>4. Due(q, g) # End(q)
  BY <1>1, <1>2, <1>3
<1>5. Len(g) + 1 \in DOMAIN q
  BY <1>4 DEF Due, Start
<1>6. ASSUME NEW i \in 1 .. HeaderSize
      PROVE  Peek(r, HeaderSize)[i] = Due(q, g) + i - 1
  <2>1. i \in 1 .. UseSize(r)
    BY <1>1, <1>2
  <2>2. Unused(r)[i] = Due(q, g) + i - 1
    <3>1. Len(Unused(r)) = UseSize(r)
      BY DirNumbers
    <3> QED
      BY <1>3, <2>1, <3>1 DEF RunsFrom
  <2> QED
    BY <2>1, <2>2 DEF Peek, Unused
<1>7. Peek(r, HeaderSize) = [i \in 1 .. HeaderSize |-> Peek(r, HeaderSize)[i]]
  BY DEF Peek
<1>8. Peek(r, HeaderSize) = Header(Due(q, g))
  BY <1>6, <1>7 DEF Header, Peek
<1> QED
  BY <1>5, <1>8

\* The packet that is taken out is the one that is due, and then the next is.
LEMMA DirParse ==
  ASSUME NEW r, NEW p, NEW s, NEW q, NEW g, NEW spoiled, DirOK(r, p, s, q, g, spoiled),
         HeaderSize <= UseSize(r),
         NEW n \in DOMAIN q, Peek(r, HeaderSize) = Header(q[n].start),
         Length(q[n].kind) <= UseSize(r)
  PROVE  /\ n = Len(g) + 1
         /\ DirOK(MoveReadHead(r, Length(q[n].kind)), p, s, q, Append(g, q[n].kind), spoiled)
<1>1. /\ Len(g) \in Nat /\ Len(q) \in Nat
      /\ Len(g) + 1 \in 1 .. Len(q) + 1 /\ Len(p) \in Nat
      /\ Due(q, g) \in Nat \ {0} /\ End(q) \in Nat \ {0} /\ UseSize(r) \in Nat
  BY DirNumbers
<1>2. SentOK(q) /\ VectorOK(r)
  BY DEF DirOK
<1>3. q[n].kind \in Kinds /\ q[n].start \in Nat \ {0}
  BY <1>2, Starts
<1>4. n = Len(g) + 1
  <2>1. 1 \in 1 .. HeaderSize
    BY SizesAssumption
  <2>2. Header(q[n].start) = Header(Due(q, g))
    BY DirHeader
  <2>3. Header(q[n].start)[1] = q[n].start + 1 - 1 /\ Header(Due(q, g))[1] = Due(q, g) + 1 - 1
    BY <2>1 DEF Header
  <2>4. q[n].start = Due(q, g)
    BY <1>1, <1>3, <2>2, <2>3
  <2> QED
    BY <1>1, <1>2, <2>4, StartIsUnique DEF Due
<1> DEFINE k == q[n].kind
           t == MoveReadHead(r, Length(k))
           h == Append(g, k)
<1>5. Length(k) \in Nat /\ Written(k) = Length(k) /\ Length(k) \in 0 .. UseSize(r)
  BY <1>1, <1>3, Sizes
<1>6. /\ h \in Seq(Kinds) /\ Len(h) = Len(g) + 1 /\ Len(h) <= Len(q)
  <2>1. h \in Seq(Kinds) /\ Len(h) = Len(g) + 1
    BY <1>3 DEF DirOK
  <2>2. n \in 1 .. Len(q)
    BY <1>2, Starts
  <2> QED
    BY <1>1, <1>4, <2>1, <2>2
<1>7. Due(q, h) = Due(q, g) + Length(k)
  <2>1. Start(q, n + 1) = q[n].start + Written(k)
    BY <1>2, Starts
  <2>2. Due(q, g) = q[n].start
    BY <1>4 DEF Due, Start
  <2>3. Due(q, h) = Start(q, n + 1)
    BY <1>4, <1>6 DEF Due
  <2> QED
    BY <1>5, <2>1, <2>2, <2>3
<1>8. /\ VectorOK(t) /\ UseSize(t) = UseSize(r) - Length(k)
      /\ Unused(t) = SubSeq(Unused(r), Length(k) + 1, UseSize(r))
  BY <1>2, <1>5, MoveVector
<1> HIDE DEF t, h, k
<1>9. RunsFrom(Unused(t), Due(q, h))
  <2> DEFINE u == Unused(r)
  <2>1. u \in Seq(Nat) /\ Len(u) = UseSize(r) /\ RunsFrom(u, Due(q, g))
    BY DirNumbers DEF DirOK, Delivered
  <2> HIDE DEF u
  <2>2. Length(k) + 1 \in 1 .. Len(u) + 1 /\ Len(u) \in 0 .. Len(u)
    BY <1>1, <1>5, <2>1
  <2>3. RunsFrom(SubSeq(u, Length(k) + 1, Len(u)), Due(q, g) + (Length(k) + 1) - 1)
    BY <1>1, <2>1, <2>2, RunsSubSeq
  <2>4. Due(q, g) + (Length(k) + 1) - 1 = Due(q, h)
    BY <1>1, <1>5, <1>7
  <2> QED
    BY <1>8, <2>1, <2>3, <2>4 DEF u
<1>10. Due(q, h) + UseSize(t) = Due(q, g) + UseSize(r)
  BY <1>1, <1>5, <1>7, <1>8
<1>11. Delivered(t, p, q, h) /\ (spoiled \/ Queued(t, p, s, q, h))
  BY <1>9, <1>10 DEF DirOK, Delivered, Queued
<1>12. DirOK(t, p, s, q, h, spoiled)
  BY <1>6, <1>8, <1>11 DEF DirOK
<1> QED
  BY <1>4, <1>12 DEF t, h, k

Stretch(from, to) == [i \in 1 .. to - from |-> from + i - 1]

\* All that is under way is the stream from the packet that is due to the end.
LEMMA DirIntact ==
  ASSUME NEW r, NEW p, NEW s, NEW q, NEW g, DirOK(r, p, s, q, g, FALSE)
  PROVE  Unused(r) \o p \o Unused(s) = Stretch(Due(q, g), End(q))
<1> DEFINE a == Due(q, g)
           u == Unused(r)
           w == Unused(s)
<1>1. /\ Len(p) \in Nat /\ a \in Nat \ {0} /\ End(q) \in Nat \ {0} /\ UseSize(r) \in Nat
      /\ u \in Seq(Nat) /\ Len(u) = UseSize(r) /\ p \in Seq(Nat)
  BY DirNumbers DEF DirOK
<1>2. /\ RunsFrom(u, a) /\ RunsFrom(p, a + UseSize(r))
      /\ RunsFrom(w, a + UseSize(r) + Len(p))
      /\ a + UseSize(r) + Len(p) + UseSize(s) = End(q) /\ VectorOK(s)
  BY DEF DirOK, Delivered, Queued, VectorOK
<1>3. w \in Seq(Nat) /\ Len(w) = UseSize(s) /\ UseSize(s) \in Nat
  BY <1>2, VectorSizes
<1> HIDE DEF a, u, w
<1>4. u \o p \in Seq(Nat) /\ Len(u \o p) = UseSize(r) + Len(p) /\ RunsFrom(u \o p, a)
  BY <1>1, <1>2, ConcatProperties, RunsConcat
<1> DEFINE x == u \o p
<1>5. x \in Seq(Nat) /\ Len(x) = UseSize(r) + Len(p) /\ RunsFrom(x, a)
      /\ RunsFrom(w, a + Len(x))
  <2>1. a + UseSize(r) + Len(p) = a + Len(x)
    BY <1>1, <1>4
  <2> QED
    BY <1>2, <1>4, <2>1
<1> HIDE DEF x
<1>6. x \o w \in Seq(Nat) /\ Len(x \o w) = Len(x) + Len(w) /\ RunsFrom(x \o w, a)
  BY <1>1, <1>3, <1>5, ConcatProperties, RunsConcat
<1>7. Len(x) + Len(w) = End(q) - a
  BY <1>1, <1>2, <1>3, <1>5
<1>8. x \o w = [i \in 1 .. Len(x \o w) |-> a + i - 1]
  BY <1>1, <1>6, RunsEqual
<1> QED
  BY <1>6, <1>7, <1>8 DEF Stretch, a, u, w, x

-----------------------------------------------------------------------------
(* The invariant                                                           *)
(*                                                                         *)
(* StreamIntact alone is not inductive: it says nothing of where the three  *)
(* pieces of a stream are cut, of the send buffers being rewound before     *)
(* each send(), of the packets lying one behind the other, of the room a    *)
(* receive buffer has when recv() is called next, nor of inner_packet being *)
(* empty between two packets.                                               *)

IsFun(f) == f = [d \in Dirs |-> f[d]]

Shapes ==
  /\ IsFun(send_buffer) /\ IsFun(recv_buffer) /\ IsFun(pipe)
  /\ IsFun(sent) /\ IsFun(parsed)

At(d, spoiled) ==
  DirOK(recv_buffer[d], pipe[d], send_buffer[d], sent[d], parsed[d], spoiled)

Streams ==
  /\ At("down", FALSE)
  /\ At("up", TRUE)
  /\ failed \/ At("up", FALSE)

RequestsUp == \A n \in DOMAIN sent["up"] : sent["up"][n].kind = "DROP_STONE_REQUEST"

InnerEmpty ==
  PacketOK(inner_packet) /\ inner_packet.buffer = <<>> /\ inner_packet.read_head = 0

Rooms ==
  /\ pc \in {"send", "others", "over", "select"} => Len(recv_buffer["up"].bytes) < CAPACITY
  /\ cpc \in {"frame", "send"} => Len(recv_buffer["down"].bytes) < CAPACITY

Scalars ==
  /\ pc \in PCs /\ cpc \in ClientPCs
  /\ cpc # "overread"
  /\ failed => cpc = "spoiled"
  /\ wset \in BOOLEAN /\ over \in BOOLEAN /\ failed \in BOOLEAN

Timer ==
  /\ timer_event \in Nat /\ ticks \in 0 .. MaxTicks /\ since \in 0 .. Second + 1
  /\ overslept \in BOOLEAN /\ owed \in Nat

WireInv == Shapes /\ Streams /\ RequestsUp /\ InnerEmpty /\ Rooms /\ Scalars /\ Timer

\* A direction whose parts do not change.
LEMMA AtSame ==
  ASSUME NEW d, NEW spoiled, At(d, spoiled),
         recv_buffer'[d] = recv_buffer[d], pipe'[d] = pipe[d],
         send_buffer'[d] = send_buffer[d], sent'[d] = sent[d], parsed'[d] = parsed[d]
  PROVE  At(d, spoiled)'
BY DEF At

\* pre_send with the bytes of a packet.
LEMMA AtPut ==
  ASSUME Shapes, NEW d \in Dirs, At(d, FALSE), NEW k \in Kinds,
         PreSend(d, k, Fresh(d, k)),
         recv_buffer'[d] = recv_buffer[d], pipe'[d] = pipe[d], parsed'[d] = parsed[d]
  PROVE  /\ At(d, FALSE)'
         /\ IsFun(send_buffer') /\ IsFun(sent')
         /\ sent'[d] = Append(sent[d], [kind |-> k, start |-> NextByte(d)])
         /\ \A e \in Dirs \ {d} : send_buffer'[e] = send_buffer[e] /\ sent'[e] = sent[e]
<1>1. NextByte(d) = End(sent[d])
  BY DEF NextByte, End
<1>2. Fresh(d, k) = [i \in 1 .. Written(k) |-> End(sent[d]) + i - 1]
  BY <1>1 DEF Fresh
<1>3. /\ send_buffer' = [send_buffer EXCEPT ![d] = WriteBytes(send_buffer[d], Fresh(d, k))]
      /\ sent' = [sent EXCEPT ![d] = Append(sent[d], [kind |-> k, start |-> End(sent[d])])]
      /\ Len(Fresh(d, k)) <= BufferSize(send_buffer[d])
  BY <1>1 DEF PreSend
<1>4. /\ send_buffer'[d] = WriteBytes(send_buffer[d], Fresh(d, k)) /\ IsFun(send_buffer')
      /\ \A e \in Dirs \ {d} : send_buffer'[e] = send_buffer[e]
  BY <1>3 DEF Shapes, IsFun
<1>5. /\ sent'[d] = Append(sent[d], [kind |-> k, start |-> End(sent[d])]) /\ IsFun(sent')
      /\ \A e \in Dirs \ {d} : sent'[e] = sent[e]
  BY <1>3 DEF Shapes, IsFun
<1>6. DirOK(recv_buffer[d], pipe[d], WriteBytes(send_buffer[d], Fresh(d, k)),
            Append(sent[d], [kind |-> k, start |-> End(sent[d])]), parsed[d], FALSE)
  BY <1>2, <1>3, DirPut DEF At
<1> QED
  BY <1>1, <1>4, <1>5, <1>6 DEF At

\* recv() on a connection that has something to read.
LEMMA AtReceive ==
  ASSUME Shapes, NEW d \in Dirs, At(d, TRUE), Receive(d),
         send_buffer'[d] = send_buffer[d], sent'[d] = sent[d], parsed'[d] = parsed[d]
  PROVE  /\ At(d, TRUE)'
         /\ At(d, FALSE) => At(d, FALSE)'
         /\ IsFun(recv_buffer') /\ IsFun(pipe')
         /\ \A e \in Dirs \ {d} : recv_buffer'[e] = recv_buffer[e] /\ pipe'[e] = pipe[e]
<1>1. PICK n \in 1 .. RecvLimit(d) :
        /\ recv_buffer' = [recv_buffer EXCEPT ![d] =
                              WriteBytes(recv_buffer[d], SubSeq(pipe[d], 1, n))]
        /\ pipe' = [pipe EXCEPT ![d] = SubSeq(pipe[d], n + 1, Len(pipe[d]))]
  BY DEF Receive
<1>2. n \in 1 .. Len(pipe[d]) /\ n <= BufferSize(recv_buffer[d])
  <2>1. VectorOK(recv_buffer[d]) /\ pipe[d] \in Seq(Nat)
    BY DEF At, DirOK
  <2>2. BufferSize(recv_buffer[d]) \in Nat /\ Len(pipe[d]) \in Nat
    BY <2>1, VectorSizes, LenProperties
  <2> QED
    BY <1>1, <2>2 DEF RecvLimit, Smaller
<1>3. /\ IsFun(recv_buffer')
      /\ recv_buffer'[d] = WriteBytes(recv_buffer[d], SubSeq(pipe[d], 1, n))
      /\ \A e \in Dirs \ {d} : recv_buffer'[e] = recv_buffer[e]
  BY <1>1 DEF Shapes, IsFun
<1>4. /\ IsFun(pipe')
      /\ pipe'[d] = SubSeq(pipe[d], n + 1, Len(pipe[d]))
      /\ \A e \in Dirs \ {d} : pipe'[e] = pipe[e]
  BY <1>1 DEF Shapes, IsFun
<1>5. ASSUME NEW spoiled, At(d, spoiled)
      PROVE  At(d, spoiled)'
  <2>1. DirOK(WriteBytes(recv_buffer[d], SubSeq(pipe[d], 1, n)),
              SubSeq(pipe[d], n + 1, Len(pipe[d])), send_buffer[d], sent[d], parsed[d], spoiled)
    BY <1>2, <1>5, DirReceive DEF At
  <2> QED
    BY <1>3, <1>4, <2>1 DEF At
<1> QED
  BY <1>3, <1>4, <1>5

\* parse_packet leaves its loop and rewinds.
LEMMA AtRewind ==
  ASSUME Shapes, NEW d \in Dirs, At(d, TRUE), Incomplete(d),
         recv_buffer' = [recv_buffer EXCEPT ![d] = Rewind(recv_buffer[d])],
         send_buffer'[d] = send_buffer[d], sent'[d] = sent[d], parsed'[d] = parsed[d],
         pipe'[d] = pipe[d]
  PROVE  /\ At(d, TRUE)'
         /\ At(d, FALSE) => At(d, FALSE)'
         /\ IsFun(recv_buffer')
         /\ \A e \in Dirs \ {d} : recv_buffer'[e] = recv_buffer[e]
         /\ Len(recv_buffer'[d].bytes) < CAPACITY
<1>1. /\ IsFun(recv_buffer') /\ recv_buffer'[d] = Rewind(recv_buffer[d])
      /\ \A e \in Dirs \ {d} : recv_buffer'[e] = recv_buffer[e]
  BY DEF Shapes, IsFun
<1>2. ASSUME NEW spoiled, At(d, spoiled)
      PROVE  At(d, spoiled)'
  BY <1>1, <1>2, DirRewind DEF At
<1>3. VectorOK(recv_buffer[d]) /\ SentOK(sent[d])
  BY DEF At, DirOK
<1>4. Len(recv_buffer'[d].bytes) = UseSize(recv_buffer[d]) /\ UseSize(recv_buffer[d]) \in Nat
  BY <1>1, <1>3, RewindVector, VectorSizes
<1>5. UseSize(recv_buffer[d]) < CAPACITY
  <2>1. CASE ~HeaderInside(d)
    <3>1. "ASSIGN_STONE" \in Kinds
      BY DEF Kinds
    <3>2. HeaderSize < CAPACITY /\ HeaderSize \in Nat
      <4>1. /\ HeaderSize \in Nat /\ Length("ASSIGN_STONE") \in Nat
            /\ HeaderSize < Length("ASSIGN_STONE") /\ Length("ASSIGN_STONE") < CAPACITY
        BY <3>1, Sizes
      <4> QED
        BY <4>1, CapacityAssumption
    <3> QED
      BY <1>4, <2>1, <3>2, CapacityAssumption DEF HeaderInside
  <2>2. CASE \E n \in HeadersAt(d) : UseSize(recv_buffer[d]) < Length(sent[d][n].kind)
    <3>1. PICK n \in DOMAIN sent[d] : UseSize(recv_buffer[d]) < Length(sent[d][n].kind)
      BY <2>2 DEF HeadersAt
    <3>2. sent[d][n].kind \in Kinds
      BY <1>3, Starts
    <3>3. Length(sent[d][n].kind) \in Nat /\ Length(sent[d][n].kind) < CAPACITY
      BY <3>2, Sizes
    <3> QED
      BY <1>4, <3>1, <3>3, CapacityAssumption
  <2> QED
    BY <2>1, <2>2 DEF Incomplete
<1> QED
  BY <1>1, <1>2, <1>4, <1>5

\* parse_packet goes through its loop: the packet is the one that is due.
LEMMA AtParse ==
  ASSUME Shapes, NEW d \in Dirs, At(d, TRUE), NEW n \in DOMAIN sent[d], Complete(d, n)
  PROVE  /\ n = Len(parsed[d]) + 1 /\ n \in 1 .. Len(sent[d])
         /\ sent[d][n].kind \in Kinds
         /\ recv_buffer' = [recv_buffer EXCEPT ![d] = MoveReadHead(recv_buffer[d], Length(sent[d][n].kind))]
            /\ parsed' = [parsed EXCEPT ![d] = Append(parsed[d], sent[d][n].kind)]
            /\ pipe'[d] = pipe[d] /\ send_buffer'[d] = send_buffer[d] /\ sent'[d] = sent[d]
            => /\ At(d, TRUE)'
               /\ At(d, FALSE) => At(d, FALSE)'
               /\ IsFun(recv_buffer') /\ IsFun(parsed')
               /\ \A e \in Dirs \ {d} : recv_buffer'[e] = recv_buffer[e] /\ parsed'[e] = parsed[e]
<1>1. SentOK(sent[d]) /\ VectorOK(recv_buffer[d])
  BY DEF At, DirOK
<1>2. sent[d][n].kind \in Kinds /\ n \in 1 .. Len(sent[d])
  BY <1>1, Starts
<1>3. /\ HeaderSize <= UseSize(recv_buffer[d])
      /\ Peek(recv_buffer[d], HeaderSize) = Header(sent[d][n].start)
      /\ ~(UseSize(recv_buffer[d]) < Length(sent[d][n].kind))
  BY DEF Complete, Incomplete, HeadersAt, HeaderInside, Header
<1>4. Length(sent[d][n].kind) <= UseSize(recv_buffer[d])
  BY <1>1, <1>2, <1>3, Sizes, VectorSizes
<1>5. ASSUME NEW spoiled, At(d, spoiled)
      PROVE  /\ n = Len(parsed[d]) + 1
             /\ DirOK(MoveReadHead(recv_buffer[d], Length(sent[d][n].kind)), pipe[d],
                      send_buffer[d], sent[d], Append(parsed[d], sent[d][n].kind), spoiled)
  BY <1>3, <1>4, <1>5, DirParse DEF At
<1>6. ASSUME recv_buffer' = [recv_buffer EXCEPT ![d] = MoveReadHead(recv_buffer[d], Length(sent[d][n].kind))],
             parsed' = [parsed EXCEPT ![d] = Append(parsed[d], sent[d][n].kind)],
             pipe'[d] = pipe[d], send_buffer'[d] = send_buffer[d], sent'[d] = sent[d]
      PROVE  /\ At(d, TRUE)'
             /\ At(d, FALSE) => At(d, FALSE)'
             /\ IsFun(recv_buffer') /\ IsFun(parsed')
             /\ \A e \in Dirs \ {d} : recv_buffer'[e] = recv_buffer[e] /\ parsed'[e] = parsed[e]
  <2>1. /\ IsFun(recv_buffer')
        /\ recv_buffer'[d] = MoveReadHead(recv_buffer[d], Length(sent[d][n].kind))
        /\ \A e \in Dirs \ {d} : recv_buffer'[e] = recv_buffer[e]
    BY <1>6 DEF Shapes, IsFun
  <2>2. /\ IsFun(parsed')
        /\ parsed'[d] = Append(parsed[d], sent[d][n].kind)
        /\ \A e \in Dirs \ {d} : parsed'[e] = parsed[e]
    BY <1>6 DEF Shapes, IsFun
  <2>3. ASSUME NEW spoiled, At(d, spoiled)
        PROVE  At(d, spoiled)'
    BY <1>5, <1>6, <2>1, <2>2, <2>3 DEF At
  <2> QED
    BY <2>1, <2>2, <2>3
<1> QED
  BY <1>2, <1>5, <1>6

-----------------------------------------------------------------------------
(* Every step keeps the invariant *)

\* Requests stay the only packets upward when nothing or a request is sent.
LEMMA RequestAppended ==
  ASSUME At("up", FALSE), RequestsUp,
         sent'["up"] = Append(sent["up"], [kind |-> "DROP_STONE_REQUEST", start |-> NextByte("up")])
  PROVE  RequestsUp'
<1>1. SentOK(sent["up"]) /\ NextByte("up") = End(sent["up"])
  BY DEF At, DirOK, NextByte, End
<1>2. "DROP_STONE_REQUEST" \in Kinds
  BY DEF Kinds
<1>3. /\ Len(sent'["up"]) = Len(sent["up"]) + 1
      /\ \A i \in 1 .. Len(sent["up"]) : sent'["up"][i] = sent["up"][i]
      /\ sent'["up"][Len(sent["up"]) + 1].kind = "DROP_STONE_REQUEST"
      /\ SentOK(sent'["up"])
  BY <1>1, <1>2, SentAppend
<1>4. DOMAIN sent'["up"] = 1 .. Len(sent["up"]) + 1 /\ DOMAIN sent["up"] = 1 .. Len(sent["up"])
      /\ Len(sent["up"]) \in Nat
  BY <1>1, <1>3, EndType
<1> QED
  BY <1>3, <1>4 DEF RequestsUp

\* The server's half of an action that only adds a packet downward.
LEMMA PutDown ==
  ASSUME WireInv, NEW k \in Kinds, PreSend("down", k, Fresh("down", k)),
         UNCHANGED <<recv_buffer, pipe, parsed>>
  PROVE  /\ At("down", FALSE)' /\ At("up", TRUE)' /\ (At("up", FALSE) => At("up", FALSE)')
         /\ Shapes' /\ RequestsUp'
<1>1. /\ At("down", FALSE)' /\ IsFun(send_buffer') /\ IsFun(sent')
      /\ \A e \in Dirs \ {"down"} : send_buffer'[e] = send_buffer[e] /\ sent'[e] = sent[e]
  BY AtPut DEF WireInv, Streams, Dirs
<1>2. send_buffer'["up"] = send_buffer["up"] /\ sent'["up"] = sent["up"]
  BY <1>1 DEF Dirs
<1> QED
  BY <1>1, <1>2, AtSame DEF WireInv, Streams, Shapes, RequestsUp

LEMMA SelectRecvInv ==
  ASSUME WireInv, SelectRecv
  PROVE  WireInv'
<1> USE DEF WireInv
<1>1. /\ pc = "select" /\ wset' \in BOOLEAN
      /\ UNCHANGED <<send_buffer, sent, parsed, inner_packet, over, clientVars, timerVars>>
  BY DEF SelectRecv
<1>2. InnerEmpty' /\ Timer' /\ RequestsUp'
  BY <1>1 DEF InnerEmpty, Timer, timerVars, RequestsUp
<1>3. CASE Receive("up") /\ pc' = "parse"
  <2>1. /\ At("up", TRUE)' /\ (At("up", FALSE) => At("up", FALSE)')
        /\ IsFun(recv_buffer') /\ IsFun(pipe')
        /\ \A e \in Dirs \ {"up"} : recv_buffer'[e] = recv_buffer[e] /\ pipe'[e] = pipe[e]
    BY <1>1, <1>3, AtReceive DEF Streams, Dirs
  <2>2. recv_buffer'["down"] = recv_buffer["down"] /\ pipe'["down"] = pipe["down"]
    BY <2>1 DEF Dirs
  <2>3. Streams' /\ Shapes'
    BY <1>1, <2>1, <2>2, AtSame DEF Streams, Shapes, clientVars
  <2>4. Rooms' /\ Scalars'
    BY <1>1, <1>3, <2>2 DEF Rooms, Scalars, PCs, clientVars
  <2> QED
    BY <1>2, <2>3, <2>4
<1>4. CASE pc' = "send" /\ UNCHANGED <<recv_buffer, pipe>>
  <2>1. Streams' /\ Shapes'
    BY <1>1, <1>4, AtSame DEF Streams, Shapes, clientVars
  <2>2. Rooms' /\ Scalars'
    BY <1>1, <1>4 DEF Rooms, Scalars, PCs, clientVars
  <2> QED
    BY <1>2, <2>1, <2>2
<1> QED
  BY <1>3, <1>4 DEF SelectRecv

LEMMA ParseEndsInv ==
  ASSUME WireInv, ParseEnds
  PROVE  WireInv'
<1> USE DEF WireInv
<1>1. /\ pc = "parse" /\ pc' = "send" /\ Incomplete("up")
      /\ recv_buffer' = [recv_buffer EXCEPT !["up"] = Rewind(recv_buffer["up"])]
      /\ UNCHANGED <<send_buffer, pipe, sent, parsed, inner_packet, wset, over, clientVars, timerVars>>
  BY DEF ParseEnds
<1>2. InnerEmpty' /\ Timer' /\ RequestsUp'
  BY <1>1 DEF InnerEmpty, Timer, timerVars, RequestsUp
<1>3. /\ At("up", TRUE)' /\ (At("up", FALSE) => At("up", FALSE)')
      /\ IsFun(recv_buffer')
      /\ \A e \in Dirs \ {"up"} : recv_buffer'[e] = recv_buffer[e]
      /\ Len(recv_buffer'["up"].bytes) < CAPACITY
  BY <1>1, AtRewind DEF Streams, Dirs
<1>4. recv_buffer'["down"] = recv_buffer["down"]
  BY <1>3 DEF Dirs
<1>5. Streams' /\ Shapes'
  BY <1>1, <1>3, <1>4, AtSame DEF Streams, Shapes, clientVars
<1>6. Rooms' /\ Scalars'
  BY <1>1, <1>3, <1>4 DEF Rooms, Scalars, PCs, clientVars
<1> QED
  BY <1>2, <1>5, <1>6

\* What a request is in the packet it is read with.
LEMMA RequestWhole ==
  ASSUME WireInv, NEW n \in DOMAIN sent["up"], NEW bytes \in Seq(Nat)
  PROVE  LET answer == PacketWrite(RequestRead(n), bytes)
         IN  /\ PacketContents(answer) = bytes
             /\ PacketOK(answer) /\ PacketOK(RequestRead(n))
<1>1. sent["up"][n].kind = "DROP_STONE_REQUEST"
  BY DEF WireInv, RequestsUp
<1>2. "DROP_STONE_REQUEST" \in Kinds
  BY DEF Kinds
<1>3. ReadSize("DROP_STONE_REQUEST") = Length("DROP_STONE_REQUEST")
      /\ Length("DROP_STONE_REQUEST") \in Nat
  BY <1>2, Sizes, SizesAssumption DEF ReadSize, Length
<1>4. RequestRead(n)
        = PacketRead(PacketWrite(inner_packet, Foreign(Length("DROP_STONE_REQUEST"))),
                     Length("DROP_STONE_REQUEST"))
  BY <1>1, <1>3 DEF RequestRead
<1> QED
  BY <1>3, <1>4, AnswerAlone DEF WireInv, InnerEmpty

\* reset() empties the packet.
LEMMA ResetEmpty ==
  ASSUME NEW p, PacketOK(p)
  PROVE  /\ PacketOK(PacketReset(p))
         /\ PacketReset(p).buffer = <<>> /\ PacketReset(p).read_head = 0
<1>1. p.payload_capacity \in Nat
  BY DEF PacketOK
<1>2. <<>> \in Seq(Nat) /\ Len(<<>>) = 0
  BY EmptySeq
<1> QED
  BY <1>1, <1>2 DEF PacketOK, PacketReset

\* The bytes of a packet about to be written are numbers.
LEMMA FreshType ==
  ASSUME NEW d, NEW spoiled, At(d, spoiled), NEW k \in Kinds
  PROVE  Fresh(d, k) \in Seq(Nat)
<1>1. NextByte(d) = End(sent[d]) /\ SentOK(sent[d])
  BY DEF NextByte, End, At, DirOK
<1>2. NextByte(d) \in Nat \ {0} /\ Written(k) \in Nat
  BY <1>1, EndType, Sizes
<1>3. Fresh(d, k) \in [1 .. Written(k) -> Nat]
  BY <1>2 DEF Fresh
<1> QED
  BY <1>2, <1>3, FunctionIsSeq

LEMMA ParseRequestInv ==
  ASSUME WireInv, NEW n \in DOMAIN sent["up"], ParseRequest(n)
  PROVE  WireInv'
<1> USE DEF WireInv
<1> DEFINE k == sent["up"][n].kind
           bytes == Fresh("down", "DROP_STONE_RESPONSE")
           answer == PacketWrite(RequestRead(n), bytes)
<1>1. /\ pc = "parse" /\ Complete("up", n)
      /\ recv_buffer' = [recv_buffer EXCEPT !["up"] = MoveReadHead(recv_buffer["up"], Length(k))]
      /\ parsed' = [parsed EXCEPT !["up"] = Append(parsed["up"], k)]
      /\ UNCHANGED <<pipe, wset, clientVars, timerVars>>
  BY DEF ParseRequest
<1>2. bytes \in Seq(Nat)
  BY FreshType DEF Streams, Kinds
<1>3. PacketContents(answer) = bytes /\ PacketOK(answer) /\ PacketOK(RequestRead(n))
  BY <1>2, RequestWhole
<1>4. CASE /\ UNCHANGED <<send_buffer, sent>> /\ over' \in BOOLEAN /\ pc' \in {pc, "crashed"}
           /\ inner_packet' \in {PacketReset(RequestRead(n)), inner_packet}
  <2>1. /\ At("up", TRUE)' /\ (At("up", FALSE) => At("up", FALSE)')
        /\ IsFun(recv_buffer') /\ IsFun(parsed')
        /\ \A e \in Dirs \ {"up"} : recv_buffer'[e] = recv_buffer[e] /\ parsed'[e] = parsed[e]
    BY <1>1, <1>4, AtParse DEF Streams, Dirs
  <2>2. recv_buffer'["down"] = recv_buffer["down"] /\ parsed'["down"] = parsed["down"]
    BY <2>1 DEF Dirs
  <2>3. Streams' /\ Shapes'
    BY <1>1, <1>4, <2>1, <2>2, AtSame DEF Streams, Shapes, clientVars
  <2>4. Rooms' /\ Scalars'
    BY <1>1, <1>4, <2>2 DEF Rooms, Scalars, PCs, clientVars
  <2>5. InnerEmpty'
    <3>1. CASE inner_packet' = inner_packet
      BY <3>1 DEF InnerEmpty
    <3>2. CASE inner_packet' = PacketReset(RequestRead(n))
      BY <1>3, <3>2, ResetEmpty DEF InnerEmpty
    <3> QED
      BY <1>4, <3>1, <3>2
  <2>6. Timer' /\ RequestsUp'
    BY <1>1, <1>4 DEF Timer, timerVars, RequestsUp
  <2> QED
    BY <2>3, <2>4, <2>5, <2>6
<1>5. CASE /\ PreSend("down", "DROP_STONE_RESPONSE", PacketContents(answer))
           /\ inner_packet' = PacketReset(answer) /\ over' \in BOOLEAN /\ UNCHANGED pc
  <2>1. PreSend("down", "DROP_STONE_RESPONSE", bytes)
    BY <1>3, <1>5
  <2>2. recv_buffer'["down"] = recv_buffer["down"] /\ parsed'["down"] = parsed["down"]
    BY <1>1 DEF Shapes, IsFun, Dirs
  <2>3. /\ At("down", FALSE)' /\ IsFun(send_buffer') /\ IsFun(sent')
        /\ \A e \in Dirs \ {"down"} : send_buffer'[e] = send_buffer[e] /\ sent'[e] = sent[e]
    BY <1>1, <2>1, <2>2, AtPut DEF Streams, Dirs, Kinds
  <2>4. send_buffer'["up"] = send_buffer["up"] /\ sent'["up"] = sent["up"]
    BY <2>3 DEF Dirs
  <2>5. /\ At("up", TRUE)' /\ (At("up", FALSE) => At("up", FALSE)')
        /\ IsFun(recv_buffer') /\ IsFun(parsed')
    BY <1>1, <2>4, AtParse DEF Streams, Dirs
  <2>6. Streams' /\ Shapes'
    BY <1>1, <2>3, <2>5 DEF Streams, Shapes, clientVars
  <2>7. Rooms' /\ Scalars'
    BY <1>1, <1>5, <2>2 DEF Rooms, Scalars, PCs, clientVars
  <2>8. InnerEmpty'
    BY <1>3, <1>5, ResetEmpty DEF InnerEmpty
  <2>9. Timer' /\ RequestsUp'
    BY <1>1, <2>4 DEF Timer, timerVars, RequestsUp
  <2> QED
    BY <2>6, <2>7, <2>8, <2>9
<1>6. over \in BOOLEAN
  BY DEF Scalars
<1> QED
  BY <1>4, <1>5, <1>6 DEF ParseRequest, NoRoom

\* A blocking send() takes the whole of the buffer.
LEMMA SendInv ==
  ASSUME WireInv, Send
  PROVE  WireInv'
<1> USE DEF WireInv
<1> DEFINE v == send_buffer["down"]
<1>1. /\ pc = "send" /\ pc' = "others" /\ wset' = FALSE
      /\ UNCHANGED <<recv_buffer, sent, parsed, inner_packet, over, clientVars, timerVars>>
  BY DEF Send
<1>2. InnerEmpty' /\ Timer' /\ RequestsUp' /\ Rooms' /\ Scalars'
  BY <1>1 DEF InnerEmpty, Timer, timerVars, RequestsUp, Rooms, Scalars, PCs, clientVars
<1>3. CASE UNCHANGED <<pipe, send_buffer>>
  <2>1. Streams' /\ Shapes'
    BY <1>1, <1>3, AtSame DEF Streams, Shapes, clientVars
  <2> QED
    BY <1>2, <2>1
<1>4. CASE /\ pipe' = [pipe EXCEPT !["down"] = pipe["down"] \o SendBytes(v)]
           /\ send_buffer' = [send_buffer EXCEPT !["down"] = Rewind(MoveReadHead(v, UseSize(v)))]
  <2>1. /\ IsFun(pipe') /\ IsFun(send_buffer')
        /\ pipe'["down"] = pipe["down"] \o SendBytes(v) /\ pipe'["up"] = pipe["up"]
        /\ send_buffer'["down"] = Rewind(MoveReadHead(v, UseSize(v)))
        /\ send_buffer'["up"] = send_buffer["up"]
    BY <1>4 DEF Shapes, IsFun, Dirs
  <2>2. v.read_head = 0 /\ VectorOK(v) /\ v \in Vectors /\ pipe["down"] \in Seq(Nat)
    BY DEF Streams, At, DirOK, Queued, VectorOK
  <2>3. UseSize(v) \in Nat /\ SendBytes(v) \in Seq(Nat) /\ Len(SendBytes(v)) = UseSize(v)
    BY <2>2, SendVector, VectorSizes
  <2>4. At("down", FALSE)'
    <3>1. CASE UseSize(v) = 0
      <4>1. /\ VectorOK(MoveReadHead(v, 0)) /\ UseSize(MoveReadHead(v, 0)) = 0
        BY <2>2, <2>3, <3>1, MoveVector
      <4>2. MoveReadHead(v, 0) = v
        BY <2>2 DEF MoveReadHead, Vectors
      <4>3. /\ VectorOK(Rewind(v)) /\ Rewind(v).read_head = 0
            /\ UseSize(Rewind(v)) = UseSize(v) /\ Unused(Rewind(v)) = Unused(v)
        BY <2>2, RewindVector
      <4>4. pipe["down"] \o SendBytes(v) = pipe["down"]
        <5>1. SendBytes(v) = <<>>
          BY <2>3, <3>1, EmptySeq
        <5> QED
          BY <2>2, <5>1, ConcatEmptySeq
      <4>5. DirOK(recv_buffer["down"], pipe["down"], Rewind(v), sent["down"], parsed["down"], FALSE)
        BY <4>3 DEF Streams, At, DirOK, Queued, VectorOK
      <4> QED
        BY <1>1, <2>1, <3>1, <4>2, <4>4, <4>5 DEF At
    <3>2. CASE UseSize(v) # 0
      <4>1. UseSize(v) \in 1 .. UseSize(v)
        BY <2>3, <3>2
      <4>2. SubSeq(SendBytes(v), 1, UseSize(v)) = SendBytes(v)
        BY <2>3, SubSeqFull
      <4>3. DirOK(recv_buffer["down"], pipe["down"] \o SubSeq(SendBytes(v), 1, UseSize(v)),
                  Rewind(MoveReadHead(v, UseSize(v))), sent["down"], parsed["down"], FALSE)
        BY <4>1, DirSend DEF Streams, At
      <4> QED
        BY <1>1, <2>1, <4>2, <4>3 DEF At
    <3> QED
      BY <3>1, <3>2
  <2>5. Streams' /\ Shapes'
    BY <1>1, <2>1, <2>4, AtSame DEF Streams, Shapes, clientVars
  <2> QED
    BY <1>2, <2>5
<1> QED
  BY <1>3, <1>4 DEF Send

\* A packet is put downward, or the server crashes: what is left to show of an
\* action that does one of the two.
LEMMA PutOrCrash ==
  ASSUME WireInv, NEW k \in Kinds,
         \/ PreSend("down", k, Fresh("down", k))
         \/ UNCHANGED <<send_buffer, sent>>,
         UNCHANGED <<recv_buffer, pipe, parsed, inner_packet, clientVars>>
  PROVE  Streams' /\ Shapes' /\ RequestsUp' /\ InnerEmpty'
<1> USE DEF WireInv
<1>1. InnerEmpty'
  BY DEF InnerEmpty
<1>2. CASE PreSend("down", k, Fresh("down", k))
  BY <1>1, <1>2, PutDown DEF Streams, clientVars
<1>3. CASE UNCHANGED <<send_buffer, sent>>
  BY <1>1, <1>3, AtSame DEF Streams, Shapes, RequestsUp, clientVars
<1> QED
  BY <1>2, <1>3

LEMMA OthersStoneInv ==
  ASSUME WireInv, OthersStone
  PROVE  WireInv'
<1> USE DEF WireInv
<1>1. /\ pc = "others" /\ pc' \in {"others", "crashed"} /\ over' \in {over, TRUE}
      /\ \/ PreSend("down", "DROP_STONE_RESPONSE", Fresh("down", "DROP_STONE_RESPONSE"))
         \/ UNCHANGED <<send_buffer, sent>>
      /\ UNCHANGED <<recv_buffer, pipe, parsed, inner_packet, wset, clientVars, timerVars>>
  BY DEF OthersStone, NoRoom
<1>2. "DROP_STONE_RESPONSE" \in Kinds
  BY DEF Kinds
<1>3. Streams' /\ Shapes' /\ RequestsUp' /\ InnerEmpty'
  BY <1>1, <1>2, PutOrCrash
<1>4. Rooms' /\ Scalars' /\ Timer'
  BY <1>1 DEF Rooms, Scalars, PCs, Timer, clientVars, timerVars
<1> QED
  BY <1>3, <1>4

LEMMA UpdateTimerInv ==
  ASSUME WireInv, UpdateTimer
  PROVE  WireInv'
<1> USE DEF WireInv
<1>1. /\ pc = "others" /\ pc' \in {"over", "crashed"}
      /\ timer_event' = timer_event \/ (timer_event > 0 /\ timer_event' = timer_event - 1)
      /\ \/ PreSend("down", "NOTIFY_SERVER_TIME", Fresh("down", "NOTIFY_SERVER_TIME"))
         \/ UNCHANGED <<send_buffer, sent>>
      /\ UNCHANGED <<recv_buffer, pipe, parsed, inner_packet, wset, over, clientVars,
                     ticks, since, overslept, owed>>
  BY DEF UpdateTimer, NoRoom
<1>2. "NOTIFY_SERVER_TIME" \in Kinds
  BY DEF Kinds
<1>3. Streams' /\ Shapes' /\ RequestsUp' /\ InnerEmpty'
  BY <1>1, <1>2, PutOrCrash
<1>4. Rooms' /\ Scalars'
  BY <1>1 DEF Rooms, Scalars, PCs, clientVars
<1>5. Timer'
  BY <1>1 DEF Timer
<1> QED
  BY <1>3, <1>4, <1>5

LEMMA UpdateOverInv ==
  ASSUME WireInv, UpdateOver
  PROVE  WireInv'
<1> USE DEF WireInv
<1>1. /\ pc = "over" /\ pc' \in {"select", "crashed"} /\ over' \in {over, FALSE}
      /\ \/ PreSend("down", "NOTIFY_GAME_RESULT", Fresh("down", "NOTIFY_GAME_RESULT"))
         \/ UNCHANGED <<send_buffer, sent>>
      /\ UNCHANGED <<recv_buffer, pipe, parsed, inner_packet, wset, clientVars, timerVars>>
  BY DEF UpdateOver, NoRoom
<1>2. "NOTIFY_GAME_RESULT" \in Kinds
  BY DEF Kinds
<1>3. Streams' /\ Shapes' /\ RequestsUp' /\ InnerEmpty'
  BY <1>1, <1>2, PutOrCrash
<1>4. Rooms' /\ Scalars' /\ Timer'
  BY <1>1 DEF Rooms, Scalars, PCs, Timer, clientVars, timerVars
<1> QED
  BY <1>3, <1>4

LEMMA TimerThreadInv ==
  ASSUME WireInv, NEW nap \in Naps, TimerThread(nap)
  PROVE  WireInv'
<1> USE DEF WireInv
<1>1. UNCHANGED <<bufferVars, serverVars, clientVars>>
  BY DEF TimerThread, Sleep
<1>2. Streams' /\ Shapes' /\ RequestsUp' /\ InnerEmpty' /\ Rooms' /\ Scalars'
  BY <1>1, AtSame
  DEF bufferVars, serverVars, clientVars, Streams, Shapes, RequestsUp, InnerEmpty, Rooms, Scalars
<1>3. nap \in Nat /\ Second \in Nat /\ MaxTicks \in Nat
  BY ClockAssumption
<1>4. ticks' \in 0 .. MaxTicks
  BY <1>3 DEF TimerThread, Sleep, Timer
<1>5. timer_event' \in Nat /\ since' \in 0 .. Second + 1
  BY <1>3 DEF TimerThread, Timer
<1>6. overslept' \in BOOLEAN /\ owed' \in Nat
  BY DEF TimerThread, Sleep, Timer
<1> QED
  BY <1>2, <1>4, <1>5, <1>6 DEF Timer

LEMMA ClickCrashesInv ==
  ASSUME WireInv, ClickCrashes
  PROVE  WireInv'
<1> USE DEF WireInv
<1>1. /\ cpc = "frame" /\ cpc' = "crashed"
      /\ UNCHANGED <<send_buffer, sent, recv_buffer, pipe, parsed, inner_packet, serverVars,
                     failed, timerVars>>
  BY DEF ClickCrashes, NoRoom
<1>2. Streams' /\ Shapes' /\ RequestsUp' /\ InnerEmpty'
  BY <1>1, AtSame DEF serverVars, Streams, Shapes, RequestsUp, InnerEmpty
<1>3. Rooms' /\ Scalars' /\ Timer'
  BY <1>1 DEF serverVars, timerVars, Rooms, Scalars, ClientPCs, Timer
<1> QED
  BY <1>2, <1>3

\* A frame: a request may be written upward, and bytes come from below.
LEMMA FrameInv ==
  ASSUME WireInv, Frame
  PROVE  WireInv'
<1> USE DEF WireInv
<1>1. /\ cpc = "frame" /\ ~failed /\ At("up", FALSE) /\ At("down", FALSE)
      /\ UNCHANGED <<parsed, inner_packet, serverVars, failed, timerVars>>
  BY DEF Frame, Scalars, Streams
<1>2. /\ recv_buffer'["up"] = recv_buffer["up"] /\ pipe'["up"] = pipe["up"]
      /\ IsFun(recv_buffer') /\ IsFun(pipe')
  <2>1. CASE Receive("down")
    <3>1. PICK n \in 1 .. RecvLimit("down") :
            /\ recv_buffer' = [recv_buffer EXCEPT !["down"] =
                                 WriteBytes(recv_buffer["down"], SubSeq(pipe["down"], 1, n))]
            /\ pipe' = [pipe EXCEPT !["down"] = SubSeq(pipe["down"], n + 1, Len(pipe["down"]))]
      BY <2>1 DEF Receive
    <3> QED
      BY <3>1 DEF Shapes, IsFun, Dirs
  <2>2. CASE UNCHANGED <<recv_buffer, pipe>>
    BY <2>2 DEF Shapes
  <2> QED
    BY <2>1, <2>2 DEF Frame
<1>3. /\ At("up", FALSE)' /\ RequestsUp' /\ IsFun(send_buffer') /\ IsFun(sent')
      /\ send_buffer'["down"] = send_buffer["down"] /\ sent'["down"] = sent["down"]
  <2>1. CASE UNCHANGED <<send_buffer, sent>>
    BY <1>1, <1>2, <2>1, AtSame DEF Shapes, RequestsUp
  <2>2. CASE PreSend("up", "DROP_STONE_REQUEST", Fresh("up", "DROP_STONE_REQUEST"))
    <3>1. "up" \in Dirs /\ "DROP_STONE_REQUEST" \in Kinds /\ parsed'["up"] = parsed["up"]
      BY <1>1 DEF Dirs, Kinds
    <3>2. /\ At("up", FALSE)' /\ IsFun(send_buffer') /\ IsFun(sent')
          /\ sent'["up"]
               = Append(sent["up"], [kind |-> "DROP_STONE_REQUEST", start |-> NextByte("up")])
          /\ \A e \in Dirs \ {"up"} : send_buffer'[e] = send_buffer[e] /\ sent'[e] = sent[e]
      BY <1>1, <1>2, <2>2, <3>1, AtPut
    <3>3. RequestsUp'
      BY <1>1, <3>2, RequestAppended
    <3> QED
      BY <3>2, <3>3 DEF Dirs
  <2> QED
    BY <2>1, <2>2 DEF Frame, ClicksInFrame
<1>4. At("up", TRUE)'
  BY <1>3 DEF At, DirOK
<1>5. At("down", FALSE)'
  <2>1. CASE Receive("down")
    <3>1. "down" \in Dirs /\ At("down", TRUE) /\ parsed'["down"] = parsed["down"]
      BY <1>1 DEF Dirs, At, DirOK
    <3> QED
      BY <1>1, <1>3, <2>1, <3>1, AtReceive
  <2>2. CASE UNCHANGED <<recv_buffer, pipe>>
    BY <1>1, <1>3, <2>2, AtSame
  <2> QED
    BY <2>1, <2>2 DEF Frame
<1>6. Streams' /\ Shapes'
  BY <1>1, <1>2, <1>3, <1>4, <1>5 DEF Streams, Shapes
<1>7. InnerEmpty' /\ Timer'
  BY <1>1 DEF InnerEmpty, Timer, timerVars
<1>8. Rooms'
  BY <1>1, <1>2 DEF Frame, Rooms, serverVars
<1>9. Scalars'
  BY <1>1 DEF Frame, Scalars, ClientPCs, serverVars
<1> QED
  BY <1>3, <1>6, <1>7, <1>8, <1>9

LEMMA ClientParseEndsInv ==
  ASSUME WireInv, ClientParseEnds
  PROVE  WireInv'
<1> USE DEF WireInv
<1>1. /\ cpc = "parse" /\ cpc' = "send" /\ Incomplete("down")
      /\ recv_buffer' = [recv_buffer EXCEPT !["down"] = Rewind(recv_buffer["down"])]
      /\ UNCHANGED <<send_buffer, pipe, sent, parsed, inner_packet, serverVars, failed, timerVars>>
  BY DEF ClientParseEnds
<1>2. InnerEmpty' /\ Timer' /\ RequestsUp'
  BY <1>1 DEF InnerEmpty, Timer, timerVars, RequestsUp
<1>3. At("down", TRUE)
  BY DEF Streams, At, DirOK
<1>4. /\ At("down", FALSE)' /\ IsFun(recv_buffer')
      /\ \A e \in Dirs \ {"down"} : recv_buffer'[e] = recv_buffer[e]
      /\ Len(recv_buffer'["down"].bytes) < CAPACITY
  BY <1>1, <1>3, AtRewind DEF Streams, Dirs
<1>5. recv_buffer'["up"] = recv_buffer["up"]
  BY <1>4 DEF Dirs
<1>6. Streams' /\ Shapes'
  BY <1>1, <1>4, <1>5, AtSame DEF Streams, Shapes
<1>7. Rooms' /\ Scalars'
  BY <1>1, <1>4, <1>5 DEF Rooms, Scalars, ClientPCs, serverVars
<1> QED
  BY <1>2, <1>6, <1>7

\* A packet the client has copied out of its buffer holds what is read of it.
LEMMA ClientPacketHolds ==
  ASSUME NEW k \in Kinds
  PROVE  PacketHolds(PacketWrite(NewPacket, Foreign(Length(k))), ReadSize(k))
<1>1. Length(k) \in Nat /\ ReadSize(k) \in Nat /\ ReadSize(k) <= Length(k)
  BY Sizes
<1>2. PacketOK(NewPacket)
  <2>1. <<>> \in Seq(Nat) /\ Len(<<>>) = 0
    BY EmptySeq
  <2> QED
    BY <2>1, SegmentAssumption DEF NewPacket, PacketOK
<1>3. Foreign(Length(k)) \in Seq(Nat) /\ Len(Foreign(Length(k))) = Length(k)
  BY <1>1, FunctionIsSeq DEF Foreign, Junk
<1> DEFINE packet == PacketWrite(NewPacket, Foreign(Length(k)))
<1>4. /\ packet.buffer = NewPacket.buffer \o Foreign(Length(k))
      /\ packet.read_head = NewPacket.read_head
  BY <1>2, <1>3, WriteFits
<1> HIDE DEF packet
<1>5. NewPacket.buffer = <<>> /\ NewPacket.read_head = 0
  BY DEF NewPacket
<1>6. packet.buffer = Foreign(Length(k)) /\ packet.read_head = 0
  BY <1>3, <1>4, <1>5, ConcatEmptySeq
<1>7. PacketHolds(packet, ReadSize(k))
  BY <1>1, <1>3, <1>6 DEF PacketHolds
<1> QED
  BY <1>7 DEF packet

LEMMA ClientParsePacketInv ==
  ASSUME WireInv, NEW n \in DOMAIN sent["down"], ClientParsePacket(n)
  PROVE  WireInv'
<1> USE DEF WireInv
<1> DEFINE k == sent["down"][n].kind
<1>1. /\ cpc = "parse" /\ Complete("down", n)
      /\ UNCHANGED <<send_buffer, pipe, sent, inner_packet, serverVars, failed, timerVars>>
  BY DEF ClientParsePacket
<1>2. At("down", TRUE) /\ "down" \in Dirs
  BY DEF Streams, At, DirOK, Dirs
<1>3. k \in Kinds
  BY <1>1, <1>2, AtParse
<1>4. /\ parsed' = [parsed EXCEPT !["down"] = Append(parsed["down"], k)]
      /\ recv_buffer' = [recv_buffer EXCEPT !["down"] = MoveReadHead(recv_buffer["down"], Length(k))]
      /\ UNCHANGED cpc
  BY <1>3, ClientPacketHolds DEF ClientParsePacket
<1>5. /\ At("down", FALSE)' /\ IsFun(recv_buffer') /\ IsFun(parsed')
      /\ \A e \in Dirs \ {"down"} : recv_buffer'[e] = recv_buffer[e] /\ parsed'[e] = parsed[e]
  BY <1>1, <1>2, <1>4, AtParse DEF Streams
<1>6. recv_buffer'["up"] = recv_buffer["up"] /\ parsed'["up"] = parsed["up"]
  BY <1>5 DEF Dirs
<1>7. Streams' /\ Shapes'
  BY <1>1, <1>5, <1>6, AtSame DEF Streams, Shapes
<1>8. Rooms' /\ Scalars'
  BY <1>1, <1>4, <1>6 DEF Rooms, Scalars, serverVars
<1>9. InnerEmpty' /\ Timer' /\ RequestsUp'
  BY <1>1 DEF InnerEmpty, Timer, timerVars, RequestsUp
<1> QED
  BY <1>7, <1>8, <1>9

\* A non-blocking send() takes some of the buffer, or fails.
LEMMA ClientSendInv ==
  ASSUME WireInv, ClientSend
  PROVE  WireInv'
<1> USE DEF WireInv
<1> DEFINE v == send_buffer["up"]
           room == Window - Len(pipe["up"])
<1>1. /\ cpc = "send" /\ ~failed /\ At("up", FALSE)
      /\ UNCHANGED <<recv_buffer, sent, parsed, inner_packet, serverVars, timerVars>>
  BY DEF ClientSend, Scalars, Streams
<1>2. InnerEmpty' /\ Timer' /\ RequestsUp'
  BY <1>1 DEF InnerEmpty, Timer, timerVars, RequestsUp
<1>3. CASE cpc' = "frame" /\ UNCHANGED <<pipe, send_buffer, failed>>
  <2>1. Streams' /\ Shapes'
    BY <1>1, <1>3, AtSame DEF Streams, Shapes
  <2>2. Rooms' /\ Scalars'
    BY <1>1, <1>3 DEF Rooms, Scalars, ClientPCs, serverVars
  <2> QED
    BY <1>2, <2>1, <2>2
<1>4. ASSUME NEW n \in 1 .. Smaller(UseSize(v), room),
             pipe' = [pipe EXCEPT !["up"] = pipe["up"] \o SubSeq(SendBytes(v), 1, n)],
             send_buffer' = [send_buffer EXCEPT !["up"] = Rewind(MoveReadHead(v, n))],
             cpc' = "frame", UNCHANGED failed
      PROVE  WireInv'
  <2>1. /\ IsFun(pipe') /\ IsFun(send_buffer')
        /\ pipe'["up"] = pipe["up"] \o SubSeq(SendBytes(v), 1, n)
        /\ pipe'["down"] = pipe["down"]
        /\ send_buffer'["up"] = Rewind(MoveReadHead(v, n))
        /\ send_buffer'["down"] = send_buffer["down"]
    BY <1>4 DEF Shapes, IsFun, Dirs
  <2>2. n \in 1 .. UseSize(v)
    <3>1. UseSize(v) \in Nat /\ room \in Int
      <4>1. VectorOK(v) /\ Len(pipe["up"]) \in Nat
        BY <1>1, LenProperties DEF At, DirOK, Queued, VectorOK
      <4> QED
        BY <4>1, VectorSizes, WindowAssumption
    <3> HIDE DEF room, v
    <3> QED
      BY <1>4, <3>1 DEF Smaller
  <2>3. At("up", FALSE)'
    <3>1. DirOK(recv_buffer["up"], pipe["up"] \o SubSeq(SendBytes(v), 1, n),
                Rewind(MoveReadHead(v, n)), sent["up"], parsed["up"], FALSE)
      BY <1>1, <2>2, DirSend DEF At
    <3> QED
      BY <1>1, <2>1, <3>1 DEF At
  <2>4. At("up", TRUE)'
    BY <2>3 DEF At, DirOK
  <2>5. Streams' /\ Shapes'
    BY <1>1, <2>1, <2>3, <2>4, AtSame DEF Streams, Shapes
  <2>6. Rooms' /\ Scalars'
    BY <1>1, <1>4 DEF Rooms, Scalars, ClientPCs, serverVars
  <2> QED
    BY <1>2, <2>5, <2>6
<1>5. CASE /\ send_buffer' = [send_buffer EXCEPT !["up"] = Rewind(MoveReadHead(v, -1))]
           /\ cpc' = "spoiled" /\ failed' = TRUE /\ UNCHANGED pipe
  <2>1. /\ IsFun(send_buffer') /\ send_buffer'["up"] = Rewind(MoveReadHead(v, -1))
        /\ send_buffer'["down"] = send_buffer["down"]
    BY <1>5 DEF Shapes, IsFun, Dirs
  <2>2. At("up", TRUE)'
    <3>1. DirOK(recv_buffer["up"], pipe["up"], Rewind(MoveReadHead(v, -1)),
                sent["up"], parsed["up"], TRUE)
      BY <1>1, DirFail DEF At
    <3> QED
      BY <1>1, <1>5, <2>1, <3>1 DEF At
  <2>3. Streams' /\ Shapes'
    BY <1>1, <1>5, <2>1, <2>2, AtSame DEF Streams, Shapes
  <2>4. Rooms' /\ Scalars'
    BY <1>1, <1>5 DEF Rooms, Scalars, ClientPCs, serverVars
  <2> QED
    BY <1>2, <2>3, <2>4
<1> QED
  BY <1>3, <1>4, <1>5 DEF ClientSend

-----------------------------------------------------------------------------
(* The invariant holds *)

\* A connection nothing has been written to.
LEMMA DirFresh == DirOK(EmptyVector, <<>>, EmptyVector, <<>>, <<>>, FALSE)
<1>1. /\ EmptyVector.bytes = <<>> /\ EmptyVector.read_head = 0 /\ Len(<<>>) = 0
      /\ \A S : <<>> \in Seq(S)
  BY EmptySeq DEF EmptyVector
<1>2. VectorOK(EmptyVector)
  BY <1>1, CapacityAssumption DEF VectorOK, VectorHolds, EmptyVector, Vectors
<1>3. UseSize(EmptyVector) = 0 /\ Unused(EmptyVector) \in Seq(Nat) /\ Len(Unused(EmptyVector)) = 0
  BY <1>1, <1>2, VectorSizes DEF UseSize
<1>4. SentOK(<<>>)
  BY <1>1 DEF SentOK
<1>5. End(<<>>) = 1 /\ Due(<<>>, <<>>) = 1
  BY <1>1 DEF End, Due, Start
<1>6. Delivered(EmptyVector, <<>>, <<>>, <<>>)
  BY <1>1, <1>3, <1>5 DEF Delivered, RunsFrom
<1>7. Queued(EmptyVector, <<>>, EmptyVector, <<>>, <<>>)
  BY <1>1, <1>2, <1>3, <1>5 DEF Queued, RunsFrom, VectorOK
<1> QED
  BY <1>1, <1>2, <1>4, <1>6, <1>7 DEF DirOK, VectorOK

LEMMA InitInv == Init => WireInv
<1> SUFFICES ASSUME Init PROVE WireInv
  OBVIOUS
<1> DEFINE k == "ASSIGN_STONE"
           bytes == [i \in 1 .. Written(k) |-> i]
<1>1. Shapes
  BY DEF Init, Shapes, IsFun, Dirs
<1>2. At("up", FALSE)
  BY DirFresh DEF Init, At, Dirs
<1>3. At("up", TRUE)
  BY <1>2 DEF At, DirOK
<1>4. At("down", FALSE)
  <2>1. End(<<>>) = 1 /\ k \in Kinds
    BY DEF End, Kinds
  <2>2. Written(k) \in Nat /\ Written(k) < CAPACITY
    BY <2>1, Sizes
  <2>3. bytes = [i \in 1 .. Written(k) |-> End(<<>>) + i - 1]
    BY <2>1, <2>2
  <2>4. Len(bytes) = Written(k)
    BY <2>2, FunctionIsSeq
  <2>5. BufferSize(EmptyVector) = CAPACITY
    BY EmptySeq, CapacityAssumption DEF BufferSize, EmptyVector
  <2>6. Len(bytes) <= BufferSize(EmptyVector)
    BY <2>2, <2>4, <2>5, CapacityAssumption
  <2> HIDE DEF bytes
  <2>7. DirOK(EmptyVector, <<>>, WriteBytes(EmptyVector, bytes),
              Append(<<>>, [kind |-> k, start |-> End(<<>>)]), <<>>, FALSE)
    BY <2>1, <2>3, <2>6, DirFresh, DirPut
  <2>8. Append(<<>>, [kind |-> k, start |-> End(<<>>)]) = <<[kind |-> k, start |-> 1]>>
    BY <2>1
  <2> QED
    BY <2>7, <2>8 DEF Init, At, Dirs, bytes
<1>5. RequestsUp
  BY DEF Init, RequestsUp
<1>6. InnerEmpty
  <2>1. <<>> \in Seq(Nat) /\ Len(<<>>) = 0
    BY EmptySeq
  <2> QED
    BY <2>1, SegmentAssumption DEF Init, InnerEmpty, NewPacket, PacketOK
<1>7. Rooms
  <2>1. recv_buffer["up"].bytes = <<>> /\ recv_buffer["down"].bytes = <<>> /\ Len(<<>>) = 0
    BY EmptySeq DEF Init, EmptyVector, Dirs
  <2> QED
    BY <2>1, CapacityAssumption DEF Rooms
<1>8. Scalars
  BY DEF Init, Scalars, PCs, ClientPCs
<1>9. Timer
  <2>1. timer_event \in LeftOver /\ owed = timer_event /\ ticks = 0 /\ since = 0 /\ overslept = FALSE
    BY DEF Init
  <2>2. MaxTicks \in Nat /\ Second \in Nat
    BY ClockAssumption
  <2>3. timer_event \in Nat /\ owed \in Nat /\ ticks \in 0 .. MaxTicks /\ since \in 0 .. Second + 1
    BY <2>1, <2>2, ClockAssumption
  <2>4. overslept \in BOOLEAN
    BY <2>1
  <2> QED
    BY <2>3, <2>4 DEF Timer
<1> QED
  BY <1>1, <1>2, <1>3, <1>4, <1>5, <1>6, <1>7, <1>8, <1>9 DEF WireInv, Streams

LEMMA NextInv == WireInv /\ [Next]_vars => WireInv'
<1> SUFFICES ASSUME WireInv, [Next]_vars PROVE WireInv'
  OBVIOUS
<1>1. CASE Next
  <2>1. CASE ServerPass
    BY <2>1, SelectRecvInv, ParseEndsInv, SendInv, UpdateTimerInv, UpdateOverInv, ParseRequestInv
    DEF ServerPass
  <2>2. CASE OthersStone
    BY <2>2, OthersStoneInv
  <2>3. CASE ClientFrame
    BY <2>3, FrameInv, ClientParseEndsInv, ClientSendInv, ClientParsePacketInv DEF ClientFrame
  <2>4. CASE ClickCrashes
    BY <2>4, ClickCrashesInv
  <2>5. CASE \E nap \in Naps : TimerThread(nap)
    BY <2>5, TimerThreadInv
  <2> QED
    BY <1>1, <2>1, <2>2, <2>3, <2>4, <2>5 DEF Next
<1>2. CASE UNCHANGED vars
  BY <1>2, AtSame DEF vars, bufferVars, serverVars, clientVars, timerVars, WireInv, Shapes, Streams,
                      RequestsUp, InnerEmpty, Rooms, Scalars, Timer
<1> QED
  BY <1>1, <1>2

\* The inductive invariant.
LEMMA Invariance == Spec => []WireInv
BY InitInv, NextInv, PTL DEF Spec

-----------------------------------------------------------------------------
(* What follows from it *)

\* Type correctness: all buffers, packets, program counters and clocks.
THEOREM WireTypes == Spec => []WireTypeOK
<1>1. WireInv => WireTypeOK
  <2> SUFFICES ASSUME WireInv PROVE WireTypeOK
    OBVIOUS
  <2>1. \A d \in Dirs : /\ send_buffer[d] \in Vectors /\ recv_buffer[d] \in Vectors
                        /\ pipe[d] \in Seq(Nat) /\ parsed[d] \in Seq(Kinds)
                        /\ sent[d] \in Seq([kind : Kinds, start : Nat \ {0}])
    BY DEF WireInv, Streams, At, DirOK, SentOK, VectorOK, Dirs
  <2>2. /\ send_buffer \in [Dirs -> Vectors] /\ recv_buffer \in [Dirs -> Vectors]
        /\ pipe \in [Dirs -> Seq(Nat)] /\ parsed \in [Dirs -> Seq(Kinds)]
        /\ sent \in [Dirs -> Seq([kind : Kinds, start : Nat \ {0}])]
    BY <2>1 DEF WireInv, Shapes, IsFun
  <2>3. inner_packet \in [buffer : Seq(Nat), payload_capacity : Nat, read_head : Nat]
    BY DEF WireInv, InnerEmpty, PacketOK
  <2> QED
    BY <2>2, <2>3 DEF WireInv, Scalars, Timer, WireTypeOK
<1> QED
  BY <1>1, Invariance, PTL

\* No byte is written behind the end of a buffer: neither by write(), nor by
\* recv(), which goes past its check; and no head leaves what was written.
THEOREM BuffersSafe == Spec => []BuffersHold
<1>1. WireInv => BuffersHold
  BY DEF WireInv, Streams, At, DirOK, Queued, VectorOK, BuffersHold, Dirs
<1> QED
  BY <1>1, Invariance, PTL

\* However the stream is cut up by recv() and send(), what is under way is
\* the packets that have not been taken out, whole and in order.
THEOREM StreamSafe == Spec => []StreamIntact
<1>1. WireInv => StreamIntact
  <2> SUFFICES ASSUME WireInv, NEW d \in Dirs, d = "up" => ~failed
               PROVE  LET from == StartOf(d, Len(parsed[d]) + 1)
                      IN  InTransit(d) = [i \in 1 .. NextByte(d) - from |-> from + i - 1]
    BY DEF StreamIntact
  <2>1. At(d, FALSE)
    BY DEF WireInv, Streams, Dirs
  <2>2. NextByte(d) = End(sent[d])
    BY DEF NextByte, End
  <2>3. StartOf(d, Len(parsed[d]) + 1) = Due(sent[d], parsed[d])
    BY <2>2 DEF StartOf, Due, Start
  <2>4. InTransit(d) = Unused(recv_buffer[d]) \o pipe[d] \o Unused(send_buffer[d])
    BY DEF InTransit, Unused
  <2>5. Unused(recv_buffer[d]) \o pipe[d] \o Unused(send_buffer[d])
          = Stretch(Due(sent[d], parsed[d]), End(sent[d]))
    BY <2>1, DirIntact DEF At
  <2> QED
    BY <2>2, <2>3, <2>4, <2>5 DEF Stretch
<1> QED
  BY <1>1, Invariance, PTL

\* What is taken for a header is one: the lengths the headers carry are those
\* of the packets, on both sides and for every kind.
THEOREM FramingSafe == Spec => []FramingKept
<1>1. ASSUME NEW d \in Dirs, NEW spoiled, At(d, spoiled), HeaderInside(d)
      PROVE  HeadersAt(d) # {}
  <2>1. /\ Len(parsed[d]) + 1 \in DOMAIN sent[d]
        /\ Peek(recv_buffer[d], HeaderSize) = Header(Due(sent[d], parsed[d]))
    BY <1>1, DirHeader DEF At, HeaderInside
  <2>2. Due(sent[d], parsed[d]) = sent[d][Len(parsed[d]) + 1].start
    BY <2>1 DEF Due, Start
  <2>3. Len(parsed[d]) + 1 \in HeadersAt(d)
    BY <2>1, <2>2 DEF HeadersAt, Header
  <2> QED
    BY <2>3
<1>2. WireInv => FramingKept
  BY <1>1 DEF WireInv, Streams, FramingKept, Dirs
<1> QED
  BY <1>2, Invariance, PTL

\* No handler of the client asks a packet for more than was sent, wherever
\* the server's size_t is at least as long as the client's.
THEOREM ReadsSafe == Spec => []ReadsFit
<1>1. WireInv => ReadsFit
  BY DEF WireInv, Scalars, ReadsFit
<1> QED
  BY <1>1, Invariance, PTL

\* recv() always has room, so that its 0 means the end of the connection.
THEOREM RoomSafe == Spec => []RecvHasRoom
<1>1. WireInv => RecvHasRoom
  <2>1. WireInv => Len(recv_buffer["up"].bytes) \in Nat /\ Len(recv_buffer["down"].bytes) \in Nat
    BY VectorSizes DEF WireInv, Streams, At, DirOK
  <2> QED
    BY <2>1, CapacityAssumption DEF WireInv, Rooms, RecvHasRoom, BufferSize
<1> QED
  BY <1>1, Invariance, PTL

-----------------------------------------------------------------------------
(* The connection is two queues of packets *)

\* The kinds of a sequence of packets.
LEMMA KindsAppend ==
  ASSUME NEW q, SentOK(q), NEW k \in Kinds
  PROVE  /\ KindsOf(q) \in Seq(Kinds) /\ Len(KindsOf(q)) = Len(q)
         /\ KindsOf(Append(q, [kind |-> k, start |-> End(q)])) = Append(KindsOf(q), k)
<1> DEFINE more == Append(q, [kind |-> k, start |-> End(q)])
<1>1. DOMAIN q = 1 .. Len(q) /\ Len(q) \in Nat /\ \A i \in 1 .. Len(q) : q[i].kind \in Kinds
  <2>1. DOMAIN q = 1 .. Len(q) /\ Len(q) \in Nat
    BY LenProperties DEF SentOK
  <2> QED
    BY <2>1, Starts
<1>2. /\ KindsOf(q) \in Seq(Kinds) /\ Len(KindsOf(q)) = Len(q)
      /\ \A i \in 1 .. Len(q) : KindsOf(q)[i] = q[i].kind
  BY <1>1, FunctionIsSeq DEF KindsOf
<1>3. /\ Len(more) = Len(q) + 1 /\ SentOK(more)
      /\ \A i \in 1 .. Len(q) : more[i] = q[i]
      /\ more[Len(q) + 1].kind = k
  BY SentAppend
<1> HIDE DEF more
<1>4. DOMAIN more = 1 .. Len(q) + 1 /\ \A i \in 1 .. Len(q) + 1 : more[i].kind \in Kinds
  <2>1. DOMAIN more = 1 .. Len(more)
    BY <1>3, LenProperties DEF SentOK
  <2> QED
    BY <1>3, <2>1, Starts
<1>5. /\ KindsOf(more) \in Seq(Kinds) /\ Len(KindsOf(more)) = Len(q) + 1
      /\ \A i \in 1 .. Len(q) + 1 : KindsOf(more)[i] = more[i].kind
  BY <1>1, <1>4, FunctionIsSeq DEF KindsOf
<1> DEFINE a == KindsOf(q)
           b == KindsOf(more)
<1> HIDE DEF a, b
<1>6. /\ Append(a, k) \in Seq(Kinds) /\ Len(Append(a, k)) = Len(q) + 1
      /\ \A i \in 1 .. Len(q) : Append(a, k)[i] = a[i]
      /\ Append(a, k)[Len(q) + 1] = k
  BY <1>2, AppendProperties DEF a
<1>7. \A i \in 1 .. Len(q) + 1 : b[i] = Append(a, k)[i]
  BY <1>1, <1>2, <1>3, <1>5, <1>6 DEF a, b
<1>8. b = Append(a, k)
  BY <1>5, <1>6, <1>7, SeqEqual DEF b
<1> QED
  BY <1>2, <1>8 DEF a, b, more

\* pre_send puts a packet into its queue.
LEMMA QueuePut ==
  ASSUME Shapes, NEW d \in Dirs, NEW spoiled, At(d, spoiled), NEW k \in Kinds, NEW bytes,
         PreSend(d, k, bytes)
  PROVE  Queue!Put(d, k)
<1>1. SentOK(sent[d]) /\ NextByte(d) = End(sent[d])
  BY DEF At, DirOK, NextByte, End
<1>2. /\ sent'[d] = Append(sent[d], [kind |-> k, start |-> End(sent[d])])
      /\ \A e \in Dirs \ {d} : sent'[e] = sent[e]
  BY <1>1 DEF PreSend, Shapes, IsFun
<1>3. KindsOf(sent'[d]) = Append(KindsOf(sent[d]), k)
  BY <1>1, <1>2, KindsAppend
<1>4. \A e \in Dirs : KindsOf(sent'[e])
        = IF e = d THEN Append(KindsOf(sent[d]), k) ELSE KindsOf(sent[e])
  BY <1>2, <1>3
<1>5. [e \in Dirs |-> KindsOf(sent'[e])]
        = [[e \in Dirs |-> KindsOf(sent[e])] EXCEPT ![d] = Append(KindsOf(sent[d]), k)]
  BY <1>4
<1> QED
  BY <1>5 DEF Queue!Put

\* Nothing is put where nothing is sent.
LEMMA QueueSame ==
  ASSUME UNCHANGED sent
  PROVE  UNCHANGED [d \in Dirs |-> KindsOf(sent[d])]
OBVIOUS

\* parse_packet takes the next packet out of its queue.
LEMMA QueueGet ==
  ASSUME Shapes, NEW d \in Dirs, At(d, TRUE), NEW n \in DOMAIN sent[d], Complete(d, n),
         parsed' = [parsed EXCEPT ![d] = Append(parsed[d], sent[d][n].kind)]
  PROVE  Queue!Get(d)
<1>1. n = Len(parsed[d]) + 1 /\ n \in 1 .. Len(sent[d]) /\ sent[d][n].kind \in Kinds
  BY AtParse
<1>2. SentOK(sent[d])
  BY DEF At, DirOK
<1>3. Len(KindsOf(sent[d])) = Len(sent[d])
  BY <1>1, <1>2, KindsAppend
<1>4. KindsOf(sent[d])[Len(parsed[d]) + 1] = sent[d][n].kind
  BY <1>1 DEF KindsOf
<1>5. Len(parsed[d]) \in Nat /\ Len(sent[d]) \in Nat
  BY <1>2, Starts, LenProperties DEF At, DirOK
<1> DEFINE put == [e \in Dirs |-> KindsOf(sent[e])]
<1>6. Len(parsed[d]) < Len(put[d]) /\ put[d][Len(parsed[d]) + 1] = sent[d][n].kind
  BY <1>1, <1>3, <1>4, <1>5
<1> QED
  BY <1>6 DEF Queue!Get

\* The connection implements two queues of whole packets: the refinement by
\* which the other modules may take it for them. (PacketVector, parse_packet
\* and pre_send of both programs, Session::process_packet)
THEOREM WireDelivers == Spec => DeliversPackets
<1> DEFINE put == [d \in Dirs |-> KindsOf(sent[d])]
<1>1. Init => Queue!Init
  <2> SUFFICES ASSUME Init PROVE Queue!Init
    OBVIOUS
  <2>1. WireInv /\ parsed = [d \in Dirs |-> <<>>]
    BY InitInv DEF Init
  <2>2. ASSUME NEW d \in Dirs
        PROVE  KindsOf(sent[d]) \in Seq(Kinds)
    <3>1. SentOK(sent[d]) /\ "ASSIGN_STONE" \in Kinds
      BY <2>1 DEF WireInv, Streams, At, DirOK, Dirs, Kinds
    <3> QED
      BY <3>1, KindsAppend
  <2> QED
    BY <2>1, <2>2 DEF Queue!Init
<1>2. ASSUME WireInv, [Next]_vars
      PROVE  [Queue!Next]_<<put, parsed>>
  <2> SUFFICES \/ Queue!Next
               \/ UNCHANGED <<put, parsed>>
    OBVIOUS
  <2>1. /\ Shapes /\ At("down", FALSE) /\ At("up", TRUE) /\ At("down", TRUE)
        /\ "up" \in Dirs /\ "down" \in Dirs
    BY <1>2 DEF WireInv, Streams, At, DirOK, Dirs
  <2>2. CASE UNCHANGED <<sent, parsed>>
    BY <2>2, QueueSame
  <2>3. ASSUME NEW d \in Dirs, NEW k \in Kinds, NEW bytes, PreSend(d, k, bytes), UNCHANGED parsed
        PROVE  Queue!Next
    <3>1. Queue!Put(d, k)
      BY <2>1, <2>3, QueuePut DEF Dirs
    <3> QED
      BY <2>3, <3>1 DEF Queue!Next
  <2>4. CASE Next
    <3>1. CASE SelectRecv \/ ParseEnds \/ Send \/ ClickCrashes \/ ClientParseEnds \/ ClientSend
      BY <2>2, <3>1 DEF SelectRecv, ParseEnds, Send, ClickCrashes, NoRoom, ClientParseEnds, ClientSend
    <3>2. CASE \E nap \in Naps : TimerThread(nap)
      BY <2>2, <3>2 DEF TimerThread, Sleep, bufferVars
    <3>3. CASE OthersStone \/ UpdateTimer \/ UpdateOver
      <4>1. UNCHANGED parsed
        BY <3>3 DEF OthersStone, UpdateTimer, UpdateOver
      <4>2. \/ UNCHANGED sent
            \/ \E k \in Kinds : PreSend("down", k, Fresh("down", k))
        BY <3>3 DEF OthersStone, UpdateTimer, UpdateOver, NoRoom, Kinds
      <4> QED
        BY <2>1, <2>2, <2>3, <4>1, <4>2
    <3>4. CASE Frame
      <4>1. "DROP_STONE_REQUEST" \in Kinds
        BY DEF Kinds
      <4> QED
        BY <2>1, <2>2, <2>3, <3>4, <4>1 DEF Frame, ClicksInFrame
    <3>5. ASSUME NEW n \in DOMAIN sent["down"], ClientParsePacket(n)
          PROVE  Queue!Next \/ UNCHANGED <<put, parsed>>
      <4>1. Complete("down", n) /\ UNCHANGED sent
        BY <3>5 DEF ClientParsePacket
      <4>2. CASE parsed' = [parsed EXCEPT !["down"] = Append(parsed["down"], sent["down"][n].kind)]
        <5>1. Queue!Get("down")
          BY <2>1, <4>1, <4>2, QueueGet
        <5> QED
          BY <2>1, <4>1, <5>1, QueueSame DEF Queue!Next
      <4>3. CASE UNCHANGED parsed
        BY <2>2, <4>1, <4>3
      <4> QED
        BY <3>5, <4>2, <4>3 DEF ClientParsePacket
    <3>6. ASSUME NEW n \in DOMAIN sent["up"], ParseRequest(n)
          PROVE  Queue!Next
      <4>1. /\ Complete("up", n)
            /\ parsed' = [parsed EXCEPT !["up"] = Append(parsed["up"], sent["up"][n].kind)]
            /\ \/ UNCHANGED sent
               \/ \E bytes : PreSend("down", "DROP_STONE_RESPONSE", bytes)
        BY <3>6 DEF ParseRequest, NoRoom
      <4>2. Queue!Get("up")
        BY <2>1, <4>1, QueueGet
      <4>3. CASE UNCHANGED sent
        BY <2>1, <4>2, <4>3, QueueSame DEF Queue!Next
      <4>4. CASE \E bytes : PreSend("down", "DROP_STONE_RESPONSE", bytes)
        <5>1. "DROP_STONE_RESPONSE" \in Kinds /\ "down" # "up"
          BY DEF Kinds
        <5>2. Queue!Put("down", "DROP_STONE_RESPONSE")
          BY <2>1, <4>4, <5>1, QueuePut
        <5> QED
          BY <2>1, <4>2, <5>1, <5>2 DEF Queue!Next
      <4> QED
        BY <4>1, <4>3, <4>4
    <3> QED
      BY <2>4, <3>1, <3>2, <3>3, <3>4, <3>5, <3>6 DEF Next, ServerPass, ClientFrame
  <2>5. CASE UNCHANGED vars
    BY <2>2, <2>5 DEF vars, bufferVars
  <2> QED
    BY <1>2, <2>4, <2>5
<1> QED
  BY <1>1, <1>2, Invariance, PTL DEF Spec, DeliversPackets, Queue!Spec

-----------------------------------------------------------------------------
(* The times the client is told *)

\* The places of the times in a sequence of packets.
TimesIn(q) == {n \in DOMAIN q : q[n].kind = "NOTIFY_SERVER_TIME"}

\* What has been taken out is what was put in.
TakenAreSent ==
  \A n \in DOMAIN parsed["down"] :
    n \in DOMAIN sent["down"] /\ parsed["down"][n] = sent["down"][n].kind

\* Every time the client is owed has been sent or is an event still to be
\* answered; and the first sleep of more than a second is also the last that
\* timer_thread_func measures.
TimesInv ==
  /\ WireInv
  /\ TakenAreSent
  /\ Cardinality(TimesIn(sent["down"])) + timer_event = owed
  /\ since = IF overslept THEN Second + 1 ELSE 0

LEMMA TimesFinite ==
  ASSUME NEW q, SentOK(q)
  PROVE  IsFiniteSet(TimesIn(q)) /\ Cardinality(TimesIn(q)) \in Nat
<1>1. DOMAIN q = 1 .. Len(q) /\ Len(q) \in Nat
  BY LenProperties DEF SentOK
<1>2. IsFiniteSet(1 .. Len(q)) /\ TimesIn(q) \in SUBSET (1 .. Len(q))
  BY <1>1, FS_Interval DEF TimesIn
<1> QED
  BY <1>2, FS_Subset, FS_CardinalityType

\* A packet more in a queue is a time more if it is one.
LEMMA TimesAppend ==
  ASSUME NEW q, SentOK(q), NEW k \in Kinds
  PROVE  LET more == Append(q, [kind |-> k, start |-> End(q)])
         IN  /\ Cardinality(TimesIn(more))
                  = Cardinality(TimesIn(q)) + (IF k = "NOTIFY_SERVER_TIME" THEN 1 ELSE 0)
             /\ \A n \in DOMAIN q : n \in DOMAIN more /\ more[n] = q[n]
<1> DEFINE more == Append(q, [kind |-> k, start |-> End(q)])
<1>1. /\ Len(more) = Len(q) + 1 /\ SentOK(more) /\ more[Len(q) + 1].kind = k
      /\ \A i \in 1 .. Len(q) : more[i] = q[i]
  BY SentAppend
<1> HIDE DEF more
<1>2. /\ DOMAIN q = 1 .. Len(q) /\ Len(q) \in Nat
      /\ DOMAIN more = 1 .. Len(q) + 1
  BY <1>1, LenProperties DEF SentOK
<1>3. \A n \in DOMAIN q : n \in DOMAIN more /\ more[n] = q[n]
  BY <1>1, <1>2
<1>4. IsFiniteSet(TimesIn(q)) /\ Cardinality(TimesIn(q)) \in Nat
  BY TimesFinite
<1>5. CASE k = "NOTIFY_SERVER_TIME"
  <2>1. TimesIn(more) = TimesIn(q) \cup {Len(q) + 1} /\ Len(q) + 1 \notin TimesIn(q)
    BY <1>1, <1>2, <1>5 DEF TimesIn
  <2> QED
    BY <1>3, <1>4, <1>5, <2>1, FS_AddElement DEF more
<1>6. CASE k # "NOTIFY_SERVER_TIME"
  <2>1. TimesIn(more) = TimesIn(q)
    BY <1>1, <1>2, <1>6 DEF TimesIn
  <2> QED
    BY <1>3, <1>4, <1>6, <2>1 DEF more
<1> QED
  BY <1>5, <1>6

\* pre_send of a packet to the client.
LEMMA TimesPut ==
  ASSUME WireInv, TakenAreSent, NEW k \in Kinds, NEW bytes, PreSend("down", k, bytes),
         parsed'["down"] = parsed["down"]
  PROVE  /\ TakenAreSent'
         /\ Cardinality(TimesIn(sent'["down"]))
              = Cardinality(TimesIn(sent["down"])) + (IF k = "NOTIFY_SERVER_TIME" THEN 1 ELSE 0)
<1>1. SentOK(sent["down"]) /\ NextByte("down") = End(sent["down"])
  BY DEF WireInv, Streams, At, DirOK, NextByte, End
<1>2. sent'["down"] = Append(sent["down"], [kind |-> k, start |-> End(sent["down"])])
  BY <1>1 DEF PreSend, WireInv, Shapes, IsFun, Dirs
<1> DEFINE more == Append(sent["down"], [kind |-> k, start |-> End(sent["down"])])
<1>3. /\ Cardinality(TimesIn(more))
           = Cardinality(TimesIn(sent["down"])) + (IF k = "NOTIFY_SERVER_TIME" THEN 1 ELSE 0)
      /\ \A n \in DOMAIN sent["down"] : n \in DOMAIN more /\ more[n] = sent["down"][n]
  BY <1>1, TimesAppend
<1>4. sent'["down"] = more
  BY <1>2
<1> HIDE DEF more
<1> QED
  BY <1>3, <1>4 DEF TakenAreSent

\* A sleep raises an event exactly when the client is owed one more time.
LEMMA SleepCounts ==
  ASSUME TimesInv, NEW nap \in Naps, TimerThread(nap)
  PROVE  TimesInv'
<1>1. WireInv' /\ UNCHANGED <<sent, parsed>>
  BY TimerThreadInv DEF TimesInv, TimerThread, Sleep, bufferVars
<1>2. /\ nap \in Nat \ {0} /\ Second \in Nat
      /\ timer_event \in Nat /\ owed \in Nat /\ overslept \in BOOLEAN
      /\ since = IF overslept THEN Second + 1 ELSE 0
      /\ overslept' = (overslept \/ nap > Second)
      /\ owed' = IF overslept' THEN owed ELSE owed + 1
  BY ClockAssumption DEF TimesInv, WireInv, Timer, TimerThread, Sleep
<1>3. \/ since + nap <= Second /\ timer_event' = timer_event + 1 /\ since' = 0
      \/ since + nap > Second /\ timer_event' = timer_event /\ since' = Second + 1
  BY DEF TimerThread
<1>4. Cardinality(TimesIn(sent["down"])) \in Nat
  BY TimesFinite DEF TimesInv, WireInv, Streams, At, DirOK
<1>5. Cardinality(TimesIn(sent["down"])) + timer_event = owed /\ TakenAreSent
  BY DEF TimesInv
<1>6. CASE overslept = TRUE
  <2>1. since = Second + 1 /\ overslept' = TRUE /\ owed' = owed
    BY <1>2, <1>6
  <2>2. ~(since + nap <= Second)
    BY <1>2, <2>1
  <2> QED
    BY <1>1, <1>2, <1>3, <1>4, <1>5, <2>1, <2>2 DEF TimesInv, TakenAreSent
<1>7. CASE overslept = FALSE /\ nap <= Second
  <2>1. since = 0 /\ ~(nap > Second)
    BY <1>2, <1>7
  <2>2. overslept' = FALSE /\ owed' = owed + 1
    BY <1>2, <1>7, <2>1
  <2>3. since + nap <= Second
    BY <1>2, <1>7, <2>1
  <2> QED
    BY <1>1, <1>2, <1>3, <1>4, <1>5, <2>2, <2>3 DEF TimesInv, TakenAreSent
<1>8. CASE overslept = FALSE /\ nap > Second
  <2>1. since = 0
    BY <1>2, <1>8
  <2>2. overslept' = TRUE /\ owed' = owed
    BY <1>2, <1>8
  <2>3. ~(since + nap <= Second)
    BY <1>2, <1>8, <2>1
  <2> QED
    BY <1>1, <1>2, <1>3, <1>4, <1>5, <2>2, <2>3 DEF TimesInv, TakenAreSent
<1>9. nap <= Second \/ nap > Second
  BY <1>2
<1>10. overslept = TRUE \/ overslept = FALSE
  BY <1>2
<1> QED
  BY <1>6, <1>7, <1>8, <1>9, <1>10

\* The network thread answers an event with a time, and with nothing else.
LEMMA TimerAnswers ==
  ASSUME TimesInv, UpdateTimer
  PROVE  TimesInv'
<1>1. WireInv' /\ UNCHANGED <<parsed, since, overslept, owed>> /\ timer_event \in Nat
  BY UpdateTimerInv DEF TimesInv, UpdateTimer, WireInv, Timer
<1>2. CASE UNCHANGED <<sent, timer_event>>
  BY <1>1, <1>2 DEF TimesInv, TakenAreSent
<1>3. CASE \E bytes : /\ PreSend("down", "NOTIFY_SERVER_TIME", bytes)
                      /\ timer_event > 0 /\ timer_event' = timer_event - 1
  <2>1. /\ TakenAreSent'
        /\ Cardinality(TimesIn(sent'["down"])) = Cardinality(TimesIn(sent["down"])) + 1
    BY <1>1, <1>3, TimesPut DEF TimesInv, Kinds
  <2>2. Cardinality(TimesIn(sent["down"])) \in Nat
    BY TimesFinite DEF TimesInv, WireInv, Streams, At, DirOK
  <2> QED
    BY <1>1, <1>3, <2>1, <2>2 DEF TimesInv
<1> QED
  BY <1>2, <1>3 DEF UpdateTimer, NoRoom

\* No other packet is a time.
LEMMA OthersAreNoTimes ==
  ASSUME TimesInv, WireInv', UNCHANGED timerVars, parsed'["down"] = parsed["down"],
         \/ sent'["down"] = sent["down"]
         \/ \E bytes : \E k \in Kinds \ {"NOTIFY_SERVER_TIME"} : PreSend("down", k, bytes)
  PROVE  TimesInv'
<1>1. CASE sent'["down"] = sent["down"]
  BY <1>1 DEF TimesInv, TakenAreSent, timerVars
<1>2. CASE \E bytes : \E k \in Kinds \ {"NOTIFY_SERVER_TIME"} : PreSend("down", k, bytes)
  <2>1. /\ TakenAreSent'
        /\ Cardinality(TimesIn(sent'["down"])) = Cardinality(TimesIn(sent["down"])) + 0
    BY <1>2, TimesPut DEF TimesInv
  <2>2. Cardinality(TimesIn(sent["down"])) \in Nat
    BY TimesFinite DEF TimesInv, WireInv, Streams, At, DirOK
  <2> QED
    BY <2>1, <2>2 DEF TimesInv, timerVars
<1> QED
  BY <1>1, <1>2

\* What the client takes out next is what was put in next.
LEMMA TakesTheNext ==
  ASSUME TimesInv, NEW n \in DOMAIN sent["down"], ClientParsePacket(n)
  PROVE  TimesInv'
<1>1. WireInv' /\ UNCHANGED <<sent, timerVars>> /\ Complete("down", n)
  BY ClientParsePacketInv DEF TimesInv, ClientParsePacket
<1>2. /\ n = Len(parsed["down"]) + 1 /\ sent["down"][n].kind \in Kinds
      /\ parsed["down"] \in Seq(Kinds)
  <2>1. Shapes /\ At("down", TRUE) /\ "down" \in Dirs
    BY DEF TimesInv, WireInv, Streams, At, DirOK, Dirs
  <2> QED
    BY <1>1, <2>1, AtParse DEF At, DirOK
<1>3. CASE parsed' = [parsed EXCEPT !["down"] = Append(parsed["down"], sent["down"][n].kind)]
  <2>1. parsed'["down"] = Append(parsed["down"], sent["down"][n].kind)
    BY <1>3 DEF TimesInv, WireInv, Shapes, IsFun, Dirs
  <2>2. \A i \in DOMAIN parsed'["down"] :
          \/ i = n /\ parsed'["down"][i] = sent["down"][n].kind
          \/ i \in DOMAIN parsed["down"] /\ parsed'["down"][i] = parsed["down"][i]
    <3> DEFINE g == parsed["down"]
               k == sent["down"][n].kind
    <3>1. /\ Append(g, k) \in Seq(Kinds) /\ Len(Append(g, k)) = Len(g) + 1
          /\ \A i \in 1 .. Len(g) : Append(g, k)[i] = g[i]
          /\ Append(g, k)[Len(g) + 1] = k
      BY <1>2, AppendProperties
    <3>2. Len(g) \in Nat /\ DOMAIN g = 1 .. Len(g) /\ DOMAIN Append(g, k) = 1 .. Len(g) + 1
      BY <1>2, <3>1, LenProperties
    <3> QED
      BY <1>2, <2>1, <3>1, <3>2
  <2>3. TakenAreSent'
    BY <1>1, <2>2 DEF TakenAreSent, TimesInv
  <2> QED
    BY <1>1, <2>3 DEF TimesInv, timerVars
<1>4. CASE UNCHANGED parsed
  BY <1>1, <1>4 DEF TimesInv, TakenAreSent, timerVars
<1> QED
  BY <1>3, <1>4 DEF ClientParsePacket

LEMMA InitTimes == Init => TimesInv
<1> SUFFICES ASSUME Init PROVE TimesInv
  OBVIOUS
<1>1. /\ WireInv /\ timer_event \in Nat /\ owed = timer_event /\ overslept = FALSE /\ since = 0
      /\ parsed["down"] = <<>> /\ sent["down"] = <<[kind |-> "ASSIGN_STONE", start |-> 1]>>
  BY InitInv, ClockAssumption DEF Init, Dirs
<1>2. TimesIn(sent["down"]) = {}
  BY <1>1 DEF TimesIn
<1>3. TakenAreSent
  BY <1>1 DEF TakenAreSent
<1>4. Cardinality(TimesIn(sent["down"])) = 0
  BY <1>2, FS_EmptySet
<1> QED
  BY <1>1, <1>3, <1>4 DEF TimesInv

LEMMA NextTimes == TimesInv /\ [Next]_vars => TimesInv'
<1> SUFFICES ASSUME TimesInv, [Next]_vars PROVE TimesInv'
  OBVIOUS
<1>1. WireInv' /\ Shapes
  BY NextInv DEF TimesInv, WireInv
<1>2. CASE SelectRecv \/ ParseEnds \/ Send \/ ClickCrashes \/ ClientParseEnds \/ ClientSend
  <2>1. UNCHANGED <<sent, parsed, timerVars>>
    BY <1>2 DEF SelectRecv, ParseEnds, Send, ClickCrashes, NoRoom, ClientParseEnds, ClientSend
  <2> QED
    BY <1>1, <2>1, OthersAreNoTimes
<1>3. CASE OthersStone \/ UpdateOver
  <2>1. UNCHANGED <<parsed, timerVars>>
    BY <1>3 DEF OthersStone, UpdateOver
  <2>2. \/ UNCHANGED sent
        \/ \E bytes : \E k \in Kinds \ {"NOTIFY_SERVER_TIME"} : PreSend("down", k, bytes)
    <3>1. \/ UNCHANGED sent
          \/ \E bytes : PreSend("down", "DROP_STONE_RESPONSE", bytes)
          \/ \E bytes : PreSend("down", "NOTIFY_GAME_RESULT", bytes)
      BY <1>3 DEF OthersStone, UpdateOver, NoRoom
    <3>2. {"DROP_STONE_RESPONSE", "NOTIFY_GAME_RESULT"} \subseteq Kinds \ {"NOTIFY_SERVER_TIME"}
      BY DEF Kinds
    <3> QED
      BY <3>1, <3>2
  <2> QED
    BY <1>1, <2>1, <2>2, OthersAreNoTimes
<1>4. ASSUME NEW n \in DOMAIN sent["up"], ParseRequest(n)
      PROVE  TimesInv'
  <2>1. /\ UNCHANGED timerVars
        /\ parsed' = [parsed EXCEPT !["up"] = Append(parsed["up"], sent["up"][n].kind)]
    BY <1>4 DEF ParseRequest
  <2>2. parsed'["down"] = parsed["down"]
    BY <1>1, <2>1 DEF Shapes, IsFun, Dirs
  <2>3. \/ UNCHANGED sent
        \/ \E bytes : \E k \in Kinds \ {"NOTIFY_SERVER_TIME"} : PreSend("down", k, bytes)
    <3>1. \/ UNCHANGED sent
          \/ \E bytes : PreSend("down", "DROP_STONE_RESPONSE", bytes)
      BY <1>4 DEF ParseRequest, NoRoom
    <3>2. "DROP_STONE_RESPONSE" \in Kinds \ {"NOTIFY_SERVER_TIME"}
      BY DEF Kinds
    <3> QED
      BY <3>1, <3>2
  <2> QED
    BY <1>1, <2>1, <2>2, <2>3, OthersAreNoTimes
<1>5. CASE Frame
  <2>1. UNCHANGED <<parsed, timerVars>>
    BY <1>5 DEF Frame
  <2>2. sent'["down"] = sent["down"]
    BY <1>1, <1>5 DEF Frame, ClicksInFrame, PreSend, Shapes, IsFun, Dirs
  <2> QED
    BY <1>1, <2>1, <2>2, OthersAreNoTimes
<1>6. CASE UNCHANGED vars
  BY <1>1, <1>6, OthersAreNoTimes DEF vars, bufferVars
<1> QED
  BY <1>2, <1>3, <1>4, <1>5, <1>6, SleepCounts, TimerAnswers, TakesTheNext
     DEF Next, ServerPass, ClientFrame

\* The client is never told more times than it is owed: for every length of
\* the sleeps and whatever timer_event started with, timer_thread_func raises
\* no event after a sleep of more than a second, and update() answers each
\* event once.
THEOREM TimesCounted == Spec => []NoTimeTooMany
<1>1. TimesInv => NoTimeTooMany
  <2> SUFFICES ASSUME TimesInv PROVE NoTimeTooMany
    OBVIOUS
  <2> DEFINE told == {n \in DOMAIN parsed["down"] : parsed["down"][n] = "NOTIFY_SERVER_TIME"}
  <2>1. IsFiniteSet(TimesIn(sent["down"])) /\ Cardinality(TimesIn(sent["down"])) \in Nat
    BY TimesFinite DEF TimesInv, WireInv, Streams, At, DirOK
  <2>2. told \in SUBSET TimesIn(sent["down"])
    BY DEF TimesInv, TakenAreSent, TimesIn
  <2>3. /\ Cardinality(told) <= Cardinality(TimesIn(sent["down"]))
        /\ Cardinality(told) \in Nat
    BY <2>1, <2>2, FS_Subset, FS_CardinalityType
  <2>4. timer_event \in Nat /\ owed \in Nat
    BY DEF TimesInv, WireInv, Timer
  <2> HIDE DEF told
  <2>5. Cardinality(told) <= owed
    BY <2>1, <2>3, <2>4 DEF TimesInv
  <2> QED
    BY <2>5 DEF NoTimeTooMany, TimesTold, told
<1> QED
  BY <1>1, InitTimes, NextTimes, PTL DEF Spec

=============================================================================
