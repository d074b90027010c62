------------------------------- MODULE Packet -------------------------------
(***************************************************************************)
(* Common/Packet.hpp: the buffer a packet is put together in and taken     *)
(* apart from.  p.buffer is what lies before the write head.  Copying,     *)
(* moving, peek and rewind have no callers and are left out.               *)
(***************************************************************************)
EXTENDS Integers, Sequences

CONSTANT kMaximumSegmentSize    \* the bytes a new packet has room for

ASSUME SegmentAssumption == kMaximumSegmentSize \in Nat \ {0}

NewPacket ==
  [buffer |-> <<>>, payload_capacity |-> kMaximumSegmentSize, read_head |-> 0]

Smaller(a, b) == IF a < b THEN a ELSE b
Larger(a, b) == IF a < b THEN b ELSE a

PacketResize(p, length) ==
  [buffer |-> SubSeq(p.buffer, 1, Smaller(length, Len(p.buffer))),
   payload_capacity |-> length,
   read_head |-> Smaller(length, p.read_head)]

PacketWrite(p, data) ==
  LET needed == Len(p.buffer) + Len(data)
      roomy == IF needed >= p.payload_capacity
               THEN PacketResize(p, Larger(2 * p.payload_capacity, needed))
               ELSE p
  IN  [roomy EXCEPT !.buffer = @ \o data]

\* read() ends the program when the packet has fewer than n bytes left.
PacketHolds(p, n) == p.read_head + n <= Len(p.buffer)

PacketRead(p, n) == [p EXCEPT !.read_head = @ + n]

\* What pre_send() takes: size() bytes from getReadBufferPtr() on.
PacketContents(p) == SubSeq(p.buffer, p.read_head + 1, Len(p.buffer))

PacketReset(p) ==
  [buffer |-> <<>>, payload_capacity |-> p.payload_capacity, read_head |-> 0]
=============================================================================
