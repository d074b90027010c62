---------------------------- MODULE PacketVector ----------------------------
(***************************************************************************)
(* Common/PacketVector.h: the buffer of CAPACITY bytes in front of and     *)
(* behind every socket.  v.bytes is what lies before the write head;       *)
(* v.read_head is how much of it has been used.  A byte is a number, and   *)
(* Junk stands for whatever lies in front of the allocation.               *)
(*                                                                         *)
(* read() and peek() have no callers and are left out.                     *)
(***************************************************************************)
EXTENDS Integers, Sequences

CONSTANT CAPACITY

ASSUME CapacityAssumption == CAPACITY \in Nat \ {0}

Junk == 0

EmptyVector == [bytes |-> <<>>, read_head |-> 0]

UseSize(v) == Len(v.bytes) - v.read_head    \* get_use_size

BufferSize(v) == CAPACITY - Len(v.bytes)    \* get_buffer_size

ByteAt(v, i) == IF i \in DOMAIN v.bytes THEN v.bytes[i] ELSE Junk

\* The n bytes from the read head on (get_header, and the copy made of it).
Peek(v, n) == [i \in 1 .. n |-> ByteAt(v, v.read_head + i)]

\* get_buffer and the size that goes with it in both calls of send(): it
\* starts at the first byte of the buffer, wherever the read head is.
SendBytes(v) == [i \in 1 .. UseSize(v) |-> ByteAt(v, i)]

\* write(), and recv() into get_write_buffer followed by move_write_head.
WriteBytes(v, s) == [v EXCEPT !.bytes = @ \o s]

MoveReadHead(v, n) == [v EXCEPT !.read_head = @ + n]

\* Faulty variant: the heads go back, the bytes stay where they are.
RewindInPlace(v) ==
  [bytes |-> [i \in 1 .. UseSize(v) |-> ByteAt(v, i)], read_head |-> 0]

\* What has not been used moves to the front.  (The areas of the memcpy may
\* overlap; it is taken to copy upwards, as the run-time library does.)
Rewind(v) == [bytes |-> Peek(v, UseSize(v)), read_head |-> 0]
=============================================================================
