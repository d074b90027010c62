---------------------------- MODULE PacketQueue -----------------------------
(***************************************************************************)
(* What a connection promises to the two programs: two queues of whole     *)
(* packets.  What comes out of a queue is what went in, in order, once.    *)
(* The server may answer a packet in the step that takes it out.           *)
(***************************************************************************)
EXTENDS Naturals, Sequences

CONSTANTS Dirs, Kinds

VARIABLES put, got    \* packets that went in, and came out, per direction

Init ==
  /\ put \in [Dirs -> Seq(Kinds)]
  /\ got = [d \in Dirs |-> <<>>]

Put(d, k) == put' = [put EXCEPT ![d] = Append(@, k)]

Get(d) ==
  /\ Len(got[d]) < Len(put[d])
  /\ got' = [got EXCEPT ![d] = Append(@, put[d][Len(@) + 1])]

Next ==
  \E d \in Dirs :
    \/ Get(d) /\ UNCHANGED put
    \/ \E k \in Kinds : Put(d, k) /\ UNCHANGED got
    \/ \E e \in Dirs, k \in Kinds : e # d /\ Get(d) /\ Put(e, k)

Spec == Init /\ [][Next]_<<put, got>>
=============================================================================
