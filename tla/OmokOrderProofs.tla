-------------------------- MODULE OmokOrderProofs ---------------------------
(***************************************************************************)
(* Proofs about the order of what OmokSystem's server tells its clients:   *)
(* all players get the same broadcasts in the same order, and no client    *)
(* is told a time before the one it knows.                                 *)
(***************************************************************************)
EXTENDS OmokReplicas, OmokPacketProofs

(***************************************************************************)
(* Ends of sequences                                                       *)
(***************************************************************************)

\* IsSuffix, by index.
Ends(s, t) == /\ Len(s) <= Len(t)
              /\ \A i \in 1..Len(s) : s[i] = t[Len(t) - Len(s) + i]

LEMMA SuffixByIndex ==
  ASSUME NEW S, NEW s \in Seq(S), NEW t \in Seq(S)
  PROVE  IsSuffix(s, t) <=> Ends(s, t)
<1> DEFINE m == Len(s)
           n == Len(t)
<1>1. m \in Nat /\ n \in Nat
  BY LenProperties
<1>2. /\ Reverse(s) \in Seq(S) /\ Len(Reverse(s)) = m
      /\ \A i \in 1..m : Reverse(s)[i] = s[m - i + 1]
  <2>1. Reverse(s) \in [1..m -> S]
    BY <1>1, ElementOfSeq DEF Reverse
  <2> QED
    BY <1>1, <2>1, SeqDef, LenProperties DEF Reverse
<1>3. /\ Reverse(t) \in Seq(S) /\ Len(Reverse(t)) = n
      /\ \A i \in 1..n : Reverse(t)[i] = t[n - i + 1]
  <2>1. Reverse(t) \in [1..n -> S]
    BY <1>1, ElementOfSeq DEF Reverse
  <2> QED
    BY <1>1, <2>1, SeqDef, LenProperties DEF Reverse
<1> HIDE DEF m, n
<1>4. IsSuffix(s, t) <=> m <= n /\ SubSeq(Reverse(s), 1, m) = SubSeq(Reverse(t), 1, m)
  BY <1>2, <1>3 DEF IsSuffix, IsPrefix
<1>5. ASSUME m <= n
      PROVE  SubSeq(Reverse(s), 1, m) = SubSeq(Reverse(t), 1, m)
               <=> \A i \in 1..m : s[m - i + 1] = t[n - i + 1]
  <2> DEFINE f == SubSeq(Reverse(s), 1, m)
             g == SubSeq(Reverse(t), 1, m)
  <2>1. /\ f = [i \in 1..m |-> f[i]] /\ \A i \in 1..m : f[i] = s[m - i + 1]
        /\ g = [i \in 1..m |-> g[i]] /\ \A i \in 1..m : g[i] = t[n - i + 1]
    BY <1>1, <1>2, <1>3, <1>5
  <2> HIDE DEF f, g
  <2>2. f = g <=> \A i \in 1..m : f[i] = g[i]
    BY <2>1
  <2>3. f = g <=> \A i \in 1..m : s[m - i + 1] = t[n - i + 1]
    BY <2>1, <2>2
  <2> QED
    BY <2>3 DEF f, g
<1>6. ASSUME m <= n
      PROVE  (\A i \in 1..m : s[m - i + 1] = t[n - i + 1])
               <=> \A i \in 1..m : s[i] = t[n - m + i]
  <2>1. ASSUME \A i \in 1..m : s[m - i + 1] = t[n - i + 1], NEW i \in 1..m
        PROVE  s[i] = t[n - m + i]
    <3>1. m - i + 1 \in 1..m /\ m - (m - i + 1) + 1 = i /\ n - (m - i + 1) + 1 = n - m + i
      BY <1>1
    <3> QED
      BY <2>1, <3>1
  <2>2. ASSUME \A i \in 1..m : s[i] = t[n - m + i], NEW i \in 1..m
        PROVE  s[m - i + 1] = t[n - i + 1]
    <3>1. m - i + 1 \in 1..m /\ n - m + (m - i + 1) = n - i + 1
      BY <1>1
    <3> QED
      BY <2>2, <3>1
  <2> QED
    BY <2>1, <2>2
<1> QED
  BY <1>4, <1>5, <1>6 DEF Ends, m, n

\* One of the two is the end of the other.
InStep(s, t) == IsSuffix(s, t) \/ IsSuffix(t, s)

LEMMA InStepByIndex ==
  ASSUME NEW S, NEW s \in Seq(S), NEW t \in Seq(S)
  PROVE  InStep(s, t) <=> Ends(s, t) \/ Ends(t, s)
BY SuffixByIndex DEF InStep

\* Nothing is the end of anything, and everything of itself.
LEMMA InStepTrivially ==
  ASSUME NEW S, NEW s \in Seq(S)
  PROVE  InStep(s, s) /\ InStep(<<>>, s) /\ InStep(s, <<>>)
<1>1. <<>> \in Seq(S) /\ Len(s) \in Nat
  BY LenProperties
<1>2. Ends(s, s) /\ Ends(<<>>, s)
  BY <1>1 DEF Ends
<1> QED
  BY <1>1, <1>2, InStepByIndex

\* What is queued for both changes nothing.
LEMMA InStepAppend ==
  ASSUME NEW S, NEW s \in Seq(S), NEW t \in Seq(S), NEW m \in S, InStep(s, t)
  PROVE  InStep(Append(s, m), Append(t, m))
<1>1. ASSUME NEW q \in Seq(S), NEW r \in Seq(S), Ends(q, r)
      PROVE  Ends(Append(q, m), Append(r, m))
  <2> DEFINE a == Append(q, m)
             b == Append(r, m)
  <2>1. /\ Len(q) \in Nat /\ Len(r) \in Nat
        /\ Len(a) = Len(q) + 1 /\ Len(b) = Len(r) + 1
        /\ \A i \in 1..Len(q) : a[i] = q[i]
        /\ \A i \in 1..Len(r) : b[i] = r[i]
        /\ a[Len(q) + 1] = m /\ b[Len(r) + 1] = m
    BY AppendProperties, LenProperties
  <2> HIDE DEF a, b
  <2>2. ASSUME NEW i \in 1..Len(a)
        PROVE  a[i] = b[Len(b) - Len(a) + i]
    <3>1. CASE i = Len(q) + 1
      <4>1. Len(b) - Len(a) + i = Len(r) + 1
        BY <2>1, <3>1
      <4> QED
        BY <2>1, <3>1, <4>1
    <3>2. CASE i \in 1..Len(q)
      <4>1. /\ Len(r) - Len(q) + i \in 1..Len(r)
            /\ Len(b) - Len(a) + i = Len(r) - Len(q) + i
        BY <1>1, <2>1, <3>2 DEF Ends
      <4> QED
        BY <1>1, <2>1, <3>2, <4>1 DEF Ends
    <3> QED
      BY <2>1, <3>1, <3>2
  <2>3. Len(a) <= Len(b)
    BY <1>1, <2>1 DEF Ends
  <2>4. Ends(a, b)
    BY <2>2, <2>3 DEF Ends
  <2> QED
    BY <2>4 DEF a, b
<1>2. Append(s, m) \in Seq(S) /\ Append(t, m) \in Seq(S)
  BY AppendProperties
<1> QED
  BY <1>1, <1>2, InStepByIndex

\* The oldest broadcast may be processed by either.
LEMMA InStepTail ==
  ASSUME NEW S, NEW s \in Seq(S), NEW t \in Seq(S), s # <<>>, InStep(s, t)
  PROVE  InStep(Tail(s), t) /\ InStep(t, Tail(s))
<1>1. /\ Len(s) \in Nat \ {0} /\ Len(t) \in Nat
      /\ Tail(s) \in Seq(S) /\ Len(Tail(s)) = Len(s) - 1
      /\ \A i \in 1..Len(Tail(s)) : Tail(s)[i] = s[i + 1]
  BY HeadTailProperties, LenProperties, EmptySeq
<1>2. CASE Ends(s, t)
  <2>1. ASSUME NEW i \in 1..Len(Tail(s))
        PROVE  Tail(s)[i] = t[Len(t) - Len(Tail(s)) + i]
    <3>1. i + 1 \in 1..Len(s) /\ Len(t) - Len(s) + (i + 1) = Len(t) - Len(Tail(s)) + i
      BY <1>1
    <3> QED
      BY <1>1, <1>2, <3>1 DEF Ends
  <2>2. Len(Tail(s)) <= Len(t)
    BY <1>1, <1>2 DEF Ends
  <2>3. Ends(Tail(s), t)
    BY <2>1, <2>2 DEF Ends
  <2> QED
    BY <1>1, <2>3, InStepByIndex
<1>3. CASE Ends(t, s) /\ Len(t) < Len(s)
  <2>1. ASSUME NEW i \in 1..Len(t)
        PROVE  t[i] = Tail(s)[Len(Tail(s)) - Len(t) + i]
    <3>1. /\ Len(Tail(s)) - Len(t) + i \in 1..Len(Tail(s))
          /\ Len(Tail(s)) - Len(t) + i + 1 = Len(s) - Len(t) + i
      BY <1>1, <1>3
    <3> QED
      BY <1>1, <1>3, <3>1 DEF Ends
  <2>2. Len(t) <= Len(Tail(s))
    BY <1>1, <1>3
  <2>3. Ends(t, Tail(s))
    BY <2>1, <2>2 DEF Ends
  <2> QED
    BY <1>1, <2>3, InStepByIndex
<1>4. Ends(t, s) /\ ~(Len(t) < Len(s)) => Ends(s, t)
  <2> SUFFICES ASSUME Ends(t, s), ~(Len(t) < Len(s)) PROVE Ends(s, t)
    OBVIOUS
  <2>1. Len(s) = Len(t)
    BY <1>1 DEF Ends
  <2> QED
    BY <1>1, <2>1 DEF Ends
<1> QED
  BY <1>2, <1>3, <1>4, InStepByIndex

(***************************************************************************)
(* What is on its way to a player                                          *)
(***************************************************************************)

\* News are no assignment.
LEMMA NewsLead ==
  ASSUME NEW q \in Seq(News), q # <<>>
  PROVE  Head(q).type # "SC_ASSIGN_STONE"
<1>1. Head(q) \in News
  BY HeadTailProperties
<1> QED
  BY <1>1 DEF News

\* Its colour and then broadcasts, or broadcasts only.
LEMMA PendingShape ==
  ASSUME PacketInv, NEW c \in Clients, Playing(c)
  PROVE  /\ Pending(c) \in Seq(ServerPackets)
         /\ \/ Leads(Pending(c)) /\ Broadcasts(c) = Tail(Pending(c))
            \/ Pending(c) \in Seq(News) /\ Broadcasts(c) = Pending(c)
         /\ Broadcasts(c) \in Seq(News)
<1>1. down[c] \in Seq(ServerPackets) /\ send_buffer[c] \in Seq(ServerPackets)
  BY DEF PacketInv, SeatInv, TypeInv, TypeOK, NetTypeOK, ServerTypeOK
<1>2. Pending(c) \in Seq(ServerPackets)
  BY <1>1, ConcatProperties DEF Pending
<1>3. CASE BeingTold(c)
  <2>1. Leads(Pending(c))
    <3>1. CASE down[c] = <<>> /\ Leads(send_buffer[c])
      BY <1>1, <3>1, ConcatEmptySeq DEF Pending
    <3>2. CASE Leads(down[c]) /\ send_buffer[c] \in Seq(News)
      BY <1>1, <3>2, LeadsConcat DEF Pending
    <3> QED
      BY <1>3, <3>1, <3>2 DEF BeingTold
  <2>2. Broadcasts(c) = Tail(Pending(c)) /\ Tail(Pending(c)) \in Seq(News)
    BY <2>1 DEF Broadcasts, Leads, Assignments
  <2> QED
    BY <1>2, <2>1, <2>2
<1>4. CASE Informed(c)
  <2>1. kick[c] = "none"
    BY SessionsAreKnown DEF PacketInv, Playing, Seated
  <2>2. down[c] \in Seq(News) /\ send_buffer[c] \in Seq(News)
    BY <1>4, <2>1 DEF Informed, Told
  <2>3. Pending(c) \in Seq(News)
    BY <2>2, ConcatProperties DEF Pending
  <2>4. Broadcasts(c) = Pending(c)
    BY <2>3, NewsLead DEF Broadcasts
  <2> QED
    BY <1>2, <2>3, <2>4
<1> QED
  BY <1>3, <1>4 DEF PacketInv, ClientInv

\* What a step queues for a client it has to process after all the rest.
LEMMA PendingGrows ==
  ASSUME PacketInv, NEW c \in Clients, NEW m \in ServerPackets,
         down'[c] = down[c], send_buffer'[c] = Append(send_buffer[c], m)
  PROVE  Pending(c)' = Append(Pending(c), m)
<1>1. down[c] \in Seq(ServerPackets) /\ send_buffer[c] \in Seq(ServerPackets)
  BY DEF PacketInv, SeatInv, TypeInv, TypeOK, NetTypeOK, ServerTypeOK
<1>2. \A s, t, u \in Seq(ServerPackets) : (s \o t) \o u = s \o (t \o u)
  BY ConcatAssociative
<1>3. <<m>> \in Seq(ServerPackets)
  OBVIOUS
<1>4. down[c] \o send_buffer[c] \in Seq(ServerPackets)
  BY <1>1, ConcatProperties
<1>5. (down[c] \o send_buffer[c]) \o <<m>> = down[c] \o (send_buffer[c] \o <<m>>)
  BY <1>1, <1>2, <1>3, Zenon
<1>6. down[c] \o Append(send_buffer[c], m) = Append(down[c] \o send_buffer[c], m)
  BY <1>1, <1>4, <1>5, AppendIsConcat
<1> QED
  BY <1>6 DEF Pending

\* send() changes nothing about what a client has to process.
LEMMA PendingSent ==
  ASSUME PacketInv, NEW c \in Clients, link[c] = "open", Transmit(c)
  PROVE  Pending(c)' = Pending(c)
<1>1. /\ send_buffer \in [Clients -> Seq(ServerPackets)]
      /\ down \in [Clients -> Seq(ServerPackets)]
  BY DEF PacketInv, SeatInv, TypeInv, TypeOK, ServerTypeOK, NetTypeOK
<1>2. down'[c] = down[c] \o send_buffer[c] /\ send_buffer'[c] = <<>>
  BY <1>1 DEF Transmit
<1>3. down[c] \o send_buffer[c] \in Seq(ServerPackets)
  BY <1>1, ConcatProperties
<1> QED
  BY <1>2, <1>3, ConcatEmptySeq DEF Pending

\* Queued behind, news are the last broadcast.
LEMMA BroadcastsGrow ==
  ASSUME PacketInv, NEW c \in Clients, Playing(c), NEW m \in News,
         down'[c] = down[c], send_buffer'[c] = Append(send_buffer[c], m)
  PROVE  Broadcasts(c)' = Append(Broadcasts(c), m)
<1>1. m \in ServerPackets
  BY NewsPackets
<1>2. Pending(c)' = Append(Pending(c), m)
  BY <1>1, PendingGrows
<1> DEFINE q == Pending(c)
<1>3. /\ q \in Seq(ServerPackets)
      /\ \/ Leads(q) /\ Broadcasts(c) = Tail(q)
         \/ q \in Seq(News) /\ Broadcasts(c) = q
  BY PendingShape
<1>4. Broadcasts(c)' = IF Append(q, m) # <<>> /\ Head(Append(q, m)).type = "SC_ASSIGN_STONE"
                       THEN Tail(Append(q, m)) ELSE Append(q, m)
  BY <1>2 DEF Broadcasts
<1> HIDE DEF q
<1>5. CASE Leads(q) /\ Broadcasts(c) = Tail(q)
  <2>1. /\ Head(Append(q, m)) = Head(q) /\ Tail(Append(q, m)) = Append(Tail(q), m)
        /\ Append(q, m) # <<>>
    BY <1>1, <1>3, <1>5, HeadTailAppend, AppendProperties DEF Leads
  <2>2. Head(q).type = "SC_ASSIGN_STONE"
    BY <1>5 DEF Leads, Assignments
  <2> QED
    BY <1>4, <1>5, <2>1, <2>2
<1>6. CASE q \in Seq(News) /\ Broadcasts(c) = q
  <2>1. Append(q, m) \in Seq(News)
    BY <1>6, AppendProperties
  <2> QED
    BY <1>4, <1>6, <2>1, NewsLead
<1> QED
  BY <1>3, <1>5, <1>6

(***************************************************************************)
(* What the players are relative to each other, after a step               *)
(***************************************************************************)

\* Nothing new and nothing read, or a player with nothing to read.
LEMMA OrderStays ==
  ASSUME PacketInv, SameOrder,
         \A c \in Clients : Playing(c)' =>
           \/ Playing(c) /\ Broadcasts(c)' = Broadcasts(c)
           \/ Broadcasts(c)' = <<>>
  PROVE  SameOrder'
<1> SUFFICES ASSUME NEW a \in Clients, NEW b \in Clients, Playing(a)', Playing(b)'
             PROVE  InStep(Broadcasts(a)', Broadcasts(b)')
  BY DEF SameOrder, InStep
<1>1. Broadcasts(a)' \in Seq(News) /\ Broadcasts(b)' \in Seq(News)
  BY PendingShape, EmptySeq
<1>2. CASE Broadcasts(a)' = <<>> \/ Broadcasts(b)' = <<>>
  BY <1>1, <1>2, InStepTrivially
<1>3. CASE /\ Playing(a) /\ Broadcasts(a)' = Broadcasts(a)
           /\ Playing(b) /\ Broadcasts(b)' = Broadcasts(b)
  BY <1>3 DEF SameOrder, InStep
<1> QED
  BY <1>2, <1>3

\* The same news for everybody who plays.
LEMMA OrderGrows ==
  ASSUME PacketInv, SameOrder, NEW m \in News,
         \A c \in Clients : Playing(c)' =>
           Playing(c) /\ Broadcasts(c)' = Append(Broadcasts(c), m)
  PROVE  SameOrder'
<1> SUFFICES ASSUME NEW a \in Clients, NEW b \in Clients, Playing(a)', Playing(b)'
             PROVE  InStep(Broadcasts(a)', Broadcasts(b)')
  BY DEF SameOrder, InStep
<1>1. Broadcasts(a) \in Seq(News) /\ Broadcasts(b) \in Seq(News)
  BY PendingShape
<1>2. InStep(Broadcasts(a), Broadcasts(b))
  BY DEF SameOrder, InStep
<1>3. InStep(Append(Broadcasts(a), m), Append(Broadcasts(b), m))
  BY <1>1, <1>2, InStepAppend
<1> QED
  BY <1>3

\* One player processes its next broadcast.
LEMMA OrderShrinks ==
  ASSUME PacketInv, SameOrder, NEW c \in Clients, Playing(c),
         Broadcasts(c) # <<>>, Broadcasts(c)' = Tail(Broadcasts(c)),
         \A d \in Clients \ {c} : Playing(d)' => Playing(d) /\ Broadcasts(d)' = Broadcasts(d)
  PROVE  SameOrder'
<1> SUFFICES ASSUME NEW a \in Clients, NEW b \in Clients, Playing(a)', Playing(b)'
             PROVE  InStep(Broadcasts(a)', Broadcasts(b)')
  BY DEF SameOrder, InStep
<1>1. Broadcasts(c) \in Seq(News)
  BY PendingShape
<1>2. CASE a = c /\ b = c
  <2>1. Tail(Broadcasts(c)) \in Seq(News)
    BY <1>1, HeadTailProperties
  <2> QED
    BY <1>2, <2>1, InStepTrivially
<1>3. ASSUME NEW d \in Clients \ {c}, Playing(d)'
      PROVE  /\ InStep(Tail(Broadcasts(c)), Broadcasts(d))
             /\ InStep(Broadcasts(d), Tail(Broadcasts(c)))
  <2>1. Playing(d) /\ Broadcasts(d) \in Seq(News)
    BY <1>3, PendingShape
  <2>2. InStep(Broadcasts(c), Broadcasts(d))
    BY <2>1 DEF SameOrder, InStep
  <2> QED
    BY <1>1, <2>1, <2>2, InStepTail
<1>4. CASE a # c /\ b # c
  BY <1>4 DEF SameOrder, InStep
<1> QED
  BY <1>2, <1>3, <1>4

(***************************************************************************)
(* Each step                                                               *)
(***************************************************************************)

\* A step that leaves the queues of the players alone.
LEMMA OrderUntouched ==
  ASSUME PacketInv, SameOrder,
         \A c \in Clients : Playing(c)' =>
           Playing(c) /\ down'[c] = down[c] /\ send_buffer'[c] = send_buffer[c]
  PROVE  SameOrder'
<1>1. ASSUME NEW c \in Clients, Playing(c)' PROVE Playing(c) /\ Broadcasts(c)' = Broadcasts(c)
  BY <1>1 DEF Broadcasts, Pending
<1> QED
  BY <1>1, OrderStays

\* The places that broadcast, and the steps that do not.
LEMMA OrderQueued ==
  ASSUME PacketInv, SameOrder,
         UNCHANGED <<clientVars, netVars, session_map>>,
         \/ send_buffer' = send_buffer
         \/ \E m \in News : Broadcast(m)
  PROVE  SameOrder'
<1>1. /\ down' = down
      /\ \A c \in Clients : Playing(c)' => Playing(c) /\ c \in session_map
  BY DEF netVars, clientVars, Playing, Seated
<1>2. CASE send_buffer' = send_buffer
  BY <1>1, <1>2, OrderUntouched
<1>3. ASSUME NEW m \in News, Broadcast(m) PROVE SameOrder'
  <2>1. ASSUME NEW c \in Clients, Playing(c)'
        PROVE  Playing(c) /\ Broadcasts(c)' = Append(Broadcasts(c), m)
    <3>1. send_buffer'[c] = Append(send_buffer[c], m) /\ down'[c] = down[c] /\ Playing(c)
      BY <1>1, <1>3, <2>1 DEF Broadcast
    <3> QED
      BY <3>1, BroadcastsGrow
  <2> QED
    BY <2>1, OrderGrows
<1> QED
  BY <1>2, <1>3

LEMMA NetworkOrder ==
  ASSUME PacketInv, SameOrder, UNCHANGED clientVars,
         Select \/ TimerThread \/ UpdateTimer \/ UpdateOver \/ Parse
  PROVE  SameOrder'
<1>1. time_tick \in Nat /\ omok.winner \in Stones
  BY DEF PacketInv, SeatInv, TypeInv, TypeOK, ServerTypeOK, Games
<1>2. UNCHANGED <<netVars, session_map>>
  BY DEF Select, TimerThread, UpdateTimer, UpdateOver, Parse, sessionVars
<1>3. send_buffer' = send_buffer \/ \E m \in News : Broadcast(m)
  <2>1. CASE Select \/ TimerThread
    BY <2>1 DEF Select, TimerThread, sessionVars
  <2>2. CASE UpdateTimer
    BY <1>1, <2>2, NewsPackets DEF UpdateTimer
  <2>3. CASE UpdateOver
    BY <1>1, <2>3, NewsPackets DEF UpdateOver
  <2>4. CASE Parse
    <3> PICK c \in Clients : c = sockets[idx]
      BY <2>4, ServedIsSeated DEF Parse, PacketInv
    <3>1. /\ recv_buffer[c] \in Seq(Requests(scene[c].myOmokStone))
          /\ recv_buffer[c] # <<>>
      BY <2>4 DEF PacketInv, ClientInv, Speaks, SeatInv, TypeInv, LoopInv, Parse
    <3>2. Head(recv_buffer[c]) \in Requests(scene[c].myOmokStone)
      BY <3>1, HeadTailProperties
    <3>3. /\ Head(recv_buffer[c]).stone \in Stones
          /\ Head(recv_buffer[c]).at \in Cells
      BY <3>2 DEF Requests, ClientPackets
    <3>4. DropResponse(Head(recv_buffer[c]).stone, Head(recv_buffer[c]).at) \in News
      BY <3>3, NewsPackets
    <3> QED
      BY <2>4, <3>4 DEF Parse, ProcessPacket
  <2> QED
    BY <2>1, <2>2, <2>3, <2>4
<1> QED
  BY <1>2, <1>3, OrderQueued

\* recv() takes players away at most.
LEMMA RecvOrder ==
  ASSUME PacketInv, SameOrder, UNCHANGED clientVars, Recv
  PROVE  SameOrder'
<1>1. send_buffer' = send_buffer /\ down' = down
  BY DEF Recv, sessionVars, netVars
<1>2. phase' = phase /\ session_map' \subseteq session_map
  BY DEF Recv, sessionVars, RemoveSession, clientVars
<1>3. \A c \in Clients : link'[c] = "open" => link[c] = "open"
  <2>1. link' = link \/ link' = [link EXCEPT ![sockets[idx]] = "closed"]
    BY DEF Recv, netVars, RemoveSocketInfo
  <2>2. link \in [Clients -> LinkStates]
    BY DEF PacketInv, SeatInv, TypeInv, TypeOK, NetTypeOK
  <2> QED
    BY <2>1, <2>2
<1> QED
  BY <1>1, <1>2, <1>3, OrderUntouched DEF Playing, Seated

\* send() moves what is queued for a player on, behind what it has to read.
LEMMA SendOrder ==
  ASSUME PacketInv, SameOrder, UNCHANGED clientVars, Send
  PROVE  SameOrder'
<1> PICK s \in Clients : s = sockets[idx]
  BY ServedIsSeated DEF Send, PacketInv
<1>1. /\ send_buffer \in [Clients -> Seq(ServerPackets)]
      /\ down \in [Clients -> Seq(ServerPackets)]
  BY DEF PacketInv, SeatInv, TypeInv, TypeOK, ServerTypeOK, NetTypeOK
<1>2. retval # "error"
  BY DEF PacketInv, SeatInv, RetvalInv, Send
<1>3. phase' = phase /\ session_map' = session_map /\ link' = link
  BY <1>2 DEF Send, Transmit, clientVars
<1>4. CASE UNCHANGED <<send_buffer, down>>
  BY <1>3, <1>4, OrderUntouched DEF Playing, Seated
<1>5. CASE Transmit(s)
  <2>1. ASSUME NEW c \in Clients, Playing(c)'
        PROVE  Playing(c) /\ Broadcasts(c)' = Broadcasts(c)
    <3>1. Playing(c) /\ link[c] = "open"
      BY <1>3, <2>1 DEF Playing, Seated
    <3>2. CASE c # s
      <4>1. send_buffer'[c] = send_buffer[c] /\ down'[c] = down[c]
        BY <1>1, <1>5, <3>2 DEF Transmit
      <4> QED
        BY <3>1, <4>1 DEF Broadcasts, Pending
    <3>3. CASE c = s
      <4>1. Pending(c)' = Pending(c)
        BY <1>5, <3>1, <3>3, PendingSent
      <4> QED
        BY <3>1, <4>1 DEF Broadcasts
    <3> QED
      BY <3>2, <3>3
  <2> QED
    BY <2>1, OrderStays
<1> QED
  BY <1>2, <1>4, <1>5 DEF Send

\* accept(): a new player begins with its colour and no broadcast.
LEMMA AcceptOrder ==
  ASSUME PacketInv, SameOrder, UNCHANGED clientVars, Accept
  PROVE  SameOrder'
<1>1. phase' = phase /\ link' = link /\ down' = down
  BY DEF Accept, clientVars
<1>2. send_buffer \in [Clients -> Seq(ServerPackets)]
  BY DEF PacketInv, SeatInv, TypeInv, TypeOK, ServerTypeOK
<1>3. CASE send_buffer' = send_buffer /\ session_map' = session_map
  BY <1>1, <1>3, OrderUntouched DEF Playing, Seated
<1>4. CASE incoming /\ Seat(Head(backlog))
  <2>1. backlog \in Seq(Clients) /\ backlog # <<>>
    BY <1>4 DEF PacketInv, SeatInv, TypeInv, TypeOK, NetTypeOK, LoopInv, Accept
  <2> PICK s \in Clients : s = Head(backlog)
    BY <2>1
  <2>2. down[s] = <<>>
    <3>1. 1 \in DOMAIN backlog /\ backlog[1] = s
      BY <2>1
    <3> QED
      BY <3>1 DEF PacketInv, ClientInv, Newcomer, Silent
  <2> DEFINE m == AssignStone(omok.current_turn)
  <2>3. /\ send_buffer' = [send_buffer EXCEPT ![s] = <<m>>]
        /\ session_map' = session_map \cup {s}
    BY <1>4 DEF Seat, AssignStoneType, InsertSession
  <2>4. ASSUME NEW c \in Clients, Playing(c)'
        PROVE  \/ Playing(c) /\ Broadcasts(c)' = Broadcasts(c)
               \/ Broadcasts(c)' = <<>>
    <3>1. CASE c = s
      <4>1. send_buffer'[c] = <<m>> /\ down'[c] = <<>>
        BY <1>1, <1>2, <2>2, <2>3, <3>1
      <4>2. <<>> \o <<m>> = <<m>>
        OBVIOUS
      <4>3. Pending(c)' = <<m>>
        BY <4>1, <4>2 DEF Pending
      <4>4. Head(<<m>>) = m /\ Tail(<<m>>) = <<>> /\ <<m>> # <<>> /\ m.type = "SC_ASSIGN_STONE"
        BY DEF AssignStone
      <4> QED
        BY <4>3, <4>4 DEF Broadcasts
    <3>2. CASE c # s
      <4>1. send_buffer'[c] = send_buffer[c]
        BY <1>2, <2>3, <3>2
      <4>2. Playing(c)
        BY <1>1, <2>3, <2>4, <3>2 DEF Playing, Seated
      <4> QED
        BY <1>1, <4>1, <4>2 DEF Broadcasts, Pending
    <3> QED
      BY <3>1, <3>2
  <2> QED
    BY <2>4, OrderStays
<1> QED
  BY <1>3, <1>4 DEF Accept, TurnAway, AcceptFails, sessionVars

\* A kick thread has no player.
LEMMA KickOrder ==
  ASSUME PacketInv, SameOrder, UNCHANGED clientVars, NEW k \in Clients, KickThread(k)
  PROVE  SameOrder'
<1>1. k \notin session_map
  BY SessionsAreKnown DEF PacketInv, KickThread, KickNotify, KickAnswered, KickUnanswered
<1>2. /\ phase' = phase /\ session_map' = session_map /\ send_buffer' = send_buffer
      /\ \A c \in Clients \ {k} : link'[c] = link[c] /\ down'[c] = down[c]
  <2>1. link \in [Clients -> LinkStates] /\ down \in [Clients -> Seq(ServerPackets)]
    BY DEF PacketInv, SeatInv, TypeInv, TypeOK, NetTypeOK
  <2> QED
    BY <2>1 DEF KickThread, KickNotify, KickAnswered, KickUnanswered, sessionVars, netVars, clientVars
<1> QED
  BY <1>1, <1>2, OrderUntouched DEF Playing, Seated

\* Reading from the front leaves what is behind.
LEMMA TailConcat ==
  ASSUME NEW S, NEW s \in Seq(S), NEW t \in Seq(S), s # <<>>
  PROVE  Tail(s \o t) = Tail(s) \o t
<1>1. /\ Len(s) \in Nat \ {0} /\ Len(t) \in Nat
      /\ Tail(s) \in Seq(S) /\ Len(Tail(s)) = Len(s) - 1
      /\ \A i \in 1..Len(Tail(s)) : Tail(s)[i] = s[i + 1]
  BY HeadTailProperties, LenProperties, EmptySeq
<1>2. /\ s \o t \in Seq(S) /\ Len(s \o t) = Len(s) + Len(t)
      /\ \A i \in 1..Len(s) + Len(t) : (s \o t)[i] = IF i <= Len(s) THEN s[i] ELSE t[i - Len(s)]
  BY ConcatProperties
<1>3. s \o t # <<>>
  BY <1>1, <1>2
<1>4. /\ Tail(s \o t) \in Seq(S) /\ Len(Tail(s \o t)) = Len(s) + Len(t) - 1
      /\ \A i \in 1..Len(Tail(s \o t)) : Tail(s \o t)[i] = (s \o t)[i + 1]
  BY <1>2, <1>3, HeadTailProperties
<1>5. /\ Tail(s) \o t \in Seq(S) /\ Len(Tail(s) \o t) = Len(s) - 1 + Len(t)
      /\ \A i \in 1..Len(Tail(s)) + Len(t) :
           (Tail(s) \o t)[i] = IF i <= Len(Tail(s)) THEN Tail(s)[i] ELSE t[i - Len(Tail(s))]
  BY <1>1, ConcatProperties
<1>6. ASSUME NEW i \in 1..Len(s) + Len(t) - 1 PROVE Tail(s \o t)[i] = (Tail(s) \o t)[i]
  <2>1. Tail(s \o t)[i] = IF i + 1 <= Len(s) THEN s[i + 1] ELSE t[i + 1 - Len(s)]
    BY <1>1, <1>2, <1>4
  <2>2. (Tail(s) \o t)[i] = IF i <= Len(Tail(s)) THEN Tail(s)[i] ELSE t[i - Len(Tail(s))]
    BY <1>1, <1>5
  <2>3. CASE i + 1 <= Len(s)
    BY <1>1, <2>1, <2>2, <2>3
  <2>4. CASE ~(i + 1 <= Len(s))
    <3>1. i + 1 - Len(s) = i - Len(Tail(s)) /\ ~(i <= Len(Tail(s)))
      BY <1>1, <2>4
    <3> QED
      BY <2>1, <2>2, <2>4, <3>1
  <2> QED
    BY <2>3, <2>4
<1> DEFINE a == Tail(s \o t)
           b == Tail(s) \o t
<1>7. a \in Seq(S) /\ b \in Seq(S) /\ Len(a) = Len(b) /\ \A i \in 1..Len(a) : a[i] = b[i]
  BY <1>1, <1>4, <1>5, <1>6
<1> HIDE DEF a, b
<1>8. a = b
  BY <1>7, SeqEqual
<1> QED
  BY <1>8 DEF a, b

\* A client processes what it has to process in order.
LEMMA PendingRead ==
  ASSUME PacketInv, NEW c \in Clients, down[c] # <<>>,
         down'[c] = Tail(down[c]), send_buffer'[c] = send_buffer[c]
  PROVE  /\ Pending(c) # <<>> /\ Head(Pending(c)) = Head(down[c])
         /\ Pending(c)' = Tail(Pending(c))
<1>1. down[c] \in Seq(ServerPackets) /\ send_buffer[c] \in Seq(ServerPackets)
  BY DEF PacketInv, SeatInv, TypeInv, TypeOK, ServerTypeOK, NetTypeOK
<1>2. Tail(down[c] \o send_buffer[c]) = Tail(down[c]) \o send_buffer[c]
  BY <1>1, TailConcat
<1>3. down[c] \o send_buffer[c] # <<>>
  BY <1>1, ConcatEqualIffEmpty
<1>4. Head(down[c] \o send_buffer[c]) = Head(down[c])
  <2> DEFINE q == down[c] \o send_buffer[c]
  <2>1. PICK m \in Nat \ {0}, n \in Nat : m = Len(down[c]) /\ n = Len(send_buffer[c])
    BY <1>1, LenProperties, EmptySeq
  <2>2. \A i \in 1..(m + n) : q[i] = IF i <= m THEN down[c][i] ELSE send_buffer[c][i - m]
    BY <1>1, <2>1, ConcatProperties
  <2>3. 1 \in 1..(m + n) /\ 1 <= m
    OBVIOUS
  <2> HIDE DEF q
  <2>4. q[1] = down[c][1]
    BY <2>2, <2>3
  <2>5. Head(q) = q[1] /\ Head(down[c]) = down[c][1]
    OBVIOUS
  <2> QED
    BY <2>4, <2>5 DEF q
<1> QED
  BY <1>2, <1>3, <1>4 DEF Pending

\* A client that processes a packet: its colour, or its next broadcast.
LEMMA ReadOrder ==
  ASSUME PacketInv, SameOrder, NEW c \in Clients,
         UNCHANGED <<serverVars, phase, link, backlog>>,
         down[c] # <<>>, down' = [down EXCEPT ![c] = Tail(@)]
  PROVE  SameOrder'
<1>1. /\ send_buffer \in [Clients -> Seq(ServerPackets)]
      /\ down \in [Clients -> Seq(ServerPackets)]
  BY DEF PacketInv, SeatInv, TypeInv, TypeOK, ServerTypeOK, NetTypeOK
<1>2. \A d \in Clients : Playing(d)' <=> Playing(d)
  BY DEF serverVars, sessionVars, Playing, Seated
<1>3. send_buffer' = send_buffer
  BY DEF serverVars, sessionVars
<1>4. \A d \in Clients \ {c} : Broadcasts(d)' = Broadcasts(d)
  BY <1>1, <1>3 DEF Broadcasts, Pending
<1>5. CASE ~Playing(c)
  BY <1>2, <1>4, <1>5, OrderStays
<1>6. CASE Playing(c)
  <2> DEFINE q == Pending(c)
  <2>1. Pending(c)' = Tail(q) /\ q # <<>>
    <3>1. down'[c] = Tail(down[c])
      BY <1>1
    <3> QED
      BY <1>3, <3>1, PendingRead
  <2>2. \/ Leads(q) /\ Broadcasts(c) = Tail(q)
        \/ q \in Seq(News) /\ Broadcasts(c) = q
    BY <1>6, PendingShape
  <2>3. Tail(q) \in Seq(News)
    BY <2>1, <2>2, HeadTailProperties DEF Leads
  <2>4. Broadcasts(c)' = Tail(q)
    BY <2>1, <2>3, NewsLead DEF Broadcasts
  <2> HIDE DEF q
  <2>5. CASE Broadcasts(c) = Tail(q)
    BY <1>2, <1>4, <2>4, <2>5, OrderStays
  <2>6. CASE Broadcasts(c) = q
    BY <1>2, <1>4, <1>6, <2>1, <2>4, <2>6, OrderShrinks DEF q
  <2> QED
    BY <2>2, <2>5, <2>6
<1> QED
  BY <1>5, <1>6

LEMMA ClientOrder ==
  ASSUME PacketInv, SameOrder, NEW c \in Clients, ClientStep(c)
  PROVE  SameOrder'
<1> DEFINE clicking == MayClick(c)
<1>1. UNCHANGED serverVars /\ ClientNext(c, clicking)
  BY DEF ClientStep
<1> HIDE DEF clicking
<1>2. /\ send_buffer' = send_buffer /\ session_map' = session_map
      /\ down \in [Clients -> Seq(ServerPackets)]
      /\ link \in [Clients -> LinkStates] /\ phase \in [Clients -> Phases]
  BY <1>1 DEF serverVars, sessionVars, PacketInv, SeatInv, TypeInv, TypeOK, NetTypeOK, ClientTypeOK
<1>3. CASE /\ \A d \in Clients \ {c} : down'[d] = down[d] /\ link'[d] = link[d] /\ phase'[d] = phase[d]
           /\ Playing(c)' => Playing(c) /\ down'[c] = down[c]
  <2>1. ASSUME NEW d \in Clients, Playing(d)'
        PROVE  Playing(d) /\ down'[d] = down[d] /\ send_buffer'[d] = send_buffer[d]
    BY <1>2, <1>3, <2>1 DEF Playing, Seated
  <2> QED
    BY <2>1, OrderUntouched
<1>4. CASE Connect(c) \/ UpdateTooEarly(c) \/ ExitScene(c)
  BY <1>2, <1>3, <1>4 DEF Connect, UpdateTooEarly, ExitScene, netVars, Playing
<1>5. CASE Connected(c)
  <2>1. c \notin session_map
    BY <1>5 DEF PacketInv, SeatInv, StageInv, Connecting, Connected
  <2> QED
    BY <1>2, <1>3, <1>5, <2>1 DEF Connected, Playing, Seated
<1>6. CASE CloseWindow(c)
  BY <1>2, <1>3, <1>6 DEF CloseWindow, Playing
<1>7. CASE Update(c, clicking)
  <2> PICK clicked \in IF clicking THEN Clicks(c) ELSE {<<>>} : Exchange(c, clicked)
    BY <1>7 DEF Update
  <2>1. UNCHANGED <<link, backlog>>
    BY <1>7 DEF Update
  <2>2. CASE down[c] # <<>> /\ down' = [down EXCEPT ![c] = Tail(@)] /\ UNCHANGED phase
    BY <1>1, <2>1, <2>2, ReadOrder
  <2>3. CASE phase' = [phase EXCEPT ![c] = "cut"] /\ down' = down
    BY <1>2, <1>3, <2>1, <2>3 DEF Playing
  <2>4. CASE UNCHANGED <<phase, down>>
    BY <1>2, <1>3, <2>1, <2>4 DEF Playing, Seated
  <2> QED
    BY <2>2, <2>3, <2>4 DEF Exchange
<1> QED
  BY <1>1, <1>4, <1>5, <1>6, <1>7 DEF ClientNext

LEMMA OrderStep == PacketInv /\ SameOrder /\ [Next]_vars => SameOrder'
<1> SUFFICES ASSUME PacketInv, SameOrder, [Next]_vars PROVE SameOrder'
  OBVIOUS
<1>1. CASE ServerStep
  BY <1>1, NetworkOrder, AcceptOrder, RecvOrder, SendOrder, KickOrder
     DEF ServerStep, ServerNext, NetworkThread
<1>2. ASSUME NEW c \in Clients, ClientStep(c) PROVE SameOrder'
  BY <1>2, ClientOrder
<1>3. CASE UNCHANGED vars
  <2>1. ASSUME NEW c \in Clients, Playing(c)'
        PROVE  Playing(c) /\ down'[c] = down[c] /\ send_buffer'[c] = send_buffer[c]
    BY <1>3, <2>1
       DEF vars, netVars, serverVars, clientVars, sessionVars, Playing, Seated
  <2> QED
    BY <2>1, OrderUntouched
<1> QED
  BY <1>1, <1>2, <1>3 DEF Next

\* Every two players get the same broadcasts in the same order, whenever each
\* of them sat down, however many clients come and go, and however recv(),
\* send() and the clients' frames interleave with the four places that
\* broadcast.
THEOREM OneOrder == Spec => []SameOrder
<1>1. Init => SameOrder
  BY DEF Init, ServerInit, SameOrder, Playing, Seated
<1>2. PacketInv /\ SameOrder /\ [Next]_vars => SameOrder'
  BY OrderStep
<1> QED
  BY <1>1, <1>2, PacketInvariant, PTL DEF Spec

(***************************************************************************)
(* The times on their way                                                  *)
(***************************************************************************)

Timed(m) == m.type \in {"SC_NOTIFY_SERVER_TIME", "SC_NOTIFY_GAME_RESULT"}

\* The times in q lie between lo and hi and do not fall.
InTime(q, lo, hi) ==
  /\ lo <= hi
  /\ \A i \in 1..Len(q) : Timed(q[i]) => lo <= q[i].tick /\ q[i].tick <= hi
  /\ \A i, j \in 1..Len(q) :
       i < j /\ Timed(q[i]) /\ Timed(q[j]) => q[i].tick <= q[j].tick

\* The client's clock, what TCP has for it, what the session has for it and
\* the server's clock are in this order.
ClientTime(c) ==
  \E t \in Nat :
    InTime(down[c], scene[c].time_tick, t) /\ InTime(send_buffer[c], t, time_tick)

TimeInv == PacketInv /\ \A c \in Clients : ClientTime(c)

LEMMA TickIsNumber == \A m \in ServerPackets : Timed(m) => m.tick \in Nat
BY DEF ServerPackets, Timed

LEMMA InTimeEmpty ==
  ASSUME NEW lo \in Nat, NEW hi \in Nat, lo <= hi
  PROVE  InTime(<<>>, lo, hi)
BY DEF InTime

LEMMA InTimeWiden ==
  ASSUME NEW q \in Seq(ServerPackets), NEW lo \in Nat, NEW hi \in Nat, NEW top \in Nat,
         InTime(q, lo, hi), hi <= top
  PROVE  InTime(q, lo, top)
<1>1. \A i \in 1..Len(q) : q[i] \in ServerPackets
  BY ElementOfSeq
<1>2. \A i \in 1..Len(q) : Timed(q[i]) => q[i].tick \in Nat
  BY <1>1, TickIsNumber
<1>3. \A i \in 1..Len(q) : Timed(q[i]) => lo <= q[i].tick /\ q[i].tick <= top
  BY <1>2 DEF InTime
<1> QED
  BY <1>3 DEF InTime

\* What is sent when the times before it have passed.
LEMMA InTimeConcat ==
  ASSUME NEW q \in Seq(ServerPackets), NEW r \in Seq(ServerPackets),
         NEW lo \in Nat, NEW t \in Nat, NEW hi \in Nat,
         InTime(q, lo, t), InTime(r, t, hi)
  PROVE  InTime(q \o r, lo, hi)
<1> DEFINE s == q \o r
<1>1. /\ Len(q) \in Nat /\ Len(r) \in Nat /\ Len(s) = Len(q) + Len(r)
      /\ \A i \in 1..Len(q) + Len(r) : s[i] = IF i <= Len(q) THEN q[i] ELSE r[i - Len(q)]
  BY ConcatProperties, LenProperties
<1> HIDE DEF s
<1>2. /\ \A i \in 1..Len(q) : Timed(q[i]) => q[i].tick \in Nat
      /\ \A i \in 1..Len(r) : Timed(r[i]) => r[i].tick \in Nat
  BY ElementOfSeq, TickIsNumber
<1>3. \A i \in 1..Len(s) : i <= Len(q) => i \in 1..Len(q) /\ s[i] = q[i]
  BY <1>1
<1>4. \A i \in 1..Len(s) : ~(i <= Len(q)) => i - Len(q) \in 1..Len(r) /\ s[i] = r[i - Len(q)]
  BY <1>1
<1>5. lo <= t /\ t <= hi
  BY DEF InTime
<1>6. ASSUME NEW i \in 1..Len(s), Timed(s[i])
      PROVE  /\ s[i].tick \in Nat
             /\ i <= Len(q) => lo <= s[i].tick /\ s[i].tick <= t
             /\ ~(i <= Len(q)) => t <= s[i].tick /\ s[i].tick <= hi
  BY <1>2, <1>3, <1>4, <1>6 DEF InTime
<1>7. ASSUME NEW i \in 1..Len(s), NEW j \in 1..Len(s), i < j, Timed(s[i]), Timed(s[j])
      PROVE  s[i].tick <= s[j].tick
  <2>1. i \in Nat /\ j \in Nat
    BY <1>1
  <2>2. CASE j <= Len(q)
    <3>1. i <= Len(q)
      BY <1>1, <1>7, <2>1, <2>2
    <3> QED
      BY <1>3, <1>7, <2>2, <3>1 DEF InTime
  <2>3. CASE ~(i <= Len(q))
    <3>1. ~(j <= Len(q)) /\ i - Len(q) < j - Len(q)
      BY <1>1, <1>7, <2>1, <2>3
    <3> QED
      BY <1>4, <1>7, <2>3, <3>1 DEF InTime
  <2>4. CASE i <= Len(q) /\ ~(j <= Len(q))
    BY <1>6, <1>7, <2>4
  <2> QED
    BY <2>2, <2>3, <2>4
<1>8. \A i \in 1..Len(s) : Timed(s[i]) => lo <= s[i].tick /\ s[i].tick <= hi
  BY <1>5, <1>6
<1>9. InTime(s, lo, hi)
  BY <1>5, <1>7, <1>8 DEF InTime
<1> QED
  BY <1>9 DEF s

\* A packet with the time of day, or with none, comes last.
LEMMA InTimeAppend ==
  ASSUME NEW q \in Seq(ServerPackets), NEW lo \in Nat, NEW hi \in Nat,
         NEW m \in ServerPackets, Timed(m) => m.tick = hi, InTime(q, lo, hi)
  PROVE  InTime(Append(q, m), lo, hi)
<1>1. <<m>> \in Seq(ServerPackets)
  OBVIOUS
<1>2. InTime(<<m>>, hi, hi)
  BY DEF InTime
<1>3. InTime(q \o <<m>>, lo, hi)
  BY <1>1, <1>2, InTimeConcat
<1> QED
  BY <1>3, AppendIsConcat

\* The first packet sets the clock, if it carries a time.
LEMMA InTimeTail ==
  ASSUME NEW q \in Seq(ServerPackets), NEW lo \in Nat, NEW hi \in Nat, q # <<>>,
         InTime(q, lo, hi)
  PROVE  /\ InTime(Tail(q), lo, hi)
         /\ Timed(Head(q)) => lo <= Head(q).tick /\ InTime(Tail(q), Head(q).tick, hi)
<1> DEFINE r == Tail(q)
<1>1. /\ Len(q) \in Nat \ {0} /\ Len(r) = Len(q) - 1
      /\ \A i \in 1..Len(r) : r[i] = q[i + 1]
      /\ Head(q) = q[1]
  BY HeadTailProperties, LenProperties, EmptySeq
<1> HIDE DEF r
<1>2. \A i \in 1..Len(r) : i + 1 \in 1..Len(q) /\ 1 < i + 1
  BY <1>1
<1>3. \A i, j \in 1..Len(r) : i < j => i + 1 < j + 1
  BY <1>1
<1>4. \A i, j \in 1..Len(r) : i < j /\ Timed(r[i]) /\ Timed(r[j]) => r[i].tick <= r[j].tick
  BY <1>1, <1>2, <1>3 DEF InTime
<1>5. InTime(r, lo, hi)
  BY <1>1, <1>2, <1>4 DEF InTime
<1>6. ASSUME Timed(Head(q)) PROVE lo <= Head(q).tick /\ InTime(r, Head(q).tick, hi)
  <2>1. lo <= q[1].tick /\ q[1].tick <= hi /\ 1 \in 1..Len(q)
    BY <1>1, <1>6 DEF InTime
  <2>2. \A i \in 1..Len(r) : Timed(r[i]) => q[1].tick <= r[i].tick /\ r[i].tick <= hi
    BY <1>1, <1>2, <1>6, <2>1 DEF InTime
  <2> QED
    BY <1>1, <1>4, <2>1, <2>2 DEF InTime
<1> QED
  BY <1>5, <1>6 DEF r

(***************************************************************************)
(* The clocks, in each step                                                *)
(***************************************************************************)

LEMMA TimeTypes ==
  ASSUME PacketInv
  PROVE  /\ time_tick \in Nat
         /\ send_buffer \in [Clients -> Seq(ServerPackets)]
         /\ down \in [Clients -> Seq(ServerPackets)]
         /\ scene \in [Clients -> Scenes]
         /\ \A c \in Clients : scene[c].time_tick \in Nat
<1>1. TypeOK
  BY DEF PacketInv, SeatInv, TypeInv
<1> QED
  BY <1>1 DEF TypeOK, ServerTypeOK, NetTypeOK, ClientTypeOK, Scenes

\* The four places that broadcast, the clock itself, and the steps that
\* touch neither queues nor clocks.
LEMMA TimeQueued ==
  ASSUME TimeInv, UNCHANGED <<scene, down>>,
         \/ send_buffer' = send_buffer /\ time_tick' \in {time_tick, time_tick + 1}
         \/ /\ time_tick' = time_tick
            /\ \E m \in ServerPackets :
                 (Timed(m) => m.tick = time_tick) /\ Broadcast(m)
  PROVE  \A c \in Clients : ClientTime(c)'
<1> SUFFICES ASSUME NEW c \in Clients PROVE ClientTime(c)'
  OBVIOUS
<1>1. /\ time_tick \in Nat /\ send_buffer[c] \in Seq(ServerPackets)
  BY TimeTypes DEF TimeInv
<1> PICK t \in Nat : /\ InTime(down[c], scene[c].time_tick, t)
                     /\ InTime(send_buffer[c], t, time_tick)
  BY DEF TimeInv, ClientTime
<1>2. CASE send_buffer' = send_buffer /\ time_tick' \in {time_tick, time_tick + 1}
  <2>1. time_tick' \in Nat /\ time_tick <= time_tick'
    BY <1>1, <1>2
  <2>2. InTime(send_buffer[c], t, time_tick')
    BY <1>1, <2>1, InTimeWiden
  <2> QED
    BY <1>2, <2>2 DEF ClientTime
<1>3. ASSUME NEW m \in ServerPackets, Timed(m) => m.tick = time_tick, Broadcast(m),
             time_tick' = time_tick
      PROVE  ClientTime(c)'
  <2>1. InTime(Append(send_buffer[c], m), t, time_tick)
    BY <1>1, <1>3, InTimeAppend
  <2>2. InTime(send_buffer'[c], t, time_tick')
    BY <1>3, <2>1 DEF Broadcast
  <2> QED
    BY <2>2 DEF ClientTime
<1> QED
  BY <1>2, <1>3

LEMMA NetworkTime ==
  ASSUME TimeInv, UNCHANGED clientVars,
         Select \/ TimerThread \/ UpdateTimer \/ UpdateOver \/ Parse \/ Recv
  PROVE  \A c \in Clients : ClientTime(c)'
<1>1. /\ time_tick \in Nat /\ omok.winner \in Stones
      /\ recv_buffer \in [Clients -> Seq(ClientPackets)]
  BY DEF TimeInv, PacketInv, SeatInv, TypeInv, TypeOK, ServerTypeOK, Games
<1>2. UNCHANGED <<scene, down>>
  BY DEF Select, TimerThread, UpdateTimer, UpdateOver, Parse, Recv, netVars, clientVars
<1>3. CASE Select \/ TimerThread \/ Recv
  <2>1. send_buffer' = send_buffer /\ time_tick' \in {time_tick, time_tick + 1}
    BY <1>3 DEF Select, TimerThread, Recv, sessionVars, timerVars
  <2> QED
    BY <1>2, <2>1, TimeQueued
<1>4. CASE UpdateTimer
  <2>1. ServerTime(time_tick) \in ServerPackets /\ ServerTime(time_tick).tick = time_tick
    BY <1>1, ServerPacketTypes DEF ServerTime
  <2> QED
    BY <1>2, <1>4, <2>1, TimeQueued DEF UpdateTimer
<1>5. CASE UpdateOver
  <2>1. /\ GameResult(omok.winner, time_tick) \in ServerPackets
        /\ GameResult(omok.winner, time_tick).tick = time_tick
    BY <1>1, ServerPacketTypes DEF GameResult
  <2>2. time_tick' = time_tick
    BY <1>5 DEF UpdateOver, timerVars
  <2> QED
    BY <1>2, <1>5, <2>1, <2>2, TimeQueued DEF UpdateOver
<1>6. CASE Parse
  <2> PICK s \in Clients : s = sockets[idx]
    BY <1>6, ServedIsSeated DEF Parse, TimeInv, PacketInv
  <2>1. recv_buffer[s] # <<>>
    BY <1>6 DEF TimeInv, PacketInv, SeatInv, TypeInv, LoopInv, Parse
  <2> DEFINE m == Head(recv_buffer[s])
  <2>2. m \in ClientPackets
    BY <1>1, <2>1, HeadTailProperties
  <2>3. time_tick' = time_tick
    BY <1>6 DEF Parse, timerVars
  <2>4. CASE Playable(m) /\ Broadcast(DropResponse(m.stone, m.at))
    <3>1. m.stone \in Stones /\ m.at \in Cells
      BY <2>2, <2>4 DEF Playable, IsDropRequest, ClientPackets
    <3>2. /\ DropResponse(m.stone, m.at) \in ServerPackets
          /\ ~Timed(DropResponse(m.stone, m.at))
      BY <3>1, ServerPacketTypes DEF DropResponse, Timed
    <3> QED
      BY <1>2, <2>3, <2>4, <3>2, TimeQueued
  <2>5. CASE send_buffer' = send_buffer
    BY <1>2, <2>3, <2>5, TimeQueued
  <2> QED
    BY <1>6, <2>4, <2>5 DEF Parse, ProcessPacket
<1> QED
  BY <1>3, <1>4, <1>5, <1>6

\* send() and accept(): the queue moves on, is lost, or starts with a colour.
LEMMA SendTime ==
  ASSUME TimeInv, UNCHANGED clientVars, Send
  PROVE  \A c \in Clients : ClientTime(c)'
<1> SUFFICES ASSUME NEW c \in Clients PROVE ClientTime(c)'
  OBVIOUS
<1>1. /\ time_tick \in Nat /\ scene[c].time_tick \in Nat
      /\ send_buffer \in [Clients -> Seq(ServerPackets)]
      /\ down \in [Clients -> Seq(ServerPackets)]
  BY TimeTypes DEF TimeInv
<1> PICK t \in Nat : /\ InTime(down[c], scene[c].time_tick, t)
                     /\ InTime(send_buffer[c], t, time_tick)
  BY DEF TimeInv, ClientTime
<1>2. time_tick' = time_tick /\ scene' = scene
  BY DEF Send, timerVars, clientVars
<1> PICK s \in Clients : s = sockets[idx]
  BY ServedIsSeated DEF Send, TimeInv, PacketInv
<1>3. CASE send_buffer'[c] = send_buffer[c] /\ down'[c] = down[c]
  BY <1>2, <1>3 DEF ClientTime
<1>4. CASE send_buffer'[c] = <<>> /\ down'[c] = down[c] \o send_buffer[c]
  <2>1. InTime(down[c] \o send_buffer[c], scene[c].time_tick, time_tick)
    BY <1>1, InTimeConcat
  <2>2. InTime(<<>>, time_tick, time_tick)
    BY <1>1, InTimeEmpty
  <2> QED
    BY <1>1, <1>2, <1>4, <2>1, <2>2 DEF ClientTime
<1>5. CASE send_buffer'[c] = <<>> /\ down'[c] = down[c]
  <2>1. InTime(<<>>, t, time_tick)
    BY <1>1, InTimeEmpty DEF InTime
  <2> QED
    BY <1>2, <1>5, <2>1 DEF ClientTime
<1>6. \/ UNCHANGED <<send_buffer, down>>
      \/ /\ send_buffer' \in {send_buffer, [send_buffer EXCEPT ![s] = <<>>]}
         /\ down' = down
      \/ /\ down' = [down EXCEPT ![s] = @ \o send_buffer[s]]
         /\ send_buffer' = [send_buffer EXCEPT ![s] = <<>>]
  BY DEF Send, Transmit
<1> QED
  BY <1>1, <1>3, <1>4, <1>5, <1>6

LEMMA AcceptTime ==
  ASSUME TimeInv, UNCHANGED clientVars, Accept
  PROVE  \A c \in Clients : ClientTime(c)'
<1>1. UNCHANGED <<scene, down>> /\ time_tick' = time_tick
  BY DEF Accept, clientVars, timerVars
<1>2. CASE send_buffer' = send_buffer
  BY <1>1, <1>2, TimeQueued
<1>3. CASE incoming /\ Seat(Head(backlog))
  <2> DEFINE m == AssignStone(omok.current_turn)
  <2>1. send_buffer' = [send_buffer EXCEPT ![Head(backlog)] = <<m>>]
    BY <1>3 DEF Seat, AssignStoneType
  <2> SUFFICES ASSUME NEW c \in Clients PROVE ClientTime(c)'
    OBVIOUS
  <2>2. time_tick \in Nat /\ send_buffer \in [Clients -> Seq(ServerPackets)]
    BY TimeTypes DEF TimeInv
  <2> PICK t \in Nat : /\ InTime(down[c], scene[c].time_tick, t)
                       /\ InTime(send_buffer[c], t, time_tick)
    BY DEF TimeInv, ClientTime
  <2>3. CASE send_buffer'[c] = send_buffer[c]
    BY <1>1, <2>3 DEF ClientTime
  <2>4. CASE send_buffer'[c] = <<m>>
    <3>1. ~Timed(m)
      BY DEF AssignStone, Timed
    <3>2. InTime(<<m>>, t, time_tick)
      BY <2>2, <3>1 DEF InTime
    <3> QED
      BY <1>1, <2>4, <3>2 DEF ClientTime
  <2> QED
    BY <2>1, <2>2, <2>3, <2>4
<1> QED
  BY <1>2, <1>3 DEF Accept, TurnAway, AcceptFails, sessionVars

LEMMA KickTime ==
  ASSUME TimeInv, UNCHANGED clientVars, NEW k \in Clients, KickThread(k)
  PROVE  \A c \in Clients : ClientTime(c)'
<1>1. UNCHANGED <<scene, send_buffer>> /\ time_tick' = time_tick
  BY DEF KickThread, KickNotify, KickAnswered, KickUnanswered, clientVars, sessionVars, timerVars
<1>2. down' = down \/ down' = [down EXCEPT ![k] = Append(@, NotifyKick)]
  BY DEF KickThread, KickNotify, KickAnswered, KickUnanswered, netVars
<1> SUFFICES ASSUME NEW c \in Clients PROVE ClientTime(c)'
  OBVIOUS
<1>3. down \in [Clients -> Seq(ServerPackets)] /\ scene[c].time_tick \in Nat
  BY TimeTypes DEF TimeInv
<1> PICK t \in Nat : /\ InTime(down[c], scene[c].time_tick, t)
                     /\ InTime(send_buffer[c], t, time_tick)
  BY DEF TimeInv, ClientTime
<1>4. CASE down'[c] = down[c]
  BY <1>1, <1>4 DEF ClientTime
<1>5. CASE down'[c] = Append(down[c], NotifyKick)
  <2>1. NotifyKick \in ServerPackets /\ ~Timed(NotifyKick)
    BY ServerPacketTypes DEF NotifyKick, Timed
  <2>2. InTime(Append(down[c], NotifyKick), scene[c].time_tick, t)
    BY <1>3, <2>1, InTimeAppend
  <2> QED
    BY <1>1, <1>5, <2>2 DEF ClientTime
<1> QED
  BY <1>2, <1>3, <1>4, <1>5

\* What a packet does to the clock of a scene.
LEMMA ProcessTime ==
  ASSUME NEW s \in Scenes, NEW m \in ServerPackets
  PROVE  Process(s, m).time_tick = IF Timed(m) THEN m.tick ELSE s.time_tick
BY DEF Process, Timed, Scenes, ServerPackets

\* A client: it reads its next packet, or loses all, or reads nothing.
LEMMA ClientTimeStep ==
  ASSUME TimeInv, NEW c \in Clients, ClientStep(c)
  PROVE  /\ \A d \in Clients : ClientTime(d)'
         /\ \A d \in Clients : scene'[d].time_tick >= scene[d].time_tick
<1> DEFINE clicking == MayClick(c)
<1>1. UNCHANGED serverVars /\ ClientNext(c, clicking)
  BY DEF ClientStep
<1> HIDE DEF clicking
<1>2. send_buffer' = send_buffer /\ time_tick' = time_tick
  BY <1>1 DEF serverVars, sessionVars, timerVars
<1>3. /\ time_tick \in Nat /\ scene \in [Clients -> Scenes]
      /\ down \in [Clients -> Seq(ServerPackets)]
      /\ \A d \in Clients : scene[d].time_tick \in Nat
  BY TimeTypes DEF TimeInv
<1>4. CASE UNCHANGED <<scene, down>>
  <2>1. \A d \in Clients : ClientTime(d)'
    BY <1>2, <1>4 DEF TimeInv, ClientTime
  <2> QED
    BY <1>3, <1>4, <2>1
<1>5. CASE UNCHANGED scene /\ down' = [down EXCEPT ![c] = <<>>]
  <2>1. ASSUME NEW d \in Clients PROVE ClientTime(d)'
    <3> PICK t \in Nat : /\ InTime(down[d], scene[d].time_tick, t)
                         /\ InTime(send_buffer[d], t, time_tick)
      BY DEF TimeInv, ClientTime
    <3>1. InTime(<<>>, scene[d].time_tick, t)
      BY <1>3, InTimeEmpty DEF InTime
    <3>2. down'[d] \in {down[d], <<>>}
      BY <1>3, <1>5
    <3> QED
      BY <1>2, <1>5, <3>1, <3>2 DEF ClientTime
  <2> QED
    BY <1>3, <1>5, <2>1
<1>6. CASE /\ down[c] # <<>>
           /\ scene' = [scene EXCEPT ![c] = Process(@, Head(down[c]))]
           /\ down' = [down EXCEPT ![c] = Tail(@)]
  <2>1. \A d \in Clients \ {c} : scene'[d] = scene[d] /\ down'[d] = down[d]
    BY <1>3, <1>6
  <2> DEFINE m == Head(down[c])
  <2>2. m \in ServerPackets /\ down[c] \in Seq(ServerPackets)
    BY <1>3, <1>6, HeadTailProperties
  <2>3. /\ scene'[c].time_tick = IF Timed(m) THEN m.tick ELSE scene[c].time_tick
        /\ down'[c] = Tail(down[c])
    BY <1>3, <1>6, <2>2, ProcessTime
  <2> PICK t \in Nat : /\ InTime(down[c], scene[c].time_tick, t)
                       /\ InTime(send_buffer[c], t, time_tick)
    BY DEF TimeInv, ClientTime
  <2>4. /\ InTime(Tail(down[c]), scene[c].time_tick, t)
        /\ Timed(m) => /\ scene[c].time_tick <= m.tick
                       /\ InTime(Tail(down[c]), m.tick, t)
    BY <1>3, <1>6, <2>2, InTimeTail
  <2> HIDE DEF m
  <2>5. InTime(down'[c], scene'[c].time_tick, t)
    BY <2>3, <2>4
  <2>6. ClientTime(c)'
    BY <1>2, <2>5 DEF ClientTime
  <2>7. scene'[c].time_tick >= scene[c].time_tick
    BY <1>3, <2>2, <2>3, <2>4, TickIsNumber
  <2>8. ASSUME NEW d \in Clients \ {c}
        PROVE  ClientTime(d)' /\ scene'[d].time_tick >= scene[d].time_tick
    <3>1. ClientTime(d)
      BY DEF TimeInv
    <3>2. ClientTime(d)'
      BY <1>2, <2>1, <3>1 DEF ClientTime
    <3>3. scene'[d].time_tick >= scene[d].time_tick
      BY <1>3, <2>1
    <3> QED
      BY <3>2, <3>3
  <2> QED
    BY <2>6, <2>7, <2>8
<1>7. CASE Connect(c) \/ Connected(c) \/ UpdateTooEarly(c) \/ ExitScene(c)
  BY <1>4, <1>7 DEF Connect, Connected, UpdateTooEarly, ExitScene, netVars
<1>8. CASE CloseWindow(c)
  BY <1>5, <1>8 DEF CloseWindow
<1>9. CASE Update(c, clicking)
  BY <1>4, <1>6, <1>9 DEF Update, Exchange
<1> QED
  BY <1>1, <1>7, <1>8, <1>9 DEF ClientNext

LEMMA TimeStep ==
  TimeInv /\ [Next]_vars =>
    TimeInv' /\ \A c \in Clients : scene'[c].time_tick >= scene[c].time_tick
<1> SUFFICES ASSUME TimeInv, [Next]_vars
             PROVE  /\ \A c \in Clients : ClientTime(c)'
                    /\ \A c \in Clients : scene'[c].time_tick >= scene[c].time_tick
  BY PacketStep DEF TimeInv
<1>1. \A c \in Clients : scene[c].time_tick \in Nat
  BY TimeTypes DEF TimeInv
<1>2. CASE ServerStep
  <2>1. scene' = scene
    BY <1>2 DEF ServerStep, clientVars
  <2>2. \A c \in Clients : ClientTime(c)'
    BY <1>2, NetworkTime, AcceptTime, SendTime, KickTime
       DEF ServerStep, ServerNext, NetworkThread
  <2> QED
    BY <1>1, <2>1, <2>2
<1>3. ASSUME NEW c \in Clients, ClientStep(c)
      PROVE  /\ \A d \in Clients : ClientTime(d)'
             /\ \A d \in Clients : scene'[d].time_tick >= scene[d].time_tick
  BY <1>3, ClientTimeStep
<1>4. CASE UNCHANGED vars
  <2>1. UNCHANGED <<scene, down, send_buffer, time_tick>>
    BY <1>4 DEF vars, netVars, serverVars, clientVars, sessionVars, timerVars
  <2>2. \A c \in Clients : ClientTime(c)'
    BY <2>1 DEF TimeInv, ClientTime
  <2> QED
    BY <1>1, <2>1, <2>2
<1> QED
  BY <1>2, <1>3, <1>4 DEF Next

\* The clock a client shows never runs back: the TIME and RESULT packets that
\* lie in its session's buffer and in TCP are in the order of their times,
\* between its clock and the server's, whenever the timer thread moves that.
THEOREM ClocksGoForward == Spec => TimeNeverRunsBack
<1>1. Init => TimeInv
  <2> SUFFICES ASSUME Init PROVE TimeInv
    OBVIOUS
  <2>1. ASSUME NEW c \in Clients PROVE ClientTime(c)
    <3>1. down[c] = <<>> /\ send_buffer[c] = <<>> /\ scene[c].time_tick = 0 /\ time_tick = 0
      BY DEF Init, NetInit, ServerInit, ClientInit, InitialScene
    <3>2. InTime(<<>>, 0, 0)
      BY InTimeEmpty
    <3> QED
      BY <3>1, <3>2 DEF ClientTime
  <2> QED
    BY <2>1, InitPackets DEF TimeInv
<1>2. TimeInv /\ [Next]_vars => TimeInv'
  BY TimeStep
<1>3. TimeInv /\ [Next]_vars
        => [\A c \in Clients : scene'[c].time_tick >= scene[c].time_tick]_vars
  BY TimeStep
<1> QED
  BY <1>1, <1>2, <1>3, PTL DEF Spec, TimeNeverRunsBack

=============================================================================
