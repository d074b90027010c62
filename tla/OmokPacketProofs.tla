-------------------------- MODULE OmokPacketProofs --------------------------
(***************************************************************************)
(* Proofs about the packets of OmokSystem: which packets can be on their   *)
(* way to and from a client at each point of its life, and what follows    *)
(* for the parsing of the server and for the colours of the players.       *)
(***************************************************************************)
EXTENDS OmokSystemProofs

(***************************************************************************)
(* The invariant                                                           *)
(***************************************************************************)

\* What a client that has its colour may be told, and how it was told that.
News == {m \in ServerPackets : m.type \notin {"SC_ASSIGN_STONE", "SC_NOTIFY_KICK"}}

Assignments == {m \in ServerPackets : m.type = "SC_ASSIGN_STONE" /\ m.stone \in Players}

\* What is on its way to a client whose kick thread is at k.
Told(k) == News \cup (IF k = "none" THEN {} ELSE {NotifyKick})

\* The requests of a player of colour s: none, as long as s is no colour.
Requests(s) == {m \in ClientPackets : /\ m.type = "CS_DROP_STONE_REQUEST"
                                      /\ m.stone = s /\ s \in Players}

\* What is on its way from a client of colour s whose kick thread is at k.
Said(s, k) == Requests(s) \cup (IF k = "none" THEN {} ELSE {KickAnswer})

\* The queue begins with an assignment and has no other.
Leads(q) == q # <<>> /\ Head(q) \in Assignments /\ Tail(q) \in Seq(News)

\* Not yet accepted, or about to be turned away: nothing was said to it yet.
Newcomer(c) ==
  \/ Connecting(c)
  \/ \E i \in DOMAIN backlog : backlog[i] = c
  \/ kick[c] = "notify"

Silent(c) == /\ down[c] = <<>> /\ send_buffer[c] = <<>>
             /\ scene[c].myOmokStone = OMOK_EMPTY

\* Its colour is on the way to it ...
BeingTold(c) ==
  /\ scene[c].myOmokStone = OMOK_EMPTY
  /\ \/ down[c] = <<>> /\ Leads(send_buffer[c])
     \/ Leads(down[c]) /\ send_buffer[c] \in Seq(News)

\* ... or is not: then it has it, if it has a seat.
Informed(c) ==
  /\ down[c] \in Seq(Told(kick[c]))
  /\ send_buffer[c] \in Seq(News)
  /\ Seated(c) => scene[c].myOmokStone # OMOK_EMPTY

Speaks(c) ==
  /\ scene[c].current_turn \in Players
  /\ recv_buffer[c] \in Seq(Requests(scene[c].myOmokStone))
  /\ up[c] \in Seq(Said(scene[c].myOmokStone, kick[c]))

ClientInv(c) == /\ Newcomer(c) => Silent(c)
                /\ BeingTold(c) \/ Informed(c)
                /\ Speaks(c)

PacketInv ==
  /\ SeatInv
  /\ pc # "crashed"
  /\ omok.current_turn \in Players
  /\ \A c \in Clients : ClientInv(c)

(***************************************************************************)
(* Queues of packets                                                       *)
(***************************************************************************)

\* A sequence is one of whatever its elements are.
LEMMA SeqByElements ==
  ASSUME NEW S, NEW T, NEW q \in Seq(S), \A i \in 1..Len(q) : q[i] \in T
  PROVE  q \in Seq(T)
<1>1. Len(q) \in Nat /\ q \in [1..Len(q) -> S]
  BY LenProperties
<1>2. q \in [1..Len(q) -> T]
  BY <1>1
<1> QED
  BY <1>1, <1>2, SeqDef

\* The packets of protocol.h that are news, and the others.
LEMMA NewsPackets ==
  /\ News \subseteq ServerPackets
  /\ \A t \in Nat : ServerTime(t) \in News
  /\ \A s \in Stones, p \in Cells : DropResponse(s, p) \in News
  /\ \A w \in Stones, t \in Nat : GameResult(w, t) \in News
  /\ \A s \in Players : AssignStone(s) \in Assignments
BY ServerPacketTypes
   DEF News, Assignments, ServerTime, DropResponse, GameResult, AssignStone,
       Players, Stones, OMOK_BLACK, OMOK_WHITE

\* An assignment stays the only one when news are queued behind it.
LEMMA LeadsConcat ==
  ASSUME NEW q \in Seq(ServerPackets), NEW r \in Seq(News), Leads(q)
  PROVE  Leads(q \o r)
<1>1. r \in Seq(ServerPackets)
  BY NewsPackets, SeqMonotonic
<1>2. /\ Len(q) \in Nat \ {0} /\ Len(r) \in Nat
      /\ q \o r \in Seq(ServerPackets) /\ Len(q \o r) = Len(q) + Len(r)
      /\ \A i \in 1..Len(q) + Len(r) : (q \o r)[i] = IF i <= Len(q) THEN q[i] ELSE r[i - Len(q)]
  BY <1>1, ConcatProperties, LenProperties, EmptySeq DEF Leads
<1>3. q \o r # <<>>
  BY <1>2
<1>4. Head(q \o r) = Head(q)
  BY <1>2
<1>5. Tail(q \o r) \in Seq(News)
  <2>1. /\ Tail(q) \in Seq(ServerPackets) /\ Len(Tail(q)) = Len(q) - 1
        /\ \A i \in 1..Len(Tail(q)) : Tail(q)[i] = q[i + 1]
    BY HeadTailProperties DEF Leads
  <2>2. /\ Tail(q \o r) \in Seq(ServerPackets)
        /\ Len(Tail(q \o r)) = Len(q) + Len(r) - 1
        /\ \A i \in 1..Len(Tail(q \o r)) : Tail(q \o r)[i] = (q \o r)[i + 1]
    BY <1>2, <1>3, HeadTailProperties
  <2>3. ASSUME NEW i \in 1..Len(Tail(q \o r)) PROVE Tail(q \o r)[i] \in News
    <3>1. CASE i + 1 <= Len(q)
      <4>1. Tail(q \o r)[i] = Tail(q)[i] /\ i \in 1..Len(Tail(q))
        BY <1>2, <2>1, <2>2, <3>1
      <4> QED
        BY <4>1, ElementOfSeq DEF Leads
    <3>2. CASE Len(q) < i + 1
      <4>1. i + 1 - Len(q) \in 1..Len(r) /\ Tail(q \o r)[i] = r[i + 1 - Len(q)]
        BY <1>2, <2>2, <3>2
      <4> QED
        BY <4>1, ElementOfSeq
    <3> QED
      BY <1>2, <3>1, <3>2
  <2> QED
    BY <2>2, <2>3, SeqByElements
<1> QED
  BY <1>3, <1>4, <1>5 DEF Leads

LEMMA LeadsAppend ==
  ASSUME NEW q \in Seq(ServerPackets), NEW m \in News, Leads(q)
  PROVE  Leads(Append(q, m))
<1>1. Append(q, m) # <<>>
  BY NewsPackets, AppendProperties
<1>2. Head(Append(q, m)) = Head(q) /\ Tail(Append(q, m)) = Append(Tail(q), m)
  BY HeadTailAppend DEF Leads
<1>3. Append(Tail(q), m) \in Seq(News)
  BY AppendProperties DEF Leads
<1> QED
  BY <1>1, <1>2, <1>3 DEF Leads

(***************************************************************************)
(* A client a step does not speak to, other than by a broadcast            *)
(***************************************************************************)

\* Nothing is taken from or put into its stream, its requests may be parsed,
\* and news may be queued for it.
LEMMA ClientKept ==
  ASSUME TypeOK, NEW c \in Clients, ClientInv(c),
         scene'[c] = scene[c], down'[c] = down[c], up'[c] = up[c], kick'[c] = kick[c],
         recv_buffer'[c] \in Seq(Requests(scene[c].myOmokStone)),
         \/ send_buffer'[c] = send_buffer[c]
         \/ ~Newcomer(c) /\ \E m \in News : send_buffer'[c] = Append(send_buffer[c], m),
         Seated(c)' => Seated(c), Newcomer(c)' => Newcomer(c)
  PROVE  ClientInv(c)'
<1>1. Speaks(c)'
  BY DEF ClientInv, Speaks
<1>2. (Newcomer(c) => Silent(c))'
  BY DEF ClientInv, Silent
<1>3. send_buffer[c] \in Seq(ServerPackets)
  BY DEF TypeOK, ServerTypeOK
<1>4. (BeingTold(c) \/ Informed(c))'
  <2>1. CASE send_buffer'[c] = send_buffer[c]
    BY <2>1 DEF ClientInv, BeingTold, Informed
  <2>2. ASSUME NEW m \in News, send_buffer'[c] = Append(send_buffer[c], m)
        PROVE  (BeingTold(c) \/ Informed(c))'
    <3>1. Leads(send_buffer[c]) => Leads(send_buffer'[c])
      BY <1>3, <2>2, LeadsAppend
    <3>2. send_buffer[c] \in Seq(News) => send_buffer'[c] \in Seq(News)
      BY <2>2, AppendProperties
    <3> QED
      BY <3>1, <3>2 DEF ClientInv, BeingTold, Informed
  <2> QED
    BY <2>1, <2>2
<1> QED
  BY <1>1, <1>2, <1>4 DEF ClientInv

\* A broadcast reaches sessions only, and no session is a newcomer's.
LEMMA SessionsAreKnown ==
  ASSUME SeatInv
  PROVE  \A c \in session_map : ~Newcomer(c) /\ kick[c] = "none"
<1>1. session_map \subseteq Clients
  BY DEF SeatInv, TypeInv, TypeOK, ServerTypeOK
<1> QED
  BY <1>1 DEF SeatInv, StageInv, OnePlaceAtATime, Newcomer

LEMMA BroadcastQueues ==
  ASSUME SeatInv, NEW m, Broadcast(m), NEW c \in Clients
  PROVE  \/ send_buffer'[c] = send_buffer[c]
         \/ ~Newcomer(c) /\ send_buffer'[c] = Append(send_buffer[c], m)
BY SessionsAreKnown DEF Broadcast

(***************************************************************************)
(* Initially, and in each step                                             *)
(***************************************************************************)

LEMMA InitPackets == Init => PacketInv
<1> SUFFICES ASSUME Init PROVE PacketInv
  OBVIOUS
<1>1. SeatInv /\ pc # "crashed"
  BY InitSeat DEF Init, ServerInit
<1>2. omok.current_turn \in Players
  BY DEF Init, ServerInit, FreshGame, Players
<1>3. ASSUME NEW c \in Clients PROVE ClientInv(c)
  <2>1. /\ down[c] = <<>> /\ up[c] = <<>> /\ send_buffer[c] = <<>> /\ recv_buffer[c] = <<>>
        /\ scene[c] = InitialScene /\ ~Seated(c)
    BY DEF Init, NetInit, ServerInit, ClientInit, Seated
  <2>2. \A S : <<>> \in Seq(S)
    BY EmptySeq
  <2> QED
    BY <2>1, <2>2 DEF ClientInv, Silent, Informed, Speaks, InitialScene, Players
<1> QED
  BY <1>1, <1>2, <1>3 DEF PacketInv

\* Whoever has the turn, the turn passes to a player.
LEMMA TurnIsAPlayers ==
  /\ \A s \in Players : OtherStone(s) \in Players
  /\ \A g \in Games : NewGame(g).current_turn \in Players
  /\ \A g \in Games : SwapTurn(g).current_turn = OtherStone(g.current_turn)
  /\ \A g \in Games, p \in Cells, s \in Stones :
       CheckGomoku(g, p, s).current_turn = g.current_turn
BY DEF OtherStone, Players, NewGame, SwapTurn, CheckGomoku, GameOver, Games,
       OMOK_EMPTY, OMOK_BLACK, OMOK_WHITE

\* The socket that is served is that of a session.
LEMMA ServedIsSeated ==
  ASSUME SeatInv, pc \in {"recv", "parse", "send"}
  PROVE  /\ sockets[idx] \in Clients /\ sockets[idx] \in session_map
         /\ idx \in 1..Len(sockets) /\ Len(sockets) \in Nat
<1>1. sockets \in Seq(Clients) /\ idx \in 1..Len(sockets)
  BY DEF SeatInv, TypeInv, TypeOK, ServerTypeOK, LoopInv
<1>2. sockets[idx] \in Clients /\ DOMAIN sockets = 1..Len(sockets) /\ Len(sockets) \in Nat
  BY <1>1, ElementOfSeq, LenProperties
<1> QED
  BY <1>1, <1>2 DEF SeatInv, SessionsMatchSockets, InArray

\* Select, the timer thread and the two announcements: news at most.
LEMMA QuietPackets ==
  ASSUME PacketInv, SeatInv', UNCHANGED clientVars,
         Select \/ TimerThread \/ UpdateTimer \/ UpdateOver
  PROVE  PacketInv'
<1> USE DEF PacketInv
<1>1. TypeOK /\ time_tick \in Nat /\ omok \in Games /\ omok.winner \in Stones
  BY DEF SeatInv, TypeInv, TypeOK, ServerTypeOK, Games
<1>2. UNCHANGED <<netVars, phase, scene, kick, session_map, recv_buffer>>
  BY DEF Select, TimerThread, UpdateTimer, UpdateOver, sessionVars, clientVars
<1>3. pc' # "crashed" /\ omok'.current_turn \in Players
  BY <1>1, TurnIsAPlayers
     DEF Select, TimerThread, UpdateTimer, UpdateOver, loopVars
<1>4. ASSUME NEW c \in Clients PROVE ClientInv(c)'
  <2>1. \/ send_buffer'[c] = send_buffer[c]
        \/ ~Newcomer(c) /\ \E m \in News : send_buffer'[c] = Append(send_buffer[c], m)
    <3>1. CASE send_buffer' = send_buffer
      BY <3>1
    <3>2. CASE Broadcast(ServerTime(time_tick))
      BY <1>1, <3>2, BroadcastQueues, NewsPackets
    <3>3. CASE Broadcast(GameResult(omok.winner, time_tick))
      BY <1>1, <3>3, BroadcastQueues, NewsPackets
    <3> QED
      BY <3>1, <3>2, <3>3 DEF Select, TimerThread, UpdateTimer, UpdateOver, sessionVars
  <2>2. /\ scene' = scene /\ down' = down /\ up' = up /\ kick' = kick
        /\ recv_buffer' = recv_buffer /\ session_map' = session_map
        /\ link' = link /\ phase' = phase /\ backlog' = backlog
    BY <1>2 DEF netVars
  <2>3. /\ Seated(c)' => Seated(c)
        /\ Newcomer(c)' => Newcomer(c)
    BY <2>2 DEF Seated, Newcomer, Connecting
  <2>4. recv_buffer'[c] \in Seq(Requests(scene[c].myOmokStone))
    BY <2>2 DEF ClientInv, Speaks
  <2> QED
    BY <1>1, <2>1, <2>2, <2>3, <2>4, ClientKept
<1> QED
  BY <1>3, <1>4

\* What is parsed is a request, so that the server does not crash; the turn
\* passes on; the sessions get news.
LEMMA ParsePackets ==
  ASSUME PacketInv, SeatInv', UNCHANGED clientVars, Parse
  PROVE  PacketInv'
<1> USE DEF PacketInv
<1> DEFINE c == sockets[idx]
           m == Head(recv_buffer[c])
<1>1. /\ TypeOK /\ omok \in Games /\ pc = "parse" /\ c \in Clients
      /\ recv_buffer[c] # <<>> /\ recv_buffer[c] \in Seq(Requests(scene[c].myOmokStone))
  BY ServedIsSeated
     DEF SeatInv, TypeInv, TypeOK, ServerTypeOK, LoopInv, Parse, ClientInv, Speaks
<1>2. /\ m \in Requests(scene[c].myOmokStone)
      /\ Tail(recv_buffer[c]) \in Seq(Requests(scene[c].myOmokStone))
  BY <1>1, HeadTailProperties
<1>3. IsDropRequest(m) /\ m.stone \in Stones /\ m.stone \in Players /\ m.at \in Cells
  BY <1>2 DEF Requests, IsDropRequest, ClientPackets
<1>4. /\ scene' = scene /\ down' = down /\ up' = up /\ kick' = kick
      /\ recv_buffer' = [recv_buffer EXCEPT ![c] = Tail(@)]
      /\ session_map' = session_map
      /\ link' = link /\ phase' = phase /\ backlog' = backlog
  BY DEF Parse, netVars, clientVars
<1>5. pc' # "crashed"
  BY <1>3 DEF Parse
<1>6. omok'.current_turn \in Players
  <2>1. CASE omok' = omok
    BY <2>1
  <2>2. CASE omok' = CheckGomoku(SwapTurn(DropStone(omok, m.at, m.stone)), m.at, m.stone)
    <3>1. DropStone(omok, m.at, m.stone) \in Games
      BY <1>1, <1>3, DropStoneType
    <3>2. DropStone(omok, m.at, m.stone).current_turn = omok.current_turn
      BY <1>1 DEF DropStone, Games
    <3>3. SwapTurn(DropStone(omok, m.at, m.stone)) \in Games
      BY <3>1, SwapTurnType
    <3> QED
      BY <1>3, <2>2, <3>1, <3>2, <3>3, TurnIsAPlayers
  <2> QED
    BY <2>1, <2>2 DEF Parse, ProcessPacket
<1>7. ASSUME NEW d \in Clients PROVE ClientInv(d)'
  <2>1. \/ send_buffer'[d] = send_buffer[d]
        \/ ~Newcomer(d) /\ \E n \in News : send_buffer'[d] = Append(send_buffer[d], n)
    <3>1. CASE send_buffer' = send_buffer
      BY <3>1
    <3>2. CASE Broadcast(DropResponse(m.stone, m.at))
      <4>1. DropResponse(m.stone, m.at) \in News
        BY <1>3, NewsPackets
      <4> QED
        BY <3>2, <4>1, BroadcastQueues
    <3> QED
      BY <3>1, <3>2 DEF Parse, ProcessPacket
  <2>2. recv_buffer'[d] \in Seq(Requests(scene[d].myOmokStone))
    <3>1. recv_buffer \in [Clients -> Seq(ClientPackets)]
      BY <1>1 DEF TypeOK, ServerTypeOK
    <3>2. CASE d = c
      BY <1>1, <1>2, <1>4, <3>1, <3>2
    <3>3. CASE d # c
      <4>1. recv_buffer'[d] = recv_buffer[d]
        BY <1>4, <3>1, <3>3
      <4> QED
        BY <4>1 DEF ClientInv, Speaks
    <3> QED
      BY <3>2, <3>3
  <2>3. /\ Seated(d)' => Seated(d)
        /\ Newcomer(d)' => Newcomer(d)
    BY <1>4 DEF Seated, Newcomer, Connecting
  <2> QED
    BY <1>1, <1>4, <2>1, <2>2, <2>3, ClientKept
<1> QED
  BY <1>5, <1>6, <1>7

\* recv(): requests move on, whole, to the session's buffer; or the session goes.
LEMMA RecvPackets ==
  ASSUME PacketInv, SeatInv', UNCHANGED clientVars, Recv
  PROVE  PacketInv'
<1> USE DEF PacketInv
<1> PICK c \in Clients : c = sockets[idx]
  BY ServedIsSeated DEF Recv
<1> DEFINE R == Requests(scene[c].myOmokStone)
<1>1. /\ TypeOK /\ pc = "recv" /\ c \in Clients /\ c \in session_map
      /\ idx \in 1..Len(sockets) /\ Len(sockets) \in Nat /\ kick[c] = "none"
  BY ServedIsSeated, SessionsAreKnown DEF SeatInv, TypeInv, Recv
<1>2. /\ omok' = omok /\ scene' = scene /\ phase' = phase /\ kick' = kick
  BY DEF Recv, clientVars
<1>3. pc' # "crashed"
  BY DEF Recv, GotoSocket
<1>4. recv_buffer[c] \in Seq(R) /\ up[c] \in Seq(R)
  <2>1. Said(scene[c].myOmokStone, kick[c]) = R
    BY <1>1 DEF Said
  <2> QED
    BY <1>1, <2>1 DEF ClientInv, Speaks
<1>5. /\ recv_buffer \in [Clients -> Seq(ClientPackets)]
      /\ up \in [Clients -> Seq(ClientPackets)]
      /\ link \in [Clients -> LinkStates]
  BY <1>1 DEF TypeOK, ServerTypeOK, NetTypeOK
<1>6. CASE UNCHANGED <<sessionVars, netVars>>
  <2>1. /\ down' = down /\ up' = up /\ send_buffer' = send_buffer /\ recv_buffer' = recv_buffer
        /\ session_map' = session_map /\ link' = link /\ backlog' = backlog
    BY <1>6 DEF sessionVars, netVars
  <2>2. ASSUME NEW d \in Clients PROVE ClientInv(d)'
    <3>1. (Seated(d)' => Seated(d)) /\ (Newcomer(d)' => Newcomer(d))
      BY <1>2, <2>1 DEF Seated, Newcomer, Connecting
    <3>2. recv_buffer'[d] \in Seq(Requests(scene[d].myOmokStone))
      BY <2>1 DEF ClientInv, Speaks
    <3> QED
      BY <1>1, <1>2, <2>1, <3>1, <3>2, ClientKept
  <2> QED
    BY <1>2, <1>3, <2>2
<1>7. ASSUME NEW n \in 1..Len(up[c]),
             recv_buffer' = [recv_buffer EXCEPT ![c] = @ \o SubSeq(up[c], 1, n)],
             up' = [up EXCEPT ![c] = SubSeq(@, n + 1, Len(@))],
             UNCHANGED <<sockets, session_map, send_buffer, link, backlog, down>>
      PROVE  PacketInv'
  <2>1. Len(up[c]) \in Nat /\ \A i \in 1..Len(up[c]) : up[c][i] \in R
    BY <1>4, ElementOfSeq, LenProperties
  <2>2. SubSeq(up[c], 1, n) \in Seq(R) /\ SubSeq(up[c], n + 1, Len(up[c])) \in Seq(R)
    <3>1. SubSeq(up[c], 1, n) \in Seq(R)
      BY <2>1, SubSeqProperties
    <3>2. SubSeq(up[c], n + 1, Len(up[c])) \in Seq(R)
      BY <2>1, SubSeqProperties
    <3> QED
      BY <3>1, <3>2
  <2>3. recv_buffer[c] \o SubSeq(up[c], 1, n) \in Seq(R)
    BY <1>4, <2>2, ConcatProperties
  <2>4. recv_buffer'[c] \in Seq(R) /\ up'[c] \in Seq(R)
    BY <1>1, <1>5, <1>7, <2>2, <2>3
  <2>5. \A d \in Clients \ {c} : recv_buffer'[d] = recv_buffer[d] /\ up'[d] = up[d]
    BY <1>5, <1>7
  <2>6. \A d \in Clients : (Seated(d)' => Seated(d)) /\ (Newcomer(d)' => Newcomer(d))
    BY <1>2, <1>7 DEF Seated, Newcomer, Connecting
  <2>7. ClientInv(c)'
    <3>1. Speaks(c)'
      BY <1>1, <1>2, <2>4 DEF ClientInv, Speaks, Said
    <3> QED
      BY <1>1, <1>2, <1>7, <2>6, <3>1 DEF ClientInv, Silent, BeingTold, Informed
  <2>8. ASSUME NEW d \in Clients \ {c} PROVE ClientInv(d)'
    <3>1. recv_buffer'[d] \in Seq(Requests(scene[d].myOmokStone))
      BY <2>5 DEF ClientInv, Speaks
    <3> QED
      BY <1>1, <1>2, <1>7, <2>5, <2>6, <3>1, ClientKept
  <2> QED
    BY <1>2, <1>3, <2>7, <2>8
<1>8. ASSUME RemoveSocketInfo(idx), session_map' = session_map \ {c},
             UNCHANGED <<send_buffer, recv_buffer, backlog, down>>
      PROVE  PacketInv'
  <2>1. link' = [link EXCEPT ![c] = "closed"] /\ up' = [up EXCEPT ![c] = <<>>]
    BY <1>8 DEF RemoveSocketInfo
  <2>2. \A d \in Clients \ {c} : link'[d] = link[d] /\ up'[d] = up[d]
    BY <1>5, <2>1
  <2>3. up'[c] = <<>> /\ link'[c] = "closed"
    BY <1>1, <1>5, <2>1
  <2>4. \A d \in Clients : (Seated(d)' => Seated(d)) /\ (Newcomer(d)' => Newcomer(d))
    BY <1>2, <1>8, <2>2, <2>3 DEF Seated, Newcomer, Connecting
  <2>5. ClientInv(c)'
    <3>1. Speaks(c)'
      BY <1>1, <1>2, <1>8, <2>3, EmptySeq DEF ClientInv, Speaks
    <3> QED
      BY <1>1, <1>2, <1>8, <2>4, <3>1 DEF ClientInv, Silent, BeingTold, Informed
  <2>6. ASSUME NEW d \in Clients \ {c} PROVE ClientInv(d)'
    <3>1. recv_buffer'[d] \in Seq(Requests(scene[d].myOmokStone))
      BY <1>8 DEF ClientInv, Speaks
    <3> QED
      BY <1>1, <1>2, <1>8, <2>2, <2>4, <3>1, ClientKept
  <2> QED
    BY <1>2, <1>3, <2>5, <2>6
<1> QED
  BY <1>6, <1>7, <1>8 DEF Recv, RemoveSession

\* send(): the whole queue moves on to the client, behind what it has not
\* read yet; or it is lost, with the seat.
LEMMA SendPackets ==
  ASSUME PacketInv, SeatInv', UNCHANGED clientVars, Send
  PROVE  PacketInv'
<1> USE DEF PacketInv
<1> PICK c \in Clients : c = sockets[idx]
  BY ServedIsSeated DEF Send
<1>1. /\ TypeOK /\ pc = "send" /\ c \in Clients /\ ~Newcomer(c) /\ kick[c] = "none"
      /\ retval # "error"
  BY ServedIsSeated, SessionsAreKnown DEF SeatInv, TypeInv, RetvalInv, Send
<1>2. /\ omok' = omok /\ scene' = scene /\ phase' = phase /\ kick' = kick
      /\ recv_buffer' = recv_buffer /\ session_map' = session_map /\ backlog' = backlog
  BY DEF Send, clientVars
<1>3. pc' # "crashed"
  BY DEF Send, GotoSocket
<1>4. /\ send_buffer \in [Clients -> Seq(ServerPackets)]
      /\ down \in [Clients -> Seq(ServerPackets)]
  BY <1>1 DEF TypeOK, ServerTypeOK, NetTypeOK
<1>5. link' = link /\ up' = up
  BY <1>1 DEF Send, Transmit
<1>6. \A d \in Clients : (Seated(d)' => Seated(d)) /\ (Newcomer(d)' => Newcomer(d))
  BY <1>2, <1>5 DEF Seated, Newcomer, Connecting
<1>7. \A d \in Clients : Speaks(d)'
  BY <1>2, <1>5 DEF ClientInv, Speaks
<1>8. ASSUME NEW d \in Clients, send_buffer'[d] = send_buffer[d], down'[d] = down[d]
      PROVE  ClientInv(d)'
  BY <1>2, <1>6, <1>7, <1>8 DEF ClientInv, Silent, BeingTold, Informed
<1>9. CASE UNCHANGED <<send_buffer, down>>
  BY <1>2, <1>3, <1>8, <1>9
<1>10. CASE Transmit(c)
  <2>1. \A d \in Clients \ {c} : send_buffer'[d] = send_buffer[d] /\ down'[d] = down[d]
    BY <1>4, <1>10 DEF Transmit
  <2>2. ClientInv(c)'
    <3>1. CASE /\ link[c] = "open"
               /\ down' = [down EXCEPT ![c] = @ \o send_buffer[c]]
               /\ send_buffer' = [send_buffer EXCEPT ![c] = <<>>]
      <4>1. down'[c] = down[c] \o send_buffer[c] /\ send_buffer'[c] = <<>>
        BY <1>1, <1>4, <3>1
      <4>2. /\ down[c] \in Seq(ServerPackets) /\ send_buffer[c] \in Seq(ServerPackets)
            /\ <<>> \in Seq(News)
        BY <1>1, <1>4, EmptySeq
      <4>3. CASE BeingTold(c)
        <5>1. Leads(down'[c])
          <6>1. CASE down[c] = <<>> /\ Leads(send_buffer[c])
            BY <4>1, <4>2, <6>1, ConcatEmptySeq
          <6>2. CASE Leads(down[c]) /\ send_buffer[c] \in Seq(News)
            BY <4>1, <4>2, <6>2, LeadsConcat
          <6> QED
            BY <4>3, <6>1, <6>2 DEF BeingTold
        <5> QED
          BY <1>1, <1>2, <1>6, <1>7, <4>1, <4>2, <4>3, <5>1 DEF ClientInv, BeingTold
      <4>4. CASE Informed(c)
        <5>1. send_buffer[c] \in Seq(Told(kick[c])) /\ down[c] \in Seq(Told(kick[c]))
          BY <4>4, SeqMonotonic DEF Informed, Told
        <5>2. down'[c] \in Seq(Told(kick[c]))
          BY <4>1, <5>1, ConcatProperties
        <5> QED
          BY <1>1, <1>2, <1>6, <1>7, <4>1, <4>2, <4>4, <5>2 DEF ClientInv, Informed
      <4> QED
        BY <1>1, <4>3, <4>4 DEF ClientInv
    <3>2. CASE /\ link[c] # "open" /\ UNCHANGED down
               /\ send_buffer' = [send_buffer EXCEPT ![c] = <<>>]
      <4>1. down'[c] = down[c] /\ send_buffer'[c] = <<>> /\ ~Seated(c)'
        BY <1>1, <1>4, <1>5, <3>2 DEF Seated
      <4>2. \A S : <<>> \in Seq(S)
        BY EmptySeq
      <4> QED
        BY <1>1, <1>2, <1>6, <1>7, <4>1, <4>2 DEF ClientInv, BeingTold, Informed
    <3>3. CASE send_buffer' = send_buffer /\ down' = down
      BY <1>1, <1>8, <3>3
    <3> QED
      BY <1>10, <3>1, <3>2, <3>3 DEF Transmit
  <2> QED
    BY <1>2, <1>3, <1>8, <2>1, <2>2
<1> QED
  BY <1>1, <1>9, <1>10 DEF Send

\* accept(): a newcomer to whom nothing was said gets a colour, as its first
\* packet, or a kick thread, or has already gone.
LEMMA AcceptPackets ==
  ASSUME PacketInv, SeatInv', UNCHANGED clientVars, Accept
  PROVE  PacketInv'
<1> USE DEF PacketInv
<1>1. /\ TypeOK /\ omok \in Games
      /\ kick \in [Clients -> KickStates]
      /\ send_buffer \in [Clients -> Seq(ServerPackets)]
  BY DEF SeatInv, TypeInv, TypeOK, ServerTypeOK
<1>2. /\ scene' = scene /\ phase' = phase /\ recv_buffer' = recv_buffer
      /\ down' = down /\ up' = up /\ link' = link
  BY DEF Accept, sessionVars, Seat, TurnAway, AcceptFails, clientVars
<1>3. pc' # "crashed"
  BY DEF Accept, GotoSocket
<1>4. ASSUME NEW d \in Clients,
             kick'[d] = kick[d], send_buffer'[d] = send_buffer[d],
             d \in session_map' => d \in session_map,
             (\E i \in DOMAIN backlog' : backlog'[i] = d)
               => \E i \in DOMAIN backlog : backlog[i] = d
      PROVE  ClientInv(d)'
  <2>1. (Seated(d)' => Seated(d)) /\ (Newcomer(d)' => Newcomer(d))
    BY <1>2, <1>4 DEF Seated, Newcomer, Connecting
  <2>2. recv_buffer'[d] \in Seq(Requests(scene[d].myOmokStone))
    BY <1>2 DEF ClientInv, Speaks
  <2> QED
    BY <1>1, <1>2, <1>4, <2>1, <2>2, ClientKept
<1>5. CASE ~incoming
  <2>1. UNCHANGED <<backlog, sessionVars, omok, kick>>
    BY <1>5 DEF Accept
  <2> QED
    BY <1>3, <1>4, <2>1 DEF sessionVars
<1>6. CASE incoming
  <2>1. backlog \in Seq(Clients) /\ backlog # <<>>
    BY <1>6 DEF SeatInv, TypeInv, TypeOK, NetTypeOK, LoopInv, Accept
  <2>2. /\ Head(backlog) \in Clients /\ 1 \in DOMAIN backlog /\ Head(backlog) = backlog[1]
        /\ Tail(backlog) \in Seq(Clients) /\ DOMAIN Tail(backlog) = 1..Len(Tail(backlog))
        /\ \A i \in DOMAIN Tail(backlog) :
             i + 1 \in DOMAIN backlog /\ Tail(backlog)[i] = backlog[i + 1]
    <3>1. Len(backlog) \in Nat \ {0} /\ DOMAIN backlog = 1..Len(backlog)
      BY <2>1, EmptySeq, LenProperties
    <3>2. /\ Head(backlog) \in Clients /\ Tail(backlog) \in Seq(Clients)
          /\ Len(Tail(backlog)) = Len(backlog) - 1
          /\ \A i \in 1..Len(Tail(backlog)) : Tail(backlog)[i] = backlog[i + 1]
      BY <2>1, HeadTailProperties
    <3>3. DOMAIN Tail(backlog) = 1..Len(Tail(backlog))
      BY <3>2, LenProperties
    <3> QED
      BY <3>1, <3>2, <3>3
  <2> PICK c \in Clients : c = Head(backlog)
    BY <2>2
  <2>3. backlog' = Tail(backlog) /\ (Seat(c) \/ TurnAway(c) \/ AcceptFails(c))
    BY <1>6 DEF Accept
  <2>4. /\ Newcomer(c) /\ Silent(c)
        /\ c \notin session_map /\ kick[c] = "none" /\ ~Connecting(c)
    BY <2>2 DEF ClientInv, Newcomer, SeatInv, StageInv, OnePlaceAtATime
  <2>5. \A i \in DOMAIN backlog' : backlog'[i] # c
    <3>1. \A i, j \in DOMAIN backlog : backlog[i] = backlog[j] => i = j
      BY DEF SeatInv, StageInv, OnePlaceAtATime
    <3>2. \A i \in DOMAIN Tail(backlog) : i + 1 # 1
      BY <2>2
    <3> QED
      BY <2>2, <2>3, <3>1, <3>2
  <2>6. \A d \in Clients :
          (\E i \in DOMAIN backlog' : backlog'[i] = d)
            => \E i \in DOMAIN backlog : backlog[i] = d
    BY <2>2, <2>3
  <2>7. /\ recv_buffer[c] \in Seq(Requests(OMOK_EMPTY)) /\ up[c] \in Seq(Said(OMOK_EMPTY, "none"))
        /\ scene[c].current_turn \in Players /\ scene[c].myOmokStone = OMOK_EMPTY
    BY <2>4 DEF ClientInv, Speaks, Silent
  <2>8. CASE Seat(c)
    <3> DEFINE m == AssignStone(omok.current_turn)
    <3>1. /\ send_buffer' = [send_buffer EXCEPT ![c] = <<m>>] /\ omok' = SwapTurn(omok)
          /\ session_map' = session_map \cup {c} /\ kick' = kick
      BY <2>8 DEF Seat, AssignStoneType, InsertSession
    <3>2. omok'.current_turn \in Players
      BY <1>1, <3>1, TurnIsAPlayers
    <3>3. Leads(<<m>>)
      <4>1. m \in Assignments
        BY NewsPackets
      <4>2. Tail(<<m>>) \in Seq(News)
        OBVIOUS
      <4> QED
        BY <4>1, <4>2 DEF Leads
    <3>4. send_buffer'[c] = <<m>>
      BY <1>1, <3>1
    <3>5. ~Newcomer(c)'
      BY <1>2, <2>4, <2>5, <3>1 DEF Newcomer, Connecting
    <3>6. ClientInv(c)'
      <4>1. BeingTold(c)'
        BY <1>2, <2>4, <3>3, <3>4 DEF BeingTold, Silent
      <4>2. Speaks(c)'
        BY <1>2, <3>1 DEF ClientInv, Speaks
      <4> QED
        BY <3>5, <4>1, <4>2 DEF ClientInv
    <3>7. \A d \in Clients \ {c} : send_buffer'[d] = send_buffer[d]
      BY <1>1, <3>1
    <3>8. \A d \in Clients \ {c} : ClientInv(d)'
      BY <1>4, <2>6, <3>1, <3>7
    <3> QED
      BY <1>3, <3>2, <3>6, <3>8
  <2>9. CASE TurnAway(c)
    <3>1. /\ UNCHANGED <<sessionVars, omok>> /\ kick' = [kick EXCEPT ![c] = "notify"]
      BY <2>9 DEF TurnAway
    <3>2. ClientInv(c)'
      <4>1. Silent(c)'
        BY <1>2, <2>4, <3>1 DEF Silent, sessionVars
      <4>2. ~Seated(c)'
        BY <2>4, <3>1 DEF Seated, sessionVars
      <4>3. Informed(c)'
        BY <4>1, <4>2, EmptySeq DEF Informed, Silent
      <4>4. up[c] \in Seq(Said(OMOK_EMPTY, kick'[c]))
        <5>1. Said(OMOK_EMPTY, "none") \subseteq Said(OMOK_EMPTY, kick'[c])
          BY DEF Said
        <5> QED
          BY <2>7, <5>1, SeqMonotonic
      <4>5. Speaks(c)'
        BY <1>2, <2>7, <4>4 DEF Speaks
      <4> QED
        BY <4>1, <4>3, <4>5 DEF ClientInv
    <3>3. \A d \in Clients \ {c} : kick'[d] = kick[d]
      BY <1>1, <3>1
    <3>4. \A d \in Clients \ {c} : ClientInv(d)'
      BY <1>4, <2>6, <3>1, <3>3 DEF sessionVars
    <3> QED
      BY <1>3, <3>1, <3>2, <3>4
  <2>10. CASE AcceptFails(c)
    BY <1>3, <1>4, <2>6, <2>10 DEF AcceptFails, sessionVars
  <2> QED
    BY <2>3, <2>8, <2>9, <2>10
<1> QED
  BY <1>5, <1>6

\* A kick thread says its one packet to a connection that has no seat, and
\* takes whatever comes back.
LEMMA KickPackets ==
  ASSUME PacketInv, SeatInv', UNCHANGED clientVars, NEW c \in Clients, KickThread(c)
  PROVE  PacketInv'
<1> USE DEF PacketInv
<1>1. /\ TypeOK /\ kick \in [Clients -> KickStates]
      /\ down \in [Clients -> Seq(ServerPackets)]
      /\ up \in [Clients -> Seq(ClientPackets)] /\ link \in [Clients -> LinkStates]
  BY DEF SeatInv, TypeInv, TypeOK, ServerTypeOK, NetTypeOK
<1>2. /\ scene' = scene /\ phase' = phase /\ recv_buffer' = recv_buffer
      /\ send_buffer' = send_buffer /\ session_map' = session_map /\ backlog' = backlog
      /\ omok' = omok /\ pc' = pc
  BY DEF KickThread, KickNotify, KickAnswered, KickUnanswered, loopVars, sessionVars,
         netVars, clientVars
<1>3. kick[c] # "none" /\ kick'[c] \notin {"none", "notify"}
  BY <1>1 DEF KickThread, KickNotify, KickAnswered, KickUnanswered
<1>4. /\ \A d \in Clients \ {c} : /\ kick'[d] = kick[d] /\ down'[d] = down[d]
                                  /\ up'[d] = up[d] /\ link'[d] = link[d]
      /\ up'[c] = up[c] \/ up'[c] = <<>>
  BY <1>1 DEF KickThread, KickNotify, KickAnswered, KickUnanswered, netVars
<1>5. ~Seated(c) /\ ~Seated(c)' /\ ~Newcomer(c)'
  <2>1. /\ c \notin session_map /\ ~Connecting(c)
        /\ ~\E i \in DOMAIN backlog : backlog[i] = c
    BY <1>3 DEF SeatInv, StageInv, OnePlaceAtATime
  <2> QED
    BY <1>2, <1>3, <2>1 DEF Seated, Newcomer, Connecting
<1>6. ClientInv(c)'
  <2>1. Speaks(c)'
    <3>1. Said(scene[c].myOmokStone, kick[c]) = Said(scene[c].myOmokStone, kick'[c])
      BY <1>3 DEF Said
    <3> QED
      BY <1>2, <1>4, <3>1, EmptySeq DEF ClientInv, Speaks
  <2>2. (BeingTold(c) \/ Informed(c))'
    <3>1. Told(kick'[c]) = Told(kick[c]) /\ NotifyKick \in Told(kick[c])
      BY <1>3 DEF Told
    <3>2. CASE down'[c] = down[c]
      BY <1>2, <1>5, <3>1, <3>2 DEF ClientInv, BeingTold, Informed
    <3>3. CASE kick[c] = "notify" /\ down'[c] = Append(down[c], NotifyKick)
      <4>1. down[c] = <<>> /\ send_buffer[c] = <<>>
        BY <3>3 DEF ClientInv, Newcomer, Silent
      <4>2. down[c] \in Seq(Told(kick[c])) /\ send_buffer[c] \in Seq(News)
        BY <4>1, EmptySeq
      <4>3. down'[c] \in Seq(Told(kick[c]))
        BY <3>1, <3>3, <4>2, AppendProperties
      <4> QED
        BY <1>2, <1>5, <3>1, <4>2, <4>3 DEF Informed
    <3> QED
      BY <1>1, <3>2, <3>3 DEF KickThread, KickNotify, KickAnswered, KickUnanswered, netVars
  <2> QED
    BY <1>5, <2>1, <2>2 DEF ClientInv
<1>7. ASSUME NEW d \in Clients \ {c} PROVE ClientInv(d)'
  <2>1. (Seated(d)' => Seated(d)) /\ (Newcomer(d)' => Newcomer(d))
    BY <1>2, <1>4 DEF Seated, Newcomer, Connecting
  <2>2. recv_buffer'[d] \in Seq(Requests(scene[d].myOmokStone))
    BY <1>2 DEF ClientInv, Speaks
  <2> QED
    BY <1>1, <1>2, <1>4, <2>1, <2>2, ClientKept
<1> QED
  BY <1>2, <1>6, <1>7

\* Processing a packet keeps the turn a player's, and changes the colour only
\* if it assigns one.
LEMMA ProcessColour ==
  ASSUME NEW s \in Scenes, NEW m \in ServerPackets, s.current_turn \in Players
  PROVE  /\ Process(s, m).current_turn \in Players
         /\ m \in News \cup {NotifyKick} => Process(s, m).myOmokStone = s.myOmokStone
         /\ m \in Assignments => Process(s, m).myOmokStone \in Players
<1>1. CASE m.type = "SC_ASSIGN_STONE"
  BY <1>1 DEF Process, Scenes, News, NotifyKick, Assignments
<1>2. CASE m.type = "SC_NOTIFY_SERVER_TIME"
  BY <1>2 DEF Process, Scenes, Assignments
<1>3. CASE m.type = "SC_DROP_STONE_RESPONSE"
  <2>1. Process(s, m) = [s EXCEPT !.gomoku = [@ EXCEPT ![m.at] = m.stone],
                                  !.current_turn = OtherStone(@)]
    BY <1>3 DEF Process
  <2> QED
    BY <1>3, <2>1, TurnIsAPlayers DEF Scenes, Assignments
<1>4. CASE m.type = "SC_NOTIFY_GAME_RESULT"
  BY <1>4 DEF Process, Scenes, Assignments
<1>5. CASE m.type = "SC_NOTIFY_KICK"
  BY <1>5 DEF Process, Assignments
<1> QED
  BY <1>1, <1>2, <1>3, <1>4, <1>5 DEF ServerPackets

\* Requests of no colour are none, and so are requests of any.
LEMMA NoRequests ==
  \A s : Requests(OMOK_EMPTY) \subseteq Requests(s)
BY DEF Requests, Players, OMOK_EMPTY, OMOK_BLACK, OMOK_WHITE

\* A frame of a client: it learns its colour from the one assignment before
\* it can click, and after that clicks for that colour only.
LEMMA UpdatePackets ==
  ASSUME PacketInv, SeatInv', NEW c \in Clients, NEW clicking \in BOOLEAN,
         Update(c, clicking), UNCHANGED serverVars
  PROVE  ClientInv(c)'
<1> USE DEF PacketInv
<1> DEFINE my == scene[c].myOmokStone
<1>1. /\ down \in [Clients -> Seq(ServerPackets)] /\ up \in [Clients -> Seq(ClientPackets)]
      /\ scene \in [Clients -> Scenes] /\ phase[c] = "scene"
      /\ send_buffer[c] \in Seq(ServerPackets)
  BY DEF SeatInv, TypeInv, TypeOK, NetTypeOK, ServerTypeOK, ClientTypeOK, Update
<1>2. /\ send_buffer' = send_buffer /\ recv_buffer' = recv_buffer /\ kick' = kick
      /\ session_map' = session_map /\ link' = link /\ backlog' = backlog
  BY DEF Update, serverVars, sessionVars
<1>3. phase' \in [Clients -> Phases] /\ (phase'[c] = "scene" \/ phase'[c] = "cut")
  BY <1>1 DEF Update, Exchange, SeatInv, TypeInv, TypeOK, ClientTypeOK
<1>4. (Seated(c)' => Seated(c)) /\ (Newcomer(c)' => Newcomer(c))
  BY <1>2, <1>3 DEF Seated, Newcomer, Connecting
<1> PICK clicked \in Clicks(c) \cup {<<>>} : Exchange(c, clicked)
  BY DEF Update
<1>5. clicked \in Seq(Requests(my)) /\ (my = OMOK_EMPTY => clicked = <<>>)
  <2>1. CASE clicked = <<>>
    BY <2>1, EmptySeq
  <2>2. ASSUME MyTurn(c), NEW p \in Cells, clicked = <<DropRequest(my, p)>>
        PROVE  <1>5
    <3>1. my \in Players
      BY <2>2 DEF MyTurn, ClientInv, Speaks
    <3>2. DropRequest(my, p) \in Requests(my)
      BY <3>1 DEF DropRequest, Requests, ClientPackets, Players, Stones
    <3>3. <<DropRequest(my, p)>> \in Seq(Requests(my))
      BY <3>2
    <3> QED
      BY <2>2, <3>1, <3>3 DEF Players, OMOK_EMPTY, OMOK_BLACK, OMOK_WHITE
  <2> QED
    BY <2>1, <2>2 DEF Clicks
<1>6. up[c] \o clicked \in Seq(Said(my, kick[c]))
  <2>1. clicked \in Seq(Said(my, kick[c]))
    BY <1>5, SeqMonotonic DEF Said
  <2> QED
    BY <2>1, ConcatProperties DEF ClientInv, Speaks
<1>7. CASE /\ down[c] # <<>>
           /\ scene' = [scene EXCEPT ![c] = Process(@, Head(down[c]))]
           /\ down' = [down EXCEPT ![c] = Tail(@)]
           /\ up' = [up EXCEPT ![c] = @ \o clicked \o Replies(Head(down[c]))]
  <2> DEFINE m == Head(down[c])
  <2>1. m \in ServerPackets /\ ~Newcomer(c)
    BY <1>1, <1>7, HeadTailProperties DEF ClientInv, Silent
  <2>2. /\ scene'[c] = Process(scene[c], m) /\ down'[c] = Tail(down[c])
        /\ up'[c] = up[c] \o clicked \o Replies(m)
    BY <1>1, <1>7
  <2>3. scene[c] \in Scenes /\ scene[c].current_turn \in Players
    BY <1>1 DEF ClientInv, Speaks
  <2>4. scene'[c].current_turn \in Players
    BY <2>1, <2>2, <2>3, ProcessColour
  <2>5. CASE BeingTold(c)
    <3>1. Leads(down[c]) /\ send_buffer[c] \in Seq(News) /\ my = OMOK_EMPTY
      BY <1>7, <2>5 DEF BeingTold
    <3>2. m \in Assignments /\ Tail(down[c]) \in Seq(News)
      BY <3>1 DEF Leads
    <3>3. scene'[c].myOmokStone \in Players
      BY <2>1, <2>2, <2>3, <3>2, ProcessColour
    <3>4. Informed(c)'
      <4>1. Tail(down[c]) \in Seq(Told(kick[c]))
        BY <3>2, SeqMonotonic DEF Told
      <4> QED
        BY <1>2, <2>2, <3>1, <3>3, <4>1
           DEF Informed, Players, OMOK_EMPTY, OMOK_BLACK, OMOK_WHITE
    <3>5. Speaks(c)'
      <4>1. Requests(my) \subseteq Requests(scene'[c].myOmokStone)
        BY <3>1, NoRequests
      <4>2. Said(my, kick[c]) \subseteq Said(scene'[c].myOmokStone, kick[c])
        BY <4>1 DEF Said
      <4>3. recv_buffer[c] \in Seq(Requests(scene'[c].myOmokStone))
        <5>1. recv_buffer[c] \in Seq(Requests(my))
          BY DEF ClientInv, Speaks
        <5> QED
          BY <4>1, <5>1, SeqMonotonic
      <4>4. Replies(m) = <<>>
        BY <3>2 DEF Replies, Assignments
      <4>5. up'[c] = up[c] \o clicked
        BY <1>6, <2>2, <4>4, ConcatEmptySeq
      <4>6. up'[c] \in Seq(Said(scene'[c].myOmokStone, kick[c]))
        BY <1>6, <4>2, <4>5, SeqMonotonic
      <4> QED
        BY <1>2, <2>4, <4>3, <4>6 DEF Speaks
    <3> QED
      BY <1>4, <2>1, <3>4, <3>5 DEF ClientInv
  <2>6. CASE Informed(c)
    <3>1. m \in Told(kick[c]) /\ Tail(down[c]) \in Seq(Told(kick[c]))
      BY <1>7, <2>6, HeadTailProperties DEF Informed
    <3>2. m \in News \cup {NotifyKick}
      BY <3>1 DEF Told
    <3>3. scene'[c].myOmokStone = my
      BY <2>1, <2>2, <2>3, <3>2, ProcessColour
    <3>4. Informed(c)'
      BY <1>2, <1>4, <2>2, <2>6, <3>1, <3>3 DEF Informed
    <3>5. Replies(m) \in Seq(Said(my, kick[c]))
      <4>1. CASE m.type = "SC_NOTIFY_KICK"
        <5>1. kick[c] # "none"
          BY <3>1, <4>1 DEF Told, News
        <5>2. KickAnswer \in Said(my, kick[c])
          BY <5>1 DEF Said
        <5> QED
          BY <4>1, <5>2 DEF Replies
      <4>2. CASE m.type # "SC_NOTIFY_KICK"
        BY <4>2, EmptySeq DEF Replies
      <4> QED
        BY <4>1, <4>2
    <3>6. up'[c] \in Seq(Said(my, kick[c]))
      BY <1>6, <2>2, <3>5, ConcatProperties
    <3>7. Speaks(c)'
      BY <1>2, <2>4, <3>3, <3>6 DEF ClientInv, Speaks
    <3> QED
      BY <1>4, <2>1, <3>4, <3>7 DEF ClientInv
  <2> QED
    BY <2>5, <2>6 DEF ClientInv
<1>8. CASE UNCHANGED <<scene, down, up>>
  BY <1>2, <1>4, <1>8 DEF ClientInv, Silent, BeingTold, Informed, Speaks
<1>9. CASE up' = [up EXCEPT ![c] = @ \o clicked] /\ UNCHANGED <<scene, down>>
  <2>1. up'[c] \in Seq(Said(my, kick[c]))
    BY <1>1, <1>6, <1>9
  <2> QED
    BY <1>2, <1>4, <1>9, <2>1 DEF ClientInv, Silent, BeingTold, Informed, Speaks
<1> QED
  BY <1>7, <1>8, <1>9 DEF Exchange

\* The client programs.
LEMMA ClientPacketsStep ==
  ASSUME PacketInv, SeatInv', NEW c \in Clients, NEW clicking \in BOOLEAN,
         ClientNext(c, clicking), UNCHANGED serverVars
  PROVE  PacketInv'
<1> USE DEF PacketInv
<1>1. /\ TypeOK /\ down \in [Clients -> Seq(ServerPackets)]
      /\ up \in [Clients -> Seq(ClientPackets)] /\ link \in [Clients -> LinkStates]
      /\ scene \in [Clients -> Scenes] /\ phase \in [Clients -> Phases]
      /\ backlog \in Seq(Clients)
  BY DEF SeatInv, TypeInv, TypeOK, NetTypeOK, ClientTypeOK
<1>2. /\ send_buffer' = send_buffer /\ recv_buffer' = recv_buffer /\ kick' = kick
      /\ session_map' = session_map /\ omok' = omok /\ pc' = pc
  BY DEF serverVars, sessionVars, loopVars
<1>3. \A d \in Clients \ {c} :
        /\ scene'[d] = scene[d] /\ phase'[d] = phase[d] /\ link'[d] = link[d]
        /\ up'[d] = up[d] /\ down'[d] = down[d]
  <2>1. CASE Update(c, clicking)
    <3>1. PICK clicked \in Clicks(c) \cup {<<>>} : Exchange(c, clicked)
      BY <2>1 DEF Update
    <3> QED
      BY <1>1, <2>1, <3>1 DEF Update, Exchange
  <2>2. CASE ~Update(c, clicking)
    BY <1>1, <2>2 DEF ClientNext, Connect, Connected, UpdateTooEarly, ExitScene,
                      CloseWindow, netVars
  <2> QED
    BY <2>1, <2>2
<1>4. \A d \in Clients : (\E i \in DOMAIN backlog' : backlog'[i] = d)
        => \/ \E i \in DOMAIN backlog : backlog[i] = d
           \/ Connected(c) /\ d = c
  <2>1. CASE backlog' = backlog
    BY <2>1
  <2>2. CASE Connected(c) /\ backlog' = Append(backlog, c)
    BY <1>1, <2>2, AppendProperties, LenProperties
  <2> QED
    BY <2>1, <2>2 DEF ClientNext, Connect, Connected, UpdateTooEarly, Update, ExitScene,
                      CloseWindow, netVars
<1>5. ASSUME NEW d \in Clients \ {c} PROVE ClientInv(d)'
  <2>1. (Seated(d)' => Seated(d)) /\ (Newcomer(d)' => Newcomer(d))
    BY <1>2, <1>3, <1>4 DEF Seated, Newcomer, Connecting
  <2>2. recv_buffer'[d] \in Seq(Requests(scene[d].myOmokStone))
    BY <1>2 DEF ClientInv, Speaks
  <2> QED
    BY <1>1, <1>2, <1>3, <2>1, <2>2, ClientKept
<1>6. ClientInv(c)'
  <2>1. CASE Update(c, clicking)
    BY <2>1, UpdatePackets
  <2>2. CASE Connect(c) \/ UpdateTooEarly(c) \/ ExitScene(c)
    <3>1. UNCHANGED <<scene, netVars>> /\ (Connecting(c)' => Connecting(c))
      BY <1>1, <2>2 DEF Connect, UpdateTooEarly, ExitScene, Connecting
    <3>2. (Seated(c)' => Seated(c)) /\ (Newcomer(c)' => Newcomer(c))
      BY <1>2, <3>1 DEF Seated, Newcomer, netVars
    <3> QED
      BY <1>2, <3>1, <3>2 DEF ClientInv, Silent, BeingTold, Informed, Speaks, netVars
  <2>3. CASE Connected(c)
    <3>1. Connecting(c) /\ UNCHANGED <<scene, up, down>>
      BY <2>3 DEF Connected, Connecting
    <3>2. Silent(c) /\ c \notin session_map
      BY <3>1 DEF ClientInv, Newcomer, SeatInv, StageInv
    <3>3. Silent(c)' /\ ~Seated(c)'
      BY <1>2, <3>1, <3>2 DEF Silent, Seated
    <3>4. Informed(c)'
      BY <3>3, EmptySeq DEF Informed, Silent
    <3>5. Speaks(c)'
      BY <1>2, <3>1 DEF ClientInv, Speaks
    <3> QED
      BY <3>3, <3>4, <3>5 DEF ClientInv
  <2>4. CASE CloseWindow(c)
    <3>1. /\ scene' = scene /\ backlog' = backlog /\ phase'[c] = "gone"
          /\ link'[c] # "open" /\ down'[c] = <<>> /\ (up'[c] = up[c] \/ up'[c] = <<>>)
      BY <1>1, <2>4 DEF CloseWindow
    <3>2. ~Seated(c)' /\ (Newcomer(c)' => Newcomer(c))
      BY <1>2, <3>1 DEF Seated, Newcomer, Connecting
    <3>3. Speaks(c)'
      BY <1>2, <3>1, EmptySeq DEF ClientInv, Speaks
    <3>4. Newcomer(c)' => Silent(c)'
      BY <1>2, <3>1, <3>2 DEF ClientInv, Silent
    <3>5. (BeingTold(c) \/ Informed(c))'
      BY <1>2, <3>1, <3>2, EmptySeq DEF ClientInv, BeingTold, Informed
    <3> QED
      BY <3>3, <3>4, <3>5 DEF ClientInv
  <2> QED
    BY <2>1, <2>2, <2>3, <2>4 DEF ClientNext
<1> QED
  BY <1>2, <1>5, <1>6

LEMMA PacketStep == PacketInv /\ [Next]_vars => PacketInv'
<1> SUFFICES ASSUME PacketInv, [Next]_vars PROVE PacketInv'
  OBVIOUS
<1>1. SeatInv'
  BY SeatStep DEF PacketInv
<1>2. CASE ServerStep
  BY <1>1, <1>2, QuietPackets, AcceptPackets, RecvPackets, ParsePackets, SendPackets, KickPackets
     DEF ServerStep, ServerNext, NetworkThread
<1>3. ASSUME NEW c \in Clients, ClientStep(c) PROVE PacketInv'
  <2>1. MayClick(c) \in BOOLEAN
    BY DEF MayClick
  <2> QED
    BY <1>1, <1>3, <2>1, ClientPacketsStep DEF ClientStep
<1>4. CASE UNCHANGED vars
  BY <1>1, <1>4
     DEF vars, netVars, serverVars, clientVars, loopVars, sessionVars, PacketInv, ClientInv,
         Newcomer, Connecting, Silent, BeingTold, Informed, Speaks, Seated
<1> QED
  BY <1>2, <1>3, <1>4 DEF Next

LEMMA PacketInvariant == Spec => []PacketInv
<1>1. Init => PacketInv
  BY InitPackets
<1>2. PacketInv /\ [Next]_vars => PacketInv'
  BY PacketStep
<1> QED
  BY <1>1, <1>2, PTL DEF Spec

(***************************************************************************)
(* What follows                                                            *)
(***************************************************************************)

\* The network thread never parses a packet it does not know: none of the
\* players, of those who wait and of those turned away can make
\* Session::process_packet reach its default case.
THEOREM ServerGoesOn == Spec => []ParseNeverCrashes
<1>1. PacketInv => ParseNeverCrashes
  BY DEF PacketInv, ParseNeverCrashes
<1> QED
  BY <1>1, PacketInvariant, PTL

\* A seated client is told its colour once, and before anything else.
THEOREM ColourIsFirst == Spec => []ColourComesFirst
<1>1. PacketInv => ColourComesFirst
  <2> SUFFICES ASSUME PacketInv, NEW c \in Clients, Seated(c)
               PROVE  {i \in DOMAIN Pending(c) : Pending(c)[i].type = "SC_ASSIGN_STONE"}
                        = IF scene[c].myOmokStone = OMOK_EMPTY THEN {1} ELSE {}
    BY DEF ColourComesFirst
  <2>1. down[c] \in Seq(ServerPackets) /\ send_buffer[c] \in Seq(ServerPackets)
    BY DEF PacketInv, SeatInv, TypeInv, TypeOK, NetTypeOK, ServerTypeOK
  <2>2. Pending(c) \in Seq(ServerPackets)
    BY <2>1, ConcatProperties DEF Pending
  <2>3. DOMAIN Pending(c) = 1..Len(Pending(c)) /\ Len(Pending(c)) \in Nat
    BY <2>2, LenProperties
  <2>4. CASE BeingTold(c)
    <3>1. Leads(Pending(c))
      <4>1. CASE down[c] = <<>> /\ Leads(send_buffer[c])
        BY <2>1, <4>1, ConcatEmptySeq DEF Pending
      <4>2. CASE Leads(down[c]) /\ send_buffer[c] \in Seq(News)
        BY <2>1, <4>2, LeadsConcat DEF Pending
      <4> QED
        BY <2>4, <4>1, <4>2 DEF BeingTold
    <3>2. /\ Len(Pending(c)) # 0 /\ Pending(c)[1].type = "SC_ASSIGN_STONE"
      BY <2>2, <3>1, EmptySeq DEF Leads, Assignments
    <3>3. ASSUME NEW i \in 2..Len(Pending(c)) PROVE Pending(c)[i] \in News
      <4>1. /\ Len(Tail(Pending(c))) = Len(Pending(c)) - 1
            /\ \A j \in 1..Len(Tail(Pending(c))) : Tail(Pending(c))[j] = Pending(c)[j + 1]
        BY <2>2, <3>1, HeadTailProperties DEF Leads
      <4>2. i - 1 \in 1..Len(Tail(Pending(c))) /\ Pending(c)[i] = Tail(Pending(c))[i - 1]
        BY <2>3, <4>1
      <4> QED
        BY <3>1, <4>2, ElementOfSeq DEF Leads
    <3>4. \A i \in 2..Len(Pending(c)) : Pending(c)[i].type # "SC_ASSIGN_STONE"
      BY <3>3 DEF News
    <3> QED
      BY <2>3, <2>4, <3>2, <3>4 DEF BeingTold
  <2>5. CASE Informed(c)
    <3>1. scene[c].myOmokStone # OMOK_EMPTY /\ kick[c] = "none"
      BY <2>5, SessionsAreKnown DEF Informed, Seated, PacketInv
    <3>2. Pending(c) \in Seq(News)
      <4>1. down[c] \in Seq(News) /\ send_buffer[c] \in Seq(News)
        BY <2>5, <3>1 DEF Informed, Told
      <4> QED
        BY <4>1, ConcatProperties DEF Pending
    <3>3. \A i \in 1..Len(Pending(c)) : Pending(c)[i].type # "SC_ASSIGN_STONE"
      BY <3>2, ElementOfSeq DEF News
    <3> QED
      BY <2>3, <3>1, <3>3
  <2> QED
    BY <2>4, <2>5 DEF PacketInv, ClientInv
<1> QED
  BY <1>1, PacketInvariant, PTL

\* No client can ask for a move of the other colour, or of none.
THEOREM OwnColourOnly == Spec => []RequestsOwnColour
<1>1. PacketInv => RequestsOwnColour
  <2> SUFFICES ASSUME PacketInv, NEW c \in Clients,
                      NEW i \in DOMAIN (recv_buffer[c] \o up[c]),
                      (recv_buffer[c] \o up[c])[i].type = "CS_DROP_STONE_REQUEST"
               PROVE  /\ (recv_buffer[c] \o up[c])[i].stone = scene[c].myOmokStone
                      /\ (recv_buffer[c] \o up[c])[i].stone \in Players
    BY DEF RequestsOwnColour
  <2> DEFINE S == Said(scene[c].myOmokStone, kick[c])
             q == recv_buffer[c] \o up[c]
  <2>1. recv_buffer[c] \in Seq(S) /\ up[c] \in Seq(S)
    BY SeqMonotonic DEF PacketInv, ClientInv, Speaks, Said
  <2>2. q \in Seq(S)
    BY <2>1, ConcatProperties
  <2>3. q[i] \in S
    BY <2>2, ElementOfSeq, LenProperties
  <2> QED
    BY <2>3 DEF Said, Requests, KickAnswer
<1> QED
  BY <1>1, PacketInvariant, PTL

=============================================================================
