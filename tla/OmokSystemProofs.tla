-------------------------- MODULE OmokSystemProofs --------------------------
(***************************************************************************)
(* Proofs about OmokSystem, for any number of clients, any board, any      *)
(* winning length and any bound on queues and clock ticks, with players    *)
(* that leave and players that click hastily.                              *)
(***************************************************************************)
EXTENDS OmokSystem, SequenceTheorems, TLAPS

(***************************************************************************)
(* The rules object keeps its type.                                        *)
(***************************************************************************)

\* A fresh game and a game started anew are games (Omok::Omok, Omok::Init).
LEMMA NewGameType ==
  /\ FreshGame \in Games
  /\ \A g \in Games : NewGame(g) \in Games
BY DEF FreshGame, NewGame, Games, Boards, EmptyBoard, Stones,
       OMOK_EMPTY, OMOK_BLACK, OMOK_WHITE

\* Passing the turn yields a game (Omok::SwapTurn).
LEMMA SwapTurnType ==
  \A g \in Games : SwapTurn(g) \in Games
BY DEF SwapTurn, OtherStone, Games, Stones, OMOK_EMPTY, OMOK_BLACK, OMOK_WHITE

\* Placing a stone yields a game (Omok::DropStone).
LEMMA DropStoneType ==
  ASSUME NEW g \in Games, NEW p \in Cells, NEW s \in Stones
  PROVE  DropStone(g, p, s) \in Games
<1>1. [g.gomoku EXCEPT ![p] = s] \in Boards
  BY DEF Games, Boards
<1> QED
  BY <1>1 DEF DropStone, Games

\* Looking for a winner yields a game (Omok::CheckGomoku, Omok::GameOver).
LEMMA CheckGomokuType ==
  ASSUME NEW g \in Games, NEW p \in Cells, NEW s \in Stones
  PROVE  CheckGomoku(g, p, s) \in Games
<1>1. GameOver(g, s) \in Games
  BY DEF GameOver, Games
<1> QED
  BY <1>1 DEF CheckGomoku

\* A packet that plays a stone leaves a game (the accepting path of
\* Session::process_packet).
LEMMA PlayType ==
  ASSUME NEW g \in Games, NEW p \in Cells, NEW s \in Stones
  PROVE  CheckGomoku(SwapTurn(DropStone(g, p, s)), p, s) \in Games
BY DropStoneType, SwapTurnType, CheckGomokuType

(***************************************************************************)
(* The invariant                                                           *)
(***************************************************************************)

\* Where the network thread is in its loop, the index is one of a socket;
\* while it parses, there is a packet to parse; where it is about to accept,
\* there is a connection to accept.
LoopInv ==
  /\ pc \in {"recv", "parse", "send"} => idx \in 1..Len(sockets)
  /\ pc = "parse" => recv_buffer[sockets[idx]] # <<>>
  /\ (pc = "accept" /\ incoming) => backlog # <<>>

TypeInv == TypeOK /\ LoopInv

LEMMA InitType == Init => TypeInv
<1> SUFFICES ASSUME Init PROVE TypeInv
  OBVIOUS
<1> USE DEF Init, NetInit, ServerInit, ClientInit
<1>1. NetTypeOK
  BY DEF NetTypeOK, LinkStates
<1>2. ServerTypeOK
  <2>1. omok \in Games
    BY NewGameType
  <2>2. timer_event \in Nat /\ time_tick \in Nat /\ idx \in Nat \ {0}
    BY TickAssumption
  <2>3. /\ sockets \in Seq(Clients)
        /\ send_buffer \in [Clients -> Seq(ServerPackets)]
        /\ recv_buffer \in [Clients -> Seq(ClientPackets)]
    OBVIOUS
  <2>4. kick \in [Clients -> KickStates]
    BY DEF KickStates
  <2> QED
    BY <2>1, <2>2, <2>3, <2>4 DEF ServerTypeOK, Locations
<1>3. ClientTypeOK
  BY DEF ClientTypeOK, Phases, Scenes, InitialScene, Boards, EmptyBoard, Stones,
         OMOK_EMPTY, OMOK_BLACK, OMOK_WHITE
<1>4. LoopInv
  BY DEF LoopInv
<1> QED
  BY <1>1, <1>2, <1>3, <1>4 DEF TypeInv, TypeOK

(***************************************************************************)
(* Lemmas about the helpers of the server                                  *)
(***************************************************************************)

\* The packets the server makes are packets a server sends.
LEMMA ServerPacketTypes ==
  /\ \A s \in Stones : AssignStone(s) \in ServerPackets
  /\ NotifyKick \in ServerPackets
  /\ \A t \in Nat : ServerTime(t) \in ServerPackets
  /\ \A s \in Stones, p \in Cells : DropResponse(s, p) \in ServerPackets
  /\ \A w \in Stones, t \in Nat : GameResult(w, t) \in ServerPackets
BY DEF ServerPackets, AssignStone, NotifyKick, ServerTime, DropResponse, GameResult

\* A broadcast leaves queues of packets (OmokServer::broadcast).
LEMMA BroadcastType ==
  ASSUME send_buffer \in [Clients -> Seq(ServerPackets)],
         NEW m \in ServerPackets, Broadcast(m)
  PROVE  send_buffer' \in [Clients -> Seq(ServerPackets)]
<1>1. \A c \in Clients : Append(send_buffer[c], m) \in Seq(ServerPackets)
  BY AppendProperties
<1> QED
  BY <1>1 DEF Broadcast

\* A queue of more than one packet is not empty after its first is taken.
LEMMA TailNotEmpty ==
  ASSUME NEW S, NEW q \in Seq(S), q # <<>>, Len(q) # 1
  PROVE  Tail(q) # <<>>
<1>1. Tail(q) \in Seq(S) /\ Len(Tail(q)) = Len(q) - 1 /\ Len(q) \in Nat
  BY HeadTailProperties, LenProperties
<1>2. Len(Tail(q)) # 0
  BY <1>1
<1> QED
  BY <1>1, <1>2, EmptySeq

\* The loop test either enters the body with an index of a socket or leaves
\* the loop.
LEMMA GotoSocketLoop ==
  ASSUME NEW i \in Nat \ {0}, NEW n \in Nat, GotoSocket(i, n)
  PROVE  /\ pc' \in Locations /\ idx' \in Nat \ {0}
         /\ pc' \in {"recv", "timer"}
         /\ pc' = "recv" => idx' \in 1..n
BY DEF GotoSocket, Locations

\* Removing a socket leaves an array that is one shorter
\* (OmokServer::RemoveSocketInfo).
LEMMA WithoutSocketType ==
  ASSUME sockets \in Seq(Clients), NEW i \in 1..Len(sockets)
  PROVE  /\ WithoutSocket(i) \in Seq(Clients)
         /\ Len(WithoutSocket(i)) = Len(sockets) - 1
         /\ Len(sockets) - 1 \in Nat
<1> DEFINE n == Len(sockets) - 1
<1>1. Len(sockets) \in Nat /\ n \in Nat
  BY LenProperties
<1>2. \A j \in 1..Len(sockets) : sockets[j] \in Clients
  BY ElementOfSeq
<1>3. WithoutSocket(i) \in [1..n -> Clients]
  BY <1>1, <1>2 DEF WithoutSocket
<1> HIDE DEF n
<1>4. WithoutSocket(i) \in Seq(Clients)
  BY <1>1, <1>3, SeqDef
<1>5. Len(WithoutSocket(i)) = n
  BY <1>1, <1>3, <1>4, LenProperties
<1> QED
  BY <1>1, <1>4, <1>5 DEF n

(***************************************************************************)
(* Every step keeps the types                                              *)
(***************************************************************************)

LEMMA SelectType ==
  ASSUME TypeInv, Select, UNCHANGED clientVars
  PROVE  TypeInv'
<1> USE DEF Select, TypeInv, TypeOK, sessionVars, timerVars, netVars, clientVars
<1>1. NetTypeOK' /\ ClientTypeOK'
  BY DEF NetTypeOK, ClientTypeOK
<1>2. {c \in InArray : send_buffer[c] # <<>>} \subseteq Clients
      /\ {c \in InArray : Readable(c)} \subseteq Clients
  BY ElementOfSeq DEF InArray, ServerTypeOK
<1>3. ServerTypeOK'
  BY <1>2 DEF ServerTypeOK, Locations
<1>4. LoopInv'
  BY DEF LoopInv
<1> QED
  BY <1>1, <1>3, <1>4

LEMMA AcceptType ==
  ASSUME TypeInv, Accept, UNCHANGED clientVars
  PROVE  TypeInv'
<1> USE DEF TypeInv, TypeOK
<1>1. incoming => backlog # <<>> /\ Head(backlog) \in Clients /\ Tail(backlog) \in Seq(Clients)
  BY HeadTailProperties DEF LoopInv, Accept, NetTypeOK
<1>2. NetTypeOK' /\ ClientTypeOK'
  BY <1>1 DEF Accept, NetTypeOK, ClientTypeOK, clientVars
<1>3. /\ sockets' \in Seq(Clients)
      /\ session_map' \subseteq Clients
      /\ send_buffer' \in [Clients -> Seq(ServerPackets)]
      /\ omok' \in Games
      /\ kick' \in [Clients -> KickStates]
      /\ UNCHANGED recv_buffer
  <2>1. CASE ~incoming
    BY <2>1 DEF Accept, sessionVars, ServerTypeOK
  <2>2. ASSUME incoming, NEW c \in Clients, Seat(c) PROVE <1>3
    <3>1. Append(sockets, c) \in Seq(Clients)
      BY AppendProperties DEF ServerTypeOK
    <3>2. AssignStone(omok.current_turn) \in ServerPackets
      BY ServerPacketTypes DEF ServerTypeOK, Games
    <3>3. <<AssignStone(omok.current_turn)>> \in Seq(ServerPackets)
      BY <3>2
    <3>4. send_buffer' \in [Clients -> Seq(ServerPackets)]
      BY <2>2, <3>3 DEF Seat, AddSocketInfo, InsertSession, AssignStoneType, ServerTypeOK
    <3>5. omok' \in Games
      BY <2>2, SwapTurnType DEF Seat, AddSocketInfo, InsertSession, AssignStoneType, ServerTypeOK
    <3> QED
      BY <2>2, <3>1, <3>4, <3>5 DEF Seat, AddSocketInfo, InsertSession, AssignStoneType, ServerTypeOK
  <2>3. ASSUME incoming, NEW c \in Clients, TurnAway(c) PROVE <1>3
    BY <2>3 DEF TurnAway, sessionVars, ServerTypeOK, KickStates
  <2>4. ASSUME incoming, NEW c \in Clients, AcceptFails(c) PROVE <1>3
    BY <2>4 DEF AcceptFails, sessionVars, ServerTypeOK
  <2> QED
    BY <1>1, <2>1, <2>2, <2>3, <2>4 DEF Accept
<1>4. Len(sockets') \in Nat
  BY <1>3, LenProperties
<1>5. GotoSocket(1, Len(sockets'))
  BY DEF Accept
<1>6. /\ pc' \in Locations /\ idx' \in Nat \ {0} /\ pc' \in {"recv", "timer"}
      /\ pc' = "recv" => idx' \in 1..Len(sockets')
  BY <1>4, <1>5, GotoSocketLoop
<1>7. ServerTypeOK'
  BY <1>3, <1>6 DEF Accept, timerVars, ServerTypeOK
<1>8. LoopInv'
  BY <1>6 DEF LoopInv
<1> QED
  BY <1>2, <1>7, <1>8

LEMMA RecvType ==
  ASSUME TypeInv, Recv, UNCHANGED clientVars
  PROVE  TypeInv'
<1> USE DEF TypeInv, TypeOK
<1> DEFINE c == sockets[idx]
<1>1. /\ pc = "recv" /\ idx \in 1..Len(sockets) /\ c \in Clients /\ Len(sockets) \in Nat
  BY ElementOfSeq, LenProperties DEF Recv, RemoveSession, LoopInv, ServerTypeOK
<1>2. ClientTypeOK'
  BY DEF ClientTypeOK, clientVars
<1>3. CASE c \notin rset /\ pc' = "send" /\ UNCHANGED <<idx, retval, sessionVars, netVars>>
  BY <1>1, <1>2, <1>3
     DEF Recv, RemoveSession, sessionVars, netVars, timerVars, NetTypeOK, ServerTypeOK, LoopInv, Locations
<1>4. ASSUME NEW n \in 1..Len(up[c]),
             recv_buffer' = [recv_buffer EXCEPT ![c] = @ \o SubSeq(up[c], 1, n)],
             up' = [up EXCEPT ![c] = SubSeq(@, n + 1, Len(@))],
             retval' = "ok", pc' = "parse",
             UNCHANGED <<idx, sockets, session_map, send_buffer, link, backlog, down>>
      PROVE  TypeInv'
  <2>1. up[c] \in Seq(ClientPackets) /\ recv_buffer[c] \in Seq(ClientPackets)
    BY <1>1 DEF NetTypeOK, ServerTypeOK
  <2>2. Len(up[c]) \in Nat /\ \A i \in 1..Len(up[c]) : up[c][i] \in ClientPackets
    BY <2>1, ElementOfSeq, LenProperties
  <2>3. SubSeq(up[c], 1, n) \in Seq(ClientPackets) /\ Len(SubSeq(up[c], 1, n)) = n
    BY <2>2, SubSeqProperties
  <2>4. SubSeq(up[c], n + 1, Len(up[c])) \in Seq(ClientPackets)
    BY <2>2, SubSeqProperties
  <2>5. /\ recv_buffer[c] \o SubSeq(up[c], 1, n) \in Seq(ClientPackets)
        /\ Len(recv_buffer[c] \o SubSeq(up[c], 1, n)) = Len(recv_buffer[c]) + n
        /\ Len(recv_buffer[c]) \in Nat
    BY <2>1, <2>3, ConcatProperties, LenProperties
  <2>6. recv_buffer[c] \o SubSeq(up[c], 1, n) # <<>>
    BY <2>5
  <2>7. /\ recv_buffer' \in [Clients -> Seq(ClientPackets)]
        /\ up' \in [Clients -> Seq(ClientPackets)]
        /\ recv_buffer'[c] # <<>>
    BY <1>1, <1>4, <2>4, <2>5, <2>6 DEF NetTypeOK, ServerTypeOK
  <2> QED
    BY <1>1, <1>2, <1>4, <2>7
       DEF Recv, RemoveSession, timerVars, NetTypeOK, ServerTypeOK, LoopInv, Locations
<1>5. ASSUME retval' \in {"error", "ok"}, RemoveSocketInfo(idx),
             session_map' = session_map \ {c},
             GotoSocket(idx + 1, Len(sockets')),
             UNCHANGED <<send_buffer, recv_buffer, backlog, down>>
      PROVE  TypeInv'
  <2>1. sockets' \in Seq(Clients) /\ Len(sockets') \in Nat
    BY <1>1, <1>5, WithoutSocketType DEF RemoveSocketInfo, ServerTypeOK
  <2>2. /\ pc' \in Locations /\ idx' \in Nat \ {0} /\ pc' \in {"recv", "timer"}
        /\ pc' = "recv" => idx' \in 1..Len(sockets')
    BY <1>1, <1>5, <2>1, GotoSocketLoop
  <2>3. link' \in [Clients -> LinkStates] /\ up' \in [Clients -> Seq(ClientPackets)]
    BY <1>1, <1>5 DEF RemoveSocketInfo, NetTypeOK, LinkStates
  <2> QED
    BY <1>2, <1>5, <2>1, <2>2, <2>3
       DEF Recv, RemoveSession, timerVars, NetTypeOK, ServerTypeOK, LoopInv
<1> QED
  BY <1>3, <1>4, <1>5 DEF Recv, RemoveSession

LEMMA ParseType ==
  ASSUME TypeInv, Parse, UNCHANGED clientVars
  PROVE  TypeInv'
<1> USE DEF TypeInv, TypeOK
<1> DEFINE c == sockets[idx]
           m == Head(recv_buffer[c])
<1>1. /\ pc = "parse" /\ idx \in 1..Len(sockets) /\ c \in Clients /\ recv_buffer[c] # <<>>
  BY ElementOfSeq, LenProperties DEF Parse, LoopInv, ServerTypeOK
<1>2. /\ recv_buffer[c] \in Seq(ClientPackets) /\ m \in ClientPackets
      /\ Tail(recv_buffer[c]) \in Seq(ClientPackets)
      /\ Len(Tail(recv_buffer[c])) = Len(recv_buffer[c]) - 1
      /\ Len(recv_buffer[c]) \in Nat
  BY <1>1, HeadTailProperties, LenProperties DEF ServerTypeOK
<1>3. NetTypeOK' /\ ClientTypeOK'
  BY DEF Parse, netVars, clientVars, NetTypeOK, ClientTypeOK
<1>4. omok' \in Games /\ send_buffer' \in [Clients -> Seq(ServerPackets)]
  <2>1. CASE /\ Playable(m)
             /\ omok' = CheckGomoku(SwapTurn(DropStone(omok, m.at, m.stone)), m.at, m.stone)
             /\ Broadcast(DropResponse(m.stone, m.at))
    <3>1. m.stone \in Stones /\ m.at \in Cells
      BY <1>2, <2>1 DEF Playable, IsDropRequest, ClientPackets
    <3>2. DropResponse(m.stone, m.at) \in ServerPackets
      BY <3>1, ServerPacketTypes
    <3> QED
      BY <2>1, <3>1, <3>2, PlayType, BroadcastType DEF ServerTypeOK
  <2>2. CASE UNCHANGED <<omok, send_buffer>>
    BY <2>2 DEF ServerTypeOK
  <2> QED
    BY <2>1, <2>2 DEF Parse, ProcessPacket
<1>5. recv_buffer' = [recv_buffer EXCEPT ![c] = Tail(@)]
  BY DEF Parse
<1>6. recv_buffer' \in [Clients -> Seq(ClientPackets)] /\ recv_buffer'[c] = Tail(recv_buffer[c])
  BY <1>1, <1>2, <1>5 DEF ServerTypeOK
<1>7. pc' \in {"crashed", "send", "parse"} /\ (pc' = "parse" => Len(recv_buffer[c]) # 1)
  BY DEF Parse
<1>8. ServerTypeOK'
  BY <1>4, <1>6, <1>7 DEF Parse, timerVars, ServerTypeOK, Locations
<1>9. LoopInv'
  <2>1. ASSUME pc' = "parse" PROVE Tail(recv_buffer[c]) # <<>>
    <3>1. Len(recv_buffer[c]) # 1
      BY <1>7, <2>1
    <3> HIDE DEF c
    <3> QED
      BY <1>1, <1>2, <3>1, TailNotEmpty
  <2>2. sockets' = sockets /\ idx' = idx
    BY DEF Parse
  <2> QED
    BY <1>1, <1>6, <1>7, <2>1, <2>2 DEF LoopInv
<1> QED
  BY <1>3, <1>8, <1>9

LEMMA SendType ==
  ASSUME TypeInv, Send, UNCHANGED clientVars
  PROVE  TypeInv'
<1> USE DEF TypeInv, TypeOK
<1> DEFINE c == sockets[idx]
<1>1. /\ pc = "send" /\ idx \in 1..Len(sockets) /\ c \in Clients
  BY ElementOfSeq, LenProperties DEF Send, LoopInv, ServerTypeOK
<1>2. /\ sockets' \in Seq(Clients)
      /\ send_buffer' \in [Clients -> Seq(ServerPackets)]
      /\ link' \in [Clients -> LinkStates]
      /\ up' \in [Clients -> Seq(ClientPackets)]
      /\ down' \in [Clients -> Seq(ServerPackets)]
  <2>1. CASE UNCHANGED <<sockets, send_buffer, link, up, down>>
    BY <2>1 DEF NetTypeOK, ServerTypeOK
  <2>2. CASE RemoveSocketInfo(idx) /\ UNCHANGED <<send_buffer, down>>
    <3>1. sockets' \in Seq(Clients)
      BY <1>1, <2>2, WithoutSocketType DEF RemoveSocketInfo, ServerTypeOK
    <3> QED
      BY <1>1, <2>2, <3>1 DEF RemoveSocketInfo, NetTypeOK, ServerTypeOK, LinkStates
  <2>3. CASE Transmit(c)
    <3>1. down[c] \o send_buffer[c] \in Seq(ServerPackets)
      BY <1>1, ConcatProperties DEF NetTypeOK, ServerTypeOK
    <3>2. <<>> \in Seq(ServerPackets)
      OBVIOUS
    <3> QED
      BY <1>1, <2>3, <3>1, <3>2 DEF Transmit, NetTypeOK, ServerTypeOK
  <2> QED
    BY <2>1, <2>2, <2>3 DEF Send
<1>3. Len(sockets') \in Nat
  BY <1>2, LenProperties
<1>4. GotoSocket(idx + 1, Len(sockets'))
  BY DEF Send
<1>5. /\ pc' \in Locations /\ idx' \in Nat \ {0} /\ pc' \in {"recv", "timer"}
      /\ pc' = "recv" => idx' \in 1..Len(sockets')
  BY <1>1, <1>3, <1>4, GotoSocketLoop
<1>6. NetTypeOK' /\ ClientTypeOK'
  BY <1>2 DEF Send, clientVars, NetTypeOK, ClientTypeOK
<1>7. ServerTypeOK'
  BY <1>2, <1>5 DEF Send, timerVars, ServerTypeOK
<1>8. LoopInv'
  BY <1>5 DEF LoopInv
<1> QED
  BY <1>6, <1>7, <1>8

LEMMA UpdateType ==
  ASSUME TypeInv, UpdateTimer \/ UpdateOver, UNCHANGED clientVars
  PROVE  TypeInv'
<1> USE DEF TypeInv, TypeOK
<1>1. NetTypeOK' /\ ClientTypeOK'
  BY DEF UpdateTimer, UpdateOver, netVars, clientVars, NetTypeOK, ClientTypeOK
<1>2. CASE UpdateTimer
  <2>1. send_buffer' \in [Clients -> Seq(ServerPackets)] /\ timer_event' \in Nat
    <3>1. ServerTime(time_tick) \in ServerPackets
      BY ServerPacketTypes DEF ServerTypeOK
    <3> QED
      BY <1>2, <3>1, BroadcastType DEF UpdateTimer, ServerTypeOK
  <2>2. ServerTypeOK'
    BY <1>2, <2>1 DEF UpdateTimer, ServerTypeOK, Locations
  <2>3. LoopInv'
    BY <1>2 DEF UpdateTimer, LoopInv
  <2> QED
    BY <1>1, <2>2, <2>3
<1>3. CASE UpdateOver
  <2>1. send_buffer' \in [Clients -> Seq(ServerPackets)] /\ omok' \in Games
    <3>1. GameResult(omok.winner, time_tick) \in ServerPackets
      BY ServerPacketTypes DEF ServerTypeOK, Games
    <3> QED
      BY <1>3, <3>1, BroadcastType, NewGameType DEF UpdateOver, ServerTypeOK
  <2>2. ServerTypeOK'
    BY <1>3, <2>1 DEF UpdateOver, timerVars, ServerTypeOK, Locations
  <2>3. LoopInv'
    BY <1>3 DEF UpdateOver, LoopInv
  <2> QED
    BY <1>1, <2>2, <2>3
<1> QED
  BY <1>2, <1>3

\* The timer thread and the kick threads.
LEMMA ThreadsType ==
  ASSUME TypeInv, TimerThread \/ (\E c \in Clients : KickThread(c)), UNCHANGED clientVars
  PROVE  TypeInv'
<1> USE DEF TypeInv, TypeOK
<1>1. ClientTypeOK'
  BY DEF clientVars, ClientTypeOK
<1>2. CASE TimerThread
  BY <1>1, <1>2 DEF TimerThread, loopVars, sessionVars, netVars, NetTypeOK,
                    ServerTypeOK, LoopInv
<1>3. ASSUME NEW c \in Clients, KickThread(c) PROVE TypeInv'
  <2>1. /\ kick' \in [Clients -> KickStates]
        /\ UNCHANGED <<loopVars, sessionVars, omok, timerVars, backlog>>
    BY <1>3 DEF KickThread, KickNotify, KickAnswered, KickUnanswered, ServerTypeOK,
                KickStates, netVars
  <2>2. link' \in [Clients -> LinkStates] /\ up' \in [Clients -> Seq(ClientPackets)]
    <3>1. CASE UNCHANGED <<link, up>>
      BY <3>1 DEF NetTypeOK
    <3>2. CASE KickAnswered(c)
      <4>1. <<>> \in Seq(ClientPackets)
        OBVIOUS
      <4> QED
        BY <3>2, <4>1 DEF KickAnswered, NetTypeOK, LinkStates
    <3> QED
      BY <1>3, <3>1, <3>2 DEF KickThread, KickNotify, KickUnanswered, netVars
  <2>3. down' \in [Clients -> Seq(ServerPackets)]
    <3>1. Append(down[c], NotifyKick) \in Seq(ServerPackets)
      BY ServerPacketTypes, AppendProperties DEF NetTypeOK
    <3> QED
      BY <1>3, <3>1 DEF KickThread, KickNotify, KickAnswered, KickUnanswered, netVars, NetTypeOK
  <2>4. NetTypeOK' /\ ServerTypeOK'
    BY <2>1, <2>2, <2>3 DEF loopVars, sessionVars, timerVars, NetTypeOK, ServerTypeOK
  <2>5. LoopInv'
    BY <2>1 DEF loopVars, sessionVars, LoopInv
  <2> QED
    BY <1>1, <2>4, <2>5
<1> QED
  BY <1>2, <1>3

(***************************************************************************)
(* The clients                                                             *)
(***************************************************************************)

\* Processing a packet of the server leaves a scene
\* (OmokClient::process_packet).
LEMMA ProcessType ==
  ASSUME NEW s \in Scenes, NEW m \in ServerPackets
  PROVE  Process(s, m) \in Scenes
<1>1. CASE m.type = "SC_ASSIGN_STONE"
  BY <1>1 DEF Process, Scenes, ServerPackets
<1>2. CASE m.type = "SC_NOTIFY_SERVER_TIME"
  BY <1>2 DEF Process, Scenes, ServerPackets
<1>3. CASE m.type = "SC_DROP_STONE_RESPONSE"
  <2>1. m.stone \in Stones /\ m.at \in Cells
    BY <1>3 DEF ServerPackets
  <2>2. [s.gomoku EXCEPT ![m.at] = m.stone] \in Boards
    BY <2>1 DEF Scenes, Boards
  <2>3. OtherStone(s.current_turn) \in Stones
    BY DEF OtherStone, Scenes, Stones, OMOK_BLACK, OMOK_WHITE, OMOK_EMPTY
  <2>4. Process(s, m) = [s EXCEPT !.gomoku = [@ EXCEPT ![m.at] = m.stone],
                                  !.current_turn = OtherStone(@)]
    BY <1>3 DEF Process
  <2> QED
    BY <2>2, <2>3, <2>4 DEF Scenes
<1>4. CASE m.type = "SC_NOTIFY_GAME_RESULT"
  BY <1>4 DEF Process, Scenes, ServerPackets
<1>5. CASE m.type = "SC_NOTIFY_KICK"
  BY <1>5 DEF Process
<1> QED
  BY <1>1, <1>2, <1>3, <1>4, <1>5 DEF ServerPackets

LEMMA ClientType ==
  ASSUME TypeInv, NEW c \in Clients, NEW clicking \in BOOLEAN,
         ClientNext(c, clicking), UNCHANGED serverVars
  PROVE  TypeInv'
<1> USE DEF TypeInv, TypeOK
<1>0. ServerTypeOK'
  BY DEF serverVars, loopVars, sessionVars, timerVars, ServerTypeOK
<1>1. CASE Connect(c) \/ UpdateTooEarly(c) \/ ExitScene(c)
  BY <1>0, <1>1 DEF Connect, UpdateTooEarly, ExitScene, netVars, serverVars, loopVars,
                    sessionVars, NetTypeOK, ClientTypeOK, Phases, LoopInv
<1>2. CASE Connected(c)
  <2>1. Append(backlog, c) \in Seq(Clients) /\ Append(backlog, c) # <<>>
    BY AppendProperties DEF NetTypeOK
  <2> QED
    BY <1>0, <1>2, <2>1 DEF Connected, serverVars, loopVars, sessionVars, NetTypeOK,
                            ClientTypeOK, Phases, LinkStates, LoopInv
<1>3. CASE CloseWindow(c)
  <2>1. <<>> \in Seq(ClientPackets) /\ <<>> \in Seq(ServerPackets)
    OBVIOUS
  <2> QED
    BY <1>0, <1>3, <2>1 DEF CloseWindow, serverVars, loopVars, sessionVars, NetTypeOK,
                            ClientTypeOK, Phases, LinkStates, LoopInv
<1>4. CASE Update(c, clicking)
  <2>1. PICK clicked \in Clicks(c) \cup {<<>>} : Exchange(c, clicked)
    BY <1>4 DEF Update
  <2>2. clicked \in Seq(ClientPackets)
    <3>1. ASSUME NEW p \in Cells
          PROVE  <<DropRequest(scene[c].myOmokStone, p)>> \in Seq(ClientPackets)
      <4>1. DropRequest(scene[c].myOmokStone, p) \in ClientPackets
        BY DEF DropRequest, ClientPackets, ClientTypeOK, Scenes
      <4> QED
        BY <4>1
    <3>2. <<>> \in Seq(ClientPackets)
      OBVIOUS
    <3> QED
      BY <3>1, <3>2 DEF Clicks
  <2>3. up[c] \o clicked \in Seq(ClientPackets)
    BY <2>2, ConcatProperties DEF NetTypeOK
  <2>4. NetTypeOK' /\ ClientTypeOK'
    <3>1. CASE /\ down[c] # <<>>
               /\ scene' = [scene EXCEPT ![c] = Process(@, Head(down[c]))]
               /\ down' = [down EXCEPT ![c] = Tail(@)]
               /\ up' = [up EXCEPT ![c] = @ \o clicked \o Replies(Head(down[c]))]
               /\ UNCHANGED phase
      <4>1. Head(down[c]) \in ServerPackets /\ Tail(down[c]) \in Seq(ServerPackets)
        BY <3>1, HeadTailProperties DEF NetTypeOK
      <4>2. Process(scene[c], Head(down[c])) \in Scenes
        BY <4>1, ProcessType DEF ClientTypeOK
      <4>3. Replies(Head(down[c])) \in Seq(ClientPackets)
        <5>1. KickAnswer \in ClientPackets
          BY DEF KickAnswer, ClientPackets
        <5> QED
          BY <5>1 DEF Replies
      <4>4. up[c] \o clicked \o Replies(Head(down[c])) \in Seq(ClientPackets)
        BY <2>3, <4>3, ConcatProperties
      <4> QED
        BY <1>4, <3>1, <4>1, <4>2, <4>4 DEF Update, NetTypeOK, ClientTypeOK
    <3>2. CASE /\ phase' = [phase EXCEPT ![c] = "cut"]
               /\ UNCHANGED <<scene, down, up>>
      BY <1>4, <3>2 DEF Update, NetTypeOK, ClientTypeOK, Phases
    <3>3. CASE /\ up' = [up EXCEPT ![c] = @ \o clicked]
               /\ UNCHANGED <<phase, scene, down>>
      BY <1>4, <2>3, <3>3 DEF Update, NetTypeOK, ClientTypeOK
    <3> QED
      BY <2>1, <3>1, <3>2, <3>3 DEF Exchange
  <2>5. LoopInv'
    BY <1>4 DEF Update, serverVars, loopVars, sessionVars, LoopInv
  <2> QED
    BY <1>0, <2>4, <2>5
<1> QED
  BY <1>1, <1>2, <1>3, <1>4 DEF ClientNext

(***************************************************************************)
(* Type correctness                                                        *)
(***************************************************************************)

LEMMA TypeStep == TypeInv /\ [Next]_vars => TypeInv'
<1> SUFFICES ASSUME TypeInv, [Next]_vars PROVE TypeInv'
  OBVIOUS
<1>1. CASE ServerStep
  <2>1. NetworkThread \/ TimerThread \/ (\E c \in Clients : KickThread(c))
    BY <1>1 DEF ServerStep, ServerNext
  <2>2. UNCHANGED clientVars
    BY <1>1 DEF ServerStep
  <2> QED
    BY <2>1, <2>2, SelectType, AcceptType, RecvType, ParseType, SendType, UpdateType,
       ThreadsType DEF NetworkThread
<1>2. ASSUME NEW c \in Clients, ClientStep(c) PROVE TypeInv'
  <2>1. MayClick(c) \in BOOLEAN
    BY DEF MayClick
  <2> QED
    BY <1>2, <2>1, ClientType DEF ClientStep
<1>3. CASE UNCHANGED vars
  BY <1>3 DEF vars, netVars, serverVars, clientVars, loopVars, sessionVars, timerVars,
              TypeInv, TypeOK, NetTypeOK, ServerTypeOK, ClientTypeOK, LoopInv
<1> QED
  BY <1>1, <1>2, <1>3 DEF Next

\* Every variable of the whole system stays in its type, and the network
\* thread never indexes past SocketInfoArray, parses an empty buffer or
\* accepts from an empty backlog.
THEOREM TypeCorrect == Spec => [](TypeOK /\ LoopInv)
<1>1. Init => TypeInv
  BY InitType
<1>2. TypeInv /\ [Next]_vars => TypeInv'
  BY TypeStep
<1> QED
  BY <1>1, <1>2, PTL DEF Spec, TypeInv

(***************************************************************************)
(* Sessions and sockets                                                    *)
(***************************************************************************)

\* What keeps a connection in one place: it gets there only after connecting,
\* and connects once.
Connecting(c) == phase[c] \in {"none", "connecting"}

StageInv ==
  /\ OnePlaceAtATime
  /\ \A i \in DOMAIN backlog : ~Connecting(backlog[i])
  /\ \A c \in Clients : (c \in session_map \/ kick[c] # "none") => ~Connecting(c)

\* After a recv() that failed the loop over the sockets is over: with two
\* seats, removing a socket leaves none behind it.  So the stale retval that
\* is checked after send() never removes a socket whose session stays.
RetvalInv == retval = "error" => pc \in {"timer", "over", "select"}

SeatInv == TypeInv /\ SessionsMatchSockets /\ StageInv /\ RetvalInv

\* A socket is removed from the array, and only that one.
LEMMA WithoutSocketRange ==
  ASSUME sockets \in Seq(Clients), NEW i \in 1..Len(sockets),
         \A j, k \in DOMAIN sockets : sockets[j] = sockets[k] => j = k
  PROVE  /\ {WithoutSocket(i)[j] : j \in DOMAIN WithoutSocket(i)} = InArray \ {sockets[i]}
         /\ \A j, k \in DOMAIN WithoutSocket(i) :
              WithoutSocket(i)[j] = WithoutSocket(i)[k] => j = k
<1> DEFINE n == Len(sockets)
           w == WithoutSocket(i)
<1>1. n \in Nat /\ DOMAIN sockets = 1..n /\ i \in 1..n
  BY LenProperties
<1> HIDE DEF n
<1>2. /\ DOMAIN w = 1..(n - 1)
      /\ \A j \in 1..(n - 1) : w[j] = IF j = i THEN sockets[n] ELSE sockets[j]
  BY DEF WithoutSocket, n
<1> HIDE DEF w
<1>3. \A j, k \in DOMAIN w : w[j] = w[k] => j = k
  BY <1>1, <1>2
<1>4. \A j \in DOMAIN w : w[j] \in InArray \ {sockets[i]}
  BY <1>1, <1>2 DEF InArray
<1>5. \A c \in InArray \ {sockets[i]} : \E j \in DOMAIN w : w[j] = c
  <2> TAKE c \in InArray \ {sockets[i]}
  <2>1. PICK k \in 1..n : sockets[k] = c /\ k # i
    BY <1>1 DEF InArray
  <2>2. CASE k = n
    <3>1. i \in 1..(n - 1)
      BY <1>1, <2>1, <2>2
    <3> QED
      BY <1>2, <2>1, <2>2, <3>1
  <2>3. CASE k # n
    BY <1>1, <1>2, <2>1, <2>3
  <2> QED
    BY <2>2, <2>3
<1> QED
  BY <1>3, <1>4, <1>5 DEF w

\* One more socket, of a newcomer, is added at the end.
LEMMA AppendSocketRange ==
  ASSUME sockets \in Seq(Clients), NEW c \in Clients, c \notin InArray,
         \A j, k \in DOMAIN sockets : sockets[j] = sockets[k] => j = k
  PROVE  /\ {Append(sockets, c)[j] : j \in DOMAIN Append(sockets, c)} = InArray \cup {c}
         /\ \A j, k \in DOMAIN Append(sockets, c) :
              Append(sockets, c)[j] = Append(sockets, c)[k] => j = k
         /\ Len(Append(sockets, c)) = Len(sockets) + 1
<1> DEFINE n == Len(sockets)
           a == Append(sockets, c)
<1>1. /\ n \in Nat /\ DOMAIN sockets = 1..n
      /\ a \in Seq(Clients) /\ Len(a) = n + 1
      /\ \A j \in 1..n : a[j] = sockets[j]
      /\ a[n + 1] = c
  BY LenProperties, AppendProperties
<1>2. DOMAIN a = 1..(n + 1)
  BY <1>1, LenProperties
<1> HIDE DEF n, a
<1>3. \A j \in 1..n : sockets[j] \in InArray
  BY <1>1 DEF InArray
<1>4. \A j, k \in DOMAIN a : a[j] = a[k] => j = k
  <2> TAKE j, k \in DOMAIN a
  <2> HAVE a[j] = a[k]
  <2>1. CASE j \in 1..n /\ k \in 1..n
    BY <1>1, <2>1
  <2>2. CASE j = n + 1 \/ k = n + 1
    BY <1>1, <1>2, <1>3, <2>2
  <2> QED
    BY <1>1, <1>2, <2>1, <2>2
<1>5. \A j \in DOMAIN a : a[j] \in InArray \cup {c}
  BY <1>1, <1>2, <1>3
<1>6. \A d \in InArray \cup {c} : \E j \in DOMAIN a : a[j] = d
  <2> TAKE d \in InArray \cup {c}
  <2>1. CASE d = c
    BY <1>1, <1>2, <2>1
  <2>2. CASE d \in InArray
    BY <1>1, <1>2, <2>2 DEF InArray
  <2> QED
    BY <2>1, <2>2
<1> QED
  BY <1>1, <1>4, <1>5, <1>6 DEF a, n

LEMMA InitSeat == Init => SeatInv
<1> SUFFICES ASSUME Init PROVE SeatInv
  OBVIOUS
<1>1. TypeInv
  BY InitType
<1>2. SessionsMatchSockets /\ StageInv /\ RetvalInv
  BY DEF Init, NetInit, ServerInit, ClientInit, SessionsMatchSockets, InArray,
         MaxConnectionCount, StageInv, OnePlaceAtATime, Connecting, RetvalInv
<1> QED
  BY <1>1, <1>2 DEF SeatInv

\* Steps that leave the backlog, the seats and the kick threads alone, and
\* bring no connection back to connecting, keep the invariant.
LEMMA StageUnchanged ==
  ASSUME SeatInv, UNCHANGED <<backlog, sockets, session_map, kick>>,
         \A c \in Clients : ~Connecting(c) => ~Connecting(c)'
  PROVE  SessionsMatchSockets' /\ StageInv'
<1>1. \A i \in DOMAIN backlog : backlog[i] \in Clients
  BY ElementOfSeq, LenProperties DEF SeatInv, TypeInv, TypeOK, NetTypeOK
<1> QED
  BY <1>1 DEF SeatInv, SessionsMatchSockets, InArray, StageInv, OnePlaceAtATime

LEMMA AcceptSeat ==
  ASSUME SeatInv, Accept, UNCHANGED clientVars
  PROVE  SessionsMatchSockets' /\ StageInv' /\ RetvalInv'
<1> USE DEF SeatInv, TypeInv, TypeOK
<1>1. RetvalInv' /\ pc = "accept" /\ phase' = phase
  BY DEF Accept, RetvalInv, clientVars
<1>2. /\ sockets \in Seq(Clients) /\ Len(sockets) \in Nat /\ session_map = InArray
      /\ Len(sockets) <= 2
      /\ \A j, k \in DOMAIN sockets : sockets[j] = sockets[k] => j = k
  BY LenProperties DEF ServerTypeOK, SessionsMatchSockets, MaxConnectionCount
<1>3. CASE ~incoming
  <2>1. UNCHANGED <<backlog, sockets, session_map, kick>>
    BY <1>3 DEF Accept, sessionVars
  <2> QED
    BY <1>1, <2>1, StageUnchanged DEF Connecting
<1>4. CASE incoming
  <2> DEFINE c == Head(backlog)
  <2>1. /\ backlog \in Seq(Clients) /\ backlog # <<>> /\ c \in Clients
        /\ Len(backlog) \in Nat /\ DOMAIN backlog = 1..Len(backlog)
        /\ Tail(backlog) \in Seq(Clients)
        /\ Len(Tail(backlog)) = Len(backlog) - 1
        /\ \A i \in 1..Len(Tail(backlog)) : Tail(backlog)[i] = backlog[i + 1]
        /\ DOMAIN Tail(backlog) = 1..Len(Tail(backlog))
    BY <1>1, <1>4, HeadTailProperties, LenProperties DEF LoopInv, NetTypeOK
  <2>2. 1 \in DOMAIN backlog /\ c = backlog[1]
    BY <2>1, EmptySeq
  <2>3. backlog' = Tail(backlog)
    BY <1>4 DEF Accept
  <2>4. c \notin session_map /\ kick[c] = "none" /\ ~Connecting(c)
    BY <2>2 DEF StageInv, OnePlaceAtATime
  <2>5. /\ \A i, j \in DOMAIN backlog' : backlog'[i] = backlog'[j] => i = j
        /\ \A i \in DOMAIN backlog' :
             /\ backlog'[i] # c /\ backlog'[i] \notin session_map
             /\ kick[backlog'[i]] = "none" /\ ~Connecting(backlog'[i])
    <3>1. \A i \in DOMAIN Tail(backlog) : i + 1 \in DOMAIN backlog /\ i + 1 # 1
      BY <2>1
    <3> QED
      BY <2>1, <2>2, <2>3, <3>1 DEF StageInv, OnePlaceAtATime
  <2>6. CASE Seat(c)
    <3>1. /\ sockets' = Append(sockets, c) /\ session_map' = session_map \cup {c}
          /\ kick' = kick /\ Len(sockets) < 2
      BY <2>6 DEF Seat, AddSocketInfo, InsertSession, AssignStoneType, MaxConnectionCount
    <3>2. SessionsMatchSockets'
      BY <1>2, <2>1, <2>4, <3>1, AppendSocketRange
         DEF SessionsMatchSockets, InArray, MaxConnectionCount
    <3>3. StageInv'
      BY <1>1, <2>4, <2>5, <3>1 DEF StageInv, OnePlaceAtATime, Connecting
    <3> QED
      BY <1>1, <3>2, <3>3
  <2>7. CASE TurnAway(c) \/ AcceptFails(c)
    <3>1. /\ UNCHANGED <<sockets, session_map>>
          /\ \A d \in Clients : d # c => kick'[d] = kick[d]
      BY <2>7 DEF TurnAway, AcceptFails, sessionVars, ServerTypeOK
    <3>2. SessionsMatchSockets'
      BY <3>1 DEF SessionsMatchSockets, InArray
    <3>3. \A i \in DOMAIN backlog' : backlog'[i] \in Clients
      BY <2>1, <2>3, ElementOfSeq
    <3>4. session_map \subseteq Clients
      BY DEF ServerTypeOK
    <3>5. StageInv'
      BY <1>1, <2>4, <2>5, <3>1, <3>3, <3>4 DEF StageInv, OnePlaceAtATime, Connecting
    <3> QED
      BY <1>1, <3>2, <3>5
  <2> QED
    BY <1>4, <2>6, <2>7 DEF Accept
<1> QED
  BY <1>3, <1>4

LEMMA RecvSeat ==
  ASSUME SeatInv, Recv, UNCHANGED clientVars
  PROVE  SessionsMatchSockets' /\ StageInv' /\ RetvalInv'
<1> USE DEF SeatInv, TypeInv, TypeOK
<1> DEFINE c == sockets[idx]
<1>1. pc = "recv" /\ idx \in 1..Len(sockets) /\ retval = "ok"
  BY DEF Recv, RemoveSession, LoopInv, RetvalInv, ServerTypeOK
<1>2. phase' = phase /\ kick' = kick
  BY DEF Recv, RemoveSession, clientVars
<1>3. CASE UNCHANGED <<retval, sessionVars, netVars>>
  BY <1>1, <1>2, <1>3, StageUnchanged DEF sessionVars, netVars, RetvalInv, Connecting
<1>4. CASE retval' = "ok" /\ UNCHANGED <<sockets, session_map, backlog>>
  BY <1>2, <1>4, StageUnchanged DEF RetvalInv, Connecting
<1>5. CASE /\ RemoveSocketInfo(idx)
           /\ session_map' = session_map \ {c}
           /\ GotoSocket(idx + 1, Len(sockets'))
           /\ UNCHANGED backlog
  <2>1. /\ sockets \in Seq(Clients) /\ Len(sockets) \in Nat /\ Len(sockets) <= 2
        /\ session_map = InArray
        /\ \A j, k \in DOMAIN sockets : sockets[j] = sockets[k] => j = k
    BY LenProperties DEF ServerTypeOK, SessionsMatchSockets, MaxConnectionCount
  <2>2. Len(sockets') = Len(sockets) - 1
    BY <1>1, <1>5, <2>1, WithoutSocketType DEF RemoveSocketInfo
  <2>3. SessionsMatchSockets'
    <3>1. sockets' = WithoutSocket(idx)
      BY <1>5 DEF RemoveSocketInfo
    <3>2. /\ {sockets'[j] : j \in DOMAIN sockets'} = InArray \ {c}
          /\ \A j, k \in DOMAIN sockets' : sockets'[j] = sockets'[k] => j = k
      BY <1>1, <2>1, <3>1, WithoutSocketRange
    <3>3. session_map' = {sockets'[j] : j \in DOMAIN sockets'}
      BY <1>5, <2>1, <3>2
    <3>4. Len(sockets') <= 2
      BY <2>1, <2>2
    <3> QED
      BY <3>2, <3>3, <3>4 DEF SessionsMatchSockets, InArray, MaxConnectionCount
  <2>4. StageInv'
    BY <1>2, <1>5 DEF StageInv, OnePlaceAtATime, Connecting
  <2>5. pc' = "timer"
    BY <1>1, <1>5, <2>1, <2>2 DEF GotoSocket
  <2> QED
    BY <2>3, <2>4, <2>5 DEF RetvalInv
<1> QED
  BY <1>3, <1>4, <1>5 DEF Recv, RemoveSession

\* In the network thread's other steps and in those of the timer and kick
\* threads no connection moves.
LEMMA OtherServerSeat ==
  ASSUME SeatInv, UNCHANGED clientVars,
         \/ Select \/ Parse \/ Send \/ UpdateTimer \/ UpdateOver \/ TimerThread
         \/ \E c \in Clients : KickThread(c)
  PROVE  SessionsMatchSockets' /\ StageInv' /\ RetvalInv'
<1> USE DEF SeatInv, TypeInv, TypeOK
<1>1. ASSUME UNCHANGED <<backlog, sockets, session_map, kick>>
      PROVE  SessionsMatchSockets' /\ StageInv'
  BY <1>1, StageUnchanged DEF clientVars, Connecting
<1>2. CASE Select
  BY <1>1, <1>2 DEF Select, sessionVars, netVars, RetvalInv
<1>3. CASE Parse
  BY <1>1, <1>3 DEF Parse, netVars, RetvalInv
<1>4. CASE Send
  <2>1. pc = "send" /\ retval # "error"
    BY <1>4 DEF Send, RetvalInv
  <2>2. UNCHANGED <<backlog, sockets, session_map, kick, retval>>
    BY <1>4, <2>1 DEF Send, Transmit
  <2> QED
    BY <1>1, <2>1, <2>2 DEF RetvalInv
<1>5. CASE UpdateTimer \/ UpdateOver
  BY <1>1, <1>5 DEF UpdateTimer, UpdateOver, timerVars, netVars, RetvalInv
<1>6. CASE TimerThread
  BY <1>1, <1>6 DEF TimerThread, loopVars, sessionVars, netVars, RetvalInv
<1>7. ASSUME NEW c \in Clients, KickThread(c)
      PROVE  SessionsMatchSockets' /\ StageInv' /\ RetvalInv'
  <2>1. /\ UNCHANGED <<backlog, sockets, session_map, pc, retval, phase>>
        /\ kick[c] # "none"
        /\ \A d \in Clients : d # c => kick'[d] = kick[d]
    BY <1>7 DEF KickThread, KickNotify, KickAnswered, KickUnanswered, loopVars,
                sessionVars, netVars, clientVars, ServerTypeOK
  <2>2. \A i \in DOMAIN backlog : backlog[i] \in Clients
    BY ElementOfSeq, LenProperties DEF NetTypeOK
  <2>3. session_map \subseteq Clients
    BY DEF ServerTypeOK
  <2>4. StageInv'
    BY <2>1, <2>2, <2>3 DEF StageInv, OnePlaceAtATime, Connecting
  <2>5. SessionsMatchSockets'
    BY <2>1 DEF SessionsMatchSockets, InArray
  <2> QED
    BY <2>1, <2>4, <2>5 DEF RetvalInv
<1> QED
  BY <1>2, <1>3, <1>4, <1>5, <1>6, <1>7

LEMMA ClientSeat ==
  ASSUME SeatInv, NEW c \in Clients, NEW clicking \in BOOLEAN,
         ClientNext(c, clicking), UNCHANGED serverVars
  PROVE  SessionsMatchSockets' /\ StageInv' /\ RetvalInv'
<1> USE DEF SeatInv, TypeInv, TypeOK
<1>1. UNCHANGED <<sockets, session_map, kick, pc, retval>>
  BY DEF serverVars, loopVars, sessionVars
<1>2. SessionsMatchSockets' /\ RetvalInv'
  BY <1>1 DEF SessionsMatchSockets, InArray, RetvalInv
<1>3. CASE Connected(c)
  <2>1. Connecting(c) /\ backlog' = Append(backlog, c) /\ phase' = [phase EXCEPT ![c] = "scene"]
    BY <1>3 DEF Connected, Connecting
  <2>2. /\ backlog \in Seq(Clients) /\ Len(backlog) \in Nat
        /\ DOMAIN backlog = 1..Len(backlog)
        /\ DOMAIN backlog' = 1..(Len(backlog) + 1)
        /\ \A i \in 1..Len(backlog) : backlog'[i] = backlog[i]
        /\ backlog'[Len(backlog) + 1] = c
    BY <2>1, AppendProperties, LenProperties DEF NetTypeOK
  <2>3. \A i \in DOMAIN backlog : backlog[i] # c /\ backlog[i] \in Clients
    BY <2>1, <2>2, ElementOfSeq DEF StageInv
  <2>4. c \notin session_map /\ kick[c] = "none"
    BY <2>1 DEF StageInv
  <2>5. \A d \in Clients : d # c => phase'[d] = phase[d]
    BY <2>1 DEF ClientTypeOK
  <2>6. phase'[c] = "scene"
    BY <2>1 DEF ClientTypeOK
  <2>7. \A i \in DOMAIN backlog' : i \in DOMAIN backlog \/ i = Len(backlog) + 1
    BY <2>2
  <2>8. \A i, j \in DOMAIN backlog' : backlog'[i] = backlog'[j] => i = j
    <3> TAKE i, j \in DOMAIN backlog'
    <3> HAVE backlog'[i] = backlog'[j]
    <3>1. CASE i \in DOMAIN backlog /\ j \in DOMAIN backlog
      BY <2>2, <3>1 DEF StageInv, OnePlaceAtATime
    <3>2. CASE i = Len(backlog) + 1 \/ j = Len(backlog) + 1
      BY <2>2, <2>3, <2>7, <3>2
    <3> QED
      BY <2>7, <3>1, <3>2
  <2>9. \A i \in DOMAIN backlog' : /\ backlog'[i] \notin session_map
                                   /\ kick[backlog'[i]] = "none"
                                   /\ phase'[backlog'[i]] \notin {"none", "connecting"}
    <3> TAKE i \in DOMAIN backlog'
    <3>1. CASE i \in DOMAIN backlog
      BY <2>2, <2>3, <2>5, <3>1 DEF StageInv, OnePlaceAtATime, Connecting
    <3>2. CASE i = Len(backlog) + 1
      BY <2>2, <2>4, <2>6, <3>2 DEF Connecting
    <3> QED
      BY <2>7, <3>1, <3>2
  <2>10. \A d \in Clients : (d \in session_map \/ kick[d] # "none") => ~Connecting(d)'
    BY <2>4, <2>5 DEF StageInv, Connecting
  <2>11. \A d \in session_map : kick[d] = "none"
    BY DEF StageInv, OnePlaceAtATime
  <2>12. StageInv'
    BY <1>1, <2>8, <2>9, <2>10, <2>11 DEF StageInv, OnePlaceAtATime, Connecting
  <2> QED
    BY <1>2, <2>12
<1>4. CASE ~Connected(c)
  <2>1. UNCHANGED backlog /\ \A d \in Clients : ~Connecting(d) => ~Connecting(d)'
    BY <1>4 DEF ClientNext, Connect, UpdateTooEarly, Update, Exchange, ExitScene,
                CloseWindow, netVars, Connecting, ClientTypeOK
  <2> QED
    BY <1>1, <1>2, <2>1, StageUnchanged
<1> QED
  BY <1>3, <1>4

LEMMA SeatStep == SeatInv /\ [Next]_vars => SeatInv'
<1> SUFFICES ASSUME SeatInv, [Next]_vars PROVE SeatInv'
  OBVIOUS
<1>1. TypeInv'
  BY TypeStep DEF SeatInv
<1>2. CASE ServerStep
  BY <1>1, <1>2, AcceptSeat, RecvSeat, OtherServerSeat
     DEF ServerStep, ServerNext, NetworkThread, SeatInv
<1>3. ASSUME NEW c \in Clients, ClientStep(c) PROVE SeatInv'
  <2>1. MayClick(c) \in BOOLEAN
    BY DEF MayClick
  <2> QED
    BY <1>1, <1>3, <2>1, ClientSeat DEF ClientStep, SeatInv
<1>4. CASE UNCHANGED vars
  BY <1>1, <1>4 DEF vars, netVars, serverVars, clientVars, loopVars, sessionVars,
       SeatInv, SessionsMatchSockets, InArray, StageInv, OnePlaceAtATime, Connecting, RetvalInv
<1> QED
  BY <1>2, <1>3, <1>4 DEF Next

LEMMA SeatInvariant == Spec => []SeatInv
<1>1. Init => SeatInv
  BY InitSeat
<1>2. SeatInv /\ [Next]_vars => SeatInv'
  BY SeatStep
<1> QED
  BY <1>1, <1>2, PTL DEF Spec

\* SocketInfoArray and session_map always hold the same connections, each
\* once, and never more than there are seats.
THEOREM SocketsAndSessions == Spec => []SessionsMatchSockets
<1>1. SeatInv => SessionsMatchSockets
  BY DEF SeatInv
<1> QED
  BY <1>1, SeatInvariant, PTL

\* A connection is never in two of the backlog, the seats and the hands of a
\* kick thread.
THEOREM ConnectionsInOnePlace == Spec => []OnePlaceAtATime
<1>1. SeatInv => OnePlaceAtATime
  BY DEF SeatInv, StageInv
<1> QED
  BY <1>1, SeatInvariant, PTL

=============================================================================
