----------------------------- MODULE OmokClient -----------------------------
(***************************************************************************)
(* The client programs: OmokClient.cpp (the socket) and OmokScene.cpp (the *)
(* board the player sees and clicks on).  Each is one thread that calls    *)
(* OmokScene::Update once per frame: at most one click, then whatever has  *)
(* arrived is processed, then what is to be sent is sent.                  *)
(***************************************************************************)
EXTENDS OmokNetwork

CONSTANTS
  Leavers,      \* the clients whose player may leave
  MaxPending    \* bound: packets of one client on their way to the server

ASSUME ClientAssumption == /\ Leavers \subseteq Clients
                           /\ MaxPending \in Nat \ {0}

VARIABLES
  phase,   \* phase[c]: how far program c has come
  scene    \* scene[c]: the fields of its OmokScene

clientVars == <<phase, scene>>

\* "none"       not started
\* "connecting" connect() has returned WSAEWOULDBLOCK
\* "scene"      connected, the scene is updated every frame
\* "exited"     back in the empty scene: the client object is deleted, its
\*              socket is not closed
\* "cut"        disconnect() has closed the socket
\* "gone"       the program has ended
Phases == {"none", "connecting", "scene", "exited", "cut", "gone"}

Scenes == [gomoku : Boards, current_turn : Stones, myOmokStone : Stones,
           isOver : BOOLEAN, winner : Stones, time_tick : Nat]

\* OmokScene::Init.  The winner is not initialised; nothing reads it before
\* isOver is set.
InitialScene == [gomoku |-> EmptyBoard, current_turn |-> OMOK_BLACK,
                 myOmokStone |-> OMOK_EMPTY, isOver |-> FALSE,
                 winner |-> OMOK_EMPTY, time_tick |-> 0]

ClientTypeOK ==
  /\ phase \in [Clients -> Phases]
  /\ scene \in [Clients -> Scenes]

ClientInit ==
  /\ phase = [c \in Clients |-> "none"]
  /\ scene = [c \in Clients |-> InitialScene]

-----------------------------------------------------------------------------
(* OmokClient::process_packet, as its effect on the scene *)

\* Faulty variant of Process: a stone is laid and the turn not passed on.
ProcessKeepsTurn(s, m) ==
  CASE m.type = "SC_ASSIGN_STONE" -> [s EXCEPT !.myOmokStone = m.stone]
    [] m.type = "SC_DROP_STONE_RESPONSE" -> [s EXCEPT !.gomoku[m.at] = m.stone]
    [] OTHER -> s

Process(s, m) ==
  CASE m.type = "SC_ASSIGN_STONE" ->
         [s EXCEPT !.myOmokStone = m.stone]
    [] m.type = "SC_NOTIFY_SERVER_TIME" ->
         [s EXCEPT !.time_tick = m.tick]
    [] m.type = "SC_DROP_STONE_RESPONSE" ->
         [s EXCEPT !.gomoku[m.at] = m.stone, !.current_turn = OtherStone(@)]
    [] m.type = "SC_NOTIFY_GAME_RESULT" ->
         [s EXCEPT !.time_tick = m.tick, !.winner = m.winner, !.isOver = TRUE]
    [] OTHER -> s

\* Faulty variants of Replies: the type of the answer is left as it came; no
\* answer.
RepliesSameType(m) == IF m.type = "SC_NOTIFY_KICK" THEN <<m>> ELSE <<>>
RepliesNever(m) == <<>>

\* The packets its processing puts into the send buffer.
Replies(m) == IF m.type = "SC_NOTIFY_KICK" THEN <<KickAnswer>> ELSE <<>>

-----------------------------------------------------------------------------
(* OmokScene::Init: start the program and connect *)

Connect(c) ==
  /\ phase[c] = "none"
  /\ phase' = [phase EXCEPT ![c] = "connecting"]
  /\ UNCHANGED <<scene, netVars>>

\* The three-way handshake completes.
Connected(c) ==
  /\ phase[c] = "connecting"
  /\ phase' = [phase EXCEPT ![c] = "scene"]
  /\ link' = [link EXCEPT ![c] = "open"]
  /\ backlog' = Append(backlog, c)
  /\ UNCHANGED <<scene, up, down>>

\* A frame before that: recv() fails with WSAENOTCONN, not WSAEWOULDBLOCK,
\* and recv_packet closes the socket.
UpdateTooEarly(c) ==
  /\ phase[c] = "connecting"
  /\ phase' = [phase EXCEPT ![c] = "cut"]
  /\ UNCHANGED <<scene, netVars>>

-----------------------------------------------------------------------------
(* OmokScene::Update *)

\* Faulty variant of MyTurn: whose turn it is is not looked at.
AnyTurn(c) == TRUE

MyTurn(c) == scene[c].current_turn = scene[c].myOmokStone

\* What a click in this frame puts into the send buffer: nothing, or a
\* request for a cell the scene shows empty.
Clicks(c) ==
  {<<>>} \cup
  (IF MyTurn(c) /\ Len(up[c]) < MaxPending
   THEN {<<DropRequest(scene[c].myOmokStone, p)>> :
           p \in {q \in Cells : scene[c].gomoku[q] = OMOK_EMPTY}}
   ELSE {})

\* The network part of the frame, with `clicked` already in the send buffer:
\* process a packet that has arrived (several in one frame are several steps
\* without a click), or find the connection closed, or find nothing; then send.
Exchange(c, clicked) ==
  \/ /\ down[c] # <<>>
     /\ scene' = [scene EXCEPT ![c] = Process(@, Head(down[c]))]
     /\ down' = [down EXCEPT ![c] = Tail(@)]
     /\ up' = [up EXCEPT ![c] = @ \o clicked \o Replies(Head(down[c]))]
     /\ UNCHANGED phase
  \/ /\ down[c] = <<>> /\ link[c] = "closed"
     /\ phase' = [phase EXCEPT ![c] = "cut"]
     /\ UNCHANGED <<scene, down, up>>
  \/ /\ clicked # <<>> /\ link[c] = "open"
     /\ up' = [up EXCEPT ![c] = @ \o clicked]
     /\ UNCHANGED <<phase, scene, down>>

\* `clicking`: whether this player may click now.
Update(c, clicking) ==
  /\ phase[c] = "scene"
  /\ \E clicked \in IF clicking THEN Clicks(c) ELSE {<<>>} : Exchange(c, clicked)
  /\ UNCHANGED <<link, backlog>>

\* A click on the exit button, seen only in one's own turn: the scene is
\* released, and with it the client object, but nobody closes the socket.
ExitScene(c) ==
  /\ phase[c] = "scene" /\ c \in Leavers
  /\ MyTurn(c)
  /\ phase' = [phase EXCEPT ![c] = "exited"]
  /\ UNCHANGED <<scene, netVars>>

\* The program ends and the system resets its connection (linger is 0); what
\* it had sent may or may not still reach the server.
CloseWindow(c) ==
  /\ phase[c] \in {"scene", "exited"} /\ c \in Leavers
  /\ phase' = [phase EXCEPT ![c] = "gone"]
  /\ link' = [link EXCEPT ![c] = IF @ = "open" THEN "shut" ELSE @]
  /\ up' \in {up, [up EXCEPT ![c] = <<>>]}
  /\ down' = [down EXCEPT ![c] = <<>>]
  /\ UNCHANGED <<scene, backlog>>

ClientNext(c, clicking) ==
  \/ Connect(c) \/ Connected(c) \/ UpdateTooEarly(c)
  \/ Update(c, clicking)
  \/ ExitScene(c) \/ CloseWindow(c)

=============================================================================
