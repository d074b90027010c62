----------------------------- MODULE OmokServer -----------------------------
(***************************************************************************)
(* The server: OmokServer.cpp and Session.cpp.                             *)
(*                                                                         *)
(* One network thread runs update() forever: a pass of update_network()    *)
(* (select, accept at most one connection, then for each socket read,      *)
(* parse and write), the timer check, the game-over check.  pc is where in *)
(* that loop the thread is; every point at which a system call lets the    *)
(* other threads and the clients in is a step boundary.  The timer thread  *)
(* and the kick threads run beside it.                                     *)
(*                                                                         *)
(* SOCKETINFO* and Session* are identified with the client at the other    *)
(* end: a connection has one of each, and no client connects twice.        *)
(***************************************************************************)
EXTENDS OmokNetwork

CONSTANT MaxTicks      \* bound: how often the timer thread moves the clock

ASSUME TickAssumption == MaxTicks \in Nat

VARIABLES
  pc,           \* where the network thread is in update()
  idx,          \* i, the loop index into SocketInfoArray
  retval,       \* whether retval is SOCKET_ERROR
  rset, wset,   \* what select() left in the two FD_SETs (client sockets)
  incoming,     \* whether select() left the listening socket in rset
  sockets,      \* SocketInfoArray[0..nTotalSockets-1]
  session_map,  \* the keys of session_map
  send_buffer,  \* send_buffer[c]: the session's packets not yet sent
  recv_buffer,  \* recv_buffer[c]: the session's packets not yet parsed
  omok,         \* the game
  time_tick,    \* milliseconds since the timer thread started, in ticks
  timer_event,  \* timer events the network thread has not yet handled
  kick          \* kick[c]: where the kick thread of connection c is

loopVars == <<pc, idx, retval, rset, wset, incoming>>
sessionVars == <<sockets, session_map, send_buffer, recv_buffer>>
timerVars == <<time_tick, timer_event>>
serverVars == <<loopVars, sessionVars, omok, timerVars, kick>>

\* Faulty variant of MaxConnectionCount: a third seat.
ThreeSeats == 3

MaxConnectionCount == 2

Locations == {"select", "accept", "recv", "parse", "send", "timer", "over", "crashed"}

\* "leaked": the thread ended without closing its socket.
KickStates == {"none", "notify", "await", "closed", "leaked"}

ServerTypeOK ==
  /\ pc \in Locations
  /\ idx \in Nat \ {0}
  /\ retval \in {"ok", "error"}
  /\ rset \subseteq Clients
  /\ wset \subseteq Clients
  /\ incoming \in BOOLEAN
  /\ sockets \in Seq(Clients)
  /\ session_map \subseteq Clients
  /\ send_buffer \in [Clients -> Seq(ServerPackets)]
  /\ recv_buffer \in [Clients -> Seq(ClientPackets)]
  /\ omok \in Games
  /\ time_tick \in Nat
  /\ timer_event \in Nat
  /\ kick \in [Clients -> KickStates]

\* timer_event is not initialised by the constructor: whatever the memory
\* held counts as events not yet handled.  Only its being zero or not
\* matters, so small values stand for all.
ServerInit ==
  /\ pc = "select"
  /\ idx = 1
  /\ retval = "ok"
  /\ rset = {} /\ wset = {} /\ incoming = FALSE
  /\ sockets = <<>>
  /\ session_map = {}
  /\ send_buffer = [c \in Clients |-> <<>>]
  /\ recv_buffer = [c \in Clients |-> <<>>]
  /\ omok = FreshGame
  /\ time_tick = 0
  /\ timer_event \in 0..MaxTicks
  /\ kick = [c \in Clients |-> "none"]

-----------------------------------------------------------------------------
(* Helpers *)

InArray == {sockets[i] : i \in DOMAIN sockets}

\* Faulty variant of Broadcast: a session with unsent packets is passed over.
BroadcastIfIdle(m) ==
  send_buffer' = [c \in Clients |-> IF c \in session_map /\ send_buffer[c] = <<>>
                                    THEN <<m>> ELSE send_buffer[c]]

\* pre_send of one packet to every session in session_map.  The buffers have
\* no end here: that pre_send ends the server when one is full is in OmokWire.
Broadcast(m) ==
  send_buffer' = [c \in Clients |-> IF c \in session_map
                                    THEN Append(send_buffer[c], m)
                                    ELSE send_buffer[c]]

\* Faulty variant of GotoSocket: the loop ends one socket early.
GotoSocketShort(i, n) ==
  IF i < n THEN pc' = "recv" /\ idx' = i
           ELSE pc' = "timer" /\ idx' = 1

\* The loop test of the per-socket loop for index i, with nTotalSockets = n.
GotoSocket(i, n) ==
  IF i <= n THEN pc' = "recv" /\ idx' = i
            ELSE pc' = "timer" /\ idx' = 1

AddSocketInfo(c) == sockets' = Append(sockets, c)

InsertSession(c) == session_map' = session_map \cup {c}

RemoveSession(c) == session_map' = session_map \ {c}

\* Faulty variant of WithoutSocket: the last entry goes and is not moved.
WithoutSocketNoMove(i) == SubSeq(sockets, 1, Len(sockets) - 1)

\* RemoveSocketInfo(i): close the socket, move the last entry into its place.
WithoutSocket(i) ==
  [j \in 1..(Len(sockets) - 1) |-> IF j = i THEN sockets[Len(sockets)] ELSE sockets[j]]

RemoveSocketInfo(i) ==
  /\ sockets' = WithoutSocket(i)
  /\ link' = [link EXCEPT ![sockets[i]] = "closed"]
  /\ up' = [up EXCEPT ![sockets[i]] = <<>>]

-----------------------------------------------------------------------------
(* update_network() *)

\* The sets are built from the send buffers as they are now; select() with a
\* zero timeout keeps the sockets that are ready at this instant.  What has
\* been sent may still be on its way, so any subset of what could be ready is
\* a possible answer.  A socket with room in its window is always writable.
Select ==
  /\ pc = "select"
  /\ \E ready \in SUBSET {c \in InArray : Readable(c)} : rset' = ready
  /\ wset' = {c \in InArray : send_buffer[c] # <<>>}
  /\ incoming' \in {FALSE, backlog # <<>>}
  /\ retval' = "ok"
  /\ pc' = "accept"
  /\ UNCHANGED <<idx, sessionVars, omok, timerVars, kick, netVars>>

\* Faulty variants of AssignStoneType: the turn is not passed on; the colour is
\* announced to everybody.
AssignKeepsTurn(c) ==
  /\ send_buffer' = [send_buffer EXCEPT ![c] = <<AssignStone(omok.current_turn)>>]
  /\ UNCHANGED omok

AssignTellsAll(c) ==
  /\ send_buffer' = [d \in Clients |-> IF d \in session_map \cup {c}
                       THEN Append(send_buffer[d], AssignStone(omok.current_turn))
                       ELSE send_buffer[d]]
  /\ omok' = SwapTurn(omok)

\* The newcomer gets the colour whose turn it is in the game, and the game's
\* turn passes to the other colour.
AssignStoneType(c) ==
  /\ send_buffer' = [send_buffer EXCEPT ![c] = <<AssignStone(omok.current_turn)>>]
  /\ omok' = SwapTurn(omok)

\* A seat is free: the connection gets it, with a new session and a colour.
Seat(c) ==
  /\ Len(sockets) < MaxConnectionCount
  /\ AddSocketInfo(c)
  /\ InsertSession(c)
  /\ AssignStoneType(c)
  /\ UNCHANGED <<recv_buffer, kick>>

\* Faulty variant of TurnAway: the socket is added before the seats are counted.
TurnAwaySeated(c) ==
  /\ MaxConnectionCount <= Len(sockets)
  /\ sockets' = Append(sockets, c)
  /\ session_map' = session_map \cup {c}
  /\ kick' = [kick EXCEPT ![c] = "notify"]
  /\ UNCHANGED <<send_buffer, recv_buffer, omok>>

\* No seat is left: a kick thread gets the socket.
TurnAway(c) ==
  /\ MaxConnectionCount <= Len(sockets)
  /\ kick' = [kick EXCEPT ![c] = "notify"]
  /\ UNCHANGED <<sessionVars, omok>>

\* accept() may fail when the peer has already reset the connection.
AcceptFails(c) ==
  /\ link[c] = "shut"
  /\ UNCHANGED <<sessionVars, omok, kick>>

Accept ==
  /\ pc = "accept"
  /\ IF incoming
     THEN /\ backlog' = Tail(backlog)
          /\ LET c == Head(backlog) IN Seat(c) \/ TurnAway(c) \/ AcceptFails(c)
     ELSE UNCHANGED <<backlog, sessionVars, omok, kick>>
  /\ GotoSocket(1, Len(sockets'))
  /\ UNCHANGED <<retval, rset, wset, incoming, timerVars, link, up, down>>

\* recv() on a socket in rset.  With data there, any part of it is read;
\* with the data used up and the peer gone, the socket and then the session
\* are removed, and the loop goes on at i + 1.
Recv ==
  /\ pc = "recv"
  /\ LET c == sockets[idx] IN
     \/ /\ c \notin rset
        /\ pc' = "send"
        /\ UNCHANGED <<idx, retval, sessionVars, netVars>>
     \/ /\ c \in rset
        /\ \E n \in 1..Len(up[c]) :
             /\ recv_buffer' = [recv_buffer EXCEPT ![c] = @ \o SubSeq(up[c], 1, n)]
             /\ up' = [up EXCEPT ![c] = SubSeq(@, n + 1, Len(@))]
        /\ retval' = "ok"
        /\ pc' = "parse"
        /\ UNCHANGED <<idx, sockets, session_map, send_buffer, link, backlog, down>>
     \/ /\ c \in rset
        /\ up[c] = <<>> /\ link[c] = "shut"
        /\ retval' \in {"error", "ok"}     \* reset, or an orderly end: recv = 0
        /\ RemoveSocketInfo(idx)
        /\ RemoveSession(c)
        /\ GotoSocket(idx + 1, Len(sockets'))
        /\ UNCHANGED <<send_buffer, recv_buffer, backlog, down>>
  /\ UNCHANGED <<rset, wset, incoming, omok, timerVars, kick>>

\* Session::process_packet.  A drop request of the colour in turn for an empty
\* cell is played and broadcast; any other is dropped without an answer.  The
\* session does not know its own colour: it is the one the packet carries.  A
\* packet of another type is the default case, crash().
IsDropRequest(m) == m.type = "CS_DROP_STONE_REQUEST"

Playable(m) ==
  /\ IsDropRequest(m)
  /\ m.stone = omok.current_turn
  /\ CanDrop(omok, m.at)

ProcessPacket(m) ==
  \/ /\ Playable(m)
     /\ omok' = CheckGomoku(SwapTurn(DropStone(omok, m.at, m.stone)), m.at, m.stone)
     /\ Broadcast(DropResponse(m.stone, m.at))
  \/ /\ ~Playable(m)
     /\ UNCHANGED <<omok, send_buffer>>

\* One turn of the loop in Session::parse_packet.
Parse ==
  /\ pc = "parse"
  /\ LET c == sockets[idx]
         m == Head(recv_buffer[c])
     IN /\ recv_buffer' = [recv_buffer EXCEPT ![c] = Tail(@)]
        /\ ProcessPacket(m)
        /\ pc' = IF ~IsDropRequest(m) THEN "crashed"
                 ELSE IF Len(recv_buffer[c]) = 1 THEN "send" ELSE "parse"
  /\ UNCHANGED <<idx, retval, rset, wset, incoming, sockets, session_map,
                 timerVars, kick, netVars>>

\* send() of all there is to send to c: a reset connection loses it, now or
\* with the session.
Transmit(c) ==
  /\ \/ /\ link[c] = "open"
        /\ down' = [down EXCEPT ![c] = @ \o send_buffer[c]]
        /\ send_buffer' = [send_buffer EXCEPT ![c] = <<>>]
     \/ /\ link[c] # "open"
        /\ send_buffer' \in {send_buffer, [send_buffer EXCEPT ![c] = <<>>]}
        /\ UNCHANGED down
  /\ UNCHANGED <<sockets, link, up>>

\* What the check that follows send() looks at is not its result but retval,
\* still that of the last recv() or of select(); where that is SOCKET_ERROR
\* the socket is removed and its session is not.
Send ==
  /\ pc = "send"
  /\ LET c == sockets[idx] IN
     \/ /\ c \notin wset
        /\ UNCHANGED <<sockets, send_buffer, link, up, down>>
     \/ /\ c \in wset
        /\ IF retval = "error"
           THEN RemoveSocketInfo(idx) /\ UNCHANGED <<send_buffer, down>>
           ELSE Transmit(c)
  /\ GotoSocket(idx + 1, Len(sockets'))
  /\ UNCHANGED <<retval, rset, wset, incoming, session_map, recv_buffer, omok,
                 timerVars, kick, backlog>>

-----------------------------------------------------------------------------
(* The rest of update() *)

UpdateTimer ==
  /\ pc = "timer"
  /\ pc' = "over"
  /\ \/ /\ timer_event > 0
        /\ Broadcast(ServerTime(time_tick))
        /\ timer_event' = timer_event - 1
     \/ /\ timer_event = 0
        /\ UNCHANGED <<send_buffer, timer_event>>
  /\ UNCHANGED <<idx, retval, rset, wset, incoming, sockets, session_map,
                 recv_buffer, omok, time_tick, kick, netVars>>

\* Faulty variants of UpdateOver: only the session of the first socket gets the
\* result; the next game starts without one.
UpdateOverToFirst ==
  /\ pc = "over"
  /\ pc' = "select"
  /\ \/ /\ omok.is_over
        /\ send_buffer' = [c \in Clients |-> IF sockets # <<>> /\ c = sockets[1]
                             THEN Append(send_buffer[c], GameResult(omok.winner, time_tick))
                             ELSE send_buffer[c]]
        /\ omok' = NewGame(omok)
     \/ /\ ~omok.is_over
        /\ UNCHANGED <<send_buffer, omok>>
  /\ UNCHANGED <<idx, retval, rset, wset, incoming, sockets, session_map,
                 recv_buffer, timerVars, kick, netVars>>

UpdateOverSilent ==
  /\ pc = "over"
  /\ pc' = "select"
  /\ omok' = IF omok.is_over THEN NewGame(omok) ELSE omok
  /\ UNCHANGED <<idx, retval, rset, wset, incoming, sockets, session_map,
                 send_buffer, recv_buffer, timerVars, kick, netVars>>

UpdateOver ==
  /\ pc = "over"
  /\ pc' = "select"
  /\ \/ /\ omok.is_over
        /\ Broadcast(GameResult(omok.winner, time_tick))
        /\ omok' = NewGame(omok)
     \/ /\ ~omok.is_over
        /\ UNCHANGED <<send_buffer, omok>>
  /\ UNCHANGED <<idx, retval, rset, wset, incoming, sockets, session_map,
                 recv_buffer, timerVars, kick, netVars>>

-----------------------------------------------------------------------------
(* timer_thread_func: the clock moves, and with it, usually, an event is     *)
(* raised (after one long sleep never again; and the thread may end at any   *)
(* time, for it asks a wrong pointer whether the game is over).              *)

TimerThread ==
  /\ time_tick < MaxTicks
  /\ time_tick' = time_tick + 1
  /\ timer_event' \in {timer_event, timer_event + 1}
  /\ UNCHANGED <<loopVars, sessionVars, omok, kick, netVars>>

-----------------------------------------------------------------------------
(* kick_thread_func for connection c *)

KickNotify(c) ==
  /\ kick[c] = "notify"
  /\ kick' = [kick EXCEPT ![c] = "await"]
  /\ down' = IF link[c] = "open" THEN [down EXCEPT ![c] = Append(@, NotifyKick)] ELSE down
  /\ UNCHANGED <<loopVars, sessionVars, omok, timerVars, link, backlog, up>>

\* recvn() waits for a header's worth of bytes, whatever they are, or for the
\* connection to end; only in the first case is the socket closed.
KickAnswered(c) ==
  /\ kick[c] = "await"
  /\ up[c] # <<>>
  /\ kick' = [kick EXCEPT ![c] = "closed"]
  /\ up' = [up EXCEPT ![c] = <<>>]
  /\ link' = [link EXCEPT ![c] = "closed"]
  /\ UNCHANGED <<loopVars, sessionVars, omok, timerVars, backlog, down>>

KickUnanswered(c) ==
  /\ kick[c] = "await"
  /\ up[c] = <<>> /\ link[c] = "shut"
  /\ kick' = [kick EXCEPT ![c] = "leaked"]
  /\ UNCHANGED <<loopVars, sessionVars, omok, timerVars, netVars>>

KickThread(c) == KickNotify(c) \/ KickAnswered(c) \/ KickUnanswered(c)

NetworkThread == Select \/ Accept \/ Recv \/ Parse \/ Send \/ UpdateTimer \/ UpdateOver

ServerNext ==
  \/ NetworkThread
  \/ TimerThread
  \/ \E c \in Clients : KickThread(c)

=============================================================================
