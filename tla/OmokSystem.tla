----------------------------- MODULE OmokSystem -----------------------------
(***************************************************************************)
(* The server and the client programs, joined by the network: the whole of *)
(* the game as it is played, and what should be true of it.                *)
(***************************************************************************)
EXTENDS OmokServer, OmokClient

CONSTANTS
  Clickers,   \* the clients whose player may click at all
  Hasty       \* those of them who may click again while something is on its
              \* way; the others wait

ASSUME ClickersAssumption == Clickers \subseteq Clients /\ Hasty \subseteq Clickers

vars == <<netVars, serverVars, clientVars>>

Init == NetInit /\ ServerInit /\ ClientInit

\* Nothing client c has sent or is to be sent is still on its way.
Settled(c) == /\ up[c] = <<>> /\ recv_buffer[c] = <<>>
              /\ send_buffer[c] = <<>> /\ down[c] = <<>>

ServerStep == ServerNext /\ UNCHANGED clientVars

MayClick(c) == c \in Clickers /\ (c \in Hasty \/ Settled(c))

ClientStep(c) == ClientNext(c, MayClick(c)) /\ UNCHANGED serverVars

Next == ServerStep \/ \E c \in Clients : ClientStep(c)

Spec == Init /\ [][Next]_vars

-----------------------------------------------------------------------------
(* Fairness.  The network thread never sleeps (select() has a zero timeout), *)
(* so it always takes its next step; select() reports a socket that stays    *)
(* ready sooner or later, because what was sent arrives; a kick thread runs  *)
(* until it blocks in recvn(); a client reads its socket in every frame.     *)
(* Nobody has to click, connect or leave, and the clock may stop.            *)

SelectReports(c) == Select /\ c \in rset'
SelectIncoming == Select /\ incoming'

Reads(c) == Update(c, FALSE) /\ UNCHANGED serverVars

Fairness ==
  /\ WF_vars(NetworkThread /\ UNCHANGED clientVars)
  /\ SF_vars(SelectIncoming /\ UNCHANGED clientVars)
  /\ \A c \in Clients : /\ SF_vars(SelectReports(c) /\ UNCHANGED clientVars)
                        /\ WF_vars(KickThread(c) /\ UNCHANGED clientVars)
                        /\ WF_vars(Reads(c))

FairSpec == Spec /\ Fairness

-----------------------------------------------------------------------------
(* Safety *)

\* Every variable stays in its type.
TypeOK == NetTypeOK /\ ServerTypeOK /\ ClientTypeOK

\* SocketInfoArray and session_map always speak of the same connections, each
\* connection has one slot, and there are never more of them than seats: the
\* two structures are changed in different functions, entries move when one
\* is removed, and the check after send() looks at a stale retval.
SessionsMatchSockets ==
  /\ session_map = InArray
  /\ \A i, j \in DOMAIN sockets : sockets[i] = sockets[j] => i = j
  /\ Len(sockets) <= MaxConnectionCount

\* The network thread only parses packets it knows: the answer of a client
\* that was turned away is read by its kick thread and never reaches
\* Session::process_packet, whose default case ends the server.
ParseNeverCrashes == pc # "crashed"

\* What the server has queued for c and c has not yet processed.
Pending(c) == down[c] \o send_buffer[c]

Seated(c) == c \in session_map /\ link[c] = "open"

\* A seated client is told its colour exactly once and before anything else:
\* either the assignment is the first packet it will process and the only
\* one, or it has been processed and no other is on its way.
ColourComesFirst ==
  \A c \in Clients : Seated(c) =>
    LET assigns == {i \in DOMAIN Pending(c) : Pending(c)[i].type = "SC_ASSIGN_STONE"}
    IN assigns = IF scene[c].myOmokStone = OMOK_EMPTY THEN {1} ELSE {}

\* Every request on its way carries the colour its sender was given and still
\* has, though the server never compares the two: no client can move for the
\* other colour.
RequestsOwnColour ==
  \A c \in Clients : \A i \in DOMAIN (recv_buffer[c] \o up[c]) :
    LET m == (recv_buffer[c] \o up[c])[i]
    IN m.type = "CS_DROP_STONE_REQUEST" =>
         m.stone = scene[c].myOmokStone /\ m.stone \in Players

\* A connection is in one place at a time: waiting in the backlog, once; or in
\* a seat; or with a kick thread.  Nobody who was turned away is seated, by a
\* thread of its own or by the network thread, and nobody waits for a second
\* seat.
OnePlaceAtATime ==
  /\ \A i, j \in DOMAIN backlog : backlog[i] = backlog[j] => i = j
  /\ \A i \in DOMAIN backlog :
       backlog[i] \notin session_map /\ kick[backlog[i]] = "none"
  /\ \A c \in session_map : kick[c] = "none"

\* The line of n cells that starts at p and runs along d.
LineOf(p, d, n) == {Along(p, d, k) : k \in 0..(n - 1)}

\* Five cells in a row, all of stone s.
HasFive(board, s) ==
  \E p \in Cells, d \in Directions :
    LET line == LineOf(p, d, Five)
    IN line \subseteq Cells /\ \A q \in line : board[q] = s

\* The game is over only for a winner that has Five in a row on the board,
\* and it does not go on past a row that CheckGomoku counts as Five: looking
\* only at the rows through the last stone misses nothing.
GameOverIsJustified ==
  /\ omok.is_over => HasFive(omok.gomoku, omok.winner)
  /\ ~omok.is_over =>
       \A p \in Cells, d \in Directions :
         omok.gomoku[p] # OMOK_EMPTY => Count(omok.gomoku, p, d, omok.gomoku[p]) # Five

\* The clock a client shows never runs back, though the timer thread writes
\* time_tick while TIME and RESULT packets carrying it are queued.
TimeNeverRunsBack ==
  [][\A c \in Clients : scene'[c].time_tick >= scene[c].time_tick]_vars

=============================================================================
