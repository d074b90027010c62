---------------------------- MODULE OmokReplicas ----------------------------
(***************************************************************************)
(* Each client keeps its own copy of the board and of whose turn it is and *)
(* changes it by the broadcasts alone.  This module relates the copies to  *)
(* each other and to the server's game, counting what is on its way.       *)
(***************************************************************************)
EXTENDS OmokSystem, SequencesExt

\* The scene s after the packets of q.
After(s, q) ==
  LET f[n \in 0..Len(q)] == IF n = 0 THEN s ELSE Process(f[n - 1], q[n])
  IN  f[Len(q)]

\* The scene of c once it has processed everything queued for it.
Eventual(c) == After(scene[c], Pending(c))

Announced == \E c \in session_map : Eventual(c).isOver

Playing(c) == Seated(c) /\ phase[c] = "scene"

\* The broadcasts on their way to c, oldest first: all but its colour, which
\* comes first.
Broadcasts(c) ==
  LET q == Pending(c)
  IN  IF q # <<>> /\ Head(q).type = "SC_ASSIGN_STONE" THEN Tail(q) ELSE q

\* All clients get the same broadcasts in the same order: of two playing
\* clients, what one has still to process is the end of what the other has,
\* whenever each sat down and however the passes of select() cut the stream.
SameOrder ==
  \A a, b \in Clients :
    (Playing(a) /\ Playing(b)) =>
      \/ IsSuffix(Broadcasts(a), Broadcasts(b))
      \/ IsSuffix(Broadcasts(b), Broadcasts(a))

\* When nobody leaves, all players end up with the same board, turn and
\* result, through every rejected, late or doubled request.
ReplicasAgree ==
  \A a, b \in session_map :
    LET s == Eventual(a)
        t == Eventual(b)
    IN /\ s.gomoku = t.gomoku /\ s.current_turn = t.current_turn
       /\ s.isOver = t.isOver /\ s.winner = t.winner

\* When nobody leaves, that board is the server's until a first result is
\* announced, and once both seats are taken so is the turn.
ReplicasFollowGame ==
  ~Announced =>
    \A c \in session_map :
      /\ Eventual(c).gomoku = omok.gomoku
      /\ Cardinality(session_map) = 2 => Eventual(c).current_turn = omok.current_turn

\* When nobody leaves, the two players are of different colours and nobody
\* moves before both are there.
SeatsDiffer ==
  /\ \A a, b \in session_map :
       a # b => Eventual(a).myOmokStone # Eventual(b).myOmokStone
  /\ Cardinality(session_map) < 2 => omok.gomoku = EmptyBoard

-----------------------------------------------------------------------------
(* Refinement *)

\* Giving the first player a colour also passes the turn of the game, and
\* giving the second passes it back: before both are there the match, which
\* has not begun, has black to move.
Match == INSTANCE GomokuMatch WITH
  board   <- omok.gomoku,
  turn    <- IF Cardinality(session_map) = 2 THEN omok.current_turn ELSE OMOK_BLACK,
  decided <- IF omok.is_over THEN omok.winner ELSE OMOK_EMPTY

\* When nobody leaves and nobody clicks twice, every change of the server's
\* game is a legal move of the colour in turn or, after a result, the start of
\* the next match.
MovesAreLegal == Match!MatchMoves

\* Then the server plays matches of gomoku: its changes are legal, and the next
\* match always comes.
PlaysMatches == Match!MatchSpec

-----------------------------------------------------------------------------
(* Liveness, under FairSpec *)

\* Whoever gets a connection is seated, or told that there is no room and
\* disconnected, unless the player leaves first.
EveryoneIsServed ==
  \A c \in Clients :
    phase[c] = "scene" ~> (c \in session_map \/ phase[c] \in {"cut", "exited", "gone"})

\* A stone on the server's board comes to lie on the board of every player.
EveryMoveIsSeen ==
  \A c \in Clients, p \in Cells, s \in Players :
    (omok.gomoku[p] = s /\ Playing(c)) ~> (scene[c].gomoku[p] = s \/ ~Playing(c))

\* When the game is over, every player comes to know.
ResultIsSeen ==
  \A c \in Clients :
    (omok.is_over /\ Playing(c)) ~> (scene[c].isOver \/ ~Playing(c))

\* The seat of a player whose program has ended becomes free.  When two have
\* ended, removing the first moves the second into its place and the loop goes
\* on behind it: the one skipped in this pass is served in a later one.
SeatIsFreed ==
  \A c \in Clients :
    (c \in session_map /\ link[c] = "shut") ~> c \notin session_map

-----------------------------------------------------------------------------
(* What comments in the code say, and the code does not do *)

\* Omok.cpp:131, "a row of five: the game ends with the victory of the stone
\* whose turn it was": once the game is over no stone is played and the
\* winner stays until the next game starts.
NothingAfterTheWin ==
  [][omok.is_over => (omok' = omok \/ omok' = NewGame(omok))]_omok

\* The same line: Five in a row, wherever it lies, ends the game.
FiveEndsTheGame ==
  \A s \in Players : HasFive(omok.gomoku, s) => omok.is_over

\* Omok.cpp:30, "black starts, so the current state becomes black": with both
\* seats taken and no stone on the board, it is black's turn.
BlackOpens ==
  (Cardinality(session_map) = 2 /\ omok.gomoku = EmptyBoard) =>
    omok.current_turn = OMOK_BLACK

\* OmokScene.cpp:43 says the same of the client's game: when the server has
\* started a game afresh, the players' scenes will have black to move.
ScenesStartWithBlack ==
  \A c \in session_map :
    omok.gomoku = EmptyBoard => Eventual(c).current_turn = OMOK_BLACK

\* OmokServer.cpp:474, "tells the user who came in and safely disconnects
\* them": a kick thread never ends with its socket open.
KickThreadCloses ==
  \A c \in Clients : kick[c] # "leaked"

=============================================================================
