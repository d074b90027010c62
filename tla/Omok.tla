-------------------------------- MODULE Omok --------------------------------
(***************************************************************************)
(* The rules object of the server, OmokServer/OmokServer/Omok.cpp: the     *)
(* board, whose turn it is, the winner and whether the game is over.  Only *)
(* the server's single network thread calls it, so it is a record and each *)
(* method an operator from game to game.                                   *)
(*                                                                         *)
(* The code's board has cells 0..18 in both directions and five stones     *)
(* win; here the last indices and the winning length are parameters.       *)
(***************************************************************************)
EXTENDS Integers, FiniteSets

CONSTANTS MaxX, MaxY,   \* last row and column (18 and 18 in the code)
          Five          \* stones in a winning line (5 in the code)

ASSUME BoardAssumption == MaxX \in Nat /\ MaxY \in Nat /\ Five \in Nat \ {0}

OMOK_EMPTY == 0
OMOK_BLACK == 1
OMOK_WHITE == 2

Stones == {OMOK_EMPTY, OMOK_BLACK, OMOK_WHITE}
Players == {OMOK_BLACK, OMOK_WHITE}
Cells == (0..MaxX) \X (0..MaxY)
Boards == [Cells -> Stones]

\* game_status is written by Init and read nowhere, so it is left out.
Games == [gomoku : Boards, current_turn : Stones, winner : Stones,
          is_over : BOOLEAN]

EmptyBoard == [p \in Cells |-> OMOK_EMPTY]

\* The constructor followed by Init(), as OmokServer::init runs them.
FreshGame == [gomoku |-> EmptyBoard, current_turn |-> OMOK_BLACK,
              winner |-> OMOK_EMPTY, is_over |-> FALSE]

\* Faulty variant of NewGame: the turn is not given back to BLACK.
NewGameKeepsTurn(g) == [g EXCEPT !.gomoku = EmptyBoard, !.is_over = FALSE]

\* Omok::Init: a new board with BLACK to move.  The winner is not reset.
NewGame(g) == [g EXCEPT !.gomoku = EmptyBoard,
                        !.current_turn = OMOK_BLACK,
                        !.is_over = FALSE]

OtherStone(s) == IF s = OMOK_BLACK THEN OMOK_WHITE
                 ELSE IF s = OMOK_WHITE THEN OMOK_BLACK ELSE s

SwapTurn(g) == [g EXCEPT !.current_turn = OtherStone(@)]

CanDrop(g, p) == g.gomoku[p] = OMOK_EMPTY

DropStone(g, p, s) == [g EXCEPT !.gomoku[p] = s]

GameOver(g, s) == [g EXCEPT !.winner = s, !.is_over = TRUE]

-----------------------------------------------------------------------------
(* CheckGomoku *)

\* Row, column, diagonal and anti-diagonal, in the order they are tried.
Directions == {<<1, 0>>, <<0, 1>>, <<1, 1>>, <<1, -1>>}

Reach == IF MaxX > MaxY THEN MaxX ELSE MaxY

Along(p, d, k) == <<p[1] + k * d[1], p[2] + k * d[2]>>

\* The offsets k such that every cell from p to the k-th along d holds s.
Run(board, p, d, s) ==
  {k \in (-Reach)..Reach :
     \A j \in (-Reach)..Reach :
        ((k <= j /\ j <= 0) \/ (0 <= j /\ j <= k))
           => /\ Along(p, d, j) \in Cells
              /\ board[Along(p, d, j)] = s}

\* The loops step back to the start of the run and then count forward, but
\* the index is incremented before it is compared with 18 (or 0): a stone
\* counts only if the cell after it is still on the board, so the stone on
\* the far edge is never counted.
Count(board, p, d, s) ==
  Cardinality({k \in Run(board, p, d, s) : Along(p, d, k + 1) \in Cells})

\* Faulty variant of CheckGomoku: the winner is taken from the turn, which has
\* already passed on.
CheckGomokuOfTurn(g, p, s) ==
  IF \E d \in Directions : Count(g.gomoku, p, d, s) = Five
  THEN GameOver(g, g.current_turn)
  ELSE g

CheckGomoku(g, p, s) ==
  IF \E d \in Directions : Count(g.gomoku, p, d, s) = Five
  THEN GameOver(g, s)
  ELSE g

=============================================================================
