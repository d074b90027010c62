----------------------------- MODULE GomokuMatch -----------------------------
(***************************************************************************)
(* What the server promises its two players: matches of gomoku, one after  *)
(* the other, on an empty board, black first, colours alternating, a cell  *)
(* used once, nothing played after a match is decided.  No sockets, no     *)
(* packets, no threads.                                                    *)
(*                                                                         *)
(* A move may win only if it completes a row of Five or more, and it must  *)
(* win if it completes a row of exactly Five that has a free or foreign    *)
(* cell of the board behind its far end.  Rows that end at the far edge    *)
(* are left open here: see the README on what CheckGomoku does with them.  *)
(***************************************************************************)
EXTENDS Integers

CONSTANTS MaxX, MaxY, Five

VARIABLES board, turn, decided

matchVars == <<board, turn, decided>>

Empty == 0
Black == 1
White == 2
Grid == (0..MaxX) \X (0..MaxY)

MatchInit ==
  /\ board = [p \in Grid |-> Empty]
  /\ turn = Black
  /\ decided = Empty

Axes == {<<1, 0>>, <<0, 1>>, <<1, 1>>, <<1, -1>>}

Cell(p, d, k) == <<p[1] + k * d[1], p[2] + k * d[2]>>

Holds(b, s, p) == p \in Grid /\ b[p] = s

\* The cells of board b from p on along d are n stones of colour s.
Row(b, s, p, d, n) == \A k \in 0..(n - 1) : Holds(b, s, Cell(p, d, k))

\* One of its cells is q.
Through(q, p, d, n) == \E k \in 0..(n - 1) : Cell(p, d, k) = q

MayWin(b, s, q) ==
  \E p \in Grid, d \in Axes : Row(b, s, p, d, Five) /\ Through(q, p, d, Five)

MustWin(b, s, q) ==
  \E p \in Grid, d \in Axes :
    /\ Row(b, s, p, d, Five) /\ Through(q, p, d, Five)
    /\ ~Holds(b, s, Cell(p, d, -1))
    /\ Cell(p, d, Five) \in Grid /\ b[Cell(p, d, Five)] # s

Move ==
  /\ decided = Empty
  /\ \E p \in Grid :
       /\ board[p] = Empty
       /\ board' = [board EXCEPT ![p] = turn]
       /\ decided' \in {Empty, turn}
       /\ decided' = turn => MayWin(board', turn, p)
       /\ MustWin(board', turn, p) => decided' = turn
  /\ turn' = IF turn = Black THEN White ELSE Black

NextMatch ==
  /\ decided # Empty
  /\ board' = [p \in Grid |-> Empty]
  /\ turn' = Black
  /\ decided' = Empty

MatchNext == Move \/ NextMatch

\* Every change is a legal one; and the next match always comes.
MatchMoves == MatchInit /\ [][MatchNext]_matchVars

MatchSpec == MatchMoves /\ WF_matchVars(NextMatch)

=============================================================================
