----------------------------- MODULE GomokuScan -----------------------------
(***************************************************************************)
(* Omok::CheckGomoku loop by loop: for each of the four directions, walk   *)
(* back from the stone just played to the start of its row, count forward, *)
(* compare with five.  The module relates these loops to Count, the        *)
(* definition by sets that the other modules use for them.                 *)
(*                                                                         *)
(* x and y move together along the direction, so the walk is kept as the   *)
(* offset from the stone; X and Y are the code's x and y.  The code has    *)
(* one copy of the loops per direction; the copies differ in the step and  *)
(* in the guards, which are translated one by one.                         *)
(***************************************************************************)
EXTENDS Omok, Sequences

VARIABLES
  board, at, stone,   \* the board, (row, col) and current: never changed
  dir,                \* which of the four copies of the loops is running
  loop,               \* and where in it
  off,                \* how far (x, y) is from (row, col)
  count,
  won                 \* whether GameOver was called

scanVars == <<board, at, stone, dir, loop, off, count, won>>

Order == <<<<1, 0>>, <<0, 1>>, <<1, 1>>, <<1, -1>>>>

ScanTypeOK ==
  /\ board \in Boards /\ at \in Cells /\ stone \in Players
  /\ board[at] = stone
  /\ dir \in 1..4
  /\ loop \in {"back", "forward", "test", "done"}
  /\ off \in Int /\ count \in Nat
  /\ won \in BOOLEAN

\* DropStone has just put the stone there.
ScanInit ==
  /\ board \in Boards /\ at \in Cells /\ stone \in Players
  /\ board[at] = stone
  /\ dir = 1 /\ loop = "back" /\ off = 0 /\ count = 0
  /\ won = FALSE

Position(k) == Along(at, Order[dir], k)

\* Faulty variant of MayStepBack: row 0 is never stepped on.
MayStepBackOne(p) ==
  CASE dir = 1 -> p[1] > 1
    [] dir = 2 -> p[2] > 0
    [] dir = 3 -> p[1] > 1 /\ p[2] > 0
    [] dir = 4 -> p[1] > 1 /\ p[2] < MaxY

\* The conditions beside `gomoku[..] == current` in the four walking loops,
\* on x and y as they are before the step back.
MayStepBack(p) ==
  CASE dir = 1 -> p[1] > 0
    [] dir = 2 -> p[2] > 0
    [] dir = 3 -> p[1] > 0 /\ p[2] > 0
    [] dir = 4 -> p[1] > 0 /\ p[2] < MaxY

\* Faulty variant of MayCount: the diagonals look at x only.
MayCountRowsOnly(p) == IF dir = 2 THEN p[2] <= MaxY ELSE p[1] <= MaxX

\* And in the four counting loops, on x and y as they are after the ++ (and
\* the -- of the anti-diagonal).
MayCount(p) ==
  CASE dir = 1 -> p[1] <= MaxX
    [] dir = 2 -> p[2] <= MaxY
    [] dir = 3 -> p[1] <= MaxX /\ p[2] <= MaxY
    [] dir = 4 -> p[1] <= MaxX /\ p[2] >= 0

\* gomoku[x][y]: outside the array, whatever the memory there holds.
Reads(p) == IF p \in Cells THEN {board[p]} ELSE Stones

\* Faulty variant of Back: x and y stay where they are.
BackInPlace ==
  /\ loop = "back"
  /\ \E v \in Reads(Position(off - 1)) :
       IF v = stone /\ MayStepBack(Position(off))
       THEN off' = off /\ loop' = loop
       ELSE off' = off /\ loop' = "forward"
  /\ UNCHANGED <<board, at, stone, dir, count, won>>

\* One test of the walking loop, which reads the cell before it looks at the
\* guard.
Back ==
  /\ loop = "back"
  /\ \E v \in Reads(Position(off - 1)) :
       IF v = stone /\ MayStepBack(Position(off))
       THEN off' = off - 1 /\ loop' = loop
       ELSE off' = off /\ loop' = "forward"
  /\ UNCHANGED <<board, at, stone, dir, count, won>>

\* One test of the counting loop: read, step, look at the guard.
Forward ==
  /\ loop = "forward"
  /\ \E v \in Reads(Position(off)) :
       IF v = stone /\ MayCount(Position(off + 1))
       THEN count' = count + 1 /\ loop' = loop
       ELSE count' = count /\ loop' = "test"
  /\ off' = off + 1
  /\ UNCHANGED <<board, at, stone, dir, won>>

\* Faulty variants of Test: the last direction is not the last; the count
\* goes on into the next direction.
TestNoLast ==
  /\ loop = "test"
  /\ IF count = Five
     THEN won' = TRUE /\ loop' = "done" /\ UNCHANGED <<dir, off, count>>
     ELSE won' = won /\ dir' = dir + 1 /\ loop' = "back" /\ off' = 0 /\ count' = 0
  /\ UNCHANGED <<board, at, stone>>

TestKeepsCount ==
  /\ loop = "test"
  /\ IF count = Five
     THEN won' = TRUE /\ loop' = "done" /\ UNCHANGED <<dir, off, count>>
     ELSE /\ won' = won
          /\ IF dir = 4
             THEN loop' = "done" /\ UNCHANGED <<dir, off, count>>
             ELSE dir' = dir + 1 /\ loop' = "back" /\ off' = 0 /\ count' = count
  /\ UNCHANGED <<board, at, stone>>

\* count == 5, and on to the next direction or out.
Test ==
  /\ loop = "test"
  /\ IF count = Five
     THEN won' = TRUE /\ loop' = "done" /\ UNCHANGED <<dir, off, count>>
     ELSE /\ won' = won
          /\ IF dir = 4
             THEN loop' = "done" /\ UNCHANGED <<dir, off, count>>
             ELSE dir' = dir + 1 /\ loop' = "back" /\ off' = 0 /\ count' = 0
  /\ UNCHANGED <<board, at, stone>>

ScanNext == Back \/ Forward \/ Test

ScanSpec == ScanInit /\ [][ScanNext]_scanVars

FairScanSpec == ScanSpec /\ WF_scanVars(ScanNext)

-----------------------------------------------------------------------------

\* When the loops of a direction end, count is the number of stones of the
\* row through the last stone that do not lie on the far edge, whatever the
\* reads outside the array returned.
CountsTheRow ==
  loop = "test" => count = Count(board, at, Order[dir], stone)

\* CheckGomoku calls GameOver exactly when one of the four counts is Five.
ScanDecides ==
  loop = "done" => (won <=> \E d \in Directions : Count(board, at, d, stone) = Five)

\* The counting loop never reads outside the array.
CountingStaysInside ==
  loop = "forward" => Position(off) \in Cells

\* The loops end.
ScanEnds == <>(loop = "done")

=============================================================================
