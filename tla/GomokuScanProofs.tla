-------------------------- MODULE GomokuScanProofs --------------------------
(***************************************************************************)
(* For every board size, every winning length, every board and every stone *)
(* just played, the loops of Omok::CheckGomoku decide what CheckGomoku of  *)
(* module Omok says, whatever the reads outside the array return.          *)
(***************************************************************************)
EXTENDS GomokuScan, OmokProofs

(***************************************************************************)
(* The guards of the loops                                                 *)
(***************************************************************************)

\* On a cell of the board, the guard of each loop says whether the next cell
\* is on the board: the guards of the code, one copy at a time.
LEMMA GuardsAreBoard ==
  ASSUME at \in Cells, dir \in 1..4, NEW k \in Int, On(at, Order[dir], k)
  PROVE  /\ MayStepBack(Position(k)) <=> On(at, Order[dir], k - 1)
         /\ MayCount(Position(k + 1)) <=> On(at, Order[dir], k + 1)
<1>1. MaxX \in Nat /\ MaxY \in Nat /\ k - 1 \in Int /\ k + 1 \in Int
  BY BoardAssumption
<1>2. PICK x \in Int, y \in Int :
        at = <<x, y>> /\ 0 <= x /\ x <= MaxX /\ 0 <= y /\ y <= MaxY
  BY PairOfCell
<1>3. CASE dir = 1
  <2>1. Order[dir] = <<1, 0>>
    BY <1>3 DEF Order
  <2>2. Position(k) = <<x + k, y>> /\ Position(k + 1) = <<x + (k + 1), y>>
    <3>1. /\ Position(k) = Along(<<x, y>>, <<1, 0>>, k)
          /\ Position(k + 1) = Along(<<x, y>>, <<1, 0>>, k + 1)
      BY <1>2, <2>1 DEF Position
    <3> QED
      BY <1>1, <3>1, LineByCoordinates
  <2>3. MayStepBack(Position(k)) <=> x + k > 0
    BY <1>3, <2>2 DEF MayStepBack
  <2>4. MayCount(Position(k + 1)) <=> x + (k + 1) <= MaxX
    BY <1>3, <2>2 DEF MayCount
  <2>5. \A j \in Int : On(at, Order[dir], j) <=>
          (0 <= x + j /\ x + j <= MaxX /\ 0 <= y /\ y <= MaxY)
    BY <1>2, <2>1, OnByCoordinates
  <2>6. 0 <= x + k /\ x + k <= MaxX /\ 0 <= y /\ y <= MaxY
    BY <2>5
  <2>7. On(at, Order[dir], k - 1) <=>
          (0 <= x + (k - 1) /\ x + (k - 1) <= MaxX /\ 0 <= y /\ y <= MaxY)
    BY <1>1, <2>5
  <2>8. On(at, Order[dir], k + 1) <=>
          (0 <= x + (k + 1) /\ x + (k + 1) <= MaxX /\ 0 <= y /\ y <= MaxY)
    BY <1>1, <2>5
  <2> QED
    BY <1>1, <1>2, <2>3, <2>4, <2>6, <2>7, <2>8
<1>4. CASE dir = 2
  <2>1. Order[dir] = <<0, 1>>
    BY <1>4 DEF Order
  <2>2. Position(k) = <<x, y + k>> /\ Position(k + 1) = <<x, y + (k + 1)>>
    <3>1. /\ Position(k) = Along(<<x, y>>, <<0, 1>>, k)
          /\ Position(k + 1) = Along(<<x, y>>, <<0, 1>>, k + 1)
      BY <1>2, <2>1 DEF Position
    <3> QED
      BY <1>1, <3>1, LineByCoordinates
  <2>3. MayStepBack(Position(k)) <=> y + k > 0
    BY <1>4, <2>2 DEF MayStepBack
  <2>4. MayCount(Position(k + 1)) <=> y + (k + 1) <= MaxY
    BY <1>4, <2>2 DEF MayCount
  <2>5. \A j \in Int : On(at, Order[dir], j) <=>
          (0 <= x /\ x <= MaxX /\ 0 <= y + j /\ y + j <= MaxY)
    BY <1>2, <2>1, OnByCoordinates
  <2>6. 0 <= x /\ x <= MaxX /\ 0 <= y + k /\ y + k <= MaxY
    BY <2>5
  <2>7. On(at, Order[dir], k - 1) <=>
          (0 <= x /\ x <= MaxX /\ 0 <= y + (k - 1) /\ y + (k - 1) <= MaxY)
    BY <1>1, <2>5
  <2>8. On(at, Order[dir], k + 1) <=>
          (0 <= x /\ x <= MaxX /\ 0 <= y + (k + 1) /\ y + (k + 1) <= MaxY)
    BY <1>1, <2>5
  <2> QED
    BY <1>1, <1>2, <2>3, <2>4, <2>6, <2>7, <2>8
<1>5. CASE dir = 3
  <2>1. Order[dir] = <<1, 1>>
    BY <1>5 DEF Order
  <2>2. Position(k) = <<x + k, y + k>> /\ Position(k + 1) = <<x + (k + 1), y + (k + 1)>>
    <3>1. /\ Position(k) = Along(<<x, y>>, <<1, 1>>, k)
          /\ Position(k + 1) = Along(<<x, y>>, <<1, 1>>, k + 1)
      BY <1>2, <2>1 DEF Position
    <3> QED
      BY <1>1, <3>1, LineByCoordinates
  <2>3. MayStepBack(Position(k)) <=> x + k > 0 /\ y + k > 0
    BY <1>5, <2>2 DEF MayStepBack
  <2>4. MayCount(Position(k + 1)) <=> x + (k + 1) <= MaxX /\ y + (k + 1) <= MaxY
    BY <1>5, <2>2 DEF MayCount
  <2>5. \A j \in Int : On(at, Order[dir], j) <=>
          (0 <= x + j /\ x + j <= MaxX /\ 0 <= y + j /\ y + j <= MaxY)
    BY <1>2, <2>1, OnByCoordinates
  <2>6. 0 <= x + k /\ x + k <= MaxX /\ 0 <= y + k /\ y + k <= MaxY
    BY <2>5
  <2>7. On(at, Order[dir], k - 1) <=>
          (0 <= x + (k - 1) /\ x + (k - 1) <= MaxX /\ 0 <= y + (k - 1) /\ y + (k - 1) <= MaxY)
    BY <1>1, <2>5
  <2>8. On(at, Order[dir], k + 1) <=>
          (0 <= x + (k + 1) /\ x + (k + 1) <= MaxX /\ 0 <= y + (k + 1) /\ y + (k + 1) <= MaxY)
    BY <1>1, <2>5
  <2> QED
    BY <1>1, <1>2, <2>3, <2>4, <2>6, <2>7, <2>8
<1>6. CASE dir = 4
  <2>1. Order[dir] = <<1, -1>>
    BY <1>6 DEF Order
  <2>2. Position(k) = <<x + k, y - k>> /\ Position(k + 1) = <<x + (k + 1), y - (k + 1)>>
    <3>1. /\ Position(k) = Along(<<x, y>>, <<1, -1>>, k)
          /\ Position(k + 1) = Along(<<x, y>>, <<1, -1>>, k + 1)
      BY <1>2, <2>1 DEF Position
    <3> QED
      BY <1>1, <3>1, LineByCoordinates
  <2>3. MayStepBack(Position(k)) <=> x + k > 0 /\ y - k < MaxY
    BY <1>6, <2>2 DEF MayStepBack
  <2>4. MayCount(Position(k + 1)) <=> x + (k + 1) <= MaxX /\ y - (k + 1) >= 0
    BY <1>6, <2>2 DEF MayCount
  <2>5. \A j \in Int : On(at, Order[dir], j) <=>
          (0 <= x + j /\ x + j <= MaxX /\ 0 <= y - j /\ y - j <= MaxY)
    BY <1>2, <2>1, OnByCoordinates
  <2>6. 0 <= x + k /\ x + k <= MaxX /\ 0 <= y - k /\ y - k <= MaxY
    BY <2>5
  <2>7. On(at, Order[dir], k - 1) <=>
          (0 <= x + (k - 1) /\ x + (k - 1) <= MaxX /\ 0 <= y - (k - 1) /\ y - (k - 1) <= MaxY)
    BY <1>1, <2>5
  <2>8. On(at, Order[dir], k + 1) <=>
          (0 <= x + (k + 1) /\ x + (k + 1) <= MaxX /\ 0 <= y - (k + 1) /\ y - (k + 1) <= MaxY)
    BY <1>1, <2>5
  <2> QED
    BY <1>1, <1>2, <2>3, <2>4, <2>6, <2>7, <2>8
<1> QED
  BY <1>3, <1>4, <1>5, <1>6

LEMMA OrderIsDirections ==
  ASSUME NEW i \in 1..4
  PROVE  Order[i] \in Directions
  BY DEF Order, Directions

LEMMA DirectionsAreOrder ==
  ASSUME NEW d \in Directions
  PROVE  \E i \in 1..4 : d = Order[i]
<1>1. d = Order[1] \/ d = Order[2] \/ d = Order[3] \/ d = Order[4]
  BY DEF Order, Directions
<1> QED
  BY <1>1

(***************************************************************************)
(* The inductive invariant                                                 *)
(***************************************************************************)

\* Walking back, all cells from the walker to the stone hold its colour.
WalkingBack(b, p, d, s, o, c) ==
  /\ o <= 0 /\ c = 0
  /\ \A k \in o..0 : Same(b, p, d, s, k)

\* Counting, count cells behind the walker is the start of the row; the cells
\* from there to the stone, and those before the walker, hold its colour; and
\* the walker is on the board.
Counting(b, p, d, s, o, c) ==
  /\ o - c <= 0
  /\ ~Same(b, p, d, s, o - c - 1)
  /\ \A k \in (o - c)..0 : Same(b, p, d, s, k)
  /\ \A k \in (o - c)..(o - 1) : Same(b, p, d, s, k)
  /\ On(p, d, o)

Walk ==
  /\ loop = "back" => WalkingBack(board, at, Order[dir], stone, off, count)
  /\ loop = "forward" => Counting(board, at, Order[dir], stone, off, count)
  /\ CountsTheRow

\* No direction already left behind had a row of Five.
LeftBehind ==
  loop # "done" =>
    ~won /\ \A i \in 1..(dir - 1) : Count(board, at, Order[i], stone) # Five

ScanInv == ScanTypeOK /\ Walk /\ LeftBehind /\ ScanDecides

LEMMA InitScan == ScanInit => ScanInv
<1> SUFFICES ASSUME ScanInit PROVE ScanInv
  OBVIOUS
<1>1. ScanTypeOK
  <2>1. won \in BOOLEAN
    BY DEF ScanInit
  <2>2. off \in Int /\ count \in Nat /\ dir \in 1..4
    BY DEF ScanInit
  <2> QED
    BY <2>1, <2>2 DEF ScanInit, ScanTypeOK
<1>2. Order[1] \in Directions /\ dir = 1
  BY OrderIsDirections DEF ScanInit
<1>3. Same(board, at, Order[dir], stone, 0)
  <2>1. On(at, Order[dir], 0) /\ Along(at, Order[dir], 0) = at
    BY <1>1, <1>2, LineOnBoard DEF ScanTypeOK
  <2> QED
    BY <1>1, <2>1 DEF Same, ScanTypeOK
<1>4. \A k \in 0..0 : Same(board, at, Order[dir], stone, k)
  BY <1>3
<1>5. Walk
  BY <1>4 DEF ScanInit, Walk, WalkingBack, CountsTheRow
<1>6. LeftBehind /\ ScanDecides
  BY DEF ScanInit, LeftBehind, ScanDecides
<1> QED
  BY <1>1, <1>5, <1>6 DEF ScanInv

LEMMA BackKeeps ==
  ASSUME ScanInv, Back
  PROVE  ScanInv'
<1> DEFINE d == Order[dir]
           S(k) == Same(board, at, d, stone, k)
<1>1. /\ ScanTypeOK /\ WalkingBack(board, at, d, stone, off, count)
      /\ LeftBehind /\ loop = "back"
  BY DEF ScanInv, Walk, Back
<1>2. /\ off \in Int /\ off <= 0 /\ count = 0 /\ S(0) /\ S(off)
      /\ at \in Cells /\ dir \in 1..4
  BY <1>1 DEF WalkingBack, ScanTypeOK
<1>3. UNCHANGED <<board, at, stone, dir, count, won>>
  BY DEF Back
<1>4. MayStepBack(Position(off)) <=> On(at, d, off - 1)
  BY <1>2, GuardsAreBoard DEF Same
<1>5. On(at, d, off - 1) =>
        Reads(Position(off - 1)) = {board[Along(at, d, off - 1)]}
  BY DEF On, Reads, Position
<1>6. \/ S(off - 1) /\ off' = off - 1 /\ loop' = "back"
      \/ ~S(off - 1) /\ off' = off /\ loop' = "forward"
  <2>1. PICK v \in Reads(Position(off - 1)) :
          IF v = stone /\ MayStepBack(Position(off))
          THEN off' = off - 1 /\ loop' = loop
          ELSE off' = off /\ loop' = "forward"
    BY DEF Back
  <2>2. CASE On(at, d, off - 1)
    BY <1>1, <1>4, <1>5, <2>1, <2>2 DEF Same
  <2>3. CASE ~On(at, d, off - 1)
    BY <1>4, <2>1, <2>3 DEF Same
  <2> QED
    BY <2>2, <2>3
<1>7. CASE S(off - 1) /\ off' = off - 1 /\ loop' = "back"
  <2>1. \A k \in (off - 1)..0 : S(k)
    <3> TAKE k \in (off - 1)..0
    <3>1. k = off - 1 \/ k \in off..0
      BY <1>2
    <3> QED
      BY <1>1, <1>7, <3>1 DEF WalkingBack
  <2>2. WalkingBack(board, at, d, stone, off - 1, count)
    BY <1>2, <2>1 DEF WalkingBack
  <2>3. Walk'
    BY <1>3, <1>7, <2>2 DEF Walk, CountsTheRow
  <2>4. ScanTypeOK' /\ LeftBehind' /\ ScanDecides'
    BY <1>1, <1>2, <1>3, <1>7 DEF ScanTypeOK, LeftBehind, ScanDecides
  <2> QED
    BY <2>3, <2>4 DEF ScanInv
<1>8. CASE ~S(off - 1) /\ off' = off /\ loop' = "forward"
  <2>1. off - count = off /\ (off - count)..(off - 1) = {}
    BY <1>2
  <2>2. Counting(board, at, d, stone, off, count)
    BY <1>1, <1>2, <1>8, <2>1 DEF Counting, WalkingBack, Same
  <2>3. Walk'
    BY <1>3, <1>8, <2>2 DEF Walk, CountsTheRow
  <2>4. ScanTypeOK' /\ LeftBehind' /\ ScanDecides'
    BY <1>1, <1>2, <1>3, <1>8 DEF ScanTypeOK, LeftBehind, ScanDecides
  <2> QED
    BY <2>3, <2>4 DEF ScanInv
<1> QED
  BY <1>6, <1>7, <1>8

LEMMA ForwardKeeps ==
  ASSUME ScanInv, Forward
  PROVE  ScanInv'
<1> DEFINE d == Order[dir]
           S(k) == Same(board, at, d, stone, k)
           lo == off - count
<1>1. /\ ScanTypeOK /\ Counting(board, at, d, stone, off, count)
      /\ LeftBehind /\ loop = "forward"
  BY DEF ScanInv, Walk, Forward
<1>2. /\ off \in Int /\ count \in Nat /\ lo \in Int /\ lo <= 0 /\ lo <= off
      /\ at \in Cells /\ dir \in 1..4 /\ d \in Directions
  BY <1>1, OrderIsDirections DEF Counting, ScanTypeOK
<1>3. UNCHANGED <<board, at, stone, dir, won>> /\ off' = off + 1
  BY DEF Forward
<1>4. On(at, d, off) /\ ~S(lo - 1) /\ (\A k \in lo..0 : S(k)) /\ (\A k \in lo..(off - 1) : S(k))
  BY <1>1 DEF Counting
<1>5. MayCount(Position(off + 1)) <=> On(at, d, off + 1)
  BY <1>2, <1>4, GuardsAreBoard
<1>6. \/ S(off) /\ On(at, d, off + 1) /\ count' = count + 1 /\ loop' = "forward"
      \/ ~S(off) /\ count' = count /\ loop' = "test"
      \/ S(off) /\ ~On(at, d, off + 1) /\ count' = count /\ loop' = "test"
  <2>1. Reads(Position(off)) = {board[Along(at, d, off)]}
    BY <1>4 DEF On, Reads, Position
  <2>2. S(off) <=> board[Along(at, d, off)] = stone
    BY <1>4 DEF Same
  <2> QED
    BY <1>1, <1>5, <2>1, <2>2 DEF Forward
<1>7. CASE S(off) /\ On(at, d, off + 1) /\ count' = count + 1 /\ loop' = "forward"
  <2>1. (off + 1) - (count + 1) = lo
    BY <1>2
  <2>2. \A k \in lo..((off + 1) - 1) : S(k)
    <3> TAKE k \in lo..((off + 1) - 1)
    <3>1. k = off \/ k \in lo..(off - 1)
      BY <1>2
    <3> QED
      BY <1>4, <1>7, <3>1
  <2>3. Counting(board, at, d, stone, off + 1, count + 1)
    BY <1>2, <1>4, <1>7, <2>1, <2>2 DEF Counting
  <2>4. Walk'
    BY <1>3, <1>7, <2>3 DEF Walk, CountsTheRow
  <2>5. ScanTypeOK' /\ LeftBehind' /\ ScanDecides'
    BY <1>1, <1>2, <1>3, <1>7 DEF ScanTypeOK, LeftBehind, ScanDecides
  <2> QED
    BY <2>4, <2>5 DEF ScanInv
<1>8. ASSUME loop' = "test", count' = count, count = Count(board, at, d, stone)
      PROVE  ScanInv'
  <2>1. Walk'
    BY <1>3, <1>8 DEF Walk, CountsTheRow
  <2>2. ScanTypeOK' /\ LeftBehind' /\ ScanDecides'
    BY <1>1, <1>2, <1>3, <1>8 DEF ScanTypeOK, LeftBehind, ScanDecides
  <2> QED
    BY <2>1, <2>2 DEF ScanInv
<1>9. CASE ~S(off) /\ count' = count /\ loop' = "test"
  <2> DEFINE hi == off - 1
  <2>1. hi \in Int /\ 0 <= hi /\ hi + 1 = off /\ hi - lo + 1 = count
    <3>1. off \notin lo..0
      BY <1>4, <1>9
    <3> QED
      BY <1>2, <3>1
  <2>2. ~S(hi + 1) /\ On(at, d, hi + 1) /\ \A k \in lo..hi : S(k)
    BY <1>4, <1>9, <2>1
  <2>3. Count(board, at, d, stone) = hi - lo + 1
    <3> HIDE DEF d, lo, hi
    <3> QED
      BY <1>2, <1>4, <2>1, <2>2, RowIsInterval
  <2> QED
    BY <1>8, <1>9, <2>1, <2>3
<1>10. CASE S(off) /\ ~On(at, d, off + 1) /\ count' = count /\ loop' = "test"
  <2>1. 0 <= off
    <3>1. off + 1 \notin lo..0
      BY <1>4, <1>10 DEF Same
    <3> QED
      BY <1>2, <3>1
  <2>2. ~S(off + 1) /\ \A k \in lo..off : S(k)
    <3>1. ASSUME NEW k \in lo..off PROVE S(k)
      <4>1. k = off \/ k \in lo..(off - 1)
        BY <1>2
      <4> QED
        BY <1>4, <1>10, <4>1
    <3> QED
      BY <1>10, <3>1 DEF Same
  <2>3. Count(board, at, d, stone) = off - lo
    <3> HIDE DEF d, lo
    <3> QED
      BY <1>2, <1>4, <1>10, <2>1, <2>2, RowIsInterval
  <2>4. off - lo = count
    BY <1>2
  <2> QED
    BY <1>8, <1>10, <2>3, <2>4
<1> QED
  BY <1>6, <1>7, <1>9, <1>10

LEMMA TestKeeps ==
  ASSUME ScanInv, Test
  PROVE  ScanInv'
<1>1. /\ ScanTypeOK /\ LeftBehind /\ loop = "test"
      /\ count = Count(board, at, Order[dir], stone)
  BY DEF ScanInv, Walk, CountsTheRow, Test
<1>2. UNCHANGED <<board, at, stone>> /\ dir \in 1..4 /\ at \in Cells
  BY <1>1 DEF Test, ScanTypeOK
<1>3. CASE count = Five
  <2>1. won' = TRUE /\ loop' = "done" /\ UNCHANGED <<dir, off, count>>
    BY <1>3 DEF Test
  <2>2. ScanDecides'
    BY <1>1, <1>2, <1>3, <2>1, OrderIsDirections DEF ScanDecides
  <2>3. ScanTypeOK' /\ LeftBehind' /\ Walk'
    BY <1>1, <1>2, <2>1 DEF ScanTypeOK, LeftBehind, Walk, CountsTheRow
  <2> QED
    BY <2>2, <2>3 DEF ScanInv
<1>4. CASE count # Five /\ dir = 4
  <2>1. won' = won /\ loop' = "done" /\ UNCHANGED <<dir, off, count>>
    BY <1>4 DEF Test
  <2>2. \A i \in 1..4 : Count(board, at, Order[i], stone) # Five
    <3> TAKE i \in 1..4
    <3>1. i = 4 \/ i \in 1..(4 - 1)
      OBVIOUS
    <3> QED
      BY <1>1, <1>4, <3>1 DEF LeftBehind
  <2>3. ScanDecides'
    <3>1. \A e \in Directions : Count(board, at, e, stone) # Five
      BY <2>2, DirectionsAreOrder
    <3> QED
      BY <1>1, <1>2, <2>1, <3>1 DEF ScanDecides, LeftBehind
  <2>4. ScanTypeOK' /\ LeftBehind' /\ Walk'
    BY <1>1, <1>2, <2>1 DEF ScanTypeOK, LeftBehind, Walk, CountsTheRow
  <2> QED
    BY <2>3, <2>4 DEF ScanInv
<1>5. CASE count # Five /\ dir # 4
  <2>1. won' = won /\ loop' = "back" /\ dir' = dir + 1 /\ off' = 0 /\ count' = 0
    BY <1>5 DEF Test
  <2>2. dir + 1 \in 1..4
    BY <1>2, <1>5
  <2>3. Same(board, at, Order[dir + 1], stone, 0)
    <3>1. On(at, Order[dir + 1], 0) /\ Along(at, Order[dir + 1], 0) = at
      BY <1>2, <2>2, OrderIsDirections, LineOnBoard
    <3> QED
      BY <1>1, <3>1 DEF Same, ScanTypeOK
  <2>4. WalkingBack(board, at, Order[dir + 1], stone, 0, 0)
    <3>1. \A k \in 0..0 : k = 0
      OBVIOUS
    <3> QED
      BY <2>3, <3>1 DEF WalkingBack
  <2>5. Walk'
    BY <1>2, <2>1, <2>4 DEF Walk, CountsTheRow
  <2>6. LeftBehind'
    <3>1. \A i \in 1..(dir + 1 - 1) : i = dir \/ i \in 1..(dir - 1)
      BY <1>2
    <3>2. \A i \in 1..(dir + 1 - 1) : Count(board, at, Order[i], stone) # Five
      BY <1>1, <1>5, <3>1 DEF LeftBehind
    <3> QED
      BY <1>1, <1>2, <2>1, <3>2 DEF LeftBehind
  <2>7. ScanTypeOK' /\ ScanDecides'
    BY <1>1, <1>2, <2>1, <2>2 DEF ScanTypeOK, ScanDecides
  <2> QED
    BY <2>5, <2>6, <2>7 DEF ScanInv
<1> QED
  BY <1>3, <1>4, <1>5

LEMMA StepScan == ScanInv /\ [ScanNext]_scanVars => ScanInv'
<1> SUFFICES ASSUME ScanInv, [ScanNext]_scanVars PROVE ScanInv'
  OBVIOUS
<1>1. CASE Back
  BY <1>1, BackKeeps
<1>2. CASE Forward
  BY <1>2, ForwardKeeps
<1>3. CASE Test
  BY <1>3, TestKeeps
<1>4. CASE UNCHANGED scanVars
  BY <1>4 DEF scanVars, ScanInv, ScanTypeOK, Walk, CountsTheRow, LeftBehind, ScanDecides
<1> QED
  BY <1>1, <1>2, <1>3, <1>4 DEF ScanNext

LEMMA ScanAlways == ScanSpec => []ScanInv
  BY InitScan, StepScan, PTL DEF ScanSpec

\* Every variable of the scan keeps its type: off stays an integer while the
\* loops step out of the board, and count never becomes negative.
THEOREM ScanTypes == ScanSpec => []ScanTypeOK
<1>1. ScanInv => ScanTypeOK
  BY DEF ScanInv
<1> QED
  BY <1>1, ScanAlways, PTL

\* On every board, whatever lies in memory around it, CheckGomoku calls
\* GameOver exactly when a row through the last stone, less its stone on the
\* far edge, has Five stones.
THEOREM ScanIsRight == ScanSpec => []ScanDecides
<1>1. ScanInv => ScanDecides
  BY DEF ScanInv
<1> QED
  BY <1>1, ScanAlways, PTL

\* In every direction the loops count the row Count speaks of.
THEOREM RowsAreCounted == ScanSpec => []CountsTheRow
<1>1. ScanInv => CountsTheRow
  BY DEF ScanInv, Walk
<1> QED
  BY <1>1, ScanAlways, PTL

\* The counting loops of CheckGomoku read no cell outside the board.
THEOREM CountingReadsTheBoard == ScanSpec => []CountingStaysInside
<1>1. ScanInv => CountingStaysInside
  BY DEF ScanInv, Walk, Counting, CountingStaysInside, On, Position
<1> QED
  BY <1>1, ScanAlways, PTL

=============================================================================
