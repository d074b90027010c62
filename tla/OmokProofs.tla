----------------------------- MODULE OmokProofs -----------------------------
(***************************************************************************)
(* The geometry of the board of module Omok, what Count counts, and when a *)
(* stone makes it Five, for every board size, winning length and board.    *)
(***************************************************************************)
EXTENDS Omok, FiniteSetTheorems, WellFoundedInduction, TLAPS

On(p, d, k) == Along(p, d, k) \in Cells

Same(b, p, d, s, k) == On(p, d, k) /\ b[Along(p, d, k)] = s

(***************************************************************************)
(* The geometry of a line through a cell of the board                      *)
(***************************************************************************)

LEMMA CellIsPair ==
  ASSUME NEW a \in Int, NEW b \in Int
  PROVE  <<a, b>> \in Cells <=> (0 <= a /\ a <= MaxX /\ 0 <= b /\ b <= MaxY)
<1>1. MaxX \in Nat /\ MaxY \in Nat
  BY BoardAssumption
<1> QED
  BY <1>1 DEF Cells

\* The cells of a line, by coordinates.
LEMMA LineByCoordinates ==
  ASSUME NEW x \in Int, NEW y \in Int, NEW k \in Int
  PROVE  /\ Along(<<x, y>>, <<1, 0>>, k) = <<x + k, y>>
         /\ Along(<<x, y>>, <<0, 1>>, k) = <<x, y + k>>
         /\ Along(<<x, y>>, <<1, 1>>, k) = <<x + k, y + k>>
         /\ Along(<<x, y>>, <<1, -1>>, k) = <<x + k, y - k>>
  BY DEF Along

\* Whether a line is on the board, by coordinates.
LEMMA OnByCoordinates ==
  ASSUME NEW x \in Int, NEW y \in Int, NEW k \in Int
  PROVE  /\ On(<<x, y>>, <<1, 0>>, k) <=>
              (0 <= x + k /\ x + k <= MaxX /\ 0 <= y /\ y <= MaxY)
         /\ On(<<x, y>>, <<0, 1>>, k) <=>
              (0 <= x /\ x <= MaxX /\ 0 <= y + k /\ y + k <= MaxY)
         /\ On(<<x, y>>, <<1, 1>>, k) <=>
              (0 <= x + k /\ x + k <= MaxX /\ 0 <= y + k /\ y + k <= MaxY)
         /\ On(<<x, y>>, <<1, -1>>, k) <=>
              (0 <= x + k /\ x + k <= MaxX /\ 0 <= y - k /\ y - k <= MaxY)
<1>1. x + k \in Int /\ y + k \in Int /\ y - k \in Int
  OBVIOUS
<1>2. On(<<x, y>>, <<1, 0>>, k) <=>
        (0 <= x + k /\ x + k <= MaxX /\ 0 <= y /\ y <= MaxY)
  <2>1. On(<<x, y>>, <<1, 0>>, k) <=> <<x + k, y>> \in Cells
    BY LineByCoordinates DEF On
  <2> QED
    BY <1>1, <2>1, CellIsPair
<1>3. On(<<x, y>>, <<0, 1>>, k) <=>
        (0 <= x /\ x <= MaxX /\ 0 <= y + k /\ y + k <= MaxY)
  <2>1. On(<<x, y>>, <<0, 1>>, k) <=> <<x, y + k>> \in Cells
    BY LineByCoordinates DEF On
  <2> QED
    BY <1>1, <2>1, CellIsPair
<1>4. On(<<x, y>>, <<1, 1>>, k) <=>
        (0 <= x + k /\ x + k <= MaxX /\ 0 <= y + k /\ y + k <= MaxY)
  <2>1. On(<<x, y>>, <<1, 1>>, k) <=> <<x + k, y + k>> \in Cells
    BY LineByCoordinates DEF On
  <2> QED
    BY <1>1, <2>1, CellIsPair
<1>5. On(<<x, y>>, <<1, -1>>, k) <=>
        (0 <= x + k /\ x + k <= MaxX /\ 0 <= y - k /\ y - k <= MaxY)
  <2>1. On(<<x, y>>, <<1, -1>>, k) <=> <<x + k, y - k>> \in Cells
    BY LineByCoordinates DEF On
  <2> QED
    BY <1>1, <2>1, CellIsPair
<1> QED
  BY <1>2, <1>3, <1>4, <1>5

LEMMA PairOfCell ==
  ASSUME NEW p \in Cells
  PROVE  \E x, y \in Int : p = <<x, y>> /\ 0 <= x /\ x <= MaxX /\ 0 <= y /\ y <= MaxY
<1>1. PICK x \in 0..MaxX, y \in 0..MaxY : p = <<x, y>>
  BY DEF Cells
<1> QED
  BY <1>1, BoardAssumption

\* A line leaves the board once and for all, and within Reach cells.
LEMMA LineOnBoard ==
  ASSUME NEW p \in Cells, NEW d \in Directions
  PROVE  /\ On(p, d, 0)
         /\ Along(p, d, 0) = p
         /\ \A i, j, k \in Int : (i <= j /\ j <= k /\ On(p, d, i) /\ On(p, d, k)) => On(p, d, j)
         /\ \A k \in Int : On(p, d, k) => k \in (-Reach)..Reach
         /\ Reach \in Nat
<1>1. MaxX \in Nat /\ MaxY \in Nat /\ Reach \in Nat /\ MaxX <= Reach /\ MaxY <= Reach
  BY BoardAssumption DEF Reach
<1>2. PICK x \in Int, y \in Int :
        p = <<x, y>> /\ 0 <= x /\ x <= MaxX /\ 0 <= y /\ y <= MaxY
  BY PairOfCell
<1>3. d = <<1, 0>> \/ d = <<0, 1>> \/ d = <<1, 1>> \/ d = <<1, -1>>
  BY DEF Directions
<1>4. Along(p, d, 0) = p
  <2>1. /\ Along(<<x, y>>, <<1, 0>>, 0) = <<x + 0, y>>
        /\ Along(<<x, y>>, <<0, 1>>, 0) = <<x, y + 0>>
        /\ Along(<<x, y>>, <<1, 1>>, 0) = <<x + 0, y + 0>>
        /\ Along(<<x, y>>, <<1, -1>>, 0) = <<x + 0, y - 0>>
    BY LineByCoordinates
  <2>2. x + 0 = x /\ y + 0 = y /\ y - 0 = y
    OBVIOUS
  <2> QED
    BY <1>2, <1>3, <2>1, <2>2
<1>5. On(p, d, 0)
  BY <1>4 DEF On
<1>6. ASSUME NEW k \in Int, On(p, d, k) PROVE k \in (-Reach)..Reach
  <2>1. CASE d = <<1, 0>>
    BY <1>1, <1>2, <1>6, <2>1, OnByCoordinates
  <2>2. CASE d = <<0, 1>>
    BY <1>1, <1>2, <1>6, <2>2, OnByCoordinates
  <2>3. CASE d = <<1, 1>>
    BY <1>1, <1>2, <1>6, <2>3, OnByCoordinates
  <2>4. CASE d = <<1, -1>>
    BY <1>1, <1>2, <1>6, <2>4, OnByCoordinates
  <2> QED
    BY <1>3, <2>1, <2>2, <2>3, <2>4
<1>7. ASSUME NEW i \in Int, NEW j \in Int, NEW k \in Int,
             i <= j, j <= k, On(p, d, i), On(p, d, k)
      PROVE  On(p, d, j)
  <2>1. CASE d = <<1, 0>>
    BY <1>1, <1>2, <1>7, <2>1, OnByCoordinates
  <2>2. CASE d = <<0, 1>>
    BY <1>1, <1>2, <1>7, <2>2, OnByCoordinates
  <2>3. CASE d = <<1, 1>>
    BY <1>1, <1>2, <1>7, <2>3, OnByCoordinates
  <2>4. CASE d = <<1, -1>>
    BY <1>1, <1>2, <1>7, <2>4, OnByCoordinates
  <2> QED
    BY <1>3, <2>1, <2>2, <2>3, <2>4
<1> QED
  BY <1>1, <1>4, <1>5, <1>6, <1>7

\* The row through a stone is an interval of offsets, and Count is the number
\* of those whose next cell is on the board.
LEMMA RowIsInterval ==
  ASSUME NEW b, NEW p \in Cells, NEW d \in Directions, NEW s,
         NEW lo \in Int, NEW hi \in Int, lo <= 0, 0 <= hi,
         \A k \in lo..hi : Same(b, p, d, s, k),
         ~Same(b, p, d, s, lo - 1), ~Same(b, p, d, s, hi + 1)
  PROVE  /\ On(p, d, hi + 1) => Count(b, p, d, s) = hi - lo + 1
         /\ ~On(p, d, hi + 1) => Count(b, p, d, s) = hi - lo
<1>1. /\ \A k \in Int : On(p, d, k) => k \in (-Reach)..Reach
      /\ Reach \in Nat
  BY LineOnBoard
<1>2. \A k \in (-Reach)..Reach :
        k \in Run(b, p, d, s) <=>
          \A j \in (-Reach)..Reach :
            ((k <= j /\ j <= 0) \/ (0 <= j /\ j <= k)) => Same(b, p, d, s, j)
  BY DEF Run, Same, On
<1>3. Run(b, p, d, s) = lo..hi
  <2>1. ASSUME NEW k \in lo..hi PROVE k \in Run(b, p, d, s)
    <3>1. k \in (-Reach)..Reach
      BY <1>1, <2>1 DEF Same
    <3> QED
      BY <1>2, <2>1, <3>1
  <2>2. ASSUME NEW k \in Run(b, p, d, s) PROVE k \in lo..hi
    <3>1. k \in (-Reach)..Reach
      BY DEF Run
    <3>2. CASE k < lo
      <4>1. lo - 1 \in (-Reach)..Reach
        BY <1>1, <3>1, <3>2
      <4> QED
        BY <1>1, <1>2, <3>1, <3>2, <4>1
    <3>3. CASE k > hi
      <4>1. hi + 1 \in (-Reach)..Reach
        BY <1>1, <3>1, <3>3
      <4> QED
        BY <1>1, <1>2, <3>1, <3>3, <4>1
    <3> QED
      BY <1>1, <3>1, <3>2, <3>3
  <2> QED
    BY <2>1, <2>2
<1>4. \A k \in Int : lo <= k /\ k < hi => On(p, d, k + 1)
  BY DEF Same
<1>5. CASE On(p, d, hi + 1)
  <2>1. {k \in Run(b, p, d, s) : Along(p, d, k + 1) \in Cells} = lo..hi
    BY <1>3, <1>4, <1>5 DEF On
  <2>2. Cardinality(lo..hi) = hi - lo + 1
    BY FS_Interval
  <2> QED
    BY <1>5, <2>1, <2>2 DEF Count
<1>6. CASE ~On(p, d, hi + 1)
  <2>1. {k \in Run(b, p, d, s) : Along(p, d, k + 1) \in Cells} = lo..(hi - 1)
    BY <1>3, <1>4, <1>6 DEF On
  <2>2. Cardinality(lo..(hi - 1)) = hi - lo
    <3>1. CASE lo <= hi - 1
      BY <3>1, FS_Interval
    <3>2. CASE ~(lo <= hi - 1)
      <4>1. lo..(hi - 1) = {} /\ hi - lo = 0
        BY <3>2
      <4> QED
        BY <4>1, FS_EmptySet
    <3> QED
      BY <3>1, <3>2
  <2> QED
    BY <1>6, <2>1, <2>2 DEF Count
<1> QED
  BY <1>5, <1>6

(***************************************************************************)
(* Rows                                                                    *)
(***************************************************************************)

\* A set of natural numbers that is not empty has a least element.
LEMMA LeastNumber ==
  ASSUME NEW T \in SUBSET Nat, T # {}
  PROVE  \E n \in T : \A m \in T : n <= m
<1>1. PICK n \in T : \A m \in T : ~(<<m, n>> \in OpToRel(<, Nat))
  BY NatLessThanWellFounded, WFMin
<1>2. \A m \in T : ~(m < n)
  BY <1>1 DEF OpToRel
<1> QED
  BY <1>2

\* Two steps along a direction are one.
LEMMA AlongAlong ==
  ASSUME NEW p \in Cells, NEW d \in Directions, NEW i \in Int, NEW k \in Int
  PROVE  Along(Along(p, d, i), d, k) = Along(p, d, i + k)
<1>1. PICK x \in Int, y \in Int : p = <<x, y>>
  BY PairOfCell
<1>2. d = <<1, 0>> \/ d = <<0, 1>> \/ d = <<1, 1>> \/ d = <<1, -1>>
  BY DEF Directions
<1>3. /\ x + i \in Int /\ y + i \in Int /\ y - i \in Int /\ i + k \in Int
      /\ (x + i) + k = x + (i + k) /\ (y + i) + k = y + (i + k)
      /\ (y - i) - k = y - (i + k)
  OBVIOUS
<1>4. CASE d = <<1, 0>>
  <2>1. Along(<<x, y>>, <<1, 0>>, i) = <<x + i, y>>
    BY LineByCoordinates
  <2>2. Along(<<x + i, y>>, <<1, 0>>, k) = <<(x + i) + k, y>>
    BY <1>3 DEF Along
  <2>3. Along(<<x, y>>, <<1, 0>>, i + k) = <<x + (i + k), y>>
    BY <1>3 DEF Along
  <2> QED
    BY <1>1, <1>3, <1>4, <2>1, <2>2, <2>3
<1>5. CASE d = <<0, 1>>
  <2>1. Along(<<x, y>>, <<0, 1>>, i) = <<x, y + i>>
    BY LineByCoordinates
  <2>2. Along(<<x, y + i>>, <<0, 1>>, k) = <<x, (y + i) + k>>
    BY <1>3 DEF Along
  <2>3. Along(<<x, y>>, <<0, 1>>, i + k) = <<x, y + (i + k)>>
    BY <1>3 DEF Along
  <2> QED
    BY <1>1, <1>3, <1>5, <2>1, <2>2, <2>3
<1>6. CASE d = <<1, 1>>
  <2>1. Along(<<x, y>>, <<1, 1>>, i) = <<x + i, y + i>>
    BY LineByCoordinates
  <2>2. Along(<<x + i, y + i>>, <<1, 1>>, k) = <<(x + i) + k, (y + i) + k>>
    BY <1>3 DEF Along
  <2>3. Along(<<x, y>>, <<1, 1>>, i + k) = <<x + (i + k), y + (i + k)>>
    BY <1>3 DEF Along
  <2> QED
    BY <1>1, <1>3, <1>6, <2>1, <2>2, <2>3
<1>7. CASE d = <<1, -1>>
  <2>1. Along(<<x, y>>, <<1, -1>>, i) = <<x + i, y - i>>
    BY LineByCoordinates
  <2>2. Along(<<x + i, y - i>>, <<1, -1>>, k) = <<(x + i) + k, (y - i) - k>>
    BY <1>3 DEF Along
  <2>3. Along(<<x, y>>, <<1, -1>>, i + k) = <<x + (i + k), y - (i + k)>>
    BY <1>3 DEF Along
  <2> QED
    BY <1>1, <1>3, <1>7, <2>1, <2>2, <2>3
<1> QED
  BY <1>2, <1>4, <1>5, <1>6, <1>7

\* [lo, hi] are the offsets of the whole row through the stone on p.
IsRow(b, p, d, s, lo, hi) ==
  /\ lo \in Int /\ hi \in Int /\ lo <= 0 /\ 0 <= hi
  /\ \A k \in lo..hi : Same(b, p, d, s, k)
  /\ ~Same(b, p, d, s, lo - 1) /\ ~Same(b, p, d, s, hi + 1)

\* Every stone has one: the row ends, at the latest, with the board.
LEMMA RowExists ==
  ASSUME NEW b, NEW p \in Cells, NEW d \in Directions
  PROVE  \E lo, hi \in Int : IsRow(b, p, d, b[p], lo, hi)
<1> DEFINE s == b[p]
           Before == {n \in Nat : ~Same(b, p, d, s, 0 - n)}
           After == {n \in Nat : ~Same(b, p, d, s, n)}
<1>1. /\ Same(b, p, d, s, 0) /\ Reach \in Nat
      /\ \A k \in Int : Same(b, p, d, s, k) => k \in (-Reach)..Reach
  BY LineOnBoard DEF Same
<1>2. Reach + 1 \in Before /\ Reach + 1 \in After
  BY <1>1
<1>3. PICK m \in Before : \A n \in Before : m <= n
  BY <1>2, LeastNumber
<1>4. PICK h \in After : \A n \in After : h <= n
  BY <1>2, LeastNumber
<1>5. m # 0 /\ h # 0
  <2>1. 0 \notin After
    BY <1>1
  <2>2. 0 \notin Before
    <3>1. 0 - 0 = 0
      OBVIOUS
    <3> QED
      BY <1>1, <3>1
  <2> QED
    BY <2>1, <2>2
<1>6. ASSUME NEW k \in (1 - m)..(h - 1) PROVE Same(b, p, d, s, k)
  <2>1. CASE k < 0
    <3>1. 0 - k \in Nat /\ 0 - k < m /\ 0 - (0 - k) = k
      BY <1>6, <2>1
    <3> QED
      BY <1>3, <3>1
  <2>2. CASE 0 <= k
    <3>1. k \in Nat /\ k < h
      BY <1>6, <2>2
    <3> QED
      BY <1>4, <3>1
  <2> QED
    BY <2>1, <2>2
<1>7. (1 - m) - 1 = 0 - m /\ (h - 1) + 1 = h
  OBVIOUS
<1>8. IsRow(b, p, d, s, 1 - m, h - 1)
  BY <1>3, <1>4, <1>5, <1>6, <1>7 DEF IsRow
<1> QED
  BY <1>8

\* Count is a function of the row alone: its length, less one at the far edge.
LEMMA CountOfRow ==
  ASSUME NEW b, NEW p \in Cells, NEW d \in Directions, NEW s, NEW lo, NEW hi,
         IsRow(b, p, d, s, lo, hi)
  PROVE  Count(b, p, d, s) = IF On(p, d, hi + 1) THEN hi - lo + 1 ELSE hi - lo
BY RowIsInterval DEF IsRow

\* n stones of colour s lie on the board from p on along d.
RowFrom(b, p, d, s, n) == \A k \in 0..(n - 1) : Same(b, p, d, s, k)

\* Where Count is Five, there are Five in a row.
LEMMA CountedRow ==
  ASSUME NEW b, NEW p \in Cells, NEW d \in Directions, Count(b, p, d, b[p]) = Five
  PROVE  \E q \in Cells : RowFrom(b, q, d, b[p], Five)
<1>1. PICK lo \in Int, hi \in Int : IsRow(b, p, d, b[p], lo, hi)
  BY RowExists
<1>2. Five <= hi - lo + 1 /\ Five \in Nat
  BY <1>1, CountOfRow, BoardAssumption
<1>3. Along(p, d, lo) \in Cells
  BY <1>1 DEF IsRow, Same, On
<1>4. ASSUME NEW k \in 0..(Five - 1) PROVE Same(b, Along(p, d, lo), d, b[p], k)
  <2>1. lo + k \in lo..hi
    BY <1>2
  <2>2. Along(Along(p, d, lo), d, k) = Along(p, d, lo + k)
    BY AlongAlong
  <2> QED
    BY <1>1, <2>1, <2>2 DEF IsRow, Same, On
<1> QED
  BY <1>3, <1>4 DEF RowFrom

(***************************************************************************)
(* A stone is laid on an empty cell                                        *)
(***************************************************************************)

\* Stones stay where they are.
LEMMA StonesStay ==
  ASSUME NEW b \in Boards, NEW q \in Cells, NEW s \in Players, b[q] = OMOK_EMPTY,
         NEW p, NEW d, NEW k, NEW t \in Players, Same(b, p, d, t, k)
  PROVE  Same([b EXCEPT ![q] = s], p, d, t, k)
BY DEF Same, On, Boards, Players, OMOK_EMPTY, OMOK_BLACK, OMOK_WHITE

\* And the only new stone is the one laid.
LEMMA OneNewStone ==
  ASSUME NEW b \in Boards, NEW q \in Cells, NEW s \in Players,
         NEW p, NEW d, NEW k, NEW t,
         Same([b EXCEPT ![q] = s], p, d, t, k), t # s \/ Along(p, d, k) # q
  PROVE  Same(b, p, d, t, k)
BY DEF Same, On, Boards

\* The row of a stone that the new one does not join is as it was.
LEMMA RowUntouched ==
  ASSUME NEW b \in Boards, NEW q \in Cells, NEW s \in Players, b[q] = OMOK_EMPTY,
         NEW p \in Cells, NEW d \in Directions, NEW t \in Players, NEW lo, NEW hi,
         IsRow([b EXCEPT ![q] = s], p, d, t, lo, hi),
         t # s \/ \A k \in lo..hi : Along(p, d, k) # q
  PROVE  IsRow(b, p, d, t, lo, hi)
<1> DEFINE c == [b EXCEPT ![q] = s]
<1>1. lo \in Int /\ hi \in Int /\ lo <= 0 /\ 0 <= hi /\ lo - 1 \in Int /\ hi + 1 \in Int
  BY DEF IsRow
<1>2. \A k \in lo..hi : Same(b, p, d, t, k)
  BY OneNewStone DEF IsRow
<1>3. \A k \in Int : Same(b, p, d, t, k) => Same(c, p, d, t, k)
  BY StonesStay
<1>4. ~Same(b, p, d, t, lo - 1) /\ ~Same(b, p, d, t, hi + 1)
  BY <1>1, <1>3 DEF IsRow
<1> QED
  BY <1>1, <1>2, <1>4 DEF IsRow

\* The row of a stone is that of every stone in it.
LEMMA RowShifts ==
  ASSUME NEW b, NEW p \in Cells, NEW d \in Directions, NEW s, NEW lo, NEW hi,
         IsRow(b, p, d, s, lo, hi), NEW m \in lo..hi, Along(p, d, m) \in Cells
  PROVE  /\ IsRow(b, Along(p, d, m), d, s, lo - m, hi - m)
         /\ Count(b, Along(p, d, m), d, s) = Count(b, p, d, s)
<1> DEFINE q == Along(p, d, m)
<1>1. lo \in Int /\ hi \in Int /\ m \in Int /\ lo <= m /\ m <= hi
  BY DEF IsRow
<1>2. \A k \in Int : Along(q, d, k) = Along(p, d, m + k)
  BY <1>1, AlongAlong
<1>3. \A k \in Int : /\ Same(b, q, d, s, k) <=> Same(b, p, d, s, m + k)
                     /\ On(q, d, k) <=> On(p, d, m + k)
  BY <1>2 DEF Same, On
<1>4. /\ lo - m \in Int /\ hi - m \in Int /\ lo - m <= 0 /\ 0 <= hi - m
      /\ \A k \in (lo - m)..(hi - m) : m + k \in lo..hi /\ k \in Int
      /\ m + ((lo - m) - 1) = lo - 1 /\ m + ((hi - m) + 1) = hi + 1
      /\ (lo - m) - 1 \in Int /\ (hi - m) + 1 \in Int
      /\ (hi - m) - (lo - m) = hi - lo
  BY <1>1
<1>5. IsRow(b, q, d, s, lo - m, hi - m)
  BY <1>3, <1>4 DEF IsRow
<1>6. Count(b, q, d, s) = IF On(q, d, (hi - m) + 1) THEN (hi - m) - (lo - m) + 1
                                                    ELSE (hi - m) - (lo - m)
  BY <1>5, CountOfRow
<1>7. Count(b, p, d, s) = IF On(p, d, hi + 1) THEN hi - lo + 1 ELSE hi - lo
  BY CountOfRow
<1> QED
  BY <1>3, <1>4, <1>5, <1>6, <1>7

\* If no stone on the board is in a row counted as Five, and the new one is
\* not, then none is: it is enough to look at the rows through the new one.
LEMMA OnlyNewRows ==
  ASSUME NEW b \in Boards, NEW q \in Cells, NEW s \in Players, b[q] = OMOK_EMPTY,
         NEW p \in Cells, NEW d \in Directions,
         b[p] # OMOK_EMPTY => Count(b, p, d, b[p]) # Five,
         Count([b EXCEPT ![q] = s], q, d, s) # Five,
         [b EXCEPT ![q] = s][p] # OMOK_EMPTY
  PROVE  Count([b EXCEPT ![q] = s], p, d, [b EXCEPT ![q] = s][p]) # Five
<1> DEFINE c == [b EXCEPT ![q] = s]
           t == c[p]
<1>1. t \in Players /\ (p # q => t = b[p]) /\ (p = q => t = s)
  BY DEF Boards, Stones, Players
<1>2. PICK lo \in Int, hi \in Int : IsRow(c, p, d, t, lo, hi)
  BY RowExists
<1>3. CASE t = s /\ \E m \in lo..hi : Along(p, d, m) = q
  BY <1>2, <1>3, RowShifts
<1>4. CASE t # s \/ \A m \in lo..hi : Along(p, d, m) # q
  <2>1. IsRow(b, p, d, t, lo, hi)
    BY <1>1, <1>2, <1>4, RowUntouched
  <2>2. Count(b, p, d, t) = Count(c, p, d, t)
    BY <1>2, <2>1, CountOfRow
  <2>3. p # q
    <3>1. Along(p, d, 0) = p /\ 0 \in lo..hi
      BY <1>2, LineOnBoard DEF IsRow
    <3> QED
      BY <1>1, <1>4, <3>1
  <2>4. b[p] = t /\ b[p] # OMOK_EMPTY
    BY <1>1, <2>3 DEF Players, OMOK_EMPTY, OMOK_BLACK, OMOK_WHITE
  <2> QED
    BY <2>2, <2>4
<1> QED
  BY <1>3, <1>4

=============================================================================
