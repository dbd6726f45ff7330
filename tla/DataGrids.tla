------------------------------- MODULE DataGrids -------------------------------
(***************************************************************************)
(* What becomes of the objects of one grid before they are written:        *)
(* FillDataGrid (processing/grid_forming.h) puts them into the squares,    *)
(* CalculateRadii (processing/radii_summation.h) collects for every square *)
(* and radius t the objects about t squares away.                          *)
(*                                                                         *)
(* An object is a member of a set, rows[i].at its coordinates in half      *)
(* steps.  A DataGrid is represented by the square that each object has    *)
(* been added to, and the grid of a radius by the set of objects added to  *)
(* each square; sums and averages are taken where the table is written.    *)
(* Points are farther apart than the tolerance or equal.                   *)
(***************************************************************************)
EXTENDS Squares, FiniteSets

CONSTANT max_R   \* --radii_count

ASSUME MaxRAssumption == max_R \in Nat

\* Where a point is in a grid, a record [id, lat, lng, side] whose lat and lng
\* are the south-west corner.
Within(g, p) == <<p[1] - g.lat, p[2] - g.lng>>
SquareOf(g, p) ==
  LET w == Within(g, p) IN <<RowOf(w[1], g.side) - g.side, RowOf(w[2], g.side) - g.side>>
SquaresOf(g) == ((-g.side)..(g.side - 1)) \X ((-g.side)..(g.side - 1))

-------------------------------------------------------------------------------
(* FillDataGrid.                                                           *)

\* The objects copied to coords, which may be on the border.
Coords(rows, g) == {i \in DOMAIN rows : Located(Within(g, rows[i].at), g.side)}

Before(p, q) == p[1] < q[1] \/ (p[1] = q[1] /\ p[2] < q[2])
Group(rows, S, i) == {k \in S : rows[k].at = rows[i].at}

\* The highest value of cur_cnt over the group of i in the sorted coords: it
\* starts at 1 for the first group, but each later one starts at 0.
Count(rows, S, i) ==
  IF \E k \in S : Before(rows[k].at, rows[i].at)
    THEN Cardinality(Group(rows, S, i)) - 1
    ELSE Cardinality(Group(rows, S, i))

\* max_it: the first of the groups whose count is highest, if that exceeds 1.
MaxGroup(rows, S) ==
  {i \in S : /\ Count(rows, S, i) > 1
             /\ \A k \in S : \/ Count(rows, S, k) < Count(rows, S, i)
                             \/ /\ Count(rows, S, k) = Count(rows, S, i)
                                /\ ~Before(rows[k].at, rows[i].at)}

LastGroup(rows, S) == {i \in S : \A k \in S : ~Before(rows[i].at, rows[k].at)}

\* The sets that coords.erase may remove.  Without a group that counts more than
\* 1, max_it is coords.end(): the loop compares the last object with whatever
\* lies behind the vector and erase(it, end + 1) removes one object too many.
Erased(rows, S) ==
  IF MaxGroup(rows, S) # {} THEN {MaxGroup(rows, S)}
  ELSE LET last == LastGroup(rows, S) IN
       {{i} : i \in last} \cup {last \cup {i} : i \in LastGroup(rows, S \ last)}

\* Without any object ++coords.begin() is behind the end and the loop reads
\* address 0; with one group only, the erasure may leave a negative size.
MayCrash(rows, S) ==
  MaxGroup(rows, S) = {} /\ LastGroup(rows, S) = S
MustCrash(S) == S = {}

\* The objects that are counted; the guard looks at all rows, not at coords.
Kept(rows, g, exclude_most_common) ==
  LET S == Coords(rows, g) IN
  IF exclude_most_common /\ DOMAIN rows # {}
    THEN {S \ removed : removed \in Erased(rows, S)}
    ELSE {S}

FillDataGrid(rows, g, kept) == [i \in kept |-> SquareOf(g, rows[i].at)]

-------------------------------------------------------------------------------
(* CalculateRadii, not cumulative: that is how the tables are made.        *)

\* Twice x_: half a square is added on the far side.
Doubled(x) == IF x = 0 THEN 0 ELSE IF x > 0 THEN 2 * x + 1 ELSE 2 * x - 1

\* std::max(0, int(std::round(std::hypot(x_, y_))) - 1).
RadiusAt(x, y) ==
  LET s == Doubled(x) * Doubled(x) + Doubled(y) * Doubled(y)
      m == Doubled(x) * Doubled(x) + 1 + Doubled(y) * Doubled(y)
      rounded == CHOOSE k \in 0..m : /\ k > 0 => (2 * k - 1) * (2 * k - 1) <= s
                                     /\ s < (2 * k + 1) * (2 * k + 1)
  IN IF rounded = 0 THEN 0 ELSE rounded - 1

Shifts == ((-max_R)..max_R) \X ((-max_R)..max_R)
\* The tuples of radii with one radius; greater ones are skipped.
\* Mutant: the box is half open.
RingsHalfOpen ==
  [t \in 0..max_R |-> {v \in Shifts : v[1] < max_R /\ RadiusAt(v[1], v[2]) = t}]
Rings == [t \in 0..max_R |-> {v \in Shifts : RadiusAt(v[1], v[2]) = t}]

\* What is added to a square: the objects of the squares, inside the grid, that
\* are one of the shifts away.
CalculateRadii(grid, squares) ==
  [t \in 0..max_R |-> [c \in squares |->
     {i \in DOMAIN grid : <<grid[i][1] - c[1], grid[i][2] - c[2]>> \in Rings[t]}]]
===============================================================================
