----------------------------- MODULE GridNumbering -----------------------------
(***************************************************************************)
(* The walk that numbers the squares of a grid (EnumerateGridCells in      *)
(* grids/grid_metadata.cc).                                                *)
(*                                                                         *)
(* It goes round the rings from the centre and numbers the squares in the  *)
(* order it meets them; GetSquareId computes the number of a square in     *)
(* closed form.  Writers number by the walk, readers by the formula: the   *)
(* tables mean something only if the two agree.                            *)
(***************************************************************************)
EXTENDS Squares, Sequences

CONSTANT Sides    \* the sides of the grids that are numbered

ASSUME SidesAssumption == Sides \subseteq Nat \ {0}

VARIABLES
  side,    \* the argument of EnumerateGridCells
  r, j,    \* the ring and the direction of the two for-loops
  at,      \* <<dx, dy>>, the square relative to the centre
  res,     \* the squares met so far, relative to the centre
  ended    \* whether the walk has returned
vars == <<side, r, j, at, res, ended>>

-------------------------------------------------------------------------------
(* EnumerateGridCells: one step is one turn of a loop.                     *)

Corner(q) == <<-q, -q>>
Ahead(c, d) == CASE d = 0 -> <<c[1] + 1, c[2]>>
                 [] d = 1 -> <<c[1], c[2] + 1>>
                 [] d = 2 -> <<c[1] - 1, c[2]>>
                 [] d = 3 -> <<c[1], c[2] - 1>>

Init ==
  /\ side \in Sides
  /\ r = 1 /\ j = 0 /\ at = Corner(1)
  /\ res = <<>>
  /\ ended = FALSE

Closed == j = 3 /\ at = Corner(r)

\* Mutant: the square before is not looked at, and corners are met twice.
MeetAlways == res' = Append(res, at)

\* A corner is met twice, at the end of one direction and the start of the next.
Meet == res' = IF res = <<>> \/ res[Len(res)] # at THEN Append(res, at) ELSE res

\* Mutant: the direction stays the same at a corner.
TurnForgotten ==
  /\ Ring(Ahead(at, j)) # r
  /\ UNCHANGED <<j, at>>

\* Where going on would leave the ring, the next direction is taken.
Turn ==
  /\ Ring(Ahead(at, j)) # r
  /\ j' = j + 1
  /\ UNCHANGED at

\* One turn of the while-loop.
Walk ==
  /\ ~ended /\ ~Closed
  /\ Meet
  /\ \/ /\ Ring(Ahead(at, j)) = r
        /\ at' = Ahead(at, j)
        /\ UNCHANGED j
     \/ Turn
  /\ UNCHANGED <<side, r, ended>>

\* Mutant: the corner is computed from the ring that is left.
NextRingSameCorner ==
  /\ ~ended /\ Closed /\ r < side
  /\ r' = r + 1 /\ j' = 0 /\ at' = Corner(r)
  /\ UNCHANGED <<side, res, ended>>

\* The ring is closed; the next one starts at its corner.
NextRing ==
  /\ ~ended /\ Closed /\ r < side
  /\ r' = r + 1 /\ j' = 0 /\ at' = Corner(r + 1)
  /\ UNCHANGED <<side, res, ended>>

Return ==
  /\ ~ended /\ Closed /\ r = side
  /\ ended' = TRUE
  /\ UNCHANGED <<side, r, j, at, res>>

Next == Walk \/ NextRing \/ Return
Spec == Init /\ [][Next]_vars /\ WF_vars(Next)

-------------------------------------------------------------------------------
(* Properties.                                                             *)

\* The walk stays on the rings of the grid.
TypeOK ==
  /\ side \in Sides /\ r \in 1..side /\ j \in 0..3
  /\ at \in Int \X Int /\ Ring(at) = r
  /\ res \in Seq(Int \X Int)
  /\ ended \in BOOLEAN

\* The square met as the i-th is the one GetSquareId gives the number i - 1:
\* squares written by the walk are found by the formula.
WalkMatchesFormula == \A i \in 1..Len(res) : SquareId(res[i]) = i - 1

\* The assertion of line 165: a finished walk has met 4 * side * side squares.
AllMet == ended => Len(res) = 4 * side * side

\* GetSquareId finds a point exactly when a square of the walk contains it, the
\* borders included, and gives it the number of such a square.
CoversPoint(c, p, s) == \A k \in {1, 2} :
  LET low == 2 * (c[k] + s) IN low <= p[k] /\ p[k] <= low + 2
PointsAreFound ==
  ended => \A p \in ((-1)..(4 * side + 1)) \X ((-1)..(4 * side + 1)) :
    IF Located(p, side)
      THEN LET id == PointId(p, side) IN
           id \in 0..(Len(res) - 1) /\ CoversPoint(res[id + 1], p, side)
      ELSE \A i \in 1..Len(res) : ~CoversPoint(res[i], p, side)

\* Renumbering there and back is the identity, and squares with successive
\* numbers in the binary layout still are neighbours within their ring.
Neighbours(c, d) == LET x == c[1] - d[1]  y == c[2] - d[2] IN x * x + y * y = 1
BinaryLayout ==
  ended => \A id \in 0..(Len(res) - 1) :
    /\ bin_to_our(our_to_bin(id)) = id /\ our_to_bin(bin_to_our(id + 1)) = id + 1
    /\ LET here == bin_to_our(id + 1)  there == bin_to_our(id + 2) IN
       RingsBelow(id + 1) = RingsBelow(id) =>
         /\ RingsBelow(here) = RingsBelow(id)
         /\ Neighbours(res[here + 1], res[there + 1])
===============================================================================
