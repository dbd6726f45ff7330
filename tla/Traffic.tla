-------------------------------- MODULE Traffic --------------------------------
(***************************************************************************)
(* The traffic of the squares of one grid (primary/calculate_traffic.cc).  *)
(*                                                                         *)
(* Every square with objects sends them to the closest stop: MarkPath adds *)
(* their number to the squares near the line between the two, which it     *)
(* finds by a breadth-first search that goes no further where the line is  *)
(* too far away.                                                           *)
(*                                                                         *)
(* A square is <<x, y>>, counted from the south-west corner.  Distances    *)
(* are exact, but for those that rounding may take for more than they are. *)
(***************************************************************************)
EXTENDS Squares, Sequences, FiniteSetsExt

CONSTANT view_radius   \* --view_radius, in meters; a square is 100 meters wide

ASSUME ViewRadiusAssumption == view_radius \in Nat

VARIABLES
  objects,    \* obj_grid: how many objects the squares have that have any
  stops,      \* the points of the stops
  todo,       \* the squares with objects that are still to be looked at
  path,       \* the arguments of MarkPath
  q, used,    \* its queue and the squares it has looked at
  data_grid,  \* the traffic of the squares
  told        \* history: the paths that were marked
traffic == <<objects, stops, todo, path, q, used, data_grid, told>>

CellsOf(s) == (0..(2 * s - 1)) \X (0..(2 * s - 1))
\* The loops over the rows and, in them, the columns: the next square with objects.
RowMajor(c, d) == c[1] < d[1] \/ (c[1] = d[1] /\ c[2] <= d[2])
NextOf(cells) == CHOOSE c \in cells : \A d \in cells : RowMajor(c, d)

NoPath == [from |-> <<0, 0>>, to |-> <<0, 0>>, count |-> 0]

Minus(c, d) == <<c[1] - d[1], c[2] - d[2]>>
DotProduct(u, v) == u[1] * v[1] + u[2] * v[2]
NormSquared(v) == DotProduct(v, v)
CrossProduct(u, v) == u[1] * v[2] - u[2] * v[1]

-------------------------------------------------------------------------------
(* The objects of a square.                                                *)

\* GetCenter, in half steps, and GetSquareCoords of a point in the grid.
GetCenter(c) == <<2 * c[1] + 1, 2 * c[2] + 1>>
GetSquareCoords(p, s) == <<RowOf(p[1], s), RowOf(p[2], s)>>

\* closest; rounding may decide between stops that are equally far.
Closest(c) ==
  LET D(z) == NormSquared(Minus(GetCenter(c), stops[z])) IN
  {z \in DOMAIN stops : \A y \in DOMAIN stops : D(z) <= D(y)}

TrafficInit(objs, points) ==
  /\ objects = objs /\ stops = points
  /\ todo = DOMAIN objs
  /\ path = NoPath /\ q = <<>> /\ used = {}
  /\ data_grid = <<>> /\ told = {}

\* A stop outside of the grid is no one's.
NextPath(s) ==
  /\ q = <<>> /\ todo # {} /\ stops # <<>>
  /\ LET c == NextOf(todo) IN
     /\ todo' = todo \ {c} /\ used' = {}
     /\ \E z \in Closest(c) :
          IF Located(stops[z], s)
            THEN /\ path' = [from |-> c, to |-> GetSquareCoords(stops[z], s),
                             count |-> objects[c]]
                 /\ q' = <<c>>
                 /\ told' = told \cup {path'}
            ELSE UNCHANGED <<path, q, told>>
  /\ UNCHANGED <<objects, stops, data_grid>>

\* Without stops the first of them is read from address 0.
NoStop == q = <<>> /\ todo # {} /\ stops = <<>>

-------------------------------------------------------------------------------
(* MarkPath: one step is one turn of the while-loop.                       *)

\* distance * 100 > view_R, squared.  On a path of no length, k and the distance
\* are 0 / 0 and the comparison fails, as it does here: 0 is not more than 0.
Compared(c) ==
  LET v == Minus(path.to, path.from)  u == Minus(c, path.from)  k == DotProduct(u, v) IN
  IF k < 0 \/ k > NormSquared(v)
    THEN <<10000 * Min({NormSquared(u), NormSquared(Minus(c, path.to))}),
           view_radius * view_radius>>
    ELSE <<10000 * (NormSquared(u) * NormSquared(v) - k * k),
           view_radius * view_radius * NormSquared(v)>>
\* Beside a path that is not parallel to a side, k is not exact.
Inexact(c) ==
  LET v == Minus(path.to, path.from) IN
  v[1] # 0 /\ v[2] # 0 /\ DotProduct(Minus(c, path.from), v) \in 1..(NormSquared(v) - 1)
IsFar(c) ==
  LET d == Compared(c) IN
  IF d[1] = d[2] /\ Inexact(c) THEN BOOLEAN ELSE {d[1] > d[2]}

Cur == Head(q)

MarkUsed ==
  /\ q # <<>> /\ Cur \in used
  /\ q' = Tail(q)
  /\ UNCHANGED <<objects, stops, todo, path, used, data_grid, told>>

NewSquare == q # <<>> /\ Cur \notin used

MarkFar ==
  /\ NewSquare /\ TRUE \in IsFar(Cur)
  /\ used' = used \cup {Cur} /\ q' = Tail(q)
  /\ UNCHANGED <<objects, stops, todo, path, data_grid, told>>

\* Mutant: one direction is taken twice.
AroundThree(c) == <<<<c[1] + 1, c[2]>>, <<c[1] + 1, c[2]>>, <<c[1], c[2] - 1>>, <<c[1], c[2] + 1>>>>
Around(c) == <<<<c[1] - 1, c[2]>>, <<c[1] + 1, c[2]>>, <<c[1], c[2] - 1>>, <<c[1], c[2] + 1>>>>

Pushed(c, s) == IF c \in CellsOf(s) \ used' THEN <<c>> ELSE <<>>
Mark(s) ==
  /\ NewSquare /\ FALSE \in IsFar(Cur)
  /\ used' = used \cup {Cur}
  /\ data_grid' = [data_grid EXCEPT ![Cur] = @ + path.count]
  /\ LET a == Around(Cur) IN
     q' = Tail(q) \o Pushed(a[1], s) \o Pushed(a[2], s) \o Pushed(a[3], s) \o Pushed(a[4], s)
  /\ UNCHANGED <<objects, stops, todo, path, told>>

TrafficStep(s) == NextPath(s) \/ MarkUsed \/ MarkFar \/ Mark(s)

-------------------------------------------------------------------------------
(* What is meant by the boldness of a path.                                *)

\* Half the diagonal of a square, which is 100 meters wide: the squares near a path
\* that is no bolder need not be neighbours, so that the search does not find them.
Bold == view_radius * view_radius > 5000

\* The squares whose centres are less than view_radius away from the line between
\* the centres of its ends, and those that are exactly that far away.
Compare(c, p, Op(_, _)) ==
  LET v == Minus(p.to, p.from)  u == Minus(c, p.from)
      w == Minus(c, p.to)       R == view_radius * view_radius
  IN \/ Op(10000 * NormSquared(u), R) \/ Op(10000 * NormSquared(w), R)
     \/ /\ DotProduct(u, v) > 0 /\ DotProduct(w, v) < 0
        /\ Op(10000 * CrossProduct(u, v) * CrossProduct(u, v), R * NormSquared(v))
Less(a, b) == a < b
AtMost(a, b) == a <= b
Inside(c, p) == Compare(c, p, Less)
InsideOrOn(c, p) == Compare(c, p, AtMost)

\* A path of no length marks every square of the grid (see Compared).
Floods(p) == p.from = p.to
MustMark(c, p) == Floods(p) \/ Inside(c, p)
MayMark(c, p) == Floods(p) \/ InsideOrOn(c, p)

CountOf(paths) == MapThenSumSet(LAMBDA p : p.count, paths)
Through(c, Near(_, _)) == CountOf({p \in told : Near(c, p)})

\* The traffic of a square is that of the paths it is near, each counted once, and
\* no square with objects was passed over.
AreBands(Stored(_), s, Least(_, _), Most(_, _)) ==
  /\ \A c \in CellsOf(s) : Stored(c) \in Through(c, Least)..Through(c, Most)
  /\ \A c \in DOMAIN objects :
       (\A z \in Closest(c) : Located(stops[z], s)) => \E p \in told : p.from = c
===============================================================================
