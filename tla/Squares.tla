-------------------------------- MODULE Squares --------------------------------
(***************************************************************************)
(* The squares of a grid and their numbers: GetSquareId of                 *)
(* grids/grid_metadata.cc, which numbers the 2s * 2s squares around the    *)
(* centre of a grid of side s ring by ring, and bin_squares.py, which      *)
(* renumbers them for the binary layout.                                   *)
(*                                                                         *)
(* A square is <<dx, dy>>, its place relative to the centre.               *)
(***************************************************************************)
EXTENDS Integers

\* The ring of a square: std::max({-dx, dx + 1, -dy, dy + 1}).
Ring(c) == CHOOSE m \in {-c[1], c[1] + 1, -c[2], c[2] + 1} :
             /\ m >= -c[1] /\ m >= c[1] + 1
             /\ m >= -c[2] /\ m >= c[2] + 1

\* Mutant: the third side starts behind its corner.
IdInRingOff(c, q) ==
  CASE c[2] = -q    -> c[1] + q
    [] c[1] = q - 1 -> 2 * q + c[2] + q - 1
    [] c[2] = q - 1 -> 4 * q - 1 + (q - 1 - c[1])
    [] c[1] = -q /\ c[2] # -q -> 6 * q - 2 + (q - 2 - c[2])
\* GetSquareId, after the point has been assigned to its square c of ring q.
\* The sides agree on the corners they share, but for the one the ring starts at.
IdInRing(c, q) ==
  CASE c[2] = -q    -> c[1] + q
    [] c[1] = q - 1 -> 2 * q + c[2] + q - 1
    [] c[2] = q - 1 -> 4 * q - 1 + (q - 2 - c[1])
    [] c[1] = -q /\ c[2] # -q -> 6 * q - 2 + (q - 2 - c[2])
SquareId(c) == 4 * (Ring(c) - 1) * (Ring(c) - 1) + IdInRing(c, Ring(c))

\* A coordinate is a number of half steps from the south-west corner of the
\* bounding box, so that centres, sides and both borders are among them.  The
\* upper border belongs to the last row.
Located(p, s) == p \in (0..(4 * s)) \X (0..(4 * s))
\* Mutant: the upper border falls into a row of its own.
RowUnclamped(h, s) == h \div 2
RowOf(h, s) == IF h \div 2 < 2 * s THEN h \div 2 ELSE 2 * s - 1
\* GetSquareId of a point, where the point is in the grid.
PointId(p, s) == SquareId(<<RowOf(p[1], s) - s, RowOf(p[2], s) - s>>)

-------------------------------------------------------------------------------
(* bin_squares.py                                                          *)

\* int(id ** 0.5 + 1e-8) // 2, the number of whole rings below id.
RingsBelow(id) == CHOOSE q \in 0..id : 4 * q * q <= id /\ id < 4 * (q + 1) * (q + 1)
\* Mutant: the squares behind the corner keep their order.
MirroredOnce(num, l) == IF num <= 6 * l - 3 THEN 6 * l - 3 - num ELSE num
Mirrored(num, l) == IF num <= 6 * l - 3 THEN 6 * l - 3 - num
                                        ELSE 8 * l - 5 - num + (6 * l - 2)
Renumbered(id) ==
  LET q == RingsBelow(id) IN
  4 * q * q + Mirrored(id - 4 * q * q, q + 1)
bin_to_our(id) == Renumbered(id - 1)
our_to_bin(id) == Renumbered(id) + 1
===============================================================================
