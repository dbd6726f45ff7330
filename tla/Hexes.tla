--------------------------------- MODULE Hexes ---------------------------------
(***************************************************************************)
(* The objects around hexagons on the globe (hexes/calculate_radii.cpp).   *)
(*                                                                         *)
(* The globe is a dodecahedron whose pentagons are cut into five triangles *)
(* around their centre; a hexagon is <<face, a, b, c>>, a triangle and the *)
(* weights of its corners, which add up to N.  A breadth-first search from *)
(* every hexagon with objects counts the objects at each distance.         *)
(*                                                                         *)
(* Coordinates are exact: <<a, b>> is a + b * phi.  Not modelled: reading  *)
(* and printing of the JSON files.                                         *)
(***************************************************************************)
EXTENDS Integers, Sequences, FiniteSets, FiniteSetsExt, SequencesExt
LOCAL INSTANCE TLC
LOCAL INSTANCE Bitwise

CONSTANTS
  N,          \* how many weights there are to give away, 71499 in the code
  max_dist,   \* how far the objects are counted, 50 in the code
  HexInputs   \* what hexes.json may be: sequences of <<hexagon, count>>

ASSUME HexesAssumption == N \in Nat \ {0} /\ max_dist \in Nat

VARIABLES
  hex_ids,    \* the hexagons of the file, with their counts
  at_hex,     \* where the program is
  faces,      \* the corners of the triangles, the centre of the pentagon first
  search,     \* dist, q and res of bfs
  dists       \* in_radius, of the hexagons that have been searched from
hexes == <<hex_ids, at_hex, faces, search, dists>>

-------------------------------------------------------------------------------
(* The polyhedron (gen_poly).                                              *)

Plus(x, y) == <<x[1] + y[1], x[2] + y[2]>>
Times(k, x) == <<k * x[1], k * x[2]>>
TimesPhi(x) == <<x[2], x[1] + x[2]>>
ByPhi == <<-1, 1>>     \* 1 / phi
Following(pos) == (pos % 3) + 1
SignOf(b) == IF b % 2 = 0 THEN -1 ELSE 1

\* The vertices of a cube, and four on each plane of two axes.
poly == [v \in 0..19 |->
  IF v < 8 THEN [k \in 1..3 |-> <<1 - 2 * ((v \div 2 ^ (k - 1)) % 2), 0>>]
  ELSE LET small == Times(SignOf((v - 8) \div 6), ByPhi)
           large == Times(SignOf((v - 8) \div 3), <<0, 1>>)  O == <<0, 0>>
       IN CASE (v - 8) % 3 = 0 -> <<O, small, large>>
            [] (v - 8) % 3 = 1 -> <<small, large, O>>
            [] (v - 8) % 3 = 2 -> <<large, O, small>>]

\* The vertices of the pentagon with the centre cnt, in the order of their numbers:
\* the loop that is to make neighbours adjacent looks for distance 0 and finds none.
Pentagon(cnt) ==
  LET perm == ((cnt - 20) % 3) + 1
      OnPlane(p) == Plus(TimesPhi(p[perm]), Times(SignOf((cnt - 20) \div 6), p[Following(perm)]))
                      = Times(SignOf((cnt - 20) \div 3), <<1, 1>>)
  IN SelectSeq([i \in 1..20 |-> i - 1], LAMBDA v : OnPlane(poly[v]))

\* Each pentagon gives five faces, which are numbered from 0.
Triangle(f) ==
  LET cnt == 20 + f \div 5  face == Pentagon(cnt)  i == f % 5 IN
  <<cnt, face[i + 1], face[((i + 1) % 5) + 1]>>
gen_poly == [f \in 1..60 |-> Triangle(f - 1)]
Face(f) == faces[f + 1]
FaceIds == 0..59

\* adj_faces[v1][v2] ^ f_id: the other faces with the edge, combined by xor, which is
\* 0 where there is none.
Across(f, v1, v2) ==
  FoldSet(LAMBDA x, y : x ^^ y, 0, {g \in FaceIds \ {f} : {v1, v2} \subseteq ToSet(Face(g))})

-------------------------------------------------------------------------------
(* Hexagons and their neighbours.                                          *)

\* A vector is written outside of its bounds.
Outside == <<>>

Weights(f, b) == <<f, b[1], b[2], b[3]>>
Positive(h) == {i \in 1..3 : h[i + 1] > 0}
NonZero(h) == {i \in 1..3 : h[i + 1] # 0}
\* std::find, which ends behind the vector.
IndexIn(f, v) == IF v \in ToSet(Face(f)) THEN CHOOSE i \in 1..3 : Face(f)[i] = v ELSE 4

\* The hexagon of a vertex, in the first face that has it.
get_vertex_hex(v) ==
  LET f == Min({g \in FaceIds : v \in ToSet(Face(g))}) IN
  Weights(f, [i \in 1..3 |-> IF Face(f)[i] = v THEN N ELSE 0])

\* Mutant: the weight that is beyond the edge is taken from one corner only.
MirroredAtOneCorner(h, pos, g) ==
  LET p == Following(pos)  q == Following(p)
      i1 == IndexIn(g, Face(h[1])[p])  i2 == IndexIn(g, Face(h[1])[q])
  IN IF 4 \in {i1, i2} THEN Outside
     ELSE Weights(g, [i \in 1..3 |-> CASE i = i1 -> h[p + 1] + h[pos + 1]
                                       [] i = i2 -> h[q + 1]
                                       [] OTHER -> -h[pos + 1]])
\* The same place seen from the face g across the edge opposite to corner pos.
MirroredInto(h, pos, g) ==
  LET p == Following(pos)  q == Following(p)
      i1 == IndexIn(g, Face(h[1])[p])  i2 == IndexIn(g, Face(h[1])[q])
  IN IF 4 \in {i1, i2} THEN Outside
     ELSE Weights(g, [i \in 1..3 |-> CASE i = i1 -> h[p + 1] + h[pos + 1]
                                       [] i = i2 -> h[q + 1] + h[pos + 1]
                                       [] OTHER -> -h[pos + 1]])

\* One name for each hexagon: the least face of those that share it.
RECURSIVE unify_hex_id(_)
unify_hex_id(h) ==
  IF h = Outside \/ Positive(h) = 1..3 THEN h ELSE
  LET pos == Min((1..3) \ Positive(h))  p == Following(pos)  f == h[1]
      g == Across(f, Face(f)[p], Face(f)[Following(p)])
  IN IF h[pos + 1] < 0 THEN unify_hex_id(MirroredInto(h, pos, g))
     ELSE IF Cardinality(NonZero(h)) = 1
       THEN get_vertex_hex(Face(f)[CHOOSE i \in NonZero(h) : TRUE])
     ELSE IF g < f THEN MirroredInto(h, pos, g) ELSE h

\* A vertex is looked for by its place in the face instead of its number.
AroundVertex(h) ==
  LET v == CHOOSE i \in NonZero(h) : TRUE
      corners == SelectSeq([k \in 1..180 |-> <<(k - 1) \div 3, ((k - 1) % 3) + 1>>],
                           LAMBDA x : Face(x[1])[x[2]] = v - 1)
  IN [k \in DOMAIN corners |->
        Weights(corners[k][1], [i \in 1..3 |-> IF i = corners[k][2] THEN N - 2 ELSE 1])]
delta == <<<<-1, 2, -1>>, <<-2, 1, 1>>, <<-1, -1, 2>>, <<1, -2, 1>>, <<2, -1, -1>>, <<1, 1, -2>>>>
AroundHex(h) ==
  [k \in 1..6 |-> unify_hex_id(Weights(h[1], [i \in 1..3 |-> h[i + 1] + delta[k][i]]))]

hex_neighbors(h) == IF Cardinality(NonZero(h)) = 1 THEN AroundVertex(h) ELSE AroundHex(h)
\* The assertion that six neighbours are six.
SixDiffer(h) == Cardinality(NonZero(h)) = 1 \/ IsInjective(AroundHex(h))

-------------------------------------------------------------------------------
(* The program: one step is one turn of the loop of bfs.                   *)

Count(h) == LET i == Max({k \in DOMAIN hex_ids : hex_ids[k][1] = h}) IN hex_ids[i][2]
hex_value == [h \in {hex_ids[i][1] : i \in DOMAIN hex_ids} |-> Count(h)]

NoSearch == [dist |-> <<>>, q |-> <<>>, res |-> <<>>]
HexesInit(input) ==
  /\ hex_ids = input /\ at_hex = "starting" /\ faces = <<>>
  /\ search = NoSearch /\ dists = <<>>

GenPoly ==
  /\ at_hex = "starting"
  /\ faces' = gen_poly /\ at_hex' = "made"
  /\ UNCHANGED <<hex_ids, search, dists>>

\* The neighbours of one hexagon are printed, which passes the assertion.
PrintOne ==
  /\ at_hex = "made" /\ SixDiffer(<<1, N - 2, 1, 1>>)
  /\ at_hex' = "between"
  /\ UNCHANGED <<hex_ids, faces, search, dists>>

BeginSearch ==
  /\ at_hex = "between" /\ Len(dists) < Len(hex_ids)
  /\ LET h == hex_ids[Len(dists) + 1][1] IN
     search' = [dist |-> (h :> 0), q |-> <<h>>, res |-> [d \in 0..max_dist |-> 0]]
  /\ at_hex' = "searching"
  /\ UNCHANGED <<hex_ids, faces, dists>>

cur_hex == Head(search.q)
Turn_ == at_hex = "searching" /\ search.q # <<>>
Counted == IF cur_hex \in DOMAIN hex_value
             THEN [search.res EXCEPT ![search.dist[cur_hex]] = @ + hex_value[cur_hex]]
             ELSE search.res

Rim ==
  /\ Turn_ /\ search.dist[cur_hex] >= max_dist
  /\ search' = [search EXCEPT !.q = Tail(@), !.res = Counted]
  /\ UNCHANGED <<hex_ids, at_hex, faces, dists>>

Inner == Turn_ /\ search.dist[cur_hex] < max_dist
Broken == Outside \in ToSet(hex_neighbors(cur_hex))

Spread ==
  /\ Inner /\ ~Broken /\ SixDiffer(cur_hex)
  /\ LET new == SelectSeq(hex_neighbors(cur_hex), LAMBDA n : n \notin DOMAIN search.dist) IN
     search' = [q |-> Tail(search.q) \o new, res |-> Counted,
                dist |-> [h \in ToSet(new) |-> search.dist[cur_hex] + 1] @@ search.dist]
  /\ UNCHANGED <<hex_ids, at_hex, faces, dists>>

AssertFails ==
  /\ Inner /\ ~Broken /\ ~SixDiffer(cur_hex)
  /\ at_hex' = "aborted"
  /\ UNCHANGED <<hex_ids, faces, search, dists>>

\* What follows a write outside of new_bari is not modelled.
WriteOutside ==
  /\ Inner /\ Broken
  /\ at_hex' = "undefined"
  /\ UNCHANGED <<hex_ids, faces, search, dists>>

\* d[i] += d[i - 1]
EndSearch ==
  /\ at_hex = "searching" /\ search.q = <<>>
  /\ dists' = Append(dists,
       [d \in 0..max_dist |-> MapThenSumSet(LAMBDA e : search.res[e], 0..d)])
  /\ search' = NoSearch /\ at_hex' = "between"
  /\ UNCHANGED <<hex_ids, faces>>

WriteHexes ==
  /\ at_hex = "between" /\ Len(dists) = Len(hex_ids)
  /\ at_hex' = "written"
  /\ UNCHANGED <<hex_ids, faces, search, dists>>

HexesStep ==
  \/ GenPoly \/ PrintOne \/ BeginSearch \/ Rim \/ Spread \/ AssertFails \/ WriteOutside
  \/ EndSearch \/ WriteHexes

-------------------------------------------------------------------------------
(* What is meant by a radius.                                              *)

\* A hexagon as seen from a face: its own weights, or, in the next triangle of the
\* pentagon, those in the plane of the two.
Far == <<N * N, -N * N, 0>>
WeightOf(h, v) == IF v \in ToSet(Face(h[1]))
                    THEN h[(CHOOSE i \in 1..3 : Face(h[1])[i] = v) + 1] ELSE 0
SeenFrom(f, h) ==
  LET shared == ToSet(Face(f)) \cap ToSet(Face(h[1]))
      beyond == ToSet(Face(h[1])) \ shared
  IN CASE h[1] = f -> Tail(h)
       [] h[1] # f /\ Cardinality(shared) = 2 /\ Face(f)[1] \in shared ->
            LET w == WeightOf(h, CHOOSE v \in beyond : TRUE) IN
            [i \in 1..3 |-> IF Face(f)[i] \in shared THEN WeightOf(h, Face(f)[i]) + w ELSE -w]
       [] OTHER -> Far

\* A step changes the differences of the weights by 3 at most.
Distance(g, h) ==
  LET x == Tail(g)  y == SeenFrom(g[1], h)  D(i) == y[i] - x[i]
      A(k) == IF k < 0 THEN -k ELSE k
  IN Max({A(D(1) - D(2)), A(D(2) - D(3)), A(D(3) - D(1))}) \div 3

\* The search stays away from the outer edges of the pentagon and from its centre.
WellInside(h) == h[2] > 2 * max_dist /\ h[2] + 2 * max_dist < N

\* For a hexagon well inside of a pentagon, in_radius has the objects no farther
\* away than each distance, over the borders of triangles.
InRadius ==
  at_hex = "written" => \A i \in DOMAIN hex_ids : WellInside(hex_ids[i][1]) =>
    \A d \in 0..max_dist :
      dists[i][d] = MapThenSumSet(LAMBDA h : hex_value[h],
                      {h \in DOMAIN hex_value : Distance(hex_ids[i][1], h) <= d})
===============================================================================
