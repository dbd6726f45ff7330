---------------------------- MODULE MCBatchPrograms -----------------------------
\* Instances of BatchPrograms: the walk of grids of all Sides, and the paths of
\* small grids between any two squares, the hexagons of parts of a pentagon.
EXTENDS BatchPrograms, TLC

Run(name, s) ==
  [program |-> name, valid |-> TRUE, id |-> 2001, side |-> s, objects |-> <<>>, stops |-> <<>>]
TrafficOf(s, objs, points) ==
  [Run("calculate_traffic", s) EXCEPT !.objects = objs, !.stops = points]

\* One square with objects and one stop.
Trips(s, From) ==
  {TrafficOf(s, c :> 2, <<GetCenter(d)>>) : c \in From, d \in CellsOf(s)}

MCScenes ==
  {Run("write_squares", s) : s \in Sides} \cup {Run("legacy_square_ids", s) : s \in {1, 2}}
  \cup {[Run("write_squares", 1) EXCEPT !.id = 2002],
        [Run("legacy_square_ids", 1) EXCEPT !.valid = FALSE]}
  \cup Trips(2, CellsOf(2)) \cup Trips(3, (0..2) \X (0..2))
  \cup {TrafficOf(2, (<<0, 0>> :> 1) @@ (<<3, 1>> :> 2) @@ (<<0, 2>> :> 3),
                  <<<<8, 8>>, <<2, 4>>, <<9, 1>>>>),
        TrafficOf(1, <<0, 0>> :> 1, <<>>), TrafficOf(1, <<>>, <<>>)}

\* Hexagons of neighbouring triangles of a pentagon, with those on the border between
\* the two, and a few near the places where the search goes wrong.
Hexagons(F, Ok(_)) ==
  {h \in F \X (0..N) \X (0..N) \X (0..N) :
     /\ h[2] + h[3] + h[4] = N /\ h[2] % 3 = h[3] % 3 /\ h[3] % 3 = h[4] % 3
     /\ WellInside(h) /\ Ok(h)}
Counts(H) == FoldSet(LAMBDA h, s : Append(s, <<h, Len(s) + 1>>), <<>>, H)

MCHexInputs ==
  {<<>>, Counts(Hexagons({6, 7}, LAMBDA h : h[4] > 0 /\ (h[3] > 0 \/ h[1] = 6))),
   Counts(Hexagons({5, 9}, LAMBDA h : h[2] = 7 /\ h[3] > 0 /\ h[4] > 0)),
   <<<<<<6, 5, 5, 5>>, 1>>, <<<<6, 1, 4, 10>>, 2>>>>,
   <<<<<<0, 1, 7, 7>>, 1>>, <<<<5, N, 0, 0>>, 1>>>>}
===============================================================================
