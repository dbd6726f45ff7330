----------------------------- MODULE SquarePrograms -----------------------------
(***************************************************************************)
(* The programs that number the squares of a grid by the walk and write a  *)
(* row for each: calculate_traffic the traffic, write_squares where the    *)
(* squares are, legacy_square_ids the numbers that older tables use.       *)
(* The three are run by hand, one at a time, and treat each grid alone.    *)
(***************************************************************************)
EXTENDS GridNumbering, Traffic

CONSTANT Scenes   \* [program, valid, id, side, objects, stops]: what may be run

ASSUME ScenesAssumption ==
  \A x \in Scenes :
    /\ x.side \in Sides /\ DOMAIN x.objects \subseteq CellsOf(x.side)
    /\ \A c \in DOMAIN x.objects : x.objects[c] \in Nat \ {0}

VARIABLES
  scene,   \* the program, whether its command line is valid, and its input
  stage,   \* where it is
  table    \* the rows of the grid by their square_id, or the lines of the output
program == <<scene, stage, table>>

NoRows == <<>>
walk == vars

ProgramInit ==
  /\ scene \in Scenes
  /\ stage = "loading" /\ table = NoRows
  /\ Init /\ side = scene.side
  /\ TrafficInit(scene.objects, scene.stops)

Is(name) == scene.program = name
Go(next) == stage' = next
Ended == stage \in {"written", "gridless", "rejected", "failed", "dead"}

-------------------------------------------------------------------------------
(* Up to the walk.                                                         *)

\* gflags ends the program where a validator rejects the command line.
Reject ==
  /\ stage = "loading" /\ ~scene.valid /\ Go("rejected")
  /\ UNCHANGED <<scene, table, walk, traffic>>

\* The table is made, stops and objects are queried and put into the squares.
LoadTraffic ==
  /\ stage = "loading" /\ scene.valid /\ Is("calculate_traffic") /\ Go("paths")
  /\ data_grid' = [c \in CellsOf(side) |-> 0]
  /\ UNCHANGED <<scene, table, walk, objects, stops, todo, path, q, used, told>>

\* write_squares writes the grids it has been written for, and no others.
ss == {2001, 2123, 2124, 2126, 2006, 1999}
LoadSquares ==
  /\ stage = "loading" /\ scene.valid /\ Is("write_squares")
  /\ Go(IF scene.id \in ss THEN "walking" ELSE "written")
  /\ UNCHANGED <<scene, table, walk, traffic>>

LoadLegacy ==
  /\ stage = "loading" /\ scene.valid /\ Is("legacy_square_ids") /\ Go("walking")
  /\ UNCHANGED <<scene, table, walk, traffic>>

MarkPaths ==
  /\ stage = "paths" /\ TrafficStep(side)
  /\ UNCHANGED <<program, walk>>

Crash ==
  /\ stage = "paths" /\ NoStop /\ Go("dead")
  /\ UNCHANGED <<scene, table, walk, traffic>>

PathsDone ==
  /\ stage = "paths" /\ todo = {} /\ q = <<>> /\ Go("walking")
  /\ UNCHANGED <<scene, table, walk, traffic>>

Number ==
  /\ stage = "walking" /\ Next
  /\ UNCHANGED <<program, traffic>>

-------------------------------------------------------------------------------
(* The rows.                                                               *)

\* cells[id], from the south-west corner.
CellOf(id) == <<res[id + 1][1] + side, res[id + 1][2] + side>>
Ids == 0..(Len(res) - 1)
GetGridCellsIds == [c \in CellsOf(side) |-> CHOOSE id \in Ids : CellOf(id) = c]

LegacyId(c) == c[1] * side * 2 + c[2]
LegacyLine(c) == c[1] * 2 * side + c[2]
GetSWCorner(x, y) == <<2 * x, 2 * y>>

\* Mutant: the corners of the north are those of the south.
SquareRowFlipped(c) ==
  [legacy |-> LegacyId(c), center |-> GetCenter(c),
   nw |-> GetSWCorner(c[1], c[2]),     ne |-> GetSWCorner(c[1], c[2] + 1),
   sw |-> GetSWCorner(c[1] + 1, c[2]), se |-> GetSWCorner(c[1] + 1, c[2] + 1)]
SquareRow(c) ==
  [legacy |-> LegacyId(c), center |-> GetCenter(c),
   nw |-> GetSWCorner(c[1] + 1, c[2]), ne |-> GetSWCorner(c[1] + 1, c[2] + 1),
   sw |-> GetSWCorner(c[1], c[2]),     se |-> GetSWCorner(c[1], c[2] + 1)]

Write(rows) ==
  /\ stage = "walking" /\ ended
  /\ table' = rows /\ Go("written")
  /\ UNCHANGED <<scene, walk, traffic>>

\* Squares without traffic have no row.
WriteTraffic ==
  /\ Is("calculate_traffic")
  /\ Write([id \in {i \in Ids : data_grid[CellOf(i)] # 0} |-> data_grid[CellOf(id)]])
WriteSquares == Is("write_squares") /\ Write([id \in Ids |-> SquareRow(CellOf(id))])
WriteLegacy == Is("legacy_square_ids") /\ Write([id \in Ids |-> LegacyLine(CellOf(id))])

\* The database refuses: where the grids are asked for, LoadGridMetadata logs it and
\* returns none, and the program ends as if it had written them; elsewhere
\* calculate_traffic logs it and returns 1, write_squares catches nothing, and the
\* transaction of the grid is rolled back.
Refused ==
  /\ scene.valid
  /\ \/ (Is("calculate_traffic") \/ Is("write_squares")) /\ stage = "loading" /\ Go("gridless")
     \/ /\ stage = "loading" \/ (stage = "walking" /\ ended)
        /\ \/ Is("calculate_traffic") /\ Go("failed")
           \/ Is("write_squares") /\ Go("dead")
  /\ UNCHANGED <<scene, table, walk, traffic>>

ProgramStep ==
  \/ Reject \/ LoadTraffic \/ LoadSquares \/ LoadLegacy \/ MarkPaths \/ Crash \/ PathsDone
  \/ Number \/ WriteTraffic \/ WriteSquares \/ WriteLegacy

squares == <<program, walk, traffic>>
ProgramSpec == ProgramInit /\ [][ProgramStep \/ Refused]_squares

-------------------------------------------------------------------------------
(* Properties.                                                             *)

\* The traffic that readers find under the number GetSquareId computes for a square.
FoundTraffic(c) ==
  LET id == SquareId(<<c[1] - side, c[2] - side>>) IN
  IF id \in DOMAIN table THEN table[id] ELSE 0

Written(name) == Is(name) /\ stage = "written"

\* Whatever the search meets, the table has each path as a band of the width that was
\* asked for, where that is bold enough to have no gaps, and each path of no length,
\* whose objects share the square of their stop, in all squares; the traffic of a square
\* is the sum of the paths that it is so part of.
TrafficIsBands ==
  Written("calculate_traffic") /\ Bold => AreBands(FoundTraffic, side, MustMark, MayMark)

\* "Path-line boldness in meters", of all paths.
PathsAreBold ==
  Written("calculate_traffic") => AreBands(FoundTraffic, side, Inside, InsideOrOn)

\* The table of squares describes the squares that GetSquareId numbers: a centre is
\* found under the number of its row, neighbours share their corners, and the older
\* numbers are a numbering, the one that legacy_square_ids prints.
SquareTableFits ==
  Written("write_squares") /\ scene.id \in ss =>
    /\ DOMAIN table = 0..(4 * side * side - 1)
    /\ {table[id].legacy : id \in Ids} = Ids
    /\ \A id \in Ids :
         LET row == table[id]  c == GetSquareCoords(row.center, side) IN
         /\ PointId(row.center, side) = id /\ GetGridCellsIds[c] = id
         /\ row.legacy = LegacyLine(c)
         /\ row.sw[1] < row.center[1] /\ row.center[1] < row.nw[1]
         /\ row.sw[2] < row.center[2] /\ row.center[2] < row.se[2]
         /\ \A n \in Ids : LET d == GetSquareCoords(table[n].center, side) IN
              /\ d = <<c[1] + 1, c[2]>> => table[n].sw = row.nw /\ table[n].se = row.ne
              /\ d = <<c[1], c[2] + 1>> => table[n].sw = row.se /\ table[n].nw = row.ne
===============================================================================
