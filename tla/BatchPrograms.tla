----------------------------- MODULE BatchPrograms -----------------------------
(***************************************************************************)
(* The programs that go from one input to one output: those that number    *)
(* the squares of a grid, and the one that counts around hexagons.  They   *)
(* share nothing, so that a behaviour is about one of them.                *)
(***************************************************************************)
EXTENDS SquarePrograms, Hexes

batch == <<squares, hexes>>

BatchInit ==
  /\ ProgramInit
  /\ \E input \in IF scene.valid THEN {<<>>} ELSE HexInputs : HexesInit(input)

SquaresStep == ProgramStep /\ UNCHANGED hexes
HexesGo == ~scene.valid /\ HexesStep /\ UNCHANGED squares

BatchSpec ==
  /\ BatchInit
  /\ [][SquaresStep \/ (Refused /\ UNCHANGED hexes) \/ HexesGo]_batch
  /\ WF_batch(SquaresStep)

-------------------------------------------------------------------------------
(* Properties.                                                             *)

\* Every program about squares ends, as the walk and the search for paths do.
ProgramsEnd == <>Ended
===============================================================================
