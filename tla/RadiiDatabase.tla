----------------------------- MODULE RadiiDatabase -----------------------------
(***************************************************************************)
(* The part of the database that the programs around the tables of radii   *)
(* share: the objects of Yandex, the grids and the tables of radii.        *)
(*                                                                         *)
(* The rows of a grid are represented by the date of the objects they were *)
(* calculated from; RadiiTable is the model of how a table gets its rows.  *)
(* A reader's transaction keeps the table it has read from being dropped   *)
(* or altered, but not from being filled.                                  *)
(***************************************************************************)
EXTENDS Integers, Sequences, FiniteSets

CONSTANTS
  Grids,      \* city_id of the grids, of country 0
  Tables,     \* the names of tables of radii
  OldTables,  \* those that have been calculated before
  MaxDate,    \* how often the objects are assembled
  Content,    \* by table, date and grid: the radii of the squares with objects
  MaxFaults   \* how often the database refuses a statement or is lost

Dates == 1..MaxDate

ASSUME DatabaseAssumption ==
  /\ Grids \subseteq Nat \ {0} /\ IsFiniteSet(Grids) /\ OldTables \subseteq Tables
  /\ MaxDate \in Nat \ {0} /\ MaxFaults \in Nat
  /\ \A t \in Tables, n \in Dates, g \in Grids :
       \A s \in DOMAIN Content[t][n][g] : s \in Nat /\ Content[t][n][g][s] \in Seq(Nat)

VARIABLES
  assembled,  \* yandex_objects._info, the date of the objects
  tables,     \* by name: how often it was created, and the dates of its rows by grid
  readers,    \* by name: the transactions that have read from it
  faults
database == <<assembled, tables, readers, faults>>

NoRowsYet == [g \in Grids |-> {}]
Missing == [born |-> 0, rows |-> NoRowsYet]
Old == [born |-> 1, rows |-> [g \in Grids |-> {1}]]

DatabaseInit ==
  /\ assembled = 1 /\ faults = 0
  /\ tables = [t \in Tables |-> IF t \in OldTables THEN Old ELSE Missing]
  /\ readers = [t \in Tables |-> {}]

\* The objects are assembled anew, with their date.
Assemble ==
  /\ assembled < MaxDate
  /\ assembled' = assembled + 1
  /\ UNCHANGED <<tables, readers, faults>>

Exists(t) == tables[t].born > 0

\* A statement is refused (an sql_error) or the connection is lost (it is not).
Fault == faults < MaxFaults /\ faults' = faults + 1

\* LoadGridMetadata catches the sql_error and returns no grids.
LoadGridMetadata(loaded) ==
  \/ loaded = Grids /\ UNCHANGED faults
  \/ loaded = {} /\ Fault

\* The dates under which a table has a row for a square: UNIQUE allows one.
DatesOf(t, g, s, rows) == {n \in rows : s \in DOMAIN Content[t][n][g]}
Conflict(t, g, n) ==
  \E s \in DOMAIN Content[t][n][g] : DatesOf(t, g, s, tables[t].rows[g]) # {}
===============================================================================
