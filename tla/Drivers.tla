-------------------------------- MODULE Drivers --------------------------------
(***************************************************************************)
(* The programs that calculate tables of radii: calculate_radii and two    *)
(* variants (one table), calculate_radii_objects (a table per rubric) and  *)
(* calculate_brands (a table per popular name of each rubric).             *)
(*                                                                         *)
(* A program works through the tables it has planned.  For each it queries *)
(* the objects, drops and creates the table, and a pool of threads commits *)
(* the grids in any order.  SQL errors on the way are logged and the       *)
(* program goes on; its exit code does not tell.                           *)
(***************************************************************************)
EXTENDS RadiiDatabase, SequencesExt

CONSTANTS
  Programs,   \* the processes
  Command,    \* their command lines
  Rubrics,    \* the rubrics that have objects, sorted
  Eng,        \* metadata.rubrics: the tables named after rubrics
  TopTables,  \* the tables of a rubric's most popular names
  Widening    \* by program, table and grid: the jobs that alter the table's columns

ASSUME DriversAssumption ==
  /\ Rubrics \in Seq(STRING)
  /\ \A i \in DOMAIN Rubrics :
       Rubrics[i] \in DOMAIN Eng => Eng[Rubrics[i]] \in Tables
  /\ DOMAIN Eng \subseteq DOMAIN TopTables
  /\ \A c \in DOMAIN TopTables : TopTables[c] \in Seq(Tables)

\* Command lines: whether the validators accept the flags, and what they ask for.
\* Three programs differ in what they connect to and in defaults only.
CalculateRadii(valid, table) ==
  [program |-> "calculate_radii", valid |-> valid, table |-> table]
CalculateRadiiBin(valid, table) ==
  [program |-> "calculate_radii_bin", valid |-> valid, table |-> table]
BinRadii(valid, table) ==
  [program |-> "bin_radii", valid |-> valid, table |-> table]
CalculateRadiiObjects(valid, lbound, rbound) ==
  [program |-> "calculate_radii_objects", valid |-> valid, lbound |-> lbound, rbound |-> rbound]
CalculateBrands(valid, list, given, file) ==
  [program |-> "calculate_brands", valid |-> valid, list |-> list, given |-> given, file |-> file]
ForOneTable == {"calculate_radii", "calculate_radii_bin", "bin_radii"}

\* A negative --lbound, which nothing rejects, would read before the first rubric.
ASSUME CommandAssumption ==
  \A d \in Programs :
    \/ Command[d].program \in ForOneTable /\ Command[d].table \in Tables
    \/ /\ Command[d].program = "calculate_radii_objects"
       /\ Command[d].lbound \in Nat /\ Command[d].rbound \in Int
    \/ /\ Command[d].program = "calculate_brands"
       /\ Command[d].list \in Seq(STRING) /\ Command[d].file \in Seq(STRING)
       /\ Command[d].given \in BOOLEAN /\ (~Command[d].given => Command[d].file = <<>>)

VARIABLE proc

\* An error that is logged for all tables, for one, or for one grid of it.
NoTable == ""
AllGrids == 0
Idle == [at |-> "idle", grids |-> {}, rubrics |-> <<>>, todo |-> <<>>, date |-> 0,
         left |-> {}, errors |-> {}, made |-> [t \in Tables |-> [born |-> 0, date |-> 0]],
         code |-> 0]

DriversInit == proc = [d \in Programs |-> Idle]

At(d, phase) == proc[d].at = phase
Running(d) == proc[d].at \notin {"idle", "exited", "aborted"}
Exit(d, code) == proc' = [proc EXCEPT ![d].at = "exited", ![d].code = code]
Abort(d) == proc' = [proc EXCEPT ![d].at = "aborted"]

-------------------------------------------------------------------------------
(* What a program is about to calculate.                                   *)

\* gflags ends the program where a validator rejects the command line.
Start(d) ==
  /\ At(d, "idle")
  /\ IF Command[d].valid THEN proc' = [proc EXCEPT ![d].at = "loading"] ELSE Exit(d, 1)
  /\ UNCHANGED <<assembled, tables, readers, faults>>

Load(d) ==
  /\ At(d, "loading")
  /\ \E loaded \in {Grids, {}} :
       /\ LoadGridMetadata(loaded)
       /\ proc' = [proc EXCEPT ![d].at = "planning", ![d].grids = loaded,
                     ![d].errors = IF loaded = {} THEN {<<NoTable, AllGrids>>} ELSE {}]
  /\ UNCHANGED <<assembled, tables, readers>>

\* The only table is --output_table.
PlanOne(d) ==
  /\ At(d, "planning") /\ Command[d].program \in ForOneTable
  /\ proc' = [proc EXCEPT ![d].at = "reading", ![d].todo = <<Command[d].table>>]
  /\ UNCHANGED <<assembled, tables, readers, faults>>

\* --rbound, where -1 and everything too great stand for all rubrics.
\* Mutant: all rubrics but the last.
BoundShort(d) ==
  LET b == Command[d].rbound IN
  IF b = -1 \/ b > Len(Rubrics) THEN Len(Rubrics) - 1 ELSE b
Bound(d) ==
  LET b == Command[d].rbound IN IF b = -1 \/ b > Len(Rubrics) THEN Len(Rubrics) ELSE b

\* All rubrics are translated, whatever the bounds; the name of one that is not in
\* metadata.rubrics cannot be converted, which nobody catches.
PlanObjects(d) ==
  /\ At(d, "planning") /\ Command[d].program = "calculate_radii_objects"
  /\ IF \E i \in DOMAIN Rubrics : Rubrics[i] \notin DOMAIN Eng
       THEN Abort(d)
       ELSE proc' = [proc EXCEPT ![d].at = "reading",
              ![d].todo = [i \in 1..(Bound(d) - Command[d].lbound) |->
                             Eng[Rubrics[Command[d].lbound + i]]]]
  /\ UNCHANGED <<assembled, tables, readers, faults>>

\* --rubrics_list or the lines of --rubrics_file, where both must not be given.
PlanBrands(d) ==
  /\ At(d, "planning") /\ Command[d].program = "calculate_brands"
  /\ LET both == Command[d].list \o Command[d].file IN
     IF both = <<>> \/ (Command[d].list # <<>> /\ Command[d].given)
       THEN Exit(d, 1)
       ELSE proc' = [proc EXCEPT ![d].at = "reading", ![d].rubrics = both]
  /\ UNCHANGED <<assembled, tables, readers, faults>>

\* The next rubric's popular names are looked up once its tables are due.
NameBrands(d) ==
  /\ At(d, "reading") /\ proc[d].todo = <<>> /\ proc[d].rubrics # <<>>
  /\ LET rubric == Head(proc[d].rubrics) IN
     IF rubric \notin DOMAIN Eng THEN Abort(d)
     ELSE proc' = [proc EXCEPT ![d].rubrics = Tail(proc[d].rubrics),
                               ![d].todo = TopTables[rubric]]
  /\ UNCHANGED <<assembled, tables, readers, faults>>

\* An sql_error outside of the calculation of a table ends the program.
PlanRefused(d) ==
  /\ \/ At(d, "planning") /\ Command[d].program = "calculate_radii_objects"
     \/ At(d, "reading") /\ proc[d].todo = <<>> /\ proc[d].rubrics # <<>>
  /\ Fault /\ Exit(d, 1)
  /\ UNCHANGED <<assembled, tables, readers>>

-------------------------------------------------------------------------------
(* CreateRadiiTableFromSQLConcurrently for the first table to do.          *)

Table(d) == Head(proc[d].todo)
Busy(d) == proc[d].todo # <<>>

\* The objects are queried and converted.
Read(d) ==
  /\ At(d, "reading") /\ Busy(d)
  /\ proc' = [proc EXCEPT ![d].at = "resetting", ![d].date = assembled]
  /\ UNCHANGED <<assembled, tables, readers, faults>>

\* Mutant: the table is dropped under its readers.
ResetAtOnce(d) ==
  /\ At(d, "resetting")
  /\ LET t == Table(d)  n == tables[t].born + 1 IN
     /\ tables' = [tables EXCEPT ![t] = [born |-> n, rows |-> NoRowsYet]]
     /\ proc' = [proc EXCEPT ![d].at = "pool", ![d].left = proc[d].grids,
                   ![d].made[t] = [born |-> n, date |-> proc[d].date]]
  /\ UNCHANGED <<assembled, readers, faults>>

\* DROP and CREATE in one transaction, when nobody reads from the table; a job is
\* posted for each grid.
Reset(d) ==
  /\ At(d, "resetting") /\ readers[Table(d)] = {}
  /\ LET t == Table(d)  n == tables[t].born + 1 IN
     /\ tables' = [tables EXCEPT ![t] = [born |-> n, rows |-> NoRowsYet]]
     /\ proc' = [proc EXCEPT ![d].at = "pool", ![d].left = proc[d].grids,
                   ![d].made[t] = [born |-> n, date |-> proc[d].date]]
  /\ UNCHANGED <<assembled, readers, faults>>

Log(d, t, g) == proc[d].errors \cup {<<t, g>>}

\* Mutant: the table is tried again.
TableRetried(d) ==
  /\ Busy(d) /\ (At(d, "reading") \/ At(d, "resetting"))
  /\ Fault
  /\ proc' = [proc EXCEPT ![d].at = "reading", ![d].errors = Log(d, Table(d), AllGrids)]
  /\ UNCHANGED <<assembled, tables, readers>>

\* The sql_error of the query, or of the reset, is logged and the table left alone.
TableRefused(d) ==
  /\ Busy(d) /\ (At(d, "reading") \/ At(d, "resetting"))
  /\ Fault
  /\ proc' = [proc EXCEPT ![d].at = "reading", ![d].todo = Tail(proc[d].todo),
                ![d].errors = Log(d, Table(d), AllGrids)]
  /\ UNCHANGED <<assembled, tables, readers>>

\* A job may alter the columns before it writes, for which nobody may read from the
\* table.  The maximum that decides it is not initialised, so that any job may.
CanWrite(d, g) == <<d, Table(d), g>> \in Widening => readers[Table(d)] = {}

\* A job commits the rows of its grid.
Commit(d, g) ==
  /\ At(d, "pool") /\ g \in proc[d].left /\ CanWrite(d, g)
  /\ ~Conflict(Table(d), g, proc[d].date)
  /\ tables' = [tables EXCEPT ![Table(d)].rows[g] = @ \cup {proc[d].date}]
  /\ proc' = [proc EXCEPT ![d].left = @ \ {g}]
  /\ UNCHANGED <<assembled, readers, faults>>

\* A job logs an sql_error: the table has another program's rows for its squares,
\* or the database refuses.
Lose(d, g) ==
  /\ At(d, "pool") /\ g \in proc[d].left
  /\ \/ CanWrite(d, g) /\ Conflict(Table(d), g, proc[d].date) /\ UNCHANGED faults
     \/ Fault
  /\ proc' = [proc EXCEPT ![d].left = @ \ {g}, ![d].errors = Log(d, Table(d), g)]
  /\ UNCHANGED <<assembled, tables, readers>>

\* The pool is joined.
Join(d) ==
  /\ At(d, "pool") /\ proc[d].left = {}
  /\ proc' = [proc EXCEPT ![d].at = "reading", ![d].todo = Tail(proc[d].todo)]
  /\ UNCHANGED <<assembled, tables, readers, faults>>

Finish(d) ==
  /\ At(d, "reading") /\ ~Busy(d) /\ proc[d].rubrics = <<>>
  /\ Exit(d, 0)
  /\ UNCHANGED <<assembled, tables, readers, faults>>

\* A lost connection is no sql_error: it ends the process, in whichever thread.
LoseConnection(d) ==
  /\ Running(d) /\ Fault /\ Abort(d)
  /\ UNCHANGED <<assembled, tables, readers>>

DriverStep(d) ==
  \/ Load(d) \/ PlanOne(d) \/ PlanObjects(d) \/ PlanBrands(d) \/ NameBrands(d)
  \/ Read(d) \/ Reset(d) \/ Join(d) \/ Finish(d)
  \/ \E g \in Grids : Commit(d, g) \/ Lose(d, g)
DriverFails(d) == PlanRefused(d) \/ TableRefused(d) \/ LoseConnection(d)

-------------------------------------------------------------------------------
(* Properties.                                                             *)

\* The tables a command line asks for, read off the flags' descriptions.
Asked(d) ==
  LET c == Command[d] IN
  CASE c.program \in ForOneTable -> {c.table}
    [] c.program = "calculate_radii_objects" ->
         {Eng[Rubrics[i]] : i \in {k \in DOMAIN Rubrics :
            k > c.lbound /\ (c.rbound = -1 \/ k <= c.rbound)}}
    [] c.program = "calculate_brands" ->
         UNION {ToSet(TopTables[r]) : r \in ToSet(c.list \o c.file)}

Logged(d, t, g) ==
  {<<NoTable, AllGrids>>, <<t, AllGrids>>, <<t, g>>} \cap proc[d].errors # {}

\* A program that ends with exit code 0 has, for every table it was asked for and
\* every grid, rows of the objects it read, or has logged an error for them, or
\* another program has created the table anew in the meantime.
NothingSilentlyLost ==
  \A d \in Programs : At(d, "exited") /\ proc[d].code = 0 =>
    \A t \in Asked(d), g \in Grids :
      \/ Logged(d, t, g)
      \/ /\ proc[d].made[t].born > 0
         /\ \/ tables[t].born > proc[d].made[t].born
            \/ proc[d].made[t].date \in tables[t].rows[g]
===============================================================================
