------------------------------ MODULE RadiiTable ------------------------------
(***************************************************************************)
(* The table of radii (CreateRadiiTableFromSQLConcurrently in              *)
(* processing/table_creation.h and RadiiWriter in radii_writer.h).         *)
(*                                                                         *)
(* The main thread reads the objects, drops and creates the output table   *)
(* and posts a job per grid; the threads of a pool take the jobs in order. *)
(* A job collects the objects of every square and radius, makes the        *)
(* columns of the table wider if a value needs it and copies its rows in a *)
(* transaction.  Widening and copying take conflicting locks of the table. *)
(***************************************************************************)
EXTENDS DataGrids, Sequences, FiniteSetsExt

CONSTANTS
  Grids,      \* the grids by metadata.cities_grids, in their order
  Workers,    \* the threads of the pool
  Rows,       \* the results of the data query that are considered
  Actions,    \* the --action flags that are considered
  SmallMax,   \* 2^15 - 1, the greatest value of a smallint column
  Faults      \* whether the database may refuse a job

\* A row has coordinates and a number, or cannot be converted.
NoValue == -1
NaN == -SmallMax - 2   \* (int) of 0 / 0: less than any smallint

ASSUME RadiiTableAssumption ==
  /\ Grids \in Seq([id : Nat, lat : Int, lng : Int, side : Nat \ {0}])
  /\ SmallMax \in Nat /\ Faults \in BOOLEAN
  /\ Actions \subseteq {"sum", "average"}
  /\ Rows \subseteq Seq([at : Int \X Int, value : Nat \cup {NoValue}])

VARIABLES
  rows,       \* the objects, by their places in the result of the query
  action,     \* what is done with the values of a radius
  exclude,    \* --exclude_most_common
  main,       \* where the main thread is
  posted,     \* how many jobs have been posted
  queue,      \* the jobs of io_service
  job,        \* what each thread does
  table,      \* [wide, rows]: the type of the columns and the rows by grid
  lost        \* why a grid has no rows, where _ProcessGrid has logged an error
vars == <<rows, action, exclude, main, posted, queue, job, table, lost>>

NumGrids == Len(Grids)
IdsOf(n) == 0..(4 * Grids[n].side * Grids[n].side - 1)
\* EnumerateGridCells: GridNumbering shows that it numbers by SquareId.
Cells == [n \in 1..NumGrids |->
            [id \in IdsOf(n) |-> CHOOSE c \in SquaresOf(Grids[n]) : SquareId(c) = id]]

-------------------------------------------------------------------------------
(* The value of a set of objects, as (int) converts it.                    *)

ValueOf(i) == rows[i].value
TotalOf(S) == MapThenSumSet(ValueOf, S)
ToInt(S) ==
  IF action = "sum" THEN TotalOf(S)
  ELSE IF S = {} THEN NaN ELSE TotalOf(S) \div Cardinality(S)

\* radii[i][x][y] == DataType(): 0 / 0 does not equal itself.
IsDefault(S) == action = "sum" /\ TotalOf(S) = 0

\* The rows a job writes: those of squares that are not empty.
RowsOf(n, kept) ==
  LET radii == CalculateRadii(FillDataGrid(rows, Grids[n], kept), SquaresOf(Grids[n]))
      row == [id \in IdsOf(n) |-> [t \in 0..max_R |-> radii[t][Cells[n][id]]]]
      filled == {id \in IdsOf(n) : \E t \in 0..max_R : ~IsDefault(row[id][t])}
  IN [id \in filled |-> [t \in 0..max_R |-> ToInt(row[id][t])]]

ValuesIn(f) == UNION {{f[id][t] : t \in 0..max_R} : id \in DOMAIN f}
\* max_value >= (1 << 15)
\* Mutant: the greatest value that needs more is taken for one that does not.
NeedsWideLate(f) == \E v \in ValuesIn(f) : v > SmallMax + 1
NeedsWide(f) == \E v \in ValuesIn(f) : v >= SmallMax + 1
\* Whether every value is in the range of the columns.
Fits(f) == table.wide \/ \A v \in ValuesIn(f) : v \in (-SmallMax - 1)..SmallMax

-------------------------------------------------------------------------------
(* The main thread.                                                        *)

NoRows == [i \in {} |-> 0]
Free == [phase |-> "free", grid |-> 0, kept |-> {}, rows |-> NoRows]

Init ==
  /\ \E q \in Rows : rows = [i \in {k \in DOMAIN q : q[k].value # NoValue} |-> q[i]]
  /\ action \in Actions /\ exclude \in BOOLEAN
  /\ main = "reading" /\ posted = 0 /\ queue = <<>>
  /\ job = [w \in Workers |-> Free]
  /\ table = [wide |-> FALSE, rows |-> NoRows]
  /\ lost = NoRows

Alive == main # "dead"

\* The objects have been read; the table is dropped and created.
ResetTable ==
  /\ main = "reading"
  /\ main' = "posting"
  /\ table' = [wide |-> FALSE, rows |-> NoRows]
  /\ UNCHANGED <<rows, action, exclude, posted, queue, job, lost>>

\* An SQL error of the main thread is logged and nothing is calculated; a lost
\* connection is not caught.
ResetFails ==
  /\ Faults
  /\ main = "reading"
  /\ main' \in {"finished", "dead"}
  /\ UNCHANGED <<rows, action, exclude, posted, queue, job, table, lost>>

Post ==
  /\ main = "posting" /\ posted < NumGrids
  /\ posted' = posted + 1
  /\ queue' = Append(queue, posted + 1)
  /\ UNCHANGED <<rows, action, exclude, main, job, table, lost>>

\* The work object is destroyed: the threads end when the queue is empty.
EndWork ==
  /\ main = "posting" /\ posted = NumGrids
  /\ main' = "joining"
  /\ UNCHANGED <<rows, action, exclude, posted, queue, job, table, lost>>

\* Mutant: the jobs that are still queued are not waited for.
JoinEarly ==
  /\ main = "joining"
  /\ \A w \in Workers : job[w].phase = "free"
  /\ main' = "finished"
  /\ UNCHANGED <<rows, action, exclude, posted, queue, job, table, lost>>

\* Threads that were not created are joined at once.
Join ==
  /\ main = "joining"
  /\ \A w \in Workers : job[w].phase = "free" /\ queue = <<>>
  /\ main' = "finished"
  /\ UNCHANGED <<rows, action, exclude, posted, queue, job, table, lost>>

-------------------------------------------------------------------------------
(* The jobs (_ProcessGrid).                                                *)

\* A job is taken and everything up to WriteRadii is calculated.
Take(w) ==
  /\ Alive /\ job[w].phase = "free" /\ queue # <<>>
  /\ queue' = Tail(queue)
  /\ LET n == Head(queue) IN
     \E kept \in Kept(rows, Grids[n], exclude) :
       job' = [job EXCEPT ![w] = [phase |-> "calculated", grid |-> n, kept |-> kept,
                                  rows |-> RowsOf(n, kept)]]
  /\ UNCHANGED <<rows, action, exclude, main, posted, table, lost>>

\* Mutant: only the thread ends.
DieAlone ==
  /\ main' = "dead"
  /\ queue' = <<>>
  /\ UNCHANGED <<rows, action, exclude, posted, job, table, lost>>

\* The process ends; transactions that are not committed are rolled back.
Die ==
  /\ main' = "dead"
  /\ job' = [w \in Workers |-> Free] /\ queue' = <<>>
  /\ UNCHANGED <<rows, action, exclude, posted, table, lost>>

\* FillDataGrid reads or erases memory that is not its own.
Overrun(w) ==
  /\ Alive /\ job[w].phase = "free" /\ queue # <<>>
  /\ exclude /\ DOMAIN rows # {}
  /\ LET S == Coords(rows, Grids[Head(queue)]) IN MustCrash(S) \/ MayCrash(rows, S)
  /\ Die

\* A lost connection is not an sql_error: it leaves the thread uncaught.
Disconnect(w) ==
  /\ Faults /\ job[w].phase # "free"
  /\ Die

Locked(w) == \E u \in Workers \ {w} : job[u].phase = "altering"
\* Mutant: the table is in use from when a job is connected.
SharedEarly(w) == \E u \in Workers \ {w} : job[u].phase \in {"calculated", "copying"}
Shared(w) == \E u \in Workers \ {w} : job[u].phase = "copying"

\* ChangeColumnTypes_ waits until no other transaction uses the table.  The
\* variable max_value is read before it is set: whatever it holds may ask for
\* wide columns.
StartAlter(w) ==
  /\ job[w].phase = "calculated"
  /\ ~Locked(w) /\ ~Shared(w)
  /\ job' = [job EXCEPT ![w].phase = "altering"]
  /\ UNCHANGED <<rows, action, exclude, main, posted, queue, table, lost>>

CommitAlter(w) ==
  /\ job[w].phase = "altering"
  /\ table' = [table EXCEPT !.wide = TRUE]
  /\ job' = [job EXCEPT ![w].phase = "altered"]
  /\ UNCHANGED <<rows, action, exclude, main, posted, queue, lost>>

StartCopy(w) ==
  /\ \/ job[w].phase = "calculated" /\ ~NeedsWide(job[w].rows)
     \/ job[w].phase = "altered"
  /\ ~Locked(w)
  /\ job' = [job EXCEPT ![w].phase = "copying"]
  /\ UNCHANGED <<rows, action, exclude, main, posted, queue, table, lost>>

\* Mutant: every table is created anew by the job that writes first.
CommitCopyAlone(w) ==
  /\ job[w].phase = "copying" /\ Fits(job[w].rows)
  /\ table' = [table EXCEPT !.rows = [n \in {job[w].grid} |-> job[w].rows]]
  /\ job' = [job EXCEPT ![w] = Free]
  /\ UNCHANGED <<rows, action, exclude, main, posted, queue, lost>>

\* The rows are copied and committed.
CommitCopy(w) ==
  /\ job[w].phase = "copying" /\ Fits(job[w].rows)
  /\ table' = [table EXCEPT !.rows =
                 [n \in DOMAIN table.rows \cup {job[w].grid} |->
                    IF n = job[w].grid THEN job[w].rows ELSE table.rows[n]]]
  /\ job' = [job EXCEPT ![w] = Free]
  /\ UNCHANGED <<rows, action, exclude, main, posted, queue, lost>>

\* Mutant: the error is logged and the job goes on.
LoseAndGoOn(w, why) ==
  /\ lost' = [n \in DOMAIN lost \cup {job[w].grid} |->
                IF n = job[w].grid THEN why ELSE lost[n]]
  /\ UNCHANGED <<rows, action, exclude, main, posted, queue, table, job>>

\* An SQL error is logged and the grid has no rows.
Lose(w, why) ==
  /\ lost' = [n \in DOMAIN lost \cup {job[w].grid} |->
                IF n = job[w].grid THEN why ELSE lost[n]]
  /\ job' = [job EXCEPT ![w] = Free]
  /\ UNCHANGED <<rows, action, exclude, main, posted, queue, table>>

CopyOutOfRange(w) ==
  /\ job[w].phase = "copying" /\ ~Fits(job[w].rows)
  /\ Lose(w, "range")

Refused(w) ==
  /\ Faults /\ job[w].phase \in {"altering", "copying"}
  /\ Lose(w, "refused")

Work(w) ==
  \/ Take(w) \/ Overrun(w) \/ StartAlter(w) \/ CommitAlter(w) \/ StartCopy(w)
  \/ CommitCopy(w) \/ CopyOutOfRange(w)
Main == ResetTable \/ Post \/ EndWork \/ Join
Next == Main \/ ResetFails \/ \E w \in Workers : Work(w) \/ Disconnect(w) \/ Refused(w)

\* The threads run; nothing need fail.
Spec == Init /\ [][Next]_vars /\ WF_vars(Main) /\ \A w \in Workers : WF_vars(Work(w))

-------------------------------------------------------------------------------
(* Properties.                                                             *)

GridNumbers == 1..NumGrids
RowsType(f) ==
  /\ DOMAIN f \subseteq Nat
  /\ \A id \in DOMAIN f : DOMAIN f[id] = 0..max_R /\ \A t \in 0..max_R : f[id][t] \in Int

\* The rows of a grid are numbered by its squares, and jobs run only between the
\* posting and the joining of the main thread.
TypeOK ==
  /\ action \in Actions /\ exclude \in BOOLEAN
  /\ main \in {"reading", "posting", "joining", "finished", "dead"}
  /\ posted \in 0..NumGrids /\ queue \in Seq(GridNumbers)
  /\ \A w \in Workers :
       /\ job[w].phase \in {"free", "calculated", "altering", "altered", "copying"}
       /\ job[w].phase # "free" => /\ main \in {"posting", "joining"}
                                   /\ job[w].grid \in 1..posted /\ RowsType(job[w].rows)
  /\ table.wide \in BOOLEAN /\ DOMAIN table.rows \subseteq 1..posted
  /\ \A n \in DOMAIN table.rows : RowsType(table.rows[n]) /\ DOMAIN table.rows[n] \subseteq IdsOf(n)
  /\ DOMAIN lost \subseteq 1..posted

\* What the columns mean: where nothing is excluded, the radii up to t of a square
\* hold, together, the values of the grid's objects whose square ends within
\* t + 3/2 squares of its centre; a square without a row has none of them.
FarEnd(c, d) == LET x == Doubled(d[1] - c[1])  y == Doubled(d[2] - c[2]) IN x * x + y * y
Near(n, c, t) ==
  {i \in Coords(rows, Grids[n]) :
     FarEnd(c, SquareOf(Grids[n], rows[i].at)) < (2 * t + 3) * (2 * t + 3)}
Stored(n, id, t) == IF id \in DOMAIN table.rows[n] THEN table.rows[n][id][t] ELSE 0
RingsAreDistances ==
  action = "sum" /\ ~exclude =>
    \A n \in DOMAIN table.rows : \A id \in IdsOf(n) : \A t \in 0..max_R :
      MapThenSumSet(LAMBDA u : Stored(n, id, u), 0..t) = TotalOf(Near(n, Cells[n][id], t))

\* When "All jobs are finished" is logged after the jobs were posted, each grid
\* has its rows or an error was logged for it, and not both.
GridsAccounted ==
  main = "finished" /\ posted = NumGrids /\ Workers # {} =>
    \A n \in GridNumbers : (n \in DOMAIN table.rows) # (n \in DOMAIN lost)

\* However the jobs widen the columns for each other, no grid of sums is lost
\* because a value is out of the range of its column.
SumsFit == action = "sum" => \A n \in DOMAIN lost : lost[n] # "range"

\* No job undoes what another has committed.
RowsStay ==
  [][main # "reading" =>
       /\ table.wide => table'.wide
       /\ \A n \in DOMAIN table.rows :
            n \in DOMAIN table'.rows /\ table'.rows[n] = table.rows[n]]_vars

\* Jobs that wait for the table do not wait for each other: the calculation ends.
CalculationEnds == <>(main \in {"finished", "dead"})

\* What is promised of the calculation, whatever its threads do.  Without a thread
\* the grids are neither calculated nor logged.
Progress == CASE main = "reading" -> "asked"
              [] main \in {"posting", "joining"} -> "running"
              [] main = "finished" -> "ended"
              [] main = "dead" -> "dead"
Promise == INSTANCE RadiiPromise WITH
  Numbers <- GridNumbers, phase <- Progress, written <- table.rows, missing <- DOMAIN lost
PromiseIsKept == Promise!Spec

\* --exclude_most_common, "If set, do not count most common square": where one
\* point has more objects than any other in the grid, they are left out and
\* nothing else is.
MostCommonExcluded ==
  exclude => \A w \in Workers : job[w].phase # "free" =>
    LET S == Coords(rows, Grids[job[w].grid]) IN
    \A i \in S :
      (\A k \in S : \/ rows[k].at = rows[i].at
                   \/ Cardinality(Group(rows, S, k)) < Cardinality(Group(rows, S, i)))
        => job[w].kept = S \ Group(rows, S, i)

===============================================================================
