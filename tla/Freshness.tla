------------------------------- MODULE Freshness -------------------------------
(***************************************************************************)
(* Keeping a category of radii fresh (Radii.check_recency of               *)
(* pyradii/radii_calculations.py).                                         *)
(*                                                                         *)
(* A check compares the date of the objects with the last date that the    *)
(* log says has been calculated.  If they differ, it runs the driver,      *)
(* logs the outcome and sums the radii into the table of the category.     *)
(* The program may be stopped; a driver it has started goes on.            *)
(***************************************************************************)
EXTENDS Drivers, FiniteSetsExt

CONSTANTS
  Checks,     \* the driver that each check would start, in their order
  Category,   \* the table of radii of the category
  ByHand,     \* whether the category is one of those never calculated here
  Recalc      \* the checks that are to recalculate in any case

ASSUME FreshnessAssumption ==
  /\ Checks \in Seq(Programs) /\ Category \in Tables
  /\ ByHand \in BOOLEAN /\ Recalc \subseteq Programs
  /\ \A i \in DOMAIN Checks :
       /\ Command[Checks[i]].program = "calculate_radii"
       /\ Command[Checks[i]].table = Category

VARIABLES
  check,    \* [at, next, date]: the program, how many checks it has begun
  log,      \* logs.radii_calculations_log: the rows with done = True
  sums      \* the table of sums: what it was made from
freshness == <<check, log, sums>>

NoSums == [born |-> 0, rows |-> NoRowsYet]

FreshnessInit ==
  /\ check = [at |-> "idle", begun |-> 0, date |-> 0]
  /\ log = IF Category \in OldTables THEN {[date |-> 1, by |-> "before"]} ELSE {}
  /\ sums = IF Category \in OldTables THEN Old ELSE NoSums

Driver == Checks[check.begun]

Calculated == Max({0} \cup {row.date : row \in log})

\* check_recency reads the log, then the date of the objects.
Check ==
  /\ check.at = "idle" /\ check.begun < Len(Checks)
  /\ check' = [check EXCEPT !.begun = @ + 1,
       !.at = IF ~ByHand /\ (assembled # Calculated \/ Checks[check.begun + 1] \in Recalc)
                THEN "dating" ELSE "idle"]
  /\ UNCHANGED <<log, sums, database, proc>>

\* calculate_radii reads the date that it will log; an error on the way is logged ...
Date ==
  /\ check.at = "dating"
  /\ \/ check' = [check EXCEPT !.at = "calling", !.date = assembled] /\ UNCHANGED faults
     \/ Fault /\ check' = [check EXCEPT !.at = "dropping"]
  /\ UNCHANGED <<log, sums, assembled, tables, readers, proc>>

\* ... and then has the driver query the objects.
Call ==
  /\ check.at = "calling"
  /\ Start(Driver)
  /\ check' = [check EXCEPT !.at = "waiting"]
  /\ UNCHANGED <<log, sums>>

\* Mutant: the date is read when the driver has ended.
AnswerDated ==
  /\ check.at = "waiting" /\ ~Running(Driver)
  /\ log' = IF At(Driver, "exited") /\ proc[Driver].code = 0
              THEN log \cup {[date |-> assembled, by |-> Driver]} ELSE log
  /\ check' = [check EXCEPT !.at = "dropping"]
  /\ UNCHANGED <<sums, database, proc>>

\* check_call raises for every other exit code, and an error is logged.
Answer ==
  /\ check.at = "waiting" /\ ~Running(Driver)
  /\ log' = IF At(Driver, "exited") /\ proc[Driver].code = 0
              THEN log \cup {[date |-> check.date, by |-> Driver]} ELSE log
  /\ check' = [check EXCEPT !.at = "dropping"]
  /\ UNCHANGED <<sums, database, proc>>

\* sum_radii follows in either case.  It drops the table of sums first, which
\* nothing catches if it is refused.
DropSums ==
  /\ check.at = "dropping"
  /\ \/ sums' = NoSums /\ check' = [check EXCEPT !.at = "summing"] /\ UNCHANGED faults
     \/ Fault /\ check' = [check EXCEPT !.at = "idle"] /\ UNCHANGED sums
  /\ UNCHANGED <<log, assembled, tables, readers, proc>>

\* SELECT ... INTO, or an error in the log.
Sum ==
  /\ check.at = "summing"
  /\ \/ /\ sums' = IF Exists(Category) THEN tables[Category] ELSE NoSums
        /\ UNCHANGED faults
     \/ Fault /\ UNCHANGED sums
  /\ check' = [check EXCEPT !.at = "idle"]
  /\ UNCHANGED <<log, assembled, tables, readers, proc>>

\* The program is stopped.
Stop ==
  /\ check.at # "idle" /\ Fault
  /\ check' = [check EXCEPT !.at = "idle"]
  /\ UNCHANGED <<log, sums, assembled, tables, readers, proc>>

FreshnessStep == Check \/ Date \/ Call \/ Answer \/ DropSums \/ Sum

-------------------------------------------------------------------------------
(* Properties.                                                             *)

\* What the log calls done is done: unless its driver has logged an error, or the
\* table has been created anew since, every grid has rows of objects at least as
\* new as the date in the log, which later checks rely on.
DoneIsDone ==
  \A row \in log : row.by # "before" /\ proc[row.by].errors = {} =>
    \/ tables[Category].born > proc[row.by].made[Category].born
    \/ \A g \in Grids : \E n \in tables[Category].rows[g] : n >= row.date
===============================================================================
