---------------------------- MODULE FreshnessProofs ----------------------------
(***************************************************************************)
(* What the drivers and the freshness check keep, whatever else happens to *)
(* the database.                                                           *)
(*                                                                         *)
(* The argument: while a driver works, each table it was asked for is      *)
(* still due, or settled: every grid of it has the rows this driver read,  *)
(* or an error, or a table that was created after this driver's.  Dates    *)
(* only grow, so that a driver that was started after the check took its   *)
(* date reads objects at least as new.                                     *)
(***************************************************************************)
EXTENDS Freshness, TLAPS

Phases == {"idle", "loading", "planning", "reading", "resetting", "pool", "exited", "aborted"}
Errors == (Tables \cup {NoTable}) \X (Grids \cup {AllGrids})
Made == [born : Nat, date : Nat]
ProgramStates ==
  [at : Phases, grids : SUBSET Grids, rubrics : Seq(STRING), todo : Seq(Tables), date : Nat,
   left : SUBSET Grids, errors : SUBSET Errors, made : [Tables -> Made], code : {0, 1}]
TableStates == [born : Nat, rows : [Grids -> SUBSET Dates]]

DriversTypeOK ==
  /\ assembled \in Dates
  /\ tables \in [Tables -> TableStates]
  /\ proc \in [Programs -> ProgramStates]

-------------------------------------------------------------------------------
(* The drivers' invariant.                                                 *)

Planned(d) == proc[d].at \in {"reading", "resetting", "pool"}
Succeeded(d) == At(d, "exited") /\ proc[d].code = 0

\* What is known of a program by where it is.
PhaseInv(d) ==
  /\ proc[d].at \in {"idle", "loading"} =>
       proc[d].left = {} /\ \A t \in Tables : proc[d].made[t].born = 0
  /\ proc[d].left \subseteq proc[d].grids
  /\ proc[d].at \in {"planning", "reading", "resetting", "pool"} =>
       proc[d].grids = Grids \/ <<NoTable, AllGrids>> \in proc[d].errors
  /\ proc[d].at \in {"resetting", "pool"} => Busy(d) /\ proc[d].date \in Dates
  /\ At(d, "pool") => /\ proc[d].made[Table(d)].born > 0
                      /\ proc[d].made[Table(d)].date = proc[d].date

\* No program has made a table that the database does not know of.
MadeInv(d) == \A t \in Tables : proc[d].made[t].born <= tables[t].born

\* A grid of a table needs nothing more.
Settled(d, t, g) ==
  \/ Logged(d, t, g)
  \/ /\ proc[d].made[t].born > 0
     /\ \/ tables[t].born > proc[d].made[t].born
        \/ proc[d].made[t].date \in tables[t].rows[g]

\* A table that the program will come to, or is at.
Due(d, t) ==
  \/ t \in ToSet(proc[d].todo)
  \/ \E r \in ToSet(proc[d].rubrics) : t \in ToSet(TopTables[r])

\* A program that will come to a rubric it cannot convert, and abort.
Doomed(d) == \E r \in ToSet(proc[d].rubrics) : r \notin DOMAIN Eng

CoverInv(d) ==
  /\ Planned(d) =>
       \/ Doomed(d)
       \/ /\ Asked(d) \subseteq Tables
          /\ \A t \in Asked(d) : Due(d, t) \/ \A g \in Grids : Settled(d, t, g)
  /\ At(d, "pool") => \A g \in Grids \ proc[d].left : Settled(d, Table(d), g)

\* Rows are in tables only.
RowsInv == \A t \in Tables : ~Exists(t) => tables[t].rows = NoRowsYet

LostInv(d) ==
  Succeeded(d) => /\ Asked(d) \subseteq Tables
                  /\ \A t \in Asked(d), g \in Grids : Settled(d, t, g)

ProgramInv(d) == PhaseInv(d) /\ MadeInv(d) /\ CoverInv(d) /\ LostInv(d)

\* The inductive invariant.
DriversInv ==
  /\ DriversTypeOK /\ RowsInv
  /\ \A d \in Programs : ProgramInv(d)

-------------------------------------------------------------------------------
(* The invariant of the freshness check.                                   *)

CheckTypeOK ==
  /\ check \in [at : {"idle", "dating", "calling", "waiting", "dropping", "summing"},
                begun : 0..Len(Checks), date : Nat]
  /\ check.at # "idle" => check.begun > 0

\* Since the check has taken its date, its driver has read no older objects.
DateInv ==
  /\ check.at \in {"calling", "waiting"} => check.date <= assembled
  /\ check.at = "waiting" =>
       /\ ~At(Driver, "idle")
       /\ proc[Driver].at \in {"resetting", "pool"} => proc[Driver].date >= check.date
       /\ \A t \in Tables : proc[Driver].made[t].born > 0 => proc[Driver].made[t].date >= check.date

\* What is logged has succeeded, with objects no older than the log says.
LogInv ==
  \A row \in log : row.by # "before" =>
    /\ row.by \in ToSet(Checks) /\ Succeeded(row.by) /\ row.date \in Nat
    /\ proc[row.by].made[Category].born > 0 => proc[row.by].made[Category].date >= row.date

FreshnessInv == CheckTypeOK /\ DateInv /\ LogInv

-------------------------------------------------------------------------------
(* What a step of a program keeps.                                         *)

\* Tables are created anew or gain rows.
TablesGrow ==
  \A t \in Tables :
    \/ tables'[t].born > tables[t].born
    \/ /\ tables'[t].born = tables[t].born
       /\ \A g \in Grids : tables[t].rows[g] \subseteq tables'[t].rows[g]

\* A program that works knows no older objects than it did, or than there are now.
DatesGrow(d) ==
  /\ Running(d) \/ At(d, "idle")
  /\ ~At(d, "idle")'
  /\ proc'[d].at \in {"resetting", "pool"} =>
       \/ proc'[d].date = assembled
       \/ proc[d].at \in {"resetting", "pool"} /\ proc'[d].date = proc[d].date
  /\ \A t \in Tables :
       \/ proc'[d].made[t] = proc[d].made[t]
       \/ At(d, "resetting") /\ proc'[d].made[t].date = proc[d].date

Keeps(d) ==
  /\ DriversTypeOK' /\ RowsInv' /\ TablesGrow /\ ProgramInv(d)' /\ DatesGrow(d)
  /\ \A e \in Programs \ {d} : proc'[e] = proc[e]

\* The members of a sequence are its head and those of its tail.
LEMMA ToSetOfTail ==
  ASSUME NEW S, NEW s \in Seq(S), s # <<>>
  PROVE  /\ Head(s) \in S /\ Tail(s) \in Seq(S)
         /\ ToSet(s) = {Head(s)} \cup ToSet(Tail(s))
<1>1. Len(s) \in Nat \ {0} /\ DOMAIN s = 1..Len(s)
  OBVIOUS
<1>2. /\ Head(s) = s[1] /\ Tail(s) \in Seq(S) /\ Len(Tail(s)) = Len(s) - 1
      /\ \A i \in 1..(Len(s) - 1) : Tail(s)[i] = s[i + 1]
  BY <1>1
<1>3. DOMAIN Tail(s) = 1..(Len(s) - 1)
  BY <1>2
<1>4. ASSUME NEW x \in ToSet(s)
      PROVE  x \in {Head(s)} \cup ToSet(Tail(s))
  <2>1. PICK i \in 1..Len(s) : x = s[i]
    BY <1>1, <1>4 DEF ToSet
  <2>2. CASE i = 1
    BY <1>2, <2>1, <2>2
  <2>3. CASE i # 1
    <3>1. i - 1 \in 1..(Len(s) - 1) /\ (i - 1) + 1 = i
      BY <1>1, <2>1, <2>3
    <3>2. x = Tail(s)[i - 1]
      BY <1>2, <2>1, <3>1
    <3> QED
      BY <1>3, <3>1, <3>2 DEF ToSet
  <2> QED
    BY <2>2, <2>3
<1>5. ASSUME NEW x \in {Head(s)} \cup ToSet(Tail(s))
      PROVE  x \in ToSet(s)
  <2>1. CASE x = Head(s)
    <3>1. 1 \in 1..Len(s)
      BY <1>1
    <3> QED
      BY <1>1, <1>2, <2>1, <3>1 DEF ToSet
  <2>2. CASE x \in ToSet(Tail(s))
    <3>1. PICK i \in 1..(Len(s) - 1) : x = Tail(s)[i]
      BY <1>3, <2>2 DEF ToSet
    <3>2. i + 1 \in 1..Len(s) /\ x = s[i + 1]
      BY <1>1, <1>2, <3>1
    <3> QED
      BY <1>1, <3>2 DEF ToSet
  <2> QED
    BY <1>5, <2>1, <2>2
<1> QED
  BY <1>1, <1>2, <1>4, <1>5

\* What is settled stays settled, whoever adds rows or creates the table anew.
LEMMA SettledStays ==
  ASSUME DriversTypeOK, DriversTypeOK', TablesGrow, NEW d \in Programs, NEW t \in Tables,
         MadeInv(d), proc'[d].made[t] = proc[d].made[t],
         proc[d].errors \subseteq proc'[d].errors, NEW g \in Grids, Settled(d, t, g)
  PROVE  Settled(d, t, g)'
<1>1. tables[t].born \in Nat /\ tables'[t].born \in Nat /\ proc[d].made[t].born \in Nat
  BY DEF DriversTypeOK, TableStates, ProgramStates, Made
<1>2. Logged(d, t, g) => Logged(d, t, g)'
  BY DEF Logged
<1>3. \/ tables'[t].born > tables[t].born
      \/ /\ tables'[t].born = tables[t].born
         /\ \A h \in Grids : tables[t].rows[h] \subseteq tables'[t].rows[h]
  BY DEF TablesGrow
<1>4. tables[t].born >= proc[d].made[t].born
  BY DEF MadeInv
<1> QED
  BY <1>1, <1>2, <1>3, <1>4 DEF Settled

\* A step of one program keeps what is known of the others.
LEMMA OthersKeep ==
  ASSUME DriversInv, NEW d \in Programs, Keeps(d)
  PROVE  DriversInv'
<1>1. DriversTypeOK /\ DriversTypeOK' /\ TablesGrow
  BY DEF DriversInv, Keeps
<1>2. ASSUME NEW e \in Programs \ {d}
      PROVE  ProgramInv(e)'
  <2>1. e \in Programs /\ proc'[e] = proc[e] /\ ProgramInv(e)
    BY DEF Keeps, DriversInv
  <2>2. ASSUME NEW t \in Tables, NEW g \in Grids, Settled(e, t, g)
        PROVE  Settled(e, t, g)'
    BY <1>1, <2>1, <2>2, SettledStays DEF ProgramInv
  <2>3. PhaseInv(e)'
    BY <2>1 DEF ProgramInv, PhaseInv, At, Busy, Table
  <2>4. MadeInv(e)'
    <3>1. ASSUME NEW t \in Tables
          PROVE  proc[e].made[t].born \in Nat /\ tables[t].born \in Nat /\ tables'[t].born \in Nat
      <4>1. tables[t] \in TableStates /\ tables'[t] \in TableStates
        BY <1>1 DEF DriversTypeOK
      <4>2. proc[e].made[t] \in Made
        BY <1>1, <2>1 DEF DriversTypeOK, ProgramStates
      <4> QED
        BY <4>1, <4>2 DEF TableStates, Made
    <3>2. \A t \in Tables : tables'[t].born >= tables[t].born
      BY <1>1, <3>1 DEF TablesGrow
    <3> QED
      BY <2>1, <3>1, <3>2 DEF ProgramInv, MadeInv
  <2>5. CoverInv(e)'
    <3>1. Planned(e)' => Planned(e) /\ (Doomed(e) => Doomed(e)')
      BY <2>1 DEF Planned, Doomed
    <3>2. Planned(e)' => \A t \in Asked(e) : Due(e, t) => Due(e, t)'
      BY <2>1 DEF Due
    <3>4. At(e, "pool")' => At(e, "pool") /\ Table(e) \in Tables /\ Table(e)' = Table(e)
      <4>1. proc[e].todo \in Seq(Tables)
        BY <1>1 DEF DriversTypeOK, ProgramStates
      <4>2. At(e, "pool") => proc[e].todo # <<>>
        BY <2>1 DEF ProgramInv, PhaseInv, Busy, At
      <4> QED
        BY <2>1, <4>1, <4>2, ToSetOfTail DEF At, Table
    <3> QED
      BY <2>1, <2>2, <3>1, <3>2, <3>4 DEF ProgramInv, CoverInv
  <2>6. LostInv(e)'
    BY <2>1, <2>2 DEF ProgramInv, LostInv, Succeeded, At
  <2> QED
    BY <2>3, <2>4, <2>5, <2>6 DEF ProgramInv
<1> QED
  BY <1>1, <1>2 DEF DriversInv, Keeps

LEMMA UpdateProgram ==
  ASSUME DriversTypeOK, NEW d \in Programs, NEW p \in ProgramStates,
         proc' = [proc EXCEPT ![d] = p]
  PROVE  /\ proc' \in [Programs -> ProgramStates] /\ proc'[d] = p
         /\ \A e \in Programs \ {d} : proc'[e] = proc[e]
BY DEF DriversTypeOK

\* A step that makes no table and fills none.
Quiet(d) ==
  /\ Running(d) \/ At(d, "idle")
  /\ proc' \in [Programs -> ProgramStates] /\ UNCHANGED <<assembled, tables>>
  /\ proc'[d].at # "idle" /\ proc'[d].made = proc[d].made
  /\ proc'[d].at \in {"resetting", "pool"} =>
       \/ proc'[d].date = assembled
       \/ proc[d].at \in {"resetting", "pool"} /\ proc'[d].date = proc[d].date
  /\ \A e \in Programs \ {d} : proc'[e] = proc[e]

LEMMA QuietKeeps ==
  ASSUME DriversInv, NEW d \in Programs, Quiet(d), ProgramInv(d)'
  PROVE  Keeps(d)
<1>1. assembled' = assembled /\ tables' = tables
  BY DEF Quiet
<1>2. DriversTypeOK' /\ RowsInv'
  BY <1>1 DEF Quiet, DriversInv, DriversTypeOK, RowsInv, Exists
<1>3. TablesGrow
  BY <1>1 DEF TablesGrow
<1>4. DatesGrow(d)
  BY DEF Quiet, DatesGrow, At
<1> QED
  BY <1>2, <1>3, <1>4 DEF Keeps, Quiet

\* A program that ends, otherwise than well, has nothing left to keep.
LEMMA EndingKeeps ==
  ASSUME DriversInv, NEW d \in Programs, Running(d) \/ At(d, "idle"),
         Abort(d) \/ Exit(d, 1), UNCHANGED <<assembled, tables>>
  PROVE  Keeps(d)
<1>1. DriversTypeOK /\ RowsInv /\ ProgramInv(d)
  BY DEF DriversInv
<1>2. /\ proc'[d].at \in {"exited", "aborted"} /\ (proc'[d].at = "exited" => proc'[d].code = 1)
      /\ proc'[d].made = proc[d].made /\ proc'[d].grids = proc[d].grids
      /\ proc'[d].left = proc[d].left /\ proc' \in [Programs -> ProgramStates]
      /\ \A e \in Programs \ {d} : proc'[e] = proc[e]
  <2> DEFINE p == [proc[d] EXCEPT !.at = "aborted"]
             q == [proc[d] EXCEPT !.at = "exited", !.code = 1]
  <2>1. proc[d] \in ProgramStates /\ proc \in [Programs -> ProgramStates]
    BY <1>1 DEF DriversTypeOK
  <2>2. p \in ProgramStates /\ q \in ProgramStates
    BY <2>1 DEF ProgramStates, Phases
  <2>3. proc' = [proc EXCEPT ![d] = p] \/ proc' = [proc EXCEPT ![d] = q]
    BY <2>1 DEF Abort, Exit, ProgramStates
  <2>4. /\ p.at = "aborted" /\ p.made = proc[d].made
        /\ p.grids = proc[d].grids /\ p.left = proc[d].left
        /\ q.at = "exited" /\ q.code = 1 /\ q.made = proc[d].made
        /\ q.grids = proc[d].grids /\ q.left = proc[d].left
    BY <2>1 DEF ProgramStates
  <2> HIDE DEF p, q
  <2> QED
    BY <1>1, <2>2, <2>3, <2>4, UpdateProgram
<1>3. ProgramInv(d)'
  BY <1>1, <1>2 DEF ProgramInv, PhaseInv, MadeInv, CoverInv, LostInv, Planned, Succeeded, At
<1> QED
  BY <1>2, <1>3, QuietKeeps DEF Quiet

\* A step that makes no table and fills none leaves settled what was.
LEMMA QuietSettled ==
  ASSUME DriversInv, NEW d \in Programs, Quiet(d), proc[d].errors \subseteq proc'[d].errors,
         NEW t \in Tables, NEW g \in Grids, Settled(d, t, g)
  PROVE  Settled(d, t, g)'
<1>1. proc'[d].made = proc[d].made /\ tables' = tables
  BY DEF Quiet
<1>2. Logged(d, t, g) => Logged(d, t, g)'
  BY DEF Logged
<1> QED
  BY <1>1, <1>2 DEF Settled

LEMMA StartKeeps ==
  ASSUME DriversInv, NEW d \in Programs, Start(d)
  PROVE  Keeps(d)
<1> DEFINE p == [proc[d] EXCEPT !.at = "loading"]
<1>1. DriversTypeOK /\ ProgramInv(d) /\ proc[d] \in ProgramStates
  BY DEF DriversInv, DriversTypeOK
<1>2. CASE ~Command[d].valid
  BY <1>2, EndingKeeps DEF Start
<1>3. CASE Command[d].valid
  <2>1. p \in ProgramStates /\ proc' = [proc EXCEPT ![d] = p]
    BY <1>1, <1>3 DEF Start, ProgramStates, Phases
  <2>2. p.at = "loading" /\ p.made = proc[d].made /\ p.grids = proc[d].grids /\ p.left = proc[d].left
    BY <1>1 DEF ProgramStates
  <2> HIDE DEF p
  <2>3. /\ proc' \in [Programs -> ProgramStates] /\ proc'[d] = p
        /\ \A e \in Programs \ {d} : proc'[e] = proc[e]
    BY <1>1, <2>1, UpdateProgram
  <2>4. ProgramInv(d)'
    BY <1>1, <2>2, <2>3
    DEF Start, ProgramInv, PhaseInv, MadeInv, CoverInv, LostInv, Planned, Succeeded, At
  <2> QED
    BY <2>2, <2>3, <2>4, QuietKeeps DEF Quiet, Start
<1> QED
  BY <1>2, <1>3

LEMMA LoadKeeps ==
  ASSUME DriversInv, NEW d \in Programs, Load(d)
  PROVE  Keeps(d)
<1>1. DriversTypeOK /\ ProgramInv(d) /\ proc[d] \in ProgramStates
  BY DEF DriversInv, DriversTypeOK
<1>2. PICK loaded \in {Grids, {}} :
        proc' = [proc EXCEPT ![d].at = "planning", ![d].grids = loaded,
                   ![d].errors = IF loaded = {} THEN {<<NoTable, AllGrids>>} ELSE {}]
  BY DEF Load
<1> DEFINE errors == IF loaded = {} THEN {<<NoTable, AllGrids>>} ELSE {}
           p == [proc[d] EXCEPT !.at = "planning", !.grids = loaded, !.errors = errors]
<1>3. loaded \in SUBSET Grids /\ errors \in SUBSET Errors
  BY DEF Errors
<1>4. p \in ProgramStates /\ proc' = [proc EXCEPT ![d] = p]
  <2> HIDE DEF errors
  <2>1. p \in ProgramStates
    BY <1>1, <1>3 DEF ProgramStates, Phases
  <2>2. proc' = [proc EXCEPT ![d] = p]
    BY <1>1, <1>2 DEF errors, ProgramStates, DriversTypeOK
  <2> QED
    BY <2>1, <2>2
<1>5. p.at = "planning" /\ p.made = proc[d].made /\ p.grids = loaded /\ p.errors = errors
  BY <1>1 DEF ProgramStates
<1> HIDE DEF p
<1>6. /\ proc' \in [Programs -> ProgramStates] /\ proc'[d] = p
      /\ \A e \in Programs \ {d} : proc'[e] = proc[e]
  BY <1>1, <1>4, UpdateProgram
<1>7. ProgramInv(d)'
  BY <1>1, <1>5, <1>6
  DEF Load, ProgramInv, PhaseInv, MadeInv, CoverInv, LostInv, Planned, Succeeded, At
<1> QED
  BY <1>5, <1>6, <1>7, QuietKeeps DEF Quiet, Load, At, Running

-------------------------------------------------------------------------------
(* The plans cover what the command lines ask for.                         *)

\* A program that has planned has made none of its tables.
LEMMA PlanKeeps ==
  ASSUME DriversInv, NEW d \in Programs, At(d, "planning"), UNCHANGED <<assembled, tables>>,
         NEW todo \in Seq(Tables), NEW rubrics \in Seq(STRING),
         proc' = [proc EXCEPT ![d] =
                    [proc[d] EXCEPT !.at = "reading", !.todo = todo, !.rubrics = rubrics]],
         \/ \E r \in ToSet(rubrics) : r \notin DOMAIN Eng
         \/ /\ Asked(d) \subseteq Tables
            /\ \A t \in Asked(d) :
                 t \in ToSet(todo) \/ \E r \in ToSet(rubrics) : t \in ToSet(TopTables[r])
  PROVE  Keeps(d)
<1> DEFINE p == [proc[d] EXCEPT !.at = "reading", !.todo = todo, !.rubrics = rubrics]
<1>1. DriversTypeOK /\ ProgramInv(d) /\ proc[d] \in ProgramStates
  BY DEF DriversInv, DriversTypeOK
<1>2. /\ p \in ProgramStates /\ proc' = [proc EXCEPT ![d] = p]
      /\ p.at = "reading" /\ p.made = proc[d].made /\ p.grids = proc[d].grids
      /\ p.errors = proc[d].errors /\ p.todo = todo /\ p.rubrics = rubrics
  BY <1>1 DEF ProgramStates, Phases
<1> HIDE DEF p
<1>3. /\ proc' \in [Programs -> ProgramStates] /\ proc'[d] = p
      /\ \A e \in Programs \ {d} : proc'[e] = proc[e]
  BY <1>1, <1>2, UpdateProgram
<1>4. PhaseInv(d)' /\ MadeInv(d)' /\ LostInv(d)'
  BY <1>1, <1>2, <1>3 DEF ProgramInv, PhaseInv, MadeInv, LostInv, Succeeded, At
<1>5. CoverInv(d)'
  BY <1>2, <1>3 DEF CoverInv, Planned, Doomed, Due, At
<1>6. ProgramInv(d)'
  BY <1>4, <1>5 DEF ProgramInv
<1> QED
  BY <1>2, <1>3, <1>6, QuietKeeps DEF Quiet, At, Running

LEMMA PlanOneKeeps ==
  ASSUME DriversInv, NEW d \in Programs, PlanOne(d)
  PROVE  Keeps(d)
<1> DEFINE t == Command[d].table
           p == [proc[d] EXCEPT !.at = "reading", !.todo = <<t>>, !.rubrics = proc[d].rubrics]
<1>1. proc[d] \in ProgramStates /\ proc \in [Programs -> ProgramStates]
  BY DEF DriversInv, DriversTypeOK
<1>2. Command[d].program \in ForOneTable /\ t \in Tables /\ Asked(d) = {t}
  BY CommandAssumption DEF PlanOne, ForOneTable, Asked
<1>3. <<t>> \in Seq(Tables) /\ ToSet(<<t>>) = {t} /\ proc[d].rubrics \in Seq(STRING)
  BY <1>1, <1>2 DEF ToSet, ProgramStates
<1>4. proc' = [proc EXCEPT ![d] = p]
  BY <1>1 DEF PlanOne, ProgramStates
<1>5. At(d, "planning") /\ UNCHANGED <<assembled, tables>>
  BY DEF PlanOne
<1> HIDE DEF t
<1> QED
  BY <1>2, <1>3, <1>4, <1>5, PlanKeeps

LEMMA PlanObjectsKeeps ==
  ASSUME DriversInv, NEW d \in Programs, PlanObjects(d)
  PROVE  Keeps(d)
<1> DEFINE b == Bound(d)
           l == Command[d].lbound
           todo == [i \in 1..(b - l) |-> Eng[Rubrics[l + i]]]
           p == [proc[d] EXCEPT !.at = "reading", !.todo = todo, !.rubrics = proc[d].rubrics]
<1>1. proc[d] \in ProgramStates /\ proc \in [Programs -> ProgramStates]
  BY DEF DriversInv, DriversTypeOK
<1>2. At(d, "planning") /\ UNCHANGED <<assembled, tables>>
  BY DEF PlanObjects
<1>3. CASE \E i \in DOMAIN Rubrics : Rubrics[i] \notin DOMAIN Eng
  BY <1>2, <1>3, EndingKeeps DEF PlanObjects, Running, At
<1>4. CASE \A i \in DOMAIN Rubrics : Rubrics[i] \in DOMAIN Eng
  <2>1. /\ Command[d].program = "calculate_radii_objects"
        /\ l \in Nat /\ Command[d].rbound \in Int
    BY CommandAssumption DEF PlanObjects, ForOneTable
  <2>2. Len(Rubrics) \in Nat /\ DOMAIN Rubrics = 1..Len(Rubrics)
    BY DriversAssumption
  <2>3. b \in Int /\ b <= Len(Rubrics)
        /\ \A k \in DOMAIN Rubrics :
             Command[d].rbound = -1 \/ k <= Command[d].rbound => k <= b
    BY <2>1, <2>2 DEF Bound
  <2>4. Asked(d) = {Eng[Rubrics[i]] : i \in {k \in DOMAIN Rubrics :
                      k > l /\ (Command[d].rbound = -1 \/ k <= Command[d].rbound)}}
    BY <2>1 DEF Asked, ForOneTable
  <2> HIDE DEF b, l
  <2>5. \A i \in DOMAIN Rubrics : Eng[Rubrics[i]] \in Tables
    BY <1>4, DriversAssumption
  <2>6. \A i \in 1..(b - l) : l + i \in DOMAIN Rubrics
    BY <2>1, <2>2, <2>3 DEF l
  <2>7. todo \in Seq(Tables) /\ DOMAIN todo = 1..(b - l)
    <3>1. CASE b - l \in Nat
      <4>1. todo \in [1..(b - l) -> Tables]
        BY <2>5, <2>6
      <4> QED
        BY <3>1, <4>1
    <3>2. CASE b - l \notin Nat
      <4>1. l \in Int
        BY <2>1 DEF l
      <4>2. 1..(b - l) = 1..0
        BY <2>3, <3>2, <4>1
      <4>3. todo \in [1..0 -> Tables]
        BY <4>2
      <4>4. [1..0 -> Tables] \subseteq Seq(Tables)
        OBVIOUS
      <4>5. DOMAIN todo = 1..(b - l)
        OBVIOUS
      <4> HIDE DEF todo
      <4> QED
        BY <4>3, <4>4, <4>5
    <3> QED
      BY <3>1, <3>2
  <2>8. Asked(d) \subseteq Tables
    BY <2>4, <2>5
  <2>9. ASSUME NEW t \in Asked(d)
        PROVE  t \in ToSet(todo)
    <3>1. PICK k \in DOMAIN Rubrics : k > l /\ k <= b /\ t = Eng[Rubrics[k]]
      BY <2>3, <2>4
    <3>2. k - l \in 1..(b - l) /\ l + (k - l) = k
      BY <2>1, <2>2, <2>3, <3>1 DEF l
    <3>3. todo[k - l] = t
      BY <3>1, <3>2
    <3> QED
      BY <2>7, <3>2, <3>3 DEF ToSet
  <2>10. proc' = [proc EXCEPT ![d] = p]
    BY <1>1, <1>4 DEF PlanObjects, ProgramStates, b, l
  <2>11. proc[d].rubrics \in Seq(STRING)
    BY <1>1 DEF ProgramStates
  <2> HIDE DEF todo
  <2> QED
    BY <1>2, <2>7, <2>8, <2>9, <2>10, <2>11, PlanKeeps
<1> QED
  BY <1>3, <1>4

LEMMA PlanBrandsKeeps ==
  ASSUME DriversInv, NEW d \in Programs, PlanBrands(d)
  PROVE  Keeps(d)
<1> DEFINE both == Command[d].list \o Command[d].file
           p == [proc[d] EXCEPT !.at = "reading", !.todo = proc[d].todo, !.rubrics = both]
<1>1. proc[d] \in ProgramStates /\ proc \in [Programs -> ProgramStates]
  BY DEF DriversInv, DriversTypeOK
<1>2. At(d, "planning") /\ UNCHANGED <<assembled, tables>>
  BY DEF PlanBrands
<1>3. CASE both = <<>> \/ (Command[d].list # <<>> /\ Command[d].given)
  BY <1>2, <1>3, EndingKeeps DEF PlanBrands, Running, At
<1>4. CASE ~(both = <<>> \/ (Command[d].list # <<>> /\ Command[d].given))
  <2>1. Command[d].program = "calculate_brands" /\ both \in Seq(STRING)
    BY CommandAssumption DEF PlanBrands, ForOneTable
  <2>2. Asked(d) = UNION {ToSet(TopTables[r]) : r \in ToSet(both)}
    BY <2>1 DEF Asked, ForOneTable
  <2>3. proc' = [proc EXCEPT ![d] = p]
    BY <1>1, <1>4 DEF PlanBrands, ProgramStates
  <2>4. proc[d].todo \in Seq(Tables)
    BY <1>1 DEF ProgramStates
  <2> HIDE DEF both
  <2>5. CASE \A r \in ToSet(both) : r \in DOMAIN Eng
    <3>1. \A r \in ToSet(both) : TopTables[r] \in Seq(Tables)
      BY <2>5, DriversAssumption
    <3>2. Asked(d) \subseteq Tables
      BY <2>2, <3>1 DEF ToSet
    <3> QED
      BY <1>2, <2>1, <2>2, <2>3, <2>4, <3>2, PlanKeeps
  <2>6. CASE \E r \in ToSet(both) : r \notin DOMAIN Eng
    BY <1>2, <2>1, <2>3, <2>4, <2>6, PlanKeeps
  <2> QED
    BY <2>5, <2>6
<1> QED
  BY <1>3, <1>4

LEMMA NameBrandsKeeps ==
  ASSUME DriversInv, NEW d \in Programs, NameBrands(d)
  PROVE  Keeps(d)
<1> DEFINE rubric == Head(proc[d].rubrics)
           p == [proc[d] EXCEPT !.rubrics = Tail(proc[d].rubrics), !.todo = TopTables[rubric]]
<1>1. DriversTypeOK /\ ProgramInv(d) /\ proc[d] \in ProgramStates
  BY DEF DriversInv, DriversTypeOK
<1>2. At(d, "reading") /\ proc[d].todo = <<>> /\ UNCHANGED <<assembled, tables>>
  BY DEF NameBrands
<1>3. /\ rubric \in STRING /\ Tail(proc[d].rubrics) \in Seq(STRING)
      /\ ToSet(proc[d].rubrics) = {rubric} \cup ToSet(Tail(proc[d].rubrics))
  <2>1. proc[d].rubrics \in Seq(STRING) /\ proc[d].rubrics # <<>>
    BY <1>1 DEF NameBrands, ProgramStates
  <2> QED
    BY <2>1, ToSetOfTail
<1>4. CASE rubric \notin DOMAIN Eng
  BY <1>2, <1>4, EndingKeeps DEF NameBrands, Running, At
<1>5. CASE rubric \in DOMAIN Eng
  <2>1. TopTables[rubric] \in Seq(Tables)
    BY <1>5, DriversAssumption
  <2>2. proc' = [proc EXCEPT ![d] = p]
    BY <1>1, <1>5 DEF NameBrands, ProgramStates, DriversTypeOK
  <2>3. /\ p \in ProgramStates /\ p.at = proc[d].at /\ p.made = proc[d].made
        /\ p.grids = proc[d].grids /\ p.left = proc[d].left /\ p.errors = proc[d].errors
        /\ p.rubrics = Tail(proc[d].rubrics) /\ p.todo = TopTables[rubric]
    BY <1>1, <1>3, <2>1 DEF ProgramStates
  <2> HIDE DEF p, rubric
  <2>4. /\ proc' \in [Programs -> ProgramStates] /\ proc'[d] = p
        /\ \A e \in Programs \ {d} : proc'[e] = proc[e]
    BY <1>1, <2>2, <2>3, UpdateProgram
  <2>5. Quiet(d)
    BY <1>2, <2>3, <2>4 DEF Quiet, Running, At
  <2>6. PhaseInv(d)' /\ MadeInv(d)' /\ LostInv(d)'
    BY <1>1, <1>2, <2>3, <2>4 DEF ProgramInv, PhaseInv, MadeInv, LostInv, Succeeded, At
  <2>7. CoverInv(d)'
    <3>1. ToSet(proc[d].todo) = {}
      BY <1>2 DEF ToSet
    <3>2. Doomed(d) => Doomed(d)'
      BY <1>3, <1>5, <2>3, <2>4 DEF Doomed
    <3>3. \A t \in Asked(d) : Due(d, t) => Due(d, t)'
      BY <1>3, <2>3, <2>4, <3>1 DEF Due
    <3>4. \A t \in Tables, g \in Grids : Settled(d, t, g) => Settled(d, t, g)'
      BY <2>3, <2>4, <2>5, QuietSettled
    <3>5. Planned(d) /\ CoverInv(d) /\ ~At(d, "pool")'
      BY <1>1, <1>2, <2>3, <2>4 DEF Planned, ProgramInv, At
    <3> QED
      BY <3>2, <3>3, <3>4, <3>5 DEF CoverInv
  <2> QED
    BY <2>5, <2>6, <2>7, QuietKeeps DEF ProgramInv
<1> QED
  BY <1>4, <1>5

-------------------------------------------------------------------------------
(* Tables, one after the other.                                            *)

LEMMA BusyTable ==
  ASSUME DriversTypeOK, NEW d \in Programs, Busy(d)
  PROVE  /\ Table(d) \in Tables /\ Tail(proc[d].todo) \in Seq(Tables)
         /\ ToSet(proc[d].todo) = {Table(d)} \cup ToSet(Tail(proc[d].todo))
<1>1. proc[d].todo \in Seq(Tables) /\ proc[d].todo # <<>>
  BY DEF DriversTypeOK, ProgramStates, Busy
<1> QED
  BY <1>1, ToSetOfTail DEF Table

LEMMA ReadKeeps ==
  ASSUME DriversInv, NEW d \in Programs, Read(d)
  PROVE  Keeps(d)
<1> DEFINE p == [proc[d] EXCEPT !.at = "resetting", !.date = assembled]
<1>1. DriversTypeOK /\ ProgramInv(d) /\ proc[d] \in ProgramStates
  BY DEF DriversInv, DriversTypeOK
<1>2. At(d, "reading") /\ Busy(d) /\ UNCHANGED <<assembled, tables>>
  BY DEF Read
<1>3. assembled \in Dates /\ assembled \in Nat
  BY <1>1 DEF DriversTypeOK, Dates
<1>4. /\ p \in ProgramStates /\ proc' = [proc EXCEPT ![d] = p]
      /\ p.at = "resetting" /\ p.made = proc[d].made /\ p.grids = proc[d].grids
      /\ p.errors = proc[d].errors /\ p.todo = proc[d].todo /\ p.rubrics = proc[d].rubrics
      /\ p.left = proc[d].left /\ p.date = assembled
  BY <1>1, <1>3 DEF Read, ProgramStates, Phases, DriversTypeOK
<1> HIDE DEF p
<1>5. /\ proc' \in [Programs -> ProgramStates] /\ proc'[d] = p
      /\ \A e \in Programs \ {d} : proc'[e] = proc[e]
  BY <1>1, <1>4, UpdateProgram
<1>6. Quiet(d)
  BY <1>2, <1>4, <1>5 DEF Quiet, Running, At
<1>7. PhaseInv(d)' /\ MadeInv(d)' /\ LostInv(d)'
  BY <1>1, <1>2, <1>3, <1>4, <1>5
  DEF ProgramInv, PhaseInv, MadeInv, LostInv, Succeeded, At, Busy
<1>8. CoverInv(d)'
  <2>1. Doomed(d) => Doomed(d)'
    BY <1>4, <1>5 DEF Doomed
  <2>2. \A t \in Asked(d) : Due(d, t) => Due(d, t)'
    BY <1>4, <1>5 DEF Due
  <2>3. \A t \in Tables, g \in Grids : Settled(d, t, g) => Settled(d, t, g)'
    BY <1>4, <1>5, <1>6, QuietSettled
  <2>4. Planned(d) /\ CoverInv(d) /\ ~At(d, "pool")'
    BY <1>1, <1>2, <1>4, <1>5 DEF Planned, ProgramInv, At
  <2> QED
    BY <2>1, <2>2, <2>3, <2>4 DEF CoverInv
<1> QED
  BY <1>6, <1>7, <1>8, QuietKeeps DEF ProgramInv

\* A table that has been tried: it is not due any more, and all its grids are settled.
LEMMA NextTableKeeps ==
  ASSUME DriversInv, NEW d \in Programs, Busy(d), Planned(d), UNCHANGED <<assembled, tables>>,
         NEW errors \in SUBSET Errors, proc[d].errors \subseteq errors,
         proc' = [proc EXCEPT ![d] =
                    [proc[d] EXCEPT !.at = "reading", !.todo = Tail(proc[d].todo),
                                    !.errors = errors]],
         \A g \in Grids : Settled(d, Table(d), g) \/ <<Table(d), AllGrids>> \in errors
  PROVE  Keeps(d)
<1> DEFINE p == [proc[d] EXCEPT !.at = "reading", !.todo = Tail(proc[d].todo), !.errors = errors]
<1>1. DriversTypeOK /\ ProgramInv(d) /\ proc[d] \in ProgramStates
  BY DEF DriversInv, DriversTypeOK
<1>2. /\ Table(d) \in Tables /\ Tail(proc[d].todo) \in Seq(Tables)
      /\ ToSet(proc[d].todo) = {Table(d)} \cup ToSet(Tail(proc[d].todo))
  BY <1>1, BusyTable
<1>3. /\ p \in ProgramStates /\ proc' = [proc EXCEPT ![d] = p]
      /\ p.at = "reading" /\ p.made = proc[d].made /\ p.grids = proc[d].grids
      /\ p.errors = errors /\ p.todo = Tail(proc[d].todo) /\ p.rubrics = proc[d].rubrics
  BY <1>1, <1>2 DEF ProgramStates, Phases
<1> HIDE DEF p
<1>4. /\ proc' \in [Programs -> ProgramStates] /\ proc'[d] = p
      /\ \A e \in Programs \ {d} : proc'[e] = proc[e]
  BY <1>1, <1>3, UpdateProgram
<1>5. Quiet(d)
  BY <1>3, <1>4 DEF Quiet, Planned, Running, At
<1>6. PhaseInv(d)' /\ MadeInv(d)' /\ LostInv(d)'
  BY <1>1, <1>3, <1>4
  DEF ProgramInv, PhaseInv, MadeInv, LostInv, Succeeded, At, Planned
<1>7. CoverInv(d)'
  <2>1. Doomed(d) => Doomed(d)'
    BY <1>3, <1>4 DEF Doomed
  <2>2. \A t \in Asked(d) : Due(d, t) => Due(d, t)' \/ t = Table(d)
    BY <1>2, <1>3, <1>4 DEF Due
  <2>3. \A t \in Tables, g \in Grids : Settled(d, t, g) => Settled(d, t, g)'
    BY <1>3, <1>4, <1>5, QuietSettled
  <2>4. ASSUME NEW t \in Tables, t = Table(d), NEW g \in Grids
        PROVE  Settled(d, t, g)'
    <3>1. <<t, AllGrids>> \in errors => Settled(d, t, g)'
      BY <1>3, <1>4 DEF Settled, Logged
    <3> QED
      BY <2>3, <2>4, <3>1
  <2>5. CoverInv(d) /\ ~At(d, "pool")'
    BY <1>1, <1>3, <1>4 DEF ProgramInv, At
  <2> QED
    BY <2>1, <2>2, <2>3, <2>4, <2>5 DEF CoverInv
<1> QED
  BY <1>5, <1>6, <1>7, QuietKeeps DEF ProgramInv

LEMMA TableRefusedKeeps ==
  ASSUME DriversInv, NEW d \in Programs, TableRefused(d)
  PROVE  Keeps(d)
<1> DEFINE errors == Log(d, Table(d), AllGrids)
           p == [proc[d] EXCEPT !.at = "reading", !.todo = Tail(proc[d].todo), !.errors = errors]
<1>1. DriversTypeOK /\ proc[d] \in ProgramStates /\ proc \in [Programs -> ProgramStates]
  BY DEF DriversInv, DriversTypeOK
<1>2. Busy(d) /\ Planned(d) /\ UNCHANGED <<assembled, tables>>
  BY DEF TableRefused, Planned, At
<1>3. Table(d) \in Tables
  BY <1>1, <1>2, BusyTable
<1>4. /\ errors \in SUBSET Errors /\ proc[d].errors \subseteq errors
      /\ <<Table(d), AllGrids>> \in errors
  BY <1>1, <1>3 DEF Log, Errors, ProgramStates
<1>5. proc' = [proc EXCEPT ![d] = p]
  BY <1>1 DEF TableRefused, ProgramStates
<1> HIDE DEF errors
<1> QED
  BY <1>2, <1>4, <1>5, NextTableKeeps

LEMMA JoinKeeps ==
  ASSUME DriversInv, NEW d \in Programs, Join(d)
  PROVE  Keeps(d)
<1> DEFINE errors == proc[d].errors
           p == [proc[d] EXCEPT !.at = "reading", !.todo = Tail(proc[d].todo), !.errors = errors]
<1>1. /\ DriversTypeOK /\ ProgramInv(d)
      /\ proc[d] \in ProgramStates /\ proc \in [Programs -> ProgramStates]
  BY DEF DriversInv, DriversTypeOK
<1>2. Busy(d) /\ Planned(d) /\ UNCHANGED <<assembled, tables>>
  BY <1>1 DEF Join, Planned, At, ProgramInv, PhaseInv
<1>3. \A g \in Grids : Settled(d, Table(d), g)
  BY <1>1 DEF Join, ProgramInv, CoverInv
<1>4. proc' = [proc EXCEPT ![d] = p]
  BY <1>1 DEF Join, ProgramStates
<1>5. errors \in SUBSET Errors
  BY <1>1 DEF ProgramStates
<1> HIDE DEF errors
<1>6. proc[d].errors \subseteq errors
  BY DEF errors
<1> QED
  BY <1>2, <1>3, <1>4, <1>5, <1>6, NextTableKeeps

LEMMA ResetKeeps ==
  ASSUME DriversInv, NEW d \in Programs, Reset(d)
  PROVE  Keeps(d)
<1> DEFINE t == Table(d)
           n == tables[t].born + 1
           made == [proc[d].made EXCEPT ![t] = [born |-> n, date |-> proc[d].date]]
           p == [proc[d] EXCEPT !.at = "pool", !.left = proc[d].grids, !.made = made]
<1>1. DriversTypeOK /\ ProgramInv(d) /\ proc[d] \in ProgramStates
  BY DEF DriversInv, DriversTypeOK
<1>2. At(d, "resetting") /\ Busy(d) /\ Planned(d) /\ assembled' = assembled
  BY <1>1 DEF Reset, ProgramInv, PhaseInv, At, Planned
<1>3. t \in Tables /\ t \in ToSet(proc[d].todo)
  BY <1>1, <1>2, BusyTable
<1>4. tables[t].born \in Nat /\ n \in Nat /\ n > tables[t].born /\ n > 0
  BY <1>1, <1>3 DEF DriversTypeOK, TableStates
<1>5. NoRowsYet \in [Grids -> SUBSET Dates]
  BY DEF NoRowsYet
<1>6. /\ tables' \in [Tables -> TableStates] /\ tables'[t] = [born |-> n, rows |-> NoRowsYet]
      /\ \A u \in Tables \ {t} : tables'[u] = tables[u]
  <2> HIDE DEF n
  <2>1. [born |-> n, rows |-> NoRowsYet] \in TableStates
    BY <1>4, <1>5 DEF TableStates
  <2>2. tables' = [tables EXCEPT ![t] = [born |-> n, rows |-> NoRowsYet]]
    BY DEF Reset, n
  <2> QED
    BY <1>1, <1>3, <2>1, <2>2 DEF DriversTypeOK
<1>7. /\ made \in [Tables -> Made] /\ made[t] = [born |-> n, date |-> proc[d].date]
      /\ \A u \in Tables \ {t} : made[u] = proc[d].made[u]
  <2>1. proc[d].made \in [Tables -> Made] /\ proc[d].date \in Nat
    BY <1>1 DEF ProgramStates
  <2> HIDE DEF n
  <2> QED
    BY <1>3, <1>4, <2>1 DEF Made
<1>8. proc' = [proc EXCEPT ![d] = p]
  BY <1>1, <1>3 DEF Reset, ProgramStates, DriversTypeOK
<1> HIDE DEF made, t, n
<1>9. /\ p \in ProgramStates /\ p.at = "pool" /\ p.made = made /\ p.grids = proc[d].grids
      /\ p.errors = proc[d].errors /\ p.todo = proc[d].todo /\ p.rubrics = proc[d].rubrics
      /\ p.date = proc[d].date /\ p.left = proc[d].grids
  BY <1>1, <1>7 DEF ProgramStates, Phases
<1> HIDE DEF p
<1>10. /\ proc' \in [Programs -> ProgramStates] /\ proc'[d] = p
       /\ \A e \in Programs \ {d} : proc'[e] = proc[e]
  BY <1>1, <1>8, <1>9, UpdateProgram
<1>11. DriversTypeOK'
  BY <1>1, <1>2, <1>6, <1>10 DEF DriversTypeOK
<1>12. RowsInv'
  <2>1. ASSUME NEW u \in Tables, ~(tables'[u].born > 0)
        PROVE  tables'[u].rows = NoRowsYet
    BY <1>4, <1>6, <2>1 DEF DriversInv, RowsInv, Exists
  <2> QED
    BY <2>1 DEF RowsInv, Exists
<1>13. TablesGrow
  BY <1>4, <1>6 DEF TablesGrow
<1>14. DatesGrow(d)
  BY <1>2, <1>7, <1>9, <1>10 DEF DatesGrow, At, Running
<1>15. Table(d)' = t
  BY <1>9, <1>10 DEF Table, t
<1>16. PhaseInv(d)'
  <2>1. /\ proc[d].grids = Grids \/ <<NoTable, AllGrids>> \in proc[d].errors
        /\ proc[d].date \in Dates
    BY <1>1, <1>2 DEF ProgramInv, PhaseInv, At
  <2>2. Busy(d)'
    BY <1>2, <1>9, <1>10 DEF Busy
  <2>3. made[t].born > 0 /\ made[t].date = proc[d].date
    BY <1>4, <1>7
  <2> QED
    BY <1>9, <1>10, <1>15, <2>1, <2>2, <2>3 DEF PhaseInv, At
<1>17. MadeInv(d)'
  <2>1. \A u \in Tables \ {t} : proc[d].made[u].born <= tables[u].born
    BY <1>1 DEF ProgramInv, MadeInv
  <2>2. \A u \in Tables : made[u].born <= tables'[u].born
    BY <1>4, <1>6, <1>7, <2>1
  <2> QED
    BY <1>9, <1>10, <2>2 DEF MadeInv
<1>18. CoverInv(d)'
  <2>1. ASSUME NEW u \in Tables \ {t}, NEW g \in Grids, Settled(d, u, g)
        PROVE  Settled(d, u, g)'
    BY <1>1, <1>7, <1>9, <1>10, <1>11, <1>13, <2>1, SettledStays DEF ProgramInv
  <2>2. Doomed(d) => Doomed(d)'
    BY <1>9, <1>10 DEF Doomed
  <2>3. \A u \in Asked(d) : Due(d, u) => Due(d, u)'
    BY <1>9, <1>10 DEF Due
  <2>4. ASSUME NEW u \in Asked(d), Asked(d) \subseteq Tables,
               Due(d, u) \/ \A g \in Grids : Settled(d, u, g)
        PROVE  Due(d, u)' \/ \A g \in Grids : Settled(d, u, g)'
    <3>1. CASE u = t
      BY <1>3, <1>9, <1>10, <3>1 DEF Due
    <3>2. CASE u # t
      BY <2>1, <2>3, <2>4, <3>2
    <3> QED
      BY <3>1, <3>2
  <2>5. Planned(d)' => Doomed(d)' \/ /\ Asked(d) \subseteq Tables
                                     /\ \A u \in Asked(d) :
                                          Due(d, u)' \/ \A g \in Grids : Settled(d, u, g)'
    BY <1>1, <1>2, <2>2, <2>4 DEF ProgramInv, CoverInv
  <2>6. \A g \in Grids \ p.left : <<NoTable, AllGrids>> \in p.errors
    BY <1>1, <1>2, <1>9 DEF ProgramInv, PhaseInv, At
  <2>7. ASSUME NEW g \in Grids \ p.left, NEW u \in Tables
        PROVE  Settled(d, u, g)'
    BY <1>10, <2>6 DEF Settled, Logged
  <2> QED
    BY <1>3, <1>10, <1>15, <2>5, <2>7 DEF CoverInv
<1>19. LostInv(d)'
  BY <1>9, <1>10 DEF LostInv, Succeeded, At
<1> QED
  BY <1>10, <1>11, <1>12, <1>13, <1>14, <1>16, <1>17, <1>18, <1>19 DEF Keeps, ProgramInv

\* In the pool: the table is not filled further than it was, but for one grid.
LEMMA PoolKeeps ==
  ASSUME DriversInv, NEW d \in Programs, At(d, "pool"), NEW g \in proc[d].left,
         NEW errors \in SUBSET Errors, proc[d].errors \subseteq errors,
         proc' = [proc EXCEPT ![d] = [proc[d] EXCEPT !.left = @ \ {g}, !.errors = errors]],
         DriversTypeOK', RowsInv', TablesGrow, \A t \in {Table(d)} : Settled(d, t, g)'
  PROVE  Keeps(d)
<1> DEFINE p == [proc[d] EXCEPT !.left = @ \ {g}, !.errors = errors]
<1>1. DriversTypeOK /\ ProgramInv(d) /\ proc[d] \in ProgramStates /\ Planned(d)
  BY DEF DriversInv, DriversTypeOK, Planned, At
<1>2. /\ p \in ProgramStates /\ p.at = "pool" /\ p.made = proc[d].made
      /\ p.grids = proc[d].grids /\ p.errors = errors /\ p.todo = proc[d].todo
      /\ p.rubrics = proc[d].rubrics /\ p.date = proc[d].date /\ p.left = proc[d].left \ {g}
  BY <1>1 DEF ProgramStates, At
<1> HIDE DEF p
<1>3. /\ proc' \in [Programs -> ProgramStates] /\ proc'[d] = p
      /\ \A e \in Programs \ {d} : proc'[e] = proc[e]
  BY <1>1, <1>2, UpdateProgram DEF p
<1>4. Table(d)' = Table(d) /\ Table(d) \in Tables
  BY <1>1, <1>2, <1>3, BusyTable DEF Table, ProgramInv, PhaseInv, At
<1>5. PhaseInv(d)'
  <2>1. Busy(d)'
    BY <1>1, <1>2, <1>3 DEF Busy, ProgramInv, PhaseInv, At
  <2> QED
    BY <1>1, <1>2, <1>3, <1>4, <2>1 DEF ProgramInv, PhaseInv, At
<1>6. MadeInv(d)'
  <2>1. ASSUME NEW t \in Tables
        PROVE  /\ proc[d].made[t].born \in Nat /\ tables[t].born \in Nat
               /\ tables'[t].born \in Nat
    BY <1>1 DEF DriversTypeOK, TableStates, ProgramStates, Made
  <2>2. \A t \in Tables : tables'[t].born >= tables[t].born
    BY <2>1 DEF TablesGrow
  <2> QED
    BY <1>1, <1>2, <1>3, <2>1, <2>2 DEF ProgramInv, MadeInv
<1>7. CoverInv(d)'
  <2>1. Doomed(d) => Doomed(d)'
    BY <1>2, <1>3 DEF Doomed
  <2>2. \A t \in Asked(d) : Due(d, t) => Due(d, t)'
    BY <1>2, <1>3 DEF Due
  <2>3. \A t \in Tables, h \in Grids : Settled(d, t, h) => Settled(d, t, h)'
    BY <1>1, <1>2, <1>3, SettledStays DEF ProgramInv
  <2>4. ASSUME NEW h \in Grids \ p.left, NEW t \in Tables, t = Table(d)
        PROVE  Settled(d, t, h)'
    <3>1. CASE h = g
      BY <2>4, <3>1
    <3>2. CASE h # g
      BY <1>1, <1>2, <2>3, <2>4, <3>2 DEF ProgramInv, CoverInv
    <3> QED
      BY <3>1, <3>2
  <2>5. CoverInv(d) /\ p = proc'[d]
    BY <1>1, <1>3 DEF ProgramInv
  <2> QED
    BY <1>1, <1>4, <2>1, <2>2, <2>3, <2>4, <2>5 DEF CoverInv
<1>8. LostInv(d)' /\ DatesGrow(d)
  BY <1>2, <1>3 DEF LostInv, Succeeded, DatesGrow, Running, At
<1> QED
  BY <1>3, <1>5, <1>6, <1>7, <1>8 DEF Keeps, ProgramInv

LEMMA CommitKeeps ==
  ASSUME DriversInv, NEW d \in Programs, NEW g \in Grids, Commit(d, g)
  PROVE  Keeps(d)
<1> DEFINE t == Table(d)
           rows == [tables[t].rows EXCEPT ![g] = @ \cup {proc[d].date}]
           errors == proc[d].errors
           p == [proc[d] EXCEPT !.left = @ \ {g}, !.errors = errors]
<1>1. /\ DriversTypeOK /\ RowsInv /\ ProgramInv(d) /\ PhaseInv(d)
      /\ proc[d] \in ProgramStates /\ proc \in [Programs -> ProgramStates]
  BY DEF DriversInv, DriversTypeOK, ProgramInv
<1>2. At(d, "pool") /\ g \in proc[d].left /\ Busy(d) /\ assembled' = assembled
  BY <1>1 DEF Commit, PhaseInv, At
<1>3. t \in Tables
  BY <1>1, <1>2, BusyTable
<1>4. /\ proc[d].made[t].born > 0 /\ proc[d].made[t].date = proc[d].date
      /\ proc[d].date \in Dates
  BY <1>1, <1>2 DEF PhaseInv, At
<1>5. tables[t].born \in Nat /\ tables[t].born > 0
  <2>1. proc[d].made[t].born \in Nat /\ tables[t].born \in Nat
    BY <1>1, <1>3 DEF DriversTypeOK, ProgramStates, Made, TableStates
  <2> QED
    BY <1>1, <1>3, <1>4, <2>1 DEF ProgramInv, MadeInv
<1>6. tables' = [tables EXCEPT ![t].rows[g] = @ \cup {proc[d].date}]
      /\ proc' = [proc EXCEPT ![d] = p]
  BY <1>1 DEF Commit, ProgramStates
<1> HIDE DEF t
<1>7. rows \in [Grids -> SUBSET Dates]
      /\ rows[g] = tables[t].rows[g] \cup {proc[d].date}
      /\ \A h \in Grids : tables[t].rows[h] \subseteq rows[h]
  <2>1. tables[t].rows \in [Grids -> SUBSET Dates]
    BY <1>1, <1>3 DEF DriversTypeOK, TableStates
  <2> QED
    BY <1>4, <2>1
<1>8. /\ tables' \in [Tables -> TableStates]
      /\ tables'[t] = [born |-> tables[t].born, rows |-> rows]
      /\ \A u \in Tables \ {t} : tables'[u] = tables[u]
  <2>1. tables[t] \in TableStates /\ tables \in [Tables -> TableStates]
    BY <1>1, <1>3 DEF DriversTypeOK
  <2>2. tables' = [tables EXCEPT ![t] = [born |-> tables[t].born, rows |-> rows]]
    <3>1. tables' = [tables EXCEPT ![t] = [tables[t] EXCEPT !.rows = rows]]
      BY <1>6
    <3> HIDE DEF rows
    <3>2. [tables[t] EXCEPT !.rows = rows] = [born |-> tables[t].born, rows |-> rows]
      BY <2>1 DEF TableStates
    <3> QED
      BY <3>1, <3>2
  <2>3. [born |-> tables[t].born, rows |-> rows] \in TableStates
    BY <1>5, <1>7 DEF TableStates
  <2> HIDE DEF rows
  <2> QED
    BY <1>3, <2>1, <2>2, <2>3
<1> HIDE DEF rows
<1>9. TablesGrow
  BY <1>7, <1>8 DEF TablesGrow
<1>10. RowsInv'
  <2>1. ASSUME NEW u \in Tables, ~(tables'[u].born > 0)
        PROVE  tables'[u].rows = NoRowsYet
    BY <1>1, <1>5, <1>8, <2>1 DEF RowsInv, Exists
  <2> QED
    BY <2>1 DEF RowsInv, Exists
<1>11. errors \in SUBSET Errors /\ proc[d].errors \subseteq errors /\ p \in ProgramStates
       /\ p.made = proc[d].made
  BY <1>1 DEF ProgramStates
<1>12. DriversTypeOK' /\ proc'[d].made = proc[d].made
  BY <1>1, <1>2, <1>6, <1>8, <1>11, UpdateProgram DEF DriversTypeOK
<1> HIDE DEF errors
<1>13. \A u \in {t} : Settled(d, u, g)'
  BY <1>4, <1>7, <1>8, <1>12 DEF Settled
<1> QED
  BY <1>2, <1>6, <1>9, <1>10, <1>11, <1>12, <1>13, PoolKeeps DEF t

LEMMA LoseKeeps ==
  ASSUME DriversInv, NEW d \in Programs, NEW g \in Grids, Lose(d, g)
  PROVE  Keeps(d)
<1> DEFINE errors == Log(d, Table(d), g)
           p == [proc[d] EXCEPT !.left = @ \ {g}, !.errors = errors]
<1>1. /\ DriversTypeOK /\ RowsInv /\ PhaseInv(d)
      /\ proc[d] \in ProgramStates /\ proc \in [Programs -> ProgramStates]
  BY DEF DriversInv, DriversTypeOK, ProgramInv
<1>2. At(d, "pool") /\ g \in proc[d].left /\ Busy(d) /\ UNCHANGED <<assembled, tables>>
  BY <1>1 DEF Lose, PhaseInv, At
<1>3. Table(d) \in Tables
  BY <1>1, <1>2, BusyTable
<1>4. /\ errors \in SUBSET Errors /\ proc[d].errors \subseteq errors
      /\ <<Table(d), g>> \in errors
  BY <1>1, <1>3 DEF Log, Errors, ProgramStates
<1>5. proc' = [proc EXCEPT ![d] = p]
  BY <1>1 DEF Lose, ProgramStates
<1> HIDE DEF errors
<1>6. p \in ProgramStates /\ p.errors = errors
  BY <1>1, <1>4 DEF ProgramStates
<1>7. DriversTypeOK' /\ proc'[d].errors = errors
  BY <1>1, <1>2, <1>5, <1>6, UpdateProgram DEF DriversTypeOK
<1>8. RowsInv' /\ TablesGrow
  BY <1>1, <1>2 DEF RowsInv, Exists, TablesGrow
<1>9. \A t \in {Table(d)} : Settled(d, t, g)'
  BY <1>4, <1>7 DEF Settled, Logged
<1> QED
  BY <1>2, <1>4, <1>5, <1>7, <1>8, <1>9, PoolKeeps

LEMMA FinishKeeps ==
  ASSUME DriversInv, NEW d \in Programs, Finish(d)
  PROVE  Keeps(d)
<1> DEFINE p == [proc[d] EXCEPT !.at = "exited", !.code = 0]
<1>1. DriversTypeOK /\ ProgramInv(d) /\ proc[d] \in ProgramStates
  BY DEF DriversInv, DriversTypeOK
<1>2. /\ At(d, "reading") /\ Planned(d) /\ proc[d].todo = <<>> /\ proc[d].rubrics = <<>>
      /\ UNCHANGED <<assembled, tables>>
  BY DEF Finish, Busy, Planned, At
<1>3. /\ p \in ProgramStates /\ proc' = [proc EXCEPT ![d] = p]
      /\ p.at = "exited" /\ p.made = proc[d].made /\ p.errors = proc[d].errors
      /\ p.grids = proc[d].grids /\ p.left = proc[d].left
  BY <1>1 DEF Finish, Exit, ProgramStates, Phases, DriversTypeOK
<1> HIDE DEF p
<1>4. /\ proc' \in [Programs -> ProgramStates] /\ proc'[d] = p
      /\ \A e \in Programs \ {d} : proc'[e] = proc[e]
  BY <1>1, <1>3, UpdateProgram
<1>5. Quiet(d)
  BY <1>2, <1>3, <1>4 DEF Quiet, Running, At
<1>6. PhaseInv(d)' /\ MadeInv(d)' /\ CoverInv(d)'
  BY <1>1, <1>2, <1>3, <1>4 DEF ProgramInv, PhaseInv, MadeInv, CoverInv, Planned, At
<1>7. LostInv(d)'
  <2>1. ToSet(proc[d].todo) = {} /\ ToSet(proc[d].rubrics) = {}
    BY <1>2 DEF ToSet
  <2>2. ~Doomed(d) /\ \A t \in Asked(d) : ~Due(d, t)
    BY <2>1 DEF Doomed, Due
  <2>3. \A t \in Tables, g \in Grids : Settled(d, t, g) => Settled(d, t, g)'
    BY <1>3, <1>4, <1>5, QuietSettled
  <2> QED
    BY <1>1, <1>2, <2>2, <2>3 DEF ProgramInv, CoverInv, LostInv
<1> QED
  BY <1>5, <1>6, <1>7, QuietKeeps DEF ProgramInv

\* Whatever a program does.
LEMMA ProgramKeeps ==
  ASSUME DriversInv, NEW d \in Programs, Start(d) \/ DriverStep(d) \/ DriverFails(d)
  PROVE  Keeps(d)
<1>1. CASE PlanRefused(d)
  BY <1>1, EndingKeeps DEF PlanRefused, Running, At
<1>2. CASE LoseConnection(d)
  BY <1>2, EndingKeeps DEF LoseConnection
<1> QED
  BY <1>1, <1>2, StartKeeps, LoadKeeps, PlanOneKeeps, PlanObjectsKeeps, PlanBrandsKeeps,
     NameBrandsKeeps, ReadKeeps, ResetKeeps, TableRefusedKeeps, CommitKeeps, LoseKeeps,
     JoinKeeps, FinishKeeps DEF DriverStep, DriverFails

\* The invariant holds at first.
LEMMA DriversStart ==
  ASSUME DatabaseInit, DriversInit
  PROVE  DriversInv
<1>1. 1 \in Dates
  BY DatabaseAssumption DEF Dates
<1>2. Missing \in TableStates /\ Old \in TableStates
  BY <1>1 DEF Missing, Old, NoRowsYet, TableStates
<1>3. <<>> \in Seq(STRING) /\ <<>> \in Seq(Tables)
  OBVIOUS
<1>4. Idle \in ProgramStates
  BY <1>3 DEF Idle, ProgramStates, Phases, Made
<1>5. DriversTypeOK
  BY <1>1, <1>2, <1>4 DEF DatabaseInit, DriversInit, DriversTypeOK
<1>6. RowsInv
  BY DEF DatabaseInit, RowsInv, Exists, Missing, Old
<1>7. ASSUME NEW d \in Programs
      PROVE  ProgramInv(d)
  <2>1. proc[d] = Idle
    BY DEF DriversInit
  <2>2. \A t \in Tables : Idle.made[t].born = 0 /\ tables[t].born \in Nat
    BY <1>5 DEF Idle, DriversTypeOK, TableStates
  <2>3. Idle.at = "idle" /\ Idle.grids = {} /\ Idle.left = {}
    BY DEF Idle
  <2> QED
    BY <2>1, <2>2, <2>3
    DEF ProgramInv, PhaseInv, MadeInv, CoverInv, LostInv, Planned, Succeeded, At
<1> QED
  BY <1>5, <1>6, <1>7 DEF DriversInv

\* The objects may be assembled anew at any time.
LEMMA AssembleKeepsPrograms ==
  ASSUME DriversInv, assembled' \in Dates, UNCHANGED <<tables, proc>>
  PROVE  DriversInv'
<1>1. DriversTypeOK' /\ RowsInv'
  BY DEF DriversInv, DriversTypeOK, RowsInv, Exists
<1>2. ASSUME NEW d \in Programs
      PROVE  ProgramInv(d)'
  <2>1. ProgramInv(d) /\ proc'[d] = proc[d] /\ tables' = tables
    BY DEF DriversInv
  <2>2. PhaseInv(d)' /\ MadeInv(d)'
    BY <2>1 DEF ProgramInv, PhaseInv, MadeInv, At, Busy, Table
  <2>3. CoverInv(d)' /\ LostInv(d)'
    BY <2>1 DEF ProgramInv, CoverInv, LostInv, Planned, Succeeded, Doomed, Due, Settled,
                Logged, At, Table
  <2> QED
    BY <2>2, <2>3 DEF ProgramInv
<1> QED
  BY <1>1, <1>2 DEF DriversInv

-------------------------------------------------------------------------------
(* The freshness check.                                                    *)

LEMMA DriverIsProgram ==
  ASSUME CheckTypeOK, check.at # "idle"
  PROVE  /\ Driver \in Programs /\ Driver \in ToSet(Checks)
         /\ Command[Driver].program = "calculate_radii" /\ Command[Driver].table = Category
<1>1. check.begun \in 1..Len(Checks)
  BY FreshnessAssumption DEF CheckTypeOK
<1>2. Checks \in Seq(Programs) /\ DOMAIN Checks = 1..Len(Checks)
  BY FreshnessAssumption
<1> QED
  BY <1>1, <1>2, FreshnessAssumption DEF Driver, ToSet

LEMMA FreshnessStarts ==
  ASSUME FreshnessInit
  PROVE  FreshnessInv
<1>1. Len(Checks) \in Nat
  BY FreshnessAssumption
<1>2. CheckTypeOK /\ DateInv
  BY <1>1 DEF FreshnessInit, CheckTypeOK, DateInv
<1>3. LogInv
  BY DEF FreshnessInit, LogInv
<1> QED
  BY <1>2, <1>3 DEF FreshnessInv

\* A step of a program takes nothing back that the check relies on.
LEMMA ProgramKeepsFreshness ==
  ASSUME DriversInv, FreshnessInv, NEW d \in Programs, Keeps(d),
         UNCHANGED <<assembled, check, log>>
  PROVE  FreshnessInv'
<1>1. DriversTypeOK /\ DatesGrow(d) /\ \A e \in Programs \ {d} : proc'[e] = proc[e]
  BY DEF DriversInv, Keeps
<1>2. CheckTypeOK'
  BY DEF FreshnessInv, CheckTypeOK
<1>3. DateInv'
  <2>1. CASE check.at # "waiting"
    BY <2>1 DEF FreshnessInv, DateInv
  <2>2. CASE check.at = "waiting"
    <3>1. Driver \in Programs /\ Driver' = Driver
      BY <2>2, DriverIsProgram DEF FreshnessInv, Driver
    <3>2. /\ check.date <= assembled /\ ~At(Driver, "idle")
          /\ proc[Driver].at \in {"resetting", "pool"} => proc[Driver].date >= check.date
          /\ \A t \in Tables : proc[Driver].made[t].born > 0 =>
                                 proc[Driver].made[t].date >= check.date
      BY <2>2 DEF FreshnessInv, DateInv
    <3>3. CASE d # Driver
      BY <1>1, <3>1, <3>2, <3>3 DEF DateInv, At
    <3>4. CASE d = Driver
      <4>1. proc'[d].at # "idle"
        BY <1>1 DEF DatesGrow, At
      <4>2. check.date \in Nat /\ assembled \in Nat /\ proc[d].date \in Nat
        BY <1>1 DEF FreshnessInv, CheckTypeOK, DriversTypeOK, Dates, ProgramStates
      <4>3. proc'[d].at \in {"resetting", "pool"} => proc'[d].date >= check.date
        BY <1>1, <3>2, <3>4, <4>2 DEF DatesGrow
      <4>4. ASSUME NEW t \in Tables, proc'[d].made[t].born > 0
            PROVE  proc'[d].made[t].date >= check.date
        BY <1>1, <3>2, <3>4, <4>2, <4>4 DEF DatesGrow, At
      <4> QED
        BY <3>1, <3>2, <3>4, <4>1, <4>3, <4>4 DEF DateInv, At
    <3> QED
      BY <3>3, <3>4
  <2> QED
    BY <2>1, <2>2
<1>4. LogInv'
  <2>1. ASSUME NEW row \in log, row.by # "before"
        PROVE  row.by \in Programs \ {d}
    <3>1. row.by \in ToSet(Checks) /\ Succeeded(row.by)
      BY <2>1 DEF FreshnessInv, LogInv
    <3>2. row.by \in Programs
      BY <3>1, FreshnessAssumption DEF ToSet
    <3> QED
      BY <1>1, <3>1, <3>2 DEF DatesGrow, Succeeded, Running, At
  <2> QED
    BY <1>1, <2>1 DEF FreshnessInv, LogInv, Succeeded, At
<1> QED
  BY <1>2, <1>3, <1>4 DEF FreshnessInv

\* The objects only get newer.
LEMMA AssembleKeepsFreshness ==
  ASSUME DriversInv, FreshnessInv, assembled' \in Dates, assembled' >= assembled,
         UNCHANGED <<check, log, proc>>
  PROVE  FreshnessInv'
<1>1. assembled \in Nat /\ assembled' \in Nat /\ check.date \in Nat
  BY DEF DriversInv, DriversTypeOK, Dates, FreshnessInv, CheckTypeOK
<1>2. CheckTypeOK' /\ LogInv'
  BY DEF FreshnessInv, CheckTypeOK, LogInv, Succeeded, At
<1>3. DateInv'
  BY <1>1 DEF FreshnessInv, DateInv, Driver, At
<1> QED
  BY <1>2, <1>3 DEF FreshnessInv

\* The check starts a program only in Call.
LEMMA CallKeeps ==
  ASSUME DriversInv, FreshnessInv, Call
  PROVE  DriversInv' /\ FreshnessInv'
<1>1. Driver \in Programs /\ Start(Driver) /\ check.at = "calling"
  BY DriverIsProgram DEF Call, FreshnessInv
<1>2. Keeps(Driver)
  BY <1>1, StartKeeps
<1>3. DriversTypeOK /\ ProgramInv(Driver) /\ At(Driver, "idle")
  BY <1>1 DEF DriversInv, Start
<1>4. proc'[Driver].at \in {"loading", "exited"} /\ proc'[Driver].made = proc[Driver].made
  <2>1. proc \in [Programs -> ProgramStates]
    BY <1>3 DEF DriversTypeOK
  <2> QED
    BY <1>1, <2>1 DEF Start, Exit, ProgramStates
<1>5. check' = [check EXCEPT !.at = "waiting"] /\ log' = log /\ assembled' = assembled
  BY <1>1 DEF Call, Start
<1>6. CheckTypeOK' /\ Driver' = Driver /\ check'.date = check.date /\ check'.at = "waiting"
  BY <1>1, <1>5 DEF FreshnessInv, CheckTypeOK, Driver
<1>7. DateInv'
  <2>1. \A t \in Tables : proc'[Driver].made[t].born = 0
    BY <1>3, <1>4 DEF ProgramInv, PhaseInv, At
  <2>2. check.date <= assembled
    BY <1>1 DEF FreshnessInv, DateInv
  <2> QED
    BY <1>4, <1>5, <1>6, <2>1, <2>2 DEF DateInv, At
<1>8. LogInv'
  <2>1. ASSUME NEW row \in log, row.by # "before"
        PROVE  proc'[row.by] = proc[row.by]
    <3>1. row.by \in ToSet(Checks) /\ Succeeded(row.by)
      BY <2>1 DEF FreshnessInv, LogInv
    <3>2. row.by \in Programs \ {Driver}
      BY <1>3, <3>1, FreshnessAssumption DEF ToSet, Succeeded, At
    <3> QED
      BY <1>2, <3>2 DEF Keeps
  <2> QED
    BY <1>5, <2>1 DEF FreshnessInv, LogInv, Succeeded, At
<1> QED
  BY <1>1, <1>2, <1>6, <1>7, <1>8, OthersKeep DEF FreshnessInv

LEMMA AnswerKeeps ==
  ASSUME DriversInv, FreshnessInv, Answer
  PROVE  FreshnessInv'
<1>1. Driver \in Programs /\ Driver \in ToSet(Checks)
  BY DriverIsProgram DEF Answer, FreshnessInv
<1>2. CheckTypeOK' /\ DateInv'
  BY DEF Answer, FreshnessInv, CheckTypeOK, DateInv
<1>3. LogInv'
  <2>1. ASSUME NEW row \in log', row.by # "before"
        PROVE  /\ row.by \in ToSet(Checks) /\ Succeeded(row.by) /\ row.date \in Nat
               /\ proc[row.by].made[Category].born > 0 =>
                    proc[row.by].made[Category].date >= row.date
    <3>1. CASE row \in log
      BY <2>1, <3>1 DEF FreshnessInv, LogInv
    <3>2. CASE row \notin log
      <4>1. row = [date |-> check.date, by |-> Driver] /\ Succeeded(Driver)
        BY <2>1, <3>2 DEF Answer, Succeeded, At
      <4>2. Category \in Tables
        BY FreshnessAssumption
      <4> QED
        BY <1>1, <4>1, <4>2 DEF Answer, FreshnessInv, DateInv, CheckTypeOK
    <3> QED
      BY <3>1, <3>2
  <2>2. proc' = proc
    BY DEF Answer
  <2> QED
    BY <2>1, <2>2 DEF LogInv, Succeeded, At
<1> QED
  BY <1>2, <1>3 DEF FreshnessInv

\* Whatever the check does.
LEMMA CheckKeeps ==
  ASSUME DriversInv, FreshnessInv, FreshnessStep \/ Stop
  PROVE  DriversInv' /\ FreshnessInv'
<1>1. assembled \in Dates /\ assembled \in Nat
  BY DEF DriversInv, DriversTypeOK, Dates
<1>2. ASSUME UNCHANGED <<assembled, tables, proc>>
      PROVE  DriversInv'
  BY <1>1, <1>2, AssembleKeepsPrograms
<1>3. ASSUME UNCHANGED <<log, proc>>
      PROVE  LogInv'
  BY <1>3 DEF FreshnessInv, LogInv, Succeeded, At
<1>4. CASE Check
  <2>1. CheckTypeOK'
    <3>1. Len(Checks) \in Nat
      BY FreshnessAssumption
    <3>2. check.begun \in 0..Len(Checks) /\ check.begun < Len(Checks) /\ check.date \in Nat
      BY <1>4 DEF Check, FreshnessInv, CheckTypeOK
    <3>3. check.begun + 1 \in 0..Len(Checks) /\ check.begun + 1 > 0
      BY <3>1, <3>2
    <3>4. PICK at \in {"dating", "idle"} :
            check' = [check EXCEPT !.begun = check.begun + 1, !.at = at]
      BY <1>4 DEF Check
    <3> QED
      BY <3>2, <3>3, <3>4 DEF FreshnessInv, CheckTypeOK
  <2>2. DateInv'
    BY <1>4 DEF Check, FreshnessInv, CheckTypeOK, DateInv
  <2> QED
    BY <1>2, <1>3, <1>4, <2>1, <2>2 DEF Check, database, FreshnessInv
<1>5. CASE Date
  <2>1. UNCHANGED <<log, assembled, tables, proc>>
    BY <1>5 DEF Date
  <2>2. CheckTypeOK' /\ DateInv'
    <3>1. CASE check' = [check EXCEPT !.at = "calling", !.date = assembled]
      <4>1. CheckTypeOK' /\ check'.at = "calling" /\ check'.date = assembled
        BY <1>1, <1>5, <3>1 DEF Date, FreshnessInv, CheckTypeOK
      <4> QED
        BY <1>1, <2>1, <4>1 DEF DateInv
    <3>2. CASE check' = [check EXCEPT !.at = "dropping"]
      BY <1>5, <3>2 DEF Date, FreshnessInv, CheckTypeOK, DateInv
    <3> QED
      BY <1>5, <3>1, <3>2 DEF Date
  <2> QED
    BY <1>2, <1>3, <2>1, <2>2 DEF FreshnessInv
<1>6. CASE Call
  BY <1>6, CallKeeps
<1>7. CASE Answer
  BY <1>2, <1>7, AnswerKeeps DEF Answer, database
<1>8. CASE DropSums \/ Sum \/ Stop
  <2>1. CheckTypeOK' /\ DateInv'
    BY <1>8 DEF DropSums, Sum, Stop, FreshnessInv, CheckTypeOK, DateInv
  <2> QED
    BY <1>2, <1>3, <1>8, <2>1 DEF DropSums, Sum, Stop, FreshnessInv
<1> QED
  BY <1>4, <1>5, <1>6, <1>7, <1>8 DEF FreshnessStep

-------------------------------------------------------------------------------
(* What the invariants say of the properties.                              *)

LEMMA NothingIsLost ==
  ASSUME DriversInv
  PROVE  NothingSilentlyLost
BY DEF DriversInv, ProgramInv, LostInv, Succeeded, Settled, NothingSilentlyLost

LEMMA LoggedIsDone ==
  ASSUME DriversInv, FreshnessInv
  PROVE  DoneIsDone
<1>1. ASSUME NEW row \in log, row.by # "before", proc[row.by].errors = {}
      PROVE  \/ tables[Category].born > proc[row.by].made[Category].born
             \/ \A g \in Grids : \E n \in tables[Category].rows[g] : n >= row.date
  <2>1. row.by \in ToSet(Checks) /\ Succeeded(row.by) /\ Category \in Tables
    BY <1>1, FreshnessAssumption DEF FreshnessInv, LogInv
  <2>2. row.by \in Programs /\ Asked(row.by) = {Category}
    <3>1. PICK i \in DOMAIN Checks : row.by = Checks[i]
      BY <2>1 DEF ToSet
    <3>2. /\ row.by \in Programs /\ Command[row.by].program = "calculate_radii"
          /\ Command[row.by].table = Category
      BY <3>1, FreshnessAssumption
    <3> QED
      BY <3>2 DEF Asked, ForOneTable
  <2>3. ASSUME NEW g \in Grids
        PROVE  \/ tables[Category].born > proc[row.by].made[Category].born
               \/ \E n \in tables[Category].rows[g] : n >= row.date
    <3>1. Settled(row.by, Category, g)
      BY <2>1, <2>2 DEF DriversInv, ProgramInv, LostInv
    <3>2. ~Logged(row.by, Category, g)
      BY <1>1 DEF Logged
    <3> QED
      BY <1>1, <3>1, <3>2 DEF Settled, FreshnessInv, LogInv
  <2> QED
    BY <2>3
<1> QED
  BY <1>1 DEF DoneIsDone

===============================================================================
