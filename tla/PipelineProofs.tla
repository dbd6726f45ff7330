---------------------------- MODULE PipelineProofs ----------------------------
(***************************************************************************)
(* What holds of everything at once, for every scene: the drivers, the     *)
(* freshness check and the data mart manager meet in the database, and     *)
(* what each of them keeps is kept by the steps of the others.             *)
(*                                                                         *)
(* The argument: a program creates no table anew while a job reads from    *)
(* it, so that the invariant of the jobs does not see the programs; the    *)
(* jobs only read, so that the invariants of the programs do not see the   *)
(* jobs.  What the jobs have read rests on a second invariant, CalmInv:    *)
(* programs only move a table on, so that one that is as it was has not    *)
(* been written in between.                                                *)
(***************************************************************************)
EXTENDS Pipeline, FreshnessProofs, DataMartProofs

FaultsInv == faults \in 0..MaxFaults

\* The inductive invariant.
PipelineInv == FaultsInv /\ DriversInv /\ FreshnessInv /\ DataMartInv

-------------------------------------------------------------------------------
(* The database between the programs.                                      *)

\* The database refuses once more, or not.
LEMMA FaultsStay ==
  ASSUME FaultsInv, Fault \/ UNCHANGED faults
  PROVE  FaultsInv'
BY DatabaseAssumption DEF FaultsInv, Fault

LEMMA ProgramFaults ==
  ASSUME NEW d, Start(d) \/ DriverStep(d) \/ DriverFails(d)
  PROVE  Fault \/ UNCHANGED faults
BY DEF DriverStep, DriverFails, Start, Load, PlanOne, PlanObjects, PlanBrands, NameBrands,
       PlanRefused, Read, Reset, TableRefused, Commit, Lose, Join, Finish, LoseConnection,
       LoadGridMetadata

LEMMA CheckFaults ==
  ASSUME FreshnessStep \/ Stop
  PROVE  Fault \/ UNCHANGED faults
BY ProgramFaults DEF FreshnessStep, Check, Date, Call, Answer, DropSums, Sum, Stop, database

LEMMA RequestFaults ==
  ASSUME NEW r, CallStep(r) \/ CallFails(r)
  PROVE  Fault \/ UNCHANGED faults
<1>1. ASSUME NEW i, JobStep(r, i)
      PROVE  Fault \/ UNCHANGED faults
  BY <1>1 DEF JobStep, Open, OpenRefused, Fetch, FetchOutOfRange, Close, database
<1>2. CASE CallStep(r)
  BY <1>1, <1>2 DEF CallStep, Receive, Gather, Drop, Create, OutputRefused, OutputOfNothing,
                    InsertOverrun, Commit_, Reply, database
<1>3. CASE CallFails(r)
  BY <1>3 DEF CallFails, LoseServerConnection, FetchRefused
<1> QED
  BY <1>2, <1>3

\* Calls only read the tables.
LEMMA RequestsRead ==
  ASSUME NEW r, CallStep(r) \/ CallFails(r)
  PROVE  UNCHANGED <<assembled, tables>>
<1>1. ASSUME Die
      PROVE  UNCHANGED <<assembled, tables>>
  BY <1>1 DEF Die
<1>2. ASSUME Throw(r)
      PROVE  UNCHANGED <<assembled, tables>>
  BY <1>1, <1>2 DEF Throw
<1>3. ASSUME NEW i, JobStep(r, i)
      PROVE  UNCHANGED <<assembled, tables>>
  BY <1>1, <1>3 DEF JobStep, Open, OpenRefused, Fetch, FetchOutOfRange, Close, database
<1>4. CASE CallStep(r)
  BY <1>1, <1>2, <1>3, <1>4 DEF CallStep, Receive, Gather, Drop, Create, OutputRefused,
                    OutputOfNothing, InsertOverrun, Commit_, Reply, database
<1>5. CASE CallFails(r)
  BY <1>1, <1>2, <1>5 DEF CallFails, LoseServerConnection, FetchRefused
<1> QED
  BY <1>4, <1>5

\* A program waits with DROP for those who read.
LEMMA ReadersAreRespected ==
  ASSUME DriversTypeOK, NEW d \in Programs, Start(d) \/ DriverStep(d) \/ DriverFails(d)
  PROVE  /\ UNCHANGED <<assembled, readers>>
         /\ \A t \in Tables : readers[t] # {} => tables'[t].born = tables[t].born
<1>1. tables \in [Tables -> TableStates]
  BY DEF DriversTypeOK
<1>2. CASE Reset(d)
  <2>1. UNCHANGED <<assembled, readers>>
    BY <1>2 DEF Reset
  <2>2. ASSUME NEW t \in Tables, readers[t] # {}
        PROVE  tables'[t] = tables[t]
    BY <1>1, <1>2, <2>2 DEF Reset
  <2> QED
    BY <2>1, <2>2
<1>3. ASSUME NEW g \in Grids, Commit(d, g)
      PROVE  /\ UNCHANGED <<assembled, readers>>
             /\ \A t \in Tables : tables'[t].born = tables[t].born
  <2>1. UNCHANGED <<assembled, readers>>
    BY <1>3 DEF Commit
  <2>2. ASSUME NEW t \in Tables
        PROVE  tables'[t].born = tables[t].born
    BY <1>1, <1>3, <2>2 DEF Commit, TableStates
  <2> QED
    BY <2>1, <2>2
<1>4. CASE ~Reset(d) /\ \A g \in Grids : ~Commit(d, g)
  BY <1>4 DEF DriverStep, DriverFails, Start, Load, PlanOne, PlanObjects, PlanBrands, NameBrands,
       PlanRefused, Read, TableRefused, Lose, Join, Finish, LoseConnection
<1> QED
  BY <1>2, <1>3, <1>4

LEMMA CheckRespects ==
  ASSUME DriversInv, FreshnessInv, FreshnessStep \/ Stop
  PROVE  /\ UNCHANGED readers
         /\ \A t \in Tables : readers[t] # {} => tables'[t].born = tables[t].born
<1>1. CASE Call
  <2>1. Driver \in Programs /\ Start(Driver)
    BY <1>1, DriverIsProgram DEF Call, FreshnessInv
  <2> QED
    BY <2>1, ReadersAreRespected DEF DriversInv
<1>2. CASE ~Call
  BY <1>2 DEF FreshnessStep, Check, Date, Answer, DropSums, Sum, Stop, database
<1> QED
  BY <1>1, <1>2

-------------------------------------------------------------------------------
(* The invariant.                                                          *)

LEMMA PipelineStarts ==
  ASSUME Init
  PROVE  PipelineInv
<1>1. FaultsInv
  BY DatabaseAssumption DEF Init, DatabaseInit, FaultsInv
<1> QED
  BY <1>1, DriversStart, FreshnessStarts, DataMartStarts DEF Init, PipelineInv

LEMMA PipelineKeeps ==
  ASSUME PipelineInv, [Next]_vars
  PROVE  PipelineInv'
<1>1. /\ FaultsInv /\ DriversInv /\ FreshnessInv /\ DataMartInv
      /\ DriversTypeOK /\ assembled \in Dates
  BY DEF PipelineInv, DriversInv, DriversTypeOK
<1>2. ASSUME UNCHANGED <<proc, freshness, datamart, readers, tables>>, assembled' \in Dates,
             assembled' >= assembled, FaultsInv'
      PROVE  PipelineInv'
  <2>1. DriversInv' /\ FreshnessInv'
    BY <1>1, <1>2, AssembleKeepsPrograms, AssembleKeepsFreshness DEF freshness
  <2>2. DataMartInv'
    BY <1>1, <1>2, OthersKeepCalls DEF datamart
  <2> QED
    BY <1>2, <2>1, <2>2 DEF PipelineInv
<1>3. assembled >= assembled
  BY <1>1 DEF Dates
<1>4. CASE UNCHANGED vars
  <2>1. FaultsInv'
    BY <1>1, <1>4 DEF vars, database, FaultsInv
  <2> QED
    BY <1>1, <1>2, <1>3, <1>4, <2>1 DEF vars, database
<1>5. CASE Assemble /\ UNCHANGED <<proc, freshness, datamart>>
  <2>1. assembled' \in Dates /\ assembled' >= assembled /\ FaultsInv'
    BY <1>1, <1>5, DatabaseAssumption DEF Assemble, Dates, FaultsInv
  <2> QED
    BY <1>2, <1>5, <2>1 DEF Assemble
<1>6. ASSUME NEW d \in Programs, Start(d) \/ DriverStep(d) \/ DriverFails(d),
             UNCHANGED <<freshness, datamart>>
      PROVE  PipelineInv'
  <2>1. Keeps(d)
    BY <1>1, <1>6, ProgramKeeps
  <2>2. /\ UNCHANGED <<assembled, readers>>
        /\ \A t \in Tables : readers[t] # {} => tables'[t].born = tables[t].born
    BY <1>1, <1>6, ReadersAreRespected
  <2>3. DriversInv'
    BY <1>1, <2>1, OthersKeep
  <2>4. FreshnessInv'
    BY <1>1, <1>6, <2>1, <2>2, ProgramKeepsFreshness DEF freshness
  <2>5. DataMartInv'
    BY <1>1, <1>6, <2>2, OthersKeepCalls DEF datamart
  <2>6. FaultsInv'
    BY <1>1, <1>6, FaultsStay, ProgramFaults
  <2> QED
    BY <2>3, <2>4, <2>5, <2>6 DEF PipelineInv
<1>7. CASE (FreshnessStep \/ Stop) /\ UNCHANGED datamart
  <2>1. DriversInv' /\ FreshnessInv'
    BY <1>1, <1>7, CheckKeeps
  <2>2. DataMartInv'
    BY <1>1, <1>7, CheckRespects, OthersKeepCalls DEF datamart
  <2>3. FaultsInv'
    BY <1>1, <1>7, FaultsStay, CheckFaults
  <2> QED
    BY <2>1, <2>2, <2>3 DEF PipelineInv
<1>8. CASE StartServer /\ UNCHANGED <<proc, freshness>>
  <2>1. DataMartInv'
    BY <1>1, <1>8, StartServerKeeps
  <2>2. FaultsInv'
    BY <1>1, <1>8, FaultsStay DEF StartServer, LoadGridMetadata
  <2>3. UNCHANGED <<assembled, tables>>
    BY <1>8 DEF StartServer
  <2>4. DriversInv' /\ FreshnessInv'
    BY <1>1, <1>3, <1>8, <2>3, AssembleKeepsPrograms, AssembleKeepsFreshness DEF freshness
  <2> QED
    BY <2>1, <2>2, <2>4 DEF PipelineInv
<1>9. ASSUME NEW r \in Requests, CallStep(r) \/ CallFails(r), UNCHANGED <<proc, freshness>>
      PROVE  PipelineInv'
  <2>1. \A t \in Tables : /\ tables[t].born \in Nat
                          /\ \A g \in Grids : tables[t].rows[g] \subseteq Dates
    BY <1>1 DEF DriversTypeOK, TableStates
  <2>2. DataMartInv'
    BY <1>1, <1>9, <2>1, RequestKeeps
  <2>3. FaultsInv'
    BY <1>1, <1>9, FaultsStay, RequestFaults
  <2>4. UNCHANGED <<assembled, tables>>
    BY <1>9, RequestsRead
  <2>5. DriversInv' /\ FreshnessInv'
    BY <1>1, <1>3, <1>9, <2>4, AssembleKeepsPrograms, AssembleKeepsFreshness DEF freshness
  <2> QED
    BY <2>2, <2>3, <2>5 DEF PipelineInv
<1>10. CASE Next
  <2>1. CASE \E d \in Operators \cap scene : Start(d) /\ UNCHANGED <<freshness, datamart>>
    <3>1. Operators \subseteq Programs
      BY PipelineAssumption
    <3> QED
      BY <1>6, <2>1, <3>1
  <2>2. CASE \E d \in Programs \cap scene :
               (DriverStep(d) \/ DriverFails(d)) /\ UNCHANGED <<freshness, datamart>>
    BY <1>6, <2>2
  <2>3. CASE \E r \in Requests \cap scene :
               (CallStep(r) \/ CallFails(r)) /\ UNCHANGED <<proc, freshness>>
    BY <1>9, <2>3
  <2> QED
    BY <1>5, <1>7, <1>8, <1>10, <2>1, <2>2, <2>3 DEF Next
<1> QED
  BY <1>4, <1>10

LEMMA TypesFollow ==
  ASSUME PipelineInv
  PROVE  PipelineTypeOK
<1>1. assembled \in Dates /\ faults \in 0..MaxFaults
  BY DEF PipelineInv, FaultsInv, DriversInv, DriversTypeOK
<1>2. ASSUME NEW t \in Tables
      PROVE  /\ tables[t].born \in Nat /\ \A g \in Grids : tables[t].rows[g] \subseteq Dates
             /\ ~Exists(t) => tables[t].rows = NoRowsYet
             /\ readers[t] = UNION {{r} \X Reading(r, t) : r \in Requests}
  BY DEF PipelineInv, DriversInv, DriversTypeOK, TableStates, RowsInv, DataMartInv, ReadersInv
<1>3. ASSUME NEW d \in Programs
      PROVE  /\ proc[d].at \in Phases
             /\ proc[d].left \subseteq proc[d].grids /\ (At(d, "pool") => Busy(d))
             /\ At(d, "exited") => proc[d].code \in {0, 1}
  <2>1. proc[d] \in ProgramStates /\ PhaseInv(d)
    BY DEF PipelineInv, DriversInv, DriversTypeOK, ProgramInv
  <2> QED
    BY <2>1 DEF ProgramStates, PhaseInv, At
<1>4. /\ check.at \in {"idle", "dating", "calling", "waiting", "dropping", "summing"}
      /\ check.begun \in 0..Len(Checks)
  BY DEF PipelineInv, FreshnessInv, CheckTypeOK
<1>5. ASSUME NEW r \in Requests
      PROVE  /\ call[r].at \in CallPhases
             /\ call[r].at \notin {"new", "replied", "failed"} => server.up
             /\ call[r].holds => call[r].at \in {"creating", "inserting"}
  BY DEF PipelineInv, DataMartInv, DataMartTypeOK, CallShape, OutputInv
<1>6. \A o \in Outputs : Cardinality(Holders(o)) <= 1
  BY OneHolder DEF PipelineInv
<1> QED
  BY <1>1, <1>2, <1>3, <1>4, <1>5, <1>6 DEF PipelineTypeOK, Phases, CallPhases

LEMMA PipelineInvariant == Spec => []PipelineInv
<1>1. Init => PipelineInv
  BY PipelineStarts
<1>2. PipelineInv /\ [Next]_vars => PipelineInv'
  BY PipelineKeeps
<1> QED
  BY <1>1, <1>2, PTL DEF Spec

-------------------------------------------------------------------------------
(* What a job has read that nobody has disturbed.                          *)

LEMMA RowStatesAreStates ==
  ASSUME DriversTypeOK
  PROVE  \A t \in Tables : tables[t] \in RowStates
BY DEF DriversTypeOK, TableStates, RowStates

LEMMA GrowthIsLater ==
  ASSUME TablesGrow
  PROVE  \A t \in Tables : Later(tables[t], tables'[t])
BY DEF TablesGrow, Later

\* A program only moves its tables on, so that a table that is as it was when the
\* request arrived has been so all the time.
LEMMA ProgramKeepsCalm ==
  ASSUME DriversInv, CalmInv, NEW d \in Programs,
         Start(d) \/ DriverStep(d) \/ DriverFails(d), UNCHANGED <<call, seen>>
  PROVE  CalmInv'
<1>1. DriversTypeOK /\ DriversTypeOK' /\ TablesGrow
  BY ProgramKeeps DEF Keeps, DriversInv
<1>2. \A t \in Tables : /\ tables[t] \in RowStates /\ tables'[t] \in RowStates
                        /\ Later(tables[t], tables'[t])
  <2>1. DriversTypeOK' => \A t \in Tables : tables'[t] \in RowStates
    BY DEF DriversTypeOK, TableStates, RowStates
  <2> QED
    BY <1>1, <2>1, RowStatesAreStates, GrowthIsLater
<1>3. JobsStay
  BY DEF JobsStay, Received
<1> QED
  BY <1>2, <1>3, CalmFrame

LEMMA QuietKeepsCalm ==
  ASSUME DriversInv, CalmInv, UNCHANGED <<call, seen, tables>>
  PROVE  CalmInv'
<1>1. \A t \in Tables : /\ tables[t] \in RowStates /\ tables'[t] \in RowStates
                        /\ Later(tables[t], tables'[t])
  BY RowStatesAreStates, SameIsLater DEF DriversInv
<1>2. JobsStay
  BY DEF JobsStay, Received
<1> QED
  BY <1>1, <1>2, CalmFrame

LEMMA CalmStarts ==
  ASSUME Init
  PROVE  CalmInv
<1>1. \A r \in Requests : ~Received(r)
  BY DEF Init, DataMartInit, NewCall, Received
<1> QED
  BY <1>1 DEF CalmInv

LEMMA CalmKeeps ==
  ASSUME PipelineInv, CalmInv, [Next]_vars
  PROVE  CalmInv'
<1>1. DriversInv /\ FreshnessInv /\ DataMartInv
  BY DEF PipelineInv
<1>2. CASE UNCHANGED <<call, seen, tables>>
  BY <1>1, <1>2, QuietKeepsCalm
<1>3. ASSUME NEW d \in Programs, Start(d) \/ DriverStep(d) \/ DriverFails(d), UNCHANGED datamart
      PROVE  CalmInv'
  BY <1>1, <1>3, ProgramKeepsCalm DEF datamart
<1>4. CASE (FreshnessStep \/ Stop) /\ UNCHANGED datamart
  <2>1. CASE Call
    <3>1. Driver \in Programs /\ Start(Driver)
      BY <1>1, <2>1, DriverIsProgram DEF Call, FreshnessInv
    <3> QED
      BY <1>3, <1>4, <3>1
  <2>2. CASE ~Call
    <3>1. UNCHANGED tables
      BY <1>4, <2>2 DEF FreshnessStep, Check, Date, Answer, DropSums, Sum, Stop, database
    <3> QED
      BY <1>2, <1>4, <3>1 DEF datamart
  <2> QED
    BY <2>1, <2>2
<1>5. ASSUME NEW r \in Requests, CallStep(r) \/ CallFails(r)
      PROVE  CalmInv'
  <2>1. UNCHANGED tables /\ \A t \in Tables : tables[t] \in RowStates
    BY <1>1, <1>5, RequestsRead, RowStatesAreStates DEF DriversInv
  <2> QED
    BY <1>1, <1>5, <2>1, RequestKeepsCalm
<1>6. CASE Next
  <2>1. CASE \E d \in Operators \cap scene : Start(d) /\ UNCHANGED <<freshness, datamart>>
    <3>1. Operators \subseteq Programs
      BY PipelineAssumption
    <3> QED
      BY <1>3, <2>1, <3>1
  <2>2. CASE \E d \in Programs \cap scene :
               (DriverStep(d) \/ DriverFails(d)) /\ UNCHANGED <<freshness, datamart>>
    BY <1>3, <2>2
  <2>3. CASE \E r \in Requests \cap scene :
               (CallStep(r) \/ CallFails(r)) /\ UNCHANGED <<proc, freshness>>
    BY <1>5, <2>3
  <2>4. CASE Assemble /\ UNCHANGED <<proc, freshness, datamart>>
    BY <1>2, <2>4 DEF Assemble, datamart
  <2>5. CASE StartServer
    BY <1>2, <2>5 DEF StartServer
  <2> QED
    BY <1>4, <1>6, <2>1, <2>2, <2>3, <2>4, <2>5 DEF Next
<1> QED
  BY <1>2, <1>6 DEF vars, database, datamart

-------------------------------------------------------------------------------
(* Who is waited for.                                                      *)

\* A pool that is not done has an open job, or one that a thread can open: none of its
\* threads is taken where no job is open.
LEMMA PoolsGoOn ==
  ASSUME DataMartInv, NEW r \in Requests, InPool(r)
  PROVE  \/ \A i \in Jobs(r) : Job(r, i).at = "done"
         \/ OpenJobs(r) # {}
         \/ \E i \in Jobs(r) : CanOpen(r, i)
<1>1. \A i \in Jobs(r) : Job(r, i).at \in {"queued", "open", "done"}
  BY DEF DataMartInv, DataMartTypeOK, Received, InPool, JobShape
<1>2. SUFFICES ASSUME OpenJobs(r) = {}, \E i \in Jobs(r) : Job(r, i).at # "done"
               PROVE  \E i \in Jobs(r) : CanOpen(r, i)
  OBVIOUS
<1> DEFINE queued == {i \in Jobs(r) : Job(r, i).at = "queued"}
<1>3. queued # {} /\ {k \in Jobs(r) : Job(r, k).at = "open"} = {}
  BY <1>1, <1>2 DEF OpenJobs
<1>4. PICK n \in Nat : Jobs(r) = 1..n
  <2>1. Request[r].tables \in Seq([name : Tables, radii : Seq(Nat)])
    BY DataMartAssumption
  <2> QED
    BY <2>1 DEF Jobs
<1>5. queued \subseteq Nat
  BY <1>4
<1>6. PICK i \in queued : \A k \in queued : i <= k
  <2> HIDE DEF queued
  <2> QED
    BY <1>3, <1>5, LeastNatural
<1>7. \A k \in 1..(i - 1) : Job(r, k).at # "queued"
  BY <1>4, <1>6
<1>8. Cardinality({k \in Jobs(r) : Job(r, k).at = "open"}) < Threads
  <2>1. Cardinality({}) = 0
    BY FS_EmptySet
  <2>2. 0 < Threads
    BY DataMartAssumption
  <2> QED
    BY <1>3, <2>1, <2>2
<1> QED
  BY <1>6, <1>7, <1>8 DEF CanOpen

LEMMA OutputsGoOn ==
  ASSUME DataMartInv, NEW r \in Requests, WaitsForOutput(r)
  PROVE  Holders(Output(r)) # {} /\ \A h \in Holders(Output(r)) : ~WaitsForOutput(h)
<1>1. OutputInv
  BY DEF DataMartInv
<1>2. Holders(Output(r)) # {}
  BY DEF WaitsForOutput, CanCreate
<1>3. ASSUME NEW h \in Holders(Output(r))
      PROVE  ~WaitsForOutput(h)
  <2>1. h \in Requests /\ Output(h) = Output(r) /\ call[h].holds
    BY DEF Holders
  <2>2. Holders(Output(h)) \subseteq {h}
    BY <1>1, <2>1 DEF Holders, OutputInv
  <2>3. call[h].at \in {"creating", "inserting"}
    BY <1>1, <2>1 DEF OutputInv
  <2> QED
    BY <2>2, <2>3 DEF WaitsForOutput, CanCreate
<1> QED
  BY <1>2, <1>3

LEMMA TablesGoOn ==
  ASSUME PipelineInv, NEW d \in Programs, WaitsForReaders(d), NEW reader \in readers[Table(d)]
  PROVE  \E r \in Requests : \E i \in OpenJobs(r) : reader = <<r, i>>
<1>1. Table(d) \in Tables
  <2>1. DriversTypeOK /\ Busy(d)
    BY DEF PipelineInv, DriversInv, ProgramInv, PhaseInv, WaitsForReaders, At
  <2> QED
    BY <2>1, BusyTable
<1>2. readers[Table(d)] = UNION {{r} \X Reading(r, Table(d)) : r \in Requests}
  BY <1>1 DEF PipelineInv, DataMartInv, ReadersInv
<1>3. PICK r \in Requests : reader \in {r} \X Reading(r, Table(d))
  BY <1>2
<1>4. PICK i \in Reading(r, Table(d)) : reader = <<r, i>>
  BY <1>3
<1> QED
  BY <1>3, <1>4 DEF Reading, OpenJobs

LEMMA WaitingEnds ==
  ASSUME PipelineInv
  PROVE  NobodyWaitsInVain
BY TablesGoOn, OutputsGoOn, PoolsGoOn DEF PipelineInv, NobodyWaitsInVain

-------------------------------------------------------------------------------
(* Nobody goes back.                                                       *)

\* A program that ends, or goes on to the next of its phases.
LEMMA RanksFall ==
  ASSUME NEW p, NEW q, p.at \in Phases, q.at \in Phases,
         \/ q.at = "idle" /\ p.at \in {"loading", "exited"}
         \/ q.at = "loading" /\ p.at = "planning"
         \/ q.at = "planning" /\ p.at \in {"reading", "exited", "aborted"}
         \/ q.at = "reading" /\ p.at \in {"exited", "aborted"}
         \/ q.at \notin {"idle", "exited", "aborted"} /\ p.at = "aborted"
  PROVE  ProgramAdvances(p, q)
BY DEF ProgramAdvances, ProgramRank, Phases

\* A program of which a step has changed what it changes.
LEMMA ProgramMoves ==
  ASSUME DriversInv, NEW d \in Programs, Start(d) \/ DriverStep(d) \/ DriverFails(d)
  PROVE  ProgramAdvances(proc'[d], proc[d])
<1> DEFINE p == proc'[d]
           q == proc[d]
<1>1. /\ proc \in [Programs -> ProgramStates] /\ q \in ProgramStates
      /\ q.at \in Phases /\ q.todo \in Seq(Tables) /\ q.rubrics \in Seq(STRING)
      /\ q.left \in SUBSET Grids
  BY DEF DriversInv, DriversTypeOK, ProgramStates
<1>2. ASSUME \/ Start(d) \/ Load(d) \/ PlanOne(d) \/ PlanObjects(d) \/ PlanBrands(d)
             \/ PlanRefused(d) \/ Finish(d) \/ LoseConnection(d)
      PROVE  ProgramAdvances(p, q)
  <2>1. /\ p.at \in Phases
        /\ \/ q.at = "idle" /\ p.at \in {"loading", "exited"}
           \/ q.at = "loading" /\ p.at = "planning"
           \/ q.at = "planning" /\ p.at \in {"reading", "exited", "aborted"}
           \/ q.at = "reading" /\ p.at \in {"exited", "aborted"}
           \/ q.at \notin {"idle", "exited", "aborted"} /\ p.at = "aborted"
    <3>1. CASE Start(d)
      BY <1>1, <3>1 DEF Start, Exit, At, Phases, ProgramStates
    <3>2. CASE Load(d)
      BY <1>1, <3>2 DEF Load, At, Phases, ProgramStates
    <3>3. CASE PlanOne(d) \/ PlanObjects(d)
      BY <1>1, <3>3 DEF PlanOne, PlanObjects, Abort, At, Phases, ProgramStates
    <3>4. CASE PlanBrands(d)
      <4> DEFINE both == Command[d].list \o Command[d].file
      <4>1. /\ q.at = "planning"
            /\ \/ Exit(d, 1)
               \/ proc' = [proc EXCEPT ![d].at = "reading", ![d].rubrics = both]
        BY <3>4 DEF PlanBrands, At
      <4> HIDE DEF both
      <4> QED
        BY <1>1, <4>1 DEF Exit, Phases, ProgramStates
    <3>6. CASE PlanRefused(d)
      BY <1>1, <3>6 DEF PlanRefused, Exit, At, Phases, ProgramStates
    <3>5. CASE Finish(d) \/ LoseConnection(d)
      BY <1>1, <3>5 DEF Finish, LoseConnection, Running, Exit, Abort, At, Phases, ProgramStates
    <3> QED
      BY <1>2, <3>1, <3>2, <3>3, <3>4, <3>5, <3>6
  <2> HIDE DEF p, q
  <2> QED
    BY <1>1, <2>1, RanksFall
<1>3. ASSUME NameBrands(d)
      PROVE  ProgramAdvances(p, q)
  <2>1. q.at = "reading" /\ q.rubrics # <<>>
    BY <1>3 DEF NameBrands, At
  <2>2. CASE Head(q.rubrics) \notin DOMAIN Eng
    <3>1. p.at = "aborted"
      BY <1>1, <1>3, <2>2 DEF NameBrands, Abort, ProgramStates
    <3> HIDE DEF p, q
    <3> QED
      BY <1>1, <2>1, <3>1, RanksFall DEF Phases
  <2>3. CASE Head(q.rubrics) \in DOMAIN Eng
    <3>1. p.at = "reading" /\ p.rubrics = Tail(q.rubrics)
      BY <1>1, <1>3, <2>1, <2>3 DEF NameBrands, ProgramStates
    <3> HIDE DEF p, q
    <3>2. Len(p.rubrics) < Len(q.rubrics)
      BY <1>1, <2>1, <3>1
    <3> QED
      BY <2>1, <3>1, <3>2 DEF ProgramAdvances, ProgramRank
  <2> QED
    BY <2>2, <2>3
<1>4. ASSUME TableAdvances(p, q), q.at \in {"reading", "resetting", "pool"},
             p.at \in {"reading", "resetting", "pool"}, p.rubrics = q.rubrics
      PROVE  ProgramAdvances(p, q)
  <2> HIDE DEF p, q
  <2>1. ProgramRank[p.at] = 1 /\ ProgramRank[q.at] = 1
    BY <1>4 DEF ProgramRank
  <2> QED
    BY <1>4, <2>1 DEF ProgramAdvances
<1>5. ASSUME Read(d)
      PROVE  ProgramAdvances(p, q)
  <2>1. q.at = "reading" /\ p.at = "resetting" /\ p.rubrics = q.rubrics /\ p.todo = q.todo
    BY <1>1, <1>5 DEF Read, At, ProgramStates
  <2> HIDE DEF p, q
  <2>2. TableAdvances(p, q)
    BY <2>1 DEF TableAdvances, TableRank
  <2> QED
    BY <1>4, <2>1, <2>2
<1>6. ASSUME Reset(d)
      PROVE  ProgramAdvances(p, q)
  <2>1. q.at = "resetting" /\ p.at = "pool" /\ p.rubrics = q.rubrics /\ p.todo = q.todo
    BY <1>1, <1>6 DEF Reset, At, ProgramStates
  <2> HIDE DEF p, q
  <2>2. TableAdvances(p, q)
    BY <2>1 DEF TableAdvances, TableRank
  <2> QED
    BY <1>4, <2>1, <2>2
<1>7. ASSUME NEW g \in Grids, Commit(d, g) \/ Lose(d, g)
      PROVE  ProgramAdvances(p, q)
  <2>1. /\ q.at = "pool" /\ p.at = "pool" /\ p.rubrics = q.rubrics /\ p.todo = q.todo
        /\ p.left = q.left \ {g} /\ g \in q.left
    BY <1>1, <1>7 DEF Commit, Lose, At, ProgramStates
  <2> HIDE DEF p, q
  <2>2. Shrinks(p.left, q.left)
    BY <2>1 DEF Shrinks
  <2>3. TableAdvances(p, q)
    BY <2>1, <2>2 DEF TableAdvances
  <2> QED
    BY <1>4, <2>1, <2>3
<1>8. ASSUME Join(d) \/ TableRefused(d)
      PROVE  ProgramAdvances(p, q)
  <2>1. q.todo # <<>>
    BY <1>8 DEF Join, TableRefused, Busy, DriversInv, ProgramInv, PhaseInv, At
  <2>2. /\ q.at \in {"reading", "resetting", "pool"} /\ p.at = "reading"
        /\ p.rubrics = q.rubrics /\ p.todo = Tail(q.todo)
    BY <1>1, <1>8 DEF Join, TableRefused, At, ProgramStates
  <2> HIDE DEF p, q
  <2>3. Len(p.todo) < Len(q.todo)
    BY <1>1, <2>1, <2>2
  <2>4. TableAdvances(p, q)
    BY <2>3 DEF TableAdvances
  <2> QED
    BY <1>4, <2>2, <2>4
<1> QED
  BY <1>2, <1>3, <1>5, <1>6, <1>7, <1>8 DEF DriverStep, DriverFails

LEMMA ProgramsMove ==
  ASSUME DriversInv, NEW d \in Programs, Start(d) \/ DriverStep(d) \/ DriverFails(d)
  PROVE  ProgramsAdvance
<1>1. Keeps(d)
  BY ProgramKeeps
<1>2. \A q \in Programs \ {d} : proc'[q] = proc[q]
  BY <1>1 DEF Keeps
<1> QED
  BY <1>2, ProgramMoves DEF ProgramsAdvance

\* A call that ends, or goes on to the next of its phases.
GoesOnTo(new, old) ==
  \/ old = "new" /\ new = "pool"
  \/ old = "pool" /\ new \in {"dropping", "written"}
  \/ old = "dropping" /\ new = "creating"
  \/ old = "creating" /\ new = "inserting"
  \/ old = "inserting" /\ new = "written"
  \/ old = "written" /\ new = "replied"
  \/ old \notin {"new", "replied", "failed"} /\ new = "failed"

LEMMA PhasesFall ==
  ASSUME NEW p, NEW q, NEW jobs, q.at \in CallPhases, GoesOnTo(p.at, q.at)
  PROVE  CallAdvances(p, q, jobs)
BY DEF CallAdvances, CallRank, CallPhases, GoesOnTo

LEMMA CallGoes ==
  ASSUME DataMartTypeOK, NEW r \in Requests, Received(r), NEW at \in CallPhases \ {"new"},
         NEW holds \in BOOLEAN, GoesOnTo(at, call[r].at),
         call' = [call EXCEPT ![r] = [call[r] EXCEPT !.at = at, !.holds = holds]]
  PROVE  CallsAdvance
<1>1. call'[r].at = at /\ \A q \in Requests \ {r} : call'[q] = call[q]
  BY GoGoes
<1>2. call[r].at \in CallPhases
  BY DEF DataMartTypeOK, CallShape
<1>3. CallAdvances(call'[r], call[r], Jobs(r))
  BY <1>1, <1>2, PhasesFall
<1> QED
  BY <1>1, <1>3 DEF CallsAdvance

LEMMA JobGoes ==
  ASSUME DataMartTypeOK, NEW r \in Requests, NEW i \in Jobs(r), InPool(r), NEW job,
         SetJob(r, i, job), JobAdvances(job, Job(r, i))
  PROVE  CallsAdvance
<1>1. /\ call'[r].at = call[r].at /\ \A q \in Requests \ {r} : call'[q] = call[q]
      /\ Job(r, i)' = job /\ \A k \in Jobs(r) \ {i} : Job(r, k)' = Job(r, k)
  BY SetJobSets DEF InPool, Received
<1>2. /\ call'[r].jobs[i] = job /\ call[r].jobs[i] = Job(r, i)
      /\ \A k \in Jobs(r) \ {i} : call'[r].jobs[k] = call[r].jobs[k]
  BY <1>1 DEF Job
<1>3. call[r].at = "pool" /\ call'[r].at = "pool"
  BY <1>1 DEF InPool
<1>4. CallAdvances(call'[r], call[r], Jobs(r))
  BY <1>2, <1>3 DEF CallAdvances
<1> QED
  BY <1>1, <1>4 DEF CallsAdvance

LEMMA CallsDie ==
  ASSUME DataMartTypeOK, OutputInv, Die
  PROVE  CallsAdvance
<1>1. ASSUME NEW r \in Requests, call'[r] # call[r]
      PROVE  CallAdvances(call'[r], call[r], Jobs(r))
  <2>1. call[r].at \notin {"new", "replied", "failed"}
    BY <1>1 DEF Die
  <2>2. call'[r].at = "failed"
    BY <2>1, DieSets DEF Ended
  <2>3. call[r].at \in CallPhases
    BY DEF DataMartTypeOK, CallShape
  <2> QED
    BY <2>1, <2>2, <2>3, PhasesFall DEF GoesOnTo
<1> QED
  BY <1>1 DEF CallsAdvance

LEMMA CallThrows ==
  ASSUME DataMartTypeOK, OutputInv, NEW r \in Requests, Throw(r),
         call[r].at \in {"dropping", "creating", "inserting"}
  PROVE  CallsAdvance
<1>1. CASE call' = [call EXCEPT ![r].at = "failed", ![r].holds = FALSE]
  <2>1. call' = [call EXCEPT ![r] = [call[r] EXCEPT !.at = "failed", !.holds = FALSE]]
    BY <1>1, GoesTwice
  <2>2. Received(r) /\ GoesOnTo("failed", call[r].at) /\ "failed" \in CallPhases \ {"new"}
    BY DEF Received, GoesOnTo, CallPhases
  <2> QED
    BY <2>1, <2>2, CallGoes
<1> QED
  BY <1>1, CallsDie DEF Throw

LEMMA CallGoesTo ==
  ASSUME DataMartTypeOK, NEW r \in Requests, Received(r), NEW at \in CallPhases \ {"new"},
         GoesOnTo(at, call[r].at),
         Go(r, at) \/ \E holds \in BOOLEAN : call' = [call EXCEPT ![r].at = at, ![r].holds = holds]
  PROVE  CallsAdvance
<1>1. call[r].holds \in BOOLEAN
  BY DEF DataMartTypeOK, CallShape
<1>2. CASE Go(r, at)
  BY <1>1, <1>2, GoHolds, CallGoes
<1>3. ASSUME NEW holds \in BOOLEAN, call' = [call EXCEPT ![r].at = at, ![r].holds = holds]
      PROVE  CallsAdvance
  <2>1. call' = [call EXCEPT ![r] = [call[r] EXCEPT !.at = at, !.holds = holds]]
    BY <1>3, GoesTwice
  <2> QED
    BY <1>3, <2>1, CallGoes
<1> QED
  BY <1>2, <1>3

LEMMA JobStepGoes ==
  ASSUME DataMartInv, NEW r \in Requests, NEW i \in Jobs(r), JobStep(r, i) \/ FetchRefused(r, i)
  PROVE  CallsAdvance
<1>1. DataMartTypeOK /\ OutputInv /\ InPool(r) /\ Received(r)
  BY DEF DataMartInv, JobStep, Open, OpenRefused, Fetch, FetchOutOfRange, Close, FetchRefused,
         CanOpen, InPool, Received
<1>2. CASE Open(r, i)
  <2> DEFINE job == [at |-> "open", left |-> GridsOf(r), cells |-> [k \in Points(r) |->
                      IF call[r].places[k][1] = 0 THEN Zeros(r, i) ELSE Unset]]
  <2>1. SetJob(r, i, job) /\ job.at = "open" /\ Job(r, i).at = "queued"
    BY <1>2 DEF Open, CanOpen
  <2> HIDE DEF job
  <2>2. JobAdvances(job, Job(r, i))
    BY <2>1 DEF JobAdvances, JobRank
  <2> QED
    BY <1>1, <2>1, <2>2, JobGoes
<1>3. CASE OpenRefused(r, i)
  <2> DEFINE job == [Queued EXCEPT !.at = "done"]
  <2>1. SetJob(r, i, job) /\ job.at = "done" /\ Job(r, i).at = "queued"
    BY <1>3 DEF OpenRefused, CanOpen, Queued
  <2> HIDE DEF job
  <2>2. JobAdvances(job, Job(r, i))
    BY <2>1 DEF JobAdvances, JobRank
  <2> QED
    BY <1>1, <2>1, <2>2, JobGoes
<1>4. CASE Fetch(r, i)
  <2> DEFINE g == Min(Job(r, i).left)
             job == [at |-> "open", left |-> Job(r, i).left \ {g},
                     cells |-> [k \in Points(r) |->
                        IF call[r].places[k][1] = g
                          THEN Cell(r, i, g, call[r].places[k][2], tables[TableOf(r, i)].rows[g])
                          ELSE Job(r, i).cells[k]]]
  <2>1. /\ SetJob(r, i, job) /\ job.at = "open" /\ job.left = Job(r, i).left \ {g}
        /\ Job(r, i).at = "open" /\ Job(r, i).left # {}
    BY <1>1, <1>4, FetchSets DEF Fetch
  <2>2. Job(r, i).left \subseteq Nat
    BY <1>1, DatabaseAssumption DEF DataMartInv, JobsInv, JobInv
  <2>3. g \in Job(r, i).left
    BY <2>1, <2>2, MinIsMember
  <2> HIDE DEF g, job
  <2>4. JobAdvances(job, Job(r, i))
    BY <2>1, <2>3 DEF JobAdvances, Shrinks
  <2> QED
    BY <1>1, <2>1, <2>4, JobGoes
<1>5. CASE FetchOutOfRange(r, i)
  BY <1>1, <1>5, CallsDie DEF FetchOutOfRange
<1>6. CASE Close(r, i) \/ FetchRefused(r, i)
  <2> DEFINE job == [at |-> "done", left |-> Job(r, i).left, cells |-> Job(r, i).cells]
  <2>1. EndJob(r, i) /\ Job(r, i).at = "open"
    BY <1>6 DEF Close, FetchRefused
  <2>2. SetJob(r, i, job) /\ job.at = "done"
    BY <1>1, <2>1, EndJobSets
  <2> HIDE DEF job
  <2>3. JobAdvances(job, Job(r, i))
    BY <2>1, <2>2 DEF JobAdvances, JobRank
  <2> QED
    BY <1>1, <2>2, <2>3, JobGoes
<1> QED
  BY <1>2, <1>3, <1>4, <1>5, <1>6 DEF JobStep

LEMMA ReceiveGoes ==
  ASSUME DataMartTypeOK, NEW r \in Requests, Receive(r)
  PROVE  CallsAdvance
<1> DEFINE c == [at |-> "pool", places |-> Located(r), jobs |-> [i \in Jobs(r) |-> Queued],
                 holds |-> FALSE]
<1>1. call' = [call EXCEPT ![r] = c] /\ c.at = "pool" /\ call[r].at = "new"
  BY DEF Receive
<1> HIDE DEF c
<1>2. call'[r] = c /\ \A q \in Requests \ {r} : call'[q] = call[q]
  BY <1>1 DEF DataMartTypeOK
<1>3. CallAdvances(call'[r], call[r], Jobs(r))
  BY <1>1, <1>2, PhasesFall DEF GoesOnTo, CallPhases
<1> QED
  BY <1>2, <1>3 DEF CallsAdvance

LEMMA CallsMove ==
  ASSUME DataMartInv, NEW r \in Requests, CallStep(r) \/ CallFails(r)
  PROVE  CallsAdvance
<1>1. DataMartTypeOK /\ OutputInv
  BY DEF DataMartInv
<1>2. CASE Gather(r)
  <2>1. PICK at \in {"written", "dropping"} : Go(r, at)
    BY <1>2 DEF Gather
  <2>2. GoesOnTo(at, call[r].at) /\ at \in CallPhases \ {"new"} /\ Received(r)
    BY <1>2, <2>1 DEF Gather, InPool, Received, GoesOnTo, CallPhases
  <2> QED
    BY <1>1, <2>1, <2>2, CallGoesTo
<1>3. CASE Drop(r)
  <2>1. /\ Received(r) /\ GoesOnTo("creating", call[r].at) /\ "creating" \in CallPhases \ {"new"}
        /\ \E holds \in BOOLEAN : call' = [call EXCEPT ![r].at = "creating", ![r].holds = holds]
    BY <1>3 DEF Drop, Received, GoesOnTo, CallPhases
  <2> QED
    BY <1>1, <2>1, CallGoesTo
<1>4. CASE Create(r)
  <2>1. /\ Received(r) /\ GoesOnTo("inserting", call[r].at) /\ "inserting" \in CallPhases \ {"new"}
        /\ \E holds \in BOOLEAN : call' = [call EXCEPT ![r].at = "inserting", ![r].holds = holds]
    BY <1>4 DEF Create, CanCreate, Received, GoesOnTo, CallPhases
  <2> QED
    BY <1>1, <2>1, CallGoesTo
<1>5. CASE Commit_(r)
  <2>1. /\ Received(r) /\ GoesOnTo("written", call[r].at) /\ "written" \in CallPhases \ {"new"}
        /\ \E holds \in BOOLEAN : call' = [call EXCEPT ![r].at = "written", ![r].holds = holds]
    BY <1>5 DEF Commit_, Received, GoesOnTo, CallPhases
  <2> QED
    BY <1>1, <2>1, CallGoesTo
<1>6. CASE Reply(r)
  <2>1. /\ Received(r) /\ GoesOnTo("replied", call[r].at) /\ "replied" \in CallPhases \ {"new"}
        /\ Go(r, "replied")
    BY <1>6 DEF Reply, Received, GoesOnTo, CallPhases
  <2> QED
    BY <1>1, <2>1, CallGoesTo
<1>7. CASE OutputRefused(r)
  BY <1>1, <1>7, CallThrows DEF OutputRefused, CanCreate
<1>8. CASE OutputOfNothing(r) \/ InsertOverrun(r)
  BY <1>1, <1>8, CallsDie DEF OutputOfNothing, InsertOverrun
<1>9. CASE LoseServerConnection(r)
  BY <1>1, <1>9, CallsDie, CallThrows DEF LoseServerConnection
<1>10. CASE CallStep(r)
  BY <1>1, <1>2, <1>3, <1>4, <1>5, <1>6, <1>7, <1>8, <1>10, JobStepGoes, ReceiveGoes DEF CallStep
<1>11. CASE CallFails(r)
  BY <1>9, <1>11, JobStepGoes DEF CallFails
<1> QED
  BY <1>10, <1>11

LEMMA AllAdvance ==
  ASSUME PipelineInv, [Next]_vars
  PROVE  [ProgramsAdvance /\ CallsAdvance]_vars
<1>1. DriversInv /\ FreshnessInv /\ DataMartInv
  BY DEF PipelineInv
<1>2. UNCHANGED proc => ProgramsAdvance
  BY DEF ProgramsAdvance
<1>3. UNCHANGED call => CallsAdvance
  BY DEF CallsAdvance
<1>4. ASSUME NEW d \in Programs, Start(d) \/ DriverStep(d) \/ DriverFails(d), UNCHANGED datamart
      PROVE  ProgramsAdvance /\ CallsAdvance
  BY <1>1, <1>3, <1>4, ProgramsMove DEF datamart
<1>5. CASE (FreshnessStep \/ Stop) /\ UNCHANGED datamart
  <2>1. CASE Call
    <3>1. Driver \in Programs /\ Start(Driver)
      BY <1>1, <2>1, DriverIsProgram DEF Call, FreshnessInv
    <3> QED
      BY <1>4, <1>5, <3>1
  <2>2. CASE ~Call
    <3>1. UNCHANGED proc
      BY <1>5, <2>2 DEF FreshnessStep, Check, Date, Answer, DropSums, Sum, Stop
    <3> QED
      BY <1>2, <1>3, <1>5, <3>1 DEF datamart
  <2> QED
    BY <2>1, <2>2
<1>6. CASE Next
  <2>1. CASE \E d \in Operators \cap scene : Start(d) /\ UNCHANGED <<freshness, datamart>>
    <3>1. Operators \subseteq Programs
      BY PipelineAssumption
    <3> QED
      BY <1>4, <2>1, <3>1
  <2>2. CASE \E d \in Programs \cap scene :
               (DriverStep(d) \/ DriverFails(d)) /\ UNCHANGED <<freshness, datamart>>
    BY <1>4, <2>2
  <2>3. CASE \E r \in Requests \cap scene :
               (CallStep(r) \/ CallFails(r)) /\ UNCHANGED <<proc, freshness>>
    BY <1>1, <1>2, <2>3, CallsMove
  <2>4. CASE Assemble /\ UNCHANGED <<proc, freshness, datamart>>
    BY <1>2, <1>3, <2>4 DEF datamart
  <2>5. CASE StartServer /\ UNCHANGED <<proc, freshness>>
    BY <1>2, <1>3, <2>5 DEF StartServer
  <2> QED
    BY <1>5, <1>6, <2>1, <2>2, <2>3, <2>4, <2>5 DEF Next
<1> QED
  BY <1>6

-------------------------------------------------------------------------------
(* The theorems.                                                           *)

\* Whoever is interrupted where, each program, each call and each lock is somewhere
\* the code can have it: in particular, the transactions that have read from a table
\* are the open jobs of calls that wait for their pools, and only one request at a
\* time holds an output table.
THEOREM TypeCorrect == Spec => []PipelineTypeOK
<1>1. PipelineInv => PipelineTypeOK
  BY TypesFollow
<1> QED
  BY <1>1, PipelineInvariant, PTL

\* A driver that ends with 0 has made every table it was asked for from every grid it
\* had, or has logged an error for what is missing, or another program has created
\* the table again since: with any number of programs on the same tables, refused
\* statements and readers in between.
THEOREM NothingIsLostSilently == Spec => []NothingSilentlyLost
<1>1. PipelineInv => NothingSilentlyLost
  BY NothingIsLost DEF PipelineInv
<1> QED
  BY <1>1, PipelineInvariant, PTL

\* A date in the log of the freshness check is one the table is really from, unless
\* an error was logged or the table is another by now, although the date is read
\* before the driver is started and written after it has ended.
THEOREM TheLogIsRight == Spec => []DoneIsDone
<1>1. PipelineInv => DoneIsDone
  BY LoggedIsDone DEF PipelineInv
<1> QED
  BY <1>1, PipelineInvariant, PTL

\* The columns that a job returns were read from one table, although it reads them
\* with a query for each grid and drivers create and fill the table meanwhile.
THEOREM ColumnsAreFromOneTable == Spec => []ColumnsAreOneTable
<1>1. PipelineInv => ColumnsAreOneTable
  BY ColumnsComeFromOneTable DEF PipelineInv
<1> QED
  BY <1>1, PipelineInvariant, PTL

\* A request that was answered has its output table, and no other request that
\* creates the same table and fails takes it away.
THEOREM AnsweredOutputStays == Spec => []OutputStays
<1>1. PipelineInv => OutputStays
  BY AnsweredHaveOutput DEF PipelineInv
<1> QED
  BY <1>1, PipelineInvariant, PTL

\* A job that nothing has interrupted and whose table nobody has written since the
\* request arrived tells each of its points the objects of the square it lies in, in
\* the grid with the least id, summed over the radii that were asked for: whatever
\* drivers, the other jobs and the other requests do meanwhile.
THEOREM UndisturbedReadsAreRight == Spec => []UndisturbedIsRight
<1>1. Init => CalmInv
  BY CalmStarts
<1>2. PipelineInv /\ CalmInv /\ [Next]_vars => CalmInv'
  BY CalmKeeps
<1>3. PipelineInv /\ CalmInv => UndisturbedIsRight
  BY CalmIsRight DEF PipelineInv, DataMartInv
<1> QED
  BY <1>1, <1>2, <1>3, PipelineInvariant, PTL DEF Spec

\* Nobody waits in vain, and nobody goes back: a program that waits with DROP waits for
\* jobs that are open and wait for nothing, a request that waits with its output table
\* for one that does not wait, and a pool always has a job to run; each step and each
\* fault brings a program or a call nearer its end.  So there is neither a deadlock nor
\* an endless retry, whoever meets at the locks; that each gets its turn, which their
\* ends need too, is fairness.
THEOREM AllProgress == Spec => Progress
<1>1. PipelineInv => NobodyWaitsInVain
  BY WaitingEnds
<1>2. PipelineInv /\ [Next]_vars => [ProgramsAdvance /\ CallsAdvance]_vars
  BY AllAdvance
<1> QED
  BY <1>1, <1>2, PipelineInvariant, PTL DEF Spec, Progress, NobodyGoesBack
===============================================================================
