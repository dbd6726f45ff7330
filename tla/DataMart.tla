-------------------------------- MODULE DataMart --------------------------------
(***************************************************************************)
(* The data mart manager (primary/data_mart_manager.cc).                   *)
(*                                                                         *)
(* A request has points and names tables of radii.  The server finds the   *)
(* grid and square of every point in the grids it loaded when it started;  *)
(* the threads of a pool then look up each table in a transaction of its   *)
(* own, one query for each grid; the columns are returned, written to an   *)
(* output table, or both.                                                  *)
(***************************************************************************)
EXTENDS RadiiDatabase, SequencesExt, FiniteSetsExt

CONSTANTS
  Requests,     \* the calls
  Request,      \* [points, tables, output, uniform]: what each asks for
  Place,        \* by point: the grids that contain it, with the square
  Threads,      \* --threads_per_request
  MaxStarts     \* how often the server is started

NoOutput == ""
Outputs == {Request[r].output : r \in Requests} \ {NoOutput}

ASSUME DataMartAssumption ==
  /\ Threads \in Nat \ {0} /\ MaxStarts \in Nat
  /\ \A p \in DOMAIN Place : DOMAIN Place[p] \subseteq Grids
  /\ NoOutput \notin Requests
  /\ \A r \in Requests : Request[r].tables \in Seq([name : Tables, radii : Seq(Nat)])

VARIABLES
  server,   \* [up, starts, regions]
  call,     \* by request: [at, places, jobs]
  marts,    \* the output tables
  seen      \* history: by request and job, what the job's table was
datamart == <<server, call, marts, seen>>

NoMart == [by |-> NoOutput, columns |-> <<>>]
NewCall == [at |-> "new", places |-> <<>>, jobs |-> <<>>, holds |-> FALSE]

DataMartInit ==
  /\ server = [up |-> FALSE, regions |-> {}, starts |-> 0]
  /\ call = [r \in Requests |-> NewCall]
  /\ marts = [o \in Outputs |-> NoMart]
  /\ seen = [r \in Requests |-> <<>>]

Points(r) == DOMAIN Request[r].points
Jobs(r) == DOMAIN Request[r].tables
Wanted(r, i) == Request[r].tables[i].radii
TableOf(r, i) == Request[r].tables[i].name

\* The constructor loads the grids once; LoadGridMetadata has no grids where the
\* query is refused.
StartServer ==
  /\ ~server.up /\ server.starts < MaxStarts
  /\ \E loaded \in {Grids, {}} :
       /\ LoadGridMetadata(loaded)
       /\ server' = [up |-> TRUE, regions |-> loaded, starts |-> server.starts + 1]
  /\ UNCHANGED <<call, marts, seen, assembled, tables, readers>>

-------------------------------------------------------------------------------
(* Where the points are.                                                   *)

\* Mutant: the grid that was loaded last.
LastRegion(p) ==
  LET found == DOMAIN Place[p] \cap server.regions IN
  IF found = {} THEN <<0, 0>> ELSE <<Max(found), Place[p][Max(found)]>>
\* GetRegionAndSquare: the first of the grids, which come in the order of their
\* ids; 0 and 0 where there is none.
GetRegionAndSquare(p) ==
  LET found == DOMAIN Place[p] \cap server.regions IN
  IF found = {} THEN <<0, 0>> ELSE <<Min(found), Place[p][Min(found)]>>

\* A cell that is no number leaves grid and square unset, which reads as 0.
Located(r) ==
  [k \in Points(r) |-> IF Request[r].points[k] \in DOMAIN Place
                         THEN GetRegionAndSquare(Request[r].points[k]) ELSE <<0, 0>>]

\* A column that has not been made, and a cell that has not been filled.
NoColumns == <<>>
Unset == <<>>
Queued == [at |-> "queued", left |-> {}, cells |-> NoColumns]

\* The points are located and a job is posted for each table.
Receive(r) ==
  /\ server.up /\ call[r].at = "new"
  /\ call' = [call EXCEPT ![r] = [at |-> "pool", places |-> Located(r),
                                  jobs |-> [i \in Jobs(r) |-> Queued], holds |-> FALSE]]
  /\ seen' = [seen EXCEPT ![r] = [i \in Jobs(r) |->
                [before |-> tables[TableOf(r, i)], born |-> {},
                 calm |-> FALSE, regions |-> server.regions]]]
  /\ UNCHANGED <<server, marts, database>>

-------------------------------------------------------------------------------
(* The jobs (ProcessRubric).                                               *)

Job(r, i) == call[r].jobs[i]
InPool(r) == call[r].at = "pool"

\* Mutant: the transactions are left open.
DieOpen ==
  /\ server' = [server EXCEPT !.up = FALSE]
  /\ call' = [r \in Requests |-> IF call[r].at \in {"new", "replied", "failed"} THEN call[r]
                                 ELSE [call[r] EXCEPT !.at = "failed", !.holds = FALSE]]
  /\ UNCHANGED <<marts, seen, assembled, tables, readers>>

\* The process ends: open transactions are rolled back, no call is answered.
Die ==
  /\ server' = [server EXCEPT !.up = FALSE]
  /\ call' = [r \in Requests |-> IF call[r].at \in {"new", "replied", "failed"} THEN call[r]
                                 ELSE [call[r] EXCEPT !.at = "failed", !.holds = FALSE]]
  /\ readers' = [t \in Tables |-> {}]
  /\ UNCHANGED <<marts, seen, assembled, tables>>

SetJob(r, i, job) == call' = [call EXCEPT ![r].jobs[i] = job]

\* A free thread takes the next job.
CanOpen(r, i) ==
  /\ InPool(r) /\ Job(r, i).at = "queued"
  /\ \A k \in 1..(i - 1) : Job(r, k).at # "queued"
  /\ Cardinality({k \in Jobs(r) : Job(r, k).at = "open"}) < Threads

Zeros(r, i) == [k \in DOMAIN Wanted(r, i) |-> 0]
GridsOf(r) == {call[r].places[k][1] : k \in Points(r)} \ {0}

\* The first query counts the table's columns; its lock stays until the job ends.
\* Points without a grid need no query.
Open(r, i) ==
  /\ CanOpen(r, i) /\ Exists(TableOf(r, i))
  /\ SetJob(r, i, [at |-> "open", left |-> GridsOf(r),
                   cells |-> [k \in Points(r) |->
                     IF call[r].places[k][1] = 0 THEN Zeros(r, i) ELSE Unset]])
  /\ readers' = [readers EXCEPT ![TableOf(r, i)] = @ \cup {<<r, i>>}]
  /\ UNCHANGED <<server, marts, seen, assembled, tables, faults>>

\* Without a table, or when the query is refused, there are no columns.
OpenRefused(r, i) ==
  /\ CanOpen(r, i)
  /\ \/ ~Exists(TableOf(r, i)) /\ UNCHANGED faults
     \/ Fault
  /\ SetJob(r, i, [Queued EXCEPT !.at = "done"])
  /\ UNCHANGED <<server, marts, seen, assembled, tables, readers>>

\* std::partial_sum over the radii that were asked for.
PartialSums(rings, wanted) ==
  [k \in DOMAIN wanted |-> FoldLeft(LAMBDA a, b : a + b, 0,
     [j \in 1..k |-> rings[wanted[j] \div 100 + 1]])]

\* A square without a row has zeros.
Cell(r, i, g, s, dates) ==
  LET t == TableOf(r, i)  found == DatesOf(t, g, s, dates) IN
  IF found = {} THEN Zeros(r, i)
  ELSE PartialSums(Content[t][CHOOSE n \in found : TRUE][g][s], Wanted(r, i))

\* A radius behind the last column of a row: an assertion, and without assertions a
\* conversion that fails, end the process.
OutOfRange(r, i, g) ==
  LET t == TableOf(r, i) IN
  \E n \in tables[t].rows[g] : \E s \in DOMAIN Content[t][n][g], k \in DOMAIN Wanted(r, i) :
    Wanted(r, i)[k] \div 100 + 1 \notin DOMAIN Content[t][n][g][s]

\* The points are sorted by grid: the rows of the next one are read and the cells of
\* its points filled.
Fetch(r, i) ==
  /\ InPool(r) /\ Job(r, i).at = "open" /\ Job(r, i).left # {}
  /\ LET g == Min(Job(r, i).left)  t == TableOf(r, i) IN
     /\ ~OutOfRange(r, i, g)
     /\ SetJob(r, i, [Job(r, i) EXCEPT !.left = @ \ {g},
          !.cells = [k \in Points(r) |->
             IF call[r].places[k][1] = g
               THEN Cell(r, i, g, call[r].places[k][2], tables[t].rows[g])
               ELSE Job(r, i).cells[k]]])
     /\ seen' = [seen EXCEPT ![r][i].born = @ \cup {tables[t].born}]
  /\ UNCHANGED <<server, marts, database>>

FetchOutOfRange(r, i) ==
  /\ InPool(r) /\ Job(r, i).at = "open" /\ Job(r, i).left # {}
  /\ OutOfRange(r, i, Min(Job(r, i).left))
  /\ Die /\ UNCHANGED faults

EndJob(r, i) ==
  /\ call' = [call EXCEPT ![r].jobs[i].at = "done"]
  /\ readers' = [readers EXCEPT ![TableOf(r, i)] = @ \ {<<r, i>>}]

\* The transaction ends with the job.
Close(r, i) ==
  /\ InPool(r) /\ Job(r, i).at = "open" /\ Job(r, i).left = {}
  /\ EndJob(r, i)
  /\ seen' = [seen EXCEPT ![r][i].calm = (tables[TableOf(r, i)] = seen[r][i].before)]
  /\ UNCHANGED <<server, marts, assembled, tables, faults>>

\* An sql_error ends the job; MakeDataMart does not look at what it returns.
FetchRefused(r, i) ==
  /\ InPool(r) /\ Job(r, i).at = "open" /\ Job(r, i).left # {}
  /\ Fault /\ EndJob(r, i)
  /\ UNCHANGED <<server, marts, seen, assembled, tables>>

-------------------------------------------------------------------------------
(* The answer and the output table (the end of MakeDataMart).              *)

Output(r) == Request[r].output
Holders(o) == {r \in Requests : Output(r) = o /\ call[r].holds}
Go(r, phase) == call' = [call EXCEPT ![r].at = phase]

\* The pool is joined.
Gather(r) ==
  /\ InPool(r) /\ \A i \in Jobs(r) : Job(r, i).at = "done"
  /\ Go(r, IF Output(r) = NoOutput THEN "written" ELSE "dropping")
  /\ UNCHANGED <<server, marts, seen, database>>

\* Mutant: the old table is dropped in a transaction of its own.
DropAlone(r) ==
  /\ call[r].at = "dropping" /\ Holders(Output(r)) = {}
  /\ marts' = [marts EXCEPT ![Output(r)] = NoMart]
  /\ Go(r, "creating")
  /\ UNCHANGED <<server, seen, database>>

\* DROP TABLE IF EXISTS waits for the transaction that holds the table, if it exists.
Drop(r) ==
  /\ call[r].at = "dropping"
  /\ marts[Output(r)] # NoMart => Holders(Output(r)) = {}
  /\ call' = [call EXCEPT ![r].at = "creating", ![r].holds = marts[Output(r)] # NoMart]
  /\ UNCHANGED <<server, marts, seen, database>>

\* Mutant: the table is created in a second transaction, which waits for the first.
CanCreateApart(r) == call[r].at = "creating" /\ Holders(Output(r)) = {}

\* A table that another request has created or dropped is waited for.
CanCreate(r) == call[r].at = "creating" /\ Holders(Output(r)) \subseteq {r}

Create(r) ==
  /\ CanCreate(r) /\ Points(r) # {}
  /\ call[r].holds \/ marts[Output(r)] = NoMart
  /\ call' = [call EXCEPT ![r].at = "inserting", ![r].holds = TRUE]
  /\ UNCHANGED <<server, marts, seen, database>>

\* An exception leaves the handler: the call is answered with an error or, in
\* older releases of gRPC, the process ends.
Throw(r) ==
  \/ /\ call' = [call EXCEPT ![r].at = "failed", ![r].holds = FALSE]
     /\ UNCHANGED <<server, marts, seen, assembled, tables, readers>>
  \/ Die

\* The table was created by another request after it was looked for, or the database
\* refuses.  The type of a column is that of its first cell: if that has none the table
\* cannot be created, if another has a different one its row cannot be inserted.
OutputRefused(r) ==
  /\ \/ /\ CanCreate(r) /\ Points(r) # {}
        /\ ~Request[r].uniform \/ (~call[r].holds /\ marts[Output(r)] # NoMart)
        /\ UNCHANGED faults
     \/ call[r].at = "inserting" /\ ~Request[r].uniform /\ UNCHANGED faults
     \/ call[r].at \in {"dropping", "creating", "inserting"} /\ Fault
  /\ Throw(r)

\* cells(0) of a column without rows.
OutputOfNothing(r) ==
  /\ call[r].at = "creating" /\ Points(r) = {}
  /\ Die /\ UNCHANGED faults

Lacking(r) == {i \in Jobs(r) : Job(r, i).cells = NoColumns /\ Wanted(r, i) # <<>>}

\* result[z][j] of a rubric without columns.
InsertOverrun(r) ==
  /\ call[r].at = "inserting" /\ Lacking(r) # {}
  /\ Die /\ UNCHANGED faults

\* All rows are inserted and committed; unset cells are written as 0.
Commit_(r) ==
  /\ call[r].at = "inserting" /\ Request[r].uniform /\ Lacking(r) = {}
  /\ marts' = [marts EXCEPT ![Output(r)] =
       [by |-> r, columns |-> [i \in Jobs(r) |-> [k \in Points(r) |->
          IF Job(r, i).cells[k] = Unset THEN Zeros(r, i) ELSE Job(r, i).cells[k]]]]]
  /\ call' = [call EXCEPT ![r].at = "written", ![r].holds = FALSE]
  /\ UNCHANGED <<server, seen, database>>

Reply(r) ==
  /\ call[r].at = "written"
  /\ Go(r, "replied")
  /\ UNCHANGED <<server, marts, seen, database>>

\* A lost connection, or one that cannot be opened, is no sql_error.  In the thread of a
\* pool it ends the process, in the handler it is thrown.
LoseServerConnection(r) ==
  /\ Fault
  /\ \/ (\E i \in Jobs(r) : CanOpen(r, i) \/ (InPool(r) /\ Job(r, i).at = "open")) /\ Die
     \/ call[r].at \in {"dropping", "creating", "inserting"} /\ Throw(r)

JobStep(r, i) ==
  Open(r, i) \/ OpenRefused(r, i) \/ Fetch(r, i) \/ FetchOutOfRange(r, i) \/ Close(r, i)
CallStep(r) ==
  \/ Receive(r) \/ Gather(r) \/ Drop(r) \/ Create(r) \/ OutputRefused(r)
  \/ OutputOfNothing(r) \/ InsertOverrun(r) \/ Commit_(r) \/ Reply(r)
  \/ \E i \in Jobs(r) : JobStep(r, i)
CallFails(r) == LoseServerConnection(r) \/ \E i \in Jobs(r) : FetchRefused(r, i)

-------------------------------------------------------------------------------
(* Properties.                                                             *)

\* The jobs whose transaction has read from a table, and keeps it therefore.
Reading(r, t) ==
  {i \in Jobs(r) : InPool(r) /\ TableOf(r, i) = t /\ Job(r, i).at = "open"}

\* A column is read from one table: the table is not replaced between the grids,
\* and the points of a grid find all of its rows or none, whoever writes meanwhile.
ColumnsAreOneTable ==
  \A r \in Requests : \A i \in DOMAIN call[r].jobs :
    /\ Cardinality(seen[r][i].born) <= 1
    /\ Job(r, i).cells # NoColumns => \A g \in GridsOf(r) :
         LET inside == {k \in Points(r) : call[r].places[k][1] = g} IN
         \/ \A k \in inside : Job(r, i).cells[k] = Unset
         \/ \E dates \in SUBSET Dates : \A k \in inside :
              Job(r, i).cells[k] = Cell(r, i, g, call[r].places[k][2], dates)

\* What a point is told of a table: for each radius it asks for, the objects of
\* its square in that ring and in those it asks for before, in the grid with the
\* least id of those around it.
Ring(t, g, s, dates, ring) ==
  LET n == {d \in dates : s \in DOMAIN Content[t][d][g]} IN
  IF n = {} THEN 0 ELSE Content[t][CHOOSE d \in n : TRUE][g][s][ring + 1]
InRings(t, g, s, dates, wanted, m) ==
  MapThenSumSet(LAMBDA j : Ring(t, g, s, dates, wanted[j] \div 100), 1..m)
Told(r, i, k) ==
  LET p == Request[r].points[k]  t == TableOf(r, i)  rows == seen[r][i].before.rows IN
  [m \in DOMAIN Wanted(r, i) |->
     IF p \notin DOMAIN Place \/ DOMAIN Place[p] = {} THEN 0
     ELSE LET g == CHOOSE h \in DOMAIN Place[p] : \A o \in DOMAIN Place[p] : h <= o IN
          InRings(t, g, Place[p][g], rows[g], Wanted(r, i), m)]

\* A job that nothing has interrupted and whose table nobody has written since its
\* request arrived tells every point exactly that, whatever the other jobs do.
UndisturbedIsRight ==
  \A r \in Requests : \A i \in DOMAIN call[r].jobs :
    Job(r, i).at = "done" /\ seen[r][i].calm /\ seen[r][i].regions = Grids =>
      \A k \in Points(r) : Job(r, i).cells[k] = Told(r, i, k)

\* Once a request has been answered, there is an output table: requests that write
\* to the same one, and fail, leave the table of the other.
OutputStays ==
  \A r \in Requests :
    call[r].at = "replied" /\ Output(r) # NoOutput => marts[Output(r)] # NoMart
===============================================================================
