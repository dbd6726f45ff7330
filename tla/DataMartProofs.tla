---------------------------- MODULE DataMartProofs ----------------------------
(***************************************************************************)
(* What the data mart manager keeps, whatever the drivers do to the tables *)
(* it reads, as long as they respect the locks.                            *)
(*                                                                         *)
(* The argument: the transactions that hold a table are the open jobs of   *)
(* the calls that wait for their pools, so that a table cannot be created  *)
(* anew between two queries of one job; a query fills the cells of a whole *)
(* grid from one state of its rows.  An output table is held by one        *)
(* request at most, and once written it is not missing again.              *)
(*                                                                         *)
(* What an undisturbed job tells (CalmInv): a table is filled and created  *)
(* anew, and never again as it was, so that one that is as it was has not  *)
(* been written; each cell was read from it as it was when the request     *)
(* arrived.  The code adds up rings in order, the promise over a set.      *)
(***************************************************************************)
EXTENDS DataMart, SumTheorems, FiniteSetTheorems, WellFoundedInduction, TLAPS

CallPhases ==
  {"new", "pool", "dropping", "creating", "inserting", "written", "replied", "failed"}
Received(r) == call[r].at # "new"

CallShape(r) ==
  /\ call[r] = [at |-> call[r].at, places |-> call[r].places, jobs |-> call[r].jobs,
                holds |-> call[r].holds]
  /\ call[r].at \in CallPhases /\ call[r].holds \in BOOLEAN
JobShape(r, i) ==
  /\ Job(r, i) = [at |-> Job(r, i).at, left |-> Job(r, i).left, cells |-> Job(r, i).cells]
  /\ Job(r, i).at \in {"queued", "open", "done"}
SeenShape(r, i) ==
  seen[r][i] = [before |-> seen[r][i].before, born |-> seen[r][i].born,
                calm |-> seen[r][i].calm, regions |-> seen[r][i].regions]

DataMartTypeOK ==
  /\ call = [r \in Requests |-> call[r]] /\ seen = [r \in Requests |-> seen[r]]
  /\ readers = [t \in Tables |-> readers[t]] /\ marts = [o \in Outputs |-> marts[o]]
  /\ \A r \in Requests :
       /\ CallShape(r)
       /\ ~Received(r) => call[r].jobs = <<>>
       /\ Received(r) =>
            /\ call[r].jobs = [i \in Jobs(r) |-> Job(r, i)]
            /\ seen[r] = [i \in Jobs(r) |-> seen[r][i]]
            /\ \A i \in Jobs(r) : JobShape(r, i) /\ SeenShape(r, i)

-------------------------------------------------------------------------------
(* The invariant.                                                          *)

\* The cells of a grid's points are filled together, from one state of its rows.
FilledTogether(r, i) ==
  \A g \in GridsOf(r) :
    LET inside == {k \in Points(r) : call[r].places[k][1] = g} IN
    \/ \A k \in inside : Job(r, i).cells[k] = Unset
    \/ \E dates \in SUBSET Dates : \A k \in inside :
         Job(r, i).cells[k] = Cell(r, i, g, call[r].places[k][2], dates)

\* What a job has read, by where it is, and what it has left.
JobInv(r, i) ==
  /\ Job(r, i).left \subseteq Grids
  /\ Job(r, i).at = "queued" => seen[r][i].born = {} /\ Job(r, i).cells = NoColumns
  /\ InPool(r) /\ Job(r, i).at = "open" => seen[r][i].born \subseteq {tables[TableOf(r, i)].born}
  /\ \E n \in Nat : seen[r][i].born \subseteq {n}
  /\ Job(r, i).at = "open" \/ Job(r, i).cells # NoColumns => FilledTogether(r, i)

JobsInv == \A r \in Requests : Received(r) => \A i \in Jobs(r) : JobInv(r, i)

ReadersInv == \A t \in Tables : readers[t] = UNION {{r} \X Reading(r, t) : r \in Requests}

\* The grids of the points are grids of the server, or 0.
PlacesInv ==
  /\ server = [up |-> server.up, regions |-> server.regions, starts |-> server.starts]
  /\ server.regions \subseteq Grids
  /\ \A r \in Requests : Received(r) =>
       \A k \in Points(r) : call[r].places[k][1] \in Grids \cup {0}

\* Output tables are written by requests that name one, one at a time.
OutputInv ==
  /\ \A r \in Requests :
       /\ call[r].at \notin {"new", "replied", "failed"} => server.up
       /\ call[r].holds => call[r].at \in {"creating", "inserting"}
       /\ call[r].at \in {"dropping", "creating", "inserting"} => Output(r) # NoOutput
       /\ call[r].at \in {"written", "replied"} /\ Output(r) # NoOutput =>
            marts[Output(r)] # NoMart
  /\ \A r, q \in Requests : call[r].holds /\ call[q].holds /\ Output(r) = Output(q) => r = q

\* The inductive invariant.
DataMartInv == DataMartTypeOK /\ JobsInv /\ ReadersInv /\ PlacesInv /\ OutputInv

-------------------------------------------------------------------------------
(* What changes with a call.                                               *)

LEMMA ElementOfSeq ==
  ASSUME NEW S, NEW s \in Seq(S), NEW i \in DOMAIN s
  PROVE  s[i] \in S
OBVIOUS

LEMMA JobsNameTables ==
  ASSUME NEW r \in Requests, NEW i \in Jobs(r)
  PROVE  TableOf(r, i) \in Tables
<1> DEFINE Asked == [name : Tables, radii : Seq(Nat)]
<1>1. Request[r].tables \in Seq(Asked)
  BY DataMartAssumption
<1>2. \A a \in Asked : a.name \in Tables
  OBVIOUS
<1> HIDE DEF Asked
<1>3. Request[r].tables[i] \in Asked
  BY <1>1, ElementOfSeq DEF Jobs
<1> QED
  BY <1>2, <1>3 DEF TableOf

\* The minimum of a set of numbers is in it.
LEMMA MinIsMember ==
  ASSUME NEW S, S \subseteq Nat, S # {}
  PROVE  Min(S) \in S /\ \A k \in S : Min(S) <= k
BY LeastNatural DEF Min

\* What is known of a job holds on while its table is the same, and when it ends.
LEMMA FilledStays ==
  ASSUME NEW r, NEW i, Job(r, i)'.cells = Job(r, i).cells, call'[r].places = call[r].places
  PROVE  FilledTogether(r, i) => FilledTogether(r, i)'
BY DEF FilledTogether, GridsOf

LEMMA JobInvStays ==
  ASSUME NEW r \in Requests, NEW i \in Jobs(r), JobInv(r, i), Job(r, i)' = Job(r, i),
         seen'[r][i] = seen[r][i], call'[r].places = call[r].places,
         InPool(r)' /\ Job(r, i).at = "open" =>
           InPool(r) /\ tables'[TableOf(r, i)].born = tables[TableOf(r, i)].born
  PROVE  JobInv(r, i)'
<1>1. FilledTogether(r, i) => FilledTogether(r, i)'
  BY FilledStays
<1> QED
  BY <1>1 DEF JobInv

\* One job of a call in its pool is set.
LEMMA SetJobSets ==
  ASSUME DataMartTypeOK, NEW r \in Requests, NEW i \in Jobs(r), Received(r), NEW job,
         SetJob(r, i, job)
  PROVE  /\ call' = [q \in Requests |-> call'[q]]
         /\ \A q \in Requests : /\ CallShape(q)' /\ call'[q].at = call[q].at
                                /\ call'[q].places = call[q].places
                                /\ call'[q].holds = call[q].holds
         /\ \A q \in Requests \ {r} : call'[q] = call[q]
         /\ Job(r, i)' = job /\ \A k \in Jobs(r) \ {i} : Job(r, k)' = Job(r, k)
         /\ call'[r].jobs = [k \in Jobs(r) |-> Job(r, k)']
<1> DEFINE jobs == [call[r].jobs EXCEPT ![i] = job]
           c == [at |-> call[r].at, places |-> call[r].places, jobs |-> jobs,
                 holds |-> call[r].holds]
<1>1. /\ call = [q \in Requests |-> call[q]] /\ CallShape(r)
      /\ call[r].jobs = [k \in Jobs(r) |-> Job(r, k)]
  BY DEF DataMartTypeOK
<1>2. call' = [call EXCEPT ![r] = [call[r] EXCEPT !.jobs = jobs]]
  BY <1>1 DEF SetJob
<1> HIDE DEF jobs
<1>3. [call[r] EXCEPT !.jobs = jobs] = c
  BY <1>1 DEF CallShape
<1>4. call' = [call EXCEPT ![r] = c]
  BY <1>2, <1>3
<1>5. call'[r] = c /\ \A q \in Requests \ {r} : call'[q] = call[q]
  BY <1>1, <1>4
<1>6. call' = [q \in Requests |-> call'[q]]
  BY <1>1, <1>4
<1>7. \A q \in Requests : CallShape(q)'
  <2>1. CallShape(r)'
    BY <1>1, <1>5 DEF CallShape
  <2> QED
    BY <1>5, <2>1 DEF CallShape, DataMartTypeOK
<1>8. /\ jobs = [k \in Jobs(r) |-> jobs[k]] /\ jobs[i] = job
      /\ \A k \in Jobs(r) \ {i} : jobs[k] = Job(r, k)
  BY <1>1 DEF jobs
<1>9. \A k \in Jobs(r) : Job(r, k)' = jobs[k]
  BY <1>5 DEF Job
<1> QED
  BY <1>5, <1>6, <1>7, <1>8, <1>9

\* Where a call is, and whether it holds its output table.
LEMMA GoGoes ==
  ASSUME DataMartTypeOK, NEW r \in Requests, Received(r), NEW at \in CallPhases \ {"new"},
         NEW holds \in BOOLEAN,
         call' = [call EXCEPT ![r] = [call[r] EXCEPT !.at = at, !.holds = holds]]
  PROVE  /\ call' = [q \in Requests |-> call'[q]]
         /\ \A q \in Requests : CallShape(q)' /\ (Received(q)' <=> Received(q))
         /\ \A q \in Requests \ {r} : call'[q] = call[q]
         /\ call'[r].at = at /\ call'[r].holds = holds
         /\ call'[r].places = call[r].places /\ call'[r].jobs = call[r].jobs
<1> DEFINE c == [at |-> at, places |-> call[r].places, jobs |-> call[r].jobs, holds |-> holds]
<1>1. call = [q \in Requests |-> call[q]] /\ CallShape(r)
  BY DEF DataMartTypeOK
<1>2. [call[r] EXCEPT !.at = at, !.holds = holds] = c
  <2> DEFINE moved == [call[r] EXCEPT !.at = at]
  <2>1. moved = [at |-> at, places |-> call[r].places, jobs |-> call[r].jobs,
                 holds |-> call[r].holds]
    BY <1>1 DEF CallShape
  <2>2. [call[r] EXCEPT !.at = at, !.holds = holds] = [moved EXCEPT !.holds = holds]
    BY Zenon
  <2> HIDE DEF moved
  <2>3. [moved EXCEPT !.holds = holds] = c
    BY <2>1
  <2> QED
    BY <2>2, <2>3
<1>3. call' = [call EXCEPT ![r] = c]
  BY <1>2
<1>4. call'[r] = c /\ \A q \in Requests \ {r} : call'[q] = call[q]
  BY <1>1, <1>3
<1>5. call' = [q \in Requests |-> call'[q]]
  BY <1>1, <1>3
<1>6. CallShape(r)'
  BY <1>4 DEF CallShape
<1>7. \A q \in Requests \ {r} : CallShape(q)'
  BY <1>4 DEF CallShape, DataMartTypeOK
<1> QED
  BY <1>4, <1>5, <1>6, <1>7 DEF Received

-------------------------------------------------------------------------------
(* Sums of rings.                                                          *)

LEMMA MaxIsMember ==
  ASSUME NEW k \in Nat, NEW S, S \subseteq 1..k, S # {}
  PROVE  Max(S) \in S
<1> DEFINE T == {k - x : x \in S}
<1>1. T \subseteq Nat /\ T # {}
  <2>1. ASSUME NEW x \in S
        PROVE  k - x \in Nat
    <3>1. x \in Nat /\ x <= k
      OBVIOUS
    <3> QED
      BY <3>1
  <2> QED
    BY <2>1
<1>2. PICK m : m = Min(T)
  OBVIOUS
<1>3. m \in T /\ \A y \in T : m <= y
  <2> HIDE DEF T
  <2> QED
    BY <1>1, <1>2, MinIsMember
<1>4. PICK x \in S : m = k - x
  BY <1>3
<1>5. ASSUME NEW y \in S
      PROVE  x >= y
  <2>1. k - y \in T /\ x \in Int /\ y \in Int
    OBVIOUS
  <2> HIDE DEF T
  <2>2. k - x <= k - y
    BY <1>3, <1>4, <2>1
  <2> QED
    BY <2>1, <2>2
<1> QED
  BY <1>5 DEF Max

\* The fold from the left takes the elements from the right, which is a sum.
LEMMA FoldIsSum ==
  ASSUME NEW k \in Nat, NEW v, v = [j \in 1..k |-> v[j]], \A j \in 1..k : v[j] \in Int
  PROVE  FoldLeft(LAMBDA a, b : a + b, 0, v) = SumOf(v, 1..k)
<1> DEFINE X == 1..k
           c == [s \in SUBSET X |-> Max(s)]
           F(g) == g = [s \in SUBSET X |-> IF s = {} THEN 0 ELSE g[s \ {Max(s)}] + v[Max(s)]]
           h == CHOOSE g : F(g)
<1>1. FoldLeft(LAMBDA a, b : a + b, 0, v) = h[X]
  <2>1. DOMAIN v = X
    OBVIOUS
  <2> QED
    BY <2>1 DEF FoldLeft, MapThenFoldSet
<1>2. IsFiniteSet(X) /\ \A i \in X : v[i] \in Int
  BY FS_Interval
<1>3. \A s \in SUBSET X : s # {} => c[s] \in s
  BY MaxIsMember
<1>4. ASSUME NEW g
      PROVE  F(g) <=> TakesInOrder(v, c, g, X)
  BY DEF TakesInOrder
<1> HIDE DEF X, c, F
<1>5. \E g : F(g)
  BY <1>2, <1>3, <1>4, SumsInOrder
<1>6. F(h)
  BY <1>5
<1> HIDE DEF h
<1>7. h[X] = SumOf(v, X)
  BY <1>2, <1>3, <1>4, <1>6, SumInAnyOrder
<1> QED
  BY <1>1, <1>7 DEF X

\* What a square's cells are: for each radius, the sum of its rings.
Sums(t, g, s, dates, wanted) ==
  [m \in DOMAIN wanted |->
     SumOf([j \in 1..m |-> Ring(t, g, s, dates, wanted[j] \div 100)], 1..m)]

LEMMA WantedIs ==
  ASSUME NEW r \in Requests, NEW i \in Jobs(r)
  PROVE  Wanted(r, i) \in Seq(Nat)
<1> DEFINE Asked == [name : Tables, radii : Seq(Nat)]
<1>1. Request[r].tables \in Seq(Asked)
  BY DataMartAssumption
<1>2. \A a \in Asked : a.radii \in Seq(Nat)
  OBVIOUS
<1> HIDE DEF Asked
<1>3. Request[r].tables[i] \in Asked
  BY <1>1, ElementOfSeq DEF Jobs
<1> QED
  BY <1>2, <1>3 DEF Wanted

\* A cell that has been read, with a column for every radius, is these sums.
LEMMA CellIsSums ==
  ASSUME NEW r \in Requests, NEW i \in Jobs(r), NEW g \in Grids, ~OutOfRange(r, i, g),
         NEW s, tables[TableOf(r, i)].rows[g] \subseteq Dates
  PROVE  Cell(r, i, g, s, tables[TableOf(r, i)].rows[g])
           = Sums(TableOf(r, i), g, s, tables[TableOf(r, i)].rows[g], Wanted(r, i))
<1>1. PICK t \in Tables : t = TableOf(r, i)
  BY JobsNameTables
<1>2. PICK dates \in SUBSET Dates : dates = tables[t].rows[g]
  BY <1>1
<1>3. PICK wanted \in Seq(Nat) : wanted = Wanted(r, i)
  BY WantedIs
<1>4. PICK found : found = {n \in dates : s \in DOMAIN Content[t][n][g]}
  OBVIOUS
<1>5. DatesOf(t, g, s, dates) = found
  BY <1>4 DEF DatesOf
<1>6. \A m \in DOMAIN wanted : m \in Nat /\ 1..m \subseteq DOMAIN wanted
  OBVIOUS
<1>7. CASE found = {}
  <2>1. Cell(r, i, g, s, dates) = [k \in DOMAIN wanted |-> 0]
    BY <1>1, <1>3, <1>5, <1>7 DEF Cell, Zeros
  <2>2. \A ring : Ring(t, g, s, dates, ring) = 0
    BY <1>4, <1>7 DEF Ring
  <2>3. ASSUME NEW m \in DOMAIN wanted
        PROVE  SumOf([j \in 1..m |-> Ring(t, g, s, dates, wanted[j] \div 100)], 1..m) = 0
    <3> DEFINE v == [j \in 1..m |-> Ring(t, g, s, dates, wanted[j] \div 100)]
    <3>1. \A j \in 1..m : v[j] = 0
      BY <2>2
    <3>2. m \in Int /\ 1 \in Int
      BY <1>6
    <3>3. IsFiniteSet(1..m)
      BY <3>2, FS_Interval
    <3> HIDE DEF v
    <3>4. SumOf(v, 1..m) = 0
      BY <3>1, <3>3, SumOfZeros
    <3> QED
      BY <3>4 DEF v
  <2>4. Sums(t, g, s, dates, wanted) = [k \in DOMAIN wanted |-> 0]
    BY <2>3 DEF Sums
  <2> QED
    BY <1>1, <1>2, <1>3, <2>1, <2>4
<1>8. CASE found # {}
  <2>1. PICK n : n = CHOOSE d \in found : TRUE
    OBVIOUS
  <2>2. n \in found /\ n \in dates /\ n \in Dates /\ s \in DOMAIN Content[t][n][g]
    BY <1>4, <1>8, <2>1
  <2>3. PICK rings \in Seq(Nat) : rings = Content[t][n][g][s]
    BY <2>2, DatabaseAssumption
  <2>4. \A k \in DOMAIN wanted : wanted[k] \div 100 + 1 \in DOMAIN rings
    BY <1>1, <1>2, <1>3, <2>2, <2>3 DEF OutOfRange
  <2>5. Cell(r, i, g, s, dates) = PartialSums(rings, wanted)
    BY <1>1, <1>3, <1>5, <1>8, <2>1, <2>3 DEF Cell
  <2>6. \A ring : Ring(t, g, s, dates, ring) = rings[ring + 1]
    BY <1>4, <1>8, <2>1, <2>3 DEF Ring
  <2>7. ASSUME NEW m \in DOMAIN wanted
        PROVE  FoldLeft(LAMBDA a, b : a + b, 0, [j \in 1..m |-> rings[wanted[j] \div 100 + 1]])
                 = SumOf([j \in 1..m |-> Ring(t, g, s, dates, wanted[j] \div 100)], 1..m)
    <3> DEFINE v == [j \in 1..m |-> rings[wanted[j] \div 100 + 1]]
               w == [j \in 1..m |-> Ring(t, g, s, dates, wanted[j] \div 100)]
    <3>1. m \in Nat /\ v = [j \in 1..m |-> v[j]]
      BY <1>6
    <3>2. ASSUME NEW j \in 1..m
          PROVE  v[j] \in Int /\ v[j] = w[j]
      <4>1. j \in DOMAIN wanted
        BY <1>6
      <4>2. PICK x : x = wanted[j] \div 100
        OBVIOUS
      <4>3. rings[x + 1] \in Int
        BY <2>4, <4>1, <4>2, ElementOfSeq
      <4> QED
        BY <2>6, <4>2, <4>3
    <3>3. v = w
      BY <3>2
    <3> HIDE DEF v, w
    <3>4. FoldLeft(LAMBDA a, b : a + b, 0, v) = SumOf(v, 1..m)
      BY <3>1, <3>2, FoldIsSum
    <3> QED
      BY <3>3, <3>4 DEF v, w
  <2>8. PartialSums(rings, wanted) = Sums(t, g, s, dates, wanted)
    BY <2>7 DEF PartialSums, Sums
  <2> QED
    BY <1>1, <1>2, <1>3, <2>5, <2>8
<1> QED
  BY <1>7, <1>8

-------------------------------------------------------------------------------
(* The jobs.                                                               *)

LEMMA GridsAreKnown ==
  ASSUME DataMartInv, NEW r \in Requests, Received(r), NEW h \in GridsOf(r)
  PROVE  h \in Grids
BY DEF DataMartInv, PlacesInv, GridsOf

\* A step of one job.
LEMMA JobStepKeeps ==
  ASSUME DataMartInv, NEW r \in Requests, NEW i \in Jobs(r), InPool(r),
         NEW job, SetJob(r, i, job), job = [at |-> job.at, left |-> job.left, cells |-> job.cells],
         job.at \in {"queued", "open", "done"},
         seen' = [seen EXCEPT ![r] = [seen[r] EXCEPT ![i] = seen'[r][i]]], SeenShape(r, i)',
         readers' = [t \in Tables |-> IF t # TableOf(r, i) THEN readers[t]
                       ELSE IF job.at = "open" THEN readers[t] \cup {<<r, i>>}
                       ELSE readers[t] \ {<<r, i>>}],
         JobInv(r, i)', UNCHANGED <<server, marts, tables>>
  PROVE  DataMartInv'
<1>1. DataMartTypeOK /\ JobsInv /\ ReadersInv /\ OutputInv /\ Received(r)
  BY DEF DataMartInv, InPool, Received
<1>2. /\ call' = [q \in Requests |-> call'[q]]
      /\ \A q \in Requests : /\ CallShape(q)' /\ call'[q].at = call[q].at
                             /\ call'[q].places = call[q].places
                             /\ call'[q].holds = call[q].holds
      /\ \A q \in Requests \ {r} : call'[q] = call[q]
      /\ Job(r, i)' = job /\ \A k \in Jobs(r) \ {i} : Job(r, k)' = Job(r, k)
      /\ call'[r].jobs = [k \in Jobs(r) |-> Job(r, k)']
  BY <1>1, SetJobSets
<1>3. \A q \in Requests \ {r} : \A k \in Jobs(q) : Job(q, k)' = Job(q, k)
  BY <1>2 DEF Job
<1>4. /\ seen' = [q \in Requests |-> seen'[q]] /\ seen'[r] = [k \in Jobs(r) |-> seen'[r][k]]
      /\ \A q \in Requests \ {r} : seen'[q] = seen[q]
      /\ \A k \in Jobs(r) \ {i} : seen'[r][k] = seen[r][k]
  <2>1. /\ seen = [q \in Requests |-> seen[q]]
        /\ seen[r] = [k \in Jobs(r) |-> seen[r][k]]
    BY <1>1 DEF DataMartTypeOK
  <2> DEFINE s == [seen[r] EXCEPT ![i] = seen'[r][i]]
  <2>2. seen' = [seen EXCEPT ![r] = s] /\ s = [k \in Jobs(r) |-> s[k]]
        /\ \A k \in Jobs(r) \ {i} : s[k] = seen[r][k]
    BY <2>1
  <2> HIDE DEF s
  <2>3. seen' = [q \in Requests |-> seen'[q]] /\ seen'[r] = s
        /\ \A q \in Requests \ {r} : seen'[q] = seen[q]
    BY <2>1, <2>2
  <2> QED
    BY <2>2, <2>3
<1>5. DataMartTypeOK'
  <2>1. readers' = [t \in Tables |-> readers'[t]]
    OBVIOUS
  <2>2. \A q \in Requests : Received(q)' <=> Received(q)
    BY <1>2 DEF Received
  <2>3. ASSUME NEW q \in Requests \ {r}
        PROVE  /\ ~Received(q)' => call'[q].jobs = <<>>
               /\ Received(q)' =>
                    /\ call'[q].jobs = [k \in Jobs(q) |-> Job(q, k)']
                    /\ seen'[q] = [k \in Jobs(q) |-> seen'[q][k]]
                    /\ \A k \in Jobs(q) : JobShape(q, k)' /\ SeenShape(q, k)'
    BY <1>1, <1>2, <1>3, <1>4, <2>2 DEF DataMartTypeOK, JobShape, SeenShape
  <2>4. ASSUME NEW k \in Jobs(r)
        PROVE  JobShape(r, k)' /\ SeenShape(r, k)'
    <3>1. CASE k = i
      BY <1>2, <3>1 DEF JobShape
    <3>2. CASE k # i
      <4>1. Job(r, k)' = Job(r, k) /\ seen'[r][k] = seen[r][k]
        BY <1>2, <1>4, <3>2
      <4>2. JobShape(r, k) /\ SeenShape(r, k)
        BY <1>1 DEF DataMartTypeOK
      <4> QED
        BY <4>1, <4>2 DEF JobShape, SeenShape
    <3> QED
      BY <3>1, <3>2
  <2> QED
    BY <1>1, <1>2, <1>4, <2>1, <2>2, <2>3, <2>4 DEF DataMartTypeOK
<1>6. JobsInv'
  <2>1. ASSUME NEW q \in Requests, Received(q)', NEW k \in Jobs(q)
        PROVE  JobInv(q, k)'
    <3>1. CASE q = r /\ k = i
      BY <3>1
    <3>2. CASE ~(q = r /\ k = i)
      <4>1. Job(q, k)' = Job(q, k) /\ seen'[q][k] = seen[q][k]
        BY <1>2, <1>3, <1>4, <3>2
      <4>2. JobInv(q, k)
        BY <1>1, <1>2, <2>1 DEF JobsInv, Received
      <4>3. InPool(q)' <=> InPool(q)
        BY <1>2 DEF InPool
      <4> QED
        BY <1>2, <4>1, <4>2, <4>3, JobInvStays
    <3> QED
      BY <3>1, <3>2
  <2> QED
    BY <2>1 DEF JobsInv
<1>7. ReadersInv'
  <2>1. \A q \in Requests : InPool(q)' <=> InPool(q)
    BY <1>2 DEF InPool
  <2>2. ASSUME NEW t \in Tables, NEW q \in Requests \ {r}
        PROVE  Reading(q, t)' = Reading(q, t)
    BY <1>3, <2>1 DEF Reading
  <2>3. ASSUME NEW t \in Tables
        PROVE  Reading(r, t)' = IF t # TableOf(r, i) THEN Reading(r, t)
                                ELSE IF job.at = "open" THEN Reading(r, t) \cup {i}
                                ELSE Reading(r, t) \ {i}
    BY <1>2, <2>1 DEF Reading
  <2>4. ASSUME NEW t \in Tables
        PROVE  readers'[t] = UNION {{q} \X Reading(q, t)' : q \in Requests}
    <3>1. readers[t] = UNION {{q} \X Reading(q, t) : q \in Requests}
      BY <1>1 DEF ReadersInv
    <3> QED
      BY <2>2, <2>3, <3>1
  <2> QED
    BY <2>4 DEF ReadersInv
<1>8. OutputInv'
  BY <1>1, <1>2 DEF OutputInv, Output
<1>9. PlacesInv'
  <2>1. PlacesInv
    BY DEF DataMartInv
  <2> QED
    BY <1>2, <2>1 DEF PlacesInv, Received
<1> QED
  BY <1>5, <1>6, <1>7, <1>8, <1>9 DEF DataMartInv

LEMMA OpenKeeps ==
  ASSUME DataMartInv, NEW r \in Requests, NEW i \in Jobs(r), Open(r, i),
         tables[TableOf(r, i)].born \in Nat
  PROVE  DataMartInv'
<1> DEFINE t == TableOf(r, i)
           left == GridsOf(r)
           cells == [k \in Points(r) |->
                       IF call[r].places[k][1] = 0 THEN Zeros(r, i) ELSE Unset]
           job == [at |-> "open", left |-> left, cells |-> cells]
<1>1. DataMartTypeOK /\ JobsInv /\ ReadersInv /\ Received(r) /\ t \in Tables
  BY JobsNameTables DEF DataMartInv, Open, CanOpen, InPool, Received
<1>2. /\ InPool(r) /\ Job(r, i).at = "queued" /\ SetJob(r, i, job)
      /\ readers' = [readers EXCEPT ![t] = readers[t] \cup {<<r, i>>}]
      /\ UNCHANGED <<server, marts, seen, tables>>
  BY DEF Open, CanOpen
<1>3. job = [at |-> job.at, left |-> job.left, cells |-> job.cells]
      /\ job.at = "open" /\ job.cells = cells /\ job.left = left
  OBVIOUS
<1> HIDE DEF left, job
<1>4. /\ Job(r, i)' = job
      /\ \A q \in Requests : /\ call'[q].at = call[q].at
                             /\ call'[q].places = call[q].places
  BY <1>1, <1>2, SetJobSets
<1>5. FilledTogether(r, i)'
  <2>1. ASSUME NEW g \in GridsOf(r), NEW k \in Points(r), call[r].places[k][1] = g
        PROVE  cells[k] = Unset
    BY <2>1 DEF GridsOf
  <2>2. Job(r, i)'.cells = cells
    BY <1>4, <1>3
  <2> HIDE DEF cells
  <2>3. GridsOf(r)' = GridsOf(r)
    BY <1>4 DEF GridsOf
  <2> QED
    BY <1>4, <2>1, <2>2, <2>3 DEF FilledTogether
<1>6. JobInv(r, i)'
  <2>1. seen'[r][i].born = {}
    BY <1>1, <1>2 DEF JobsInv, JobInv
  <2>2. Job(r, i)'.left \subseteq Grids
    BY <1>1, <1>3, <1>4, GridsAreKnown DEF left
  <2> QED
    BY <1>4, <1>5, <1>3, <2>1, <2>2 DEF JobInv
<1>7. /\ seen' = [seen EXCEPT ![r] = [seen[r] EXCEPT ![i] = seen'[r][i]]]
      /\ SeenShape(r, i)'
  BY <1>1, <1>2 DEF DataMartTypeOK, SeenShape
<1>8. readers' = [u \in Tables |-> IF u # t THEN readers[u]
                    ELSE IF job.at = "open" THEN readers[u] \cup {<<r, i>>}
                    ELSE readers[u] \ {<<r, i>>}]
  BY <1>1, <1>2, <1>3 DEF DataMartTypeOK
<1> QED
  BY <1>2, <1>6, <1>7, <1>8, <1>3, JobStepKeeps

\* A job holds its table exactly while it is open.
LEMMA ReadersAreOpen ==
  ASSUME ReadersInv, NEW r \in Requests, NEW i \in Jobs(r), InPool(r)
  PROVE  <<r, i>> \in readers[TableOf(r, i)] <=> Job(r, i).at = "open"
<1>1. TableOf(r, i) \in Tables
  BY JobsNameTables
<1>2. i \in Reading(r, TableOf(r, i)) <=> Job(r, i).at = "open"
  BY DEF Reading
<1> QED
  BY <1>1, <1>2 DEF ReadersInv

\* A job ends without columns, or with the cells it has.
LEMMA EndedKeeps ==
  ASSUME DataMartInv, NEW r \in Requests, NEW i \in Jobs(r), InPool(r), NEW job,
         SetJob(r, i, job), job = [at |-> "done", left |-> job.left, cells |-> job.cells],
         job.cells = NoColumns \/ (Job(r, i).at = "open" /\ job.cells = Job(r, i).cells),
         job.left \subseteq Job(r, i).left,
         seen' = [seen EXCEPT ![r] = [seen[r] EXCEPT ![i] = seen'[r][i]]], SeenShape(r, i)',
         seen'[r][i].born = seen[r][i].born,
         readers' = [readers EXCEPT ![TableOf(r, i)] = @ \ {<<r, i>>}],
         UNCHANGED <<server, marts, tables>>
  PROVE  DataMartInv'
<1>1. DataMartTypeOK /\ JobsInv /\ ReadersInv /\ Received(r) /\ TableOf(r, i) \in Tables
  BY JobsNameTables DEF DataMartInv, InPool, Received
<1>2. /\ Job(r, i)' = job
      /\ \A q \in Requests : /\ call'[q].at = call[q].at
                             /\ call'[q].places = call[q].places
  BY <1>1, SetJobSets
<1>3. JobInv(r, i)'
  <2>1. JobInv(r, i) /\ job.at = "done"
    BY <1>1 DEF JobsInv
  <2>2. job.cells = Job(r, i).cells /\ FilledTogether(r, i) => FilledTogether(r, i)'
    BY <1>2, FilledStays
  <2> QED
    BY <1>2, <2>1, <2>2 DEF JobInv
<1>4. readers' = [u \in Tables |-> IF u # TableOf(r, i) THEN readers[u]
                    ELSE IF job.at = "open" THEN readers[u] \cup {<<r, i>>}
                    ELSE readers[u] \ {<<r, i>>}]
  <2>1. job.at = "done" /\ readers = [u \in Tables |-> readers[u]]
    BY <1>1 DEF DataMartTypeOK
  <2> QED
    BY <1>1, <2>1
<1>5. job = [at |-> job.at, left |-> job.left, cells |-> job.cells]
      /\ job.at \in {"queued", "open", "done"}
  OBVIOUS
<1> QED
  BY <1>3, <1>4, <1>5, JobStepKeeps

LEMMA OpenRefusedKeeps ==
  ASSUME DataMartInv, NEW r \in Requests, NEW i \in Jobs(r), OpenRefused(r, i)
  PROVE  DataMartInv'
<1> DEFINE job == [Queued EXCEPT !.at = "done"]
<1>1. DataMartTypeOK /\ ReadersInv /\ TableOf(r, i) \in Tables
  BY JobsNameTables DEF DataMartInv
<1>2. /\ InPool(r) /\ Job(r, i).at = "queued" /\ SetJob(r, i, job)
      /\ UNCHANGED <<server, marts, seen, tables, readers>>
  BY DEF OpenRefused, CanOpen
<1>3. job = [at |-> "done", left |-> job.left, cells |-> job.cells] /\ job.cells = NoColumns
      /\ job.left \subseteq Job(r, i).left
  BY DEF Queued
<1> HIDE DEF job
<1>4. /\ seen' = [seen EXCEPT ![r] = [seen[r] EXCEPT ![i] = seen'[r][i]]]
      /\ SeenShape(r, i)' /\ seen'[r][i].born = seen[r][i].born
  BY <1>1, <1>2 DEF DataMartTypeOK, SeenShape, InPool, Received
<1>5. readers' = [readers EXCEPT ![TableOf(r, i)] = @ \ {<<r, i>>}]
  <2>1. <<r, i>> \notin readers[TableOf(r, i)]
    BY <1>1, <1>2, ReadersAreOpen
  <2>2. PICK t \in Tables : t = TableOf(r, i)
    BY <1>1
  <2>3. readers = [u \in Tables |-> readers[u]] /\ readers' = readers
    BY <1>1, <1>2 DEF DataMartTypeOK
  <2>4. readers[t] \ {<<r, i>>} = readers[t]
    BY <2>1, <2>2
  <2> QED
    BY <2>2, <2>3, <2>4
<1>6. InPool(r) /\ SetJob(r, i, job) /\ UNCHANGED <<server, marts, tables>>
  BY <1>2
<1> QED
  BY <1>3, <1>4, <1>5, <1>6, EndedKeeps

\* EndJob, as a step of one job.
LEMMA EndJobSets ==
  ASSUME DataMartTypeOK, NEW r \in Requests, NEW i \in Jobs(r), InPool(r), EndJob(r, i)
  PROVE  /\ SetJob(r, i, [at |-> "done", left |-> Job(r, i).left, cells |-> Job(r, i).cells])
         /\ readers' = [readers EXCEPT ![TableOf(r, i)] = @ \ {<<r, i>>}]
<1>1. [Job(r, i) EXCEPT !.at = "done"]
        = [at |-> "done", left |-> Job(r, i).left, cells |-> Job(r, i).cells]
  <2>1. JobShape(r, i)
    BY DEF DataMartTypeOK, InPool, Received
  <2> QED
    BY <2>1 DEF JobShape
<1>2. call' = [call EXCEPT ![r].jobs[i] = [Job(r, i) EXCEPT !.at = "done"]]
  BY DEF EndJob, Job
<1> QED
  BY <1>1, <1>2 DEF SetJob, EndJob

\* What a job has seen when its transaction ends.
LEMMA CloseSees ==
  ASSUME DataMartTypeOK, NEW r \in Requests, NEW i \in Jobs(r), Close(r, i)
  PROVE  /\ seen' = [seen EXCEPT ![r] = [seen[r] EXCEPT ![i] = seen'[r][i]]]
         /\ SeenShape(r, i)' /\ seen'[r][i].born = seen[r][i].born
         /\ seen'[r][i].before = seen[r][i].before
         /\ seen'[r][i].calm = (tables[TableOf(r, i)] = seen[r][i].before)
         /\ seen'[r][i].regions = seen[r][i].regions
<1> DEFINE calm == tables[TableOf(r, i)] = seen[r][i].before
<1>1. /\ seen = [q \in Requests |-> seen[q]] /\ seen[r] = [k \in Jobs(r) |-> seen[r][k]]
      /\ SeenShape(r, i)
  BY DEF DataMartTypeOK, Close, InPool, Received
<1>2. seen' = [seen EXCEPT ![r] = [seen[r] EXCEPT ![i] = [seen[r][i] EXCEPT !.calm = calm]]]
  BY DEF Close
<1>3. [seen[r][i] EXCEPT !.calm = calm]
        = [before |-> seen[r][i].before, born |-> seen[r][i].born, calm |-> calm,
           regions |-> seen[r][i].regions]
  BY <1>1 DEF SeenShape
<1> HIDE DEF calm
<1>4. seen'[r][i] = [before |-> seen[r][i].before, born |-> seen[r][i].born, calm |-> calm,
                     regions |-> seen[r][i].regions]
  BY <1>1, <1>2, <1>3
<1>5. seen' = [seen EXCEPT ![r] = [seen[r] EXCEPT ![i] = seen'[r][i]]] /\ SeenShape(r, i)'
  BY <1>1, <1>2, <1>3, <1>4 DEF SeenShape
<1>6. seen'[r][i].calm = calm
  BY <1>4
<1> QED
  BY <1>4, <1>5, <1>6 DEF calm

LEMMA CloseKeeps ==
  ASSUME DataMartInv, NEW r \in Requests, NEW i \in Jobs(r), Close(r, i)
  PROVE  DataMartInv'
<1> DEFINE job == [at |-> "done", left |-> Job(r, i).left, cells |-> Job(r, i).cells]
<1>1. DataMartTypeOK /\ InPool(r) /\ Job(r, i).at = "open" /\ Received(r)
  BY DEF DataMartInv, Close, InPool, Received
<1>2. /\ SetJob(r, i, job) /\ readers' = [readers EXCEPT ![TableOf(r, i)] = @ \ {<<r, i>>}]
      /\ UNCHANGED <<server, marts, tables>>
  BY <1>1, EndJobSets DEF Close
<1>3. job = [at |-> "done", left |-> job.left, cells |-> job.cells]
      /\ job.cells = Job(r, i).cells /\ job.left \subseteq Job(r, i).left
  OBVIOUS
<1> HIDE DEF job
<1>4. /\ seen' = [seen EXCEPT ![r] = [seen[r] EXCEPT ![i] = seen'[r][i]]]
      /\ SeenShape(r, i)' /\ seen'[r][i].born = seen[r][i].born
  BY <1>1, CloseSees
<1> QED
  BY <1>1, <1>2, <1>3, <1>4, EndedKeeps

LEMMA FetchRefusedKeeps ==
  ASSUME DataMartInv, NEW r \in Requests, NEW i \in Jobs(r), FetchRefused(r, i)
  PROVE  DataMartInv'
<1> DEFINE job == [at |-> "done", left |-> Job(r, i).left, cells |-> Job(r, i).cells]
<1>1. DataMartTypeOK /\ InPool(r) /\ Job(r, i).at = "open" /\ Received(r)
  BY DEF DataMartInv, FetchRefused, InPool, Received
<1>2. /\ SetJob(r, i, job) /\ readers' = [readers EXCEPT ![TableOf(r, i)] = @ \ {<<r, i>>}]
      /\ UNCHANGED <<server, marts, seen, tables>>
  BY <1>1, EndJobSets DEF FetchRefused
<1>3. job = [at |-> "done", left |-> job.left, cells |-> job.cells]
      /\ job.cells = Job(r, i).cells /\ job.left \subseteq Job(r, i).left
  OBVIOUS
<1> HIDE DEF job
<1>4. /\ seen' = [seen EXCEPT ![r] = [seen[r] EXCEPT ![i] = seen'[r][i]]]
      /\ SeenShape(r, i)' /\ seen'[r][i].born = seen[r][i].born
  BY <1>1, <1>2 DEF DataMartTypeOK, SeenShape
<1> QED
  BY <1>1, <1>2, <1>3, <1>4, EndedKeeps

\* The job and what it has seen, after a query.
LEMMA FetchSets ==
  ASSUME DataMartTypeOK, NEW r \in Requests, NEW i \in Jobs(r), Fetch(r, i)
  PROVE  LET g == Min(Job(r, i).left) IN
         SetJob(r, i, [at |-> "open", left |-> Job(r, i).left \ {g},
                       cells |-> [k \in Points(r) |->
                          IF call[r].places[k][1] = g
                            THEN Cell(r, i, g, call[r].places[k][2], tables[TableOf(r, i)].rows[g])
                            ELSE Job(r, i).cells[k]]])
<1> DEFINE g == Min(Job(r, i).left)
           cells == [k \in Points(r) |->
                       IF call[r].places[k][1] = g
                         THEN Cell(r, i, g, call[r].places[k][2], tables[TableOf(r, i)].rows[g])
                         ELSE Job(r, i).cells[k]]
           old == Job(r, i)
           next == old.left \ {g}
           job == [at |-> "open", left |-> next, cells |-> cells]
           moved == [old EXCEPT !.left = next]
<1>1. SetJob(r, i, [old EXCEPT !.left = next, !.cells = cells])
  BY DEF Fetch
<1>2. old = [at |-> "open", left |-> old.left, cells |-> old.cells]
  <2>1. JobShape(r, i) /\ Job(r, i).at = "open"
    BY DEF DataMartTypeOK, Fetch, InPool, Received
  <2> QED
    BY <2>1 DEF JobShape
<1> HIDE DEF old, next, cells
<1>3. moved = [at |-> "open", left |-> next, cells |-> old.cells]
  BY <1>2
<1>4. [old EXCEPT !.left = next, !.cells = cells] = [moved EXCEPT !.cells = cells]
  BY Zenon
<1> HIDE DEF moved
<1>5. [moved EXCEPT !.cells = cells] = job
  BY <1>3
<1>6. SetJob(r, i, job)
  BY <1>1, <1>4, <1>5
<1> QED
  BY <1>6 DEF next, cells, old

LEMMA FetchSees ==
  ASSUME DataMartTypeOK, NEW r \in Requests, NEW i \in Jobs(r), Fetch(r, i)
  PROVE  /\ seen' = [seen EXCEPT ![r] = [seen[r] EXCEPT ![i] = seen'[r][i]]]
         /\ SeenShape(r, i)'
         /\ seen'[r][i].born = seen[r][i].born \cup {tables[TableOf(r, i)].born}
         /\ seen'[r][i].before = seen[r][i].before /\ seen'[r][i].calm = seen[r][i].calm
         /\ seen'[r][i].regions = seen[r][i].regions
<1> DEFINE born == seen[r][i].born \cup {tables[TableOf(r, i)].born}
<1>1. /\ seen = [q \in Requests |-> seen[q]] /\ seen[r] = [k \in Jobs(r) |-> seen[r][k]]
      /\ SeenShape(r, i)
  BY DEF DataMartTypeOK, Fetch, InPool, Received
<1>2. seen' = [seen EXCEPT ![r] = [seen[r] EXCEPT ![i] = [seen[r][i] EXCEPT !.born = born]]]
  BY DEF Fetch
<1>3. [seen[r][i] EXCEPT !.born = born]
        = [before |-> seen[r][i].before, born |-> born, calm |-> seen[r][i].calm,
           regions |-> seen[r][i].regions]
  BY <1>1 DEF SeenShape
<1> HIDE DEF born
<1>4. seen'[r][i] = [before |-> seen[r][i].before, born |-> born, calm |-> seen[r][i].calm,
                     regions |-> seen[r][i].regions]
  BY <1>1, <1>2, <1>3
<1>5. seen' = [seen EXCEPT ![r] = [seen[r] EXCEPT ![i] = seen'[r][i]]] /\ SeenShape(r, i)'
  BY <1>1, <1>2, <1>3, <1>4 DEF SeenShape
<1>6. seen'[r][i].born = born
  BY <1>4
<1> QED
  BY <1>4, <1>5, <1>6 DEF born

\* A query reads the rows of a grid from the table that the job holds.
LEMMA FetchKeeps ==
  ASSUME DataMartInv, NEW r \in Requests, NEW i \in Jobs(r), Fetch(r, i),
         tables[TableOf(r, i)].born \in Nat,
         \A g \in Grids : tables[TableOf(r, i)].rows[g] \subseteq Dates
  PROVE  DataMartInv'
<1> DEFINE t == TableOf(r, i)
           g == Min(Job(r, i).left)
           dates == tables[t].rows[g]
           cells == [k \in Points(r) |->
                       IF call[r].places[k][1] = g
                         THEN Cell(r, i, g, call[r].places[k][2], dates)
                         ELSE Job(r, i).cells[k]]
           job == [at |-> "open", left |-> Job(r, i).left \ {g}, cells |-> cells]
           born == seen[r][i].born \cup {tables[t].born}
<1>1. /\ DataMartTypeOK /\ JobsInv /\ ReadersInv /\ Received(r) /\ t \in Tables
      /\ InPool(r) /\ Job(r, i).at = "open" /\ UNCHANGED <<server, marts, tables>>
      /\ readers' = readers
  BY JobsNameTables DEF DataMartInv, Fetch, InPool, Received, database
<1>2. JobInv(r, i) /\ JobShape(r, i) /\ SeenShape(r, i)
  BY <1>1 DEF DataMartTypeOK, JobsInv
<1>3. SetJob(r, i, job)
  BY <1>1, FetchSets
<1>4. job = [at |-> job.at, left |-> job.left, cells |-> job.cells]
      /\ job.at = "open" /\ job.cells = cells /\ job.left \subseteq Job(r, i).left
  OBVIOUS
<1> HIDE DEF job
<1>5. /\ Job(r, i)' = job
      /\ \A q \in Requests : /\ call'[q].at = call[q].at
                             /\ call'[q].places = call[q].places
  BY <1>1, <1>3, SetJobSets
<1>6. /\ seen' = [seen EXCEPT ![r] = [seen[r] EXCEPT ![i] = seen'[r][i]]]
      /\ SeenShape(r, i)' /\ seen'[r][i].born = born
  BY <1>1, FetchSees
<1>7. FilledTogether(r, i)'
  <2>1. GridsOf(r)' = GridsOf(r) /\ Job(r, i)'.cells = cells
    BY <1>4, <1>5 DEF GridsOf
  <2> DEFINE Together(h, filled) ==
               \/ \A k \in Points(r) : call[r].places[k][1] = h => filled[k] = Unset
               \/ \E ds \in SUBSET Dates : \A k \in Points(r) : call[r].places[k][1] = h =>
                    filled[k] = Cell(r, i, h, call[r].places[k][2], ds)
  <2>2. ASSUME NEW h \in GridsOf(r)
        PROVE  Together(h, cells)
    <3>1. CASE h = g
      <4>1. dates \in SUBSET Dates
        BY <1>1, <3>1, GridsAreKnown
      <4>2. \A k \in Points(r) : call[r].places[k][1] = h =>
              cells[k] = Cell(r, i, h, call[r].places[k][2], dates)
        BY <3>1
      <4> QED
        BY <4>1, <4>2
    <3>2. CASE h # g
      <4>1. Together(h, Job(r, i).cells)
        BY <1>1, <1>2 DEF JobInv, FilledTogether
      <4>2. \A k \in Points(r) : call[r].places[k][1] = h => cells[k] = Job(r, i).cells[k]
        BY <3>2
      <4> HIDE DEF cells
      <4> QED
        BY <4>1, <4>2
    <3> QED
      BY <3>1, <3>2
  <2> HIDE DEF cells
  <2> QED
    BY <1>5, <2>1, <2>2 DEF FilledTogether
<1>8. JobInv(r, i)'
  BY <1>1, <1>2, <1>4, <1>5, <1>6, <1>7 DEF JobInv
<1>9. readers' = [u \in Tables |-> IF u # t THEN readers[u]
                    ELSE IF job.at = "open" THEN readers[u] \cup {<<r, i>>}
                    ELSE readers[u] \ {<<r, i>>}]
  <2>1. <<r, i>> \in readers[t] /\ readers = [u \in Tables |-> readers[u]]
    BY <1>1, ReadersAreOpen DEF DataMartTypeOK
  <2> QED
    BY <1>1, <1>4, <2>1
<1> HIDE DEF t, born
<1> QED
  BY <1>1, <1>3, <1>4, <1>6, <1>8, <1>9, JobStepKeeps DEF t

-------------------------------------------------------------------------------
(* The calls.                                                              *)

\* A call goes on to its output table, or to its end, once its jobs are done.
LEMMA GoKeeps ==
  ASSUME DataMartInv, NEW r \in Requests, Received(r),
         InPool(r) => \A i \in Jobs(r) : Job(r, i).at # "open",
         NEW at \in CallPhases \ {"new", "pool"}, NEW holds \in BOOLEAN,
         call' = [call EXCEPT ![r] = [call[r] EXCEPT !.at = at, !.holds = holds]],
         marts' = [o \in Outputs |-> marts'[o]],
         \A o \in Outputs : marts[o] # NoMart => marts'[o] # NoMart,
         at \notin {"replied", "failed"} => server.up,
         holds => at \in {"creating", "inserting"} /\ Holders(Output(r)) \subseteq {r},
         at \in {"dropping", "creating", "inserting"} => Output(r) # NoOutput,
         at \in {"written", "replied"} /\ Output(r) # NoOutput => marts'[Output(r)] # NoMart,
         UNCHANGED <<server, seen, tables, readers>>
  PROVE  DataMartInv'
<1>1. DataMartTypeOK /\ JobsInv /\ ReadersInv /\ PlacesInv /\ OutputInv
  BY DEF DataMartInv
<1>2. /\ call' = [q \in Requests |-> call'[q]]
      /\ \A q \in Requests : CallShape(q)' /\ (Received(q)' <=> Received(q))
      /\ \A q \in Requests \ {r} : call'[q] = call[q]
      /\ call'[r].at = at /\ call'[r].holds = holds
      /\ call'[r].places = call[r].places /\ call'[r].jobs = call[r].jobs
  BY <1>1, GoGoes
<1>3. UNCHANGED server /\ UNCHANGED seen /\ UNCHANGED tables /\ UNCHANGED readers
  OBVIOUS
<1>4. \A q \in Requests : /\ call'[q].places = call[q].places
                          /\ call'[q].jobs = call[q].jobs
                          /\ \A i \in Jobs(q) : Job(q, i)' = Job(q, i)
  BY <1>2 DEF Job
<1>5. DataMartTypeOK'
  BY <1>1, <1>2, <1>3, <1>4 DEF DataMartTypeOK, JobShape, SeenShape
<1>6. \A q \in Requests : InPool(q)' => q # r /\ InPool(q)
  BY <1>2 DEF InPool
<1>7. JobsInv'
  <2>1. ASSUME NEW q \in Requests, Received(q)', NEW i \in Jobs(q)
        PROVE  JobInv(q, i)'
    <3>1. JobInv(q, i)
      BY <1>1, <1>2, <2>1 DEF JobsInv
    <3> QED
      BY <1>3, <1>4, <1>6, <3>1, JobInvStays
  <2> QED
    BY <2>1 DEF JobsInv
<1>8. ReadersInv'
  <2>1. ASSUME NEW t \in Tables, NEW q \in Requests
        PROVE  Reading(q, t)' = Reading(q, t)
    <3>1. CASE q # r
      BY <1>2, <1>4, <3>1 DEF Reading, InPool
    <3>2. CASE q = r
      BY <1>6, <3>2 DEF Reading
    <3> QED
      BY <3>1, <3>2
  <2> QED
    BY <1>1, <1>3, <2>1 DEF ReadersInv
<1>9. PlacesInv'
  BY <1>1, <1>2, <1>3, <1>4 DEF PlacesInv
<1>10. OutputInv'
  <2>1. ASSUME NEW q \in Requests
        PROVE  /\ call'[q].at \notin {"new", "replied", "failed"} => server'.up
               /\ call'[q].holds => call'[q].at \in {"creating", "inserting"}
               /\ call'[q].at \in {"dropping", "creating", "inserting"} =>
                    Output(q) # NoOutput
               /\ call'[q].at \in {"written", "replied"} /\ Output(q) # NoOutput =>
                    marts'[Output(q)] # NoMart
    <3>1. Output(q) # NoOutput => Output(q) \in Outputs
      BY DEF Output, Outputs
    <3>2. CASE q = r
      BY <1>2, <1>3, <3>2
    <3>3. CASE q # r
      BY <1>1, <1>2, <1>3, <3>1, <3>3 DEF OutputInv
    <3> QED
      BY <3>2, <3>3
  <2>2. ASSUME NEW p \in Requests, NEW q \in Requests, call'[p].holds, call'[q].holds,
               Output(p) = Output(q)
        PROVE  p = q
    BY <1>1, <1>2, <2>2 DEF OutputInv, Holders
  <2> QED
    BY <2>1, <2>2 DEF OutputInv, Output
<1> QED
  BY <1>5, <1>7, <1>8, <1>9, <1>10 DEF DataMartInv

\* A call that goes on holds what it held.
LEMMA GoHolds ==
  ASSUME DataMartTypeOK, NEW r \in Requests, NEW at, Go(r, at)
  PROVE  call' = [call EXCEPT ![r] = [call[r] EXCEPT !.at = at, !.holds = call[r].holds]]
<1> DEFINE moved == [call[r] EXCEPT !.at = at]
<1>1. CallShape(r)
  BY DEF DataMartTypeOK
<1>2. moved = [at |-> at, places |-> call[r].places, jobs |-> call[r].jobs,
               holds |-> call[r].holds]
  BY <1>1 DEF CallShape
<1>3. [call[r] EXCEPT !.at = at, !.holds = call[r].holds] = [moved EXCEPT !.holds = call[r].holds]
  BY Zenon
<1>4. call' = [call EXCEPT ![r] = moved]
  BY DEF Go
<1> HIDE DEF moved
<1>5. [moved EXCEPT !.holds = call[r].holds] = moved
  BY <1>2
<1> QED
  BY <1>3, <1>4, <1>5

LEMMA GoesTwice ==
  ASSUME DataMartTypeOK, NEW r \in Requests, NEW at, NEW holds
  PROVE  [call EXCEPT ![r].at = at, ![r].holds = holds]
           = [call EXCEPT ![r] = [call[r] EXCEPT !.at = at, !.holds = holds]]
<1> DEFINE moved == [call EXCEPT ![r].at = at]
           c == [call[r] EXCEPT !.at = at]
<1>1. call = [q \in Requests |-> call[q]]
  BY DEF DataMartTypeOK
<1>2. [call EXCEPT ![r].at = at, ![r].holds = holds] = [moved EXCEPT ![r].holds = holds]
  BY Zenon
<1>3. [call[r] EXCEPT !.at = at, !.holds = holds] = [c EXCEPT !.holds = holds]
  BY Zenon
<1>4. moved = [call EXCEPT ![r] = c]
  OBVIOUS
<1> HIDE DEF moved, c
<1>5. [moved EXCEPT ![r].holds = holds] = [call EXCEPT ![r] = [c EXCEPT !.holds = holds]]
  BY <1>1, <1>4
<1> QED
  BY <1>2, <1>3, <1>5

LEMMA GatherKeeps ==
  ASSUME DataMartInv, NEW r \in Requests, Gather(r)
  PROVE  DataMartInv'
<1> DEFINE at == IF Output(r) = NoOutput THEN "written" ELSE "dropping"
<1>1. /\ DataMartTypeOK /\ OutputInv /\ InPool(r) /\ Received(r) /\ CallShape(r)
      /\ Go(r, at) /\ \A i \in Jobs(r) : Job(r, i).at # "open"
      /\ UNCHANGED <<server, marts, seen, tables, readers>>
  BY DEF DataMartInv, DataMartTypeOK, Gather, InPool, Received, database
<1>2. ~call[r].holds /\ server.up
  BY <1>1 DEF OutputInv, InPool
<1>3. at \in CallPhases \ {"new", "pool"} /\ call[r].holds \in BOOLEAN
  BY <1>1 DEF CallPhases, CallShape
<1>4. marts' = [o \in Outputs |-> marts'[o]] /\ \A o \in Outputs : marts[o] # NoMart => marts'[o] # NoMart
  BY <1>1 DEF DataMartTypeOK
<1>5. call' = [call EXCEPT ![r] = [call[r] EXCEPT !.at = at, !.holds = call[r].holds]]
  BY <1>1, GoHolds
<1>6. at \in {"dropping", "creating", "inserting"} => Output(r) # NoOutput
  OBVIOUS
<1>7. at \in {"written", "replied"} /\ Output(r) # NoOutput => marts'[Output(r)] # NoMart
  OBVIOUS
<1> HIDE DEF at
<1> QED
  BY <1>1, <1>2, <1>3, <1>4, <1>5, <1>6, <1>7, GoKeeps

LEMMA DropKeeps ==
  ASSUME DataMartInv, NEW r \in Requests, Drop(r)
  PROVE  DataMartInv'
<1> DEFINE holds == marts[Output(r)] # NoMart
<1>1. /\ DataMartTypeOK /\ OutputInv /\ ~InPool(r) /\ Received(r) /\ CallShape(r)
      /\ call[r].at = "dropping" /\ (holds => Holders(Output(r)) = {})
      /\ UNCHANGED <<server, marts, seen, tables, readers>>
  BY DEF DataMartInv, DataMartTypeOK, Drop, InPool, Received, database
<1>2. call' = [call EXCEPT ![r] = [call[r] EXCEPT !.at = "creating", !.holds = holds]]
  BY <1>1, GoesTwice DEF Drop
<1>3. server.up /\ Output(r) # NoOutput
  BY <1>1 DEF OutputInv
<1>4. holds \in BOOLEAN
  OBVIOUS
<1>5. marts' = [o \in Outputs |-> marts'[o]] /\ \A o \in Outputs : marts[o] # NoMart => marts'[o] # NoMart
  BY <1>1 DEF DataMartTypeOK
<1> HIDE DEF holds
<1> QED
  BY <1>1, <1>2, <1>3, <1>4, <1>5, GoKeeps DEF CallPhases

LEMMA CreateKeeps ==
  ASSUME DataMartInv, NEW r \in Requests, Create(r)
  PROVE  DataMartInv'
<1>1. /\ DataMartTypeOK /\ OutputInv /\ ~InPool(r) /\ Received(r) /\ CallShape(r)
      /\ call[r].at = "creating" /\ Holders(Output(r)) \subseteq {r}
      /\ UNCHANGED <<server, marts, seen, tables, readers>>
  BY DEF DataMartInv, DataMartTypeOK, Create, CanCreate, InPool, Received, database
<1>2. call' = [call EXCEPT ![r] = [call[r] EXCEPT !.at = "inserting", !.holds = TRUE]]
  BY <1>1, GoesTwice DEF Create
<1>3. server.up /\ Output(r) # NoOutput
  BY <1>1 DEF OutputInv
<1>4. marts' = [o \in Outputs |-> marts'[o]] /\ \A o \in Outputs : marts[o] # NoMart => marts'[o] # NoMart
  BY <1>1 DEF DataMartTypeOK
<1> QED
  BY <1>1, <1>2, <1>3, <1>4, GoKeeps DEF CallPhases

LEMMA InsertKeeps ==
  ASSUME DataMartInv, NEW r \in Requests, Commit_(r)
  PROVE  DataMartInv'
<1> DEFINE columns == [i \in Jobs(r) |-> [k \in Points(r) |->
                         IF Job(r, i).cells[k] = Unset THEN Zeros(r, i) ELSE Job(r, i).cells[k]]]
           mart == [by |-> r, columns |-> columns]
<1>1. /\ DataMartTypeOK /\ OutputInv /\ ~InPool(r) /\ Received(r) /\ CallShape(r)
      /\ call[r].at = "inserting" /\ marts = [o \in Outputs |-> marts[o]]
      /\ UNCHANGED <<server, seen, tables, readers>>
  BY DEF DataMartInv, DataMartTypeOK, Commit_, InPool, Received, database
<1>2. call' = [call EXCEPT ![r] = [call[r] EXCEPT !.at = "written", !.holds = FALSE]]
  BY <1>1, GoesTwice DEF Commit_
<1>3. server.up /\ Output(r) # NoOutput /\ Output(r) \in Outputs
  BY <1>1 DEF OutputInv, Output, Outputs
<1> HIDE DEF columns
<1>4. mart # NoMart
  BY DataMartAssumption DEF NoMart
<1>5. marts' = [marts EXCEPT ![Output(r)] = mart]
  BY DEF Commit_, columns
<1> HIDE DEF mart
<1>6. /\ marts' = [o \in Outputs |-> marts'[o]] /\ marts'[Output(r)] # NoMart
      /\ \A o \in Outputs : marts[o] # NoMart => marts'[o] # NoMart
  BY <1>1, <1>3, <1>4, <1>5
<1> QED
  BY <1>1, <1>2, <1>3, <1>6, GoKeeps DEF CallPhases

LEMMA ReplyKeeps ==
  ASSUME DataMartInv, NEW r \in Requests, Reply(r)
  PROVE  DataMartInv'
<1>1. /\ DataMartTypeOK /\ OutputInv /\ ~InPool(r) /\ Received(r) /\ CallShape(r)
      /\ call[r].at = "written" /\ Go(r, "replied")
      /\ UNCHANGED <<server, marts, seen, tables, readers>>
  BY DEF DataMartInv, DataMartTypeOK, Reply, InPool, Received, database
<1>2. ~call[r].holds /\ (Output(r) # NoOutput => marts'[Output(r)] # NoMart)
  BY <1>1 DEF OutputInv
<1>3. call' = [call EXCEPT ![r] = [call[r] EXCEPT !.at = "replied", !.holds = call[r].holds]]
  BY <1>1, GoHolds
<1>4. marts' = [o \in Outputs |-> marts'[o]] /\ \A o \in Outputs : marts[o] # NoMart => marts'[o] # NoMart
  BY <1>1 DEF DataMartTypeOK
<1> QED
  BY <1>1, <1>2, <1>3, <1>4, GoKeeps DEF CallPhases, CallShape

\* A call that ends with an error lets go of its output table.
LEMMA FailKeeps ==
  ASSUME DataMartInv, NEW r \in Requests, call[r].at \in {"dropping", "creating", "inserting"},
         call' = [call EXCEPT ![r].at = "failed", ![r].holds = FALSE],
         UNCHANGED <<server, marts, seen, tables, readers>>
  PROVE  DataMartInv'
<1>1. DataMartTypeOK /\ ~InPool(r) /\ Received(r)
  BY DEF DataMartInv, InPool, Received
<1>2. call' = [call EXCEPT ![r] = [call[r] EXCEPT !.at = "failed", !.holds = FALSE]]
  BY <1>1, GoesTwice
<1>3. marts' = [o \in Outputs |-> marts'[o]] /\ \A o \in Outputs : marts[o] # NoMart => marts'[o] # NoMart
  BY <1>1 DEF DataMartTypeOK
<1> QED
  BY <1>1, <1>2, <1>3, GoKeeps DEF CallPhases

\* The calls that have not ended, fail.
Ended(q) == call[q].at \in {"new", "replied", "failed"}
LEMMA DieSets ==
  ASSUME DataMartTypeOK, OutputInv, Die, NEW q \in Requests
  PROVE  /\ CallShape(q)' /\ ~call'[q].holds
         /\ call'[q].places = call[q].places /\ call'[q].jobs = call[q].jobs
         /\ call'[q].at = IF Ended(q) THEN call[q].at ELSE "failed"
<1>1. CallShape(q)
  BY DEF DataMartTypeOK
<1>2. CASE Ended(q)
  <2>1. call'[q] = call[q]
    BY <1>2 DEF Die, Ended
  <2>2. ~call[q].holds
    BY <1>1, <1>2 DEF OutputInv, Ended
  <2> QED
    BY <1>1, <1>2, <2>1, <2>2 DEF CallShape
<1>3. CASE ~Ended(q)
  <2> DEFINE no == FALSE
             c == [at |-> "failed", places |-> call[q].places, jobs |-> call[q].jobs,
                   holds |-> no]
             moved == [call[q] EXCEPT !.at = "failed"]
  <2>1. call'[q] = [call[q] EXCEPT !.at = "failed", !.holds = no]
    BY <1>3 DEF Die, Ended
  <2>2. moved = [at |-> "failed", places |-> call[q].places, jobs |-> call[q].jobs,
                 holds |-> call[q].holds]
    BY <1>1 DEF CallShape
  <2>3. [call[q] EXCEPT !.at = "failed", !.holds = no] = [moved EXCEPT !.holds = no]
    BY Zenon
  <2> HIDE DEF moved, no
  <2>4. [moved EXCEPT !.holds = no] = c
    BY <2>2
  <2>5. call'[q] = c
    BY <2>1, <2>3, <2>4
  <2> USE DEF no
  <2> QED
    BY <1>3, <2>5 DEF CallShape, CallPhases
<1> QED
  BY <1>2, <1>3

\* No job and no output table is held once the process has ended.
LEMMA DieKeeps ==
  ASSUME DataMartInv, Die
  PROVE  DataMartInv'
<1>1. DataMartTypeOK /\ JobsInv /\ ReadersInv /\ PlacesInv /\ OutputInv
  BY DEF DataMartInv
<1>2. UNCHANGED marts /\ UNCHANGED seen /\ UNCHANGED tables
      /\ readers' = [t \in Tables |-> {}]
  BY DEF Die
<1>3. ASSUME NEW q \in Requests
      PROVE  /\ CallShape(q)' /\ ~call'[q].holds
             /\ call'[q].places = call[q].places /\ call'[q].jobs = call[q].jobs
             /\ call'[q].at = IF Ended(q) THEN call[q].at ELSE "failed"
  BY <1>1, DieSets
<1>4. call' = [q \in Requests |-> call'[q]]
  BY DEF Die
<1>5. \A q \in Requests : /\ (Received(q)' <=> Received(q))
                          /\ ~InPool(q)'
                          /\ \A i \in Jobs(q) : Job(q, i)' = Job(q, i)
  <2>1. ASSUME NEW q \in Requests
        PROVE  (Received(q)' <=> Received(q)) /\ ~InPool(q)'
    BY <1>3 DEF Received, InPool, Ended
  <2>2. ASSUME NEW q \in Requests, NEW i \in Jobs(q)
        PROVE  Job(q, i)' = Job(q, i)
    BY <1>3 DEF Job
  <2> QED
    BY <2>1, <2>2
<1>6. DataMartTypeOK'
  BY <1>1, <1>2, <1>3, <1>4, <1>5 DEF DataMartTypeOK, JobShape, SeenShape
<1>7. JobsInv'
  <2>1. ASSUME NEW q \in Requests, Received(q)', NEW i \in Jobs(q)
        PROVE  JobInv(q, i)'
    <3>1. JobInv(q, i)
      BY <1>1, <1>5, <2>1 DEF JobsInv
    <3> QED
      BY <1>2, <1>3, <1>5, <3>1, JobInvStays
  <2> QED
    BY <2>1 DEF JobsInv
<1>8. ReadersInv'
  <2>1. ASSUME NEW t \in Tables, NEW q \in Requests
        PROVE  Reading(q, t)' = {}
    BY <1>5 DEF Reading
  <2> QED
    BY <1>2, <2>1 DEF ReadersInv
<1>9. PlacesInv'
  <2>1. server' = [server EXCEPT !.up = FALSE]
    BY DEF Die
  <2>2. server' = [up |-> FALSE, regions |-> server.regions, starts |-> server.starts]
    BY <1>1, <2>1 DEF PlacesInv
  <2>3. /\ server' = [up |-> server'.up, regions |-> server'.regions, starts |-> server'.starts]
        /\ server'.regions \subseteq Grids
    BY <1>1, <2>2 DEF PlacesInv
  <2> QED
    BY <1>1, <1>3, <1>5, <2>3 DEF PlacesInv
<1>10. OutputInv'
  <2>1. \A q \in Requests : call'[q].at \in {"new", "replied", "failed"}
                             /\ (call'[q].at = "replied" => call[q].at = "replied")
    BY <1>3 DEF Ended
  <2> QED
    BY <1>1, <1>2, <1>3, <2>1 DEF OutputInv, Output
<1> QED
  BY <1>6, <1>7, <1>8, <1>9, <1>10 DEF DataMartInv

LEMMA ThrowKeeps ==
  ASSUME DataMartInv, NEW r \in Requests, call[r].at \in {"dropping", "creating", "inserting"},
         Throw(r)
  PROVE  DataMartInv'
<1>1. CASE Die
  BY <1>1, DieKeeps
<1>2. CASE ~Die
  BY <1>2, FailKeeps DEF Throw
<1> QED
  BY <1>1, <1>2

LEMMA StartServerKeeps ==
  ASSUME DataMartInv, StartServer
  PROVE  DataMartInv'
<1>1. DataMartTypeOK /\ JobsInv /\ ReadersInv /\ PlacesInv /\ OutputInv
  BY DEF DataMartInv
<1>2. UNCHANGED call /\ UNCHANGED marts /\ UNCHANGED seen /\ UNCHANGED tables /\ UNCHANGED readers
  BY DEF StartServer
<1>3. \A q \in Requests : (Received(q)' <=> Received(q)) /\ (InPool(q)' <=> InPool(q))
                           /\ \A i \in Jobs(q) : Job(q, i)' = Job(q, i)
  BY <1>2 DEF Received, InPool, Job
<1>4. DataMartTypeOK'
  BY <1>1, <1>2, <1>3 DEF DataMartTypeOK, CallShape, JobShape, SeenShape
<1>5. JobsInv'
  <2>1. ASSUME NEW q \in Requests, Received(q)', NEW i \in Jobs(q)
        PROVE  JobInv(q, i)'
    <3>1. JobInv(q, i)
      BY <1>1, <1>3, <2>1 DEF JobsInv
    <3> QED
      BY <1>2, <1>3, <3>1, JobInvStays
  <2> QED
    BY <2>1 DEF JobsInv
<1>6. ReadersInv'
  <2>1. ASSUME NEW t \in Tables, NEW q \in Requests
        PROVE  Reading(q, t)' = Reading(q, t)
    BY <1>3 DEF Reading
  <2> QED
    BY <1>1, <1>2, <2>1 DEF ReadersInv
<1>7. PlacesInv'
  <2>1. PICK loaded \in {Grids, {}} :
          server' = [up |-> TRUE, regions |-> loaded, starts |-> server.starts + 1]
    BY DEF StartServer
  <2>2. /\ server' = [up |-> server'.up, regions |-> server'.regions, starts |-> server'.starts]
        /\ server'.regions \subseteq Grids
    BY <2>1
  <2> QED
    BY <1>1, <1>2, <1>3, <2>2 DEF PlacesInv
<1>8. OutputInv'
  <2>1. server'.up
    BY DEF StartServer
  <2> QED
    BY <1>1, <1>2, <2>1 DEF OutputInv, Output
<1> QED
  BY <1>4, <1>5, <1>6, <1>7, <1>8 DEF DataMartInv

\* A point is in none of the server's grids, or in the first of them.
LEMMA LocatedIsKnown ==
  ASSUME PlacesInv, NEW r \in Requests, NEW k \in Points(r)
  PROVE  Located(r)[k][1] \in Grids \cup {0}
<1> DEFINE p == Request[r].points[k]
           found == DOMAIN Place[p] \cap server.regions
<1>1. CASE p \in DOMAIN Place /\ found # {}
  <2>1. found \subseteq Grids /\ Grids \subseteq Nat
    BY DatabaseAssumption DEF PlacesInv
  <2> HIDE DEF found
  <2>2. Min(found) \in Grids
    BY <1>1, <2>1, MinIsMember
  <2>3. Located(r)[k] = <<Min(found), Place[p][Min(found)]>>
    BY <1>1 DEF Located, GetRegionAndSquare, found
  <2> QED
    BY <2>2, <2>3
<1>2. CASE p \notin DOMAIN Place \/ found = {}
  BY <1>2 DEF Located, GetRegionAndSquare
<1> QED
  BY <1>1, <1>2

LEMMA ReceiveKeeps ==
  ASSUME DataMartInv, NEW r \in Requests, Receive(r)
  PROVE  DataMartInv'
<1> DEFINE c == [at |-> "pool", places |-> Located(r), jobs |-> [i \in Jobs(r) |-> Queued],
                 holds |-> FALSE]
           s == [i \in Jobs(r) |->
                   [before |-> tables[TableOf(r, i)], born |-> {},
                    calm |-> FALSE, regions |-> server.regions]]
<1>1. /\ DataMartTypeOK /\ JobsInv /\ ReadersInv /\ PlacesInv /\ OutputInv
      /\ server.up /\ call[r].at = "new" /\ ~Received(r) /\ ~InPool(r)
  BY DEF DataMartInv, Receive, Received, InPool
<1>2. UNCHANGED server /\ UNCHANGED marts /\ UNCHANGED tables /\ UNCHANGED readers
      /\ call' = [call EXCEPT ![r] = c] /\ seen' = [seen EXCEPT ![r] = s]
  BY DEF Receive, database
<1>3. /\ call' = [q \in Requests |-> call'[q]] /\ call'[r] = c
      /\ \A q \in Requests \ {r} : call'[q] = call[q]
  BY <1>1, <1>2 DEF DataMartTypeOK
<1>4. /\ seen' = [q \in Requests |-> seen'[q]] /\ seen'[r] = s
      /\ \A q \in Requests \ {r} : seen'[q] = seen[q]
  BY <1>1, <1>2 DEF DataMartTypeOK
<1>5. /\ c = [at |-> c.at, places |-> c.places, jobs |-> c.jobs, holds |-> c.holds]
      /\ c.at = "pool" /\ ~c.holds /\ c.holds \in BOOLEAN /\ c.places = Located(r)
      /\ c.jobs = [i \in Jobs(r) |-> Queued]
  OBVIOUS
<1>6. /\ s = [i \in Jobs(r) |-> s[i]]
      /\ \A i \in Jobs(r) : /\ s[i].born = {}
                            /\ s[i] = [before |-> s[i].before, born |-> s[i].born,
                                       calm |-> s[i].calm, regions |-> s[i].regions]
  OBVIOUS
<1> HIDE DEF c, s
<1>7. \A i \in Jobs(r) : Job(r, i)' = Queued
  BY <1>3, <1>5 DEF Job
<1>8. \A q \in Requests \ {r} : /\ (Received(q)' <=> Received(q))
                                /\ (InPool(q)' <=> InPool(q))
                                /\ \A i \in Jobs(q) : Job(q, i)' = Job(q, i)
  BY <1>3 DEF Received, InPool, Job
<1>9. Received(r)' /\ InPool(r)'
  BY <1>3, <1>5 DEF Received, InPool
<1>10. DataMartTypeOK'
  <2>1. CallShape(r)'
    BY <1>3, <1>5 DEF CallShape, CallPhases
  <2>2. ASSUME NEW i \in Jobs(r)
        PROVE  JobShape(r, i)' /\ SeenShape(r, i)'
    BY <1>4, <1>6, <1>7 DEF JobShape, SeenShape, Queued
  <2>3. call'[r].jobs = [i \in Jobs(r) |-> Job(r, i)'] /\ seen'[r] = [i \in Jobs(r) |-> seen'[r][i]]
    BY <1>3, <1>4, <1>5, <1>6, <1>7
  <2>4. ASSUME NEW q \in Requests \ {r}
        PROVE  /\ CallShape(q)'
               /\ ~Received(q)' => call'[q].jobs = <<>>
               /\ Received(q)' =>
                    /\ call'[q].jobs = [i \in Jobs(q) |-> Job(q, i)']
                    /\ seen'[q] = [i \in Jobs(q) |-> seen'[q][i]]
                    /\ \A i \in Jobs(q) : JobShape(q, i)' /\ SeenShape(q, i)'
    BY <1>1, <1>3, <1>4, <1>8 DEF DataMartTypeOK, CallShape, JobShape, SeenShape
  <2>5. /\ readers' = [t \in Tables |-> readers'[t]] /\ marts' = [o \in Outputs |-> marts'[o]]
    BY <1>1, <1>2 DEF DataMartTypeOK
  <2>6. ASSUME NEW q \in Requests
        PROVE  /\ CallShape(q)'
               /\ ~Received(q)' => call'[q].jobs = <<>>
               /\ Received(q)' =>
                    /\ call'[q].jobs = [i \in Jobs(q) |-> Job(q, i)']
                    /\ seen'[q] = [i \in Jobs(q) |-> seen'[q][i]]
                    /\ \A i \in Jobs(q) : JobShape(q, i)' /\ SeenShape(q, i)'
    <3>1. CASE q = r
      BY <1>9, <2>1, <2>2, <2>3, <3>1
    <3> QED
      BY <2>4, <3>1
  <2> QED
    BY <1>3, <1>4, <2>5, <2>6 DEF DataMartTypeOK
<1>11. JobsInv'
  <2>1. ASSUME NEW q \in Requests, Received(q)', NEW i \in Jobs(q)
        PROVE  JobInv(q, i)'
    <3>1. CASE q = r
      <4>1. Job(r, i)' = Queued /\ seen'[r][i].born = {}
        BY <1>4, <1>6, <1>7, <3>1
      <4> QED
        BY <3>1, <4>1 DEF JobInv, Queued
    <3>2. CASE q # r
      <4>1. JobInv(q, i)
        BY <1>1, <1>8, <2>1, <3>2 DEF JobsInv
      <4> QED
        BY <1>2, <1>3, <1>4, <1>8, <3>2, <4>1, JobInvStays
    <3> QED
      BY <3>1, <3>2
  <2> QED
    BY <2>1 DEF JobsInv
<1>12. ReadersInv'
  <2>1. ASSUME NEW t \in Tables, NEW q \in Requests
        PROVE  Reading(q, t)' = Reading(q, t)
    <3>1. CASE q = r
      <4>1. Reading(r, t) = {}
        BY <1>1 DEF Reading
      <4>2. Reading(r, t)' = {}
        BY <1>7 DEF Reading, Queued
      <4> QED
        BY <3>1, <4>1, <4>2
    <3>2. CASE q # r
      BY <1>8, <3>2 DEF Reading
    <3> QED
      BY <3>1, <3>2
  <2> QED
    BY <1>1, <1>2, <2>1 DEF ReadersInv
<1>13. PlacesInv'
  <2>1. \A k \in Points(r) : call'[r].places[k][1] \in Grids \cup {0}
    BY <1>1, <1>3, <1>5, LocatedIsKnown
  <2> QED
    BY <1>1, <1>2, <1>3, <1>8, <2>1 DEF PlacesInv
<1>14. OutputInv'
  BY <1>1, <1>2, <1>3, <1>5 DEF OutputInv, Output
<1> QED
  BY <1>10, <1>11, <1>12, <1>13, <1>14 DEF DataMartInv

-------------------------------------------------------------------------------
(* The invariant holds from the start and through every step.              *)

LEMMA DataMartStarts ==
  ASSUME DatabaseInit, DataMartInit
  PROVE  DataMartInv
<1>1. /\ call = [r \in Requests |-> NewCall] /\ seen = [r \in Requests |-> <<>>]
      /\ marts = [o \in Outputs |-> NoMart] /\ readers = [t \in Tables |-> {}]
      /\ server = [up |-> FALSE, regions |-> {}, starts |-> 0]
  BY DEF DatabaseInit, DataMartInit
<1>2. \A r \in Requests : /\ call[r].at = "new" /\ ~call[r].holds /\ ~Received(r) /\ ~InPool(r)
                          /\ call[r].jobs = <<>> /\ CallShape(r)
  BY <1>1 DEF NewCall, CallShape, CallPhases, Received, InPool
<1>3. DataMartTypeOK
  BY <1>1, <1>2 DEF DataMartTypeOK
<1>4. ReadersInv
  <2>1. \A r \in Requests, t \in Tables : Reading(r, t) = {}
    BY <1>2 DEF Reading
  <2> QED
    BY <1>1, <2>1 DEF ReadersInv
<1>5. JobsInv /\ PlacesInv /\ OutputInv
  BY <1>1, <1>2 DEF JobsInv, PlacesInv, OutputInv
<1> QED
  BY <1>3, <1>4, <1>5 DEF DataMartInv

\* A step of a call, in a database whose tables have the states of its model.
LEMMA RequestKeeps ==
  ASSUME DataMartInv, NEW r \in Requests, CallStep(r) \/ CallFails(r),
         \A t \in Tables : /\ tables[t].born \in Nat
                           /\ \A g \in Grids : tables[t].rows[g] \subseteq Dates
  PROVE  DataMartInv'
<1>1. ASSUME NEW i \in Jobs(r), JobStep(r, i)
      PROVE  DataMartInv'
  <2>1. TableOf(r, i) \in Tables
    BY JobsNameTables
  <2>2. CASE Open(r, i)
    BY <2>1, <2>2, OpenKeeps
  <2>3. CASE OpenRefused(r, i)
    BY <2>3, OpenRefusedKeeps
  <2>4. CASE Fetch(r, i)
    BY <2>1, <2>4, FetchKeeps
  <2>5. CASE FetchOutOfRange(r, i)
    BY <2>5, DieKeeps DEF FetchOutOfRange
  <2>6. CASE Close(r, i)
    BY <2>6, CloseKeeps
  <2> QED
    BY <1>1, <2>2, <2>3, <2>4, <2>5, <2>6 DEF JobStep
<1>2. CASE Receive(r)
  BY <1>2, ReceiveKeeps
<1>3. CASE Gather(r)
  BY <1>3, GatherKeeps
<1>4. CASE Drop(r)
  BY <1>4, DropKeeps
<1>5. CASE Create(r)
  BY <1>5, CreateKeeps
<1>6. CASE OutputRefused(r)
  BY <1>6, ThrowKeeps DEF OutputRefused, CanCreate
<1>7. CASE OutputOfNothing(r)
  BY <1>7, DieKeeps DEF OutputOfNothing
<1>8. CASE InsertOverrun(r)
  BY <1>8, DieKeeps DEF InsertOverrun
<1>9. CASE Commit_(r)
  BY <1>9, InsertKeeps
<1>10. CASE Reply(r)
  BY <1>10, ReplyKeeps
<1>11. CASE LoseServerConnection(r)
  BY <1>11, DieKeeps, ThrowKeeps DEF LoseServerConnection
<1>12. ASSUME NEW i \in Jobs(r), FetchRefused(r, i)
       PROVE  DataMartInv'
  BY <1>12, FetchRefusedKeeps
<1>13. CASE CallStep(r)
  BY <1>1, <1>2, <1>3, <1>4, <1>5, <1>6, <1>7, <1>8, <1>9, <1>10, <1>13 DEF CallStep
<1>14. CASE CallFails(r)
  BY <1>11, <1>12, <1>14 DEF CallFails
<1> QED
  BY <1>13, <1>14

\* The others, as long as they create no table anew while it is read from.
LEMMA OthersKeepCalls ==
  ASSUME DataMartInv, UNCHANGED <<server, call, marts, seen, readers>>,
         \A t \in Tables : readers[t] # {} => tables'[t].born = tables[t].born
  PROVE  DataMartInv'
<1>1. DataMartTypeOK /\ JobsInv /\ ReadersInv /\ PlacesInv /\ OutputInv
  BY DEF DataMartInv
<1>2. UNCHANGED server /\ UNCHANGED call /\ UNCHANGED marts /\ UNCHANGED seen /\ UNCHANGED readers
  OBVIOUS
<1>3. \A q \in Requests : /\ (Received(q)' <=> Received(q)) /\ (InPool(q)' <=> InPool(q))
                          /\ \A i \in Jobs(q) : Job(q, i)' = Job(q, i)
  BY <1>2 DEF Received, InPool, Job
<1>4. DataMartTypeOK'
  BY <1>1, <1>2, <1>3 DEF DataMartTypeOK, CallShape, JobShape, SeenShape
<1>5. JobsInv'
  <2>1. ASSUME NEW q \in Requests, Received(q)', NEW i \in Jobs(q)
        PROVE  JobInv(q, i)'
    <3>1. JobInv(q, i) /\ TableOf(q, i) \in Tables
      BY <1>1, <1>3, <2>1, JobsNameTables DEF JobsInv
    <3>2. InPool(q) /\ Job(q, i).at = "open" =>
            tables'[TableOf(q, i)].born = tables[TableOf(q, i)].born
      BY <1>1, <3>1, ReadersAreOpen
    <3> QED
      BY <1>2, <1>3, <3>1, <3>2, JobInvStays
  <2> QED
    BY <2>1 DEF JobsInv
<1>6. ReadersInv'
  <2>1. ASSUME NEW t \in Tables, NEW q \in Requests
        PROVE  Reading(q, t)' = Reading(q, t)
    BY <1>3 DEF Reading
  <2> QED
    BY <1>1, <1>2, <2>1 DEF ReadersInv
<1>7. PlacesInv' /\ OutputInv'
  BY <1>1, <1>2, <1>3 DEF PlacesInv, OutputInv, Output
<1> QED
  BY <1>4, <1>5, <1>6, <1>7 DEF DataMartInv

-------------------------------------------------------------------------------
(* A job that nothing disturbs.                                            *)

\* A table's states: it is filled while it is the same, and then created anew.
RowStates == [born : Nat, rows : [Grids -> SUBSET Dates]]
Later(a, b) ==
  \/ b.born > a.born
  \/ b.born = a.born /\ \A g \in Grids : a.rows[g] \subseteq b.rows[g]

\* GetRegionAndSquare among the grids that were loaded when the request arrived.
PlaceIn(regions, p) ==
  IF p \notin DOMAIN Place \/ DOMAIN Place[p] \cap regions = {} THEN <<0, 0>>
  ELSE <<Min(DOMAIN Place[p] \cap regions), Place[p][Min(DOMAIN Place[p] \cap regions)]>>

\* The cells of a point, from the table as it was then.
AsOf(r, i, k) ==
  IF call[r].places[k][1] = 0 THEN Zeros(r, i)
  ELSE Sums(TableOf(r, i), call[r].places[k][1], call[r].places[k][2],
            seen[r][i].before.rows[call[r].places[k][1]], Wanted(r, i))

\* What is known of a job and the table as it was when the request arrived.  Tables
\* never return to an earlier state, so that a table that is the same as it was
\* then has been so all the time.
CalmJob(r, i) ==
  /\ seen[r][i].before \in RowStates
  /\ Later(seen[r][i].before, tables[TableOf(r, i)])
  /\ \A k \in Points(r) :
       call[r].places[k] = PlaceIn(seen[r][i].regions, Request[r].points[k])
  /\ Job(r, i).at # "done" => ~seen[r][i].calm
  /\ Job(r, i).at = "open" => Job(r, i).left \subseteq GridsOf(r)
  /\ Job(r, i).at = "open" /\ tables[TableOf(r, i)] = seen[r][i].before =>
       \A k \in Points(r) :
         call[r].places[k][1] \notin Job(r, i).left => Job(r, i).cells[k] = AsOf(r, i, k)
  /\ Job(r, i).at = "done" /\ seen[r][i].calm =>
       \A k \in Points(r) : Job(r, i).cells[k] = AsOf(r, i, k)

CalmInv == \A r \in Requests : Received(r) => \A i \in Jobs(r) : CalmJob(r, i)

LEMMA LaterOnce ==
  ASSUME NEW a \in RowStates, NEW b \in RowStates, NEW c \in RowStates,
         Later(a, b), Later(b, c)
  PROVE  Later(a, c) /\ (c = a => b = a)
<1>1. /\ a.born \in Nat /\ b.born \in Nat /\ c.born \in Nat
      /\ a = [born |-> a.born, rows |-> a.rows] /\ b = [born |-> b.born, rows |-> b.rows]
      /\ a.rows \in [Grids -> SUBSET Dates] /\ b.rows \in [Grids -> SUBSET Dates]
  BY DEF RowStates
<1>2. Later(a, c)
  <2>1. CASE c.born > a.born
    BY <2>1 DEF Later
  <2>2. CASE ~(c.born > a.born)
    <3>1. b.born = a.born /\ c.born = b.born
      BY <1>1, <2>2 DEF Later
    <3>2. \A g \in Grids : a.rows[g] \subseteq b.rows[g] /\ b.rows[g] \subseteq c.rows[g]
      BY <1>1, <3>1 DEF Later
    <3> QED
      BY <3>1, <3>2 DEF Later
  <2> QED
    BY <2>1, <2>2
<1>3. ASSUME c = a
      PROVE  b = a
  <2>1. b.born = a.born
    BY <1>1, <1>3 DEF Later
  <2>2. \A g \in Grids : a.rows[g] = b.rows[g]
    BY <1>1, <1>3, <2>1 DEF Later
  <2>3. a.rows = b.rows
    BY <1>1, <2>2
  <2> QED
    BY <1>1, <2>1, <2>3
<1> QED
  BY <1>2, <1>3

\* What the steps of other jobs and programs leave of a job.
LEMMA CalmStays ==
  ASSUME NEW r \in Requests, NEW i \in Jobs(r), CalmJob(r, i),
         Job(r, i)' = Job(r, i), seen'[r][i] = seen[r][i], call'[r].places = call[r].places,
         tables[TableOf(r, i)] \in RowStates, tables'[TableOf(r, i)] \in RowStates,
         Later(tables[TableOf(r, i)], tables'[TableOf(r, i)])
  PROVE  CalmJob(r, i)'
<1>1. PICK a, b, c : a = seen[r][i].before /\ b = tables[TableOf(r, i)]
                     /\ c = tables'[TableOf(r, i)]
  OBVIOUS
<1>2. /\ a \in RowStates /\ b \in RowStates /\ c \in RowStates /\ Later(a, b) /\ Later(b, c)
  BY <1>1 DEF CalmJob
<1>3. Later(a, c) /\ (c = a => b = a)
  BY <1>2, LaterOnce
<1>4. \A k \in Points(r) : AsOf(r, i, k)' = AsOf(r, i, k)
  BY DEF AsOf
<1>5. GridsOf(r)' = GridsOf(r)
  BY DEF GridsOf
<1>6. Later(seen[r][i].before, tables[TableOf(r, i)])'
  BY <1>1, <1>3 DEF Later
<1> QED
  BY <1>1, <1>3, <1>4, <1>5, <1>6 DEF CalmJob

\* A step after which the same is known of the jobs.
JobsStay ==
  /\ UNCHANGED seen
  /\ \A q \in Requests : /\ Received(q)' => Received(q)
                          /\ call'[q].places = call[q].places
                          /\ call'[q].jobs = call[q].jobs

LEMMA CalmFrame ==
  ASSUME CalmInv, JobsStay,
         \A t \in Tables : /\ tables[t] \in RowStates /\ tables'[t] \in RowStates
                           /\ Later(tables[t], tables'[t])
  PROVE  CalmInv'
<1>1. ASSUME NEW r \in Requests, Received(r)', NEW i \in Jobs(r)
      PROVE  CalmJob(r, i)'
  <2>1. CalmJob(r, i) /\ TableOf(r, i) \in Tables
    BY <1>1, JobsNameTables DEF CalmInv, JobsStay
  <2>2. Job(r, i)' = Job(r, i)
    BY <1>1 DEF JobsStay, Job
  <2>3. seen'[r][i] = seen[r][i] /\ call'[r].places = call[r].places
    BY <1>1 DEF JobsStay
  <2> QED
    BY <1>1, <2>1, <2>2, <2>3, CalmStays
<1> QED
  BY <1>1 DEF CalmInv

LEMMA SameIsLater ==
  ASSUME NEW t, tables'[t] = tables[t]
  PROVE  Later(tables[t], tables'[t])
BY DEF Later

\* A step of one job.
LEMMA CalmJobStep ==
  ASSUME DataMartTypeOK, CalmInv, NEW r \in Requests, NEW i \in Jobs(r), InPool(r),
         NEW job, SetJob(r, i, job),
         seen' = [seen EXCEPT ![r] = [seen[r] EXCEPT ![i] = seen'[r][i]]],
         \A t \in Tables : tables[t] \in RowStates, UNCHANGED tables,
         CalmJob(r, i)'
  PROVE  CalmInv'
<1>1. Received(r)
  BY DEF InPool, Received
<1>2. /\ \A q \in Requests : /\ call'[q].at = call[q].at
                             /\ call'[q].places = call[q].places
      /\ \A q \in Requests \ {r} : call'[q] = call[q]
      /\ \A k \in Jobs(r) \ {i} : Job(r, k)' = Job(r, k)
  BY <1>1, SetJobSets
<1>3. /\ \A q \in Requests \ {r} : seen'[q] = seen[q]
      /\ \A k \in Jobs(r) \ {i} : seen'[r][k] = seen[r][k]
  <2>1. /\ seen = [q \in Requests |-> seen[q]]
        /\ seen[r] = [k \in Jobs(r) |-> seen[r][k]]
    BY <1>1 DEF DataMartTypeOK
  <2> DEFINE s == [seen[r] EXCEPT ![i] = seen'[r][i]]
  <2>2. seen' = [seen EXCEPT ![r] = s] /\ \A k \in Jobs(r) \ {i} : s[k] = seen[r][k]
    BY <2>1
  <2> HIDE DEF s
  <2>3. seen'[r] = s /\ \A q \in Requests \ {r} : seen'[q] = seen[q]
    BY <2>1, <2>2
  <2> QED
    BY <2>2, <2>3
<1>4. ASSUME NEW q \in Requests, Received(q)', NEW k \in Jobs(q)
      PROVE  CalmJob(q, k)'
  <2>1. CASE q = r /\ k = i
    BY <2>1
  <2>2. CASE ~(q = r /\ k = i)
    <3>1. Job(q, k)' = Job(q, k) /\ seen'[q][k] = seen[q][k]
      BY <1>2, <1>3, <2>2 DEF Job
    <3>2. CalmJob(q, k)
      BY <1>2, <1>4 DEF CalmInv, Received
    <3>3. PICK t \in Tables : t = TableOf(q, k)
      BY JobsNameTables
    <3>4. tables[t] \in RowStates /\ tables'[t] \in RowStates /\ Later(tables[t], tables'[t])
      BY SameIsLater
    <3> QED
      BY <1>2, <3>1, <3>2, <3>3, <3>4, CalmStays
  <2> QED
    BY <2>1, <2>2
<1> QED
  BY <1>4 DEF CalmInv

\* The calls that only go on, or fail, leave their jobs as they are.
LEMMA GoStays ==
  ASSUME DataMartTypeOK, NEW r \in Requests, Received(r), NEW at \in CallPhases \ {"new"},
         NEW holds \in BOOLEAN, UNCHANGED seen,
         call' = [call EXCEPT ![r] = [call[r] EXCEPT !.at = at, !.holds = holds]]
  PROVE  JobsStay
<1>1. /\ \A q \in Requests : Received(q)' <=> Received(q)
      /\ \A q \in Requests \ {r} : call'[q] = call[q]
      /\ call'[r].places = call[r].places /\ call'[r].jobs = call[r].jobs
  BY GoGoes
<1> QED
  BY <1>1 DEF JobsStay

LEMMA DieStays ==
  ASSUME DataMartTypeOK, OutputInv, Die
  PROVE  JobsStay
<1>1. ASSUME NEW q \in Requests
      PROVE  /\ Received(q)' => Received(q)
             /\ call'[q].places = call[q].places /\ call'[q].jobs = call[q].jobs
  BY DieSets DEF Received, Ended
<1> QED
  BY <1>1 DEF JobsStay, Die

LEMMA ThrowStays ==
  ASSUME DataMartTypeOK, OutputInv, NEW r \in Requests,
         call[r].at \in {"dropping", "creating", "inserting"}, Throw(r)
  PROVE  JobsStay
<1>1. CASE Die
  BY <1>1, DieStays
<1>2. CASE ~Die
  <2>1. call' = [call EXCEPT ![r] = [call[r] EXCEPT !.at = "failed", !.holds = FALSE]]
    BY <1>2, GoesTwice DEF Throw
  <2>2. Received(r) /\ UNCHANGED seen
    BY <1>2 DEF Received, Throw
  <2> QED
    BY <2>1, <2>2, GoStays DEF CallPhases
<1> QED
  BY <1>1, <1>2

LEMMA CallsStay ==
  ASSUME DataMartTypeOK, OutputInv, NEW r \in Requests,
         \/ Gather(r) \/ Drop(r) \/ Create(r) \/ OutputRefused(r) \/ OutputOfNothing(r)
         \/ InsertOverrun(r) \/ Commit_(r) \/ Reply(r) \/ LoseServerConnection(r)
  PROVE  JobsStay
<1>1. CallShape(r)
  BY DEF DataMartTypeOK
<1>2. CASE Gather(r)
  <2> DEFINE at == IF Output(r) = NoOutput THEN "written" ELSE "dropping"
  <2>1. Go(r, at) /\ Received(r) /\ UNCHANGED seen /\ at \in CallPhases \ {"new"}
        /\ call[r].holds \in BOOLEAN
    BY <1>1, <1>2 DEF Gather, InPool, Received, CallPhases, CallShape
  <2> HIDE DEF at
  <2>2. call' = [call EXCEPT ![r] = [call[r] EXCEPT !.at = at, !.holds = call[r].holds]]
    BY <2>1, GoHolds
  <2> QED
    BY <2>1, <2>2, GoStays
<1>3. CASE Drop(r)
  <2> DEFINE holds == marts[Output(r)] # NoMart
  <2>1. call' = [call EXCEPT ![r].at = "creating", ![r].holds = holds] /\ Received(r)
        /\ UNCHANGED seen /\ holds \in BOOLEAN
    BY <1>3 DEF Drop, Received
  <2> HIDE DEF holds
  <2>2. call' = [call EXCEPT ![r] = [call[r] EXCEPT !.at = "creating", !.holds = holds]]
    BY <2>1, GoesTwice
  <2> QED
    BY <2>1, <2>2, GoStays DEF CallPhases
<1>4. CASE Create(r)
  <2>1. call' = [call EXCEPT ![r] = [call[r] EXCEPT !.at = "inserting", !.holds = TRUE]]
        /\ Received(r) /\ UNCHANGED seen
    BY <1>4, GoesTwice DEF Create, CanCreate, Received
  <2> QED
    BY <2>1, GoStays DEF CallPhases
<1>5. CASE OutputRefused(r)
  BY <1>5, ThrowStays DEF OutputRefused, CanCreate
<1>6. CASE OutputOfNothing(r) \/ InsertOverrun(r)
  BY <1>6, DieStays DEF OutputOfNothing, InsertOverrun
<1>7. CASE Commit_(r)
  <2>1. call' = [call EXCEPT ![r] = [call[r] EXCEPT !.at = "written", !.holds = FALSE]]
        /\ Received(r) /\ UNCHANGED seen
    BY <1>7, GoesTwice DEF Commit_, Received
  <2> QED
    BY <2>1, GoStays DEF CallPhases
<1>8. CASE Reply(r)
  <2>1. Go(r, "replied") /\ Received(r) /\ UNCHANGED seen /\ call[r].holds \in BOOLEAN
    BY <1>1, <1>8 DEF Reply, Received, CallShape
  <2>2. call' = [call EXCEPT ![r] = [call[r] EXCEPT !.at = "replied", !.holds = call[r].holds]]
    BY <2>1, GoHolds
  <2> QED
    BY <2>1, <2>2, GoStays DEF CallPhases
<1>9. CASE LoseServerConnection(r)
  BY <1>9, DieStays, ThrowStays DEF LoseServerConnection
<1> QED
  BY <1>2, <1>3, <1>4, <1>5, <1>6, <1>7, <1>8, <1>9

\* What a new request knows of its tables.
LEMMA ReceiveCalm ==
  ASSUME DataMartTypeOK, CalmInv, NEW r \in Requests, Receive(r),
         \A t \in Tables : tables[t] \in RowStates
  PROVE  CalmInv'
<1> DEFINE c == [at |-> "pool", places |-> Located(r), jobs |-> [i \in Jobs(r) |-> Queued],
                 holds |-> FALSE]
           s == [i \in Jobs(r) |->
                   [before |-> tables[TableOf(r, i)], born |-> {},
                    calm |-> FALSE, regions |-> server.regions]]
<1>1. /\ UNCHANGED tables
      /\ call' = [call EXCEPT ![r] = c] /\ seen' = [seen EXCEPT ![r] = s]
  BY DEF Receive, database
<1>2. /\ call'[r] = c /\ \A q \in Requests \ {r} : call'[q] = call[q]
      /\ seen'[r] = s /\ \A q \in Requests \ {r} : seen'[q] = seen[q]
  BY <1>1 DEF DataMartTypeOK
<1>3. /\ c.places = Located(r) /\ \A i \in Jobs(r) : c.jobs[i] = Queued
      /\ \A i \in Jobs(r) : /\ s[i].before = tables[TableOf(r, i)] /\ s[i].calm = FALSE
                            /\ s[i].regions = server.regions
  OBVIOUS
<1> HIDE DEF c, s
<1>4. ASSUME NEW i \in Jobs(r)
      PROVE  CalmJob(r, i)'
  <2>1. PICK t \in Tables : t = TableOf(r, i)
    BY JobsNameTables
  <2>2. Job(r, i)'.at = "queued"
    BY <1>2, <1>3 DEF Job, Queued
  <2>3. /\ seen'[r][i].before = tables'[t] /\ seen'[r][i].calm = FALSE
        /\ seen'[r][i].regions = server.regions /\ tables'[t] \in RowStates
    BY <1>1, <1>2, <1>3, <2>1
  <2>4. Later(seen[r][i].before, tables[TableOf(r, i)])'
    BY <2>1, <2>3 DEF Later
  <2>5. ASSUME NEW k \in Points(r)
        PROVE  Located(r)[k] = PlaceIn(server.regions, Request[r].points[k])
    BY DEF Located, GetRegionAndSquare, PlaceIn
  <2>6. \A k \in Points(r) :
          call'[r].places[k] = PlaceIn(seen'[r][i].regions, Request[r].points[k])
    BY <1>2, <1>3, <2>3, <2>5
  <2> QED
    BY <2>2, <2>3, <2>4, <2>6 DEF CalmJob, PlaceIn
<1>5. ASSUME NEW q \in Requests \ {r}, Received(q)', NEW i \in Jobs(q)
      PROVE  CalmJob(q, i)'
  <2>1. CalmJob(q, i) /\ TableOf(q, i) \in Tables
    BY <1>2, <1>5, JobsNameTables DEF CalmInv, Received
  <2>2. Job(q, i)' = Job(q, i) /\ call'[q].places = call[q].places
        /\ seen'[q][i] = seen[q][i]
    BY <1>2, <1>5 DEF Job
  <2>3. PICK t \in Tables : t = TableOf(q, i)
    BY <2>1
  <2>4. tables[t] \in RowStates /\ tables'[t] \in RowStates /\ Later(tables[t], tables'[t])
    BY <1>1, SameIsLater
  <2> QED
    BY <1>5, <2>1, <2>2, <2>3, <2>4, CalmStays
<1> QED
  BY <1>4, <1>5 DEF CalmInv

\* What a step of the job itself leaves: the job is job, the rest of what is known of it
\* does not change.
LEMMA CalmSame ==
  ASSUME DataMartTypeOK, CalmInv, NEW r \in Requests, NEW i \in Jobs(r), InPool(r),
         NEW job, SetJob(r, i, job), UNCHANGED tables,
         seen'[r][i].before = seen[r][i].before, seen'[r][i].regions = seen[r][i].regions
  PROVE  /\ Job(r, i)' = job /\ GridsOf(r)' = GridsOf(r) /\ CalmJob(r, i)
         /\ \A k \in Points(r) : AsOf(r, i, k)' = AsOf(r, i, k)
         /\ (seen[r][i].before \in RowStates)'
         /\ Later(seen[r][i].before, tables[TableOf(r, i)])'
         /\ (\A k \in Points(r) :
               call[r].places[k] = PlaceIn(seen[r][i].regions, Request[r].points[k]))'
<1>1. Received(r)
  BY DEF InPool, Received
<1>2. Job(r, i)' = job /\ call'[r].places = call[r].places
  BY <1>1, SetJobSets
<1>3. CalmJob(r, i)
  BY <1>1 DEF CalmInv
<1>4. GridsOf(r)' = GridsOf(r)
  BY <1>2 DEF GridsOf
<1>5. \A k \in Points(r) : AsOf(r, i, k)' = AsOf(r, i, k)
  BY <1>2 DEF AsOf
<1>6. Later(seen[r][i].before, tables[TableOf(r, i)])'
  BY <1>3 DEF CalmJob, Later
<1> QED
  BY <1>2, <1>3, <1>4, <1>5, <1>6 DEF CalmJob, PlaceIn

LEMMA OpenCalm ==
  ASSUME DataMartTypeOK, CalmInv, NEW r \in Requests, NEW i \in Jobs(r), Open(r, i),
         \A t \in Tables : tables[t] \in RowStates
  PROVE  CalmInv'
<1> DEFINE cells == [k \in Points(r) |->
                       IF call[r].places[k][1] = 0 THEN Zeros(r, i) ELSE Unset]
           job == [at |-> "open", left |-> GridsOf(r), cells |-> cells]
<1>1. /\ InPool(r) /\ Job(r, i).at = "queued" /\ SetJob(r, i, job) /\ Received(r)
      /\ UNCHANGED tables /\ UNCHANGED seen
  BY DEF Open, CanOpen, InPool, Received
<1>2. job.at = "open" /\ job.left = GridsOf(r) /\ job.cells = cells
  OBVIOUS
<1> HIDE DEF job
<1>3. /\ Job(r, i)' = job /\ GridsOf(r)' = GridsOf(r) /\ CalmJob(r, i)
      /\ \A k \in Points(r) : AsOf(r, i, k)' = AsOf(r, i, k)
      /\ (seen[r][i].before \in RowStates)'
      /\ Later(seen[r][i].before, tables[TableOf(r, i)])'
      /\ (\A k \in Points(r) :
            call[r].places[k] = PlaceIn(seen[r][i].regions, Request[r].points[k]))'
      /\ \A q \in Requests : call'[q].places = call[q].places
  BY <1>1, CalmSame, SetJobSets
<1>4. ASSUME NEW k \in Points(r), call[r].places[k][1] \notin GridsOf(r)
      PROVE  cells[k] = AsOf(r, i, k)
  <2>1. call[r].places[k][1] = 0
    BY <1>4 DEF GridsOf
  <2> QED
    BY <2>1 DEF AsOf
<1> HIDE DEF cells
<1>5. seen'[r][i].calm = seen[r][i].calm /\ ~seen[r][i].calm
  BY <1>1, <1>3 DEF CalmJob
<1>6. CalmJob(r, i)'
  BY <1>2, <1>3, <1>4, <1>5 DEF CalmJob
<1>7. seen' = [seen EXCEPT ![r] = [seen[r] EXCEPT ![i] = seen'[r][i]]]
  BY <1>1 DEF DataMartTypeOK
<1> QED
  BY <1>1, <1>6, <1>7, CalmJobStep

\* A job that ends without columns, or is interrupted, was not undisturbed.
LEMMA EndedCalm ==
  ASSUME DataMartTypeOK, CalmInv, NEW r \in Requests, NEW i \in Jobs(r), InPool(r),
         Job(r, i).at # "done", NEW job, SetJob(r, i, job), job.at = "done",
         UNCHANGED seen, UNCHANGED tables, \A t \in Tables : tables[t] \in RowStates
  PROVE  CalmInv'
<1>1. /\ Job(r, i)' = job /\ CalmJob(r, i)
      /\ (seen[r][i].before \in RowStates)'
      /\ Later(seen[r][i].before, tables[TableOf(r, i)])'
      /\ (\A k \in Points(r) :
            call[r].places[k] = PlaceIn(seen[r][i].regions, Request[r].points[k]))'
  BY CalmSame
<1>2. ~seen'[r][i].calm
  BY <1>1 DEF CalmJob
<1>3. CalmJob(r, i)'
  BY <1>1, <1>2 DEF CalmJob
<1>4. seen' = [seen EXCEPT ![r] = [seen[r] EXCEPT ![i] = seen'[r][i]]]
  BY DEF DataMartTypeOK, InPool, Received
<1> QED
  BY <1>3, <1>4, CalmJobStep

LEMMA CloseCalm ==
  ASSUME DataMartTypeOK, CalmInv, NEW r \in Requests, NEW i \in Jobs(r), Close(r, i),
         \A t \in Tables : tables[t] \in RowStates
  PROVE  CalmInv'
<1> DEFINE job == [at |-> "done", left |-> Job(r, i).left, cells |-> Job(r, i).cells]
<1>1. /\ InPool(r) /\ Job(r, i).at = "open" /\ Job(r, i).left = {} /\ UNCHANGED tables
      /\ EndJob(r, i)
  BY DEF Close
<1>2. SetJob(r, i, job)
  BY <1>1, EndJobSets
<1>3. /\ seen' = [seen EXCEPT ![r] = [seen[r] EXCEPT ![i] = seen'[r][i]]]
      /\ seen'[r][i].before = seen[r][i].before
      /\ seen'[r][i].calm = (tables[TableOf(r, i)] = seen[r][i].before)
      /\ seen'[r][i].regions = seen[r][i].regions
  BY CloseSees
<1>4. job.at = "done" /\ job.cells = Job(r, i).cells
  OBVIOUS
<1> HIDE DEF job
<1>5. /\ Job(r, i)' = job /\ CalmJob(r, i)
      /\ \A k \in Points(r) : AsOf(r, i, k)' = AsOf(r, i, k)
      /\ (seen[r][i].before \in RowStates)'
      /\ Later(seen[r][i].before, tables[TableOf(r, i)])'
      /\ (\A k \in Points(r) :
            call[r].places[k] = PlaceIn(seen[r][i].regions, Request[r].points[k]))'
  BY <1>1, <1>2, <1>3, CalmSame
<1>6. ASSUME seen'[r][i].calm, NEW k \in Points(r)
      PROVE  job.cells[k] = AsOf(r, i, k)
  BY <1>1, <1>3, <1>4, <1>5, <1>6 DEF CalmJob
<1>7. CalmJob(r, i)'
  BY <1>4, <1>5, <1>6 DEF CalmJob
<1> QED
  BY <1>1, <1>2, <1>3, <1>7, CalmJobStep

\* A query of a table that is the same fills the cells of its grid from that table.
LEMMA FetchCalm ==
  ASSUME DataMartTypeOK, PlacesInv, CalmInv, NEW r \in Requests, NEW i \in Jobs(r), Fetch(r, i),
         \A t \in Tables : tables[t] \in RowStates
  PROVE  CalmInv'
<1>1. PICK g : g = Min(Job(r, i).left)
  OBVIOUS
<1>2. PICK t \in Tables : t = TableOf(r, i)
  BY JobsNameTables
<1> DEFINE cells == [k \in Points(r) |->
                       IF call[r].places[k][1] = g
                         THEN Cell(r, i, g, call[r].places[k][2], tables[t].rows[g])
                         ELSE Job(r, i).cells[k]]
           job == [at |-> "open", left |-> Job(r, i).left \ {g}, cells |-> cells]
<1>3. /\ InPool(r) /\ Job(r, i).at = "open" /\ Job(r, i).left # {} /\ UNCHANGED tables
      /\ ~OutOfRange(r, i, g) /\ Received(r)
  BY <1>1 DEF Fetch, database, InPool, Received
<1>4. SetJob(r, i, job)
  BY <1>1, <1>2, FetchSets
<1>5. /\ seen' = [seen EXCEPT ![r] = [seen[r] EXCEPT ![i] = seen'[r][i]]]
      /\ seen'[r][i].before = seen[r][i].before /\ seen'[r][i].calm = seen[r][i].calm
      /\ seen'[r][i].regions = seen[r][i].regions
  BY FetchSees
<1>6. job.at = "open" /\ job.left = Job(r, i).left \ {g} /\ job.cells = cells
  OBVIOUS
<1> HIDE DEF job
<1>7. /\ Job(r, i)' = job /\ GridsOf(r)' = GridsOf(r) /\ CalmJob(r, i)
      /\ \A k \in Points(r) : AsOf(r, i, k)' = AsOf(r, i, k)
      /\ (seen[r][i].before \in RowStates)'
      /\ Later(seen[r][i].before, tables[TableOf(r, i)])'
      /\ (\A k \in Points(r) :
            call[r].places[k] = PlaceIn(seen[r][i].regions, Request[r].points[k]))'
      /\ \A q \in Requests : call'[q].places = call[q].places
  BY <1>3, <1>4, <1>5, CalmSame, SetJobSets
<1>8. g \in Grids /\ g # 0
  <2>1. Job(r, i).left \subseteq GridsOf(r) /\ GridsOf(r) \subseteq Grids
    BY <1>3, <1>7 DEF CalmJob, GridsOf, PlacesInv
  <2>2. Grids \subseteq Nat \ {0}
    BY DatabaseAssumption
  <2>3. g \in Job(r, i).left
    BY <1>1, <1>3, <2>1, <2>2, MinIsMember
  <2> QED
    BY <2>1, <2>2, <2>3
<1>9. ASSUME tables[t] = seen[r][i].before, NEW k \in Points(r),
             call[r].places[k][1] \notin Job(r, i).left \ {g}
      PROVE  cells[k] = AsOf(r, i, k)
  <2>1. CASE call[r].places[k][1] = g
    <3>1. tables[t].rows[g] \subseteq Dates
      BY <1>8 DEF RowStates
    <3>2. \A s : Cell(r, i, g, s, tables[t].rows[g])
                   = Sums(t, g, s, tables[t].rows[g], Wanted(r, i))
      BY <1>2, <1>3, <1>8, <3>1, CellIsSums
    <3>3. cells[k] = Cell(r, i, g, call[r].places[k][2], tables[t].rows[g])
      BY <2>1
    <3>4. AsOf(r, i, k) = Sums(t, g, call[r].places[k][2], tables[t].rows[g], Wanted(r, i))
      BY <1>2, <1>8, <1>9, <2>1 DEF AsOf
    <3> QED
      BY <3>2, <3>3, <3>4
  <2>2. CASE call[r].places[k][1] # g
    <3>1. cells[k] = Job(r, i).cells[k] /\ call[r].places[k][1] \notin Job(r, i).left
      BY <1>9, <2>2
    <3> QED
      BY <1>2, <1>3, <1>7, <1>9, <3>1 DEF CalmJob
  <2> QED
    BY <2>1, <2>2
<1> HIDE DEF cells
<1>10. ~seen'[r][i].calm /\ job.left \subseteq GridsOf(r)
  BY <1>3, <1>5, <1>6, <1>7 DEF CalmJob
<1>11. tables'[t] = seen'[r][i].before => tables[t] = seen[r][i].before
  BY <1>3, <1>5
<1>12. CalmJob(r, i)'
  BY <1>2, <1>6, <1>7, <1>9, <1>10, <1>11 DEF CalmJob
<1> QED
  BY <1>3, <1>4, <1>5, <1>12, CalmJobStep

\* Every step of a request keeps what is known of undisturbed jobs.
LEMMA RequestKeepsCalm ==
  ASSUME DataMartInv, CalmInv, NEW r \in Requests, CallStep(r) \/ CallFails(r),
         UNCHANGED tables, \A t \in Tables : tables[t] \in RowStates
  PROVE  CalmInv'
<1>1. DataMartTypeOK /\ OutputInv /\ PlacesInv
  BY DEF DataMartInv
<1>2. ASSUME JobsStay
      PROVE  CalmInv'
  <2>1. \A t \in Tables : /\ tables[t] \in RowStates /\ tables'[t] \in RowStates
                          /\ Later(tables[t], tables'[t])
    BY SameIsLater
  <2> QED
    BY <1>2, <2>1, CalmFrame
<1>3. ASSUME NEW i \in Jobs(r), JobStep(r, i)
      PROVE  CalmInv'
  <2>1. CASE Open(r, i)
    BY <1>1, <2>1, OpenCalm
  <2>2. CASE OpenRefused(r, i)
    <3> DEFINE job == [Queued EXCEPT !.at = "done"]
    <3>1. /\ InPool(r) /\ Job(r, i).at # "done" /\ SetJob(r, i, job) /\ job.at = "done"
          /\ UNCHANGED seen
      BY <2>2 DEF OpenRefused, CanOpen, Queued
    <3> HIDE DEF job
    <3> QED
      BY <1>1, <3>1, EndedCalm
  <2>3. CASE Fetch(r, i)
    BY <1>1, <2>3, FetchCalm
  <2>4. CASE FetchOutOfRange(r, i)
    BY <1>1, <1>2, <2>4, DieStays DEF FetchOutOfRange
  <2>5. CASE Close(r, i)
    BY <1>1, <2>5, CloseCalm
  <2> QED
    BY <1>3, <2>1, <2>2, <2>3, <2>4, <2>5 DEF JobStep
<1>4. CASE Receive(r)
  BY <1>1, <1>4, ReceiveCalm
<1>5. ASSUME NEW i \in Jobs(r), FetchRefused(r, i)
      PROVE  CalmInv'
  <2> DEFINE job == [at |-> "done", left |-> Job(r, i).left, cells |-> Job(r, i).cells]
  <2>1. InPool(r) /\ Job(r, i).at # "done" /\ EndJob(r, i) /\ UNCHANGED seen
    BY <1>5 DEF FetchRefused
  <2>2. SetJob(r, i, job) /\ job.at = "done"
    BY <1>1, <2>1, EndJobSets
  <2> HIDE DEF job
  <2> QED
    BY <1>1, <2>1, <2>2, EndedCalm
<1>6. CASE \/ Gather(r) \/ Drop(r) \/ Create(r) \/ OutputRefused(r) \/ OutputOfNothing(r)
           \/ InsertOverrun(r) \/ Commit_(r) \/ Reply(r) \/ LoseServerConnection(r)
  BY <1>1, <1>2, <1>6, CallsStay
<1> QED
  BY <1>3, <1>4, <1>5, <1>6 DEF CallStep, CallFails

-------------------------------------------------------------------------------
(* What the invariant says of a call.                                      *)

\* The fold that a point is told is the same sum.
LEMMA InRingsIsSum ==
  ASSUME NEW t, NEW g, NEW s, NEW dates, NEW wanted, NEW m \in Nat
  PROVE  InRings(t, g, s, dates, wanted, m)
           = SumOf([j \in 1..m |-> Ring(t, g, s, dates, wanted[j] \div 100)], 1..m)
<1> DEFINE X == 1..m
           V(j) == Ring(t, g, s, dates, wanted[j] \div 100)
           v == [j \in X |-> V(j)]
           F(f) == f = [u \in SUBSET X |->
                          IF u = {} THEN 0
                          ELSE V(CHOOSE i \in u : TRUE) + f[u \ {CHOOSE i \in u : TRUE}]]
           h == CHOOSE f : F(f)
           k == CHOOSE f : Accumulates(v, f, X)
<1>1. MapThenSumSet(LAMBDA j : V(j), X) = h[X]
  BY DEF MapThenSumSet, MapThenFoldSet
<1>2. IsFiniteSet(X)
  BY FS_Interval
<1>3. ASSUME NEW u \in SUBSET X, u # {}
      PROVE  v[CHOOSE i \in u : TRUE] = V(CHOOSE i \in u : TRUE)
  <2>1. (CHOOSE i \in u : TRUE) \in u
    BY <1>3
  <2> HIDE DEF V
  <2> QED
    BY <2>1
<1> HIDE DEF V, v, X
<1>4. Accumulates(v, k, X) /\ SumOf(v, X) = k[X]
  BY <1>2, SumsExist DEF SumOf
<1>5. ASSUME NEW f
      PROVE  F(f) <=> Accumulates(v, f, X)
  <2>1. ASSUME NEW u \in SUBSET X
        PROVE  (IF u = {} THEN 0 ELSE V(CHOOSE i \in u : TRUE) + f[u \ {CHOOSE i \in u : TRUE}])
             = (IF u = {} THEN 0 ELSE v[CHOOSE i \in u : TRUE] + f[u \ {CHOOSE i \in u : TRUE}])
    BY <1>3
  <2> QED
    BY <2>1 DEF Accumulates
<1> HIDE DEF F, k
<1>6. F(h)
  <2>1. \E f : F(f)
    BY <1>4, <1>5
  <2> QED
    BY <2>1
<1> HIDE DEF h
<1>7. Accumulates(v, h, X)
  BY <1>5, <1>6
<1>8. \A u \in SUBSET X : h[u] = k[u]
  <2>1. PICK a, b, x, y : a = v /\ b = v /\ x = h /\ y = k
    OBVIOUS
  <2>2. /\ Accumulates(a, x, X) /\ Accumulates(b, y, X) /\ X \subseteq X
        /\ \A i \in X : a[i] = b[i]
    BY <1>4, <1>7, <2>1
  <2>3. \A u \in SUBSET X : x[u] = y[u]
    BY <1>2, <2>2, SumsAgree
  <2> QED
    BY <2>1, <2>3
<1>9. MapThenSumSet(LAMBDA j : V(j), X) = SumOf(v, X)
  BY <1>1, <1>4, <1>8
<1> QED
  BY <1>9 DEF V, v, X, InRings

\* What the point is told is what its cells are, if it was placed among all grids.
LEMMA ToldIsAsOf ==
  ASSUME NEW r \in Requests, NEW i \in Jobs(r), NEW k \in Points(r),
         call[r].places[k] = PlaceIn(Grids, Request[r].points[k])
  PROVE  Told(r, i, k) = AsOf(r, i, k)
<1>1. PICK p, t, rows : /\ p = Request[r].points[k] /\ t = TableOf(r, i)
                        /\ rows = seen[r][i].before.rows
  OBVIOUS
<1>2. PICK wanted \in Seq(Nat) : wanted = Wanted(r, i)
  BY WantedIs
<1>3. CASE p \notin DOMAIN Place \/ DOMAIN Place[p] = {}
  <2>1. p \notin DOMAIN Place \/ DOMAIN Place[p] \cap Grids = {}
    BY <1>3
  <2>2. call[r].places[k] = <<0, 0>>
    BY <1>1, <2>1 DEF PlaceIn
  <2>3. AsOf(r, i, k) = [m \in DOMAIN wanted |-> 0]
    BY <1>2, <2>2 DEF AsOf, Zeros
  <2>4. Told(r, i, k) = [m \in DOMAIN wanted |-> 0]
    BY <1>1, <1>2, <1>3 DEF Told
  <2> QED
    BY <2>3, <2>4
<1>4. CASE p \in DOMAIN Place /\ DOMAIN Place[p] # {}
  <2>1. DOMAIN Place[p] \subseteq Grids /\ Grids \subseteq Nat \ {0}
    BY <1>4, DataMartAssumption, DatabaseAssumption
  <2>2. PICK around \in SUBSET Grids : around = DOMAIN Place[p] /\ around # {}
                                       /\ DOMAIN Place[p] \cap Grids = around
    BY <1>4, <2>1
  <2>3. PICK g : g = Min(around)
    OBVIOUS
  <2>4. g \in around /\ g # 0
    BY <2>1, <2>2, <2>3, MinIsMember
  <2>5. PICK s : s = Place[p][g]
    OBVIOUS
  <2>6. call[r].places[k] = <<g, s>>
    BY <1>1, <1>4, <2>2, <2>3, <2>5 DEF PlaceIn
  <2>7. AsOf(r, i, k) = Sums(t, g, s, rows[g], wanted)
    BY <1>1, <1>2, <2>4, <2>6 DEF AsOf
  <2>8. g = CHOOSE h \in DOMAIN Place[p] : \A o \in DOMAIN Place[p] : h <= o
    BY <2>2, <2>3 DEF Min
  <2>9. Told(r, i, k) = [m \in DOMAIN wanted |-> InRings(t, g, s, rows[g], wanted, m)]
    <3> DEFINE least == CHOOSE h \in DOMAIN Place[p] : \A o \in DOMAIN Place[p] : h <= o
    <3>1. Told(r, i, k) =
            [m \in DOMAIN wanted |->
               IF p \notin DOMAIN Place \/ DOMAIN Place[p] = {} THEN 0
               ELSE InRings(t, least, Place[p][least], rows[least], wanted, m)]
      BY <1>1, <1>2 DEF Told
    <3>2. least = g
      BY <2>8
    <3> HIDE DEF least
    <3> QED
      BY <1>4, <2>5, <3>1, <3>2
  <2>10. ASSUME NEW m \in DOMAIN wanted
         PROVE  InRings(t, g, s, rows[g], wanted, m)
                  = SumOf([j \in 1..m |-> Ring(t, g, s, rows[g], wanted[j] \div 100)], 1..m)
    <3>1. m \in Nat
      BY <1>2
    <3> QED
      BY <3>1, InRingsIsSum
  <2> QED
    BY <2>7, <2>9, <2>10 DEF Sums
<1> QED
  BY <1>3, <1>4

\* The jobs there are, are those of requests that have arrived.
LEMMA JobsAre ==
  ASSUME DataMartTypeOK, NEW r \in Requests, NEW i \in DOMAIN call[r].jobs
  PROVE  Received(r) /\ i \in Jobs(r)
<1>1. Received(r)
  <2>1. ASSUME ~Received(r)
        PROVE  DOMAIN call[r].jobs = {}
    <3>1. call[r].jobs = <<>>
      BY <2>1 DEF DataMartTypeOK
    <3> QED
      BY <3>1
  <2> QED
    BY <2>1
<1>2. call[r].jobs = [k \in Jobs(r) |-> Job(r, k)]
  BY <1>1 DEF DataMartTypeOK
<1>3. DOMAIN call[r].jobs = Jobs(r)
  BY <1>2
<1> QED
  BY <1>1, <1>3

LEMMA CalmIsRight ==
  ASSUME DataMartTypeOK, CalmInv
  PROVE  UndisturbedIsRight
<1>1. ASSUME NEW r \in Requests, NEW i \in DOMAIN call[r].jobs, Job(r, i).at = "done",
             seen[r][i].calm, seen[r][i].regions = Grids, NEW k \in Points(r)
      PROVE  Job(r, i).cells[k] = Told(r, i, k)
  <2>1. Received(r) /\ i \in Jobs(r)
    BY <1>1, JobsAre
  <2>2. CalmJob(r, i)
    BY <2>1 DEF CalmInv
  <2>3. Job(r, i).cells[k] = AsOf(r, i, k)
    BY <1>1, <2>2 DEF CalmJob
  <2>4. call[r].places[k] = PlaceIn(Grids, Request[r].points[k])
    BY <1>1, <2>2 DEF CalmJob
  <2> QED
    BY <1>1, <2>1, <2>3, <2>4, ToldIsAsOf
<1> QED
  BY <1>1 DEF UndisturbedIsRight

\* A set within a singleton has one member at most.
LEMMA OneAtMost ==
  ASSUME NEW x, NEW S, S \subseteq {x}
  PROVE  Cardinality(S) <= 1
<1>1. CASE S = {}
  BY <1>1, FS_EmptySet
<1>2. CASE S = {x}
  <2>1. Cardinality({x}) = 1
    BY FS_Singleton
  <2> QED
    BY <1>2, <2>1
<1> QED
  BY <1>1, <1>2

LEMMA ColumnsComeFromOneTable ==
  ASSUME DataMartInv
  PROVE  ColumnsAreOneTable
<1>1. ASSUME NEW r \in Requests, NEW i \in DOMAIN call[r].jobs
      PROVE  /\ Cardinality(seen[r][i].born) <= 1
             /\ Job(r, i).cells # NoColumns => FilledTogether(r, i)
  <2>1. Received(r) /\ i \in Jobs(r)
    BY <1>1, JobsAre DEF DataMartInv
  <2>2. JobInv(r, i)
    BY <2>1 DEF DataMartInv, JobsInv
  <2>3. PICK n \in Nat : seen[r][i].born \subseteq {n}
    BY <2>2 DEF JobInv
  <2> QED
    BY <2>2, <2>3, OneAtMost DEF JobInv
<1> QED
  BY <1>1 DEF ColumnsAreOneTable, FilledTogether

LEMMA AnsweredHaveOutput ==
  ASSUME DataMartInv
  PROVE  OutputStays
BY DEF DataMartInv, OutputInv, OutputStays

LEMMA OneHolder ==
  ASSUME DataMartInv, NEW o \in Outputs
  PROVE  Cardinality(Holders(o)) <= 1
<1>1. \A r, q \in Holders(o) : r = q
  BY DEF DataMartInv, OutputInv, Holders
<1>2. CASE Holders(o) = {}
  BY <1>2, FS_EmptySet
<1>3. CASE Holders(o) # {}
  <2>1. PICK r : r \in Holders(o)
    BY <1>3
  <2>2. Holders(o) \subseteq {r}
    BY <1>1, <2>1
  <2> QED
    BY <2>2, OneAtMost
<1> QED
  BY <1>2, <1>3
===============================================================================
