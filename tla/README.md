# squaregrid in TLA+

A verification project for the squaregrid repository: the radii pipeline that
counts objects in squares of a grid, the data marts built from it, and the
geocoding service that turns addresses into coordinates.  Paths below are
relative to `src/squaregrid/radii` unless they start with `src/`.

## 1. The system

### 1.1 Components

| Component | Code | State it keeps | Operations |
|---|---|---|---|
| Geocoding service | `processing/geocoder.py`, `geocoder.proto` | `requests_`, `active_group_tags_` in memory; one file per request in `dump_dir`; rows of the table `geo`; two locks | `GeocodeCSV`, `PullProcessedData`, the monitor thread, restart, shutdown, HTTP index |
| `geocode()` client call | `processing/geocoder.py` 423-464 | the request's tag | submit, poll, unpack |
| Grid numbering | `grids/grid_metadata.cc`, `primary/bin_squares.py`, `bin_radii.py` | none (grid metadata loaded from a table) | loading, spiral id and row and column of a point, corners and centres, the table of all cells, renumbering |
| Data grid forming | `processing/grid_forming.h` | the cells of one grid | place each object in its cell, optionally without the most common point |
| Radii summation | `processing/radii_summation.h`, `data_grid.h` | per-cell ring sums | sum of a neighbourhood by ring, cumulative or not |
| Radii table creation | `processing/table_creation.h`, `radii_writer.h` | the output table, its column widths, the job queue of a thread pool | reset table, one job per grid, one transaction per grid |
| Radii drivers | `primary/calculate_radii.cc`, `calculate_radii_bin.cc`, `bin_radii.cc`, `calculate_radii_objects.cc`, `calculate_brands.cc` | the tables still to do, the error log | one table; a table per rubric; a table per popular name of each rubric |
| Data mart manager | `primary/data_mart_manager.cc` | regions; open transactions; output tables | rings of several tables summed at given points |
| Radii freshness | `src/squaregrid/pyradii/radii_calculations.py` | log table of calculations, table of sums, list of rubrics | check, recalculate, sum, new rubrics |
| Traffic and square files | `primary/calculate_traffic.cc`, `write_squares.cc`, `legacy_square_ids.cc` | a search queue; tables, files | traffic along paths to stops; where squares are; older numbers |
| Hexagons | `hexes/calculate_radii.cpp` | the polyhedron, a search queue | neighbours and circles of hexagons on the globe (not part of the build) |
| Competitive analysis | `primary/competitive_analysis.pyx` | HTTP tasks, output table | validation, mart |
| PZT data mart | `primary/pzt_generator.pyx`, `pzt_legacy_code.py` | none | matching of points of sale by rank |
| Other batch computations | `primary/geoscore.pyx`, `locality_size.pyx`, `upload_layer.pyx` | tables | scores, sizes, layers |
| Codec, wiring | `primary/make_data_mart.py`, `utils/datamart.py`, `processing/task.py`, `utils/flask.py`, `src/setup.py` | none | arguments, conversions, http, packaging |

`radii/external`, the CMake output, `dist` and the egg-info directories are
vendored or generated and not part of the system.

### 1.2 How the parts interact

* The radii drivers query objects from PostgreSQL, place them in the squares of
  every grid (*data grid forming*), sum them by distance (*radii summation*) and
  write one table per rubric, one job per grid (*radii table creation*).  Squares
  are written under the number the walk of *grid numbering* gives them.
* The *data mart manager* is asked for rubrics and points.  It turns points into
  squares with the closed formula of *grid numbering* and reads the tables by
  number; nothing but the agreement of walk and formula ties the two together.
  The tables may be dropped, created and filled meanwhile: their locks are all
  that lies between.
* *Radii freshness* starts `calculate_radii` as a subprocess when the date of the
  objects is not the one in its log, logs the outcome by the exit code, and sums
  the radii.  Operators run the drivers on the same tables by hand.
* `calculate_traffic`, `write_squares` and `legacy_square_ids` number their rows by
  the same walk; whoever reads them uses the formula.
* The *geocoding service* is a process of its own: gRPC threads admit requests,
  an external geocoder works through the table `geo`, a monitor thread joins its
  rows into the csv files.  Other servers use it through `geocode()`.

### 1.3 What is hard

| Part | Behaviour | What makes it correct |
|---|---|---|
| Geocoding service | gRPC threads and monitor share two dictionaries under two locks; an admission goes on after the lock that checked it is released; a request lives in memory, in a file and in a table, changed one after the other; crash and restart between any two steps; group tags may collide; resubmission of what is already finished | registrations are exclusive; no circle of waiting closes over the two locks; an accepted request is never lost; results cover all addresses and do not change |
| `geocode()` | polls forever by a tag that outlives its request | what it polls for is coming; it is handed its own result; it ends |
| Grid numbering | two independent ways to number a square; corners; upper border | they agree for every side; every point is found |
| Grid forming, summation | most common point; empty grids; rounding at ring borders | the rings of a row are the objects at that distance |
| Radii table | threads widen columns while others copy; jobs fail on their own; the process may end in the middle | every grid has all its rows or a logged error; values fit; nothing committed is undone; it ends |
| Drivers | errors of a table are logged and the program goes on, and exits with 0; two drivers may write one table | no table asked for is missing without a log entry, unless another driver has it |
| Data mart manager | tables replaced or filled while read; a pool per request; errors of one table ignored; two requests with one output table; a thread's exception ends the process and with it all calls | a column is read from one table, and right when nobody interferes; an answered output table is there; nobody waits forever |
| Freshness | a date read before the objects it is about; success told by an exit code; a table dropped before the next is made; a stop while the driver goes on | a table that the log calls done has rows at least that new |
| Traffic | a search that ends where the line is far; division by the length of the path | every path has its width, each square counts it once |
| Hexagons | recursive renaming across edges; names must be unique | circles hold what is near |

PROJECT.json lists each hazard at its line, with the properties that a wrong answer to it
would violate.  Where it names none the hazard is modelled but what the code does is an
outcome of its own, neither promised nor ruled out by any doc, comment or test, or the
properties except it; the note says which.

## 2. Modules

| Module | Models | Composes |
|---|---|---|
| `Geocoder` | the service of `processing/geocoder.py` with its threads, files and external table | |
| `GeocoderClient` | concurrent `geocode()` calls | `Geocoder` (EXTENDS) |
| `GeocoderProofs` | theorems about `Geocoder`: types, locks, admission | |
| `GeocoderPromiseProofs` | theorems about what `Geocoder` and `GeocoderClient` promise | `GeocoderProofs`, `GeocoderClient` |
| `Squares` | `GetSquareId`, `bin_squares.py` (constant operators) | |
| `GridNumbering` | the walk of `EnumerateGridCells` | `Squares` |
| `Traffic` | the search of `calculate_traffic.cc` | `Squares` |
| `SquarePrograms` | `calculate_traffic`, `write_squares`, `legacy_square_ids` | `GridNumbering`, `Traffic` |
| `GridNumberingProofs` | theorems about `Squares`, `GridNumbering`, `write_squares` and `calculate_traffic` | `SquarePrograms` |
| `Hexes` | `hexes/calculate_radii.cpp` | |
| `BatchPrograms` | the programs from one input to one output | `SquarePrograms`, `Hexes` |
| `DataGrids` | `FillDataGrid`, `CalculateRadii` (constant operators) | `Squares` |
| `RadiiTable` | main thread, pool, jobs and output table | `DataGrids`; `RadiiPromise` by INSTANCE |
| `RadiiPromise` | what the calculation of a table promises (abstract) | |
| `RadiiTableProofs` | theorems about `RadiiTable`, and that it implements `RadiiPromise` | |
| `RadiiDatabase` | the tables that the programs share, their locks, faults | |
| `Drivers` | the five programs that calculate tables | `RadiiDatabase` |
| `Freshness` | `Radii.check_recency` and its driver | `Drivers` |
| `DataMart` | the data mart manager | `RadiiDatabase` |
| `Pipeline` | all of them at once | `Freshness`, `DataMart` |
| `SumTheorems` | lemmas: what the folds of the models sum | |
| `FreshnessProofs`, `DataMartProofs` | what `Drivers` and `Freshness`, and `DataMart`, keep | |
| `PipelineProofs` | theorems about `Pipeline` | `FreshnessProofs`, `DataMartProofs` |
| `MCGeocoder`, `MCGeocoderClient`, `MCRadiiTable`, `MCBatchPrograms`, `MCPipeline` | instances for TLC | |

Operators named `...Unchecked`, `...Early` and the like under a comment
`Mutant:` are plausible bugs; replacing the definition they follow by them must
break the property PROJECT.json names.

### 2.1 Geocoder

*State.*  `requests` is `requests_`, `active` is `active_group_tags_`, `handler`
the control state of each gRPC thread, `monitor` that of the monitor thread,
`engineLock` and `requestsLock` the two locks; these are lost in a crash.
`dump` is `dump_dir`, `geo` the table, `exported` the output tables, and survive.
`service` is `up`, `stopping` after `shutdown()` or `down`.

*Actions.*  `Submit` is a call of `GeocodeCSV` up to the moment it has `requests_lock_`,
`Register` the locked section (171-174), which answers a duplicate or registers; then
`RejectCSV` or `LockEngine`, one `InsertChunk` per bulk insert (or `InsertChunkShort`,
`InsertChunkError`), `Activate`, `OpenDump` and `WriteDump`: between any two of these
other threads run, and the process may crash.  `Poll` is a turn of the monitor with its
two queries, for which it has `engine_lock_` alone (274-304); with that in its hands it
waits for the other lock, `LockRequests` (225), which starts the first group.  Per
request of a group `Merge`, `Unlink`, `OpenResult`, `WriteResult` follow, with `MergeMissing`
and `UnlinkMissing` for the exceptions the code lets through to the loop
(`AbortTurn`), then `EndGroup`.  `PullDelete` is `PullProcessedData` with
deletion.  `Restart` is `check_dropped_requests`.

*External.*  The geocoder that fills `geo` (`MarkDone`), the rows of `geo`, which
come back in insertion order, and `Crash`.

*Abstractions.*  A csv is known by its original and the left joins made into it;
a request id is the hash of that, so it is represented by it, as SHA-256 does not
collide in practice.  Its residue modulo 1000000007 does, and `GroupTag` is a
parameter.  `request_geocoding_` computes id and tag once more after `engine_lock_` is
released (189-190); `Activate` uses those of the original, which differ only if a stale
entry under a shared tag has joined the csv in between.  A file is empty from the `open`
to the end of the `write`.  `Crash` is the end of the process: what it has written to
files survives, though nothing is synchronised to the disk, so a crash of the machine
may lose more.  Calls
that change nothing (a pull without deletion, missing fields, the http page) have
no action.

### 2.2 GeocoderClient

`client` is where each call is: `calling`, `polling`, `returned`, `raised`, or
`asserted` when line 458 fails.  `Call` is a `Submit` by the thread that serves
the client; `PullOne`, `PullSeveral` and `PullRefused` are the outcomes of a poll
that ends it; a poll that finds nothing changes nothing.  `Unpacked` says whether
`parse_geo_json` returns or raises: each second left join renames the two columns that it
drops at its end (420), so a csv joined twice raises, one joined three times does not;
`MaxJoins` stands for that many or more, where either happens.

### 2.3 GridNumbering and Squares

A step is a turn of the while-loop of `EnumerateGridCells`.  Squares are relative
to the centre, which shifts every coordinate of the code by `side`.
Coordinates of points count half steps: centres, borders and both edges of the
bounding box are among them; the rounding of the floating-point division is not
modelled.

### 2.4 RadiiTable and DataGrids

The main thread resets the table, posts a job per grid and joins the pool.  A
job is `calculated` once `FillDataGrid` and `CalculateRadii` have run; `StartAlter`
and `CommitAlter` are `ChangeColumnTypes_`, `StartCopy` and `CommitCopy` the
transaction that copies the rows, `CopyOutOfRange` and `Refused` the SQL errors
`_ProcessGrid` logs, `Disconnect` the `broken_connection` nobody catches.
Table locks are PostgreSQL's: altering excludes everything, copying excludes
altering.

Undefined behaviour is a choice.  `max_value` (radii_writer.h:44) is read
uninitialised, so any job may widen the columns.  In `FillDataGrid`, an empty
grid makes the loop read behind an empty vector, which ends the process, and
`erase(end, end + 1)` removes one object too many, or the last group and one
more if the memory behind the vector looks equal.  `(int)` of the average of no
objects is the x86 result, below every smallint.

Objects are kept as sets until the table is written, where they are summed or
averaged; sums stay far below 2^31 and `SmallMax` stands for 2^15 - 1.  Points are
equal or farther apart than the tolerance.

### 2.5 RadiiPromise

Three variables: the phase of the calculation, the grids `written` with their
rows, the grids `missing` that have an error in the log.  `RadiiTable` maps `main`
to the phase, the rows of the table and `lost` to the other two.  Threads, queue,
locks and column widths are below the promise: their steps stutter.

### 2.6 RadiiDatabase, Drivers, Freshness

A table is known by how often it was created (`born`) and, for each grid, by the
date of the objects its rows come from; `Content` says what rows a date stands for.
How the rows come about is `RadiiTable`; here a grid is committed in one step, or
lost with a log entry.  `readers` are the transactions that have read from a table:
`Reset` (DROP, CREATE and COMMIT) waits for them, as PostgreSQL does, inserting
does not, unless the job alters the columns first (`CanWrite`).  Which jobs do is the
constant `Widening`, any set of them, since the maximum that decides it is read
uninitialised.  `Conflict` is the UNIQUE constraint: two drivers may create a table in
turn and then fill it both.  A `Fault` refuses the statement of the action that uses
it, or loses a connection; a refused statement is an `sql_error`, which the
code catches, a lost connection is not and ends the process.

`Drivers`: `proc` has the control state of a program, the tables it has `todo`, the
grids `left` in the pool, its `errors` and exit code.  `Command` is what the
validators let through and what is asked for.  `LoadGridMetadata` returns no grids
after an error, so that a program may go through all its tables without a grid; the
error is in the log.  `calculate_brands` refuses `--rubrics_file` beside a list whether or
not the file has lines, so `Command` says that the flag was given (`given`).

`Freshness`: an error before the driver is called or in it is logged and the sums are made
all the same (`Date`, `Answer`).  `Check`, `Date`, `Call`, `Answer`, `DropSums` and `Sum`
are the parts of `check_recency` between its transactions; the driver is one of `Drivers`
and goes on if the Python program is stopped (`Stop`).

### 2.7 DataMart and Pipeline

`server` is the process with the regions it loaded at its start, `call` a request:
the located points, a job per table, whether it `holds` the output table.  `Open`,
`Fetch` (one query per grid) and `Close` are `ProcessRubric`, which reads in one
transaction; `Gather` joins the pool; `Drop`, `Create` and `Commit_` are the output
table.  Where the code lets an exception out of a thread or uses an index that is
out of range, the process ends (`Die`) with everything that is open: `FetchOutOfRange`,
`InsertOverrun`, `OutputOfNothing`, `LoseServerConnection` (a connection that is lost, or
cannot be opened for a queued job).  An exception in the
handler is answered with an error or ends the process, depending on the release of
gRPC (`Throw`).

Points are named; `Place` says which grids contain them.  `uniform` says whether the cells
of the request's own columns have one type each: if not, the output table cannot be created
(the first cell of a column has none) or a row not inserted (`OutputRefused`).  `seen` is
history: what the table was when the request arrived, which tables the job has read.

### 2.8 Traffic, SquarePrograms, Hexes

One step of `Traffic` is one turn of the loop in `MarkPath`, or the choice of the
next path, the first square with objects in the order of the loops that has not been
looked at.  Distances are compared squared and exactly.  Rounding matters only where a
square is exactly on the rim of a path that is not parallel to a side, there the
outcome is a choice (`Inexact`); so is the closest of several stops that are equally far.
`SquarePrograms` has one variable `stage` for the three programs, and one grid for
each behaviour: grids are treated one after the other and share nothing.  Where the
database refuses to say what grids there are, `LoadGridMetadata` returns none and a
program ends as if it had written them (`gridless`).

A path of no length, from objects in the square of their stop, marks the whole grid
(`Compared` is 0 / 0).  `TrafficIsBands` says so of these paths (`MustMark`, `MayMark`) and
asks the band of all others beside them; `PathsAreBold` asks it of every path, as the
flag's text does, and is violated.

A step of `Hexes` is one turn of the loop in `bfs`.  Coordinates are a + b * phi, so
that the comparison with 1e-5 is equality.  The `dist` of line 77 of the source is
never near 0, so the corners of a pentagon stay in the order of their numbers and some
of its triangles overlap; triangles of neighbouring pentagons then often share no
edge, and `adj_faces[v1][v2] ^ f_id` is some other number.  `Across` computes it, and
where `std::find` does not find the corner the model stops (`WriteOutside`).

## 3. Runs

Instances of `Geocoder` have two threads: two are enough for every pair of
concurrent admissions, and the monitor is a third process.  Request A has two
addresses and an output table, B shares an address with it, `BulkInsertLimit = 1`
makes inserts of several chunks.  `MaxSubmits` bounds the calls: two for a race,
three to resubmit what was completed while another request is in work.
`MaxJoins = 2` tells the first, the second and any further join of a csv apart.
`MaxCrashes`, `MaxShutdowns` and `MaxFaults` allow one event of a kind at any step.

| Run | Shows |
|---|---|
| `geocoder` | Without failures: registrations are exclusive, results complete, output tables backed by results, and "already being processed" is true |
| `geocoder_storm` | Colliding tags, an unreadable csv, failing and short inserts, a crash anywhere, deleting pulls: no circle of waiting over the two locks, dumped requests tracked, no entry without a registration but of finished requests, promises kept except in the swap of two files; a result goes only by being pulled, or by a crash while the same result is written again |
| `geocoder_client` | Two callers over a crash, a shutdown and restarts: polling is founded, nobody gets another's or an incomplete result |
| `geocoder_live` | Without failures every admission ends, every request is finished and every call returns |
| `collision_covers` | *Violated*: rows of a shared tag interleaved with others' give a result that lacks addresses (`groupby` without sorting) |
| `shutdown_restart` | *Violated*: a request finished before it was dumped leaves a file that no restart accepts |
| `client_twice` | *Violated*: the same csv submitted after completion ends with two results for one tag and the client's assertion fails |
| `grid_numbering` | The programs of `BatchPrograms`.  Sides 1 to 7: walk and formula agree, every point is found in its square, the binary layout is a bijection that keeps neighbours.  What readers find by the formula in the table of traffic is, for each square, the objects of the paths it is near and of all paths of no length; the rows of squares share corners and centres as squares do.  Circles of hexagons hold what is no farther away, across the edges of triangles.  The programs about squares end |
| `radii_table` | Two threads, two overlapping grids of sides 2 and 1, all choices of up to two objects, both actions, with and without exclusion, refused jobs and lost connections: rings are distances, grids are accounted for, sums fit, committed rows stay, the calculation ends; all of it implements `RadiiPromise` |
| `most_common` | *Violated*: of a, b, b the objects at b are still counted although b is the most common point |
| `pipeline` | Fifteen scenes of up to four actors, with new objects, one refused statement, lost connection or stop at any step, and restarts of the server: nothing a driver was asked for is lost without a log entry, what the log calls done is done, columns come from one table and are right when nobody has written to it, answered output tables are there; nobody waits for somebody who waits, nobody goes back, and whatever has begun ends |
| `traffic_flood` | *Violated*: objects in the square of their stop mark every square of the grid (`k` is 0 / 0) |

TLC finds these numbers of distinct states: `geocoder` 209012, `geocoder_storm` 2449453,
`geocoder_client` 251184, `geocoder_live` 18853, `grid_numbering` 43656, `pipeline`
193317.

Side 7 has rings whose sides are longer than the corners' special cases, and the
theorem covers the rest.  A grid of side 2 with `max_R = 2` has objects in every
radius, on the border of the box of shifts and beyond it; two objects are enough
to share a square, a point or a radius, and values 1 and 4 with `SmallMax = 3` are
on both sides of the limit of a column.

*Bounds of `pipeline`.*  Two grids that share a point (the first wins), two dates, three
tables of which one is old.  `Together` lists who meets: a check with an operator's
driver and new objects; a check with readers; two requests for one output table with
the drivers of their tables; two drivers that make the same tables; and each way a
command line or a request can be wrong.  Actors of different scenes meet at the same
kinds of locks (table, output table, UNIQUE), so that two or three of them show each
conflict.  `Widening` holds one job of each program that writes beside readers, so that altering jobs
and others meet the same readers.  `MaxFaults = 1`: one refusal, loss or stop anywhere; `MaxStarts = 2`: a
request that meets a server restarted after a crash.  Points: in one grid, in both, in
none, and no number.

*Bounds of `grid_numbering`.*  Paths between any two squares of a grid of side 2, and from
nine squares of a grid of side 3, with `view_radius = 100` (a path one square wide to
either side); three paths that cross, one stop outside of the grid; no stops.  `TrafficIsBands`
promises nothing where a path is no bolder than half the diagonal of a square (`Bold`):
with `--view_radius` up to 70 the squares that close to a slanting line need not be
neighbours, and the search leaves out some of them; no validator keeps such a value away
(`calculate_traffic.cc:46`).  Hexagons: `N = 15` instead of 71499
and circles of 2 instead of 50, so that circles cross the edge between two triangles
and stay inside of a pentagon, where the code is right (`WellInside`); inputs at the
centre, at the outer edge and at a corner take the steps where it is not.  The end of
that search is not checked.

Deadlock is not checked in these runs because each of them may really stop: calls
are bounded, the walk returns, the calculation finishes or its process ends.  The
liveness runs say what must happen before.

*Other disagreements seen while modelling*, not kept as runs.  With colliding tags
`RegistrationEnds` fails: a group whose tag was deleted by an earlier part of it
stays registered.  With an unparsable csv `DuplicateMeansProcessing` fails: its
registration is never removed.  After a crash in the middle of a dump `CanRestart`
fails.  A csv submitted for two output tables has two results with one tag, too.
A completed request that is submitted again can come to the same result, if its old rows
come back in a group of their own; the file is then opened anew, and a crash before it is
written loses a result that nobody has pulled (the last disjunct of `ResultsAreStable`).
A short insert (`InsertChunkShort`) leaves a group that every turn of the monitor fails
at, with all groups behind it.
With the action `average` a grid is lost as soon as one ring of one of its squares
is empty, unless some job has widened the columns before: whether it is in the
table depends on the order of the jobs (`SumsFit` without its restriction to sums).

### 3.1 Fairness

Geocoder: threads of an admitted call run on, the monitor's loop polls again after
every sleep (`while` with no exit but shutdown, and exceptions are caught), and
the geocoder finishes every address.  Nobody has to submit, pull, stop or restart,
and nothing has to fail.  A client asks again after every sleep.  Radii table: the
main thread and each thread of the pool run; PostgreSQL grants a lock when it is
free; nothing has to fail.  Programs about squares: the program runs
(`WF_batch(SquaresStep)`).

Pipeline: `GoesOn` is one action, weakly fair as a whole: some program or thread that
can go on does.  That is less than each of them running and enough for `AllEnd`, since
every program and every call has finitely many steps left.  Nobody has to start, send a
request, assemble objects or fail, and a lock that is waited for is a guard: a cycle of
waiting would be a state from which `AllEnd` fails.  `Progress` states without fairness why
it holds: `NobodyWaitsInVain` and `NobodyGoesBack`.

## 4. Proofs

All theorems hold for every value of the constants that satisfies the named
assumptions of the modules, and are about the definitions the runs check.

### 4.1 The geocoding service

* `GeocoderProofs`.  `TypeCorrect`, `LocksAreDisciplined` and
  `AdmissionIsExclusive` (`[]TypeOK`, `[]LockDiscipline`, `[]OneAdmission`), for
  any threads, requests, tags and bounds, crashes, faults and collisions included.
  `LockDiscipline` is kept by its own steps with the types; that no circle of waiting
  closes (`NoCircle`) follows from who has which lock in which section: the monitor waits
  for `requests_lock_` with `engine_lock_` in its hands, but a thread that has
  `requests_lock_` waits for nothing.
  `OneAdmission` is not inductive: that the monitor does not remove the
  registration of a request a thread admits depends on where that request is.
  `AdmissionInv` adds that an admitting thread's request is still RECIEVED or
  REQUESTED, is admitted by no other thread and is not in the dump under its old
  id before the thread writes it (`TicketInv`); that the entry the monitor works on
  is registered with its csv joined, and once unlinked is neither dumped under its
  old id nor admitted by anyone (`EntryInv`); that a request dumped under its old
  id is registered while the process runs, and never completed (`DumpInv`); and
  that a process that is down has no working threads (`DownInv`).

* `GeocoderPromiseProofs`, what clients are promised.  `AcceptedIsNotLost`
  (`[]PromiseKept`), `NoZombies` (`[]DumpedIsTracked`), `ResultsStay` (`ResultsAreStable`)
  and `EntriesAreRegistered` (`[]ActiveRegistered`) have no hypothesis: crashes, restarts,
  failing inserts, deleting pulls and colliding tags are among the steps.  `PromiseInv`
  adds to `AdmissionInv`: entries are under the tag of their id (`TagInv`); each entry the
  monitor has passed has lost its registration (`PassedInv`), which is why
  `active_group_tags_` may forget the tag when the group ends; a thread that dumps has
  noted its request (`NotedInv`); a file has an old id, or is still empty, or holds the
  completed request it is named for (`FilesInv`); where the monitor finished a request
  before its thread dumped it, a result is there, in the making, or was pulled (`LeftInv`).
  `ResultsStay` counts the result that is being written anew among the results: between
  `open` and `write` its file is empty, and a crash there is the one step besides a pull
  that takes it.  `EntriesAreRegistered` is what is left where tags are shared and turns
  abort: the entries before the one that raised have lost their registrations and stay in
  the list, but their results were written first (`PassedInv`, `EntriesStep`).

* The other theorems of that module have hypotheses, each one the condition of the run
  that checks the property, because without it the property is false:

  | Theorem | Property | Hypothesis | Without it |
  |---|---|---|---|
  | `ExportsHaveResults` | `ExportHasResult` | no crash, no deleting pull | a crash between the export and the result file |
  | `DuplicatesAreProcessed` | `DuplicateMeansProcessing` | `NoFaults` | the registration of an unreadable csv is never removed |
  | `ResultsCoverAddresses` | `ResultCoversAddresses` | `Undisturbed` | run `collision_covers`; an insert that a fault or a crash cuts in two |
  | `PollingHasAReason` | `PollingIsFounded` | `NoFaults` | error 1 for a request that nobody processes |
  | `ResultsAreOnesOwn` | `OwnResult` | `Undisturbed`, `ClientTagsDiffer` | as above; two requests under one tag |

  `Undisturbed` is: tags are distinct, no insert fails, and either nothing crashes or every
  csv needs one bulk insert (`OneInsert`; the limit in the code is 100000 rows).  The rows
  of a tag may still come back in several runs, of which the last one joined counts: after
  a crash a request is inserted once more behind other requests' rows.  That each run is
  enough is `CoveringInv`: outside of an admission the table is made of whole admissions
  (`BlocksInv`; `engine_lock_` keeps the rows of one together), the monitor fetches and
  groups whole runs (`RunsInv`), so each join of a csv covers its addresses (`CoverInv`);
  `AtOnceInv` is what survives a crash in the middle of an admission.

* `geocode()`.  Every step of a client is a step of the service or leaves it alone
  (`ClientsUseTheService`), so that all of the above holds in front of its clients.
  `ClientTypeCorrect` is their type invariant.  `PollingHasAReason` needs to know that the
  service registers and dumps nothing but what was accepted or is being admitted
  (`KnownInv`), and that what a client waits for is one of these as long as nothing
  crashed (`AwaitedInv`); `PromiseInv` says of those that they are tracked or have a result.

### 4.2 Squares and radii

* `GridNumberingProofs`, for grids of every side.  `NumbersAgree`
  (`[]WalkMatchesFormula`), `AssertionHolds` (`[]AllMet`) and `TypeCorrect`.  The invariant
  counts: the number of squares met is 4 (r-1)^2 for the smaller rings plus the distance
  walked on this one, plus one where the current square has been met already, which is so
  only behind a corner that was turned.  From it follows that `SquareId` is a bijection
  between the squares of a grid and 0 .. 4 side^2 - 1 (`AllSquaresMet`): it is injective
  since ring and distance walked determine a square, and as many numbers were given as
  there are squares.  `PointsHaveSquares` (`[]PointsAreFound`) and `LayoutKeepsNeighbours`
  (`[]BinaryLayout`) rest on that, the latter on the arithmetic of `Renumbered` within one
  ring.  `SquaresAreDescribed` (`ProgramSpec => []SquareTableFits`) is about
  `SquarePrograms`: whatever program runs, fails or is refused, the rows that
  `write_squares` leaves describe the squares the formula numbers.  Its invariant adds to
  that of the walk that rows are written from a finished walk only, which nobody takes up
  again (`RowsInv`).

  `BandsAreFound` (`ProgramSpec => []TrafficIsBands`): for every grid, placement of objects
  and stops, and `--view_radius` above half a diagonal, what readers find of a square by
  the formula is the sum over the paths that pass it closer than that, each counted once,
  and over the paths of no length, which every square counts (`Floods`).
  It has three parts.  Plane geometry, over integers: from a square inside the band of a
  path one of its four neighbours is inside too and nearer to the start (`BandHasNoGaps`;
  north-east in `StepOnPath`, elsewhere by mirroring).  Beside the line there are two steps
  towards the start; they move the square to opposite sides of the line, together by
  |a| + |b|, so that one of them comes no farther away than half of that, which is less
  than the radius as (|a| + |b|)^2 is at most 2 (a^2 + b^2).  That is where `Bold` is
  needed.  Second, the search: every square that was
  marked has its neighbours looked at or in the queue (`SearchInv`), so that when the queue
  is empty the squares looked at are closed under steps and contain the band
  (`BandIsFound`, by the square of the band nearest to the start that is missing).  Third,
  sums: `MarkedInv` bounds the traffic of each square, from below by the paths told that
  pass it closer than the radius, from above by those that pass it at most that far away:
  on the rim rounding decides.

* `RadiiTableProofs`, for any threads, grids, objects and radii.  `EveryGridAccounted`
  (`[]GridsAccounted`) and `CommittedRowsStay` (`RowsStay`): `AccountInv` says where grids
  are.  The queue holds the last of the posted grids in order; each grid taken is in the
  hands of exactly one thread, in the table or among the lost; a finished main thread
  leaves no job and no queue.  `TypeCorrect`, `SumsAreInRange` (`[]SumsFit`) and
  `ColumnsAreDistances` (`[]RingsAreDistances`) are about what is in the table.
  `SumsAreInRange` says that, with the action `sum`, no grid is lost because a value is out
  of the range of its column.  `TableInv` adds that rows are always those that some choice
  of the counted objects makes (`ResultInv`), and that a job copies only what the columns
  have become wide enough for (`WidthInv`).  Sums are folds in the model.  That a fold is a
  sum, independent of the order of its elements, is proved in `SumTheorems` by taking a
  smallest set for which it fails (`SumsAgree`, `SumInAnyOrder`); then that rings are
  disjoint, and together are the disc around a square.  `TheTableKeepsItsPromise`
  (`PromiseIsKept`): `RadiiTable` implements `RadiiPromise`, given that there is a thread
  (`Workers # {}`).  With `--threads=0` the pool would be joined at once and the promise is
  broken: no grid has rows and none an error.  Each action is mapped to a step of the
  promise or a stutter; that a committed or lost grid was still pending, and that none is
  when the pool is joined, is `AccountInv` with the fact that the pool is joined only after
  all jobs were posted.

### 4.3 The pipeline

`PipelineInv` is the conjunction of one invariant per module, each kept by the steps of
the others: programs create no table anew while a job reads from it, and jobs only read.

* `FreshnessProofs`.  `DriversInv`: while a driver works, each table it was asked for is
  still due, or all of its grids are settled (`CoverInv`): the grid has the rows this
  driver read, or an error, or a table that was created after this driver's.  `Settled`
  is kept by other drivers since tables are created anew or gain rows, and never lose any
  (`TablesGrow`).  `FreshnessInv`: since the check has taken its date its driver has read
  no older objects (`DateInv`), and what is logged has succeeded (`LogInv`).
* `DataMartProofs`.  `DataMartInv`: the transactions that hold a table are those of the
  open jobs (`ReadersInv`), so that what an open job has read is one incarnation, the
  present one (`JobInv`); the cells of a grid are filled together (`FilledTogether`); an
  output table is held by one request at most, and is there once written (`OutputInv`).
* `PipelineProofs`.  `TypeCorrect` (`PipelineTypeOK`), `NothingIsLostSilently`
  (`NothingSilentlyLost`), `TheLogIsRight` (`DoneIsDone`), `ColumnsAreFromOneTable`
  (`ColumnsAreOneTable`) and `AnsweredOutputStays` (`OutputStays`), for every scene.
  `UndisturbedReadsAreRight` (`UndisturbedIsRight`) needs a second invariant, `CalmInv`.
  A table is filled, and then created anew under a new number, and so is never again what
  it was (`Later`): one that is at the end of a job as it was when the request arrived has
  been so at every query between.  So the cells read up to now are those of that table, as
  long as it is unchanged (`AsOf`).  The code adds up the rings with `std::partial_sum` in
  the order of the radii, the promise `Told` over a set of them: `SumsInOrder` and
  `InRingsIsSum` show both to be the same sum.
  `AllProgress` (`Progress`) is what the ends of programs and calls rest on, short of
  fairness.  *Nobody waits in vain*: DROP of a table of radii waits for open jobs, which
  wait for nothing; DROP and CREATE of an output table wait for its one holder, which is
  past its own waiting, since it drops and creates in one transaction; a pool whose jobs
  are not all done has an open one, or the least queued one can be opened.  *Nobody goes
  back*: every step and every fault lowers the rank of the program or call it changes
  (its phase, then the rubrics and tables it has left, then the grids; for a call its
  phase, or the phase and grids of one of its jobs), and nothing is tried again.

What the theorems assume of the constants is what the code takes for granted: the tables of
rubrics and names are tables of the database (`DriversAssumption`); `--lbound`, which no
validator looks at, is not negative (`CommandAssumption`); a request names tables that the
database knows of and radii that are natural numbers, and points are in grids of the
database (`DataMartAssumption`).

### 4.4 Only model-checked

* Liveness (`AllEnd`, `ProgramsEnd`, `CalculationEnds` and those of the geocoder): the proof
  system does not treat fairness, nor the induction over ranks that leads from `Progress`
  and fairness to `AllEnd`.
* `InRadius`: `Hexes` has a recursive operator and `^^`, which the proof system does not
  take.

## 5. Not modelled, and what may follow

*Left out of modelled parts.*  The creation of new rubrics and the data frames of
`radii_calculations.py`; `PullProcessedData` without deletion and the http page of the
geocoding service; which columns of its json the client unpacks.  Two drivers that both
find a table missing and race to create it for the first time: PostgreSQL's answer to that
depends on its release.  The texts of queries and connection strings.  Rounding, but for
the choices named above.  What a program does after undefined behaviour, but for the cases
in 2.4. `CreateSquareTable` of `write_squares.cc`, whose call is commented out.

*A point without a verdict.*  The answer of the data mart manager sums the rings that a
request names, in the order it names them: for the radii 0 and 500 it is ring 0 plus
ring 500, not the six rings up to 500.  `primary/test_radii.py:38-42` means the sum of
the rings when it says "r500", but asks the table, not the manager.  `Told` in `DataMart`
states what the code does.

*Left out altogether.*  Competitive analysis, the PZT data mart, geo score, locality size
and layers are sequential programs over data frames, without state of their own; the
matching of the PZT data mart compares names.  The codec and the command lines convert
and hold no state.

*Next.*
1. *Theorems.*  That a grid of `Drivers` is the `RadiiPromise` of its table; progress, as
   in `Pipeline`, of the geocoder's turns.
2. *Abstraction.*  `RequestPromise`: a request is asked, promised, answered or forfeited;
   `Geocoder` shown to implement it under distinct tags.
3. *Matching.*  The lowest rank kept per point of sale (`pzt_generator.pyx`); the choice of
   a grid in `competitive_analysis.pyx`.
