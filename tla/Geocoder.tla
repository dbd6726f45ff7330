------------------------------- MODULE Geocoder -------------------------------
(***************************************************************************)
(* The geocoding service of processing/geocoder.py.                        *)
(*                                                                         *)
(* gRPC threads (Handlers) admit requests: they register the request in    *)
(* requests_, push its distinct addresses into the external table geo,     *)
(* note the request under its group tag in active_group_tags_ and dump it  *)
(* into dump_dir.  An external geocoder marks rows of geo as done.  The    *)
(* monitor thread finds groups whose rows are all done, joins them into    *)
(* the csv of each request of the group and swaps the dumped request for a *)
(* COMPLETED one.  A restart picks up the dumped requests.                 *)
(*                                                                         *)
(* Data abstraction.  A submitted request is an element of Requests; its   *)
(* csv is known by the original and by the left joins made into it, so a   *)
(* data item is [req, joins].  get_request_id_ hashes salt and data: with  *)
(* the salt fixed and SHA-256 free of collisions the id is the data item.  *)
(* request_geocoding_ computes id and tag again; they are those of the     *)
(* original unless a stale entry under a shared tag has joined it already, *)
(* which is left out.                                                      *)
(***************************************************************************)
EXTENDS Integers, Sequences, FiniteSets

CONSTANTS
  Handlers,         \* gRPC serving threads
  Requests,         \* distinct requests clients may submit
  Addresses,        \* addresses the csv files mention
  Tags,             \* residues of request ids modulo 1000000007
  Uniques,          \* request -> its distinct non-empty addresses, in order
  GroupTag,         \* request -> id modulo 1000000007 (collisions allowed)
  ClientTag,        \* request -> the tag its client chose, for pulling
  Unparsable,       \* requests whose csv or address column cannot be read
  WithTable,        \* requests that name an output_table
  BulkInsertLimit,  \* --bulk_insert_limit
  PullMayDelete,    \* whether a caller sets delete_pulled_data
  MaxSubmits,       \* bound: calls of GeocodeCSV
  MaxCrashes,       \* bound: crashes
  MaxShutdowns,     \* bound: orderly shutdowns
  MaxFaults,        \* bound: failing inserts
  MaxJoins          \* bound: joins told apart in one csv (further ones saturate)

ASSUME GeocoderAssumption ==
  /\ Handlers # {} /\ Handlers \cap {"free", "monitor"} = {}
  /\ Requests # {} /\ IsFiniteSet(Requests)
  /\ Uniques \in [Requests -> Seq(Addresses)]
  /\ GroupTag \in [Requests -> Tags]
  /\ BulkInsertLimit \in Nat \ {0}
  /\ PullMayDelete \in BOOLEAN
  /\ {MaxSubmits, MaxCrashes, MaxShutdowns, MaxFaults} \subseteq Nat
  /\ MaxJoins \in Nat \ {0}

VARIABLES
  \* volatile
  requests,      \* requests_: the StoredRequest registered for a request id
  active,        \* active_group_tags_: group tag -> request ids (<<>>: no key)
  handler,       \* what each gRPC thread is doing, and its last answer
  monitor,       \* what the monitor thread is doing
  engineLock,    \* engine_lock_
  requestsLock,  \* requests_lock_
  \* durable
  dump,          \* dump_dir: file name -> StoredRequest
  geo,           \* the table geo, in insertion order
  exported,      \* request -> joins its output_table was written with
  service,       \* whether the process runs: "up", "stopping", "down"
  \* bounds and history
  submits, crashes, shutdowns, faults,
  accepted,      \* requests answered with error 0 that no crash forfeited
  pulled         \* requests whose result was pulled and deleted

volatile == <<requests, active, handler, monitor, engineLock, requestsLock>>
durable  == <<dump, geo, exported>>
bounds   == <<submits, crashes, shutdowns, faults>>
history  == <<bounds, accepted, pulled>>
vars     == <<volatile, durable, service, history>>

-------------------------------------------------------------------------------
Mappings == [Addresses -> Nat]    \* rows that match an address of the csv
Data     == [req : Requests, joins : Seq(Mappings)]
Original(r) == [req |-> r, joins |-> <<>>]

\* RequestStatus of geocoder.proto; UNKNOWN stands for "no such entry", too.
Statuses == {"UNKNOWN", "RECIEVED", "REQUESTED", "COMPLETED"}
Objects  == [status : Statuses, joins : Seq(Mappings)]
Absent   == [status |-> "UNKNOWN", joins |-> <<>>]
Registered(r) == requests[r].status # "UNKNOWN"

\* A file opened for writing and not yet closed is empty; it parses as UNKNOWN.
Files    == [status : Statuses, data : Data]
Empty(n) == [status |-> "UNKNOWN", data |-> n]
Without(f, names)  == [n \in DOMAIN f \ names |-> f[n]]
Put(f, name, file) == [n \in DOMAIN f \cup {name} |->
                         IF n = name THEN file ELSE f[n]]
Completed == {n \in DOMAIN dump : dump[n].status = "COMPLETED"}

Rows      == [tag : Tags, address : Addresses, done : BOOLEAN]
Members(s) == {s[i] : i \in DOMAIN s}

HandlerStates ==
  [pc : {"idle", "checking", "registered", "insert", "open", "write"}, req : Requests,
   pos : Nat, short : BOOLEAN, linked : BOOLEAN,
   reply : {"none", "accepted", "duplicate", "failed"}]
HandlerAt(pc, r, reply) ==
  [pc |-> pc, req |-> r, pos |-> 0, short |-> FALSE, linked |-> FALSE,
   reply |-> reply]
Idle(r, reply) == HandlerAt("idle", r, reply)

MonitorStates ==
  [pc : {"idle", "locking", "merge", "unlink", "open", "write"}, tag : Tags,
   group : SUBSET Nat, data : SUBSET Nat, pos : Nat \ {0}]
MonitorIdle == [pc |-> "idle", tag |-> GroupTag[CHOOSE r \in Requests : TRUE],
                group |-> {}, data |-> {}, pos |-> 1]

VolatileInit ==
  /\ requests = [r \in Requests |-> Absent]
  /\ active = [t \in Tags |-> <<>>]
  /\ handler = [h \in Handlers |-> Idle(CHOOSE r \in Requests : TRUE, "none")]
  /\ monitor = MonitorIdle
  /\ engineLock = "free"
  /\ requestsLock = "free"

Init ==
  /\ VolatileInit
  /\ dump = [n \in {} |-> Empty(n)]
  /\ geo = <<>>
  /\ exported = [r \in Requests |-> <<>>]
  /\ service = "up"
  /\ submits = 0 /\ crashes = 0 /\ shutdowns = 0 /\ faults = 0
  /\ accepted = {} /\ pulled = {}

Running == service # "down"

-------------------------------------------------------------------------------
(* GeocodeCSV: admitting a request.                                        *)

\* A call arrives and takes requests_lock_.
Submit(h, r) ==
  /\ Running /\ handler[h].pc = "idle" /\ submits < MaxSubmits
  /\ requestsLock = "free"
  /\ submits' = submits + 1
  /\ requestsLock' = h
  /\ handler' = [handler EXCEPT ![h] = HandlerAt("checking", r, "none")]
  /\ UNCHANGED <<requests, active, monitor, engineLock, durable, service,
                 crashes, shutdowns, faults, accepted, pulled>>

Received == [status |-> "RECIEVED", joins |-> <<>>]

\* Mutants: the check for a registered request is dropped; the lock is kept for the
\* rest of add_request_.
RegisterUnchecked(h) ==
  LET r == handler[h].req IN
  /\ Running /\ handler[h].pc = "checking"
  /\ requestsLock' = "free"
  /\ requests' = [requests EXCEPT ![r] = Received]
  /\ handler' = [handler EXCEPT ![h] = HandlerAt("registered", r, "none")]
  /\ UNCHANGED <<active, monitor, engineLock, durable, service, history>>
RegisterKeepingLock(h) ==
  LET r == handler[h].req IN
  /\ Running /\ handler[h].pc = "checking" /\ ~Registered(r)
  /\ requests' = [requests EXCEPT ![r] = Received]
  /\ handler' = [handler EXCEPT ![h] = HandlerAt("registered", r, "none")]
  /\ UNCHANGED <<active, monitor, engineLock, requestsLock, durable, service, history>>

\* The locked section of add_request_.  An id already in requests_ is answered with
\* error 1, any other is registered.
Register(h) ==
  LET r == handler[h].req IN
  /\ Running /\ handler[h].pc = "checking"
  /\ requestsLock' = "free"
  /\ \/ /\ Registered(r)
        /\ handler' = [handler EXCEPT ![h] = Idle(r, "duplicate")]
        /\ UNCHANGED requests
     \/ /\ ~Registered(r)
        /\ requests' = [requests EXCEPT ![r] = Received]
        /\ handler' = [handler EXCEPT ![h] = HandlerAt("registered", r, "none")]
  /\ UNCHANGED <<active, monitor, engineLock, durable, service, history>>

\* The csv cannot be parsed or lacks the address column: error 2.  The entry
\* of requests_ stays.
RejectCSV(h) ==
  /\ Running /\ handler[h].pc = "registered"
  /\ handler[h].req \in Unparsable
  /\ handler' = [handler EXCEPT ![h] = Idle(@.req, "failed")]
  /\ UNCHANGED <<requests, active, monitor, engineLock, requestsLock, durable,
                 service, history>>

LockEngine(h) ==
  /\ Running /\ handler[h].pc = "registered"
  /\ handler[h].req \notin Unparsable
  /\ engineLock = "free"
  /\ engineLock' = h
  /\ handler' = [handler EXCEPT ![h].pc = "insert"]
  /\ UNCHANGED <<requests, active, monitor, requestsLock, durable, service,
                 history>>

AddressesOf(h) == Uniques[handler[h].req]
ChunkEnd(h) == IF handler[h].pos + BulkInsertLimit < Len(AddressesOf(h))
                 THEN handler[h].pos + BulkInsertLimit
                 ELSE Len(AddressesOf(h))
Chunk(h) == SubSeq(AddressesOf(h), handler[h].pos + 1, ChunkEnd(h))
Inserting(h) == Running /\ handler[h].pc = "insert"
MoreChunks(h) == handler[h].pos < Len(AddressesOf(h))

\* New rows are not done.
RowsFor(t, addresses) ==
  [i \in 1..Len(addresses) |->
     [tag |-> t, address |-> addresses[i], done |-> FALSE]]

\* One bulk insert of at most bulk_insert_limit rows, all of them inserted.
InsertChunk(h) ==
  /\ Inserting(h) /\ MoreChunks(h)
  /\ geo' = geo \o RowsFor(GroupTag[handler[h].req], Chunk(h))
  /\ handler' = [handler EXCEPT ![h].pos = ChunkEnd(h)]
  /\ UNCHANGED <<requests, active, monitor, engineLock, requestsLock, dump,
                 exported, service, history>>

\* The backend reports fewer rows than it was given: the last ones are missing.
InsertChunkShort(h) ==
  /\ Inserting(h) /\ MoreChunks(h) /\ faults < MaxFaults
  /\ faults' = faults + 1
  /\ \E n \in 0..(Len(Chunk(h)) - 1) :
       geo' = geo \o RowsFor(GroupTag[handler[h].req], SubSeq(Chunk(h), 1, n))
  /\ handler' = [handler EXCEPT ![h].pos = ChunkEnd(h), ![h].short = TRUE]
  /\ UNCHANGED <<requests, active, monitor, engineLock, requestsLock, dump,
                 exported, service, submits, crashes, shutdowns, accepted, pulled>>

\* The insert raises: error 2; earlier chunks and the registration stay.
InsertChunkError(h) ==
  /\ Inserting(h) /\ MoreChunks(h) /\ faults < MaxFaults
  /\ faults' = faults + 1
  /\ engineLock' = "free"
  /\ handler' = [handler EXCEPT ![h] = Idle(@.req, "failed")]
  /\ UNCHANGED <<requests, active, monitor, requestsLock, durable, service,
                 submits, crashes, shutdowns, accepted, pulled>>

\* Mutant: a failing admission removes its registration but not its entry.
ActivateUnregisters(h) ==
  LET r == handler[h].req IN
  /\ Inserting(h) /\ ~MoreChunks(h)
  /\ active' = [active EXCEPT ![GroupTag[r]] = Append(@, r)]
  /\ engineLock' = "free"
  /\ requests' = IF handler[h].short THEN [requests EXCEPT ![r] = Absent] ELSE requests
  /\ handler' = [handler EXCEPT ![h] =
                   IF @.short THEN Idle(r, "failed")
                              ELSE HandlerAt("open", r, "none")]
  /\ UNCHANGED <<monitor, requestsLock, durable, service, history>>

\* Mutant: the request is not noted in active_group_tags_.
ActivateForgets(h) ==
  LET r == handler[h].req IN
  /\ Inserting(h) /\ ~MoreChunks(h)
  /\ engineLock' = "free"
  /\ handler' = [handler EXCEPT ![h] =
                   IF @.short THEN Idle(r, "failed")
                              ELSE HandlerAt("open", r, "none")]
  /\ UNCHANGED <<requests, active, monitor, requestsLock, durable, service, history>>

\* The request is noted under its tag before the number of inserted rows is
\* compared; a short count then raises, which is error 2.
Activate(h) ==
  LET r == handler[h].req IN
  /\ Inserting(h) /\ ~MoreChunks(h)
  /\ active' = [active EXCEPT ![GroupTag[r]] = Append(@, r)]
  /\ engineLock' = "free"
  /\ handler' = [handler EXCEPT ![h] =
                   IF @.short THEN Idle(r, "failed")
                              ELSE HandlerAt("open", r, "none")]
  /\ UNCHANGED <<requests, monitor, requestsLock, durable, service, history>>

\* status = REQUESTED, then dump_request_ opens the file, which empties it.
\* No lock is held.
OpenDump(h) ==
  LET r == handler[h].req IN
  /\ Running /\ handler[h].pc = "open"
  /\ requests' = [requests EXCEPT ![r].status = "REQUESTED"]
  /\ dump' = Put(dump, Original(r), Empty(Original(r)))
  /\ handler' = [handler EXCEPT ![h].pc = "write", ![h].linked = TRUE]
  /\ UNCHANGED <<active, monitor, engineLock, requestsLock, geo, exported,
                 service, history>>

\* Mutant: the file is opened again by its name when it is written.
WriteDumpByName(h) ==
  LET r == handler[h].req IN
  /\ Running /\ handler[h].pc = "write"
  /\ dump' = Put(dump, Original(r),
                 [status |-> requests[r].status,
                  data |-> [req |-> r, joins |-> requests[r].joins]])
  /\ handler' = [handler EXCEPT ![h] = Idle(r, "accepted")]
  /\ accepted' = accepted \cup {r}
  /\ UNCHANGED <<requests, active, monitor, engineLock, requestsLock, geo,
                 exported, service, bounds, pulled>>

\* The request as it is now is written under its old id; if the monitor has
\* unlinked the open file in between, the bytes go with the unlinked file.
WriteDump(h) ==
  LET r == handler[h].req IN
  /\ Running /\ handler[h].pc = "write"
  /\ dump' = IF handler[h].linked
               THEN Put(dump, Original(r),
                        [status |-> requests[r].status,
                         data |-> [req |-> r, joins |-> requests[r].joins]])
               ELSE dump
  /\ handler' = [handler EXCEPT ![h] = Idle(r, "accepted")]
  /\ accepted' = accepted \cup {r}
  /\ UNCHANGED <<requests, active, monitor, engineLock, requestsLock, geo,
                 exported, service, bounds, pulled>>

HandlerStep(h) ==
  \/ Register(h) \/ RejectCSV(h) \/ LockEngine(h) \/ InsertChunk(h) \/ InsertChunkShort(h)
  \/ InsertChunkError(h) \/ Activate(h) \/ OpenDump(h) \/ WriteDump(h)

-------------------------------------------------------------------------------
(* monitor_ and finalize_geocoding_.                                       *)

RowsOf(t) == {i \in DOMAIN geo : geo[i].tag = t}
\* Mutant: a tag is taken for finished when one of its rows is.
DoneTagsByOne == {t \in Tags : /\ active[t] # <<>>
                               /\ \E i \in RowsOf(t) : geo[i].done}
DoneTags == {t \in Tags : /\ active[t] # <<>>
                          /\ RowsOf(t) # {}
                          /\ \A i \in RowsOf(t) : geo[i].done}
\* The second query.  It has no ORDER BY, its rows come in insertion order; the
\* monitor's data are the positions in geo of the rows it has still to group.
Fetched == UNION {RowsOf(t) : t \in DoneTags}

\* Mutant: the group's requests are counted from zero.
StartGroupAtZero(data) ==
  \E first \in data :
    LET group == {i \in data : \A j \in data :
                                 j <= i => geo[j].tag = geo[first].tag} IN
    /\ \A j \in data : first <= j
    /\ monitor' = [pc |-> "merge", tag |-> geo[first].tag, group |-> group,
                   data |-> data \ group, pos |-> 0]

\* itertools.groupby: rows form a group as long as the tag stays the same.
StartGroup(data) ==
  \E first \in data :
    LET group == {i \in data : \A j \in data :
                                 j <= i => geo[j].tag = geo[first].tag} IN
    /\ \A j \in data : first <= j
    /\ monitor' = [pc |-> "merge", tag |-> geo[first].tag, group |-> group,
                   data |-> data \ group, pos |-> 1]

Unlock == engineLock' = "free" /\ requestsLock' = "free"

\* A turn of the loop of monitor_ that finds finished groups: under engine_lock_, so
\* that no rows are added between its two queries.  A turn that finds none gives the
\* lock back without having changed anything.
Poll ==
  /\ service = "up" /\ monitor.pc = "idle" /\ engineLock = "free"
  /\ Fetched # {}
  /\ engineLock' = "monitor"
  /\ monitor' = [MonitorIdle EXCEPT !.pc = "locking", !.data = Fetched]
  /\ UNCHANGED <<requests, active, handler, requestsLock, durable, service, history>>

\* finalize_geocoding_ waits for requests_lock_ with engine_lock_ in its hands.
LockRequests ==
  /\ Running /\ monitor.pc = "locking" /\ requestsLock = "free"
  /\ requestsLock' = "monitor"
  /\ StartGroup(monitor.data)
  /\ UNCHANGED <<requests, active, handler, engineLock, durable, service, history>>

Current == active[monitor.tag][monitor.pos]
MoreInGroup == monitor.pos <= Len(active[monitor.tag])

\* Mutant: an exception leaves engine_lock_ taken.
AbortTurnKeepingEngine ==
  monitor' = MonitorIdle /\ requestsLock' = "free" /\ UNCHANGED engineLock

\* An exception leaves both locked sections; the next turn tries again.
AbortTurn == monitor' = MonitorIdle /\ Unlock

\* A left join repeats a row of the csv once per row of the group with its
\* address and json; drop_duplicates returns a copy that nobody keeps.
Matches(r) ==
  [a \in Addresses |->
     IF a \in Members(Uniques[r])
       THEN Cardinality({i \in monitor.group : geo[i].address = a /\ geo[i].done})
       ELSE 0]
Joined(joins, m) == IF Len(joins) < MaxJoins THEN Append(joins, m) ELSE joins

MergeMissing ==    \* requests_[req_id] raises KeyError
  /\ Running /\ monitor.pc = "merge" /\ MoreInGroup
  /\ ~Registered(Current)
  /\ AbortTurn
  /\ UNCHANGED <<requests, active, handler, durable, service, history>>

Merge ==
  /\ Running /\ monitor.pc = "merge" /\ MoreInGroup
  /\ Registered(Current)
  /\ requests' = [requests EXCEPT ![Current].joins = Joined(@, Matches(Current))]
  /\ monitor' = [monitor EXCEPT !.pc = "unlink"]
  /\ UNCHANGED <<active, handler, engineLock, requestsLock, durable, service,
                 history>>

\* Mutant: the output table is created before the dumped request is unlinked.
UnlinkMissingExports ==
  LET r == Current IN
  /\ Running /\ monitor.pc = "unlink"
  /\ Original(r) \notin DOMAIN dump
  /\ exported' = IF r \in WithTable /\ exported[r] = <<>>
                   THEN [exported EXCEPT ![r] = requests[r].joins]
                   ELSE exported
  /\ AbortTurn
  /\ UNCHANGED <<requests, active, handler, dump, geo, service, history>>

UnlinkMissing ==   \* os.unlink raises FileNotFoundError; the csv stays joined
  /\ Running /\ monitor.pc = "unlink"
  /\ Original(Current) \notin DOMAIN dump
  /\ AbortTurn
  /\ UNCHANGED <<requests, active, handler, durable, service, history>>

\* Mutant: every file of the request is unlinked, its earlier results as well.
UnlinkEveryFile ==
  LET r == Current IN
  /\ Running /\ monitor.pc = "unlink"
  /\ Original(r) \in DOMAIN dump
  /\ dump' = Without(dump, {n \in DOMAIN dump : n.req = r})
  /\ handler' = [h \in Handlers |->
                   IF handler[h].pc = "write" /\ handler[h].req = r
                     THEN [handler[h] EXCEPT !.linked = FALSE]
                     ELSE handler[h]]
  /\ requests' = [requests EXCEPT ![r].status = "COMPLETED"]
  /\ exported' = IF r \in WithTable /\ exported[r] = <<>>
                   THEN [exported EXCEPT ![r] = requests[r].joins]
                   ELSE exported
  /\ monitor' = [monitor EXCEPT !.pc = "open"]
  /\ UNCHANGED <<active, engineLock, requestsLock, geo, service, history>>

\* The dumped request is unlinked, the status set and the output table, if one
\* is named and does not exist yet, created.
Unlink ==
  LET r == Current IN
  /\ Running /\ monitor.pc = "unlink"
  /\ Original(r) \in DOMAIN dump
  /\ dump' = Without(dump, {Original(r)})
  /\ handler' = [h \in Handlers |->
                   IF handler[h].pc = "write" /\ handler[h].req = r
                     THEN [handler[h] EXCEPT !.linked = FALSE]
                     ELSE handler[h]]
  /\ requests' = [requests EXCEPT ![r].status = "COMPLETED"]
  /\ exported' = IF r \in WithTable /\ exported[r] = <<>>
                   THEN [exported EXCEPT ![r] = requests[r].joins]
                   ELSE exported
  /\ monitor' = [monitor EXCEPT !.pc = "open"]
  /\ UNCHANGED <<active, engineLock, requestsLock, geo, service, history>>

Result(r) == [req |-> r, joins |-> requests[r].joins]

OpenResult ==
  /\ Running /\ monitor.pc = "open"
  /\ dump' = Put(dump, Result(Current), Empty(Result(Current)))
  /\ monitor' = [monitor EXCEPT !.pc = "write"]
  /\ UNCHANGED <<requests, active, handler, engineLock, requestsLock, geo,
                 exported, service, history>>

\* Mutants: the completed request is not written, or stays registered.
WriteResultUnwritten ==
  /\ Running /\ monitor.pc = "write"
  /\ requests' = [requests EXCEPT ![Current] = Absent]
  /\ monitor' = [monitor EXCEPT !.pc = "merge", !.pos = @ + 1]
  /\ UNCHANGED <<active, handler, engineLock, requestsLock, durable, service,
                 history>>
WriteResultRegistered ==
  LET r == Current IN
  /\ Running /\ monitor.pc = "write"
  /\ dump' = Put(dump, Result(r), [status |-> "COMPLETED", data |-> Result(r)])
  /\ monitor' = [monitor EXCEPT !.pc = "merge", !.pos = @ + 1]
  /\ UNCHANGED <<requests, active, handler, engineLock, requestsLock, geo,
                 exported, service, history>>

WriteResult ==
  LET r == Current IN
  /\ Running /\ monitor.pc = "write"
  /\ dump' = Put(dump, Result(r), [status |-> "COMPLETED", data |-> Result(r)])
  /\ requests' = [requests EXCEPT ![r] = Absent]
  /\ monitor' = [monitor EXCEPT !.pc = "merge", !.pos = @ + 1]
  /\ UNCHANGED <<active, handler, engineLock, requestsLock, geo, exported,
                 service, history>>

\* The tag is dropped; the next group follows, or the locks are released.
EndGroup ==
  /\ Running /\ monitor.pc = "merge" /\ ~MoreInGroup
  /\ active' = [active EXCEPT ![monitor.tag] = <<>>]
  /\ \/ /\ monitor.data = {}
        /\ monitor' = MonitorIdle
        /\ Unlock
     \/ /\ StartGroup(monitor.data)
        /\ UNCHANGED <<engineLock, requestsLock>>
  /\ UNCHANGED <<requests, handler, durable, service, history>>

MonitorStep ==
  \/ Poll \/ LockRequests \/ MergeMissing \/ Merge \/ UnlinkMissing \/ Unlink
  \/ OpenResult \/ WriteResult \/ EndGroup

-------------------------------------------------------------------------------
(* PullProcessedData, the external geocoder, stops and restarts.           *)

\* Mutant: the filter is ignored.
PulledUnfiltered(filter) == Completed

\* What PullProcessedData answers; the empty filter asks for everything.
Pulled(filter) == {n \in Completed : filter \in {"", ClientTag[n.req]}}

\* PullProcessedData with delete_pulled_data unlinks what it answers before the
\* answer is sent.  Without the flag the call changes nothing here.
PullDelete(filter) ==
  /\ PullMayDelete /\ Running /\ requestsLock = "free"
  /\ Pulled(filter) # {}
  /\ dump' = Without(dump, Pulled(filter))
  /\ pulled' = pulled \cup {n.req : n \in Pulled(filter)}
  /\ UNCHANGED <<volatile, geo, exported, service, submits, crashes, shutdowns, faults,
                 accepted>>

MarkDone(i) ==     \* the external geocoder finishes an address
  /\ i \in DOMAIN geo /\ ~geo[i].done
  /\ geo' = [geo EXCEPT ![i].done = TRUE]
  /\ UNCHANGED <<volatile, dump, exported, service, history>>

LoseMemory ==
  /\ service' = "down"
  /\ requests' = [r \in Requests |-> Absent]
  /\ active' = [t \in Tags |-> <<>>]
  /\ handler' = [h \in Handlers |-> Idle(handler[h].req, "none")]
  /\ monitor' = MonitorIdle
  /\ Unlock

\* The request whose old file is gone and whose new one is not complete.
BeingSwapped == IF monitor.pc \in {"open", "write"} THEN {Current} ELSE {}

\* The process ends anywhere.  What it has written to files survives, as it does where
\* the machine goes on: nothing is synchronised to the disk.
Crash ==
  /\ Running /\ crashes < MaxCrashes
  /\ crashes' = crashes + 1
  /\ accepted' = accepted \ BeingSwapped
  /\ LoseMemory
  /\ UNCHANGED <<durable, submits, shutdowns, faults, pulled>>

Shutdown ==        \* shutting_down_ is set; the monitor takes no further turn
  /\ service = "up" /\ shutdowns < MaxShutdowns
  /\ shutdowns' = shutdowns + 1
  /\ service' = "stopping"
  /\ UNCHANGED <<volatile, durable, submits, crashes, faults, accepted, pulled>>

Exit ==            \* the monitor has left its loop, the serving threads end
  /\ service = "stopping" /\ monitor.pc = "idle"
  /\ \A h \in Handlers : handler[h].pc = "idle"
  /\ LoseMemory
  /\ UNCHANGED <<durable, history>>

\* check_dropped_requests.  A file that is not COMPLETED and does not hash to
\* its own name raises, and the service does not come up.
Dropped == DOMAIN dump \ Completed
Restartable == \A n \in Dropped : dump[n] = [status |-> "REQUESTED", data |-> n]
DroppedUnder(t) == {n.req : n \in {m \in Dropped : GroupTag[m.req] = t}}
Orders(S) == {s \in [1..Cardinality(S) -> S] : Members(s) = S}

Restart ==
  /\ service = "down" /\ Restartable
  /\ service' = "up"
  /\ requests' = [r \in Requests |->
                    IF Original(r) \in Dropped
                      THEN [status |-> "REQUESTED", joins |-> <<>>]
                      ELSE Absent]
  /\ active' \in [Tags -> UNION {Orders(DroppedUnder(t)) : t \in Tags}]
  /\ \A t \in Tags : active'[t] \in Orders(DroppedUnder(t))
  /\ UNCHANGED <<handler, monitor, engineLock, requestsLock, durable, history>>

-------------------------------------------------------------------------------
Next ==
  \/ \E h \in Handlers : \/ \E r \in Requests : Submit(h, r)
                         \/ HandlerStep(h)
  \/ MonitorStep
  \/ \E filter \in {""} \cup {ClientTag[r] : r \in Requests} : PullDelete(filter)
  \/ \E i \in DOMAIN geo : MarkDone(i)
  \/ Crash \/ Shutdown \/ Exit \/ Restart

Spec == Init /\ [][Next]_vars

\* Threads run on, the monitor keeps polling and the geocoder keeps working;
\* nobody has to submit, pull or stop the service.
Fairness ==
  /\ \A h \in Handlers : WF_vars(HandlerStep(h))
  /\ WF_vars(MonitorStep)
  /\ WF_vars(\E i \in DOMAIN geo : MarkDone(i))
FairSpec == Spec /\ Fairness

-------------------------------------------------------------------------------
(* Properties.                                                             *)

\* The state has the shape the code's dictionaries, files and rows have.
TypeOK ==
  /\ requests \in [Requests -> Objects]
  /\ active \in [Tags -> Seq(Requests)]
  /\ handler \in [Handlers -> HandlerStates]
  /\ monitor \in MonitorStates
  /\ monitor.group \cup monitor.data \subseteq DOMAIN geo
  /\ engineLock \in Handlers \cup {"free", "monitor"}
  /\ requestsLock \in Handlers \cup {"free", "monitor"}
  /\ DOMAIN dump \subseteq Data /\ dump \in [DOMAIN dump -> Files]
  /\ geo \in Seq(Rows)
  /\ exported \in [Requests -> Seq(Mappings)]
  /\ service \in {"up", "stopping", "down"}
  /\ submits \in Nat /\ crashes \in Nat /\ shutdowns \in Nat /\ faults \in Nat
  /\ accepted \subseteq Requests /\ pulled \subseteq Requests

\* h still has to reach the end of add_request_ with its own file in place.
Admitting(h) == \/ handler[h].pc \in {"registered", "insert", "open"}
                \/ handler[h].pc = "write" /\ handler[h].linked
Tracked(r)   == Registered(r) /\ r \in Members(active[GroupTag[r]])
HasResult(r) == \E n \in Completed : n.req = r
Swapping(r)  == Running /\ r \in BeingSwapped

\* The registration in requests_ is an exclusive ticket although it is checked
\* under requests_lock_ and used after the lock is released (171-185): two
\* threads never admit the same request, and while a thread admits one the
\* monitor, which removes registrations, has not removed this one.
OneAdmission ==
  \A h \in Handlers : Admitting(h) =>
    /\ Registered(handler[h].req)
    /\ \A k \in Handlers \ {h} :
         Admitting(k) => handler[k].req # handler[h].req

\* Who waits for a lock that somebody has.
WaitsForEngine(h) ==
  handler[h].pc = "registered" /\ handler[h].req \notin Unparsable /\ engineLock # "free"
WaitsForRequests == monitor.pc = "locking" /\ requestsLock # "free"

\* Both locks are held exactly in the sections of the code that name them, the
\* exceptions included.  A thread may wait for engine_lock_ behind the monitor while
\* the monitor waits for requests_lock_; it has that one of a thread that waits for
\* nothing.  So no circle of waiting closes, although the monitor holds the one lock
\* as it waits for the other.
LockDiscipline ==
  /\ \A h \in Handlers : /\ handler[h].pc = "insert" <=> engineLock = h
                         /\ handler[h].pc = "checking" <=> requestsLock = h
  /\ monitor.pc # "idle" <=> engineLock = "monitor"
  /\ monitor.pc \in {"merge", "unlink", "open", "write"} <=> requestsLock = "monitor"
  /\ WaitsForRequests => requestsLock \in Handlers /\ ~WaitsForEngine(requestsLock)
  /\ \A h \in Handlers : WaitsForEngine(h) =>
       engineLock = "monitor" \/ (engineLock \in Handlers /\ ~WaitsForEngine(engineLock))

\* While the service runs, every dumped request that is not COMPLETED (what a
\* restart would pick up) is registered and active, or is the result file the
\* monitor is writing: no zombie waits in dump_dir.  A file still being written
\* belongs to a thread that admits its request.
DumpedIsTracked ==
  Running => \A n \in Dropped :
    \/ n = Original(n.req) /\ Tracked(n.req)
    \/ monitor.pc = "write" /\ n = Result(Current)

\* A request answered with error 0 is not lost: it is dumped, or its result is,
\* or the monitor is swapping the one for the other; and while the service runs
\* it is tracked until its result exists.  Only a crash during the swap
\* (250-267) gives a promise up.
PromiseKept ==
  \A r \in accepted \ pulled :
    /\ \/ Original(r) \in DOMAIN dump
       \/ HasResult(r)
       \/ Swapping(r)
    /\ Running => Tracked(r) \/ HasResult(r)

\* An entry of active_group_tags_ that has no request in requests_ any more, where line
\* 239 raises KeyError turn after turn, is one of a request that was finished: its
\* result is there, or was pulled.  Requests that share a tag, resubmissions, aborted
\* turns and failed inserts leave no other.
ActiveRegistered ==
  \A t \in Tags : \A i \in DOMAIN active[t] :
    LET r == active[t][i] IN Registered(r) \/ HasResult(r) \/ r \in pulled

\* Every address of a completed request found its row of geo, although the rows
\* of a tag may come back in several runs and only the first one is used.
ResultCoversAddresses ==
  \A n \in Completed : \A a \in Members(Uniques[n.req]) :
    n.joins[Len(n.joins)][a] >= 1

\* An output table holds what some result file of its request holds, or will
\* as soon as the monitor has written it.
ExportHasResult ==
  \A r \in Requests : exported[r] # <<>> =>
    \/ [req |-> r, joins |-> exported[r]] \in Completed
    \/ Swapping(r) /\ requests[r].joins = exported[r]

\* Error 1, which the client reports as "Request is already being processed",
\* is only ever given for a request that some thread still admits or the
\* monitor will finish.
BeingProcessed(r) == \/ Tracked(r)
                     \/ \E h \in Handlers : Admitting(h) /\ handler[h].req = r
DuplicateMeansProcessing ==
  [][\A h \in Handlers :
       handler'[h] # handler[h] /\ handler'[h].reply = "duplicate"
         => BeingProcessed(handler'[h].req)]_vars

\* The results there are, with the one that the monitor writes anew.
Results == Completed \cup (IF monitor.pc = "write" THEN {Result(Current)} ELSE {})

\* A result leaves dump_dir only by being pulled, or by a crash between the open and
\* the write of dump_request_: a request that is submitted and completed again may
\* have the same result (where its old rows come in a group of their own), and then
\* the file is emptied first.  Neither resubmission nor a failure nor an aborted
\* turn takes any other.
ResultsAreStable ==
  [][\A n \in Results :
       \/ n \in Results'
       \/ n.req \in pulled'
       \/ crashes' # crashes /\ monitor.pc = "write" /\ n = Result(Current)]_vars

\* When the service is down, it can be started again: every file of dump_dir
\* that is not COMPLETED hashes to its name under the unchanged salt.
CanRestart == service = "down" => Restartable

\* Every call of GeocodeCSV returns.
AdmissionEnds ==
  \A h \in Handlers : handler[h].pc # "idle" ~> handler[h].pc = "idle"

\* Every registered request is finished eventually and its entry removed.
RegistrationEnds ==
  \A r \in Requests : Registered(r) ~> ~Registered(r)
===============================================================================
