---------------------------- MODULE GeocoderProofs ----------------------------
(***************************************************************************)
(* Theorems about Geocoder for all handlers, requests, tags and bounds.    *)
(***************************************************************************)
EXTENDS Geocoder, FiniteSetTheorems, SequenceTheorems, TLAPS

-------------------------------------------------------------------------------
(* Lemmas about the operators on files, rows and orders.                   *)

\* Writing a file leaves dump_dir a directory of well-formed files.
LEMMA PutType ==
  ASSUME NEW f, DOMAIN f \subseteq Data, f \in [DOMAIN f -> Files],
         NEW name \in Data, NEW file \in Files
  PROVE  /\ DOMAIN Put(f, name, file) \subseteq Data
         /\ Put(f, name, file) \in [DOMAIN Put(f, name, file) -> Files]
  BY DEF Put

\* Unlinking files does, too.
LEMMA WithoutType ==
  ASSUME NEW f, DOMAIN f \subseteq Data, f \in [DOMAIN f -> Files], NEW names
  PROVE  /\ DOMAIN Without(f, names) \subseteq Data
         /\ Without(f, names) \in [DOMAIN Without(f, names) -> Files]
  BY DEF Without

\* A bulk insert appends rows of the table's type.
LEMMA RowsForType ==
  ASSUME NEW t \in Tags, NEW addresses \in Seq(Addresses)
  PROVE  RowsFor(t, addresses) \in Seq(Rows)
  <1>1. \A i \in 1..Len(addresses) : addresses[i] \in Addresses
    BY ElementOfSeq
  <1>2. Len(addresses) \in Nat
    BY LenProperties
  <1>3. \A i \in 1..Len(addresses) :
          [tag |-> t, address |-> addresses[i], done |-> FALSE] \in Rows
    BY <1>1 DEF Rows
  <1> QED
    BY <1>2, <1>3, IsASeq DEF RowsFor

\* An order of a finite set of requests is a sequence of requests.
LEMMA OrdersType ==
  ASSUME NEW S \in SUBSET Requests, NEW s \in Orders(S)
  PROVE  s \in Seq(Requests)
  <1>1. IsFiniteSet(S)
    BY FS_Subset, GeocoderAssumption
  <1>2. Cardinality(S) \in Nat
    BY <1>1, FS_CardinalityType
  <1>3. s \in [1..Cardinality(S) -> Requests]
    BY DEF Orders
  <1> QED
    BY <1>2, <1>3, SeqDef

\* The multiplicities of a join are numbers.
LEMMA MatchesType ==
  ASSUME TypeOK, NEW r \in Requests
  PROVE  Matches(r) \in Mappings
  <1>1. geo \in Seq(Rows)
    BY DEF TypeOK
  <1>2. Len(geo) \in Nat /\ DOMAIN geo = 1..Len(geo)
    BY <1>1, LenProperties
  <1>3. IsFiniteSet(DOMAIN geo)
    BY <1>2, FS_Interval
  <1>4. ASSUME NEW a \in Addresses
        PROVE  Cardinality({i \in monitor.group :
                              geo[i].address = a /\ geo[i].done}) \in Nat
    <2> DEFINE hits == {i \in monitor.group : geo[i].address = a /\ geo[i].done}
    <2>1. hits \in SUBSET DOMAIN geo
      BY DEF TypeOK
    <2>2. IsFiniteSet(hits)
      BY <1>3, <2>1, FS_Subset
    <2> QED
      BY <2>2, FS_CardinalityType
  <1> QED
    BY <1>4 DEF Matches, Mappings

\* One more join keeps a csv a csv, and a joined csv is not the original.
LEMMA JoinedType ==
  ASSUME NEW joins \in Seq(Mappings), NEW m \in Mappings
  PROVE  Joined(joins, m) \in Seq(Mappings) /\ Joined(joins, m) # <<>>
  <1>1. Len(joins) \in Nat /\ MaxJoins \in Nat \ {0}
    BY LenProperties, GeocoderAssumption
  <1>2. CASE Len(joins) < MaxJoins
    BY <1>2, AppendProperties DEF Joined
  <1>3. CASE ~(Len(joins) < MaxJoins)
    <2>1. Len(joins) # 0
      BY <1>1, <1>3
    <2>2. joins # <<>>
      BY <2>1, EmptySeq
    <2> QED
      BY <1>3, <2>2 DEF Joined
  <1> QED
    BY <1>2, <1>3

\* A group the monitor starts consists of positions of rows it has fetched.
LEMMA StartGroupType ==
  ASSUME TypeOK, NEW data \in SUBSET DOMAIN geo, StartGroup(data)
  PROVE  /\ monitor' \in MonitorStates
         /\ monitor'.group \cup monitor'.data \subseteq DOMAIN geo
         /\ monitor'.pc = "merge"
  <1>1. /\ geo \in Seq(Rows)
        /\ Len(geo) \in Nat /\ DOMAIN geo = 1..Len(geo)
    BY LenProperties DEF TypeOK
  <1>2. DOMAIN geo \subseteq Nat
    BY <1>1
  <1>3. PICK first \in data :
          LET group == {i \in data : \A j \in data :
                                 j <= i => geo[j].tag = geo[first].tag} IN
          monitor' = [pc |-> "merge", tag |-> geo[first].tag, group |-> group,
                      data |-> data \ group, pos |-> 1]
    BY Zenon DEF StartGroup
  <1>4. geo[first].tag \in Tags
    <2>1. first \in DOMAIN geo
      OBVIOUS
    <2>2. geo[first] \in Rows
      BY <1>1, <2>1, ElementOfSeq
    <2> QED
      BY <2>2 DEF Rows
  <1> QED
    BY <1>2, <1>3, <1>4 DEF MonitorStates

-------------------------------------------------------------------------------
(* Types, locks and the monitor's position.                                *)

\* While the monitor works on an entry of a group, the entry is there: nobody
\* else changes active_group_tags_ during its turn.  A process that is down has
\* no monitor.
PositionOK ==
  /\ monitor.pc \in {"unlink", "open", "write"} =>
       monitor.pos \in DOMAIN active[monitor.tag]
  /\ service = "down" => monitor.pc = "idle"

TypeInv == TypeOK /\ LockDiscipline /\ PositionOK

\* Who holds which lock where.
LocksInv ==
  /\ \A h \in Handlers : /\ handler[h].pc = "insert" <=> engineLock = h
                         /\ handler[h].pc = "checking" <=> requestsLock = h
  /\ monitor.pc # "idle" <=> engineLock = "monitor"
  /\ monitor.pc \in {"merge", "unlink", "open", "write"} <=> requestsLock = "monitor"

\* It leaves nobody who holds a lock that is waited for, but the monitor, to wait
\* himself; and whoever the monitor waits for does not.
LEMMA NoCircle ==
  ASSUME TypeOK, LocksInv
  PROVE  LockDiscipline
  <1>1. /\ engineLock \in Handlers \cup {"free", "monitor"}
        /\ requestsLock \in Handlers \cup {"free", "monitor"}
    BY DEF TypeOK
  <1>2. WaitsForRequests => requestsLock \in Handlers /\ ~WaitsForEngine(requestsLock)
    <2> SUFFICES ASSUME WaitsForRequests
                 PROVE  requestsLock \in Handlers /\ ~WaitsForEngine(requestsLock)
      OBVIOUS
    <2>1. requestsLock \in Handlers
      BY <1>1 DEF WaitsForRequests, LocksInv
    <2>2. handler[requestsLock].pc = "checking"
      BY <2>1 DEF LocksInv
    <2> QED
      BY <2>1, <2>2 DEF WaitsForEngine
  <1>3. ASSUME NEW h \in Handlers, WaitsForEngine(h), engineLock # "monitor"
        PROVE  engineLock \in Handlers /\ ~WaitsForEngine(engineLock)
    <2>1. engineLock \in Handlers
      BY <1>1, <1>3 DEF WaitsForEngine
    <2>2. handler[engineLock].pc = "insert"
      BY <2>1 DEF LocksInv
    <2> QED
      BY <2>1, <2>2 DEF WaitsForEngine
  <1> QED
    BY <1>2, <1>3 DEF LocksInv, LockDiscipline

\* The entry the monitor is at is a request.
LEMMA CurrentType ==
  ASSUME TypeInv,
         \/ monitor.pc \in {"unlink", "open", "write"}
         \/ monitor.pc = "merge" /\ MoreInGroup
  PROVE  Current \in Requests
  <1>1. monitor.tag \in Tags /\ active[monitor.tag] \in Seq(Requests)
        /\ monitor.pos \in Nat \ {0}
    BY DEF TypeInv, TypeOK, MonitorStates
  <1>2. DOMAIN active[monitor.tag] = 1..Len(active[monitor.tag])
    BY <1>1, LenProperties
  <1>3. Len(active[monitor.tag]) \in Nat
    BY <1>1, LenProperties
  <1>4. monitor.pos \in DOMAIN active[monitor.tag]
    BY <1>1, <1>2, <1>3 DEF TypeInv, PositionOK, MoreInGroup
  <1> QED
    BY <1>1, <1>4, ElementOfSeq, <1>2 DEF Current

LEMMA InitTypes == Init => TypeInv
  <1> SUFFICES ASSUME Init PROVE TypeInv
    OBVIOUS
  <1>1. TypeOK
    <2>1. (CHOOSE r \in Requests : TRUE) \in Requests
      BY GeocoderAssumption
    <2>2. monitor \in MonitorStates
      BY <2>1, GeocoderAssumption
      DEF Init, VolatileInit, MonitorIdle, MonitorStates
    <2>3. handler \in [Handlers -> HandlerStates]
      BY <2>1 DEF Init, VolatileInit, Idle, HandlerAt, HandlerStates
    <2>4. geo \in Seq(Rows) /\ monitor.group \cup monitor.data = {}
      BY EmptySeq DEF Init, VolatileInit, MonitorIdle
    <2>5. DOMAIN dump \subseteq Data /\ dump \in [DOMAIN dump -> Files]
      BY DEF Init
    <2>6. requests \in [Requests -> Objects] /\ exported \in [Requests -> Seq(Mappings)]
          /\ active \in [Tags -> Seq(Requests)]
      BY EmptySeq DEF Init, VolatileInit, Absent, Objects, Statuses
    <2> QED
      BY <2>2, <2>3, <2>4, <2>5, <2>6 DEF TypeOK, Init, VolatileInit
  <1>2. LockDiscipline
    <2>1. LocksInv
      BY GeocoderAssumption DEF Init, VolatileInit, LocksInv, MonitorIdle, Idle, HandlerAt
    <2> QED
      BY <1>1, <2>1, NoCircle
  <1>3. PositionOK
    BY DEF Init, VolatileInit, MonitorIdle, PositionOK
  <1> QED
    BY <1>1, <1>2, <1>3 DEF TypeInv

\* Losing memory leaves well-formed state.
LEMMA MonitorIdleType == MonitorIdle \in MonitorStates
  <1>1. (CHOOSE r \in Requests : TRUE) \in Requests
    BY GeocoderAssumption
  <1> QED
    BY <1>1, GeocoderAssumption DEF MonitorIdle, MonitorStates

\* The states a gRPC thread is put into.
LEMMA HandlerAtType ==
  ASSUME NEW pc \in {"idle", "checking", "registered", "insert", "open", "write"},
         NEW r \in Requests,
         NEW reply \in {"none", "accepted", "duplicate", "failed"}
  PROVE  HandlerAt(pc, r, reply) \in HandlerStates
  BY DEF HandlerAt, HandlerStates

\* Every step of a gRPC thread keeps the types.
LEMMA HandlerTypes ==
  ASSUME TypeInv, NEW h \in Handlers,
         HandlerStep(h) \/ \E r \in Requests : Submit(h, r)
  PROVE  TypeOK'
  <1> USE DEF TypeInv
  <1>1. handler[h] \in HandlerStates
    BY DEF TypeOK
  <1>2. handler[h].req \in Requests /\ handler[h].pos \in Nat
        /\ handler[h].short \in BOOLEAN
    BY <1>1 DEF HandlerStates
  <1>3. ASSUME NEW r \in Requests, Submit(h, r)
        PROVE  TypeOK'
    <2>1. HandlerAt("checking", r, "none") \in HandlerStates
      BY HandlerAtType
    <2>2. handler' \in [Handlers -> HandlerStates]
      BY <1>3, <2>1 DEF Submit, TypeOK
    <2> QED
      BY <1>3, <2>2 DEF Submit, TypeOK, durable
  <1>18. CASE Register(h)
    <2>1. Idle(handler[h].req, "duplicate") \in HandlerStates
          /\ HandlerAt("registered", handler[h].req, "none") \in HandlerStates
      BY <1>2, HandlerAtType DEF Idle
    <2>2. handler' \in [Handlers -> HandlerStates]
      BY <1>18, <2>1 DEF Register, TypeOK
    <2>3. Received \in Objects
      BY EmptySeq DEF Received, Objects, Statuses
    <2>4. requests' \in [Requests -> Objects]
      BY <1>18, <2>3 DEF Register, TypeOK
    <2> QED
      BY <1>18, <2>2, <2>4 DEF Register, TypeOK, durable, history, bounds
  <1>4. CASE RejectCSV(h)
    <2>1. handler' \in [Handlers -> HandlerStates]
      BY <1>2, <1>4 DEF RejectCSV, TypeOK, HandlerStates, Idle, HandlerAt
    <2> QED
      BY <1>4, <2>1 DEF RejectCSV, TypeOK, durable, history, bounds
  <1>5. CASE LockEngine(h)
    <2>1. handler' \in [Handlers -> HandlerStates]
      <3>1. [handler[h] EXCEPT !.pc = "insert"] \in HandlerStates
        BY <1>1 DEF HandlerStates
      <3> QED
        BY <1>5, <3>1 DEF LockEngine, TypeOK
    <2> QED
      BY <1>5, <2>1 DEF LockEngine, TypeOK, durable, history, bounds
  <1>6. AddressesOf(h) \in Seq(Addresses) /\ Len(AddressesOf(h)) \in Nat
    BY <1>2, GeocoderAssumption, LenProperties DEF AddressesOf
  <1>7. ChunkEnd(h) \in Nat /\ ChunkEnd(h) <= Len(AddressesOf(h))
    BY <1>2, <1>6, GeocoderAssumption DEF ChunkEnd
  <1>8. Chunk(h) \in Seq(Addresses) /\ Len(Chunk(h)) \in Nat
    BY <1>2, <1>6, <1>7, SubSeqProperties, LenProperties DEF Chunk
  <1>9. GroupTag[handler[h].req] \in Tags
    BY <1>2, GeocoderAssumption
  <1>10. ASSUME NEW addresses \in Seq(Addresses),
                geo' = geo \o RowsFor(GroupTag[handler[h].req], addresses)
         PROVE  geo' \in Seq(Rows) /\ DOMAIN geo \subseteq DOMAIN geo'
    <2>1. RowsFor(GroupTag[handler[h].req], addresses) \in Seq(Rows)
      BY <1>9, RowsForType
    <2>2. geo \in Seq(Rows)
      BY DEF TypeOK
    <2>3. /\ geo' \in Seq(Rows)
          /\ Len(geo') = Len(geo) + Len(RowsFor(GroupTag[handler[h].req], addresses))
      BY <1>10, <2>1, <2>2, ConcatProperties
    <2> QED
      BY <2>1, <2>2, <2>3, LenProperties
  <1>11. CASE InsertChunk(h)
    <2>1. handler' \in [Handlers -> HandlerStates]
      <3>1. [handler[h] EXCEPT !.pos = ChunkEnd(h)] \in HandlerStates
        BY <1>1, <1>7 DEF HandlerStates
      <3> QED
        BY <1>11, <3>1 DEF InsertChunk, TypeOK
    <2>2. geo' \in Seq(Rows) /\ DOMAIN geo \subseteq DOMAIN geo'
      BY <1>8, <1>10, <1>11 DEF InsertChunk
    <2> QED
      BY <1>11, <2>1, <2>2 DEF InsertChunk, TypeOK, history, bounds
  <1>12. CASE InsertChunkShort(h)
    <2>1. handler' \in [Handlers -> HandlerStates]
      <3>1. [handler[h] EXCEPT !.pos = ChunkEnd(h), !.short = TRUE] \in HandlerStates
        BY <1>1, <1>7 DEF HandlerStates
      <3>2. handler' = [handler EXCEPT ![h] =
                 [handler[h] EXCEPT !.pos = ChunkEnd(h), !.short = TRUE]]
        BY <1>12 DEF InsertChunkShort, TypeOK
      <3> QED
        BY <3>1, <3>2 DEF TypeOK
    <2>2. PICK n \in 0..(Len(Chunk(h)) - 1) :
            geo' = geo \o RowsFor(GroupTag[handler[h].req], SubSeq(Chunk(h), 1, n))
      BY <1>12 DEF InsertChunkShort
    <2>3. SubSeq(Chunk(h), 1, n) \in Seq(Addresses)
      BY <1>8, SubSeqProperties
    <2>4. geo' \in Seq(Rows) /\ DOMAIN geo \subseteq DOMAIN geo'
      BY <1>10, <2>2, <2>3
    <2> QED
      BY <1>12, <2>1, <2>4 DEF InsertChunkShort, TypeOK
  <1>13. CASE InsertChunkError(h)
    <2>1. handler' \in [Handlers -> HandlerStates]
      BY <1>2, <1>13 DEF InsertChunkError, TypeOK, HandlerStates, Idle, HandlerAt
    <2> QED
      BY <1>13, <2>1 DEF InsertChunkError, TypeOK, durable
  <1>14. CASE Activate(h)
    <2>0. Idle(handler[h].req, "failed") \in HandlerStates
          /\ HandlerAt("open", handler[h].req, "none") \in HandlerStates
      BY <1>2, HandlerAtType DEF Idle
    <2>1. handler' \in [Handlers -> HandlerStates]
      <3> DEFINE after == IF handler[h].short
                            THEN Idle(handler[h].req, "failed")
                            ELSE HandlerAt("open", handler[h].req, "none")
      <3>1. after \in HandlerStates
        BY <2>0
      <3>2. handler' = [handler EXCEPT ![h] = after]
        BY <1>14 DEF Activate, TypeOK
      <3>3. handler \in [Handlers -> HandlerStates]
        BY DEF TypeOK
      <3> HIDE DEF after
      <3> QED
        BY <3>1, <3>2, <3>3
    <2>2. active' \in [Tags -> Seq(Requests)]
      BY <1>2, <1>9, <1>14, AppendProperties DEF Activate, TypeOK
    <2> QED
      BY <1>14, <2>1, <2>2 DEF Activate, TypeOK, durable, history, bounds
  <1>15. Original(handler[h].req) \in Data
    BY <1>2, EmptySeq DEF Original, Data
  <1>16. CASE OpenDump(h)
    <2>1. handler' \in [Handlers -> HandlerStates]
      <3>1. [handler[h] EXCEPT !.pc = "write", !.linked = TRUE] \in HandlerStates
        BY <1>1 DEF HandlerStates
      <3>2. handler' = [handler EXCEPT ![h] =
                          [handler[h] EXCEPT !.pc = "write", !.linked = TRUE]]
        BY <1>16 DEF OpenDump, TypeOK
      <3> QED
        BY <3>1, <3>2 DEF TypeOK
    <2>2. requests' \in [Requests -> Objects]
      BY <1>16 DEF OpenDump, TypeOK, Objects, Statuses
    <2>3. Empty(Original(handler[h].req)) \in Files
      BY <1>15 DEF Empty, Files, Statuses
    <2>4. DOMAIN dump' \subseteq Data /\ dump' \in [DOMAIN dump' -> Files]
      BY <1>15, <1>16, <2>3, PutType DEF OpenDump, TypeOK
    <2> QED
      BY <1>16, <2>1, <2>2, <2>4 DEF OpenDump, TypeOK, history, bounds
  <1>17. CASE WriteDump(h)
    <2>1. handler' \in [Handlers -> HandlerStates]
      BY <1>2, <1>17 DEF WriteDump, TypeOK, HandlerStates, Idle, HandlerAt
    <2> DEFINE r == handler[h].req
               file == [status |-> requests[r].status,
                        data |-> [req |-> r, joins |-> requests[r].joins]]
    <2>2. file \in Files
      BY <1>2 DEF TypeOK, Objects, Files, Data
    <2>3. DOMAIN dump' \subseteq Data /\ dump' \in [DOMAIN dump' -> Files]
      BY <1>15, <1>17, <2>2, PutType DEF WriteDump, TypeOK
    <2> QED
      BY <1>2, <1>17, <2>1, <2>3 DEF WriteDump, TypeOK, bounds
  <1> QED
    BY <1>3, <1>4, <1>5, <1>11, <1>12, <1>13, <1>14, <1>16, <1>17, <1>18
    DEF HandlerStep

\* Every step of the monitor keeps the types.
LEMMA MonitorTypes ==
  ASSUME TypeInv, MonitorStep
  PROVE  TypeOK'
  <1> USE DEF TypeInv
  <1>1. monitor \in MonitorStates
    BY DEF TypeOK
  <1>2. CASE Poll
    <2>1. Fetched \in SUBSET DOMAIN geo
      BY DEF Fetched, RowsOf
    <2>2. DOMAIN geo \subseteq Nat
      BY LenProperties DEF TypeOK
    <2>3. /\ monitor' \in MonitorStates
          /\ monitor'.group \cup monitor'.data \subseteq DOMAIN geo
      BY <1>2, <2>1, <2>2, MonitorIdleType DEF Poll, MonitorIdle, MonitorStates
    <2> QED
      BY <1>2, <2>3 DEF Poll, TypeOK, durable, history, bounds
  <1>12. CASE LockRequests
    <2>1. monitor.data \in SUBSET DOMAIN geo
      BY DEF TypeOK
    <2>2. /\ monitor' \in MonitorStates
          /\ monitor'.group \cup monitor'.data \subseteq DOMAIN geo
      BY <1>12, <2>1, StartGroupType DEF LockRequests
    <2> QED
      BY <1>12, <2>2 DEF LockRequests, TypeOK, durable, history, bounds
  <1>3. ASSUME AbortTurn,
               UNCHANGED <<requests, active, handler, durable, service, history>>
        PROVE  TypeOK'
    <2>1. monitor' \in MonitorStates
          /\ monitor'.group \cup monitor'.data \subseteq DOMAIN geo
      BY <1>3, MonitorIdleType DEF AbortTurn, MonitorIdle
    <2> QED
      BY <1>3, <2>1 DEF AbortTurn, Unlock, TypeOK, durable, history, bounds
  <1>4. CASE MergeMissing
    BY <1>3, <1>4 DEF MergeMissing
  <1>5. CASE Merge
    <2>1. Current \in Requests
      BY <1>5, CurrentType DEF Merge
    <2>2. requests[Current] \in Objects
      BY <2>1 DEF TypeOK
    <2>3. Joined(requests[Current].joins, Matches(Current)) \in Seq(Mappings)
      BY <2>1, <2>2, MatchesType, JoinedType DEF Objects
    <2>4. requests' \in [Requests -> Objects]
      BY <1>5, <2>2, <2>3 DEF Merge, TypeOK, Objects
    <2>5. monitor' \in MonitorStates
          /\ monitor'.group = monitor.group /\ monitor'.data = monitor.data
      BY <1>1, <1>5 DEF Merge, MonitorStates
    <2> QED
      BY <1>5, <2>4, <2>5 DEF Merge, TypeOK, durable, history, bounds
  <1>6. CASE UnlinkMissing
    BY <1>3, <1>6 DEF UnlinkMissing
  <1>7. CASE Unlink
    <2>1. Current \in Requests
      BY <1>7, CurrentType DEF Unlink
    <2>2. requests[Current] \in Objects
      BY <2>1 DEF TypeOK
    <2>3. requests' \in [Requests -> Objects]
      BY <1>7, <2>2 DEF Unlink, TypeOK, Objects, Statuses
    <2>4. monitor' \in MonitorStates
          /\ monitor'.group = monitor.group /\ monitor'.data = monitor.data
      BY <1>1, <1>7 DEF Unlink, MonitorStates
    <2>5. DOMAIN dump' \subseteq Data /\ dump' \in [DOMAIN dump' -> Files]
      BY <1>7, WithoutType DEF Unlink, TypeOK
    <2>6. handler' \in [Handlers -> HandlerStates]
      <3>1. \A h \in Handlers :
              [handler[h] EXCEPT !.linked = FALSE] \in HandlerStates
        BY DEF TypeOK, HandlerStates
      <3> QED
        BY <1>7, <3>1 DEF Unlink, TypeOK
    <2>7. exported' \in [Requests -> Seq(Mappings)]
      BY <1>7, <2>1, <2>2 DEF Unlink, TypeOK, Objects
    <2> QED
      BY <1>7, <2>3, <2>4, <2>5, <2>6, <2>7
      DEF Unlink, TypeOK, history, bounds
  <1>8. ASSUME Current \in Requests
        PROVE  Result(Current) \in Data
    <2>1. requests[Current] \in Objects
      BY <1>8 DEF TypeOK
    <2> QED
      BY <1>8, <2>1 DEF Result, Data, Objects
  <1>9. CASE OpenResult
    <2>1. Result(Current) \in Data
      BY <1>8, <1>9, CurrentType DEF OpenResult
    <2>2. Empty(Result(Current)) \in Files
      BY <2>1 DEF Empty, Files, Statuses
    <2>3. DOMAIN dump' \subseteq Data /\ dump' \in [DOMAIN dump' -> Files]
      BY <1>9, <2>1, <2>2, PutType DEF OpenResult, TypeOK
    <2>4. monitor' \in MonitorStates
          /\ monitor'.group = monitor.group /\ monitor'.data = monitor.data
      BY <1>1, <1>9 DEF OpenResult, MonitorStates
    <2> QED
      BY <1>9, <2>3, <2>4 DEF OpenResult, TypeOK, history, bounds
  <1>10. CASE WriteResult
    <2>1. Result(Current) \in Data
      BY <1>8, <1>10, CurrentType DEF WriteResult
    <2>2. [status |-> "COMPLETED", data |-> Result(Current)] \in Files
      BY <2>1 DEF Files, Statuses
    <2>3. DOMAIN dump' \subseteq Data /\ dump' \in [DOMAIN dump' -> Files]
      BY <1>10, <2>1, <2>2, PutType DEF WriteResult, TypeOK
    <2>4. monitor' \in MonitorStates
          /\ monitor'.group = monitor.group /\ monitor'.data = monitor.data
      <3>1. monitor.pos + 1 \in Nat \ {0}
        BY <1>1 DEF MonitorStates
      <3>2. monitor' = [monitor EXCEPT !.pc = "merge", !.pos = monitor.pos + 1]
        BY <1>1, <1>10 DEF WriteResult, MonitorStates
      <3> QED
        BY <1>1, <3>1, <3>2 DEF MonitorStates
    <2>5. Absent \in Objects
      BY EmptySeq DEF Absent, Objects, Statuses
    <2>6. requests' \in [Requests -> Objects]
      BY <1>10, <2>5 DEF WriteResult, TypeOK
    <2> QED
      BY <1>10, <2>3, <2>4, <2>6 DEF WriteResult, TypeOK, history, bounds
  <1>11. CASE EndGroup
    <2>1. active' \in [Tags -> Seq(Requests)]
      BY <1>11, EmptySeq DEF EndGroup, TypeOK
    <2>2. CASE monitor' = MonitorIdle /\ Unlock
      <3>1. monitor' \in MonitorStates
            /\ monitor'.group \cup monitor'.data \subseteq DOMAIN geo
        BY <2>2, MonitorIdleType DEF MonitorIdle
      <3> QED
        BY <1>11, <2>1, <2>2, <3>1
        DEF EndGroup, Unlock, TypeOK, durable, history, bounds
    <2>3. CASE StartGroup(monitor.data) /\ UNCHANGED <<engineLock, requestsLock>>
      <3>1. monitor.data \in SUBSET DOMAIN geo
        BY DEF TypeOK
      <3>2. monitor' \in MonitorStates
            /\ monitor'.group \cup monitor'.data \subseteq DOMAIN geo
        BY <2>3, <3>1, StartGroupType
      <3> QED
        BY <1>11, <2>1, <2>3, <3>2 DEF EndGroup, TypeOK, durable, history, bounds
    <2> QED
      BY <1>11, <2>2, <2>3 DEF EndGroup
  <1> QED
    BY <1>2, <1>4, <1>5, <1>6, <1>7, <1>9, <1>10, <1>11, <1>12 DEF MonitorStep

LEMMA NextNat == \A n \in Nat : n + 1 \in Nat
  OBVIOUS

\* Pulls, the geocoder, stops and restarts keep the types.
LEMMA EnvironmentTypes ==
  ASSUME TypeInv,
         \/ \E filter \in {""} \cup {ClientTag[r] : r \in Requests} : PullDelete(filter)
         \/ \E i \in DOMAIN geo : MarkDone(i)
         \/ Crash \/ Shutdown \/ Exit \/ Restart
  PROVE  TypeOK'
  <1> USE DEF TypeInv
  <1>1. ASSUME NEW filter, PullDelete(filter)
        PROVE  TypeOK'
    <2>1. DOMAIN dump' \subseteq Data /\ dump' \in [DOMAIN dump' -> Files]
      BY <1>1, WithoutType DEF PullDelete, TypeOK
    <2>2. \A n \in Completed : n.req \in Requests
      BY DEF Completed, TypeOK, Data
    <2>3. pulled' \subseteq Requests
      BY <1>1, <2>2 DEF PullDelete, Pulled, TypeOK
    <2> QED
      BY <1>1, <2>1, <2>3 DEF PullDelete, TypeOK, volatile, bounds
  <1>2. ASSUME NEW i \in DOMAIN geo, MarkDone(i)
        PROVE  TypeOK'
    <2>1. geo \in Seq(Rows) /\ i \in 1..Len(geo)
      BY <1>2, LenProperties DEF TypeOK
    <2>2. geo[i] \in Rows
      BY <2>1, ElementOfSeq
    <2>3. [geo[i] EXCEPT !.done = TRUE] \in Rows
      BY <2>2 DEF Rows
    <2>4. geo' = [geo EXCEPT ![i] = [geo[i] EXCEPT !.done = TRUE]]
      BY <1>2, <2>1 DEF MarkDone
    <2>5. geo' \in Seq(Rows) /\ DOMAIN geo' = DOMAIN geo
      BY <2>1, <2>3, <2>4, ExceptSeq
    <2> QED
      BY <1>2, <2>5 DEF MarkDone, TypeOK, volatile, history, bounds
  <1>3. ASSUME LoseMemory, UNCHANGED durable
        PROVE  /\ requests' \in [Requests -> Objects]
               /\ active' \in [Tags -> Seq(Requests)]
               /\ handler' \in [Handlers -> HandlerStates]
               /\ monitor' \in MonitorStates
               /\ monitor'.group \cup monitor'.data \subseteq DOMAIN geo'
               /\ engineLock' \in Handlers \cup {"free", "monitor"}
               /\ requestsLock' \in Handlers \cup {"free", "monitor"}
               /\ service' \in {"up", "stopping", "down"}
    <2>1. requests' \in [Requests -> Objects]
      BY <1>3, EmptySeq DEF LoseMemory, Absent, Objects, Statuses
    <2>2. active' \in [Tags -> Seq(Requests)]
      BY <1>3, EmptySeq DEF LoseMemory
    <2>3. \A h \in Handlers : handler[h].req \in Requests
      BY DEF TypeOK, HandlerStates
    <2>4. handler' \in [Handlers -> HandlerStates]
      BY <1>3, <2>3, HandlerAtType DEF LoseMemory, Idle
    <2>5. monitor' \in MonitorStates
          /\ monitor'.group \cup monitor'.data \subseteq DOMAIN geo'
      BY <1>3, MonitorIdleType DEF LoseMemory, MonitorIdle
    <2> QED
      BY <1>3, <2>1, <2>2, <2>4, <2>5 DEF LoseMemory, Unlock
  <1>4. CASE Crash
    <2>1. LoseMemory /\ UNCHANGED durable
      BY <1>4 DEF Crash
    <2>2. /\ accepted' \subseteq Requests /\ pulled' \subseteq Requests
          /\ submits' \in Nat /\ crashes' \in Nat
          /\ shutdowns' \in Nat /\ faults' \in Nat
      <3>1. accepted \subseteq Requests /\ pulled \subseteq Requests
            /\ submits \in Nat /\ crashes \in Nat
            /\ shutdowns \in Nat /\ faults \in Nat
        BY DEF TypeOK
      <3>2. crashes + 1 \in Nat
        BY <3>1, NextNat, Zenon
      <3>3. crashes' = crashes + 1 /\ accepted' = accepted \ BeingSwapped
            /\ UNCHANGED <<submits, shutdowns, faults, pulled>>
        BY <1>4 DEF Crash
      <3> HIDE DEF TypeInv
      <3> QED
        BY <3>1, <3>2, <3>3
    <2>3. UNCHANGED <<dump, geo, exported>>
      BY <2>1 DEF durable
    <2> HIDE DEF TypeInv
    <2> QED
      BY <1>3, <2>1, <2>2, <2>3 DEF TypeOK, TypeInv
  <1>5. CASE Shutdown
    <2>1. shutdowns' \in Nat /\ service' \in {"up", "stopping", "down"}
      <3>1. shutdowns \in Nat
        BY DEF TypeOK
      <3>2. shutdowns + 1 \in Nat
        BY <3>1, NextNat, Zenon
      <3>3. shutdowns' = shutdowns + 1 /\ service' = "stopping"
        BY <1>5 DEF Shutdown
      <3> QED
        BY <3>2, <3>3, Zenon
    <2>2. UNCHANGED volatile /\ UNCHANGED durable
          /\ UNCHANGED <<submits, crashes, faults, accepted, pulled>>
      BY <1>5 DEF Shutdown
    <2> QED
      BY <2>1, <2>2 DEF TypeOK, volatile, durable
  <1>6. CASE Exit
    <2>1. LoseMemory /\ UNCHANGED durable /\ UNCHANGED history
      BY <1>6 DEF Exit
    <2>2. /\ accepted' \subseteq Requests /\ pulled' \subseteq Requests
          /\ submits' \in Nat /\ crashes' \in Nat
          /\ shutdowns' \in Nat /\ faults' \in Nat
      BY <2>1 DEF history, bounds, TypeOK
    <2>3. UNCHANGED <<dump, geo, exported>>
      BY <2>1 DEF durable
    <2> QED
      BY <1>3, <2>1, <2>2, <2>3 DEF TypeOK
  <1>7. CASE Restart
    <2>1. requests' \in [Requests -> Objects]
      BY <1>7, EmptySeq DEF Restart, Absent, Objects, Statuses
    <2>2. \A t \in Tags : DroppedUnder(t) \in SUBSET Requests
      BY DEF DroppedUnder, Dropped, TypeOK, Data
    <2>3. \A t \in Tags : active'[t] \in Seq(Requests)
      BY <1>7, <2>2, OrdersType DEF Restart
    <2>4. active' \in [Tags -> Seq(Requests)]
      BY <1>7, <2>3 DEF Restart
    <2> QED
      BY <1>7, <2>1, <2>4 DEF Restart, TypeOK, durable, history, bounds
  <1> QED
    BY <1>1, <1>2, <1>4, <1>5, <1>6, <1>7

\* Who holds the locks and the monitor's position survive every step.
LEMMA LocksStep ==
  ASSUME TypeInv, [Next]_vars
  PROVE  LocksInv' /\ PositionOK'
  <1>26. LocksInv
    BY DEF TypeInv, LockDiscipline, LocksInv
  <1> USE <1>26, GeocoderAssumption DEF TypeInv, LocksInv, PositionOK, Running
  <1>0. handler \in [Handlers -> HandlerStates]
    BY DEF TypeOK
  <1>1. ASSUME NEW h \in Handlers, NEW r \in Requests, Submit(h, r)
        PROVE  LocksInv' /\ PositionOK'
    <2>1. handler[h].pc = "idle" /\ handler'[h].pc = "checking"
          /\ \A k \in Handlers \ {h} : handler'[k] = handler[k]
      BY <1>0, <1>1 DEF Submit, HandlerAt
    <2>2. UNCHANGED <<active, monitor, engineLock, service>>
          /\ requestsLock = "free" /\ requestsLock' = h
      BY <1>1 DEF Submit
    <2>3. \A k \in Handlers : handler[k].pc # "checking"
      BY <2>2
    <2>4. h # "free" /\ h # "monitor"
      OBVIOUS
    <2>5. ASSUME NEW k \in Handlers
          PROVE  /\ handler'[k].pc = "insert" <=> engineLock' = k
                 /\ handler'[k].pc = "checking" <=> requestsLock' = k
      BY <2>1, <2>2, <2>3
    <2> QED
      BY <2>2, <2>4, <2>5
  <1>27. ASSUME NEW h \in Handlers, Register(h)
         PROVE  LocksInv' /\ PositionOK'
    <2>1. /\ handler[h].pc = "checking" /\ handler'[h].pc \in {"idle", "registered"}
          /\ \A k \in Handlers \ {h} : handler'[k] = handler[k]
      BY <1>0, <1>27 DEF Register, Idle, HandlerAt
    <2>2. UNCHANGED <<active, monitor, engineLock, service>>
          /\ requestsLock = h /\ requestsLock' = "free"
      BY <1>27, <2>1 DEF Register
    <2>3. \A k \in Handlers \ {h} : handler[k].pc # "checking"
      BY <2>2
    <2>4. h # "free" /\ h # "monitor"
      OBVIOUS
    <2> QED
      BY <2>1, <2>2, <2>3, <2>4
  <1>2. ASSUME NEW h \in Handlers, RejectCSV(h)
        PROVE  LocksInv' /\ PositionOK'
    BY <1>0, <1>2 DEF RejectCSV, Idle, HandlerAt
  <1>3. ASSUME NEW h \in Handlers, LockEngine(h)
        PROVE  LocksInv' /\ PositionOK'
    <2>1. handler'[h].pc = "insert"
          /\ \A k \in Handlers \ {h} : handler'[k] = handler[k]
      BY <1>0, <1>3 DEF LockEngine, HandlerStates
    <2>2. /\ engineLock = "free" /\ engineLock' = h
          /\ UNCHANGED <<active, monitor, requestsLock, service>>
      BY <1>3 DEF LockEngine
    <2>3. \A k \in Handlers : handler[k].pc # "insert"
      BY <2>2
    <2>4. monitor.pc = "idle" /\ handler[h].pc = "registered"
      BY <1>3, <2>2 DEF LockEngine
    <2>5. h # "free" /\ h # "monitor"
      OBVIOUS
    <2> QED
      BY <2>1, <2>2, <2>3, <2>4, <2>5
  <1>4. ASSUME NEW h \in Handlers, InsertChunk(h)
        PROVE  LocksInv' /\ PositionOK'
    BY <1>0, <1>4 DEF InsertChunk, HandlerStates
  <1>5. ASSUME NEW h \in Handlers, InsertChunkShort(h)
        PROVE  LocksInv' /\ PositionOK'
    <2>1. handler'[h].pc = "insert"
          /\ \A k \in Handlers \ {h} : handler'[k] = handler[k]
      BY <1>0, <1>5 DEF InsertChunkShort, Inserting, HandlerStates
    <2> QED
      BY <1>5, <2>1 DEF InsertChunkShort, Inserting
  <1>6. ASSUME NEW h \in Handlers, InsertChunkError(h)
        PROVE  LocksInv' /\ PositionOK'
    <2>1. handler'[h].pc = "idle" /\ handler[h].pc = "insert"
          /\ \A k \in Handlers \ {h} : handler'[k] = handler[k]
      BY <1>0, <1>6 DEF InsertChunkError, Inserting, Idle, HandlerAt
    <2>2. engineLock = h /\ engineLock' = "free"
          /\ UNCHANGED <<active, monitor, requestsLock, service>>
      BY <1>6 DEF InsertChunkError, Inserting
    <2>3. h # "monitor" /\ h # "free"
      OBVIOUS
    <2>4. \A k \in Handlers \ {h} : handler'[k].pc # "insert"
      BY <2>1, <2>2
    <2>5. monitor.pc = "idle"
      BY <2>2, <2>3 DEF TypeOK
    <2>6. \A k \in Handlers : handler'[k].pc # "insert" /\ k # "free"
      BY <2>1, <2>4
    <2>7. \A k \in Handlers : handler'[k].pc = "checking" <=> handler[k].pc = "checking"
      BY <2>1, <2>2
    <2> QED
      BY <2>2, <2>5, <2>6, <2>7
  <1>7. ASSUME NEW h \in Handlers, Activate(h)
        PROVE  LocksInv' /\ PositionOK'
    <2>1. handler'[h].pc \notin {"insert", "checking"} /\ handler[h].pc = "insert"
          /\ \A k \in Handlers \ {h} : handler'[k] = handler[k]
      BY <1>0, <1>7 DEF Activate, Inserting, Idle, HandlerAt
    <2>2. engineLock = h /\ engineLock' = "free"
          /\ UNCHANGED <<monitor, requestsLock, service>>
      BY <1>7 DEF Activate, Inserting
    <2>3. h # "monitor" /\ h # "free"
      OBVIOUS
    <2>4. \A k \in Handlers \ {h} : handler'[k].pc # "insert"
      BY <2>1, <2>2
    <2>5. monitor.pc = "idle"
      BY <2>2, <2>3 DEF TypeOK
    <2>6. \A k \in Handlers : handler'[k].pc # "insert" /\ k # "free"
      BY <2>1, <2>4
    <2>7. \A k \in Handlers : handler'[k].pc = "checking" <=> handler[k].pc = "checking"
      BY <2>1, <2>2
    <2> QED
      BY <2>2, <2>5, <2>6, <2>7
  <1>8. ASSUME NEW h \in Handlers, OpenDump(h)
        PROVE  LocksInv' /\ PositionOK'
    <2>1. handler'[h].pc = "write"
          /\ \A k \in Handlers \ {h} : handler'[k] = handler[k]
      BY <1>0, <1>8 DEF OpenDump, HandlerStates
    <2> QED
      BY <1>8, <2>1 DEF OpenDump
  <1>9. ASSUME NEW h \in Handlers, WriteDump(h)
        PROVE  LocksInv' /\ PositionOK'
    BY <1>0, <1>9 DEF WriteDump, Idle, HandlerAt
  <1>10. ASSUME Poll
         PROVE  LocksInv' /\ PositionOK'
    <2>1. monitor'.pc = "locking"
      BY <1>10 DEF Poll, MonitorIdle
    <2> QED
      BY <1>10, <2>1 DEF Poll
  <1>28. ASSUME LockRequests
         PROVE  LocksInv' /\ PositionOK'
    <2>1. monitor.data \in SUBSET DOMAIN geo
      BY DEF TypeOK
    <2>2. monitor'.pc = "merge"
      BY <1>28, <2>1, StartGroupType DEF LockRequests
    <2> QED
      BY <1>28, <2>2 DEF LockRequests
  <1>11. ASSUME AbortTurn, monitor.pc \in {"merge", "unlink"},
                UNCHANGED <<active, handler, service>>
         PROVE  LocksInv' /\ PositionOK'
    BY <1>11 DEF AbortTurn, Unlock, MonitorIdle
  <1>12. ASSUME MergeMissing \/ UnlinkMissing
         PROVE  LocksInv' /\ PositionOK'
    BY <1>11, <1>12 DEF MergeMissing, UnlinkMissing
  <1>13. monitor \in MonitorStates
    BY DEF TypeOK
  <1>14. ASSUME Merge
         PROVE  LocksInv' /\ PositionOK'
    <2>1. active[monitor.tag] \in Seq(Requests) /\ monitor.pos \in Nat \ {0}
      BY <1>13 DEF TypeOK, MonitorStates
    <2>2. monitor.pos \in DOMAIN active[monitor.tag]
      BY <1>14, <2>1, LenProperties DEF Merge, MoreInGroup
    <2>3. monitor'.pc = "unlink" /\ monitor'.tag = monitor.tag
          /\ monitor'.pos = monitor.pos
      BY <1>13, <1>14 DEF Merge, MonitorStates
    <2> QED
      BY <1>14, <2>2, <2>3 DEF Merge
  <1>15. ASSUME Unlink
         PROVE  LocksInv' /\ PositionOK'
    <2>1. monitor'.pc = "open" /\ monitor'.tag = monitor.tag
          /\ monitor'.pos = monitor.pos
      BY <1>13, <1>15 DEF Unlink, MonitorStates
    <2>2. \A h \in Handlers : handler'[h].pc = handler[h].pc
      BY <1>0, <1>15 DEF Unlink, HandlerStates
    <2> QED
      BY <1>15, <2>1, <2>2 DEF Unlink
  <1>16. ASSUME OpenResult
         PROVE  LocksInv' /\ PositionOK'
    <2>1. monitor'.pc = "write" /\ monitor'.tag = monitor.tag
          /\ monitor'.pos = monitor.pos
      BY <1>13, <1>16 DEF OpenResult, MonitorStates
    <2> QED
      BY <1>16, <2>1 DEF OpenResult
  <1>17. ASSUME WriteResult
         PROVE  LocksInv' /\ PositionOK'
    <2>1. monitor'.pc = "merge"
      BY <1>13, <1>17 DEF WriteResult, MonitorStates
    <2> QED
      BY <1>17, <2>1 DEF WriteResult
  <1>18. ASSUME EndGroup
         PROVE  LocksInv' /\ PositionOK'
    <2>1. CASE monitor' = MonitorIdle /\ Unlock
      BY <1>18, <2>1 DEF EndGroup, Unlock, MonitorIdle
    <2>2. CASE StartGroup(monitor.data) /\ UNCHANGED <<engineLock, requestsLock>>
      <3>1. monitor.data \in SUBSET DOMAIN geo
        BY DEF TypeOK
      <3>2. monitor'.pc = "merge"
        BY <2>2, <3>1, StartGroupType
      <3> QED
        BY <1>18, <2>2, <3>2 DEF EndGroup
    <2> QED
      BY <1>18, <2>1, <2>2 DEF EndGroup
  <1>19. ASSUME LoseMemory
         PROVE  LocksInv' /\ PositionOK'
    BY <1>19 DEF LoseMemory, Unlock, Idle, HandlerAt, MonitorIdle
  <1>20. ASSUME Crash \/ Exit
         PROVE  LocksInv' /\ PositionOK'
    BY <1>19, <1>20 DEF Crash, Exit
  <1>21. ASSUME Restart
         PROVE  LocksInv' /\ PositionOK'
    BY <1>21 DEF Restart
  <1>22. ASSUME UNCHANGED volatile, service' = service \/ service' # "down"
         PROVE  LocksInv' /\ PositionOK'
    BY <1>22 DEF volatile
  <1>23. ASSUME NEW filter, PullDelete(filter)
         PROVE  LocksInv' /\ PositionOK'
    BY <1>22, <1>23 DEF PullDelete
  <1>24. ASSUME NEW i, MarkDone(i)
         PROVE  LocksInv' /\ PositionOK'
    BY <1>22, <1>24 DEF MarkDone
  <1>25. ASSUME Shutdown \/ UNCHANGED vars
         PROVE  LocksInv' /\ PositionOK'
    BY <1>22, <1>25 DEF Shutdown, vars, volatile
  <1> QED
    BY <1>1, <1>2, <1>3, <1>4, <1>5, <1>6, <1>7, <1>8, <1>9, <1>10, <1>12,
       <1>14, <1>15, <1>16, <1>17, <1>18, <1>20, <1>21, <1>23, <1>24, <1>25, <1>27, <1>28
    DEF Next, HandlerStep, MonitorStep

LEMMA TypesStep ==
  ASSUME TypeInv, [Next]_vars
  PROVE  TypeInv'
  <1>1. ASSUME UNCHANGED vars
        PROVE  TypeOK'
    BY <1>1 DEF TypeInv, TypeOK, vars, volatile, durable, history, bounds
  <1>2. ASSUME NEW h \in Handlers, (\E r \in Requests : Submit(h, r)) \/ HandlerStep(h)
        PROVE  TypeOK'
    BY <1>2, HandlerTypes
  <1>3. ASSUME MonitorStep
        PROVE  TypeOK'
    BY <1>3, MonitorTypes
  <1>4. TypeOK'
    BY <1>1, <1>2, <1>3, EnvironmentTypes DEF Next
  <1>5. LocksInv' /\ PositionOK'
    BY LocksStep
  <1>6. (TypeOK /\ LocksInv => LockDiscipline)'
    BY NoCircle, PTL
  <1> QED
    BY <1>4, <1>5, <1>6 DEF TypeInv

-------------------------------------------------------------------------------
\* The variables keep the shape of the code's dictionaries, files and rows.
THEOREM TypeCorrect == Spec => []TypeOK
  <1>1. Init => TypeInv
    BY InitTypes
  <1>2. TypeInv /\ [Next]_vars => TypeInv'
    BY TypesStep
  <1>3. TypeInv => TypeOK
    BY DEF TypeInv
  <1> QED
    BY <1>1, <1>2, <1>3, PTL DEF Spec

\* engine_lock_ and requests_lock_ are held exactly where the code says, and among the
\* threads that wait for them no circle closes, whatever their number.
THEOREM LocksAreDisciplined == Spec => []LockDiscipline
  <1>1. Init => TypeInv
    BY InitTypes
  <1>2. TypeInv /\ [Next]_vars => TypeInv'
    BY TypesStep
  <1>3. TypeInv => LockDiscipline
    BY DEF TypeInv
  <1> QED
    BY <1>1, <1>2, <1>3, PTL DEF Spec

-------------------------------------------------------------------------------
(* One admission at a time.  OneAdmission is not inductive.  A request is    *)
(* registered anew only when the monitor has removed its entry, so what must *)
(* be known is that then no file under its old id is left, and that the      *)
(* monitor removes entries only of requests nobody admits any more.          *)

Swaps == monitor.pc \in {"open", "write"}
AtEntry == monitor.pc \in {"unlink", "open", "write"}

\* A thread admits a request that is registered and that the monitor has not
\* completed, alone, and has not dumped it before it opens the dump.
TicketInv ==
  \A h \in Handlers : Admitting(h) =>
    /\ requests[handler[h].req].status \in {"RECIEVED", "REQUESTED"}
    /\ handler[h].pc # "write" => Original(handler[h].req) \notin DOMAIN dump
    /\ \A k \in Handlers \ {h} :
         Admitting(k) => handler[k].req # handler[h].req

\* The entry the monitor works on is registered and its csv joined.  Once it is
\* unlinked it is not dumped under the old id again and nobody admits it.
EntryInv ==
  /\ AtEntry => Registered(Current) /\ requests[Current].joins # <<>>
  /\ Swaps => /\ Original(Current) \notin DOMAIN dump
              /\ \A h \in Handlers : Admitting(h) => handler[h].req # Current

\* A dumped request under its old id is registered while the process runs, and
\* is never a completed one.
DumpInv ==
  \A r \in Requests : Original(r) \in DOMAIN dump =>
    /\ Running => Registered(r)
    /\ dump[Original(r)].status # "COMPLETED"

\* A process that is down has no threads.
DownInv == service = "down" => \A h \in Handlers : handler[h].pc = "idle"

AdmissionInv == TypeInv /\ TicketInv /\ EntryInv /\ DumpInv /\ DownInv

\* An id under which a request arrives is never that of a joined csv.
LEMMA OriginalIs ==
  /\ \A r, q \in Requests : Original(r) = Original(q) => r = q
  /\ \A r, q \in Requests : Result(r) = Original(q) => requests[r].joins = <<>>
  <1>1. ASSUME NEW r \in Requests, NEW q \in Requests, Original(r) = Original(q)
        PROVE  r = q
    <2>1. Original(r).req = r /\ Original(q).req = q
      BY DEF Original
    <2> QED
      BY <1>1, <2>1
  <1>2. ASSUME NEW r \in Requests, NEW q \in Requests, Result(r) = Original(q)
        PROVE  requests[r].joins = <<>>
    <2>1. Result(r).joins = requests[r].joins /\ Original(q).joins = <<>>
      BY DEF Original, Result
    <2> QED
      BY <1>2, <2>1
  <1> QED
    BY <1>1, <1>2

\* A thread changes only what it is doing itself.
LEMMA EntryKept ==
  ASSUME AdmissionInv, UNCHANGED <<active, monitor>>,
         AtEntry => /\ requests'[Current].status # "UNKNOWN"
                    /\ requests'[Current].joins # <<>>,
         Swaps => /\ Original(Current) \notin DOMAIN dump'
                  /\ \A h \in Handlers : Admitting(h)' => handler'[h].req # Current
  PROVE  EntryInv'
  <1>1. Current' = Current /\ AtEntry' = AtEntry /\ Swaps' = Swaps
    BY DEF Current, AtEntry, Swaps
  <1>2. Original(Current)' = Original(Current)
    BY <1>1 DEF Original
  <1> QED
    BY <1>1, <1>2 DEF EntryInv, Registered

LEMMA RegisterAdmission ==
  ASSUME AdmissionInv, NEW h \in Handlers, Register(h)
  PROVE  TicketInv' /\ EntryInv' /\ DumpInv' /\ DownInv'
  <1> DEFINE r == handler[h].req
  <1>6. r \in Requests
    BY DEF AdmissionInv, TypeInv, TypeOK, HandlerStates
  <1>1. handler \in [Handlers -> HandlerStates] /\ requests \in [Requests -> Objects]
        /\ \A k \in Handlers : handler[k].req \in Requests
    BY DEF AdmissionInv, TypeInv, TypeOK, HandlerStates
  <1>2. Running /\ service' = service /\ service # "down"
        /\ UNCHANGED <<active, monitor, dump>>
    BY DEF Register, durable, Running
  <1>3. AtEntry => Current \in Requests
    BY CurrentType DEF AtEntry, AdmissionInv
  <1>7. \/ /\ Registered(r) /\ handler' = [handler EXCEPT ![h] = Idle(r, "duplicate")]
           /\ UNCHANGED requests
        \/ /\ ~Registered(r)
           /\ requests' = [requests EXCEPT ![r] = Received]
           /\ handler' = [handler EXCEPT ![h] = HandlerAt("registered", r, "none")]
    BY DEF Register
  <1> HIDE DEF r
  <1>4. CASE Registered(r) /\ handler' = [handler EXCEPT ![h] = Idle(r, "duplicate")]
             /\ UNCHANGED requests
    <2>1. ~Admitting(h)'
      BY <1>1, <1>4 DEF Admitting, Idle, HandlerAt
    <2>2. \A k \in Handlers \ {h} : handler'[k] = handler[k]
      BY <1>1, <1>4
    <2>3. \A k \in Handlers : Admitting(k)' => Admitting(k) /\ handler'[k] = handler[k]
      BY <2>1, <2>2 DEF Admitting
    <2>4. TicketInv'
      BY <1>2, <1>4, <2>3 DEF AdmissionInv, TicketInv, Original
    <2>5. EntryInv'
      BY <1>2, <1>4, <2>3, EntryKept DEF AdmissionInv, EntryInv, Registered
    <2>6. DumpInv'
      BY <1>2, <1>4 DEF AdmissionInv, DumpInv, Running, Registered, Original
    <2>7. DownInv'
      BY <1>2 DEF DownInv
    <2> QED
      BY <2>4, <2>5, <2>6, <2>7
  <1>5. CASE ~Registered(r)
             /\ requests' = [requests EXCEPT ![r] = Received]
             /\ handler' = [handler EXCEPT ![h] = HandlerAt("registered", r, "none")]
    <2>1. handler'[h].pc = "registered" /\ handler'[h].req = r
      BY <1>1, <1>5 DEF HandlerAt
    <2>2. \A k \in Handlers \ {h} : handler'[k] = handler[k]
      BY <1>1, <1>5
    <2>3. requests'[r].status = "RECIEVED"
          /\ \A q \in Requests \ {r} : requests'[q] = requests[q]
      BY <1>1, <1>5, <1>6 DEF Received
    <2>4. \A k \in Handlers \ {h} : Admitting(k)' =>
            Admitting(k) /\ handler[k].req \in Requests \ {r}
      BY <1>1, <1>5, <2>2 DEF Admitting, AdmissionInv, TicketInv, Registered
    <2>5. Original(r) \notin DOMAIN dump
      BY <1>2, <1>5, <1>6 DEF AdmissionInv, DumpInv
    <2>6. TicketInv'
      <3> SUFFICES ASSUME NEW k \in Handlers, Admitting(k)'
                   PROVE  /\ requests'[handler'[k].req].status \in {"RECIEVED", "REQUESTED"}
                          /\ handler'[k].pc # "write" =>
                               Original(handler'[k].req) \notin DOMAIN dump'
                          /\ \A j \in Handlers \ {k} :
                               Admitting(j)' => handler'[j].req # handler'[k].req
        BY DEF TicketInv, Original
      <3>1. CASE k = h
        BY <1>2, <2>1, <2>2, <2>3, <2>4, <2>5, <3>1
      <3>2. CASE k # h
        <4>1. Admitting(k) /\ handler'[k] = handler[k] /\ handler[k].req \in Requests \ {r}
          BY <2>2, <2>4, <3>2
        <4>2. requests'[handler[k].req] = requests[handler[k].req]
          BY <2>3, <4>1
        <4>3. \A j \in Handlers \ {k} : Admitting(j)' => handler'[j].req # handler[k].req
          BY <2>1, <2>2, <2>4, <4>1 DEF AdmissionInv, TicketInv
        <4> QED
          BY <1>2, <4>1, <4>2, <4>3 DEF AdmissionInv, TicketInv
      <3> QED
        BY <3>1, <3>2
    <2>7. AtEntry => Current # r
      BY <1>5 DEF AdmissionInv, EntryInv
    <2>8. EntryInv'
      <3>1. AtEntry => requests'[Current] = requests[Current]
        BY <1>3, <2>3, <2>7
      <3>2. ASSUME Swaps, NEW k \in Handlers, Admitting(k)'
            PROVE  handler'[k].req # Current
        BY <2>1, <2>2, <2>4, <2>7, <3>2 DEF AdmissionInv, EntryInv, Swaps, AtEntry
      <3>3. AtEntry => requests'[Current].status # "UNKNOWN" /\ requests'[Current].joins # <<>>
        BY <3>1 DEF AdmissionInv, EntryInv, Registered
      <3>4. Swaps => Original(Current) \notin DOMAIN dump'
        BY <1>2 DEF AdmissionInv, EntryInv
      <3> QED
        BY <1>2, <3>2, <3>3, <3>4, EntryKept
    <2>9. DumpInv'
      <3>1. \A q \in Requests : Registered(q) => requests'[q].status # "UNKNOWN"
        BY <2>3 DEF Registered
      <3> QED
        BY <1>2, <3>1 DEF AdmissionInv, DumpInv, Running, Registered, Original
    <2>10. DownInv'
      BY <1>2 DEF DownInv
    <2> QED
      BY <2>6, <2>8, <2>9, <2>10
  <1> QED
    BY <1>4, <1>5, <1>7

\* A step that changes neither requests_ nor dump_dir and lets no thread start
\* to admit a request, and in which the monitor stays at its entry or at none.
LEMMA FrameAdmission ==
  ASSUME AdmissionInv, UNCHANGED <<requests, dump>>,
         service' = service \/ (service' # "down" /\ service # "down"),
         \A k \in Handlers : Admitting(k)' =>
           /\ Admitting(k) /\ handler'[k].req = handler[k].req
           /\ handler'[k].pc # "write" => handler[k].pc # "write",
         service' = "down" => \A k \in Handlers : handler'[k].pc = "idle",
         UNCHANGED <<active, monitor>> \/ monitor'.pc \in {"idle", "locking", "merge"}
  PROVE  TicketInv' /\ EntryInv' /\ DumpInv' /\ DownInv'
  <1>1. TicketInv'
    BY DEF AdmissionInv, TicketInv, Original
  <1>2. ASSUME UNCHANGED <<active, monitor>>
        PROVE  EntryInv'
    BY <1>2, EntryKept DEF AdmissionInv, EntryInv, Registered
  <1>3. ASSUME monitor'.pc \in {"idle", "locking", "merge"}
        PROVE  EntryInv'
    BY <1>3 DEF EntryInv, AtEntry, Swaps
  <1>4. DumpInv'
    BY DEF AdmissionInv, DumpInv, Running, Registered, Original
  <1>5. DownInv'
    BY DEF DownInv
  <1> QED
    BY <1>1, <1>2, <1>3, <1>4, <1>5

\* A call that only asks for the lock.
LEMMA SubmitAdmission ==
  ASSUME AdmissionInv, NEW h \in Handlers, NEW r \in Requests, Submit(h, r)
  PROVE  TicketInv' /\ EntryInv' /\ DumpInv' /\ DownInv'
  <1>1. handler \in [Handlers -> HandlerStates]
    BY DEF AdmissionInv, TypeInv, TypeOK
  <1>2. /\ UNCHANGED <<requests, dump, active, monitor, service>> /\ service # "down"
    BY DEF Submit, durable, Running
  <1>3. \A k \in Handlers : Admitting(k)' => Admitting(k) /\ handler'[k] = handler[k]
    BY <1>1 DEF Submit, HandlerAt, Admitting
  <1> QED
    BY <1>2, <1>3, FrameAdmission

\* The steps of an admission between registering and dumping the request.
LEMMA InsertAdmission ==
  ASSUME AdmissionInv, NEW h \in Handlers,
         \/ RejectCSV(h) \/ LockEngine(h) \/ InsertChunk(h) \/ InsertChunkShort(h)
         \/ InsertChunkError(h) \/ Activate(h)
  PROVE  TicketInv' /\ EntryInv' /\ DumpInv' /\ DownInv'
  <1>1. handler \in [Handlers -> HandlerStates]
    BY DEF AdmissionInv, TypeInv, TypeOK
  <1>2. UNCHANGED <<requests, dump>> /\ service' = service /\ service # "down"
    BY DEF RejectCSV, LockEngine, InsertChunk, InsertChunkShort, InsertChunkError,
           Activate, Inserting, Running, durable
  <1>3. /\ \A k \in Handlers \ {h} : handler'[k] = handler[k]
        /\ Admitting(h)' => /\ Admitting(h) /\ handler'[h].req = handler[h].req
                            /\ handler[h].pc # "write"
    <2>1. CASE RejectCSV(h)
      BY <1>1, <2>1 DEF RejectCSV, Idle, HandlerAt, Admitting
    <2>2. CASE LockEngine(h)
      BY <1>1, <2>2 DEF LockEngine, Admitting, HandlerStates
    <2>3. CASE InsertChunk(h)
      BY <1>1, <2>3 DEF InsertChunk, Inserting, Admitting, HandlerStates
    <2>4. CASE InsertChunkShort(h)
      BY <1>1, <2>4 DEF InsertChunkShort, Inserting, Admitting, HandlerStates
    <2>5. CASE InsertChunkError(h)
      BY <1>1, <2>5 DEF InsertChunkError, Idle, HandlerAt, Admitting
    <2>6. CASE Activate(h)
      BY <1>1, <2>6 DEF Activate, Inserting, Idle, HandlerAt, Admitting
    <2> QED
      BY <2>1, <2>2, <2>3, <2>4, <2>5, <2>6
  <1>4. \A k \in Handlers : Admitting(k)' =>
          /\ Admitting(k) /\ handler'[k].req = handler[k].req
          /\ handler'[k].pc # "write" => handler[k].pc # "write"
    BY <1>3 DEF Admitting
  <1>5. UNCHANGED <<active, monitor>> \/ monitor'.pc \in {"idle", "locking", "merge"}
    <2>1. CASE Activate(h)
      <3>1. engineLock = h /\ h # "monitor" /\ monitor' = monitor
        BY <2>1, GeocoderAssumption
        DEF Activate, Inserting, AdmissionInv, TypeInv, LockDiscipline
      <3> QED
        BY <3>1 DEF AdmissionInv, TypeInv, LockDiscipline
    <2> QED
      BY <2>1 DEF RejectCSV, LockEngine, InsertChunk, InsertChunkShort,
                  InsertChunkError
  <1> QED
    BY <1>2, <1>4, <1>5, FrameAdmission

LEMMA OpenDumpAdmission ==
  ASSUME AdmissionInv, NEW h \in Handlers, OpenDump(h)
  PROVE  TicketInv' /\ EntryInv' /\ DumpInv' /\ DownInv'
  <1> DEFINE r == handler[h].req
  <1>1. /\ handler \in [Handlers -> HandlerStates]
        /\ requests \in [Requests -> Objects]
        /\ \A k \in Handlers : handler[k].req \in Requests
    BY DEF AdmissionInv, TypeInv, TypeOK, HandlerStates
  <1>2. /\ Admitting(h) /\ service' = service /\ service # "down"
        /\ UNCHANGED <<active, monitor>>
    BY DEF OpenDump, Running, Admitting
  <1>3. handler'[h].req = r /\ handler'[h].pc = "write"
        /\ \A k \in Handlers \ {h} : handler'[k] = handler[k]
    BY <1>1 DEF OpenDump, HandlerStates
  <1>4. /\ requests'[r].status = "REQUESTED"
        /\ requests'[r].joins = requests[r].joins
        /\ \A q \in Requests \ {r} : requests'[q] = requests[q]
    BY <1>1 DEF OpenDump, Objects
  <1>5. /\ DOMAIN dump' = DOMAIN dump \cup {Original(r)}
        /\ dump'[Original(r)].status = "UNKNOWN"
        /\ \A n \in DOMAIN dump : n # Original(r) => dump'[n] = dump[n]
    <2>1. dump' = Put(dump, Original(r), Empty(Original(r)))
      BY DEF OpenDump
    <2>2. Empty(Original(r)).status = "UNKNOWN"
      BY DEF Empty
    <2> DEFINE d == Put(dump, Original(r), Empty(Original(r)))
    <2>3. /\ DOMAIN d = DOMAIN dump \cup {Original(r)}
          /\ d[Original(r)] = Empty(Original(r))
          /\ \A n \in DOMAIN dump : n # Original(r) => d[n] = dump[n]
      BY DEF Put
    <2>4. dump' = d
      BY <2>1
    <2> HIDE DEF d
    <2> QED
      BY <2>2, <2>3, <2>4
  <1> HIDE DEF r
  <1>6. r \in Requests /\ r = handler[h].req
    BY <1>1 DEF r
  <1>7. \A k \in Handlers \ {h} : Admitting(k)' =>
          Admitting(k) /\ handler[k].req \in Requests \ {r}
    BY <1>1, <1>2, <1>3, <1>6 DEF Admitting, AdmissionInv, TicketInv
  <1>8. TicketInv'
    <2> SUFFICES ASSUME NEW k \in Handlers, Admitting(k)'
                 PROVE  /\ requests'[handler'[k].req].status \in {"RECIEVED", "REQUESTED"}
                        /\ handler'[k].pc # "write" =>
                             Original(handler'[k].req) \notin DOMAIN dump'
                        /\ \A j \in Handlers \ {k} :
                             Admitting(j)' => handler'[j].req # handler'[k].req
      BY DEF TicketInv, Original
    <2>1. CASE k = h
      BY <1>3, <1>4, <1>7, <2>1
    <2>2. CASE k # h
      <3>1. Admitting(k) /\ handler'[k] = handler[k] /\ handler[k].req \in Requests \ {r}
        BY <1>3, <1>7, <2>2
      <3>2. requests'[handler[k].req] = requests[handler[k].req]
        BY <1>4, <3>1
      <3>3. Original(handler[k].req) # Original(r)
        BY <1>6, <3>1, OriginalIs
      <3>4. \A j \in Handlers \ {k} : Admitting(j)' => handler'[j].req # handler[k].req
        BY <1>3, <1>7, <3>1 DEF AdmissionInv, TicketInv
      <3> QED
        BY <1>5, <3>1, <3>2, <3>3, <3>4 DEF AdmissionInv, TicketInv
    <2> QED
      BY <2>1, <2>2
  <1>9. EntryInv'
    <2>1. AtEntry => Current \in Requests
      BY CurrentType DEF AtEntry, AdmissionInv
    <2>2. Swaps => Current # r
      BY <1>2, <1>6 DEF AdmissionInv, EntryInv
    <2>3. AtEntry => requests'[Current].status # "UNKNOWN" /\ requests'[Current].joins # <<>>
      BY <1>4, <2>1 DEF AdmissionInv, EntryInv, Registered
    <2>4. Swaps => Original(Current) \notin DOMAIN dump'
      <3>1. Swaps => AtEntry
        BY DEF Swaps, AtEntry
      <3> QED
        BY <1>5, <1>6, <2>1, <2>2, <3>1, OriginalIs DEF AdmissionInv, EntryInv
    <2>5. Swaps => \A k \in Handlers : Admitting(k)' => handler'[k].req # Current
      BY <1>3, <1>7, <2>2 DEF AdmissionInv, EntryInv
    <2> QED
      BY <1>2, <2>3, <2>4, <2>5, EntryKept
  <1>10. DumpInv'
    <2> SUFFICES ASSUME NEW q \in Requests, Original(q) \in DOMAIN dump'
                 PROVE  requests'[q].status # "UNKNOWN"
                        /\ dump'[Original(q)].status # "COMPLETED"
      BY DEF DumpInv, Registered, Original
    <2>1. CASE q = r
      BY <1>4, <1>5, <2>1
    <2>2. CASE q # r
      <3>1. Original(q) # Original(r) /\ Original(q) \in DOMAIN dump
        BY <1>5, <1>6, <2>2, OriginalIs
      <3>2. requests'[q] = requests[q] /\ dump'[Original(q)] = dump[Original(q)]
        BY <1>4, <1>5, <2>2, <3>1
      <3> QED
        BY <1>2, <3>1, <3>2 DEF AdmissionInv, DumpInv, Running, Registered
    <2> QED
      BY <2>1, <2>2
  <1>11. DownInv'
    BY <1>2 DEF DownInv
  <1> QED
    BY <1>8, <1>9, <1>10, <1>11

LEMMA WriteDumpAdmission ==
  ASSUME AdmissionInv, NEW h \in Handlers, WriteDump(h)
  PROVE  TicketInv' /\ EntryInv' /\ DumpInv' /\ DownInv'
  <1> DEFINE r == handler[h].req
  <1>1. /\ handler \in [Handlers -> HandlerStates]
        /\ \A k \in Handlers : handler[k].req \in Requests
    BY DEF AdmissionInv, TypeInv, TypeOK, HandlerStates
  <1>2. /\ service' = service /\ service # "down"
        /\ UNCHANGED <<active, monitor, requests>>
    BY DEF WriteDump, Running
  <1>3. /\ \A k \in Handlers : Admitting(k)' => Admitting(k) /\ k # h
        /\ \A k \in Handlers \ {h} : handler'[k] = handler[k]
    BY <1>1 DEF WriteDump, Idle, HandlerAt, Admitting
  <1>4. CASE ~handler[h].linked
    <2>1. UNCHANGED <<requests, dump>>
      BY <1>4 DEF WriteDump
    <2> QED
      BY <1>2, <1>3, <2>1, FrameAdmission
  <1>5. CASE handler[h].linked
    <2>1. Admitting(h)
      BY <1>5 DEF Admitting, WriteDump
    <2>2. /\ DOMAIN dump' = DOMAIN dump \cup {Original(r)}
          /\ dump'[Original(r)].status = requests[r].status
          /\ \A n \in DOMAIN dump : n # Original(r) => dump'[n] = dump[n]
      <3> DEFINE file == [status |-> requests[r].status,
                          data |-> [req |-> r, joins |-> requests[r].joins]]
      <3>1. dump' = Put(dump, Original(r), file)
        BY <1>5 DEF WriteDump
      <3>2. file.status = requests[r].status
        OBVIOUS
      <3> HIDE DEF file
      <3> DEFINE d == Put(dump, Original(r), file)
      <3>3. /\ DOMAIN d = DOMAIN dump \cup {Original(r)}
            /\ d[Original(r)] = file
            /\ \A n \in DOMAIN dump : n # Original(r) => d[n] = dump[n]
        BY DEF Put
      <3>4. dump' = d
        BY <3>1
      <3> HIDE DEF d
      <3> QED
        BY <3>2, <3>3, <3>4
    <2> HIDE DEF r
    <2>3. r \in Requests /\ r = handler[h].req
      BY <1>1 DEF r
    <2>4. requests[r].status \in {"RECIEVED", "REQUESTED"}
      BY <2>1, <2>3 DEF AdmissionInv, TicketInv
    <2>5. TicketInv'
      <3> SUFFICES ASSUME NEW k \in Handlers, Admitting(k)'
                   PROVE  /\ requests[handler[k].req].status \in {"RECIEVED", "REQUESTED"}
                          /\ handler[k].pc # "write" =>
                               Original(handler[k].req) \notin DOMAIN dump'
                          /\ \A j \in Handlers \ {k} :
                               Admitting(j)' => handler[j].req # handler[k].req
        BY <1>2, <1>3 DEF TicketInv, Original
      <3>1. Admitting(k) /\ handler[k].req # r
        BY <1>3, <2>1, <2>3 DEF AdmissionInv, TicketInv
      <3>2. Original(handler[k].req) # Original(r)
        BY <1>1, <2>3, <3>1, OriginalIs
      <3> QED
        BY <1>3, <2>2, <3>1, <3>2 DEF AdmissionInv, TicketInv
    <2>6. EntryInv'
      <3>1. Swaps => AtEntry /\ Current \in Requests /\ Current # r
        BY <2>1, <2>3, CurrentType DEF Swaps, AtEntry, AdmissionInv, EntryInv
      <3>2. Swaps => Original(Current) \notin DOMAIN dump'
        BY <2>2, <2>3, <3>1, OriginalIs DEF AdmissionInv, EntryInv
      <3>3. Swaps => \A k \in Handlers : Admitting(k)' => handler'[k].req # Current
        BY <1>3 DEF AdmissionInv, EntryInv
      <3>4. AtEntry => requests'[Current].status # "UNKNOWN" /\ requests'[Current].joins # <<>>
        BY <1>2 DEF AdmissionInv, EntryInv, Registered
      <3> QED
        BY <1>2, <3>2, <3>3, <3>4, EntryKept
    <2>7. DumpInv'
      <3> SUFFICES ASSUME NEW q \in Requests, Original(q) \in DOMAIN dump'
                   PROVE  requests[q].status # "UNKNOWN"
                          /\ dump'[Original(q)].status # "COMPLETED"
        BY <1>2 DEF DumpInv, Registered, Original
      <3>1. CASE q = r
        BY <2>2, <2>4, <3>1
      <3>2. CASE q # r
        <4>1. Original(q) # Original(r) /\ Original(q) \in DOMAIN dump
          BY <2>2, <2>3, <3>2, OriginalIs
        <4> QED
          BY <1>2, <2>2, <4>1 DEF AdmissionInv, DumpInv, Running, Registered
      <3> QED
        BY <3>1, <3>2
    <2>8. DownInv'
      BY <1>2 DEF DownInv
    <2> QED
      BY <2>5, <2>6, <2>7, <2>8
  <1> QED
    BY <1>4, <1>5

\* The monitor takes, gives up or leaves a group.
LEMMA TurnAdmission ==
  ASSUME AdmissionInv, Poll \/ LockRequests \/ MergeMissing \/ UnlinkMissing \/ EndGroup
  PROVE  TicketInv' /\ EntryInv' /\ DumpInv' /\ DownInv'
  <1>1. /\ UNCHANGED <<requests, dump, handler, service>>
        /\ service # "down"
    BY DEF Poll, LockRequests, MergeMissing, UnlinkMissing, EndGroup, Running, durable
  <1>2. \A k \in Handlers : Admitting(k)' => Admitting(k)
    BY <1>1 DEF Admitting
  <1>3. monitor.data \in SUBSET DOMAIN geo
    BY DEF AdmissionInv, TypeInv, TypeOK
  <1>4. TypeInv
    BY DEF AdmissionInv
  <1>5. \A data \in SUBSET DOMAIN geo : StartGroup(data) => monitor'.pc = "merge"
    BY <1>4, StartGroupType DEF TypeInv
  <1>6. monitor'.pc \in {"idle", "locking", "merge"}
    <2>1. CASE Poll
      BY <2>1 DEF Poll, MonitorIdle
    <2>2. CASE ~Poll
      BY <1>3, <1>5, <2>2
      DEF LockRequests, MergeMissing, UnlinkMissing, EndGroup, AbortTurn, MonitorIdle
    <2> QED
      BY <2>1, <2>2
  <1> QED
    BY <1>1, <1>2, <1>6, FrameAdmission

LEMMA MergeAdmission ==
  ASSUME AdmissionInv, Merge
  PROVE  TicketInv' /\ EntryInv' /\ DumpInv' /\ DownInv'
  <1>1. /\ requests \in [Requests -> Objects] /\ monitor \in MonitorStates
        /\ \A k \in Handlers : handler[k].req \in Requests
    BY DEF AdmissionInv, TypeInv, TypeOK, HandlerStates
  <1>2. /\ UNCHANGED <<active, handler, dump, service>> /\ service # "down"
        /\ Registered(Current)
    BY DEF Merge, Running, durable
  <1>3. Current \in Requests
    BY CurrentType DEF Merge, AdmissionInv
  <1>4. monitor'.pc = "unlink" /\ Current' = Current
    BY <1>1 DEF Merge, MonitorStates, Current
  <1>5. /\ \A q \in Requests : requests'[q].status = requests[q].status
        /\ requests'[Current].joins = Joined(requests[Current].joins, Matches(Current))
    BY <1>1, <1>3 DEF Merge, Objects
  <1>6. requests[Current].joins \in Seq(Mappings)
    BY <1>1, <1>3 DEF Objects
  <1>7. Joined(requests[Current].joins, Matches(Current)) # <<>>
    <2>1. Len(requests[Current].joins) \in Nat
      BY <1>6, LenProperties
    <2>2. Append(requests[Current].joins, Matches(Current)) # <<>>
      <3>1. Matches(Current) \in Mappings
        BY <1>3, MatchesType DEF AdmissionInv, TypeInv
      <3> QED
        BY <1>6, <3>1, AppendProperties, EmptySeq
    <2>3. CASE Len(requests[Current].joins) < MaxJoins
      BY <2>2, <2>3 DEF Joined
    <2>4. CASE ~(Len(requests[Current].joins) < MaxJoins)
      <3>1. Len(requests[Current].joins) # 0
        BY <2>1, <2>4, GeocoderAssumption
      <3> QED
        BY <2>4, <3>1, EmptySeq DEF Joined
    <2> QED
      BY <2>3, <2>4
  <1>8. TicketInv'
    BY <1>1, <1>2, <1>5 DEF AdmissionInv, TicketInv, Admitting, Original
  <1>9. EntryInv'
    BY <1>2, <1>3, <1>4, <1>5, <1>7 DEF EntryInv, AtEntry, Swaps, Registered
  <1>10. DumpInv'
    BY <1>2, <1>5 DEF AdmissionInv, DumpInv, Running, Registered, Original
  <1>11. DownInv'
    BY <1>2 DEF DownInv
  <1> QED
    BY <1>8, <1>9, <1>10, <1>11

\* Unlinking the file under the old id leaves no thread that admits the request:
\* one that has not opened its file would have left none to unlink, and one
\* that has it open now writes into an unlinked file.
LEMMA UnlinkAdmission ==
  ASSUME AdmissionInv, Unlink
  PROVE  TicketInv' /\ EntryInv' /\ DumpInv' /\ DownInv'
  <1> DEFINE r == Current
  <1>1. /\ handler \in [Handlers -> HandlerStates]
        /\ requests \in [Requests -> Objects] /\ monitor \in MonitorStates
        /\ \A k \in Handlers : handler[k].req \in Requests
    BY DEF AdmissionInv, TypeInv, TypeOK, HandlerStates
  <1>2. r \in Requests
    BY CurrentType DEF Unlink, AdmissionInv
  <1>3. /\ UNCHANGED <<active, service>> /\ service # "down"
        /\ Original(r) \in DOMAIN dump
    BY DEF Unlink, Running
  <1>4. monitor'.pc = "open" /\ Current' = r
    BY <1>1 DEF Unlink, MonitorStates, Current
  <1>5. /\ requests'[r].status = "COMPLETED"
        /\ requests'[r].joins = requests[r].joins
        /\ \A q \in Requests \ {r} : requests'[q] = requests[q]
    BY <1>1, <1>2 DEF Unlink, Objects
  <1>6. /\ DOMAIN dump' = DOMAIN dump \ {Original(r)}
        /\ \A n \in DOMAIN dump' : dump'[n] = dump[n]
    BY DEF Unlink, Without
  <1>7. \A k \in Handlers :
          /\ handler'[k].pc = handler[k].pc /\ handler'[k].req = handler[k].req
          /\ handler'[k].linked => handler[k].linked
          /\ handler[k].pc = "write" /\ handler[k].req = r => ~handler'[k].linked
    BY <1>1 DEF Unlink, HandlerStates
  <1>8. requests[r].joins # <<>>
    BY DEF AdmissionInv, EntryInv, AtEntry, Unlink
  <1> HIDE DEF r
  <1>9. \A k \in Handlers : Admitting(k)' => Admitting(k) /\ handler[k].req # r
    <2> SUFFICES ASSUME NEW k \in Handlers, Admitting(k)'
                 PROVE  Admitting(k) /\ handler[k].req # r
      OBVIOUS
    <2>1. Admitting(k)
      BY <1>7 DEF Admitting
    <2>2. CASE handler[k].pc = "write"
      BY <1>7, <2>1, <2>2 DEF Admitting
    <2>3. CASE handler[k].pc # "write"
      BY <1>3, <2>1, <2>3 DEF AdmissionInv, TicketInv
    <2> QED
      BY <2>1, <2>2, <2>3
  <1>10. TicketInv'
    <2> SUFFICES ASSUME NEW k \in Handlers, Admitting(k)'
                 PROVE  /\ requests'[handler'[k].req].status \in {"RECIEVED", "REQUESTED"}
                        /\ handler'[k].pc # "write" =>
                             Original(handler'[k].req) \notin DOMAIN dump'
                        /\ \A j \in Handlers \ {k} :
                             Admitting(j)' => handler'[j].req # handler'[k].req
      BY DEF TicketInv, Original
    <2>1. Admitting(k) /\ handler[k].req \in Requests \ {r}
      BY <1>1, <1>9
    <2>2. requests'[handler[k].req] = requests[handler[k].req]
      BY <1>5, <2>1
    <2> QED
      BY <1>6, <1>7, <1>9, <2>1, <2>2 DEF AdmissionInv, TicketInv
  <1>11. EntryInv'
    <2>2. /\ r = Current' /\ requests'[r].joins # <<>>
          /\ requests'[r].status # "UNKNOWN" /\ Original(r) \notin DOMAIN dump'
      BY <1>4, <1>5, <1>6, <1>8
    <2>3. \A k \in Handlers : Admitting(k)' => handler'[k].req # r
      BY <1>7, <1>9
    <2>4. Original(Current)' = Original(r)
      BY <2>2 DEF Original
    <2> QED
      BY <2>2, <2>3, <2>4 DEF EntryInv, Registered
  <1>12. DumpInv'
    <2> SUFFICES ASSUME NEW q \in Requests, Original(q) \in DOMAIN dump'
                 PROVE  requests'[q].status # "UNKNOWN"
                        /\ dump'[Original(q)].status # "COMPLETED"
      BY DEF DumpInv, Registered, Original
    <2>1. Original(q) \in DOMAIN dump /\ q # r
      BY <1>6
    <2>2. requests'[q] = requests[q] /\ dump'[Original(q)] = dump[Original(q)]
      BY <1>5, <1>6, <2>1
    <2> QED
      BY <1>3, <2>1, <2>2 DEF AdmissionInv, DumpInv, Running, Registered
  <1>13. DownInv'
    BY <1>3 DEF DownInv
  <1> QED
    BY <1>10, <1>11, <1>12, <1>13

LEMMA OpenResultAdmission ==
  ASSUME AdmissionInv, OpenResult
  PROVE  TicketInv' /\ EntryInv' /\ DumpInv' /\ DownInv'
  <1> DEFINE n == Result(Current)
  <1>1. /\ monitor \in MonitorStates
        /\ \A k \in Handlers : handler[k].req \in Requests
    BY DEF AdmissionInv, TypeInv, TypeOK, HandlerStates
  <1>2. /\ UNCHANGED <<active, handler, requests, service>> /\ service # "down"
        /\ AtEntry /\ Swaps
    BY DEF OpenResult, Running, AtEntry, Swaps
  <1>3. Current \in Requests
    BY <1>2, CurrentType DEF AtEntry, AdmissionInv
  <1>4. monitor'.pc = "write" /\ Current' = Current
    BY <1>1 DEF OpenResult, MonitorStates, Current
  <1>5. \A q \in Requests : n # Original(q)
    BY <1>2, <1>3, OriginalIs DEF AdmissionInv, EntryInv
  <1>6. /\ DOMAIN dump' = DOMAIN dump \cup {n}
        /\ \A m \in DOMAIN dump : m # n => dump'[m] = dump[m]
    <2> DEFINE d == Put(dump, n, Empty(n))
    <2>1. dump' = d
      BY DEF OpenResult
    <2>2. /\ DOMAIN d = DOMAIN dump \cup {n}
          /\ \A m \in DOMAIN dump : m # n => d[m] = dump[m]
      BY DEF Put
    <2> HIDE DEF d
    <2> QED
      BY <2>1, <2>2
  <1> HIDE DEF n
  <1>7. \A q \in Requests : Original(q) \in DOMAIN dump' =>
          Original(q) \in DOMAIN dump /\ dump'[Original(q)] = dump[Original(q)]
    BY <1>5, <1>6
  <1>8. TicketInv'
    BY <1>1, <1>2, <1>7 DEF AdmissionInv, TicketInv, Admitting, Original
  <1>9. EntryInv'
    <2>1. Original(Current)' = Original(Current)
      BY <1>4 DEF Original
    <2> QED
      BY <1>2, <1>3, <1>4, <1>7, <2>1
      DEF AdmissionInv, EntryInv, Registered, Admitting
  <1>10. DumpInv'
    BY <1>2, <1>7 DEF AdmissionInv, DumpInv, Running, Registered, Original
  <1>11. DownInv'
    BY <1>2 DEF DownInv
  <1> QED
    BY <1>8, <1>9, <1>10, <1>11

\* The monitor removes the registration: nobody admits the request and no file
\* is left under its old id.
LEMMA WriteResultAdmission ==
  ASSUME AdmissionInv, WriteResult
  PROVE  TicketInv' /\ EntryInv' /\ DumpInv' /\ DownInv'
  <1> DEFINE r == Current
             n == Result(Current)
  <1>1. /\ monitor \in MonitorStates /\ requests \in [Requests -> Objects]
        /\ \A k \in Handlers : handler[k].req \in Requests
    BY DEF AdmissionInv, TypeInv, TypeOK, HandlerStates
  <1>2. /\ UNCHANGED <<active, handler, service>> /\ service # "down"
        /\ AtEntry /\ Swaps
    BY DEF WriteResult, Running, AtEntry, Swaps
  <1>3. r \in Requests
    BY <1>2, CurrentType DEF AtEntry, AdmissionInv
  <1>4. monitor'.pc = "merge"
    BY <1>1 DEF WriteResult, MonitorStates
  <1>5. \A q \in Requests : n # Original(q)
    BY <1>2, <1>3, OriginalIs DEF AdmissionInv, EntryInv
  <1>6. /\ DOMAIN dump' = DOMAIN dump \cup {n}
        /\ \A m \in DOMAIN dump : m # n => dump'[m] = dump[m]
    <2> DEFINE d == Put(dump, n, [status |-> "COMPLETED", data |-> n])
    <2>1. dump' = d
      BY DEF WriteResult
    <2>2. /\ DOMAIN d = DOMAIN dump \cup {n}
          /\ \A m \in DOMAIN dump : m # n => d[m] = dump[m]
      BY DEF Put
    <2> HIDE DEF d
    <2> QED
      BY <2>1, <2>2
  <1>7. \A q \in Requests \ {r} : requests'[q] = requests[q]
    BY <1>1 DEF WriteResult
  <1>8. /\ Original(r) \notin DOMAIN dump
        /\ \A k \in Handlers : Admitting(k) => handler[k].req # r
    BY <1>2 DEF AdmissionInv, EntryInv
  <1> HIDE DEF n, r
  <1>9. \A q \in Requests : Original(q) \in DOMAIN dump' =>
          Original(q) \in DOMAIN dump /\ dump'[Original(q)] = dump[Original(q)]
    BY <1>5, <1>6
  <1>10. \A k \in Handlers : Admitting(k)' =>
           Admitting(k) /\ requests'[handler[k].req] = requests[handler[k].req]
    BY <1>1, <1>2, <1>7, <1>8 DEF Admitting
  <1>11. TicketInv'
    BY <1>1, <1>2, <1>9, <1>10 DEF AdmissionInv, TicketInv, Original
  <1>12. EntryInv'
    BY <1>4 DEF EntryInv, AtEntry, Swaps
  <1>13. DumpInv'
    <2> SUFFICES ASSUME NEW q \in Requests, Original(q) \in DOMAIN dump'
                 PROVE  requests'[q].status # "UNKNOWN"
                        /\ dump'[Original(q)].status # "COMPLETED"
      BY DEF DumpInv, Registered, Original
    <2>1. /\ Original(q) \in DOMAIN dump /\ q # r
          /\ dump'[Original(q)] = dump[Original(q)]
      BY <1>8, <1>9
    <2> QED
      BY <1>2, <1>7, <2>1 DEF AdmissionInv, DumpInv, Running, Registered
  <1>14. DownInv'
    BY <1>2 DEF DownInv
  <1> QED
    BY <1>11, <1>12, <1>13, <1>14

\* Files that go, and a process that comes or goes.
LEMMA EnvironmentAdmission ==
  ASSUME AdmissionInv,
         \/ \E filter \in {""} \cup {ClientTag[r] : r \in Requests} : PullDelete(filter)
         \/ \E i \in DOMAIN geo : MarkDone(i)
         \/ Crash \/ Shutdown \/ Exit \/ Restart
         \/ UNCHANGED vars
  PROVE  TicketInv' /\ EntryInv' /\ DumpInv' /\ DownInv'
  <1>1. ASSUME NEW filter, PullDelete(filter)
        PROVE  TicketInv' /\ EntryInv' /\ DumpInv' /\ DownInv'
    <2>1. UNCHANGED <<requests, active, handler, monitor, service>>
      BY <1>1 DEF PullDelete, volatile
    <2>2. /\ DOMAIN dump' \subseteq DOMAIN dump
          /\ \A n \in DOMAIN dump' : dump'[n] = dump[n]
      BY <1>1 DEF PullDelete, Without
    <2>3. TicketInv'
      BY <2>1, <2>2 DEF AdmissionInv, TicketInv, Admitting, Original
    <2>4. EntryInv'
      BY <2>1, <2>2, EntryKept DEF AdmissionInv, EntryInv, Registered, Admitting
    <2>5. DumpInv'
      BY <2>1, <2>2 DEF AdmissionInv, DumpInv, Running, Registered, Original
    <2>6. DownInv'
      BY <2>1 DEF AdmissionInv, DownInv
    <2> QED
      BY <2>3, <2>4, <2>5, <2>6
  <1>2. ASSUME UNCHANGED <<requests, active, handler, monitor, dump>>,
               service' = service \/ (service' # "down" /\ service # "down")
        PROVE  TicketInv' /\ EntryInv' /\ DumpInv' /\ DownInv'
    <2>1. \A k \in Handlers : Admitting(k)' => Admitting(k)
      BY <1>2 DEF Admitting
    <2>2. service' = "down" => \A k \in Handlers : handler'[k].pc = "idle"
      BY <1>2 DEF AdmissionInv, DownInv
    <2> QED
      BY <1>2, <2>1, <2>2, FrameAdmission
  <1>3. ASSUME (\E i \in DOMAIN geo : MarkDone(i)) \/ Shutdown \/ UNCHANGED vars
        PROVE  TicketInv' /\ EntryInv' /\ DumpInv' /\ DownInv'
    <2>1. /\ UNCHANGED <<requests, active, handler, monitor, dump>>
          /\ service' = service \/ (service' # "down" /\ service # "down")
      BY <1>3 DEF MarkDone, Shutdown, vars, volatile, durable
    <2> QED
      BY <1>2, <2>1
  <1>4. ASSUME Crash \/ Exit
        PROVE  TicketInv' /\ EntryInv' /\ DumpInv' /\ DownInv'
    <2>1. LoseMemory /\ dump' = dump
      BY <1>4 DEF Crash, Exit, durable
    <2>2. /\ service' = "down" /\ monitor'.pc = "idle"
          /\ \A k \in Handlers : handler'[k].pc = "idle"
      BY <2>1 DEF LoseMemory, MonitorIdle, Idle, HandlerAt
    <2>3. TicketInv' /\ EntryInv' /\ DownInv'
      BY <2>2 DEF TicketInv, Admitting, EntryInv, AtEntry, Swaps, DownInv
    <2>4. DumpInv'
      BY <2>1, <2>2 DEF AdmissionInv, DumpInv, Running, Original
    <2> QED
      BY <2>3, <2>4
  <1>5. ASSUME Restart
        PROVE  TicketInv' /\ EntryInv' /\ DumpInv' /\ DownInv'
    <2>1. /\ service = "down" /\ service' = "up"
          /\ UNCHANGED <<handler, monitor, dump>>
      BY <1>5 DEF Restart, durable
    <2>2. /\ monitor'.pc = "idle"
          /\ \A k \in Handlers : handler'[k].pc = "idle"
      BY <2>1 DEF AdmissionInv, TypeInv, PositionOK, DownInv
    <2>3. TicketInv' /\ EntryInv' /\ DownInv'
      BY <2>1, <2>2 DEF TicketInv, Admitting, EntryInv, AtEntry, Swaps, DownInv
    <2>4. \A q \in Requests : Original(q) \in DOMAIN dump =>
            /\ Original(q) \in Dropped
            /\ dump[Original(q)].status # "COMPLETED"
      BY DEF AdmissionInv, DumpInv, Dropped, Completed
    <2>5. \A q \in Requests : Original(q) \in Dropped => requests'[q].status = "REQUESTED"
      BY <1>5 DEF Restart
    <2>6. DumpInv'
      BY <2>1, <2>4, <2>5 DEF DumpInv, Registered, Original
    <2> QED
      BY <2>3, <2>6
  <1> QED
    BY <1>1, <1>3, <1>4, <1>5

LEMMA AdmissionInit == Init => AdmissionInv
  <1> SUFFICES ASSUME Init
               PROVE  AdmissionInv
    OBVIOUS
  <1>1. TypeInv
    BY InitTypes
  <1>2. /\ \A k \in Handlers : handler[k].pc = "idle"
        /\ monitor.pc = "idle" /\ DOMAIN dump = {}
    BY DEF Init, VolatileInit, Idle, HandlerAt, MonitorIdle
  <1> QED
    BY <1>1, <1>2
    DEF AdmissionInv, TicketInv, Admitting, EntryInv, AtEntry, Swaps, DumpInv, DownInv

LEMMA AdmissionStep ==
  ASSUME AdmissionInv, [Next]_vars
  PROVE  AdmissionInv'
  <1>1. TypeInv'
    BY TypesStep DEF AdmissionInv
  <1>2. TicketInv' /\ EntryInv' /\ DumpInv' /\ DownInv'
    BY SubmitAdmission, RegisterAdmission, InsertAdmission, OpenDumpAdmission, WriteDumpAdmission,
       TurnAdmission, MergeAdmission, UnlinkAdmission, OpenResultAdmission,
       WriteResultAdmission, EnvironmentAdmission
    DEF Next, HandlerStep, MonitorStep
  <1> QED
    BY <1>1, <1>2 DEF AdmissionInv

\* Two threads never admit one request, and the monitor does not remove the
\* registration of a request that a thread admits.
THEOREM AdmissionIsExclusive == Spec => []OneAdmission
  <1>1. Init => AdmissionInv
    BY AdmissionInit
  <1>2. AdmissionInv /\ [Next]_vars => AdmissionInv'
    BY AdmissionStep
  <1>3. AdmissionInv => OneAdmission
    BY DEF AdmissionInv, TicketInv, OneAdmission, Registered
  <1> QED
    BY <1>1, <1>2, <1>3, PTL DEF Spec

===============================================================================
