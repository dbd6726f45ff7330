------------------------- MODULE GeocoderPromiseProofs -------------------------
(***************************************************************************)
(* What the geocoding service promises its clients, for any handlers,      *)
(* requests, tags and bounds: a request that was accepted is not lost, no  *)
(* dumped request is forgotten by the running service, and a result is lost *)
(* only where a crash cuts the writing of an equal one.                    *)
(*                                                                         *)
(* The argument: the monitor may forget a tag because each entry it has    *)
(* passed in its turn has lost its registration, and nobody can register   *)
(* one of them again while it holds requests_lock_.  What it had to wait    *)
(* for with engine_lock_ in its hands does not matter: it reads the         *)
(* requests of a tag only when it has both.                                *)
(*                                                                         *)
(* Some of it needs more: that tags are distinct, that nothing fails, that *)
(* no crash cuts the rows of a csv in two.  What geocode() gets is at the  *)
(* end: a client polls for what the service knows, and its result is its   *)
(* own.                                                                    *)
(***************************************************************************)
EXTENDS GeocoderProofs, GeocoderClient

\* A request is noted under the tag its id has.
TagInv ==
  \A t \in Tags : \A i \in DOMAIN active[t] : GroupTag[active[t][i]] = t

\* The monitor is in finalize_geocoding_, with both locks.
InGroup == monitor.pc \in {"merge", "unlink", "open", "write"}

\* The monitor has finished the entries of the group that it has passed.
PassedInv ==
  InGroup =>
    \A i \in DOMAIN active[monitor.tag] :
      i < monitor.pos => ~Registered(active[monitor.tag][i])

\* A thread about to dump a request, or with the file in place, has noted it.
Noted(r) == r \in Members(active[GroupTag[r]])
NotedInv ==
  \A h \in Handlers :
    \/ handler[h].pc = "open"
    \/ handler[h].pc = "write" /\ handler[h].linked
    => Noted(handler[h].req)

\* A file has the old id of a request for its name, or is still empty, or holds
\* the completed request it is named for.
FilesInv ==
  \A n \in DOMAIN dump :
    \/ n = Original(n.req)
    \/ dump[n].status = "UNKNOWN"
    \/ dump[n] = [status |-> "COMPLETED", data |-> n]

\* Where the monitor was faster than the thread that dumps the request, it is
\* completing the request, or has completed it.
LeftInv ==
  \A h \in Handlers : handler[h].pc = "write" /\ ~handler[h].linked =>
    \/ HasResult(handler[h].req)
    \/ Swapping(handler[h].req)
    \/ handler[h].req \in pulled

\* The inductive invariant.
PromiseInv ==
  /\ AdmissionInv
  /\ TagInv /\ PassedInv /\ NotedInv
  /\ FilesInv /\ LeftInv
  /\ DumpedIsTracked /\ PromiseKept

-------------------------------------------------------------------------------
(* Facts about a state.                                                    *)

LEMMA PromiseTypes ==
  ASSUME PromiseInv
  PROVE  /\ handler \in [Handlers -> HandlerStates]
         /\ requests \in [Requests -> Objects]
         /\ active \in [Tags -> Seq(Requests)]
         /\ monitor \in MonitorStates
         /\ monitor.tag \in Tags /\ monitor.pos \in Nat \ {0}
         /\ \A k \in Handlers : handler[k].req \in Requests
         /\ \A n \in DOMAIN dump : n \in Data /\ n.req \in Requests
         /\ GroupTag \in [Requests -> Tags]
         /\ \A t \in Tags : /\ DOMAIN active[t] = 1..Len(active[t])
                            /\ Len(active[t]) \in Nat
                            /\ Members(active[t]) \subseteq Requests
  <1>1. TypeOK
    BY DEF PromiseInv, AdmissionInv, TypeInv
  <1>2. /\ handler \in [Handlers -> HandlerStates]
        /\ requests \in [Requests -> Objects]
        /\ active \in [Tags -> Seq(Requests)]
        /\ monitor \in MonitorStates
    BY <1>1 DEF TypeOK
  <1>3. monitor.tag \in Tags /\ monitor.pos \in Nat \ {0}
    BY <1>2 DEF MonitorStates
  <1>4. \A k \in Handlers : handler[k].req \in Requests
    BY <1>2 DEF HandlerStates
  <1>5. \A n \in DOMAIN dump : n \in Data /\ n.req \in Requests
    BY <1>1 DEF TypeOK, Data
  <1>6. ASSUME NEW t \in Tags
        PROVE  /\ DOMAIN active[t] = 1..Len(active[t])
               /\ Len(active[t]) \in Nat
               /\ Members(active[t]) \subseteq Requests
    <2>1. active[t] \in Seq(Requests)
      BY <1>2
    <2>2. DOMAIN active[t] = 1..Len(active[t]) /\ Len(active[t]) \in Nat
      BY <2>1, LenProperties
    <2>3. \A i \in 1..Len(active[t]) : active[t][i] \in Requests
      BY <2>1, ElementOfSeq
    <2> QED
      BY <2>2, <2>3 DEF Members
  <1> QED
    BY <1>2, <1>3, <1>4, <1>5, <1>6, GeocoderAssumption

\* A completed file is what its name says, and never has an old id.
LEMMA CompletedAre ==
  ASSUME PromiseInv, NEW n \in Completed
  PROVE  /\ dump[n] = [status |-> "COMPLETED", data |-> n]
         /\ \A r \in Requests : n # Original(r)
         /\ n.req \in Requests
  <1>1. n \in DOMAIN dump /\ dump[n].status = "COMPLETED"
    BY DEF Completed
  <1>2. n.req \in Requests
    BY <1>1, PromiseTypes
  <1>3. \A r \in Requests : n # Original(r)
    BY <1>1 DEF PromiseInv, AdmissionInv, DumpInv
  <1> QED
    BY <1>1, <1>2, <1>3 DEF PromiseInv, FilesInv

\* The request the monitor swaps is tracked.
LEMMA SwappedIsTracked ==
  ASSUME PromiseInv, AtEntry
  PROVE  Current \in Requests /\ Tracked(Current)
  <1>1. Current \in Requests
    BY CurrentType DEF AtEntry, PromiseInv, AdmissionInv
  <1>2. Registered(Current)
    BY DEF PromiseInv, AdmissionInv, EntryInv
  <1>3. monitor.pos \in DOMAIN active[monitor.tag]
    BY DEF AtEntry, PromiseInv, AdmissionInv, TypeInv, PositionOK
  <1>4. GroupTag[Current] = monitor.tag
    BY <1>3, PromiseTypes DEF PromiseInv, TagInv, Current
  <1>5. Current \in Members(active[monitor.tag])
    BY <1>3 DEF Current, Members
  <1> QED
    BY <1>1, <1>2, <1>4, <1>5 DEF Tracked

\* No tracked request is among the entries the monitor has passed.
LEMMA TrackedIsAhead ==
  ASSUME PromiseInv, monitor.pc = "merge", ~MoreInGroup,
         NEW r \in Requests, Tracked(r)
  PROVE  GroupTag[r] # monitor.tag
  <1> SUFFICES ASSUME GroupTag[r] = monitor.tag
               PROVE  FALSE
    OBVIOUS
  <1>1. PICK i \in DOMAIN active[monitor.tag] : active[monitor.tag][i] = r
    BY DEF Tracked, Members
  <1>2. /\ DOMAIN active[monitor.tag] = 1..Len(active[monitor.tag])
        /\ Len(active[monitor.tag]) \in Nat /\ monitor.pos \in Nat
    BY PromiseTypes
  <1>3. i < monitor.pos
    BY <1>1, <1>2 DEF MoreInGroup
  <1>4. ~Registered(active[monitor.tag][i])
    BY <1>1, <1>3 DEF PromiseInv, PassedInv, InGroup
  <1> QED
    BY <1>1, <1>4 DEF Tracked, Registered

-------------------------------------------------------------------------------
(* Steps that leave the files alone.                                       *)

\* A step that changes no file and no promise, that lets no tracked request go
\* and leaves the monitor's swap alone.
LEMMA CalmStep ==
  ASSUME PromiseInv, UNCHANGED <<dump, accepted, pulled>>, Running' = Running,
         \A r \in Requests : Tracked(r) => Tracked(r)',
         UNCHANGED <<requests, active, monitor>> \/ ~Swaps,
         \A h \in Handlers : handler'[h].pc = "write" /\ ~handler'[h].linked =>
           /\ handler[h].pc = "write" /\ ~handler[h].linked
           /\ handler'[h].req = handler[h].req
  PROVE  FilesInv' /\ LeftInv' /\ DumpedIsTracked' /\ PromiseKept'
  <1>1. Completed' = Completed /\ Dropped' = Dropped
    BY DEF Completed, Dropped
  <1>2. \A r : HasResult(r) => HasResult(r)'
    BY <1>1 DEF HasResult
  <1>3. \A r : Swapping(r) => Swapping(r)'
    BY DEF Swapping, BeingSwapped, Swaps, Current
  <1>4. FilesInv'
    BY DEF PromiseInv, FilesInv, Original
  <1>5. LeftInv'
    BY <1>2, <1>3 DEF PromiseInv, LeftInv
  <1>6. DumpedIsTracked'
    <2> SUFFICES ASSUME Running, NEW n \in Dropped
                 PROVE  \/ n = Original(n.req) /\ Tracked(n.req)'
                        \/ (monitor.pc = "write" /\ n = Result(Current))'
      BY <1>1 DEF DumpedIsTracked, Original
    <2>1. n.req \in Requests
      BY PromiseTypes DEF Dropped
    <2>2. CASE n = Original(n.req) /\ Tracked(n.req)
      BY <2>1, <2>2
    <2>3. CASE monitor.pc = "write" /\ n = Result(Current)
      BY <2>3 DEF Swaps, Result, Current
    <2> QED
      BY <2>2, <2>3 DEF PromiseInv, DumpedIsTracked
  <1>7. PromiseKept'
    <2> SUFFICES ASSUME NEW r \in accepted \ pulled
                 PROVE  /\ \/ Original(r) \in DOMAIN dump
                           \/ HasResult(r)'
                           \/ Swapping(r)'
                        /\ Running => Tracked(r)' \/ HasResult(r)'
      BY DEF PromiseKept, Original
    <2>1. r \in Requests
      BY DEF PromiseInv, AdmissionInv, TypeInv, TypeOK
    <2> QED
      BY <1>2, <1>3, <2>1 DEF PromiseInv, PromiseKept
  <1> QED
    BY <1>4, <1>5, <1>6, <1>7

-------------------------------------------------------------------------------
(* A gRPC thread admits a request.                                         *)

\* A call takes requests_lock_.
LEMMA SubmitPromise ==
  ASSUME PromiseInv, NEW h \in Handlers, NEW r \in Requests, Submit(h, r)
  PROVE  /\ TagInv' /\ PassedInv' /\ NotedInv'
         /\ FilesInv' /\ LeftInv' /\ DumpedIsTracked' /\ PromiseKept'
  <1>1. /\ UNCHANGED <<requests, active, monitor, dump, accepted, pulled>>
        /\ Running' = Running
    BY DEF Submit, durable, Running
  <1>2. /\ handler'[h].pc = "checking"
        /\ \A k \in Handlers \ {h} : handler'[k] = handler[k]
    BY PromiseTypes DEF Submit, HandlerAt
  <1>3. TagInv' /\ PassedInv'
    BY <1>1 DEF PromiseInv, TagInv, PassedInv, InGroup, Registered
  <1>4. NotedInv'
    BY <1>1, <1>2 DEF PromiseInv, NotedInv, Noted
  <1>5. \A q \in Requests : Tracked(q) => Tracked(q)'
    BY <1>1 DEF Tracked, Registered
  <1>6. FilesInv' /\ LeftInv' /\ DumpedIsTracked' /\ PromiseKept'
    BY <1>1, <1>2, <1>5, CalmStep
  <1> QED
    BY <1>3, <1>4, <1>6

\* While a thread can register a request the monitor is in no group.
LEMMA NobodyElse ==
  ASSUME PromiseInv, NEW h \in Handlers, Register(h) \/ Activate(h)
  PROVE  ~InGroup /\ ~Swaps /\ monitor.pc # "merge"
BY GeocoderAssumption
DEF Register, Activate, Inserting, PromiseInv, AdmissionInv, TypeInv, LockDiscipline,
    InGroup, Swaps

LEMMA RegisterPromise ==
  ASSUME PromiseInv, NEW h \in Handlers, Register(h)
  PROVE  /\ TagInv' /\ PassedInv' /\ NotedInv'
         /\ FilesInv' /\ LeftInv' /\ DumpedIsTracked' /\ PromiseKept'
  <1>1. /\ UNCHANGED <<active, monitor, dump, accepted, pulled>>
        /\ Running' = Running
    BY DEF Register, durable, history, bounds, Running
  <1>2. ~InGroup /\ ~Swaps
    BY NobodyElse
  <1>3. \A q \in Requests : Registered(q) => Registered(q)'
    BY PromiseTypes DEF Register, Registered, Received
  <1>4. \A q \in Requests : Tracked(q) => Tracked(q)'
    BY <1>1, <1>3 DEF Tracked
  <1>5. handler'[h].pc \in {"idle", "registered"}
        /\ \A k \in Handlers \ {h} : handler'[k] = handler[k]
    BY PromiseTypes DEF Register, Idle, HandlerAt
  <1>6. TagInv' /\ PassedInv'
    BY <1>1, <1>2 DEF PromiseInv, TagInv, PassedInv, InGroup
  <1>7. NotedInv'
    BY <1>1, <1>5 DEF PromiseInv, NotedInv, Noted
  <1>8. FilesInv' /\ LeftInv' /\ DumpedIsTracked' /\ PromiseKept'
    BY <1>1, <1>2, <1>4, <1>5, CalmStep
  <1> QED
    BY <1>6, <1>7, <1>8

\* The steps before the request is noted under its tag.
LEMMA InsertPromise ==
  ASSUME PromiseInv, NEW h \in Handlers,
         \/ RejectCSV(h) \/ LockEngine(h) \/ InsertChunk(h) \/ InsertChunkShort(h)
         \/ InsertChunkError(h)
  PROVE  /\ TagInv' /\ PassedInv' /\ NotedInv'
         /\ FilesInv' /\ LeftInv' /\ DumpedIsTracked' /\ PromiseKept'
  <1>1. /\ UNCHANGED <<requests, active, monitor, dump, accepted, pulled>>
        /\ Running' = Running
    BY DEF RejectCSV, LockEngine, InsertChunk, InsertChunkShort, InsertChunkError,
           durable, history, bounds, Running
  <1>2. /\ handler'[h].pc \in {"idle", "insert"}
        /\ \A k \in Handlers \ {h} : handler'[k] = handler[k]
    <2>1. handler \in [Handlers -> HandlerStates]
      BY PromiseTypes
    <2>2. CASE RejectCSV(h) \/ InsertChunkError(h)
      BY <2>1, <2>2 DEF RejectCSV, InsertChunkError, Idle, HandlerAt
    <2>3. CASE LockEngine(h)
      BY <2>1, <2>3 DEF LockEngine, HandlerStates
    <2>4. CASE InsertChunk(h)
      BY <2>1, <2>4 DEF InsertChunk, Inserting, HandlerStates
    <2>5. CASE InsertChunkShort(h)
      BY <2>1, <2>5 DEF InsertChunkShort, Inserting, HandlerStates
    <2> QED
      BY <2>2, <2>3, <2>4, <2>5
  <1>3. TagInv' /\ PassedInv'
    BY <1>1 DEF PromiseInv, TagInv, PassedInv, InGroup, Registered
  <1>4. NotedInv'
    BY <1>1, <1>2 DEF PromiseInv, NotedInv, Noted
  <1>5. \A q \in Requests : Tracked(q) => Tracked(q)'
    BY <1>1 DEF Tracked, Registered
  <1>6. FilesInv' /\ LeftInv' /\ DumpedIsTracked' /\ PromiseKept'
    BY <1>1, <1>2, <1>5, CalmStep
  <1> QED
    BY <1>3, <1>4, <1>6

\* A request that is noted last.
LEMMA Appended ==
  ASSUME NEW S, NEW q \in Seq(S), NEW x \in S, NEW u, u = Append(q, x)
  PROVE  /\ DOMAIN u = 1..(Len(q) + 1)
         /\ \A i \in DOMAIN q : u[i] = q[i]
         /\ u[Len(q) + 1] = x
  BY AppendProperties, LenProperties

\* engine_lock_ keeps the monitor from its turn while a request is noted.
LEMMA ActivatePromise ==
  ASSUME PromiseInv, NEW h \in Handlers, Activate(h)
  PROVE  /\ TagInv' /\ PassedInv' /\ NotedInv'
         /\ FilesInv' /\ LeftInv' /\ DumpedIsTracked' /\ PromiseKept'
  <1> DEFINE r == handler[h].req
             t == GroupTag[r]
  <1>1. /\ UNCHANGED <<requests, monitor, dump, accepted, pulled>>
        /\ Running' = Running
    BY DEF Activate, durable, history, bounds, Running
  <1>2. ~InGroup /\ ~Swaps
    BY NobodyElse
  <1>3. r \in Requests /\ t \in Tags
    BY PromiseTypes
  <1>4. /\ handler'[h].pc \in {"idle", "open"} /\ handler'[h].req = r
        /\ \A k \in Handlers \ {h} : handler'[k] = handler[k]
    BY PromiseTypes DEF Activate, Idle, HandlerAt
  <1>5. /\ active'[t] = Append(active[t], r)
        /\ \A s \in Tags \ {t} : active'[s] = active[s]
    BY <1>3, PromiseTypes DEF Activate
  <1>6. /\ DOMAIN active[t] = 1..Len(active[t]) /\ Len(active[t]) \in Nat
        /\ active[t] \in Seq(Requests)
    BY <1>3, PromiseTypes
  <1>7. /\ DOMAIN active'[t] = 1..(Len(active[t]) + 1)
        /\ \A i \in DOMAIN active[t] : active'[t][i] = active[t][i]
        /\ active'[t][Len(active[t]) + 1] = r
    <2> HIDE DEF r, t
    <2>1. PICK old, now : old \in Seq(Requests) /\ old = active[t] /\ now = active'[t]
      BY <1>6
    <2>2. now = Append(old, r)
      BY <1>5, <2>1
    <2>3. /\ DOMAIN now = 1..(Len(old) + 1)
          /\ \A i \in DOMAIN old : now[i] = old[i]
          /\ now[Len(old) + 1] = r
      BY <1>3, <2>2, Appended
    <2> QED
      BY <2>1, <2>3
  <1> HIDE DEF r, t
  <1>8. t = GroupTag[r] /\ r = handler[h].req
    BY DEF r, t
  <1>9. TagInv'
    <2> SUFFICES ASSUME NEW s \in Tags, NEW i \in DOMAIN active'[s]
                 PROVE  GroupTag[active'[s][i]] = s
      BY DEF TagInv
    <2>1. CASE s # t
      BY <1>5, <2>1 DEF PromiseInv, TagInv
    <2>2. CASE s = t /\ i \in DOMAIN active[t]
      BY <1>3, <1>7, <2>2 DEF PromiseInv, TagInv
    <2>3. CASE s = t /\ i = Len(active[t]) + 1
      BY <1>7, <1>8, <2>3
    <2> QED
      BY <1>6, <1>7, <2>1, <2>2, <2>3
  <1>10. PassedInv'
    BY <1>1, <1>2 DEF PassedInv, InGroup
  <1>11. \A s \in Tags : Members(active[s]) \subseteq Members(active'[s])
    BY <1>5, <1>6, <1>7 DEF Members
  <1>12. r \in Members(active'[t])
    BY <1>6, <1>7 DEF Members
  <1>13. \A q \in Requests : Noted(q) => Noted(q)'
    BY <1>11, PromiseTypes DEF Noted
  <1>14. NotedInv'
    <2> SUFFICES ASSUME NEW k \in Handlers,
                        \/ handler'[k].pc = "open"
                        \/ handler'[k].pc = "write" /\ handler'[k].linked
                 PROVE  handler'[k].req \in Members(active'[GroupTag[handler'[k].req]])
      BY DEF NotedInv, Noted
    <2>1. CASE k = h
      BY <1>4, <1>8, <1>12, <2>1
    <2>2. CASE k # h
      <3>1. handler'[k] = handler[k] /\ handler[k].req \in Requests
        BY <1>4, <2>2, PromiseTypes
      <3>2. Noted(handler[k].req)
        BY <3>1 DEF PromiseInv, NotedInv
      <3> QED
        BY <1>11, <3>1, <3>2, PromiseTypes DEF Noted
    <2> QED
      BY <2>1, <2>2
  <1>15. \A q \in Requests : Tracked(q) => Tracked(q)'
    BY <1>1, <1>13 DEF Tracked, Registered, Noted
  <1>16. FilesInv' /\ LeftInv' /\ DumpedIsTracked' /\ PromiseKept'
    BY <1>1, <1>2, <1>4, <1>15, CalmStep
  <1> QED
    BY <1>9, <1>10, <1>14, <1>16

\* Writing under an old id what is not completed leaves the results alone.
LEMMA PutOriginal ==
  ASSUME PromiseInv, NEW r \in Requests, NEW file, file.status # "COMPLETED",
         dump' = Put(dump, Original(r), file)
  PROVE  /\ Completed' = Completed
         /\ DOMAIN dump' = DOMAIN dump \cup {Original(r)}
         /\ \A n \in DOMAIN dump : n # Original(r) => dump'[n] = dump[n]
         /\ dump'[Original(r)] = file
  <1> DEFINE d == Put(dump, Original(r), file)
  <1>1. /\ DOMAIN d = DOMAIN dump \cup {Original(r)}
        /\ \A n \in DOMAIN dump : n # Original(r) => d[n] = dump[n]
        /\ d[Original(r)] = file
    BY DEF Put
  <1>2. dump' = d
    OBVIOUS
  <1> HIDE DEF d
  <1>3. Original(r) \notin Completed
    BY CompletedAre
  <1>4. Completed' = {n \in DOMAIN dump' : dump'[n].status = "COMPLETED"}
    BY DEF Completed
  <1>5. Completed' = Completed
    <2>1. ASSUME NEW n \in Completed
          PROVE  n \in Completed'
      BY <1>1, <1>2, <1>3, <1>4, <2>1 DEF Completed
    <2>2. ASSUME NEW n \in Completed'
          PROVE  n \in Completed
      <3>1. n \in DOMAIN dump' /\ dump'[n].status = "COMPLETED"
        BY <1>4
      <3>2. n # Original(r)
        BY <1>1, <1>2, <3>1
      <3> QED
        BY <1>1, <1>2, <3>1, <3>2 DEF Completed
    <2> QED
      BY <2>1, <2>2
  <1> QED
    BY <1>1, <1>2, <1>5

\* What a dump under an old id keeps: the request is tracked, and the monitor
\* is about another one.
LEMMA DumpPromise ==
  ASSUME PromiseInv, NEW r \in Requests, NEW file, file.status # "COMPLETED",
         dump' = Put(dump, Original(r), file),
         UNCHANGED <<active, monitor, service, pulled>>,
         \A q \in Requests : /\ Registered(q)' <=> Registered(q)
                             /\ requests'[q].joins = requests[q].joins,
         Tracked(r), accepted' \subseteq accepted \cup {r}
  PROVE  /\ \A q \in Requests : HasResult(q) => HasResult(q)'
         /\ \A q \in Requests : Swapping(q) => Swapping(q)'
         /\ TagInv' /\ PassedInv' /\ FilesInv' /\ DumpedIsTracked' /\ PromiseKept'
  <1>1. /\ Completed' = Completed
        /\ DOMAIN dump' = DOMAIN dump \cup {Original(r)}
        /\ \A n \in DOMAIN dump : n # Original(r) => dump'[n] = dump[n]
        /\ dump'[Original(r)] = file
    BY PutOriginal
  <1>2. \A q \in Requests : Tracked(q) => Tracked(q)'
    BY DEF Tracked
  <1>3. \A q \in Requests : HasResult(q) => HasResult(q)'
    BY <1>1 DEF HasResult
  <1>4. Running' = Running /\ Current' = Current
    BY DEF Running, Current
  <1>5. \A q \in Requests : Swapping(q) => Swapping(q)'
    BY <1>4 DEF Swapping, BeingSwapped
  <1>6. TagInv'
    BY DEF PromiseInv, TagInv
  <1>7. PassedInv'
    <2> SUFFICES ASSUME InGroup, NEW i \in DOMAIN active[monitor.tag],
                        i < monitor.pos
                 PROVE  ~(requests'[active[monitor.tag][i]].status # "UNKNOWN")
      BY DEF PassedInv, InGroup, Registered
    <2>1. ~Registered(active[monitor.tag][i])
      BY DEF PromiseInv, PassedInv
    <2>2. active[monitor.tag][i] \in Requests
      BY PromiseTypes DEF Members
    <2> QED
      BY <2>1, <2>2 DEF Registered
  <1>8. Original(r).req = r
    BY DEF Original
  <1>9. FilesInv'
    <2> SUFFICES ASSUME NEW n \in DOMAIN dump'
                 PROVE  \/ n = Original(n.req)
                        \/ dump'[n].status = "UNKNOWN"
                        \/ dump'[n] = [status |-> "COMPLETED", data |-> n]
      BY DEF FilesInv, Original
    <2> QED
      BY <1>1, <1>8 DEF PromiseInv, FilesInv
  <1>10. DumpedIsTracked'
    <2> SUFFICES ASSUME Running, NEW n \in DOMAIN dump', n \notin Completed
                 PROVE  \/ n = Original(n.req) /\ Tracked(n.req)'
                        \/ monitor.pc = "write" /\ n = Result(Current)'
      BY <1>1, <1>4 DEF DumpedIsTracked, Dropped, Original
    <2>1. CASE n = Original(r)
      BY <1>2, <1>8, <2>1
    <2>2. CASE n # Original(r)
      <3>1. n \in Dropped /\ n.req \in Requests
        BY <1>1, <2>2, PromiseTypes DEF Dropped
      <3>2. CASE n = Original(n.req) /\ Tracked(n.req)
        BY <1>2, <3>1, <3>2
      <3>3. CASE monitor.pc = "write" /\ n = Result(Current)
        <4>1. Current \in Requests
          BY <3>3, SwappedIsTracked DEF AtEntry
        <4> QED
          BY <1>4, <3>3, <4>1 DEF Result
      <3> QED
        BY <3>1, <3>2, <3>3 DEF PromiseInv, DumpedIsTracked
    <2> QED
      BY <2>1, <2>2
  <1>11. PromiseKept'
    <2> SUFFICES ASSUME NEW q \in accepted' \ pulled
                 PROVE  /\ \/ Original(q) \in DOMAIN dump'
                           \/ HasResult(q)'
                           \/ Swapping(q)'
                        /\ Running => Tracked(q)' \/ HasResult(q)'
      BY <1>4 DEF PromiseKept, Original
    <2>1. CASE q = r
      BY <1>1, <1>2, <2>1
    <2>2. CASE q # r
      <3>1. q \in accepted \ pulled /\ q \in Requests
        BY <2>2 DEF PromiseInv, AdmissionInv, TypeInv, TypeOK
      <3> QED
        BY <1>1, <1>2, <1>3, <1>5, <3>1 DEF PromiseInv, PromiseKept
    <2> QED
      BY <2>1, <2>2
  <1> QED
    BY <1>3, <1>5, <1>6, <1>7, <1>9, <1>10, <1>11

LEMMA OpenDumpPromise ==
  ASSUME PromiseInv, NEW h \in Handlers, OpenDump(h)
  PROVE  /\ TagInv' /\ PassedInv' /\ NotedInv'
         /\ FilesInv' /\ LeftInv' /\ DumpedIsTracked' /\ PromiseKept'
  <1> DEFINE r == handler[h].req
  <1>1. /\ UNCHANGED <<active, monitor, service, accepted, pulled>>
        /\ dump' = Put(dump, Original(r), Empty(Original(r)))
    BY DEF OpenDump, history
  <1>2. r \in Requests
    BY PromiseTypes
  <1>3. Empty(Original(r)).status # "COMPLETED"
    BY DEF Empty
  <1>4. Admitting(h)
    BY DEF OpenDump, Admitting
  <1>5. Registered(r)
    BY <1>4 DEF PromiseInv, AdmissionInv, TicketInv, Registered
  <1>6. Tracked(r)
    BY <1>5 DEF OpenDump, PromiseInv, NotedInv, Noted, Tracked
  <1>7. \A q \in Requests : /\ Registered(q)' <=> Registered(q)
                            /\ requests'[q].joins = requests[q].joins
    BY <1>2, <1>5, PromiseTypes DEF OpenDump, Registered, Objects
  <1>8. /\ handler'[h].pc = "write" /\ handler'[h].req = r /\ handler'[h].linked
        /\ \A k \in Handlers \ {h} : handler'[k] = handler[k]
    BY PromiseTypes DEF OpenDump, HandlerStates
  <1>9. /\ \A q \in Requests : HasResult(q) => HasResult(q)'
        /\ \A q \in Requests : Swapping(q) => Swapping(q)'
        /\ TagInv' /\ PassedInv' /\ FilesInv' /\ DumpedIsTracked' /\ PromiseKept'
    BY <1>1, <1>2, <1>3, <1>6, <1>7, DumpPromise
  <1>10. NotedInv'
    BY <1>1, <1>6, <1>8 DEF PromiseInv, NotedInv, Noted, Tracked
  <1>11. LeftInv'
    BY <1>1, <1>8, <1>9, PromiseTypes DEF PromiseInv, LeftInv
  <1> QED
    BY <1>9, <1>10, <1>11

\* The request is accepted: it is dumped, or the monitor was faster.
LEMMA WriteDumpPromise ==
  ASSUME PromiseInv, NEW h \in Handlers, WriteDump(h)
  PROVE  /\ TagInv' /\ PassedInv' /\ NotedInv'
         /\ FilesInv' /\ LeftInv' /\ DumpedIsTracked' /\ PromiseKept'
  <1> DEFINE r == handler[h].req
  <1>1. /\ UNCHANGED <<requests, active, monitor, service, pulled>>
        /\ accepted' = accepted \cup {r}
    BY DEF WriteDump
  <1>2. r \in Requests
    BY PromiseTypes
  <1>3. /\ handler'[h].pc = "idle"
        /\ \A k \in Handlers \ {h} : handler'[k] = handler[k]
    BY PromiseTypes DEF WriteDump, Idle, HandlerAt
  <1>4. NotedInv'
    BY <1>1, <1>3 DEF PromiseInv, NotedInv, Noted
  <1>5. CASE handler[h].linked
    <2> DEFINE file == [status |-> requests[r].status,
                        data |-> [req |-> r, joins |-> requests[r].joins]]
    <2>1. dump' = Put(dump, Original(r), file)
      BY <1>5 DEF WriteDump
    <2>2. requests[r].status \in {"RECIEVED", "REQUESTED"}
      BY <1>5 DEF WriteDump, Admitting, PromiseInv, AdmissionInv, TicketInv
    <2>3. file.status # "COMPLETED"
      BY <2>2
    <2>4. Tracked(r)
      BY <1>5, <2>2 DEF WriteDump, PromiseInv, NotedInv, Noted, Tracked, Registered
    <2> HIDE DEF file
    <2>5. \A q \in Requests : /\ Registered(q)' <=> Registered(q)
                              /\ requests'[q].joins = requests[q].joins
      BY <1>1 DEF Registered
    <2>6. /\ \A q \in Requests : HasResult(q) => HasResult(q)'
          /\ \A q \in Requests : Swapping(q) => Swapping(q)'
          /\ TagInv' /\ PassedInv' /\ FilesInv' /\ DumpedIsTracked' /\ PromiseKept'
      BY <1>1, <1>2, <2>1, <2>3, <2>4, <2>5, DumpPromise
    <2>7. LeftInv'
      BY <1>1, <1>3, <2>6, PromiseTypes DEF PromiseInv, LeftInv
    <2> QED
      BY <1>4, <2>6, <2>7
  <1>6. CASE ~handler[h].linked
    <2>1. dump' = dump
      BY <1>6 DEF WriteDump
    <2>2. /\ Completed' = Completed /\ Dropped' = Dropped
          /\ Running' = Running /\ Current' = Current
      BY <1>1, <2>1 DEF Completed, Dropped, Running, Current
    <2>3. \A q : /\ HasResult(q)' <=> HasResult(q)
                 /\ Swapping(q)' <=> Swapping(q)
                 /\ Tracked(q)' <=> Tracked(q)
      BY <1>1, <2>2 DEF HasResult, Swapping, BeingSwapped, Tracked, Registered
    <2>4. TagInv' /\ PassedInv' /\ FilesInv'
      BY <1>1, <2>1 DEF PromiseInv, TagInv, PassedInv, InGroup, FilesInv, Original, Registered
    <2>5. LeftInv'
      BY <1>1, <1>3, <2>3 DEF PromiseInv, LeftInv
    <2>6. DumpedIsTracked'
      BY <1>1, <2>2, <2>3 DEF PromiseInv, DumpedIsTracked, Original, Result
    <2>7. PromiseKept'
      <3> SUFFICES ASSUME NEW q \in accepted \cup {r}, q \notin pulled
                   PROVE  /\ \/ Original(q) \in DOMAIN dump
                             \/ HasResult(q)
                             \/ Swapping(q)
                          /\ Running => Tracked(q) \/ HasResult(q)
        BY <1>1, <2>1, <2>2, <2>3 DEF PromiseKept, Original
      <3>1. CASE q \in accepted
        BY <3>1 DEF PromiseInv, PromiseKept
      <3>2. CASE q = r
        <4>1. HasResult(r) \/ Swapping(r)
          BY <1>6, <3>2 DEF WriteDump, PromiseInv, LeftInv
        <4>2. Swapping(r) => Tracked(r)
          BY SwappedIsTracked DEF Swapping, BeingSwapped, AtEntry
        <4> QED
          BY <3>2, <4>1, <4>2
      <3> QED
        BY <3>1, <3>2
    <2> QED
      BY <1>4, <2>4, <2>5, <2>6, <2>7
  <1> QED
    BY <1>5, <1>6

-------------------------------------------------------------------------------
(* The monitor's turn.                                                     *)

\* A group is started at its first request.
LEMMA GroupsStartAtOne ==
  ASSUME NEW data, StartGroup(data)
  PROVE  monitor'.pc = "merge" /\ monitor'.pos = 1
  <1>1. PICK first \in data :
          LET group == {i \in data : \A j \in data :
                                 j <= i => geo[j].tag = geo[first].tag} IN
          monitor' = [pc |-> "merge", tag |-> geo[first].tag, group |-> group,
                      data |-> data \ group, pos |-> 1]
    BY Zenon DEF StartGroup
  <1> QED
    BY <1>1

\* A monitor that is in no group, or at the first request of one, has passed none.
LEMMA NonePassed ==
  ASSUME PromiseInv, [Next]_vars, monitor'.pc \in {"idle", "locking"} \/ monitor'.pos = 1
  PROVE  PassedInv'
  <1> SUFFICES ASSUME monitor'.pos = 1, NEW i \in DOMAIN active'[monitor'.tag], i < 1
               PROVE  FALSE
    BY DEF PassedInv, InGroup
  <1>1. TypeOK'
    BY AdmissionStep DEF PromiseInv, AdmissionInv, TypeInv
  <1>2. active' \in [Tags -> Seq(Requests)] /\ monitor' \in MonitorStates
    BY <1>1 DEF TypeOK
  <1>3. monitor'.tag \in Tags
    BY <1>2 DEF MonitorStates
  <1>4. active'[monitor'.tag] \in Seq(Requests)
    BY <1>2, <1>3
  <1>5. /\ DOMAIN active'[monitor'.tag] = 1..Len(active'[monitor'.tag])
        /\ Len(active'[monitor'.tag]) \in Nat
    BY <1>4, LenProperties
  <1> QED
    BY <1>5

\* The monitor takes or gives up a group.
LEMMA TurnPromise ==
  ASSUME PromiseInv, Poll \/ LockRequests \/ MergeMissing \/ UnlinkMissing
  PROVE  /\ TagInv' /\ PassedInv' /\ NotedInv'
         /\ FilesInv' /\ LeftInv' /\ DumpedIsTracked' /\ PromiseKept'
  <1>1. /\ UNCHANGED <<requests, active, handler, dump, service, accepted, pulled>>
        /\ ~Swaps
    BY DEF Poll, LockRequests, MergeMissing, UnlinkMissing, durable, history, Swaps
  <1>2. monitor'.pc \in {"idle", "locking"} \/ monitor'.pos = 1
    <2>1. CASE LockRequests
      BY <2>1, GroupsStartAtOne DEF LockRequests
    <2>2. CASE MergeMissing \/ UnlinkMissing
      BY <2>2 DEF MergeMissing, UnlinkMissing, AbortTurn, MonitorIdle
    <2>3. CASE Poll
      BY <2>3 DEF Poll, MonitorIdle
    <2> QED
      BY <2>1, <2>2, <2>3
  <1>3. [Next]_vars
    BY DEF Next, MonitorStep
  <1>4. TagInv' /\ PassedInv' /\ NotedInv'
    BY <1>1, <1>2, <1>3, NonePassed DEF PromiseInv, TagInv, NotedInv, Noted
  <1>5. Running' = Running /\ \A q \in Requests : Tracked(q) => Tracked(q)'
    BY <1>1 DEF Running, Tracked, Registered
  <1>6. FilesInv' /\ LeftInv' /\ DumpedIsTracked' /\ PromiseKept'
    BY <1>1, <1>5, CalmStep
  <1> QED
    BY <1>4, <1>6

LEMMA MergePromise ==
  ASSUME PromiseInv, Merge
  PROVE  /\ TagInv' /\ PassedInv' /\ NotedInv'
         /\ FilesInv' /\ LeftInv' /\ DumpedIsTracked' /\ PromiseKept'
  <1>1. /\ UNCHANGED <<active, handler, dump, service, accepted, pulled>>
        /\ ~Swaps
    BY DEF Merge, durable, history, Swaps
  <1>2. Current \in Requests
    BY CurrentType DEF Merge, PromiseInv, AdmissionInv
  <1>3. \A q \in Requests : requests'[q].status = requests[q].status
    BY <1>2, PromiseTypes DEF Merge, Objects
  <1>4. monitor'.tag = monitor.tag /\ monitor'.pos = monitor.pos /\ InGroup
    BY PromiseTypes DEF Merge, MonitorStates, InGroup
  <1>5. \A i \in DOMAIN active[monitor.tag] : active[monitor.tag][i] \in Requests
    BY PromiseTypes DEF Members
  <1>6. PassedInv'
    BY <1>1, <1>3, <1>4, <1>5 DEF PromiseInv, PassedInv, InGroup, Registered
  <1>7. TagInv' /\ NotedInv'
    BY <1>1 DEF PromiseInv, TagInv, NotedInv, Noted
  <1>8. Running' = Running /\ \A q \in Requests : Tracked(q) => Tracked(q)'
    BY <1>1, <1>3 DEF Running, Tracked, Registered
  <1>9. FilesInv' /\ LeftInv' /\ DumpedIsTracked' /\ PromiseKept'
    BY <1>1, <1>8, CalmStep
  <1> QED
    BY <1>6, <1>7, <1>9

\* The tag is forgotten: none of its requests is registered any more.
LEMMA EndGroupPromise ==
  ASSUME PromiseInv, EndGroup
  PROVE  /\ TagInv' /\ PassedInv' /\ NotedInv'
         /\ FilesInv' /\ LeftInv' /\ DumpedIsTracked' /\ PromiseKept'
  <1>1. /\ UNCHANGED <<requests, handler, dump, service, accepted, pulled>>
        /\ monitor.pc = "merge" /\ ~MoreInGroup /\ ~Swaps
    BY DEF EndGroup, durable, history, Swaps
  <1>2. monitor.tag \in Tags
    BY PromiseTypes
  <1>3. /\ active'[monitor.tag] = <<>>
        /\ \A t \in Tags \ {monitor.tag} : active'[t] = active[t]
    BY <1>2, PromiseTypes DEF EndGroup
  <1>4. TagInv'
    <2>1. DOMAIN active'[monitor.tag] = {}
      BY <1>3
    <2> QED
      BY <1>3, <2>1 DEF PromiseInv, TagInv
  <1>5. PassedInv'
    <2>1. monitor'.pc \in {"idle", "locking"} \/ monitor'.pos = 1
      BY GroupsStartAtOne DEF EndGroup, MonitorIdle
    <2>2. [Next]_vars
      BY DEF Next, MonitorStep
    <2> QED
      BY <2>1, <2>2, NonePassed
  <1>6. \A q \in Requests : Tracked(q) => Tracked(q)'
    <2> SUFFICES ASSUME NEW q \in Requests, Tracked(q)
                 PROVE  Tracked(q)'
      OBVIOUS
    <2>1. GroupTag[q] \in Tags \ {monitor.tag}
      BY <1>1, TrackedIsAhead, PromiseTypes
    <2> QED
      BY <1>1, <1>3, <2>1 DEF Tracked, Registered
  <1>7. NotedInv'
    <2> SUFFICES ASSUME NEW k \in Handlers,
                        \/ handler[k].pc = "open"
                        \/ handler[k].pc = "write" /\ handler[k].linked
                 PROVE  Noted(handler[k].req)'
      BY <1>1 DEF NotedInv, Noted
    <2>1. Noted(handler[k].req) /\ Registered(handler[k].req)
      BY DEF PromiseInv, NotedInv, AdmissionInv, TicketInv, Admitting, Registered
    <2>2. Tracked(handler[k].req) /\ handler[k].req \in Requests
      BY <2>1, PromiseTypes DEF Noted, Tracked
    <2>3. \A q \in Requests : Tracked(q) => Noted(q)'
      BY <1>6 DEF Tracked, Noted
    <2>4. Noted(handler[k].req)' = (handler[k].req \in Members(active'[GroupTag[handler[k].req]]))
      BY <1>1 DEF Noted
    <2> QED
      BY <1>1, <2>2, <2>3 DEF Noted
  <1>8. Running' = Running
    BY <1>1 DEF Running
  <1>9. FilesInv' /\ LeftInv' /\ DumpedIsTracked' /\ PromiseKept'
    BY <1>1, <1>6, <1>8, CalmStep
  <1> QED
    BY <1>4, <1>5, <1>7, <1>9

\* The dumped request goes, the swap begins.
LEMMA UnlinkPromise ==
  ASSUME PromiseInv, Unlink
  PROVE  /\ TagInv' /\ PassedInv' /\ NotedInv'
         /\ FilesInv' /\ LeftInv' /\ DumpedIsTracked' /\ PromiseKept'
  <1> DEFINE r == Current
  <1>1. /\ UNCHANGED <<active, service, accepted, pulled>>
        /\ service # "down" /\ monitor.pc = "unlink"
    BY DEF Unlink, history, Running
  <1>2. r \in Requests /\ Tracked(r)
    BY <1>1, SwappedIsTracked DEF AtEntry
  <1>3. /\ monitor'.pc = "open" /\ monitor'.tag = monitor.tag
        /\ monitor'.pos = monitor.pos /\ Current' = r
    BY PromiseTypes DEF Unlink, MonitorStates, Current
  <1>4. \A q \in Requests : Registered(q)' <=> Registered(q)
    BY <1>2, PromiseTypes DEF Unlink, Objects, Registered, Tracked
  <1>5. /\ DOMAIN dump' = DOMAIN dump \ {Original(r)}
        /\ \A n \in DOMAIN dump' : dump'[n] = dump[n]
    BY DEF Unlink, Without
  <1>6. \A k \in Handlers :
          /\ handler'[k].pc = handler[k].pc /\ handler'[k].req = handler[k].req
          /\ handler'[k].linked => handler[k].linked
          /\ ~handler'[k].linked =>
               ~handler[k].linked \/ (handler[k].pc = "write" /\ handler[k].req = r)
    BY PromiseTypes DEF Unlink, HandlerStates
  <1>7. \A q \in Requests : (q = r => Swapping(q)') /\ ~Swapping(q)
    BY <1>1, <1>3 DEF Swapping, BeingSwapped, Running
  <1> HIDE DEF r
  <1>8. Completed' = Completed
    <2>1. Original(r) \notin Completed
      BY <1>2, CompletedAre
    <2> QED
      BY <1>5, <2>1 DEF Completed
  <1>9. /\ \A q \in Requests : HasResult(q)' <=> HasResult(q)
        /\ \A q \in Requests : Tracked(q) => Tracked(q)'
        /\ Running' = Running
    BY <1>1, <1>4, <1>8 DEF HasResult, Tracked, Running
  <1>10. TagInv'
    BY <1>1 DEF PromiseInv, TagInv
  <1>11. PassedInv'
    <2>1. \A i \in DOMAIN active[monitor.tag] : active[monitor.tag][i] \in Requests
      BY PromiseTypes DEF Members
    <2>2. \A i \in DOMAIN active[monitor.tag] :
            i < monitor.pos => ~Registered(active[monitor.tag][i])
      BY <1>1 DEF PromiseInv, PassedInv, InGroup
    <2> QED
      BY <1>1, <1>3, <1>4, <2>1, <2>2 DEF PassedInv, InGroup, Registered
  <1>12. NotedInv'
    BY <1>1, <1>6 DEF PromiseInv, NotedInv, Noted
  <1>13. FilesInv'
    BY <1>5 DEF PromiseInv, FilesInv, Original
  <1>14. LeftInv'
    <2> SUFFICES ASSUME NEW k \in Handlers, handler'[k].pc = "write", ~handler'[k].linked,
                        NEW q \in Requests, q = handler[k].req
                 PROVE  HasResult(q)' \/ Swapping(q)' \/ q \in pulled
      BY <1>1, <1>6, PromiseTypes DEF LeftInv
    <2>2. CASE q = r
      BY <1>7, <2>2
    <2>3. CASE q # r
      BY <1>6, <1>7, <1>9, <2>3 DEF PromiseInv, LeftInv
    <2> QED
      BY <2>2, <2>3
  <1>15. DumpedIsTracked'
    <2> SUFFICES ASSUME NEW n \in DOMAIN dump', n \notin Completed, Running
                 PROVE  n = Original(n.req) /\ Tracked(n.req)'
      BY <1>8, <1>9 DEF DumpedIsTracked, Dropped, Original
    <2>1. n \in Dropped /\ n.req \in Requests
      BY <1>5, PromiseTypes DEF Dropped
    <2>2. n = Original(n.req) /\ Tracked(n.req)
      BY <1>1, <2>1 DEF PromiseInv, DumpedIsTracked
    <2> QED
      BY <1>9, <2>1, <2>2
  <1>16. PromiseKept'
    <2> SUFFICES ASSUME NEW q \in accepted \ pulled
                 PROVE  /\ \/ Original(q) \in DOMAIN dump'
                           \/ HasResult(q)'
                           \/ Swapping(q)'
                        /\ Running => Tracked(q)' \/ HasResult(q)'
      BY <1>1, <1>9 DEF PromiseKept, Original
    <2>1. q \in Requests
      BY DEF PromiseInv, AdmissionInv, TypeInv, TypeOK
    <2>2. CASE q = r
      BY <1>2, <1>7, <1>9, <2>2
    <2>3. CASE q # r
      <3>1. Original(q) # Original(r)
        BY <1>2, <2>1, <2>3, OriginalIs
      <3> QED
        BY <1>5, <1>7, <1>9, <2>1, <3>1 DEF PromiseInv, PromiseKept
    <2> QED
      BY <2>2, <2>3
  <1> QED
    BY <1>10, <1>11, <1>12, <1>13, <1>14, <1>15, <1>16

\* The monitor empties the file of the result, which may have been there before.
LEMMA OpenResultPromise ==
  ASSUME PromiseInv, OpenResult
  PROVE  /\ TagInv' /\ PassedInv' /\ NotedInv'
         /\ FilesInv' /\ LeftInv' /\ DumpedIsTracked' /\ PromiseKept'
  <1> DEFINE r == Current
             n == Result(r)
  <1>1. /\ UNCHANGED <<requests, active, handler, service, accepted, pulled>>
        /\ service # "down" /\ monitor.pc = "open"
    BY DEF OpenResult, history, Running
  <1>2. r \in Requests /\ Tracked(r)
    BY <1>1, SwappedIsTracked DEF AtEntry
  <1>3. /\ monitor'.pc = "write" /\ monitor'.tag = monitor.tag
        /\ monitor'.pos = monitor.pos /\ Current' = r
    BY PromiseTypes DEF OpenResult, MonitorStates, Current
  <1>4. n.req = r /\ Empty(n).status = "UNKNOWN" /\ n = Result(r)
    BY DEF Result, Empty
  <1>5. /\ DOMAIN dump' = DOMAIN dump \cup {n}
        /\ \A m \in DOMAIN dump : m # n => dump'[m] = dump[m]
        /\ dump'[n].status = "UNKNOWN"
    <2> DEFINE d == Put(dump, n, Empty(n))
    <2>1. dump' = d
      BY DEF OpenResult
    <2>2. /\ DOMAIN d = DOMAIN dump \cup {n}
          /\ \A m \in DOMAIN dump : m # n => d[m] = dump[m]
          /\ d[n] = Empty(n)
      BY DEF Put
    <2> HIDE DEF d, n
    <2> QED
      BY <1>4, <2>1, <2>2
  <1>6. n = Result(Current)'
    BY <1>1, <1>3 DEF Result
  <1> HIDE DEF n, r
  <1>7. \A m : m \in Completed' <=> m \in Completed /\ m # n
    BY <1>5 DEF Completed
  <1>8. /\ \A q \in Requests : q # r /\ HasResult(q) => HasResult(q)'
        /\ \A q \in Requests : Tracked(q) => Tracked(q)'
        /\ \A q \in Requests : Swapping(q)' <=> q = r
        /\ \A q \in Requests : Swapping(q) => q = r
        /\ Running' = Running
    <2>1. \A q \in Requests : q # r /\ HasResult(q) => HasResult(q)'
      BY <1>4, <1>7 DEF HasResult
    <2>2. \A q \in Requests : Tracked(q) => Tracked(q)'
      BY <1>1 DEF Tracked, Registered
    <2>3. /\ \A q \in Requests : Swapping(q)' <=> q = r
          /\ \A q \in Requests : Swapping(q) => q = r
      BY <1>1, <1>3 DEF Swapping, BeingSwapped, Running, r
    <2> QED
      BY <1>1, <2>1, <2>2, <2>3 DEF Running
  <1>9. TagInv' /\ NotedInv'
    BY <1>1 DEF PromiseInv, TagInv, NotedInv, Noted
  <1>10. PassedInv'
    BY <1>1, <1>3 DEF PromiseInv, PassedInv, InGroup, Registered
  <1>11. FilesInv'
    BY <1>5 DEF PromiseInv, FilesInv, Original
  <1>12. LeftInv'
    <2> SUFFICES ASSUME NEW k \in Handlers, handler[k].pc = "write", ~handler[k].linked,
                        NEW q \in Requests, q = handler[k].req
                 PROVE  HasResult(q)' \/ Swapping(q)' \/ q \in pulled
      BY <1>1, PromiseTypes DEF LeftInv
    <2> QED
      BY <1>8 DEF PromiseInv, LeftInv
  <1>13. DumpedIsTracked'
    <2> SUFFICES ASSUME NEW m \in DOMAIN dump', m \notin Completed', Running, m # n
                 PROVE  m = Original(m.req) /\ Tracked(m.req)'
      BY <1>3, <1>6, <1>8 DEF DumpedIsTracked, Dropped, Original
    <2>1. m \in Dropped /\ m.req \in Requests
      BY <1>5, <1>7, PromiseTypes DEF Dropped
    <2>2. m = Original(m.req) /\ Tracked(m.req)
      BY <1>1, <2>1 DEF PromiseInv, DumpedIsTracked
    <2> QED
      BY <1>8, <2>1, <2>2
  <1>14. PromiseKept'
    <2> SUFFICES ASSUME NEW q \in accepted \ pulled
                 PROVE  /\ \/ Original(q) \in DOMAIN dump'
                           \/ HasResult(q)'
                           \/ Swapping(q)'
                        /\ Running => Tracked(q)' \/ HasResult(q)'
      BY <1>1, <1>8 DEF PromiseKept, Original
    <2>1. q \in Requests
      BY DEF PromiseInv, AdmissionInv, TypeInv, TypeOK
    <2>2. CASE q = r
      BY <1>2, <1>8, <2>2
    <2>3. CASE q # r
      BY <1>5, <1>8, <2>1, <2>3 DEF PromiseInv, PromiseKept
    <2> QED
      BY <2>2, <2>3
  <1> QED
    BY <1>9, <1>10, <1>11, <1>12, <1>13, <1>14

\* The result is there before the registration goes.
LEMMA WriteResultPromise ==
  ASSUME PromiseInv, WriteResult
  PROVE  /\ TagInv' /\ PassedInv' /\ NotedInv'
         /\ FilesInv' /\ LeftInv' /\ DumpedIsTracked' /\ PromiseKept'
  <1> DEFINE r == Current
             n == Result(r)
             file == [status |-> "COMPLETED", data |-> n]
  <1>1. /\ UNCHANGED <<active, handler, service, accepted, pulled>>
        /\ service # "down" /\ monitor.pc = "write"
    BY DEF WriteResult, history, Running
  <1>2. r \in Requests /\ Tracked(r)
    BY <1>1, SwappedIsTracked DEF AtEntry
  <1>3. /\ monitor'.pc = "merge" /\ monitor'.tag = monitor.tag
        /\ monitor'.pos = monitor.pos + 1
    BY PromiseTypes DEF WriteResult, MonitorStates
  <1>4. n.req = r /\ n = Result(Current) /\ r = active[monitor.tag][monitor.pos]
    BY DEF Result, Current
  <1>5. /\ DOMAIN dump' = DOMAIN dump \cup {n}
        /\ \A m \in DOMAIN dump : m # n => dump'[m] = dump[m]
        /\ dump'[n] = [status |-> "COMPLETED", data |-> n]
        /\ dump'[n].status = "COMPLETED"
    <2> DEFINE d == Put(dump, n, file)
    <2>1. dump' = d
      BY DEF WriteResult
    <2>2. file.status = "COMPLETED"
      OBVIOUS
    <2>3. /\ DOMAIN d = DOMAIN dump \cup {n}
          /\ \A m \in DOMAIN dump : m # n => d[m] = dump[m]
          /\ d[n] = file
      BY DEF Put
    <2> HIDE DEF d, n
    <2> QED
      BY <2>1, <2>2, <2>3
  <1>6. Original(r) \notin DOMAIN dump
    BY <1>1 DEF PromiseInv, AdmissionInv, EntryInv, Swaps
  <1>7. \A q \in Requests : /\ q # r => requests'[q] = requests[q]
                            /\ q = r => requests'[q].status = "UNKNOWN"
    BY <1>2, PromiseTypes DEF WriteResult, Absent
  <1>8. \A q \in Requests : Swapping(q) => q = r
    BY <1>1 DEF Swapping, BeingSwapped
  <1> HIDE DEF n, r
  <1>9. \A m : m \in Completed' <=> m \in Completed \/ m = n
    BY <1>5 DEF Completed
  <1>10. /\ \A q \in Requests : q = r \/ HasResult(q) => HasResult(q)'
         /\ \A q \in Requests : q # r /\ Tracked(q) => Tracked(q)'
         /\ Running' = Running
    <2>1. \A q \in Requests : q = r \/ HasResult(q) => HasResult(q)'
      BY <1>4, <1>9 DEF HasResult
    <2>2. \A q \in Requests : q # r /\ Tracked(q) => Tracked(q)'
      BY <1>1, <1>7 DEF Tracked, Registered
    <2> QED
      BY <1>1, <2>1, <2>2 DEF Running
  <1>11. TagInv' /\ NotedInv'
    BY <1>1 DEF PromiseInv, TagInv, NotedInv, Noted
  <1>12. PassedInv'
    <2> SUFFICES ASSUME NEW i \in DOMAIN active[monitor.tag], i < monitor.pos + 1
                 PROVE  ~(requests'[active[monitor.tag][i]].status # "UNKNOWN")
      BY <1>1, <1>3 DEF PassedInv, InGroup, Registered
    <2>1. active[monitor.tag][i] \in Requests
      BY PromiseTypes DEF Members
    <2>2. i \in Nat /\ monitor.pos \in Nat
      BY PromiseTypes
    <2>3. CASE i = monitor.pos
      BY <1>4, <1>7, <2>1, <2>3
    <2>4. CASE i < monitor.pos
      <3>1. ~Registered(active[monitor.tag][i])
        BY <1>1, <2>4 DEF PromiseInv, PassedInv, InGroup
      <3> QED
        BY <1>7, <2>1, <3>1 DEF Registered
    <2> QED
      BY <2>2, <2>3, <2>4
  <1>13. FilesInv'
    BY <1>5 DEF PromiseInv, FilesInv, Original
  <1>14. LeftInv'
    <2> SUFFICES ASSUME NEW k \in Handlers, handler[k].pc = "write", ~handler[k].linked,
                        NEW q \in Requests, q = handler[k].req
                 PROVE  HasResult(q)' \/ q \in pulled
      BY <1>1, PromiseTypes DEF LeftInv
    <2> QED
      BY <1>8, <1>10 DEF PromiseInv, LeftInv
  <1>15. DumpedIsTracked'
    <2> SUFFICES ASSUME NEW m \in DOMAIN dump', m \notin Completed', Running
                 PROVE  m = Original(m.req) /\ Tracked(m.req)'
      BY <1>10 DEF DumpedIsTracked, Dropped, Original
    <2>1. m \in Dropped /\ m.req \in Requests /\ m # n
      BY <1>5, <1>9, PromiseTypes DEF Dropped
    <2>2. m = Original(m.req) /\ Tracked(m.req)
      BY <1>4, <2>1 DEF PromiseInv, DumpedIsTracked
    <2>3. m.req # r
      BY <1>6, <2>1, <2>2 DEF Dropped
    <2> QED
      BY <1>10, <2>1, <2>2, <2>3
  <1>16. PromiseKept'
    <2> SUFFICES ASSUME NEW q \in accepted \ pulled
                 PROVE  /\ \/ Original(q) \in DOMAIN dump'
                           \/ HasResult(q)'
                        /\ Running => Tracked(q)' \/ HasResult(q)'
      BY <1>1, <1>10 DEF PromiseKept, Original
    <2>1. q \in Requests
      BY DEF PromiseInv, AdmissionInv, TypeInv, TypeOK
    <2>2. CASE q = r
      BY <1>10, <2>1, <2>2
    <2>3. CASE q # r
      BY <1>5, <1>8, <1>10, <2>1, <2>3 DEF PromiseInv, PromiseKept
    <2> QED
      BY <2>2, <2>3
  <1> QED
    BY <1>11, <1>12, <1>13, <1>14, <1>15, <1>16

-------------------------------------------------------------------------------
(* Pulls, stops and restarts.                                              *)

LEMMA PullPromise ==
  ASSUME PromiseInv, NEW filter, PullDelete(filter)
  PROVE  /\ TagInv' /\ PassedInv' /\ NotedInv'
         /\ FilesInv' /\ LeftInv' /\ DumpedIsTracked' /\ PromiseKept'
  <1> DEFINE gone == Pulled(filter)
  <1>1. /\ UNCHANGED <<requests, active, handler, monitor, service, accepted>>
        /\ pulled' = pulled \cup {n.req : n \in gone}
    BY DEF PullDelete, volatile
  <1>2. /\ DOMAIN dump' = DOMAIN dump \ gone
        /\ \A n \in DOMAIN dump' : dump'[n] = dump[n]
    BY DEF PullDelete, Without
  <1>3. gone \subseteq Completed
    BY DEF Pulled
  <1> HIDE DEF gone
  <1>4. Completed' = Completed \ gone /\ Dropped' = Dropped
    BY <1>2, <1>3 DEF Completed, Dropped
  <1>5. \A q \in Requests : HasResult(q) => HasResult(q)' \/ q \in pulled'
    BY <1>1, <1>4 DEF HasResult
  <1>6. /\ \A q : Swapping(q)' <=> Swapping(q)
        /\ \A q : Tracked(q)' <=> Tracked(q)
        /\ Running' = Running
    BY <1>1 DEF Swapping, BeingSwapped, Tracked, Registered, Running, Current
  <1>7. TagInv' /\ PassedInv' /\ NotedInv'
    BY <1>1 DEF PromiseInv, TagInv, PassedInv, InGroup, NotedInv, Noted, Registered
  <1>8. FilesInv'
    BY <1>2 DEF PromiseInv, FilesInv, Original
  <1>9. LeftInv'
    <2> SUFFICES ASSUME NEW k \in Handlers, handler[k].pc = "write", ~handler[k].linked,
                        NEW q \in Requests, q = handler[k].req
                 PROVE  HasResult(q)' \/ Swapping(q)' \/ q \in pulled'
      BY <1>1, PromiseTypes DEF LeftInv
    <2> QED
      BY <1>1, <1>5, <1>6 DEF PromiseInv, LeftInv
  <1>10. DumpedIsTracked'
    BY <1>1, <1>4, <1>6 DEF PromiseInv, DumpedIsTracked, Original, Result, Current
  <1>11. PromiseKept'
    <2> SUFFICES ASSUME NEW q \in accepted \ pulled'
                 PROVE  /\ \/ Original(q) \in DOMAIN dump'
                           \/ HasResult(q)'
                           \/ Swapping(q)'
                        /\ Running => Tracked(q)' \/ HasResult(q)'
      BY <1>1, <1>6 DEF PromiseKept, Original
    <2>1. q \in Requests /\ q \in accepted \ pulled
      BY <1>1 DEF PromiseInv, AdmissionInv, TypeInv, TypeOK
    <2>2. HasResult(q) => HasResult(q)'
      BY <1>5, <2>1
    <2>3. Original(q) \in DOMAIN dump => Original(q) \in DOMAIN dump'
      BY <1>2, <1>3, <2>1, CompletedAre
    <2> QED
      BY <1>6, <2>1, <2>2, <2>3 DEF PromiseInv, PromiseKept
  <1> QED
    BY <1>7, <1>8, <1>9, <1>10, <1>11

LEMMA CalmPromise ==
  ASSUME PromiseInv, (\E i \in DOMAIN geo : MarkDone(i)) \/ Shutdown \/ UNCHANGED vars
  PROVE  /\ TagInv' /\ PassedInv' /\ NotedInv'
         /\ FilesInv' /\ LeftInv' /\ DumpedIsTracked' /\ PromiseKept'
  <1>1. /\ UNCHANGED <<requests, active, handler, monitor, dump, accepted, pulled>>
        /\ Running' = Running
    BY DEF MarkDone, Shutdown, vars, volatile, durable, history, bounds, Running
  <1>2. TagInv' /\ PassedInv' /\ NotedInv'
    BY <1>1 DEF PromiseInv, TagInv, PassedInv, InGroup, NotedInv, Noted, Registered
  <1>3. \A q \in Requests : Tracked(q) => Tracked(q)'
    BY <1>1 DEF Tracked, Registered
  <1>4. FilesInv' /\ LeftInv' /\ DumpedIsTracked' /\ PromiseKept'
    BY <1>1, <1>3, CalmStep
  <1> QED
    BY <1>2, <1>4

\* A crash gives up the request being swapped, an orderly stop none.
LEMMA StopPromise ==
  ASSUME PromiseInv, Crash \/ Exit
  PROVE  /\ TagInv' /\ PassedInv' /\ NotedInv'
         /\ FilesInv' /\ LeftInv' /\ DumpedIsTracked' /\ PromiseKept'
  <1>1. /\ LoseMemory /\ dump' = dump /\ pulled' = pulled
        /\ accepted' \subseteq accepted
        /\ \A q \in accepted' : ~Swapping(q)
    BY DEF Crash, Exit, durable, history, bounds, Swapping, BeingSwapped
  <1>2. /\ service' = "down" /\ monitor'.pc = "idle"
        /\ \A k \in Handlers : handler'[k].pc = "idle"
        /\ \A t \in Tags : active'[t] = <<>>
    BY <1>1 DEF LoseMemory, MonitorIdle, Idle, HandlerAt
  <1>3. TagInv' /\ PassedInv' /\ NotedInv' /\ LeftInv'
    BY <1>2 DEF TagInv, PassedInv, InGroup, NotedInv, LeftInv
  <1>4. FilesInv'
    BY <1>1 DEF PromiseInv, FilesInv, Original
  <1>5. DumpedIsTracked'
    BY <1>2 DEF DumpedIsTracked, Running
  <1>6. PromiseKept'
    <2>1. \A q : HasResult(q)' <=> HasResult(q)
      BY <1>1 DEF HasResult, Completed
    <2> QED
      BY <1>1, <1>2, <2>1 DEF PromiseInv, PromiseKept, Running, Original
  <1> QED
    BY <1>3, <1>4, <1>5, <1>6

\* The service comes up only with files that are requests under their old ids,
\* or completed, and tracks all of the former.
LEMMA RestartPromise ==
  ASSUME PromiseInv, Restart
  PROVE  /\ TagInv' /\ PassedInv' /\ NotedInv'
         /\ FilesInv' /\ LeftInv' /\ DumpedIsTracked' /\ PromiseKept'
  <1>1. /\ UNCHANGED <<handler, monitor, dump, accepted, pulled>>
        /\ service = "down" /\ Restartable
    BY DEF Restart, durable, history, bounds
  <1>2. /\ monitor.pc = "idle"
        /\ \A k \in Handlers : handler[k].pc = "idle"
    BY <1>1 DEF PromiseInv, AdmissionInv, TypeInv, PositionOK, DownInv
  <1>3. /\ Completed' = Completed /\ Dropped' = Dropped
        /\ \A q : HasResult(q)' <=> HasResult(q)
    BY <1>1 DEF Completed, Dropped, HasResult
  <1>4. \A t \in Tags : Members(active'[t]) = DroppedUnder(t)
    BY DEF Restart, Orders
  <1>5. TagInv'
    <2> SUFFICES ASSUME NEW t \in Tags, NEW i \in DOMAIN active'[t]
                 PROVE  GroupTag[active'[t][i]] = t
      BY DEF TagInv
    <2>1. active'[t][i] \in DroppedUnder(t)
      BY <1>4 DEF Members
    <2> QED
      BY <2>1 DEF DroppedUnder
  <1>6. PassedInv' /\ NotedInv' /\ LeftInv'
    BY <1>1, <1>2 DEF PassedInv, InGroup, NotedInv, LeftInv
  <1>7. FilesInv'
    BY <1>1 DEF PromiseInv, FilesInv, Original
  <1>8. ASSUME NEW q \in Requests, Original(q) \in Dropped
        PROVE  Tracked(q)'
    <2>1. requests'[q].status = "REQUESTED"
      BY <1>8 DEF Restart
    <2>2. GroupTag[q] \in Tags /\ Original(q).req = q
      BY PromiseTypes DEF Original
    <2>3. q \in DroppedUnder(GroupTag[q])
      BY <1>8, <2>2 DEF DroppedUnder
    <2>4. q \in Members(active'[GroupTag[q]])
      BY <1>4, <2>2, <2>3
    <2> QED
      BY <2>1, <2>4 DEF Tracked, Registered
  <1>9. DumpedIsTracked'
    <2> SUFFICES ASSUME NEW n \in Dropped
                 PROVE  n = Original(n.req) /\ Tracked(n.req)'
      BY <1>3 DEF DumpedIsTracked, Original
    <2>1. n \in DOMAIN dump /\ dump[n] = [status |-> "REQUESTED", data |-> n]
      BY <1>1 DEF Restartable, Dropped
    <2>2. dump[n].status = "REQUESTED"
      BY <2>1
    <2>3. n = Original(n.req)
      BY <2>1, <2>2 DEF PromiseInv, FilesInv
    <2> QED
      BY <1>8, <2>1, <2>3, PromiseTypes
  <1>10. PromiseKept'
    <2> SUFFICES ASSUME NEW q \in accepted \ pulled
                 PROVE  /\ Original(q) \in DOMAIN dump \/ HasResult(q)
                        /\ Tracked(q)' \/ HasResult(q)
      BY <1>1, <1>3 DEF PromiseKept, Original
    <2>1. q \in Requests
      BY DEF PromiseInv, AdmissionInv, TypeInv, TypeOK
    <2>2. Original(q) \in DOMAIN dump \/ HasResult(q)
      BY <1>1 DEF PromiseInv, PromiseKept, Swapping, Running
    <2>3. Original(q) \in DOMAIN dump => Original(q) \in Dropped
      BY <2>1, CompletedAre DEF Dropped
    <2> QED
      BY <1>8, <2>1, <2>2, <2>3
  <1> QED
    BY <1>5, <1>6, <1>7, <1>9, <1>10

-------------------------------------------------------------------------------
(* The invariant and the theorems.                                         *)

LEMMA PromiseInit == Init => PromiseInv
  <1> SUFFICES ASSUME Init
               PROVE  PromiseInv
    OBVIOUS
  <1>1. /\ monitor.pc = "idle" /\ DOMAIN dump = {} /\ accepted = {}
        /\ \A k \in Handlers : handler[k].pc = "idle"
        /\ \A t \in Tags : active[t] = <<>>
    BY DEF Init, VolatileInit, MonitorIdle, Idle, HandlerAt
  <1>2. TagInv /\ PassedInv /\ NotedInv /\ FilesInv /\ LeftInv
    BY <1>1 DEF TagInv, PassedInv, InGroup, NotedInv, FilesInv, LeftInv
  <1>3. DumpedIsTracked /\ PromiseKept
    BY <1>1 DEF DumpedIsTracked, Dropped, PromiseKept
  <1> QED
    BY <1>2, <1>3, AdmissionInit DEF PromiseInv

LEMMA PromiseStep ==
  ASSUME PromiseInv, [Next]_vars
  PROVE  PromiseInv'
  <1>1. AdmissionInv'
    BY AdmissionStep DEF PromiseInv
  <1>2. /\ TagInv' /\ PassedInv' /\ NotedInv'
        /\ FilesInv' /\ LeftInv' /\ DumpedIsTracked' /\ PromiseKept'
    BY SubmitPromise, RegisterPromise, InsertPromise, ActivatePromise, OpenDumpPromise, WriteDumpPromise,
       TurnPromise, MergePromise, EndGroupPromise, UnlinkPromise, OpenResultPromise,
       WriteResultPromise, PullPromise, CalmPromise, StopPromise, RestartPromise
    DEF Next, HandlerStep, MonitorStep
  <1> QED
    BY <1>1, <1>2 DEF PromiseInv

LEMMA PromiseAlways == Spec => []PromiseInv
  <1>1. PromiseInv /\ [Next]_vars => PromiseInv'
    BY PromiseStep
  <1> QED
    BY <1>1, PromiseInit, PTL DEF Spec

\* A request answered with error 0 is not lost, through crashes, restarts,
\* failing inserts, deleting pulls and tag collisions; only a crash while the
\* monitor swaps the dumped request for its result gives it up.
THEOREM AcceptedIsNotLost == Spec => []PromiseKept
  <1>1. PromiseInv => PromiseKept
    BY DEF PromiseInv
  <1> QED
    BY <1>1, PromiseAlways, PTL

\* The running service tracks every dumped request that it has not completed.
THEOREM NoZombies == Spec => []DumpedIsTracked
  <1>1. PromiseInv => DumpedIsTracked
    BY DEF PromiseInv
  <1> QED
    BY <1>1, PromiseAlways, PTL

\* Where the monitor stays with its group and the entries, the result it writes is the
\* same.
LEMMA SameResult ==
  ASSUME UNCHANGED <<active, monitor>>, requests'[Current].joins = requests[Current].joins
  PROVE  Result(Current)' = Result(Current)
BY DEF Result, Current

\* What no step does to a result that is there or being written.
LEMMA StableStep ==
  ASSUME PromiseInv, [Next]_vars, NEW n \in Results
  PROVE  \/ n \in Results'
         \/ n.req \in pulled'
         \/ crashes' # crashes /\ monitor.pc = "write" /\ n = Result(Current)
<1>1. CASE n \in Completed
  <2>1. n \in DOMAIN dump /\ dump[n].status = "COMPLETED"
    BY <1>1 DEF Completed
  <2> DEFINE same == n \in DOMAIN dump' /\ dump'[n] = dump[n]
  <2>2. same => n \in Results'
    BY <2>1 DEF Results, Completed
  <2>3. dump' = dump => same
    BY <2>1
  <2>4. ASSUME NEW h \in Handlers, OpenDump(h) \/ WriteDump(h)
        PROVE  same
    <3>1. n # Original(handler[h].req)
      BY <1>1, CompletedAre, PromiseTypes
    <3>2. dump' = dump \/ \E file : dump' = Put(dump, Original(handler[h].req), file)
      BY <2>4 DEF OpenDump, WriteDump
    <3> QED
      BY <2>1, <3>1, <3>2 DEF Put
  <2>5. CASE Unlink
    <3>1. n # Original(Current)
      BY <1>1, <2>5, CurrentType, CompletedAre DEF Unlink, PromiseInv, AdmissionInv
    <3> QED
      BY <2>1, <2>2, <2>5, <3>1 DEF Unlink, Without
  <2>6. CASE OpenResult
    <3>1. CASE n = Result(Current)
      <4>1. monitor'.pc = "write" /\ Result(Current)' = Result(Current)
        BY <2>6, PromiseTypes DEF OpenResult, MonitorStates, Result, Current
      <4> QED
        BY <3>1, <4>1 DEF Results
    <3>2. CASE n # Result(Current)
      BY <2>1, <2>2, <2>6, <3>2 DEF OpenResult, Put
    <3> QED
      BY <3>1, <3>2
  <2>7. CASE WriteResult
    <3>1. dump[n] = [status |-> "COMPLETED", data |-> n]
      BY <1>1, CompletedAre
    <3> QED
      BY <2>1, <2>2, <2>7, <3>1 DEF WriteResult, Put
  <2>8. ASSUME NEW filter, PullDelete(filter)
        PROVE  same \/ n.req \in pulled'
    BY <2>1, <2>8 DEF PullDelete, Without
  <2>9. ASSUME NEW h \in Handlers,
               \/ \E r \in Requests : Submit(h, r)
               \/ Register(h) \/ RejectCSV(h) \/ LockEngine(h) \/ InsertChunk(h)
               \/ InsertChunkShort(h) \/ InsertChunkError(h) \/ Activate(h)
        PROVE  dump' = dump
    BY <2>9 DEF Submit, Register, RejectCSV, LockEngine, InsertChunk, InsertChunkShort,
                InsertChunkError, Activate, durable
  <2>10. CASE Poll \/ LockRequests \/ MergeMissing \/ Merge \/ UnlinkMissing \/ EndGroup
    <3>1. dump' = dump
      BY <2>10 DEF Poll, LockRequests, MergeMissing, Merge, UnlinkMissing, EndGroup, durable
    <3> QED
      BY <2>2, <2>3, <3>1
  <2>11. CASE \/ \E i \in DOMAIN geo : MarkDone(i)
              \/ Crash \/ Shutdown \/ Exit \/ Restart \/ UNCHANGED vars
    <3>1. dump' = dump
      BY <2>11 DEF MarkDone, Crash, Shutdown, Exit, Restart, vars, durable
    <3> QED
      BY <2>2, <2>3, <3>1
  <2> HIDE DEF same
  <2> QED
    BY <2>2, <2>3, <2>4, <2>5, <2>6, <2>7, <2>8, <2>9, <2>10, <2>11
    DEF Next, HandlerStep, MonitorStep
<1>2. CASE monitor.pc = "write" /\ n = Result(Current)
  <2>1. /\ requestsLock = "monitor" /\ engineLock = "monitor" /\ service # "down"
        /\ "monitor" \notin Handlers /\ Current \in Requests
    BY <1>2, GeocoderAssumption, CurrentType
    DEF PromiseInv, AdmissionInv, TypeInv, LockDiscipline, PositionOK
  <2>2. ASSUME UNCHANGED <<active, monitor>>,
               requests'[Current].joins = requests[Current].joins
        PROVE  n \in Results'
    BY <1>2, <2>2, SameResult DEF Results
  <2>3. ASSUME NEW h \in Handlers, HandlerStep(h) \/ \E r \in Requests : Submit(h, r)
        PROVE  n \in Results'
    <3>1. ~(\E r \in Requests : Submit(h, r)) /\ ~Register(h) /\ ~Activate(h)
      <4>1. handler[h].pc # "checking" /\ handler[h].pc # "insert"
        BY <2>1 DEF PromiseInv, AdmissionInv, TypeInv, LockDiscipline
      <4> QED
        BY <2>1, <4>1 DEF Submit, Register, Activate, Inserting
    <3>2. UNCHANGED <<active, monitor>>
      BY <2>3, <3>1 DEF HandlerStep, RejectCSV, LockEngine, InsertChunk, InsertChunkShort,
                        InsertChunkError, OpenDump, WriteDump
    <3>3. CASE OpenDump(h)
      <4>1. requests'[Current].joins = requests[Current].joins
        BY <2>1, <3>3, PromiseTypes DEF OpenDump, Objects
      <4> QED
        BY <2>2, <3>2, <4>1
    <3>4. CASE ~OpenDump(h)
      <4>1. requests' = requests
        BY <2>3, <3>1, <3>4 DEF HandlerStep, RejectCSV, LockEngine, InsertChunk,
                                InsertChunkShort, InsertChunkError, WriteDump
      <4> QED
        BY <2>2, <3>2, <4>1
    <3> QED
      BY <3>3, <3>4
  <2>4. ASSUME MonitorStep
        PROVE  n \in Results'
    <3>1. WriteResult
      BY <1>2, <2>4 DEF MonitorStep, Poll, LockRequests, MergeMissing, Merge, UnlinkMissing,
                        Unlink, OpenResult, EndGroup
    <3> QED
      BY <1>2, <3>1 DEF WriteResult, Put, Results, Completed
  <2>5. CASE Crash
    <3>1. crashes' # crashes
      BY <2>5 DEF Crash, PromiseInv, AdmissionInv, TypeInv, TypeOK
    <3> QED
      BY <1>2, <3>1
  <2>6. ~Exit /\ ~Restart
    BY <1>2, <2>1 DEF Exit, Restart
  <2>7. ASSUME \/ \E filter \in {""} \cup {ClientTag[r] : r \in Requests} : PullDelete(filter)
               \/ \E i \in DOMAIN geo : MarkDone(i)
               \/ Shutdown \/ UNCHANGED vars
        PROVE  n \in Results'
    <3>1. UNCHANGED <<active, monitor, requests>>
      BY <2>7 DEF PullDelete, MarkDone, Shutdown, vars, volatile
    <3> QED
      BY <2>2, <3>1
  <2> QED
    BY <2>3, <2>4, <2>5, <2>6, <2>7 DEF Next
<1> QED
  BY <1>1, <1>2 DEF Results

\* A result leaves dump_dir only by being pulled, or by a crash between the open and the
\* write of the file, where its request was completed again with the same result.
THEOREM ResultsStay == Spec => ResultsAreStable
<1> DEFINE Stable == \A n \in Results :
                       \/ n \in Results'
                       \/ n.req \in pulled'
                       \/ crashes' # crashes /\ monitor.pc = "write" /\ n = Result(Current)
<1>1. PromiseInv /\ [Next]_vars => [Stable]_vars
  BY StableStep
<1> QED
  BY <1>1, PromiseAlways, PTL DEF Spec, ResultsAreStable

-------------------------------------------------------------------------------
(* Output tables, where no crash interrupts a swap and no pull deletes.    *)

\* A pull without delete_pulled_data changes nothing, a first crash is one.
LEMMA ExportStep ==
  ASSUME PromiseInv, ExportHasResult, [Next]_vars, MaxCrashes = 0, PullMayDelete = FALSE
  PROVE  ExportHasResult'
  <1>1. \A r \in Requests : \A e : [req |-> r, joins |-> e].req = r /\ [req |-> r, joins |-> e].joins = e
    OBVIOUS
  <1>2. CASE UNCHANGED <<requests, active, monitor, exported, dump>> /\ Running' = Running
    BY <1>2 DEF ExportHasResult, Swapping, BeingSwapped, Current, Completed
  <1>3. CASE UNCHANGED <<exported, dump>> /\ ~Swaps
    BY <1>3 DEF ExportHasResult, Swapping, BeingSwapped, Swaps, Completed
  <1>4. ASSUME NEW h \in Handlers,
               \/ \E r \in Requests : Submit(h, r)
               \/ Register(h) \/ RejectCSV(h) \/ LockEngine(h) \/ InsertChunk(h)
               \/ InsertChunkShort(h) \/ InsertChunkError(h) \/ Activate(h)
        PROVE  ExportHasResult'
    <2>1. UNCHANGED <<exported, dump>>
      BY <1>4 DEF Submit, Register, RejectCSV, LockEngine, InsertChunk, InsertChunkShort,
                  InsertChunkError, Activate, durable
    <2>2. Register(h) \/ Activate(h) => ~Swaps
      BY NobodyElse
    <2>3. ASSUME (\E r \in Requests : Submit(h, r)) \/ RejectCSV(h) \/ LockEngine(h)
                 \/ InsertChunk(h) \/ InsertChunkShort(h) \/ InsertChunkError(h)
          PROVE  UNCHANGED <<requests, active, monitor>> /\ Running' = Running
      BY <2>3 DEF Submit, RejectCSV, LockEngine, InsertChunk, InsertChunkShort,
                  InsertChunkError, Running
    <2> QED
      BY <1>2, <1>3, <1>4, <2>1, <2>2, <2>3
  <1>5. ASSUME NEW h \in Handlers, OpenDump(h) \/ WriteDump(h)
        PROVE  ExportHasResult'
    <2> DEFINE r == handler[h].req
    <2>1. r \in Requests
      BY PromiseTypes
    <2>2. Completed' = Completed
      <3>1. CASE dump' = dump
        BY <3>1 DEF Completed
      <3>2. CASE OpenDump(h)
        <4>1. Empty(Original(r)).status # "COMPLETED"
          BY DEF Empty
        <4> QED
          BY <2>1, <3>2, <4>1, PutOriginal DEF OpenDump
      <3>3. CASE WriteDump(h) /\ dump' # dump
        <4> DEFINE file == [status |-> requests[r].status,
                            data |-> [req |-> r, joins |-> requests[r].joins]]
        <4>1. handler[h].linked /\ dump' = Put(dump, Original(r), file)
          BY <3>3 DEF WriteDump
        <4>2. file.status # "COMPLETED"
          BY <3>3, <4>1 DEF WriteDump, Admitting, PromiseInv, AdmissionInv, TicketInv
        <4> HIDE DEF file
        <4> QED
          BY <2>1, <4>1, <4>2, PutOriginal
      <3> QED
        BY <1>5, <3>1, <3>2, <3>3
    <2>3. UNCHANGED <<active, monitor, exported, service>>
      BY <1>5 DEF OpenDump, WriteDump
    <2>4. \A q \in Requests : requests'[q].joins = requests[q].joins
      <3>1. CASE OpenDump(h)
        BY <2>1, <3>1, PromiseTypes DEF OpenDump, Objects
      <3>2. CASE WriteDump(h)
        BY <3>2 DEF WriteDump
      <3> QED
        BY <1>5, <3>1, <3>2
    <2> QED
      BY <2>2, <2>3, <2>4 DEF ExportHasResult, Swapping, BeingSwapped, Current, Running
  <1>6. CASE Poll \/ LockRequests \/ MergeMissing \/ Merge \/ UnlinkMissing \/ EndGroup
    <2>1. UNCHANGED <<exported, dump>> /\ ~Swaps
      BY <1>6 DEF Poll, LockRequests, MergeMissing, Merge, UnlinkMissing, EndGroup,
                  durable, Swaps
    <2> QED
      BY <1>3, <2>1
  <1>7. CASE Unlink
    <2>1. Current \in Requests /\ monitor.pc = "unlink"
      BY <1>7, CurrentType DEF Unlink, PromiseInv, AdmissionInv
    <2>2. monitor'.pc = "open" /\ Current' = Current /\ Running'
      BY <1>7, PromiseTypes DEF Unlink, MonitorStates, Current, Running
    <2>3. \A q \in Requests : requests'[q].joins = requests[q].joins
      BY <1>7, <2>1, PromiseTypes DEF Unlink, Objects
    <2>4. \A n \in Completed : n \in Completed'
      BY <1>7, <2>1, CompletedAre DEF Unlink, Without, Completed
    <2>5. exported \in [Requests -> Seq(Mappings)]
      BY DEF PromiseInv, AdmissionInv, TypeInv, TypeOK
    <2>6. \A q \in Requests : \/ exported'[q] = exported[q]
                              \/ q = Current /\ exported'[q] = requests[q].joins
      BY <1>7, <2>1, <2>5 DEF Unlink
    <2> SUFFICES ASSUME NEW q \in Requests, exported'[q] # <<>>
                 PROVE  \/ [req |-> q, joins |-> exported'[q]] \in Completed'
                        \/ Swapping(q)' /\ requests'[q].joins = exported'[q]
      BY DEF ExportHasResult
    <2>7. ~Swapping(q)
      BY <2>1 DEF Swapping, BeingSwapped
    <2>8. CASE exported'[q] = exported[q]
      BY <2>4, <2>7, <2>8 DEF ExportHasResult
    <2>9. CASE q = Current /\ exported'[q] = requests[q].joins
      <3>1. Swapping(q)'
        BY <2>2, <2>9 DEF Swapping, BeingSwapped
      <3> QED
        BY <2>3, <2>9, <3>1
    <2> QED
      BY <2>6, <2>8, <2>9
  <1>8. CASE OpenResult
    <2>1. /\ UNCHANGED <<requests, active, exported>> /\ Running' /\ Running
          /\ monitor.pc = "open"
      BY <1>8 DEF OpenResult, Running
    <2>2. monitor'.pc = "write" /\ Current' = Current
      BY <1>8, PromiseTypes DEF OpenResult, MonitorStates, Current
    <2>3. \A n \in Completed : n # Result(Current) => n \in Completed'
      BY <1>8 DEF OpenResult, Put, Completed
    <2> SUFFICES ASSUME NEW q \in Requests, exported[q] # <<>>
                 PROVE  \/ [req |-> q, joins |-> exported[q]] \in Completed'
                        \/ Swapping(q)' /\ requests[q].joins = exported[q]
      BY <2>1 DEF ExportHasResult
    <2>4. Swapping(q) <=> Swapping(q)'
      BY <2>1, <2>2 DEF Swapping, BeingSwapped
    <2>5. CASE [req |-> q, joins |-> exported[q]] = Result(Current)
      <3>1. q = Current /\ requests[q].joins = exported[q]
        BY <1>1, <2>5 DEF Result
      <3>2. Swapping(q)
        BY <2>1, <3>1 DEF Swapping, BeingSwapped
      <3> QED
        BY <2>4, <3>1, <3>2
    <2>6. CASE [req |-> q, joins |-> exported[q]] # Result(Current)
      BY <2>3, <2>4, <2>6 DEF ExportHasResult
    <2> QED
      BY <2>5, <2>6
  <1>9. CASE WriteResult
    <2>1. exported' = exported /\ monitor.pc = "write"
      BY <1>9 DEF WriteResult
    <2>2. /\ \A n \in Completed : n \in Completed'
          /\ Result(Current) \in Completed'
      <3> DEFINE n == Result(Current)
                 file == [status |-> "COMPLETED", data |-> n]
                 d == Put(dump, n, file)
      <3>1. dump' = d
        BY <1>9 DEF WriteResult
      <3>2. file.status = "COMPLETED"
        OBVIOUS
      <3>3. /\ DOMAIN d = DOMAIN dump \cup {n}
            /\ \A m \in DOMAIN dump : m # n => d[m] = dump[m]
            /\ d[n] = file
        BY DEF Put
      <3>4. Completed' = {m \in DOMAIN dump' : dump'[m].status = "COMPLETED"}
        BY DEF Completed
      <3> HIDE DEF d, file, n
      <3>5. n \in Completed' /\ \A m \in Completed : m \in Completed'
        BY <3>1, <3>2, <3>3, <3>4 DEF Completed
      <3> QED
        BY <3>5 DEF n
    <2> SUFFICES ASSUME NEW q \in Requests, exported[q] # <<>>
                 PROVE  [req |-> q, joins |-> exported[q]] \in Completed'
      BY <2>1 DEF ExportHasResult
    <2>3. CASE Swapping(q) /\ requests[q].joins = exported[q]
      <3>1. q = Current
        BY <2>1, <2>3 DEF Swapping, BeingSwapped
      <3>2. [req |-> q, joins |-> exported[q]] = Result(Current)
        BY <2>3, <3>1 DEF Result
      <3> QED
        BY <2>2, <3>2
    <2> QED
      BY <2>2, <2>3 DEF ExportHasResult
  <1>10. CASE (\E i \in DOMAIN geo : MarkDone(i)) \/ Shutdown \/ UNCHANGED vars
    <2>1. UNCHANGED <<requests, active, monitor, exported, dump>> /\ Running' = Running
      BY <1>10 DEF MarkDone, Shutdown, vars, volatile, durable, Running
    <2> QED
      BY <1>2, <2>1
  <1>11. CASE Exit \/ Restart
    <2>1. UNCHANGED <<exported, dump>>
      BY <1>11 DEF Exit, Restart, durable
    <2>2. ~Swaps
      BY <1>11 DEF Exit, Restart, Swaps, PromiseInv, AdmissionInv, TypeInv, PositionOK
    <2> QED
      BY <1>3, <2>1, <2>2
  <1>12. ~Crash
    BY DEF Crash, PromiseInv, AdmissionInv, TypeInv, TypeOK
  <1>13. \A filter : ~PullDelete(filter)
    BY DEF PullDelete
  <1> QED
    BY <1>4, <1>5, <1>6, <1>7, <1>8, <1>9, <1>10, <1>11, <1>12, <1>13
    DEF Next, HandlerStep, MonitorStep

\* Unless a crash comes between, or a pull deletes the result, what an output
\* table was written with is in a result file of its request, or about to be.
THEOREM ExportsHaveResults ==
  ASSUME MaxCrashes = 0, PullMayDelete = FALSE
  PROVE  Spec => []ExportHasResult
  <1>1. Init => ExportHasResult
    BY DEF Init, ExportHasResult
  <1>2. PromiseInv /\ ExportHasResult /\ [Next]_vars => ExportHasResult'
    BY ExportStep
  <1> QED
    BY <1>1, <1>2, PromiseAlways, PTL DEF Spec

-------------------------------------------------------------------------------
(* Entries of active_group_tags_ and what they stand for.                  *)

\* Every entry was there before or is of a registered request, and neither a registration
\* nor a result has gone without leaving the other or having been pulled.
LEMMA EntryFrame ==
  ASSUME PromiseInv, ActiveRegistered, [Next]_vars, crashes' = crashes,
         \A q \in Requests : Registered(q) => Registered(q)' \/ HasResult(q)',
         \A t \in Tags : \A i \in DOMAIN active'[t] :
           \/ \E j \in DOMAIN active[t] : active[t][j] = active'[t][i]
           \/ active'[t][i] \in Requests /\ Registered(active'[t][i])
  PROVE  ActiveRegistered'
<1> SUFFICES ASSUME NEW t \in Tags, NEW i \in DOMAIN active'[t], NEW q, q = active'[t][i]
             PROVE  Registered(q)' \/ HasResult(q)' \/ q \in pulled'
  BY DEF ActiveRegistered
<1>1. q \in Requests
  BY PromiseTypes DEF Members
<1>2. Registered(q) \/ HasResult(q) \/ q \in pulled
  BY DEF ActiveRegistered
<1>3. pulled \subseteq pulled'
  BY DEF Next, HandlerStep, MonitorStep, Submit, Register, RejectCSV, LockEngine, InsertChunk,
         InsertChunkShort, InsertChunkError, Activate, OpenDump, WriteDump, Poll,
         LockRequests, MergeMissing, Merge, UnlinkMissing, Unlink, OpenResult, WriteResult,
         EndGroup, PullDelete, MarkDone, Crash, Shutdown, Exit, Restart, vars, history
<1>4. CASE HasResult(q)
  <2>1. PICK n \in Completed : n.req = q
    BY <1>4 DEF HasResult
  <2>2. n \in Results' \/ q \in pulled'
    BY <2>1, StableStep DEF Results
  <2>3. CASE n \in Completed'
    BY <2>1, <2>3 DEF HasResult
  <2>4. CASE (monitor.pc = "write" /\ n = Result(Current))'
    <3>1. Registered(Current)' /\ n.req = Current'
      BY <2>4, AdmissionStep DEF PromiseInv, AdmissionInv, EntryInv, AtEntry, Result
    <3> QED
      BY <2>1, <3>1 DEF Registered
  <2> QED
    BY <2>2, <2>3, <2>4 DEF Results
<1> QED
  BY <1>1, <1>2, <1>3, <1>4

LEMMA EntriesStep ==
  ASSUME PromiseInv, ActiveRegistered, [Next]_vars
  PROVE  ActiveRegistered'
<1> DEFINE kept == \A q \in Requests : Registered(q) => Registered(q)'
<1>1. ASSUME UNCHANGED <<active, crashes>>, kept
      PROVE  ActiveRegistered'
  BY <1>1, EntryFrame
<1>2. ASSUME NEW h \in Handlers, HandlerStep(h) \/ \E r \in Requests : Submit(h, r)
      PROVE  ActiveRegistered'
  <2>1. kept
    <3>1. CASE Register(h) \/ OpenDump(h)
      <4>1. CASE Register(h)
        BY <4>1, PromiseTypes DEF Register, Received, Registered
      <4>2. CASE OpenDump(h)
        BY <4>2, PromiseTypes DEF OpenDump, Registered, Objects
      <4> QED
        BY <3>1, <4>1, <4>2
    <3>2. CASE ~(Register(h) \/ OpenDump(h))
      BY <1>2, <3>2 DEF HandlerStep, Submit, RejectCSV, LockEngine, InsertChunk,
        InsertChunkShort, InsertChunkError, Activate, WriteDump, Registered
    <3> QED
      BY <3>1, <3>2
  <2>2. crashes' = crashes
    BY <1>2 DEF HandlerStep, Submit, Register, RejectCSV, LockEngine, InsertChunk,
      InsertChunkShort, InsertChunkError, Activate, OpenDump, WriteDump, history, bounds
  <2>3. CASE ~Activate(h)
    <3>1. UNCHANGED active
      BY <1>2, <2>3 DEF HandlerStep, Submit, Register, RejectCSV, LockEngine, InsertChunk,
        InsertChunkShort, InsertChunkError, OpenDump, WriteDump
    <3> QED
      BY <1>1, <2>1, <2>2, <3>1
  <2>4. CASE Activate(h)
    <3> DEFINE r == handler[h].req
               t == GroupTag[r]
    <3>1. r \in Requests /\ t \in Tags
      BY PromiseTypes
    <3>2. Registered(r)
      <4>1. Admitting(h)
        BY <2>4 DEF Activate, Inserting, Admitting
      <4> QED
        BY <4>1 DEF PromiseInv, AdmissionInv, TicketInv, Registered
    <3>3. /\ active'[t] = Append(active[t], r)
          /\ \A s \in Tags \ {t} : active'[s] = active[s]
      BY <2>4, <3>1, PromiseTypes DEF Activate
    <3> HIDE DEF t, r
    <3>4. /\ DOMAIN active'[t] = 1..(Len(active[t]) + 1)
          /\ DOMAIN active[t] = 1..Len(active[t]) /\ Len(active[t]) \in Nat
          /\ \A i \in DOMAIN active[t] : active'[t][i] = active[t][i]
          /\ active'[t][Len(active[t]) + 1] = r
      BY <3>1, <3>3, Appended, PromiseTypes
    <3>5. ASSUME NEW s \in Tags, NEW i \in DOMAIN active'[s]
          PROVE  \/ \E j \in DOMAIN active[s] : active[s][j] = active'[s][i]
                 \/ active'[s][i] \in Requests /\ Registered(active'[s][i])
      <4>1. CASE s # t
        BY <3>3, <3>5, <4>1
      <4>2. CASE s = t /\ i \in DOMAIN active[t]
        BY <3>4, <4>2
      <4>3. CASE s = t /\ i \notin DOMAIN active[t]
        <5>1. i = Len(active[t]) + 1
          BY <3>4, <3>5, <4>3
        <5> QED
          BY <3>1, <3>2, <3>4, <4>3, <5>1
      <4> QED
        BY <4>1, <4>2, <4>3
    <3> QED
      BY <2>1, <2>2, <3>5, EntryFrame
  <2> QED
    BY <2>3, <2>4
<1>3. ASSUME MonitorStep
      PROVE  ActiveRegistered'
  <2>1. crashes' = crashes
    BY <1>3 DEF MonitorStep, Poll, LockRequests, MergeMissing, Merge, UnlinkMissing, Unlink,
                OpenResult, WriteResult, EndGroup, history, bounds
  <2>2. CASE WriteResult
    <3>1. PICK c \in Requests : c = Current
      BY <2>2, CurrentType DEF WriteResult, PromiseInv, AdmissionInv
    <3>2. active' = active /\ \A q \in Requests : q # c => requests'[q] = requests[q]
      BY <2>2, <3>1, PromiseTypes DEF WriteResult
    <3>3. HasResult(c)'
      <4>1. Result(Current) \in Completed' /\ Result(Current).req = c
        BY <2>2, <3>1 DEF WriteResult, Completed, Put, Result
      <4> QED
        BY <4>1 DEF HasResult
    <3>4. \A q \in Requests : Registered(q) => Registered(q)' \/ HasResult(q)'
      BY <3>2, <3>3 DEF Registered
    <3> QED
      BY <2>1, <3>2, <3>4, EntryFrame
  <2>3. CASE EndGroup
    <3>1. requests' = requests
      BY <2>3 DEF EndGroup
    <3>2. \A t \in Tags : active'[t] = active[t] \/ active'[t] = <<>>
      BY <2>3, PromiseTypes DEF EndGroup
    <3>3. DOMAIN <<>> = {}
      OBVIOUS
    <3> QED
      BY <2>1, <3>1, <3>2, <3>3, EntryFrame DEF Registered
  <2>4. CASE Merge \/ Unlink
    <3>1. Current \in Requests
      BY <2>4, CurrentType DEF Merge, Unlink, PromiseInv, AdmissionInv
    <3>2. kept
      <4>1. CASE Merge
        BY <3>1, <4>1, PromiseTypes DEF Merge, Registered, Objects
      <4>2. CASE Unlink
        BY <3>1, <4>2, PromiseTypes DEF Unlink, Registered, Objects
      <4> QED
        BY <2>4, <4>1, <4>2
    <3> QED
      BY <1>1, <2>1, <2>4, <3>2 DEF Merge, Unlink
  <2>5. CASE Poll \/ LockRequests \/ MergeMissing \/ UnlinkMissing \/ OpenResult
    <3>1. UNCHANGED <<active, requests>>
      BY <2>5 DEF Poll, LockRequests, MergeMissing, UnlinkMissing, OpenResult
    <3> QED
      BY <1>1, <2>1, <3>1 DEF Registered
  <2> QED
    BY <1>3, <2>2, <2>3, <2>4, <2>5 DEF MonitorStep
<1>4. ASSUME \/ \E filter \in {""} \cup {ClientTag[r] : r \in Requests} : PullDelete(filter)
             \/ \E i \in DOMAIN geo : MarkDone(i)
             \/ Shutdown \/ UNCHANGED vars
      PROVE  ActiveRegistered'
  <2>1. UNCHANGED <<active, requests, crashes>>
    BY <1>4 DEF PullDelete, MarkDone, Shutdown, vars, volatile, history, bounds
  <2> QED
    BY <1>1, <2>1 DEF Registered
<1>5. CASE Crash \/ Exit
  <2>1. \A t \in Tags : active'[t] = <<>>
    BY <1>5 DEF Crash, Exit, LoseMemory
  <2> QED
    BY <2>1 DEF ActiveRegistered
<1>6. CASE Restart
  <2> SUFFICES ASSUME NEW t \in Tags, NEW i \in DOMAIN active'[t]
               PROVE  requests'[active'[t][i]].status # "UNKNOWN"
    BY DEF ActiveRegistered, Registered
  <2>1. active'[t][i] \in DroppedUnder(t)
    BY <1>6 DEF Restart, Orders, Members
  <2>2. PICK n \in Dropped : n.req = active'[t][i]
    BY <2>1 DEF DroppedUnder
  <2>3. n \in DOMAIN dump /\ dump[n] = [status |-> "REQUESTED", data |-> n]
    BY <1>6 DEF Restart, Restartable, Dropped
  <2>4. dump[n].status = "REQUESTED"
    BY <2>3
  <2>5. n = Original(n.req) /\ n.req \in Requests
    <3>1. n.req \in Requests
      BY <2>3, PromiseTypes
    <3>2. dump[n] # [status |-> "COMPLETED", data |-> n]
      BY <2>4
    <3> QED
      BY <2>3, <2>4, <3>1, <3>2 DEF PromiseInv, FilesInv
  <2> QED
    BY <1>6, <2>2, <2>5 DEF Restart, Registered
<1> HIDE DEF kept
<1> QED
  BY <1>2, <1>3, <1>4, <1>5, <1>6 DEF Next

\* An entry of active_group_tags_ whose request has lost its registration is of a
\* finished request: whatever requests share a tag, however often they are submitted,
\* whatever fails or stops.
THEOREM EntriesAreRegistered == Spec => []ActiveRegistered
<1>1. Init => ActiveRegistered
  BY DEF Init, VolatileInit, ActiveRegistered
<1>2. PromiseInv /\ ActiveRegistered /\ [Next]_vars => ActiveRegistered'
  BY EntriesStep
<1> QED
  BY <1>1, <1>2, PromiseAlways, PTL DEF Spec

-------------------------------------------------------------------------------
(* Error 1, where every csv can be read and no insert fails.               *)

NoFaults == Unparsable = {} /\ MaxFaults = 0

\* Every registered request is being processed.  No insert has come short, and
\* a thread that is busy has not answered yet.
ProcessedInv ==
  /\ \A r \in Requests : Registered(r) => BeingProcessed(r)
  /\ \A h \in Handlers : /\ handler[h].pc \in {"checking", "registered", "insert"} => ~handler[h].short
                         /\ handler[h].pc # "idle" => handler[h].reply = "none"

\* A thread that ends an admission leaves its request tracked.
LEMMA ProcessedFrame ==
  ASSUME PromiseInv, ProcessedInv,
         \A q \in Requests : Registered(q)' =>
           \/ Registered(q)
           \/ \E k \in Handlers : Admitting(k)' /\ handler'[k].req = q,
         \A q \in Requests : Registered(q)' /\ Tracked(q) => Tracked(q)',
         \A k \in Handlers : Admitting(k) =>
           \/ Admitting(k)' /\ handler'[k].req = handler[k].req
           \/ \A q \in Requests : Registered(q)' /\ q = handler[k].req => Tracked(q)'
  PROVE  \A q \in Requests : Registered(q)' => BeingProcessed(q)'
  <1> SUFFICES ASSUME NEW q \in Requests, Registered(q)', ~Tracked(q)'
               PROVE  \E k \in Handlers : Admitting(k)' /\ handler'[k].req = q
    BY DEF BeingProcessed
  <1>1. CASE ~Registered(q)
    BY <1>1
  <1>2. CASE Registered(q)
    <2>1. PICK k \in Handlers : Admitting(k) /\ handler[k].req = q
      BY <1>2 DEF ProcessedInv, BeingProcessed
    <2> QED
      BY <2>1
  <1> QED
    BY <1>1, <1>2

LEMMA ProcessedStep ==
  ASSUME NoFaults, PromiseInv, ProcessedInv, [Next]_vars
  PROVE  ProcessedInv'
  <1>1. /\ handler \in [Handlers -> HandlerStates]
        /\ faults \in Nat
    BY PromiseTypes DEF PromiseInv, AdmissionInv, TypeInv, TypeOK
  <1>2. ASSUME NEW h \in Handlers
        PROVE  ~RejectCSV(h) /\ ~InsertChunkShort(h) /\ ~InsertChunkError(h)
    BY <1>1 DEF NoFaults, RejectCSV, InsertChunkShort, InsertChunkError
  <1>3. ASSUME NEW h \in Handlers, Register(h) \/ \E r \in Requests : Submit(h, r)
        PROVE  ProcessedInv'
    <2>1. UNCHANGED <<active, monitor>>
      BY <1>3 DEF Submit, Register
    <2>2. /\ \A k \in Handlers \ {h} : handler'[k] = handler[k]
          /\ handler'[h].pc \in {"idle", "checking", "registered"} /\ ~handler'[h].short
          /\ handler'[h].pc # "idle" => handler'[h].reply = "none"
      BY <1>1, <1>3 DEF Submit, Register, Idle, HandlerAt
    <2>3. \A q \in Requests : Registered(q) => Registered(q)'
      BY <1>3, PromiseTypes DEF Submit, Register, Received, Registered
    <2>4. \A q \in Requests : Tracked(q) => Tracked(q)'
      BY <2>1, <2>3 DEF Tracked
    <2>5. ~Admitting(h)
      BY <1>3 DEF Submit, Register, Admitting
    <2>6. \A k \in Handlers : Admitting(k) => Admitting(k)' /\ handler'[k].req = handler[k].req
      BY <2>2, <2>5 DEF Admitting
    <2>7. \A q \in Requests : Registered(q)' =>
            Registered(q) \/ (Admitting(h)' /\ handler'[h].req = q)
      <3>1. CASE Register(h)
        BY <1>1, <3>1, PromiseTypes DEF Register, Registered, HandlerAt, Admitting
      <3>2. CASE \E r \in Requests : Submit(h, r)
        BY <3>2 DEF Submit, Registered
      <3> QED
        BY <1>3, <3>1, <3>2
    <2>8. \A q \in Requests : Registered(q)' => BeingProcessed(q)'
      BY <2>4, <2>6, <2>7, ProcessedFrame
    <2> QED
      BY <2>2, <2>8 DEF ProcessedInv
  <1>4. ASSUME NEW h \in Handlers, LockEngine(h) \/ InsertChunk(h)
        PROVE  ProcessedInv'
    <2>1. UNCHANGED <<requests, active>>
      BY <1>4 DEF LockEngine, InsertChunk
    <2>2. /\ \A k \in Handlers \ {h} : handler'[k] = handler[k]
          /\ handler[h].pc \in {"registered", "insert"} /\ handler'[h].pc = "insert"
          /\ handler'[h].req = handler[h].req /\ handler'[h].short = handler[h].short
          /\ handler'[h].reply = handler[h].reply
      BY <1>1, <1>4 DEF LockEngine, InsertChunk, Inserting, HandlerStates
    <2>3. \A q \in Requests : /\ Tracked(q)' <=> Tracked(q)
                              /\ Registered(q)' <=> Registered(q)
      BY <2>1 DEF Tracked, Registered
    <2>4. \A k \in Handlers : Admitting(k) => Admitting(k)' /\ handler'[k].req = handler[k].req
      BY <2>2 DEF Admitting
    <2>5. \A q \in Requests : Registered(q)' => BeingProcessed(q)'
      BY <2>3, <2>4, ProcessedFrame
    <2> QED
      BY <2>2, <2>5 DEF ProcessedInv
  <1>5. ASSUME NEW h \in Handlers, Activate(h)
        PROVE  ProcessedInv'
    <2> DEFINE r == handler[h].req
               t == GroupTag[r]
    <2>1. requests' = requests /\ r \in Requests /\ t \in Tags
      BY <1>5, PromiseTypes DEF Activate
    <2>2. ~handler[h].short
      BY <1>5 DEF Activate, Inserting, ProcessedInv
    <2>3. /\ \A k \in Handlers \ {h} : handler'[k] = handler[k]
          /\ handler'[h].pc = "open" /\ handler'[h].req = r
          /\ handler'[h].reply = "none"
      BY <1>1, <1>5, <2>2 DEF Activate, HandlerAt
    <2>4. /\ active'[t] = Append(active[t], r)
          /\ \A s \in Tags \ {t} : active'[s] = active[s]
      BY <1>5, <2>1, PromiseTypes DEF Activate
    <2>5. Members(active[t]) \subseteq Members(active'[t])
      <3>1. active[t] \in Seq(Requests) /\ DOMAIN active[t] = 1..Len(active[t])
            /\ Len(active[t]) \in Nat
        BY <2>1, PromiseTypes
      <3>2. /\ DOMAIN active'[t] = 1..(Len(active[t]) + 1)
            /\ \A i \in DOMAIN active[t] : active'[t][i] = active[t][i]
        <4> HIDE DEF r, t
        <4>1. PICK old, now : old \in Seq(Requests) /\ old = active[t] /\ now = active'[t]
          BY <3>1
        <4>2. now = Append(old, r)
          BY <2>4, <4>1
        <4>3. DOMAIN now = 1..(Len(old) + 1) /\ \A i \in DOMAIN old : now[i] = old[i]
          BY <2>1, <4>2, Appended
        <4> QED
          BY <4>1, <4>3
      <3>3. DOMAIN active[t] \subseteq DOMAIN active'[t]
        BY <3>1, <3>2
      <3> HIDE DEF t, r
      <3> QED
        BY <3>2, <3>3 DEF Members
    <2> HIDE DEF t, r
    <2>6. \A q \in Requests : Registered(q)' <=> Registered(q)
      BY <2>1 DEF Registered
    <2>7. \A q \in Requests : Tracked(q) => Tracked(q)'
      <3> SUFFICES ASSUME NEW q \in Requests, Tracked(q)
                   PROVE  q \in Members(active'[GroupTag[q]])
        BY <2>6 DEF Tracked
      <3>1. GroupTag[q] \in Tags
        BY PromiseTypes
      <3> QED
        BY <2>4, <2>5, <3>1 DEF Tracked
    <2>8. \A k \in Handlers : Admitting(k) => Admitting(k)' /\ handler'[k].req = handler[k].req
      BY <2>3 DEF Admitting, r
    <2>9. \A q \in Requests : Registered(q)' => BeingProcessed(q)'
      BY <2>6, <2>7, <2>8, ProcessedFrame
    <2> QED
      BY <2>3, <2>9 DEF ProcessedInv
  <1>6. ASSUME NEW h \in Handlers, OpenDump(h)
        PROVE  ProcessedInv'
    <2>1. active' = active /\ handler[h].pc = "open"
      BY <1>6 DEF OpenDump
    <2>2. /\ \A k \in Handlers \ {h} : handler'[k] = handler[k]
          /\ handler'[h].pc = "write" /\ handler'[h].linked
          /\ handler'[h].req = handler[h].req /\ handler'[h].reply = handler[h].reply
      BY <1>1, <1>6 DEF OpenDump, HandlerStates
    <2>3. Admitting(h)
      BY <2>1 DEF Admitting
    <2>4. Registered(handler[h].req)
      BY <2>3 DEF PromiseInv, AdmissionInv, TicketInv, Registered
    <2>5. \A q \in Requests : Registered(q)' <=> Registered(q)
      BY <1>6, <2>4, PromiseTypes DEF OpenDump, Registered, Objects
    <2>6. \A q \in Requests : Tracked(q) => Tracked(q)'
      BY <2>1, <2>5 DEF Tracked
    <2>7. \A k \in Handlers : Admitting(k) => Admitting(k)' /\ handler'[k].req = handler[k].req
      BY <2>2 DEF Admitting
    <2>8. \A q \in Requests : Registered(q)' => BeingProcessed(q)'
      BY <2>5, <2>6, <2>7, ProcessedFrame
    <2> QED
      BY <2>1, <2>2, <2>8 DEF ProcessedInv
  <1>7. ASSUME NEW h \in Handlers, WriteDump(h)
        PROVE  ProcessedInv'
    <2>1. UNCHANGED <<requests, active>>
      BY <1>7 DEF WriteDump
    <2>2. /\ \A k \in Handlers \ {h} : handler'[k] = handler[k]
          /\ handler'[h].pc = "idle"
      BY <1>1, <1>7 DEF WriteDump, Idle, HandlerAt
    <2>3. \A q \in Requests : /\ Tracked(q)' <=> Tracked(q)
                              /\ Registered(q)' <=> Registered(q)
      BY <2>1 DEF Tracked, Registered
    <2>4. Admitting(h) => Tracked(handler[h].req)
      BY <1>7 DEF WriteDump, Admitting, PromiseInv, NotedInv, Noted, Tracked,
                  AdmissionInv, TicketInv, Registered
    <2>5. \A k \in Handlers : Admitting(k) =>
            \/ Admitting(k)' /\ handler'[k].req = handler[k].req
            \/ \A q \in Requests : Registered(q)' /\ q = handler[k].req => Tracked(q)'
      BY <2>2, <2>3, <2>4 DEF Admitting
    <2>6. \A q \in Requests : Registered(q)' => BeingProcessed(q)'
      BY <2>3, <2>5, ProcessedFrame
    <2> QED
      BY <2>2, <2>6 DEF ProcessedInv
  <1>8. CASE Poll \/ LockRequests \/ MergeMissing \/ UnlinkMissing \/ Merge \/ OpenResult
    <2>1. UNCHANGED <<active, handler>>
      BY <1>8 DEF Poll, LockRequests, MergeMissing, UnlinkMissing, Merge, OpenResult
    <2>2. \A q \in Requests : Registered(q)' <=> Registered(q)
      <3>1. CASE Merge
        <4>1. Current \in Requests
          BY <3>1, CurrentType DEF Merge, PromiseInv, AdmissionInv
        <4> QED
          BY <3>1, <4>1, PromiseTypes DEF Merge, Objects, Registered
      <3>2. CASE ~Merge
        BY <1>8, <3>2 DEF Poll, LockRequests, MergeMissing, UnlinkMissing, OpenResult,
                          Registered
      <3> QED
        BY <3>1, <3>2
    <2>3. \A q \in Requests : Tracked(q) => Tracked(q)'
      BY <2>1, <2>2 DEF Tracked
    <2>4. \A k \in Handlers : Admitting(k) => Admitting(k)'
      BY <2>1 DEF Admitting
    <2>5. \A q \in Requests : Registered(q)' => BeingProcessed(q)'
      BY <2>1, <2>2, <2>3, <2>4, ProcessedFrame
    <2> QED
      BY <2>1, <2>5 DEF ProcessedInv
  <1>9. CASE Unlink
    <2>1. active' = active /\ monitor.pc = "unlink"
      BY <1>9 DEF Unlink
    <2>2. Current \in Requests /\ Tracked(Current)
      BY <2>1, SwappedIsTracked DEF AtEntry
    <2>3. \A q \in Requests : Registered(q)' <=> Registered(q)
      BY <1>9, <2>2, PromiseTypes DEF Unlink, Objects, Registered, Tracked
    <2>4. \A q \in Requests : Tracked(q) => Tracked(q)'
      BY <2>1, <2>3 DEF Tracked
    <2>5. \A k \in Handlers :
            /\ handler'[k].pc = handler[k].pc /\ handler'[k].req = handler[k].req
            /\ handler'[k].short = handler[k].short /\ handler'[k].reply = handler[k].reply
            /\ handler[k].req # Current => handler'[k] = handler[k]
      BY <1>1, <1>9 DEF Unlink, HandlerStates
    <2>6. \A k \in Handlers : Admitting(k) =>
            \/ Admitting(k)' /\ handler'[k].req = handler[k].req
            \/ \A q \in Requests : Registered(q)' /\ q = handler[k].req => Tracked(q)'
      BY <2>2, <2>4, <2>5 DEF Admitting
    <2>7. \A q \in Requests : Registered(q)' => BeingProcessed(q)'
      BY <2>3, <2>4, <2>6, ProcessedFrame
    <2> QED
      BY <2>5, <2>7 DEF ProcessedInv
  <1>10. CASE WriteResult
    <2>1. UNCHANGED <<active, handler>>
      BY <1>10 DEF WriteResult
    <2>2. \A q \in Requests : requests'[q] = requests[q] \/ requests'[q].status = "UNKNOWN"
      BY <1>10, PromiseTypes DEF WriteResult, Absent
    <2>3. \A q \in Requests : Registered(q)' => Registered(q)
      BY <2>2 DEF Registered
    <2>4. \A q \in Requests : Registered(q)' /\ Tracked(q) => Tracked(q)'
      BY <2>1 DEF Tracked
    <2>5. \A k \in Handlers : Admitting(k) => Admitting(k)'
      BY <2>1 DEF Admitting
    <2>6. \A q \in Requests : Registered(q)' => BeingProcessed(q)'
      BY <2>1, <2>3, <2>4, <2>5, ProcessedFrame
    <2> QED
      BY <2>1, <2>6 DEF ProcessedInv
  <1>11. CASE EndGroup
    <2>1. /\ UNCHANGED <<requests, handler>> /\ monitor.tag \in Tags
          /\ monitor.pc = "merge" /\ ~MoreInGroup
      BY <1>11, PromiseTypes DEF EndGroup
    <2>2. \A t \in Tags \ {monitor.tag} : active'[t] = active[t]
      BY <1>11, <2>1, PromiseTypes DEF EndGroup
    <2>3. \A q \in Requests : Registered(q)' <=> Registered(q)
      BY <2>1 DEF Registered
    <2>4. ASSUME NEW q \in Requests, Tracked(q)
          PROVE  Tracked(q)'
      <3>1. GroupTag[q] \in Tags \ {monitor.tag}
        BY <2>1, <2>4, TrackedIsAhead, PromiseTypes
      <3> QED
        BY <2>2, <2>3, <2>4, <3>1 DEF Tracked
    <2>5. \A k \in Handlers : Admitting(k) => Admitting(k)'
      BY <2>1 DEF Admitting
    <2>6. \A q \in Requests : Registered(q)' => BeingProcessed(q)'
      BY <2>1, <2>3, <2>4, <2>5, ProcessedFrame
    <2> QED
      BY <2>1, <2>6 DEF ProcessedInv
  <1>12. ASSUME (\E filter \in {""} \cup {ClientTag[r] : r \in Requests} : PullDelete(filter))
                \/ (\E i \in DOMAIN geo : MarkDone(i)) \/ Shutdown \/ UNCHANGED vars
         PROVE  ProcessedInv'
    <2>1. UNCHANGED <<requests, active, handler>>
      BY <1>12 DEF PullDelete, MarkDone, Shutdown, vars, volatile
    <2>2. /\ \A q : (Tracked(q)' <=> Tracked(q)) /\ (Registered(q)' <=> Registered(q))
          /\ \A k : Admitting(k)' <=> Admitting(k)
      BY <2>1 DEF Tracked, Registered, Admitting
    <2> QED
      BY <2>1, <2>2 DEF ProcessedInv, BeingProcessed
  <1>13. CASE Crash \/ Exit
    <2>1. /\ \A k \in Handlers : handler'[k].pc = "idle"
          /\ \A q \in Requests : requests'[q].status = "UNKNOWN"
      BY <1>13 DEF Crash, Exit, LoseMemory, Idle, HandlerAt, Absent
    <2> QED
      BY <2>1 DEF ProcessedInv, Registered
  <1>14. CASE Restart
    <2>1. \A k \in Handlers : handler'[k].pc = "idle"
      BY <1>14 DEF Restart, PromiseInv, AdmissionInv, DownInv
    <2>2. ASSUME NEW q \in Requests, Registered(q)'
          PROVE  Tracked(q)'
      <3>1. Original(q) \in Dropped
        BY <1>14, <2>2 DEF Restart, Registered, Absent
      <3>2. GroupTag[q] \in Tags /\ Original(q).req = q
        BY PromiseTypes DEF Original
      <3>3. q \in DroppedUnder(GroupTag[q])
        BY <3>1, <3>2 DEF DroppedUnder
      <3>4. q \in Members(active'[GroupTag[q]])
        BY <1>14, <3>2, <3>3 DEF Restart, Orders
      <3> QED
        BY <2>2, <3>4 DEF Tracked
    <2> QED
      BY <2>1, <2>2 DEF ProcessedInv, BeingProcessed
  <1> QED
    BY <1>2, <1>3, <1>4, <1>5, <1>6, <1>7, <1>8, <1>9, <1>10, <1>11, <1>12, <1>13, <1>14
    DEF Next, HandlerStep, MonitorStep

LEMMA ProcessedInit == Init => ProcessedInv
  <1> SUFFICES ASSUME Init
               PROVE  ProcessedInv
    OBVIOUS
  <1>1. /\ \A k \in Handlers : handler[k].pc = "idle"
        /\ \A q \in Requests : requests[q].status = "UNKNOWN"
    BY DEF Init, VolatileInit, Idle, HandlerAt, Absent
  <1> QED
    BY <1>1 DEF ProcessedInv, Registered

\* A thread that changes and has answered error 1 has just answered it, to a
\* request it found registered.
LEMMA DuplicatesAreRegistered ==
  ASSUME PromiseInv, ProcessedInv, [Next]_vars, NEW h \in Handlers,
         handler'[h] # handler[h], handler'[h].reply = "duplicate"
  PROVE  Registered(handler'[h].req)
  <1>1. handler \in [Handlers -> HandlerStates]
    BY PromiseTypes
  <1>2. \A k \in Handlers : handler[k].pc # "idle" => handler[k].reply = "none"
    BY DEF ProcessedInv
  <1>3. ASSUME NEW k \in Handlers, Register(k)
        PROVE  Registered(handler'[h].req)
    BY <1>1, <1>3 DEF Register, Idle, HandlerAt
  <1>4. ASSUME NEW k \in Handlers, ~Register(k),
               HandlerStep(k) \/ \E r \in Requests : Submit(k, r)
        PROVE  FALSE
    <2>6. CASE \E r \in Requests : Submit(k, r)
      BY <1>1, <2>6 DEF Submit, HandlerAt
    <2>1. CASE RejectCSV(k) \/ InsertChunkError(k) \/ Activate(k) \/ WriteDump(k)
      BY <1>1, <2>1 DEF RejectCSV, InsertChunkError, Activate, WriteDump, Idle, HandlerAt
    <2>2. CASE LockEngine(k)
      BY <1>1, <1>2, <2>2 DEF LockEngine, HandlerStates
    <2>3. CASE InsertChunk(k)
      BY <1>1, <1>2, <2>3 DEF InsertChunk, Inserting, HandlerStates
    <2>4. CASE InsertChunkShort(k)
      BY <1>1, <1>2, <2>4 DEF InsertChunkShort, Inserting, HandlerStates
    <2>5. CASE OpenDump(k)
      BY <1>1, <1>2, <2>5 DEF OpenDump, HandlerStates
    <2> QED
      BY <1>4, <2>1, <2>2, <2>3, <2>4, <2>5, <2>6 DEF HandlerStep
  <1>5. ASSUME Unlink
        PROVE  FALSE
    BY <1>1, <1>2, <1>5 DEF Unlink, HandlerStates
  <1>6. ASSUME LoseMemory
        PROVE  FALSE
    BY <1>6 DEF LoseMemory, Idle, HandlerAt
  <1>7. ASSUME \/ Poll \/ LockRequests \/ MergeMissing \/ Merge \/ UnlinkMissing
               \/ OpenResult \/ WriteResult \/ EndGroup
               \/ \E filter \in {""} \cup {ClientTag[r] : r \in Requests} : PullDelete(filter)
               \/ \E i \in DOMAIN geo : MarkDone(i)
               \/ Shutdown \/ Restart \/ UNCHANGED vars
        PROVE  handler' = handler
    BY <1>7 DEF Poll, LockRequests, MergeMissing, Merge, UnlinkMissing, OpenResult, WriteResult, EndGroup,
                PullDelete, MarkDone, Shutdown, Restart, vars, volatile
  <1> QED
    BY <1>3, <1>4, <1>5, <1>6, <1>7 DEF Next, MonitorStep, Crash, Exit

\* Where every csv can be read and no insert fails, error 1 is given only for a
\* request that is being processed.
THEOREM DuplicatesAreProcessed ==
  ASSUME NoFaults
  PROVE  Spec => DuplicateMeansProcessing
  <1> DEFINE Meant == \A h \in Handlers :
       handler'[h] # handler[h] /\ handler'[h].reply = "duplicate"
         => BeingProcessed(handler'[h].req)
  <1>1. Init => ProcessedInv
    BY ProcessedInit
  <1>2. PromiseInv /\ ProcessedInv /\ [Next]_vars => ProcessedInv'
    BY ProcessedStep
  <1>3. PromiseInv /\ ProcessedInv /\ [Next]_vars => [Meant]_vars
    <2> SUFFICES ASSUME PromiseInv, ProcessedInv, [Next]_vars, NEW h \in Handlers,
                        handler'[h] # handler[h], handler'[h].reply = "duplicate"
                 PROVE  BeingProcessed(handler'[h].req)
      OBVIOUS
    <2>1. Registered(handler'[h].req)
      BY DuplicatesAreRegistered
    <2>2. handler'[h].req \in Requests
      <3>1. PromiseInv'
        BY PromiseStep
      <3>2. handler' \in [Handlers -> HandlerStates]
        BY <3>1 DEF PromiseInv, AdmissionInv, TypeInv, TypeOK
      <3> QED
        BY <3>2 DEF HandlerStates
    <2> QED
      BY <2>1, <2>2 DEF ProcessedInv
  <1> QED
    BY <1>1, <1>2, <1>3, PromiseAlways, PTL DEF Spec, DuplicateMeansProcessing

-------------------------------------------------------------------------------
(* Results, where tags are distinct, no insert fails and no crash leaves    *)
(* an admission's rows incomplete, because nothing crashes or because each *)
(* csv needs one bulk insert at most.  The first run of rows of a tag then *)
(* holds all of its request's addresses: engine_lock_ keeps the rows of an *)
(* admission together, and the monitor fetches and groups runs as a whole. *)

DistinctTags == \A q, r \in Requests : GroupTag[q] = GroupTag[r] => q = r
OneInsert == \A r \in Requests : Len(Uniques[r]) <= BulkInsertLimit
Undisturbed ==
  DistinctTags /\ MaxFaults = 0 /\ (MaxCrashes = 0 \/ OneInsert)

\* The n rows behind position p are those of the first n addresses of r.
RowsAre(p, r, n) ==
  \A k \in 1..n : /\ p + k \in DOMAIN geo
                  /\ geo[p + k].tag = GroupTag[r]
                  /\ geo[p + k].address = Uniques[r][k]

\* Each of the first m rows is one of a whole admission's.
Whole(m) ==
  \A i \in 1..m : \E r \in Requests, p \in 0..(i - 1) :
    /\ i <= p + Len(Uniques[r]) /\ p + Len(Uniques[r]) <= m
    /\ RowsAre(p, r, Len(Uniques[r]))

\* Only the thread that inserts may have left an admission's rows incomplete.
BlocksInv ==
  /\ engineLock \notin Handlers => Whole(Len(geo))
  /\ \A h \in Handlers :
       /\ handler[h].pc = "registered" => handler[h].pos = 0
       /\ handler[h].pc = "insert" =>
            /\ handler[h].pos <= Len(AddressesOf(h)) /\ handler[h].pos <= Len(geo)
            /\ Whole(Len(geo) - handler[h].pos)
            /\ RowsAre(Len(geo) - handler[h].pos, handler[h].req, handler[h].pos)

\* A csv that needs one bulk insert has none or all of its rows.
AtOnceInv ==
  \A h \in Handlers :
    handler[h].pc = "insert" => handler[h].pos \in {0, Len(AddressesOf(h))}

\* Neither what the monitor has fetched nor its group cuts a run of rows, also while it
\* waits for requests_lock_.
SameRun(i, j) == i <= j /\ \A k \in i..j : geo[k].tag = geo[i].tag
Uncut(rows) == \A i, j \in DOMAIN geo : SameRun(i, j) => (i \in rows <=> j \in rows)
RunsInv ==
  monitor.pc # "idle" =>
    /\ monitor.pc # "locking" => monitor.group # {}
    /\ \A i \in monitor.group : geo[i].tag = monitor.tag
    /\ \A i \in monitor.group \cup monitor.data : geo[i].done
    /\ Uncut(monitor.group) /\ Uncut(monitor.data)

\* The last join of a csv has found all of its addresses.
Covers(r, joins) == \A a \in Members(Uniques[r]) : joins[Len(joins)][a] >= 1
CoverInv ==
  /\ \A r \in Requests : requests[r].joins # <<>> => Covers(r, requests[r].joins)
  /\ \A n \in Completed : Covers(n.req, n.joins)

LEMMA GeoTypes ==
  ASSUME PromiseInv
  PROVE  /\ geo \in Seq(Rows) /\ Len(geo) \in Nat /\ DOMAIN geo = 1..Len(geo)
         /\ monitor.group \subseteq DOMAIN geo /\ monitor.data \subseteq DOMAIN geo
         /\ \A r \in Requests : /\ Uniques[r] \in Seq(Addresses)
                                /\ Len(Uniques[r]) \in Nat
                                /\ DOMAIN Uniques[r] = 1..Len(Uniques[r])
  <1>1. geo \in Seq(Rows) /\ monitor.group \cup monitor.data \subseteq DOMAIN geo
    BY DEF PromiseInv, AdmissionInv, TypeInv, TypeOK
  <1>2. Len(geo) \in Nat /\ DOMAIN geo = 1..Len(geo)
    BY <1>1, LenProperties
  <1>3. ASSUME NEW r \in Requests
        PROVE  /\ Uniques[r] \in Seq(Addresses)
               /\ Len(Uniques[r]) \in Nat
               /\ DOMAIN Uniques[r] = 1..Len(Uniques[r])
    <2>1. Uniques[r] \in Seq(Addresses)
      BY GeocoderAssumption
    <2> QED
      BY <2>1, LenProperties
  <1> QED
    BY <1>1, <1>2, <1>3

\* Rows keep their tags and addresses, so that what they are stays.
LEMMA RowsKept ==
  ASSUME PromiseInv,
         \A k \in DOMAIN geo : /\ k \in DOMAIN geo'
                               /\ geo'[k].tag = geo[k].tag
                               /\ geo'[k].address = geo[k].address
  PROVE  /\ \A p, r, n : RowsAre(p, r, n) => RowsAre(p, r, n)'
         /\ \A m : Whole(m) => Whole(m)'
  <1>1. ASSUME NEW p, NEW r, NEW n, RowsAre(p, r, n)
        PROVE  RowsAre(p, r, n)'
    BY <1>1 DEF RowsAre
  <1>2. ASSUME NEW m, Whole(m)
        PROVE  Whole(m)'
    <2> SUFFICES ASSUME NEW i \in 1..m
                 PROVE  \E r \in Requests, p \in 0..(i - 1) :
                          /\ i <= p + Len(Uniques[r]) /\ p + Len(Uniques[r]) <= m
                          /\ RowsAre(p, r, Len(Uniques[r]))'
      BY DEF Whole
    <2>1. PICK r \in Requests, p \in 0..(i - 1) :
            /\ i <= p + Len(Uniques[r]) /\ p + Len(Uniques[r]) <= m
            /\ RowsAre(p, r, Len(Uniques[r]))
      BY <1>2 DEF Whole
    <2> QED
      BY <1>1, <2>1
  <1> QED
    BY <1>1, <1>2

\* The blocks after a step, with what is primed named.
LEMMA BlocksAfter ==
  ASSUME \A m : m = Len(geo') /\ engineLock' \notin Handlers => Whole(m)',
         \A h \in Handlers : handler'[h].pc = "registered" => handler'[h].pos = 0,
         \A h \in Handlers : handler'[h].pc = "insert" =>
           \A p, r, n : n = handler'[h].pos /\ r = handler'[h].req /\ p = Len(geo') - n =>
             /\ n <= Len(Uniques[r]) /\ n <= Len(geo')
             /\ Whole(p)' /\ RowsAre(p, r, n)'
  PROVE  BlocksInv'
  <1>1. engineLock' \notin Handlers => Whole(Len(geo))'
    <2> SUFFICES ASSUME engineLock' \notin Handlers, NEW m, m = Len(geo')
                 PROVE  Whole(m)'
      BY DEF Whole
    <2> QED
      OBVIOUS
  <1>2. ASSUME NEW h \in Handlers, handler'[h].pc = "insert"
        PROVE  /\ handler'[h].pos <= Len(AddressesOf(h)') /\ handler'[h].pos <= Len(geo')
               /\ Whole(Len(geo) - handler[h].pos)'
               /\ RowsAre(Len(geo) - handler[h].pos, handler[h].req, handler[h].pos)'
    <2>1. AddressesOf(h)' = Uniques[handler'[h].req]
      BY DEF AddressesOf
    <2>2. \A p, r, n : n = handler'[h].pos /\ r = handler'[h].req /\ p = Len(geo') - n =>
             /\ n <= Len(Uniques[r]) /\ n <= Len(geo')
             /\ Whole(p)' /\ RowsAre(p, r, n)'
      BY <1>2
    <2>3. handler'[h].pos <= Len(AddressesOf(h)') /\ handler'[h].pos <= Len(geo')
      BY <2>1, <2>2
    <2>4. Whole(Len(geo) - handler[h].pos)'
      <3> SUFFICES ASSUME NEW p, p = Len(geo') - handler'[h].pos
                   PROVE  Whole(p)'
        BY DEF Whole
      <3> QED
        BY <2>2
    <2>5. RowsAre(Len(geo) - handler[h].pos, handler[h].req, handler[h].pos)'
      <3> SUFFICES ASSUME NEW p, NEW r, NEW n, p = Len(geo') - n,
                          r = handler'[h].req, n = handler'[h].pos
                   PROVE  RowsAre(p, r, n)'
        BY DEF RowsAre
      <3> QED
        BY <2>2
    <2> QED
      BY <2>3, <2>4, <2>5
  <1> QED
    BY <1>1, <1>2 DEF BlocksInv

LEMMA BlocksFrame ==
  ASSUME PromiseInv, BlocksInv, Len(geo') = Len(geo),
         \A k \in DOMAIN geo : /\ k \in DOMAIN geo'
                               /\ geo'[k].tag = geo[k].tag
                               /\ geo'[k].address = geo[k].address,
         engineLock' \notin Handlers => engineLock \notin Handlers,
         \A h \in Handlers : handler'[h].pc = "registered" => handler'[h].pos = 0,
         \A h \in Handlers : handler'[h].pc = "insert" =>
           /\ handler[h].pc = "insert" /\ handler'[h].req = handler[h].req
           /\ handler'[h].pos = handler[h].pos
  PROVE  BlocksInv'
  <1>1. /\ \A p, r, n : RowsAre(p, r, n) => RowsAre(p, r, n)'
        /\ \A m : Whole(m) => Whole(m)'
    BY RowsKept
  <1>2. \A m : m = Len(geo') /\ engineLock' \notin Handlers => Whole(m)'
    BY <1>1 DEF BlocksInv
  <1>3. ASSUME NEW h \in Handlers, handler'[h].pc = "insert",
               NEW p, NEW r, NEW n, n = handler'[h].pos, r = handler'[h].req,
               p = Len(geo') - n
        PROVE  /\ n <= Len(Uniques[r]) /\ n <= Len(geo')
               /\ Whole(p)' /\ RowsAre(p, r, n)'
    BY <1>1, <1>3 DEF BlocksInv, AddressesOf
  <1> QED
    BY <1>2, <1>3, BlocksAfter

\* The rows of a bulk insert are those of the next addresses.
LEMMA ChunkRows ==
  ASSUME NEW U \in Seq(Addresses), NEW n \in Nat, NEW e \in Nat, n <= e, e <= Len(U),
         NEW t \in Tags, NEW rows, rows = RowsFor(t, SubSeq(U, n + 1, e))
  PROVE  /\ rows \in Seq(Rows) /\ Len(rows) = e - n
         /\ \A k \in 1..(e - n) : rows[k].tag = t /\ rows[k].address = U[n + k]
  <1> DEFINE addresses == SubSeq(U, n + 1, e)
  <1>1. Len(U) \in Nat
    BY LenProperties
  <1>2. n + 1 \in Int /\ e \in Int
    OBVIOUS
  <1>3. \A i \in (n + 1)..e : U[i] \in Addresses
    BY <1>1, ElementOfSeq
  <1>4. /\ addresses \in Seq(Addresses)
        /\ Len(addresses) = IF n + 1 <= e THEN e - (n + 1) + 1 ELSE 0
        /\ \A i \in 1..(e - (n + 1) + 1) : addresses[i] = U[(n + 1) + i - 1]
    BY <1>2, <1>3, SubSeqProperties
  <1>5. rows = RowsFor(t, addresses)
    OBVIOUS
  <1> HIDE DEF addresses
  <1>6. Len(addresses) = e - n
    BY <1>4
  <1>7. \A k \in 1..(e - n) : addresses[k] = U[n + k]
    <2> SUFFICES ASSUME NEW k \in 1..(e - n)
                 PROVE  addresses[k] = U[n + k]
      OBVIOUS
    <2>1. k \in 1..(e - (n + 1) + 1) /\ (n + 1) + k - 1 = n + k
      OBVIOUS
    <2> QED
      BY <1>4, <2>1
  <1>8. rows \in Seq(Rows)
    BY <1>4, <1>5, RowsForType
  <1>9. rows = [i \in 1..(e - n) |->
                  [tag |-> t, address |-> addresses[i], done |-> FALSE]]
    BY <1>5, <1>6 DEF RowsFor
  <1>10. Len(rows) = e - n
    <2>1. DOMAIN rows = 1..(e - n) /\ e - n \in Nat
      BY <1>9
    <2>2. DOMAIN rows = 1..Len(rows) /\ Len(rows) \in Nat
      BY <1>8, LenProperties
    <2> QED
      BY <2>1, <2>2
  <1>11. \A k \in 1..(e - n) : rows[k].tag = t /\ rows[k].address = addresses[k]
    BY <1>9
  <1> QED
    BY <1>7, <1>8, <1>10, <1>11

\* The addresses of r from n + 1 to e come behind the rows that are there.
Inserted(r, n, e) ==
  /\ r \in Requests /\ n \in Nat /\ e \in Nat /\ n <= e /\ e <= Len(Uniques[r])
  /\ Len(geo') = Len(geo) + (e - n)
  /\ DOMAIN geo' = 1..Len(geo')
  /\ \A k \in DOMAIN geo : geo'[k] = geo[k]
  /\ \A k \in 1..(e - n) :
       /\ geo'[Len(geo) + k].tag = GroupTag[r]
       /\ geo'[Len(geo) + k].address = Uniques[r][n + k]

\* A bulk insert puts the next addresses there.
LEMMA ChunkInserted ==
  ASSUME PromiseInv, NEW h \in Handlers, InsertChunk(h),
         NEW r, r = handler[h].req, NEW n, n = handler[h].pos, NEW e, e = ChunkEnd(h)
  PROVE  Inserted(r, n, e)
  <1>1. /\ r \in Requests /\ n \in Nat /\ GroupTag[r] \in Tags
        /\ Uniques[r] \in Seq(Addresses) /\ Len(Uniques[r]) \in Nat
    BY PromiseTypes, GeoTypes DEF HandlerStates
  <1>2. /\ n < Len(Uniques[r])
        /\ e = IF n + BulkInsertLimit < Len(Uniques[r])
                 THEN n + BulkInsertLimit ELSE Len(Uniques[r])
    BY DEF InsertChunk, MoreChunks, AddressesOf, ChunkEnd
  <1>3. BulkInsertLimit \in Nat \ {0}
    BY GeocoderAssumption
  <1>4. e \in Nat /\ n <= e /\ e <= Len(Uniques[r])
    BY <1>1, <1>2, <1>3
  <1>5. PICK rows : rows = RowsFor(GroupTag[r], SubSeq(Uniques[r], n + 1, e))
    OBVIOUS
  <1>6. /\ rows \in Seq(Rows) /\ Len(rows) = e - n
        /\ \A k \in 1..(e - n) : /\ rows[k].tag = GroupTag[r]
                                 /\ rows[k].address = Uniques[r][n + k]
    <2>1. PICK U \in Seq(Addresses), t \in Tags : U = Uniques[r] /\ t = GroupTag[r]
      BY <1>1
    <2>2. PICK m \in Nat, d \in Nat : m = n /\ d = e
      BY <1>1, <1>4
    <2>3. rows = RowsFor(t, SubSeq(U, m + 1, d))
      BY <1>5, <2>1, <2>2
    <2>4. m <= d /\ d <= Len(U)
      BY <1>4, <2>1, <2>2
    <2>5. /\ rows \in Seq(Rows) /\ Len(rows) = d - m
          /\ \A k \in 1..(d - m) : rows[k].tag = t /\ rows[k].address = U[m + k]
      BY <2>3, <2>4, ChunkRows
    <2>6. Len(rows) = e - n
      BY <2>2, <2>5
    <2>7. ASSUME NEW k \in 1..(e - n)
          PROVE  rows[k].tag = GroupTag[r] /\ rows[k].address = Uniques[r][n + k]
      <3>1. k \in 1..(d - m) /\ m + k = n + k
        BY <2>2
      <3> QED
        BY <2>1, <2>5, <3>1
    <2> QED
      BY <2>5, <2>6, <2>7
  <1>7. geo' = geo \o rows
    BY <1>5 DEF InsertChunk, Chunk, AddressesOf
  <1>8. geo \in Seq(Rows) /\ Len(geo) \in Nat /\ DOMAIN geo = 1..Len(geo)
    BY GeoTypes
  <1>9. /\ geo \o rows \in Seq(Rows) /\ Len(geo \o rows) = Len(geo) + Len(rows)
        /\ \A i \in 1..(Len(geo) + Len(rows)) :
             (geo \o rows)[i] = IF i <= Len(geo) THEN geo[i] ELSE rows[i - Len(geo)]
    BY <1>6, <1>8, ConcatProperties
  <1>10. /\ geo' \in Seq(Rows) /\ Len(geo') = Len(geo) + (e - n)
         /\ \A i \in 1..(Len(geo) + (e - n)) :
              geo'[i] = IF i <= Len(geo) THEN geo[i] ELSE rows[i - Len(geo)]
    BY <1>6, <1>7, <1>9
  <1>11. DOMAIN geo' = 1..Len(geo')
    BY <1>10, LenProperties
  <1>12. ASSUME NEW k \in DOMAIN geo
         PROVE  geo'[k] = geo[k]
    <2>1. k \in 1..(Len(geo) + (e - n)) /\ k <= Len(geo)
      BY <1>1, <1>4, <1>8
    <2> QED
      BY <1>10, <2>1
  <1>13. ASSUME NEW k \in 1..(e - n)
         PROVE  geo'[Len(geo) + k] = rows[k]
    <2>1. /\ Len(geo) + k \in 1..(Len(geo) + (e - n)) /\ ~(Len(geo) + k <= Len(geo))
          /\ (Len(geo) + k) - Len(geo) = k
      BY <1>1, <1>4, <1>8
    <2> QED
      BY <1>10, <2>1
  <1>14. \A k \in 1..(e - n) : /\ geo'[Len(geo) + k].tag = GroupTag[r]
                               /\ geo'[Len(geo) + k].address = Uniques[r][n + k]
    BY <1>6, <1>13
  <1> QED
    BY <1>1, <1>4, <1>10, <1>11, <1>12, <1>14 DEF Inserted

\* Once the last address is inserted every row belongs to a whole admission.
LEMMA AllInserted ==
  ASSUME PromiseInv, BlocksInv, NEW h \in Handlers, handler[h].pc = "insert",
         handler[h].pos = Len(AddressesOf(h))
  PROVE  Whole(Len(geo))
  <1>1. Len(geo) \in Nat /\ handler[h].req \in Requests /\ handler[h].pos \in Nat
    BY PromiseTypes, GeoTypes DEF HandlerStates
  <1>2. PICK r, n, p : r = handler[h].req /\ n = handler[h].pos /\ p = Len(geo) - n
    OBVIOUS
  <1>3. /\ Whole(p) /\ RowsAre(p, r, n) /\ n <= Len(geo) /\ n <= Len(Uniques[r])
        /\ r \in Requests /\ n \in Nat
    BY <1>1, <1>2 DEF BlocksInv, AddressesOf
  <1>4. n = Len(Uniques[r])
    BY <1>2 DEF AddressesOf
  <1>5. p \in Nat /\ p + n = Len(geo)
    BY <1>1, <1>2, <1>3
  <1> SUFFICES ASSUME NEW i \in 1..Len(geo)
               PROVE  \E q \in Requests, b \in 0..(i - 1) :
                        /\ i <= b + Len(Uniques[q]) /\ b + Len(Uniques[q]) <= Len(geo)
                        /\ RowsAre(b, q, Len(Uniques[q]))
    BY DEF Whole
  <1>6. CASE i <= p
    <2>1. i \in 1..p
      BY <1>5, <1>6
    <2>2. PICK q \in Requests, b \in 0..(i - 1) :
             /\ i <= b + Len(Uniques[q]) /\ b + Len(Uniques[q]) <= p
             /\ RowsAre(b, q, Len(Uniques[q]))
      BY <1>3, <2>1 DEF Whole
    <2>3. b + Len(Uniques[q]) <= Len(geo)
      <3>1. Len(Uniques[q]) \in Nat
        BY GeoTypes
      <3> QED
        BY <1>1, <1>3, <1>5, <2>2, <3>1
    <2> QED
      BY <2>2, <2>3
  <1>7. CASE ~(i <= p)
    <2>1. p \in 0..(i - 1) /\ i <= p + Len(Uniques[r]) /\ p + Len(Uniques[r]) <= Len(geo)
      <3>1. i \in Nat /\ i <= Len(geo) /\ i # 0
        BY <1>1
      <3>2. p < i /\ i <= p + n /\ p + n <= Len(geo)
        BY <1>1, <1>5, <1>7, <3>1
      <3> QED
        BY <1>4, <1>5, <3>1, <3>2
    <2> QED
      BY <1>3, <1>4, <2>1
  <1> QED
    BY <1>6, <1>7

\* With one insert for each csv no moment leaves rows incomplete.
LEMMA NoneIncomplete ==
  ASSUME PromiseInv, BlocksInv, AtOnceInv
  PROVE  Whole(Len(geo))
  <1>1. Len(geo) \in Nat
    BY GeoTypes
  <1>2. CASE engineLock \notin Handlers
    BY <1>2 DEF BlocksInv
  <1>3. ASSUME NEW h \in Handlers, handler[h].pc = "insert"
        PROVE  Whole(Len(geo))
    <2>1. CASE handler[h].pos = 0
      <3>1. Len(geo) - handler[h].pos = Len(geo)
        BY <1>1, <2>1
      <3> QED
        BY <1>3, <3>1 DEF BlocksInv
    <2>2. CASE handler[h].pos = Len(AddressesOf(h))
      BY <1>3, <2>2, AllInserted
    <2> QED
      BY <1>3, <2>1, <2>2 DEF AtOnceInv
  <1>4. engineLock \in Handlers => handler[engineLock].pc = "insert"
    BY DEF PromiseInv, AdmissionInv, TypeInv, LockDiscipline
  <1> QED
    BY <1>2, <1>3, <1>4

LEMMA BlocksStep ==
  ASSUME MaxFaults = 0, PromiseInv, BlocksInv, Crash => AtOnceInv, [Next]_vars
  PROVE  BlocksInv'
  <1>1. /\ handler \in [Handlers -> HandlerStates]
        /\ \A k \in Handlers : handler[k].req \in Requests /\ handler[k].pos \in Nat
        /\ faults \in Nat /\ crashes \in Nat
    BY PromiseTypes DEF PromiseInv, AdmissionInv, TypeInv, TypeOK, HandlerStates
  <1>2. /\ \A k \in Handlers : handler[k].pc = "insert" <=> engineLock = k
        /\ {"free", "monitor"} \cap Handlers = {}
    BY GeocoderAssumption DEF PromiseInv, AdmissionInv, TypeInv, LockDiscipline
  <1>3. Len(geo) \in Nat /\ DOMAIN geo = 1..Len(geo)
    BY GeoTypes
  <1>4. \A h \in Handlers : ~InsertChunkShort(h) /\ ~InsertChunkError(h)
    BY <1>1 DEF InsertChunkShort, InsertChunkError
  <1>5. ASSUME NEW h \in Handlers,
               \/ \E r \in Requests : Submit(h, r)
               \/ Register(h) \/ RejectCSV(h) \/ OpenDump(h) \/ WriteDump(h)
        PROVE  BlocksInv'
    <2>1. UNCHANGED <<geo, engineLock>>
      BY <1>5 DEF Submit, Register, RejectCSV, OpenDump, WriteDump, durable
    <2>2. /\ \A k \in Handlers \ {h} : handler'[k] = handler[k]
          /\ handler'[h].pc # "insert"
          /\ handler'[h].pc = "registered" => handler'[h].pos = 0
      <3>1. CASE (\E r \in Requests : Submit(h, r)) \/ Register(h) \/ RejectCSV(h)
                 \/ WriteDump(h)
        BY <1>1, <3>1 DEF Submit, Register, RejectCSV, WriteDump, Idle, HandlerAt
      <3>2. CASE OpenDump(h)
        BY <1>1, <3>2 DEF OpenDump, HandlerStates
      <3> QED
        BY <1>5, <3>1, <3>2
    <2>3. /\ \A k \in Handlers : handler'[k].pc = "registered" => handler'[k].pos = 0
          /\ \A k \in Handlers : handler'[k].pc = "insert" =>
               /\ handler[k].pc = "insert" /\ handler'[k].req = handler[k].req
               /\ handler'[k].pos = handler[k].pos
      BY <2>2 DEF BlocksInv
    <2> QED
      BY <2>1, <2>3, BlocksFrame
  <1>6. ASSUME NEW h \in Handlers, LockEngine(h)
        PROVE  BlocksInv'
    <2>1. /\ geo' = geo /\ handler[h].pc = "registered"
          /\ engineLock = "free" /\ engineLock' = h
      BY <1>6 DEF LockEngine, durable
    <2>2. /\ \A k \in Handlers \ {h} : handler'[k] = handler[k]
          /\ handler'[h].pc = "insert" /\ handler'[h].pos = handler[h].pos
      BY <1>1, <1>6 DEF LockEngine, HandlerStates
    <2>3. handler[h].pos = 0 /\ Whole(Len(geo))
      BY <1>2, <2>1 DEF BlocksInv
    <2>4. \A k \in Handlers : handler'[k].pc = "insert" => k = h
      BY <1>2, <2>1, <2>2
    <2>5. \A k \in DOMAIN geo : /\ k \in DOMAIN geo'
                               /\ geo'[k].tag = geo[k].tag
                               /\ geo'[k].address = geo[k].address
      BY <2>1
    <2>6. \A m : Whole(m) => Whole(m)'
      BY <2>5, RowsKept
    <2>7. ASSUME NEW p, NEW r \in Requests, NEW n, n = 0, p = Len(geo) - n
          PROVE  /\ n <= Len(Uniques[r]) /\ n <= Len(geo)
                 /\ Whole(p)' /\ RowsAre(p, r, n)'
      <3>1. p = Len(geo) /\ 1..n = {}
        BY <1>3, <2>7
      <3> QED
        BY <1>3, <2>3, <2>6, <2>7, <3>1, GeoTypes DEF RowsAre
    <2>8. \A k \in Handlers : handler'[k].pc = "registered" => handler'[k].pos = 0
      BY <2>2 DEF BlocksInv
    <2>9. handler'[h].req = handler[h].req
      BY <1>1, <1>6 DEF LockEngine, HandlerStates
    <2>10. ASSUME NEW k \in Handlers, handler'[k].pc = "insert",
                  NEW p, NEW r, NEW n, n = handler'[k].pos, r = handler'[k].req,
                  p = Len(geo') - n
           PROVE  /\ n <= Len(Uniques[r]) /\ n <= Len(geo')
                  /\ Whole(p)' /\ RowsAre(p, r, n)'
      <3>1. k = h
        BY <2>4, <2>10
      <3>2. n = 0 /\ r \in Requests /\ p = Len(geo) - n
        BY <1>1, <2>1, <2>2, <2>3, <2>9, <2>10, <3>1
      <3> QED
        BY <2>1, <2>7, <3>2
    <2>11. engineLock' \in Handlers
      BY <2>1
    <2> QED
      BY <2>8, <2>10, <2>11, BlocksAfter
  <1>7. ASSUME NEW h \in Handlers, InsertChunk(h)
        PROVE  BlocksInv'
    <2>1. /\ handler[h].pc = "insert" /\ engineLock' = engineLock /\ engineLock = h
      BY <1>2, <1>7 DEF InsertChunk, Inserting
    <2>2. /\ \A k \in Handlers \ {h} : handler'[k] = handler[k]
          /\ handler'[h].pc = "insert" /\ handler'[h].pos = ChunkEnd(h)
          /\ handler'[h].req = handler[h].req
      BY <1>1, <1>7, <2>1 DEF InsertChunk, HandlerStates
    <2>3. ASSUME NEW r, r = handler[h].req, NEW n, n = handler[h].pos, NEW e, e = ChunkEnd(h),
                 NEW p, p = Len(geo') - e
          PROVE  /\ e <= Len(Uniques[r]) /\ e <= Len(geo')
                 /\ Whole(p)' /\ RowsAre(p, r, e)'
      <3>1. /\ r \in Requests /\ n \in Nat /\ e \in Nat /\ n <= e /\ e <= Len(Uniques[r])
            /\ Len(geo') = Len(geo) + (e - n)
            /\ DOMAIN geo' = 1..Len(geo')
            /\ \A k \in DOMAIN geo : geo'[k] = geo[k]
            /\ \A k \in 1..(e - n) :
                 /\ geo'[Len(geo) + k].tag = GroupTag[r]
                 /\ geo'[Len(geo) + k].address = Uniques[r][n + k]
        <4>1. InsertChunk(h)
          BY <1>7
        <4>2. r = handler[h].req /\ n = handler[h].pos /\ e = ChunkEnd(h)
          BY <2>3
        <4>3. Inserted(r, n, e)
          BY <4>1, <4>2, ChunkInserted
        <4> QED
          BY <4>3 DEF Inserted
      <3>2. p = Len(geo) - n /\ n <= Len(geo) /\ e <= Len(geo')
        BY <1>3, <2>1, <2>3, <3>1 DEF BlocksInv
      <3>3. Whole(p) /\ RowsAre(p, r, n)
        BY <2>1, <2>3, <3>2 DEF BlocksInv
      <3>4. DOMAIN geo \subseteq DOMAIN geo'
        BY <1>3, <3>1
      <3>5. Whole(p)'
        BY <3>1, <3>3, <3>4, RowsKept
      <3>6. RowsAre(p, r, e)'
        <4> SUFFICES ASSUME NEW k \in 1..e
                     PROVE  /\ p + k \in DOMAIN geo'
                            /\ geo'[p + k].tag = GroupTag[r]
                            /\ geo'[p + k].address = Uniques[r][k]
          BY DEF RowsAre
        <4>1. p + k \in DOMAIN geo'
          BY <1>3, <3>1, <3>2
        <4>2. CASE k <= n
          <5>1. k \in 1..n
            BY <3>1, <4>2
          <5>2. /\ p + k \in DOMAIN geo
                /\ geo[p + k].tag = GroupTag[r]
                /\ geo[p + k].address = Uniques[r][k]
            BY <3>3, <5>1 DEF RowsAre
          <5> QED
            BY <3>1, <4>1, <5>2
        <4>3. CASE ~(k <= n)
          <5>1. k - n \in 1..(e - n) /\ p + k = Len(geo) + (k - n) /\ n + (k - n) = k
            BY <1>3, <3>1, <3>2, <4>3
          <5> QED
            BY <3>1, <4>1, <5>1
        <4> QED
          BY <4>2, <4>3
      <3> QED
        BY <3>1, <3>2, <3>5, <3>6
    <2>4. \A k \in Handlers : handler'[k].pc = "registered" => handler'[k].pos = 0
      BY <2>2 DEF BlocksInv
    <2>5. ASSUME NEW k \in Handlers, handler'[k].pc = "insert",
                 NEW p, NEW r, NEW n, n = handler'[k].pos, r = handler'[k].req,
                 p = Len(geo') - n
          PROVE  /\ n <= Len(Uniques[r]) /\ n <= Len(geo')
                 /\ Whole(p)' /\ RowsAre(p, r, n)'
      <3>1. k = h
        BY <1>2, <2>1, <2>2, <2>5
      <3>2. n = ChunkEnd(h) /\ r = handler[h].req
        BY <2>2, <2>5, <3>1
      <3> QED
        BY <2>3, <2>5, <3>2
    <2>6. engineLock' \in Handlers
      BY <2>1
    <2> QED
      BY <2>4, <2>5, <2>6, BlocksAfter
  <1>8. ASSUME NEW h \in Handlers, Activate(h)
        PROVE  BlocksInv'
    <2>1. geo' = geo /\ handler[h].pc = "insert" /\ engineLock = h
      BY <1>2, <1>8 DEF Activate, Inserting, durable
    <2>2. /\ \A k \in Handlers \ {h} : handler'[k] = handler[k]
          /\ handler'[h].pc \in {"idle", "open"}
      BY <1>1, <1>8 DEF Activate, Idle, HandlerAt
    <2>3. \A k \in Handlers : handler'[k].pc # "insert"
      BY <1>2, <2>1, <2>2
    <2>4. \A k \in Handlers : handler'[k].pc = "registered" => handler'[k].pos = 0
      BY <2>2 DEF BlocksInv
    <2>5. Whole(Len(geo))
      <3>1. handler[h].pos = Len(AddressesOf(h))
        <4>1. handler[h].pos <= Len(AddressesOf(h))
          BY <2>1 DEF BlocksInv
        <4>2. AddressesOf(h) = Uniques[handler[h].req] /\ Len(Uniques[handler[h].req]) \in Nat
          BY <1>1, GeoTypes DEF AddressesOf
        <4> QED
          BY <1>1, <1>8, <4>1, <4>2 DEF Activate, MoreChunks
      <3> QED
        BY <2>1, <3>1, AllInserted
    <2>6. \A m : m = Len(geo') => Whole(m)'
      <3>1. \A k \in DOMAIN geo : /\ k \in DOMAIN geo'
                                  /\ geo'[k].tag = geo[k].tag
                                  /\ geo'[k].address = geo[k].address
        BY <2>1
      <3>2. \A m : Whole(m) => Whole(m)'
        BY <3>1, RowsKept
      <3> QED
        BY <2>1, <2>5, <3>2
    <2> QED
      BY <2>3, <2>4, <2>6, BlocksAfter
  <1>9. ASSUME UNCHANGED <<handler, geo>>, engineLock' \notin Handlers => engineLock \notin Handlers
        PROVE  BlocksInv'
    BY <1>9, BlocksFrame DEF BlocksInv
  <1>10. CASE MonitorStep
    <2>1. CASE Unlink
      <3>1. \A k \in Handlers : /\ handler'[k].pc = handler[k].pc
                                /\ handler'[k].req = handler[k].req
                                /\ handler'[k].pos = handler[k].pos
        BY <1>1, <2>1 DEF Unlink, HandlerStates
      <3>2. UNCHANGED <<geo, engineLock>>
        BY <2>1 DEF Unlink
      <3>3. \A k \in Handlers : handler'[k].pc = "registered" => handler'[k].pos = 0
        BY <3>1 DEF BlocksInv
      <3> QED
        BY <3>1, <3>2, <3>3, BlocksFrame
    <2>2. CASE ~Unlink
      <3>1. UNCHANGED <<handler, geo>>
        BY <1>10, <2>2 DEF MonitorStep, Poll, LockRequests, MergeMissing, Merge,
           UnlinkMissing, OpenResult, WriteResult, EndGroup, durable
      <3>2. engineLock \notin Handlers \/ engineLock' = engineLock
        <4>1. monitor.pc # "idle" => engineLock = "monitor"
          BY DEF PromiseInv, AdmissionInv, TypeInv, LockDiscipline
        <4>2. engineLock = "free" \/ monitor.pc # "idle"
          BY <1>10, <2>2 DEF MonitorStep, Poll, LockRequests, MergeMissing, Merge,
             UnlinkMissing, OpenResult, WriteResult, EndGroup
        <4> QED
          BY <1>2, <4>1, <4>2
      <3> QED
        BY <1>9, <3>1, <3>2
    <2> QED
      BY <2>1, <2>2
  <1>11. ASSUME NEW i \in DOMAIN geo, MarkDone(i)
         PROVE  BlocksInv'
    <2>1. UNCHANGED <<handler, engineLock>> /\ geo' = [geo EXCEPT ![i].done = TRUE]
      BY <1>11 DEF MarkDone, volatile
    <2>2. geo \in Seq(Rows)
      BY GeoTypes
    <2>3. \A k \in DOMAIN geo : geo[k] \in Rows
      BY <1>3, <2>2, ElementOfSeq
    <2>4. \A k \in DOMAIN geo : /\ k \in DOMAIN geo'
                                /\ geo'[k].tag = geo[k].tag
                                /\ geo'[k].address = geo[k].address
      BY <2>1, <2>3 DEF Rows
    <2>5. Len(geo') = Len(geo)
      <3>1. geo' \in Seq(Rows)
        BY AdmissionStep DEF PromiseInv, AdmissionInv, TypeInv, TypeOK
      <3>2. DOMAIN geo' = DOMAIN geo
        BY <2>1
      <3>3. DOMAIN geo' = 1..Len(geo') /\ Len(geo') \in Nat
        BY <3>1, LenProperties
      <3> QED
        BY <1>3, <3>2, <3>3
    <2> QED
      BY <2>1, <2>4, <2>5, BlocksFrame DEF BlocksInv
  <1>12. ASSUME (\E filter \in {""} \cup {ClientTag[r] : r \in Requests} : PullDelete(filter))
                \/ Shutdown \/ Restart \/ UNCHANGED vars
         PROVE  BlocksInv'
    <2>1. UNCHANGED <<handler, geo, engineLock>>
      BY <1>12 DEF PullDelete, Shutdown, Restart, vars, volatile, durable
    <2> QED
      BY <1>9, <2>1
  <1>13. CASE Exit
    <2>1. geo' = geo /\ \A k \in Handlers : handler'[k].pc = "idle" /\ handler[k].pc = "idle"
      BY <1>13 DEF Exit, LoseMemory, durable, Idle, HandlerAt
    <2>2. engineLock \notin Handlers
      BY <1>2, <2>1
    <2> QED
      BY <2>1, <2>2, BlocksFrame
  <1>14. CASE Crash
    <2>1. geo' = geo /\ \A k \in Handlers : handler'[k].pc = "idle"
      BY <1>14 DEF Crash, LoseMemory, durable, Idle, HandlerAt
    <2>2. Whole(Len(geo))
      BY <1>2, <1>14, NoneIncomplete
    <2>3. \A k \in DOMAIN geo : /\ k \in DOMAIN geo'
                               /\ geo'[k].tag = geo[k].tag
                               /\ geo'[k].address = geo[k].address
      BY <2>1
    <2>4. \A m : Whole(m) => Whole(m)'
      BY <2>3, RowsKept
    <2>5. \A m : m = Len(geo') => Whole(m)'
      BY <2>1, <2>2, <2>4
    <2> QED
      BY <2>1, <2>5, BlocksAfter
  <1> QED
    BY <1>4, <1>5, <1>6, <1>7, <1>8, <1>10, <1>11, <1>12, <1>13, <1>14
    DEF Next, HandlerStep

\* One bulk insert takes a csv from none of its rows to all of them.
LEMMA AtOnceStep ==
  ASSUME OneInsert, PromiseInv, BlocksInv, AtOnceInv, [Next]_vars
  PROVE  AtOnceInv'
  <1>1. /\ handler \in [Handlers -> HandlerStates]
        /\ \A k \in Handlers : handler[k].req \in Requests /\ handler[k].pos \in Nat
    BY PromiseTypes DEF HandlerStates
  <1>2. ASSUME \A k \in Handlers : handler'[k].pc = "insert" =>
                 \/ handler'[k].pos = 0
                 \/ /\ handler[k].pc = "insert"
                    /\ handler'[k].pos = handler[k].pos
                    /\ handler'[k].req = handler[k].req
        PROVE  AtOnceInv'
    BY <1>2 DEF AtOnceInv, AddressesOf
  <1>3. ASSUME NEW h \in Handlers,
               \/ \E r \in Requests : Submit(h, r)
               \/ Register(h) \/ RejectCSV(h) \/ InsertChunkError(h) \/ Activate(h)
               \/ OpenDump(h) \/ WriteDump(h)
        PROVE  AtOnceInv'
    <2>1. /\ \A k \in Handlers \ {h} : handler'[k] = handler[k]
          /\ handler'[h].pc # "insert"
      <3>1. CASE OpenDump(h)
        BY <1>1, <3>1 DEF OpenDump, HandlerStates
      <3>2. CASE ~OpenDump(h)
        BY <1>1, <1>3, <3>2 DEF Submit, Register, RejectCSV, InsertChunkError, Activate,
           WriteDump, Idle, HandlerAt
      <3> QED
        BY <3>1, <3>2
    <2> QED
      BY <1>2, <2>1
  <1>4. ASSUME NEW h \in Handlers, LockEngine(h)
        PROVE  AtOnceInv'
    <2>1. handler[h].pos = 0
      BY <1>4 DEF LockEngine, BlocksInv
    <2>2. /\ \A k \in Handlers \ {h} : handler'[k] = handler[k]
          /\ handler'[h].pos = handler[h].pos
      BY <1>1, <1>4 DEF LockEngine, HandlerStates
    <2> QED
      BY <1>2, <2>1, <2>2
  <1>5. ASSUME NEW h \in Handlers, InsertChunk(h) \/ InsertChunkShort(h)
        PROVE  AtOnceInv'
    <2>1. /\ \A k \in Handlers \ {h} : handler'[k] = handler[k]
          /\ handler'[h].pos = ChunkEnd(h) /\ handler'[h].req = handler[h].req
      BY <1>1, <1>5 DEF InsertChunk, InsertChunkShort, HandlerStates
    <2>2. handler[h].pos = 0
      <3>1. /\ handler[h].pc = "insert"
            /\ handler[h].pos < Len(Uniques[handler[h].req])
        BY <1>5 DEF InsertChunk, InsertChunkShort, Inserting, MoreChunks, AddressesOf
      <3>2. Len(Uniques[handler[h].req]) \in Nat
        BY <1>1, GeoTypes
      <3> QED
        BY <1>1, <3>1, <3>2 DEF AtOnceInv, AddressesOf
    <2>3. ChunkEnd(h) = Len(Uniques[handler[h].req])
      <3>1. /\ Len(Uniques[handler[h].req]) \in Nat
            /\ Len(Uniques[handler[h].req]) <= BulkInsertLimit
        BY <1>1, GeoTypes DEF OneInsert
      <3> QED
        BY <2>2, <3>1, GeocoderAssumption DEF ChunkEnd, AddressesOf
    <2>4. ASSUME NEW k \in Handlers, handler'[k].pc = "insert"
          PROVE  handler'[k].pos \in {0, Len(Uniques[handler'[k].req])}
      <3>1. CASE k = h
        BY <2>1, <2>3, <3>1
      <3>2. CASE k # h
        BY <2>1, <2>4, <3>2 DEF AtOnceInv, AddressesOf
      <3> QED
        BY <3>1, <3>2
    <2> QED
      BY <2>4 DEF AtOnceInv, AddressesOf
  <1>6. CASE MonitorStep
    <2>1. \A k \in Handlers : /\ handler'[k].pc = handler[k].pc
                              /\ handler'[k].req = handler[k].req
                              /\ handler'[k].pos = handler[k].pos
      <3>1. CASE Unlink
        BY <1>1, <3>1 DEF Unlink, HandlerStates
      <3>2. CASE ~Unlink
        BY <1>6, <3>2 DEF MonitorStep, Poll, LockRequests, MergeMissing, Merge,
           UnlinkMissing, OpenResult, WriteResult, EndGroup
      <3> QED
        BY <3>1, <3>2
    <2> QED
      BY <1>2, <2>1
  <1>7. CASE Crash \/ Exit
    <2>1. \A k \in Handlers : handler'[k].pc = "idle"
      BY <1>7 DEF Crash, Exit, LoseMemory, Idle, HandlerAt
    <2> QED
      BY <1>2, <2>1
  <1>8. ASSUME (\E filter \in {""} \cup {ClientTag[r] : r \in Requests} : PullDelete(filter))
               \/ (\E i \in DOMAIN geo : MarkDone(i))
               \/ Shutdown \/ Restart \/ UNCHANGED vars
        PROVE  AtOnceInv'
    <2>1. handler' = handler
      BY <1>8 DEF PullDelete, MarkDone, Shutdown, Restart, vars, volatile
    <2> QED
      BY <1>2, <2>1
  <1> QED
    BY <1>3, <1>4, <1>5, <1>6, <1>7, <1>8 DEF Next, HandlerStep

\* A turn takes the rows of finished tags, so it takes each run as a whole; the
\* first group of uncut rows is a run, and the rows behind it stay uncut.
LEMMA RunsStart ==
  ASSUME PromiseInv, NEW data, data \subseteq DOMAIN geo, \A i \in data : geo[i].done,
         Uncut(data), StartGroup(data), geo' = geo
  PROVE  RunsInv'
  <1>1. DOMAIN geo = 1..Len(geo) /\ Len(geo) \in Nat
    BY GeoTypes
  <1>2. PICK first \in data :
          /\ \A j \in data : first <= j
          /\ monitor' = [pc |-> "merge", tag |-> geo[first].tag,
                         group |-> {i \in data : \A j \in data :
                                      j <= i => geo[j].tag = geo[first].tag},
                         data |-> data \ {i \in data : \A j \in data :
                                      j <= i => geo[j].tag = geo[first].tag},
                         pos |-> 1]
    BY DEF StartGroup
  <1> DEFINE group == {i \in data : \A j \in data : j <= i => geo[j].tag = geo[first].tag}
  <1>3. /\ monitor'.group = group /\ monitor'.data = data \ group
        /\ monitor'.tag = geo[first].tag
    BY <1>2
  <1>4. \A i \in data : i \in Int
    BY <1>1
  <1>5. first \in group
    <2> SUFFICES ASSUME NEW j \in data, j <= first
                 PROVE  geo[j].tag = geo[first].tag
      OBVIOUS
    <2>1. j = first
      BY <1>2, <1>4
    <2> QED
      BY <2>1
  <1>6. group \subseteq data /\ \A i \in group : geo[i].tag = geo[first].tag
    BY <1>4
  <1>7. ASSUME NEW i \in DOMAIN geo, NEW j \in DOMAIN geo, SameRun(i, j)
        PROVE  i \in group <=> j \in group
    <2>1. i \in data <=> j \in data
      BY <1>7 DEF Uncut
    <2>2. i \in Int /\ j \in Int /\ i <= j /\ \A k \in i..j : geo[k].tag = geo[i].tag
      BY <1>1, <1>7 DEF SameRun
    <2>3. ASSUME i \in group
          PROVE  j \in group
      <3> SUFFICES ASSUME NEW k \in data, k <= j
                   PROVE  geo[k].tag = geo[first].tag
        BY <2>1, <2>3
      <3>1. k \in Int
        BY <1>4
      <3>2. CASE k <= i
        BY <2>3, <3>2
      <3>3. CASE ~(k <= i)
        <4>1. k \in i..j
          BY <2>2, <3>1, <3>3
        <4> QED
          BY <1>6, <2>2, <2>3, <4>1
      <3> QED
        BY <3>2, <3>3
    <2>4. ASSUME j \in group
          PROVE  i \in group
      <3> SUFFICES ASSUME NEW k \in data, k <= i
                   PROVE  geo[k].tag = geo[first].tag
        BY <2>1, <2>4
      <3>1. k <= j
        BY <1>4, <2>2
      <3> QED
        BY <2>4, <3>1
    <2> QED
      BY <2>3, <2>4
  <1>8. ASSUME NEW i \in DOMAIN geo, NEW j \in DOMAIN geo, SameRun(i, j)
        PROVE  i \in data \ group <=> j \in data \ group
    <2>1. i \in data <=> j \in data
      BY <1>8 DEF Uncut
    <2> QED
      BY <1>7, <1>8, <2>1
  <1> HIDE DEF group
  <1>9. Uncut(group) /\ Uncut(data \ group)
    BY <1>7, <1>8 DEF Uncut
  <1>10. Uncut(monitor.group)' /\ Uncut(monitor.data)'
    BY <1>3, <1>9 DEF Uncut, SameRun
  <1> QED
    BY <1>3, <1>5, <1>6, <1>10 DEF RunsInv

\* While a turn goes on nothing is inserted.
LEMMA RunsStep ==
  ASSUME PromiseInv, RunsInv, [Next]_vars
  PROVE  RunsInv'
  <1>1. /\ \A k \in Handlers : handler[k].pc = "insert" <=> engineLock = k
        /\ "monitor" \notin Handlers
        /\ monitor.pc # "idle" <=> engineLock = "monitor"
    BY GeocoderAssumption DEF PromiseInv, AdmissionInv, TypeInv, LockDiscipline
  <1>2. DOMAIN geo = 1..Len(geo) /\ Len(geo) \in Nat /\ geo \in Seq(Rows)
    BY GeoTypes
  <1>3. monitor \in MonitorStates /\ MonitorIdle.pc = "idle"
    BY PromiseTypes DEF MonitorIdle
  <1>4. ASSUME geo' = geo,
               monitor'.pc # "idle" => /\ monitor.pc # "idle" /\ monitor'.group = monitor.group
                                       /\ monitor.pc = "locking" => monitor'.pc = "locking"
                                       /\ monitor'.data = monitor.data
                                       /\ monitor'.tag = monitor.tag
        PROVE  RunsInv'
    BY <1>4 DEF RunsInv, Uncut, SameRun
  <1>5. ASSUME NEW h \in Handlers,
               \/ \E r \in Requests : Submit(h, r)
               \/ Register(h) \/ RejectCSV(h) \/ LockEngine(h) \/ InsertChunkError(h)
               \/ Activate(h) \/ OpenDump(h) \/ WriteDump(h)
        PROVE  RunsInv'
    <2>1. geo' = geo /\ monitor' = monitor
      BY <1>5 DEF Submit, Register, RejectCSV, LockEngine, InsertChunkError, Activate, OpenDump,
         WriteDump, durable
    <2> QED
      BY <1>4, <2>1
  <1>6. ASSUME NEW h \in Handlers, InsertChunk(h) \/ InsertChunkShort(h)
        PROVE  RunsInv'
    <2>1. monitor' = monitor /\ handler[h].pc = "insert"
      BY <1>6 DEF InsertChunk, InsertChunkShort, Inserting
    <2>2. monitor'.pc = "idle"
      BY <1>1, <2>1
    <2> QED
      BY <2>2 DEF RunsInv
  <1>7. CASE Poll
    <2>1. /\ geo' = geo /\ monitor'.pc = "locking"
          /\ monitor'.group = {} /\ monitor'.data = Fetched
      BY <1>7 DEF Poll, durable, MonitorIdle
    <2>2. Fetched \subseteq DOMAIN geo /\ \A i \in Fetched : geo[i].done
      BY DEF Fetched, DoneTags, RowsOf
    <2>3. Uncut(Fetched)
      <3> SUFFICES ASSUME NEW i \in DOMAIN geo, NEW j \in DOMAIN geo, SameRun(i, j)
                   PROVE  i \in Fetched <=> j \in Fetched
        BY DEF Uncut
      <3>1. geo[j].tag = geo[i].tag
        BY <1>2 DEF SameRun
      <3>2. \A k \in DOMAIN geo : k \in Fetched <=> geo[k].tag \in DoneTags
        BY DEF Fetched, RowsOf
      <3> QED
        BY <3>1, <3>2
    <2> QED
      BY <2>1, <2>2, <2>3 DEF RunsInv, Uncut, SameRun
  <1>13. CASE LockRequests
    <2>1. geo' = geo /\ monitor.pc = "locking" /\ StartGroup(monitor.data)
      BY <1>13 DEF LockRequests, durable
    <2>2. /\ monitor.data \subseteq DOMAIN geo /\ \A i \in monitor.data : geo[i].done
          /\ Uncut(monitor.data)
      BY <2>1, GeoTypes DEF RunsInv
    <2> QED
      BY <2>1, <2>2, RunsStart
  <1>8. CASE EndGroup
    <2>1. geo' = geo /\ monitor.pc = "merge"
      BY <1>8 DEF EndGroup, durable
    <2>2. CASE monitor' = MonitorIdle
      BY <1>3, <1>4, <2>1, <2>2
    <2>3. CASE monitor' # MonitorIdle
      <3>1. StartGroup(monitor.data)
        BY <1>8, <2>3 DEF EndGroup
      <3>2. /\ monitor.data \subseteq DOMAIN geo /\ \A i \in monitor.data : geo[i].done
            /\ Uncut(monitor.data)
        BY <2>1, GeoTypes DEF RunsInv
      <3> QED
        BY <2>1, <3>1, <3>2, RunsStart
    <2> QED
      BY <2>2, <2>3
  <1>9. CASE Merge \/ Unlink \/ OpenResult \/ WriteResult
    <2>1. geo' = geo /\ monitor.pc \notin {"idle", "locking"}
      BY <1>9 DEF Merge, Unlink, OpenResult, WriteResult, durable
    <2>2. /\ monitor'.group = monitor.group /\ monitor'.data = monitor.data
          /\ monitor'.tag = monitor.tag
      BY <1>3, <1>9 DEF Merge, Unlink, OpenResult, WriteResult, MonitorStates
    <2> QED
      BY <1>4, <2>1, <2>2
  <1>10. CASE MergeMissing \/ UnlinkMissing \/ Crash \/ Exit
    <2>1. geo' = geo /\ monitor' = MonitorIdle
      BY <1>10 DEF MergeMissing, UnlinkMissing, Crash, Exit, AbortTurn, LoseMemory, durable
    <2> QED
      BY <1>3, <1>4, <2>1
  <1>11. ASSUME NEW i \in DOMAIN geo, MarkDone(i)
         PROVE  RunsInv'
    <2>1. monitor' = monitor /\ geo' = [geo EXCEPT ![i].done = TRUE]
      BY <1>11 DEF MarkDone, volatile
    <2>2. \A k \in DOMAIN geo : geo[k] \in Rows
      BY <1>2, ElementOfSeq
    <2>3. /\ DOMAIN geo' = DOMAIN geo
          /\ \A k \in DOMAIN geo : geo'[k].tag = geo[k].tag /\ (geo[k].done => geo'[k].done)
      BY <2>1, <2>2 DEF Rows
    <2>4. monitor.group \subseteq DOMAIN geo /\ monitor.data \subseteq DOMAIN geo
      BY GeoTypes
    <2>5. \A k, j \in DOMAIN geo : SameRun(k, j)' => SameRun(k, j)
      <3> SUFFICES ASSUME NEW k \in DOMAIN geo, NEW j \in DOMAIN geo,
                          k <= j, \A l \in k..j : geo'[l].tag = geo'[k].tag
                   PROVE  \A l \in k..j : geo[l].tag = geo[k].tag
        BY DEF SameRun
      <3>1. k..j \subseteq DOMAIN geo
        BY <1>2
      <3> QED
        BY <2>3, <3>1
    <2>6. \A rows : Uncut(rows) => Uncut(rows)'
      BY <2>3, <2>5 DEF Uncut
    <2>7. ASSUME monitor.pc # "idle"
          PROVE  Uncut(monitor.group)' /\ Uncut(monitor.data)'
      <3>1. PICK g, d : g = monitor.group /\ d = monitor.data
        OBVIOUS
      <3>2. Uncut(g)' /\ Uncut(d)'
        BY <2>6, <2>7, <3>1 DEF RunsInv
      <3> QED
        BY <2>1, <3>1, <3>2 DEF Uncut
    <2> QED
      BY <2>1, <2>3, <2>4, <2>7 DEF RunsInv
  <1>12. CASE (\E filter \in {""} \cup {ClientTag[r] : r \in Requests} : PullDelete(filter))
              \/ Shutdown \/ Restart \/ UNCHANGED vars
    <2>1. geo' = geo /\ monitor' = monitor
      BY <1>12 DEF PullDelete, Shutdown, Restart, vars, volatile, durable
    <2> QED
      BY <1>4, <2>1
  <1> QED
    BY <1>5, <1>6, <1>7, <1>8, <1>9, <1>10, <1>11, <1>12, <1>13
    DEF Next, HandlerStep, MonitorStep

\* Any row of the group belongs to a whole admission, that of the request the
\* monitor is at, and the group holds all the rows of that admission.
LEMMA MatchesCover ==
  ASSUME DistinctTags, PromiseInv, BlocksInv, RunsInv, monitor.pc = "merge", MoreInGroup,
         NEW a \in Members(Uniques[Current])
  PROVE  Matches(Current)[a] >= 1
  <1>1. /\ DOMAIN geo = 1..Len(geo) /\ Len(geo) \in Nat
        /\ monitor.group \subseteq DOMAIN geo
    BY GeoTypes
  <1>2. Current \in Requests
    BY CurrentType DEF PromiseInv, AdmissionInv
  <1>3. GroupTag[Current] = monitor.tag
    <2>1. monitor.pos \in DOMAIN active[monitor.tag]
      BY PromiseTypes DEF MoreInGroup
    <2> QED
      BY <2>1, PromiseTypes DEF PromiseInv, TagInv, Current
  <1>4. Whole(Len(geo))
    <2>1. engineLock = "monitor" /\ "monitor" \notin Handlers
      BY GeocoderAssumption DEF PromiseInv, AdmissionInv, TypeInv, LockDiscipline
    <2> QED
      BY <2>1 DEF BlocksInv
  <1>5. PICK i \in monitor.group : i \in 1..Len(geo) /\ geo[i].tag = monitor.tag
    BY <1>1 DEF RunsInv
  <1>6. PICK q \in Requests, p \in 0..(i - 1) :
          /\ i <= p + Len(Uniques[q]) /\ p + Len(Uniques[q]) <= Len(geo)
          /\ RowsAre(p, q, Len(Uniques[q]))
    BY <1>4, <1>5 DEF Whole
  <1>7. /\ Uniques[q] \in Seq(Addresses) /\ Len(Uniques[q]) \in Nat
        /\ DOMAIN Uniques[q] = 1..Len(Uniques[q])
    BY GeoTypes
  <1>8. \A k \in (p + 1)..(p + Len(Uniques[q])) : k \in DOMAIN geo /\ geo[k].tag = GroupTag[q]
    <2> SUFFICES ASSUME NEW k \in (p + 1)..(p + Len(Uniques[q]))
                 PROVE  k \in DOMAIN geo /\ geo[k].tag = GroupTag[q]
      OBVIOUS
    <2>1. k - p \in 1..Len(Uniques[q]) /\ p + (k - p) = k
      BY <1>5, <1>7
    <2> QED
      BY <1>6, <2>1 DEF RowsAre
  <1>9. i \in (p + 1)..(p + Len(Uniques[q]))
    BY <1>5, <1>6, <1>7
  <1>10. q = Current
    BY <1>2, <1>3, <1>5, <1>8, <1>9 DEF DistinctTags
  <1>11. PICK k \in 1..Len(Uniques[q]) : Uniques[q][k] = a
    BY <1>7, <1>10 DEF Members
  <1>12. PICK j : j = p + k
    OBVIOUS
  <1>13. j \in (p + 1)..(p + Len(Uniques[q])) /\ j \in DOMAIN geo /\ geo[j].address = a
    BY <1>5, <1>6, <1>7, <1>11, <1>12 DEF RowsAre
  <1>14. SameRun(i, j) \/ SameRun(j, i)
    <2>1. i \in Int /\ j \in Int
      BY <1>1, <1>5, <1>13
    <2>2. CASE i <= j
      <3>1. \A l \in i..j : l \in (p + 1)..(p + Len(Uniques[q]))
        BY <1>5, <1>7, <1>9, <1>13, <2>1
      <3> QED
        BY <1>8, <1>9, <2>2, <3>1 DEF SameRun
    <2>3. CASE j <= i
      <3>1. \A l \in j..i : l \in (p + 1)..(p + Len(Uniques[q]))
        BY <1>5, <1>7, <1>9, <1>13, <2>1
      <3> QED
        BY <1>8, <1>13, <2>3, <3>1 DEF SameRun
    <2> QED
      BY <2>1, <2>2, <2>3
  <1>15. j \in monitor.group
    BY <1>1, <1>5, <1>13, <1>14 DEF RunsInv, Uncut
  <1>16. geo[j].done
    BY <1>15 DEF RunsInv
  <1> DEFINE found == {x \in monitor.group : geo[x].address = a /\ geo[x].done}
  <1>17. Matches(Current)[a] = Cardinality(found)
    <2>1. a \in Addresses
      BY <1>7, <1>11, ElementOfSeq
    <2> QED
      BY <2>1 DEF Matches
  <1>18. j \in found /\ found \subseteq 1..Len(geo)
    BY <1>1, <1>13, <1>15, <1>16
  <1> HIDE DEF found
  <1>19. IsFiniteSet(found)
    <2>1. IsFiniteSet(1..Len(geo))
      BY <1>1, FS_Interval
    <2> QED
      BY <1>18, <2>1, FS_Subset
  <1>20. Cardinality(found) \in Nat /\ Cardinality(found) # 0
    BY <1>18, <1>19, FS_CardinalityType, FS_EmptySet
  <1> QED
    BY <1>17, <1>20

\* Only the monitor's join changes a csv, and a result file is written with
\* the joins of its request.
LEMMA CoverStep ==
  ASSUME DistinctTags, PromiseInv, BlocksInv, RunsInv, CoverInv, [Next]_vars
  PROVE  CoverInv'
  <1>1. requests \in [Requests -> Objects] /\ DumpInv'
    <2>1. AdmissionInv'
      BY AdmissionStep DEF PromiseInv
    <2> QED
      BY <2>1, PromiseTypes DEF AdmissionInv
  <1>2. /\ \A r \in Requests : requests[r].joins \in Seq(Mappings)
        /\ Absent.joins = <<>>
    BY <1>1 DEF Objects, Absent
  <1>3. ASSUME \A r \in Requests : \/ requests'[r].joins = <<>>
                                   \/ requests'[r].joins = requests[r].joins
        PROVE  \A r \in Requests : requests'[r].joins # <<>> => Covers(r, requests'[r].joins)
    BY <1>3 DEF CoverInv
  <1>4. ASSUME \A r \in Requests : \/ requests'[r].joins = <<>>
                                   \/ requests'[r].joins = requests[r].joins,
               \A n \in Completed' : n \in Completed
        PROVE  CoverInv'
    <2>1. \A n \in Completed' : Covers(n.req, n.joins)
      BY <1>4 DEF CoverInv
    <2> QED
      BY <1>3, <1>4, <2>1 DEF CoverInv, Covers
  <1>5. ASSUME NEW name, NEW file, dump' = Put(dump, name, file),
               file.status # "COMPLETED" \/ name \in Completed \/ name \notin Completed'
        PROVE  \A n \in Completed' : n \in Completed
    BY <1>5 DEF Completed, Put
  <1>6. ASSUME NEW h \in Handlers,
               \/ \E r \in Requests : Submit(h, r)
               \/ Register(h) \/ RejectCSV(h) \/ LockEngine(h) \/ InsertChunk(h)
               \/ InsertChunkShort(h) \/ InsertChunkError(h) \/ Activate(h)
        PROVE  CoverInv'
    <2>1. dump' = dump
      BY <1>6 DEF Submit, Register, RejectCSV, LockEngine, InsertChunk, InsertChunkShort,
         InsertChunkError, Activate, durable
    <2>2. \A n \in Completed' : n \in Completed
      BY <2>1 DEF Completed
    <2>3. CASE Register(h)
      <3>1. PICK q \in Requests : q = handler[h].req
        BY PromiseTypes
      <3>2. \/ requests' = requests
            \/ requests' = [requests EXCEPT ![q] = [status |-> "RECIEVED", joins |-> <<>>]]
        BY <2>3, <3>1 DEF Register, Received
      <3>3. \A r \in Requests : \/ requests'[r].joins = <<>>
                                \/ requests'[r].joins = requests[r].joins
        BY <1>1, <3>2
      <3> QED
        BY <1>4, <2>2, <3>3
    <2>4. CASE requests' = requests
      BY <1>4, <2>2, <2>4
    <2> QED
      BY <1>6, <2>3, <2>4 DEF Submit, RejectCSV, LockEngine, InsertChunk, InsertChunkShort,
         InsertChunkError, Activate
  <1>7. ASSUME NEW h \in Handlers, OpenDump(h) \/ WriteDump(h)
        PROVE  CoverInv'
    <2>1. handler[h].req \in Requests
      BY PromiseTypes
    <2>2. \A r \in Requests : requests'[r].joins = requests[r].joins
      <3>1. CASE OpenDump(h)
        <4>1. requests' = [requests EXCEPT ![handler[h].req].status = "REQUESTED"]
          BY <3>1 DEF OpenDump
        <4> QED
          BY <1>1, <2>1, <4>1 DEF Objects
      <3>2. CASE WriteDump(h)
        BY <3>2 DEF WriteDump
      <3> QED
        BY <1>7, <3>1, <3>2
    <2>3. Original(handler[h].req) \notin Completed'
      <3>1. \A r \in Requests : Original(r) \in DOMAIN dump' => dump'[Original(r)].status # "COMPLETED"
        BY <1>1 DEF DumpInv, Original
      <3>2. \A n : n \in Completed' => n \in DOMAIN dump' /\ dump'[n].status = "COMPLETED"
        BY DEF Completed
      <3> QED
        BY <2>1, <3>1, <3>2
    <2>4. CASE dump' = dump
      <3>1. \A n \in Completed' : n \in Completed
        BY <2>4 DEF Completed
      <3> QED
        BY <1>4, <2>2, <3>1
    <2>5. CASE dump' # dump
      <3>1. PICK file : dump' = Put(dump, Original(handler[h].req), file)
        BY <1>7, <2>5 DEF OpenDump, WriteDump
      <3>2. \A n \in Completed' : n \in Completed
        BY <1>5, <2>3, <3>1
      <3> QED
        BY <1>4, <2>2, <3>2
    <2> QED
      BY <2>4, <2>5
  <1>8. CASE Merge
    <2>1. /\ dump' = dump /\ monitor.pc = "merge" /\ MoreInGroup
          /\ requests' = [requests EXCEPT ![Current].joins = Joined(@, Matches(Current))]
      BY <1>8 DEF Merge, durable
    <2>2. Current \in Requests
      BY <2>1, CurrentType DEF PromiseInv, AdmissionInv
    <2>3. /\ requests'[Current].joins = Joined(requests[Current].joins, Matches(Current))
          /\ \A r \in Requests \ {Current} : requests'[r] = requests[r]
      BY <1>1, <2>1, <2>2 DEF Objects
    <2>4. PICK c, joins, m : c = Current /\ joins = requests[c].joins /\ m = Matches(Current)
      OBVIOUS
    <2>5. joins \in Seq(Mappings) /\ Len(joins) \in Nat /\ (joins = <<>> => Len(joins) = 0)
      BY <1>2, <2>2, <2>4, LenProperties
    <2>6. ASSUME Joined(joins, m) # <<>>
          PROVE  Covers(c, Joined(joins, m))
      <3>1. CASE Len(joins) < MaxJoins
        <4>1. Joined(joins, m) = Append(joins, m)
          BY <3>1 DEF Joined
        <4>2. m \in Mappings
          BY <2>2, <2>4, MatchesType DEF PromiseInv, AdmissionInv, TypeInv
        <4>3. /\ Len(Append(joins, m)) = Len(joins) + 1
              /\ Append(joins, m)[Len(joins) + 1] = m
          BY <2>5, <4>2, AppendProperties
        <4>4. \A a \in Members(Uniques[c]) : m[a] >= 1
          BY <2>1, <2>4, MatchesCover
        <4> QED
          BY <4>1, <4>3, <4>4 DEF Covers
      <3>2. CASE ~(Len(joins) < MaxJoins)
        <4>1. Joined(joins, m) = joins
          BY <3>2 DEF Joined
        <4> QED
          BY <2>2, <2>4, <2>6, <4>1 DEF CoverInv
      <3> QED
        BY <3>1, <3>2
    <2>7. ASSUME NEW r \in Requests, requests'[r].joins # <<>>
          PROVE  Covers(r, requests'[r].joins)
      <3>1. CASE r = c
        BY <2>3, <2>4, <2>6, <2>7, <3>1
      <3>2. CASE r # c
        BY <2>3, <2>4, <2>7, <3>2 DEF CoverInv
      <3> QED
        BY <3>1, <3>2
    <2>8. \A n \in Completed' : Covers(n.req, n.joins)
      <3>1. Completed' = Completed
        BY <2>1 DEF Completed
      <3> QED
        BY <3>1 DEF CoverInv
    <2> QED
      BY <2>7, <2>8 DEF CoverInv, Covers
  <1>9. CASE Unlink
    <2>1. Current \in Requests
      BY <1>9, CurrentType DEF Unlink, PromiseInv, AdmissionInv
    <2>2. \A r \in Requests : requests'[r].joins = requests[r].joins
      BY <1>1, <1>9, <2>1 DEF Unlink, Objects
    <2>3. \A n \in Completed' : n \in Completed
      BY <1>9 DEF Unlink, Without, Completed
    <2> QED
      BY <1>4, <2>2, <2>3
  <1>10. CASE OpenResult
    <2>1. requests' = requests /\ dump' = Put(dump, Result(Current), Empty(Result(Current)))
      BY <1>10 DEF OpenResult
    <2>2. Empty(Result(Current)).status # "COMPLETED"
      BY DEF Empty
    <2>3. \A n \in Completed' : n \in Completed
      BY <1>5, <2>1, <2>2
    <2> QED
      BY <1>4, <2>1, <2>3
  <1>11. CASE WriteResult
    <2>1. PICK c, d : c = Current /\ d = Result(c)
      OBVIOUS
    <2>2. c \in Requests /\ requests[c].joins # <<>>
      BY <1>11, <2>1, CurrentType
      DEF WriteResult, PromiseInv, AdmissionInv, EntryInv, AtEntry
    <2>3. /\ requests' = [requests EXCEPT ![c] = Absent]
          /\ dump' = Put(dump, d, [status |-> "COMPLETED", data |-> d])
      BY <1>11, <2>1 DEF WriteResult
    <2>4. \A r \in Requests : requests'[r].joins = <<>> \/ requests'[r].joins = requests[r].joins
      BY <1>1, <1>2, <2>3
    <2>5. d.req = c /\ d.joins = requests[c].joins
      BY <2>1 DEF Result
    <2>6. Covers(d.req, d.joins)
      BY <2>2, <2>5 DEF CoverInv
    <2>7. \A n \in Completed' : n = d \/ n \in Completed
      BY <2>3 DEF Completed, Put
    <2>8. \A n \in Completed' : Covers(n.req, n.joins)
      BY <2>6, <2>7 DEF CoverInv
    <2> QED
      BY <1>3, <2>4, <2>8 DEF CoverInv, Covers
  <1>12. CASE Poll \/ LockRequests \/ MergeMissing \/ UnlinkMissing \/ EndGroup
    <2>1. requests' = requests /\ dump' = dump
      BY <1>12 DEF Poll, LockRequests, MergeMissing, UnlinkMissing, EndGroup, durable
    <2>2. \A n \in Completed' : n \in Completed
      BY <2>1 DEF Completed
    <2> QED
      BY <1>4, <2>1, <2>2
  <1>13. ASSUME NEW filter, PullDelete(filter)
         PROVE  CoverInv'
    <2>1. requests' = requests /\ dump' = Without(dump, Pulled(filter))
      BY <1>13 DEF PullDelete, volatile
    <2>2. \A n \in Completed' : n \in Completed
      BY <2>1 DEF Without, Completed
    <2> QED
      BY <1>4, <2>1, <2>2
  <1>14. CASE Crash \/ Exit \/ Restart
    <2>1. dump' = dump /\ \A r \in Requests : requests'[r].joins = <<>>
      BY <1>2, <1>14 DEF Crash, Exit, Restart, LoseMemory, durable
    <2>2. \A n \in Completed' : n \in Completed
      BY <2>1 DEF Completed
    <2> QED
      BY <1>4, <2>1, <2>2
  <1>15. CASE (\E i \in DOMAIN geo : MarkDone(i)) \/ Shutdown \/ UNCHANGED vars
    <2>1. requests' = requests /\ dump' = dump
      BY <1>15 DEF MarkDone, Shutdown, vars, volatile, durable
    <2>2. \A n \in Completed' : n \in Completed
      BY <2>1 DEF Completed
    <2> QED
      BY <1>4, <2>1, <2>2
  <1> QED
    BY <1>6, <1>7, <1>8, <1>9, <1>10, <1>11, <1>12, <1>13, <1>14, <1>15
    DEF Next, HandlerStep, MonitorStep

\* The rows, the runs of the monitor and the joins together.
CoveringInv == BlocksInv /\ RunsInv /\ CoverInv /\ (OneInsert => AtOnceInv)

LEMMA CoveringInit == Init => CoveringInv
  <1> SUFFICES ASSUME Init
               PROVE  CoveringInv
    OBVIOUS
  <1>1. /\ geo = <<>> /\ DOMAIN dump = {} /\ monitor.pc = "idle"
        /\ \A k \in Handlers : handler[k].pc = "idle"
        /\ \A r \in Requests : requests[r].joins = <<>>
    BY DEF Init, VolatileInit, MonitorIdle, Idle, HandlerAt, Absent
  <1>2. Len(geo) = 0
    BY <1>1, EmptySeq
  <1>3. BlocksInv /\ AtOnceInv
    BY <1>1, <1>2 DEF BlocksInv, Whole, AtOnceInv
  <1>4. RunsInv
    BY <1>1 DEF RunsInv
  <1>5. CoverInv
    BY <1>1 DEF CoverInv, Completed
  <1> QED
    BY <1>3, <1>4, <1>5 DEF CoveringInv

LEMMA CoveringStep ==
  ASSUME Undisturbed
  PROVE  PromiseInv /\ CoveringInv /\ [Next]_vars => CoveringInv'
  <1> SUFFICES ASSUME PromiseInv, CoveringInv, [Next]_vars
               PROVE  CoveringInv'
    OBVIOUS
  <1>1. BlocksInv /\ RunsInv /\ CoverInv /\ DistinctTags /\ MaxFaults = 0
    BY DEF CoveringInv, Undisturbed
  <1>2. Crash => OneInsert
    <2>1. crashes \in Nat
      BY DEF PromiseInv, AdmissionInv, TypeInv, TypeOK
    <2> QED
      BY <2>1 DEF Undisturbed, Crash
  <1>3. Crash => AtOnceInv
    BY <1>2 DEF CoveringInv
  <1>4. BlocksInv'
    BY <1>1, <1>3, BlocksStep
  <1>5. RunsInv' /\ CoverInv'
    BY <1>1, RunsStep, CoverStep
  <1>6. OneInsert => AtOnceInv'
    BY <1>1, AtOnceStep DEF CoveringInv
  <1> QED
    BY <1>4, <1>5, <1>6 DEF CoveringInv, OneInsert

\* Where no two requests share a tag, no insert fails and no crash cuts an
\* admission's rows, every address of a completed request has found its row,
\* although the rows of a tag come back in several runs once its request was
\* admitted again.
THEOREM ResultsCoverAddresses ==
  ASSUME Undisturbed
  PROVE  Spec => []ResultCoversAddresses
  <1>1. CoveringInv => ResultCoversAddresses
    BY DEF CoveringInv, CoverInv, Covers, ResultCoversAddresses
  <1> QED
    BY <1>1, CoveringInit, CoveringStep, PromiseAlways, PTL DEF Spec

-------------------------------------------------------------------------------
(* The call geocode() that polls for a result.  Its steps are steps of the *)
(* service or leave the service alone, so what was proved of the service   *)
(* holds in front of its clients.                                          *)

LEMMA ClientStepsAreSteps == [ClientNext]_clientVars => [Next]_vars
  BY DEF ClientNext, clientVars, Call, ClientStep, Answered, PullOne, PullSeveral,
     PullRefused, ServiceStep, Next

LEMMA ClientsUseTheService == ClientSpec => Spec
  <1>1. ClientInit => Init
    BY DEF ClientInit
  <1> QED
    BY <1>1, ClientStepsAreSteps, PTL DEF ClientSpec, Spec

\* The clients' records keep their shape.
THEOREM ClientTypeCorrect == ClientSpec => []ClientTypeOK
  <1>1. ClientInit => ClientTypeOK
    <2>1. (CHOOSE r \in Requests : TRUE) \in Requests
      BY GeocoderAssumption
    <2> QED
      BY <2>1 DEF ClientInit, ClientTypeOK, ClientAt, ClientStates
  <1>2. ClientTypeOK /\ [ClientNext]_clientVars => ClientTypeOK'
    <2> SUFFICES ASSUME ClientTypeOK, [ClientNext]_clientVars
                 PROVE  ClientTypeOK'
      OBVIOUS
    <2>1. ASSUME NEW c \in Handlers, NEW r \in Requests, Call(c, r)
          PROVE  ClientTypeOK'
      BY <2>1 DEF Call, ClientTypeOK, ClientAt, ClientStates
    <2>2. ASSUME NEW c \in Handlers, ClientStep(c)
          PROVE  ClientTypeOK'
      <3>1. CASE PullOne(c)
        <4>1. PICK at \in {"returned", "raised"} :
                client' = [client EXCEPT ![c] = ClientAt(at, @.req)]
          BY <3>1 DEF PullOne, Unpacked
        <4> QED
          BY <4>1 DEF ClientTypeOK, ClientAt, ClientStates
      <3>2. CASE ~PullOne(c)
        BY <2>2, <3>2 DEF ClientStep, Answered, PullSeveral, PullRefused, ClientTypeOK,
           ClientStates
      <3> QED
        BY <3>1, <3>2
    <2>3. CASE UNCHANGED client
      BY <2>3 DEF ClientTypeOK
    <2> QED
      BY <2>1, <2>2, <2>3 DEF ClientNext, clientVars
  <1> QED
    BY <1>1, <1>2, PTL DEF ClientSpec

\* A request that was accepted, or that some thread has registered and is busy with.
Busy(h) == handler[h].pc \notin {"idle", "checking"}
Known(r) == \/ r \in accepted
            \/ \E h \in Handlers : Busy(h) /\ handler[h].req = r

\* Nothing is registered or dumped for any other request.
KnownInv == /\ \A r \in Requests : Registered(r) => Known(r)
            /\ \A n \in DOMAIN dump : Known(n.req)

\* Without faults a thread ends its admission by accepting the request.
LEMMA KnownKept ==
  ASSUME NoFaults, PromiseInv, ProcessedInv, [Next]_vars, ~Crash, NEW r, Known(r)
  PROVE  Known(r)'
  <1>1. handler \in [Handlers -> HandlerStates] /\ faults \in Nat
    BY PromiseTypes DEF PromiseInv, AdmissionInv, TypeInv, TypeOK
  <1>2. accepted \subseteq accepted'
    BY DEF Next, HandlerStep, MonitorStep, Submit, Register, RejectCSV, LockEngine,
       InsertChunk, InsertChunkShort, InsertChunkError, Activate, OpenDump, WriteDump, Poll,
       LockRequests, MergeMissing, Merge, UnlinkMissing, Unlink, OpenResult, WriteResult,
       EndGroup, PullDelete, MarkDone, Shutdown, Exit, Restart, vars, history
  <1>3. ASSUME NEW h \in Handlers, Busy(h), handler[h].req = r,
               handler'[h].pc \notin {"idle", "checking"} /\ handler'[h].req = handler[h].req
        PROVE  Known(r)'
    BY <1>3 DEF Known, Busy
  <1>4. ASSUME NEW h \in Handlers, Busy(h), handler[h].req = r
        PROVE  Known(r)'
    <2>1. ASSUME NEW k \in Handlers, Register(k) \/ \E q \in Requests : Submit(k, q)
          PROVE  handler'[h] = handler[h]
      BY <1>1, <1>4, <2>1 DEF Submit, Register, Busy
    <2>2. ASSUME NEW k \in Handlers, HandlerStep(k), k # h
          PROVE  handler'[h] = handler[h]
      BY <1>1, <2>1, <2>2 DEF HandlerStep, RejectCSV, LockEngine, InsertChunk, InsertChunkShort,
         InsertChunkError, Activate, OpenDump, WriteDump
    <2>3. ASSUME HandlerStep(h)
          PROVE  Known(r)'
      <3>1. ~RejectCSV(h) /\ ~InsertChunkShort(h) /\ ~InsertChunkError(h) /\ ~Register(h)
        BY <1>1, <1>4 DEF NoFaults, RejectCSV, InsertChunkShort, InsertChunkError, Register,
                          Busy
      <3>2. CASE LockEngine(h) \/ InsertChunk(h) \/ OpenDump(h)
        <4>1. handler'[h].pc \notin {"idle", "checking"} /\ handler'[h].req = handler[h].req
          <5>1. CASE LockEngine(h)
            BY <1>1, <5>1 DEF LockEngine, HandlerStates
          <5>2. CASE InsertChunk(h)
            BY <1>1, <5>2 DEF InsertChunk, Inserting, HandlerStates
          <5>3. CASE OpenDump(h)
            BY <1>1, <5>3 DEF OpenDump, HandlerStates
          <5> QED
            BY <3>2, <5>1, <5>2, <5>3
        <4> QED
          BY <1>3, <1>4, <4>1
      <3>3. CASE Activate(h)
        <4>1. ~handler[h].short
          BY <3>3 DEF Activate, Inserting, ProcessedInv
        <4>2. handler'[h].pc = "open" /\ handler'[h].req = handler[h].req
          BY <1>1, <3>3, <4>1 DEF Activate, HandlerAt
        <4> QED
          BY <1>3, <1>4, <4>2
      <3>4. CASE WriteDump(h)
        BY <1>4, <3>4 DEF WriteDump, Known
      <3> QED
        BY <2>3, <3>1, <3>2, <3>3, <3>4 DEF HandlerStep
    <2>4. CASE Unlink
      <3>1. handler'[h].pc = handler[h].pc /\ handler'[h].req = handler[h].req
        BY <1>1, <2>4 DEF Unlink, HandlerStates
      <3> QED
        BY <1>3, <1>4, <3>1 DEF Busy
    <2>5. ASSUME \/ Poll \/ LockRequests \/ MergeMissing \/ Merge \/ UnlinkMissing
                 \/ OpenResult \/ WriteResult \/ EndGroup
                 \/ \E filter \in {""} \cup {ClientTag[q] : q \in Requests} : PullDelete(filter)
                 \/ \E i \in DOMAIN geo : MarkDone(i)
                 \/ Shutdown \/ Restart \/ UNCHANGED vars
          PROVE  handler' = handler
      BY <2>5 DEF Poll, LockRequests, MergeMissing, Merge, UnlinkMissing, OpenResult,
                  WriteResult, EndGroup, PullDelete, MarkDone, Shutdown, Restart, vars, volatile
    <2>6. ~Exit
      BY <1>4 DEF Exit, Busy
    <2>7. ASSUME handler'[h] = handler[h]
          PROVE  Known(r)'
      BY <1>3, <1>4, <2>7 DEF Busy
    <2>8. ASSUME NEW k \in Handlers, HandlerStep(k)
          PROVE  Known(r)'
      BY <2>2, <2>3, <2>7, <2>8
    <2>9. CASE MonitorStep
      BY <2>4, <2>5, <2>7, <2>9 DEF MonitorStep
    <2> QED
      BY <2>1, <2>5, <2>6, <2>7, <2>8, <2>9 DEF Next
  <1> QED
    BY <1>2, <1>4 DEF Known

LEMMA KnownStep ==
  ASSUME NoFaults, PromiseInv, ProcessedInv, KnownInv, [Next]_vars, ~Crash
  PROVE  KnownInv'
  <1>1. \A r : Known(r) => Known(r)'
    BY KnownKept
  <1>2. ASSUME \A r \in Requests : Registered(r)' => Registered(r),
               \A n \in DOMAIN dump' : n \in DOMAIN dump
        PROVE  KnownInv'
    BY <1>1, <1>2 DEF KnownInv
  <1>3. ASSUME NEW h \in Handlers, Register(h), NEW r \in Requests, r = handler[h].req
        PROVE  KnownInv'
    <2>1. dump' = dump
      BY <1>3 DEF Register, durable
    <2>2. CASE Registered(r)
      BY <1>2, <1>3, <2>1, <2>2 DEF Register, Registered
    <2>3. CASE ~Registered(r)
      <3>1. handler'[h].pc = "registered" /\ handler'[h].req = r
        BY <1>3, <2>3, PromiseTypes DEF Register, HandlerAt
      <3>2. Known(r)'
        BY <3>1 DEF Known, Busy
      <3>3. \A q \in Requests \ {r} : Registered(q)' => Registered(q)
        BY <1>3, <2>3, PromiseTypes DEF Register, Registered
      <3> QED
        BY <1>1, <2>1, <3>2, <3>3 DEF KnownInv
    <2> QED
      BY <2>2, <2>3
  <1>4. ASSUME NEW h \in Handlers, OpenDump(h) \/ WriteDump(h)
        PROVE  KnownInv'
    <2>1. Busy(h) /\ handler[h].req \in Requests
      BY <1>4, PromiseTypes DEF OpenDump, WriteDump, HandlerStates, Busy
    <2>2. Known(handler[h].req) /\ Original(handler[h].req).req = handler[h].req
      BY <2>1 DEF Known, Original
    <2>3. \A n \in DOMAIN dump' : n \in DOMAIN dump \/ n = Original(handler[h].req)
      BY <1>4 DEF OpenDump, WriteDump, Put
    <2>4. \A n \in DOMAIN dump' : Known(n.req)
      BY <2>2, <2>3 DEF KnownInv
    <2>5. \A r \in Requests : Registered(r)' => Registered(r) \/ r = handler[h].req
      BY <1>4, PromiseTypes DEF OpenDump, WriteDump, Registered
    <2>6. \A r \in Requests : Registered(r)' => Known(r)
      BY <2>2, <2>5 DEF KnownInv
    <2> QED
      BY <1>1, <2>4, <2>6 DEF KnownInv
  <1>5. ASSUME NEW h \in Handlers,
               \/ \E r \in Requests : Submit(h, r)
               \/ RejectCSV(h) \/ LockEngine(h) \/ InsertChunk(h) \/ InsertChunkShort(h)
               \/ InsertChunkError(h) \/ Activate(h)
        PROVE  KnownInv'
    <2>1. requests' = requests /\ dump' = dump
      BY <1>5 DEF Submit, RejectCSV, LockEngine, InsertChunk, InsertChunkShort, InsertChunkError,
         Activate, durable
    <2> QED
      BY <1>2, <2>1 DEF Registered
  <1>6. CASE Merge \/ Unlink
    <2>1. Current \in Requests /\ Registered(Current)
      <3>1. CASE Merge
        BY <3>1, CurrentType DEF Merge, PromiseInv, AdmissionInv
      <3>2. CASE Unlink
        BY <3>2, SwappedIsTracked DEF Unlink, AtEntry, Tracked
      <3> QED
        BY <1>6, <3>1, <3>2
    <2>2. \A r \in Requests : Registered(r)' => Registered(r)
      BY <1>6, <2>1, PromiseTypes DEF Merge, Unlink, Registered
    <2>3. \A n \in DOMAIN dump' : n \in DOMAIN dump
      BY <1>6 DEF Merge, Unlink, Without, durable
    <2> QED
      BY <1>2, <2>2, <2>3
  <1>7. CASE OpenResult \/ WriteResult
    <2>1. Current \in Requests /\ Registered(Current)
      BY <1>7, SwappedIsTracked DEF OpenResult, WriteResult, AtEntry, Tracked
    <2>2. Known(Current) /\ Result(Current).req = Current
      BY <2>1 DEF KnownInv, Result
    <2>3. \A n \in DOMAIN dump' : n \in DOMAIN dump \/ n = Result(Current)
      BY <1>7 DEF OpenResult, WriteResult, Put
    <2>4. \A n \in DOMAIN dump' : Known(n.req)
      BY <2>2, <2>3 DEF KnownInv
    <2>5. \A r \in Requests : Registered(r)' => Registered(r)
      <3>1. CASE OpenResult
        BY <3>1 DEF OpenResult, Registered
      <3>2. CASE WriteResult
        BY <2>1, <3>2, PromiseTypes DEF WriteResult, Registered
      <3> QED
        BY <1>7, <3>1, <3>2
    <2>6. \A r \in Requests : Registered(r)' => Known(r)
      BY <2>5 DEF KnownInv
    <2> QED
      BY <1>1, <2>4, <2>6 DEF KnownInv
  <1>8. ASSUME \/ Poll \/ LockRequests \/ MergeMissing \/ UnlinkMissing \/ EndGroup
               \/ \E i \in DOMAIN geo : MarkDone(i)
               \/ Shutdown \/ UNCHANGED vars
        PROVE  KnownInv'
    <2>1. requests' = requests /\ dump' = dump
      BY <1>8 DEF Poll, LockRequests, MergeMissing, UnlinkMissing, EndGroup, MarkDone, Shutdown, vars,
         volatile, durable
    <2> QED
      BY <1>2, <2>1 DEF Registered
  <1>9. ASSUME NEW filter, PullDelete(filter)
        PROVE  KnownInv'
    <2>1. requests' = requests /\ \A n \in DOMAIN dump' : n \in DOMAIN dump
      BY <1>9 DEF PullDelete, volatile, Without
    <2> QED
      BY <1>2, <2>1 DEF Registered
  <1>10. CASE Exit
    <2>1. dump' = dump /\ \A r \in Requests : ~Registered(r)'
      BY <1>10 DEF Exit, LoseMemory, durable, Registered, Absent
    <2> QED
      BY <1>2, <2>1
  <1>11. CASE Restart
    <2>1. dump' = dump
      BY <1>11 DEF Restart, durable
    <2>2. \A r \in Requests : Registered(r)' => Original(r) \in DOMAIN dump
      BY <1>11 DEF Restart, Registered, Dropped, Absent
    <2>3. \A r \in Requests : Registered(r)' => Known(r)
      BY <2>2 DEF KnownInv, Original
    <2> QED
      BY <1>1, <2>1, <2>3 DEF KnownInv
  <1> QED
    BY <1>3, <1>4, <1>5, <1>6, <1>7, <1>8, <1>9, <1>10, <1>11, PromiseTypes
    DEF Next, HandlerStep, MonitorStep

\* A thread keeps the request of its call, and gives the answers that make the
\* client poll to requests that are known.
LEMMA RepliesKept ==
  ASSUME PromiseInv, ServiceStep, NEW c \in Handlers
  PROVE  /\ handler'[c].req = handler[c].req
         /\ handler'[c].reply \in {"accepted", "duplicate"} =>
              \/ handler'[c].reply = handler[c].reply
              \/ handler'[c].req \in accepted' \/ Registered(handler[c].req)
  <1>1. handler \in [Handlers -> HandlerStates]
    BY PromiseTypes
  <1>2. ASSUME NEW h \in Handlers, HandlerStep(h)
        PROVE  /\ handler'[c].req = handler[c].req
               /\ handler'[c].reply \in {"accepted", "duplicate"} =>
                    \/ handler'[c].reply = handler[c].reply
                    \/ handler'[c].req \in accepted' \/ Registered(handler[c].req)
    <2>7. CASE Register(h)
      BY <1>1, <2>7 DEF Register, Idle, HandlerAt
    <2>1. CASE RejectCSV(h) \/ InsertChunkError(h) \/ Activate(h)
      BY <1>1, <2>1 DEF RejectCSV, InsertChunkError, Activate, Idle, HandlerAt
    <2>2. CASE LockEngine(h)
      BY <1>1, <2>2 DEF LockEngine, HandlerStates
    <2>3. CASE InsertChunk(h)
      BY <1>1, <2>3 DEF InsertChunk, HandlerStates
    <2>4. CASE InsertChunkShort(h)
      BY <1>1, <2>4 DEF InsertChunkShort, HandlerStates
    <2>5. CASE OpenDump(h)
      BY <1>1, <2>5 DEF OpenDump, HandlerStates
    <2>6. CASE WriteDump(h)
      BY <1>1, <2>6 DEF WriteDump, Idle, HandlerAt
    <2> QED
      BY <1>2, <2>1, <2>2, <2>3, <2>4, <2>5, <2>6, <2>7 DEF HandlerStep
  <1>3. CASE Unlink
    BY <1>1, <1>3 DEF Unlink, HandlerStates
  <1>4. CASE LoseMemory
    BY <1>4 DEF LoseMemory, Idle, HandlerAt
  <1>5. ASSUME \/ Poll \/ LockRequests \/ MergeMissing \/ Merge \/ UnlinkMissing
               \/ OpenResult \/ WriteResult \/ EndGroup
               \/ \E i \in DOMAIN geo : MarkDone(i)
               \/ Shutdown \/ Restart
        PROVE  handler' = handler
    BY <1>5 DEF Poll, LockRequests, MergeMissing, Merge, UnlinkMissing, OpenResult, WriteResult, EndGroup,
                MarkDone, Shutdown, Restart, volatile
  <1> QED
    BY <1>2, <1>3, <1>4, <1>5 DEF ServiceStep, MonitorStep, Crash, Exit

\* Without a crash, whatever a client waits for is known; nothing is deleted.
AwaitedInv ==
  /\ ClientTypeOK /\ pulled = {}
  /\ \A c \in Handlers : client[c].at = "calling" => handler[c].req = client[c].req
  /\ crashes = 0 =>
       /\ KnownInv
       /\ \A c \in Handlers :
            \/ client[c].at = "polling"
            \/ client[c].at = "calling" /\ handler[c].reply \in {"accepted", "duplicate"}
            => Known(client[c].req)

LEMMA AwaitedStep ==
  ASSUME NoFaults, PromiseInv, ProcessedInv, AwaitedInv, ClientTypeOK',
         [ClientNext]_clientVars
  PROVE  AwaitedInv'
  <1>1. [Next]_vars
    BY ClientStepsAreSteps
  <1>2. crashes \in Nat /\ handler \in [Handlers -> HandlerStates]
    BY PromiseTypes DEF PromiseInv, AdmissionInv, TypeInv, TypeOK
  <1>3. client \in [Handlers -> ClientStates]
    BY DEF AwaitedInv, ClientTypeOK
  <1>4. pulled' = {}
    BY DEF AwaitedInv, ClientNext, clientVars, Call, ClientStep, Answered, PullOne, PullSeveral,
       PullRefused, ServiceStep, HandlerStep, MonitorStep, Submit, Register, RejectCSV,
       LockEngine, InsertChunk, InsertChunkShort, InsertChunkError, Activate, OpenDump,
       WriteDump, Poll, LockRequests, MergeMissing, Merge, UnlinkMissing, Unlink, OpenResult, WriteResult, EndGroup, MarkDone,
       Crash, Shutdown, Exit, Restart, vars, history
  <1>5. crashes' = 0 => crashes = 0 /\ ~Crash
    <2>1. CASE Crash
      BY <1>2, <2>1 DEF Crash
    <2>2. CASE ~Crash
      <3>1. crashes' = crashes
        BY <1>1, <2>2 DEF Next, HandlerStep, MonitorStep, Submit, Register, RejectCSV,
           LockEngine, InsertChunk, InsertChunkShort, InsertChunkError, Activate, OpenDump,
           WriteDump, Poll, LockRequests, MergeMissing, Merge, UnlinkMissing, Unlink, OpenResult, WriteResult, EndGroup,
           PullDelete, MarkDone, Shutdown, Exit, Restart, vars, history, bounds
      <3> QED
        BY <2>2, <3>1
    <2> QED
      BY <2>1, <2>2
  <1>6. crashes' = 0 => KnownInv' /\ \A r : Known(r) => Known(r)'
    BY <1>1, <1>5, KnownStep, KnownKept DEF AwaitedInv
  <1>7. ASSUME \A c \in Handlers :
                 /\ client'[c].at = "calling" => handler'[c].req = client'[c].req
                 /\ crashes' = 0 =>
                      (\/ client'[c].at = "polling"
                       \/ client'[c].at = "calling" /\ handler'[c].reply \in {"accepted", "duplicate"}
                       => Known(client'[c].req) \/ client'[c].req \in accepted')
        PROVE  AwaitedInv'
    <2>1. ASSUME NEW r, r \in accepted'
          PROVE  Known(r)'
      BY <2>1 DEF Known
    <2>2. ASSUME crashes' = 0, NEW c \in Handlers,
                 \/ client'[c].at = "polling"
                 \/ client'[c].at = "calling" /\ handler'[c].reply \in {"accepted", "duplicate"},
                 NEW r, r = client'[c].req
          PROVE  Known(r)'
      BY <1>6, <1>7, <2>1, <2>2
    <2>3. ASSUME crashes' = 0, NEW c \in Handlers,
                 \/ client'[c].at = "polling"
                 \/ client'[c].at = "calling" /\ handler'[c].reply \in {"accepted", "duplicate"}
          PROVE  Known(client[c].req)'
      <3> SUFFICES ASSUME NEW r, r = client'[c].req
                   PROVE  Known(r)'
        BY DEF Known
      <3> QED
        BY <2>2, <2>3
    <2> QED
      BY <1>4, <1>6, <1>7, <2>3 DEF AwaitedInv
  <1>8. ASSUME NEW c \in Handlers, NEW r \in Requests, Call(c, r)
        PROVE  AwaitedInv'
    <2>1. /\ Submit(c, r)
          /\ \A d \in Handlers \ {c} : client'[d] = client[d] /\ handler'[d] = handler[d]
          /\ client'[c].at = "calling" /\ client'[c].req = r
      BY <1>2, <1>3, <1>8 DEF Call, Submit, ClientAt
    <2>2. handler'[c].req = r /\ handler'[c].reply = "none"
      BY <1>2, <2>1 DEF Submit, HandlerAt
    <2> QED
      BY <1>5, <1>7, <2>1, <2>2 DEF AwaitedInv
  <1>9. ASSUME NEW c \in Handlers, ClientStep(c)
        PROVE  AwaitedInv'
    <2>1. /\ \A d \in Handlers \ {c} : client'[d] = client[d]
          /\ client'[c].req = client[c].req /\ client'[c].at # "calling"
          /\ client'[c].at = "polling" =>
               client[c].at = "calling" /\ handler[c].reply \in {"accepted", "duplicate"}
      <3>1. CASE PullOne(c)
        <4>1. PICK at \in {"returned", "raised"} :
                client' = [client EXCEPT ![c] = ClientAt(at, @.req)]
          BY <3>1 DEF PullOne, Unpacked
        <4> QED
          BY <1>3, <4>1 DEF ClientAt, ClientStates
      <3>2. CASE ~PullOne(c)
        BY <1>3, <1>9, <3>2 DEF ClientStep, Answered, PullSeveral, PullRefused, ClientStates
      <3> QED
        BY <3>1, <3>2
    <2>2. handler' = handler
      BY <1>9 DEF ClientStep, Answered, PullOne, PullSeveral, PullRefused, vars, volatile
    <2> QED
      BY <1>5, <1>7, <2>1, <2>2 DEF AwaitedInv
  <1>10. CASE ServiceStep /\ UNCHANGED client
    <2>1. \A c \in Handlers :
            /\ handler'[c].req = handler[c].req
            /\ handler'[c].reply \in {"accepted", "duplicate"} =>
                 \/ handler'[c].reply = handler[c].reply
                 \/ handler'[c].req \in accepted' \/ Registered(handler[c].req)
      BY <1>10, RepliesKept
    <2>2. \A c \in Handlers : crashes' = 0 /\ Registered(handler[c].req) => Known(handler[c].req)
      BY <1>2, <1>5 DEF AwaitedInv, KnownInv, HandlerStates
    <2> QED
      BY <1>5, <1>7, <1>10, <2>1, <2>2 DEF AwaitedInv
  <1>11. CASE UNCHANGED clientVars
    <2>1. UNCHANGED <<client, handler>>
      BY <1>11 DEF clientVars, vars, volatile
    <2> QED
      BY <1>5, <1>7, <2>1 DEF AwaitedInv
  <1> QED
    BY <1>8, <1>9, <1>10, <1>11 DEF ClientNext

\* A known request is being processed or has its result.
LEMMA KnownIsFounded ==
  ASSUME PromiseInv, Running, pulled = {}, NEW r \in Requests, Known(r)
  PROVE  BeingProcessed(r) \/ HasResult(r)
  <1>1. CASE r \in accepted
    BY <1>1 DEF PromiseInv, PromiseKept, BeingProcessed
  <1>2. ASSUME NEW h \in Handlers, Busy(h), handler[h].req = r
        PROVE  BeingProcessed(r) \/ HasResult(r)
    <2>1. CASE Admitting(h)
      BY <1>2, <2>1 DEF BeingProcessed
    <2>2. CASE ~Admitting(h)
      <3>1. handler[h].pc = "write" /\ ~handler[h].linked
        BY <1>2, <2>2, PromiseTypes DEF Admitting, HandlerStates, Busy
      <3>2. HasResult(r) \/ Swapping(r)
        BY <1>2, <3>1 DEF PromiseInv, LeftInv
      <3>3. Swapping(r) => Tracked(r)
        BY SwappedIsTracked DEF Swapping, BeingSwapped, AtEntry
      <3> QED
        BY <3>2, <3>3 DEF BeingProcessed
    <2> QED
      BY <2>1, <2>2
  <1> QED
    BY <1>1, <1>2 DEF Known

\* Where every csv can be read and no insert fails, a client that polls has
\* something to wait for: also one that was told that its request is being
\* processed already, as long as nothing crashed.
THEOREM PollingHasAReason ==
  ASSUME NoFaults
  PROVE  ClientSpec => []PollingIsFounded
  <1>1. ClientInit /\ ClientTypeOK => ProcessedInv /\ AwaitedInv
    <2> SUFFICES ASSUME ClientInit, ClientTypeOK
                 PROVE  ProcessedInv /\ AwaitedInv
      OBVIOUS
    <2>1. Init /\ \A c \in Handlers : client[c].at = "free"
      BY DEF ClientInit, ClientAt
    <2>2. pulled = {} /\ DOMAIN dump = {} /\ \A r \in Requests : ~Registered(r)
      BY <2>1 DEF Init, VolatileInit, Registered, Absent
    <2> QED
      BY <2>1, <2>2, ProcessedInit DEF AwaitedInv, KnownInv
  <1>2. /\ PromiseInv /\ ProcessedInv /\ AwaitedInv
        /\ ClientTypeOK' /\ [ClientNext]_clientVars
        => ProcessedInv' /\ AwaitedInv'
    BY ProcessedStep, AwaitedStep, ClientStepsAreSteps
  <1>3. PromiseInv /\ AwaitedInv => PollingIsFounded
    <2> SUFFICES ASSUME PromiseInv, AwaitedInv, NEW c \in Handlers,
                        client[c].at = "polling", Running,
                        crashes = 0 \/ client[c].req \in accepted
                 PROVE  BeingProcessed(client[c].req) \/ Answer(c) # {}
      BY DEF PollingIsFounded
    <2>1. client[c].req \in Requests /\ pulled = {}
      BY DEF AwaitedInv, ClientTypeOK, ClientStates
    <2>2. Known(client[c].req)
      BY DEF AwaitedInv, Known
    <2>3. BeingProcessed(client[c].req) \/ HasResult(client[c].req)
      BY <2>1, <2>2, KnownIsFounded
    <2>4. HasResult(client[c].req) => Answer(c) # {}
      BY DEF HasResult, Answer, Pulled
    <2> QED
      BY <2>3, <2>4
  <1> QED
    BY <1>1, <1>2, <1>3, PromiseAlways, ClientsUseTheService, ClientTypeCorrect, PTL
    DEF ClientSpec

\* The tags clients choose tell their requests apart, and none asks for all.
ClientTagsDiffer ==
  /\ \A q, r \in Requests : ClientTag[q] = ClientTag[r] => q = r
  /\ \A r \in Requests : ClientTag[r] # ""

\* Where tags are distinct, no insert fails and no crash cuts an admission's
\* rows, geocode() returns the result of its own request, with a row for every
\* address of its csv.
THEOREM ResultsAreOnesOwn ==
  ASSUME Undisturbed, ClientTagsDiffer
  PROVE  ClientSpec => OwnResult
  <1> DEFINE Own == \A c \in Handlers :
       client[c].at = "polling" /\ client'[c].at = "returned" =>
         \A n \in Answer(c) :
           /\ n.req = client[c].req
           /\ \A a \in Members(Uniques[n.req]) : n.joins[Len(n.joins)][a] >= 1
  <1>1. PromiseInv /\ ResultCoversAddresses /\ ClientTypeOK => Own
    <2> SUFFICES ASSUME PromiseInv, ResultCoversAddresses, ClientTypeOK,
                        NEW c \in Handlers, NEW n \in Answer(c)
                 PROVE  /\ n.req = client[c].req
                        /\ \A a \in Members(Uniques[n.req]) : n.joins[Len(n.joins)][a] >= 1
      OBVIOUS
    <2>1. n \in Completed /\ ClientTag[client[c].req] \in {"", ClientTag[n.req]}
      BY DEF Answer, Pulled
    <2>2. client[c].req \in Requests /\ n.req \in Requests
      BY <2>1, CompletedAre DEF ClientTypeOK, ClientStates
    <2> QED
      BY <2>1, <2>2 DEF ClientTagsDiffer, ResultCoversAddresses
  <1>2. PromiseInv /\ ResultCoversAddresses /\ ClientTypeOK => [Own]_clientVars
    BY <1>1
  <1> QED
    BY <1>2, PromiseAlways, ResultsCoverAddresses, ClientsUseTheService, ClientTypeCorrect, PTL
    DEF OwnResult

===============================================================================
