---------------------------- MODULE GeocoderClient ----------------------------
(***************************************************************************)
(* geocode() of processing/geocoder.py, the call other servers make: it    *)
(* submits a request and polls for the result by the tag it derived from   *)
(* the csv and the address column.  Each client's call is served by a      *)
(* thread of its own, so Handlers are the clients too.                     *)
(***************************************************************************)
EXTENDS Geocoder

VARIABLE client    \* where each geocode() call is, and for which request

clientVars == <<vars, client>>

ClientStates ==
  [at : {"free", "calling", "polling", "returned", "raised", "asserted"},
   req : Requests]
ClientAt(at, r) == [at |-> at, req |-> r]
InCall(c) == client[c].at \in {"calling", "polling"}

ClientInit ==
  /\ Init
  /\ client = [c \in Handlers |-> ClientAt("free", CHOOSE r \in Requests : TRUE)]

\* stub.GeocodeCSV(request) is sent.
Call(c, r) ==
  /\ ~InCall(c)
  /\ Submit(c, r)
  /\ client' = [client EXCEPT ![c] = ClientAt("calling", r)]

\* Mutant: the call's answer is kept instead of acted on.
AnsweredVerbatim(c) ==
  /\ client[c].at = "calling" /\ handler[c].pc = "idle"
  /\ client' = [client EXCEPT ![c].at = handler[c].reply]
  /\ UNCHANGED vars

\* The answer arrives.  Error 2 raises, error 1 is taken for a request that is
\* being processed; a service that went down raises in the stub.
Answered(c) ==
  /\ client[c].at = "calling" /\ handler[c].pc = "idle"
  /\ client' = [client EXCEPT ![c].at =
                  IF handler[c].reply \in {"accepted", "duplicate"}
                    THEN "polling" ELSE "raised"]
  /\ UNCHANGED vars

Answer(c) == Pulled(ClientTag[client[c].req])

\* What parse_geo_json makes of a result: every other join renames the columns that it
\* drops, and dropping what is not there raises.  MaxJoins stands for that many or more.
Unpacked(n) ==
  {at \in {"returned", "raised"} :
     Len(n.joins) # MaxJoins => (at = "returned" <=> Len(n.joins) % 2 = 1)}

\* stub.PullProcessedData without deletion: nothing yet and the client sleeps
\* and asks again; one result is unpacked; the assertion refuses more.
PullOne(c) ==
  /\ client[c].at = "polling" /\ Running /\ requestsLock = "free"
  /\ Cardinality(Answer(c)) = 1
  /\ \E n \in Answer(c) : \E at \in Unpacked(n) :
       client' = [client EXCEPT ![c] = ClientAt(at, @.req)]
  /\ UNCHANGED vars

PullSeveral(c) ==
  /\ client[c].at = "polling" /\ Running /\ requestsLock = "free"
  /\ Cardinality(Answer(c)) > 1
  /\ client' = [client EXCEPT ![c].at = "asserted"]
  /\ UNCHANGED vars

PullRefused(c) ==
  /\ client[c].at = "polling" /\ ~Running
  /\ client' = [client EXCEPT ![c].at = "raised"]
  /\ UNCHANGED vars

ClientStep(c) == Answered(c) \/ PullOne(c) \/ PullSeveral(c) \/ PullRefused(c)

\* Everything the service does besides accepting calls.
ServiceStep ==
  \/ \E h \in Handlers : HandlerStep(h)
  \/ MonitorStep
  \/ \E i \in DOMAIN geo : MarkDone(i)
  \/ Crash \/ Shutdown \/ Exit \/ Restart

ClientNext ==
  \/ \E c \in Handlers : \/ \E r \in Requests : Call(c, r)
                         \/ ClientStep(c)
  \/ ServiceStep /\ UNCHANGED client

ClientSpec == ClientInit /\ [][ClientNext]_clientVars

\* The client asks again after every sleep.
ClientFairness ==
  /\ \A h \in Handlers : /\ WF_clientVars(HandlerStep(h) /\ UNCHANGED client)
                         /\ WF_clientVars(ClientStep(h))
  /\ WF_clientVars(MonitorStep /\ UNCHANGED client)
  /\ WF_clientVars((\E i \in DOMAIN geo : MarkDone(i)) /\ UNCHANGED client)
FairClientSpec == ClientSpec /\ ClientFairness

-------------------------------------------------------------------------------
(* Properties.                                                             *)

\* The clients' records have their shape.
ClientTypeOK == client \in [Handlers -> ClientStates]

\* A client that polls has something to wait for: its result exists, or the
\* service holds the request whose result it waits for.  Across a crash this is
\* so for requests the service accepted; a client told that its request is a
\* duplicate may have been told so of a request that was not dumped yet.
PollingIsFounded ==
  \A c \in Handlers :
    /\ client[c].at = "polling" /\ Running
    /\ crashes = 0 \/ client[c].req \in accepted
    => BeingProcessed(client[c].req) \/ Answer(c) # {}

\* A client is never handed the result of another request, although results are
\* looked up by tag and a tag outlives the request it was made for; and every
\* address of its csv has found a row in it.
OwnResult ==
  [][\A c \in Handlers :
       client[c].at = "polling" /\ client'[c].at = "returned" =>
         \A n \in Answer(c) :
           /\ n.req = client[c].req
           /\ \A a \in Members(Uniques[n.req]) : n.joins[Len(n.joins)][a] >= 1]_clientVars

\* What the assertion in geocode() says: one tag never has two results.
NeverTwoResults == \A c \in Handlers : client[c].at # "asserted"

\* Every call of geocode() ends.
CallsEnd == \A c \in Handlers : InCall(c) ~> ~InCall(c)
===============================================================================
