-------------------------------- MODULE Pipeline --------------------------------
(***************************************************************************)
(* Everything around the tables of radii at once: operators run drivers, a *)
(* freshness check runs its own, the objects are assembled anew, and the   *)
(* data mart manager reads the tables while they are written.              *)
(***************************************************************************)
EXTENDS Freshness, DataMart

CONSTANTS
  Operators,   \* the programs that are started by hand
  Together     \* what is considered together: programs, requests and the like

ASSUME PipelineAssumption == Operators \subseteq Programs \ ToSet(Checks)

VARIABLE scene   \* the one of them that a behaviour is about
vars == <<database, proc, freshness, datamart, scene>>

Init ==
  /\ scene \in Together
  /\ DatabaseInit /\ DriversInit /\ FreshnessInit /\ DataMartInit

Next ==
  /\ \/ "assembly" \in scene /\ Assemble /\ UNCHANGED <<proc, freshness, datamart>>
     \/ \E d \in Operators \cap scene : Start(d) /\ UNCHANGED <<freshness, datamart>>
     \/ \E d \in Programs \cap scene :
          (DriverStep(d) \/ DriverFails(d)) /\ UNCHANGED <<freshness, datamart>>
     \/ (FreshnessStep \/ Stop) /\ UNCHANGED datamart
     \/ Requests \cap scene # {} /\ StartServer /\ UNCHANGED <<proc, freshness>>
     \/ \E r \in Requests \cap scene : (CallStep(r) \/ CallFails(r)) /\ UNCHANGED <<proc, freshness>>
  /\ faults' # faults => "fault" \in scene
  /\ check'.begun > check.begun => Checks[check'.begun] \in scene
  /\ UNCHANGED scene

\* Of the programs and threads that can go on, one does; nothing need start or fail.
GoesOn ==
  \/ \E d \in Programs \cap scene : DriverStep(d) /\ UNCHANGED <<freshness, datamart, scene>>
  \/ \E r \in Requests \cap scene :
       call[r].at # "new" /\ CallStep(r) /\ UNCHANGED <<proc, freshness, scene>>

Spec == Init /\ [][Next]_vars /\ WF_vars(GoesOn)

-------------------------------------------------------------------------------
(* Properties.                                                             *)

\* Every call and every process is somewhere its program can be; who reads from a
\* table is an open job, and only a server that is up has any.
PipelineTypeOK ==
  /\ assembled \in Dates /\ faults \in 0..MaxFaults
  /\ \A t \in Tables :
       /\ tables[t].born \in Nat /\ \A g \in Grids : tables[t].rows[g] \subseteq Dates
       /\ ~Exists(t) => tables[t].rows = NoRowsYet
       /\ readers[t] = UNION {{r} \X Reading(r, t) : r \in Requests}
  /\ \A d \in Programs :
       /\ proc[d].at \in {"idle", "loading", "planning", "reading", "resetting", "pool",
                          "exited", "aborted"}
       /\ proc[d].left \subseteq proc[d].grids /\ (At(d, "pool") => Busy(d))
       /\ At(d, "exited") => proc[d].code \in {0, 1}
  /\ check.at \in {"idle", "dating", "calling", "waiting", "dropping", "summing"}
  /\ check.begun \in 0..Len(Checks)
  /\ \A r \in Requests :
       /\ call[r].at \in {"new", "pool", "dropping", "creating", "inserting", "written",
                          "replied", "failed"}
       /\ call[r].at \notin {"new", "replied", "failed"} => server.up
       /\ call[r].holds => call[r].at \in {"creating", "inserting"}
  /\ \A o \in Outputs : Cardinality(Holders(o)) <= 1

\* Who waits: a program, or a job of it, for those that have read from its table, a
\* request for the one that holds its output table.
WaitsForReaders(d) ==
  \/ At(d, "resetting") /\ readers[Table(d)] # {}
  \/ At(d, "pool") /\ \E g \in proc[d].left : ~CanWrite(d, g)
WaitsForOutput(r) ==
  \/ call[r].at = "dropping" /\ marts[Output(r)] # NoMart /\ Holders(Output(r)) # {}
  \/ call[r].at = "creating" /\ Points(r) # {} /\ ~CanCreate(r)
OpenJobs(r) == {i \in Jobs(r) : InPool(r) /\ Job(r, i).at = "open"}

\* Whoever is waited for does not wait: a table is held by open jobs, which wait for
\* nothing, an output table by a request that has it already, and a pool whose
\* threads are all taken has open jobs.  So nobody waits in a circle, whatever is
\* refused, lost or restarted meanwhile.
NobodyWaitsInVain ==
  /\ \A d \in Programs : WaitsForReaders(d) =>
       \A reader \in readers[Table(d)] : \E r \in Requests : \E i \in OpenJobs(r) : reader = <<r, i>>
  /\ \A r \in Requests : WaitsForOutput(r) =>
       Holders(Output(r)) # {} /\ \A h \in Holders(Output(r)) : ~WaitsForOutput(h)
  /\ \A r \in Requests : InPool(r) =>
       \/ \A i \in Jobs(r) : Job(r, i).at = "done"
       \/ OpenJobs(r) # {}
       \/ \E i \in Jobs(r) : CanOpen(r, i)

\* How far a program or a request is from its end.
ProgramRank ==
  [idle |-> 4, loading |-> 3, planning |-> 2, reading |-> 1, resetting |-> 1, pool |-> 1,
   exited |-> 0, aborted |-> 0]
TableRank == [reading |-> 2, resetting |-> 1, pool |-> 0]
CallRank ==
  [new |-> 6, pool |-> 5, dropping |-> 4, creating |-> 3, inserting |-> 2, written |-> 1,
   replied |-> 0, failed |-> 0]
JobRank == [queued |-> 2, open |-> 1, done |-> 0]

Shrinks(new, old) == new \subseteq old /\ new # old

\* A table is done with, or this one is nearer its end.
TableAdvances(p, q) ==
  \/ Len(p.todo) < Len(q.todo)
  \/ /\ p.todo = q.todo
     /\ \/ TableRank[p.at] < TableRank[q.at]
        \/ p.at = q.at /\ Shrinks(p.left, q.left)
ProgramAdvances(p, q) ==
  \/ ProgramRank[p.at] < ProgramRank[q.at]
  \/ /\ ProgramRank[p.at] = 1 /\ ProgramRank[q.at] = 1
     /\ \/ Len(p.rubrics) < Len(q.rubrics)
        \/ p.rubrics = q.rubrics /\ TableAdvances(p, q)
JobAdvances(p, q) ==
  JobRank[p.at] < JobRank[q.at] \/ (p.at = q.at /\ Shrinks(p.left, q.left))
CallAdvances(p, q, jobs) ==
  \/ CallRank[p.at] < CallRank[q.at]
  \/ /\ p.at = "pool" /\ q.at = "pool"
     /\ \E i \in jobs : /\ JobAdvances(p.jobs[i], q.jobs[i])
                        /\ \A k \in jobs \ {i} : p.jobs[k] = q.jobs[k]

\* Nobody goes back: each step of a program or a request, and each fault, brings it
\* nearer its end, so that it takes finitely many; nothing is tried again.
ProgramsAdvance == \A d \in Programs : proc'[d] # proc[d] => ProgramAdvances(proc'[d], proc[d])
CallsAdvance ==
  \A r \in Requests : call'[r] # call[r] => CallAdvances(call'[r], call[r], Jobs(r))
NobodyGoesBack == [][ProgramsAdvance /\ CallsAdvance]_vars

\* Why all ends: who has begun can go on, or waits for somebody who can, and goes on
\* finitely often.
Progress == []NobodyWaitsInVain /\ NobodyGoesBack

\* However they meet at the locks of tables and output tables, each program and each
\* call that has begun ends.
AllEnd ==
  <>[](/\ \A d \in Programs : ~Running(d)
       /\ \A r \in Requests : call[r].at \in {"new", "replied", "failed"})
===============================================================================
