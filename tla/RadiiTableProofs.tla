--------------------------- MODULE RadiiTableProofs ---------------------------
(***************************************************************************)
(* Every grid is accounted for once, for any grids, threads and objects.   *)
(*                                                                         *)
(* The argument: jobs are posted and taken in order, so the grids still    *)
(* queued are the last of the posted ones.  Each of the grids taken is in  *)
(* one place: in the hands of one thread, in the table or among the lost.  *)
(* A committed grid is therefore never written again, and when the pool is *)
(* joined nothing is left but the table and the lost.                      *)
(*                                                                         *)
(* What is in the table: rows are always those that some choice of the     *)
(* counted objects makes, and a job copies them only into columns that are *)
(* wide enough (TableInv).  The rest is about sums, which the model takes  *)
(* with a fold: a sum does not depend on the order of its elements, the    *)
(* rings are disjoint, and together they are the disc around a square.     *)
(***************************************************************************)
EXTENDS RadiiTable, SumTheorems, FiniteSetTheorems, TLAPS

Phases == {"free", "calculated", "altering", "altered", "copying"}
IsJob(x) ==
  /\ x = [phase |-> x.phase, grid |-> x.grid, kept |-> x.kept, rows |-> x.rows]
  /\ x.phase \in Phases /\ x.grid \in Nat
Busy(w) == job[w].phase # "free"
Taken == posted - Len(queue)

ShapeInv ==
  /\ main \in {"reading", "posting", "joining", "finished", "dead"}
  /\ posted \in 0..NumGrids /\ queue \in Seq(Nat)
  /\ job = [w \in Workers |-> job[w]] /\ \A w \in Workers : IsJob(job[w])
  /\ table = [wide |-> table.wide, rows |-> table.rows]

QueueInv ==
  /\ Len(queue) <= posted
  /\ \A i \in 1..Len(queue) : queue[i] = Taken + i

\* No grid is in two places ...
PlaceInv ==
  /\ DOMAIN table.rows \subseteq 1..Taken /\ DOMAIN lost \subseteq 1..Taken
  /\ DOMAIN table.rows \cap DOMAIN lost = {}
  /\ \A w \in Workers : Busy(w) =>
       /\ job[w].grid \in 1..Taken
       /\ job[w].grid \notin DOMAIN table.rows \cup DOMAIN lost
       /\ \A u \in Workers \ {w} : Busy(u) => job[u].grid # job[w].grid

\* ... and, while the process lives, none is nowhere.
CoverInv ==
  main # "dead" =>
    \A n \in 1..Taken :
      n \in DOMAIN table.rows \cup DOMAIN lost \/ \E w \in Workers : Busy(w) /\ job[w].grid = n

MainInv ==
  /\ main = "reading" => posted = 0 /\ table.rows = NoRows
  /\ main \in {"reading", "finished", "dead"} => \A w \in Workers : ~Busy(w)
  /\ main \in {"finished", "dead"} /\ Workers # {} => queue = <<>>

\* The inductive invariant.
AccountInv == ShapeInv /\ QueueInv /\ PlaceInv /\ CoverInv /\ MainInv

-------------------------------------------------------------------------------
(* Lemmas.                                                                 *)

LEMMA NumGridsIsNat == NumGrids \in Nat
BY RadiiTableAssumption DEF NumGrids

LEMMA FreeIsJob == IsJob(Free)
BY DEF IsJob, Free, Phases

LEMMA NoRowsIsEmpty == DOMAIN NoRows = {}
BY DEF NoRows

LEMMA AccountInvInit == Init => AccountInv
<1> SUFFICES ASSUME Init PROVE AccountInv
  OBVIOUS
<1>1. /\ main = "reading" /\ posted = 0 /\ queue = <<>> /\ lost = NoRows
      /\ job = [w \in Workers |-> Free] /\ table = [wide |-> FALSE, rows |-> NoRows]
  BY DEF Init
<1>2. Len(queue) = 0 /\ Taken = 0
  <2>1. Len(queue) = 0
    BY <1>1
  <2> QED BY <2>1, <1>1 DEF Taken
<1>3. table.rows = NoRows /\ table = [wide |-> table.wide, rows |-> table.rows]
  BY <1>1
<1>4. \A w \in Workers : ~Busy(w) /\ IsJob(job[w])
  <2>1. \A w \in Workers : job[w] = Free
    BY <1>1
  <2>2. Free.phase = "free"
    BY DEF Free
  <2> QED BY <2>1, <2>2, FreeIsJob DEF Busy
<1>5. ShapeInv
  BY <1>1, <1>3, <1>4, NumGridsIsNat DEF ShapeInv
<1>6. QueueInv
  BY <1>1, <1>2 DEF QueueInv
<1>7. PlaceInv
  BY <1>1, <1>2, <1>3, <1>4, NoRowsIsEmpty DEF PlaceInv
<1>8. CoverInv
  BY <1>2 DEF CoverInv
<1>9. MainInv
  BY <1>1, <1>3, <1>4 DEF MainInv
<1> QED BY <1>5, <1>6, <1>7, <1>8, <1>9 DEF AccountInv

\* The numbers the invariant speaks of are numbers.
LEMMA Numbers ==
  ASSUME AccountInv
  PROVE  /\ posted \in Nat /\ Len(queue) \in Nat /\ Taken \in Nat /\ Taken <= posted
         /\ NumGrids \in Nat /\ posted <= NumGrids
         /\ queue \in Seq(Nat)
<1>1. /\ posted \in 0..NumGrids /\ queue \in Seq(Nat) /\ Len(queue) <= posted
      /\ NumGrids \in Nat
  BY NumGridsIsNat DEF AccountInv, ShapeInv, QueueInv
<1>2. Len(queue) \in Nat
  BY <1>1
<1> QED BY <1>1, <1>2 DEF Taken

\* A job keeps its shape when its phase changes.
LEMMA PhaseChange ==
  ASSUME ShapeInv, NEW w \in Workers, NEW p \in Phases,
         job' = [job EXCEPT ![w].phase = p]
  PROVE  /\ job' = [u \in Workers |-> job'[u]]
         /\ job'[w].phase = p /\ job'[w].grid = job[w].grid /\ job'[w].rows = job[w].rows
         /\ IsJob(job'[w])
         /\ \A u \in Workers \ {w} : job'[u] = job[u]
<1> DEFINE x == job[w]
<1>1. x = [phase |-> x.phase, grid |-> x.grid, kept |-> x.kept, rows |-> x.rows]
  BY DEF ShapeInv, IsJob
<1>2. job = [u \in Workers |-> job[u]]
  BY DEF ShapeInv
<1>3. job' = [u \in Workers |-> IF u = w THEN [x EXCEPT !.phase = p] ELSE job[u]]
  BY <1>2
<1>4. job'[w] = [x EXCEPT !.phase = p] /\ \A u \in Workers \ {w} : job'[u] = job[u]
  BY <1>3
<1>5. job' = [u \in Workers |-> job'[u]]
  BY <1>3
<1>6. [x EXCEPT !.phase = p]
        = [phase |-> p, grid |-> x.grid, kept |-> x.kept, rows |-> x.rows]
  BY <1>1
<1>7. x.grid \in Nat
  BY DEF ShapeInv, IsJob
<1> HIDE DEF x
<1>8. IsJob([phase |-> p, grid |-> x.grid, kept |-> x.kept, rows |-> x.rows])
  BY <1>7 DEF IsJob
<1>9. job'[w].phase = p /\ job'[w].grid = x.grid /\ job'[w].rows = x.rows
  BY <1>4, <1>6
<1> QED BY <1>4, <1>5, <1>6, <1>8, <1>9 DEF x

\* A thread takes up a whole new job, or none.
LEMMA JobChange ==
  ASSUME ShapeInv, NEW w \in Workers, NEW x, IsJob(x), job' = [job EXCEPT ![w] = x]
  PROVE  /\ job' = [u \in Workers |-> job'[u]]
         /\ job'[w] = x
         /\ \A u \in Workers \ {w} : job'[u] = job[u]
         /\ \A u \in Workers : IsJob(job'[u])
<1>1. job = [u \in Workers |-> job[u]]
  BY DEF ShapeInv
<1>2. job' = [u \in Workers |-> IF u = w THEN x ELSE job[u]]
  BY <1>1
<1>3. job'[w] = x /\ \A u \in Workers \ {w} : job'[u] = job[u]
  BY <1>2
<1>4. job' = [u \in Workers |-> job'[u]]
  BY <1>2
<1>5. \A u \in Workers : IsJob(job'[u])
  BY <1>3 DEF ShapeInv
<1> QED BY <1>3, <1>4, <1>5

-------------------------------------------------------------------------------
(* The main thread keeps the invariant.                                    *)

LEMMA ResetTableKeeps ==
  ASSUME AccountInv, ResetTable
  PROVE  AccountInv'
<1>1. /\ main = "reading" /\ main' = "posting" /\ posted' = posted /\ queue' = queue
      /\ job' = job /\ lost' = lost /\ table' = [wide |-> FALSE, rows |-> NoRows]
  BY DEF ResetTable
<1>2. table'.rows = NoRows /\ table' = [wide |-> table'.wide, rows |-> table'.rows]
  BY <1>1
<1>3. table.rows = NoRows
  BY <1>1 DEF AccountInv, MainInv
<1>4. Taken' = Taken /\ \A w \in Workers : (Busy(w)' <=> Busy(w))
  BY <1>1 DEF Taken, Busy
<1>5. ShapeInv' /\ QueueInv'
  BY <1>1, <1>2, <1>4 DEF AccountInv, ShapeInv, QueueInv
<1>6. PlaceInv' /\ CoverInv'
  BY <1>1, <1>2, <1>3, <1>4 DEF AccountInv, PlaceInv, CoverInv
<1>7. MainInv'
  BY <1>1 DEF MainInv
<1> QED BY <1>5, <1>6, <1>7 DEF AccountInv

LEMMA ResetFailsKeeps ==
  ASSUME AccountInv, ResetFails
  PROVE  AccountInv'
<1>1. /\ main = "reading" /\ main' \in {"finished", "dead"} /\ posted' = posted
      /\ queue' = queue /\ job' = job /\ lost' = lost /\ table' = table
  BY DEF ResetFails
<1>2. Taken' = Taken /\ \A w \in Workers : (Busy(w)' <=> Busy(w))
  BY <1>1 DEF Taken, Busy
<1>3. ShapeInv' /\ QueueInv'
  BY <1>1, <1>2 DEF AccountInv, ShapeInv, QueueInv
<1>4. PlaceInv' /\ CoverInv'
  BY <1>1, <1>2 DEF AccountInv, PlaceInv, CoverInv
<1>5. queue' = <<>>
  <2>1. Len(queue) = 0 /\ queue \in Seq(Nat)
    BY <1>1, Numbers DEF AccountInv, MainInv, QueueInv
  <2> QED BY <2>1, <1>1
<1>6. MainInv'
  BY <1>1, <1>2, <1>5 DEF AccountInv, MainInv
<1> QED BY <1>3, <1>4, <1>6 DEF AccountInv

LEMMA PostKeeps ==
  ASSUME AccountInv, Post
  PROVE  AccountInv'
<1>1. /\ main = "posting" /\ main' = main /\ posted < NumGrids /\ posted' = posted + 1
      /\ queue' = Append(queue, posted + 1) /\ job' = job /\ lost' = lost /\ table' = table
  BY DEF Post
<1>2. /\ posted \in Nat /\ Len(queue) \in Nat /\ NumGrids \in Nat /\ queue \in Seq(Nat)
      /\ Len(queue) <= posted
  BY Numbers DEF AccountInv, QueueInv
<1>3. posted + 1 \in Nat
  BY <1>2
<1>4. queue' \in Seq(Nat) /\ Len(queue') = Len(queue) + 1
  BY <1>1, <1>2, <1>3
<1>5. Taken' = Taken
  BY <1>1, <1>2, <1>4 DEF Taken
<1>6. QueueInv'
  <2>1. Len(queue') <= posted'
    BY <1>1, <1>2, <1>4
  <2>2. ASSUME NEW i \in 1..Len(queue') PROVE queue'[i] = Taken' + i
    <3>1. CASE i = Len(queue) + 1
      BY <3>1, <1>1, <1>2, <1>5 DEF Taken
    <3>2. CASE i # Len(queue) + 1
      <4>1. i \in 1..Len(queue)
        BY <3>2, <1>2, <1>4
      <4>2. queue'[i] = queue[i]
        BY <4>1, <1>1, <1>2
      <4> QED BY <4>1, <4>2, <1>5 DEF AccountInv, QueueInv
    <3> QED BY <3>1, <3>2
  <2> QED BY <2>1, <2>2 DEF QueueInv
<1>7. \A w \in Workers : (Busy(w)' <=> Busy(w))
  BY <1>1 DEF Busy
<1>8. ShapeInv'
  <2>1. posted' \in 0..NumGrids
    BY <1>1, <1>2
  <2> QED BY <2>1, <1>1, <1>4 DEF AccountInv, ShapeInv
<1>9. PlaceInv' /\ CoverInv'
  BY <1>1, <1>5, <1>7 DEF AccountInv, PlaceInv, CoverInv
<1>10. MainInv'
  BY <1>1 DEF MainInv
<1> QED BY <1>6, <1>8, <1>9, <1>10 DEF AccountInv

LEMMA EndWorkKeeps ==
  ASSUME AccountInv, EndWork
  PROVE  AccountInv'
<1>1. /\ main = "posting" /\ main' = "joining" /\ posted' = posted
      /\ queue' = queue /\ job' = job /\ lost' = lost /\ table' = table
  BY DEF EndWork
<1>2. Taken' = Taken /\ \A w \in Workers : (Busy(w)' <=> Busy(w))
  BY <1>1 DEF Taken, Busy
<1>3. ShapeInv' /\ QueueInv'
  BY <1>1, <1>2 DEF AccountInv, ShapeInv, QueueInv
<1>4. PlaceInv' /\ CoverInv'
  BY <1>1, <1>2 DEF AccountInv, PlaceInv, CoverInv
<1>5. MainInv'
  BY <1>1 DEF MainInv
<1> QED BY <1>3, <1>4, <1>5 DEF AccountInv

LEMMA JoinKeeps ==
  ASSUME AccountInv, Join
  PROVE  AccountInv'
<1>1. /\ main = "joining" /\ main' = "finished" /\ posted' = posted
      /\ queue' = queue /\ job' = job /\ lost' = lost /\ table' = table
      /\ \A w \in Workers : ~Busy(w) /\ queue = <<>>
  BY DEF Join, Busy
<1>2. Taken' = Taken /\ \A w \in Workers : (Busy(w)' <=> Busy(w))
  BY <1>1 DEF Taken, Busy
<1>3. ShapeInv' /\ QueueInv'
  BY <1>1, <1>2 DEF AccountInv, ShapeInv, QueueInv
<1>4. PlaceInv' /\ CoverInv'
  BY <1>1, <1>2 DEF AccountInv, PlaceInv, CoverInv
<1>5. MainInv'
  BY <1>1, <1>2 DEF MainInv
<1> QED BY <1>3, <1>4, <1>5 DEF AccountInv

-------------------------------------------------------------------------------
(* The jobs keep the invariant.                                            *)

\* A thread that works is not joined yet.
LEMMA BusyMain ==
  ASSUME AccountInv, NEW w \in Workers, Busy(w)
  PROVE  main \in {"posting", "joining"}
BY DEF AccountInv, ShapeInv, MainInv

LEMMA TakeKeeps ==
  ASSUME AccountInv, NEW w \in Workers, Take(w)
  PROVE  AccountInv'
<1>1. PICK kept \in Kept(rows, Grids[Head(queue)], exclude) :
        job' = [job EXCEPT ![w] = [phase |-> "calculated", grid |-> Head(queue), kept |-> kept,
                                   rows |-> RowsOf(Head(queue), kept)]]
  BY DEF Take
<1> DEFINE n == Head(queue)
           new == [phase |-> "calculated", grid |-> n, kept |-> kept, rows |-> RowsOf(n, kept)]
<1>2. /\ main # "dead" /\ job[w].phase = "free" /\ queue # <<>> /\ queue' = Tail(queue)
      /\ main' = main /\ posted' = posted /\ table' = table /\ lost' = lost
  BY DEF Take, Alive
<1>3. /\ posted \in Nat /\ Len(queue) \in Nat /\ Taken \in Nat /\ queue \in Seq(Nat)
      /\ Len(queue) <= posted
  BY Numbers DEF AccountInv, QueueInv
<1>4. Len(queue) > 0 /\ n = queue[1]
  BY <1>2, <1>3
<1>5. n = Taken + 1 /\ n \in Nat
  BY <1>3, <1>4 DEF AccountInv, QueueInv
<1>6. /\ queue' \in Seq(Nat) /\ Len(queue') = Len(queue) - 1
      /\ \A i \in 1..Len(queue') : queue'[i] = queue[i + 1]
  BY <1>2, <1>3, <1>4
<1>7. Taken' = Taken + 1
  BY <1>2, <1>3, <1>6 DEF Taken
<1>8. /\ job' = [u \in Workers |-> job'[u]] /\ job'[w] = new
      /\ \A u \in Workers \ {w} : job'[u] = job[u]
      /\ \A u \in Workers : IsJob(job'[u])
  <2>1. IsJob(new)
    BY <1>5 DEF IsJob, Phases
  <2>2. job' = [job EXCEPT ![w] = new]
    BY <1>1
  <2> HIDE DEF new
  <2> QED BY <2>1, <2>2, JobChange DEF AccountInv
<1>9. /\ job'[w].grid = n /\ Busy(w)' /\ ~Busy(w)
      /\ \A u \in Workers \ {w} : (Busy(u)' <=> Busy(u)) /\ job'[u].grid = job[u].grid
  BY <1>2, <1>8 DEF Busy
<1> HIDE DEF n, new
<1>10. ShapeInv'
  BY <1>2, <1>6, <1>8 DEF AccountInv, ShapeInv
<1>11. QueueInv'
  <2>1. Len(queue') <= posted'
    BY <1>2, <1>3, <1>6
  <2>2. ASSUME NEW i \in 1..Len(queue') PROVE queue'[i] = Taken' + i
    <3>1. i + 1 \in 1..Len(queue)
      BY <1>3, <1>6
    <3>2. queue[i + 1] = Taken + (i + 1)
      BY <3>1 DEF AccountInv, QueueInv
    <3> QED BY <3>2, <1>3, <1>6, <1>7
  <2> QED BY <2>1, <2>2 DEF QueueInv
<1>12. PlaceInv'
  <2>1. 1..Taken \subseteq 1..Taken' /\ n \in 1..Taken' /\ n \notin 1..Taken
    BY <1>3, <1>5, <1>7
  <2>2. /\ DOMAIN table'.rows \subseteq 1..Taken' /\ DOMAIN lost' \subseteq 1..Taken'
        /\ DOMAIN table'.rows \cap DOMAIN lost' = {}
    BY <2>1, <1>2 DEF AccountInv, PlaceInv
  <2>3. ASSUME NEW u \in Workers, Busy(u)'
        PROVE  /\ job'[u].grid \in 1..Taken'
               /\ job'[u].grid \notin DOMAIN table'.rows \cup DOMAIN lost'
               /\ \A v \in Workers \ {u} : Busy(v)' => job'[v].grid # job'[u].grid
    <3>1. CASE u = w
      BY <3>1, <2>1, <1>2, <1>9 DEF AccountInv, PlaceInv
    <3>2. CASE u # w
      BY <3>2, <2>3, <2>1, <1>2, <1>9 DEF AccountInv, PlaceInv
    <3> QED BY <3>1, <3>2
  <2> QED BY <2>2, <2>3 DEF PlaceInv
<1>13. CoverInv'
  <2> SUFFICES ASSUME NEW k \in 1..Taken'
               PROVE  \/ k \in DOMAIN table'.rows \cup DOMAIN lost'
                      \/ \E u \in Workers : Busy(u)' /\ job'[u].grid = k
    BY DEF CoverInv
  <2>1. CASE k = n
    BY <2>1, <1>9
  <2>2. CASE k # n
    <3>1. k \in 1..Taken
      BY <2>2, <1>3, <1>5, <1>7
    <3> QED BY <3>1, <1>2, <1>9 DEF AccountInv, CoverInv
  <2> QED BY <2>1, <2>2
<1>14. MainInv'
  <2>1. main \notin {"reading", "finished"}
    <3>1. main # "reading"
      BY <1>3, <1>4 DEF AccountInv, MainInv
    <3>2. main # "finished"
      BY <1>2 DEF AccountInv, MainInv
    <3> QED BY <3>1, <3>2
  <2> QED BY <2>1, <1>2 DEF MainInv
<1> QED BY <1>10, <1>11, <1>12, <1>13, <1>14 DEF AccountInv

\* A busy thread goes on; the columns may become wider.
LEMMA PhaseKeeps ==
  ASSUME AccountInv, NEW w \in Workers, Busy(w), NEW p \in Phases \ {"free"},
         job' = [job EXCEPT ![w].phase = p],
         main' = main, posted' = posted, queue' = queue, lost' = lost,
         table' = [wide |-> table'.wide, rows |-> table'.rows], table'.rows = table.rows
  PROVE  AccountInv'
<1>1. /\ job' = [u \in Workers |-> job'[u]]
      /\ job'[w].phase = p /\ job'[w].grid = job[w].grid /\ IsJob(job'[w])
      /\ \A u \in Workers \ {w} : job'[u] = job[u]
  BY PhaseChange DEF AccountInv
<1>2. /\ Taken' = Taken
      /\ \A u \in Workers : (Busy(u)' <=> Busy(u)) /\ job'[u].grid = job[u].grid
  BY <1>1 DEF Taken, Busy
<1>3. ShapeInv' /\ QueueInv'
  BY <1>1, <1>2 DEF AccountInv, ShapeInv, QueueInv
<1>4. PlaceInv'
  BY <1>2 DEF AccountInv, PlaceInv
<1>5. CoverInv'
  BY <1>2 DEF AccountInv, CoverInv
<1>6. MainInv'
  BY <1>2, BusyMain DEF MainInv
<1> QED BY <1>3, <1>4, <1>5, <1>6 DEF AccountInv

\* A busy thread puts its grid into the table or among the lost and is free.
LEMMA SettleKeeps ==
  ASSUME AccountInv, NEW w \in Workers, Busy(w), job' = [job EXCEPT ![w] = Free],
         main' = main, posted' = posted, queue' = queue,
         table' = [wide |-> table'.wide, rows |-> table'.rows],
         \/ /\ DOMAIN table'.rows = DOMAIN table.rows \cup {job[w].grid}
            /\ lost' = lost
         \/ /\ DOMAIN lost' = DOMAIN lost \cup {job[w].grid}
            /\ table'.rows = table.rows
  PROVE  AccountInv'
<1> DEFINE n == job[w].grid
<1>1. /\ job' = [u \in Workers |-> job'[u]] /\ job'[w] = Free
      /\ \A u \in Workers \ {w} : job'[u] = job[u]
      /\ \A u \in Workers : IsJob(job'[u])
  <2> HIDE DEF n
  <2> QED BY FreeIsJob, JobChange DEF AccountInv
<1>2. /\ Taken' = Taken /\ ~Busy(w)'
      /\ \A u \in Workers \ {w} : (Busy(u)' <=> Busy(u)) /\ job'[u].grid = job[u].grid
  BY <1>1 DEF Taken, Busy, Free
<1>3. /\ n \in 1..Taken /\ n \notin DOMAIN table.rows \cup DOMAIN lost
      /\ \A u \in Workers \ {w} : Busy(u) => job[u].grid # n
  BY DEF AccountInv, PlaceInv
<1>4. DOMAIN table'.rows \cup DOMAIN lost' = (DOMAIN table.rows \cup DOMAIN lost) \cup {n}
  OBVIOUS
<1>5. DOMAIN table'.rows \cap DOMAIN lost' = {}
  BY <1>3 DEF AccountInv, PlaceInv
<1> HIDE DEF n
<1>6. ShapeInv' /\ QueueInv'
  BY <1>1, <1>2 DEF AccountInv, ShapeInv, QueueInv
<1>7. PlaceInv'
  <2>1. DOMAIN table'.rows \subseteq 1..Taken' /\ DOMAIN lost' \subseteq 1..Taken'
    BY <1>2, <1>3, <1>4 DEF AccountInv, PlaceInv
  <2>2. ASSUME NEW u \in Workers, Busy(u)'
        PROVE  /\ job'[u].grid \in 1..Taken'
               /\ job'[u].grid \notin DOMAIN table'.rows \cup DOMAIN lost'
               /\ \A v \in Workers \ {u} : Busy(v)' => job'[v].grid # job'[u].grid
    <3>1. u # w /\ Busy(u) /\ job'[u].grid = job[u].grid
      BY <2>2, <1>2
    <3>2. /\ job[u].grid \in 1..Taken /\ job[u].grid # n
          /\ job[u].grid \notin DOMAIN table.rows \cup DOMAIN lost
          /\ \A v \in Workers \ {u} : Busy(v) => job[v].grid # job[u].grid
      BY <3>1, <1>3 DEF AccountInv, PlaceInv
    <3> QED BY <3>1, <3>2, <1>2, <1>4
  <2> QED BY <2>1, <2>2, <1>5 DEF PlaceInv
<1>8. CoverInv'
  <2> SUFFICES ASSUME NEW k \in 1..Taken'
               PROVE  \/ k \in DOMAIN table'.rows \cup DOMAIN lost'
                      \/ \E u \in Workers : Busy(u)' /\ job'[u].grid = k
    BY DEF CoverInv
  <2>1. CASE k = n
    BY <2>1, <1>4
  <2>2. CASE k # n
    <3>1. \/ k \in DOMAIN table.rows \cup DOMAIN lost
          \/ \E u \in Workers : Busy(u) /\ job[u].grid = k
      BY <1>2, BusyMain DEF AccountInv, CoverInv
    <3> QED BY <3>1, <2>2, <1>2, <1>4 DEF n
  <2> QED BY <2>1, <2>2
<1>9. MainInv'
  BY <1>2, BusyMain DEF MainInv
<1> QED BY <1>6, <1>7, <1>8, <1>9 DEF AccountInv

LEMMA DieKeeps ==
  ASSUME AccountInv, Die
  PROVE  AccountInv'
<1>1. /\ main' = "dead" /\ job' = [w \in Workers |-> Free] /\ queue' = <<>>
      /\ posted' = posted /\ table' = table /\ lost' = lost
  BY DEF Die
<1>2. /\ posted \in Nat /\ Taken \in Nat /\ Taken <= posted
  BY Numbers
<1>3. Len(queue') = 0
  BY <1>1
<1>4. Taken' = posted
  BY <1>1, <1>2, <1>3 DEF Taken
<1>5. \A w \in Workers : job'[w] = Free
  BY <1>1
<1>6. \A w \in Workers : ~Busy(w)' /\ IsJob(job'[w])
  BY <1>5, FreeIsJob DEF Busy, Free
<1>7. ShapeInv'
  <2>1. queue' \in Seq(Nat)
    BY <1>1
  <2>2. job' = [w \in Workers |-> job'[w]]
    BY <1>1, <1>5
  <2> QED BY <2>1, <2>2, <1>1, <1>6 DEF AccountInv, ShapeInv
<1>8. QueueInv'
  BY <1>1, <1>2, <1>3 DEF QueueInv
<1>9. PlaceInv'
  <2>1. 1..Taken \subseteq 1..Taken'
    BY <1>2, <1>4
  <2> QED BY <2>1, <1>1, <1>6 DEF AccountInv, PlaceInv
<1>10. CoverInv' /\ MainInv'
  BY <1>1, <1>6 DEF CoverInv, MainInv
<1> QED BY <1>7, <1>8, <1>9, <1>10 DEF AccountInv

\* Every step of a thread is one of these.
LEMMA WorkKeeps ==
  ASSUME AccountInv, NEW w \in Workers, Work(w) \/ Disconnect(w) \/ Refused(w)
  PROVE  AccountInv'
<1>0. table = [wide |-> table.wide, rows |-> table.rows]
  BY DEF AccountInv, ShapeInv
<1>1. CASE Take(w)
  BY <1>1, TakeKeeps
<1>2. CASE Overrun(w)
  BY <1>2, DieKeeps DEF Overrun
<1>3. CASE Disconnect(w)
  BY <1>3, DieKeeps DEF Disconnect
<1>4. CASE StartAlter(w)
  <2>1. Busy(w) /\ "altering" \in Phases \ {"free"}
    BY <1>4 DEF StartAlter, Busy, Phases
  <2> QED BY <1>0, <1>4, <2>1, PhaseKeeps DEF StartAlter
<1>5. CASE CommitAlter(w)
  <2>1. Busy(w) /\ "altered" \in Phases \ {"free"}
    BY <1>5 DEF CommitAlter, Busy, Phases
  <2>2. table' = [wide |-> TRUE, rows |-> table.rows]
    BY <1>0, <1>5 DEF CommitAlter
  <2>3. table'.rows = table.rows /\ table' = [wide |-> table'.wide, rows |-> table'.rows]
    BY <2>2
  <2> QED BY <1>5, <2>1, <2>3, PhaseKeeps DEF CommitAlter
<1>6. CASE StartCopy(w)
  <2>1. Busy(w) /\ "copying" \in Phases \ {"free"}
    BY <1>6 DEF StartCopy, Busy, Phases
  <2> QED BY <1>0, <1>6, <2>1, PhaseKeeps DEF StartCopy
<1>7. CASE CommitCopy(w)
  <2> DEFINE f == [n \in DOMAIN table.rows \cup {job[w].grid} |->
                     IF n = job[w].grid THEN job[w].rows ELSE table.rows[n]]
  <2>1. table' = [table EXCEPT !.rows = f]
    BY <1>7 DEF CommitCopy
  <2>2. DOMAIN f = DOMAIN table.rows \cup {job[w].grid}
    OBVIOUS
  <2> HIDE DEF f
  <2>3. table' = [wide |-> table.wide, rows |-> f]
    BY <1>0, <2>1
  <2>4. /\ DOMAIN table'.rows = DOMAIN table.rows \cup {job[w].grid}
        /\ table' = [wide |-> table'.wide, rows |-> table'.rows]
    BY <2>2, <2>3
  <2>5. Busy(w)
    BY <1>7 DEF CommitCopy, Busy
  <2> QED BY <1>7, <2>4, <2>5, SettleKeeps DEF CommitCopy
<1>8. ASSUME NEW why, Busy(w), Lose(w, why) PROVE AccountInv'
  <2>1. DOMAIN lost' = DOMAIN lost \cup {job[w].grid}
    BY <1>8 DEF Lose
  <2> QED BY <1>0, <1>8, <2>1, SettleKeeps DEF Lose
<1>9. CASE CopyOutOfRange(w)
  BY <1>8, <1>9 DEF CopyOutOfRange, Busy
<1>10. CASE Refused(w)
  <2>1. Busy(w)
    BY <1>10 DEF Refused, Busy
  <2> QED BY <2>1, <1>8, <1>10 DEF Refused
<1> QED BY <1>1, <1>2, <1>3, <1>4, <1>5, <1>6, <1>7, <1>9, <1>10 DEF Work

LEMMA AccountInvNext == AccountInv /\ [Next]_vars => AccountInv'
<1> SUFFICES ASSUME AccountInv, [Next]_vars PROVE AccountInv'
  OBVIOUS
<1>1. CASE Main
  BY <1>1, ResetTableKeeps, PostKeeps, EndWorkKeeps, JoinKeeps DEF Main
<1>2. CASE ResetFails
  BY <1>2, ResetFailsKeeps
<1>3. CASE \E w \in Workers : Work(w) \/ Disconnect(w) \/ Refused(w)
  BY <1>3, WorkKeeps
<1>4. CASE UNCHANGED vars
  <2>1. /\ main' = main /\ posted' = posted /\ queue' = queue /\ job' = job
        /\ table' = table /\ lost' = lost
    BY <1>4 DEF vars
  <2>2. Taken' = Taken /\ \A w \in Workers : (Busy(w)' <=> Busy(w))
    BY <2>1 DEF Taken, Busy
  <2>3. ShapeInv' /\ QueueInv'
    BY <2>1, <2>2 DEF AccountInv, ShapeInv, QueueInv
  <2>4. PlaceInv' /\ CoverInv' /\ MainInv'
    BY <2>1, <2>2 DEF AccountInv, PlaceInv, CoverInv, MainInv
  <2> QED BY <2>3, <2>4 DEF AccountInv
<1> QED BY <1>1, <1>2, <1>3, <1>4 DEF Next

LEMMA AccountInvHolds == Spec => []AccountInv
BY AccountInvInit, AccountInvNext, PTL DEF Spec

-------------------------------------------------------------------------------
(* What the jobs write.                                                    *)

\* The objects, and the shift from a square to that of an object.
ObjectsInv ==
  /\ IsFiniteSet(DOMAIN rows) /\ action \in Actions /\ exclude \in BOOLEAN
  /\ \A i \in DOMAIN rows : rows[i].at \in Int \X Int /\ rows[i].value \in Nat
Shift(n, c, i) == LET d == SquareOf(Grids[n], rows[i].at) IN <<d[1] - c[1], d[2] - c[2]>>
\* What is added to the square c of the grid n for the radius t.
Band(n, kept, c, t) == {i \in kept : Shift(n, c, i) \in Rings[t]}
Values == [i \in DOMAIN rows |-> rows[i].value]

\* The fold of the model is the sum.
LEMMA TotalIsSum ==
  ASSUME IsFiniteSet(DOMAIN rows), NEW S \in SUBSET DOMAIN rows
  PROVE  TotalOf(S) = SumOf(Values, S)
<1> DEFINE F(g) == g = [s \in SUBSET S |->
                          IF s = {} THEN 0
                          ELSE ValueOf(CHOOSE i \in s : TRUE) + g[s \ {CHOOSE i \in s : TRUE}]]
           h == CHOOSE g : F(g)
           k == CHOOSE g : Accumulates(Values, g, S)
<1>1. TotalOf(S) = h[S]
  BY DEF TotalOf, MapThenSumSet, MapThenFoldSet
<1>2. IsFiniteSet(S)
  BY FS_Subset
<1>3. Accumulates(Values, k, S) /\ SumOf(Values, S) = k[S]
  BY <1>2, SumsExist DEF SumOf
<1>4. ASSUME NEW s \in SUBSET S, s # {}
      PROVE  Values[CHOOSE i \in s : TRUE] = ValueOf(CHOOSE i \in s : TRUE)
  <2>1. (CHOOSE i \in s : TRUE) \in s
    BY <1>4
  <2> QED BY <2>1 DEF Values, ValueOf
<1>5. ASSUME NEW g PROVE F(g) <=> Accumulates(Values, g, S)
  <2>1. ASSUME NEW s \in SUBSET S
        PROVE  (IF s = {} THEN 0 ELSE ValueOf(CHOOSE i \in s : TRUE)
                                      + g[s \ {CHOOSE i \in s : TRUE}])
             = (IF s = {} THEN 0 ELSE Values[CHOOSE i \in s : TRUE]
                                      + g[s \ {CHOOSE i \in s : TRUE}])
    BY <1>4
  <2> QED BY <2>1 DEF Accumulates
<1> HIDE DEF F, k
<1>6. F(h)
  <2>1. \E g : F(g)
    BY <1>3, <1>5
  <2> QED BY <2>1
<1> HIDE DEF h
<1>7. Accumulates(Values, h, S)
  BY <1>5, <1>6
<1>8. \A s \in SUBSET S : h[s] = k[s]
  <2>1. PICK v, w, x, y : v = Values /\ w = Values /\ x = h /\ y = k
    OBVIOUS
  <2>2. /\ Accumulates(v, x, S) /\ Accumulates(w, y, S) /\ S \subseteq S
        /\ \A i \in S : v[i] = w[i]
    BY <1>3, <1>7, <2>1
  <2>3. \A s \in SUBSET S : x[s] = y[s]
    BY <1>2, <2>2, SumsAgree
  <2> QED BY <2>1, <2>3
<1> QED BY <1>1, <1>3, <1>8

LEMMA TotalIsNat ==
  ASSUME ObjectsInv, NEW S \in SUBSET DOMAIN rows
  PROVE  TotalOf(S) \in Nat /\ (S = {} => TotalOf(S) = 0)
<1>1. IsFiniteSet(DOMAIN rows) /\ \A i \in DOMAIN rows : Values[i] \in Nat
  BY DEF ObjectsInv, Values
<1>2. TotalOf(S) = SumOf(Values, S)
  BY <1>1, TotalIsSum
<1>3. SumOf(Values, S) \in Nat
  BY <1>1, SumIsNat
<1>4. S = {} => SumOf(Values, S) = 0
  BY SumStep, FS_EmptySet
<1> QED BY <1>2, <1>3, <1>4

LEMMA ValueIsInt ==
  ASSUME ObjectsInv, NEW S \in SUBSET DOMAIN rows
  PROVE  ToInt(S) \in Int /\ (action = "sum" => ToInt(S) \in Nat)
<1>1. TotalOf(S) \in Nat
  BY TotalIsNat
<1>2. S # {} => Cardinality(S) \in Nat /\ Cardinality(S) > 0
  <2>1. IsFiniteSet(S)
    BY FS_Subset DEF ObjectsInv
  <2>2. Cardinality(S) \in Nat /\ (Cardinality(S) = 0 <=> S = {})
    BY <2>1, FS_CardinalityType, FS_EmptySet
  <2> QED BY <2>2
<1>3. NaN \in Int
  BY RadiiTableAssumption DEF NaN
<1>4. S # {} => TotalOf(S) \div Cardinality(S) \in Int
  BY <1>1, <1>2
<1> QED BY <1>1, <1>3, <1>4 DEF ToInt

LEMMA KeptIsCoords ==
  ASSUME NEW n, NEW kept \in Kept(rows, Grids[n], exclude)
  PROVE  /\ kept \subseteq Coords(rows, Grids[n])
         /\ ~exclude => kept = Coords(rows, Grids[n])
BY DEF Kept, Erased

LEMMA GridIs ==
  ASSUME NEW n \in GridNumbers
  PROVE  /\ Grids[n].side \in Nat /\ Grids[n].side > 0
         /\ Grids[n].lat \in Int /\ Grids[n].lng \in Int
<1>1. Grids[n] \in [id : Nat, lat : Int, lng : Int, side : Nat \ {0}]
  <2>1. n \in 1..Len(Grids) /\ Len(Grids) \in Nat
    BY RadiiTableAssumption DEF GridNumbers, NumGrids
  <2> DEFINE R == [id : Nat, lat : Int, lng : Int, side : Nat \ {0}]
  <2>2. Grids \in Seq(R)
    BY RadiiTableAssumption
  <2> HIDE DEF R
  <2>3. Grids[n] \in R
    BY <2>1, <2>2
  <2> QED BY <2>3 DEF R
<1> QED BY <1>1

\* A job writes, for the squares that are not empty, what is in their bands.
LEMMA RowsOfIs ==
  ASSUME NEW n \in GridNumbers, NEW kept
  PROVE  LET f == RowsOf(n, kept)
             c(id) == Cells[n][id]
         IN  /\ DOMAIN f \subseteq IdsOf(n)
             /\ \A id \in DOMAIN f :
                  /\ DOMAIN f[id] = 0..max_R
                  /\ \A t \in 0..max_R : c(id) \in SquaresOf(Grids[n]) =>
                       f[id][t] = ToInt(Band(n, kept, c(id), t))
             /\ \A id \in IdsOf(n) \ DOMAIN f : \A t \in 0..max_R :
                  c(id) \in SquaresOf(Grids[n]) => IsDefault(Band(n, kept, c(id), t))
<1> DEFINE G == Grids[n]
           grid == FillDataGrid(rows, G, kept)
           radii == CalculateRadii(grid, SquaresOf(G))
           row == [id \in IdsOf(n) |-> [t \in 0..max_R |-> radii[t][Cells[n][id]]]]
           filled == {id \in IdsOf(n) : \E t \in 0..max_R : ~IsDefault(row[id][t])}
           f == RowsOf(n, kept)
<1>1. f = [id \in filled |-> [t \in 0..max_R |-> ToInt(row[id][t])]]
  BY DEF RowsOf
<1>2. ASSUME NEW id \in IdsOf(n), NEW t \in 0..max_R, Cells[n][id] \in SquaresOf(G)
      PROVE  row[id][t] = Band(n, kept, Cells[n][id], t)
  <2> DEFINE c == Cells[n][id]
  <2>1. row[id][t] = radii[t][c]
    OBVIOUS
  <2>2. radii[t][c] = {i \in DOMAIN grid : <<grid[i][1] - c[1], grid[i][2] - c[2]>> \in Rings[t]}
    BY <1>2 DEF CalculateRadii
  <2>3. DOMAIN grid = kept /\ \A i \in kept : grid[i] = SquareOf(G, rows[i].at)
    BY DEF FillDataGrid
  <2> HIDE DEF grid, radii, row, c
  <2> QED BY <2>1, <2>2, <2>3 DEF Band, Shift, c
<1> HIDE DEF row, f
<1>3. DOMAIN f = filled /\ filled \subseteq IdsOf(n)
  BY <1>1
<1>4. \A id \in DOMAIN f : DOMAIN f[id] = 0..max_R /\ \A t \in 0..max_R : f[id][t] = ToInt(row[id][t])
  BY <1>1
<1>5. \A id \in IdsOf(n) \ DOMAIN f : \A t \in 0..max_R : IsDefault(row[id][t])
  BY <1>3
<1> HIDE DEF filled, G
<1> QED BY <1>2, <1>3, <1>4, <1>5 DEF f, G

-------------------------------------------------------------------------------
(* The squares and their radii.                                            *)

LEMMA LeastOf ==
  ASSUME NEW s \in Nat, NEW P \in SUBSET (0..s), P # {}
  PROVE  \E k \in P : \A m \in P : k <= m
<1> DEFINE T == {0..k : k \in P}
<1>1. IsFiniteSet(0..s) /\ T \subseteq SUBSET (0..s) /\ T # {}
  <2>1. IsFiniteSet(0..s)
    BY 0 \in Int, s \in Int, FS_Interval
  <2>2. \A k \in P : 0..k \subseteq 0..s
    OBVIOUS
  <2> QED BY <2>1, <2>2
<1>2. PICK u \in T : \A w \in SUBSET u : w # u => w \notin T
  <2> HIDE DEF T
  <2> QED BY <1>1, MinimalSubset
<1>3. PICK k \in P : u = 0..k
  OBVIOUS
<1>4. ASSUME NEW m \in P, m < k PROVE FALSE
  <2>1. 0..m \in T /\ 0..m \subseteq u /\ k \in u /\ k \notin 0..m
    BY <1>3, <1>4
  <2> QED BY <1>2, <2>1
<1> QED BY <1>4

LEMMA LargerSquare ==
  ASSUME NEW a \in Nat, NEW b \in Nat, a <= b
  PROVE  a * a <= b * b /\ a * a \in Nat
<1>1. PICK d \in Nat : b = a + d
  BY b - a \in Nat, b = a + (b - a)
<1>2. b * b = a * a + 2 * (a * d) + d * d
  BY <1>1
<1>3. a * d \in Nat /\ d * d \in Nat /\ a * a \in Nat
  OBVIOUS
<1> QED BY <1>2, <1>3

LEMMA SmallerRoot ==
  ASSUME NEW a \in Nat, NEW b \in Nat, a * a < b * b
  PROVE  a < b
<1> SUFFICES ASSUME b <= a PROVE FALSE
  OBVIOUS
<1>1. b * b <= a * a
  BY LargerSquare
<1>2. a * a \in Int /\ b * b \in Int
  OBVIOUS
<1> QED BY <1>1, <1>2

\* The square root, rounded to the nearest number.
LEMMA RootExists ==
  ASSUME NEW s \in Nat
  PROVE  \E k \in 0..s : /\ k > 0 => (2 * k - 1) * (2 * k - 1) <= s
                         /\ s < (2 * k + 1) * (2 * k + 1)
<1> DEFINE P == {k \in 0..s : s < (2 * k + 1) * (2 * k + 1)}
<1>1. s \in P
  <2>1. (2 * s + 1) * (2 * s + 1) = 4 * (s * s) + 4 * s + 1 /\ s * s \in Nat
    OBVIOUS
  <2> QED BY <2>1
<1>2. PICK k \in P : \A m \in P : k <= m
  <2>1. P \in SUBSET (0..s) /\ P # {}
    BY <1>1
  <2> HIDE DEF P
  <2> QED BY <2>1, LeastOf
<1>3. k \in 0..s /\ s < (2 * k + 1) * (2 * k + 1)
  OBVIOUS
<1>4. ASSUME k > 0 PROVE (2 * k - 1) * (2 * k - 1) <= s
  <2>1. PICK m \in Nat : m = k - 1 /\ 2 * m + 1 = 2 * k - 1
    BY <1>3, <1>4
  <2>2. m \in 0..s /\ m < k
    BY <1>3, <2>1
  <2>3. ~(s < (2 * m + 1) * (2 * m + 1))
    BY <1>2, <1>3, <2>2
  <2>4. (2 * m + 1) * (2 * m + 1) \in Int
    OBVIOUS
  <2> QED BY <2>1, <2>3, <2>4
<1> QED BY <1>3, <1>4

\* The square of an integer is that of a natural number.
LEMMA SquareIsNat ==
  ASSUME NEW a \in Int
  PROVE  a * a \in Nat /\ \E b \in Nat : b * b = a * a /\ (b = a \/ b = -a)
<1>1. CASE a >= 0
  <2>1. a \in Nat /\ a * a \in Nat
    BY <1>1
  <2> QED BY <2>1
<1>2. CASE a < 0
  <2>1. PICK b \in Nat : b = -a /\ a = -b
    BY <1>2
  <2>2. (-b) * (-b) = b * b /\ b * b \in Nat
    OBVIOUS
  <2> QED BY <2>1, <2>2
<1> QED BY <1>1, <1>2

\* The tuples of a radius are those whose far end is at most that far away.
LEMMA RadiusIs ==
  ASSUME NEW x \in Int, NEW y \in Int
  PROVE  /\ RadiusAt(x, y) \in Nat
         /\ \A t \in Nat : RadiusAt(x, y) <= t <=>
              Doubled(x) * Doubled(x) + Doubled(y) * Doubled(y) < (2 * t + 3) * (2 * t + 3)
<1>1. Doubled(x) \in Int /\ Doubled(y) \in Int
  BY DEF Doubled
<1> DEFINE a == Doubled(x) * Doubled(x)
           b == Doubled(y) * Doubled(y)
           R(k) == /\ k > 0 => (2 * k - 1) * (2 * k - 1) <= a + b
                   /\ a + b < (2 * k + 1) * (2 * k + 1)
           k == CHOOSE q \in 0..(a + 1 + b) : R(q)
<1>2. a \in Nat /\ b \in Nat
  BY <1>1, SquareIsNat
<1> HIDE DEF a, b
<1>3. k \in 0..(a + 1 + b) /\ R(k)
  <2>1. \E q \in 0..(a + 1 + b) : R(q)
    <3>1. PICK s \in Nat : s = a + b
      BY <1>2
    <3>2. PICK q \in 0..s : /\ q > 0 => (2 * q - 1) * (2 * q - 1) <= s
                            /\ s < (2 * q + 1) * (2 * q + 1)
      BY RootExists
    <3>3. q \in 0..(a + 1 + b)
      BY <1>2, <3>1
    <3> QED BY <3>1, <3>2, <3>3
  <2> HIDE DEF R
  <2> QED BY <2>1
<1>4. RadiusAt(x, y) = IF k = 0 THEN 0 ELSE k - 1
  BY DEF RadiusAt, a, b
<1> HIDE DEF k
<1>5. PICK q \in Nat : q = k
  BY <1>2, <1>3
<1>6. RadiusAt(x, y) \in Nat
  BY <1>4, <1>5
<1>7. ASSUME NEW t \in Nat PROVE RadiusAt(x, y) <= t <=> a + b < (2 * t + 3) * (2 * t + 3)
  <2>1. CASE q <= t + 1
    <3>1. RadiusAt(x, y) <= t
      BY <1>4, <1>5, <2>1
    <3>2. (2 * q + 1) * (2 * q + 1) <= (2 * t + 3) * (2 * t + 3)
      BY <2>1, 2 * q + 1 \in Nat, 2 * t + 3 \in Nat, 2 * q + 1 <= 2 * t + 3, LargerSquare
    <3>3. a + b < (2 * q + 1) * (2 * q + 1)
      BY <1>3, <1>5
    <3>4. (2 * q + 1) * (2 * q + 1) \in Int /\ (2 * t + 3) * (2 * t + 3) \in Int
      OBVIOUS
    <3> QED BY <1>2, <3>1, <3>2, <3>3, <3>4
  <2>2. CASE q > t + 1
    <3>1. ~(RadiusAt(x, y) <= t)
      BY <1>4, <1>5, <2>2
    <3>2. PICK m \in Nat : m = 2 * q - 1 /\ 2 * t + 3 <= m
      BY <2>2
    <3>3. m * m <= a + b
      BY <1>3, <1>5, <2>2, <3>2
    <3>4. (2 * t + 3) * (2 * t + 3) <= m * m
      BY <3>2, 2 * t + 3 \in Nat, LargerSquare
    <3>5. m * m \in Int /\ (2 * t + 3) * (2 * t + 3) \in Int
      OBVIOUS
    <3> QED BY <1>2, <3>1, <3>3, <3>4, <3>5
  <2> QED BY <2>1, <2>2
<1> QED BY <1>6, <1>7 DEF a, b

\* ... and they lie in the box of the shifts.
LEMMA NearInBox ==
  ASSUME NEW x \in Int, NEW b \in Nat, NEW t \in Nat,
         Doubled(x) * Doubled(x) + b < (2 * t + 3) * (2 * t + 3)
  PROVE  x \in (-t)..t
<1>1. Doubled(x) \in Int
  BY DEF Doubled
<1>2. PICK d \in Nat : d * d = Doubled(x) * Doubled(x) /\ (d = Doubled(x) \/ d = -Doubled(x))
  BY <1>1, SquareIsNat
<1>3. d * d < (2 * t + 3) * (2 * t + 3)
  <2>1. d * d \in Nat /\ (2 * t + 3) * (2 * t + 3) \in Int
    OBVIOUS
  <2> QED BY <1>2, <2>1
<1>4. d < 2 * t + 3
  BY <1>3, 2 * t + 3 \in Nat, SmallerRoot
<1> QED BY <1>2, <1>4 DEF Doubled

LEMMA RingIs ==
  ASSUME NEW c, c[1] \in Int, c[2] \in Int, NEW p \in {-c[1], c[1] + 1, -c[2], c[2] + 1},
         p >= -c[1], p >= c[1] + 1, p >= -c[2], p >= c[2] + 1
  PROVE  Ring(c) = p
<1> DEFINE m == Ring(c)
<1>1. /\ m \in {-c[1], c[1] + 1, -c[2], c[2] + 1}
      /\ m >= -c[1] /\ m >= c[1] + 1 /\ m >= -c[2] /\ m >= c[2] + 1
  BY DEF Ring
<1> HIDE DEF m
<1> QED BY <1>1 DEF m

\* Each number below that of the squares of a grid is that of one of them.
LEMMA SquareWithId ==
  ASSUME NEW s \in Nat, s > 0, NEW id \in 0..(4 * s * s - 1)
  PROVE  \E c \in ((-s)..(s - 1)) \X ((-s)..(s - 1)) : SquareId(c) = id
<1> DEFINE P == {q \in 0..s : id < 4 * (q + 1) * (q + 1)}
<1>0. 4 * s * s = 4 * (s * s) /\ s * s \in Nat
  OBVIOUS
<1>1. PICK q \in P : \A m \in P : q <= m
  <2>1. s - 1 \in P
    <3>1. PICK m \in Nat : m = s - 1 /\ m + 1 = s
      OBVIOUS
    <3>2. id < 4 * (m + 1) * (m + 1)
      BY <1>0, <3>1
    <3> QED BY <3>1, <3>2
  <2>2. P \in SUBSET (0..s) /\ P # {}
    BY <2>1
  <2> HIDE DEF P
  <2> QED BY <2>2, LeastOf
<1>2. q \in Nat /\ id < 4 * (q + 1) * (q + 1)
  OBVIOUS
<1>3. 4 * q * q <= id
  <2>1. CASE q = 0
    BY <2>1
  <2>2. CASE q > 0
    <3>1. PICK m \in Nat : m = q - 1 /\ m + 1 = q
      BY <1>2, <2>2
    <3>2. m \in 0..s /\ m \notin P
      BY <1>1, <3>1
    <3>3. ~(id < 4 * (m + 1) * (m + 1))
      BY <3>2
    <3> QED BY <1>2, <3>1, <3>3
  <2> QED BY <1>2, <2>1, <2>2
<1>4. q + 1 <= s
  <2>1. 4 * q * q = 4 * (q * q) /\ q * q \in Nat
    OBVIOUS
  <2>2. q * q < s * s
    <3> HIDE DEF P
    <3> QED BY <1>0, <1>3, <2>1
  <2> QED BY <2>2, <1>2, SmallerRoot
<1> HIDE DEF P
<1> DEFINE e == 4 * q * q
<1>5. e \in Nat /\ 4 * (q + 1) * (q + 1) = e + 8 * q + 4
  <2>1. e = 4 * (q * q) /\ q * q \in Nat
    BY <1>2
  <2> QED BY <1>2, <2>1
<1>6. PICK p \in Nat : p = q + 1 /\ 4 * (p - 1) * (p - 1) = e /\ p >= 1 /\ p <= s
  BY <1>2, <1>4
<1> HIDE DEF e
<1>7. PICK k \in 0..(8 * p - 5) : id = e + k
  <2>1. id - e \in 0..(8 * p - 5) /\ id = e + (id - e)
    BY <1>2, <1>3, <1>5, <1>6 DEF e
  <2> QED BY <2>1
<1>8. ASSUME NEW a \in (-p)..(p - 1), NEW b \in (-p)..(p - 1),
             a = -p \/ a = p - 1 \/ b = -p \/ b = p - 1,
             IdInRing(<<a, b>>, p) = k
      PROVE  \E c \in ((-s)..(s - 1)) \X ((-s)..(s - 1)) : SquareId(c) = id
  <2> DEFINE c == <<a, b>>
  <2>1. c[1] = a /\ c[2] = b /\ a \in Int /\ b \in Int
    OBVIOUS
  <2>2. Ring(c) = p
    <3>1. /\ p \in {-c[1], c[1] + 1, -c[2], c[2] + 1}
          /\ p >= -c[1] /\ p >= c[1] + 1 /\ p >= -c[2] /\ p >= c[2] + 1
      BY <1>8, <2>1
    <3> HIDE DEF c
    <3> QED BY <2>1, <3>1, RingIs
  <2>3. SquareId(c) = id
    BY <1>6, <1>7, <1>8, <2>2 DEF SquareId
  <2>4. a \in (-s)..(s - 1) /\ b \in (-s)..(s - 1)
    BY <1>6
  <2> QED BY <2>3, <2>4
<1>9. CASE k <= 2 * p - 1
  <2>1. k - p \in (-p)..(p - 1) /\ -p \in (-p)..(p - 1)
    BY <1>6, <1>9
  <2>2. IdInRing(<<k - p, -p>>, p) = k
    BY <1>6 DEF IdInRing
  <2> QED BY <1>8, <2>1, <2>2
<1>10. CASE k >= 2 * p /\ k <= 4 * p - 2
  <2>1. /\ p - 1 \in (-p)..(p - 1) /\ k - (3 * p - 1) \in (-p)..(p - 1)
        /\ k - (3 * p - 1) # -p
    BY <1>6, <1>10
  <2>2. PICK b \in (-p)..(p - 1) : b = k - (3 * p - 1) /\ b # -p /\ 2 * p + b + p - 1 = k
    BY <1>6, <2>1
  <2>3. IdInRing(<<p - 1, b>>, p) = k
    <3>1. CASE b = p - 1
      <4>1. 4 * p - 1 + (p - 2 - (p - 1)) = k
        BY <2>2, <3>1
      <4> QED BY <1>6, <2>2, <3>1, <4>1 DEF IdInRing
    <3>2. CASE b # p - 1
      BY <1>6, <2>2, <3>2 DEF IdInRing
    <3> QED BY <3>1, <3>2
  <2> QED BY <1>8, <2>1, <2>2, <2>3
<1>11. CASE k >= 4 * p - 1 /\ k <= 6 * p - 3
  <2>1. /\ 5 * p - 3 - k \in (-p)..(p - 1) /\ p - 1 \in (-p)..(p - 1)
        /\ p - 1 # -p /\ 5 * p - 3 - k # p - 1
    BY <1>6, <1>11
  <2>2. IdInRing(<<5 * p - 3 - k, p - 1>>, p) = k
    BY <1>6, <2>1 DEF IdInRing
  <2> QED BY <1>8, <2>1, <2>2
<1>12. CASE k >= 6 * p - 2
  <2>1. /\ -p \in (-p)..(p - 1) /\ 7 * p - 4 - k \in (-p)..(p - 1)
        /\ 7 * p - 4 - k # -p /\ 7 * p - 4 - k # p - 1 /\ -p # p - 1
    BY <1>6, <1>7, <1>12
  <2>2. IdInRing(<<-p, 7 * p - 4 - k>>, p) = k
    BY <1>6, <2>1 DEF IdInRing
  <2> QED BY <1>8, <2>1, <2>2
<1> QED BY <1>6, <1>9, <1>10, <1>11, <1>12

\* The shift to an object is in the rings up to t just where its square is near.
LEMMA ShiftIs ==
  ASSUME ObjectsInv, NEW n \in GridNumbers, NEW c \in SquaresOf(Grids[n]),
         NEW i \in Coords(rows, Grids[n])
  PROVE  /\ \A u, w \in 0..max_R : Shift(n, c, i) \in Rings[u] /\ Shift(n, c, i) \in Rings[w] => u = w
         /\ \A t \in 0..max_R : i \in Near(n, c, t) <=> \E u \in 0..t : Shift(n, c, i) \in Rings[u]
<1> DEFINE d == SquareOf(Grids[n], rows[i].at)
           x == d[1] - c[1]
           y == d[2] - c[2]
<1>1. c[1] \in Int /\ c[2] \in Int /\ d[1] \in Int /\ d[2] \in Int
  <2>1. i \in DOMAIN rows /\ rows[i].at[1] \in Int /\ rows[i].at[2] \in Int
    BY DEF Coords, ObjectsInv
  <2>2. ASSUME NEW h \in Int PROVE RowOf(h, Grids[n].side) \in Int
    BY GridIs DEF RowOf
  <2>3. c[1] \in Int /\ c[2] \in Int
    BY GridIs DEF SquaresOf
  <2> QED BY <2>1, <2>2, <2>3, GridIs DEF SquareOf, Within
<1>2. Shift(n, c, i) = <<x, y>> /\ FarEnd(c, d) = Doubled(x) * Doubled(x) + Doubled(y) * Doubled(y)
  BY DEF Shift, FarEnd
<1> HIDE DEF d
<1>3. PICK p \in Int, q \in Int : p = x /\ q = y
  BY <1>1
<1> HIDE DEF x, y
<1>4. max_R \in Nat
  BY MaxRAssumption
<1>5. ASSUME NEW u \in 0..max_R
      PROVE  Shift(n, c, i) \in Rings[u] <=>
               p \in (-max_R)..max_R /\ q \in (-max_R)..max_R /\ RadiusAt(p, q) = u
  BY <1>2, <1>3 DEF Rings, Shifts
<1>6. ASSUME NEW t \in 0..max_R
      PROVE  i \in Near(n, c, t) <=> \E u \in 0..t : Shift(n, c, i) \in Rings[u]
  <2> DEFINE a == Doubled(p) * Doubled(p)
             b == Doubled(q) * Doubled(q)
  <2>1. i \in Near(n, c, t) <=> a + b < (2 * t + 3) * (2 * t + 3)
    BY <1>2, <1>3 DEF Near, d
  <2>2. t \in Nat
    BY <1>4
  <2>3. a + b < (2 * t + 3) * (2 * t + 3) <=> RadiusAt(p, q) <= t
    BY <2>2, RadiusIs
  <2>4. a + b < (2 * t + 3) * (2 * t + 3) => p \in (-max_R)..max_R /\ q \in (-max_R)..max_R
    <3>1. a \in Nat /\ b \in Nat /\ a + b = b + a
      BY SquareIsNat DEF Doubled
    <3>2. ASSUME a + b < (2 * t + 3) * (2 * t + 3) PROVE p \in (-t)..t
      BY <2>2, <3>1, <3>2, NearInBox
    <3>3. ASSUME a + b < (2 * t + 3) * (2 * t + 3) PROVE q \in (-t)..t
      <4>1. b + a < (2 * t + 3) * (2 * t + 3)
        <5> HIDE DEF a, b
        <5> QED BY <3>1, <3>3
      <4> QED BY <2>2, <3>1, <4>1, NearInBox
    <3> HIDE DEF a, b
    <3> QED BY <1>4, <2>2, <3>2, <3>3
  <2>5. RadiusAt(p, q) \in Nat
    BY RadiusIs
  <2> HIDE DEF a, b
  <2> QED BY <1>4, <1>5, <2>1, <2>2, <2>3, <2>4, <2>5
<1> QED BY <1>5, <1>6

LEMMA NearIs ==
  ASSUME ObjectsInv, NEW n \in GridNumbers, NEW c \in SquaresOf(Grids[n]), NEW t \in 0..max_R
  PROVE  LET band == Band(n, Coords(rows, Grids[n]), c, t) IN
         /\ Near(n, c, t) \subseteq DOMAIN rows /\ band \subseteq DOMAIN rows
         /\ t = 0 => Near(n, c, t) = band
         /\ t > 0 => /\ Near(n, c, t) = Near(n, c, t - 1) \cup band
                     /\ Near(n, c, t - 1) \cap band = {}
<1> DEFINE S == Coords(rows, Grids[n])
           In(i, u) == Shift(n, c, i) \in Rings[u]
<1>1. S \subseteq DOMAIN rows /\ \A u : Near(n, c, u) \subseteq S /\ Band(n, S, c, t) = {i \in S : In(i, t)}
  BY DEF Near, Coords, Band
<1>2. /\ \A i \in S : \A u, w \in 0..max_R : In(i, u) /\ In(i, w) => u = w
      /\ \A i \in S : \A m \in 0..max_R : i \in Near(n, c, m) <=> \E u \in 0..m : In(i, u)
  BY ShiftIs
<1> HIDE DEF S, In
<1>3. t \in Nat /\ max_R \in Nat /\ t <= max_R
  BY MaxRAssumption
<1>4. ASSUME t = 0 PROVE Near(n, c, t) = {i \in S : In(i, t)}
  BY <1>1, <1>2, <1>3, <1>4
<1>5. ASSUME t > 0
      PROVE  /\ Near(n, c, t) = Near(n, c, t - 1) \cup {i \in S : In(i, t)}
             /\ Near(n, c, t - 1) \cap {i \in S : In(i, t)} = {}
  <2>1. t - 1 \in 0..max_R /\ t \notin 0..(t - 1) /\ 0..(t - 1) \subseteq 0..max_R
        /\ \A u \in 0..t : u \in 0..(t - 1) \/ u = t
    BY <1>3, <1>5
  <2>2. \A i \in S : i \in Near(n, c, t) <=> i \in Near(n, c, t - 1) \/ In(i, t)
    BY <1>2, <1>3, <2>1
  <2>3. \A i \in S : ~(i \in Near(n, c, t - 1) /\ In(i, t))
    BY <1>2, <2>1
  <2> QED BY <1>1, <2>2, <2>3
<1> QED BY <1>1, <1>4, <1>5 DEF S

\* The values of the bands up to t are those of the objects near.
LEMMA BandsAddUp ==
  ASSUME ObjectsInv, NEW n \in GridNumbers, NEW c \in SquaresOf(Grids[n]), NEW W,
         \A u \in 0..max_R : W[u] = TotalOf(Band(n, Coords(rows, Grids[n]), c, u))
  PROVE  \A t \in 0..max_R : SumOf(W, 0..t) = TotalOf(Near(n, c, t))
<1> DEFINE B(u) == Band(n, Coords(rows, Grids[n]), c, u)
           N(u) == Near(n, c, u)
           P == {t \in 0..max_R : SumOf(W, 0..t) # TotalOf(N(t))}
<1> SUFFICES ASSUME P # {} PROVE FALSE
  OBVIOUS
<1>1. PICK t \in P : \A m \in P : t <= m
  <2>1. P \in SUBSET (0..max_R)
    OBVIOUS
  <2> HIDE DEF P
  <2> QED BY <2>1, MaxRAssumption, LeastOf
<1>2. t \in 0..max_R /\ SumOf(W, 0..t) # TotalOf(N(t))
  OBVIOUS
<1>3. \A m \in 0..max_R : m < t => SumOf(W, 0..m) = TotalOf(N(m))
  BY <1>1, MaxRAssumption
<1> HIDE DEF P
<1>4. t \in Nat /\ t <= max_R /\ max_R \in Nat
  BY <1>2, MaxRAssumption
<1>5. /\ N(t) \subseteq DOMAIN rows /\ B(t) \subseteq DOMAIN rows
      /\ t = 0 => N(t) = B(t)
      /\ t > 0 => N(t) = N(t - 1) \cup B(t) /\ N(t - 1) \cap B(t) = {}
  BY <1>2, NearIs
<1>6. W[t] = TotalOf(B(t)) /\ \A u \in 0..t : W[u] \in Int
  <2>1. ASSUME NEW u \in 0..max_R PROVE W[u] \in Int
    <3>1. B(u) \in SUBSET DOMAIN rows
      BY NearIs
    <3>2. TotalOf(B(u)) \in Nat
      BY <3>1, TotalIsNat
    <3> QED BY <3>2
  <2>2. 0..t \subseteq 0..max_R
    BY <1>4
  <2> QED BY <1>2, <2>1, <2>2
<1> HIDE DEF B, N
<1>7. IsFiniteSet(0..t) /\ t \in 0..t
  BY <1>4, 0 \in Int, t \in Int, FS_Interval
<1>8. SumOf(W, 0..t) = W[t] + SumOf(W, (0..t) \ {t})
  <2>1. PICK X : X = 0..t
    OBVIOUS
  <2>2. IsFiniteSet(X) /\ t \in X /\ \A u \in X : W[u] \in Int
    BY <1>6, <1>7, <2>1
  <2>3. SumOf(W, X) = W[t] + SumOf(W, X \ {t})
    BY <2>2, SumRemove
  <2> QED BY <2>1, <2>3
<1>9. CASE t = 0
  <2>1. (0..t) \ {t} = {} /\ SumOf(W, {}) = 0
    <3>1. (0..t) \ {t} = {}
      BY <1>9
    <3> QED BY <3>1, FS_EmptySet, SumStep
  <2>2. PICK x \in Int : x = W[t]
    BY <1>6, <1>7
  <2>3. SumOf(W, 0..t) = W[t]
    <3>1. SumOf(W, 0..t) = x + 0
      BY <1>8, <2>1, <2>2
    <3> QED BY <2>2, <3>1
  <2> QED BY <1>2, <1>5, <1>6, <1>9, <2>3
<1>10. CASE t > 0
  <2>1. (0..t) \ {t} = 0..(t - 1) /\ t - 1 \in 0..max_R /\ t - 1 < t
    BY <1>4, <1>10
  <2>2. SumOf(W, 0..(t - 1)) = TotalOf(N(t - 1))
    BY <1>3, <2>1
  <2>3. TotalOf(N(t)) = TotalOf(N(t - 1)) + TotalOf(B(t))
    <3>1. IsFiniteSet(DOMAIN rows) /\ \A i \in DOMAIN rows : Values[i] \in Int
      BY DEF ObjectsInv, Values
    <3>2. N(t - 1) \in SUBSET DOMAIN rows /\ B(t) \in SUBSET (DOMAIN rows \ N(t - 1))
      BY <1>5, <1>10
    <3>3. SumOf(Values, N(t - 1) \cup B(t)) = SumOf(Values, N(t - 1)) + SumOf(Values, B(t))
      <4>1. PICK v, X : v = Values /\ X = DOMAIN rows
        OBVIOUS
      <4>2. IsFiniteSet(X) /\ (\A i \in X : v[i] \in Int) /\ N(t - 1) \in SUBSET X
        BY <3>1, <3>2, <4>1
      <4>3. \A s \in SUBSET (X \ N(t - 1)) : SumOf(v, N(t - 1) \cup s) = SumOf(v, N(t - 1)) + SumOf(v, s)
        BY <4>2, SumOfUnion
      <4> QED BY <3>2, <4>1, <4>3
    <3>4. /\ TotalOf(N(t - 1)) = SumOf(Values, N(t - 1)) /\ TotalOf(B(t)) = SumOf(Values, B(t))
          /\ TotalOf(N(t)) = SumOf(Values, N(t))
      BY <1>5, <3>1, <3>2, TotalIsSum
    <3> QED BY <1>5, <1>10, <3>3, <3>4
  <2>4. TotalOf(N(t - 1)) \in Nat /\ TotalOf(B(t)) \in Nat
    BY <1>5, <1>10, TotalIsNat
  <2>5. SumOf(W, 0..t) = TotalOf(B(t)) + TotalOf(N(t - 1))
    BY <1>6, <1>8, <2>1, <2>2
  <2> QED BY <1>2, <2>3, <2>4, <2>5
<1> QED BY <1>4, <1>9, <1>10

\* The squares that EnumerateGridCells lists are those of the grid.
LEMMA CellsAre ==
  ASSUME NEW n \in GridNumbers, NEW id \in IdsOf(n)
  PROVE  Cells[n][id] \in SquaresOf(Grids[n])
<1> DEFINE s == Grids[n].side
<1>1. s \in Nat /\ s > 0
  BY GridIs
<1>2. Cells[n][id] = CHOOSE c \in SquaresOf(Grids[n]) : SquareId(c) = id
  BY DEF Cells, GridNumbers
<1>3. id \in 0..(4 * s * s - 1)
  BY DEF IdsOf
<1> HIDE DEF s
<1>4. \E c \in ((-s)..(s - 1)) \X ((-s)..(s - 1)) : SquareId(c) = id
  BY <1>1, <1>3, SquareWithId
<1>5. \E c \in SquaresOf(Grids[n]) : SquareId(c) = id
  BY <1>4 DEF s, SquaresOf
<1> QED BY <1>2, <1>5

\* What a job writes has the type of a table, and sums are natural numbers.
LEMMA ResultIs ==
  ASSUME ObjectsInv, NEW n \in GridNumbers, NEW kept \in Kept(rows, Grids[n], exclude)
  PROVE  LET f == RowsOf(n, kept)
         IN  /\ DOMAIN f \subseteq Nat /\ DOMAIN f \subseteq IdsOf(n)
             /\ \A id \in DOMAIN f :
                  /\ DOMAIN f[id] = 0..max_R
                  /\ \A t \in 0..max_R : f[id][t] \in Int /\ (action = "sum" => f[id][t] \in Nat)
<1> DEFINE f == RowsOf(n, kept)
<1>1. DOMAIN f \subseteq IdsOf(n) /\ \A id \in DOMAIN f : DOMAIN f[id] = 0..max_R
  BY RowsOfIs
<1>2. IdsOf(n) \subseteq Nat
  BY DEF IdsOf
<1>3. ASSUME NEW id \in DOMAIN f, NEW t \in 0..max_R
      PROVE  f[id][t] \in Int /\ (action = "sum" => f[id][t] \in Nat)
  <2> DEFINE B == Band(n, kept, Cells[n][id], t)
  <2>1. f[id][t] = ToInt(B)
    BY <1>1, CellsAre, RowsOfIs
  <2>2. B \in SUBSET DOMAIN rows
    BY KeptIsCoords DEF Band, Coords
  <2> HIDE DEF B, f
  <2> QED BY <2>1, <2>2, ValueIsInt
<1> HIDE DEF f
<1>4. DOMAIN f \subseteq Nat
  BY <1>1, <1>2
<1> QED BY <1>1, <1>3, <1>4 DEF f

\* The fold over the columns is a sum, too.
LEMMA StoredIsSum ==
  ASSUME NEW n, NEW id, NEW t \in 0..max_R
  PROVE  MapThenSumSet(LAMBDA u : Stored(n, id, u), 0..t)
           = SumOf([u \in 0..max_R |-> Stored(n, id, u)], 0..t)
<1> DEFINE W == [u \in 0..max_R |-> Stored(n, id, u)]
           S == 0..t
           F(g) == g = [s \in SUBSET S |->
                          IF s = {} THEN 0
                          ELSE Stored(n, id, CHOOSE i \in s : TRUE) + g[s \ {CHOOSE i \in s : TRUE}]]
           h == CHOOSE g : F(g)
           k == CHOOSE g : Accumulates(W, g, S)
<1>1. MapThenSumSet(LAMBDA u : Stored(n, id, u), 0..t) = h[S]
  BY DEF MapThenSumSet, MapThenFoldSet
<1>2. IsFiniteSet(S) /\ S \subseteq 0..max_R
  BY MaxRAssumption, 0 \in Int, t \in Int, FS_Interval
<1> HIDE DEF S
<1>3. Accumulates(W, k, S) /\ SumOf(W, S) = k[S]
  BY <1>2, SumsExist DEF SumOf
<1>4. ASSUME NEW s \in SUBSET S, s # {}
      PROVE  W[CHOOSE i \in s : TRUE] = Stored(n, id, CHOOSE i \in s : TRUE)
  <2>1. (CHOOSE i \in s : TRUE) \in s
    BY <1>4
  <2> QED BY <1>2, <2>1
<1> HIDE DEF W
<1>5. ASSUME NEW g PROVE F(g) <=> Accumulates(W, g, S)
  <2>1. ASSUME NEW s \in SUBSET S
        PROVE  (IF s = {} THEN 0 ELSE Stored(n, id, CHOOSE i \in s : TRUE)
                                      + g[s \ {CHOOSE i \in s : TRUE}])
             = (IF s = {} THEN 0 ELSE W[CHOOSE i \in s : TRUE]
                                      + g[s \ {CHOOSE i \in s : TRUE}])
    BY <1>4
  <2> QED BY <2>1 DEF Accumulates
<1> HIDE DEF F, k
<1>6. F(h)
  <2>1. \E g : F(g)
    BY <1>3, <1>5
  <2> QED BY <2>1
<1> HIDE DEF h
<1>7. Accumulates(W, h, S)
  BY <1>5, <1>6
<1>8. h[S] = k[S]
  <2>1. PICK v, w, x, y : v = W /\ w = W /\ x = h /\ y = k
    OBVIOUS
  <2>2. /\ Accumulates(v, x, S) /\ Accumulates(w, y, S) /\ S \subseteq S /\ IsFiniteSet(S)
        /\ \A i \in S : v[i] = w[i]
    BY <1>2, <1>3, <1>7, <2>1
  <2>3. x[S] = y[S]
    BY <2>2, SumsAgree
  <2> QED BY <2>1, <2>3
<1> QED BY <1>1, <1>3, <1>8 DEF S, W

-------------------------------------------------------------------------------
(* The contents of the table.                                              *)

\* The rows are those that the objects of the grid make.
IsResult(n, f) == \E kept \in Kept(rows, Grids[n], exclude) : f = RowsOf(n, kept)
ResultInv ==
  /\ ObjectsInv
  /\ \A w \in Workers : Busy(w) => IsResult(job[w].grid, job[w].rows)
  /\ \A n \in DOMAIN table.rows : IsResult(n, table.rows[n])

\* Who copies has seen to it that the columns are wide enough.
WidthInv ==
  /\ table.wide \in BOOLEAN
  /\ \A w \in Workers :
       /\ job[w].phase = "altered" => table.wide
       /\ job[w].phase = "copying" => table.wide \/ ~NeedsWide(job[w].rows)
  /\ action = "sum" => \A n \in DOMAIN lost : lost[n] # "range"

\* The inductive invariant of the contents.
TableInv == AccountInv /\ ResultInv /\ WidthInv

LEMMA TableInvInit == Init => TableInv
<1> SUFFICES ASSUME Init PROVE TableInv
  OBVIOUS
<1>1. PICK q \in Rows : rows = [i \in {k \in DOMAIN q : q[k].value # NoValue} |-> q[i]]
  BY DEF Init
<1> DEFINE R == [at : Int \X Int, value : Nat \cup {NoValue}]
<1>2. q \in Seq(R)
  BY RadiiTableAssumption
<1>3. DOMAIN rows \subseteq 1..Len(q) /\ \A i \in DOMAIN rows : rows[i] \in R /\ rows[i].value # NoValue
  <2> HIDE DEF R
  <2>1. DOMAIN q = 1..Len(q) /\ \A i \in 1..Len(q) : q[i] \in R
    BY <1>2
  <2> QED BY <1>1, <2>1
<1>4. IsFiniteSet(DOMAIN rows)
  <2>1. IsFiniteSet(1..Len(q))
    <3>1. PICK m \in Int : m = Len(q)
      BY <1>2
    <3> QED BY <3>1, 1 \in Int, FS_Interval
  <2> QED BY <1>3, <2>1, FS_Subset
<1>5. \A i \in DOMAIN rows : rows[i].at \in Int \X Int /\ rows[i].value \in Nat
  BY <1>3
<1>6. /\ action \in Actions /\ exclude \in BOOLEAN /\ lost = NoRows
      /\ table.wide = FALSE /\ table.rows = NoRows
      /\ \A w \in Workers : job[w] = Free
  BY DEF Init
<1>7. \A w \in Workers : ~Busy(w) /\ job[w].phase = "free"
  BY <1>6 DEF Busy, Free
<1>8. ResultInv
  BY <1>4, <1>5, <1>6, <1>7, NoRowsIsEmpty DEF ResultInv, ObjectsInv
<1>9. WidthInv
  BY <1>6, <1>7, NoRowsIsEmpty DEF WidthInv
<1> QED BY <1>8, <1>9, AccountInvInit DEF TableInv

\* No step changes what the results depend on.
LEMMA SameInput ==
  ASSUME Next
  PROVE  rows' = rows /\ action' = action /\ exclude' = exclude
<1>1. ASSUME NEW w \in Workers, Work(w) \/ Disconnect(w) \/ Refused(w)
      PROVE  rows' = rows /\ action' = action /\ exclude' = exclude
  BY <1>1 DEF Work, Disconnect, Refused, Take, Overrun, Die, StartAlter, CommitAlter, StartCopy,
              CommitCopy, CopyOutOfRange, Lose
<1> QED BY <1>1 DEF Next, Main, ResetTable, ResetFails, Post, EndWork, Join

LEMMA SameResults ==
  ASSUME rows' = rows, action' = action, exclude' = exclude
  PROVE  /\ ObjectsInv' <=> ObjectsInv
         /\ \A n, f : IsResult(n, f)' <=> IsResult(n, f)
<1>1. ObjectsInv' <=> ObjectsInv
  BY DEF ObjectsInv
<1>2. ASSUME NEW S PROVE TotalOf(S)' = TotalOf(S)
  BY DEF TotalOf, MapThenSumSet, MapThenFoldSet, ValueOf
<1>3. ASSUME NEW S PROVE ToInt(S)' = ToInt(S) /\ IsDefault(S)' = IsDefault(S)
  BY <1>2 DEF ToInt, IsDefault
<1>4. ASSUME NEW n, NEW kept PROVE RowsOf(n, kept)' = RowsOf(n, kept)
  BY <1>3 DEF RowsOf
<1> QED BY <1>1, <1>4 DEF IsResult

\* The invariant survives where each job and each grid of the table is as it was
\* or as new as the step makes it.
LEMMA ContentsKeep ==
  ASSUME TableInv, AccountInv', rows' = rows, action' = action, exclude' = exclude,
         NEW w \in Workers,
         \A u \in Workers \ {w} : job'[u] = job[u],
         job'[w].phase # "free" => IsResult(job'[w].grid, job'[w].rows),
         table.wide => table'.wide, table'.wide \in BOOLEAN,
         \A n \in DOMAIN table'.rows :
           \/ n \in DOMAIN table.rows /\ table'.rows[n] = table.rows[n]
           \/ IsResult(n, table'.rows[n]),
         job'[w].phase = "altered" => table'.wide,
         job'[w].phase = "copying" => table'.wide \/ ~NeedsWide(job'[w].rows),
         action = "sum" => \A n \in DOMAIN lost' : lost'[n] # "range"
  PROVE  TableInv'
<1>1. ObjectsInv' /\ \A n, f : IsResult(n, f)' <=> IsResult(n, f)
  BY SameResults DEF TableInv, ResultInv
<1>2. \A n \in DOMAIN table'.rows : IsResult(n, table'.rows[n])
  BY DEF TableInv, ResultInv
<1>3. \A u \in Workers : job'[u].phase # "free" => IsResult(job'[u].grid, job'[u].rows)
  BY DEF TableInv, ResultInv, Busy
<1>4. ResultInv'
  BY <1>1, <1>2, <1>3 DEF ResultInv, Busy
<1>5. \A u \in Workers : /\ job'[u].phase = "altered" => table'.wide
                         /\ job'[u].phase = "copying" => table'.wide \/ ~NeedsWide(job'[u].rows)
  BY DEF TableInv, WidthInv
<1>6. ASSUME NEW u \in Workers PROVE NeedsWide(job[u].rows)' <=> NeedsWide(job'[u].rows)
  BY DEF NeedsWide, ValuesIn
<1>7. WidthInv'
  BY <1>5, <1>6 DEF WidthInv
<1> QED BY <1>4, <1>7 DEF TableInv

\* Steps that leave the jobs, the columns and the lost alone, or end the jobs.
LEMMA IdleKeeps ==
  ASSUME TableInv, AccountInv', rows' = rows, action' = action, exclude' = exclude,
         table'.wide \in BOOLEAN,
         \A n \in DOMAIN table'.rows : n \in DOMAIN table.rows /\ table'.rows[n] = table.rows[n],
         lost' = lost,
         \/ job' = job /\ table' = table
         \/ \A w \in Workers : job'[w].phase = "free"
  PROVE  TableInv'
<1>1. ObjectsInv' /\ \A n, f : IsResult(n, f)' <=> IsResult(n, f)
  BY SameResults DEF TableInv, ResultInv
<1>2. ResultInv'
  BY <1>1 DEF TableInv, ResultInv, Busy
<1>3. WidthInv'
  <2>1. CASE job' = job /\ table' = table
    BY <2>1 DEF TableInv, WidthInv, NeedsWide, ValuesIn
  <2>2. CASE \A w \in Workers : job'[w].phase = "free"
    BY <2>2 DEF TableInv, WidthInv
  <2> QED BY <2>1, <2>2
<1> QED BY <1>2, <1>3 DEF TableInv

\* A value that does not fit into a narrow column is one of averages.
LEMMA OnlyAverages ==
  ASSUME TableInv, NEW w \in Workers, CopyOutOfRange(w)
  PROVE  action # "sum"
<1> SUFFICES ASSUME action = "sum" PROVE FALSE
  OBVIOUS
<1> DEFINE f == job[w].rows
           n == job[w].grid
<1>1. job[w].phase = "copying" /\ ~Fits(f) /\ Busy(w)
  BY DEF CopyOutOfRange, Busy
<1>2. ~table.wide /\ ~NeedsWide(f)
  BY <1>1 DEF Fits, TableInv, WidthInv
<1>3. PICK v \in ValuesIn(f) : v \notin (-SmallMax - 1)..SmallMax
  BY <1>1 DEF Fits
<1>4. PICK kept \in Kept(rows, Grids[n], exclude) : f = RowsOf(n, kept)
  BY <1>1 DEF TableInv, ResultInv, IsResult
<1>5. n \in GridNumbers
  BY <1>1, Numbers DEF TableInv, AccountInv, PlaceInv, GridNumbers
<1> HIDE DEF f, n
<1>6. PICK id \in DOMAIN f, t \in 0..max_R : v = f[id][t]
  BY <1>3 DEF ValuesIn
<1>7. v \in Nat
  BY <1>4, <1>5, <1>6, ResultIs DEF TableInv, ResultInv
<1>8. SmallMax \in Nat
  BY RadiiTableAssumption
<1>9. ~(v >= SmallMax + 1)
  BY <1>2, <1>3 DEF NeedsWide
<1> QED BY <1>3, <1>7, <1>8, <1>9

LEMMA ContentsNext == TableInv /\ Next => TableInv'
<1> SUFFICES ASSUME TableInv, Next PROVE TableInv'
  OBVIOUS
<1>0. rows' = rows /\ action' = action /\ exclude' = exclude
  BY SameInput
<1>1. AccountInv'
  BY AccountInvNext DEF TableInv
<1>2. table = [wide |-> table.wide, rows |-> table.rows] /\ table.wide \in BOOLEAN
  BY DEF TableInv, AccountInv, ShapeInv, WidthInv
<1>3. CASE ResetTable
  <2>1. table'.rows = NoRows /\ table'.wide = FALSE /\ job' = job /\ lost' = lost
    BY <1>3 DEF ResetTable
  <2>2. \A w \in Workers : job'[w].phase = "free"
    BY <1>3, <2>1 DEF TableInv, AccountInv, MainInv, ResetTable, Busy
  <2> QED BY <1>0, <1>1, <2>1, <2>2, NoRowsIsEmpty, IdleKeeps
<1>4. CASE ResetFails \/ Post \/ EndWork \/ Join
  BY <1>0, <1>1, <1>2, <1>4, IdleKeeps DEF ResetFails, Post, EndWork, Join
<1>5. ASSUME NEW w \in Workers, Take(w) PROVE TableInv'
  <2>1. PICK kept \in Kept(rows, Grids[Head(queue)], exclude) :
          job' = [job EXCEPT ![w] = [phase |-> "calculated", grid |-> Head(queue), kept |-> kept,
                                     rows |-> RowsOf(Head(queue), kept)]]
    BY <1>5 DEF Take
  <2> DEFINE new == [phase |-> "calculated", grid |-> Head(queue), kept |-> kept,
                     rows |-> RowsOf(Head(queue), kept)]
  <2>2. table' = table /\ lost' = lost
    BY <1>5 DEF Take
  <2>3. job'[w] = new /\ \A u \in Workers \ {w} : job'[u] = job[u]
    <3> HIDE DEF new
    <3>1. job = [u \in Workers |-> job[u]]
      BY DEF TableInv, AccountInv, ShapeInv
    <3>2. job' = [job EXCEPT ![w] = new]
      BY <2>1 DEF new
    <3>3. job' = [u \in Workers |-> IF u = w THEN new ELSE job[u]]
      BY <3>1, <3>2
    <3> QED BY <3>3
  <2>4. job'[w].phase = "calculated" /\ IsResult(job'[w].grid, job'[w].rows)
    <3>1. new.phase = "calculated" /\ new.grid = Head(queue) /\ new.rows = RowsOf(Head(queue), kept)
      OBVIOUS
    <3> HIDE DEF new
    <3> QED BY <2>3, <3>1 DEF IsResult
  <2> QED BY <1>0, <1>1, <1>2, <2>2, <2>3, <2>4, ContentsKeep DEF TableInv, WidthInv
<1>6. ASSUME NEW w \in Workers, NEW p \in Phases, Busy(w), job' = [job EXCEPT ![w].phase = p],
             lost' = lost, table'.rows = table.rows, table'.wide \in BOOLEAN,
             table.wide => table'.wide,
             p = "altered" => table'.wide,
             p = "copying" => table'.wide \/ ~NeedsWide(job[w].rows)
      PROVE  TableInv'
  <2>1. /\ job'[w].phase = p /\ job'[w].grid = job[w].grid /\ job'[w].rows = job[w].rows
        /\ \A u \in Workers \ {w} : job'[u] = job[u]
    BY <1>6, PhaseChange DEF TableInv, AccountInv
  <2>2. IsResult(job'[w].grid, job'[w].rows)
    BY <1>6, <2>1 DEF TableInv, ResultInv
  <2> QED BY <1>0, <1>1, <1>6, <2>1, <2>2, ContentsKeep DEF TableInv, WidthInv
<1>7. ASSUME NEW w \in Workers, StartAlter(w) PROVE TableInv'
  <2>1. Busy(w) /\ "altering" \in Phases
    BY <1>7 DEF StartAlter, Busy, Phases
  <2> QED BY <1>2, <1>6, <1>7, <2>1 DEF StartAlter
<1>8. ASSUME NEW w \in Workers, CommitAlter(w) PROVE TableInv'
  <2>1. Busy(w) /\ "altered" \in Phases
    BY <1>8 DEF CommitAlter, Busy, Phases
  <2>2. table' = [wide |-> TRUE, rows |-> table.rows]
    BY <1>2, <1>8 DEF CommitAlter
  <2>3. table'.rows = table.rows /\ table'.wide = TRUE
    BY <2>2
  <2> QED BY <1>6, <1>8, <2>1, <2>3 DEF CommitAlter
<1>9. ASSUME NEW w \in Workers, StartCopy(w) PROVE TableInv'
  <2>1. Busy(w) /\ "copying" \in Phases
    BY <1>9 DEF StartCopy, Busy, Phases
  <2>2. table.wide \/ ~NeedsWide(job[w].rows)
    BY <1>9 DEF StartCopy, TableInv, WidthInv
  <2> QED BY <1>2, <1>6, <1>9, <2>1, <2>2 DEF StartCopy
<1>10. ASSUME NEW w \in Workers, job' = [job EXCEPT ![w] = Free]
       PROVE  job'[w].phase = "free" /\ \A u \in Workers \ {w} : job'[u] = job[u]
  <2>1. job = [u \in Workers |-> job[u]]
    BY DEF TableInv, AccountInv, ShapeInv
  <2>2. job' = [u \in Workers |-> IF u = w THEN Free ELSE job[u]]
    BY <1>10, <2>1
  <2>3. Free.phase = "free"
    BY DEF Free
  <2> QED BY <2>2, <2>3
<1>11. ASSUME NEW w \in Workers, CommitCopy(w) PROVE TableInv'
  <2> DEFINE f == [n \in DOMAIN table.rows \cup {job[w].grid} |->
                     IF n = job[w].grid THEN job[w].rows ELSE table.rows[n]]
  <2>1. table' = [table EXCEPT !.rows = f] /\ lost' = lost /\ job' = [job EXCEPT ![w] = Free]
    BY <1>11 DEF CommitCopy
  <2>2. IsResult(job[w].grid, job[w].rows)
    BY <1>11 DEF CommitCopy, TableInv, ResultInv, Busy
  <2>3. \A n \in DOMAIN f : \/ n \in DOMAIN table.rows /\ f[n] = table.rows[n]
                           \/ IsResult(n, f[n])
    BY <2>2
  <2> HIDE DEF f
  <2>4. table' = [wide |-> table.wide, rows |-> f]
    BY <1>2, <2>1
  <2>5. table'.rows = f /\ table'.wide = table.wide
    BY <2>4
  <2> QED BY <1>0, <1>1, <1>2, <1>10, <2>1, <2>3, <2>5, ContentsKeep DEF TableInv, WidthInv
<1>12. ASSUME NEW w \in Workers, NEW why, Lose(w, why), why = "range" => action # "sum"
       PROVE  TableInv'
  <2>1. table' = table /\ job' = [job EXCEPT ![w] = Free]
    BY <1>12 DEF Lose
  <2>2. action = "sum" => \A n \in DOMAIN lost' : lost'[n] # "range"
    BY <1>12 DEF Lose, TableInv, WidthInv
  <2> QED BY <1>0, <1>1, <1>2, <1>10, <2>1, <2>2, ContentsKeep DEF TableInv, ResultInv, WidthInv
<1>13. ASSUME NEW w \in Workers, CopyOutOfRange(w) PROVE TableInv'
  BY <1>12, <1>13, OnlyAverages DEF CopyOutOfRange
<1>14. ASSUME NEW w \in Workers, Refused(w) PROVE TableInv'
  BY <1>12, <1>14 DEF Refused
<1>15. CASE Die
  <2>1. table' = table /\ lost' = lost /\ \A w \in Workers : job'[w].phase = "free"
    BY <1>15 DEF Die, Free
  <2> QED BY <1>0, <1>1, <1>2, <2>1, IdleKeeps
<1>16. ASSUME NEW w \in Workers, Overrun(w) \/ Disconnect(w) PROVE TableInv'
  BY <1>15, <1>16 DEF Overrun, Disconnect
<1> QED BY <1>3, <1>4, <1>5, <1>7, <1>8, <1>9, <1>11, <1>13, <1>14, <1>16 DEF Next, Main, Work

LEMMA TableInvHolds == Spec => []TableInv
<1>1. TableInv /\ UNCHANGED vars => TableInv'
  <2> SUFFICES ASSUME TableInv, UNCHANGED vars PROVE TableInv'
    OBVIOUS
  <2>1. /\ rows' = rows /\ action' = action /\ exclude' = exclude /\ table' = table
        /\ job' = job /\ lost' = lost
    BY DEF vars
  <2>2. AccountInv'
    BY AccountInvNext DEF TableInv
  <2> QED BY <2>1, <2>2, IdleKeeps DEF TableInv, WidthInv
<1>2. TableInv /\ [Next]_vars => TableInv'
  BY <1>1, ContentsNext
<1> QED BY <1>2, TableInvInit, PTL DEF Spec

-------------------------------------------------------------------------------
(* Theorems.                                                               *)

\* When the pool has been joined, each grid has its rows in the table or an
\* error was logged for it, and not both: no job is dropped or run twice, for
\* any number of threads and grids and whatever the database refuses.
THEOREM EveryGridAccounted == Spec => []GridsAccounted
<1>1. AccountInv => GridsAccounted
  <2> SUFFICES ASSUME AccountInv, main = "finished", posted = NumGrids, Workers # {},
                      NEW n \in GridNumbers
               PROVE  (n \in DOMAIN table.rows) # (n \in DOMAIN lost)
    BY DEF GridsAccounted
  <2>1. queue = <<>> /\ \A w \in Workers : ~Busy(w)
    BY DEF AccountInv, MainInv
  <2>2. Taken = NumGrids
    <3>1. Len(queue) = 0
      BY <2>1
    <3> QED BY <3>1, Numbers DEF Taken
  <2>3. n \in DOMAIN table.rows \cup DOMAIN lost
    BY <2>1, <2>2 DEF AccountInv, CoverInv, GridNumbers
  <2>4. ~(n \in DOMAIN table.rows /\ n \in DOMAIN lost)
    BY DEF AccountInv, PlaceInv
  <2> QED BY <2>3, <2>4, Zenon
<1> QED BY <1>1, AccountInvHolds, PTL

\* Once the table has been created, rows that are committed are never changed or
\* removed and columns that were widened stay wide.
THEOREM CommittedRowsStay == Spec => RowsStay
<1> DEFINE Stay == main # "reading" =>
             /\ table.wide => table'.wide
             /\ \A n \in DOMAIN table.rows :
                  n \in DOMAIN table'.rows /\ table'.rows[n] = table.rows[n]
<1>1. AccountInv /\ [Next]_vars => Stay
  <2> SUFFICES ASSUME AccountInv, [Next]_vars, main # "reading" PROVE Stay
    OBVIOUS
  <2>0. table = [wide |-> table.wide, rows |-> table.rows]
    BY DEF AccountInv, ShapeInv
  <2>1. CASE table' = table
    BY <2>1
  <2>2. ASSUME NEW w \in Workers, CommitAlter(w) PROVE Stay
    <3>1. table' = [wide |-> TRUE, rows |-> table.rows]
      BY <2>0, <2>2 DEF CommitAlter
    <3>2. table'.wide = TRUE /\ table'.rows = table.rows
      BY <3>1
    <3> QED BY <3>2
  <2>3. ASSUME NEW w \in Workers, CommitCopy(w) PROVE Stay
    <3> DEFINE f == [n \in DOMAIN table.rows \cup {job[w].grid} |->
                       IF n = job[w].grid THEN job[w].rows ELSE table.rows[n]]
    <3>1. table' = [table EXCEPT !.rows = f]
      BY <2>3 DEF CommitCopy
    <3>2. job[w].grid \notin DOMAIN table.rows
      BY <2>3 DEF AccountInv, PlaceInv, Busy, CommitCopy
    <3>3. \A n \in DOMAIN table.rows : n \in DOMAIN f /\ f[n] = table.rows[n]
      BY <3>2
    <3> HIDE DEF f
    <3>4. table' = [wide |-> table.wide, rows |-> f]
      BY <2>0, <3>1
    <3>5. table'.wide = table.wide /\ table'.rows = f
      BY <3>4
    <3> QED BY <3>3, <3>5
  <2>4. \/ table' = table
        \/ \E w \in Workers : CommitAlter(w) \/ CommitCopy(w)
    BY DEF Next, Main, ResetTable, ResetFails, Post, EndWork, Join, Work, Take, Overrun,
           Disconnect, Die, StartAlter, StartCopy, CopyOutOfRange, Refused, Lose, vars
  <2> QED BY <2>1, <2>2, <2>3, <2>4
<1>2. AccountInv /\ [Next]_vars => [Stay]_vars
  BY <1>1
<1>3. Spec => []AccountInv
  BY AccountInvHolds
<1> QED BY <1>2, <1>3, PTL DEF RowsStay, Spec

\* The rows of a grid are numbered by its squares, have a column for every radius,
\* and jobs run only between the posting and the joining of the main thread.
THEOREM TypeCorrect == Spec => []TypeOK
<1>1. TableInv => TypeOK
  <2> SUFFICES ASSUME TableInv PROVE TypeOK
    OBVIOUS
  <2>1. /\ posted \in Nat /\ Taken <= posted /\ Taken \in Nat /\ NumGrids \in Nat
        /\ posted <= NumGrids /\ Len(queue) \in Nat
    BY Numbers DEF TableInv
  <2>2. ASSUME NEW n \in GridNumbers, NEW f, IsResult(n, f)
        PROVE  RowsType(f) /\ DOMAIN f \subseteq IdsOf(n)
    <3>1. PICK kept \in Kept(rows, Grids[n], exclude) : f = RowsOf(n, kept)
      BY <2>2 DEF IsResult
    <3> QED BY <3>1, ResultIs DEF TableInv, ResultInv, RowsType
  <2>3. action \in Actions /\ exclude \in BOOLEAN /\ table.wide \in BOOLEAN
    BY DEF TableInv, ResultInv, ObjectsInv, WidthInv
  <2>4. /\ main \in {"reading", "posting", "joining", "finished", "dead"}
        /\ posted \in 0..NumGrids
    BY DEF TableInv, AccountInv, ShapeInv
  <2>5. queue \in Seq(GridNumbers)
    <3>1. queue \in Seq(Nat) /\ \A i \in 1..Len(queue) : queue[i] = Taken + i
      BY DEF TableInv, AccountInv, ShapeInv, QueueInv
    <3>2. \A i \in 1..Len(queue) : queue[i] \in GridNumbers
      BY <2>1, <3>1 DEF Taken, GridNumbers
    <3> QED BY <3>1, <3>2
  <2>6. ASSUME NEW w \in Workers
        PROVE  /\ job[w].phase \in {"free", "calculated", "altering", "altered", "copying"}
               /\ job[w].phase # "free" => /\ main \in {"posting", "joining"}
                                           /\ job[w].grid \in 1..posted /\ RowsType(job[w].rows)
    <3>1. job[w].phase \in {"free", "calculated", "altering", "altered", "copying"}
      BY DEF TableInv, AccountInv, ShapeInv, IsJob, Phases
    <3>2. ASSUME Busy(w)
          PROVE  /\ main \in {"posting", "joining"}
                 /\ job[w].grid \in 1..posted /\ RowsType(job[w].rows)
      <4>1. job[w].grid \in 1..posted /\ job[w].grid \in GridNumbers
        BY <2>1, <3>2 DEF TableInv, AccountInv, PlaceInv, GridNumbers
      <4> QED BY <2>2, <3>2, <4>1, BusyMain DEF TableInv, ResultInv
    <3> QED BY <3>1, <3>2 DEF Busy
  <2>7. DOMAIN table.rows \subseteq 1..posted /\ DOMAIN lost \subseteq 1..posted
    BY <2>1 DEF TableInv, AccountInv, PlaceInv
  <2>8. \A n \in DOMAIN table.rows : RowsType(table.rows[n]) /\ DOMAIN table.rows[n] \subseteq IdsOf(n)
    BY <2>1, <2>2, <2>7 DEF TableInv, ResultInv, GridNumbers
  <2> QED BY <2>3, <2>4, <2>5, <2>6, <2>7, <2>8 DEF TypeOK
<1> QED BY <1>1, TableInvHolds, PTL

\* No grid of sums is lost because a value is out of the range of its column,
\* whichever job has made the columns wider for which.
THEOREM SumsAreInRange == Spec => []SumsFit
<1>1. TableInv => SumsFit
  BY DEF TableInv, WidthInv, SumsFit
<1> QED BY <1>1, TableInvHolds, PTL

\* On any grid, the columns up to a radius hold together the values of the objects
\* whose squares end within that distance, the squares without a row included.
THEOREM ColumnsAreDistances == Spec => []RingsAreDistances
<1>1. TableInv => RingsAreDistances
  <2> SUFFICES ASSUME TableInv, action = "sum", ~exclude,
                      NEW n \in DOMAIN table.rows, NEW id \in IdsOf(n), NEW t \in 0..max_R
               PROVE  MapThenSumSet(LAMBDA u : Stored(n, id, u), 0..t)
                        = TotalOf(Near(n, Cells[n][id], t))
    BY DEF RingsAreDistances
  <2>1. n \in GridNumbers /\ ObjectsInv
    BY Numbers DEF TableInv, AccountInv, PlaceInv, ResultInv, GridNumbers
  <2> DEFINE c == Cells[n][id]
             W == [u \in 0..max_R |-> Stored(n, id, u)]
             S == Coords(rows, Grids[n])
  <2>2. c \in SquaresOf(Grids[n])
    BY <2>1, CellsAre
  <2>3. table.rows[n] = RowsOf(n, S)
    BY KeptIsCoords DEF TableInv, ResultInv, IsResult
  <2>4. ASSUME NEW u \in 0..max_R PROVE W[u] = TotalOf(Band(n, S, c, u))
    <3> DEFINE f == RowsOf(n, S)
    <3>1. CASE id \in DOMAIN f
      <4>1. f[id][u] = ToInt(Band(n, S, c, u))
        BY <2>1, <2>2, <3>1, RowsOfIs
      <4> QED BY <2>3, <3>1, <4>1 DEF Stored, ToInt
    <3>2. CASE id \notin DOMAIN f
      <4>1. IsDefault(Band(n, S, c, u))
        BY <2>1, <2>2, <3>2, RowsOfIs
      <4> QED BY <2>3, <3>2, <4>1 DEF Stored, IsDefault
    <3> QED BY <3>1, <3>2
  <2> HIDE DEF c, W
  <2>5. SumOf(W, 0..t) = TotalOf(Near(n, c, t))
    BY <2>1, <2>2, <2>4, BandsAddUp
  <2>6. MapThenSumSet(LAMBDA u : Stored(n, id, u), 0..t) = SumOf(W, 0..t)
    BY StoredIsSum DEF W
  <2> QED BY <2>5, <2>6 DEF c
<1> QED BY <1>1, TableInvHolds, PTL

-------------------------------------------------------------------------------
(* RadiiTable implements RadiiPromise.  Most steps of the threads are      *)
(* stutters of the promise; resetting the table begins it, a commit writes *)
(* a grid, a logged error gives one up.  AccountInv says that the grid was *)
(* still pending and that none is when the pool has been joined, which it  *)
(* is only after all jobs were posted.                                     *)

PostedInv == main = "joining" => posted = NumGrids

LEMMA PostedInvHolds == Spec => []PostedInv
<1>1. Init => PostedInv
  BY DEF Init, PostedInv
<1>2. PostedInv /\ [Next]_vars => PostedInv'
  <2> SUFFICES ASSUME PostedInv, [Next]_vars, main' = "joining" PROVE posted' = NumGrids
    BY DEF PostedInv, NumGrids
  <2>1. CASE EndWork
    BY <2>1 DEF EndWork
  <2>2. CASE main' = main /\ posted' = posted
    BY <2>2 DEF PostedInv
  <2>3. EndWork \/ (main' = main /\ posted' = posted) \/ main' # "joining"
    <3>1. CASE Main
      BY <3>1 DEF Main, ResetTable, Post, EndWork, Join
    <3>2. CASE ResetFails
      BY <3>2 DEF ResetFails
    <3>3. CASE \E w \in Workers : Work(w) \/ Disconnect(w) \/ Refused(w)
      BY <3>3 DEF Work, Take, Overrun, Disconnect, Die, StartAlter, CommitAlter, StartCopy,
             CommitCopy, CopyOutOfRange, Refused, Lose
    <3>4. CASE UNCHANGED vars
      BY <3>4 DEF vars
    <3> QED BY <3>1, <3>2, <3>3, <3>4 DEF Next
  <2> QED BY <2>1, <2>2, <2>3
<1> QED BY <1>1, <1>2, PTL DEF Spec

LEMMA PromiseBegins == Init => Promise!Init
<1> SUFFICES ASSUME Init PROVE Promise!Init
  OBVIOUS
<1>1. main = "reading" /\ lost = NoRows /\ table = [wide |-> FALSE, rows |-> NoRows]
  BY DEF Init
<1>2. table.rows = NoRows /\ Progress = "asked"
  BY <1>1 DEF Progress
<1> QED BY <1>1, <1>2, NoRowsIsEmpty DEF Promise!Init

-------------------------------------------------------------------------------
(* Steps.                                                                  *)

\* A step that keeps the phase, the rows and the errors is a stutter.
LEMMA Stutters ==
  ASSUME Progress' = Progress, table'.rows = table.rows, lost' = lost
  PROVE  UNCHANGED Promise!vars
BY DEF Promise!vars

LEMMA Runs ==
  ASSUME main \in {"posting", "joining"}
  PROVE  Progress = "running"
BY DEF Progress

LEMMA MainImplements ==
  ASSUME AccountInv, PostedInv, Workers # {}, Main \/ ResetFails
  PROVE  [Promise!Next]_(Promise!vars)
<1>1. CASE ResetTable
  <2>1. /\ main = "reading" /\ main' = "posting" /\ lost' = lost
        /\ table' = [wide |-> FALSE, rows |-> NoRows]
    BY <1>1 DEF ResetTable
  <2>2. table'.rows = NoRows /\ Progress = "asked" /\ Progress' = "running"
    BY <2>1 DEF Progress
  <2>3. Promise!Begin
    BY <2>1, <2>2, NoRowsIsEmpty DEF Promise!Begin
  <2> QED BY <2>3 DEF Promise!Next
<1>2. CASE ResetFails
  <2>1. /\ main = "reading" /\ main' \in {"finished", "dead"} /\ lost' = lost /\ table' = table
    BY <1>2 DEF ResetFails
  <2>2. Progress = "asked" /\ Progress' \in {"ended", "dead"}
    BY <2>1 DEF Progress
  <2>3. Promise!Refuse \/ Promise!Die
    BY <2>1, <2>2 DEF Promise!Refuse, Promise!Die
  <2> QED BY <2>3 DEF Promise!Next
<1>3. CASE Post \/ EndWork
  <2>1. /\ main = "posting" /\ main' \in {"posting", "joining"} /\ lost' = lost
        /\ table' = table
    BY <1>3 DEF Post, EndWork
  <2>2. Progress' = Progress
    BY <2>1 DEF Progress
  <2> QED BY <2>1, <2>2, Stutters
<1>4. CASE Join
  <2>1. /\ main = "joining" /\ main' = "finished" /\ lost' = lost /\ table' = table
        /\ queue = <<>> /\ \A w \in Workers : ~Busy(w)
    BY <1>4 DEF Join, Busy
  <2>2. Progress = "running" /\ Progress' = "ended"
    BY <2>1 DEF Progress
  <2>3. Taken = NumGrids
    <3>1. Len(queue) = 0 /\ posted = NumGrids
      BY <2>1 DEF PostedInv
    <3> QED BY <3>1, Numbers DEF Taken
  <2>4. ASSUME NEW n \in GridNumbers PROVE ~Promise!Pending(n)
    <3>1. n \in DOMAIN table.rows \cup DOMAIN lost
      BY <2>1, <2>3 DEF AccountInv, CoverInv, GridNumbers
    <3> QED BY <3>1 DEF Promise!Pending
  <2>5. Promise!End
    BY <2>1, <2>2, <2>4 DEF Promise!End
  <2> QED BY <2>5 DEF Promise!Next
<1> QED BY <1>1, <1>2, <1>3, <1>4 DEF Main

\* The grid of a job is pending.
LEMMA BusyIsPending ==
  ASSUME AccountInv, NEW w \in Workers, Busy(w)
  PROVE  /\ job[w].grid \in GridNumbers /\ Promise!Pending(job[w].grid)
         /\ Progress = "running"
<1>1. job[w].grid \in 1..Taken /\ job[w].grid \notin DOMAIN table.rows \cup DOMAIN lost
  BY DEF AccountInv, PlaceInv
<1>2. job[w].grid \in GridNumbers
  BY <1>1, Numbers DEF GridNumbers
<1> QED BY <1>1, <1>2, BusyMain, Runs DEF Promise!Pending

\* The process ends only while the calculation runs.
LEMMA DieImplements ==
  ASSUME AccountInv, Progress = "running", Die
  PROVE  Promise!Next
<1>1. main' = "dead" /\ table' = table /\ lost' = lost
  BY DEF Die
<1>2. Progress' = "dead"
  BY <1>1 DEF Progress
<1>3. Promise!Die
  BY <1>1, <1>2 DEF Promise!Die
<1> QED BY <1>3 DEF Promise!Next

LEMMA WorkImplements ==
  ASSUME AccountInv, Workers # {}, NEW w \in Workers, Work(w) \/ Disconnect(w) \/ Refused(w)
  PROVE  [Promise!Next]_(Promise!vars)
<1>0. table = [wide |-> table.wide, rows |-> table.rows]
  BY DEF AccountInv, ShapeInv
<1> DEFINE n == job[w].grid
<1>1. CASE Take(w) \/ StartAlter(w) \/ StartCopy(w)
  <2>1. main' = main /\ table' = table /\ lost' = lost
    BY <1>1 DEF Take, StartAlter, StartCopy
  <2> QED BY <2>1, Stutters DEF Progress
<1>2. CASE CommitAlter(w)
  <2>1. main' = main /\ lost' = lost /\ table' = [wide |-> TRUE, rows |-> table.rows]
    BY <1>0, <1>2 DEF CommitAlter
  <2>2. table'.rows = table.rows
    BY <2>1
  <2> QED BY <2>1, <2>2, Stutters DEF Progress
<1>3. CASE Overrun(w)
  <2>1. main # "dead" /\ queue # <<>> /\ Die
    BY <1>3 DEF Overrun, Alive
  <2>2. main \notin {"finished", "dead", "reading"}
    <3>1. Len(queue) # 0
      BY <2>1, Numbers
    <3>2. main # "reading"
      BY <3>1, Numbers DEF AccountInv, MainInv, QueueInv
    <3> QED BY <2>1, <3>2 DEF AccountInv, MainInv
  <2>3. Progress = "running"
    BY <2>2, Runs DEF AccountInv, ShapeInv
  <2> QED BY <2>1, <2>3, DieImplements
<1>4. CASE Disconnect(w)
  BY <1>4, BusyIsPending, DieImplements DEF Disconnect, Busy
<1>5. CASE CommitCopy(w)
  <2> DEFINE f == [k \in DOMAIN table.rows \cup {n} |-> IF k = n THEN job[w].rows ELSE table.rows[k]]
  <2>1. /\ main' = main /\ lost' = lost /\ table' = [table EXCEPT !.rows = f] /\ Busy(w)
    BY <1>5 DEF CommitCopy, Busy
  <2>2. n \in GridNumbers /\ Promise!Pending(n) /\ Progress = "running" /\ Progress' = "running"
    BY <2>1, BusyIsPending DEF Progress
  <2>3. /\ DOMAIN f = DOMAIN table.rows \cup {n}
        /\ \A k \in DOMAIN table.rows : f[k] = table.rows[k]
    BY <2>2 DEF Promise!Pending
  <2> HIDE DEF f, n
  <2>4. table' = [wide |-> table.wide, rows |-> f]
    BY <1>0, <2>1
  <2>5. table'.rows = f
    BY <2>4
  <2>6. Promise!Write(n)
    BY <2>1, <2>2, <2>3, <2>5 DEF Promise!Write
  <2> QED BY <2>2, <2>6 DEF Promise!Next
<1>6. ASSUME NEW why, Busy(w), Lose(w, why) PROVE Promise!Next
  <2>1. main' = main /\ table' = table /\ DOMAIN lost' = DOMAIN lost \cup {n}
    BY <1>6 DEF Lose
  <2>2. n \in GridNumbers /\ Promise!Pending(n) /\ Progress = "running" /\ Progress' = "running"
    BY <2>1, <1>6, BusyIsPending DEF Progress
  <2> HIDE DEF n
  <2>3. Promise!GiveUp(n)
    BY <2>1, <2>2 DEF Promise!GiveUp
  <2> QED BY <2>2, <2>3 DEF Promise!Next
<1>7. CASE CopyOutOfRange(w)
  BY <1>6, <1>7 DEF CopyOutOfRange, Busy
<1>8. CASE Refused(w)
  <2>1. Busy(w)
    BY <1>8 DEF Refused, Busy
  <2> QED BY <2>1, <1>6, <1>8 DEF Refused
<1> QED BY <1>1, <1>2, <1>3, <1>4, <1>5, <1>7, <1>8 DEF Work

-------------------------------------------------------------------------------
(* Theorem.                                                                *)

\* With at least one thread, every behaviour of the calculation keeps the promise:
\* readers of the table and of the log need not know of threads, locks, columns that
\* are made wider, or the order of the jobs.
THEOREM TheTableKeepsItsPromise ==
  ASSUME Workers # {}
  PROVE  Spec => PromiseIsKept
<1>1. AccountInv /\ PostedInv /\ [Next]_vars => [Promise!Next]_(Promise!vars)
  <2> SUFFICES ASSUME AccountInv, PostedInv, [Next]_vars
               PROVE  [Promise!Next]_(Promise!vars)
    OBVIOUS
  <2>1. CASE Main \/ ResetFails
    BY <2>1, MainImplements
  <2>2. CASE \E w \in Workers : Work(w) \/ Disconnect(w) \/ Refused(w)
    BY <2>2, WorkImplements
  <2>3. CASE UNCHANGED vars
    BY <2>3, Stutters DEF vars, Progress
  <2> QED BY <2>1, <2>2, <2>3 DEF Next
<1> QED BY <1>1, PromiseBegins, AccountInvHolds, PostedInvHolds, PTL
        DEF Spec, PromiseIsKept, Promise!Spec
===============================================================================
