------------------------------ MODULE RadiiPromise ------------------------------
(***************************************************************************)
(* What the calculation of a table of radii promises whoever has asked for *)
(* it and whoever reads the table: RadiiTable implements this.             *)
(*                                                                         *)
(* Grids are written one at a time, whole, and never again; each one that  *)
(* is not has an error in the log; the calculation ends once every grid is *)
(* one or the other, unless it is refused at once or the process ends.     *)
(* Neither threads nor locks nor the order of the grids matter.            *)
(***************************************************************************)
CONSTANT Numbers   \* the grids

VARIABLES
  phase,     \* "asked", "running", "ended" or "dead"
  written,   \* by grid: its rows
  missing    \* the grids that have an error in the log
vars == <<phase, written, missing>>

Init == phase = "asked" /\ DOMAIN written = {} /\ missing = {}

Begin ==
  /\ phase = "asked" /\ phase' = "running"
  /\ DOMAIN written' = {} /\ UNCHANGED missing

\* The table cannot be made, which is an error for all grids.
Refuse ==
  /\ phase = "asked" /\ phase' = "ended"
  /\ UNCHANGED <<written, missing>>

Pending(n) == n \in Numbers /\ n \notin DOMAIN written /\ n \notin missing

Write(n) ==
  /\ phase = "running" /\ Pending(n)
  /\ DOMAIN written' = DOMAIN written \cup {n}
  /\ \A k \in DOMAIN written : written'[k] = written[k]
  /\ UNCHANGED <<phase, missing>>

GiveUp(n) ==
  /\ phase = "running" /\ Pending(n)
  /\ missing' = missing \cup {n}
  /\ UNCHANGED <<phase, written>>

End ==
  /\ phase = "running" /\ \A n \in Numbers : ~Pending(n)
  /\ phase' = "ended"
  /\ UNCHANGED <<written, missing>>

Die ==
  /\ phase \in {"asked", "running"} /\ phase' = "dead"
  /\ UNCHANGED <<written, missing>>

Next == Begin \/ Refuse \/ End \/ Die \/ \E n \in Numbers : Write(n) \/ GiveUp(n)
Spec == Init /\ [][Next]_vars
===============================================================================
