----------------------------- MODULE MCRadiiTable -----------------------------
\* Instances of RadiiTable: two grids that overlap, objects in both, on the border
\* of one and alone in it.
EXTENDS RadiiTable

CONSTANTS MaxRows, Values

MCGrids == <<[id |-> 7, lat |-> 0, lng |-> 0, side |-> 2],
             [id |-> 9, lat |-> 6, lng |-> 2, side |-> 1]>>

Points == {<<1, 1>>, <<7, 5>>, <<8, 8>>}
Row == [at : Points, value : Values] \cup {[at |-> <<1, 1>>, value |-> NoValue]}
MCRows == UNION {[1..n -> Row] : n \in 0..MaxRows}
===============================================================================
