------------------------------ MODULE MCGeocoder ------------------------------
(* Instances of Geocoder for TLC.                                          *)
EXTENDS Geocoder, TLC

CONSTANTS h1, h2, rA, rB, rC, rD, x, y

\* A has two addresses and an output table; B and C share one of them.
MCUniques == [r \in Requests |-> IF r = rA THEN <<x, y>> ELSE <<x>>]
MCClientTag == [r \in Requests |-> IF r = rA THEN "tagA" ELSE "tagBC"]
\* The ids of all requests differ modulo 1000000007, or those of A and B agree.
MCDistinctTags == [r \in Requests |-> IF r = rA THEN 1 ELSE IF r = rB THEN 2 ELSE 3]
MCCollidingTags == [r \in Requests |-> IF r \in {rA, rB} THEN 1 ELSE 2]
MCSymmetry == Permutations(Handlers)
===============================================================================
