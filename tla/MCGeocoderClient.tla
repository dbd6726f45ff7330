--------------------------- MODULE MCGeocoderClient ---------------------------
(* Instances of GeocoderClient for TLC.                                    *)
EXTENDS GeocoderClient

CONSTANTS h1, h2, rA, rB, x, y

\* A and B are two csv files with an address each.
MCUniques == [r \in Requests |-> <<x>>]
MCClientTag == [r \in Requests |-> IF r = rA THEN "tagA" ELSE "tagB"]
MCGroupTag == [r \in Requests |-> IF r = rA THEN 1 ELSE 2]
===============================================================================
