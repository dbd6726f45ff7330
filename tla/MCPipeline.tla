------------------------------ MODULE MCPipeline ------------------------------
\* Instances of Pipeline: two grids that overlap in one point, a table that has
\* been calculated before and two that have not.
EXTENDS Pipeline

MCContent == [t \in Tables |-> [n \in Dates |->
  [g \in Grids |-> CASE g = 7 /\ n = 1 -> (0 :> <<1, 2>>) @@ (1 :> <<0, 3>>)
                     [] g = 7 /\ n = 2 -> (1 :> <<2, 2>>) @@ (2 :> <<4, 0>>)
                     [] g = 9          -> (n :> <<n, 1>>)]]]

MCPlace == [a |-> (7 :> 0), b |-> (7 :> 1), c |-> (7 :> 2) @@ (9 :> 2), e |-> (9 :> 1),
            nowhere |-> <<>>]

MCCommand == [check1   |-> CalculateRadii(TRUE, "kiosk"),
              check2   |-> CalculateRadii(TRUE, "kiosk"),
              one      |-> CalculateRadiiBin(TRUE, "kiosk"),
              rejected |-> BinRadii(FALSE, "kiosk"),
              objects  |-> CalculateRadiiObjects(TRUE, 0, -1),
              cafes    |-> CalculateRadiiObjects(TRUE, 0, 1),
              brands   |-> CalculateBrands(TRUE, <<"Kiosk">>, FALSE, <<>>),
              both     |-> CalculateBrands(TRUE, <<"Kiosk">>, TRUE, <<>>),
              unknown  |-> CalculateBrands(TRUE, <<>>, TRUE, <<"Kiosk", "Zoo">>)]
\* One job of each program that writes beside readers alters the columns.
MCWidening == {"one", "check1", "objects", "brands"} \X Tables \X {9}

MCChecks == <<"check1", "check2">>
MCRubrics == <<"Cafe", "Kiosk">>
MCEng == [Cafe |-> "cafe", Kiosk |-> "kiosk"]
MCTopTables == [Kiosk |-> <<"kiosk_top0">>, Cafe |-> <<>>]

Asks(points, names, output) ==
  [points |-> points, tables |-> names, output |-> output, uniform |-> TRUE]
Of(name, radii) == [name |-> name, radii |-> radii]
MCRequest ==
  [some  |-> Asks(<<"b", "text", "a", "e">>, <<Of("kiosk", <<0, 100>>)>>, ""),
   two   |-> Asks(<<"c", "nowhere", "e">>, <<Of("cafe", <<0>>), Of("kiosk", <<100, 0>>)>>, "m"),
   other |-> Asks(<<"a">>, <<Of("kiosk", <<0>>)>>, "m"),
   empty |-> Asks(<<>>, <<Of("kiosk", <<0>>)>>, "m"),
   far   |-> Asks(<<"a">>, <<Of("kiosk", <<200>>)>>, ""),
   mixed |-> [Asks(<<"a", "b">>, <<>>, "m") EXCEPT !.uniform = FALSE]]

MCTogether ==
  {{"check1", "check2", "one", "assembly"}, {"check1", "one", "assembly", "fault"},
   {"check1", "check2", "assembly", "fault"}, {"check1", "some", "assembly", "fault"},
   {"one", "some", "two", "assembly"}, {"objects", "two", "fault"},
   {"two", "other", "mixed", "fault"}, {"one", "other", "mixed", "fault"},
   {"cafes", "objects", "fault"}, {"brands", "some", "fault"},
   {"rejected"}, {"both"}, {"unknown"}, {"empty", "other"}, {"far", "mixed"}}
===============================================================================
