----------------------------- MODULE MCSession -----------------------------
(***************************************************************************)
(* The four campaigns of the expansion set, and one that carries heroes.   *)
(***************************************************************************)
EXTENDS Session, TLC

\* Three scenarios: the first opens the second and the third, and two heroes
\* go from it to the second, one from there or from the first to the third.
Carrying ==
  [Shape(3, [m \in -1 .. 1 |-> CASE m = -1 -> {0} [] m = 0 -> {1, 2} [] m = 1 -> {2}]) EXCEPT
     !.toSave = (0 :> {1, 3} @@ 1 :> {2} @@ 2 :> {}),
     !.toLoad = (0 :> {} @@ 1 :> {2, 3} @@ 2 :> {2}),
     !.heroes = (0 :> <<1, 1, 1>> @@ 1 :> <<1, 1, 1>> @@ 2 :> <<1, 1>>)]

SomeCampaigns == {Carrying, PriceOfLoyalty, Descendants, WizardsIsle, VoyageHome}

\* Games are saved and loaded in many ways in the small campaign; in the others
\* every way through the scenarios is taken.
SomeMaxDay == [c \in SomeCampaigns |-> IF c.numMaps = 4 THEN 2 ELSE 1]
SomeBudget == [c \in SomeCampaigns |-> CASE c.numMaps = 3 -> 6 [] c.numMaps = 4 -> 3 [] OTHER -> 2]

\* For the run with one script, of the first map, that sets nothing.
OneCampaign == {Carrying}
OneMaxDay   == [c \in OneCampaign |-> 1]
OneBudget   == [c \in OneCampaign |-> 7]

SomeInitial == [type |-> "int", val |-> 0]

\* Values at and beyond what a text can hold, a table, and a value that cannot
\* be saved.
SomeValues ==
  {[type |-> "int", val |-> IntMax + 1], [type |-> "number", val |-> 3],
   [type |-> "table", val |-> [k \in {<<"string", "a">>, <<"int", "1">>} |-> [type |-> "int", val |-> 0 - 1]]],
   [type |-> "nil", val |-> 0]}
=============================================================================
