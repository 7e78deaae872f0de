------------------------------ MODULE Campaign ------------------------------
(***************************************************************************)
(* ExpCampaign (campaign/campaign.cpp) as operators: the scenarios of an   *)
(* expansion campaign, those won, those offered next, the days they took,  *)
(* and the heroes carried from one to another by their places in the list  *)
(* of player 0's heroes.                                                   *)
(*                                                                         *)
(* The four campaigns of the expansion set are tables in HandleVictory1 to *)
(* HandleVictory4; others (campaignID 4 and up) come with a file.  Awards, *)
(* bonuses and the text of the dialogs are left out.                       *)
(***************************************************************************)
EXTENDS Integers, Sequences, FiniteSets

\* What a campaign is: its number of scenarios, the scenarios that a victory
\* opens (-1 is the beginning), the places of the heroes to save and to load,
\* and the experience of the heroes who are on a scenario's map.
Shape(n, opens) ==
  [numMaps |-> n,
   mapsToComplete |-> [m \in -1 .. n - 1 |-> IF m \in DOMAIN opens THEN opens[m] ELSE {}],
   toSave |-> [m \in 0 .. n - 1 |-> {}], toLoad |-> [m \in 0 .. n - 1 |-> {}],
   heroes |-> [m \in 0 .. n - 1 |-> <<>>], special |-> -1]

PriceOfLoyalty ==
  Shape(8, [m \in -1 .. 6 |-> CASE m < 1 -> {m + 1}     [] m = 1 -> {2, 3}
                                [] m = 2 -> {4}         [] m \in {3, 4} -> {5}
                                [] m = 5 -> {6, 7}      [] m = 6 -> {7}])

Descendants ==
  Shape(8, [m \in -1 .. 6 |-> CASE m < 1 -> {m + 1}     [] m = 1 -> {2, 3}
                                [] m \in {2, 3} -> {4}  [] m = 4 -> {5, 6}
                                [] m \in {5, 6} -> {7}])

WizardsIsle ==
  Shape(4, [m \in -1 .. 2 |-> CASE m < 1 -> {m + 1} [] m = 1 -> {2, 3} [] m = 2 -> {3}])

\* The only campaign that also ends with a scenario that is not its last.
VoyageHome ==
  [Shape(4, [m \in -1 .. 1 |-> IF m < 1 THEN {m + 1} ELSE {2, 3}]) EXCEPT !.special = 2]

-----------------------------------------------------------------------------
(***************************************************************************)
(* The record c is xCampaign with the map savedHeroData; d is its shape.   *)
(***************************************************************************)

Scenarios(d) == 0 .. d.numMaps - 1

\* The days of the campaign played before stay where they are.
InitNewCampaign(d, days) ==
  [currentMapID |-> -1, mapChoice |-> {}, mapsPlayed |-> {},
   daysPlayed |-> days, savedHeroData |-> <<>>]

\* xCampaign when the program starts.
Blank(d) == InitNewCampaign(d, [m \in Scenarios(d) |-> 0])

IsCompleted(d, c) ==
  d.numMaps - 1 \in c.mapsPlayed \/ d.special \in c.mapsPlayed

\* The days of the scenarios on the way here, with today.
Days(c, today) == today + c.daysPlayed[c.currentMapID]

\* Mutant: the days are asked for when the next scenario is current already.
Victory_DaysLate(d, c, today) ==
  LET next == d.mapsToComplete[c.currentMapID]
      won  == [c EXCEPT !.mapChoice = next,
                        !.mapsPlayed = @ \cup ({c.currentMapID} \ {-1})]
      m    == CHOOSE m \in next : \A k \in next : m <= k
      days == IF c.currentMapID = -1 THEN 0 ELSE Days([won EXCEPT !.currentMapID = m], today)
  IN  IF IsCompleted(d, won) THEN won
      ELSE [won EXCEPT !.currentMapID = m,
                       !.daysPlayed = [k \in DOMAIN @ |-> IF k \in next THEN days ELSE @[k]]]

\* HandleVictory up to its dialog: a scenario that is not the last one opens
\* others, the first of which is shown.
Victory(d, c, today) ==
  LET next == d.mapsToComplete[c.currentMapID]
      days == IF c.currentMapID = -1 THEN 0 ELSE Days(c, today)
      won  == [c EXCEPT !.mapChoice = next,
                        !.mapsPlayed = @ \cup ({c.currentMapID} \ {-1})]
  IN  IF IsCompleted(d, won) THEN won
      ELSE [won EXCEPT !.currentMapID =
                          IF next = {} THEN -1
                          ELSE CHOOSE m \in next : \A k \in next : m <= k,
                       !.daysPlayed = [k \in DOMAIN @ |-> IF k \in next THEN days ELSE @[k]]]

-----------------------------------------------------------------------------
(***************************************************************************)
(* Carried heroes.  The sets of places are std::sets, walked in order; the *)
(* place of a hero in savedHeroData is the rank of his place in the set.   *)
(***************************************************************************)

RankIn(S, p)  == Cardinality({q \in S : q < p}) + 1
PlaceAt(S, k) == CHOOSE p \in S : RankIn(S, p) = k

\* SaveCampaignHero for all places in S.  At a place that has no hero the
\* code reads heroes[-1]; garbage is what it finds there.  Entries of earlier
\* scenarios beyond the last one saved stay.
Saved(old, team, S, garbage) ==
  [k \in DOMAIN old \cup 1 .. Cardinality(S) |->
     IF k > Cardinality(S) THEN old[k]
     ELSE IF PlaceAt(S, k) \in DOMAIN team THEN team[PlaceAt(S, k)] ELSE garbage]

\* Mutant: the hero's place in the list, not his rank, is where he is looked for.
Loaded_ByPlace(team, saved, S) ==
  [p \in DOMAIN team |->
     IF p \notin S THEN team[p] ELSE IF p \in DOMAIN saved THEN saved[p] ELSE 0]

\* LoadCampaignSavedHero for all places in S; an entry that was never saved is
\* created with zeros.
Loaded(team, saved, S) ==
  [p \in DOMAIN team |->
     IF p \notin S THEN team[p]
     ELSE IF RankIn(S, p) \in DOMAIN saved THEN saved[RankIn(S, p)] ELSE 0]
=============================================================================
