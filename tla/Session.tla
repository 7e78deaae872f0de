------------------------------ MODULE Session ------------------------------
(***************************************************************************)
(* A player's sessions with an expansion campaign: scenarios begun, won    *)
(* and chosen, the scripts that run in them, and the files through which   *)
(* both go when the program ends and is started again (campaign/           *)
(* campaign.cpp, game/save.cpp, xml/save_xml.cpp, scripting/scripting.cpp).*)
(*                                                                         *)
(* A game is a scenario, the day, and the experience of the heroes of      *)
(* player 0; the rest of the map is left out.  A script declares one map   *)
(* variable or none.                                                       *)
(***************************************************************************)
EXTENDS Campaign, MapVariables

CONSTANTS
  Campaigns,  \* shapes of campaigns, of which the player plays one
  Scripted,   \* scenarios whose map has a script in SCRIPTS
  Declares,   \* scripts that declare a map variable
  Initial,    \* its value when the script is loaded
  Values,     \* values that the script gives it
  NoScript, NoMap,
  Garbage,    \* what heroes[-1] may hold
  MaxTeam,    \* heroes a player may own (8)
  MaxDay,     \* bound, by campaign: days of a scenario
  Budget      \* bound, by campaign: events other than days, victories, choices

\* What the campaigns of the game satisfy, and a campaign that comes with a file
\* should: a scenario opens later ones, and others than the last and the special
\* one open some; the heroes that are loaded are on the map, and there are not
\* more than were saved.
ASSUME CampaignsAssumption ==
  \A d \in Campaigns :
    /\ d.numMaps \in Nat \ {0}
    /\ \A k \in Scenarios(d) \cup {-1} :
         /\ d.mapsToComplete[k] \subseteq {m \in Scenarios(d) : k < m}
         /\ k \notin {d.numMaps - 1, d.special} \/ k = -1 => d.mapsToComplete[k] # {}
    /\ \A m \in Scenarios(d) :
         /\ d.heroes[m] \in Seq(Nat) /\ d.toLoad[m] \subseteq DOMAIN d.heroes[m]
         /\ IsFiniteSet(d.toSave[m])
         /\ m \in d.mapsToComplete[-1] => d.toLoad[m] = {}
         /\ \A k \in Scenarios(d) :
              m \in d.mapsToComplete[k] =>
                Cardinality(d.toLoad[m]) <= Cardinality(d.toSave[k])

ASSUME ScriptsAssumption ==
  /\ Declares \subseteq Scripted /\ NoScript \notin Scripted /\ Garbage \subseteq Nat
  /\ Savable(Initial) /\ \A v \in Values \cup {Initial} : Savable(v) => WellFormed(v)
  /\ MaxDay \in [Campaigns -> Nat \ {0}] /\ Budget \in [Campaigns -> Nat]

VARIABLES
  d,         \* the campaign's tables
  mode,      \* off, in the menus, choosing a scenario, on its map, or it is won
  camp,      \* xCampaign and savedHeroData
  team,      \* experience of players[0].heroesOwned, in their order
  day,       \* giCurTurn
  chase,     \* whether a chase is forced (forcedComputerPlayerChases)
  lua,       \* the script that runs in map_lua, and its variable
  gMapName,  \* the map begun last by this program
  reported,  \* "Ironfist bug detected" was shown
  disk,      \* the files in GAMES
  hist,      \* history: what happened on the way to this game
  budget

vars == <<d, mode, camp, team, day, chase, lua, gMapName, reported, disk, hist, budget>>
game == <<camp, team, day, chase>>

\* Mutant: a script is taken to be there for every map.
ScriptOf_Always(m) == m

\* GetScriptContents: the script in SCRIPTS that has the name of map m.
ScriptOf(m) == IF m \in Scripted THEN m ELSE NoScript

\* The lifetime of the script: scripting_on is lua.of # NoScript.
Script(s)  == [of |-> s, val |-> Initial]
HasVars    == lua.of \in Declares

\* A file that does not exist, one cut off while written, and one with a game.
NoFile    == [is |-> "missing"]
Torn      == [is |-> "torn"]
Intact(f) == f.is = "game"

\* What stands for the variables in a game without any.
NoText == [type |-> "none"]

UserFile == -1
Slots    == {UserFile} \cup Scenarios(d)   \* the player's file and the autosaves
Spend == budget > 0 /\ budget' = budget - 1

(***************************************************************************)
(* The history of a game, which its files carry too: the scenario won      *)
(* before, the days of those won, the heroes who were to go on, the heroes *)
(* at the beginning, the script with its variable and the chase as they    *)
(* would be had the game never been saved, and whether scripts of two maps *)
(* got mixed.                                                              *)
(***************************************************************************)
NewHistory ==
  [won |-> -1, days |-> 0, carried |-> <<>>, start |-> <<>>,
   script |-> NoScript, val |-> Initial, chase |-> FALSE, mixed |-> FALSE]

Init ==
  /\ d \in Campaigns /\ mode = "off"
  /\ camp = Blank(d) /\ team = <<>> /\ day = 1 /\ chase = FALSE
  /\ lua = Script(NoScript) /\ gMapName = NoMap /\ reported = FALSE
  /\ disk = [s \in Slots |-> NoFile] /\ hist = NewHistory /\ budget = Budget[d]

\* The program ends, and what it had in memory is gone.
Ended ==
  /\ mode' = "off" /\ camp' = Blank(d) /\ team' = <<>> /\ day' = 1
  /\ chase' = FALSE /\ lua' = Script(NoScript) /\ gMapName' = NoMap
  /\ reported' = FALSE /\ hist' = NewHistory

\* The program goes on in mode m with the script and the name of the map it has.
GoesOn(m) == mode' = m /\ UNCHANGED <<lua, gMapName, reported>>

-----------------------------------------------------------------------------
(***************************************************************************)
(* Campaigns and scenarios.                                                *)
(***************************************************************************)

\* main: gMapName is "Chaos.mp2", the name of no scenario.
StartProgram ==
  /\ mode = "off" /\ GoesOn("menu")
  /\ UNCHANGED <<d, game, disk, hist, budget>>

\* InitNewCampaign and HandleVictory, which offers the first scenarios.
NewCampaign ==
  /\ mode = "menu" /\ GoesOn("choosing")
  /\ camp' = Victory(d, InitNewCampaign(d, camp.daysPlayed), 0)
  /\ hist' = NewHistory
  /\ Spend /\ UNCHANGED <<d, team, day, chase, disk>>

\* Mutant: a script runs on if the new map has none.
ScriptingInit_NoShutdown(m) == IF m \in Scripted THEN Script(m) ELSE lua

\* The script of another map is shut down, and that of map m is loaded.
ScriptingInit(m) == Script(ScriptOf(m))

\* ExpCampaign::InitMap: a new game on the map of scenario m, with its script,
\* and then the heroes carried.
InitMap(m) ==
  LET c == [camp EXCEPT !.currentMapID = m,
                        !.daysPlayed[0] = IF m = 0 THEN 0 ELSE @]
  IN  /\ mode' = "map"
      /\ camp' = c /\ day' = 1 /\ chase' = FALSE
      /\ team' = Loaded(d.heroes[m], c.savedHeroData, d.toLoad[m])
      /\ gMapName' = m /\ lua' = ScriptingInit(m)
      /\ hist' = [hist EXCEPT !.start = team', !.script = ScriptOf(m), !.val = Initial,
                              !.chase = FALSE, !.mixed = FALSE]
      /\ UNCHANGED <<d, reported, disk>>

\* MessageHandler and InitMap: only an offered scenario can be chosen.
Choose(m) ==
  /\ mode = "choosing" /\ m \in camp.mapChoice
  /\ InitMap(m) /\ UNCHANGED budget

Cancel ==
  /\ mode = "choosing" /\ GoesOn("menu")
  /\ Spend /\ UNCHANGED <<d, game, disk, hist>>

\* ShowInfo in the game: the scenario can be begun again.
Restart == mode = "map" /\ InitMap(camp.currentMapID) /\ Spend

\* HandleVictory: the campaign is over, or the next scenario is to be chosen.
HandleVictory ==
  /\ mode = "won"
  /\ camp' = Victory(d, camp, day)
  /\ GoesOn(IF IsCompleted(d, camp') THEN "menu" ELSE "choosing")
  /\ hist' = [hist EXCEPT !.won = camp.currentMapID, !.days = @ + day]
  /\ UNCHANGED <<d, team, day, chase, disk, budget>>

-----------------------------------------------------------------------------
(***************************************************************************)
(* On the map.                                                             *)
(***************************************************************************)

NextDay ==
  /\ mode = "map" /\ day < MaxDay[d] /\ day' = day + 1 /\ GoesOn("map")
  /\ UNCHANGED <<d, camp, team, chase, disk, hist, budget>>

\* Heroes learn, are lost, which moves those behind up, and join.
HeroesChange ==
  /\ mode = "map"
  /\ \/ \E p \in DOMAIN team : team' = [team EXCEPT ![p] = @ + 1]
     \/ \E p \in DOMAIN team :
          team' = [i \in 1 .. Len(team) - 1 |-> IF i < p THEN team[i] ELSE team[i + 1]]
     \/ Len(team) < MaxTeam /\ team' = Append(team, 1)
  /\ GoesOn("map") /\ Spend /\ UNCHANGED <<d, camp, day, chase, disk, hist>>

\* A callback of the script sets its variable, or forces a chase or ends it.
SetVariable(v) ==
  /\ mode = "map" /\ HasVars
  /\ lua' = [lua EXCEPT !.val = v] /\ hist' = [hist EXCEPT !.val = v]
  /\ Spend /\ UNCHANGED <<d, mode, game, gMapName, reported, disk>>

ForceComputerPlayerChase ==
  /\ mode = "map" /\ lua.of # NoScript
  /\ chase' = ~chase /\ hist' = [hist EXCEPT !.chase = chase']
  /\ GoesOn("map") /\ Spend /\ UNCHANGED <<d, camp, team, day, disk>>

-----------------------------------------------------------------------------
(***************************************************************************)
(* Files.  SaveGame takes the variables from the script that runs, and the *)
(* script from the directory, by gMapName; the chases are written among    *)
(* the variables, if there are any.                                        *)
(***************************************************************************)

\* What SaveGame writes about a game with campaign c and history h.
Written(c, h) ==
  [is |-> "game", camp |-> c, team |-> team, day |-> day,
   text |-> IF HasVars THEN ToText(lua.val) ELSE NoText, chase |-> HasVars /\ chase,
   script |-> ScriptOf(gMapName),
   hist |-> [h EXCEPT !.mixed = @ \/ ScriptOf(gMapName) # ScriptOf(c.currentMapID)]]

\* A variable that cannot be saved ends the program before the file is opened
\* (lua_next is called on a number); a file that cannot be written ends it too.
CannotSave == HasVars /\ ~Savable(lua.val)

\* Mutant: that a file could not be written is ignored.
Saves_Ignored(slot, c, h) ==
  ~CannotSave /\ disk' \in {[disk EXCEPT ![slot] = Written(c, h)], [disk EXCEPT ![slot] = Torn]}

\* SaveGame writes in place a game with campaign c and history h.
Saves(slot, c, h) == ~CannotSave /\ disk' = [disk EXCEPT ![slot] = Written(c, h)]

\* The program ends before the file is opened, or while it is written.
SaveFails(slot) ==
  /\ Ended
  /\ IF CannotSave THEN UNCHANGED disk ELSE disk' = [disk EXCEPT ![slot] = Torn]

\* The file requester and SaveGame.
Save ==
  /\ mode = "map"
  /\ \/ GoesOn("map") /\ Saves(UserFile, camp, hist) /\ UNCHANGED <<game, hist>>
     \/ SaveFails(UserFile)
  /\ Spend /\ UNCHANGED d

\* ExpCampaign::Autosave: the scenario is marked as played and the heroes who
\* are to go on are kept, before the file is written.
Autosaved(g) ==
  LET m == camp.currentMapID
  IN  [camp EXCEPT !.mapsPlayed = @ \cup {m},
                   !.savedHeroData = Saved(@, team, d.toSave[m], g)]

\* The heroes who are to go on, in the order of their places.
GoOn(g) ==
  LET S == d.toSave[camp.currentMapID]
  IN  [k \in 1 .. Cardinality(S) |->
         IF PlaceAt(S, k) \in DOMAIN team THEN team[PlaceAt(S, k)] ELSE g]

\* CheckEndGame: the scenario is won.
Win ==
  /\ mode = "map"
  /\ \/ \E g \in Garbage :
          /\ GoesOn("won")
          /\ camp' = Autosaved(g) /\ hist' = [hist EXCEPT !.carried = GoOn(g)]
          /\ Saves(camp.currentMapID, camp', hist')
          /\ UNCHANGED <<team, day, chase, budget>>
     \/ SaveFails(camp.currentMapID) /\ Spend
  /\ UNCHANGED d

\* CheckEndGame: the scenario is lost; or it is left for the main menu.
Lose ==
  /\ mode = "map" /\ GoesOn("menu")
  /\ Spend /\ UNCHANGED <<d, game, disk, hist>>

\* Mutant: the variables are set as they are read, before the script starts.
LuaAfter_InOrder(f) == IF f.script = NoScript THEN lua ELSE Script(f.script)

\* LoadGame resets what Ironfist added, ReadRoot reads the rest.  A file with a
\* script starts it anew, and its variable is set at the end; without one the
\* script of the map played before is left as it is.
LuaAfter(f) ==
  LET x == IF f.script = NoScript THEN lua ELSE Script(f.script)
  IN  IF f.text = NoText \/ x.of = NoScript THEN x ELSE [x EXCEPT !.val = FromText(f.text)]

\* WriteMapVariablesToLUA: "Map variables detected in map without a script".
Reports(f) == f.text # NoText /\ LuaAfter(f).of = NoScript

ReadGame(f) ==
  /\ camp' = f.camp /\ team' = f.team /\ day' = f.day /\ chase' = f.chase
  /\ lua' = LuaAfter(f) /\ reported' = (reported \/ Reports(f))
  /\ hist' = [f.hist EXCEPT !.mixed = @ \/ (f.script = NoScript /\ lua.of # NoScript)]
  /\ mode' = IF f.camp.currentMapID \in f.camp.mapsPlayed THEN "won" ELSE "map"
  /\ UNCHANGED gMapName

\* From the adventure map as from the menu: the former ends its loop too and goes
\* to the file requester by the main menu (gGameCommand), and a scenario that is
\* won already goes on to HandleVictory.  A file that cannot be read ends the
\* program.
Load(slot) ==
  /\ mode \in {"menu", "map"} /\ disk[slot] # NoFile
  /\ IF Intact(disk[slot]) THEN ReadGame(disk[slot]) ELSE Ended
  /\ Spend /\ UNCHANGED <<d, disk>>

\* The program is closed or dies; what is in the files stays.
Quit == mode # "off" /\ Ended /\ Spend /\ UNCHANGED <<d, disk>>

-----------------------------------------------------------------------------
InMenus == StartProgram \/ NewCampaign \/ Cancel \/ HandleVictory
           \/ \E m \in Scenarios(d) : Choose(m)
OnMap   == Restart \/ NextDay \/ HeroesChange \/ ForceComputerPlayerChase \/ Win \/ Lose
           \/ \E v \in Values : SetVariable(v)
InFiles == Save \/ Quit \/ \E s \in Slots : Load(s)

Next == InMenus \/ OnMap \/ InFiles

Spec == Init /\ [][Next]_vars
-----------------------------------------------------------------------------
(***************************************************************************)
(* Properties.                                                             *)
(***************************************************************************)

OnTheWay == mode \in {"map", "choosing"}

\* Every variable has its type; a file is missing, torn, or holds a game.
TypeOK ==
  /\ mode \in {"off", "menu", "choosing", "map", "won"}
  /\ camp.currentMapID \in Scenarios(d) \cup {-1}
  /\ camp.mapChoice \subseteq Scenarios(d) /\ camp.mapsPlayed \subseteq Scenarios(d)
  /\ camp.daysPlayed \in [Scenarios(d) -> Nat] /\ team \in Seq(Nat)
  /\ day \in 1 .. MaxDay[d] /\ {chase, reported, hist.mixed, hist.chase} \subseteq BOOLEAN
  /\ lua.of \in Scripted \cup {NoScript} /\ gMapName \in Scenarios(d) \cup {NoMap}
  /\ \A s \in Slots : Intact(disk[s]) =>
       /\ disk[s].team \in Seq(Nat) /\ disk[s].script \in Scripted \cup {NoScript}

\* The heroes whom the campaign carries into a scenario are those who won the
\* one before, in whatever order games were saved, loaded, lost and begun again.
HeroesCarried ==
  mode = "map" =>
    \A p \in d.toLoad[camp.currentMapID] :
      hist.start[p] = hist.carried[RankIn(d.toLoad[camp.currentMapID], p)]

\* What is played or offered is a scenario that the one won last opens, and
\* until the campaign is over there is one to choose.  The days of the campaign
\* are those of the scenarios won on the way, each counted once.
WayMatches ==
  OnTheWay =>
    /\ camp.mapChoice = d.mapsToComplete[hist.won] /\ camp.mapChoice # {}
    /\ camp.currentMapID \in camp.mapChoice
    /\ camp.daysPlayed[camp.currentMapID] = hist.days

\* While the next scenario is being chosen, the autosave of the one just won
\* leads to the same choice, with the same days and heroes.
VictoryKept ==
  mode = "choosing" /\ hist.won # -1 =>
    /\ Intact(disk[hist.won])
    /\ Victory(d, disk[hist.won].camp, disk[hist.won].day) = camp

\* The script that runs is the map's, unless scripts of two maps got mixed: a
\* game was saved after another map had been begun (gMapName), or a game without
\* a script was loaded while another map's script ran.
ScriptsMatch ==
  mode = "map" /\ ~hist.mixed => lua.of = ScriptOf(camp.currentMapID)

\* A game that was saved and loaded any number of times has the variable and the
\* chase that it had if it had never been saved, up to what a text can hold.
NothingLost ==
  mode = "map" /\ ~hist.mixed /\ HasVars =>
    /\ lua.val \in {hist.val, RoundTrip(hist.val)}
    /\ Exact(hist.val) => lua.val = hist.val
    /\ chase = hist.chase

\* The program's own check: variables are never found without a script.
NoBugDetected == ~reported
=============================================================================
