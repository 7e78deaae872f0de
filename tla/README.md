# Ironfist (Heroes of Might and Magic II mod): a TLA+ development

Paths are relative to the repository; `cpp/` stands for `src/cpp/shared/` and
`HEROES2W.c` for `src/raw_decompiled/HEROES2W.c`.

1. [The system](#1-the-system)
2. [Modules](#2-modules)
3. [One stack: EffectRules, BattleStack](#3-one-stack-effectrules-battlestack)
4. [The board: Battlefield](#4-the-board-battlefield)
5. [Whose turn: TurnOrder](#5-whose-turn-turnorder)
6. [Resources: Handles, ResourceCache](#6-resources-handles-resourcecache)
7. [Whose heroes: HeroPool](#7-whose-heroes-heropool)
8. [Campaigns, scripts and saves: Campaign, MapVariables, Session](#8-campaigns-scripts-and-saves-campaign-mapvariables-session)
9. [Runs](#9-runs)
10. [Where the code disagrees with its documents](#10-where-the-code-disagrees-with-its-documents)
11. [Theorems](#11-theorems)
12. [Not modelled](#12-not-modelled)
13. [What is left](#13-what-is-left)

## 1. The system

The program is the Windows executable of Heroes II, taken over function by
function. A function that has been rewritten lives in `src/cpp/shared`; one
that has not is still the original machine code, whose meaning the repository
records as decompiled C (`HEROES2W.c`). A handler of the game is therefore
often half C++ and half original, and the models follow the calls across that
border: when `combatManager::ResetRound` in `combat/combat.cpp` calls
`ResetRound_orig`, the action contains both.

There is one thread. What makes the program hard is not preemption but *long
sequences of legal calls over state that many handlers change in place*, and
*handlers that call each other in the middle of their work*: a blow casts a
spell, a death kills an image, a round that ends burns a stack, a font that is
deleted releases an icon, a battle that is lost puts a hero on offer. The one
real failure model is the end of the program: a save is written in place, and
most errors call `exit`.

| component | source | state it keeps | operations | what is hard, and what makes it correct |
|---|---|---|---|---|
| battle stack | `combat/army.cpp`, `combat_spells.cpp` | one `army`: 19 effects with their rounds, numbers changed in place by them, creatures, wounds, death; maps beside it keyed by its address (force shield, rebirth) | effect on and off, blow, burn, cure, ray, dispel, drain, resurrection, round | any order of effects; death in two steps; numbers equal the effects that are on; nobody half dead |
| battlefield | `combat/combat.cpp`, `army.cpp`, `combat_spells.cpp`, `HEROES2W.c` | `combatGrid` (occupier, direction of its other hex, corpses), 21 slots a side, mirror images, marks to vanish | move, blow on several stacks, burial, raising, mirroring, summoning, teleport, end of round | the same fact kept twice (stack and grid, image and original, pile and corpse); slots reused; deaths inside loops |
| turn order, end of battle | `combat.cpp`, `HEROES2W.c` (`GetNextArmy`, `ProcessNextAction`, `CheckWin`, `ResetRound`) | active stack, side in control, per-stack flags (took, waited, bonus), castle's shots, victory | next stack, attack, skip, wait, spell, retreat, volley, end of round, victory | every flag is changed by many events; a turn must not be taken twice or missed; rounds must end; victory must run once |
| battle spells | `combat_spells.cpp`, `spell/*` | mana, spell-cast flag | what a spell may target, what it does | the effects on the three parts above |
| resources | `resource/*`, `HEROES2W.c` (constructors, destructors) | list of loaded resources, 16-bit counts of users | get, dispose, expunge | re-entrance through fonts; leaks; deletion while the list is walked |
| heroes of the players | `game/game.cpp`, `HEROES2W.c` (`townManager`, `hero`, `NextPlayer`, `CheckEndGame`, `PlayerDead`) | lists of owned heroes, their owner, their hire status, two offers a player | visiting a town, hiring, jails, losing, retreating, dismissing, death of a player, week | one fact written down four times by many functions, repaired by two |
| campaigns | `campaign/*` | scenarios offered and played, days, carried heroes | new campaign, choice, autosave, victory | heroes saved and loaded by position; a scenario is marked as played in two places |
| scripting | `scripting/*` | two Lua states, map variables | callbacks, script functions, variables kept in saves | the script of one map meeting the variables of another; conversions to and from a text |
| saves | `game/save.cpp`, `xml/save_xml.cpp` | files in GAMES | save, load, autosave | partly reset, partly read; what is read in which order; failure in the middle |
| adventure map, towns, game | `adventure/*`, `town/*`, `game/*`, `expansions.*` | map cells, buildings, players, days | movement, visiting, building, daily and weekly turn | sequential handlers of one player's clicks over the map's data; their part in heroes, days and chases is modelled |
| tables | `combat/creatures.cpp`, `artifacts.cpp`, `xml/*` | creature, spell and artifact tables | read once at the start | constants of the models |
| animation, sound, GUI, start | `combat/animation.cpp`, `sound/*`, `gui/*`, `init.cpp`... | frames, tracks, dialogs, settings | drawing, input, output | what they return is an input of the models |
| editor | `src/cpp/editor` | map being edited | map files | a second program |

Interactions. The adventure map starts a battle (`combatManager::Open`), whose
manager owns the stacks, the grid and the turn order; they share state by plain
fields: `army::Damage` sets `dead`, `army::PowEffect` buries through
`army::ProcessDeath`, which writes the grid and the pile of corpses;
`combatManager::ProcessNextAction` calls attack, spell or skip, then `CheckWin`
and `GetNextArmy`, which calls the castle's towers. `combatManager::CastSpell`
is called by heroes and, from inside a blow, by creatures. Scripts are called
back at the start of battles, of turns and of spells, and call accessors back.
All drawing code asks the resource manager for icons. A battle that ends takes
heroes from a player (`hero::Deallocate`), which may kill him (`CheckEndGame`),
which frees his heroes and offers (`PlayerDead`); the same `CheckEndGame` wins a
campaign's scenario, which autosaves, which asks the running script for its
variables; a load restarts the script.

## 2. Modules

| module | contents |
|---|---|
| `EffectRules` | the methods of `army` as operators on a record |
| `BattleStack`, `MCBattleStack` | all that can happen to one slot in a battle, as actions over those operators; which effects meet which creature in its run |
| `EffectRules_proofs`, `BattleStack_proofs` | lemmas about the operators; theorems about the specification |
| `Battlefield`, `MCBattlefield`, `Battlefield_proofs` | hexes, corpses, slots, images; the small armies of its runs; theorems |
| `TurnOrder`, `MCTurnOrder`, `TurnOrder_proofs` | the sequence of turns, rounds and the end of the battle; the small armies of its runs; theorems |
| `TurnFlags` | all that the order of turns knows of one stack: an abstract specification, which `BattleStack` is shown to implement and `TurnOrder` to apply to each slot |
| `Handles` | what the resource manager promises: the abstract specification |
| `ResourceCache`, `MCResourceCache`, `ResourceCache_proofs` | the resource manager, shown to implement `Handles`; theorems, the refinement included |
| `HeroOwners` | whose heroes are whose, without the bookkeeping: the abstract specification |
| `HeroPool`, `MCHeroPool`, `HeroPool_proofs` | the four tables that keep it, proved to implement `HeroOwners`; the heroes of its run; theorems |
| `Campaign`, `MapVariables` | `ExpCampaign`, and the way of a script's variable through a save, as operators |
| `Session`, `MCSession`, `Session_proofs` | the two composed with saves, loads and ends of the program; the campaigns of its runs; theorems |
| `NatLemmas` | lemmas that several proofs cite: a set of numbers has a smallest element, a recursive function on an interval exists |

The three battle modules are three views of one state machine, cut where the
code's facts do not depend on each other: `BattleStack` keeps the numbers of
one stack and leaves place and turn out; `Battlefield` keeps places and only
knows whether a stack is alive; `TurnOrder` keeps flags and only knows whether
a stack is dead, held or hypnotized. In each, what the other two decide is a
free choice. Between `BattleStack` and `TurnOrder` this is not only intended but
stated and proved: `TurnFlags` is the common part, the four flags of a stack and
what blows, spells and the end of a round do to them. Whatever happens to a
`BattleStack` is a step of `TurnFlags` (`ImplementsFlags`, `Refinement`);
whatever `TurnOrder` does to a slot is one as well (`SlotsAreStacks`); and each
change that a blow, a round or a spell makes in `TurnFlags` is among those that
`TurnOrder` considers (`StacksFitSlots`). Two things are outside of this. A new
elemental in a dead one's slot is `BattleStack`'s alone. That acting, freezing
and good morale set and clear MAYBE_NOT_LOST_TURN is `TurnOrder`'s alone;
nothing in `BattleStack` reads that flag. `MC*` modules define constants only; every `.cfg` names the bounds it
uses.

A pair of conventions: an operator with a suffix (`Damage_ForgetsWounds`) that
precedes a definition is a plausible bug of it, kept to show which property
would notice; it is not part of any specification.

## 3. One stack: EffectRules, BattleStack

An `army` keeps for each of its 19 effects the rounds that remain, and *changes
its own attack, defense, speed and flags in place* when an effect starts or
ends. Nothing recomputes them. Every path that ends an effect must undo what
the start did, once: the new effect that displaces the old
(`SetSpellInfluence`, army.cpp:2396), the blow that wakes, the turn that frees,
dispel, disenchant, cure, and the round that counts down.

| model | code |
|---|---|
| `stack.strength[e]`, `numActiveEffects` | `effectStrengths[e]`, `numActiveEffects` |
| `stack.attack .. flies` | `creature.attack`, `.defense`, `creature.speed`, flag FLYER |
| `stack.shieldHP`, `reborn` | `gIronfistExtra.combat.stack.forceShieldHP[this]`, `doneRebirth[this]` |
| `stack.dying`, `isDead` | `army.dead`, flag DEAD |
| `stack.lostTurn`, `retaliated` | flags MAYBE_NOT_LOST_TURN, RETALIATED |
| `SetSpellInfluence`, `CancelEffects`, `Displaced`, `Start` | `SetSpellInfluence`, `CancelIndividualSpell`, `AddActiveEffect` |
| `Damage`, `TookDamage`, `DamageEnemy`, `Settle` | `Damage`, `CancelSpellType`, `DamageEnemy`, the last loops of `PowEffect` with `ProcessDeath` and `Rebirth` |
| `DecrementSpellRounds`, `ResetRound` | the same, effect by effect in index order, with the burn between |
| actions `Cast*`, `Struck*`, `Dodge`, `SpellHit`, `MarksmanPierce`, `WalkIntoFire` | the cases of `CastSpell`, the branches of `DoAttack` / `SpecialAttack` with `PowEffect`, `CheckBurnCreature` |
| `EndAttack`, `Retaliate`, `GhostGrows`, `VampireDrains`, `ReuseSlot` | the ends of `DoAttack`; `AddArmy` when it takes a dead elemental's slot |
| `MarksOf` | what `GetNextArmy` reads of a stack: DEAD, MAYBE_NOT_LOST_TURN, Hypnotize, and Blind, Paralyze or Petrify |

`TurnFlags` is the abstract specification of this module, with `marks <-
MarksOf(stack)`. It says what the rest of the battle may rely on without knowing
any number: a blow frees a held stack and costs it its turn, and a hypnotized one
loses its turn but stays hypnotized; only a round gives a turn back; the dead
change only by being raised, with the flags they died with, or by a new
elemental in their slot.

Inputs that the code computes elsewhere (damage, spell power) are drawn from
the sets `Hits`, `Burns`, `Powers`. `rayLoss` is a history variable: the
defense that disrupting rays took.

Bounds. One run takes five creatures in turn, each with the effects that
interact on it (`Castable`): an elemental, whose slot is used again, with six
effects that change its numbers and the shield that it leaves behind; a creature with Rebirth with those that hold;
a vampire with shield, burn and daze; a ghost; a troll, which heals. `Budget`
limits spells, abilities and fires (not blows, rounds or retaliations): four
casts allow each effect to be cast, displaced, dispelled and cast again within
its duration, `Powers` being 1 and 3 rounds. `MaxQuantity` limits the growth of
ghosts, by one creature over the first three. A creature has 20 hit points; a
blow takes 10 or 30, a burn 20, so that wounds are carried over and stacks of
one, two and three creatures die.

Fairness. `WF_round(TurnOver)`: rounds follow each other. `ResetRound` is
called whenever `GetNextArmy` finds nobody; that this keeps happening is what
`TurnOrder`'s `RoundsGoOn` shows.

## 4. The board: Battlefield

The same fact is kept in two places: a stack knows its `occupiedHex`, and the
grid knows `unitOwner`, `stackIdx` and where the occupier's other hex is. A
corpse is a pair of stack and direction on each of its hexes. An image and its
original name each other by slot. Slots of dead images and elementals are used
again; those of dead creatures are not.

| model | code |
|---|---|
| `field.unit[s]` | `creatures[side][i]` |
| `field.occupant`, `other`, `corpses` | `hexcell.unitOwner`/`stackIdx`, `occupiersOtherHexIsToLeft`, `corpse*` |
| `field.numCreatures`, `vanish` | `numCreatures`, `shouldVanish`/`anyStacksShouldVanish` |
| `Loaded`, `Place`, `AddArmy`, `NewSlot` | `LoadArmies`, `army::Init`, `combatManager::AddArmy` |
| `Bury`, `Vanish`, `PowEffect`, `Struck` | `ProcessDeath`, `MakeCreaturesVanish`, `PowEffect`, `Damage` |
| `OccupyHexes`, `ShootBehind` | `OccupyHexes`, `SpecialAttack` of a target behind |
| `Moved`, `Teleported`, `CanFit` | `Walk`/`FlyTo`, case SPELL_TELEPORT, `army::CanFit` |
| `Topmost`, `Unearthed`, `Raised` | `FindResurrectArmyIndex`, `Resurrect` |
| `Near`, `PullOrder`, `Pull`, `Pulling`, `CastGrenade` | `ImplosionGrenade`: the hexes within 4.5 widths, the nearest first, one by one |
| `StackRound`, `Resetting`, `NewRound` | the loop of `ResetRound` stack by stack, then `MakeCreaturesVanish` |

Abstractions. The board is one row: a wide stack needs its neighbour; nothing
else in these functions needs geometry. On the real board a grenade pulls along
six directions and two hexes of a ring may want the same free hex; in a row they
come from both sides, which is the same conflict. A blow hits any set of stacks
and kills any subset (hydras, breath, charges, chain lightning, area spells).
Stacks of a blow are buried together, which equals the code's order because
their hexes differ. A move goes to any free place and may end in fire.

Bounds. `LastHex` 4 to 6, `MaxStacks` 2 or 3 and two or three stacks at the
start are enough for a wide stack to be beside, on top of (as a corpse) or in
the way of another, and for a slot to be taken again. `MaxCorpses` is 2 in
field_wide, so that piles fill up. `Budget` limits spells.

`DigUp = FALSE` keeps spells away from corpses that lie under others, where
field_dig_up shows what goes wrong; with `TRUE` the properties of field_wide
fail for that reason. In the same way `Shooters` is empty in field_wide and
`Burning` is FALSE in field_images: field_turned_shot and field_lost_vanish
show those cases alone. `OldMarks = FALSE` keeps grenades for boards on which
each mark is of the wide stack that stands there: only a wide stack that comes
or goes writes `occupiersOtherHexIsToLeft`, a narrow one that is pulled keeps
what it finds, and its corpse is then taken for half of a wide one (section 10).
The stacks of field_images are narrow: images and teleports of wide ones go
wrong by themselves (section 10). What these restrictions leave, the theorems of
section 11 cover for every board.

Fairness. `WF_round(TurnOver)`, as above.

## 5. Whose turn: TurnOrder

`GetNextArmy` has no queue. It scans speeds from 14 down and at each speed both
sides, and takes the first stack whose flags allow it; a stack is done when a
flag says so. Waiting, good and bad morale, hypnosis, blinding, retaliation,
burning, death and resurrection all change these flags or the conditions beside
them.

| model | code |
|---|---|
| `b.took`, `again`, `waited`, `dead` | flags MAYBE_NOT_LOST_TURN, HAS_GOOD_MORALE, 0x1000, DEAD |
| `b.active`, `control` | `activeStackOwner`/`activeStack` with the names of the decompiled code, `currentActionSide` |
| `b.bonus`, `cast`, `toFire`, `left` | `bInHighMoraleBonus`, `heroCastThisTurn`, `timesGarrisonMustFire`, retreat and surrender |
| `Found`, `NotFound`, `Picks`, `Freeze`, `Recalled` | `GetNextArmy`: returns 1 or 0, with `CheckApplyBadMorale` on the way and the second scan for stacks that waited |
| `Reset`, `NextRound`, `SameRound` | `ResetRound`, and `GetNextArmy` called again |
| `Attack`, `Skip`, `Wait`, `CastSpell`, `GiveUp` | the cases of `ProcessNextAction`, the Ironfist wrapper in combat.cpp included |
| `CastleFires`, `LastVolleys` | `CheckCastleAttack`/`KeepAttack` in `Main` and at the end of `GetNextArmy` |
| `MainCheckWin`, `Decided`, `Win` | `CheckWin`, `IsWinner`, `DoVictory` |

History. `log.due[s]` is the number of turns that a stack is still owed in this
round: one, one more for each bonus of good morale, one less for each turn it
takes or freezes in. `log.lost` and `risen` are the stacks whose turn a blow
cost and those raised from the dead; `last` is what the closing of the last
round left undone. `stale` marks a round that began with nobody found (section
10). None of them is read by an action's guard.

Abstractions. Blows hit stacks of the side opposed to the one in control;
a stack that Berserker drives is moved like others, and no longer hypnotized; the catapult hits only walls. Who is hit, who
dies, who is held or frozen, and what a player, the computer or the network
chooses is open.

Bounds. The state is finite without any: parities instead of counters. The
theorems of section 11 hold for every army; the runs have one stack
against two, or two against one, with two stacks of equal speed on
opposite sides, one eager, one panicky, one that holds its victims, one that
may burn when a round ends; heroes on either side.

Fairness. Two assumptions, each about somebody who keeps playing.
`WF_vars(CastleFires \/ MainCheckWin)`: `Main` is called by the program's loop
until it returns 2. `[]<>~OnTurn \/ []<><<beat' # beat>>_vars`: whoever has the
turn does not wait and cast for ever. Because `OnTurn` enables `Skip`, this is
`WF_vars(Attack \/ Skip)`; it is written without ENABLED because TLC evaluates
it many times faster. Note what is *not* assumed: that a stack dies, that
waiting ends, that panic is bounded.

## 6. Resources: Handles, ResourceCache

`Handles` is the promise: a pointer variable holds at most one file, and a file
is in memory exactly while a pointer needs it, directly or through a font that
draws with it. `ResourceCache` is the code: a linked list, addresses, 16-bit
counts, and destructors that call back.

| model | code |
|---|---|
| `list`, `count`, `fileID`, `live` | `firstLoadedResource`/`next`, `referenceCount`, `fileID`, objects not deleted |
| `ref[c]`, `ref[o]` | a pointer variable of the game; a font's icon |
| `GetLoaded`, `GetNew`, `GetFont*` | `GetIcon`, `GetBitmap`, `GetFont`, ... with `Query` and `AddResource` |
| `Dispose*` | `Dispose` and the destructor, with `RemoveResource`; four outcomes |
| `Draw*` | the drawing code that gets an icon and never disposes of it (combat.cpp:787, 1257, army.cpp:2730) |
| `Expunge*` | `Close`: `Expunge`'s loop, one resource a step |

A count is signed and 16 bits wide and a leaked icon's count runs through all
its values. A leaky file has one legitimate owner (`OwnerOf`): the pointer
variables that also hold such an icon are single globals
(`gCurLoadedSpellIcon`); this is how the code uses them, and `NoDangling` rests
on it: with two owners a wrapped count would let one delete the icon under the
other.

Bounds. Three files (a font, its icon, a leaky icon), three pointers, four
addresses, 4-bit counts in place of 16-bit ones (`Half = 8`; the assumption
asks only that there are fewer holders than `Half`). The theorems hold for
every size. Deadlock is not checked: after `Close` the program stops.

## 7. Whose heroes: HeroPool

That a hero is a player's is written down in four places: the player's list
`heroesOwned`, the hero's `ownerIdx`, the byte `heroHireStatus` (a player, 64 for
hire, 65 in jail, -1 free), and, for heroes who may be hired, the two places of
`heroesForPurchase`. Each of the functions below writes some of them. Two
repair: `CheckHeroConsistency` on every visit to a town goes by the status,
`CheckValidAvailableHeroes` on every hiring by the lists.

| model | code |
|---|---|
| `g.heroesOwned`, `heroesForPurchase`, `heroHireStatus`, `ownerIdx` | the same (`numHeroes` is the length of the list) |
| `g.held`, `playerDead`, `gbRetreatWin`, `cur` | hero flag 0x10000 (retreated in this turn), `playerDead`, `gbRetreatWin`, `giCurPlayer` |
| `stray`, `LastArtifact` | the byte before `heroHireStatus`, which the week reads and writes for the hero -1 of an unused place; it is the last hero's fourteenth artifact's, and `GiveArtifact` sets it |
| `mismarked`, mode `stolen` | history: who was marked for hire while in a list; and the end of the model, when somebody takes one of them |
| `GetNewHeroId`, `Clashing`/`CheckedValid`, `RetreatSlot`/`Deallocate`, `PlayerDead`, `Losers` | `GetNewHeroId`, `CheckValidAvailableHeroes`, `hero::Deallocate`, `PlayerDead`, `CheckEndGame` |
| `OpenTown`, `CheckHeroConsistency`, `RecruitHero`, `ViewHero`, `CloseTown` | `townManager::Open`, `RecruitHero` and its dialog, `philAI::BuildHero` |
| `JailEvent`, `HeroLoses`, `Dismiss`, `TownFalls` | `JailEvent`/`JailAIEvent`, the end of a battle, `hero::Dismiss`, a town taken |
| `NextPlayer`, `PerWeek`, `EndPerDay` | `NextPlayer`, `PerDay`, `PerWeek` (game.cpp:562-592) |

Abstractions. A random hero is any hero that the search may return; the loops
over the offers go one offer a step, because each draw depends on the marks
that the one before left. Who fights, which towns stand and who has a day left
is open: `CheckEndGame` may kill any players but the last.

Bounds. Two players on three places, lists of two, five heroes and a prisoner:
with four owned heroes and four offers among six the free ones run out, and
`GetNewHeroId` falls back on those for hire. `Crowd = 4` (40 of 54 in the code)
is reached and left. `Budget = 2` bounds hirings, jails, losses, dismissals,
fallen towns and last artifacts; visits, turns and weeks are not bounded. Heroes
who are not in jail are interchangeable (symmetry). No fairness is assumed:
there is no liveness here.

Unused places. A game of fewer than six players leaves places without a player,
and `PerWeek` visits their offers like all others. A hero on such an offer may
be hired by somebody who drew him too, and the week then marks him as for hire
while he serves (section 10): he is *mismarked*. `StatusMatches` and `OffersFree` except
these heroes, whom the history variable counts from the step that marks them
until they leave their list, and nobody else. When the free heroes run
out, `GetNewHeroId` may offer a mismarked hero to a player, who hires or looks
at him: what then follows, `players[-1]` included, depends on memory, so the
model takes that step, in mode `stolen`, and ends. The run meets all of this.
Where it ends, `OwnedOnce` and `StatusMatches` end as well; `OffersFree` and
`RetreatedWaits` hold to the last step. With all places taken none of these
exceptions is ever used (theorem `FullTableSafe`).

`HeroOwners` says what all this is for. A hero serves one player, nobody, or is
in jail (`post`); players are out (`fallen`); one has the move (`turn`). `Join`
takes a hero who serves nobody, if there is room; `Lose`, `Fall` and `Pass` give
heroes up, one hero or all of those who go out. The mapping, in
`HeroPool_proofs`, reads `post` off `ownerIdx`, and the prison, for those without an
owner, off the status; `fallen` off `playerDead` and `turn` off `giCurPlayer`.
Lists, offers, marks, places and repairs are not in it: visits to towns, `PerWeek` and the hero shown
in the dialog are no steps of it.

## 8. Campaigns, scripts and saves: Campaign, MapVariables, Session

`Campaign` is `ExpCampaign`: what a victory opens, what is marked when, and the
heroes who go on, saved and loaded by their place in the list. `MapVariables`
is the way of a Lua value through a save: the name of its type and a text, then
`atoi` or `atof`. `Session` composes the two with the program and its files.

| model | code |
|---|---|
| `camp` | `xCampaign` with the map `savedHeroData` |
| `d` | its tables: `mapsToComplete` of `HandleVictory1` to `4` or of the campaign's file, `toSave`/`toLoad` of the heroes |
| `team`, `day`, `chase` | experience of `players[0].heroesOwned`, `giCurTurn`, `forcedComputerPlayerChases` |
| `lua`, `gMapName` | `map_lua` with `scripting_on`; the name of the map begun last |
| `disk` | the files in GAMES: the player's and one autosave a scenario; missing, torn, or a game |
| `mode` | off, menu, choosing (the dialog of the campaign), map, won (between the autosave and `HandleVictory`) |
| `NewCampaign`, `Choose`, `Cancel`, `Restart`, `HandleVictory` | `InitNewCampaign`, `InitMap`, `ShowInfo`, `HandleVictory` |
| `SetVariable`, `ForceComputerPlayerChase` | a callback of the script |
| `Save`, `Win`, `Load`, `Quit` | `SaveGame`, `CheckEndGame` with `Autosave`, `LoadGame` with `ReadRoot`, the end |
| `SaveFails`, `Ended` | `exit` on a file that cannot be opened (save.cpp:122-134), a value that cannot be saved (scripting.cpp:211), or the end of the program while it writes |

History. `hist` is what happened on the way to *this* game: the scenario won
before, the days, the heroes who were to go on, what the variable and the chase
would be had nobody ever saved, and whether scripts of two maps got mixed. A
save carries the history of its game and a load brings it back. No guard reads
it.

A new campaign resets what `InitNewCampaign` does: `daysPlayed` keeps the days
of the campaign before, each entry of which a victory overwrites before it is
read. `Load` stands for the menu and the adventure map alike: the command of the
map ends its manager's loop and goes through the menu's code, so that a load of
the autosave of a scenario that was won goes to `HandleVictory` from both
(HEROES2W.c:40541-40556, 48826-48842).

Abstractions. Of a game only the campaign, the heroes of player 0, the day, the
chases and the script are followed. A script declares one variable or none. A
floating-point number is counted in halves of the last digit that is written.

Bounds. All four campaigns of the expansion set, in which every way through the
scenarios is taken, and a small one that carries heroes (places 1 and 3 of the
first, one of them twice), in which games are saved, loaded, lost, begun again
and torn in many ways (`Budget` 6; 3 and 2 for the others). Heroes are lost,
which moves those behind up, and join, so that a place may be empty; `Garbage`
is what the code reads there. `IntMax` is 3: values at, inside and beyond it are
set, one with seven decimals, a table with two kinds of keys, and one that cannot be saved.

No fairness is assumed and deadlock is not checked: the bounds stop a session.

## 9. Runs

| run | configuration | properties and what they show |
|---|---|---|
| stack | section 3; 284 678 states | `StatsMatch`: attack, defense, speed and flight always equal what the effects that are on are worth; `EffectsAgree`: so does their count, and opposite ones never meet; `NoZombie`: between handlers a stack has creatures iff it is not DEAD and none is to be buried; `LivesCounted`: one rebirth, not none and not two, and no heal exceeds the first size; `ShieldMatches`: shield points iff the effect is on; `BlowCostsTurn`: a stack woken by a blow does not act in that round; `HealthKept`: shield and creatures together lose exactly the blow, and a spell takes all of it from the creatures, unless the shield is inherited (section 10), and raising loses nobody but a ghost stack's growth; `ImplementsFlags` (refinement): the flags of the turn change as `TurnFlags` says; `EffectsWearOff` (liveness): every effect but the force shield ends |
| field_wide | wide stack and narrow one against a phoenix; raising, summoning, grenade, fire; 18 800 states | `GridMatches`: stacks and grid agree; `CorpsesMatch`: corpses lie where and as their stacks fell; `NobodyHalfDead`: nobody is left between alive and buried; `CasualtiesKept`: no summoning takes a casualty's slot |
| field_images | two stacks, mirror images, teleport; 33 216 states | `ImagesMatch`: links between images and originals and the count of slots; `ImagesExpire` (liveness): no image stays |
| turn_order | two against one, all spells, castle, fire wall | `TurnsEarned`, `NobodyForgotten`: one turn a round and what morale gives, for everybody, and in a stale round at most one turn too many, for one stack; `GarrisonOnce`: one volley a round; `ActiveIsFit`: nobody moves a stack that is dead, held or done; `VictoryOnce`; `RoundsGoOn` (liveness) |
| resource_cache | section 6 | `NoDangling`, `CountsUsers`, `ExpungeSafe`, `ImplementsHandles` (refinement) |
| hero_pool | section 7, one place unused; 342 384 states | `OwnedOnce`: one list, one place, no list too long; `StatusMatches`: list and owner agree, and so does the status of whoever is not mismarked; `OffersFree`: nobody is offered a prisoner, or an owned hero who is not mismarked; `RetreatedWaits`: who retreated keeps his place on offer |
| session | section 8; 3 101 325 states | `HeroesCarried`: a scenario begins with the heroes who won the one before; `WayMatches`: what is played or offered is what the last victory opens, there is always something to choose, each scenario's days count once; `VictoryKept`: while the next scenario is chosen the autosave leads to the same choice; `ScriptsMatch`: the script that runs is the map's; `NothingLost`: any number of saves changes a variable once at most |
| field_turned_shot, field_dig_up, field_lost_vanish, turn_held, session_lost_script | one situation each | counterexamples, section 10 |

The type invariant of each state machine is checked in one of its runs. All
passing runs exhaust their state space.

## 10. Where the code disagrees with its documents

With a run that finds the shortest example:

* **field_turned_shot** (army.cpp:1721): a two-hex shooter that fired behind
  itself is turned back in the wrong order, which moves its `occupiedHex`
  again instead of back; the grid stays. `GetStackHex` is documented to return
  the hex that the stack stands on (SCRIPTING.TXT:1098).
* **field_dig_up** (combat_spells.cpp:86): raising a corpse that lies under
  another gives the hex to the last corpse of the pile. A FIXME beside the
  loop suspects it.
* **field_lost_vanish** (army.cpp:2057): when an image expires in the same
  round in which a later stack burns, the list of stacks to vanish is cleared
  and the hex of the image stays taken. `IsHexEmpty` says otherwise
  (SCRIPTING.TXT:1024).
* **turn_held** (HEROES2W.c:39171): when every living stack is held as a round
  begins, the result of the second `GetNextArmy` is ignored and the stack that
  acted last acts again, although blinded. Spell text: spells.cpp:27.
* **session_lost_script** (save_xml.cpp:515): a save takes the variables from
  the script that runs and the script from the directory, by the name of the
  map begun last in this program; a load does not set that name. A loaded game
  is therefore saved with variables and without their script, and when it is
  loaded again scripting.cpp:284 shows "Ironfist bug detected".

Read in the code while modelling, without a run of their own:

* A disrupting ray sets any defense below 1 to 1 (combat_spells.cpp:623): after
  a ray and the end of Stoneskin the next ray *raises* it. The text promises a
  reduction by three (spells.cpp:48).
* `Disenchant` leaves Force Shield on (army.cpp:2585, against spells.cpp:87);
  a new elemental in the slot of one that died shielded inherits its shield
  points (army.cpp:2517). Its effect is not on: a blow that goes through it ends
  nothing (army.cpp:2228), so that the same points absorb a part of every such
  blow, until smaller ones wear them down. `HealthKept` says so.
* Animate Dead shrinks a ghost stack that has grown (combat_spells.cpp:53), and
  one that is too weak to raise a creature leaves a stack of 0 creatures that
  is not DEAD (combat_spells.cpp:331).
* An image's rear hex is free but its front hex may be that of the active
  stack (HEROES2W.c:13127 through 83252), which then stands on a hex that the
  grid gives to the image: mirroring wide stacks breaks `GridMatches`.
* Teleport asks the grid where the stack's other hex is, which a narrow
  successor may have left as it was (combat_spells.cpp:560), and puts a wide
  stack that does not fit one hex back without looking at that hex (line 580):
  teleporting wide stacks breaks `GridMatches`.
* A narrow stack that a grenade pulls onto a hex on which a wide one died keeps
  the mark of the wide one's other hex (combat_spells.cpp:1976). When it dies
  there its corpse is taken for half of a wide one: `CorpsesMatch` fails.
* The image of a phoenix may be reborn (army.cpp:2066).
* A fire wall that decides a battle while a stack skips makes `DoVictory` run
  twice (combat.cpp:1383); `VictoryOnce` allows exactly this.
* A fire wall lasts three rounds, not two (combat.cpp:446-453, spells.cpp:85).
* The resistance of dwarves is never applied: it asks one variable to equal
  two creatures (combat_spells.cpp:397-402). Halved defense looks at the
  attacker's Burn (army.cpp:2102).
* A bonus of good morale that is skipped or waited away leaves
  `bInHighMoraleBonus` set and denies the next stack its own.
* A stack that acted, died and is raised in a later round keeps its flag and
  does not act in that round (combat_spells.cpp:41).
* `shouldVanish` and `limitCreature` have 20 columns for 21 slots (combat.h:188).
* The week is meant to replace the heroes on offer but those who retreated in
  this turn; `!flags & ...` is `(!flags) & ...`, so that a hero for hire is never
  replaced (game.cpp:582), and where one is, the status of the hero who goes is
  set instead of that of the one who comes (game.cpp:589). The original
  function frees the one who goes and marks the one who comes
  (HEROES2W.c:27590-27612). With an unused place for a player the latter line runs
  every week: the first offer of an unused place is the hero -1, whose byte
  becomes 64 (so that the second one stays -1), and from then on a random hero, who is replaced by another and left marked.
  Somebody may have hired him, or hire him later, and he is then marked as for
  hire while he serves: `StatusMatches` and `OffersFree` except him
  (`mismarked`), and the computer, which tells friend from enemy by the status,
  does not. About one free hero a week is lost in this way. When none is left, after some
  forty weeks, the mismarked ones are offered, and who hires one takes him out of
  another's army, without leaving that list.
* `CheckValidAvailableHeroes` does not mark the heroes it puts on offer, who are
  replaced at the next visit to a town (HEROES2W.c:30974). A hero whom the week
  takes off offer is left marked as for hire, and drawn again only when no free
  one is left.
* A hero dismissed before the first battle of a campaign's map counts as one who
  retreated (campaign.cpp:332 sets `gbRetreatWin`).
* A chase that a script forces is written among the script's variables, and lost
  if it declares none (save_xml.cpp:578); loaded, it also leaves a global of its name
  in Lua. `sharePlayerVision` is reset by a load and never saved
  (SCRIPTING.TXT:125-129).
* Loading a game without a script leaves the script of the map played before
  running (scripting.cpp, save.cpp); `ScriptsMatch` excepts games in which that
  happened.
* A declared variable that is nil, or a value of an unsupported type in a table,
  goes on into `lua_next` with something that is no table or no key: the program
  ends before the file is opened (scripting.cpp:211). Every save leaves a value
  on the Lua stack (line 251).
* Integers beyond 32 bits, decimals beyond the sixth, and the difference between
  a number and a string as a table's key do not survive a save (scripting.cpp:258).
* Heroes are saved and loaded by position: a place that is empty reads
  `heroes[-1]`, and entries of earlier scenarios stay (campaign.cpp). Awards of a
  campaign's file are written at the index of the scenario (campaign.cpp:416).
* A campaign in a file is not checked for what `CampaignsAssumption` says: a
  scenario that opens no other leaves a dialog in which nothing can be chosen
  (campaign.cpp:398).
* A save is written over the old one and a failure calls `exit` (save.cpp:122-134);
  an empty file leaves `first_byte` uninitialized (save.cpp:64).
* Icons fetched in drawing are never disposed of (combat.cpp:787, 1257,
  army.cpp:2730, combat_spells.cpp:1569-1588 when the battle is not shown).

## 11. Theorems

Checked by TLAPS for every value of the constants, from the assumptions named
in the modules; a hypothesis beyond them stands in the theorem itself and is
named here.

**BattleStack_proofs**, with lemmas on every operator in
`EffectRules_proofs`. The invariant is

    IInv == Sound(stack, rayLoss) /\ Healthy(stack) /\ rayLoss \in Int
            /\ round \in {0, 1} /\ budget \in 0..Budget

`Sound` joins the type, `Numbers`, `Counted` and `Apart`. They cannot be
separated: that cancelling an effect restores the right number needs that its
opposite is not on; that displacing ends what it should needs that the count
is right. `Healthy` bounds creatures and wounds. One lemma per operator says
what it keeps; `StepKeeps` has one case per action.

| theorem | property |
|---|---|
| `TypeCorrect` | `TypeOK` |
| `StatsCorrect` | `StatsMatch` |
| `EffectsCorrect` | `EffectsAgree`, from `CountCorrect` and `ExclusionCorrect` |
| `ShieldCorrect` | `ShieldMatches` |
| `NeverZombie` | `NoZombie`, if every spell raises a creature (`Strong`: 50 power >= hit points) |
| `LivesCorrect` | `LivesCounted` |
| `HeldStackLosesTurn` | `BlowCostsTurn`, an action property |
| `DamageAddsUp` | `HealthKept`, an action property |
| `EffectsFade` | the step behind `EffectsWearOff`: no effect starts or lengthens but by a spell, an ability or a fire, and a round shortens or ends every effect, but the force shield, of a stack with creatures |
| `Refinement` | `ImplementsFlags`: every step is one of `TurnFlags`, if every spell raises a creature (`Strong`) |

For `HeldStackLosesTurn` and `DamageAddsUp` every operator has a second lemma, of what it takes.
`HeldStackLosesTurn`: whoever is held for more than this round is woken either by
`Damage`, which sets the flag, or by a count that is still above zero; each
action is one of these or takes no creatures (`HitCostsTurn`, `CountDownTurn`,
`ResetRoundTurn`). `DamageAddsUp`: creatures and the wounds of the first are the
quotient and the remainder of the flesh (`Division`), which
`Damage`, `Settle` and the shield each take from exactly (`DamageTakes`, `SettleTakes`, `DamageEnemyTakes`).
`EffectsFade`: of each operator, that no strength grows in it (`CancelFades`,
`DamageFades`, `DamageEnemyFades`, `SettleFades`), and that `CountDown` takes
one from all but the shield (`CountDownFades`, `ResetRoundFades`).
`Refinement`: a third lemma of each operator says what it leaves of the marks
(`CancelMarks`, `TookDamageMarks`, `DamageMarks`, `SettleMarks`, `CountDownMarks`,
`ResetRoundMarks`). An operator cancels many effects, in an order, and
undoes numbers on the way; of all that, only four bits remain, and one lemma for
each kind of action finds the step of `TurnFlags` (`SpellsSeen`, `BlowsSeen`,
`OwnStepsSeen`, `RoundSeen`).

The hypothesis `Strong`, and the exception that `ShieldMatches` makes for
elementals, are exactly two of the divergences listed above: a resurrection too
weak, and an inherited shield.

**ResourceCache_proofs**. The invariant is

    IInv == TypeOK /\ Lists(list, live) /\ Unique /\ NoDangling /\ Owned
            /\ FontIcons /\ CountsUsers /\ Walk

`Lists`: the list links the live objects, each once. `Unique`: one object a
file. `Owned`: a pointer to a leaky file is its owner's. `FontIcons`: exactly
the live fonts point at an icon, their own. `Walk`: `Expunge`'s cursor is the
head of what is left. A decreasing count proves nothing by itself; `CountsUsers`
turns "the count reached zero" into "no pointer is left", by counting the set
of users, and for a leaky file `Owned` says that its only user is the one
that disposes.

| theorem | property |
|---|---|
| `TypeCorrect`, `NeverDangling`, `CountCorrect`, `ExpungeCorrect` | `TypeOK`, `NoDangling`, `CountsUsers`, `ExpungeSafe` |
| `SharedCorrect` | that no file is loaded twice, which no run needs to check beside the refinement |
| `Refinement` | `ImplementsHandles` |

Refinement: a lemma `ExactState` shows that the invariant gives `Exact` of
`Handles`; `StepImplements` maps get to `Take`, dispose to `Release`, drawing
to `Pin` or a stutter, and the expunging of one resource to `Drop`.

**TurnOrder_proofs**. For every set of stacks with at least one a side, every
choice of speeds, morale, heroes and spells, with or without a castle and fire.
A *situation* is the battle with its history, and each operator of the model
takes one situation to the next. The invariant is

    IInv == /\ FlagsType /\ LastFair /\ Crown
            /\ Sound(Situation)
            /\ \E C : /\ Credit(C) /\ Owed(Situation, C)
                      /\ ~ended /\ ~Decided(Situation) => Playable(Situation, C)

`Sound`: the history agrees with the flags. Nobody is owed more than one turn,
a stack whose MAYBE_NOT_LOST_TURN is set is owed none (unless a blow cost its
turn, it died, or it rose), and the castle has shot iff it need not shoot any
more. `Owed`: nobody had a turn too many, and a stack without the flag is owed
one, those of `C` having a *credit* of one turn: nobody, or in a stale round the
stack that was active when it began. `Playable` adds that the active stack is
owed its turn and, if nobody has credit and its own side moves it, is alive and
able. The credit makes a stale round inductive: the turn that nobody gave is
the one that the credit pays for, and it is paid once. No property is inductive without the others:
that nobody acts twice needs that the active stack is owed its turn; that needs
that whoever `GetNextArmy` picks is without the flag; that the flag means what
it says needs the upper bound on the turns owed. `Crown`: `DoVictory` has run
iff `Main` has returned 2, or a wall of fire has decided the battle, which then
stays decided until `Main` looks.

Blows, volleys and spells are *mild* (they cost turns and give none), so one
lemma serves them all; `FreezeSound`, `ChooseSound`, `NotFoundSound`,
`ResetSound` and `BonusSound` are about the operators that change what is owed;
`NextIInv` has one lemma per action.

| theorem | property |
|---|---|
| `TypeCorrect` | `TypeOK` |
| `NobodyActsTwice` | `TurnsEarned` |
| `HeldActsOnlyStale` | that what `HeldNeverActs` says fails in stale rounds only: turn_held shows its one cause |
| `RoundsAreFair` | `NobodyForgotten` |
| `CastleShootsOnce` | `GarrisonOnce` |
| `ActiveStaysFit` | `ActiveIsFit` |
| `WonOnce` | `VictoryOnce` |
| `TurnsRunOut` | the step behind `RoundsGoOn`: the turns owed stay in -1..1, only a new round raises them, and an action of a stack lowers its own, or is followed by a bonus of good morale although the one before gave none, or decides the battle in a fire |
| `SlotsAreStacks` | that every operator of a turn changes a slot as `TurnFlags` changes a stack |
| `StacksFitSlots` | the converse: a slot that may burn, that such a creature strikes or that the spell can be cast on meets every change of `TurnFlags` |

`TurnsRunOut` has a lemma for each operator that no turn owed grows in it and
that the flag of the bonus stays (`MildLower`, `FreezeLower`, `PicksLower`,
`FinishLower`); what is left is what the active stack pays (`TakenRuns`,
`SkipRuns`). A bonus costs no turn, but `GoodMorale` gives no second one in
a row (`GoodMoraleGives`): so two actions of a stack cannot both be free.

The last two of the table are about operators, in every situation that is `Sound` (which
`IInv` keeps): `View(s, t)` is the slot `t` as a set of marks. For the first, whatever
hits a slot is a `Hit` with those that die and those that are held added
(`HurtView`, `StruckView`), so that one lemma serves volleys, fire, blows and
burns. Its two hypotheses are where the code calls: a volley is asked for only
while the castle has to shoot, and it is a living stack that enters the fire. The
second names a witness for each change (`StruckComplete`, `ResetComplete`,
`SpellsReach`): it is what makes the free choices of `TurnOrder` wide enough for
the numbers of `BattleStack`.

**Battlefield_proofs**. For every row of hexes, lineup, number of slots, height
of piles, set of spells and budget, where the code keeps its own rules:

    Tame == no wide stack shoots behind itself, is teleported or mirrored,
            no corpse is raised from under another (~DigUp), no grenade is thrown
            onto old marks (~OldMarks), nobody burns when images may fall

Every conjunct is needed: for each of them TLC finds a state that breaks one of
the properties when it is dropped (field_turned_shot, field_dig_up and
field_lost_vanish show three; section 10 says what happens in the others). The
invariant is

    IInv   == Good(field) /\ budget \in 0..Budget /\ round \in {0, 1}
    Good(f) == Mid(f) /\ nobody is dying or has yet to vanish
    Mid(f)  == type /\ Sound units /\ WideOK /\ Grid /\ Marks /\ Graves
               /\ Links /\ Counted /\ Kept

`Mid` also holds in the middle of a blow and of `ResetRound`, where some are
killed and not buried and fallen images still hold their hexes: `Struck`,
`Bury`, `Vanish`, `Reborn`, `Moved`, `Pull` and `StackRound` each keep it, and
the actions are put together from these lemmas. That the grid matches (`Grid`)
needs to know who has hexes besides those who stand; that a corpse lies right
(`Graves`) needs the marks of those who stand (`Marks`), because `ProcessDeath`
copies what the hexes say; that no slot of a casualty is taken (`Kept`) needs
that only images and elementals are `LeavesNoBody`, and that an image is nobody's
original (`Sound`). The two loops, over the hexes of a grenade and over the
slots of a round, are recursive functions: `Iterates` says that they exist, and
`StaysIn` that what each turn keeps holds at the end. That the lineup stands
right at the start comes from `LineupAssumption` and `PostsAssumption`.

| theorem | property |
|---|---|
| `TypesCorrect`, `GridCorrect`, `CorpsesCorrect` | `TypeOK`, `GridMatches`, `CorpsesMatch` |
| `HalfDeadCorrect`, `CasualtiesCorrect`, `ImagesCorrect` | `NobodyHalfDead`, `CasualtiesKept`, `ImagesMatch` |
| `ImagesFade` | the step behind `ImagesExpire`: a round takes exactly one from the lifespan of every image or destroys it, nothing else changes one, and images come from no spell but the one, which gives them the hero's power in rounds |

`ImagesFade` needs that every slot has one turn in the loop of `ResetRound` and
no more (`OneTurn`), and of everything else that it makes no image and raises
none (`Keeps`): a phoenix's image that is killed rises as an image of the
same rounds (`RebornMid`), a corpse that is raised was none (`RaisedGood`), and
the slot that a new image takes held none (`MirrorGood`).

**HeroPool_proofs**. For every number of heroes, jails, players, places and
places in a list within the module's assumptions, any number of places for players unused.
The invariant is

    IInv == Good(g, mismarked) /\ Open(g) /\ Resting(g)
            /\ (mode # "stolen" => Single(g, mismarked))
            /\ types of the rest

`Good`: no list is longer than the array, a player who is out has an empty one,
only who may be in jail is, and a status that names a player is of a
hero in his list and, the other way round, of every hero there who is not
mismarked. `Single`: lists hold a hero once, and list and owner agree; it is the part
that a theft ends. `Open`: every offer to a player is of a hero whose
status is free or for hire. `Resting`: who retreated in this turn is in no
list. `CheckValidAvailableHeroes` and `PerWeek` need
`Good` to hold while `Open` does not. What makes `Open` true again is a matter
of counting: `GetNewHeroId` returns a hero of somebody's status only when no
other is left, lists hold at most `NumPlayers * MaxOwned` (`OwnedFit`, by the
pigeonhole principle), and the assumption says that there are more than those
and the prisoners (`NewHeroUnowned`). In the code there are 54 heroes, and at
most 48 owned and five in jails.

| theorem | property |
|---|---|
| `TypesCorrect`, `OwnedOnceCorrect`, `StatusCorrect`, `OffersCorrect` | `TypeOK`, `OwnedOnce`, `StatusMatches`, `OffersFree` |
| `RetreatedCorrect` | `RetreatedWaits`, an action property |
| `MismarkedByUnused` | only who stands on the offer of an unused place is ever mismarked |
| `FullTableSafe` | `NumPlayers = MaxPlayers`: nobody is mismarked and nobody's hero is taken, so that the exceptions of the properties are never used |
| `OwnersRefined` | `Spec /\ []~Stolen => ImplementsOwners`: while nobody takes a mismarked hero, every step is one of `HeroOwners` or none |
| `FullTableRefined` | the same for the whole game, if all places are taken |
| `DeadOwnNobodyCorrect` | a player who is out has no heroes and gets none |

`MismarkedByUnused` is why the exception is no escape: of the offers that `PerWeek`
visits, those to players are `Open`, and a hero on one whose status is not for
hire is free and so, by `Marked`, in nobody's list unless he was mismarked
before. `FullTableSafe` follows, because no offer is left that could be to blame.

For `OwnersRefined` each function has a lemma on whom it leaves every hero with
(`JoinPost`, `DeallocatePost`, `PlayerDeadPost`; offering changes nobody's post)
and each action one that names its step (`RecruitOwners`, `LossOwners`,
`NextPlayerOwners` and so on). It takes both halves of `IInv`: an offer that
somebody owned would make `RecruitHero` a theft. That lists
hold a hero once gives the room in `HeroOwners`: no more heroes serve a player
than his list is long (`ServingFits`). That a hero lost was a living player's
follows from the empty lists of those who are out (`ServedFacts`). The
refinement and `DeadOwnNobody` are stated by theorems only, not by a run.

**Session_proofs**. For every campaign that satisfies `CampaignsAssumption`, any
scripts and values, and any number of saves, loads, ends of the program and
days. The invariant says the same of the game in memory and of the one in each
intact file:

    IInv == Types /\ Files /\ (mode = "map" => Playing)
            /\ (mode = "won" => Won) /\ (mode = "choosing" => Choosing)

A game is *on its way*: its scenario is one that the scenario won last opens,
what was played before has smaller numbers, its days are those of its history,
and `savedHeroData` holds the heroes of the scenario that is its source, which
is the current one from the moment the autosave marks it as played. Because the
predicate travels with the history in each file, a load is proved exactly like
a step, and `HandleVictory` after a load of the autosave like one at once.

| theorem | property |
|---|---|
| `TypesCorrect`, `HeroesCarriedCorrect`, `WayCorrect`, `VictoryCorrect` | `TypeOK`, `HeroesCarried`, `WayMatches`, `VictoryKept` |
| `ScriptsCorrect`, `NothingLostCorrect` | `ScriptsMatch`, `NothingLost` |
| `ReportsOnlyMixed` | the bug report of session_lost_script is never shown unless scripts of two maps got mixed |
| `RoundTripSettles` | one save and load changes a value at most once, all later ones leave it alone, and a value that a text can hold never changes |

Model-checked only: liveness (`EffectsWearOff`, `ImagesExpire`, `RoundsGoOn`),
because it rests on fairness, which is beyond the prover. What the fairness
works on is proved for every value of the constants: `EffectsFade`, `ImagesFade`
and `TurnsRunOut` say that each of the three counts something that only the
listed, bounded steps raise and that every round, or every action of a stack,
lowers. `HeldNeverActs` and the other properties of the violation runs are false.

## 12. Not modelled

* In battle: luck, `temporaryQty`, the arithmetic of damage, mana, eagle eye,
  area shapes, path search, moats, bridges, the catapult's targets; Plasma Cone
  and Mass Teleport, which move stacks as the grenade and Teleport do; the
  choices of the computer and the network. The choices are free in the models;
  the rest does not touch the state that they keep.
* Hazards without a property. Three are cases in which the code breaks a rule that
  a property states, and which its run and its theorem leave out: an Animate Dead
  too weak to raise anybody (`NoZombie`), a disrupting ray that raises the defense
  (`StatsMatch` counts what it did), a grenade on an old mark (`CorpsesMatch`);
  section 10 describes them. `shouldVanish` and `limitCreature` have 20 columns
  for 21 slots (combat.h:188): what a write beyond them does is undefined, and
  the models cast an image only with a slot free. A script that vetoes a spell
  returns before `heroCastThisTurn` is set (combat_spells.cpp:408), so that the
  computer may choose the same spell for ever: that it does not is up to the script.
* In scripts and saves: tables in tables, the artifacts' script, the callbacks
  and the 2886 lines of accessors of `funcs.cpp`, each a few assignments; the old
  binary format; all of a game's data that is only copied. In campaigns: awards,
  bonuses, dialogs, cheats.
* Adventure map, towns and daily turns, apart from heroes, days and chases, are
  sequential code over large data with no invariant across handlers that a
  bounded model would reveal.
* Animation, sound, GUI, start and settings are input and output. Vendored
  libraries (Lua, TinyXML, Poco, `optional`, the Miles header), the XML bindings
  that XSD generates (`map_xml.*`) and the decompiled editor are not this
  project's logic; together with the part of `HEROES2W.c` that the mod neither
  replaces nor calls from what is modelled, they are most of the repository's
  lines. The modules translate about 5800 lines: most of what `combat/army.cpp` and
  `combat/combat_spells.cpp` do to state, and the parts of `campaign/campaign.cpp`,
  `scripting/scripting.cpp`, `resource/resourceManager.cpp`, `game/save.cpp`,
  `combat/combat.cpp` and of the original functions around them.

## 13. What is left

Done, in this order: one stack and its theorems; the board; the resource
manager with its refinement; the order of turns; the heroes of the players;
campaigns, scripts and saves composed; grenades; the theorems about the board;
the turns that a stack and an order of turns agree on (`TurnFlags`), what makes
effects, images and rounds end, and what the tables of heroes promise
(`HeroOwners`).

What would come next:

1. Mana and the vetoed spell: a computer player that chooses by mana, to state
   what a script must not do for a round to end.
2. Town recruits, growth and income over a week (`PerWeek`, `PerDay`) with the
   network's turn order.
3. A battlefield on the real board, with six directions, for Plasma Cone.
