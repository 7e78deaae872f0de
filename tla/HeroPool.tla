----------------------------- MODULE HeroPool -----------------------------
(***************************************************************************)
(* Whose heroes are whose.  The game keeps the same fact four times: the   *)
(* list heroesOwned of each player, the ownerIdx of each hero, the byte    *)
(* heroHireStatus of each hero (free, a player's, for hire, in jail) and   *)
(* the two heroes each player may hire, heroesForPurchase.  Hiring,        *)
(* retreat, dismissal, jails, the death of a player, the first day of a    *)
(* week and two repairing functions each change some of the four.          *)
(*                                                                         *)
(* A game has places for MaxPlayers players and NumPlayers who play.       *)
(* PerWeek (game/game.cpp) is the rewritten function of the mod; it visits *)
(* all places, the unused ones included, whose offers are the hero -1 at   *)
(* first and heroes that nobody watches over later.  A hero on such an     *)
(* offer may be hired elsewhere, and the next week marks him as for hire   *)
(* although he serves somebody: he is mismarked.  When the free heroes run *)
(* out he is offered to a player again, who takes or looks at what is      *)
(* another's; the model follows that one step and ends (stolen), for then  *)
(* functions of the game take heroes out of the wrong list or players[-1]. *)
(***************************************************************************)
EXTENDS Integers, Sequences, FiniteSets

CONSTANTS
  Hero,        \* the heroes of the game (54)
  NoHero,      \* the hero -1
  Jailed,      \* the heroes that the map puts in jails
  MaxPlayers,  \* NUM_PLAYERS (6)
  NumPlayers,  \* game.numPlayers
  MaxOwned,    \* heroes a player may own (8)
  Crowd,       \* owned heroes from which on free ones are left alone (40)
  Budget       \* bound: hirings, jails, lost battles, dismissals, fallen towns and last artifacts

Player  == 0 .. MaxPlayers - 1
Present == 0 .. NumPlayers - 1
Offer   == Player \X {0, 1}          \* a player and an index of heroesForPurchase

Nobody  == -1                        \* ownerIdx of a hero without an owner
Free    == -1                        \* values of heroHireStatus that are no player
ForHire == 64
InJail  == 65

ASSUME PlayersAssumption ==
  /\ MaxPlayers \in 1 .. 6 /\ NumPlayers \in 1 .. MaxPlayers
  /\ MaxOwned \in Nat \ {0} /\ Crowd \in Nat /\ Budget \in Nat

\* In the game: 6 players of 8 heroes, and at most five jails.
ASSUME HeroesAssumption ==
  /\ IsFiniteSet(Hero) /\ Jailed \subseteq Hero /\ NoHero \notin Hero
  /\ Cardinality(Hero) > NumPlayers * MaxOwned + Cardinality(Jailed)

VARIABLES
  g,      \* the part of the object game that is about owners and offers
  cur,    \* giCurPlayer
  mode,   \* on the map, in a town, in one of the two loops over offers, or stolen
  at,     \* the loop's next offer
  stray,  \* heroHireStatus[-1]: scrollSpell[13] of the last of the heroes
  budget, \* events left of those that Budget bounds
  mismarked  \* history: heroes marked for hire by PerWeek while in the list they are in

vars == <<g, cur, mode, at, stray, budget, mismarked>>

\* An event that the bound counts.
Spend == budget > 0 /\ budget' = budget - 1

-----------------------------------------------------------------------------
(***************************************************************************)
(* Owners and offers.                                                      *)
(***************************************************************************)

Roster(x, p) == {x.heroesOwned[p][i] : i \in 1 .. Len(x.heroesOwned[p])}
AllOwned(x)  == UNION {Roster(x, p) : p \in Present}
Living(x)    == {p \in Present : ~x.playerDead[p]}

\* Who has left his list is not mismarked any more.
Cleared == mismarked' = mismarked \cap AllOwned(g')

\* Mutant: the status of the random hero is not looked at.
GetNewHeroId_Any(status) == Hero

\* A random hero: a free one, and if in 1499 tries there is none one that is
\* for hire already; if there is neither, the last one tried, whoever owns it.
GetNewHeroId(status) ==
  LET Of(s) == {h \in Hero : status[h] = s}
  IN  IF Of(Free) # {} THEN Of(Free)
      ELSE IF Of(ForHire) # {} THEN Of(ForHire) ELSE Hero

\* Mutant: offers are not compared with the lists of heroes.
Clashing_None(x) == {}

\* The offers that CheckValidAvailableHeroes replaces: those of players who
\* play, of heroes that somebody who plays owns.
Clashing(x) ==
  {o \in Present \X {0, 1} : x.heroesForPurchase[o] \in AllOwned(x)}

\* Mutant: an offer is taken away and nobody else is offered.
CheckedValid_Emptied(x, new) ==
  [x EXCEPT !.heroesForPurchase =
     [o \in Offer |-> IF o \in Clashing(x) THEN NoHero ELSE @[o]]]

\* CheckValidAvailableHeroes: the replacements are not marked as for hire.
CheckedValid(x, new) ==
  [x EXCEPT !.heroesForPurchase =
     [o \in Offer |-> IF o \in Clashing(x) THEN new[o] ELSE @[o]]]

\* What GetNewHeroId may put into the offers S.
Replacements(S, status) == [S -> GetNewHeroId(status)]

\* A hero is offered to a player and marked as for hire.
Offered(x, o, h) ==
  [x EXCEPT !.heroesForPurchase[o] = h, !.heroHireStatus[h] = ForHire]

\* Mutant: the owner's list is changed and the hero's status is not.
Join_Unmarked(x, p, h) ==
  [x EXCEPT !.heroesOwned[p] = Append(@, h), !.ownerIdx[h] = p]

\* A hero joins player p.
Join(x, p, h) ==
  [x EXCEPT !.heroesOwned[p] = Append(@, h), !.ownerIdx[h] = p,
            !.heroHireStatus[h] = p]

\* The list without the hero: those behind it move up.
Without(list, h) ==
  LET k == CHOOSE k \in 1 .. Len(list) : list[k] = h
  IN  [i \in 1 .. Len(list) - 1 |-> IF i < k THEN list[i] ELSE list[i + 1]]

\* Mutant: a hero who retreated this turn is displaced like any other.
RetreatSlot_Random(x, p, v) == <<p, v>>

\* Where a hero who retreats goes: an offer taken by chance, the other one if
\* its hero retreated in this turn.
RetreatSlot(x, p, v) ==
  IF x.held[x.heroesForPurchase[<<p, v>>]] THEN <<p, 1 - v>> ELSE <<p, v>>

Leave(x, h) ==
  [x EXCEPT !.heroesOwned[x.ownerIdx[h]] = Without(@, h), !.ownerIdx[h] = Nobody,
            !.heroHireStatus[h] = Free]

\* hero::Deallocate without its call of CheckEndGame.
Deallocate(x, h, v) ==
  IF ~x.gbRetreatWin THEN Leave(x, h)
  ELSE LET o == RetreatSlot(x, x.ownerIdx[h], v)
           d == x.heroesForPurchase[o]
           y == Leave(x, h)
       IN  [y EXCEPT !.heroesForPurchase[o] = h,
                     !.heroHireStatus =
                       [i \in Hero |-> CASE i = h -> ForHire
                                         [] i = d /\ i # h /\ @[i] = ForHire -> Free
                                         [] OTHER -> @[i]],
                     !.held[h] = TRUE]

OfferedTo(x, p) == {x.heroesForPurchase[<<p, 0>>], x.heroesForPurchase[<<p, 1>>]}

\* PlayerDead for the players in dying: their heroes and the heroes offered to
\* them are free again; the list of offers stays as it is.
PlayerDead(x, dying) ==
  LET theirs == UNION {Roster(x, p) : p \in dying}
      lapsed == {h \in UNION {OfferedTo(x, p) : p \in dying} \ {NoHero} :
                   x.heroHireStatus[h] = ForHire}
  IN  [x EXCEPT
         !.playerDead = [p \in Player |-> @[p] \/ p \in dying],
         !.heroesOwned = [p \in Player |-> IF p \in dying THEN <<>> ELSE @[p]],
         !.ownerIdx = [h \in Hero |-> IF h \in theirs THEN Nobody ELSE @[h]],
         !.heroHireStatus =
           [h \in Hero |-> IF h \in theirs \cup lapsed THEN Free ELSE @[h]],
         !.gbRetreatWin = @ /\ dying = {}]

\* CheckEndGame: whoever has no town, and no hero or no day left, is out; if
\* nobody else is left the game ends, which is left out.
Losers(x) == {dying \in SUBSET Living(x) : dying # Living(x)}

\* The heroes in S have not retreated in this turn.
Released(x, S) == [x EXCEPT !.held = [h \in Hero |-> h \notin S /\ @[h]]]

-----------------------------------------------------------------------------
\* A game in which player p begins with the hero first[p], and offers are the
\* heroes for hire.
NewGame(first, offers, retreat) ==
  [heroesOwned |-> [p \in Player |-> IF p \in Present THEN <<first[p]>> ELSE <<>>],
   heroesForPurchase |-> [o \in Offer |-> IF o[1] \in Present THEN offers[o] ELSE NoHero],
   heroHireStatus |->
     [h \in Hero |->
        IF h \in Jailed THEN InJail
        ELSE IF \E p \in Present : first[p] = h THEN CHOOSE p \in Present : first[p] = h
        ELSE IF \E o \in DOMAIN offers : offers[o] = h THEN ForHire ELSE Free],
   ownerIdx |->
     [h \in Hero |-> IF \E p \in Present : first[p] = h
                       THEN CHOOSE p \in Present : first[p] = h ELSE Nobody],
   held |-> [h \in Hero |-> FALSE],
   playerDead |-> [p \in Player |-> FALSE],
   gbRetreatWin |-> retreat]

Init ==
  /\ \E first \in [Present -> Hero \ Jailed] :
     \E offers \in [Present \X {0, 1} ->
                      Hero \ (Jailed \cup {first[p] : p \in Present})] :
     \E retreat \in BOOLEAN :
       /\ \A p, q \in Present : p # q => first[p] # first[q]
       /\ \/ \A o, b \in DOMAIN offers : o # b => offers[o] # offers[b]
          \/ \A h \in Hero \ Jailed :
               \/ \E p \in Present : h = first[p]
               \/ \E o \in DOMAIN offers : h = offers[o]
       /\ g = NewGame(first, offers, retreat)
  /\ cur = 0 /\ mode = "map" /\ at = 0 /\ stray = Free
  /\ budget = Budget /\ mismarked = {}

\* The current player has the move, on the map or in a town.
Moving(m) == mode = m /\ ~g.playerDead[cur]

(***************************************************************************)
(* In a town.  townManager::Open and the computer's CheckBuyStuff begin    *)
(* with CheckHeroConsistency, which goes through the offers one by one.    *)
(***************************************************************************)

OpenTown ==
  /\ Moving("map")
  /\ mode' = "opening"
  /\ UNCHANGED <<g, cur, at, stray, budget, mismarked>>

HeroesInPlay(x) ==
  Cardinality({s \in Living(x) \X (1 .. MaxOwned) : s[2] <= Len(x.heroesOwned[s[1]])})

\* CheckHeroConsistency replaces an offer whose hero is owned, and one whose
\* hero is not marked, unless most heroes are owned.
Stale(x, p, h) ==
  /\ ~x.playerDead[p]
  /\ \/ x.heroHireStatus[h] \in 0 .. 5
     \/ HeroesInPlay(x) < Crowd /\ x.heroHireStatus[h] = Free

\* The loops of CheckHeroConsistency and PerWeek go through the offers in order;
\* one step takes the next offer that is in S and not passed yet.
Rank(o)       == 2 * o[1] + o[2]
NextOffer(S)  == CHOOSE o \in S : at <= Rank(o) /\ \A b \in S : at <= Rank(b) => Rank(o) <= Rank(b)
NoneLeft(S)   == \A o \in S : Rank(o) < at

StaleOffers(x) == {o \in Present \X {0, 1} : Stale(x, o[1], x.heroesForPurchase[o])}

CheckHeroConsistency ==
  /\ mode = "opening"
  /\ IF NoneLeft(StaleOffers(g))
       THEN mode' = "town" /\ at' = 0 /\ g' = g
       ELSE LET o == NextOffer(StaleOffers(g))
            IN  /\ \E h \in GetNewHeroId(g.heroHireStatus) : g' = Offered(g, o, h)
                /\ at' = Rank(o) + 1 /\ mode' = mode
  /\ UNCHANGED <<cur, stray, budget, mismarked>>

CloseTown ==
  /\ mode = "town" /\ mode' = "map"
  /\ UNCHANGED <<g, cur, at, stray, budget, mismarked>>

\* The current player takes hero h, or looks at him: is it another's?
Taken(h) == mode' = IF h \in mismarked THEN "stolen" ELSE mode

\* townManager::RecruitHero and philAI::BuildHero: the hero joins, all offers
\* are checked, and the place of the offer is filled again.
RecruitHero(v) ==
  /\ Moving("town") /\ Len(g.heroesOwned[cur]) < MaxOwned
  /\ LET o == <<cur, v>>
         h == g.heroesForPurchase[o]
         x == Released(Join(g, cur, h), {h})
     IN  \E new \in Replacements(Clashing(x), x.heroHireStatus),
            n \in GetNewHeroId(x.heroHireStatus) :
           g' = Offered(CheckedValid(x, new), o, n)
  /\ Taken(g.heroesForPurchase[<<cur, v>>])
  /\ Spend /\ UNCHANGED <<cur, at, stray, mismarked>>

\* RecruitHero when the dialog is cancelled: to show the hero in the player's
\* colors it was made the player's, and is made nobody's afterwards.
ViewHero(v) ==
  /\ Moving("town")
  /\ g' = [g EXCEPT !.ownerIdx[g.heroesForPurchase[<<cur, v>>]] = Nobody]
  /\ Taken(g.heroesForPurchase[<<cur, v>>])
  /\ UNCHANGED <<cur, at, stray, budget, mismarked>>

-----------------------------------------------------------------------------
(***************************************************************************)
(* On the map.                                                             *)
(***************************************************************************)

\* JailEvent, JailAIEvent: a hero is freed from a jail, unless there is no room.
JailEvent(h) ==
  /\ Moving("map") /\ g.heroHireStatus[h] = InJail
  /\ Len(g.heroesOwned[cur]) < MaxOwned
  /\ g' = Join(g, cur, h)
  /\ Spend /\ UNCHANGED <<cur, mode, at, stray, mismarked>>

\* The end of a battle in the current player's turn, lost by player p's hero
\* h (HeroLoses), who may have retreated or surrendered.
HeroLoses(p, h, retreated, v) ==
  /\ Moving("map") /\ h \in Roster(g, p)
  /\ LET x == Deallocate([g EXCEPT !.gbRetreatWin = retreated], h, v)
     IN  \E dying \in Losers(x) :
           g' = [PlayerDead(x, dying) EXCEPT !.gbRetreatWin = FALSE]
  /\ Cleared /\ Spend /\ UNCHANGED <<cur, mode, at, stray>>

\* hero::Dismiss: gbRetreatWin is what the last battle, or the beginning of a
\* campaign's map (campaign.cpp:332), left.
Dismiss(h, v) ==
  /\ Moving("map") /\ h \in Roster(g, cur)
  /\ LET x == Deallocate(g, h, v)
     IN  \E dying \in Losers(x) : g' = PlayerDead(x, dying)
  /\ Cleared /\ Spend /\ UNCHANGED <<cur, mode, at, stray>>

\* CheckEndGame after a town was taken.
TownFalls ==
  /\ Moving("map")
  /\ \E dying \in Losers(g) \ {{}} : g' = PlayerDead(g, dying)
  /\ Cleared /\ Spend /\ UNCHANGED <<cur, mode, at, stray>>

\* NextPlayer: the heroes offered to the player may be displaced again, and the
\* next one alive has the move; a new day releases all heroes and is, every
\* seventh time, the first of a week.
NextPlayer ==
  /\ mode = "map"
  /\ LET x == Released(g, OfferedTo(g, cur))
     IN  \E dying \in Losers(x) :
         LET y     == PlayerDead(x, dying)
             later == {p \in Living(y) : p > cur}
             First(S) == CHOOSE p \in S : \A q \in S : p <= q
         IN  IF later # {}
               THEN cur' = First(later) /\ g' = y /\ mode' = "map"
               ELSE /\ cur' = First(Living(y))
                    /\ \/ mode' = "map" /\ g' = Released(y, Hero)
                       \/ mode' = "week" /\ g' = y
  /\ Cleared /\ UNCHANGED <<at, stray, budget>>

\* GiveArtifact fills the fourteenth place of the last of the heroes.
LastArtifact ==
  /\ mode = "map" /\ stray # Free /\ stray' = Free
  /\ Spend /\ UNCHANGED <<g, cur, mode, at, mismarked>>

-----------------------------------------------------------------------------
(***************************************************************************)
(* PerWeek, offer by offer.  Its condition is meant to spare a hero who    *)
(* retreated in this turn; as !flags is taken before &, it is only that    *)
(* the hero is not for hire (game.cpp:582).  The hero who loses his place  *)
(* is marked, not the one who gets it (game.cpp:589).                      *)
(***************************************************************************)

HireStatus(h) == IF h = NoHero THEN stray ELSE g.heroHireStatus[h]

Unhired == {o \in Offer : HireStatus(g.heroesForPurchase[o]) # ForHire}

PerWeek ==
  /\ mode = "week" /\ ~NoneLeft(Unhired)
  /\ LET o == NextOffer(Unhired)
         h == g.heroesForPurchase[o]
     IN  /\ \E n \in GetNewHeroId(g.heroHireStatus) :
              LET x == [g EXCEPT !.heroesForPurchase[o] = n]
              IN  IF h = NoHero
                    THEN g' = x /\ stray' = ForHire /\ UNCHANGED mismarked
                    ELSE /\ g' = [x EXCEPT !.heroHireStatus[h] = ForHire]
                         /\ mismarked' = mismarked \cup ({h} \cap AllOwned(g))
                         /\ UNCHANGED stray
         /\ at' = Rank(o) + 1
  /\ UNCHANGED <<cur, mode, budget>>

\* The rest of PerDay, after PerWeek: all heroes are released.
EndPerDay ==
  /\ mode = "week" /\ NoneLeft(Unhired)
  /\ g' = Released(g, Hero)
  /\ mode' = "map" /\ at' = 0
  /\ UNCHANGED <<cur, stray, budget, mismarked>>

\* The game goes on; the model does not.
AfterTheft == mode = "stolen" /\ UNCHANGED vars

-----------------------------------------------------------------------------
InTown == OpenTown \/ CheckHeroConsistency \/ CloseTown
          \/ \E v \in {0, 1} : RecruitHero(v) \/ ViewHero(v)

OnMap == \/ \E h \in Hero : JailEvent(h)
         \/ \E p \in Present, h \in Hero, retreated \in BOOLEAN, v \in {0, 1} :
              HeroLoses(p, h, retreated, v)
         \/ \E h \in Hero, v \in {0, 1} : Dismiss(h, v)
         \/ TownFalls \/ LastArtifact

Next == InTown \/ OnMap \/ NextPlayer \/ PerWeek \/ EndPerDay \/ AfterTheft

Spec == Init /\ [][Next]_vars

-----------------------------------------------------------------------------
(***************************************************************************)
(* Properties.                                                             *)
(***************************************************************************)

\* Every field has its type; a player who plays is always offered two heroes.
TypeOK ==
  /\ g.heroesOwned \in [Player -> Seq(Hero)]
  /\ g.heroesForPurchase \in [Offer -> Hero \cup {NoHero}]
  /\ g.heroHireStatus \in [Hero -> Present \cup {Free, ForHire, InJail}]
  /\ g.ownerIdx \in [Hero -> Present \cup {Nobody}]
  /\ g.held \in [Hero -> BOOLEAN] /\ g.playerDead \in [Player -> BOOLEAN]
  /\ g.gbRetreatWin \in BOOLEAN
  /\ \A o \in Present \X {0, 1} : g.heroesForPurchase[o] # NoHero
  /\ cur \in Present /\ stray \in {Free, ForHire} /\ mismarked \subseteq Hero
  /\ mode \in {"map", "opening", "town", "week", "stolen"} /\ at \in 0 .. 2 * MaxPlayers

\* A hero serves one player, at one place of his list, and no list is longer
\* than the array heroesOwned, until somebody takes a mismarked hero.
OwnedOnce ==
  mode # "stolen" =>
    /\ \A p, q \in Present : p # q => Roster(g, p) \cap Roster(g, q) = {}
    /\ \A p \in Present :
         /\ Len(g.heroesOwned[p]) <= MaxOwned
         /\ \A i, j \in 1 .. Len(g.heroesOwned[p]) :
              g.heroesOwned[p][i] = g.heroesOwned[p][j] => i = j

\* The owner of a hero is the player in whose list he is, and his status, by
\* which the computer tells its own heroes from enemies, says the same.  The
\* status of a mismarked hero, whom PerWeek marked for hire in a game with an
\* unused place, does not, and a stolen one has two masters or none.
StatusMatches ==
  mode # "stolen" =>
    \A h \in Hero, p \in Present :
      /\ g.ownerIdx[h] = p <=> h \in Roster(g, p)
      /\ h \in Roster(g, p) => h \in mismarked \/ g.heroHireStatus[h] = p
      /\ g.heroHireStatus[h] = p => h \in Roster(g, p)

\* Nobody who plays is ever offered a hero that somebody owns, unless he is
\* mismarked, or a prisoner.
OffersFree ==
  \A o \in Present \X {0, 1} :
    LET h == g.heroesForPurchase[o]
    IN  /\ h \in AllOwned(g) => h \in mismarked
        /\ g.heroHireStatus[h] \in {Free, ForHire}

\* A hero who retreated in this turn and is marked as for hire stays on offer,
\* until somebody hires him, the turn ends, or both offers are such heroes.
RetreatedWaits ==
  [][\A p \in Present, v \in {0, 1} :
       LET h == g.heroesForPurchase[<<p, v>>]
           d == g.heroesForPurchase[<<p, 1 - v>>]
       IN  /\ ~g.playerDead[p] /\ g.held[h] /\ ~g.held[d]
           /\ g.heroHireStatus[h] = ForHire
           => \/ g'.heroesForPurchase[<<p, v>>] = h
              \/ ~g'.held[h] \/ g'.playerDead[p]]_vars
=============================================================================
