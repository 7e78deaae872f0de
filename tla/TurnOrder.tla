----------------------------- MODULE TurnOrder -----------------------------
(***************************************************************************)
(* Whose turn it is: combatManager::GetNextArmy, the handling of an action *)
(* by combatManager::ProcessNextAction, morale, the shots of the castle,   *)
(* and the end of a round and of the battle.  What a blow or a spell does  *)
(* to the numbers of a stack is BattleStack's: here it is dead or not,     *)
(* held (Blind, Paralyze or Petrify) or not, hypnotized or not.            *)
(***************************************************************************)
EXTENDS Integers, FiniteSets

CONSTANTS
  Slots,      \* the stacks, <<side, index>>
  Speed,      \* slot -> speed
  Eager,      \* the stacks with positive morale
  Panicky,    \* the stacks with negative morale
  Holders,    \* the stacks whose blows may hold the victim
  Ablaze,     \* the stacks that may burn, or expire, when a round ends
  Heroes,     \* the sets of sides that may have a hero
  Book,       \* the spells that the heroes know
  Castle,     \* isCastleBattle
  Fire        \* whether fire walls burn on the field

Sides == {0, 1}
Enemy(side) == 1 - side

ASSUME SlotsAssumption ==
  /\ Slots \subseteq Sides \X Nat /\ IsFiniteSet(Slots)
  /\ \A side \in Sides : \E t \in Slots : t[1] = side
ASSUME SpeedAssumption == Speed \in [Slots -> 1..14]
ASSUME MoraleAssumption ==
  /\ Eager \subseteq Slots /\ Panicky \subseteq Slots
  /\ Eager \cap Panicky = {}
ASSUME ForcesAssumption ==
  /\ Holders \subseteq Slots /\ Ablaze \subseteq Slots
  /\ Heroes \subseteq SUBSET Sides
  /\ Book \subseteq
       {"Hold", "Hypnotize", "Berserker", "Raise", "Damage", "Dispel"}
  /\ Castle \in BOOLEAN /\ Fire \in BOOLEAN

Battle == [
  dead : SUBSET Slots,      \* the DEAD flag
  held : SUBSET Slots,      \* Blind, Paralyze or Petrify is on
  hypno : SUBSET Slots,     \* Hypnotize is on
  took : SUBSET Slots,      \* MAYBE_NOT_LOST_TURN: the turn is taken or lost
  again : SUBSET Slots,     \* HAS_GOOD_MORALE
  waited : SUBSET Slots,    \* the flag 0x1000
  active : Slots,           \* activeStackOwner (otherCurrentSideThing) and
                            \* activeStack (someSortOfStackIdx)
  control : Sides,          \* currentActionSide
  bonus : BOOLEAN,          \* bInHighMoraleBonus
  heroes : SUBSET Sides,    \* heroes[side] is not null
  cast : SUBSET Sides,      \* heroCastThisTurn
  toFire : BOOLEAN,         \* timesGarrisonMustFire[1] > 0
  left : SUBSET Sides]      \* field_F377 or field_351F: retreat, surrender

Log == [                    \* history of the round
  due : [Slots -> Int],     \* one turn, one more for each bonus of morale,
                            \* less those taken or lost to bad morale
  lost : SUBSET Slots,      \* stacks whose turn a blow or a burn cost
  risen : SUBSET Slots,     \* stacks raised from the dead
  volleys : Nat]            \* volleys of the castle

VARIABLES
  b,          \* the Battle
  log,        \* the Log of this round
  last,       \* what the last round left undone, when it was closed
  round,      \* parity of the round
  beat,       \* parity of the actions of stacks, waiting excepted
  stale,      \* this round began with nobody to give the turn to
  victories,  \* calls of DoVictory
  blaze,      \* a wall of fire decided the battle while a turn was skipped
  ended       \* Main has returned 2

vars == <<b, log, last, round, beat, stale, victories, blaze, ended>>

-----------------------------------------------------------------------------
(* A situation: the battle with its history, between the calls of a step.   *)
Situation == [b |-> b, log |-> log]
NewLog == [due |-> [s \in Slots |-> 1], lost |-> {}, risen |-> {}, volleys |-> 0]

Alive(s, side) == {t \in Slots \ s.b.dead : t[1] = side}

(* IsWinner for either side: somebody left, or all of a side are DEAD.      *)
Decided(s) == s.b.left # {} \/ \E side \in Sides : Alive(s, side) = {}

(* army::Damage and PowEffect on the stacks T, of which K die: a stack that *)
(* is hit is no longer held, but it has lost its turn.                      *)
Hit(s, T, K) ==
  LET shaken == T \cap (s.b.held \cup s.b.hypno)
  IN  [b |-> [s.b EXCEPT !.held = @ \ T, !.took = @ \cup shaken,
                         !.dead = @ \cup K],
       log |-> [s.log EXCEPT !.lost = @ \cup shaken]]

Turned(l, T) ==
  [l EXCEPT !.due = [t \in Slots |-> IF t \in T THEN @[t] - 1 ELSE @[t]]]

-----------------------------------------------------------------------------
(* CheckCastleAttack for the side that has control: three KeepAttacks, each *)
(* on a stack of the attacker's.  Which stacks the towers that still stand  *)
(* pick, and whom they kill, is left open.                                  *)
MustFire(s) == Castle /\ s.b.toFire /\ s.b.control = 1

Volley(s, T, K) ==
  LET h == Hit(s, T, K)
  IN  [b |-> [h.b EXCEPT !.toFire = FALSE],
       log |-> [h.log EXCEPT !.volleys = @ + 1]]

Volleys(s) ==
  {Volley(s, p[1], p[2]) :
     p \in {q \in (SUBSET Alive(s, 0)) \X (SUBSET Alive(s, 0)) :
             q[2] \subseteq q[1] /\ Cardinality(q[1]) <= 3}}

\* Mutant: the castle is not asked again when the round ends.
LastVolleys_Omitted(s) == {s}

(* The two calls at the end of GetNextArmy, the second for the other side.  *)
LastVolleys(s) == IF Castle /\ s.b.toFire THEN Volleys(s) ELSE {s}

-----------------------------------------------------------------------------
(* GetNextArmy scans the speeds from 14 down, at each speed first the side  *)
(* that did not act last.  A stack with a bonus of good morale is met at    *)
(* every speed, and nobody else before it.                                  *)
Pace(s, t) == IF t \in s.b.again THEN 15 ELSE Speed[t]

Before(s, t, u) ==
  \/ Pace(s, t) > Pace(s, u)
  \/ /\ Pace(s, t) = Pace(s, u)
     /\ IF t[1] = u[1] THEN t[2] < u[2] ELSE t[1] # s.b.active[1]

Ready(s) == Slots \ (s.b.dead \cup s.b.held \cup s.b.took \cup s.b.waited)
Ahead(s, t) == {u \in Ready(s) : Before(s, u, t)}

(* CheckApplyBadMorale: the stacks of T freeze in panic.                    *)
Freeze(s, T) ==
  [b |-> [s.b EXCEPT !.took = @ \cup T], log |-> Turned(s.log, T)]

(* Stack t gets the turn: those met before it have all frozen.              *)
Choose(s, t) ==
  LET f == Freeze(s, Ahead(s, t))
  IN  [f EXCEPT !.b.active = t,
                !.b.control = IF t \in s.b.hypno THEN Enemy(t[1]) ELSE t[1]]

Picks(s, mayFreeze) ==
  {Choose(s, t) : t \in {u \in Ready(s) : Ahead(s, u) \subseteq mayFreeze}}

(* GetNextArmy: the situations in which it returns 1, and those in which    *)
(* it returns 0.  When only stacks that waited remain the scan starts over, *)
(* without a check of morale.                                               *)
AllFrozen(s, mayFreeze) ==
  IF Ready(s) \subseteq mayFreeze THEN {Freeze(s, Ready(s))} ELSE {}
\* Mutant: recalling those that waited clears one flag too many.
Recalled_All(s) == [s EXCEPT !.b.waited = {}, !.b.took = {}]

Recalled(s) == [s EXCEPT !.b.waited = {}]

Found(s, mayFreeze) ==
  Picks(s, mayFreeze)
    \cup UNION {Picks(Recalled(f), {}) : f \in AllFrozen(s, mayFreeze)}

\* Mutant: the round ends although some have waited.
NotFound_Waiting(s, mayFreeze) ==
  UNION {LastVolleys(f) : f \in AllFrozen(s, mayFreeze)}

NotFound(s, mayFreeze) ==
  UNION {LastVolleys(Recalled(f)) :
           f \in {g \in AllFrozen(s, mayFreeze) : Ready(Recalled(g)) = {}}}

(* ResetRound: the flags of the stacks with creatures are cleared, some     *)
(* spells wear off (H and Y are still held and hypnotized), images expire   *)
(* and burning stacks burn.                                                 *)
Fresh(s, H, Y) ==
  LET here == Slots \ s.b.dead
  IN  [b |-> [s.b EXCEPT !.took = @ \ here, !.again = @ \ here, !.held = H,
                         !.hypno = Y, !.cast = {}, !.toFire = TRUE],
       log |-> NewLog]

Reset(s) ==
  LET here == Slots \ s.b.dead
      Lasting(X) == {Z \in SUBSET X : X \cap s.b.dead \subseteq Z}
  IN  { Hit(Fresh(s, H, Y), p[1], p[2]) :
        H \in Lasting(s.b.held), Y \in Lasting(s.b.hypno),
        p \in {q \in (SUBSET (Ablaze \cap here)) \X (SUBSET (Ablaze \cap here))
                 : q[2] \subseteq q[1]} }

-----------------------------------------------------------------------------
(* What the closing of a round leaves undone.                               *)
Forgotten(s) ==
  {t \in Slots \ (s.b.dead \cup s.b.held \cup s.log.lost) : s.log.due[t] > 0}
Closing(s) == [forgotten |-> Forgotten(s) \ s.log.risen,
               volleys |-> s.log.volleys]

(* The turn passes on.  When nobody is left in the round the next begins;   *)
(* when nobody is found in that one either, that is ignored.                *)
SameRound(s) ==
  \E h \in Found(s, Panicky) :
    /\ b' = h.b /\ log' = h.log
    /\ UNCHANGED <<last, round, stale>>

NextRound(s) ==
  \E h \in NotFound(s, Panicky) : \E r \in Reset(h) :
    /\ \/ \E n \in Found(r, Panicky) :
            b' = n.b /\ log' = n.log /\ stale' = FALSE
       \/ \E n \in NotFound(r, Panicky) :
            b' = n.b /\ log' = n.log /\ stale' = TRUE
    /\ last' = Closing(h)
    /\ round' = 1 - round

PassTurn(s) == SameRound(s) \/ NextRound(s)

(* CheckWin of a decided battle: DoVictory.                                 *)
Win(s) ==
  /\ b' = s.b /\ log' = s.log
  /\ victories' = victories + 1
  /\ UNCHANGED <<last, round, stale>>

(* The end of ProcessNextAction (LABEL_36).                                 *)
Finish(s, passes) ==
  \/ Decided(s) /\ Win(s) /\ ended' = TRUE
  \/ /\ ~Decided(s) /\ UNCHANGED <<victories, ended>>
     /\ \/ passes /\ PassTurn(s)
        \/ /\ ~passes /\ b' = s.b /\ log' = s.log
           /\ UNCHANGED <<last, round, stale>>

-----------------------------------------------------------------------------
(* InitNonVisualVars and the first GetNextArmy.                             *)
Start(heroes) ==
  [b |-> [dead |-> {}, held |-> {}, hypno |-> {}, took |-> {}, again |-> {},
          waited |-> {}, active |-> CHOOSE t \in Slots : t[1] = 1,
          control |-> 1, bonus |-> FALSE, heroes |-> heroes, cast |-> {},
          toFire |-> TRUE, left |-> {}],
   log |-> NewLog]

Init ==
  /\ \E heroes \in Heroes : \E h \in Picks(Start(heroes), {}) :
       b = h.b /\ log = h.log
  /\ last = [forgotten |-> {}, volleys |-> 1]
  /\ round = 0 /\ beat = 0 /\ stale = FALSE
  /\ victories = 0 /\ blaze = FALSE /\ ended = FALSE

(* Main is called again and again: first the towers, then CheckWin, then an *)
(* action of the side that has control.                                     *)
CastleFires ==
  /\ ~ended /\ MustFire(Situation)
  /\ UNCHANGED <<beat, blaze>>
  /\ \E h \in Volleys(Situation) :
       IF Decided(h) THEN Win(h) /\ ended' = TRUE
       ELSE /\ b' = h.b /\ log' = h.log
            /\ UNCHANGED <<last, round, stale, victories, ended>>

\* Mutant: Main does not return 2 when CheckWin says so.
MainCheckWin_GoesOn ==
  /\ ~ended /\ ~MustFire(Situation) /\ Decided(Situation)
  /\ Win(Situation)
  /\ UNCHANGED <<beat, blaze, ended>>

MainCheckWin ==
  /\ ~ended /\ ~MustFire(Situation) /\ Decided(Situation)
  /\ Win(Situation)
  /\ ended' = TRUE
  /\ UNCHANGED <<beat, blaze>>

OnTurn == ~ended /\ ~MustFire(Situation) /\ ~Decided(Situation)

(* Case 1: the hero's spell, which may be resisted.  A stack raised from    *)
(* the dead keeps the flags it died with; Berserker ends Hypnotize.  The    *)
(* turn passes only if the active stack was killed.                                                 *)
Spells(s) ==
  LET foes == Alive(s, Enemy(s.b.control))
      living == Slots \ s.b.dead
  IN  {s}
      \cup {[s EXCEPT !.b.held = @ \cup {t}] : t \in {u \in foes : "Hold" \in Book}}
      \cup {[s EXCEPT !.b.hypno = @ \cup {t}] :
              t \in {u \in foes : "Hypnotize" \in Book}}
      \cup {[s EXCEPT !.b.hypno = @ \ {t}] :
              t \in {u \in foes : "Berserker" \in Book}}
      \cup {[s EXCEPT !.b.dead = @ \ {t}, !.log.risen = @ \cup {t}] :
              t \in {u \in s.b.dead : u[1] = s.b.control /\ "Raise" \in Book}}
      \cup {[s EXCEPT !.b.held = @ \ {t}, !.b.hypno = @ \ {t}] :
              t \in {u \in living : "Dispel" \in Book}}
      \cup { Hit(s, p[1], p[2]) :
               p \in {q \in (SUBSET living) \X (SUBSET living) :
                        "Damage" \in Book /\ q[1] # {} /\ q[2] \subseteq q[1]} }

\* Mutant: the turn does not pass when the active stack was killed.
CastSpell_Keeps ==
  /\ OnTurn
  /\ b.control \in b.heroes \ b.cast
  /\ \E s \in Spells(Situation) :
       Finish([s EXCEPT !.b.cast = @ \cup {b.control}], FALSE)
  /\ UNCHANGED <<beat, blaze>>

CastSpell ==
  /\ OnTurn
  /\ b.control \in b.heroes \ b.cast
  /\ \E s \in Spells(Situation) :
       LET h == [s EXCEPT !.b.cast = @ \cup {b.control}]
       IN  Finish(h, h.b.active \in h.b.dead)
  /\ UNCHANGED <<beat, blaze>>

-----------------------------------------------------------------------------
(* The stacks of T are struck: some die, some of the others may be held.    *)
Struck(s, by, T) ==
  { [Hit(s, T, p[1]) EXCEPT !.b.held = @ \cup p[2]] :
      p \in {q \in (SUBSET T) \X (SUBSET T) :
               q[1] \cap q[2] = {} /\ (by \notin Holders => q[2] = {})} }

(* A wall of fire on the way of the active stack.                           *)
Burnt(s) ==
  {s} \cup IF Fire THEN {Hit(s, {s.b.active}, K) : K \in SUBSET {s.b.active}}
           ELSE {}

(* The retaliation of t, which a dead or a held stack does not make.        *)
Answered(s, t) ==
  {s} \cup IF t \in s.b.dead \cup s.b.held THEN {}
           ELSE Struck(s, t, {s.b.active})

(* MoveAttack, with no blow or with one on the stacks T of the other side,  *)
(* of which one strikes back.  Hypnosis ends with the stack's own blow.     *)
Fought(s) ==
  LET a == s.b.active
      targets == IF a \in s.b.dead THEN {}
                 ELSE Alive(s, Enemy(s.b.control)) \ {a}
      Blow(T) == UNION {UNION {Answered(h, t) : t \in T} : h \in Struck(s, a, T)}
  IN  {s} \cup UNION { {[h EXCEPT !.b.hypno = @ \ {a}] : h \in Blow(T)} :
                         T \in SUBSET targets \ {{}} }

Acted(s) ==
  [b |-> [s.b EXCEPT !.took = @ \cup {s.b.active}],
   log |-> Turned(s.log, {s.b.active})]

(* The active stack has good morale: another turn, before all the others.   *)
Bonus(s) ==
  LET a == s.b.active
  IN  [b |-> [s.b EXCEPT !.bonus = TRUE, !.took = @ \ {a},
                         !.again = @ \cup {a}],
       log |-> [s.log EXCEPT !.due[a] = @ + 1]]

\* Mutant: a bonus may follow a bonus.
GoodMorale_Again(s) ==
  {s} \cup IF s.b.active \in Eager \ s.b.dead THEN {Bonus(s)} ELSE {}

(* CheckApplyGoodMorale: no bonus directly after a bonus.                   *)
GoodMorale(s) ==
  {[b |-> [s.b EXCEPT !.bonus = FALSE], log |-> s.log]}
    \cup IF ~s.b.bonus /\ s.b.active \in Eager \ s.b.dead
         THEN {Bonus(s)} ELSE {}

\* Mutant: the CheckWin after the blow does not make Main return 2.
Attack_GoesOn ==
  /\ OnTurn
  /\ beat' = 1 - beat
  /\ UNCHANGED blaze
  /\ \E w \in Burnt(Situation) : \E f \in Fought(w) :
       IF Decided(f) THEN Win(Acted(f)) /\ UNCHANGED ended
       ELSE \E h \in GoodMorale(Acted(f)) : Finish(h, TRUE)

(* Cases 2 and 6: the active stack moves, shoots or attacks.                *)
Attack ==
  /\ OnTurn
  /\ beat' = 1 - beat
  /\ UNCHANGED blaze
  /\ \E w \in Burnt(Situation) : \E f \in Fought(w) :
       IF Decided(f) THEN Win(Acted(f)) /\ ended' = TRUE
       ELSE \E h \in GoodMorale(Acted(f)) : Finish(h, TRUE)

(* Case 3: the turn is skipped, in the fire if there is one.  When the fire *)
(* decides the battle ProcessNextAction has won it, and returns 1.          *)
Skip ==
  /\ OnTurn
  /\ beat' = 1 - beat
  /\ \E w \in Burnt(Situation) :
       /\ blaze' = Decided(w)
       /\ IF Decided(w) THEN Win(w) /\ UNCHANGED ended
          ELSE Finish(Acted(w), TRUE)

(* Case 7.                                                                  *)
Wait ==
  /\ OnTurn
  /\ Finish([Situation EXCEPT !.b.waited = @ \cup {b.active}], TRUE)
  /\ UNCHANGED <<beat, blaze>>

(* Cases 4 and 5: retreat and surrender.                                    *)
GiveUp ==
  /\ OnTurn
  /\ b.control \in b.heroes
  /\ Finish([Situation EXCEPT !.b.left = @ \cup {b.control}], FALSE)
  /\ UNCHANGED <<beat, blaze>>

Over == ended /\ UNCHANGED vars

Next == CastleFires \/ MainCheckWin \/ CastSpell \/ Attack \/ Skip \/ Wait
          \/ GiveUp \/ Over

(* Main is called as long as it does not return 2.  A player does not wait  *)
(* and cast for ever: as OnTurn enables Skip, this is WF_vars(Attack \/     *)
(* Skip), the steps that change the beat.                                   *)
Fairness ==
  /\ WF_vars(CastleFires \/ MainCheckWin)
  /\ []<>~OnTurn \/ []<><<beat' # beat>>_vars

Spec == Init /\ [][Next]_vars /\ Fairness

-----------------------------------------------------------------------------
(* Every variable has its type.                                             *)
TypeOK ==
  /\ b \in Battle /\ log \in Log
  /\ last \in [forgotten : SUBSET Slots, volleys : Nat]
  /\ round \in {0, 1} /\ beat \in {0, 1} /\ stale \in BOOLEAN
  /\ victories \in 0..2 /\ blaze \in BOOLEAN /\ ended \in BOOLEAN

(* Waiting, panic, hypnosis, good morale and being raised from the dead     *)
(* never add up to more turns in a round than one and those that good       *)
(* morale granted: the flags of GetNextArmy account for every turn taken.   *)
(* Only a round that began with nobody to give the turn to gives a turn too *)
(* many, one, to the stack that acted last in the round before.             *)
Extra == {s \in Slots : log.due[s] < 0}
TurnsEarned ==
  Extra # {} => stale /\ \E a \in Slots : Extra = {a} /\ log.due[a] = -1

(* The scan of GetNextArmy over speeds and sides overlooks nobody: when it  *)
(* reports the end of a round every living stack that is not held has had   *)
(* its turns, or a blow cost them, or it rose from the dead in that round.  *)
NobodyForgotten == last.forgotten = {}

(* The castle shoots exactly once in a round, whoever acts first and        *)
(* whether or not its side acts at all.                                     *)
GarrisonOnce == Castle => last.volleys = 1

(* The stack that is to act is alive, able and has not lost its turn, if it *)
(* is its own side that moves it: spells, towers and the beginning of a     *)
(* round are between its choice and its action.                             *)
ActiveIsFit ==
  OnTurn /\ ~stale /\ b.active[1] = b.control =>
    b.active \notin b.dead \cup b.held \cup b.took

(* DoVictory (experience, artifacts, the heroes' fate) runs once for a      *)
(* battle; only a fire wall that decides it while a turn is skipped makes   *)
(* it run twice.                                                            *)
VictoryOnce ==
  /\ victories <= IF blaze THEN 2 ELSE 1
  /\ ended => victories > 0

(* Rounds follow each other until the battle ends: no order of waiting,     *)
(* panic and spells keeps a round open.                                     *)
RoundsGoOn == []<>(ended \/ round = 0) /\ []<>(ended \/ round = 1)

(* What the descriptions of the spells promise: a stack that is blinded,    *)
(* paralyzed or turned to stone does not act for its own side.              *)
HeldNeverActs ==
  [][beat' # beat /\ b.active[1] = b.control => b.active \notin b.held]_vars
=============================================================================
