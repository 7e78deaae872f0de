---------------------------- MODULE BattleStack ----------------------------
(***************************************************************************)
(* One slot of combatManager::creatures over a battle: everything that can *)
(* happen to the stack in it, from whichever side.  The battlefield is the *)
(* environment: it decides which spell is cast, who strikes and how hard.  *)
(***************************************************************************)
EXTENDS EffectRules

CONSTANTS
  Creatures,    \* the kinds of creature the slot may hold in this battle
  Castable,     \* for each kind, the effects that are cast on it in this battle
  Powers,       \* the spell powers of the heroes (hero::Stats is at least 1)
  Hits,         \* the amounts of damage that blows and spells compute
  Burns,        \* the amounts of damage that a burn computes
  Budget,       \* bound: spells, abilities and fires that reach the stack
  MaxQuantity   \* bound: creatures a ghost stack grows to

ASSUME EnvironmentAssumption ==
  /\ Creatures \subseteq Kinds
  /\ Castable \in [Kinds -> SUBSET Effects]
  /\ Powers \subseteq Nat \ {0}
  /\ Hits \subseteq Nat \ {0} /\ Burns \subseteq Nat \ {0}
  /\ Budget \in Nat /\ MaxQuantity \in Nat

VARIABLES
  stack,     \* the army in the slot
  round,     \* parity of the round, turned over by ResetRound
  budget,    \* spells, abilities and fires still to come
  rayLoss    \* history: the defense that disrupting rays have taken

vars == <<stack, round, budget, rayLoss>>

Init ==
  /\ \E k \in Creatures : stack = Init0(k, 0, FALSE)
  /\ round = 0
  /\ budget = Budget
  /\ rayLoss = 0

Spend == budget > 0 /\ budget' = budget - 1

-----------------------------------------------------------------------------
(* What the creature itself is proof against (SpellCastWorkChance).         *)
ImmuneTo ==
  CASE stack.kind \in {"undead", "ghost", "vampire"} ->
         {"Berserker", "Hypnotize", "Paralyze", "Blind", "Bless", "Curse"}
    [] stack.kind = "elemental" -> {"Berserker", "Hypnotize", "Paralyze", "Blind"}
    [] OTHER -> {}

(* The strength CastSpell gives to SetSpellInfluence: the spell power, save *)
(* for the effects whose duration is written in the code.                   *)
Duration(e, power) ==
  CASE e = "BloodLust" -> 3
    [] e = "Petrify"   -> 3
    [] e \in {"ShadowMark", "Daze"} -> 1
    [] OTHER -> power

HeroSpells == Effects \ {"Petrify", "ShadowMark", "Daze", "Burn"}
AbilityEffects == {"Paralyze", "Blind", "Petrify", "Curse", "ShadowMark"}
AbilityPower == 3

(* A hero casts a spell, or a mass spell, that puts an effect on the stack. *)
CastInfluence(e, power) ==
  /\ Spend
  /\ e \in HeroSpells \ ImmuneTo
  /\ Susceptible(stack)
  /\ stack' = SetSpellInfluence(stack, e, Duration(e, power))
  /\ UNCHANGED <<round, rayLoss>>

(* SPELL_DISPEL_MAGIC and SPELL_MASS_DISPEL                                 *)
CastDispel ==
  /\ Spend
  /\ Susceptible(stack) /\ Active(stack) # {}
  /\ stack' = CancelEffects(stack, Effects)
  /\ UNCHANGED <<round, rayLoss>>

(* SPELL_DISENCHANT and SPELL_MASS_DISENCHANT                               *)
CastDisenchant ==
  /\ Spend
  /\ Susceptible(stack) /\ Active(stack) \cap Disenchanted # {}
  /\ stack' = Disenchant(stack)
  /\ UNCHANGED <<round, rayLoss>>

(* SPELL_CURE and SPELL_MASS_CURE                                           *)
CastCure(power) ==
  /\ Spend
  /\ Susceptible(stack)
  /\ Active(stack) \cap Cured # {} \/ stack.damage # 0
  /\ stack' = Cure(stack, power)
  /\ UNCHANGED <<round, rayLoss>>

CastDisruptingRay ==
  /\ Spend
  /\ Susceptible(stack)
  /\ stack' = DisruptingRay(stack)
  /\ rayLoss' = rayLoss + (stack.defense - DisruptingRay(stack).defense)
  /\ UNCHANGED round

(* SPELL_RESURRECT, SPELL_RESURRECT_TRUE and SPELL_ANIMATE_DEAD, on the     *)
(* stack or on its corpse.  An elemental leaves no corpse.  The stack has   *)
(* an owning hero (the caster), so SpellCastWorkChance skips its test that  *)
(* the spell is strong enough to raise one creature.                        *)
CastResurrect(power) ==
  /\ Spend
  /\ ~On(stack, "AntiMagic") /\ ~stack.dying
  /\ stack.quantity # InitialQuantity
  /\ stack.isDead => stack.kind # "elemental"
  /\ stack' = Resurrect(stack, power)
  /\ UNCHANGED <<round, rayLoss>>

-----------------------------------------------------------------------------
(* An enemy's DoAttack or SpecialAttack hits the stack: DamageEnemy, then   *)
(* PowEffect.                                                               *)
Struck(baseDam) ==
  /\ ~stack.isDead
  /\ stack' = Settle(DamageEnemy(stack, baseDam))
  /\ UNCHANGED <<round, budget, rayLoss>>

(* The same, by a creature whose ability PowEffect casts on the survivors.  *)
StruckWithAbility(baseDam, e) ==
  LET hit == DamageEnemy(stack, baseDam)
  IN  /\ Spend
      /\ ~stack.isDead
      /\ e \in AbilityEffects \ ImmuneTo
      /\ Susceptible(hit)
      /\ stack' = Settle(SetSpellInfluence(hit, e, Duration(e, AbilityPower)))
      /\ UNCHANGED <<round, rayLoss>>

(* The same, by an Archmage.                                                *)
StruckWithDispel(baseDam) ==
  LET hit == DamageEnemy(stack, baseDam)
  IN  /\ Spend
      /\ ~stack.isDead
      /\ Susceptible(hit)
      /\ stack' = Settle(DispelGood(hit))
      /\ UNCHANGED <<round, rayLoss>>

(* Astral Dodge: the blow of -2 damage becomes Damage(0), past the shield.  *)
Dodge ==
  /\ ~stack.isDead
  /\ stack' = Settle(Damage(stack, 0))
  /\ UNCHANGED <<round, budget, rayLoss>>

(* A damage spell goes past the force shield.                               *)
SpellHit(damage) ==
  /\ Spend
  /\ Susceptible(stack)
  /\ stack' = Settle(Damage(stack, damage))
  /\ UNCHANGED <<round, rayLoss>>

(* SPELL_MARKSMAN_PIERCE dazes the stack even when it kills it.             *)
MarksmanPierce(damage) ==
  /\ Spend
  /\ Susceptible(stack)
  /\ stack' = Settle(SetSpellInfluence(Damage(stack, damage), "Daze", 1))
  /\ UNCHANGED <<round, rayLoss>>

(* CheckBurnCreature: the stack ends its move on a burning hex.             *)
WalkIntoFire(burnDamage) ==
  /\ Spend
  /\ ~stack.isDead
  /\ stack' = BurnCreature(SetSpellInfluence(stack, "Burn", 2), burnDamage)
  /\ UNCHANGED <<round, rayLoss>>

-----------------------------------------------------------------------------
(* The end of the stack's own attack, for a Berserker or a Hypnotized one.  *)
EndAttack ==
  /\ ~stack.isDead
  /\ On(stack, "Berserker") \/ On(stack, "Hypnotize")
  /\ stack' = TookTurn(stack)
  /\ UNCHANGED <<round, budget, rayLoss>>

(* The stack's retaliation: the attacker sets the flag after the blow.      *)
Retaliate ==
  /\ stack.quantity > 0 /\ ~stack.retaliated
  /\ ~On(stack, "Paralyze") /\ ~On(stack, "Petrify")
  /\ stack' = [stack EXCEPT !.retaliated = TRUE]
  /\ UNCHANGED <<round, budget, rayLoss>>

(* A Ghost's blow killed some creatures, which join its stack.              *)
GhostGrows(killed) ==
  /\ stack.kind = "ghost" /\ ~stack.isDead
  /\ stack.quantity + killed <= MaxQuantity
  /\ stack' = [stack EXCEPT !.quantity = @ + killed]
  /\ UNCHANGED <<round, budget, rayLoss>>

(* A Vampire Lord's blow killed creatures of drained hit points in all.     *)
VampireDrains(drained) ==
  /\ stack.kind = "vampire" /\ ~stack.isDead
  /\ stack' = VampireHeal(stack, drained)
  /\ UNCHANGED <<round, budget, rayLoss>>

NewRound(burnDamage) ==
  /\ stack' = ResetRound(stack, burnDamage)
  /\ round' = 1 - round
  /\ UNCHANGED <<budget, rayLoss>>

(* AddArmy takes the slot of a destroyed elemental for a new one.           *)
ReuseSlot ==
  /\ Spend
  /\ stack.kind = "elemental" /\ stack.isDead /\ stack.quantity = 0
  /\ stack' = Init0("elemental", stack.shieldHP, stack.reborn)
  /\ rayLoss' = 0
  /\ UNCHANGED round
-----------------------------------------------------------------------------
Spells ==
  \/ \E e \in Castable[stack.kind], p \in Powers : CastInfluence(e, p)
  \/ CastDispel
  \/ CastDisenchant
  \/ \E p \in Powers : CastCure(p)
  \/ CastDisruptingRay
  \/ \E p \in Powers : CastResurrect(p)
  \/ \E d \in Hits : SpellHit(d)
  \/ \E d \in Hits : "Daze" \in Castable[stack.kind] /\ MarksmanPierce(d)

Blows ==
  \/ \E d \in Hits : Struck(d)
  \/ \E d \in Hits, e \in Castable[stack.kind] : StruckWithAbility(d, e)
  \/ \E d \in Hits : StruckWithDispel(d)
  \/ Dodge
  \/ \E d \in Burns : "Burn" \in Castable[stack.kind] /\ WalkIntoFire(d)

OwnSteps ==
  \/ EndAttack
  \/ Retaliate
  \/ \E n \in 1..MaxQuantity : GhostGrows(n)
  \/ \E d \in Hits : VampireDrains(d)
  \/ ReuseSlot

Round == \E d \in Burns : NewRound(d)

Next == Spells \/ Blows \/ OwnSteps \/ Round

(* Rounds follow each other as long as the battle lasts: ResetRound is      *)
(* called whenever GetNextArmy has nobody left to give a turn to.           *)
TurnOver == round' = 1 - round
Spec == Init /\ [][Next]_vars /\ WF_round(TurnOver)
-----------------------------------------------------------------------------
(* Types.  A stack never holds a negative number of creatures, and its      *)
(* wounds are always less than one creature.                                *)
TypeOK ==
  /\ stack \in Stack
  /\ stack.quantity \in Nat
  /\ stack.damage \in 0..(MonsterHP - 1)
  /\ round \in {0, 1}
  /\ budget \in 0..Budget
  /\ rayLoss \in Int

(* The fields that the effects change in place are always those of the      *)
(* creature plus what the effects that are on now are worth, less what      *)
(* disrupting rays took: no order of casting, dispelling, displacing and    *)
(* expiring leaves a bonus behind or takes it off twice.  What a ray takes  *)
(* is not judged: on a defense below 1 it adds (combat_spells.cpp:622), and *)
(* rayLoss follows it.                                                      *)
Worth(e, n) == IF On(stack, e) THEN n ELSE 0
AttackMatches == stack.attack = BaseAttack + Worth("BloodLust", 3)
DefenseMatches ==
  stack.defense = BaseDefense + Worth("Stoneskin", 3) + Worth("Steelskin", 5)
                              - rayLoss
SpeedMatches ==
  stack.speed = IF On(stack, "Haste") THEN BaseSpeed + 2
                ELSE IF On(stack, "Slow") THEN (BaseSpeed + 1) \div 2
                ELSE BaseSpeed
FlightMatches == stack.flies = (BaseFlies /\ ~On(stack, "Slow"))
StatsMatch == AttackMatches /\ DefenseMatches /\ SpeedMatches /\ FlightMatches

EffectCount == stack.numActiveEffects = Cardinality(Active(stack))

Exclusive ==
  /\ \A pair \in {{"Haste", "Slow"}, {"Bless", "Curse"},
                   {"Berserker", "Hypnotize"}, {"Stoneskin", "Steelskin"}} :
       ~(pair \subseteq Active(stack))
  /\ On(stack, "AntiMagic") => Active(stack) \cap Classic = {"AntiMagic"}

(* numActiveEffects, from which the combat view lays out the icons of the   *)
(* effects, is the number of effects that are on; opposite ones are never   *)
(* on together, and nothing of the original game's under Anti-Magic.        *)
EffectsAgree == EffectCount /\ Exclusive

(* The force shield has hit points left exactly while its effect is on, so  *)
(* that a broken shield is gone and a dispelled one absorbs nothing; except *)
(* for an elemental, which inherits the shield of its slot's last stack.    *)
ShieldMatches ==
  stack.kind # "elemental" =>
    /\ stack.shieldHP \in 0..MonsterHP
    /\ stack.shieldHP > 0 <=> On(stack, "ForceShield")

(* Between two handlers nobody is half dead: a stack has creatures exactly  *)
(* while it is not flagged DEAD, and none is left to be buried.  Powers     *)
(* that are too weak to raise one creature are left out: Animate Dead makes *)
(* such a zombie with them (combat_spells.cpp:331).                         *)
NoZombie ==
  /\ ~stack.dying
  /\ stack.isDead <=> stack.quantity = 0

Capped == stack.kind # "ghost" => stack.quantity <= InitialQuantity
DiesTwice == stack.kind = "rebirth" /\ stack.isDead => stack.reborn

(* Only Ghosts outgrow the stack that entered the battle, and a creature    *)
(* with Rebirth dies for good only after it has risen once.                 *)
LivesCounted == Capped /\ DiesTwice

-----------------------------------------------------------------------------
(* A blow that kills some of a stack held by Blind, Paralyze or Petrify     *)
(* wakes it, but it does not move in the round in which it was hit.  (The   *)
(* other thing that takes creatures is Resurrect, from a Ghost stack that   *)
(* has grown.)                                                              *)
Raised == \E p \in Powers : CastResurrect(p)
BlowCostsTurn ==
  [][ (/\ stack'.quantity < stack.quantity /\ ~stack'.isDead /\ ~Raised
       /\ \E e \in {"Blind", "Paralyze", "Petrify"} : stack.strength[e] > 1)
      => stack'.lostTurn ]_vars

(* What a blow takes from the shield and from the creatures adds up to the  *)
(* damage of the blow, with nothing lost between the two but overkill; a    *)
(* spell takes all of it from the creatures.  Only a hit that ends in a     *)
(* rebirth does not count.  The shield that an elemental inherits with its  *)
(* slot is the exception: its effect is not on, so that a blow that it      *)
(* absorbs in part does not cancel it, and it absorbs part of the next too. *)
(* A spell that raises creatures takes none away, but a Ghost stack that    *)
(* has outgrown its first size is cut down to it.                           *)
Flesh(s) == IF s.quantity > 0 THEN s.quantity * MonsterHP - s.damage ELSE 0
Health(s) == s.shieldHP + Flesh(s)
Left(points, damage) == IF points > damage THEN points - damage ELSE 0
Inherited == stack.shieldHP > 0 /\ ~On(stack, "ForceShield")
Outgrown == stack.kind = "ghost" /\ stack.quantity > InitialQuantity
Absorbed(d) ==
  Struck(d) =>
    IF Inherited
    THEN /\ Flesh(stack') = Left(Flesh(stack), Left(d, stack.shieldHP))
         /\ stack'.shieldHP = IF d < stack.shieldHP THEN stack.shieldHP - d
                                                   ELSE stack.shieldHP
    ELSE Health(stack') = Left(Health(stack), d)
Pierced(d) ==
  SpellHit(d) => /\ Flesh(stack') = Left(Flesh(stack), d)
                 /\ stack'.shieldHP = stack.shieldHP
HealthKept ==
  [][ /\ stack'.reborn = stack.reborn =>
           \A d \in Hits : Absorbed(d) /\ Pierced(d)
      /\ Raised => \/ stack'.quantity >= stack.quantity
                   \/ Outgrown /\ stack'.quantity = InitialQuantity ]_vars

(* When no more spells come, every effect but the force shield wears off a  *)
(* stack that lives.                                                        *)
EffectsWearOff ==
  <>[](stack.isDead \/ Active(stack) \subseteq {"ForceShield"})

(* What TurnOrder has to know of the stack changes only as TurnFlags says:  *)
(* it is held by any of three effects, whose strengths are counted down,    *)
(* displaced and cancelled one by one, and it has had its turn or lost it   *)
(* by MAYBE_NOT_LOST_TURN, that hits set and rounds clear.                  *)
MarksOf(s) ==
  {m \in {"dead", "held", "hypno", "took"} :
     \/ m = "dead" /\ s.isDead
     \/ m = "held" /\ \E e \in {"Blind", "Paralyze", "Petrify"} : On(s, e)
     \/ m = "hypno" /\ On(s, "Hypnotize")
     \/ m = "took" /\ s.lostTurn}
Turns == INSTANCE TurnFlags WITH marks <- MarksOf(stack)
ImplementsFlags == Turns!Spec
=============================================================================
