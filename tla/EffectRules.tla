---------------------------- MODULE EffectRules ----------------------------
(***************************************************************************)
(* The rules of one army stack: what each spell effect, blow, cure, burn   *)
(* and resurrection does to the stack's own fields (class army of          *)
(* combat/army.h).  Every operator takes a stack, a record, and returns    *)
(* the stack the C++ method leaves behind, so that the handlers of         *)
(* BattleStack and Battlefield are compositions of these operators, in the *)
(* order in which the handlers call the methods.                           *)
(***************************************************************************)
EXTENDS Integers, FiniteSets

CONSTANTS
  BaseAttack, BaseDefense,  \* creature.attack / defense as army::Init leaves them
  BaseSpeed,                \* army.speed, the speed copied from gMonsterDatabase
  BaseFlies,                \* gMonsterDatabase[creatureIdx].creature_flags & FLYER
  MonsterHP,                \* gMonsterDatabase[creatureIdx].hp
  InitialQuantity           \* army.initialQuantity

(* What the rules distinguish creatures by.                                 *)
Kinds == {"living", "undead", "ghost", "vampire", "troll", "rebirth", "elemental"}

ASSUME StatsAssumption ==
  /\ BaseAttack \in Int /\ BaseDefense \in Int
  /\ BaseSpeed \in Nat /\ BaseFlies \in BOOLEAN
ASSUME CreatureAssumption ==
  /\ MonsterHP \in Nat \ {0} /\ InitialQuantity \in Nat \ {0}

-----------------------------------------------------------------------------
(* STACK_MODIFYING_EFFECT.  The first fifteen are the original game's: the  *)
(* loop of Anti-Magic stops after them.                                     *)
Classic == {"Haste", "Slow", "Blind", "Bless", "Curse", "Berserker",
            "Paralyze", "Hypnotize", "DragonSlayer", "BloodLust", "Shield",
            "Petrify", "AntiMagic", "Stoneskin", "Steelskin"}
Ironfist == {"Burn", "ShadowMark", "Daze", "ForceShield"}
Effects == Classic \cup Ironfist

(* The fields of army (and of gIronfistExtra.combat.stack, which is keyed   *)
(* by the army's address) that the rules read and write.                    *)
Stack == [kind : Kinds,                  \* creatureIdx and creature
          strength : [Effects -> Nat],   \* effectStrengths: remaining rounds
          numActiveEffects : Int,
          attack : Int, defense : Int, speed : Int, flies : BOOLEAN,
          shieldHP : Nat,                \* forceShieldHP[this]
          lostTurn : BOOLEAN,            \* MAYBE_NOT_LOST_TURN
          retaliated : BOOLEAN,          \* RETALIATED
          quantity : Int, damage : Int,
          dying : BOOLEAN,               \* army.dead: to be buried by PowEffect
          isDead : BOOLEAN,              \* the DEAD flag
          reborn : BOOLEAN]              \* doneRebirth[this]

(* army::Init: a stack as it enters the battle.  The two maps keyed by the  *)
(* army's address are not written: they keep what the slot had before.      *)
Init0(kind, shieldHP, reborn) ==
  [kind |-> kind,
   strength |-> [e \in Effects |-> 0], numActiveEffects |-> 0,
   attack |-> BaseAttack, defense |-> BaseDefense,
   speed |-> BaseSpeed, flies |-> BaseFlies,
   shieldHP |-> shieldHP, lostTurn |-> FALSE, retaliated |-> FALSE,
   quantity |-> InitialQuantity, damage |-> 0,
   dying |-> FALSE, isDead |-> FALSE, reborn |-> reborn]

On(s, e) == s.strength[e] > 0
Active(s) == {e \in Effects : On(s, e)}

-----------------------------------------------------------------------------
(* Mutant: the speed is not restored when Haste or Slow ends.               *)
CancelEffects_KeepsSpeed(s, E) ==
  LET gone == E \cap Active(s)
      Part(e, n) == IF e \in gone THEN n ELSE 0
  IN  [s EXCEPT !.strength = [e \in Effects |-> IF e \in E THEN 0 ELSE @[e]],
                !.numActiveEffects = @ - Cardinality(gone),
                !.attack = @ - Part("BloodLust", 3),
                !.defense = @ - Part("Stoneskin", 3) - Part("Steelskin", 5),
                !.shieldHP = IF "ForceShield" \in gone THEN 0 ELSE @]

(* army::CancelIndividualSpell over the effects of E.  A loop of the code   *)
(* over E in any order leaves the same stack: each call touches fields of   *)
(* its own, save Haste and Slow, which both restore the base speed.         *)
CancelEffects(s, E) ==
  LET gone == E \cap Active(s)
      Part(e, n) == IF e \in gone THEN n ELSE 0
      moved == gone \cap {"Haste", "Slow"} # {}
  IN  [s EXCEPT !.strength = [e \in Effects |-> IF e \in E THEN 0 ELSE @[e]],
                !.numActiveEffects = @ - Cardinality(gone),
                !.attack = @ - Part("BloodLust", 3),
                !.defense = @ - Part("Stoneskin", 3) - Part("Steelskin", 5),
                !.speed = IF moved THEN BaseSpeed ELSE @,
                !.flies = @ \/ (moved /\ BaseFlies),
                !.shieldHP = IF "ForceShield" \in gone THEN 0 ELSE @]

(* What a new effect pushes out (the switch of SetSpellInfluence).          *)
Displaced(e) ==
  CASE e = "Haste"     -> {"Slow"}
    [] e = "Slow"      -> {"Haste"}
    [] e = "Bless"     -> {"Curse"}
    [] e = "Curse"     -> {"Bless"}
    [] e = "Berserker" -> {"Hypnotize"}
    [] e = "Hypnotize" -> {"Berserker"}
    [] e = "AntiMagic" -> Classic
    [] e = "Steelskin" -> {"Stoneskin"}
    [] OTHER           -> {}

(* The change to the stack's numbers, then AddActiveEffect.                 *)
Start(s, e, k) ==
  [s EXCEPT !.strength[e] = k,
            !.numActiveEffects = @ + 1,
            !.attack = IF e = "BloodLust" THEN @ + 3 ELSE @,
            !.defense = IF e = "Stoneskin" THEN @ + 3
                        ELSE IF e = "Steelskin" THEN @ + 5 ELSE @,
            !.speed = IF e = "Haste" THEN @ + 2
                      ELSE IF e = "Slow" THEN (@ + 1) \div 2 ELSE @,
            !.flies = @ /\ e # "Slow",
            !.shieldHP = IF e = "ForceShield" THEN MonsterHP ELSE @]

(* Mutant: an active effect that is cast again is started again.            *)
SetSpellInfluence_Restarts(s, e, k) ==
  IF e = "Stoneskin" /\ On(s, "Steelskin") THEN s
  ELSE Start(CancelEffects(s, Displaced(e)), e, k)

(* army::SetSpellInfluence.  Casting an active effect again only lengthens  *)
(* it; Stoneskin does nothing to a stack that has Steelskin.                *)
SetSpellInfluence(s, e, k) ==
  IF On(s, e)
    THEN [s EXCEPT !.strength[e] = IF @ < k THEN k ELSE @]
  ELSE IF e = "Stoneskin" /\ On(s, "Steelskin")
    THEN s
  ELSE Start(CancelEffects(s, Displaced(e)), e, k)

-----------------------------------------------------------------------------
(* army::DispelGood, the creature ability of the Archmage.                  *)
DispelGood(s) ==
  CancelEffects(s, {"Haste", "Bless", "DragonSlayer", "BloodLust", "Shield",
                    "AntiMagic", "Stoneskin", "Steelskin"})

Disenchanted == {"Haste", "Bless", "DragonSlayer", "BloodLust", "Shield",
                 "Stoneskin", "Steelskin"}
(* army::Disenchant                                                         *)
Disenchant(s) == CancelEffects(s, Disenchanted)

Cured == {"Slow", "Blind", "Curse", "Berserker", "Paralyze", "Hypnotize",
          "Petrify"}
(* army::Cure(spellpower)                                                   *)
Cure(s, power) ==
  [CancelEffects(s, Cured) EXCEPT
     !.damage = IF @ < 5 * power THEN 0 ELSE @ - 5 * power]

(* case SPELL_DISRUPTING_RAY of combatManager::CastSpell                    *)
DisruptingRay(s) ==
  [s EXCEPT !.defense = IF @ - 3 < 1 THEN 1 ELSE @ - 3]

(* army::CancelSpellType(CREATURE_TOOK_TURN_EVENT_CODE)                     *)
TookTurn(s) == CancelEffects(s, {"Berserker", "Hypnotize"})

(* Mutant: a Blind stack that is hit sees again and moves at once.          *)
TookDamage_FreeTurn(s) ==
  LET held == \E e \in {"Paralyze", "Hypnotize", "Petrify"} : On(s, e)
  IN  [CancelEffects(s, {"Blind", "Paralyze", "Petrify"}) EXCEPT
         !.lostTurn = @ \/ held,
         !.retaliated = @ \/ held]

(* army::CancelSpellType(CREATURE_TOOK_DAMAGE_CODE).  A Hypnotized stack    *)
(* also loses its turn, but stays Hypnotized.                               *)
TookDamage(s) ==
  LET held == \E e \in {"Paralyze", "Hypnotize", "Petrify"} : On(s, e)
  IN  [CancelEffects(s, {"Blind", "Paralyze", "Petrify"}) EXCEPT
         !.lostTurn = @ \/ On(s, "Blind") \/ held,
         !.retaliated = @ \/ held]

-----------------------------------------------------------------------------
(* Mutant: losses are not limited to the creatures of the stack.            *)
Damage_Overkill(s, baseDam) ==
  LET total == baseDam + s.damage
  IN  TookDamage([s EXCEPT !.damage = total % MonsterHP,
                           !.quantity = @ - total \div MonsterHP,
                           !.dying = @ \/ s.quantity <= total \div MonsterHP])

(* Mutant: the wounds of earlier blows are forgotten.                       *)
Damage_ForgetsWounds(s, baseDam) ==
  LET losses == IF s.quantity < baseDam \div MonsterHP
                THEN s.quantity ELSE baseDam \div MonsterHP
  IN  TookDamage([s EXCEPT !.damage = baseDam % MonsterHP,
                           !.quantity = @ - losses,
                           !.dying = @ \/ s.quantity - losses <= 0])

(* army::Damage(baseDam, SPELL_NONE): the overkill is not subtracted from   *)
(* damage, only quantity is floored at zero.                                *)
Damage(s, baseDam) ==
  LET total == baseDam + s.damage
      losses == IF s.quantity < total \div MonsterHP
                THEN s.quantity ELSE total \div MonsterHP
  IN  TookDamage([s EXCEPT !.damage = total % MonsterHP,
                           !.quantity = @ - losses,
                           !.dying = @ \/ s.quantity - losses <= 0])

(* Mutant: a shield broken by exactly its hit points stays on.              *)
DamageEnemy_ShieldAtZero(s, baseDam) ==
  LET left == s.shieldHP - baseDam
  IN  IF s.shieldHP <= 0 THEN Damage(s, baseDam)
      ELSE IF left < 0
        THEN Damage(CancelEffects(s, {"ForceShield"}), -left)
      ELSE Damage([s EXCEPT !.shieldHP = left], 0)

(* army::DamageEnemy from the target's side, where baseDam is the number    *)
(* the attacker computed: the force shield absorbs first.                   *)
DamageEnemy(s, baseDam) ==
  LET left == s.shieldHP - baseDam
  IN  IF s.shieldHP <= 0 THEN Damage(s, baseDam)
      ELSE IF left <= 0
        THEN Damage(CancelEffects(s, {"ForceShield"}), -left)
      ELSE Damage([s EXCEPT !.shieldHP = left], 0)

(* Mutant: Rebirth leaves army.dead set.                                    *)
Settle_StillDying(s) ==
  IF ~s.dying THEN s
  ELSE IF s.kind = "rebirth" /\ ~s.reborn
    THEN [s EXCEPT !.quantity = InitialQuantity, !.isDead = FALSE,
                   !.reborn = TRUE]
  ELSE [s EXCEPT !.isDead = TRUE, !.dying = FALSE]

(* Mutant: ProcessDeath does not wait for Rebirth.                          *)
Settle_NoRebirth(s) ==
  IF s.dying THEN [s EXCEPT !.isDead = TRUE, !.dying = FALSE] ELSE s

(* The last loops of army::PowEffect for this stack: ProcessDeath, and      *)
(* Rebirth (once) in its place for a creature that has the attribute.       *)
Settle(s) ==
  IF ~s.dying THEN s
  ELSE IF s.kind = "rebirth" /\ ~s.reborn
    THEN [s EXCEPT !.quantity = InitialQuantity, !.isDead = FALSE,
                   !.dying = FALSE, !.reborn = TRUE]
  ELSE IF s.isDead THEN s
  ELSE [s EXCEPT !.isDead = TRUE, !.dying = FALSE]

(* combatManager::BurnCreature: the shield does not absorb a burn.          *)
BurnCreature(s, burnDamage) == Settle(Damage(s, burnDamage))

-----------------------------------------------------------------------------
(* One pass of army::DecrementSpellRounds over the effects of E.            *)
CountDown(s, E) ==
  LET on == (E \cap Active(s)) \ {"ForceShield"}
      over == {e \in on : s.strength[e] = 1}
  IN  CancelEffects([s EXCEPT !.strength =
                       [e \in Effects |-> IF e \in on \ over THEN @[e] - 1
                                                            ELSE @[e]]], over)

(* Mutant: the loop still ends after the original game's fifteen effects.   *)
DecrementSpellRounds_Fifteen(s, burnDamage) == CountDown(s, Classic)

(* army::DecrementSpellRounds: effects in index order, so that the burn     *)
(* comes after the classic effects have been counted down.                  *)
DecrementSpellRounds(s, burnDamage) ==
  LET t == CountDown(s, Classic)
  IN  CountDown(IF On(t, "Burn") THEN BurnCreature(t, burnDamage) ELSE t,
                Ironfist)

(* The iteration of combatManager::ResetRound for this stack.               *)
ResetRound(s, burnDamage) ==
  IF s.quantity <= 0 THEN s
  ELSE DecrementSpellRounds(
         [s EXCEPT !.lostTurn = FALSE, !.retaliated = FALSE,
                   !.damage = IF s.kind = "troll" THEN 0 ELSE @],
         burnDamage)

(* combatManager::Resurrect of the stack: quantity and the DEAD flag.       *)
Resurrect(s, spellpower) ==
  LET risen == s.quantity + (50 * spellpower) \div MonsterHP
  IN  [s EXCEPT !.quantity = IF InitialQuantity < risen THEN InitialQuantity
                                                        ELSE risen,
                !.isDead = FALSE]

(* army::DoAttack: what a Vampire Lord drains from the creatures it killed. *)
VampireHeal(s, drained) ==
  LET back == (drained - s.damage) \div MonsterHP
  IN  IF drained < s.damage THEN [s EXCEPT !.damage = @ - drained]
      ELSE [s EXCEPT !.damage = 0,
                     !.quantity = IF InitialQuantity - @ <= back
                                  THEN InitialQuantity ELSE @ + back]

(* army::SpellCastWorkChance > 0, the part that every spell shares.         *)
Susceptible(s) == ~On(s, "AntiMagic") /\ ~s.isDead /\ ~s.dying
=============================================================================
