-------------------------- MODULE BattleStack_proofs --------------------------
(***************************************************************************)
(* BattleStack, for every creature, every set of spells and powers and any *)
(* budget.  The inductive invariant is that the stack is Sound and Healthy *)
(* (EffectRules_proofs): the fields the effects change are only right      *)
(* together with the count of effects and their exclusions, because what   *)
(* an effect takes back when it ends is a constant, or the base speed,     *)
(* whatever was displaced in between.                                      *)
(***************************************************************************)
EXTENDS BattleStack, EffectRules_proofs

IInv ==
  /\ Sound(stack, rayLoss)
  /\ Healthy(stack)
  /\ stack.kind \in Creatures
  /\ rayLoss \in Int
  /\ round \in {0, 1}
  /\ budget \in 0..Budget

(* Every spell power raises at least one creature.                          *)
Strong == \A p \in Powers : 50 * p >= MonsterHP

(* What a step leaves behind, given what it found.                          *)
Keeps(s, t) ==
  /\ Healthy(t)
  /\ t.kind = s.kind
  /\ Shielded(s) => Shielded(t)
  /\ Fit(s) => Fit(t)
-----------------------------------------------------------------------------
LEMMA Environment ==
  /\ Creatures \subseteq Kinds
  /\ \A k \in Creatures : Castable[k] \subseteq Effects
  /\ \A p \in Powers : p \in Nat /\ p # 0
  /\ \A d \in Hits : d \in Nat /\ d # 0
  /\ \A d \in Burns : d \in Nat /\ d # 0
  /\ Budget \in Nat /\ MaxQuantity \in Nat
BY EnvironmentAssumption

LEMMA Durations ==
  ASSUME NEW e \in Effects, NEW p \in Nat \ {0}
  PROVE  Duration(e, p) \in Nat \ {0}
BY DEF Duration

LEMMA SpentBudget ==
  ASSUME IInv, Spend
  PROVE  budget' \in 0..Budget
BY Environment DEF IInv, Spend

LEMMA InitIInv ==
  ASSUME Init
  PROVE  IInv /\ Shielded(stack) /\ Fit(stack)
<1>1. PICK k \in Creatures :
        stack = Init0(k, 0, FALSE) /\ round = 0 /\ budget = Budget /\ rayLoss = 0
  BY DEF Init
<1>2. Sound(stack, 0)
  <2>1. Sound(Init0(k, 0, FALSE), 0)
    <3>1. 0 \in Nat /\ FALSE \in BOOLEAN /\ k \in Kinds  BY Environment
    <3> QED  BY <3>1, InitSound
  <2> QED  BY <1>1, <2>1
<1>3. Healthy(stack) /\ Fit(stack) /\ stack.kind \in Creatures
  <2>1. InitialQuantity \in Nat /\ InitialQuantity # 0
        /\ 0 \in 0..(MonsterHP - 1) /\ InitialQuantity <= InitialQuantity
    BY BaseTypes
  <2> QED  BY <1>1, <2>1 DEF Init0, Healthy, Fit
<1>4. Shielded(stack)
  <2>1. 0 \in 0..MonsterHP  BY BaseTypes
  <2> QED  BY <1>1, <2>1 DEF Init0, Shielded, On, Effects, Ironfist
<1>5. budget \in 0..Budget /\ round \in {0, 1} /\ rayLoss \in Int
  BY <1>1, Environment
<1>6. Sound(stack, rayLoss)  BY <1>1, <1>2
<1> QED  BY <1>3, <1>4, <1>5, <1>6 DEF IInv
-----------------------------------------------------------------------------
(* Spells.                                                                  *)
LEMMA SpellsKeep ==
  ASSUME IInv, Spells
  PROVE  /\ IInv' /\ stack'.kind = stack.kind
         /\ Shielded(stack) => Shielded(stack')
         /\ Strong /\ Fit(stack) => Fit(stack')
<1>0. /\ stack \in Stack /\ Sound(stack, rayLoss) /\ Healthy(stack)
      /\ rayLoss \in Int /\ round \in {0, 1} /\ stack.kind \in Creatures
  BY DEF IInv, Sound
<1>1. ASSUME NEW e \in Castable[stack.kind], NEW p \in Powers, CastInfluence(e, p)
      PROVE  IInv' /\ Keeps(stack, stack')
  <2> DEFINE t == SetSpellInfluence(stack, e, Duration(e, p))
  <2>1. e \in Effects /\ Duration(e, p) \in Nat \ {0}
    BY <1>0, Environment, Durations
  <2>2. /\ stack' = t /\ ~On(stack, "AntiMagic") /\ Spend
        /\ round' = round /\ rayLoss' = rayLoss
    BY <1>1 DEF CastInfluence, Susceptible
  <2>3. SameHealth(stack, t) /\ (Shielded(stack) => Shielded(t))
    BY <1>0, <2>1, InfluenceKeeps
  <2>4. Sound(t, rayLoss)  BY <1>0, <2>1, <2>2, InfluenceSound
  <2> HIDE DEF t
  <2> QED  BY <1>0, <2>2, <2>3, <2>4, HealthFrame, SpentBudget DEF IInv, Keeps
<1>2. ASSUME CastDispel \/ CastDisenchant
      PROVE  IInv' /\ Keeps(stack, stack')
  <2>1. PICK E \in SUBSET Effects : stack' = CancelEffects(stack, E)
    BY <1>2 DEF CastDispel, CastDisenchant, Disenchant, Disenchanted, Effects,
                Classic
  <2>2. Spend /\ round' = round /\ rayLoss' = rayLoss
    BY <1>2 DEF CastDispel, CastDisenchant
  <2>3. SameHealth(stack, stack') /\ (Shielded(stack) => Shielded(stack'))
    BY <1>0, <2>1, CancelKeeps
  <2>4. Sound(stack', rayLoss)  BY <1>0, <2>1, CancelSound
  <2> QED  BY <1>0, <2>2, <2>3, <2>4, HealthFrame, SpentBudget DEF IInv, Keeps
<1>3. ASSUME NEW p \in Powers, CastCure(p)
      PROVE  IInv' /\ Keeps(stack, stack')
  <2>1. /\ stack' = Cure(stack, p) /\ Spend
        /\ round' = round /\ rayLoss' = rayLoss
    BY <1>3 DEF CastCure
  <2>2. Keeps(stack, stack') /\ Sound(stack', rayLoss)
    BY <1>0, <2>1, CureKeeps, Environment DEF Keeps
  <2> QED  BY <1>0, <2>1, <2>2, SpentBudget DEF IInv, Keeps
<1>4. ASSUME CastDisruptingRay
      PROVE  IInv' /\ Keeps(stack, stack')
  <2> DEFINE t == DisruptingRay(stack)
             r == rayLoss + (stack.defense - t.defense)
  <2>1. stack' = t /\ Spend /\ round' = round /\ rayLoss' = r
    BY <1>4 DEF CastDisruptingRay
  <2>2. /\ t \in Stack /\ SameHealth(stack, t)
        /\ Shielded(stack) => Shielded(t)
        /\ Sound(t, r)
    BY <1>0, RayKeeps
  <2>3. r \in Int
    <3>1. t.defense \in Int /\ stack.defense \in Int  BY <1>0, <2>2 DEF Stack
    <3> HIDE DEF t
    <3> QED  BY <1>0, <3>1
  <2> HIDE DEF t, r
  <2> QED  BY <1>0, <2>1, <2>2, <2>3, HealthFrame, SpentBudget DEF IInv, Keeps
<1>5. ASSUME NEW p \in Powers, CastResurrect(p)
      PROVE  /\ IInv' /\ stack'.kind = stack.kind
             /\ Shielded(stack) => Shielded(stack')
             /\ Strong /\ Fit(stack) => Fit(stack')
  <2>1. /\ stack' = Resurrect(stack, p) /\ Spend
        /\ round' = round /\ rayLoss' = rayLoss
    BY <1>5 DEF CastResurrect
  <2>2. /\ Healthy(stack') /\ Sound(stack', rayLoss) /\ stack'.kind = stack.kind
        /\ Shielded(stack) => Shielded(stack')
        /\ Strong /\ Fit(stack) => Fit(stack')
    BY <1>0, <2>1, ResurrectKeeps, Environment DEF Strong
  <2> QED  BY <1>0, <2>1, <2>2, SpentBudget DEF IInv
<1>6. ASSUME NEW d \in Hits, SpellHit(d)
      PROVE  IInv' /\ Keeps(stack, stack')
  <2> DEFINE u == Damage(stack, d)
  <2>1. /\ stack' = Settle(u) /\ Spend /\ ~stack.isDead
        /\ round' = round /\ rayLoss' = rayLoss
    BY <1>6 DEF SpellHit, Susceptible
  <2>2. /\ u \in Stack /\ Healthy(u) /\ Sound(u, rayLoss) /\ u.kind = stack.kind
        /\ Shielded(stack) => Shielded(u)
        /\ Fit(stack) => Hit(u)
    BY <1>0, <2>1, DamageKeeps, Environment
  <2> HIDE DEF u
  <2>3. Keeps(stack, stack') /\ Sound(stack', rayLoss)
    BY <1>0, <2>1, <2>2, SettleKeeps DEF Keeps
  <2> QED  BY <1>0, <2>1, <2>3, SpentBudget DEF IInv, Keeps
<1>7. ASSUME NEW d \in Hits, MarksmanPierce(d)
      PROVE  IInv' /\ Keeps(stack, stack')
  <2> DEFINE u == Damage(stack, d)
             v == SetSpellInfluence(u, "Daze", 1)
  <2>1. /\ stack' = Settle(v) /\ Spend /\ ~stack.isDead
        /\ round' = round /\ rayLoss' = rayLoss
    BY <1>7 DEF MarksmanPierce, Susceptible
  <2>2. /\ u \in Stack /\ Healthy(u) /\ Sound(u, rayLoss) /\ u.kind = stack.kind
        /\ Shielded(stack) => Shielded(u)
        /\ Fit(stack) => Hit(u)
    BY <1>0, <2>1, DamageKeeps, Environment
  <2>3. "Daze" \in Effects /\ "Daze" \notin Classic
    BY DEF Effects, Ironfist, Classic
  <2> HIDE DEF u
  <2>4. /\ v \in Stack /\ SameHealth(u, v) /\ Sound(v, rayLoss)
        /\ Shielded(u) => Shielded(v)
    BY <1>0, <2>2, <2>3, InfluenceKeeps, InfluenceSound
  <2> HIDE DEF v
  <2>5. Keeps(stack, stack') /\ Sound(stack', rayLoss)
    BY <1>0, <2>1, <2>2, <2>4, HealthFrame, SettleKeeps DEF Keeps
  <2> QED  BY <1>0, <2>1, <2>5, SpentBudget DEF IInv, Keeps
<1> QED  BY <1>1, <1>2, <1>3, <1>4, <1>5, <1>6, <1>7 DEF Spells, Keeps
-----------------------------------------------------------------------------
(* Blows, burns and the abilities that come with them.                      *)
LEMMA BlowsKeep ==
  ASSUME IInv, Blows
  PROVE  IInv' /\ Keeps(stack, stack')
<1>0. /\ stack \in Stack /\ Sound(stack, rayLoss) /\ Healthy(stack)
      /\ rayLoss \in Int /\ round \in {0, 1} /\ budget \in 0..Budget
      /\ stack.kind \in Creatures
  BY DEF IInv, Sound
(* Every blow ends with Settle, of a stack u that a hit has changed.        *)
<1>1. ASSUME NEW u \in Stack, stack' = Settle(u), Healthy(u), Sound(u, rayLoss),
             u.kind = stack.kind,
             Shielded(stack) => Shielded(u), Fit(stack) => Hit(u),
             budget' = budget \/ Spend, round' = round, rayLoss' = rayLoss
      PROVE  IInv' /\ Keeps(stack, stack')
  <2>1. Keeps(stack, stack') /\ Sound(stack', rayLoss)
    BY <1>0, <1>1, SettleKeeps DEF Keeps
  <2> QED  BY <1>0, <1>1, <2>1, SpentBudget DEF IInv, Keeps
<1>2. ASSUME NEW d \in Hits, ~stack.isDead
      PROVE  LET u == DamageEnemy(stack, d)
             IN  /\ u \in Stack /\ Healthy(u) /\ Sound(u, rayLoss)
                 /\ u.kind = stack.kind
                 /\ Shielded(stack) => Shielded(u)
                 /\ Fit(stack) => Hit(u)
  BY <1>0, <1>2, DamageEnemyKeeps, Environment
<1>3. ASSUME NEW d \in Hits, Struck(d)
      PROVE  IInv' /\ Keeps(stack, stack')
  <2>1. /\ stack' = Settle(DamageEnemy(stack, d)) /\ ~stack.isDead
        /\ budget' = budget /\ round' = round /\ rayLoss' = rayLoss
    BY <1>3 DEF Struck
  <2> QED  BY <1>1, <1>2, <2>1
<1>4. ASSUME NEW d \in Hits, NEW e \in Castable[stack.kind], StruckWithAbility(d, e)
      PROVE  IInv' /\ Keeps(stack, stack')
  <2> DEFINE u == DamageEnemy(stack, d)
             k == Duration(e, AbilityPower)
             v == SetSpellInfluence(u, e, k)
  <2>1. /\ stack' = Settle(v) /\ ~stack.isDead /\ ~On(u, "AntiMagic")
        /\ Spend /\ round' = round /\ rayLoss' = rayLoss
    BY <1>4 DEF StruckWithAbility, Susceptible
  <2>2. /\ u \in Stack /\ Healthy(u) /\ Sound(u, rayLoss) /\ u.kind = stack.kind
        /\ Shielded(stack) => Shielded(u)
        /\ Fit(stack) => Hit(u)
    BY <1>2, <2>1
  <2>3. e \in Effects /\ k \in Nat \ {0}
    BY <1>0, Environment, Durations DEF AbilityPower
  <2> HIDE DEF u, k
  <2>4. /\ v \in Stack /\ SameHealth(u, v) /\ Sound(v, rayLoss)
        /\ Shielded(u) => Shielded(v)
    BY <1>0, <2>1, <2>2, <2>3, InfluenceKeeps, InfluenceSound
  <2> HIDE DEF v
  <2>5. Healthy(v) /\ (Hit(u) => Hit(v)) /\ v.kind = stack.kind
    BY <2>2, <2>4, HealthFrame
  <2> QED  BY <1>1, <2>1, <2>2, <2>4, <2>5
<1>5. ASSUME NEW d \in Hits, StruckWithDispel(d)
      PROVE  IInv' /\ Keeps(stack, stack')
  <2> DEFINE u == DamageEnemy(stack, d)
             v == DispelGood(u)
  <2>1. /\ stack' = Settle(v) /\ ~stack.isDead
        /\ Spend /\ round' = round /\ rayLoss' = rayLoss
    BY <1>5 DEF StruckWithDispel
  <2>2. /\ u \in Stack /\ Healthy(u) /\ Sound(u, rayLoss) /\ u.kind = stack.kind
        /\ Shielded(stack) => Shielded(u)
        /\ Fit(stack) => Hit(u)
    BY <1>2, <2>1
  <2> HIDE DEF u
  <2>3. PICK E \in SUBSET Effects : v = CancelEffects(u, E)
    BY DEF DispelGood, Effects, Classic
  <2> HIDE DEF v
  <2>4. /\ v \in Stack /\ SameHealth(u, v) /\ Sound(v, rayLoss)
        /\ Shielded(u) => Shielded(v)
    BY <1>0, <2>2, <2>3, CancelKeeps, CancelSound
  <2>5. Healthy(v) /\ (Hit(u) => Hit(v)) /\ v.kind = stack.kind
    BY <2>2, <2>4, HealthFrame
  <2> QED  BY <1>1, <2>1, <2>2, <2>4, <2>5
<1>6. ASSUME Dodge
      PROVE  IInv' /\ Keeps(stack, stack')
  <2> DEFINE u == Damage(stack, 0)
  <2>1. /\ stack' = Settle(u) /\ ~stack.isDead
        /\ budget' = budget /\ round' = round /\ rayLoss' = rayLoss
    BY <1>6 DEF Dodge
  <2>2. /\ u \in Stack /\ Healthy(u) /\ Sound(u, rayLoss) /\ u.kind = stack.kind
        /\ Shielded(stack) => Shielded(u)
        /\ Fit(stack) => Hit(u)
    BY <1>0, <2>1, DamageKeeps
  <2> HIDE DEF u
  <2> QED  BY <1>1, <2>1, <2>2
<1>7. ASSUME NEW d \in Burns, WalkIntoFire(d)
      PROVE  IInv' /\ Keeps(stack, stack')
  <2> DEFINE u == SetSpellInfluence(stack, "Burn", 2)
  <2>1. /\ stack' = BurnCreature(u, d) /\ ~stack.isDead
        /\ Spend /\ round' = round /\ rayLoss' = rayLoss
    BY <1>7 DEF WalkIntoFire
  <2>2. "Burn" \in Effects /\ "Burn" \notin Classic
    BY DEF Effects, Ironfist, Classic
  <2>3. /\ u \in Stack /\ SameHealth(stack, u) /\ Sound(u, rayLoss)
        /\ Shielded(stack) => Shielded(u)
    BY <1>0, <2>2, InfluenceKeeps, InfluenceSound
  <2> HIDE DEF u
  <2>4. /\ Healthy(u) /\ (Fit(stack) => Fit(u)) /\ ~u.isDead
        /\ u.kind = stack.kind
    BY <1>0, <2>1, <2>3, HealthFrame DEF SameHealth
  <2>5. Keeps(stack, stack') /\ Sound(stack', rayLoss)
    BY <1>0, <2>1, <2>3, <2>4, BurnKeeps, Environment DEF Keeps
  <2> QED  BY <1>0, <2>1, <2>5, SpentBudget DEF IInv, Keeps
<1> QED  BY <1>3, <1>4, <1>5, <1>6, <1>7 DEF Blows
-----------------------------------------------------------------------------
(* What the stack does itself, and the turn of the round.                   *)
LEMMA OwnStepsKeep ==
  ASSUME IInv, OwnSteps
  PROVE  /\ IInv'
         /\ stack.kind # "elemental" /\ Shielded(stack) => Shielded(stack')
         /\ stack'.kind = stack.kind
         /\ Fit(stack) => Fit(stack')
<1>0. /\ stack \in Stack /\ Sound(stack, rayLoss) /\ Healthy(stack)
      /\ rayLoss \in Int /\ round \in {0, 1} /\ budget \in 0..Budget
      /\ stack.kind \in Creatures
  BY DEF IInv, Sound
<1>1. ASSUME EndAttack
      PROVE  IInv' /\ Keeps(stack, stack')
  <2>1. PICK E \in SUBSET Effects : stack' = CancelEffects(stack, E)
    BY <1>1 DEF EndAttack, TookTurn, Effects, Classic
  <2>2. budget' = budget /\ round' = round /\ rayLoss' = rayLoss
    BY <1>1 DEF EndAttack
  <2>3. /\ SameHealth(stack, stack') /\ (Shielded(stack) => Shielded(stack'))
        /\ Sound(stack', rayLoss)
    BY <1>0, <2>1, CancelKeeps, CancelSound
  <2> QED  BY <1>0, <2>2, <2>3, HealthFrame DEF IInv, Keeps
<1>2. ASSUME Retaliate
      PROVE  IInv' /\ Keeps(stack, stack')
  <2>1. /\ stack' = [stack EXCEPT !.retaliated = TRUE]
        /\ budget' = budget /\ round' = round /\ rayLoss' = rayLoss
    BY <1>2 DEF Retaliate
  <2>2. /\ stack' \in Stack /\ SameEffects(stack, stack')
        /\ SameHealth(stack, stack') /\ stack'.shieldHP = stack.shieldHP
    BY <1>0, <2>1 DEF Stack, SameEffects, SameHealth, On
  <2>3. Sound(stack', rayLoss)  BY <1>0, <2>2, SoundFrame
  <2>4. Shielded(stack) => Shielded(stack')
    BY <2>2 DEF Shielded, SameEffects, Effects, Ironfist
  <2> QED  BY <1>0, <2>1, <2>2, <2>3, <2>4, HealthFrame DEF IInv, Keeps
<1>3. ASSUME NEW n \in 1..MaxQuantity, GhostGrows(n)
      PROVE  IInv' /\ Keeps(stack, stack')
  <2>1. /\ stack' = [stack EXCEPT !.quantity = @ + n]
        /\ stack.kind = "ghost" /\ ~stack.isDead
        /\ budget' = budget /\ round' = round /\ rayLoss' = rayLoss
    BY <1>3 DEF GhostGrows
  <2>2. n \in Nat /\ n > 0 /\ stack.quantity \in Nat
    BY <1>0, Environment DEF Healthy
  <2>3. /\ stack' \in Stack /\ SameEffects(stack, stack')
        /\ stack'.quantity = stack.quantity + n /\ stack'.damage = stack.damage
        /\ stack'.dying = stack.dying /\ stack'.isDead = stack.isDead
        /\ stack'.reborn = stack.reborn /\ stack'.shieldHP = stack.shieldHP
        /\ stack'.kind = stack.kind
    BY <1>0, <2>1, <2>2 DEF Stack, SameEffects, On
  <2>4. Sound(stack', rayLoss)  BY <1>0, <2>3, SoundFrame
  <2>5. Shielded(stack) => Shielded(stack')
    BY <2>3 DEF Shielded, SameEffects, Effects, Ironfist
  <2>6. Healthy(stack')  BY <1>0, <2>1, <2>2, <2>3 DEF Healthy
  <2>7. Fit(stack) => Fit(stack')  BY <2>1, <2>2, <2>3 DEF Fit
  <2> QED  BY <1>0, <2>1, <2>4, <2>5, <2>6, <2>7 DEF IInv, Keeps
<1>4. ASSUME NEW d \in Hits, VampireDrains(d)
      PROVE  IInv' /\ Keeps(stack, stack')
  <2>1. /\ stack' = VampireHeal(stack, d) /\ ~stack.isDead /\ stack.kind # "ghost"
        /\ budget' = budget /\ round' = round /\ rayLoss' = rayLoss
    BY <1>4 DEF VampireDrains
  <2>2. Keeps(stack, stack') /\ Sound(stack', rayLoss)
    BY <1>0, <2>1, VampireHealKeeps, Environment DEF Keeps
  <2> QED  BY <1>0, <2>1, <2>2 DEF IInv, Keeps
<1>5. ASSUME ReuseSlot
      PROVE  /\ IInv' /\ Fit(stack')
             /\ stack.kind = "elemental" /\ stack'.kind = stack.kind
  <2>1. /\ stack' = Init0("elemental", stack.shieldHP, stack.reborn) /\ rayLoss' = 0
        /\ Spend /\ round' = round /\ stack.kind = "elemental"
    BY <1>5 DEF ReuseSlot
  <2>2. Sound(stack', 0)
    <3>1. /\ stack.shieldHP \in Nat /\ stack.reborn \in BOOLEAN
          /\ "elemental" \in Kinds
      BY <1>0 DEF Stack, Kinds
    <3> QED  BY <2>1, <3>1, InitSound
  <2>3. Healthy(stack') /\ Fit(stack') /\ stack'.kind = "elemental"
    <3>1. InitialQuantity \in Nat /\ InitialQuantity # 0
          /\ 0 \in 0..(MonsterHP - 1) /\ InitialQuantity <= InitialQuantity
      BY BaseTypes
    <3> QED  BY <2>1, <3>1 DEF Init0, Healthy, Fit
  <2> QED  BY <1>0, <2>1, <2>2, <2>3, SpentBudget DEF IInv
<1> QED  BY <1>1, <1>2, <1>3, <1>4, <1>5 DEF OwnSteps, Keeps

LEMMA RoundKeeps ==
  ASSUME IInv, Round
  PROVE  IInv' /\ Keeps(stack, stack')
<1>0. /\ stack \in Stack /\ Sound(stack, rayLoss) /\ Healthy(stack)
      /\ rayLoss \in Int /\ round \in {0, 1} /\ budget \in 0..Budget
      /\ stack.kind \in Creatures
  BY DEF IInv, Sound
<1>1. PICK d \in Burns : NewRound(d)  BY DEF Round
<1>2. /\ stack' = ResetRound(stack, d) /\ round' = 1 - round
      /\ budget' = budget /\ rayLoss' = rayLoss
  BY <1>1 DEF NewRound
<1>3. Keeps(stack, stack') /\ Sound(stack', rayLoss)
  BY <1>0, <1>2, ResetRoundKeeps, Environment DEF Keeps
<1>4. round' \in {0, 1}  BY <1>0, <1>2
<1> QED  BY <1>0, <1>2, <1>3, <1>4 DEF IInv, Keeps

LEMMA StepKeeps ==
  ASSUME IInv, [Next]_vars
  PROVE  /\ IInv'
         /\ stack.kind # "elemental" /\ Shielded(stack) => Shielded(stack')
         /\ stack'.kind = stack.kind
         /\ Strong /\ Fit(stack) => Fit(stack')
<1>1. CASE Next
  BY <1>1, SpellsKeep, BlowsKeep, OwnStepsKeep, RoundKeeps DEF Next, Keeps
<1>2. CASE UNCHANGED vars
  BY <1>2 DEF vars, IInv
<1> QED  BY <1>1, <1>2
-----------------------------------------------------------------------------
LEMMA Invariant == Spec => []IInv
<1>1. Init => IInv  BY InitIInv
<1>2. IInv /\ [Next]_vars => IInv'  BY StepKeeps
<1> QED  BY <1>1, <1>2, PTL DEF Spec

(* The number of creatures is never negative and the wounds are always less *)
(* than one creature, whatever hits, burns, drains and raises the stack.    *)
THEOREM TypeCorrect == Spec => []TypeOK
<1>1. IInv => TypeOK
  BY DEF IInv, TypeOK, Sound, Healthy
<1> QED  BY <1>1, Invariant, PTL

(* No order of casting, displacing, dispelling and expiring leaves a bonus  *)
(* behind or takes it off twice.                                            *)
THEOREM StatsCorrect == Spec => []StatsMatch
<1>1. IInv => StatsMatch
  BY DEF IInv, Sound, Numbers, StatsMatch, AttackMatches, DefenseMatches,
         SpeedMatches, FlightMatches, Worth, Bonus
<1> QED  BY <1>1, Invariant, PTL

(* numActiveEffects is the number of effects that are on.                   *)
THEOREM CountCorrect == Spec => []EffectCount
<1>1. IInv => EffectCount
  BY DEF IInv, Sound, Counted, EffectCount
<1> QED  BY <1>1, Invariant, PTL

(* Opposite effects are never on together, nor a classic effect under       *)
(* Anti-Magic.                                                              *)
THEOREM ExclusionCorrect == Spec => []Exclusive
<1>1. IInv => Exclusive
  <2> SUFFICES ASSUME IInv PROVE Exclusive  OBVIOUS
  <2>1. Apart(stack)  BY DEF IInv, Sound
  <2>2. \A e : e \in Active(stack) => On(stack, e)  BY DEF Active
  <2>3. ASSUME NEW pair \in {{"Haste", "Slow"}, {"Bless", "Curse"},
                             {"Berserker", "Hypnotize"},
                             {"Stoneskin", "Steelskin"}}
        PROVE  ~(pair \subseteq Active(stack))
    BY <2>1, <2>2 DEF Apart
  <2>4. ASSUME On(stack, "AntiMagic")
        PROVE  Active(stack) \cap Classic = {"AntiMagic"}
    BY <2>1, <2>4 DEF Apart, Active, Effects, Classic
  <2> QED  BY <2>3, <2>4 DEF Exclusive
<1> QED  BY <1>1, Invariant, PTL

(* The effects of a stack, their number and their exclusions agree.         *)
THEOREM EffectsCorrect == Spec => []EffectsAgree
BY CountCorrect, ExclusionCorrect, PTL DEF EffectsAgree

(* A stack has shield points exactly while Force Shield is on, unless it is *)
(* an elemental, whose slot may be one that was used before.                *)
THEOREM ShieldCorrect == Spec => []ShieldMatches
<1> DEFINE Own == stack.kind # "elemental" => Shielded(stack)
<1>1. Init => IInv /\ Own  BY InitIInv
<1>2. IInv /\ Own /\ [Next]_vars => (IInv /\ Own)'
  BY StepKeeps
<1>3. Own => ShieldMatches  BY DEF Shielded, ShieldMatches
<1> HIDE DEF Own
<1> QED  BY <1>1, <1>2, <1>3, PTL DEF Spec

(* When every spell raises at least one creature, a stack has creatures     *)
(* exactly while it is not DEAD and none is left to be buried.              *)
THEOREM NeverZombie ==
  ASSUME Strong
  PROVE  Spec => []NoZombie
<1>1. Init => IInv /\ Fit(stack)  BY InitIInv
<1>2. IInv /\ Fit(stack) /\ [Next]_vars => (IInv /\ Fit(stack))'
  BY StepKeeps
<1>3. Fit(stack) => NoZombie  BY DEF Fit, NoZombie
<1> QED  BY <1>1, <1>2, <1>3, PTL DEF Spec

(* Only Ghosts outgrow the stack that entered the battle, and a creature    *)
(* with Rebirth has risen once before it is dead for good.                  *)
THEOREM LivesCorrect == Spec => []LivesCounted
<1>1. IInv => LivesCounted
  BY DEF IInv, Healthy, LivesCounted, Capped, DiesTwice
<1> QED  BY <1>1, Invariant, PTL
-----------------------------------------------------------------------------
(* What a step takes from the stack.                                        *)

(* The hit points left, from the numbers that Damage computes.              *)
LEMMA FleshTaken ==
  ASSUME NEW s, NEW t, NEW d \in Nat, Healthy(s),
         t.damage = (d + s.damage) % MonsterHP,
         t.quantity = IF s.quantity < (d + s.damage) \div MonsterHP
                      THEN 0 ELSE s.quantity - (d + s.damage) \div MonsterHP
  PROVE  Flesh(t) = Left(Flesh(s), d)
<1> DEFINE n == d + s.damage
           k == n \div MonsterHP
           r == n % MonsterHP
           all == s.quantity * MonsterHP
           rest == (s.quantity - k) * MonsterHP
<1>1. /\ n \in Nat /\ s.quantity \in Nat /\ s.damage \in 0..(MonsterHP - 1)
      /\ MonsterHP \in Nat /\ MonsterHP > 0
  BY BaseTypes DEF Healthy
<1>2. /\ k \in Nat /\ r \in 0..(MonsterHP - 1)
      /\ s.quantity <= k => all <= n
      /\ k < s.quantity => all > n /\ rest - r = all - n
  BY <1>1, Division
<1>3. all \in Nat  BY <1>1
<1>4. n = d + s.damage /\ t.damage = r
      /\ t.quantity = IF s.quantity < k THEN 0 ELSE s.quantity - k
  OBVIOUS
<1>5. t.quantity * MonsterHP = IF s.quantity < k THEN 0 ELSE rest
  BY <1>1, <1>4
<1>6. Flesh(s) = IF s.quantity > 0 THEN all - s.damage ELSE 0  BY DEF Flesh
<1>7. Flesh(t) = IF k < s.quantity THEN rest - r ELSE 0
  <2> HIDE DEF n, k, r, all, rest
  <2> QED  BY <1>1, <1>2, <1>4, <1>5 DEF Flesh
<1>8. s.quantity = 0 => k >= s.quantity  BY <1>2
<1> HIDE DEF n, k, r, all, rest
<1> QED  BY <1>1, <1>2, <1>3, <1>4, <1>6, <1>7 DEF Left

LEMMA FleshType ==
  ASSUME NEW s, Healthy(s)
  PROVE  Flesh(s) \in Nat
<1>1. /\ s.quantity \in Nat /\ s.damage \in 0..(MonsterHP - 1)
      /\ MonsterHP \in Nat /\ MonsterHP > 0
  BY BaseTypes DEF Healthy
<1>2. CASE s.quantity > 0
  <2>1. s.quantity - 1 \in Nat  BY <1>1, <1>2
  <2>2. (s.quantity - 1) * MonsterHP \in Nat  BY <1>1, <2>1
  <2>3. s.quantity * MonsterHP = MonsterHP + (s.quantity - 1) * MonsterHP  BY <1>1
  <2> QED  BY <1>1, <1>2, <2>2, <2>3 DEF Flesh
<1>3. CASE ~(s.quantity > 0)  BY <1>3 DEF Flesh
<1> QED  BY <1>2, <1>3

(* A hit of d points, all of which or what the shield leaves of them reach  *)
(* the creatures.                                                           *)
LEMMA PierceTakes ==
  ASSUME NEW s \in Stack, NEW d \in Nat, Healthy(s),
         LET t == Settle(Damage(s, d)) IN t.reborn = s.reborn
  PROVE  LET t == Settle(Damage(s, d))
         IN  Flesh(t) = Left(Flesh(s), d) /\ t.shieldHP = s.shieldHP
<1> DEFINE u == Damage(s, d)
           t == Settle(u)
<1>1. /\ u \in Stack /\ u.shieldHP = s.shieldHP /\ u.reborn = s.reborn
      /\ u.damage = (d + s.damage) % MonsterHP
      /\ u.quantity = IF s.quantity < (d + s.damage) \div MonsterHP
                      THEN 0 ELSE s.quantity - (d + s.damage) \div MonsterHP
  BY DamageTakes
<1>2. Flesh(u) = Left(Flesh(s), d)  BY <1>1, FleshTaken
<1> HIDE DEF u
<1>3. /\ t.shieldHP = u.shieldHP /\ t.damage = u.damage
      /\ t.reborn = u.reborn => t.quantity = u.quantity
  BY <1>1, SettleTakes
<1> HIDE DEF t
<1>4. t.reborn = s.reborn  BY DEF t, u
<1>5. Flesh(t) = Flesh(u)  BY <1>1, <1>3, <1>4 DEF Flesh
<1> QED  BY <1>1, <1>2, <1>3, <1>5 DEF t, u

LEMMA BlowTakes ==
  ASSUME NEW s \in Stack, NEW d \in Nat, Healthy(s),
         LET t == Settle(DamageEnemy(s, d)) IN t.reborn = s.reborn
  PROVE  LET t == Settle(DamageEnemy(s, d))
         IN  /\ Flesh(t) = Left(Flesh(s), Left(d, s.shieldHP))
             /\ t.shieldHP = IF d < s.shieldHP THEN s.shieldHP - d
                             ELSE IF On(s, "ForceShield") THEN 0 ELSE s.shieldHP
<1> DEFINE u == DamageEnemy(s, d)
           t == Settle(u)
           x == Left(d, s.shieldHP)
<1>1. x \in Nat /\ x = IF d > s.shieldHP THEN d - s.shieldHP ELSE 0
  BY DEF Left, Stack
<1> HIDE DEF x
<1>2. /\ u \in Stack /\ u.reborn = s.reborn
      /\ u.shieldHP = IF d < s.shieldHP THEN s.shieldHP - d
                      ELSE IF On(s, "ForceShield") THEN 0 ELSE s.shieldHP
      /\ u.damage = (x + s.damage) % MonsterHP
      /\ u.quantity = IF s.quantity < (x + s.damage) \div MonsterHP
                      THEN 0 ELSE s.quantity - (x + s.damage) \div MonsterHP
  BY <1>1, DamageEnemyTakes
<1> HIDE DEF u
<1>3. Flesh(u) = Left(Flesh(s), x)  BY <1>1, <1>2, FleshTaken
<1>4. /\ t.shieldHP = u.shieldHP /\ t.damage = u.damage
      /\ t.reborn = u.reborn => t.quantity = u.quantity
  BY <1>2, SettleTakes
<1> HIDE DEF t
<1>5. t.reborn = s.reborn  BY DEF t, u
<1>6. Flesh(t) = Flesh(u)  BY <1>2, <1>4, <1>5 DEF Flesh
<1> QED  BY <1>2, <1>3, <1>4, <1>6 DEF t, u, x

(* No hit of a held stack leaves it its turn.                               *)
LEMMA HitCostsTurn ==
  ASSUME NEW s \in Stack, NEW d \in Nat, Healthy(s), Held(s)
  PROVE  /\ Damage(s, d) \in Stack /\ Damage(s, d).lostTurn
         /\ DamageEnemy(s, d) \in Stack /\ DamageEnemy(s, d).lostTurn
BY DamageTakes, DamageEnemyTakes

LEMMA StepCostsTurn ==
  ASSUME IInv, Next, stack'.quantity < stack.quantity, ~Raised,
         \E e \in {"Blind", "Paralyze", "Petrify"} : stack.strength[e] > 1
  PROVE  stack'.lostTurn
<1>0. /\ stack \in Stack /\ Healthy(stack) /\ stack.kind \in Creatures
      /\ Held(stack) /\ stack'.quantity # stack.quantity
      /\ stack.quantity \in Nat
  <2>1. \A e \in Holding : stack.strength[e] \in Nat
    BY HoldingEffects DEF IInv, Sound, Stack
  <2>2. Held(stack)  BY <2>1 DEF Held, Holding, On
  <2> QED  BY <2>2 DEF IInv, Sound, Healthy
(* A hit has cost u its turn; an effect that comes with it, and the end of  *)
(* PowEffect, do not give the turn back.                                    *)
<1>1. ASSUME NEW u \in Stack, u.lostTurn, stack' = Settle(u)  PROVE stack'.lostTurn
  BY <1>1, SettleTakes
<1>2. ASSUME NEW u \in Stack, u.lostTurn, NEW e \in Effects, NEW k \in Nat \ {0},
             stack' = Settle(SetSpellInfluence(u, e, k))
      PROVE  stack'.lostTurn
  BY <1>1, <1>2, InfluenceTurn, InfluenceKeeps
<1>3. CASE Spells
  <2>1. ASSUME NEW e \in Castable[stack.kind], NEW p \in Powers, CastInfluence(e, p)
        PROVE  FALSE
    <3>1. e \in Effects /\ Duration(e, p) \in Nat \ {0}
      BY <1>0, Environment, Durations
    <3> QED  BY <1>0, <2>1, <3>1, InfluenceKeeps DEF CastInfluence, SameHealth
  <2>2. ASSUME CastDispel \/ CastDisenchant  PROVE FALSE
    <3>1. PICK E \in SUBSET Effects : stack' = CancelEffects(stack, E)
      BY <2>2 DEF CastDispel, CastDisenchant, Disenchant, Disenchanted, Effects,
                  Classic
    <3> QED  BY <1>0, <3>1, CancelKeeps DEF SameHealth
  <2>3. ASSUME NEW p \in Powers, CastCure(p)  PROVE FALSE
    <3> DEFINE u == CancelEffects(stack, Cured)
    <3>1. Cured \in SUBSET Effects  BY DEF Cured, Effects, Classic
    <3>2. u \in Stack /\ u.quantity = stack.quantity
      BY <1>0, <3>1, CancelKeeps DEF SameHealth
    <3>3. stack' = [u EXCEPT !.damage = IF @ < 5 * p THEN 0 ELSE @ - 5 * p]
      BY <2>3, Zenon DEF CastCure, Cure
    <3> HIDE DEF u
    <3> QED  BY <1>0, <3>2, <3>3 DEF Stack
  <2>4. ASSUME CastDisruptingRay  PROVE FALSE
    BY <1>0, <2>4 DEF CastDisruptingRay, DisruptingRay, Stack
  <2>5. ASSUME NEW p \in Powers, CastResurrect(p)  PROVE FALSE
    BY <2>5 DEF Raised
  <2>6. ASSUME NEW d \in Hits, SpellHit(d)  PROVE stack'.lostTurn
    BY <1>0, <1>1, <2>6, HitCostsTurn, Environment DEF SpellHit
  <2>7. ASSUME NEW d \in Hits, MarksmanPierce(d)  PROVE stack'.lostTurn
    <3>1. "Daze" \in Effects /\ 1 \in Nat \ {0}  BY DEF Effects, Ironfist
    <3>2. Damage(stack, d) \in Stack /\ Damage(stack, d).lostTurn
      BY <1>0, HitCostsTurn, Environment
    <3> QED  BY <1>2, <2>7, <3>1, <3>2 DEF MarksmanPierce
  <2> QED  BY <1>3, <2>1, <2>2, <2>3, <2>4, <2>5, <2>6, <2>7 DEF Spells
<1>4. CASE Blows
  <2>1. ASSUME NEW d \in Hits
        PROVE  DamageEnemy(stack, d) \in Stack /\ DamageEnemy(stack, d).lostTurn
    BY <1>0, HitCostsTurn, Environment
  <2>2. ASSUME NEW d \in Hits, Struck(d)  PROVE stack'.lostTurn
    BY <1>1, <2>1, <2>2 DEF Struck
  <2>3. ASSUME NEW d \in Hits, NEW e \in Castable[stack.kind], StruckWithAbility(d, e)
        PROVE  stack'.lostTurn
    <3> DEFINE k == Duration(e, AbilityPower)
    <3>1. e \in Effects /\ k \in Nat \ {0}
      BY <1>0, Environment, Durations DEF AbilityPower
    <3>2. stack' = Settle(SetSpellInfluence(DamageEnemy(stack, d), e, k))
      BY <2>3 DEF StruckWithAbility
    <3> HIDE DEF k
    <3> QED  BY <1>2, <2>1, <3>1, <3>2
  <2>4. ASSUME NEW d \in Hits, StruckWithDispel(d)  PROVE stack'.lostTurn
    <3> DEFINE u == DamageEnemy(stack, d)
    <3>1. u \in Stack /\ u.lostTurn /\ stack' = Settle(DispelGood(u))
      BY <2>1, <2>4 DEF StruckWithDispel
    <3> HIDE DEF u
    <3>2. PICK E \in SUBSET Effects : DispelGood(u) = CancelEffects(u, E)
      BY DEF DispelGood, Effects, Classic
    <3> QED  BY <1>1, <3>1, <3>2, CancelTurn
  <2>5. ASSUME Dodge  PROVE stack'.lostTurn
    BY <1>0, <1>1, <2>5, HitCostsTurn DEF Dodge
  <2>6. ASSUME NEW d \in Burns, WalkIntoFire(d)  PROVE stack'.lostTurn
    <3> DEFINE u == SetSpellInfluence(stack, "Burn", 2)
    <3>1. "Burn" \in Effects /\ 2 \in Nat \ {0}  BY DEF Effects, Ironfist
    <3>2. u \in Stack /\ Healthy(u) /\ Held(u)
      BY <1>0, <3>1, InfluenceKeeps, InfluenceTurn, HealthFrame
    <3>3. stack' = Settle(Damage(u, d))  BY <2>6 DEF WalkIntoFire, BurnCreature
    <3> HIDE DEF u
    <3> QED  BY <1>1, <3>2, <3>3, HitCostsTurn, Environment
  <2> QED  BY <1>4, <2>2, <2>3, <2>4, <2>5, <2>6 DEF Blows
<1>5. CASE OwnSteps
  <2>1. ASSUME EndAttack  PROVE FALSE
    <3>1. PICK E \in SUBSET Effects : stack' = CancelEffects(stack, E)
      BY <2>1 DEF EndAttack, TookTurn, Effects, Classic
    <3> QED  BY <1>0, <3>1, CancelKeeps DEF SameHealth
  <2>2. ASSUME Retaliate  PROVE FALSE
    BY <1>0, <2>2 DEF Retaliate, Stack
  <2>3. ASSUME NEW n \in 1..MaxQuantity, GhostGrows(n)  PROVE FALSE
    <3>1. n \in Nat  BY Environment
    <3>2. stack'.quantity = stack.quantity + n
      BY <1>0, <2>3 DEF GhostGrows, Stack
    <3> QED  BY <1>0, <3>1, <3>2
  <2>4. ASSUME NEW d \in Hits, VampireDrains(d)  PROVE FALSE
    <3> DEFINE back == (d - stack.damage) \div MonsterHP
    <3>1. stack.kind # "ghost" /\ stack' = VampireHeal(stack, d)
      BY <2>4 DEF VampireDrains
    <3>2. stack.quantity <= InitialQuantity /\ stack.damage \in Nat
      BY <1>0, <3>1, BaseTypes DEF Healthy
    <3>3. ~(d < stack.damage) => back \in Nat
      <4>1. ~(d < stack.damage) => d - stack.damage \in Nat  BY <3>2, Environment
      <4> QED  BY <4>1, DivMod
    <3>4. stack'.quantity = IF d < stack.damage THEN stack.quantity
                            ELSE IF InitialQuantity - stack.quantity <= back
                            THEN InitialQuantity ELSE stack.quantity + back
      BY <1>0, <3>1 DEF VampireHeal, Stack
    <3> HIDE DEF back
    <3> QED  BY <1>0, <3>2, <3>3, <3>4, BaseTypes
  <2>5. ASSUME ReuseSlot  PROVE FALSE
    BY <1>0, <2>5, BaseTypes DEF ReuseSlot, Init0
  <2> QED  BY <1>5, <2>1, <2>2, <2>3, <2>4, <2>5 DEF OwnSteps
<1>6. CASE Round
  <2>1. PICK d \in Burns : stack' = ResetRound(stack, d)  BY <1>6 DEF Round, NewRound
  <2> QED  BY <1>0, <2>1, ResetRoundTurn, Environment DEF Holding
<1> QED  BY <1>3, <1>4, <1>5, <1>6 DEF Next

(* A stack that Blind, Paralyze or Petrify holds beyond this round, and     *)
(* that loses creatures to a blow, a spell, a dodge, a fire or a burn, does *)
(* not move in the round in which it is hit.                                *)
THEOREM HeldStackLosesTurn == Spec => BlowCostsTurn
<1>1. IInv /\ [Next]_vars =>
        [ (/\ stack'.quantity < stack.quantity /\ ~stack'.isDead /\ ~Raised
           /\ \E e \in {"Blind", "Paralyze", "Petrify"} : stack.strength[e] > 1)
          => stack'.lostTurn ]_vars
  BY StepCostsTurn
<1> QED  BY <1>1, Invariant, PTL DEF Spec, BlowCostsTurn

(* A blow takes its damage from the shield and the creatures, a spell takes *)
(* it from the creatures, to the point; and no spell that raises creatures  *)
(* takes any, save the surplus of a Ghost.                                  *)
THEOREM DamageAddsUp == Spec => HealthKept
<1> DEFINE Exact == /\ stack'.reborn = stack.reborn =>
                        \A d \in Hits : Absorbed(d) /\ Pierced(d)
                    /\ Raised => \/ stack'.quantity >= stack.quantity
                                 \/ Outgrown /\ stack'.quantity = InitialQuantity
<1>1. ASSUME IInv  PROVE Exact
  <2>1. stack \in Stack /\ Healthy(stack)  BY <1>1 DEF IInv, Sound
  <2>2. ASSUME stack'.reborn = stack.reborn, NEW d \in Hits, Struck(d)
        PROVE  Absorbed(d)
    <3>1. d \in Nat /\ stack' = Settle(DamageEnemy(stack, d))
      BY <2>2, Environment DEF Struck
    <3>2. /\ Flesh(stack') = Left(Flesh(stack), Left(d, stack.shieldHP))
          /\ stack'.shieldHP = IF d < stack.shieldHP THEN stack.shieldHP - d
                               ELSE IF On(stack, "ForceShield") THEN 0
                               ELSE stack.shieldHP
      BY <2>1, <2>2, <3>1, BlowTakes
    <3>3. CASE Inherited
      BY <3>2, <3>3 DEF Absorbed, Inherited
    <3>4. CASE ~Inherited
      <4>1. Flesh(stack) \in Nat /\ stack.shieldHP \in Nat
        BY <2>1, FleshType DEF Stack
      <4>2. stack'.shieldHP = Left(stack.shieldHP, d)
        BY <3>1, <3>2, <3>4, <4>1 DEF Inherited, Left
      <4>3. Health(stack') = Left(Health(stack), d)
        BY <3>1, <3>2, <4>1, <4>2 DEF Health, Left
      <4> QED  BY <3>4, <4>3 DEF Absorbed
    <3> QED  BY <3>3, <3>4
  <2>3. ASSUME stack'.reborn = stack.reborn, NEW d \in Hits, SpellHit(d)
        PROVE  Pierced(d)
    BY <2>1, <2>3, PierceTakes, Environment DEF SpellHit, Pierced
  <2>4. ASSUME NEW p \in Powers, CastResurrect(p)
        PROVE  \/ stack'.quantity >= stack.quantity
               \/ Outgrown /\ stack'.quantity = InitialQuantity
    <3> DEFINE r == (50 * p) \div MonsterHP
    <3>1. p \in Nat /\ stack' = Resurrect(stack, p)
      BY <2>4, Environment DEF CastResurrect
    <3>2. r \in Nat
      <4>1. 50 * p \in Nat  BY <3>1
      <4> QED  BY <4>1, DivMod
    <3>3. stack'.quantity = IF InitialQuantity < stack.quantity + r
                            THEN InitialQuantity ELSE stack.quantity + r
      BY <2>1, <3>1 DEF Resurrect, Stack
    <3> HIDE DEF r
    <3>4. /\ stack.quantity \in Nat
          /\ stack.kind # "ghost" => stack.quantity <= InitialQuantity
      BY <2>1 DEF Healthy
    <3> QED  BY <3>2, <3>3, <3>4, BaseTypes DEF Outgrown
  <2>5. ASSUME NEW d \in Hits, ~Struck(d)  PROVE Absorbed(d)
    BY <2>5 DEF Absorbed
  <2>6. ASSUME NEW d \in Hits, ~SpellHit(d)  PROVE Pierced(d)
    BY <2>6 DEF Pierced
  <2> QED  BY <2>2, <2>3, <2>4, <2>5, <2>6 DEF Raised
<1>2. IInv /\ [Next]_vars => [Exact]_vars  BY <1>1
<1>3. HealthKept <=> [][Exact]_vars  BY DEF HealthKept
<1> HIDE DEF Exact
<1> QED  BY <1>2, <1>3, Invariant, PTL DEF Spec
-----------------------------------------------------------------------------
(* A step lengthens an effect only if it is a spell, an ability or a fire;  *)
(* and each round shortens all but the force shield.                        *)
Faded ==
  /\ \A e \in Effects :
       stack'.strength[e] > stack.strength[e] => budget' < budget
  /\ Round /\ stack.quantity > 0 =>
       \A e \in Effects \ {"ForceShield"} :
         stack'.strength[e] < stack.strength[e] \/ ~On(stack', e)

LEMMA StepFades ==
  ASSUME IInv, Next
  PROVE  Faded
<1>0. /\ stack \in Stack /\ Healthy(stack) /\ budget \in Int
      /\ \A e \in Effects : stack.strength[e] \in Nat
  BY Environment DEF IInv, Sound, Stack
<1>1. CASE Round
  <2>1. PICK d \in Burns : stack' = ResetRound(stack, d)  BY <1>1 DEF Round, NewRound
  <2>2. /\ stack' \in Stack /\ Fades(stack, stack')
        /\ stack.quantity > 0 => \A e \in Effects \ {"ForceShield"} :
             stack'.strength[e] < stack.strength[e] \/ ~On(stack', e)
    BY <1>0, <2>1, ResetRoundFades, Environment
  <2>3. \A e \in Effects : stack'.strength[e] \in Nat  BY <2>2 DEF Stack
  <2> QED  BY <1>0, <2>2, <2>3 DEF Fades, Faded
<1>2. ASSUME ~Round, Spend  PROVE Faded
  BY <1>0, <1>2 DEF Spend, Faded
<1>3. ASSUME ~Round, stack' \in Stack, Fades(stack, stack')  PROVE Faded
  <2>1. \A e \in Effects : stack'.strength[e] \in Nat  BY <1>3 DEF Stack
  <2> QED  BY <1>0, <1>3, <2>1 DEF Fades, Faded
<1>4. ASSUME ~Round, NEW u, u \in Stack, Fades(stack, u), stack' = Settle(u)
      PROVE  Faded
  <2>1. stack'.strength = u.strength  BY <1>4, SettleFades
  <2>2. \A e \in Effects : u.strength[e] \in Nat  BY <1>4 DEF Stack
  <2> QED  BY <1>0, <1>4, <2>1, <2>2 DEF Fades, Faded
<1>5. ASSUME ~Round, stack'.strength = stack.strength  PROVE Faded
  BY <1>0, <1>5 DEF Faded
<1>6. CASE ~Round /\ Spells
  <2>1. Spend
    BY <1>6 DEF Spells, CastInfluence, CastDispel, CastDisenchant, CastCure,
                CastDisruptingRay, CastResurrect, SpellHit, MarksmanPierce
  <2> QED  BY <1>2, <1>6, <2>1
<1>7. CASE ~Round /\ Blows
  <2>1. ASSUME NEW d \in Hits, Struck(d)  PROVE Faded
    <3> DEFINE u == DamageEnemy(stack, d)
    <3>1. u \in Stack /\ Fades(stack, u)
      BY <1>0, DamageEnemyFades, Environment
    <3>2. stack' = Settle(u)  BY <2>1 DEF Struck
    <3> HIDE DEF u
    <3> QED  BY <1>4, <1>7, <3>1, <3>2
  <2>2. ASSUME Dodge  PROVE Faded
    <3> DEFINE u == Damage(stack, 0)
    <3>1. u \in Stack /\ Fades(stack, u)  BY <1>0, DamageFades
    <3>2. stack' = Settle(u)  BY <2>2 DEF Dodge
    <3> HIDE DEF u
    <3> QED  BY <1>4, <1>7, <3>1, <3>2
  <2>3. ASSUME \/ \E d \in Hits, e \in Castable[stack.kind] : StruckWithAbility(d, e)
               \/ \E d \in Hits : StruckWithDispel(d)
               \/ \E d \in Burns : WalkIntoFire(d)
        PROVE  Faded
    <3>1. Spend
      BY <2>3 DEF StruckWithAbility, StruckWithDispel, WalkIntoFire
    <3> QED  BY <1>2, <1>7, <3>1
  <2> QED  BY <1>7, <2>1, <2>2, <2>3 DEF Blows
<1>8. CASE ~Round /\ OwnSteps
  <2>1. ASSUME EndAttack  PROVE Faded
    <3>1. PICK E \in SUBSET Effects : stack' = CancelEffects(stack, E)
      BY <2>1 DEF EndAttack, TookTurn, Effects, Classic
    <3>2. stack' \in Stack /\ Fades(stack, stack')
      BY <1>0, <3>1, CancelFades
    <3> QED  BY <1>3, <1>8, <3>2
  <2>2. ASSUME Retaliate \/ \E n \in 1..MaxQuantity : GhostGrows(n)  PROVE Faded
    <3>1. stack'.strength = stack.strength
      BY <1>0, <2>2 DEF Retaliate, GhostGrows, Stack
    <3> QED  BY <1>5, <1>8, <3>1
  <2>3. ASSUME NEW d \in Hits, VampireDrains(d)  PROVE Faded
    <3>1. stack' = VampireHeal(stack, d)  BY <2>3 DEF VampireDrains
    <3>2. stack'.strength = stack.strength
      BY <1>0, <3>1 DEF VampireHeal, Stack
    <3> QED  BY <1>5, <1>8, <3>2
  <2>4. ASSUME ReuseSlot  PROVE Faded
    <3>1. Spend  BY <2>4 DEF ReuseSlot
    <3> QED  BY <1>2, <1>8, <3>1
  <2> QED  BY <1>8, <2>1, <2>2, <2>3, <2>4 DEF OwnSteps
<1> QED  BY <1>1, <1>6, <1>7, <1>8 DEF Next

(* What makes EffectsWearOff true: no blow, retaliation, drain or round     *)
(* starts an effect or makes one last longer, and each round takes one      *)
(* from every effect of a stack with creatures, the force shield excepted.  *)
(* The strengths are thus a count of rounds that only falls once no more    *)
(* spells come.                                                             *)
THEOREM EffectsFade == Spec => [][Faded]_vars
<1>1. IInv /\ [Next]_vars => [Faded]_vars  BY StepFades
<1> QED  BY <1>1, Invariant, PTL DEF Spec
-----------------------------------------------------------------------------
(* TurnFlags.  Each case names the marks that a step leaves, as the rules   *)
(* of EffectRules_proofs have them.                                         *)
LEMMA MarksIn ==
  ASSUME NEW s \in Stack
  PROVE  /\ MarksOf(s) \subseteq {"dead", "held", "hypno", "took"}
         /\ "dead" \in MarksOf(s) <=> s.isDead
         /\ "held" \in MarksOf(s) <=> Held(s)
         /\ "hypno" \in MarksOf(s) <=> Charmed(s)
         /\ "took" \in MarksOf(s) <=> s.lostTurn
BY DEF MarksOf, Held, Holding, Charmed

LEMMA SameFlags ==
  ASSUME NEW s \in Stack, NEW t \in Stack, SameMarks(s, t)
  PROVE  MarksOf(t) = MarksOf(s)
<1>1. \A m \in {"dead", "held", "hypno", "took"} :
        m \in MarksOf(t) <=> m \in MarksOf(s)
  BY MarksIn DEF SameMarks
<1> QED  BY <1>1, MarksIn

LEMMA HitFlags ==
  ASSUME NEW s \in Stack, NEW t \in Stack, ~s.isDead, HitMarks(s, t)
  PROVE  MarksOf(t) \in Turns!Hurt(MarksOf(s))
<1>1. t.isDead => MarksOf(t) = Turns!Hit(MarksOf(s)) \cup {"dead"}
  BY MarksIn DEF HitMarks, Turns!Hit
<1>2. ~t.isDead => MarksOf(t) = Turns!Hit(MarksOf(s))
  BY MarksIn DEF HitMarks, Turns!Hit
<1> QED  BY <1>1, <1>2 DEF Turns!Hurt

(* A hit, and what follows it.                                              *)
LEMMA SettledFlags ==
  ASSUME NEW s \in Stack, NEW u \in Stack, ~s.isDead, HitMarks(s, u)
  PROVE  MarksOf(Settle(u)) \in Turns!Hurt(MarksOf(s))
<1> DEFINE t == Settle(u)
<1>1. t \in Stack /\ HitMarks(s, t)
  BY SettleMarks DEF HitMarks
<1> HIDE DEF t
<1>2. MarksOf(t) \in Turns!Hurt(MarksOf(s))  BY <1>1, HitFlags
<1> QED  BY <1>2 DEF t

(* The survivors of a hit are held by the ability of the creature.          *)
LEMMA HeldFlags ==
  ASSUME NEW s \in Stack, NEW u \in Stack, NEW t \in Stack,
         ~s.isDead, HitMarks(s, u), ~t.isDead, t.lostTurn = u.lostTurn,
         Held(t), Charmed(t) <=> Charmed(u)
  PROVE  MarksOf(t) \in Turns!Struck(MarksOf(s))
<1>1. MarksOf(t) = Turns!Hit(MarksOf(s)) \cup {"held"}
  BY MarksIn DEF HitMarks, Turns!Hit
<1> QED  BY <1>1 DEF Turns!Struck

(* A spell that puts an effect on a stack, or takes effects off.            *)
LEMMA EnchantedFlags ==
  ASSUME NEW s \in Stack, NEW t \in Stack,
         t.isDead = s.isDead, t.lostTurn = s.lostTurn,
         \/ Held(t) /\ (Charmed(t) <=> Charmed(s))
         \/ (Held(t) <=> Held(s)) /\ Charmed(t)
         \/ (Held(t) <=> Held(s)) /\ ~Charmed(t)
         \/ ~Held(t) /\ ~Charmed(t)
  PROVE  MarksOf(t) \in Turns!Enchanted(MarksOf(s))
<1> DEFINE m == MarksOf(s)
<1>1. CASE Held(t) /\ (Charmed(t) <=> Charmed(s))
  <2>1. MarksOf(t) = m \cup {"held"}  BY <1>1, MarksIn
  <2> QED  BY <2>1 DEF Turns!Enchanted
<1>2. CASE (Held(t) <=> Held(s)) /\ Charmed(t)
  <2>1. MarksOf(t) = m \cup {"hypno"}  BY <1>2, MarksIn
  <2> QED  BY <2>1 DEF Turns!Enchanted
<1>3. CASE (Held(t) <=> Held(s)) /\ ~Charmed(t)
  <2>1. MarksOf(t) = m \ {"hypno"}  BY <1>3, MarksIn
  <2> QED  BY <2>1 DEF Turns!Enchanted
<1>4. CASE ~Held(t) /\ ~Charmed(t)
  <2>1. MarksOf(t) = m \ {"held", "hypno"}  BY <1>4, MarksIn
  <2> QED  BY <2>1 DEF Turns!Enchanted
<1> QED  BY <1>1, <1>2, <1>3, <1>4

(* The round gives the turn back and wears effects off.                     *)
LEMMA RefreshedFlags ==
  ASSUME NEW s \in Stack, NEW t \in Stack, ~s.isDead, ~t.isDead, ~t.lostTurn,
         Held(t) => Held(s), Charmed(t) => Charmed(s)
  PROVE  MarksOf(t) \in Turns!Refreshed(MarksOf(s))
<1>1. MarksOf(t) \subseteq MarksOf(s) \ {"took"}  BY MarksIn
<1> QED  BY <1>1 DEF Turns!Refreshed

(* A step of the battle within a round, as TurnFlags sees it.               *)
Seen(s, t) ==
  \/ MarksOf(t) = MarksOf(s)
  \/ MarksOf(t) \in Turns!Spelled(MarksOf(s))
  \/ "dead" \notin MarksOf(s) /\ MarksOf(t) \in Turns!Struck(MarksOf(s))
  \/ "dead" \notin MarksOf(s) /\ MarksOf(t) = MarksOf(s) \ {"hypno"}
  \/ "dead" \in MarksOf(s) /\ MarksOf(t) = {}

LEMMA HurtSeen ==
  ASSUME NEW s \in Stack, NEW t \in Stack, ~s.isDead,
         MarksOf(t) \in Turns!Hurt(MarksOf(s))
  PROVE  Seen(s, t)
BY MarksIn DEF Seen, Turns!Struck

LEMMA SpellsSeen ==
  ASSUME IInv, Spells
  PROVE  Seen(stack, stack')
<1>0. /\ stack \in Stack /\ Healthy(stack) /\ stack.kind \in Creatures
      /\ stack' \in Stack
  BY SpellsKeep DEF IInv, Sound
<1>1. ASSUME NEW e \in Castable[stack.kind], NEW p \in Powers, CastInfluence(e, p)
      PROVE  Seen(stack, stack')
  <2> DEFINE k == Duration(e, p)
             t == SetSpellInfluence(stack, e, k)
  <2>1. e \in Effects /\ k \in Nat \ {0}
    BY <1>0, Environment, Durations
  <2>2. stack' = t /\ ~On(stack, "AntiMagic") /\ ~stack.isDead
    BY <1>1 DEF CastInfluence, Susceptible
  <2> HIDE DEF k
  <2>3. /\ t.isDead = stack.isDead /\ t.lostTurn = stack.lostTurn
        /\ e # "AntiMagic" => (Held(t) <=> Held(stack) \/ e \in Holding)
        /\ e \notin {"AntiMagic", "Berserker", "Hypnotize"} =>
             (Charmed(t) <=> Charmed(stack))
        /\ e = "Hypnotize" => Charmed(t)
        /\ e = "Berserker" /\ Charmed(t) => Charmed(stack)
        /\ e = "AntiMagic" => ~Held(t) /\ ~Charmed(t)
    BY <1>0, <2>1, <2>2, InfluenceMarks
  <2> HIDE DEF t
  <2>4. "Hypnotize" \notin Holding /\ "Berserker" \notin Holding  BY DEF Holding
  <2>5. \/ SameMarks(stack, t)
        \/ Held(t) /\ (Charmed(t) <=> Charmed(stack))
        \/ (Held(t) <=> Held(stack)) /\ Charmed(t)
        \/ (Held(t) <=> Held(stack)) /\ ~Charmed(t)
        \/ ~Held(t) /\ ~Charmed(t)
    BY <2>3, <2>4 DEF SameMarks
  <2>6. \/ SameMarks(stack, t)
        \/ MarksOf(t) \in Turns!Enchanted(MarksOf(stack))
    BY <1>0, <2>2, <2>3, <2>5, EnchantedFlags
  <2> QED  BY <1>0, <2>2, <2>6, SameFlags, MarksIn DEF Seen, Turns!Spelled
<1>2. ASSUME CastDispel \/ \E p \in Powers : CastCure(p)
      PROVE  Seen(stack, stack')
  <2>1. PICK E \in SUBSET Effects :
          /\ Holding \subseteq E /\ "Hypnotize" \in E
          /\ \/ stack' = CancelEffects(stack, E)
             \/ \E n : stack' = [CancelEffects(stack, E) EXCEPT !.damage = n]
    <3>1. CASE CastDispel
      BY <3>1, HoldingEffects, EffectNames DEF CastDispel
    <3>2. CASE \E p \in Powers : CastCure(p)
      <4>1. /\ Cured \in SUBSET Effects /\ Holding \subseteq Cured
            /\ "Hypnotize" \in Cured
        BY DEF Cured, Holding, Effects, Classic
      <4>2. PICK p \in Powers : stack' = Cure(stack, p)  BY <3>2 DEF CastCure
      <4> DEFINE u == CancelEffects(stack, Cured)
                 n == IF u.damage < 5 * p THEN 0 ELSE u.damage - 5 * p
      <4>3. stack' = [u EXCEPT !.damage = n]  BY <4>2, Zenon DEF Cure
      <4> HIDE DEF u, n
      <4>4. \E x : stack' = [u EXCEPT !.damage = x]  BY <4>3
      <4> QED  BY <4>1, <4>4 DEF u
    <3> QED  BY <1>2, <3>1, <3>2
  <2> DEFINE u == CancelEffects(stack, E)
  <2>2. /\ u \in Stack /\ u.isDead = stack.isDead /\ u.lostTurn = stack.lostTurn
        /\ ~Held(u) /\ ~Charmed(u)
    BY <1>0, <2>1, CancelMarks
  <2>3. stack' = u \/ \E n : stack' = [u EXCEPT !.damage = n]  BY <2>1
  <2> HIDE DEF u
  <2>4. /\ stack'.isDead = u.isDead /\ stack'.lostTurn = u.lostTurn
        /\ stack'.strength = u.strength
    BY <2>2, <2>3 DEF Stack
  <2>5. ~Held(stack') /\ ~Charmed(stack')
    BY <2>2, <2>4 DEF Held, Charmed, On
  <2>6. MarksOf(stack') \in Turns!Enchanted(MarksOf(stack))
    BY <1>0, <2>2, <2>4, <2>5, EnchantedFlags
  <2>7. ~stack.isDead  BY <1>2 DEF CastDispel, CastCure, Susceptible
  <2> QED  BY <1>0, <2>6, <2>7, MarksIn DEF Seen, Turns!Spelled
<1>3. ASSUME CastDisenchant \/ CastDisruptingRay
      PROVE  Seen(stack, stack')
  <2>1. SameMarks(stack, stack')
    <3>1. CASE CastDisenchant
      <4>1. /\ Disenchanted \in SUBSET Effects /\ Disenchanted \cap Holding = {}
            /\ "Hypnotize" \notin Disenchanted
        BY DEF Disenchanted, Holding, Effects, Classic
      <4> QED  BY <1>0, <3>1, <4>1, CancelMarks DEF CastDisenchant, Disenchant, SameMarks
    <3>2. CASE CastDisruptingRay
      <4>1. /\ stack'.isDead = stack.isDead /\ stack'.lostTurn = stack.lostTurn
            /\ stack'.strength = stack.strength
        BY <1>0, <3>2 DEF CastDisruptingRay, DisruptingRay, Stack
      <4> QED  BY <4>1 DEF SameMarks, Held, Charmed, On
    <3> QED  BY <1>3, <3>1, <3>2
  <2> QED  BY <1>0, <2>1, SameFlags DEF Seen
<1>4. ASSUME NEW p \in Powers, CastResurrect(p)
      PROVE  Seen(stack, stack')
  <2>1. /\ ~stack'.isDead /\ stack'.lostTurn = stack.lostTurn
        /\ stack'.strength = stack.strength
    BY <1>0, <1>4 DEF CastResurrect, Resurrect, Stack
  <2>2. (Held(stack') <=> Held(stack)) /\ (Charmed(stack') <=> Charmed(stack))
    BY <2>1 DEF Held, Charmed, On
  <2>3. MarksOf(stack') = MarksOf(stack) \ {"dead"}  BY <1>0, <2>1, <2>2, MarksIn
  <2> QED  BY <1>0, <2>3, MarksIn DEF Seen, Turns!Spelled
<1>5. ASSUME NEW d \in Hits, SpellHit(d) \/ MarksmanPierce(d)
      PROVE  Seen(stack, stack')
  <2> DEFINE u == Damage(stack, d)
             v == SetSpellInfluence(u, "Daze", 1)
  <2>1. u \in Stack /\ HitMarks(stack, u)
    BY <1>0, DamageMarks, Environment
  <2>2. v \in Stack /\ HitMarks(stack, v)
    <3>1. /\ "Daze" \in Effects /\ 1 \in Nat \ {0}
          /\ "Daze" \notin Holding \cup {"AntiMagic", "Berserker", "Hypnotize"}
      BY DEF Effects, Ironfist, Holding
    <3> HIDE DEF u
    <3>2. /\ v \in Stack /\ v.lostTurn = u.lostTurn
          /\ (Held(v) <=> Held(u)) /\ (Charmed(v) <=> Charmed(u))
      BY <2>1, <3>1, InfluenceMarks
    <3> QED  BY <2>1, <3>2 DEF HitMarks
  <2>3. ~stack.isDead /\ (stack' = Settle(u) \/ stack' = Settle(v))
    BY <1>5 DEF SpellHit, MarksmanPierce, Susceptible
  <2> HIDE DEF u, v
  <2> QED  BY <1>0, <2>1, <2>2, <2>3, SettledFlags, HurtSeen
<1> QED  BY <1>1, <1>2, <1>3, <1>4, <1>5 DEF Spells

LEMMA BlowsSeen ==
  ASSUME IInv, Blows
  PROVE  Seen(stack, stack')
<1>0. /\ stack \in Stack /\ Healthy(stack) /\ stack.kind \in Creatures
      /\ stack' \in Stack
  BY BlowsKeep DEF IInv, Sound
(* A blow that leaves u, and what follows it.                               *)
<1>1. ASSUME NEW u \in Stack, ~stack.isDead, HitMarks(stack, u), stack' = Settle(u)
      PROVE  Seen(stack, stack')
  BY <1>0, <1>1, SettledFlags, HurtSeen
<1>2. ASSUME NEW d \in Hits
      PROVE  LET u == DamageEnemy(stack, d)
             IN  u \in Stack /\ u.isDead = stack.isDead /\ HitMarks(stack, u)
  BY <1>0, DamageEnemyMarks, Environment
<1>3. ASSUME NEW d \in Hits, Struck(d)
      PROVE  Seen(stack, stack')
  BY <1>1, <1>2, <1>3 DEF Struck
<1>4. ASSUME NEW d \in Hits, NEW e \in Castable[stack.kind], StruckWithAbility(d, e)
      PROVE  Seen(stack, stack')
  <2> DEFINE u == DamageEnemy(stack, d)
             k == Duration(e, AbilityPower)
             v == SetSpellInfluence(u, e, k)
  <2>1. /\ e \in Effects /\ k \in Nat \ {0}
        /\ e \in {"Paralyze", "Blind", "Petrify", "Curse", "ShadowMark"}
    BY <1>0, <1>4, Environment, Durations DEF AbilityPower, StruckWithAbility,
                                              AbilityEffects
  <2>2. stack' = Settle(v) /\ ~stack.isDead /\ ~u.isDead /\ ~u.dying
    BY <1>4 DEF StruckWithAbility, Susceptible
  <2>3. u \in Stack /\ HitMarks(stack, u)  BY <1>2
  <2> HIDE DEF u, k
  <2>4. /\ v \in Stack /\ v.isDead = u.isDead /\ v.lostTurn = u.lostTurn
        /\ (Held(v) <=> Held(u) \/ e \in Holding)
        /\ (Charmed(v) <=> Charmed(u))
        /\ v.dying = u.dying
    BY <2>1, <2>3, InfluenceMarks, InfluenceKeeps DEF SameHealth
  <2> HIDE DEF v
  <2>5. CASE e \in Holding
    <3>1. stack' = v  BY <2>2, <2>4, SettleMarks
    <3>2. MarksOf(v) \in Turns!Struck(MarksOf(stack))
      BY <1>0, <2>2, <2>3, <2>4, <2>5, HeldFlags
    <3> QED  BY <1>0, <2>2, <3>1, <3>2, MarksIn DEF Seen
  <2>6. CASE e \notin Holding
    <3>1. HitMarks(stack, v)  BY <2>3, <2>4, <2>6 DEF HitMarks
    <3> QED  BY <1>1, <2>2, <2>4, <3>1
  <2> QED  BY <2>5, <2>6
<1>5. ASSUME NEW d \in Hits, StruckWithDispel(d)
      PROVE  Seen(stack, stack')
  <2> DEFINE E == {"Haste", "Bless", "DragonSlayer", "BloodLust", "Shield",
                   "AntiMagic", "Stoneskin", "Steelskin"}
             u == DamageEnemy(stack, d)
             v == CancelEffects(u, E)
  <2>1. stack' = Settle(v) /\ ~stack.isDead
    BY <1>5 DEF StruckWithDispel, DispelGood
  <2>2. u \in Stack /\ HitMarks(stack, u)  BY <1>2
  <2>3. E \in SUBSET Effects /\ E \cap Holding = {} /\ "Hypnotize" \notin E
    BY DEF Effects, Classic, Holding
  <2> HIDE DEF u, E
  <2>4. /\ v \in Stack /\ v.lostTurn = u.lostTurn
        /\ (Held(v) <=> Held(u)) /\ (Charmed(v) <=> Charmed(u))
    BY <2>2, <2>3, CancelMarks
  <2> HIDE DEF v
  <2>5. HitMarks(stack, v)  BY <2>2, <2>4 DEF HitMarks
  <2> QED  BY <1>1, <2>1, <2>4, <2>5
<1>6. ASSUME Dodge
      PROVE  Seen(stack, stack')
  <2>1. Damage(stack, 0) \in Stack /\ HitMarks(stack, Damage(stack, 0))
    BY <1>0, DamageMarks
  <2> QED  BY <1>1, <1>6, <2>1 DEF Dodge
<1>7. ASSUME NEW d \in Burns, WalkIntoFire(d)
      PROVE  Seen(stack, stack')
  <2> DEFINE u == SetSpellInfluence(stack, "Burn", 2)
             v == Damage(u, d)
  <2>1. stack' = Settle(v) /\ ~stack.isDead
    BY <1>7 DEF WalkIntoFire, BurnCreature
  <2>2. /\ "Burn" \in Effects /\ 2 \in Nat \ {0}
        /\ "Burn" \notin Holding \cup {"AntiMagic", "Berserker", "Hypnotize"}
    BY DEF Effects, Ironfist, Holding
  <2>3. u \in Stack /\ Healthy(u) /\ SameMarks(stack, u)
    BY <1>0, <2>2, InfluenceMarks, InfluenceKeeps, HealthFrame DEF SameMarks
  <2> HIDE DEF u
  <2>4. v \in Stack /\ HitMarks(u, v)  BY <2>3, DamageMarks, Environment
  <2> HIDE DEF v
  <2>5. HitMarks(stack, v)  BY <2>3, <2>4 DEF SameMarks, HitMarks
  <2> QED  BY <1>1, <2>1, <2>4, <2>5
<1> QED  BY <1>3, <1>4, <1>5, <1>6, <1>7 DEF Blows

LEMMA OwnStepsSeen ==
  ASSUME IInv, OwnSteps
  PROVE  Seen(stack, stack')
<1>0. stack \in Stack /\ stack' \in Stack
  BY OwnStepsKeep DEF IInv, Sound
<1>1. ASSUME EndAttack  PROVE Seen(stack, stack')
  <2> DEFINE E == {"Berserker", "Hypnotize"}
  <2>1. E \in SUBSET Effects /\ E \cap Holding = {} /\ "Hypnotize" \in E
    BY DEF Effects, Classic, Holding
  <2>2. stack' = CancelEffects(stack, E) /\ ~stack.isDead
    BY <1>1 DEF EndAttack, TookTurn
  <2> HIDE DEF E
  <2>3. /\ stack'.isDead = stack.isDead /\ stack'.lostTurn = stack.lostTurn
        /\ (Held(stack') <=> Held(stack)) /\ ~Charmed(stack')
    BY <1>0, <2>1, <2>2, CancelMarks
  <2>4. MarksOf(stack') = MarksOf(stack) \ {"hypno"}  BY <1>0, <2>3, MarksIn
  <2> QED  BY <1>0, <2>2, <2>4, MarksIn DEF Seen
<1>2. ASSUME \/ Retaliate
             \/ \E n \in 1..MaxQuantity : GhostGrows(n)
             \/ \E d \in Hits : VampireDrains(d)
      PROVE  Seen(stack, stack')
  <2>1. /\ stack'.isDead = stack.isDead /\ stack'.lostTurn = stack.lostTurn
        /\ stack'.strength = stack.strength
    <3>1. CASE Retaliate  BY <1>0, <3>1 DEF Retaliate, Stack
    <3>2. CASE \E n \in 1..MaxQuantity : GhostGrows(n)
      BY <1>0, <3>2 DEF GhostGrows, Stack
    <3>3. CASE \E d \in Hits : VampireDrains(d)
      <4>1. PICK d \in Hits : stack' = VampireHeal(stack, d)
        BY <3>3 DEF VampireDrains
      <4>2. CASE d < stack.damage  BY <1>0, <4>1, <4>2 DEF VampireHeal, Stack
      <4>3. CASE ~(d < stack.damage)  BY <1>0, <4>1, <4>3 DEF VampireHeal, Stack
      <4> QED  BY <4>2, <4>3
    <3> QED  BY <1>2, <3>1, <3>2, <3>3
  <2>2. SameMarks(stack, stack')  BY <2>1 DEF SameMarks, Held, Charmed, On
  <2> QED  BY <1>0, <2>2, SameFlags DEF Seen
<1>3. ASSUME ReuseSlot  PROVE Seen(stack, stack')
  <2>1. stack.isDead /\ ~stack'.isDead /\ ~stack'.lostTurn
        /\ \A e \in Effects : ~On(stack', e)
    BY <1>3 DEF ReuseSlot, Init0, On
  <2>2. ~Held(stack') /\ ~Charmed(stack')
    BY <2>1, HoldingEffects, EffectNames DEF Held, Charmed
  <2>3. MarksOf(stack') = {}  BY <1>0, <2>1, <2>2, MarksIn
  <2> QED  BY <1>0, <2>1, <2>3, MarksIn DEF Seen
<1> QED  BY <1>1, <1>2, <1>3 DEF OwnSteps

LEMMA RoundSeen ==
  ASSUME IInv, Fit(stack), Round
  PROVE  MarksOf(stack') \in Turns!Rounded(MarksOf(stack))
<1>0. stack \in Stack /\ Healthy(stack)  BY DEF IInv, Sound
<1>1. PICK d \in Burns : stack' = ResetRound(stack, d)  BY DEF Round, NewRound
<1>2. CASE stack.isDead
  <2>1. stack' = stack  BY <1>0, <1>1, <1>2, ResetRoundMarks, Environment
  <2> QED  BY <1>0, <1>2, <2>1, MarksIn DEF Turns!Rounded
<1>3. CASE ~stack.isDead
  <2>1. PICK u \in Stack :
          /\ ~u.isDead /\ ~u.lostTurn
          /\ (Held(u) => Held(stack)) /\ (Charmed(u) => Charmed(stack))
          /\ stack' \in Stack
          /\ SameMarks(u, stack') \/ HitMarks(u, stack')
    BY <1>0, <1>1, <1>3, ResetRoundMarks, Environment
  <2>2. MarksOf(u) \in Turns!Refreshed(MarksOf(stack))
    BY <1>0, <1>3, <2>1, RefreshedFlags
  <2>3. \/ MarksOf(stack') = MarksOf(u)
        \/ MarksOf(stack') \in Turns!Hurt(MarksOf(u))
    BY <2>1, SameFlags, HitFlags
  <2> QED  BY <1>0, <1>3, <2>2, <2>3, MarksIn DEF Turns!Rounded
<1> QED  BY <1>2, <1>3

(* When every spell raises at least one creature, a stack implements        *)
(* TurnFlags: whatever its strengths, shields and wounds, all that the      *)
(* order of turns sees of it is one of the changes listed there.            *)
THEOREM Refinement ==
  ASSUME Strong
  PROVE  Spec => ImplementsFlags
<1>1. Init => IInv /\ Fit(stack)  BY InitIInv
<1>2. IInv /\ Fit(stack) /\ [Next]_vars => (IInv /\ Fit(stack))'
  BY StepKeeps
<1>3. Init => Turns!Init
  <2>1. ASSUME Init  PROVE MarksOf(stack) = {}
    <3>1. stack \in Stack  BY <2>1, InitIInv DEF IInv, Sound
    <3>2. ~stack.isDead /\ ~stack.lostTurn /\ \A e \in Effects : ~On(stack, e)
      BY <2>1 DEF Init, Init0, On
    <3>3. ~Held(stack) /\ ~Charmed(stack)
      BY <3>2, HoldingEffects, EffectNames DEF Held, Charmed
    <3> QED  BY <3>1, <3>2, <3>3, MarksIn
  <2> QED  BY <2>1 DEF Init, Turns!Init
<1>4. IInv /\ Fit(stack) /\ [Next]_vars
        => [Turns!Next]_(<<MarksOf(stack), round>>)
  <2> SUFFICES ASSUME IInv, Fit(stack), [Next]_vars
               PROVE  [Turns!Next]_(<<MarksOf(stack), round>>)
    OBVIOUS
  <2>1. MarksOf(stack)' = MarksOf(stack')  BY DEF MarksOf, On
  <2>2. CASE Spells \/ Blows \/ OwnSteps
    <3>1. Seen(stack, stack')
      BY <2>2, SpellsSeen, BlowsSeen, OwnStepsSeen
    <3>2. UNCHANGED round
      BY <2>2 DEF Spells, CastInfluence, CastDispel, CastDisenchant, CastCure,
                  CastDisruptingRay, CastResurrect, SpellHit, MarksmanPierce,
                  Blows, Struck, StruckWithAbility, StruckWithDispel, Dodge,
                  WalkIntoFire, OwnSteps, EndAttack, Retaliate, GhostGrows,
                  VampireDrains, ReuseSlot
    <3> QED
      BY <2>1, <3>1, <3>2 DEF Seen, Turns!Next, Turns!Spell, Turns!Blow,
                              Turns!OwnBlow, Turns!Reuse
  <2>3. CASE Round
    <3>1. MarksOf(stack') \in Turns!Rounded(MarksOf(stack))
      BY <2>3, RoundSeen
    <3>2. round' = 1 - round  BY <2>3 DEF Round, NewRound
    <3> QED  BY <2>1, <3>1, <3>2 DEF Turns!Next, Turns!Round
  <2>4. CASE UNCHANGED vars
    <3>1. MarksOf(stack') = MarksOf(stack) /\ round' = round
      BY <2>4 DEF vars
    <3> QED  BY <2>1, <3>1
  <2> QED  BY <2>2, <2>3, <2>4 DEF Next
<1> QED
  BY <1>1, <1>2, <1>3, <1>4, PTL
     DEF Spec, ImplementsFlags, Turns!Spec, Turns!vars
=============================================================================
