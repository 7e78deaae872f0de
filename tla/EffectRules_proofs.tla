------------------------- MODULE EffectRules_proofs -------------------------
(***************************************************************************)
(* What the rules of EffectRules preserve, for every creature.  A stack is *)
(* sound when its numbers are the creature's own plus what its effects are *)
(* worth, its count of effects is right and opposite effects are apart.    *)
(***************************************************************************)
EXTENDS EffectRules, FiniteSetTheorems, TLAPS

Bonus(s, e, n) == IF On(s, e) THEN n ELSE 0

(* The numbers that effects change in place; ray is what disrupting rays    *)
(* took from the defense.                                                   *)
Numbers(s, ray) ==
  /\ s.attack = BaseAttack + Bonus(s, "BloodLust", 3)
  /\ s.defense = BaseDefense + Bonus(s, "Stoneskin", 3)
                             + Bonus(s, "Steelskin", 5) - ray
  /\ s.speed = IF On(s, "Haste") THEN BaseSpeed + 2
               ELSE IF On(s, "Slow") THEN (BaseSpeed + 1) \div 2
               ELSE BaseSpeed
  /\ s.flies = (BaseFlies /\ ~On(s, "Slow"))

Counted(s) == s.numActiveEffects = Cardinality(Active(s))

Apart(s) ==
  /\ ~(On(s, "Haste") /\ On(s, "Slow"))
  /\ ~(On(s, "Bless") /\ On(s, "Curse"))
  /\ ~(On(s, "Berserker") /\ On(s, "Hypnotize"))
  /\ ~(On(s, "Stoneskin") /\ On(s, "Steelskin"))
  /\ On(s, "AntiMagic") => \A e \in Classic \ {"AntiMagic"} : ~On(s, e)

Sound(s, ray) == s \in Stack /\ Numbers(s, ray) /\ Counted(s) /\ Apart(s)

(* The fields that carry the effects.                                       *)
SameEffects(s, t) ==
  /\ \A e \in Effects : On(t, e) <=> On(s, e)
  /\ t.numActiveEffects = s.numActiveEffects
  /\ t.attack = s.attack /\ t.defense = s.defense
  /\ t.speed = s.speed /\ t.flies = s.flies

(* The shield has hit points exactly while its effect is on.                *)
Shielded(s) ==
  /\ s.shieldHP \in 0..MonsterHP
  /\ s.shieldHP > 0 <=> On(s, "ForceShield")

(* The creatures of the stack: how many, how wounded, and no second death   *)
(* before the first.                                                        *)
Healthy(s) ==
  /\ s.quantity \in Nat
  /\ s.damage \in 0..(MonsterHP - 1)
  /\ s.kind # "ghost" => s.quantity <= InitialQuantity
  /\ s.kind = "rebirth" /\ s.isDead => s.reborn

SameHealth(s, t) ==
  /\ t.quantity = s.quantity /\ t.damage = s.damage
  /\ t.dying = s.dying /\ t.isDead = s.isDead /\ t.reborn = s.reborn
  /\ t.kind = s.kind

(* A stack between two handlers, and one that a blow has just hit.          *)
Fit(s) == ~s.dying /\ (s.isDead <=> s.quantity = 0)
Hit(s) == ~s.isDead /\ (s.dying <=> s.quantity = 0)

-----------------------------------------------------------------------------
(* The set of effects is finite, so that the effects that are on can be     *)
(* counted.                                                                 *)
LEMMA FiveFinite ==
  ASSUME NEW a, NEW b, NEW c, NEW d, NEW e
  PROVE  IsFiniteSet({a, b, c, d, e})
<1>1. IsFiniteSet({} \cup {a})  BY FS_EmptySet, FS_AddElement
<1>2. IsFiniteSet(({} \cup {a}) \cup {b})  BY <1>1, FS_AddElement
<1>3. IsFiniteSet((({} \cup {a}) \cup {b}) \cup {c})  BY <1>2, FS_AddElement
<1>4. IsFiniteSet(((({} \cup {a}) \cup {b}) \cup {c}) \cup {d})
  BY <1>3, FS_AddElement
<1>5. IsFiniteSet((((({} \cup {a}) \cup {b}) \cup {c}) \cup {d}) \cup {e})
  BY <1>4, FS_AddElement
<1>6. {a, b, c, d, e} = ((((({} \cup {a}) \cup {b}) \cup {c}) \cup {d}) \cup {e})
  OBVIOUS
<1> QED  BY <1>5, <1>6

LEMMA EffectsFinite == IsFiniteSet(Effects)
<1> DEFINE A == {"Haste", "Slow", "Blind", "Bless", "Curse"}
           B == {"Berserker", "Paralyze", "Hypnotize", "DragonSlayer", "BloodLust"}
           C == {"Shield", "Petrify", "AntiMagic", "Stoneskin", "Steelskin"}
           D == {"Burn", "ShadowMark", "Daze", "ForceShield", "Haste"}
<1>1. IsFiniteSet(A) /\ IsFiniteSet(B) /\ IsFiniteSet(C) /\ IsFiniteSet(D)
  BY FiveFinite
<1>2. IsFiniteSet((A \cup B) \cup (C \cup D))
  <2> HIDE DEF A, B, C, D
  <2> QED  BY <1>1, FS_Union
<1>3. Effects = (A \cup B) \cup (C \cup D)
  BY DEF Effects, Classic, Ironfist
<1> QED  BY <1>2, <1>3

LEMMA ActiveFinite ==
  ASSUME NEW s
  PROVE  IsFiniteSet(Active(s)) /\ Active(s) \subseteq Effects
<1>1. Active(s) \in SUBSET Effects  BY DEF Active
<1> QED  BY <1>1, EffectsFinite, FS_Subset

(* The creature's own numbers, from the assumptions on the constants.       *)
LEMMA BaseTypes ==
  /\ BaseAttack \in Int /\ BaseDefense \in Int
  /\ BaseSpeed \in Int /\ BaseFlies \in BOOLEAN
  /\ MonsterHP \in Nat /\ MonsterHP > 0
  /\ InitialQuantity \in Nat /\ InitialQuantity > 0
BY StatsAssumption, CreatureAssumption

(* A stack enters the battle sound, whatever its slot had before.           *)
LEMMA InitSound ==
  ASSUME NEW k \in Kinds, NEW h \in Nat, NEW b \in BOOLEAN
  PROVE  Sound(Init0(k, h, b), 0)
<1> DEFINE s == Init0(k, h, b)
<1>1. s \in Stack  BY BaseTypes DEF Init0, Stack
<1>2. \A e \in Effects : ~On(s, e)  BY DEF Init0, On
<1>3. Active(s) = {}  BY <1>2 DEF Active
<1>4. Counted(s)  BY <1>3, FS_EmptySet DEF Counted, Init0
<1>5. Numbers(s, 0)
  BY <1>2, BaseTypes DEF Numbers, Bonus, Init0, Effects, Classic, Ironfist
<1>6. Apart(s)  BY <1>2 DEF Apart, Effects, Classic, Ironfist
<1> QED  BY <1>1, <1>4, <1>5, <1>6 DEF Sound
-----------------------------------------------------------------------------
(* CancelIndividualSpell, over any set of effects, leaves a sound stack on  *)
(* which exactly the other effects are still on.                            *)
LEMMA CancelFields ==
  ASSUME NEW s \in Stack, NEW E \in SUBSET Effects
  PROVE  LET t == CancelEffects(s, E)
             gone == E \cap Active(s)
         IN  /\ t \in Stack
             /\ \A e \in Effects : On(t, e) <=> On(s, e) /\ e \notin E
             /\ Active(t) = Active(s) \ gone
             /\ t.numActiveEffects = s.numActiveEffects - Cardinality(gone)
             /\ t.attack = s.attack - (IF "BloodLust" \in gone THEN 3 ELSE 0)
             /\ t.defense = s.defense - (IF "Stoneskin" \in gone THEN 3 ELSE 0)
                                      - (IF "Steelskin" \in gone THEN 5 ELSE 0)
             /\ t.speed = IF gone \cap {"Haste", "Slow"} # {} THEN BaseSpeed
                                                             ELSE s.speed
             /\ t.flies = (s.flies \/ (gone \cap {"Haste", "Slow"} # {} /\ BaseFlies))
             /\ t.shieldHP = IF "ForceShield" \in gone THEN 0 ELSE s.shieldHP
             /\ t.quantity = s.quantity /\ t.damage = s.damage
             /\ t.dying = s.dying /\ t.isDead = s.isDead /\ t.reborn = s.reborn
             /\ t.kind = s.kind /\ t.lostTurn = s.lostTurn
<1> DEFINE t == CancelEffects(s, E)
           gone == E \cap Active(s)
<1>1. gone \in SUBSET Effects /\ IsFiniteSet(gone) /\ Cardinality(gone) \in Nat
  <2>1. gone \in SUBSET Effects  BY DEF Active
  <2> QED  BY <2>1, EffectsFinite, FS_Subset, FS_CardinalityType
<1> DEFINE str == [e \in Effects |-> IF e \in E THEN 0 ELSE s.strength[e]]
           n == s.numActiveEffects - Cardinality(gone)
           a == s.attack - (IF "BloodLust" \in gone THEN 3 ELSE 0)
           d == s.defense - (IF "Stoneskin" \in gone THEN 3 ELSE 0)
                          - (IF "Steelskin" \in gone THEN 5 ELSE 0)
           v == IF gone \cap {"Haste", "Slow"} # {} THEN BaseSpeed ELSE s.speed
           f == s.flies \/ (gone \cap {"Haste", "Slow"} # {} /\ BaseFlies)
           h == IF "ForceShield" \in gone THEN 0 ELSE s.shieldHP
<1>2. /\ str \in [Effects -> Nat] /\ n \in Int /\ a \in Int /\ d \in Int
      /\ v \in Int /\ f \in BOOLEAN /\ h \in Nat
  BY <1>1, BaseTypes DEF Stack
<1>3. t = [s EXCEPT !.strength = str, !.numActiveEffects = n, !.attack = a,
                    !.defense = d, !.speed = v, !.flies = f, !.shieldHP = h]
  BY Zenon DEF CancelEffects
<1>5. /\ t \in Stack
      /\ t.strength = str /\ t.numActiveEffects = n
      /\ t.attack = a /\ t.defense = d /\ t.speed = v /\ t.flies = f
      /\ t.shieldHP = h /\ t.quantity = s.quantity
      /\ t.damage = s.damage /\ t.dying = s.dying
      /\ t.isDead = s.isDead /\ t.reborn = s.reborn /\ t.kind = s.kind
      /\ t.lostTurn = s.lostTurn
  <2> HIDE DEF str, n, a, d, v, f, h, t
  <2> QED  BY <1>2, <1>3 DEF Stack
<1>4. \A e \in Effects : On(t, e) <=> On(s, e) /\ e \notin E
  <2> HIDE DEF t
  <2> QED  BY <1>5 DEF On
<1>6. Active(t) = Active(s) \ gone
  BY <1>4 DEF Active
<1> QED  BY <1>4, <1>5, <1>6

LEMMA EffectNames ==
  {"Haste", "Slow", "Bless", "Curse", "Berserker", "Hypnotize", "BloodLust",
   "AntiMagic", "Stoneskin", "Steelskin"} \subseteq Effects
BY DEF Effects, Classic

LEMMA CancelSound ==
  ASSUME NEW s, NEW ray \in Int, Sound(s, ray), NEW E \in SUBSET Effects
  PROVE  Sound(CancelEffects(s, E), ray)
<1> DEFINE t == CancelEffects(s, E)
           gone == E \cap Active(s)
<1>0. s \in Stack  BY DEF Sound
<1>1. /\ t \in Stack
      /\ \A e \in Effects : On(t, e) <=> On(s, e) /\ e \notin E
      /\ Active(t) = Active(s) \ gone
      /\ t.numActiveEffects = s.numActiveEffects - Cardinality(gone)
      /\ t.attack = s.attack - (IF "BloodLust" \in gone THEN 3 ELSE 0)
      /\ t.defense = s.defense - (IF "Stoneskin" \in gone THEN 3 ELSE 0)
                               - (IF "Steelskin" \in gone THEN 5 ELSE 0)
      /\ t.speed = IF gone \cap {"Haste", "Slow"} # {} THEN BaseSpeed ELSE s.speed
      /\ t.flies = (s.flies \/ (gone \cap {"Haste", "Slow"} # {} /\ BaseFlies))
  BY <1>0, CancelFields
<1>2. \A e \in Effects : e \in gone <=> On(s, e) /\ e \in E
  BY DEF Active
<1> HIDE DEF t, gone
<1>3. Counted(t)
  <2>1. Cardinality(Active(s) \ gone)
          = Cardinality(Active(s)) - Cardinality(Active(s) \cap gone)
    BY ActiveFinite, FS_Difference
  <2>2. Active(s) \cap gone = gone  BY DEF gone
  <2> QED  BY <1>1, <2>1, <2>2 DEF Counted, Sound
<1>4. Apart(t)
  BY <1>1, EffectNames DEF Apart, Sound, Effects
<1>5. Numbers(t, ray)
  <2>1. Numbers(s, ray) /\ Apart(s)  BY DEF Sound
  <2>2. t.attack = BaseAttack + Bonus(t, "BloodLust", 3)
    BY <1>1, <1>2, <2>1, EffectNames, BaseTypes DEF Numbers, Bonus
  <2>3. t.defense = BaseDefense + Bonus(t, "Stoneskin", 3)
                                + Bonus(t, "Steelskin", 5) - ray
    BY <1>1, <1>2, <2>1, EffectNames, BaseTypes DEF Numbers, Bonus
  <2>4. t.speed = IF On(t, "Haste") THEN BaseSpeed + 2
                  ELSE IF On(t, "Slow") THEN (BaseSpeed + 1) \div 2
                  ELSE BaseSpeed
    BY <1>1, <1>2, <2>1, EffectNames, BaseTypes DEF Numbers, Apart
  <2>5. t.flies = (BaseFlies /\ ~On(t, "Slow"))
    BY <1>1, <1>2, <2>1, EffectNames, BaseTypes DEF Numbers, Apart
  <2> QED  BY <2>2, <2>3, <2>4, <2>5 DEF Numbers
<1> QED  BY <1>1, <1>3, <1>4, <1>5 DEF Sound, t
-----------------------------------------------------------------------------
(* SetSpellInfluence keeps a stack sound, provided that no effect of the    *)
(* original game is put on a stack under Anti-Magic.                        *)
LEMMA StartSound ==
  ASSUME NEW s, NEW ray \in Int, Sound(s, ray),
         NEW e \in Effects, NEW k \in Nat \ {0},
         ~On(s, e),
         \A d \in Displaced(e) : ~On(s, d),
         e \in Classic => ~On(s, "AntiMagic"),
         e = "Stoneskin" => ~On(s, "Steelskin")
  PROVE  Sound(Start(s, e, k), ray)
<1> DEFINE t == Start(s, e, k)
           str == [s.strength EXCEPT ![e] = k]
           n == s.numActiveEffects + 1
           a == IF e = "BloodLust" THEN s.attack + 3 ELSE s.attack
           d == IF e = "Stoneskin" THEN s.defense + 3
                ELSE IF e = "Steelskin" THEN s.defense + 5 ELSE s.defense
           v == IF e = "Haste" THEN s.speed + 2
                ELSE IF e = "Slow" THEN (s.speed + 1) \div 2 ELSE s.speed
           f == s.flies /\ e # "Slow"
           h == IF e = "ForceShield" THEN MonsterHP ELSE s.shieldHP
<1>0. s \in Stack /\ Numbers(s, ray) /\ Counted(s) /\ Apart(s)  BY DEF Sound
<1>1. /\ str \in [Effects -> Nat] /\ n \in Int /\ a \in Int /\ d \in Int
      /\ v \in Int /\ f \in BOOLEAN /\ h \in Nat
  BY <1>0, BaseTypes DEF Stack
<1>2. t = [s EXCEPT !.strength = str, !.numActiveEffects = n, !.attack = a,
                    !.defense = d, !.speed = v, !.flies = f, !.shieldHP = h]
  BY Zenon DEF Start
<1>3. /\ t \in Stack
      /\ t.strength = str /\ t.numActiveEffects = n
      /\ t.attack = a /\ t.defense = d /\ t.speed = v /\ t.flies = f
  <2> HIDE DEF str, n, a, d, v, f, h, t
  <2> QED  BY <1>0, <1>1, <1>2 DEF Stack
<1> HIDE DEF t
<1>4. \A x \in Effects : On(t, x) <=> On(s, x) \/ x = e
  BY <1>0, <1>3 DEF On, Stack
<1>5. Counted(t)
  <2>1. Active(t) = Active(s) \cup {e} /\ e \notin Active(s)
    BY <1>4 DEF Active
  <2> QED  BY ZenonT(30), <1>0, <1>3, <2>1, ActiveFinite, FS_AddElement DEF Counted
<1>6. Apart(t)
  <2>1. ~(On(t, "Haste") /\ On(t, "Slow"))
    BY <1>0, <1>4, EffectNames DEF Apart, Displaced
  <2>2. ~(On(t, "Bless") /\ On(t, "Curse"))
    BY <1>0, <1>4, EffectNames DEF Apart, Displaced
  <2>3. ~(On(t, "Berserker") /\ On(t, "Hypnotize"))
    BY <1>0, <1>4, EffectNames DEF Apart, Displaced
  <2>4. ~(On(t, "Stoneskin") /\ On(t, "Steelskin"))
    BY <1>0, <1>4, EffectNames DEF Apart, Displaced
  <2>5. ASSUME On(t, "AntiMagic"), NEW x \in Classic \ {"AntiMagic"}
        PROVE  ~On(t, x)
    <3>1. CASE e = "AntiMagic"
      BY <1>4, <2>5, <3>1 DEF Displaced, Effects
    <3>2. CASE e # "AntiMagic"
      BY <1>0, <1>4, <2>5, <3>2, EffectNames DEF Apart, Effects
    <3> QED  BY <3>1, <3>2
  <2> QED  BY <2>1, <2>2, <2>3, <2>4, <2>5 DEF Apart
<1>7. Numbers(t, ray)
  <2>1. t.attack = BaseAttack + Bonus(t, "BloodLust", 3)
    BY <1>0, <1>3, <1>4, EffectNames, BaseTypes DEF Numbers, Bonus
  <2>2. t.defense = BaseDefense + Bonus(t, "Stoneskin", 3)
                                + Bonus(t, "Steelskin", 5) - ray
    BY <1>0, <1>3, <1>4, EffectNames, BaseTypes DEF Numbers, Bonus
  <2>3. t.speed = IF On(t, "Haste") THEN BaseSpeed + 2
                  ELSE IF On(t, "Slow") THEN (BaseSpeed + 1) \div 2
                  ELSE BaseSpeed
    BY <1>0, <1>3, <1>4, EffectNames, BaseTypes DEF Numbers, Displaced
  <2>4. t.flies = (BaseFlies /\ ~On(t, "Slow"))
    BY <1>0, <1>3, <1>4, EffectNames, BaseTypes DEF Numbers
  <2> QED  BY <2>1, <2>2, <2>3, <2>4 DEF Numbers
<1> QED  BY <1>3, <1>5, <1>6, <1>7 DEF Sound, t

LEMMA DisplacedEffects ==
  ASSUME NEW e \in Effects
  PROVE  Displaced(e) \in SUBSET Effects /\ (e \in Displaced(e) => e = "AntiMagic")
BY DEF Displaced, Effects, Classic

(* What the effects do not know of, they do not change.                     *)
LEMMA SoundFrame ==
  ASSUME NEW s, NEW ray \in Int, Sound(s, ray), NEW t \in Stack, SameEffects(s, t)
  PROVE  Sound(t, ray)
<1>1. Active(t) = Active(s)  BY DEF SameEffects, Active
<1>2. Counted(t)  BY <1>1 DEF Counted, Sound, SameEffects
<1>3. Apart(t)
  BY EffectNames DEF Apart, Sound, SameEffects, Effects
<1>4. Numbers(t, ray)
  BY EffectNames DEF Numbers, Bonus, Sound, SameEffects
<1> QED  BY <1>2, <1>3, <1>4 DEF Sound

LEMMA LengthenFields ==
  ASSUME NEW s \in Stack, NEW e \in Effects, NEW k \in Nat \ {0}, On(s, e)
  PROVE  LET t == [s EXCEPT !.strength[e] = IF @ < k THEN k ELSE @]
         IN  /\ t \in Stack /\ SameEffects(s, t) /\ SameHealth(s, t)
             /\ t.shieldHP = s.shieldHP /\ t.lostTurn = s.lostTurn
<1> DEFINE n == IF s.strength[e] < k THEN k ELSE s.strength[e]
           str == [s.strength EXCEPT ![e] = n]
           t == [s EXCEPT !.strength = str]
<1>1. s.strength \in [Effects -> Nat] /\ n \in Nat /\ n > 0
  BY DEF Stack, On
<1>2. str \in [Effects -> Nat]
      /\ \A x \in Effects : str[x] > 0 <=> s.strength[x] > 0
  <2> HIDE DEF n
  <2> QED  BY <1>1 DEF On
<1>3. [s EXCEPT !.strength[e] = IF @ < k THEN k ELSE @] = t
  BY Zenon
<1>4. /\ t \in Stack /\ SameEffects(s, t) /\ SameHealth(s, t)
      /\ t.shieldHP = s.shieldHP /\ t.lostTurn = s.lostTurn
  <2> HIDE DEF str
  <2> QED  BY <1>2 DEF Stack, SameEffects, SameHealth, On
<1> HIDE DEF t
<1> QED  BY <1>3, <1>4

(* SetSpellInfluence, with the precondition that its callers establish.     *)
LEMMA InfluenceSound ==
  ASSUME NEW s, NEW ray \in Int, Sound(s, ray),
         NEW e \in Effects, NEW k \in Nat \ {0},
         e \in Classic => ~On(s, "AntiMagic")
  PROVE  Sound(SetSpellInfluence(s, e, k), ray)
<1> DEFINE u == CancelEffects(s, Displaced(e))
<1>0. s \in Stack  BY DEF Sound
<1>1. CASE On(s, e)
  BY <1>0, <1>1, LengthenFields, SoundFrame DEF SetSpellInfluence
<1>2. CASE ~On(s, e) /\ e = "Stoneskin" /\ On(s, "Steelskin")
  BY <1>2 DEF SetSpellInfluence
<1>3. CASE ~On(s, e) /\ ~(e = "Stoneskin" /\ On(s, "Steelskin"))
  <2>1. Sound(u, ray)  BY DisplacedEffects, CancelSound
  <2>2. \A x \in Effects : On(u, x) <=> On(s, x) /\ x \notin Displaced(e)
    BY <1>0, DisplacedEffects, CancelFields
  <2> HIDE DEF u
  <2>3. /\ ~On(u, e)
        /\ \A d \in Displaced(e) : ~On(u, d)
        /\ e \in Classic => ~On(u, "AntiMagic")
        /\ e = "Stoneskin" => ~On(u, "Steelskin")
    BY <1>3, <2>2, DisplacedEffects, EffectNames
  <2>4. Sound(Start(u, e, k), ray)  BY <2>1, <2>3, StartSound
  <2> QED  BY <1>3, <2>4 DEF SetSpellInfluence, u
<1> QED  BY <1>1, <1>2, <1>3
-----------------------------------------------------------------------------
(* The rules that only move effects leave the creatures and the shield's    *)
(* agreement with its effect alone.                                         *)
LEMMA CancelKeeps ==
  ASSUME NEW s \in Stack, NEW E \in SUBSET Effects
  PROVE  LET t == CancelEffects(s, E)
         IN  t \in Stack /\ SameHealth(s, t) /\ (Shielded(s) => Shielded(t))
<1> DEFINE t == CancelEffects(s, E)
           gone == E \cap Active(s)
<1>1. /\ t \in Stack
      /\ \A e \in Effects : On(t, e) <=> On(s, e) /\ e \notin E
      /\ t.shieldHP = IF "ForceShield" \in gone THEN 0 ELSE s.shieldHP
      /\ SameHealth(s, t)
  BY CancelFields DEF SameHealth
<1>2. "ForceShield" \in Effects  BY DEF Effects, Ironfist
<1>3. "ForceShield" \in gone <=> "ForceShield" \in E /\ On(s, "ForceShield")
  BY <1>2 DEF Active
<1> HIDE DEF t, gone
<1>4. Shielded(s) => Shielded(t)
  BY <1>1, <1>2, <1>3, BaseTypes DEF Shielded
<1> QED  BY <1>1, <1>4 DEF t

LEMMA StartKeeps ==
  ASSUME NEW s \in Stack, NEW e \in Effects, NEW k \in Nat \ {0}
  PROVE  LET t == Start(s, e, k)
         IN  /\ t \in Stack /\ SameHealth(s, t) /\ t.lostTurn = s.lostTurn
             /\ \A x \in Effects : On(t, x) <=> On(s, x) \/ x = e
             /\ t.shieldHP = IF e = "ForceShield" THEN MonsterHP ELSE s.shieldHP
<1> DEFINE t == Start(s, e, k)
           str == [s.strength EXCEPT ![e] = k]
           n == s.numActiveEffects + 1
           a == IF e = "BloodLust" THEN s.attack + 3 ELSE s.attack
           d == IF e = "Stoneskin" THEN s.defense + 3
                ELSE IF e = "Steelskin" THEN s.defense + 5 ELSE s.defense
           v == IF e = "Haste" THEN s.speed + 2
                ELSE IF e = "Slow" THEN (s.speed + 1) \div 2 ELSE s.speed
           f == s.flies /\ e # "Slow"
           h == IF e = "ForceShield" THEN MonsterHP ELSE s.shieldHP
<1>1. /\ str \in [Effects -> Nat] /\ n \in Int /\ a \in Int /\ d \in Int
      /\ v \in Int /\ f \in BOOLEAN /\ h \in Nat
  BY BaseTypes DEF Stack
<1>2. t = [s EXCEPT !.strength = str, !.numActiveEffects = n, !.attack = a,
                    !.defense = d, !.speed = v, !.flies = f, !.shieldHP = h]
  BY Zenon DEF Start
<1>3. /\ t \in Stack /\ SameHealth(s, t) /\ t.strength = str /\ t.shieldHP = h
      /\ t.lostTurn = s.lostTurn
  <2> HIDE DEF str, n, a, d, v, f, h, t
  <2> QED  BY <1>1, <1>2 DEF Stack, SameHealth
<1>4. \A x \in Effects : On(t, x) <=> On(s, x) \/ x = e
  <2> HIDE DEF t
  <2> QED  BY <1>3 DEF On, Stack
<1> HIDE DEF t
<1> QED  BY <1>3, <1>4 DEF t

LEMMA InfluenceKeeps ==
  ASSUME NEW s \in Stack, NEW e \in Effects, NEW k \in Nat \ {0}
  PROVE  LET t == SetSpellInfluence(s, e, k)
         IN  t \in Stack /\ SameHealth(s, t) /\ (Shielded(s) => Shielded(t))
<1> DEFINE u == CancelEffects(s, Displaced(e))
           t == SetSpellInfluence(s, e, k)
<1>0. "ForceShield" \in Effects  BY DEF Effects, Ironfist
<1>1. CASE On(s, e)
  BY <1>0, <1>1, LengthenFields DEF SetSpellInfluence, Shielded, SameEffects
<1>2. CASE ~On(s, e) /\ e = "Stoneskin" /\ On(s, "Steelskin")
  BY <1>2 DEF SetSpellInfluence, SameHealth
<1>3. CASE ~On(s, e) /\ ~(e = "Stoneskin" /\ On(s, "Steelskin"))
  <2>1. u \in Stack /\ SameHealth(s, u) /\ (Shielded(s) => Shielded(u))
    BY DisplacedEffects, CancelKeeps
  <2>2. t = Start(u, e, k)  BY <1>3 DEF SetSpellInfluence
  <2> HIDE DEF u, t
  <2>3. /\ t \in Stack /\ SameHealth(u, t)
        /\ \A x \in Effects : On(t, x) <=> On(u, x) \/ x = e
        /\ t.shieldHP = IF e = "ForceShield" THEN MonsterHP ELSE u.shieldHP
    BY <2>1, <2>2, StartKeeps
  <2>4. Shielded(u) => Shielded(t)
    BY <1>0, <2>3, BaseTypes DEF Shielded
  <2>5. t \in Stack /\ SameHealth(s, t) /\ (Shielded(s) => Shielded(t))
    BY <2>1, <2>3, <2>4 DEF SameHealth
  <2> QED  BY <2>5 DEF t
<1> QED  BY <1>1, <1>2, <1>3

(* Health is a matter of the creatures' fields alone.                       *)
LEMMA HealthFrame ==
  ASSUME NEW s, NEW t, SameHealth(s, t)
  PROVE  /\ t.kind = s.kind
         /\ Healthy(s) => Healthy(t)
         /\ Fit(s) => Fit(t)
         /\ Hit(s) => Hit(t)
BY DEF SameHealth, Healthy, Fit, Hit
-----------------------------------------------------------------------------
(* A blow that reaches the creatures.                                       *)
LEMMA TookDamageKeeps ==
  ASSUME NEW s \in Stack, NEW ray \in Int
  PROVE  LET t == TookDamage(s)
         IN  /\ t \in Stack /\ SameHealth(s, t)
             /\ Shielded(s) => Shielded(t)
             /\ Sound(s, ray) => Sound(t, ray)
             /\ \A e \in Effects : On(t, e) => On(s, e)
<1> DEFINE E == {"Blind", "Paralyze", "Petrify"}
           u == CancelEffects(s, E)
           t == TookDamage(s)
           l == u.lostTurn \/ On(s, "Blind")
                 \/ (\E e \in {"Paralyze", "Hypnotize", "Petrify"} : On(s, e))
           r == u.retaliated
                 \/ (\E e \in {"Paralyze", "Hypnotize", "Petrify"} : On(s, e))
<1>1. E \in SUBSET Effects  BY DEF Effects, Classic
<1>2. /\ u \in Stack /\ SameHealth(s, u) /\ (Shielded(s) => Shielded(u))
      /\ Sound(s, ray) => Sound(u, ray)
      /\ \A e \in Effects : On(u, e) <=> On(s, e) /\ e \notin E
  BY <1>1, CancelKeeps, CancelSound, CancelFields
<1>3. t = [u EXCEPT !.lostTurn = l, !.retaliated = r]
  BY Zenon DEF TookDamage
<1>4. l \in BOOLEAN /\ r \in BOOLEAN
  <2>1. u.lostTurn \in BOOLEAN /\ u.retaliated \in BOOLEAN
    BY <1>2 DEF Stack
  <2> HIDE DEF u
  <2> QED  BY <2>1 DEF On
<1> HIDE DEF u, l, r, t
<1>5. /\ t \in Stack /\ SameHealth(u, t) /\ SameEffects(u, t)
      /\ t.shieldHP = u.shieldHP
      /\ \A e \in Effects : On(t, e) <=> On(u, e)
  BY <1>2, <1>3, <1>4 DEF Stack, SameHealth, SameEffects, On
<1>6. "ForceShield" \in Effects  BY DEF Effects, Ironfist
<1>7. /\ SameHealth(s, t) /\ (Shielded(s) => Shielded(t))
      /\ \A e \in Effects : On(t, e) => On(s, e)
  BY <1>2, <1>5, <1>6 DEF SameHealth, Shielded
<1>8. Sound(s, ray) => Sound(t, ray)
  BY <1>2, <1>5, SoundFrame
<1> QED  BY <1>5, <1>7, <1>8 DEF t

LEMMA DivMod ==
  ASSUME NEW n \in Nat
  PROVE  /\ n \div MonsterHP \in Nat
         /\ n % MonsterHP \in 0..(MonsterHP - 1)
<1>1. MonsterHP \in Nat /\ MonsterHP > 0  BY BaseTypes
<1>2. n \div MonsterHP \in Int /\ n % MonsterHP \in 0..(MonsterHP - 1)
  BY <1>1
<1>3. n = MonsterHP * (n \div MonsterHP) + (n % MonsterHP)
  BY <1>1
<1>4. n \div MonsterHP >= 0
  BY <1>1
<1> QED  BY <1>2, <1>4

LEMMA DamageKeeps ==
  ASSUME NEW s \in Stack, NEW ray \in Int, NEW d \in Nat, Healthy(s)
  PROVE  LET t == Damage(s, d)
         IN  /\ t \in Stack /\ Healthy(t) /\ t.kind = s.kind
             /\ Shielded(s) => Shielded(t)
             /\ Sound(s, ray) => Sound(t, ray)
             /\ Fit(s) /\ ~s.isDead => Hit(t)
             /\ \A e \in Effects : On(t, e) => On(s, e)
<1> DEFINE total == d + s.damage
           losses == IF s.quantity < total \div MonsterHP
                     THEN s.quantity ELSE total \div MonsterHP
           w == total % MonsterHP
           q == s.quantity - losses
           g == s.dying \/ s.quantity - losses <= 0
           u == [s EXCEPT !.damage = w, !.quantity = q, !.dying = g]
           t == Damage(s, d)
<1>1. /\ w \in 0..(MonsterHP - 1) /\ w \in Int
      /\ q \in Nat /\ q \in Int /\ q <= s.quantity
      /\ g \in BOOLEAN /\ (g <=> s.dying \/ q = 0)
  <2>1. total \in Nat  BY BaseTypes DEF Healthy
  <2>2. total \div MonsterHP \in Nat /\ w \in 0..(MonsterHP - 1)
    BY <2>1, DivMod
  <2> HIDE DEF total
  <2> QED  BY <2>2 DEF Healthy, Stack
<1>2. t = TookDamage(u)  BY DEF Damage
<1> HIDE DEF w, q, g, t
<1>3. /\ u \in Stack /\ SameEffects(s, u) /\ u.shieldHP = s.shieldHP
      /\ u.damage = w /\ u.quantity = q /\ u.dying = g
      /\ u.isDead = s.isDead /\ u.reborn = s.reborn /\ u.kind = s.kind
      /\ \A e \in Effects : On(u, e) <=> On(s, e)
  BY <1>1 DEF Stack, SameEffects, On
<1> HIDE DEF u
<1>4. Healthy(u) /\ (Fit(s) /\ ~s.isDead => Hit(u))
  <2>1. s.quantity \in Nat  BY DEF Healthy
  <2>2. Healthy(u)  BY <1>1, <1>3, <2>1, BaseTypes DEF Healthy
  <2>3. Fit(s) /\ ~s.isDead => Hit(u)  BY <1>1, <1>3 DEF Fit, Hit
  <2> QED  BY <2>2, <2>3
<1>5. Shielded(s) => Shielded(u)
  BY <1>3 DEF Shielded, SameEffects, Effects, Ironfist
<1>6. Sound(s, ray) => Sound(u, ray)  BY <1>3, SoundFrame
<1>7. /\ t \in Stack /\ SameHealth(u, t)
      /\ Shielded(u) => Shielded(t)
      /\ Sound(u, ray) => Sound(t, ray)
      /\ \A e \in Effects : On(t, e) => On(u, e)
  BY <1>2, <1>3, TookDamageKeeps
<1>8. Healthy(t) /\ (Hit(u) => Hit(t))  BY <1>4, <1>7, HealthFrame
<1>9. t.kind = s.kind  BY <1>3, <1>7 DEF SameHealth
<1> QED  BY <1>3, <1>4, <1>5, <1>6, <1>7, <1>8, <1>9 DEF t

(* The shield takes its part first.                                         *)
LEMMA DamageEnemyKeeps ==
  ASSUME NEW s \in Stack, NEW ray \in Int, NEW d \in Nat \ {0}, Healthy(s)
  PROVE  LET t == DamageEnemy(s, d)
         IN  /\ t \in Stack /\ Healthy(t) /\ t.kind = s.kind
             /\ Shielded(s) => Shielded(t)
             /\ Sound(s, ray) => Sound(t, ray)
             /\ Fit(s) /\ ~s.isDead => Hit(t)
             /\ \A e \in Effects : On(t, e) => On(s, e)
<1>0. s.shieldHP \in Int  BY DEF Stack
<1>1. CASE s.shieldHP <= 0
  BY <1>1, DamageKeeps DEF DamageEnemy
<1>2. CASE s.shieldHP > 0 /\ s.shieldHP - d <= 0
  <2> DEFINE u == CancelEffects(s, {"ForceShield"})
             n == -(s.shieldHP - d)
  <2>1. {"ForceShield"} \in SUBSET Effects  BY DEF Effects, Ironfist
  <2>2. /\ u \in Stack /\ SameHealth(s, u)
        /\ Shielded(s) => Shielded(u)
        /\ Sound(s, ray) => Sound(u, ray)
        /\ \A e \in Effects : On(u, e) => On(s, e)
    BY <2>1, CancelKeeps, CancelSound, CancelFields
  <2>3. /\ Healthy(u) /\ (Fit(s) => Fit(u))
        /\ u.isDead = s.isDead /\ u.kind = s.kind
    BY <2>2, HealthFrame DEF SameHealth
  <2>4. n \in Nat /\ DamageEnemy(s, d) = Damage(u, n)
    BY <1>0, <1>2 DEF DamageEnemy
  <2> HIDE DEF u, n
  <2> QED  BY <2>2, <2>3, <2>4, DamageKeeps
<1>3. CASE s.shieldHP - d > 0
  <2> DEFINE h == s.shieldHP - d
             u == [s EXCEPT !.shieldHP = h]
  <2>1. h \in Nat /\ h > 0 /\ h < s.shieldHP  BY <1>0, <1>3
  <2>2. DamageEnemy(s, d) = Damage(u, 0)
    BY <1>0, <1>3 DEF DamageEnemy
  <2> HIDE DEF h
  <2>3. u \in Stack /\ SameEffects(s, u) /\ SameHealth(s, u) /\ u.shieldHP = h
    BY <2>1 DEF Stack, SameEffects, SameHealth, On
  <2> HIDE DEF u
  <2>4. Shielded(s) => Shielded(u)
    BY <1>0, <2>1, <2>3, BaseTypes DEF Shielded, SameEffects, Effects, Ironfist
  <2>5. /\ Healthy(u) /\ (Fit(s) => Fit(u))
        /\ u.isDead = s.isDead /\ u.kind = s.kind
        /\ Sound(s, ray) => Sound(u, ray)
        /\ \A e \in Effects : On(u, e) => On(s, e)
    BY <2>3, HealthFrame, SoundFrame DEF SameHealth, SameEffects
  <2> QED  BY <2>2, <2>3, <2>4, <2>5, DamageKeeps
<1> QED  BY <1>0, <1>1, <1>2, <1>3

(* The end of PowEffect buries or raises again who was hit.                 *)
LEMMA SettleKeeps ==
  ASSUME NEW s \in Stack, NEW ray \in Int, Healthy(s)
  PROVE  LET t == Settle(s)
         IN  /\ t \in Stack /\ Healthy(t) /\ t.kind = s.kind
             /\ Shielded(s) => Shielded(t)
             /\ Sound(s, ray) => Sound(t, ray)
             /\ Hit(s) => Fit(t)
             /\ \A e \in Effects : On(t, e) <=> On(s, e)
<1> DEFINE rises == s.kind = "rebirth" /\ ~s.reborn
           u == [s EXCEPT !.quantity = InitialQuantity, !.isDead = FALSE,
                          !.dying = FALSE, !.reborn = TRUE]
           v == [s EXCEPT !.isDead = TRUE, !.dying = FALSE]
           t == Settle(s)
<1>1. /\ u \in Stack /\ SameEffects(s, u) /\ u.shieldHP = s.shieldHP
      /\ Healthy(u) /\ Fit(u) /\ u.kind = s.kind
  <2>1. InitialQuantity \in Int /\ InitialQuantity \in Nat /\ InitialQuantity # 0
    BY BaseTypes
  <2>2. u \in Stack /\ SameEffects(s, u) /\ u.shieldHP = s.shieldHP
    BY <2>1 DEF Stack, SameEffects, On
  <2>3. /\ u.quantity = InitialQuantity /\ u.damage = s.damage
        /\ ~u.isDead /\ ~u.dying /\ u.reborn /\ u.kind = s.kind
    BY DEF Stack
  <2> HIDE DEF u
  <2> QED  BY <2>1, <2>2, <2>3 DEF Healthy, Fit
<1>2. /\ v \in Stack /\ SameEffects(s, v) /\ v.shieldHP = s.shieldHP
      /\ v.kind = s.kind
      /\ ~rises => Healthy(v)
      /\ Hit(s) /\ s.dying => Fit(v)
  BY DEF Stack, SameEffects, On, Healthy, Fit, Hit
<1>3. \/ t = s /\ ~(Hit(s) /\ s.dying)
      \/ t = u
      \/ ~rises /\ s.dying /\ t = v
  BY DEF Settle, Hit
<1>4. Hit(s) /\ ~s.dying => Fit(s)  BY DEF Hit, Fit
<1> HIDE DEF u, v, t, rises
<1>5. /\ t \in Stack /\ Healthy(t) /\ SameEffects(s, t) /\ t.kind = s.kind
      /\ t.shieldHP = s.shieldHP /\ (Hit(s) => Fit(t))
  <2>1. SameEffects(s, s)  BY DEF SameEffects
  <2> QED  BY <1>1, <1>2, <1>3, <1>4, <2>1
<1>6. Sound(s, ray) => Sound(t, ray)  BY <1>5, SoundFrame
<1>7. Shielded(s) => Shielded(t)
  BY <1>5 DEF Shielded, SameEffects, Effects, Ironfist
<1> QED  BY <1>5, <1>6, <1>7 DEF t, SameEffects

LEMMA BurnKeeps ==
  ASSUME NEW s \in Stack, NEW ray \in Int, NEW d \in Nat, Healthy(s)
  PROVE  LET t == BurnCreature(s, d)
         IN  /\ t \in Stack /\ Healthy(t) /\ t.kind = s.kind
             /\ Shielded(s) => Shielded(t)
             /\ Sound(s, ray) => Sound(t, ray)
             /\ Fit(s) /\ ~s.isDead => Fit(t)
<1> DEFINE u == Damage(s, d)
<1>1. /\ u \in Stack /\ Healthy(u) /\ u.kind = s.kind
      /\ Shielded(s) => Shielded(u)
      /\ Sound(s, ray) => Sound(u, ray)
      /\ Fit(s) /\ ~s.isDead => Hit(u)
  BY DamageKeeps
<1> HIDE DEF u
<1> QED  BY <1>1, SettleKeeps DEF BurnCreature, u
-----------------------------------------------------------------------------
(* The turn of the round.                                                   *)
LEMMA CountDownKeeps ==
  ASSUME NEW s \in Stack, NEW ray \in Int, NEW E \in SUBSET Effects
  PROVE  LET t == CountDown(s, E)
         IN  /\ t \in Stack /\ SameHealth(s, t)
             /\ Shielded(s) => Shielded(t)
             /\ Sound(s, ray) => Sound(t, ray)
<1> DEFINE on == (E \cap Active(s)) \ {"ForceShield"}
           over == {e \in on : s.strength[e] = 1}
           str == [e \in Effects |-> IF e \in on \ over THEN s.strength[e] - 1
                                                     ELSE s.strength[e]]
           u == [s EXCEPT !.strength = str]
           t == CountDown(s, E)
<1>1. over \in SUBSET Effects  BY DEF Active
<1>2. \A e \in Effects : /\ str[e] \in Nat
                         /\ str[e] > 0 <=> s.strength[e] > 0
  <2> SUFFICES ASSUME NEW e \in Effects
               PROVE  str[e] \in Nat /\ (str[e] > 0 <=> s.strength[e] > 0)
    OBVIOUS
  <2>1. s.strength[e] \in Nat  BY DEF Stack
  <2>2. CASE e \in on \ over
    <3>1. s.strength[e] > 0 /\ s.strength[e] # 1
      BY <2>2 DEF Active, On
    <3> HIDE DEF on, over
    <3> QED  BY <2>1, <2>2, <3>1
  <2>3. CASE e \notin on \ over
    <3> HIDE DEF on, over
    <3> QED  BY <2>1, <2>3
  <2> QED  BY <2>2, <2>3
<1>3. str \in [Effects -> Nat]
  <2> HIDE DEF on, over
  <2> QED  BY <1>2
<1>4. t = CancelEffects(u, over)
  BY Zenon DEF CountDown
<1> HIDE DEF on, over, str, t
<1>5. /\ u \in Stack /\ SameHealth(s, u) /\ SameEffects(s, u)
      /\ u.shieldHP = s.shieldHP
  BY <1>2, <1>3 DEF Stack, SameHealth, SameEffects, On
<1> HIDE DEF u
<1>6. /\ Shielded(s) => Shielded(u)
      /\ Sound(s, ray) => Sound(u, ray)
  BY <1>5, SoundFrame DEF Shielded, SameEffects, Effects, Ironfist
<1>7. /\ t \in Stack /\ SameHealth(u, t)
      /\ Shielded(u) => Shielded(t)
      /\ Sound(u, ray) => Sound(t, ray)
  BY <1>1, <1>4, <1>5, CancelKeeps, CancelSound
<1> QED  BY <1>5, <1>6, <1>7 DEF SameHealth, t

LEMMA DecrementKeeps ==
  ASSUME NEW s \in Stack, NEW ray \in Int, NEW d \in Nat, Healthy(s)
  PROVE  LET t == DecrementSpellRounds(s, d)
         IN  /\ t \in Stack /\ Healthy(t) /\ t.kind = s.kind
             /\ Shielded(s) => Shielded(t)
             /\ Sound(s, ray) => Sound(t, ray)
             /\ Fit(s) /\ ~s.isDead => Fit(t)
<1> DEFINE u == CountDown(s, Classic)
           v == IF On(u, "Burn") THEN BurnCreature(u, d) ELSE u
           t == DecrementSpellRounds(s, d)
<1>1. Classic \in SUBSET Effects /\ Ironfist \in SUBSET Effects
  BY DEF Effects
<1>2. /\ u \in Stack /\ SameHealth(s, u)
      /\ Shielded(s) => Shielded(u)
      /\ Sound(s, ray) => Sound(u, ray)
  BY <1>1, CountDownKeeps
<1>3. t = CountDown(v, Ironfist)  BY DEF DecrementSpellRounds
<1> HIDE DEF u, t
<1>4. /\ Healthy(u) /\ (Fit(s) => Fit(u))
      /\ u.isDead = s.isDead /\ u.kind = s.kind
  BY <1>2, HealthFrame DEF SameHealth
<1>5. /\ v \in Stack /\ Healthy(v) /\ v.kind = u.kind
      /\ Shielded(u) => Shielded(v)
      /\ Sound(u, ray) => Sound(v, ray)
      /\ Fit(u) /\ ~u.isDead => Fit(v)
  BY <1>2, <1>4, BurnKeeps
<1> HIDE DEF v
<1>6. /\ t \in Stack /\ SameHealth(v, t)
      /\ Shielded(v) => Shielded(t)
      /\ Sound(v, ray) => Sound(t, ray)
  BY <1>1, <1>3, <1>5, CountDownKeeps
<1>7. /\ Healthy(t) /\ (Fit(v) => Fit(t)) /\ t.kind = v.kind
  BY <1>5, <1>6, HealthFrame DEF SameHealth
<1> QED  BY <1>2, <1>4, <1>5, <1>6, <1>7 DEF t

LEMMA ResetRoundKeeps ==
  ASSUME NEW s \in Stack, NEW ray \in Int, NEW d \in Nat, Healthy(s)
  PROVE  LET t == ResetRound(s, d)
         IN  /\ t \in Stack /\ Healthy(t) /\ t.kind = s.kind
             /\ Shielded(s) => Shielded(t)
             /\ Sound(s, ray) => Sound(t, ray)
             /\ Fit(s) => Fit(t)
<1>1. CASE s.quantity <= 0
  BY <1>1 DEF ResetRound
<1>2. CASE ~(s.quantity <= 0)
  <2> DEFINE w == IF s.kind = "troll" THEN 0 ELSE s.damage
             u == [s EXCEPT !.lostTurn = FALSE, !.retaliated = FALSE, !.damage = w]
             t == ResetRound(s, d)
  <2>1. w \in 0..(MonsterHP - 1) /\ w \in Int  BY BaseTypes DEF Healthy
  <2>2. t = DecrementSpellRounds(u, d)  BY <1>2, Zenon DEF ResetRound
  <2> HIDE DEF w, t
  <2>3. /\ u \in Stack /\ SameEffects(s, u) /\ u.shieldHP = s.shieldHP
        /\ u.damage = w /\ u.quantity = s.quantity /\ u.dying = s.dying
        /\ u.isDead = s.isDead /\ u.reborn = s.reborn /\ u.kind = s.kind
    BY <2>1 DEF Stack, SameEffects, On
  <2> HIDE DEF u
  <2>4. /\ Healthy(u)
        /\ Fit(s) => Fit(u) /\ ~u.isDead
        /\ Shielded(s) => Shielded(u)
        /\ Sound(s, ray) => Sound(u, ray)
    <3>1. Healthy(u)  BY <2>1, <2>3 DEF Healthy
    <3>2. Fit(s) => Fit(u) /\ ~u.isDead  BY <1>2, <2>3 DEF Fit
    <3>3. Shielded(s) => Shielded(u)
      BY <2>3 DEF Shielded, SameEffects, Effects, Ironfist
    <3>4. Sound(s, ray) => Sound(u, ray)  BY <2>3, SoundFrame
    <3> QED  BY <3>1, <3>2, <3>3, <3>4
  <2>5. /\ t \in Stack /\ Healthy(t) /\ t.kind = u.kind
        /\ Shielded(u) => Shielded(t)
        /\ Sound(u, ray) => Sound(t, ray)
        /\ Fit(u) /\ ~u.isDead => Fit(t)
    BY <2>2, <2>3, <2>4, DecrementKeeps
  <2> QED  BY <2>3, <2>4, <2>5 DEF t
<1> QED  BY <1>1, <1>2
-----------------------------------------------------------------------------
(* What heals.                                                              *)
LEMMA CureKeeps ==
  ASSUME NEW s \in Stack, NEW ray \in Int, NEW p \in Nat, Healthy(s)
  PROVE  LET t == Cure(s, p)
         IN  /\ t \in Stack /\ Healthy(t) /\ t.kind = s.kind
             /\ Shielded(s) => Shielded(t)
             /\ Sound(s, ray) => Sound(t, ray)
             /\ Fit(s) => Fit(t)
<1> DEFINE u == CancelEffects(s, Cured)
           w == IF u.damage < 5 * p THEN 0 ELSE u.damage - 5 * p
           t == [u EXCEPT !.damage = w]
<1>1. Cured \in SUBSET Effects  BY DEF Cured, Effects, Classic
<1>2. /\ u \in Stack /\ SameHealth(s, u)
      /\ Shielded(s) => Shielded(u)
      /\ Sound(s, ray) => Sound(u, ray)
  BY <1>1, CancelKeeps, CancelSound
<1>3. Cure(s, p) = t  BY Zenon DEF Cure
<1> HIDE DEF u
<1>4. /\ Healthy(u) /\ (Fit(s) => Fit(u)) /\ u.kind = s.kind
  BY <1>2, HealthFrame DEF SameHealth
<1>5. w \in 0..(MonsterHP - 1) /\ w \in Int  BY <1>4, BaseTypes DEF Healthy
<1> HIDE DEF w
<1>6. /\ t \in Stack /\ SameEffects(u, t) /\ t.shieldHP = u.shieldHP
      /\ t.damage = w /\ t.quantity = u.quantity /\ t.dying = u.dying
      /\ t.isDead = u.isDead /\ t.reborn = u.reborn /\ t.kind = u.kind
  BY <1>2, <1>5 DEF Stack, SameEffects, On
<1> HIDE DEF t
<1>7. Healthy(t) /\ (Fit(u) => Fit(t))  BY <1>4, <1>5, <1>6 DEF Healthy, Fit
<1>8. Shielded(u) => Shielded(t)
  BY <1>6 DEF Shielded, SameEffects, Effects, Ironfist
<1>9. Sound(u, ray) => Sound(t, ray)  BY <1>6, SoundFrame
<1> QED  BY <1>2, <1>3, <1>4, <1>6, <1>7, <1>8, <1>9

LEMMA ResurrectKeeps ==
  ASSUME NEW s \in Stack, NEW ray \in Int, NEW p \in Nat, Healthy(s)
  PROVE  LET t == Resurrect(s, p)
         IN  /\ t \in Stack /\ Healthy(t) /\ t.kind = s.kind
             /\ Shielded(s) => Shielded(t)
             /\ Sound(s, ray) => Sound(t, ray)
             /\ Fit(s) /\ 50 * p >= MonsterHP => Fit(t)
<1> DEFINE r == (50 * p) \div MonsterHP
           q == IF InitialQuantity < s.quantity + r THEN InitialQuantity
                                                    ELSE s.quantity + r
           t == [s EXCEPT !.quantity = q, !.isDead = FALSE]
<1>1. r \in Nat /\ (50 * p >= MonsterHP => r > 0)
  <2>1. 50 * p \in Nat  OBVIOUS
  <2>2. \A n \in Nat : n >= MonsterHP => n \div MonsterHP > 0
    BY BaseTypes
  <2> QED  BY <2>1, <2>2, DivMod
<1>2. Resurrect(s, p) = t  BY Zenon DEF Resurrect
<1> HIDE DEF r
<1>3. /\ q \in Nat /\ q \in Int /\ q <= InitialQuantity
      /\ 50 * p >= MonsterHP => q > 0
  BY <1>1, BaseTypes DEF Healthy
<1> HIDE DEF q
<1>4. /\ t \in Stack /\ SameEffects(s, t) /\ t.shieldHP = s.shieldHP
      /\ t.quantity = q /\ t.damage = s.damage /\ t.dying = s.dying
      /\ t.isDead = FALSE /\ t.reborn = s.reborn /\ t.kind = s.kind
  BY <1>3 DEF Stack, SameEffects, On
<1> HIDE DEF t
<1>5. Healthy(t) /\ (Fit(s) /\ 50 * p >= MonsterHP => Fit(t))
  BY <1>3, <1>4 DEF Healthy, Fit
<1>6. Shielded(s) => Shielded(t)
  BY <1>4 DEF Shielded, SameEffects, Effects, Ironfist
<1>7. Sound(s, ray) => Sound(t, ray)  BY <1>4, SoundFrame
<1> QED  BY <1>2, <1>4, <1>5, <1>6, <1>7

LEMMA VampireHealKeeps ==
  ASSUME NEW s \in Stack, NEW ray \in Int, NEW d \in Nat, Healthy(s),
         ~s.isDead, s.kind # "ghost"
  PROVE  LET t == VampireHeal(s, d)
         IN  /\ t \in Stack /\ Healthy(t) /\ t.kind = s.kind
             /\ Shielded(s) => Shielded(t)
             /\ Sound(s, ray) => Sound(t, ray)
             /\ Fit(s) => Fit(t)
<1> DEFINE back == (d - s.damage) \div MonsterHP
           w == IF d < s.damage THEN s.damage - d ELSE 0
           q == IF d < s.damage THEN s.quantity
                ELSE IF InitialQuantity - s.quantity <= back
                THEN InitialQuantity ELSE s.quantity + back
           u == [s EXCEPT !.damage = w, !.quantity = q]
           t == VampireHeal(s, d)
<1>1. ~(d < s.damage) => back \in Nat
  <2>1. ~(d < s.damage) => d - s.damage \in Nat  BY BaseTypes DEF Healthy
  <2> QED  BY <2>1, DivMod
<1>2. t = u
  BY DEF VampireHeal, Stack
<1> HIDE DEF back, t
<1>3. /\ w \in 0..(MonsterHP - 1) /\ w \in Int
      /\ q \in Nat /\ q \in Int /\ q <= InitialQuantity
      /\ s.quantity # 0 => q # 0
  <2>1. s.quantity \in Nat /\ s.damage \in 0..(MonsterHP - 1) /\ s.damage \in Int
        /\ s.quantity <= InitialQuantity
    BY BaseTypes DEF Healthy
  <2>2. w \in 0..(MonsterHP - 1) /\ w \in Int  BY <2>1, BaseTypes
  <2>3. /\ q \in Nat /\ q <= InitialQuantity
        /\ s.quantity # 0 => q # 0
    BY <1>1, <2>1, BaseTypes
  <2> QED  BY <2>2, <2>3
<1> HIDE DEF w, q
<1>4. /\ u \in Stack /\ SameEffects(s, u) /\ u.shieldHP = s.shieldHP
      /\ u.quantity = q /\ u.damage = w /\ u.dying = s.dying
      /\ u.isDead = s.isDead /\ u.reborn = s.reborn /\ u.kind = s.kind
  BY <1>3 DEF Stack, SameEffects, On
<1> HIDE DEF u
<1>5. Healthy(u) /\ (Fit(s) => Fit(u))
  BY <1>3, <1>4 DEF Healthy, Fit
<1>6. Shielded(s) => Shielded(u)
  BY <1>4 DEF Shielded, SameEffects, Effects, Ironfist
<1>7. Sound(s, ray) => Sound(u, ray)  BY <1>4, SoundFrame
<1> QED  BY <1>2, <1>4, <1>5, <1>6, <1>7 DEF t

(* A disrupting ray: what it takes is added to the account of rays.         *)
LEMMA RayKeeps ==
  ASSUME NEW s, NEW ray \in Int, Sound(s, ray)
  PROVE  LET t == DisruptingRay(s)
         IN  /\ t \in Stack /\ SameHealth(s, t)
             /\ Shielded(s) => Shielded(t)
             /\ Sound(t, ray + (s.defense - t.defense))
<1> DEFINE d == IF s.defense - 3 < 1 THEN 1 ELSE s.defense - 3
           t == [s EXCEPT !.defense = d]
<1>0. s \in Stack /\ s.defense \in Int  BY DEF Sound, Stack
<1>1. DisruptingRay(s) = t  BY Zenon DEF DisruptingRay
<1>2. d \in Int  BY <1>0
<1> HIDE DEF d
<1>3. /\ t \in Stack /\ SameHealth(s, t) /\ t.shieldHP = s.shieldHP
      /\ t.numActiveEffects = s.numActiveEffects /\ t.attack = s.attack
      /\ t.speed = s.speed /\ t.flies = s.flies /\ t.defense = d
      /\ \A e \in Effects : On(t, e) <=> On(s, e)
  BY <1>0, <1>2 DEF Stack, SameHealth, On
<1> HIDE DEF t
<1>4. Active(t) = Active(s)  BY <1>3 DEF Active
<1>5. Counted(t) /\ Apart(t)
  BY <1>3, <1>4, EffectNames DEF Sound, Counted, Apart, Effects
<1>6. Numbers(t, ray + (s.defense - d))
  <2>1. s.defense = BaseDefense + Bonus(s, "Stoneskin", 3)
                                + Bonus(s, "Steelskin", 5) - ray
    BY DEF Sound, Numbers
  <2>2. Bonus(s, "Stoneskin", 3) \in Int /\ Bonus(s, "Steelskin", 5) \in Int
    BY DEF Bonus
  <2>3. /\ Bonus(t, "Stoneskin", 3) = Bonus(s, "Stoneskin", 3)
        /\ Bonus(t, "Steelskin", 5) = Bonus(s, "Steelskin", 5)
        /\ Bonus(t, "BloodLust", 3) = Bonus(s, "BloodLust", 3)
    BY <1>3, EffectNames DEF Bonus
  <2>4. d = BaseDefense + Bonus(t, "Stoneskin", 3)
                        + Bonus(t, "Steelskin", 5) - (ray + (s.defense - d))
    BY <1>0, <1>2, <2>1, <2>2, <2>3, BaseTypes
  <2> QED  BY <1>3, <2>3, <2>4, EffectNames DEF Numbers, Sound
<1>7. Shielded(s) => Shielded(t)
  BY <1>3 DEF Shielded, Effects, Ironfist
<1> QED  BY <1>1, <1>3, <1>5, <1>6, <1>7 DEF Sound
-----------------------------------------------------------------------------
(* Division with remainder: a stack of q creatures that has taken n points  *)
(* of damage in all loses one for every MonsterHP points, or all of them.   *)
LEMMA Division ==
  ASSUME NEW n \in Nat, NEW q \in Nat
  PROVE  LET k == n \div MonsterHP
             r == n % MonsterHP
         IN  /\ k \in Nat /\ r \in 0..(MonsterHP - 1)
             /\ q <= k => q * MonsterHP <= n
             /\ k < q => /\ q * MonsterHP > n
                         /\ (q - k) * MonsterHP - r = q * MonsterHP - n
<1> DEFINE k == n \div MonsterHP
           r == n % MonsterHP
<1>0. MonsterHP \in Nat /\ MonsterHP > 0  BY BaseTypes
<1>1. k \in Nat /\ r \in 0..(MonsterHP - 1)  BY DivMod
<1>2. n = k * MonsterHP + r  BY <1>0
<1> HIDE DEF k, r
<1>3. ASSUME q <= k  PROVE q * MonsterHP <= n
  <2>1. (k - q) \in Nat  BY <1>1, <1>3
  <2>2. (k - q) * MonsterHP \in Nat  BY <2>1, <1>0
  <2>3. k * MonsterHP = q * MonsterHP + (k - q) * MonsterHP  BY <1>0, <1>1
  <2>4. q * MonsterHP \in Nat  BY <1>0
  <2> QED  BY <1>1, <1>2, <2>2, <2>3, <2>4
<1>4. ASSUME k < q
      PROVE  /\ q * MonsterHP > n
             /\ (q - k) * MonsterHP - r = q * MonsterHP - n
  <2>1. q - k - 1 \in Nat  BY <1>1, <1>4
  <2>2. (q - k - 1) * MonsterHP \in Nat  BY <2>1, <1>0
  <2>3. q * MonsterHP = k * MonsterHP + MonsterHP + (q - k - 1) * MonsterHP
    BY <1>0, <1>1
  <2>4. (q - k) * MonsterHP = MonsterHP + (q - k - 1) * MonsterHP
    BY <1>0, <1>1
  <2>5. k * MonsterHP \in Nat  BY <1>0, <1>1
  <2> QED  BY <1>0, <1>1, <1>2, <2>2, <2>3, <2>4, <2>5
<1> QED  BY <1>1, <1>3, <1>4 DEF k, r
-----------------------------------------------------------------------------
(* What a hit does to the hit points and to the turn of the stack.          *)
Holding == {"Blind", "Paralyze", "Petrify"}
Held(s) == \E e \in Holding : On(s, e)

LEMMA HoldingEffects == Holding \in SUBSET Effects /\ "ForceShield" \notin Holding
BY DEF Holding, Effects, Classic

LEMMA CancelTurn ==
  ASSUME NEW s \in Stack, NEW E \in SUBSET Effects
  PROVE  LET t == CancelEffects(s, E)
         IN  /\ t \in Stack /\ SameHealth(s, t) /\ t.lostTurn = s.lostTurn
             /\ E \cap Holding = {} /\ Held(s) => Held(t)
BY CancelFields, HoldingEffects DEF SameHealth, Held

(* A new effect costs nobody a turn and frees nobody, unless it is          *)
(* Anti-Magic.                                                              *)
LEMMA InfluenceTurn ==
  ASSUME NEW s \in Stack, NEW e \in Effects, NEW k \in Nat \ {0}
  PROVE  LET t == SetSpellInfluence(s, e, k)
         IN  /\ t.lostTurn = s.lostTurn
             /\ e # "AntiMagic" /\ Held(s) => Held(t)
<1> DEFINE u == CancelEffects(s, Displaced(e))
           t == SetSpellInfluence(s, e, k)
<1>1. CASE On(s, e)
  BY <1>1, LengthenFields, HoldingEffects DEF SetSpellInfluence, SameEffects, Held
<1>2. CASE ~On(s, e) /\ e = "Stoneskin" /\ On(s, "Steelskin")
  BY <1>2 DEF SetSpellInfluence
<1>3. CASE ~On(s, e) /\ ~(e = "Stoneskin" /\ On(s, "Steelskin"))
  <2>1. /\ Displaced(e) \in SUBSET Effects
        /\ e # "AntiMagic" => Displaced(e) \cap Holding = {}
    BY DisplacedEffects DEF Displaced, Holding
  <2>2. /\ u \in Stack /\ u.lostTurn = s.lostTurn
        /\ e # "AntiMagic" /\ Held(s) => Held(u)
    BY <2>1, CancelTurn
  <2>3. t = Start(u, e, k)  BY <1>3 DEF SetSpellInfluence
  <2> HIDE DEF u, t
  <2>4. /\ t.lostTurn = u.lostTurn
        /\ \A x \in Effects : On(t, x) <=> On(u, x) \/ x = e
    BY <2>2, <2>3, StartKeeps
  <2>5. Held(u) => Held(t)  BY <2>4, HoldingEffects DEF Held
  <2> QED  BY <2>2, <2>4, <2>5 DEF t
<1> QED  BY <1>1, <1>2, <1>3

LEMMA TookDamageTurn ==
  ASSUME NEW s \in Stack
  PROVE  LET t == TookDamage(s)
         IN  /\ t.shieldHP = s.shieldHP
             /\ s.lostTurn \/ Held(s) => t.lostTurn
<1> DEFINE E == {"Blind", "Paralyze", "Petrify"}
           u == CancelEffects(s, E)
           held == \E e \in {"Paralyze", "Hypnotize", "Petrify"} : On(s, e)
           l == u.lostTurn \/ On(s, "Blind") \/ held
           r == u.retaliated \/ held
           t == TookDamage(s)
<1>1. E \in SUBSET Effects /\ "ForceShield" \notin E
  BY HoldingEffects DEF Holding
<1>2. u \in Stack /\ u.lostTurn = s.lostTurn /\ u.shieldHP = s.shieldHP
  BY <1>1, CancelFields
<1>3. t = [u EXCEPT !.lostTurn = l, !.retaliated = r]
  BY Zenon DEF TookDamage
<1>4. s.lostTurn \/ Held(s) => l
  BY <1>2 DEF Held, Holding
<1> HIDE DEF u, l, r, t
<1>5. t.lostTurn = l /\ t.shieldHP = u.shieldHP
  BY <1>2, <1>3 DEF Stack
<1> QED  BY <1>2, <1>4, <1>5 DEF t

LEMMA DamageTakes ==
  ASSUME NEW s \in Stack, NEW d \in Nat, Healthy(s)
  PROVE  LET t == Damage(s, d)
             n == d + s.damage
         IN  /\ t \in Stack /\ t.shieldHP = s.shieldHP /\ t.reborn = s.reborn
             /\ t.damage = n % MonsterHP
             /\ t.quantity = IF s.quantity < n \div MonsterHP
                             THEN 0 ELSE s.quantity - n \div MonsterHP
             /\ s.lostTurn \/ Held(s) => t.lostTurn
<1> DEFINE n == d + s.damage
           losses == IF s.quantity < n \div MonsterHP
                     THEN s.quantity ELSE n \div MonsterHP
           w == n % MonsterHP
           q == s.quantity - losses
           g == s.dying \/ s.quantity - losses <= 0
           u == [s EXCEPT !.damage = w, !.quantity = q, !.dying = g]
           t == Damage(s, d)
<1>1. n \in Nat /\ s.quantity \in Nat  BY BaseTypes DEF Healthy
<1>2. /\ w \in Int /\ g \in BOOLEAN /\ q \in Int
      /\ q = IF s.quantity < n \div MonsterHP THEN 0 ELSE s.quantity - n \div MonsterHP
  <2>1. n \div MonsterHP \in Nat /\ w \in 0..(MonsterHP - 1)
    BY <1>1, DivMod
  <2> HIDE DEF n
  <2> QED  BY <1>1, <2>1 DEF Stack
<1>3. t = TookDamage(u)  BY DEF Damage
<1> HIDE DEF n, w, q, g, t
<1>4. /\ u \in Stack /\ u.damage = w /\ u.quantity = q
      /\ u.shieldHP = s.shieldHP /\ u.lostTurn = s.lostTurn
      /\ u.reborn = s.reborn /\ (Held(s) => Held(u))
  BY <1>2, HoldingEffects DEF Stack, Held, On
<1> HIDE DEF u
<1>5. /\ t \in Stack /\ SameHealth(u, t) /\ t.shieldHP = u.shieldHP
      /\ u.lostTurn \/ Held(u) => t.lostTurn
  BY <1>3, <1>4, TookDamageTurn, TookDamageKeeps, 0 \in Int
<1> QED  BY <1>2, <1>4, <1>5 DEF SameHealth, t, w, n

(* The end of PowEffect takes no hit points, unless the stack rises again.  *)
LEMMA SettleTakes ==
  ASSUME NEW s \in Stack
  PROVE  LET t == Settle(s)
         IN  /\ t.lostTurn = s.lostTurn /\ t.shieldHP = s.shieldHP
             /\ t.damage = s.damage
             /\ \/ t.quantity = s.quantity /\ t.reborn = s.reborn
                \/ t.quantity = InitialQuantity /\ t.reborn /\ ~s.reborn
BY DEF Settle, Stack
(* A blow: the shield takes its points first.  If the blow has as many, the *)
(* shield is cancelled, but only if its effect is on.                       *)
LEMMA DamageEnemyTakes ==
  ASSUME NEW s \in Stack, NEW d \in Nat, Healthy(s)
  PROVE  LET t == DamageEnemy(s, d)
             n == (IF d > s.shieldHP THEN d - s.shieldHP ELSE 0) + s.damage
         IN  /\ t \in Stack /\ t.reborn = s.reborn
             /\ t.shieldHP = IF d < s.shieldHP THEN s.shieldHP - d
                             ELSE IF On(s, "ForceShield") THEN 0 ELSE s.shieldHP
             /\ t.damage = n % MonsterHP
             /\ t.quantity = IF s.quantity < n \div MonsterHP
                             THEN 0 ELSE s.quantity - n \div MonsterHP
             /\ s.lostTurn \/ Held(s) => t.lostTurn
<1> DEFINE h == s.shieldHP
           x == IF d > h THEN d - h ELSE 0
           t == DamageEnemy(s, d)
<1>0. h \in Int /\ h >= 0 /\ x \in Nat  BY DEF Stack
(* In each case x points get through, to a stack u as healthy as s.         *)
<1>1. ASSUME NEW u \in Stack, SameHealth(s, u), Held(s) => Held(u),
             u.lostTurn = s.lostTurn, t = Damage(u, x)
      PROVE  LET n == x + s.damage
             IN  /\ t \in Stack /\ t.reborn = s.reborn /\ t.shieldHP = u.shieldHP
                 /\ t.damage = n % MonsterHP
                 /\ t.quantity = IF s.quantity < n \div MonsterHP
                                 THEN 0 ELSE s.quantity - n \div MonsterHP
                 /\ s.lostTurn \/ Held(s) => t.lostTurn
  <2>1. /\ Healthy(u) /\ u.damage = s.damage /\ u.quantity = s.quantity
        /\ u.reborn = s.reborn
    BY <1>1, HealthFrame DEF SameHealth
  <2> HIDE DEF x, t
  <2> QED  BY <1>0, <1>1, <2>1, DamageTakes
<1>2. CASE h <= 0
  <2>1. x = d /\ h = 0 /\ t = Damage(s, x)  BY <1>0, <1>2 DEF DamageEnemy
  <2>2. SameHealth(s, s)  BY DEF SameHealth
  <2> HIDE DEF x, t
  <2> QED  BY <1>0, <1>1, <2>1, <2>2 DEF t, x
<1>3. CASE h > 0 /\ h - d <= 0
  <2> DEFINE u == CancelEffects(s, {"ForceShield"})
  <2>1. {"ForceShield"} \in SUBSET Effects /\ {"ForceShield"} \cap Holding = {}
    BY HoldingEffects DEF Effects, Ironfist
  <2>2. x = -(h - d) /\ t = Damage(u, x)
    <3>1. x = -(h - d)  BY <1>0, <1>3
    <3>2. t = Damage(u, -(h - d))  BY <1>0, <1>3 DEF DamageEnemy
    <3> QED  BY <3>1, <3>2
  <2>3. /\ u \in Stack /\ SameHealth(s, u) /\ u.lostTurn = s.lostTurn
        /\ Held(s) => Held(u)
    BY <2>1, CancelTurn
  <2>4. u.shieldHP = IF On(s, "ForceShield") THEN 0 ELSE h
    BY <2>1, CancelFields DEF Active
  <2> HIDE DEF u, x, t
  <2>5. ~(d < h)  BY <1>0, <1>3
  <2> QED  BY <1>1, <2>2, <2>3, <2>4, <2>5 DEF t, x
<1>4. CASE h - d > 0
  <2> DEFINE u == [s EXCEPT !.shieldHP = h - d]
  <2>1. x = 0 /\ h - d \in Nat /\ d < h  BY <1>0, <1>4
  <2>2. t = Damage(u, x)  BY <1>0, <1>4, <2>1 DEF DamageEnemy
  <2>3. /\ u \in Stack /\ SameHealth(s, u) /\ u.lostTurn = s.lostTurn
        /\ (Held(s) => Held(u)) /\ u.shieldHP = h - d
    BY <2>1 DEF Stack, SameHealth, Held, On
  <2> HIDE DEF u, x, t
  <2> QED  BY <1>1, <2>1, <2>2, <2>3 DEF t, x
<1> QED  BY <1>0, <1>2, <1>3, <1>4

(* What holds a stack for more than this round outlasts the count, and so   *)
(* the burn that comes after it.                                            *)
LEMMA CountDownTurn ==
  ASSUME NEW s \in Stack, NEW E \in SUBSET Effects
  PROVE  LET t == CountDown(s, E)
         IN  /\ t.lostTurn = s.lostTurn
             /\ (\E e \in Holding : s.strength[e] > 1) => Held(t)
<1> DEFINE on == (E \cap Active(s)) \ {"ForceShield"}
           over == {e \in on : s.strength[e] = 1}
           str == [e \in Effects |-> IF e \in on \ over THEN s.strength[e] - 1
                                                     ELSE s.strength[e]]
           u == [s EXCEPT !.strength = str]
           t == CountDown(s, E)
<1>1. over \in SUBSET Effects  BY DEF Active
<1>2. \A e \in Effects : /\ s.strength[e] \in Nat
                         /\ e \in over => s.strength[e] = 1
                         /\ e \in on => s.strength[e] > 0
                         /\ e \in on \ over => s.strength[e] # 1
  BY DEF Active, On, Stack
<1>3. t = CancelEffects(u, over)  BY Zenon DEF CountDown
<1> HIDE DEF on, over, t
<1>4. /\ \A e \in Effects : str[e] \in Nat /\ (s.strength[e] > 1 => str[e] > 0)
      /\ str \in [Effects -> Nat]
  BY <1>2
<1> HIDE DEF str
<1>5. u \in Stack /\ u.strength = str /\ u.lostTurn = s.lostTurn
  BY <1>4 DEF Stack
<1> HIDE DEF u
<1>6. /\ t.lostTurn = u.lostTurn
      /\ \A e \in Effects : On(t, e) <=> On(u, e) /\ e \notin over
  BY <1>1, <1>3, <1>5, CancelFields
<1>7. ASSUME NEW e \in Holding, s.strength[e] > 1  PROVE Held(t)
  <2>1. e \in Effects  BY HoldingEffects
  <2>2. On(u, e) /\ e \notin over  BY <1>2, <1>4, <1>5, <1>7, <2>1 DEF On
  <2> QED  BY <1>6, <2>1, <2>2 DEF Held
<1> QED  BY <1>5, <1>6, <1>7 DEF t

LEMMA ResetRoundTurn ==
  ASSUME NEW s \in Stack, NEW d \in Nat, Healthy(s),
         \E e \in Holding : s.strength[e] > 1,
         ResetRound(s, d).quantity # s.quantity
  PROVE  ResetRound(s, d).lostTurn
<1> DEFINE w == IF s.kind = "troll" THEN 0 ELSE s.damage
           z == [s EXCEPT !.lostTurn = FALSE, !.retaliated = FALSE, !.damage = w]
           u == CountDown(z, Classic)
           v == IF On(u, "Burn") THEN BurnCreature(u, d) ELSE u
           t == ResetRound(s, d)
<1>1. w \in 0..(MonsterHP - 1) /\ w \in Int  BY BaseTypes DEF Healthy
<1>2. t = CountDown(v, Ironfist)
  <2>1. s.quantity > 0  BY DEF ResetRound, Healthy
  <2> QED  BY <2>1, Zenon DEF ResetRound, DecrementSpellRounds, Healthy
<1>3. Classic \in SUBSET Effects /\ Ironfist \in SUBSET Effects  BY DEF Effects
<1> HIDE DEF w, t
<1>4. /\ z \in Stack /\ z.strength = s.strength /\ z.quantity = s.quantity
      /\ z.damage = w /\ z.kind = s.kind /\ z.isDead = s.isDead
      /\ z.reborn = s.reborn
  BY <1>1 DEF Stack
<1> HIDE DEF z
<1>5. Healthy(z)  BY <1>1, <1>4 DEF Healthy
<1>6. u \in Stack /\ SameHealth(z, u) /\ Held(u)
  BY <1>3, <1>4, CountDownKeeps, CountDownTurn, 0 \in Int
<1> HIDE DEF u
<1>7. Healthy(u) /\ u.quantity = s.quantity
  BY <1>4, <1>5, <1>6, HealthFrame DEF SameHealth
<1>8. v \in Stack /\ (v.quantity # u.quantity => v.lostTurn)
  <2>1. CASE On(u, "Burn")
    <3> DEFINE x == Damage(u, d)
    <3>1. x \in Stack /\ x.lostTurn  BY <1>6, <1>7, DamageTakes
    <3>2. v = Settle(x)  BY <2>1 DEF BurnCreature
    <3>3. BurnCreature(u, d) \in Stack  BY <1>6, <1>7, BurnKeeps, 0 \in Int
    <3> HIDE DEF x
    <3> QED  BY <2>1, <3>1, <3>2, <3>3, SettleTakes
  <2>2. CASE ~On(u, "Burn")  BY <1>6, <2>2
  <2> QED  BY <2>1, <2>2
<1> HIDE DEF v
<1>9. SameHealth(v, t) /\ t.lostTurn = v.lostTurn
  BY <1>2, <1>3, <1>8, CountDownKeeps, CountDownTurn, 0 \in Int
<1>10. t.quantity # s.quantity  BY DEF t
<1> QED  BY <1>7, <1>8, <1>9, <1>10 DEF SameHealth, t
-----------------------------------------------------------------------------
(* What the order of turns sees of a stack, and how exactly each rule       *)
(* changes it: dead, held, hypnotized, its turn taken or lost.              *)
Charmed(s) == On(s, "Hypnotize")

(* Nothing of it has changed.                                               *)
SameMarks(s, t) ==
  /\ t.isDead = s.isDead /\ t.lostTurn = s.lostTurn
  /\ Held(t) <=> Held(s)
  /\ Charmed(t) <=> Charmed(s)

(* A hit has changed it.                                                    *)
HitMarks(s, t) ==
  /\ ~Held(t) /\ (Charmed(t) <=> Charmed(s))
  /\ t.lostTurn <=> s.lostTurn \/ Held(s) \/ Charmed(s)

LEMMA CancelMarks ==
  ASSUME NEW s \in Stack, NEW E \in SUBSET Effects
  PROVE  LET t == CancelEffects(s, E)
         IN  /\ t \in Stack /\ t.isDead = s.isDead /\ t.lostTurn = s.lostTurn
             /\ Holding \subseteq E => ~Held(t)
             /\ E \cap Holding = {} => (Held(t) <=> Held(s))
             /\ Charmed(t) <=> Charmed(s) /\ "Hypnotize" \notin E
<1> DEFINE t == CancelEffects(s, E)
<1>1. /\ t \in Stack /\ t.isDead = s.isDead /\ t.lostTurn = s.lostTurn
      /\ \A e \in Effects : On(t, e) <=> On(s, e) /\ e \notin E
  BY CancelFields, CancelTurn DEF SameHealth
<1> HIDE DEF t
<1>2. "Hypnotize" \in Effects  BY EffectNames
<1> QED  BY <1>1, <1>2, HoldingEffects DEF Held, Charmed, t

LEMMA InfluenceMarks ==
  ASSUME NEW s \in Stack, NEW e \in Effects, NEW k \in Nat \ {0},
         ~On(s, "AntiMagic") \/ e # "AntiMagic"
  PROVE  LET t == SetSpellInfluence(s, e, k)
         IN  /\ t \in Stack /\ t.isDead = s.isDead /\ t.lostTurn = s.lostTurn
             /\ e # "AntiMagic" => (Held(t) <=> Held(s) \/ e \in Holding)
             /\ e \notin {"AntiMagic", "Berserker", "Hypnotize"} =>
                  (Charmed(t) <=> Charmed(s))
             /\ e = "Hypnotize" => Charmed(t)
             /\ e = "Berserker" /\ Charmed(t) => Charmed(s)
             /\ e = "AntiMagic" => ~Held(t) /\ ~Charmed(t)
<1> DEFINE u == CancelEffects(s, Displaced(e))
           t == SetSpellInfluence(s, e, k)
<1>0. /\ t \in Stack /\ t.isDead = s.isDead /\ t.lostTurn = s.lostTurn
      /\ "Hypnotize" \in Effects
  BY InfluenceKeeps, InfluenceTurn, EffectNames DEF SameHealth
<1>1. CASE On(s, e)
  <2>1. \A x \in Effects : On(t, x) <=> On(s, x)
    BY <1>1, LengthenFields DEF SetSpellInfluence, SameEffects
  <2> HIDE DEF t
  <2> QED  BY <1>0, <1>1, <2>1, HoldingEffects DEF Held, Charmed, t
<1>2. CASE ~On(s, e) /\ e = "Stoneskin" /\ On(s, "Steelskin")
  BY <1>0, <1>2 DEF SetSpellInfluence, Holding
<1>3. CASE ~On(s, e) /\ ~(e = "Stoneskin" /\ On(s, "Steelskin"))
  <2>1. /\ Displaced(e) \in SUBSET Effects
        /\ e # "AntiMagic" => Displaced(e) \cap Holding = {}
        /\ e = "AntiMagic" => Holding \subseteq Displaced(e)
        /\ "Hypnotize" \in Displaced(e) <=> e \in {"AntiMagic", "Berserker"}
    BY DisplacedEffects DEF Displaced, Holding, Classic
  <2>2. /\ u \in Stack
        /\ e # "AntiMagic" => (Held(u) <=> Held(s))
        /\ e = "AntiMagic" => ~Held(u)
        /\ Charmed(u) <=> Charmed(s) /\ e \notin {"AntiMagic", "Berserker"}
    BY <2>1, CancelMarks
  <2>3. t = Start(u, e, k)  BY <1>3 DEF SetSpellInfluence
  <2> HIDE DEF u, t
  <2>4. \A x \in Effects : On(t, x) <=> On(u, x) \/ x = e
    BY <2>2, <2>3, StartKeeps
  <2>5. /\ Held(t) <=> Held(u) \/ e \in Holding
        /\ Charmed(t) <=> Charmed(u) \/ e = "Hypnotize"
    BY <1>0, <2>4, HoldingEffects DEF Held, Charmed
  <2>6. "AntiMagic" \notin Holding /\ "Berserker" \notin Holding  BY DEF Holding
  <2> QED  BY <1>0, <2>2, <2>5, <2>6 DEF t
<1> QED  BY <1>1, <1>2, <1>3

LEMMA TookDamageMarks ==
  ASSUME NEW s \in Stack
  PROVE  LET t == TookDamage(s)
         IN  t \in Stack /\ t.isDead = s.isDead /\ HitMarks(s, t)
<1> DEFINE E == {"Blind", "Paralyze", "Petrify"}
           u == CancelEffects(s, E)
           held == \E e \in {"Paralyze", "Hypnotize", "Petrify"} : On(s, e)
           l == u.lostTurn \/ On(s, "Blind") \/ held
           r == u.retaliated \/ held
           t == TookDamage(s)
<1>1. E \in SUBSET Effects /\ Holding \subseteq E /\ "Hypnotize" \notin E
  BY HoldingEffects DEF Holding
<1>2. /\ u \in Stack /\ u.lostTurn = s.lostTurn /\ ~Held(u)
      /\ Charmed(u) <=> Charmed(s)
  BY <1>1, CancelMarks
<1>3. t = [u EXCEPT !.lostTurn = l, !.retaliated = r]
  BY Zenon DEF TookDamage
<1>4. l <=> s.lostTurn \/ Held(s) \/ Charmed(s)
  BY <1>2 DEF Held, Holding, Charmed
<1>5. t \in Stack /\ t.isDead = s.isDead
  BY TookDamageKeeps, 0 \in Int DEF SameHealth
<1> HIDE DEF u, l, r, t
<1>6. t.lostTurn = l /\ t.strength = u.strength
  BY <1>2, <1>3 DEF Stack
<1>7. ~Held(t) /\ (Charmed(t) <=> Charmed(u))
  BY <1>2, <1>6 DEF Held, Charmed, On
<1> QED  BY <1>2, <1>4, <1>5, <1>6, <1>7 DEF HitMarks, t

LEMMA DamageMarks ==
  ASSUME NEW s \in Stack, NEW d \in Nat, Healthy(s)
  PROVE  LET t == Damage(s, d)
         IN  t \in Stack /\ t.isDead = s.isDead /\ HitMarks(s, t)
<1> DEFINE n == d + s.damage
           losses == IF s.quantity < n \div MonsterHP
                     THEN s.quantity ELSE n \div MonsterHP
           w == n % MonsterHP
           q == s.quantity - losses
           g == s.dying \/ s.quantity - losses <= 0
           u == [s EXCEPT !.damage = w, !.quantity = q, !.dying = g]
           t == Damage(s, d)
<1>1. n \in Nat /\ s.quantity \in Nat  BY BaseTypes DEF Healthy
<1>2. w \in Int /\ g \in BOOLEAN /\ q \in Int
  <2>1. n \div MonsterHP \in Nat /\ w \in 0..(MonsterHP - 1)
    BY <1>1, DivMod
  <2> HIDE DEF n
  <2> QED  BY <1>1, <2>1 DEF Stack
<1>3. t = TookDamage(u)  BY DEF Damage
<1> HIDE DEF n, w, q, g, t
<1>4. /\ u \in Stack /\ u.isDead = s.isDead /\ u.lostTurn = s.lostTurn
      /\ u.strength = s.strength
  BY <1>2 DEF Stack
<1> HIDE DEF u
<1>5. SameMarks(s, u)  BY <1>4 DEF SameMarks, Held, Charmed, On
<1>6. t \in Stack /\ t.isDead = u.isDead /\ HitMarks(u, t)
  BY <1>3, <1>4, TookDamageMarks
<1> QED  BY <1>5, <1>6 DEF SameMarks, HitMarks, t

LEMMA DamageEnemyMarks ==
  ASSUME NEW s \in Stack, NEW d \in Nat, Healthy(s)
  PROVE  LET t == DamageEnemy(s, d)
         IN  t \in Stack /\ t.isDead = s.isDead /\ HitMarks(s, t)
<1> DEFINE h == s.shieldHP
           t == DamageEnemy(s, d)
<1>0. h \in Int  BY DEF Stack
<1>1. ASSUME NEW u \in Stack, SameHealth(s, u), SameMarks(s, u),
             NEW x \in Nat, t = Damage(u, x)
      PROVE  t \in Stack /\ t.isDead = s.isDead /\ HitMarks(s, t)
  <2>1. Healthy(u)  BY <1>1, HealthFrame
  <2> HIDE DEF t
  <2>2. t \in Stack /\ t.isDead = u.isDead /\ HitMarks(u, t)
    BY <1>1, <2>1, DamageMarks
  <2> QED  BY <1>1, <2>2 DEF SameMarks, HitMarks
<1>2. CASE h <= 0
  BY <1>0, <1>1, <1>2 DEF DamageEnemy, SameHealth, SameMarks
<1>3. CASE h > 0 /\ h - d <= 0
  <2> DEFINE u == CancelEffects(s, {"ForceShield"})
  <2>1. /\ {"ForceShield"} \in SUBSET Effects /\ {"ForceShield"} \cap Holding = {}
        /\ "Hypnotize" \notin {"ForceShield"}
    BY HoldingEffects DEF Effects, Ironfist
  <2>2. -(h - d) \in Nat /\ t = Damage(u, -(h - d))
    BY <1>0, <1>3 DEF DamageEnemy
  <2>3. u \in Stack /\ SameHealth(s, u) /\ SameMarks(s, u)
    BY <2>1, CancelTurn, CancelMarks DEF SameMarks
  <2> HIDE DEF u, t
  <2> QED  BY <1>1, <2>2, <2>3 DEF t
<1>4. CASE h - d > 0
  <2> DEFINE u == [s EXCEPT !.shieldHP = h - d]
  <2>1. h - d \in Nat /\ t = Damage(u, 0)  BY <1>0, <1>4 DEF DamageEnemy
  <2>2. u \in Stack /\ SameHealth(s, u) /\ SameMarks(s, u)
    BY <2>1 DEF Stack, SameHealth, SameMarks, Held, Charmed, On
  <2> HIDE DEF u, t
  <2> QED  BY <1>1, <2>1, <2>2 DEF t
<1> QED  BY <1>0, <1>2, <1>3, <1>4

(* The end of PowEffect may bury the stack, and changes nothing else here.  *)
LEMMA SettleMarks ==
  ASSUME NEW s \in Stack
  PROVE  LET t == Settle(s)
         IN  /\ t \in Stack /\ t.lostTurn = s.lostTurn
             /\ (Held(t) <=> Held(s)) /\ (Charmed(t) <=> Charmed(s))
             /\ ~s.dying => t = s
<1>1. Settle(s) \in Stack /\ Settle(s).strength = s.strength
  <2>1. InitialQuantity \in Int  BY BaseTypes
  <2>2. CASE ~s.dying  BY <2>2 DEF Settle
  <2>3. CASE s.dying /\ s.kind = "rebirth" /\ ~s.reborn
    BY <2>1, <2>3 DEF Settle, Stack
  <2>4. CASE s.dying /\ ~(s.kind = "rebirth" /\ ~s.reborn)
    BY <2>4 DEF Settle, Stack
  <2> QED  BY <2>2, <2>3, <2>4
<1> QED  BY <1>1, SettleTakes DEF Held, Charmed, On, Settle

LEMMA CountDownMarks ==
  ASSUME NEW s \in Stack, NEW E \in SUBSET Effects
  PROVE  LET t == CountDown(s, E)
         IN  /\ t \in Stack /\ SameHealth(s, t) /\ t.lostTurn = s.lostTurn
             /\ Held(t) => Held(s)
             /\ Charmed(t) => Charmed(s)
             /\ E \cap Classic = {} => SameMarks(s, t)
<1> DEFINE on == (E \cap Active(s)) \ {"ForceShield"}
           over == {e \in on : s.strength[e] = 1}
           str == [e \in Effects |-> IF e \in on \ over THEN s.strength[e] - 1
                                                     ELSE s.strength[e]]
           u == [s EXCEPT !.strength = str]
           t == CountDown(s, E)
<1>0. t \in Stack /\ SameHealth(s, t) /\ t.lostTurn = s.lostTurn
  BY CountDownKeeps, CountDownTurn, 0 \in Int
<1>1. over \in SUBSET Effects /\ over \subseteq E  BY DEF Active
<1>2. \A e \in Effects : /\ s.strength[e] \in Nat
                         /\ e \in on => s.strength[e] > 0
                         /\ e \in on \ over => s.strength[e] # 1
  BY DEF Active, On, Stack
<1>3. t = CancelEffects(u, over)  BY Zenon DEF CountDown
<1> HIDE DEF on, over, t
<1>4. /\ \A e \in Effects : str[e] \in Nat /\ (str[e] > 0 <=> s.strength[e] > 0)
      /\ str \in [Effects -> Nat]
  BY <1>2
<1> HIDE DEF str
<1>5. u \in Stack /\ u.strength = str
  BY <1>4 DEF Stack
<1> HIDE DEF u
<1>6. \A e \in Effects : On(t, e) <=> On(s, e) /\ e \notin over
  BY <1>1, <1>3, <1>4, <1>5, CancelFields DEF On
<1>7. "Hypnotize" \in Effects /\ "Hypnotize" \in Classic /\ Holding \subseteq Classic
  BY EffectNames DEF Classic, Holding
<1> QED
  BY <1>0, <1>1, <1>6, <1>7, HoldingEffects
  DEF t, Held, Charmed, SameMarks, SameHealth

(* The turn of the round: the dead keep their marks; the others get their   *)
(* turn back, are rid of some effects, and may burn.                        *)
LEMMA ResetRoundMarks ==
  ASSUME NEW s \in Stack, NEW d \in Nat, Healthy(s), Fit(s)
  PROVE  LET t == ResetRound(s, d)
         IN  IF s.isDead THEN t = s
             ELSE \E u \in Stack :
                    /\ ~u.isDead /\ ~u.lostTurn
                    /\ (Held(u) => Held(s)) /\ (Charmed(u) => Charmed(s))
                    /\ t \in Stack
                    /\ SameMarks(u, t) \/ HitMarks(u, t)
<1> DEFINE w == IF s.kind = "troll" THEN 0 ELSE s.damage
           z == [s EXCEPT !.lostTurn = FALSE, !.retaliated = FALSE, !.damage = w]
           u == CountDown(z, Classic)
           v == IF On(u, "Burn") THEN BurnCreature(u, d) ELSE u
           t == ResetRound(s, d)
<1>1. CASE s.isDead
  BY <1>1 DEF ResetRound, Fit, Healthy
<1>2. CASE ~s.isDead
  <2>1. w \in 0..(MonsterHP - 1) /\ w \in Int  BY BaseTypes DEF Healthy
  <2>2. t = CountDown(v, Ironfist)
    <3>1. ~(s.quantity <= 0)  BY <1>2 DEF Fit, Healthy
    <3> QED  BY <3>1, Zenon DEF ResetRound, DecrementSpellRounds
  <2>3. /\ Classic \in SUBSET Effects /\ Ironfist \in SUBSET Effects
        /\ Ironfist \cap Classic = {}
    BY DEF Effects, Classic, Ironfist
  <2> HIDE DEF w, t
  <2>4. /\ z \in Stack /\ z.strength = s.strength /\ z.quantity = s.quantity
        /\ z.damage = w /\ z.kind = s.kind /\ z.isDead = s.isDead
        /\ z.reborn = s.reborn /\ ~z.lostTurn
    BY <2>1 DEF Stack
  <2> HIDE DEF z
  <2>5. Healthy(z)  BY <2>1, <2>4 DEF Healthy
  <2>6. /\ u \in Stack /\ SameHealth(z, u) /\ ~u.lostTurn
        /\ (Held(u) => Held(z)) /\ (Charmed(u) => Charmed(z))
    BY <2>3, <2>4, CountDownMarks
  <2> HIDE DEF u
  <2>7. Healthy(u) /\ ~u.isDead /\ (Held(u) => Held(s)) /\ (Charmed(u) => Charmed(s))
    BY <1>2, <2>4, <2>5, <2>6, HealthFrame DEF SameHealth, Held, Charmed, On
  <2>8. v \in Stack /\ (SameMarks(u, v) \/ HitMarks(u, v))
    <3>1. CASE On(u, "Burn")
      <4> DEFINE x == Damage(u, d)
      <4>1. x \in Stack /\ HitMarks(u, x)  BY <2>6, <2>7, DamageMarks
      <4>2. v = Settle(x)  BY <3>1 DEF BurnCreature
      <4> HIDE DEF x, v
      <4>3. /\ v \in Stack /\ v.lostTurn = x.lostTurn
            /\ (Held(v) <=> Held(x)) /\ (Charmed(v) <=> Charmed(x))
        BY <4>1, <4>2, SettleMarks
      <4> QED  BY <4>1, <4>3 DEF HitMarks
    <3>2. CASE ~On(u, "Burn")  BY <2>6, <3>2 DEF SameMarks
    <3> QED  BY <3>1, <3>2
  <2> HIDE DEF v
  <2>9. t \in Stack /\ SameMarks(v, t)
    BY <2>2, <2>3, <2>8, CountDownMarks
  <2>10. SameMarks(u, t) \/ HitMarks(u, t)
    BY <2>8, <2>9 DEF SameMarks, HitMarks
  <2> QED  BY <1>2, <2>6, <2>7, <2>9, <2>10 DEF t
<1> QED  BY <1>1, <1>2

-----------------------------------------------------------------------------
(* How many rounds an effect still has.  No rule but SetSpellInfluence      *)
(* lengthens one, and the turn of the round shortens all of them at once.   *)
Fades(s, t) == \A e \in Effects : t.strength[e] <= s.strength[e]

LEMMA CancelFades ==
  ASSUME NEW s \in Stack, NEW E \in SUBSET Effects
  PROVE  LET t == CancelEffects(s, E)
         IN  /\ t \in Stack /\ Fades(s, t)
             /\ \A e \in Effects : t.strength[e] = IF e \in E THEN 0
                                                           ELSE s.strength[e]
<1> DEFINE t == CancelEffects(s, E)
<1>1. t \in Stack  BY CancelFields
<1>2. t.strength = [e \in Effects |-> IF e \in E THEN 0 ELSE s.strength[e]]
  BY DEF CancelEffects, Stack
<1>3. \A e \in Effects : s.strength[e] \in Nat  BY DEF Stack
<1> QED  BY <1>1, <1>2, <1>3 DEF Fades

LEMMA SettleFades ==
  ASSUME NEW s \in Stack
  PROVE  Settle(s).strength = s.strength
BY DEF Settle, Stack

(* A hit ends the effects that hold, and a broken shield; it starts none.   *)
LEMMA DamageFades ==
  ASSUME NEW s \in Stack, NEW d \in Nat, Healthy(s)
  PROVE  Damage(s, d) \in Stack /\ Fades(s, Damage(s, d))
<1> DEFINE E == {"Blind", "Paralyze", "Petrify"}
           n == d + s.damage
           losses == IF s.quantity < n \div MonsterHP
                     THEN s.quantity ELSE n \div MonsterHP
           w == n % MonsterHP
           q == s.quantity - losses
           g == s.dying \/ s.quantity - losses <= 0
           u == [s EXCEPT !.damage = w, !.quantity = q, !.dying = g]
           c == CancelEffects(u, E)
           held == \E e \in {"Paralyze", "Hypnotize", "Petrify"} : On(u, e)
           l == c.lostTurn \/ On(u, "Blind") \/ held
           r == c.retaliated \/ held
           t == Damage(s, d)
<1>1. n \in Nat /\ s.quantity \in Nat  BY BaseTypes DEF Healthy
<1>2. w \in Int /\ g \in BOOLEAN /\ q \in Int
  <2>1. n \div MonsterHP \in Nat /\ w \in 0..(MonsterHP - 1)
    BY <1>1, DivMod
  <2> HIDE DEF n
  <2> QED  BY <1>1, <2>1 DEF Stack
<1>3. t = TookDamage(u)  BY DEF Damage
<1>4. t = [c EXCEPT !.lostTurn = l, !.retaliated = r]
  BY <1>3, Zenon DEF TookDamage
<1>5. t \in Stack  BY DamageTakes
<1> HIDE DEF n, w, q, g, t, l, r
<1>6. u \in Stack /\ u.strength = s.strength  BY <1>2 DEF Stack
<1> HIDE DEF u
<1>7. E \in SUBSET Effects  BY HoldingEffects DEF Holding
<1>8. c \in Stack /\ Fades(u, c)  BY <1>6, <1>7, CancelFades
<1> HIDE DEF c
<1>9. t.strength = c.strength  BY <1>4, <1>8 DEF Stack
<1> QED  BY <1>5, <1>6, <1>8, <1>9 DEF t, Fades

LEMMA DamageEnemyFades ==
  ASSUME NEW s \in Stack, NEW d \in Nat, Healthy(s)
  PROVE  DamageEnemy(s, d) \in Stack /\ Fades(s, DamageEnemy(s, d))
<1> DEFINE u == CancelEffects(s, {"ForceShield"})
           left == s.shieldHP - d
           v == [s EXCEPT !.shieldHP = left]
<1>0. s.shieldHP \in Nat /\ left \in Int  BY DEF Stack
<1>1. CASE s.shieldHP <= 0
  BY <1>1, DamageFades DEF DamageEnemy
<1>2. CASE s.shieldHP > 0 /\ left <= 0
  <2>1. {"ForceShield"} \in SUBSET Effects  BY DEF Effects, Ironfist
  <2>2. u \in Stack /\ Fades(s, u) /\ SameHealth(s, u)
    BY <2>1, CancelFades, CancelFields DEF SameHealth
  <2>3. Healthy(u) /\ -left \in Nat  BY <1>0, <1>2, <2>2, HealthFrame
  <2>4. DamageEnemy(s, d) = Damage(u, -left)
    BY <1>0, <1>2 DEF DamageEnemy
  <2> HIDE DEF u, left
  <2>5. Damage(u, -left) \in Stack /\ Fades(u, Damage(u, -left))
    BY <2>2, <2>3, DamageFades
  <2> DEFINE t == Damage(u, -left)
  <2> HIDE DEF t
  <2>6. \A e \in Effects : /\ s.strength[e] \in Nat /\ u.strength[e] \in Nat
                           /\ t.strength[e] \in Nat
    BY <2>2, <2>5 DEF Stack, t
  <2> QED  BY <2>2, <2>4, <2>5, <2>6 DEF Fades, t
<1>3. CASE s.shieldHP > 0 /\ ~(left <= 0)
  <2>1. left \in Nat  BY <1>0, <1>3
  <2>2. DamageEnemy(s, d) = Damage(v, 0)
    BY <1>0, <1>3 DEF DamageEnemy
  <2> HIDE DEF left
  <2>3. v \in Stack /\ v.strength = s.strength /\ SameHealth(s, v)
    BY <2>1 DEF Stack, SameHealth
  <2> HIDE DEF v
  <2>4. Healthy(v)  BY <2>3, HealthFrame
  <2>5. Damage(v, 0) \in Stack /\ Fades(v, Damage(v, 0))
    BY <2>3, <2>4, DamageFades
  <2> QED  BY <2>2, <2>3, <2>5 DEF Fades
<1> QED  BY <1>0, <1>1, <1>2, <1>3

(* One pass takes a round from each of its effects but the force shield.    *)
LEMMA CountDownFades ==
  ASSUME NEW s \in Stack, NEW E \in SUBSET Effects
  PROVE  LET t == CountDown(s, E)
         IN  /\ t \in Stack
             /\ \A e \in Effects :
                  t.strength[e] = IF e \in E \ {"ForceShield"} /\ On(s, e)
                                  THEN s.strength[e] - 1 ELSE s.strength[e]
<1> DEFINE on == (E \cap Active(s)) \ {"ForceShield"}
           over == {e \in on : s.strength[e] = 1}
           str == [e \in Effects |-> IF e \in on \ over THEN s.strength[e] - 1
                                                     ELSE s.strength[e]]
           u == [s EXCEPT !.strength = str]
           t == CountDown(s, E)
<1>1. over \in SUBSET Effects  BY DEF Active
<1>2. \A e \in Effects : /\ s.strength[e] \in Nat
                         /\ e \in on <=> e \in E \ {"ForceShield"} /\ On(s, e)
                         /\ e \in over <=> e \in on /\ s.strength[e] = 1
                         /\ On(s, e) => s.strength[e] > 0
  BY DEF Active, On, Stack
<1>3. t = CancelEffects(u, over)  BY Zenon DEF CountDown
<1>4. \A e \in Effects : str[e] = IF e \in on /\ e \notin over
                                  THEN s.strength[e] - 1 ELSE s.strength[e]
  OBVIOUS
<1>5. str \in [Effects -> Nat]  BY <1>2
<1> HIDE DEF on, over, t, str
<1>6. u \in Stack /\ u.strength = str  BY <1>5 DEF Stack
<1> HIDE DEF u
<1>7. /\ t \in Stack
      /\ \A e \in Effects : t.strength[e] = IF e \in over THEN 0 ELSE str[e]
  BY <1>1, <1>3, <1>6, CancelFades
<1> QED  BY <1>2, <1>4, <1>7 DEF t

(* The two passes with the burn between them shorten every effect but the   *)
(* force shield, and none of them counts one twice.                         *)
LEMMA ResetRoundFades ==
  ASSUME NEW s \in Stack, NEW d \in Nat, Healthy(s)
  PROVE  LET t == ResetRound(s, d)
         IN  /\ t \in Stack /\ Fades(s, t)
             /\ s.quantity > 0 => \A e \in Effects \ {"ForceShield"} :
                                    t.strength[e] < s.strength[e] \/ ~On(t, e)
<1> DEFINE w == IF s.kind = "troll" THEN 0 ELSE s.damage
           z == [s EXCEPT !.lostTurn = FALSE, !.retaliated = FALSE, !.damage = w]
           u == CountDown(z, Classic)
           v == IF On(u, "Burn") THEN BurnCreature(u, d) ELSE u
           t == ResetRound(s, d)
<1>0. s.quantity \in Nat /\ \A e \in Effects : s.strength[e] \in Nat
  BY DEF Healthy, Stack
<1>1. CASE s.quantity = 0
  <2>1. t = s  BY <1>1 DEF ResetRound
  <2> QED  BY <1>0, <1>1, <2>1 DEF Fades
<1>2. CASE s.quantity > 0
  <2>1. w \in 0..(MonsterHP - 1) /\ w \in Int  BY BaseTypes DEF Healthy
  <2>2. t = CountDown(v, Ironfist)
    <3>1. ~(s.quantity <= 0)  BY <1>0, <1>2
    <3> QED  BY <3>1, Zenon DEF ResetRound, DecrementSpellRounds
  <2>3. /\ Classic \in SUBSET Effects /\ Ironfist \in SUBSET Effects
        /\ \A e \in Effects : e \in Classic \/ e \in Ironfist
    BY DEF Effects
  <2> HIDE DEF w, t
  <2>4. /\ z \in Stack /\ z.strength = s.strength /\ z.quantity = s.quantity
        /\ z.damage = w /\ z.kind = s.kind /\ z.isDead = s.isDead
        /\ z.reborn = s.reborn
    BY <2>1 DEF Stack
  <2> HIDE DEF z
  <2>5. Healthy(z)  BY <2>1, <2>4 DEF Healthy
  <2>6. /\ u \in Stack /\ SameHealth(z, u)
        /\ \A e \in Effects :
             u.strength[e] = IF e \in Classic \ {"ForceShield"} /\ On(z, e)
                             THEN z.strength[e] - 1 ELSE z.strength[e]
    BY <2>3, <2>4, CountDownFades, CountDownKeeps, 0 \in Int
  <2> HIDE DEF u
  <2>7. Healthy(u)  BY <2>5, <2>6, HealthFrame
  <2>8. v \in Stack /\ Fades(u, v)
    <3>1. CASE On(u, "Burn")
      <4> DEFINE x == Damage(u, d)
      <4>1. x \in Stack /\ Fades(u, x)  BY <2>6, <2>7, DamageFades
      <4>2. v = Settle(x) /\ v = BurnCreature(u, d)  BY <3>1 DEF BurnCreature
      <4>3. BurnCreature(u, d) \in Stack  BY <2>6, <2>7, BurnKeeps, 0 \in Int
      <4> HIDE DEF x, v
      <4> QED  BY <4>1, <4>2, <4>3, SettleFades DEF Fades
    <3>2. CASE ~On(u, "Burn")
      <4>1. v = u  BY <3>2
      <4>2. \A e \in Effects : u.strength[e] \in Nat  BY <2>6 DEF Stack
      <4> HIDE DEF v
      <4> QED  BY <2>6, <4>1, <4>2 DEF Fades
    <3> QED  BY <3>1, <3>2
  <2> HIDE DEF v
  <2>9. /\ t \in Stack
        /\ \A e \in Effects :
             t.strength[e] = IF e \in Ironfist \ {"ForceShield"} /\ On(v, e)
                             THEN v.strength[e] - 1 ELSE v.strength[e]
    BY <2>2, <2>3, <2>8, CountDownFades
  <2>10. ASSUME NEW e \in Effects
         PROVE  /\ t.strength[e] <= s.strength[e]
                /\ e # "ForceShield" => t.strength[e] < s.strength[e] \/ ~On(t, e)
    <3>1. /\ s.strength[e] \in Nat /\ u.strength[e] \in Nat
          /\ v.strength[e] \in Nat /\ t.strength[e] \in Nat
      BY <1>0, <2>6, <2>8, <2>9 DEF Stack
    <3>2. u.strength[e] = IF e \in Classic \ {"ForceShield"} /\ s.strength[e] > 0
                          THEN s.strength[e] - 1 ELSE s.strength[e]
      BY <2>4, <2>6 DEF On
    <3>3. v.strength[e] <= u.strength[e]  BY <2>8 DEF Fades
    <3>4. t.strength[e] = IF e \in Ironfist \ {"ForceShield"} /\ v.strength[e] > 0
                          THEN v.strength[e] - 1 ELSE v.strength[e]
      BY <2>9 DEF On
    <3> QED  BY <2>3, <3>1, <3>2, <3>3, <3>4 DEF On
  <2> QED  BY <2>9, <2>10 DEF t, Fades
<1> QED  BY <1>0, <1>1, <1>2
=============================================================================
