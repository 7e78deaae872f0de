-------------------------- MODULE TurnOrder_proofs --------------------------
(***************************************************************************)
(* Theorems about TurnOrder, for every choice of stacks, speeds, morale    *)
(* and spells.  A situation is Sound if the history agrees with the flags: *)
(* nobody is owed more than one turn, a stack whose flag says that it had  *)
(* its turn is owed none, and the castle has shot exactly if it need not   *)
(* shoot any more.  In a round that did not begin stale it is also Owed:   *)
(* nobody has had a turn too many.  Each operator from one situation to    *)
(* the next keeps both.                                                    *)
(***************************************************************************)
EXTENDS TurnOrder, TLAPS

Situations == [b : Battle, log : Log]

AtMostOne(s) == \A t \in Slots : s.log.due[t] <= 1

Used(s) ==
  \A t \in s.b.took : \/ t \in s.log.lost \/ t \in s.log.risen
                      \/ t \in s.b.dead \/ s.log.due[t] <= 0

Shots(s) == Castle => s.log.volleys = IF s.b.toFire THEN 0 ELSE 1

Sound(s) == s \in Situations /\ AtMostOne(s) /\ Used(s) /\ Shots(s)

(* The turns a stack may still take, with a credit of one for those of C.   *)
Turns(s, C, t) == s.log.due[t] + (IF t \in C THEN 1 ELSE 0)

Owed(s, C) ==
  \A t \in Slots : /\ Turns(s, C, t) >= 0
                   /\ t \notin s.b.took => Turns(s, C, t) >= 1

(* The active stack is owed a turn, and is fit for it if its own side moves *)
(* it.                                                                      *)
Due(s, C) == Turns(s, C, s.b.active) >= 1
Fit(s) ==
  s.b.active[1] = s.b.control =>
    /\ s.b.active \notin s.b.dead /\ s.b.active \notin s.b.held
    /\ s.b.active \notin s.b.took /\ s.b.active \notin s.b.hypno

(* What blows, volleys and spells leave of a situation: they cost turns,    *)
(* and give none.                                                           *)
Mild(s, h) ==
  /\ Sound(h)
  /\ h.b.active = s.b.active /\ h.b.control = s.b.control
  /\ h.b.left = s.b.left /\ h.b.bonus = s.b.bonus
  /\ h.log.due = s.log.due
  /\ s.b.took \subseteq h.b.took
-----------------------------------------------------------------------------
LEMMA SlotsFacts ==
  /\ \A t \in Slots : t[1] \in Sides /\ t[2] \in Nat /\ Speed[t] \in 1..14
  /\ \A side \in Sides : \E t \in Slots : t[1] = side
BY SlotsAssumption, SpeedAssumption DEF Sides

LEMMA MildOwed ==
  ASSUME NEW s, NEW h, Mild(s, h)
  PROVE  \A C : Owed(s, C) => Owed(h, C)
BY DEF Mild, Owed, Turns

LEMMA MildTrans ==
  ASSUME NEW s, NEW h, NEW g, Mild(s, h), Mild(h, g)
  PROVE  Mild(s, g)
BY DEF Mild

LEMMA MildRefl ==
  ASSUME NEW s, Sound(s)
  PROVE  Mild(s, s)
BY DEF Mild

LEMMA Shape ==
  ASSUME NEW s \in Situations
  PROVE  /\ s.b \in Battle /\ s.log \in Log
         /\ s.b.dead \subseteq Slots /\ s.b.held \subseteq Slots
         /\ s.b.hypno \subseteq Slots /\ s.b.took \subseteq Slots
         /\ s.b.again \subseteq Slots /\ s.b.waited \subseteq Slots
         /\ s.b.active \in Slots /\ s.b.control \in Sides
         /\ s.b.toFire \in BOOLEAN
         /\ s.log.due \in [Slots -> Int] /\ s.log.volleys \in Nat
         /\ s.log.lost \subseteq Slots /\ s.log.risen \subseteq Slots
BY DEF Situations, Battle, Log

(* What a blow on T that kills those of K leaves.                           *)
Shaken(s, T, K, h) ==
  /\ Mild(s, h)
  /\ h.b.dead = s.b.dead \cup K /\ h.b.held = s.b.held \ T
  /\ h.b.hypno = s.b.hypno
  /\ h.b.took = s.b.took \cup (T \cap (s.b.held \cup s.b.hypno))
  /\ h.log.lost = s.log.lost \cup (T \cap (s.b.held \cup s.b.hypno))

LEMMA HitMild ==
  ASSUME NEW s, Sound(s), NEW T \in SUBSET Slots, NEW K \in SUBSET Slots
  PROVE  /\ Shaken(s, T, K, Hit(s, T, K))
         /\ Hit(s, T, K).b.toFire = s.b.toFire
<1> DEFINE h == Hit(s, T, K)
           shaken == T \cap (s.b.held \cup s.b.hypno)
<1>1. s \in Situations  BY DEF Sound
<1>2. s.b \in Battle /\ s.log \in Log  BY <1>1 DEF Situations
<1>3. /\ h.b = [s.b EXCEPT !.held = @ \ T, !.took = @ \cup shaken,
                           !.dead = @ \cup K]
      /\ h.log = [s.log EXCEPT !.lost = @ \cup shaken]
      /\ h = [b |-> h.b, log |-> h.log]
  BY DEF Hit
<1>4. shaken \in SUBSET Slots  OBVIOUS
<1> HIDE DEF h, shaken
<1>5. h.b \in Battle
  <2> DEFINE H == s.b.held \ T
             W == s.b.took \cup shaken
             D == s.b.dead \cup K
  <2>1. H \in SUBSET Slots /\ W \in SUBSET Slots /\ D \in SUBSET Slots
    BY <1>1, <1>4, Shape
  <2>2. h.b = [s.b EXCEPT !.held = H, !.took = W, !.dead = D]
    BY <1>2, <1>3 DEF Battle
  <2> HIDE DEF H, W, D
  <2> QED  BY <1>2, <2>1, <2>2 DEF Battle
<1>6. h.log \in Log  BY <1>2, <1>3, <1>4 DEF Log
<1>7. /\ h.b.took = s.b.took \cup shaken /\ h.b.dead = s.b.dead \cup K
      /\ h.b.toFire = s.b.toFire /\ h.b.active = s.b.active
      /\ h.b.control = s.b.control /\ h.b.left = s.b.left
      /\ h.b.held = s.b.held \ T /\ h.b.hypno = s.b.hypno
      /\ h.b.bonus = s.b.bonus
  BY <1>2, <1>3 DEF Battle
<1>8. /\ h.log.due = s.log.due /\ h.log.lost = s.log.lost \cup shaken
      /\ h.log.risen = s.log.risen /\ h.log.volleys = s.log.volleys
  BY <1>2, <1>3 DEF Log
<1>9. h \in Situations  BY <1>3, <1>5, <1>6 DEF Situations
<1>10. AtMostOne(h) /\ Used(h) /\ Shots(h)
  BY <1>7, <1>8 DEF Sound, AtMostOne, Used, Shots
<1> QED  BY <1>7, <1>8, <1>9, <1>10 DEF Mild, Sound, Shaken, h, shaken

LEMMA SetToFire ==
  ASSUME NEW c \in Battle, NEW x \in BOOLEAN
  PROVE  [c EXCEPT !.toFire = x] \in Battle
BY DEF Battle

LEMMA SetBonus ==
  ASSUME NEW c \in Battle, NEW x \in BOOLEAN
  PROVE  [c EXCEPT !.bonus = x] \in Battle
BY DEF Battle

-----------------------------------------------------------------------------
(* The volleys of the castle, while it still has to shoot.                  *)
LEMMA VolleyMild ==
  ASSUME NEW s, Sound(s), s.b.toFire,
         NEW T \in SUBSET Slots, NEW K \in SUBSET Slots
  PROVE  Shaken(s, T, K, Volley(s, T, K)) /\ ~Volley(s, T, K).b.toFire
<1> DEFINE h == Hit(s, T, K)
           v == Volley(s, T, K)
<1>1. Shaken(s, T, K, h) /\ h.b.toFire = s.b.toFire  BY HitMild
<1>2. h \in Situations /\ AtMostOne(h) /\ Used(h) /\ Shots(h)
  BY <1>1 DEF Mild, Sound, Shaken
<1>3. h.b \in Battle /\ h.log \in Log /\ h.log.volleys \in Nat
  BY <1>2, Shape
<1>4. v.b = [h.b EXCEPT !.toFire = FALSE]  BY DEF Volley
<1>5. v.log = [h.log EXCEPT !.volleys = @ + 1]  BY DEF Volley
<1>6. v = [b |-> v.b, log |-> v.log]  BY DEF Volley
<1> HIDE DEF h, v
<1>7. v.b \in Battle  BY <1>3, <1>4, SetToFire, Zenon
<1>8. v.log \in Log  BY <1>3, <1>5 DEF Log
<1>9. /\ v.b.took = h.b.took /\ v.b.dead = h.b.dead /\ ~v.b.toFire
      /\ v.b.active = h.b.active /\ v.b.control = h.b.control
      /\ v.b.left = h.b.left /\ v.b.held = h.b.held
      /\ v.b.hypno = h.b.hypno /\ v.b.bonus = h.b.bonus
  BY <1>3, <1>4 DEF Battle
<1>10. /\ v.log.due = h.log.due /\ v.log.lost = h.log.lost
      /\ v.log.risen = h.log.risen /\ v.log.volleys = h.log.volleys + 1
  BY <1>3, <1>5 DEF Log
<1>11. v \in Situations  BY <1>6, <1>7, <1>8 DEF Situations
<1>12. AtMostOne(v) /\ Used(v)
  BY <1>2, <1>9, <1>10 DEF AtMostOne, Used
<1>13. Castle => h.log.volleys = 0  BY <1>1, <1>2 DEF Shots
<1>14. Shots(v)  BY <1>9, <1>10, <1>13 DEF Shots
<1>15. Sound(v)  BY <1>11, <1>12, <1>14 DEF Sound
<1>16. Mild(s, v)  BY <1>1, <1>9, <1>10, <1>15 DEF Mild, Shaken
<1> QED  BY <1>1, <1>9, <1>10, <1>16 DEF v, Shaken

(* All of the side s.control is left alone by the castle of side 1.         *)
LEMMA VolleysMild ==
  ASSUME NEW s, Sound(s), s.b.toFire, NEW h \in Volleys(s)
  PROVE  /\ Mild(s, h) /\ ~h.b.toFire
         /\ s.b.dead \subseteq h.b.dead
         /\ \A t \in h.b.dead \ s.b.dead : t[1] = 0
         /\ h.b.held \subseteq s.b.held
         /\ h.b.hypno = s.b.hypno
         /\ \A t \in h.b.took \ s.b.took : t[1] = 0
         /\ \A t \in s.b.held \ h.b.held : t \in h.log.lost
<1>1. PICK T \in SUBSET Alive(s, 0), K \in SUBSET Alive(s, 0) :
        h = Volley(s, T, K)
  BY DEF Volleys
<1>2. \A t \in T \cup K : t \in Slots /\ t[1] = 0  BY <1>1 DEF Alive
<1>3. Shaken(s, T, K, h) /\ ~h.b.toFire
  <2>1. T \in SUBSET Slots /\ K \in SUBSET Slots  BY <1>2
  <2> QED  BY <1>1, <2>1, VolleyMild
<1> QED  BY <1>2, <1>3 DEF Shaken

LEMMA LastVolleysMild ==
  ASSUME NEW s, Sound(s), NEW h \in LastVolleys(s)
  PROVE  /\ Mild(s, h) /\ (Castle => ~h.b.toFire)
         /\ s.b.dead \subseteq h.b.dead
         /\ \A t \in s.b.held \ h.b.held : t \in h.log.lost
<1>1. CASE Castle /\ s.b.toFire  BY <1>1, VolleysMild DEF LastVolleys
<1>2. CASE ~(Castle /\ s.b.toFire)  BY <1>2, MildRefl DEF LastVolleys
<1> QED  BY <1>1, <1>2

-----------------------------------------------------------------------------
(* A turn that is taken, or lost to panic.                                  *)
LEMMA FreezeSound ==
  ASSUME NEW s, Sound(s), NEW T \in SUBSET Slots
  PROVE  /\ Sound(Freeze(s, T))
         /\ Freeze(s, T).b = [s.b EXCEPT !.took = @ \cup T]
         /\ Freeze(s, T).log = Turned(s.log, T)
         /\ Freeze(s, T).log.due =
              [t \in Slots |-> IF t \in T THEN s.log.due[t] - 1
                                          ELSE s.log.due[t]]
         /\ Freeze(s, T).log.lost = s.log.lost
         /\ Freeze(s, T).log.risen = s.log.risen
         /\ T \cap s.b.took = {} =>
              \A C : Owed(s, C) => Owed(Freeze(s, T), C)
<1> DEFINE f == Freeze(s, T)
<1>1. s \in Situations /\ AtMostOne(s) /\ Used(s) /\ Shots(s)  BY DEF Sound
<1>2. s.b \in Battle /\ s.log \in Log /\ s.log.due \in [Slots -> Int]
      /\ s.b.took \subseteq Slots
  BY <1>1, Shape
<1>3. /\ f.b = [s.b EXCEPT !.took = @ \cup T]
      /\ f.log = [s.log EXCEPT !.due = [t \in Slots |->
                    IF t \in T THEN @[t] - 1 ELSE @[t]]]
      /\ f.log = Turned(s.log, T)
      /\ f = [b |-> f.b, log |-> f.log]
  BY DEF Freeze, Turned
<1> HIDE DEF f
<1>4. /\ f.log.due = [t \in Slots |-> IF t \in T THEN s.log.due[t] - 1
                                                 ELSE s.log.due[t]]
      /\ f.log.lost = s.log.lost /\ f.log.risen = s.log.risen
      /\ f.log.volleys = s.log.volleys
  BY <1>2, <1>3 DEF Log
<1>5. f.log \in Log
  <2>1. [t \in Slots |-> IF t \in T THEN s.log.due[t] - 1 ELSE s.log.due[t]]
          \in [Slots -> Int]
    BY <1>2
  <2> QED  BY <1>2, <1>3, <2>1 DEF Log
<1>6. f.b \in Battle  BY <1>2, <1>3 DEF Battle
<1>7. /\ f.b.took = s.b.took \cup T /\ f.b.dead = s.b.dead
      /\ f.b.toFire = s.b.toFire
  BY <1>2, <1>3 DEF Battle
<1>8. f \in Situations  BY <1>3, <1>5, <1>6 DEF Situations
<1>9. AtMostOne(f)  BY <1>1, <1>2, <1>4 DEF AtMostOne
<1>10. Used(f)
  <2>1. \A t \in T : f.log.due[t] <= 0  BY <1>1, <1>2, <1>4 DEF AtMostOne
  <2>2. \A t \in s.b.took \ T : f.log.due[t] = s.log.due[t]  BY <1>2, <1>4
  <2> QED  BY <1>1, <1>4, <1>7, <2>1, <2>2 DEF Used
<1>11. Shots(f)  BY <1>1, <1>4, <1>7 DEF Shots
<1>12. ASSUME NEW C, Owed(s, C), T \cap s.b.took = {}
       PROVE  Owed(f, C)
  BY <1>2, <1>4, <1>7, <1>12 DEF Owed, Turns
<1> QED  BY <1>3, <1>4, <1>8, <1>9, <1>10, <1>11, <1>12 DEF Sound, f

(* GetNextArmy never chooses a stack before one that is ahead of it.        *)
LEMMA NotAheadOfItself ==
  ASSUME NEW s, NEW t \in Slots
  PROVE  t \notin Ahead(s, t)
<1>1. Pace(s, t) \in Int  BY SlotsFacts DEF Pace
<1>2. t[2] \in Nat  BY SlotsFacts
<1> QED  BY <1>1, <1>2 DEF Ahead, Before

(* The stack that is chosen is ready for its turn and owed it.              *)
LEMMA ChooseSound ==
  ASSUME NEW s, Sound(s), NEW t \in Ready(s)
  PROVE  /\ Sound(Choose(s, t)) /\ Fit(Choose(s, t))
         /\ \A C : Owed(s, C) => /\ Owed(Choose(s, t), C)
                                 /\ Due(Choose(s, t), C)
<1> DEFINE f == Freeze(s, Ahead(s, t))
           c == Choose(s, t)
<1>1. /\ Ahead(s, t) \subseteq Ready(s) /\ t \notin Ahead(s, t)
      /\ Ready(s) \subseteq Slots /\ t \in Slots
      /\ Ready(s) \cap s.b.took = {}
      /\ t \notin s.b.dead /\ t \notin s.b.held /\ t \notin s.b.took
  BY NotAheadOfItself DEF Ahead, Ready
<1>2. /\ Sound(f) /\ f.b = [s.b EXCEPT !.took = @ \cup Ahead(s, t)]
      /\ f.log.due = [u \in Slots |-> IF u \in Ahead(s, t)
                                      THEN s.log.due[u] - 1
                                      ELSE s.log.due[u]]
      /\ \A C : Owed(s, C) => Owed(f, C)
  BY <1>1, FreezeSound
<1>3. f \in Situations /\ AtMostOne(f) /\ Used(f) /\ Shots(f)
  BY <1>2 DEF Sound
<1>4. f.b \in Battle /\ f.log \in Log  BY <1>3, Shape
<1>5. s.b \in Battle  BY Shape DEF Sound
<1>6. /\ f.b.dead = s.b.dead /\ f.b.held = s.b.held
      /\ f.b.hypno = s.b.hypno /\ f.b.took = s.b.took \cup Ahead(s, t)
  BY <1>2, <1>5 DEF Battle
<1>7. /\ c.b = [f.b EXCEPT !.active = t,
                  !.control = IF t \in s.b.hypno THEN Enemy(t[1]) ELSE t[1]]
      /\ c.log = f.log
      /\ c = [b |-> c.b, log |-> c.log]
  <2>1. f = [b |-> f.b, log |-> f.log]  BY DEF Freeze
  <2>2. s.b.hypno = f.b.hypno  BY <1>6
  <2>3. c = [f EXCEPT !.b.active = t,
               !.b.control = IF t \in s.b.hypno THEN Enemy(t[1]) ELSE t[1]]
    BY DEF Choose
  <2> HIDE DEF f, c
  <2> QED  BY <2>1, <2>3
<1>8. t[1] \in Sides /\ Enemy(t[1]) \in Sides /\ Enemy(t[1]) # t[1]
  BY <1>1, SlotsFacts DEF Sides, Enemy
<1> HIDE DEF f, c
<1>9. c.b \in Battle  BY <1>1, <1>4, <1>7, <1>8 DEF Battle
<1>10. /\ c.b.took = f.b.took /\ c.b.dead = f.b.dead
       /\ c.b.toFire = f.b.toFire /\ c.b.active = t
       /\ c.b.held = f.b.held /\ c.b.hypno = f.b.hypno
       /\ c.b.control = IF t \in s.b.hypno THEN Enemy(t[1]) ELSE t[1]
  BY <1>4, <1>7 DEF Battle
<1>11. Sound(c)
  BY <1>3, <1>4, <1>7, <1>9, <1>10
     DEF Sound, Situations, AtMostOne, Used, Shots
<1>12. Fit(c)  BY <1>1, <1>6, <1>8, <1>10 DEF Fit
<1>13. \A C : Owed(s, C) => Owed(c, C)
  BY <1>2, <1>7, <1>10 DEF Owed, Turns
<1>14. \A C : Owed(s, C) => Due(c, C)
  BY <1>1, <1>2, <1>7, <1>10 DEF Owed, Due, Turns
<1> QED  BY <1>11, <1>12, <1>13, <1>14 DEF c

(* The stacks that waited are called again: no turn is given by that.       *)
LEMMA RecalledSound ==
  ASSUME NEW s, Sound(s)
  PROVE  /\ Mild(s, Recalled(s))
         /\ Recalled(s).b = [s.b EXCEPT !.waited = {}]
         /\ Recalled(s).log = s.log
<1> DEFINE r == Recalled(s)
<1>1. s \in Situations /\ AtMostOne(s) /\ Used(s) /\ Shots(s)  BY DEF Sound
<1>2. s.b \in Battle /\ s.log \in Log  BY <1>1, Shape
<1>3. s = [b |-> s.b, log |-> s.log]  BY <1>1 DEF Situations
<1>4. r = [b |-> [s.b EXCEPT !.waited = {}], log |-> s.log]
  BY <1>3 DEF Recalled
<1>5. r.b = [s.b EXCEPT !.waited = {}] /\ r.log = s.log  BY <1>4
<1> HIDE DEF r
<1>6. r.b \in Battle  BY <1>2, <1>5 DEF Battle
<1>7. r \in Situations  BY <1>2, <1>4, <1>5, <1>6 DEF Situations
<1>8. /\ r.b.took = s.b.took /\ r.b.dead = s.b.dead
      /\ r.b.toFire = s.b.toFire /\ r.b.active = s.b.active
      /\ r.b.control = s.b.control /\ r.b.left = s.b.left
      /\ r.b.bonus = s.b.bonus
  BY <1>2, <1>5 DEF Battle
<1>9. Sound(r)  BY <1>1, <1>5, <1>7, <1>8 DEF Sound, AtMostOne, Used, Shots
<1> QED  BY <1>5, <1>8, <1>9 DEF Mild, r

LEMMA PicksSound ==
  ASSUME NEW s, Sound(s), NEW M, NEW h \in Picks(s, M)
  PROVE  /\ Sound(h) /\ Fit(h)
         /\ \A C : Owed(s, C) => Owed(h, C) /\ Due(h, C)
<1>1. PICK t \in Ready(s) : h = Choose(s, t)  BY DEF Picks
<1> QED  BY <1>1, ChooseSound

LEMMA AllFrozenSound ==
  ASSUME NEW s, Sound(s), NEW M, NEW f \in AllFrozen(s, M)
  PROVE  Sound(f) /\ \A C : Owed(s, C) => Owed(f, C)
<1>1. f = Freeze(s, Ready(s))  BY DEF AllFrozen
<1>2. Ready(s) \in SUBSET Slots /\ Ready(s) \cap s.b.took = {}
  BY DEF Ready
<1> QED  BY <1>1, <1>2, FreezeSound

(* Whoever GetNextArmy finds is owed a turn and fit for it.                 *)
LEMMA FoundSound ==
  ASSUME NEW s, Sound(s), NEW M, NEW h \in Found(s, M)
  PROVE  /\ Sound(h) /\ Fit(h)
         /\ \A C : Owed(s, C) => Owed(h, C) /\ Due(h, C)
<1>1. CASE h \in Picks(s, M)  BY <1>1, PicksSound
<1>2. CASE \E f \in AllFrozen(s, M) : h \in Picks(Recalled(f), {})
  <2>1. PICK f \in AllFrozen(s, M) : h \in Picks(Recalled(f), {})  BY <1>2
  <2>2. Sound(f) /\ \A C : Owed(s, C) => Owed(f, C)
    BY <2>1, AllFrozenSound
  <2>3. Mild(f, Recalled(f))  BY <2>2, RecalledSound
  <2>4. Sound(Recalled(f))  BY <2>3 DEF Mild
  <2>5. \A C : Owed(f, C) => Owed(Recalled(f), C)  BY <2>3, MildOwed
  <2> QED  BY <2>1, <2>2, <2>4, <2>5, PicksSound
<1> QED  BY <1>1, <1>2 DEF Found

(* When GetNextArmy finds nobody the round has been fair to all.            *)
LEMMA NotFoundSound ==
  ASSUME NEW s, Sound(s), NEW M, NEW h \in NotFound(s, M)
  PROVE  /\ Sound(h)
         /\ Forgotten(h) \subseteq h.log.risen
         /\ Castle => h.log.volleys = 1
         /\ \A C : Owed(s, C) => Owed(h, C)
<1>1. PICK f \in AllFrozen(s, M) :
        Ready(Recalled(f)) = {} /\ h \in LastVolleys(Recalled(f))
  BY DEF NotFound
<1> DEFINE r == Recalled(f)
<1>2. Sound(f) /\ \A C : Owed(s, C) => Owed(f, C)  BY AllFrozenSound
<1>3. Mild(f, r) /\ r.b = [f.b EXCEPT !.waited = {}]  BY <1>2, RecalledSound
<1>4. Sound(r)  BY <1>3 DEF Mild
<1>5. /\ Mild(r, h) /\ (Castle => ~h.b.toFire)
      /\ r.b.dead \subseteq h.b.dead
      /\ \A t \in r.b.held \ h.b.held : t \in h.log.lost
  BY <1>1, <1>4, LastVolleysMild
<1>6. f.b \in Battle  BY <1>2, Shape DEF Sound
<1>7. r.b.waited = {}  BY <1>3, <1>6 DEF Battle
<1>8. \A t \in Slots : t \in r.b.dead \/ t \in r.b.held \/ t \in r.b.took
  BY <1>1, <1>7 DEF Ready
<1>9. Sound(h) /\ r.b.took \subseteq h.b.took  BY <1>5 DEF Mild
<1>10. Castle => h.log.volleys = 1  BY <1>5, <1>9 DEF Sound, Shots
<1>11. ASSUME NEW t \in Forgotten(h)
       PROVE  t \in h.log.risen
  <2>1. /\ t \in Slots /\ t \notin h.b.dead /\ t \notin h.b.held
        /\ t \notin h.log.lost /\ h.log.due[t] > 0
    BY DEF Forgotten
  <2>2. t \in h.b.took  BY <1>5, <1>8, <1>9, <2>1
  <2>3. h.log.due[t] \in Int  BY <1>9, <2>1, Shape DEF Sound
  <2> QED  BY <1>9, <2>1, <2>2, <2>3 DEF Sound, Used
<1>12. \A C : Owed(s, C) => Owed(h, C)  BY <1>2, <1>3, <1>5, MildOwed
<1> QED  BY <1>9, <1>10, <1>11, <1>12

(* A new round owes every stack one turn.                                   *)
LEMMA FreshSound ==
  ASSUME NEW s, Sound(s), NEW H \in SUBSET Slots, NEW Y \in SUBSET Slots
  PROVE  Sound(Fresh(s, H, Y)) /\ Owed(Fresh(s, H, Y), {})
<1> DEFINE here == Slots \ s.b.dead
           c == [s.b EXCEPT !.took = @ \ here, !.again = @ \ here, !.held = H,
                            !.hypno = Y, !.cast = {}]
           d == [c EXCEPT !.toFire = TRUE]
           g == Fresh(s, H, Y)
<1>1. s.b \in Battle /\ s.b.took \subseteq Slots  BY Shape DEF Sound
<1>2. c \in Battle  BY <1>1 DEF Battle
<1>3. c.took = s.b.took \ here /\ c.dead = s.b.dead  BY <1>1 DEF Battle
<1>4. g = [b |-> d, log |-> NewLog]  BY DEF Fresh
<1> HIDE DEF c, g
<1>5. d \in Battle  BY <1>2, SetToFire, Zenon
<1>6. d.took = c.took /\ d.dead = c.dead /\ d.toFire  BY <1>2 DEF Battle
<1> HIDE DEF d
<1>7. /\ NewLog \in Log /\ NewLog.due = [t \in Slots |-> 1]
      /\ NewLog.volleys = 0
  BY DEF NewLog, Log
<1>8. g.b = d /\ g.log = NewLog /\ g \in Situations
  BY <1>4, <1>5, <1>7 DEF Situations
<1>9. AtMostOne(g) /\ Owed(g, {})
  BY <1>7, <1>8 DEF AtMostOne, Owed, Turns
<1>10. Used(g)  BY <1>1, <1>3, <1>6, <1>8 DEF Used
<1>11. Shots(g)  BY <1>6, <1>7, <1>8 DEF Shots
<1> QED  BY <1>8, <1>9, <1>10, <1>11 DEF Sound, g

LEMMA ResetSound ==
  ASSUME NEW s, Sound(s), NEW h \in Reset(s)
  PROVE  Sound(h) /\ Owed(h, {})
<1> DEFINE here == Slots \ s.b.dead
           Lasting(X) == {Z \in SUBSET X : X \cap s.b.dead \subseteq Z}
<1>1. PICK H \in Lasting(s.b.held), Y \in Lasting(s.b.hypno),
           p \in (SUBSET (Ablaze \cap here)) \X (SUBSET (Ablaze \cap here)) :
        h = Hit(Fresh(s, H, Y), p[1], p[2])
  BY DEF Reset
<1>2. s.b.held \subseteq Slots /\ s.b.hypno \subseteq Slots
  BY Shape DEF Sound
<1>3. /\ H \in SUBSET Slots /\ Y \in SUBSET Slots
      /\ p[1] \in SUBSET Slots /\ p[2] \in SUBSET Slots
  BY <1>1, <1>2
<1>4. Sound(Fresh(s, H, Y)) /\ Owed(Fresh(s, H, Y), {})  BY <1>3, FreshSound
<1>5. Mild(Fresh(s, H, Y), h)  BY <1>1, <1>3, <1>4, HitMild DEF Shaken
<1> QED  BY <1>4, <1>5, MildOwed DEF Mild

-----------------------------------------------------------------------------
(* What is true of the situation while the battle goes on: it is sound, and *)
(* nobody had a turn too many.  In a round that began stale the stack that  *)
(* was active has a credit of one turn, and need not be fit for it.         *)
Playable(s, C) == Owed(s, C) /\ Due(s, C) /\ (C = {} => Fit(s))
Credit(C) == IF stale THEN \E a \in Slots : C = {a} ELSE C = {}
LastFair == last.forgotten = {} /\ (Castle => last.volleys = 1)
FlagsType == round \in {0, 1} /\ stale \in BOOLEAN
             /\ last \in [forgotten : SUBSET Slots, volleys : Nat]

LEMMA PassTurnSound ==
  ASSUME NEW s, Sound(s), NEW C, Credit(C), Owed(s, C), PassTurn(s),
         LastFair, FlagsType
  PROVE  /\ Sound(Situation') /\ LastFair' /\ FlagsType'
         /\ \E D : Credit(D)' /\ Playable(Situation', D)
<1>1. CASE SameRound(s)
  <2>1. PICK h \in Found(s, Panicky) : b' = h.b /\ log' = h.log
    BY <1>1 DEF SameRound
  <2>2. UNCHANGED <<last, round, stale>>  BY <1>1 DEF SameRound
  <2>3. Sound(h) /\ Fit(h) /\ Owed(h, C) /\ Due(h, C)
    BY FoundSound
  <2>4. h = [b |-> h.b, log |-> h.log]  BY <2>3 DEF Sound, Situations
  <2>5. Situation' = h  BY <2>1, <2>4 DEF Situation
  <2>6. Credit(C)'  BY <2>2 DEF Credit
  <2>7. Playable(Situation', C)  BY <2>3, <2>5 DEF Playable
  <2> QED  BY <2>2, <2>3, <2>5, <2>6, <2>7 DEF LastFair, FlagsType
<1>2. CASE NextRound(s)
  <2>1. PICK h \in NotFound(s, Panicky) :
          /\ \E r \in Reset(h) :
               \/ \E n \in Found(r, Panicky) :
                    b' = n.b /\ log' = n.log /\ stale' = FALSE
               \/ \E n \in NotFound(r, Panicky) :
                    b' = n.b /\ log' = n.log /\ stale' = TRUE
          /\ last' = Closing(h)
          /\ round' = 1 - round
    BY <1>2 DEF NextRound
  <2>2. PICK r \in Reset(h) :
          \/ \E n \in Found(r, Panicky) :
               b' = n.b /\ log' = n.log /\ stale' = FALSE
          \/ \E n \in NotFound(r, Panicky) :
               b' = n.b /\ log' = n.log /\ stale' = TRUE
    BY <2>1
  <2>3. /\ Sound(h) /\ Forgotten(h) \subseteq h.log.risen
        /\ Castle => h.log.volleys = 1
    BY NotFoundSound
  <2>4. Sound(r) /\ Owed(r, {})  BY <2>3, ResetSound
  <2>5. h.log.volleys \in Nat /\ Forgotten(h) \subseteq Slots
    BY <2>3, Shape DEF Sound, Forgotten
  <2>6. /\ last'.forgotten = {} /\ last'.volleys = h.log.volleys
        /\ last' \in [forgotten : SUBSET Slots, volleys : Nat]
    BY <2>1, <2>3, <2>5 DEF Closing
  <2>7. LastFair'  BY <2>3, <2>6 DEF LastFair
  <2>8. round' \in {0, 1}  BY <2>1 DEF FlagsType
  <2>9. CASE \E n \in Found(r, Panicky) :
               b' = n.b /\ log' = n.log /\ stale' = FALSE
    <3>1. PICK n \in Found(r, Panicky) :
            b' = n.b /\ log' = n.log /\ stale' = FALSE
      BY <2>9
    <3>2. Sound(n) /\ Fit(n) /\ Owed(n, {}) /\ Due(n, {})
      BY <2>4, FoundSound
    <3>3. n = [b |-> n.b, log |-> n.log]  BY <3>2 DEF Sound, Situations
    <3>4. Situation' = n  BY <3>1, <3>3 DEF Situation
    <3>5. stale' \in BOOLEAN  BY <3>1
    <3>6. FlagsType'  BY <2>6, <2>8, <3>5 DEF FlagsType
    <3>7. Credit({})'  BY <3>1 DEF Credit
    <3>8. Playable(Situation', {})  BY <3>2, <3>4 DEF Playable
    <3> QED  BY <2>7, <3>2, <3>4, <3>6, <3>7, <3>8
  <2>10. CASE \E n \in NotFound(r, Panicky) :
               b' = n.b /\ log' = n.log /\ stale' = TRUE
    <3>1. PICK n \in NotFound(r, Panicky) :
            b' = n.b /\ log' = n.log /\ stale' = TRUE
      BY <2>10
    <3>2. Sound(n) /\ Owed(n, {})  BY <2>4, NotFoundSound
    <3>3. n = [b |-> n.b, log |-> n.log]  BY <3>2 DEF Sound, Situations
    <3>4. Situation' = n  BY <3>1, <3>3 DEF Situation
    <3>5. stale' \in BOOLEAN /\ stale'  BY <3>1
    <3>6. FlagsType'  BY <2>6, <2>8, <3>5 DEF FlagsType
    <3> DEFINE D == {n.b.active}
    <3>7. n.b.active \in Slots /\ n.log.due \in [Slots -> Int]
      BY <3>2, Shape DEF Sound
    <3>8. Credit(D)'  BY <3>1, <3>7 DEF Credit
    <3>9. Playable(n, D)
      BY <3>2, <3>7 DEF Playable, Owed, Due, Turns
    <3> QED  BY <2>7, <3>2, <3>4, <3>6, <3>8, <3>9
  <2> QED  BY <2>2, <2>9, <2>10
<1> QED  BY <1>1, <1>2 DEF PassTurn

-----------------------------------------------------------------------------
(* The steps of an action, one lemma an operator.                           *)
LEMMA StruckMild ==
  ASSUME NEW s, Sound(s), NEW by, NEW T \in SUBSET Slots,
         NEW h \in Struck(s, by, T)
  PROVE  Mild(s, h) /\ (s.b.dead \subseteq h.b.dead)
<1>1. PICK p \in (SUBSET T) \X (SUBSET T) :
        h = [Hit(s, T, p[1]) EXCEPT !.b.held = @ \cup p[2]]
  BY DEF Struck
<1> DEFINE K == p[1]
           H == p[2]
           g == Hit(s, T, K)
<1>2. K \in SUBSET Slots /\ H \in SUBSET Slots  BY <1>1
<1>3. Shaken(s, T, K, g) /\ g.b.toFire = s.b.toFire  BY <1>2, HitMild
<1>4. g \in Situations /\ AtMostOne(g) /\ Used(g) /\ Shots(g)
  BY <1>3 DEF Shaken, Mild, Sound
<1>5. g.b \in Battle /\ g.log \in Log  BY <1>4, Shape
<1>6. g = [b |-> g.b, log |-> g.log]  BY DEF Hit
<1> HIDE DEF g, K, H
<1>7. h = [g EXCEPT !.b.held = @ \cup H]  BY <1>1 DEF g, K, H
<1>8. h = [b |-> [g.b EXCEPT !.held = @ \cup H], log |-> g.log]
  BY <1>6, <1>7
<1>9. h.b = [g.b EXCEPT !.held = @ \cup H] /\ h.log = g.log
      /\ h = [b |-> h.b, log |-> h.log]
  BY <1>8
<1>10. h.b \in Battle  BY <1>2, <1>5, <1>9 DEF Battle
<1>11. /\ h.b.took = g.b.took /\ h.b.dead = g.b.dead
       /\ h.b.toFire = g.b.toFire /\ h.b.active = g.b.active
       /\ h.b.control = g.b.control /\ h.b.left = g.b.left
       /\ h.b.bonus = g.b.bonus
  BY <1>5, <1>9 DEF Battle
<1>12. Sound(h)
  BY <1>4, <1>5, <1>9, <1>10, <1>11
     DEF Sound, Situations, AtMostOne, Used, Shots
<1> QED  BY <1>3, <1>9, <1>11, <1>12 DEF Mild, Shaken

LEMMA BurntMild ==
  ASSUME NEW s, Sound(s), NEW h \in Burnt(s)
  PROVE  Mild(s, h)
<1>1. CASE h = s  BY <1>1, MildRefl
<1>2. CASE \E K \in SUBSET {s.b.active} : h = Hit(s, {s.b.active}, K)
  <2>1. s.b.active \in Slots  BY Shape DEF Sound
  <2>2. PICK K \in SUBSET {s.b.active} : h = Hit(s, {s.b.active}, K)
    BY <1>2
  <2>3. {s.b.active} \in SUBSET Slots /\ K \in SUBSET Slots  BY <2>1
  <2> QED  BY <2>2, <2>3, HitMild DEF Shaken
<1> QED  BY <1>1, <1>2 DEF Burnt

LEMMA AnsweredMild ==
  ASSUME NEW s, Sound(s), NEW t, NEW h \in Answered(s, t)
  PROVE  Mild(s, h)
<1>1. {s.b.active} \in SUBSET Slots  BY Shape DEF Sound
<1>2. h = s \/ h \in Struck(s, t, {s.b.active})  BY DEF Answered
<1> QED  BY <1>1, <1>2, StruckMild, MildRefl

(* A stack that is freed from something loses no turn and gains none.       *)
LEMMA FreedMild ==
  ASSUME NEW s, Sound(s), NEW H \in SUBSET Slots, NEW Y \in SUBSET Slots
  PROVE  Mild(s, [s EXCEPT !.b.held = H, !.b.hypno = Y])
<1> DEFINE h == [s EXCEPT !.b.held = H, !.b.hypno = Y]
<1>1. s \in Situations /\ AtMostOne(s) /\ Used(s) /\ Shots(s)  BY DEF Sound
<1>2. s.b \in Battle /\ s.log \in Log  BY <1>1, Shape
<1>3. s = [b |-> s.b, log |-> s.log]  BY <1>1 DEF Situations
<1>4. h = [s EXCEPT !.b.held = H, !.b.hypno = Y]  OBVIOUS
<1> HIDE DEF h
<1>5. h.b = [s.b EXCEPT !.held = H, !.hypno = Y] /\ h.log = s.log
      /\ h = [b |-> h.b, log |-> h.log]
  BY <1>3, <1>4
<1>6. h.b \in Battle  BY <1>2, <1>5 DEF Battle
<1>7. /\ h.b.took = s.b.took /\ h.b.dead = s.b.dead
      /\ h.b.toFire = s.b.toFire /\ h.b.active = s.b.active
      /\ h.b.control = s.b.control /\ h.b.left = s.b.left
      /\ h.b.bonus = s.b.bonus
  BY <1>2, <1>5 DEF Battle
<1>8. Sound(h)
  BY <1>1, <1>2, <1>5, <1>6, <1>7
     DEF Sound, Situations, AtMostOne, Used, Shots
<1> QED  BY <1>5, <1>7, <1>8 DEF Mild, h

LEMMA FoughtMild ==
  ASSUME NEW s, Sound(s), NEW f \in Fought(s)
  PROVE  Mild(s, f)
<1> DEFINE a == s.b.active
           targets == IF a \in s.b.dead THEN {}
                      ELSE Alive(s, Enemy(s.b.control)) \ {a}
<1>1. CASE f = s  BY <1>1, MildRefl
<1>2. CASE f # s
  <2> DEFINE Blow(T) == UNION {UNION {Answered(g, t) : t \in T} :
                                  g \in Struck(s, a, T)}
             Freed(T) == {[h EXCEPT !.b.hypno = @ \ {a}] : h \in Blow(T)}
  <2>1. f \in UNION {Freed(T) : T \in SUBSET targets \ {{}}}
    BY <1>2 DEF Fought
  <2>2. PICK T \in SUBSET targets \ {{}} : f \in Freed(T)
    BY <2>1
  <2>3. PICK h \in Blow(T) : f = [h EXCEPT !.b.hypno = @ \ {a}]
    BY <2>2
  <2>4. PICK g \in Struck(s, a, T), t \in T : h \in Answered(g, t)
    BY <2>3
  <2>5. T \in SUBSET Slots  BY <2>2 DEF Alive
  <2>6. Mild(s, g)  BY <2>4, <2>5, StruckMild
  <2>7. Mild(g, h)  BY <2>4, <2>6, AnsweredMild DEF Mild
  <2>8. Sound(h)  BY <2>7 DEF Mild
  <2>9. h \in Situations /\ h.b.held \in SUBSET Slots
        /\ h.b.hypno \ {a} \in SUBSET Slots
    BY <2>8, Shape DEF Sound
  <2>10. h = [b |-> h.b, log |-> h.log] /\ h.b \in Battle
    BY <2>9, Shape DEF Situations
  <2>11. [h EXCEPT !.b.hypno = @ \ {a}]
           = [h EXCEPT !.b.held = h.b.held, !.b.hypno = h.b.hypno \ {a}]
    <3> DEFINE y == h.b.hypno \ {a}
    <3>1. [h.b EXCEPT !.hypno = y]
            = [h.b EXCEPT !.held = h.b.held, !.hypno = y]
      BY <2>10 DEF Battle
    <3> QED  BY <2>10, <3>1
  <2>12. Mild(h, f)  BY <2>3, <2>8, <2>9, <2>11, FreedMild
  <2> QED  BY <2>6, <2>7, <2>12, MildTrans
<1> QED  BY <1>1, <1>2

(* The active stack's turn is taken.                                        *)
LEMMA ActedSound ==
  ASSUME NEW s, Sound(s)
  PROVE  /\ Sound(Acted(s))
         /\ Acted(s).log.due[Acted(s).b.active] <= 0
         /\ \A C : Owed(s, C) /\ Due(s, C) => Owed(Acted(s), C)
<1> DEFINE a == s.b.active
           f == Freeze(s, {a})
<1>1. s.b \in Battle /\ a \in Slots /\ s.log.due \in [Slots -> Int]
  BY Shape DEF Sound
<1>2. {a} \in SUBSET Slots  BY <1>1
<1>3. Acted(s) = f  BY DEF Acted, Freeze
<1>4. /\ Sound(f) /\ f.b = [s.b EXCEPT !.took = @ \cup {a}]
      /\ f.log.due = [t \in Slots |-> IF t \in {a} THEN s.log.due[t] - 1
                                                   ELSE s.log.due[t]]
  BY <1>2, FreezeSound
<1>5. f.b.active = a /\ f.b.took = s.b.took \cup {a}
  BY <1>1, <1>4 DEF Battle
<1> HIDE DEF f
<1>6. f.log.due[f.b.active] <= 0
  BY <1>1, <1>4, <1>5 DEF Sound, AtMostOne
<1>7. \A C : Owed(s, C) /\ Due(s, C) => Owed(f, C)
  BY <1>1, <1>4, <1>5 DEF Owed, Due, Turns
<1> QED  BY <1>3, <1>4, <1>6, <1>7

(* A bonus is one turn more for a stack that has just had one.              *)
LEMMA BonusSound ==
  ASSUME NEW s, Sound(s), s.log.due[s.b.active] <= 0
  PROVE  Sound(Bonus(s)) /\ \A C : Owed(s, C) => Owed(Bonus(s), C)
<1> DEFINE a == s.b.active
           h == Bonus(s)
           c == [s.b EXCEPT !.took = @ \ {a}, !.again = @ \cup {a}]
           due == [s.log.due EXCEPT ![a] = @ + 1]
<1>1. s \in Situations /\ AtMostOne(s) /\ Used(s) /\ Shots(s)  BY DEF Sound
<1>2. s.b \in Battle /\ s.log \in Log /\ a \in Slots
      /\ s.b.took \subseteq Slots
      /\ s.log.due \in [Slots -> Int]
  BY <1>1, Shape
<1>3. h.b = [s.b EXCEPT !.bonus = TRUE, !.took = @ \ {a},
                        !.again = @ \cup {a}]
  BY DEF Bonus
<1>4. h.log = [s.log EXCEPT !.due = due]  BY DEF Bonus
<1>5. h = [b |-> h.b, log |-> h.log]  BY DEF Bonus
<1> HIDE DEF h
<1>6. c \in Battle  BY <1>2 DEF Battle
<1>7. h.b = [c EXCEPT !.bonus = TRUE]  BY <1>2, <1>3 DEF Battle
<1>8. c.took = s.b.took \ {a} /\ c.dead = s.b.dead /\ c.toFire = s.b.toFire
  BY <1>2 DEF Battle
<1> HIDE DEF c
<1>9. TRUE \in BOOLEAN  OBVIOUS
<1>10. h.b \in Battle  BY <1>6, <1>7, <1>9, SetBonus, Zenon
<1>11. h.b.took = c.took /\ h.b.dead = c.dead /\ h.b.toFire = c.toFire
  BY <1>6, <1>7 DEF Battle
<1>12. due \in [Slots -> Int]  BY <1>2
<1>13. \A t \in Slots : due[t] = IF t = a THEN s.log.due[t] + 1
                                          ELSE s.log.due[t]
  BY <1>2
<1> HIDE DEF due
<1>14. h.log \in Log  BY <1>2, <1>4, <1>12 DEF Log
<1>15. /\ h.log.due = due /\ h.log.lost = s.log.lost
       /\ h.log.risen = s.log.risen /\ h.log.volleys = s.log.volleys
  BY <1>2, <1>4 DEF Log
<1>16. h \in Situations  BY <1>5, <1>10, <1>14 DEF Situations
<1>17. AtMostOne(h)  BY <1>1, <1>2, <1>13, <1>15 DEF AtMostOne
<1>18. Used(h)  BY <1>1, <1>2, <1>8, <1>11, <1>13, <1>15 DEF Used
<1>19. Shots(h)  BY <1>1, <1>8, <1>11, <1>15 DEF Shots
<1>20. \A C : Owed(s, C) => Owed(h, C)
  BY <1>2, <1>8, <1>11, <1>13, <1>15 DEF Owed, Turns
<1> QED  BY <1>16, <1>17, <1>18, <1>19, <1>20 DEF Sound, h

LEMMA GoodMoraleSound ==
  ASSUME NEW s, Sound(s), s.log.due[s.b.active] <= 0,
         NEW h \in GoodMorale(s)
  PROVE  Sound(h) /\ \A C : Owed(s, C) => Owed(h, C)
<1>1. CASE h = Bonus(s)  BY <1>1, BonusSound
<1>2. CASE h = [b |-> [s.b EXCEPT !.bonus = FALSE], log |-> s.log]
  <2>1. s \in Situations /\ AtMostOne(s) /\ Used(s) /\ Shots(s)
    BY DEF Sound
  <2>2. s.b \in Battle /\ s.log \in Log  BY <2>1, Shape
  <2>3. h.b = [s.b EXCEPT !.bonus = FALSE] /\ h.log = s.log
        /\ h = [b |-> h.b, log |-> h.log]
    BY <1>2
  <2>4. FALSE \in BOOLEAN  OBVIOUS
  <2>5. h.b \in Battle  BY <2>2, <2>3, <2>4, SetBonus, Zenon
  <2>6. h \in Situations  BY <2>2, <2>3, <2>5 DEF Situations
  <2>7. h.b.took = s.b.took /\ h.b.dead = s.b.dead /\ h.b.toFire = s.b.toFire
    BY <2>2, <2>3 DEF Battle
  <2> QED
    BY <2>1, <2>3, <2>6, <2>7 DEF Sound, AtMostOne, Used, Shots, Owed, Turns
<1> QED  BY <1>1, <1>2 DEF GoodMorale

-----------------------------------------------------------------------------
(* The hero's spell.  It leaves an active stack that it does not kill fit   *)
(* for its turn: what holds or hypnotizes falls on the other side.          *)
Harmless(s, h) ==
  Mild(s, h) /\ (Fit(s) /\ h.b.active \notin h.b.dead => Fit(h))

LEMMA OnlyHeld ==
  ASSUME NEW s \in Situations, NEW H
  PROVE  [s EXCEPT !.b.held = H]
           = [s EXCEPT !.b.held = H, !.b.hypno = s.b.hypno]
<1>1. s = [b |-> s.b, log |-> s.log] /\ s.b \in Battle
  BY Shape DEF Situations
<1>2. [s.b EXCEPT !.held = H]
        = [s.b EXCEPT !.held = H, !.hypno = s.b.hypno]
  BY <1>1 DEF Battle
<1> QED  BY <1>1, <1>2

LEMMA OnlyHypno ==
  ASSUME NEW s \in Situations, NEW Y
  PROVE  [s EXCEPT !.b.hypno = Y]
           = [s EXCEPT !.b.held = s.b.held, !.b.hypno = Y]
<1>1. s = [b |-> s.b, log |-> s.log] /\ s.b \in Battle
  BY Shape DEF Situations
<1>2. [s.b EXCEPT !.hypno = Y]
        = [s.b EXCEPT !.held = s.b.held, !.hypno = Y]
  BY <1>1 DEF Battle
<1> QED  BY <1>1, <1>2

AsBefore(s, H, Y, h) ==
  /\ h.b.held = H /\ h.b.hypno = Y /\ h.b.dead = s.b.dead
  /\ h.b.took = s.b.took /\ h.b.active = s.b.active
  /\ h.b.control = s.b.control

LEMMA FreedFields ==
  ASSUME NEW s \in Situations, NEW H, NEW Y
  PROVE  AsBefore(s, H, Y, [s EXCEPT !.b.held = H, !.b.hypno = Y])
<1> DEFINE h == [s EXCEPT !.b.held = H, !.b.hypno = Y]
<1>1. s = [b |-> s.b, log |-> s.log] /\ s.b \in Battle
  BY Shape DEF Situations
<1>2. h = [s EXCEPT !.b.held = H, !.b.hypno = Y]  OBVIOUS
<1> HIDE DEF h
<1>3. h.b = [s.b EXCEPT !.held = H, !.hypno = Y]  BY <1>1, <1>2
<1>4. AsBefore(s, H, Y, h)  BY <1>1, <1>3 DEF Battle, AsBefore
<1> QED  BY <1>4 DEF h

(* Hold, Hypnotize, Berserker and Dispel: who is held and hypnotized.       *)
LEMMA FreedHarmless ==
  ASSUME NEW s, Sound(s), NEW H \in SUBSET Slots, NEW Y \in SUBSET Slots,
         \A t \in (H \ s.b.held) \cup (Y \ s.b.hypno) : t[1] # s.b.control
  PROVE  Harmless(s, [s EXCEPT !.b.held = H, !.b.hypno = Y])
<1> DEFINE h == [s EXCEPT !.b.held = H, !.b.hypno = Y]
<1>1. s \in Situations  BY DEF Sound
<1>2. Mild(s, h)  BY FreedMild
<1>3. AsBefore(s, H, Y, h)  BY <1>1, FreedFields
<1> HIDE DEF h
<1>4. Fit(s) => Fit(h)  BY <1>3 DEF Fit, AsBefore
<1> QED  BY <1>2, <1>4 DEF Harmless, h

LEMMA RaisedHarmless ==
  ASSUME NEW s, Sound(s), NEW t \in Slots
  PROVE  Harmless(s, [s EXCEPT !.b.dead = @ \ {t},
                               !.log.risen = @ \cup {t}])
<1> DEFINE h == [s EXCEPT !.b.dead = @ \ {t}, !.log.risen = @ \cup {t}]
<1>1. s \in Situations /\ AtMostOne(s) /\ Used(s) /\ Shots(s)  BY DEF Sound
<1>2. s.b \in Battle /\ s.log \in Log  BY <1>1, Shape
<1>3. s = [b |-> s.b, log |-> s.log]  BY <1>1 DEF Situations
<1>4. h = [s EXCEPT !.b.dead = @ \ {t}, !.log.risen = @ \cup {t}]
  OBVIOUS
<1> HIDE DEF h
<1>5. /\ h.b = [s.b EXCEPT !.dead = @ \ {t}]
      /\ h.log = [s.log EXCEPT !.risen = @ \cup {t}]
      /\ h = [b |-> h.b, log |-> h.log]
  BY <1>3, <1>4
<1>6. h.b \in Battle  BY <1>2, <1>5 DEF Battle
<1>7. h.log \in Log  BY <1>2, <1>5 DEF Log
<1>8. h \in Situations  BY <1>5, <1>6, <1>7 DEF Situations
<1>9. /\ h.b.took = s.b.took /\ h.b.dead = s.b.dead \ {t}
      /\ h.b.held = s.b.held /\ h.b.hypno = s.b.hypno
      /\ h.b.toFire = s.b.toFire /\ h.b.active = s.b.active
      /\ h.b.control = s.b.control /\ h.b.left = s.b.left
      /\ h.b.bonus = s.b.bonus
  BY <1>2, <1>5 DEF Battle
<1>10. /\ h.log.due = s.log.due /\ h.log.lost = s.log.lost
      /\ h.log.risen = s.log.risen \cup {t}
      /\ h.log.volleys = s.log.volleys
  BY <1>2, <1>5 DEF Log
<1>11. AtMostOne(h) /\ Used(h) /\ Shots(h)
  BY <1>1, <1>9, <1>10 DEF AtMostOne, Used, Shots
<1>12. Mild(s, h)  BY <1>8, <1>9, <1>10, <1>11 DEF Mild, Sound
<1>13. Fit(s) => Fit(h)  BY <1>9 DEF Fit
<1> QED  BY <1>12, <1>13 DEF Harmless, h

LEMMA DamageHarmless ==
  ASSUME NEW s, Sound(s), NEW T \in SUBSET Slots, NEW K \in SUBSET Slots
  PROVE  Harmless(s, Hit(s, T, K))
<1> DEFINE h == Hit(s, T, K)
<1>1. Shaken(s, T, K, h)  BY HitMild
<1> HIDE DEF h
<1>2. h.b.active = s.b.active /\ h.b.control = s.b.control
  BY <1>1 DEF Shaken, Mild
<1>3. Fit(s) /\ h.b.active \notin h.b.dead => Fit(h)
  BY <1>1, <1>2 DEF Shaken, Fit
<1> QED  BY <1>1, <1>3 DEF Shaken, Harmless, h

LEMMA SpellsHarmless ==
  ASSUME NEW s, Sound(s), NEW h \in Spells(s)
  PROVE  Harmless(s, h)
<1> DEFINE foes == Alive(s, Enemy(s.b.control))
           living == Slots \ s.b.dead
<1>1. s \in Situations /\ s.b.held \subseteq Slots
      /\ s.b.hypno \subseteq Slots /\ s.b.dead \subseteq Slots
      /\ s.b.control \in Sides
  BY Shape DEF Sound
<1>2. \A t \in foes : t \in Slots /\ t[1] # s.b.control
  BY <1>1 DEF Alive, Enemy, Sides
<1>3. CASE h = s  BY <1>3, MildRefl DEF Harmless
<1>4. CASE \E t \in foes : h = [s EXCEPT !.b.held = @ \cup {t}]
  <2>1. PICK t \in foes : h = [s EXCEPT !.b.held = @ \cup {t}]  BY <1>4
  <2>2. h = [s EXCEPT !.b.held = s.b.held \cup {t},
                      !.b.hypno = s.b.hypno]
    BY <1>1, <2>1, OnlyHeld
  <2>3. s.b.held \cup {t} \in SUBSET Slots /\ s.b.hypno \in SUBSET Slots
    BY <1>1, <1>2
  <2>4. \A u \in ((s.b.held \cup {t}) \ s.b.held)
                   \cup (s.b.hypno \ s.b.hypno) : u[1] # s.b.control
    BY <1>2
  <2> QED  BY <2>2, <2>3, <2>4, FreedHarmless
<1>5. CASE \E t \in foes : h = [s EXCEPT !.b.hypno = @ \cup {t}]
  <2>1. PICK t \in foes : h = [s EXCEPT !.b.hypno = @ \cup {t}]  BY <1>5
  <2>2. h = [s EXCEPT !.b.held = s.b.held,
                      !.b.hypno = s.b.hypno \cup {t}]
    BY <1>1, <2>1, OnlyHypno
  <2>3. s.b.held \in SUBSET Slots /\ s.b.hypno \cup {t} \in SUBSET Slots
    BY <1>1, <1>2
  <2>4. \A u \in (s.b.held \ s.b.held)
                   \cup ((s.b.hypno \cup {t}) \ s.b.hypno) :
          u[1] # s.b.control
    BY <1>2
  <2> QED  BY <2>2, <2>3, <2>4, FreedHarmless
<1>9. CASE \E t \in foes : h = [s EXCEPT !.b.hypno = @ \ {t}]
  <2>1. PICK t \in foes : h = [s EXCEPT !.b.hypno = @ \ {t}]  BY <1>9
  <2>2. h = [s EXCEPT !.b.held = s.b.held,
                      !.b.hypno = s.b.hypno \ {t}]
    BY <1>1, <2>1, OnlyHypno
  <2>3. s.b.held \in SUBSET Slots /\ s.b.hypno \ {t} \in SUBSET Slots
    BY <1>1
  <2>4. \A u \in (s.b.held \ s.b.held)
                   \cup ((s.b.hypno \ {t}) \ s.b.hypno) :
          u[1] # s.b.control
    OBVIOUS
  <2> QED  BY <2>2, <2>3, <2>4, FreedHarmless
<1>6. CASE \E t \in s.b.dead : h = [s EXCEPT !.b.dead = @ \ {t},
                                             !.log.risen = @ \cup {t}]
  <2>1. PICK t \in s.b.dead : h = [s EXCEPT !.b.dead = @ \ {t},
                                           !.log.risen = @ \cup {t}]
    BY <1>6
  <2>2. t \in Slots  BY <1>1, <2>1
  <2> QED  BY <2>1, <2>2, RaisedHarmless
<1>7. CASE \E t \in living : h = [s EXCEPT !.b.held = @ \ {t},
                                           !.b.hypno = @ \ {t}]
  <2>1. PICK t \in living : h = [s EXCEPT !.b.held = s.b.held \ {t},
                                          !.b.hypno = s.b.hypno \ {t}]
    BY <1>7
  <2>2. s.b.held \ {t} \in SUBSET Slots /\ s.b.hypno \ {t} \in SUBSET Slots
    BY <1>1
  <2>3. \A u \in ((s.b.held \ {t}) \ s.b.held)
                   \cup ((s.b.hypno \ {t}) \ s.b.hypno) : u[1] # s.b.control
    OBVIOUS
  <2> QED  BY <2>1, <2>2, <2>3, FreedHarmless
<1>8. CASE \E p \in (SUBSET living) \X (SUBSET living) :
             h = Hit(s, p[1], p[2])
  <2>1. PICK p \in (SUBSET living) \X (SUBSET living) :
          h = Hit(s, p[1], p[2])
    BY <1>8
  <2>2. p[1] \in SUBSET Slots /\ p[2] \in SUBSET Slots  BY <2>1
  <2> QED  BY <2>1, <2>2, DamageHarmless
<1> QED  BY <1>3, <1>4, <1>5, <1>6, <1>7, <1>8, <1>9 DEF Spells

-----------------------------------------------------------------------------
(* Marks that no property looks at: who has cast, who waits.                *)
Marked(s, h) ==
  /\ Sound(h) /\ h.log = s.log
  /\ h.b.took = s.b.took /\ h.b.dead = s.b.dead
  /\ h.b.held = s.b.held /\ h.b.hypno = s.b.hypno
  /\ h.b.active = s.b.active /\ h.b.control = s.b.control
  /\ h.b.bonus = s.b.bonus

LEMMA CastMarks ==
  ASSUME NEW s, Sound(s), NEW x \in Sides
  PROVE  Marked(s, [s EXCEPT !.b.cast = @ \cup {x}])
<1> DEFINE h == [s EXCEPT !.b.cast = @ \cup {x}]
<1>1. s \in Situations /\ AtMostOne(s) /\ Used(s) /\ Shots(s)  BY DEF Sound
<1>2. s.b \in Battle /\ s.log \in Log  BY <1>1, Shape
<1>3. s = [b |-> s.b, log |-> s.log]  BY <1>1 DEF Situations
<1>4. h = [s EXCEPT !.b.cast = @ \cup {x}]  OBVIOUS
<1> HIDE DEF h
<1>5. /\ h.b = [s.b EXCEPT !.cast = @ \cup {x}]
      /\ h.log = s.log /\ h = [b |-> h.b, log |-> h.log]
  BY <1>3, <1>4
<1>6. h.b \in Battle  BY <1>2, <1>5 DEF Battle
<1>7. /\ h.b.took = s.b.took /\ h.b.dead = s.b.dead
      /\ h.b.held = s.b.held /\ h.b.hypno = s.b.hypno
      /\ h.b.active = s.b.active /\ h.b.control = s.b.control
      /\ h.b.toFire = s.b.toFire /\ h.b.bonus = s.b.bonus
  BY <1>2, <1>5 DEF Battle
<1>8. h \in Situations  BY <1>2, <1>5, <1>6 DEF Situations
<1>9. Sound(h)
  BY <1>1, <1>5, <1>7, <1>8 DEF Sound, AtMostOne, Used, Shots
<1> QED  BY <1>5, <1>7, <1>9 DEF Marked, h

LEMMA WaitMarks ==
  ASSUME NEW s, Sound(s), NEW x \in Slots
  PROVE  Marked(s, [s EXCEPT !.b.waited = @ \cup {x}])
<1> DEFINE h == [s EXCEPT !.b.waited = @ \cup {x}]
<1>1. s \in Situations /\ AtMostOne(s) /\ Used(s) /\ Shots(s)  BY DEF Sound
<1>2. s.b \in Battle /\ s.log \in Log  BY <1>1, Shape
<1>3. s = [b |-> s.b, log |-> s.log]  BY <1>1 DEF Situations
<1>4. h = [s EXCEPT !.b.waited = @ \cup {x}]  OBVIOUS
<1> HIDE DEF h
<1>5. /\ h.b = [s.b EXCEPT !.waited = @ \cup {x}]
      /\ h.log = s.log /\ h = [b |-> h.b, log |-> h.log]
  BY <1>3, <1>4
<1>6. h.b \in Battle  BY <1>2, <1>5 DEF Battle
<1>7. /\ h.b.took = s.b.took /\ h.b.dead = s.b.dead
      /\ h.b.held = s.b.held /\ h.b.hypno = s.b.hypno
      /\ h.b.active = s.b.active /\ h.b.control = s.b.control
      /\ h.b.toFire = s.b.toFire /\ h.b.bonus = s.b.bonus
  BY <1>2, <1>5 DEF Battle
<1>8. h \in Situations  BY <1>2, <1>5, <1>6 DEF Situations
<1>9. Sound(h)
  BY <1>1, <1>5, <1>7, <1>8 DEF Sound, AtMostOne, Used, Shots
<1> QED  BY <1>5, <1>7, <1>9 DEF Marked, h

LEMMA LeftMarks ==
  ASSUME NEW s, Sound(s), NEW x \in Sides
  PROVE  /\ Marked(s, [s EXCEPT !.b.left = @ \cup {x}])
         /\ x \in [s EXCEPT !.b.left = @ \cup {x}].b.left
<1> DEFINE h == [s EXCEPT !.b.left = @ \cup {x}]
<1>1. s \in Situations /\ AtMostOne(s) /\ Used(s) /\ Shots(s)  BY DEF Sound
<1>2. s.b \in Battle /\ s.log \in Log  BY <1>1, Shape
<1>3. s = [b |-> s.b, log |-> s.log]  BY <1>1 DEF Situations
<1>4. h = [s EXCEPT !.b.left = @ \cup {x}]  OBVIOUS
<1> HIDE DEF h
<1>5. /\ h.b = [s.b EXCEPT !.left = @ \cup {x}]
      /\ h.log = s.log /\ h = [b |-> h.b, log |-> h.log]
  BY <1>3, <1>4
<1>6. h.b \in Battle  BY <1>2, <1>5 DEF Battle
<1>7. /\ h.b.took = s.b.took /\ h.b.dead = s.b.dead
      /\ h.b.held = s.b.held /\ h.b.hypno = s.b.hypno
      /\ h.b.active = s.b.active /\ h.b.control = s.b.control
      /\ h.b.toFire = s.b.toFire /\ h.b.bonus = s.b.bonus
  BY <1>2, <1>5 DEF Battle
<1>8. h \in Situations  BY <1>2, <1>5, <1>6 DEF Situations
<1>9. Sound(h)
  BY <1>1, <1>5, <1>7, <1>8 DEF Sound, AtMostOne, Used, Shots
<1>10. x \in h.b.left  BY <1>2, <1>5 DEF Battle
<1> QED  BY <1>5, <1>7, <1>9, <1>10 DEF Marked, h

LEMMA MarkedPlayable ==
  ASSUME NEW s, NEW h, Marked(s, h)
  PROVE  /\ \A C : Owed(s, C) => Owed(h, C)
         /\ \A C : Due(s, C) => Due(h, C)
         /\ \A C : Playable(s, C) => Playable(h, C)
         /\ Fit(s) => Fit(h)
BY DEF Marked, Playable, Owed, Due, Fit, Turns

-----------------------------------------------------------------------------
(* The inductive invariant.  DoVictory has run only if Main has returned 2, *)
(* or if a wall of fire has decided the battle, which then stays decided    *)
(* until Main looks.                                                        *)
Crown ==
  /\ beat \in {0, 1} /\ blaze \in BOOLEAN /\ ended \in BOOLEAN
  /\ ~ended => victories = IF blaze THEN 1 ELSE 0
  /\ ended => victories \in 1..(IF blaze THEN 2 ELSE 1)
  /\ blaze /\ ~ended => Decided(Situation)

IInv ==
  /\ FlagsType /\ LastFair /\ Crown
  /\ Sound(Situation)
  /\ \E C : /\ Credit(C) /\ Owed(Situation, C)
            /\ ~ended /\ ~Decided(Situation) => Playable(Situation, C)

LEMMA SituationFields ==
  /\ Situation.b = b /\ Situation.log = log
  /\ Situation'.b = b' /\ Situation'.log = log'
  /\ \A s \in Situations : b' = s.b /\ log' = s.log => Situation' = s
BY DEF Situation, Situations

-----------------------------------------------------------------------------
(* The two ends of an action: the battle is won, or it goes on.             *)
LEMMA WonIInv ==
  ASSUME NEW s, Sound(s), NEW C, Credit(C), Owed(s, C), FlagsType, LastFair,
         Win(s), ended' = TRUE,
         victories + 1 \in 1..(IF blaze' THEN 2 ELSE 1),
         beat' \in {0, 1}, blaze' \in BOOLEAN
  PROVE  IInv'
<1>1. /\ b' = s.b /\ log' = s.log /\ victories' = victories + 1
      /\ UNCHANGED <<last, round, stale>>
  BY DEF Win
<1>2. Situation' = s  BY <1>1, SituationFields DEF Sound
<1>3. FlagsType' /\ LastFair'  BY <1>1 DEF FlagsType, LastFair
<1>4. Sound(Situation)' /\ Credit(C)' /\ Owed(Situation', C)
  BY <1>1, <1>2 DEF Credit
<1>5. Crown'  BY <1>1 DEF Crown
<1> QED  BY <1>3, <1>4, <1>5 DEF IInv

LEMMA FinishIInv ==
  ASSUME NEW s, NEW passes \in BOOLEAN, Sound(s),
         NEW C, Credit(C), Owed(s, C),
         ~passes /\ ~Decided(s) => Playable(s, C),
         FlagsType, LastFair, Finish(s, passes),
         ended = FALSE, victories = 0, blaze' = FALSE, beat' \in {0, 1}
  PROVE  IInv'
<1>1. CASE Decided(s) /\ Win(s) /\ ended' = TRUE
  <2>1. victories + 1 \in 1..(IF blaze' THEN 2 ELSE 1)  OBVIOUS
  <2>2. blaze' \in BOOLEAN  OBVIOUS
  <2> QED  BY <1>1, <2>1, <2>2, WonIInv
<1>2. CASE ~Decided(s) /\ UNCHANGED <<victories, ended>>
            /\ passes /\ PassTurn(s)
  <2>1. /\ Sound(Situation') /\ LastFair' /\ FlagsType'
        /\ \E D : Credit(D)' /\ Playable(Situation', D)
    BY <1>2, PassTurnSound
  <2>2. Crown'  BY <1>2 DEF Crown
  <2> QED  BY <2>1, <2>2 DEF IInv, Playable
<1>3. CASE ~Decided(s) /\ UNCHANGED <<victories, ended>> /\ ~passes
            /\ b' = s.b /\ log' = s.log /\ UNCHANGED <<last, round, stale>>
  <2>1. Situation' = s  BY <1>3, SituationFields DEF Sound
  <2>2. FlagsType' /\ LastFair'  BY <1>3 DEF FlagsType, LastFair
  <2>3. Crown'  BY <1>3 DEF Crown
  <2>4. Sound(Situation)' /\ Credit(C)'  BY <1>3, <2>1 DEF Credit
  <2>5. Playable(Situation', C) /\ Owed(Situation', C)  BY <1>3, <2>1
  <2> QED  BY <2>2, <2>3, <2>4, <2>5 DEF IInv
<1> QED  BY <1>1, <1>2, <1>3 DEF Finish

LEMMA OnTurnFacts ==
  ASSUME IInv, OnTurn
  PROVE  /\ ended = FALSE /\ blaze = FALSE /\ victories = 0
         /\ beat \in {0, 1} /\ FlagsType /\ LastFair
         /\ Sound(Situation)
         /\ \E C : Credit(C) /\ Owed(Situation, C) /\ Playable(Situation, C)
BY DEF IInv, OnTurn, Crown

LEMMA DecidedStays ==
  ASSUME NEW s, NEW h, Decided(s), h.b.left = s.b.left,
         s.b.dead \subseteq h.b.dead
  PROVE  Decided(h)
BY DEF Decided, Alive

(* A volley does not touch the stack that the castle's side is to move.     *)
LEMMA VolleysPlayable ==
  ASSUME NEW s, Sound(s), s.b.toFire, s.b.control = 1,
         NEW h \in Volleys(s), NEW C, Playable(s, C)
  PROVE  Playable(h, C)
<1>1. /\ Mild(s, h) /\ h.b.held \subseteq s.b.held
      /\ h.b.hypno = s.b.hypno
      /\ \A t \in h.b.dead \ s.b.dead : t[1] = 0
      /\ \A t \in h.b.took \ s.b.took : t[1] = 0
  BY VolleysMild
<1>2. Owed(h, C)  BY <1>1, MildOwed DEF Playable
<1>3. Due(h, C)  BY <1>1 DEF Playable, Due, Turns, Mild
<1>4. C = {} => Fit(h)  BY <1>1 DEF Playable, Fit, Mild
<1> QED  BY <1>2, <1>3, <1>4 DEF Playable

LEMMA CastleFiresStep ==
  ASSUME IInv, CastleFires
  PROVE  IInv'
<1> DEFINE s == Situation
<1>1. Sound(s) /\ FlagsType /\ LastFair /\ Crown  BY DEF IInv
<1>0. PICK C : /\ Credit(C) /\ Owed(s, C)
               /\ ~ended /\ ~Decided(s) => Playable(s, C)
  BY DEF IInv
<1>2. /\ ended = FALSE /\ s.b.toFire /\ s.b.control = 1
      /\ UNCHANGED <<beat, blaze>>
  BY DEF CastleFires, MustFire, Crown, IInv
<1>3. PICK h \in Volleys(s) :
        IF Decided(h) THEN Win(h) /\ ended' = TRUE
        ELSE /\ b' = h.b /\ log' = h.log
             /\ UNCHANGED <<last, round, stale, victories, ended>>
  BY DEF CastleFires
<1>4. Mild(s, h) /\ s.b.dead \subseteq h.b.dead  BY <1>1, <1>2, VolleysMild
<1>5. Sound(h) /\ h.b.left = s.b.left  BY <1>4 DEF Mild
<1>6. Owed(h, C)  BY <1>4, <1>0, MildOwed
<1> HIDE DEF s
<1>7. CASE Decided(h)
  <2>1. victories + 1 \in 1..(IF blaze' THEN 2 ELSE 1)
    BY <1>1, <1>2 DEF Crown
  <2>2. beat' \in {0, 1} /\ blaze' \in BOOLEAN  BY <1>1, <1>2 DEF Crown
  <2>3. Win(h) /\ ended' = TRUE  BY <1>3, <1>7
  <2> QED  BY <1>1, <1>5, <1>6, <1>0, <2>1, <2>2, <2>3, WonIInv
<1>8. CASE ~Decided(h)
  <2>1. ~Decided(s)  BY <1>4, <1>5, <1>8, DecidedStays
  <2>2. Playable(h, C)
    BY <1>1, <1>2, <1>0, <2>1, VolleysPlayable
  <2>3. /\ b' = h.b /\ log' = h.log
        /\ UNCHANGED <<last, round, stale, victories, ended>>
    BY <1>3, <1>8
  <2>4. Situation' = h  BY <1>5, <2>3, SituationFields DEF Sound
  <2>5. FlagsType' /\ LastFair'  BY <1>1, <2>3 DEF FlagsType, LastFair
  <2>6. blaze = FALSE /\ victories = 0
    BY <1>1, <1>2, <2>1 DEF Crown, s
  <2>7. Crown'  BY <1>1, <1>2, <2>3, <2>6 DEF Crown
  <2>8. Sound(Situation)' /\ Credit(C)' /\ Playable(Situation', C)
    BY <1>5, <1>0, <2>2, <2>3, <2>4 DEF Credit
  <2> QED  BY <2>5, <2>7, <2>8 DEF IInv, Playable
<1> QED  BY <1>7, <1>8

LEMMA MainCheckWinStep ==
  ASSUME IInv, MainCheckWin
  PROVE  IInv'
<1>1. /\ Sound(Situation) /\ FlagsType /\ LastFair /\ Crown
  BY DEF IInv
<1>0. PICK C : Credit(C) /\ Owed(Situation, C)  BY DEF IInv
<1>2. /\ ~ended /\ Win(Situation) /\ ended' = TRUE
      /\ UNCHANGED <<beat, blaze>>
  BY DEF MainCheckWin
<1>3. victories + 1 \in 1..(IF blaze' THEN 2 ELSE 1)
  BY <1>1, <1>2 DEF Crown
<1>4. beat' \in {0, 1} /\ blaze' \in BOOLEAN  BY <1>1, <1>2 DEF Crown
<1> QED  BY <1>1, <1>2, <1>3, <1>4, <1>0, WonIInv

LEMMA CastSpellStep ==
  ASSUME IInv, CastSpell
  PROVE  IInv'
<1>1. /\ ended = FALSE /\ blaze = FALSE /\ victories = 0
      /\ beat \in {0, 1} /\ FlagsType /\ LastFair
      /\ Sound(Situation)
  BY OnTurnFacts DEF CastSpell
<1>0. PICK C : Credit(C) /\ Owed(Situation, C) /\ Playable(Situation, C)
  BY OnTurnFacts DEF CastSpell
<1>2. b.control \in Sides
  BY <1>1, Shape, SituationFields DEF Sound
<1>3. UNCHANGED <<beat, blaze>>  BY DEF CastSpell
<1>4. PICK g \in Spells(Situation) :
        Finish([g EXCEPT !.b.cast = @ \cup {b.control}],
               [g EXCEPT !.b.cast = @ \cup {b.control}].b.active
                 \in [g EXCEPT !.b.cast = @ \cup {b.control}].b.dead)
  BY DEF CastSpell
<1> DEFINE h == [g EXCEPT !.b.cast = @ \cup {b.control}]
<1>5. Harmless(Situation, g)  BY <1>1, SpellsHarmless
<1>6. Sound(g)  BY <1>5 DEF Harmless, Mild
<1>7. Marked(g, h)  BY <1>2, <1>6, CastMarks
<1>8. Finish(h, h.b.active \in h.b.dead)  BY <1>4
<1> HIDE DEF h
<1> DEFINE passes == h.b.active \in h.b.dead
<1>9. Owed(g, C) /\ Due(g, C)
  BY <1>0, <1>5, MildOwed DEF Harmless, Mild, Playable, Due, Turns
<1>10. Owed(h, C)  BY <1>7, <1>9, MarkedPlayable
<1>11. ~passes => Playable(h, C)
  <2>1. SUFFICES ASSUME ~passes  PROVE Playable(h, C)  OBVIOUS
  <2>2. g.b.active \notin g.b.dead  BY <1>7, <2>1 DEF Marked
  <2>3. C = {} => Fit(g)  BY <1>0, <1>5, <2>2 DEF Harmless, Playable
  <2> QED  BY <1>7, <1>9, <2>1, <2>3, MarkedPlayable DEF Playable
<1>12. Sound(h) /\ passes \in BOOLEAN  BY <1>7 DEF Marked
<1>13. blaze' = FALSE /\ beat' \in {0, 1}  BY <1>1, <1>3
<1> QED  BY <1>0, <1>1, <1>8, <1>10, <1>11, <1>12, <1>13, FinishIInv

LEMMA AttackStep ==
  ASSUME IInv, Attack
  PROVE  IInv'
<1>1. /\ ended = FALSE /\ blaze = FALSE /\ victories = 0
      /\ beat \in {0, 1} /\ FlagsType /\ LastFair
      /\ Sound(Situation)
  BY OnTurnFacts DEF Attack
<1>0. PICK C : Credit(C) /\ Owed(Situation, C) /\ Playable(Situation, C)
  BY OnTurnFacts DEF Attack
<1>2. blaze' = FALSE /\ beat' \in {0, 1}  BY <1>1 DEF Attack
<1>3. PICK w \in Burnt(Situation) : \E f \in Fought(w) :
        IF Decided(f) THEN Win(Acted(f)) /\ ended' = TRUE
        ELSE \E h \in GoodMorale(Acted(f)) : Finish(h, TRUE)
  BY DEF Attack
<1>4. PICK f \in Fought(w) :
        IF Decided(f) THEN Win(Acted(f)) /\ ended' = TRUE
        ELSE \E h \in GoodMorale(Acted(f)) : Finish(h, TRUE)
  BY <1>3
<1>5. Mild(Situation, w)  BY <1>1, BurntMild
<1>6. Mild(w, f)  BY <1>5, FoughtMild DEF Mild
<1>7. Mild(Situation, f)  BY <1>5, <1>6, MildTrans
<1>8. Sound(f) /\ Owed(f, C) /\ Due(f, C)
  BY <1>0, <1>7, MildOwed DEF Mild, Playable, Due, Turns
<1>9. /\ Sound(Acted(f))
      /\ Acted(f).log.due[Acted(f).b.active] <= 0
      /\ Owed(Acted(f), C)
  BY <1>8, ActedSound
<1>10. CASE Decided(f)
  <2>1. victories + 1 \in 1..(IF blaze' THEN 2 ELSE 1)  BY <1>1, <1>2
  <2>2. blaze' \in BOOLEAN  BY <1>2
  <2> QED  BY <1>0, <1>1, <1>2, <1>4, <1>9, <1>10, <2>1, <2>2, WonIInv
<1>11. CASE ~Decided(f)
  <2>1. PICK h \in GoodMorale(Acted(f)) : Finish(h, TRUE)
    BY <1>4, <1>11
  <2>2. Sound(h) /\ Owed(h, C)  BY <1>9, GoodMoraleSound
  <2> QED  BY <1>0, <1>1, <1>2, <2>1, <2>2, FinishIInv
<1> QED  BY <1>10, <1>11

LEMMA SkipStep ==
  ASSUME IInv, Skip
  PROVE  IInv'
<1>1. /\ ended = FALSE /\ blaze = FALSE /\ victories = 0
      /\ beat \in {0, 1} /\ FlagsType /\ LastFair
      /\ Sound(Situation)
  BY OnTurnFacts DEF Skip
<1>0. PICK C : Credit(C) /\ Owed(Situation, C) /\ Playable(Situation, C)
  BY OnTurnFacts DEF Skip
<1>2. beat' \in {0, 1}  BY <1>1 DEF Skip
<1>3. PICK w \in Burnt(Situation) :
        /\ blaze' = Decided(w)
        /\ IF Decided(w) THEN Win(w) /\ UNCHANGED ended
           ELSE Finish(Acted(w), TRUE)
  BY DEF Skip
<1>4. Mild(Situation, w)  BY <1>1, BurntMild
<1>5. Sound(w) /\ Owed(w, C) /\ Due(w, C)
  BY <1>0, <1>4, MildOwed DEF Mild, Playable, Due, Turns
<1>6. CASE Decided(w)
  <2>1. /\ b' = w.b /\ log' = w.log /\ victories' = victories + 1
        /\ UNCHANGED <<last, round, stale, ended>>
    BY <1>3, <1>6 DEF Win
  <2>2. blaze' = TRUE  BY <1>3, <1>6, Zenon DEF Decided
  <2>3. Situation' = w  BY <1>5, <2>1, SituationFields DEF Sound
  <2>4. FlagsType' /\ LastFair'  BY <1>1, <2>1 DEF FlagsType, LastFair
  <2>5. Decided(Situation)'  BY <1>6, <2>3
  <2>6. Crown'
    <3>1. victories' = 1 /\ ended' = FALSE  BY <1>1, <2>1
    <3> QED  BY <1>2, <2>2, <2>5, <3>1 DEF Crown
  <2>7. Sound(Situation)' /\ Credit(C)' /\ Owed(Situation', C)
    BY <1>0, <1>5, <2>1, <2>3 DEF Credit
  <2> QED  BY <2>4, <2>5, <2>6, <2>7 DEF IInv
<1>7. CASE ~Decided(w)
  <2>1. blaze' = FALSE  BY <1>3, <1>7, Zenon DEF Decided
  <2>2. Sound(Acted(w)) /\ Owed(Acted(w), C)
    BY <1>5, ActedSound
  <2>3. Finish(Acted(w), TRUE)  BY <1>3, <1>7
  <2> QED  BY <1>0, <1>1, <1>2, <2>1, <2>2, <2>3, FinishIInv
<1> QED  BY <1>6, <1>7

LEMMA WaitStep ==
  ASSUME IInv, Wait
  PROVE  IInv'
<1>1. /\ ended = FALSE /\ blaze = FALSE /\ victories = 0
      /\ beat \in {0, 1} /\ FlagsType /\ LastFair
      /\ Sound(Situation)
  BY OnTurnFacts DEF Wait
<1>0. PICK C : Credit(C) /\ Owed(Situation, C) /\ Playable(Situation, C)
  BY OnTurnFacts DEF Wait
<1> DEFINE h == [Situation EXCEPT !.b.waited = @ \cup {b.active}]
<1>2. blaze' = FALSE /\ beat' \in {0, 1} /\ Finish(h, TRUE)
  BY <1>1 DEF Wait
<1>3. b.active \in Slots  BY <1>1, Shape, SituationFields DEF Sound
<1>4. Marked(Situation, h)  BY <1>1, <1>3, WaitMarks
<1> HIDE DEF h
<1>5. Sound(h) /\ Owed(h, C)
  BY <1>0, <1>4, MarkedPlayable DEF Marked
<1> QED  BY <1>0, <1>1, <1>2, <1>5, FinishIInv

LEMMA GiveUpStep ==
  ASSUME IInv, GiveUp
  PROVE  IInv'
<1>1. /\ ended = FALSE /\ blaze = FALSE /\ victories = 0
      /\ beat \in {0, 1} /\ FlagsType /\ LastFair
      /\ Sound(Situation)
  BY OnTurnFacts DEF GiveUp
<1>0. PICK C : Credit(C) /\ Owed(Situation, C) /\ Playable(Situation, C)
  BY OnTurnFacts DEF GiveUp
<1> DEFINE h == [Situation EXCEPT !.b.left = @ \cup {b.control}]
<1>2. blaze' = FALSE /\ beat' \in {0, 1} /\ Finish(h, FALSE)
  BY <1>1 DEF GiveUp
<1>3. b.control \in Sides  BY <1>1, Shape, SituationFields DEF Sound
<1>4. Marked(Situation, h) /\ b.control \in h.b.left
  BY <1>1, <1>3, LeftMarks
<1> HIDE DEF h
<1>5. Sound(h) /\ Owed(h, C)
  BY <1>0, <1>4, MarkedPlayable DEF Marked
<1>6. Decided(h)  BY <1>4 DEF Decided
<1> QED  BY <1>0, <1>1, <1>2, <1>5, <1>6, FinishIInv

LEMMA StutterStep ==
  ASSUME IInv, UNCHANGED vars
  PROVE  IInv'
<1>1. Situation' = Situation  BY DEF vars, Situation
<1>2. FlagsType' /\ LastFair'
  BY DEF vars, IInv, FlagsType, LastFair
<1>3. (blaze /\ ~ended => Decided(Situation))'
  BY <1>1 DEF vars, IInv, Crown
<1>4. Crown'  BY <1>3 DEF vars, IInv, Crown
<1>5. Sound(Situation)'  BY <1>1 DEF IInv
<1>6. PICK C : /\ Credit(C) /\ Owed(Situation, C)
               /\ ~ended /\ ~Decided(Situation) => Playable(Situation, C)
  BY DEF IInv
<1>7. /\ Credit(C)' /\ Owed(Situation', C)
      /\ (~ended /\ ~Decided(Situation))' => Playable(Situation', C)
  BY <1>1, <1>6 DEF vars, Credit
<1> QED  BY <1>2, <1>4, <1>5, <1>7 DEF IInv

LEMMA NextIInv == IInv /\ [Next]_vars => IInv'
<1> SUFFICES ASSUME IInv, [Next]_vars
             PROVE  IInv'
  OBVIOUS
<1>1. CASE CastleFires  BY <1>1, CastleFiresStep
<1>2. CASE MainCheckWin  BY <1>2, MainCheckWinStep
<1>3. CASE CastSpell  BY <1>3, CastSpellStep
<1>4. CASE Attack  BY <1>4, AttackStep
<1>5. CASE Skip  BY <1>5, SkipStep
<1>6. CASE Wait  BY <1>6, WaitStep
<1>7. CASE GiveUp  BY <1>7, GiveUpStep
<1>8. CASE Over  BY <1>8, StutterStep DEF Over
<1>9. CASE UNCHANGED vars  BY <1>9, StutterStep
<1> QED
  BY <1>1, <1>2, <1>3, <1>4, <1>5, <1>6, <1>7, <1>8, <1>9 DEF Next

(* Before the first turn everybody is owed one, and the castle its volley.  *)
LEMMA StartSound ==
  ASSUME NEW heroes \in Heroes
  PROVE  Sound(Start(heroes)) /\ Owed(Start(heroes), {})
<1> DEFINE a == CHOOSE t \in Slots : t[1] = 1
           s == Start(heroes)
<1>1. a \in Slots  BY SlotsFacts DEF Sides
<1> HIDE DEF a
<1>2. heroes \in SUBSET Sides  BY ForcesAssumption
<1>3. /\ s.b = [dead |-> {}, held |-> {}, hypno |-> {}, took |-> {},
                again |-> {}, waited |-> {}, active |-> a, control |-> 1,
                bonus |-> FALSE, heroes |-> heroes, cast |-> {},
                toFire |-> TRUE, left |-> {}]
      /\ s.log = NewLog /\ s = [b |-> s.b, log |-> s.log]
  BY DEF Start, a
<1> HIDE DEF s
<1>4. s.b \in Battle  BY <1>1, <1>2, <1>3 DEF Battle, Sides
<1>5. /\ NewLog \in Log /\ NewLog.due = [t \in Slots |-> 1]
      /\ NewLog.volleys = 0
  BY DEF NewLog, Log
<1>6. s \in Situations  BY <1>3, <1>4, <1>5 DEF Situations
<1>7. s.b.took = {} /\ s.b.toFire  BY <1>3
<1>8. AtMostOne(s) /\ Used(s) /\ Shots(s) /\ Owed(s, {})
  BY <1>3, <1>5, <1>7 DEF AtMostOne, Used, Shots, Owed, Turns
<1> QED  BY <1>6, <1>8 DEF Sound, s

LEMMA InitIInv == Init => IInv
<1> SUFFICES ASSUME Init  PROVE IInv
  OBVIOUS
<1>1. PICK heroes \in Heroes : \E h \in Picks(Start(heroes), {}) :
        b = h.b /\ log = h.log
  BY DEF Init
<1>2. PICK h \in Picks(Start(heroes), {}) : b = h.b /\ log = h.log
  BY <1>1
<1>3. Sound(h) /\ Fit(h) /\ Owed(h, {}) /\ Due(h, {})
  BY <1>1, <1>2, StartSound, PicksSound
<1>4. Situation = h  BY <1>2, <1>3 DEF Situation, Sound, Situations
<1>5. FlagsType /\ LastFair  BY DEF Init, FlagsType, LastFair
<1>6. Crown  BY DEF Init, Crown
<1>7. Credit({})  BY DEF Init, Credit
<1> QED  BY <1>3, <1>4, <1>5, <1>6, <1>7 DEF IInv, Playable

THEOREM Invariant == Spec => []IInv
<1> QED  BY InitIInv, NextIInv, PTL DEF Spec

-----------------------------------------------------------------------------
(* The flags of a stack, the active stack, the sides and the history keep   *)
(* their types through every action, volley and end of a round.             *)
THEOREM TypeCorrect == Spec => []TypeOK
<1>1. IInv => TypeOK
  <2> SUFFICES ASSUME IInv  PROVE TypeOK
    OBVIOUS
  <2>1. b \in Battle /\ log \in Log
    BY Shape, SituationFields DEF IInv, Sound
  <2>2. victories \in 0..2 /\ beat \in {0, 1} /\ blaze \in BOOLEAN
        /\ ended \in BOOLEAN
    BY DEF IInv, Crown
  <2> QED  BY <2>1, <2>2 DEF TypeOK, IInv, FlagsType
<1> QED  BY <1>1, Invariant, PTL

(* However stacks wait, panic, are hypnotized, raised or granted a bonus by *)
(* good morale, the flags that GetNextArmy reads never let one take more    *)
(* turns than it earned in a round that began with somebody to act; in any  *)
(* other round one stack takes at most one turn too many.                   *)
THEOREM NobodyActsTwice == Spec => []TurnsEarned
<1>1. IInv => TurnsEarned
  <2> SUFFICES ASSUME IInv, Extra # {}
               PROVE  stale /\ \E a \in Slots : Extra = {a} /\ log.due[a] = -1
    BY DEF TurnsEarned
  <2>1. PICK C : Credit(C) /\ Owed(Situation, C)  BY DEF IInv
  <2>2. log.due \in [Slots -> Int]
    BY Shape, SituationFields DEF IInv, Sound
  <2>3. \A t \in Slots : log.due[t] + (IF t \in C THEN 1 ELSE 0) >= 0
    BY <2>1, SituationFields DEF Owed, Turns
  <2>4. \A t \in Extra : t \in Slots /\ t \in C /\ log.due[t] = -1
    BY <2>2, <2>3 DEF Extra
  <2>5. stale /\ \E a \in Slots : C = {a}  BY <2>1, <2>4 DEF Credit
  <2> QED  BY <2>4, <2>5
<1> QED  BY <1>1, Invariant, PTL

(* When GetNextArmy reports the end of a round each living stack that is    *)
(* not held has had its turns, or a blow cost them, or it has just risen.   *)
THEOREM RoundsAreFair == Spec => []NobodyForgotten
<1>1. IInv => NobodyForgotten  BY DEF IInv, LastFair, NobodyForgotten
<1> QED  BY <1>1, Invariant, PTL

(* Main's check before an action and GetNextArmy's two at the end of the    *)
(* round make the castle shoot once in each round, never twice.             *)
THEOREM CastleShootsOnce == Spec => []GarrisonOnce
<1>1. IInv => GarrisonOnce  BY DEF IInv, LastFair, GarrisonOnce
<1> QED  BY <1>1, Invariant, PTL

(* No spell, volley or end of a round between the choice of a stack and its *)
(* action leaves its own side with one that is dead, held or done.          *)
THEOREM ActiveStaysFit == Spec => []ActiveIsFit
<1>1. IInv => ActiveIsFit
  <2> SUFFICES ASSUME IInv, OnTurn, ~stale, b.active[1] = b.control
               PROVE  b.active \notin b.dead \cup b.held \cup b.took
    BY DEF ActiveIsFit
  <2>1. Fit(Situation)  BY OnTurnFacts DEF Playable, Credit
  <2> QED  BY <2>1, SituationFields DEF Fit
<1> QED  BY <1>1, Invariant, PTL

(* What the descriptions of Blind, Paralyze and Petrify promise fails only  *)
(* in a round that began with nobody to give the turn to: in every other a  *)
(* held stack does not act for its own side.                                *)
THEOREM HeldActsOnlyStale ==
  Spec => [][beat' # beat /\ b.active[1] = b.control /\ b.active \in b.held
               => stale]_vars
<1> DEFINE A == beat' # beat /\ b.active[1] = b.control
                  /\ b.active \in b.held => stale
<1>1. IInv /\ [Next]_vars => [A]_vars
  <2> SUFFICES ASSUME IInv, Next, beat' # beat
               PROVE  A
    BY DEF vars
  <2>1. OnTurn
    <3>1. CASE Attack  BY <3>1 DEF Attack
    <3>2. CASE Skip  BY <3>2 DEF Skip
    <3>3. CASE CastleFires \/ MainCheckWin \/ CastSpell \/ Wait \/ GiveUp
      BY <3>3 DEF CastleFires, MainCheckWin, CastSpell, Wait, GiveUp
    <3>4. CASE Over  BY <3>4 DEF Over, vars
    <3> QED  BY <3>1, <3>2, <3>3, <3>4 DEF Next
  <2>2. PICK C : Credit(C) /\ Playable(Situation, C)  BY <2>1, OnTurnFacts
  <2>3. ~stale => Fit(Situation)  BY <2>2 DEF Playable, Credit
  <2> QED  BY <2>3, SituationFields DEF Fit
<1> QED  BY <1>1, Invariant, PTL DEF Spec

(* DoVictory runs once for a battle, and a second time only after a wall of *)
(* fire decided it while a turn was skipped.                                *)
THEOREM WonOnce == Spec => []VictoryOnce
<1>1. IInv => VictoryOnce
  <2> SUFFICES ASSUME IInv  PROVE VictoryOnce
    OBVIOUS
  <2>1. CASE ended  BY <2>1 DEF IInv, Crown, VictoryOnce
  <2>2. CASE ~ended  BY <2>2 DEF IInv, Crown, VictoryOnce
  <2> QED  BY <2>1, <2>2
<1> QED  BY <1>1, Invariant, PTL
-----------------------------------------------------------------------------
(* Why rounds end.  Nothing that happens between two turns gives a turn     *)
(* back: only a bonus of good morale does, and it is not given twice in     *)
(* succession.                                                              *)
Lower(s, h) ==
  /\ h.b.bonus = s.b.bonus
  /\ \A t \in Slots : h.log.due[t] <= s.log.due[t]

LEMMA LowerTrans ==
  ASSUME NEW s \in Situations, NEW h \in Situations, NEW g \in Situations,
         Lower(s, h), Lower(h, g)
  PROVE  Lower(s, g)
<1>1. \A t \in Slots : /\ s.log.due[t] \in Int /\ h.log.due[t] \in Int
                       /\ g.log.due[t] \in Int
  BY Shape
<1> QED  BY <1>1 DEF Lower

LEMMA SameLower ==
  ASSUME NEW s, NEW h, Sound(s), h.log.due = s.log.due,
         h.b.bonus = s.b.bonus
  PROVE  Lower(s, h)
<1>1. \A t \in Slots : s.log.due[t] \in Int  BY Shape DEF Sound
<1> QED  BY <1>1 DEF Lower

LEMMA MildLower ==
  ASSUME NEW s, NEW h, Sound(s), Mild(s, h)
  PROVE  Lower(s, h) /\ Sound(h)
BY SameLower DEF Mild

LEMMA MarkedLower ==
  ASSUME NEW s, NEW h, Sound(s), Marked(s, h)
  PROVE  Lower(s, h) /\ Sound(h)
BY SameLower DEF Marked

LEMMA FreezeLower ==
  ASSUME NEW s, Sound(s), NEW T \in SUBSET Slots
  PROVE  Lower(s, Freeze(s, T))
<1>1. s.b \in Battle /\ \A t \in Slots : s.log.due[t] \in Int
  BY Shape DEF Sound
<1> DEFINE f == Freeze(s, T)
<1>2. /\ f.b = [s.b EXCEPT !.took = @ \cup T]
      /\ f.log.due = [t \in Slots |-> IF t \in T THEN s.log.due[t] - 1
                                                 ELSE s.log.due[t]]
  BY FreezeSound
<1> HIDE DEF f
<1>3. f.b.bonus = s.b.bonus  BY <1>1, <1>2 DEF Battle
<1>4. \A t \in Slots : f.log.due[t] <= s.log.due[t]  BY <1>1, <1>2
<1> QED  BY <1>3, <1>4 DEF Lower, f

LEMMA PicksLower ==
  ASSUME NEW s, Sound(s), NEW M, NEW h \in Picks(s, M)
  PROVE  Lower(s, h)
<1>1. PICK t \in Ready(s) : h = Choose(s, t)  BY DEF Picks
<1> DEFINE f == Freeze(s, Ahead(s, t))
<1>2. Ahead(s, t) \in SUBSET Slots  BY DEF Ahead, Ready
<1>3. Lower(s, f) /\ Sound(f)  BY <1>2, FreezeLower, FreezeSound
<1>4. f = [b |-> f.b, log |-> f.log] /\ f.b \in Battle
  BY <1>3, Shape DEF Sound, Situations
<1>5. h = [f EXCEPT !.b.active = t,
             !.b.control = IF t \in s.b.hypno THEN Enemy(t[1]) ELSE t[1]]
  BY <1>1 DEF Choose
<1> HIDE DEF f
<1>6. /\ h.log = f.log
      /\ h.b = [f.b EXCEPT !.active = t,
                 !.control = IF t \in s.b.hypno THEN Enemy(t[1]) ELSE t[1]]
  BY <1>4, <1>5
<1>7. h.b.bonus = f.b.bonus  BY <1>4, <1>6 DEF Battle
<1> QED  BY <1>3, <1>6, <1>7 DEF Lower

LEMMA FoundLower ==
  ASSUME NEW s, Sound(s), NEW M, NEW h \in Found(s, M)
  PROVE  Lower(s, h)
<1>1. CASE h \in Picks(s, M)  BY <1>1, PicksLower
<1>2. CASE \E f \in AllFrozen(s, M) : h \in Picks(Recalled(f), {})
  <2>1. PICK f \in AllFrozen(s, M) : h \in Picks(Recalled(f), {})  BY <1>2
  <2>2. f = Freeze(s, Ready(s)) /\ Ready(s) \in SUBSET Slots
    BY <2>1 DEF AllFrozen, Ready
  <2>3. Sound(f) /\ Lower(s, f)  BY <2>2, FreezeLower, FreezeSound
  <2>4. Sound(Recalled(f)) /\ Lower(f, Recalled(f))
    BY <2>3, RecalledSound, MildLower
  <2>5. Lower(Recalled(f), h) /\ Sound(h)
    BY <2>1, <2>4, PicksLower, PicksSound
  <2>6. Lower(s, Recalled(f))
    BY <2>3, <2>4, LowerTrans DEF Sound
  <2> QED  BY <2>4, <2>5, <2>6, LowerTrans DEF Sound
<1> QED  BY <1>1, <1>2 DEF Found

(* The turn passes on within the round, or the action ends otherwise.       *)
LEMMA PassTurnLower ==
  ASSUME NEW s, Sound(s), PassTurn(s), FlagsType, round' = round
  PROVE  Lower(s, Situation')
<1>1. ~NextRound(s)  BY DEF NextRound, FlagsType
<1>2. PICK h \in Found(s, Panicky) : b' = h.b /\ log' = h.log
  BY <1>1 DEF PassTurn, SameRound
<1>3. Lower(s, h)  BY <1>2, FoundLower
<1> QED  BY <1>2, <1>3, SituationFields DEF Lower

LEMMA FinishLower ==
  ASSUME NEW s, NEW passes \in BOOLEAN, Sound(s), Finish(s, passes),
         FlagsType, round' = round
  PROVE  Lower(s, Situation')
<1>1. CASE PassTurn(s)  BY <1>1, PassTurnLower
<1>2. CASE b' = s.b /\ log' = s.log
  <2>1. Situation'.b = s.b /\ Situation'.log = s.log
    BY <1>2, SituationFields
  <2> QED  BY <2>1, SameLower
<1> QED  BY <1>1, <1>2 DEF Finish, Win

(* The active stack's turn is one less after its action, and a bonus of     *)
(* good morale gives it back only if the last one gave none.                *)
LEMMA ActedLower ==
  ASSUME NEW s, Sound(s)
  PROVE  /\ Sound(Acted(s)) /\ Lower(s, Acted(s))
         /\ Acted(s).b.active = s.b.active
         /\ Acted(s).log.due =
              [t \in Slots |-> IF t = s.b.active THEN s.log.due[t] - 1
                                                 ELSE s.log.due[t]]
<1> DEFINE a == s.b.active
<1>1. s.b \in Battle /\ a \in Slots  BY Shape DEF Sound
<1> DEFINE f == Freeze(s, {a})
<1>2. Acted(s) = f /\ {a} \in SUBSET Slots  BY <1>1 DEF Acted, Freeze
<1>3. /\ f.b = [s.b EXCEPT !.took = @ \cup {a}] /\ Sound(f)
      /\ f.log.due = [t \in Slots |-> IF t \in {a} THEN s.log.due[t] - 1
                                                   ELSE s.log.due[t]]
  BY <1>2, FreezeSound
<1>4. Lower(s, f)  BY <1>2, FreezeLower
<1> HIDE DEF f
<1>5. f.b.active = a  BY <1>1, <1>3 DEF Battle
<1>6. f.log.due = [t \in Slots |-> IF t = a THEN s.log.due[t] - 1
                                            ELSE s.log.due[t]]
  BY <1>3
<1> QED  BY <1>2, <1>3, <1>4, <1>5, <1>6

LEMMA GoodMoraleGives ==
  ASSUME NEW s, Sound(s), NEW h \in GoodMorale(s)
  PROVE  \/ ~h.b.bonus /\ h.log = s.log
         \/ /\ ~s.b.bonus /\ h.b.bonus
            /\ \A t \in Slots : h.log.due[t] =
                 IF t = s.b.active THEN s.log.due[t] + 1 ELSE s.log.due[t]
<1>1. s.b \in Battle /\ s.log \in Log /\ s.log.due \in [Slots -> Int]
  BY Shape DEF Sound
<1>2. CASE h = Bonus(s) /\ ~s.b.bonus
  <2> DEFINE due == [s.log.due EXCEPT ![s.b.active] = @ + 1]
             c == [s.b EXCEPT !.took = @ \ {s.b.active},
                              !.again = @ \cup {s.b.active}]
  <2>1. h.log = [s.log EXCEPT !.due = due]  BY <1>2 DEF Bonus
  <2>2. h.b = [s.b EXCEPT !.bonus = TRUE, !.took = @ \ {s.b.active},
                          !.again = @ \cup {s.b.active}]
    BY <1>2 DEF Bonus
  <2>3. \A t \in Slots : due[t] = IF t = s.b.active THEN s.log.due[t] + 1
                                                    ELSE s.log.due[t]
    BY <1>1
  <2> HIDE DEF due
  <2>4. h.log.due = due  BY <1>1, <2>1 DEF Log
  <2>5. h.b.bonus  BY <1>1, <2>2, Zenon DEF Battle
  <2> QED  BY <1>2, <2>3, <2>4, <2>5
<1>3. CASE h = [b |-> [s.b EXCEPT !.bonus = FALSE], log |-> s.log]
  <2>1. h.b = [s.b EXCEPT !.bonus = FALSE] /\ h.log = s.log  BY <1>3
  <2>2. ~h.b.bonus  BY <1>1, <2>1, Zenon DEF Battle
  <2> QED  BY <2>1, <2>2
<1> QED  BY <1>2, <1>3 DEF GoodMorale

(* A round gets shorter with every action of a stack: somebody has a turn   *)
(* less, or the bonus that nobody has twice in succession is gone.          *)
RunsOut ==
  round' = round =>
    /\ \A t \in Slots : log'.due[t] <= log.due[t]
    /\ beat' = beat => b'.bonus = b.bonus
    /\ beat' # beat =>
         \/ log'.due[b.active] < log.due[b.active]
         \/ ~b.bonus /\ b'.bonus
         \/ blaze'

LEMMA LowerRuns ==
  ASSUME Lower(Situation, Situation'), beat' = beat
  PROVE  RunsOut
BY SituationFields DEF Lower, RunsOut

(* The steps between two actions of stacks.                                 *)
LEMMA BetweenRuns ==
  ASSUME IInv, CastleFires \/ MainCheckWin \/ CastSpell \/ Wait \/ GiveUp
  PROVE  RunsOut
<1> SUFFICES ASSUME round' = round  PROVE RunsOut  BY DEF RunsOut
<1>0. Sound(Situation) /\ FlagsType  BY DEF IInv
<1>1. CASE CastleFires
  <2>1. PICK h \in Volleys(Situation) : b' = h.b /\ log' = h.log
    BY <1>1 DEF CastleFires, Win
  <2>2. Situation.b.toFire  BY <1>1 DEF CastleFires, MustFire
  <2>3. Lower(Situation, h)  BY <1>0, <2>2, VolleysMild, MildLower
  <2>4. Lower(Situation, Situation')
    BY <2>1, <2>3, SituationFields DEF Lower
  <2> QED  BY <1>1, <2>4, LowerRuns DEF CastleFires
<1>2. CASE MainCheckWin
  <2>1. b' = b /\ log' = log /\ beat' = beat
    BY <1>2, SituationFields DEF MainCheckWin, Win
  <2>2. Lower(Situation, Situation')
    BY <1>0, <2>1, SituationFields, SameLower
  <2> QED  BY <2>1, <2>2, LowerRuns
<1>3. CASE CastSpell
  <2>1. b.control \in Sides  BY <1>0, Shape, SituationFields DEF Sound
  <2>2. PICK g \in Spells(Situation) :
          Finish([g EXCEPT !.b.cast = @ \cup {b.control}],
                 [g EXCEPT !.b.cast = @ \cup {b.control}].b.active
                   \in [g EXCEPT !.b.cast = @ \cup {b.control}].b.dead)
    BY <1>3 DEF CastSpell
  <2> DEFINE h == [g EXCEPT !.b.cast = @ \cup {b.control}]
             passes == h.b.active \in h.b.dead
  <2>3. Lower(Situation, g) /\ Sound(g)
    BY <1>0, SpellsHarmless, MildLower DEF Harmless
  <2>4. Lower(g, h) /\ Sound(h)  BY <2>1, <2>3, CastMarks, MarkedLower
  <2>5. Finish(h, passes)  BY <2>2
  <2> HIDE DEF h
  <2>6. Lower(h, Situation')
    <3>1. passes \in BOOLEAN  OBVIOUS
    <3> HIDE DEF passes
    <3> QED  BY <1>0, <2>4, <2>5, <3>1, FinishLower
  <2>7. Situation' \in Situations  BY <1>3, CastSpellStep DEF IInv, Sound
  <2>8. Lower(Situation, h)  BY <1>0, <2>3, <2>4, LowerTrans DEF Sound
  <2>9. Lower(Situation, Situation')
    BY <1>0, <2>4, <2>6, <2>7, <2>8, LowerTrans DEF Sound
  <2> QED  BY <1>3, <2>9, LowerRuns DEF CastSpell
<1>4. CASE Wait
  <2> DEFINE h == [Situation EXCEPT !.b.waited = @ \cup {b.active}]
  <2>1. b.active \in Slots  BY <1>0, Shape, SituationFields DEF Sound
  <2>2. Lower(Situation, h) /\ Sound(h)
    BY <1>0, <2>1, WaitMarks, MarkedLower
  <2>3. Finish(h, TRUE) /\ beat' = beat  BY <1>4 DEF Wait
  <2> HIDE DEF h
  <2>4. Lower(h, Situation')  BY <1>0, <2>2, <2>3, FinishLower
  <2>5. Situation' \in Situations  BY <1>4, WaitStep DEF IInv, Sound
  <2>6. Lower(Situation, Situation')
    BY <1>0, <2>2, <2>4, <2>5, LowerTrans DEF Sound
  <2> QED  BY <2>3, <2>6, LowerRuns
<1>5. CASE GiveUp
  <2> DEFINE h == [Situation EXCEPT !.b.left = @ \cup {b.control}]
  <2>1. b.control \in Sides  BY <1>0, Shape, SituationFields DEF Sound
  <2>2. Lower(Situation, h) /\ Sound(h)
    BY <1>0, <2>1, LeftMarks, MarkedLower
  <2>3. Finish(h, FALSE) /\ beat' = beat  BY <1>5 DEF GiveUp
  <2> HIDE DEF h
  <2>4. Lower(h, Situation')  BY <1>0, <2>2, <2>3, FinishLower
  <2>5. Situation' \in Situations  BY <1>5, GiveUpStep DEF IInv, Sound
  <2>6. Lower(Situation, Situation')
    BY <1>0, <2>2, <2>4, <2>5, LowerTrans DEF Sound
  <2> QED  BY <2>3, <2>6, LowerRuns
<1> QED  BY <1>1, <1>2, <1>3, <1>4, <1>5

(* The actions of stacks: what is left once the turn is taken.              *)
LEMMA TakenRuns ==
  ASSUME IInv, beat' = 1 - beat, NEW f, Mild(Situation, f),
         Lower(Acted(f), Situation'), Situation' \in Situations
  PROVE  RunsOut
<1>1. Sound(Situation) /\ beat \in {0, 1}  BY DEF IInv, Crown
<1>2. Sound(f) /\ f.b.active = b.active /\ f.log.due = log.due
  BY <1>1, SituationFields DEF Mild
<1>3. /\ b.active \in Slots
      /\ \A t \in Slots : log.due[t] \in Int /\ log'.due[t] \in Int
  BY <1>1, Shape, SituationFields DEF Sound
<1> DEFINE a == Acted(f)
<1>4. a.log.due = [t \in Slots |-> IF t = b.active THEN log.due[t] - 1
                                                   ELSE log.due[t]]
  BY <1>2, ActedLower
<1> HIDE DEF a
<1>5. \A t \in Slots : log'.due[t] <= a.log.due[t]
  BY SituationFields DEF Lower, a
<1>6. \A t \in Slots : log'.due[t] <=
        IF t = b.active THEN log.due[t] - 1 ELSE log.due[t]
  BY <1>3, <1>4, <1>5
<1> QED  BY <1>1, <1>3, <1>6 DEF RunsOut

LEMMA AttackRuns ==
  ASSUME IInv, Attack
  PROVE  RunsOut
<1> SUFFICES ASSUME round' = round  PROVE RunsOut  BY DEF RunsOut
<1>0. Sound(Situation) /\ FlagsType /\ beat' = 1 - beat /\ beat \in {0, 1}
  BY DEF IInv, Crown, Attack
<1>1. Situation' \in Situations  BY AttackStep DEF IInv, Sound
<1>2. PICK w \in Burnt(Situation) : \E f \in Fought(w) :
        IF Decided(f) THEN Win(Acted(f)) /\ ended' = TRUE
        ELSE \E h \in GoodMorale(Acted(f)) : Finish(h, TRUE)
  BY DEF Attack
<1>3. PICK f \in Fought(w) :
        IF Decided(f) THEN Win(Acted(f)) /\ ended' = TRUE
        ELSE \E h \in GoodMorale(Acted(f)) : Finish(h, TRUE)
  BY <1>2
<1>4. Mild(Situation, w)  BY <1>0, BurntMild
<1>5. Mild(w, f)  BY <1>4, FoughtMild DEF Mild
<1>6. Mild(Situation, f)  BY <1>4, <1>5, MildTrans
<1> DEFINE a == Acted(f)
<1>7. /\ Sound(f) /\ Sound(a) /\ a.b.active = f.b.active
      /\ a.log.due = [t \in Slots |-> IF t = f.b.active
                                      THEN f.log.due[t] - 1
                                      ELSE f.log.due[t]]
      /\ a.b.bonus = f.b.bonus
  BY <1>6, ActedLower DEF Mild, Lower
<1> HIDE DEF a
<1>8. CASE Win(a)
  <2>1. Situation'.b = a.b /\ Situation'.log = a.log
    BY <1>8, SituationFields DEF Win
  <2>2. Lower(a, Situation')  BY <1>7, <2>1, SameLower
  <2> QED  BY <1>0, <1>1, <1>6, <2>2, TakenRuns DEF a
<1>9. ASSUME NEW h \in GoodMorale(a), Finish(h, TRUE)
      PROVE  RunsOut
  <2>1. Sound(h)
    <3>1. a.log.due[a.b.active] <= 0
      BY <1>7, ActedSound DEF a
    <3> QED  BY <1>7, <3>1, GoodMoraleSound
  <2>2. Lower(h, Situation')  BY <1>0, <1>9, <2>1, FinishLower
  <2>3. CASE ~h.b.bonus /\ h.log = a.log
    <3>1. \A t \in Slots : log'.due[t] <= a.log.due[t]
      BY <2>2, <2>3, SituationFields DEF Lower
    <3>2. /\ f.b.active = b.active /\ f.log.due = log.due
          /\ b.active \in Slots
          /\ \A t \in Slots : log.due[t] \in Int /\ log'.due[t] \in Int
      BY <1>0, <1>1, <1>6, Shape, SituationFields DEF Mild, Sound
    <3>3. \A t \in Slots : log'.due[t] <=
            IF t = b.active THEN log.due[t] - 1 ELSE log.due[t]
      BY <1>7, <3>1, <3>2
    <3> QED  BY <1>0, <3>2, <3>3 DEF RunsOut
  <2>4. CASE /\ ~a.b.bonus /\ h.b.bonus
             /\ \A t \in Slots : h.log.due[t] =
                  IF t = a.b.active THEN a.log.due[t] + 1 ELSE a.log.due[t]
    <3>1. \A t \in Slots : log.due[t] \in Int
      BY <1>0, Shape, SituationFields DEF Sound
    <3>2. /\ f.b.active = b.active /\ f.log.due = log.due
          /\ f.b.bonus = b.bonus
      BY <1>6, SituationFields DEF Mild
    <3>3. \A t \in Slots : h.log.due[t] = log.due[t]
      BY <1>7, <2>4, <3>1, <3>2
    <3>4. \A t \in Slots : log'.due[t] <= log.due[t]
      BY <2>2, <3>3, SituationFields DEF Lower
    <3>5. ~b.bonus  BY <1>7, <2>4, <3>2
    <3>6. b'.bonus = h.b.bonus  BY <2>2, SituationFields DEF Lower
    <3>7. beat' # beat  BY <1>0
    <3> QED  BY <2>4, <3>4, <3>5, <3>6, <3>7, Zenon DEF RunsOut
  <2> QED  BY <1>7, <1>9, <2>3, <2>4, GoodMoraleGives
<1> QED  BY <1>3, <1>8, <1>9 DEF a

LEMMA SkipRuns ==
  ASSUME IInv, Skip
  PROVE  RunsOut
<1> SUFFICES ASSUME round' = round  PROVE RunsOut  BY DEF RunsOut
<1>0. Sound(Situation) /\ FlagsType /\ beat' = 1 - beat /\ beat \in {0, 1}
  BY DEF IInv, Crown, Skip
<1>1. Situation' \in Situations  BY SkipStep DEF IInv, Sound
<1>2. PICK w \in Burnt(Situation) :
        /\ blaze' = Decided(w)
        /\ IF Decided(w) THEN Win(w) /\ UNCHANGED ended
           ELSE Finish(Acted(w), TRUE)
  BY DEF Skip
<1>3. Mild(Situation, w) /\ Lower(Situation, w) /\ Sound(w)
  BY <1>0, BurntMild, MildLower
<1>4. CASE Decided(w)
  <2>1. b' = w.b /\ log' = w.log  BY <1>2, <1>4 DEF Win
  <2>2. blaze'  BY <1>2, <1>4, Zenon DEF Decided
  <2>3. \A t \in Slots : log'.due[t] <= log.due[t]
    BY <1>3, <2>1, SituationFields DEF Lower
  <2> QED  BY <1>0, <2>2, <2>3 DEF RunsOut
<1>5. CASE ~Decided(w)
  <2>1. Sound(Acted(w))  BY <1>3, ActedLower
  <2>2. Lower(Acted(w), Situation')
    BY <1>0, <1>2, <1>5, <2>1, FinishLower
  <2> QED  BY <1>0, <1>1, <1>3, <2>2, TakenRuns
<1> QED  BY <1>4, <1>5

(* No round can go on for ever: no stack is ever owed less than minus one   *)
(* or more than one turn, nothing but the next round raises what it is      *)
(* owed, and every action of a stack lowers it, or is followed by a bonus   *)
(* of good morale although the one before was not, or decides the battle    *)
(* in a fire.                                                               *)
THEOREM TurnsRunOut ==
  Spec => /\ [](\A t \in Slots : log.due[t] \in -1..1)
          /\ [][RunsOut]_vars
<1> DEFINE Few == \A t \in Slots : log.due[t] \in -1..1
<1>1. IInv => Few
  <2> SUFFICES ASSUME IInv, NEW t \in Slots  PROVE log.due[t] \in -1..1
    OBVIOUS
  <2>1. PICK C : Owed(Situation, C)  BY DEF IInv
  <2>2. log.due[t] \in Int /\ log.due[t] <= 1
    BY Shape, SituationFields DEF IInv, Sound, AtMostOne
  <2>3. log.due[t] + (IF t \in C THEN 1 ELSE 0) >= 0
    BY <2>1, SituationFields DEF Owed, Turns
  <2> QED  BY <2>2, <2>3
<1>2. IInv /\ [Next]_vars => [RunsOut]_vars
  <2> SUFFICES ASSUME IInv, Next, vars' # vars  PROVE RunsOut  OBVIOUS
  <2>1. ~Over  BY DEF Over
  <2> QED  BY <2>1, BetweenRuns, AttackRuns, SkipRuns DEF Next
<1> HIDE DEF Few
<1> QED  BY <1>1, <1>2, Invariant, PTL DEF Spec, Few
-----------------------------------------------------------------------------
(* A slot as TurnFlags, and so BattleStack, knows it.  Only operators of    *)
(* TurnFlags are used here, and they read no variable.                      *)
View(s, t) ==
  {m \in {"dead", "held", "hypno", "took"} :
     \/ m = "dead" /\ t \in s.b.dead
     \/ m = "held" /\ t \in s.b.held
     \/ m = "hypno" /\ t \in s.b.hypno
     \/ m = "took" /\ t \in s.b.took}

Flags == INSTANCE TurnFlags WITH marks <- {}

LEMMA ViewIn ==
  ASSUME NEW s, NEW t
  PROVE  /\ View(s, t) \subseteq {"dead", "held", "hypno", "took"}
         /\ "dead" \in View(s, t) <=> t \in s.b.dead
         /\ "held" \in View(s, t) <=> t \in s.b.held
         /\ "hypno" \in View(s, t) <=> t \in s.b.hypno
         /\ "took" \in View(s, t) <=> t \in s.b.took
BY DEF View

(* t has the same marks in both situations.                                 *)
Alike(s, h, t) ==
  /\ t \in h.b.dead <=> t \in s.b.dead
  /\ t \in h.b.held <=> t \in s.b.held
  /\ t \in h.b.hypno <=> t \in s.b.hypno
  /\ t \in h.b.took <=> t \in s.b.took

LEMMA AlikeView ==
  ASSUME NEW s, NEW h, NEW t, Alike(s, h, t)
  PROVE  View(h, t) = View(s, t)
BY DEF View, Alike

(* A hit of the stacks T, of which K die, seen from one of them.            *)
LEMMA MissedView ==
  ASSUME NEW s, NEW T, NEW K \in SUBSET T, NEW h, Shaken(s, T, K, h),
         NEW t, t \notin T
  PROVE  View(h, t) = View(s, t)
<1>1. Alike(s, h, t)  BY DEF Shaken, Alike
<1> QED  BY <1>1, AlikeView

LEMMA KilledView ==
  ASSUME NEW s, NEW T, NEW K \in SUBSET T, NEW h, Shaken(s, T, K, h),
         NEW t, t \in K, t \notin s.b.dead
  PROVE  View(h, t) = Flags!Hit(View(s, t)) \cup {"dead"}
BY ViewIn DEF Shaken, Flags!Hit

LEMMA SparedView ==
  ASSUME NEW s, NEW T, NEW K \in SUBSET T, NEW h, Shaken(s, T, K, h),
         NEW t, t \in T, t \notin K, t \notin s.b.dead
  PROVE  View(h, t) = Flags!Hit(View(s, t))
BY ViewIn DEF Shaken, Flags!Hit

LEMMA HurtView ==
  ASSUME NEW s, NEW T, NEW K \in SUBSET T, NEW h, Shaken(s, T, K, h),
         NEW t, t \notin T \cap s.b.dead
  PROVE  View(h, t) = View(s, t) \/ View(h, t) \in Flags!Hurt(View(s, t))
<1>1. CASE t \notin T  BY <1>1, MissedView
<1>2. CASE t \in T \ s.b.dead /\ t \in K
  <2>1. View(h, t) = Flags!Hit(View(s, t)) \cup {"dead"}
    BY <1>2, KilledView
  <2> QED  BY <2>1 DEF Flags!Hurt
<1>3. CASE t \in T \ s.b.dead /\ t \notin K
  <2>1. View(h, t) = Flags!Hit(View(s, t))  BY <1>3, SparedView
  <2> QED  BY <2>1 DEF Flags!Hurt
<1> QED  BY <1>1, <1>2, <1>3

(* What the record expressions of blows and spells change.                  *)
Wounded(s, T, h) ==
  \E K \in SUBSET T, H \in SUBSET T, g \in Situations :
    /\ Shaken(s, T, K, g) /\ K \cap H = {}
    /\ h.b.dead = g.b.dead /\ h.b.held = g.b.held \cup H
    /\ h.b.hypno = g.b.hypno /\ h.b.took = g.b.took

LEMMA StruckFields ==
  ASSUME NEW s, Sound(s), NEW by, NEW T \in SUBSET Slots,
         NEW h \in Struck(s, by, T)
  PROVE  Wounded(s, T, h)
<1>1. PICK p \in (SUBSET T) \X (SUBSET T) :
        /\ h = [Hit(s, T, p[1]) EXCEPT !.b.held = @ \cup p[2]]
        /\ p[1] \cap p[2] = {}
  BY DEF Struck
<1> DEFINE K == p[1]
           H == p[2]
           g == Hit(s, T, K)
<1>2. K \in SUBSET T /\ H \in SUBSET T /\ K \cap H = {}  BY <1>1
<1>3. K \in SUBSET Slots  BY <1>2
<1>4. Shaken(s, T, K, g)  BY <1>3, HitMild
<1>5. g \in Situations  BY <1>4 DEF Shaken, Mild, Sound
<1>6. g.b \in Battle  BY <1>5, Shape
<1>7. g = [b |-> g.b, log |-> g.log]  BY DEF Hit
<1> HIDE DEF g, K, H
<1>8. h = [g EXCEPT !.b.held = @ \cup H]  BY <1>1 DEF g, K, H
<1>9. h.b = [g.b EXCEPT !.held = @ \cup H]  BY <1>7, <1>8
<1>10. /\ h.b.dead = g.b.dead /\ h.b.held = g.b.held \cup H
       /\ h.b.hypno = g.b.hypno /\ h.b.took = g.b.took
  BY <1>6, <1>9 DEF Battle
<1> QED  BY <1>2, <1>4, <1>5, <1>10 DEF Wounded

LEMMA StruckView ==
  ASSUME NEW s, Sound(s), NEW by, NEW T \in SUBSET Slots,
         T \cap s.b.dead = {}, NEW h \in Struck(s, by, T), NEW t
  PROVE  \/ View(h, t) = View(s, t)
         \/ t \in T /\ View(h, t) \in Flags!Struck(View(s, t))
<1>0. Wounded(s, T, h)  BY StruckFields
<1>1. PICK K \in SUBSET T, H \in SUBSET T, g \in Situations :
        /\ Shaken(s, T, K, g) /\ K \cap H = {}
        /\ h.b.dead = g.b.dead /\ h.b.held = g.b.held \cup H
        /\ h.b.hypno = g.b.hypno /\ h.b.took = g.b.took
  BY <1>0 DEF Wounded
<1>2. CASE t \notin T
  <2>1. View(h, t) = View(g, t)  BY <1>1, <1>2, AlikeView DEF Alike
  <2>2. View(g, t) = View(s, t)  BY <1>1, <1>2, MissedView
  <2> QED  BY <2>1, <2>2
<1>3. CASE t \in T \ H
  <2>1. View(h, t) = View(g, t)  BY <1>1, <1>3, AlikeView DEF Alike
  <2>2. View(g, t) = View(s, t) \/ View(g, t) \in Flags!Hurt(View(s, t))
    BY <1>1, HurtView
  <2> QED  BY <1>3, <2>1, <2>2 DEF Flags!Struck
<1>4. CASE t \in H
  <2>1. t \in T /\ t \notin K /\ t \notin s.b.dead  BY <1>1, <1>4
  <2>2. View(g, t) = Flags!Hit(View(s, t))  BY <1>1, <2>1, SparedView
  <2>3. View(h, t) = View(g, t) \cup {"held"}  BY <1>1, <1>4, ViewIn
  <2> QED  BY <2>1, <2>2, <2>3 DEF Flags!Struck
<1> QED  BY <1>2, <1>3, <1>4

(* Hold, Hypnotize, Berserker and Dispel, seen from their target t.         *)
Touched(s, h, t) ==
  \/ t \in h.b.held /\ (t \in h.b.hypno <=> t \in s.b.hypno)
  \/ (t \in h.b.held <=> t \in s.b.held) /\ t \in h.b.hypno
  \/ (t \in h.b.held <=> t \in s.b.held) /\ t \notin h.b.hypno
  \/ t \notin h.b.held /\ t \notin h.b.hypno

LEMMA TouchedView ==
  ASSUME NEW s, NEW h, NEW t, t \notin s.b.dead, Touched(s, h, t),
         h.b.dead = s.b.dead, h.b.took = s.b.took
  PROVE  View(h, t) \in Flags!Spelled(View(s, t))
<1> DEFINE m == View(s, t)
<1>1. "dead" \notin m  BY ViewIn
<1>2. CASE t \in h.b.held /\ (t \in h.b.hypno <=> t \in s.b.hypno)
  <2>1. View(h, t) = m \cup {"held"}  BY <1>2, ViewIn
  <2> QED  BY <1>1, <2>1 DEF Flags!Spelled, Flags!Enchanted
<1>3. CASE (t \in h.b.held <=> t \in s.b.held) /\ t \in h.b.hypno
  <2>1. View(h, t) = m \cup {"hypno"}  BY <1>3, ViewIn
  <2> QED  BY <1>1, <2>1 DEF Flags!Spelled, Flags!Enchanted
<1>4. CASE t \notin h.b.held /\ t \notin h.b.hypno
  <2>1. View(h, t) = m \ {"held", "hypno"}  BY <1>4, ViewIn
  <2> QED  BY <1>1, <2>1 DEF Flags!Spelled, Flags!Enchanted
<1>5. CASE (t \in h.b.held <=> t \in s.b.held) /\ t \notin h.b.hypno
  <2>1. View(h, t) = m \ {"hypno"}  BY <1>5, ViewIn
  <2> QED  BY <1>1, <2>1 DEF Flags!Spelled, Flags!Enchanted
<1> QED  BY <1>2, <1>3, <1>4, <1>5 DEF Touched

LEMMA SpellsView ==
  ASSUME NEW s, Sound(s), NEW h \in Spells(s), NEW t \in Slots
  PROVE  View(h, t) = View(s, t) \/ View(h, t) \in Flags!Spelled(View(s, t))
<1> DEFINE foes == Alive(s, Enemy(s.b.control))
           living == Slots \ s.b.dead
<1>1. s = [b |-> s.b, log |-> s.log] /\ s.b \in Battle
  BY Shape DEF Sound, Situations
<1>2. \A u \in foes : u \notin s.b.dead  BY DEF Alive
<1>3. CASE h = s  BY <1>3
<1>4. CASE \E u \in foes : h = [s EXCEPT !.b.held = @ \cup {u}]
  <2>1. PICK u \in foes : h = [s EXCEPT !.b.held = @ \cup {u}]  BY <1>4
  <2>2. h.b = [s.b EXCEPT !.held = @ \cup {u}]  BY <1>1, <2>1
  <2>3. AsBefore(s, s.b.held \cup {u}, s.b.hypno, h)
    BY <1>1, <2>2 DEF Battle, AsBefore
  <2>4. CASE t = u
    <3>1. Touched(s, h, t)  BY <2>3, <2>4 DEF AsBefore, Touched
    <3> QED  BY <1>2, <2>3, <2>4, <3>1, TouchedView DEF AsBefore
  <2>5. CASE t # u
    <3>1. Alike(s, h, t)  BY <2>3, <2>5 DEF AsBefore, Alike
    <3> QED  BY <3>1, AlikeView
  <2> QED  BY <2>4, <2>5
<1>5. CASE \E u \in foes : h = [s EXCEPT !.b.hypno = @ \cup {u}]
  <2>1. PICK u \in foes : h = [s EXCEPT !.b.hypno = @ \cup {u}]  BY <1>5
  <2>2. h.b = [s.b EXCEPT !.hypno = @ \cup {u}]  BY <1>1, <2>1
  <2>3. AsBefore(s, s.b.held, s.b.hypno \cup {u}, h)
    BY <1>1, <2>2 DEF Battle, AsBefore
  <2>4. CASE t = u
    <3>1. Touched(s, h, t)  BY <2>3, <2>4 DEF AsBefore, Touched
    <3> QED  BY <1>2, <2>3, <2>4, <3>1, TouchedView DEF AsBefore
  <2>5. CASE t # u
    <3>1. Alike(s, h, t)  BY <2>3, <2>5 DEF AsBefore, Alike
    <3> QED  BY <3>1, AlikeView
  <2> QED  BY <2>4, <2>5
<1>9. CASE \E u \in foes : h = [s EXCEPT !.b.hypno = @ \ {u}]
  <2>1. PICK u \in foes : h = [s EXCEPT !.b.hypno = @ \ {u}]  BY <1>9
  <2>2. h.b = [s.b EXCEPT !.hypno = @ \ {u}]  BY <1>1, <2>1
  <2>3. AsBefore(s, s.b.held, s.b.hypno \ {u}, h)
    BY <1>1, <2>2 DEF Battle, AsBefore
  <2>4. CASE t = u
    <3>1. Touched(s, h, t)  BY <2>3, <2>4 DEF AsBefore, Touched
    <3> QED  BY <1>2, <2>3, <2>4, <3>1, TouchedView DEF AsBefore
  <2>5. CASE t # u
    <3>1. Alike(s, h, t)  BY <2>3, <2>5 DEF AsBefore, Alike
    <3> QED  BY <3>1, AlikeView
  <2> QED  BY <2>4, <2>5
<1>6. CASE \E u \in s.b.dead : h = [s EXCEPT !.b.dead = @ \ {u},
                                             !.log.risen = @ \cup {u}]
  <2>1. PICK u \in s.b.dead : h = [s EXCEPT !.b.dead = @ \ {u},
                                           !.log.risen = @ \cup {u}]
    BY <1>6
  <2>3. h.b = [s.b EXCEPT !.dead = @ \ {u}]  BY <1>1, <2>1
  <2>4. /\ h.b.dead = s.b.dead \ {u} /\ h.b.held = s.b.held
        /\ h.b.hypno = s.b.hypno /\ h.b.took = s.b.took
    BY <1>1, <2>3 DEF Battle
  <2>5. CASE t = u
    <3>1. View(h, t) = View(s, t) \ {"dead"}  BY <2>4, <2>5, ViewIn
    <3>2. "dead" \in View(s, t)  BY <2>1, <2>5, ViewIn
    <3> QED  BY <3>1, <3>2 DEF Flags!Spelled
  <2>6. CASE t # u
    <3>1. Alike(s, h, t)  BY <2>4, <2>6 DEF Alike
    <3> QED  BY <3>1, AlikeView
  <2> QED  BY <2>5, <2>6
<1>7. CASE \E u \in living : h = [s EXCEPT !.b.held = @ \ {u},
                                           !.b.hypno = @ \ {u}]
  <2>1. PICK u \in living : h = [s EXCEPT !.b.held = s.b.held \ {u},
                                          !.b.hypno = s.b.hypno \ {u}]
    BY <1>7
  <2>2. h.b = [s.b EXCEPT !.held = @ \ {u}, !.hypno = @ \ {u}]
    BY <1>1, <2>1
  <2>3. AsBefore(s, s.b.held \ {u}, s.b.hypno \ {u}, h)
    BY <1>1, <2>2 DEF Battle, AsBefore
  <2>5. CASE t = u
    <3>1. Touched(s, h, t)  BY <2>3, <2>5 DEF AsBefore, Touched
    <3> QED  BY <2>1, <2>3, <2>5, <3>1, TouchedView DEF AsBefore
  <2>4. CASE t # u
    <3>1. Alike(s, h, t)  BY <2>3, <2>4 DEF AsBefore, Alike
    <3> QED  BY <3>1, AlikeView
  <2> QED  BY <2>4, <2>5
<1>8. CASE h \in { Hit(s, p[1], p[2]) :
               p \in {q \in (SUBSET living) \X (SUBSET living) :
                        "Damage" \in Book /\ q[1] # {} /\ q[2] \subseteq q[1]} }
  <2>1. PICK p \in (SUBSET living) \X (SUBSET living) :
          h = Hit(s, p[1], p[2]) /\ p[2] \subseteq p[1]
    BY <1>8
  <2> DEFINE T == p[1]
             K == p[2]
  <2>2. /\ T \in SUBSET Slots /\ K \in SUBSET Slots /\ K \in SUBSET T
        /\ t \notin T \cap s.b.dead
    BY <2>1
  <2>3. Shaken(s, T, K, h)  BY <2>1, <2>2, HitMild
  <2> HIDE DEF T, K
  <2>4. View(h, t) = View(s, t) \/ View(h, t) \in Flags!Hurt(View(s, t))
    BY <2>2, <2>3, HurtView
  <2>5. CASE t \in s.b.dead
    <3>1. t \notin T  BY <2>2, <2>5
    <3> QED  BY <2>2, <2>3, <3>1, MissedView
  <2>6. CASE t \notin s.b.dead
    <3>1. "dead" \notin View(s, t)  BY <2>6, ViewIn
    <3> QED  BY <2>4, <3>1 DEF Flags!Spelled
  <2> QED  BY <2>5, <2>6
<1> QED  BY <1>3, <1>4, <1>5, <1>6, <1>7, <1>8, <1>9 DEF Spells

LEMMA VolleysView ==
  ASSUME NEW s, Sound(s), s.b.toFire, NEW h \in Volleys(s), NEW t
  PROVE  \/ View(h, t) = View(s, t)
         \/ t \notin s.b.dead /\ View(h, t) \in Flags!Hurt(View(s, t))
<1>1. PICK T \in SUBSET Alive(s, 0), K \in SUBSET Alive(s, 0) :
        K \subseteq T /\ h = Volley(s, T, K)
  <2>1. PICK p \in (SUBSET Alive(s, 0)) \X (SUBSET Alive(s, 0)) :
          p[2] \subseteq p[1] /\ h = Volley(s, p[1], p[2])
    BY DEF Volleys
  <2> QED  BY <2>1
<1>2. /\ T \in SUBSET Slots /\ K \in SUBSET Slots /\ K \in SUBSET T
      /\ T \cap s.b.dead = {}
  BY <1>1 DEF Alive
<1>3. Shaken(s, T, K, h)  BY <1>1, <1>2, VolleyMild
<1>4. CASE t \in T
  <2>1. t \notin s.b.dead /\ t \notin T \cap s.b.dead  BY <1>2, <1>4
  <2> QED  BY <1>2, <1>3, <2>1, HurtView
<1>5. CASE t \notin T  BY <1>2, <1>3, <1>5, MissedView
<1> QED  BY <1>4, <1>5

LEMMA BurntView ==
  ASSUME NEW s, Sound(s), s.b.active \notin s.b.dead, NEW h \in Burnt(s), NEW t
  PROVE  \/ View(h, t) = View(s, t)
         \/ t = s.b.active /\ View(h, t) \in Flags!Hurt(View(s, t))
<1> DEFINE a == s.b.active
<1>1. CASE h = s  BY <1>1
<1>2. CASE \E K \in SUBSET {a} : h = Hit(s, {a}, K)
  <2>1. PICK K \in SUBSET {a} : h = Hit(s, {a}, K)  BY <1>2
  <2>2. {a} \in SUBSET Slots /\ K \in SUBSET Slots
    BY <2>1, Shape DEF Sound
  <2>3. Shaken(s, {a}, K, h)  BY <2>1, <2>2, HitMild
  <2> HIDE DEF a
  <2>4. CASE t = a
    <3>1. t \notin {a} \cap s.b.dead  BY <2>4 DEF a
    <3>2. View(h, t) = View(s, t) \/ View(h, t) \in Flags!Hurt(View(s, t))
      BY <2>1, <2>3, <3>1, HurtView
    <3> QED  BY <2>4, <3>2 DEF a
  <2>5. CASE t # a
    <3>1. t \notin {a}  BY <2>5
    <3> QED  BY <2>1, <2>3, <3>1, MissedView
  <2> QED  BY <2>4, <2>5
<1> QED  BY <1>1, <1>2 DEF Burnt

(* The stack a that acts may be struck back, and its hypnosis ends.         *)
LEMMA FoughtView ==
  ASSUME NEW s, Sound(s), NEW f \in Fought(s), NEW t
  PROVE  LET m == View(s, t)
         IN  \/ View(f, t) = m
             \/ t \notin s.b.dead /\ t # s.b.active /\ View(f, t) \in Flags!Struck(m)
             \/ /\ t \notin s.b.dead /\ t = s.b.active
                /\ \E n \in {m} \cup Flags!Struck(m) : View(f, t) = n \ {"hypno"}
<1> DEFINE a == s.b.active
           targets == IF a \in s.b.dead THEN {}
                      ELSE Alive(s, Enemy(s.b.control)) \ {a}
           Blow(T) == UNION {UNION {Answered(g, u) : u \in T} :
                                  g \in Struck(s, a, T)}
           Freed(T) == {[h EXCEPT !.b.hypno = @ \ {a}] : h \in Blow(T)}
<1>1. CASE f = s  BY <1>1
<1>2. CASE f # s
  <2>1. f \in UNION {Freed(T) : T \in SUBSET targets \ {{}}}
    BY <1>2 DEF Fought
  <2>2. PICK T \in SUBSET targets \ {{}} : f \in Freed(T)  BY <2>1
  <2>3. PICK h \in Blow(T) : f = [h EXCEPT !.b.hypno = @ \ {a}]  BY <2>2
  <2>4. PICK g \in Struck(s, a, T), u \in T : h \in Answered(g, u)  BY <2>3
  <2>5. /\ T \in SUBSET Slots /\ T \cap s.b.dead = {} /\ a \notin T
        /\ a \notin s.b.dead /\ a \in Slots
    <3>1. a \notin s.b.dead  BY <2>2
    <3>2. T \subseteq Alive(s, Enemy(s.b.control)) \ {a}  BY <2>2, <3>1
    <3>3. a \in Slots  BY Shape DEF Sound
    <3> QED  BY <3>1, <3>2, <3>3 DEF Alive
  <2> HIDE DEF targets, Blow, Freed
  <2>6. Mild(s, g) /\ Sound(g) /\ g.b.active = a
    BY <2>4, <2>5, StruckMild DEF Mild
  <2>7. Mild(g, h) /\ Sound(h)  BY <2>4, <2>6, AnsweredMild DEF Mild
  <2>8. \A w : \/ View(g, w) = View(s, w)
               \/ w \in T /\ View(g, w) \in Flags!Struck(View(s, w))
    BY <2>4, <2>5, StruckView
  <2> HIDE DEF a
  <2>9. View(g, a) = View(s, a) /\ a \notin g.b.dead
    <3>1. View(g, a) = View(s, a)  BY <2>5, <2>8
    <3> QED  BY <2>5, <3>1, ViewIn
  <2>10. \A w : \/ View(h, w) = View(g, w)
                \/ w = a /\ View(h, w) \in Flags!Struck(View(g, w))
    <3>1. CASE h = g  BY <3>1
    <3>2. CASE h \in Struck(g, u, {a})
      <4>1. {a} \in SUBSET Slots /\ {a} \cap g.b.dead = {}  BY <2>5, <2>9
      <4>2. \A w : \/ View(h, w) = View(g, w)
                   \/ w \in {a} /\ View(h, w) \in Flags!Struck(View(g, w))
        BY <2>6, <3>2, <4>1, StruckView
      <4> QED  BY <4>2
    <3> QED  BY <2>4, <2>6, <3>1, <3>2 DEF Answered
  <2>11. AsBefore(h, h.b.held, h.b.hypno \ {a}, f)
    <3>1. h = [b |-> h.b, log |-> h.log] /\ h.b \in Battle
      BY <2>7, Shape DEF Sound, Situations
    <3>2. f.b = [h.b EXCEPT !.hypno = @ \ {a}]  BY <2>3, <3>1
    <3> QED  BY <3>1, <3>2 DEF Battle, AsBefore
  <2>12. CASE t = a
    <3>1. View(f, t) = View(h, t) \ {"hypno"}
      BY <2>11, <2>12, ViewIn DEF AsBefore
    <3>2. View(h, t) \in {View(s, t)} \cup Flags!Struck(View(s, t))
      BY <2>9, <2>10, <2>12
    <3> QED  BY <2>5, <2>12, <3>1, <3>2 DEF a
  <2>13. CASE t # a
    <3>1. Alike(h, f, t)  BY <2>11, <2>13 DEF AsBefore, Alike
    <3>2. View(f, t) = View(g, t)  BY <2>10, <2>13, <3>1, AlikeView
    <3> QED  BY <2>5, <2>8, <2>13, <3>2 DEF a
  <2> QED  BY <2>12, <2>13
<1> QED  BY <1>1, <1>2

LEMMA ResetView ==
  ASSUME NEW s, Sound(s), NEW h \in Reset(s), NEW t \in Slots
  PROVE  View(h, t) \in Flags!Rounded(View(s, t))
<1> DEFINE here == Slots \ s.b.dead
           Lasting(X) == {Z \in SUBSET X : X \cap s.b.dead \subseteq Z}
<1>1. PICK H \in Lasting(s.b.held), Y \in Lasting(s.b.hypno),
           T \in SUBSET (Ablaze \cap here), K \in SUBSET (Ablaze \cap here) :
        K \subseteq T /\ h = Hit(Fresh(s, H, Y), T, K)
  <2>1. PICK H \in Lasting(s.b.held), Y \in Lasting(s.b.hypno),
             p \in (SUBSET (Ablaze \cap here)) \X (SUBSET (Ablaze \cap here)) :
          h = Hit(Fresh(s, H, Y), p[1], p[2]) /\ p[2] \subseteq p[1]
    BY DEF Reset
  <2> QED  BY <2>1
<1> DEFINE r == Fresh(s, H, Y)
<1>2. /\ H \in SUBSET Slots /\ Y \in SUBSET Slots
      /\ T \in SUBSET Slots /\ K \in SUBSET Slots /\ K \in SUBSET T
      /\ T \cap s.b.dead = {}
  BY <1>1, Shape DEF Sound
<1>3. Sound(r)  BY <1>2, FreshSound
<1>4. Shaken(r, T, K, h)  BY <1>1, <1>2, <1>3, HitMild
<1>5. /\ r.b.dead = s.b.dead /\ r.b.held = H /\ r.b.hypno = Y
      /\ r.b.took = s.b.took \ here
  <2>1. s.b \in Battle  BY Shape DEF Sound
  <2> QED  BY <2>1 DEF Fresh, Battle
<1> HIDE DEF r
<1>6. CASE t \in s.b.dead
  <2>1. t \notin T  BY <1>2, <1>6
  <2>2. Alike(s, r, t)  BY <1>1, <1>5, <1>6 DEF Alike
  <2>3. View(h, t) = View(s, t)
    BY <1>2, <1>4, <2>1, <2>2, MissedView, AlikeView
  <2>4. "dead" \in View(s, t)  BY <1>6, ViewIn
  <2> QED  BY <2>3, <2>4 DEF Flags!Rounded
<1>7. CASE t \notin s.b.dead
  <2> DEFINE m == View(s, t)
             n == View(r, t)
  <2>1. "dead" \notin m  BY <1>7, ViewIn
  <2>2. n \subseteq m \ {"took"}  BY <1>1, <1>5, <1>7, ViewIn
  <2>3. n \in Flags!Refreshed(m)  BY <2>2 DEF Flags!Refreshed
  <2>4. t \notin T \cap r.b.dead  BY <1>5, <1>7
  <2>5. View(h, t) = n \/ View(h, t) \in Flags!Hurt(n)
    BY <1>2, <1>4, <2>4, HurtView
  <2> HIDE DEF m, n
  <2> QED  BY <2>1, <2>3, <2>5 DEF Flags!Rounded, m
<1> QED  BY <1>6, <1>7

(* A slot of the battle fares under spells, volleys, fire, blows and the    *)
(* end of a round as TurnFlags says, which BattleStack implements: the two  *)
(* modules keep to the same rules of who is dead, held, hypnotized and has  *)
(* no turn left.  A volley is asked for only while the castle has to shoot; *)
(* the fire is entered by a living stack.                                   *)
THEOREM SlotsAreStacks ==
  ASSUME NEW s, Sound(s), NEW t \in Slots
  PROVE  LET m == View(s, t)
         IN  /\ \A h \in Spells(s) : View(h, t) \in {m} \cup Flags!Spelled(m)
             /\ s.b.toFire => \A h \in Volleys(s) :
                  \/ View(h, t) = m
                  \/ "dead" \notin m /\ View(h, t) \in Flags!Struck(m)
             /\ s.b.active \notin s.b.dead => \A h \in Burnt(s) :
                  \/ View(h, t) = m
                  \/ "dead" \notin m /\ View(h, t) \in Flags!Struck(m)
             /\ \A h \in Fought(s) :
                  \/ View(h, t) = m
                  \/ /\ "dead" \notin m /\ t # s.b.active
                     /\ View(h, t) \in Flags!Struck(m)
                  \/ /\ "dead" \notin m /\ t = s.b.active
                     /\ \E n \in {m} \cup Flags!Struck(m) :
                          View(h, t) = n \ {"hypno"}
             /\ \A h \in Reset(s) : View(h, t) \in Flags!Rounded(m)
<1> DEFINE m == View(s, t)
<1>0. "dead" \in m <=> t \in s.b.dead  BY ViewIn
<1>h. Flags!Hurt(m) \subseteq Flags!Struck(m)  BY DEF Flags!Struck
<1>1. \A h \in Spells(s) : View(h, t) \in {m} \cup Flags!Spelled(m)
  BY SpellsView
<1>2. ASSUME s.b.toFire, NEW h \in Volleys(s)
      PROVE  \/ View(h, t) = m
             \/ "dead" \notin m /\ View(h, t) \in Flags!Struck(m)
  BY <1>0, <1>h, <1>2, VolleysView
<1>3. ASSUME s.b.active \notin s.b.dead, NEW h \in Burnt(s)
      PROVE  \/ View(h, t) = m
             \/ "dead" \notin m /\ View(h, t) \in Flags!Struck(m)
  BY <1>0, <1>h, <1>3, BurntView
<1>4. ASSUME NEW h \in Fought(s)
      PROVE  \/ View(h, t) = m
             \/ /\ "dead" \notin m /\ t # s.b.active
                /\ View(h, t) \in Flags!Struck(m)
             \/ /\ "dead" \notin m /\ t = s.b.active
                /\ \E n \in {m} \cup Flags!Struck(m) :
                     View(h, t) = n \ {"hypno"}
  BY <1>0, <1>4, FoughtView
<1>5. \A h \in Reset(s) : View(h, t) \in Flags!Rounded(m)  BY ResetView
<1> QED  BY <1>1, <1>2, <1>3, <1>4, <1>5

-----------------------------------------------------------------------------
(* The converse: whatever may happen to a stack may happen to a slot.       *)
LEMMA StruckReaches ==
  ASSUME NEW s, Sound(s), NEW t \in Slots, t \notin s.b.dead, NEW by \in Holders,
         NEW K \in SUBSET {t}, NEW H \in SUBSET {t}, K \cap H = {}
  PROVE  \E h \in Struck(s, by, {t}) :
           /\ t \in K => View(h, t) = Flags!Hit(View(s, t)) \cup {"dead"}
           /\ t \in H => View(h, t) = Flags!Hit(View(s, t)) \cup {"held"}
           /\ t \notin K \cup H => View(h, t) = Flags!Hit(View(s, t))
<1> DEFINE g == Hit(s, {t}, K)
           h == [g EXCEPT !.b.held = @ \cup H]
<1>1. h \in Struck(s, by, {t})
  <2> DEFINE P == {q \in (SUBSET {t}) \X (SUBSET {t}) :
                     q[1] \cap q[2] = {} /\ (by \notin Holders => q[2] = {})}
  <2>1. <<K, H>> \in P  OBVIOUS
  <2>2. h = [Hit(s, {t}, <<K, H>>[1]) EXCEPT !.b.held = @ \cup <<K, H>>[2]]
    OBVIOUS
  <2> HIDE DEF h, P
  <2>3. \E p \in P : h = [Hit(s, {t}, p[1]) EXCEPT !.b.held = @ \cup p[2]]
    BY <2>1, <2>2
  <2> QED  BY <2>3 DEF Struck, P
<1>2. {t} \in SUBSET Slots /\ K \in SUBSET Slots  OBVIOUS
<1>3. Shaken(s, {t}, K, g)  BY <1>2, HitMild
<1>4. g \in Situations  BY <1>3 DEF Shaken, Mild, Sound
<1>5. g = [b |-> g.b, log |-> g.log] /\ g.b \in Battle
  BY <1>4, Shape DEF Situations
<1>6. h = [g EXCEPT !.b.held = @ \cup H]  OBVIOUS
<1> HIDE DEF g, h
<1>7. h.b = [g.b EXCEPT !.held = @ \cup H]  BY <1>5, <1>6
<1>8. /\ h.b.dead = g.b.dead /\ h.b.held = g.b.held \cup H
      /\ h.b.hypno = g.b.hypno /\ h.b.took = g.b.took
  BY <1>5, <1>7 DEF Battle
<1>9. CASE t \in K
  <2>1. t \notin H  BY <1>9
  <2>2. View(h, t) = View(g, t)
    BY <1>8, <2>1, AlikeView DEF Alike
  <2>3. View(g, t) = Flags!Hit(View(s, t)) \cup {"dead"}
    BY <1>3, <1>9, KilledView
  <2> QED  BY <1>1, <1>9, <2>1, <2>2, <2>3
<1>10. CASE t \notin K
  <2>1. View(g, t) = Flags!Hit(View(s, t))  BY <1>3, <1>10, SparedView
  <2>2. CASE t \in H
    <3>1. View(h, t) = View(g, t) \cup {"held"}  BY <1>8, <2>2, ViewIn
    <3> QED  BY <1>1, <1>10, <2>1, <2>2, <3>1
  <2>3. CASE t \notin H
    <3>1. View(h, t) = View(g, t)  BY <1>8, <2>3, AlikeView DEF Alike
    <3> QED  BY <1>1, <1>10, <2>1, <2>3, <3>1
  <2> QED  BY <2>2, <2>3
<1> QED  BY <1>9, <1>10

LEMMA StruckComplete ==
  ASSUME NEW s, Sound(s), NEW t \in Slots, t \notin s.b.dead, NEW by \in Holders,
         NEW n \in Flags!Struck(View(s, t))
  PROVE  \E h \in Struck(s, by, {t}) : View(h, t) = n
<1> DEFINE hit == Flags!Hit(View(s, t))
           none == {}
           one == {t}
<1>1. none \in SUBSET {t} /\ one \in SUBSET {t} /\ t \notin none /\ t \in one
      /\ none \cap none = {} /\ one \cap none = {} /\ none \cap one = {}
  OBVIOUS
<1> HIDE DEF none, one
<1>2. \/ n = hit \/ n = hit \cup {"dead"} \/ n = hit \cup {"held"}
  BY DEF Flags!Struck, Flags!Hurt
<1>3. \E h \in Struck(s, by, {t}) : View(h, t) = hit
  BY <1>1, StruckReaches
<1>4. \E h \in Struck(s, by, {t}) : View(h, t) = hit \cup {"dead"}
  BY <1>1, StruckReaches
<1>5. \E h \in Struck(s, by, {t}) : View(h, t) = hit \cup {"held"}
  BY <1>1, StruckReaches
<1> HIDE DEF hit
<1> QED  BY <1>2, <1>3, <1>4, <1>5

LEMMA HurtReaches ==
  ASSUME NEW s, NEW t, t \notin s.b.dead, NEW n \in Flags!Hurt(View(s, t)),
         NEW f, Shaken(s, {t}, {}, f), NEW k, Shaken(s, {t}, {t}, k)
  PROVE  View(f, t) = n \/ View(k, t) = n
<1> DEFINE one == {t}
           none == {}
<1>1. t \in one /\ t \notin none /\ one \in SUBSET one /\ none \in SUBSET one
      /\ Shaken(s, one, none, f) /\ Shaken(s, one, one, k)
  OBVIOUS
<1> HIDE DEF one, none
<1>2. View(f, t) = Flags!Hit(View(s, t))  BY <1>1, SparedView
<1>3. View(k, t) = Flags!Hit(View(s, t)) \cup {"dead"}  BY <1>1, KilledView
<1> QED  BY <1>2, <1>3 DEF Flags!Hurt

LEMMA DamageReaches ==
  ASSUME NEW s, Sound(s), NEW t \in Slots, t \notin s.b.dead,
         "Damage" \in Book, NEW n \in Flags!Hurt(View(s, t))
  PROVE  \E h \in Spells(s) : View(h, t) = n
<1> DEFINE living == Slots \ s.b.dead
           P == {q \in (SUBSET living) \X (SUBSET living) :
                   "Damage" \in Book /\ q[1] # {} /\ q[2] \subseteq q[1]}
           f == Hit(s, {t}, {})
           k == Hit(s, {t}, {t})
<1>1. {t} \in SUBSET Slots /\ {} \in SUBSET Slots  OBVIOUS
<1>2. Shaken(s, {t}, {}, f) /\ Shaken(s, {t}, {t}, k)  BY <1>1, HitMild
<1>3. f \in Spells(s) /\ k \in Spells(s)
  <2>1. <<{t}, {}>> \in P /\ <<{t}, {t}>> \in P  OBVIOUS
  <2>2. /\ f = Hit(s, <<{t}, {}>>[1], <<{t}, {}>>[2])
        /\ k = Hit(s, <<{t}, {t}>>[1], <<{t}, {t}>>[2])
    OBVIOUS
  <2> HIDE DEF P, f, k
  <2>3. f \in {Hit(s, p[1], p[2]) : p \in P} /\ k \in {Hit(s, p[1], p[2]) : p \in P}
    BY <2>1, <2>2
  <2> QED  BY <2>3 DEF Spells, P
<1> HIDE DEF f, k
<1>4. View(f, t) = n \/ View(k, t) = n  BY <1>2, HurtReaches
<1> QED  BY <1>3, <1>4

(* The round that leaves the effects of x on the stack t.                   *)
LEMMA ResetReaches ==
  ASSUME NEW s, Sound(s), NEW t \in Slots, NEW x \in SUBSET View(s, t),
         t \notin s.b.dead => "took" \notin x,
         t \in s.b.dead => x = View(s, t)
  PROVE  \E H \in SUBSET s.b.held, Y \in SUBSET s.b.hypno :
           /\ s.b.held \cap s.b.dead \subseteq H
           /\ s.b.hypno \cap s.b.dead \subseteq Y
           /\ Sound(Fresh(s, H, Y))
           /\ Fresh(s, H, Y).b.dead = s.b.dead
           /\ View(Fresh(s, H, Y), t) = x
<1> DEFINE H == (s.b.held \ {t}) \cup (IF "held" \in x THEN {t} ELSE {})
           Y == (s.b.hypno \ {t}) \cup (IF "hypno" \in x THEN {t} ELSE {})
           r == Fresh(s, H, Y)
<1>0. s.b \in Battle /\ s.b.held \subseteq Slots /\ s.b.hypno \subseteq Slots
  BY Shape DEF Sound
<1>1. /\ "held" \in x => t \in s.b.held
      /\ "hypno" \in x => t \in s.b.hypno
      /\ t \in s.b.dead => ("held" \in x <=> t \in s.b.held)
      /\ t \in s.b.dead => ("hypno" \in x <=> t \in s.b.hypno)
  BY ViewIn
<1>2. /\ H \in SUBSET s.b.held /\ Y \in SUBSET s.b.hypno
      /\ s.b.held \cap s.b.dead \subseteq H
      /\ s.b.hypno \cap s.b.dead \subseteq Y
      /\ t \in H <=> "held" \in x
      /\ t \in Y <=> "hypno" \in x
  BY <1>1
<1> HIDE DEF H, Y
<1>3. H \in SUBSET Slots /\ Y \in SUBSET Slots  BY <1>0, <1>2
<1>4. Sound(r)  BY <1>3, FreshSound
<1>5. /\ r.b.dead = s.b.dead /\ r.b.held = H /\ r.b.hypno = Y
      /\ r.b.took = s.b.took \ (Slots \ s.b.dead)
  BY <1>0 DEF Fresh, Battle
<1> HIDE DEF r
<1>6. View(r, t) = x
  <2>1. \A m \in {"dead", "held", "hypno", "took"} : m \in View(r, t) <=> m \in x
    BY <1>2, <1>5, ViewIn
  <2>2. /\ View(r, t) \subseteq {"dead", "held", "hypno", "took"}
        /\ x \subseteq {"dead", "held", "hypno", "took"}
    BY ViewIn
  <2> DEFINE y == View(r, t)
  <2> HIDE DEF y
  <2>3. \A m : m \in y <=> m \in x  BY <2>1, <2>2 DEF y
  <2>4. y = x  BY <2>3
  <2> QED  BY <2>4 DEF y
<1> QED  BY <1>2, <1>4, <1>5, <1>6 DEF r

LEMMA ResetComplete ==
  ASSUME NEW s, Sound(s), NEW t \in Ablaze,
         NEW n \in Flags!Rounded(View(s, t))
  PROVE  \E h \in Reset(s) : View(h, t) = n
<1> DEFINE here == Slots \ s.b.dead
           m == View(s, t)
           none == {}
           one == {t}
<1>0. t \in Slots /\ ("dead" \in m <=> t \in s.b.dead)
  BY ForcesAssumption, ViewIn
<1>1. PICK x \in SUBSET m :
        /\ n = x \/ (t \notin s.b.dead /\ n \in Flags!Hurt(x))
        /\ t \notin s.b.dead => "took" \notin x
        /\ t \in s.b.dead => x = m
  <2>1. CASE t \in s.b.dead
    <3>1. n = m  BY <1>0, <2>1 DEF Flags!Rounded
    <3> QED  BY <2>1, <3>1
  <2>2. CASE t \notin s.b.dead
    <3>1. n \in Flags!Refreshed(m) \cup UNION {Flags!Hurt(x) : x \in Flags!Refreshed(m)}
      BY <1>0, <2>2 DEF Flags!Rounded
    <3>2. PICK x \in Flags!Refreshed(m) : n = x \/ n \in Flags!Hurt(x)
      BY <3>1
    <3>3. x \in SUBSET m /\ "took" \notin x  BY DEF Flags!Refreshed
    <3> QED  BY <2>2, <3>2, <3>3
  <2> QED  BY <2>1, <2>2
<1>2. PICK H \in SUBSET s.b.held, Y \in SUBSET s.b.hypno :
        /\ s.b.held \cap s.b.dead \subseteq H
        /\ s.b.hypno \cap s.b.dead \subseteq Y
        /\ Sound(Fresh(s, H, Y))
        /\ Fresh(s, H, Y).b.dead = s.b.dead
        /\ View(Fresh(s, H, Y), t) = x
  BY <1>0, <1>1, ResetReaches
<1> DEFINE r == Fresh(s, H, Y)
<1>3. \A T \in SUBSET (Ablaze \cap here) : \A K \in SUBSET T : Hit(r, T, K) \in Reset(s)
  <2> SUFFICES ASSUME NEW T \in SUBSET (Ablaze \cap here), NEW K \in SUBSET T
               PROVE  Hit(r, T, K) \in Reset(s)
    OBVIOUS
  <2> DEFINE P == {q \in (SUBSET (Ablaze \cap here)) \X (SUBSET (Ablaze \cap here))
                     : q[2] \subseteq q[1]}
             Lasting(X) == {Z \in SUBSET X : X \cap s.b.dead \subseteq Z}
  <2>1. <<T, K>> \in P  OBVIOUS
  <2>2. Hit(r, T, K) = Hit(r, <<T, K>>[1], <<T, K>>[2])  OBVIOUS
  <2>3. H \in Lasting(s.b.held) /\ Y \in Lasting(s.b.hypno)  BY <1>2
  <2> HIDE DEF P, Lasting
  <2>4. Hit(r, T, K) \in {Hit(Fresh(s, A, B), p[1], p[2]) :
          A \in Lasting(s.b.held), B \in Lasting(s.b.hypno), p \in P}
    BY <2>1, <2>2, <2>3
  <2> QED  BY <2>4 DEF Reset, P, Lasting
<1>4. none \in SUBSET (Ablaze \cap here) /\ none \in SUBSET none  OBVIOUS
<1>5. t \notin s.b.dead => /\ one \in SUBSET (Ablaze \cap here)
                           /\ none \in SUBSET one /\ one \in SUBSET one
  BY <1>0
<1>6. CASE n = x
  <2>1. none \in SUBSET Slots /\ t \notin none  OBVIOUS
  <2>2. Shaken(r, none, none, Hit(r, none, none))  BY <1>2, <2>1, HitMild
  <2> HIDE DEF none, r
  <2>3. View(Hit(r, none, none), t) = View(r, t)
    BY <1>4, <2>1, <2>2, MissedView
  <2>4. Hit(r, none, none) \in Reset(s)  BY <1>3, <1>4
  <2> QED  BY <1>2, <1>6, <2>3, <2>4 DEF r
<1>7. CASE t \notin s.b.dead /\ n \in Flags!Hurt(x)
  <2> DEFINE f == Hit(r, {t}, {})
             k == Hit(r, {t}, {t})
  <2>1. {t} \in SUBSET Slots /\ {} \in SUBSET Slots  BY <1>0
  <2>2. Shaken(r, {t}, {}, f) /\ Shaken(r, {t}, {t}, k)
    BY <1>2, <2>1, HitMild
  <2>3. f \in Reset(s) /\ k \in Reset(s)  BY <1>3, <1>5, <1>7
  <2>4. t \notin r.b.dead /\ n \in Flags!Hurt(View(r, t))  BY <1>2, <1>7
  <2> HIDE DEF f, k, r
  <2>5. View(f, t) = n \/ View(k, t) = n  BY <2>2, <2>4, HurtReaches
  <2> QED  BY <2>3, <2>5
<1> QED  BY <1>1, <1>6, <1>7

LEMMA SpellsReach ==
  ASSUME NEW s, Sound(s), NEW t \in Slots
  PROVE  LET m == View(s, t)
         IN  /\ t \in s.b.dead /\ t[1] = s.b.control /\ "Raise" \in Book =>
                  \E h \in Spells(s) : View(h, t) = m \ {"dead"}
             /\ t \in Alive(s, Enemy(s.b.control)) /\ "Hold" \in Book =>
                  \E h \in Spells(s) : View(h, t) = m \cup {"held"}
             /\ t \in Alive(s, Enemy(s.b.control)) /\ "Hypnotize" \in Book =>
                  \E h \in Spells(s) : View(h, t) = m \cup {"hypno"}
             /\ t \in Alive(s, Enemy(s.b.control)) /\ "Berserker" \in Book =>
                  \E h \in Spells(s) : View(h, t) = m \ {"hypno"}
             /\ t \notin s.b.dead /\ "Dispel" \in Book =>
                  \E h \in Spells(s) : View(h, t) = m \ {"held", "hypno"}
<1> DEFINE m == View(s, t)
<1>0. s = [b |-> s.b, log |-> s.log] /\ s.b \in Battle
  BY Shape DEF Sound, Situations
<1>1. ASSUME t \in s.b.dead, t[1] = s.b.control, "Raise" \in Book
      PROVE  \E h \in Spells(s) : View(h, t) = m \ {"dead"}
  <2> DEFINE To(u) == [s EXCEPT !.b.dead = @ \ {u}, !.log.risen = @ \cup {u}]
             U == {u \in s.b.dead : u[1] = s.b.control /\ "Raise" \in Book}
             h == To(t)
  <2>1. {To(u) : u \in U} \subseteq Spells(s)  BY Zenon DEF Spells
  <2>2. h = [s EXCEPT !.b.dead = @ \ {t}, !.log.risen = @ \cup {t}]  OBVIOUS
  <2>3. t \in U  BY <1>1
  <2> HIDE DEF U, To
  <2>4. h \in Spells(s)  BY <2>1, <2>3
  <2> HIDE DEF h
  <2>5. h.b = [s.b EXCEPT !.dead = @ \ {t}]  BY <1>0, <2>2
  <2>6. /\ h.b.dead = s.b.dead \ {t} /\ h.b.held = s.b.held
        /\ h.b.hypno = s.b.hypno /\ h.b.took = s.b.took
    BY <1>0, <2>5 DEF Battle
  <2>7. View(h, t) = m \ {"dead"}  BY <2>6, ViewIn
  <2> QED  BY <2>4, <2>7
<1>2. ASSUME t \in Alive(s, Enemy(s.b.control)), "Hold" \in Book
      PROVE  \E h \in Spells(s) : View(h, t) = m \cup {"held"}
  <2> DEFINE To(u) == [s EXCEPT !.b.held = @ \cup {u}]
             U == {u \in Alive(s, Enemy(s.b.control)) : "Hold" \in Book}
             h == To(t)
  <2>1. {To(u) : u \in U} \subseteq Spells(s)  BY Zenon DEF Spells
  <2>2. h = [s EXCEPT !.b.held = @ \cup {t}]  OBVIOUS
  <2>3. t \in U  BY <1>2
  <2> HIDE DEF U, To
  <2>4. h \in Spells(s)  BY <2>1, <2>3
  <2> HIDE DEF h
  <2>5. h.b = [s.b EXCEPT !.held = @ \cup {t}]  BY <1>0, <2>2
  <2>6. AsBefore(s, s.b.held \cup {t}, s.b.hypno, h)
    BY <1>0, <2>5 DEF Battle, AsBefore
  <2>7. View(h, t) = m \cup {"held"}  BY <2>6, ViewIn DEF AsBefore
  <2> QED  BY <2>4, <2>7
<1>3. ASSUME t \in Alive(s, Enemy(s.b.control)), "Hypnotize" \in Book
      PROVE  \E h \in Spells(s) : View(h, t) = m \cup {"hypno"}
  <2> DEFINE To(u) == [s EXCEPT !.b.hypno = @ \cup {u}]
             U == {u \in Alive(s, Enemy(s.b.control)) : "Hypnotize" \in Book}
             h == To(t)
  <2>1. {To(u) : u \in U} \subseteq Spells(s)  BY Zenon DEF Spells
  <2>2. h = [s EXCEPT !.b.hypno = @ \cup {t}]  OBVIOUS
  <2>3. t \in U  BY <1>3
  <2> HIDE DEF U, To
  <2>4. h \in Spells(s)  BY <2>1, <2>3
  <2> HIDE DEF h
  <2>5. h.b = [s.b EXCEPT !.hypno = @ \cup {t}]  BY <1>0, <2>2
  <2>6. AsBefore(s, s.b.held, s.b.hypno \cup {t}, h)
    BY <1>0, <2>5 DEF Battle, AsBefore
  <2>7. View(h, t) = m \cup {"hypno"}  BY <2>6, ViewIn DEF AsBefore
  <2> QED  BY <2>4, <2>7
<1>5. ASSUME t \in Alive(s, Enemy(s.b.control)), "Berserker" \in Book
      PROVE  \E h \in Spells(s) : View(h, t) = m \ {"hypno"}
  <2> DEFINE To(u) == [s EXCEPT !.b.hypno = @ \ {u}]
             U == {u \in Alive(s, Enemy(s.b.control)) : "Berserker" \in Book}
             h == To(t)
  <2>1. {To(u) : u \in U} \subseteq Spells(s)  BY Zenon DEF Spells
  <2>2. h = [s EXCEPT !.b.hypno = @ \ {t}]  OBVIOUS
  <2>3. t \in U  BY <1>5
  <2> HIDE DEF U, To
  <2>4. h \in Spells(s)  BY <2>1, <2>3
  <2> HIDE DEF h
  <2>5. h.b = [s.b EXCEPT !.hypno = @ \ {t}]  BY <1>0, <2>2
  <2>6. AsBefore(s, s.b.held, s.b.hypno \ {t}, h)
    BY <1>0, <2>5 DEF Battle, AsBefore
  <2>7. View(h, t) = m \ {"hypno"}  BY <2>6, ViewIn DEF AsBefore
  <2> QED  BY <2>4, <2>7
<1>4. ASSUME t \notin s.b.dead, "Dispel" \in Book
      PROVE  \E h \in Spells(s) : View(h, t) = m \ {"held", "hypno"}
  <2> DEFINE To(u) == [s EXCEPT !.b.held = @ \ {u}, !.b.hypno = @ \ {u}]
             U == {u \in Slots \ s.b.dead : "Dispel" \in Book}
             h == To(t)
  <2>1. {To(u) : u \in U} \subseteq Spells(s)  BY Zenon DEF Spells
  <2>2. h = [s EXCEPT !.b.held = @ \ {t}, !.b.hypno = @ \ {t}]  OBVIOUS
  <2>3. t \in U  BY <1>4
  <2> HIDE DEF U, To
  <2>4. h \in Spells(s)  BY <2>1, <2>3
  <2> HIDE DEF h
  <2>5. h.b = [s.b EXCEPT !.held = @ \ {t}, !.hypno = @ \ {t}]
    BY <1>0, <2>2
  <2>6. AsBefore(s, s.b.held \ {t}, s.b.hypno \ {t}, h)
    BY <1>0, <2>5 DEF Battle, AsBefore
  <2>7. View(h, t) = m \ {"held", "hypno"}  BY <2>6, ViewIn DEF AsBefore
  <2> QED  BY <2>4, <2>7
<1> QED  BY <1>1, <1>2, <1>3, <1>4, <1>5

(* And all that TurnFlags lets a step of the battle do to a stack, some     *)
(* choice of the same step of the order of turns does to a slot: to one     *)
(* that a creature with such an ability strikes, to one that may burn when  *)
(* the round ends, and to one that the spell can be cast on.  The one       *)
(* change that TurnOrder does not know is the reuse of a slot.              *)
THEOREM StacksFitSlots ==
  ASSUME NEW s, Sound(s), NEW t \in Slots
  PROVE  LET m == View(s, t)
         IN  /\ t \notin s.b.dead => \A by \in Holders : \A n \in Flags!Struck(m) :
                  \E h \in Struck(s, by, {t}) : View(h, t) = n
             /\ t \in Ablaze => \A n \in Flags!Rounded(m) :
                  \E h \in Reset(s) : View(h, t) = n
             /\ t \notin s.b.dead /\ "Damage" \in Book => \A n \in Flags!Hurt(m) :
                  \E h \in Spells(s) : View(h, t) = n
             /\ /\ t \in s.b.dead /\ t[1] = s.b.control /\ "Raise" \in Book
                => \A n \in Flags!Spelled(m) : \E h \in Spells(s) : View(h, t) = n
             /\ /\ t \in Alive(s, Enemy(s.b.control))
                /\ {"Hold", "Hypnotize", "Berserker", "Dispel"} \subseteq Book
                => \A n \in Flags!Enchanted(m) :
                     \E h \in Spells(s) : View(h, t) = n
<1> DEFINE m == View(s, t)
<1>1. ASSUME t \notin s.b.dead, NEW by \in Holders, NEW n \in Flags!Struck(m)
      PROVE  \E h \in Struck(s, by, {t}) : View(h, t) = n
  BY <1>1, StruckComplete
<1>2. ASSUME t \in Ablaze, NEW n \in Flags!Rounded(m)
      PROVE  \E h \in Reset(s) : View(h, t) = n
  BY <1>2, ResetComplete
<1>3. ASSUME t \notin s.b.dead, "Damage" \in Book, NEW n \in Flags!Hurt(m)
      PROVE  \E h \in Spells(s) : View(h, t) = n
  BY <1>3, DamageReaches
<1>4. ASSUME t \in s.b.dead, t[1] = s.b.control, "Raise" \in Book,
             NEW n \in Flags!Spelled(m)
      PROVE  \E h \in Spells(s) : View(h, t) = n
  <2>1. "dead" \in m  BY <1>4, ViewIn
  <2>2. n = m \ {"dead"}  BY <2>1 DEF Flags!Spelled
  <2>3. \E h \in Spells(s) : View(h, t) = m \ {"dead"}
    BY <1>4, SpellsReach
  <2> QED  BY <2>2, <2>3
<1>5. ASSUME t \in Alive(s, Enemy(s.b.control)),
             {"Hold", "Hypnotize", "Berserker", "Dispel"} \subseteq Book,
             NEW n \in Flags!Enchanted(m)
      PROVE  \E h \in Spells(s) : View(h, t) = n
  <2>1. \/ n = m \cup {"held"} \/ n = m \cup {"hypno"}
        \/ n = m \ {"hypno"} \/ n = m \ {"held", "hypno"}
    BY DEF Flags!Enchanted
  <2>2. /\ t \notin s.b.dead /\ "Hold" \in Book /\ "Hypnotize" \in Book
        /\ "Berserker" \in Book /\ "Dispel" \in Book
    BY <1>5 DEF Alive
  <2>3. /\ \E h \in Spells(s) : View(h, t) = m \cup {"held"}
        /\ \E h \in Spells(s) : View(h, t) = m \cup {"hypno"}
        /\ \E h \in Spells(s) : View(h, t) = m \ {"hypno"}
        /\ \E h \in Spells(s) : View(h, t) = m \ {"held", "hypno"}
    BY <1>5, <2>2, SpellsReach
  <2> QED  BY <2>1, <2>3
<1> QED  BY <1>1, <1>2, <1>3, <1>4, <1>5
=============================================================================
