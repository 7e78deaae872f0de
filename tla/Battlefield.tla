---------------------------- MODULE Battlefield ----------------------------
(***************************************************************************)
(* The hexes of a battle and the stacks that stand, lie and appear on      *)
(* them: combatManager::combatGrid and combatManager::creatures.  What a   *)
(* blow does to the numbers of a stack is BattleStack's; here a stack is   *)
(* alive or not, and the question is where it is, what it leaves behind,   *)
(* and which slot of the two arrays it has.                                *)
(*                                                                         *)
(* The hexes are one row of the board: a wide stack needs its neighbor, no *)
(* other rule of this module needs geometry.                               *)
(***************************************************************************)
EXTENDS Integers, FiniteSets, Sequences

CONSTANTS
  LastHex,     \* bound: the hexes of the row are 1..LastHex
  MaxStacks,   \* bound: slots a side (21 in the code)
  MaxCorpses,  \* bound: corpses that a hexcell has room for (14 in the code)
  Lineup,      \* slot -> [kind, wide, hex]: the armies when the battle begins
  Shooters,    \* the slots of Lineup that shoot
  Book,        \* the spells that the heroes know
  Powers,      \* the spell powers of the heroes
  DigUp,       \* whether corpses that lie under others are raised
  Burning,     \* whether stacks are on fire when a round ends
  OldMarks,    \* whether a grenade is thrown while a hex keeps a mark of a
               \* wide stack that is gone
  Budget       \* bound: spells that are cast in the battle

Sides == {0, 1}
Idx == 1..MaxStacks
Slots == Sides \X Idx
Hexes == 1..LastHex
None == <<-1, -1>>

ASSUME BoardAssumption ==
  /\ LastHex \in Nat \ {0} /\ MaxStacks \in Nat \ {0}
  /\ MaxCorpses \in Nat \ {0} /\ Budget \in Nat
  /\ Powers \subseteq Nat \ {0}
  /\ DigUp \in BOOLEAN /\ Burning \in BOOLEAN /\ OldMarks \in BOOLEAN
  /\ Book \subseteq {"MirrorImage", "Summon", "Teleport", "Raise", "Grenade"}
ASSUME LineupAssumption ==
  /\ DOMAIN Lineup \subseteq Slots /\ Shooters \subseteq DOMAIN Lineup
  /\ \A s \in DOMAIN Lineup : \A i \in 1..s[2] : <<s[1], i>> \in DOMAIN Lineup

Kinds == {"living", "phoenix", "elemental"}
Unit == [kind : Kinds \cup {"none"},      \* creatureIdx; "none" is -1
         image : BOOLEAN,                 \* the MIRROR_IMAGE flag
         wide : BOOLEAN,                  \* the TWO_HEXER flag
         hex : Int,                       \* occupiedHex
         alive : BOOLEAN,                 \* quantity > 0
         dying : BOOLEAN,                 \* dead
         isDead : BOOLEAN,                \* the DEAD flag
         mirror : Idx \cup {0},           \* mirrorIdx, the stack's image
         original : Idx \cup {0},         \* mirroredIdx, of an image
         lifespan : Int,
         reborn : BOOLEAN]                \* doneRebirth[this]
Corpse == [slot : Slots, other : {-1, 0, 1}]

VARIABLES
  field,    \* the board: units, hexes, corpses, slots taken, marks to vanish
  budget,   \* spells still to come
  round     \* parity of the round

vars == <<field, budget, round>>

-----------------------------------------------------------------------------
(* A stack faces the other side between its turns, and occupiedHex is the   *)
(* hex of its rear: its second hex is the one ahead.                        *)
Ahead(side) == IF side = 0 THEN 1 ELSE -1
Footprint(side, wide, hex) ==
  IF wide THEN {hex, hex + Ahead(side)} ELSE {hex}
Cells(f, s) == Footprint(s[1], f.unit[s].wide, f.unit[s].hex)

(* army::Init puts the armies on hexes of their own.                        *)
Post(s) == Footprint(s[1], Lineup[s].wide, Lineup[s].hex)
ASSUME PostsAssumption ==
  \A s \in DOMAIN Lineup :
    /\ Lineup[s].kind \in {"living", "phoenix", "elemental"}
    /\ Lineup[s].wide \in BOOLEAN
    /\ Lineup[s].kind = "elemental" => ~Lineup[s].wide
    /\ Lineup[s].hex \in Hexes /\ Post(s) \subseteq Hexes
    /\ \A t \in DOMAIN Lineup : Post(s) \cap Post(t) # {} => s = t

LeavesNoBody(u) == u.image \/ u.kind = "elemental"
Standing(f) == {s \in Slots : f.unit[s].kind # "none" /\ ~f.unit[s].isDead}

(* Mutant: the hex is recorded, not the direction.                          *)
OtherWay_Hex(side, hex, h) == hex

(* Where the hex's occupier has its other hex (occupiersOtherHexIsToLeft):  *)
(* 1 ahead to the right, -1 to the left, 0 for none.                        *)
OtherWay(side, hex, h) == IF h = hex THEN Ahead(side) ELSE -Ahead(side)

Fresh(kind, image, wide, hex, reborn) ==
  [kind |-> kind, image |-> image, wide |-> wide, hex |-> hex, alive |-> TRUE,
   dying |-> FALSE, isDead |-> FALSE, mirror |-> 0, original |-> 0,
   lifespan |-> -1, reborn |-> reborn]

(* army::Init at a hex.  Only a wide stack says where its other hex is: a   *)
(* narrow one leaves what the hex said before.                              *)
Place(f, s, kind, image, wide, hex) ==
  LET cells == Footprint(s[1], wide, hex) \cap Hexes
  IN  [f EXCEPT
        !.unit[s] = Fresh(kind, image, wide, hex, @.reborn),
        !.occupant = [h \in Hexes |-> IF h \in cells THEN s ELSE @[h]],
        !.other = [h \in Hexes |-> IF wide /\ h \in cells
                                   THEN OtherWay(s[1], hex, h) ELSE @[h]]]

Nobody == [kind |-> "none", image |-> FALSE, wide |-> FALSE, hex |-> 0,
           alive |-> FALSE, dying |-> FALSE, isDead |-> FALSE, mirror |-> 0,
           original |-> 0, lifespan |-> -1, reborn |-> FALSE]
EmptyField ==
  [unit |-> [s \in Slots |-> Nobody],
   occupant |-> [h \in Hexes |-> None],
   other |-> [h \in Hexes |-> 0],
   corpses |-> [h \in Hexes |-> <<>>],
   numCreatures |-> [side \in Sides |->
                       Cardinality({s \in DOMAIN Lineup : s[1] = side})],
   vanish |-> {}]

(* combatManager::LoadArmies: army::Init of all stacks, on hexes of their   *)
(* own.                                                                     *)
Loaded ==
  LET At(h) == {s \in DOMAIN Lineup : h \in Post(s)}
      On(h) == CHOOSE s \in At(h) : TRUE
  IN  [EmptyField EXCEPT
         !.unit = [s \in Slots |->
                     IF s \in DOMAIN Lineup
                       THEN Fresh(Lineup[s].kind, FALSE, Lineup[s].wide, Lineup[s].hex, FALSE)
                       ELSE Nobody],
         !.occupant = [h \in Hexes |-> IF At(h) = {} THEN None ELSE On(h)],
         !.other = [h \in Hexes |->
                      IF At(h) # {} /\ Lineup[On(h)].wide
                        THEN OtherWay(On(h)[1], Lineup[On(h)].hex, h) ELSE 0]]

Init ==
  /\ field = Loaded
  /\ budget = Budget
  /\ round = 0

-----------------------------------------------------------------------------
(* The images of the stacks that fall, which fall with them.                *)
ImagesOf(f, fallen) ==
  {<<s[1], f.unit[s].mirror>> : s \in {t \in fallen : f.unit[t].mirror # 0}}

(* Mutant: the death of an image does not free its original for another.    *)
Unlinked_Never(f, s, fallen) == FALSE

(* The stack's image is among those that fall.                              *)
Unlinked(f, s, fallen) ==
  \E t \in fallen : t[1] = s[1] /\ f.unit[t].original = s[2]

(* Mutant: only the rear hex of a corpse is checked for room and filled.    *)
Piled_Half(f, s, h) == h = f.unit[s].hex /\ Len(f.corpses[h]) < MaxCorpses

(* The stack's corpse goes on the pile of h, if both its piles have room.   *)
Piled(f, s, h) ==
  /\ h \in Cells(f, s)
  /\ \A c \in Cells(f, s) : Len(f.corpses[c]) < MaxCorpses

(* army::ProcessDeath(expired) of the stacks of D.  The stacks of a battle  *)
(* fall one by one; they are on hexes of their own, so the order is not     *)
(* seen.  Images and elementals leave no body: an elemental that was killed *)
(* leaves its hex at once, the others when MakeCreaturesVanish is called.   *)
Bury(f, D, expired) ==
  LET first == {s \in D : ~f.unit[s].isDead}
      images == ImagesOf(f, first)
      fallen == first \cup {s \in images : ~f.unit[s].isDead}
      bodies == {s \in fallen : ~LeavesNoBody(f.unit[s])}
      gone == {s \in fallen : /\ f.unit[s].kind = "elemental"
                              /\ ~(expired /\ s \in first)}
      freed == (UNION {Cells(f, s) : s \in bodies})
               \cup {f.unit[s].hex : s \in gone}
      Pile(h) == {s \in bodies : Piled(f, s, h)}
  IN  [f EXCEPT
        !.unit = [s \in Slots |->
                    LET u == f.unit[s]
                    IN  [u EXCEPT
                           !.isDead = u.isDead \/ s \in fallen,
                           !.dying = u.dying /\ s \notin fallen,
                           !.alive = u.alive /\ s \notin images,
                           !.mirror = IF Unlinked(f, s, fallen) THEN 0 ELSE u.mirror]],
        !.corpses = [h \in Hexes |->
                       IF Pile(h) = {} THEN @[h]
                       ELSE Append(@[h], [slot |-> f.occupant[h],
                                          other |-> f.other[h]])],
        !.occupant = [h \in Hexes |-> IF h \in freed THEN None ELSE @[h]],
        !.vanish = @ \cup ((fallen \ bodies) \ gone)]

(* combatManager::MakeCreaturesVanish                                       *)
Vanish(f) ==
  [f EXCEPT !.occupant = [h \in Hexes |->
                            IF \E s \in f.vanish : h \in Cells(f, s)
                            THEN None ELSE @[h]],
            !.vanish = {}]

(* army::Rebirth, of the stacks that PowEffect did not bury                 *)
Reborn(f) ==
  [f EXCEPT !.unit = [s \in Slots |->
     LET u == f.unit[s]
     IN  IF u.dying /\ u.kind = "phoenix" /\ ~u.reborn
         THEN [u EXCEPT !.alive = TRUE, !.isDead = FALSE,
                        !.dying = FALSE, !.reborn = TRUE]
         ELSE u]]

(* The end of army::PowEffect                                               *)
PowEffect(f) ==
  LET dead == {s \in Slots : /\ f.unit[s].dying
                             /\ f.unit[s].kind = "phoenix" =>
                                  f.unit[s].reborn}
  IN  Reborn(Vanish(Bury([f EXCEPT !.vanish = {}], dead, FALSE)))

(* army::Damage of the stacks of V, which kills those of K to the last.     *)
(* Whatever hits an image destroys it.                                      *)
Struck(f, V, K) ==
  LET killed == {s \in V : s \in K \/ f.unit[s].image}
  IN  [f EXCEPT !.unit = [s \in Slots |->
         LET u == f.unit[s]
         IN  [u EXCEPT !.alive = u.alive /\ s \notin killed,
                       !.dying = u.dying \/ s \in killed]]]

(* The loop at the end of combatManager::CastSpell, run for every stack     *)
(* whatever the spell was cast on.                                          *)
CastSpellEnds(f) ==
  [f EXCEPT !.unit = [s \in Slots |-> [f.unit[s] EXCEPT !.dying = FALSE]]]

-----------------------------------------------------------------------------
Spend(spell) == spell \in Book /\ budget > 0 /\ budget' = budget - 1
Victims(f) == SUBSET Standing(f) \ {{}}

(* One blow of DoAttack, DoHydraAttack, ChargingDamage or SpecialAttack, or *)
(* a damage spell: it hits the stacks of V and kills those of K.            *)
Blow(V, K) ==
  /\ field' = PowEffect(Struck(field, V, K))
  /\ UNCHANGED <<budget, round>>

(* Mutant: the second victim's death does not keep the Cyclops from casting.*)
MayParalyze_Either(f, V) == \E s \in V : f.unit[s].alive

(* A Cyclops paralyzes one of its two victims only if neither fell.         *)
MayParalyze(f, V) == \A s \in V : f.unit[s].alive

(* The blow of a creature whose ability PowEffect casts on a survivor, by   *)
(* CastSpell, before the dead are buried.                                   *)
AbilityBlow(V, K) ==
  /\ Cardinality(V) <= 2
  /\ MayParalyze(Struck(field, V, K), V)
  /\ field' = PowEffect(CastSpellEnds(Struck(field, V, K)))
  /\ UNCHANGED <<budget, round>>

(* OccupyHexes, for a stack that faces right or left from now on.           *)
OccupyHexes(f, s, right) ==
  IF f.unit[s].wide
  THEN [f EXCEPT !.unit[s].hex = IF right THEN @ - 1 ELSE @ + 1] ELSE f

(* army::SpecialAttack at a target behind the shooter: it turns, shoots,    *)
(* and calls OccupyHexes once more before it faces forward again.           *)
ShootBehind(s, V, K) ==
  LET right == s[1] = 1
  IN  /\ s \in Shooters /\ s \in Standing(field) /\ s \notin V
      /\ field' = OccupyHexes(PowEffect(Struck(OccupyHexes(field, s, right),
                                               V, K)), s, right)
      /\ UNCHANGED <<budget, round>>

-----------------------------------------------------------------------------
(* The grid updates of army::Walk and army::FlyTo.                          *)
Moved(f, s, hex) ==
  LET old == Cells(f, s)
      u == f.unit[s]
      new == Footprint(s[1], u.wide, hex)
  IN  [f EXCEPT
        !.unit[s].hex = hex,
        !.occupant = [h \in Hexes |-> IF h \in new THEN s
                                      ELSE IF h \in old THEN None ELSE @[h]],
        !.other = [h \in Hexes |->
                     IF h \in new
                     THEN IF u.wide THEN OtherWay(s[1], hex, h) ELSE 0
                     ELSE IF h \in old THEN 0 ELSE @[h]]]

(* A stack moves to hexes that are free or its own.  It may end on a        *)
(* burning hex, which hurts it, or kills it (CheckBurnCreature).            *)
Move(s, hex, burnt, K) ==
  LET moved == Moved(field, s, hex)
      new == Footprint(s[1], field.unit[s].wide, hex)
  IN  /\ s \in Standing(field) /\ hex # field.unit[s].hex
      /\ new \subseteq Hexes
      /\ \A h \in new : field.occupant[h] \in {None, s}
      /\ field' = IF burnt THEN PowEffect(Struck(moved, {s}, K)) ELSE moved
      /\ UNCHANGED <<budget, round>>

(* army::CanFit(hex, 0, 0) for the stack s, in the turn of the stack a: the *)
(* rear hex must be free; the hex ahead may also be the active stack's.     *)
CanFit(f, s, hex, a) ==
  /\ hex \in Hexes /\ f.occupant[hex] = None
  /\ f.unit[s].wide => /\ hex + Ahead(s[1]) \in Hexes
                       /\ f.occupant[hex + Ahead(s[1])] \in {None, a}

(* case SPELL_TELEPORT of combatManager::CastSpell.  The hexes that are     *)
(* freed are those that the grid tells, not those that the stack needs; a   *)
(* wide stack that does not fit is put one hex further back.                *)
Teleported(f, s, hex) ==
  LET u == f.unit[s]
      old == {u.hex, u.hex + f.other[u.hex]}
      rear == IF u.wide /\ f.occupant[hex + Ahead(s[1])] \notin {None, s}
              THEN hex - Ahead(s[1]) ELSE hex
      new == Footprint(s[1], u.wide, rear)
  IN  [f EXCEPT
        !.unit[s].hex = rear,
        !.occupant = [h \in Hexes |-> IF h \in new THEN s
                                      ELSE IF h \in old THEN None ELSE @[h]],
        !.other = [h \in Hexes |->
                     IF h \notin new THEN @[h]
                     ELSE IF u.wide THEN OtherWay(s[1], rear, h) ELSE 0]]

CastTeleport(s, hex, a) ==
  /\ Spend("Teleport")
  /\ s \in Standing(field) /\ a \in Standing(field)
  /\ CanFit(field, s, hex, a)
  /\ field' = Teleported(field, s, hex)
  /\ UNCHANGED round

-----------------------------------------------------------------------------
(* The reach of a grenade: 4.5 times the width of a hex.                    *)
Reach == 4
Near(c, h) == h # c /\ h - c \in -Reach..Reach

(* One turn of the loop of combatManager::ImplosionGrenade: whoever has the *)
(* hex h, near the center c, is pulled one hex towards it if the next hex   *)
(* is free.  The grid says where a wide stack's other hex is, and its marks *)
(* go with the stack; a narrow one takes the mark that it finds.  In a row  *)
(* a wide stack's second hex follows into its first.                        *)
Pull(f, c, h, a) ==
  LET s    == f.occupant[h]
      wide == f.unit[s].wide
      step == IF c > h THEN 1 ELSE -1
      way  == f.other[h]
      old  == IF wide THEN {h, h + way} ELSE {h}
      new  == {x + step : x \in old}
  IN  IF s = None \/ ~CanFit(f, s, h + step, a) THEN f
      ELSE [f EXCEPT
              !.unit[s].hex = IF wide /\ way = -Ahead(s[1]) THEN h + step + way
                                                            ELSE h + step,
              !.occupant = [x \in Hexes |-> IF x \in new THEN s
                                            ELSE IF x \in old THEN None ELSE @[x]],
              !.other = [x \in Hexes |-> IF ~wide THEN @[x]
                                         ELSE IF x \in new THEN @[x - step]
                                         ELSE IF x \in old THEN 0 ELSE @[x]]]

(* The hexes near c, the nearest first, on the left before on the right.    *)
PullOrder(c) ==
  [n \in 1..(2 * Reach) |-> IF n % 2 = 1 THEN c - (n + 1) \div 2 ELSE c + n \div 2]

(* The board after n turns of the loop.                                     *)
Pulling(f, c, a) ==
  LET pulling[n \in 0..(2 * Reach)] ==
        IF n = 0 THEN f
        ELSE IF PullOrder(c)[n] \notin Hexes THEN pulling[n - 1]
        ELSE Pull(pulling[n - 1], c, PullOrder(c)[n], a)
  IN  pulling

(* combatManager::ImplosionGrenade at hex c: the stacks of V are hurt, all  *)
(* that are near are pulled, and those that fell are buried where they are  *)
(* by then.                                                                 *)
CastGrenade(c, a, V, K) ==
  /\ Spend("Grenade")
  /\ a \in Standing(field) /\ \A s \in V : \E h \in Cells(field, s) : h = c \/ Near(c, h)
  /\ OldMarks \/ \A h \in Hexes : field.other[h] # 0 =>
                     field.occupant[h] # None /\ field.unit[field.occupant[h]].wide
  /\ field' = PowEffect(Pulling(Struck(field, V, K), c, a)[2 * Reach])
  /\ UNCHANGED round

-----------------------------------------------------------------------------
(* Mutant: any stack that is gone gives its slot away.                      *)
Free_AnyDead(u) == u.kind = "none" \/ (~u.alive /\ u.isDead)

(* A slot that AddArmy may take.                                            *)
Free(u) == u.kind = "none" \/ (~u.alive /\ u.isDead /\ LeavesNoBody(u))

NewSlot(f, side) ==
  CHOOSE s \in Slots : /\ s[1] = side /\ Free(f.unit[s])
                       /\ \A i \in 1..(s[2] - 1) : ~Free(f.unit[<<side, i>>])
HasSlot(f, side) == \E i \in Idx : Free(f.unit[<<side, i>>])

(* combatManager::AddArmy                                                   *)
AddArmy(f, side, kind, image, wide, hex) ==
  LET s == NewSlot(f, side)
      new == IF f.unit[s].kind = "none" THEN 1 ELSE 0
  IN  IF f.occupant[hex] # None THEN f
      ELSE [Place(f, s, kind, image, wide, hex)
              EXCEPT !.numCreatures[side] = @ + new]

(* combatManager::MirrorImage: the image appears on some hex nearby where   *)
(* the original would fit.                                                  *)
CastMirrorImage(s, hex, power, a) ==
  LET u == field.unit[s]
      i == NewSlot(field, s[1])
  IN  /\ Spend("MirrorImage")
      /\ s \in Standing(field) /\ a \in Standing(field)
      /\ u.mirror = 0 /\ u.original = 0
      /\ HasSlot(field, s[1])
      /\ CanFit(field, s, hex, a)
      /\ field' = [AddArmy(field, s[1], u.kind, TRUE, u.wide, hex) EXCEPT
                     !.unit[i].lifespan = power,
                     !.unit[i].original = s[2],
                     !.unit[s].mirror = i[2]]
      /\ UNCHANGED round

(* combatManager::SummonElemental, on a hex near the hero                   *)
CastSummon(side, hex) ==
  /\ Spend("Summon")
  /\ HasSlot(field, side) /\ field.occupant[hex] = None
  /\ field' = AddArmy(field, side, "elemental", FALSE, FALSE, hex)
  /\ UNCHANGED round

-----------------------------------------------------------------------------
(* Mutant: the other half of a wide corpse may be under somebody's feet.    *)
Raisable_Half(f, side, h, i) == f.corpses[h][i].slot[1] = side

(* The corpse at place i of the pile of h can be raised by the side.        *)
Raisable(f, side, h, i) ==
  LET corpse == f.corpses[h][i]
  IN  /\ corpse.slot[1] = side
      /\ corpse.other # 0 => f.occupant[h + corpse.other] = None

(* combatManager::FindResurrectArmyIndex of a free hex: the topmost.        *)
Topmost(f, side, h, i) ==
  /\ i \in DOMAIN f.corpses[h] /\ Raisable(f, side, h, i)
  /\ \A j \in (i + 1)..Len(f.corpses[h]) : ~Raisable(f, side, h, j)

(* The loop of combatManager::Resurrect at hex h: the corpse of s is taken  *)
(* from the pile, and the hex is given to the last corpse of the pile.  The *)
(* places above s move down, their corpseOtherHexIsToLeft does not.         *)
Unearthed(f, s, h) ==
  LET pile == f.corpses[h]
      n == Len(pile)
      i == CHOOSE j \in 1..n : pile[j].slot = s
      shorter == [j \in 1..(n - 1) |->
                    IF j < i THEN pile[j]
                    ELSE [slot |-> pile[j + 1].slot, other |-> pile[j].other]]
  IN  IF \E j \in 1..n : pile[j].slot = s
      THEN [f EXCEPT !.occupant[h] = pile[n].slot, !.other[h] = 0,
                     !.corpses[h] = shorter]
      ELSE [f EXCEPT !.corpses[h] = SubSeq(pile, 1, n - 1)]

(* combatManager::Resurrect of the corpse at place i of the pile of h       *)
Raised(f, side, h, i) ==
  LET corpse == f.corpses[h][i]
      s == corpse.slot
      h2 == h + corpse.other
      rear == IF ~f.unit[s].wide THEN f.unit[s].hex
              ELSE IF (side = 0) = (h2 > h) THEN h ELSE h2
      g == Unearthed(f, s, h)
      up == IF corpse.other # 0 THEN Unearthed(g, s, h2) ELSE g
      cells == IF f.unit[s].wide THEN {h, h2} ELSE {}
  IN  [up EXCEPT
        !.unit[s].hex = rear, !.unit[s].alive = TRUE,
        !.unit[s].isDead = FALSE,
        !.other = [c \in Hexes |-> IF c \in cells
                                   THEN OtherWay(side, rear, c) ELSE @[c]]]

CastRaise(side, h, i) ==
  /\ Spend("Raise")
  /\ field.occupant[h] = None
  /\ Topmost(field, side, h, i)
  /\ DigUp \/ \A c \in {h, h + field.corpses[h][i].other} :
                field.corpses[c][Len(field.corpses[c])].slot = field.corpses[h][i].slot
  /\ field' = Raised(field, side, h, i)
  /\ UNCHANGED round

-----------------------------------------------------------------------------
SlotOrder == [n \in 1..(2 * MaxStacks) |->
                <<(n - 1) \div MaxStacks, ((n - 1) % MaxStacks) + 1>>]

(* Mutant: the lifespan of a stack is not counted down.                     *)
StackRound_Forever(f, s, B, K) ==
  IF f.unit[s].alive /\ s \in B
  THEN PowEffect(Struck(f, {s}, K)) ELSE f

(* The loop of combatManager::ResetRound for one stack: if it burns,        *)
(* PowEffect runs, and forgets which stacks were to vanish.                 *)
StackRound(f, s, B, K) ==
  LET g == IF s \in B THEN PowEffect(Struck(f, {s}, K)) ELSE f
      left == IF g.unit[s].lifespan > 0 THEN g.unit[s].lifespan - 1
                                        ELSE g.unit[s].lifespan
      h == [g EXCEPT !.unit[s].lifespan = left]
  IN  IF ~f.unit[s].alive THEN f
      ELSE IF left = 0 THEN Bury(h, {s}, TRUE) ELSE h

(* The board after n turns of that loop.                                    *)
Resetting(f, B, K) ==
  LET resetting[n \in 0..(2 * MaxStacks)] ==
        IF n = 0 THEN [f EXCEPT !.vanish = {}]
        ELSE StackRound(resetting[n - 1], SlotOrder[n], B, K)
  IN  resetting

(* combatManager::ResetRound, with the stacks of B on fire, which kills     *)
(* those of K.                                                              *)
NewRound(B, K) ==
  /\ B \subseteq Standing(field) /\ (B # {} => Burning)
  /\ field' = Vanish(Resetting(field, B, K)[2 * MaxStacks])
  /\ round' = 1 - round
  /\ UNCHANGED budget

Fights ==
  \/ \E V \in Victims(field) : \E K \in SUBSET V :
       \/ Blow(V, K)
       \/ AbilityBlow(V, K)
       \/ \E s \in Shooters : ShootBehind(s, V, K)
  \/ \E s \in Slots, h \in Hexes :
       \E burnt \in BOOLEAN, K \in SUBSET {s} : Move(s, h, burnt, K)

Spells ==
  \/ \E s, a \in Slots, h \in Hexes :
       CastTeleport(s, h, a) \/ \E p \in Powers : CastMirrorImage(s, h, p, a)
  \/ \E side \in Sides, h \in Hexes :
       CastSummon(side, h) \/ \E i \in 1..MaxCorpses : CastRaise(side, h, i)
  \/ \E c \in Hexes, a \in Slots : \E V \in SUBSET Standing(field) :
       \E K \in SUBSET V : CastGrenade(c, a, V, K)

Round == \E B \in SUBSET Standing(field) : \E K \in SUBSET B : NewRound(B, K)

Next == Fights \/ Spells \/ Round

(* Rounds follow each other as long as the battle lasts.                    *)
TurnOver == round' = 1 - round
Spec == Init /\ [][Next]_vars /\ WF_round(TurnOver)
-----------------------------------------------------------------------------
(***************************************************************************)
(* Properties.  The code breaks them when                                  *)
(*   - a wide stack shoots behind itself (Shooters), is teleported or gets *)
(*     a mirror image (Book),                                              *)
(*   - a corpse is raised from under another (DigUp),                      *)
(*   - a grenade is thrown where a hex keeps the mark of a wide stack that *)
(*     is gone (OldMarks), or                                              *)
(*   - a stack burns in a round in which an image falls (Burning).         *)
(* The runs and the theorems of all but the last two are about the battles *)
(* without these; the last two state what the documents promise, and fail. *)
(***************************************************************************)

(* Types, outside of the cases above.                                       *)
TypeOK ==
  /\ field.unit \in [Slots -> Unit]
  /\ field.occupant \in [Hexes -> Slots \cup {None}]
  /\ field.other \in [Hexes -> {-1, 0, 1}]
  /\ \A h \in Hexes : field.corpses[h] \in Seq(Corpse)
  /\ field.numCreatures \in [Sides -> 0..MaxStacks]
  /\ field.vanish = {}
  /\ budget \in 0..Budget /\ round \in {0, 1}

(* Every stack that stands is on the hexes that its occupiedHex names, and  *)
(* no hex is taken by a stack that is not there: whoever finds a target, a  *)
(* path or an empty hex by the grid finds what the stacks say.  Wide stacks *)
(* that turn to shoot, teleport or are mirrored, corpses dug up and images  *)
(* that fall beside a fire break it, and are left out.                      *)
StandsOnHex ==
  \A s \in Standing(field) : \A h \in Cells(field, s) :
    h \in Hexes /\ field.occupant[h] = s
HexesFreed ==
  \A h \in Hexes : field.occupant[h] # None =>
    /\ field.occupant[h] \in Standing(field)
    /\ h \in Cells(field, field.occupant[h])
GridMatches == StandsOnHex /\ HexesFreed

(* Corpses lie where their stacks fell: every corpse is of a stack that is  *)
(* dead and leaves a body, and lies with all its hexes and nowhere else, so *)
(* that whoever is raised rises whole.  A grenade on old marks breaks it,   *)
(* and is left out like the other cases above.                              *)
PlacesOf(s) ==
  {h \in Hexes : \E i \in DOMAIN field.corpses[h] :
                   field.corpses[h][i].slot = s}
CorpsesMatch ==
  \A s \in Slots :
    \/ PlacesOf(s) = {}
    \/ /\ field.unit[s].isDead /\ ~LeavesNoBody(field.unit[s])
       /\ PlacesOf(s) = Cells(field, s)
       /\ \A h \in Cells(field, s) :
            \E i \in DOMAIN field.corpses[h] :
              field.corpses[h][i] =
                [slot |-> s,
                 other |-> IF field.unit[s].wide
                           THEN OtherWay(s[1], field.unit[s].hex, h) ELSE 0]

(* A stack and its mirror image know each other, an image never outlives    *)
(* its original, and a stack has one image at a time.  numCreatures counts  *)
(* the slots in use, which come first, so that loops reach every stack.     *)
(* Images of wide stacks, and images in a battle with fires, are left out.  *)
ImagesMatch ==
  /\ \A side \in Sides :
       {i \in Idx : field.unit[<<side, i>>].kind # "none"} = 1..field.numCreatures[side]
  /\ \A s \in Slots :
    LET u == field.unit[s]
        image == <<s[1], u.mirror>>
        original == <<s[1], u.original>>
    IN  /\ u.mirror # 0 => /\ image \in Standing(field)
                           /\ field.unit[image].image
                           /\ field.unit[image].original = s[2]
        /\ u.image /\ ~u.isDead => /\ original \in Standing(field)
                                   /\ field.unit[original].mirror = s[2]

(* Nobody is left half dead by a blow on several stacks: a stack that fell  *)
(* is buried (or risen) before the next one acts; outside of the cases      *)
(* above.                                                                   *)
NobodyHalfDead ==
  \A s \in Slots : /\ ~field.unit[s].dying
                   /\ s \in Standing(field) => field.unit[s].alive

(* No summoning takes the slot of a fallen stack that a spell can raise, or *)
(* that the army gets back after the battle; outside of the cases above.    *)
CasualtiesKept ==
  \A s \in DOMAIN Lineup :
    Lineup[s].kind # "elemental" =>
      field.unit[s].kind = Lineup[s].kind /\ ~field.unit[s].image

(* A mirror image lasts some rounds: in the end none is left on the board,  *)
(* if its stack is narrow and nobody burns while images fall (otherwise     *)
(* EmptyHexIsEmpty fails, and the image stays).                             *)
ImagesExpire ==
  <>[](\A h \in Hexes : field.occupant[h] # None =>
         ~field.unit[field.occupant[h]].image)

-----------------------------------------------------------------------------
(* "GetStackHex ... Return: The hex that the stack is standing on": the     *)
(* grid has the stack on the hex that it calls its own.                     *)
StackHexIsGridHex ==
  \A s \in Standing(field) : field.unit[s].hex \in Hexes
                             /\ field.occupant[field.unit[s].hex] = s

(* "IsHexEmpty ... Return: True if there are no creatures on that hex,      *)
(* false otherwise".                                                        *)
EmptyHexIsEmpty ==
  \A h \in Hexes :
    field.occupant[h] = None <=>
      ~\E s \in Standing(field) : h \in Cells(field, s)

=============================================================================
