------------------------- MODULE Battlefield_proofs -------------------------
(***************************************************************************)
(* Theorems about Battlefield, for every row of hexes, army, number of     *)
(* slots and spells, where the code keeps its own rules (Tame).  What Tame *)
(* excludes is what the code gets wrong: TLC has a counterexample for each *)
(* of its conjuncts.                                                       *)
(*                                                                         *)
(* The invariant is the same for a board between two actions and for one   *)
(* in the middle of a blow or of ResetRound (Mid), where stacks that were  *)
(* killed are not yet buried and images that fell still hold their hexes.  *)
(***************************************************************************)
EXTENDS Battlefield, NatLemmas, FiniteSetTheorems, TLAPS

Imaging == "MirrorImage" \in Book

(* No wide stack that shoots backwards, is teleported or gets an image; no  *)
(* corpse is raised from under another; nobody burns when images may fall;  *)
(* no grenade where the mark of a wide stack that is gone is left.          *)
Tame ==
  /\ \A s \in DOMAIN Lineup :
       Lineup[s].wide => /\ s \notin Shooters /\ ~Imaging
                         /\ "Teleport" \notin Book
  /\ ~DigUp /\ ~OldMarks /\ (Imaging => ~Burning)

Board ==
  [unit : [Slots -> Unit], occupant : [Hexes -> Slots \cup {None}],
   other : [Hexes -> {-1, 0, 1}], corpses : [Hexes -> Seq(Corpse)],
   numCreatures : [Sides -> 0..MaxStacks], vanish : SUBSET Slots]

Exists(u) == u.kind # "none"

Sound(u) ==
  /\ ~Exists(u) => u = [Nobody EXCEPT !.reborn = u.reborn]
  /\ u.image => Imaging /\ u.mirror = 0 /\ u.lifespan >= 0
  /\ ~u.image => u.original = 0 /\ u.lifespan = -1
  /\ u.isDead /\ ~u.image => ~u.alive
  /\ u.dying => Exists(u) /\ ~u.isDead
  /\ Exists(u) /\ ~u.isDead => (u.alive <=> ~u.dying)

WideOK(f) ==
  \A s \in Slots : f.unit[s].wide =>
    s \in DOMAIN Lineup /\ Lineup[s].wide /\ f.unit[s].kind # "elemental"

(* Who has hexes: those who stand, and dead images until they vanish.       *)
Held(f) == Standing(f) \cup f.vanish
Grid(f) ==
  /\ \A s \in f.vanish : Exists(f.unit[s]) /\ f.unit[s].isDead /\ f.unit[s].image
  /\ \A s \in Held(f) : \A h \in Cells(f, s) : h \in Hexes /\ f.occupant[h] = s
  /\ \A h \in Hexes : f.occupant[h] # None =>
       f.occupant[h] \in Held(f) /\ h \in Cells(f, f.occupant[h])

(* The mark that a stack has on its hexes, and takes into its grave.        *)
Mark(f, s, h) ==
  IF f.unit[s].wide THEN OtherWay(s[1], f.unit[s].hex, h) ELSE 0
Marks(f) ==
  /\ \A s \in Standing(f) : ~LeavesNoBody(f.unit[s]) =>
       \A h \in Cells(f, s) : f.other[h] = Mark(f, s, h)
  /\ (\E s \in DOMAIN Lineup : Lineup[s].wide) \/ \A h \in Hexes : f.other[h] = 0

(* The corpse of s lies on all its hexes, once on each, and nowhere else.   *)
Lies(f, s, h) == \E i \in DOMAIN f.corpses[h] : f.corpses[h][i].slot = s
Grave(f, s) ==
  /\ f.unit[s].isDead /\ ~LeavesNoBody(f.unit[s])
  /\ Cells(f, s) \subseteq Hexes
  /\ \A h \in Hexes : Lies(f, s, h) <=> h \in Cells(f, s)
  /\ \A h \in Hexes : \A i, j \in DOMAIN f.corpses[h] :
       f.corpses[h][i].slot = s =>
         /\ f.corpses[h][i].other = Mark(f, s, h)
         /\ f.corpses[h][j].slot = s => i = j
Graves(f) == \A s \in Slots : Grave(f, s) \/ \A h \in Hexes : ~Lies(f, s, h)

Fellow(s, i) == <<s[1], i>>
Links(f) ==
  \A s \in Slots :
    /\ f.unit[s].mirror # 0 =>
         /\ s \in Standing(f) /\ Fellow(s, f.unit[s].mirror) \in Standing(f)
         /\ f.unit[Fellow(s, f.unit[s].mirror)].image
         /\ f.unit[Fellow(s, f.unit[s].mirror)].original = s[2]
    /\ f.unit[s].image /\ s \in Standing(f) =>
         /\ f.unit[s].original # 0
         /\ Fellow(s, f.unit[s].original) \in Standing(f)
         /\ f.unit[Fellow(s, f.unit[s].original)].mirror = s[2]

Counted(f) ==
  \A side \in Sides, i \in Idx :
    Exists(f.unit[<<side, i>>]) <=> i <= f.numCreatures[side]

Kept(f) ==
  \A s \in DOMAIN Lineup : Lineup[s].kind # "elemental" =>
    f.unit[s].kind = Lineup[s].kind /\ ~f.unit[s].image

Mid(f) ==
  /\ f \in Board /\ \A s \in Slots : Sound(f.unit[s])
  /\ WideOK(f) /\ Grid(f) /\ Marks(f) /\ Graves(f)
  /\ Links(f) /\ Counted(f) /\ Kept(f)

(* Between two actions nobody is dying and nobody has yet to vanish.        *)
Good(f) == Mid(f) /\ f.vanish = {} /\ \A s \in Slots : ~f.unit[s].dying

(* An image that has not fallen.                                            *)
Image(f, s) == f.unit[s].image /\ ~f.unit[s].isDead

(* No image appears or stands up, and those that stay last as long.         *)
Keeps(f, g) ==
  \A s \in Slots : Image(g, s) =>
    Image(f, s) /\ g.unit[s].lifespan = f.unit[s].lifespan

IInv == Good(field) /\ budget \in 0..Budget /\ round \in {0, 1}
-----------------------------------------------------------------------------
(***************************************************************************)
(* Slots, units and boards.                                                *)
(***************************************************************************)

LEMMA SlotFacts ==
  /\ \A s \in Slots : s[1] \in Sides /\ s[2] \in Idx /\ s = <<s[1], s[2]>>
  /\ \A side \in Sides, i \in Idx :
       <<side, i>> \in Slots /\ <<side, i>>[1] = side /\ <<side, i>>[2] = i
  /\ None \notin Slots /\ 0 \notin Idx /\ Idx \subseteq Nat
BY BoardAssumption DEF Slots, Sides, Idx, None

LEMMA UnitFacts ==
  ASSUME NEW f \in Board, NEW s \in Slots
  PROVE  /\ f.unit[s] \in Unit
         /\ f.unit[s].image \in BOOLEAN /\ f.unit[s].wide \in BOOLEAN
         /\ f.unit[s].hex \in Int /\ f.unit[s].alive \in BOOLEAN
         /\ f.unit[s].dying \in BOOLEAN /\ f.unit[s].isDead \in BOOLEAN
         /\ f.unit[s].mirror \in Idx \cup {0} /\ f.unit[s].original \in Idx \cup {0}
         /\ f.unit[s].lifespan \in Int
BY DEF Board, Unit

LEMMA BoardFacts ==
  ASSUME NEW f \in Board
  PROVE  /\ f = [unit |-> f.unit, occupant |-> f.occupant, other |-> f.other,
                 corpses |-> f.corpses, numCreatures |-> f.numCreatures, vanish |-> f.vanish]
         /\ f.unit \in [Slots -> Unit] /\ f.occupant \in [Hexes -> Slots \cup {None}]
         /\ f.other \in [Hexes -> {-1, 0, 1}] /\ f.corpses \in [Hexes -> Seq(Corpse)]
         /\ f.numCreatures \in [Sides -> 0..MaxStacks] /\ f.vanish \in SUBSET Slots
BY DEF Board

LEMMA BoardMade ==
  ASSUME NEW g, NEW u \in [Slots -> Unit], NEW o \in [Hexes -> Slots \cup {None}],
         NEW t \in [Hexes -> {-1, 0, 1}], NEW c \in [Hexes -> Seq(Corpse)],
         NEW n \in [Sides -> 0..MaxStacks], NEW v \in SUBSET Slots,
         g = [unit |-> u, occupant |-> o, other |-> t, corpses |-> c,
              numCreatures |-> n, vanish |-> v]
  PROVE  g \in Board
BY DEF Board

(* The hexes of a stack depend on its side, width and rear hex.             *)
LEMMA CellFacts ==
  ASSUME NEW f \in Board, NEW s \in Slots
  PROVE  /\ f.unit[s].hex \in Cells(f, s) /\ Cells(f, s) \subseteq Int
         /\ ~f.unit[s].wide => Cells(f, s) = {f.unit[s].hex}
         /\ f.unit[s].wide => Cells(f, s) = {f.unit[s].hex, f.unit[s].hex + Ahead(s[1])}
<1>1. f.unit[s].wide \in BOOLEAN /\ f.unit[s].hex \in Int  BY UnitFacts
<1> QED  BY <1>1, SlotFacts DEF Cells, Footprint, Ahead

LEMMA StandingFacts ==
  ASSUME NEW f, NEW s
  PROVE  s \in Standing(f) <=> s \in Slots /\ Exists(f.unit[s]) /\ ~f.unit[s].isDead
BY DEF Standing, Exists

(* Units that differ at most in being alive or dying, and in how long they  *)
(* last.                                                                    *)
SameBody(u, v) ==
  /\ v.kind = u.kind /\ v.image = u.image /\ v.wide = u.wide /\ v.hex = u.hex
  /\ v.isDead = u.isDead /\ v.mirror = u.mirror /\ v.original = u.original

LEMMA SoundLives ==
  ASSUME NEW u \in Unit, NEW v \in Unit, Sound(u), SameBody(u, v),
         v.lifespan = u.lifespan, NEW killed \in BOOLEAN,
         killed => Exists(u) /\ ~u.isDead,
         v.alive <=> u.alive /\ ~killed, v.dying <=> u.dying \/ killed
  PROVE  Sound(v)
<1>1. Exists(v) <=> Exists(u)  BY DEF Exists, SameBody
<1>2. ~Exists(v) => v = [Nobody EXCEPT !.reborn = v.reborn]
  BY <1>1 DEF Sound, SameBody, Nobody, Unit
<1> QED  BY <1>1, <1>2 DEF Sound, SameBody, Unit

(* Two boards on which the same stacks stand and lie in the same places,    *)
(* whoever of them is alive or dying.                                       *)
Alike(f, g) ==
  /\ g.occupant = f.occupant /\ g.other = f.other /\ g.corpses = f.corpses
  /\ g.numCreatures = f.numCreatures /\ g.vanish = f.vanish
  /\ \A s \in Slots : SameBody(f.unit[s], g.unit[s])

LEMMA AlikeMid ==
  ASSUME NEW f, NEW g \in Board, Mid(f), Alike(f, g), \A s \in Slots : Sound(g.unit[s])
  PROVE  Mid(g)
<1>1. \A s \in Slots : Cells(g, s) = Cells(f, s)  BY DEF Cells, Alike, SameBody
<1>2. Standing(g) = Standing(f)  BY DEF Standing, Alike, SameBody
<1>3. WideOK(g)  BY DEF WideOK, Alike, SameBody, Mid
<1>4. Grid(g)
  <2>1. Held(g) = Held(f)  BY <1>2 DEF Held, Alike, SameBody
  <2>2. Held(f) \subseteq Slots
    <3>1. f.vanish \in SUBSET Slots  BY BoardFacts DEF Mid
    <3> QED  BY <3>1, StandingFacts DEF Held
  <2>3. f.vanish \subseteq Slots  BY <2>2 DEF Held
  <2> QED  BY <1>1, <2>1, <2>2, <2>3 DEF Grid, Mid, Alike, SameBody, Exists
<1>5. Marks(g)
  <2>1. \A s \in Slots, h \in Hexes : Mark(g, s, h) = Mark(f, s, h)  BY DEF Mark, Alike, SameBody
  <2>2. \A s \in Standing(f) : s \in Slots /\ \A h \in Cells(f, s) : h \in Hexes
    BY StandingFacts DEF Mid, Grid, Held
  <2>3. \A s \in Slots : LeavesNoBody(g.unit[s]) = LeavesNoBody(f.unit[s])
    BY DEF Alike, SameBody, LeavesNoBody
  <2> QED  BY <1>1, <1>2, <2>1, <2>2, <2>3 DEF Marks, Mid, Alike, SameBody
<1>6. Graves(g)
  <2>1. \A s \in Slots, h \in Hexes : Mark(g, s, h) = Mark(f, s, h)  BY DEF Mark, Alike, SameBody
  <2>2. \A s, h : Lies(g, s, h) = Lies(f, s, h)  BY DEF Lies, Alike, SameBody
  <2>3. \A s \in Slots : LeavesNoBody(g.unit[s]) = LeavesNoBody(f.unit[s])
    BY DEF Alike, SameBody, LeavesNoBody
  <2>4. \A s \in Slots : Grave(f, s) => Grave(g, s)
    BY <1>1, <2>1, <2>2, <2>3 DEF Grave, Alike, SameBody
  <2> QED  BY <2>2, <2>4 DEF Graves, Mid
<1>7. Links(g)
  <2>1. Links(f) /\ Standing(f) \subseteq Slots  BY StandingFacts DEF Mid
  <2> QED  BY <1>2, <2>1 DEF Links, Alike, SameBody
<1>8. Counted(g)
  <2>1. Counted(f) /\ \A side \in Sides, i \in Idx : <<side, i>> \in Slots
    BY SlotFacts DEF Mid
  <2> QED  BY <2>1 DEF Counted, Alike, SameBody, Exists
<1>9. Kept(g)  BY LineupAssumption DEF Kept, Mid, Alike, SameBody
<1> QED  BY <1>3, <1>4, <1>5, <1>6, <1>7, <1>8, <1>9 DEF Mid

-----------------------------------------------------------------------------
(***************************************************************************)
(* The parts of a blow.                                                    *)
(***************************************************************************)

LEMMA StruckMid ==
  ASSUME NEW f, Mid(f), NEW V \in SUBSET Standing(f), NEW K
  PROVE  Mid(Struck(f, V, K)) /\ Alike(f, Struck(f, V, K)) /\ Keeps(f, Struck(f, V, K))
<1> DEFINE g == Struck(f, V, K)
           killed == {s \in V : s \in K \/ f.unit[s].image}
           U == [s \in Slots |-> [f.unit[s] EXCEPT !.alive = f.unit[s].alive /\ s \notin killed,
                                                   !.dying = f.unit[s].dying \/ s \in killed]]
<1>0. f \in Board  BY DEF Mid
<1>1. g = [f EXCEPT !.unit = U]  BY DEF Struck
<1> HIDE DEF U
<1>2. g.unit = U  BY <1>0, <1>1 DEF Board
<1>3. /\ g.occupant = f.occupant /\ g.other = f.other /\ g.corpses = f.corpses
      /\ g.numCreatures = f.numCreatures /\ g.vanish = f.vanish
      /\ g = [unit |-> g.unit, occupant |-> g.occupant, other |-> g.other,
              corpses |-> g.corpses, numCreatures |-> g.numCreatures, vanish |-> g.vanish]
  BY <1>0, <1>1 DEF Board
<1> HIDE DEF g, killed
<1>4. ASSUME NEW s \in Slots
      PROVE /\ g.unit[s] \in Unit /\ SameBody(f.unit[s], g.unit[s])
            /\ g.unit[s].lifespan = f.unit[s].lifespan
            /\ g.unit[s].alive <=> f.unit[s].alive /\ s \notin killed
            /\ g.unit[s].dying <=> f.unit[s].dying \/ s \in killed
  <2>1. f.unit[s] \in Unit  BY <1>0, UnitFacts
  <2>2. g.unit[s] = [f.unit[s] EXCEPT !.alive = f.unit[s].alive /\ s \notin killed,
                                      !.dying = f.unit[s].dying \/ s \in killed]
    BY <1>2 DEF U
  <2>3. /\ (f.unit[s].alive /\ s \notin killed) \in BOOLEAN
        /\ (f.unit[s].dying \/ s \in killed) \in BOOLEAN
    OBVIOUS
  <2> DEFINE u == f.unit[s]
             v == g.unit[s]
             a == f.unit[s].alive /\ s \notin killed
             d == f.unit[s].dying \/ s \in killed
  <2>4. /\ v \in Unit /\ SameBody(u, v) /\ v.alive = a /\ v.dying = d
        /\ v.lifespan = u.lifespan
    <3>1. u \in Unit /\ a \in BOOLEAN /\ d \in BOOLEAN
          /\ v = [u EXCEPT !.alive = a, !.dying = d]
      BY <2>1, <2>2, <2>3
    <3> HIDE DEF u, v, a, d
    <3> QED  BY <3>1 DEF Unit, SameBody
  <2> QED  BY <2>4
<1>5. g \in Board
  <2>1. g.unit \in [Slots -> Unit]
    <3>1. \A s \in Slots : U[s] \in Unit  BY <1>2, <1>4
    <3>2. U = [s \in Slots |-> U[s]]  BY DEF U
    <3> QED  BY <1>2, <3>1, <3>2
  <2> QED  BY <1>0, <1>3, <2>1, BoardFacts DEF Board
<1>6. Alike(f, g)  BY <1>3, <1>4 DEF Alike
<1>7. ASSUME NEW s \in Slots  PROVE Sound(g.unit[s])
  <2>1. Sound(f.unit[s])  BY DEF Mid
  <2>2. s \in killed => Exists(f.unit[s]) /\ ~f.unit[s].isDead
    BY StandingFacts DEF killed
  <2>3. /\ f.unit[s] \in Unit /\ g.unit[s] \in Unit
        /\ SameBody(f.unit[s], g.unit[s]) /\ g.unit[s].lifespan = f.unit[s].lifespan
        /\ g.unit[s].alive <=> f.unit[s].alive /\ s \notin killed
        /\ g.unit[s].dying <=> f.unit[s].dying \/ s \in killed
    BY <1>0, <1>4, UnitFacts
  <2> QED  BY <2>1, <2>2, <2>3, SoundLives
<1>8. Keeps(f, g)  BY <1>4 DEF Keeps, Image, SameBody
<1> QED  BY <1>5, <1>6, <1>7, <1>8, AlikeMid DEF g

(* The sets of ProcessDeath: those who fall, with their images, and of them *)
(* those who leave a body, those whose hex is free at once.                 *)
First(f, D)    == {s \in D : ~f.unit[s].isDead}
Fallen(f, D)   == First(f, D) \cup {s \in ImagesOf(f, First(f, D)) : ~f.unit[s].isDead}
Bodies(f, D)   == {s \in Fallen(f, D) : ~LeavesNoBody(f.unit[s])}
Gone(f, D, e)  == {s \in Fallen(f, D) : /\ f.unit[s].kind = "elemental"
                                        /\ ~(e /\ s \in First(f, D))}
Freed(f, D, e) == (UNION {Cells(f, s) : s \in Bodies(f, D)})
                  \cup {f.unit[s].hex : s \in Gone(f, D, e)}
Pile(f, D, h)  == {s \in Bodies(f, D) : Piled(f, s, h)}

(* A unit and a pile after ProcessDeath.                                    *)
Buried(f, D, s) ==
  [f.unit[s] EXCEPT
     !.isDead = f.unit[s].isDead \/ s \in Fallen(f, D),
     !.dying = f.unit[s].dying /\ s \notin Fallen(f, D),
     !.alive = f.unit[s].alive /\ s \notin ImagesOf(f, First(f, D)),
     !.mirror = IF Unlinked(f, s, Fallen(f, D)) THEN 0 ELSE f.unit[s].mirror]
Heap(f, D, h) ==
  IF Pile(f, D, h) = {} THEN f.corpses[h]
  ELSE Append(f.corpses[h], [slot |-> f.occupant[h], other |-> f.other[h]])

LEMMA BuryParts ==
  ASSUME NEW f \in Board, NEW D, NEW e, NEW g, g = Bury(f, D, e)
  PROVE  /\ \A s \in Slots : g.unit[s] = Buried(f, D, s)
         /\ \A h \in Hexes : g.corpses[h] = Heap(f, D, h)
         /\ \A h \in Hexes : g.occupant[h] = IF h \in Freed(f, D, e) THEN None
                                                             ELSE f.occupant[h]
         /\ g.vanish = f.vanish \cup ((Fallen(f, D) \ Bodies(f, D)) \ Gone(f, D, e))
         /\ g.other = f.other /\ g.numCreatures = f.numCreatures
         /\ g = [unit |-> [s \in Slots |-> g.unit[s]],
                 occupant |-> [h \in Hexes |-> g.occupant[h]], other |-> g.other,
                 corpses |-> [h \in Hexes |-> g.corpses[h]],
                 numCreatures |-> g.numCreatures, vanish |-> g.vanish]
<1> DEFINE U == [s \in Slots |-> Buried(f, D, s)]
           C == [h \in Hexes |-> Heap(f, D, h)]
           O == [h \in Hexes |-> IF h \in Freed(f, D, e) THEN None ELSE f.occupant[h]]
           W == f.vanish \cup ((Fallen(f, D) \ Bodies(f, D)) \ Gone(f, D, e))
<1>1. g = [f EXCEPT !.unit = U, !.corpses = C, !.occupant = O, !.vanish = W]
  BY DEF Bury, First, Fallen, Bodies, Gone, Freed, Pile, Buried, Heap
<1> HIDE DEF U, C, O, W
<1>2. /\ g.unit = U /\ g.corpses = C /\ g.occupant = O /\ g.vanish = W
      /\ g.other = f.other /\ g.numCreatures = f.numCreatures
      /\ g = [unit |-> g.unit, occupant |-> g.occupant, other |-> g.other,
              corpses |-> g.corpses, numCreatures |-> g.numCreatures,
              vanish |-> g.vanish]
  BY <1>1 DEF Board
<1>3. /\ g.unit = [s \in Slots |-> g.unit[s]] /\ g.corpses = [h \in Hexes |-> g.corpses[h]]
      /\ g.occupant = [h \in Hexes |-> g.occupant[h]]
  BY <1>2 DEF U, C, O
<1>4. /\ \A s \in Slots : g.unit[s] = Buried(f, D, s)
      /\ \A h \in Hexes : g.corpses[h] = Heap(f, D, h)
      /\ \A h \in Hexes : g.occupant[h] = IF h \in Freed(f, D, e) THEN None
                                                          ELSE f.occupant[h]
  BY <1>2 DEF U, C, O
<1> QED  BY <1>2, <1>3, <1>4 DEF W

(* Units that a death changed: two in four fields at most.                  *)
LEMMA UnitFalls ==
  ASSUME NEW u \in Unit, NEW d \in BOOLEAN, NEW y \in BOOLEAN, NEW a \in BOOLEAN,
         NEW m \in Idx \cup {0}, NEW v,
         v = [u EXCEPT !.isDead = d, !.dying = y, !.alive = a, !.mirror = m]
  PROVE  /\ v \in Unit /\ v.isDead = d /\ v.dying = y /\ v.alive = a /\ v.mirror = m
         /\ v.kind = u.kind /\ v.image = u.image /\ v.wide = u.wide /\ v.hex = u.hex
         /\ v.original = u.original /\ v.lifespan = u.lifespan /\ v.reborn = u.reborn
BY DEF Unit

LEMMA SoundFalls ==
  ASSUME NEW u \in Unit, NEW v \in Unit, Sound(u),
         NEW fallen \in BOOLEAN, NEW image \in BOOLEAN,
         image => fallen /\ u.image, fallen => Exists(u) /\ ~u.isDead,
         fallen /\ ~u.image => ~u.alive,
         v.isDead <=> u.isDead \/ fallen, v.dying <=> u.dying /\ ~fallen,
         v.alive <=> u.alive /\ ~image, v.mirror \in {0, u.mirror},
         v.kind = u.kind, v.image = u.image, v.wide = u.wide, v.hex = u.hex,
         v.original = u.original, v.lifespan = u.lifespan, v.reborn = u.reborn
  PROVE  Sound(v)
<1>1. Exists(v) <=> Exists(u)  BY DEF Exists
<1>2. ~Exists(v) => v = [Nobody EXCEPT !.reborn = v.reborn]
  BY <1>1 DEF Sound, Nobody, Unit
<1> QED  BY <1>1, <1>2 DEF Sound, Unit

(* Only images fall while they are alive, and only images expire.           *)
Ripe(f, D) ==
  /\ D \subseteq {s \in Slots : Exists(f.unit[s])}
  /\ \A s \in D : ~f.unit[s].image => ~f.unit[s].alive
Expiring(f, D, e) == e => \A s \in D : f.unit[s].image

(* Whoever falls was standing, an image falls with its original and takes   *)
(* nobody along.                                                            *)
LEMMA FallenFacts ==
  ASSUME NEW f, Mid(f), NEW D, Ripe(f, D)
  PROVE  /\ Fallen(f, D) \subseteq Standing(f)
         /\ ImagesOf(f, First(f, D)) \subseteq Fallen(f, D)
         /\ \A s \in ImagesOf(f, First(f, D)) : f.unit[s].image
         /\ \A s \in Fallen(f, D) : ~f.unit[s].image => ~f.unit[s].alive
         /\ \A s \in Fallen(f, D) : f.unit[s].mirror # 0 =>
              Fellow(s, f.unit[s].mirror) \in Fallen(f, D)
<1> DEFINE I == ImagesOf(f, First(f, D))
<1>1. First(f, D) \subseteq Standing(f)  BY StandingFacts DEF First, Ripe
<1>2. ASSUME NEW s \in First(f, D), f.unit[s].mirror # 0
      PROVE  /\ Fellow(s, f.unit[s].mirror) \in Standing(f)
             /\ f.unit[Fellow(s, f.unit[s].mirror)].image
  BY <1>1, <1>2, StandingFacts DEF Mid, Links
<1>3. \A x \in I : \E s \in First(f, D) : f.unit[s].mirror # 0 /\ x = Fellow(s, f.unit[s].mirror)
  BY DEF ImagesOf, Fellow
<1>4. \A s \in First(f, D) : f.unit[s].mirror # 0 => Fellow(s, f.unit[s].mirror) \in I
  BY DEF ImagesOf, Fellow
<1> HIDE DEF I
<1>5. \A x \in I : x \in Standing(f) /\ f.unit[x].image  BY <1>2, <1>3
<1>6. I \subseteq Fallen(f, D)  BY <1>5, StandingFacts DEF Fallen, I
<1>7. Fallen(f, D) \subseteq First(f, D) \cup I  BY DEF Fallen, I
<1>8. \A s \in I : f.unit[s].mirror = 0
  <2>1. \A s \in Slots : Sound(f.unit[s])  BY DEF Mid
  <2> QED  BY <2>1, <1>5, StandingFacts DEF Sound
<1>9. First(f, D) \subseteq D  BY DEF First
<1> QED  BY <1>1, <1>4, <1>5, <1>6, <1>7, <1>8, <1>9 DEF I, Ripe

LEMMA BuryUnits ==
  ASSUME NEW f, Mid(f), NEW D, Ripe(f, D), NEW e,
         NEW g, g = Bury(f, D, e), NEW s \in Slots
  PROVE  /\ g.unit[s] \in Unit /\ Sound(g.unit[s])
         /\ g.unit[s].isDead <=> f.unit[s].isDead \/ s \in Fallen(f, D)
         /\ g.unit[s].dying <=> f.unit[s].dying /\ s \notin Fallen(f, D)
         /\ g.unit[s].mirror =
              IF Unlinked(f, s, Fallen(f, D)) THEN 0 ELSE f.unit[s].mirror
         /\ g.unit[s].kind = f.unit[s].kind /\ g.unit[s].image = f.unit[s].image
         /\ g.unit[s].wide = f.unit[s].wide /\ g.unit[s].hex = f.unit[s].hex
         /\ g.unit[s].original = f.unit[s].original
         /\ g.unit[s].lifespan = f.unit[s].lifespan
         /\ g.unit[s].reborn = f.unit[s].reborn
<1> DEFINE u == f.unit[s]
           v == g.unit[s]
           d == u.isDead \/ s \in Fallen(f, D)
           y == u.dying /\ s \notin Fallen(f, D)
           a == u.alive /\ s \notin ImagesOf(f, First(f, D))
           m == IF Unlinked(f, s, Fallen(f, D)) THEN 0 ELSE u.mirror
<1>0. f \in Board /\ Sound(u)  BY DEF Mid
<1>1. u \in Unit /\ u.mirror \in Idx \cup {0}  BY <1>0, UnitFacts
<1>2. v = [u EXCEPT !.isDead = d, !.dying = y, !.alive = a, !.mirror = m]
  <2>1. v = Buried(f, D, s)  BY <1>0, BuryParts
  <2> QED  BY <2>1 DEF Buried
<1>3. d \in BOOLEAN /\ y \in BOOLEAN /\ a \in BOOLEAN /\ m \in Idx \cup {0}
  BY <1>1
<1>4. /\ s \in Fallen(f, D) => Exists(u) /\ ~u.isDead
      /\ s \in ImagesOf(f, First(f, D)) => s \in Fallen(f, D) /\ u.image
      /\ s \in Fallen(f, D) /\ ~u.image => ~u.alive
  <2>1. /\ Fallen(f, D) \subseteq Standing(f)
        /\ ImagesOf(f, First(f, D)) \subseteq Fallen(f, D)
        /\ \A x \in ImagesOf(f, First(f, D)) : f.unit[x].image
        /\ \A x \in Fallen(f, D) : ~f.unit[x].image => ~f.unit[x].alive
    BY FallenFacts
  <2> QED  BY <2>1, StandingFacts
<1> HIDE DEF v, u
<1>5. /\ v \in Unit /\ v.isDead = d /\ v.dying = y /\ v.alive = a /\ v.mirror = m
      /\ v.kind = u.kind /\ v.image = u.image /\ v.wide = u.wide /\ v.hex = u.hex
      /\ v.original = u.original /\ v.lifespan = u.lifespan /\ v.reborn = u.reborn
  <2> HIDE DEF d, y, a, m
  <2> QED  BY <1>1, <1>2, <1>3 DEF Unit
<1>6. Sound(v)
  <2> DEFINE fallen == s \in Fallen(f, D)
             image == s \in ImagesOf(f, First(f, D))
  <2>1. fallen \in BOOLEAN /\ image \in BOOLEAN  OBVIOUS
  <2>2. v.mirror \in {0, u.mirror}  BY <1>5
  <2>3. /\ v.isDead <=> u.isDead \/ fallen
        /\ v.dying <=> u.dying /\ ~fallen
        /\ v.alive <=> u.alive /\ ~image
    BY <1>5
  <2>4. /\ image => fallen /\ u.image
        /\ fallen => Exists(u) /\ ~u.isDead
        /\ fallen /\ ~u.image => ~u.alive
    BY <1>4
  <2> HIDE DEF fallen, image, m, d, y, a
  <2> QED  BY <1>0, <1>1, <1>5, <2>1, <2>2, <2>3, <2>4, SoundFalls
<1> QED  BY <1>5, <1>6 DEF u, v

(* The grid after deaths: the hexes of those who fell are free, but for the *)
(* images that have yet to vanish.                                          *)
LEMMA BuryGrid ==
  ASSUME NEW f, Mid(f), NEW D, Ripe(f, D),
         NEW e, Expiring(f, D, e),
         NEW g, g = Bury(f, D, e)
  PROVE  /\ Grid(g) /\ g.vanish \subseteq Slots
         /\ Standing(g) = Standing(f) \ Fallen(f, D)
         /\ \A s \in Slots : Cells(g, s) = Cells(f, s)
         /\ \A h \in Hexes : g.occupant[h] \in Slots \cup {None}
<1> DEFINE F == Fallen(f, D)
           B == Bodies(f, D)
           G == Gone(f, D, e)
<1>1. f \in Board /\ Grid(f) /\ f.vanish \subseteq Slots /\ WideOK(f)
  BY BoardFacts DEF Mid
<1>2. F \subseteq Standing(f) /\ F \subseteq Slots  BY FallenFacts, StandingFacts
<1>3. \A s \in Slots :
        /\ g.unit[s].isDead <=> f.unit[s].isDead \/ s \in F
        /\ g.unit[s].kind = f.unit[s].kind /\ g.unit[s].image = f.unit[s].image
        /\ g.unit[s].wide = f.unit[s].wide /\ g.unit[s].hex = f.unit[s].hex
  BY BuryUnits
<1>4. \A s \in Slots : Cells(g, s) = Cells(f, s)  BY <1>3 DEF Cells
<1>5. Standing(g) = Standing(f) \ F  BY <1>3 DEF Standing
<1>6. g.vanish = f.vanish \cup ((F \ B) \ G)  BY <1>1, BuryParts
<1>7. B \subseteq F /\ G \subseteq F  BY DEF Bodies, Gone
<1>8. ASSUME NEW s \in (F \ B) \ G  PROVE f.unit[s].image
  <2>1. LeavesNoBody(f.unit[s])  BY <1>8 DEF Bodies
  <2>2. CASE f.unit[s].kind = "elemental"
    <3>1. e /\ s \in First(f, D)  BY <1>8, <2>2 DEF Gone
    <3> QED  BY <3>1 DEF First, Expiring
  <2> QED  BY <2>1, <2>2 DEF LeavesNoBody
<1>9. ASSUME NEW s \in G  PROVE Cells(f, s) = {f.unit[s].hex}
  <2>1. s \in Slots /\ f.unit[s].kind = "elemental"  BY <1>2, <1>7 DEF Gone
  <2>2. ~f.unit[s].wide  BY <1>1, <2>1 DEF WideOK
  <2> QED  BY <1>1, <2>1, <2>2, CellFacts
<1>10. \A h : h \in Freed(f, D, e) <=> \E s \in B \cup G : h \in Cells(f, s)
  <2> DEFINE X == UNION {Cells(f, s) : s \in B}
             Y == {f.unit[s].hex : s \in G}
  <2>1. Freed(f, D, e) = X \cup Y  BY DEF Freed
  <2> HIDE DEF B, G
  <2>2. \A s \in G : Cells(f, s) = {f.unit[s].hex}  BY <1>9
  <2>3. \A h : h \in X <=> \E s \in B : h \in Cells(f, s)  OBVIOUS
  <2>4. \A h : h \in Y <=> \E s \in G : h \in Cells(f, s)  BY <2>2
  <2> HIDE DEF X, Y
  <2> QED  BY <2>1, <2>3, <2>4
<1>11. Held(g) = Held(f) \ (B \cup G)
  <2>1. \A s \in f.vanish : s \notin F
    BY <1>1, <1>2, StandingFacts DEF Grid
  <2> QED  BY <1>2, <1>5, <1>6, <1>7, <2>1 DEF Held
<1>12. Held(f) \subseteq Slots  BY <1>1, StandingFacts DEF Held
<1>13. \A h \in Hexes : g.occupant[h] = IF h \in Freed(f, D, e) THEN None ELSE f.occupant[h]
  BY <1>1, BuryParts
<1>14. B \cup G \subseteq Held(f)  BY <1>2, <1>7 DEF Held
<1> HIDE DEF F, B, G
<1>15. \A s \in g.vanish : Exists(g.unit[s]) /\ g.unit[s].isDead /\ g.unit[s].image
  <2>1. ASSUME NEW s \in f.vanish
        PROVE  Exists(g.unit[s]) /\ g.unit[s].isDead /\ g.unit[s].image
    BY <1>1, <1>3 DEF Grid, Exists
  <2>2. ASSUME NEW s \in (F \ B) \ G
        PROVE  Exists(g.unit[s]) /\ g.unit[s].isDead /\ g.unit[s].image
    BY <1>2, <1>3, <1>8, StandingFacts DEF Exists
  <2> QED  BY <1>6, <2>1, <2>2
<1>16. ASSUME NEW s \in Held(g), NEW h \in Cells(g, s)
       PROVE  h \in Hexes /\ g.occupant[h] = s
  <2>1. s \in Held(f) /\ s \in Slots /\ s \notin B \cup G /\ h \in Cells(f, s)
    BY <1>4, <1>11, <1>12
  <2>2. h \in Hexes /\ f.occupant[h] = s  BY <1>1, <2>1 DEF Grid
  <2>3. \A x \in B \cup G : h \in Cells(f, x) => x = s
    BY <1>1, <1>14, <2>2 DEF Grid
  <2> QED  BY <1>10, <1>13, <2>1, <2>2, <2>3
<1>17. ASSUME NEW h \in Hexes, g.occupant[h] # None
       PROVE  g.occupant[h] \in Held(g) /\ h \in Cells(g, g.occupant[h])
  <2>1. h \notin Freed(f, D, e) /\ g.occupant[h] = f.occupant[h]  BY <1>13, <1>17
  <2>2. f.occupant[h] \in Held(f) /\ h \in Cells(f, f.occupant[h])
    BY <1>1, <1>17, <2>1 DEF Grid
  <2> QED  BY <1>4, <1>10, <1>11, <1>12, <2>1, <2>2
<1>18. Grid(g)  BY <1>15, <1>16, <1>17 DEF Grid
<1>19. \A h \in Hexes : g.occupant[h] \in Slots \cup {None}  BY <1>1, <1>13 DEF Board
<1>20. g.vanish \subseteq Slots  BY <1>1, <1>2, <1>6
<1> QED  BY <1>4, <1>5, <1>18, <1>19, <1>20 DEF F

(* The piles after deaths: a body is laid on top of the pile of each of its *)
(* hexes, or of none.                                                       *)
LEMMA BuryGraves ==
  ASSUME NEW f, Mid(f), NEW D, Ripe(f, D),
         NEW e, NEW g, g = Bury(f, D, e)
  PROVE  Graves(g) /\ \A h \in Hexes : g.corpses[h] \in Seq(Corpse)
<1> DEFINE F == Fallen(f, D)
           B == Bodies(f, D)
           Room(s) == \A c \in Cells(f, s) : Len(f.corpses[c]) < MaxCorpses
           P(h) == Pile(f, D, h)
           N(h) == Len(f.corpses[h])
<1>1. f \in Board /\ Grid(f) /\ Marks(f) /\ Graves(f)  BY DEF Mid
<1>2. F \subseteq Standing(f) /\ B \subseteq F /\ B \subseteq Slots
  BY FallenFacts, StandingFacts DEF Bodies
<1>3. \A s \in Slots :
        /\ g.unit[s].isDead <=> f.unit[s].isDead \/ s \in F
        /\ g.unit[s].kind = f.unit[s].kind /\ g.unit[s].image = f.unit[s].image
        /\ g.unit[s].wide = f.unit[s].wide /\ g.unit[s].hex = f.unit[s].hex
  BY BuryUnits
<1>4. \A s \in Slots : Cells(g, s) = Cells(f, s)  BY <1>3 DEF Cells
<1>5. \A s \in Slots : \A h : Mark(g, s, h) = Mark(f, s, h)  BY <1>3 DEF Mark
<1>6. \A s \in Slots : LeavesNoBody(g.unit[s]) = LeavesNoBody(f.unit[s])
  BY <1>3 DEF LeavesNoBody
<1>7. \A s, h : s \in P(h) <=> s \in B /\ h \in Cells(f, s) /\ Room(s)
  BY DEF Pile, Piled
<1>8. ASSUME NEW h \in Hexes, NEW s \in P(h)
      PROVE  s = f.occupant[h] /\ f.other[h] = Mark(f, s, h)
  <2>1. s \in Standing(f) /\ h \in Cells(f, s) /\ ~LeavesNoBody(f.unit[s])
    BY <1>2, <1>7 DEF Bodies
  <2> QED  BY <1>1, <2>1 DEF Grid, Held, Marks
<1>9. \A h \in Hexes : f.corpses[h] \in Seq(Corpse) /\ N(h) \in Nat  BY <1>1 DEF Board
<1>10. ASSUME NEW h \in Hexes, P(h) = {}  PROVE g.corpses[h] = f.corpses[h]
  <2>1. f \in Board  BY <1>1
  <2>2. g.corpses[h] = Heap(f, D, h)  BY <2>1, BuryParts
  <2> QED  BY <1>10, <2>2 DEF Heap
<1>11. ASSUME NEW h \in Hexes, P(h) # {}
       PROVE  /\ g.corpses[h] \in Seq(Corpse)
              /\ DOMAIN g.corpses[h] = 1..(N(h) + 1) /\ DOMAIN f.corpses[h] = 1..N(h)
              /\ \A i \in 1..N(h) : g.corpses[h][i] = f.corpses[h][i]
              /\ g.corpses[h][N(h) + 1].slot = f.occupant[h]
              /\ g.corpses[h][N(h) + 1].other = f.other[h]
              /\ f.occupant[h] \in P(h)
  <2>1. PICK s : s \in P(h)  BY <1>11
  <2>2. s = f.occupant[h] /\ s \in Slots  BY <1>2, <1>7, <1>8, <2>1
  <2>3. g.corpses[h] = Append(f.corpses[h], [slot |-> f.occupant[h], other |-> f.other[h]])
    <3>1. f \in Board  BY <1>1
    <3>2. g.corpses[h] = Heap(f, D, h)  BY <3>1, BuryParts
    <3> QED  BY <1>11, <3>2 DEF Heap
  <2>4. [slot |-> f.occupant[h], other |-> f.other[h]] \in Corpse
    BY <1>1, <2>2 DEF Corpse, Board
  <2> QED  BY <1>9, <2>1, <2>2, <2>3, <2>4
<1> HIDE DEF F, B, P, Room
<1>12. ASSUME NEW s \in Slots, NEW h \in Hexes
       PROVE  Lies(g, s, h) <=> Lies(f, s, h) \/ s \in P(h)
  <2>1. CASE P(h) = {}  BY <1>10, <2>1 DEF Lies
  <2>2. CASE P(h) # {}
    <3>1. s \in P(h) <=> s = f.occupant[h]  BY <1>8, <1>11, <2>2
    <3>2. Lies(g, s, h) <=> \E i \in 1..(N(h) + 1) : g.corpses[h][i].slot = s
      BY <1>11, <2>2 DEF Lies
    <3>3. Lies(f, s, h) <=> \E i \in 1..N(h) : f.corpses[h][i].slot = s
      BY <1>11, <2>2 DEF Lies
    <3>4. \A i : i \in 1..(N(h) + 1) <=> i \in 1..N(h) \/ i = N(h) + 1  BY <1>9
    <3> QED  BY <1>11, <2>2, <3>1, <3>2, <3>3, <3>4, ZenonT(60)
  <2> QED  BY <2>1, <2>2
<1>13. ASSUME NEW s \in Slots, s \notin B, Grave(f, s)  PROVE Grave(g, s)
  <2>1. g.unit[s].isDead /\ ~LeavesNoBody(g.unit[s]) /\ Cells(g, s) \subseteq Hexes
    BY <1>3, <1>4, <1>6, <1>13 DEF Grave
  <2>2. \A h \in Hexes : Lies(g, s, h) <=> h \in Cells(g, s)
    BY <1>4, <1>7, <1>12, <1>13 DEF Grave
  <2>3. ASSUME NEW h \in Hexes, NEW i \in DOMAIN g.corpses[h], NEW j \in DOMAIN g.corpses[h],
               g.corpses[h][i].slot = s
        PROVE  /\ g.corpses[h][i].other = Mark(g, s, h)
               /\ g.corpses[h][j].slot = s => i = j
    <3>1. CASE P(h) = {}
      <4>1. i \in DOMAIN f.corpses[h] /\ j \in DOMAIN f.corpses[h]
            /\ g.corpses[h] = f.corpses[h]
        BY <1>10, <2>3, <3>1
      <4> QED  BY <1>5, <1>13, <2>3, <4>1 DEF Grave
    <3>2. CASE P(h) # {}
      <4>1. s # f.occupant[h]  BY <1>7, <1>11, <1>13, <3>2
      <4>2. \A k \in DOMAIN g.corpses[h] : g.corpses[h][k].slot = s =>
              k \in DOMAIN f.corpses[h] /\ g.corpses[h][k] = f.corpses[h][k]
        <5>1. \A k \in 1..(N(h) + 1) : k \in 1..N(h) \/ k = N(h) + 1  BY <1>9
        <5> HIDE DEF N
        <5> QED  BY <1>11, <3>2, <4>1, <5>1
      <4> QED  BY <1>5, <1>13, <2>3, <4>2 DEF Grave
    <3> QED  BY <3>1, <3>2
  <2> QED  BY <2>1, <2>2, <2>3 DEF Grave
<1>14. ASSUME NEW s \in B  PROVE Grave(g, s) \/ \A h \in Hexes : ~Lies(g, s, h)
  <2>1. s \in Slots /\ s \in Standing(f) /\ s \in F /\ ~f.unit[s].isDead
    BY <1>2, StandingFacts
  <2>2. \A h \in Hexes : ~Lies(f, s, h)  BY <1>1, <2>1 DEF Graves, Grave
  <2>3. \A h \in Hexes : Lies(g, s, h) <=> h \in Cells(f, s) /\ Room(s)
    BY <1>7, <1>12, <2>1, <2>2
  <2>4. CASE ~Room(s)  BY <2>3, <2>4
  <2>5. CASE Room(s)
    <3>1. g.unit[s].isDead /\ ~LeavesNoBody(g.unit[s])
      BY <1>3, <1>6, <2>1 DEF B, Bodies
    <3>2. Cells(g, s) \subseteq Hexes  BY <1>1, <1>4, <2>1 DEF Grid, Held
    <3>3. \A h \in Hexes : Lies(g, s, h) <=> h \in Cells(g, s)  BY <1>4, <2>1, <2>3, <2>5
    <3>4. ASSUME NEW h \in Hexes, NEW i \in DOMAIN g.corpses[h], NEW j \in DOMAIN g.corpses[h],
                 g.corpses[h][i].slot = s
          PROVE  /\ g.corpses[h][i].other = Mark(g, s, h)
                 /\ g.corpses[h][j].slot = s => i = j
      <4>1. \A k \in DOMAIN f.corpses[h] : f.corpses[h][k].slot # s  BY <2>2 DEF Lies
      <4>2. P(h) # {}  BY <1>10, <3>4, <4>1
      <4>3. \A k \in DOMAIN g.corpses[h] : g.corpses[h][k].slot = s => k = N(h) + 1
        <5>1. \A k \in 1..(N(h) + 1) : k \in 1..N(h) \/ k = N(h) + 1  BY <1>9
        <5> HIDE DEF N
        <5> QED  BY <1>11, <4>1, <4>2, <5>1, ZenonT(60)
      <4>4. Lies(g, s, h)  BY <3>4 DEF Lies
      <4>5. s \in P(h)  BY <1>7, <2>3, <4>4
      <4>6. g.corpses[h][i].other = f.other[h]  BY <1>11, <3>4, <4>2, <4>3
      <4> QED  BY <1>5, <1>8, <2>1, <3>4, <4>3, <4>5, <4>6
    <3> QED  BY <3>1, <3>2, <3>3, <3>4 DEF Grave
  <2> QED  BY <2>4, <2>5
<1>15. ASSUME NEW s \in Slots, s \notin B, \A h \in Hexes : ~Lies(f, s, h)
       PROVE  \A h \in Hexes : ~Lies(g, s, h)
  BY <1>7, <1>12, <1>15
<1>16. Graves(g)  BY <1>1, <1>13, <1>14, <1>15 DEF Graves
<1>17. \A h \in Hexes : g.corpses[h] \in Seq(Corpse)  BY <1>9, <1>10, <1>11
<1> QED  BY <1>16, <1>17

(* A link is cut at both ends, or at neither.                               *)
LEMMA BuryLinks ==
  ASSUME NEW f, Mid(f), NEW D, Ripe(f, D),
         NEW e, NEW g, g = Bury(f, D, e), Standing(g) = Standing(f) \ Fallen(f, D)
  PROVE  Links(g)
<1> DEFINE F == Fallen(f, D)
<1>1. f \in Board /\ Links(f) /\ \A s \in Slots : Sound(f.unit[s])  BY DEF Mid
<1>2. \A s \in Slots :
        /\ g.unit[s].image = f.unit[s].image /\ g.unit[s].original = f.unit[s].original
        /\ g.unit[s].mirror = IF Unlinked(f, s, F) THEN 0 ELSE f.unit[s].mirror
  BY BuryUnits
<1>3. /\ F \subseteq Standing(f)
      /\ \A s \in F : f.unit[s].mirror # 0 => Fellow(s, f.unit[s].mirror) \in F
  BY FallenFacts
<1>4. \A s \in Slots : Unlinked(f, s, F) <=>
        \E t \in F : t[1] = s[1] /\ f.unit[t].original = s[2]
  BY DEF Unlinked
<1>5. \A s \in Slots, i \in Idx : /\ Fellow(s, i) \in Slots
                                  /\ Fellow(s, i)[1] = s[1] /\ Fellow(s, i)[2] = i
  BY SlotFacts DEF Fellow
<1>6. \A s, t \in Slots : s[1] = t[1] => t = Fellow(s, t[2])
  BY SlotFacts DEF Fellow
<1>7. \A s \in Slots : s[2] \in Idx /\ s[2] # 0  BY SlotFacts
<1>8. \A s \in Slots : f.unit[s].mirror \in Idx \cup {0} /\ f.unit[s].original \in Idx \cup {0}
  BY <1>1, UnitFacts
<1>9. Standing(f) \subseteq Slots  BY StandingFacts
<1>10. \A s \in Slots : /\ f.unit[s].image => f.unit[s].mirror = 0
                        /\ ~f.unit[s].image => f.unit[s].original = 0
  BY <1>1 DEF Sound
<1>11. Standing(g) = Standing(f) \ F  OBVIOUS
<1> HIDE DEF F
<1>12. ASSUME NEW s \in Slots, g.unit[s].mirror # 0
       PROVE  /\ s \in Standing(g) /\ Fellow(s, g.unit[s].mirror) \in Standing(g)
              /\ g.unit[Fellow(s, g.unit[s].mirror)].image
              /\ g.unit[Fellow(s, g.unit[s].mirror)].original = s[2]
  <2>1. g.unit[s].mirror = f.unit[s].mirror /\ ~Unlinked(f, s, F)  BY <1>2, <1>12
  <2> DEFINE t == Fellow(s, f.unit[s].mirror)
  <2>2. /\ s \in Standing(f) /\ t \in Standing(f)
        /\ f.unit[t].image /\ f.unit[t].original = s[2]
    BY <1>1, <1>12, <2>1 DEF Links
  <2>3. t \in Slots /\ t[1] = s[1]  BY <1>5, <1>8, <1>12, <2>1
  <2>4. t \notin F  BY <1>4, <2>1, <2>2, <2>3
  <2>5. s \notin F  BY <1>3, <1>12, <2>1, <2>4
  <2> QED  BY <1>2, <1>11, <2>1, <2>2, <2>3, <2>4, <2>5
<1>13. ASSUME NEW s \in Slots, g.unit[s].image, s \in Standing(g)
       PROVE  /\ g.unit[s].original # 0
              /\ Fellow(s, g.unit[s].original) \in Standing(g)
              /\ g.unit[Fellow(s, g.unit[s].original)].mirror = s[2]
  <2>1. f.unit[s].image /\ s \in Standing(f) /\ s \notin F  BY <1>2, <1>11, <1>13
  <2> DEFINE o == Fellow(s, f.unit[s].original)
  <2>2. /\ f.unit[s].original # 0 /\ o \in Standing(f) /\ f.unit[o].mirror = s[2]
    BY <1>1, <2>1 DEF Links
  <2>3. o \in Slots /\ o[1] = s[1] /\ o[2] = f.unit[s].original  BY <1>5, <1>8, <2>2
  <2>4. Fellow(o, s[2]) = s  BY <1>6, <2>3
  <2>5. o \notin F  BY <1>3, <1>7, <2>1, <2>2, <2>4
  <2>6. ~Unlinked(f, o, F)
    <3>1. SUFFICES ASSUME NEW t \in F, t[1] = o[1], f.unit[t].original = o[2]  PROVE FALSE
      BY <1>4, <2>3
    <3>2. t \in Standing(f) /\ t \in Slots  BY <1>3, <1>9
    <3>3. f.unit[t].image  BY <1>7, <1>10, <2>3, <3>1, <3>2
    <3>4. f.unit[Fellow(t, f.unit[t].original)].mirror = t[2]
      BY <1>1, <3>2, <3>3 DEF Links
    <3>5. Fellow(t, f.unit[t].original) = o  BY <1>6, <2>3, <3>1, <3>2
    <3>6. t[2] = s[2] /\ t[1] = s[1]  BY <2>2, <2>3, <3>1, <3>4, <3>5
    <3>7. t = s  BY <3>2, <3>6, SlotFacts
    <3> QED  BY <2>1, <3>7
  <2>7. g.unit[s].original = f.unit[s].original /\ g.unit[o].mirror = f.unit[o].mirror
    BY <1>2, <2>3, <2>6
  <2> QED  BY <1>11, <2>2, <2>5, <2>7
<1> QED  BY <1>12, <1>13 DEF Links

LEMMA BuryMid ==
  ASSUME NEW f, Mid(f), NEW D, Ripe(f, D),
         NEW e, Expiring(f, D, e),
         NEW g, g = Bury(f, D, e)
  PROVE  Mid(g)
<1>1. f \in Board /\ WideOK(f) /\ Marks(f) /\ Counted(f) /\ Kept(f)  BY DEF Mid
<1>2. \A s \in Slots :
        /\ g.unit[s] \in Unit /\ Sound(g.unit[s])
        /\ g.unit[s].kind = f.unit[s].kind /\ g.unit[s].image = f.unit[s].image
        /\ g.unit[s].wide = f.unit[s].wide /\ g.unit[s].hex = f.unit[s].hex
  BY BuryUnits
<1>3. /\ Grid(g) /\ g.vanish \subseteq Slots
      /\ Standing(g) = Standing(f) \ Fallen(f, D)
      /\ \A s \in Slots : Cells(g, s) = Cells(f, s)
      /\ \A h \in Hexes : g.occupant[h] \in Slots \cup {None}
  BY BuryGrid
<1>4. Graves(g) /\ \A h \in Hexes : g.corpses[h] \in Seq(Corpse)  BY BuryGraves
<1>5. Links(g)  BY <1>3, BuryLinks
<1>6. g.other = f.other /\ g.numCreatures = f.numCreatures  BY <1>1, BuryParts
<1>7. g \in Board
  <2>1. g = [unit |-> [s \in Slots |-> g.unit[s]],
             occupant |-> [h \in Hexes |-> g.occupant[h]], other |-> g.other,
             corpses |-> [h \in Hexes |-> g.corpses[h]],
             numCreatures |-> g.numCreatures, vanish |-> g.vanish]
    BY <1>1, BuryParts
  <2>2. [s \in Slots |-> g.unit[s]] \in [Slots -> Unit]  BY <1>2
  <2>3. [h \in Hexes |-> g.occupant[h]] \in [Hexes -> Slots \cup {None}]  BY <1>3
  <2>4. [h \in Hexes |-> g.corpses[h]] \in [Hexes -> Seq(Corpse)]  BY <1>4
  <2>5. g.other \in [Hexes -> {-1, 0, 1}] /\ g.numCreatures \in [Sides -> 0..MaxStacks]
    BY <1>1, <1>6 DEF Board
  <2>6. g.vanish \in SUBSET Slots  BY <1>3
  <2> HIDE DEF Board
  <2> QED  BY <2>1, <2>2, <2>3, <2>4, <2>5, <2>6, BoardMade
<1>8. WideOK(g)  BY <1>1, <1>2 DEF WideOK
<1>9. Marks(g)
  <2>1. \A s \in Slots : \A h : Mark(g, s, h) = Mark(f, s, h)  BY <1>2 DEF Mark
  <2>2. \A s \in Slots : LeavesNoBody(g.unit[s]) = LeavesNoBody(f.unit[s])
    BY <1>2 DEF LeavesNoBody
  <2>3. Standing(f) \subseteq Slots  BY StandingFacts
  <2> QED  BY <1>1, <1>3, <1>6, <2>1, <2>2, <2>3 DEF Marks
<1>10. Counted(g)
  <2>1. \A side \in Sides, i \in Idx : <<side, i>> \in Slots  BY SlotFacts
  <2> QED  BY <1>1, <1>2, <1>6, <2>1 DEF Counted, Exists
<1>11. Kept(g)  BY <1>1, <1>2, LineupAssumption DEF Kept
<1> QED  BY <1>2, <1>3, <1>4, <1>5, <1>7, <1>8, <1>9, <1>10, <1>11 DEF Mid

LEMMA VanishMid ==
  ASSUME NEW f, Mid(f), NEW g, g = Vanish(f)
  PROVE  Mid(g) /\ g.vanish = {} /\ g.unit = f.unit
<1> DEFINE O == [h \in Hexes |-> IF \E s \in f.vanish : h \in Cells(f, s)
                                 THEN None ELSE f.occupant[h]]
<1>1. f \in Board /\ Grid(f) /\ f.vanish \subseteq Slots  BY BoardFacts DEF Mid
<1>2. g = [f EXCEPT !.occupant = O, !.vanish = {}]  BY DEF Vanish
<1>3. O \in [Hexes -> Slots \cup {None}]
      /\ \A h \in Hexes : O[h] = IF \E s \in f.vanish : h \in Cells(f, s)
                                 THEN None ELSE f.occupant[h]
  BY <1>1, BoardFacts
<1> HIDE DEF O
<1>4. /\ g.unit = f.unit /\ g.occupant = O /\ g.other = f.other /\ g.corpses = f.corpses
      /\ g.numCreatures = f.numCreatures /\ g.vanish = {} /\ g \in Board
  BY <1>1, <1>2, <1>3 DEF Board
<1>5. Standing(g) = Standing(f) /\ \A s : Cells(g, s) = Cells(f, s)
  BY <1>4 DEF Standing, Cells
<1>6. Held(f) \subseteq Slots /\ Held(g) = Standing(f)
  BY <1>1, <1>4, <1>5, StandingFacts DEF Held
<1>7. Grid(g)
  <2>1. \A s \in f.vanish : s \notin Standing(f)  BY <1>1, StandingFacts DEF Grid
  <2>2. ASSUME NEW s \in Held(g), NEW h \in Cells(g, s)
        PROVE  h \in Hexes /\ g.occupant[h] = s
    <3>1. s \in Standing(f) /\ h \in Cells(f, s)  BY <1>5, <1>6
    <3>2. h \in Hexes /\ f.occupant[h] = s  BY <1>1, <3>1 DEF Grid, Held
    <3>3. \A x \in f.vanish : h \in Cells(f, x) => x = s
      BY <1>1, <3>2 DEF Grid, Held
    <3> QED  BY <1>3, <1>4, <2>1, <3>1, <3>2, <3>3
  <2>3. ASSUME NEW h \in Hexes, g.occupant[h] # None
        PROVE  g.occupant[h] \in Held(g) /\ h \in Cells(g, g.occupant[h])
    <3>1. /\ g.occupant[h] = f.occupant[h]
          /\ \A s \in f.vanish : h \notin Cells(f, s)
      BY <1>3, <1>4, <2>3
    <3>2. f.occupant[h] \in Held(f) /\ h \in Cells(f, f.occupant[h])
      BY <1>1, <2>3, <3>1 DEF Grid
    <3> QED  BY <1>5, <1>6, <3>1, <3>2 DEF Held
  <2> QED  BY <1>4, <2>2, <2>3 DEF Grid
<1>8. Marks(g)  BY <1>4, <1>5 DEF Mid, Marks, Mark
<1>9. Graves(g)  BY <1>4, <1>5 DEF Mid, Graves, Grave, Lies, Mark
<1>10. Links(g)  BY <1>4, <1>5 DEF Mid, Links
<1> QED  BY <1>4, <1>7, <1>8, <1>9, <1>10 DEF Mid, WideOK, Counted, Kept

LEMMA RebornMid ==
  ASSUME NEW f, Mid(f), NEW g, g = Reborn(f)
  PROVE  /\ Mid(g) /\ g.vanish = f.vanish /\ Keeps(f, g)
         /\ \A s \in Slots :
              g.unit[s].dying => /\ f.unit[s].dying
                                 /\ ~(f.unit[s].kind = "phoenix" /\ ~f.unit[s].reborn)
<1> DEFINE Risen(s) == f.unit[s].dying /\ f.unit[s].kind = "phoenix" /\ ~f.unit[s].reborn
           New(s) == IF Risen(s) THEN [f.unit[s] EXCEPT !.alive = TRUE, !.isDead = FALSE,
                                                        !.dying = FALSE, !.reborn = TRUE]
                     ELSE f.unit[s]
           U == [s \in Slots |-> New(s)]
<1>1. f \in Board /\ \A s \in Slots : Sound(f.unit[s])  BY DEF Mid
<1>2. g = [f EXCEPT !.unit = U]  BY DEF Reborn
<1>3. \A s \in Slots : U[s] = New(s)  OBVIOUS
<1>4. ASSUME NEW s \in Slots
      PROVE  /\ New(s) \in Unit /\ Sound(New(s)) /\ SameBody(f.unit[s], New(s))
             /\ New(s).lifespan = f.unit[s].lifespan
             /\ New(s).dying => f.unit[s].dying /\ ~Risen(s)
  <2>1. f.unit[s] \in Unit /\ Sound(f.unit[s])  BY <1>1, UnitFacts
  <2>2. CASE Risen(s)  BY <2>1, <2>2 DEF Unit, Sound, SameBody, Exists
  <2>3. CASE ~Risen(s)  BY <2>1, <2>3 DEF SameBody
  <2> QED  BY <2>2, <2>3
<1>5. U \in [Slots -> Unit]  BY <1>4
<1> HIDE DEF U, New
<1>6. /\ g.unit = U /\ g.occupant = f.occupant /\ g.other = f.other
      /\ g.corpses = f.corpses /\ g.numCreatures = f.numCreatures
      /\ g.vanish = f.vanish /\ g \in Board
  BY <1>1, <1>2, <1>5 DEF Board
<1>7. Alike(f, g) /\ \A s \in Slots : Sound(g.unit[s])  BY <1>3, <1>4, <1>6 DEF Alike
<1>8. Mid(g)  BY <1>6, <1>7, AlikeMid
<1>9. Keeps(f, g)  BY <1>3, <1>4, <1>6 DEF Keeps, Image, SameBody
<1> QED  BY <1>3, <1>4, <1>6, <1>8, <1>9

(* PowEffect leaves nobody dying.                                           *)
LEMMA PowEffectGood ==
  ASSUME NEW f, Mid(f), f.vanish = {}
  PROVE  Good(PowEffect(f)) /\ Keeps(f, PowEffect(f))
<1> DEFINE D == {s \in Slots : /\ f.unit[s].dying
                               /\ f.unit[s].kind = "phoenix" => f.unit[s].reborn}
           b == Bury(f, D, FALSE)
           v == Vanish(b)
           g == Reborn(v)
<1>1. f \in Board /\ \A s \in Slots : Sound(f.unit[s])  BY DEF Mid
<1>2. [f EXCEPT !.vanish = {}] = f  BY <1>1 DEF Board
<1>3. PowEffect(f) = g
  <2>1. {s \in Slots : /\ f.unit[s].dying
                       /\ f.unit[s].kind = "phoenix" => f.unit[s].reborn} = D
    OBVIOUS
  <2> QED  BY <1>2, <2>1 DEF PowEffect
<1>4. Ripe(f, D)  BY <1>1 DEF Ripe, Sound
<1>5. Expiring(f, D, FALSE)  BY DEF Expiring
<1>6. Mid(b)
  <2> HIDE DEF D
  <2> QED  BY <1>4, <1>5, BuryMid
<1>7. ASSUME NEW s \in Slots, b.unit[s].dying
      PROVE  f.unit[s].kind = "phoenix" /\ ~f.unit[s].reborn
  <2>1. f.unit[s].dying /\ s \notin Fallen(f, D)
    <3> HIDE DEF D
    <3> QED  BY <1>4, <1>7, BuryUnits
  <2>2. s \notin D  BY <1>1, <2>1 DEF Fallen, First, Sound
  <2> QED  BY <2>1, <2>2
<1>8. ASSUME NEW s \in Slots
      PROVE  /\ b.unit[s].kind = f.unit[s].kind /\ b.unit[s].reborn = f.unit[s].reborn
             /\ b.unit[s].image = f.unit[s].image
             /\ b.unit[s].lifespan = f.unit[s].lifespan
             /\ f.unit[s].isDead => b.unit[s].isDead
  <2> DEFINE e == FALSE
  <2>1. b = Bury(f, D, e)  OBVIOUS
  <2> HIDE DEF D, b, v, g, e
  <2> QED  BY <1>4, <2>1, BuryUnits
<1> HIDE DEF D, b
<1>9. Mid(v) /\ v.vanish = {} /\ v.unit = b.unit  BY <1>6, VanishMid
<1> HIDE DEF v
<1>10. /\ Mid(g) /\ g.vanish = v.vanish /\ Keeps(v, g)
       /\ \A s \in Slots :
            g.unit[s].dying => /\ v.unit[s].dying
                               /\ ~(v.unit[s].kind = "phoenix" /\ ~v.unit[s].reborn)
  BY <1>9, RebornMid
<1>11. \A s \in Slots : ~g.unit[s].dying  BY <1>7, <1>8, <1>9, <1>10
<1>12. Keeps(f, g)  BY <1>8, <1>9, <1>10 DEF Keeps, Image
<1> QED  BY <1>3, <1>9, <1>10, <1>11, <1>12 DEF Good

-----------------------------------------------------------------------------
(***************************************************************************)
(* Stacks that move, are pulled and are teleported.                        *)
(***************************************************************************)

(* No mark without the wide stack that made it.                             *)
Strict(f) ==
  \A h \in Hexes : f.other[h] # 0 =>
    f.occupant[h] # None /\ f.unit[f.occupant[h]].wide

LEMMA WayFacts ==
  ASSUME NEW side, NEW hex, NEW h
  PROVE  OtherWay(side, hex, h) \in {-1, 1} /\ Ahead(side) \in {-1, 1}
<1>1. Ahead(side) \in {-1, 1}  BY DEF Ahead
<1>2. -Ahead(side) \in {-1, 1}  BY <1>1
<1> QED  BY <1>1, <1>2 DEF OtherWay

(* Where s stands after it moved.                                           *)
Fits(f, s, hex) ==
  /\ hex \in Int
  /\ Footprint(s[1], f.unit[s].wide, hex) \subseteq Hexes
  /\ \A h \in Footprint(s[1], f.unit[s].wide, hex) : f.occupant[h] \in {None, s}

LEMMA MovedMid ==
  ASSUME NEW f, Mid(f), f.vanish = {}, NEW s \in Standing(f), NEW hex, Fits(f, s, hex),
         NEW g, g = Moved(f, s, hex)
  PROVE  /\ Mid(g) /\ g.vanish = {} /\ Standing(g) = Standing(f)
         /\ \A t \in Slots : /\ g.unit[t].image = f.unit[t].image
                             /\ g.unit[t].dying = f.unit[t].dying
         /\ Keeps(f, g)
         /\ Strict(f) => Strict(g)
<1> DEFINE u == f.unit[s]
           old == Cells(f, s)
           new == Footprint(s[1], u.wide, hex)
           O == [h \in Hexes |-> IF h \in new THEN s
                                 ELSE IF h \in old THEN None ELSE f.occupant[h]]
           T == [h \in Hexes |-> IF h \in new
                                 THEN IF u.wide THEN OtherWay(s[1], hex, h) ELSE 0
                                 ELSE IF h \in old THEN 0 ELSE f.other[h]]
           U == [f.unit EXCEPT ![s].hex = hex]
<1>1. /\ f \in Board /\ Grid(f) /\ Marks(f) /\ Graves(f) /\ WideOK(f) /\ Links(f)
      /\ \A t \in Slots : Sound(f.unit[t])
  BY DEF Mid
<1>2. s \in Slots /\ ~f.unit[s].isDead /\ hex \in Int /\ s # None
  BY StandingFacts, SlotFacts DEF Fits
<1>3. g = [f EXCEPT !.unit = U, !.occupant = O, !.other = T]  BY <1>1, <1>2 DEF Moved, Board
<1>4. /\ \A t \in Slots : U[t] = IF t = s THEN [f.unit[s] EXCEPT !.hex = hex] ELSE f.unit[t]
      /\ U \in [Slots -> Unit]
  <2>1. f.unit \in [Slots -> Unit]  BY <1>1, BoardFacts
  <2>2. [f.unit[s] EXCEPT !.hex = hex] \in Unit  BY <1>2, <2>1 DEF Unit
  <2> QED  BY <1>2, <2>1, <2>2
<1>5. /\ O \in [Hexes -> Slots \cup {None}]
      /\ \A h \in Hexes : O[h] = IF h \in new THEN s
                                 ELSE IF h \in old THEN None ELSE f.occupant[h]
  BY <1>1, <1>2, BoardFacts
<1>6. /\ T \in [Hexes -> {-1, 0, 1}]
      /\ \A h \in Hexes : T[h] = IF h \in new
                                 THEN IF u.wide THEN OtherWay(s[1], hex, h) ELSE 0
                                 ELSE IF h \in old THEN 0 ELSE f.other[h]
  BY <1>1, BoardFacts, WayFacts
<1> HIDE DEF U, O, T
<1>7. /\ g.unit = U /\ g.occupant = O /\ g.other = T /\ g.corpses = f.corpses
      /\ g.numCreatures = f.numCreatures /\ g.vanish = {} /\ g \in Board
  BY <1>1, <1>3, <1>4, <1>5, <1>6 DEF Board
<1>8. ASSUME NEW t \in Slots
      PROVE  /\ g.unit[t].kind = f.unit[t].kind /\ g.unit[t].image = f.unit[t].image
             /\ g.unit[t].wide = f.unit[t].wide /\ g.unit[t].isDead = f.unit[t].isDead
             /\ g.unit[t].mirror = f.unit[t].mirror /\ g.unit[t].original = f.unit[t].original
             /\ g.unit[t].dying = f.unit[t].dying
             /\ g.unit[t].lifespan = f.unit[t].lifespan
             /\ g.unit[t].hex = IF t = s THEN hex ELSE f.unit[t].hex
             /\ Sound(g.unit[t])
  <2>1. f.unit[t] \in Unit /\ Sound(f.unit[t])  BY <1>1, UnitFacts
  <2>2. CASE t # s
    BY <1>4, <1>7, <2>1, <2>2
  <2>3. CASE t = s
    <3>1. Exists(f.unit[s])  BY StandingFacts
    <3>2. g.unit[t] = [f.unit[t] EXCEPT !.hex = hex]  BY <1>4, <1>7, <2>3
    <3> QED  BY <1>2, <2>1, <2>3, <3>1, <3>2 DEF Sound, Unit, Exists
  <2> QED  BY <2>2, <2>3
<1>9. Standing(g) = Standing(f)  BY <1>8 DEF Standing
<1>10. \A t \in Slots : Cells(g, t) = IF t = s THEN new ELSE Cells(f, t)
  BY <1>8 DEF Cells
<1>11. \A t \in Slots : \A h : t # s => Mark(g, t, h) = Mark(f, t, h)  BY <1>8 DEF Mark
<1>12. \A h \in new : h \in Hexes /\ f.occupant[h] \in {None, s}  BY DEF Fits
<1>13. \A t \in Standing(f) : t \in Slots /\ \A h \in Cells(f, t) : h \in Hexes /\ f.occupant[h] = t
  BY <1>1, StandingFacts DEF Grid, Held
<1>14. \A t \in Standing(f) : t # None  BY SlotFacts, StandingFacts
<1> HIDE DEF new, old
<1>15. Grid(g)
  <2>1. Held(g) = Standing(f)  BY <1>7, <1>9 DEF Held
  <2>2. ASSUME NEW t \in Standing(f), NEW h \in Cells(g, t)
        PROVE  h \in Hexes /\ g.occupant[h] = t
    <3>1. CASE t = s  BY <1>2, <1>5, <1>7, <1>10, <1>12, <2>2, <3>1
    <3>2. CASE t # s
      <4>1. h \in Hexes /\ f.occupant[h] = t  BY <1>10, <1>13, <2>2, <3>2
      <4>2. h \notin new /\ h \notin old
        BY <1>12, <1>13, <1>14, <3>2, <4>1 DEF old
      <4> QED  BY <1>5, <1>7, <4>1, <4>2
    <3> QED  BY <3>1, <3>2
  <2>3. ASSUME NEW h \in Hexes, g.occupant[h] # None
        PROVE  g.occupant[h] \in Standing(f) /\ h \in Cells(g, g.occupant[h])
    <3>1. CASE h \in new  BY <1>2, <1>5, <1>7, <1>10, <3>1
    <3>2. CASE h \notin new
      <4>1. h \notin old /\ g.occupant[h] = f.occupant[h]  BY <1>5, <1>7, <2>3, <3>2
      <4>2. f.occupant[h] \in Standing(f) /\ h \in Cells(f, f.occupant[h])
        BY <1>1, <2>3, <4>1 DEF Grid, Held
      <4>3. f.occupant[h] # s  BY <4>1, <4>2 DEF old
      <4> QED  BY <1>10, <1>13, <4>1, <4>2, <4>3
    <3> QED  BY <3>1, <3>2
  <2> QED  BY <1>7, <2>1, <2>2, <2>3 DEF Grid
<1>16. Marks(g)
  <2>1. ASSUME NEW t \in Standing(f), ~LeavesNoBody(g.unit[t]), NEW h \in Cells(g, t)
        PROVE  g.other[h] = Mark(g, t, h)
    <3>1. t \in Slots /\ h \in Hexes /\ g.occupant[h] = t
      BY <1>9, <1>13, <1>15, <2>1 DEF Grid, Held
    <3>2. CASE t = s
      BY <1>6, <1>7, <1>8, <1>10, <2>1, <3>1, <3>2 DEF Mark
    <3>3. CASE t # s
      <4>1. h \in Cells(f, t) /\ ~LeavesNoBody(f.unit[t])
        BY <1>8, <1>10, <2>1, <3>1, <3>3 DEF LeavesNoBody
      <4>2. h \notin new /\ h \notin old
        BY <1>12, <1>13, <1>14, <3>3, <4>1 DEF old
      <4> QED  BY <1>1, <1>6, <1>7, <1>11, <3>1, <3>3, <4>1, <4>2 DEF Marks
    <3> QED  BY <3>2, <3>3
  <2>2. (\E t \in DOMAIN Lineup : Lineup[t].wide) \/ \A h \in Hexes : g.other[h] = 0
    BY <1>1, <1>2, <1>6, <1>7 DEF Marks, WideOK
  <2> QED  BY <1>9, <2>1, <2>2 DEF Marks
<1>17. Graves(g)
  <2>1. \A t, h : Lies(g, t, h) = Lies(f, t, h)  BY <1>7 DEF Lies
  <2>2. \A h \in Hexes : ~Lies(f, s, h)  BY <1>1, <1>2 DEF Graves, Grave
  <2>3. ASSUME NEW t \in Slots, t # s, Grave(f, t)  PROVE Grave(g, t)
    <3>1. LeavesNoBody(g.unit[t]) = LeavesNoBody(f.unit[t])  BY <1>8 DEF LeavesNoBody
    <3>2. Cells(g, t) = Cells(f, t) /\ \A h : Mark(g, t, h) = Mark(f, t, h)
      BY <1>10, <1>11, <2>3
    <3> QED  BY <1>7, <1>8, <2>1, <2>3, <3>1, <3>2 DEF Grave
  <2> QED  BY <1>1, <2>1, <2>2, <2>3 DEF Graves
<1>18. Links(g)
  <2>1. \A t \in Standing(f) : t \in Slots  BY <1>13
  <2> QED  BY <1>1, <1>8, <1>9, <2>1 DEF Links
<1>19. WideOK(g) /\ Kept(g)
  <2>1. Kept(f) /\ DOMAIN Lineup \subseteq Slots  BY LineupAssumption DEF Mid
  <2> QED  BY <1>1, <1>8, <2>1 DEF WideOK, Kept
<1>20. Counted(g)
  <2>1. Counted(f) /\ \A side \in Sides, i \in Idx : <<side, i>> \in Slots
    BY SlotFacts DEF Mid
  <2> QED  BY <1>7, <1>8, <2>1, ZenonT(60) DEF Counted, Exists
<1>21. Mid(g)  BY <1>7, <1>8, <1>15, <1>16, <1>17, <1>18, <1>19, <1>20 DEF Mid
<1>22. ASSUME Strict(f), NEW h \in Hexes, g.other[h] # 0
       PROVE  g.occupant[h] # None /\ g.unit[g.occupant[h]].wide
  <2>1. CASE h \in new
    <3>1. u.wide /\ g.occupant[h] = s  BY <1>5, <1>6, <1>7, <1>22, <2>1
    <3> QED  BY <1>2, <1>8, <3>1
  <2>2. CASE h \notin new
    <3>1. g.other[h] = f.other[h] /\ g.occupant[h] = f.occupant[h] /\ h \notin old
      BY <1>5, <1>6, <1>7, <1>22, <2>2
    <3>2. f.occupant[h] # None /\ f.unit[f.occupant[h]].wide
      BY <1>22, <3>1 DEF Strict
    <3>3. f.occupant[h] \in Slots  BY <1>1, <3>2, BoardFacts
    <3> QED  BY <1>8, <3>1, <3>2, <3>3
  <2> QED  BY <2>1, <2>2
<1>23. Keeps(f, g)  BY <1>8 DEF Keeps, Image
<1> QED  BY <1>7, <1>8, <1>9, <1>21, <1>22, <1>23 DEF Strict

(* The new grid when s moves.                                               *)
Shifted(f, s, hex, U, O, T) ==
  /\ U = [t \in Slots |-> U[t]]
  /\ \A t \in Slots : U[t] = IF t = s THEN [f.unit[s] EXCEPT !.hex = hex] ELSE f.unit[t]
  /\ O = [h \in Hexes |-> O[h]] /\ T = [h \in Hexes |-> T[h]]
  /\ \A h \in Hexes :
       O[h] = IF h \in Footprint(s[1], f.unit[s].wide, hex) THEN s
              ELSE IF h \in Cells(f, s) THEN None ELSE f.occupant[h]
  /\ \A h \in Hexes :
       T[h] = IF h \in Footprint(s[1], f.unit[s].wide, hex)
              THEN IF f.unit[s].wide THEN OtherWay(s[1], hex, h) ELSE 0
              ELSE IF h \in Cells(f, s) THEN 0 ELSE f.other[h]

LEMMA MovedParts ==
  ASSUME NEW f \in Board, NEW s \in Slots, NEW hex, NEW U, NEW O, NEW T,
         Shifted(f, s, hex, U, O, T)
  PROVE  Moved(f, s, hex) =
           [unit |-> U, occupant |-> O, other |-> T,
            corpses |-> f.corpses, numCreatures |-> f.numCreatures, vanish |-> f.vanish]
<1> DEFINE O1 == [h \in Hexes |-> IF h \in Footprint(s[1], f.unit[s].wide, hex) THEN s
                         ELSE IF h \in Cells(f, s) THEN None ELSE f.occupant[h]]
           T1 == [h \in Hexes |-> IF h \in Footprint(s[1], f.unit[s].wide, hex)
                         THEN IF f.unit[s].wide THEN OtherWay(s[1], hex, h) ELSE 0
                         ELSE IF h \in Cells(f, s) THEN 0 ELSE f.other[h]]
<1>1. O = O1 /\ T = T1  BY DEF Shifted
<1> DEFINE U1 == [f.unit EXCEPT ![s].hex = hex]
<1>2. Moved(f, s, hex) = [f EXCEPT !.unit = U1, !.occupant = O1, !.other = T1]
  BY DEF Moved, Board
<1>3. U = U1
  <2>1. f.unit \in [Slots -> Unit]  BY BoardFacts
  <2> QED  BY <2>1 DEF Shifted
<1> HIDE DEF O1, T1, U1
<1> QED  BY <1>1, <1>2, <1>3 DEF Board

(* A pull moves one stack one hex, or nothing: the grid's marks say what    *)
(* the stack says.                                                          *)
LEMMA PullMoved ==
  ASSUME Tame, NEW f, Mid(f), f.vanish = {}, Strict(f),
         NEW c \in Int, NEW h \in Hexes, NEW a
  PROVE  \/ Pull(f, c, h, a) = f
         \/ \E s \in Standing(f), hex \in Int :
              Fits(f, s, hex) /\ Pull(f, c, h, a) = Moved(f, s, hex)
<1> DEFINE s == f.occupant[h]
           u == f.unit[s]
           step == IF c > h THEN 1 ELSE -1
           way == f.other[h]
           old == IF u.wide THEN {h, h + way} ELSE {h}
           new == {x + step : x \in old}
           hex == IF u.wide /\ way = -Ahead(s[1]) THEN h + step + way ELSE h + step
           O == [x \in Hexes |-> IF x \in new THEN s
                                 ELSE IF x \in old THEN None ELSE f.occupant[x]]
           T == [x \in Hexes |-> IF ~u.wide THEN f.other[x]
                                 ELSE IF x \in new THEN f.other[x - step]
                                 ELSE IF x \in old THEN 0 ELSE f.other[x]]
           U == [f.unit EXCEPT ![s].hex = hex]
<1>1. CASE s = None \/ ~CanFit(f, s, h + step, a)
  BY <1>1 DEF Pull
<1>2. CASE s # None /\ CanFit(f, s, h + step, a)
  <2>1. f \in Board /\ Grid(f) /\ Marks(f) /\ WideOK(f) /\ \A t \in Slots : Sound(f.unit[t])
    BY DEF Mid
  <2>2. Pull(f, c, h, a) = [f EXCEPT !.unit = U, !.occupant = O, !.other = T]
    BY <1>2, <2>1 DEF Pull, Board
  <2> HIDE DEF U, O, T
  <2>20. Pull(f, c, h, a) =
           [unit |-> U, occupant |-> O, other |-> T,
            corpses |-> f.corpses, numCreatures |-> f.numCreatures, vanish |-> f.vanish]
    BY <2>1, <2>2 DEF Board
  <2>3. s \in Standing(f) /\ s \in Slots /\ h \in Cells(f, s)
    BY <1>2, <2>1, StandingFacts DEF Grid, Held
  <2>4. h + step \in Hexes /\ f.occupant[h + step] = None  BY <1>2 DEF CanFit
  <2>5. step \in {1, -1} /\ h \in Int /\ s # None /\ u.hex \in Int /\ u.wide \in BOOLEAN
    BY <1>2, <2>1, <2>3, UnitFacts DEF Hexes
  <2>6. h + step \notin Cells(f, s)
    BY <2>1, <2>3, <2>4, <2>5 DEF Grid, Held
  <2>7. \A x \in Cells(f, s) : x \in Hexes /\ f.occupant[x] = s
    BY <2>1, <2>3 DEF Grid, Held
  <2> DEFINE d == Ahead(s[1])
  <2>8. d \in {1, -1}  BY WayFacts
  <2>9. /\ O = [x \in Hexes |-> O[x]] /\ T = [x \in Hexes |-> T[x]]
        /\ \A x \in Hexes : O[x] = IF x \in new THEN s
                                   ELSE IF x \in old THEN None ELSE f.occupant[x]
        /\ \A x \in Hexes : T[x] = IF ~u.wide THEN f.other[x]
                                   ELSE IF x \in new THEN f.other[x - step]
                                   ELSE IF x \in old THEN 0 ELSE f.other[x]
    BY DEF O, T
  <2> SUFFICES /\ Fits(f, s, hex) /\ hex \in Int
               /\ old = Cells(f, s) /\ new = Footprint(s[1], u.wide, hex)
               /\ \A x \in Hexes :
                    T[x] = IF x \in new THEN IF u.wide THEN OtherWay(s[1], hex, x) ELSE 0
                           ELSE IF x \in old THEN 0 ELSE f.other[x]
    <3> DEFINE p == Pull(f, c, h, a)
    <3>1. /\ U = [t \in Slots |-> U[t]]
          /\ \A t \in Slots : U[t] = IF t = s THEN [f.unit[s] EXCEPT !.hex = hex]
                                               ELSE f.unit[t]
      <4>1. f.unit \in [Slots -> Unit]  BY <2>1, BoardFacts
      <4> HIDE DEF s, hex
      <4> QED  BY <2>3, <4>1 DEF U
    <3> HIDE DEF p, s, u, old, new, hex
    <3>2. p = [unit |-> U, occupant |-> O, other |-> T, corpses |-> f.corpses,
               numCreatures |-> f.numCreatures, vanish |-> f.vanish]
      BY <2>20 DEF p
    <3>3. u = f.unit[s]  BY DEF u
    <3>4. p = Moved(f, s, hex)
      <4>1. \A x \in Hexes :
              O[x] = IF x \in Footprint(s[1], f.unit[s].wide, hex) THEN s
                     ELSE IF x \in Cells(f, s) THEN None ELSE f.occupant[x]
        BY <2>9, <3>3
      <4>2. \A x \in Hexes :
              T[x] = IF x \in Footprint(s[1], f.unit[s].wide, hex)
                     THEN IF f.unit[s].wide THEN OtherWay(s[1], hex, x) ELSE 0
                     ELSE IF x \in Cells(f, s) THEN 0 ELSE f.other[x]
        BY <3>3
      <4>3. O = [x \in Hexes |-> O[x]] /\ T = [x \in Hexes |-> T[x]]  BY <2>9
      <4>4. f \in Board /\ s \in Slots  BY <2>1, <2>3
      <4>5. Shifted(f, s, hex, U, O, T)  BY <3>1, <4>1, <4>2, <4>3 DEF Shifted
      <4>6. Moved(f, s, hex) =
              [unit |-> U, occupant |-> O, other |-> T,
               corpses |-> f.corpses, numCreatures |-> f.numCreatures, vanish |-> f.vanish]
        BY <4>4, <4>5, MovedParts
      <4> QED  BY <3>2, <4>6
    <3>5. Fits(f, s, hex) /\ hex \in Int  OBVIOUS
    <3>6. \E t \in Standing(f), x \in Int : Fits(f, t, x) /\ p = Moved(f, t, x)
      BY <2>3, <3>4, <3>5
    <3> QED  BY <3>6 DEF p
  <2> HIDE DEF s
  <2>10. CASE ~u.wide
    <3>1. Cells(f, s) = {u.hex}  BY <2>1, <2>3, <2>10, CellFacts
    <3>2. u.hex = h /\ hex = h + step /\ old = {h} /\ new = {h + step}
      BY <2>3, <2>10, <3>1
    <3>3. Footprint(s[1], u.wide, hex) = {h + step}  BY <2>10, <3>2 DEF Footprint
    <3>4. Fits(f, s, hex)
      <4> HIDE DEF u, hex
      <4> QED  BY <2>4, <2>5, <3>2, <3>3 DEF Fits, u
    <3>5. f.other[h] = 0 /\ f.other[h + step] = 0
      BY <2>4, <2>7, <2>3, <2>10 DEF Strict
    <3> QED  BY <2>5, <2>9, <2>10, <3>1, <3>2, <3>3, <3>4, <3>5
  <2>11. CASE u.wide
    <3>1. Cells(f, s) = {u.hex, u.hex + d}  BY <2>1, <2>3, <2>11, CellFacts
    <3>2. ~LeavesNoBody(u)
      <4>1. s \in DOMAIN Lineup /\ Lineup[s].wide /\ u.kind # "elemental"
        BY <2>1, <2>3, <2>11 DEF WideOK
      <4>2. ~u.image  BY <2>1, <2>3, <4>1 DEF Tame, Sound
      <4> QED  BY <4>1, <4>2 DEF LeavesNoBody
    <3>3. \A x \in Cells(f, s) : f.other[x] = IF x = u.hex THEN d ELSE -d
      BY <2>1, <2>3, <2>11, <3>2 DEF Marks, Mark, OtherWay
    <3> DEFINE r == u.hex
    <3>4. \/ h = r /\ way = d /\ step = -d
          \/ h = r + d /\ way = -d /\ step = d
      BY <2>3, <2>5, <2>6, <2>8, <3>1, <3>3
    <3>5. hex = r + step /\ old = {r, r + d} /\ new = {r + step, r + d + step}
      BY <2>5, <2>8, <2>11, <3>4
    <3>6. Footprint(s[1], u.wide, hex) = {r + step, r + step + d}
      BY <2>11, <3>5 DEF Footprint
    <3>7. new = Footprint(s[1], u.wide, hex)  BY <2>5, <2>8, <3>5, <3>6
    <3>8. new = {h, h + step}  BY <2>5, <2>8, <3>4, <3>5
    <3>9. Fits(f, s, hex)
      <4>1. \A x \in new : x \in Hexes /\ f.occupant[x] \in {None, s}
        BY <2>3, <2>4, <2>7, <3>8
      <4>2. hex \in Int  BY <2>5, <3>5
      <4> HIDE DEF u, hex, new
      <4> QED  BY <3>7, <4>1, <4>2 DEF Fits, u
    <3>10. \A x \in new : f.other[x - step] = OtherWay(s[1], hex, x)
      <4>1. ASSUME NEW x \in new  PROVE x - step \in Cells(f, s) /\ (x - step = r <=> x = hex)
        BY <2>5, <2>8, <3>1, <3>5
      <4> HIDE DEF new, hex, u
      <4> QED  BY <3>3, <4>1 DEF OtherWay
    <3>11. hex \in Int  BY <2>5, <3>5
    <3> HIDE DEF new, old, hex, u
    <3> QED  BY <2>9, <2>11, <3>1, <3>5, <3>7, <3>9, <3>10, <3>11
  <2> QED  BY <2>5, <2>10, <2>11
<1> QED  BY <1>1, <1>2

LEMMA PullingMid ==
  ASSUME Tame, NEW f, Mid(f), f.vanish = {}, Strict(f), NEW c \in Int, NEW a
  PROVE  /\ Mid(Pulling(f, c, a)[2 * Reach]) /\ Pulling(f, c, a)[2 * Reach].vanish = {}
         /\ Keeps(f, Pulling(f, c, a)[2 * Reach])
<1> DEFINE N == 2 * Reach
           S == {g \in Board : Mid(g) /\ g.vanish = {} /\ Strict(g) /\ Keeps(f, g)}
           At(n) == PullOrder(c)[n]
           One(n, g) == IF At(n) \notin Hexes THEN g ELSE Pull(g, c, At(n), a)
           Step == [n \in 1..N |-> [g \in S |-> One(n, g)]]
           Body(p) == [n \in 0..N |-> IF n = 0 THEN f ELSE One(n, p[n - 1])]
           P == Pulling(f, c, a)
<1>1. N \in Nat  BY DEF Reach
<1>2. f \in S  BY DEF Mid, Keeps
<1>3. ASSUME NEW n \in 1..N, NEW g \in S  PROVE One(n, g) \in S
  <2>1. CASE At(n) \notin Hexes  BY <2>1
  <2>2. CASE At(n) \in Hexes
    <3>1. Mid(g) /\ g.vanish = {} /\ Strict(g) /\ Keeps(f, g)  OBVIOUS
    <3>2. \/ Pull(g, c, At(n), a) = g
          \/ \E s \in Standing(g), hex \in Int :
               Fits(g, s, hex) /\ Pull(g, c, At(n), a) = Moved(g, s, hex)
      <4> HIDE DEF At, S
      <4> QED  BY <2>2, <3>1, PullMoved
    <3>3. ASSUME NEW s \in Standing(g), NEW hex \in Int, Fits(g, s, hex)
          PROVE  Moved(g, s, hex) \in S
      <4> DEFINE m == Moved(g, s, hex)
      <4>1. Mid(m) /\ m.vanish = {} /\ Strict(m) /\ Keeps(g, m)  BY <3>1, <3>3, MovedMid
      <4> HIDE DEF m
      <4>2. Keeps(f, m)  BY <3>1, <4>1 DEF Keeps
      <4> QED  BY <4>1, <4>2 DEF Mid, m
    <3> QED  BY <2>2, <3>2, <3>3
  <2> QED  BY <2>1, <2>2
<1> HIDE DEF One, S, N
<1>4. Step \in [1..N -> [S -> S]]  BY <1>3
<1>5. \E p : p = Body(p)
  <2>1. PICK g : Runs(g, N, S, f, Step)
    <3> HIDE DEF Step
    <3> QED  BY <1>1, <1>2, <1>4, Iterates
  <2>2. ASSUME NEW n \in 1..N  PROVE g[n] = One(n, g[n - 1])
    <3>1. n - 1 \in 0..N  BY <1>1
    <3>2. g[n - 1] \in S  BY <2>1, <3>1 DEF Runs
    <3> QED  BY <2>1, <3>2 DEF Runs
  <2>3. \A n \in 0..N : n = 0 \/ n \in 1..N  BY <1>1
  <2>4. g = Body(g)  BY <2>1, <2>2, <2>3 DEF Runs
  <2> QED  BY <2>4
<1>6. P = CHOOSE p : p = Body(p)  BY DEF Pulling, One, N
<1>7. P = Body(P)
  <2> HIDE DEF Body, P
  <2> QED  BY <1>5, <1>6
<1>8. P[0] = f /\ \A n \in 1..N : P[n] = One(n, P[n - 1])
  <2> HIDE DEF P
  <2>1. 0 \in 0..N /\ \A n \in 1..N : n \in 0..N /\ n # 0  BY <1>1
  <2> QED  BY <1>7, <2>1
<1> HIDE DEF P
<1>9. \A n \in 0..N : P[n] \in S
  <2>1. \A n \in 1..N : P[n - 1] \in S => P[n] \in S  BY <1>3, <1>8
  <2> QED  BY <1>1, <1>2, <1>8, <2>1, StaysIn
<1>10. P[N] \in S  BY <1>1, <1>9
<1> QED  BY <1>10 DEF S, N, P

-----------------------------------------------------------------------------
(***************************************************************************)
(* Stacks that appear.                                                     *)
(***************************************************************************)

Takes(f, s) ==
  /\ s \in Slots /\ Free(f.unit[s])
  /\ \A i \in 1..(s[2] - 1) : ~Free(f.unit[<<s[1], i>>])

(* An unused slot that is taken is counted from then on.                    *)
Recounts(f, g, s) ==
  g.numCreatures = [f.numCreatures EXCEPT ![s[1]] = @ + IF Exists(f.unit[s]) THEN 0 ELSE 1]

LEMMA NewSlotTakes ==
  ASSUME NEW f, NEW side \in Sides, HasSlot(f, side)
  PROVE  Takes(f, NewSlot(f, side)) /\ NewSlot(f, side)[1] = side
<1> DEFINE S == {i \in Idx : Free(f.unit[<<side, i>>])}
           P(s) == /\ s[1] = side /\ Free(f.unit[s])
                   /\ \A i \in 1..(s[2] - 1) : ~Free(f.unit[<<side, i>>])
<1>1. MaxStacks \in Nat /\ Idx = 1..MaxStacks  BY BoardAssumption DEF Idx
<1>2. S # {} /\ S \in SUBSET (0..MaxStacks)  BY <1>1 DEF HasSlot
<1>3. PICK m \in S : \A k \in S : m <= k
  <2> HIDE DEF S
  <2> QED  BY <1>1, <1>2, Smallest
<1>4. \A i \in 1..(m - 1) : i \in Idx /\ ~(m <= i)  BY <1>1
<1>5. \A i \in 1..(m - 1) : ~Free(f.unit[<<side, i>>])  BY <1>3, <1>4
<1>6. <<side, m>> \in Slots /\ P(<<side, m>>)
  <2>1. m \in Idx /\ Free(f.unit[<<side, m>>])  OBVIOUS
  <2>2. <<side, m>> \in Slots /\ <<side, m>>[1] = side /\ <<side, m>>[2] = m
    BY <2>1, SlotFacts
  <2> QED  BY <1>5, <2>1, <2>2
<1>7. NewSlot(f, side) = CHOOSE s \in Slots : P(s)  BY DEF NewSlot
<1> DEFINE n == NewSlot(f, side)
<1>8. n \in Slots /\ P(n)
  <2> HIDE DEF P, n
  <2>1. n = CHOOSE s \in Slots : P(s)  BY <1>7 DEF n
  <2> QED  BY <1>6, <2>1
<1> QED  BY <1>8 DEF Takes

(* An unused slot that is taken is the first unused one.                    *)
LEMMA NextSlot ==
  ASSUME NEW f \in Board, Counted(f), NEW s, Takes(f, s), ~Exists(f.unit[s])
  PROVE  s[2] = f.numCreatures[s[1]] + 1
<1> DEFINE side == s[1]
           n == f.numCreatures[side]
           k == s[2]
<1>1. side \in Sides /\ k \in Idx /\ Idx \subseteq Nat /\ s = <<side, k>>
  BY SlotFacts DEF Takes
<1>2. k \in Nat /\ k >= 1 /\ Idx = 1..MaxStacks  BY <1>1, BoardAssumption DEF Idx
<1>3. n \in Nat  BY <1>1, BoardFacts, BoardAssumption
<1>4. \A i \in Idx : Exists(f.unit[<<side, i>>]) <=> i <= n  BY <1>1 DEF Counted
<1>5. ~(k <= n)  BY <1>1, <1>4
<1>6. \A i \in 1..(k - 1) : ~Free(f.unit[<<side, i>>])  BY DEF Takes
<1> HIDE DEF side, n, k
<1>7. k = n + 1
  <2>1. SUFFICES ASSUME k > n + 1  PROVE FALSE
    <3>1. k <= n \/ k = n + 1 \/ k > n + 1  BY <1>2, <1>3
    <3> QED  BY <1>5, <3>1
  <2>2. k - 1 \in 1..(k - 1) /\ k - 1 \in Idx /\ ~(k - 1 <= n)
    <3>1. k \in 1..MaxStacks /\ MaxStacks \in Nat  BY <1>1, <1>2, BoardAssumption
    <3> HIDE DEF Idx
    <3> QED  BY <1>2, <1>3, <2>1, <3>1
  <2>3. ~Free(f.unit[<<side, k - 1>>])  BY <1>6, <2>2
  <2> QED  BY <1>4, <2>2, <2>3 DEF Free, Exists
<1> QED  BY <1>7 DEF side, n, k

(* A narrow stack that will leave no body takes a slot and a free hex.      *)
LEMMA NewStackGood ==
  ASSUME NEW f, Good(f), NEW s, Takes(f, s), NEW hex \in Hexes, f.occupant[hex] = None,
         NEW g \in Board, Links(g), g.vanish = {}, g.other = f.other, g.corpses = f.corpses,
         \A h \in Hexes : g.occupant[h] = IF h = hex THEN s ELSE f.occupant[h],
         Recounts(f, g, s),
         \A t \in Slots : Sound(g.unit[t]) /\ ~g.unit[t].dying,
         Exists(g.unit[s]), ~g.unit[s].isDead, ~g.unit[s].wide, g.unit[s].hex = hex,
         LeavesNoBody(g.unit[s]),
         \A t \in Slots : t # s =>
           /\ g.unit[t].kind = f.unit[t].kind /\ g.unit[t].image = f.unit[t].image
           /\ g.unit[t].wide = f.unit[t].wide /\ g.unit[t].hex = f.unit[t].hex
           /\ g.unit[t].isDead = f.unit[t].isDead
  PROVE  Good(g)
<1>1. /\ f \in Board /\ Grid(f) /\ Marks(f) /\ Graves(f) /\ WideOK(f) /\ Counted(f) /\ Kept(f)
      /\ f.vanish = {}
  BY DEF Good, Mid
<1>2. s \in Slots /\ Free(f.unit[s]) /\ s # None  BY SlotFacts DEF Takes
<1>3. s \notin Standing(f)  BY <1>2, StandingFacts DEF Free, Exists
<1>4. Standing(g) = Standing(f) \cup {s}
  BY <1>2, <1>3 DEF Standing, Exists
<1>5. \A t \in Slots : t # s => Cells(g, t) = Cells(f, t) /\ \A h : Mark(g, t, h) = Mark(f, t, h)
  BY DEF Cells, Mark
<1>6. Cells(g, s) = {hex}  BY <1>2, CellFacts
<1>7. Standing(f) \subseteq Slots  BY StandingFacts
<1>8. Grid(g)
  <2>1. Held(g) = Standing(f) \cup {s} /\ Held(f) = Standing(f)  BY <1>1, <1>4 DEF Held
  <2>2. ASSUME NEW t \in Held(g), NEW h \in Cells(g, t)
        PROVE  h \in Hexes /\ g.occupant[h] = t
    <3>1. CASE t = s  BY <1>6, <2>2, <3>1
    <3>2. CASE t # s
      <4>1. t \in Standing(f) /\ t \in Slots /\ h \in Cells(f, t)
        BY <1>5, <1>7, <2>1, <2>2, <3>2
      <4>2. h \in Hexes /\ f.occupant[h] = t  BY <1>1, <2>1, <4>1 DEF Grid
      <4>3. h # hex  BY <4>1, <4>2, SlotFacts
      <4> QED  BY <4>2, <4>3
    <3> QED  BY <3>1, <3>2
  <2>3. ASSUME NEW h \in Hexes, g.occupant[h] # None
        PROVE  g.occupant[h] \in Held(g) /\ h \in Cells(g, g.occupant[h])
    <3>1. CASE h = hex  BY <1>6, <2>1, <3>1
    <3>2. CASE h # hex
      <4>1. g.occupant[h] = f.occupant[h]  BY <3>2
      <4>2. f.occupant[h] \in Standing(f) /\ h \in Cells(f, f.occupant[h])
        BY <1>1, <2>1, <2>3, <4>1 DEF Grid
      <4> QED  BY <1>3, <1>5, <1>7, <2>1, <4>1, <4>2
    <3> QED  BY <3>1, <3>2
  <2> QED  BY <2>2, <2>3 DEF Grid
<1>9. Marks(g)
  <2>1. \A t \in Slots : t # s => LeavesNoBody(g.unit[t]) = LeavesNoBody(f.unit[t])
    BY DEF LeavesNoBody
  <2> QED  BY <1>1, <1>4, <1>5, <1>7, <2>1 DEF Marks
<1>10. Graves(g)
  <2>1. \A t, h : Lies(g, t, h) = Lies(f, t, h)  BY DEF Lies
  <2>2. ~Grave(f, s)
    <3>1. ~Exists(f.unit[s]) => ~f.unit[s].isDead
      <4>1. Sound(f.unit[s])  BY <1>2 DEF Good, Mid
      <4> QED  BY <4>1 DEF Sound, Nobody
    <3> QED  BY <1>2, <3>1 DEF Free, Grave, Exists
  <2>3. \A h \in Hexes : ~Lies(f, s, h)  BY <1>1, <1>2, <2>2 DEF Graves
  <2>4. ASSUME NEW t \in Slots, t # s, Grave(f, t)  PROVE Grave(g, t)
    <3>1. /\ LeavesNoBody(g.unit[t]) = LeavesNoBody(f.unit[t])
          /\ g.unit[t].isDead = f.unit[t].isDead
      BY <2>4 DEF LeavesNoBody
    <3>2. Cells(g, t) = Cells(f, t) /\ \A h : Mark(g, t, h) = Mark(f, t, h)  BY <1>5, <2>4
    <3> QED  BY <2>1, <2>4, <3>1, <3>2 DEF Grave
  <2> QED  BY <1>1, <2>1, <2>3, <2>4 DEF Graves
<1>11. WideOK(g)  BY <1>1 DEF WideOK
<1>12. Kept(g)
  <2>1. ASSUME NEW t \in DOMAIN Lineup, Lineup[t].kind # "elemental"  PROVE t # s
    <3>1. /\ f.unit[t].kind = Lineup[t].kind /\ ~f.unit[t].image
          /\ Lineup[t].kind # "none"
      BY <1>1, <2>1, PostsAssumption DEF Kept
    <3> QED  BY <1>2, <2>1, <3>1 DEF Free, LeavesNoBody
  <2>2. DOMAIN Lineup \subseteq Slots  BY LineupAssumption
  <2> QED  BY <1>1, <2>1, <2>2 DEF Kept
<1>13. Counted(g)
  <2> SUFFICES ASSUME NEW side \in Sides, NEW i \in Idx
               PROVE  Exists(g.unit[<<side, i>>]) <=> i <= g.numCreatures[side]
    BY DEF Counted
  <2> DEFINE t == <<side, i>>
  <2>1. t \in Slots /\ t[1] = side /\ t[2] = i /\ Idx \subseteq Nat  BY SlotFacts
  <2>2. Exists(f.unit[t]) <=> i <= f.numCreatures[side]  BY <1>1 DEF Counted
  <2>3. f.numCreatures \in [Sides -> 0..MaxStacks] /\ s[1] \in Sides /\ s[2] \in Idx
    BY <1>1, <1>2, BoardFacts, SlotFacts
  <2>4. CASE s[1] # side
    <3>1. t # s /\ g.numCreatures[side] = f.numCreatures[side]
      BY <2>1, <2>3, <2>4 DEF Recounts
    <3> QED  BY <2>1, <2>2, <3>1 DEF Exists
  <2>5. CASE s[1] = side /\ Exists(f.unit[s])
    <3>1. g.numCreatures[side] = f.numCreatures[side]
      <4>1. f.numCreatures[side] \in Nat  BY <2>3, BoardAssumption
      <4> QED  BY <2>3, <2>5, <4>1 DEF Recounts
    <3>2. Exists(g.unit[t]) <=> Exists(f.unit[t])  BY <2>1, <2>5 DEF Exists
    <3> QED  BY <2>2, <3>1, <3>2
  <2>6. CASE s[1] = side /\ ~Exists(f.unit[s])
    <3> DEFINE n == f.numCreatures[side]
    <3>1. n \in Nat /\ g.numCreatures[side] = n + 1
      <4>1. f.numCreatures[side] \in Nat  BY <2>3, BoardAssumption
      <4> QED  BY <2>3, <2>6, <4>1 DEF Recounts
    <3>2. \A k \in Idx : Exists(f.unit[<<side, k>>]) <=> k <= n  BY <1>1 DEF Counted
    <3>3. s = <<side, s[2]>>  BY <1>2, <2>6, SlotFacts
    <3>5. s[2] = n + 1  BY <1>1, <2>6, NextSlot
    <3>6. t = s <=> i = n + 1  BY <2>1, <3>3, <3>5
    <3>7. t # s => (Exists(g.unit[t]) <=> Exists(f.unit[t]))  BY <2>1 DEF Exists
    <3> HIDE DEF n, t
    <3>8. i \in Nat  BY <2>1
    <3>9. CASE t = s  BY <3>1, <3>6, <3>8, <3>9 DEF t
    <3>10. CASE t # s
      <4>1. i # n + 1  BY <3>6, <3>10
      <4>2. Exists(g.unit[t]) <=> i <= n  BY <2>2, <3>7, <3>10 DEF n
      <4> QED  BY <3>1, <3>8, <4>1, <4>2 DEF t
    <3> QED  BY <3>9, <3>10
  <2> QED  BY <2>4, <2>5, <2>6
<1> QED  BY <1>8, <1>9, <1>10, <1>11, <1>12, <1>13 DEF Good, Mid

LEMMA AddArmyParts ==
  ASSUME NEW f, Mid(f), f.vanish = {}, NEW side \in Sides, NEW s, s = NewSlot(f, side),
         Takes(f, s), s[1] = side, NEW hex \in Hexes, f.occupant[hex] = None,
         NEW kind \in Kinds, NEW image \in BOOLEAN, NEW wide \in BOOLEAN, ~wide,
         NEW g, g = AddArmy(f, side, kind, image, wide, hex)
  PROVE  /\ g \in Board
         /\ \A t \in Slots : g.unit[t] = IF t = s
              THEN Fresh(kind, image, wide, hex, f.unit[s].reborn) ELSE f.unit[t]
         /\ \A h \in Hexes : g.occupant[h] = IF h = hex THEN s ELSE f.occupant[h]
         /\ g.other = f.other /\ g.corpses = f.corpses /\ g.vanish = {}
         /\ Recounts(f, g, s)
<1> DEFINE v == Fresh(kind, image, wide, hex, f.unit[s].reborn)
           U == [f.unit EXCEPT ![s] = v]
           O == [h \in Hexes |-> IF h \in {hex} THEN s ELSE f.occupant[h]]
           N == [f.numCreatures EXCEPT ![side] = @ + IF Exists(f.unit[s]) THEN 0 ELSE 1]
           p == Place(f, s, kind, image, wide, hex)
<1>1. f \in Board /\ Counted(f)  BY DEF Mid
<1>2. s \in Slots  BY DEF Takes
<1>3. Footprint(s[1], wide, hex) \cap Hexes = {hex}  BY DEF Footprint
<1>4. f.other = [h \in Hexes |-> f.other[h]]  BY <1>1, BoardFacts
<1>5. p = [f EXCEPT !.unit = U, !.occupant = O, !.other = f.other]
  BY <1>1, <1>2, <1>3, <1>4 DEF Place, Board
<1>6. v \in Unit
  <2>1. f.unit[s].reborn \in BOOLEAN /\ hex \in Int  BY <1>1, <1>2 DEF Board, Unit, Hexes
  <2> QED  BY <2>1 DEF Fresh, Unit
<1>7. U \in [Slots -> Unit] /\ \A t \in Slots : U[t] = IF t = s THEN v ELSE f.unit[t]
  BY <1>1, <1>2, <1>6, BoardFacts
<1>8. O \in [Hexes -> Slots \cup {None}]
      /\ \A h \in Hexes : O[h] = IF h = hex THEN s ELSE f.occupant[h]
  BY <1>1, <1>2, BoardFacts
<1>9. N \in [Sides -> 0..MaxStacks]
  <2>1. f.numCreatures \in [Sides -> 0..MaxStacks] /\ MaxStacks \in Nat
    BY <1>1, BoardFacts, BoardAssumption
  <2>2. ~Exists(f.unit[s]) => f.numCreatures[side] + 1 \in 0..MaxStacks
    <3>1. ~Exists(f.unit[s]) => f.numCreatures[side] + 1 = s[2]  BY <1>1, NextSlot
    <3>2. s[2] \in 0..MaxStacks  BY <1>2, <2>1, SlotFacts DEF Idx
    <3> QED  BY <3>1, <3>2
  <2>3. f.numCreatures[side] + 0 = f.numCreatures[side]  BY <2>1
  <2>4. (f.numCreatures[side] + IF Exists(f.unit[s]) THEN 0 ELSE 1) \in 0..MaxStacks
    BY <2>1, <2>2, <2>3
  <2> QED  BY <2>1, <2>4
<1>10. f.numCreatures[side] + (IF f.unit[s].kind = "none" THEN 1 ELSE 0)
         = f.numCreatures[side] + IF Exists(f.unit[s]) THEN 0 ELSE 1
  BY DEF Exists
<1>11. g = [p EXCEPT !.numCreatures[side] =
              @ + IF f.unit[s].kind = "none" THEN 1 ELSE 0]
  BY DEF AddArmy
<1> HIDE DEF v, U, O
<1>12. p = [unit |-> U, occupant |-> O, other |-> f.other, corpses |-> f.corpses,
            numCreatures |-> f.numCreatures, vanish |-> {}]
  BY <1>1, <1>5 DEF Board
<1> HIDE DEF p
<1>13. g = [unit |-> U, occupant |-> O, other |-> f.other, corpses |-> f.corpses,
            numCreatures |-> N, vanish |-> {}]
  <2>1. [f.numCreatures EXCEPT ![side] = @ + IF f.unit[s].kind = "none" THEN 1 ELSE 0] = N
    BY <1>10
  <2> QED  BY <1>11, <1>12, <2>1
<1> HIDE DEF N
<1> DEFINE T == f.other
           C == f.corpses
           E == {}
<1>14. T \in [Hexes -> {-1, 0, 1}] /\ C \in [Hexes -> Seq(Corpse)] /\ E \in SUBSET Slots
  BY <1>1, BoardFacts
<1>15. /\ g \in Board
       /\ g.unit = U /\ g.occupant = O /\ g.numCreatures = N /\ g.other = T
       /\ g.corpses = C /\ g.vanish = E
  <2>1. g = [unit |-> U, occupant |-> O, other |-> T, corpses |-> C,
             numCreatures |-> N, vanish |-> E]
    BY <1>13
  <2>2. U \in [Slots -> Unit] /\ O \in [Hexes -> Slots \cup {None}]  BY <1>7, <1>8
  <2> HIDE DEF T, C, E
  <2>3. g \in Board  BY <1>9, <1>14, <2>1, <2>2, BoardMade, ZenonT(60)
  <2> QED  BY <2>1, <2>3
<1>16. N = [f.numCreatures EXCEPT ![s[1]] = @ + IF Exists(f.unit[s]) THEN 0 ELSE 1]
  BY DEF N
<1>17. \A t \in Slots : g.unit[t] = IF t = s
         THEN Fresh(kind, image, wide, hex, f.unit[s].reborn) ELSE f.unit[t]
  BY <1>7, <1>15 DEF v
<1>18. \A h \in Hexes : g.occupant[h] = IF h = hex THEN s ELSE f.occupant[h]
  BY <1>8, <1>15
<1>19. Recounts(f, g, s)  BY <1>15, <1>16 DEF Recounts
<1> QED  BY <1>15, <1>17, <1>18, <1>19

LEMMA SummonGood ==
  ASSUME NEW f, Good(f), NEW side \in Sides, HasSlot(f, side), NEW hex \in Hexes,
         f.occupant[hex] = None, NEW no \in BOOLEAN, ~no,
         NEW g, g = AddArmy(f, side, "elemental", no, no, hex)
  PROVE  Good(g) /\ Keeps(f, g)
<1> DEFINE s == NewSlot(f, side)
           v == Fresh("elemental", no, no, hex, f.unit[s].reborn)
<1>1. Mid(f) /\ f.vanish = {} /\ Links(f) /\ f \in Board
      /\ \A t \in Slots : Sound(f.unit[t]) /\ ~f.unit[t].dying
  BY DEF Good, Mid
<1>2. Takes(f, s) /\ s[1] = side  BY NewSlotTakes
<1> HIDE DEF s
<1>3. /\ g \in Board
      /\ \A t \in Slots : g.unit[t] = IF t = s THEN v ELSE f.unit[t]
      /\ \A h \in Hexes : g.occupant[h] = IF h = hex THEN s ELSE f.occupant[h]
      /\ g.other = f.other /\ g.corpses = f.corpses /\ g.vanish = {}
      /\ Recounts(f, g, s)
  <2>1. "elemental" \in Kinds  BY DEF Kinds
  <2> QED  BY <1>1, <1>2, <2>1, AddArmyParts DEF s
<1>4. /\ Sound(v) /\ ~v.dying /\ Exists(v) /\ ~v.isDead /\ ~v.wide /\ v.hex = hex
      /\ LeavesNoBody(v) /\ v.mirror = 0 /\ ~v.image
  BY DEF Fresh, Sound, Exists, LeavesNoBody
<1> HIDE DEF v
<1>5. s \in Slots /\ s \notin Standing(f)
  BY <1>2, StandingFacts DEF Takes, Free, Exists
<1>6. Standing(g) = Standing(f) \cup {s}  BY <1>3, <1>4, <1>5 DEF Standing, Exists
<1>7. Links(g)
  <2>1. Standing(f) \subseteq Slots  BY StandingFacts
  <2> QED  BY <1>1, <1>3, <1>4, <1>5, <1>6, <2>1 DEF Links
<1>8. \A t \in Slots : Sound(g.unit[t]) /\ ~g.unit[t].dying  BY <1>1, <1>3, <1>4
<1>9. /\ Exists(g.unit[s]) /\ ~g.unit[s].isDead /\ ~g.unit[s].wide
      /\ g.unit[s].hex = hex /\ LeavesNoBody(g.unit[s])
  BY <1>3, <1>4, <1>5
<1>10. \A t \in Slots : t # s => g.unit[t] = f.unit[t]  BY <1>3
<1>11. Good(g)  BY <1>2, <1>3, <1>7, <1>8, <1>9, <1>10, NewStackGood
<1>12. Keeps(f, g)  BY <1>3, <1>4, <1>5 DEF Keeps, Image
<1> QED  BY <1>11, <1>12

(* The units of a stack u, and of its new image in the slot i.              *)
ImageUnit(u, s, hex, v) ==
  /\ v \in Unit /\ v.kind = u.kind /\ v.image /\ ~v.wide /\ v.hex = hex /\ v.alive
  /\ ~v.dying /\ ~v.isDead /\ v.mirror = 0 /\ v.original = s[2]
  /\ v.lifespan >= 0
OwnerUnit(u, i, w) ==
  /\ w \in Unit /\ w.kind = u.kind /\ w.image = u.image /\ w.wide = u.wide
  /\ w.hex = u.hex /\ w.alive = u.alive /\ w.dying = u.dying /\ w.isDead = u.isDead
  /\ w.original = u.original /\ w.lifespan = u.lifespan /\ w.mirror = i[2]

LEMMA ImageLinks ==
  ASSUME NEW f, NEW g, Links(f), NEW s \in Standing(f), NEW i \in Slots, i[1] = s[1],
         i \notin Standing(f), Standing(g) = Standing(f) \cup {i},
         f.unit[s].mirror = 0, ~f.unit[s].image,
         g.unit[i].mirror = 0, g.unit[i].image, g.unit[i].original = s[2],
         \A t \in Slots : t # i =>
           /\ g.unit[t].image = f.unit[t].image /\ g.unit[t].original = f.unit[t].original
           /\ g.unit[t].mirror = IF t = s THEN i[2] ELSE f.unit[t].mirror
  PROVE  Links(g)
<1>1. /\ Standing(f) \subseteq Slots /\ i # s /\ s \in Slots /\ s \in Standing(g)
      /\ i \in Standing(g)
  BY StandingFacts
<1>2. Fellow(i, s[2]) = s /\ Fellow(s, i[2]) = i
  <2>1. s = <<s[1], s[2]>> /\ i = <<i[1], i[2]>>  BY <1>1, SlotFacts
  <2> QED  BY <2>1 DEF Fellow
<1>3. \A t \in Slots : t[2] # 0  BY SlotFacts
<1> SUFFICES ASSUME NEW t \in Slots
             PROVE  /\ g.unit[t].mirror # 0 =>
                         /\ t \in Standing(g)
                         /\ Fellow(t, g.unit[t].mirror) \in Standing(g)
                         /\ g.unit[Fellow(t, g.unit[t].mirror)].image
                         /\ g.unit[Fellow(t, g.unit[t].mirror)].original = t[2]
                    /\ g.unit[t].image /\ t \in Standing(g) =>
                         /\ g.unit[t].original # 0
                         /\ Fellow(t, g.unit[t].original) \in Standing(g)
                         /\ g.unit[Fellow(t, g.unit[t].original)].mirror = t[2]
  BY DEF Links
<1>4. CASE t = i
  <2>1. g.unit[t].mirror = 0 /\ g.unit[t].original = s[2] /\ s[2] # 0  BY <1>1, <1>3, <1>4
  <2>2. g.unit[s].mirror = i[2]  BY <1>1
  <2>3. Fellow(t, g.unit[t].original) = s  BY <1>2, <1>4, <2>1
  <2> QED  BY <1>1, <1>4, <2>1, <2>2, <2>3
<1>5. CASE t = s
  <2>1. g.unit[t].mirror = i[2] /\ ~g.unit[t].image  BY <1>1, <1>5
  <2>2. Fellow(t, g.unit[t].mirror) = i  BY <1>2, <1>5, <2>1
  <2> QED  BY <1>1, <1>5, <2>1, <2>2
<1>6. CASE t # i /\ t # s
  <2>1. ASSUME f.unit[t].mirror # 0
        PROVE  /\ t \in Standing(f) /\ Fellow(t, f.unit[t].mirror) \in Standing(f)
               /\ f.unit[Fellow(t, f.unit[t].mirror)].image
               /\ f.unit[Fellow(t, f.unit[t].mirror)].original = t[2]
    BY <2>1 DEF Links
  <2>2. ASSUME f.unit[t].image, t \in Standing(f)
        PROVE  /\ f.unit[t].original # 0 /\ Fellow(t, f.unit[t].original) \in Standing(f)
               /\ f.unit[Fellow(t, f.unit[t].original)].mirror = t[2]
    BY <2>2 DEF Links
  <2>3. /\ g.unit[t].mirror = f.unit[t].mirror /\ g.unit[t].original = f.unit[t].original
        /\ g.unit[t].image = f.unit[t].image
    BY <1>6
  <2>4. g.unit[t].mirror # 0 =>
          /\ t \in Standing(g) /\ Fellow(t, g.unit[t].mirror) \in Standing(g)
          /\ g.unit[Fellow(t, g.unit[t].mirror)].image
          /\ g.unit[Fellow(t, g.unit[t].mirror)].original = t[2]
    <3> SUFFICES ASSUME f.unit[t].mirror # 0
                 PROVE  /\ t \in Standing(g) /\ Fellow(t, f.unit[t].mirror) \in Standing(g)
                        /\ g.unit[Fellow(t, f.unit[t].mirror)].image
                        /\ g.unit[Fellow(t, f.unit[t].mirror)].original = t[2]
      BY <2>3
    <3> DEFINE p == Fellow(t, f.unit[t].mirror)
    <3>1. t \in Standing(f) /\ p \in Standing(f) /\ f.unit[p].image /\ f.unit[p].original = t[2]
      BY <2>1
    <3> HIDE DEF p
    <3>2. p # i /\ p \in Slots  BY <1>1, <3>1
    <3>3. g.unit[p].image = f.unit[p].image /\ g.unit[p].original = f.unit[p].original
      BY <3>2
    <3> QED  BY <1>1, <3>1, <3>3 DEF p
  <2>5. g.unit[t].image /\ t \in Standing(g) =>
          /\ g.unit[t].original # 0 /\ Fellow(t, g.unit[t].original) \in Standing(g)
          /\ g.unit[Fellow(t, g.unit[t].original)].mirror = t[2]
    <3> SUFFICES ASSUME f.unit[t].image, t \in Standing(f)
                 PROVE  /\ f.unit[t].original # 0
                        /\ Fellow(t, f.unit[t].original) \in Standing(g)
                        /\ g.unit[Fellow(t, f.unit[t].original)].mirror = t[2]
      BY <1>6, <2>3
    <3> DEFINE o == Fellow(t, f.unit[t].original)
    <3>1. f.unit[t].original # 0 /\ o \in Standing(f) /\ f.unit[o].mirror = t[2]  BY <2>2
    <3> HIDE DEF o
    <3>2. o # i /\ o # s /\ o \in Slots  BY <1>1, <1>3, <3>1
    <3>3. g.unit[o].mirror = f.unit[o].mirror  BY <3>2
    <3> QED  BY <1>1, <3>1, <3>3 DEF o
  <2> QED  BY <2>4, <2>5
<1> QED  BY <1>4, <1>5, <1>6

LEMMA ImageGood ==
  ASSUME Imaging, NEW f, Good(f), NEW s \in Standing(f),
         f.unit[s].mirror = 0, f.unit[s].original = 0,
         NEW i, Takes(f, i), i[1] = s[1], NEW hex \in Hexes, f.occupant[hex] = None,
         NEW g \in Board, g.vanish = {}, g.other = f.other, g.corpses = f.corpses,
         \A h \in Hexes : g.occupant[h] = IF h = hex THEN i ELSE f.occupant[h],
         Recounts(f, g, i),
         ImageUnit(f.unit[s], s, hex, g.unit[i]), OwnerUnit(f.unit[s], i, g.unit[s]),
         \A t \in Slots : t \notin {i, s} => g.unit[t] = f.unit[t]
  PROVE  Good(g)
<1>1. /\ Links(f) /\ f \in Board
      /\ \A t \in Slots : Sound(f.unit[t]) /\ ~f.unit[t].dying
  BY DEF Good, Mid
<1>2. s \in Slots /\ s[2] # 0 /\ Exists(f.unit[s]) /\ ~f.unit[s].isDead
  BY StandingFacts, SlotFacts
<1>3. i \in Slots /\ i \notin Standing(f) /\ i # s
  BY StandingFacts DEF Takes, Free, Exists
<1>4. ~f.unit[s].image  BY <1>1, <1>2 DEF Links
<1>5. Sound(g.unit[i]) /\ ~g.unit[i].dying
  BY <1>2 DEF ImageUnit, Sound, Exists
<1>6. Sound(g.unit[s]) /\ ~g.unit[s].dying
  BY <1>1, <1>2, <1>4 DEF OwnerUnit, Sound, Exists
<1>7. \A t \in Slots : Sound(g.unit[t]) /\ ~g.unit[t].dying  BY <1>1, <1>5, <1>6
<1>8. /\ Exists(g.unit[i]) /\ ~g.unit[i].isDead /\ ~g.unit[i].wide
      /\ g.unit[i].hex = hex /\ LeavesNoBody(g.unit[i])
  BY <1>2 DEF ImageUnit, Exists, LeavesNoBody
<1>9. ASSUME NEW t \in Slots, t # i
      PROVE  /\ g.unit[t].kind = f.unit[t].kind /\ g.unit[t].image = f.unit[t].image
             /\ g.unit[t].wide = f.unit[t].wide /\ g.unit[t].hex = f.unit[t].hex
             /\ g.unit[t].isDead = f.unit[t].isDead
             /\ g.unit[t].original = f.unit[t].original
             /\ g.unit[t].mirror = IF t = s THEN i[2] ELSE f.unit[t].mirror
  <2>1. CASE t = s  BY <2>1 DEF OwnerUnit
  <2>2. CASE t # s  BY <1>9, <2>2
  <2> QED  BY <2>1, <2>2
<1>10. Standing(g) = Standing(f) \cup {i}
  <2>1. \A t \in Slots : t # i => (t \in Standing(g) <=> t \in Standing(f))
    BY <1>9, StandingFacts DEF Exists
  <2>2. i \in Standing(g)  BY <1>3, <1>8, StandingFacts
  <2>3. Standing(f) \subseteq Slots /\ Standing(g) \subseteq Slots  BY StandingFacts
  <2> QED  BY <2>1, <2>2, <2>3
<1>11. Links(g)
  <2>1. g.unit[i].mirror = 0 /\ g.unit[i].image /\ g.unit[i].original = s[2]
    BY DEF ImageUnit
  <2> QED  BY <1>1, <1>3, <1>4, <1>9, <1>10, <2>1, ImageLinks
<1> QED  BY <1>7, <1>8, <1>9, <1>11, NewStackGood

LEMMA ImageMade ==
  ASSUME NEW u \in Unit, ~u.wide, NEW hex, NEW s \in Slots, NEW i \in Slots,
         NEW power \in Nat, NEW x \in Unit, x.kind = u.kind, x.image, x.wide = u.wide,
         x.hex = hex, x.alive, ~x.dying, ~x.isDead, x.mirror = 0,
         NEW o, o = s[2], NEW v, v = [x EXCEPT !.lifespan = power, !.original = o],
         NEW w, w = [u EXCEPT !.mirror = i[2]]
  PROVE  ImageUnit(u, s, hex, v) /\ OwnerUnit(u, i, w)
<1>1. o \in Idx \cup {0} /\ i[2] \in Idx  BY SlotFacts
<1>2. /\ v \in Unit /\ v.kind = x.kind /\ v.image = x.image /\ v.wide = x.wide
      /\ v.hex = x.hex /\ v.alive = x.alive /\ v.dying = x.dying /\ v.isDead = x.isDead
      /\ v.mirror = x.mirror /\ v.original = o
  <2>1. power \in Int  OBVIOUS
  <2> QED  BY <1>1, <2>1 DEF Unit
<1>3. v.lifespan = power  BY DEF Unit
<1>4. ImageUnit(u, s, hex, v)  BY <1>2, <1>3 DEF ImageUnit
<1>5. OwnerUnit(u, i, w)  BY <1>1 DEF OwnerUnit, Unit
<1> QED  BY <1>4, <1>5

Linked(a, i, s, power, o, m, v, w, g) ==
  /\ v = [a.unit[i] EXCEPT !.lifespan = power, !.original = o]
  /\ w = [a.unit[s] EXCEPT !.mirror = m]
  /\ g = [a EXCEPT !.unit[i].lifespan = power, !.unit[i].original = o,
                   !.unit[s].mirror = m]

LEMMA LinkedParts ==
  ASSUME NEW a \in Board, NEW i \in Slots, NEW s \in Slots, i # s, NEW power, NEW m, NEW o,
         NEW v \in Unit, NEW w \in Unit, NEW g, Linked(a, i, s, power, o, m, v, w, g)
  PROVE  /\ g \in Board /\ g.unit[i] = v /\ g.unit[s] = w
         /\ \A t \in Slots : t \notin {i, s} => g.unit[t] = a.unit[t]
         /\ g.occupant = a.occupant /\ g.other = a.other /\ g.corpses = a.corpses
         /\ g.numCreatures = a.numCreatures /\ g.vanish = a.vanish
<1> DEFINE U == [[a.unit EXCEPT ![i] = v] EXCEPT ![s] = w]
<1>1. a.unit \in [Slots -> Unit]  BY BoardFacts
<1>2. g = [a EXCEPT !.unit = U]  BY <1>1 DEF Board, Linked
<1>3. /\ U \in [Slots -> Unit] /\ U[i] = v /\ U[s] = w
      /\ \A t \in Slots : t \notin {i, s} => U[t] = a.unit[t]
  BY <1>1
<1> HIDE DEF U
<1>4. /\ g.unit = U /\ g.occupant = a.occupant /\ g.other = a.other
      /\ g.corpses = a.corpses /\ g.numCreatures = a.numCreatures /\ g.vanish = a.vanish
      /\ g \in Board
  BY <1>2, <1>3 DEF Board
<1> QED  BY <1>3, <1>4

Mirrored(f, s, hex, power, i) ==
  [AddArmy(f, s[1], f.unit[s].kind, TRUE, f.unit[s].wide, hex) EXCEPT
     !.unit[i].lifespan = power, !.unit[i].original = s[2], !.unit[s].mirror = i[2]]

(* A new image in the slot i, beside those that there were.                 *)
Joins(f, g, i, power) ==
  /\ ~Image(f, i) /\ g.unit[i].lifespan = power
  /\ \A t \in Slots : t # i /\ Image(g, t) =>
       Image(f, t) /\ g.unit[t].lifespan = f.unit[t].lifespan

(* The image and its original.                                              *)
LEMMA MirrorGood ==
  ASSUME Tame, Imaging, NEW f, Good(f), NEW s \in Standing(f),
         f.unit[s].mirror = 0, f.unit[s].original = 0, HasSlot(f, s[1]),
         NEW hex \in Hexes, f.occupant[hex] = None, NEW power \in Nat \ {0},
         NEW i, i = NewSlot(f, s[1])
  PROVE  /\ Good(Mirrored(f, s, hex, power, i)) /\ i \in Slots
         /\ Joins(f, Mirrored(f, s, hex, power, i), i, power)
<1> DEFINE u == f.unit[s]
           side == s[1]
           kind == u.kind
           yes == TRUE
           no == u.wide
           m == i[2]
           o == s[2]
           reborn == f.unit[i].reborn
           a == AddArmy(f, side, kind, yes, no, hex)
           x == Fresh(kind, yes, no, hex, reborn)
           v == [x EXCEPT !.lifespan = power, !.original = o]
           w == [u EXCEPT !.mirror = m]
           g == [a EXCEPT !.unit[i].lifespan = power, !.unit[i].original = o,
                          !.unit[s].mirror = m]
<1>1. Mid(f) /\ f.vanish = {} /\ f \in Board /\ WideOK(f)  BY DEF Good, Mid
<1>2. s \in Slots /\ side \in Sides /\ Exists(u) /\ u \in Unit
  BY <1>1, StandingFacts, SlotFacts, UnitFacts
<1>3. Takes(f, i) /\ i[1] = side  BY <1>2, NewSlotTakes
<1>4. i \in Slots /\ i \notin Standing(f) /\ i # s
  BY <1>3, StandingFacts DEF Takes, Free, Exists
<1>5. ~no /\ no \in BOOLEAN  BY <1>1, <1>2, UnitFacts DEF WideOK, Tame
<1>6. kind \in Kinds
  <2> HIDE DEF u
  <2> QED  BY <1>2 DEF Unit, Exists
<1>7. reborn \in BOOLEAN /\ hex \in Int /\ power \in Nat
  BY <1>1, <1>4 DEF Board, Unit, Hexes
<1>8. i = NewSlot(f, side) /\ yes \in BOOLEAN  OBVIOUS
<1>0. v.lifespan = power  BY DEF Fresh
<1>9. ImageUnit(u, s, hex, v) /\ OwnerUnit(u, i, w)
  <2>1. /\ x \in Unit /\ x.kind = kind /\ x.image /\ x.wide = no /\ x.hex = hex
        /\ x.alive /\ ~x.dying /\ ~x.isDead /\ x.mirror = 0
    <3>1. x = Fresh(kind, yes, no, hex, reborn) /\ yes \in BOOLEAN /\ yes  OBVIOUS
    <3> HIDE DEF kind, no, reborn, x, yes
    <3> QED  BY <1>5, <1>6, <1>7, <3>1 DEF Fresh, Unit
  <2>2. o = s[2] /\ power \in Nat  BY <1>7
  <2> HIDE DEF u, x, o
  <2> QED  BY <1>2, <1>4, <1>5, <2>1, <2>2, ImageMade
<1> HIDE DEF side, kind, yes, no
<1>10. /\ a \in Board
       /\ \A t \in Slots : a.unit[t] = IF t = i THEN x ELSE f.unit[t]
       /\ \A h \in Hexes : a.occupant[h] = IF h = hex THEN i ELSE f.occupant[h]
       /\ a.other = f.other /\ a.corpses = f.corpses /\ a.vanish = {}
       /\ Recounts(f, a, i)
  BY <1>1, <1>2, <1>3, <1>5, <1>6, <1>8, AddArmyParts
<1> HIDE DEF a, x
<1>11. Linked(a, i, s, power, o, m, v, w, g)
  <2>1. x = a.unit[i] /\ u = a.unit[s]  BY <1>2, <1>4, <1>10
  <2> HIDE DEF x, u
  <2> QED  BY <2>1 DEF Linked
<1>12. v \in Unit /\ w \in Unit
  <2> HIDE DEF v, w
  <2> QED  BY <1>9 DEF ImageUnit, OwnerUnit
<1> HIDE DEF v, w, m, o
<1> HIDE DEF g
<1>13. /\ g \in Board /\ g.unit[i] = v /\ g.unit[s] = w
       /\ \A t \in Slots : t \notin {i, s} => g.unit[t] = a.unit[t]
       /\ g.occupant = a.occupant /\ g.other = a.other /\ g.corpses = a.corpses
       /\ g.numCreatures = a.numCreatures /\ g.vanish = a.vanish
  <2>1. a \in Board /\ i \in Slots /\ s \in Slots /\ i # s  BY <1>2, <1>4, <1>10
  <2> QED  BY <1>11, <1>12, <2>1, LinkedParts, SMTT(30)
<1>14. \A t \in Slots : t \notin {i, s} => g.unit[t] = f.unit[t]  BY <1>10, <1>13
<1>15. /\ g.vanish = {} /\ g.other = f.other /\ g.corpses = f.corpses
       /\ Recounts(f, g, i)
       /\ \A h \in Hexes : g.occupant[h] = IF h = hex THEN i ELSE f.occupant[h]
  BY <1>10, <1>13 DEF Recounts
<1>16. ImageUnit(f.unit[s], s, hex, g.unit[i]) /\ OwnerUnit(f.unit[s], i, g.unit[s])
  BY <1>9, <1>13
<1>17. i[1] = s[1]  BY <1>3 DEF side
<1>18. Good(g)  BY <1>3, <1>13, <1>14, <1>15, <1>16, <1>17, ImageGood
<1>19. Joins(f, g, i, power)
  <2>1. ~Image(f, i)
    <3>1. Free(f.unit[i]) /\ Sound(f.unit[i])  BY <1>1, <1>3, <1>4 DEF Takes, Mid
    <3> QED  BY <3>1 DEF Free, Image, Sound, Exists, Nobody
  <2>2. g.unit[i].lifespan = power  BY <1>0, <1>13
  <2>3. ASSUME NEW t \in Slots, t # i, Image(g, t)
        PROVE  Image(f, t) /\ g.unit[t].lifespan = f.unit[t].lifespan
    <3>1. CASE t = s  BY <1>16, <2>3, <3>1 DEF OwnerUnit, Image
    <3>2. CASE t # s  BY <1>14, <2>3, <3>2 DEF Image
    <3> QED  BY <3>1, <3>2
  <2> QED  BY <2>1, <2>2, <2>3 DEF Joins
<1>20. Mirrored(f, s, hex, power, i) = g
  BY DEF Mirrored, g, a, side, kind, yes, no, m, o
<1> QED  BY <1>4, <1>18, <1>19, <1>20

(* Where no stack is wide, no hex has a mark and a teleport is a move.      *)
LEMMA TeleportGood ==
  ASSUME Tame, "Teleport" \in Book, NEW f, Good(f), NEW s \in Standing(f), NEW hex, NEW a,
         CanFit(f, s, hex, a)
  PROVE  Good(Teleported(f, s, hex)) /\ Keeps(f, Teleported(f, s, hex))
<1> DEFINE u == f.unit[s]
           old == {u.hex, u.hex + f.other[u.hex]}
           rear == IF u.wide /\ f.occupant[hex + Ahead(s[1])] \notin {None, s}
                   THEN hex - Ahead(s[1]) ELSE hex
           new == Footprint(s[1], u.wide, rear)
           O == [h \in Hexes |-> IF h \in new THEN s
                                 ELSE IF h \in old THEN None ELSE f.occupant[h]]
           T == [h \in Hexes |-> IF h \notin new THEN f.other[h]
                                 ELSE IF u.wide THEN OtherWay(s[1], rear, h) ELSE 0]
           U == [f.unit EXCEPT ![s].hex = rear]
           p == Teleported(f, s, hex)
<1>1. /\ Mid(f) /\ f.vanish = {} /\ f \in Board /\ WideOK(f) /\ Marks(f) /\ Grid(f)
      /\ \A t \in Slots : ~f.unit[t].dying
  BY DEF Good, Mid
<1>2. s \in Slots /\ hex \in Hexes /\ hex \in Int /\ f.occupant[hex] = None
  BY StandingFacts DEF CanFit, Hexes
<1>3. ~u.wide /\ \A h \in Hexes : f.other[h] = 0
  <2>1. ~\E t \in DOMAIN Lineup : Lineup[t].wide  BY DEF Tame
  <2> QED  BY <1>1, <1>2, <2>1 DEF WideOK, Marks
<1>4. rear = hex /\ Footprint(s[1], u.wide, hex) = {hex}  BY <1>3 DEF Footprint
<1>5. Cells(f, s) = {u.hex} /\ u.hex \in Hexes /\ u.hex \in Int
  <2>1. Cells(f, s) = {u.hex}  BY <1>1, <1>2, <1>3, CellFacts
  <2>2. u.hex \in Hexes  BY <1>1, <2>1 DEF Grid, Held
  <2> QED  BY <2>1, <2>2 DEF Hexes
<1>6. old = Cells(f, s)  BY <1>3, <1>5
<1>7. p = [unit |-> U, occupant |-> O, other |-> T, corpses |-> f.corpses,
           numCreatures |-> f.numCreatures, vanish |-> f.vanish]
  <2>1. p = [f EXCEPT !.unit = U, !.occupant = O, !.other = T]
    BY <1>1 DEF Teleported, Board
  <2> HIDE DEF U, O, T, p
  <2> QED  BY <1>1, <2>1 DEF Board
<1>8. Shifted(f, s, hex, U, O, T)
  <2>1. U = [t \in Slots |-> U[t]]
        /\ \A t \in Slots : U[t] = IF t = s THEN [f.unit[s] EXCEPT !.hex = hex] ELSE f.unit[t]
    <3>1. f.unit \in [Slots -> Unit]  BY <1>1, BoardFacts
    <3> HIDE DEF rear, u
    <3> QED  BY <1>2, <1>4, <3>1
  <2>2. O = [h \in Hexes |-> O[h]] /\ T = [h \in Hexes |-> T[h]]  OBVIOUS
  <2>3. \A h \in Hexes : O[h] = IF h \in new THEN s
                                ELSE IF h \in Cells(f, s) THEN None ELSE f.occupant[h]
    BY <1>6
  <2>4. \A h \in Hexes : T[h] = IF h \in new THEN IF u.wide THEN OtherWay(s[1], hex, h) ELSE 0
                                ELSE IF h \in Cells(f, s) THEN 0 ELSE f.other[h]
    BY <1>3
  <2>5. new = Footprint(s[1], f.unit[s].wide, hex) /\ u = f.unit[s]  BY <1>4
  <2> HIDE DEF U, O, T, new, u
  <2> QED  BY <2>1, <2>2, <2>3, <2>4, <2>5 DEF Shifted
<1> HIDE DEF U, O, T
<1>9. p = Moved(f, s, hex)
  <2> HIDE DEF p
  <2>1. Moved(f, s, hex) =
          [unit |-> U, occupant |-> O, other |-> T,
           corpses |-> f.corpses, numCreatures |-> f.numCreatures, vanish |-> f.vanish]
    BY <1>1, <1>2, <1>8, MovedParts
  <2> QED  BY <1>7, <2>1
<1>10. Fits(f, s, hex)  BY <1>2, <1>4 DEF Fits
<1>11. /\ Mid(p) /\ p.vanish = {} /\ Keeps(f, p)
       /\ \A t \in Slots : p.unit[t].dying = f.unit[t].dying
  <2> HIDE DEF p
  <2> QED  BY <1>1, <1>9, <1>10, MovedMid
<1> QED  BY <1>1, <1>11 DEF Good

-----------------------------------------------------------------------------
(***************************************************************************)
(* Stacks that are raised.                                                 *)
(***************************************************************************)

(* The pile q is p without the corpse of s on its top.                      *)
Shorter(p, s, q) ==
  /\ p \in Seq(Corpse) /\ Len(p) # 0 /\ p[Len(p)].slot = s
  /\ q \in Seq(Corpse) /\ Len(q) = Len(p) - 1 /\ \A j \in 1..Len(q) : q[j] = p[j]

LEMMA ShorterFacts ==
  ASSUME NEW p, NEW q, NEW s, Shorter(p, s, q)
  PROVE  /\ Len(p) \in DOMAIN p /\ p[Len(p)].slot = s /\ DOMAIN q \subseteq DOMAIN p
         /\ \A j \in DOMAIN p : j \in DOMAIN q \/ j = Len(p)
         /\ Len(p) \notin DOMAIN q /\ \A j \in DOMAIN q : q[j] = p[j]
<1>1. Len(p) \in Nat /\ Len(q) \in Nat /\ DOMAIN p = 1..Len(p) /\ DOMAIN q = 1..Len(q)
  BY DEF Shorter
<1> QED  BY <1>1 DEF Shorter

(* The stack s has risen from the top of its piles.                         *)
Lifted(f, s, g) ==
  /\ g.unit[s] = [f.unit[s] EXCEPT !.alive = TRUE, !.isDead = FALSE]
  /\ \A t \in Slots : t # s => g.unit[t] = f.unit[t]
  /\ \A x \in Hexes : IF x \in Cells(f, s)
       THEN /\ f.occupant[x] = None /\ g.occupant[x] = s /\ g.other[x] = Mark(f, s, x)
            /\ Shorter(f.corpses[x], s, g.corpses[x])
       ELSE /\ g.occupant[x] = f.occupant[x] /\ g.other[x] = f.other[x]
            /\ g.corpses[x] = f.corpses[x]
  /\ g.numCreatures = f.numCreatures /\ g.vanish = {}

LEMMA LiftedGood ==
  ASSUME NEW f, Good(f), NEW s \in Slots, Grave(f, s), NEW g \in Board, Lifted(f, s, g)
  PROVE  Good(g)
<1>1. /\ f \in Board /\ Grid(f) /\ Marks(f) /\ Graves(f) /\ WideOK(f) /\ Counted(f) /\ Kept(f)
      /\ Links(f) /\ f.vanish = {} /\ \A t \in Slots : Sound(f.unit[t]) /\ ~f.unit[t].dying
  BY DEF Good, Mid
<1>2. f.unit[s] \in Unit /\ f.unit[s].isDead /\ ~LeavesNoBody(f.unit[s])
  BY <1>1, UnitFacts DEF Grave
<1>3. Exists(f.unit[s])
  <2>1. Sound(f.unit[s])  BY <1>1
  <2> QED  BY <1>2, <2>1 DEF Sound, Nobody
<1>4. \A t \in Slots :
        /\ g.unit[t].kind = f.unit[t].kind /\ g.unit[t].image = f.unit[t].image
        /\ g.unit[t].wide = f.unit[t].wide /\ g.unit[t].hex = f.unit[t].hex
        /\ g.unit[t].mirror = f.unit[t].mirror /\ g.unit[t].original = f.unit[t].original
        /\ g.unit[t].isDead <=> f.unit[t].isDead /\ t # s
        /\ Sound(g.unit[t]) /\ ~g.unit[t].dying
  <2>1. ASSUME NEW t \in Slots, t # s
        PROVE  g.unit[t] = f.unit[t] /\ Sound(g.unit[t]) /\ ~g.unit[t].dying
    BY <1>1, <2>1 DEF Lifted
  <2> DEFINE u == f.unit[s]
             v == g.unit[s]
  <2>2. v = [u EXCEPT !.alive = TRUE, !.isDead = FALSE]  BY DEF Lifted
  <2>3. Sound(u) /\ ~u.dying /\ u \in Unit /\ u.isDead /\ ~u.image /\ Exists(u)
    BY <1>1, <1>2, <1>3 DEF LeavesNoBody
  <2> HIDE DEF u, v
  <2>4. /\ v.kind = u.kind /\ v.image = u.image /\ v.wide = u.wide /\ v.hex = u.hex
        /\ v.mirror = u.mirror /\ v.original = u.original /\ ~v.isDead /\ v.alive
        /\ v.dying = u.dying /\ v.lifespan = u.lifespan
    BY <2>2, <2>3 DEF Unit
  <2>5. Sound(v) /\ ~v.dying  BY <2>3, <2>4 DEF Sound, Exists
  <2>6. /\ v.kind = u.kind /\ v.image = u.image /\ v.wide = u.wide /\ v.hex = u.hex
        /\ v.mirror = u.mirror /\ v.original = u.original /\ ~v.isDead /\ Sound(v) /\ ~v.dying
    BY <2>4, <2>5
  <2>7. \A t \in Slots : t # s => g.unit[t].isDead = f.unit[t].isDead  BY <2>1
  <2>8. ASSUME NEW t \in Slots, t = s
        PROVE  /\ g.unit[t].kind = f.unit[t].kind /\ g.unit[t].image = f.unit[t].image
               /\ g.unit[t].wide = f.unit[t].wide /\ g.unit[t].hex = f.unit[t].hex
               /\ g.unit[t].mirror = f.unit[t].mirror
               /\ g.unit[t].original = f.unit[t].original
               /\ ~g.unit[t].isDead /\ Sound(g.unit[t]) /\ ~g.unit[t].dying
    BY <2>6, <2>8 DEF u, v
  <2> QED  BY <2>1, <2>8
<1>5. Standing(g) = Standing(f) \cup {s}
  <2>1. \A t \in Slots : t \in Standing(g) <=> t \in Standing(f) \/ t = s
    BY <1>3, <1>4, StandingFacts DEF Exists
  <2> QED  BY <2>1, StandingFacts
<1>6. \A t \in Slots : Cells(g, t) = Cells(f, t) /\ \A x : Mark(g, t, x) = Mark(f, t, x)
  BY <1>4 DEF Cells, Mark
<1>7. s \notin Standing(f) /\ Standing(f) \subseteq Slots /\ s # None
  BY <1>2, StandingFacts, SlotFacts
<1>8. Cells(f, s) \subseteq Hexes  BY DEF Grave
<1>9. \A x \in Hexes : IF x \in Cells(f, s)
        THEN f.occupant[x] = None /\ g.occupant[x] = s /\ g.other[x] = Mark(f, s, x)
        ELSE g.occupant[x] = f.occupant[x] /\ g.other[x] = f.other[x]
  BY DEF Lifted
<1>10. \A t \in Standing(f) : t # None /\ \A x \in Cells(f, t) : x \in Hexes /\ f.occupant[x] = t
  BY <1>1, <1>7, SlotFacts DEF Grid, Held
<1>11. Grid(g)
  <2>1. Held(g) = Standing(f) \cup {s} /\ Held(f) = Standing(f) /\ g.vanish = {}
    BY <1>1, <1>5 DEF Held, Lifted
  <2>2. ASSUME NEW t \in Standing(f) \cup {s}, NEW x \in Cells(g, t)
        PROVE  x \in Hexes /\ g.occupant[x] = t
    <3>1. CASE t = s  BY <1>6, <1>8, <1>9, <2>2, <3>1
    <3>2. CASE t # s
      <4>1. x \in Hexes /\ f.occupant[x] = t /\ t # None  BY <1>6, <1>7, <1>10, <2>2, <3>2
      <4> QED  BY <1>9, <4>1
    <3> QED  BY <3>1, <3>2
  <2>3. ASSUME NEW x \in Hexes, g.occupant[x] # None
        PROVE  g.occupant[x] \in Standing(f) \cup {s} /\ x \in Cells(g, g.occupant[x])
    <3>1. CASE x \in Cells(f, s)  BY <1>6, <1>9, <3>1
    <3>2. CASE x \notin Cells(f, s)
      <4>1. f.occupant[x] \in Standing(f) /\ x \in Cells(f, f.occupant[x])
        BY <1>1, <1>9, <2>1, <2>3, <3>2 DEF Grid
      <4> QED  BY <1>6, <1>7, <1>9, <3>2, <4>1
    <3> QED  BY <3>1, <3>2
  <2> QED  BY <2>1, <2>2, <2>3 DEF Grid
<1>12. Marks(g)
  <2>1. \A t \in Slots : LeavesNoBody(g.unit[t]) = LeavesNoBody(f.unit[t])
    BY <1>4 DEF LeavesNoBody
  <2>2. ASSUME NEW t \in Standing(g), ~LeavesNoBody(g.unit[t]), NEW x \in Cells(g, t)
        PROVE  g.other[x] = Mark(g, t, x)
    <3>1. CASE t = s  BY <1>6, <1>8, <1>9, <2>2, <3>1
    <3>2. CASE t # s
      <4>1. t \in Standing(f) /\ x \in Cells(f, t) /\ ~LeavesNoBody(f.unit[t])
        BY <1>5, <1>6, <1>7, <2>1, <2>2, <3>2
      <4>2. x \in Hexes /\ x \notin Cells(f, s)  BY <1>9, <1>10, <4>1
      <4> QED  BY <1>1, <1>6, <1>7, <1>9, <4>1, <4>2 DEF Marks
    <3> QED  BY <3>1, <3>2
  <2>3. (\E t \in DOMAIN Lineup : Lineup[t].wide) \/ \A x \in Hexes : g.other[x] = 0
    BY <1>1, <1>9 DEF Marks, Mark, WideOK
  <2> QED  BY <2>2, <2>3 DEF Marks
<1>13. Graves(g)
  <2>1. ASSUME NEW x \in Hexes
        PROVE  /\ DOMAIN g.corpses[x] \subseteq DOMAIN f.corpses[x]
               /\ \A j \in DOMAIN g.corpses[x] :
                    g.corpses[x][j] = f.corpses[x][j] /\ f.corpses[x][j].slot # s
               /\ \A j \in DOMAIN f.corpses[x] :
                    f.corpses[x][j].slot # s => j \in DOMAIN g.corpses[x]
    <3>1. CASE x \in Cells(f, s)
      <4> DEFINE p == f.corpses[x]
                 q == g.corpses[x]
      <4>1. Shorter(p, s, q)  BY <3>1 DEF Lifted
      <4>2. \A j, k \in DOMAIN p : p[j].slot = s /\ p[k].slot = s => j = k
        BY DEF Grave
      <4> HIDE DEF p, q
      <4>3. /\ Len(p) \in DOMAIN p /\ p[Len(p)].slot = s /\ DOMAIN q \subseteq DOMAIN p
            /\ \A j \in DOMAIN p : j \in DOMAIN q \/ j = Len(p)
            /\ Len(p) \notin DOMAIN q /\ \A j \in DOMAIN q : q[j] = p[j]
        BY <4>1, ShorterFacts
      <4>4. /\ DOMAIN q \subseteq DOMAIN p
            /\ \A j \in DOMAIN q : q[j] = p[j] /\ p[j].slot # s
            /\ \A j \in DOMAIN p : p[j].slot # s => j \in DOMAIN q
        BY <4>2, <4>3
      <4> QED  BY <4>4 DEF p, q
    <3>2. CASE x \notin Cells(f, s)
      <4>1. g.corpses[x] = f.corpses[x]  BY <3>2 DEF Lifted
      <4>2. ~Lies(f, s, x)  BY <3>2 DEF Grave
      <4> QED  BY <4>1, <4>2 DEF Lies
    <3> QED  BY <3>1, <3>2
  <2>2. \A x \in Hexes : ~Lies(g, s, x)  BY <2>1 DEF Lies
  <2>3. ASSUME NEW t \in Slots, t # s, NEW x \in Hexes
        PROVE  Lies(g, t, x) <=> Lies(f, t, x)
    BY <2>1, <2>3 DEF Lies
  <2>4. ASSUME NEW t \in Slots, t # s, Grave(f, t)  PROVE Grave(g, t)
    <3>1. LeavesNoBody(g.unit[t]) = LeavesNoBody(f.unit[t]) /\ g.unit[t].isDead
      BY <1>4, <2>4 DEF LeavesNoBody, Grave
    <3>2. Cells(g, t) = Cells(f, t) /\ \A x : Mark(g, t, x) = Mark(f, t, x)  BY <1>6
    <3>3. ASSUME NEW x \in Hexes, NEW j \in DOMAIN g.corpses[x], NEW k \in DOMAIN g.corpses[x],
                 g.corpses[x][j].slot = t
          PROVE  /\ g.corpses[x][j].other = Mark(g, t, x)
                 /\ g.corpses[x][k].slot = t => j = k
      <4>1. /\ j \in DOMAIN f.corpses[x] /\ k \in DOMAIN f.corpses[x]
            /\ g.corpses[x][j] = f.corpses[x][j] /\ g.corpses[x][k] = f.corpses[x][k]
        BY <2>1, <3>3
      <4> QED  BY <2>4, <3>2, <3>3, <4>1 DEF Grave
    <3> QED  BY <2>3, <2>4, <3>1, <3>2, <3>3 DEF Grave
  <2> QED  BY <1>1, <2>2, <2>3, <2>4 DEF Graves
<1>14. Links(g)
  <2>1. f.unit[s].mirror = 0 /\ ~f.unit[s].image
    BY <1>1, <1>2, <1>7 DEF Links, LeavesNoBody
  <2>2. \A t \in Slots : f.unit[t].mirror \in Idx \cup {0} /\ f.unit[t].original \in Idx \cup {0}
    BY <1>1, UnitFacts
  <2>3. \A t \in Slots, k \in Idx : Fellow(t, k) \in Slots  BY SlotFacts DEF Fellow
  <2> QED  BY <1>1, <1>4, <1>5, <2>1, <2>2, <2>3, SMTT(30) DEF Links
<1>15. WideOK(g)  BY <1>1, <1>4 DEF WideOK
<1>16. Counted(g)
  <2>1. \A side \in Sides, i \in Idx : <<side, i>> \in Slots  BY SlotFacts
  <2>2. g.numCreatures = f.numCreatures  BY DEF Lifted
  <2> QED  BY <1>1, <1>4, <2>1, <2>2 DEF Counted, Exists
<1>17. Kept(g)  BY <1>1, <1>4, LineupAssumption DEF Kept
<1>18. g.vanish = {}  BY DEF Lifted
<1> QED  BY <1>4, <1>11, <1>12, <1>13, <1>14, <1>15, <1>16, <1>17, <1>18 DEF Good, Mid

OnTop(f, s, h) ==
  /\ Len(f.corpses[h]) # 0 /\ f.corpses[h][Len(f.corpses[h])].slot = s
  /\ \A j \in DOMAIN f.corpses[h] : f.corpses[h][j].slot = s => j = Len(f.corpses[h])

LEMMA UnearthedTop ==
  ASSUME NEW f \in Board, NEW s \in Slots, NEW h \in Hexes, OnTop(f, s, h),
         NEW g, g = Unearthed(f, s, h)
  PROVE  /\ g \in Board /\ g.unit = f.unit
         /\ \A x \in Hexes : g.occupant[x] = IF x = h THEN s ELSE f.occupant[x]
         /\ \A x \in Hexes : g.other[x] = IF x = h THEN 0 ELSE f.other[x]
         /\ \A x \in Hexes : x # h => g.corpses[x] = f.corpses[x]
         /\ Shorter(f.corpses[h], s, g.corpses[h])
         /\ g.numCreatures = f.numCreatures /\ g.vanish = f.vanish
<1> DEFINE pile == f.corpses[h]
           n == Len(pile)
           i == CHOOSE j \in 1..n : pile[j].slot = s
           shorter == [j \in 1..(n - 1) |->
                         IF j < i THEN pile[j]
                         ELSE [slot |-> pile[j + 1].slot, other |-> pile[j].other]]
           short == [j \in 1..(n - 1) |-> pile[j]]
           O == [f.occupant EXCEPT ![h] = s]
           T == [f.other EXCEPT ![h] = 0]
           C == [f.corpses EXCEPT ![h] = short]
<1>1. pile \in Seq(Corpse) /\ n \in Nat /\ DOMAIN pile = 1..n  BY DEF Board
<1>2. n # 0 /\ pile[n].slot = s /\ \A j \in 1..n : pile[j].slot = s => j = n
  <2> HIDE DEF pile
  <2>1. OnTop(f, s, h) <=> /\ Len(pile) # 0 /\ pile[Len(pile)].slot = s
                           /\ \A j \in DOMAIN pile : pile[j].slot = s => j = Len(pile)
    BY DEF OnTop, pile
  <2> QED  BY <1>1, <2>1
<1>3. n \in 1..n /\ \E j \in 1..n : pile[j].slot = s  BY <1>1, <1>2
<1> HIDE DEF pile, n
<1>4. i = n  BY <1>2, <1>3
<1>5. shorter = short
  <2> HIDE DEF i
  <2> QED  BY <1>1, <1>4
<1>6. short \in Seq(Corpse) /\ Len(short) = n - 1 /\ \A j \in 1..(n - 1) : short[j] = pile[j]
  <2>1. \A j \in 1..(n - 1) : pile[j] \in Corpse
    <3>1. \A j \in 1..(n - 1) : j \in 1..n  BY <1>1
    <3>2. \A j \in 1..n : pile[j] \in Corpse  BY <1>1
    <3> QED  BY <3>1, <3>2
  <2>2. n - 1 \in Nat  BY <1>1, <1>2
  <2> QED  BY <2>1, <2>2
<1>7. g = [f EXCEPT !.occupant[h] = pile[n].slot, !.other[h] = 0, !.corpses[h] = shorter]
  <2> HIDE DEF i
  <2>1. \E j \in 1..n : pile[j].slot = s  BY <1>3
  <2> QED  BY <2>1 DEF Unearthed, pile, n, i
<1> HIDE DEF shorter, i, short
<1>8. Shorter(pile, s, short)
  <2>1. n = Len(pile)  BY DEF n
  <2> QED  BY <1>1, <1>2, <1>6, <2>1 DEF Shorter
<1>9. g = [f EXCEPT !.occupant = O, !.other = T, !.corpses = C]
  BY <1>2, <1>5, <1>7 DEF Board
<1>10. /\ O \in [Hexes -> Slots \cup {None}] /\ T \in [Hexes -> {-1, 0, 1}]
       /\ C \in [Hexes -> Seq(Corpse)] /\ C[h] = short
       /\ \A x \in Hexes : O[x] = IF x = h THEN s ELSE f.occupant[x]
       /\ \A x \in Hexes : T[x] = IF x = h THEN 0 ELSE f.other[x]
       /\ \A x \in Hexes : x # h => C[x] = f.corpses[x]
  <2>1. /\ f.occupant \in [Hexes -> Slots \cup {None}] /\ f.other \in [Hexes -> {-1, 0, 1}]
        /\ f.corpses \in [Hexes -> Seq(Corpse)]
    BY BoardFacts
  <2> QED  BY <1>6, <2>1
<1> HIDE DEF O, T, C
<1>11. /\ g \in Board /\ g.unit = f.unit /\ g.occupant = O /\ g.other = T /\ g.corpses = C
       /\ g.numCreatures = f.numCreatures /\ g.vanish = f.vanish
  BY <1>9, <1>10 DEF Board
<1> QED  BY <1>8, <1>10, <1>11 DEF pile

(* A corpse on top of its piles rises where it lay.                         *)
LEMMA RaisedGood ==
  ASSUME NEW f, Good(f), NEW side \in Sides, NEW h \in Hexes, NEW i,
         f.occupant[h] = None, Topmost(f, side, h, i),
         \A c \in {h, h + f.corpses[h][i].other} :
           f.corpses[c][Len(f.corpses[c])].slot = f.corpses[h][i].slot
  PROVE  Good(Raised(f, side, h, i)) /\ Keeps(f, Raised(f, side, h, i))
<1> DEFINE corpse == f.corpses[h][i]
           s == corpse.slot
           w == corpse.other
           h2 == h + w
           u == f.unit[s]
           d == Ahead(side)
<1>1. f \in Board /\ Graves(f) /\ WideOK(f) /\ f.vanish = {}  BY DEF Good, Mid
<1>2. i \in DOMAIN f.corpses[h] /\ s[1] = side /\ (w # 0 => f.occupant[h2] = None)
  BY DEF Topmost, Raisable
<1>3. s \in Slots /\ Lies(f, s, h)
  <2>1. f.corpses[h] \in Seq(Corpse)  BY <1>1, BoardFacts
  <2>2. corpse \in Corpse  BY <1>2, <2>1
  <2> QED  BY <1>2, <2>2 DEF Lies, Corpse
<1>4. Grave(f, s)  BY <1>1, <1>3 DEF Graves
<1>5. h \in Cells(f, s) /\ Cells(f, s) \subseteq Hexes /\ w = Mark(f, s, h)
  BY <1>2, <1>3, <1>4 DEF Grave
<1>6. \A x \in {h, h2} : f.corpses[x][Len(f.corpses[x])].slot = s  OBVIOUS
<1>7. u.wide \in BOOLEAN /\ u.hex \in Int /\ d \in {1, -1} /\ h \in Int /\ u \in Unit
  <2>1. d \in {1, -1}  BY DEF Ahead
  <2>2. h \in Int  BY DEF Hexes
  <2> HIDE DEF d, s
  <2> QED  BY <1>1, <1>3, <2>1, <2>2, UnitFacts
<1> HIDE DEF corpse, u, w
<1>8. /\ Cells(f, s) = {h, h2}
      /\ u.wide => h2 # h /\ w # 0 /\ u.hex = IF (side = 0) = (h2 > h) THEN h ELSE h2
      /\ ~u.wide => h2 = h /\ w = 0 /\ u.hex = h
  <2>1. CASE ~u.wide
    <3>1. Cells(f, s) = {u.hex}  BY <1>1, <1>3, <2>1, CellFacts DEF u
    <3>2. w = 0  BY <1>5, <2>1 DEF Mark, u
    <3> QED  BY <1>5, <1>7, <2>1, <3>1, <3>2
  <2>2. CASE u.wide
    <3>1. Cells(f, s) = {u.hex, u.hex + d}  BY <1>1, <1>2, <1>3, <2>2, CellFacts DEF u
    <3>2. w = IF h = u.hex THEN d ELSE -d  BY <1>2, <1>5, <2>2 DEF Mark, u, OtherWay
    <3>3. d = IF side = 0 THEN 1 ELSE -1  BY DEF Ahead
    <3>4. CASE h = u.hex
      <4>1. h2 = h + d  BY <3>2, <3>4
      <4>2. (side = 0) = (h2 > h)  BY <1>7, <3>3, <4>1
      <4> QED  BY <1>7, <2>2, <3>1, <3>2, <3>4, <4>1, <4>2
    <3>5. CASE h # u.hex
      <4>1. h = u.hex + d /\ w = -d /\ h2 = u.hex  BY <1>5, <1>7, <3>1, <3>2, <3>5
      <4>2. (side = 0) # (h2 > h)  BY <1>7, <3>3, <4>1
      <4> QED  BY <1>7, <2>2, <3>1, <3>5, <4>1, <4>2
    <3> QED  BY <3>4, <3>5
  <2> QED  BY <1>7, <2>1, <2>2
<1>9. h2 \in Hexes /\ f.occupant[h2] = None  BY <1>2, <1>5, <1>7, <1>8
<1>10. ASSUME NEW x \in {h, h2}  PROVE OnTop(f, s, x)
  <2>1. x \in Hexes /\ Lies(f, s, x)  BY <1>4, <1>5, <1>8 DEF Grave
  <2>2. f.corpses[x] \in Seq(Corpse)  BY <1>1, <2>1, BoardFacts
  <2>3. Len(f.corpses[x]) \in Nat /\ DOMAIN f.corpses[x] = 1..Len(f.corpses[x])  BY <2>2
  <2>4. PICK j \in DOMAIN f.corpses[x] : f.corpses[x][j].slot = s  BY <2>1 DEF Lies
  <2>5. Len(f.corpses[x]) # 0 /\ Len(f.corpses[x]) \in DOMAIN f.corpses[x]  BY <2>3, <2>4
  <2>6. f.corpses[x][Len(f.corpses[x])].slot = s  BY <1>6
  <2> QED  BY <1>4, <2>1, <2>5, <2>6 DEF OnTop, Grave
<1> DEFINE g == Unearthed(f, s, h)
           up == IF w # 0 THEN Unearthed(g, s, h2) ELSE g
<1> HIDE DEF s
<1>11. /\ g \in Board /\ g.unit = f.unit
       /\ \A x \in Hexes : g.occupant[x] = IF x = h THEN s ELSE f.occupant[x]
       /\ \A x \in Hexes : g.other[x] = IF x = h THEN 0 ELSE f.other[x]
       /\ \A x \in Hexes : x # h => g.corpses[x] = f.corpses[x]
       /\ Shorter(f.corpses[h], s, g.corpses[h])
       /\ g.numCreatures = f.numCreatures /\ g.vanish = f.vanish
  BY <1>1, <1>3, <1>10, UnearthedTop
<1> HIDE DEF g
<1>12. /\ up \in Board /\ up.unit = f.unit
       /\ \A x \in Hexes : up.occupant[x] = IF x \in {h, h2} THEN s ELSE f.occupant[x]
       /\ \A x \in Hexes : up.other[x] = IF x \in {h, h2} THEN 0 ELSE f.other[x]
       /\ \A x \in Hexes : x \notin {h, h2} => up.corpses[x] = f.corpses[x]
       /\ \A x \in {h, h2} : Shorter(f.corpses[x], s, up.corpses[x])
       /\ up.numCreatures = f.numCreatures /\ up.vanish = f.vanish
  <2>1. CASE ~u.wide
    <3>1. up = g /\ h2 = h  BY <1>8, <2>1
    <3> HIDE DEF up, h2
    <3> QED  BY <1>11, <3>1
  <2>2. CASE u.wide
    <3>1. w # 0 /\ h2 # h  BY <1>8, <2>2
    <3>2. g.corpses[h2] = f.corpses[h2]  BY <1>9, <1>11, <3>1
    <3>3. OnTop(g, s, h2)
      <4>1. OnTop(f, s, h2)  BY <1>10
      <4> HIDE DEF h2
      <4> QED  BY <3>2, <4>1 DEF OnTop
    <3>4. up = Unearthed(g, s, h2)  BY <3>1
    <3> HIDE DEF up, h2
    <3>5. /\ up \in Board /\ up.unit = g.unit
          /\ \A x \in Hexes : up.occupant[x] = IF x = h2 THEN s ELSE g.occupant[x]
          /\ \A x \in Hexes : up.other[x] = IF x = h2 THEN 0 ELSE g.other[x]
          /\ \A x \in Hexes : x # h2 => up.corpses[x] = g.corpses[x]
          /\ Shorter(g.corpses[h2], s, up.corpses[h2])
          /\ up.numCreatures = g.numCreatures /\ up.vanish = g.vanish
      BY <1>3, <1>9, <1>11, <3>3, <3>4, UnearthedTop
    <3> QED  BY <1>11, <3>1, <3>2, <3>5
  <2> QED  BY <1>7, <2>1, <2>2
<1> DEFINE rear == IF ~u.wide THEN u.hex ELSE IF (side = 0) = (h2 > h) THEN h ELSE h2
           cells == IF u.wide THEN {h, h2} ELSE {}
           v == [u EXCEPT !.alive = TRUE, !.isDead = FALSE]
           U == [f.unit EXCEPT ![s] = v]
           T == [c \in Hexes |-> IF c \in cells THEN OtherWay(side, rear, c) ELSE up.other[c]]
           r == Raised(f, side, h, i)
<1>13. rear = u.hex  BY <1>8
<1> HIDE DEF up
<1>14. r = [up EXCEPT !.unit[s].hex = rear, !.unit[s].alive = TRUE, !.unit[s].isDead = FALSE,
                      !.other = T]
  BY DEF Raised, s, w, corpse, u, g, up
<1>15. v \in Unit  BY <1>7 DEF Unit
<1>16. U \in [Slots -> Unit] /\ U[s] = v /\ \A t \in Slots : t # s => U[t] = f.unit[t]
  <2>1. f.unit \in [Slots -> Unit]  BY <1>1, BoardFacts
  <2> HIDE DEF v
  <2> QED  BY <1>3, <1>15, <2>1
<1>17. T \in [Hexes -> {-1, 0, 1}]
       /\ \A x \in Hexes : T[x] = IF x \in {h, h2} THEN Mark(f, s, x) ELSE f.other[x]
  <2>1. \A x \in Hexes : T[x] = IF x \in {h, h2} THEN Mark(f, s, x) ELSE f.other[x]
    <3>1. CASE u.wide
      <4>1. \A x \in Hexes : Mark(f, s, x) = OtherWay(side, u.hex, x)
        BY <1>2, <3>1 DEF Mark, u, s
      <4> HIDE DEF rear, h2
      <4> QED  BY <1>12, <1>13, <3>1, <4>1
    <3>2. CASE ~u.wide
      <4>1. \A x \in Hexes : Mark(f, s, x) = 0  BY <3>2 DEF Mark, u
      <4> HIDE DEF rear, h2
      <4> QED  BY <1>12, <3>2, <4>1
    <3> QED  BY <1>7, <3>1, <3>2
  <2>2. \A x \in Hexes : Mark(f, s, x) \in {-1, 0, 1}  BY WayFacts DEF Mark
  <2>3. \A x \in Hexes : f.other[x] \in {-1, 0, 1}  BY <1>1, BoardFacts
  <2>4. T = [x \in Hexes |-> T[x]]  OBVIOUS
  <2> HIDE DEF T, h2
  <2> QED  BY <2>1, <2>2, <2>3, <2>4
<1> HIDE DEF T
<1>18. r = [up EXCEPT !.unit = U, !.other = T]
  <2>1. u = f.unit[s] /\ f.unit \in [Slots -> Unit]  BY <1>1, BoardFacts DEF u
  <2>2. [[[u EXCEPT !.hex = rear] EXCEPT !.alive = TRUE] EXCEPT !.isDead = FALSE] = v
    <3> HIDE DEF rear
    <3> QED  BY <1>7, <1>13 DEF Unit
  <2> HIDE DEF rear, v, r, u
  <2>3. r.unit = U
    BY <1>3, <1>12, <1>14, <2>1, <2>2 DEF Board
  <2> QED  BY <1>12, <1>14, <2>3 DEF Board
<1> HIDE DEF U, r
<1>19. /\ r \in Board /\ r.unit = U /\ r.other = T /\ r.occupant = up.occupant
       /\ r.corpses = up.corpses /\ r.numCreatures = f.numCreatures /\ r.vanish = {}
  BY <1>1, <1>12, <1>16, <1>17, <1>18 DEF Board
<1>20. Lifted(f, s, r)
  <2>1. r.unit[s] = [f.unit[s] EXCEPT !.alive = TRUE, !.isDead = FALSE]
    BY <1>16, <1>19 DEF u
  <2>2. \A t \in Slots : t # s => r.unit[t] = f.unit[t]  BY <1>16, <1>19
  <2>3. \A x \in Hexes : IF x \in Cells(f, s)
          THEN /\ f.occupant[x] = None /\ r.occupant[x] = s /\ r.other[x] = Mark(f, s, x)
               /\ Shorter(f.corpses[x], s, r.corpses[x])
          ELSE /\ r.occupant[x] = f.occupant[x] /\ r.other[x] = f.other[x]
               /\ r.corpses[x] = f.corpses[x]
    <3> HIDE DEF h2
    <3> QED  BY <1>8, <1>9, <1>12, <1>17, <1>19
  <2> QED  BY <1>19, <2>1, <2>2, <2>3 DEF Lifted
<1>21. Good(r)  BY <1>3, <1>4, <1>19, <1>20, LiftedGood
<1>22. Keeps(f, r)
  <2>1. ~f.unit[s].image  BY <1>4 DEF Grave, LeavesNoBody
  <2>2. f.unit[s] \in Unit  BY <1>1, <1>3, UnitFacts
  <2>3. ~r.unit[s].image  BY <1>20, <2>1, <2>2 DEF Lifted, Unit
  <2> QED  BY <1>20, <2>3 DEF Lifted, Keeps, Image
<1> QED  BY <1>21, <1>22 DEF r

-----------------------------------------------------------------------------
(***************************************************************************)
(* Rounds.                                                                 *)
(***************************************************************************)

Aged(f, s, left, g) == g = [f EXCEPT !.unit[s].lifespan = left]

LEMMA AgedMid ==
  ASSUME NEW f, Mid(f), NEW s \in Slots, NEW left \in Int,
         IF f.unit[s].image THEN left >= 0 ELSE left = f.unit[s].lifespan,
         NEW g, Aged(f, s, left, g)
  PROVE  /\ Mid(g) /\ g.vanish = f.vanish
         /\ \A t \in Slots : SameBody(f.unit[t], g.unit[t])
                             /\ g.unit[t].dying = f.unit[t].dying
<1> DEFINE u == f.unit[s]
           v == [u EXCEPT !.lifespan = left]
           U == [f.unit EXCEPT ![s] = v]
<1>1. f \in Board /\ \A t \in Slots : Sound(f.unit[t])  BY DEF Mid
<1>2. u \in Unit /\ Sound(u)  BY <1>1, UnitFacts
<1>3. f.unit \in [Slots -> Unit]  BY <1>1, BoardFacts
<1>4. g = [f EXCEPT !.unit = U]  BY <1>1, <1>3 DEF Board, Aged
<1> HIDE DEF u
<1>5. v \in Unit /\ SameBody(u, v) /\ v.dying = u.dying /\ v.alive = u.alive
      /\ v.lifespan = left /\ v.reborn = u.reborn
  BY <1>2 DEF SameBody, Unit
<1>6. ~Exists(v) => v = [Nobody EXCEPT !.reborn = v.reborn]
  <2>1. SUFFICES ASSUME ~Exists(v)  PROVE v = [Nobody EXCEPT !.reborn = v.reborn]
    OBVIOUS
  <2>2. ~Exists(u)  BY <1>5, <2>1 DEF Exists, SameBody
  <2>3. u = [Nobody EXCEPT !.reborn = u.reborn]  BY <1>2, <2>2 DEF Sound
  <2>4. left = u.lifespan
    <3>1. ~u.image  BY <2>3 DEF Nobody
    <3> QED  BY <3>1 DEF u
  <2>5. v = u  BY <1>2, <2>4 DEF Unit
  <2> QED  BY <2>3, <2>5
<1>7. Sound(v)
  <2>1. IF u.image THEN left >= 0 ELSE left = u.lifespan  BY DEF u
  <2> HIDE DEF v
  <2> QED  BY <1>2, <1>5, <1>6, <2>1 DEF Sound, SameBody, Exists
<1> HIDE DEF v
<1>8. U \in [Slots -> Unit] /\ \A t \in Slots : U[t] = IF t = s THEN v ELSE f.unit[t]
  BY <1>3, <1>5
<1> HIDE DEF U
<1>9. /\ g \in Board /\ g.unit = U /\ g.occupant = f.occupant /\ g.other = f.other
      /\ g.corpses = f.corpses /\ g.numCreatures = f.numCreatures /\ g.vanish = f.vanish
  BY <1>1, <1>4, <1>8 DEF Board
<1>10. ASSUME NEW t \in Slots
       PROVE  /\ SameBody(f.unit[t], g.unit[t]) /\ Sound(g.unit[t])
              /\ g.unit[t].dying = f.unit[t].dying
  <2>1. CASE t = s  BY <1>5, <1>7, <1>8, <1>9, <2>1 DEF u
  <2>2. CASE t # s  BY <1>1, <1>8, <1>9, <2>2 DEF SameBody
  <2> QED  BY <2>1, <2>2
<1>11. Alike(f, g)  BY <1>9, <1>10 DEF Alike
<1>12. Mid(g)  BY <1>9, <1>10, <1>11, AlikeMid
<1> QED  BY <1>9, <1>10, <1>12

(* Between two stacks of ResetRound: only images have yet to vanish.        *)
Pausing(f) ==
  Mid(f) /\ (Imaging \/ f.vanish = {}) /\ \A t \in Slots : ~f.unit[t].dying

(* The fire kills before the stack is aged.                                 *)
LEMMA BurntGood ==
  ASSUME Tame, NEW f, Pausing(f), NEW s \in Slots, f.unit[s].alive, NEW K, ~Imaging
  PROVE  Pausing(PowEffect(Struck(f, {s}, K)))
<1> DEFINE V == {s}
           g == Struck(f, V, K)
<1>1. Mid(f) /\ f \in Board /\ f.vanish = {} /\ Sound(f.unit[s])  BY DEF Pausing, Mid
<1>2. f.unit[s] \in Unit  BY <1>1, UnitFacts
<1>3. Exists(f.unit[s]) /\ ~f.unit[s].isDead
  BY <1>1, <1>2 DEF Sound, Nobody, Exists, Unit
<1>4. V \in SUBSET Standing(f)  BY <1>3, StandingFacts
<1> HIDE DEF V
<1>5. Mid(g) /\ g.vanish = {}  BY <1>1, <1>4, StruckMid DEF Alike
<1> HIDE DEF g
<1>6. Good(PowEffect(g))  BY <1>5, PowEffectGood
<1> QED  BY <1>6 DEF g, V, Good, Pausing

LEMMA StackRoundMid ==
  ASSUME Tame, NEW f, Pausing(f), NEW s \in Slots, NEW B, B # {} => Burning, NEW K
  PROVE  Pausing(StackRound(f, s, B, K))
<1> DEFINE g == IF s \in B THEN PowEffect(Struck(f, {s}, K)) ELSE f
           left == IF g.unit[s].lifespan > 0 THEN g.unit[s].lifespan - 1
                                             ELSE g.unit[s].lifespan
           h == [g EXCEPT !.unit[s].lifespan = left]
           r == StackRound(f, s, B, K)
<1>1. CASE ~f.unit[s].alive
  <2>1. r = f  BY <1>1 DEF StackRound
  <2> QED  BY <2>1
<1>2. CASE f.unit[s].alive
  <2>1. r = IF left = 0 THEN Bury(h, {s}, TRUE) ELSE h  BY <1>2 DEF StackRound
  <2>2. Pausing(g)
    <3>1. CASE s \in B
      <4>1. ~Imaging  BY <3>1 DEF Tame
      <4>2. g = PowEffect(Struck(f, {s}, K))  BY <3>1
      <4> HIDE DEF g
      <4> QED  BY <1>2, <4>1, <4>2, BurntGood
    <3>2. CASE s \notin B  BY <3>2
    <3> QED  BY <3>1, <3>2
  <2> HIDE DEF g
  <2>3. Mid(g) /\ Sound(g.unit[s]) /\ g.unit[s].lifespan \in Int
        /\ (Imaging \/ g.vanish = {}) /\ \A t \in Slots : ~g.unit[t].dying
    <3>1. g \in Board  BY <2>2 DEF Pausing, Mid
    <3> QED  BY <2>2, <3>1, UnitFacts DEF Pausing, Mid
  <2>4. /\ left \in Int
        /\ IF g.unit[s].image THEN left >= 0
           ELSE left = g.unit[s].lifespan /\ left # 0
    BY <2>3 DEF Sound
  <2> HIDE DEF left
  <2>5. Aged(g, s, left, h)  BY DEF Aged
  <2> HIDE DEF h
  <2>6. /\ Mid(h) /\ h.vanish = g.vanish
        /\ \A t \in Slots : SameBody(g.unit[t], h.unit[t]) /\ h.unit[t].dying = g.unit[t].dying
    <3>1. /\ Mid(g) /\ left \in Int
          /\ IF g.unit[s].image THEN left >= 0 ELSE left = g.unit[s].lifespan
      BY <2>3, <2>4
    <3> QED  BY <2>5, <3>1, AgedMid
  <2>7. CASE left # 0
    <3>1. Pausing(h)  BY <2>3, <2>6 DEF Pausing
    <3>2. r = h  BY <2>1, <2>7
    <3> HIDE DEF r
    <3>3. Pausing(r)  BY <3>1, <3>2
    <3> QED  BY <3>3 DEF r
  <2>8. CASE left = 0
    <3> DEFINE e == TRUE
               D == {s}
               b == Bury(h, D, e)
    <3>1. h.unit[s].image /\ Imaging
      <4>1. g.unit[s].image  BY <2>4, <2>8
      <4>2. h.unit[s].image = g.unit[s].image  BY <2>6 DEF SameBody
      <4>3. Sound(h.unit[s])  BY <2>6 DEF Mid
      <4> QED  BY <4>1, <4>2, <4>3 DEF Sound
    <3>2. Exists(h.unit[s])
      <4>1. Sound(h.unit[s])  BY <2>6 DEF Mid
      <4> QED  BY <3>1, <4>1 DEF Sound, Nobody
    <3>3. Ripe(h, D)  BY <3>1, <3>2 DEF Ripe
    <3>4. Expiring(h, D, e)  BY <3>1 DEF Expiring
    <3> HIDE DEF D, e
    <3>5. b = Bury(h, D, e)  OBVIOUS
    <3> HIDE DEF b
    <3>6. Mid(b)  BY <2>6, <3>3, <3>4, <3>5, BuryMid
    <3>7. \A t \in Slots : ~b.unit[t].dying
      <4>1. \A t \in Slots : b.unit[t].dying <=> h.unit[t].dying /\ t \notin Fallen(h, D)
        BY <2>6, <3>3, <3>5, BuryUnits
      <4> QED  BY <2>3, <2>6, <4>1
    <3>8. Pausing(b)  BY <3>1, <3>6, <3>7 DEF Pausing
    <3>9. r = b  BY <2>1, <2>8 DEF b, D, e
    <3> HIDE DEF r
    <3>10. Pausing(r)  BY <3>8, <3>9
    <3> QED  BY <3>10 DEF r
  <2> QED  BY <2>7, <2>8
<1> QED  BY <1>1, <1>2

LEMMA OrderFacts ==
  ASSUME NEW n \in 1..(2 * MaxStacks)
  PROVE  SlotOrder[n] \in Slots
<1>1. MaxStacks \in Nat \ {0} /\ n \in Nat  BY BoardAssumption
<1>2. (n - 1) \div MaxStacks \in {0, 1}  BY <1>1
<1>3. ((n - 1) % MaxStacks) + 1 \in 1..MaxStacks  BY <1>1
<1> QED  BY <1>2, <1>3 DEF SlotOrder, Slots, Sides, Idx

(* The loop of ResetRound: every stack in its turn.                         *)
Laps(f, B, K, P) ==
  /\ P[0] = f
  /\ \A n \in 1..(2 * MaxStacks) : P[n] = StackRound(P[n - 1], SlotOrder[n], B, K)
  /\ \A n \in 0..(2 * MaxStacks) : Pausing(P[n])

LEMMA ResettingLaps ==
  ASSUME Tame, NEW f, Good(f), NEW B, B # {} => Burning, NEW K
  PROVE  Laps(f, B, K, Resetting(f, B, K))
<1> DEFINE N == 2 * MaxStacks
           S == {g \in Board : Pausing(g)}
           x == [f EXCEPT !.vanish = {}]
           One(n, g) == StackRound(g, SlotOrder[n], B, K)
           Step == [n \in 1..N |-> [g \in S |-> One(n, g)]]
           Body(p) == [n \in 0..N |-> IF n = 0 THEN x ELSE One(n, p[n - 1])]
           P == Resetting(f, B, K)
<1>1. N \in Nat  BY BoardAssumption
<1>2. x \in S /\ x = f
  <2>1. f \in Board /\ f.vanish = {} /\ Pausing(f)  BY DEF Good, Mid, Pausing
  <2>2. x = f  BY <2>1 DEF Board
  <2> QED  BY <2>1, <2>2
<1>3. ASSUME NEW n \in 1..N, NEW g \in S  PROVE One(n, g) \in S
  <2> DEFINE s == SlotOrder[n]
             m == StackRound(g, s, B, K)
  <2>1. s \in Slots  BY OrderFacts
  <2>2. Pausing(g)  OBVIOUS
  <2> HIDE DEF s
  <2>3. Pausing(m)  BY <2>1, <2>2, StackRoundMid
  <2> HIDE DEF m
  <2>4. m \in S  BY <2>3 DEF Pausing, Mid
  <2> QED  BY <2>4 DEF m, s
<1> HIDE DEF One, S, N, x
<1>4. Step \in [1..N -> [S -> S]]  BY <1>3
<1>5. \E p : p = Body(p)
  <2>1. PICK g : Runs(g, N, S, x, Step)
    <3> HIDE DEF Step
    <3> QED  BY <1>1, <1>2, <1>4, Iterates
  <2>2. ASSUME NEW n \in 1..N  PROVE g[n] = One(n, g[n - 1])
    <3>1. n - 1 \in 0..N  BY <1>1
    <3>2. g[n - 1] \in S  BY <2>1, <3>1 DEF Runs
    <3> QED  BY <2>1, <3>2 DEF Runs
  <2>3. \A n \in 0..N : n = 0 \/ n \in 1..N  BY <1>1
  <2>4. g = Body(g)  BY <2>1, <2>2, <2>3 DEF Runs
  <2> QED  BY <2>4
<1>6. P = CHOOSE p : p = Body(p)  BY DEF Resetting, One, N, x
<1>7. P = Body(P)
  <2> HIDE DEF Body, P
  <2> QED  BY <1>5, <1>6
<1>8. P[0] = x /\ \A n \in 1..N : P[n] = One(n, P[n - 1])
  <2> HIDE DEF P
  <2>1. 0 \in 0..N /\ \A n \in 1..N : n \in 0..N /\ n # 0  BY <1>1
  <2> QED  BY <1>7, <2>1
<1> HIDE DEF P
<1>9. \A n \in 0..N : P[n] \in S
  <2>1. \A n \in 1..N : P[n - 1] \in S => P[n] \in S  BY <1>3, <1>8
  <2> QED  BY <1>1, <1>2, <1>8, <2>1, StaysIn
<1> QED  BY <1>2, <1>8, <1>9 DEF Laps, S, One, P, N

LEMMA NewRoundGood ==
  ASSUME Tame, NEW f, Good(f), NEW B, B # {} => Burning, NEW K
  PROVE  Good(Vanish(Resetting(f, B, K)[2 * MaxStacks]))
<1> DEFINE z == Resetting(f, B, K)[2 * MaxStacks]
           v == Vanish(z)
<1>1. 2 * MaxStacks \in 0..(2 * MaxStacks)  BY BoardAssumption
<1>2. Pausing(z)  BY <1>1, ResettingLaps DEF Laps
<1> HIDE DEF z
<1>3. Mid(v) /\ v.vanish = {} /\ v.unit = z.unit  BY <1>2, VanishMid DEF Pausing
<1> HIDE DEF v
<1>4. Good(v)  BY <1>2, <1>3 DEF Good, Pausing
<1> QED  BY <1>4 DEF v, z
-----------------------------------------------------------------------------
(***************************************************************************)
(* One lemma per action.                                                   *)
(***************************************************************************)

LEMMA BlowGood ==
  ASSUME NEW f, Good(f), NEW V \in SUBSET Standing(f), NEW K
  PROVE  Good(PowEffect(Struck(f, V, K))) /\ Keeps(f, PowEffect(Struck(f, V, K)))
<1> DEFINE g == Struck(f, V, K)
<1>1. Mid(f) /\ f.vanish = {}  BY DEF Good
<1>2. Mid(g) /\ Alike(f, g) /\ Keeps(f, g)  BY <1>1, StruckMid
<1>3. g.vanish = {}  BY <1>1, <1>2 DEF Alike
<1> HIDE DEF g
<1>4. Good(PowEffect(g)) /\ Keeps(g, PowEffect(g))  BY <1>2, <1>3, PowEffectGood
<1>5. Keeps(f, PowEffect(g))  BY <1>2, <1>4 DEF Keeps
<1> QED  BY <1>4, <1>5 DEF g

(* If nobody fell there is nobody whom the spell's loop could spare.        *)
LEMMA AbilitySparesNobody ==
  ASSUME NEW f, Good(f), NEW V \in SUBSET Standing(f), NEW K,
         MayParalyze(Struck(f, V, K), V)
  PROVE  CastSpellEnds(Struck(f, V, K)) = Struck(f, V, K)
<1> DEFINE g == Struck(f, V, K)
           killed == {s \in V : s \in K \/ f.unit[s].image}
<1>1. Mid(f) /\ f \in Board /\ V \subseteq Slots  BY StandingFacts DEF Good, Mid
<1>2. Mid(g) /\ g \in Board
  <2>1. Mid(g)  BY <1>1, StruckMid
  <2> QED  BY <2>1 DEF Mid
<1>3. ASSUME NEW s \in Slots
      PROVE  /\ g.unit[s].alive <=> f.unit[s].alive /\ s \notin killed
             /\ g.unit[s].dying <=> f.unit[s].dying \/ s \in killed
  <2>1. f.unit[s] \in Unit  BY <1>1, UnitFacts
  <2>2. g.unit[s] = [f.unit[s] EXCEPT !.alive = f.unit[s].alive /\ s \notin killed,
                                      !.dying = f.unit[s].dying \/ s \in killed]
    BY <1>1 DEF Struck, Board
  <2> HIDE DEF g, killed
  <2> QED  BY <2>1, <2>2 DEF Unit
<1>4. killed = {}
  <2>1. \A s \in V : g.unit[s].alive  BY DEF MayParalyze
  <2>2. \A s \in V : s \notin killed  BY <1>1, <1>3, <2>1
  <2> QED  BY <2>2
<1>5. \A s \in Slots : ~g.unit[s].dying
  BY <1>3, <1>4 DEF Good
<1> HIDE DEF g, killed
<1>6. CastSpellEnds(g) = g
  <2>1. g.unit \in [Slots -> Unit]  BY <1>2, BoardFacts
  <2>2. ASSUME NEW s \in Slots  PROVE [g.unit[s] EXCEPT !.dying = FALSE] = g.unit[s]
    <3>1. g.unit[s] \in Unit /\ g.unit[s].dying = FALSE  BY <1>5, <2>1 DEF Unit
    <3> QED  BY <3>1 DEF Unit
  <2>3. [s \in Slots |-> [g.unit[s] EXCEPT !.dying = FALSE]] = g.unit  BY <2>1, <2>2
  <2>4. [g EXCEPT !.unit = g.unit] = g  BY <1>2 DEF Board
  <2> QED  BY <2>3, <2>4 DEF CastSpellEnds
<1> QED  BY <1>6 DEF g

LEMMA AbilityGood ==
  ASSUME NEW f, Good(f), NEW V \in SUBSET Standing(f), NEW K,
         MayParalyze(Struck(f, V, K), V)
  PROVE  /\ Good(PowEffect(CastSpellEnds(Struck(f, V, K))))
         /\ Keeps(f, PowEffect(CastSpellEnds(Struck(f, V, K))))
<1>1. CastSpellEnds(Struck(f, V, K)) = Struck(f, V, K)  BY AbilitySparesNobody
<1>2. Good(PowEffect(Struck(f, V, K))) /\ Keeps(f, PowEffect(Struck(f, V, K)))
  BY BlowGood
<1> QED  BY <1>1, <1>2

(* A narrow shooter may turn as often as it likes.                          *)
LEMMA ShootsInPlace ==
  ASSUME Tame, NEW f, Good(f), NEW s \in Shooters, NEW right,
         NEW V \in SUBSET Standing(f), NEW K
  PROVE  OccupyHexes(PowEffect(Struck(OccupyHexes(f, s, right), V, K)), s, right)
           = PowEffect(Struck(f, V, K))
<1> DEFINE r == PowEffect(Struck(f, V, K))
<1>1. Good(r)  BY BlowGood
<1>2. s \in Slots /\ s \in DOMAIN Lineup /\ ~Lineup[s].wide
  BY LineupAssumption DEF Tame
<1>3. ~f.unit[s].wide  BY <1>2 DEF Good, Mid, WideOK
<1> HIDE DEF r
<1>4. ~r.unit[s].wide  BY <1>1, <1>2 DEF Good, Mid, WideOK
<1>5. OccupyHexes(f, s, right) = f  BY <1>3 DEF OccupyHexes
<1>6. OccupyHexes(r, s, right) = r  BY <1>4 DEF OccupyHexes
<1> QED  BY <1>5, <1>6 DEF r

LEMMA ShootBehindGood ==
  ASSUME Tame, NEW f, Good(f), NEW s \in Shooters, NEW right,
         NEW V \in SUBSET Standing(f), NEW K,
         NEW g, g = OccupyHexes(PowEffect(Struck(OccupyHexes(f, s, right), V, K)), s, right)
  PROVE  Good(g) /\ Keeps(f, g)
<1>1. g = PowEffect(Struck(f, V, K))  BY ShootsInPlace
<1> QED  BY <1>1, BlowGood

LEMMA MoveGood ==
  ASSUME NEW f, Good(f), NEW s \in Standing(f), NEW hex \in Hexes,
         Footprint(s[1], f.unit[s].wide, hex) \subseteq Hexes,
         \A h \in Footprint(s[1], f.unit[s].wide, hex) : f.occupant[h] \in {None, s},
         NEW K, NEW m, m = Moved(f, s, hex)
  PROVE  /\ Good(m) /\ Good(PowEffect(Struck(m, {s}, K)))
         /\ Keeps(f, m) /\ Keeps(f, PowEffect(Struck(m, {s}, K)))
<1>1. Mid(f) /\ f.vanish = {}  BY DEF Good
<1>2. Fits(f, s, hex)  BY DEF Fits, Hexes
<1>3. /\ Mid(m) /\ m.vanish = {} /\ Standing(m) = Standing(f) /\ Keeps(f, m)
      /\ \A t \in Slots : m.unit[t].dying = f.unit[t].dying
  BY <1>1, <1>2, MovedMid
<1>4. Good(m)  BY <1>3 DEF Good
<1> DEFINE V == {s}
<1>5. V \in SUBSET Standing(m)  BY <1>3
<1> HIDE DEF V
<1>6. Good(PowEffect(Struck(m, V, K))) /\ Keeps(m, PowEffect(Struck(m, V, K)))
  BY <1>4, <1>5, BlowGood
<1>7. Keeps(f, PowEffect(Struck(m, V, K)))  BY <1>3, <1>6 DEF Keeps
<1> QED  BY <1>3, <1>4, <1>6, <1>7 DEF V

LEMMA GrenadeGood ==
  ASSUME Tame, NEW f, Good(f), Strict(f), NEW c \in Int, NEW a,
         NEW V \in SUBSET Standing(f), NEW K,
         NEW r, r = PowEffect(Pulling(Struck(f, V, K), c, a)[2 * Reach])
  PROVE  Good(r) /\ Keeps(f, r)
<1> DEFINE g == Struck(f, V, K)
<1>1. Mid(f) /\ f \in Board /\ f.vanish = {}  BY DEF Good, Mid
<1>2. Mid(g) /\ Alike(f, g) /\ Keeps(f, g)  BY <1>1, StruckMid
<1> HIDE DEF g
<1>3. g.vanish = {}  BY <1>1, <1>2 DEF Alike
<1>4. Strict(g)
  <2>1. \A h \in Hexes : f.occupant[h] \in Slots \cup {None}  BY <1>1, BoardFacts
  <2> QED  BY <1>2, <2>1 DEF Strict, Alike, SameBody
<1> DEFINE p == Pulling(g, c, a)[2 * Reach]
<1>5. Mid(p) /\ p.vanish = {} /\ Keeps(g, p)  BY <1>2, <1>3, <1>4, PullingMid
<1>6. r = PowEffect(p)  BY DEF g
<1> HIDE DEF p
<1>7. Good(r) /\ Keeps(p, r)  BY <1>5, <1>6, PowEffectGood
<1>8. Keeps(f, r)  BY <1>2, <1>5, <1>7 DEF Keeps
<1> QED  BY <1>7, <1>8
-----------------------------------------------------------------------------
(***************************************************************************)
(* The armies as they are loaded.                                          *)
(***************************************************************************)

(* A side's armies have the first slots, as many as there are.              *)
LEMMA Ranked ==
  ASSUME NEW side \in Sides
  PROVE  \E k \in 0..MaxStacks :
           /\ \A i \in Idx : <<side, i>> \in DOMAIN Lineup <=> i <= k
           /\ Cardinality({s \in DOMAIN Lineup : s[1] = side}) = k
<1> DEFINE In(i) == <<side, i>> \in DOMAIN Lineup
           Out == {i \in Idx : ~In(i)}
           T == {s \in DOMAIN Lineup : s[1] = side}
<1>1. MaxStacks \in Nat \ {0} /\ Idx = 1..MaxStacks  BY BoardAssumption DEF Idx
<1>2. PICK k \in 0..MaxStacks : \A i \in Idx : In(i) <=> i <= k
  <2>1. CASE Out = {}
    <3>1. \A i \in Idx : In(i) /\ i <= MaxStacks  BY <1>1, <2>1
    <3>2. MaxStacks \in 0..MaxStacks  BY <1>1
    <3> QED  BY <3>1, <3>2
  <2>2. CASE Out # {}
    <3>1. Out \in SUBSET (0..MaxStacks)  BY <1>1
    <3>2. PICK m \in Out : \A i \in Out : m <= i
      <4> HIDE DEF Out
      <4> QED  BY <1>1, <2>2, <3>1, Smallest
    <3>3. m \in Idx /\ m - 1 \in 0..MaxStacks  BY <1>1
    <3>4. ASSUME NEW i \in Idx  PROVE In(i) <=> i <= m - 1
      <4>1. CASE i <= m - 1
        <5>1. ~(m <= i)  BY <1>1, <3>3, <4>1
        <5> QED  BY <3>2, <4>1, <5>1
      <4>2. CASE ~(i <= m - 1)
        <5>1. m \in 1..i  BY <1>1, <3>3, <4>2
        <5>2. In(i) => In(m)
          <6>1. <<side, i>>[1] = side /\ <<side, i>>[2] = i  OBVIOUS
          <6> QED  BY <5>1, <6>1, LineupAssumption
        <5> QED  BY <3>2, <4>2, <5>2
      <4> QED  BY <4>1, <4>2
    <3> QED  BY <3>3, <3>4
  <2> QED  BY <2>1, <2>2
<1> DEFINE b == [i \in 1..k |-> <<side, i>>]
<1>3. \A i \in 1..k : i \in Idx  BY <1>1
<1>4. b \in [1..k -> T]
  <2>1. ASSUME NEW i \in 1..k  PROVE <<side, i>> \in T
    <3>1. i <= k /\ <<side, i>>[1] = side  OBVIOUS
    <3> QED  BY <1>2, <1>3, <3>1
  <2> QED  BY <2>1
<1>5. \A i, j \in 1..k : b[i] = b[j] => i = j  OBVIOUS
<1>6. ASSUME NEW s \in T  PROVE \E i \in 1..k : b[i] = s
  <2>1. s \in Slots /\ s[1] = side /\ In(s[2]) /\ s[2] \in Idx /\ s = <<side, s[2]>>
    BY LineupAssumption, SlotFacts
  <2>2. s[2] \in 1..k  BY <1>1, <1>2, <2>1
  <2> QED  BY <2>1, <2>2
<1> HIDE DEF b, T
<1>7. b \in Bijection(1..k, T)
  BY <1>4, <1>5, <1>6 DEF Bijection, Injection, Surjection, IsInjective
<1>8. Cardinality(T) = k
  <2>1. ExistsBijection(1..k, T)  BY <1>7 DEF ExistsBijection
  <2>2. k \in Nat  BY <1>1
  <2> QED  BY <2>1, <2>2, FS_CountingElements
<1> QED  BY <1>2, <1>8 DEF T

LEMMA PostFacts ==
  /\ DOMAIN Lineup \subseteq Slots
  /\ \A s \in DOMAIN Lineup : /\ Lineup[s].kind \in Kinds /\ Lineup[s].kind # "none"
                              /\ Lineup[s].wide \in BOOLEAN
                              /\ Lineup[s].hex \in Int /\ Post(s) \subseteq Hexes
  /\ \A s, t \in DOMAIN Lineup : \A h : h \in Post(s) /\ h \in Post(t) => s = t
<1>1. Hexes \subseteq Int  BY BoardAssumption DEF Hexes
<1>2. \A s, t \in DOMAIN Lineup : \A h : h \in Post(s) /\ h \in Post(t) => s = t
  <2>1. ASSUME NEW s \in DOMAIN Lineup, NEW t \in DOMAIN Lineup, NEW h,
               h \in Post(s), h \in Post(t)
        PROVE  s = t
    <3>1. Post(s) \cap Post(t) # {}  BY <2>1
    <3> QED  BY <3>1, PostsAssumption
  <2> QED  BY <2>1
<1>3. DOMAIN Lineup \subseteq Slots  BY LineupAssumption
<1>4. \A s \in DOMAIN Lineup : /\ Lineup[s].kind \in Kinds /\ Lineup[s].kind # "none"
                               /\ Lineup[s].wide \in BOOLEAN
                               /\ Lineup[s].hex \in Int /\ Post(s) \subseteq Hexes
  BY <1>1, PostsAssumption DEF Kinds
<1> QED  BY <1>2, <1>3, <1>4

(* What army::Init makes of s, and the mark that it leaves on a hex of s.   *)
FirstUnit(s) ==
  IF s \in DOMAIN Lineup
  THEN Fresh(Lineup[s].kind, FALSE, Lineup[s].wide, Lineup[s].hex, FALSE)
  ELSE Nobody
FirstMark(s, h) == IF Lineup[s].wide THEN OtherWay(s[1], Lineup[s].hex, h) ELSE 0

LEMMA LoadedParts ==
  ASSUME NEW f, f = Loaded
  PROVE  /\ f \in Board /\ f.vanish = {} /\ \A h \in Hexes : f.corpses[h] = <<>>
         /\ \A s \in Slots : f.unit[s] = FirstUnit(s)
         /\ \A s \in DOMAIN Lineup : \A h \in Post(s) :
              f.occupant[h] = s /\ f.other[h] = FirstMark(s, h)
         /\ \A h \in Hexes :
              (\A s \in DOMAIN Lineup : h \notin Post(s)) =>
                f.occupant[h] = None /\ f.other[h] = 0
         /\ \A side \in Sides :
              f.numCreatures[side] = Cardinality({s \in DOMAIN Lineup : s[1] = side})
<1> DEFINE At(h) == {s \in DOMAIN Lineup : h \in Post(s)}
           On(h) == CHOOSE s \in At(h) : TRUE
           U == [s \in Slots |->
                   IF s \in DOMAIN Lineup
                   THEN Fresh(Lineup[s].kind, FALSE, Lineup[s].wide, Lineup[s].hex, FALSE)
                   ELSE Nobody]
           O == [h \in Hexes |-> IF At(h) = {} THEN None ELSE On(h)]
           W == [h \in Hexes |-> IF At(h) # {} /\ Lineup[On(h)].wide
                                 THEN OtherWay(On(h)[1], Lineup[On(h)].hex, h) ELSE 0]
           C == [h \in Hexes |-> <<>>]
           N == [side \in Sides |-> Cardinality({s \in DOMAIN Lineup : s[1] = side})]
<1>1. f = [unit |-> U, occupant |-> O, other |-> W, corpses |-> C,
           numCreatures |-> N, vanish |-> {}]
  BY DEF Loaded, EmptyField
<1>2. \A h \in Hexes : At(h) # {} => On(h) \in At(h)  OBVIOUS
<1>3. ASSUME NEW s \in DOMAIN Lineup, NEW h \in Post(s)
      PROVE  h \in Hexes /\ At(h) # {} /\ On(h) = s
  <2>1. h \in Hexes /\ s \in At(h)  BY PostFacts
  <2>2. \A t \in At(h) : t = s  BY PostFacts
  <2>3. At(h) = {s}  BY <2>1, <2>2
  <2> QED  BY <2>1, <2>3
<1>4. U \in [Slots -> Unit]
  <2>1. ASSUME NEW s \in DOMAIN Lineup
        PROVE  Fresh(Lineup[s].kind, FALSE, Lineup[s].wide, Lineup[s].hex, FALSE) \in Unit
    <3>1. Lineup[s].kind \in Kinds /\ Lineup[s].wide \in BOOLEAN /\ Lineup[s].hex \in Int
      BY PostFacts
    <3> QED  BY <3>1 DEF Fresh, Unit
  <2>2. Nobody \in Unit  BY DEF Nobody, Unit
  <2> QED  BY <2>1, <2>2
<1>5. O \in [Hexes -> Slots \cup {None}]  BY <1>2, PostFacts
<1>6. W \in [Hexes -> {-1, 0, 1}]  BY WayFacts
<1>7. C \in [Hexes -> Seq(Corpse)]  OBVIOUS
<1>8. N \in [Sides -> 0..MaxStacks]  BY Ranked
<1>9. \A side \in Sides :
        N[side] = Cardinality({s \in DOMAIN Lineup : s[1] = side})
  OBVIOUS
<1>10. \A s \in DOMAIN Lineup : \A h \in Post(s) :
         O[h] = s /\ W[h] = FirstMark(s, h)
  <2>1. ASSUME NEW s \in DOMAIN Lineup, NEW h \in Post(s)
        PROVE  O[h] = s /\ W[h] = FirstMark(s, h)
    <3>1. h \in Hexes /\ At(h) # {} /\ On(h) = s  BY <1>3
    <3> HIDE DEF At, On
    <3> QED  BY <3>1 DEF FirstMark
  <2> QED  BY <2>1
<1>11. \A h \in Hexes : (\A s \in DOMAIN Lineup : h \notin Post(s)) =>
                           O[h] = None /\ W[h] = 0
  <2>1. \A h : (\A s \in DOMAIN Lineup : h \notin Post(s)) => At(h) = {}  OBVIOUS
  <2> HIDE DEF At, On
  <2> QED  BY <2>1
<1>12. \A s \in Slots : U[s] = FirstUnit(s)  BY DEF FirstUnit
<1>13. \A h \in Hexes : C[h] = <<>>  OBVIOUS
<1> HIDE DEF U, O, W, C, N
<1>14. f \in Board
  <2>1. {} \in SUBSET Slots  OBVIOUS
  <2> QED  BY <1>1, <1>4, <1>5, <1>6, <1>7, <1>8, <2>1, BoardMade
<1>15. /\ f.unit = U /\ f.occupant = O /\ f.other = W /\ f.corpses = C
       /\ f.numCreatures = N /\ f.vanish = {}
  BY <1>1
<1> QED  BY <1>9, <1>10, <1>11, <1>12, <1>13, <1>14, <1>15

LEMMA LoadedGood ==
  ASSUME NEW f, f = Loaded
  PROVE  Good(f)
<1>1. f \in Board /\ f.vanish = {} /\ \A h \in Hexes : f.corpses[h] = <<>>
  BY LoadedParts
<1>0. \A s \in DOMAIN Lineup : \A h \in Post(s) :
        f.occupant[h] = s /\ f.other[h] = FirstMark(s, h)
  BY LoadedParts
<1>2. ASSUME NEW s \in Slots, s \notin DOMAIN Lineup  PROVE f.unit[s] = Nobody
  <2>1. f.unit[s] = FirstUnit(s)  BY LoadedParts
  <2> QED  BY <1>2, <2>1 DEF FirstUnit
<1>3. ASSUME NEW s \in DOMAIN Lineup
      PROVE  /\ s \in Slots /\ f.unit[s].kind = Lineup[s].kind /\ Exists(f.unit[s])
             /\ f.unit[s].wide = Lineup[s].wide /\ f.unit[s].hex = Lineup[s].hex
             /\ ~f.unit[s].image /\ f.unit[s].alive /\ ~f.unit[s].dying
             /\ ~f.unit[s].isDead /\ f.unit[s].mirror = 0 /\ f.unit[s].original = 0
             /\ f.unit[s].lifespan = -1
  <2>1. s \in Slots /\ Lineup[s].kind # "none"  BY PostFacts
  <2>2. f.unit[s] = Fresh(Lineup[s].kind, FALSE, Lineup[s].wide, Lineup[s].hex, FALSE)
    BY <2>1, LoadedParts DEF FirstUnit
  <2> QED  BY <2>1, <2>2 DEF Fresh, Exists
<1>4. ASSUME NEW s \in Slots, ~Exists(f.unit[s])  PROVE f.unit[s] = Nobody
  BY <1>2, <1>3, <1>4
<1>5. ASSUME NEW s \in Slots, s \notin DOMAIN Lineup
      PROVE  /\ ~Exists(f.unit[s]) /\ ~f.unit[s].image /\ ~f.unit[s].dying
             /\ ~f.unit[s].alive /\ ~f.unit[s].wide /\ f.unit[s].mirror = 0
             /\ f.unit[s].original = 0 /\ f.unit[s].lifespan = -1
  BY <1>2, <1>5 DEF Nobody, Exists
<1>6. \A s \in Slots : ~f.unit[s].dying /\ ~f.unit[s].image /\ f.unit[s].mirror = 0
  BY <1>3, <1>5
<1>7. \A s \in Slots : Sound(f.unit[s])
  <2>1. Nobody = [Nobody EXCEPT !.reborn = Nobody.reborn]  BY DEF Nobody
  <2>2. ASSUME NEW s \in Slots  PROVE Sound(f.unit[s])
    <3>1. CASE s \in DOMAIN Lineup  BY <1>3, <3>1 DEF Sound
    <3>2. CASE s \notin DOMAIN Lineup
      <4>1. f.unit[s] = Nobody  BY <1>2, <3>2
      <4> QED  BY <1>5, <2>1, <3>2, <4>1 DEF Sound
    <3> QED  BY <3>1, <3>2
  <2> QED  BY <2>2
<1>8. WideOK(f)  BY <1>3, <1>5, PostsAssumption DEF WideOK
<1>9. Standing(f) = DOMAIN Lineup
  <2>1. \A s \in Standing(f) : s \in DOMAIN Lineup  BY <1>5, StandingFacts
  <2>2. \A s \in DOMAIN Lineup : s \in Standing(f)  BY <1>3, StandingFacts
  <2> QED  BY <2>1, <2>2
<1>10. ASSUME NEW s \in DOMAIN Lineup
       PROVE  /\ Cells(f, s) = Post(s) /\ Post(s) \subseteq Hexes
              /\ \A h \in Post(s) : f.occupant[h] = s /\ f.other[h] = Mark(f, s, h)
  <2>1. Cells(f, s) = Post(s)  BY <1>3 DEF Cells, Post
  <2>2. \A h : Mark(f, s, h) = FirstMark(s, h)  BY <1>3 DEF Mark, FirstMark
  <2>3. \A h \in Post(s) : f.occupant[h] = s /\ f.other[h] = FirstMark(s, h)
    BY <1>0
  <2> QED  BY <2>1, <2>2, <2>3, PostFacts
<1>11. ASSUME NEW h \in Hexes, f.occupant[h] # None
       PROVE  f.occupant[h] \in DOMAIN Lineup /\ h \in Post(f.occupant[h])
  <2>1. (\A s \in DOMAIN Lineup : h \notin Post(s)) => f.occupant[h] = None
    BY LoadedParts
  <2>2. PICK s \in DOMAIN Lineup : h \in Post(s)  BY <1>11, <2>1
  <2>3. f.occupant[h] = s  BY <1>10, <2>2
  <2> QED  BY <2>2, <2>3
<1>12. Grid(f)
  <2>1. Held(f) = DOMAIN Lineup  BY <1>1, <1>9 DEF Held
  <2> QED  BY <1>1, <1>10, <1>11, <2>1 DEF Grid
<1>13. Marks(f)
  <2>1. ASSUME \A s \in DOMAIN Lineup : ~Lineup[s].wide, NEW h \in Hexes
        PROVE  f.other[h] = 0
    <3>1. CASE \E s \in DOMAIN Lineup : h \in Post(s)
      <4>1. PICK s \in DOMAIN Lineup : h \in Post(s)  BY <3>1
      <4>2. f.other[h] = Mark(f, s, h) /\ ~f.unit[s].wide  BY <1>3, <1>10, <2>1, <4>1
      <4> QED  BY <4>2 DEF Mark
    <3>2. CASE \A s \in DOMAIN Lineup : h \notin Post(s)
      <4>1. (\A s \in DOMAIN Lineup : h \notin Post(s)) => f.other[h] = 0
        BY LoadedParts
      <4> QED  BY <3>2, <4>1
    <3> QED  BY <3>1, <3>2
  <2> QED  BY <1>9, <1>10, <2>1 DEF Marks
<1>14. Graves(f)
  <2>1. \A h \in Hexes : DOMAIN f.corpses[h] = {}  BY <1>1
  <2> QED  BY <2>1 DEF Graves, Lies
<1>15. Links(f)  BY <1>6 DEF Links
<1>16. Counted(f)
  <2>1. ASSUME NEW side \in Sides, NEW i \in Idx
        PROVE  Exists(f.unit[<<side, i>>]) <=> i <= f.numCreatures[side]
    <3>1. <<side, i>> \in Slots  BY SlotFacts
    <3>2. Exists(f.unit[<<side, i>>]) <=> <<side, i>> \in DOMAIN Lineup  BY <1>3, <1>5, <3>1
    <3> DEFINE T == {s \in DOMAIN Lineup : s[1] = side}
    <3>3. f.numCreatures[side] = Cardinality(T)  BY LoadedParts
    <3>4. <<side, i>> \in DOMAIN Lineup <=> i <= Cardinality(T)  BY Ranked
    <3> QED  BY <3>2, <3>3, <3>4
  <2> QED  BY <2>1 DEF Counted
<1>17. Kept(f)  BY <1>3 DEF Kept
<1>18. Mid(f)
  BY <1>1, <1>7, <1>8, <1>12, <1>13, <1>14, <1>15, <1>16, <1>17 DEF Mid
<1> QED  BY <1>1, <1>6, <1>18 DEF Good

-----------------------------------------------------------------------------
(***************************************************************************)
(* The invariant.                                                          *)
(***************************************************************************)

LEMMA InitIInv == Init => IInv
<1> SUFFICES ASSUME Init  PROVE IInv  OBVIOUS
<1>1. field = Loaded  BY DEF Init
<1>2. Good(field)  BY <1>1, LoadedGood
<1>3. Budget \in 0..Budget /\ budget = Budget /\ round = 0  BY BoardAssumption DEF Init
<1> QED  BY <1>2, <1>3 DEF IInv

LEMMA FightsKeep ==
  ASSUME Tame, IInv, Fights
  PROVE  IInv' /\ Keeps(field, field') /\ round' = round
<1>0. Good(field) /\ budget \in 0..Budget /\ round \in {0, 1}  BY DEF IInv
<1>1. SUFFICES Good(field') /\ Keeps(field, field') /\ UNCHANGED <<budget, round>>
  BY <1>0 DEF IInv
<1>2. ASSUME NEW V \in Victims(field), NEW K \in SUBSET V, Blow(V, K)
      PROVE  Good(field') /\ Keeps(field, field') /\ UNCHANGED <<budget, round>>
  <2>1. V \in SUBSET Standing(field)  BY DEF Victims
  <2>2. field' = PowEffect(Struck(field, V, K)) /\ UNCHANGED <<budget, round>>
    BY <1>2 DEF Blow
  <2> QED  BY <1>0, <2>1, <2>2, BlowGood
<1>3. ASSUME NEW V \in Victims(field), NEW K \in SUBSET V, AbilityBlow(V, K)
      PROVE  Good(field') /\ Keeps(field, field') /\ UNCHANGED <<budget, round>>
  <2>1. V \in SUBSET Standing(field)  BY DEF Victims
  <2>2. /\ MayParalyze(Struck(field, V, K), V) /\ UNCHANGED <<budget, round>>
        /\ field' = PowEffect(CastSpellEnds(Struck(field, V, K)))
    BY <1>3 DEF AbilityBlow
  <2> QED  BY <1>0, <2>1, <2>2, AbilityGood
<1>4. ASSUME NEW V \in Victims(field), NEW K \in SUBSET V, NEW s \in Shooters,
             ShootBehind(s, V, K)
      PROVE  Good(field') /\ Keeps(field, field') /\ UNCHANGED <<budget, round>>
  <2> DEFINE right == s[1] = 1
  <2>1. V \in SUBSET Standing(field)  BY DEF Victims
  <2>2. /\ field' = OccupyHexes(PowEffect(Struck(OccupyHexes(field, s, right), V, K)), s, right)
        /\ UNCHANGED <<budget, round>>
    BY <1>4 DEF ShootBehind
  <2> HIDE DEF right
  <2> QED  BY <1>0, <2>1, <2>2, ShootBehindGood
<1>5. ASSUME NEW s \in Slots, NEW hex \in Hexes, NEW burnt \in BOOLEAN, NEW K \in SUBSET {s},
             Move(s, hex, burnt, K)
      PROVE  Good(field') /\ Keeps(field, field') /\ UNCHANGED <<budget, round>>
  <2> DEFINE m == Moved(field, s, hex)
  <2>1. /\ s \in Standing(field)
        /\ Footprint(s[1], field.unit[s].wide, hex) \subseteq Hexes
        /\ \A h \in Footprint(s[1], field.unit[s].wide, hex) : field.occupant[h] \in {None, s}
        /\ field' = IF burnt THEN PowEffect(Struck(m, {s}, K)) ELSE m
        /\ UNCHANGED <<budget, round>>
    BY <1>5 DEF Move
  <2>2. m = Moved(field, s, hex)  OBVIOUS
  <2> HIDE DEF m
  <2>3. /\ Good(m) /\ Good(PowEffect(Struck(m, {s}, K)))
        /\ Keeps(field, m) /\ Keeps(field, PowEffect(Struck(m, {s}, K)))
    BY <1>0, <2>1, <2>2, MoveGood
  <2> QED  BY <2>1, <2>3
<1> QED  BY <1>2, <1>3, <1>4, <1>5, Zenon DEF Fights

(* No spell but MirrorImage makes an image.                                 *)
Gains(f, g) ==
  Keeps(f, g) \/ \E i \in Slots, p \in Powers : Joins(f, g, i, p)

LEMMA SpellsKeep ==
  ASSUME Tame, IInv, Spells
  PROVE  IInv' /\ Gains(field, field') /\ budget' = budget - 1 /\ round' = round
<1>0. Good(field) /\ field \in Board /\ budget \in 0..Budget /\ round \in {0, 1}
  BY DEF IInv, Good, Mid
<1> DEFINE Cast(spell) ==
             Spend(spell) /\ Good(field') /\ Gains(field, field') /\ round' = round
<1>1. SUFFICES \E spell : Cast(spell)
  <2>1. ASSUME NEW spell, Spend(spell)
        PROVE  budget' \in 0..Budget /\ budget' = budget - 1
    BY <1>0, <2>1, BoardAssumption DEF Spend
  <2> QED  BY <1>0, <1>1, <2>1 DEF IInv
<1>2. ASSUME NEW s \in Slots, NEW a \in Slots, NEW h \in Hexes, CastTeleport(s, h, a)
      PROVE  Cast("Teleport")
  <2>1. /\ Spend("Teleport") /\ s \in Standing(field) /\ CanFit(field, s, h, a)
        /\ field' = Teleported(field, s, h) /\ round' = round
    BY <1>2 DEF CastTeleport
  <2>2. Good(field') /\ Keeps(field, field')
    <3>1. "Teleport" \in Book  BY <2>1 DEF Spend
    <3> QED  BY <1>0, <2>1, <3>1, TeleportGood
  <2> QED  BY <2>1, <2>2 DEF Gains
<1>3. ASSUME NEW s \in Slots, NEW a \in Slots, NEW h \in Hexes, NEW p \in Powers,
             CastMirrorImage(s, h, p, a)
      PROVE  Cast("MirrorImage")
  <2> DEFINE i == NewSlot(field, s[1])
  <2>1. /\ Spend("MirrorImage") /\ s \in Standing(field) /\ field.unit[s].mirror = 0
        /\ field.unit[s].original = 0 /\ HasSlot(field, s[1])
        /\ CanFit(field, s, h, a) /\ round' = round
        /\ field' = Mirrored(field, s, h, p, i)
    BY <1>3 DEF CastMirrorImage, Mirrored
  <2>2. i = NewSlot(field, s[1])  OBVIOUS
  <2> HIDE DEF i
  <2>3. Imaging /\ field.occupant[h] = None /\ p \in Nat \ {0}
    BY <2>1, BoardAssumption DEF Spend, CanFit, Imaging
  <2>4. Good(field') /\ i \in Slots /\ Joins(field, field', i, p)
    BY <1>0, <2>1, <2>2, <2>3, MirrorGood
  <2> QED  BY <2>1, <2>4 DEF Gains
<1>4. ASSUME NEW side \in Sides, NEW h \in Hexes, CastSummon(side, h)
      PROVE  Cast("Summon")
  <2> DEFINE no == FALSE
  <2>1. /\ Spend("Summon") /\ HasSlot(field, side) /\ field.occupant[h] = None
        /\ field' = AddArmy(field, side, "elemental", no, no, h) /\ round' = round
    BY <1>4 DEF CastSummon
  <2>2. no \in BOOLEAN /\ ~no  OBVIOUS
  <2> HIDE DEF no
  <2>3. Good(field') /\ Keeps(field, field')  BY <1>0, <2>1, <2>2, SummonGood
  <2> QED  BY <2>1, <2>3 DEF Gains
<1>5. ASSUME NEW side \in Sides, NEW h \in Hexes, NEW i \in 1..MaxCorpses,
             CastRaise(side, h, i)
      PROVE  Cast("Raise")
  <2>1. /\ Spend("Raise") /\ field.occupant[h] = None /\ Topmost(field, side, h, i)
        /\ \A c \in {h, h + field.corpses[h][i].other} :
             field.corpses[c][Len(field.corpses[c])].slot = field.corpses[h][i].slot
        /\ field' = Raised(field, side, h, i) /\ round' = round
    BY <1>5 DEF CastRaise, Tame
  <2>2. Good(field') /\ Keeps(field, field')  BY <1>0, <2>1, RaisedGood
  <2> QED  BY <2>1, <2>2 DEF Gains
<1>6. ASSUME NEW c \in Hexes, NEW a \in Slots, NEW V \in SUBSET Standing(field),
             NEW K \in SUBSET V, CastGrenade(c, a, V, K)
      PROVE  Cast("Grenade")
  <2>1. /\ Spend("Grenade") /\ Strict(field) /\ round' = round
        /\ field' = PowEffect(Pulling(Struck(field, V, K), c, a)[2 * Reach])
    BY <1>6 DEF CastGrenade, Tame, Strict
  <2>2. c \in Int  BY DEF Hexes
  <2>3. Good(field') /\ Keeps(field, field')  BY <1>0, <2>1, <2>2, GrenadeGood
  <2> QED  BY <2>1, <2>3 DEF Gains
<1> HIDE DEF Cast
<1> QED  BY <1>2, <1>3, <1>4, <1>5, <1>6, Zenon DEF Spells

LEMMA RoundKeeps ==
  ASSUME Tame, IInv, Round
  PROVE  IInv'
<1>0. Good(field) /\ budget \in 0..Budget /\ round \in {0, 1}  BY DEF IInv
<1>1. PICK B, K : NewRound(B, K)  BY DEF Round
<1>2. B # {} => Burning  BY <1>1 DEF NewRound
<1>3. Good(Vanish(Resetting(field, B, K)[2 * MaxStacks]))  BY <1>0, <1>2, NewRoundGood
<1>4. round' \in {0, 1} /\ budget' = budget  BY <1>0, <1>1 DEF NewRound
<1> QED  BY <1>0, <1>1, <1>3, <1>4 DEF NewRound, IInv

THEOREM Invariant == ASSUME Tame  PROVE Spec => []IInv
<1>1. Init => IInv  BY InitIInv
<1>2. IInv /\ [Next]_vars => IInv'
  <2>1. ASSUME IInv, UNCHANGED vars  PROVE IInv'  BY <2>1 DEF IInv, vars
  <2> QED  BY <2>1, FightsKeep, SpellsKeep, RoundKeeps DEF Next
<1> QED  BY <1>1, <1>2, PTL DEF Spec

-----------------------------------------------------------------------------
(***************************************************************************)
(* What follows from the invariant, in every battle that is Tame: without  *)
(* turned shots, teleports and images of wide stacks, corpses dug up from  *)
(* under others, grenades on old marks, and fires among images.            *)
(***************************************************************************)

(* Every field keeps its type and nobody is left to vanish: the slots, the  *)
(* marks of the hexes and the counts stay in their ranges whatever is       *)
(* summoned, buried, raised and pulled, if the battle is Tame.              *)
THEOREM TypesCorrect == ASSUME Tame  PROVE Spec => []TypeOK
<1>1. IInv => TypeOK
  <2> SUFFICES ASSUME IInv  PROVE TypeOK  OBVIOUS
  <2>1. field \in Board /\ field.vanish = {}  BY DEF IInv, Good, Mid
  <2> QED  BY <2>1, BoardFacts DEF TypeOK, IInv
<1> QED  BY <1>1, Invariant, PTL

(* combatGrid and the stacks say the same of where everybody stands, after  *)
(* every blow, move, spell and round of a Tame battle.                      *)
THEOREM GridCorrect == ASSUME Tame  PROVE Spec => []GridMatches
<1>1. IInv => GridMatches
  <2> SUFFICES ASSUME IInv  PROVE GridMatches  OBVIOUS
  <2>1. Grid(field) /\ Held(field) = Standing(field)  BY DEF IInv, Good, Mid, Held
  <2> QED  BY <2>1 DEF Grid, GridMatches, StandsOnHex, HexesFreed
<1> QED  BY <1>1, Invariant, PTL

(* A corpse lies whole where its stack fell, and is of a stack that         *)
(* Resurrect can raise: in a Tame battle ProcessDeath and Resurrect never   *)
(* leave half a one.                                                        *)
THEOREM CorpsesCorrect == ASSUME Tame  PROVE Spec => []CorpsesMatch
<1>1. IInv => CorpsesMatch
  <2> SUFFICES ASSUME IInv, NEW s \in Slots, PlacesOf(s) # {}
               PROVE  /\ field.unit[s].isDead /\ ~LeavesNoBody(field.unit[s])
                      /\ PlacesOf(s) = Cells(field, s)
                      /\ \A h \in Cells(field, s) :
                           \E i \in DOMAIN field.corpses[h] :
                             field.corpses[h][i] =
                               [slot |-> s,
                                other |-> IF field.unit[s].wide
                                          THEN OtherWay(s[1], field.unit[s].hex, h) ELSE 0]
    BY DEF CorpsesMatch
  <2>1. PlacesOf(s) = {h \in Hexes : Lies(field, s, h)}  BY DEF PlacesOf, Lies
  <2>2. field \in Board /\ Graves(field)  BY DEF IInv, Good, Mid
  <2>3. Grave(field, s)  BY <2>1, <2>2 DEF Graves
  <2>4. PlacesOf(s) = Cells(field, s)  BY <2>1, <2>3 DEF Grave
  <2>5. ASSUME NEW h \in Cells(field, s)
        PROVE  \E i \in DOMAIN field.corpses[h] :
                 field.corpses[h][i] = [slot |-> s, other |-> Mark(field, s, h)]
    <3>1. h \in Hexes /\ Lies(field, s, h)  BY <2>3 DEF Grave
    <3>2. PICK i \in DOMAIN field.corpses[h] : field.corpses[h][i].slot = s
      BY <3>1 DEF Lies
    <3>3. field.corpses[h][i] \in Corpse
      <4>1. field.corpses[h] \in Seq(Corpse)  BY <2>2, <3>1, BoardFacts
      <4> QED  BY <3>2, <4>1
    <3>4. field.corpses[h][i].other = Mark(field, s, h)  BY <2>3, <3>1, <3>2 DEF Grave
    <3>5. field.corpses[h][i] = [slot |-> s, other |-> Mark(field, s, h)]
      BY <3>2, <3>3, <3>4 DEF Corpse
    <3> QED  BY <3>5
  <2> QED  BY <2>3, <2>4, <2>5 DEF Grave, Mark
<1> QED  BY <1>1, Invariant, PTL

(* Whoever a blow on several stacks kills is buried or risen before the     *)
(* next one acts, although PowEffect casts spells of its own on the way, in *)
(* a Tame battle.                                                           *)
THEOREM HalfDeadCorrect == ASSUME Tame  PROVE Spec => []NobodyHalfDead
<1>1. IInv => NobodyHalfDead
  <2> SUFFICES ASSUME IInv, NEW s \in Slots
               PROVE  /\ ~field.unit[s].dying
                      /\ s \in Standing(field) => field.unit[s].alive
    BY DEF NobodyHalfDead
  <2>1. Sound(field.unit[s]) /\ ~field.unit[s].dying  BY DEF IInv, Good, Mid
  <2> QED  BY <2>1, StandingFacts DEF Sound
<1> QED  BY <1>1, Invariant, PTL

(* AddArmy takes no slot of a stack that can be raised or comes home, in a  *)
(* Tame battle.                                                             *)
THEOREM CasualtiesCorrect == ASSUME Tame  PROVE Spec => []CasualtiesKept
<1>1. IInv => CasualtiesKept  BY DEF IInv, Good, Mid, Kept, CasualtiesKept
<1> QED  BY <1>1, Invariant, PTL

(* An image and its original know each other through every death of either, *)
(* and numCreatures counts the slots in use, which come first: in a Tame    *)
(* battle, with images only of narrow stacks and no fires beside them.      *)
THEOREM ImagesCorrect == ASSUME Tame  PROVE Spec => []ImagesMatch
<1>1. IInv => ImagesMatch
  <2> SUFFICES ASSUME IInv  PROVE ImagesMatch  OBVIOUS
  <2>1. field \in Board /\ Counted(field) /\ Links(field)  BY DEF IInv, Good, Mid
  <2>2. ASSUME NEW side \in Sides
        PROVE  {i \in Idx : field.unit[<<side, i>>].kind # "none"}
                 = 1..field.numCreatures[side]
    <3>1. field.numCreatures[side] \in 0..MaxStacks  BY <2>1, BoardFacts
    <3>2. 1..field.numCreatures[side] \subseteq Idx
      BY <3>1, BoardAssumption DEF Idx
    <3>3. \A i \in Idx : i \in Int /\ 1 <= i  BY BoardAssumption DEF Idx
    <3>4. \A i \in Idx : field.unit[<<side, i>>].kind # "none"
                           <=> i \in 1..field.numCreatures[side]
      BY <2>1, <3>1, <3>3 DEF Counted, Exists
    <3> QED  BY <3>2, <3>4
  <2>3. ASSUME NEW s \in Slots
        PROVE  LET u == field.unit[s]
                   image == <<s[1], u.mirror>>
                   original == <<s[1], u.original>>
               IN  /\ u.mirror # 0 => /\ image \in Standing(field)
                                      /\ field.unit[image].image
                                      /\ field.unit[image].original = s[2]
                   /\ u.image /\ ~u.isDead => /\ original \in Standing(field)
                                              /\ field.unit[original].mirror = s[2]
    <3>1. field.unit[s].image => Exists(field.unit[s])
      <4>1. Sound(field.unit[s])  BY DEF IInv, Good, Mid
      <4> QED  BY <4>1 DEF Sound, Nobody
    <3>2. field.unit[s].image /\ ~field.unit[s].isDead => s \in Standing(field)
      BY <3>1, StandingFacts
    <3> QED  BY <2>1, <3>2 DEF Links, Fellow
  <2> QED  BY <2>2, <2>3 DEF ImagesMatch
<1> QED  BY <1>1, Invariant, PTL
-----------------------------------------------------------------------------
(***************************************************************************)
(* Images fade.                                                            *)
(***************************************************************************)

LEMMA ImageLives ==
  ASSUME NEW f, Mid(f), NEW s \in Slots, Image(f, s)
  PROVE  /\ Imaging /\ f.unit[s].lifespan \in Nat /\ Exists(f.unit[s])
         /\ ~f.unit[s].dying => f.unit[s].alive
<1>1. f \in Board /\ Sound(f.unit[s])  BY DEF Mid
<1>2. f.unit[s].lifespan \in Int  BY <1>1, UnitFacts
<1> QED  BY <1>1, <1>2 DEF Sound, Image, Exists, Nobody

(* What ResetRound takes from an image in the turn of s.                    *)
Worn(f, g, t, n) ==
  Image(g, t) => Image(f, t) /\ g.unit[t].lifespan = f.unit[t].lifespan - n

LEMMA StackRoundWears ==
  ASSUME NEW f, Pausing(f), NEW s \in Slots, NEW t \in Slots, NEW K,
         NEW B, B = {}
  PROVE  Worn(f, StackRound(f, s, B, K), t, IF t = s THEN 1 ELSE 0)
<1> DEFINE r == StackRound(f, s, B, K)
           left == IF f.unit[s].lifespan > 0 THEN f.unit[s].lifespan - 1
                                             ELSE f.unit[s].lifespan
           h == [f EXCEPT !.unit[s].lifespan = left]
           D == {s}
           e == TRUE
           b == Bury(h, D, e)
<1>1. /\ Mid(f) /\ f \in Board /\ Sound(f.unit[s]) /\ Sound(f.unit[t])
      /\ ~f.unit[s].dying /\ f.unit[s].lifespan \in Int /\ f.unit[t].lifespan \in Int
  BY UnitFacts DEF Pausing, Mid
<1> SUFFICES ASSUME Image(r, t)
             PROVE  /\ Image(f, t)
                    /\ r.unit[t].lifespan = f.unit[t].lifespan - (IF t = s THEN 1 ELSE 0)
  BY DEF Worn
<1>2. CASE ~f.unit[s].alive
  <2>1. r = f  BY <1>2 DEF StackRound
  <2> HIDE DEF r
  <2>2. Image(f, t)  BY <2>1
  <2>3. t # s  BY <1>1, <1>2, <2>2, ImageLives
  <2> QED  BY <1>1, <2>1, <2>2, <2>3
<1>3. CASE f.unit[s].alive
  <2>1. r = IF left = 0 THEN b ELSE h  BY <1>3 DEF StackRound
  <2> HIDE DEF r
  <2>2. h.unit[t] = IF t = s THEN [f.unit[t] EXCEPT !.lifespan = left] ELSE f.unit[t]
    BY <1>1 DEF Board
  <2>3. /\ h.unit[t].image = f.unit[t].image /\ h.unit[t].isDead = f.unit[t].isDead
        /\ h.unit[t].lifespan = IF t = s THEN left ELSE f.unit[t].lifespan
    <3>1. f.unit[t] \in Unit  BY <1>1, UnitFacts
    <3> HIDE DEF h, left
    <3> QED  BY <2>2, <3>1 DEF Unit
  <2>4. CASE left # 0
    <3>1. r = h  BY <2>1, <2>4
    <3> HIDE DEF h, left
    <3>2. Image(f, t)  BY <2>3, <3>1 DEF Image
    <3>3. t = s => f.unit[s].lifespan > 0
      <4>1. t = s => f.unit[s].lifespan \in Nat  BY <1>1, <3>2, ImageLives
      <4> QED  BY <2>4, <4>1 DEF left
    <3> QED  BY <1>1, <2>3, <3>1, <3>2, <3>3 DEF left
  <2>5. CASE left = 0
    <3>1. f.unit[s].image  BY <1>1, <2>5 DEF Sound
    <3>2. Mid(h)
      <4>1. Aged(f, s, left, h)  BY DEF Aged
      <4>2. left \in Int /\ IF f.unit[s].image THEN left >= 0 ELSE left = f.unit[s].lifespan
        BY <2>5, <3>1
      <4> HIDE DEF h, left
      <4> QED  BY <1>1, <4>1, <4>2, AgedMid
    <3>3. h.unit[s].image /\ Exists(h.unit[s])
      <4>1. h.unit[s].image
        <5>1. h.unit[s] = [f.unit[s] EXCEPT !.lifespan = left]  BY <1>1 DEF Board
        <5>2. f.unit[s] \in Unit  BY <1>1, UnitFacts
        <5> HIDE DEF h, left
        <5> QED  BY <3>1, <5>1, <5>2 DEF Unit
      <4>2. Sound(h.unit[s])  BY <3>2 DEF Mid
      <4> QED  BY <4>1, <4>2 DEF Sound, Nobody
    <3> HIDE DEF h
    <3>4. Ripe(h, D)  BY <3>3 DEF Ripe
    <3>5. s \in D  OBVIOUS
    <3> HIDE DEF D, e
    <3>6. b = Bury(h, D, e)  OBVIOUS
    <3>7. r = b  BY <2>1, <2>5
    <3> HIDE DEF b, left
    <3>8. /\ \A x \in Slots : b.unit[x].isDead <=> h.unit[x].isDead \/ x \in Fallen(h, D)
          /\ b.unit[t].image = h.unit[t].image /\ b.unit[t].lifespan = h.unit[t].lifespan
      BY <3>2, <3>4, <3>6, BuryUnits
    <3>9. b.unit[s].isDead  BY <3>5, <3>8 DEF Fallen, First
    <3>10. t # s  BY <3>7, <3>9 DEF Image
    <3> QED  BY <1>1, <2>3, <3>7, <3>8, <3>10 DEF Image
  <2> QED  BY <2>4, <2>5
<1> QED  BY <1>2, <1>3

(* Every slot has its turn in ResetRound, and only one.                     *)
LEMMA OneTurn ==
  ASSUME NEW s \in Slots
  PROVE  \E k \in 1..(2 * MaxStacks) :
           \A n \in 1..(2 * MaxStacks) : SlotOrder[n] = s <=> n = k
<1> DEFINE M == MaxStacks
           k == s[1] * M + s[2]
<1>1. M \in Nat \ {0} /\ s[1] \in {0, 1} /\ s[2] \in 1..M /\ s = <<s[1], s[2]>>
  BY BoardAssumption, SlotFacts DEF Sides, Idx
<1>2. k \in 1..(2 * M)  BY <1>1
<1>3. ASSUME NEW n \in 1..(2 * M)
      PROVE  SlotOrder[n] = <<(n - 1) \div M, ((n - 1) % M) + 1>>
  BY DEF SlotOrder
<1>4. ASSUME NEW n \in 1..(2 * M)
      PROVE  /\ n <= M => (n - 1) \div M = 0 /\ (n - 1) % M = n - 1
             /\ n > M => (n - 1) \div M = 1 /\ (n - 1) % M = n - 1 - M
  BY <1>1
<1>5. ASSUME NEW n \in 1..(2 * M)  PROVE SlotOrder[n] = s <=> n = k
  <2>1. CASE n <= M
    <3>1. SlotOrder[n] = <<0, n>>  BY <1>1, <1>3, <1>4, <2>1
    <3>2. SlotOrder[n] = s <=> s[1] = 0 /\ s[2] = n  BY <1>1, <3>1
    <3>3. s[1] = 0 /\ s[2] = n <=> n = k  BY <1>1, <2>1
    <3> QED  BY <3>2, <3>3
  <2>2. CASE n > M
    <3>1. SlotOrder[n] = <<1, n - M>>  BY <1>1, <1>3, <1>4, <2>2
    <3>2. SlotOrder[n] = s <=> s[1] = 1 /\ s[2] = n - M  BY <1>1, <3>1
    <3>3. s[1] = 1 /\ s[2] = n - M <=> n = k  BY <1>1, <2>2
    <3> QED  BY <3>2, <3>3
  <2> QED  BY <1>1, <2>1, <2>2
<1> HIDE DEF k
<1> QED  BY <1>2, <1>5

(* A round takes one from the lifespan of every image, or the image.        *)
LEMMA NewRoundWears ==
  ASSUME Tame, NEW f, Good(f), NEW B, B # {} => Burning, NEW K, NEW s \in Slots
  PROVE  Worn(f, Vanish(Resetting(f, B, K)[2 * MaxStacks]), s, 1)
<1> DEFINE N == 2 * MaxStacks
           P == Resetting(f, B, K)
           z == P[N]
           v == Vanish(z)
<1> SUFFICES Worn(f, v, s, 1)  OBVIOUS
<1>1. Laps(f, B, K, P) /\ N \in Nat  BY BoardAssumption, ResettingLaps
<1> HIDE DEF P
<1>2. Pausing(z) /\ N \in 0..N  BY <1>1 DEF Laps
<1>3. v.unit = z.unit  BY <1>2, VanishMid DEF Pausing
<1> HIDE DEF v
<1>4. SUFFICES ASSUME Image(z, s)  PROVE Worn(f, z, s, 1)
  BY <1>3 DEF Worn, Image
<1>5. B = {}
  <2>1. Imaging  BY <1>2, <1>4, ImageLives DEF Pausing
  <2> QED  BY <2>1 DEF Tame
<1>6. PICK k \in 1..N : \A n \in 1..N : SlotOrder[n] = s <=> n = k  BY OneTurn
<1> DEFINE Taken(n) == IF n >= k THEN 1 ELSE 0
           p == [n \in 0..N |-> <<n, P[n]>>]
           S == {x \in (0..N) \X Board : Worn(f, x[2], s, Taken(x[1]))}
<1>7. \A n \in 0..N : P[n] \in Board  BY <1>1 DEF Laps, Pausing, Mid
<1>8. p[0] \in S
  <2>1. P[0] = f /\ f.unit[s].lifespan \in Int  BY <1>1, UnitFacts DEF Laps, Good, Mid
  <2>2. Worn(f, P[0], s, Taken(0))  BY <2>1 DEF Worn
  <2>3. 0 \in 0..N /\ p[0] = <<0, P[0]>>  BY <1>1
  <2> HIDE DEF Taken
  <2> QED  BY <1>7, <2>2, <2>3
<1>9. ASSUME NEW n \in 1..N, p[n - 1] \in S  PROVE p[n] \in S
  <2>1. n \in 0..N /\ n - 1 \in 0..N  BY <1>1
  <2> DEFINE g == P[n - 1]
             h == P[n]
             t == SlotOrder[n]
  <2>2. h = StackRound(g, t, B, K) /\ Pausing(g)  BY <1>1, <2>1 DEF Laps
  <2>3. t \in Slots  BY OrderFacts
  <2> HIDE DEF g, h, t
  <2>4. Worn(g, h, s, IF s = t THEN 1 ELSE 0)  BY <1>5, <2>2, <2>3, StackRoundWears
  <2>5. Worn(f, g, s, Taken(n - 1))  BY <1>9, <2>1 DEF g
  <2>6. Taken(n) = Taken(n - 1) + (IF s = t THEN 1 ELSE 0)  BY <1>6 DEF t
  <2>7. f.unit[s].lifespan \in Int  BY UnitFacts DEF Good, Mid
  <2>8. Taken(n - 1) \in Int  OBVIOUS
  <2> HIDE DEF Taken
  <2>9. Worn(f, h, s, Taken(n))  BY <2>4, <2>5, <2>6, <2>7, <2>8 DEF Worn
  <2> QED  BY <1>7, <2>1, <2>9 DEF h
<1> HIDE DEF S, p
<1>10. \A n \in 0..N : p[n] \in S  BY <1>1, <1>8, <1>9, StaysIn
<1>11. p[N] \in S /\ p[N] = <<N, z>>  BY <1>2, <1>10 DEF p
<1>12. Worn(f, z, s, Taken(N))  BY <1>11 DEF S
<1>13. Taken(N) = 1  BY <1>1
<1> HIDE DEF Taken
<1> QED  BY <1>12, <1>13

(* What an action does to the images: those that were there lose a round of *)
(* theirs if a round begins, and nothing otherwise; a new one is cast.      *)
Fading ==
  \A s \in Slots : Image(field', s) =>
    IF Image(field, s)
    THEN field'.unit[s].lifespan
           = field.unit[s].lifespan - (IF round' # round THEN 1 ELSE 0)
    ELSE budget' < budget /\ field'.unit[s].lifespan \in Powers

LEMMA StepFades ==
  ASSUME Tame, IInv, Next
  PROVE  Fading
<1>0. Good(field) /\ budget \in Int /\ round \in {0, 1}
  BY BoardAssumption DEF IInv
<1>1. \A s \in Slots : field.unit[s].lifespan \in Int
  BY <1>0, UnitFacts DEF Good, Mid
<1>2. CASE Fights
  <2>1. Keeps(field, field') /\ round' = round  BY <1>2, FightsKeep
  <2> QED  BY <1>1, <2>1 DEF Keeps, Fading
<1>3. CASE Spells
  <2>1. Gains(field, field') /\ budget' = budget - 1 /\ round' = round
    BY <1>3, SpellsKeep
  <2>2. CASE Keeps(field, field')  BY <1>1, <2>1, <2>2 DEF Keeps, Fading
  <2>3. ASSUME NEW i \in Slots, NEW p \in Powers, Joins(field, field', i, p)
        PROVE  Fading
    BY <1>0, <1>1, <2>1, <2>3 DEF Joins, Fading
  <2> QED  BY <2>1, <2>2, <2>3 DEF Gains
<1>4. CASE Round
  <2>1. PICK B, K : NewRound(B, K)  BY <1>4 DEF Round
  <2>2. B # {} => Burning  BY <2>1 DEF NewRound
  <2>3. field' = Vanish(Resetting(field, B, K)[2 * MaxStacks]) /\ round' # round
    BY <1>0, <2>1 DEF NewRound
  <2>4. \A s \in Slots : Worn(field, field', s, 1)  BY <1>0, <2>2, <2>3, NewRoundWears
  <2> QED  BY <2>3, <2>4 DEF Fading, Worn
<1> QED  BY <1>2, <1>3, <1>4 DEF Next

(* An image that was cast with some power stands for that many rounds at    *)
(* most: it counts as many rounds as the power, each new round takes        *)
(* exactly one from it or destroys it, and no blow, move or other spell     *)
(* gives one back, makes a fallen image stand up, or makes an image.  It is *)
(* what ImagesExpire says but for the fairness: the spells of a battle are  *)
(* finitely many, and once they are cast every round brings all images      *)
(* nearer to their end.  Again the battle is Tame.                          *)
THEOREM ImagesFade ==
  ASSUME Tame
  PROVE  Spec =>
           /\ [](\A s \in Slots : Image(field, s) => field.unit[s].lifespan \in Nat)
           /\ [][Fading]_vars
<1>1. IInv => \A s \in Slots : Image(field, s) => field.unit[s].lifespan \in Nat
  BY ImageLives DEF IInv, Good
<1>2. IInv /\ [Next]_vars => [Fading]_vars
  BY StepFades DEF Fading
<1>3. Spec => []IInv  BY Invariant
<1>4. Spec => [](\A s \in Slots : Image(field, s) => field.unit[s].lifespan \in Nat)
  BY <1>1, <1>3, PTL
<1>5. Spec => [][Fading]_vars  BY <1>2, <1>3, PTL DEF Spec
<1> QED  BY <1>4, <1>5

=============================================================================
