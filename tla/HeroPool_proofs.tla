--------------------------- MODULE HeroPool_proofs ---------------------------
(***************************************************************************)
(* Theorems about HeroPool, for all sets of heroes and jails, all lengths  *)
(* of the lists, any number of players on any number of places and any     *)
(* number of hirings, battles and weeks.                                   *)
(*                                                                         *)
(* GetNewHeroId gives a hero whom somebody owns only when no other is      *)
(* left.  That there always is one is a matter of counting: no more heroes *)
(* bear the mark of a player than the lists have places.                   *)
(*                                                                         *)
(* The first day of a week may mark an owned hero for hire when a place is *)
(* unused.  So the mark is only half of the invariant (Good), which holds  *)
(* of every state; that lists and owners agree (Single) holds until        *)
(* somebody takes such a hero.                                             *)
(***************************************************************************)
EXTENDS HeroPool, NatLemmas, FiniteSetTheorems, TLAPS

Seated     == Present \X {0, 1}      \* the offers of those who play
Members(L) == {L[i] : i \in 1 .. Len(L)}
Once(L)    == \A i, j \in 1 .. Len(L) : L[i] = L[j] => i = j

Typed(x) ==
  /\ DOMAIN x = {"heroesOwned", "heroesForPurchase", "heroHireStatus", "ownerIdx", "held",
                 "playerDead", "gbRetreatWin"}
  /\ x.heroesOwned \in [Player -> Seq(Hero)]
  /\ x.heroesForPurchase \in [Offer -> Hero \cup {NoHero}]
  /\ x.heroHireStatus \in [Hero -> Present \cup {Free, ForHire, InJail}]
  /\ x.ownerIdx \in [Hero -> Present \cup {Nobody}]
  /\ x.held \in [Hero -> BOOLEAN] /\ x.playerDead \in [Player -> BOOLEAN]
  /\ x.gbRetreatWin \in BOOLEAN

Short(x)   == \A p \in Present : Len(x.heroesOwned[p]) <= MaxOwned
Emptied(x) == \A p \in Present : x.playerDead[p] => x.heroesOwned[p] = <<>>
Penned(x)  == \A h \in Hero : x.heroHireStatus[h] = InJail => h \in Jailed

(* The mark of a hero who is not in M says in whose list he is.             *)
Marked(x, M) ==
  \A h \in Hero, p \in Present :
    /\ x.heroHireStatus[h] = p => h \in Members(x.heroesOwned[p])
    /\ h \in Members(x.heroesOwned[p]) => h \in M \/ x.heroHireStatus[h] = p

(* What every function leaves as it should be, who may be offered and who   *)
(* may wait on offer between two functions.                                 *)
Good(x, M)    == Typed(x) /\ Short(x) /\ Emptied(x) /\ Penned(x) /\ Marked(x, M)
Unowned(x, h) == h \in Hero /\ x.heroHireStatus[h] \in {Free, ForHire}
Open(x) ==
  /\ \A o \in Seated : Unowned(x, x.heroesForPurchase[o])
  /\ \A o \in Offer : x.heroesForPurchase[o] # NoHero =>
                        x.heroHireStatus[x.heroesForPurchase[o]] # InJail
Resting(x) ==
  \A h \in Hero : x.held[h] =>
    /\ x.heroHireStatus[h] # InJail
    /\ \A p \in Present : h \notin Members(x.heroesOwned[p])

(* Whose a hero is and in whose list he is, once, is the same; and who is   *)
(* in M bears a mark that is no player's.                                   *)
Single(x, M) ==
  /\ \A p \in Present : Once(x.heroesOwned[p])
  /\ \A h \in Hero, p \in Present : x.ownerIdx[h] = p <=> h \in Members(x.heroesOwned[p])
  /\ \A h \in Hero : h \in M => x.heroHireStatus[h] \in {Free, ForHire}

IInv ==
  /\ Good(g, mismarked) /\ Open(g) /\ Resting(g)
  /\ mode # "stolen" => Single(g, mismarked)
  /\ cur \in Present /\ stray \in {Free, ForHire} /\ mismarked \subseteq Hero
  /\ mode \in {"map", "opening", "town", "week", "stolen"} /\ at \in 0 .. 2 * MaxPlayers
-----------------------------------------------------------------------------
(***************************************************************************)
(* Places, lists and counting.                                             *)
(***************************************************************************)

LEMMA Places ==
  /\ Present \subseteq Player /\ Player \subseteq 0 .. 5 /\ 0 \in Present
  /\ Seated \subseteq Offer /\ Seated = Present \X {0, 1} /\ Offer = Player \X {0, 1}
  /\ Free \notin Player /\ ForHire \notin Player /\ InJail \notin Player
  /\ Nobody \notin Player /\ Free # ForHire /\ Free # InJail /\ ForHire # InJail
  /\ MaxPlayers \in Nat /\ NoHero \notin Hero
<1>1. Present \subseteq Player /\ Player \subseteq 0 .. 5 /\ 0 \in Present
  BY PlayersAssumption DEF Present, Player
<1>2. Seated \subseteq Offer  BY <1>1 DEF Seated, Offer
<1> QED
  BY <1>1, <1>2, PlayersAssumption, HeroesAssumption
  DEF Seated, Offer, Free, ForHire, InJail, Nobody

LEMMA AppendList ==
  ASSUME NEW L \in Seq(Hero), NEW h \in Hero
  PROVE  /\ Append(L, h) \in Seq(Hero) /\ Len(Append(L, h)) = Len(L) + 1
         /\ Members(Append(L, h)) = Members(L) \cup {h}
         /\ Once(L) /\ h \notin Members(L) => Once(Append(L, h))
<1> DEFINE A == Append(L, h)
<1>1. /\ A \in Seq(Hero) /\ Len(A) = Len(L) + 1 /\ Len(L) \in Nat
      /\ \A i \in 1 .. Len(L) : A[i] = L[i]
      /\ A[Len(L) + 1] = h
  OBVIOUS
<1> HIDE DEF A
<1>2. \A i \in 1 .. Len(A) : i \in 1 .. Len(L) \/ i = Len(L) + 1  BY <1>1
<1>3. Members(A) = Members(L) \cup {h}
  <2>1. \A i \in 1 .. Len(A) : A[i] \in Members(L) \cup {h}
    BY <1>1, <1>2 DEF Members
  <2>2. \A y \in Members(L) \cup {h} : y \in Members(A)
    <3> TAKE y \in Members(L) \cup {h}
    <3>1. \A i \in 1 .. Len(L) : i \in 1 .. Len(A)  BY <1>1
    <3>2. Len(L) + 1 \in 1 .. Len(A)  BY <1>1
    <3> QED  BY <1>1, <3>1, <3>2 DEF Members
  <2> QED  BY <2>1, <2>2 DEF Members
<1>4. Once(L) /\ h \notin Members(L) => Once(A)
  <2> SUFFICES ASSUME Once(L), h \notin Members(L),
                      NEW i \in 1 .. Len(A), NEW j \in 1 .. Len(A), A[i] = A[j]
               PROVE  i = j
    BY DEF Once
  <2>1. \A k \in 1 .. Len(L) : L[k] # h  BY DEF Members
  <2>2. CASE i \in 1 .. Len(L) /\ j \in 1 .. Len(L)  BY <1>1, <2>2 DEF Once
  <2>3. CASE i = Len(L) + 1 /\ j = Len(L) + 1  BY <2>3
  <2>4. CASE i \in 1 .. Len(L) /\ j = Len(L) + 1  BY <1>1, <2>1, <2>4
  <2>5. CASE i = Len(L) + 1 /\ j \in 1 .. Len(L)  BY <1>1, <2>1, <2>5
  <2> QED  BY <1>2, <2>2, <2>3, <2>4, <2>5
<1> QED  BY <1>1, <1>3, <1>4 DEF A

LEMMA WithoutList ==
  ASSUME NEW L \in Seq(Hero), Once(L), NEW h \in Members(L)
  PROVE  /\ Without(L, h) \in Seq(Hero) /\ Len(Without(L, h)) = Len(L) - 1
         /\ Once(Without(L, h)) /\ Members(Without(L, h)) = Members(L) \ {h}
<1> DEFINE k == CHOOSE k \in 1 .. Len(L) : L[k] = h
           W == Without(L, h)
<1>1. k \in 1 .. Len(L) /\ L[k] = h  BY DEF Members
<1>2. W = [i \in 1 .. Len(L) - 1 |-> IF i < k THEN L[i] ELSE L[i + 1]]
  BY DEF Without
<1> HIDE DEF k, W
<1>3. Len(L) \in Nat /\ Len(L) - 1 \in Nat  BY <1>1
<1>4. \A i \in 1 .. Len(L) - 1 :
        /\ W[i] = IF i < k THEN L[i] ELSE L[i + 1]
        /\ i \in 1 .. Len(L) /\ i + 1 \in 1 .. Len(L)
        /\ W[i] \in Hero
  BY <1>1, <1>2, <1>3
<1>5. W \in Seq(Hero) /\ Len(W) = Len(L) - 1  BY <1>2, <1>3, <1>4
<1>6. Once(W)
  <2> SUFFICES ASSUME NEW i \in 1 .. Len(W), NEW j \in 1 .. Len(W), W[i] = W[j]
               PROVE  i = j
    BY DEF Once
  <2> DEFINE from(n) == IF n < k THEN n ELSE n + 1
  <2>1. /\ W[i] = L[from(i)] /\ W[j] = L[from(j)]
        /\ from(i) \in 1 .. Len(L) /\ from(j) \in 1 .. Len(L)
    BY <1>4, <1>5
  <2>2. from(i) = from(j)
    <3> HIDE DEF from
    <3> QED  BY <2>1 DEF Once
  <2> QED  BY <2>2, <1>1, <1>3
<1>7. Members(W) = Members(L) \ {h}
  <2>1. ASSUME NEW i \in 1 .. Len(W)  PROVE W[i] \in Members(L) \ {h}
    <3> DEFINE n == IF i < k THEN i ELSE i + 1
    <3>1. W[i] = L[n] /\ n \in 1 .. Len(L) /\ n # k  BY <1>1, <1>4, <1>5
    <3> HIDE DEF n
    <3>2. L[n] # h  BY <1>1, <3>1 DEF Once
    <3> QED  BY <3>1, <3>2 DEF Members
  <2>2. ASSUME NEW n \in 1 .. Len(L), L[n] # h  PROVE L[n] \in Members(W)
    <3> DEFINE i == IF n < k THEN n ELSE n - 1
    <3>1. n # k  BY <1>1, <2>2
    <3>2. i \in 1 .. Len(L) - 1 /\ n = IF i < k THEN i ELSE i + 1
      BY <1>1, <1>3, <3>1
    <3> HIDE DEF i
    <3>3. W[i] = L[n]  BY <1>4, <3>2
    <3>4. i \in 1 .. Len(W)  BY <1>5, <3>2
    <3> QED  BY <3>3, <3>4 DEF Members
  <2> QED  BY <2>1, <2>2 DEF Members
<1> QED  BY <1>5, <1>6, <1>7 DEF W

(* No more heroes bear a player's mark than the lists have places.          *)
LEMMA OwnedFit ==
  ASSUME NEW x, NEW M, Good(x, M)
  PROVE  LET S == {h \in Hero : x.heroHireStatus[h] \in Present}
         IN  IsFiniteSet(S) /\ Cardinality(S) <= NumPlayers * MaxOwned
<1> DEFINE S == {h \in Hero : x.heroHireStatus[h] \in Present}
           T == Present \X (1 .. MaxOwned)
           L(h) == x.heroesOwned[x.heroHireStatus[h]]
           place(h) == CHOOSE i \in 1 .. Len(L(h)) : L(h)[i] = h
           f == [h \in S |-> <<x.heroHireStatus[h], place(h)>>]
<1>1. IsFiniteSet(S)  BY HeroesAssumption, FS_Subset
<1>2. IsFiniteSet(T) /\ Cardinality(T) = NumPlayers * MaxOwned
  <2>1. IsFiniteSet(Present) /\ Cardinality(Present) = NumPlayers
    <3>1. 0 \in Int /\ NumPlayers - 1 \in Int /\ NumPlayers - 1 >= 0
      BY PlayersAssumption
    <3>2. IsFiniteSet(0 .. NumPlayers - 1) /\ Cardinality(0 .. NumPlayers - 1) = NumPlayers - 1 - 0 + 1
      BY <3>1, FS_Interval
    <3> QED  BY <3>1, <3>2, PlayersAssumption DEF Present
  <2>2. IsFiniteSet(1 .. MaxOwned) /\ Cardinality(1 .. MaxOwned) = MaxOwned
    <3>1. 1 \in Int /\ MaxOwned \in Int /\ MaxOwned >= 1  BY PlayersAssumption
    <3>2. IsFiniteSet(1 .. MaxOwned) /\ Cardinality(1 .. MaxOwned) = MaxOwned - 1 + 1
      BY <3>1, FS_Interval
    <3> QED  BY <3>1, <3>2
  <2> QED  BY <2>1, <2>2, FS_Product
<1>3. \A h \in S : L(h)[place(h)] = h /\ place(h) \in 1 .. MaxOwned
  <2> TAKE h \in S
  <2>1. x.heroHireStatus[h] \in Present /\ h \in Hero  OBVIOUS
  <2>2. h \in Members(L(h))  BY <2>1 DEF Good, Marked
  <2>3. \E i \in 1 .. Len(L(h)) : L(h)[i] = h  BY <2>2 DEF Members
  <2>4. Len(L(h)) <= MaxOwned  BY <2>1 DEF Good, Short
  <2>5. L(h) \in Seq(Hero)  BY <2>1, Places DEF Good, Typed
  <2>6. Len(L(h)) \in Nat /\ MaxOwned \in Nat  BY <2>5, PlayersAssumption
  <2>7. place(h) \in 1 .. Len(L(h)) /\ L(h)[place(h)] = h
    <3> HIDE DEF L
    <3> QED  BY <2>3
  <2> HIDE DEF L, place
  <2> QED  BY <2>4, <2>6, <2>7
<1> HIDE DEF place
<1>4. f \in [S -> T]  BY <1>3
<1>5. \A h, k \in S : f[h] = f[k] => h = k
  <2> TAKE h, k \in S
  <2> HAVE f[h] = f[k]
  <2>1. x.heroHireStatus[h] = x.heroHireStatus[k] /\ place(h) = place(k)  OBVIOUS
  <2>2. L(h) = L(k)  BY <2>1
  <2> HIDE DEF L, f
  <2> QED  BY <1>3, <2>1, <2>2
<1>6. ~(Cardinality(T) < Cardinality(S))
  <2> HIDE DEF f, S, T
  <2> QED  BY <1>1, <1>2, <1>4, <1>5, FS_PigeonHole
<1>7. Cardinality(S) \in Nat /\ Cardinality(T) \in Nat
  <2> HIDE DEF S, T
  <2> QED  BY <1>1, <1>2, FS_CardinalityType
<1> HIDE DEF S, T
<1> QED  BY <1>1, <1>2, <1>6, <1>7 DEF S

(* A random hero never bears the mark of a player or of a jail.             *)
LEMMA NewHeroUnowned ==
  ASSUME NEW x, NEW M, Good(x, M), NEW h \in GetNewHeroId(x.heroHireStatus)
  PROVE  Unowned(x, h)
<1> DEFINE st == x.heroHireStatus
           S == {k \in Hero : st[k] \in Present}
<1>1. \E k \in Hero : st[k] \in {Free, ForHire}
  <2> SUFFICES ASSUME \A k \in Hero : st[k] \notin {Free, ForHire}  PROVE FALSE
    OBVIOUS
  <2>1. \A k \in Hero : k \in S \/ k \in Jailed
    BY Places DEF Good, Typed, Penned
  <2>2. IsFiniteSet(S) /\ Cardinality(S) <= NumPlayers * MaxOwned  BY OwnedFit
  <2>3. IsFiniteSet(Jailed)  BY HeroesAssumption, FS_Subset
  <2>4. IsFiniteSet(S \cup Jailed)
        /\ Cardinality(S \cup Jailed) = Cardinality(S) + Cardinality(Jailed) - Cardinality(S \cap Jailed)
    <3> HIDE DEF S
    <3> QED  BY <2>2, <2>3, FS_Union
  <2>5. S \cap Jailed \in SUBSET S /\ Hero \in SUBSET (S \cup Jailed)  BY <2>1
  <2>6. IsFiniteSet(S \cap Jailed) /\ Cardinality(Hero) <= Cardinality(S \cup Jailed)
    <3> HIDE DEF S
    <3> QED  BY <2>2, <2>4, <2>5, FS_Subset
  <2>7. /\ Cardinality(S) \in Nat /\ Cardinality(Jailed) \in Nat /\ Cardinality(Hero) \in Nat
        /\ Cardinality(S \cap Jailed) \in Nat
    <3> HIDE DEF S
    <3> QED  BY <2>2, <2>3, <2>6, HeroesAssumption, FS_CardinalityType
  <2>8. NumPlayers * MaxOwned \in Nat  BY PlayersAssumption
  <2> HIDE DEF S
  <2> QED  BY <2>2, <2>4, <2>6, <2>7, <2>8, HeroesAssumption
<1> QED  BY <1>1 DEF GetNewHeroId, Unowned

(* A hero without a player's mark who is not in M has no owner.             *)
LEMMA Ownerless ==
  ASSUME NEW x, NEW M, Good(x, M), NEW h \in Hero, h \notin M,
         \A p \in Present : x.heroHireStatus[h] # p
  PROVE  /\ \A p \in Present : h \notin Members(x.heroesOwned[p])
         /\ Single(x, M) => x.ownerIdx[h] = Nobody
BY DEF Good, Typed, Marked, Single
-----------------------------------------------------------------------------
(***************************************************************************)
(* What the functions do to the game.                                      *)
(***************************************************************************)

LEMMA JoinFacts ==
  ASSUME NEW x, NEW M, Good(x, M), NEW p \in Present, ~x.playerDead[p], NEW h \in Hero,
         \A q \in Present : x.heroHireStatus[h] # q, Len(x.heroesOwned[p]) < MaxOwned
  PROVE  LET y == Join(x, p, h)
         IN  /\ Good(y, M) /\ y.heroesForPurchase = x.heroesForPurchase
             /\ y.held = x.held /\ y.playerDead = x.playerDead
             /\ y.heroHireStatus = [x.heroHireStatus EXCEPT ![h] = p]
             /\ y.ownerIdx = [x.ownerIdx EXCEPT ![h] = p]
             /\ \A q \in Present : Members(y.heroesOwned[q]) =
                  Members(x.heroesOwned[q]) \cup (IF q = p THEN {h} ELSE {})
             /\ Single(x, M) /\ h \notin M => Single(y, M)
<1> DEFINE y == Join(x, p, h)
           L == x.heroesOwned[p]
<1>1. /\ DOMAIN y = DOMAIN x /\ y.heroesForPurchase = x.heroesForPurchase
      /\ y.held = x.held /\ y.playerDead = x.playerDead /\ y.gbRetreatWin = x.gbRetreatWin
      /\ y.heroesOwned = [x.heroesOwned EXCEPT ![p] = Append(@, h)]
      /\ y.ownerIdx = [x.ownerIdx EXCEPT ![h] = p]
      /\ y.heroHireStatus = [x.heroHireStatus EXCEPT ![h] = p]
  BY DEF Join, Good, Typed
<1>2. L \in Seq(Hero) /\ p \in Player  BY Places DEF Good, Typed
<1>3. /\ Append(L, h) \in Seq(Hero) /\ Len(Append(L, h)) = Len(L) + 1
      /\ Members(Append(L, h)) = Members(L) \cup {h}
      /\ Once(L) /\ h \notin Members(L) => Once(Append(L, h))
  BY <1>2, AppendList
<1>4. /\ y.heroesOwned[p] = Append(L, h)
      /\ \A q \in Present : q # p => y.heroesOwned[q] = x.heroesOwned[q]
      /\ y.ownerIdx[h] = p /\ \A k \in Hero : k # h => y.ownerIdx[k] = x.ownerIdx[k]
      /\ y.heroHireStatus[h] = p
      /\ \A k \in Hero : k # h => y.heroHireStatus[k] = x.heroHireStatus[k]
  BY <1>1, <1>2, Places DEF Good, Typed
<1> HIDE DEF y
<1>5. Typed(y)
  <2>1. y.heroesOwned \in [Player -> Seq(Hero)]
    BY <1>1, <1>2, <1>3 DEF Good, Typed
  <2>2. /\ y.ownerIdx \in [Hero -> Present \cup {Nobody}]
        /\ y.heroHireStatus \in [Hero -> Present \cup {Free, ForHire, InJail}]
    BY <1>1 DEF Good, Typed
  <2> QED  BY <1>1, <2>1, <2>2 DEF Good, Typed
<1> HIDE DEF L
<1>6. Short(y) /\ Emptied(y)
  <2>1. Len(L) < MaxOwned /\ Len(L) \in Nat /\ MaxOwned \in Nat
    BY <1>2, PlayersAssumption DEF L
  <2>2. Len(Append(L, h)) <= MaxOwned  BY <1>3, <2>1
  <2> QED  BY <1>1, <1>4, <2>2 DEF Good, Short, Emptied
<1>7. \A q \in Present : Members(y.heroesOwned[q]) =
        Members(x.heroesOwned[q]) \cup (IF q = p THEN {h} ELSE {})
  BY <1>3, <1>4 DEF L
<1>8. Marked(y, M)
  <2> SUFFICES ASSUME NEW k \in Hero, NEW q \in Present
               PROVE  /\ y.heroHireStatus[k] = q => k \in Members(y.heroesOwned[q])
                      /\ k \in Members(y.heroesOwned[q]) => k \in M \/ y.heroHireStatus[k] = q
    BY DEF Marked
  <2>1. /\ x.heroHireStatus[k] = q => k \in Members(x.heroesOwned[q])
        /\ k \in Members(x.heroesOwned[q]) => k \in M \/ x.heroHireStatus[k] = q
    BY DEF Good, Marked
  <2> QED  BY <1>4, <1>7, <2>1
<1>9. Penned(y)  BY <1>4, Places DEF Good, Penned
<1>10. Single(x, M) /\ h \notin M => Single(y, M)
  <2> SUFFICES ASSUME Single(x, M), h \notin M  PROVE Single(y, M)  OBVIOUS
  <2>1. \A q \in Present : h \notin Members(x.heroesOwned[q])  BY Ownerless
  <2>2. \A q \in Present : Once(y.heroesOwned[q])
    BY <1>3, <1>4, <2>1 DEF Single, L
  <2>3. ASSUME NEW k \in Hero, NEW q \in Present
        PROVE  y.ownerIdx[k] = q <=> k \in Members(y.heroesOwned[q])
    <3>1. x.ownerIdx[k] = q <=> k \in Members(x.heroesOwned[q])  BY DEF Single
    <3>2. CASE q = p  BY <1>4, <1>7, <3>1, <3>2
    <3>3. CASE q # p  BY <1>4, <1>7, <2>1, <3>1, <3>3
    <3> QED  BY <3>2, <3>3
  <2>4. \A k \in Hero : k \in M => y.heroHireStatus[k] \in {Free, ForHire}
    BY <1>4 DEF Single
  <2> QED  BY <2>2, <2>3, <2>4 DEF Single
<1> QED  BY <1>1, <1>5, <1>6, <1>7, <1>8, <1>9, <1>10 DEF Good, y

LEMMA LeaveFacts ==
  ASSUME NEW x, NEW M, Good(x, M), Single(x, M), NEW p \in Present,
         NEW h \in Members(x.heroesOwned[p])
  PROVE  LET y == Leave(x, h)
         IN  /\ h \in Hero /\ x.ownerIdx[h] = p
             /\ Good(y, M) /\ Single(y, M) /\ y.heroesForPurchase = x.heroesForPurchase
             /\ y.held = x.held /\ y.playerDead = x.playerDead
             /\ y.gbRetreatWin = x.gbRetreatWin
             /\ y.heroHireStatus = [x.heroHireStatus EXCEPT ![h] = Free]
             /\ y.ownerIdx = [x.ownerIdx EXCEPT ![h] = Nobody]
             /\ \A q \in Present : Members(y.heroesOwned[q]) = Members(x.heroesOwned[q]) \ {h}
<1> DEFINE y == Leave(x, h)
           L == x.heroesOwned[p]
<1>1. L \in Seq(Hero) /\ Once(L) /\ p \in Player  BY Places DEF Good, Typed, Single
<1>2. h \in Hero  BY <1>1 DEF Members
<1>3. x.ownerIdx[h] = p  BY <1>2 DEF Single
<1>4. /\ DOMAIN y = DOMAIN x /\ y.heroesForPurchase = x.heroesForPurchase
      /\ y.held = x.held /\ y.playerDead = x.playerDead /\ y.gbRetreatWin = x.gbRetreatWin
      /\ y.heroesOwned = [x.heroesOwned EXCEPT ![p] = Without(@, h)]
      /\ y.ownerIdx = [x.ownerIdx EXCEPT ![h] = Nobody]
      /\ y.heroHireStatus = [x.heroHireStatus EXCEPT ![h] = Free]
  BY <1>3 DEF Leave, Good, Typed
<1>5. /\ Without(L, h) \in Seq(Hero) /\ Len(Without(L, h)) = Len(L) - 1
      /\ Once(Without(L, h)) /\ Members(Without(L, h)) = Members(L) \ {h}
  BY <1>1, WithoutList
<1>6. /\ y.heroesOwned[p] = Without(L, h)
      /\ \A q \in Present : q # p => y.heroesOwned[q] = x.heroesOwned[q]
      /\ y.ownerIdx[h] = Nobody /\ \A k \in Hero : k # h => y.ownerIdx[k] = x.ownerIdx[k]
      /\ y.heroHireStatus[h] = Free
      /\ \A k \in Hero : k # h => y.heroHireStatus[k] = x.heroHireStatus[k]
  BY <1>1, <1>2, <1>4, Places DEF Good, Typed
<1>7. \A q \in Present : q # p => h \notin Members(x.heroesOwned[q])
  BY <1>2, <1>3 DEF Single
<1> HIDE DEF y, L
<1>8. Typed(y)
  <2>1. y.heroesOwned \in [Player -> Seq(Hero)]
    BY <1>1, <1>4, <1>5 DEF Good, Typed, L
  <2>2. /\ y.ownerIdx \in [Hero -> Present \cup {Nobody}]
        /\ y.heroHireStatus \in [Hero -> Present \cup {Free, ForHire, InJail}]
    BY <1>4 DEF Good, Typed
  <2> QED  BY <1>4, <2>1, <2>2 DEF Good, Typed
<1>9. Short(y) /\ Emptied(y)
  <2>1. Len(L) <= MaxOwned /\ Len(L) \in Nat /\ MaxOwned \in Nat
    BY <1>1, PlayersAssumption DEF L, Good, Short
  <2>2. Len(Without(L, h)) <= MaxOwned  BY <1>5, <2>1
  <2>3. ~x.playerDead[p]
    <3>1. L # <<>>  BY DEF L, Members
    <3> QED  BY <3>1 DEF Good, Emptied, L
  <2> QED  BY <1>4, <1>6, <2>2, <2>3 DEF Good, Short, Emptied
<1>10. \A q \in Present : Members(y.heroesOwned[q]) = Members(x.heroesOwned[q]) \ {h}
  BY <1>5, <1>6, <1>7 DEF L
<1>11. Marked(y, M)
  <2> SUFFICES ASSUME NEW k \in Hero, NEW q \in Present
               PROVE  /\ y.heroHireStatus[k] = q => k \in Members(y.heroesOwned[q])
                      /\ k \in Members(y.heroesOwned[q]) => k \in M \/ y.heroHireStatus[k] = q
    BY DEF Marked
  <2>1. /\ x.heroHireStatus[k] = q => k \in Members(x.heroesOwned[q])
        /\ k \in Members(x.heroesOwned[q]) => k \in M \/ x.heroHireStatus[k] = q
    BY DEF Good, Marked
  <2> QED  BY <1>6, <1>10, <2>1, Places
<1>12. Penned(y)  BY <1>6, Places DEF Good, Penned
<1>13. Single(y, M)
  <2>1. \A q \in Present : Once(y.heroesOwned[q])  BY <1>5, <1>6 DEF Single
  <2>2. ASSUME NEW k \in Hero, NEW q \in Present
        PROVE  y.ownerIdx[k] = q <=> k \in Members(y.heroesOwned[q])
    BY <1>6, <1>10, Places DEF Single
  <2>3. \A k \in Hero : k \in M => y.heroHireStatus[k] \in {Free, ForHire}
    BY <1>6 DEF Single
  <2> QED  BY <2>1, <2>2, <2>3 DEF Single
<1> QED  BY <1>2, <1>3, <1>4, <1>8, <1>9, <1>10, <1>11, <1>12, <1>13 DEF Good, y

LEMMA OfferedFacts ==
  ASSUME NEW x, NEW M, Good(x, M), NEW o \in Offer, NEW n, Unowned(x, n)
  PROVE  LET y == Offered(x, o, n)
         IN  /\ Good(y, M) /\ y.heroesForPurchase = [x.heroesForPurchase EXCEPT ![o] = n]
             /\ y.held = x.held /\ y.playerDead = x.playerDead /\ y.ownerIdx = x.ownerIdx
             /\ y.heroesOwned = x.heroesOwned
             /\ y.heroHireStatus = [x.heroHireStatus EXCEPT ![n] = ForHire]
             /\ \A k : Unowned(x, k) => Unowned(y, k)
             /\ Resting(x) => Resting(y)
             /\ Single(x, M) => Single(y, M)
<1> DEFINE y == Offered(x, o, n)
<1>1. n \in Hero  BY DEF Unowned
<1>2. /\ DOMAIN y = DOMAIN x /\ y.heroesOwned = x.heroesOwned
      /\ y.held = x.held /\ y.playerDead = x.playerDead /\ y.gbRetreatWin = x.gbRetreatWin
      /\ y.heroesForPurchase = [x.heroesForPurchase EXCEPT ![o] = n]
      /\ y.ownerIdx = x.ownerIdx
      /\ y.heroHireStatus = [x.heroHireStatus EXCEPT ![n] = ForHire]
  BY DEF Offered, Good, Typed
<1>3. \A k \in Hero : y.heroHireStatus[k] = IF k = n THEN ForHire ELSE x.heroHireStatus[k]
  BY <1>1, <1>2 DEF Good, Typed
<1> HIDE DEF y
<1>4. Typed(y)
  <2>1. y.heroesForPurchase \in [Offer -> Hero \cup {NoHero}]
    BY <1>1, <1>2 DEF Good, Typed
  <2>2. y.heroHireStatus \in [Hero -> Present \cup {Free, ForHire, InJail}]
    BY <1>1, <1>2 DEF Good, Typed
  <2> QED  BY <1>2, <2>1, <2>2 DEF Good, Typed
<1>5. Short(y) /\ Emptied(y)  BY <1>2 DEF Good, Short, Emptied
<1>6. Marked(y, M)
  <2>1. \A q \in Present : x.heroHireStatus[n] # q /\ ForHire # q  BY Places DEF Unowned
  <2> QED  BY <1>2, <1>3, <2>1 DEF Good, Marked
<1>7. Penned(y)  BY <1>3, Places DEF Good, Penned
<1>8. \A k : Unowned(x, k) => Unowned(y, k)  BY <1>3 DEF Unowned
<1>9. Resting(x) => Resting(y)  BY <1>2, <1>3, Places DEF Resting
<1>10. Single(x, M) => Single(y, M)  BY <1>2, <1>3 DEF Single
<1> QED  BY <1>2, <1>4, <1>5, <1>6, <1>7, <1>8, <1>9, <1>10 DEF Good, y

LEMMA ReleasedFacts ==
  ASSUME NEW x, NEW M, Good(x, M), NEW S
  PROVE  LET y == Released(x, S)
         IN  /\ Good(y, M) /\ y.heroesForPurchase = x.heroesForPurchase
             /\ y.heroHireStatus = x.heroHireStatus /\ y.playerDead = x.playerDead
             /\ y.heroesOwned = x.heroesOwned /\ y.ownerIdx = x.ownerIdx
             /\ \A h \in Hero : y.held[h] <=> h \notin S /\ x.held[h]
             /\ Open(x) => Open(y)
             /\ Resting(x) => Resting(y)
             /\ Single(x, M) => Single(y, M)
<1> DEFINE y == Released(x, S)
<1>1. /\ DOMAIN y = DOMAIN x /\ y.heroesOwned = x.heroesOwned
      /\ y.held = [h \in Hero |-> h \notin S /\ x.held[h]]
      /\ y.playerDead = x.playerDead /\ y.gbRetreatWin = x.gbRetreatWin
      /\ y.heroesForPurchase = x.heroesForPurchase /\ y.ownerIdx = x.ownerIdx
      /\ y.heroHireStatus = x.heroHireStatus
  BY DEF Released, Good, Typed
<1> HIDE DEF y
<1>2. y.held \in [Hero -> BOOLEAN] /\ \A h \in Hero : y.held[h] <=> h \notin S /\ x.held[h]
  BY <1>1
<1>3. Typed(y)  BY <1>1, <1>2 DEF Good, Typed
<1>4. Short(y) /\ Emptied(y) /\ Marked(y, M) /\ Penned(y)
  BY <1>1 DEF Good, Short, Emptied, Marked, Penned
<1>5. /\ Open(x) => Open(y)
      /\ Resting(x) => Resting(y)
      /\ Single(x, M) => Single(y, M)
  BY <1>1, <1>2 DEF Open, Unowned, Resting, Single
<1> QED  BY <1>1, <1>2, <1>3, <1>4, <1>5 DEF Good, y

LEMMA CheckedFacts ==
  ASSUME NEW x, NEW M, Good(x, M), NEW new \in Replacements(Clashing(x), x.heroHireStatus)
  PROVE  LET y == CheckedValid(x, new)
         IN  /\ Good(y, M) /\ y.heroHireStatus = x.heroHireStatus
             /\ y.held = x.held /\ y.playerDead = x.playerDead
             /\ y.heroesOwned = x.heroesOwned /\ y.ownerIdx = x.ownerIdx
             /\ \A o \in Offer : y.heroesForPurchase[o] =
                  IF o \in Clashing(x) THEN new[o] ELSE x.heroesForPurchase[o]
             /\ \A o \in Clashing(x) : Unowned(x, new[o])
             /\ Resting(x) => Resting(y)
             /\ Single(x, M) => Single(y, M)
<1> DEFINE y == CheckedValid(x, new)
           C == Clashing(x)
<1>1. \A o \in C : new[o] \in GetNewHeroId(x.heroHireStatus)  BY DEF Replacements
<1>2. \A o \in C : Unowned(x, new[o])
  <2> HIDE DEF C
  <2> QED  BY <1>1, NewHeroUnowned
<1> HIDE DEF C
<1>3. /\ DOMAIN y = DOMAIN x /\ y.heroesOwned = x.heroesOwned
      /\ y.held = x.held /\ y.playerDead = x.playerDead /\ y.gbRetreatWin = x.gbRetreatWin
      /\ y.ownerIdx = x.ownerIdx /\ y.heroHireStatus = x.heroHireStatus
      /\ y.heroesForPurchase =
           [o \in Offer |-> IF o \in C THEN new[o] ELSE x.heroesForPurchase[o]]
  BY DEF CheckedValid, Good, Typed, C
<1> HIDE DEF y
<1>4. y.heroesForPurchase \in [Offer -> Hero \cup {NoHero}]
  BY <1>2, <1>3 DEF Good, Typed, Unowned
<1>5. Typed(y)  BY <1>3, <1>4 DEF Good, Typed
<1>6. Short(y) /\ Emptied(y) /\ Marked(y, M) /\ Penned(y)
  BY <1>3 DEF Good, Short, Emptied, Marked, Penned
<1>7. /\ Resting(x) => Resting(y)
      /\ Single(x, M) => Single(y, M)
  BY <1>3 DEF Resting, Single
<1> QED  BY <1>2, <1>3, <1>5, <1>6, <1>7 DEF Good, y, C

(* Only an offer whose hero has not retreated in this turn gives way to a   *)
(* hero who retreats, unless both have.                                     *)
Waits(x, y, q, u) ==
  LET a == x.heroesForPurchase[<<q, u>>]
      b == x.heroesForPurchase[<<q, 1 - u>>]
  IN  x.held[a] /\ ~x.held[b] => y.heroesForPurchase[<<q, u>>] = a

LEMMA DeallocateFacts ==
  ASSUME NEW x, NEW M, Good(x, M), Single(x, M), Open(x), Resting(x), NEW p \in Present,
         NEW h \in Members(x.heroesOwned[p]), NEW v \in {0, 1}
  PROVE  LET y == Deallocate(x, h, v)
         IN  /\ Good(y, M) /\ Single(y, M) /\ Open(y) /\ Resting(y)
             /\ h \in Hero /\ x.ownerIdx[h] = p
             /\ y.playerDead = x.playerDead
             /\ y.ownerIdx = [x.ownerIdx EXCEPT ![h] = Nobody]
             /\ y.heroHireStatus[h] \in {Free, ForHire}
             /\ \A k \in Hero : k # h =>
                  \/ y.heroHireStatus[k] = x.heroHireStatus[k]
                  \/ x.heroHireStatus[k] = ForHire /\ y.heroHireStatus[k] = Free
             /\ \A q \in Present, u \in {0, 1} : Waits(x, y, q, u)
<1> DEFINE y == Leave(x, h)
<1>1. /\ h \in Hero /\ x.ownerIdx[h] = p
      /\ Good(y, M) /\ Single(y, M) /\ y.heroesForPurchase = x.heroesForPurchase
      /\ y.held = x.held /\ y.playerDead = x.playerDead
      /\ y.gbRetreatWin = x.gbRetreatWin
      /\ y.heroHireStatus = [x.heroHireStatus EXCEPT ![h] = Free]
      /\ y.ownerIdx = [x.ownerIdx EXCEPT ![h] = Nobody]
      /\ \A q \in Present : Members(y.heroesOwned[q]) = Members(x.heroesOwned[q]) \ {h}
  BY LeaveFacts
<1>2. \A k \in Hero : y.heroHireStatus[k] = IF k = h THEN Free ELSE x.heroHireStatus[k]
  BY <1>1 DEF Good, Typed
<1>3. \A o \in Offer : x.heroesForPurchase[o] \in Hero \cup {NoHero}  BY DEF Good, Typed
<1> HIDE DEF y
<1> DEFINE z == Deallocate(x, h, v)
<1>4. Open(y) /\ Resting(y)
  BY <1>1, <1>2, <1>3, Places DEF Open, Unowned, Resting
<1>5. CASE ~x.gbRetreatWin
  <2>1. z = y  BY <1>5 DEF Deallocate, y
  <2>2. \A q \in Present, u \in {0, 1} : Waits(x, y, q, u)  BY <1>1 DEF Waits
  <2> HIDE DEF z
  <2> QED  BY <1>1, <1>2, <1>4, <2>1, <2>2 DEF z
<1>6. CASE x.gbRetreatWin
  <2> DEFINE o == RetreatSlot(x, p, v)
             d == x.heroesForPurchase[o]
  <2>1. o \in Seated /\ o \in Offer /\ (o = <<p, v>> \/ o = <<p, 1 - v>>)
    BY Places DEF RetreatSlot
  <2>2. z = [y EXCEPT !.heroesForPurchase[o] = h,
                      !.heroHireStatus =
                        [i \in Hero |-> CASE i = h -> ForHire
                                          [] i = d /\ i # h /\ @[i] = ForHire -> Free
                                          [] OTHER -> @[i]],
                      !.held[h] = TRUE]
    BY <1>1, <1>6 DEF Deallocate, y
  <2> HIDE DEF o, z
  <2>3. /\ DOMAIN z = DOMAIN y /\ z.heroesOwned = y.heroesOwned /\ z.ownerIdx = y.ownerIdx
        /\ z.playerDead = y.playerDead /\ z.gbRetreatWin = y.gbRetreatWin
        /\ z.heroesForPurchase = [y.heroesForPurchase EXCEPT ![o] = h]
        /\ z.held = [y.held EXCEPT ![h] = TRUE]
        /\ z.heroHireStatus =
             [i \in Hero |-> IF i = h THEN ForHire
                             ELSE IF i = d /\ y.heroHireStatus[i] = ForHire THEN Free
                             ELSE y.heroHireStatus[i]]
    <3> HIDE DEF d
    <3> QED  BY <1>1, <2>2 DEF Good, Typed
  <2> HIDE DEF d
  <2>4. Typed(z)
    <3>1. z.heroesForPurchase \in [Offer -> Hero \cup {NoHero}]
      <4>1. y.heroesForPurchase \in [Offer -> Hero \cup {NoHero}]  BY <1>1 DEF Good, Typed
      <4> QED  BY <1>1, <2>1, <2>3, <4>1
    <3>2. z.held \in [Hero -> BOOLEAN]  BY <1>1, <2>3 DEF Good, Typed
    <3>3. z.heroHireStatus \in [Hero -> Present \cup {Free, ForHire, InJail}]
      BY <1>1, <2>3 DEF Good, Typed
    <3> QED  BY <1>1, <2>3, <3>1, <3>2, <3>3 DEF Good, Typed
  <2>5. Short(z) /\ Emptied(z)  BY <1>1, <2>3 DEF Good, Short, Emptied
  <2>6. \A k \in Hero :
          /\ k = h => y.heroHireStatus[k] = Free /\ z.heroHireStatus[k] = ForHire
          /\ z.heroHireStatus[k] = y.heroHireStatus[k]
             \/ (y.heroHireStatus[k] \in {Free, ForHire} /\ z.heroHireStatus[k] \in {Free, ForHire})
          /\ k # h => \/ z.heroHireStatus[k] = x.heroHireStatus[k]
                      \/ x.heroHireStatus[k] = ForHire /\ z.heroHireStatus[k] = Free
    BY <1>1, <1>2, <2>3
  <2>7. Marked(z, M)
    <3>1. \A k \in Hero, q \in Present : z.heroHireStatus[k] = q <=> y.heroHireStatus[k] = q
      BY <2>6, Places
    <3> QED  BY <1>1, <2>3, <3>1 DEF Good, Marked
  <2>8. Penned(z)  BY <1>1, <2>6, Places DEF Good, Penned
  <2>9. Single(z, M)  BY <1>1, <2>3, <2>6 DEF Single
  <2>10. \A a \in Offer : z.heroesForPurchase[a] =
           IF a = o THEN h ELSE x.heroesForPurchase[a]
    BY <1>1, <2>3 DEF Good, Typed
  <2>11. Open(z)
    <3>1. \A k \in Hero : /\ Unowned(y, k) => Unowned(z, k)
                          /\ y.heroHireStatus[k] # InJail => z.heroHireStatus[k] # InJail
      BY <2>6, Places DEF Unowned
    <3>2. Unowned(z, h)  BY <1>1, <2>6 DEF Unowned
    <3>3. \A a \in Seated : Unowned(z, z.heroesForPurchase[a])
      BY <1>1, <1>4, <2>10, <3>1, <3>2, Places DEF Open, Unowned
    <3>4. \A a \in Offer : z.heroesForPurchase[a] # NoHero =>
                             z.heroHireStatus[z.heroesForPurchase[a]] # InJail
      <4> TAKE a \in Offer
      <4> HAVE z.heroesForPurchase[a] # NoHero
      <4>1. CASE a = o  BY <1>1, <2>6, <2>10, <4>1, Places
      <4>2. CASE a # o
        <5>1. z.heroesForPurchase[a] = y.heroesForPurchase[a]  BY <1>1, <2>10, <4>2
        <5>2. z.heroesForPurchase[a] \in Hero  BY <2>4 DEF Typed
        <5> QED  BY <1>4, <3>1, <5>1, <5>2 DEF Open
      <4> QED  BY <4>1, <4>2
    <3> QED  BY <3>3, <3>4 DEF Open
  <2>12. Resting(z)
    <3> SUFFICES ASSUME NEW k \in Hero, z.held[k]
                 PROVE  /\ z.heroHireStatus[k] # InJail
                        /\ \A q \in Present : k \notin Members(z.heroesOwned[q])
      BY DEF Resting
    <3>1. CASE k = h  BY <1>1, <2>3, <2>6, <3>1, Places
    <3>2. CASE k # h
      <4>1. y.held[k]  BY <1>1, <2>3, <3>2 DEF Good, Typed
      <4> QED  BY <1>4, <2>3, <2>6, <4>1, Places DEF Resting
    <3> QED  BY <3>1, <3>2
  <2>13. \A q \in Present, u \in {0, 1} : Waits(x, z, q, u)
    <3> SUFFICES ASSUME NEW q \in Present, NEW u \in {0, 1},
                        x.held[x.heroesForPurchase[<<q, u>>]],
                        ~x.held[x.heroesForPurchase[<<q, 1 - u>>]]
                 PROVE  z.heroesForPurchase[<<q, u>>] = x.heroesForPurchase[<<q, u>>]
      BY DEF Waits
    <3>1. <<q, u>> # o
      <4> SUFFICES ASSUME <<q, u>> = o  PROVE FALSE  OBVIOUS
      <4>1. q = p /\ (u = v \/ u = 1 - v)  BY <2>1
      <4>2. CASE u = v  BY <4>1, <4>2 DEF RetreatSlot, o
      <4>3. CASE u = 1 - v
        <5>1. v = 1 - u  BY <4>3
        <5> QED  BY <4>1, <4>3, <5>1 DEF RetreatSlot, o
      <4> QED  BY <4>1, <4>2, <4>3
    <3>2. <<q, u>> \in Offer  BY Places
    <3> QED  BY <2>10, <3>1, <3>2
  <2> QED
    BY <1>1, <2>3, <2>4, <2>5, <2>6, <2>7, <2>8, <2>9, <2>11, <2>12, <2>13 DEF Good, z
<1> QED  BY <1>5, <1>6

LEMMA PlayerDeadFacts ==
  ASSUME NEW x, NEW M, Good(x, M), Single(x, M), Open(x), Resting(x),
         NEW dying \in SUBSET Present
  PROVE  LET y == PlayerDead(x, dying)
         IN  /\ Good(y, M) /\ Single(y, M) /\ Open(y) /\ Resting(y)
             /\ y.heroesForPurchase = x.heroesForPurchase /\ y.held = x.held
             /\ \A p \in Present : y.playerDead[p] <=> x.playerDead[p] \/ p \in dying
             /\ \A h \in Hero : y.ownerIdx[h] = IF x.ownerIdx[h] \in dying THEN Nobody ELSE x.ownerIdx[h]
             /\ \A h \in Hero : y.heroHireStatus[h] = InJail <=>
                                  x.heroHireStatus[h] = InJail /\ x.ownerIdx[h] \notin dying
<1> DEFINE y == PlayerDead(x, dying)
           theirs == UNION {Roster(x, p) : p \in dying}
           lapsed == {h \in UNION {OfferedTo(x, p) : p \in dying} \ {NoHero} :
                        x.heroHireStatus[h] = ForHire}
<1>1. y = [x EXCEPT
             !.playerDead = [p \in Player |-> @[p] \/ p \in dying],
             !.heroesOwned = [p \in Player |-> IF p \in dying THEN <<>> ELSE @[p]],
             !.ownerIdx = [h \in Hero |-> IF h \in theirs THEN Nobody ELSE @[h]],
             !.heroHireStatus = [h \in Hero |-> IF h \in theirs \cup lapsed THEN Free ELSE @[h]],
             !.gbRetreatWin = @ /\ dying = {}]
  BY DEF PlayerDead
<1>2. \A h \in Hero : h \in theirs <=> x.ownerIdx[h] \in dying
  <2>1. \A h \in Hero, p \in dying : h \in Roster(x, p) <=> x.ownerIdx[h] = p
    BY DEF Roster, Members, Single
  <2> HIDE DEF y
  <2> QED  BY <2>1
<1>3. \A h \in lapsed : x.heroHireStatus[h] = ForHire  OBVIOUS
<1> HIDE DEF theirs, lapsed, y
<1>4. /\ DOMAIN y = DOMAIN x /\ y.heroesForPurchase = x.heroesForPurchase /\ y.held = x.held
      /\ y.playerDead = [p \in Player |-> x.playerDead[p] \/ p \in dying]
      /\ y.heroesOwned = [p \in Player |-> IF p \in dying THEN <<>> ELSE x.heroesOwned[p]]
      /\ y.ownerIdx = [h \in Hero |-> IF h \in theirs THEN Nobody ELSE x.ownerIdx[h]]
      /\ y.heroHireStatus =
           [h \in Hero |-> IF h \in theirs \cup lapsed THEN Free ELSE x.heroHireStatus[h]]
  BY <1>1 DEF Good, Typed
<1>5. y.gbRetreatWin = (x.gbRetreatWin /\ dying = {})  BY <1>1 DEF Good, Typed
<1> HIDE DEF y
<1>6. Typed(y)
  <2>1. y.playerDead \in [Player -> BOOLEAN] /\ y.gbRetreatWin \in BOOLEAN
    BY <1>4, <1>5
  <2>2. y.heroesOwned \in [Player -> Seq(Hero)]
    <3>1. << >> \in Seq(Hero)  OBVIOUS
    <3> QED  BY <1>4, <3>1 DEF Good, Typed
  <2>3. /\ y.ownerIdx \in [Hero -> Present \cup {Nobody}]
        /\ y.heroHireStatus \in [Hero -> Present \cup {Free, ForHire, InJail}]
    BY <1>4 DEF Good, Typed
  <2> QED  BY <1>4, <2>1, <2>2, <2>3 DEF Good, Typed
<1>7. Len(<< >>) = 0 /\ Once(<< >>) /\ Members(<< >>) = {}  BY DEF Once, Members
<1>8. \A p \in Present :
        /\ p \in dying => y.heroesOwned[p] = <<>> /\ Members(y.heroesOwned[p]) = {}
        /\ p \notin dying => y.heroesOwned[p] = x.heroesOwned[p]
        /\ y.playerDead[p] <=> x.playerDead[p] \/ p \in dying
  BY <1>4, <1>7, Places
<1>9. \A k \in Hero :
        /\ y.ownerIdx[k] = IF k \in theirs THEN Nobody ELSE x.ownerIdx[k]
        /\ y.heroHireStatus[k] = IF k \in theirs \cup lapsed THEN Free ELSE x.heroHireStatus[k]
  BY <1>4
<1>10. Short(y) /\ Emptied(y)
  <2>1. 0 <= MaxOwned  BY PlayersAssumption
  <2> QED  BY <1>7, <1>8, <2>1 DEF Good, Short, Emptied
<1>11. Marked(y, M)
  <2> SUFFICES ASSUME NEW k \in Hero, NEW q \in Present
               PROVE  /\ y.heroHireStatus[k] = q => k \in Members(y.heroesOwned[q])
                      /\ k \in Members(y.heroesOwned[q]) => k \in M \/ y.heroHireStatus[k] = q
    BY DEF Marked
  <2>1. /\ x.heroHireStatus[k] = q => k \in Members(x.heroesOwned[q])
        /\ k \in Members(x.heroesOwned[q]) => k \in M \/ x.heroHireStatus[k] = q
        /\ x.ownerIdx[k] = q <=> k \in Members(x.heroesOwned[q])
    BY DEF Good, Marked, Single
  <2>2. CASE q \in dying
    <3>1. y.heroHireStatus[k] # q
      BY <1>2, <1>9, <2>1, <2>2, Places
    <3> QED  BY <1>8, <2>2, <3>1
  <2>3. CASE q \notin dying
    <3>1. x.heroHireStatus[k] = q => k \notin theirs /\ k \notin lapsed
      BY <1>2, <1>3, <2>1, <2>3, Places
    <3>2. y.heroHireStatus[k] = q => x.heroHireStatus[k] = q  BY <1>9, Places
    <3> QED  BY <1>8, <1>9, <2>1, <2>3, <3>1, <3>2
  <2> QED  BY <2>2, <2>3
<1>12. Penned(y)  BY <1>9, Places DEF Good, Penned
<1>13. Single(y, M)
  <2>1. \A q \in Present : Once(y.heroesOwned[q])  BY <1>7, <1>8 DEF Single
  <2>2. ASSUME NEW k \in Hero, NEW q \in Present
        PROVE  y.ownerIdx[k] = q <=> k \in Members(y.heroesOwned[q])
    <3>1. x.ownerIdx[k] = q <=> k \in Members(x.heroesOwned[q])  BY DEF Single
    <3>2. CASE q \in dying
      <4>1. y.ownerIdx[k] # q
        <5>1. y.ownerIdx[k] = IF k \in theirs THEN Nobody ELSE x.ownerIdx[k]  BY <1>9
        <5>2. Nobody # q  BY Places
        <5> QED  BY <1>2, <3>2, <5>1, <5>2
      <4> QED  BY <1>8, <3>2, <4>1
    <3>3. CASE q \notin dying  BY <1>2, <1>8, <1>9, <3>1, <3>3, Places
    <3> QED  BY <3>2, <3>3
  <2>3. \A k \in Hero : k \in M => y.heroHireStatus[k] \in {Free, ForHire}
    BY <1>9 DEF Single
  <2> QED  BY <2>1, <2>2, <2>3 DEF Single
<1>14. Open(y)
  <2>1. \A k \in Hero : /\ Unowned(x, k) => Unowned(y, k)
                        /\ x.heroHireStatus[k] # InJail => y.heroHireStatus[k] # InJail
    BY <1>9, Places DEF Unowned
  <2>2. \A a \in Offer : y.heroesForPurchase[a] # NoHero => y.heroesForPurchase[a] \in Hero
    BY <1>6 DEF Typed
  <2> QED  BY <1>4, <2>1, <2>2 DEF Open, Unowned
<1>15. Resting(y)
  BY <1>4, <1>8, <1>9, Places DEF Resting
<1>16. \A h \in Hero : y.ownerIdx[h] = IF x.ownerIdx[h] \in dying THEN Nobody ELSE x.ownerIdx[h]
  BY <1>2, <1>9
<1>17. ASSUME NEW h \in Hero
       PROVE  y.heroHireStatus[h] = InJail <=>
                x.heroHireStatus[h] = InJail /\ x.ownerIdx[h] \notin dying
  BY <1>2, <1>3, <1>9, Places
<1> QED
  BY <1>4, <1>6, <1>8, <1>10, <1>11, <1>12, <1>13, <1>14, <1>15, <1>16, <1>17 DEF Good, y

LEMMA SetRetreat ==
  ASSUME NEW x, NEW M, Good(x, M), NEW b \in BOOLEAN
  PROVE  LET y == [x EXCEPT !.gbRetreatWin = b]
         IN  /\ Good(y, M) /\ y.heroesForPurchase = x.heroesForPurchase
             /\ y.held = x.held /\ y.playerDead = x.playerDead
             /\ y.heroesOwned = x.heroesOwned
             /\ y.heroHireStatus = x.heroHireStatus /\ y.ownerIdx = x.ownerIdx
             /\ Open(x) => Open(y)
             /\ Resting(x) => Resting(y)
             /\ Single(x, M) => Single(y, M)
<1> DEFINE y == [x EXCEPT !.gbRetreatWin = b]
<1>1. /\ DOMAIN y = DOMAIN x /\ y.heroesOwned = x.heroesOwned /\ y.held = x.held
      /\ y.playerDead = x.playerDead /\ y.gbRetreatWin = b
      /\ y.heroesForPurchase = x.heroesForPurchase /\ y.ownerIdx = x.ownerIdx
      /\ y.heroHireStatus = x.heroHireStatus
  BY DEF Good, Typed
<1> HIDE DEF y
<1>2. Good(y, M)  BY <1>1 DEF Good, Typed, Short, Emptied, Marked, Penned
<1>3. /\ Open(x) => Open(y)
      /\ Resting(x) => Resting(y)
      /\ Single(x, M) => Single(y, M)
  BY <1>1 DEF Open, Unowned, Resting, Single
<1> QED  BY <1>1, <1>2, <1>3 DEF y

(* Who has left his list need not be remembered.                            *)
LEMMA ClearedFacts ==
  ASSUME NEW x, NEW M, Good(x, M), Single(x, M)
  PROVE  Good(x, M \cap AllOwned(x)) /\ Single(x, M \cap AllOwned(x))
<1>1. \A h \in Hero, p \in Present : h \in Members(x.heroesOwned[p]) => h \in AllOwned(x)
  BY DEF AllOwned, Roster, Members
<1>2. Marked(x, M \cap AllOwned(x))  BY <1>1 DEF Good, Marked
<1> QED  BY <1>2 DEF Good, Single

(* The loops over the offers find the next one.                             *)
LEMMA NextOfferFacts ==
  ASSUME at \in 0 .. 2 * MaxPlayers, NEW S \in SUBSET Offer, ~NoneLeft(S)
  PROVE  NextOffer(S) \in S /\ Rank(NextOffer(S)) + 1 \in 0 .. 2 * MaxPlayers
<1>1. \A o \in S : /\ Rank(o) \in Nat /\ Rank(o) + 1 \in 0 .. 2 * MaxPlayers
                   /\ Rank(o) \in 0 .. 2 * MaxPlayers
  <2> TAKE o \in S
  <2>1. o[1] \in Player /\ o[2] \in {0, 1}  BY DEF Offer
  <2>2. MaxPlayers \in Nat  BY PlayersAssumption
  <2> QED  BY <2>1, <2>2 DEF Rank, Player
<1> DEFINE R == {Rank(o) : o \in {b \in S : at <= Rank(b)}}
<1>2. R # {}  BY <1>1 DEF NoneLeft
<1>3. R \in SUBSET (0 .. 2 * MaxPlayers) /\ 2 * MaxPlayers \in Nat
  BY <1>1, PlayersAssumption
<1>4. PICK m \in R : \A k \in R : m <= k
  <2> HIDE DEF R
  <2> QED  BY <1>2, <1>3, Smallest
<1>5. PICK o \in S : at <= Rank(o) /\ m = Rank(o)  BY <1>4
<1>6. \A b \in S : at <= Rank(b) => Rank(o) <= Rank(b)  BY <1>4, <1>5
<1>7. NextOffer(S) \in S  BY <1>5, <1>6 DEF NextOffer
<1> QED  BY <1>1, <1>7
-----------------------------------------------------------------------------
(***************************************************************************)
(* The invariant and the offers that wait, step by step.                   *)
(***************************************************************************)

Waiting ==
  \A p \in Present, v \in {0, 1} :
    LET h == g.heroesForPurchase[<<p, v>>]
        d == g.heroesForPurchase[<<p, 1 - v>>]
    IN  /\ ~g.playerDead[p] /\ g.held[h] /\ ~g.held[d]
        /\ g.heroHireStatus[h] = ForHire
        => \/ g'.heroesForPurchase[<<p, v>>] = h
           \/ ~g'.held[h] \/ g'.playerDead[p]

LEMMA InitIInv == Init => IInv
<1> SUFFICES ASSUME Init  PROVE IInv  OBVIOUS
<1>0. PICK first \in [Present -> Hero \ Jailed] :
        \E offers \in [Present \X {0, 1} -> Hero \ (Jailed \cup {first[p] : p \in Present})] :
        \E retreat \in BOOLEAN :
          (\A p, q \in Present : p # q => first[p] # first[q]) /\ g = NewGame(first, offers, retreat)
  BY DEF Init
<1>1. PICK offers \in [Present \X {0, 1} -> Hero \ (Jailed \cup {first[p] : p \in Present})],
           retreat \in BOOLEAN :
        (\A p, q \in Present : p # q => first[p] # first[q]) /\ g = NewGame(first, offers, retreat)
  BY <1>0
<1> DEFINE of(h) == CHOOSE p \in Present : first[p] = h
<1>2. /\ first \in [Present -> Hero] /\ DOMAIN offers = Seated
      /\ \A o \in Offer : o[1] \in Present <=> o \in Seated
  BY <1>1, Places
<1>3. \A h \in Hero :
        (\E p \in Present : first[p] = h) => of(h) \in Present /\ first[of(h)] = h
  OBVIOUS
<1>4. \A p \in Present : of(first[p]) = p  BY <1>1, <1>2, <1>3
<1> HIDE DEF of
<1>5. /\ DOMAIN g = {"heroesOwned", "heroesForPurchase", "heroHireStatus", "ownerIdx", "held",
                     "playerDead", "gbRetreatWin"}
      /\ g.heroesOwned = [p \in Player |-> IF p \in Present THEN <<first[p]>> ELSE <<>>]
      /\ g.heroesForPurchase =
           [o \in Offer |-> IF o[1] \in Present THEN offers[o] ELSE NoHero]
      /\ g.held = [h \in Hero |-> FALSE] /\ g.playerDead = [p \in Player |-> FALSE]
      /\ g.gbRetreatWin \in BOOLEAN
      /\ g.ownerIdx = [h \in Hero |-> IF \E p \in Present : first[p] = h
                                       THEN of(h) ELSE Nobody]
      /\ g.heroHireStatus =
           [h \in Hero |->
              IF h \in Jailed THEN InJail
              ELSE IF \E p \in Present : first[p] = h THEN of(h)
              ELSE IF \E o \in DOMAIN offers : offers[o] = h THEN ForHire ELSE Free]
  BY <1>1 DEF of, NewGame
<1>6. \A o \in Offer : /\ o \in Seated => g.heroesForPurchase[o] = offers[o]
                       /\ o \notin Seated => g.heroesForPurchase[o] = NoHero
  BY <1>2, <1>5
<1>7. Typed(g)
  <2>1. g.heroesOwned \in [Player -> Seq(Hero)]
    <3>1. << >> \in Seq(Hero) /\ \A p \in Present : <<first[p]>> \in Seq(Hero)  BY <1>2
    <3> QED  BY <1>5, <3>1
  <2>2. g.heroesForPurchase \in [Offer -> Hero \cup {NoHero}]
    <3>1. \A o \in Offer : g.heroesForPurchase[o] \in Hero \cup {NoHero}
      BY <1>1, <1>6, Places
    <3> QED  BY <1>5, <3>1
  <2>3. /\ g.ownerIdx \in [Hero -> Present \cup {Nobody}]
        /\ g.heroHireStatus \in [Hero -> Present \cup {Free, ForHire, InJail}]
    BY <1>3, <1>5
  <2>4. g.held \in [Hero -> BOOLEAN] /\ g.playerDead \in [Player -> BOOLEAN]  BY <1>5
  <2> QED  BY <1>5, <2>1, <2>2, <2>3, <2>4 DEF Typed
<1>8. \A p \in Present : /\ Len(g.heroesOwned[p]) = 1 /\ g.heroesOwned[p][1] = first[p]
                         /\ Once(g.heroesOwned[p]) /\ Members(g.heroesOwned[p]) = {first[p]}
  <2> TAKE p \in Present
  <2>1. g.heroesOwned[p] = <<first[p]>>  BY <1>5, Places
  <2> DEFINE L == <<first[p]>>
  <2>2. Len(L) = 1 /\ L[1] = first[p]  OBVIOUS
  <2> HIDE DEF L
  <2>3. \A i \in 1 .. Len(L) : i = 1  BY <2>2
  <2>4. 1 \in 1 .. Len(L)  BY <2>2
  <2>5. Once(L) /\ Members(L) = {first[p]}  BY <2>2, <2>3, <2>4 DEF Once, Members
  <2> QED  BY <2>1, <2>2, <2>5 DEF L
<1>9. Short(g) /\ Emptied(g)
  <2>1. 1 <= MaxOwned  BY PlayersAssumption
  <2> QED  BY <1>5, <1>8, <2>1, Places DEF Short, Emptied
<1>10. ASSUME NEW h \in Hero, NEW p \in Present
       PROVE  /\ g.heroHireStatus[h] = p <=> h = first[p]
              /\ g.ownerIdx[h] = p <=> h = first[p]
  <2>1. first[p] \notin Jailed /\ first[p] \in Hero  BY <1>1, <1>2
  <2>2. h = first[p] => g.heroHireStatus[h] = p /\ g.ownerIdx[h] = p
    BY <1>4, <1>5, <2>1
  <2>3. g.heroHireStatus[h] = p \/ g.ownerIdx[h] = p => h = first[p]
    BY <1>3, <1>5, Places
  <2> QED  BY <2>2, <2>3
<1>11. Marked(g, mismarked)
  <2>1. \A h \in Hero, p \in Present : h \in Members(g.heroesOwned[p]) <=> h = first[p]
    BY <1>8
  <2> QED  BY <1>10, <2>1 DEF Marked
<1>12. Penned(g)  BY <1>3, <1>5, Places DEF Penned
<1>13. Open(g)
  <2>1. ASSUME NEW o \in Seated  PROVE Unowned(g, g.heroesForPurchase[o])
    <3>1. /\ offers[o] \in Hero \ Jailed /\ o \in DOMAIN offers
          /\ ~ \E p \in Present : first[p] = offers[o]
      BY <1>1, <1>2, Places
    <3>2. g.heroesForPurchase[o] = offers[o]  BY <1>6, Places
    <3> QED  BY <1>5, <3>1, <3>2 DEF Unowned
  <2>2. \A o \in Offer : g.heroesForPurchase[o] # NoHero => o \in Seated  BY <1>6
  <2> QED  BY <2>1, <2>2, Places DEF Open, Unowned
<1>14. Resting(g)  BY <1>5 DEF Resting
<1>15. cur = 0 /\ mode = "map" /\ at = 0 /\ stray = Free /\ mismarked = {}  BY DEF Init
<1>16. Single(g, mismarked)
  <2>1. \A h \in Hero, p \in Present : h \in Members(g.heroesOwned[p]) <=> h = first[p]
    BY <1>8
  <2> QED  BY <1>8, <1>10, <1>15, <2>1 DEF Single
<1>17. 0 \in 0 .. 2 * MaxPlayers  BY PlayersAssumption
<1> QED
  BY <1>7, <1>9, <1>11, <1>12, <1>13, <1>14, <1>15, <1>16, <1>17, Places DEF IInv, Good

(* The invariant of the next state, from its parts.                         *)
LEMMA Renewed ==
  ASSUME Good(g', mismarked'), Open(g'), Resting(g'),
         mode' # "stolen" => Single(g', mismarked'),
         cur' \in Present, stray' \in {Free, ForHire}, mismarked' \in SUBSET Hero,
         mode' \in {"map", "opening", "town", "week", "stolen"}, at' \in 0 .. 2 * MaxPlayers
  PROVE  IInv'
BY DEF IInv, Good, Typed, Short, Emptied, Penned, Marked, Open, Unowned, Resting, Single

(* A step that leaves the offers alone keeps nobody from waiting.           *)
LEMMA SameOffers ==
  ASSUME g'.heroesForPurchase = g.heroesForPurchase
  PROVE  Waiting
BY DEF Waiting

LEMMA DoorKeeps ==
  ASSUME IInv, OpenTown \/ CloseTown
  PROVE  IInv' /\ Waiting
<1>1. /\ g' = g /\ cur' = cur /\ stray' = stray /\ at' = at /\ mismarked' = mismarked
      /\ mode' \in {"map", "opening"} /\ mode # "stolen"
  BY DEF OpenTown, CloseTown, Moving
<1>2. IInv'
  <2>1. Good(g, mismarked) /\ Open(g) /\ Resting(g) /\ Single(g, mismarked)  BY <1>1 DEF IInv
  <2> QED  BY <1>1, <2>1, Renewed DEF IInv
<1> QED  BY <1>1, <1>2, SameOffers

LEMMA ConsistencyKeeps ==
  ASSUME IInv, CheckHeroConsistency
  PROVE  IInv' /\ Waiting
<1> DEFINE S == StaleOffers(g)
           o == NextOffer(S)
<1>1. /\ cur' = cur /\ stray' = stray /\ mismarked' = mismarked /\ mode = "opening"
      /\ Good(g, mismarked) /\ Open(g) /\ Resting(g) /\ Single(g, mismarked)
  BY DEF CheckHeroConsistency, IInv
<1>2. CASE NoneLeft(S)
  <2>1. g' = g /\ mode' = "town" /\ at' = 0  BY <1>2 DEF CheckHeroConsistency
  <2>2. 0 \in 0 .. 2 * MaxPlayers  BY PlayersAssumption
  <2>3. IInv'  BY <1>1, <2>1, <2>2, Renewed DEF IInv
  <2> QED  BY <2>1, <2>3, SameOffers
<1>3. CASE ~NoneLeft(S)
  <2>1. PICK h \in GetNewHeroId(g.heroHireStatus) : g' = Offered(g, o, h)
    BY <1>3 DEF CheckHeroConsistency
  <2>2. at' = Rank(o) + 1 /\ mode' = mode  BY <1>3 DEF CheckHeroConsistency
  <2>3. S \in SUBSET Seated /\ S \in SUBSET Offer  BY Places DEF StaleOffers
  <2>4. o \in S /\ Rank(o) + 1 \in 0 .. 2 * MaxPlayers
    <3> HIDE DEF S
    <3> QED  BY <1>3, <2>3, NextOfferFacts DEF IInv
  <2>5. g.heroHireStatus[g.heroesForPurchase[o]] # ForHire
    <3> HIDE DEF o
    <3>1. Stale(g, o[1], g.heroesForPurchase[o])  BY <2>4 DEF StaleOffers
    <3>2. g.heroHireStatus[g.heroesForPurchase[o]] \in (0 .. 5) \cup {Free}
      BY <3>1 DEF Stale
    <3> QED  BY <3>2 DEF ForHire, Free
  <2> HIDE DEF o, S
  <2>6. Unowned(g, h)  BY <1>1, <2>1, NewHeroUnowned
  <2>7. o \in Offer  BY <2>3, <2>4
  <2>8. /\ Good(g', mismarked) /\ Resting(g') /\ Single(g', mismarked)
        /\ g'.heroesForPurchase = [g.heroesForPurchase EXCEPT ![o] = h]
        /\ g'.held = g.held /\ g'.playerDead = g.playerDead /\ g'.ownerIdx = g.ownerIdx
        /\ g'.heroesOwned = g.heroesOwned
        /\ g'.heroHireStatus = [g.heroHireStatus EXCEPT ![h] = ForHire]
        /\ \A k : Unowned(g, k) => Unowned(g', k)
    <3> DEFINE y == Offered(g, o, h)
    <3>1. /\ Good(y, mismarked) /\ y.heroesForPurchase = [g.heroesForPurchase EXCEPT ![o] = h]
          /\ y.held = g.held /\ y.playerDead = g.playerDead /\ y.ownerIdx = g.ownerIdx
          /\ y.heroesOwned = g.heroesOwned
          /\ y.heroHireStatus = [g.heroHireStatus EXCEPT ![h] = ForHire]
          /\ \A k : Unowned(g, k) => Unowned(y, k)
          /\ Resting(g) => Resting(y)
          /\ Single(g, mismarked) => Single(y, mismarked)
      BY <1>1, <2>6, <2>7, OfferedFacts
    <3>2. g' = y  BY <2>1
    <3> HIDE DEF y
    <3> QED  BY <1>1, <3>1, <3>2
  <2>9. \A a \in Offer : g'.heroesForPurchase[a] = IF a = o THEN h ELSE g.heroesForPurchase[a]
    BY <1>1, <2>7, <2>8 DEF Good, Typed
  <2>10. Open(g')
    <3>1. \A a \in Seated : Unowned(g', g'.heroesForPurchase[a])
      BY <1>1, <2>6, <2>8, <2>9, Places DEF Open
    <3>2. \A k \in Hero : g'.heroHireStatus[k] = IF k = h THEN ForHire ELSE g.heroHireStatus[k]
      BY <1>1, <2>6, <2>8 DEF Good, Typed, Unowned
    <3>3. \A a \in Offer : g'.heroesForPurchase[a] # NoHero =>
                             g'.heroHireStatus[g'.heroesForPurchase[a]] # InJail
      <4> TAKE a \in Offer
      <4> HAVE g'.heroesForPurchase[a] # NoHero
      <4>1. g'.heroesForPurchase[a] \in Hero  BY <2>8 DEF Good, Typed
      <4> QED  BY <1>1, <2>9, <3>2, <4>1, Places DEF Open
    <3> QED  BY <3>1, <3>3 DEF Open
  <2>11. Waiting
    <3>1. \A p \in Present, v \in {0, 1} : <<p, v>> \in Offer  BY Places
    <3> QED  BY <2>5, <2>9, <3>1 DEF Waiting
  <2>12. IInv'
    <3>1. mode' \in {"map", "opening", "town", "week", "stolen"}  BY <1>1, <2>2
    <3> QED  BY <1>1, <2>2, <2>4, <2>8, <2>10, <3>1, Renewed DEF IInv
  <2> QED  BY <2>11, <2>12
<1> QED  BY <1>2, <1>3

LEMMA RecruitKeeps ==
  ASSUME IInv, NEW v \in {0, 1}, RecruitHero(v)
  PROVE  IInv' /\ Waiting
<1> DEFINE o == <<cur, v>>
           h == g.heroesForPurchase[o]
           w == Join(g, cur, h)
           x == Released(w, {h})
           M == mismarked
<1>1. /\ Good(g, M) /\ Open(g) /\ Resting(g) /\ cur \in Present /\ o \in Offer /\ o \in Seated
      /\ mode = "town" /\ Single(g, M)
  BY Places DEF IInv, RecruitHero, Moving
<1>2. PICK new \in Replacements(Clashing(x), x.heroHireStatus),
           n \in GetNewHeroId(x.heroHireStatus) :
        g' = Offered(CheckedValid(x, new), o, n)
  BY DEF RecruitHero
<1>3. /\ cur' = cur /\ at' = at /\ stray' = stray /\ M' = M
      /\ Len(g.heroesOwned[cur]) < MaxOwned /\ ~g.playerDead[cur]
      /\ mode' = IF h \in M THEN "stolen" ELSE mode
  BY DEF RecruitHero, Taken, Moving
<1> DEFINE c == CheckedValid(x, new)
<1>4. Unowned(g, h)  BY <1>1 DEF Open
<1>5. h \in Hero /\ \A p \in Present : g.heroHireStatus[h] # p  BY <1>4, Places DEF Unowned
<1> HIDE DEF h, M
<1>6. /\ Good(w, M) /\ w.heroesForPurchase = g.heroesForPurchase
      /\ w.held = g.held /\ w.playerDead = g.playerDead
      /\ w.heroHireStatus = [g.heroHireStatus EXCEPT ![h] = cur]
      /\ w.ownerIdx = [g.ownerIdx EXCEPT ![h] = cur]
      /\ \A q \in Present : Members(w.heroesOwned[q]) =
           Members(g.heroesOwned[q]) \cup (IF q = cur THEN {h} ELSE {})
      /\ Single(g, M) /\ h \notin M => Single(w, M)
  BY <1>1, <1>3, <1>5, JoinFacts
<1> HIDE DEF w
<1>7. /\ Good(x, M) /\ x.heroesForPurchase = g.heroesForPurchase
      /\ x.heroHireStatus = [g.heroHireStatus EXCEPT ![h] = cur]
      /\ x.heroesOwned = w.heroesOwned
      /\ \A k \in Hero : x.held[k] <=> k # h /\ g.held[k]
      /\ Single(w, M) => Single(x, M)
  BY <1>6, ReleasedFacts
<1> HIDE DEF x
<1>8. \A k \in Hero : x.heroHireStatus[k] = IF k = h THEN cur ELSE g.heroHireStatus[k]
  BY <1>1, <1>5, <1>7 DEF Good, Typed
<1>9. \A k \in Hero : k \in AllOwned(x) <=>
        k = h \/ \E q \in Present : k \in Members(g.heroesOwned[q])
  <2>1. \A q \in Present : Roster(x, q) = Members(w.heroesOwned[q])
    BY <1>7 DEF Roster, Members
  <2>2. \A k \in Hero : k \in AllOwned(x) <=> \E q \in Present : k \in Members(w.heroesOwned[q])
    BY <2>1 DEF AllOwned
  <2>3. \A k \in Hero, q \in Present : k \in Members(w.heroesOwned[q]) <=>
          k \in Members(g.heroesOwned[q]) \/ (q = cur /\ k = h)
    BY <1>6
  <2> QED  BY <1>1, <2>2, <2>3
<1>10. Resting(x)
  <2> SUFFICES ASSUME NEW k \in Hero, x.held[k]
               PROVE  /\ x.heroHireStatus[k] # InJail
                      /\ \A q \in Present : k \notin Members(x.heroesOwned[q])
    BY DEF Resting
  <2>1. k # h /\ g.held[k]  BY <1>7
  <2>2. /\ g.heroHireStatus[k] # InJail
        /\ \A q \in Present : k \notin Members(g.heroesOwned[q])
    BY <1>1, <2>1 DEF Resting
  <2> QED  BY <1>6, <1>7, <1>8, <2>1, <2>2
<1>11. /\ Good(c, M) /\ c.heroHireStatus = x.heroHireStatus /\ c.held = x.held
       /\ Resting(c)
       /\ \A a \in Offer : c.heroesForPurchase[a] =
            IF a \in Clashing(x) THEN new[a] ELSE x.heroesForPurchase[a]
       /\ \A a \in Clashing(x) : Unowned(x, new[a])
       /\ Single(x, M) => Single(c, M)
  BY <1>2, <1>7, <1>10, CheckedFacts
<1> HIDE DEF c
<1>12. Unowned(c, n)
  BY <1>2, <1>7, <1>11, NewHeroUnowned DEF Unowned
<1>13. /\ Good(g', M) /\ Resting(g')
       /\ g'.heroesForPurchase = [c.heroesForPurchase EXCEPT ![o] = n]
       /\ g'.heroHireStatus = [c.heroHireStatus EXCEPT ![n] = ForHire]
       /\ g'.held = c.held /\ g'.playerDead = c.playerDead /\ g'.ownerIdx = c.ownerIdx
       /\ g'.heroesOwned = c.heroesOwned
       /\ \A k : Unowned(c, k) => Unowned(g', k)
       /\ Single(c, M) => Single(g', M)
  <2> DEFINE y == Offered(c, o, n)
  <2>1. /\ Good(y, M) /\ y.heroesForPurchase = [c.heroesForPurchase EXCEPT ![o] = n]
        /\ y.held = c.held /\ y.playerDead = c.playerDead /\ y.ownerIdx = c.ownerIdx
        /\ y.heroesOwned = c.heroesOwned
        /\ y.heroHireStatus = [c.heroHireStatus EXCEPT ![n] = ForHire]
        /\ \A k : Unowned(c, k) => Unowned(y, k)
        /\ Resting(c) => Resting(y)
        /\ Single(c, M) => Single(y, M)
    BY <1>1, <1>11, <1>12, OfferedFacts
  <2>2. g' = y  BY <1>2 DEF c
  <2> HIDE DEF y
  <2> QED  BY <1>11, <2>1, <2>2
<1>14. \A a \in Offer : g'.heroesForPurchase[a] = IF a = o THEN n ELSE c.heroesForPurchase[a]
  BY <1>11, <1>13 DEF Good, Typed
<1>15. \A k \in Hero : g'.heroHireStatus[k] = IF k = n THEN ForHire ELSE x.heroHireStatus[k]
  BY <1>11, <1>12, <1>13 DEF Good, Typed, Unowned
<1>16. \A a \in Seated : a \in Clashing(x) <=> g.heroesForPurchase[a] \in AllOwned(x)
  BY <1>7, Places DEF Clashing
<1>17. Open(g')
  <2>1. ASSUME NEW a \in Offer, a # o, a \in Clashing(x)
        PROVE  Unowned(g', g'.heroesForPurchase[a])
    <3>1. g'.heroesForPurchase[a] = new[a]  BY <1>11, <1>14, <2>1
    <3>2. Unowned(c, new[a])  BY <1>11, <2>1 DEF Unowned
    <3> QED  BY <1>13, <3>1, <3>2
  <2>2. Unowned(g', g'.heroesForPurchase[o])  BY <1>1, <1>12, <1>13, <1>14
  <2>3. ASSUME NEW a \in Offer, a # o, a \notin Clashing(x)
        PROVE  g'.heroesForPurchase[a] = g.heroesForPurchase[a]
    BY <1>7, <1>11, <1>14, <2>3
  <2>4. ASSUME NEW a \in Seated  PROVE Unowned(g', g'.heroesForPurchase[a])
    <3> DEFINE k == g.heroesForPurchase[a]
    <3>0. a \in Offer  BY Places
    <3>1. CASE a # o /\ a \notin Clashing(x)
      <4>1. Unowned(g, k)  BY <1>1 DEF Open
      <4>2. k \notin AllOwned(x)  BY <1>16, <3>1
      <4>3. g'.heroesForPurchase[a] = k  BY <2>3, <3>0, <3>1
      <4> HIDE DEF k
      <4>4. k # h  BY <1>5, <1>9, <4>2
      <4>5. Unowned(c, k)  BY <1>8, <1>11, <4>1, <4>4 DEF Unowned
      <4> QED  BY <1>13, <4>3, <4>5
    <3> QED  BY <2>1, <2>2, <3>0, <3>1
  <2>5. ASSUME NEW a \in Offer, g'.heroesForPurchase[a] # NoHero
        PROVE  g'.heroHireStatus[g'.heroesForPurchase[a]] # InJail
    <3> DEFINE k == g.heroesForPurchase[a]
    <3>1. CASE a # o /\ a \notin Clashing(x)
      <4>1. g'.heroesForPurchase[a] = k  BY <2>3, <3>1
      <4>2. k \in Hero /\ g.heroHireStatus[k] # InJail
        BY <1>1, <2>5, <4>1 DEF Open, Good, Typed
      <4> HIDE DEF k
      <4> QED  BY <1>1, <1>8, <1>15, <4>1, <4>2, Places
    <3> QED  BY <2>1, <2>2, <3>1, Places DEF Unowned
  <2> QED  BY <2>4, <2>5 DEF Open
<1>18. Waiting
  <2> SUFFICES ASSUME NEW p \in Present, NEW u \in {0, 1},
                      g.held[g.heroesForPurchase[<<p, u>>]]
               PROVE  \/ g'.heroesForPurchase[<<p, u>>] = g.heroesForPurchase[<<p, u>>]
                      \/ ~g'.held[g.heroesForPurchase[<<p, u>>]]
    BY DEF Waiting
  <2> DEFINE k == g.heroesForPurchase[<<p, u>>]
  <2>1. <<p, u>> \in Offer /\ <<p, u>> \in Seated /\ k \in Hero
    BY <1>1, Places DEF Open, Unowned
  <2>2. CASE k = h
    <3>1. ~g'.held[h]  BY <1>5, <1>7, <1>11, <1>13
    <3> QED  BY <2>2, <3>1
  <2>3. CASE k # h
    <3>1. <<p, u>> # o  BY <2>3 DEF h
    <3>2. \A q \in Present : k \notin Members(g.heroesOwned[q])  BY <1>1, <2>1 DEF Resting
    <3>3. k \notin AllOwned(x)  BY <1>9, <2>1, <2>3, <3>2
    <3>4. <<p, u>> \notin Clashing(x)  BY <1>16, <2>1, <3>3
    <3> QED  BY <1>7, <1>11, <1>14, <2>1, <3>1, <3>4
  <2> QED  BY <2>2, <2>3
<1>19. IInv'
  <2>1. mismarked' = mismarked /\ Good(g', mismarked') /\ M = mismarked  BY <1>3, <1>13 DEF M
  <2>2. mode' # "stolen" => Single(g', mismarked')  BY <1>1, <1>3, <1>6, <1>7, <1>11, <1>13, <2>1
  <2>3. mode' \in {"map", "opening", "town", "week", "stolen"}  BY <1>1, <1>3
  <2> QED  BY <1>3, <1>13, <1>17, <2>1, <2>2, <2>3, Renewed DEF IInv
<1> QED  BY <1>18, <1>19

LEMMA ViewKeeps ==
  ASSUME IInv, NEW v \in {0, 1}, ViewHero(v)
  PROVE  IInv' /\ Waiting /\ (mode' # "stolen" => g'.ownerIdx = g.ownerIdx)
<1> DEFINE h == g.heroesForPurchase[<<cur, v>>]
           M == mismarked
<1>1. /\ Good(g, M) /\ Open(g) /\ Resting(g) /\ cur \in Present /\ <<cur, v>> \in Seated
      /\ mode = "town" /\ Single(g, M)
  BY Places DEF IInv, ViewHero, Moving
<1>2. h \in Hero /\ \A p \in Present : g.heroHireStatus[h] # p
  BY <1>1, Places DEF Open, Unowned
<1>3. /\ g' = [g EXCEPT !.ownerIdx[h] = Nobody]
      /\ cur' = cur /\ at' = at /\ stray' = stray /\ M' = M
      /\ mode' = IF h \in M THEN "stolen" ELSE mode
  BY DEF ViewHero, Taken
<1> HIDE DEF h, M
<1>4. /\ DOMAIN g' = DOMAIN g /\ g'.heroesOwned = g.heroesOwned /\ g'.held = g.held
      /\ g'.playerDead = g.playerDead /\ g'.gbRetreatWin = g.gbRetreatWin
      /\ g'.heroesForPurchase = g.heroesForPurchase
      /\ g'.ownerIdx = [g.ownerIdx EXCEPT ![h] = Nobody]
      /\ g'.heroHireStatus = g.heroHireStatus
  BY <1>1, <1>3 DEF Good, Typed
<1>5. Good(g', M)
  <2>1. g'.ownerIdx \in [Hero -> Present \cup {Nobody}]  BY <1>1, <1>4 DEF Good, Typed
  <2>2. Typed(g')  BY <1>1, <1>4, <2>1 DEF Good, Typed
  <2> QED  BY <1>1, <1>4, <2>2 DEF Good, Short, Emptied, Penned, Marked
<1>6. Open(g') /\ Resting(g')  BY <1>1, <1>4 DEF Open, Unowned, Resting
<1>7. ASSUME h \notin M  PROVE g'.ownerIdx = g.ownerIdx /\ Single(g', M)
  <2>1. g.ownerIdx[h] = Nobody  BY <1>1, <1>2, <1>7, Ownerless
  <2>2. g'.ownerIdx = g.ownerIdx  BY <1>1, <1>4, <2>1 DEF Good, Typed
  <2> QED  BY <1>1, <1>4, <2>2 DEF Single
<1>8. Waiting  BY <1>4, SameOffers
<1>9. IInv'
  <2>1. mismarked' = mismarked /\ Good(g', mismarked') /\ M = mismarked  BY <1>3, <1>5 DEF M
  <2>2. mode' # "stolen" => Single(g', mismarked')  BY <1>3, <1>7, <2>1
  <2>3. mode' \in {"map", "opening", "town", "week", "stolen"}  BY <1>1, <1>3
  <2> QED  BY <1>3, <1>6, <2>1, <2>2, <2>3, Renewed DEF IInv
<1> QED  BY <1>3, <1>7, <1>8, <1>9

LEMMA JailKeeps ==
  ASSUME IInv, NEW h \in Hero, JailEvent(h)
  PROVE  IInv' /\ Waiting
<1> DEFINE M == mismarked
<1>1. /\ Good(g, M) /\ Open(g) /\ Resting(g) /\ cur \in Present
      /\ mode = "map" /\ Single(g, M)
  BY DEF IInv, JailEvent, Moving
<1>2. /\ g' = Join(g, cur, h) /\ g.heroHireStatus[h] = InJail
      /\ Len(g.heroesOwned[cur]) < MaxOwned /\ ~g.playerDead[cur]
      /\ cur' = cur /\ mode' = mode /\ at' = at /\ stray' = stray /\ M' = M
  BY DEF JailEvent, Moving
<1>3. h \notin M /\ \A q \in Present : g.heroHireStatus[h] # q
  BY <1>1, <1>2, Places DEF Single
<1> HIDE DEF M
<1>4. /\ Good(g', M) /\ Single(g', M) /\ g'.heroesForPurchase = g.heroesForPurchase
      /\ g'.held = g.held
      /\ g'.heroHireStatus = [g.heroHireStatus EXCEPT ![h] = cur]
      /\ \A q \in Present : Members(g'.heroesOwned[q]) =
           Members(g.heroesOwned[q]) \cup (IF q = cur THEN {h} ELSE {})
  <2> DEFINE y == Join(g, cur, h)
  <2>1. /\ Good(y, M) /\ y.heroesForPurchase = g.heroesForPurchase
        /\ y.held = g.held /\ y.playerDead = g.playerDead
        /\ y.heroHireStatus = [g.heroHireStatus EXCEPT ![h] = cur]
        /\ y.ownerIdx = [g.ownerIdx EXCEPT ![h] = cur]
        /\ \A q \in Present : Members(y.heroesOwned[q]) =
             Members(g.heroesOwned[q]) \cup (IF q = cur THEN {h} ELSE {})
        /\ Single(g, M) /\ h \notin M => Single(y, M)
    BY <1>1, <1>2, <1>3, JoinFacts
  <2>2. g' = y  BY <1>2
  <2> HIDE DEF y
  <2> QED  BY <1>1, <1>3, <2>1, <2>2
<1>5. \A k \in Hero : g'.heroHireStatus[k] = IF k = h THEN cur ELSE g.heroHireStatus[k]
  BY <1>1, <1>4 DEF Good, Typed
<1>6. Open(g')
  <2>1. \A k : Unowned(g, k) => Unowned(g', k)
    BY <1>2, <1>5, Places DEF Unowned
  <2>2. \A a \in Offer : g.heroesForPurchase[a] # NoHero => g.heroesForPurchase[a] \in Hero
    BY <1>1 DEF Good, Typed
  <2>3. cur # InJail  BY <1>1, Places
  <2> QED  BY <1>1, <1>4, <1>5, <2>1, <2>2, <2>3 DEF Open
<1>7. Resting(g')
  <2> SUFFICES ASSUME NEW k \in Hero, g'.held[k]
               PROVE  /\ g'.heroHireStatus[k] # InJail
                      /\ \A q \in Present : k \notin Members(g'.heroesOwned[q])
    BY DEF Resting
  <2>1. /\ g.heroHireStatus[k] # InJail
        /\ \A q \in Present : k \notin Members(g.heroesOwned[q])
    BY <1>1, <1>4 DEF Resting
  <2> QED  BY <1>2, <1>4, <1>5, <2>1
<1>8. Waiting  BY <1>4, SameOffers
<1>9. IInv'
  <2>1. mismarked' = mismarked /\ Good(g', mismarked') /\ Single(g', mismarked')
    BY <1>2, <1>4 DEF M
  <2>2. mode' \in {"map", "opening", "town", "week", "stolen"}  BY <1>1, <1>2
  <2> QED  BY <1>1, <1>2, <1>6, <1>7, <2>1, <2>2, Renewed DEF IInv
<1> QED  BY <1>8, <1>9

(* What a step that takes heroes out of lists leaves of the invariant.      *)
LEMMA Rid ==
  ASSUME IInv, mode # "stolen", Cleared,
         Good(g', mismarked), Single(g', mismarked), Open(g'), Resting(g'),
         cur' \in Present, stray' = stray, mode' \in {"map", "week"}, at' = at
  PROVE  IInv'
<1>1. Good(g', mismarked') /\ Single(g', mismarked')  BY ClearedFacts DEF Cleared
<1>2. mismarked' \in SUBSET Hero  BY DEF Cleared, IInv
<1>3. mode' \in {"map", "opening", "town", "week", "stolen"}  OBVIOUS
<1> QED  BY <1>1, <1>2, <1>3, Renewed DEF IInv

(* A hero leaves the game x, which differs from g in gbRetreatWin at most,  *)
(* and players are out after it.                                            *)
LEMMA LossFacts ==
  ASSUME NEW x, NEW M, Good(x, M), Single(x, M), Open(x), Resting(x),
         NEW p \in Present, NEW h \in Roster(x, p), NEW v \in {0, 1},
         NEW dying \in Losers(Deallocate(x, h, v)),
         x.heroesForPurchase = g.heroesForPurchase, x.held = g.held
  PROVE  LET y == PlayerDead(Deallocate(x, h, v), dying)
         IN  /\ Good(y, M) /\ Single(y, M) /\ Open(y) /\ Resting(y)
             /\ g'.heroesForPurchase = y.heroesForPurchase => Waiting
<1> DEFINE z == Deallocate(x, h, v)
           y == PlayerDead(z, dying)
<1>1. h \in Members(x.heroesOwned[p])  BY DEF Roster, Members
<1>2. /\ Good(z, M) /\ Single(z, M) /\ Open(z) /\ Resting(z)
      /\ h \in Hero /\ x.ownerIdx[h] = p
      /\ z.playerDead = x.playerDead
      /\ z.ownerIdx = [x.ownerIdx EXCEPT ![h] = Nobody]
      /\ z.heroHireStatus[h] \in {Free, ForHire}
      /\ \A k \in Hero : k # h =>
           \/ z.heroHireStatus[k] = x.heroHireStatus[k]
           \/ x.heroHireStatus[k] = ForHire /\ z.heroHireStatus[k] = Free
      /\ \A q \in Present, u \in {0, 1} : Waits(x, z, q, u)
  BY <1>1, DeallocateFacts
<1>3. dying \in SUBSET Present  BY DEF Losers, Living
<1> HIDE DEF z
<1>4. /\ Good(y, M) /\ Single(y, M) /\ Open(y) /\ Resting(y)
      /\ y.heroesForPurchase = z.heroesForPurchase /\ y.held = z.held
  BY <1>2, <1>3, PlayerDeadFacts
<1> HIDE DEF y
<1>5. g'.heroesForPurchase = y.heroesForPurchase => Waiting
  BY <1>2, <1>4 DEF Waiting, Waits
<1> QED  BY <1>4, <1>5 DEF y, z

LEMMA HeroLosesKeeps ==
  ASSUME IInv, NEW p \in Present, NEW h \in Hero, NEW retreated \in BOOLEAN,
         NEW v \in {0, 1}, HeroLoses(p, h, retreated, v)
  PROVE  IInv' /\ Waiting
<1> DEFINE x == [g EXCEPT !.gbRetreatWin = retreated]
           M == mismarked
<1>1. /\ Good(g, M) /\ Open(g) /\ Resting(g) /\ cur \in Present
      /\ mode = "map" /\ Single(g, M)
  BY DEF IInv, HeroLoses, Moving
<1>2. PICK dying \in Losers(Deallocate(x, h, v)) :
        g' = [PlayerDead(Deallocate(x, h, v), dying) EXCEPT !.gbRetreatWin = FALSE]
  BY DEF HeroLoses
<1>3. h \in Roster(g, p) /\ Cleared /\ cur' = cur /\ mode' = mode /\ at' = at /\ stray' = stray
  BY DEF HeroLoses
<1> HIDE DEF M
<1>4. /\ Good(x, M) /\ x.heroesForPurchase = g.heroesForPurchase
      /\ x.held = g.held /\ x.playerDead = g.playerDead
      /\ x.heroesOwned = g.heroesOwned
      /\ x.heroHireStatus = g.heroHireStatus /\ x.ownerIdx = g.ownerIdx
      /\ Open(g) => Open(x)
      /\ Resting(g) => Resting(x)
      /\ Single(g, M) => Single(x, M)
  BY <1>1, SetRetreat
<1> DEFINE y == PlayerDead(Deallocate(x, h, v), dying)
<1> HIDE DEF x
<1>5. h \in Roster(x, p)  BY <1>3, <1>4 DEF Roster
<1>6. /\ Good(y, M) /\ Single(y, M) /\ Open(y) /\ Resting(y)
      /\ g'.heroesForPurchase = y.heroesForPurchase => Waiting
  BY <1>1, <1>4, <1>5, LossFacts
<1>7. g' = [y EXCEPT !.gbRetreatWin = FALSE]  BY <1>2
<1> HIDE DEF y
<1> DEFINE z == [y EXCEPT !.gbRetreatWin = FALSE]
<1>8. /\ Good(z, M) /\ z.heroesForPurchase = y.heroesForPurchase
      /\ z.held = y.held /\ z.playerDead = y.playerDead
      /\ z.heroesOwned = y.heroesOwned
      /\ z.heroHireStatus = y.heroHireStatus /\ z.ownerIdx = y.ownerIdx
      /\ Open(y) => Open(z)
      /\ Resting(y) => Resting(z)
      /\ Single(y, M) => Single(z, M)
  BY <1>6, SetRetreat
<1>9. g' = z  BY <1>7
<1> HIDE DEF z
<1>10. /\ Good(g', M) /\ Single(g', M) /\ Open(g') /\ Resting(g') /\ Waiting
  BY <1>6, <1>8, <1>9
<1>11. IInv'
  <2>1. Good(g', mismarked) /\ Single(g', mismarked)  BY <1>10 DEF M
  <2> QED  BY <1>1, <1>3, <1>10, <2>1, Rid
<1> QED  BY <1>10, <1>11

LEMMA DismissKeeps ==
  ASSUME IInv, NEW h \in Hero, NEW v \in {0, 1}, Dismiss(h, v)
  PROVE  IInv' /\ Waiting
<1>1. /\ Good(g, mismarked) /\ Open(g) /\ Resting(g) /\ cur \in Present
      /\ mode = "map" /\ Single(g, mismarked)
  BY DEF IInv, Dismiss, Moving
<1>2. PICK dying \in Losers(Deallocate(g, h, v)) : g' = PlayerDead(Deallocate(g, h, v), dying)
  BY DEF Dismiss
<1>3. h \in Roster(g, cur) /\ Cleared /\ cur' = cur /\ mode' = mode /\ at' = at /\ stray' = stray
  BY DEF Dismiss
<1> DEFINE y == PlayerDead(Deallocate(g, h, v), dying)
<1>4. /\ Good(y, mismarked) /\ Single(y, mismarked) /\ Open(y) /\ Resting(y)
      /\ g'.heroesForPurchase = y.heroesForPurchase => Waiting
  BY <1>1, <1>3, LossFacts
<1>5. g' = y  BY <1>2
<1> HIDE DEF y
<1>6. /\ Good(g', mismarked) /\ Single(g', mismarked) /\ Open(g') /\ Resting(g') /\ Waiting
  BY <1>4, <1>5
<1> QED  BY <1>1, <1>3, <1>6, Rid

LEMMA TownFallsKeeps ==
  ASSUME IInv, TownFalls
  PROVE  IInv' /\ Waiting
<1>1. /\ Good(g, mismarked) /\ Open(g) /\ Resting(g) /\ cur \in Present
      /\ mode = "map" /\ Single(g, mismarked)
  BY DEF IInv, TownFalls, Moving
<1>2. PICK dying \in Losers(g) : g' = PlayerDead(g, dying)  BY DEF TownFalls
<1>3. Cleared /\ cur' = cur /\ mode' = mode /\ at' = at /\ stray' = stray  BY DEF TownFalls
<1>4. dying \in SUBSET Present  BY DEF Losers, Living
<1> DEFINE y == PlayerDead(g, dying)
<1>5. /\ Good(y, mismarked) /\ Single(y, mismarked) /\ Open(y) /\ Resting(y)
      /\ y.heroesForPurchase = g.heroesForPurchase /\ y.held = g.held
  BY <1>1, <1>4, PlayerDeadFacts
<1>6. g' = y  BY <1>2
<1> HIDE DEF y
<1>7. /\ Good(g', mismarked) /\ Single(g', mismarked) /\ Open(g') /\ Resting(g') /\ Waiting
  BY <1>5, <1>6, SameOffers
<1> QED  BY <1>1, <1>3, <1>7, Rid

LEMMA NextPlayerKeeps ==
  ASSUME IInv, NextPlayer
  PROVE  IInv' /\ Waiting
<1> DEFINE x == Released(g, OfferedTo(g, cur))
           First(S) == CHOOSE p \in S : \A q \in S : p <= q
           later(y) == {p \in Living(y) : p > cur}
           M == mismarked
<1>1. /\ Good(g, M) /\ Open(g) /\ Resting(g) /\ cur \in Present
      /\ mode = "map" /\ Single(g, M)
  BY DEF IInv, NextPlayer
<1> HIDE DEF M
<1>2. /\ Good(x, M) /\ x.heroesForPurchase = g.heroesForPurchase
      /\ x.heroHireStatus = g.heroHireStatus /\ x.playerDead = g.playerDead
      /\ x.heroesOwned = g.heroesOwned /\ x.ownerIdx = g.ownerIdx
      /\ \A h \in Hero : x.held[h] <=> h \notin OfferedTo(g, cur) /\ g.held[h]
      /\ Open(g) => Open(x)
      /\ Resting(g) => Resting(x)
      /\ Single(g, M) => Single(x, M)
  BY <1>1, ReleasedFacts
<1> HIDE DEF x
<1>3. PICK dying \in Losers(x) :
        LET y == PlayerDead(x, dying)
        IN  IF later(y) # {} THEN cur' = First(later(y)) /\ g' = y /\ mode' = "map"
            ELSE /\ cur' = First(Living(y))
                 /\ \/ mode' = "map" /\ g' = Released(y, Hero)
                    \/ mode' = "week" /\ g' = y
  BY DEF NextPlayer, x
<1> DEFINE y == PlayerDead(x, dying)
<1>4. dying \in SUBSET Present /\ dying \subseteq Living(x) /\ dying # Living(x)
  BY DEF Losers, Living
<1>5. /\ Good(y, M) /\ Single(y, M) /\ Open(y) /\ Resting(y)
      /\ y.heroesForPurchase = x.heroesForPurchase
      /\ \A p \in Present : y.playerDead[p] <=> x.playerDead[p] \/ p \in dying
  BY <1>1, <1>2, <1>4, PlayerDeadFacts
<1> HIDE DEF y
<1>6. Living(y) # {} /\ Living(y) \subseteq Present
  BY <1>4, <1>5 DEF Living
<1>7. \A S \in SUBSET Present : S # {} => First(S) \in Present
  <2> TAKE S \in SUBSET Present
  <2> HAVE S # {}
  <2>1. S \in SUBSET (0 .. NumPlayers) /\ NumPlayers \in Nat
    BY PlayersAssumption DEF Present
  <2>2. \E p \in S : \A q \in S : p <= q  BY <2>1, Smallest
  <2> QED  BY <2>2
<1>8. later(y) \in SUBSET Present /\ Living(y) \in SUBSET Present  BY <1>6
<1>9. cur' \in Present
  <2> HIDE DEF First, later
  <2> QED  BY <1>3, <1>6, <1>7, <1>8 DEF y
<1>10. mode' \in {"map", "week"} /\ (g' = y \/ g' = Released(y, Hero))
  <2> HIDE DEF First, later
  <2> QED  BY <1>3 DEF y
<1>11. /\ Good(g', M) /\ Single(g', M) /\ Open(g') /\ Resting(g')
       /\ g'.heroesForPurchase = g.heroesForPurchase
  <2>1. CASE g' = y  BY <1>2, <1>5, <2>1
  <2>2. CASE g' = Released(y, Hero)
    <3> DEFINE z == Released(y, Hero)
    <3>1. /\ Good(z, M) /\ z.heroesForPurchase = y.heroesForPurchase
          /\ z.heroHireStatus = y.heroHireStatus /\ z.playerDead = y.playerDead
          /\ z.heroesOwned = y.heroesOwned /\ z.ownerIdx = y.ownerIdx
          /\ \A h \in Hero : z.held[h] <=> h \notin Hero /\ y.held[h]
          /\ Open(y) => Open(z)
          /\ Resting(y) => Resting(z)
          /\ Single(y, M) => Single(z, M)
      BY <1>5, ReleasedFacts
    <3>2. g' = z  BY <2>2
    <3> HIDE DEF z
    <3> QED  BY <1>2, <1>5, <3>1, <3>2
  <2> QED  BY <1>10, <2>1, <2>2
<1>12. Cleared /\ at' = at /\ stray' = stray  BY DEF NextPlayer
<1>13. Good(g', mismarked) /\ Single(g', mismarked)  BY <1>11 DEF M
<1> QED  BY <1>1, <1>9, <1>10, <1>11, <1>12, <1>13, Rid, SameOffers

LEMMA PerWeekKeeps ==
  ASSUME IInv, PerWeek
  PROVE  /\ IInv' /\ Waiting
         /\ g'.ownerIdx = g.ownerIdx /\ g'.playerDead = g.playerDead
         /\ \A k \in Hero : g'.heroHireStatus[k] = InJail <=> g.heroHireStatus[k] = InJail
         /\ \A k \in mismarked' \ mismarked :
              \E o \in Offer \ Seated : g.heroesForPurchase[o] = k
<1> DEFINE o == NextOffer(Unhired)
           h == g.heroesForPurchase[o]
<1>1. /\ Good(g, mismarked) /\ Open(g) /\ Resting(g) /\ mode = "week"
      /\ Single(g, mismarked)
  BY DEF IInv, PerWeek
<1>2. Unhired \in SUBSET Offer  BY DEF Unhired
<1>3. o \in Unhired /\ Rank(o) + 1 \in 0 .. 2 * MaxPlayers
  BY <1>2, NextOfferFacts DEF PerWeek, IInv
<1>4. PICK n \in GetNewHeroId(g.heroHireStatus) :
        LET x == [g EXCEPT !.heroesForPurchase[o] = n]
        IN  IF h = NoHero THEN g' = x /\ stray' = ForHire /\ UNCHANGED mismarked
            ELSE /\ g' = [x EXCEPT !.heroHireStatus[h] = ForHire]
                 /\ mismarked' = mismarked \cup ({h} \cap AllOwned(g))
                 /\ UNCHANGED stray
  BY Zenon DEF PerWeek
<1>5. at' = Rank(o) + 1 /\ cur' = cur /\ mode' = mode  BY DEF PerWeek
<1> HIDE DEF o
<1>6. o \in Offer /\ h \in Hero \cup {NoHero}  BY <1>1, <1>2, <1>3 DEF Good, Typed
<1>7. h \in Hero => g.heroHireStatus[h] # ForHire
  <2>1. HireStatus(h) # ForHire  BY <1>3 DEF Unhired
  <2> QED  BY <2>1, Places DEF HireStatus
<1>8. Unowned(g, n)  BY <1>1, <1>4, NewHeroUnowned
<1>9. o \in Seated => Unowned(g, h)  BY <1>1 DEF Open
<1>10. h \in Hero => g.heroHireStatus[h] # InJail  BY <1>1, <1>6, Places DEF Open
<1> HIDE DEF h
<1>11. /\ DOMAIN g' = DOMAIN g /\ g'.heroesOwned = g.heroesOwned /\ g'.held = g.held
       /\ g'.playerDead = g.playerDead /\ g'.gbRetreatWin = g.gbRetreatWin
       /\ g'.heroesForPurchase = [g.heroesForPurchase EXCEPT ![o] = n]
       /\ g'.ownerIdx = g.ownerIdx
       /\ g'.heroHireStatus =
            IF h = NoHero THEN g.heroHireStatus ELSE [g.heroHireStatus EXCEPT ![h] = ForHire]
  <2>1. CASE h = NoHero  BY <1>1, <1>4, <2>1 DEF Good, Typed
  <2>2. CASE h # NoHero  BY <1>1, <1>4, <2>2 DEF Good, Typed
  <2> QED  BY <2>1, <2>2
<1>12. /\ \A k \in Hero : g'.heroHireStatus[k] = IF k = h THEN ForHire ELSE g.heroHireStatus[k]
       /\ \A a \in Offer : g'.heroesForPurchase[a] = IF a = o THEN n ELSE g.heroesForPurchase[a]
  BY <1>1, <1>6, <1>11, Places DEF Good, Typed
<1>13. /\ \A k \in Hero : k \in mismarked' <=>
            k \in mismarked \/ (k = h /\ \E p \in Present : k \in Members(g.heroesOwned[p]))
       /\ mismarked' \in SUBSET Hero
       /\ stray' \in {Free, ForHire}
  <2>1. \A k : k \in AllOwned(g) <=> \E p \in Present : k \in Members(g.heroesOwned[p])
    BY DEF AllOwned, Roster, Members
  <2>2. CASE h = NoHero  BY <1>4, <2>2, Places DEF IInv
  <2>3. CASE h # NoHero  BY <1>4, <1>6, <2>1, <2>3 DEF IInv
  <2> QED  BY <2>2, <2>3
<1>14. Typed(g')
  <2>1. g'.heroesForPurchase \in [Offer -> Hero \cup {NoHero}]
    <3>1. n \in Hero  BY <1>8 DEF Unowned
    <3> QED  BY <1>1, <1>6, <1>11, <3>1 DEF Good, Typed
  <2>2. g'.heroHireStatus \in [Hero -> Present \cup {Free, ForHire, InJail}]
    BY <1>1, <1>6, <1>11 DEF Good, Typed
  <2> QED  BY <1>1, <1>11, <2>1, <2>2 DEF Good, Typed
<1>15. Short(g') /\ Emptied(g')  BY <1>1, <1>11 DEF Good, Short, Emptied
<1>16. Penned(g')  BY <1>1, <1>12, Places DEF Good, Penned
<1>17. Marked(g', mismarked')
  <2> SUFFICES ASSUME NEW k \in Hero, NEW q \in Present
               PROVE  /\ g'.heroHireStatus[k] = q => k \in Members(g.heroesOwned[q])
                      /\ k \in Members(g.heroesOwned[q]) =>
                           k \in mismarked' \/ g'.heroHireStatus[k] = q
    BY <1>11 DEF Marked
  <2>1. /\ g.heroHireStatus[k] = q => k \in Members(g.heroesOwned[q])
        /\ k \in Members(g.heroesOwned[q]) => k \in mismarked \/ g.heroHireStatus[k] = q
    BY <1>1 DEF Good, Marked
  <2> QED  BY <1>12, <1>13, <2>1, Places
<1>18. Open(g')
  <2>1. \A k : Unowned(g, k) => Unowned(g', k)  BY <1>12 DEF Unowned
  <2>2. \A k \in Hero : g.heroHireStatus[k] # InJail => g'.heroHireStatus[k] # InJail
    BY <1>12, Places
  <2>3. \A a \in Seated : Unowned(g', g'.heroesForPurchase[a])
    BY <1>1, <1>8, <1>12, <2>1, Places DEF Open
  <2>4. \A a \in Offer : g'.heroesForPurchase[a] # NoHero =>
                           g'.heroHireStatus[g'.heroesForPurchase[a]] # InJail
    <3> TAKE a \in Offer
    <3> HAVE g'.heroesForPurchase[a] # NoHero
    <3>1. g'.heroesForPurchase[a] \in Hero  BY <1>14 DEF Typed
    <3>2. g'.heroesForPurchase[a] = n \/ g'.heroesForPurchase[a] = g.heroesForPurchase[a]
      BY <1>12
    <3>3. g.heroHireStatus[n] # InJail  BY <1>8, Places DEF Unowned
    <3> QED  BY <1>1, <2>2, <3>1, <3>2, <3>3 DEF Open
  <2> QED  BY <2>3, <2>4 DEF Open
<1>19. Resting(g')
  <2>1. \A k \in Hero : g.heroHireStatus[k] # InJail => g'.heroHireStatus[k] # InJail
    BY <1>12, Places
  <2> QED  BY <1>1, <1>11, <2>1 DEF Resting
<1>20. Single(g', mismarked')
  <2>1. \A k \in Hero : k \in mismarked' => g'.heroHireStatus[k] \in {Free, ForHire}
    BY <1>1, <1>12, <1>13 DEF Single
  <2> QED  BY <1>1, <1>11, <2>1 DEF Single
<1>21. Waiting
  <2> SUFFICES ASSUME NEW p \in Present, NEW u \in {0, 1},
                      g.heroHireStatus[g.heroesForPurchase[<<p, u>>]] = ForHire
               PROVE  g'.heroesForPurchase[<<p, u>>] = g.heroesForPurchase[<<p, u>>]
    BY DEF Waiting
  <2>1. <<p, u>> \in Offer /\ g.heroesForPurchase[<<p, u>>] \in Hero
    BY <1>1, Places DEF Open, Unowned
  <2>2. <<p, u>> # o  BY <1>7, <2>1 DEF h
  <2> QED  BY <1>12, <2>1, <2>2
<1>22. IInv'
  <2>1. Good(g', mismarked')  BY <1>14, <1>15, <1>16, <1>17 DEF Good
  <2>2. mode' \in {"map", "opening", "town", "week", "stolen"}  BY <1>1, <1>5
  <2> QED  BY <1>3, <1>5, <1>13, <1>18, <1>19, <1>20, <2>1, <2>2, Renewed DEF IInv
<1>23. \A k \in Hero : g'.heroHireStatus[k] = InJail <=> g.heroHireStatus[k] = InJail
  BY <1>10, <1>12, Places
<1>24. ASSUME NEW k \in mismarked' \ mismarked
       PROVE  \E a \in Offer \ Seated : g.heroesForPurchase[a] = k
  <2>1. /\ k \in Hero /\ k = h /\ k \notin mismarked
        /\ \E p \in Present : k \in Members(g.heroesOwned[p])
    BY <1>13
  <2>2. \E p \in Present : g.heroHireStatus[k] = p  BY <1>1, <2>1 DEF Good, Marked
  <2>3. ~Unowned(g, h)  BY <2>1, <2>2, Places DEF Unowned
  <2> QED  BY <1>6, <1>9, <2>1, <2>3 DEF h
<1> QED  BY <1>11, <1>21, <1>22, <1>23, <1>24

LEMMA EndPerDayKeeps ==
  ASSUME IInv, EndPerDay
  PROVE  IInv' /\ Waiting
<1>1. /\ g' = Released(g, Hero) /\ mode' = "map" /\ at' = 0 /\ cur' = cur /\ stray' = stray
      /\ mismarked' = mismarked
  BY DEF EndPerDay
<1>2. Good(g, mismarked) /\ Open(g) /\ Resting(g) /\ Single(g, mismarked)
  BY DEF IInv, EndPerDay
<1> DEFINE z == Released(g, Hero)
<1>3. /\ Good(z, mismarked) /\ z.heroesForPurchase = g.heroesForPurchase
      /\ z.heroHireStatus = g.heroHireStatus /\ z.playerDead = g.playerDead
      /\ z.heroesOwned = g.heroesOwned /\ z.ownerIdx = g.ownerIdx
      /\ \A h \in Hero : z.held[h] <=> h \notin Hero /\ g.held[h]
      /\ Open(g) => Open(z)
      /\ Resting(g) => Resting(z)
      /\ Single(g, mismarked) => Single(z, mismarked)
  BY <1>2, ReleasedFacts
<1>4. g' = z  BY <1>1
<1> HIDE DEF z
<1>5. 0 \in 0 .. 2 * MaxPlayers  BY PlayersAssumption
<1>6. IInv'
  BY <1>1, <1>2, <1>3, <1>4, <1>5, Renewed DEF IInv
<1> QED  BY <1>3, <1>4, <1>6, SameOffers

LEMMA ArtifactKeeps ==
  ASSUME IInv, LastArtifact
  PROVE  IInv' /\ Waiting
<1>1. /\ g' = g /\ cur' = cur /\ mode' = mode /\ at' = at /\ mismarked' = mismarked
      /\ stray' = Free
  BY DEF LastArtifact
<1>2. IInv'
  <2>1. /\ Good(g, mismarked) /\ Open(g) /\ Resting(g)
        /\ mode # "stolen" => Single(g, mismarked)
    BY DEF IInv
  <2> QED  BY <1>1, <2>1, Renewed DEF IInv
<1> QED  BY <1>1, <1>2, SameOffers

LEMMA StutterKeeps ==
  ASSUME IInv, UNCHANGED vars
  PROVE  IInv'
BY DEF vars, IInv, Good, Typed, Short, Emptied, Penned, Marked, Open, Unowned, Resting, Single

LEMMA NextKeeps ==
  ASSUME IInv, Next
  PROVE  IInv' /\ Waiting
<1>1. CASE InTown
  BY <1>1, DoorKeeps, ConsistencyKeeps, RecruitKeeps, ViewKeeps DEF InTown
<1>2. CASE OnMap
  <2>1. ASSUME NEW p \in Present, NEW h \in Hero, NEW retreated \in BOOLEAN,
               NEW v \in {0, 1}, HeroLoses(p, h, retreated, v)
        PROVE  IInv' /\ Waiting
    BY <2>1, HeroLosesKeeps
  <2> QED  BY <1>2, <2>1, JailKeeps, DismissKeeps, TownFallsKeeps, ArtifactKeeps DEF OnMap
<1>3. CASE AfterTheft
  BY <1>3, StutterKeeps, SameOffers DEF AfterTheft, vars
<1> QED  BY <1>1, <1>2, <1>3, NextPlayerKeeps, PerWeekKeeps, EndPerDayKeeps DEF Next

THEOREM Invariant == Spec => []IInv
<1>1. Init => IInv  BY InitIInv
<1>2. IInv /\ [Next]_vars => IInv'  BY NextKeeps, StutterKeeps
<1> QED  BY <1>1, <1>2, PTL DEF Spec
-----------------------------------------------------------------------------
(***************************************************************************)
(* What follows from the invariant.                                        *)
(***************************************************************************)

(* Owners, offers and marks keep their types, and everybody who plays is    *)
(* offered two heroes, with any number of unused places.                    *)
THEOREM TypesCorrect == Spec => []TypeOK
<1>1. IInv => TypeOK
  <2> SUFFICES ASSUME IInv  PROVE TypeOK  OBVIOUS
  <2>1. Typed(g) /\ Open(g)  BY DEF IInv, Good
  <2>2. \A o \in Present \X {0, 1} : g.heroesForPurchase[o] # NoHero
    BY <2>1, Places DEF Open, Unowned
  <2> QED  BY <2>1, <2>2 DEF Typed, TypeOK, IInv
<1> QED  BY <1>1, Invariant, PTL

(* A hero is in one list, once, and no list outgrows the array heroesOwned: *)
(* Join and Without, over all hirings, battles and deaths of players, until *)
(* somebody takes a mismarked hero.                                         *)
THEOREM OwnedOnceCorrect == Spec => []OwnedOnce
<1>1. IInv => OwnedOnce
  <2> SUFFICES ASSUME IInv, mode # "stolen"  PROVE OwnedOnce  BY DEF OwnedOnce
  <2>1. Short(g) /\ Typed(g) /\ Single(g, mismarked)  BY DEF IInv, Good
  <2>2. \A p \in Present :
          Roster(g, p) = Members(g.heroesOwned[p]) /\ Roster(g, p) \subseteq Hero
    BY <2>1, Places DEF Roster, Members, Typed
  <2>3. \A p, q \in Present : p # q => Roster(g, p) \cap Roster(g, q) = {}
    BY <2>1, <2>2 DEF Single
  <2> QED  BY <2>1, <2>3 DEF OwnedOnce, Short, Single, Once
<1> QED  BY <1>1, Invariant, PTL

(* The list and the owner of a hero say the same, although different        *)
(* functions write them, and so does his mark unless PerWeek mismarked him, *)
(* until somebody takes such a hero.                                        *)
THEOREM StatusCorrect == Spec => []StatusMatches
<1>1. IInv => StatusMatches
  <2> SUFFICES ASSUME IInv, mode # "stolen"  PROVE StatusMatches  BY DEF StatusMatches
  <2>1. Good(g, mismarked) /\ Single(g, mismarked)  BY DEF IInv
  <2>2. \A p \in Present : Roster(g, p) = Members(g.heroesOwned[p])
    BY DEF Roster, Members
  <2> QED  BY <2>1, <2>2 DEF Good, Marked, Single, StatusMatches
<1> QED  BY <1>1, Invariant, PTL

(* Nobody who plays is ever offered a prisoner, or an owned hero who is not *)
(* mismarked, because GetNewHeroId never runs out of others.                *)
THEOREM OffersCorrect == Spec => []OffersFree
<1>1. IInv => OffersFree
  <2> SUFFICES ASSUME IInv, NEW o \in Present \X {0, 1}
               PROVE  LET h == g.heroesForPurchase[o]
                      IN  /\ h \in AllOwned(g) => h \in mismarked
                          /\ g.heroHireStatus[h] \in {Free, ForHire}
    BY DEF OffersFree
  <2> DEFINE h == g.heroesForPurchase[o]
  <2>1. Good(g, mismarked) /\ Unowned(g, h)  BY Places DEF IInv, Open
  <2> HIDE DEF h
  <2>2. h \notin mismarked => \A p \in Present : h \notin Members(g.heroesOwned[p])
    <3>1. h \in Hero /\ \A p \in Present : g.heroHireStatus[h] # p
      BY <2>1, Places DEF Unowned
    <3> QED  BY <2>1, <3>1, Ownerless
  <2>3. h \in AllOwned(g) => h \in mismarked  BY <2>2 DEF AllOwned, Roster, Members
  <2> QED  BY <2>1, <2>3 DEF Unowned, h
<1> QED  BY <1>1, Invariant, PTL

(* A hero who retreated waits on offer until he is hired, the turn ends, or *)
(* both offers are such heroes (Deallocate, CheckHeroConsistency, PerWeek), *)
(* however many places are unused.                                          *)
THEOREM RetreatedCorrect == Spec => RetreatedWaits
<1>1. IInv /\ [Next]_vars => [Waiting]_vars  BY NextKeeps
<1>2. RetreatedWaits <=> [][Waiting]_vars  BY DEF RetreatedWaits, Waiting
<1> QED  BY <1>1, <1>2, Invariant, PTL DEF Spec

(* A player who is out has no heroes left, and gets none.                   *)
DeadOwnNobody == \A p \in Present : g.playerDead[p] => Roster(g, p) = {}

(* PlayerDead leaves a player no hero, and nothing gives him one later.     *)
THEOREM DeadOwnNobodyCorrect == Spec => []DeadOwnNobody
<1>1. IInv => DeadOwnNobody
  BY DEF IInv, Good, Emptied, DeadOwnNobody, Roster
<1> QED  BY <1>1, Invariant, PTL

(* The heroes who become mismarked were on the offers of unused places.     *)
BlameUnused ==
  \A h \in mismarked' \ mismarked :
    \E o \in Offer \ (Present \X {0, 1}) : g.heroesForPurchase[o] = h

(* PerWeek mismarks only a hero whom an unused place offered: its condition *)
(* is wrong for all offers, but those of players who play never hold a hero *)
(* who is owned and bears his owner's mark.                                 *)
THEOREM MismarkedByUnused == Spec => [][BlameUnused]_vars
<1>1. ASSUME IInv, Next  PROVE BlameUnused
  <2>1. mismarked' \subseteq mismarked => BlameUnused  BY DEF BlameUnused
  <2>2. CASE PerWeek  BY <2>2, <1>1, PerWeekKeeps, Places DEF BlameUnused
  <2>3. CASE ~PerWeek
    <3>1. mismarked' \subseteq mismarked
      BY <1>1, <2>3
      DEF Next, InTown, OnMap, OpenTown, CheckHeroConsistency, CloseTown, RecruitHero, ViewHero,
          JailEvent, HeroLoses, Dismiss, TownFalls, LastArtifact, NextPlayer, EndPerDay,
          AfterTheft, Cleared, vars
    <3> QED  BY <2>1, <3>1
  <2> QED  BY <2>2, <2>3
<1>2. IInv /\ [Next]_vars => [BlameUnused]_vars  BY <1>1
<1> QED  BY <1>2, Invariant, PTL DEF Spec

(* When all places are taken nobody is ever mismarked, so nobody takes what *)
(* is another's and lists, owners and marks always say the same.            *)
NoTheft == mismarked = {} /\ mode # "stolen"

THEOREM FullTableSafe ==
  ASSUME NumPlayers = MaxPlayers
  PROVE  Spec => []NoTheft
<1>1. Init => NoTheft  BY DEF Init, NoTheft
<1>2. Offer \ (Present \X {0, 1}) = {}  BY DEF Offer, Present, Player
<1>3. NoTheft /\ [Next]_vars /\ [BlameUnused]_vars => NoTheft'
  <2> SUFFICES ASSUME NoTheft, [Next]_vars, [BlameUnused]_vars  PROVE NoTheft'
    OBVIOUS
  <2>1. mismarked' = {}  BY <1>2 DEF NoTheft, BlameUnused, vars
  <2>2. mode' # "stolen"
    BY DEF NoTheft, vars, Next, InTown, OnMap, OpenTown, CheckHeroConsistency, CloseTown,
           RecruitHero, ViewHero, Taken, JailEvent, HeroLoses, Dismiss, TownFalls, LastArtifact,
           NextPlayer, PerWeek, EndPerDay, AfterTheft
  <2> QED  BY <2>1, <2>2 DEF NoTheft
<1> QED  BY <1>1, <1>3, MismarkedByUnused, PTL DEF Spec
-----------------------------------------------------------------------------
(***************************************************************************)
(* HeroOwners.  Whom a hero serves is his ownerIdx; the marks of those who *)
(* have no owner only say who is in jail.  Offering, and marking for hire, *)
(* is no step at all; so each function is described by whom it leaves      *)
(* every hero with.                                                        *)
(***************************************************************************)

PostOf(x) ==
  [h \in Hero |-> IF x.ownerIdx[h] # Nobody THEN x.ownerIdx[h]
                  ELSE IF x.heroHireStatus[h] = InJail THEN InJail ELSE Free]
OutOf(x) == {p \in Present : x.playerDead[p]}

Owners == INSTANCE HeroOwners WITH post <- PostOf(g), fallen <- OutOf(g), turn <- cur
ImplementsOwners == Owners!Spec
Stolen == mode = "stolen"

LEMMA PostFacts ==
  ASSUME NEW x, NEW M, Good(x, M), Single(x, M)
  PROVE  /\ \A h \in Hero, p \in Present :
              /\ PostOf(x)[h] = p <=> x.ownerIdx[h] = p
              /\ PostOf(x)[h] = p <=> h \in Members(x.heroesOwned[p])
         /\ PostOf(x) \in [Hero -> Present \cup {Free, InJail}]
<1>1. \A h \in Hero : x.ownerIdx[h] \in Present \cup {Nobody}  BY DEF Good, Typed
<1>2. \A h \in Hero : PostOf(x)[h] =
        IF x.ownerIdx[h] # Nobody THEN x.ownerIdx[h]
        ELSE IF x.heroHireStatus[h] = InJail THEN InJail ELSE Free
  BY DEF PostOf
<1>3. \A h \in Hero, p \in Present : PostOf(x)[h] = p <=> x.ownerIdx[h] = p
  BY <1>1, <1>2, Places
<1>4. PostOf(x) \in [Hero -> Present \cup {Free, InJail}]  BY <1>1 DEF PostOf
<1> QED  BY <1>3, <1>4 DEF Single

(* Who has no owner and no mark of a jail is idle; and who is in jail has   *)
(* no owner.                                                                *)
LEMMA IdleFacts ==
  ASSUME NEW x, NEW M, Good(x, M), Single(x, M), NEW h \in Hero
  PROVE  /\ h \notin M /\ x.heroHireStatus[h] \in {Free, ForHire} => PostOf(x)[h] = Free
         /\ x.heroHireStatus[h] = InJail <=> PostOf(x)[h] = InJail
<1>1. h \notin M /\ (\A p \in Present : x.heroHireStatus[h] # p) => x.ownerIdx[h] = Nobody
  BY Ownerless
<1>2. PostOf(x)[h] =
        IF x.ownerIdx[h] # Nobody THEN x.ownerIdx[h]
        ELSE IF x.heroHireStatus[h] = InJail THEN InJail ELSE Free
  BY DEF PostOf
<1>3. h \in M => x.heroHireStatus[h] \in {Free, ForHire}  BY DEF Single
<1>4. x.ownerIdx[h] \in Present \cup {Nobody}  BY DEF Good, Typed
<1> QED  BY <1>1, <1>2, <1>3, <1>4, Places

(* Who fills his list in HeroOwners fills it in the code.                   *)
LEMMA ServingFits ==
  ASSUME NEW x, NEW M, Good(x, M), Single(x, M), NEW p \in Present,
         Len(x.heroesOwned[p]) < MaxOwned
  PROVE  Cardinality({h \in Hero : PostOf(x)[h] = p}) < MaxOwned
<1> DEFINE L == x.heroesOwned[p]
           S == {h \in Hero : PostOf(x)[h] = p}
           I == 1 .. Len(L)
           f == [i \in I |-> L[i]]
<1>1. L \in Seq(Hero) /\ Len(L) \in Nat  BY Places DEF Good, Typed
<1>2. S = Members(L)
  <2>1. Members(L) \subseteq Hero  BY <1>1 DEF Members
  <2> QED  BY <2>1, PostFacts
<1>3. IsFiniteSet(I) /\ Cardinality(I) = Len(L)
  <2>1. 1 \in Int /\ Len(L) \in Int  BY <1>1
  <2>2. IsFiniteSet(1 .. Len(L)) /\ Cardinality(1 .. Len(L)) = IF 1 > Len(L) THEN 0 ELSE Len(L) - 1 + 1
    BY <2>1, FS_Interval
  <2> QED  BY <1>1, <2>2
<1>4. f \in Surjection(I, S)
  BY <1>2 DEF Surjection, Members
<1> HIDE DEF f, S, I
<1>5. IsFiniteSet(S) /\ Cardinality(S) <= Cardinality(I)  BY <1>3, <1>4, FS_Surjection
<1>6. Cardinality(S) \in Nat  BY <1>5, FS_CardinalityType
<1>7. Cardinality(S) < MaxOwned  BY <1>1, <1>3, <1>5, <1>6, PlayersAssumption DEF L
<1> QED  BY <1>7 DEF S

(* What HeroOwners sees of a game depends on the owners, the jails and the  *)
(* players who are out.                                                     *)
LEMMA SameView ==
  ASSUME NEW x, NEW y
  PROVE  /\ /\ x.ownerIdx = y.ownerIdx
            /\ \A h \in Hero : x.heroHireStatus[h] = InJail <=> y.heroHireStatus[h] = InJail
            => PostOf(x) = PostOf(y)
         /\ x.playerDead = y.playerDead => OutOf(x) = OutOf(y)
BY DEF PostOf, OutOf

LEMMA JoinPost ==
  ASSUME NEW x, NEW y, NEW p \in Present, NEW h \in Hero, NEW M, Good(x, M),
         y.heroHireStatus = [x.heroHireStatus EXCEPT ![h] = p],
         y.ownerIdx = [x.ownerIdx EXCEPT ![h] = p]
  PROVE  PostOf(y) = [PostOf(x) EXCEPT ![h] = p]
<1>1. \A k \in Hero : /\ y.ownerIdx[k] = IF k = h THEN p ELSE x.ownerIdx[k]
                      /\ y.heroHireStatus[k] = IF k = h THEN p ELSE x.heroHireStatus[k]
  BY DEF Good, Typed
<1> QED  BY <1>1, Places DEF PostOf

LEMMA DeallocatePost ==
  ASSUME NEW x, NEW M, Good(x, M), Single(x, M), Open(x), Resting(x), NEW p \in Present,
         NEW h \in Members(x.heroesOwned[p]), NEW v \in {0, 1}
  PROVE  /\ h \in Hero /\ PostOf(x)[h] = p
         /\ PostOf(Deallocate(x, h, v)) = [PostOf(x) EXCEPT ![h] = Free]
         /\ OutOf(Deallocate(x, h, v)) = OutOf(x)
         /\ Good(Deallocate(x, h, v), M) /\ Single(Deallocate(x, h, v), M)
         /\ Open(Deallocate(x, h, v)) /\ Resting(Deallocate(x, h, v))
<1> DEFINE z == Deallocate(x, h, v)
<1>1. /\ Good(z, M) /\ Single(z, M) /\ Open(z) /\ Resting(z)
      /\ h \in Hero /\ x.ownerIdx[h] = p
      /\ z.playerDead = x.playerDead
      /\ z.ownerIdx = [x.ownerIdx EXCEPT ![h] = Nobody]
      /\ z.heroHireStatus[h] \in {Free, ForHire}
      /\ \A k \in Hero : k # h =>
           \/ z.heroHireStatus[k] = x.heroHireStatus[k]
           \/ x.heroHireStatus[k] = ForHire /\ z.heroHireStatus[k] = Free
      /\ \A q \in Present, u \in {0, 1} : Waits(x, z, q, u)
  BY DeallocateFacts
<1> HIDE DEF z
<1>2. \A k \in Hero : z.ownerIdx[k] = IF k = h THEN Nobody ELSE x.ownerIdx[k]
  BY <1>1 DEF Good, Typed
<1>3. \A k \in Hero : PostOf(z)[k] = IF k = h THEN Free ELSE PostOf(x)[k]
  BY <1>1, <1>2, Places DEF PostOf
<1>4. DOMAIN PostOf(x) = Hero /\ PostOf(z) = [k \in Hero |-> PostOf(z)[k]]  BY DEF PostOf
<1>5. PostOf(z) = [PostOf(x) EXCEPT ![h] = Free]  BY <1>3, <1>4
<1>6. PostOf(x)[h] = p  BY <1>1, PostFacts
<1>7. OutOf(z) = OutOf(x)  BY <1>1, SameView
<1> QED  BY <1>1, <1>5, <1>6, <1>7 DEF z

LEMMA PlayerDeadPost ==
  ASSUME NEW x, NEW M, Good(x, M), Single(x, M), Open(x), Resting(x),
         NEW dying \in SUBSET Present
  PROVE  /\ PostOf(PlayerDead(x, dying)) = Owners!Deposed(PostOf(x), dying)
         /\ OutOf(PlayerDead(x, dying)) = OutOf(x) \cup dying
<1> DEFINE y == PlayerDead(x, dying)
<1>1. /\ Good(y, M) /\ Single(y, M) /\ Open(y) /\ Resting(y)
      /\ y.heroesForPurchase = x.heroesForPurchase /\ y.held = x.held
      /\ \A p \in Present : y.playerDead[p] <=> x.playerDead[p] \/ p \in dying
      /\ \A h \in Hero : y.ownerIdx[h] = IF x.ownerIdx[h] \in dying THEN Nobody ELSE x.ownerIdx[h]
      /\ \A h \in Hero : y.heroHireStatus[h] = InJail <=>
                           x.heroHireStatus[h] = InJail /\ x.ownerIdx[h] \notin dying
  BY PlayerDeadFacts
<1> HIDE DEF y
<1>2. \A h \in Hero : PostOf(x)[h] \in dying <=> x.ownerIdx[h] \in dying
  <2>1. \A h \in Hero, p \in dying : PostOf(x)[h] = p <=> x.ownerIdx[h] = p
    BY PostFacts
  <2> QED  BY <2>1
<1>3. \A h \in Hero : PostOf(y)[h] = IF PostOf(x)[h] \in dying THEN Free ELSE PostOf(x)[h]
  <2> TAKE h \in Hero
  <2>1. x.ownerIdx[h] \in Present \cup {Nobody} /\ Nobody \notin dying
    BY Places DEF Good, Typed
  <2>2. x.ownerIdx[h] \in dying => x.heroHireStatus[h] # InJail
    <3>1. x.heroHireStatus[h] = InJail => PostOf(x)[h] = InJail  BY IdleFacts
    <3> QED  BY <1>2, <3>1, Places
  <2> QED  BY <1>1, <1>2, <2>1, <2>2 DEF PostOf
<1>4. PostOf(y) = [h \in Hero |-> PostOf(y)[h]]  BY DEF PostOf
<1>5. PostOf(y) = Owners!Deposed(PostOf(x), dying)
  BY <1>3, <1>4 DEF Owners!Deposed, Owners!Idle, Free
<1>6. OutOf(y) = OutOf(x) \cup dying  BY <1>1 DEF OutOf
<1> QED  BY <1>5, <1>6 DEF y

LEMMA Seats ==
  /\ Owners!Seat = Present /\ Owners!Idle = Free /\ Owners!Prison = InJail
  /\ Owners!Standing = Living(g)
  /\ PostOf(g)' = PostOf(g') /\ OutOf(g)' = OutOf(g')
BY DEF Owners!Seat, Owners!Idle, Owners!Prison, Owners!Standing, Free, InJail,
       Present, Living, OutOf, PostOf

LEMMA SameCardinality == \A S : Owners!Cardinality(S) = Cardinality(S)
BY DEF Owners!Cardinality, Cardinality

(* Nobody serves a player who is out.                                       *)
LEMMA ServedFacts ==
  ASSUME NEW x, NEW M, Good(x, M), Single(x, M), NEW p \in Present,
         NEW h \in Members(x.heroesOwned[p])
  PROVE  p \notin OutOf(x)
<1>1. x.heroesOwned[p] # <<>>  BY DEF Members
<1> QED  BY <1>1 DEF Good, Emptied, OutOf

LEMMA RecruitOwners ==
  ASSUME IInv, NEW v \in {0, 1}, RecruitHero(v), mode' # "stolen"
  PROVE  \E h \in Hero : Owners!Join(h)
<1> DEFINE o == <<cur, v>>
           h == g.heroesForPurchase[o]
           w == Join(g, cur, h)
           x == Released(w, {h})
           M == mismarked
<1>1. /\ Good(g, M) /\ Open(g) /\ cur \in Present /\ o \in Offer /\ o \in Seated
      /\ mode = "town" /\ Single(g, M)
  BY Places DEF IInv, RecruitHero, Moving
<1>2. PICK new \in Replacements(Clashing(x), x.heroHireStatus),
           n \in GetNewHeroId(x.heroHireStatus) :
        g' = Offered(CheckedValid(x, new), o, n)
  BY DEF RecruitHero
<1>3. /\ cur' = cur /\ Len(g.heroesOwned[cur]) < MaxOwned /\ ~g.playerDead[cur]
      /\ h \notin M
  BY DEF RecruitHero, Taken, Moving
<1> DEFINE c == CheckedValid(x, new)
           z == Offered(c, o, n)
<1>4. Unowned(g, h)  BY <1>1 DEF Open
<1>5. h \in Hero /\ \A p \in Present : g.heroHireStatus[h] # p  BY <1>4, Places DEF Unowned
<1>6. PostOf(g)[h] = Free  BY <1>1, <1>3, <1>4, <1>5, IdleFacts DEF Unowned
<1> HIDE DEF h, M
<1>7. /\ Good(w, M) /\ w.heroesForPurchase = g.heroesForPurchase
      /\ w.held = g.held /\ w.playerDead = g.playerDead
      /\ w.heroHireStatus = [g.heroHireStatus EXCEPT ![h] = cur]
      /\ w.ownerIdx = [g.ownerIdx EXCEPT ![h] = cur]
      /\ \A q \in Present : Members(w.heroesOwned[q]) =
           Members(g.heroesOwned[q]) \cup (IF q = cur THEN {h} ELSE {})
      /\ Single(g, M) /\ h \notin M => Single(w, M)
  BY <1>1, <1>3, <1>5, JoinFacts
<1> HIDE DEF w
<1>8. PostOf(w) = [PostOf(g) EXCEPT ![h] = cur]  BY <1>1, <1>5, <1>7, JoinPost
<1>9. /\ Good(x, M) /\ x.heroesForPurchase = w.heroesForPurchase
      /\ x.heroHireStatus = w.heroHireStatus /\ x.playerDead = w.playerDead
      /\ x.heroesOwned = w.heroesOwned /\ x.ownerIdx = w.ownerIdx
      /\ \A k \in Hero : x.held[k] <=> k \notin {h} /\ w.held[k]
      /\ Open(w) => Open(x)
      /\ Resting(w) => Resting(x)
      /\ Single(w, M) => Single(x, M)
  BY <1>7, ReleasedFacts
<1> HIDE DEF x
<1>10. /\ Good(c, M) /\ c.heroHireStatus = x.heroHireStatus
       /\ c.held = x.held /\ c.playerDead = x.playerDead
       /\ c.heroesOwned = x.heroesOwned /\ c.ownerIdx = x.ownerIdx
       /\ \A a \in Offer : c.heroesForPurchase[a] =
            IF a \in Clashing(x) THEN new[a] ELSE x.heroesForPurchase[a]
       /\ \A a \in Clashing(x) : Unowned(x, new[a])
       /\ Resting(x) => Resting(c)
       /\ Single(x, M) => Single(c, M)
  BY <1>2, <1>9, CheckedFacts
<1> HIDE DEF c
<1>11. Unowned(c, n)
  BY <1>2, <1>9, <1>10, NewHeroUnowned DEF Unowned
<1>12. /\ Good(z, M) /\ z.heroesForPurchase = [c.heroesForPurchase EXCEPT ![o] = n]
       /\ z.held = c.held /\ z.playerDead = c.playerDead /\ z.ownerIdx = c.ownerIdx
       /\ z.heroesOwned = c.heroesOwned
       /\ z.heroHireStatus = [c.heroHireStatus EXCEPT ![n] = ForHire]
       /\ \A k : Unowned(c, k) => Unowned(z, k)
       /\ Resting(c) => Resting(z)
       /\ Single(c, M) => Single(z, M)
  BY <1>1, <1>10, <1>11, OfferedFacts
<1>13. g' = z  BY <1>2 DEF c
<1> HIDE DEF z
<1>14. PostOf(z) = PostOf(w) /\ OutOf(z) = OutOf(g)
  <2>1. \A k \in Hero : z.heroHireStatus[k] = IF k = n THEN ForHire ELSE w.heroHireStatus[k]
    BY <1>9, <1>10, <1>11, <1>12 DEF Good, Typed, Unowned
  <2>2. w.heroHireStatus[n] # InJail  BY <1>9, <1>10, <1>11, Places DEF Unowned
  <2>3. \A k \in Hero : z.heroHireStatus[k] = InJail <=> w.heroHireStatus[k] = InJail
    BY <2>1, <2>2, Places
  <2>4. z.ownerIdx = w.ownerIdx /\ z.playerDead = g.playerDead
    BY <1>7, <1>9, <1>10, <1>12
  <2> HIDE DEF z, w
  <2>5. PostOf(z) = PostOf(w)  BY <2>3, <2>4, SameView
  <2>6. OutOf(z) = OutOf(g)  BY <2>4, SameView
  <2> QED  BY <2>5, <2>6
<1>15. PostOf(g') = [PostOf(g) EXCEPT ![h] = cur] /\ OutOf(g') = OutOf(g)
  BY <1>8, <1>13, <1>14
<1>16. cur \in Owners!Standing  BY <1>1, <1>3, Seats DEF Living
<1>17. PostOf(g)[h] \in {Owners!Idle, Owners!Prison}  BY <1>6, Seats
<1>18. Cardinality(Owners!Serving(cur)) < MaxOwned
  BY <1>1, <1>3, ServingFits DEF Owners!Serving
<1>19. Owners!Join(h)
  BY <1>3, <1>15, <1>16, <1>17, <1>18, Seats, SameCardinality DEF Owners!Join
<1> QED  BY <1>5, <1>19

LEMMA JailOwners ==
  ASSUME IInv, NEW h \in Hero, JailEvent(h)
  PROVE  Owners!Join(h)
<1> DEFINE M == mismarked
<1>1. /\ Good(g, M) /\ cur \in Present /\ mode = "map" /\ Single(g, M)
  BY DEF IInv, JailEvent, Moving
<1> HIDE DEF M
<1>2. /\ g' = Join(g, cur, h) /\ g.heroHireStatus[h] = InJail
      /\ Len(g.heroesOwned[cur]) < MaxOwned
      /\ cur' = cur /\ ~g.playerDead[cur]
  BY DEF JailEvent, Moving
<1> DEFINE y == Join(g, cur, h)
<1>3. /\ y.heroHireStatus = [g.heroHireStatus EXCEPT ![h] = cur]
      /\ y.ownerIdx = [g.ownerIdx EXCEPT ![h] = cur]
      /\ y.playerDead = g.playerDead
  BY <1>1 DEF Join, Good, Typed
<1>4. g' = y  BY <1>2
<1> HIDE DEF y
<1>5. PostOf(y) = [PostOf(g) EXCEPT ![h] = cur]
  <2>1. \A k \in Hero : /\ y.ownerIdx[k] = IF k = h THEN cur ELSE g.ownerIdx[k]
                        /\ y.heroHireStatus[k] = IF k = h THEN cur ELSE g.heroHireStatus[k]
    BY <1>1, <1>3 DEF Good, Typed
  <2>2. cur \in Present  BY <1>1
  <2> QED  BY <2>1, <2>2, Places DEF PostOf
<1>6. OutOf(y) = OutOf(g)  BY <1>3, SameView
<1>7. cur \in Owners!Standing  BY <1>1, <1>2, Seats DEF Living
<1>8. PostOf(g)[h] \in {Owners!Idle, Owners!Prison}
  BY <1>1, <1>2, Seats, IdleFacts
<1>9. Cardinality(Owners!Serving(cur)) < MaxOwned
  BY <1>1, <1>2, ServingFits DEF Owners!Serving
<1> QED
  BY <1>2, <1>4, <1>5, <1>6, <1>7, <1>8, <1>9, Seats, SameCardinality DEF Owners!Join

(* A hero leaves x, of whose heroes and players HeroOwners sees what it     *)
(* sees of g.                                                               *)
LEMMA LossOwners ==
  ASSUME NEW x, NEW M, Good(x, M), Single(x, M), Open(x), Resting(x),
         PostOf(x) = PostOf(g), OutOf(x) = OutOf(g), cur \in Owners!Standing, cur' = cur,
         NEW p \in Present, NEW h \in Roster(x, p), NEW v \in {0, 1},
         NEW dying \in Losers(Deallocate(x, h, v)),
         PostOf(g') = PostOf(PlayerDead(Deallocate(x, h, v), dying)),
         OutOf(g') = OutOf(PlayerDead(Deallocate(x, h, v), dying))
  PROVE  dying \in Owners!Dying /\ h \in Hero /\ Owners!Lose(h, dying)
<1> DEFINE z == Deallocate(x, h, v)
<1>1. h \in Members(x.heroesOwned[p])  BY DEF Roster, Members
<1>2. Good(z, M) /\ Single(z, M) /\ Open(z) /\ Resting(z)  BY <1>1, DeallocatePost
<1>3. /\ h \in Hero /\ PostOf(x)[h] = p
      /\ PostOf(z) = [PostOf(x) EXCEPT ![h] = Free]
  BY <1>1, DeallocatePost
<1>4. OutOf(z) = OutOf(g)  BY <1>1, DeallocatePost
<1>5. dying \in SUBSET Living(z) /\ dying # Living(z)  BY DEF Losers
<1> HIDE DEF z
<1>6. Living(z) = Owners!Standing
  <2>1. Living(z) = Present \ OutOf(z) /\ Living(g) = Present \ OutOf(g)
    BY DEF Living, OutOf
  <2> QED  BY <1>4, <2>1, Seats
<1>7. dying \in Owners!Dying  BY <1>5, <1>6 DEF Owners!Dying
<1>8. dying \in SUBSET Present  BY <1>5 DEF Living
<1> DEFINE y == PlayerDead(z, dying)
<1>9. /\ PostOf(y) = Owners!Deposed(PostOf(z), dying)
      /\ OutOf(y) = OutOf(z) \cup dying
  BY <1>2, <1>8, PlayerDeadPost
<1>10. PostOf(g') = PostOf(y) /\ OutOf(g') = OutOf(y)  BY DEF z
<1> HIDE DEF y
<1>11. PostOf(g)[h] \in Owners!Standing
  <2>1. p \notin OutOf(x)  BY <1>1, ServedFacts
  <2>2. p \in Living(g)  BY <2>1 DEF Living, OutOf
  <2> QED  BY <1>3, <2>2, Seats
<1>12. PostOf(g') = Owners!Deposed([PostOf(g) EXCEPT ![h] = Owners!Idle], dying)
  BY <1>3, <1>9, <1>10, Seats
<1>13. OutOf(g') = OutOf(g) \cup dying  BY <1>4, <1>9, <1>10
<1> QED  BY <1>3, <1>7, <1>11, <1>12, <1>13, Seats DEF Owners!Lose

LEMMA HeroLosesOwners ==
  ASSUME IInv, NEW p \in Present, NEW h \in Hero,
         NEW retreated \in BOOLEAN, NEW v \in {0, 1}, HeroLoses(p, h, retreated, v)
  PROVE  \E dying \in Owners!Dying : Owners!Lose(h, dying)
<1> DEFINE x == [g EXCEPT !.gbRetreatWin = retreated]
           M == mismarked
<1>1. /\ Good(g, M) /\ Open(g) /\ Resting(g) /\ cur \in Present
      /\ mode = "map" /\ Single(g, M)
  BY DEF IInv, HeroLoses, Moving
<1>2. PICK dying \in Losers(Deallocate(x, h, v)) :
        g' = [PlayerDead(Deallocate(x, h, v), dying) EXCEPT !.gbRetreatWin = FALSE]
  BY DEF HeroLoses
<1>3. h \in Roster(g, p) /\ cur' = cur /\ ~g.playerDead[cur]  BY DEF HeroLoses, Moving
<1> HIDE DEF M
<1>4. /\ Good(x, M) /\ x.heroesForPurchase = g.heroesForPurchase
      /\ x.held = g.held /\ x.playerDead = g.playerDead
      /\ x.heroesOwned = g.heroesOwned
      /\ x.heroHireStatus = g.heroHireStatus /\ x.ownerIdx = g.ownerIdx
      /\ Open(g) => Open(x)
      /\ Resting(g) => Resting(x)
      /\ Single(g, M) => Single(x, M)
  BY <1>1, SetRetreat
<1> DEFINE y == PlayerDead(Deallocate(x, h, v), dying)
           z == [y EXCEPT !.gbRetreatWin = FALSE]
<1> HIDE DEF x
<1>5. h \in Roster(x, p)  BY <1>3, <1>4 DEF Roster
<1>6. Good(y, M)
  BY <1>1, <1>4, <1>5, LossFacts
<1>7. g' = z  BY <1>2
<1> HIDE DEF y
<1>8. z.heroHireStatus = y.heroHireStatus /\ z.ownerIdx = y.ownerIdx /\ z.playerDead = y.playerDead
  BY <1>6 DEF Good, Typed
<1> HIDE DEF z
<1>9. PostOf(g') = PostOf(y) /\ OutOf(g') = OutOf(y)  BY <1>7, <1>8, SameView
<1>10. PostOf(x) = PostOf(g) /\ OutOf(x) = OutOf(g)  BY <1>4, SameView
<1>11. cur \in Owners!Standing  BY <1>1, <1>3, Seats DEF Living
<1> QED  BY <1>1, <1>3, <1>4, <1>5, <1>9, <1>10, <1>11, LossOwners DEF y

LEMMA DismissOwners ==
  ASSUME IInv, NEW h \in Hero, NEW v \in {0, 1}, Dismiss(h, v)
  PROVE  \E dying \in Owners!Dying : Owners!Lose(h, dying)
<1>1. /\ Good(g, mismarked) /\ Open(g) /\ Resting(g) /\ cur \in Present
      /\ mode = "map" /\ Single(g, mismarked)
  BY DEF IInv, Dismiss, Moving
<1>2. PICK dying \in Losers(Deallocate(g, h, v)) : g' = PlayerDead(Deallocate(g, h, v), dying)
  BY DEF Dismiss
<1>3. h \in Roster(g, cur) /\ cur' = cur /\ ~g.playerDead[cur]  BY DEF Dismiss, Moving
<1>4. cur \in Owners!Standing  BY <1>1, <1>3, Seats DEF Living
<1> QED  BY <1>1, <1>2, <1>3, <1>4, LossOwners

LEMMA TownFallsOwners ==
  ASSUME IInv, TownFalls
  PROVE  \E dying \in Owners!Dying : Owners!Fall(dying)
<1>1. /\ Good(g, mismarked) /\ Open(g) /\ Resting(g) /\ cur \in Present
      /\ mode = "map" /\ Single(g, mismarked)
  BY DEF IInv, TownFalls, Moving
<1>2. PICK dying \in Losers(g) \ {{}} : g' = PlayerDead(g, dying)  BY DEF TownFalls
<1>3. cur' = cur /\ ~g.playerDead[cur]  BY DEF TownFalls, Moving
<1>4. dying \in SUBSET Present /\ dying \in SUBSET Living(g) /\ dying # Living(g)
  BY DEF Losers, Living
<1> DEFINE y == PlayerDead(g, dying)
<1>5. PostOf(y) = Owners!Deposed(PostOf(g), dying) /\ OutOf(y) = OutOf(g) \cup dying
  BY <1>1, <1>4, PlayerDeadPost
<1>6. g' = y  BY <1>2
<1> HIDE DEF y
<1>7. dying \in Owners!Dying  BY <1>4, Seats DEF Owners!Dying
<1>8. cur \in Owners!Standing  BY <1>1, <1>3, Seats DEF Living
<1>9. Owners!Fall(dying)  BY <1>2, <1>3, <1>5, <1>6, <1>8, Seats DEF Owners!Fall
<1> QED  BY <1>7, <1>9

LEMMA NextPlayerOwners ==
  ASSUME IInv, NextPlayer
  PROVE  \E dying \in Owners!Dying : Owners!Pass(dying)
<1> DEFINE x == Released(g, OfferedTo(g, cur))
           First(S) == CHOOSE p \in S : \A q \in S : p <= q
           later(y) == {p \in Living(y) : p > cur}
           M == mismarked
<1>1. /\ Good(g, M) /\ Open(g) /\ Resting(g) /\ mode = "map" /\ Single(g, M)
  BY DEF IInv, NextPlayer
<1> HIDE DEF M
<1>2. /\ Good(x, M) /\ x.heroesForPurchase = g.heroesForPurchase
      /\ x.heroHireStatus = g.heroHireStatus /\ x.playerDead = g.playerDead
      /\ x.heroesOwned = g.heroesOwned /\ x.ownerIdx = g.ownerIdx
      /\ \A h \in Hero : x.held[h] <=> h \notin OfferedTo(g, cur) /\ g.held[h]
      /\ Open(g) => Open(x)
      /\ Resting(g) => Resting(x)
      /\ Single(g, M) => Single(x, M)
  BY <1>1, ReleasedFacts
<1> HIDE DEF x
<1>3. PICK dying \in Losers(x) :
        LET y == PlayerDead(x, dying)
        IN  IF later(y) # {} THEN cur' = First(later(y)) /\ g' = y /\ mode' = "map"
            ELSE /\ cur' = First(Living(y))
                 /\ \/ mode' = "map" /\ g' = Released(y, Hero)
                    \/ mode' = "week" /\ g' = y
  BY DEF NextPlayer, x
<1> DEFINE y == PlayerDead(x, dying)
<1>4. dying \in SUBSET Present /\ dying \in SUBSET Living(x) /\ dying # Living(x)
  BY DEF Losers, Living
<1>5. PostOf(y) = Owners!Deposed(PostOf(x), dying) /\ OutOf(y) = OutOf(x) \cup dying
  BY <1>1, <1>2, <1>4, PlayerDeadPost
<1>6. Good(y, M)
  <2>1. /\ Good(y, M) /\ Single(y, M) /\ Open(y) /\ Resting(y)
        /\ y.heroesForPurchase = x.heroesForPurchase /\ y.held = x.held
    BY <1>1, <1>2, <1>4, PlayerDeadFacts
  <2> QED  BY <2>1
<1>7. PostOf(x) = PostOf(g) /\ OutOf(x) = OutOf(g)  BY <1>2, SameView
<1> HIDE DEF y
<1>8. Living(x) = Owners!Standing /\ Living(y) = Owners!Standing \ dying
  <2>1. \A u : Living(u) = Present \ OutOf(u)  BY DEF Living, OutOf
  <2> QED  BY <1>5, <1>7, <2>1, Seats
<1>9. cur' = IF later(y) # {} THEN First(later(y)) ELSE First(Living(y))
  <2> HIDE DEF First, later
  <2> QED  BY <1>3 DEF y
<1>10. g' = y \/ g' = Released(y, Hero)
  <2> HIDE DEF First, later
  <2> QED  BY <1>3 DEF y
<1>11. /\ g'.heroHireStatus = y.heroHireStatus /\ g'.playerDead = y.playerDead
       /\ g'.ownerIdx = y.ownerIdx
  BY <1>6, <1>10 DEF Released, Good, Typed
<1>12. PostOf(g') = Owners!Deposed(PostOf(g), dying) /\ OutOf(g') = OutOf(g) \cup dying
  BY <1>5, <1>7, <1>11, SameView
<1>13. cur' = Owners!After(Owners!Standing \ dying)
  BY <1>8, <1>9 DEF Owners!After, Owners!Least
<1>14. dying \in Owners!Dying  BY <1>4, <1>8 DEF Owners!Dying
<1>15. Owners!Pass(dying)  BY <1>12, <1>13, Seats DEF Owners!Pass
<1> QED  BY <1>14, <1>15

(* Visits, offers and the end of a week change nothing that HeroOwners sees. *)
LEMMA SeenSame ==
  ASSUME cur' = cur, g'.ownerIdx = g.ownerIdx, g'.playerDead = g.playerDead,
         \A k \in Hero : g'.heroHireStatus[k] = InJail <=> g.heroHireStatus[k] = InJail
  PROVE  UNCHANGED Owners!vars
<1>1. PostOf(g') = PostOf(g) /\ OutOf(g') = OutOf(g)  BY SameView
<1> QED  BY <1>1, Seats DEF Owners!vars

LEMMA ConsistencyOwners ==
  ASSUME IInv, CheckHeroConsistency
  PROVE  UNCHANGED Owners!vars
<1> DEFINE S == StaleOffers(g)
           o == NextOffer(S)
<1>1. cur' = cur /\ Good(g, mismarked)  BY DEF CheckHeroConsistency, IInv
<1>2. CASE NoneLeft(S)
  <2>1. g' = g  BY <1>2 DEF CheckHeroConsistency
  <2> QED  BY <1>1, <2>1, SeenSame
<1>3. CASE ~NoneLeft(S)
  <2>1. PICK h \in GetNewHeroId(g.heroHireStatus) : g' = Offered(g, o, h)
    BY <1>3 DEF CheckHeroConsistency
  <2> HIDE DEF o, S
  <2>2. Unowned(g, h)  BY <1>1, <2>1, NewHeroUnowned
  <2>3. /\ g'.ownerIdx = g.ownerIdx /\ g'.playerDead = g.playerDead
        /\ g'.heroHireStatus = [g.heroHireStatus EXCEPT ![h] = ForHire]
    BY <1>1, <2>1 DEF Offered, Good, Typed
  <2>4. \A k \in Hero : g'.heroHireStatus[k] = InJail <=> g.heroHireStatus[k] = InJail
    BY <1>1, <2>2, <2>3, Places DEF Good, Typed, Unowned
  <2> QED  BY <1>1, <2>3, <2>4, SeenSame
<1> QED  BY <1>2, <1>3

LEMMA QuietOwners ==
  ASSUME IInv, mode' # "stolen",
         \/ OpenTown \/ CloseTown \/ EndPerDay \/ LastArtifact \/ UNCHANGED vars
         \/ PerWeek \/ \E v \in {0, 1} : ViewHero(v)
  PROVE  UNCHANGED Owners!vars
<1>1. cur' = cur /\ Good(g, mismarked)
  BY DEF IInv, OpenTown, CloseTown, EndPerDay, LastArtifact, PerWeek, ViewHero, vars
<1>2. CASE OpenTown \/ CloseTown \/ LastArtifact \/ UNCHANGED vars
  <2>1. g' = g  BY <1>2 DEF OpenTown, CloseTown, LastArtifact, vars
  <2> QED  BY <1>1, <2>1, SeenSame
<1>3. CASE EndPerDay
  <2>1. /\ g'.ownerIdx = g.ownerIdx /\ g'.playerDead = g.playerDead
        /\ g'.heroHireStatus = g.heroHireStatus
    BY <1>1, <1>3 DEF EndPerDay, Released, Good, Typed
  <2> QED  BY <1>1, <2>1, SeenSame
<1>4. CASE PerWeek  BY <1>1, <1>4, PerWeekKeeps, SeenSame
<1>5. ASSUME NEW v \in {0, 1}, ViewHero(v)  PROVE UNCHANGED Owners!vars
  <2>1. g'.playerDead = g.playerDead /\ g'.heroHireStatus = g.heroHireStatus
    BY <1>1, <1>5 DEF ViewHero, Good, Typed
  <2>2. g'.ownerIdx = g.ownerIdx  BY <1>5, ViewKeeps
  <2> QED  BY <1>1, <2>1, <2>2, SeenSame
<1> QED  BY <1>2, <1>3, <1>4, <1>5

LEMMA InitOwners ==
  ASSUME Init
  PROVE  Owners!Init
<1>1. PICK first \in [Present -> Hero \ Jailed] :
        \E offers \in [Present \X {0, 1} -> Hero \ (Jailed \cup {first[p] : p \in Present})] :
        \E retreat \in BOOLEAN :
          (\A p, q \in Present : p # q => first[p] # first[q]) /\ g = NewGame(first, offers, retreat)
  BY DEF Init
<1>2. /\ \A p, q \in Present : p # q => first[p] # first[q]
      /\ g.heroesOwned = [p \in Player |-> IF p \in Present THEN <<first[p]>> ELSE <<>>]
      /\ g.playerDead = [p \in Player |-> FALSE]
      /\ \A h \in Jailed : g.heroHireStatus[h] = InJail
  BY <1>1, HeroesAssumption DEF NewGame
<1>3. Good(g, mismarked) /\ Single(g, mismarked) /\ cur = 0  BY InitIInv DEF IInv, Init
<1>4. \A p \in Present : Members(g.heroesOwned[p]) = {first[p]}
  <2> TAKE p \in Present
  <2> DEFINE L == <<first[p]>>
  <2>1. Len(L) = 1 /\ L[1] = first[p]  OBVIOUS
  <2>2. g.heroesOwned[p] = L  BY <1>2, Places
  <2> HIDE DEF L
  <2>3. \A i \in 1 .. Len(L) : i = 1  BY <2>1
  <2>4. 1 \in 1 .. Len(L)  BY <2>1
  <2> QED  BY <2>1, <2>2, <2>3, <2>4 DEF Members
<1>5. PostOf(g) \in [Hero -> Owners!Seat \cup {Owners!Idle, Owners!Prison}]
  BY <1>3, PostFacts, Seats
<1>6. ASSUME NEW h \in Hero
      PROVE  /\ PostOf(g)[h] = Owners!Prison <=> h \in Jailed
             /\ \A p \in Owners!Seat : PostOf(g)[h] = p <=> h = first[p]
  <2>1. PostOf(g)[h] = Owners!Prison <=> g.heroHireStatus[h] = InJail
    BY <1>3, IdleFacts, Seats
  <2>2. g.heroHireStatus[h] = InJail <=> h \in Jailed  BY <1>2, <1>3 DEF Good, Penned
  <2>3. \A p \in Present : PostOf(g)[h] = p <=> h \in Members(g.heroesOwned[p])
    BY <1>3, PostFacts
  <2>4. \A p \in Present : PostOf(g)[h] = p <=> h = first[p]  BY <1>4, <2>3
  <2> QED  BY <2>1, <2>2, <2>4, Seats
<1>7. OutOf(g) = {}  BY <1>2, Places DEF OutOf
<1>8. first \in [Owners!Seat -> Hero \ Jailed] /\ \A p, q \in Owners!Seat : p # q => first[p] # first[q]
  BY <1>1, <1>2, Seats
<1> QED  BY <1>3, <1>5, <1>6, <1>7, <1>8 DEF Owners!Init

LEMMA StepOwners ==
  ASSUME IInv, mode # "stolen", mode' # "stolen", [Next]_vars
  PROVE  [Owners!Next]_(Owners!vars)
<1>1. ASSUME NEW v \in {0, 1}, RecruitHero(v)  PROVE Owners!Next
  BY <1>1, RecruitOwners DEF Owners!Next
<1>2. ASSUME NEW h \in Hero, JailEvent(h)  PROVE Owners!Next
  BY <1>2, JailOwners DEF Owners!Next
<1>3. ASSUME NEW p \in Present, NEW h \in Hero, NEW retreated \in BOOLEAN,
             NEW v \in {0, 1}, HeroLoses(p, h, retreated, v)
      PROVE  Owners!Next
  BY <1>3, HeroLosesOwners DEF Owners!Next
<1>4. ASSUME NEW h \in Hero, NEW v \in {0, 1}, Dismiss(h, v)  PROVE Owners!Next
  BY <1>4, DismissOwners DEF Owners!Next
<1>5. CASE TownFalls  BY <1>5, TownFallsOwners DEF Owners!Next
<1>6. CASE NextPlayer  BY <1>6, NextPlayerOwners DEF Owners!Next
<1>7. CASE CheckHeroConsistency  BY <1>7, ConsistencyOwners
<1>8. CASE \/ OpenTown \/ CloseTown \/ EndPerDay \/ LastArtifact \/ PerWeek
           \/ UNCHANGED vars
  BY <1>8, QuietOwners
<1>9. ASSUME NEW v \in {0, 1}, ViewHero(v)  PROVE UNCHANGED Owners!vars
  BY <1>9, QuietOwners
<1>10. CASE InTown
  BY <1>1, <1>7, <1>8, <1>9, <1>10 DEF InTown
<1>11. CASE OnMap
  BY <1>2, <1>3, <1>4, <1>5, <1>8, <1>11 DEF OnMap
<1> QED  BY <1>6, <1>8, <1>10, <1>11 DEF Next, AfterTheft

(* As long as nobody has taken a mismarked hero, the lists, owners, offers, *)
(* marks and places implement HeroOwners: a hero changes hands only by      *)
(* being hired or freed by who has the move, lost or given free; players    *)
(* who are out neither come back nor have the move.                         *)
THEOREM OwnersRefined == Spec /\ []~Stolen => ImplementsOwners
<1>1. Init => IInv /\ Owners!Init  BY InitIInv, InitOwners
<1>2. IInv /\ ~Stolen /\ (~Stolen)' /\ [Next]_vars => [Owners!Next]_(Owners!vars)
  BY StepOwners DEF Stolen
<1> QED  BY <1>1, <1>2, Invariant, PTL DEF Spec, ImplementsOwners, Owners!Spec

(* With all places taken they implement HeroOwners for good.                *)
THEOREM FullTableRefined ==
  ASSUME NumPlayers = MaxPlayers
  PROVE  Spec => ImplementsOwners
<1>1. NoTheft => ~Stolen  BY DEF NoTheft, Stolen
<1> QED  BY <1>1, FullTableSafe, OwnersRefined, PTL
=============================================================================
