------------------------ MODULE ResourceCache_proofs ------------------------
(***************************************************************************)
(* ResourceCache, for every archive, every set of pointer variables and    *)
(* every width of the count that exceeds the number of holders.  Counting  *)
(* users is inductive only together with the shape of the list, with the   *)
(* fact that a leaked file has no pointer but its owner's, and with the    *)
(* fact that exactly the loaded fonts point at an icon.                    *)
(***************************************************************************)
EXTENDS ResourceCache, FiniteSetTheorems, SequenceTheorems, TLAPS

\* l is a list of exactly the objects of S, each once.
Lists(l, S) ==
  /\ l \in Seq(Objects)
  /\ \A i \in 1 .. Len(l) : l[i] \in S
  /\ \A o \in S : \E i \in 1 .. Len(l) : l[i] = o
  /\ \A i, j \in 1 .. Len(l) : l[i] = l[j] => i = j

Unique == \A o, p \in live : fileID[o] = fileID[p] => o = p

Owned ==
  Idle => \A h \in Holders : ref[h] # None /\ fileID[ref[h]] \in Leaky =>
            h = OwnerOf[fileID[ref[h]]]

FontIcons ==
  Idle => \A o \in Objects :
            /\ ref[o] # None <=> o \in live /\ fileID[o] \in Fonts
            /\ ref[o] # None => fileID[ref[o]] = IconOf[fileID[o]]

First(l) == IF l = <<>> THEN None ELSE Head(l)

Walk ==
  /\ cursor = IF expunging THEN First(list) ELSE None
  /\ ~ready => live = {} /\ ~expunging

IInv ==
  /\ TypeOK /\ Lists(list, live) /\ Unique
  /\ NoDangling /\ Owned /\ FontIcons /\ CountsUsers /\ Walk
-----------------------------------------------------------------------------
LEMMA Constants ==
  /\ Fonts \subseteq Files /\ Leaky \subseteq Files /\ Leaky \cap Fonts = {}
  /\ \A f \in Fonts : IconOf[f] \in Files /\ IconOf[f] \notin Fonts
                      /\ IconOf[f] \notin Leaky
  /\ \A f \in Leaky : OwnerOf[f] \in Clients
  /\ None \notin Objects /\ None \notin Files
  /\ Clients \cap Objects = {} /\ Clients \subseteq Holders
  /\ Objects \subseteq Holders
BY FilesAssumption, HoldersAssumption DEF Holders

LEMMA FewHolders ==
  /\ IsFiniteSet(Holders) /\ Cardinality(Holders) \in Nat
  /\ Half \in Nat /\ Cardinality(Holders) < Half
<1>1. IsFiniteSet(Clients \cap Objects) /\ Cardinality(Clients \cap Objects) = 0
  BY FS_EmptySet, HoldersAssumption
<1>2. IsFiniteSet(Holders)
      /\ Cardinality(Holders) = Cardinality(Clients) + Cardinality(Objects)
                                - Cardinality(Clients \cap Objects)
  BY FS_Union, HoldersAssumption DEF Holders
<1>3. Cardinality(Clients) \in Nat /\ Cardinality(Objects) \in Nat
  BY FS_CardinalityType, HoldersAssumption
<1> QED  BY <1>1, <1>2, <1>3, HoldersAssumption

LEMMA FewUsers ==
  ASSUME NEW r, NEW o
  PROVE  /\ IsFiniteSet(UsersOf(r, o)) /\ Cardinality(UsersOf(r, o)) \in Nat
         /\ Cardinality(UsersOf(r, o)) < Half
<1>1. UsersOf(r, o) \in SUBSET Holders  BY DEF UsersOf
<1>2. IsFiniteSet(UsersOf(r, o))
      /\ Cardinality(UsersOf(r, o)) <= Cardinality(Holders)
  BY <1>1, FewHolders, FS_Subset
<1>3. Cardinality(UsersOf(r, o)) \in Nat  BY <1>2, FS_CardinalityType
<1> QED  BY <1>2, <1>3, FewHolders

(* When h alone changes from r to s, and points at o after, o has one user  *)
(* more, and only what h pointed at before may have lost one.               *)
LEMMA UserGained ==
  ASSUME NEW r, NEW s, NEW h \in Holders, NEW o, r[h] # o, s[h] = o,
         \A k \in Holders \ {h} : s[k] = r[k]
  PROVE  /\ Cardinality(UsersOf(s, o)) = Cardinality(UsersOf(r, o)) + 1
         /\ \A p : p # o /\ p # r[h] => UsersOf(s, p) = UsersOf(r, p)
<1>1. UsersOf(s, o) = UsersOf(r, o) \cup {h}  BY DEF UsersOf
<1>2. h \notin UsersOf(r, o)  BY DEF UsersOf
<1>3. Cardinality(UsersOf(r, o) \cup {h}) = Cardinality(UsersOf(r, o)) + 1
  BY <1>2, FewUsers, FS_AddElement
<1>4. \A p : p # o /\ p # r[h] => UsersOf(s, p) = UsersOf(r, p)
  BY DEF UsersOf
<1> QED  BY <1>1, <1>3, <1>4

(* When h alone changes, and pointed at o before, o has one user less.      *)
LEMMA UserLost ==
  ASSUME NEW r, NEW s, NEW h \in Holders, NEW o, r[h] = o, s[h] # o,
         \A k \in Holders \ {h} : s[k] = r[k]
  PROVE  /\ Cardinality(UsersOf(s, o)) = Cardinality(UsersOf(r, o)) - 1
         /\ \A p : p # o /\ p # s[h] => UsersOf(s, p) = UsersOf(r, p)
<1>1. Cardinality(UsersOf(r, o)) = Cardinality(UsersOf(s, o)) + 1
      /\ \A p : p # o /\ p # s[h] => UsersOf(r, p) = UsersOf(s, p)
  BY UserGained
<1> QED  BY <1>1, FewUsers

(* When the only pointer c at a font o goes, and the font's own at i, then  *)
(* i has one user less, and every object but the two has the same users.    *)
LEMMA TwoUsersLost ==
  ASSUME NEW r, NEW s, NEW c \in Holders, NEW o \in Holders, NEW i, o # i,
         r[c] = o, r[o] = i, s[c] = None, s[o] = None, i # None,
         \A k \in Holders \ {c, o} : s[k] = r[k]
  PROVE  /\ Cardinality(UsersOf(s, i)) = Cardinality(UsersOf(r, i)) - 1
         /\ \A p : p # o /\ p # i /\ p # None => UsersOf(s, p) = UsersOf(r, p)
<1>1. UsersOf(s, i) = UsersOf(r, i) \ {o} /\ o \in UsersOf(r, i)
  BY DEF UsersOf
<1>2. Cardinality(UsersOf(r, i) \ {o}) = Cardinality(UsersOf(r, i)) - 1
  BY <1>1, FewUsers, FS_RemoveElement
<1>3. \A p : p # o /\ p # i /\ p # None => UsersOf(s, p) = UsersOf(r, p)
  BY DEF UsersOf
<1> QED  BY <1>1, <1>2, <1>3

(* When a new font o is pointed at by c and points at i, then i has one     *)
(* user more, o has one, and every other object has the same users.         *)
LEMMA TwoUsersGained ==
  ASSUME NEW r, NEW s, NEW c \in Holders, NEW o \in Holders, NEW i, o # i,
         r[c] = None, r[o] = None, s[c] = o, s[o] = i, i # None, o # None,
         \A k \in Holders : r[k] # o,
         \A k \in Holders \ {c, o} : s[k] = r[k]
  PROVE  /\ Cardinality(UsersOf(s, i)) = Cardinality(UsersOf(r, i)) + 1
         /\ Cardinality(UsersOf(s, o)) = 1
         /\ \A p : p # o /\ p # i /\ p # None => UsersOf(s, p) = UsersOf(r, p)
<1>1. UsersOf(s, i) = UsersOf(r, i) \cup {o} /\ o \notin UsersOf(r, i)
  BY DEF UsersOf
<1>2. Cardinality(UsersOf(r, i) \cup {o}) = Cardinality(UsersOf(r, i)) + 1
  BY <1>1, FewUsers, FS_AddElement
<1>3. UsersOf(s, o) = {c}  BY DEF UsersOf
<1>4. \A p : p # o /\ p # i /\ p # None => UsersOf(s, p) = UsersOf(r, p)
  BY DEF UsersOf
<1> QED  BY <1>1, <1>2, <1>3, <1>4, FS_Singleton

(* An object nobody points at has no users, and with a single user any two  *)
(* pointers at it are the same variable.                                    *)
LEMMA NoUsers ==
  ASSUME NEW r, NEW o, \A h \in Holders : r[h] # o
  PROVE  Cardinality(UsersOf(r, o)) = 0
<1>1. UsersOf(r, o) = {}  BY DEF UsersOf
<1> QED  BY <1>1, FS_EmptySet

LEMMA OneUser ==
  ASSUME NEW r, NEW o, Cardinality(UsersOf(r, o)) = 1,
         NEW h \in Holders, NEW k \in Holders, r[h] = o, r[k] = o
  PROVE  h = k
<1>1. \E x : UsersOf(r, o) = {x}  BY FewUsers, FS_Singleton
<1> QED  BY <1>1 DEF UsersOf

LEMMA SomeUser ==
  ASSUME NEW r, NEW o, Cardinality(UsersOf(r, o)) > 0
  PROVE  \E h \in Holders : r[h] = o
<1>1. SUFFICES ASSUME \A h \in Holders : r[h] # o  PROVE FALSE
  OBVIOUS
<1>2. Cardinality(UsersOf(r, o)) = 0  BY <1>1, NoUsers
<1> QED  BY <1>2

(* A count in range that falls to zero or below was one, unless it wrapped. *)
LEMMA Counting ==
  ASSUME NEW n \in -Half .. Half - 1
  PROVE  /\ Wrap(n + 1) \in -Half .. Half - 1 /\ Wrap(n - 1) \in -Half .. Half - 1
         /\ n + 1 < Half => Wrap(n + 1) = n + 1
         /\ n > 0 => Wrap(n - 1) = n - 1
         /\ 0 \in -Half .. Half - 1
         /\ Half > 1 => 1 \in -Half .. Half - 1
BY FewHolders DEF Wrap
-----------------------------------------------------------------------------
LEMMA ListAdd ==
  ASSUME NEW l, NEW S, Lists(l, S), NEW o \in Objects, o \notin S
  PROVE  Lists(AddResource(o, l), S \cup {o})
<1> DEFINE m == AddResource(o, l)
<1>1. m \in Seq(Objects) /\ Len(m) = Len(l) + 1 /\ m[1] = o
      /\ Len(l) \in Nat /\ \A i \in 2 .. Len(m) : m[i] = l[i - 1]
  BY DEF AddResource, Lists
<1> HIDE DEF m
<1>2. \A i \in 1 .. Len(m) :
        \/ i = 1 /\ m[i] = o
        \/ i \in 2 .. Len(m) /\ i - 1 \in 1 .. Len(l) /\ m[i] = l[i - 1]
  BY <1>1
<1>3. \A i \in 1 .. Len(m) : m[i] \in S \cup {o}
  BY <1>1, <1>2 DEF Lists
<1>4. \A p \in S \cup {o} : \E i \in 1 .. Len(m) : m[i] = p
  <2>1. TAKE p \in S \cup {o}
  <2>2. CASE p = o
    BY <1>1, <2>2
  <2>3. CASE p \in S
    <3>1. PICK i \in 1 .. Len(l) : l[i] = p  BY <2>3 DEF Lists
    <3>2. i + 1 \in 2 .. Len(m) /\ m[i + 1] = l[i + 1 - 1] /\ i + 1 - 1 = i
      BY <3>1, <1>1
    <3> QED  BY <3>1, <3>2
  <2> QED  BY <2>2, <2>3
<1>5. \A i, j \in 1 .. Len(m) : m[i] = m[j] => i = j
  <2>1. TAKE i, j \in 1 .. Len(m)
  <2>2. HAVE m[i] = m[j]
  <2>3. CASE i = 1 /\ j = 1
    BY <2>3
  <2>4. CASE i # 1 /\ j # 1
    <3>1. i - 1 \in 1 .. Len(l) /\ j - 1 \in 1 .. Len(l)
          /\ i \in 2 .. Len(m) /\ j \in 2 .. Len(m)  BY <2>4, <1>1
    <3>2. l[i - 1] = l[j - 1]  BY <2>2, <3>1, <1>1
    <3>3. i - 1 = j - 1  BY <3>1, <3>2 DEF Lists
    <3> QED  BY <3>3
  <2>5. CASE i # 1 /\ j = 1
    BY <2>5, <2>2, <1>1, <1>2 DEF Lists
  <2>6. CASE i = 1 /\ j # 1
    BY <2>6, <2>2, <1>1, <1>2 DEF Lists
  <2> QED  BY <2>3, <2>4, <2>5, <2>6
<1>6. Lists(m, S \cup {o})  BY <1>1, <1>3, <1>4, <1>5 DEF Lists
<1> QED  BY <1>6 DEF m

LEMMA ListRemove ==
  ASSUME NEW l, NEW S, Lists(l, S), NEW o \in S
  PROVE  /\ Lists(RemoveResource(o, l), S \ {o})
         /\ o = Head(l) => First(RemoveResource(o, l)) =
                            IF Len(l) > 1 THEN l[2] ELSE None
<1> DEFINE P(k) == k \in 1 .. Len(l) /\ l[k] = o
           n == CHOOSE k \in 1 .. Len(l) : l[k] = o
           m == [i \in 1 .. Len(l) - 1 |-> IF i < n THEN l[i] ELSE l[i + 1]]
<1>1. n \in 1 .. Len(l) /\ l[n] = o /\ RemoveResource(o, l) = m
  BY DEF Lists, RemoveResource
<1>2. l \in Seq(Objects) /\ Len(l) \in Nat /\ \A i \in 1 .. Len(l) : l[i] \in Objects
  BY DEF Lists
<1>3. m \in Seq(Objects) /\ Len(m) = Len(l) - 1
  <2>1. m \in [1 .. Len(l) - 1 -> Objects]
    BY <1>1, <1>2
  <2>2. Len(l) - 1 \in Nat  BY <1>1, <1>2
  <2> QED  BY <2>1, <2>2
<1>4. \A i \in 1 .. Len(m) : m[i] = IF i < n THEN l[i] ELSE l[i + 1]
  BY <1>3, <1>2
<1>10. n = 1 => First(m) = IF Len(l) > 1 THEN l[2] ELSE None
  <2> SUFFICES ASSUME n = 1  PROVE First(m) = IF Len(l) > 1 THEN l[2] ELSE None
    OBVIOUS
  <2>1. CASE Len(l) > 1
    <3>1. 1 \in 1 .. Len(m) /\ ~(1 < n) /\ 1 + 1 = 2
      <4>1. Len(m) >= 1 /\ Len(m) \in Nat  BY <2>1, <1>2, <1>3
      <4> HIDE DEF m, n
      <4> QED  BY <4>1, n = 1
    <3>2. m[1] = l[2]  BY <3>1, <1>4
    <3>3. m # <<>> /\ Head(m) = m[1]  BY <2>1, <1>2, <1>3
    <3> QED  BY <2>1, <3>2, <3>3 DEF First
  <2>2. CASE ~(Len(l) > 1)
    <3>1. m = <<>>  BY <2>2, <1>1, <1>2, <1>3, EmptySeq
    <3> QED  BY <2>2, <3>1 DEF First
  <2> QED  BY <2>1, <2>2
<1> HIDE DEF m, n
<1>5. \A i \in 1 .. Len(m) : \E j \in 1 .. Len(l) \ {n} :
        m[i] = l[j] /\ j = IF i < n THEN i ELSE i + 1
  BY <1>1, <1>2, <1>3, <1>4
<1>6. \A i \in 1 .. Len(m) : m[i] \in S \ {o}
  BY <1>1, <1>5 DEF Lists
<1>7. \A p \in S \ {o} : \E i \in 1 .. Len(m) : m[i] = p
  <2>1. TAKE p \in S \ {o}
  <2>2. PICK j \in 1 .. Len(l) : l[j] = p  BY DEF Lists
  <2>3. j # n  BY <1>1, <2>2
  <2>4. CASE j < n
    BY <2>2, <2>4, <1>1, <1>2, <1>3, <1>4
  <2>5. CASE j > n
    <3>1. j - 1 \in 1 .. Len(m) /\ ~(j - 1 < n) /\ j - 1 + 1 = j
      BY <2>5, <1>1, <1>2, <1>3
    <3>2. m[j - 1] = l[j - 1 + 1]  BY <3>1, <1>4
    <3> QED  BY <2>2, <3>1, <3>2
  <2> QED  BY <2>3, <2>4, <2>5, <1>1
<1>8. \A i, j \in 1 .. Len(m) : m[i] = m[j] => i = j
  <2>1. TAKE i, j \in 1 .. Len(m)
  <2>2. HAVE m[i] = m[j]
  <2>3. PICK x \in 1 .. Len(l) \ {n} : m[i] = l[x] /\ x = IF i < n THEN i ELSE i + 1
    BY <1>5
  <2>4. PICK y \in 1 .. Len(l) \ {n} : m[j] = l[y] /\ y = IF j < n THEN j ELSE j + 1
    BY <1>5
  <2>5. x = y  BY <2>2, <2>3, <2>4 DEF Lists
  <2> QED  BY <2>3, <2>4, <2>5, <1>1, <1>3, <1>2
<1>9. o = Head(l) => n = 1
  BY <1>1, <1>2 DEF Lists
<1> QED  BY <1>1, <1>3, <1>6, <1>7, <1>8, <1>9, <1>10 DEF Lists

LEMMA QueryFinds ==
  ASSUME IInv
  PROVE  /\ \A f, o : Found(f, o) => o \in live /\ o \in Objects /\ fileID[o] = f
         /\ \A f : Missing(f) => \A o \in live : fileID[o] # f
BY SMTT(30) DEF IInv, TypeOK, Lists, Found, Missing
-----------------------------------------------------------------------------
LEMMA InitIInv == Init => IInv
<1> SUFFICES ASSUME Init  PROVE IInv
  OBVIOUS
<1>1. TypeOK
  <2>1. 0 \in -Half .. Half - 1  BY FewHolders
  <2>2. list \in Seq(Objects)  BY DEF Init
  <2>3. ref \in [Holders -> Pointer] /\ cursor \in Pointer
    BY DEF Init, Pointer
  <2>4. count \in [Objects -> -Half .. Half - 1]  BY <2>1 DEF Init
  <2> QED  BY <2>2, <2>3, <2>4 DEF Init, TypeOK
<1>2. Lists(list, live)  BY DEF Init, Lists
<1>3. Unique /\ NoDangling /\ Owned /\ FontIcons /\ CountsUsers
  BY Constants DEF Init, Unique, NoDangling, Owned, FontIcons, CountsUsers
<1>4. Walk  BY DEF Init, Walk
<1> QED  BY <1>1, <1>2, <1>3, <1>4 DEF IInv

(* A Get of a loaded file: one user more of an object that is found.        *)
LEMMA GetLoadedKeeps ==
  ASSUME IInv, NEW c \in Clients, NEW f \in Files, GetLoaded(c, f)
  PROVE  IInv'
<1>1. PICK o \in Objects :
        /\ Found(f, o)
        /\ count' = [count EXCEPT ![o] = Wrap(@ + 1)]
        /\ ref' = [ref EXCEPT ![c] = o]
  BY DEF GetLoaded
<1>2. /\ Idle /\ ref[c] = None /\ (f \in Leaky => c = OwnerOf[f])
      /\ UNCHANGED <<list, live, fileID, expunging, cursor, ready>> /\ Idle'
  BY DEF GetLoaded, MayHold, Idle
<1>3. o \in live /\ fileID[o] = f  BY <1>1, QueryFinds
<1>4. c \in Holders /\ c \notin Objects  BY Constants
<1>5. ref \in [Holders -> Pointer] /\ count \in [Objects -> -Half .. Half - 1]
      /\ fileID \in [Objects -> Files]
  BY DEF IInv, TypeOK
<1>6. /\ Cardinality(UsersOf(ref', o)) = Cardinality(UsersOf(ref, o)) + 1
      /\ \A p \in Objects \ {o} : UsersOf(ref', p) = UsersOf(ref, p)
  <2>1. ref'[c] = o /\ \A k \in Holders \ {c} : ref'[k] = ref[k]
    BY <1>1, <1>4, <1>5
  <2>2. ref[c] # o /\ o # None  BY <1>2, Constants
  <2>3. /\ Cardinality(UsersOf(ref', o)) = Cardinality(UsersOf(ref, o)) + 1
        /\ \A p : p # o /\ p # ref[c] => UsersOf(ref', p) = UsersOf(ref, p)
    BY <2>1, <2>2, <1>4, UserGained
  <2> QED  BY <2>3, <1>2, Constants
<1>7. TypeOK'
  <2>1. count' \in [Objects -> -Half .. Half - 1]  BY <1>1, <1>5, Counting
  <2>2. ref' \in [Holders -> Pointer]  BY <1>1, <1>5 DEF Pointer
  <2> QED  BY <1>2, <2>1, <2>2 DEF IInv, TypeOK
<1>8. NoDangling' /\ Owned' /\ FontIcons'
  <2>1. \A h \in Holders : h # c => ref'[h] = ref[h]  BY <1>1, <1>5
  <2>2. ref'[c] = o  BY <1>1, <1>4, <1>5
  <2>3. NoDangling'  BY <2>1, <2>2, <1>2, <1>3 DEF IInv, NoDangling
  <2>4. Owned'  BY <2>1, <2>2, <1>2, <1>3 DEF IInv, Owned
  <2>5. FontIcons'
    BY <2>1, <2>2, <1>2, <1>4, Constants DEF IInv, FontIcons
  <2> QED  BY <2>3, <2>4, <2>5
<1>9. CountsUsers'
  <2> SUFFICES ASSUME NEW p \in live, fileID[p] \notin Leaky
               PROVE  count'[p] = Cardinality(UsersOf(ref', p)) /\ count'[p] > 0
    BY <1>2 DEF CountsUsers
  <2>1. p \in Objects /\ count[p] = Cardinality(UsersOf(ref, p)) /\ count[p] > 0
    BY <1>2 DEF IInv, TypeOK, CountsUsers
  <2>2. CASE p = o
    <3>1. count[p] + 1 < Half
      BY <2>1, <2>2, <1>6, FewUsers
    <3>2. count'[p] = count[p] + 1  BY <2>1, <2>2, <3>1, <1>1, <1>5, Counting
    <3> QED  BY <2>1, <2>2, <3>2, <1>6, <1>5
  <2>3. CASE p # o
    BY <2>1, <2>3, <1>1, <1>5, <1>6
  <2> QED  BY <2>2, <2>3
<1>10. Lists(list, live)' /\ Unique' /\ Walk'
  BY <1>2 DEF IInv, Lists, Unique, Walk, First
<1> QED  BY <1>7, <1>8, <1>9, <1>10 DEF IInv

(* Counting one more use of a leaky icon moves no pointer.                  *)
LEMMA DrawLoadedKeeps ==
  ASSUME IInv, NEW f \in Leaky, DrawLoaded(f)
  PROVE  IInv'
<1>1. PICK o \in Objects :
        Found(f, o) /\ count' = [count EXCEPT ![o] = Wrap(@ + 1)]
  BY DEF DrawLoaded
<1>2. /\ UNCHANGED <<list, live, fileID, ref, expunging, cursor, ready>>
      /\ Idle /\ Idle'
  BY DEF DrawLoaded, Idle
<1>3. o \in live /\ fileID[o] = f  BY <1>1, QueryFinds
<1>4. count \in [Objects -> -Half .. Half - 1]  BY DEF IInv, TypeOK
<1>5. TypeOK'
  <2>1. count' \in [Objects -> -Half .. Half - 1]  BY <1>1, <1>4, Counting
  <2> QED  BY <1>2, <2>1 DEF IInv, TypeOK
<1>6. CountsUsers'
  <2> SUFFICES ASSUME NEW p \in live, fileID[p] \notin Leaky
               PROVE  count'[p] = Cardinality(UsersOf(ref, p)) /\ count'[p] > 0
    BY <1>2 DEF CountsUsers
  <2>1. p \in Objects /\ p # o  BY <1>3 DEF IInv, TypeOK
  <2>2. count'[p] = count[p]  BY <2>1, <1>1, <1>4
  <2> QED  BY <2>2, <1>2 DEF IInv, CountsUsers
<1>7. NoDangling' /\ Owned' /\ FontIcons'
  BY <1>2 DEF IInv, NoDangling, Owned, FontIcons
<1>8. Lists(list, live)' /\ Unique' /\ Walk'
  BY <1>2 DEF IInv, Lists, Unique, Walk, First
<1> QED  BY <1>5, <1>6, <1>7, <1>8 DEF IInv

(* A fresh object: nobody points at it, and it points at nothing.           *)
LEMMA Fresh ==
  ASSUME IInv, Idle, NEW o \in Objects \ live
  PROVE  ref[o] = None /\ \A h \in Holders : ref[h] # o
<1>1. ref[o] = None  BY DEF IInv, FontIcons
<1>2. \A h \in Holders : ref[h] # o
  BY Constants DEF IInv, NoDangling
<1> QED  BY <1>1, <1>2

(* Loading a file that Query does not find.                                 *)
LEMMA LoadKeeps ==
  ASSUME IInv, Idle, NEW f \in Files, Missing(f), NEW o, Load(o, f),
         UNCHANGED <<expunging, cursor, ready>>
  PROVE  /\ Lists(list, live)' /\ Unique' /\ Walk' /\ Idle'
         /\ o \in Objects /\ o \notin live
         /\ live' = live \cup {o} /\ live' \subseteq Objects
         /\ fileID' \in [Objects -> Files] /\ fileID'[o] = f
         /\ \A p \in Objects \ {o} : fileID'[p] = fileID[p]
         /\ count' \in [Objects -> -Half .. Half - 1] /\ count'[o] = 1
         /\ \A p \in Objects \ {o} : count'[p] = count[p]
         /\ list' \in Seq(Objects)
<1>1. o \in Objects /\ o \notin live /\ live' = live \cup {o}
      /\ list' = AddResource(o, list)
  BY DEF Load
<1>2. Lists(list', live')  BY <1>1, ListAdd DEF IInv
<1>3. fileID' = [fileID EXCEPT ![o] = f] /\ fileID \in [Objects -> Files]
  BY DEF Load, IInv, TypeOK
<1>4. Unique'
  <2>1. \A p \in live : fileID[p] # f  BY QueryFinds
  <2>2. live \subseteq Objects  BY DEF IInv, TypeOK
  <2> QED  BY <1>1, <1>3, <2>1, <2>2 DEF IInv, Unique
<1>5. count' \in [Objects -> -Half .. Half - 1] /\ count'[o] = 1
      /\ \A p \in Objects \ {o} : count'[p] = count[p]
  <2>1. count' = [count EXCEPT ![o] = 1]
        /\ count \in [Objects -> -Half .. Half - 1]
    BY DEF Load, IInv, TypeOK
  <2>2. 1 \in -Half .. Half - 1
    <3>1. Cardinality(UsersOf([h \in Holders |-> o], o)) < Half
          /\ Cardinality(UsersOf([h \in Holders |-> o], o)) \in Nat
          /\ Cardinality(UsersOf([h \in Holders |-> o], o)) # 0
      <4>1. o \in UsersOf([h \in Holders |-> o], o)
        BY <1>1, Constants DEF UsersOf
      <4>2. UsersOf([h \in Holders |-> o], o) # {}  BY <4>1
      <4> QED  BY <4>2, FewUsers, FS_EmptySet
    <3> QED  BY <3>1, FewHolders
  <2> QED  BY <1>1, <2>1, <2>2
<1>6. Walk' /\ Idle'  BY <1>1 DEF IInv, Walk, Idle
<1>7. live' \subseteq Objects  BY <1>1 DEF IInv, TypeOK
<1>8. list' \in Seq(Objects)  BY <1>2 DEF Lists
<1> QED  BY <1>1, <1>2, <1>3, <1>4, <1>5, <1>6, <1>7, <1>8 DEF Lists

(* A Get that loads a file that is no font.                                 *)
LEMMA GetNewKeeps ==
  ASSUME IInv, NEW c \in Clients, NEW f \in Files, GetNew(c, f)
  PROVE  IInv'
<1>1. PICK o \in Objects : Load(o, f) /\ ref' = [ref EXCEPT ![c] = o]
  BY DEF GetNew
<1>2. /\ Idle /\ ref[c] = None /\ (f \in Leaky => c = OwnerOf[f])
      /\ f \notin Fonts /\ Missing(f) /\ UNCHANGED <<expunging, cursor, ready>>
  BY DEF GetNew, MayHold
<1>3. /\ Lists(list, live)' /\ Unique' /\ Walk' /\ Idle'
      /\ o \in Objects /\ o \notin live
      /\ live' = live \cup {o} /\ live' \subseteq Objects
      /\ fileID' \in [Objects -> Files] /\ fileID'[o] = f
      /\ \A p \in Objects \ {o} : fileID'[p] = fileID[p]
      /\ count' \in [Objects -> -Half .. Half - 1] /\ count'[o] = 1
      /\ \A p \in Objects \ {o} : count'[p] = count[p]
      /\ list' \in Seq(Objects)
  BY <1>1, <1>2, LoadKeeps
<1>4. c \in Holders /\ c \notin Objects /\ o # None  BY Constants
<1>5. ref \in [Holders -> Pointer] /\ live \subseteq Objects
  BY DEF IInv, TypeOK
<1>6. ref'[c] = o /\ \A h \in Holders \ {c} : ref'[h] = ref[h]
  BY <1>1, <1>4, <1>5
<1>7. ref[o] = None /\ \A h \in Holders : ref[h] # o  BY <1>2, <1>3, Fresh
<1>8. TypeOK'
  <2>1. ref' \in [Holders -> Pointer]  BY <1>1, <1>5 DEF Pointer
  <2> QED  BY <1>2, <1>3, <2>1 DEF IInv, TypeOK
<1>9. NoDangling'
  BY <1>2, <1>3, <1>6 DEF IInv, NoDangling
<1>10. Owned'
  <2>1. \A h \in Holders \ {c} : ref[h] # None =>
          ref[h] \in live /\ fileID'[ref[h]] = fileID[ref[h]]
    BY <1>2, <1>3, <1>5 DEF IInv, NoDangling
  <2> QED  BY <1>2, <1>3, <1>6, <2>1 DEF IInv, Owned
<1>11. FontIcons'
  <2> SUFFICES ASSUME NEW p \in Objects
               PROVE  /\ ref'[p] # None <=> p \in live' /\ fileID'[p] \in Fonts
                      /\ ref'[p] # None => fileID'[ref'[p]] = IconOf[fileID'[p]]
    BY DEF FontIcons
  <2>1. p \in Holders /\ ref'[p] = ref[p]  BY <1>4, <1>6, Constants
  <2>2. CASE p = o
    BY <2>1, <2>2, <1>2, <1>3, <1>7
  <2>3. CASE p # o
    <3>1. ref[p] # None => ref[p] \in Objects \ {o}
      BY <2>1, <1>2, <1>5, <1>7 DEF IInv, NoDangling
    <3>2. fileID'[p] = fileID[p] /\ (p \in live' <=> p \in live)
      BY <2>3, <1>3
    <3>3. ref[p] # None => fileID'[ref[p]] = fileID[ref[p]]  BY <3>1, <1>3
    <3> QED  BY <2>1, <3>2, <3>3, <1>2 DEF IInv, FontIcons
  <2> QED  BY <2>2, <2>3
<1>12. CountsUsers'
  <2>1. /\ Cardinality(UsersOf(ref', o)) = Cardinality(UsersOf(ref, o)) + 1
        /\ \A p : p # o /\ p # ref[c] => UsersOf(ref', p) = UsersOf(ref, p)
    <3>1. /\ c \in Holders /\ ref[c] # o /\ ref'[c] = o
          /\ \A k \in Holders \ {c} : ref'[k] = ref[k]
      BY <1>4, <1>6, <1>7
    <3> QED  BY <3>1, UserGained
  <2>2. Cardinality(UsersOf(ref, o)) = 0  BY <1>7, NoUsers
  <2> SUFFICES ASSUME NEW p \in live', fileID'[p] \notin Leaky
               PROVE  count'[p] = Cardinality(UsersOf(ref', p)) /\ count'[p] > 0
    BY DEF CountsUsers
  <2>3. CASE p = o
    BY <2>1, <2>2, <2>3, <1>3
  <2>4. CASE p # o
    <3>1. p \in live /\ p \in Objects /\ p # ref[c]
      BY <2>4, <1>2, <1>3, <1>5, Constants
    <3>2. UsersOf(ref', p) = UsersOf(ref, p) /\ count'[p] = count[p]
          /\ fileID'[p] = fileID[p]
      BY <2>1, <2>4, <3>1, <1>3
    <3> QED  BY <3>1, <3>2, <1>2 DEF IInv, CountsUsers
  <2> QED  BY <2>3, <2>4
<1> QED  BY <1>3, <1>8, <1>9, <1>10, <1>11, <1>12 DEF IInv

(* The drawing code loads its icon, and nobody points at it.                *)
LEMMA DrawNewKeeps ==
  ASSUME IInv, NEW f \in Leaky, DrawNew(f)
  PROVE  IInv'
<1>1. PICK o \in Objects : Load(o, f)
  BY DEF DrawNew
<1>2. /\ Idle /\ UNCHANGED ref /\ f \in Files /\ f \notin Fonts /\ Missing(f)
      /\ UNCHANGED <<expunging, cursor, ready>>
  BY Constants DEF DrawNew
<1>3. /\ Lists(list, live)' /\ Unique' /\ Walk' /\ Idle'
      /\ o \in Objects /\ o \notin live
      /\ live' = live \cup {o} /\ live' \subseteq Objects
      /\ fileID' \in [Objects -> Files] /\ fileID'[o] = f
      /\ \A p \in Objects \ {o} : fileID'[p] = fileID[p]
      /\ count' \in [Objects -> -Half .. Half - 1] /\ count'[o] = 1
      /\ \A p \in Objects \ {o} : count'[p] = count[p]
      /\ list' \in Seq(Objects)
  BY <1>1, <1>2, LoadKeeps
<1>4. ref \in [Holders -> Pointer] /\ live \subseteq Objects
  BY DEF IInv, TypeOK
<1>5. ref[o] = None /\ \A h \in Holders : ref[h] # o  BY <1>2, <1>3, Fresh
<1>6. TypeOK'
  BY <1>2, <1>3, <1>4 DEF IInv, TypeOK
<1>7. \A h \in Holders : ref[h] # None =>
        ref[h] \in live /\ ref[h] # o /\ fileID'[ref[h]] = fileID[ref[h]]
  BY <1>2, <1>3, <1>4, <1>5 DEF IInv, NoDangling
<1>8. NoDangling' /\ Owned'
  BY <1>2, <1>3, <1>7 DEF IInv, NoDangling, Owned
<1>9. FontIcons'
  <2> SUFFICES ASSUME NEW p \in Objects
               PROVE  /\ ref[p] # None <=> p \in live' /\ fileID'[p] \in Fonts
                      /\ ref[p] # None => fileID'[ref[p]] = IconOf[fileID'[p]]
    BY <1>2 DEF FontIcons
  <2>1. p \in Holders  BY Constants
  <2>2. CASE p = o
    BY <2>2, <1>2, <1>3, <1>5
  <2>3. CASE p # o
    BY <2>1, <2>3, <1>2, <1>3, <1>7 DEF IInv, FontIcons
  <2> QED  BY <2>2, <2>3
<1>10. CountsUsers'
  BY <1>2, <1>3, <1>4 DEF IInv, CountsUsers
<1> QED  BY <1>3, <1>6, <1>8, <1>9, <1>10 DEF IInv

(* Whoever disposes of the last use of an object is its only user: for an   *)
(* ordinary file because the count says so, for a leaky one because nobody  *)
(* but its owner ever points at it.                                         *)
LEMMA LastUser ==
  ASSUME IInv, Idle, NEW h \in Holders, ref[h] # None,
         Unused(Wrap(count[ref[h]] - 1))
  PROVE  \A k \in Holders : ref[k] = ref[h] => k = h
<1> DEFINE o == ref[h]
<1>1. o \in live /\ o \in Objects  BY DEF IInv, NoDangling, TypeOK
<1>2. CASE fileID[o] \in Leaky
  BY <1>2, <1>1 DEF IInv, Owned
<1>3. CASE fileID[o] \notin Leaky
  <2>1. count[o] = Cardinality(UsersOf(ref, o)) /\ count[o] > 0
        /\ count[o] \in -Half .. Half - 1
    BY <1>1, <1>3 DEF IInv, CountsUsers, TypeOK
  <2>2. Wrap(count[o] - 1) = count[o] - 1  BY <2>1, Counting
  <2>3. count[o] = 1  BY <2>1, <2>2, FewHolders DEF Unused
  <2> QED  BY <2>1, <2>3, OneUser
<1> QED  BY <1>2, <1>3

(* Unlinking and deleting a loaded object.                                  *)
LEMMA RemoveKeeps ==
  ASSUME IInv, NEW o \in live,
         list' = RemoveResource(o, list), live' = live \ {o},
         UNCHANGED <<fileID, expunging, cursor, ready>>, ~expunging
  PROVE  Lists(list, live)' /\ Unique' /\ Walk' /\ list' \in Seq(Objects)
<1>1. Lists(list', live')  BY ListRemove DEF IInv
<1>2. Unique' /\ Walk'  BY DEF IInv, Unique, Walk
<1> QED  BY <1>1, <1>2 DEF Lists

(* Dispose of an object that keeps other users.                             *)
LEMMA DisposeSharedKeeps ==
  ASSUME IInv, NEW c \in Clients, DisposeShared(c)
  PROVE  IInv'
<1> DEFINE o == ref[c]
<1>1. /\ Idle /\ Idle' /\ o # None /\ ~Unused(Wrap(count[o] - 1))
      /\ count' = [count EXCEPT ![o] = Wrap(@ - 1)]
      /\ ref' = [ref EXCEPT ![c] = None]
      /\ UNCHANGED <<list, live, fileID, expunging, cursor, ready>>
  BY DEF DisposeShared, Idle
<1>2. c \in Holders /\ c \notin Objects /\ None \notin Objects  BY Constants
<1>3. o \in live /\ o \in Objects  BY <1>1, <1>2 DEF IInv, NoDangling, TypeOK
<1>4. ref \in [Holders -> Pointer] /\ count \in [Objects -> -Half .. Half - 1]
      /\ live \subseteq Objects
  BY DEF IInv, TypeOK
<1>5. ref'[c] = None /\ \A h \in Holders \ {c} : ref'[h] = ref[h]
  BY <1>1, <1>2, <1>4
<1>6. TypeOK'
  <2>1. count' \in [Objects -> -Half .. Half - 1]  BY <1>1, <1>4, Counting
  <2>2. ref' \in [Holders -> Pointer]  BY <1>1, <1>4 DEF Pointer
  <2> QED  BY <1>1, <2>1, <2>2 DEF IInv, TypeOK
<1>7. NoDangling' /\ Owned'
  BY <1>1, <1>5 DEF IInv, NoDangling, Owned
<1>8. FontIcons'
  BY <1>1, <1>2, <1>5, Constants DEF IInv, FontIcons
<1>9. CountsUsers'
  <2>1. /\ Cardinality(UsersOf(ref', o)) = Cardinality(UsersOf(ref, o)) - 1
        /\ \A p : p # o /\ p # None => UsersOf(ref', p) = UsersOf(ref, p)
    <3>1. ref'[c] # o  BY <1>1, <1>5
    <3> QED  BY SMTT(30), <3>1, <1>2, <1>5, UserLost
  <2> SUFFICES ASSUME NEW p \in live, fileID[p] \notin Leaky
               PROVE  count'[p] = Cardinality(UsersOf(ref', p)) /\ count'[p] > 0
    BY <1>1 DEF CountsUsers
  <2>2. p \in Objects /\ count[p] = Cardinality(UsersOf(ref, p)) /\ count[p] > 0
        /\ count[p] \in -Half .. Half - 1
    BY <1>1, <1>4 DEF IInv, CountsUsers
  <2>3. CASE p = o
    <3>1. Wrap(count[o] - 1) = count[o] - 1  BY <2>2, <2>3, Counting
    <3>2. count'[o] = count[o] - 1  BY <3>1, <1>1, <1>3, <1>4
    <3> QED  BY <2>1, <2>2, <2>3, <3>1, <3>2, <1>1, FewHolders DEF Unused
  <2>4. CASE p # o
    <3>1. count'[p] = count[p]  BY <2>2, <2>4, <1>1, <1>4
    <3>2. UsersOf(ref', p) = UsersOf(ref, p)  BY <2>1, <2>2, <2>4, <1>2
    <3> QED  BY <2>2, <3>1, <3>2
  <2> QED  BY <2>3, <2>4
<1>10. Lists(list, live)' /\ Unique' /\ Walk'
  BY <1>1 DEF IInv, Lists, Unique, Walk, First
<1> QED  BY <1>6, <1>7, <1>8, <1>9, <1>10 DEF IInv

(* Dispose of the last use of an object that points at no other.            *)
LEMMA DisposeLastKeeps ==
  ASSUME IInv, NEW c \in Clients, DisposeLast(c)
  PROVE  IInv'
<1> DEFINE o == ref[c]
<1>1. /\ Idle /\ Idle' /\ o # None /\ Unused(Wrap(count[o] - 1)) /\ ref[o] = None
      /\ count' = [count EXCEPT ![o] = 0]
      /\ list' = RemoveResource(o, list) /\ live' = live \ {o}
      /\ ref' = [ref EXCEPT ![c] = None]
      /\ UNCHANGED <<fileID, expunging, cursor, ready>>
  BY DEF DisposeLast, Idle
<1>2. c \in Holders /\ c \notin Objects /\ None \notin Objects  BY Constants
<1>3. o \in live /\ o \in Objects  BY <1>1, <1>2 DEF IInv, NoDangling, TypeOK
<1>4. ref \in [Holders -> Pointer] /\ count \in [Objects -> -Half .. Half - 1]
      /\ live \subseteq Objects
  BY DEF IInv, TypeOK
<1>5. ref'[c] = None /\ \A h \in Holders \ {c} : ref'[h] = ref[h] /\ ref[h] # o
  BY <1>1, <1>2, <1>4, LastUser
<1>6. Lists(list, live)' /\ Unique' /\ Walk' /\ list' \in Seq(Objects)
  BY <1>1, <1>3, RemoveKeeps DEF Idle
<1>7. TypeOK'
  <2>1. count' \in [Objects -> -Half .. Half - 1]
    <3>1. 0 \in -Half .. Half - 1  BY FewHolders
    <3> QED  BY <3>1, <1>1, <1>4
  <2>2. ref' \in [Holders -> Pointer]  BY <1>1, <1>4 DEF Pointer
  <2> QED  BY <1>1, <1>6, <2>1, <2>2 DEF IInv, TypeOK
<1>8. NoDangling' /\ Owned'
  BY <1>1, <1>5 DEF IInv, NoDangling, Owned
<1>9. FontIcons'
  <2>1. fileID[o] \notin Fonts  BY <1>1, <1>3 DEF IInv, FontIcons
  <2> QED
    BY <2>1, <1>1, <1>2, <1>5, Constants DEF IInv, FontIcons
<1>10. CountsUsers'
  <2>1. \A p : p # o /\ p # None => UsersOf(ref', p) = UsersOf(ref, p)
    <3>1. ref'[c] # o  BY <1>1, <1>5
    <3> QED  BY <3>1, <1>2, <1>5, UserLost
  <2>2. \A p \in live' : p \in Objects /\ p # o /\ p # None /\ count'[p] = count[p]
    BY <1>1, <1>2, <1>4
  <2> QED  BY <2>1, <2>2, <1>1 DEF IInv, CountsUsers
<1> QED  BY <1>6, <1>7, <1>8, <1>9, <1>10 DEF IInv

(* Unlinking two objects, a font and the icon it alone uses.                *)
LEMMA RemoveTwoKeeps ==
  ASSUME IInv, NEW o \in live, NEW i \in live, o # i,
         list' = RemoveResource(i, RemoveResource(o, list)),
         live' = live \ {o, i},
         UNCHANGED <<fileID, expunging, cursor, ready>>, ~expunging
  PROVE  Lists(list, live)' /\ Unique' /\ Walk' /\ list' \in Seq(Objects)
<1>1. Lists(RemoveResource(o, list), live \ {o})  BY ListRemove DEF IInv
<1>2. i \in live \ {o}  OBVIOUS
<1>3. Lists(list', (live \ {o}) \ {i})  BY <1>1, <1>2, ListRemove
<1>4. (live \ {o}) \ {i} = live \ {o, i}  OBVIOUS
<1>5. Lists(list', live')  BY <1>3, <1>4
<1>6. Unique' /\ Walk'  BY DEF IInv, Unique, Walk
<1> QED  BY <1>5, <1>6 DEF Lists

(* A font, its icon and the pointer at the font, as a Dispose finds them.   *)
LEMMA FontAt ==
  ASSUME IInv, Idle, NEW c \in Clients, ref[c] # None, ref[ref[c]] # None
  PROVE  /\ ref[c] \in live /\ ref[c] \in Objects
         /\ ref[ref[c]] \in live /\ ref[ref[c]] \in Objects
         /\ ref[c] # ref[ref[c]] /\ c # ref[c]
         /\ fileID[ref[c]] \in Fonts
         /\ fileID[ref[ref[c]]] \notin Fonts /\ fileID[ref[ref[c]]] \notin Leaky
<1>1. c \in Holders /\ c \notin Objects  BY Constants
<1>2. ref[c] \in live /\ ref[c] \in Objects /\ ref[c] \in Holders
  BY <1>1, Constants DEF IInv, NoDangling, TypeOK
<1>3. ref[ref[c]] \in live /\ ref[ref[c]] \in Objects
  BY <1>2 DEF IInv, NoDangling, TypeOK
<1>4. fileID[ref[c]] \in Fonts /\ fileID[ref[ref[c]]] = IconOf[fileID[ref[c]]]
  BY <1>2 DEF IInv, FontIcons
<1> QED  BY <1>1, <1>2, <1>3, <1>4, Constants

(* After a font is deleted that c alone held, nobody else has lost anything *)
(* but the icon, and the icon one user.                                     *)
LEMMA FontGone ==
  ASSUME IInv, Idle, NEW c \in Clients, ref[c] # None, ref[ref[c]] # None,
         Unused(Wrap(count[ref[c]] - 1)),
         NEW s, s[c] = None, s[ref[c]] = None,
         \A h \in Holders \ {c, ref[c]} : s[h] = ref[h]
  PROVE  /\ \A h \in Holders \ {c, ref[c]} : ref[h] # ref[c]
         /\ Cardinality(UsersOf(s, ref[ref[c]])) =
              Cardinality(UsersOf(ref, ref[ref[c]])) - 1
         /\ \A p \in Objects : p # ref[c] /\ p # ref[ref[c]] =>
              UsersOf(s, p) = UsersOf(ref, p)
<1>1. c \in Holders /\ ref[c] \in Holders
      /\ ref[c] # ref[ref[c]] /\ None \notin Objects
  BY FontAt, Constants
<1>2. \A h \in Holders \ {c, ref[c]} : ref[h] # ref[c]
  BY <1>1, LastUser
<1>3. /\ Cardinality(UsersOf(s, ref[ref[c]])) =
           Cardinality(UsersOf(ref, ref[ref[c]])) - 1
      /\ \A p : p # ref[c] /\ p # ref[ref[c]] /\ p # None =>
           UsersOf(s, p) = UsersOf(ref, p)
  BY <1>1, TwoUsersLost
<1> QED  BY <1>1, <1>2, <1>3

(* Dispose of the last use of a font whose icon stays.                      *)
LEMMA DisposeFontKeeps ==
  ASSUME IInv, NEW c \in Clients, DisposeFont(c)
  PROVE  IInv'
<1> DEFINE o == ref[c]
           i == ref[ref[c]]
<1>1. /\ Idle /\ Idle' /\ o # None /\ i # None /\ Unused(Wrap(count[o] - 1))
      /\ ~Unused(Wrap(count[i] - 1))
      /\ count' = [count EXCEPT ![o] = 0, ![i] = Wrap(@ - 1)]
      /\ list' = RemoveResource(o, list) /\ live' = live \ {o}
      /\ ref' = [ref EXCEPT ![c] = None, ![o] = None]
      /\ UNCHANGED <<fileID, expunging, cursor, ready>>
  BY DEF DisposeFont, Idle
<1>2. /\ o \in live /\ o \in Objects /\ i \in live /\ i \in Objects
      /\ o # i /\ c # o /\ fileID[o] \in Fonts
      /\ fileID[i] \notin Fonts /\ fileID[i] \notin Leaky
  BY <1>1, FontAt
<1>3. /\ ref' \in [Holders -> Pointer]
      /\ ref'[c] = None /\ ref'[o] = None
      /\ \A h \in Holders \ {c, o} : ref'[h] = ref[h] /\ ref[h] # o
      /\ Cardinality(UsersOf(ref', i)) = Cardinality(UsersOf(ref, i)) - 1
      /\ \A p \in Objects : p # o /\ p # i => UsersOf(ref', p) = UsersOf(ref, p)
  <2>1. ref \in [Holders -> Pointer] /\ c \in Holders /\ o \in Holders
    BY <1>2, Constants DEF IInv, TypeOK
  <2>2. ref' \in [Holders -> Pointer]  BY <2>1, <1>1 DEF Pointer
  <2>3. ref'[c] = None /\ ref'[o] = None
        /\ \A h \in Holders \ {c, o} : ref'[h] = ref[h]
    BY <2>1, <1>1
  <2>4. /\ \A h \in Holders \ {c, o} : ref[h] # o
        /\ Cardinality(UsersOf(ref', i)) = Cardinality(UsersOf(ref, i)) - 1
        /\ \A p \in Objects : p # o /\ p # i => UsersOf(ref', p) = UsersOf(ref, p)
    <3>1. /\ Idle /\ ref[c] # None /\ ref[ref[c]] # None
          /\ Unused(Wrap(count[ref[c]] - 1))
      BY <1>1
    <3> QED  BY <3>1, <2>3, FontGone
  <2> QED  BY <2>2, <2>3, <2>4
<1>4. count \in [Objects -> -Half .. Half - 1] /\ live \subseteq Objects
      /\ None \notin Objects
  BY Constants DEF IInv, TypeOK
<1>5. Lists(list, live)' /\ Unique' /\ Walk' /\ list' \in Seq(Objects)
  BY <1>1, <1>2, RemoveKeeps DEF Idle
<1>6. count[i] = Cardinality(UsersOf(ref, i)) /\ count[i] > 0
      /\ Wrap(count[i] - 1) = count[i] - 1
      /\ count[i] - 1 \in -Half .. Half - 1 /\ count[i] - 1 > 0
  <2>1. count[i] = Cardinality(UsersOf(ref, i)) /\ count[i] > 0
        /\ count[i] \in -Half .. Half - 1
    BY <1>1, <1>2, <1>4 DEF IInv, CountsUsers
  <2>2. Wrap(count[i] - 1) = count[i] - 1 /\ Wrap(count[i] - 1) \in -Half .. Half - 1
    BY <2>1, Counting
  <2> QED  BY <2>1, <2>2, <1>1, FewHolders DEF Unused
<1>7. count'[i] = count[i] - 1 /\ count' \in [Objects -> -Half .. Half - 1]
      /\ \A p \in Objects : p # o /\ p # i => count'[p] = count[p]
  <2>1. 0 \in -Half .. Half - 1  BY FewHolders
  <2> QED  BY <2>1, <1>1, <1>2, <1>4, <1>6
<1>8. TypeOK'
  BY <1>1, <1>3, <1>4, <1>5, <1>7 DEF IInv, TypeOK
<1>9. NoDangling' /\ Owned'
  BY <1>1, <1>3 DEF IInv, NoDangling, Owned
<1>10. FontIcons'
  BY <1>1, <1>2, <1>3, Constants DEF IInv, FontIcons
<1>11. CountsUsers'
  <2> SUFFICES ASSUME NEW p \in live', fileID'[p] \notin Leaky
               PROVE  count'[p] = Cardinality(UsersOf(ref', p)) /\ count'[p] > 0
    BY DEF CountsUsers
  <2>1. p \in live /\ p \in Objects /\ p # o /\ fileID[p] \notin Leaky
    BY <1>1, <1>4
  <2>2. CASE p = i
    BY <2>2, <1>3, <1>6, <1>7
  <2>3. CASE p # i
    BY <2>1, <2>3, <1>1, <1>3, <1>7 DEF IInv, CountsUsers
  <2> QED  BY <2>2, <2>3
<1> QED  BY <1>5, <1>8, <1>9, <1>10, <1>11 DEF IInv

(* Dispose of the last use of a font, and with it of its icon.              *)
LEMMA DisposeFontAndIconKeeps ==
  ASSUME IInv, NEW c \in Clients, DisposeFontAndIcon(c)
  PROVE  IInv'
<1> DEFINE o == ref[c]
           i == ref[ref[c]]
<1>1. /\ Idle /\ Idle' /\ o # None /\ i # None /\ Unused(Wrap(count[o] - 1))
      /\ Unused(Wrap(count[i] - 1))
      /\ count' = [count EXCEPT ![o] = 0, ![i] = 0]
      /\ list' = RemoveResource(i, RemoveResource(o, list))
      /\ live' = live \ {o, i}
      /\ ref' = [ref EXCEPT ![c] = None, ![o] = None]
      /\ UNCHANGED <<fileID, expunging, cursor, ready>>
  BY DEF DisposeFontAndIcon, Idle
<1>2. /\ o \in live /\ o \in Objects /\ i \in live /\ i \in Objects
      /\ o # i /\ c # o /\ fileID[o] \in Fonts
      /\ fileID[i] \notin Fonts /\ fileID[i] \notin Leaky
  BY <1>1, FontAt
<1>3. /\ ref' \in [Holders -> Pointer]
      /\ ref'[c] = None /\ ref'[o] = None
      /\ \A h \in Holders \ {c, o} : ref'[h] = ref[h] /\ ref[h] # o
      /\ Cardinality(UsersOf(ref', i)) = Cardinality(UsersOf(ref, i)) - 1
      /\ \A p \in Objects : p # o /\ p # i => UsersOf(ref', p) = UsersOf(ref, p)
  <2>1. ref \in [Holders -> Pointer] /\ c \in Holders /\ o \in Holders
    BY <1>2, Constants DEF IInv, TypeOK
  <2>2. ref' \in [Holders -> Pointer]  BY <2>1, <1>1 DEF Pointer
  <2>3. ref'[c] = None /\ ref'[o] = None
        /\ \A h \in Holders \ {c, o} : ref'[h] = ref[h]
    BY <2>1, <1>1
  <2>4. /\ \A h \in Holders \ {c, o} : ref[h] # o
        /\ Cardinality(UsersOf(ref', i)) = Cardinality(UsersOf(ref, i)) - 1
        /\ \A p \in Objects : p # o /\ p # i => UsersOf(ref', p) = UsersOf(ref, p)
    <3>1. /\ Idle /\ ref[c] # None /\ ref[ref[c]] # None
          /\ Unused(Wrap(count[ref[c]] - 1))
      BY <1>1
    <3> QED  BY <3>1, <2>3, FontGone
  <2> QED  BY <2>2, <2>3, <2>4
<1>4. \A h \in Holders : h # o => ref[h] # i
  BY <1>1, <1>2, Constants, LastUser
<1>5. count \in [Objects -> -Half .. Half - 1] /\ live \subseteq Objects
      /\ None \notin Objects
  BY Constants DEF IInv, TypeOK
<1>6. Lists(list, live)' /\ Unique' /\ Walk' /\ list' \in Seq(Objects)
  BY <1>1, <1>2, RemoveTwoKeeps DEF Idle
<1>7. count' \in [Objects -> -Half .. Half - 1]
      /\ \A p \in Objects : p # o /\ p # i => count'[p] = count[p]
  <2>1. 0 \in -Half .. Half - 1  BY FewHolders
  <2> QED  BY <2>1, <1>1, <1>2, <1>5
<1>8. TypeOK'
  BY <1>1, <1>3, <1>5, <1>6, <1>7 DEF IInv, TypeOK
<1>9. NoDangling' /\ Owned'
  BY <1>1, <1>3, <1>4 DEF IInv, NoDangling, Owned
<1>10. FontIcons'
  <2>1. ref[i] = None  BY <1>1, <1>2 DEF IInv, FontIcons
  <2> QED  BY <2>1, <1>1, <1>2, <1>3, Constants DEF IInv, FontIcons
<1>11. CountsUsers'
  <2>1. \A p \in live' : p \in live /\ p \in Objects /\ p # o /\ p # i
    BY <1>1, <1>5
  <2> QED  BY ZenonT(30), <2>1, <1>1, <1>3, <1>7 DEF IInv, CountsUsers
<1> QED  BY <1>6, <1>8, <1>9, <1>10, <1>11 DEF IInv

(* A Get that loads a font whose icon is in memory.                         *)
LEMMA GetFontWithIconKeeps ==
  ASSUME IInv, NEW c \in Clients, NEW f \in Files, GetFontWithIcon(c, f)
  PROVE  IInv'
<1>1. PICK o \in Objects \ live, i \in Objects :
        /\ Found(IconOf[f], i)
        /\ count' = [count EXCEPT ![i] = Wrap(@ + 1), ![o] = 1]
        /\ fileID' = [fileID EXCEPT ![o] = f]
        /\ live' = live \cup {o}
        /\ ref' = [ref EXCEPT ![c] = o, ![o] = i]
        /\ list' = AddResource(o, list)
  BY DEF GetFontWithIcon
<1>2. /\ Idle /\ Idle' /\ ref[c] = None /\ f \in Fonts /\ Missing(f)
      /\ UNCHANGED <<expunging, cursor, ready>>
  BY DEF GetFontWithIcon, MayHold, Idle
<1>3. i \in live /\ fileID[i] = IconOf[f] /\ o # i  BY <1>1, QueryFinds
<1>4. /\ IconOf[f] \notin Fonts /\ IconOf[f] \notin Leaky /\ f \notin Leaky
      /\ c \in Holders /\ c \notin Objects /\ None \notin Objects /\ o # None /\ i # None
  BY <1>1, <1>2, Constants
<1>5. /\ ref \in [Holders -> Pointer] /\ live \subseteq Objects
      /\ count \in [Objects -> -Half .. Half - 1] /\ fileID \in [Objects -> Files]
  BY DEF IInv, TypeOK
<1>6. ref[o] = None /\ \A h \in Holders : ref[h] # o  BY <1>1, <1>2, Fresh
<1>7. /\ ref' \in [Holders -> Pointer]
      /\ ref'[c] = o /\ ref'[o] = i
      /\ \A h \in Holders \ {c, o} : ref'[h] = ref[h]
      /\ Cardinality(UsersOf(ref', i)) = Cardinality(UsersOf(ref, i)) + 1
      /\ Cardinality(UsersOf(ref', o)) = 1
      /\ \A p \in Objects : p # o /\ p # i => UsersOf(ref', p) = UsersOf(ref, p)
  <2>1. o \in Holders /\ c # o  BY <1>4, Constants
  <2>2. ref' \in [Holders -> Pointer]  BY <1>1, <1>5 DEF Pointer
  <2>3. ref'[c] = o /\ ref'[o] = i
        /\ \A h \in Holders \ {c, o} : ref'[h] = ref[h]
    BY <2>1, <1>1, <1>4, <1>5
  <2>4. /\ Cardinality(UsersOf(ref', i)) = Cardinality(UsersOf(ref, i)) + 1
        /\ Cardinality(UsersOf(ref', o)) = 1
        /\ \A p : p # o /\ p # i /\ p # None => UsersOf(ref', p) = UsersOf(ref, p)
    <3>1. ref[c] = None /\ o # i  BY <1>2, <1>3
    <3> QED  BY <2>1, <2>3, <3>1, <1>4, <1>6, TwoUsersGained
  <2> QED  BY <2>2, <2>3, <2>4, <1>4
<1>8. fileID'[o] = f /\ fileID' \in [Objects -> Files]
      /\ \A p \in Objects \ {o} : fileID'[p] = fileID[p]
  BY <1>1, <1>5
<1>9. count[i] = Cardinality(UsersOf(ref, i)) /\ count[i] > 0
      /\ count[i] \in -Half .. Half - 1
  BY <1>2, <1>3, <1>4, <1>5 DEF IInv, CountsUsers
<1>10. count[i] + 1 < Half /\ Wrap(count[i] + 1) = count[i] + 1
       /\ 1 \in -Half .. Half - 1 /\ count[i] + 1 \in -Half .. Half - 1
  <2>1. count[i] + 1 < Half  BY <1>7, <1>9, FewUsers
  <2>2. Wrap(count[i] + 1) = count[i] + 1  BY <2>1, <1>9, Counting
  <2> QED  BY <2>1, <2>2, <1>9, FewHolders
<1>11. /\ count'[o] = 1 /\ count'[i] = count[i] + 1
       /\ count' \in [Objects -> -Half .. Half - 1]
       /\ \A p \in Objects : p # o /\ p # i => count'[p] = count[p]
  BY <1>1, <1>3, <1>5, <1>10
<1>12. Lists(list', live') /\ list' \in Seq(Objects)
  <2>1. Lists(list', live')  BY <1>1, ListAdd DEF IInv
  <2> QED  BY <2>1 DEF Lists
<1>13. Unique'
  <2>1. \A p \in live : fileID[p] # f  BY <1>2, QueryFinds
  <2> QED  BY <2>1, <1>1, <1>5, <1>8 DEF IInv, Unique
<1>14. Walk'  BY <1>1, <1>2 DEF IInv, Walk, Idle
<1>15. TypeOK'
  <2>1. live' \subseteq Objects  BY <1>1, <1>5
  <2> QED  BY <2>1, <1>2, <1>7, <1>8, <1>11, <1>12 DEF IInv, TypeOK
<1>16. NoDangling'
  BY <1>1, <1>2, <1>3, <1>7 DEF IInv, NoDangling
<1>17. \A h \in Holders \ {c, o} : ref[h] # None =>
         ref[h] \in Objects /\ ref[h] # o /\ fileID'[ref[h]] = fileID[ref[h]]
  BY <1>5, <1>6, <1>8 DEF Pointer
<1>18. fileID'[i] = IconOf[f]  BY <1>3, <1>8
<1>19. Owned'
  BY <1>2, <1>4, <1>7, <1>8, <1>17, <1>18 DEF IInv, Owned
<1>20. FontIcons'
  <2> SUFFICES ASSUME NEW p \in Objects
               PROVE  /\ ref'[p] # None <=> p \in live' /\ fileID'[p] \in Fonts
                      /\ ref'[p] # None => fileID'[ref'[p]] = IconOf[fileID'[p]]
    BY DEF FontIcons
  <2>1. CASE p = o
    BY <2>1, <1>1, <1>2, <1>4, <1>7, <1>8, <1>18
  <2>2. CASE p # o
    <3>1. p \in Holders \ {c, o} /\ ref'[p] = ref[p]  BY <2>2, <1>4, <1>7, Constants
    <3>2. fileID'[p] = fileID[p] /\ (p \in live' <=> p \in live)
      BY <2>2, <1>1, <1>8
    <3>3. /\ ref[p] # None <=> p \in live /\ fileID[p] \in Fonts
          /\ ref[p] # None => fileID[ref[p]] = IconOf[fileID[p]]
      BY <1>2 DEF IInv, FontIcons
    <3>4. ref[p] # None => fileID'[ref[p]] = fileID[ref[p]]  BY <3>1, <1>17
    <3> QED  BY <3>1, <3>2, <3>3, <3>4
  <2> QED  BY <2>1, <2>2
<1>21. CountsUsers'
  <2> SUFFICES ASSUME NEW p \in live', fileID'[p] \notin Leaky
               PROVE  count'[p] = Cardinality(UsersOf(ref', p)) /\ count'[p] > 0
    BY DEF CountsUsers
  <2>1. CASE p = o
    BY <2>1, <1>7, <1>11
  <2>2. CASE p = i
    BY <2>2, <1>7, <1>9, <1>11, <1>5
  <2>3. CASE p # o /\ p # i
    <3>1. p \in live /\ p \in Objects  BY <2>3, <1>1, <1>5
    <3>2. count'[p] = count[p] /\ UsersOf(ref', p) = UsersOf(ref, p)
          /\ fileID'[p] = fileID[p]
      BY <2>3, <3>1, <1>7, <1>8, <1>11
    <3> QED  BY <3>1, <3>2, <1>2 DEF IInv, CountsUsers
  <2> QED  BY <2>1, <2>2, <2>3
<1> QED  BY <1>12, <1>13, <1>14, <1>15, <1>16, <1>19, <1>20, <1>21 DEF IInv

(* A Get that loads a font and the icon with it.                            *)
LEMMA GetFontLoadingIconKeeps ==
  ASSUME IInv, NEW c \in Clients, NEW f \in Files, GetFontLoadingIcon(c, f)
  PROVE  IInv'
<1>1. PICK o \in Objects \ live, i \in Objects \ live :
        /\ o # i
        /\ count' = [count EXCEPT ![i] = 1, ![o] = 1]
        /\ fileID' = [fileID EXCEPT ![i] = IconOf[f], ![o] = f]
        /\ live' = live \cup {i, o}
        /\ ref' = [ref EXCEPT ![c] = o, ![o] = i]
        /\ list' = AddResource(o, AddResource(i, list))
  BY DEF GetFontLoadingIcon
<1>2. /\ Idle /\ Idle' /\ ref[c] = None /\ f \in Fonts /\ Missing(f)
      /\ Missing(IconOf[f]) /\ UNCHANGED <<expunging, cursor, ready>>
  BY DEF GetFontLoadingIcon, MayHold, Idle
<1>3. /\ IconOf[f] \in Files /\ IconOf[f] \notin Fonts /\ IconOf[f] \notin Leaky
      /\ f \notin Leaky /\ f # IconOf[f]
      /\ c \in Holders /\ c \notin Objects /\ None \notin Objects /\ o # None /\ i # None
  BY <1>1, <1>2, Constants
<1>4. /\ ref \in [Holders -> Pointer] /\ live \subseteq Objects
      /\ count \in [Objects -> -Half .. Half - 1] /\ fileID \in [Objects -> Files]
  BY DEF IInv, TypeOK
<1>5. /\ ref[o] = None /\ \A h \in Holders : ref[h] # o
      /\ ref[i] = None /\ \A h \in Holders : ref[h] # i
  BY <1>1, <1>2, Fresh
<1>6. /\ ref' \in [Holders -> Pointer]
      /\ ref'[c] = o /\ ref'[o] = i
      /\ \A h \in Holders \ {c, o} : ref'[h] = ref[h]
      /\ Cardinality(UsersOf(ref', i)) = Cardinality(UsersOf(ref, i)) + 1
      /\ Cardinality(UsersOf(ref', o)) = 1
      /\ \A p \in Objects : p # o /\ p # i => UsersOf(ref', p) = UsersOf(ref, p)
  <2>1. o \in Holders /\ c # o  BY <1>3, Constants
  <2>2. ref' \in [Holders -> Pointer]  BY <1>1, <1>4 DEF Pointer
  <2>3. ref'[c] = o /\ ref'[o] = i
        /\ \A h \in Holders \ {c, o} : ref'[h] = ref[h]
    BY <2>1, <1>1, <1>3, <1>4
  <2>4. /\ Cardinality(UsersOf(ref', i)) = Cardinality(UsersOf(ref, i)) + 1
        /\ Cardinality(UsersOf(ref', o)) = 1
        /\ \A p : p # o /\ p # i /\ p # None => UsersOf(ref', p) = UsersOf(ref, p)
    <3>1. ref[c] = None /\ o # i  BY <1>1, <1>2
    <3> QED  BY <2>1, <2>3, <3>1, <1>3, <1>5, TwoUsersGained
  <2> QED  BY <2>2, <2>3, <2>4, <1>3
<1>7. Cardinality(UsersOf(ref', i)) = 1
  <2>1. Cardinality(UsersOf(ref, i)) = 0  BY <1>5, NoUsers
  <2> QED  BY <2>1, <1>6
<1>8. /\ fileID'[o] = f /\ fileID'[i] = IconOf[f] /\ fileID' \in [Objects -> Files]
      /\ \A p \in Objects \ {o, i} : fileID'[p] = fileID[p]
  BY <1>1, <1>3, <1>4
<1>9. /\ count'[o] = 1 /\ count'[i] = 1
      /\ count' \in [Objects -> -Half .. Half - 1]
      /\ \A p \in Objects : p # o /\ p # i => count'[p] = count[p]
  <2>1. 1 \in -Half .. Half - 1
    <3>1. Cardinality(UsersOf(ref', i)) < Half  BY FewUsers
    <3> QED  BY <3>1, <1>7, FewHolders
  <2> QED  BY <2>1, <1>1, <1>4
<1>10. Lists(list', live') /\ list' \in Seq(Objects)
  <2>1. Lists(AddResource(i, list), live \cup {i})  BY <1>1, ListAdd DEF IInv
  <2>2. o \notin live \cup {i} /\ o \in Objects  BY <1>1
  <2>3. Lists(list', (live \cup {i}) \cup {o})  BY <2>1, <2>2, <1>1, ListAdd
  <2>4. (live \cup {i}) \cup {o} = live'  BY <1>1
  <2>5. Lists(list', live')  BY <2>3, <2>4
  <2> QED  BY <2>5 DEF Lists
<1>11. Unique'
  <2>1. \A p \in live : fileID[p] # f /\ fileID[p] # IconOf[f]  BY <1>2, QueryFinds
  <2> QED  BY <2>1, <1>1, <1>3, <1>4, <1>8 DEF IInv, Unique
<1>12. Walk'  BY <1>1, <1>2 DEF IInv, Walk, Idle
<1>13. TypeOK'
  <2>1. live' \subseteq Objects  BY <1>1, <1>4
  <2> QED  BY <2>1, <1>2, <1>6, <1>8, <1>9, <1>10 DEF IInv, TypeOK
<1>14. NoDangling'
  BY <1>1, <1>2, <1>6 DEF IInv, NoDangling
<1>15. \A h \in Holders \ {c, o} : ref[h] # None =>
         ref[h] \in Objects /\ fileID'[ref[h]] = fileID[ref[h]]
  BY <1>4, <1>5, <1>8 DEF Pointer
<1>16. Owned'
  BY <1>2, <1>3, <1>6, <1>8, <1>15 DEF IInv, Owned
<1>17. FontIcons'
  <2> SUFFICES ASSUME NEW p \in Objects
               PROVE  /\ ref'[p] # None <=> p \in live' /\ fileID'[p] \in Fonts
                      /\ ref'[p] # None => fileID'[ref'[p]] = IconOf[fileID'[p]]
    BY DEF FontIcons
  <2>1. CASE p = o
    BY <2>1, <1>1, <1>2, <1>3, <1>6, <1>8
  <2>2. CASE p = i
    <3>1. i \in Holders \ {c, o}  BY <1>1, <1>3, Constants
    <3> QED  BY <2>2, <3>1, <1>3, <1>5, <1>6, <1>8
  <2>3. CASE p # o /\ p # i
    <3>1. p \in Holders \ {c, o} /\ ref'[p] = ref[p]  BY <2>3, <1>3, <1>6, Constants
    <3>2. fileID'[p] = fileID[p] /\ (p \in live' <=> p \in live)
      BY <2>3, <1>1, <1>8
    <3>3. /\ ref[p] # None <=> p \in live /\ fileID[p] \in Fonts
          /\ ref[p] # None => fileID[ref[p]] = IconOf[fileID[p]]
      BY <1>2 DEF IInv, FontIcons
    <3>4. ref[p] # None => fileID'[ref[p]] = fileID[ref[p]]  BY <3>1, <1>15
    <3> QED  BY <3>1, <3>2, <3>3, <3>4
  <2> QED  BY <2>1, <2>2, <2>3
<1>18. CountsUsers'
  <2> SUFFICES ASSUME NEW p \in live', fileID'[p] \notin Leaky
               PROVE  count'[p] = Cardinality(UsersOf(ref', p)) /\ count'[p] > 0
    BY DEF CountsUsers
  <2>1. CASE p = o \/ p = i
    BY <2>1, <1>6, <1>7, <1>9
  <2>2. CASE p # o /\ p # i
    <3>1. p \in live /\ p \in Objects  BY <2>2, <1>1, <1>4
    <3>2. count'[p] = count[p] /\ UsersOf(ref', p) = UsersOf(ref, p)
          /\ fileID'[p] = fileID[p]
      BY <2>2, <3>1, <1>6, <1>8, <1>9
    <3> QED  BY <3>1, <3>2, <1>2 DEF IInv, CountsUsers
  <2> QED  BY <2>1, <2>2
<1> QED  BY <1>10, <1>11, <1>12, <1>13, <1>14, <1>16, <1>17, <1>18 DEF IInv
-----------------------------------------------------------------------------
(* The cursor of Expunge is the first of what is left.                      *)
LEMMA FirstInList ==
  ASSUME NEW l, NEW S, Lists(l, S), S \subseteq Objects
  PROVE  /\ First(l) # None => First(l) \in S
         /\ First(l) = None => l = <<>> /\ S = {}
<1>1. l \in Seq(Objects)  BY DEF Lists
<1>2. CASE l = <<>>
  BY <1>2 DEF First, Lists
<1>3. CASE l # <<>>
  <2>1. Head(l) = l[1] /\ 1 \in 1 .. Len(l)  BY <1>1, <1>3
  <2> QED  BY <2>1, <1>3, Constants DEF First, Lists
<1> QED  BY <1>2, <1>3

(* While the list is expunged nothing is asked of pointers and counts.      *)
LEMMA ExpungeStartKeeps == ASSUME IInv, ExpungeStart  PROVE IInv'
<1>1. /\ expunging' = TRUE /\ cursor' = First(list) /\ Idle /\ ~Idle'
      /\ UNCHANGED <<list, live, fileID, count, ref, ready>>
  BY DEF ExpungeStart, First, Idle
<1>2. cursor' \in Pointer
  BY <1>1, FirstInList DEF IInv, TypeOK, Pointer
<1>3. TypeOK'  BY <1>1, <1>2 DEF IInv, TypeOK
<1>4. Lists(list, live)' /\ Unique' /\ Walk'
  BY <1>1 DEF IInv, Lists, Unique, Walk, First, Idle
<1>5. NoDangling' /\ Owned' /\ FontIcons' /\ CountsUsers'
  BY <1>1 DEF NoDangling, Owned, FontIcons, CountsUsers
<1> QED  BY <1>3, <1>4, <1>5 DEF IInv

LEMMA ExpungeNextKeeps == ASSUME IInv, ExpungeNext  PROVE IInv'
<1>1. /\ expunging /\ cursor # None /\ ~Idle' /\ cursor' = NextOf(cursor)
      /\ list' = RemoveResource(cursor, list) /\ live' = live \ {cursor}
      /\ count' = [count EXCEPT ![cursor] = 0]
      /\ ref' = [ref EXCEPT ![cursor] = None]
      /\ UNCHANGED <<fileID, expunging, ready>>
  BY DEF ExpungeNext, DisposedWith, Idle
<1>2. cursor = First(list) /\ cursor \in live /\ cursor \in Objects
  BY <1>1, FirstInList DEF IInv, Walk, TypeOK
<1>3. list \in Seq(Objects) /\ list # <<>> /\ cursor = Head(list)
      /\ cursor = list[1] /\ Len(list) \in Nat /\ Len(list) >= 1
  <2>1. list \in Seq(Objects)  BY DEF IInv, Lists
  <2>2. list # <<>>  BY <1>1, <1>2 DEF First
  <2> QED  BY <2>1, <2>2, <1>2 DEF First
<1>4. Lists(list', live') /\ First(list') = IF Len(list) > 1 THEN list[2] ELSE None
  BY <1>1, <1>2, <1>3, ListRemove DEF IInv
<1>5. NextOf(cursor) = IF Len(list) > 1 THEN list[2] ELSE None
  <2>1. \A k \in 1 .. Len(list) - 1 : list[k] = cursor => k = 1
    BY <1>3 DEF IInv, Lists
  <2>2. CASE Len(list) > 1
    <3> DEFINE n == CHOOSE i \in 1 .. Len(list) - 1 : list[i] = cursor
    <3>1. 1 \in 1 .. Len(list) - 1 /\ list[1] = cursor  BY <2>2, <1>3
    <3>2. n = 1  BY <2>1, <3>1
    <3>3. NextOf(cursor) = list[1 + n]  BY <3>1 DEF NextOf
    <3> HIDE DEF n
    <3> QED  BY <2>2, <3>2, <3>3
  <2>3. CASE ~(Len(list) > 1)
    BY <2>3, <1>3 DEF NextOf
  <2> QED  BY <2>2, <2>3
<1>6. cursor' = First(list')  BY <1>1, <1>4, <1>5
<1>7. Walk'  BY <1>1, <1>6 DEF IInv, Walk
<1>8. TypeOK'
  <2>1. list' \in Seq(Objects)  BY <1>4 DEF Lists
  <2>2. live' \subseteq Objects  BY <1>1 DEF IInv, TypeOK
  <2>3. cursor' \in Pointer  BY <1>4, <1>6, <2>2, FirstInList DEF Pointer
  <2>4. count' \in [Objects -> -Half .. Half - 1]
    <3>1. 0 \in -Half .. Half - 1  BY FewHolders
    <3> QED  BY <3>1, <1>1 DEF IInv, TypeOK
  <2>5. ref' \in [Holders -> Pointer]  BY <1>1 DEF IInv, TypeOK, Pointer
  <2> QED  BY <1>1, <2>1, <2>2, <2>3, <2>4, <2>5 DEF IInv, TypeOK
<1>9. Unique'  BY <1>1 DEF IInv, Unique
<1>10. NoDangling' /\ Owned' /\ FontIcons' /\ CountsUsers'
  BY <1>1 DEF NoDangling, Owned, FontIcons, CountsUsers
<1> QED  BY <1>4, <1>7, <1>8, <1>9, <1>10 DEF IInv

LEMMA ExpungeEndKeeps == ASSUME IInv, ExpungeEnd  PROVE IInv'
<1>1. /\ expunging /\ cursor = None /\ ~Idle'
      /\ expunging' = FALSE /\ ready' = FALSE /\ list' = <<>>
      /\ UNCHANGED <<live, fileID, count, ref, cursor>>
  BY DEF ExpungeEnd, Idle
<1>2. list = <<>> /\ live = {}
  BY <1>1, FirstInList DEF IInv, Walk, TypeOK
<1>3. TypeOK'
  <2>1. list' \in Seq(Objects)  BY <1>1
  <2> QED  BY <2>1, <1>1 DEF IInv, TypeOK
<1>4. Lists(list, live)' /\ Unique' /\ Walk'
  BY <1>1, <1>2 DEF IInv, Lists, Unique, Walk
<1>5. NoDangling' /\ Owned' /\ FontIcons' /\ CountsUsers'
  BY <1>1 DEF NoDangling, Owned, FontIcons, CountsUsers
<1> QED  BY <1>3, <1>4, <1>5 DEF IInv

LEMMA NextIInv == IInv /\ [Next]_vars => IInv'
<1> SUFFICES ASSUME IInv, [Next]_vars  PROVE IInv'
  OBVIOUS
<1>1. ASSUME NEW c \in Clients, NEW f \in Files, Get(c, f)  PROVE IInv'
  BY <1>1, GetLoadedKeeps, GetNewKeeps, GetFontWithIconKeeps,
     GetFontLoadingIconKeeps DEF Get
<1>2. ASSUME NEW c \in Clients, Dispose(c)  PROVE IInv'
  BY <1>2, DisposeSharedKeeps, DisposeLastKeeps, DisposeFontKeeps,
     DisposeFontAndIconKeeps DEF Dispose
<1>3. ASSUME NEW f \in Leaky, Draw(f)  PROVE IInv'
  BY <1>3, DrawLoadedKeeps, DrawNewKeeps DEF Draw
<1>4. CASE ExpungeStart  BY <1>4, ExpungeStartKeeps
<1>5. CASE ExpungeNext  BY <1>5, ExpungeNextKeeps
<1>6. CASE ExpungeEnd  BY <1>6, ExpungeEndKeeps
<1>7. CASE UNCHANGED vars
  BY <1>7 DEF vars, IInv, TypeOK, Lists, Unique, NoDangling, Owned, FontIcons,
              CountsUsers, Walk, First, Idle
<1> QED  BY <1>1, <1>2, <1>3, <1>4, <1>5, <1>6, <1>7 DEF Next

(* The strengthened invariant holds in every reachable state.               *)
THEOREM Invariance == Spec => []IInv
BY InitIInv, NextIInv, PTL DEF Spec

(* The counts stay in 16 bits, whatever leaks, and the list stays a list.   *)
THEOREM TypeCorrect == Spec => []TypeOK
<1>1. IInv => TypeOK  BY DEF IInv
<1> QED  BY <1>1, Invariance, PTL

(* Nobody ever points at a deleted resource (resourceManager::Dispose), for *)
(* any number of pointers and files and however often an icon leaks.        *)
THEOREM NeverDangling == Spec => []NoDangling
<1>1. IInv => NoDangling  BY DEF IInv
<1> QED  BY <1>1, Invariance, PTL

(* referenceCount is the number of users of every file that does not leak.  *)
THEOREM CountCorrect == Spec => []CountsUsers
<1>1. IInv => CountsUsers  BY DEF IInv
<1> QED  BY <1>1, Invariance, PTL

(* No file is ever loaded twice, and the list is the set of live objects.   *)
THEOREM SharedCorrect == Spec => []LoadedOnce
<1>1. ASSUME IInv  PROVE LoadedOnce
  <2>1. Loaded = live  BY <1>1 DEF IInv, Lists, Loaded
  <2>2. \A i, j \in 1 .. Len(list) : fileID[list[i]] = fileID[list[j]] => i = j
    BY <1>1 DEF IInv, Lists, Unique
  <2> QED  BY <2>1, <2>2 DEF LoadedOnce
<1> QED  BY <1>1, Invariance, PTL

(* Expunge never follows a deleted object, and it leaves nothing behind.    *)
THEOREM ExpungeCorrect == Spec => []ExpungeSafe
<1>1. ASSUME IInv  PROVE ExpungeSafe
  BY <1>1, FirstInList DEF IInv, Walk, ExpungeSafe, TypeOK
<1> QED  BY <1>1, Invariance, PTL
-----------------------------------------------------------------------------
(***************************************************************************)
(* The manager implements Handles.                                         *)
(***************************************************************************)

(* What is in memory is what is needed, and leaked files.                   *)
LEMMA ExactState == IInv /\ Idle => Abstract!Exact(Held, InMemory)
<1> SUFFICES ASSUME IInv, Idle  PROVE Abstract!Exact(Held, InMemory)
  OBVIOUS
<1> DEFINE direct == {Held[c] : c \in {d \in Clients : Held[d] # None}}
<1>1. \A c \in Clients :
        /\ Held[c] # None <=> ref[c] # None
        /\ Held[c] # None => Held[c] = fileID[ref[c]] /\ ref[c] \in live
  BY Constants DEF IInv, TypeOK, NoDangling, Held
<1>2. direct \subseteq InMemory  BY <1>1 DEF InMemory
<1>3. \A f \in direct \cap Fonts : IconOf[f] \in InMemory
  <2>1. TAKE f \in direct \cap Fonts
  <2>2. PICK c \in Clients : Held[c] # None /\ f = Held[c]  OBVIOUS
  <2>3. ref[c] \in live /\ ref[c] \in Objects /\ ref[c] \in Holders
        /\ fileID[ref[c]] = f
    BY <2>2, <1>1, Constants DEF IInv, TypeOK
  <2>4. ref[ref[c]] # None /\ fileID[ref[ref[c]]] = IconOf[f]
    BY <2>1, <2>3 DEF IInv, FontIcons
  <2>5. ref[ref[c]] \in live  BY <2>3, <2>4 DEF IInv, NoDangling
  <2> QED  BY <2>4, <2>5 DEF InMemory
<1>4. \A o \in live : fileID[o] \notin Leaky =>
        \/ \E c \in Clients : ref[c] = o
        \/ fileID[o] \notin Fonts /\ \E p \in live : ref[p] = o /\ fileID[p] \in Fonts
  <2>1. TAKE o \in live
  <2>2. HAVE fileID[o] \notin Leaky
  <2>3. Cardinality(UsersOf(ref, o)) > 0  BY <2>2 DEF IInv, CountsUsers
  <2>4. PICK h \in Holders : ref[h] = o  BY <2>3, SomeUser
  <2>5. CASE h \in Clients
    BY <2>4, <2>5
  <2>6. CASE h \in Objects
    <3>1. ref[h] # None  BY <2>4, Constants DEF IInv, TypeOK
    <3>2. h \in live /\ fileID[h] \in Fonts /\ fileID[o] = IconOf[fileID[h]]
      BY <2>4, <2>6, <3>1 DEF IInv, FontIcons
    <3> QED  BY <2>4, <3>2, Constants
  <2> QED  BY <2>4, <2>5, <2>6 DEF Holders
<1>5. \A o \in live : fileID[o] \notin Leaky =>
        fileID[o] \in direct \cup {IconOf[f] : f \in direct \cap Fonts}
  <2>1. TAKE o \in live
  <2>2. HAVE fileID[o] \notin Leaky
  <2>3. ASSUME NEW c \in Clients, NEW p \in live, ref[c] = p
        PROVE  fileID[p] \in direct
    <3>1. ref[c] # None  BY <2>3, Constants DEF IInv, TypeOK
    <3> QED  BY <2>3, <3>1, <1>1
  <2>4. CASE \E c \in Clients : ref[c] = o
    BY <2>3, <2>4
  <2>5. CASE fileID[o] \notin Fonts /\ \E p \in live : ref[p] = o /\ fileID[p] \in Fonts
    <3>1. PICK p \in live : ref[p] = o /\ fileID[p] \in Fonts  BY <2>5
    <3>2. p \in Objects /\ ref[p] # None  BY <3>1, Constants DEF IInv, TypeOK
    <3>3. fileID[o] = IconOf[fileID[p]]  BY <3>1, <3>2 DEF IInv, FontIcons
    <3>4. fileID[p] \notin Leaky  BY <3>1, Constants
    <3>5. \E c \in Clients : ref[c] = p
      <4>1. \/ \E c \in Clients : ref[c] = p
            \/ fileID[p] \notin Fonts
        BY <3>4, <1>4
      <4> QED  BY <4>1, <3>1
    <3>6. fileID[p] \in direct  BY <2>3, <3>5
    <3> QED  BY <3>1, <3>3, <3>6
  <2> QED  BY <2>2, <2>4, <2>5, <1>4
<1>6. Abstract!Needed(Held) = direct \cup {IconOf[f] : f \in direct \cap Fonts}
  BY DEF Abstract!Needed
<1>7. Abstract!Needed(Held) \subseteq InMemory  BY <1>2, <1>3, <1>6
<1>8. InMemory \ Abstract!Needed(Held) \subseteq Leaky  BY <1>5, <1>6 DEF InMemory
<1> QED  BY <1>7, <1>8 DEF Abstract!Exact

(* The same of the next state, for the steps that end in a use of files.    *)
LEMMA ExactNext == IInv' /\ Idle' => Abstract!Exact(Held, InMemory)'
BY ExactState, PTL

(* A pointer to a file needs that file, and to a font its icon.             *)
LEMMA NeedsHeld ==
  ASSUME NEW h, NEW c \in Clients, h[c] # None
  PROVE  /\ h[c] \in Abstract!Needed(h)
         /\ h[c] \in Fonts => IconOf[h[c]] \in Abstract!Needed(h)
BY DEF Abstract!Needed

(* A Get is a Take: memory grows by the file and, for a font, by its icon.  *)
LEMMA GetTakes ==
  ASSUME IInv, IInv', NEW c \in Clients, NEW f \in Files, Get(c, f)
  PROVE  Abstract!Take(c, f)
<1>1. /\ Idle /\ Idle' /\ ref[c] = None
      /\ UNCHANGED <<expunging, cursor, ready>>
  BY DEF Get, GetLoaded, GetNew, GetFontWithIcon, GetFontLoadingIcon, MayHold, Idle
<1>2. /\ c \in Holders /\ c \notin Objects /\ None \notin Objects
      /\ None \notin Files /\ Clients \subseteq Holders /\ Clients \cap Objects = {}
  BY Constants
<1>3. /\ ref \in [Holders -> Pointer] /\ live \subseteq Objects
      /\ fileID \in [Objects -> Files]
  BY DEF IInv, TypeOK
<1>4. \A o \in live : fileID'[o] = fileID[o]
  BY <1>3 DEF Get, GetLoaded, GetNew, Load, GetFontWithIcon, GetFontLoadingIcon
<1>5. \E o \in live' : /\ ref'[c] = o /\ fileID'[o] = f
                       /\ \A d \in Clients \ {c} : ref'[d] = ref[d]
  <2>1. CASE GetLoaded(c, f)
    <3>1. PICK o \in Objects : Found(f, o) /\ ref' = [ref EXCEPT ![c] = o]
      BY <2>1 DEF GetLoaded
    <3>2. o \in live /\ fileID[o] = f /\ live' = live /\ fileID' = fileID
      BY <3>1, <2>1, QueryFinds DEF GetLoaded
    <3> QED  BY <3>1, <3>2, <1>2, <1>3
  <2>2. CASE GetNew(c, f)
    BY <2>2, <1>2, <1>3 DEF GetNew, Load
  <2>3. CASE GetFontWithIcon(c, f)
    BY <2>3, <1>2, <1>3 DEF GetFontWithIcon
  <2>4. CASE GetFontLoadingIcon(c, f)
    BY <2>4, <1>2, <1>3 DEF GetFontLoadingIcon
  <2> QED  BY <2>1, <2>2, <2>3, <2>4 DEF Get
<1>6. Held' = [Held EXCEPT ![c] = f]
  <2>1. \A d \in Clients \ {c} : ref'[d] = ref[d]  BY <1>5
  <2>2. \A d \in Clients : ref[d] # None => fileID'[ref[d]] = fileID[ref[d]]
    BY <1>1, <1>2, <1>4 DEF IInv, NoDangling
  <2>3. Held'[c] = f  BY <1>2, <1>3, <1>5 DEF Held, IInv, TypeOK
  <2>4. \A d \in Clients \ {c} : Held'[d] = Held[d]  BY <2>1, <2>2 DEF Held
  <2> QED  BY <2>3, <2>4 DEF Held
<1>7. InMemory \subseteq InMemory'
  <2>1. live \subseteq live'
    BY DEF Get, GetLoaded, GetNew, Load, GetFontWithIcon, GetFontLoadingIcon
  <2> QED  BY <2>1, <1>4 DEF InMemory
<1>8. InMemory' \subseteq InMemory \cup {f} \cup (IF f \in Fonts THEN {IconOf[f]} ELSE {})
  <2>1. CASE GetLoaded(c, f)
    BY <2>1 DEF GetLoaded, InMemory
  <2>2. CASE GetNew(c, f)
    <3>1. PICK o \in Objects : live' = live \cup {o} /\ fileID'[o] = f
      BY <2>2, <1>3 DEF GetNew, Load
    <3> QED  BY <3>1, <1>4 DEF InMemory
  <2>3. CASE GetFontWithIcon(c, f)
    <3>1. PICK o \in Objects : live' = live \cup {o} /\ fileID'[o] = f
      BY <2>3, <1>3 DEF GetFontWithIcon
    <3> QED  BY <3>1, <1>4 DEF InMemory
  <2>4. CASE GetFontLoadingIcon(c, f)
    <3>1. PICK o \in Objects, i \in Objects :
            live' = live \cup {i, o} /\ fileID'[o] = f /\ fileID'[i] = IconOf[f]
      BY <2>4, <1>3 DEF GetFontLoadingIcon
    <3>2. f \in Fonts  BY <2>4 DEF GetFontLoadingIcon
    <3> QED  BY <3>1, <3>2, <1>4 DEF InMemory
  <2> QED  BY <2>1, <2>2, <2>3, <2>4 DEF Get
<1>9. Abstract!Needed(Held') \subseteq InMemory'
  BY <1>1, ExactNext DEF Abstract!Exact, Abstract!Needed
<1>10. Held'[c] = f /\ f # None  BY <1>2, <1>6 DEF Held
<1>11. f \in Abstract!Needed(Held')
       /\ (f \in Fonts => IconOf[f] \in Abstract!Needed(Held'))
  BY <1>10, NeedsHeld
<1>12. InMemory' = InMemory \cup Abstract!Needed(Held')
  BY <1>7, <1>8, <1>9, <1>11
<1>13. Held[c] = None  BY <1>1 DEF Held
<1> QED  BY <1>1, <1>6, <1>12, <1>13 DEF Abstract!Take

(* A Dispose is a Release: what goes was needed for what was held.          *)
LEMMA DisposeReleases ==
  ASSUME IInv, IInv', NEW c \in Clients, Dispose(c)
  PROVE  Abstract!Release(c)
<1> DEFINE o == ref[c]
<1>1. /\ Idle /\ Idle' /\ o # None
      /\ UNCHANGED <<fileID, expunging, cursor, ready>>
  BY DEF Dispose, DisposeShared, DisposeLast, DisposeFont, DisposeFontAndIcon, Idle
<1>2. /\ c \in Holders /\ c \notin Objects /\ None \notin Objects
      /\ None \notin Files /\ Clients \subseteq Holders /\ Clients \cap Objects = {}
  BY Constants
<1>3. /\ ref \in [Holders -> Pointer] /\ live \subseteq Objects
      /\ fileID \in [Objects -> Files] /\ o \in live /\ o \in Objects
  BY <1>1, <1>2 DEF IInv, TypeOK, NoDangling
<1>4. ref'[c] = None /\ \A d \in Clients \ {c} : ref'[d] = ref[d]
  BY <1>2, <1>3 DEF Dispose, DisposeShared, DisposeLast, DisposeFont,
                    DisposeFontAndIcon
<1>5. Held' = [Held EXCEPT ![c] = None]
  <2>1. Held'[c] = None  BY <1>4 DEF Held
  <2>2. \A d \in Clients \ {c} : Held'[d] = Held[d]  BY <1>1, <1>4 DEF Held
  <2> QED  BY <2>1, <2>2 DEF Held
<1>6. Held[c] = fileID[o] /\ Held[c] # None  BY <1>1, <1>2, <1>3 DEF Held
<1>7. live' \subseteq live
      /\ \A p \in live \ live' : \/ p = o
                                 \/ p = ref[o] /\ ref[o] # None
  BY DEF Dispose, DisposeShared, DisposeLast, DisposeFont, DisposeFontAndIcon
<1>8. InMemory' \subseteq InMemory  BY <1>1, <1>7 DEF InMemory
<1>9. \A p \in live \ live' : fileID[p] \in Abstract!Needed(Held)
  <2>1. TAKE p \in live \ live'
  <2>2. CASE p = o
    BY <2>2, <1>6, NeedsHeld
  <2>3. CASE p = ref[o] /\ ref[o] # None
    <3>1. fileID[o] \in Fonts /\ fileID[p] = IconOf[fileID[o]]
      BY <2>3, <1>1, <1>3 DEF IInv, FontIcons
    <3> QED  BY <3>1, <1>6, NeedsHeld
  <2> QED  BY <2>2, <2>3, <1>7
<1>10. InMemory \ InMemory' \subseteq Abstract!Needed(Held)
  BY <1>1, <1>9 DEF InMemory
<1>11. Abstract!Exact(Held', InMemory')
  BY <1>1, ExactNext DEF Abstract!Exact, Abstract!Needed
<1> QED  BY <1>1, <1>5, <1>6, <1>8, <1>10, <1>11 DEF Abstract!Release

LEMMA DrawPins ==
  ASSUME IInv, NEW f \in Leaky, Draw(f)
  PROVE  Abstract!Pin(f)
<1>1. /\ Idle /\ Idle' /\ UNCHANGED <<ref, expunging, cursor, ready>>
  BY DEF Draw, DrawLoaded, DrawNew, Idle
<1>2. live \subseteq Objects /\ fileID \in [Objects -> Files]
      /\ \A c \in Clients : c \in Holders
  BY Constants DEF IInv, TypeOK
<1>3. \A o \in live : fileID'[o] = fileID[o]
  BY <1>2 DEF Draw, DrawLoaded, DrawNew, Load
<1>4. Held' = Held
  <2>1. \A c \in Clients : ref[c] # None => fileID'[ref[c]] = fileID[ref[c]]
    BY <1>1, <1>2, <1>3 DEF IInv, NoDangling
  <2> QED  BY <2>1, <1>1 DEF Held
<1>5. InMemory' = InMemory \cup {f}
  <2>1. CASE DrawLoaded(f)
    <3>1. live' = live /\ fileID' = fileID /\ \E o \in Objects : Found(f, o)
      BY <2>1 DEF DrawLoaded
    <3>2. \E o \in live : fileID[o] = f  BY <3>1, QueryFinds
    <3> QED  BY <3>1, <3>2 DEF InMemory
  <2>2. CASE DrawNew(f)
    <3>1. PICK o \in Objects : live' = live \cup {o} /\ fileID'[o] = f
      BY <2>2, <1>2 DEF DrawNew, Load
    <3> QED  BY <3>1, <1>3 DEF InMemory
  <2> QED  BY <2>1, <2>2 DEF Draw
<1> QED  BY <1>1, <1>4, <1>5 DEF Abstract!Pin

(* One resource deleted by Expunge is one file dropped.                     *)
LEMMA ExpungeNextDrops ==
  ASSUME IInv, ExpungeNext
  PROVE  Abstract!Drop(fileID[cursor]) /\ fileID[cursor] \in Files
<1>1. /\ expunging /\ cursor # None /\ ~Idle /\ ~Idle'
      /\ live' = live \ {cursor}
      /\ ref' = [ref EXCEPT ![cursor] = None]
      /\ UNCHANGED <<fileID, expunging, ready>>
  BY DEF ExpungeNext, DisposedWith, Idle
<1>2. cursor \in live /\ cursor \in Objects /\ fileID[cursor] \in Files
  BY <1>1, FirstInList DEF IInv, Walk, TypeOK
<1>3. Held' = Held
  <2>1. \A c \in Clients : ref'[c] = ref[c]
    BY <1>1, <1>2, Constants DEF IInv, TypeOK
  <2> QED  BY <2>1, <1>1 DEF Held
<1>4. InMemory' = InMemory \ {fileID[cursor]}
  BY <1>1, <1>2 DEF InMemory, IInv, Unique
<1>5. Idle = FALSE /\ Idle' = FALSE  BY <1>1 DEF Idle
<1> QED  BY <1>2, <1>3, <1>4, <1>5 DEF Abstract!Drop

(* Every step of the manager is a step or a stutter of Handles.             *)
LEMMA StepImplements ==
  IInv /\ IInv' /\ [Next]_vars => [Abstract!Next]_(Abstract!vars)
<1> SUFFICES ASSUME IInv, IInv', [Next]_vars
             PROVE  [Abstract!Next]_(Abstract!vars)
  OBVIOUS
<1>1. ASSUME NEW c \in Clients, NEW f \in Files, Get(c, f)
      PROVE  Abstract!Next
  BY <1>1, GetTakes DEF Abstract!Next
<1>2. ASSUME NEW c \in Clients, Dispose(c)  PROVE Abstract!Next
  BY <1>2, DisposeReleases DEF Abstract!Next
<1>3. ASSUME NEW f \in Leaky, Draw(f)  PROVE Abstract!Next
  BY <1>3, DrawPins DEF Abstract!Next
<1>4. ASSUME ExpungeStart  PROVE Abstract!Next
  <2>1. Idle /\ Idle' = FALSE /\ UNCHANGED <<ref, fileID, live>>
    BY <1>4 DEF ExpungeStart, Idle
  <2>2. Held' = Held /\ InMemory' = InMemory  BY <2>1 DEF Held, InMemory
  <2> QED  BY <2>1, <2>2 DEF Abstract!Next, Abstract!Shut
<1>5. ASSUME ExpungeNext  PROVE Abstract!Next
  BY <1>5, ExpungeNextDrops DEF Abstract!Next
<1>6. ASSUME ExpungeEnd  PROVE UNCHANGED Abstract!vars
  <2>1. Idle' = Idle /\ UNCHANGED <<ref, fileID, live>>
    BY <1>6 DEF ExpungeEnd, Idle
  <2> QED  BY <2>1 DEF Held, InMemory, Abstract!vars
<1>7. ASSUME UNCHANGED vars  PROVE UNCHANGED Abstract!vars
  BY <1>7 DEF vars, Held, InMemory, Abstract!vars, Idle
<1> QED  BY <1>1, <1>2, <1>3, <1>4, <1>5, <1>6, <1>7 DEF Next

(* The resource manager implements Handles: whatever the list, the counts   *)
(* and the addresses do, a file is in memory exactly while it is needed.    *)
THEOREM Refinement == Spec => ImplementsHandles
<1>1. Init => Abstract!Init
  <2> SUFFICES ASSUME Init  PROVE Abstract!Init
    OBVIOUS
  <2>1. Held = [c \in Clients |-> None]  BY Constants DEF Init, Held
  <2>2. InMemory = {} /\ Idle = TRUE  BY DEF Init, InMemory, Idle
  <2> QED  BY <2>1, <2>2 DEF Abstract!Init
<1> QED  BY <1>1, StepImplements, Invariance, PTL
         DEF Spec, ImplementsHandles, Abstract!Spec
=============================================================================
