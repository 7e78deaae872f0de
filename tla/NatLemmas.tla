----------------------------- MODULE NatLemmas -----------------------------
(***************************************************************************)
(* Facts about numbers that the proofs of several modules cite: a CHOOSE   *)
(* of the smallest element of a set finds one, and a recursive function    *)
(* on an interval exists.                                                  *)
(***************************************************************************)
EXTENDS Integers, WellFoundedInduction, TLAPS

(* A bounded set of numbers with an element has a smallest one.             *)
LEMMA Smallest ==
  ASSUME NEW n \in Nat, NEW S \in SUBSET (0 .. n), S # {}
  PROVE  \E m \in S : \A k \in S : m <= k
<1> DEFINE R == {ss \in Nat \X Nat : ss[1] < ss[2]}
<1>1. IsWellFoundedOn(R, Nat)  BY NatLessThanWellFounded DEF OpToRel
<1>2. S \subseteq Nat  OBVIOUS
<1>3. PICK m \in S : \A k \in S : ~ (<<k, m>> \in R)
  <2> HIDE DEF R
  <2> QED  BY <1>1, <1>2, WFMin
<1>4. ASSUME NEW k \in S  PROVE m <= k
  <2>1. m \in Nat /\ k \in Nat  BY <1>2
  <2>2. ~(k < m)  BY <1>3, <2>1
  <2> QED  BY <2>1, <2>2
<1> QED  BY <1>4

(* What a recursive function on 0 .. N needs to exist: a start and a step.  *)
Runs(g, N, S, x, Step) ==
  /\ g \in [0 .. N -> S] /\ g[0] = x
  /\ \A n \in 1 .. N : g[n] = Step[n][g[n - 1]]
LEMMA Iterates ==
  ASSUME NEW N \in Nat, NEW S, NEW x \in S, NEW Step \in [1 .. N -> [S -> S]]
  PROVE  \E g : Runs(g, N, S, x, Step)
<1> DEFINE Part(g, k) == g[0] = x /\ \A n \in 1 .. k : g[n] = Step[n][g[n - 1]]
           Partial(k) == \E g \in [0 .. k -> S] : Part(g, k)
           Bad == {k \in 0 .. N : ~Partial(k)}
<1>1. Partial(0)
  <2>1. [n \in 0 .. 0 |-> x] \in [0 .. 0 -> S]  OBVIOUS
  <2>2. Part([n \in 0 .. 0 |-> x], 0)  OBVIOUS
  <2> QED  BY <2>1, <2>2
<1>2. ASSUME NEW k \in 0 .. N, k < N, Partial(k)  PROVE Partial(k + 1)
  <2>1. PICK g \in [0 .. k -> S] : Part(g, k)  BY <1>2
  <2> DEFINE y == Step[k + 1][g[k]]
             h == [n \in 0 .. (k + 1) |-> IF n = k + 1 THEN y ELSE g[n]]
  <2>2. k \in Nat /\ k + 1 \in 1 .. N  BY <1>2
  <2>3. y \in S  BY <2>1, <2>2
  <2>4. h \in [0 .. (k + 1) -> S]  BY <2>1, <2>2, <2>3
  <2>5. h[0] = x  BY <2>1, <2>2
  <2>6. ASSUME NEW n \in 1 .. (k + 1)  PROVE h[n] = Step[n][h[n - 1]]
    <3>1. n - 1 \in 0 .. k /\ h[n - 1] = g[n - 1]  BY <2>2
    <3>2. CASE n = k + 1
      <4>1. n - 1 = k /\ h[n] = y  BY <3>2, <2>2
      <4>2. h[n - 1] = g[k]  BY <3>1, <4>1
      <4> HIDE DEF h
      <4> QED  BY <4>1, <4>2, <3>2
    <3>3. CASE n # k + 1
      <4>1. n \in 1 .. k /\ h[n] = g[n]  BY <3>3, <2>2
      <4> QED  BY <4>1, <3>1, <2>1
    <3> QED  BY <3>2, <3>3
  <2> HIDE DEF h
  <2>7. Part(h, k + 1)  BY <2>5, <2>6
  <2> QED  BY <2>4, <2>7
<1>3. Bad = {}
  <2>1. SUFFICES ASSUME Bad # {}  PROVE FALSE  OBVIOUS
  <2> HIDE DEF Partial
  <2>2. Bad \in SUBSET (0 .. N)  OBVIOUS
  <2>3. PICK m \in Bad : \A k \in Bad : m <= k
    <3> HIDE DEF Bad
    <3> QED  BY <2>1, <2>2, Smallest
  <2>4. m \in 0 .. N /\ m # 0  BY <1>1
  <2>5. m - 1 \in 0 .. N /\ m - 1 < N /\ ~(m <= m - 1)  BY <2>4
  <2>6. Partial(m - 1)  BY <2>3, <2>5
  <2>7. Partial((m - 1) + 1)  BY <2>5, <2>6, <1>2
  <2>8. (m - 1) + 1 = m  BY <2>4
  <2> QED  BY <2>3, <2>7, <2>8
<1>4. Partial(N)
  <2> HIDE DEF Partial
  <2> QED  BY <1>3
<1> QED  BY <1>4 DEF Runs

(* What every step of such a function keeps holds all the way.              *)
LEMMA StaysIn ==
  ASSUME NEW N \in Nat, NEW S, NEW p, p[0] \in S,
         \A n \in 1 .. N : p[n - 1] \in S => p[n] \in S
  PROVE  \A n \in 0 .. N : p[n] \in S
<1> DEFINE Bad == {n \in 0 .. N : p[n] \notin S}
<1> SUFFICES Bad = {}  OBVIOUS
<1>1. SUFFICES ASSUME Bad # {}  PROVE FALSE  OBVIOUS
<1>2. Bad \in SUBSET (0 .. N)  OBVIOUS
<1>3. PICK m \in Bad : \A k \in Bad : m <= k
  <2> HIDE DEF Bad
  <2> QED  BY <1>1, <1>2, Smallest
<1>4. m \in 0 .. N /\ m # 0 /\ p[m] \notin S  OBVIOUS
<1>5. m - 1 \in 0 .. N /\ ~(m <= m - 1) /\ m \in 1 .. N  BY <1>4
<1>6. p[m - 1] \in S  BY <1>3, <1>5
<1> QED  BY <1>4, <1>5, <1>6
=============================================================================
