---------------------------- MODULE FoldTheorems ----------------------------
(***************************************************************************)
(* What the proofs about folds (Folds, SequencesExt, Functions) need: that *)
(* the recursive function by which a fold is defined exists, that a fold   *)
(* over 1..n goes step by step, and that what holds at 0 and passes from   *)
(* each number to the next holds of all up to a bound.  They speak of sets *)
(* and functions only, so that they can be used for any operation.  Then   *)
(* the facts of multiples and division that the provers lack.              *)
(***************************************************************************)
EXTENDS Integers, SequencesExt, FiniteSetTheorems, WellFoundedInduction, TLAPS

\* Induction up to a bound, for a set.
LEMMA Upto ==
  ASSUME NEW S, 0 \in S, NEW n \in Nat, \A k \in Nat : k < n /\ k \in S => k + 1 \in S
  PROVE  \A k \in 0..n : k \in S
<1>. DEFINE T == {k \in 0..n : k \notin S}
<1>. SUFFICES ASSUME T # {} PROVE FALSE
  OBVIOUS
<1>1. T \subseteq Nat
  OBVIOUS
<1>2. PICK x \in T : \A y \in T : ~(<<y, x>> \in OpToRel(<, Nat))
  BY <1>1, NatLessThanWellFounded, WFMin, Zenon
<1>3. x \in Nat /\ x # 0 /\ x \notin S /\ x <= n
  OBVIOUS
<1>4. x - 1 \in Nat /\ x - 1 < n /\ x - 1 \notin T
  <2>1. \A y, z \in Nat : <<y, z>> \in OpToRel(<, Nat) <=> y < z
    BY DEF OpToRel
  <2>2. x - 1 \in Nat /\ x - 1 < x /\ x - 1 < n
    BY <1>3
  <2>3. <<x - 1, x>> \in OpToRel(<, Nat)
    BY <1>3, <2>1, <2>2
  <2>4. QED BY <1>2, <2>2, <2>3
<1>5. x - 1 \in S
  BY <1>3, <1>4
<1>6. (x - 1) + 1 \in S
  BY <1>4, <1>5
<1>7. QED BY <1>3, <1>6

\* A fold over the subsets of D from base: ch chooses the element that is
\* folded last, F[s][x] is what it makes of the rest's result x.
Foldable(D, X, base, ch, F) ==
  /\ IsFiniteSet(D) /\ base \in X
  /\ \A s \in SUBSET D : s # {} => ch[s] \in s
  /\ \A s \in SUBSET D, x \in X : s # {} => F[s][x] \in X
FoldOf(g, D, X, base, ch, F) ==
  /\ g \in [SUBSET D -> X]
  /\ \A s \in SUBSET D : g[s] = IF s = {} THEN base ELSE F[s][g[s \ {ch[s]}]]

\* There is such a function.
LEMMA FoldExists ==
  ASSUME NEW D, NEW X, NEW base, NEW ch, NEW F, Foldable(D, X, base, ch, F)
  PROVE  \E g : FoldOf(g, D, X, base, ch, F)
<1>0. /\ IsFiniteSet(D) /\ base \in X
      /\ \A s \in SUBSET D : s # {} => ch[s] \in s
      /\ \A s \in SUBSET D, x \in X : s # {} => F[s][x] \in X
  BY DEF Foldable
<1>. DEFINE Upon(g, k) == \A s \in SUBSET D : Cardinality(s) <= k =>
                            g[s] = IF s = {} THEN base ELSE F[s][g[s \ {ch[s]}]]
            S == {k \in Nat : \E g \in [SUBSET D -> X] : Upon(g, k)}
<1>1. \A s \in SUBSET D : /\ IsFiniteSet(s) /\ Cardinality(s) \in Nat
                          /\ (s = {} <=> Cardinality(s) = 0)
                          /\ Cardinality(s) <= Cardinality(D)
                          /\ s # {} => /\ s \ {ch[s]} \in SUBSET D
                                       /\ Cardinality(s \ {ch[s]}) = Cardinality(s) - 1
  BY <1>0, FS_Subset, FS_CardinalityType, FS_EmptySet, FS_RemoveElement
<1>2. 0 \in S
  <2>. DEFINE g == [s \in SUBSET D |-> base]
  <2>1. g \in [SUBSET D -> X]
    BY <1>0
  <2>2. ASSUME NEW s \in SUBSET D, Cardinality(s) <= 0
        PROVE  g[s] = IF s = {} THEN base ELSE F[s][g[s \ {ch[s]}]]
    <3>1. Cardinality(s) \in Nat /\ (s = {} <=> Cardinality(s) = 0)
      BY <1>1, Zenon
    <3>2. s = {}
      BY <2>2, <3>1
    <3>3. QED BY <3>2
  <2>3. QED BY <2>1, <2>2
<1>3. ASSUME NEW k \in Nat, k \in S
      PROVE  k + 1 \in S
  <2>1. PICK g \in [SUBSET D -> X] : Upon(g, k)
    BY <1>3
  <2>. DEFINE h == [s \in SUBSET D |->
                     IF Cardinality(s) <= k \/ s = {} THEN g[s] ELSE F[s][g[s \ {ch[s]}]]]
  <2>2. h \in [SUBSET D -> X]
    BY <1>0, <1>1, <2>1
  <2>3. ASSUME NEW s \in SUBSET D, Cardinality(s) <= k + 1
        PROVE  h[s] = IF s = {} THEN base ELSE F[s][h[s \ {ch[s]}]]
    <3>1. CASE s = {}
      <4>1. h[s] = g[s]
        BY <3>1
      <4>0. Cardinality(s) = 0 
        BY <1>1, <3>1, Zenon
      <4>3. Cardinality(s) <= k
        BY <1>3, <4>0
      <4>2. QED BY <2>1, <3>1, <4>1, <4>3
    <3>2. CASE s # {}
      <4>1. /\ s \ {ch[s]} \in SUBSET D /\ Cardinality(s \ {ch[s]}) <= k
            /\ Cardinality(s) \in Nat
        <5>1. Cardinality(s \ {ch[s]}) = Cardinality(s) - 1 /\ Cardinality(s) \in Nat
          BY <1>1, <3>2
        <5>3. s \ {ch[s]} \in SUBSET D
          BY <1>1, <3>2
        <5>2. QED BY <1>3, <2>3, <5>1, <5>3
      <4>2. h[s \ {ch[s]}] = g[s \ {ch[s]}]
        BY <4>1
      <4>3. h[s] = F[s][g[s \ {ch[s]}]]
        <5>1. CASE Cardinality(s) <= k
          <6>1. h[s] = g[s]
            BY <5>1
          <6>2. g[s] = F[s][g[s \ {ch[s]}]]
            BY <2>1, <3>2, <5>1
          <6>3. QED BY <6>1, <6>2
        <5>2. CASE ~(Cardinality(s) <= k)
          BY <3>2, <5>2
        <5>3. QED BY <5>1, <5>2
      <4>4. QED BY <3>2, <4>2, <4>3
    <3>3. QED BY <3>1, <3>2
  <2>4. Upon(h, k + 1)
    <3>. HIDE DEF h
    <3>1. QED BY <2>3, Zenon
  <2>. HIDE DEF h, Upon
  <2>5. QED BY <2>2, <2>4
<1>4. Cardinality(D) \in S
  <2>1. Cardinality(D) \in Nat
    BY <1>1
  <2>. HIDE DEF S
  <2>2. \A k \in 0 .. Cardinality(D) : k \in S
    BY <1>2, <1>3, <2>1, Upto
  <2>3. QED BY <2>1, <2>2
<1>5. PICK g \in [SUBSET D -> X] : Upon(g, Cardinality(D))
  BY <1>4
<1>6. FoldOf(g, D, X, base, ch, F)
  BY <1>1, <1>5 DEF FoldOf
<1>7. QED BY <1>6


\* What such a function returns stays in X when each step stays there.
LEMMA FoldStays ==
  ASSUME NEW D, IsFiniteSet(D), NEW X, NEW ch, NEW g, g[{}] \in X,
         \A s \in SUBSET D : s # {} =>
            ch[s] \in s /\ (g[s \ {ch[s]}] \in X => g[s] \in X)
  PROVE  \A s \in SUBSET D : g[s] \in X
<1>. DEFINE P(k) == \A s \in SUBSET D : Cardinality(s) <= k => g[s] \in X
            S == {k \in Nat : P(k)}
<1>1. \A s \in SUBSET D : /\ Cardinality(s) \in Nat
                          /\ Cardinality(s) <= Cardinality(D)
                          /\ (s = {} <=> Cardinality(s) = 0)
                          /\ \A x \in s : Cardinality(s \ {x}) = Cardinality(s) - 1
  BY FS_Subset, FS_CardinalityType, FS_EmptySet, FS_RemoveElement
<1>2. 0 \in S
  <2>1. ASSUME NEW s \in SUBSET D, Cardinality(s) <= 0
        PROVE  g[s] \in X
    <3>1. Cardinality(s) \in Nat /\ (s = {} <=> Cardinality(s) = 0)
      BY <1>1, Zenon
    <3>2. s = {}
      BY <2>1, <3>1
    <3>3. QED BY <3>2
  <2>2. QED BY <2>1
<1>3. ASSUME NEW k \in Nat, k \in S
      PROVE  k + 1 \in S
  <2>1. P(k)
    BY <1>3
  <2>2. ASSUME NEW s \in SUBSET D, Cardinality(s) <= k + 1
        PROVE  g[s] \in X
    <3>1. CASE s = {}
      BY <3>1
    <3>2. CASE s # {}
      <4>1. ch[s] \in s /\ s \ {ch[s]} \in SUBSET D
        BY <2>2, <3>2
      <4>2. Cardinality(s) \in Nat /\ Cardinality(s \ {ch[s]}) = Cardinality(s) - 1
        BY <1>1, <2>2, <4>1
      <4>3. Cardinality(s \ {ch[s]}) <= k
        BY <1>3, <2>2, <4>2
      <4>4. QED BY <2>1, <2>2, <3>2, <4>1, <4>3
    <3>3. QED BY <3>1, <3>2
  <2>3. P(k + 1)
    BY <2>2, Zenon
  <2>. HIDE DEF P
  <2>4. QED BY <2>3
<1>4. Cardinality(D) \in Nat
  BY <1>1
<1>5. \A k \in 0 .. Cardinality(D) : k \in S
  <2>. HIDE DEF S
  <2>1. QED BY <1>2, <1>3, <1>4, Upto
<1>6. P(Cardinality(D))
  BY <1>4, <1>5
<1>7. QED BY <1>1, <1>6

\* The greatest of some numbers is one of them, and not below any.
LEMMA MaxGreatest ==
  ASSUME NEW n \in Nat
  PROVE  \A s \in SUBSET (1..n) : s # {} => Max(s) \in s /\ \A y \in s : y <= Max(s)
<1>1. ASSUME NEW s \in SUBSET (1..n), s # {}
      PROVE  Max(s) \in s /\ \A y \in s : y <= Max(s)
  <2>. DEFINE T == {m \in 0..n : n - m \in s}
  <2>1. T \subseteq Nat /\ T # {}
    <3>1. PICK x \in s : TRUE
      BY <1>1
    <3>2. x \in Nat /\ n - x \in 0..n /\ n - (n - x) = x
      BY <1>1
    <3>3. n - (n - x) \in s
      BY <3>1, <3>2, Zenon
    <3>4. n - x \in T
      BY <3>2, <3>3
    <3>5. T \subseteq Nat
      OBVIOUS
    <3>6. QED BY <3>4, <3>5
  <2>2. PICK m \in T : \A y \in T : ~(<<y, m>> \in OpToRel(<, Nat))
    BY <2>1, NatLessThanWellFounded, WFMin, Zenon
  <2>3. \A y, z \in Nat : <<y, z>> \in OpToRel(<, Nat) <=> y < z
    BY DEF OpToRel
  <2>4. n - m \in s /\ m \in Nat /\ \A y \in T : y \in Nat /\ ~(y < m)
    BY <2>1, <2>2, <2>3
  <2>5. \A y \in s : n - m >= y
    <3>1. ASSUME NEW y \in s PROVE n - m >= y
      <4>1. y \in 1..n /\ n - y \in 0..n /\ n - (n - y) = y
        BY <1>1
      <4>2. n - y \in T
        BY <4>1
      <4>3. ~(n - y < m)
        BY <2>4, <4>2
      <4>4. QED BY <2>4, <4>1, <4>3
    <3>2. QED BY <3>1
  <2>6. Max(s) \in s /\ \A y \in s : Max(s) >= y
    BY <2>4, <2>5, Zenon DEF Max
  <2>7. \A y \in s : y \in Nat
    BY <1>1
  <2>8. QED BY <2>6, <2>7
<1>2. QED BY <1>1

\* It is one of them; of those up to k it is k.
LEMMA MaxIn ==
  ASSUME NEW n \in Nat
  PROVE  /\ \A s \in SUBSET (1..n) : s # {} => Max(s) \in s
         /\ \A k \in 1..n : Max(1..k) = k /\ (1..k) \ {k} = 1..(k - 1)
<1>1. ASSUME NEW s \in SUBSET (1..n), s # {}
      PROVE  Max(s) \in s
  BY <1>1, MaxGreatest
<1>2. ASSUME NEW k \in 1..n
      PROVE  Max(1..k) = k /\ (1..k) \ {k} = 1..(k - 1)
  <2>1. k \in 1..k /\ \A y \in 1..k : k >= y
    OBVIOUS
  <2>2. \A x \in 1..k : (\A y \in 1..k : x >= y) => x = k
    BY <2>1
  <2>3. Max(1..k) \in 1..k /\ \A y \in 1..k : Max(1..k) >= y
    BY <2>1, Zenon DEF Max
  <2>4. Max(1..k) = k
    BY <2>2, <2>3, Zenon
  <2>5. QED BY <2>4
<1>3. QED BY <1>1, <1>2

-----------------------------------------------------------------------------
(* Sums of functions.                                                      *)

\* g sums f over the subsets of D: any element may be taken out first.
Sums(g, D, f) ==
  /\ g \in [SUBSET D -> Nat] /\ g[{}] = 0
  /\ \A s \in SUBSET D : \A x \in s : g[s] = f[x] + g[s \ {x}]

LEMMA AnyOrder ==
  ASSUME NEW D, IsFiniteSet(D), NEW f \in [D -> Nat], NEW g \in [SUBSET D -> Nat],
         g[{}] = 0,
         \A s \in SUBSET D : s # {} => \E c \in s : g[s] = f[c] + g[s \ {c}]
  PROVE  Sums(g, D, f)
<1>. DEFINE P(k) == \A s \in SUBSET D : Cardinality(s) <= k =>
                       \A x \in s : g[s] = f[x] + g[s \ {x}]
            S == {k \in Nat : P(k)}
<1>1. \A s \in SUBSET D : /\ Cardinality(s) \in Nat
                          /\ Cardinality(s) <= Cardinality(D)
                          /\ s = {} <=> Cardinality(s) = 0
                          /\ \A x \in s : Cardinality(s \ {x}) = Cardinality(s) - 1
  BY FS_Subset, FS_CardinalityType, FS_EmptySet, FS_RemoveElement
<1>2. 0 \in S
  <2>1. ASSUME NEW s \in SUBSET D, Cardinality(s) <= 0
        PROVE  s = {}
    <3>1. Cardinality(s) \in Nat /\ (s = {} <=> Cardinality(s) = 0)
      BY <1>1, Zenon
    <3>2. QED BY <2>1, <3>1
  <2>2. P(0)
    BY <2>1
  <2>3. QED BY <2>2
<1>3. ASSUME NEW k \in Nat, k \in S
      PROVE  k + 1 \in S
  <2>1. P(k)
    BY <1>3
  <2>2. ASSUME NEW s \in SUBSET D, Cardinality(s) <= k + 1, NEW x \in s
        PROVE  g[s] = f[x] + g[s \ {x}]
    <3>1. PICK c \in s : g[s] = f[c] + g[s \ {c}]
      OBVIOUS
    <3>2. CASE c = x
      BY <3>1, <3>2
    <3>3. CASE c # x
      <4>1. /\ s \ {x} \in SUBSET D /\ c \in s \ {x}
            /\ s \ {c} \in SUBSET D /\ x \in s \ {c}
            /\ (s \ {x}) \ {c} = (s \ {c}) \ {x}
            /\ (s \ {x}) \ {c} \in SUBSET D
        BY <2>2, <3>1, <3>3
      <4>2. Cardinality(s \ {x}) <= k /\ Cardinality(s \ {c}) <= k
        <5>1. /\ Cardinality(s) \in Nat
              /\ Cardinality(s \ {x}) = Cardinality(s) - 1
              /\ Cardinality(s \ {c}) = Cardinality(s) - 1
          BY <1>1, <2>2, <3>1
        <5>2. QED BY <1>3, <2>2, <5>1
      <4>3. /\ g[s \ {x}] = f[c] + g[(s \ {x}) \ {c}]
            /\ g[s \ {c}] = f[x] + g[(s \ {x}) \ {c}]
        <5>. HIDE DEF P
        <5>1. \A r \in SUBSET D : Cardinality(r) <= k => \A y \in r : g[r] = f[y] + g[r \ {y}]
          BY <2>1 DEF P
        <5>2. /\ g[s \ {x}] = f[c] + g[(s \ {x}) \ {c}]
              /\ g[s \ {c}] = f[x] + g[(s \ {c}) \ {x}]
          BY <4>1, <4>2, <5>1, Zenon
        <5>3. QED BY <4>1, <5>2, Zenon
      <4>4. f[x] \in Nat /\ f[c] \in Nat /\ g[(s \ {x}) \ {c}] \in Nat
        BY <2>2, <3>1, <4>1
      <4>5. QED BY <3>1, <4>3, <4>4
    <3>4. QED BY <3>2, <3>3
  <2>3. P(k + 1)
    BY <2>2, Zenon
  <2>. HIDE DEF P
  <2>4. QED BY <2>3
<1>4. Cardinality(D) \in Nat
  BY <1>1
<1>5. \A k \in 0 .. Cardinality(D) : k \in S
  <2>. HIDE DEF S
  <2>1. QED BY <1>2, <1>3, <1>4, Upto
<1>6. P(Cardinality(D))
  BY <1>4, <1>5
<1>7. QED BY <1>1, <1>6 DEF Sums

\* A sum over numbers, one after the other.
LEMMA SumUpto ==
  ASSUME NEW n \in Nat, NEW f \in [1..n -> Nat]
  PROVE  \E h \in [0..n -> Nat] :
           /\ SumFunction(f) = h[n] /\ h[0] = 0
           /\ \A k \in 1..n : h[k] = h[k - 1] + f[k]
<1>. DEFINE D == 1..n
            ch == [s \in SUBSET D |-> CHOOSE x \in s : TRUE]
            F == [s \in SUBSET D |-> [x \in Nat |-> f[CHOOSE y \in s : TRUE] + x]]
<1>1. IsFiniteSet(D) /\ DOMAIN f = D
  BY FS_Interval
<1>2. \A s \in SUBSET D : s # {} => (CHOOSE x \in s : TRUE) \in s
  OBVIOUS
<1>3. PICK g0 : FoldOf(g0, D, Nat, 0, ch, F)
  <2>1. \A s \in SUBSET D : s # {} => ch[s] \in s
    BY <1>2
  <2>2. \A s \in SUBSET D, x \in Nat : s # {} => F[s][x] \in Nat
    <3>1. ASSUME NEW s \in SUBSET D, NEW x \in Nat, s # {}
          PROVE  F[s][x] \in Nat
      <4>1. f[CHOOSE y \in s : TRUE] \in Nat
        BY <1>2, <3>1
      <4>2. F[s][x] = f[CHOOSE y \in s : TRUE] + x
        OBVIOUS
      <4>3. QED BY <4>1, <4>2, <3>1
    <3>2. QED BY <3>1
  <2>. HIDE DEF D, ch, F
  <2>3. Foldable(D, Nat, 0, ch, F)
    BY <1>1, <2>1, <2>2 DEF Foldable
  <2>4. QED BY <2>3, FoldExists, Zenon
<1>. DEFINE Eq(it) == it = [s \in SUBSET D |-> IF s = {} THEN 0
                       ELSE LET x == CHOOSE y \in s : TRUE IN f[x] + it[s \ {x}]]
            g == CHOOSE it : Eq(it)
<1>4. SumFunction(f) = g[D]
  BY <1>1, Zenon DEF SumFunction, SumFunctionOnSet, FoldFunctionOnSet, MapThenFoldSet
<1>5. Eq(g)
  <2>1. Eq(g0)
    BY <1>3 DEF FoldOf
  <2>. HIDE DEF Eq
  <2>2. QED BY <2>1, Zenon
<1>. HIDE DEF g
<1>6. /\ g[{}] = 0 /\ DOMAIN g = SUBSET D
      /\ \A s \in SUBSET D : s # {} =>
           g[s] = f[CHOOSE y \in s : TRUE] + g[s \ {CHOOSE y \in s : TRUE}]
  BY <1>5
<1>7. g \in [SUBSET D -> Nat]
  <2>1. \A s \in SUBSET D : s # {} =>
           ch[s] \in s /\ (g[s \ {ch[s]}] \in Nat => g[s] \in Nat)
    <3>1. ASSUME NEW s \in SUBSET D, s # {}
          PROVE  ch[s] \in s /\ (g[s \ {ch[s]}] \in Nat => g[s] \in Nat)
      <4>1. ch[s] = (CHOOSE y \in s : TRUE) /\ ch[s] \in s
        BY <1>2, <3>1
      <4>2. g[s] = f[ch[s]] + g[s \ {ch[s]}]
        BY <1>6, <3>1, <4>1
      <4>3. f[ch[s]] \in Nat
        BY <4>1, <3>1
      <4>. HIDE DEF ch
      <4>4. QED BY <4>1, <4>2, <4>3
    <3>2. QED BY <3>1, Zenon
  <2>2. g[{}] \in Nat
    BY <1>6
  <2>3. \A s \in SUBSET D : g[s] \in Nat
    <3>. HIDE DEF D, ch
    <3>1. QED BY <1>1, <2>1, <2>2, FoldStays
  <2>4. g = [s \in SUBSET D |-> g[s]]
    BY <1>5
  <2>5. QED BY <2>3, <2>4
<1>8. Sums(g, D, f)
  <2>1. \A s \in SUBSET D : s # {} => \E c \in s : g[s] = f[c] + g[s \ {c}]
    BY <1>2, <1>6
  <2>2. f \in [D -> Nat] /\ g[{}] = 0
    BY <1>6
  <2>. HIDE DEF D
  <2>3. QED BY <1>1, <1>7, <2>1, <2>2, AnyOrder
<1>. DEFINE h == [k \in 0..n |-> g[1..k]]
<1>9. \A k \in 0..n : 1..k \in SUBSET D
  <2>1. \A k \in 0..n : \A i \in 1..k : i \in 1..n
    OBVIOUS
  <2>2. QED BY <2>1
<1>10. h \in [0..n -> Nat]
  BY <1>7, <1>9
<1>11. SumFunction(f) = h[n] /\ h[0] = 0
  <2>1. 1..0 = {} /\ 0 \in 0..n /\ n \in 0..n
    OBVIOUS
  <2>2. QED BY <1>4, <1>6, <2>1
<1>12. ASSUME NEW k \in 1..n
       PROVE  h[k] = h[k - 1] + f[k]
  <2>1. (1..k) \ {k} = 1..(k - 1) /\ k \in 0..n /\ k - 1 \in 0..n
    BY MaxIn
  <2>2. k \in 1..k /\ 1..k \in SUBSET D
    BY <1>9, <2>1
  <2>3. g[1..k] = f[k] + g[(1..k) \ {k}]
    <3>. HIDE DEF D
    <3>1. QED BY <1>8, <2>2, Zenon DEF Sums
  <2>4. h[k] = f[k] + h[k - 1]
    BY <2>1, <2>3
  <2>5. f[k] \in Nat /\ h[k - 1] \in Nat
    <3>. HIDE DEF h
    <3>1. QED BY <1>10, <2>1
  <2>. HIDE DEF h
  <2>6. QED BY <2>4, <2>5
<1>. HIDE DEF h
<1>13. QED BY <1>10, <1>11, <1>12

-----------------------------------------------------------------------------
(* Folds over sequences, in steps: F[k] is what the k-th element does.     *)

LeftFold(g, n, X, r, F) ==
  /\ g[{}] = r
  /\ \A t \in SUBSET (1..n) : t # {} /\ g[t \ {Max(t)}] \in X =>
        g[t] = F[Max(t)][g[t \ {Max(t)}]]
Steps(h, n, X, r, F) ==
  h \in [0..n -> X] /\ h[0] = r /\ \A k \in 1..n : h[k] = F[k][h[k - 1]]

LEMMA LeftFoldExists ==
  ASSUME NEW n \in Nat, NEW X, NEW r \in X, NEW F \in [1..n -> [X -> X]]
  PROVE  \E g \in [SUBSET (1..n) -> X] : LeftFold(g, n, X, r, F)
<1>. DEFINE D == 1..n
            ch == [t \in SUBSET D |-> Max(t)]
            G == [t \in SUBSET D |-> [x \in X |-> F[Max(t)][x]]]
<1>1. IsFiniteSet(D)
  BY FS_Interval
<1>2. \A t \in SUBSET D : t # {} => Max(t) \in t
  BY MaxIn
<1>3. \A t \in SUBSET D, x \in X : t # {} => G[t][x] \in X /\ G[t][x] = F[Max(t)][x]
  <2>1. ASSUME NEW t \in SUBSET D, NEW x \in X, t # {}
        PROVE  G[t][x] \in X /\ G[t][x] = F[Max(t)][x]
    <3>1. Max(t) \in 1..n
      BY <1>2, <2>1
    <3>2. F[Max(t)][x] \in X
      BY <3>1
    <3>3. QED BY <3>2
  <2>2. QED BY <2>1
<1>4. \A t \in SUBSET D : t # {} => ch[t] \in t /\ ch[t] = Max(t)
  BY <1>2
<1>. HIDE DEF D, ch, G
<1>5. Foldable(D, X, r, ch, G)
  BY <1>1, <1>3, <1>4 DEF Foldable
<1>6. PICK g : FoldOf(g, D, X, r, ch, G)
  BY <1>5, FoldExists, Zenon
<1>7. g \in [SUBSET D -> X] /\ \A t \in SUBSET D : g[t] = IF t = {} THEN r ELSE G[t][g[t \ {ch[t]}]]
  BY <1>6, Zenon DEF FoldOf
<1>8. ASSUME NEW t \in SUBSET D
      PROVE  g[t] = IF t = {} THEN r ELSE F[Max(t)][g[t \ {Max(t)}]]
  <2>1. CASE t = {}
    BY <1>7, <2>1
  <2>2. CASE t # {}
    <3>1. ch[t] = Max(t) /\ t \ {Max(t)} \in SUBSET D
      BY <1>4, <2>2
    <3>2. g[t \ {Max(t)}] \in X
      BY <1>7, <3>1
    <3>3. QED BY <1>3, <1>7, <2>2, <3>1, <3>2
  <2>3. QED BY <2>1, <2>2
<1>9. LeftFold(g, n, X, r, F)
  <2>1. g[{}] = r
    BY <1>8
  <2>2. \A t \in SUBSET (1..n) : t # {} => g[t] = F[Max(t)][g[t \ {Max(t)}]]
    BY <1>8 DEF D
  <2>3. QED BY <2>1, <2>2, Zenon DEF LeftFold
<1>10. QED BY <1>7, <1>9 DEF D

LEMMA LeftFoldSteps ==
  ASSUME NEW n \in Nat, NEW X, NEW r \in X, NEW F \in [1..n -> [X -> X]], NEW g,
         LeftFold(g, n, X, r, F)
  PROVE  \E h : Steps(h, n, X, r, F) /\ h[n] = g[1..n]
<1>0. /\ g[{}] = r
      /\ \A t \in SUBSET (1..n) : t # {} /\ g[t \ {Max(t)}] \in X =>
            g[t] = F[Max(t)][g[t \ {Max(t)}]]
  BY DEF LeftFold
<1>. DEFINE S == {k \in 0..n : g[1..k] \in X}
<1>1. \A k \in 1..n : /\ 1..k \in SUBSET (1..n) /\ 1..k # {}
                      /\ Max(1..k) = k /\ (1..k) \ {k} = 1..(k - 1)
  <2>1. \A k \in 1..n : Max(1..k) = k /\ (1..k) \ {k} = 1..(k - 1)
    BY MaxIn
  <2>2. ASSUME NEW k \in 1..n PROVE 1..k \in SUBSET (1..n) /\ 1..k # {}
    <3>1. k \in 1..k /\ \A i \in 1..k : i \in 1..n
      OBVIOUS
    <3>2. QED BY <3>1
  <2>3. QED BY <2>1, <2>2
<1>2. \A k \in 1..n : g[1..(k - 1)] \in X => g[1..k] = F[k][g[1..(k - 1)]] /\ g[1..k] \in X
  <2>1. ASSUME NEW k \in 1..n, g[1..(k - 1)] \in X
        PROVE  g[1..k] = F[k][g[1..(k - 1)]] /\ g[1..k] \in X
    <3>1. g[1..k] = F[k][g[1..(k - 1)]]
      BY <1>0, <1>1, <2>1
    <3>2. F[k][g[1..(k - 1)]] \in X
      BY <2>1
    <3>3. QED BY <3>1, <3>2
  <2>2. QED BY <2>1
<1>3. 1..0 = {}
  OBVIOUS
<1>4. \A k \in 0..n : k \in S
  <2>1. 0 \in S
    BY <1>0, <1>3
  <2>2. ASSUME NEW k \in Nat, k < n, k \in S PROVE k + 1 \in S
    <3>1. k + 1 \in 1..n /\ (k + 1) - 1 = k /\ k + 1 \in 0..n /\ g[1..k] \in X
      BY <2>2
    <3>2. g[1..(k + 1)] \in X
      BY <1>2, <3>1
    <3>3. QED BY <3>1, <3>2
  <2>. HIDE DEF S
  <2>3. QED BY <2>1, <2>2, Upto
<1>. DEFINE h == [k \in 0..n |-> g[1..k]]
<1>5. h \in [0..n -> X]
  BY <1>4
<1>6. h[0] = r /\ h[n] = g[1..n]
  BY <1>0, <1>3
<1>7. \A k \in 1..n : h[k] = F[k][h[k - 1]]
  <2>1. ASSUME NEW k \in 1..n PROVE h[k] = F[k][h[k - 1]]
    <3>1. k - 1 \in 0..n /\ k \in 0..n
      OBVIOUS
    <3>2. h[k] = g[1..k] /\ h[k - 1] = g[1..(k - 1)] /\ g[1..(k - 1)] \in X
      BY <1>4, <3>1
    <3>3. QED BY <1>2, <3>2
  <2>2. QED BY <2>1
<1>. HIDE DEF h
<1>8. QED BY <1>5, <1>6, <1>7 DEF Steps

-----------------------------------------------------------------------------
(* Multiples and division by any number.                                   *)

\* Multiplication, which the rest does not look into.
LEMMA TimesFacts ==
  ASSUME NEW a \in Nat, NEW b \in Nat, NEW c \in Nat, a <= b
  PROVE  a * c \in Nat /\ b * c \in Nat /\ a * c <= b * c /\ (a + 1) * c = a * c + c
<1>1. PICK d \in Nat : b = a + d
  <2>1. b - a \in Nat /\ b = a + (b - a)
    OBVIOUS
  <2>2. QED BY <2>1
<1>2. a * c \in Nat /\ d * c \in Nat /\ b * c = a * c + d * c /\ (a + 1) * c = a * c + c
  BY <1>1
<1>3. QED BY <1>2

LEMMA DivFacts ==
  ASSUME NEW x \in Nat, NEW s \in Nat \ {0}
  PROVE  /\ x \div s \in Nat /\ (x \div s) * s \in Nat
         /\ (x \div s) * s <= x /\ x < (x \div s) * s + s
OBVIOUS

LEMMA DivIs ==
  ASSUME NEW x \in Nat, NEW s \in Nat \ {0}, NEW k \in Nat, k * s <= x, x < k * s + s
  PROVE  x \div s = k
<1>. DEFINE d == x \div s
<1>1. d \in Nat /\ d * s \in Nat /\ d * s <= x /\ x < d * s + s /\ k * s \in Nat
  BY DivFacts
<1>. HIDE DEF d
<1>2. CASE d < k
  <2>1. (d + 1) * s <= k * s /\ (d + 1) * s = d * s + s
    <3>1. d + 1 \in Nat /\ d + 1 <= k
      BY <1>1, <1>2
    <3>2. QED BY <1>1, <3>1, TimesFacts
  <2>2. QED BY <1>1, <2>1
<1>3. CASE k < d
  <2>1. (k + 1) * s <= d * s /\ (k + 1) * s = k * s + s
    <3>1. k + 1 \in Nat /\ k + 1 <= d
      BY <1>1, <1>3
    <3>2. QED BY <1>1, <3>1, TimesFacts
  <2>2. QED BY <1>1, <2>1
<1>4. d < k \/ k < d \/ d = k
  BY <1>1
<1>5. QED BY <1>2, <1>3, <1>4 DEF d

\* Division and remainder of the next number.
LEMMA NextDiv ==
  ASSUME NEW x \in Nat, NEW s \in Nat \ {0}
  PROVE  /\ x % s \in 0..(s - 1) /\ x \div s \in Nat
         /\ (x % s) + 1 = s => (x + 1) \div s = x \div s + 1 /\ (x + 1) % s = 0
         /\ (x % s) + 1 # s => (x + 1) \div s = x \div s /\ (x + 1) % s = (x % s) + 1
<1>. DEFINE d == x \div s
            m == d * s
<1>1. d \in Nat /\ m \in Nat /\ m <= x /\ x < m + s
  BY DivFacts
<1>2. x % s = x - m
  BY <1>1
<1>3. (d + 1) * s = m + s
  <2>. HIDE DEF d
  <2>1. QED BY <1>1, TimesFacts
<1>4. ASSUME (x % s) + 1 = s PROVE (x + 1) \div s = d + 1 /\ (x + 1) % s = 0
  <2>1. x + 1 = (d + 1) * s
    BY <1>1, <1>2, <1>3, <1>4
  <2>2. (x + 1) \div s = d + 1
    <3>1. d + 1 \in Nat /\ x + 1 \in Nat /\ (d + 1) * s <= x + 1 /\ x + 1 < (d + 1) * s + s
      BY <1>1, <1>3, <2>1
    <3>. HIDE DEF d
    <3>2. QED BY <3>1, DivIs
  <2>3. (x + 1) % s = (x + 1) - ((x + 1) \div s) * s
    OBVIOUS
  <2>4. QED BY <1>1, <2>1, <2>2, <2>3
<1>5. ASSUME (x % s) + 1 # s PROVE (x + 1) \div s = d /\ (x + 1) % s = (x % s) + 1
  <2>1. m <= x + 1 /\ x + 1 < m + s
    BY <1>1, <1>2, <1>5
  <2>2. (x + 1) \div s = d
    <3>1. d \in Nat /\ x + 1 \in Nat /\ d * s <= x + 1 /\ x + 1 < d * s + s
      BY <1>1, <2>1
    <3>. HIDE DEF d
    <3>2. QED BY <3>1, DivIs
  <2>3. (x + 1) % s = (x + 1) - ((x + 1) \div s) * s
    OBVIOUS
  <2>4. QED BY <1>1, <1>2, <2>2, <2>3
<1>6. x % s \in 0..(s - 1)
  BY <1>1, <1>2
<1>7. QED BY <1>1, <1>4, <1>5, <1>6
=============================================================================
