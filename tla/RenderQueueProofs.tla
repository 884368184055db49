------------------------- MODULE RenderQueueProofs -------------------------
(***************************************************************************)
(* Proofs about RenderQueue for any number of threads and commands and a   *)
(* queue of any size: what is recorded is drawn once and in order, the     *)
(* frames are counted right, and a read-back shows all that was recorded   *)
(* when it began.                                                          *)
(***************************************************************************)
EXTENDS RenderQueue, FiniteSetTheorems, SequenceTheorems, TLAPS

-----------------------------------------------------------------------------
(* Records: their commands, and their order.                               *)

LEMMA WithinAppend ==
  ASSUME NEW s \in Seq(Nat), NEW x \in Nat
  PROVE  Within(Append(s, x)) = Within(s) \cup {x}
<1>. DEFINE r == Append(s, x)
<1>1. /\ DOMAIN r = 1..(Len(s) + 1) /\ DOMAIN s = 1..Len(s) /\ Len(s) \in Nat
      /\ r[Len(s) + 1] = x /\ \A k \in 1..Len(s) : r[k] = s[k]
  OBVIOUS
<1>. HIDE DEF r
<1>2. QED BY <1>1 DEF Within, r

LEMMA WithinEmpty == Within(<<>>) = {}
BY DEF Within

\* An ordered record's first command comes before the others.
LEMMA WithinTail ==
  ASSUME NEW s \in Seq(Nat), s # <<>>
  PROVE  /\ Head(s) \in Nat /\ Tail(s) \in Seq(Nat)
         /\ Within(s) = {Head(s)} \cup Within(Tail(s))
         /\ InOrder(s) => InOrder(Tail(s)) /\ \A n \in Within(Tail(s)) : Head(s) < n
<1>. DEFINE r == Tail(s)
<1>1. /\ r \in Seq(Nat) /\ Head(s) = s[1] /\ Len(s) \in Nat \ {0}
      /\ DOMAIN r = 1..(Len(s) - 1) /\ DOMAIN s = 1..Len(s)
      /\ \A k \in 1..(Len(s) - 1) : r[k] = s[k + 1]
      /\ \A k \in 1..Len(s) : s[k] \in Nat
  OBVIOUS
<1>. HIDE DEF r
<1>2. ASSUME NEW n \in Within(s)
      PROVE  n \in {s[1]} \cup Within(r)
  <2>1. PICK k \in 1..Len(s) : n = s[k]
    BY <1>1 DEF Within
  <2>2. CASE k = 1
    BY <2>1, <2>2
  <2>3. CASE k # 1
    <3>1. k - 1 \in 1..(Len(s) - 1) /\ r[k - 1] = s[k]
      BY <1>1, <2>1, <2>3
    <3>2. QED
      BY <1>1, <2>1, <3>1 DEF Within
  <2>. QED BY <2>2, <2>3
<1>3. ASSUME NEW n \in Within(r)
      PROVE  /\ n \in Within(s)
             /\ InOrder(s) => s[1] < n
  <2>1. PICK k \in 1..(Len(s) - 1) : n = r[k]
    BY <1>1 DEF Within
  <2>2. k + 1 \in 1..Len(s) /\ n = s[k + 1] /\ 1 \in 1..Len(s) /\ 1 < k + 1
    BY <1>1, <2>1
  <2>3. QED
    BY <1>1, <2>2 DEF Within, InOrder
<1>4. s[1] \in Within(s)
  BY <1>1 DEF Within
<1>5. ASSUME InOrder(s)
      PROVE  InOrder(r)
  <2>1. ASSUME NEW k \in DOMAIN r, NEW l \in DOMAIN r, k < l
        PROVE  r[k] < r[l]
    <3>. k \in 1..(Len(s) - 1) /\ l \in 1..(Len(s) - 1)
      BY <1>1
    <3>1. \A z \in Nat : \A i \in 1..(z - 1) : i + 1 \in 1..z
      OBVIOUS
    <3>2. k + 1 \in 1..Len(s) /\ l + 1 \in 1..Len(s)
      BY <1>1, <3>1
    <3>3. k + 1 < l + 1
      BY <2>1
    <3>4. s[k + 1] < s[l + 1]
      BY <1>1, <1>5, <3>2, <3>3 DEF InOrder
    <3>5. QED
      BY <1>1, <2>1, <3>4
  <2>2. QED BY <2>1 DEF InOrder
<1>6. QED BY <1>1, <1>2, <1>3, <1>4, <1>5 DEF r

\* A record to which the command after all of its commands is added.
LEMMA OrderAppend ==
  ASSUME NEW s \in Seq(Nat), NEW x \in Nat, InOrder(s), \A n \in Within(s) : n < x
  PROVE  InOrder(Append(s, x))
<1>. DEFINE r == Append(s, x)
<1>1. /\ DOMAIN r = 1..(Len(s) + 1) /\ DOMAIN s = 1..Len(s) /\ Len(s) \in Nat
      /\ r[Len(s) + 1] = x /\ \A k \in 1..Len(s) : r[k] = s[k]
  OBVIOUS
<1>. HIDE DEF r
<1>2. ASSUME NEW k \in DOMAIN r, NEW l \in DOMAIN r, k < l
      PROVE  r[k] < r[l]
  <2>1. k \in DOMAIN s /\ r[k] = s[k]
    BY <1>1, <1>2
  <2>2. CASE l = Len(s) + 1
    <3>1. s[k] \in Within(s)
      BY <2>1 DEF Within
    <3>2. QED
      BY <1>1, <2>1, <2>2, <3>1
  <2>3. CASE l # Len(s) + 1
    <3>1. l \in DOMAIN s /\ r[l] = s[l]
      BY <1>1, <2>3
    <3>2. QED
      BY <1>2, <2>1, <3>1 DEF InOrder
  <2>. QED BY <2>2, <2>3
<1>3. QED BY <1>2 DEF InOrder, r

-----------------------------------------------------------------------------
(* What is left to draw, as a row of records of which each comes before    *)
(* the next, and which together hold the commands from lo + 1 to hi.       *)

Row(m) == [0..m -> Seq(Nat)]
Sorted(L, m, lo, hi) ==
  /\ lo <= hi
  /\ \A i \in 0..m : InOrder(L[i])
  /\ \A i, j \in 0..m : i < j => \A a \in Within(L[i]), b \in Within(L[j]) : a < b
  /\ \A n : (\E i \in 0..m : n \in Within(L[i])) <=> n \in (lo + 1)..hi

\* A command is added to the last record.
LEMMA Grow ==
  ASSUME NEW m \in Nat, NEW lo \in Nat, NEW hi \in Nat,
         NEW L \in Row(m), NEW M \in Row(m), Sorted(L, m, lo, hi),
         M[m] = Append(L[m], hi + 1), \A i \in 0..m : i # m => M[i] = L[i]
  PROVE  Sorted(M, m, lo, hi + 1)
<1>0. lo <= hi
  BY DEF Sorted
<1>1. m \in 0..m /\ L[m] \in Seq(Nat) /\ hi + 1 \in Nat
  BY DEF Row
<1>2. Within(M[m]) = Within(L[m]) \cup {hi + 1}
  BY <1>1, WithinAppend
<1>3. \A i \in 0..m : \A n \in Within(L[i]) : n \in (lo + 1)..hi
  BY DEF Sorted
<1>4. \A n \in Within(L[m]) : n < hi + 1
  <2>1. \A n \in (lo + 1)..hi : n < hi + 1
    OBVIOUS
  <2>2. QED BY <1>1, <1>3, <2>1
<1>5. \A i \in 0..m : InOrder(M[i])
  <2>1. InOrder(M[m])
    BY <1>1, <1>4, OrderAppend DEF Sorted
  <2>2. QED BY <2>1 DEF Sorted
<1>6. ASSUME NEW i \in 0..m, NEW j \in 0..m, i < j,
             NEW a \in Within(M[i]), NEW b \in Within(M[j])
      PROVE  a < b
  <2>1. i # m /\ a \in Within(L[i]) /\ a \in (lo + 1)..hi
    BY <1>3, <1>6
  <2>2. CASE j = m /\ b = hi + 1
    BY <2>1, <2>2
  <2>3. CASE ~(j = m /\ b = hi + 1)
    <3>1. b \in Within(L[j])
      BY <1>2, <1>6, <2>3
    <3>2. QED
      BY <1>6, <2>1, <3>1 DEF Sorted
  <2>. QED BY <2>2, <2>3
<1>7. ASSUME NEW n
      PROVE  (\E i \in 0..m : n \in Within(M[i])) <=> n \in (lo + 1)..(hi + 1)
  <2>1. (\E i \in 0..m : n \in Within(M[i])) <=> (\E i \in 0..m : n \in Within(L[i])) \/ n = hi + 1
    BY <1>1, <1>2
  <2>2. n \in (lo + 1)..(hi + 1) <=> n \in (lo + 1)..hi \/ n = hi + 1
    BY <1>0
  <2>3. (\E i \in 0..m : n \in Within(L[i])) <=> n \in (lo + 1)..hi
    BY DEF Sorted
  <2>4. QED
    BY <2>1, <2>2, <2>3
<1>8. lo <= hi + 1
  BY <1>0
<1>9. QED BY <1>5, <1>6, <1>7, <1>8 DEF Sorted

\* An empty record joins: the records keep their order, f says where they are.
LEMMA Insert ==
  ASSUME NEW m \in Nat, NEW lo \in Nat, NEW hi \in Nat,
         NEW L \in Row(m), NEW M \in Row(m + 1), Sorted(L, m, lo, hi),
         NEW e \in 0..(m + 1), M[e] = <<>>,
         \A i \in 0..m : i < e => M[i] = L[i],
         \A i \in 0..m : e <= i => M[i + 1] = L[i]
  PROVE  Sorted(M, m + 1, lo, hi)
<1>. DEFINE f(i) == IF i < e THEN i ELSE i - 1
<1>1. ASSUME NEW i \in 0..(m + 1), i # e
      PROVE  f(i) \in 0..m /\ M[i] = L[f(i)]
  <2>1. CASE i < e
    BY <2>1
  <2>2. CASE ~(i < e)
    <3>1. i - 1 \in 0..m /\ e <= i - 1 /\ (i - 1) + 1 = i
      BY <1>1, <2>2
    <3>2. M[(i - 1) + 1] = L[i - 1]
      BY <3>1
    <3>3. QED
      BY <2>2, <3>1, <3>2
  <2>. QED BY <2>1, <2>2
<1>2. \A i, j \in 0..(m + 1) : i # e /\ j # e /\ i < j => f(i) < f(j)
  OBVIOUS
<1>3. Within(M[e]) = {}
  BY WithinEmpty
<1>4. InOrder(M[e])
  BY DEF InOrder
<1>. HIDE DEF f
<1>5. \A i \in 0..(m + 1) : InOrder(M[i])
  BY <1>1, <1>4 DEF Sorted
<1>6. ASSUME NEW i \in 0..(m + 1), NEW j \in 0..(m + 1), i < j,
             NEW a \in Within(M[i]), NEW b \in Within(M[j])
      PROVE  a < b
  <2>1. i # e /\ j # e
    BY <1>3, <1>6
  <2>2. f(i) \in 0..m /\ f(j) \in 0..m /\ f(i) < f(j) /\ M[i] = L[f(i)] /\ M[j] = L[f(j)]
    BY <1>1, <1>2, <1>6, <2>1
  <2>3. QED
    BY <1>6, <2>2 DEF Sorted
<1>7. ASSUME NEW n
      PROVE  (\E i \in 0..(m + 1) : n \in Within(M[i])) <=> (\E i \in 0..m : n \in Within(L[i]))
  <2>1. ASSUME NEW i \in 0..(m + 1), n \in Within(M[i])
        PROVE  \E j \in 0..m : n \in Within(L[j])
    BY <1>1, <1>3, <2>1
  <2>2. ASSUME NEW i \in 0..m, n \in Within(L[i])
        PROVE  \E j \in 0..(m + 1) : n \in Within(M[j])
    <3>1. CASE i < e
      <4>1. i \in 0..(m + 1) /\ M[i] = L[i]
        BY <3>1
      <4>2. QED BY <2>2, <4>1
    <3>2. CASE ~(i < e)
      <4>1. i + 1 \in 0..(m + 1) /\ M[i + 1] = L[i]
        BY <3>2
      <4>2. QED BY <2>2, <4>1
    <3>. QED BY <3>1, <3>2
  <2>3. QED BY <2>1, <2>2
<1>8. QED BY <1>5, <1>6, <1>7 DEF Sorted

\* The first record, which is empty, leaves.
LEMMA Leave ==
  ASSUME NEW m \in Nat, NEW lo \in Nat, NEW hi \in Nat,
         NEW L \in Row(m + 1), NEW M \in Row(m), Sorted(L, m + 1, lo, hi),
         L[0] = <<>>, \A i \in 0..m : M[i] = L[i + 1]
  PROVE  Sorted(M, m, lo, hi)
<1>1. \A i \in 0..m : i + 1 \in 0..(m + 1)
  OBVIOUS
<1>2. \A i \in 0..m : InOrder(M[i])
  BY <1>1 DEF Sorted
<1>3. ASSUME NEW i \in 0..m, NEW j \in 0..m, i < j,
             NEW a \in Within(M[i]), NEW b \in Within(M[j])
      PROVE  a < b
  <2>1. i + 1 < j + 1
    BY <1>3
  <2>2. QED BY <1>1, <1>3, <2>1 DEF Sorted
<1>4. ASSUME NEW n
      PROVE  (\E i \in 0..m : n \in Within(M[i])) <=> (\E i \in 0..(m + 1) : n \in Within(L[i]))
  <2>1. ASSUME NEW i \in 0..(m + 1), n \in Within(L[i])
        PROVE  \E j \in 0..m : n \in Within(M[j])
    <3>1. i # 0
      BY <2>1, WithinEmpty
    <3>2. i - 1 \in 0..m /\ (i - 1) + 1 = i
      BY <3>1
    <3>3. M[i - 1] = L[i]
      BY <3>2
    <3>4. QED BY <2>1, <3>2, <3>3
  <2>2. QED BY <1>1, <2>1
<1>5. QED BY <1>2, <1>3, <1>4 DEF Sorted

\* The first command of all is drawn: it is the lowest.
LEMMA Draw ==
  ASSUME NEW m \in Nat, NEW lo \in Nat, NEW hi \in Nat,
         NEW L \in Row(m), NEW M \in Row(m), Sorted(L, m, lo, hi),
         L[0] # <<>>, M[0] = Tail(L[0]), \A i \in 1..m : M[i] = L[i]
  PROVE  /\ Head(L[0]) = lo + 1
         /\ Sorted(M, m, lo + 1, hi)
<1>. DEFINE h == Head(L[0])
<1>1. 0 \in 0..m /\ L[0] \in Seq(Nat) /\ InOrder(L[0])
  BY DEF Row, Sorted
<1>2. /\ h \in Nat /\ Within(L[0]) = {h} \cup Within(M[0])
      /\ InOrder(M[0]) /\ \A n \in Within(M[0]) : h < n
  BY <1>1, WithinTail
<1>. HIDE DEF h
<1>3. h \in (lo + 1)..hi
  BY <1>1, <1>2 DEF Sorted
<1>4. \A i \in 0..m : \A n \in Within(M[i]) : n \in Within(L[i])
  BY <1>2
<1>5. ASSUME NEW i \in 0..m, NEW n \in Within(M[i])
      PROVE  h < n
  <2>1. CASE i = 0
    BY <1>2, <1>5, <2>1
  <2>2. CASE i # 0
    <3>1. 0 < i /\ h \in Within(L[0]) /\ n \in Within(L[i])
      BY <1>2, <1>4, <1>5, <2>2
    <3>2. \A a \in Within(L[0]), b \in Within(L[i]) : a < b
      BY <1>1, <3>1 DEF Sorted
    <3>3. QED
      BY <3>1, <3>2
  <2>. QED BY <2>1, <2>2
<1>6. h = lo + 1
  <2>1. lo + 1 \in (lo + 1)..hi
    BY <1>3
  <2>2. PICK i \in 0..m : lo + 1 \in Within(L[i])
    BY <2>1 DEF Sorted
  <2>3. lo + 1 = h \/ lo + 1 \in Within(M[i])
    BY <1>2, <2>2
  <2>4. ~(h < lo + 1)
    BY <1>3
  <2>5. lo + 1 \notin Within(M[i])
    BY <1>5, <2>4
  <2>6. QED BY <2>3, <2>5
<1>7. \A i \in 0..m : InOrder(M[i])
  BY <1>2 DEF Sorted
<1>8. ASSUME NEW i \in 0..m, NEW j \in 0..m, i < j,
             NEW a \in Within(M[i]), NEW b \in Within(M[j])
      PROVE  a < b
  BY <1>4, <1>8 DEF Sorted
<1>9. ASSUME NEW n
      PROVE  (\E i \in 0..m : n \in Within(M[i])) <=> n \in (lo + 2)..hi
  <2>1. (\E i \in 0..m : n \in Within(M[i])) => n \in (lo + 1)..hi /\ lo + 1 < n
    BY <1>4, <1>5, <1>6 DEF Sorted
  <2>2. ASSUME n \in (lo + 2)..hi
        PROVE  \E i \in 0..m : n \in Within(M[i])
    <3>1. n \in (lo + 1)..hi /\ n # h
      BY <1>6, <2>2
    <3>2. PICK i \in 0..m : n \in Within(L[i])
      BY <3>1 DEF Sorted
    <3>3. n \in Within(M[i])
      BY <1>2, <3>1, <3>2
    <3>4. QED BY <3>3
  <2>3. QED BY <2>1, <2>2
<1>10. lo + 2 = (lo + 1) + 1 /\ lo + 1 <= hi
  BY <1>3
<1>11. QED BY <1>6, <1>7, <1>8, <1>9, <1>10 DEF Sorted, h

-----------------------------------------------------------------------------
(* Frames, counted.                                                        *)

Count(S, rd) == Cardinality({n \in S : rd[n] = "frame"})

LEMMA CountOf ==
  ASSUME NEW rd, NEW z \in Nat, NEW S \in SUBSET (1..z)
  PROVE  IsFiniteSet({n \in S : rd[n] = "frame"}) /\ Count(S, rd) \in Nat
<1>. DEFINE F == {n \in S : rd[n] = "frame"}
<1>1. IsFiniteSet(1..z) /\ F \in SUBSET (1..z)
  <2>1. 1 \in Int /\ z \in Int
    OBVIOUS
  <2>2. IsFiniteSet(1..z)
    BY <2>1, FS_Interval
  <2>3. QED BY <2>2
<1>2. IsFiniteSet(F)
  BY <1>1, FS_Subset
<1>3. QED BY <1>2, FS_CardinalityType DEF Count

LEMMA CountEmpty == \A rd : Count({}, rd) = 0
<1>1. ASSUME NEW rd PROVE {n \in {} : rd[n] = "frame"} = {}
  OBVIOUS
<1>2. QED BY <1>1, FS_EmptySet DEF Count

LEMMA CountUnion ==
  ASSUME NEW rd, NEW z \in Nat, NEW S \in SUBSET (1..z), NEW T \in SUBSET (1..z), S \cap T = {}
  PROVE  Count(S \cup T, rd) = Count(S, rd) + Count(T, rd)
<1>. DEFINE F == {n \in S : rd[n] = "frame"}
            G == {n \in T : rd[n] = "frame"}
<1>1. IsFiniteSet(F) /\ IsFiniteSet(G) /\ Count(S, rd) \in Nat /\ Count(T, rd) \in Nat
  BY CountOf
<1>2. F \cap G = {} /\ {n \in S \cup T : rd[n] = "frame"} = F \cup G
  OBVIOUS
<1>3. Cardinality(F \cup G) = Cardinality(F) + Cardinality(G) - Cardinality(F \cap G)
  BY <1>1, FS_Union
<1>4. Cardinality(F \cap G) = 0
  BY <1>2, FS_EmptySet
<1>5. Cardinality(F) = Count(S, rd) /\ Cardinality(G) = Count(T, rd)
      /\ Count(S \cup T, rd) = Cardinality(F \cup G)
  BY <1>2 DEF Count
<1>. HIDE DEF F, G
<1>6. QED BY <1>1, <1>3, <1>4, <1>5

\* One more command: those before it count as before.
LEMMA CountMore ==
  ASSUME NEW rd \in Seq(Kind), NEW k \in Kind, NEW S \in SUBSET (1..Len(rd))
  PROVE  /\ Count(S, Append(rd, k)) = Count(S, rd)
         /\ Count(S \cup {Len(rd) + 1}, Append(rd, k))
              = Count(S, rd) + (IF k = "frame" THEN 1 ELSE 0)
<1>. DEFINE re == Append(rd, k)
            z == Len(rd) + 1
<1>1. /\ Len(rd) \in Nat /\ z \in Nat /\ re[z] = k
      /\ \A n \in 1..Len(rd) : re[n] = rd[n]
  OBVIOUS
<1>2. {n \in S : re[n] = "frame"} = {n \in S : rd[n] = "frame"}
  BY <1>1
<1>3. Count(S, re) = Count(S, rd)
  BY <1>2 DEF Count
<1>4. S \in SUBSET (1..z) /\ {z} \in SUBSET (1..z) /\ S \cap {z} = {}
  BY <1>1
<1>5. {n \in {z} : re[n] = "frame"} = IF k = "frame" THEN {z} ELSE {}
  BY <1>1
<1>6. Count({z}, re) = IF k = "frame" THEN 1 ELSE 0
  BY <1>5, FS_EmptySet, FS_Singleton DEF Count
<1>. HIDE DEF re, z
<1>7. Count(S \cup {z}, re) = Count(S, re) + Count({z}, re)
  BY <1>1, <1>4, CountUnion
<1>8. QED BY <1>3, <1>6, <1>7 DEF re, z

-----------------------------------------------------------------------------
(* The way of the record: what is left, with r in the place of the record, *)
(* in which f frames end, and rd all that was recorded.                    *)

LeftOf(qq, a, r) ==
  [i \in 0..(Len(qq) + 1) |->
     IF i = 0 THEN a ELSE IF i = Len(qq) + 1 THEN r ELSE qq[i].items]
InQueue(qq) == UNION {Within(qq[i].items) : i \in DOMAIN qq}

LEMMA RowOf ==
  ASSUME NEW qq \in Seq(Chunks), NEW a \in Seq(Nat), NEW r \in Seq(Nat)
  PROVE  /\ Len(qq) \in Nat /\ DOMAIN qq = 1..Len(qq)
         /\ \A i \in DOMAIN qq : qq[i] \in Chunks /\ qq[i].items \in Seq(Nat)
         /\ LeftOf(qq, a, r) \in Row(Len(qq) + 1)
         /\ LeftOf(qq, a, r)[0] = a /\ LeftOf(qq, a, r)[Len(qq) + 1] = r
         /\ \A i \in 1..Len(qq) : LeftOf(qq, a, r)[i] = qq[i].items
<1>. DEFINE L == LeftOf(qq, a, r)
            m == Len(qq) + 1
<1>1. /\ Len(qq) \in Nat /\ DOMAIN qq = 1..Len(qq)
      /\ \A i \in DOMAIN qq : qq[i] \in Chunks
  OBVIOUS
<1>2. \A i \in DOMAIN qq : qq[i].items \in Seq(Nat)
  BY <1>1 DEF Chunks
<1>3. \A i \in 0..m : i \in DOMAIN qq \/ i = 0 \/ i = m
  BY <1>1
<1>4. \A i \in DOMAIN qq : i \in 0..m /\ i < m /\ i # 0 /\ i # m
  BY <1>1
<1>5. m \in 0..m /\ 0 \in 0..m /\ m # 0
  BY <1>1
<1>6. L = [i \in 0..m |-> IF i = 0 THEN a ELSE IF i = m THEN r ELSE qq[i].items]
  BY DEF LeftOf
<1>. HIDE DEF L, m
<1>7. L \in [0..m -> Seq(Nat)]
  BY <1>2, <1>3, <1>6
<1>8. L[0] = a /\ L[m] = r /\ \A i \in DOMAIN qq : L[i] = qq[i].items
  BY <1>4, <1>5, <1>6
<1>9. QED BY <1>1, <1>2, <1>7, <1>8 DEF Row, L, m

\* A chunk joins the queue, or leaves it.
LEMMA QueueAppend ==
  ASSUME NEW qq \in Seq(Chunks), NEW c \in Chunks
  PROVE  /\ Append(qq, c) \in Seq(Chunks) /\ Len(Append(qq, c)) = Len(qq) + 1
         /\ DOMAIN Append(qq, c) = 1..(Len(qq) + 1)
         /\ \A i \in 1..Len(qq) : Append(qq, c)[i] = qq[i]
         /\ Append(qq, c)[Len(qq) + 1] = c
         /\ InQueue(Append(qq, c)) = InQueue(qq) \cup Within(c.items)
<1>. DEFINE r == Append(qq, c)
<1>1. /\ r \in Seq(Chunks) /\ Len(r) = Len(qq) + 1 /\ Len(qq) \in Nat
      /\ DOMAIN r = 1..(Len(qq) + 1) /\ DOMAIN qq = 1..Len(qq)
      /\ \A i \in 1..Len(qq) : r[i] = qq[i]
      /\ r[Len(qq) + 1] = c
  OBVIOUS
<1>. HIDE DEF r
<1>2. \A i \in 1..(Len(qq) + 1) : i \in 1..Len(qq) \/ i = Len(qq) + 1
  BY <1>1
<1>3. 1..Len(qq) \subseteq 1..(Len(qq) + 1) /\ Len(qq) + 1 \in 1..(Len(qq) + 1)
  BY <1>1
<1>4. \A n : n \in InQueue(r) <=> n \in InQueue(qq) \cup Within(c.items)
  <2>1. \A n : n \in InQueue(r) <=> \E i \in 1..(Len(qq) + 1) : n \in Within(r[i].items)
    BY <1>1 DEF InQueue
  <2>2. \A n : n \in InQueue(qq) <=> \E i \in 1..Len(qq) : n \in Within(qq[i].items)
    BY <1>1 DEF InQueue
  <2>3. QED BY <1>1, <1>2, <1>3, <2>1, <2>2
<1>5. InQueue(r) = InQueue(qq) \cup Within(c.items)
  BY <1>4
<1>6. QED BY <1>1, <1>5 DEF r

LEMMA QueueTail ==
  ASSUME NEW qq \in Seq(Chunks), qq # <<>>
  PROVE  /\ Tail(qq) \in Seq(Chunks) /\ Len(qq) \in Nat \ {0} /\ Len(Tail(qq)) = Len(qq) - 1
         /\ DOMAIN Tail(qq) = 1..(Len(qq) - 1) /\ DOMAIN qq = 1..Len(qq)
         /\ \A i \in 1..(Len(qq) - 1) : Tail(qq)[i] = qq[i + 1]
         /\ Head(qq) = qq[1] /\ Head(qq) \in Chunks
         /\ InQueue(qq) = Within(Head(qq).items) \cup InQueue(Tail(qq))
<1>. DEFINE r == Tail(qq)
            h == Head(qq)
<1>1. /\ r \in Seq(Chunks) /\ Len(qq) \in Nat \ {0} /\ Len(r) = Len(qq) - 1
      /\ DOMAIN r = 1..(Len(qq) - 1) /\ DOMAIN qq = 1..Len(qq)
      /\ \A i \in 1..(Len(qq) - 1) : r[i] = qq[i + 1]
      /\ h = qq[1] /\ h \in Chunks
  OBVIOUS
<1>. HIDE DEF r, h
<1>2. \A i \in 1..Len(qq) : i = 1 \/ (i - 1 \in 1..(Len(qq) - 1) /\ (i - 1) + 1 = i)
  BY <1>1
<1>3. 1 \in 1..Len(qq) /\ \A i \in 1..(Len(qq) - 1) : i + 1 \in 1..Len(qq)
  BY <1>1
<1>4. \A n : n \in InQueue(qq) <=> n \in Within(h.items) \cup InQueue(r)
  <2>1. \A n : n \in InQueue(qq) <=> \E i \in 1..Len(qq) : n \in Within(qq[i].items)
    BY <1>1 DEF InQueue
  <2>2. \A n : n \in InQueue(r) <=> \E i \in 1..(Len(qq) - 1) : n \in Within(r[i].items)
    BY <1>1 DEF InQueue
  <2>3. \A i \in 1..Len(qq) : i = 1 \/ qq[i] = r[i - 1]
    BY <1>1, <1>2
  <2>4. QED BY <1>1, <1>2, <1>3, <2>1, <2>2, <2>3
<1>5. InQueue(qq) = Within(h.items) \cup InQueue(r)
  BY <1>4
<1>6. QED BY <1>1, <1>5 DEF r, h

AtHandFrames == IF drawing = Null THEN 0 ELSE drawing.frames

With(r, f, rd) ==
  /\ rd \in Seq(Kind) /\ r \in Seq(Nat)
  /\ f = Count(Within(r), rd)
  /\ \A i \in DOMAIN q : q[i].frames = Count(Within(q[i].items), rd)
  /\ q_frames = Count(InQueue(q), rd) + AtHandFrames
  /\ Sorted(LeftOf(q, AtHand, r), Len(q) + 1, Len(drawn), Len(rd))

FlowType ==
  /\ recorded \in Seq(Kind) /\ rec \in Seq(Nat) /\ rec_frames \in Nat
  /\ q \in Seq(Chunks) /\ drawing \in Chunks \cup {Null} /\ q_frames \in Nat
  /\ drawn \in Seq(Nat)
ReadBacksEmpty == \A i \in DOMAIN q : q[i].read # "" => q[i].items = <<>>

InTurn == drawn = [n \in 1..Len(drawn) |-> n]

Flow ==
  /\ FlowType /\ ReadBacksEmpty /\ InTurn
  /\ With(rec, rec_frames, recorded)
flow == <<recorded, rec, rec_frames, q, q_frames, drawing, drawn>>

\* Flow says what the properties say.
LEMMA FlowIs ==
  FlowType => (Flow <=> ReadBacksEmpty /\ FramesCounted /\ DrawnInOrder)
<1>. SUFFICES ASSUME FlowType
              PROVE  Flow <=> ReadBacksEmpty /\ FramesCounted /\ DrawnInOrder
  OBVIOUS
<1>1. LeftOf(q, AtHand, rec) = Left /\ DOMAIN Left = 0..(Len(q) + 1)
  BY DEF LeftOf, Left
<1>. DEFINE U == UNION {Within(Left[i]) : i \in DOMAIN Left}
            lh == (Len(drawn) + 1)..Len(recorded)
<1>2. (U = lh) <=> \A n : (\E i \in DOMAIN Left : n \in Within(Left[i])) <=> n \in lh
  <2>1. \A n : n \in U <=> \E i \in DOMAIN Left : n \in Within(Left[i])
    OBVIOUS
  <2>. HIDE DEF U, lh
  <2>2. QED BY <2>1
<1>. HIDE DEF U, lh
<1>3. Sorted(Left, Len(q) + 1, Len(drawn), Len(recorded)) /\ InTurn <=> DrawnInOrder
  BY <1>1, <1>2 DEF Sorted, DrawnInOrder, InTurn, rec_total, U, lh
<1>4. FramesCounted <=>
        /\ rec_frames = Count(Within(rec), recorded)
        /\ \A i \in DOMAIN q : q[i].frames = Count(Within(q[i].items), recorded)
        /\ q_frames = Count(InQueue(q), recorded) + AtHandFrames
  BY DEF FramesCounted, Frames, Count, AtHandFrames, Queued, InQueue
<1>5. QED BY <1>1, <1>3, <1>4 DEF Flow, With, FlowType

\* The commands that a part of the way holds have been recorded, and two parts
\* hold none in common.
LEMMA AtHandType ==
  FlowType => AtHand \in Seq(Nat)
<1>. SUFFICES ASSUME FlowType PROVE AtHand \in Seq(Nat)
  OBVIOUS
<1>1. CASE drawing = Null
  BY <1>1 DEF AtHand
<1>2. CASE drawing # Null
  <2>1. drawing \in Chunks
    BY <1>2 DEF FlowType
  <2>2. drawing.items \in Seq(Nat)
    BY <2>1 DEF Chunks
  <2>3. QED BY <1>2, <2>2 DEF AtHand
<1>. QED BY <1>1, <1>2

LEMMA Parts ==
  ASSUME FlowType, NEW r, NEW f, NEW rd, With(r, f, rd)
  PROVE  /\ LeftOf(q, AtHand, r) \in Row(Len(q) + 1) /\ Len(q) \in Nat /\ Len(rd) \in Nat
         /\ Within(r) \in SUBSET (1..Len(rd)) /\ InQueue(q) \in SUBSET (1..Len(rd))
         /\ Within(r) \cap InQueue(q) = {}
         /\ \A i \in DOMAIN q : Within(q[i].items) \in SUBSET (1..Len(rd))
         /\ \A i, j \in DOMAIN q : i # j => Within(q[i].items) \cap Within(q[j].items) = {}
<1>. DEFINE L == LeftOf(q, AtHand, r)
            m == Len(q) + 1
<1>1. /\ Len(q) \in Nat /\ DOMAIN q = 1..Len(q) /\ Len(drawn) \in Nat /\ Len(rd) \in Nat
      /\ q \in Seq(Chunks) /\ r \in Seq(Nat)
  BY DEF FlowType, With
<1>2. /\ L \in Row(m) /\ L[m] = r /\ \A i \in DOMAIN q : i \in 0..m /\ i < m /\ L[i] = q[i].items
  <2>1. \A i \in DOMAIN q : i \in 0..m /\ i < m
    BY <1>1
  <2>2. AtHand \in Seq(Nat)
    BY AtHandType
  <2>3. /\ L \in Row(m) /\ L[m] = r
        /\ \A i \in 1..Len(q) : L[i] = q[i].items
    BY <1>1, <2>2, RowOf
  <2>4. QED BY <1>1, <2>1, <2>3
<1>3. m \in 0..m /\ m \in Nat
  BY <1>1
<1>. HIDE DEF L, m
<1>4. Sorted(L, m, Len(drawn), Len(rd))
  BY DEF With, L, m
<1>5. \A i \in 0..m : \A n \in Within(L[i]) : n \in 1..Len(rd)
  <2>1. \A n \in (Len(drawn) + 1)..Len(rd) : n \in 1..Len(rd)
    BY <1>1
  <2>2. QED BY <1>4, <2>1 DEF Sorted
<1>6. \A i, j \in 0..m : i < j => Within(L[i]) \cap Within(L[j]) = {}
  <2>1. ASSUME NEW i \in 0..m, NEW j \in 0..m, i < j, NEW n \in Within(L[i]), n \in Within(L[j])
        PROVE  FALSE
    <3>1. n \in 1..Len(rd) /\ n < n
      BY <1>4, <1>5, <2>1 DEF Sorted
    <3>2. QED BY <3>1
  <2>2. QED BY <2>1
<1>7. \A i \in DOMAIN q : Within(q[i].items) \in SUBSET (1..Len(rd))
  BY <1>2, <1>5
<1>8. Within(r) \in SUBSET (1..Len(rd))
  BY <1>2, <1>3, <1>5
<1>9. InQueue(q) \in SUBSET (1..Len(rd))
  BY <1>7 DEF InQueue
<1>10. Within(r) \cap InQueue(q) = {}
  <2>1. \A i \in DOMAIN q : Within(q[i].items) \cap Within(r) = {}
    BY <1>2, <1>3, <1>6
  <2>2. QED BY <2>1 DEF InQueue
<1>11. ASSUME NEW i \in DOMAIN q, NEW j \in DOMAIN q, i # j
       PROVE  Within(q[i].items) \cap Within(q[j].items) = {}
  <2>1. i < j \/ j < i
    BY <1>1, <1>11
  <2>2. Within(L[i]) \cap Within(L[j]) = {}
    <3>1. CASE i < j
      BY <1>2, <1>6, <3>1
    <3>2. CASE j < i
      <4>1. Within(L[j]) \cap Within(L[i]) = {}
        BY <1>2, <1>6, <3>2
      <4>2. QED BY <4>1
    <3>. QED BY <2>1, <3>1, <3>2
  <2>3. QED BY <1>2, <2>2
<1>12. QED BY <1>1, <1>2, <1>7, <1>8, <1>9, <1>10, <1>11 DEF L, m

-----------------------------------------------------------------------------
(* Each action leaves the way of the record as Flow says.                  *)

LEMMA ChunkType ==
  ASSUME NEW i \in Seq(Nat), NEW f \in Nat, NEW r \in {"", "efb", "copy"}
  PROVE  /\ Chunk(i, f, r) \in Chunks
         /\ Chunk(i, f, r).items = i /\ Chunk(i, f, r).frames = f /\ Chunk(i, f, r).read = r
BY DEF Chunk, Chunks

\* A record that counts with what there is: handed over, it is the queue's last.
LEMMA SubmitFlow ==
  ASSUME FlowType, ReadBacksEmpty, InTurn,
         NEW r, NEW f \in Nat, NEW rd, recorded' = rd, With(r, f, rd), Submit(r, f),
         UNCHANGED renderer
  PROVE  Flow'
<1>. DEFINE c == Chunk(r, f, "")
            m == Len(q) + 1
            L == LeftOf(q, AtHand, r)
            M == LeftOf(q', AtHand', rec')
<1>0. r \in Seq(Nat) /\ rd \in Seq(Kind)
  BY DEF With
<1>1. c \in Chunks /\ c.items = r /\ c.frames = f /\ c.read = ""
  BY <1>0 DEF Chunk, Chunks
<1>2. /\ q' = Append(q, c) /\ rec' = <<>> /\ rec_frames' = 0 /\ q_frames' = q_frames + f
      /\ drawing' = drawing /\ drawn' = drawn /\ AtHand' = AtHand /\ AtHandFrames' = AtHandFrames
  BY DEF Submit, renderer, AtHand, AtHandFrames
<1>3. q \in Seq(Chunks) /\ q_frames \in Nat /\ drawn \in Seq(Nat) /\ AtHand \in Seq(Nat)
      /\ Len(drawn) \in Nat
  BY AtHandType DEF FlowType
<1>. HIDE DEF c, L, M
<1>4. /\ q' \in Seq(Chunks) /\ Len(q') = m /\ DOMAIN q' = 1..m
      /\ \A i \in 1..Len(q) : q'[i] = q[i]
      /\ q'[m] = c
      /\ InQueue(q') = InQueue(q) \cup Within(r)
  BY <1>1, <1>2, <1>3, QueueAppend
<1>5. /\ Len(q) \in Nat /\ DOMAIN q = 1..Len(q) /\ m \in Nat /\ Len(rd) \in Nat
      /\ Within(r) \in SUBSET (1..Len(rd)) /\ InQueue(q) \in SUBSET (1..Len(rd))
      /\ InQueue(q) \cap Within(r) = {}
  <2>1. /\ Len(q) \in Nat /\ DOMAIN q = 1..Len(q) /\ Len(rd) \in Nat
    BY <1>0, <1>3
  <2>2. /\ Within(r) \in SUBSET (1..Len(rd)) /\ InQueue(q) \in SUBSET (1..Len(rd))
        /\ Within(r) \cap InQueue(q) = {}
    BY Parts
  <2>3. QED BY <2>1, <2>2
<1>6. FlowType'
  <2>1. q_frames + f \in Nat /\ <<>> \in Seq(Nat)
    BY <1>3
  <2>2. q' \in Seq(Chunks)
    BY <1>4
  <2>3. QED BY <1>0, <1>1, <1>2, <2>1, <2>2 DEF FlowType
<1>7. \A i \in 1..m : i \in 1..Len(q) \/ i = m
  BY <1>5
<1>8. ReadBacksEmpty'
  BY <1>1, <1>4, <1>5, <1>7 DEF ReadBacksEmpty
<1>9. 0 = Count(Within(<<>>), rd)
  BY CountEmpty, WithinEmpty
<1>10. \A i \in DOMAIN q' : q'[i].frames = Count(Within(q'[i].items), rd)
  BY <1>1, <1>4, <1>5, <1>7 DEF With
<1>11. q_frames + f = Count(InQueue(q'), rd) + AtHandFrames
  <2>1. Count(InQueue(q) \cup Within(r), rd) = Count(InQueue(q), rd) + Count(Within(r), rd)
    BY <1>5, CountUnion
  <2>2. Count(InQueue(q), rd) \in Nat
    BY <1>5, CountOf
  <2>3. AtHandFrames \in Nat
    BY DEF AtHandFrames, FlowType, Chunks
  <2>4. f = Count(Within(r), rd) /\ q_frames = Count(InQueue(q), rd) + AtHandFrames
    BY DEF With
  <2>5. QED BY <1>3, <1>4, <2>1, <2>2, <2>3, <2>4
<1>12. Sorted(M, m + 1, Len(drawn), Len(rd))
  <2>1. L \in Row(m) /\ L[0] = AtHand /\ L[m] = r /\ \A i \in 1..Len(q) : L[i] = q[i].items
    <3>1. q \in Seq(Chunks) /\ AtHand \in Seq(Nat) /\ r \in Seq(Nat)
      BY <1>0, <1>3
    <3>. HIDE DEF m
    <3>2. /\ LeftOf(q, AtHand, r) \in Row(Len(q) + 1) /\ LeftOf(q, AtHand, r)[0] = AtHand
          /\ LeftOf(q, AtHand, r)[Len(q) + 1] = r
          /\ \A i \in 1..Len(q) : LeftOf(q, AtHand, r)[i] = q[i].items
      BY <3>1, RowOf
    <3>3. QED BY <3>2 DEF L, m
  <2>3. /\ M \in Row(m + 1) /\ M[0] = AtHand /\ M[m + 1] = <<>>
        /\ \A i \in 1..m : M[i] = q'[i].items
    <3>1. PICK qq \in Seq(Chunks) : qq = q'
      BY <1>4
    <3>. HIDE DEF m
    <3>2. Len(qq) = m
      BY <1>4, <3>1
    <3>3. PICK e \in Seq(Nat) : e = <<>>
      <4>1. <<>> \in Seq(Nat)
        OBVIOUS
      <4>2. QED BY <4>1, Zenon
    <3>4. AtHand \in Seq(Nat)
      BY <1>3
    <3>5. /\ LeftOf(qq, AtHand, e) \in Row(m + 1) /\ LeftOf(qq, AtHand, e)[0] = AtHand
          /\ LeftOf(qq, AtHand, e)[m + 1] = e
          /\ \A i \in 1..m : LeftOf(qq, AtHand, e)[i] = qq[i].items
      BY <3>2, <3>4, RowOf
    <3>6. QED BY <1>2, <3>1, <3>3, <3>5 DEF M
  <2>4. Sorted(L, m, Len(drawn), Len(rd))
    BY DEF With, L
  <2>5. \A i \in 0..m : i < m + 1 => M[i] = L[i]
    <3>1. \A i \in 0..m : i = 0 \/ i \in 1..Len(q) \/ i = m
      BY <1>5
    <3>2. \A i \in 1..Len(q) : i \in 1..m
      BY <1>5
    <3>3. m \in 1..m
      BY <1>5
    <3>4. \A i \in 1..Len(q) : M[i] = L[i]
      BY <1>4, <2>1, <2>3, <3>2
    <3>5. M[m] = L[m] /\ M[0] = L[0]
      BY <1>1, <1>4, <2>1, <2>3, <3>3
    <3>6. QED
      BY <3>1, <3>4, <3>5
  <2>6. m + 1 \in 0..(m + 1) /\ \A i \in 0..m : ~(m + 1 <= i)
    BY <1>5
  <2>. HIDE DEF m
  <2>7. QED BY <1>3, <1>5, <2>1, <2>3, <2>4, <2>5, <2>6, Insert
<1>13. With(rec, rec_frames, recorded)'
  <2>1. Sorted(LeftOf(q', AtHand', rec'), Len(q') + 1, Len(drawn'), Len(rd))
    BY <1>2, <1>4, <1>12 DEF M
  <2>2. <<>> \in Seq(Nat)
    OBVIOUS
  <2>3. QED BY <1>0, <1>1, <1>2, <1>9, <1>10, <1>11, <2>1, <2>2 DEF With
<1>14. QED BY <1>2, <1>6, <1>8, <1>13 DEF Flow, InTurn

\* What counts is what there is: a record that is kept.
LEMMA KeepFlow ==
  ASSUME FlowType, ReadBacksEmpty, InTurn,
         NEW f \in Nat, With(rec', f, recorded'), rec_frames' = f,
         UNCHANGED <<q, q_frames, renderer>>
  PROVE  Flow'
<1>1. /\ q' = q /\ q_frames' = q_frames /\ drawing' = drawing /\ drawn' = drawn
      /\ AtHand' = AtHand /\ AtHandFrames' = AtHandFrames
  BY DEF renderer, AtHand, AtHandFrames
<1>2. FlowType'
  BY <1>1 DEF FlowType, With
<1>3. With(rec, rec_frames, recorded)'
  BY <1>1 DEF With
<1>4. QED BY <1>1, <1>2, <1>3 DEF Flow, ReadBacksEmpty, InTurn

\* A command more in the record.
LEMMA RecordMore ==
  ASSUME Flow, NEW k \in Kind
  PROVE  LET f == rec_frames + (IF k = "frame" THEN 1 ELSE 0)
         IN  f \in Nat /\ With(Append(rec, rec_total + 1), f, Append(recorded, k))
<1>. DEFINE f == rec_frames + (IF k = "frame" THEN 1 ELSE 0)
            z == Len(recorded)
            r == Append(rec, z + 1)
            rd == Append(recorded, k)
            m == Len(q) + 1
            L == LeftOf(q, AtHand, rec)
            M == LeftOf(q, AtHand, r)
<1>1. FlowType /\ With(rec, rec_frames, recorded) /\ Len(drawn) \in Nat
  BY DEF Flow, FlowType
<1>2. /\ recorded \in Seq(Kind) /\ z \in Nat /\ rd \in Seq(Kind) /\ Len(rd) = z + 1
      /\ rec \in Seq(Nat) /\ r \in Seq(Nat) /\ rec_frames \in Nat
      /\ q \in Seq(Chunks) /\ AtHand \in Seq(Nat)
  BY <1>1, AtHandType DEF FlowType
<1>3. Within(r) = Within(rec) \cup {z + 1}
  BY <1>2, WithinAppend
<1>4. /\ Len(q) \in Nat /\ m \in Nat
      /\ Within(rec) \in SUBSET (1..z) /\ InQueue(q) \in SUBSET (1..z)
      /\ \A i \in DOMAIN q : Within(q[i].items) \in SUBSET (1..z)
  BY <1>1, Parts
<1>5. Count(Within(r), rd) = f
  BY <1>1, <1>2, <1>3, <1>4, CountMore DEF With
<1>6. \A i \in DOMAIN q : q[i].frames = Count(Within(q[i].items), rd)
  BY <1>1, <1>2, <1>4, CountMore DEF With
<1>7. q_frames = Count(InQueue(q), rd) + AtHandFrames
  BY <1>1, <1>2, <1>4, CountMore DEF With
<1>8. Sorted(M, m, Len(drawn), z + 1)
  <2>. HIDE DEF L, M
  <2>1. /\ L \in Row(m) /\ L[0] = AtHand /\ L[m] = rec /\ \A i \in 1..Len(q) : L[i] = q[i].items
        /\ M \in Row(m) /\ M[0] = AtHand /\ M[m] = r /\ \A i \in 1..Len(q) : M[i] = q[i].items
    <3>. HIDE DEF r
    <3>1. /\ L \in Row(m) /\ L[0] = AtHand /\ L[m] = rec /\ \A i \in 1..Len(q) : L[i] = q[i].items
      BY <1>2, RowOf DEF L
    <3>2. /\ M \in Row(m) /\ M[0] = AtHand /\ M[m] = r /\ \A i \in 1..Len(q) : M[i] = q[i].items
      BY <1>2, RowOf DEF M
    <3>3. QED BY <3>1, <3>2
  <2>2. Sorted(L, m, Len(drawn), z)
    BY <1>1 DEF With, L
  <2>3. \A i \in 0..m : i = 0 \/ i \in 1..Len(q) \/ i = m
    BY <1>4
  <2>4. \A i \in 0..m : i # m => M[i] = L[i]
    BY <2>1, <2>3
  <2>. HIDE DEF m, z
  <2>5. M[m] = Append(L[m], z + 1)
    BY <2>1
  <2>6. QED BY <1>1, <1>2, <1>4, <2>1, <2>2, <2>4, <2>5, Grow
<1>9. f \in Nat
  BY <1>2
<1>10. QED BY <1>2, <1>5, <1>6, <1>7, <1>8, <1>9 DEF With, rec_total, M

LEMMA HandFlow ==
  ASSUME Flow, NEW t, Hand(t)
  PROVE  Flow'
<1>1. CASE rec = <<>>
  BY <1>1 DEF Hand, Flow, FlowType, ReadBacksEmpty, InTurn, With, AtHand, AtHandFrames, renderer
<1>2. CASE rec # <<>>
  <2>1. /\ FlowType /\ ReadBacksEmpty /\ InTurn /\ rec_frames \in Nat
        /\ With(rec, rec_frames, recorded)
    BY DEF Flow, FlowType
  <2>2. Submit(rec, rec_frames) /\ UNCHANGED renderer /\ recorded' = recorded
    BY <1>2 DEF Hand
  <2>3. QED BY <2>1, <2>2, SubmitFlow
<1>. QED BY <1>1, <1>2

LEMMA BurstFlow ==
  ASSUME Flow, NEW k \in Kind, NEW big \in BOOLEAN, Burst(k, big), UNCHANGED renderer
  PROVE  Flow'
<1>. DEFINE r == Append(rec, rec_total + 1)
            f == rec_frames + (IF k = "frame" THEN 1 ELSE 0)
            rd == Append(recorded, k)
<1>1. FlowType /\ ReadBacksEmpty /\ InTurn /\ f \in Nat /\ With(r, f, rd) /\ recorded' = rd
  BY RecordMore DEF Flow, Burst
<1>2. \/ Submit(r, f)
      \/ rec' = r /\ rec_frames' = f /\ UNCHANGED <<q, q_frames>>
  BY DEF Burst
<1>. HIDE DEF r, f, rd
<1>3. CASE Submit(r, f)
  BY <1>1, <1>3, SubmitFlow
<1>4. CASE rec' = r /\ rec_frames' = f /\ UNCHANGED <<q, q_frames>>
  BY <1>1, <1>4, KeepFlow
<1>5. QED BY <1>2, <1>3, <1>4

\* A request to read back joins the queue: it holds no command.
LEMMA AskFlow ==
  ASSUME Flow, NEW t, NEW c \in {"efb", "copy"}, Ask(t, c),
         UNCHANGED <<gx, renderer, q_frames>>
  PROVE  Flow'
<1>. DEFINE m == Len(q) + 1
            b == Chunk(<<>>, 0, c)
<1>1. PICK e \in Seq(Nat) : e = <<>>
  <2>1. <<>> \in Seq(Nat)
    OBVIOUS
  <2>2. QED BY <2>1, Zenon
<1>2. b \in Chunks /\ b.items = e /\ b.frames = 0 /\ b.read = c
  BY <1>1 DEF Chunk, Chunks
<1>3. /\ q' = Append(q, b) /\ q_frames' = q_frames
      /\ recorded' = recorded /\ rec' = rec /\ rec_frames' = rec_frames
      /\ drawing' = drawing /\ drawn' = drawn /\ AtHand' = AtHand /\ AtHandFrames' = AtHandFrames
  BY DEF Ask, gx, renderer, AtHand, AtHandFrames
<1>4. /\ FlowType /\ ReadBacksEmpty /\ InTurn /\ With(rec, rec_frames, recorded)
      /\ q \in Seq(Chunks) /\ rec \in Seq(Nat) /\ AtHand \in Seq(Nat)
      /\ Len(drawn) \in Nat /\ Len(recorded) \in Nat
  BY AtHandType DEF Flow, FlowType
<1>. HIDE DEF b
<1>5. PICK qq \in Seq(Chunks) :
        /\ qq = q' /\ Len(qq) = m /\ DOMAIN qq = 1..m
        /\ \A i \in 1..Len(q) : qq[i] = q[i]
        /\ qq[m] = b
        /\ InQueue(qq) = InQueue(q) \cup Within(e)
  <2>1. /\ Append(q, b) \in Seq(Chunks) /\ Len(Append(q, b)) = m /\ DOMAIN Append(q, b) = 1..m
        /\ \A i \in 1..Len(q) : Append(q, b)[i] = q[i]
        /\ Append(q, b)[m] = b
        /\ InQueue(Append(q, b)) = InQueue(q) \cup Within(e)
    BY <1>2, <1>4, QueueAppend
  <2>. HIDE DEF m
  <2>2. QED BY <1>3, <2>1, Zenon
<1>6. Len(q) \in Nat /\ m \in Nat /\ DOMAIN q = 1..Len(q) /\ m \in 1..m
  BY <1>4
<1>7. /\ \A i \in 1..m : i \in 1..Len(q) \/ i = m
      /\ \A i \in 0..m : i = 0 \/ i \in 1..Len(q) \/ i = m
      /\ \A i \in 1..Len(q) : i \in 1..m
  BY <1>6
<1>8. InQueue(qq) = InQueue(q)
  BY <1>1, <1>5, WithinEmpty
<1>9. \A i \in DOMAIN qq : qq[i].read # "" => qq[i].items = <<>>
  BY <1>1, <1>2, <1>4, <1>5, <1>6, <1>7 DEF ReadBacksEmpty
<1>10. \A i \in DOMAIN qq : qq[i].frames = Count(Within(qq[i].items), recorded)
  <2>1. 0 = Count(Within(e), recorded)
    BY <1>1, WithinEmpty, CountEmpty
  <2>2. \A i \in 1..Len(q) : q[i].frames = Count(Within(q[i].items), recorded)
    BY <1>4, <1>6 DEF With
  <2>3. QED BY <1>2, <1>5, <1>7, <2>1, <2>2
<1>11. Sorted(LeftOf(qq, AtHand, rec), m + 1, Len(drawn), Len(recorded))
  <2>. DEFINE L == LeftOf(q, AtHand, rec)
              M == LeftOf(qq, AtHand, rec)
  <2>. HIDE DEF L, M
  <2>1. /\ L \in Row(m) /\ L[0] = AtHand /\ L[m] = rec /\ \A i \in 1..Len(q) : L[i] = q[i].items
    BY <1>4, RowOf DEF L
  <2>2. /\ M \in Row(Len(qq) + 1) /\ M[0] = AtHand /\ M[Len(qq) + 1] = rec
        /\ \A i \in 1..Len(qq) : M[i] = qq[i].items
    BY <1>4, RowOf DEF M
  <2>3. Sorted(L, m, Len(drawn), Len(recorded))
    BY <1>4 DEF L, With
  <2>. HIDE DEF m
  <2>4. M \in Row(m + 1) /\ M[m] = <<>> /\ M[m + 1] = L[m] /\ M[0] = L[0]
    BY <1>1, <1>2, <1>5, <1>6, <2>1, <2>2
  <2>5. \A i \in 1..Len(q) : M[i] = L[i]
    BY <1>5, <1>7, <2>1, <2>2
  <2>6. \A i \in 0..m : i < m => M[i] = L[i]
    BY <1>6, <1>7, <2>4, <2>5
  <2>7. \A i \in 0..m : m <= i => M[i + 1] = L[i]
    <3>1. \A i \in 0..m : m <= i => i = m
      BY <1>6
    <3>2. QED BY <2>4, <3>1
  <2>8. m \in 0..(m + 1)
    BY <1>6
  <2>9. Sorted(M, m + 1, Len(drawn), Len(recorded))
    BY <1>4, <1>6, <2>1, <2>3, <2>4, <2>6, <2>7, <2>8, Insert
  <2>10. QED BY <2>9 DEF M
<1>12. FlowType'
  BY <1>3, <1>4, <1>5 DEF FlowType
<1>13. ReadBacksEmpty' /\ InTurn'
  BY <1>3, <1>4, <1>5, <1>9 DEF ReadBacksEmpty, InTurn
<1>14. With(rec, rec_frames, recorded)'
  BY <1>3, <1>4, <1>5, <1>8, <1>10, <1>11 DEF With
<1>15. QED BY <1>12, <1>13, <1>14 DEF Flow

\* The queue's first chunk goes to where nothing is at hand.
LEMMA TakeFlow ==
  ASSUME Flow, q # <<>>, AtHand = <<>>, AtHandFrames = 0,
         q' = Tail(q), drawing' \in Chunks \cup {Null},
         AtHand' = Head(q).items, AtHandFrames' = Head(q).frames,
         UNCHANGED <<recorded, rec, rec_frames, q_frames, drawn>>
  PROVE  Flow'
<1>. DEFINE z == Len(q)
            h == Head(q)
<1>1. /\ FlowType /\ ReadBacksEmpty /\ InTurn /\ With(rec, rec_frames, recorded)
      /\ q \in Seq(Chunks) /\ rec \in Seq(Nat) /\ AtHand \in Seq(Nat)
      /\ Len(drawn) \in Nat /\ Len(recorded) \in Nat
  BY AtHandType DEF Flow, FlowType
<1>. HIDE DEF h
<1>2. PICK qq \in Seq(Chunks) :
        /\ qq = q' /\ z \in Nat \ {0} /\ Len(qq) = z - 1
        /\ DOMAIN qq = 1..(z - 1) /\ DOMAIN q = 1..z
        /\ \A i \in 1..(z - 1) : qq[i] = q[i + 1]
        /\ h = q[1] /\ h \in Chunks
        /\ InQueue(q) = Within(h.items) \cup InQueue(qq)
  BY <1>1, QueueTail DEF h
<1>3. h.items \in Seq(Nat) /\ h.frames \in Nat
  BY <1>2 DEF Chunks
<1>4. /\ Within(h.items) \in SUBSET (1..Len(recorded))
      /\ InQueue(qq) \in SUBSET (1..Len(recorded))
      /\ Within(h.items) \cap InQueue(qq) = {}
      /\ h.frames = Count(Within(h.items), recorded)
  <2>1. /\ InQueue(q) \in SUBSET (1..Len(recorded))
        /\ \A i, j \in DOMAIN q : i # j => Within(q[i].items) \cap Within(q[j].items) = {}
    BY <1>1, Parts
  <2>2. 1 \in DOMAIN q /\ \A i \in 1..(z - 1) : i + 1 \in DOMAIN q /\ i + 1 # 1
    BY <1>2
  <2>3. \A i \in DOMAIN qq : Within(h.items) \cap Within(qq[i].items) = {}
    <3>1. \A i \in 1..(z - 1) : Within(q[1].items) \cap Within(q[i + 1].items) = {}
      BY <2>1, <2>2
    <3>2. QED BY <1>2, <3>1
  <2>4. Within(h.items) \cap InQueue(qq) = {}
    BY <2>3 DEF InQueue
  <2>5. h.frames = Count(Within(h.items), recorded)
    BY <1>1, <1>2, <2>2 DEF With
  <2>6. QED BY <1>2, <2>1, <2>4, <2>5
<1>5. q_frames = Count(InQueue(qq), recorded) + h.frames
  <2>1. Count(Within(h.items) \cup InQueue(qq), recorded)
          = Count(Within(h.items), recorded) + Count(InQueue(qq), recorded)
    BY <1>1, <1>4, CountUnion
  <2>2. Count(InQueue(qq), recorded) \in Nat
    BY <1>1, <1>4, CountOf
  <2>3. q_frames = Count(InQueue(q), recorded) + 0
    BY <1>1 DEF With
  <2>4. QED BY <1>2, <1>3, <1>4, <2>1, <2>2, <2>3
<1>6. \A i \in 1..(z - 1) : i + 1 \in DOMAIN q
  BY <1>2
<1>7. \A i \in DOMAIN qq : qq[i].frames = Count(Within(qq[i].items), recorded)
  BY <1>1, <1>2, <1>6 DEF With
<1>8. \A i \in DOMAIN qq : qq[i].read # "" => qq[i].items = <<>>
  <2>1. \A i \in 1..(z - 1) : q[i + 1].read # "" => q[i + 1].items = <<>>
    BY <1>1, <1>6 DEF ReadBacksEmpty
  <2>2. \A i \in 1..(z - 1) : qq[i] = q[i + 1]
    BY <1>2
  <2>3. DOMAIN qq = 1..(z - 1)
    BY <1>2
  <2>. HIDE DEF z
  <2>4. QED BY <2>1, <2>2, <2>3
<1>9. Sorted(LeftOf(qq, h.items, rec), z, Len(drawn), Len(recorded))
  <2>. DEFINE L == LeftOf(q, AtHand, rec)
              M == LeftOf(qq, h.items, rec)
  <2>. HIDE DEF L, M
  <2>1. /\ L \in Row(z + 1) /\ L[0] = AtHand /\ L[z + 1] = rec /\ \A i \in 1..z : L[i] = q[i].items
    <3>1. \A a \in Seq(Nat) :
             /\ LeftOf(q, a, rec) \in Row(Len(q) + 1)
             /\ LeftOf(q, a, rec)[0] = a /\ LeftOf(q, a, rec)[Len(q) + 1] = rec
             /\ \A i \in 1..Len(q) : LeftOf(q, a, rec)[i] = q[i].items
      BY <1>1, RowOf
    <3>2. QED BY <1>1, <3>1, Zenon DEF L
  <2>2. /\ M \in Row(Len(qq) + 1) /\ M[0] = h.items /\ M[Len(qq) + 1] = rec
        /\ \A i \in 1..Len(qq) : M[i] = qq[i].items
    BY <1>1, <1>3, RowOf DEF M
  <2>3. Sorted(L, z + 1, Len(drawn), Len(recorded))
    BY <1>1 DEF L, With
  <2>. HIDE DEF z
  <2>4. Len(qq) + 1 = z /\ z \in Nat /\ 1 \in 1..z
    BY <1>2
  <2>5. M \in Row(z) /\ M[0] = L[1] /\ M[z] = L[z + 1]
    BY <1>2, <2>1, <2>2, <2>4
  <2>6. \A i \in 1..(z - 1) : M[i] = L[i + 1]
    BY <1>2, <1>6, <2>1, <2>2
  <2>7. \A i \in 0..z : i = 0 \/ i \in 1..(z - 1) \/ i = z
    BY <2>4
  <2>8. \A i \in 0..z : M[i] = L[i + 1]
    <3>1. 0 + 1 = 1
      OBVIOUS
    <3>2. QED BY <2>5, <2>6, <2>7, <3>1
  <2>9. Sorted(M, z, Len(drawn), Len(recorded))
    BY <1>1, <2>1, <2>3, <2>4, <2>5, <2>8, Leave
  <2>10. QED BY <2>9 DEF M
<1>10. FlowType'
  BY <1>1, <1>2 DEF FlowType
<1>11. ReadBacksEmpty' /\ InTurn'
  BY <1>1, <1>2, <1>8 DEF ReadBacksEmpty, InTurn
<1>12. With(rec, rec_frames, recorded)'
  <2>1. Len(qq) + 1 = z
    BY <1>2
  <2>2. AtHand' = h.items /\ AtHandFrames' = h.frames
    BY DEF h
  <2>3. QED BY <1>1, <1>2, <1>5, <1>7, <1>9, <2>1, <2>2 DEF With
<1>13. QED BY <1>10, <1>11, <1>12 DEF Flow

LEMMA ExecFlow ==
  ASSUME Flow, Exec
  PROVE  Flow'
<1>. DEFINE m == Len(q) + 1
            s == drawing.items
            z == Len(drawn)
<1>1. /\ FlowType /\ ReadBacksEmpty /\ InTurn /\ With(rec, rec_frames, recorded)
      /\ q \in Seq(Chunks) /\ rec \in Seq(Nat) /\ AtHand \in Seq(Nat) /\ drawn \in Seq(Nat)
      /\ z \in Nat /\ Len(recorded) \in Nat /\ m \in Nat
  BY AtHandType DEF Flow, FlowType
<1>2. /\ drawing # Null /\ s # <<>> /\ s = AtHand
      /\ drawn' = Append(drawn, Head(s)) /\ drawing' = [drawing EXCEPT !.items = Tail(s)]
      /\ UNCHANGED <<recorded, rec, rec_frames, q, q_frames>>
  BY DEF Exec, AtHand, gx
<1>3. drawing \in Chunks /\ s \in Seq(Nat)
  BY <1>1, <1>2 DEF FlowType
<1>. HIDE DEF s
<1>4. Head(s) \in Nat /\ Tail(s) \in Seq(Nat)
  BY <1>2, <1>3, WithinTail
<1>5. /\ drawing' \in Chunks /\ drawing'.items = Tail(s) /\ drawing'.frames = drawing.frames
  BY <1>2, <1>3, <1>4 DEF Chunks
<1>6. drawing' # Null
  BY <1>5, RenderQueueAssumption
<1>7. AtHand' = Tail(s) /\ AtHandFrames' = AtHandFrames
  BY <1>2, <1>5, <1>6 DEF AtHand, AtHandFrames
<1>8. Head(s) = z + 1 /\ Sorted(LeftOf(q, Tail(s), rec), m, z + 1, Len(recorded))
  <2>. DEFINE L == LeftOf(q, s, rec)
              M == LeftOf(q, Tail(s), rec)
  <2>. HIDE DEF L, M
  <2>1. /\ L \in Row(m) /\ L[0] = s /\ L[m] = rec /\ \A i \in 1..Len(q) : L[i] = q[i].items
    BY <1>1, <1>3, RowOf DEF L
  <2>2. \A a \in Seq(Nat) :
          /\ LeftOf(q, a, rec) \in Row(m) /\ LeftOf(q, a, rec)[0] = a /\ LeftOf(q, a, rec)[m] = rec
          /\ \A i \in 1..Len(q) : LeftOf(q, a, rec)[i] = q[i].items
    BY <1>1, RowOf
  <2>3. /\ M \in Row(m) /\ M[0] = Tail(s) /\ M[m] = rec /\ \A i \in 1..Len(q) : M[i] = q[i].items
    BY <1>4, <2>2, Zenon DEF M
  <2>4. Sorted(L, m, z, Len(recorded))
    BY <1>1, <1>2 DEF L, With
  <2>5. \A i \in 1..m : i \in 1..Len(q) \/ i = m
    BY <1>1
  <2>. HIDE DEF m, z
  <2>6. \A i \in 1..m : M[i] = L[i]
    BY <2>1, <2>3, <2>5
  <2>7. Head(L[0]) = z + 1 /\ Sorted(M, m, z + 1, Len(recorded))
    BY <1>1, <1>2, <2>1, <2>3, <2>4, <2>6, Draw
  <2>8. QED BY <2>1, <2>7 DEF M
<1>9. /\ drawn' \in Seq(Nat) /\ Len(drawn') = z + 1
      /\ drawn' = [n \in 1..(z + 1) |-> n]
  <2>1. /\ drawn' \in Seq(Nat) /\ Len(drawn') = z + 1 /\ DOMAIN drawn' = 1..(z + 1)
        /\ drawn'[z + 1] = z + 1 /\ \A n \in 1..z : drawn'[n] = drawn[n]
    BY <1>1, <1>2, <1>4, <1>8
  <2>2. \A n \in 1..z : drawn[n] = n
    BY <1>1 DEF InTurn
  <2>3. \A n \in 1..(z + 1) : n \in 1..z \/ n = z + 1
    BY <1>1
  <2>4. drawn' = [n \in DOMAIN drawn' |-> drawn'[n]]
    BY <2>1
  <2>. HIDE DEF z
  <2>5. QED BY <2>1, <2>2, <2>3, <2>4
<1>10. FlowType'
  BY <1>1, <1>2, <1>5, <1>9 DEF FlowType
<1>11. ReadBacksEmpty' /\ InTurn'
  BY <1>1, <1>2, <1>9 DEF ReadBacksEmpty, InTurn
<1>12. With(rec, rec_frames, recorded)'
  BY <1>1, <1>2, <1>7, <1>8, <1>9 DEF With
<1>13. QED BY <1>10, <1>11, <1>12 DEF Flow

LEMMA DoneFlow ==
  ASSUME Flow, ChunkDone
  PROVE  Flow'
<1>1. /\ FlowType /\ ReadBacksEmpty /\ InTurn /\ With(rec, rec_frames, recorded)
      /\ q_frames \in Nat
  BY DEF Flow, FlowType
<1>2. /\ drawing # Null /\ drawing.items = <<>> /\ AtHand = <<>> /\ AtHandFrames = drawing.frames
      /\ q_frames' = q_frames - drawing.frames /\ drawing' = Null
      /\ AtHand' = <<>> /\ AtHandFrames' = 0
      /\ UNCHANGED <<recorded, rec, rec_frames, q, drawn>>
  BY DEF ChunkDone, AtHand, AtHandFrames, gx
<1>3. drawing.frames \in Nat
  BY <1>1, <1>2 DEF FlowType, Chunks
<1>4. Count(InQueue(q), recorded) \in Nat
  <2>1. InQueue(q) \in SUBSET (1..Len(recorded)) /\ Len(recorded) \in Nat
    BY <1>1, Parts
  <2>2. QED BY <2>1, CountOf
<1>5. q_frames = Count(InQueue(q), recorded) + drawing.frames
  BY <1>1, <1>2 DEF With
<1>6. q_frames' = Count(InQueue(q), recorded) + 0 /\ q_frames' \in Nat
  BY <1>2, <1>3, <1>4, <1>5
<1>7. FlowType'
  BY <1>1, <1>2, <1>6 DEF FlowType
<1>8. With(rec, rec_frames, recorded)'
  BY <1>1, <1>2, <1>6 DEF With
<1>9. ReadBacksEmpty' /\ InTurn'
  BY <1>1, <1>2 DEF ReadBacksEmpty, InTurn
<1>10. QED BY <1>7, <1>8, <1>9 DEF Flow

\* What does not touch the record, the queue or the renderer.
LEMMA OtherFlow ==
  ASSUME Flow, UNCHANGED flow
  PROVE  Flow'
<1>1. UNCHANGED <<AtHand, AtHandFrames>>
  BY DEF flow, AtHand, AtHandFrames
<1>2. FlowType' /\ ReadBacksEmpty' /\ InTurn'
  BY DEF Flow, flow, FlowType, ReadBacksEmpty, InTurn
<1>3. With(rec, rec_frames, recorded)'
  BY <1>1 DEF Flow, flow, With
<1>4. QED BY <1>2, <1>3 DEF Flow

LEMMA FlowStep == Flow /\ [Next]_vars => Flow'
<1>. SUFFICES ASSUME Flow, [Next]_vars PROVE Flow'
  OBVIOUS
<1>1. ASSUME NEW k \in Kind, NEW big \in BOOLEAN, Record(k, big) PROVE Flow'
  BY <1>1, BurstFlow DEF Record
<1>2. ASSUME NEW t \in Thread, Hand(t) PROVE Flow'
  BY <1>2, HandFlow
<1>3. ASSUME NEW t \in Thread, Reads(t) PROVE Flow'
  <2>1. UNCHANGED flow
    BY <1>3 DEF Reads, Peek, Locked, Copy, flow, gx, renderer
  <2>2. QED BY <2>1, OtherFlow
<1>4. ASSUME NEW t \in Thread, ReadGoesOn(t) PROVE Flow'
  <2>1. CASE AskPeek(t)
    <3>1. Ask(t, "efb") /\ UNCHANGED <<gx, renderer, q_frames>>
      BY <2>1 DEF AskPeek, read
    <3>2. QED BY <3>1, AskFlow
  <2>2. CASE AskCopy(t)
    <3>1. Ask(t, "copy") /\ UNCHANGED <<gx, renderer, q_frames>>
      BY <2>2 DEF AskCopy
    <3>2. QED BY <3>1, AskFlow
  <2>3. CASE PeekReturns(t) \/ CopyReturns(t)
    <3>1. UNCHANGED flow
      BY <2>3 DEF PeekReturns, CopyReturns, flow, gx, renderer
    <3>2. QED BY <3>1, OtherFlow
  <2>. QED BY <1>4, <2>1, <2>2, <2>3 DEF ReadGoesOn
<1>5. ASSUME NEW t \in Thread, Polls(t) \/ HandlerEnds(t) \/ Yield(t) PROVE Flow'
  <2>1. UNCHANGED flow
    BY <1>5 DEF Polls, Poll, Deliver, PollEnds, HandlerEnds, Yield, flow, gx, renderer
  <2>2. QED BY <2>1, OtherFlow
<1>6. ASSUME Disable \/ Enable \/ Retrace \/ UNCHANGED vars PROVE Flow'
  <2>1. UNCHANGED flow
    BY <1>6 DEF Disable, Enable, Retrace, vars, flow, gx, renderer
  <2>2. QED BY <2>1, OtherFlow
<1>7. ASSUME TakeRecord PROVE Flow'
  <2>1. /\ q # <<>> /\ AtHand = <<>> /\ AtHandFrames = 0 /\ q' = Tail(q) /\ drawing' = Head(q)
        /\ UNCHANGED <<recorded, rec, rec_frames, q_frames, drawn>>
    BY <1>7 DEF TakeRecord, AtHand, AtHandFrames, gx
  <2>2. Head(q) \in Chunks
    BY <2>1, QueueTail DEF Flow, FlowType
  <2>3. AtHand' = Head(q).items /\ AtHandFrames' = Head(q).frames
    BY <2>1, <2>2, RenderQueueAssumption DEF AtHand, AtHandFrames
  <2>4. QED BY <2>1, <2>2, <2>3, TakeFlow
<1>8. ASSUME TakeReadBack PROVE Flow'
  <2>1. /\ q # <<>> /\ AtHand = <<>> /\ AtHandFrames = 0 /\ q' = Tail(q) /\ drawing' = Null
        /\ AtHand' = <<>> /\ AtHandFrames' = 0 /\ Head(q).read # ""
        /\ UNCHANGED <<recorded, rec, rec_frames, q_frames, drawn>>
    BY <1>8 DEF TakeReadBack, AtHand, AtHandFrames, gx, renderer
  <2>2. Head(q) = q[1] /\ 1 \in DOMAIN q
    <3>1. q \in Seq(Chunks)
      BY DEF Flow, FlowType
    <3>2. Len(q) \in Nat \ {0} /\ DOMAIN q = 1..Len(q) /\ Head(q) = q[1]
      BY <2>1, <3>1, QueueTail
    <3>3. QED BY <3>2
  <2>3. Head(q).items = <<>>
    BY <2>1, <2>2 DEF Flow, ReadBacksEmpty
  <2>4. Head(q).frames = Count(Within(Head(q).items), recorded)
    BY <2>2 DEF Flow, With
  <2>5. Head(q).frames = 0
    BY <2>3, <2>4, WithinEmpty, CountEmpty
  <2>6. QED BY <2>1, <2>3, <2>5, TakeFlow
<1>9. ASSUME Exec \/ ChunkDone PROVE Flow'
  BY <1>9, ExecFlow, DoneFlow
<1>10. QED
  BY <1>1, <1>2, <1>3, <1>4, <1>5, <1>6, <1>7, <1>8, <1>9 DEF Next, Guest, Renderer

-----------------------------------------------------------------------------
(* The calls of the threads.                                               *)

LEMMA BelowFacts ==
  ASSUME NEW S, NEW s \in Seq(S), s # <<>>
  PROVE  /\ Below(s) \in Seq(S) /\ Len(s) \in Nat \ {0} /\ Len(Below(s)) = Len(s) - 1
         /\ DOMAIN Below(s) = 1..(Len(s) - 1) /\ DOMAIN s = 1..Len(s)
         /\ \A i \in 1..(Len(s) - 1) : Below(s)[i] = s[i]
BY DEF Below

LEMMA PushFacts ==
  ASSUME NEW S, NEW s \in Seq(S), NEW c \in S
  PROVE  /\ Append(s, c) \in Seq(S) /\ Append(s, c) # <<>> /\ Len(s) \in Nat
         /\ Len(Append(s, c)) = Len(s) + 1
         /\ DOMAIN Append(s, c) = 1..(Len(s) + 1) /\ DOMAIN s = 1..Len(s)
         /\ \A i \in 1..Len(s) : Append(s, c)[i] = s[i]
         /\ Append(s, c)[Len(s) + 1] = c
OBVIOUS

\* Two calls, one inside the other.
LEMMA PushTwo ==
  ASSUME NEW S, NEW s \in Seq(S), NEW c \in S, NEW d \in S
  PROVE  s \o <<c>> = Append(s, c) /\ s \o <<c, d>> = Append(Append(s, c), d)
<1>1. s \o <<c>> = Append(s, c)
  OBVIOUS
<1>2. s \o <<c, d>> = Append(Append(s, c), d)
  OBVIOUS
<1>. QED BY <1>1, <1>2

LEMMA TopFacts ==
  ASSUME NEW s \in Seq(Call)
  PROVE  /\ Top(s) = "game" <=> s = <<>>
         /\ Top(s) # "game" => s # <<>> /\ Len(s) \in Nat \ {0} /\ Top(s) = s[Len(s)]
BY DEF Top, Call

-----------------------------------------------------------------------------
(* Types.                                                                  *)

CallType ==
  /\ submit_pending \in BOOLEAN
  /\ at \in 0..Unread /\ mx \in Thread \cup {Null}
  /\ rb_ready \in BOOLEAN /\ rb_rgba \in Thread \cup {Null}
  /\ argb \in Nat /\ rgba \in [Thread -> Nat \cup {Null}] /\ since \in [Thread -> Nat]
  /\ cpu \in Thread /\ ee \in {"on", "off", "irq"}
  /\ stack \in [Thread -> Seq(Call)]
  /\ pending \in BOOLEAN /\ pe \in BOOLEAN /\ vi \in BOOLEAN
Bounded == rec_total <= MaxCommands

QueueIInv == Flow /\ CallType /\ Bounded

LEMMA TypeIs == TypeOK <=> FlowType /\ CallType
BY DEF TypeOK, FlowType, CallType

\* A thread's calls stay calls.
LEMMA StackStep ==
  ASSUME CallType, [Next]_vars
  PROVE  stack' \in [Thread -> Seq(Call)]
<1>. USE DEF CallType
<1>0. \A t \in Thread : stack[t] \in Seq(Call)
  OBVIOUS
<1>1. ASSUME NEW t \in Thread, NEW c \in Call
      PROVE  Append(stack[t], c) \in Seq(Call)
  BY <1>0, PushFacts
<1>2. ASSUME NEW t \in Thread, stack[t] # <<>>
      PROVE  Below(stack[t]) \in Seq(Call)
  BY <1>0, <1>2, BelowFacts
<1>3. ASSUME NEW t \in Thread, NEW s \in Seq(Call),
             stack' = [stack EXCEPT ![t] = s]
      PROVE  stack' \in [Thread -> Seq(Call)]
  BY <1>3
<1>4. {"hand", "poll", "lock", "peek", "peeking", "copy", "copying"} \subseteq Call
  BY DEF Call
<1>5. ASSUME NEW s \in Seq(Call), NEW c \in Call
      PROVE  s \o <<c>> \in Seq(Call) /\ s \o <<c, "hand">> \in Seq(Call)
  <2>1. Append(s, c) \in Seq(Call) /\ Append(Append(s, c), "hand") \in Seq(Call)
    BY <1>4, PushFacts
  <2>2. s \o <<c>> = Append(s, c) /\ s \o <<c, "hand">> = Append(Append(s, c), "hand")
    BY <1>4, PushTwo
  <2>3. QED BY <2>1, <2>2
<1>6. ASSUME NEW k \in Kind, NEW big \in BOOLEAN, Record(k, big)
      PROVE  stack' \in [Thread -> Seq(Call)]
  <2>1. stack' = stack \/ stack' = [stack EXCEPT ![cpu] = Append(stack[cpu], "hand")]
    BY <1>6 DEF Record, Burst, Submit, Push
  <2>2. QED BY <2>1, <1>1, <1>3, <1>4
<1>7. ASSUME NEW t \in Thread, Return(t), Top(stack[t]) # "game"
      PROVE  stack' \in [Thread -> Seq(Call)]
  <2>1. stack' = [stack EXCEPT ![t] = Below(stack[t])] /\ stack[t] # <<>>
    BY <1>7, <1>0, TopFacts DEF Return
  <2>2. QED BY <2>1, <1>2, <1>3
<1>8. ASSUME NEW t \in Thread, NEW c \in Call, Become(t, c), Top(stack[t]) # "game"
      PROVE  stack' \in [Thread -> Seq(Call)]
  <2>1. stack' = [stack EXCEPT ![t] = Append(Below(stack[t]), c)] /\ stack[t] # <<>>
    BY <1>8, <1>0, TopFacts DEF Become
  <2>2. Append(Below(stack[t]), c) \in Seq(Call)
    BY <2>1, <1>2, PushFacts
  <2>3. QED BY <2>1, <2>2, <1>3
<1>9. ASSUME NEW t \in Thread, NEW s \in Seq(Call), NEW c \in Call, Read(t, s, c)
      PROVE  stack' \in [Thread -> Seq(Call)]
  <2>1. \/ stack' = [stack EXCEPT ![t] = s \o <<c, "hand">>]
        \/ stack' = [stack EXCEPT ![t] = s \o <<c>>]
    BY <1>9 DEF Read
  <2>2. QED BY <2>1, <1>3, <1>5
<1>10. ASSUME NEW t \in Thread, Hand(t) \/ PeekReturns(t) \/ CopyReturns(t) \/ PollEnds(t)
       PROVE  stack' \in [Thread -> Seq(Call)]
  BY <1>7, <1>10 DEF Hand, PeekReturns, CopyReturns, PollEnds
<1>11. ASSUME NEW t \in Thread, Peek(t)
       PROVE  stack' \in [Thread -> Seq(Call)]
  BY <1>1, <1>3, <1>4, <1>11 DEF Peek, Push
<1>12. ASSUME NEW t \in Thread, Locked(t)
       PROVE  stack' \in [Thread -> Seq(Call)]
  <2>1. stack[t] # <<>> /\ Top(stack[t]) # "game"
    BY <1>0, <1>12, TopFacts DEF Locked
  <2>2. Read(t, Below(stack[t]), "peek") \/ Return(t)
    BY <1>12 DEF Locked
  <2>3. QED BY <1>2, <1>4, <1>7, <1>9, <2>1, <2>2
<1>13. ASSUME NEW t \in Thread, Copy(t)
       PROVE  stack' \in [Thread -> Seq(Call)]
  BY <1>0, <1>4, <1>9, <1>13 DEF Copy
<1>14. ASSUME NEW t \in Thread, AskPeek(t) \/ AskCopy(t)
       PROVE  stack' \in [Thread -> Seq(Call)]
  BY <1>4, <1>8, <1>14 DEF AskPeek, AskCopy
<1>15. ASSUME NEW t \in Thread, Poll(t)
       PROVE  stack' \in [Thread -> Seq(Call)]
  <2>1. \/ stack' = [stack EXCEPT ![t] = stack[t] \o <<"poll", "hand">>]
        \/ stack' = [stack EXCEPT ![t] = stack[t] \o <<"poll">>]
    BY <1>15 DEF Poll
  <2>2. QED BY <2>1, <1>0, <1>3, <1>4, <1>5
<1>16. ASSUME \/ \E t \in Thread : Deliver(t) \/ HandlerEnds(t) \/ Yield(t)
              \/ Disable \/ Enable \/ Retrace \/ Renderer \/ UNCHANGED vars
       PROVE  stack' \in [Thread -> Seq(Call)]
  <2>1. stack' = stack
    BY <1>16 DEF Deliver, HandlerEnds, Yield, Disable, Enable, Retrace, Renderer,
                 TakeRecord, TakeReadBack, Exec, ChunkDone, vars
  <2>2. QED BY <2>1
<1>17. QED
  BY <1>6, <1>10, <1>11, <1>12, <1>13, <1>14, <1>15, <1>16
     DEF Next, Guest, Reads, ReadGoesOn, Polls

LEMMA TypeStep == QueueIInv /\ [Next]_vars => CallType' /\ Bounded'
<1>. SUFFICES ASSUME QueueIInv, [Next]_vars
              PROVE  CallType' /\ Bounded'
  OBVIOUS
<1>1. /\ Flow /\ CallType /\ rec_total \in Nat /\ rec_total <= MaxCommands /\ MaxCommands \in Nat
      /\ Len(drawn) \in Nat /\ recorded \in Seq(Kind) /\ rec_total \in 0..Unread
  BY RenderQueueAssumption DEF QueueIInv, Flow, FlowType, Bounded, rec_total, Unread
<1>2. stack' \in [Thread -> Seq(Call)]
  BY <1>1, StackStep
<1>. DEFINE Goal == CallType' /\ Bounded'
<1>3. ASSUME NEW k \in Kind, NEW big \in BOOLEAN, Record(k, big) PROVE Goal
  <2>1. recorded' = Append(recorded, k) /\ Len(recorded') = Len(recorded) + 1
    BY <1>1, <1>3 DEF Record, Burst
  <2>2. Bounded'
    BY <1>1, <1>3, <2>1 DEF Record, Bounded, rec_total
  <2>3. submit_pending' \in BOOLEAN /\ pending' \in BOOLEAN
    BY <1>1, <1>3 DEF Record, Burst, CallType
  <2>4. UNCHANGED <<read, rb_ready, cpu, ee, lines>>
    BY <1>3 DEF Record
  <2>5. CallType'
    BY <1>1, <1>2, <2>3, <2>4 DEF CallType, read, lines
  <2>6. QED BY <2>2, <2>5
<1>4. ASSUME recorded' = recorded, UNCHANGED <<read, rb_ready, submit_pending, cpu, pe, vi>>,
             pending' \in BOOLEAN, ee' \in {"on", "off", "irq"}
      PROVE  Goal
  BY <1>1, <1>2, <1>4 DEF CallType, Bounded, rec_total, read
<1>5. ASSUME NEW t \in Thread, Hand(t) PROVE Goal
  BY <1>1, <1>4, <1>5 DEF Hand, lines, CallType
<1>6. ASSUME NEW t \in Thread, NEW s, NEW c, Read(t, s, c)
      PROVE  since' \in [Thread -> Nat] /\ submit_pending' \in BOOLEAN
  BY <1>1, <1>6 DEF Read, CallType
<1>7. ASSUME NEW t \in Thread, Peek(t) \/ Locked(t) \/ Copy(t) PROVE Goal
  <2>1. since' \in [Thread -> Nat] /\ submit_pending' \in BOOLEAN
    BY <1>1, <1>6, <1>7 DEF Peek, Locked, Copy, CallType, read, gx
  <2>2. mx' \in Thread \cup {Null}
    BY <1>1, <1>7 DEF Peek, Locked, Copy, CallType, read
  <2>3. UNCHANGED <<recorded, at, rb_rgba, argb, rgba, rb_ready, cpu, ee, pending, lines>>
    BY <1>7 DEF Peek, Locked, Copy, gx, read
  <2>4. QED BY <1>1, <1>2, <2>1, <2>2, <2>3 DEF CallType, Bounded, rec_total, lines
<1>8. ASSUME NEW t \in Thread, AskPeek(t) \/ AskCopy(t) PROVE Goal
  <2>1. rb_ready' \in BOOLEAN /\ rb_rgba' \in Thread \cup {Null}
    BY <1>1, <1>8 DEF AskPeek, AskCopy, Ask, CallType, read
  <2>2. UNCHANGED <<gx, at, mx, argb, rgba, since, cpu, ee, pending, lines>>
    BY <1>8 DEF AskPeek, AskCopy, read
  <2>3. QED BY <1>1, <1>2, <2>1, <2>2 DEF CallType, Bounded, rec_total, lines, gx
<1>9. ASSUME NEW t \in Thread, PeekReturns(t) \/ CopyReturns(t) PROVE Goal
  <2>1. at' \in 0..Unread /\ mx' \in Thread \cup {Null}
    BY <1>1, <1>9 DEF PeekReturns, CopyReturns, CallType
  <2>2. rgba' \in [Thread -> Nat \cup {Null}]
    BY <1>1, <1>9 DEF PeekReturns, CopyReturns, CallType
  <2>3. since' \in [Thread -> Nat]
    BY <1>1, <1>9 DEF PeekReturns, CopyReturns, CallType
  <2>4. UNCHANGED <<gx, rb_rgba, argb, rb_ready, cpu, ee, pending, lines>>
    BY <1>9 DEF PeekReturns, CopyReturns
  <2>5. QED BY <1>1, <1>2, <2>1, <2>2, <2>3, <2>4 DEF CallType, Bounded, rec_total, lines, gx
<1>10. ASSUME NEW t \in Thread, Polls(t) \/ HandlerEnds(t) \/ Yield(t) PROVE Goal
  <2>1. /\ submit_pending' \in BOOLEAN /\ pending' \in BOOLEAN /\ pe' \in BOOLEAN /\ vi' \in BOOLEAN
        /\ ee' \in {"on", "off", "irq"} /\ cpu' \in Thread
    BY <1>1, <1>10 DEF Polls, Poll, Deliver, PollEnds, HandlerEnds, Yield, CallType, gx, lines
  <2>2. UNCHANGED <<recorded, read, rb_ready>>
    BY <1>10 DEF Polls, Poll, Deliver, PollEnds, HandlerEnds, Yield, gx
  <2>3. QED BY <1>1, <1>2, <2>1, <2>2 DEF CallType, Bounded, rec_total, read
<1>11. ASSUME Disable \/ Enable \/ Retrace \/ UNCHANGED vars PROVE Goal
  <2>1. /\ pending' \in BOOLEAN /\ pe' \in BOOLEAN /\ vi' \in BOOLEAN
        /\ ee' \in {"on", "off", "irq"}
    BY <1>1, <1>11 DEF Disable, Enable, Retrace, vars, CallType, lines
  <2>2. UNCHANGED <<recorded, submit_pending, read, rb_ready, cpu>>
    BY <1>11 DEF Disable, Enable, Retrace, vars, gx
  <2>3. QED BY <1>1, <1>2, <2>1, <2>2 DEF CallType, Bounded, rec_total, read
<1>12. ASSUME TakeReadBack PROVE Goal
  <2>1. argb' \in Nat /\ rb_ready' \in BOOLEAN
    BY <1>1, <1>12 DEF TakeReadBack, CallType
  <2>2. rgba' \in [Thread -> Nat \cup {Null}]
    BY <1>1, <1>12 DEF TakeReadBack, CallType
  <2>3. UNCHANGED <<gx, at, mx, rb_rgba, since, cpu, ee, pending, lines>>
    BY <1>12 DEF TakeReadBack
  <2>4. QED BY <1>1, <1>2, <2>1, <2>2, <2>3 DEF CallType, Bounded, rec_total, lines, gx
<1>13. ASSUME TakeRecord \/ Exec \/ ChunkDone PROVE Goal
  <2>1. pending' \in BOOLEAN /\ pe' \in BOOLEAN
    BY <1>1, <1>13 DEF TakeRecord, Exec, ChunkDone, CallType, lines
  <2>2. UNCHANGED <<gx, read, rb_ready, cpu, ee, vi>>
    BY <1>13 DEF TakeRecord, Exec, ChunkDone, lines
  <2>3. QED BY <1>1, <1>2, <2>1, <2>2 DEF CallType, Bounded, rec_total, read, gx
<1>14. QED
  BY <1>3, <1>5, <1>7, <1>8, <1>9, <1>10, <1>11, <1>12, <1>13
     DEF Next, Guest, Renderer, Reads, ReadGoesOn

LEMMA FlowInit == Init => QueueIInv
<1>. SUFFICES ASSUME Init PROVE QueueIInv
  OBVIOUS
<1>1. FlowType
  BY DEF Init, FlowType
<1>2. CallType
  <2>1. <<>> \in Seq(Call) /\ Unread \in 0..Unread
    BY RenderQueueAssumption DEF Unread
  <2>2. /\ stack \in [Thread -> Seq(Call)] /\ rgba \in [Thread -> Nat \cup {Null}]
        /\ since \in [Thread -> Nat]
    BY <2>1 DEF Init
  <2>3. QED BY <2>1, <2>2 DEF Init, CallType
<1>3. Bounded
  BY RenderQueueAssumption DEF Init, Bounded, rec_total
<1>5. /\ Within(<<>>) = {} /\ InOrder(<<>>) /\ Len(q) = 0 /\ Len(drawn) = 0 /\ rec_total = 0
      /\ drawn = [n \in 1..0 |-> n] /\ DOMAIN q = {}
  BY WithinEmpty DEF Init, InOrder, rec_total
<1>4. ReadBacksEmpty
  BY <1>5 DEF ReadBacksEmpty
<1>6. FramesCounted
  <2>1. Queued = {}
    BY <1>5 DEF Queued
  <2>2. Frames({}) = 0
    BY CountEmpty DEF Frames, Count
  <2>3. rec_frames = Frames(Within(rec)) /\ q_frames = Frames(Queued) /\ drawing = Null
    BY <1>5, <2>1, <2>2 DEF Init
  <2>4. q_frames = Frames(Queued) + 0
    BY <2>3 DEF Init
  <2>5. QED
    BY <1>5, <2>3, <2>4 DEF FramesCounted
<1>7. DrawnInOrder
  <2>1. DOMAIN Left = 0..1 /\ \A i \in 0..1 : Left[i] = <<>>
    BY <1>5 DEF Init, Left, AtHand
  <2>2. UNION {Within(Left[i]) : i \in DOMAIN Left} = {} /\ (0 + 1)..0 = {}
    BY <1>5, <2>1
  <2>3. QED
    BY <1>5, <2>1, <2>2 DEF DrawnInOrder
<1>8. Flow
  BY <1>1, <1>4, <1>6, <1>7, FlowIs
<1>9. QED BY <1>2, <1>3, <1>8 DEF QueueIInv

\* The inductive invariant: of any number of threads that draw, with any queue
\* and any bound on the frames in it (submit_record, video_submit, video_run).
THEOREM QueueInvariant == Spec => []QueueIInv
<1>1. QueueIInv /\ [Next]_vars => QueueIInv'
  BY FlowStep, TypeStep DEF QueueIInv
<1>2. QED BY <1>1, FlowInit, PTL DEF Spec

\* The counters that the guest waits by count the frames that are really in
\* flight (submit_record's wait, video_submit, the renderer's q_frames).
THEOREM FramesInFlight == Spec => []QueueInv
<1>1. QueueIInv => QueueInv
  BY FlowIs, TypeIs DEF QueueIInv, QueueInv, Flow
<1>2. QED BY <1>1, QueueInvariant, PTL

\* All that is recorded is drawn, once and in order, whichever thread or handler
\* hands the record over, and with interrupts off (submit_record, ppc_poll).
THEOREM DrawnOnceInOrder == Spec => []DrawnInOrder
<1>1. QueueIInv => DrawnInOrder
  BY FlowIs DEF QueueIInv, Flow
<1>2. QED BY <1>1, QueueInvariant, PTL

-----------------------------------------------------------------------------
(* Read-backs.  There is one answer for all of them (rb_ready), so threads *)
(* that peek and threads that read copies are not mixed here: any number   *)
(* of threads peek, or one reads copies.                                   *)

OneKind ==
  \/ Copiers = {}
  \/ Peekers = {} /\ \E t \in Thread : Copiers = {t}

\* The call a thread of the game made; what it may have called inside.
Base(s) == IF s = <<>> THEN "game" ELSE s[1]
Shape(s) ==
  \A i \in DOMAIN s \ {1} :
    /\ s[i] \in {"hand", "poll"}
    /\ s[i] = "poll" => s[i - 1] \in {"hand", "peeking", "copying"}

Shapes ==
  \A t \in Thread :
    /\ Shape(stack[t])
    /\ Base(stack[t]) \in {"lock", "peek", "peeking"} => t \in Peekers
    /\ Base(stack[t]) \in {"copy", "copying"} => t \in Copiers

\* gx_efb_peek's mutex is with the thread that reads back.
Mutex == \A t \in Thread : mx = t <=> Base(stack[t]) \in {"peek", "peeking"}

\* All the commands of s were recorded after t's read-back began.
After(t, s) == \A n \in Within(s) : since[t] < n

\* What a read-back is to show was recorded before it began, and is handed
\* over before it is asked for.
Handed ==
  \A t \in Thread :
    /\ since[t] <= rec_total
    /\ Top(stack[t]) \in {"peek", "copy"} => After(t, rec)

\* A read-back in the queue: the thread that waits for it, whose answer is
\* not there yet, and who is to see what is before it.
Waits(t, i) ==
  /\ Base(stack[t]) = IF q[i].read = "efb" THEN "peeking" ELSE "copying"
  /\ q[i].read = "copy" => rb_rgba = t
  /\ After(t, rec)
  /\ \A j \in DOMAIN q : i <= j => After(t, q[j].items)
Awaited ==
  /\ \A i \in DOMAIN q : q[i].read # "" => ~rb_ready /\ \E t \in Thread : Waits(t, i)
  /\ \A i, j \in DOMAIN q : q[i].read # "" /\ q[j].read # "" => i = j

\* The answer of a read-back shows what it is to show.
Answered ==
  \A t \in Thread :
    /\ Base(stack[t]) = "peeking" /\ rb_ready => argb >= since[t]
    /\ Base(stack[t]) = "copying" /\ rb_ready => rgba[t] # Null /\ rgba[t] >= since[t]

ReadInv == Shapes /\ Mutex /\ Handed /\ Awaited /\ Answered
ReadIInv == QueueIInv /\ ReadInv

LEMMA ReadTypes ==
  ASSUME ReadIInv
  PROVE  /\ recorded \in Seq(Kind) /\ rec \in Seq(Nat) /\ rec_frames \in Nat /\ rec_total \in Nat
         /\ q \in Seq(Chunks) /\ drawn \in Seq(Nat) /\ cpu \in Thread
         /\ stack \in [Thread -> Seq(Call)] /\ since \in [Thread -> Nat]
         /\ rgba \in [Thread -> Nat \cup {Null}] /\ argb \in Nat
         /\ \A t \in Thread : stack[t] \in Seq(Call) /\ Shape(stack[t]) /\ since[t] \in Nat
<1>1. FlowType /\ CallType /\ Shapes
  BY DEF ReadIInv, QueueIInv, Flow, ReadInv
<1>2. recorded \in Seq(Kind) /\ rec \in Seq(Nat) /\ rec_frames \in Nat
      /\ q \in Seq(Chunks) /\ drawn \in Seq(Nat)
  BY <1>1 DEF FlowType
<1>3. rec_total \in Nat
  BY <1>2 DEF rec_total
<1>4. /\ cpu \in Thread /\ stack \in [Thread -> Seq(Call)] /\ since \in [Thread -> Nat]
      /\ rgba \in [Thread -> Nat \cup {Null}] /\ argb \in Nat
  BY <1>1 DEF CallType
<1>5. \A t \in Thread : stack[t] \in Seq(Call) /\ Shape(stack[t]) /\ since[t] \in Nat
  BY <1>1, <1>4 DEF Shapes
<1>6. QED BY <1>2, <1>3, <1>4, <1>5

LEMMA ShapePush ==
  ASSUME NEW s \in Seq(Call), Shape(s), NEW c \in Call,
         \/ s = <<>>
         \/ c = "hand"
         \/ c = "poll" /\ Top(s) \in {"hand", "peeking", "copying"}
  PROVE  /\ Append(s, c) \in Seq(Call) /\ Shape(Append(s, c)) /\ Top(Append(s, c)) = c
         /\ Base(Append(s, c)) = IF s = <<>> THEN c ELSE Base(s)
<1>. DEFINE r == Append(s, c)
            z == Len(s)
<1>1. /\ r \in Seq(Call) /\ r # <<>> /\ z \in Nat /\ Len(r) = z + 1
      /\ DOMAIN r = 1..(z + 1) /\ DOMAIN s = 1..z
      /\ \A i \in 1..z : r[i] = s[i]
      /\ r[z + 1] = c
  BY PushFacts
<1>2. s = <<>> <=> z = 0
  OBVIOUS
<1>3. Top(s) = IF z = 0 THEN "game" ELSE s[z]
  BY <1>2 DEF Top
<1>. HIDE DEF r, z
<1>4. ASSUME NEW i \in DOMAIN r \ {1}
      PROVE  r[i] \in {"hand", "poll"} /\ (r[i] = "poll" => r[i - 1] \in {"hand", "peeking", "copying"})
  <2>1. CASE i = z + 1
    <3>1. z # 0 /\ r[i - 1] = s[z]
      BY <1>1, <1>4, <2>1
    <3>2. c = "hand" \/ (c = "poll" /\ s[z] \in {"hand", "peeking", "copying"})
      BY <1>2, <1>3, <3>1
    <3>3. QED
      BY <1>1, <2>1, <3>1, <3>2
  <2>2. CASE i # z + 1
    <3>1. i \in DOMAIN s \ {1} /\ i - 1 \in 1..z /\ i \in 1..z
      BY <1>1, <1>4, <2>2
    <3>2. r[i] = s[i] /\ r[i - 1] = s[i - 1]
      BY <1>1, <3>1
    <3>3. QED
      BY <3>1, <3>2 DEF Shape
  <2>. QED BY <2>1, <2>2
<1>5. Shape(r)
  BY <1>4 DEF Shape
<1>6. Top(r) = c
  BY <1>1 DEF Top
<1>7. Base(r) = IF s = <<>> THEN c ELSE Base(s)
  BY <1>1, <1>2 DEF Base
<1>8. QED BY <1>1, <1>5, <1>6, <1>7 DEF r

LEMMA ShapePop ==
  ASSUME NEW s \in Seq(Call), Shape(s), s # <<>>
  PROVE  /\ Below(s) \in Seq(Call) /\ Shape(Below(s))
         /\ Top(s) \in {"hand", "poll"} =>
              \/ Base(Below(s)) = Base(s)
              \/ Base(s) \in {"hand", "poll"} /\ Base(Below(s)) = "game"
         /\ Top(s) \notin {"hand", "poll"} => Below(s) = <<>> /\ Base(s) = Top(s)
         /\ Top(s) = "poll" => Top(Below(s)) \in {"game", "hand", "peeking", "copying"}
<1>. DEFINE r == Below(s)
            z == Len(s)
<1>1. /\ r \in Seq(Call) /\ z \in Nat \ {0} /\ Len(r) = z - 1
      /\ DOMAIN r = 1..(z - 1) /\ DOMAIN s = 1..z
      /\ \A i \in 1..(z - 1) : r[i] = s[i]
  BY BelowFacts
<1>2. r = <<>> <=> z = 1
  BY <1>1
<1>3. Top(s) = s[z] /\ Base(s) = s[1]
  BY DEF Top, Base
<1>. HIDE DEF r, z
<1>4. Shape(r)
  <2>1. ASSUME NEW i \in DOMAIN r \ {1}
        PROVE  r[i] \in {"hand", "poll"} /\ (r[i] = "poll" => r[i - 1] \in {"hand", "peeking", "copying"})
    <3>1. i \in 1..(z - 1) /\ i - 1 \in 1..(z - 1) /\ i \in DOMAIN s \ {1}
      BY <1>1, <2>1
    <3>2. r[i] = s[i] /\ r[i - 1] = s[i - 1]
      BY <1>1, <3>1
    <3>3. QED
      BY <3>1, <3>2 DEF Shape
  <2>2. QED BY <2>1 DEF Shape
<1>5. CASE z = 1
  <2>1. r = <<>> /\ Base(r) = "game" /\ Top(r) = "game" /\ Top(s) = Base(s)
    BY <1>2, <1>3, <1>5 DEF Base, Top
  <2>2. QED BY <1>1, <1>4, <2>1 DEF r
<1>6. CASE z # 1
  <2>1. r # <<>> /\ z - 1 \in 1..(z - 1) /\ 1 \in 1..(z - 1) /\ z \in DOMAIN s \ {1}
    BY <1>1, <1>2, <1>6
  <2>2. Base(r) = Base(s) /\ Top(r) = s[z - 1]
    BY <1>1, <1>3, <2>1 DEF Base, Top
  <2>3. s[z] \in {"hand", "poll"} /\ (s[z] = "poll" => s[z - 1] \in {"hand", "peeking", "copying"})
    BY <2>1 DEF Shape
  <2>4. QED BY <1>1, <1>3, <1>4, <2>2, <2>3 DEF r
<1>. QED BY <1>5, <1>6

\* Only one thread reads back at a time.
LEMMA OneReads ==
  ASSUME OneKind, ReadIInv
  PROVE  \A t, u \in Thread :
           /\ Base(stack[t]) \in {"peek", "peeking", "copy", "copying"}
           /\ Base(stack[u]) \in {"peek", "peeking", "copy", "copying"}
           => t = u
<1>. SUFFICES ASSUME NEW t \in Thread, NEW u \in Thread,
                     Base(stack[t]) \in {"peek", "peeking", "copy", "copying"},
                     Base(stack[u]) \in {"peek", "peeking", "copy", "copying"}
              PROVE  t = u
  OBVIOUS
<1>1. CASE Copiers = {}
  <2>1. Base(stack[t]) \in {"peek", "peeking"} /\ Base(stack[u]) \in {"peek", "peeking"}
    BY <1>1 DEF ReadIInv, ReadInv, Shapes
  <2>2. mx = t /\ mx = u
    BY <2>1 DEF ReadIInv, ReadInv, Mutex
  <2>3. QED BY <2>2
<1>2. CASE Peekers = {} /\ \E c \in Thread : Copiers = {c}
  <2>1. t \in Copiers /\ u \in Copiers
    BY <1>2 DEF ReadIInv, ReadInv, Shapes
  <2>2. QED BY <1>2, <2>1
<1>. QED BY <1>1, <1>2 DEF OneKind

-----------------------------------------------------------------------------
(* A step in which no thread begins, asks for or ends a read-back: what is *)
(* recorded goes its way.                                                  *)

Plain == {"game", "hand", "poll"}

\* s holds commands of the record, and the next one perhaps.
FromRecord(s) == \A n \in Within(s) : n \in Within(rec) \/ n = rec_total + 1

SteadyCalls ==
  \A t \in Thread :
    /\ Shape(stack'[t])
    /\ Base(stack'[t]) = Base(stack[t]) \/ (Base(stack'[t]) \in Plain /\ Base(stack[t]) \in Plain)
    /\ Top(stack'[t]) \in {"peek", "copy"} => Top(stack[t]) \in {"peek", "copy"} \/ rec' = <<>>
SteadyReads == UNCHANGED <<mx, rb_ready, rb_rgba, argb, rgba, since>>
SteadyRecord ==
  /\ rec_total <= rec_total' /\ FromRecord(rec')
  /\ DOMAIN q \subseteq DOMAIN q'
  /\ \A j \in DOMAIN q' :
       \/ j \in DOMAIN q /\ q'[j] = q[j]
       \/ q'[j].read = "" /\ FromRecord(q'[j].items)

LEMMA AfterFacts ==
  ASSUME ReadIInv, NEW t \in Thread, NEW s, After(t, rec), FromRecord(s)
  PROVE  After(t, s)
<1>1. since[t] \in Nat /\ rec_total \in Nat /\ since[t] <= rec_total
  BY DEF ReadIInv, QueueIInv, Flow, FlowType, CallType, ReadInv, Handed, rec_total
<1>2. since[t] < rec_total + 1
  BY <1>1
<1>3. QED BY <1>2 DEF After, FromRecord

LEMMA SteadyStep ==
  ASSUME ReadIInv, QueueIInv', SteadyCalls, SteadyReads, SteadyRecord
  PROVE  ReadInv'
<1>1. Shapes /\ Mutex /\ Handed /\ Awaited /\ Answered
  BY DEF ReadIInv, ReadInv
<1>2. \A t \in Thread : \A c \in {"lock", "peek", "peeking", "copy", "copying"} :
        Base(stack'[t]) = c <=> Base(stack[t]) = c
  BY DEF SteadyCalls, Plain
<1>3. \A t \in Thread : \A s : FromRecord(s) /\ After(t, rec) => After(t, s)
  BY AfterFacts
<1>4. Shapes'
  BY <1>1, <1>2 DEF Shapes, SteadyCalls
<1>5. Mutex'
  BY <1>1, <1>2 DEF Mutex, SteadyReads
<1>6. ASSUME NEW t \in Thread
      PROVE  /\ since'[t] <= rec_total'
             /\ Top(stack'[t]) \in {"peek", "copy"} => \A n \in Within(rec') : since'[t] < n
  <2>1. since'[t] = since[t] /\ since[t] \in Nat /\ rec_total \in Nat /\ rec_total' \in Nat
        /\ rec_total <= rec_total' /\ since[t] <= rec_total
    <3>1. rec_total' \in Nat
      BY DEF QueueIInv, Flow, FlowType, rec_total
    <3>2. since[t] \in Nat /\ rec_total \in Nat
      BY DEF ReadIInv, QueueIInv, Flow, FlowType, CallType, rec_total
    <3>3. since'[t] = since[t] /\ rec_total <= rec_total' /\ since[t] <= rec_total
      BY <1>1 DEF SteadyReads, SteadyRecord, Handed
    <3>4. QED BY <3>1, <3>2, <3>3
  <2>2. ASSUME Top(stack'[t]) \in {"peek", "copy"}, rec' # <<>>
        PROVE  After(t, rec')
    BY <1>1, <1>3, <2>2 DEF Handed, SteadyCalls, SteadyRecord
  <2>3. Within(<<>>) = {}
    BY WithinEmpty
  <2>4. QED BY <2>1, <2>2, <2>3 DEF After
<1>7. Handed'
  BY <1>6 DEF Handed, After
<1>8. ASSUME NEW i \in DOMAIN q', q'[i].read # ""
      PROVE  /\ i \in DOMAIN q /\ q'[i] = q[i]
             /\ ~rb_ready'
             /\ \E t \in Thread : Waits(t, i)'
  <2>1. i \in DOMAIN q /\ q'[i] = q[i] /\ q[i].read # ""
    BY <1>8 DEF SteadyRecord
  <2>2. PICK t \in Thread : Waits(t, i)
    BY <1>1, <2>1 DEF Awaited
  <2>3. ~rb_ready' /\ since' = since /\ rb_rgba' = rb_rgba
    BY <1>1, <2>1 DEF Awaited, SteadyReads
  <2>4. Base(stack'[t]) = IF q'[i].read = "efb" THEN "peeking" ELSE "copying"
    BY <1>2, <2>1, <2>2 DEF Waits
  <2>5. After(t, rec) /\ After(t, rec')
    BY <1>3, <2>2 DEF Waits, SteadyRecord
  <2>6. ASSUME NEW j \in DOMAIN q', i <= j
        PROVE  After(t, q'[j].items)
    <3>1. CASE j \in DOMAIN q /\ q'[j] = q[j]
      BY <2>2, <2>6, <3>1 DEF Waits
    <3>2. CASE FromRecord(q'[j].items)
      BY <1>3, <2>5, <3>2
    <3>3. QED BY <3>1, <3>2 DEF SteadyRecord
  <2>7. Waits(t, i)'
    BY <2>1, <2>2, <2>3, <2>4, <2>5, <2>6 DEF Waits, After
  <2>8. QED BY <2>1, <2>3, <2>7
<1>9. Awaited'
  BY <1>1, <1>8 DEF Awaited
<1>10. Answered'
  BY <1>1, <1>2 DEF Answered, SteadyReads
<1>11. QED BY <1>4, <1>5, <1>7, <1>9, <1>10 DEF ReadInv

\* A thread's calls when one is begun, or one ends.
LEMMA OneThread ==
  ASSUME ReadIInv, NEW t \in Thread, NEW s, stack' = [stack EXCEPT ![t] = s],
         Shape(s),
         Base(s) = Base(stack[t]) \/ (Base(s) \in Plain /\ Base(stack[t]) \in Plain),
         Top(s) \in {"peek", "copy"} => Top(stack[t]) \in {"peek", "copy"} \/ rec' = <<>>
  PROVE  SteadyCalls
<1>1. stack \in [Thread -> Seq(Call)] /\ \A u \in Thread : Shape(stack[u])
  BY DEF ReadIInv, QueueIInv, CallType, ReadInv, Shapes
<1>2. stack'[t] = s /\ \A u \in Thread \ {t} : stack'[u] = stack[u]
  BY <1>1
<1>3. QED BY <1>1, <1>2 DEF SteadyCalls

LEMMA SameCalls ==
  ASSUME ReadIInv, stack' = stack
  PROVE  SteadyCalls
BY DEF ReadIInv, ReadInv, Shapes, SteadyCalls

LEMMA SameRecord ==
  ASSUME ReadIInv, UNCHANGED <<recorded, rec, q>>
  PROVE  SteadyRecord
<1>1. rec_total \in Nat
  BY ReadTypes
<1>2. rec_total <= rec_total' /\ q' = q /\ rec' = rec
  BY <1>1 DEF rec_total
<1>3. QED BY <1>2 DEF SteadyRecord, FromRecord

\* The record handed over: its commands go from its end to the queue's.
LEMMA SubmitSteady ==
  ASSUME ReadIInv, NEW r \in Seq(Nat), NEW f \in Nat, FromRecord(r), Submit(r, f),
         Len(recorded) <= Len(recorded')
  PROVE  SteadyRecord
<1>. DEFINE c == Chunk(r, f, "")
<1>1. c \in Chunks /\ c.items = r /\ c.read = ""
  BY DEF Chunk, Chunks
<1>2. q' = Append(q, c) /\ rec' = <<>> /\ q \in Seq(Chunks)
  BY ReadTypes DEF Submit
<1>. HIDE DEF c
<1>3. /\ DOMAIN q' = 1..(Len(q) + 1) /\ DOMAIN q = 1..Len(q) /\ Len(q) \in Nat
      /\ \A i \in 1..Len(q) : q'[i] = q[i]
      /\ q'[Len(q) + 1] = c
  <2>1. /\ DOMAIN Append(q, c) = 1..(Len(q) + 1)
        /\ \A i \in 1..Len(q) : Append(q, c)[i] = q[i]
        /\ Append(q, c)[Len(q) + 1] = c
    BY <1>1, <1>2, QueueAppend
  <2>2. DOMAIN q = 1..Len(q) /\ Len(q) \in Nat
    BY <1>2
  <2>3. q' = Append(q, c)
    BY <1>2
  <2>4. QED BY <2>1, <2>2, <2>3, Zenon
<1>4. \A i \in 1..(Len(q) + 1) : i \in 1..Len(q) \/ i = Len(q) + 1
  BY <1>3
<1>5. 1..Len(q) \subseteq 1..(Len(q) + 1)
  BY <1>3
<1>6. FromRecord(rec')
  BY <1>2, WithinEmpty DEF FromRecord
<1>7. QED BY <1>1, <1>3, <1>4, <1>5, <1>6 DEF SteadyRecord, rec_total

LEMMA RecordReads ==
  ASSUME ReadIInv, QueueIInv', NEW k \in Kind, NEW big \in BOOLEAN, Record(k, big)
  PROVE  ReadInv'
<1>. DEFINE r == Append(rec, rec_total + 1)
            f == rec_frames + (IF k = "frame" THEN 1 ELSE 0)
<1>1. /\ recorded \in Seq(Kind) /\ rec \in Seq(Nat) /\ rec_total \in Nat /\ rec_frames \in Nat
      /\ stack \in [Thread -> Seq(Call)] /\ cpu \in Thread
  BY ReadTypes
<1>2. r \in Seq(Nat) /\ f \in Nat /\ Within(r) = Within(rec) \cup {rec_total + 1}
  BY <1>1, WithinAppend
<1>3. FromRecord(r)
  BY <1>2 DEF FromRecord
<1>4. recorded' = Append(recorded, k) /\ Len(recorded) <= Len(recorded')
  BY <1>1 DEF Record, Burst
<1>5. /\ \/ Submit(r, f) /\ stack' = stack
         \/ /\ rec' = r /\ UNCHANGED q
            /\ \/ stack' = stack
               \/ ee = "on" /\ stack' = [stack EXCEPT ![cpu] = Append(stack[cpu], "hand")]
  BY DEF Record, Burst, Push
<1>. HIDE DEF r, f
<1>6. SteadyRecord
  <2>1. CASE Submit(r, f)
    BY <1>2, <1>3, <1>4, <2>1, SubmitSteady
  <2>2. CASE rec' = r /\ UNCHANGED q
    BY <1>3, <1>4, <2>2 DEF SteadyRecord, rec_total
  <2>. QED BY <1>5, <2>1, <2>2
<1>7. SteadyCalls
  <2>1. CASE stack' = stack
    BY <2>1, SameCalls
  <2>2. CASE ee = "on" /\ stack' = [stack EXCEPT ![cpu] = Append(stack[cpu], "hand")]
    <3>1. stack[cpu] \in Seq(Call) /\ Shape(stack[cpu]) /\ "hand" \in Call
      BY <1>1 DEF ReadIInv, ReadInv, Shapes, Call
    <3>2. stack[cpu] = <<>>
      BY <2>2, <3>1, TopFacts DEF Record
    <3>3. /\ Shape(Append(stack[cpu], "hand")) /\ Top(Append(stack[cpu], "hand")) = "hand"
          /\ Base(Append(stack[cpu], "hand")) = "hand" /\ Base(stack[cpu]) = "game"
      BY <3>1, <3>2, ShapePush DEF Base
    <3>4. QED BY <1>1, <2>2, <3>3, OneThread DEF Plain
  <2>. QED BY <1>5, <2>1, <2>2
<1>8. SteadyReads
  BY DEF Record, SteadyReads, read
<1>9. QED BY <1>6, <1>7, <1>8, SteadyStep

LEMMA HandReads ==
  ASSUME ReadIInv, QueueIInv', NEW t \in Thread, Hand(t)
  PROVE  ReadInv'
<1>1. /\ rec \in Seq(Nat) /\ rec_frames \in Nat /\ rec_total \in Nat
      /\ stack \in [Thread -> Seq(Call)] /\ stack[t] \in Seq(Call) /\ Shape(stack[t])
  BY ReadTypes
<1>2. SteadyRecord /\ rec' = <<>>
  <2>1. CASE rec = <<>>
    BY <2>1, SameRecord DEF Hand
  <2>2. CASE rec # <<>>
    <3>1. Submit(rec, rec_frames) /\ recorded' = recorded /\ FromRecord(rec)
      BY <2>2 DEF Hand, FromRecord
    <3>2. Len(recorded) <= Len(recorded')
      BY <1>1, <3>1 DEF rec_total
    <3>3. QED BY <1>1, <3>1, <3>2, SubmitSteady DEF Submit
  <2>. QED BY <2>1, <2>2
<1>3. SteadyCalls
  <2>1. Top(stack[t]) = "hand" /\ stack' = [stack EXCEPT ![t] = Below(stack[t])]
    BY DEF Hand, Return
  <2>2. stack[t] # <<>>
    BY <1>1, <2>1, TopFacts
  <2>3. /\ Shape(Below(stack[t]))
        /\ \/ Base(Below(stack[t])) = Base(stack[t])
           \/ Base(stack[t]) \in {"hand", "poll"} /\ Base(Below(stack[t])) = "game"
    BY <1>1, <2>1, <2>2, ShapePop
  <2>4. QED BY <1>1, <1>2, <2>1, <2>3, OneThread DEF Plain
<1>4. SteadyReads
  BY DEF Hand, SteadyReads, read
<1>5. QED BY <1>2, <1>3, <1>4, SteadyStep

LEMMA PollReads ==
  ASSUME ReadIInv, QueueIInv', NEW t \in Thread, Polls(t)
  PROVE  ReadInv'
<1>1. /\ rec_total \in Nat
      /\ stack \in [Thread -> Seq(Call)] /\ stack[t] \in Seq(Call) /\ Shape(stack[t])
      /\ "hand" \in Call /\ "poll" \in Call
  BY ReadTypes DEF Call
<1>2. SteadyReads /\ UNCHANGED <<recorded, rec, q>>
  BY DEF Polls, Poll, Deliver, PollEnds, SteadyReads, read, gx
<1>3. SteadyCalls
  <2>1. CASE Poll(t)
    <3>. DEFINE s == Append(stack[t], "poll")
                r == Append(s, "hand")
    <3>1. stack[t] = <<>> \/ Top(stack[t]) \in {"hand", "peeking", "copying"}
      BY <1>1, <2>1, TopFacts DEF Poll
    <3>2. /\ s \in Seq(Call) /\ Shape(s) /\ Top(s) = "poll"
          /\ Base(s) = IF stack[t] = <<>> THEN "poll" ELSE Base(stack[t])
      BY <1>1, <3>1, ShapePush
    <3>3. s # <<>>
      BY <1>1, PushFacts
    <3>. HIDE DEF s
    <3>4. Shape(r) /\ Top(r) = "hand" /\ Base(r) = Base(s)
      BY <1>1, <3>2, <3>3, ShapePush
    <3>5. stack' = [stack EXCEPT ![t] = r] \/ stack' = [stack EXCEPT ![t] = s]
      <4>1. \/ stack' = [stack EXCEPT ![t] = stack[t] \o <<"poll", "hand">>]
            \/ stack' = [stack EXCEPT ![t] = stack[t] \o <<"poll">>]
        BY <2>1 DEF Poll
      <4>2. stack[t] \o <<"poll">> = s /\ stack[t] \o <<"poll", "hand">> = r
        BY <1>1, PushTwo DEF s
      <4>3. QED BY <4>1, <4>2
    <3>6. Base(s) = Base(stack[t]) \/ (Base(s) \in Plain /\ Base(stack[t]) \in Plain)
      BY <3>2 DEF Plain, Base
    <3>. HIDE DEF r
    <3>7. QED BY <3>2, <3>4, <3>5, <3>6, OneThread
  <2>2. CASE Deliver(t)
    BY <2>2, SameCalls DEF Deliver
  <2>3. CASE PollEnds(t)
    <3>1. Top(stack[t]) = "poll" /\ stack' = [stack EXCEPT ![t] = Below(stack[t])]
      BY <2>3 DEF PollEnds, Return
    <3>2. stack[t] # <<>>
      BY <1>1, <3>1, TopFacts
    <3>3. /\ Shape(Below(stack[t]))
          /\ Top(Below(stack[t])) \in {"game", "hand", "peeking", "copying"}
          /\ \/ Base(Below(stack[t])) = Base(stack[t])
             \/ Base(stack[t]) \in {"hand", "poll"} /\ Base(Below(stack[t])) = "game"
      BY <1>1, <3>1, <3>2, ShapePop
    <3>4. QED BY <1>1, <3>1, <3>3, OneThread DEF Plain
  <2>. QED BY <2>1, <2>2, <2>3 DEF Polls
<1>4. QED BY <1>2, <1>3, SameRecord, SteadyStep

\* The renderer draws from the chunk it has; handlers end, threads switch.
LEMMA OtherReads ==
  ASSUME ReadIInv, QueueIInv', stack' = stack, UNCHANGED <<recorded, rec, q>>, SteadyReads
  PROVE  ReadInv'
BY SameCalls, SameRecord, SteadyStep

\* The renderer takes the first chunk: the others move up.
LEMMA TakeReads ==
  ASSUME ReadIInv, QueueIInv', TakeRecord
  PROVE  ReadInv'
<1>1. /\ Shapes /\ Mutex /\ Handed /\ Awaited /\ Answered
      /\ q \in Seq(Chunks) /\ q # <<>> /\ q' = Tail(q)
      /\ UNCHANGED <<recorded, rec, stack, mx, rb_ready, rb_rgba, argb, rgba, since>>
  BY ReadTypes DEF ReadIInv, ReadInv, TakeRecord, gx, read
<1>2. PICK z \in Nat \ {0} :
        /\ z = Len(q) /\ DOMAIN q' = 1..(z - 1) /\ DOMAIN q = 1..z
        /\ \A i \in 1..(z - 1) : q'[i] = q[i + 1]
  BY <1>1, QueueTail
<1>3. \A i \in 1..(z - 1) : i + 1 \in 1..z
  OBVIOUS
<1>4. Shapes' /\ Mutex' /\ Answered'
  BY <1>1 DEF Shapes, Mutex, Answered
<1>5. Handed'
  BY <1>1 DEF Handed, After, rec_total
<1>6. ASSUME NEW i \in DOMAIN q', q'[i].read # ""
      PROVE  ~rb_ready' /\ \E t \in Thread : Waits(t, i)'
  <2>1. i + 1 \in DOMAIN q /\ q'[i] = q[i + 1]
    BY <1>2, <1>3, <1>6
  <2>2. PICK t \in Thread : Waits(t, i + 1)
    BY <1>1, <1>6, <2>1 DEF Awaited
  <2>3. ~rb_ready'
    BY <1>1, <1>6, <2>1 DEF Awaited
  <2>4. ASSUME NEW j \in DOMAIN q', i <= j
        PROVE  After(t, q'[j].items)
    <3>1. j + 1 \in DOMAIN q /\ q'[j] = q[j + 1]
      BY <1>2, <1>3, <2>4
    <3>2. i \in 1..(z - 1) /\ j \in 1..(z - 1)
      BY <1>2, <1>6, <2>4
    <3>3. i + 1 <= j + 1
      BY <2>4, <3>2
    <3>4. QED BY <2>2, <3>1, <3>3 DEF Waits
  <2>5. /\ Base(stack'[t]) = IF q'[i].read = "efb" THEN "peeking" ELSE "copying"
        /\ q'[i].read = "copy" => rb_rgba' = t
        /\ After(t, rec)
    BY <1>1, <2>1, <2>2 DEF Waits
  <2>6. Waits(t, i)'
    BY <1>1, <2>4, <2>5 DEF Waits, After
  <2>7. QED BY <2>3, <2>6
<1>7. ASSUME NEW i \in DOMAIN q', NEW j \in DOMAIN q', q'[i].read # "", q'[j].read # ""
      PROVE  i = j
  <2>1. i + 1 \in DOMAIN q /\ q'[i] = q[i + 1] /\ j + 1 \in DOMAIN q /\ q'[j] = q[j + 1]
    BY <1>2, <1>3, <1>7
  <2>4. i \in 1..(z - 1) /\ j \in 1..(z - 1)
    BY <1>2, <1>7
  <2>2. i + 1 = j + 1
    BY <1>1, <1>7, <2>1 DEF Awaited
  <2>3. QED BY <2>2, <2>4
<1>8. Awaited'
  BY <1>6, <1>7 DEF Awaited
<1>9. QED BY <1>4, <1>5, <1>8 DEF ReadInv

\* All that is left to draw was recorded after a read-back that is first in
\* the queue began: so the rest was drawn.
LEMMA DrawnBefore ==
  ASSUME ReadIInv, drawing = Null, q # <<>>, NEW t \in Thread, Waits(t, 1)
  PROVE  since[t] <= Len(drawn)
<1>1. /\ since[t] \in Nat /\ Len(drawn) \in Nat /\ rec_total \in Nat /\ since[t] <= rec_total
      /\ q \in Seq(Chunks) /\ AtHand = <<>> /\ DrawnInOrder
  <2>1. Flow /\ FlowType /\ Handed
    BY DEF ReadIInv, QueueIInv, Flow, ReadInv
  <2>2. DrawnInOrder
    BY <2>1, FlowIs
  <2>3. Len(drawn) \in Nat
    BY ReadTypes
  <2>4. QED BY <2>1, <2>2, <2>3, ReadTypes DEF Handed, AtHand
<1>2. DOMAIN q = 1..Len(q) /\ Len(q) \in Nat
  BY <1>1
<1>3. SUFFICES ASSUME Len(drawn) < since[t]
               PROVE  FALSE
  BY <1>1
<1>4. since[t] \in (Len(drawn) + 1)..rec_total
  BY <1>1, <1>3
<1>5. DOMAIN Left = 0..(Len(q) + 1)
  BY DEF Left
<1>6. PICK i \in 0..(Len(q) + 1) : since[t] \in Within(Left[i])
  BY <1>1, <1>4, <1>5 DEF DrawnInOrder
<1>7. ~(since[t] < since[t])
  BY <1>1
<1>8. CASE i = 0
  <2>1. Left[i] = AtHand
    BY <1>6, <1>8 DEF Left
  <2>2. QED BY <1>1, <1>6, <2>1, WithinEmpty
<1>9. CASE i = Len(q) + 1
  <2>1. Left[i] = rec
    BY <1>2, <1>9 DEF Left
  <2>2. After(t, rec)
    BY DEF Waits
  <2>3. QED BY <1>6, <1>7, <2>1, <2>2 DEF After
<1>10. CASE i # 0 /\ i # Len(q) + 1
  <2>1. i \in DOMAIN q /\ 1 <= i
    BY <1>2, <1>10
  <2>2. Left[i] = q[i].items
    BY <1>10 DEF Left
  <2>3. After(t, q[i].items)
    BY <2>1 DEF Waits
  <2>4. QED BY <1>6, <1>7, <2>2, <2>3 DEF After
<1>. QED BY <1>8, <1>9, <1>10

LEMMA AnswerReads ==
  ASSUME OneKind, ReadIInv, QueueIInv', TakeReadBack
  PROVE  ReadInv'
<1>1. /\ Shapes /\ Mutex /\ Handed /\ Awaited /\ Answered
      /\ q \in Seq(Chunks) /\ q # <<>> /\ q' = Tail(q) /\ drawing = Null
      /\ Head(q).read # "" /\ rb_ready' = TRUE
      /\ UNCHANGED <<recorded, rec, stack, mx, rb_rgba, since>>
  BY ReadTypes DEF ReadIInv, ReadInv, TakeReadBack, gx
<1>2. PICK z \in Nat \ {0} :
        /\ z = Len(q) /\ DOMAIN q' = 1..(z - 1) /\ DOMAIN q = 1..z
        /\ \A i \in 1..(z - 1) : q'[i] = q[i + 1]
        /\ Head(q) = q[1]
  BY <1>1, QueueTail
<1>3. 1 \in DOMAIN q /\ \A i \in 1..(z - 1) : i + 1 \in DOMAIN q /\ i + 1 # 1
  BY <1>2
<1>4. Shapes' /\ Mutex'
  BY <1>1 DEF Shapes, Mutex
<1>5. Handed'
  BY <1>1 DEF Handed, After, rec_total
<1>6. ASSUME NEW i \in DOMAIN q', q'[i].read # ""
      PROVE  FALSE
  <2>1. q'[i] = q[i + 1] /\ i + 1 \in DOMAIN q /\ i + 1 # 1
    BY <1>2, <1>3, <1>6
  <2>2. q[i + 1].read # "" /\ q[1].read # ""
    BY <1>1, <1>2, <1>6, <2>1
  <2>3. QED BY <1>1, <1>3, <2>1, <2>2 DEF Awaited
<1>7. Awaited'
  BY <1>6 DEF Awaited
<1>8. PICK u \in Thread : Waits(u, 1)
  BY <1>1, <1>2, <1>3 DEF Awaited
<1>9. since[u] <= Len(drawn) /\ Len(drawn) \in Nat
  <2>1. since[u] <= Len(drawn)
    BY <1>1, <1>8, DrawnBefore
  <2>2. drawn \in Seq(Nat)
    BY ReadTypes
  <2>3. QED BY <2>1, <2>2
<1>10. ASSUME NEW t \in Thread, Base(stack[t]) \in {"peeking", "copying"}
       PROVE  t = u
  <2>1. Base(stack[u]) \in {"peeking", "copying"}
    BY <1>8 DEF Waits
  <2>2. QED BY <1>10, <2>1, OneReads
<1>11. ASSUME NEW t \in Thread, Base(stack[t]) = "peeking"
       PROVE  argb' >= since[t]
  <2>1. t = u
    BY <1>10, <1>11
  <2>2. q[1].read = "efb"
    BY <1>8, <1>11, <2>1 DEF Waits
  <2>3. argb' = Len(drawn)
    BY <1>2, <2>2 DEF TakeReadBack
  <2>4. since[t] \in Nat
    BY ReadTypes
  <2>5. QED BY <1>9, <2>1, <2>3, <2>4
<1>12. ASSUME NEW t \in Thread, Base(stack[t]) = "copying"
       PROVE  rgba'[t] # Null /\ rgba'[t] >= since[t]
  <2>1. t = u
    BY <1>10, <1>12
  <2>2. q[1].read # "efb" /\ q[1].read \in {"", "efb", "copy"}
    <3>1. q[1] \in Chunks
      BY <1>1, QueueTail
    <3>2. q[1].read \in {"", "efb", "copy"}
      BY <3>1 DEF Chunks
    <3>3. QED BY <1>8, <1>12, <2>1, <3>2 DEF Waits
  <2>3. q[1].read = "copy" /\ rb_rgba = t
    BY <1>1, <1>2, <1>8, <2>1, <2>2 DEF Waits
  <2>4. rgba' = [rgba EXCEPT ![t] = Len(drawn)]
    BY <1>2, <2>3 DEF TakeReadBack
  <2>5. rgba'[t] = Len(drawn) /\ since[t] \in Nat
    BY <2>4, ReadTypes
  <2>6. Len(drawn) # Null
    BY <1>9, RenderQueueAssumption
  <2>7. QED BY <1>9, <2>1, <2>5, <2>6
<1>13. Answered'
  BY <1>1, <1>11, <1>12 DEF Answered
<1>14. QED BY <1>4, <1>5, <1>7, <1>13 DEF ReadInv


-----------------------------------------------------------------------------
(* A read-back's own steps.                                                *)

\* A thread's call into the runtime changes, and the record does not: what
\* holds of the others holds on.
Turned(t, b) ==
  /\ stack' \in [Thread -> Seq(Call)] /\ Shape(stack'[t]) /\ Base(stack'[t]) = b
  /\ \A u \in Thread \ {t} : stack'[u] = stack[u] /\ since'[u] = since[u] /\ rgba'[u] = rgba[u]

LEMMA TurnedFacts ==
  ASSUME ReadIInv, NEW t \in Thread, NEW b, Turned(t, b),
         b \in {"lock", "peek", "peeking"} => t \in Peekers,
         b \in {"copy", "copying"} => t \in Copiers,
         \/ b \in {"peek", "peeking"} /\ mx' = t /\ mx \in {t, Null}
         \/ b \notin {"peek", "peeking"} /\ mx' # t /\ mx' \in {mx, Null} /\ mx \in {t, mx'}
  PROVE  Shapes' /\ Mutex'
<1>1. Shapes /\ Mutex /\ t # Null
  BY RenderQueueAssumption DEF ReadIInv, ReadInv
<1>2. \A u \in Thread : u = t \/ stack'[u] = stack[u]
  BY DEF Turned
<1>3. Shapes'
  BY <1>1, <1>2 DEF Shapes, Turned
<1>4. ASSUME NEW u \in Thread
      PROVE  mx' = u <=> Base(stack'[u]) \in {"peek", "peeking"}
  <2>1. CASE u = t
    BY <2>1 DEF Turned
  <2>2. CASE u # t
    <3>1. mx' = u <=> mx = u
      BY <1>1, <2>2, RenderQueueAssumption
    <3>2. QED BY <1>1, <1>2, <2>2, <3>1 DEF Mutex
  <2>. QED BY <2>1, <2>2
<1>5. QED BY <1>3, <1>4 DEF Mutex


\* A thread begins a read-back, or ends one: those of the others go on.
LEMMA AsideReads ==
  ASSUME ReadIInv, NEW t \in Thread, NEW b \in {"game", "lock", "peek", "copy"}, Turned(t, b),
         Base(stack[t]) \notin {"peeking", "copying"} \/ rb_ready,
         UNCHANGED <<recorded, rec, q, rb_ready, rb_rgba, argb>>,
         since'[t] <= rec_total,
         Top(stack'[t]) \in {"peek", "copy"} => rec = <<>>
  PROVE  Handed' /\ Awaited' /\ Answered'
<1>1. Handed /\ Awaited /\ Answered /\ Within(<<>>) = {}
  BY WithinEmpty DEF ReadIInv, ReadInv
<1>2. \A u \in Thread : u = t \/ (stack'[u] = stack[u] /\ since'[u] = since[u] /\ rgba'[u] = rgba[u])
  BY DEF Turned
<1>3. Base(stack'[t]) = b
  BY DEF Turned
<1>4. Handed'
  <2>1. rec_total' = rec_total
    BY DEF rec_total
  <2>2. ASSUME NEW u \in Thread
        PROVE  /\ since'[u] <= rec_total
               /\ Top(stack'[u]) \in {"peek", "copy"} => \A n \in Within(rec) : since'[u] < n
    BY <1>1, <1>2 DEF Handed, After
  <2>3. QED BY <2>1, <2>2 DEF Handed, After
<1>5. ASSUME NEW i \in DOMAIN q, q[i].read # ""
      PROVE  ~rb_ready' /\ \E u \in Thread : Waits(u, i)'
  <2>1. PICK u \in Thread : Waits(u, i)
    BY <1>1, <1>5 DEF Awaited
  <2>2. ~rb_ready /\ Base(stack[u]) \in {"peeking", "copying"}
    BY <1>1, <1>5, <2>1 DEF Awaited, Waits
  <2>3. stack'[u] = stack[u] /\ since'[u] = since[u]
    BY <1>2, <2>2
  <2>4. Waits(u, i)'
    BY <2>1, <2>3 DEF Waits, After
  <2>5. QED BY <2>2, <2>4
<1>6. Awaited'
  BY <1>1, <1>5 DEF Awaited
<1>7. Answered'
  BY <1>1, <1>2, <1>3 DEF Answered
<1>8. QED BY <1>4, <1>6, <1>7

\* gx_efb_peek is called and waits for its mutex; a peek that the last one
\* answers returns.
LEMMA LockReads ==
  ASSUME ReadIInv, NEW t \in Thread, Peek(t) \/ (Locked(t) /\ at = rec_total)
  PROVE  ReadInv'
<1>1. /\ stack \in [Thread -> Seq(Call)] /\ stack[t] \in Seq(Call) /\ Shape(stack[t])
      /\ "lock" \in Call /\ since[t] <= rec_total /\ Shapes /\ Mutex
  BY ReadTypes DEF Call, ReadIInv, ReadInv, Handed
<1>2. UNCHANGED <<recorded, rec, q, mx, rb_ready, rb_rgba, argb, rgba, since>>
  BY DEF Peek, Locked, gx, read
<1>3. PICK b \in {"lock", "game"} :
        /\ Turned(t, b) /\ Base(stack[t]) \in {"lock", "game"}
        /\ Top(stack'[t]) = b /\ (b = "lock" => t \in Peekers)
  <2>1. CASE Peek(t)
    <3>1. stack[t] = <<>> /\ t \in Peekers /\ stack' = [stack EXCEPT ![t] = Append(stack[t], "lock")]
      BY <1>1, <2>1, TopFacts DEF Peek, Push
    <3>2. /\ Append(stack[t], "lock") \in Seq(Call) /\ Shape(Append(stack[t], "lock"))
          /\ Top(Append(stack[t], "lock")) = "lock" /\ Base(Append(stack[t], "lock")) = "lock"
      BY <1>1, <3>1, ShapePush
    <3>3. Turned(t, "lock") /\ Top(stack'[t]) = "lock" /\ Base(stack[t]) = "game"
      BY <1>1, <1>2, <3>1, <3>2 DEF Turned, Base
    <3>4. QED BY <3>1, <3>3
  <2>2. CASE Locked(t) /\ at = rec_total
    <3>1. Top(stack[t]) = "lock" /\ stack' = [stack EXCEPT ![t] = Below(stack[t])]
      BY <2>2 DEF Locked, Return
    <3>2. stack[t] # <<>>
      BY <1>1, <3>1, TopFacts
    <3>3. /\ Below(stack[t]) = <<>> /\ Below(stack[t]) \in Seq(Call) /\ Shape(Below(stack[t]))
          /\ Base(stack[t]) = "lock"
      BY <1>1, <3>1, <3>2, ShapePop
    <3>4. Turned(t, "game") /\ Top(stack'[t]) = "game"
      BY <1>1, <1>2, <3>1, <3>3 DEF Turned, Base, Top
    <3>5. QED BY <3>3, <3>4
  <2>. QED BY <2>1, <2>2
<1>4. mx # t
  BY <1>1, <1>3 DEF Mutex
<1>5. Shapes' /\ Mutex'
  BY <1>2, <1>3, <1>4, TurnedFacts
<1>6. Handed' /\ Awaited' /\ Answered'
  BY <1>1, <1>2, <1>3, AsideReads
<1>7. QED BY <1>5, <1>6 DEF ReadInv

\* A read-back begins: what is recorded is handed over first.
LEMMA ReadBegins ==
  ASSUME ReadIInv, NEW t \in Thread, NEW c \in {"peek", "copy"}, Read(t, <<>>, c)
  PROVE  /\ stack' \in [Thread -> Seq(Call)] /\ Shape(stack'[t]) /\ Base(stack'[t]) = c
         /\ since'[t] = rec_total
         /\ \A u \in Thread \ {t} : stack'[u] = stack[u] /\ since'[u] = since[u]
         /\ Top(stack'[t]) \in {"peek", "copy"} => rec = <<>>
<1>. DEFINE s == Append(<<>>, c)
            r == Append(s, "hand")
<1>1. /\ stack \in [Thread -> Seq(Call)] /\ since \in [Thread -> Nat]
      /\ c \in Call /\ "hand" \in Call /\ <<>> \in Seq(Call) /\ Shape(<<>>)
  BY ReadTypes DEF Call, Shape
<1>2. s \in Seq(Call) /\ s # <<>> /\ Shape(s) /\ Top(s) = c /\ Base(s) = c
  <2>1. PICK e \in Seq(Call) : e = <<>>
    BY <1>1
  <2>2. Append(e, c) \in Seq(Call) /\ Append(e, c) # <<>>
    <3>1. c \in Call
      BY <1>1
    <3>2. QED BY <3>1
  <2>3. /\ Shape(Append(e, c)) /\ Top(Append(e, c)) = c
        /\ Base(Append(e, c)) = IF e = <<>> THEN c ELSE Base(e)
    BY <1>1, <2>1, ShapePush
  <2>4. QED BY <2>1, <2>2, <2>3
<1>3. <<>> \o <<c>> = s /\ <<>> \o <<c, "hand">> = r
  BY <1>1, PushTwo
<1>. HIDE DEF s
<1>4. r \in Seq(Call) /\ Shape(r) /\ Top(r) = "hand" /\ Base(r) = c
  BY <1>1, <1>2, ShapePush
<1>. HIDE DEF r
<1>5. \/ stack' = [stack EXCEPT ![t] = r]
      \/ stack' = [stack EXCEPT ![t] = s] /\ rec = <<>>
  BY <1>3 DEF Read
<1>6. since' = [since EXCEPT ![t] = rec_total]
  BY DEF Read
<1>7. QED BY <1>1, <1>2, <1>4, <1>5, <1>6

\* It begins with gx_efb_peek's mutex, or as gx_copy_to_ram.
LEMMA BeginReads ==
  ASSUME ReadIInv, NEW t \in Thread, (Locked(t) /\ at # rec_total) \/ Copy(t)
  PROVE  ReadInv'
<1>1. /\ stack[t] \in Seq(Call) /\ Shape(stack[t]) /\ rec_total \in Nat /\ Shapes /\ Mutex
  BY ReadTypes DEF ReadIInv, ReadInv
<1>2. UNCHANGED <<recorded, rec, q, rb_ready, rb_rgba, argb, rgba>>
  BY DEF Locked, Copy
<1>3. PICK c \in {"peek", "copy"} :
        /\ Read(t, <<>>, c) /\ Base(stack[t]) \in {"lock", "game"}
        /\ c = "peek" => t \in Peekers /\ mx = Null /\ mx' = t
        /\ c = "copy" => t \in Copiers /\ mx' = mx
  <2>1. CASE Locked(t) /\ at # rec_total
    <3>1. Top(stack[t]) = "lock" /\ mx = Null /\ mx' = t /\ Read(t, Below(stack[t]), "peek")
      BY <2>1 DEF Locked
    <3>2. stack[t] # <<>>
      BY <1>1, <3>1, TopFacts
    <3>3. Below(stack[t]) = <<>> /\ Base(stack[t]) = "lock"
      BY <1>1, <3>1, <3>2, ShapePop
    <3>4. t \in Peekers
      BY <1>1, <3>3 DEF Shapes
    <3>5. Read(t, <<>>, "peek")
      BY <3>1, <3>3
    <3>6. QED BY <3>1, <3>3, <3>4, <3>5
  <2>2. CASE Copy(t)
    <3>1. stack[t] = <<>>
      BY <1>1, <2>2, TopFacts DEF Copy
    <3>2. Read(t, <<>>, "copy") /\ t \in Copiers /\ mx' = mx
      BY <2>2, <3>1 DEF Copy
    <3>3. QED BY <3>1, <3>2 DEF Base
  <2>. QED BY <2>1, <2>2
<1>4. /\ stack' \in [Thread -> Seq(Call)] /\ Shape(stack'[t]) /\ Base(stack'[t]) = c
      /\ since'[t] = rec_total
      /\ \A u \in Thread \ {t} : stack'[u] = stack[u] /\ since'[u] = since[u]
      /\ Top(stack'[t]) \in {"peek", "copy"} => rec = <<>>
  BY <1>3, ReadBegins
<1>5. Turned(t, c)
  BY <1>2, <1>4 DEF Turned
<1>6. mx # t
  BY <1>1, <1>3 DEF Mutex
<1>7. Shapes' /\ Mutex'
  BY <1>3, <1>5, <1>6, TurnedFacts
<1>8. since'[t] <= rec_total
  BY <1>1, <1>4
<1>9. Handed' /\ Awaited' /\ Answered'
  BY <1>2, <1>3, <1>4, <1>5, <1>8, AsideReads
<1>10. QED BY <1>7, <1>9 DEF ReadInv

\* It ends: its answer is there.
LEMMA ReturnReads ==
  ASSUME ReadIInv, NEW t \in Thread, PeekReturns(t) \/ CopyReturns(t)
  PROVE  ReadInv'
<1>1. /\ stack \in [Thread -> Seq(Call)] /\ stack[t] \in Seq(Call) /\ Shape(stack[t])
      /\ since \in [Thread -> Nat] /\ rgba \in [Thread -> Nat \cup {Null}]
      /\ rec_total \in Nat /\ Shapes /\ Mutex
  BY ReadTypes DEF ReadIInv, ReadInv
<1>2. /\ UNCHANGED <<recorded, rec, q, rb_ready, rb_rgba, argb>> /\ rb_ready
      /\ Top(stack[t]) \in {"peeking", "copying"}
      /\ stack' = [stack EXCEPT ![t] = Below(stack[t])]
      /\ since' = [since EXCEPT ![t] = 0]
  BY DEF PeekReturns, CopyReturns, gx, Return
<1>3. stack[t] # <<>>
  BY <1>1, <1>2, TopFacts
<1>4. /\ Below(stack[t]) = <<>> /\ Below(stack[t]) \in Seq(Call) /\ Shape(Below(stack[t]))
      /\ Base(stack[t]) = Top(stack[t])
  BY <1>1, <1>2, <1>3, ShapePop
<1>5. \A u \in Thread \ {t} : rgba'[u] = rgba[u]
  BY <1>1 DEF PeekReturns, CopyReturns
<1>6. Turned(t, "game") /\ Top(stack'[t]) = "game" /\ since'[t] = 0
  BY <1>1, <1>2, <1>4, <1>5 DEF Turned, Base, Top
<1>7. mx' # t /\ mx' \in {mx, Null} /\ mx \in {t, mx'}
  <2>1. CASE PeekReturns(t)
    <3>1. mx = t /\ mx' = Null
      BY <1>1, <1>4, <2>1 DEF Mutex, PeekReturns
    <3>2. QED BY <3>1, RenderQueueAssumption
  <2>2. CASE CopyReturns(t)
    <3>1. Base(stack[t]) = "copying" /\ mx' = mx
      BY <1>4, <2>2 DEF CopyReturns
    <3>2. QED BY <1>1, <3>1 DEF Mutex
  <2>. QED BY <2>1, <2>2
<1>8. Shapes' /\ Mutex'
  BY <1>6, <1>7, TurnedFacts
<1>9. since'[t] <= rec_total
  BY <1>1, <1>6
<1>10. Handed' /\ Awaited' /\ Answered'
  BY <1>2, <1>6, <1>9, AsideReads
<1>11. QED BY <1>8, <1>10 DEF ReadInv

\* It is asked for: it is the only one in the queue, and all that is not drawn
\* before it is recorded later.
LEMMA AskReads ==
  ASSUME OneKind, ReadIInv, QueueIInv', NEW t \in Thread, AskPeek(t) \/ AskCopy(t)
  PROVE  ReadInv'
<1>1. /\ stack \in [Thread -> Seq(Call)] /\ stack[t] \in Seq(Call) /\ Shape(stack[t])
      /\ q \in Seq(Chunks) /\ Shapes /\ Mutex /\ Handed /\ Awaited
  BY ReadTypes DEF ReadIInv, ReadInv
<1>2. /\ UNCHANGED <<recorded, rec, mx, argb, rgba, since>> /\ rb_ready' = FALSE
      /\ Top(stack[t]) \in {"peek", "copy"}
  BY DEF AskPeek, AskCopy, Ask, gx, read
<1>3. stack[t] # <<>>
  BY <1>1, <1>2, TopFacts
<1>4. /\ Below(stack[t]) = <<>> /\ Below(stack[t]) \in Seq(Call) /\ Base(stack[t]) = Top(stack[t])
  BY <1>1, <1>2, <1>3, ShapePop
<1>5. PICK b \in {"peeking", "copying"} :
        /\ stack' = [stack EXCEPT ![t] = Append(Below(stack[t]), b)]
        /\ q' = Append(q, Chunk(<<>>, 0, IF b = "peeking" THEN "efb" ELSE "copy"))
        /\ Base(stack[t]) = IF b = "peeking" THEN "peek" ELSE "copy"
        /\ b = "copying" => rb_rgba' = t
  <2>1. CASE AskPeek(t)
    BY <1>4, <2>1 DEF AskPeek, Ask, Become
  <2>2. CASE AskCopy(t)
    BY <1>4, <2>2 DEF AskCopy, Ask, Become
  <2>. QED BY <2>1, <2>2
<1>6. Turned(t, b) /\ Top(stack'[t]) = b
  <2>1. b \in Call /\ Shape(<<>>)
    BY DEF Call, Shape
  <2>2. PICK e \in Seq(Call) : e = Below(stack[t]) /\ e = <<>>
    BY <1>4
  <2>3. /\ Append(e, b) \in Seq(Call) /\ Shape(Append(e, b))
        /\ Top(Append(e, b)) = b /\ Base(Append(e, b)) = b
    BY <2>1, <2>2, ShapePush
  <2>4. stack' = [stack EXCEPT ![t] = Append(e, b)]
    BY <1>5, <2>2
  <2>5. QED BY <1>1, <1>2, <2>3, <2>4 DEF Turned
<1>7. Shapes' /\ Mutex'
  <2>1. (b = "peeking" => t \in Peekers /\ mx = t) /\ (b = "copying" => t \in Copiers /\ mx # t)
    BY <1>1, <1>5 DEF Shapes, Mutex
  <2>2. QED BY <1>2, <1>6, <2>1, TurnedFacts
<1>8. \A u \in Thread : u = t \/ (stack'[u] = stack[u] /\ since'[u] = since[u])
  BY <1>6 DEF Turned
<1>9. After(t, rec)
  BY <1>1, <1>2 DEF Handed
<1>10. Handed'
  <2>1. rec_total' = rec_total
    BY <1>2 DEF rec_total
  <2>2. ASSUME NEW u \in Thread
        PROVE  /\ since'[u] <= rec_total
               /\ Top(stack'[u]) \in {"peek", "copy"} => \A n \in Within(rec) : since'[u] < n
    BY <1>1, <1>2, <1>6, <1>8 DEF Handed, After
  <2>3. QED BY <1>2, <2>1, <2>2 DEF Handed, After
<1>11. ASSUME NEW i \in DOMAIN q, q[i].read # ""
       PROVE  FALSE
  <2>1. PICK u \in Thread : Waits(u, i)
    BY <1>1, <1>11 DEF Awaited
  <2>2. Base(stack[u]) \in {"peeking", "copying"}
    BY <2>1 DEF Waits
  <2>3. Base(stack[t]) \in {"peek", "copy"}
    BY <1>5
  <2>4. QED BY <2>2, <2>3, OneReads
<1>12. PICK c \in Chunks :
         /\ q' = Append(q, c) /\ c.items = <<>>
         /\ c.read = IF b = "peeking" THEN "efb" ELSE "copy"
  <2>1. Chunk(<<>>, 0, IF b = "peeking" THEN "efb" ELSE "copy") \in Chunks
    BY DEF Chunk, Chunks
  <2>2. QED BY <1>5, <2>1 DEF Chunk
<1>13. PICK z \in Nat \ {0} :
         /\ DOMAIN q' = 1..z /\ DOMAIN q = 1..(z - 1)
         /\ \A i \in 1..(z - 1) : q'[i] = q[i]
         /\ q'[z] = c
  <2>1. /\ DOMAIN Append(q, c) = 1..(Len(q) + 1)
        /\ \A i \in 1..Len(q) : Append(q, c)[i] = q[i]
        /\ Append(q, c)[Len(q) + 1] = c
    BY <1>1, QueueAppend
  <2>2. DOMAIN q = 1..Len(q) /\ Len(q) + 1 \in Nat \ {0} /\ (Len(q) + 1) - 1 = Len(q)
    BY <1>1
  <2>3. q' = Append(q, c)
    BY <1>12
  <2>4. /\ DOMAIN q' = 1..(Len(q) + 1)
        /\ \A i \in 1..Len(q) : q'[i] = q[i]
        /\ q'[Len(q) + 1] = c
    BY <2>1, <2>3, Zenon
  <2>5. WITNESS Len(q) + 1 \in Nat \ {0}
  <2>6. QED BY <2>2, <2>4
<1>14. \A i \in 1..z : i \in 1..(z - 1) \/ i = z
  BY <1>13
<1>15. ASSUME NEW i \in DOMAIN q', q'[i].read # ""
       PROVE  i = z
  BY <1>11, <1>13, <1>14, <1>15
<1>16. Waits(t, z)'
  <2>1. Base(stack'[t]) = IF q'[z].read = "efb" THEN "peeking" ELSE "copying"
    BY <1>6, <1>12, <1>13 DEF Turned
  <2>2. q'[z].read = "copy" => rb_rgba' = t
    BY <1>5, <1>12, <1>13
  <2>3. \A n \in Within(rec') : since'[t] < n
    BY <1>2, <1>9 DEF After
  <2>4. ASSUME NEW j \in DOMAIN q', z <= j
        PROVE  \A n \in Within(q'[j].items) : since'[t] < n
    <3>1. ~ j \in 1..(z - 1)
      BY <1>13, <2>4
    <3>2. q'[j].items = <<>>
      BY <1>12, <1>13, <1>14, <3>1
    <3>3. QED BY <3>2, WithinEmpty
  <2>5. QED BY <2>1, <2>2, <2>3, <2>4 DEF Waits, After
<1>17. Awaited'
  BY <1>2, <1>15, <1>16 DEF Awaited
<1>18. Answered'
  BY <1>2 DEF Answered
<1>19. QED BY <1>7, <1>10, <1>17, <1>18 DEF ReadInv

LEMMA ReadInit == Init => ReadInv
<1>. SUFFICES ASSUME Init
              PROVE  ReadInv
  OBVIOUS
<1>1. \A t \in Thread : stack[t] = <<>> /\ since[t] = 0 /\ mx # t
  BY RenderQueueAssumption DEF Init
<1>2. q = <<>> /\ DOMAIN q = {} /\ rec_total = 0
  BY DEF Init, rec_total
<1>3. \A t \in Thread : Base(stack[t]) = "game" /\ Top(stack[t]) = "game" /\ Shape(stack[t])
  BY <1>1 DEF Base, Top, Shape
<1>4. Shapes /\ Mutex /\ Answered
  BY <1>1, <1>3 DEF Shapes, Mutex, Answered
<1>5. Handed
  BY <1>1, <1>2, <1>3 DEF Handed
<1>6. Awaited
  BY <1>2 DEF Awaited
<1>7. QED BY <1>4, <1>5, <1>6 DEF ReadInv

LEMMA ReadStep ==
  ASSUME OneKind, ReadIInv, QueueIInv', [Next]_vars
  PROVE  ReadInv'
<1>1. ASSUME NEW k \in Kind, NEW big \in BOOLEAN, Record(k, big) PROVE ReadInv'
  BY <1>1, RecordReads
<1>2. ASSUME NEW t \in Thread, Hand(t) PROVE ReadInv'
  BY <1>2, HandReads
<1>3. ASSUME NEW t \in Thread, Reads(t) PROVE ReadInv'
  BY <1>3, LockReads, BeginReads DEF Reads
<1>4. ASSUME NEW t \in Thread, ReadGoesOn(t) PROVE ReadInv'
  BY <1>4, AskReads, ReturnReads DEF ReadGoesOn
<1>5. ASSUME NEW t \in Thread, Polls(t) PROVE ReadInv'
  BY <1>5, PollReads
<1>6. ASSUME NEW t \in Thread, HandlerEnds(t) \/ Yield(t) PROVE ReadInv'
  BY <1>6, OtherReads DEF HandlerEnds, Yield, SteadyReads, gx, read
<1>7. CASE Disable \/ Enable \/ Retrace
  BY <1>7, OtherReads DEF Disable, Enable, Retrace, SteadyReads, gx, read
<1>8. CASE TakeRecord
  BY <1>8, TakeReads
<1>9. CASE TakeReadBack
  BY <1>9, AnswerReads
<1>10. CASE Exec \/ ChunkDone
  BY <1>10, OtherReads DEF Exec, ChunkDone, SteadyReads, gx, read
<1>11. CASE UNCHANGED vars
  BY <1>11, OtherReads DEF vars, SteadyReads, gx, read
<1>. QED
  BY <1>1, <1>2, <1>3, <1>4, <1>5, <1>6, <1>7, <1>8, <1>9, <1>10, <1>11 DEF Next, Guest, Renderer

\* Where any number of threads peek, or one reads copies: the answer a thread
\* gets of its read-back shows all that was recorded when it began, whatever
\* other threads and handlers record and hand over meanwhile (gx_efb_peek,
\* gx_copy_to_ram, video_efb_read, video_copy_read).
THEOREM ReadBacksShowAll == ASSUME OneKind PROVE Spec => []ReadBackShowsAll
<1>1. Init => ReadIInv
  BY FlowInit, ReadInit DEF ReadIInv
<1>2. ReadIInv /\ [Next]_vars => ReadIInv'
  BY FlowStep, TypeStep, ReadStep DEF ReadIInv, QueueIInv
<1>3. ReadIInv => ReadBackShowsAll
  <2>. SUFFICES ASSUME ReadIInv, NEW t \in Thread, Top(stack[t]) \in {"peeking", "copying"}
                PROVE  Base(stack[t]) = Top(stack[t])
    BY DEF ReadIInv, ReadInv, Answered, ReadBackShowsAll
  <2>1. stack[t] \in Seq(Call) /\ Shape(stack[t])
    BY ReadTypes
  <2>2. stack[t] # <<>>
    BY <2>1, TopFacts
  <2>3. QED BY <2>1, <2>2, ShapePop
<1>4. QED BY <1>1, <1>2, <1>3, PTL DEF Spec
=============================================================================
