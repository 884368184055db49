---------------------------- MODULE CpFifoProofs ----------------------------
(***************************************************************************)
(* Proofs about CpFifo for a FIFO and watermarks of any size: the GP gets  *)
(* the CPU's bursts all, once and in order, and never goes past the        *)
(* breakpoint the game put, nor stops for any other; the CPU never writes  *)
(* over what the GP has not read; and the CP's line is told to the guest.  *)
(***************************************************************************)
EXTENDS CpFifo, TLAPS, SequenceTheorems

-----------------------------------------------------------------------------
(* Sequences of bursts.                                                    *)

\* Concatenation, of sequences of numbers.
LEMMA AssocFact ==
  ASSUME NEW f \in Seq(Nat), NEW g \in Seq(Nat), NEW h \in Seq(Nat)
  PROVE  (f \o g) \o h = f \o (g \o h)
BY ConcatAssociative, SMTT(90)

\* The numbers of a sequence of bursts.
LEMMA NumbersFact ==
  ASSUME NEW s \in Seq(Burst)
  PROVE  /\ Numbers(s) \in Seq(Nat)
         /\ Len(Numbers(s)) = Len(s)
         /\ \A i \in 1..Len(s) : Numbers(s)[i] = s[i].n
<1> DEFINE t == [i \in 1..Len(s) |-> s[i].n]
<1>1. Len(s) \in Nat /\ s \in [1..Len(s) -> Burst]
  BY LenProperties
<1>2. t \in [1..Len(s) -> Nat]
  BY <1>1 DEF Burst
<1>3. t \in Seq(Nat)
  BY <1>1, <1>2, SeqDef
<1>4. DOMAIN t = 1..Len(s)
  OBVIOUS
<1> HIDE DEF t
<1>5. DOMAIN t = 1..Len(t) /\ Len(t) \in Nat
  BY <1>3, LenProperties
<1>6. Len(t) = Len(s)
  BY <1>1, <1>4, <1>5
<1>7. Numbers(s) = t
  BY DEF Numbers, t
<1>8. \A i \in 1..Len(s) : t[i] = s[i].n
  BY DEF t
<1>. QED
  BY <1>3, <1>6, <1>7, <1>8

\* Part of a sequence of bursts, and its numbers.
LEMMA SubSeqFact ==
  ASSUME NEW h \in Seq(Burst), NEW i \in 1..(Len(h) + 1), NEW j \in (i - 1)..Len(h)
  PROVE  /\ SubSeq(h, i, j) \in Seq(Burst)
         /\ Len(SubSeq(h, i, j)) = j - i + 1
         /\ \A m \in 1..(j - i + 1) : SubSeq(h, i, j)[m] = h[i + m - 1]
         /\ Numbers(SubSeq(h, i, j)) = SubSeq(Numbers(h), i, j)
<1> DEFINE part == SubSeq(h, i, j)
           nums == Numbers(h)
           left == Numbers(part)
           right == SubSeq(nums, i, j)
<1>1. /\ Len(h) \in Nat /\ i \in Int /\ j \in Int
      /\ \A m \in 1..Len(h) : h[m] \in Burst
  BY LenProperties
<1>2. \A m \in i..j : h[m] \in Burst
  BY <1>1
<1>3. /\ part \in Seq(Burst) /\ Len(part) = j - i + 1
      /\ \A m \in 1..(j - i + 1) : part[m] = h[i + m - 1]
  BY <1>1, <1>2, SubSeqProperties
<1> HIDE DEF part
<1>4. /\ nums \in Seq(Nat) /\ Len(nums) = Len(h)
      /\ \A m \in 1..Len(h) : nums[m] = h[m].n
  BY NumbersFact
<1>5. /\ left \in Seq(Nat) /\ Len(left) = j - i + 1
      /\ \A m \in 1..(j - i + 1) : left[m] = part[m].n
  BY <1>3, NumbersFact
<1> HIDE DEF nums, left
<1>6. \A m \in i..j : nums[m] \in Nat
  BY <1>1, <1>4, LenProperties
<1>7. /\ right \in Seq(Nat) /\ Len(right) = j - i + 1
      /\ \A m \in 1..(j - i + 1) : right[m] = nums[i + m - 1]
  BY <1>1, <1>6, SubSeqProperties
<1> HIDE DEF right
<1>8. \A m \in 1..(j - i + 1) : left[m] = right[m]
  <2> TAKE m \in 1..(j - i + 1)
  <2>1. i + m - 1 \in 1..Len(h)
    BY <1>1
  <2>2. left[m] = h[i + m - 1].n
    BY <1>3, <1>5
  <2>3. right[m] = h[i + m - 1].n
    BY <2>1, <1>4, <1>7
  <2>4. QED
    BY <2>2, <2>3
<1>9. left = right
  BY <1>5, <1>7, <1>8, SeqEqual
<1>10. QED
  BY <1>3, <1>9 DEF part, left, right, nums

\* What the GP reads of the held bursts, and what stays, is what was held.
LEMMA SplitFact ==
  ASSUME NEW f \in Seq(Nat), NEW h \in Seq(Burst), NEW k \in 0..Len(h)
  PROVE  /\ f \o Numbers(SubSeq(h, 1, k)) \in Seq(Nat)
         /\ Len(f \o Numbers(SubSeq(h, 1, k))) = Len(f) + k
         /\ (f \o Numbers(SubSeq(h, 1, k))) \o Numbers(SubSeq(h, k + 1, Len(h)))
              = f \o Numbers(h)
<1> DEFINE nums == Numbers(h)
           a == SubSeq(nums, 1, k)
           b == SubSeq(nums, k + 1, Len(h))
<1>1. Len(h) \in Nat /\ k \in Nat /\ k \in 0..Len(h) /\ k + 1 \in 1..(Len(h) + 1)
  BY LenProperties
<1>2. /\ SubSeq(h, 1, k) \in Seq(Burst) /\ Len(SubSeq(h, 1, k)) = k
      /\ Numbers(SubSeq(h, 1, k)) = a
  <2>1. 1 \in 1..(Len(h) + 1) /\ k \in (1 - 1)..Len(h)
    BY <1>1
  <2>2. /\ SubSeq(h, 1, k) \in Seq(Burst) /\ Len(SubSeq(h, 1, k)) = k - 1 + 1
        /\ Numbers(SubSeq(h, 1, k)) = SubSeq(Numbers(h), 1, k)
    BY <2>1, SubSeqFact, Zenon
  <2>3. QED
    BY <2>2, <1>1
<1>3. /\ SubSeq(h, k + 1, Len(h)) \in Seq(Burst)
      /\ Numbers(SubSeq(h, k + 1, Len(h))) = b
  <2> DEFINE m == k + 1
  <2>1. m \in 1..(Len(h) + 1) /\ Len(h) \in (m - 1)..Len(h)
    BY <1>1
  <2> HIDE DEF m
  <2>2. /\ SubSeq(h, m, Len(h)) \in Seq(Burst)
        /\ Numbers(SubSeq(h, m, Len(h))) = SubSeq(Numbers(h), m, Len(h))
    BY <2>1, SubSeqFact, Zenon
  <2>3. QED
    BY <2>2 DEF m
<1>4. a \in Seq(Nat) /\ Len(a) = k
  BY <1>2, NumbersFact
<1>5. b \in Seq(Nat)
  BY <1>3, NumbersFact
<1>6. nums \in Seq(Nat) /\ Len(nums) = Len(h)
  BY NumbersFact
<1> HIDE DEF nums
<1>7. a \o b = nums
  <2>1. /\ 1 \in 1..(Len(nums) + 1) /\ k \in (1 - 1)..Len(nums)
        /\ Len(nums) \in k..Len(nums)
    BY <1>1, <1>6
  <2>2. SubSeq(nums, 1, k) \o SubSeq(nums, k + 1, Len(nums)) = SubSeq(nums, 1, Len(nums))
    BY <2>1, <1>6, ConcatAdjacentSubSeq, Zenon
  <2>3. QED
    BY <2>2, <1>6, SubSeqFull
<1> HIDE DEF a, b
<1>8. (f \o a) \o b = f \o (a \o b)
  BY <1>4, <1>5, AssocFact
<1>9. f \o a \in Seq(Nat) /\ Len(f \o a) = Len(f) + Len(a)
  BY <1>4, ConcatProperties
<1>10. QED
  BY <1>2, <1>3, <1>4, <1>7, <1>8, <1>9 DEF nums

\* A burst that is held goes after all the others.
LEMMA AppendFact ==
  ASSUME NEW f \in Seq(Nat), NEW h \in Seq(Burst), NEW b \in Burst
  PROVE  f \o Numbers(Append(h, b)) = Append(f \o Numbers(h), b.n)
<1> DEFINE g == Append(h, b)
           ng == Numbers(g)
           nh == Numbers(h)
           right == Append(nh, b.n)
<1>1. Len(h) \in Nat /\ b.n \in Nat
  BY LenProperties DEF Burst
<1>2. /\ g \in Seq(Burst) /\ Len(g) = Len(h) + 1
      /\ \A i \in 1..Len(h) : g[i] = h[i]
      /\ g[Len(h) + 1] = b
  BY AppendProperties
<1> HIDE DEF g
<1>3. /\ ng \in Seq(Nat) /\ Len(ng) = Len(h) + 1
      /\ \A i \in 1..(Len(h) + 1) : ng[i] = g[i].n
  BY <1>2, NumbersFact
<1>4. /\ nh \in Seq(Nat) /\ Len(nh) = Len(h)
      /\ \A i \in 1..Len(h) : nh[i] = h[i].n
  BY NumbersFact
<1> HIDE DEF ng, nh
<1>5. /\ right \in Seq(Nat) /\ Len(right) = Len(nh) + 1
      /\ \A i \in 1..Len(nh) : right[i] = nh[i]
      /\ right[Len(nh) + 1] = b.n
  BY <1>1, <1>4, AppendProperties
<1> HIDE DEF right
<1>6. \A i \in 1..(Len(h) + 1) : ng[i] = right[i]
  <2> TAKE i \in 1..(Len(h) + 1)
  <2>1. CASE i \in 1..Len(h)
    BY <2>1, <1>2, <1>3, <1>4, <1>5
  <2>2. CASE i = Len(h) + 1
    BY <2>2, <1>2, <1>3, <1>4, <1>5
  <2>3. QED
    BY <2>1, <2>2, <1>1
<1>7. ng = right
  BY <1>3, <1>4, <1>5, <1>6, SeqEqual
<1>8. /\ right = nh \o <<b.n>> /\ <<b.n>> \in Seq(Nat)
  BY <1>1, <1>4, AppendIsConcat DEF right
<1>9. f \o (nh \o <<b.n>>) = (f \o nh) \o <<b.n>>
  BY <1>4, <1>8, AssocFact
<1>10. f \o nh \in Seq(Nat)
  BY <1>4, ConcatProperties
<1>11. (f \o nh) \o <<b.n>> = Append(f \o nh, b.n)
  BY <1>1, <1>10, AppendIsConcat
<1>12. QED
  BY <1>7, <1>8, <1>9, <1>11 DEF g, ng, nh

-----------------------------------------------------------------------------
(* The GP's steps.                                                         *)

\* With all in order, what has been read and what is held add up.
LEMMA CountFact ==
  ASSUME TypeOK, StreamOrder
  PROVE  Len(fed) \in Nat /\ Len(held) \in Nat /\ Len(fed) + Len(held) = written
<1> DEFINE all == [i \in 1..written |-> i]
           nums == Numbers(held)
<1>1. /\ fed \in Seq(Nat) /\ held \in Seq(Burst) /\ written \in Nat
      /\ Len(fed) \in Nat /\ Len(held) \in Nat
  BY CpFifoAssumption, LenProperties DEF TypeOK
<1>2. fed \o nums = all
  BY DEF StreamOrder
<1>3. all \in [1..written -> Nat] /\ DOMAIN all = 1..written
  OBVIOUS
<1>4. nums \in Seq(Nat) /\ Len(nums) = Len(held)
  BY <1>1, NumbersFact
<1> HIDE DEF all, nums
<1>5. Len(fed \o nums) = Len(fed) + Len(nums)
  BY <1>1, <1>4, ConcatProperties
<1>6. all \in Seq(Nat)
  BY <1>1, <1>3, SeqDef
<1>7. DOMAIN all = 1..Len(all) /\ Len(all) \in Nat
  BY <1>6, LenProperties
<1>8. Len(all) = written
  BY <1>1, <1>3, <1>7
<1>9. QED
  BY <1>1, <1>2, <1>4, <1>5, <1>8

\* The address of a burst the GP has not read, or of the next one.
LEMMA AddressFact ==
  ASSUME TypeOK, StreamOrder, NEW g \in Nat, Len(fed) < g
  PROVE  AddressOf(g) \in Address
<1>1. CASE g <= written
  <2>1. g - Len(fed) \in 1..Len(held)
    BY <1>1, CountFact
  <2>2. held[g - Len(fed)] \in Burst
    BY <2>1, LenProperties DEF TypeOK
  <2>3. QED
    BY <1>1, <2>2 DEF AddressOf, Burst
<1>2. CASE ~(g <= written)
  BY <1>2 DEF AddressOf, fifo_wptr, TypeOK
<1>3. QED
  BY <1>1, <1>2

\* The halves of an address are what the breakpoint's registers hold.
LEMMA HalvesFact ==
  ASSUME NEW a \in Address
  PROVE  /\ Halves(a)[1] \in Nat /\ Halves(a)[2] \in 0..(Half - 1)
         /\ Halves(a) = <<Halves(a)[1], Halves(a)[2]>>
<1>1. a \in Nat /\ Half \in Nat \ {0}
  BY CpFifoAssumption DEF Address
<1>2. a \div Half \in Nat /\ a % Half \in 0..(Half - 1)
  BY <1>1
<1>3. QED
  BY <1>2 DEF Halves

\* However far the GP goes on, the bursts keep their order and their
\* addresses; and it does not get to a breakpoint's burst that it has not
\* read, when it is at rest or its registers are that burst's.
LEMMA GpRunFact ==
  ASSUME TypeOK, StreamOrder, written' = written, fifo_wptr' = fifo_wptr,
         NEW c \in Control, NEW a, GpRun(c, a),
         NEW g \in Nat,
         g # 0 => Len(fed) < g /\ g <= written + 1,
         g # 0 /\ c.read => BpEnabled(c) /\ a = Halves(AddressOf(g))
  PROVE  /\ fed' \in Seq(Nat) /\ held' \in Seq(Burst)
         /\ StreamOrder'
         /\ g # 0 => Len(fed') < g /\ AddressOf(g)' = AddressOf(g)
<1>1. CASE ~c.read
  <2>1. fed' = fed /\ held' = held
    BY <1>1 DEF GpRun
  <2>2. QED
    BY <2>1 DEF TypeOK, StreamOrder, AddressOf
<1>2. CASE c.read
  <2>0. /\ fed \in Seq(Nat) /\ held \in Seq(Burst)
        /\ Len(fed) \in Nat /\ Len(held) \in Nat /\ written \in Nat
        /\ Len(fed) + Len(held) = written
    BY CountFact DEF TypeOK
  <2>1. PICK k \in 0..Len(held) :
          /\ \A i \in 1..k : ~Stops(held[i], c, a)
          /\ k < Len(held) => Stops(held[k + 1], c, a)
          /\ fed' = fed \o Numbers(SubSeq(held, 1, k))
          /\ held' = SubSeq(held, k + 1, Len(held))
    BY <1>2 DEF GpRun
  <2>2. /\ fed' \in Seq(Nat) /\ Len(fed') = Len(fed) + k
        /\ fed' \o Numbers(held') = fed \o Numbers(held)
    BY <2>0, <2>1, SplitFact
  <2>3. /\ held' \in Seq(Burst) /\ Len(held') = Len(held) - k
        /\ \A m \in 1..(Len(held) - k) : held'[m] = held[k + m]
    <3> DEFINE p == k + 1
    <3>1. p \in 1..(Len(held) + 1) /\ Len(held) \in (p - 1)..Len(held)
      BY <2>0
    <3> HIDE DEF p
    <3>2. /\ SubSeq(held, p, Len(held)) \in Seq(Burst)
          /\ Len(SubSeq(held, p, Len(held))) = Len(held) - p + 1
          /\ \A m \in 1..(Len(held) - p + 1) :
               SubSeq(held, p, Len(held))[m] = held[p + m - 1]
      BY <2>0, <3>1, SubSeqFact, Zenon
    <3>3. /\ held' \in Seq(Burst) /\ Len(held') = Len(held) - p + 1
          /\ \A m \in 1..(Len(held) - p + 1) : held'[m] = held[p + m - 1]
      BY <2>1, <3>2, Zenon DEF p
    <3>4. Len(held) - p + 1 = Len(held) - k
      BY <2>0 DEF p
    <3>5. ASSUME NEW m \in 1..(Len(held) - k)
          PROVE  held'[m] = held[k + m]
      <4>1. p + m - 1 = k + m
        BY <2>0 DEF p
      <4>2. held'[m] = held[p + m - 1]
        BY <3>3, <3>4
      <4>3. QED
        BY <4>1, <4>2
    <3>6. QED
      BY <3>3, <3>4, <3>5
  <2>4. StreamOrder'
    BY <2>2 DEF StreamOrder
  <2>5. ASSUME g # 0
        PROVE  Len(fed') < g /\ AddressOf(g)' = AddressOf(g)
    <3>1. /\ Len(fed) < g /\ g <= written + 1
          /\ BpEnabled(c) /\ a = Halves(AddressOf(g))
      BY <1>2, <2>5
    <3>2. Len(fed') < g
      <4>1. SUFFICES ASSUME g <= Len(fed) + k
                     PROVE  FALSE
        BY <2>0, <2>2
      <4>2. g - Len(fed) \in 1..k /\ g <= written
        BY <2>0, <3>1, <4>1
      <4>3. AddressOf(g) = held[g - Len(fed)].addr
        BY <4>2 DEF AddressOf
      <4>4. ~Stops(held[g - Len(fed)], c, a)
        BY <2>1, <4>2
      <4>5. QED
        BY <3>1, <4>3, <4>4 DEF Stops
    <3>3. AddressOf(g)' = AddressOf(g)
      <4>1. CASE g <= written
        <5>1. /\ g - Len(fed') \in 1..(Len(held) - k)
              /\ k + (g - Len(fed')) = g - Len(fed)
          BY <2>0, <2>2, <3>2, <4>1
        <5>2. held'[g - Len(fed')] = held[g - Len(fed)]
          BY <2>3, <5>1
        <5>3. QED
          BY <4>1, <5>2 DEF AddressOf
      <4>2. CASE ~(g <= written)
        BY <4>2 DEF AddressOf
      <4>3. QED
        BY <4>1, <4>2
    <3>4. QED
      BY <3>2, <3>3
  <2>6. QED
    BY <2>2, <2>3, <2>4, <2>5
<1>3. QED
  BY <1>1, <1>2

-----------------------------------------------------------------------------
(* The inductive invariant.                                                *)

THEOREM InitInv == Init => FifoInv
<1>. SUFFICES ASSUME Init PROVE FifoInv
  OBVIOUS
<1>1. /\ held = <<>> /\ fed = <<>> /\ written = 0 /\ goal = 0
      /\ mode = "thread" /\ pi_wptr = 0 /\ home = 0
  BY DEF Init
<1>2. Numbers(<<>>) = <<>>
  <2>1. Numbers(<<>>) \in Seq(Nat) /\ Len(Numbers(<<>>)) = 0
    BY NumbersFact, EmptySeq
  <2>2. QED
    BY <2>1, EmptySeq
<1>3. TypeOK
  <2>1. <<>> \in Seq(Burst) /\ <<>> \in Seq(Nat)
    OBVIOUS
  <2>2. 0 \in Address /\ 0 \in 0..(Half - 1) /\ 0 \in 0..MaxBursts /\ 0 \in 0..Slack
    BY CpFifoAssumption DEF Address
  <2>3. /\ ctrl \in Control /\ status \in [over : BOOLEAN, under : BOOLEAN, bp : BOOLEAN]
        /\ mode \in Mode
    BY DEF Init, Control, NoStatus, Mode
  <2>4. QED
    BY <2>1, <2>2, <2>3 DEF Init, TypeOK
<1>4. StreamOrder
  <2> DEFINE all == [i \in 1..0 |-> i]
  <2>1. <<>> \o <<>> = <<>>
    OBVIOUS
  <2>2. all = <<>>
    <3>1. all \in [1..0 -> Nat]
      OBVIOUS
    <3> HIDE DEF all
    <3>2. all \in Seq(Nat) /\ DOMAIN all = {}
      BY <3>1, SeqDef
    <3>3. QED
      BY <3>2, EmptySeq, LenProperties
  <2>3. QED
    BY <1>1, <1>2, <2>1, <2>2 DEF StreamOrder
<1>5. StopsThere /\ BpSet
  BY <1>1 DEF StopsThere, BpSet, Moving
<1>6. Connected
  <2>1. pi_wptr # Off
    BY <1>1, CpFifoAssumption DEF Off
  <2>2. ctrl.read = TRUE /\ ctrl.link = TRUE
    BY DEF Init
  <2>3. mode \notin Moving
    BY <1>1 DEF Moving
  <2>4. QED
    BY <2>1, <2>2, <2>3 DEF Connected
<1>7. QED
  BY <1>3, <1>4, <1>5, <1>6 DEF FifoInv

\* A step that touches neither the FIFO nor the breakpoint.
LEMMA QuietStep ==
  ASSUME FifoInv, UNCHANGED <<fifo, goal, home>>,
         mode' \in Mode, mode' = mode \/ (mode \notin Moving /\ mode' \notin Moving),
         pending' \in BOOLEAN, vi' \in BOOLEAN, suspended' \in BOOLEAN,
         unpolled' \in 0..Slack,
         status' \in [over : BOOLEAN, under : BOOLEAN, bp : BOOLEAN]
  PROVE  FifoInv'
<1>0. /\ ctrl' = ctrl /\ bp_lo' = bp_lo /\ bp_hi' = bp_hi /\ pi_wptr' = pi_wptr
      /\ held' = held /\ fed' = fed /\ written' = written
      /\ goal' = goal /\ home' = home
  BY DEF fifo
<1>1. TypeOK'
  BY <1>0 DEF FifoInv, TypeOK
<1>2. StreamOrder' /\ StopsThere'
  BY <1>0 DEF FifoInv, StreamOrder, StopsThere
<1>3. Connected'
  BY <1>0 DEF FifoInv, Connected
<1>4. AddressOf(goal)' = AddressOf(goal)
  BY <1>0 DEF AddressOf, fifo_wptr
<1>5. BpSet'
  BY <1>0, <1>4 DEF FifoInv, BpSet, BpAddr, Moving
<1>6. QED
  BY <1>1, <1>2, <1>3, <1>5 DEF FifoInv

\* A step that writes a register of the CP, to c and a, and after which the
\* breakpoint is meant for g.
LEMMA RegisterStep ==
  ASSUME FifoInv, NEW c \in Control, NEW a, GpRun(c, a), ctrl' = c,
         written' = written, fifo_wptr' = fifo_wptr,
         NEW g \in Nat, goal' = g,
         g # 0 => Len(fed) < g /\ g <= written + 1,
         g # 0 /\ c.read => BpEnabled(c) /\ a = Halves(AddressOf(g)),
         bp_lo' \in 0..(Half - 1), bp_hi' \in Nat,
         pi_wptr' \in Address \union {Off}, home' \in Address,
         pending' \in BOOLEAN, vi' \in BOOLEAN, suspended' \in BOOLEAN,
         unpolled' \in 0..Slack, mode' \in Mode,
         status' \in [over : BOOLEAN, under : BOOLEAN, bp : BOOLEAN]
  PROVE  /\ TypeOK' /\ StreamOrder' /\ StopsThere' /\ goal' <= written' + 1
         /\ g # 0 => AddressOf(g)' = AddressOf(g)
<1>1. /\ fed' \in Seq(Nat) /\ held' \in Seq(Burst) /\ StreamOrder'
      /\ g # 0 => Len(fed') < g /\ AddressOf(g)' = AddressOf(g)
  BY GpRunFact DEF FifoInv
<1>2. TypeOK'
  BY <1>1 DEF FifoInv, TypeOK
<1>3. StopsThere'
  BY <1>1 DEF StopsThere
<1>4. goal' <= written' + 1
  BY <1>2 DEF FifoInv, TypeOK
<1>5. QED
  BY <1>1, <1>2, <1>3, <1>4

\* A write of the control that leaves reading and the breakpoint as they
\* are, when the breakpoint is at rest.
LEMMA ControlStep ==
  ASSUME FifoInv, NEW c \in Control, GpRun(c, BpAddr), ctrl' = c,
         c.read = ctrl.read, c.bp = ctrl.bp, c.link = (pi_wptr' # Off),
         mode \notin Moving, mode' \in Mode, mode' \notin Moving,
         UNCHANGED <<bp_lo, bp_hi, written, goal>>, fifo_wptr' = fifo_wptr,
         pi_wptr' \in Address \union {Off}, home' \in Address,
         pending' \in BOOLEAN, vi' \in BOOLEAN, suspended' \in BOOLEAN,
         unpolled' \in 0..Slack,
         status' \in [over : BOOLEAN, under : BOOLEAN, bp : BOOLEAN]
  PROVE  FifoInv'
<1>1. /\ goal \in Nat /\ goal' = goal
      /\ goal # 0 => Len(fed) < goal /\ goal <= written + 1
      /\ bp_lo' \in 0..(Half - 1) /\ bp_hi' \in Nat
  BY DEF FifoInv, TypeOK, StopsThere, BpSet
<1>2. goal # 0 => ctrl.bp /\ BpAddr = Halves(AddressOf(goal))
  BY DEF FifoInv, BpSet, Moving
<1>3. goal # 0 /\ c.read => BpEnabled(c) /\ BpAddr = Halves(AddressOf(goal))
  BY <1>2 DEF BpEnabled
<1>4. /\ TypeOK' /\ StreamOrder' /\ StopsThere' /\ goal' <= written' + 1
      /\ goal # 0 => AddressOf(goal)' = AddressOf(goal)
  BY <1>1, <1>3, RegisterStep
<1>5. Connected'
  BY DEF FifoInv, Connected
<1>6. BpAddr' = BpAddr
  BY DEF BpAddr
<1>7. BpSet'
  BY <1>1, <1>2, <1>4, <1>6 DEF BpSet, Moving
<1>8. QED
  BY <1>4, <1>5, <1>7 DEF FifoInv

\* The CPU writes a burst.
LEMMA WriteStep == FifoInv /\ Write => FifoInv'
<1>. SUFFICES ASSUME FifoInv, Write PROVE FifoInv'
  OBVIOUS
<1> DEFINE b == [addr |-> pi_wptr, n |-> written + 1]
           all(k) == [i \in 1..k |-> i]
<1>0. /\ TypeOK /\ StreamOrder /\ StopsThere /\ Connected /\ BpSet
      /\ fed \in Seq(Nat) /\ held \in Seq(Burst)
      /\ Len(fed) \in Nat /\ Len(held) \in Nat /\ written \in Nat
      /\ Len(fed) + Len(held) = written /\ goal \in Nat
  BY CountFact DEF FifoInv, TypeOK
<1>1. /\ mode = "thread" /\ pi_wptr # Off /\ written < MaxBursts
      /\ written' = written + 1 /\ pi_wptr' = Advance
      /\ ctrl' = ctrl /\ bp_lo' = bp_lo /\ bp_hi' = bp_hi /\ mode' = mode
      /\ vi' = vi /\ status' = status /\ suspended' = suspended
      /\ goal' = goal /\ home' = home
      /\ unpolled' = IF pending THEN unpolled + 1 ELSE 0
      /\ pending => unpolled < Slack
  BY DEF Write
<1>2. /\ pi_wptr \in Address /\ fifo_wptr = pi_wptr /\ b \in Burst
  BY <1>0, <1>1 DEF TypeOK, Burst, fifo_wptr
<1>3. pi_wptr' \in Address /\ pi_wptr' # Off
  BY <1>1, <1>2, CpFifoAssumption DEF Advance, Address, Off
<1>4. ctrl.read /\ ctrl.link /\ Accept(written + 1)
  BY <1>0, <1>1 DEF Connected, Moving, Write, linked
<1>5. goal # 0 => /\ ctrl.bp /\ BpAddr = Halves(AddressOf(goal))
                  /\ Len(fed) < goal /\ goal <= written + 1
  BY <1>0, <1>1 DEF BpSet, StopsThere, Moving
<1>6. /\ fed' \in Seq(Nat) /\ held' \in Seq(Burst) /\ pending' \in BOOLEAN
      /\ fed' \o Numbers(held') = Append(fed \o Numbers(held), written + 1)
      /\ goal # 0 => Len(fed') < goal /\ AddressOf(goal)' = AddressOf(goal)
  <2>1. CASE held = <<>> /\ ~Stops(b, ctrl, BpAddr)
    <3>1. fed' = Append(fed, written + 1) /\ held' = <<>> /\ pending' = pending
      BY <1>4, <2>1 DEF Accept
    <3>2. Len(held) = 0
      BY <2>1
    <3>3. goal = 0
      <4>1. SUFFICES ASSUME goal # 0 PROVE FALSE
        OBVIOUS
      <4>2. goal = written + 1
        BY <1>0, <1>5, <3>2, <4>1
      <4>3. AddressOf(goal) = pi_wptr
        BY <1>0, <1>2, <4>2 DEF AddressOf
      <4>4. QED
        BY <1>4, <1>5, <2>1, <4>1, <4>3 DEF Stops, BpEnabled
    <3>4. Numbers(<<>>) = <<>>
      <4>1. Numbers(<<>>) \in Seq(Nat) /\ Len(Numbers(<<>>)) = 0
        BY NumbersFact, EmptySeq
      <4>2. QED
        BY <4>1, EmptySeq
    <3>5. fed' \in Seq(Nat) /\ held' \in Seq(Burst)
      BY <1>0, <3>1, AppendProperties
    <3>6. fed \o <<>> = fed /\ fed' \o <<>> = fed'
      BY <1>0, <3>5, ConcatEmptySeq
    <3>7. pending' \in BOOLEAN
      BY <1>0, <3>1 DEF TypeOK
    <3>8. QED
      BY <2>1, <3>1, <3>3, <3>4, <3>5, <3>6, <3>7
  <2>2. CASE ~(held = <<>> /\ ~Stops(b, ctrl, BpAddr))
    <3>1. /\ fed' = fed /\ held' = Append(held, b)
          /\ pending' = (pending \/ bp_reached(held') \/ Overflow(held'))
      BY <1>4, <2>2 DEF Accept
    <3>2. /\ held' \in Seq(Burst) /\ Len(held') = Len(held) + 1
          /\ \A i \in 1..Len(held) : held'[i] = held[i]
          /\ held'[Len(held) + 1] = b
      BY <1>0, <1>2, <3>1, AppendProperties
    <3>3. fed' \o Numbers(held') = Append(fed \o Numbers(held), written + 1)
      BY <1>0, <1>2, <3>1, AppendFact
    <3>4. ASSUME goal # 0
          PROVE  AddressOf(goal)' = AddressOf(goal)
      <4>1. CASE goal <= written
        <5>1. goal - Len(fed) \in 1..Len(held)
          BY <1>0, <1>5, <3>4, <4>1
        <5>2. QED
          BY <1>0, <1>1, <3>1, <3>2, <4>1, <5>1 DEF AddressOf
      <4>2. CASE goal = written + 1
        <5>1. /\ goal - Len(fed) = Len(held) + 1 /\ ~(goal <= written)
              /\ goal <= written'
          BY <1>0, <1>1, <4>2
        <5>2. AddressOf(goal)' = b.addr
          BY <1>1, <3>1, <3>2, <5>1 DEF AddressOf
        <5>3. AddressOf(goal) = pi_wptr
          BY <1>2, <5>1 DEF AddressOf
        <5>4. QED
          BY <5>2, <5>3
      <4>3. QED
        BY <1>0, <1>5, <3>4, <4>1, <4>2
    <3>5. pending' \in BOOLEAN
      BY <1>0, <3>1 DEF TypeOK, bp_reached, Overflow, BpEnabled
    <3>6. QED
      BY <1>0, <1>5, <3>1, <3>2, <3>3, <3>4, <3>5
  <2>3. QED
    BY <2>1, <2>2
<1>7. TypeOK'
  <2>1. written' \in 0..MaxBursts
    BY <1>0, <1>1, CpFifoAssumption
  <2>2. unpolled' \in 0..Slack
    BY <1>0, <1>1, CpFifoAssumption DEF TypeOK
  <2>3. QED
    BY <1>0, <1>1, <1>3, <1>6, <2>1, <2>2 DEF TypeOK
<1>8. StreamOrder'
  <2>1. all(written) \in Seq(Nat) /\ Len(all(written)) = written
    <3>1. all(written) \in [1..written -> Nat] /\ DOMAIN all(written) = 1..written
      OBVIOUS
    <3> HIDE DEF all
    <3>2. all(written) \in Seq(Nat)
      BY <1>0, <3>1, SeqDef
    <3>3. DOMAIN all(written) = 1..Len(all(written)) /\ Len(all(written)) \in Nat
      BY <3>2, LenProperties
    <3>4. QED
      BY <1>0, <3>1, <3>2, <3>3
  <2>2. all(written + 1) \in Seq(Nat) /\ Len(all(written + 1)) = written + 1
    <3>1. /\ all(written + 1) \in [1..(written + 1) -> Nat]
          /\ DOMAIN all(written + 1) = 1..(written + 1)
      OBVIOUS
    <3> HIDE DEF all
    <3>2. all(written + 1) \in Seq(Nat)
      BY <1>0, <3>1, SeqDef
    <3>3. /\ DOMAIN all(written + 1) = 1..Len(all(written + 1))
          /\ Len(all(written + 1)) \in Nat
      BY <3>2, LenProperties
    <3>4. QED
      BY <1>0, <3>1, <3>2, <3>3
  <2>3. /\ \A i \in 1..written : all(written)[i] = i
        /\ \A i \in 1..(written + 1) : all(written + 1)[i] = i
    OBVIOUS
  <2>4. fed \o Numbers(held) = all(written)
    BY <1>0 DEF StreamOrder
  <2> HIDE DEF all
  <2>5. Append(all(written), written + 1) = all(written + 1)
    <3> DEFINE longer == Append(all(written), written + 1)
    <3>1. /\ longer \in Seq(Nat) /\ Len(longer) = written + 1
          /\ \A i \in 1..written : longer[i] = all(written)[i]
          /\ longer[written + 1] = written + 1
      BY <1>0, <2>1, AppendProperties
    <3> HIDE DEF longer
    <3>2. ASSUME NEW i \in 1..(written + 1)
          PROVE  longer[i] = all(written + 1)[i]
      <4>1. CASE i = written + 1
        BY <2>3, <3>1, <4>1
      <4>2. CASE i \in 1..written
        BY <2>3, <3>1, <4>2
      <4>. QED
        BY <1>0, <4>1, <4>2
    <3>3. /\ all(written + 1) \in Seq(Nat)
          /\ Len(longer) = Len(all(written + 1))
      BY <2>2, <3>1
    <3>4. \A i \in 1..Len(longer) : longer[i] = all(written + 1)[i]
      BY <3>1, <3>2
    <3>5. longer = all(written + 1)
      BY <3>1, <3>3, <3>4, SeqEqual
    <3>. QED
      BY <3>5 DEF longer
  <2>6. fed' \o Numbers(held') = all(written')
    BY <1>1, <1>6, <2>4, <2>5
  <2>7. QED
    BY <2>6 DEF StreamOrder, all
<1>9. StopsThere'
  BY <1>1, <1>6 DEF StopsThere
<1>10. Connected'
  BY <1>0, <1>1, <1>3 DEF Connected
<1>11. BpSet'
  <2>1. BpAddr' = BpAddr
    BY <1>1 DEF BpAddr
  <2>2. goal' <= written' + 1
    BY <1>0, <1>1 DEF BpSet
  <2>3. QED
    BY <1>0, <1>1, <1>5, <1>6, <2>1, <2>2 DEF BpSet, Moving
<1>12. QED
  BY <1>7, <1>8, <1>9, <1>10, <1>11 DEF FifoInv

\* The pipe is redirected and restored.
LEMMA PipeStep == FifoInv /\ (Redirect \/ Restore) => FifoInv'
<1>1. FifoInv => /\ ctrl \in Control /\ home \in Address /\ Slack \in 0..Slack
                 /\ pi_wptr \in Address \union {Off} /\ "thread" \in Mode
                 /\ vi \in BOOLEAN /\ suspended \in BOOLEAN
                 /\ status \in [over : BOOLEAN, under : BOOLEAN, bp : BOOLEAN]
  BY CpFifoAssumption DEF FifoInv, TypeOK, Mode
<1>2. FifoInv => home # Off
  BY CpFifoAssumption DEF FifoInv, TypeOK, Address, Off
<1>3. ASSUME FifoInv, Redirect
      PROVE  FifoInv'
  <2> DEFINE c == [ctrl EXCEPT !.link = FALSE, !.over_int = FALSE, !.under_int = FALSE]
  <2>1. /\ c \in Control /\ c.read = ctrl.read /\ c.bp = ctrl.bp /\ c.link = FALSE
    BY <1>1, <1>3 DEF Control
  <2>2. ctrl' = c /\ GpRun(c, BpAddr)
    BY <1>3 DEF Redirect
  <2> HIDE DEF c
  <2>3. pi_wptr' = Off /\ home' = pi_wptr /\ home' \in Address /\ fifo_wptr' = fifo_wptr
    BY <1>1, <1>3 DEF Redirect, fifo_wptr
  <2>4. /\ mode \notin Moving /\ mode' \notin Moving /\ mode' = "thread"
        /\ unpolled' = Slack /\ pending' = TRUE
        /\ UNCHANGED <<bp_lo, bp_hi, written, goal, vi, suspended, status>>
    BY <1>3 DEF Redirect, Moving
  <2>5. QED
    BY <1>1, <1>3, <2>1, <2>2, <2>3, <2>4, ControlStep
<1>4. ASSUME FifoInv, Restore
      PROVE  FifoInv'
  <2> DEFINE c == [ctrl EXCEPT !.link = TRUE, !.over_int = TRUE]
  <2>1. /\ c \in Control /\ c.read = ctrl.read /\ c.bp = ctrl.bp /\ c.link = TRUE
    BY <1>1, <1>4 DEF Control
  <2>2. ctrl' = c /\ GpRun(c, BpAddr)
    BY <1>4 DEF Restore
  <2> HIDE DEF c
  <2>3. /\ pi_wptr' = home /\ home' = home /\ pi_wptr' # Off
        /\ fifo_wptr' = fifo_wptr
    BY <1>1, <1>2, <1>4 DEF Restore, fifo_wptr
  <2>4. /\ mode \notin Moving /\ mode' \notin Moving /\ mode' = "thread"
        /\ unpolled' = Slack /\ pending' = TRUE
        /\ UNCHANGED <<bp_lo, bp_hi, written, goal, vi, suspended, status>>
    BY <1>4 DEF Restore, Moving
  <2>5. QED
    BY <1>1, <1>4, <2>1, <2>2, <2>3, <2>4, ControlStep
<1>5. QED
  BY <1>3, <1>4

\* Polls, retraces, and a handler's steps that write nothing.
LEMMA QuietSteps ==
  FifoInv /\ (Poll \/ Retrace \/ HandlerReads \/ LeaveAlone) => FifoInv'
<1>. SUFFICES ASSUME FifoInv, Poll \/ Retrace \/ HandlerReads \/ LeaveAlone
              PROVE  FifoInv'
  OBVIOUS
<1>1. /\ 0 \in 0..Slack /\ mode \in Mode /\ unpolled \in 0..Slack
      /\ pending \in BOOLEAN /\ vi \in BOOLEAN /\ suspended \in BOOLEAN
      /\ status \in [over : BOOLEAN, under : BOOLEAN, bp : BOOLEAN]
  BY CpFifoAssumption DEF FifoInv, TypeOK
<1>2. CASE Poll
  <2>1. /\ UNCHANGED <<fifo, goal, home, suspended, status>>
        /\ mode \notin Moving /\ mode' \notin Moving /\ mode' \in Mode
        /\ pending' \in BOOLEAN /\ vi' \in BOOLEAN /\ unpolled' = 0
    BY <1>1, <1>2 DEF Poll, PollNothing, DeliverCp, DeliverVi, Moving, Mode
  <2>2. QED
    BY <1>1, <2>1, QuietStep
<1>3. CASE Retrace
  <2>1. /\ suspended' = suspended /\ status' = status /\ unpolled' = unpolled
        /\ mode' = mode /\ pending' = TRUE /\ vi' = TRUE
    BY <1>3 DEF Retrace
  <2>2. UNCHANGED <<fifo, goal, home>>
    BY <1>3 DEF Retrace
  <2>3. mode' = mode \/ (mode \notin Moving /\ mode' \notin Moving)
    BY <2>1
  <2>4. mode' \in Mode
    BY <1>1, <2>1
  <2>5. /\ pending' \in BOOLEAN /\ vi' \in BOOLEAN /\ suspended' \in BOOLEAN
        /\ unpolled' \in 0..Slack
    BY <1>1, <2>1
  <2>6. status' \in [over : BOOLEAN, under : BOOLEAN, bp : BOOLEAN]
    BY <1>1, <2>1
  <2>7. QED
    BY <2>2, <2>3, <2>4, <2>5, <2>6, QuietStep
<1>4. CASE HandlerReads
  <2>1. /\ UNCHANGED <<fifo, goal, home, suspended, unpolled, pending, vi>>
        /\ mode \notin Moving /\ mode' \notin Moving /\ mode' \in Mode
    BY <1>4 DEF HandlerReads, Moving, Mode
  <2>2. status' \in [over : BOOLEAN, under : BOOLEAN, bp : BOOLEAN]
    <3>1. /\ Overflow(held) \in BOOLEAN /\ Underflow(held) \in BOOLEAN
          /\ bp_reached(held) \in BOOLEAN
      BY DEF Overflow, Underflow, bp_reached
    <3>2. status' = [over |-> Overflow(held), under |-> Underflow(held),
                     bp |-> bp_reached(held)]
      BY <1>4 DEF HandlerReads
    <3>3. QED
      BY <3>1, <3>2
  <2>3. QED
    BY <1>1, <2>1, <2>2, QuietStep
<1>5. CASE LeaveAlone
  <2>1. /\ UNCHANGED <<fifo, goal, home, suspended, status, unpolled, pending, vi>>
        /\ mode \notin Moving /\ mode' \notin Moving /\ mode' \in Mode
    BY <1>5 DEF LeaveAlone, Moving, Mode
  <2>2. QED
    BY <1>1, <2>1, QuietStep
<1>6. QED
  BY <1>2, <1>3, <1>4, <1>5

\* The handler's writes of the control: reading, the breakpoint and the link
\* stay as they are.
LEMMA HandlerStep ==
  FifoInv /\ (HandlerUnder \/ HandlerOver \/ HandlerBreak) => FifoInv'
<1>. SUFFICES ASSUME FifoInv, HandlerUnder \/ HandlerOver \/ HandlerBreak
              PROVE  FifoInv'
  OBVIOUS
<1>1. /\ ctrl \in Control /\ bp_lo \in 0..(Half - 1) /\ bp_hi \in Nat
      /\ pi_wptr \in Address \union {Off} /\ home \in Address
      /\ unpolled \in 0..Slack
      /\ pending \in BOOLEAN /\ vi \in BOOLEAN /\ suspended \in BOOLEAN
      /\ status \in [over : BOOLEAN, under : BOOLEAN, bp : BOOLEAN]
      /\ ctrl.link = (pi_wptr # Off)
  BY DEF FifoInv, TypeOK, Connected
<1>2. /\ UNCHANGED <<vi, unpolled, status, goal, home>>
      /\ mode \notin Moving /\ mode' \notin Moving /\ mode' \in Mode
  BY DEF HandlerUnder, HandlerOver, HandlerBreak, Moving, Mode
<1>3. \/ UNCHANGED <<fifo, pending, suspended>>
      \/ /\ suspended' \in BOOLEAN
         /\ \E c \in Control : /\ WriteControl(c)
                               /\ c.read = ctrl.read /\ c.bp = ctrl.bp
                               /\ c.link = ctrl.link
  <2> DEFINE under == [ctrl EXCEPT !.under_int = FALSE, !.over_int = TRUE]
             over == [ctrl EXCEPT !.under_int = TRUE, !.over_int = FALSE]
             break == [ctrl EXCEPT !.bp_int = FALSE]
             same(c) == c.read = ctrl.read /\ c.bp = ctrl.bp /\ c.link = ctrl.link
  <2>1. /\ under \in Control /\ over \in Control /\ break \in Control
        /\ same(under) /\ same(over) /\ same(break)
    BY <1>1 DEF Control
  <2>2. \/ UNCHANGED <<fifo, pending, suspended>>
        \/ suspended' = FALSE /\ WriteControl(under)
        \/ suspended' = TRUE /\ WriteControl(over)
        \/ suspended' = suspended /\ WriteControl(break)
    BY DEF HandlerUnder, HandlerOver, HandlerBreak
  <2> HIDE DEF under, over, break
  <2>3. QED
    BY <1>1, <2>1, <2>2
<1>4. CASE UNCHANGED <<fifo, pending, suspended>>
  BY <1>1, <1>2, <1>4, QuietStep
<1>5. CASE /\ suspended' \in BOOLEAN
           /\ \E c \in Control : /\ WriteControl(c)
                                 /\ c.read = ctrl.read /\ c.bp = ctrl.bp
                                 /\ c.link = ctrl.link
  <2>1. PICK c \in Control : /\ WriteControl(c)
                             /\ c.read = ctrl.read /\ c.bp = ctrl.bp
                             /\ c.link = ctrl.link
    BY <1>5
  <2>2. /\ GpRun(c, BpAddr) /\ ctrl' = c /\ pending' = TRUE
        /\ UNCHANGED <<bp_lo, bp_hi, pi_wptr, written>>
    BY <2>1 DEF WriteControl
  <2>3. fifo_wptr' = fifo_wptr /\ c.link = (pi_wptr' # Off)
    BY <1>1, <1>2, <2>1, <2>2 DEF fifo_wptr
  <2>4. QED
    BY <1>1, <1>2, <1>5, <2>1, <2>2, <2>3, ControlStep
<1>6. QED
  BY <1>3, <1>4, <1>5

\* The callback moves the breakpoint or clears it.
LEMMA MoveStep == FifoInv /\ (MoveStarts \/ MoveGoesOn \/ Clear) => FifoInv'
<1>. SUFFICES ASSUME FifoInv, MoveStarts \/ MoveGoesOn \/ Clear
              PROVE  FifoInv'
  OBVIOUS
<1>1. /\ ctrl \in Control /\ bp_lo \in 0..(Half - 1) /\ bp_hi \in Nat
      /\ pi_wptr \in Address \union {Off} /\ home \in Address
      /\ unpolled \in 0..Slack /\ TRUE \in BOOLEAN
      /\ vi \in BOOLEAN /\ suspended \in BOOLEAN
      /\ status \in [over : BOOLEAN, under : BOOLEAN, bp : BOOLEAN]
      /\ TypeOK /\ StreamOrder
      /\ ctrl.read = (mode \notin Moving) /\ ctrl.link = (pi_wptr # Off)
      /\ goal \in Nat /\ 0 \in Nat
      /\ Len(fed) \in Nat /\ written \in Nat
      /\ goal # 0 => Len(fed) < goal /\ goal <= written + 1
  BY CountFact DEF FifoInv, TypeOK, Connected, StopsThere, BpSet
<1>2. /\ UNCHANGED <<vi, unpolled, status, suspended, home, pi_wptr, written>>
      /\ pending' = TRUE /\ mode' \in Mode
  BY DEF MoveStarts, MoveGoesOn, MoveLo, MoveHi, MoveBp, MoveOn, Clear,
         WriteControl, WriteBpLo, WriteBpHi, Mode
<1>3. /\ fifo_wptr' = fifo_wptr /\ pi_wptr' \in Address \union {Off}
      /\ home' \in Address /\ pending' \in BOOLEAN /\ vi' \in BOOLEAN
      /\ suspended' \in BOOLEAN /\ unpolled' \in 0..Slack
      /\ status' \in [over : BOOLEAN, under : BOOLEAN, bp : BOOLEAN]
  BY <1>1, <1>2 DEF fifo_wptr
<1>4. goal # 0 => Halves(AddressOf(goal))[1] \in Nat
                  /\ Halves(AddressOf(goal))[2] \in 0..(Half - 1)
                  /\ Halves(AddressOf(goal))
                       = <<Halves(AddressOf(goal))[1], Halves(AddressOf(goal))[2]>>
  BY <1>1, AddressFact, HalvesFact
<1>5. CASE MoveStarts
  <2> DEFINE c == [ctrl EXCEPT !.read = FALSE]
  <2>1. /\ c \in Control /\ c.read = FALSE /\ c.link = ctrl.link
    BY <1>1 DEF Control
  <2>2. /\ ctrl' = c /\ GpRun(c, BpAddr) /\ UNCHANGED <<bp_lo, bp_hi>>
        /\ mode' = "move_lo"
    BY <1>5 DEF MoveStarts, WriteControl
  <2> HIDE DEF c
  <2>3. PICK g \in (Len(fed) + 1)..(written + 1) : goal' = g
    BY <1>5 DEF MoveStarts
  <2>4. /\ g \in Nat /\ goal' = g /\ g # 0 /\ Len(fed) < g /\ g <= written + 1
        /\ bp_lo' \in 0..(Half - 1) /\ bp_hi' \in Nat
    BY <1>1, <2>2, <2>3
  <2>5. /\ TypeOK' /\ StreamOrder' /\ StopsThere' /\ goal' <= written' + 1
    BY <1>2, <1>3, <2>1, <2>2, <2>4, RegisterStep
  <2>6. Connected'
    BY <1>1, <1>2, <2>1, <2>2 DEF Connected, Moving
  <2>7. BpSet'
    BY <2>2, <2>4, <2>5 DEF BpSet, Moving
  <2>8. QED
    BY <2>5, <2>6, <2>7 DEF FifoInv
<1>6. CASE MoveLo
  <2> DEFINE v == Halves(AddressOf(goal))[2]
  <2>1. /\ mode = "move_lo" /\ mode' = "move_hi" /\ ctrl' = ctrl /\ bp_lo' = v
        /\ bp_hi' = bp_hi /\ goal' = goal /\ GpRun(ctrl, <<bp_hi, v>>)
    BY <1>6 DEF MoveLo, WriteBpLo
  <2>2. goal # 0 /\ ~ctrl.read
    BY <1>1, <2>1 DEF FifoInv, BpSet, Moving
  <2>3. v \in 0..(Half - 1)
    BY <1>4, <2>2
  <2> HIDE DEF v
  <2>4. /\ TypeOK' /\ StreamOrder' /\ StopsThere' /\ goal' <= written' + 1
        /\ AddressOf(goal)' = AddressOf(goal)
    BY <1>1, <1>2, <1>3, <2>1, <2>2, <2>3, RegisterStep
  <2>5. Connected'
    BY <1>1, <1>2, <2>1 DEF Connected, Moving
  <2>6. BpSet'
    BY <2>1, <2>2, <2>4 DEF BpSet, Moving, v
  <2>7. QED
    BY <2>4, <2>5, <2>6 DEF FifoInv
<1>7. CASE MoveHi
  <2> DEFINE v == Halves(AddressOf(goal))[1]
  <2>1. /\ mode = "move_hi" /\ mode' = "move_bp" /\ ctrl' = ctrl /\ bp_hi' = v
        /\ bp_lo' = bp_lo /\ goal' = goal /\ GpRun(ctrl, <<v, bp_lo>>)
    BY <1>7 DEF MoveHi, WriteBpHi
  <2>2. /\ goal # 0 /\ ~ctrl.read /\ bp_lo = Halves(AddressOf(goal))[2]
    BY <1>1, <2>1 DEF FifoInv, BpSet, Moving
  <2>3. v \in Nat /\ <<v, bp_lo>> = Halves(AddressOf(goal))
    BY <1>4, <2>2
  <2> HIDE DEF v
  <2>4. /\ TypeOK' /\ StreamOrder' /\ StopsThere' /\ goal' <= written' + 1
        /\ AddressOf(goal)' = AddressOf(goal)
    BY <1>1, <1>2, <1>3, <2>1, <2>2, <2>3, RegisterStep
  <2>5. Connected'
    BY <1>1, <1>2, <2>1 DEF Connected, Moving
  <2>6. BpAddr' = Halves(AddressOf(goal))
    BY <2>1, <2>3 DEF BpAddr
  <2>7. BpSet'
    BY <2>1, <2>2, <2>4, <2>6 DEF BpSet, Moving
  <2>8. QED
    BY <2>4, <2>5, <2>7 DEF FifoInv
<1>8. CASE MoveBp
  <2> DEFINE c == [ctrl EXCEPT !.bp = TRUE, !.bp_int = TRUE]
  <2>1. /\ c \in Control /\ c.bp /\ c.read = ctrl.read /\ c.link = ctrl.link
    BY <1>1 DEF Control
  <2>2. /\ mode = "move_bp" /\ mode' = "move_on" /\ goal' = goal
        /\ ctrl' = c /\ GpRun(c, BpAddr) /\ UNCHANGED <<bp_lo, bp_hi>>
    BY <1>8 DEF MoveBp, WriteControl
  <2>3. goal # 0 /\ ~ctrl.read /\ BpAddr = Halves(AddressOf(goal))
    BY <1>1, <2>2 DEF FifoInv, BpSet, Moving
  <2> HIDE DEF c
  <2>4. /\ TypeOK' /\ StreamOrder' /\ StopsThere' /\ goal' <= written' + 1
        /\ AddressOf(goal)' = AddressOf(goal)
    BY <1>1, <1>2, <1>3, <2>1, <2>2, <2>3, RegisterStep
  <2>5. Connected'
    BY <1>1, <1>2, <2>1, <2>2 DEF Connected, Moving
  <2>6. BpAddr' = BpAddr
    BY <2>2 DEF BpAddr
  <2>7. BpSet'
    BY <2>1, <2>2, <2>3, <2>4, <2>6 DEF BpSet, Moving
  <2>8. QED
    BY <2>4, <2>5, <2>7 DEF FifoInv
<1>9. CASE MoveOn
  <2> DEFINE c == [ctrl EXCEPT !.read = TRUE]
  <2>1. /\ c \in Control /\ c.read = TRUE /\ c.bp = ctrl.bp /\ c.link = ctrl.link
    BY <1>1 DEF Control
  <2>2. /\ mode = "move_on" /\ mode' = "poll" /\ goal' = goal
        /\ ctrl' = c /\ GpRun(c, BpAddr) /\ UNCHANGED <<bp_lo, bp_hi>>
    BY <1>9 DEF MoveOn, WriteControl
  <2>3. goal # 0 /\ ctrl.bp /\ BpAddr = Halves(AddressOf(goal))
    BY <2>2 DEF FifoInv, BpSet, Moving
  <2> HIDE DEF c
  <2>4. BpEnabled(c)
    BY <2>1, <2>3 DEF BpEnabled
  <2>5. /\ TypeOK' /\ StreamOrder' /\ StopsThere' /\ goal' <= written' + 1
        /\ AddressOf(goal)' = AddressOf(goal)
    BY <1>1, <1>2, <1>3, <2>1, <2>2, <2>3, <2>4, RegisterStep
  <2>6. Connected'
    BY <1>1, <1>2, <2>1, <2>2 DEF Connected, Moving
  <2>7. BpAddr' = BpAddr
    BY <2>2 DEF BpAddr
  <2>8. BpSet'
    BY <2>1, <2>2, <2>3, <2>5, <2>7 DEF BpSet, Moving
  <2>9. QED
    BY <2>5, <2>6, <2>8 DEF FifoInv
<1>10. CASE Clear
  <2> DEFINE c == [ctrl EXCEPT !.bp = FALSE, !.bp_int = FALSE]
  <2>1. /\ c \in Control /\ c.read = ctrl.read /\ c.link = ctrl.link
    BY <1>1 DEF Control
  <2>2. /\ mode = "vi" /\ mode' = "poll" /\ goal' = 0
        /\ ctrl' = c /\ GpRun(c, BpAddr) /\ UNCHANGED <<bp_lo, bp_hi>>
    BY <1>10 DEF Clear, WriteControl
  <2> HIDE DEF c
  <2>3. /\ TypeOK' /\ StreamOrder' /\ StopsThere' /\ goal' <= written' + 1
    BY <1>1, <1>2, <1>3, <2>1, <2>2, RegisterStep
  <2>4. Connected'
    BY <1>1, <1>2, <2>1, <2>2 DEF Connected, Moving
  <2>5. BpSet'
    BY <2>2, <2>3 DEF BpSet, Moving
  <2>6. QED
    BY <2>3, <2>4, <2>5 DEF FifoInv
<1>11. QED
  BY <1>5, <1>6, <1>7, <1>8, <1>9, <1>10 DEF MoveGoesOn

\* Every step keeps the invariant.
THEOREM FifoInvariant == Spec => []FifoInv
<1>1. FifoInv /\ [Next]_vars => FifoInv'
  <2>. SUFFICES ASSUME FifoInv, [Next]_vars PROVE FifoInv'
    OBVIOUS
  <2>1. CASE ThreadStep
    BY <2>1, WriteStep, PipeStep DEF ThreadStep
  <2>2. CASE Poll \/ Retrace \/ HandlerReads \/ LeaveAlone
    BY <2>2, QuietSteps
  <2>3. CASE HandlerUnder \/ HandlerOver \/ HandlerBreak
    BY <2>3, HandlerStep
  <2>4. CASE MoveStarts \/ MoveGoesOn \/ Clear
    BY <2>4, MoveStep
  <2>5. CASE UNCHANGED vars
    <3>1. /\ UNCHANGED <<fifo, goal, home>> /\ mode' = mode
          /\ pending' = pending /\ vi' = vi /\ suspended' = suspended
          /\ unpolled' = unpolled /\ status' = status
      BY <2>5 DEF vars, client
    <3>2. /\ mode' \in Mode /\ pending' \in BOOLEAN /\ vi' \in BOOLEAN
          /\ suspended' \in BOOLEAN /\ unpolled' \in 0..Slack
          /\ status' \in [over : BOOLEAN, under : BOOLEAN, bp : BOOLEAN]
      BY <3>1 DEF FifoInv, TypeOK
    <3>3. QED
      BY <3>1, <3>2, QuietStep
  <2>6. QED
    BY <2>1, <2>2, <2>3, <2>4, <2>5 DEF Next, Handler
<1>2. QED
  BY InitInv, <1>1, PTL DEF Spec

\* The state stays within its types: the write pointer in the FIFO, the
\* guest's burst between two polls within the slack.
THEOREM TypeCorrect == Spec => []TypeOK
<1>1. FifoInv => TypeOK
  BY DEF FifoInv
<1>2. QED
  BY FifoInvariant, <1>1, PTL

\* The GP gets the bursts the CPU writes, all, once and in order (gx_pipe_burst,
\* gp_run), whatever the FIFO's size and wherever breakpoints are put.
THEOREM InOrder == Spec => []StreamOrder
<1>1. FifoInv => StreamOrder
  BY DEF FifoInv
<1>2. QED
  BY FifoInvariant, <1>1, PTL

\* The GP does not pass the burst the game's breakpoint is meant for, while the
\* registers' halves are written and when the FIFO comes round (bp_addr,
\* gp_run, gx_cp_write).
THEOREM HeldAtBreakpoint == Spec => []StopsThere
<1>1. FifoInv => StopsThere
  BY DEF FifoInv
<1>2. QED
  BY FifoInvariant, <1>1, PTL

-----------------------------------------------------------------------------
(* What the flow of bursts needs besides: which interrupt is waited for,   *)
(* how much may be held, and where in the ring it lies.                    *)

\* Either the overflow is waited for or the underflow, and neither while the
\* pipe is redirected; a breakpoint that is not meant is not enabled.
Interrupts ==
  /\ ctrl.under_int = suspended
  /\ ctrl.over_int = (pi_wptr # Off /\ ~suspended)
  /\ suspended => pi_wptr # Off
  /\ goal = 0 => ~ctrl.bp

\* GX's thread gets at most one burst past the high watermark, and those up
\* to its poll; it is suspended before it can write more.
Writes == mode = "thread" /\ pi_wptr # Off /\ ~suspended
Room ==
  /\ Len(held) <= HighMark + 1 + Slack
  /\ Writes => Len(held) <= HighMark + 1 + unpolled

\* The address that is d bursts before a, round at the FIFO's start
Before(a, d) == IF d <= a THEN a - d ELSE a + Size - d

\* What is held lies in the FIFO in a row, up to the write pointer.
Ring ==
  \A i \in 1..Len(held) : held[i].addr = Before(fifo_wptr, Len(held) - i + 1)

FlowInv ==
  FifoInv /\ Interrupts /\ Room /\ Ring /\ LineRaised /\ StopsOnlyThere

-----------------------------------------------------------------------------
(* Addresses.                                                              *)

\* The halves of an address tell it from every other.
LEMMA HalvesDiffer ==
  ASSUME NEW a \in Nat, NEW b \in Nat, Halves(a) = Halves(b)
  PROVE  a = b
<1>1. Half \in Nat \ {0}
  BY CpFifoAssumption
<1>2. a \div Half = b \div Half /\ a % Half = b % Half
  BY DEF Halves
<1>3. a = Half * (a \div Half) + (a % Half)
  BY <1>1
<1>4. b = Half * (b \div Half) + (b % Half)
  BY <1>1
<1>5. Half * (a \div Half) = Half * (b \div Half)
  BY <1>2
<1>6. QED
  BY <1>2, <1>3, <1>4, <1>5, Zenon

\* Fewer than the FIFO's size back, addresses differ.
LEMMA BeforeDiffers ==
  ASSUME NEW a \in Address, NEW d \in 0..(Size - 1), NEW e \in 0..(Size - 1),
         Before(a, d) = Before(a, e)
  PROVE  d = e
BY CpFifoAssumption DEF Address, Before

\* The number of a held burst is its place in the stream.
LEMMA HeldNumber ==
  ASSUME TypeOK, StreamOrder, NEW i \in 1..Len(held)
  PROVE  held[i].n = Len(fed) + i
<1> DEFINE all == [j \in 1..written |-> j]
           nums == Numbers(held)
<1>1. /\ fed \in Seq(Nat) /\ held \in Seq(Burst)
      /\ Len(fed) \in Nat /\ Len(held) \in Nat /\ written \in Nat
      /\ Len(fed) + Len(held) = written
  BY CountFact DEF TypeOK
<1>2. nums \in Seq(Nat) /\ Len(nums) = Len(held) /\ nums[i] = held[i].n
  BY <1>1, NumbersFact
<1>3. fed \o nums = all
  BY DEF StreamOrder
<1> HIDE DEF nums
<1>4. Len(fed) + i \in 1..written
  BY <1>1
<1>5. (fed \o nums)[Len(fed) + i] = nums[Len(fed) + i - Len(fed)]
  BY <1>1, <1>2, ConcatProperties
<1>6. Len(fed) + i - Len(fed) = i
  BY <1>1
<1>7. all[Len(fed) + i] = Len(fed) + i
  BY <1>4
<1>8. QED
  BY <1>2, <1>3, <1>5, <1>6, <1>7

\* A breakpoint at rest stops the GP at the burst it is meant for: no other
\* that is held is at its address, although addresses recur.
LEMMA StopsAtGoal ==
  ASSUME FifoInv, Ring, Room, goal # 0, BpAddr = Halves(AddressOf(goal)),
         NEW i \in 1..Len(held), Halves(held[i].addr) = BpAddr
  PROVE  held[i].n = goal
<1>1. /\ TypeOK /\ StreamOrder /\ held \in Seq(Burst)
      /\ Len(fed) \in Nat /\ Len(held) \in Nat /\ written \in Nat
      /\ Len(fed) + Len(held) = written /\ goal \in Nat
      /\ Len(fed) < goal /\ goal <= written + 1
  BY CountFact DEF FifoInv, TypeOK, StopsThere, BpSet
<1>2. fifo_wptr \in Address /\ Len(held) <= Size - 1
  <2>1. fifo_wptr \in Address
    BY <1>1 DEF TypeOK, fifo_wptr
  <2>2. Len(held) <= HighMark + 1 + Slack
    BY DEF Room
  <2>3. QED
    BY <1>1, <2>1, <2>2, CpFifoAssumption
<1>3. held[i].addr \in Nat
  <2>1. held[i] \in Burst
    BY <1>1, LenProperties
  <2>2. held[i].addr \in Address
    BY <2>1 DEF Burst
  <2>3. QED
    BY <2>2, CpFifoAssumption DEF Address
<1>4. AddressOf(goal) \in Nat
  BY <1>1, AddressFact DEF Address
<1>5. held[i].addr = AddressOf(goal)
  BY <1>3, <1>4, HalvesDiffer
<1> DEFINE d == Len(held) - i + 1
           e == written - goal + 1
<1>6. d \in 0..(Size - 1) /\ e \in 0..(Size - 1)
  BY <1>1, <1>2, CpFifoAssumption
<1>7. AddressOf(goal) = Before(fifo_wptr, e)
  <2>1. CASE goal <= written
    <3>1. goal - Len(fed) \in 1..Len(held)
      BY <1>1, <2>1
    <3>2. held[goal - Len(fed)].addr = Before(fifo_wptr, Len(held) - (goal - Len(fed)) + 1)
      BY <3>1 DEF Ring
    <3>3. Len(held) - (goal - Len(fed)) + 1 = e
      BY <1>1
    <3>4. QED
      BY <2>1, <3>2, <3>3 DEF AddressOf
  <2>2. CASE ~(goal <= written)
    <3>1. e = 0
      BY <1>1, <2>2
    <3>2. Before(fifo_wptr, 0) = fifo_wptr
      BY <1>2 DEF Before, Address
    <3>3. QED
      BY <2>2, <3>1, <3>2 DEF AddressOf
  <2>3. QED
    BY <2>1, <2>2
<1>8. held[i].addr = Before(fifo_wptr, d)
  BY DEF Ring
<1> HIDE DEF d, e
<1>9. d = e
  BY <1>2, <1>5, <1>6, <1>7, <1>8, BeforeDiffers
<1>10. Len(fed) + i = goal
  BY <1>1, <1>9 DEF d, e
<1>11. QED
  BY <1>1, <1>10, HeldNumber

-----------------------------------------------------------------------------
(* Writes of the CP's registers.                                           *)

\* As the GP goes on, what stays held is the end of what was; and when it
\* may read, it stops at the breakpoint.
LEMMA GoesOn ==
  ASSUME FifoInv, Ring, NEW c \in Control, NEW a, GpRun(c, a),
         fifo_wptr' = fifo_wptr
  PROVE  /\ Ring' /\ Len(held') \in Nat /\ Len(held') <= Len(held)
         /\ c.read /\ held' # <<>> =>
              \E i \in 1..Len(held) : Stops(held[i], c, a) /\ Head(held') = held[i]
<1>1. held \in Seq(Burst) /\ Len(held) \in Nat
  BY LenProperties DEF FifoInv, TypeOK
<1>2. CASE ~c.read
  BY <1>1, <1>2 DEF GpRun, Ring
<1>3. CASE c.read
  <2>1. PICK k \in 0..Len(held) :
          /\ k < Len(held) => Stops(held[k + 1], c, a)
          /\ held' = SubSeq(held, k + 1, Len(held))
    BY <1>3 DEF GpRun
  <2>2. /\ Len(held') = Len(held) - k
        /\ \A m \in 1..(Len(held) - k) : held'[m] = held[k + m]
    <3>1. \A m \in 1..Len(held) : held[m] \in Burst
      BY <1>1, LenProperties
    <3>2. k + 1 \in Int /\ \A m \in (k + 1)..Len(held) : held[m] \in Burst
      BY <1>1, <3>1
    <3>3. CASE k < Len(held)
      BY <1>1, <2>1, <3>2, <3>3, SubSeqProperties
    <3>4. CASE k = Len(held)
      BY <1>1, <2>1, <3>4, SubSeqProperties
    <3>5. QED
      BY <1>1, <3>3, <3>4
  <2>3. Ring'
    <3>1. SUFFICES ASSUME NEW m \in 1..Len(held')
                   PROVE  held'[m].addr = Before(fifo_wptr', Len(held') - m + 1)
      BY DEF Ring
    <3>2. /\ k + m \in 1..Len(held) /\ held'[m] = held[k + m]
          /\ Len(held) - (k + m) + 1 = Len(held') - m + 1
      BY <1>1, <2>2
    <3>3. held[k + m].addr = Before(fifo_wptr, Len(held) - (k + m) + 1)
      BY <3>2 DEF Ring
    <3>4. QED
      BY <3>2, <3>3
  <2>4. ASSUME held' # <<>>
        PROVE  \E i \in 1..Len(held) : Stops(held[i], c, a) /\ Head(held') = held[i]
    <3>1. held' \in Seq(Burst)
      BY <1>1, <2>1, SubSeqProperties, LenProperties
    <3>2. Len(held') # 0 /\ Head(held') = held'[1]
      BY <2>4, <3>1, EmptySeq, HeadTailProperties
    <3>3. k < Len(held) /\ k + 1 \in 1..Len(held) /\ held'[1] = held[k + 1]
      BY <1>1, <2>2, <3>2
    <3>4. QED
      BY <2>1, <3>2, <3>3
  <2>5. QED
    BY <1>1, <2>2, <2>3, <2>4
<1>4. QED
  BY <1>2, <1>3

\* A step that writes a register of the CP: the line is told, and the GP is
\* where the registers let it go.
LEMMA FlowRegister ==
  ASSUME FlowInv, FifoInv', NEW c \in Control, NEW a, GpRun(c, a), ctrl' = c,
         fifo_wptr' = fifo_wptr, pending' = TRUE, Interrupts',
         mode' # "thread" \/ pi_wptr' = Off \/ unpolled' = Slack,
         c.read /\ c.bp => /\ goal # 0 /\ goal' = goal
                           /\ BpAddr = Halves(AddressOf(goal)) /\ a = BpAddr
  PROVE  FlowInv'
<1>0. FifoInv /\ Room /\ Ring
  BY DEF FlowInv
<1>1. /\ Ring' /\ Len(held') \in Nat /\ Len(held') <= Len(held)
      /\ c.read /\ held' # <<>> =>
           \E i \in 1..Len(held) : Stops(held[i], c, a) /\ Head(held') = held[i]
  BY <1>0, GoesOn
<1>2. Room'
  <2>1. Len(held) \in Nat /\ Len(held) <= HighMark + 1 + Slack
    BY <1>0, LenProperties DEF FifoInv, TypeOK, Room
  <2>2. Len(held') <= HighMark + 1 + Slack
    BY <1>1, <2>1, CpFifoAssumption
  <2>3. QED
    BY <2>2 DEF Room, Writes
<1>3. LineRaised'
  BY DEF LineRaised
<1>4. StopsOnlyThere'
  <2>1. SUFFICES ASSUME held' # <<>>, c.read
                 PROVE  c.bp /\ Head(held').n = goal'
    BY DEF StopsOnlyThere
  <2>2. PICK i \in 1..Len(held) : Stops(held[i], c, a) /\ Head(held') = held[i]
    BY <1>1, <2>1
  <2>3. c.bp /\ Halves(held[i].addr) = a
    BY <2>2 DEF Stops, BpEnabled
  <2>4. held[i].n = goal
    BY <1>0, <2>1, <2>3, StopsAtGoal
  <2>5. QED
    BY <2>1, <2>2, <2>3, <2>4
<1>5. QED
  BY <1>1, <1>2, <1>3, <1>4 DEF FlowInv

\* A step that leaves the FIFO alone.
LEMMA FlowQuiet ==
  ASSUME FlowInv, FifoInv', UNCHANGED <<fifo, suspended, goal, home>>,
         mode' = "thread" /\ gx_irq => pending',
         Writes' => Len(held) <= HighMark + 1 + unpolled'
  PROVE  FlowInv'
<1>1. /\ ctrl' = ctrl /\ bp_lo' = bp_lo /\ bp_hi' = bp_hi /\ pi_wptr' = pi_wptr
      /\ held' = held /\ fed' = fed /\ written' = written
      /\ suspended' = suspended /\ goal' = goal /\ home' = home
  BY DEF fifo
<1>2. Interrupts'
  BY <1>1 DEF FlowInv, Interrupts
<1>3. Room'
  BY <1>1 DEF FlowInv, Room
<1>4. Ring'
  <2>1. fifo_wptr' = fifo_wptr
    BY <1>1 DEF fifo_wptr
  <2>2. QED
    BY <1>1, <2>1 DEF FlowInv, Ring
<1>5. gx_irq' = gx_irq
  BY <1>1 DEF gx_irq, bp_reached, gp_rptr, BpEnabled, BpAddr, Overflow, Underflow
<1>6. LineRaised'
  BY <1>5 DEF LineRaised
<1>7. StopsOnlyThere'
  BY <1>1 DEF FlowInv, StopsOnlyThere
<1>8. QED
  BY <1>2, <1>3, <1>4, <1>6, <1>7 DEF FlowInv

\* Polls, the retrace, the handler's look, an idle callback, and nothing.
LEMMA FlowQuietSteps ==
  ASSUME FlowInv, FifoInv',
         Poll \/ Retrace \/ HandlerReads \/ LeaveAlone \/ UNCHANGED vars
  PROVE  FlowInv'
<1>0. /\ FifoInv /\ Interrupts /\ Room /\ LineRaised
      /\ Len(held) \in Nat /\ unpolled \in Nat
  BY CpFifoAssumption, LenProperties DEF FlowInv, FifoInv, TypeOK
<1>1. CASE PollNothing
  <2>1. /\ ~gx_irq /\ unpolled' = 0 /\ UNCHANGED <<fifo, suspended, goal, home>>
    BY <1>1 DEF PollNothing
  <2>2. Writes' => Len(held) <= HighMark + 1 + unpolled'
    <3>1. SUFFICES ASSUME Writes' PROVE Len(held) <= HighMark + 1 + 0
      BY <2>1
    <3>2. pi_wptr # Off /\ ~suspended
      BY <2>1, <3>1 DEF Writes, fifo
    <3>3. ~Overflow(held)
      BY <1>0, <2>1, <3>2 DEF Interrupts, gx_irq
    <3>4. QED
      BY <1>0, <3>3, CpFifoAssumption DEF Overflow
  <2>3. QED
    BY <2>1, <2>2, FlowQuiet
<1>2. CASE DeliverCp \/ DeliverVi
  <2>1. mode' # "thread" /\ UNCHANGED <<fifo, suspended, goal, home>>
    BY <1>2 DEF DeliverCp, DeliverVi
  <2>2. QED
    BY <2>1, FlowQuiet DEF Writes
<1>3. CASE Retrace
  <2>1. /\ pending' = TRUE /\ mode' = mode /\ unpolled' = unpolled
        /\ UNCHANGED <<fifo, suspended, goal, home>>
    BY <1>3 DEF Retrace
  <2>2. Writes' => Writes
    BY <2>1 DEF Writes, fifo
  <2>3. QED
    BY <1>0, <2>1, <2>2, FlowQuiet DEF Room
<1>4. CASE HandlerReads \/ LeaveAlone
  <2>1. mode' # "thread" /\ UNCHANGED <<fifo, suspended, goal, home>>
    BY <1>4 DEF HandlerReads, LeaveAlone
  <2>2. QED
    BY <2>1, FlowQuiet DEF Writes
<1>5. CASE UNCHANGED vars
  <2>1. /\ pending' = pending /\ mode' = mode /\ unpolled' = unpolled
        /\ UNCHANGED <<fifo, suspended, goal, home>>
    BY <1>5 DEF vars, client
  <2>2. Writes' => Writes
    BY <2>1 DEF Writes, fifo
  <2>3. QED
    BY <1>0, <2>1, <2>2, FlowQuiet DEF Room, LineRaised
<1>6. QED
  BY <1>1, <1>2, <1>3, <1>4, <1>5 DEF Poll

\* The breakpoint at rest, as FlowRegister wants it.
LEMMA AtRest ==
  ASSUME FlowInv, mode \notin {"move_lo", "move_hi"}, ctrl.bp
  PROVE  goal # 0 /\ BpAddr = Halves(AddressOf(goal))
BY DEF FlowInv, FifoInv, BpSet, Interrupts

\* GX's thread turns the pipe to its own buffer and back.
LEMMA FlowPipe ==
  ASSUME FlowInv, FifoInv', Redirect \/ Restore
  PROVE  FlowInv'
<1>0. ctrl \in Control /\ Interrupts
  BY DEF FlowInv, FifoInv, TypeOK
<1>1. CASE Redirect
  <2> DEFINE c == [ctrl EXCEPT !.link = FALSE, !.over_int = FALSE, !.under_int = FALSE]
  <2>1. /\ mode = "thread" /\ ~suspended /\ pi_wptr # Off /\ ctrl' = c
        /\ GpRun(c, BpAddr) /\ pending' = TRUE /\ home' = pi_wptr /\ pi_wptr' = Off
        /\ goal' = goal /\ suspended' = suspended
    BY <1>1 DEF Redirect
  <2>2. /\ c \in Control /\ c.bp = ctrl.bp /\ c.over_int = FALSE /\ c.under_int = FALSE
    BY <1>0 DEF Control
  <2> HIDE DEF c
  <2>3. fifo_wptr' = fifo_wptr
    BY <2>1 DEF fifo_wptr
  <2>4. suspended = FALSE
    BY <2>1 DEF FlowInv, FifoInv, TypeOK
  <2>5. Interrupts'
    BY <1>0, <2>1, <2>2, <2>4 DEF Interrupts
  <2>6. c.bp => goal # 0 /\ BpAddr = Halves(AddressOf(goal))
    BY <2>1, <2>2, AtRest
  <2>7. QED
    BY <2>1, <2>2, <2>3, <2>5, <2>6, FlowRegister
<1>2. CASE Restore
  <2> DEFINE c == [ctrl EXCEPT !.link = TRUE, !.over_int = TRUE]
  <2>1. /\ mode = "thread" /\ ~suspended /\ pi_wptr = Off /\ ctrl' = c
        /\ GpRun(c, BpAddr) /\ pending' = TRUE /\ pi_wptr' = home
        /\ unpolled' = Slack /\ goal' = goal /\ suspended' = suspended
    BY <1>2 DEF Restore
  <2>2. /\ c \in Control /\ c.bp = ctrl.bp /\ c.over_int = TRUE
        /\ c.under_int = ctrl.under_int
    BY <1>0 DEF Control
  <2> HIDE DEF c
  <2>3. home \in Address /\ home # Off
    <3>1. home \in Address
      BY DEF FlowInv, FifoInv, TypeOK
    <3>2. QED
      BY <3>1, CpFifoAssumption DEF Address, Off
  <2>4. fifo_wptr' = fifo_wptr
    BY <2>1, <2>3 DEF fifo_wptr
  <2>5. suspended = FALSE
    BY <2>1 DEF FlowInv, FifoInv, TypeOK
  <2>6. Interrupts'
    BY <1>0, <2>1, <2>2, <2>3, <2>5 DEF Interrupts
  <2>7. c.bp => goal # 0 /\ BpAddr = Halves(AddressOf(goal))
    BY <2>1, <2>2, AtRest
  <2>8. QED
    BY <2>1, <2>2, <2>4, <2>6, <2>7, FlowRegister
<1>3. QED
  BY <1>1, <1>2

\* The CP's handler resumes the thread, suspends it, and tells the game; it
\* finds the overflow's interrupt on only when the pipe is at the FIFO.
LEMMA FlowHandler ==
  ASSUME FlowInv, FifoInv', HandlerUnder \/ HandlerOver \/ HandlerBreak
  PROVE  FlowInv'
<1>0. /\ ctrl \in Control /\ Interrupts /\ suspended \in BOOLEAN
      /\ ctrl.under_int \in BOOLEAN /\ ctrl.over_int \in BOOLEAN
  BY DEF FlowInv, FifoInv, TypeOK, Control
<1>1. CASE HandlerUnder
  <2> DEFINE c == [ctrl EXCEPT !.under_int = FALSE, !.over_int = TRUE]
  <2>1. CASE ctrl.under_int /\ status.under
    <3>1. /\ mode = "cp_under" /\ mode' = "cp_over" /\ suspended' = FALSE
          /\ ctrl' = c /\ GpRun(c, BpAddr) /\ pending' = TRUE
          /\ pi_wptr' = pi_wptr /\ goal' = goal /\ home' = home
      BY <1>1, <2>1 DEF HandlerUnder, WriteControl
    <3>2. /\ c \in Control /\ c.bp = ctrl.bp /\ c.over_int = TRUE /\ c.under_int = FALSE
      BY <1>0 DEF Control
    <3> HIDE DEF c
    <3>3. fifo_wptr' = fifo_wptr
      BY <3>1 DEF fifo_wptr
    <3>4. pi_wptr # Off
      BY <1>0, <2>1 DEF Interrupts
    <3>5. Interrupts'
      BY <1>0, <3>1, <3>2, <3>4 DEF Interrupts
    <3>6. c.bp => goal # 0 /\ BpAddr = Halves(AddressOf(goal))
      BY <3>1, <3>2, AtRest
    <3>7. QED
      BY <3>1, <3>2, <3>3, <3>5, <3>6, FlowRegister
  <2>2. CASE ~(ctrl.under_int /\ status.under)
    <3>1. mode' # "thread" /\ UNCHANGED <<fifo, suspended, goal, home>>
      BY <1>1, <2>2 DEF HandlerUnder
    <3>2. QED
      BY <3>1, FlowQuiet DEF Writes
  <2>3. QED
    BY <2>1, <2>2
<1>2. CASE HandlerOver
  <2> DEFINE c == [ctrl EXCEPT !.under_int = TRUE, !.over_int = FALSE]
  <2>1. CASE ctrl.over_int /\ status.over
    <3>1. /\ mode = "cp_over" /\ mode' = "cp_break" /\ suspended' = TRUE
          /\ ctrl' = c /\ GpRun(c, BpAddr) /\ pending' = TRUE
          /\ pi_wptr' = pi_wptr /\ goal' = goal /\ home' = home
      BY <1>2, <2>1 DEF HandlerOver, WriteControl
    <3>2. /\ c \in Control /\ c.bp = ctrl.bp /\ c.over_int = FALSE /\ c.under_int = TRUE
      BY <1>0 DEF Control
    <3> HIDE DEF c
    <3>3. fifo_wptr' = fifo_wptr
      BY <3>1 DEF fifo_wptr
    <3>4. Interrupts'
      <4>1. pi_wptr # Off
        BY <1>0, <2>1 DEF Interrupts
      <4>2. /\ ctrl'.under_int = TRUE /\ ctrl'.over_int = FALSE
            /\ ctrl'.bp = ctrl.bp
        BY <3>1, <3>2
      <4>3. QED
        BY <1>0, <3>1, <4>1, <4>2, Zenon DEF Interrupts
    <3>5. c.bp => goal # 0 /\ BpAddr = Halves(AddressOf(goal))
      BY <3>1, <3>2, AtRest
    <3>6. QED
      BY <3>1, <3>2, <3>3, <3>4, <3>5, FlowRegister
  <2>2. CASE ~(ctrl.over_int /\ status.over)
    <3>1. mode' # "thread" /\ UNCHANGED <<fifo, suspended, goal, home>>
      BY <1>2, <2>2 DEF HandlerOver
    <3>2. QED
      BY <3>1, FlowQuiet DEF Writes
  <2>3. QED
    BY <2>1, <2>2
<1>3. CASE HandlerBreak
  <2> DEFINE c == [ctrl EXCEPT !.bp_int = FALSE]
  <2>1. CASE ctrl.bp_int /\ status.bp
    <3>1. /\ mode = "cp_break" /\ mode' # "thread" /\ suspended' = suspended
          /\ ctrl' = c /\ GpRun(c, BpAddr) /\ pending' = TRUE
          /\ pi_wptr' = pi_wptr /\ goal' = goal /\ home' = home
      BY <1>3, <2>1 DEF HandlerBreak, WriteControl
    <3>2. /\ c \in Control /\ c.bp = ctrl.bp /\ c.over_int = ctrl.over_int
          /\ c.under_int = ctrl.under_int
      BY <1>0 DEF Control
    <3> HIDE DEF c
    <3>3. fifo_wptr' = fifo_wptr
      BY <3>1 DEF fifo_wptr
    <3>4. Interrupts'
      <4>1. /\ ctrl'.under_int = ctrl.under_int /\ ctrl'.over_int = ctrl.over_int
            /\ ctrl'.bp = ctrl.bp
        BY <3>1, <3>2
      <4>2. QED
        BY <1>0, <3>1, <4>1, Zenon DEF Interrupts
    <3>5. c.bp => goal # 0 /\ BpAddr = Halves(AddressOf(goal))
      BY <3>1, <3>2, AtRest
    <3>6. QED
      BY <3>1, <3>2, <3>3, <3>4, <3>5, FlowRegister
  <2>2. CASE ~(ctrl.bp_int /\ status.bp)
    <3>1. mode' # "thread" /\ UNCHANGED <<fifo, suspended, goal, home>>
      BY <1>3, <2>2 DEF HandlerBreak
    <3>2. QED
      BY <3>1, FlowQuiet DEF Writes
  <2>3. QED
    BY <2>1, <2>2
<1>4. QED
  BY <1>1, <1>2, <1>3

\* The game's callback moves the breakpoint, or clears it.
LEMMA FlowMove ==
  ASSUME FlowInv, FifoInv', MoveStarts \/ MoveGoesOn \/ Clear
  PROVE  FlowInv'
<1>0. /\ ctrl \in Control /\ Interrupts /\ Connected
  BY DEF FlowInv, FifoInv, TypeOK
<1>1. CASE MoveStarts
  <2> DEFINE c == [ctrl EXCEPT !.read = FALSE]
  <2>1. /\ mode' = "move_lo" /\ suspended' = suspended
        /\ goal' \in (Len(fed) + 1)..(written + 1)
        /\ ctrl' = c /\ GpRun(c, BpAddr) /\ pending' = TRUE
        /\ pi_wptr' = pi_wptr /\ home' = home
    BY <1>1 DEF MoveStarts, WriteControl
  <2>2. /\ c \in Control /\ c.read = FALSE /\ c.over_int = ctrl.over_int
        /\ c.under_int = ctrl.under_int
    BY <1>0 DEF Control
  <2> HIDE DEF c
  <2>3. fifo_wptr' = fifo_wptr
    BY <2>1 DEF fifo_wptr
  <2>4. goal' # 0
    BY <2>1, CountFact DEF FlowInv, FifoInv, TypeOK
  <2>5. Interrupts'
    <3>1. ctrl'.under_int = ctrl.under_int /\ ctrl'.over_int = ctrl.over_int
      BY <2>1, <2>2
    <3>2. QED
      BY <1>0, <2>1, <2>4, <3>1, Zenon DEF Interrupts
  <2>6. QED
    BY <2>1, <2>2, <2>3, <2>5, FlowRegister
<1>2. ASSUME MoveLo \/ MoveHi
      PROVE  FlowInv'
  <2>1. PICK a : GpRun(ctrl, a)
    BY <1>2 DEF MoveLo, MoveHi, WriteBpLo, WriteBpHi
  <2>2. /\ mode \in {"move_lo", "move_hi"} /\ mode' # "thread"
        /\ ctrl' = ctrl /\ pi_wptr' = pi_wptr /\ suspended' = suspended
        /\ goal' = goal /\ home' = home /\ pending' = TRUE
    BY <1>2 DEF MoveLo, MoveHi, WriteBpLo, WriteBpHi
  <2>3. fifo_wptr' = fifo_wptr
    BY <2>2 DEF fifo_wptr
  <2>4. ~ctrl.read
    BY <1>0, <2>2 DEF Connected, Moving
  <2>5. Interrupts'
    BY <1>0, <2>2 DEF Interrupts
  <2>6. QED
    BY <1>0, <2>1, <2>2, <2>3, <2>4, <2>5, FlowRegister
<1>3. CASE MoveBp
  <2> DEFINE c == [ctrl EXCEPT !.bp = TRUE, !.bp_int = TRUE]
  <2>1. /\ mode = "move_bp" /\ mode' = "move_on" /\ suspended' = suspended
        /\ ctrl' = c /\ GpRun(c, BpAddr) /\ pending' = TRUE
        /\ pi_wptr' = pi_wptr /\ home' = home /\ goal' = goal
    BY <1>3 DEF MoveBp, WriteControl
  <2>2. /\ c \in Control /\ c.read = ctrl.read /\ c.over_int = ctrl.over_int
        /\ c.under_int = ctrl.under_int
    BY <1>0 DEF Control
  <2> HIDE DEF c
  <2>3. fifo_wptr' = fifo_wptr
    BY <2>1 DEF fifo_wptr
  <2>4. goal # 0 /\ ~ctrl.read
    BY <1>0, <2>1 DEF FlowInv, FifoInv, BpSet, Connected, Moving
  <2>5. Interrupts'
    <3>1. ctrl'.under_int = ctrl.under_int /\ ctrl'.over_int = ctrl.over_int
      BY <2>1, <2>2
    <3>2. QED
      BY <1>0, <2>1, <2>4, <3>1, Zenon DEF Interrupts
  <2>6. QED
    BY <2>1, <2>2, <2>3, <2>4, <2>5, FlowRegister
<1>4. CASE MoveOn
  <2> DEFINE c == [ctrl EXCEPT !.read = TRUE]
  <2>1. /\ mode = "move_on" /\ mode' = "poll" /\ suspended' = suspended
        /\ ctrl' = c /\ GpRun(c, BpAddr) /\ pending' = TRUE
        /\ pi_wptr' = pi_wptr /\ home' = home /\ goal' = goal
    BY <1>4 DEF MoveOn, WriteControl
  <2>2. /\ c \in Control /\ c.bp = ctrl.bp /\ c.over_int = ctrl.over_int
        /\ c.under_int = ctrl.under_int
    BY <1>0 DEF Control
  <2> HIDE DEF c
  <2>3. fifo_wptr' = fifo_wptr
    BY <2>1 DEF fifo_wptr
  <2>4. c.bp => goal # 0 /\ BpAddr = Halves(AddressOf(goal))
    BY <2>1, <2>2, AtRest
  <2>5. Interrupts'
    <3>1. /\ ctrl'.under_int = ctrl.under_int /\ ctrl'.over_int = ctrl.over_int
          /\ ctrl'.bp = ctrl.bp
      BY <2>1, <2>2
    <3>2. QED
      BY <1>0, <2>1, <3>1, Zenon DEF Interrupts
  <2>6. QED
    BY <2>1, <2>2, <2>3, <2>4, <2>5, FlowRegister
<1>5. CASE Clear
  <2> DEFINE c == [ctrl EXCEPT !.bp = FALSE, !.bp_int = FALSE]
  <2>1. /\ mode' = "poll" /\ suspended' = suspended
        /\ ctrl' = c /\ GpRun(c, BpAddr) /\ pending' = TRUE
        /\ pi_wptr' = pi_wptr /\ home' = home /\ goal' = 0
    BY <1>5 DEF Clear, WriteControl
  <2>2. /\ c \in Control /\ c.bp = FALSE /\ c.over_int = ctrl.over_int
        /\ c.under_int = ctrl.under_int
    BY <1>0 DEF Control
  <2> HIDE DEF c
  <2>3. fifo_wptr' = fifo_wptr
    BY <2>1 DEF fifo_wptr
  <2>4. Interrupts'
    <3>1. /\ ctrl'.under_int = ctrl.under_int /\ ctrl'.over_int = ctrl.over_int
          /\ ctrl'.bp = FALSE
      BY <2>1, <2>2
    <3>2. QED
      BY <1>0, <2>1, <3>1, Zenon DEF Interrupts
  <2>5. QED
    BY <2>1, <2>2, <2>3, <2>4, FlowRegister
<1>6. QED
  BY <1>1, <1>2, <1>3, <1>4, <1>5 DEF MoveGoesOn

\* A burst that the GP gets at once leaves no stop behind; one that is held
\* is told, and is the breakpoint's when it is the first.
LEMMA FlowWrite ==
  ASSUME FlowInv, FifoInv', Write
  PROVE  FlowInv'
<1> DEFINE b == [addr |-> pi_wptr, n |-> written + 1]
<1>0. /\ FifoInv /\ TypeOK /\ StreamOrder /\ StopsThere /\ Connected /\ BpSet
      /\ Interrupts /\ Room /\ Ring /\ LineRaised /\ StopsOnlyThere
      /\ held \in Seq(Burst) /\ Len(fed) \in Nat /\ Len(held) \in Nat
      /\ written \in Nat /\ goal \in Nat /\ Len(fed) + Len(held) = written
      /\ unpolled \in Nat
  BY CountFact, CpFifoAssumption DEF FlowInv, FifoInv, TypeOK
<1>1. /\ mode = "thread" /\ ~suspended /\ pi_wptr # Off
      /\ written' = written + 1 /\ pi_wptr' = Advance
      /\ ctrl' = ctrl /\ bp_lo' = bp_lo /\ bp_hi' = bp_hi /\ mode' = mode
      /\ suspended' = suspended /\ goal' = goal /\ home' = home
      /\ unpolled' = IF pending THEN unpolled + 1 ELSE 0
      /\ pending => unpolled < Slack
  BY DEF Write
<1>2. ctrl.read /\ Accept(written + 1)
  BY <1>0, <1>1 DEF Connected, Moving, Write, linked
<1>3. /\ pi_wptr \in Address /\ fifo_wptr = pi_wptr /\ b \in Burst
  BY <1>0, <1>1 DEF TypeOK, Burst, fifo_wptr
<1>4. /\ pi_wptr' \in Address /\ pi_wptr' # Off /\ fifo_wptr' = Advance
  BY <1>1, <1>3, CpFifoAssumption DEF Advance, Address, Off, fifo_wptr
<1>5. Interrupts'
  BY <1>0, <1>1, <1>4 DEF Interrupts
<1>6. BpAddr' = BpAddr
  BY <1>1 DEF BpAddr
<1>7. CASE held = <<>> /\ ~Stops(b, ctrl, BpAddr)
  <2>1. held' = <<>> /\ pending' = pending /\ Len(held') = 0 /\ Len(held) = 0
    BY <1>2, <1>7 DEF Accept
  <2>2. ~ctrl.bp
    <3>1. SUFFICES ASSUME ctrl.bp PROVE FALSE
      OBVIOUS
    <3>2. goal # 0 /\ BpAddr = Halves(AddressOf(goal))
      BY <1>1, <3>1, AtRest
    <3>3. goal = written + 1
      BY <1>0, <2>1, <3>2 DEF StopsThere, BpSet
    <3>4. AddressOf(goal) = pi_wptr
      BY <1>0, <1>3, <3>3 DEF AddressOf
    <3>5. QED
      BY <1>2, <1>7, <3>1, <3>2, <3>4 DEF Stops, BpEnabled
  <2>3. Ring' /\ StopsOnlyThere' /\ Room'
    <3>1. Ring'
      BY <2>1 DEF Ring
    <3>2. StopsOnlyThere'
      BY <2>1 DEF StopsOnlyThere
    <3>3. unpolled' \in Nat
      BY <1>0, <1>1
    <3>4. \A n \in Nat : 0 <= HighMark + 1 + n
      BY CpFifoAssumption
    <3>5. Len(held') = 0
      BY <2>1
    <3>6. Room'
      BY <3>3, <3>4, <3>5, CpFifoAssumption DEF Room
    <3>7. QED
      BY <3>1, <3>2, <3>6
  <2>4. LineRaised'
    <3>1. SUFFICES ASSUME gx_irq' PROVE pending
      BY <2>1 DEF LineRaised
    <3>2. ~bp_reached(held)'
      BY <1>1, <2>2 DEF bp_reached, BpEnabled
    <3>3. ~Overflow(held)'
      BY <2>1, CpFifoAssumption DEF Overflow
    <3>4. ctrl.under_int /\ Underflow(held)
      BY <1>1, <1>7, <2>1, <3>1, <3>2, <3>3 DEF gx_irq, Underflow
    <3>5. QED
      BY <1>0, <1>1, <3>4 DEF gx_irq, LineRaised
  <2>5. QED
    BY <1>5, <2>3, <2>4 DEF FlowInv
<1>8. CASE ~(held = <<>> /\ ~Stops(b, ctrl, BpAddr))
  <2>1. /\ held' = Append(held, b)
        /\ pending' = (pending \/ bp_reached(held') \/ Overflow(held'))
    BY <1>2, <1>8 DEF Accept
  <2>2. /\ Len(held') = Len(held) + 1 /\ held' # <<>>
        /\ \A i \in 1..Len(held) : held'[i] = held[i]
        /\ held'[Len(held) + 1] = b
    BY <1>0, <1>3, <2>1, AppendProperties
  <2>3. Room'
    <3>1. Writes /\ Len(held) <= HighMark + 1 + unpolled
      BY <1>0, <1>1 DEF Writes, Room
    <3>2. ~pending => Len(held) <= HighMark
      <4>1. SUFFICES ASSUME ~pending PROVE ~Overflow(held)
        BY <1>0, CpFifoAssumption DEF Overflow
      <4>2. QED
        BY <1>0, <1>1, <4>1 DEF LineRaised, gx_irq, Interrupts
    <3>3. /\ Len(held') <= HighMark + 1 + unpolled'
      BY <1>0, <1>1, <2>2, <3>1, <3>2, CpFifoAssumption
    <3>4. Len(held') <= HighMark + 1 + Slack
      BY <1>0, <1>1, <2>2, <3>1, <3>2, CpFifoAssumption
    <3>5. QED
      BY <3>3, <3>4 DEF Room
  <2>4. Ring'
    <3>1. SUFFICES ASSUME NEW i \in 1..Len(held')
                   PROVE  held'[i].addr = Before(Advance, Len(held') - i + 1)
      BY <1>4 DEF Ring
    <3>2. CASE i \in 1..Len(held)
      <4>1. held'[i].addr = Before(pi_wptr, Len(held) - i + 1)
        BY <1>0, <1>3, <2>2, <3>2 DEF Ring
      <4>2. Len(held) <= Size - 1
        BY <1>0, CpFifoAssumption DEF Room
      <4> DEFINE d == Len(held) - i + 1
      <4>3. d \in 1..(Size - 1)
        BY <1>0, <3>2, <4>2, CpFifoAssumption
      <4>4. Len(held') - i + 1 = d + 1
        BY <1>0, <2>2, <3>2
      <4> HIDE DEF d
      <4>5. Before(Advance, d + 1) = Before(pi_wptr, d)
        BY <1>3, <4>3, CpFifoAssumption DEF Before, Advance, Address
      <4>6. QED
        BY <4>1, <4>4, <4>5 DEF d
    <3>3. CASE i = Len(held) + 1
      <4>1. held'[i].addr = pi_wptr
        BY <2>2, <3>3
      <4>2. Len(held') - i + 1 = 1
        BY <1>0, <2>2, <3>3
      <4>3. Before(Advance, 1) = pi_wptr
        BY <1>3, CpFifoAssumption DEF Before, Advance, Address
      <4>4. QED
        BY <4>1, <4>2, <4>3
    <3>4. QED
      BY <1>0, <2>2, <3>2, <3>3
  <2>5. LineRaised'
    <3>1. SUFFICES ASSUME gx_irq', ~pending' PROVE FALSE
      BY DEF LineRaised
    <3>2. ~pending /\ ~bp_reached(held') /\ ~Overflow(held')
      BY <2>1, <3>1
    <3>3. bp_reached(held)' = bp_reached(held')
      BY <1>1, <1>6, <2>2 DEF bp_reached, gp_rptr
    <3>4. Overflow(held)' = Overflow(held')
      BY DEF Overflow
    <3>5. ctrl.under_int /\ Underflow(held)
      BY <1>0, <1>1, <2>2, <3>1, <3>2, <3>3, <3>4, CpFifoAssumption
         DEF gx_irq, Underflow
    <3>6. QED
      BY <1>0, <1>1, <3>2, <3>5 DEF gx_irq, LineRaised
  <2>6. StopsOnlyThere'
    <3>1. Head(held') = held'[1]
      BY <2>2, HeadTailProperties, <1>0, <1>3, <2>1, AppendProperties
    <3>2. CASE held = <<>>
      <4>1. Stops(b, ctrl, BpAddr) /\ Len(held) = 0
        BY <1>8, <3>2
      <4>2. ctrl.bp /\ goal # 0
        BY <1>1, <4>1, AtRest DEF Stops, BpEnabled
      <4>3. goal = written + 1
        BY <1>0, <4>1, <4>2 DEF StopsThere, BpSet
      <4>4. QED
        BY <1>1, <2>2, <3>1, <4>1, <4>2, <4>3 DEF StopsOnlyThere
    <3>3. CASE held # <<>>
      <4>1. Len(held) # 0 /\ Head(held) = held[1]
        BY <1>0, <3>3, EmptySeq, HeadTailProperties
      <4>2. Head(held') = Head(held)
        BY <1>0, <2>2, <3>1, <4>1
      <4>3. QED
        BY <1>0, <1>1, <1>2, <3>3, <4>2 DEF StopsOnlyThere
    <3>4. QED
      BY <3>2, <3>3
  <2>7. QED
    BY <1>5, <2>3, <2>4, <2>5, <2>6 DEF FlowInv
<1>9. QED
  BY <1>7, <1>8

-----------------------------------------------------------------------------
(* The theorems.                                                           *)

\* The FIFO as it is set up: nothing written, nothing held.
LEMMA FlowInit == Init => FlowInv
<1>. SUFFICES ASSUME Init PROVE FlowInv
  OBVIOUS
<1>1. /\ held = <<>> /\ Len(held) = 0 /\ pi_wptr = 0 /\ goal = 0 /\ unpolled = 0
      /\ suspended = FALSE /\ ctrl.bp = FALSE /\ ctrl.over_int = TRUE
      /\ ctrl.under_int = FALSE
  BY DEF Init
<1>2. pi_wptr # Off
  BY <1>1, CpFifoAssumption DEF Off
<1>3. Interrupts
  BY <1>1, <1>2 DEF Interrupts
<1>4. Room
  <2>1. 0 <= HighMark + 1 + Slack /\ 0 <= HighMark + 1 + 0
    BY CpFifoAssumption
  <2>2. QED
    BY <1>1, <2>1 DEF Room
<1>5. Ring /\ StopsOnlyThere
  BY <1>1 DEF Ring, StopsOnlyThere
<1>6. LineRaised
  <2>1. ~Overflow(held)
    BY <1>1, CpFifoAssumption DEF Overflow
  <2>2. ~gx_irq
    BY <1>1, <2>1 DEF gx_irq, bp_reached, BpEnabled
  <2>3. QED
    BY <2>2 DEF LineRaised
<1>7. QED
  BY InitInv, <1>3, <1>4, <1>5, <1>6 DEF FlowInv

\* Every step keeps the stronger invariant.
THEOREM FlowInvariant == Spec => []FlowInv
<1>1. FlowInv /\ FifoInv' /\ [Next]_vars => FlowInv'
  <2>. SUFFICES ASSUME FlowInv, FifoInv', [Next]_vars PROVE FlowInv'
    OBVIOUS
  <2>1. CASE ThreadStep
    BY <2>1, FlowWrite, FlowPipe DEF ThreadStep
  <2>2. CASE Poll \/ Retrace \/ HandlerReads \/ LeaveAlone \/ UNCHANGED vars
    BY <2>2, FlowQuietSteps
  <2>3. CASE HandlerUnder \/ HandlerOver \/ HandlerBreak
    BY <2>3, FlowHandler
  <2>4. CASE MoveStarts \/ MoveGoesOn \/ Clear
    BY <2>4, FlowMove
  <2>5. QED
    BY <2>1, <2>2, <2>3, <2>4 DEF Next, Handler
<1>2. QED
  BY FlowInit, FifoInvariant, <1>1, PTL DEF Spec

\* The GP holds bursts at the breakpoint the game meant and nowhere else, in
\* FIFOs of any size, although the address comes round (gp_run, bp_reached).
THEOREM HeldForBreakpointOnly == Spec => []StopsOnlyThere
<1>1. FlowInv => StopsOnlyThere
  BY DEF FlowInv
<1>2. QED
  BY FlowInvariant, <1>1, PTL

\* The CP's line up is told to the guest's polls, whichever write of a burst
\* or a register brings it up (gx_pipe_burst, gx_cp_write).
THEOREM LineIsRaised == Spec => []LineRaised
<1>1. FlowInv => LineRaised
  BY DEF FlowInv
<1>2. QED
  BY FlowInvariant, <1>1, PTL

\* With room for a poll's bursts above the high watermark, what the GP has
\* not read is never written over (cp_overflow, cp_underflow).
THEOREM NeverWrittenOver == Spec => []NotWrittenOver
<1>1. FlowInv => NotWrittenOver
  <2>. SUFFICES ASSUME FlowInv, NEW i \in 1..Len(held), NEW j \in 1..Len(held),
                       held[i].addr = held[j].addr
                PROVE  i = j
    BY DEF NotWrittenOver
  <2>1. Len(held) \in Nat /\ fifo_wptr \in Address
    <3>1. /\ held \in Seq(Burst) /\ home \in Address
          /\ pi_wptr \in Address \union {Off}
      BY DEF FlowInv, FifoInv, TypeOK
    <3>2. fifo_wptr \in Address
      BY <3>1 DEF fifo_wptr
    <3>3. QED
      BY <3>1, <3>2, LenProperties
  <2>2. Len(held) <= Size - 1
    <3>1. Len(held) <= HighMark + 1 + Slack
      BY DEF FlowInv, Room
    <3>2. HighMark + 1 + Slack <= Size - 1
      BY CpFifoAssumption
    <3>3. QED
      BY <2>1, <3>1, <3>2, CpFifoAssumption
  <2> DEFINE d == Len(held) - i + 1
             e == Len(held) - j + 1
  <2>3. Before(fifo_wptr, d) = Before(fifo_wptr, e)
    BY DEF FlowInv, Ring
  <2>4. d \in 0..(Size - 1) /\ e \in 0..(Size - 1)
    BY <2>1, <2>2, CpFifoAssumption
  <2> HIDE DEF d, e
  <2>5. d = e
    BY <2>1, <2>3, <2>4, BeforeDiffers
  <2>6. QED
    BY <2>1, <2>5 DEF d, e
<1>2. QED
  BY FlowInvariant, <1>1, PTL
=============================================================================
