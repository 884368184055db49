---------------------------- MODULE IosIpcProofs ----------------------------
(***************************************************************************)
(* Proofs about IosIpc, for any number of request blocks and any latency:  *)
(* every request is at one place and is answered once, the replies wait in *)
(* the order they fall due, the interrupt line stays up, and no completion *)
(* comes inside the call it completes.                                     *)
(***************************************************************************)
EXTENDS IosIpc, FiniteSetTheorems, SequenceTheorems, TLAPS

-----------------------------------------------------------------------------
(* How often something is in a queue.                                      *)

\* the places of q that hold a member of T
Spots(q, T) == {i \in DOMAIN q : q[i] \in T}
Count(q, T) == Cardinality(Spots(q, T))

LEMMA CountType ==
  ASSUME NEW S, NEW q \in Seq(S), NEW T
  PROVE  /\ IsFiniteSet(Spots(q, T))
         /\ Count(q, T) \in Nat
<1>1. Spots(q, T) \subseteq 1..Len(q)
  BY LenProperties DEF Spots
<1>2. IsFiniteSet(1..Len(q))
  BY FS_Interval, LenProperties
<1>3. IsFiniteSet(Spots(q, T))
  BY <1>1, <1>2, FS_Subset
<1> QED
  BY <1>3, FS_CardinalityType DEF Count

\* A thing that is nowhere in a queue is counted as such, and nothing else is.
LEMMA CountZero ==
  ASSUME NEW S, NEW q \in Seq(S), NEW T
  PROVE  Count(q, T) = 0 <=> \A i \in DOMAIN q : q[i] \notin T
<1>1. Count(q, T) = 0 <=> Spots(q, T) = {}
  BY CountType, FS_EmptySet DEF Count
<1> QED
  BY <1>1 DEF Spots

LEMMA CountEmpty ==
  ASSUME NEW T
  PROVE  Count(<<>>, T) = 0
<1>1. Spots(<<>>, T) = {}
  BY DEF Spots
<1> QED
  BY <1>1, FS_EmptySet DEF Count

\* What is put at a queue's end is counted once more.
LEMMA CountAppend ==
  ASSUME NEW S, NEW q \in Seq(S), NEW x \in S, NEW T
  PROVE  Count(Append(q, x), T) = Count(q, T) + (IF x \in T THEN 1 ELSE 0)
<1> DEFINE r == Append(q, x)
           n == Len(q) + 1
<1>1. /\ Len(q) \in Nat /\ DOMAIN q = 1..Len(q)
      /\ r \in Seq(S) /\ Len(r) = n /\ DOMAIN r = 1..n
      /\ \A i \in 1..Len(q) : r[i] = q[i]
      /\ r[n] = x
  BY AppendProperties, LenProperties
<1>2. n \notin Spots(q, T)
  BY <1>1 DEF Spots
<1>3. CASE x \in T
  <2>1. Spots(r, T) = Spots(q, T) \cup {n}
    BY <1>1, <1>3 DEF Spots
  <2> QED
    BY <1>2, <1>3, <2>1, CountType, FS_AddElement DEF Count
<1>4. CASE x \notin T
  <2>1. Spots(r, T) = Spots(q, T)
    BY <1>1, <1>4 DEF Spots
  <2> QED
    BY <1>4, <2>1, CountType DEF Count
<1> QED
  BY <1>3, <1>4

\* What is taken from its head is counted once less.
LEMMA CountTail ==
  ASSUME NEW S, NEW q \in Seq(S), q # <<>>, NEW T
  PROVE  Count(q, T) = Count(Tail(q), T) + (IF Head(q) \in T THEN 1 ELSE 0)
<1> DEFINE r == Tail(q)
           later == Spots(q, T) \ {1}
<1>1. /\ Len(q) \in Nat /\ DOMAIN q = 1..Len(q) /\ Len(q) >= 1
      /\ r \in Seq(S) /\ DOMAIN r = 1..(Len(q) - 1)
      /\ \A i \in 1..(Len(q) - 1) : r[i] = q[i + 1]
      /\ Head(q) = q[1]
  BY HeadTailProperties, LenProperties, EmptySeq
<1>2. IsFiniteSet(Spots(q, T)) /\ IsFiniteSet(Spots(r, T)) /\ Count(r, T) \in Nat
  BY <1>1, CountType
<1>3. Cardinality(later) = Cardinality(Spots(r, T))
  <2> DEFINE f == [i \in Spots(r, T) |-> i + 1]
  <2>1. f \in [Spots(r, T) -> later]
    BY <1>1 DEF Spots
  <2>2. \A i, j \in Spots(r, T) : f[i] = f[j] => i = j
    BY <1>1 DEF Spots
  <2>3. \A k \in later : k - 1 \in Spots(r, T) /\ f[k - 1] = k
    BY <1>1 DEF Spots
  <2>4. f \in Bijection(Spots(r, T), later)
    BY <2>1, <2>2, <2>3 DEF Bijection, Injection, IsInjective, Surjection
  <2> QED
    BY <1>2, <2>4, FS_Bijection DEF ExistsBijection
<1>4. CASE Head(q) \in T
  <2>1. 1 \in Spots(q, T)
    BY <1>1, <1>4 DEF Spots
  <2>2. Cardinality(later) = Cardinality(Spots(q, T)) - 1
    BY <1>2, <2>1, FS_RemoveElement
  <2>3. Count(q, T) \in Nat
    BY CountType
  <2> QED
    BY <1>2, <1>3, <1>4, <2>2, <2>3 DEF Count
<1>5. CASE Head(q) \notin T
  <2>1. later = Spots(q, T)
    BY <1>1, <1>5 DEF Spots
  <2>2. Count(q, T) = Count(r, T)
    BY <1>3, <2>1 DEF Count
  <2> HIDE DEF r
  <2>3. Count(q, T) = Count(r, T) + (IF Head(q) \in T THEN 1 ELSE 0)
    BY <1>2, <1>5, <2>2
  <2> QED
    BY <2>3 DEF r
<1> QED
  BY <1>4, <1>5

-----------------------------------------------------------------------------
(* IOS's state, on its own.                                                *)

Cell == [addr : Block, left : 0..Latency]
Ios ==
  [x1 : BOOLEAN, y1 : BOOLEAN, y2 : BOOLEAN, iy1 : BOOLEAN, iy2 : BOOLEAN,
   irq : BOOLEAN, ppc_msg : Block \cup {Null}, arm_msg : Block \cup {Null},
   requests : Seq(Block), replies : Seq(Cell), waiting : Block \cup {Null}]

\* the replies to b, and the places b is at inside IOS
Cells(b) == {r \in Cell : r.addr = b}
InIos(s, b) ==
  Count(s.requests, {b})
  + (IF s.waiting = b THEN 1 ELSE 0)
  + Count(s.replies, Cells(b))
  + (IF s.y1 /\ s.arm_msg = b THEN 1 ELSE 0)

InOrder(q) == \A i, j \in DOMAIN q : i < j => q[i].left <= q[j].left

\* A Y is never set but with the flag, and never both; what is in the mailbox
\* with Y1 is a block.
Healthy(s) ==
  /\ s \in Ios
  /\ s.iy1 /\ s.iy2
  /\ s.y1 \/ s.y2 => s.irq
  /\ ~s.y1 \/ ~s.y2
  /\ s.y1 => s.arm_msg \in Block
  /\ InOrder(s.replies)

\* what stays pending in a device asked to
Patient(s) == s.waiting # Null => ask[s.waiting] = "wait"

\* b's replies are not due until its call, made e ticks ago, has returned
Away(q, b, e) == \A i \in DOMAIN q : q[i].addr = b => q[i].left + e >= Latency
Seen(s, b) == s.y1 /\ s.arm_msg = b

\* From s to t IOS has only moved blocks on, and put none in the mailbox whose
\* call has not returned.
MovesOn(s, t) ==
  /\ Healthy(t)
  /\ t.ppc_msg = s.ppc_msg
  /\ \A b \in Block : InIos(t, b) = InIos(s, b)
  /\ Patient(s) => Patient(t)
  /\ \A b \in Block, e \in Nat :
       e < Latency /\ Away(s.replies, b, e) =>
         /\ Away(t.replies, b, e)
         /\ Seen(t, b) => Seen(s, b)

LEMMA InIosType ==
  ASSUME NEW s \in Ios, NEW b \in Block
  PROVE  /\ Count(s.requests, {b}) \in Nat
         /\ Count(s.replies, Cells(b)) \in Nat
         /\ InIos(s, b) \in Nat
<1>1. s.requests \in Seq(Block) /\ s.replies \in Seq(Cell)
  BY DEF Ios
<1>2. Count(s.requests, {b}) \in Nat /\ Count(s.replies, Cells(b)) \in Nat
  BY <1>1, CountType
<1> QED
  BY <1>2 DEF InIos

\* A reply joins the queue as its last and latest (Reply).
LEMMA ReplyStep ==
  ASSUME NEW s, Healthy(s), NEW b \in Block
  PROVE  LET t == Reply(s, b)
         IN  /\ Healthy(t)
             /\ t = [s EXCEPT !.replies = t.replies]
             /\ \A c \in Block : InIos(t, c) = InIos(s, c) + (IF c = b THEN 1 ELSE 0)
             /\ \A c \in Block, e \in Nat : Away(s.replies, c, e) => Away(t.replies, c, e)
<1> DEFINE x == [addr |-> b, left |-> Latency]
           q == s.replies
           r == Append(q, x)
           t == Reply(s, b)
<1>1. s \in Ios /\ q \in Seq(Cell) /\ x \in Cell
  BY IosIpcAssumption DEF Healthy, Ios, Cell
<1>2. t = [s EXCEPT !.replies = r]
  BY DEF Reply
<1>3. /\ r \in Seq(Cell) /\ DOMAIN r = 1..(Len(q) + 1) /\ r[Len(q) + 1] = x
      /\ DOMAIN q = 1..Len(q) /\ Len(q) \in Nat
      /\ \A i \in DOMAIN q : r[i] = q[i] /\ q[i] \in Cell
  BY <1>1, AppendProperties, LenProperties, ElementOfSeq
<1>4. t \in Ios /\ t.replies = r
  BY <1>1, <1>2, <1>3 DEF Ios
<1>5. InOrder(r)
  <2> SUFFICES ASSUME NEW i \in DOMAIN r, NEW j \in DOMAIN r, i < j
               PROVE  r[i].left <= r[j].left
    BY DEF InOrder
  <2>1. i \in DOMAIN q
    BY <1>3
  <2>2. CASE j \in DOMAIN q
    BY <1>3, <2>1, <2>2 DEF Healthy, InOrder
  <2>3. CASE j = Len(q) + 1
    BY <1>3, <2>1, <2>3, IosIpcAssumption DEF Cell
  <2> QED
    BY <1>3, <2>2, <2>3
<1>6. Healthy(t)
  <2> HIDE DEF r
  <2>1. /\ t.iy1 = s.iy1 /\ t.iy2 = s.iy2 /\ t.y1 = s.y1 /\ t.y2 = s.y2
        /\ t.irq = s.irq /\ t.arm_msg = s.arm_msg
    BY <1>1, <1>2 DEF Ios
  <2> QED
    BY <1>4, <1>5, <2>1 DEF Healthy
<1>7. ASSUME NEW c \in Block
      PROVE  InIos(t, c) = InIos(s, c) + (IF c = b THEN 1 ELSE 0)
  <2>1. x \in Cells(c) <=> c = b
    BY <1>1 DEF Cells
  <2>2. Count(r, Cells(c)) = Count(q, Cells(c)) + (IF c = b THEN 1 ELSE 0)
    BY <1>1, <2>1, CountAppend
  <2>3. /\ t.requests = s.requests /\ t.waiting = s.waiting
        /\ t.y1 = s.y1 /\ t.arm_msg = s.arm_msg
    BY <1>1, <1>2 DEF Ios
  <2>4. Count(s.requests, {c}) \in Nat /\ Count(q, Cells(c)) \in Nat
    BY <1>1, InIosType
  <2> HIDE DEF q, r, t
  <2>5. InIos(t, c) = Count(s.requests, {c}) + (IF s.waiting = c THEN 1 ELSE 0)
                      + Count(r, Cells(c)) + (IF s.y1 /\ s.arm_msg = c THEN 1 ELSE 0)
    BY <1>4, <2>3 DEF InIos
  <2>6. InIos(s, c) = Count(s.requests, {c}) + (IF s.waiting = c THEN 1 ELSE 0)
                      + Count(q, Cells(c)) + (IF s.y1 /\ s.arm_msg = c THEN 1 ELSE 0)
    BY DEF InIos, q
  <2> QED
    BY <2>2, <2>4, <2>5, <2>6
<1>8. ASSUME NEW c \in Block, NEW e \in Nat, Away(q, c, e)
      PROVE  Away(r, c, e)
  <2> SUFFICES ASSUME NEW i \in DOMAIN r, r[i].addr = c
               PROVE  r[i].left + e >= Latency
    BY DEF Away
  <2>1. CASE i \in DOMAIN q
    BY <1>3, <1>8, <2>1 DEF Away
  <2>2. CASE i = Len(q) + 1
    BY <1>3, <2>2, IosIpcAssumption
  <2> QED
    BY <1>3, <2>1, <2>2
<1>9. t = [s EXCEPT !.replies = t.replies]
  BY <1>2, <1>4
<1>10. \A c \in Block : InIos(t, c) = InIos(s, c) + (IF c = b THEN 1 ELSE 0)
  BY <1>7
<1>11. \A c \in Block, e \in Nat : Away(s.replies, c, e) => Away(t.replies, c, e)
  BY <1>4, <1>8
<1> HIDE DEF t
<1> QED
  BY <1>6, <1>9, <1>10, <1>11 DEF t

\* A device takes a request to keep, or lets go of it (Execute).
LEMMA WaitingStep ==
  ASSUME NEW s, Healthy(s), NEW w \in Block \cup {Null}
  PROVE  LET t == [s EXCEPT !.waiting = w]
         IN  /\ Healthy(t)
             /\ \A c \in Block : InIos(t, c) + (IF s.waiting = c THEN 1 ELSE 0)
                                 = InIos(s, c) + (IF w = c THEN 1 ELSE 0)
<1> DEFINE t == [s EXCEPT !.waiting = w]
<1>1. s \in Ios /\ t \in Ios
  BY DEF Healthy, Ios
<1>2. /\ t.iy1 = s.iy1 /\ t.iy2 = s.iy2 /\ t.y1 = s.y1 /\ t.y2 = s.y2
      /\ t.irq = s.irq /\ t.arm_msg = s.arm_msg
      /\ t.requests = s.requests /\ t.replies = s.replies /\ t.waiting = w
  BY <1>1 DEF Ios
<1> HIDE DEF t
<1>3. Healthy(t)
  BY <1>1, <1>2 DEF Healthy
<1>4. ASSUME NEW c \in Block
      PROVE  InIos(t, c) + (IF s.waiting = c THEN 1 ELSE 0)
             = InIos(s, c) + (IF w = c THEN 1 ELSE 0)
  <2>1. Count(s.requests, {c}) \in Nat /\ Count(s.replies, Cells(c)) \in Nat
    BY <1>1, InIosType
  <2> QED
    BY <1>2, <2>1 DEF InIos
<1> QED
  BY <1>3, <1>4 DEF t

-----------------------------------------------------------------------------
(* Update.                                                                 *)

OneWaits == \A b, c \in Block : ask[b] = "wait" /\ ask[c] = "wait" => b = c

\* IOS takes a request out of its queue and acknowledges it.
Taken(s) ==
  UpdateIrq([s EXCEPT !.requests = Tail(@), !.y2 = TRUE, !.x1 = FALSE])

LEMMA TakenStep ==
  ASSUME NEW s, Healthy(s), s.requests # <<>>, Ready(s)
  PROVE  LET t == Taken(s)
         IN  /\ Healthy(t) /\ Head(s.requests) \in Block
             /\ t.ppc_msg = s.ppc_msg /\ t.waiting = s.waiting /\ t.replies = s.replies
             /\ ~t.y1
             /\ \A c \in Block : InIos(s, c)
                  = InIos(t, c) + (IF Head(s.requests) = c THEN 1 ELSE 0)
<1> DEFINE t == Taken(s)
           q == s.requests
<1>1. s \in Ios /\ q \in Seq(Block) /\ s.replies \in Seq(Cell) /\ ~s.y1 /\ ~s.y2
  BY DEF Healthy, Ios, Ready
<1>2. Head(q) \in Block /\ Tail(q) \in Seq(Block)
  BY <1>1, HeadTailProperties
<1>3. t \in Ios
  BY <1>1, <1>2 DEF Taken, UpdateIrq, Ios
<1>4. /\ t.iy1 = s.iy1 /\ t.iy2 = s.iy2 /\ t.y1 = s.y1 /\ t.y2
      /\ t.arm_msg = s.arm_msg /\ t.ppc_msg = s.ppc_msg
      /\ t.requests = Tail(q) /\ t.replies = s.replies /\ t.waiting = s.waiting
  BY <1>1 DEF Taken, UpdateIrq, Ios
<1>5. t.irq
  BY <1>1 DEF Taken, UpdateIrq, Ios, Healthy
<1>6. Healthy(t)
  BY <1>1, <1>3, <1>4, <1>5 DEF Healthy
<1>7. ASSUME NEW c \in Block
      PROVE  InIos(s, c) = InIos(t, c) + (IF Head(q) = c THEN 1 ELSE 0)
  <2>1. Count(q, {c}) = Count(Tail(q), {c}) + (IF Head(q) = c THEN 1 ELSE 0)
    BY <1>1, CountTail
  <2>2. Count(Tail(q), {c}) \in Nat /\ Count(s.replies, Cells(c)) \in Nat
    BY <1>1, <1>2, CountType
  <2> HIDE DEF t, q
  <2>3. InIos(t, c) = Count(Tail(q), {c}) + (IF s.waiting = c THEN 1 ELSE 0)
                      + Count(s.replies, Cells(c)) + (IF s.y1 /\ s.arm_msg = c THEN 1 ELSE 0)
    BY <1>4 DEF InIos
  <2>4. InIos(s, c) = Count(q, {c}) + (IF s.waiting = c THEN 1 ELSE 0)
                      + Count(s.replies, Cells(c)) + (IF s.y1 /\ s.arm_msg = c THEN 1 ELSE 0)
    BY DEF InIos, q
  <2> QED
    BY <2>1, <2>2, <2>3, <2>4
<1> HIDE DEF t
<1> QED
  BY <1>1, <1>2, <1>4, <1>6, <1>7 DEF t

\* A device carries a request out: kept, answered, or answered with the one
\* that waited for it.
LEMMA ExecuteStep ==
  ASSUME NEW s, Healthy(s), NEW b \in Block, ask[b] = "wait" => s.waiting = Null
  PROVE  LET t == Execute(s, b)
         IN  /\ Healthy(t)
             /\ t.ppc_msg = s.ppc_msg /\ t.y1 = s.y1 /\ t.arm_msg = s.arm_msg
             /\ Patient(s) => Patient(t)
             /\ \A c \in Block : InIos(t, c) = InIos(s, c) + (IF b = c THEN 1 ELSE 0)
             /\ \A c \in Block, e \in Nat : Away(s.replies, c, e) => Away(t.replies, c, e)
<1> DEFINE t == Execute(s, b)
<1> s \in Ios
  BY DEF Healthy
<1>0. \A c \in Block : InIos(s, c) \in Nat
  BY InIosType
<1>1. CASE ask[b] = "wait"
  <2>1. t = [s EXCEPT !.waiting = b]
    BY <1>1 DEF Execute
  <2>2. /\ Healthy(t)
        /\ \A c \in Block : InIos(t, c) + (IF s.waiting = c THEN 1 ELSE 0)
                            = InIos(s, c) + (IF b = c THEN 1 ELSE 0)
    BY <2>1, WaitingStep
  <2>3. s.waiting = Null /\ Null \notin Block
    BY <1>1, IosIpcAssumption
  <2>4. t \in Ios
    BY <2>2 DEF Healthy
  <2>5. \A c \in Block : InIos(t, c) = InIos(s, c) + (IF b = c THEN 1 ELSE 0)
    <3> SUFFICES ASSUME NEW c \in Block
                 PROVE  InIos(t, c) = InIos(s, c) + (IF b = c THEN 1 ELSE 0)
      OBVIOUS
    <3>1. InIos(t, c) \in Nat /\ InIos(s, c) \in Nat /\ s.waiting # c
      BY <2>3, <2>4, <1>0, InIosType
    <3> HIDE DEF t
    <3> QED
      BY <2>2, <3>1
  <2>6. t.ppc_msg = s.ppc_msg /\ t.y1 = s.y1 /\ t.arm_msg = s.arm_msg /\ t.waiting = b
        /\ t.replies = s.replies
    BY <2>1 DEF Ios
  <2>7. Patient(t)
    BY <1>1, <2>6 DEF Patient
  <2> HIDE DEF t
  <2> QED
    BY <2>2, <2>5, <2>6, <2>7 DEF t
<1>2. CASE ask[b] = "release" /\ s.waiting # Null
  <2> DEFINE p == s.waiting
             v == Reply(s, p)
             w == [v EXCEPT !.waiting = Null]
  <2>1. t = Reply(w, b)
    BY <1>2 DEF Execute
  <2>2. p \in Block
    BY <1>2 DEF Ios
  <2>3. /\ Healthy(v) /\ v = [s EXCEPT !.replies = v.replies]
        /\ \A c \in Block : InIos(v, c) = InIos(s, c) + (IF c = p THEN 1 ELSE 0)
        /\ \A c \in Block, e \in Nat : Away(s.replies, c, e) => Away(v.replies, c, e)
    BY <2>2, ReplyStep
  <2>4. v \in Ios /\ v.waiting = p /\ v.ppc_msg = s.ppc_msg /\ v.y1 = s.y1
        /\ v.arm_msg = s.arm_msg
    BY <2>3 DEF Healthy, Ios
  <2> HIDE DEF p, v
  <2>5. /\ Healthy(w)
        /\ \A c \in Block : InIos(w, c) + (IF v.waiting = c THEN 1 ELSE 0)
                            = InIos(v, c) + (IF Null = c THEN 1 ELSE 0)
    BY <2>3, WaitingStep
  <2>6. w \in Ios /\ w.waiting = Null /\ w.ppc_msg = s.ppc_msg /\ w.y1 = s.y1
        /\ w.arm_msg = s.arm_msg /\ w.replies = v.replies
    BY <2>4, <2>5 DEF Healthy, Ios
  <2> HIDE DEF w
  <2>7. \A c \in Block : InIos(w, c) = InIos(s, c)
    <3> SUFFICES ASSUME NEW c \in Block
                 PROVE  InIos(w, c) = InIos(s, c)
      OBVIOUS
    <3>1. InIos(w, c) \in Nat /\ InIos(v, c) \in Nat /\ InIos(s, c) \in Nat
      BY <1>0, <2>4, <2>6, InIosType
    <3>2. Null # c
      BY IosIpcAssumption
    <3> QED
      BY <2>3, <2>4, <2>5, <3>1, <3>2
  <2>8. /\ Healthy(t) /\ t = [w EXCEPT !.replies = t.replies]
        /\ \A c \in Block : InIos(t, c) = InIos(w, c) + (IF c = b THEN 1 ELSE 0)
        /\ \A c \in Block, e \in Nat : Away(w.replies, c, e) => Away(t.replies, c, e)
    BY <2>1, <2>5, ReplyStep
  <2> HIDE DEF t
  <2>9. t.ppc_msg = s.ppc_msg /\ t.y1 = s.y1 /\ t.arm_msg = s.arm_msg /\ t.waiting = Null
    BY <2>6, <2>8 DEF Ios
  <2>10. \A c \in Block, e \in Nat : Away(s.replies, c, e) => Away(t.replies, c, e)
    BY <2>3, <2>6, <2>8
  <2>11. \A c \in Block : InIos(t, c) = InIos(s, c) + (IF b = c THEN 1 ELSE 0)
    BY <2>7, <2>8
  <2> QED
    BY <2>8, <2>9, <2>10, <2>11 DEF t, Patient
<1>3. CASE ask[b] # "wait" /\ ~(ask[b] = "release" /\ s.waiting # Null)
  <2>1. t = Reply(s, b)
    BY <1>3 DEF Execute
  <2>2. /\ Healthy(t) /\ t = [s EXCEPT !.replies = t.replies]
        /\ \A c \in Block : InIos(t, c) = InIos(s, c) + (IF c = b THEN 1 ELSE 0)
        /\ \A c \in Block, e \in Nat : Away(s.replies, c, e) => Away(t.replies, c, e)
    BY <2>1, ReplyStep
  <2> HIDE DEF t
  <2>3. t.ppc_msg = s.ppc_msg /\ t.y1 = s.y1 /\ t.arm_msg = s.arm_msg
        /\ t.waiting = s.waiting
    BY <2>2 DEF Ios
  <2> QED
    BY <2>2, <2>3 DEF t, Patient
<1> QED
  BY <1>1, <1>2, <1>3

\* IOS puts the first reply in the mailbox.
Given(s) ==
  UpdateIrq([s EXCEPT !.arm_msg = Head(s.replies).addr,
                      !.replies = Tail(@), !.y1 = TRUE])

LEMMA GivenStep ==
  ASSUME NEW s, Healthy(s), s.replies # <<>>, Ready(s), Head(s.replies).left = 0
  PROVE  MovesOn(s, Given(s))
<1> DEFINE t == Given(s)
           q == s.replies
           b == Head(q).addr
<1>1. s \in Ios /\ q \in Seq(Cell) /\ s.requests \in Seq(Block) /\ ~s.y1 /\ ~s.y2
  BY DEF Healthy, Ios, Ready
<1>2. /\ Head(q) \in Cell /\ b \in Block /\ Tail(q) \in Seq(Cell)
      /\ Len(q) \in Nat /\ DOMAIN q = 1..Len(q) /\ Len(q) >= 1
      /\ DOMAIN Tail(q) = 1..(Len(q) - 1) /\ Head(q) = q[1]
      /\ \A i \in 1..(Len(q) - 1) : Tail(q)[i] = q[i + 1]
  <2>1. q # <<>>
    OBVIOUS
  <2> HIDE DEF q
  <2>2. /\ Head(q) \in Cell /\ Tail(q) \in Seq(Cell)
        /\ Len(Tail(q)) = Len(q) - 1
        /\ \A i \in 1..Len(Tail(q)) : Tail(q)[i] = q[i + 1]
    BY <1>1, <2>1, HeadTailProperties
  <2>3. Len(q) \in Nat /\ DOMAIN q = 1..Len(q) /\ Len(q) >= 1
    BY <1>1, <2>1, LenProperties, EmptySeq
  <2>4. DOMAIN Tail(q) = 1..Len(Tail(q)) /\ Head(q) = q[1]
    BY <2>2, LenProperties
  <2> QED
    BY <2>2, <2>3, <2>4 DEF Cell
<1>3. t \in Ios
  BY <1>1, <1>2 DEF Given, UpdateIrq, Ios
<1>4. /\ t.iy1 = s.iy1 /\ t.iy2 = s.iy2 /\ t.y1 /\ t.y2 = s.y2
      /\ t.arm_msg = b /\ t.ppc_msg = s.ppc_msg
      /\ t.requests = s.requests /\ t.replies = Tail(q) /\ t.waiting = s.waiting
  BY <1>1 DEF Given, UpdateIrq, Ios
<1>5. t.irq
  BY <1>1 DEF Given, UpdateIrq, Ios, Healthy
<1>6. InOrder(Tail(q))
  <2>0. InOrder(q)
    BY DEF Healthy
  <2> SUFFICES ASSUME NEW i \in DOMAIN Tail(q), NEW j \in DOMAIN Tail(q), i < j
               PROVE  Tail(q)[i].left <= Tail(q)[j].left
    BY DEF InOrder
  <2>1. i + 1 \in DOMAIN q /\ j + 1 \in DOMAIN q /\ i + 1 < j + 1
    BY <1>2
  <2>2. q[i + 1].left <= q[j + 1].left
    BY <2>0, <2>1 DEF InOrder
  <2> QED
    BY <1>2, <2>2
<1>7. Healthy(t)
  <2> HIDE DEF t, q, b
  <2> QED
    BY <1>1, <1>2, <1>3, <1>4, <1>5, <1>6 DEF Healthy
<1>8. ASSUME NEW c \in Block
      PROVE  InIos(t, c) = InIos(s, c)
  <2>1. Head(q) \in Cells(c) <=> b = c
    BY <1>2 DEF Cells
  <2>2. Count(q, Cells(c)) = Count(Tail(q), Cells(c)) + (IF b = c THEN 1 ELSE 0)
    BY <1>1, <2>1, CountTail
  <2>3. Count(s.requests, {c}) \in Nat /\ Count(Tail(q), Cells(c)) \in Nat
    BY <1>1, <1>2, CountType
  <2> HIDE DEF t, q, b
  <2>4. InIos(t, c) = Count(s.requests, {c}) + (IF s.waiting = c THEN 1 ELSE 0)
                      + Count(Tail(q), Cells(c)) + (IF b = c THEN 1 ELSE 0)
    BY <1>4 DEF InIos
  <2>5. InIos(s, c) = Count(s.requests, {c}) + (IF s.waiting = c THEN 1 ELSE 0)
                      + Count(q, Cells(c)) + 0
    BY <1>1 DEF InIos, q
  <2> QED
    BY <2>2, <2>3, <2>4, <2>5
<1>9. ASSUME NEW c \in Block, NEW e \in Nat, e < Latency, Away(q, c, e)
      PROVE  Away(Tail(q), c, e) /\ b # c
  <2>1. b # c
    BY <1>2, <1>9, IosIpcAssumption DEF Away
  <2>2. Away(Tail(q), c, e)
    <3> SUFFICES ASSUME NEW i \in DOMAIN Tail(q), Tail(q)[i].addr = c
                 PROVE  Tail(q)[i].left + e >= Latency
      BY DEF Away
    <3>1. i + 1 \in DOMAIN q /\ Tail(q)[i] = q[i + 1]
      BY <1>2
    <3> QED
      BY <1>9, <3>1 DEF Away
  <2> QED
    BY <2>1, <2>2
<1> HIDE DEF t
<1>10. \A c \in Block, e \in Nat : e < Latency /\ Away(s.replies, c, e) =>
         Away(t.replies, c, e) /\ ~Seen(t, c)
  BY <1>4, <1>9 DEF Seen
<1>11. Patient(s) => Patient(t)
  BY <1>4 DEF Patient
<1> QED
  BY <1>4, <1>7, <1>8, <1>10, <1>11 DEF MovesOn, t

\* One round of IOS moves blocks on, and none is lost.
LEMMA UpdateStep ==
  ASSUME NEW s, Healthy(s), Patient(s), OneWaits, \A b \in Block : InIos(s, b) <= 1
  PROVE  MovesOn(s, Update(s))
<1>1. CASE s.requests # <<>> /\ Ready(s)
  <2> DEFINE u == Taken(s)
             b == Head(s.requests)
             t == Execute(u, b)
  <2>1. Update(s) = t
    BY <1>1 DEF Update, Taken
  <2>2. /\ Healthy(u) /\ b \in Block
        /\ u.ppc_msg = s.ppc_msg /\ u.waiting = s.waiting /\ u.replies = s.replies
        /\ ~u.y1
        /\ \A c \in Block : InIos(s, c) = InIos(u, c) + (IF b = c THEN 1 ELSE 0)
    BY <1>1, TakenStep
  <2> HIDE DEF u, b
  <2>3. u \in Ios
    BY <2>2 DEF Healthy
  <2>4. ask[b] = "wait" => u.waiting = Null
    <3> SUFFICES ASSUME ask[b] = "wait", u.waiting # Null
                 PROVE  FALSE
      OBVIOUS
    <3>1. s.waiting \in Block /\ ask[s.waiting] = "wait"
      BY <2>2, <2>3 DEF Patient, Ios
    <3>2. u.waiting = b
      BY <2>2, <3>1 DEF OneWaits
    <3>3. InIos(u, b) >= 1
      <4>1. Count(u.requests, {b}) \in Nat /\ Count(u.replies, Cells(b)) \in Nat
        BY <2>2, <2>3, InIosType
      <4> QED
        BY <3>2, <4>1 DEF InIos
    <3>4. InIos(s, b) = InIos(u, b) + 1 /\ InIos(s, b) <= 1
      BY <2>2
    <3>5. InIos(u, b) \in Nat
      BY <2>2, <2>3, InIosType
    <3> QED
      BY <3>3, <3>4, <3>5
  <2>5. /\ Healthy(t)
        /\ t.ppc_msg = u.ppc_msg /\ t.y1 = u.y1 /\ t.arm_msg = u.arm_msg
        /\ Patient(u) => Patient(t)
        /\ \A c \in Block : InIos(t, c) = InIos(u, c) + (IF b = c THEN 1 ELSE 0)
        /\ \A c \in Block, e \in Nat : Away(u.replies, c, e) => Away(t.replies, c, e)
    BY <2>2, <2>4, ExecuteStep
  <2> HIDE DEF t
  <2>6. \A c \in Block : InIos(t, c) = InIos(s, c)
    BY <2>2, <2>5
  <2>7. Patient(s) => Patient(t)
    BY <2>2, <2>5 DEF Patient
  <2>8. \A c \in Block, e \in Nat : Away(s.replies, c, e) =>
          Away(t.replies, c, e) /\ ~Seen(t, c)
    BY <2>2, <2>5 DEF Seen
  <2> QED
    BY <2>1, <2>2, <2>5, <2>6, <2>7, <2>8 DEF MovesOn
<1>2. CASE ~(s.requests # <<>> /\ Ready(s))
           /\ s.replies # <<>> /\ Ready(s) /\ Head(s.replies).left = 0
  BY <1>2, GivenStep DEF Update, Given
<1>3. CASE ~(s.requests # <<>> /\ Ready(s))
           /\ ~(s.replies # <<>> /\ Ready(s) /\ Head(s.replies).left = 0)
  <2>1. Update(s) = s
    BY <1>3 DEF Update
  <2> QED
    BY <2>1 DEF MovesOn
<1> QED
  BY <1>1, <1>2, <1>3

-----------------------------------------------------------------------------
(* The inductive invariant.                                                *)

\* Places(b), from the values it depends on
Total(out, at, s, read, b) ==
  Count(out, {b})
  + (IF at \in {"call_x1", "irq_x1"} /\ s.ppc_msg = b THEN 1 ELSE 0)
  + InIos(s, b)
  + (IF at \in {"irq_flag1", "irq_x2"} /\ read = b THEN 1 ELSE 0)

Accounted ==
  \A b \in Block : Total(outbox, cpu, ios, got, b) = IF ask[b] = Null THEN 0 ELSE 1

\* What the client has in hand at each of its steps; between its write of a Y
\* and that of the flag, IOS is held off.
Stage ==
  /\ cpu \in {"call_msg", "irq_msg"} => outbox # <<>>
  /\ cpu \in {"call_x1", "irq_x1"} => ios.ppc_msg \in Block
  /\ got # Null <=> cpu \in {"irq_y1", "irq_flag1", "irq_x2"}
  /\ cpu = "irq_y1" => ios.y1 /\ got = ios.arm_msg
  /\ cpu = "irq_y2" => ios.y2
  /\ cpu \in {"irq_flag1", "irq_flag2"} => ios.irq /\ ~ios.y1 /\ ~ios.y2

\* A call that has not returned: its reply is not due.
CallOut ==
  caller # Null =>
    /\ elapsed < Latency
    /\ Away(ios.replies, caller, elapsed)
    /\ ~Seen(ios, caller)
    /\ got # caller

IInv == TypeOK /\ Healthy(ios) /\ Patient(ios) /\ OneWaits /\ Accounted /\ Stage /\ CallOut

LEMMA Where ==
  ASSUME IInv, NEW b \in Block
  PROVE  /\ Count(outbox, {b}) \in Nat /\ InIos(ios, b) \in Nat
         /\ Total(outbox, cpu, ios, got, b) <= 1
         /\ InIos(ios, b) <= 1
         /\ ask[b] = Null => Total(outbox, cpu, ios, got, b) = 0 /\ InIos(ios, b) = 0
         /\ cpu \in {"call_x1", "irq_x1"} /\ ios.ppc_msg = b => InIos(ios, b) = 0
         /\ cpu \in {"irq_flag1", "irq_x2"} /\ got = b =>
              InIos(ios, b) = 0 /\ Count(outbox, {b}) = 0
<1>1. ios \in Ios /\ outbox \in Seq(Block)
  BY DEF IInv, Healthy, TypeOK
<1>2. Count(outbox, {b}) \in Nat /\ InIos(ios, b) \in Nat
  BY <1>1, CountType, InIosType
<1>3. Total(outbox, cpu, ios, got, b) = IF ask[b] = Null THEN 0 ELSE 1
  BY DEF IInv, Accounted
<1> QED
  BY <1>2, <1>3 DEF Total

\* A block that is nowhere in IOS is in none of its places.
LEMMA Nowhere ==
  ASSUME NEW s \in Ios, NEW b \in Block, InIos(s, b) = 0
  PROVE  /\ s.waiting # b /\ ~Seen(s, b)
         /\ \A i \in DOMAIN s.replies : s.replies[i].addr # b
         /\ \A e \in Nat : Away(s.replies, b, e)
<1>1. Count(s.requests, {b}) \in Nat /\ Count(s.replies, Cells(b)) \in Nat
  BY InIosType
<1>2. s.waiting # b /\ ~Seen(s, b) /\ Count(s.replies, Cells(b)) = 0
  <2> DEFINE kept == IF s.waiting = b THEN 1 ELSE 0
             mailed == IF s.y1 /\ s.arm_msg = b THEN 1 ELSE 0
  <2>1. kept \in {0, 1} /\ mailed \in {0, 1}
    OBVIOUS
  <2>2. Count(s.requests, {b}) + kept + Count(s.replies, Cells(b)) + mailed = 0
    BY DEF InIos
  <2>3. kept = 0 /\ mailed = 0 /\ Count(s.replies, Cells(b)) = 0
    <3>1. \A i, j, k, l \in Nat : i + j + k + l = 0 => j = 0 /\ k = 0 /\ l = 0
      OBVIOUS
    <3>2. kept \in Nat /\ mailed \in Nat
      BY <2>1
    <3> HIDE DEF kept, mailed
    <3> QED
      BY <1>1, <2>2, <3>1, <3>2
  <2> QED
    BY <2>3 DEF Seen
<1>3. s.replies \in Seq(Cell)
  BY DEF Ios
<1>4. \A i \in DOMAIN s.replies : s.replies[i] \notin Cells(b)
  BY <1>2, <1>3, CountZero
<1>5. \A i \in DOMAIN s.replies : s.replies[i] \in Cell
  BY <1>3, LenProperties, ElementOfSeq
<1>6. \A i \in DOMAIN s.replies : s.replies[i].addr # b
  BY <1>4, <1>5 DEF Cells
<1> QED
  BY <1>2, <1>6 DEF Away

\* What a step leaves that ends in a round of IOS, from t on.
LEMMA AfterUpdate ==
  ASSUME IInv, NEW t, Healthy(t), Patient(t), \A b \in Block : InIos(t, b) <= 1,
         t.ppc_msg = ios.ppc_msg,
         caller # Null => Away(t.replies, caller, elapsed) /\ ~Seen(t, caller),
         ios' = Update(t)
  PROVE  /\ Healthy(ios') /\ ios' \in Ios /\ Patient(ios')
         /\ ios'.ppc_msg = ios.ppc_msg
         /\ \A b \in Block : InIos(ios', b) = InIos(t, b)
         /\ caller # Null => Away(ios'.replies, caller, elapsed) /\ ~Seen(ios', caller)
         /\ ~Ready(t) => ios' = t
<1>1. MovesOn(t, ios')
  BY UpdateStep DEF IInv
<1>2. ~Ready(t) => ios' = t
  BY DEF Update
<1>3. caller # Null => caller \in Block /\ elapsed \in Nat /\ elapsed < Latency
  BY IosIpcAssumption DEF IInv, TypeOK, CallOut
<1>4. caller # Null => Away(ios'.replies, caller, elapsed) /\ ~Seen(ios', caller)
  BY <1>1, <1>3 DEF MovesOn
<1> QED
  BY <1>1, <1>2, <1>4 DEF MovesOn, Healthy

-----------------------------------------------------------------------------
(* The steps.                                                              *)

LEMMA InitHolds == Init => IInv
<1> SUFFICES ASSUME Init PROVE IInv
  OBVIOUS
<1>1. ios \in Ios
  BY EmptySeq DEF Init, Ios
<1>2. TypeOK
  BY <1>1, EmptySeq, IosIpcAssumption DEF Init, TypeOK, Ios, Cell, Cpu, Ask
<1>3. Healthy(ios)
  BY <1>1 DEF Init, Healthy, InOrder
<1>4. Patient(ios) /\ OneWaits
  BY IosIpcAssumption DEF Init, Patient, OneWaits, Ask
<1>5. Accounted
  <2> SUFFICES ASSUME NEW b \in Block
               PROVE  Total(outbox, cpu, ios, got, b) = 0
    BY DEF Accounted, Init
  <2>1. Count(<<>>, {b}) = 0 /\ Count(<<>>, Cells(b)) = 0
    BY CountEmpty
  <2>2. Null # b
    BY IosIpcAssumption
  <2>3. InIos(ios, b) = 0
    BY <2>1, <2>2 DEF InIos, Init
  <2> QED
    BY <2>1, <2>3 DEF Total, Init
<1>6. Stage /\ CallOut
  BY DEF Init, Stage, CallOut
<1> QED
  BY <1>2, <1>3, <1>4, <1>5, <1>6 DEF IInv

LEMMA SubmitStep ==
  ASSUME IInv, NEW b \in Block, NEW a \in Ask, Submit(b, a)
  PROVE  IInv'
<1>1. /\ cpu = "thread" /\ caller = Null /\ ask[b] = Null
      /\ a = "wait" => \A c \in Block : ask[c] # "wait"
      /\ ask' = [ask EXCEPT ![b] = a]
      /\ outbox' = Append(outbox, b) /\ caller' = b /\ elapsed' = 0
      /\ cpu' \in {"call_msg", "thread"}
      /\ ios' = ios /\ credit' = credit /\ got' = got
  BY DEF Submit
<1>2. /\ ask \in [Block -> Ask \cup {Null}] /\ outbox \in Seq(Block) /\ ios \in Ios
      /\ got = Null /\ Null \notin Block
  BY <1>1, IosIpcAssumption DEF IInv, TypeOK, Healthy, Stage
<1>3. outbox' \in Seq(Block) /\ outbox' # <<>>
  BY <1>1, <1>2, AppendProperties
<1>4. InIos(ios, b) = 0 /\ Total(outbox, cpu, ios, got, b) = 0
  BY <1>1, Where
<1>5. /\ ios.waiting # b /\ ~Seen(ios, b)
      /\ \A e \in Nat : Away(ios.replies, b, e)
  BY <1>2, <1>4, Nowhere
<1>6. TypeOK'
  BY <1>1, <1>2, <1>3, IosIpcAssumption DEF IInv, TypeOK, Cpu
<1>7. Healthy(ios)'
  BY <1>1 DEF IInv, Healthy, InOrder
<1>8. (Patient(ios) /\ OneWaits)'
  <2>1. \A c \in Block : ask'[c] = IF c = b THEN a ELSE ask[c]
    BY <1>1, <1>2
  <2>2. Patient(ios)'
    <3>1. ios.waiting # Null => ios.waiting \in Block /\ ask[ios.waiting] = "wait"
      BY <1>2 DEF IInv, Patient, Ios
    <3> QED
      BY <1>1, <1>5, <2>1, <3>1 DEF Patient
  <2>3. OneWaits'
    BY <1>1, <2>1 DEF IInv, OneWaits
  <2> QED
    BY <2>2, <2>3
<1>9. Accounted'
  <2> SUFFICES ASSUME NEW c \in Block
               PROVE  Total(outbox', cpu', ios', got', c) = IF ask'[c] = Null THEN 0 ELSE 1
    BY DEF Accounted
  <2>1. Count(outbox', {c}) = Count(outbox, {c}) + (IF b = c THEN 1 ELSE 0)
    BY <1>1, <1>2, CountAppend
  <2>2. Count(outbox, {c}) \in Nat /\ InIos(ios, c) \in Nat
    BY Where
  <2>3. Total(outbox', cpu', ios', got', c)
        = Total(outbox, cpu, ios, got, c) + (IF b = c THEN 1 ELSE 0)
    BY <1>1, <2>1, <2>2 DEF Total
  <2>4. Total(outbox, cpu, ios, got, c) = IF ask[c] = Null THEN 0 ELSE 1
    BY DEF IInv, Accounted
  <2>5. ask'[c] = (IF b = c THEN a ELSE ask[c]) /\ a # Null
    BY <1>1, <1>2, IosIpcAssumption
  <2> QED
    BY <1>1, <2>3, <2>4, <2>5
<1>10. Stage'
  BY <1>1, <1>2, <1>3 DEF Stage
<1>11. CallOut'
  BY <1>1, <1>2, <1>5, IosIpcAssumption DEF CallOut, Away, Seen
<1> QED
  BY <1>6, <1>7, <1>8, <1>9, <1>10, <1>11 DEF IInv

\* The client only looks, or its call returns.
LEMMA LookStep ==
  ASSUME IInv, CallReturns \/ Interrupt \/ IrqRead \/ IrqAck
  PROVE  IInv'
<1>1. /\ ios' = ios /\ ask' = ask /\ outbox' = outbox /\ credit' = credit
      /\ elapsed' = elapsed
  BY DEF CallReturns, Interrupt, IrqRead, IrqAck
<1>2. /\ ios \in Ios /\ got \in Block \cup {Null} /\ caller \in Block \cup {Null}
      /\ Null \notin Block
  BY IosIpcAssumption DEF IInv, TypeOK, Healthy
<1>3. /\ cpu' \in Cpu /\ got' \in Block \cup {Null}
      /\ caller' \in {caller, Null}
  BY <1>2 DEF CallReturns, Interrupt, IrqRead, IrqAck, IInv, TypeOK, Cpu, Ios
<1>4. TypeOK'
  BY <1>1, <1>2, <1>3 DEF IInv, TypeOK
<1>5. Healthy(ios)'
  BY <1>1 DEF IInv, Healthy, InOrder
<1>6. (Patient(ios) /\ OneWaits)'
  BY <1>1 DEF IInv, Patient, OneWaits
<1>7. /\ cpu \notin {"call_x1", "irq_x1", "irq_flag1", "irq_x2"}
      /\ cpu' \notin {"call_x1", "irq_x1", "irq_flag1", "irq_x2"}
      \/ (cpu' = cpu /\ got' = got)
  BY DEF CallReturns, Interrupt, IrqRead, IrqAck
<1>8. Accounted'
  <2> SUFFICES ASSUME NEW b \in Block
               PROVE  Total(outbox', cpu', ios', got', b) = Total(outbox, cpu, ios, got, b)
    BY <1>1 DEF IInv, Accounted
  <2> QED
    BY <1>1, <1>7 DEF Total
<1>9. Stage' /\ CallOut'
  <2>1. CASE CallReturns
    BY <1>1, <2>1 DEF CallReturns, IInv, Stage, CallOut
  <2>2. CASE Interrupt
    BY <1>1, <2>2 DEF Interrupt, IInv, Stage, CallOut
  <2>3. CASE IrqRead
    <3>1. CASE ios.y1
      <4>1. cpu' = "irq_y1" /\ got' = ios.arm_msg /\ caller' = caller
        BY <2>3, <3>1 DEF IrqRead
      <4>2. got' \in Block
        BY <3>1, <4>1 DEF IInv, Healthy
      <4>3. Stage'
        BY <1>1, <1>2, <3>1, <4>1, <4>2 DEF Stage
      <4>4. CallOut'
        BY <1>1, <3>1, <4>1 DEF IInv, CallOut, Seen
      <4> QED
        BY <4>3, <4>4
    <3>2. CASE ~ios.y1
      <4>1. cpu' = "irq_ack" /\ got' = got /\ caller' = caller /\ cpu = "irq_read"
        BY <2>3, <3>2 DEF IrqRead
      <4> QED
        BY <1>1, <4>1 DEF IInv, Stage, CallOut
    <3> QED
      BY <3>1, <3>2
  <2>4. CASE IrqAck
    BY <1>1, <2>4 DEF IrqAck, IInv, Stage, CallOut
  <2> QED
    BY <2>1, <2>2, <2>3, <2>4
<1> QED
  BY <1>4, <1>5, <1>6, <1>8, <1>9 DEF IInv

\* The client puts a block's address in PPCMSG.
LEMMA SendMsgStep ==
  ASSUME IInv, SendMsg
  PROVE  IInv'
<1> DEFINE b == Head(outbox)
<1>1. /\ cpu \in {"call_msg", "irq_msg"}
      /\ ios' = [ios EXCEPT !.ppc_msg = b]
      /\ outbox' = Tail(outbox) /\ credit' = FALSE
      /\ cpu' \in {"call_x1", "irq_x1"}
      /\ ask' = ask /\ got' = got /\ caller' = caller /\ elapsed' = elapsed
  BY DEF SendMsg, WriteMsg
<1>2. outbox \in Seq(Block) /\ outbox # <<>> /\ ios \in Ios /\ Null \notin Block
  BY <1>1, IosIpcAssumption DEF IInv, TypeOK, Stage, Healthy
<1>3. b \in Block /\ Tail(outbox) \in Seq(Block)
  BY <1>2, HeadTailProperties
<1>4. ios' \in Ios
  BY <1>1, <1>2, <1>3 DEF Ios
<1>5. /\ ios'.iy1 = ios.iy1 /\ ios'.iy2 = ios.iy2 /\ ios'.y1 = ios.y1 /\ ios'.y2 = ios.y2
      /\ ios'.irq = ios.irq /\ ios'.arm_msg = ios.arm_msg /\ ios'.waiting = ios.waiting
      /\ ios'.requests = ios.requests /\ ios'.replies = ios.replies /\ ios'.ppc_msg = b
  BY <1>1, <1>2 DEF Ios
<1> HIDE DEF b
<1>6. TypeOK'
  BY <1>1, <1>2, <1>3, <1>4 DEF IInv, TypeOK, Cpu, Ios, Cell
<1>7. Healthy(ios)'
  BY <1>4, <1>5 DEF IInv, Healthy, InOrder
<1>8. (Patient(ios) /\ OneWaits)'
  BY <1>1, <1>5 DEF IInv, Patient, OneWaits
<1>9. Accounted'
  <2> SUFFICES ASSUME NEW c \in Block
               PROVE  Total(outbox', cpu', ios', got', c) = Total(outbox, cpu, ios, got, c)
    BY <1>1 DEF IInv, Accounted
  <2>1. Count(outbox, {c}) = Count(outbox', {c}) + (IF b = c THEN 1 ELSE 0)
    BY <1>1, <1>2, CountTail DEF b
  <2>2. InIos(ios', c) = InIos(ios, c)
    BY <1>5 DEF InIos
  <2>3. Count(outbox', {c}) \in Nat /\ InIos(ios, c) \in Nat
    BY <1>1, <1>3, CountType, Where
  <2> QED
    BY <1>1, <1>5, <2>1, <2>2, <2>3 DEF Total
<1>10. Stage' /\ CallOut'
  BY <1>1, <1>3, <1>5 DEF IInv, Stage, CallOut, Away, Seen
<1> QED
  BY <1>6, <1>7, <1>8, <1>9, <1>10 DEF IInv

\* The client writes PPCCTRL: the registers before IOS's round.
Written(s, v) ==
  LET t == [s EXCEPT !.x1 = "x1" \in v,
                     !.y1 = @ /\ "y1" \notin v, !.y2 = @ /\ "y2" \notin v,
                     !.iy1 = "iy1" \in v, !.iy2 = "iy2" \in v,
                     !.irq = @ \/ {"y1", "iy1"} \subseteq v \/ {"y2", "iy2"} \subseteq v]
  IN  IF t.x1 THEN [t EXCEPT !.requests = Append(@, t.ppc_msg)] ELSE t

LEMMA WrittenFields ==
  ASSUME NEW s, Healthy(s), NEW v, Enables \subseteq v,
         "x1" \in v => s.ppc_msg \in Block
  PROVE  LET w == Written(s, v)
         IN  /\ WriteCtrl(s, v) = Update(w)
             /\ Healthy(w)
             /\ w.y1 = (s.y1 /\ "y1" \notin v) /\ w.y2 = (s.y2 /\ "y2" \notin v)
             /\ w.irq = (s.irq \/ "y1" \in v \/ "y2" \in v)
             /\ w.ppc_msg = s.ppc_msg /\ w.arm_msg = s.arm_msg
             /\ w.waiting = s.waiting /\ w.replies = s.replies
             /\ w.requests = IF "x1" \in v THEN Append(s.requests, s.ppc_msg)
                                           ELSE s.requests
<1> DEFINE w == Written(s, v)
           t == [s EXCEPT !.x1 = "x1" \in v,
                          !.y1 = @ /\ "y1" \notin v, !.y2 = @ /\ "y2" \notin v,
                          !.iy1 = "iy1" \in v, !.iy2 = "iy2" \in v,
                          !.irq = @ \/ {"y1", "iy1"} \subseteq v \/ {"y2", "iy2"} \subseteq v]
<1>1. s \in Ios /\ "iy1" \in v /\ "iy2" \in v
  BY DEF Healthy, Enables
<1>2. /\ t \in Ios
      /\ t.x1 = ("x1" \in v) /\ t.iy1 /\ t.iy2
      /\ t.y1 = (s.y1 /\ "y1" \notin v) /\ t.y2 = (s.y2 /\ "y2" \notin v)
      /\ t.irq = (s.irq \/ "y1" \in v \/ "y2" \in v)
      /\ t.ppc_msg = s.ppc_msg /\ t.arm_msg = s.arm_msg
      /\ t.waiting = s.waiting /\ t.replies = s.replies /\ t.requests = s.requests
  <2>1. /\ {"y1", "iy1"} \subseteq v <=> "y1" \in v
        /\ {"y2", "iy2"} \subseteq v <=> "y2" \in v
    BY <1>1
  <2>2. /\ s.y1 \in BOOLEAN /\ s.y2 \in BOOLEAN /\ s.irq \in BOOLEAN
        /\ s.ppc_msg \in Block \cup {Null} /\ s.arm_msg \in Block \cup {Null}
        /\ s.waiting \in Block \cup {Null} /\ s.replies \in Seq(Cell)
        /\ s.requests \in Seq(Block)
    BY <1>1 DEF Ios
  <2>4. /\ t.x1 = ("x1" \in v) /\ t.iy1 = ("iy1" \in v) /\ t.iy2 = ("iy2" \in v)
        /\ t.ppc_msg = s.ppc_msg /\ t.arm_msg = s.arm_msg
        /\ t.waiting = s.waiting /\ t.replies = s.replies /\ t.requests = s.requests
    BY <1>1 DEF Ios
  <2>5. t.y1 = (s.y1 /\ "y1" \notin v) /\ t.y2 = (s.y2 /\ "y2" \notin v)
    BY <1>1 DEF Ios
  <2>6. t.irq = (s.irq \/ {"y1", "iy1"} \subseteq v \/ {"y2", "iy2"} \subseteq v)
    BY <1>1 DEF Ios
  <2>7. /\ t.x1 \in BOOLEAN /\ t.iy1 \in BOOLEAN /\ t.iy2 \in BOOLEAN
        /\ t.y1 \in BOOLEAN /\ t.y2 \in BOOLEAN /\ t.irq \in BOOLEAN
    <3> HIDE DEF t
    <3> QED
      BY <2>4, <2>5, <2>6
  <2>8. t \in Ios
    <3>1. \A y1, y2, irq \in BOOLEAN :
            [s EXCEPT !.x1 = "x1" \in v, !.y1 = y1, !.y2 = y2,
                      !.iy1 = "iy1" \in v, !.iy2 = "iy2" \in v, !.irq = irq] \in Ios
      <4>1. ("x1" \in v) \in BOOLEAN /\ ("iy1" \in v) \in BOOLEAN /\ ("iy2" \in v) \in BOOLEAN
        OBVIOUS
      <4> SUFFICES ASSUME NEW y1 \in BOOLEAN, NEW y2 \in BOOLEAN, NEW irq \in BOOLEAN
                   PROVE  [s EXCEPT !.x1 = "x1" \in v, !.y1 = y1, !.y2 = y2,
                                    !.iy1 = "iy1" \in v, !.iy2 = "iy2" \in v,
                                    !.irq = irq] \in Ios
        OBVIOUS
      <4>2. \A x, iy1, iy2 \in BOOLEAN :
              [s EXCEPT !.x1 = x, !.y1 = y1, !.y2 = y2,
                        !.iy1 = iy1, !.iy2 = iy2, !.irq = irq] \in Ios
        BY <1>1 DEF Ios
      <4> QED
        BY <4>1, <4>2, Zenon
    <3>2. \A y2, irq \in BOOLEAN :
            [s EXCEPT !.x1 = "x1" \in v, !.y1 = s.y1 /\ "y1" \notin v, !.y2 = y2,
                      !.iy1 = "iy1" \in v, !.iy2 = "iy2" \in v, !.irq = irq] \in Ios
      <4>1. (s.y1 /\ "y1" \notin v) \in BOOLEAN
        OBVIOUS
      <4> QED
        BY <3>1, <4>1, Zenon
    <3>3. \A irq \in BOOLEAN :
            [s EXCEPT !.x1 = "x1" \in v, !.y1 = s.y1 /\ "y1" \notin v,
                      !.y2 = s.y2 /\ "y2" \notin v,
                      !.iy1 = "iy1" \in v, !.iy2 = "iy2" \in v, !.irq = irq] \in Ios
      <4>1. (s.y2 /\ "y2" \notin v) \in BOOLEAN
        OBVIOUS
      <4> QED
        BY <3>2, <4>1, Zenon
    <3>4. (s.irq \/ {"y1", "iy1"} \subseteq v \/ {"y2", "iy2"} \subseteq v) \in BOOLEAN
      OBVIOUS
    <3> QED
      BY <3>3, <3>4, Zenon
  <2> HIDE DEF t
  <2> QED
    BY <1>1, <2>1, <2>4, <2>5, <2>6, <2>8
<1>3. w = IF "x1" \in v THEN [t EXCEPT !.requests = Append(s.requests, s.ppc_msg)] ELSE t
  <2>1. w = IF t.x1 THEN [t EXCEPT !.requests = Append(@, t.ppc_msg)] ELSE t
    BY DEF Written
  <2> HIDE DEF t, w
  <2> QED
    BY <1>2, <2>1 DEF Ios
<1>4. WriteCtrl(s, v) = Update(w)
  BY DEF WriteCtrl, Written
<1> HIDE DEF t
<1>5. "x1" \in v => Append(s.requests, s.ppc_msg) \in Seq(Block)
  BY <1>1, AppendProperties DEF Ios
<1>6. /\ w \in Ios
      /\ w.iy1 /\ w.iy2 /\ w.y1 = t.y1 /\ w.y2 = t.y2 /\ w.irq = t.irq
      /\ w.ppc_msg = t.ppc_msg /\ w.arm_msg = t.arm_msg
      /\ w.waiting = t.waiting /\ w.replies = t.replies
      /\ w.requests = IF "x1" \in v THEN Append(s.requests, s.ppc_msg) ELSE s.requests
  <2>1. CASE "x1" \in v
    BY <1>2, <1>3, <1>5, <2>1 DEF Ios
  <2>2. CASE "x1" \notin v
    BY <1>2, <1>3, <2>2
  <2> QED
    BY <2>1, <2>2
<1> HIDE DEF w
<1>7. Healthy(w)
  BY <1>1, <1>2, <1>6 DEF Healthy
<1> QED
  BY <1>2, <1>4, <1>6, <1>7 DEF w

\* The client writes X1: IOS has another request.
LEMMA SendX1Step ==
  ASSUME IInv, SendX1
  PROVE  IInv'
<1> DEFINE v == Enables \cup {"x1"}
           w == Written(ios, v)
           b == ios.ppc_msg
<1>1. /\ cpu \in {"call_x1", "irq_x1"}
      /\ ios' = WriteCtrl(ios, v) /\ cpu' = "thread"
      /\ ask' = ask /\ outbox' = outbox /\ credit' = credit
      /\ got' = got /\ caller' = caller /\ elapsed' = elapsed
  BY DEF SendX1
<1>2. Healthy(ios) /\ ios \in Ios /\ b \in Block
  BY <1>1 DEF IInv, Stage, Healthy
<1>3. /\ ios' = Update(w) /\ Healthy(w) /\ w \in Ios
      /\ w.y1 = ios.y1 /\ w.ppc_msg = b /\ w.arm_msg = ios.arm_msg
      /\ w.waiting = ios.waiting /\ w.replies = ios.replies
      /\ w.requests = Append(ios.requests, b)
  <2>1. /\ "x1" \in v /\ Enables \subseteq v /\ "y1" \notin v
        /\ ios.y1 \in BOOLEAN
    BY <1>2 DEF Enables, Ios
  <2> HIDE DEF v
  <2>2. /\ WriteCtrl(ios, v) = Update(w) /\ Healthy(w)
        /\ w.y1 = (ios.y1 /\ "y1" \notin v)
        /\ w.ppc_msg = ios.ppc_msg /\ w.arm_msg = ios.arm_msg
        /\ w.waiting = ios.waiting /\ w.replies = ios.replies
        /\ w.requests = IF "x1" \in v THEN Append(ios.requests, ios.ppc_msg)
                                      ELSE ios.requests
    BY <1>2, <2>1, WrittenFields
  <2> QED
    BY <1>1, <2>1, <2>2 DEF Healthy
<1> HIDE DEF v, w, b
<1>4. \A c \in Block : InIos(w, c) = InIos(ios, c) + (IF b = c THEN 1 ELSE 0)
  <2> SUFFICES ASSUME NEW c \in Block
               PROVE  InIos(w, c) = InIos(ios, c) + (IF b = c THEN 1 ELSE 0)
    OBVIOUS
  <2>1. Count(w.requests, {c}) = Count(ios.requests, {c}) + (IF b = c THEN 1 ELSE 0)
    <3>1. ios.requests \in Seq(Block)
      BY <1>2 DEF Ios
    <3> QED
      BY <1>2, <1>3, <3>1, CountAppend
  <2>2. Count(ios.requests, {c}) \in Nat /\ Count(ios.replies, Cells(c)) \in Nat
    BY <1>2, InIosType
  <2> QED
    BY <1>3, <2>1, <2>2 DEF InIos
<1>5. \A c \in Block : InIos(w, c) <= 1
  <2> SUFFICES ASSUME NEW c \in Block
               PROVE  InIos(w, c) <= 1
    OBVIOUS
  <2>1. InIos(w, c) = InIos(ios, c) + (IF b = c THEN 1 ELSE 0)
    BY <1>4
  <2>2. InIos(ios, c) \in Nat /\ InIos(ios, c) <= 1 /\ (b = c => InIos(ios, c) = 0)
    BY <1>1, Where DEF b
  <2> QED
    BY <2>1, <2>2
<1>6. Patient(w)
  BY <1>3 DEF IInv, Patient
<1>7. caller # Null => Away(w.replies, caller, elapsed) /\ ~Seen(w, caller)
  BY <1>3 DEF IInv, CallOut, Seen
<1>8. /\ Healthy(ios') /\ ios' \in Ios /\ Patient(ios')
      /\ ios'.ppc_msg = ios.ppc_msg
      /\ \A c \in Block : InIos(ios', c) = InIos(w, c)
      /\ caller # Null => Away(ios'.replies, caller, elapsed) /\ ~Seen(ios', caller)
  BY <1>3, <1>5, <1>6, <1>7, AfterUpdate DEF b
<1>9. TypeOK'
  BY <1>1, <1>8 DEF IInv, TypeOK, Ios, Cell, Cpu
<1>10. (Healthy(ios) /\ Patient(ios) /\ OneWaits)'
  BY <1>1, <1>8 DEF IInv, Patient, OneWaits, Healthy
<1>11. Accounted'
  <2> SUFFICES ASSUME NEW c \in Block
               PROVE  Total(outbox', cpu', ios', got', c) = Total(outbox, cpu, ios, got, c)
    BY <1>1 DEF IInv, Accounted
  <2>1. InIos(ios', c) = InIos(ios, c) + (IF b = c THEN 1 ELSE 0)
    BY <1>4, <1>8
  <2>2. Count(outbox, {c}) \in Nat /\ InIos(ios, c) \in Nat
    BY Where
  <2> QED
    BY <1>1, <2>1, <2>2 DEF Total, b
<1>12. Stage' /\ CallOut'
  BY <1>1, <1>8 DEF IInv, Stage, CallOut
<1> QED
  BY <1>9, <1>10, <1>11, <1>12 DEF IInv

\* A round of IOS, from t on, that leaves the client's queue and what its call
\* and its handler hold as they are.
LEMMA RoundStep ==
  ASSUME IInv, NEW t, Healthy(t), Patient(t),
         \A b \in Block : InIos(t, b) = InIos(ios, b),
         t.ppc_msg = ios.ppc_msg,
         caller # Null => Away(t.replies, caller, elapsed) /\ ~Seen(t, caller),
         ios' = Update(t),
         ask' = ask /\ outbox' = outbox /\ caller' = caller /\ elapsed' = elapsed /\ got' = got,
         credit' \in BOOLEAN, cpu' \in Cpu,
         cpu' \in {"call_x1", "irq_x1"} <=> cpu \in {"call_x1", "irq_x1"},
         cpu' \in {"irq_flag1", "irq_x2"} <=> cpu \in {"irq_flag1", "irq_x2"}
  PROVE  /\ ios'.ppc_msg = ios.ppc_msg
         /\ ~Ready(t) => ios' = t
         /\ Stage' => IInv'
<1>1. \A b \in Block : InIos(t, b) <= 1
  BY Where
<1>2. /\ Healthy(ios') /\ ios' \in Ios /\ Patient(ios')
      /\ ios'.ppc_msg = ios.ppc_msg
      /\ \A b \in Block : InIos(ios', b) = InIos(t, b)
      /\ caller # Null => Away(ios'.replies, caller, elapsed) /\ ~Seen(ios', caller)
      /\ ~Ready(t) => ios' = t
  BY <1>1, AfterUpdate
<1>3. TypeOK'
  BY <1>2 DEF IInv, TypeOK, Ios, Cell
<1>4. (Healthy(ios) /\ Patient(ios) /\ OneWaits)'
  BY <1>2 DEF IInv, Patient, OneWaits, Healthy
<1>5. Accounted'
  <2> SUFFICES ASSUME NEW c \in Block
               PROVE  Total(outbox', cpu', ios', got', c) = Total(outbox, cpu, ios, got, c)
    BY DEF IInv, Accounted
  <2> QED
    BY <1>2 DEF Total
<1>6. CallOut'
  BY <1>2 DEF IInv, CallOut
<1> QED
  BY <1>2, <1>3, <1>4, <1>5, <1>6 DEF IInv

\* The replies' times change, and what they answer does not.
LEMMA LeftStep ==
  ASSUME NEW s, Healthy(s), NEW q \in Seq(Cell), DOMAIN q = DOMAIN s.replies,
         \A i \in DOMAIN q : q[i].addr = s.replies[i].addr, InOrder(q)
  PROVE  LET t == [s EXCEPT !.replies = q]
         IN  /\ Healthy(t)
             /\ t.replies = q /\ t.ppc_msg = s.ppc_msg /\ t.waiting = s.waiting
             /\ t.y1 = s.y1 /\ t.y2 = s.y2 /\ t.irq = s.irq /\ t.arm_msg = s.arm_msg
             /\ \A c \in Block : InIos(t, c) = InIos(s, c)
<1> DEFINE t == [s EXCEPT !.replies = q]
<1>1. s \in Ios /\ s.replies \in Seq(Cell)
  BY DEF Healthy, Ios
<1>2. t \in Ios
  BY <1>1 DEF Ios
<1>3. /\ t.iy1 = s.iy1 /\ t.iy2 = s.iy2 /\ t.y1 = s.y1 /\ t.y2 = s.y2
      /\ t.irq = s.irq /\ t.arm_msg = s.arm_msg /\ t.waiting = s.waiting
      /\ t.requests = s.requests /\ t.replies = q /\ t.ppc_msg = s.ppc_msg
  BY <1>1 DEF Ios
<1> HIDE DEF t
<1>4. Healthy(t)
  BY <1>2, <1>3 DEF Healthy
<1>5. ASSUME NEW c \in Block
      PROVE  InIos(t, c) = InIos(s, c)
  <2>1. \A i \in DOMAIN q : q[i] \in Cell /\ s.replies[i] \in Cell
    BY <1>1, LenProperties, ElementOfSeq
  <2>2. \A i \in DOMAIN q : q[i] \in Cells(c) <=> s.replies[i] \in Cells(c)
    BY <2>1 DEF Cells
  <2>3. Spots(q, Cells(c)) = Spots(s.replies, Cells(c))
    BY <2>2 DEF Spots
  <2>4. Count(q, Cells(c)) = Count(s.replies, Cells(c))
    BY <2>3 DEF Count
  <2> QED
    BY <1>3, <2>4 DEF InIos
<1> QED
  BY <1>3, <1>4, <1>5 DEF t

\* The clock ticks.
LEMMA TickStep ==
  ASSUME IInv, Tick
  PROVE  IInv'
<1>1. /\ ios' = Update(ios) /\ ask' = ask /\ outbox' = outbox /\ credit' = credit
      /\ cpu' = cpu /\ got' = got /\ caller' = caller /\ elapsed' = elapsed
  BY DEF Tick
<1>2. /\ ios'.ppc_msg = ios.ppc_msg
      /\ ~Ready(ios) => ios' = ios
      /\ Stage' => IInv'
  <2>1. /\ Healthy(ios) /\ Patient(ios) /\ credit \in BOOLEAN /\ cpu \in Cpu
        /\ caller # Null => Away(ios.replies, caller, elapsed) /\ ~Seen(ios, caller)
    BY DEF IInv, TypeOK, CallOut
  <2> QED
    BY <1>1, <2>1, RoundStep
<1>3. Stage'
  BY <1>1, <1>2 DEF IInv, Stage, Ready
<1> QED
  BY <1>2, <1>3

\* The processor idles, with no call under way.
LEMMA IdleStep ==
  ASSUME IInv, CpuIdle
  PROVE  IInv'
<1> DEFINE q == [i \in DOMAIN ios.replies |-> [ios.replies[i] EXCEPT !.left = 0]]
           t == [ios EXCEPT !.replies = q]
<1>1. /\ cpu = "thread" /\ caller = Null /\ ios' = Idle(ios)
      /\ ask' = ask /\ outbox' = outbox /\ credit' = credit
      /\ cpu' = cpu /\ got' = got /\ caller' = caller /\ elapsed' = elapsed
  BY DEF CpuIdle
<1>2. Healthy(ios) /\ ios \in Ios /\ ios.replies \in Seq(Cell) /\ Patient(ios)
  BY DEF IInv, Healthy, Ios
<1>3. ios' = Update(t)
  BY <1>1, <1>2 DEF Idle, Ios
<1>4. /\ DOMAIN ios.replies = 1..Len(ios.replies) /\ Len(ios.replies) \in Nat
      /\ \A i \in DOMAIN ios.replies : ios.replies[i] \in Cell
  BY <1>2, LenProperties, ElementOfSeq
<1>5. \A i \in DOMAIN ios.replies : /\ q[i] \in Cell /\ q[i].left = 0
                                   /\ q[i].addr = ios.replies[i].addr
  BY <1>4, IosIpcAssumption DEF Cell
<1>6. DOMAIN q = DOMAIN ios.replies
  OBVIOUS
<1>7. q \in Seq(Cell)
  <2>1. q \in [1..Len(ios.replies) -> Cell]
    BY <1>4, <1>5
  <2> QED
    BY <1>4, <2>1, SeqDef
<1> HIDE DEF q
<1>8. InOrder(q)
  BY <1>5, <1>6 DEF InOrder
<1>9. /\ Healthy(t) /\ t.ppc_msg = ios.ppc_msg /\ t.waiting = ios.waiting
      /\ \A c \in Block : InIos(t, c) = InIos(ios, c)
  BY <1>2, <1>5, <1>6, <1>7, <1>8, LeftStep
<1> HIDE DEF t
<1>10. /\ ios'.ppc_msg = ios.ppc_msg
       /\ Stage' => IInv'
  <2>1. Patient(t) /\ credit \in BOOLEAN /\ cpu \in Cpu
    BY <1>2, <1>9 DEF IInv, TypeOK, Patient
  <2> QED
    BY <1>1, <1>3, <1>9, <2>1, RoundStep
<1>11. Stage'
  BY <1>1 DEF IInv, Stage
<1> QED
  BY <1>10, <1>11

\* The handler clears the interrupt flag, and IOS goes on.
LEMMA FlagStep ==
  ASSUME IInv, IrqClearFlag1 \/ IrqClearFlag2
  PROVE  IInv'
<1> DEFINE t == [ios EXCEPT !.irq = FALSE]
<1>1. /\ cpu \in {"irq_flag1", "irq_flag2"} /\ ios' = Update(t)
      /\ ask' = ask /\ outbox' = outbox
      /\ got' = got /\ caller' = caller /\ elapsed' = elapsed
  BY DEF IrqClearFlag1, IrqClearFlag2, IrqFlagClear
<1>2. /\ cpu = "irq_flag1" => cpu' = "irq_x2" /\ credit' = credit
      /\ cpu = "irq_flag2" => /\ cpu' \in {"thread", "irq_msg"} /\ credit' = TRUE
                              /\ cpu' = "irq_msg" => outbox # <<>>
  BY DEF IrqClearFlag1, IrqClearFlag2
<1>3. Healthy(ios) /\ ios \in Ios /\ ~ios.y1 /\ ~ios.y2
  BY <1>1 DEF IInv, Healthy, Stage
<1>4. t \in Ios
  BY <1>3 DEF Ios
<1>5. /\ t.iy1 = ios.iy1 /\ t.iy2 = ios.iy2 /\ t.y1 = ios.y1 /\ t.y2 = ios.y2
      /\ t.arm_msg = ios.arm_msg /\ t.waiting = ios.waiting /\ t.ppc_msg = ios.ppc_msg
      /\ t.requests = ios.requests /\ t.replies = ios.replies
  BY <1>3 DEF Ios
<1> HIDE DEF t
<1>6. Healthy(t)
  BY <1>3, <1>4, <1>5 DEF Healthy
<1>7. \A c \in Block : InIos(t, c) = InIos(ios, c)
  BY <1>5 DEF InIos
<1>8. /\ Patient(t)
      /\ caller # Null => Away(t.replies, caller, elapsed) /\ ~Seen(t, caller)
  BY <1>5 DEF IInv, Patient, CallOut, Seen
<1>9. /\ credit' \in BOOLEAN /\ cpu' \in Cpu
      /\ cpu' \in {"call_x1", "irq_x1"} <=> cpu \in {"call_x1", "irq_x1"}
      /\ cpu' \in {"irq_flag1", "irq_x2"} <=> cpu \in {"irq_flag1", "irq_x2"}
  BY <1>1, <1>2 DEF IInv, TypeOK, Cpu
<1>10. Stage' => IInv'
  BY <1>1, <1>5, <1>6, <1>7, <1>8, <1>9, RoundStep
<1>11. Stage'
  BY <1>1, <1>2 DEF IInv, Stage
<1> QED
  BY <1>10, <1>11

\* The handler writes Y2: the acknowledgement is taken, and the line is raised.
LEMMA ClearY2Step ==
  ASSUME IInv, IrqClearY2
  PROVE  IInv'
<1> DEFINE v == Enables \cup {"y2"}
           w == Written(ios, v)
<1>1. /\ cpu = "irq_y2" /\ ios' = WriteCtrl(ios, v) /\ cpu' = "irq_flag2"
      /\ ask' = ask /\ outbox' = outbox /\ credit' = credit
      /\ got' = got /\ caller' = caller /\ elapsed' = elapsed
  BY DEF IrqClearY2
<1>2. Healthy(ios) /\ ios \in Ios /\ ~ios.y1
  BY <1>1 DEF IInv, Healthy, Stage
<1>3. /\ ios' = Update(w) /\ Healthy(w)
      /\ ~w.y1 /\ ~w.y2 /\ w.irq
      /\ w.ppc_msg = ios.ppc_msg /\ w.arm_msg = ios.arm_msg
      /\ w.waiting = ios.waiting /\ w.replies = ios.replies
      /\ w.requests = ios.requests
  <2>1. Enables \subseteq v /\ "x1" \notin v /\ "y2" \in v
    BY DEF Enables
  <2> HIDE DEF v
  <2>2. /\ WriteCtrl(ios, v) = Update(w) /\ Healthy(w)
        /\ w.y1 = (ios.y1 /\ "y1" \notin v) /\ w.y2 = (ios.y2 /\ "y2" \notin v)
        /\ w.irq = (ios.irq \/ "y1" \in v \/ "y2" \in v)
        /\ w.ppc_msg = ios.ppc_msg /\ w.arm_msg = ios.arm_msg
        /\ w.waiting = ios.waiting /\ w.replies = ios.replies
        /\ w.requests = ios.requests
    BY <1>2, <2>1, WrittenFields
  <2>3. ~w.y1 /\ ~w.y2 /\ w.irq
    BY <1>2, <2>1, <2>2
  <2> QED
    BY <1>1, <2>2, <2>3
<1> HIDE DEF v, w
<1>4. \A c \in Block : InIos(w, c) = InIos(ios, c)
  BY <1>2, <1>3 DEF InIos
<1>5. /\ Patient(w)
      /\ caller # Null => Away(w.replies, caller, elapsed) /\ ~Seen(w, caller)
  BY <1>3 DEF IInv, Patient, CallOut, Seen
<1>6. /\ ~Ready(w) => ios' = w
      /\ Stage' => IInv'
  <2>1. credit' \in BOOLEAN /\ cpu' \in Cpu
    BY <1>1 DEF IInv, TypeOK, Cpu
  <2> QED
    BY <1>1, <1>3, <1>4, <1>5, <2>1, RoundStep
<1>7. Stage'
  <2>1. ios' = w
    BY <1>3, <1>6 DEF Ready
  <2> QED
    BY <1>1, <1>3, <2>1 DEF IInv, Stage
<1> QED
  BY <1>6, <1>7

\* The handler writes Y1: the reply it has read leaves the mailbox.
LEMMA ClearY1Step ==
  ASSUME IInv, IrqClearY1
  PROVE  IInv'
<1> DEFINE v == Enables \cup {"y1"}
           w == Written(ios, v)
<1>1. /\ cpu = "irq_y1" /\ ios' = WriteCtrl(ios, v) /\ cpu' = "irq_flag1"
      /\ ask' = ask /\ outbox' = outbox /\ credit' = credit
      /\ got' = got /\ caller' = caller /\ elapsed' = elapsed
  BY DEF IrqClearY1
<1>2. /\ Healthy(ios) /\ ios \in Ios /\ ios.y1 /\ ~ios.y2 /\ got = ios.arm_msg
  BY <1>1 DEF IInv, Healthy, Stage
<1>3. /\ ios' = Update(w) /\ Healthy(w) /\ w \in Ios
      /\ ~w.y1 /\ ~w.y2 /\ w.irq
      /\ w.ppc_msg = ios.ppc_msg /\ w.arm_msg = ios.arm_msg
      /\ w.waiting = ios.waiting /\ w.replies = ios.replies
      /\ w.requests = ios.requests
  <2>1. Enables \subseteq v /\ "x1" \notin v /\ "y1" \in v
    BY DEF Enables
  <2> HIDE DEF v
  <2>2. /\ WriteCtrl(ios, v) = Update(w) /\ Healthy(w)
        /\ w.y1 = (ios.y1 /\ "y1" \notin v) /\ w.y2 = (ios.y2 /\ "y2" \notin v)
        /\ w.irq = (ios.irq \/ "y1" \in v \/ "y2" \in v)
        /\ w.ppc_msg = ios.ppc_msg /\ w.arm_msg = ios.arm_msg
        /\ w.waiting = ios.waiting /\ w.replies = ios.replies
        /\ w.requests = ios.requests
    BY <1>2, <2>1, WrittenFields
  <2>3. ~w.y1 /\ ~w.y2 /\ w.irq
    BY <1>2, <2>1, <2>2
  <2> QED
    BY <1>1, <2>2, <2>3 DEF Healthy
<1> HIDE DEF v, w
<1>4. ios' = w
  BY <1>3 DEF Update, Ready
<1>5. TypeOK'
  BY <1>1, <1>3, <1>4 DEF IInv, TypeOK, Cpu, Ios, Cell
<1>6. (Healthy(ios) /\ Patient(ios) /\ OneWaits)'
  BY <1>1, <1>3, <1>4 DEF IInv, Patient, OneWaits, Healthy, InOrder
<1>7. Accounted'
  <2> SUFFICES ASSUME NEW c \in Block
               PROVE  Total(outbox', cpu', ios', got', c) = Total(outbox, cpu, ios, got, c)
    BY <1>1 DEF IInv, Accounted
  <2>1. Count(ios.requests, {c}) \in Nat /\ Count(ios.replies, Cells(c)) \in Nat
    BY <1>2, InIosType
  <2>2. Count(outbox, {c}) \in Nat /\ InIos(ios, c) \in Nat /\ InIos(w, c) \in Nat
    BY <1>3, Where, InIosType
  <2>3. InIos(ios, c) = InIos(w, c) + (IF got = c THEN 1 ELSE 0)
    BY <1>2, <1>3, <2>1 DEF InIos
  <2> QED
    BY <1>1, <1>4, <2>2, <2>3 DEF Total
<1>8. Stage' /\ CallOut'
  BY <1>1, <1>2, <1>3, <1>4 DEF IInv, Stage, CallOut, Seen
<1> QED
  BY <1>5, <1>6, <1>7, <1>8 DEF IInv

\* The request's callback runs, and the handler writes X2: the block is free.
LEMMA ReplyTakenStep ==
  ASSUME IInv, IrqReply
  PROVE  IInv'
<1> DEFINE w == Written(ios, Enables)
<1>1. /\ cpu = "irq_x2" /\ ios' = WriteCtrl(ios, Enables) /\ cpu' = "irq_ack"
      /\ ask' = [ask EXCEPT ![got] = Null] /\ outbox' = outbox /\ credit' = credit
      /\ got' = Null /\ caller' = caller /\ elapsed' = elapsed
  BY DEF IrqReply
<1>2. /\ Healthy(ios) /\ ios \in Ios /\ ios.y1 \in BOOLEAN
      /\ got \in Block /\ Null \notin Block
      /\ ask \in [Block -> Ask \cup {Null}]
  BY <1>1, IosIpcAssumption DEF IInv, TypeOK, Healthy, Stage, Ios
<1>3. /\ ios' = Update(w) /\ Healthy(w) /\ w \in Ios
      /\ w.y1 = ios.y1
      /\ w.ppc_msg = ios.ppc_msg /\ w.arm_msg = ios.arm_msg
      /\ w.waiting = ios.waiting /\ w.replies = ios.replies
      /\ w.requests = ios.requests
  <2>1. /\ "x1" \notin Enables /\ "y1" \notin Enables
    BY DEF Enables
  <2>2. /\ WriteCtrl(ios, Enables) = Update(w) /\ Healthy(w)
        /\ w.y1 = (ios.y1 /\ "y1" \notin Enables)
        /\ w.ppc_msg = ios.ppc_msg /\ w.arm_msg = ios.arm_msg
        /\ w.waiting = ios.waiting /\ w.replies = ios.replies
        /\ w.requests = ios.requests
    BY <1>2, <2>1, WrittenFields
  <2> QED
    BY <1>1, <1>2, <2>1, <2>2 DEF Healthy
<1> HIDE DEF w
<1>4. \A c \in Block : InIos(w, c) = InIos(ios, c) /\ InIos(w, c) <= 1
  BY <1>3, Where DEF InIos
<1>5. /\ Patient(w)
      /\ caller # Null => Away(w.replies, caller, elapsed) /\ ~Seen(w, caller)
  BY <1>3 DEF IInv, Patient, CallOut, Seen
<1>6. /\ Healthy(ios') /\ ios' \in Ios /\ Patient(ios')
      /\ ios'.ppc_msg = ios.ppc_msg
      /\ \A c \in Block : InIos(ios', c) = InIos(ios, c)
      /\ caller # Null => Away(ios'.replies, caller, elapsed) /\ ~Seen(ios', caller)
  BY <1>3, <1>4, <1>5, AfterUpdate
<1>7. InIos(ios', got) = 0 /\ Count(outbox, {got}) = 0
  BY <1>1, <1>2, <1>6, Where
<1>8. ios'.waiting # got
  BY <1>2, <1>6, <1>7, Nowhere
<1>9. \A c \in Block : ask'[c] = IF c = got THEN Null ELSE ask[c]
  BY <1>1, <1>2
<1>10. TypeOK'
  BY <1>1, <1>2, <1>6 DEF IInv, TypeOK, Ios, Cell, Cpu
<1>11. (Healthy(ios) /\ Patient(ios))'
  <2>1. ios'.waiting \in Block \cup {Null}
    BY <1>6 DEF Ios
  <2> QED
    BY <1>6, <1>8, <1>9, <2>1 DEF Patient, Healthy, InOrder
<1>12. OneWaits'
  BY <1>9, IosIpcAssumption DEF IInv, OneWaits, Ask
<1>13. Accounted'
  <2> SUFFICES ASSUME NEW c \in Block
               PROVE  Total(outbox', cpu', ios', got', c) = IF ask'[c] = Null THEN 0 ELSE 1
    BY DEF Accounted
  <2>1. Count(outbox, {c}) \in Nat /\ InIos(ios, c) \in Nat
    BY Where
  <2>2. Total(outbox, cpu, ios, got, c) = IF ask[c] = Null THEN 0 ELSE 1
    BY DEF IInv, Accounted
  <2>3. Total(outbox', cpu', ios', got', c) = Count(outbox, {c}) + InIos(ios, c)
    BY <1>1, <1>6, <2>1 DEF Total
  <2>4. Total(outbox, cpu, ios, got, c)
        = Count(outbox, {c}) + InIos(ios, c) + (IF got = c THEN 1 ELSE 0)
    BY <1>1, <2>1 DEF Total
  <2>5. CASE c = got
    BY <1>6, <1>7, <1>9, <2>3, <2>5
  <2>6. CASE c # got
    BY <1>9, <2>1, <2>2, <2>3, <2>4, <2>6
  <2> QED
    BY <2>5, <2>6
<1>14. Stage' /\ CallOut'
  BY <1>1, <1>6 DEF IInv, Stage, CallOut
<1> QED
  BY <1>10, <1>11, <1>12, <1>13, <1>14 DEF IInv

\* Time passes, for a call under way less than the latency.
LEMMA TimeStep ==
  ASSUME IInv, TimePasses
  PROVE  IInv'
<1> DEFINE q == [i \in DOMAIN ios.replies |->
                   [addr |-> ios.replies[i].addr,
                    left |-> IF ios.replies[i].left = 0 THEN 0 ELSE ios.replies[i].left - 1]]
           t == [ios EXCEPT !.replies = q]
<1>1. /\ caller # Null => elapsed + 1 < Latency /\ elapsed' = elapsed + 1
      /\ caller = Null => elapsed' = elapsed
      /\ ask' = ask /\ outbox' = outbox /\ credit' = credit
      /\ cpu' = cpu /\ got' = got /\ caller' = caller
  BY DEF TimePasses
<1>2. /\ Healthy(ios) /\ ios \in Ios /\ ios.replies \in Seq(Cell)
      /\ InOrder(ios.replies) /\ elapsed \in 0..Latency
  BY DEF IInv, TypeOK, Healthy, Ios
<1>3. /\ DOMAIN ios.replies = 1..Len(ios.replies) /\ Len(ios.replies) \in Nat
      /\ \A i \in DOMAIN ios.replies : ios.replies[i] \in Cell
  BY <1>2, LenProperties, ElementOfSeq
<1>4. ios' = t
  BY <1>2 DEF TimePasses, Ios
<1>5. \A i \in DOMAIN ios.replies :
        /\ ios.replies[i].left \in 0..Latency
        /\ q[i] \in Cell /\ q[i].addr = ios.replies[i].addr
        /\ q[i].left = IF ios.replies[i].left = 0 THEN 0 ELSE ios.replies[i].left - 1
  BY <1>3, IosIpcAssumption DEF Cell
<1>6. DOMAIN q = DOMAIN ios.replies
  OBVIOUS
<1>7. q \in Seq(Cell)
  <2>1. q \in [1..Len(ios.replies) -> Cell]
    BY <1>3, <1>5
  <2> QED
    BY <1>3, <2>1, SeqDef
<1> HIDE DEF q
<1>8. InOrder(q)
  <2> SUFFICES ASSUME NEW i \in DOMAIN q, NEW j \in DOMAIN q, i < j
               PROVE  q[i].left <= q[j].left
    BY DEF InOrder
  <2>1. ios.replies[i].left <= ios.replies[j].left
    BY <1>2, <1>6 DEF InOrder
  <2> QED
    BY <1>5, <1>6, <2>1, IosIpcAssumption
<1>9. /\ Healthy(t)
      /\ t.replies = q /\ t.ppc_msg = ios.ppc_msg /\ t.waiting = ios.waiting
      /\ t.y1 = ios.y1 /\ t.y2 = ios.y2 /\ t.irq = ios.irq /\ t.arm_msg = ios.arm_msg
      /\ \A c \in Block : InIos(t, c) = InIos(ios, c)
  BY <1>2, <1>5, <1>6, <1>7, <1>8, LeftStep
<1> HIDE DEF t
<1>10. caller # Null => Away(q, caller, elapsed + 1)
  <2> SUFFICES ASSUME caller # Null, NEW i \in DOMAIN q, q[i].addr = caller
               PROVE  q[i].left + (elapsed + 1) >= Latency
    BY DEF Away
  <2>1. ios.replies[i].left + elapsed >= Latency
    BY <1>5, <1>6 DEF IInv, CallOut, Away
  <2> QED
    BY <1>2, <1>5, <1>6, <2>1, IosIpcAssumption
<1>11. elapsed' \in 0..Latency
  BY <1>1, <1>2, IosIpcAssumption
<1>12. TypeOK'
  BY <1>1, <1>4, <1>9, <1>11 DEF IInv, TypeOK, Healthy, Ios, Cell
<1>13. (Healthy(ios) /\ Patient(ios) /\ OneWaits)'
  BY <1>1, <1>4, <1>9 DEF IInv, Patient, OneWaits, Healthy, InOrder
<1>14. Accounted'
  BY <1>1, <1>4, <1>9 DEF IInv, Accounted, Total
<1>15. Stage'
  BY <1>1, <1>4, <1>9 DEF IInv, Stage
<1>16. CallOut'
  BY <1>1, <1>4, <1>9, <1>10 DEF IInv, CallOut, Seen
<1> QED
  BY <1>12, <1>13, <1>14, <1>15, <1>16 DEF IInv

LEMMA StepHolds ==
  ASSUME IInv, [Next]_vars
  PROVE  IInv'
<1>1. CASE \E b \in Block, a \in Ask : Submit(b, a)
  BY <1>1, SubmitStep
<1>2. CASE CallReturns \/ Interrupt
  BY <1>2, LookStep
<1>3. CASE SendMsg
  BY <1>3, SendMsgStep
<1>4. CASE SendX1
  BY <1>4, SendX1Step
<1>5. CASE Handler
  BY <1>5, LookStep, ClearY1Step, FlagStep, ReplyTakenStep, ClearY2Step DEF Handler
<1>6. CASE CpuIdle
  BY <1>6, IdleStep
<1>7. CASE Tick
  BY <1>7, TickStep
<1>8. CASE TimePasses
  BY <1>8, TimeStep
<1>9. CASE UNCHANGED vars
  BY <1>9 DEF vars, IInv, TypeOK, Healthy, InOrder, Patient, OneWaits, Accounted, Stage,
     CallOut
<1> QED
  BY <1>1, <1>2, <1>3, <1>4, <1>5, <1>6, <1>7, <1>8, <1>9 DEF Next

-----------------------------------------------------------------------------
(* What follows from it.                                                   *)

LEMMA PlacesTotal ==
  ASSUME IInv, NEW b \in Block
  PROVE  Places(b) = Total(outbox, cpu, ios, got, b)
<1> DEFINE inMail == IF ios.y1 /\ ios.arm_msg = b THEN 1 ELSE 0
           kept == IF ios.waiting = b THEN 1 ELSE 0
           sent == IF cpu \in {"call_x1", "irq_x1"} /\ ios.ppc_msg = b THEN 1 ELSE 0
           read == IF cpu \in {"irq_flag1", "irq_x2"} /\ got = b THEN 1 ELSE 0
           out == Cardinality({i \in DOMAIN outbox : outbox[i] = b})
           asked == Cardinality({i \in DOMAIN ios.requests : ios.requests[i] = b})
           replied == Cardinality({i \in DOMAIN ios.replies : ios.replies[i].addr = b})
<1>1. ios \in Ios /\ outbox \in Seq(Block) /\ ios.replies \in Seq(Cell)
  BY DEF IInv, Healthy, TypeOK, Ios
<1>2. /\ Spots(outbox, {b}) = {i \in DOMAIN outbox : outbox[i] = b}
      /\ Spots(ios.requests, {b}) = {i \in DOMAIN ios.requests : ios.requests[i] = b}
  BY DEF Spots
<1>3. Spots(ios.replies, Cells(b)) = {i \in DOMAIN ios.replies : ios.replies[i].addr = b}
  <2>1. \A i \in DOMAIN ios.replies : ios.replies[i] \in Cell
    BY <1>1, LenProperties, ElementOfSeq
  <2> QED
    BY <2>1 DEF Spots, Cells
<1>4. /\ Count(outbox, {b}) = out /\ Count(ios.requests, {b}) = asked
      /\ Count(ios.replies, Cells(b)) = replied
  BY <1>2, <1>3 DEF Count
<1>5. /\ Count(outbox, {b}) \in Nat /\ Count(ios.requests, {b}) \in Nat
      /\ Count(ios.replies, Cells(b)) \in Nat
  BY <1>1, CountType, InIosType
<1>6. Places(b) = out + sent + asked + kept + replied + inMail + read
  BY DEF Places
<1>7. Total(outbox, cpu, ios, got, b) = out + sent + (asked + kept + replied + inMail) + read
  BY <1>4 DEF Total, InIos
<1>8. out \in Nat /\ asked \in Nat /\ replied \in Nat
  BY <1>4, <1>5
<1>9. sent \in Nat /\ kept \in Nat /\ inMail \in Nat /\ read \in Nat
  OBVIOUS
<1> HIDE DEF inMail, kept, sent, read, out, asked, replied
<1> QED
  BY <1>6, <1>7, <1>8, <1>9

LEMMA InvHolds ==
  ASSUME IInv
  PROVE  IpcInv /\ NotInsideTheCall
<1>1. OneReplyEach
  BY PlacesTotal DEF IInv, Accounted, OneReplyEach
<1>2. DueInOrder
  BY DEF IInv, Healthy, InOrder, DueInOrder
<1>3. InterruptStays
  BY DEF IInv, Healthy, InterruptStays
<1>4. NotInsideTheCall
  BY DEF IInv, CallOut, Seen, NotInsideTheCall
<1> QED
  BY <1>1, <1>2, <1>3, <1>4 DEF IInv, IpcInv

-----------------------------------------------------------------------------
(* The theorems.                                                           *)

\* Every request is at exactly one place between the call and its callback:
\* none is lost in IOS's queues, in a device or in the mailbox, and none is
\* answered twice; the replies wait in the order they fall due, and the
\* interrupt line is up while there is a Y to see (ios.cpp 9-16, 396-510).
THEOREM IpcInvariant == Spec => []IpcInv
<1>1. Init => IInv
  BY InitHolds
<1>2. IInv /\ [Next]_vars => IInv'
  BY StepHolds
<1>3. IInv => IpcInv
  BY InvHolds
<1> QED
  BY <1>1, <1>2, <1>3, PTL DEF Spec

\* No completion comes inside the call it completes, whatever the clock thread
\* and the interrupt checks do: what the reply latency is for (ios.cpp 14-20).
THEOREM NeverInsideTheCall == Spec => []NotInsideTheCall
<1>1. Init => IInv
  BY InitHolds
<1>2. IInv /\ [Next]_vars => IInv'
  BY StepHolds
<1>3. IInv => NotInsideTheCall
  BY InvHolds
<1> QED
  BY <1>1, <1>2, <1>3, PTL DEF Spec
=============================================================================
