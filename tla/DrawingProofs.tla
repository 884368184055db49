--------------------------- MODULE DrawingProofs ---------------------------
(***************************************************************************)
(* Proofs about drawing.  Vertices: for vertices and quarters of any size  *)
(* that fit and any number of draws the GPU is behind, no draw is written  *)
(* over another's bytes before the GPU has read them; and in every format  *)
(* a vertex's decoding takes the bytes the parser counted.  GxTextures:    *)
(* for any maps, addresses and length of the record, every draw samples    *)
(* what its registers named when it was sent.  GxStream: however the       *)
(* commands are cut into bursts, of any length, they are parsed as sent.   *)
(***************************************************************************)
EXTENDS GxStream, GxTextures, Vertices, FoldTheorems, SequenceTheorems, TLAPS

-----------------------------------------------------------------------------
(* Quarters and multiples.                                                 *)

LEMMA MultipleMod ==
  ASSUME NEW m \in Nat, NEW s \in Nat \ {0}
  PROVE  (m * s) % s = 0
<1>1. m * s \in Nat
  OBVIOUS
<1>2. (m * s) \div s = m
  BY <1>1, DivIs
<1>3. (m * s) % s = m * s - ((m * s) \div s) * s
  BY <1>1
<1>4. QED BY <1>1, <1>2, <1>3

\* The first multiple at or after a place.
LEMMA CeilFacts ==
  ASSUME NEW x \in Nat, NEW s \in Nat \ {0}
  PROVE  /\ (x + s - 1) \div s \in Nat
         /\ ((x + s - 1) \div s) * s \in Nat
         /\ x <= ((x + s - 1) \div s) * s /\ ((x + s - 1) \div s) * s < x + s
<1>. DEFINE y == x + s - 1
            d == y \div s
<1>1. y \in Nat
  OBVIOUS
<1>2. d \in Nat /\ d * s \in Nat /\ d * s <= y /\ y < d * s + s
  BY <1>1, DivFacts
<1>. HIDE DEF d
<1>3. x <= d * s /\ d * s < x + s
  BY <1>2
<1>4. QED BY <1>2, <1>3 DEF d

-----------------------------------------------------------------------------
(* The inductive invariant of the ring.                                    *)

Part(x) == x \div Quarter
Entry == Nat \X Nat \X BOOLEAN

RingType ==
  /\ off \in Nat /\ off < 4 * Quarter
  /\ fence \in [Slots -> -1 .. MaxFlight]
  /\ gpu \in Seq(Entry) /\ late \in BOOLEAN

\* No draw ends where a quarter does: the buffer's end is never reached.
Aligned == \E m \in Nat : off = m * VtxBytes

OneQuarter ==
  \A i \in DOMAIN gpu :
    /\ gpu[i][1] <= gpu[i][2] /\ gpu[i][2] < 4 * Quarter
    /\ Part(gpu[i][1]) = Part(gpu[i][2])

\* A draw the GPU has not finished lies below vbo_off in its quarter (unless
\* that quarter's fence was given up), or in another one, whose fence waits for it.
Fenced ==
  \A i \in DOMAIN gpu :
    \/ Part(gpu[i][1]) = Part(off) /\ (late \/ gpu[i][2] < off)
    \/ Part(gpu[i][1]) # Part(off) /\ i <= fence[Part(gpu[i][1])]

Apart ==
  \A i, j \in DOMAIN gpu : j < i => gpu[i][3] \/ gpu[i][2] < gpu[j][1] \/ gpu[j][2] < gpu[i][1]

RingInv == RingType /\ Aligned /\ OneQuarter /\ Fenced /\ Apart

LEMMA Sizes ==
  /\ VtxBytes \in Nat \ {0} /\ Quarter \in Nat \ {0} /\ MaxVerts \in Nat \ {0}
  /\ MaxFlight \in Nat \ {0}
  /\ (MaxVerts + 1) * VtxBytes <= Quarter
  /\ \A q \in 1 .. 4 : (q * Quarter) % VtxBytes # 0
BY VerticesAssumption

LEMMA PartFacts ==
  ASSUME NEW x \in Nat
  PROVE  /\ Part(x) \in Nat /\ Part(x) * Quarter \in Nat
         /\ Part(x) * Quarter <= x /\ x < Part(x) * Quarter + Quarter
BY Sizes, DivFacts DEF Part

LEMMA PartIs ==
  ASSUME NEW x \in Nat, NEW k \in Nat, k * Quarter <= x, x < k * Quarter + Quarter
  PROVE  Part(x) = k
BY Sizes, DivIs DEF Part

LEMMA PartSlot ==
  ASSUME NEW x \in Nat, x < 4 * Quarter
  PROVE  Part(x) \in Slots
<1>1. Part(x) \in Nat /\ Part(x) * Quarter <= x /\ Quarter \in Nat
  BY PartFacts, Sizes
<1>2. ASSUME 4 <= Part(x) PROVE FALSE
  <2>1. 4 * Quarter <= Part(x) * Quarter /\ Part(x) * Quarter \in Nat /\ 4 * Quarter \in Nat
    BY <1>1, <1>2, TimesFacts
  <2>2. QED BY <1>1, <2>1
<1>3. QED BY <1>1, <1>2 DEF Slots

\* The end of a quarter lies in the buffer.
LEMMA SlotEnd ==
  ASSUME NEW k \in Slots
  PROVE  k \in Nat /\ k * Quarter \in Nat /\ 4 * Quarter \in Nat /\ k * Quarter + Quarter <= 4 * Quarter
<1>1. k \in Nat /\ k + 1 \in Nat /\ k + 1 <= 4 /\ k <= k + 1 /\ Quarter \in Nat
  BY Sizes DEF Slots
<1>2. (k + 1) * Quarter <= 4 * Quarter /\ 4 * Quarter \in Nat
  BY <1>1, TimesFacts
<1>3. (k + 1) * Quarter = k * Quarter + Quarter /\ k * Quarter \in Nat
  BY <1>1, TimesFacts
<1>4. QED BY <1>1, <1>2, <1>3

\* Where a draw goes.
Goes(from, bytes, to) ==
  /\ gpu' = Append(gpu, <<from, from + bytes - 1, late'>>) /\ off' = from + bytes
  /\ off' < 4 * Quarter
  /\ Part(from) = to /\ Part(from + bytes - 1) = to /\ Part(off') = to
  /\ \/ to = Part(off) /\ from = off /\ fence' = fence /\ late' = late
     \/ /\ to # Part(off) /\ late' = (fence[to] \notin Signalled)
        /\ fence' = [fence EXCEPT ![Part(off)] = Len(gpu), ![to] = -1]

\* A place and its bytes that lie in quarter k, short of its end.
LEMMA InPart ==
  ASSUME NEW k \in Slots, NEW from \in Nat, NEW bytes \in Nat \ {0},
         k * Quarter <= from, from + bytes < k * Quarter + Quarter
  PROVE  /\ Part(from) = k /\ Part(from + bytes - 1) = k /\ Part(from + bytes) = k
         /\ from + bytes < 4 * Quarter
<1>1. k \in Nat /\ k * Quarter \in Nat /\ 4 * Quarter \in Nat /\ k * Quarter + Quarter <= 4 * Quarter
  BY SlotEnd
<1>2. Quarter \in Nat /\ from + bytes - 1 \in Nat /\ from + bytes \in Nat
  BY Sizes
<1>3. /\ from < k * Quarter + Quarter
      /\ k * Quarter <= from + bytes - 1 /\ from + bytes - 1 < k * Quarter + Quarter
      /\ k * Quarter <= from + bytes
  BY <1>1, <1>2
<1>4. Part(from) = k /\ Part(from + bytes - 1) = k /\ Part(from + bytes) = k
  BY <1>1, <1>2, <1>3, PartIs
<1>5. from + bytes < 4 * Quarter
  BY <1>1, <1>2
<1>6. QED BY <1>4, <1>5

LEMMA DrawGoes ==
  ASSUME RingInv, NEW n \in 1 .. MaxVerts, draw(n)
  PROVE  Aligned' /\ \E from \in Nat, bytes \in Nat \ {0}, to \in Slots : Goes(from, bytes, to)
<1>. DEFINE bytes == n * VtxBytes
            q == Part(off)
            to == (q + 1) % 4
<1>1. off \in Nat /\ q \in Slots /\ q \in Nat /\ q * Quarter \in Nat
      /\ q * Quarter <= off /\ off < q * Quarter + Quarter
  BY PartFacts, PartSlot, SlotEnd DEF RingInv, RingType
<1>2. /\ bytes \in Nat \ {0} /\ VtxBytes <= bytes /\ bytes <= MaxVerts * VtxBytes
      /\ MaxVerts * VtxBytes \in Nat /\ MaxVerts * VtxBytes + VtxBytes <= Quarter
      /\ n \in Nat /\ VtxBytes \in Nat \ {0} /\ Quarter \in Nat \ {0}
  <2>1. n \in Nat /\ 1 <= n /\ n <= MaxVerts /\ MaxVerts \in Nat /\ VtxBytes \in Nat \ {0}
        /\ 1 \in Nat /\ Quarter \in Nat \ {0}
    BY Sizes
  <2>2. bytes \in Nat /\ bytes <= MaxVerts * VtxBytes /\ MaxVerts * VtxBytes \in Nat
        /\ (MaxVerts + 1) * VtxBytes = MaxVerts * VtxBytes + VtxBytes
    BY <2>1, TimesFacts
  <2>3. 1 * VtxBytes <= bytes /\ 1 * VtxBytes = VtxBytes
    BY <2>1, TimesFacts
  <2>4. QED BY <2>1, <2>2, <2>3, Sizes
<1>3. PICK m \in Nat : off = m * VtxBytes
  BY DEF RingInv, Aligned
<1>4. /\ gpu' = Append(gpu, <<IF Part(off + bytes - 1) # q THEN Start(to) ELSE off,
                             (IF Part(off + bytes - 1) # q THEN Start(to) ELSE off) + bytes - 1,
                             late'>>)
      /\ off' = (IF Part(off + bytes - 1) # q THEN Start(to) ELSE off) + bytes
      /\ IF Part(off + bytes - 1) # q
         THEN /\ late' = (fence[to] \notin Signalled)
              /\ fence' = [fence EXCEPT ![q] = Len(gpu), ![to] = -1]
         ELSE fence' = fence /\ late' = late
  BY DEF draw, Part
<1>. HIDE DEF bytes, q, to
<1>5. CASE Part(off + bytes - 1) = q
  <2>1. off + bytes - 1 \in Nat /\ off + bytes - 1 < q * Quarter + Quarter
    <3>1. off + bytes - 1 \in Nat
      BY <1>1, <1>2
    <3>2. QED BY <1>5, <3>1, PartFacts
  <2>2. off + bytes = (m + n) * VtxBytes /\ m + n \in Nat
    BY <1>2, <1>3 DEF bytes
  <2>3. off + bytes # (q + 1) * Quarter
    <3>1. (off + bytes) % VtxBytes = 0
      BY <1>2, <2>2, MultipleMod
    <3>2. q + 1 \in 1 .. 4
      BY <1>1 DEF Slots
    <3>3. QED BY <3>1, <3>2, Sizes
  <2>4. (q + 1) * Quarter = q * Quarter + Quarter
    BY <1>1, <1>2, TimesFacts
  <2>5. off + bytes < q * Quarter + Quarter
    BY <1>1, <1>2, <2>1, <2>3, <2>4
  <2>6. /\ Part(off) = q /\ Part(off + bytes - 1) = q /\ Part(off + bytes) = q
        /\ off + bytes < 4 * Quarter
    BY <1>1, <1>2, <2>5, InPart
  <2>7. off' = off + bytes /\ gpu' = Append(gpu, <<off, off + bytes - 1, late'>>)
        /\ fence' = fence /\ late' = late
    BY <1>4, <1>5
  <2>8. Aligned'
    BY <2>2, <2>7 DEF Aligned
  <2>9. Goes(off, bytes, q)
    BY <2>6, <2>7 DEF Goes
  <2>10. QED BY <1>1, <1>2, <2>8, <2>9
<1>6. CASE Part(off + bytes - 1) # q
  <2>1. to \in Slots /\ to # q
    BY <1>1 DEF to, Slots
  <2>2. to \in Nat /\ to * Quarter \in Nat
    BY <2>1, SlotEnd
  <2>. DEFINE d == (to * Quarter + VtxBytes - 1) \div VtxBytes
              from == d * VtxBytes
  <2>3. d \in Nat /\ from \in Nat /\ to * Quarter <= from /\ from < to * Quarter + VtxBytes
    BY <1>2, <2>2, CeilFacts
  <2>4. Start(to) = from
    BY DEF Start
  <2>5. from + bytes = (d + n) * VtxBytes /\ d + n \in Nat
    BY <1>2, <2>3 DEF bytes
  <2>. HIDE DEF from, d
  <2>6. from + bytes < to * Quarter + Quarter
    BY <1>2, <2>2, <2>3
  <2>7. /\ Part(from) = to /\ Part(from + bytes - 1) = to /\ Part(from + bytes) = to
        /\ from + bytes < 4 * Quarter
    BY <1>2, <2>1, <2>3, <2>6, InPart
  <2>8. /\ off' = from + bytes /\ gpu' = Append(gpu, <<from, from + bytes - 1, late'>>)
        /\ late' = (fence[to] \notin Signalled) /\ fence' = [fence EXCEPT ![q] = Len(gpu), ![to] = -1]
    BY <1>4, <1>6, <2>4
  <2>9. Aligned'
    BY <2>5, <2>8 DEF Aligned
  <2>10. Goes(from, bytes, to)
    BY <2>1, <2>7, <2>8 DEF Goes, q
  <2>11. QED BY <1>2, <2>1, <2>3, <2>9, <2>10
<1>7. QED BY <1>5, <1>6

\* A draw is apart from those the GPU has not finished.
LEMMA DrawRing ==
  ASSUME RingInv, NEW n \in 1 .. MaxVerts, draw(n)
  PROVE  RingInv'
<1>1. RingType /\ OneQuarter /\ Fenced /\ Apart /\ Len(gpu) < MaxFlight /\ MaxFlight \in Nat
  BY Sizes DEF RingInv, draw
<1>2. PICK from \in Nat, bytes \in Nat \ {0}, to \in Slots : Goes(from, bytes, to)
  BY DrawGoes
<1>0. late' \in BOOLEAN
  BY <1>1, <1>2 DEF Goes, RingType
<1>. DEFINE e == <<from, from + bytes - 1, late'>>
<1>3. e \in Entry /\ e[1] = from /\ e[2] = from + bytes - 1 /\ from <= e[2] /\ e[2] < from + bytes
      /\ e[3] = late'
  BY <1>0 DEF Entry
<1>4. gpu' = Append(gpu, e) /\ off' = from + bytes /\ off' < 4 * Quarter
      /\ Part(from) = to /\ Part(e[2]) = to /\ Part(off') = to
  BY <1>2, <1>3 DEF Goes
<1>. HIDE DEF e
<1>5. PICK z \in Nat :
        /\ z = Len(gpu) /\ DOMAIN gpu = 1 .. z /\ DOMAIN gpu' = 1 .. (z + 1)
        /\ \A i \in 1 .. z : gpu'[i] = gpu[i]
        /\ gpu'[z + 1] = e
  <2>1. gpu \in Seq(Entry)
    BY <1>1 DEF RingType
  <2>2. /\ DOMAIN Append(gpu, e) = 1 .. (Len(gpu) + 1) /\ DOMAIN gpu = 1 .. Len(gpu)
        /\ \A i \in 1 .. Len(gpu) : Append(gpu, e)[i] = gpu[i]
        /\ Append(gpu, e)[Len(gpu) + 1] = e /\ Len(gpu) \in Nat
    BY <1>3, <2>1
  <2>3. QED BY <1>4, <2>2
<1>6. \A i \in 1 .. (z + 1) : i \in 1 .. z \/ i = z + 1
  BY <1>5
<1>7. Part(off) \in Slots /\ off \in Nat
  BY <1>1, PartSlot DEF RingType
<1>8. \A i \in 1 .. z : /\ gpu[i] \in Entry /\ gpu[i][1] \in Nat /\ gpu[i][2] \in Nat
                        /\ gpu[i][1] <= gpu[i][2] /\ Part(gpu[i][1]) = Part(gpu[i][2])
                        /\ gpu[i][2] < 4 * Quarter /\ 4 * Quarter \in Nat
  <2>1. \A i \in 1 .. z : gpu[i] \in Entry /\ gpu[i][1] \in Nat /\ gpu[i][2] \in Nat
    BY <1>1, <1>5 DEF RingType, Entry
  <2>2. 4 * Quarter \in Nat
    BY Sizes
  <2>3. QED BY <1>1, <1>5, <2>1, <2>2 DEF OneQuarter
<1>9. RingType'
  <2>1. gpu' \in Seq(Entry)
    BY <1>1, <1>3, <1>4 DEF RingType
  <2>2. off' \in Nat
    BY <1>4
  <2>3. Len(gpu) \in -1 .. MaxFlight /\ -1 \in -1 .. MaxFlight
    BY <1>1, <1>5
  <2>4. fence' \in [Slots -> -1 .. MaxFlight]
    BY <1>1, <1>2, <2>3 DEF RingType, Goes
  <2>5. QED BY <1>0, <1>4, <2>1, <2>2, <2>4 DEF RingType
<1>10. OneQuarter'
  <2>1. e[2] < 4 * Quarter /\ e[1] <= e[2] /\ Part(e[1]) = Part(e[2])
    <3>1. e[2] \in Nat /\ from + bytes \in Nat /\ 4 * Quarter \in Nat
      BY <1>3, Sizes
    <3>2. QED BY <1>3, <1>4, <3>1
  <2>2. \A i \in 1 .. z : gpu[i][1] <= gpu[i][2] /\ gpu[i][2] < 4 * Quarter /\ Part(gpu[i][1]) = Part(gpu[i][2])
    BY <1>8
  <2>3. ASSUME NEW i \in 1 .. (z + 1)
        PROVE  gpu'[i][1] <= gpu'[i][2] /\ gpu'[i][2] < 4 * Quarter /\ Part(gpu'[i][1]) = Part(gpu'[i][2])
    BY <1>5, <1>6, <2>1, <2>2
  <2>4. QED BY <1>5, <2>3 DEF OneQuarter, Part
<1>11. \* an older draw is in another quarter, or below
       \A i \in 1 .. z : \/ Part(gpu[i][1]) = to /\ (late' \/ gpu[i][2] < from)
                         \/ Part(gpu[i][1]) # to /\ i <= fence'[Part(gpu[i][1])]
  <2>1. CASE to = Part(off) /\ from = off /\ fence' = fence /\ late' = late
    BY <1>1, <1>5, <2>1 DEF Fenced
  <2>2. CASE /\ to # Part(off) /\ late' = (fence[to] \notin Signalled)
             /\ fence' = [fence EXCEPT ![Part(off)] = Len(gpu), ![to] = -1]
    <3>. SUFFICES ASSUME NEW i \in 1 .. z
                  PROVE  \/ Part(gpu[i][1]) = to /\ late'
                         \/ Part(gpu[i][1]) # to /\ i <= fence'[Part(gpu[i][1])]
      OBVIOUS
    <3>1. gpu[i][1] \in Nat /\ gpu[i][1] < 4 * Quarter
      BY <1>8
    <3>2. Part(gpu[i][1]) \in Slots
      BY <3>1, PartSlot
    <3>3. fence \in [Slots -> -1 .. MaxFlight]
      BY <1>1 DEF RingType
    <3>4. CASE Part(gpu[i][1]) = Part(off)
      <4>1. fence'[Part(off)] = Len(gpu)
        BY <1>7, <2>2, <3>3
      <4>2. QED BY <1>5, <2>2, <3>4, <4>1
    <3>5. CASE Part(gpu[i][1]) # Part(off)
      <4>1. i <= fence[Part(gpu[i][1])]
        BY <1>1, <1>5, <3>5 DEF Fenced
      <4>2. CASE Part(gpu[i][1]) = to  \* its fence was not signalled
        <5>1. i <= fence[to] /\ i \in Nat \ {0}
          BY <4>1, <4>2
        <5>2. fence[to] \notin Signalled
          BY <5>1 DEF Signalled
        <5>3. QED BY <2>2, <4>2, <5>2
      <4>3. CASE Part(gpu[i][1]) # to
        <5>1. fence'[Part(gpu[i][1])] = fence[Part(gpu[i][1])]
          BY <2>2, <3>2, <3>3, <3>5, <4>3
        <5>2. QED BY <4>1, <4>3, <5>1
      <4>4. QED BY <4>2, <4>3
    <3>6. QED BY <3>4, <3>5
  <2>3. QED BY <1>2, <2>1, <2>2 DEF Goes
<1>12. Fenced'
  <2>1. ASSUME NEW i \in 1 .. (z + 1)
        PROVE  \/ Part(gpu'[i][1]) = Part(off') /\ (late' \/ gpu'[i][2] < off')
               \/ Part(gpu'[i][1]) # Part(off') /\ i <= fence'[Part(gpu'[i][1])]
    <3>1. CASE i = z + 1
      BY <1>3, <1>4, <1>5, <3>1
    <3>2. CASE i \in 1 .. z
      <4>1. gpu'[i] = gpu[i] /\ gpu[i][2] \in Nat
        BY <1>5, <1>8, <3>2
      <4>2. gpu[i][2] < from => gpu[i][2] < off'
        BY <1>4, <4>1
      <4>3. QED BY <1>4, <1>11, <3>2, <4>1, <4>2
    <3>3. QED BY <1>6, <3>1, <3>2
  <2>2. QED BY <1>5, <2>1 DEF Fenced, Part
<1>13. Apart'
  <2>1. ASSUME NEW j \in 1 .. z
        PROVE  e[3] \/ e[2] < gpu[j][1] \/ gpu[j][2] < e[1]
    <3>1. gpu[j][1] \in Nat /\ gpu[j][2] \in Nat /\ Part(gpu[j][1]) = Part(gpu[j][2]) /\ e[1] \in Nat /\ e[2] \in Nat
      BY <1>3, <1>8
    <3>2. CASE gpu[j][2] < from
      BY <1>3, <3>2
    <3>3. CASE Part(gpu[j][1]) # to
      <4>1. ASSUME gpu[j][1] <= e[2], e[1] <= gpu[j][2]
            PROVE  FALSE
        <5>1. Part(e[1]) = to /\ Part(e[2]) = to
          BY <1>3, <1>4
        <5>. DEFINE k == Part(gpu[j][1])
        <5>2. /\ k \in Nat /\ k * Quarter \in Nat /\ k * Quarter <= gpu[j][1]
              /\ gpu[j][2] < k * Quarter + Quarter
          BY <3>1, PartFacts
        <5>3. to \in Nat /\ to * Quarter \in Nat /\ to * Quarter <= e[1] /\ e[2] < to * Quarter + Quarter
          BY <3>1, <5>1, PartFacts
        <5>. HIDE DEF k
        <5>4. k * Quarter < to * Quarter + Quarter /\ to * Quarter < k * Quarter + Quarter
              /\ Quarter \in Nat
          BY <3>1, <4>1, <5>2, <5>3, Sizes
        <5>5. CASE k < to
          <6>1. k + 1 \in Nat /\ k + 1 <= to
            BY <5>2, <5>3, <5>5
          <6>2. (k + 1) * Quarter <= to * Quarter /\ (k + 1) * Quarter = k * Quarter + Quarter
            BY <5>2, <5>3, <5>4, <6>1, TimesFacts
          <6>3. QED BY <5>2, <5>3, <5>4, <6>2
        <5>6. CASE to < k
          <6>1. to + 1 \in Nat /\ to + 1 <= k
            BY <5>2, <5>3, <5>6
          <6>2. (to + 1) * Quarter <= k * Quarter /\ (to + 1) * Quarter = to * Quarter + Quarter
            BY <5>2, <5>3, <5>4, <6>1, TimesFacts
          <6>3. QED BY <5>2, <5>3, <5>4, <6>2
        <5>7. k # to
          BY <3>3 DEF k
        <5>8. QED BY <5>2, <5>3, <5>5, <5>6, <5>7
      <4>2. QED BY <3>1, <4>1
    <3>4. CASE late'
      BY <1>3, <3>4
    <3>5. QED BY <1>11, <3>2, <3>3, <3>4
  <2>2. ASSUME NEW i \in 1 .. (z + 1), NEW j \in 1 .. (z + 1), j < i
        PROVE  gpu'[i][3] \/ gpu'[i][2] < gpu'[j][1] \/ gpu'[j][2] < gpu'[i][1]
    <3>1. j \in 1 .. z /\ gpu'[j] = gpu[j]
      <4>1. j \in 1 .. z
        BY <1>5, <2>2
      <4>2. QED BY <1>5, <4>1
    <3>2. CASE i = z + 1
      BY <1>5, <2>1, <3>1, <3>2
    <3>3. CASE i \in 1 .. z
      BY <1>1, <1>5, <2>2, <3>1, <3>3 DEF Apart
    <3>4. QED BY <1>6, <3>2, <3>3
  <2>3. QED BY <1>5, <2>2 DEF Apart
<1>14. Aligned'
  BY DrawGoes
<1>15. QED BY <1>9, <1>10, <1>12, <1>13, <1>14 DEF RingInv

\* The GPU finishes a draw: the others move up, and so do the fences.
LEMMA GpuRing ==
  ASSUME RingInv, GpuDraws
  PROVE  RingInv'
<1>1. RingType /\ OneQuarter /\ Fenced /\ Apart /\ Aligned /\ MaxFlight \in Nat
      /\ off' = off /\ late' = late /\ gpu' = Tail(gpu) /\ gpu # << >>
      /\ fence' = [q \in Slots |-> IF fence[q] > 0 THEN fence[q] - 1 ELSE fence[q]]
  BY Sizes DEF RingInv, GpuDraws
<1>2. gpu \in Seq(Entry) /\ fence \in [Slots -> -1 .. MaxFlight] /\ off \in Nat
  BY <1>1 DEF RingType
<1>3. PICK z \in Nat \ {0} :
        /\ z = Len(gpu) /\ DOMAIN gpu = 1 .. z /\ DOMAIN gpu' = 1 .. (z - 1)
        /\ \A i \in 1 .. (z - 1) : gpu'[i] = gpu[i + 1]
        /\ gpu' \in Seq(Entry)
  <2>1. /\ Len(gpu) \in Nat \ {0} /\ DOMAIN gpu = 1 .. Len(gpu)
        /\ DOMAIN Tail(gpu) = 1 .. (Len(gpu) - 1)
        /\ \A i \in 1 .. (Len(gpu) - 1) : Tail(gpu)[i] = gpu[i + 1]
        /\ Tail(gpu) \in Seq(Entry)
    BY <1>1, <1>2
  <2>2. QED BY <1>1, <2>1
<1>4. \A i \in 1 .. (z - 1) : i \in Nat \ {0} /\ i + 1 \in 1 .. z /\ gpu'[i] = gpu[i + 1]
  BY <1>3
<1>5. fence' \in [Slots -> -1 .. MaxFlight]
  <2>1. \A f \in -1 .. MaxFlight : (IF f > 0 THEN f - 1 ELSE f) \in -1 .. MaxFlight
    BY <1>1
  <2>2. QED BY <1>1, <1>2, <2>1
<1>6. RingType'
  BY <1>1, <1>3, <1>5 DEF RingType
<1>7. Aligned'
  BY <1>1 DEF Aligned
<1>8. OneQuarter'
  <2>1. ASSUME NEW i \in 1 .. (z - 1)
        PROVE  /\ gpu'[i][1] <= gpu'[i][2] /\ gpu'[i][2] < 4 * Quarter
               /\ Part(gpu'[i][1]) = Part(gpu'[i][2])
    <3>1. i + 1 \in DOMAIN gpu /\ gpu'[i] = gpu[i + 1]
      BY <1>3, <1>4
    <3>2. /\ gpu[i + 1][1] <= gpu[i + 1][2] /\ gpu[i + 1][2] < 4 * Quarter
          /\ Part(gpu[i + 1][1]) = Part(gpu[i + 1][2])
      BY <1>1, <3>1, Zenon DEF OneQuarter
    <3>3. QED BY <3>1, <3>2, Zenon
  <2>2. DOMAIN gpu' = 1 .. (z - 1) /\ Quarter' = Quarter
    BY <1>3
  <2>3. QED BY <2>1, <2>2, Zenon DEF OneQuarter, Part
<1>9. ASSUME NEW i \in 1 .. (z - 1)
      PROVE  \/ Part(gpu'[i][1]) = Part(off) /\ (late \/ gpu'[i][2] < off)
             \/ Part(gpu'[i][1]) # Part(off) /\ i <= fence'[Part(gpu'[i][1])]
  <2>1. i + 1 \in DOMAIN gpu /\ gpu'[i] = gpu[i + 1] /\ i \in Nat \ {0}
    BY <1>3, <1>4
  <2>2. CASE Part(gpu[i + 1][1]) = Part(off)
    BY <1>1, <2>1, <2>2 DEF Fenced
  <2>3. CASE Part(gpu[i + 1][1]) # Part(off)
    <3>. DEFINE k == Part(gpu[i + 1][1])
    <3>1. i + 1 <= fence[k]
      BY <1>1, <2>1, <2>3 DEF Fenced
    <3>2. k \in Slots
      <4>1. gpu[i + 1][1] \in Nat /\ gpu[i + 1][2] \in Nat
        BY <1>2, <2>1 DEF Entry
      <4>2. gpu[i + 1][1] \in Nat /\ gpu[i + 1][2] \in Nat /\ 4 * Quarter \in Nat
            /\ gpu[i + 1][1] <= gpu[i + 1][2] /\ gpu[i + 1][2] < 4 * Quarter
        BY <1>1, <2>1, <4>1, Sizes DEF OneQuarter
      <4>3. gpu[i + 1][1] < 4 * Quarter
        BY <4>2
      <4>4. QED BY <4>2, <4>3, PartSlot
    <3>. HIDE DEF k
    <3>3. fence[k] \in -1 .. MaxFlight
      BY <1>2, <3>2
    <3>4. fence[k] > 0 /\ i <= fence[k] - 1
      BY <2>1, <3>1, <3>3, <1>1
    <3>5. fence'[k] = fence[k] - 1
      BY <1>1, <3>2, <3>4
    <3>6. QED BY <2>1, <2>3, <3>4, <3>5 DEF k
  <2>4. QED BY <2>2, <2>3
<1>10. Fenced'
  BY <1>1, <1>3, <1>9 DEF Fenced, Part
<1>11. Apart'
  <2>1. ASSUME NEW i \in 1 .. (z - 1), NEW j \in 1 .. (z - 1), j < i
        PROVE  gpu'[i][3] \/ gpu'[i][2] < gpu'[j][1] \/ gpu'[j][2] < gpu'[i][1]
    <3>1. i + 1 \in DOMAIN gpu /\ j + 1 \in DOMAIN gpu /\ gpu'[i] = gpu[i + 1] /\ gpu'[j] = gpu[j + 1]
      BY <1>3, <1>4
    <3>2. j + 1 < i + 1
      BY <1>3, <2>1
    <3>3. QED BY <1>1, <3>1, <3>2 DEF Apart
  <2>2. QED BY <1>3, <2>1 DEF Apart
<1>12. QED BY <1>6, <1>7, <1>8, <1>10, <1>11 DEF RingInv

LEMMA RingStart == VtxInit => RingInv
<1>. SUFFICES ASSUME VtxInit
              PROVE  RingInv
  OBVIOUS
<1>1. off = 0 /\ late = FALSE /\ gpu = << >> /\ fence = [q \in Slots |-> -1] /\ DOMAIN gpu = {}
  BY DEF VtxInit
<1>2. 0 = 0 * VtxBytes /\ 4 * Quarter \in Nat \ {0} /\ -1 \in -1 .. MaxFlight
  BY Sizes
<1>3. RingType
  <2>1. gpu \in Seq(Entry)
    BY <1>1
  <2>2. late \in BOOLEAN
    BY <1>1
  <2>3. off \in Nat /\ off < 4 * Quarter /\ fence \in [Slots -> -1 .. MaxFlight]
    BY <1>1, <1>2
  <2>4. QED BY <2>1, <2>2, <2>3 DEF RingType
<1>4. QED BY <1>1, <1>2, <1>3 DEF RingInv, Aligned, OneQuarter, Fenced, Apart

\* The inductive invariant of the ring, whichever waits are given up after their
\* second (draw, the fences, video.cpp).
THEOREM RingInvariant == VtxSpec => []RingInv
<1>1. RingInv /\ [VtxNext]_vtxVars => RingInv'
  <2>. SUFFICES ASSUME RingInv, [VtxNext]_vtxVars
                PROVE  RingInv'
    OBVIOUS
  <2>1. CASE UNCHANGED ring
    BY <2>1 DEF ring, RingInv, RingType, Aligned, OneQuarter, Fenced, Apart, Part
  <2>2. CASE \E n \in 1 .. MaxVerts : draw(n)
    BY <2>2, DrawRing
  <2>3. CASE GpuDraws
    BY <2>3, GpuRing
  <2>4. QED BY <2>1, <2>2, <2>3 DEF VtxNext, vtxVars, decode_vertices
<1>2. QED BY <1>1, RingStart, PTL DEF VtxSpec

\* Whatever the sizes of a vertex and of a quarter, however far the GPU is behind,
\* and whichever waits are given up after a second: a draw is never written past
\* the buffer's end, and over bytes the GPU has yet to read only in a quarter whose
\* fence was given up on that lap (draw, video.cpp).
THEOREM NeverOverwritten == VtxSpec => []NotOverwritten
<1>1. RingInv => NotOverwritten
  <2>. SUFFICES ASSUME RingInv
                PROVE  NotOverwritten
    OBVIOUS
  <2>1. DOMAIN gpu = 1 .. Len(gpu) /\ Len(gpu) \in Nat
    BY DEF RingInv, RingType
  <2>2. \A i \in 1 .. Len(gpu) : \A j \in 1 .. i - 1 : j \in 1 .. Len(gpu) /\ j < i
    BY <2>1
  <2>3. QED BY <2>1, <2>2 DEF RingInv, OneQuarter, Apart, Part, NotOverwritten
<1>2. QED BY <1>1, RingInvariant, PTL

-----------------------------------------------------------------------------
(* The decoding of a vertex: the bytes of the colours and texture            *)
(* coordinates before each one.                                              *)

ColorBytes == [i \in 1 .. NColor |->
  IF fmt.col[i] = "direct" THEN fmt.colSize[i] ELSE Index(fmt.col[i])]
TexBytes == [i \in 1 .. NTex |->
  IF fmt.tc[i] = "direct" THEN fmt.tcN * fmt.tcSize ELSE Index(fmt.tc[i])]

\* h adds up f's values one after the other.
Running(h, f, n) ==
  /\ h \in [0 .. n -> Nat] /\ SumFunction(f) = h[n] /\ h[0] = 0
  /\ \A k \in 1 .. n : h[k] = h[k - 1] + f[k]

Matrices == fmt.mtx
Position == IF fmt.pos = "direct" THEN fmt.posN * fmt.posSize ELSE Index(fmt.pos)
Normal == IF fmt.nrm = "direct" THEN (IF fmt.nbt THEN 9 ELSE 3) * fmt.nrmSize
          ELSE Index(fmt.nrm) * Normals(fmt)

\* What the attributes before the n-th take.
Taken(hc, ht, n) ==
  CASE n = 1 -> 0
    [] n = 2 -> Matrices
    [] n = 3 -> Matrices + Position
    [] n > 3 /\ n <= 4 + NColor -> Matrices + Position + Normal + hc[n - 4]
    [] OTHER -> Matrices + Position + Normal + hc[NColor] + ht[n - 4 - NColor]

DecodeInv ==
  /\ fmt \in Format /\ at \in 1 .. LastAttribute + 1
  /\ \E hc, ht : /\ Running(hc, ColorBytes, NColor) /\ Running(ht, TexBytes, NTex)
                 /\ p = Taken(hc, ht, at)

LEMMA RunningThere ==
  ASSUME NEW n \in Nat, NEW f \in [1 .. n -> Nat]
  PROVE  \E h : Running(h, f, n)
<1>1. PICK h \in [0 .. n -> Nat] :
        /\ SumFunction(f) = h[n] /\ h[0] = 0
        /\ \A k \in 1 .. n : h[k] = h[k - 1] + f[k]
  BY SumUpto
<1>2. Running(h, f, n)
  BY <1>1 DEF Running
<1>3. QED BY <1>2

LEMMA FormatFacts ==
  ASSUME fmt \in Format
  PROVE  /\ NColor \in Nat \ {0} /\ NTex \in Nat \ {0}
         /\ LastAttribute \in Nat /\ LastAttribute = 3 + NColor + NTex
         /\ Matrices \in Nat /\ Position \in Nat /\ Normal \in Nat
         /\ fmt.posN \in Nat /\ fmt.posSize \in Nat /\ fmt.nrmSize \in Nat
         /\ fmt.nbt \in BOOLEAN /\ fmt.idx3 \in BOOLEAN
         /\ ColorBytes \in [1 .. NColor -> Nat] /\ TexBytes \in [1 .. NTex -> Nat]
<1>1. /\ NColor \in Nat \ {0} /\ NTex \in Nat \ {0}
      /\ Size \subseteq Nat /\ ColorSize \subseteq Nat
  BY VerticesAssumption
<1>2. /\ fmt.mtx \in {0, 9} /\ fmt.posN \in {2, 3} /\ fmt.posSize \in Nat
      /\ fmt.nbt \in BOOLEAN /\ fmt.idx3 \in BOOLEAN /\ fmt.nrmSize \in Nat
      /\ fmt.col \in [1 .. NColor -> Mode] /\ fmt.colSize \in [1 .. NColor -> Nat]
      /\ fmt.tc \in [1 .. NTex -> Mode] /\ fmt.tcN \in {1, 2} /\ fmt.tcSize \in Nat
  BY <1>1 DEF Format
<1>3. \A m : Index(m) \in Nat
  BY DEF Index
<1>4. Normals(fmt) \in Nat
  BY DEF Normals
<1>5. LastAttribute \in Nat /\ LastAttribute = 3 + NColor + NTex
  BY <1>1 DEF LastAttribute
<1>6. fmt.posN * fmt.posSize \in Nat /\ fmt.tcN * fmt.tcSize \in Nat
      /\ (IF fmt.nbt THEN 9 ELSE 3) * fmt.nrmSize \in Nat
      /\ Index(fmt.nrm) * Normals(fmt) \in Nat
  <2>1. \A a, b \in Nat : a * b \in Nat
    OBVIOUS
  <2>2. (IF fmt.nbt THEN 9 ELSE 3) \in Nat /\ fmt.posN \in Nat /\ fmt.tcN \in Nat
    BY <1>2
  <2>3. QED BY <1>2, <1>3, <1>4, <2>1, <2>2
<1>7. Matrices \in Nat /\ Position \in Nat /\ Normal \in Nat
  <2>1. Matrices \in Nat
    BY <1>2 DEF Matrices
  <2>2. Position \in Nat
    BY <1>3, <1>6, Zenon DEF Position
  <2>3. Normal \in Nat
    BY <1>6, Zenon DEF Normal
  <2>4. QED BY <2>1, <2>2, <2>3
<1>8. ColorBytes \in [1 .. NColor -> Nat]
  BY <1>2, <1>3 DEF ColorBytes
<1>9. TexBytes \in [1 .. NTex -> Nat]
  BY <1>3, <1>6 DEF TexBytes
<1>10. fmt.posN \in Nat
  BY <1>2
<1>11. QED BY <1>1, <1>2, <1>5, <1>7, <1>8, <1>9, <1>10, Zenon

LEMMA SizeIs ==
  ASSUME fmt \in Format, NEW hc, NEW ht,
         Running(hc, ColorBytes, NColor), Running(ht, TexBytes, NTex)
  PROVE  vertex_size(fmt) = Taken(hc, ht, LastAttribute + 1)
<1>1. /\ NColor \in Nat \ {0} /\ NTex \in Nat \ {0}
      /\ LastAttribute + 1 = 4 + NColor + NTex
      /\ Matrices \in Nat /\ Position \in Nat /\ Normal \in Nat
  BY FormatFacts
<1>2. SumFunction(ColorBytes) = hc[NColor] /\ SumFunction(TexBytes) = ht[NTex]
  BY DEF Running
<1>3. vertex_size(fmt) = Matrices + Position + Normal + hc[NColor] + ht[NTex]
  BY <1>2, Zenon DEF vertex_size, Matrices, Position, Normal, ColorBytes, TexBytes
<1>4. Taken(hc, ht, 4 + NColor + NTex) = Matrices + Position + Normal + hc[NColor] + ht[NTex]
  <2>1. /\ ~(4 + NColor + NTex <= 4 + NColor) /\ 4 + NColor + NTex > 3
        /\ (4 + NColor + NTex) - 4 - NColor = NTex
    BY <1>1
  <2>2. QED BY <1>1, <2>1 DEF Taken
<1>5. QED BY <1>1, <1>3, <1>4

\* An attribute takes what lies between those before it and those before the next.
LEMMA AttributeIs ==
  ASSUME fmt \in Format, NEW hc, NEW ht, NEW n \in 1 .. LastAttribute,
         Running(hc, ColorBytes, NColor), Running(ht, TexBytes, NTex)
  PROVE  Taken(hc, ht, n + 1) = Taken(hc, ht, n) + Attribute(n)
<1>1. /\ NColor \in Nat \ {0} /\ NTex \in Nat \ {0}
      /\ n \in Nat /\ 1 <= n /\ n <= 3 + NColor + NTex
      /\ Matrices \in Nat /\ Position \in Nat /\ Normal \in Nat
      /\ fmt.nbt \in BOOLEAN /\ fmt.idx3 \in BOOLEAN /\ fmt.nrmSize \in Nat
  BY FormatFacts
<1>2. /\ hc \in [0 .. NColor -> Nat] /\ ht \in [0 .. NTex -> Nat]
      /\ hc[0] = 0 /\ ht[0] = 0
      /\ \A k \in 1 .. NColor : hc[k] = hc[k - 1] + ColorBytes[k]
      /\ \A k \in 1 .. NTex : ht[k] = ht[k - 1] + TexBytes[k]
  BY DEF Running
<1>3. CASE n = 1
  BY <1>1, <1>3 DEF Taken, Attribute, Matrices
<1>4. CASE n = 2
  <2>1. Attribute(2) = Position
    BY DEF Attribute, fetch, Position
  <2>2. QED BY <1>1, <1>4, <2>1 DEF Taken
<1>5. CASE n = 3
  <2>1. Attribute(3) = Normal
    <3>1. \A x \in Nat : 3 * (3 * x) = 9 * x /\ 3 * 3 * x = 9 * x /\ 3 * 1 * x = 3 * x
      OBVIOUS
    <3>2. CASE fmt.nrm = "direct"
      <4>1. CASE fmt.nbt
        BY <1>1, <3>1, <3>2, <4>1 DEF Attribute, fetch, Normal
      <4>2. CASE ~fmt.nbt
        BY <1>1, <3>1, <3>2, <4>2 DEF Attribute, fetch, Normal
      <4>3. QED BY <4>1, <4>2
    <3>3. CASE fmt.nrm # "direct"
      <4>1. Index(fmt.nrm) \in Nat
        BY DEF Index
      <4>2. \A x \in Nat : x * 3 = 3 * x /\ x * 1 = x
        OBVIOUS
      <4>3. CASE fmt.nbt /\ fmt.idx3
        BY <1>1, <3>3, <4>1, <4>2, <4>3 DEF Attribute, fetch, Normal, Normals
      <4>4. CASE ~(fmt.nbt /\ fmt.idx3)
        BY <1>1, <3>3, <4>1, <4>2, <4>4 DEF Attribute, fetch, Normal, Normals
      <4>5. QED BY <4>3, <4>4
    <3>4. QED BY <3>2, <3>3
  <2>2. Taken(hc, ht, 4) = Matrices + Position + Normal
    BY <1>1, <1>2 DEF Taken
  <2>3. QED BY <1>1, <1>5, <2>1, <2>2 DEF Taken
<1>6. CASE n > 3 /\ n <= 3 + NColor
  <2>1. /\ n - 3 \in 1 .. NColor /\ n - 4 \in 0 .. NColor /\ (n - 3) - 1 = n - 4
        /\ n + 1 > 3 /\ n + 1 <= 4 + NColor /\ (n + 1) - 4 = n - 3
    BY <1>1, <1>6
  <2>2. Attribute(n) = ColorBytes[n - 3]
    BY <1>1, <1>6, <2>1 DEF Attribute, fetch, ColorBytes
  <2>3. hc[n - 3] = hc[n - 4] + ColorBytes[n - 3]
    BY <1>2, <2>1
  <2>4. ColorBytes[n - 3] \in Nat /\ hc[n - 4] \in Nat
    BY FormatFacts, <1>2, <2>1
  <2>5. /\ Taken(hc, ht, n + 1) = Matrices + Position + Normal + hc[n - 3]
        /\ Taken(hc, ht, n) = Matrices + Position + Normal + hc[n - 4]
    BY <1>1, <1>6, <2>1 DEF Taken
  <2>6. QED BY <1>1, <2>2, <2>3, <2>4, <2>5
<1>7. CASE n > 3 + NColor
  <2>1. /\ n - 3 - NColor \in 1 .. NTex /\ n - 4 - NColor \in 0 .. NTex
        /\ (n - 3 - NColor) - 1 = n - 4 - NColor
        /\ n + 1 > 4 + NColor /\ (n + 1) - 4 - NColor = n - 3 - NColor
        /\ n >= 4 + NColor /\ n > 3
    BY <1>1, <1>7
  <2>2. Attribute(n) = TexBytes[n - 3 - NColor]
    <3>1. n # 1 /\ n # 2 /\ n # 3 /\ ~(n > 3 /\ n <= 3 + NColor)
      BY <1>1, <1>7
    <3>2. Attribute(n) = fetch(fmt.tc[n - 3 - NColor], fmt.tcN * fmt.tcSize)
      BY <3>1, Zenon DEF Attribute
    <3>3. QED BY <2>1, <3>2, Zenon DEF fetch, TexBytes
  <2>3. ht[n - 3 - NColor] = ht[n - 4 - NColor] + TexBytes[n - 3 - NColor]
    BY <1>2, <2>1
  <2>4. /\ TexBytes[n - 3 - NColor] \in Nat /\ ht[n - 4 - NColor] \in Nat
        /\ hc[NColor] \in Nat
    <3>1. TexBytes \in [1 .. NTex -> Nat]
      BY FormatFacts
    <3>2. NColor \in 0 .. NColor
      BY <1>1
    <3>3. QED BY <1>2, <2>1, <3>1, <3>2
  <2>5. Taken(hc, ht, n + 1) = Matrices + Position + Normal + hc[NColor] + ht[n - 3 - NColor]
    BY <1>1, <1>7, <2>1 DEF Taken
  <2>6. Taken(hc, ht, n) = Matrices + Position + Normal + hc[NColor] + ht[n - 4 - NColor]
    <3>1. CASE n = 4 + NColor
      <4>1. n - 4 = NColor /\ n - 4 - NColor = 0 /\ n # 1 /\ n # 2 /\ n # 3
        BY <1>1, <3>1
      <4>2. Taken(hc, ht, n) = Matrices + Position + Normal + hc[NColor]
        BY <1>1, <1>7, <3>1, <4>1 DEF Taken
      <4>3. QED BY <1>1, <1>2, <2>4, <4>1, <4>2
    <3>2. CASE n > 4 + NColor
      BY <1>1, <1>7, <3>2 DEF Taken
    <3>3. QED BY <1>1, <2>1, <3>1, <3>2
  <2>7. QED BY <1>1, <2>2, <2>3, <2>4, <2>5, <2>6
<1>8. QED BY <1>1, <1>3, <1>4, <1>5, <1>6, <1>7

\* The inductive invariant of the decoding: what has been taken is what the
\* attributes so far take (decode_vertices, fetch, gx.cpp).
THEOREM DecodeInvariant == VtxSpec => []DecodeInv
<1>1. VtxInit => DecodeInv
  <2>. SUFFICES ASSUME VtxInit
                PROVE  DecodeInv
    OBVIOUS
  <2>1. fmt \in Format /\ at = 1 /\ p = 0
    BY DEF VtxInit
  <2>2. /\ NColor \in Nat /\ NTex \in Nat /\ LastAttribute \in Nat
        /\ ColorBytes \in [1 .. NColor -> Nat] /\ TexBytes \in [1 .. NTex -> Nat]
    BY <2>1, FormatFacts
  <2>3. PICK hc : Running(hc, ColorBytes, NColor)
    BY <2>2, RunningThere, Zenon
  <2>4. PICK ht : Running(ht, TexBytes, NTex)
    BY <2>2, RunningThere, Zenon
  <2>5. p = Taken(hc, ht, at)
    BY <2>1 DEF Taken
  <2>6. QED BY <2>1, <2>2, <2>3, <2>4, <2>5 DEF DecodeInv
<1>2. DecodeInv /\ [VtxNext]_vtxVars => DecodeInv'
  <2>. SUFFICES ASSUME DecodeInv, [VtxNext]_vtxVars
                PROVE  DecodeInv'
    OBVIOUS
  <2>1. fmt' = fmt
    BY DEF VtxNext, vtxVars, decoding, decode_vertices, draw, GpuDraws
  <2>2. fmt \in Format /\ at \in 1 .. LastAttribute + 1
    BY DEF DecodeInv
  <2>3. PICK hc, ht : /\ Running(hc, ColorBytes, NColor) /\ Running(ht, TexBytes, NTex)
                      /\ p = Taken(hc, ht, at)
    BY DEF DecodeInv
  <2>4. /\ ColorBytes' = ColorBytes /\ TexBytes' = TexBytes
        /\ \A n : Taken(hc, ht, n)' = Taken(hc, ht, n)
    BY <2>1 DEF ColorBytes, TexBytes, Taken, Matrices, Position, Normal
  <2>5. LastAttribute \in Nat /\ LastAttribute' = LastAttribute
    BY <2>2, FormatFacts DEF LastAttribute
  <2>6. CASE UNCHANGED decoding
    BY <2>1, <2>2, <2>3, <2>4, <2>5, <2>6 DEF DecodeInv, decoding
  <2>7. CASE decode_vertices
    <3>1. CASE at <= LastAttribute /\ at' = at + 1 /\ p' = p + Attribute(at)
      <4>1. at \in 1 .. LastAttribute /\ at' \in 1 .. LastAttribute + 1
        BY <2>2, <2>5, <3>1
      <4>2. p' = Taken(hc, ht, at')
        BY <2>2, <2>3, <3>1, <4>1, AttributeIs
      <4>3. QED BY <2>1, <2>2, <2>3, <2>4, <2>5, <4>1, <4>2 DEF DecodeInv
    <3>2. CASE at' = 1 /\ p' = 0
      <4>1. p' = Taken(hc, ht, at') /\ at' \in 1 .. LastAttribute + 1
        BY <2>5, <3>2 DEF Taken
      <4>2. QED BY <2>1, <2>2, <2>3, <2>4, <2>5, <4>1 DEF DecodeInv
    <3>3. QED BY <2>7, <3>1, <3>2 DEF decode_vertices
  <2>8. QED BY <2>6, <2>7 DEF VtxNext, vtxVars, draw, GpuDraws
<1>3. QED BY <1>1, <1>2, PTL DEF VtxSpec

\* For every vertex format, and any number of colours and texture coordinates:
\* the decoder has taken the bytes the parser counted when a vertex is done
\* (vertex_size, decode_vertices, gx.cpp).
THEOREM DecodedInStep == VtxSpec => []InStep
<1>1. DecodeInv => InStep
  <2>. SUFFICES ASSUME DecodeInv, at > LastAttribute
                PROVE  p = vertex_size(fmt)
    BY DEF InStep
  <2>1. fmt \in Format /\ at \in 1 .. LastAttribute + 1
    BY DEF DecodeInv
  <2>2. LastAttribute \in Nat
    BY <2>1, FormatFacts
  <2>3. at = LastAttribute + 1
    BY <2>1, <2>2
  <2>4. QED BY <2>1, <2>3, SizeIs DEF DecodeInv
<1>2. QED BY <1>1, DecodeInvariant, PTL

-----------------------------------------------------------------------------
(* The record's commands, and the renderer after them.                       *)

Held == Content \cup {None}
Kinds == {"bp", "texup", "texbind", "texefb", "copy", "draw"}
Piece == [prim : Prim, flags : Flags, want : UNION {[M -> SUBSET Content] : M \in SUBSET Map}]
Cmd == {c \in [kind : Kinds, map : Map, addr : Addr \cup {Outside}, content : Held,
               prim : Prim \cup {CHOOSE q \in Prim : TRUE},
               flags : Flags \cup {CHOOSE f \in Flags : TRUE}, pieces : Seq(Piece)] :
          /\ c.kind \in {"texup", "texbind", "texefb", "copy"} => c.addr \in Addr
          /\ c.kind = "texup" => c.content \in Content
          /\ c.kind = "copy" => c.content \in CopyId
          /\ c.pieces # << >> <=> c.kind = "draw"
          /\ \A pc \in ToSet(c.pieces) : pc.prim = c.prim /\ pc.flags = c.flags}
Rend == [texs : [Addr -> Held], efb : [Addr -> CopyId \cup {None}],
         src : [Map -> Source], mistaken : SUBSET Map]

\* The maps on which a piece samples what it should not.
Wrong(r, pc) == {m \in DOMAIN pc.want : bind_textures(r, m) \notin pc.want[m]}
Texture(a) == [kind |-> "tex", addr |-> a]
CopyOf(a) == [kind |-> "efb", addr |-> a]

LEMMA TextureFacts ==
  /\ NMap \in Nat \ {0} /\ MaxCopies \in Nat \ {0} /\ MaxRec \in Nat \ {0}
  /\ 0 \in Map /\ None \notin Content /\ None \notin CopyId /\ CopyId \subseteq Content
  /\ Outside \notin Addr
  /\ \A a \in Addr : Texture(a) \in Source /\ CopyOf(a) \in Source
<1>1. /\ NMap \in Nat \ {0} /\ MaxCopies \in Nat \ {0} /\ MaxRec \in Nat \ {0}
      /\ Outside \notin Addr /\ None \notin Value
  BY TexturesAssumption
<1>2. 0 \in Map /\ None \notin CopyId
  BY <1>1 DEF Map, CopyId, None
<1>3. None \notin Content /\ CopyId \subseteq Content
  BY <1>1, <1>2 DEF Content
<1>4. \A a \in Addr : Texture(a) \in Source /\ CopyOf(a) \in Source
  BY DEF Texture, CopyOf, Source
<1>5. QED BY <1>1, <1>2, <1>3, <1>4

\* What a command does to each of the renderer's variables.
LEMMA ExecIs ==
  ASSUME NEW r \in Rend, NEW c \in Cmd
  PROVE  /\ exec(r, c) \in Rend
         /\ exec(r, c).src =
              CASE c.kind \in {"texup", "texbind"} -> [r.src EXCEPT ![c.map] = Texture(c.addr)]
                [] c.kind = "texefb" -> [r.src EXCEPT ![c.map] = CopyOf(c.addr)]
                [] OTHER -> r.src
         /\ exec(r, c).texs = IF c.kind = "texup" THEN [r.texs EXCEPT ![c.addr] = c.content]
                              ELSE r.texs
         /\ exec(r, c).efb = IF c.kind = "copy" THEN [r.efb EXCEPT ![c.addr] = c.content]
                             ELSE r.efb
         /\ exec(r, c).mistaken =
              IF c.kind = "draw" THEN r.mistaken \cup UNION {Wrong(r, pc) : pc \in ToSet(c.pieces)}
              ELSE r.mistaken
<1>. DEFINE e == exec(r, c)
<1>1. /\ c.kind \in Kinds /\ c.map \in Map /\ c.pieces \in Seq(Piece)
      /\ c.kind \in {"texup", "texbind", "texefb", "copy"} => c.addr \in Addr
      /\ c.kind = "texup" => c.content \in Held
      /\ c.kind = "copy" => c.content \in CopyId
  BY DEF Cmd, Held
<1>2. /\ r.texs \in [Addr -> Held] /\ r.efb \in [Addr -> CopyId \cup {None}]
      /\ r.src \in [Map -> Source] /\ r.mistaken \in SUBSET Map
      /\ r = [texs |-> r.texs, efb |-> r.efb, src |-> r.src, mistaken |-> r.mistaken]
  BY DEF Rend
<1>3. CASE c.kind = "texup"
  <2>1. e = [texs |-> [r.texs EXCEPT ![c.addr] = c.content], efb |-> r.efb,
             src |-> [r.src EXCEPT ![c.map] = Texture(c.addr)], mistaken |-> r.mistaken]
    BY <1>2, <1>3 DEF exec, Texture
  <2>2. Texture(c.addr) \in Source
    BY <1>1, <1>3, TextureFacts
  <2>3. /\ [r.texs EXCEPT ![c.addr] = c.content] \in [Addr -> Held]
        /\ [r.src EXCEPT ![c.map] = Texture(c.addr)] \in [Map -> Source]
    BY <1>1, <1>2, <1>3, <2>2
  <2>4. e \in Rend
    BY <1>2, <2>1, <2>3 DEF Rend
  <2>5. QED BY <1>3, <2>1, <2>4
<1>4. CASE c.kind = "texbind"
  <2>1. e = [texs |-> r.texs, efb |-> r.efb,
             src |-> [r.src EXCEPT ![c.map] = Texture(c.addr)], mistaken |-> r.mistaken]
    BY <1>2, <1>4 DEF exec, Texture
  <2>2. Texture(c.addr) \in Source
    BY <1>1, <1>4, TextureFacts
  <2>3. [r.src EXCEPT ![c.map] = Texture(c.addr)] \in [Map -> Source]
    BY <1>1, <1>2, <2>2
  <2>4. e \in Rend
    BY <1>2, <2>1, <2>3 DEF Rend
  <2>5. QED BY <1>4, <2>1, <2>4
<1>5. CASE c.kind = "texefb"
  <2>1. e = [texs |-> r.texs, efb |-> r.efb,
             src |-> [r.src EXCEPT ![c.map] = CopyOf(c.addr)], mistaken |-> r.mistaken]
    BY <1>2, <1>5 DEF exec, CopyOf
  <2>2. CopyOf(c.addr) \in Source
    BY <1>1, <1>5, TextureFacts
  <2>3. [r.src EXCEPT ![c.map] = CopyOf(c.addr)] \in [Map -> Source]
    BY <1>1, <1>2, <2>2
  <2>4. e \in Rend
    BY <1>2, <2>1, <2>3 DEF Rend
  <2>5. QED BY <1>5, <2>1, <2>4
<1>6. CASE c.kind = "copy"
  <2>1. e = [texs |-> r.texs, efb |-> [r.efb EXCEPT ![c.addr] = c.content],
             src |-> r.src, mistaken |-> r.mistaken]
    BY <1>2, <1>6 DEF exec, Copied
  <2>2. [r.efb EXCEPT ![c.addr] = c.content] \in [Addr -> CopyId \cup {None}]
    BY <1>1, <1>2, <1>6
  <2>3. e \in Rend
    BY <1>2, <2>1, <2>2 DEF Rend
  <2>4. QED BY <1>6, <2>1, <2>3
<1>7. CASE c.kind = "draw"
  <2>. DEFINE w == UNION {Wrong(r, pc) : pc \in ToSet(c.pieces)}
  <2>1. e = [r EXCEPT !.mistaken = r.mistaken \cup w]
    BY <1>7 DEF exec, Wrong
  <2>2. w \subseteq Map
    <3>1. \A pc \in ToSet(c.pieces) : pc \in Piece
      BY <1>1 DEF ToSet
    <3>2. \A pc \in Piece : DOMAIN pc.want \subseteq Map
      BY DEF Piece
    <3>3. QED BY <3>1, <3>2 DEF Wrong
  <2>. HIDE DEF w
  <2>3. e = [texs |-> r.texs, efb |-> r.efb, src |-> r.src, mistaken |-> r.mistaken \cup w]
    BY <1>2, <2>1
  <2>4. r.mistaken \cup w \in SUBSET Map
    BY <1>2, <2>2
  <2>5. e \in Rend
    BY <1>2, <2>3, <2>4 DEF Rend
  <2>6. e.mistaken = r.mistaken \cup w /\ e.src = r.src /\ e.texs = r.texs /\ e.efb = r.efb
    BY <2>3
  <2>7. QED BY <1>7, <2>5, <2>6 DEF w
<1>8. CASE c.kind = "bp"
  BY <1>8 DEF exec
<1>9. QED BY <1>1, <1>3, <1>4, <1>5, <1>6, <1>7, <1>8 DEF Kinds

\* The renderer's states while it executes s from r, and the last of them.
Trace(h, r, s) ==
  /\ h \in [0 .. Len(s) -> Rend] /\ h[0] = r
  /\ \A k \in 1 .. Len(s) : h[k] = exec(h[k - 1], s[k])
Exec(r, s) == FoldLeft(exec, r, s)

LEMMA TraceThere ==
  ASSUME NEW r \in Rend, NEW s \in Seq(Cmd)
  PROVE  \E h : Trace(h, r, s) /\ Exec(r, s) = h[Len(s)]
<1>. DEFINE D == DOMAIN s
            ch == [t \in SUBSET D |-> Max(t)]
            F == [t \in SUBSET D |-> [x \in Rend |-> exec(x, s[Max(t)])]]
<1>1. Len(s) \in Nat /\ D = 1 .. Len(s) /\ IsFiniteSet(D)
  BY FS_Interval
<1>2. \A t \in SUBSET D : t # {} => Max(t) \in t /\ s[Max(t)] \in Cmd
  BY <1>1, MaxIn
<1>3. PICK g : FoldOf(g, D, Rend, r, ch, F)
  <2>1. \A t \in SUBSET D : t # {} => ch[t] \in t
    BY <1>2
  <2>2. \A t \in SUBSET D, x \in Rend : t # {} => F[t][x] \in Rend
    BY <1>2, ExecIs
  <2>. HIDE DEF D, ch, F
  <2>3. Foldable(D, Rend, r, ch, F)
    BY <1>1, <2>1, <2>2 DEF Foldable
  <2>4. QED BY <2>3, FoldExists, Zenon
<1>. DEFINE Eq(it) == it = [t \in SUBSET D |-> IF t = {} THEN r
                             ELSE LET x == Max(t) IN exec(it[t \ {x}], s[x])]
            it == CHOOSE it : Eq(it)
<1>4. Exec(r, s) = it[D]
  BY Zenon DEF Exec, FoldLeft, MapThenFoldSet
<1>5. Eq(it)
  <2>1. g \in [SUBSET D -> Rend] /\ \A t \in SUBSET D :
          g[t] = IF t = {} THEN r ELSE exec(g[t \ {Max(t)}], s[Max(t)])
    <3>1. g \in [SUBSET D -> Rend] /\ \A t \in SUBSET D :
            g[t] = IF t = {} THEN r ELSE F[t][g[t \ {ch[t]}]]
      BY <1>3, Zenon DEF FoldOf
    <3>2. ASSUME NEW t \in SUBSET D, t # {}
          PROVE  F[t][g[t \ {ch[t]}]] = exec(g[t \ {Max(t)}], s[Max(t)])
      <4>1. ch[t] = Max(t) /\ t \ {Max(t)} \in SUBSET D
        BY <3>2
      <4>2. g[t \ {Max(t)}] \in Rend
        BY <3>1, <4>1
      <4>3. QED BY <4>1, <4>2
    <3>3. QED BY <3>1, <3>2
  <2>2. Eq(g)
    BY <2>1
  <2>. HIDE DEF Eq
  <2>3. QED BY <2>2, Zenon
<1>. HIDE DEF it
<1>6. it[{}] = r /\ \A t \in SUBSET D : t # {} => it[t] = exec(it[t \ {Max(t)}], s[Max(t)])
  BY <1>5
<1>7. \A t \in SUBSET D : it[t] \in Rend
  <2>1. \A t \in SUBSET D : t # {} => ch[t] \in t /\ (it[t \ {ch[t]}] \in Rend => it[t] \in Rend)
    <3>1. ASSUME NEW t \in SUBSET D, t # {}
          PROVE  ch[t] \in t /\ (it[t \ {ch[t]}] \in Rend => it[t] \in Rend)
      <4>1. ch[t] = Max(t)
        BY <3>1
      <4>2. Max(t) \in t /\ s[Max(t)] \in Cmd
        BY <1>2, <3>1
      <4>3. it[t] = exec(it[t \ {Max(t)}], s[Max(t)])
        BY <1>6, <3>1
      <4>4. it[t \ {Max(t)}] \in Rend => exec(it[t \ {Max(t)}], s[Max(t)]) \in Rend
        BY <4>2, ExecIs
      <4>. HIDE DEF ch, F
      <4>5. QED BY <4>1, <4>2, <4>3, <4>4
    <3>2. QED BY <3>1, Zenon
  <2>2. it[{}] \in Rend
    BY <1>6
  <2>. HIDE DEF D, ch, F
  <2>3. QED BY <1>1, <2>1, <2>2, FoldStays
<1>. DEFINE h == [k \in 0 .. Len(s) |-> it[1 .. k]]
<1>8. \A k \in 0 .. Len(s) : 1 .. k \in SUBSET D
  <2>1. \A k \in 0 .. Len(s) : \A i \in 1 .. k : i \in 1 .. Len(s)
    BY <1>1
  <2>2. QED BY <1>1, <2>1
<1>9. h \in [0 .. Len(s) -> Rend]
  BY <1>7, <1>8
<1>10. h[0] = r /\ h[Len(s)] = Exec(r, s)
  <2>1. 1 .. 0 = {} /\ 0 \in 0 .. Len(s) /\ Len(s) \in 0 .. Len(s)
    BY <1>1
  <2>2. QED BY <1>1, <1>4, <1>6, <2>1
<1>11. ASSUME NEW k \in 1 .. Len(s)
       PROVE  h[k] = exec(h[k - 1], s[k])
  <2>1. Max(1 .. k) = k /\ (1 .. k) \ {k} = 1 .. (k - 1)
    BY <1>1, MaxIn
  <2>2. k \in 0 .. Len(s) /\ k - 1 \in 0 .. Len(s) /\ k \in 1 .. k
    BY <1>1
  <2>3. it[1 .. k] = exec(it[(1 .. k) \ {Max(1 .. k)}], s[Max(1 .. k)])
    <3>1. 1 .. k \in SUBSET D /\ 1 .. k # {}
      BY <1>8, <2>2
    <3>. HIDE DEF D
    <3>2. QED BY <1>6, <3>1
  <2>4. QED BY <2>1, <2>2, <2>3
<1>. HIDE DEF h
<1>12. QED BY <1>9, <1>10, <1>11 DEF Trace

\* There is one trace only.
LEMMA TraceOnce ==
  ASSUME NEW r \in Rend, NEW s \in Seq(Cmd), NEW n \in 0 .. Len(s), NEW h, NEW g,
         h[0] = r, g[0] = r,
         \A k \in 1 .. n : h[k] = exec(h[k - 1], s[k]) /\ g[k] = exec(g[k - 1], s[k])
  PROVE  h[n] = g[n]
<1>. DEFINE S == {k \in Nat : h[k] = g[k]}
<1>1. 0 \in S /\ n \in Nat
  OBVIOUS
<1>2. \A k \in Nat : k < n /\ k \in S => k + 1 \in S
  <2>1. ASSUME NEW k \in Nat, k < n, k \in S
        PROVE  k + 1 \in S
    <3>1. k + 1 \in 1 .. n /\ (k + 1) - 1 = k /\ h[k] = g[k]
      BY <1>1, <2>1
    <3>2. h[k + 1] = exec(h[k], s[k + 1]) /\ g[k + 1] = exec(g[k], s[k + 1])
      BY <3>1
    <3>3. QED BY <3>1, <3>2
  <2>2. QED BY <2>1
<1>3. \A k \in 0 .. n : k \in S
  <2>. HIDE DEF S
  <2>1. QED BY <1>1, <1>2, Upto
<1>4. QED BY <1>1, <1>3

LEMMA ExecType ==
  ASSUME NEW r \in Rend, NEW s \in Seq(Cmd)
  PROVE  Exec(r, s) \in Rend
<1>1. PICK h : Trace(h, r, s) /\ Exec(r, s) = h[Len(s)]
  BY TraceThere
<1>2. Len(s) \in 0 .. Len(s)
  <2>1. Len(s) \in Nat
    OBVIOUS
  <2>2. QED BY <2>1
<1>3. QED BY <1>1, <1>2 DEF Trace

LEMMA ExecEmpty ==
  ASSUME NEW r \in Rend
  PROVE  Exec(r, << >>) = r
<1>1. << >> \in Seq(Cmd) /\ Len(<< >>) = 0
  OBVIOUS
<1>2. PICK h : Trace(h, r, << >>) /\ Exec(r, << >>) = h[Len(<< >>)]
  BY <1>1, TraceThere
<1>3. QED BY <1>1, <1>2 DEF Trace

\* One more command is executed last.
LEMMA ExecAppend ==
  ASSUME NEW r \in Rend, NEW s \in Seq(Cmd), NEW c \in Cmd
  PROVE  Exec(r, Append(s, c)) = exec(Exec(r, s), c)
<1>. DEFINE z == Append(s, c)
            n == Len(s)
<1>1. /\ n \in Nat /\ z \in Seq(Cmd) /\ Len(z) = n + 1 /\ z[n + 1] = c
      /\ \A k \in 1 .. n : z[k] = s[k]
  OBVIOUS
<1>2. PICK h : Trace(h, r, z) /\ Exec(r, z) = h[Len(z)]
  BY <1>1, TraceThere
<1>3. PICK g : Trace(g, r, s) /\ Exec(r, s) = g[Len(s)]
  BY TraceThere
<1>. HIDE DEF z, n
<1>4. h[n] = g[n]
  <2>1. h[0] = r /\ g[0] = r
    BY <1>2, <1>3 DEF Trace
  <2>2. ASSUME NEW k \in 1 .. n
        PROVE  h[k] = exec(h[k - 1], s[k]) /\ g[k] = exec(g[k - 1], s[k])
    <3>1. k \in 1 .. Len(z) /\ k \in 1 .. Len(s)
      BY <1>1 DEF n
    <3>2. QED BY <1>1, <1>2, <1>3, <3>1 DEF Trace
  <2>3. n \in 0 .. Len(s)
    BY <1>1 DEF n
  <2>4. QED BY <2>1, <2>2, <2>3, TraceOnce
<1>5. n + 1 \in 1 .. Len(z) /\ (n + 1) - 1 = n
  BY <1>1
<1>6. h[n + 1] = exec(h[n], c)
  BY <1>1, <1>2, <1>5 DEF Trace
<1>7. QED BY <1>1, <1>2, <1>3, <1>4, <1>6 DEF z, n

-----------------------------------------------------------------------------
(* What the parser believes of the renderer once the record is executed.     *)

Renderer == [texs |-> texs, efb |-> efb, src |-> src, mistaken |-> mistaken]
After(s) == Exec(Renderer, s)

\* The renderer's sources, textures and copies will be those the parser binds,
\* has uploaded and has made; and no draw will have been mistaken.
Agrees(s, b, c) ==
  /\ After(s).src = b /\ After(s).mistaken = {}
  /\ \A a \in Addr : c[a].val # None => After(s).texs[a] = c[a].val
  /\ \A a \in Addr : copies[a].no # None => After(s).efb[a] = copies[a].no

\* What has been looked at since the last invalidation was there since then.
LookedIn(c) == \A a \in Addr : c[a].val # None /\ c[a].looked => c[a].val \in since[a]

\* A map's binding is what its registers name.
BindingRight(m, b, c) ==
  named[m] # Outside =>
    \/ /\ b[m] = Texture(named[m]) /\ c[named[m]].looked /\ c[named[m]].val # None
    \/ /\ b[m] = CopyOf(named[m]) /\ copies[named[m]].no # None
       /\ copies[named[m]].no \in since[named[m]]

HeldRight ==
  \A a \in Addr : /\ held[a] = IF CopyStands(a) THEN copies[a].no ELSE mem[a]
                  /\ held[a] \in since[a]

GuestType ==
  /\ mem \in [Addr -> Content] /\ held \in [Addr -> Content]
  /\ since \in [Addr -> SUBSET Content]
  /\ named \in [Map -> Addr \cup {Outside}] /\ used \subseteq Map /\ dirty \subseteq Map
  /\ copies \in [Addr -> [hash : Content \cup {None}, no : CopyId \cup {None}]]
  /\ copyNo \in 0 .. MaxCopies

Cache == [Addr -> [val : Held, looked : BOOLEAN]]
Syncing == [rec : Seq(Cmd), bound : [Map -> Source], cache : Cache]
\* What a draw's bindings make of the record keeps what was there, or is longer.
Good(s) ==
  /\ s \in Syncing
  /\ Agrees(s.rec, s.bound, s.cache) /\ LookedIn(s.cache)
  /\ Len(s.rec) >= Len(rec) /\ (Len(s.rec) = Len(rec) => s.rec = rec)

LEMMA CommandFacts ==
  ASSUME NEW kind \in Kinds \ {"draw"}, NEW m \in Map, NEW a \in Addr \cup {Outside}, NEW v \in Held,
         kind \in {"texup", "texbind", "texefb", "copy"} => a \in Addr,
         kind = "texup" => v \in Content,
         kind = "copy" => v \in CopyId
  PROVE  /\ Command(kind, m, a, v) \in Cmd
         /\ Command(kind, m, a, v).kind = kind /\ Command(kind, m, a, v).map = m
         /\ Command(kind, m, a, v).addr = a /\ Command(kind, m, a, v).content = v
<1>. DEFINE c == Command(kind, m, a, v)
<1>1. c = [kind |-> kind, map |-> m, addr |-> a, content |-> v,
           prim |-> CHOOSE q \in Prim : TRUE, flags |-> CHOOSE f \in Flags : TRUE,
           pieces |-> << >>]
  BY Zenon DEF Command
<1>2. << >> \in Seq(Piece) /\ ToSet(<< >>) = {}
  BY DEF ToSet
<1>3. /\ c.kind = kind /\ c.map = m /\ c.addr = a /\ c.content = v /\ c.pieces = << >>
      /\ c \in [kind : Kinds, map : Map, addr : Addr \cup {Outside}, content : Held,
                prim : Prim \cup {CHOOSE q \in Prim : TRUE},
                flags : Flags \cup {CHOOSE f \in Flags : TRUE}, pieces : Seq(Piece)]
  BY <1>1, <1>2
<1>. HIDE DEF c
<1>4. c \in Cmd
  BY <1>2, <1>3 DEF Cmd
<1>5. QED BY <1>3, <1>4 DEF c

\* After one more command that is no draw.
LEMMA BindAgrees ==
  ASSUME Renderer \in Rend, NEW s \in Syncing, Agrees(s.rec, s.bound, s.cache),
         NEW m \in Map, NEW a \in Addr,
         NEW kind \in {"texup", "texbind", "texefb"}, NEW v \in Held,
         kind = "texup" => v \in Content,
         NEW d \in Cache, \A x \in Addr : x # a => d[x] = s.cache[x],
         IF kind = "texup" THEN d[a].val = v ELSE d[a].val = s.cache[a].val
  PROVE  LET c == Command(kind, m, a, v)
             t == IF kind = "texefb" THEN CopyOf(a) ELSE Texture(a)
         IN  /\ Append(s.rec, c) \in Seq(Cmd)
             /\ [s.bound EXCEPT ![m] = t] \in [Map -> Source]
             /\ Agrees(Append(s.rec, c), [s.bound EXCEPT ![m] = t], d)
<1>. DEFINE c == Command(kind, m, a, v)
            t == IF kind = "texefb" THEN CopyOf(a) ELSE Texture(a)
<1>1. /\ c \in Cmd /\ c.kind = kind /\ c.map = m /\ c.addr = a /\ c.content = v
  <2>1. kind \in Kinds \ {"draw"} /\ kind # "copy"
    BY DEF Kinds
  <2>2. QED BY <2>1, CommandFacts
<1>. HIDE DEF c
<1>2. s.rec \in Seq(Cmd) /\ s.bound \in [Map -> Source] /\ s.cache \in Cache
  BY DEF Syncing
<1>. DEFINE r == After(s.rec)
<1>3. r \in Rend
  BY <1>2, ExecType DEF After
<1>4. After(Append(s.rec, c)) = exec(r, c)
  BY <1>1, <1>2, ExecAppend DEF After
<1>5. /\ r.src = s.bound /\ r.mistaken = {}
      /\ \A x \in Addr : s.cache[x].val # None => r.texs[x] = s.cache[x].val
      /\ \A x \in Addr : copies[x].no # None => r.efb[x] = copies[x].no
  BY DEF Agrees
<1>6. r.src \in [Map -> Source] /\ r.texs \in [Addr -> Held]
  BY <1>3 DEF Rend
<1>. HIDE DEF r
<1>7. /\ exec(r, c).src = [r.src EXCEPT ![m] = t]
      /\ exec(r, c).texs = IF kind = "texup" THEN [r.texs EXCEPT ![a] = v] ELSE r.texs
      /\ exec(r, c).efb = r.efb /\ exec(r, c).mistaken = r.mistaken
  BY <1>1, <1>3, ExecIs
<1>8. t \in Source
  BY TextureFacts
<1>9. Append(s.rec, c) \in Seq(Cmd)
  BY <1>1, <1>2
<1>10. [s.bound EXCEPT ![m] = t] \in [Map -> Source]
  BY <1>2, <1>8
<1>11. ASSUME NEW x \in Addr, d[x].val # None
       PROVE  exec(r, c).texs[x] = d[x].val
  <2>1. CASE x = a
    BY <1>5, <1>6, <1>7, <1>11, <2>1
  <2>2. CASE x # a
    BY <1>5, <1>6, <1>7, <1>11, <2>2
  <2>3. QED BY <2>1, <2>2
<1>12. Agrees(Append(s.rec, c), [s.bound EXCEPT ![m] = t], d)
  BY <1>4, <1>5, <1>7, <1>11 DEF Agrees
<1>13. QED BY <1>9, <1>10, <1>12 DEF c

\* A binding leaves the record as it was or makes it longer.
LEMMA Longer ==
  ASSUME NEW s, Good(s), NEW c \in Cmd, rec \in Seq(Cmd)
  PROVE  /\ Len(Append(s.rec, c)) >= Len(rec)
         /\ Len(Append(s.rec, c)) = Len(rec) => Append(s.rec, c) = rec
<1>1. /\ s.rec \in Seq(Cmd) /\ Len(s.rec) >= Len(rec)
  BY DEF Good, Syncing
<1>2. Len(s.rec) \in Nat /\ Len(rec) \in Nat /\ Len(Append(s.rec, c)) = Len(s.rec) + 1
  BY <1>1
<1>3. QED BY <1>1, <1>2

\* bind_map: the map is bound to what its registers name, and the other
\* bindings stay right.
LEMMA BindMap ==
  ASSUME GuestType, HeldRight, Renderer \in Rend, rec \in Seq(Cmd),
         NEW s, Good(s), NEW m \in Map
  PROVE  /\ Good(bind_map(s, m))
         /\ BindingRight(m, bind_map(s, m).bound, bind_map(s, m).cache)
         /\ \A n \in Map : BindingRight(n, s.bound, s.cache) =>
              BindingRight(n, bind_map(s, m).bound, bind_map(s, m).cache)
<1>. DEFINE b == bind_map(s, m)
            a == named[m]
            e == s.cache[a]
            looks == e.val = None \/ ~e.looked
            d == [s.cache EXCEPT ![a] = IF looks THEN [val |-> mem[a], looked |-> TRUE] ELSE e]
            seen == [s EXCEPT !.cache = d]
<1>1. /\ s \in Syncing /\ s.rec \in Seq(Cmd) /\ s.bound \in [Map -> Source] /\ s.cache \in Cache
      /\ s = [rec |-> s.rec, bound |-> s.bound, cache |-> s.cache]
      /\ Agrees(s.rec, s.bound, s.cache) /\ LookedIn(s.cache)
  BY DEF Good, Syncing
<1>2. a \in Addr \cup {Outside}
  BY DEF GuestType
<1>3. CASE a = Outside
  <2>1. b = s
    BY <1>3 DEF bind_map
  <2>2. BindingRight(m, s.bound, s.cache)
    BY <1>3 DEF BindingRight
  <2>3. QED BY <2>1, <2>2
<1>4. CASE a # Outside /\ CopyStands(a)
  <2>1. a \in Addr
    BY <1>2, <1>4
  <2>2. copies[a].no # None /\ copies[a].no \in since[a]
    BY <1>4, <2>1 DEF CopyStands, HeldRight
  <2>3. CASE s.bound[m] = CopyOf(a)
    <3>1. b = s
      BY <1>4, <2>3 DEF bind_map, CopyOf
    <3>2. BindingRight(m, s.bound, s.cache)
      BY <2>2, <2>3 DEF BindingRight
    <3>3. QED BY <3>1, <3>2
  <2>4. CASE s.bound[m] # CopyOf(a)
    <3>. DEFINE c == Command("texefb", m, a, None)
                bb == [s.bound EXCEPT ![m] = CopyOf(a)]
    <3>1. b = [s EXCEPT !.rec = Append(@, c), !.bound[m] = CopyOf(a)]
      BY <1>4, <2>4 DEF bind_map, Bind, CopyOf
    <3>2. b = [rec |-> Append(s.rec, c), bound |-> bb, cache |-> s.cache]
      BY <1>1, <3>1
    <3>3. /\ Append(s.rec, c) \in Seq(Cmd) /\ bb \in [Map -> Source]
          /\ Agrees(Append(s.rec, c), bb, s.cache)
      <4>1. None \in Held
        BY DEF Held
      <4>2. QED BY <1>1, <2>1, <4>1, BindAgrees
    <3>4. c \in Cmd
      <4>1. "texefb" \in Kinds \ {"draw"} /\ None \in Held
        BY DEF Kinds, Held
      <4>2. QED BY <2>1, <4>1, CommandFacts
    <3>. HIDE DEF c
    <3>5. b \in Syncing
      BY <1>1, <3>2, <3>3 DEF Syncing
    <3>6. Good(b)
      BY <1>1, <3>2, <3>3, <3>4, <3>5, Longer DEF Good
    <3>7. bb[m] = CopyOf(a) /\ \A n \in Map : n # m => bb[n] = s.bound[n]
      BY <1>1
    <3>. HIDE DEF bb, b
    <3>8. BindingRight(m, b.bound, b.cache)
      BY <2>2, <3>2, <3>7 DEF BindingRight
    <3>9. ASSUME NEW n \in Map, BindingRight(n, s.bound, s.cache), n # m
          PROVE  BindingRight(n, b.bound, b.cache)
      BY <3>2, <3>7, <3>9 DEF BindingRight
    <3>10. QED BY <3>6, <3>8, <3>9 DEF b
  <2>5. QED BY <2>3, <2>4
<1>5. CASE a # Outside /\ ~CopyStands(a)
  <2>1. a \in Addr
    BY <1>2, <1>5
  <2>2. mem[a] \in since[a] /\ mem[a] \in Content /\ mem[a] # None
    BY <1>5, <2>1, TextureFacts DEF HeldRight, GuestType
  <2>3. e.val \in Held /\ e.looked \in BOOLEAN /\ mem[a] \in Held
    BY <1>1, <2>1, <2>2 DEF Cache, Held
  <2>4. /\ d \in Cache /\ d[a].looked /\ d[a].val # None /\ d[a].val \in since[a]
        /\ \A x \in Addr : x # a => d[x] = s.cache[x]
    <3>1. CASE looks
      <4>1. d = [s.cache EXCEPT ![a] = [val |-> mem[a], looked |-> TRUE]]
        BY <3>1
      <4>2. [val |-> mem[a], looked |-> TRUE] \in [val : Held, looked : BOOLEAN]
        BY <2>3
      <4>3. QED BY <1>1, <2>1, <2>2, <4>1, <4>2 DEF Cache
    <3>2. CASE ~looks
      <4>1. d = s.cache
        BY <1>1, <2>1, <3>2 DEF Cache
      <4>2. e.val # None /\ e.looked
        BY <3>2
      <4>3. e.val \in since[a]
        BY <1>1, <2>1, <4>2 DEF LookedIn
      <4>4. QED BY <1>1, <4>1, <4>2, <4>3
    <3>3. QED BY <3>1, <3>2
  <2>5. LookedIn(d)
    BY <1>1, <2>4 DEF LookedIn
  <2>6. seen = [rec |-> s.rec, bound |-> s.bound, cache |-> d] /\ seen \in Syncing
    <3>1. seen = [rec |-> s.rec, bound |-> s.bound, cache |-> d]
      <4>. HIDE DEF d
      <4>1. QED BY <1>1
    <3>2. [rec |-> s.rec, bound |-> s.bound, cache |-> d] \in Syncing
      <4>. HIDE DEF d
      <4>1. QED BY <1>1, <2>4 DEF Syncing
    <3>3. QED BY <3>1, <3>2
  <2>7. [s EXCEPT !.cache[a] = IF looks THEN [val |-> mem[a], looked |-> TRUE] ELSE e] = seen
    BY <1>1
  <2>8. CASE looks /\ mem[a] # e.val
    <3>. DEFINE c == Command("texup", m, a, mem[a])
                bb == [s.bound EXCEPT ![m] = Texture(a)]
    <3>1. b = [seen EXCEPT !.rec = Append(@, c), !.bound[m] = Texture(a)]
      BY <1>5, <2>7, <2>8 DEF bind_map, Bind, Texture
    <3>2. b = [rec |-> Append(s.rec, c), bound |-> bb, cache |-> d]
      <4>. HIDE DEF d, c
      <4>1. QED BY <2>6, <3>1
    <3>3. d[a].val = mem[a]
      BY <1>1, <2>1, <2>8 DEF Cache
    <3>. HIDE DEF d
    <3>4. /\ Append(s.rec, c) \in Seq(Cmd) /\ bb \in [Map -> Source]
          /\ Agrees(Append(s.rec, c), bb, d)
      <4>1. ~("texup" = "texefb")
        OBVIOUS
      <4>. HIDE DEF a, e
      <4>2. QED BY <1>1, <2>1, <2>2, <2>3, <2>4, <3>3, <4>1, BindAgrees
    <3>5. c \in Cmd
      <4>1. "texup" \in Kinds \ {"draw"}
        BY DEF Kinds
      <4>2. QED BY <2>1, <2>2, <2>3, <4>1, CommandFacts
    <3>. HIDE DEF c
    <3>6. b \in Syncing
      BY <2>4, <3>2, <3>4 DEF Syncing
    <3>7. Good(b)
      BY <2>5, <3>2, <3>4, <3>5, <3>6, Longer DEF Good
    <3>8. bb[m] = Texture(a) /\ \A n \in Map : n # m => bb[n] = s.bound[n]
      BY <1>1
    <3>. HIDE DEF bb, b
    <3>9. BindingRight(m, b.bound, b.cache)
      BY <2>4, <3>2, <3>8 DEF BindingRight
    <3>10. ASSUME NEW n \in Map, BindingRight(n, s.bound, s.cache), n # m
           PROVE  BindingRight(n, b.bound, b.cache)
      <4>1. named[n] # Outside => named[n] \in Addr
        BY DEF GuestType
      <4>2. QED BY <2>4, <3>2, <3>8, <3>10, <4>1 DEF BindingRight
    <3>11. QED BY <3>7, <3>9, <3>10 DEF b
  <2>9. CASE ~(looks /\ mem[a] # e.val)
    <3>1. d[a].val = s.cache[a].val
      BY <1>1, <2>1, <2>9 DEF Cache
    <3>2. b = IF s.bound[m] = Texture(a) THEN seen
              ELSE Bind(seen, m, Command("texbind", m, a, None), Texture(a))
      BY <1>5, <2>7, <2>9 DEF bind_map, Texture
    <3>. HIDE DEF d
    <3>3. CASE s.bound[m] = Texture(a)
      <4>1. b = [rec |-> s.rec, bound |-> s.bound, cache |-> d] /\ b \in Syncing
        BY <2>6, <3>2, <3>3
      <4>2. Agrees(s.rec, s.bound, d)
        BY <1>1, <2>4, <3>1 DEF Agrees
      <4>. HIDE DEF b
      <4>3. Good(b)
        BY <1>1, <2>5, <4>1, <4>2 DEF Good
      <4>4. BindingRight(m, b.bound, b.cache)
        BY <2>4, <3>3, <4>1 DEF BindingRight
      <4>5. ASSUME NEW n \in Map, BindingRight(n, s.bound, s.cache)
            PROVE  BindingRight(n, b.bound, b.cache)
        <5>1. named[n] # Outside => named[n] \in Addr
          BY DEF GuestType
        <5>2. QED BY <2>4, <4>1, <4>5, <5>1 DEF BindingRight
      <4>6. QED BY <4>3, <4>4, <4>5 DEF b
    <3>4. CASE s.bound[m] # Texture(a)
      <4>. DEFINE c == Command("texbind", m, a, None)
                  bb == [s.bound EXCEPT ![m] = Texture(a)]
      <4>1. b = [seen EXCEPT !.rec = Append(@, c), !.bound[m] = Texture(a)]
        BY <3>2, <3>4 DEF Bind
      <4>2. b = [rec |-> Append(s.rec, c), bound |-> bb, cache |-> d]
        <5>. HIDE DEF c
        <5>1. QED BY <2>6, <4>1
      <4>3. None \in Held /\ "texbind" \in Kinds \ {"draw"}
        BY DEF Kinds, Held
      <4>4. /\ Append(s.rec, c) \in Seq(Cmd) /\ bb \in [Map -> Source]
            /\ Agrees(Append(s.rec, c), bb, d)
        BY <1>1, <2>1, <2>4, <3>1, <4>3, BindAgrees
      <4>5. c \in Cmd
        BY <2>1, <4>3, CommandFacts
      <4>. HIDE DEF c
      <4>6. b \in Syncing
        BY <2>4, <4>2, <4>4 DEF Syncing
      <4>7. Good(b)
        BY <2>5, <4>2, <4>4, <4>5, <4>6, Longer DEF Good
      <4>8. bb[m] = Texture(a) /\ \A n \in Map : n # m => bb[n] = s.bound[n]
        BY <1>1
      <4>. HIDE DEF bb, b
      <4>9. BindingRight(m, b.bound, b.cache)
        BY <2>4, <4>2, <4>8 DEF BindingRight
      <4>10. ASSUME NEW n \in Map, BindingRight(n, s.bound, s.cache), n # m
             PROVE  BindingRight(n, b.bound, b.cache)
        <5>1. named[n] # Outside => named[n] \in Addr
          BY DEF GuestType
        <5>2. QED BY <2>4, <4>2, <4>8, <4>10, <5>1 DEF BindingRight
      <4>11. QED BY <4>7, <4>9, <4>10 DEF b
    <3>5. QED BY <3>3, <3>4
  <2>10. QED BY <2>8, <2>9
<1>6. QED BY <1>3, <1>4, <1>5

\* sync_textures: every map the next draw samples is bound to what it names.
SyncMap(s, m) == IF m \in used \cap dirty THEN bind_map(s, m) ELSE s
Before0 == [rec |-> rec, bound |-> bound, cache |-> tcache]

LEMMA Synced ==
  ASSUME GuestType, HeldRight, Renderer \in Rend, rec \in Seq(Cmd), Good(Before0),
         \A m \in Map \ dirty : BindingRight(m, bound, tcache)
  PROVE  /\ Good(sync_textures)
         /\ \A m \in (Map \ dirty) \cup used :
              BindingRight(m, sync_textures.bound, sync_textures.cache)
<1>. DEFINE q == [i \in 1 .. NMap |-> i - 1]
            D == 1 .. NMap
            X == {s \in Syncing : Good(s)}
            ch == [t \in SUBSET D |-> Max(t)]
            F == [t \in SUBSET D |-> [x \in X |-> SyncMap(x, q[Max(t)])]]
<1>1. NMap \in Nat \ {0} /\ D = DOMAIN q /\ IsFiniteSet(D)
  BY TextureFacts, FS_Interval
<1>2. \A t \in SUBSET D : t # {} => Max(t) \in t /\ q[Max(t)] \in Map
  <2>1. \A i \in D : q[i] \in Map
    BY <1>1 DEF Map
  <2>. HIDE DEF q
  <2>2. QED BY <1>1, <2>1, MaxIn
<1>3. \A s \in X, m \in Map : SyncMap(s, m) \in X
  <2>1. \A s \in X, m \in Map : Good(bind_map(s, m))
    BY BindMap
  <2>2. QED BY <2>1 DEF SyncMap, Good
<1>4. Before0 \in X
  BY DEF Good
<1>5. PICK g : FoldOf(g, D, X, Before0, ch, F)
  <2>1. \A t \in SUBSET D : t # {} => ch[t] \in t
    BY <1>2
  <2>2. \A t \in SUBSET D, x \in X : t # {} => F[t][x] \in X
    <3>1. ASSUME NEW t \in SUBSET D, NEW x \in X, t # {}
          PROVE  F[t][x] \in X
      <4>1. F[t][x] = SyncMap(x, q[Max(t)])
        <5>. HIDE DEF X, q, D
        <5>1. QED BY <3>1
      <4>2. q[Max(t)] \in Map
        BY <1>2, <3>1
      <4>. HIDE DEF X, q, D, F
      <4>3. QED BY <1>3, <3>1, <4>1, <4>2
    <3>2. QED BY <3>1, Zenon
  <2>. HIDE DEF D, ch, F, X
  <2>3. Foldable(D, X, Before0, ch, F)
    BY <1>1, <1>4, <2>1, <2>2 DEF Foldable
  <2>4. QED BY <2>3, FoldExists, Zenon
<1>. DEFINE Eq(it) == it = [t \in SUBSET D |-> IF t = {} THEN Before0
                             ELSE LET x == Max(t) IN SyncMap(it[t \ {x}], q[x])]
            it == CHOOSE it : Eq(it)
<1>6. sync_textures = it[D]
  BY <1>1, Zenon DEF sync_textures, FoldLeft, MapThenFoldSet, SyncMap, Before0
<1>. HIDE DEF X
<1>7. Eq(it)
  <2>1. g \in [SUBSET D -> X] /\ \A t \in SUBSET D :
          g[t] = IF t = {} THEN Before0 ELSE SyncMap(g[t \ {Max(t)}], q[Max(t)])
    <3>1. g \in [SUBSET D -> X] /\ \A t \in SUBSET D :
            g[t] = IF t = {} THEN Before0 ELSE F[t][g[t \ {ch[t]}]]
      BY <1>5, Zenon DEF FoldOf
    <3>2. ASSUME NEW t \in SUBSET D, t # {}
          PROVE  F[t][g[t \ {ch[t]}]] = SyncMap(g[t \ {Max(t)}], q[Max(t)])
      <4>1. ch[t] = Max(t) /\ t \ {Max(t)} \in SUBSET D
        BY <3>2
      <4>2. g[t \ {Max(t)}] \in X
        BY <3>1, <4>1
      <4>3. QED BY <4>1, <4>2
    <3>3. QED BY <3>1, <3>2
  <2>2. Eq(g)
    <3>. HIDE DEF q
    <3>1. QED BY <2>1
  <2>. HIDE DEF Eq
  <2>3. QED BY <2>2, Zenon
<1>. HIDE DEF it, q
<1>8. it[{}] = Before0 /\ \A t \in SUBSET D : t # {} => it[t] = SyncMap(it[t \ {Max(t)}], q[Max(t)])
  BY <1>7
<1>9. \A t \in SUBSET D : it[t] \in X
  <2>1. \A t \in SUBSET D : t # {} => ch[t] \in t /\ (it[t \ {ch[t]}] \in X => it[t] \in X)
    <3>1. ASSUME NEW t \in SUBSET D, t # {}
          PROVE  ch[t] \in t /\ (it[t \ {ch[t]}] \in X => it[t] \in X)
      <4>1. ch[t] = Max(t)
        BY <3>1
      <4>2. Max(t) \in t /\ q[Max(t)] \in Map
        BY <1>2, <3>1
      <4>3. it[t] = SyncMap(it[t \ {Max(t)}], q[Max(t)])
        BY <1>8, <3>1
      <4>. HIDE DEF ch, F
      <4>4. QED BY <1>3, <4>1, <4>2, <4>3
    <3>2. QED BY <3>1, Zenon
  <2>2. it[{}] \in X
    BY <1>4, <1>8
  <2>. HIDE DEF D, ch, F
  <2>3. QED BY <1>1, <2>1, <2>2, FoldStays
<1>10. ASSUME NEW k \in 1 .. NMap
       PROVE  it[1 .. k] = SyncMap(it[1 .. (k - 1)], k - 1) /\ k - 1 \in Map
  <2>1. Max(1 .. k) = k /\ (1 .. k) \ {k} = 1 .. (k - 1)
    BY <1>1, MaxIn
  <2>2. k \in 1 .. k /\ (\A i \in 1 .. k : i \in D) /\ q[k] = k - 1 /\ k - 1 \in Map
    BY <1>1 DEF q, Map
  <2>3. 1 .. k \in SUBSET D /\ 1 .. k # {}
    BY <2>2
  <2>4. it[1 .. k] = SyncMap(it[(1 .. k) \ {Max(1 .. k)}], q[Max(1 .. k)])
    <3>. HIDE DEF D
    <3>1. QED BY <1>8, <2>3
  <2>5. QED BY <2>1, <2>2, <2>4
<1>11. \A k \in 0 .. NMap : it[1 .. k] \in X
  <2>1. \A k \in 0 .. NMap : \A i \in 1 .. k : i \in 1 .. NMap
    BY <1>1
  <2>2. QED BY <1>9, <2>1
<1>. DEFINE Right(k, m) == BindingRight(m, it[1 .. k].bound, it[1 .. k].cache)
            S == {k \in Nat : \A m \in Map : m \notin dirty \/ (m \in used /\ m < k) => Right(k, m)}
<1>12. 0 \in S
  <2>1. it[1 .. 0] = Before0
    <3>1. 1 .. 0 = {}
      OBVIOUS
    <3>2. QED BY <1>8, <3>1
  <2>2. it[1 .. 0].bound = bound /\ it[1 .. 0].cache = tcache
    BY <2>1 DEF Before0
  <2>3. \A m \in Map : ~(m < 0)
    BY <1>1 DEF Map
  <2>4. QED BY <2>2, <2>3
<1>13. \A k \in Nat : k < NMap /\ k \in S => k + 1 \in S
  <2>1. ASSUME NEW k \in Nat, k < NMap, k \in S
        PROVE  k + 1 \in S
    <3>1. k + 1 \in 1 .. NMap /\ (k + 1) - 1 = k /\ k \in 0 .. NMap
      BY <1>1, <2>1
    <3>2. it[1 .. (k + 1)] = SyncMap(it[1 .. k], k) /\ k \in Map
      BY <1>10, <3>1
    <3>3. it[1 .. k] \in X /\ Good(it[1 .. k])
      BY <1>11, <3>1 DEF X
    <3>4. ASSUME NEW m \in Map, m \notin dirty \/ (m \in used /\ m < k + 1)
          PROVE  Right(k + 1, m)
      <4>1. CASE k \in used \cap dirty
        <5>1. it[1 .. (k + 1)] = bind_map(it[1 .. k], k)
          BY <3>2, <4>1 DEF SyncMap
        <5>2. CASE m = k
          BY <3>2, <3>3, <5>1, <5>2, BindMap
        <5>3. CASE m # k
          <6>1. m \notin dirty \/ (m \in used /\ m < k)
            BY <1>1, <2>1, <3>4, <5>3 DEF Map
          <6>2. Right(k, m)
            BY <2>1, <6>1
          <6>3. QED BY <3>2, <3>3, <5>1, <6>2, BindMap
        <5>4. QED BY <5>2, <5>3
      <4>2. CASE k \notin used \cap dirty
        <5>1. it[1 .. (k + 1)] = it[1 .. k]
          BY <3>2, <4>2 DEF SyncMap
        <5>2. m \notin dirty \/ (m \in used /\ m < k)
          BY <1>1, <2>1, <3>4, <4>2 DEF Map
        <5>3. Right(k, m)
          BY <2>1, <5>2
        <5>4. QED BY <5>1, <5>3
      <4>3. QED BY <4>1, <4>2
    <3>. HIDE DEF Right
    <3>5. QED BY <2>1, <3>4
  <2>2. QED BY <2>1
<1>14. NMap \in S
  <2>1. \A k \in 0 .. NMap : k \in S
    <3>. HIDE DEF S
    <3>1. QED BY <1>1, <1>12, <1>13, Upto
  <2>2. QED BY <1>1, <2>1
<1>15. ASSUME NEW m \in (Map \ dirty) \cup used
       PROVE  Right(NMap, m)
  <2>1. m \in Map /\ (m \notin dirty \/ (m \in used /\ m < NMap))
    <3>1. used \subseteq Map
      BY DEF GuestType
    <3>2. \A n \in Map : n < NMap
      BY <1>1 DEF Map
    <3>3. QED BY <1>15, <3>1, <3>2
  <2>2. QED BY <1>14, <2>1
<1>16. Good(it[D])
  <2>1. NMap \in 0 .. NMap
    BY <1>1
  <2>2. QED BY <1>11, <2>1 DEF X
<1>17. QED BY <1>6, <1>15, <1>16

-----------------------------------------------------------------------------
(* The inductive invariant.                                                  *)

\* The draw that the next one may join is the record's last command.
LastDraw == drawEnd # -1 =>
  drawHdr = drawEnd /\ drawEnd \in 1 .. Len(rec) /\ rec[drawHdr].kind = "draw"

RecordType ==
  /\ Renderer \in Rend /\ rec \in Seq(Cmd) /\ Len(rec) <= MaxRec
  /\ bound \in [Map -> Source] /\ tcache \in Cache
  /\ drawHdr \in 0 .. MaxRec /\ drawEnd \in -1 .. MaxRec

BindingsRight == \A m \in Map \ dirty : BindingRight(m, bound, tcache)

TexturesInv ==
  /\ GuestType /\ RecordType /\ HeldRight /\ LastDraw
  /\ Agrees(rec, bound, tcache) /\ LookedIn(tcache) /\ BindingsRight
  /\ TexturesRight

LEMMA TexturesStart == GxInit => TexturesInv
<1>. SUFFICES ASSUME GxInit
              PROVE  TexturesInv
  OBVIOUS
<1>1. /\ mem \in [Addr -> Value] /\ held = mem /\ since = [a \in Addr |-> {mem[a]}]
      /\ named = [m \in Map |-> Outside] /\ used = {} /\ dirty = Map
      /\ bound = [m \in Map |-> NoSource] /\ src = bound
      /\ tcache = [a \in Addr |-> [val |-> None, looked |-> FALSE]]
      /\ copies = [a \in Addr |-> [hash |-> None, no |-> None]] /\ copyNo = 0
      /\ rec = << >> /\ drawHdr = 0 /\ drawEnd = -1 /\ mistaken = {}
      /\ texs = [a \in Addr |-> None] /\ efb = [a \in Addr |-> None]
  BY DEF GxInit
<1>2. Value \subseteq Content /\ NoSource \in Source /\ None \in Held /\ MaxRec \in Nat /\ MaxCopies \in Nat
  BY TextureFacts DEF Content, NoSource, Source, Held
<1>3. GuestType
  <2>1. mem \in [Addr -> Content] /\ since \in [Addr -> SUBSET Content]
    BY <1>1, <1>2
  <2>2. copies \in [Addr -> [hash : Content \cup {None}, no : CopyId \cup {None}]]
    BY <1>1
  <2>3. named \in [Map -> Addr \cup {Outside}] /\ copyNo \in 0 .. MaxCopies
    BY <1>1, <1>2
  <2>4. QED BY <1>1, <2>1, <2>2, <2>3 DEF GuestType
<1>4. Renderer \in Rend
  BY <1>1, <1>2 DEF Renderer, Rend
<1>5. RecordType
  <2>1. rec \in Seq(Cmd) /\ Len(rec) = 0
    BY <1>1
  <2>2. bound \in [Map -> Source] /\ tcache \in Cache
    BY <1>1, <1>2 DEF Cache
  <2>3. drawHdr \in 0 .. MaxRec /\ drawEnd \in -1 .. MaxRec /\ Len(rec) <= MaxRec
    BY <1>1, <1>2, <2>1
  <2>4. QED BY <1>4, <2>1, <2>2, <2>3 DEF RecordType
<1>6. HeldRight
  BY <1>1 DEF HeldRight, CopyStands
<1>7. LastDraw
  BY <1>1 DEF LastDraw
<1>8. After(rec) = Renderer
  BY <1>1, <1>4, ExecEmpty DEF After
<1>9. Agrees(rec, bound, tcache)
  BY <1>1, <1>8 DEF Agrees, Renderer
<1>10. LookedIn(tcache) /\ BindingsRight
  BY <1>1 DEF LookedIn, BindingsRight
<1>11. QED BY <1>1, <1>3, <1>5, <1>6, <1>7, <1>9, <1>10 DEF TexturesInv, TexturesRight

\* What a step that leaves the renderer alone makes of the renderer's states.
LEMMA AfterPrime ==
  ASSUME UNCHANGED renderer
  PROVE  /\ Renderer' = Renderer /\ \A s : After(s)' = After(s)
         /\ TexturesRight => TexturesRight'
BY DEF renderer, Renderer, After, TexturesRight

LEMMA WriteMemInv ==
  ASSUME TexturesInv, NEW a \in Addr, NEW v \in Value, WriteMem(a, v)
  PROVE  TexturesInv'
<1>1. /\ GuestType /\ RecordType /\ HeldRight /\ LastDraw
      /\ Agrees(rec, bound, tcache) /\ LookedIn(tcache) /\ BindingsRight
  BY DEF TexturesInv
<1>2. /\ v # mem[a] /\ v # copies[a].hash
      /\ mem' = [mem EXCEPT ![a] = v] /\ held' = [held EXCEPT ![a] = v]
      /\ since' = [since EXCEPT ![a] = @ \cup {v}]
      /\ UNCHANGED <<parser, record, renderer>>
  BY DEF WriteMem
<1>3. /\ UNCHANGED <<named, used, dirty, bound, tcache, copies, copyNo, rec, drawHdr, drawEnd>>
      /\ Renderer' = Renderer /\ \A s : After(s)' = After(s)
  BY <1>2, AfterPrime DEF parser, record
<1>4. v \in Content
  BY DEF Content
<1>5. \A x \in Addr : since[x] \subseteq since'[x]
  BY <1>1, <1>2 DEF GuestType
<1>6. GuestType'
  <2>1. /\ mem' \in [Addr -> Content] /\ held' \in [Addr -> Content]
        /\ since' \in [Addr -> SUBSET Content]
    BY <1>1, <1>2, <1>4 DEF GuestType
  <2>2. QED BY <1>1, <1>3, <2>1 DEF GuestType
<1>7. HeldRight'
  <2>1. ASSUME NEW x \in Addr
        PROVE  /\ held'[x] = IF CopyStands(x)' THEN copies[x].no ELSE mem'[x]
               /\ held'[x] \in since'[x]
    <3>1. CASE x = a
      <4>1. held'[x] = v /\ mem'[x] = v /\ v \in since'[x]
        BY <1>1, <1>2, <3>1 DEF GuestType
      <4>2. ~CopyStands(x)'
        BY <1>2, <1>3, <3>1, <4>1 DEF CopyStands
      <4>3. QED BY <4>1, <4>2
    <3>2. CASE x # a
      <4>1. held'[x] = held[x] /\ mem'[x] = mem[x]
        BY <1>1, <1>2, <3>2 DEF GuestType
      <4>2. CopyStands(x)' <=> CopyStands(x)
        BY <1>3, <4>1 DEF CopyStands
      <4>3. QED BY <1>1, <1>5, <4>1, <4>2 DEF HeldRight
    <3>3. QED BY <3>1, <3>2
  <2>2. QED BY <1>3, <2>1 DEF HeldRight
<1>8. RecordType' /\ LastDraw'
  BY <1>1, <1>3 DEF RecordType, LastDraw
<1>9. Agrees(rec, bound, tcache)'
  BY <1>1, <1>3 DEF Agrees
<1>10. LookedIn(tcache)'
  BY <1>1, <1>3, <1>5 DEF LookedIn
<1>11. BindingsRight'
  <2>1. \A m \in Map : named[m] # Outside => named[m] \in Addr
    BY <1>1 DEF GuestType
  <2>2. \A m \in Map : BindingRight(m, bound, tcache) => BindingRight(m, bound, tcache)'
    BY <1>3, <1>5, <2>1 DEF BindingRight
  <2>3. QED BY <1>1, <1>3, <2>2 DEF BindingsRight, BindingRight
<1>12. QED BY <1>2, <1>6, <1>7, <1>8, <1>9, <1>10, <1>11, AfterPrime DEF TexturesInv

\* A command that only sets a register, put into the record.
LEMMA PutRegister ==
  ASSUME TexturesInv, Put(Register), UNCHANGED <<bound, tcache, copies, drawHdr, drawEnd, renderer>>
  PROVE  RecordType' /\ LastDraw' /\ Agrees(rec, bound, tcache)'
<1>1. /\ RecordType /\ LastDraw /\ Agrees(rec, bound, tcache)
      /\ rec' = Append(rec, Register) /\ Len(rec) < MaxRec
      /\ rec \in Seq(Cmd) /\ Renderer \in Rend
  BY DEF TexturesInv, Put, RecordType
<1>2. Register \in Cmd /\ Register.kind = "bp"
  <2>1. "bp" \in Kinds \ {"draw"} /\ 0 \in Map /\ None \in Held
    BY TextureFacts DEF Kinds, Held
  <2>2. QED BY <2>1, CommandFacts DEF Register
<1>. HIDE DEF Register
<1>3. Renderer' = Renderer /\ \A s : After(s)' = After(s)
  BY AfterPrime
<1>4. /\ rec' \in Seq(Cmd) /\ Len(rec') = Len(rec) + 1 /\ Len(rec) \in Nat
      /\ \A i \in 1 .. Len(rec) : rec'[i] = rec[i]
  BY <1>1, <1>2
<1>5. RecordType'
  <2>1. Len(rec') <= MaxRec
    BY <1>1, <1>4, TextureFacts
  <2>2. QED BY <1>1, <1>3, <1>4, <2>1 DEF RecordType
<1>6. LastDraw'
  <2>1. ASSUME drawEnd # -1
        PROVE  drawHdr = drawEnd /\ drawEnd \in 1 .. Len(rec') /\ rec'[drawHdr].kind = "draw"
    BY <1>1, <1>4, <2>1 DEF LastDraw
  <2>2. QED BY <2>1 DEF LastDraw
<1>7. After(rec') = exec(After(rec), Register) /\ After(rec) \in Rend
  BY <1>1, <1>2, ExecAppend, ExecType DEF After
<1>8. /\ After(rec').src = After(rec).src /\ After(rec').texs = After(rec).texs
      /\ After(rec').efb = After(rec).efb /\ After(rec').mistaken = After(rec).mistaken
  <2>1. \A r \in Rend : /\ exec(r, Register).src = r.src /\ exec(r, Register).texs = r.texs
                        /\ exec(r, Register).efb = r.efb
                        /\ exec(r, Register).mistaken = r.mistaken
    BY <1>2, ExecIs
  <2>2. QED BY <1>7, <2>1
<1>9. After(rec)' = After(rec')
  BY <1>3 DEF renderer, Renderer, After
<1>10. Agrees(rec, bound, tcache)'
  BY <1>1, <1>8, <1>9 DEF Agrees
<1>11. QED BY <1>5, <1>6, <1>10

LEMMA SetMapInv ==
  ASSUME TexturesInv, NEW n \in Map, NEW a \in Addr \cup {Outside}, SetMap(n, a)
  PROVE  TexturesInv'
<1>1. /\ GuestType /\ RecordType /\ HeldRight
      /\ Agrees(rec, bound, tcache) /\ LookedIn(tcache) /\ BindingsRight
  BY DEF TexturesInv
<1>2. /\ named' = [named EXCEPT ![n] = a] /\ dirty' = dirty \cup {n} /\ Put(Register)
      /\ UNCHANGED <<mem, held, since, used, bound, tcache, copies, copyNo, drawHdr,
                     drawEnd, renderer>>
  BY DEF SetMap, guestVars
<1>3. RecordType' /\ LastDraw' /\ Agrees(rec, bound, tcache)'
  BY <1>2, PutRegister
<1>4. GuestType'
  BY <1>1, <1>2 DEF GuestType
<1>5. HeldRight' /\ LookedIn(tcache)'
  BY <1>1, <1>2 DEF HeldRight, LookedIn, CopyStands
<1>6. BindingsRight'
  <2>1. ASSUME NEW m \in Map \ dirty'
        PROVE  BindingRight(m, bound, tcache)'
    <3>1. m # n /\ m \in Map \ dirty /\ named'[m] = named[m]
      BY <1>1, <1>2, <2>1 DEF GuestType
    <3>2. QED BY <1>1, <1>2, <3>1 DEF BindingsRight, BindingRight
  <2>2. QED BY <2>1 DEF BindingsRight
<1>7. QED BY <1>2, <1>3, <1>4, <1>5, <1>6, AfterPrime DEF TexturesInv

LEMMA SetTevInv ==
  ASSUME TexturesInv, NEW maps \in SUBSET Map, SetTev(maps)
  PROVE  TexturesInv'
<1>1. /\ GuestType /\ RecordType /\ HeldRight
      /\ Agrees(rec, bound, tcache) /\ LookedIn(tcache) /\ BindingsRight
  BY DEF TexturesInv
<1>2. /\ used' = maps /\ Put(Register)
      /\ UNCHANGED <<mem, held, since, named, dirty, bound, tcache, copies, copyNo, drawHdr,
                     drawEnd, renderer>>
  BY DEF SetTev, guestVars
<1>3. RecordType' /\ LastDraw' /\ Agrees(rec, bound, tcache)'
  BY <1>2, PutRegister
<1>4. GuestType'
  BY <1>1, <1>2 DEF GuestType
<1>5. HeldRight' /\ LookedIn(tcache)' /\ BindingsRight'
  BY <1>1, <1>2 DEF HeldRight, LookedIn, CopyStands, BindingsRight, BindingRight
<1>6. QED BY <1>2, <1>3, <1>4, <1>5, AfterPrime DEF TexturesInv

LEMMA InvalidateInv ==
  ASSUME TexturesInv, InvalidateTexAll
  PROVE  TexturesInv'
<1>1. /\ GuestType /\ RecordType /\ HeldRight /\ LastDraw
      /\ Agrees(rec, bound, tcache)
  BY DEF TexturesInv
<1>2. /\ tcache' = [a \in Addr |-> [tcache[a] EXCEPT !.looked = FALSE]]
      /\ dirty' = Map /\ since' = [a \in Addr |-> {held[a]}]
      /\ UNCHANGED <<mem, held, named, used, bound, copies, copyNo, record, renderer>>
  BY DEF InvalidateTexAll, DirtyAll
<1>3. Renderer' = Renderer /\ (\A s : After(s)' = After(s)) /\ UNCHANGED <<rec, drawHdr, drawEnd>>
  BY <1>2, AfterPrime DEF record
<1>4. tcache \in [Addr -> [val : Held, looked : BOOLEAN]]
  BY <1>1 DEF RecordType, Cache
<1>5. tcache' \in Cache /\ \A a \in Addr : tcache'[a].val = tcache[a].val /\ ~tcache'[a].looked
  <2>1. \A a \in Addr : /\ [tcache[a] EXCEPT !.looked = FALSE] \in [val : Held, looked : BOOLEAN]
                        /\ [tcache[a] EXCEPT !.looked = FALSE].val = tcache[a].val
                        /\ [tcache[a] EXCEPT !.looked = FALSE].looked = FALSE
    BY <1>4
  <2>2. QED BY <1>2, <2>1 DEF Cache
<1>6. GuestType'
  <2>1. since' \in [Addr -> SUBSET Content]
    BY <1>1, <1>2 DEF GuestType
  <2>2. QED BY <1>1, <1>2, <2>1 DEF GuestType
<1>7. HeldRight'
  BY <1>1, <1>2 DEF HeldRight, CopyStands
<1>8. RecordType' /\ LastDraw'
  BY <1>1, <1>2, <1>3, <1>5 DEF RecordType, LastDraw
<1>9. Agrees(rec, bound, tcache)'
  BY <1>1, <1>2, <1>3, <1>5 DEF Agrees
<1>10. LookedIn(tcache)' /\ BindingsRight'
  BY <1>2, <1>5 DEF LookedIn, BindingsRight
<1>11. QED BY <1>2, <1>6, <1>7, <1>8, <1>9, <1>10, AfterPrime DEF TexturesInv

\* An EFB copy: the record gets the command, and the copy stands for the
\* texture's memory from then on.
LEMMA CopyInv ==
  ASSUME TexturesInv, NEW a \in Addr, efb_copy(a)
  PROVE  TexturesInv'
<1>. DEFINE c == Command("copy", 0, a, copyNo')
<1>1. /\ GuestType /\ RecordType /\ HeldRight /\ LastDraw
      /\ Agrees(rec, bound, tcache) /\ LookedIn(tcache)
      /\ rec \in Seq(Cmd) /\ Renderer \in Rend
  BY DEF TexturesInv, RecordType
<1>2. /\ copyNo < MaxCopies /\ copyNo' = copyNo + 1
      /\ rec' = Append(rec, c) /\ Len(rec) < MaxRec
      /\ copies' = [copies EXCEPT ![a] = [hash |-> mem[a], no |-> copyNo']]
      /\ dirty' = Map
      /\ held' = [held EXCEPT ![a] = copyNo']
      /\ since' = [since EXCEPT ![a] = @ \cup {copyNo'}]
      /\ UNCHANGED <<mem, named, used, bound, tcache, drawHdr, drawEnd, renderer>>
  BY DEF efb_copy, DirtyAll, Put
<1>3. Renderer' = Renderer /\ \A s : After(s)' = After(s)
  BY <1>2, AfterPrime
<1>4. /\ copyNo' \in CopyId /\ copyNo' \in Content /\ copyNo' \in Held /\ copyNo' # None
      /\ copyNo' \in 0 .. MaxCopies
  <2>1. copyNo' \in CopyId /\ copyNo' \in 0 .. MaxCopies
    BY <1>1, <1>2, TextureFacts DEF GuestType, CopyId
  <2>2. QED BY <2>1, TextureFacts DEF Held
<1>5. /\ c \in Cmd /\ c.kind = "copy" /\ c.addr = a /\ c.content = copyNo'
  <2>1. "copy" \in Kinds \ {"draw"} /\ 0 \in Map
    BY TextureFacts DEF Kinds
  <2>2. QED BY <1>4, <2>1, CommandFacts
<1>. HIDE DEF c
<1>6. /\ rec' \in Seq(Cmd) /\ Len(rec') = Len(rec) + 1 /\ Len(rec) \in Nat
      /\ \A i \in 1 .. Len(rec) : rec'[i] = rec[i]
  BY <1>1, <1>2, <1>5
<1>7. GuestType'
  <2>1. /\ held' \in [Addr -> Content] /\ since' \in [Addr -> SUBSET Content]
        /\ copies' \in [Addr -> [hash : Content \cup {None}, no : CopyId \cup {None}]]
    BY <1>1, <1>2, <1>4 DEF GuestType
  <2>2. QED BY <1>1, <1>2, <1>4, <2>1 DEF GuestType
<1>8. RecordType'
  <2>1. Len(rec') <= MaxRec
    BY <1>2, <1>6, TextureFacts
  <2>2. QED BY <1>1, <1>2, <1>3, <1>6, <2>1 DEF RecordType
<1>9. LastDraw'
  <2>1. ASSUME drawEnd # -1
        PROVE  drawHdr = drawEnd /\ drawEnd \in 1 .. Len(rec') /\ rec'[drawHdr].kind = "draw"
    BY <1>1, <1>6, <2>1 DEF LastDraw
  <2>2. QED BY <1>2, <2>1 DEF LastDraw
<1>10. \A x \in Addr : since[x] \subseteq since'[x]
  BY <1>1, <1>2 DEF GuestType
<1>11. HeldRight'
  <2>1. ASSUME NEW x \in Addr
        PROVE  /\ held'[x] = IF CopyStands(x)' THEN copies'[x].no ELSE mem[x]
               /\ held'[x] \in since'[x]
    <3>1. CASE x = a
      <4>1. held'[x] = copyNo' /\ copyNo' \in since'[x] /\ copies'[x] = [hash |-> mem[a], no |-> copyNo']
        BY <1>1, <1>2, <3>1 DEF GuestType
      <4>2. CopyStands(x)'
        BY <1>2, <1>4, <3>1, <4>1 DEF CopyStands
      <4>3. QED BY <4>1, <4>2
    <3>2. CASE x # a
      <4>1. held'[x] = held[x] /\ copies'[x] = copies[x]
        BY <1>1, <1>2, <3>2 DEF GuestType
      <4>2. CopyStands(x)' <=> CopyStands(x)
        BY <1>2, <4>1 DEF CopyStands
      <4>3. QED BY <1>1, <1>10, <4>1, <4>2 DEF HeldRight
    <3>3. QED BY <3>1, <3>2
  <2>2. QED BY <1>2, <2>1 DEF HeldRight
<1>12. After(rec') = exec(After(rec), c) /\ After(rec) \in Rend
  BY <1>1, <1>2, <1>5, ExecAppend, ExecType DEF After
<1>13. \A r \in Rend : /\ exec(r, c).src = r.src /\ exec(r, c).texs = r.texs
                       /\ exec(r, c).efb = [r.efb EXCEPT ![a] = copyNo']
                       /\ exec(r, c).mistaken = r.mistaken
                       /\ r.efb \in [Addr -> CopyId \cup {None}]
  <2>1. \A r \in Rend : r.efb \in [Addr -> CopyId \cup {None}]
    BY DEF Rend
  <2>2. QED BY <1>5, <2>1, ExecIs
<1>14. After(rec)' = After(rec')
  BY <1>3 DEF Renderer, After
<1>15. Agrees(rec, bound, tcache)'
  <2>1. /\ After(rec').src = bound /\ After(rec').mistaken = {}
        /\ \A x \in Addr : tcache[x].val # None => After(rec').texs[x] = tcache[x].val
    <3>1. /\ After(rec').src = After(rec).src /\ After(rec').texs = After(rec).texs
          /\ After(rec').mistaken = After(rec).mistaken
      BY <1>12, <1>13
    <3>2. QED BY <1>1, <3>1 DEF Agrees
  <2>2. ASSUME NEW x \in Addr, copies'[x].no # None
        PROVE  After(rec').efb[x] = copies'[x].no
    <3>1. After(rec').efb = [After(rec).efb EXCEPT ![a] = copyNo']
          /\ After(rec).efb \in [Addr -> CopyId \cup {None}]
      BY <1>12, <1>13
    <3>2. CASE x = a
      <4>1. copies'[x].no = copyNo'
        BY <1>1, <1>2, <3>2 DEF GuestType
      <4>2. QED BY <3>1, <3>2, <4>1
    <3>3. CASE x # a
      <4>1. copies'[x] = copies[x]
        BY <1>1, <1>2, <3>3 DEF GuestType
      <4>2. After(rec).efb[x] = copies[x].no
        BY <1>1, <2>2, <4>1 DEF Agrees
      <4>3. QED BY <3>1, <3>3, <4>1, <4>2
    <3>4. QED BY <3>2, <3>3
  <2>3. QED BY <1>2, <1>14, <2>1, <2>2 DEF Agrees
<1>16. LookedIn(tcache)' /\ BindingsRight'
  BY <1>1, <1>2, <1>10 DEF LookedIn, BindingsRight
<1>17. TexturesRight'
  BY <1>2, AfterPrime DEF TexturesInv
<1>18. QED BY <1>7, <1>8, <1>9, <1>11, <1>15, <1>16, <1>17 DEF TexturesInv

\* A copy is written to memory: with nothing recorded the renderer's is the
\* one the parser last recorded.
LEMMA CopyToRamInv ==
  ASSUME TexturesInv, NEW a \in Addr, gx_copy_to_ram(a)
  PROVE  TexturesInv'
<1>1. /\ GuestType /\ RecordType /\ HeldRight /\ LastDraw
      /\ Agrees(rec, bound, tcache) /\ LookedIn(tcache) /\ BindingsRight
      /\ Renderer \in Rend
  BY DEF TexturesInv, RecordType
<1>2. /\ copies[a].no # None /\ rec = << >>
      /\ mem' = [mem EXCEPT ![a] = efb[a]] /\ held' = [held EXCEPT ![a] = efb[a]]
      /\ since' = [since EXCEPT ![a] = @ \cup {efb[a]}]
      /\ copies' = [copies EXCEPT ![a].hash = efb[a]]
      /\ UNCHANGED <<named, used, dirty, bound, tcache, copyNo, rec, drawHdr, drawEnd, renderer>>
  BY DEF gx_copy_to_ram, record
<1>3. Renderer' = Renderer /\ (\A s : After(s)' = After(s)) /\ TexturesRight'
  BY <1>2, AfterPrime DEF TexturesInv
<1>4. efb[a] = copies[a].no
  <2>1. After(rec) = Renderer
    BY <1>1, <1>2, ExecEmpty DEF After
  <2>2. QED BY <1>1, <1>2, <2>1 DEF Agrees, Renderer
<1>5. efb[a] \in Content
  <2>1. copies[a].no \in CopyId
    BY <1>1, <1>2 DEF GuestType
  <2>2. QED BY <1>4, <2>1, TextureFacts
<1>6. /\ copies' \in [Addr -> [hash : Content \cup {None}, no : CopyId \cup {None}]]
      /\ copies'[a].hash = efb[a] /\ \A x \in Addr : copies'[x].no = copies[x].no
      /\ \A x \in Addr : x # a => copies'[x] = copies[x]
  <2>1. copies \in [Addr -> [hash : Content \cup {None}, no : CopyId \cup {None}]]
    BY <1>1 DEF GuestType
  <2>2. copies' = [copies EXCEPT ![a] = [hash |-> efb[a], no |-> copies[a].no]]
    <3>1. copies' = [copies EXCEPT ![a] = [copies[a] EXCEPT !.hash = efb[a]]]
      BY <1>2
    <3>2. [copies[a] EXCEPT !.hash = efb[a]] = [hash |-> efb[a], no |-> copies[a].no]
      BY <2>1
    <3>3. QED BY <3>1, <3>2
  <2>3. QED BY <1>5, <2>1, <2>2
<1>7. GuestType'
  <2>1. /\ mem' \in [Addr -> Content] /\ held' \in [Addr -> Content]
        /\ since' \in [Addr -> SUBSET Content]
    BY <1>1, <1>2, <1>5 DEF GuestType
  <2>2. QED BY <1>1, <1>2, <1>6, <2>1 DEF GuestType
<1>8. \A x \in Addr : since[x] \subseteq since'[x]
  BY <1>1, <1>2 DEF GuestType
<1>9. HeldRight'
  <2>1. ASSUME NEW x \in Addr
        PROVE  /\ held'[x] = IF CopyStands(x)' THEN copies'[x].no ELSE mem'[x]
               /\ held'[x] \in since'[x]
    <3>1. CASE x = a
      <4>1. held'[x] = efb[a] /\ mem'[x] = efb[a] /\ efb[a] \in since'[x]
        BY <1>1, <1>2, <3>1 DEF GuestType
      <4>2. copies'[x].no = efb[a]
        BY <1>4, <1>6, <3>1
      <4>3. QED BY <4>1, <4>2
    <3>2. CASE x # a
      <4>1. held'[x] = held[x] /\ mem'[x] = mem[x] /\ copies'[x] = copies[x]
        BY <1>1, <1>2, <1>6, <3>2 DEF GuestType
      <4>2. CopyStands(x)' <=> CopyStands(x)
        BY <4>1 DEF CopyStands
      <4>3. QED BY <1>1, <1>8, <4>1, <4>2 DEF HeldRight
    <3>3. QED BY <3>1, <3>2
  <2>2. QED BY <2>1 DEF HeldRight
<1>10. RecordType' /\ LastDraw'
  BY <1>1, <1>2, <1>3 DEF RecordType, LastDraw
<1>11. Agrees(rec, bound, tcache)'
  BY <1>1, <1>2, <1>3, <1>6 DEF Agrees
<1>12. LookedIn(tcache)'
  BY <1>1, <1>2, <1>8 DEF LookedIn
<1>13. BindingsRight'
  <2>1. \A m \in Map : named[m] # Outside => named[m] \in Addr
    BY <1>1 DEF GuestType
  <2>2. \A m \in Map : BindingRight(m, bound, tcache) => BindingRight(m, bound, tcache)'
    BY <1>2, <1>6, <1>8, <2>1 DEF BindingRight
  <2>3. QED BY <1>1, <1>2, <2>2 DEF BindingsRight
<1>14. QED BY <1>3, <1>7, <1>9, <1>10, <1>11, <1>12, <1>13 DEF TexturesInv

\* The record is executed: the renderer is then where the parser believed it.
LEMMA SubmitInv ==
  ASSUME TexturesInv, Submit
  PROVE  TexturesInv'
<1>. DEFINE r == FoldLeft(exec, [texs |-> texs, efb |-> efb, src |-> src,
                                 mistaken |-> mistaken], rec)
<1>1. /\ GuestType /\ RecordType /\ HeldRight
      /\ Agrees(rec, bound, tcache) /\ LookedIn(tcache) /\ BindingsRight
      /\ rec \in Seq(Cmd) /\ Renderer \in Rend
  BY DEF TexturesInv, RecordType
<1>2. /\ texs' = r.texs /\ efb' = r.efb /\ src' = r.src /\ mistaken' = r.mistaken
      /\ rec' = << >> /\ drawEnd' = -1
      /\ UNCHANGED <<mem, held, since, named, used, dirty, bound, tcache, copies, copyNo, drawHdr>>
  BY DEF Submit, EndForgotten, guestVars, parser
<1>3. r = After(rec)
  BY Zenon DEF After, Exec, Renderer
<1>. HIDE DEF r
<1>4. r \in Rend
  BY <1>1, <1>3, ExecType DEF After
<1>5. Renderer' = r
  <2>1. r = [texs |-> r.texs, efb |-> r.efb, src |-> r.src, mistaken |-> r.mistaken]
    BY <1>4 DEF Rend
  <2>2. QED BY <1>2, <2>1 DEF Renderer
<1>6. After(rec)' = r
  <2>1. After(rec)' = Exec(r, << >>)
    BY <1>2, <1>5 DEF After
  <2>2. QED BY <1>4, <2>1, ExecEmpty
<1>7. RecordType'
  <2>1. rec' \in Seq(Cmd) /\ Len(rec') = 0
    BY <1>2
  <2>2. Len(rec') <= MaxRec /\ drawEnd' \in -1 .. MaxRec
    BY <1>2, <2>1, TextureFacts
  <2>3. QED BY <1>1, <1>2, <1>4, <1>5, <2>1, <2>2 DEF RecordType
<1>8. LastDraw'
  BY <1>2 DEF LastDraw
<1>9. Agrees(rec, bound, tcache)'
  BY <1>1, <1>2, <1>3, <1>6 DEF Agrees
<1>10. GuestType' /\ HeldRight' /\ LookedIn(tcache)' /\ BindingsRight'
  BY <1>1, <1>2 DEF GuestType, HeldRight, LookedIn, CopyStands, BindingsRight, BindingRight
<1>11. TexturesRight'
  BY <1>1, <1>2, <1>3 DEF Agrees, TexturesRight
<1>12. QED BY <1>7, <1>8, <1>9, <1>10, <1>11 DEF TexturesInv

-----------------------------------------------------------------------------
(* A draw.                                                                   *)

\* A draw of one piece is a command.
LEMMA DrawFacts ==
  ASSUME NEW pc \in Piece
  PROVE  DrawOf(pc) \in Cmd /\ DrawOf(pc).kind = "draw" /\ DrawOf(pc).pieces = <<pc>>
<1>. DEFINE c == DrawOf(pc)
<1>1. pc.prim \in Prim /\ pc.flags \in Flags
  BY DEF Piece
<1>2. c = [kind |-> "draw", map |-> 0, addr |-> Outside, content |-> None,
           prim |-> pc.prim, flags |-> pc.flags, pieces |-> <<pc>>]
  <2>1. Register = [kind |-> "bp", map |-> 0, addr |-> Outside, content |-> None,
                    prim |-> CHOOSE q \in Prim : TRUE, flags |-> CHOOSE f \in Flags : TRUE,
                    pieces |-> << >>]
    BY Zenon DEF Register, Command
  <2>2. c = [Register EXCEPT !.kind = "draw", !.prim = pc.prim, !.flags = pc.flags,
                             !.pieces = <<pc>>]
    BY Zenon DEF DrawOf
  <2>. HIDE DEF c
  <2>3. QED BY <2>1, <2>2
<1>3. <<pc>> \in Seq(Piece) /\ ToSet(<<pc>>) = {pc} /\ <<pc>> # << >>
  BY DEF ToSet
<1>4. 0 \in Map /\ None \in Held
  BY TextureFacts DEF Held
<1>5. /\ c.kind = "draw" /\ c.pieces = <<pc>> /\ c.prim = pc.prim /\ c.flags = pc.flags
      /\ c \in [kind : Kinds, map : Map, addr : Addr \cup {Outside}, content : Held,
                prim : Prim \cup {CHOOSE q \in Prim : TRUE},
                flags : Flags \cup {CHOOSE f \in Flags : TRUE}, pieces : Seq(Piece)]
  BY <1>1, <1>2, <1>3, <1>4 DEF Kinds
<1>. HIDE DEF c
<1>6. c \in Cmd
  BY <1>3, <1>5 DEF Cmd
<1>7. QED BY <1>5, <1>6 DEF c

\* So is a draw that another piece of its kind joins.
Joined(d, pc) == [d EXCEPT !.pieces = Append(@, pc)]
LEMMA JoinFacts ==
  ASSUME NEW d \in Cmd, d.kind = "draw", NEW pc \in Piece, pc.prim = d.prim, pc.flags = d.flags
  PROVE  /\ Joined(d, pc) \in Cmd /\ Joined(d, pc).kind = "draw"
         /\ ToSet(Joined(d, pc).pieces) = ToSet(d.pieces) \cup {pc}
<1>. DEFINE c == Joined(d, pc)
            q == Append(d.pieces, pc)
<1>1. /\ d.pieces \in Seq(Piece) /\ \A x \in ToSet(d.pieces) : x.prim = d.prim /\ x.flags = d.flags
      /\ d.map \in Map /\ d.addr \in Addr \cup {Outside} /\ d.content \in Held
      /\ d.prim \in Prim \cup {CHOOSE y \in Prim : TRUE}
      /\ d.flags \in Flags \cup {CHOOSE f \in Flags : TRUE}
  BY DEF Cmd
<1>2. q \in Seq(Piece) /\ q # << >> /\ ToSet(q) = ToSet(d.pieces) \cup {pc}
  <2>1. /\ q \in Seq(Piece) /\ Len(q) = Len(d.pieces) + 1 /\ Len(d.pieces) \in Nat
        /\ q[Len(d.pieces) + 1] = pc /\ \A i \in 1 .. Len(d.pieces) : q[i] = d.pieces[i]
    BY <1>1
  <2>2. ToSet(q) = {q[i] : i \in 1 .. Len(q)} /\ ToSet(d.pieces) = {d.pieces[i] : i \in 1 .. Len(d.pieces)}
    BY <1>1, <2>1 DEF ToSet
  <2>. HIDE DEF q
  <2>3. \A i \in 1 .. Len(q) : i \in 1 .. Len(d.pieces) \/ i = Len(d.pieces) + 1
    BY <2>1
  <2>4. Len(d.pieces) + 1 \in 1 .. Len(q) /\ \A i \in 1 .. Len(d.pieces) : i \in 1 .. Len(q)
    BY <2>1
  <2>5. ToSet(q) \subseteq ToSet(d.pieces) \cup {pc}
    BY <2>1, <2>2, <2>3
  <2>6. ToSet(d.pieces) \subseteq ToSet(q) /\ pc \in ToSet(q)
    BY <2>1, <2>2, <2>4
  <2>7. QED BY <2>1, <2>4, <2>5, <2>6
<1>. HIDE DEF q
<1>3. c = [kind |-> "draw", map |-> d.map, addr |-> d.addr, content |-> d.content,
           prim |-> d.prim, flags |-> d.flags, pieces |-> q]
  <2>1. d = [kind |-> d.kind, map |-> d.map, addr |-> d.addr, content |-> d.content,
             prim |-> d.prim, flags |-> d.flags, pieces |-> d.pieces]
    BY DEF Cmd
  <2>2. c = [d EXCEPT !.pieces = q]
    BY DEF Joined, q
  <2>. HIDE DEF c
  <2>3. QED BY <2>1, <2>2
<1>. HIDE DEF c
<1>4. /\ c.kind = "draw" /\ c.pieces = q /\ c.prim = d.prim /\ c.flags = d.flags
      /\ c \in [kind : Kinds, map : Map, addr : Addr \cup {Outside}, content : Held,
                prim : Prim \cup {CHOOSE y \in Prim : TRUE},
                flags : Flags \cup {CHOOSE f \in Flags : TRUE}, pieces : Seq(Piece)]
  BY <1>1, <1>2, <1>3 DEF Kinds
<1>5. c \in Cmd
  BY <1>1, <1>2, <1>4 DEF Cmd
<1>6. QED BY <1>2, <1>4, <1>5 DEF c

\* The piece a draw adds, and that it samples nothing wrong once what is
\* recorded before it is executed.
NewPiece(prim, flags) == [prim |-> prim, flags |-> flags, want |-> Wanted]
LEMMA SamplesRight ==
  ASSUME GuestType, NEW s, Good(s), NEW prim \in Prim, NEW flags \in Flags,
         \A m \in used : BindingRight(m, s.bound, s.cache)
  PROVE  NewPiece(prim, flags) \in Piece /\ Wrong(After(s.rec), NewPiece(prim, flags)) = {}
<1>. DEFINE M == {n \in used : named[n] # Outside}
            f == After(s.rec)
<1>1. M \in SUBSET Map /\ \A m \in M : named[m] \in Addr /\ since[named[m]] \in SUBSET Content
  BY DEF GuestType
<1>2. Wanted = [m \in M |-> since[named[m]]]
  BY DEF Wanted
<1>3. Wanted \in [M -> SUBSET Content] /\ DOMAIN Wanted = M
  BY <1>1, <1>2
<1>4. NewPiece(prim, flags) \in Piece
  BY <1>1, <1>3 DEF NewPiece, Piece
<1>5. /\ f.src = s.bound
      /\ \A a \in Addr : s.cache[a].val # None => f.texs[a] = s.cache[a].val
      /\ \A a \in Addr : copies[a].no # None => f.efb[a] = copies[a].no
      /\ LookedIn(s.cache)
  BY DEF Good, Agrees
<1>. HIDE DEF f
<1>6. ASSUME NEW m \in M
      PROVE  bind_textures(f, m) \in Wanted[m]
  <2>. DEFINE a == named[m]
  <2>1. a \in Addr /\ a # Outside /\ BindingRight(m, s.bound, s.cache) /\ Wanted[m] = since[a]
    BY <1>1, <1>2, <1>6
  <2>2. CASE s.bound[m] = Texture(a) /\ s.cache[a].looked /\ s.cache[a].val # None
    <3>1. f.src[m].kind = "tex" /\ f.src[m].addr = a
      BY <1>5, <2>2 DEF Texture
    <3>2. bind_textures(f, m) = f.texs[a]
      BY <3>1 DEF bind_textures
    <3>3. QED BY <1>5, <2>1, <2>2, <3>2 DEF LookedIn
  <2>3. CASE s.bound[m] = CopyOf(a) /\ copies[a].no # None /\ copies[a].no \in since[a]
    <3>1. f.src[m].kind = "efb" /\ f.src[m].addr = a
      BY <1>5, <2>3 DEF CopyOf
    <3>2. bind_textures(f, m) = f.efb[a]
      BY <3>1 DEF bind_textures
    <3>3. QED BY <1>5, <2>1, <2>3, <3>2
  <2>4. QED BY <2>1, <2>2, <2>3 DEF BindingRight
<1>7. Wrong(f, NewPiece(prim, flags)) = {}
  BY <1>3, <1>6 DEF Wrong, NewPiece
<1>8. QED BY <1>4, <1>7 DEF f

\* What a command samples does not depend on the history variable.
LEMMA SameWrong ==
  ASSUME NEW r, NEW t, r.src = t.src, r.texs = t.texs, r.efb = t.efb, NEW pc
  PROVE  Wrong(r, pc) = Wrong(t, pc)
BY DEF Wrong, bind_textures

\* A draw that becomes a command of its own.
LEMMA AppendedDraw ==
  ASSUME Renderer \in Rend, NEW s, Good(s), NEW pc \in Piece, Wrong(After(s.rec), pc) = {}
  PROVE  /\ Append(s.rec, DrawOf(pc)) \in Seq(Cmd)
         /\ Agrees(Append(s.rec, DrawOf(pc)), s.bound, s.cache)
<1>1. s.rec \in Seq(Cmd) /\ Agrees(s.rec, s.bound, s.cache)
  BY DEF Good, Syncing
<1>. DEFINE c == DrawOf(pc)
            f == After(s.rec)
<1>2. c \in Cmd /\ c.kind = "draw" /\ c.pieces = <<pc>> /\ ToSet(<<pc>>) = {pc}
  BY DrawFacts DEF ToSet
<1>. HIDE DEF c
<1>3. f \in Rend /\ After(Append(s.rec, c)) = exec(f, c)
  BY <1>1, <1>2, ExecAppend, ExecType DEF After
<1>4. /\ f.src = s.bound /\ f.mistaken = {}
      /\ \A x \in Addr : s.cache[x].val # None => f.texs[x] = s.cache[x].val
      /\ \A x \in Addr : copies[x].no # None => f.efb[x] = copies[x].no
  BY <1>1 DEF Agrees
<1>. HIDE DEF f
<1>5. /\ exec(f, c).src = f.src /\ exec(f, c).texs = f.texs /\ exec(f, c).efb = f.efb
      /\ exec(f, c).mistaken = f.mistaken \cup UNION {Wrong(f, x) : x \in ToSet(c.pieces)}
  BY <1>2, <1>3, ExecIs
<1>6. exec(f, c).mistaken = {}
  <2>1. UNION {Wrong(f, x) : x \in {pc}} = {}
    BY DEF f
  <2>2. QED BY <1>2, <1>4, <1>5, <2>1
<1>7. Agrees(Append(s.rec, c), s.bound, s.cache)
  BY <1>3, <1>4, <1>5, <1>6 DEF Agrees
<1>8. QED BY <1>1, <1>2, <1>7 DEF c

\* A draw that joins the one before it.
JoinAt(q, n, pc) == [q EXCEPT ![n] = Joined(q[n], pc)]
LEMMA JoinedDraw ==
  ASSUME Renderer \in Rend, NEW s, Good(s), NEW pc \in Piece, Wrong(After(s.rec), pc) = {},
         NEW n \in Nat \ {0}, Len(s.rec) = n, s.rec[n].kind = "draw",
         s.rec[n].prim = pc.prim, s.rec[n].flags = pc.flags
  PROVE  /\ JoinAt(s.rec, n, pc) \in Seq(Cmd) /\ Len(JoinAt(s.rec, n, pc)) = n
         /\ JoinAt(s.rec, n, pc)[n].kind = "draw"
         /\ Agrees(JoinAt(s.rec, n, pc), s.bound, s.cache)
<1>. DEFINE q == s.rec
            front == SubSeq(q, 1, n - 1)
            d == q[n]
            d2 == Joined(d, pc)
            z == [q EXCEPT ![n] = d2]
            f == After(q)
            b == After(front)
<1>1. q \in Seq(Cmd) /\ Agrees(q, s.bound, s.cache) /\ Len(q) = n
  BY DEF Good, Syncing
<1>2. d \in Cmd /\ d.kind = "draw"
  BY <1>1
<1>3. d2 \in Cmd /\ d2.kind = "draw" /\ ToSet(d2.pieces) = ToSet(d.pieces) \cup {pc}
  BY <1>2, JoinFacts
<1>. HIDE DEF d2
<1>4. /\ front \in Seq(Cmd) /\ Len(front) = n - 1
      /\ \A i \in 1 .. n - 1 : front[i] = q[i]
  BY <1>1
<1>5. z \in Seq(Cmd) /\ Len(z) = n /\ z[n] = d2 /\ \A i \in 1 .. n - 1 : z[i] = q[i]
  BY <1>1, <1>3
<1>. HIDE DEF front, q, z
<1>6. q = Append(front, d) /\ z = Append(front, d2)
  BY <1>1, <1>2, <1>3, <1>4, <1>5
<1>7. b \in Rend /\ f = exec(b, d) /\ After(z) = exec(b, d2)
  BY <1>2, <1>3, <1>4, <1>6, ExecAppend, ExecType DEF After
<1>8. /\ f.src = s.bound /\ f.mistaken = {}
      /\ \A x \in Addr : s.cache[x].val # None => f.texs[x] = s.cache[x].val
      /\ \A x \in Addr : copies[x].no # None => f.efb[x] = copies[x].no
  BY <1>1 DEF Agrees
<1>9. Wrong(f, pc) = {}
  BY DEF q
<1>. HIDE DEF f, b, d
<1>10. /\ f.src = b.src /\ f.texs = b.texs /\ f.efb = b.efb
       /\ f.mistaken = b.mistaken \cup UNION {Wrong(b, x) : x \in ToSet(d.pieces)}
  <2>1. d \in Cmd /\ d.kind = "draw" /\ b \in Rend /\ f = exec(b, d)
    BY <1>2, <1>7
  <2>2. QED BY <2>1, ExecIs
<1>11. /\ After(z).src = b.src /\ After(z).texs = b.texs /\ After(z).efb = b.efb
       /\ After(z).mistaken = b.mistaken \cup UNION {Wrong(b, x) : x \in ToSet(d2.pieces)}
  <2>1. d2 \in Cmd /\ d2.kind = "draw" /\ b \in Rend
    BY <1>3, <1>7
  <2>. DEFINE e == exec(b, d2)
  <2>2. /\ e.src = b.src /\ e.texs = b.texs /\ e.efb = b.efb
        /\ e.mistaken = b.mistaken \cup UNION {Wrong(b, x) : x \in ToSet(d2.pieces)}
    BY <2>1, ExecIs
  <2>3. e = After(z)
    BY <1>7
  <2>. HIDE DEF e
  <2>4. QED BY <2>2, <2>3
<1>12. Wrong(b, pc) = {}
  BY <1>9, <1>10, SameWrong
<1>13. After(z).mistaken = {}
  BY <1>3, <1>8, <1>10, <1>11, <1>12
<1>14. Agrees(z, s.bound, s.cache)
  BY <1>8, <1>10, <1>11, <1>13 DEF Agrees
<1>15. QED BY <1>3, <1>5, <1>14 DEF z, q, d, d2, JoinAt

LEMMA DrawInv ==
  ASSUME TexturesInv, NEW prim \in Prim, NEW flags \in Flags, Draw(prim, flags)
  PROVE  TexturesInv'
<1>. DEFINE s == sync_textures
            pc == NewPiece(prim, flags)
            r == Record(s.rec, pc)
<1>1. /\ GuestType /\ RecordType /\ HeldRight /\ LastDraw
      /\ Agrees(rec, bound, tcache) /\ LookedIn(tcache) /\ BindingsRight
      /\ rec \in Seq(Cmd) /\ Renderer \in Rend
      /\ bound \in [Map -> Source] /\ tcache \in Cache
  BY DEF TexturesInv, RecordType
<1>2. /\ Len(r) <= MaxRec /\ rec' = r /\ bound' = s.bound /\ tcache' = s.cache
      /\ dirty' = dirty \ used
      /\ drawHdr' = Len(r) /\ drawEnd' = Len(r)
      /\ UNCHANGED <<mem, held, since, named, used, copies, copyNo, renderer>>
  BY DEF Draw, NewPiece, guestVars
<1>3. Renderer' = Renderer /\ (\A x : After(x)' = After(x)) /\ TexturesRight'
  BY <1>2, AfterPrime DEF TexturesInv
<1>4. Good(Before0)
  <2>1. /\ Before0.rec = rec /\ Before0.bound = bound /\ Before0.cache = tcache
        /\ Before0 \in Syncing
    BY <1>1 DEF Before0, Syncing
  <2>2. Len(rec) >= Len(rec)
    <3>1. Len(rec) \in Nat
      BY <1>1
    <3>2. QED BY <3>1
  <2>3. QED BY <1>1, <2>1, <2>2 DEF Good
<1>5. /\ Good(s)
      /\ \A m \in (Map \ dirty) \cup used : BindingRight(m, s.bound, s.cache)
  BY <1>1, <1>4, Synced DEF BindingsRight
<1>. HIDE DEF s
<1>6. pc \in Piece /\ Wrong(After(s.rec), pc) = {}
  BY <1>1, <1>5, SamplesRight
<1>7. pc.prim = prim /\ pc.flags = flags
  BY DEF NewPiece
<1>. HIDE DEF pc
<1>8. s \in Syncing /\ s.rec \in Seq(Cmd) /\ Len(s.rec) \in Nat /\ Len(rec) \in Nat
  BY <1>1, <1>5 DEF Good, Syncing
<1>9. /\ r \in Seq(Cmd) /\ Len(r) \in Nat \ {0} /\ r[Len(r)].kind = "draw"
      /\ Agrees(r, s.bound, s.cache)
  <2>. DEFINE joins == /\ Len(s.rec) = drawEnd /\ s.rec[drawHdr].prim = pc.prim
                       /\ s.rec[drawHdr].flags = pc.flags
  <2>1. CASE joins
    <3>1. drawEnd \in Nat /\ drawEnd # -1
      BY <1>8, <2>1
    <3>2. drawHdr = drawEnd /\ drawEnd \in 1 .. Len(rec) /\ rec[drawHdr].kind = "draw"
      BY <1>1, <3>1 DEF LastDraw
    <3>3. s.rec = rec /\ drawHdr = Len(s.rec) /\ drawHdr \in Nat \ {0}
      BY <1>5, <1>8, <2>1, <3>2 DEF Good
    <3>4. r = [s.rec EXCEPT ![drawHdr] = Joined(s.rec[drawHdr], pc)]
      BY <2>1 DEF Record, Joined
    <3>. HIDE DEF r
    <3>5. /\ s.rec[drawHdr].kind = "draw"
          /\ s.rec[drawHdr].prim = pc.prim /\ s.rec[drawHdr].flags = pc.flags
      BY <2>1, <3>2, <3>3
    <3>6. r \in Seq(Cmd) /\ Len(r) = drawHdr /\ r[drawHdr].kind = "draw" /\ Agrees(r, s.bound, s.cache)
      <4>. DEFINE n == drawHdr
                  z == JoinAt(s.rec, n, pc)
      <4>1. n \in Nat \ {0} /\ Len(s.rec) = n /\ s.rec[n].kind = "draw"
            /\ s.rec[n].prim = pc.prim /\ s.rec[n].flags = pc.flags
        BY <3>3, <3>5
      <4>. HIDE DEF n
      <4>2. z \in Seq(Cmd) /\ Len(z) = n /\ z[n].kind = "draw" /\ Agrees(z, s.bound, s.cache)
        BY <1>1, <1>5, <1>6, <4>1, JoinedDraw
      <4>3. QED BY <3>4, <4>2 DEF n, JoinAt
    <3>7. QED BY <3>3, <3>6
  <2>2. CASE ~joins
    <3>1. r = Append(s.rec, DrawOf(pc))
      BY <2>2 DEF Record
    <3>2. r \in Seq(Cmd) /\ Agrees(r, s.bound, s.cache)
      BY <1>1, <1>5, <1>6, <3>1, AppendedDraw
    <3>3. DrawOf(pc) \in Cmd /\ DrawOf(pc).kind = "draw"
      BY <1>6, DrawFacts
    <3>4. Len(r) = Len(s.rec) + 1 /\ r[Len(r)] = DrawOf(pc)
      BY <1>8, <3>1, <3>3
    <3>5. QED BY <1>8, <3>2, <3>3, <3>4
  <2>3. QED BY <2>1, <2>2
<1>. HIDE DEF r
<1>10. RecordType'
  <2>1. Len(r) \in 0 .. MaxRec /\ Len(r) \in -1 .. MaxRec
    BY <1>2, <1>9, TextureFacts
  <2>2. s.bound \in [Map -> Source] /\ s.cache \in Cache
    BY <1>8 DEF Syncing
  <2>3. QED BY <1>1, <1>2, <1>3, <1>9, <2>1, <2>2 DEF RecordType
<1>11. LastDraw'
  <2>1. Len(r) \in 1 .. Len(r)
    BY <1>9
  <2>2. QED BY <1>2, <1>9, <2>1 DEF LastDraw
<1>12. Agrees(rec, bound, tcache)'
  BY <1>2, <1>3, <1>9 DEF Agrees
<1>13. LookedIn(tcache)'
  BY <1>2, <1>5 DEF LookedIn, Good
<1>14. GuestType' /\ HeldRight'
  BY <1>1, <1>2 DEF GuestType, HeldRight, CopyStands
<1>15. BindingsRight'
  <2>1. used \subseteq Map
    BY <1>1 DEF GuestType
  <2>2. \A m \in Map \ dirty' : m \in (Map \ dirty) \cup used
    BY <1>2
  <2>3. \A m \in Map : BindingRight(m, bound, tcache)' <=> BindingRight(m, s.bound, s.cache)
    BY <1>2 DEF BindingRight
  <2>4. QED BY <1>5, <2>2, <2>3 DEF BindingsRight
<1>16. QED BY <1>3, <1>10, <1>11, <1>12, <1>13, <1>14, <1>15 DEF TexturesInv

LEMMA TexturesStep == TexturesInv /\ [GxNext]_gxVars => TexturesInv'
<1>. SUFFICES ASSUME TexturesInv, [GxNext]_gxVars
              PROVE  TexturesInv'
  OBVIOUS
<1>1. ASSUME NEW a \in Addr, NEW v \in Value, WriteMem(a, v)
      PROVE  TexturesInv'
  BY <1>1, WriteMemInv
<1>2. ASSUME NEW n \in Map, NEW a \in Addr \cup {Outside}, SetMap(n, a)
      PROVE  TexturesInv'
  BY <1>2, SetMapInv
<1>3. ASSUME NEW maps \in SUBSET Map, SetTev(maps)
      PROVE  TexturesInv'
  BY <1>3, SetTevInv
<1>4. CASE InvalidateTexAll
  BY <1>4, InvalidateInv
<1>5. ASSUME NEW a \in Addr, efb_copy(a)
      PROVE  TexturesInv'
  BY <1>5, CopyInv
<1>6. ASSUME NEW a \in Addr, gx_copy_to_ram(a)
      PROVE  TexturesInv'
  BY <1>6, CopyToRamInv
<1>7. ASSUME NEW prim \in Prim, NEW flags \in Flags, Draw(prim, flags)
      PROVE  TexturesInv'
  BY <1>7, DrawInv
<1>8. CASE Submit
  BY <1>8, SubmitInv
<1>9. CASE UNCHANGED gxVars
  <2>1. /\ UNCHANGED <<mem, held, since, named, used, dirty, bound, tcache, copies, copyNo>>
        /\ UNCHANGED <<rec, drawHdr, drawEnd>> /\ UNCHANGED renderer
    BY <1>9 DEF gxVars, guestVars, parser, record
  <2>2. Renderer' = Renderer /\ (\A s : After(s)' = After(s)) /\ (TexturesRight => TexturesRight')
    BY <2>1, AfterPrime
  <2>3. GuestType' /\ RecordType' /\ HeldRight' /\ LastDraw'
    BY <2>1, <2>2 DEF TexturesInv, GuestType, RecordType, HeldRight, LastDraw, CopyStands
  <2>4. Agrees(rec, bound, tcache)' /\ LookedIn(tcache)' /\ BindingsRight'
    BY <2>1, <2>2 DEF TexturesInv, Agrees, LookedIn, BindingsRight, BindingRight
  <2>5. QED BY <2>2, <2>3, <2>4 DEF TexturesInv
<1>10. QED BY <1>1, <1>2, <1>3, <1>4, <1>5, <1>6, <1>7, <1>8, <1>9 DEF GxNext

-----------------------------------------------------------------------------
\* The parser's bindings and cache, and the renderer after what is recorded,
\* are what the guest's registers and memory make them, whatever the order of
\* its writes, copies, invalidations, draws and hand-overs.
THEOREM TexturesInvariant == GxSpec => []TexturesInv
<1>1. GxInit => TexturesInv
  BY TexturesStart
<1>2. TexturesInv /\ [GxNext]_gxVars => TexturesInv'
  BY TexturesStep
<1>3. QED BY <1>1, <1>2, PTL DEF GxSpec

\* Every draw samples, on each map it uses, what the map's registers named
\* when it was sent, as its memory was since the last invalidation
\* (bind_map, sync_textures, exec).
THEOREM SampledRight == GxSpec => []TexturesRight
<1>1. TexturesInv => TexturesRight
  BY DEF TexturesInv
<1>2. QED BY <1>1, TexturesInvariant, PTL

\* Draws recorded as one are of one kind, and none is written into another
\* command of the record (rec_draw).
THEOREM PiecesTogether == GxSpec => []GxInv
<1>1. ASSUME TexturesInv
      PROVE  GxInv
  <2>1. GuestType /\ RecordType /\ rec \in Seq(Cmd)
    BY <1>1 DEF TexturesInv, RecordType
  <2>2. /\ bound \in [Map -> Source] /\ src \in [Map -> Source]
        /\ texs \in [Addr -> Content \cup {None}] /\ efb \in [Addr -> CopyId \cup {None}]
        /\ tcache \in [Addr -> [val : Content \cup {None}, looked : BOOLEAN]]
    BY <2>1 DEF RecordType, Renderer, Rend, Cache, Held
  <2>3. GxTypeOK
    BY <2>1, <2>2 DEF GxTypeOK, GuestType, RecordType
  <2>4. \A i \in 1 .. Len(rec) : rec[i] \in Cmd
    BY <2>1
  <2>5. PiecesRight
    BY <2>4 DEF PiecesRight, Cmd
  <2>6. QED BY <2>3, <2>5 DEF GxInv
<1>2. QED BY <1>1, TexturesInvariant, PTL

-----------------------------------------------------------------------------
(* The command stream: its commands and their bytes.                         *)

Listable == Plain \cup {CallList}
Ops == {"nop", "bp", "xf", "cp", "draw", "list", "data"}
Effects == Ops \X Nat

\* What a command adds to what the GP does.
Doing(c, size) == IF c.op \in {"nop", "list"} THEN << >> ELSE <<Effect(c, size)>>

LEMMA CommandOps ==
  /\ \A c \in Sent : /\ c.op \in Ops /\ c.n \in Nat
                     /\ c = [op |-> c.op, n |-> c.n]
                     /\ (c.op = "cp" => c.n \in VSizes)
                     /\ (c.op = "list" <=> c = CallList) /\ (c.op = "data" <=> c = Data)
  /\ Sent = Listable \cup {Data} /\ Data \notin Listable
  /\ CallList \notin Plain
<1>1. VSizes \subseteq Nat /\ MaxCount \in Nat
  BY GxStreamAssumption
<1>2. \A s \in VSizes : Op("cp", s).op = "cp" /\ Op("cp", s).n = s /\ s \in Nat
  BY <1>1 DEF Op
<1>3. \A n \in 0 .. MaxCount : Op("draw", n).op = "draw" /\ Op("draw", n).n = n /\ n \in Nat
  BY <1>1 DEF Op
<1>4. /\ Op("nop", 0).op = "nop" /\ Op("nop", 0).n = 0 /\ Op("bp", 0).op = "bp" /\ Op("bp", 0).n = 0
      /\ Op("xf", MaxCount).op = "xf" /\ Op("xf", MaxCount).n = MaxCount
      /\ CallList.op = "list" /\ CallList.n = 0 /\ Data.op = "data" /\ Data.n = 0
  BY DEF Op, CallList, Data
<1>5. \A c \in Plain : /\ c.op \in {"nop", "bp", "xf", "cp", "draw"} /\ c.n \in Nat
                       /\ (c.op = "cp" => c.n \in VSizes)
  <2>. SUFFICES ASSUME NEW c \in Plain
                PROVE  /\ c.op \in {"nop", "bp", "xf", "cp", "draw"} /\ c.n \in Nat
                       /\ (c.op = "cp" => c.n \in VSizes)
    OBVIOUS
  <2>1. CASE c \in {Op("nop", 0), Op("bp", 0), Op("xf", MaxCount)}
    BY <1>1, <1>4, <2>1
  <2>2. CASE c \in {Op("cp", s) : s \in VSizes}
    BY <1>2, <2>2
  <2>3. CASE c \in {Op("draw", n) : n \in 0 .. MaxCount}
    BY <1>3, <2>3
  <2>4. QED BY <2>1, <2>2, <2>3 DEF Plain
<1>6. \A c \in Sent : c = [op |-> c.op, n |-> c.n]
  BY DEF Sent, Plain, CallList, Data, Op
<1>7. CallList \notin Plain /\ Data \notin Plain /\ CallList # Data
  BY <1>4, <1>5
<1>8. Sent = Listable \cup {Data}
  BY DEF Sent, Listable
<1>9. QED BY <1>4, <1>5, <1>6, <1>7, <1>8 DEF Listable, Ops

LEMMA BytesFacts ==
  ASSUME NEW c \in Sent, NEW size \in VSizes
  PROVE  /\ length(c, size) \in Nat \ {0} /\ length(c, size) >= Header(c)
         /\ Bytes(c, size) \in Seq(Sent) /\ Len(Bytes(c, size)) = length(c, size)
         /\ Bytes(c, size) # << >> /\ Bytes(c, size)[1] = c
         /\ Loaded(c, size) \in VSizes
         /\ Effect(c, size) \in Effects /\ Doing(c, size) \in Seq(Effects)
<1>. DEFINE n == length(c, size)
<1>1. size \in Nat /\ c.n \in Nat /\ c.op \in Ops /\ (c.op = "cp" => c.n \in VSizes)
  <2>1. c.n \in Nat /\ c.op \in Ops /\ (c.op = "cp" => c.n \in VSizes)
    BY CommandOps, Zenon
  <2>2. QED BY <2>1, GxStreamAssumption
<1>2. c.n * size \in Nat
  BY <1>1
<1>3. Header(c) \in {1, 2}
  BY DEF Header
<1>4. n \in Nat \ {0} /\ n >= Header(c)
  <2>1. (CASE c.op = "xf" -> c.n [] c.op = "draw" -> c.n * size [] OTHER -> 0) \in Nat
    BY <1>1, <1>2
  <2>2. QED BY <1>3, <2>1 DEF length
<1>. HIDE DEF n
<1>5. Data \in Sent
  BY DEF Sent
<1>6. Bytes(c, size) = [i \in 1 .. n |-> IF i = 1 THEN c ELSE Data]
  BY DEF Bytes, n
<1>7. Bytes(c, size) \in [1 .. n -> Sent]
  BY <1>5, <1>6
<1>8. Bytes(c, size) \in Seq(Sent) /\ Len(Bytes(c, size)) = n /\ Bytes(c, size)[1] = c
  BY <1>4, <1>6, <1>7
<1>9. Bytes(c, size) # << >>
  BY <1>4, <1>8
<1>10. Loaded(c, size) \in VSizes
  BY <1>1 DEF Loaded
<1>11. Effect(c, size) \in Effects
  BY <1>1, <1>2 DEF Effect, Effects, Ops
<1>12. Doing(c, size) \in Seq(Effects)
  BY <1>11 DEF Doing
<1>13. QED BY <1>4, <1>8, <1>9, <1>10, <1>11, <1>12 DEF n

-----------------------------------------------------------------------------
(* Commands after each other.                                                *)

Summed == [bytes : Seq(Sent), does : Seq(Effects), size : VSizes]
Nothing(size) == [bytes |-> << >>, does |-> << >>, size |-> size]
Add(all, c) == [bytes |-> all.bytes \o Bytes(c, all.size),
                does |-> IF c.op \in {"nop", "list"} THEN all.does
                         ELSE Append(all.does, Effect(c, all.size)),
                size |-> Loaded(c, all.size)]

LEMMA AddFacts ==
  ASSUME NEW all \in Summed, NEW c \in Sent
  PROVE  Add(all, c) \in Summed
<1>1. all.bytes \in Seq(Sent) /\ all.does \in Seq(Effects) /\ all.size \in VSizes
  BY DEF Summed
<1>2. /\ Bytes(c, all.size) \in Seq(Sent) /\ Loaded(c, all.size) \in VSizes
      /\ Effect(c, all.size) \in Effects
  BY <1>1, BytesFacts
<1>3. all.bytes \o Bytes(c, all.size) \in Seq(Sent)
  BY <1>1, <1>2
<1>4. Append(all.does, Effect(c, all.size)) \in Seq(Effects)
  BY <1>1, <1>2
<1>5. QED BY <1>1, <1>2, <1>3, <1>4 DEF Add, Summed

\* The fold's results, command by command.
LEMMA Summing ==
  ASSUME NEW size \in VSizes, NEW cs \in Seq(Sent)
  PROVE  \E h \in [0 .. Len(cs) -> Summed] :
           /\ Together(cs, size) = h[Len(cs)] /\ h[0] = Nothing(size)
           /\ \A k \in 1 .. Len(cs) : h[k] = Add(h[k - 1], cs[k])
<1>. DEFINE D == DOMAIN cs
            r == Nothing(size)
            ch == [t \in SUBSET D |-> Max(t)]
            F == [t \in SUBSET D |-> [x \in Summed |-> Add(x, cs[Max(t)])]]
<1>1. Len(cs) \in Nat /\ D = 1 .. Len(cs) /\ IsFiniteSet(D)
  BY FS_Interval
<1>2. \A t \in SUBSET D : t # {} => Max(t) \in t /\ cs[Max(t)] \in Sent
  <2>1. \A i \in D : cs[i] \in Sent
    BY <1>1
  <2>2. \A t \in SUBSET D : t # {} => Max(t) \in t
    BY <1>1, MaxIn
  <2>3. QED BY <2>1, <2>2
<1>0. r \in Summed
  BY DEF Summed, Nothing
<1>. HIDE DEF r
<1>3. PICK g : FoldOf(g, D, Summed, r, ch, F)
  <2>1. \A t \in SUBSET D : t # {} => ch[t] \in t
    BY <1>2
  <2>2. \A t \in SUBSET D, x \in Summed : t # {} => F[t][x] \in Summed
    BY <1>2, AddFacts
  <2>. HIDE DEF D, ch, F
  <2>3. Foldable(D, Summed, r, ch, F)
    BY <1>0, <1>1, <2>1, <2>2 DEF Foldable
  <2>4. QED BY <2>3, FoldExists, Zenon
<1>. DEFINE Eq(it) == it = [t \in SUBSET D |-> IF t = {} THEN r
                             ELSE LET x == Max(t) IN Add(it[t \ {x}], cs[x])]
            it == CHOOSE it : Eq(it)
<1>4. Together(cs, size) = it[D]
  BY Zenon DEF Together, FoldLeft, MapThenFoldSet, Add, Nothing, r
<1>5. Eq(it)
  <2>1. g \in [SUBSET D -> Summed] /\ \A t \in SUBSET D :
          g[t] = IF t = {} THEN r ELSE Add(g[t \ {Max(t)}], cs[Max(t)])
    <3>1. g \in [SUBSET D -> Summed] /\ \A t \in SUBSET D :
            g[t] = IF t = {} THEN r ELSE F[t][g[t \ {ch[t]}]]
      BY <1>3, Zenon DEF FoldOf
    <3>2. ASSUME NEW t \in SUBSET D, t # {}
          PROVE  F[t][g[t \ {ch[t]}]] = Add(g[t \ {Max(t)}], cs[Max(t)])
      <4>1. ch[t] = Max(t) /\ t \ {Max(t)} \in SUBSET D
        BY <3>2
      <4>2. g[t \ {Max(t)}] \in Summed
        BY <3>1, <4>1
      <4>3. QED BY <4>1, <4>2
    <3>3. QED BY <3>1, <3>2
  <2>2. Eq(g)
    BY <2>1
  <2>. HIDE DEF Eq
  <2>3. QED BY <2>2, Zenon
<1>. HIDE DEF it
<1>6. it[{}] = r /\ \A t \in SUBSET D : t # {} => it[t] = Add(it[t \ {Max(t)}], cs[Max(t)])
  BY <1>5
<1>7. \A t \in SUBSET D : it[t] \in Summed
  <2>1. \A t \in SUBSET D : t # {} => ch[t] \in t /\ (it[t \ {ch[t]}] \in Summed => it[t] \in Summed)
    <3>1. ASSUME NEW t \in SUBSET D, t # {}
          PROVE  ch[t] \in t /\ (it[t \ {ch[t]}] \in Summed => it[t] \in Summed)
      <4>1. ch[t] = Max(t)
        BY <3>1
      <4>2. Max(t) \in t /\ cs[Max(t)] \in Sent
        BY <1>2, <3>1
      <4>3. it[t] = Add(it[t \ {Max(t)}], cs[Max(t)])
        BY <1>6, <3>1
      <4>4. it[t \ {Max(t)}] \in Summed => Add(it[t \ {Max(t)}], cs[Max(t)]) \in Summed
        BY <4>2, AddFacts
      <4>. HIDE DEF ch, F
      <4>5. QED BY <4>1, <4>2, <4>3, <4>4
    <3>2. QED BY <3>1, Zenon
  <2>2. it[{}] \in Summed
    BY <1>0, <1>6
  <2>. HIDE DEF D, ch, F
  <2>3. QED BY <1>1, <2>1, <2>2, FoldStays
<1>. DEFINE h == [k \in 0 .. Len(cs) |-> it[1 .. k]]
<1>8. \A k \in 0 .. Len(cs) : 1 .. k \in SUBSET D
  <2>1. \A k \in 0 .. Len(cs) : \A i \in 1 .. k : i \in 1 .. Len(cs)
    BY <1>1
  <2>2. QED BY <1>1, <2>1
<1>9. h \in [0 .. Len(cs) -> Summed]
  BY <1>7, <1>8
<1>10. h[0] = r /\ h[Len(cs)] = Together(cs, size)
  <2>1. 1 .. 0 = {} /\ 0 \in 0 .. Len(cs) /\ Len(cs) \in 0 .. Len(cs)
    BY <1>1
  <2>2. QED BY <1>1, <1>4, <1>6, <2>1
<1>11. ASSUME NEW k \in 1 .. Len(cs)
       PROVE  h[k] = Add(h[k - 1], cs[k])
  <2>1. Max(1 .. k) = k /\ (1 .. k) \ {k} = 1 .. (k - 1)
    BY <1>1, MaxIn
  <2>2. k \in 0 .. Len(cs) /\ k - 1 \in 0 .. Len(cs) /\ k \in 1 .. k
    BY <1>1
  <2>3. it[1 .. k] = Add(it[(1 .. k) \ {Max(1 .. k)}], cs[Max(1 .. k)])
    <3>1. 1 .. k \in SUBSET D /\ 1 .. k # {}
      BY <1>8, <2>2
    <3>. HIDE DEF D
    <3>2. QED BY <1>6, <3>1
  <2>4. QED BY <2>1, <2>2, <2>3
<1>. HIDE DEF h
<1>12. QED BY <1>9, <1>10, <1>11 DEF r

\* One command, and two after each other.
LEMMA OneAlone ==
  ASSUME NEW c \in Sent, NEW size \in VSizes
  PROVE  /\ Together(<<c>>, size).bytes = Bytes(c, size)
         /\ Together(<<c>>, size).does = Doing(c, size)
         /\ Together(<<c>>, size).size = Loaded(c, size)
<1>1. <<c>> \in Seq(Sent) /\ Len(<<c>>) = 1 /\ <<c>>[1] = c
  OBVIOUS
<1>2. PICK h \in [0 .. 1 -> Summed] :
        /\ Together(<<c>>, size) = h[1] /\ h[0] = Nothing(size)
        /\ \A k \in 1 .. 1 : h[k] = Add(h[k - 1], <<c>>[k])
  BY <1>1, Summing
<1>3. h[1] = Add(h[0], c)
  <2>1. 1 \in 1 .. 1 /\ 1 - 1 = 0
    OBVIOUS
  <2>2. h[1] = Add(h[1 - 1], <<c>>[1])
    BY <1>2, <2>1
  <2>3. QED BY <1>1, <2>1, <2>2
<1>4. Together(<<c>>, size) = Add(Nothing(size), c)
  BY <1>2, <1>3
<1>5. << >> \o Bytes(c, size) = Bytes(c, size)
  BY BytesFacts, ConcatEmptySeq
<1>6. Append(<< >>, Effect(c, size)) = <<Effect(c, size)>>
  OBVIOUS
<1>7. QED BY <1>4, <1>5, <1>6 DEF Add, Nothing, Doing

LEMMA TwoTogether ==
  ASSUME NEW cs \in Seq(Sent), Len(cs) = 2, NEW size \in VSizes
  PROVE  LET then == Loaded(cs[1], size)
         IN  /\ then \in VSizes
             /\ Together(cs, size).bytes = Bytes(cs[1], size) \o Bytes(cs[2], then)
             /\ Together(cs, size).does = Doing(cs[1], size) \o Doing(cs[2], then)
             /\ Together(cs, size).size = Loaded(cs[2], then)
<1>. DEFINE c == cs[1]
            d == cs[2]
            then == Loaded(c, size)
<1>1. c \in Sent /\ d \in Sent
  OBVIOUS
<1>2. PICK h \in [0 .. 2 -> Summed] :
        /\ Together(cs, size) = h[2] /\ h[0] = Nothing(size)
        /\ \A k \in 1 .. 2 : h[k] = Add(h[k - 1], cs[k])
  BY Summing
<1>3. h[1] = Add(h[0], c) /\ h[2] = Add(h[1], d)
  <2>1. 1 \in 1 .. 2 /\ 2 \in 1 .. 2 /\ 1 - 1 = 0 /\ 2 - 1 = 1
    OBVIOUS
  <2>2. h[1] = Add(h[1 - 1], cs[1]) /\ h[2] = Add(h[2 - 1], cs[2])
    BY <1>2, <2>1
  <2>3. QED BY <2>1, <2>2
<1>. HIDE DEF c, d, then
<1>4. then \in VSizes /\ Bytes(c, size) \in Seq(Sent) /\ Doing(c, size) \in Seq(Effects)
      /\ Bytes(d, then) \in Seq(Sent) /\ Effect(d, then) \in Effects
  BY <1>1, BytesFacts DEF then
<1>5. h[1].bytes = Bytes(c, size) /\ h[1].does = Doing(c, size) /\ h[1].size = then
  <2>1. << >> \o Bytes(c, size) = Bytes(c, size)
    BY <1>4, ConcatEmptySeq
  <2>2. Append(<< >>, Effect(c, size)) = <<Effect(c, size)>>
    OBVIOUS
  <2>3. QED BY <1>2, <1>3, <2>1, <2>2 DEF Add, Nothing, Doing, then
<1>6. /\ h[2].bytes = Bytes(c, size) \o Bytes(d, then) /\ h[2].size = Loaded(d, then)
      /\ h[2].does = Doing(c, size) \o Doing(d, then)
  <2>1. h[2].bytes = h[1].bytes \o Bytes(d, h[1].size) /\ h[2].size = Loaded(d, h[1].size)
    <3>1. /\ Add(h[1], d).bytes = h[1].bytes \o Bytes(d, h[1].size)
          /\ Add(h[1], d).size = Loaded(d, h[1].size)
      BY DEF Add
    <3>2. QED BY <1>3, <3>1
  <2>2. h[2].does = IF d.op \in {"nop", "list"} THEN h[1].does ELSE Append(h[1].does, Effect(d, h[1].size))
    BY <1>3 DEF Add
  <2>3. Doing(c, size) \o << >> = Doing(c, size)
    BY <1>4, ConcatEmptySeq
  <2>4. Append(Doing(c, size), Effect(d, then)) = Doing(c, size) \o <<Effect(d, then)>>
    BY <1>4, AppendIsConcat
  <2>5. QED BY <1>5, <2>1, <2>2, <2>3, <2>4 DEF Doing
<1>7. QED BY <1>2, <1>4, <1>6 DEF c, d, then

-----------------------------------------------------------------------------
(* The invariant.                                                            *)

\* What of a display list is left to run, with what is owed then and after,
\* and the vertex format then and after: nothing, its last command, which may
\* lack a byte and is then not executed, or the first and the last.
LastLeft(c, bytes, size, before, after, end) ==
  \/ bytes = Bytes(c, size) /\ before = Doing(c, size) \o after /\ end = Loaded(c, size)
  \/ bytes = Front(Bytes(c, size)) /\ before = after /\ end = size
Left(bytes, size, before, after, end) ==
  \/ bytes = << >> /\ before = after /\ end = size
  \/ \E c \in Listable : LastLeft(c, bytes, size, before, after, end)
  \/ \E c \in Listable, d \in Listable, m \in Seq(Sent), q \in Seq(Effects) :
       /\ bytes = Bytes(c, size) \o m /\ before = Doing(c, size) \o q
       /\ LastLeft(d, m, Loaded(c, size), q, after, end)

\* What a command of the stream does, the list's commands if it calls it.
Called(c, size) == Together(IF c = CallList THEN ListCalls ELSE <<c>>, size)

\* A row of commands: the bytes, what is owed, and the vertex format before
\* each one and after the last.
Stage == [bytes : Seq(Sent), owes : Seq(Effects), size : VSizes]
Follows(x, c, y) ==
  /\ x.bytes = Bytes(c, x.size) \o y.bytes
  /\ x.owes = Called(c, x.size).does \o y.owes
  /\ y.size = Called(c, x.size).size
AllSent(size) == [bytes |-> << >>, owes |-> << >>, size |-> size]
Row(k, r, cs) ==
  /\ r \in [1 .. k + 1 -> Stage] /\ cs \in [1 .. k -> Listable]
  /\ \A i \in 1 .. k : Follows(r[i], cs[i], r[i + 1])
  /\ r[k + 1] = AllSent(sized)
\* The row is what is on its way, once the list that runs is done.
OnItsWay(k, r, cs) ==
  /\ Row(k, r, cs) /\ r[1].bytes = stream \o pipe
  /\ Left(list, vsize, owed, r[1].owes, r[1].size)

StreamInv ==
  /\ StreamTypeOK /\ owed \in Seq(Effects) /\ listed \in [1 .. 2 -> Listable] /\ short \in BOOLEAN
  /\ list # << >> => parsing
  /\ ~spoilt => /\ ~wrong /\ ~desync
                /\ \E k \in Nat : \E r \in [1 .. k + 1 -> Stage], cs \in [1 .. k -> Listable] :
                      OnItsWay(k, r, cs)

LEMMA FrontIs ==
  ASSUME NEW S, NEW z \in Seq(S), z # << >>
  PROVE  /\ Front(z) \in Seq(S) /\ Len(Front(z)) = Len(z) - 1
         /\ \A i \in 1 .. Len(z) - 1 : Front(z)[i] = z[i]
<1>1. Len(z) \in Nat \ {0}
  BY EmptySeq
<1>2. /\ SubSeq(z, 1, Len(z) - 1) \in Seq(S) /\ Len(SubSeq(z, 1, Len(z) - 1)) = Len(z) - 1
      /\ \A i \in 1 .. Len(z) - 1 : SubSeq(z, 1, Len(z) - 1)[i] = z[i]
  <2>. DEFINE n == Len(z) - 1
  <2>1. n \in Nat /\ \A i \in 1 .. n : z[i] \in S
    BY <1>1
  <2>. HIDE DEF n
  <2>2. /\ SubSeq(z, 1, n) \in Seq(S) /\ Len(SubSeq(z, 1, n)) = IF 1 <= n THEN n - 1 + 1 ELSE 0
        /\ \A i \in 1 .. n - 1 + 1 : SubSeq(z, 1, n)[i] = z[1 + i - 1]
    BY <2>1, SubSeqProperties
  <2>3. /\ Len(SubSeq(z, 1, n)) = n
        /\ \A i \in 1 .. n : i \in 1 .. n - 1 + 1 /\ 1 + i - 1 = i
    BY <2>1, <2>2
  <2>4. QED BY <2>2, <2>3 DEF n
<1>3. QED BY <1>2 DEF Front

LEMMA FrontConcat ==
  ASSUME NEW S, NEW b \in Seq(S), NEW e \in Seq(S), e # << >>
  PROVE  Front(b \o e) = b \o Front(e)
<1>. DEFINE z == b \o e
            f == Front(e)
            g == Front(z)
            y == b \o f
<1>1. /\ f \in Seq(S) /\ Len(f) = Len(e) - 1 /\ \A i \in 1 .. Len(e) - 1 : f[i] = e[i]
  BY FrontIs
<1>2. Len(e) \in Nat \ {0} /\ Len(b) \in Nat
  BY EmptySeq
<1>3. /\ z \in Seq(S) /\ Len(z) = Len(b) + Len(e)
      /\ \A i \in 1 .. Len(b) + Len(e) : z[i] = IF i <= Len(b) THEN b[i] ELSE e[i - Len(b)]
  BY ConcatProperties
<1>. HIDE DEF z, f
<1>4. z # << >>
  BY <1>2, <1>3, EmptySeq
<1>5. g \in Seq(S) /\ Len(g) = Len(z) - 1 /\ \A i \in 1 .. Len(z) - 1 : g[i] = z[i]
  BY <1>3, <1>4, FrontIs
<1>6. /\ y \in Seq(S) /\ Len(y) = Len(b) + Len(f)
      /\ \A i \in 1 .. Len(b) + Len(f) : y[i] = IF i <= Len(b) THEN b[i] ELSE f[i - Len(b)]
  BY <1>1, ConcatProperties
<1>. HIDE DEF g, y
<1>7. ASSUME NEW i \in 1 .. Len(g)
      PROVE  g[i] = y[i]
  <2>1. i \in 1 .. Len(z) - 1 /\ i \in 1 .. Len(b) + Len(e) /\ i \in 1 .. Len(b) + Len(f) /\ i \in Int
    BY <1>1, <1>2, <1>3, <1>5, <1>7
  <2>2. CASE i <= Len(b)
    BY <1>3, <1>5, <1>6, <2>1, <2>2
  <2>3. CASE ~(i <= Len(b))
    <3>1. i - Len(b) \in 1 .. Len(e) - 1
      BY <1>1, <1>2, <2>1, <2>3
    <3>2. g[i] = e[i - Len(b)] /\ y[i] = f[i - Len(b)]
      BY <1>3, <1>5, <1>6, <2>1, <2>3
    <3>3. QED BY <1>1, <3>1, <3>2
  <2>4. QED BY <2>2, <2>3
<1>8. Len(g) = Len(y)
  BY <1>1, <1>2, <1>3, <1>5, <1>6
<1>9. g = y
  BY <1>5, <1>6, <1>7, <1>8, SeqEqual
<1>10. QED BY <1>9 DEF g, y, f, z

LEMMA ListFacts ==
  ASSUME listed \in [1 .. 2 -> Listable], short \in BOOLEAN, NEW size \in VSizes
  PROVE  LET then == Loaded(listed[1], size)
             m == IF short THEN Front(Bytes(listed[2], then)) ELSE Bytes(listed[2], then)
             q == IF short THEN << >> ELSE Doing(listed[2], then)
         IN  /\ then \in VSizes /\ m \in Seq(Sent) /\ q \in Seq(Effects)
             /\ Called(CallList, size).does = Doing(listed[1], size) \o q
             /\ Called(CallList, size).size = IF short THEN then ELSE Loaded(listed[2], then)
             /\ (vsize = size => ListBytes = Bytes(listed[1], size) \o m)
             /\ ListCalls \in Seq(Sent)
<1>. DEFINE c == listed[1]
            d == listed[2]
            then == Loaded(c, size)
            b == Bytes(c, size)
            e == Bytes(d, then)
<1>1. /\ listed \in Seq(Sent) /\ Len(listed) = 2 /\ c \in Sent /\ d \in Sent
  <2>1. Listable \subseteq Sent
    BY CommandOps
  <2>2. listed \in [1 .. 2 -> Sent] /\ 2 \in Nat
    BY <2>1
  <2>3. listed \in Seq(Sent)
    BY <2>2, SeqDef, Zenon
  <2>4. Len(listed) = 2
    <3>1. DOMAIN listed = 1 .. 2 /\ DOMAIN listed = 1 .. Len(listed) /\ Len(listed) \in Nat
      BY <2>2, <2>3, LenProperties
    <3>2. QED BY <3>1
  <2>5. QED BY <2>2, <2>4, <2>3
<1>. HIDE DEF c, d
<1>2. then \in VSizes /\ b \in Seq(Sent) /\ Doing(c, size) \in Seq(Effects)
  BY <1>1, BytesFacts
<1>. HIDE DEF then
<1>3. e \in Seq(Sent) /\ e # << >> /\ Doing(d, then) \in Seq(Effects) /\ Len(e) \in Nat \ {0}
  BY <1>1, <1>2, BytesFacts
<1>4. /\ Together(listed, size).bytes = b \o e
      /\ Together(listed, size).does = Doing(c, size) \o Doing(d, then)
      /\ Together(listed, size).size = Loaded(d, then)
  BY <1>1, TwoTogether DEF c, d, then
<1>5. Front(e) \in Seq(Sent) /\ Front(b \o e) = b \o Front(e)
  BY <1>2, <1>3, FrontIs, FrontConcat
<1>6. CASE short
  <2>1. ListCalls = <<c>>
    <3>2. Front(listed) \in Seq(Sent) /\ Len(Front(listed)) = 1 /\ Front(listed)[1] = listed[1]
      <4>1. listed # << >> /\ 2 - 1 = 1 /\ 1 \in 1 .. 1
        BY <1>1
      <4>2. /\ Front(listed) \in Seq(Sent) /\ Len(Front(listed)) = Len(listed) - 1
            /\ \A i \in 1 .. Len(listed) - 1 : Front(listed)[i] = listed[i]
        BY <1>1, <4>1, FrontIs, Zenon
      <4>3. QED BY <1>1, <4>1, <4>2
    <3>3. <<c>> \in Seq(Sent) /\ Len(<<c>>) = 1 /\ <<c>>[1] = c
      BY <1>1
    <3>4. Front(listed) = <<c>>
      <4>. DEFINE x == Front(listed)
                  y == <<c>>
      <4>1. x \in Seq(Sent) /\ y \in Seq(Sent) /\ Len(x) = Len(y) /\ \A i \in 1 .. Len(x) : x[i] = y[i]
        BY <3>2, <3>3 DEF c
      <4>. HIDE DEF x, y
      <4>2. x = y
        BY <4>1, SeqEqual
      <4>3. QED BY <4>2 DEF x, y
    <3>5. QED BY <1>6, <3>4 DEF ListCalls
  <2>2. /\ Called(CallList, size).does = Doing(c, size) /\ Called(CallList, size).size = then
    BY <1>1, <2>1, OneAlone DEF Called, then
  <2>3. Doing(c, size) \o << >> = Doing(c, size)
    BY <1>2, ConcatEmptySeq
  <2>4. vsize = size => ListBytes = b \o Front(e)
    BY <1>4, <1>5, <1>6 DEF ListBytes
  <2>5. <<c>> \in Seq(Sent)
    BY <1>1
  <2>6. << >> \in Seq(Effects)
    OBVIOUS
  <2>7. QED BY <1>2, <1>5, <1>6, <2>1, <2>2, <2>3, <2>4, <2>5, <2>6 DEF c, d, then
<1>7. CASE ~short
  <2>1. ListCalls = listed
    BY <1>7 DEF ListCalls
  <2>2. /\ Called(CallList, size).does = Doing(c, size) \o Doing(d, then)
        /\ Called(CallList, size).size = Loaded(d, then)
    BY <1>4, <2>1 DEF Called
  <2>3. vsize = size => ListBytes = b \o e
    BY <1>4, <1>7 DEF ListBytes
  <2>4. QED BY <1>1, <1>2, <1>3, <1>7, <2>1, <2>2, <2>3 DEF c, d, then
<1>8. QED BY <1>6, <1>7

\* What a command does has its type.
LEMMA CalledFacts ==
  ASSUME listed \in [1 .. 2 -> Listable], short \in BOOLEAN, NEW c \in Sent, NEW size \in VSizes
  PROVE  /\ Called(c, size).does \in Seq(Effects) /\ Called(c, size).size \in VSizes
         /\ c # CallList => /\ Called(c, size).does = Doing(c, size)
                            /\ Called(c, size).size = Loaded(c, size)
<1>1. CASE c # CallList
  <2>1. Called(c, size) = Together(<<c>>, size)
    BY <1>1 DEF Called
  <2>2. QED BY <1>1, <2>1, OneAlone, BytesFacts
<1>2. CASE c = CallList
  <2>1. ListCalls \in Seq(Sent)
    BY ListFacts
  <2>2. PICK h \in [0 .. Len(ListCalls) -> Summed] : Together(ListCalls, size) = h[Len(ListCalls)]
    BY <2>1, Summing
  <2>3. Len(ListCalls) \in 0 .. Len(ListCalls)
    <3>1. Len(ListCalls) \in Nat
      BY <2>1
    <3>2. QED BY <3>1
  <2>4. Called(c, size) \in Summed
    BY <1>2, <2>2, <2>3 DEF Called
  <2>5. QED BY <1>2, <2>4 DEF Summed
<1>3. QED BY <1>1, <1>2

-----------------------------------------------------------------------------
(* Steps.                                                                    *)

\* The first command's bytes are taken off what begins with them.
Without(s, n) == SubSeq(s, n + 1, Len(s))
LEMMA TakeFirst ==
  ASSUME NEW b \in Seq(Sent), NEW s \in Seq(Sent), NEW t \in Seq(Sent), NEW u \in Seq(Sent),
         s \o t = b \o u, Len(s) >= Len(b)
  PROVE  Without(s, Len(b)) \in Seq(Sent) /\ Without(s, Len(b)) \o t = u
<1>. DEFINE x == SubSeq(s, Len(b) + 1, Len(s))
<1>1. Len(s) \in Nat /\ Len(b) \in Nat /\ Len(t) \in Nat /\ Len(u) \in Nat
  OBVIOUS
<1>2. /\ s \o t \in Seq(Sent) /\ Len(s \o t) = Len(s) + Len(t)
      /\ \A i \in 1 .. Len(s) + Len(t) : (s \o t)[i] = IF i <= Len(s) THEN s[i] ELSE t[i - Len(s)]
  BY ConcatProperties
<1>3. /\ Len(b \o u) = Len(b) + Len(u)
      /\ \A i \in 1 .. Len(b) + Len(u) : (b \o u)[i] = IF i <= Len(b) THEN b[i] ELSE u[i - Len(b)]
  BY ConcatProperties
<1>4. /\ x \in Seq(Sent) /\ Len(x) = Len(s) - Len(b)
      /\ \A i \in 1 .. Len(s) - Len(b) : x[i] = s[Len(b) + i]
  <2>. DEFINE m == Len(b) + 1
              n == Len(s)
  <2>1. m \in Int /\ n \in Int /\ \A i \in m .. n : s[i] \in Sent
    BY <1>1
  <2>2. /\ x \in Seq(Sent) /\ Len(x) = IF m <= n THEN n - m + 1 ELSE 0
        /\ \A i \in 1 .. n - m + 1 : x[i] = s[m + i - 1]
    <3>. HIDE DEF m, n
    <3>1. /\ SubSeq(s, m, n) \in Seq(Sent) /\ Len(SubSeq(s, m, n)) = IF m <= n THEN n - m + 1 ELSE 0
          /\ \A i \in 1 .. n - m + 1 : SubSeq(s, m, n)[i] = s[m + i - 1]
      BY <2>1, SubSeqProperties
    <3>2. QED BY <3>1 DEF m, n
  <2>3. \A i \in 1 .. Len(s) - Len(b) : i \in 1 .. n - m + 1 /\ m + i - 1 = Len(b) + i
    BY <1>1
  <2>. HIDE DEF x
  <2>4. QED BY <1>1, <2>2, <2>3
<1>. HIDE DEF x
<1>5. /\ x \o t \in Seq(Sent) /\ Len(x \o t) = Len(x) + Len(t)
      /\ \A i \in 1 .. Len(x) + Len(t) : (x \o t)[i] = IF i <= Len(x) THEN x[i] ELSE t[i - Len(x)]
  BY <1>4, ConcatProperties
<1>6. Len(x \o t) = Len(u)
  BY <1>1, <1>2, <1>3, <1>4, <1>5
<1>7. ASSUME NEW i \in 1 .. Len(u)
      PROVE  (x \o t)[i] = u[i]
  <2>1. /\ Len(b) + i \in 1 .. Len(b) + Len(u) /\ Len(b) + i \in 1 .. Len(s) + Len(t)
        /\ ~(Len(b) + i <= Len(b)) /\ (Len(b) + i) - Len(b) = i /\ i \in 1 .. Len(x) + Len(t)
    BY <1>1, <1>2, <1>3, <1>5, <1>6
  <2>2. (s \o t)[Len(b) + i] = u[i]
    BY <1>3, <2>1
  <2>3. CASE i <= Len(x)
    <3>1. Len(b) + i <= Len(s) /\ i \in 1 .. Len(s) - Len(b)
      BY <1>1, <1>4, <2>3
    <3>2. (s \o t)[Len(b) + i] = s[Len(b) + i]
      BY <1>2, <2>1, <3>1
    <3>3. (x \o t)[i] = s[Len(b) + i]
      BY <1>4, <1>5, <2>1, <2>3, <3>1
    <3>4. QED BY <2>2, <3>2, <3>3
  <2>4. CASE ~(i <= Len(x))
    <3>1. ~(Len(b) + i <= Len(s)) /\ (Len(b) + i) - Len(s) = i - Len(x)
      BY <1>1, <1>4, <2>4
    <3>2. (s \o t)[Len(b) + i] = t[i - Len(x)]
      BY <1>2, <2>1, <3>1
    <3>3. (x \o t)[i] = t[i - Len(x)]
      BY <1>5, <2>1, <2>4
    <3>4. QED BY <2>2, <3>2, <3>3
  <2>5. QED BY <2>3, <2>4
<1>8. x \o t = u
  BY <1>5, <1>6, <1>7, SeqEqual
<1>9. QED BY <1>4, <1>8 DEF x, Without

\* So what begins with a whole command begins with its opcode.
LEMMA FirstByte ==
  ASSUME NEW c \in Sent, NEW size \in VSizes, NEW s \in Seq(Sent), NEW t \in Seq(Sent),
         NEW u \in Seq(Sent), s \o t = Bytes(c, size) \o u, s # << >>
  PROVE  Head(s) = c
<1>1. /\ Bytes(c, size) \in Seq(Sent) /\ Bytes(c, size)[1] = c /\ Len(Bytes(c, size)) \in Nat \ {0}
  BY BytesFacts
<1>. DEFINE b == Bytes(c, size)
<1>. HIDE DEF b
<1>2. Len(s) \in Nat \ {0} /\ Len(t) \in Nat /\ Len(u) \in Nat /\ Len(b) \in Nat \ {0} /\ b \in Seq(Sent)
  BY <1>1, EmptySeq DEF b
<1>3. (s \o t)[1] = s[1]
  <2>1. 1 \in 1 .. Len(s) + Len(t) /\ 1 <= Len(s)
    BY <1>2
  <2>2. QED BY <2>1, ConcatProperties
<1>4. (b \o u)[1] = b[1]
  <2>1. 1 \in 1 .. Len(b) + Len(u) /\ 1 <= Len(b)
    BY <1>2
  <2>2. QED BY <1>2, <2>1, ConcatProperties
<1>5. Head(s) = s[1]
  BY <1>2
<1>6. QED BY <1>1, <1>3, <1>4, <1>5 DEF b

\* The first command is executed when what is owed begins with what it does.
LEMMA ExecuteFirst ==
  ASSUME NEW c \in Listable, vsize \in VSizes, desync \in BOOLEAN, NEW q \in Seq(Effects),
         owed = Doing(c, vsize) \o q, Execute(c)
  PROVE  /\ owed' = q /\ wrong' = wrong /\ desync' = desync /\ vsize' = Loaded(c, vsize)
         /\ UNCHANGED <<pipe, parsing, listed, short, sized, spoilt>>
<1>1. c \in Sent /\ c.op # "data"
  BY CommandOps
<1>2. /\ vsize' = Loaded(c, vsize) /\ desync' = (desync \/ c.op = "data")
      /\ UNCHANGED <<pipe, parsing, listed, short, sized, spoilt>>
  BY DEF Execute, memory
<1>3. desync' = desync
  <2>1. desync' = (desync \/ FALSE)
    BY <1>1, <1>2
  <2>2. QED BY <2>1
<1>4. CASE c.op \in {"nop", "list"}
  <2>1. UNCHANGED <<owed, wrong>>
    BY <1>4 DEF Execute
  <2>2. owed = << >> \o q
    BY <1>4 DEF Doing
  <2>3. << >> \o q = q
    BY ConcatEmptySeq
  <2>4. QED BY <1>2, <1>3, <2>1, <2>2, <2>3
<1>5. CASE c.op \notin {"nop", "list"}
  <2>. DEFINE e == Effect(c, vsize)
  <2>1. owed = <<e>> \o q /\ e \in Effects
    BY <1>1, <1>5, BytesFacts DEF Doing
  <2>2. <<e>> \in Seq(Effects) /\ Len(<<e>>) = 1 /\ <<e>>[1] = e
    BY <2>1
  <2>3. owed \in Seq(Effects) /\ owed # << >> /\ Head(owed) = e /\ Tail(owed) = q
    <3>. HIDE DEF e
    <3>1. QED BY <2>1
  <2>4. owed' = Tail(owed) /\ UNCHANGED wrong
    BY <1>1, <1>5, <2>3 DEF Execute
  <2>5. QED BY <1>2, <1>3, <2>3, <2>4
<1>6. QED BY <1>4, <1>5

LEMMA StreamStart == StreamInit => StreamInv
<1>. SUFFICES ASSUME StreamInit
              PROVE  StreamInv
  OBVIOUS
<1>1. PICK size \in VSizes : StreamInitOf(size)
  BY DEF StreamInit
<1>2. /\ pipe = << >> /\ stream = << >> /\ list = << >>
      /\ parsing = FALSE /\ desync = FALSE /\ spoilt = FALSE /\ wrong = FALSE
      /\ vsize = size /\ sized = size /\ owed = << >>
  BY <1>1 DEF StreamInitOf
<1>3. << >> \in Seq(Sent) /\ << >> \in Seq(Effects) /\ Len(<< >>) = 0 /\ BurstLen \in Nat \ {0}
  BY GxStreamAssumption
<1>4. StreamTypeOK
  <2>1. pipe \in Seq(Sent) /\ stream \in Seq(Sent) /\ list \in Seq(Sent)
    BY <1>2
  <2>2. Len(pipe) = 0 /\ Len(pipe) < 2 * BurstLen
    BY <1>2, <1>3
  <2>3. parsing \in BOOLEAN /\ desync \in BOOLEAN /\ spoilt \in BOOLEAN /\ wrong \in BOOLEAN
    BY <1>2, Zenon
  <2>4. vsize \in VSizes /\ sized \in VSizes
    BY <1>2
  <2>5. QED BY <2>1, <2>2, <2>3, <2>4, Zenon DEF StreamTypeOK
<1>5. listed \in [1 .. 2 -> Listable] /\ short \in BOOLEAN
  BY DEF StreamInit, Listable
<1>. DEFINE r == [i \in 1 .. 0 + 1 |-> AllSent(size)]
            cs == [i \in 1 .. 0 |-> CallList]
<1>6. AllSent(size) \in Stage
  BY <1>3 DEF AllSent, Stage
<1>7. r \in [1 .. 0 + 1 -> Stage] /\ cs \in [1 .. 0 -> Listable] /\ r[0 + 1] = AllSent(size) /\ r[1] = AllSent(size)
  BY <1>6 DEF Listable
<1>8. r[1].bytes = << >> /\ r[1].owes = << >> /\ r[1].size = size
  BY <1>7 DEF AllSent
<1>. HIDE DEF r, cs
<1>9. Row(0, r, cs)
  <2>1. \A i \in 1 .. 0 : FALSE
    OBVIOUS
  <2>2. QED BY <1>2, <1>7, <2>1 DEF Row
<1>10. << >> \o << >> = << >>
  BY <1>3, ConcatEmptySeq
<1>11. OnItsWay(0, r, cs)
  BY <1>2, <1>8, <1>9, <1>10 DEF OnItsWay, Left
<1>12. QED BY <1>2, <1>3, <1>4, <1>5, <1>7, <1>11 DEF StreamInv

\* The facts of a state.
LEMMA StreamFacts ==
  ASSUME StreamInv
  PROVE  /\ pipe \in Seq(Sent) /\ stream \in Seq(Sent) /\ list \in Seq(Sent)
         /\ Len(pipe) < 2 * BurstLen
         /\ parsing \in BOOLEAN /\ desync \in BOOLEAN /\ spoilt \in BOOLEAN /\ wrong \in BOOLEAN
         /\ vsize \in VSizes /\ sized \in VSizes /\ owed \in Seq(Effects)
         /\ listed \in [1 .. 2 -> Listable] /\ short \in BOOLEAN
         /\ BurstLen \in Nat \ {0} /\ (list # << >> => parsing)
<1>1. StreamTypeOK
  BY DEF StreamInv
<1>2. QED BY <1>1, GxStreamAssumption DEF StreamInv, StreamTypeOK

\* The row without its first command.
Shifted(r, k) == [i \in 1 .. (k - 1) + 1 |-> r[i + 1]]
LEMMA RowTail ==
  ASSUME NEW k \in Nat \ {0}, NEW r, NEW cs, Row(k, r, cs)
  PROVE  /\ Row(k - 1, Shifted(r, k), [i \in 1 .. k - 1 |-> cs[i + 1]])
         /\ Shifted(r, k)[1] = r[2]
         /\ Follows(r[1], cs[1], r[2])
         /\ r[1] \in Stage /\ r[2] \in Stage /\ cs[1] \in Listable
<1>. DEFINE x == Shifted(r, k)
            ds == [i \in 1 .. k - 1 |-> cs[i + 1]]
<1>1. /\ r \in [1 .. k + 1 -> Stage] /\ cs \in [1 .. k -> Listable]
      /\ \A i \in 1 .. k : Follows(r[i], cs[i], r[i + 1])
      /\ r[k + 1] = AllSent(sized)
  BY DEF Row
<1>2. \A i \in 1 .. (k - 1) + 1 : i + 1 \in 1 .. k + 1 /\ x[i] = r[i + 1]
  BY DEF Shifted
<1>3. x \in [1 .. (k - 1) + 1 -> Stage]
  BY <1>1, <1>2 DEF Shifted
<1>4. ds \in [1 .. k - 1 -> Listable] /\ \A i \in 1 .. k - 1 : ds[i] = cs[i + 1]
  BY <1>1
<1>5. \A i \in 1 .. k - 1 : Follows(x[i], ds[i], x[i + 1])
  <2>1. ASSUME NEW i \in 1 .. k - 1
        PROVE  Follows(x[i], ds[i], x[i + 1])
    <3>1. i + 1 \in 1 .. k /\ i \in 1 .. (k - 1) + 1 /\ i + 1 \in 1 .. (k - 1) + 1
      OBVIOUS
    <3>2. x[i] = r[i + 1] /\ x[i + 1] = r[(i + 1) + 1] /\ ds[i] = cs[i + 1]
      BY <1>2, <1>4, <3>1
    <3>. HIDE DEF x, ds
    <3>3. QED BY <1>1, <3>1, <3>2
  <2>2. QED BY <2>1
<1>6. x[(k - 1) + 1] = AllSent(sized) /\ x[1] = r[2]
  <2>1. (k - 1) + 1 \in 1 .. (k - 1) + 1 /\ ((k - 1) + 1) + 1 = k + 1 /\ 1 \in 1 .. (k - 1) + 1 /\ 1 + 1 = 2
    OBVIOUS
  <2>. HIDE DEF x
  <2>2. QED BY <1>1, <1>2, <2>1
<1>7. Follows(r[1], cs[1], r[2]) /\ r[1] \in Stage /\ r[2] \in Stage /\ cs[1] \in Listable
  <2>1. 1 \in 1 .. k /\ 1 + 1 = 2 /\ 1 \in 1 .. k + 1 /\ 2 \in 1 .. k + 1
    OBVIOUS
  <2>2. QED BY <1>1, <2>1
<1>. HIDE DEF x, ds
<1>8. Row(k - 1, x, ds)
  BY <1>3, <1>4, <1>5, <1>6 DEF Row
<1>9. QED BY <1>6, <1>7, <1>8 DEF x, ds

\* The row while neither the list nor the guest's format changes.
LEMMA RowStays ==
  ASSUME NEW k, NEW r, NEW cs, Row(k, r, cs), UNCHANGED <<listed, short, sized>>
  PROVE  Row(k, r, cs)'
<1>1. ListCalls' = ListCalls
  BY DEF ListCalls
<1>2. \A c, size : Called(c, size)' = Called(c, size)
  BY <1>1, Zenon DEF Called
<1>3. \A x, c, y : Follows(x, c, y)' = Follows(x, c, y)
  BY <1>2 DEF Follows
<1>4. AllSent(sized)' = AllSent(sized)
  BY DEF AllSent
<1>5. QED BY <1>3, <1>4 DEF Row

LEMMA Associative ==
  /\ \A s, t, u \in Seq(Sent) : (s \o t) \o u = s \o (t \o u)
  /\ \A s, t, u \in Seq(Effects) : (s \o t) \o u = s \o (t \o u)
<1>1. ASSUME NEW s \in Seq(Sent), NEW t \in Seq(Sent), NEW u \in Seq(Sent)
      PROVE  (s \o t) \o u = s \o (t \o u)
  BY ConcatAssociative
<1>2. ASSUME NEW s \in Seq(Effects), NEW t \in Seq(Effects), NEW u \in Seq(Effects)
      PROVE  (s \o t) \o u = s \o (t \o u)
  BY ConcatAssociative
<1>3. QED BY <1>1, <1>2

\* The row with another command behind it.
More(x, bytes, does) == [bytes |-> x.bytes \o bytes, owes |-> x.owes \o does, size |-> x.size]
RowWith(r, k, bytes, does, size) ==
  [i \in 1 .. (k + 1) + 1 |-> IF i = k + 2 THEN AllSent(size) ELSE More(r[i], bytes, does)]
With(cs, k, c) == [i \in 1 .. k + 1 |-> IF i = k + 1 THEN c ELSE cs[i]]

LEMMA MoreFacts ==
  ASSUME NEW x \in Stage, NEW bytes \in Seq(Sent), NEW does \in Seq(Effects)
  PROVE  /\ More(x, bytes, does) \in Stage
         /\ More(x, bytes, does).bytes = x.bytes \o bytes
         /\ More(x, bytes, does).owes = x.owes \o does
         /\ More(x, bytes, does).size = x.size
<1>1. x.bytes \in Seq(Sent) /\ x.owes \in Seq(Effects) /\ x.size \in VSizes
  BY DEF Stage
<1>2. x.bytes \o bytes \in Seq(Sent) /\ x.owes \o does \in Seq(Effects)
  BY <1>1
<1>3. QED BY <1>1, <1>2 DEF More, Stage

LEMMA FollowsMore ==
  ASSUME listed \in [1 .. 2 -> Listable], short \in BOOLEAN, NEW x \in Stage, NEW y \in Stage,
         NEW c \in Listable, Follows(x, c, y), NEW bytes \in Seq(Sent), NEW does \in Seq(Effects)
  PROVE  Follows(More(x, bytes, does), c, More(y, bytes, does))
<1>1. c \in Sent /\ x.size \in VSizes /\ y.bytes \in Seq(Sent) /\ y.owes \in Seq(Effects)
  BY CommandOps DEF Stage
<1>2. /\ Bytes(c, x.size) \in Seq(Sent) /\ Called(c, x.size).does \in Seq(Effects)
  BY <1>1, BytesFacts, CalledFacts
<1>3. /\ x.bytes = Bytes(c, x.size) \o y.bytes /\ x.owes = Called(c, x.size).does \o y.owes
      /\ y.size = Called(c, x.size).size
  BY DEF Follows
<1>4. (Bytes(c, x.size) \o y.bytes) \o bytes = Bytes(c, x.size) \o (y.bytes \o bytes)
  BY <1>1, <1>2, Associative, Zenon
<1>5. (Called(c, x.size).does \o y.owes) \o does = Called(c, x.size).does \o (y.owes \o does)
  BY <1>1, <1>2, Associative, Zenon
<1>. DEFINE v == More(x, bytes, does)
            w == More(y, bytes, does)
<1>6. /\ v.bytes = x.bytes \o bytes /\ v.owes = x.owes \o does /\ v.size = x.size
      /\ w.bytes = y.bytes \o bytes /\ w.owes = y.owes \o does /\ w.size = y.size
  BY MoreFacts
<1>. HIDE DEF v, w
<1>7. /\ v.bytes = Bytes(c, v.size) \o w.bytes /\ v.owes = Called(c, v.size).does \o w.owes
      /\ w.size = Called(c, v.size).size
  BY <1>3, <1>4, <1>5, <1>6
<1>8. Follows(v, c, w)
  BY <1>7 DEF Follows
<1>9. QED BY <1>8 DEF v, w

LEMMA RowGrows ==
  ASSUME listed \in [1 .. 2 -> Listable], short \in BOOLEAN, sized \in VSizes,
         NEW k \in Nat, NEW r, NEW cs, Row(k, r, cs), NEW c \in Listable,
         NEW bytes, NEW does, NEW size,
         bytes = Bytes(c, sized), does = Called(c, sized).does, size = Called(c, sized).size,
         sized' = size, UNCHANGED <<listed, short>>
  PROVE  /\ Row(k + 1, RowWith(r, k, bytes, does, size), With(cs, k, c))'
         /\ RowWith(r, k, bytes, does, size)[1] = More(r[1], bytes, does)
         /\ r[1] \in Stage
<1>. DEFINE x == RowWith(r, k, bytes, does, size)
            ds == With(cs, k, c)
<1>1. /\ r \in [1 .. k + 1 -> Stage] /\ cs \in [1 .. k -> Listable]
      /\ \A i \in 1 .. k : Follows(r[i], cs[i], r[i + 1])
      /\ r[k + 1] = AllSent(sized)
  BY DEF Row
<1>2. bytes \in Seq(Sent) /\ does \in Seq(Effects) /\ size \in VSizes /\ c \in Sent
  BY CommandOps, BytesFacts, CalledFacts
<1>3. AllSent(size) \in Stage
  BY <1>2 DEF AllSent, Stage
<1>4. /\ \A i \in 1 .. k + 1 : i \in 1 .. (k + 1) + 1 /\ i # k + 2 /\ x[i] = More(r[i], bytes, does)
      /\ k + 2 \in 1 .. (k + 1) + 1 /\ x[k + 2] = AllSent(size) /\ (k + 1) + 1 = k + 2
  BY DEF RowWith
<1>5. x \in [1 .. (k + 1) + 1 -> Stage]
  <2>1. \A i \in 1 .. (k + 1) + 1 : i # k + 2 => i \in 1 .. k + 1
    OBVIOUS
  <2>2. \A i \in 1 .. (k + 1) + 1 : i # k + 2 => More(r[i], bytes, does) \in Stage
    BY <1>1, <1>2, <2>1, MoreFacts
  <2>3. QED BY <1>3, <2>2 DEF RowWith
<1>6. /\ \A i \in 1 .. k : i \in 1 .. k + 1 /\ i # k + 1 /\ ds[i] = cs[i]
      /\ k + 1 \in 1 .. k + 1 /\ ds[k + 1] = c
  BY DEF With
<1>7. ds \in [1 .. k + 1 -> Listable]
  <2>1. \A i \in 1 .. k + 1 : i # k + 1 => i \in 1 .. k
    OBVIOUS
  <2>2. QED BY <1>1, <2>1 DEF With
<1>. HIDE DEF x, ds
<1>8. \A i \in 1 .. k : Follows(x[i], ds[i], x[i + 1])
  <2>1. ASSUME NEW i \in 1 .. k
        PROVE  Follows(x[i], ds[i], x[i + 1])
    <3>1. i \in 1 .. k + 1 /\ i + 1 \in 1 .. k + 1
      OBVIOUS
    <3>2. /\ r[i] \in Stage /\ r[i + 1] \in Stage /\ cs[i] \in Listable
          /\ Follows(r[i], cs[i], r[i + 1])
      BY <1>1, <3>1
    <3>3. Follows(More(r[i], bytes, does), cs[i], More(r[i + 1], bytes, does))
      BY <1>2, <3>2, FollowsMore
    <3>4. QED BY <1>4, <1>6, <3>1, <3>3
  <2>2. QED BY <2>1
<1>9. Follows(x[k + 1], ds[k + 1], x[(k + 1) + 1])
  <2>1. /\ bytes \o << >> = bytes /\ does \o << >> = does
        /\ << >> \o bytes = bytes /\ << >> \o does = does
    BY <1>2, ConcatEmptySeq
  <2>2. r[k + 1] \in Stage /\ k + 1 \in 1 .. k + 1
    BY <1>1
  <2>3. More(r[k + 1], bytes, does) = [bytes |-> bytes, owes |-> does, size |-> sized]
    BY <1>1, <2>1 DEF More, AllSent
  <2>4. x[k + 1] = [bytes |-> bytes, owes |-> does, size |-> sized]
    BY <1>4, <2>2, <2>3
  <2>5. x[(k + 1) + 1] = [bytes |-> << >>, owes |-> << >>, size |-> size]
    BY <1>4 DEF AllSent
  <2>6. /\ x[k + 1].bytes = bytes /\ x[k + 1].owes = does /\ x[k + 1].size = sized
        /\ x[(k + 1) + 1].bytes = << >> /\ x[(k + 1) + 1].owes = << >>
        /\ x[(k + 1) + 1].size = size
    BY <2>4, <2>5
  <2>7. /\ x[k + 1].bytes = Bytes(c, x[k + 1].size) \o x[(k + 1) + 1].bytes
        /\ x[k + 1].owes = Called(c, x[k + 1].size).does \o x[(k + 1) + 1].owes
        /\ x[(k + 1) + 1].size = Called(c, x[k + 1].size).size
    BY <2>1, <2>6
  <2>8. Follows(x[k + 1], c, x[(k + 1) + 1])
    BY <2>7 DEF Follows
  <2>9. QED BY <1>6, <2>8
<1>10. \A i \in 1 .. k + 1 : Follows(x[i], ds[i], x[i + 1])
  <2>1. \A i \in 1 .. k + 1 : i \in 1 .. k \/ i = k + 1
    OBVIOUS
  <2>2. QED BY <1>8, <1>9, <2>1
<1>11. (\A i \in 1 .. k + 1 : Follows(x[i], ds[i], x[i + 1]))'
  <2>1. ListCalls' = ListCalls
    BY DEF ListCalls
  <2>2. \A d, n : Called(d, n)' = Called(d, n)
    BY <2>1, Zenon DEF Called
  <2>3. \A y, d, z : Follows(y, d, z)' = Follows(y, d, z)
    BY <2>2 DEF Follows
  <2>4. QED BY <1>10, <2>3
<1>12. x[(k + 1) + 1] = AllSent(sized)'
  BY <1>4 DEF AllSent
<1>13. Row(k + 1, x, ds)'
  BY <1>5, <1>7, <1>11, <1>12 DEF Row
<1>14. x[1] = More(r[1], bytes, does) /\ r[1] \in Stage
  <2>1. 1 \in 1 .. k + 1
    OBVIOUS
  <2>2. QED BY <1>1, <1>4, <2>1
<1>15. QED BY <1>13, <1>14 DEF x, ds

\* A display list that has ended, and one that has a whole command or none.
LEMMA Ended ==
  ASSUME NEW size \in VSizes, NEW before, NEW after, NEW end, Left(<< >>, size, before, after, end)
  PROVE  before = after /\ end = size
<1>1. ASSUME NEW c \in Listable PROVE Bytes(c, size) \in Seq(Sent) /\ Bytes(c, size) # << >>
  BY CommandOps, BytesFacts
<1>2. CASE \E c \in Listable : LastLeft(c, << >>, size, before, after, end)
  BY <1>1, <1>2 DEF LastLeft
<1>3. ASSUME NEW c \in Listable, NEW m \in Seq(Sent)
      PROVE  << >> # Bytes(c, size) \o m
  <2>. DEFINE b == Bytes(c, size)
  <2>1. b \in Seq(Sent) /\ b # << >>
    BY <1>1
  <2>. HIDE DEF b
  <2>2. Len(b) \in Nat \ {0} /\ Len(m) \in Nat
    BY <2>1, EmptySeq
  <2>3. Len(b \o m) = Len(b) + Len(m) /\ Len(<< >>) = 0
    BY <2>1
  <2>4. << >> # b \o m
    BY <2>2, <2>3
  <2>5. QED BY <2>4 DEF b
<1>4. QED BY <1>2, <1>3 DEF Left

\* Of s with t behind it, c is the first command, and u what follows.
Ahead(c, s, t, u) == s \o t = Bytes(c, vsize) \o u
LEMMA WholeFirst ==
  ASSUME NEW c \in Sent, vsize \in VSizes, NEW s \in Seq(Sent), NEW t \in Seq(Sent),
         NEW u \in Seq(Sent), Ahead(c, s, t, u)
  PROVE  /\ Whole(s) <=> Len(s) >= length(c, vsize)
         /\ Whole(s) => /\ Head(s) = c
                        /\ c.op # "data" => After1(s) \in Seq(Sent) /\ After1(s) \o t = u
<1>0. s \o t = Bytes(c, vsize) \o u
  BY DEF Ahead
<1>1. /\ Bytes(c, vsize) \in Seq(Sent) /\ Len(Bytes(c, vsize)) = length(c, vsize)
      /\ length(c, vsize) \in Nat \ {0} /\ length(c, vsize) >= Header(c)
  BY BytesFacts
<1>2. Header(c) \in Nat /\ Len(s) \in Nat
  BY DEF Header
<1>3. s # << >> => Head(s) = c
  BY <1>0, FirstByte
<1>4. Whole(s) <=> Len(s) >= length(c, vsize)
  <2>1. Len(s) >= length(c, vsize) => s # << >>
    BY <1>1
  <2>2. s # << >> => (Whole(s) <=> Len(s) >= Header(c) /\ Len(s) >= length(c, vsize))
    BY <1>3 DEF Whole
  <2>3. Whole(s) => s # << >>
    BY DEF Whole
  <2>4. Len(s) >= length(c, vsize) => Len(s) >= Header(c)
    <3>. DEFINE n == length(c, vsize)
                h == Header(c)
    <3>. HIDE DEF n, h
    <3>1. n \in Nat /\ h \in Nat /\ n >= h
      BY <1>1, <1>2 DEF n, h
    <3>2. Len(s) >= n => Len(s) >= h
      BY <1>2, <3>1
    <3>3. QED BY <3>2 DEF n, h
  <2>5. QED BY <2>1, <2>2, <2>3, <2>4
<1>5. ASSUME Whole(s)
      PROVE  /\ Head(s) = c
             /\ c.op # "data" => After1(s) \in Seq(Sent) /\ After1(s) \o t = u
  <2>1. Head(s) = c
    BY <1>3, <1>5 DEF Whole
  <2>. DEFINE b == Bytes(c, vsize)
  <2>2. b \in Seq(Sent) /\ Len(s) >= Len(b) /\ s \o t = b \o u /\ Len(b) = length(c, vsize)
    BY <1>0, <1>1, <1>4, <1>5
  <2>. HIDE DEF b
  <2>3. Without(s, Len(b)) \in Seq(Sent) /\ Without(s, Len(b)) \o t = u
    BY <2>2, TakeFirst
  <2>4. c.op # "data" => After1(s) = Without(s, Len(b))
    BY <2>1, <2>2 DEF After1, Without
  <2>5. QED BY <2>1, <2>3, <2>4
<1>6. QED BY <1>4, <1>5

LEMMA FirstOff ==
  ASSUME NEW c \in Sent, c.op # "data", vsize \in VSizes, NEW s \in Seq(Sent), NEW t \in Seq(Sent),
         NEW u \in Seq(Sent), Ahead(c, s, t, u), Whole(s)
  PROVE  Head(s) = c /\ After1(s) \o t = u
BY WholeFirst

\* The last command, whole: after it nothing is left. Without its last byte it
\* is not whole.
LEMMA LastWhole ==
  ASSUME NEW c \in Listable, vsize \in VSizes, NEW s \in Seq(Sent), s # << >>
  PROVE  /\ s = Bytes(c, vsize) => Whole(s) /\ Head(s) = c /\ After1(s) = << >>
         /\ s = Front(Bytes(c, vsize)) => ~Whole(s)
<1>1. /\ c \in Sent /\ c.op # "data" /\ << >> \in Seq(Sent)
      /\ Bytes(c, vsize) \in Seq(Sent) /\ Bytes(c, vsize) # << >>
      /\ Bytes(c, vsize)[1] = c /\ Len(Bytes(c, vsize)) = length(c, vsize)
      /\ length(c, vsize) \in Nat \ {0}
  BY CommandOps, BytesFacts
<1>2. ASSUME s = Bytes(c, vsize)
      PROVE  Whole(s) /\ Head(s) = c /\ After1(s) = << >>
  <2>1. Ahead(c, s, << >>, << >>) /\ Len(s) >= length(c, vsize)
    BY <1>1, <1>2 DEF Ahead
  <2>2. Whole(s) /\ Head(s) = c /\ After1(s) \in Seq(Sent) /\ After1(s) \o << >> = << >>
    BY <1>1, <2>1, WholeFirst
  <2>3. After1(s) \o << >> = After1(s)
    BY <2>2, ConcatEmptySeq
  <2>4. QED BY <2>2, <2>3
<1>3. ASSUME s = Front(Bytes(c, vsize))
      PROVE  ~Whole(s)
  <2>. DEFINE b == Bytes(c, vsize)
  <2>1. b \in Seq(Sent) /\ b # << >> /\ b[1] = c /\ Len(b) = length(c, vsize) /\ s = Front(b)
    BY <1>1, <1>3
  <2>. HIDE DEF b
  <2>2. Len(s) = Len(b) - 1 /\ \A i \in 1 .. Len(b) - 1 : s[i] = b[i]
    BY <2>1, FrontIs
  <2>3. Len(s) \in Nat \ {0} /\ Len(b) \in Nat
    BY <2>1, EmptySeq
  <2>4. 1 \in 1 .. Len(b) - 1 /\ Head(s) = s[1] /\ ~(Len(s) >= Len(b))
    BY <2>2, <2>3
  <2>5. Head(s) = c /\ ~(Len(s) >= length(Head(s), vsize))
    BY <2>1, <2>2, <2>4
  <2>6. QED BY <2>5 DEF Whole
<1>4. QED BY <1>2, <1>3

\* A display list that has no whole command left has none.
LEMMA NoneLeft ==
  ASSUME StreamInv, NEW after, NEW end, Left(list, vsize, owed, after, end), ~Whole(list), list # << >>
  PROVE  owed = after /\ end = vsize
<1>0. list \in Seq(Sent) /\ vsize \in VSizes
  BY StreamFacts
<1>1. ASSUME NEW c \in Listable, LastLeft(c, list, vsize, owed, after, end)
      PROVE  owed = after /\ end = vsize
  BY <1>0, <1>1, LastWhole DEF LastLeft
<1>2. ASSUME NEW c \in Listable, NEW m \in Seq(Sent), list = Bytes(c, vsize) \o m
      PROVE  FALSE
  <2>1. c \in Sent /\ Bytes(c, vsize) \in Seq(Sent) /\ Len(Bytes(c, vsize)) = length(c, vsize)
    BY <1>0, CommandOps, BytesFacts
  <2>2. Len(list) >= Len(Bytes(c, vsize))
    <3>. DEFINE b == Bytes(c, vsize)
    <3>1. b \in Seq(Sent) /\ list = b \o m
      BY <1>2, <2>1
    <3>. HIDE DEF b
    <3>2. Len(list) = Len(b) + Len(m) /\ Len(b) \in Nat /\ Len(m) \in Nat
      BY <3>1
    <3>3. Len(list) >= Len(b)
      BY <3>2
    <3>4. QED BY <3>3 DEF b
  <2>3. list \o << >> = list /\ << >> \in Seq(Sent)
    BY <1>0, ConcatEmptySeq
  <2>4. Ahead(c, list, << >>, m)
    BY <1>2, <2>3 DEF Ahead
  <2>5. Whole(list) <=> Len(list) >= length(c, vsize)
    BY <1>0, <2>1, <2>3, <2>4, WholeFirst
  <2>6. QED BY <2>1, <2>2, <2>5
<1>3. QED BY <1>1, <1>2 DEF Left

-----------------------------------------------------------------------------
(* The actions, one by one.                                                  *)

LEMMA StreamSends == ASSUME StreamInv, NEW c \in Sent, Send(c) PROVE StreamInv'
<1>1. /\ pipe \in Seq(Sent) /\ stream \in Seq(Sent) /\ list \in Seq(Sent)
      /\ parsing \in BOOLEAN /\ desync \in BOOLEAN /\ spoilt \in BOOLEAN /\ wrong \in BOOLEAN
      /\ vsize \in VSizes /\ sized \in VSizes /\ owed \in Seq(Effects)
      /\ listed \in [1 .. 2 -> Listable] /\ short \in BOOLEAN /\ (list # << >> => parsing)
  BY StreamFacts
<1>2. /\ ~parsing /\ pipe' = pipe \o Bytes(c, sized) /\ Len(pipe') < 2 * BurstLen
      /\ sized' = Called(c, sized).size
      /\ owed' = (IF c = Data THEN owed ELSE owed \o Called(c, sized).does)
      /\ spoilt' = (spoilt \/ c = Data)
      /\ UNCHANGED <<stream, list, parsing, desync, vsize, listed, short, wrong>>
  BY DEF Send, Called, memory
<1>3. /\ Bytes(c, sized) \in Seq(Sent) /\ Called(c, sized).does \in Seq(Effects)
      /\ Called(c, sized).size \in VSizes
  BY <1>1, BytesFacts, CalledFacts
<1>4. owed' \in Seq(Effects) /\ pipe' \in Seq(Sent) /\ sized' \in VSizes
  <2>1. owed \o Called(c, sized).does \in Seq(Effects) /\ pipe \o Bytes(c, sized) \in Seq(Sent)
    BY <1>1, <1>3
  <2>2. QED BY <1>1, <1>2, <1>3, <2>1
<1>5. StreamTypeOK'
  <2>1. spoilt' \in BOOLEAN
    BY <1>2, Zenon
  <2>2. /\ stream' \in Seq(Sent) /\ list' \in Seq(Sent) /\ vsize' \in VSizes
        /\ parsing' \in BOOLEAN /\ desync' \in BOOLEAN /\ wrong' \in BOOLEAN
    BY <1>1, <1>2
  <2>3. QED BY <1>2, <1>4, <2>1, <2>2, Zenon DEF StreamTypeOK
<1>6. listed' \in [1 .. 2 -> Listable] /\ short' \in BOOLEAN /\ list' = << >> /\ list = << >>
  BY <1>1, <1>2
<1>7. ASSUME ~spoilt'
      PROVE  /\ ~wrong' /\ ~desync'
             /\ \E k \in Nat : \E r \in [1 .. k + 1 -> Stage], cs \in [1 .. k -> Listable] :
                   OnItsWay(k, r, cs)'
  <2>1. ~spoilt /\ c # Data
    BY <1>2, <1>7
  <2>2. ~wrong /\ ~desync /\ c \in Listable
    BY <2>1, CommandOps DEF StreamInv
  <2>0. PICK k \in Nat : \E r, cs : OnItsWay(k, r, cs)
    BY <2>1 DEF StreamInv
  <2>3. PICK r, cs : OnItsWay(k, r, cs)
    BY <2>0
  <2>4. Row(k, r, cs) /\ r[1].bytes = stream \o pipe /\ Left(list, vsize, owed, r[1].owes, r[1].size)
    BY <2>3 DEF OnItsWay
  <2>5. owed = r[1].owes /\ r[1].size = vsize
    BY <1>1, <1>6, <2>4, Ended
  <2>6. PICK bytes, does, size :
          bytes = Bytes(c, sized) /\ does = Called(c, sized).does /\ size = Called(c, sized).size
    OBVIOUS
  <2>. DEFINE x == RowWith(r, k, bytes, does, size)
              ds == With(cs, k, c)
  <2>7. Row(k + 1, x, ds)' /\ x[1] = More(r[1], bytes, does) /\ r[1] \in Stage
    <3>1. sized' = size /\ UNCHANGED <<listed, short>>
      BY <1>2, <2>6
    <3>2. /\ listed \in [1 .. 2 -> Listable] /\ short \in BOOLEAN /\ sized \in VSizes
          /\ Row(k, r, cs)
      BY <1>1, <2>4
    <3>3. Row(k + 1, RowWith(r, k, bytes, does, size), With(cs, k, c))'
      BY <2>2, <2>6, <3>1, <3>2, RowGrows, SMTT(40)
    <3>4. QED BY <2>2, <2>6, <3>1, <3>2, <3>3, RowGrows
  <2>. HIDE DEF x, ds
  <2>8. /\ x[1].bytes = (stream \o pipe) \o bytes /\ x[1].owes = owed \o does /\ x[1].size = vsize
    <3>. DEFINE v == r[1]
                w == More(v, bytes, does)
    <3>1. v \in Stage /\ bytes \in Seq(Sent) /\ does \in Seq(Effects)
      BY <1>3, <2>6, <2>7
    <3>2. w.bytes = v.bytes \o bytes /\ w.owes = v.owes \o does /\ w.size = v.size
      BY <3>1, MoreFacts
    <3>3. x[1] = w /\ v.bytes = stream \o pipe /\ v.owes = owed /\ v.size = vsize
      BY <2>4, <2>5, <2>7
    <3>. HIDE DEF v, w
    <3>4. QED BY <3>2, <3>3
  <2>9. x[1].bytes = stream' \o pipe'
    <3>1. (stream \o pipe) \o bytes = stream \o (pipe \o bytes)
      BY <1>1, <1>3, <2>6, Associative, Zenon
    <3>2. QED BY <1>2, <2>6, <2>8, <3>1
  <2>10. owed' = x[1].owes /\ vsize' = x[1].size
    BY <1>2, <2>1, <2>6, <2>8
  <2>11. Left(list', vsize', owed', x[1].owes, x[1].size)
    BY <1>6, <2>10 DEF Left
  <2>12. OnItsWay(k + 1, x, ds)'
    BY <2>7, <2>9, <2>11 DEF OnItsWay
  <2>13. k + 1 \in Nat /\ x \in [1 .. (k + 1) + 1 -> Stage] /\ ds \in [1 .. k + 1 -> Listable]
    BY <2>7 DEF Row
  <2>14. QED BY <1>2, <2>2, <2>12, <2>13
<1>8. QED BY <1>4, <1>5, <1>6, <1>7 DEF StreamInv

LEMMA BurstFed == ASSUME StreamInv, feed PROVE StreamInv'
<1>1. /\ pipe \in Seq(Sent) /\ stream \in Seq(Sent) /\ list \in Seq(Sent) /\ Len(pipe) < 2 * BurstLen
      /\ parsing \in BOOLEAN /\ desync \in BOOLEAN /\ spoilt \in BOOLEAN /\ wrong \in BOOLEAN
      /\ vsize \in VSizes /\ sized \in VSizes /\ owed \in Seq(Effects)
      /\ listed \in [1 .. 2 -> Listable] /\ short \in BOOLEAN /\ BurstLen \in Nat \ {0}
      /\ (list # << >> => parsing)
  BY StreamFacts
<1>. DEFINE m == SubSeq(pipe, 1, BurstLen)
            n == SubSeq(pipe, BurstLen + 1, Len(pipe))
<1>2. /\ ~parsing /\ Len(pipe) >= BurstLen /\ pipe' = n
      /\ (IF desync THEN UNCHANGED <<stream, parsing>> ELSE stream' = stream \o m /\ parsing' = TRUE)
      /\ UNCHANGED <<list, desync, vsize, listed, short, sized, owed, spoilt, wrong>>
  BY DEF feed, memory, history
<1>3. m \in Seq(Sent) /\ n \in Seq(Sent) /\ Len(n) = Len(pipe) - BurstLen /\ m \o n = pipe
  <2>1. 1 \in 1 .. Len(pipe) + 1 /\ BurstLen \in 1 - 1 .. Len(pipe) /\ Len(pipe) \in BurstLen .. Len(pipe)
        /\ Len(pipe) \in Nat
    BY <1>1, <1>2
  <2>2. \A i \in 1 .. Len(pipe) : pipe[i] \in Sent
    BY <1>1
  <2>3. m \in Seq(Sent)
    <3>1. \A i \in 1 .. BurstLen : pipe[i] \in Sent
      BY <1>1, <1>2, <2>2
    <3>2. QED BY <1>1, <3>1, SubSeqProperties
  <2>4. n \in Seq(Sent) /\ Len(n) = Len(pipe) - BurstLen
    <3>. DEFINE a == BurstLen + 1
                z == Len(pipe)
    <3>1. a \in Int /\ z \in Int /\ \A i \in a .. z : pipe[i] \in Sent
      BY <1>1, <2>2
    <3>2. Len(pipe) - BurstLen = IF a <= z THEN z - a + 1 ELSE 0
      BY <1>1, <1>2
    <3>. HIDE DEF a, z
    <3>3. SubSeq(pipe, a, z) \in Seq(Sent) /\ Len(SubSeq(pipe, a, z)) = IF a <= z THEN z - a + 1 ELSE 0
      BY <3>1, SubSeqProperties
    <3>4. QED BY <3>2, <3>3 DEF a, z
  <2>5. m \o n = SubSeq(pipe, 1, Len(pipe))
    BY <1>1, <2>1, ConcatAdjacentSubSeq
  <2>6. SubSeq(pipe, 1, Len(pipe)) = pipe
    BY <1>1, SubSeqFull
  <2>7. QED BY <2>3, <2>4, <2>5, <2>6
<1>. HIDE DEF m, n
<1>4. pipe' \in Seq(Sent) /\ Len(pipe') < 2 * BurstLen
  BY <1>1, <1>2, <1>3
<1>5. stream' \in Seq(Sent) /\ parsing' \in BOOLEAN
  <2>1. stream \o m \in Seq(Sent)
    BY <1>1, <1>3
  <2>2. (stream' = stream /\ parsing' = parsing) \/ (stream' = stream \o m /\ parsing' = TRUE)
    BY <1>2
  <2>3. QED BY <1>1, <2>1, <2>2, Zenon
<1>6. StreamTypeOK'
  <2>1. /\ list' \in Seq(Sent) /\ vsize' \in VSizes /\ sized' \in VSizes
        /\ desync' \in BOOLEAN /\ wrong' \in BOOLEAN /\ spoilt' \in BOOLEAN
    BY <1>1, <1>2
  <2>2. QED BY <1>4, <1>5, <2>1, Zenon DEF StreamTypeOK
<1>7. /\ owed' \in Seq(Effects) /\ listed' \in [1 .. 2 -> Listable] /\ short' \in BOOLEAN
      /\ list' = << >>
  BY <1>1, <1>2
<1>8. ASSUME ~spoilt'
      PROVE  /\ ~wrong' /\ ~desync'
             /\ \E k \in Nat : \E r \in [1 .. k + 1 -> Stage], cs \in [1 .. k -> Listable] :
                   OnItsWay(k, r, cs)'
  <2>1. ~spoilt /\ ~wrong /\ ~desync
    BY <1>2, <1>8 DEF StreamInv
  <2>0. PICK k \in Nat : \E r, cs : OnItsWay(k, r, cs)
    BY <2>1 DEF StreamInv
  <2>2. PICK r, cs : OnItsWay(k, r, cs)
    BY <2>0
  <2>3. Row(k, r, cs) /\ r[1].bytes = stream \o pipe /\ Left(list, vsize, owed, r[1].owes, r[1].size)
    BY <2>2 DEF OnItsWay
  <2>4. stream' \o pipe' = stream \o pipe
    <3>1. (stream \o m) \o n = stream \o (m \o n)
      <4>1. stream \in Seq(Sent) /\ m \in Seq(Sent) /\ n \in Seq(Sent)
        BY <1>1, <1>3
      <4>2. QED BY <4>1, Associative, Zenon
    <3>2. QED BY <1>2, <1>3, <2>1, <3>1
  <2>5. Row(k, r, cs)'
    BY <1>2, <2>3, RowStays
  <2>6. OnItsWay(k, r, cs)'
    BY <1>2, <2>3, <2>4, <2>5 DEF OnItsWay
  <2>7. r \in [1 .. k + 1 -> Stage] /\ cs \in [1 .. k -> Listable]
    BY <2>3 DEF Row
  <2>8. QED BY <1>2, <2>1, <2>6, <2>7
<1>9. QED BY <1>6, <1>7, <1>8 DEF StreamInv

LEMMA FeedEnds == ASSUME StreamInv, feed_ends PROVE StreamInv'
<1>1. /\ list = << >> /\ parsing' = FALSE
      /\ UNCHANGED <<pipe, stream, list, desync, vsize, listed, short, sized, owed, spoilt, wrong>>
  BY DEF feed_ends, memory, history
<1>2. StreamTypeOK'
  <2>1. /\ pipe \in Seq(Sent) /\ stream \in Seq(Sent) /\ list \in Seq(Sent) /\ Len(pipe) < 2 * BurstLen
        /\ desync \in BOOLEAN /\ spoilt \in BOOLEAN /\ wrong \in BOOLEAN
        /\ vsize \in VSizes /\ sized \in VSizes
    BY StreamFacts
  <2>2. /\ pipe' \in Seq(Sent) /\ stream' \in Seq(Sent) /\ list' \in Seq(Sent)
        /\ Len(pipe') < 2 * BurstLen
        /\ desync' \in BOOLEAN /\ spoilt' \in BOOLEAN /\ wrong' \in BOOLEAN /\ parsing' \in BOOLEAN
        /\ vsize' \in VSizes /\ sized' \in VSizes
    BY <1>1, <2>1
  <2>3. QED BY <2>2, Zenon DEF StreamTypeOK
<1>3. /\ owed' \in Seq(Effects) /\ listed' \in [1 .. 2 -> Listable] /\ short' \in BOOLEAN
      /\ list' = << >>
  BY <1>1 DEF StreamInv
<1>4. ASSUME ~spoilt'
      PROVE  /\ ~wrong' /\ ~desync'
             /\ \E k \in Nat : \E r \in [1 .. k + 1 -> Stage], cs \in [1 .. k -> Listable] :
                   OnItsWay(k, r, cs)'
  <2>1. ~spoilt /\ ~wrong /\ ~desync
    BY <1>1, <1>4 DEF StreamInv
  <2>0. PICK k \in Nat : \E r, cs : OnItsWay(k, r, cs)
    BY <2>1 DEF StreamInv
  <2>2. PICK r, cs : OnItsWay(k, r, cs)
    BY <2>0
  <2>3. Row(k, r, cs) /\ r[1].bytes = stream \o pipe /\ Left(list, vsize, owed, r[1].owes, r[1].size)
    BY <2>2 DEF OnItsWay
  <2>4. Row(k, r, cs)'
    BY <1>1, <2>3, RowStays
  <2>5. OnItsWay(k, r, cs)'
    BY <1>1, <2>3, <2>4 DEF OnItsWay
  <2>6. r \in [1 .. k + 1 -> Stage] /\ cs \in [1 .. k -> Listable]
    BY <2>3 DEF Row
  <2>7. QED BY <1>1, <2>1, <2>5, <2>6
<1>5. QED BY <1>2, <1>3, <1>4 DEF StreamInv

LEMMA ListDropped == ASSUME StreamInv, ListEnds PROVE StreamInv'
<1>1. /\ list # << >> /\ ~Whole(list) /\ list' = << >>
      /\ UNCHANGED <<pipe, stream, parsing, desync, vsize, listed, short, sized, owed, spoilt, wrong>>
  BY DEF ListEnds, memory, history
<1>2. StreamTypeOK'
  <2>1. /\ pipe \in Seq(Sent) /\ stream \in Seq(Sent) /\ Len(pipe) < 2 * BurstLen
        /\ parsing \in BOOLEAN /\ desync \in BOOLEAN /\ spoilt \in BOOLEAN /\ wrong \in BOOLEAN
        /\ vsize \in VSizes /\ sized \in VSizes
    BY StreamFacts
  <2>2. /\ pipe' \in Seq(Sent) /\ stream' \in Seq(Sent) /\ list' \in Seq(Sent)
        /\ Len(pipe') < 2 * BurstLen
        /\ desync' \in BOOLEAN /\ spoilt' \in BOOLEAN /\ wrong' \in BOOLEAN /\ parsing' \in BOOLEAN
        /\ vsize' \in VSizes /\ sized' \in VSizes
    BY <1>1, <2>1
  <2>3. QED BY <2>2, Zenon DEF StreamTypeOK
<1>3. owed' \in Seq(Effects) /\ listed' \in [1 .. 2 -> Listable] /\ short' \in BOOLEAN
  BY <1>1 DEF StreamInv
<1>4. ASSUME ~spoilt'
      PROVE  /\ ~wrong' /\ ~desync'
             /\ \E k \in Nat : \E r \in [1 .. k + 1 -> Stage], cs \in [1 .. k -> Listable] :
                   OnItsWay(k, r, cs)'
  <2>1. ~spoilt /\ ~wrong /\ ~desync
    BY <1>1, <1>4 DEF StreamInv
  <2>0. PICK k \in Nat : \E r, cs : OnItsWay(k, r, cs)
    BY <2>1 DEF StreamInv
  <2>2. PICK r, cs : OnItsWay(k, r, cs)
    BY <2>0
  <2>3. Row(k, r, cs) /\ r[1].bytes = stream \o pipe /\ Left(list, vsize, owed, r[1].owes, r[1].size)
    BY <2>2 DEF OnItsWay
  <2>4. Row(k, r, cs)'
    BY <1>1, <2>3, RowStays
  <2>5. owed = r[1].owes /\ r[1].size = vsize
    BY <1>1, <2>3, NoneLeft
  <2>6. Left(list', vsize', owed', r[1].owes, r[1].size)
    BY <1>1, <2>5 DEF Left
  <2>7. OnItsWay(k, r, cs)'
    BY <1>1, <2>3, <2>4, <2>6 DEF OnItsWay
  <2>8. r \in [1 .. k + 1 -> Stage] /\ cs \in [1 .. k -> Listable]
    BY <2>3 DEF Row
  <2>9. QED BY <1>1, <2>1, <2>7, <2>8
<1>5. QED BY <1>1, <1>2, <1>3, <1>4 DEF StreamInv

\* Whatever is executed, the types stay.
LEMMA ExecuteTypes ==
  ASSUME StreamInv, NEW c \in Sent, Execute(c)
  PROVE  /\ owed' \in Seq(Effects) /\ vsize' \in VSizes /\ desync' \in BOOLEAN /\ wrong' \in BOOLEAN
         /\ UNCHANGED <<pipe, parsing, listed, short, sized, spoilt>>
<1>1. /\ vsize \in VSizes /\ owed \in Seq(Effects) /\ desync \in BOOLEAN /\ wrong \in BOOLEAN
  BY StreamFacts
<1>2. /\ vsize' = Loaded(c, vsize) /\ desync' = (desync \/ c.op = "data")
      /\ UNCHANGED <<pipe, parsing, listed, short, sized, spoilt>>
  BY DEF Execute, memory
<1>3. vsize' \in VSizes
  BY <1>1, <1>2, BytesFacts
<1>4. desync' \in BOOLEAN
  BY <1>1, <1>2, Zenon
<1>5. CASE c.op \in {"nop", "data", "list"}
  BY <1>1, <1>2, <1>3, <1>4, <1>5 DEF Execute
<1>6. CASE ~(c.op \in {"nop", "data", "list"}) /\ owed # << >> /\ Head(owed) = Effect(c, vsize)
  <2>1. owed' = Tail(owed) /\ wrong' = wrong
    BY <1>6 DEF Execute
  <2>2. Tail(owed) \in Seq(Effects)
    BY <1>1, <1>6
  <2>3. QED BY <1>1, <1>2, <1>3, <1>4, <2>1, <2>2
<1>7. CASE ~(c.op \in {"nop", "data", "list"}) /\ ~(owed # << >> /\ Head(owed) = Effect(c, vsize))
  <2>1. owed' = owed /\ wrong' = TRUE
    BY <1>7 DEF Execute
  <2>2. QED BY <1>1, <1>2, <1>3, <1>4, <2>1
<1>8. QED BY <1>5, <1>6, <1>7

\* The head and the rest of what is whole.
LEMMA WholeTypes ==
  ASSUME vsize \in VSizes, NEW w \in Seq(Sent), Whole(w)
  PROVE  Head(w) \in Sent /\ After1(w) \in Seq(Sent)
<1>1. w # << >> /\ Head(w) \in Sent
  BY DEF Whole
<1>2. CASE Head(w).op = "data"
  BY <1>1, <1>2 DEF After1
<1>3. CASE Head(w).op # "data"
  <2>. DEFINE a == length(Head(w), vsize) + 1
              z == Len(w)
  <2>1. a \in Int /\ a >= 1 /\ z \in Nat
    BY <1>1, BytesFacts
  <2>2. \A i \in a .. z : w[i] \in Sent
    <3>. HIDE DEF a
    <3>1. \A i \in a .. z : i \in 1 .. Len(w)
      BY <2>1
    <3>2. QED BY <3>1
  <2>3. SubSeq(w, a, z) \in Seq(Sent)
    <3>. HIDE DEF a, z
    <3>1. QED BY <2>1, <2>2, SubSeqProperties
  <2>4. After1(w) = SubSeq(w, a, z)
    BY <1>3 DEF After1
  <2>. HIDE DEF a, z
  <2>5. QED BY <1>1, <2>3, <2>4
<1>4. QED BY <1>2, <1>3

LEMMA ListParsed == ASSUME StreamInv, ParseList PROVE StreamInv'
<1>1. list # << >> /\ Whole(list) /\ Execute(Head(list)) /\ list' = After1(list) /\ stream' = stream
  BY DEF ParseList
<1>2. /\ pipe \in Seq(Sent) /\ stream \in Seq(Sent) /\ list \in Seq(Sent) /\ Len(pipe) < 2 * BurstLen
      /\ parsing = TRUE /\ desync \in BOOLEAN /\ spoilt \in BOOLEAN
      /\ vsize \in VSizes /\ sized \in VSizes
      /\ listed \in [1 .. 2 -> Listable] /\ short \in BOOLEAN
  BY <1>1, StreamFacts
<1>3. Head(list) \in Sent /\ list' \in Seq(Sent)
  BY <1>1, <1>2, WholeTypes
<1>4. /\ owed' \in Seq(Effects) /\ vsize' \in VSizes /\ desync' \in BOOLEAN /\ wrong' \in BOOLEAN
      /\ UNCHANGED <<pipe, parsing, listed, short, sized, spoilt>>
  BY <1>1, <1>3, ExecuteTypes
<1>5. StreamTypeOK'
  <2>1. /\ pipe' \in Seq(Sent) /\ stream' \in Seq(Sent) /\ Len(pipe') < 2 * BurstLen
        /\ parsing' \in BOOLEAN /\ spoilt' \in BOOLEAN /\ sized' \in VSizes
    BY <1>1, <1>2, <1>4
  <2>2. QED BY <1>3, <1>4, <2>1, Zenon DEF StreamTypeOK
<1>6. listed' \in [1 .. 2 -> Listable] /\ short' \in BOOLEAN /\ parsing'
  BY <1>2, <1>4
<1>7. ASSUME ~spoilt'
      PROVE  /\ ~wrong' /\ ~desync'
             /\ \E k \in Nat : \E r \in [1 .. k + 1 -> Stage], cs \in [1 .. k -> Listable] :
                   OnItsWay(k, r, cs)'
  <2>1. ~spoilt /\ ~wrong /\ ~desync
    BY <1>4, <1>7 DEF StreamInv
  <2>0. PICK k \in Nat : \E r, cs : OnItsWay(k, r, cs)
    BY <2>1 DEF StreamInv
  <2>2. PICK r, cs : OnItsWay(k, r, cs)
    BY <2>0
  <2>3. Row(k, r, cs) /\ r[1].bytes = stream \o pipe /\ Left(list, vsize, owed, r[1].owes, r[1].size)
    BY <2>2 DEF OnItsWay
  <2>. DEFINE after == r[1].owes
              end == r[1].size
  <2>4. after \in Seq(Effects)
    <3>1. r \in [1 .. k + 1 -> Stage] /\ 1 \in 1 .. k + 1
      BY <2>3 DEF Row
    <3>2. r[1] \in Stage
      BY <3>1
    <3>3. QED BY <3>2 DEF Stage
  <2>5. Left(list, vsize, owed, after, end)
    BY <2>3
  <2>. HIDE DEF after, end
  <2>6. Left(list', vsize', owed', after, end) /\ wrong' = wrong /\ desync' = desync
    <3>1. ASSUME NEW c \in Listable, LastLeft(c, list, vsize, owed, after, end)
          PROVE  Left(list', vsize', owed', after, end) /\ wrong' = wrong /\ desync' = desync
      <4>1. list = Bytes(c, vsize) /\ owed = Doing(c, vsize) \o after /\ end = Loaded(c, vsize)
        BY <1>1, <1>2, <3>1, LastWhole DEF LastLeft
      <4>2. Head(list) = c /\ list' = << >>
        BY <1>1, <1>2, <4>1, LastWhole
      <4>3. owed' = after /\ wrong' = wrong /\ desync' = desync /\ vsize' = Loaded(c, vsize)
        BY <1>1, <1>2, <2>4, <4>1, <4>2, ExecuteFirst
      <4>4. QED BY <4>1, <4>2, <4>3 DEF Left
    <3>2. ASSUME NEW c \in Listable, NEW d \in Listable, NEW m \in Seq(Sent), NEW q \in Seq(Effects),
                 list = Bytes(c, vsize) \o m, owed = Doing(c, vsize) \o q,
                 LastLeft(d, m, Loaded(c, vsize), q, after, end)
          PROVE  Left(list', vsize', owed', after, end) /\ wrong' = wrong /\ desync' = desync
      <4>1. c \in Sent /\ c.op # "data" /\ << >> \in Seq(Sent)
        BY CommandOps
      <4>2. Ahead(c, list, << >>, m)
        BY <1>2, <3>2, ConcatEmptySeq DEF Ahead
      <4>3. Head(list) = c /\ list' \o << >> = m
        <5>1. vsize \in VSizes /\ list \in Seq(Sent) /\ Whole(list)
          BY <1>1, <1>2
        <5>2. Head(list) = c /\ After1(list) \o << >> = m
          BY <3>2, <4>1, <4>2, <5>1, FirstOff
        <5>3. QED BY <1>1, <5>2
      <4>4. list' = m
        BY <1>3, <4>3, ConcatEmptySeq
      <4>5. owed' = q /\ wrong' = wrong /\ desync' = desync /\ vsize' = Loaded(c, vsize)
        BY <1>1, <1>2, <3>2, <4>3, ExecuteFirst
      <4>6. LastLeft(d, list', vsize', owed', after, end)
        BY <3>2, <4>4, <4>5
      <4>7. QED BY <4>5, <4>6 DEF Left
    <3>3. QED BY <1>1, <2>5, <3>1, <3>2 DEF Left
  <2>7. Row(k, r, cs)'
    BY <1>4, <2>3, RowStays
  <2>8. stream' \o pipe' = stream \o pipe
    BY <1>1, <1>4
  <2>9. OnItsWay(k, r, cs)'
    BY <2>3, <2>6, <2>7, <2>8 DEF OnItsWay, after, end
  <2>10. r \in [1 .. k + 1 -> Stage] /\ cs \in [1 .. k -> Listable]
    BY <2>3 DEF Row
  <2>11. QED BY <2>1, <2>6, <2>9, <2>10
<1>8. QED BY <1>4, <1>5, <1>6, <1>7 DEF StreamInv

LEMMA StreamParsed == ASSUME StreamInv, ParseStream PROVE StreamInv'
<1>. DEFINE b == Head(stream)
<1>1. /\ parsing /\ list = << >> /\ Whole(stream) /\ Execute(b) /\ stream' = After1(stream)
      /\ list' = IF b = CallList THEN ListBytes ELSE << >>
  BY DEF ParseStream
<1>2. /\ pipe \in Seq(Sent) /\ stream \in Seq(Sent) /\ list \in Seq(Sent) /\ Len(pipe) < 2 * BurstLen
      /\ parsing \in BOOLEAN /\ desync \in BOOLEAN /\ spoilt \in BOOLEAN
      /\ vsize \in VSizes /\ sized \in VSizes /\ owed \in Seq(Effects)
      /\ listed \in [1 .. 2 -> Listable] /\ short \in BOOLEAN
  BY <1>1, StreamFacts
<1>3. b \in Sent /\ stream' \in Seq(Sent)
  BY <1>1, <1>2, WholeTypes
<1>. HIDE DEF b
<1>4. /\ owed' \in Seq(Effects) /\ vsize' \in VSizes /\ desync' \in BOOLEAN /\ wrong' \in BOOLEAN
      /\ UNCHANGED <<pipe, parsing, listed, short, sized, spoilt>>
  BY <1>1, <1>3, ExecuteTypes
<1>. DEFINE c1 == listed[1]
            c2 == listed[2]
            then == Loaded(c1, vsize)
            m == IF short THEN Front(Bytes(c2, then)) ELSE Bytes(c2, then)
            q == IF short THEN << >> ELSE Doing(c2, then)
<1>5. /\ then \in VSizes /\ m \in Seq(Sent) /\ q \in Seq(Effects)
      /\ Called(CallList, vsize).does = Doing(c1, vsize) \o q
      /\ Called(CallList, vsize).size = IF short THEN then ELSE Loaded(c2, then)
      /\ ListBytes = Bytes(c1, vsize) \o m
      /\ c1 \in Listable /\ c2 \in Listable
  BY <1>2, ListFacts
<1>6. /\ Bytes(c1, vsize) \in Seq(Sent) /\ Doing(c1, vsize) \in Seq(Effects)
  BY <1>2, <1>5, CommandOps, BytesFacts
<1>7. list' \in Seq(Sent)
  <2>1. Bytes(c1, vsize) \o m \in Seq(Sent) /\ << >> \in Seq(Sent)
    BY <1>5, <1>6
  <2>2. list' = ListBytes \/ list' = << >>
    BY <1>1
  <2>3. QED BY <1>5, <2>1, <2>2
<1>8. StreamTypeOK'
  <2>1. /\ pipe' \in Seq(Sent) /\ Len(pipe') < 2 * BurstLen
        /\ parsing' \in BOOLEAN /\ spoilt' \in BOOLEAN /\ sized' \in VSizes
    BY <1>2, <1>4
  <2>2. QED BY <1>3, <1>4, <1>7, <2>1, Zenon DEF StreamTypeOK
<1>9. listed' \in [1 .. 2 -> Listable] /\ short' \in BOOLEAN /\ parsing'
  BY <1>1, <1>2, <1>4
<1>10. ASSUME ~spoilt'
       PROVE  /\ ~wrong' /\ ~desync'
              /\ \E k \in Nat : \E r \in [1 .. k + 1 -> Stage], cs \in [1 .. k -> Listable] :
                    OnItsWay(k, r, cs)'
  <2>1. ~spoilt /\ ~wrong /\ ~desync
    BY <1>4, <1>10 DEF StreamInv
  <2>0. PICK k \in Nat : \E r, cs : OnItsWay(k, r, cs)
    BY <2>1 DEF StreamInv
  <2>2. PICK r, cs : OnItsWay(k, r, cs)
    BY <2>0
  <2>3. Row(k, r, cs) /\ r[1].bytes = stream \o pipe /\ Left(list, vsize, owed, r[1].owes, r[1].size)
    BY <2>2 DEF OnItsWay
  <2>4. owed = r[1].owes /\ r[1].size = vsize
    BY <1>1, <1>2, <2>3, Ended
  <2>5. k \in Nat \ {0}
    <3>1. stream # << >> /\ Len(stream) \in Nat \ {0} /\ Len(pipe) \in Nat
      BY <1>1, <1>2, EmptySeq DEF Whole
    <3>2. Len(stream \o pipe) = Len(stream) + Len(pipe)
      BY <1>2
    <3>3. stream \o pipe # << >>
      BY <3>1, <3>2
    <3>4. k = 0 => r[1] = AllSent(sized)
      BY <2>3 DEF Row
    <3>5. k = 0 => r[1].bytes = << >>
      BY <3>4 DEF AllSent
    <3>6. QED BY <2>3, <3>3, <3>5
  <2>. DEFINE x == Shifted(r, k)
              ds == [i \in 1 .. k - 1 |-> cs[i + 1]]
              after == r[2].owes
              end == r[2].size
              u == r[2].bytes
              c == cs[1]
  <2>6. /\ Row(k - 1, x, ds) /\ x[1] = r[2] /\ Follows(r[1], c, r[2])
        /\ r[2] \in Stage /\ c \in Listable
    BY <2>3, <2>5, RowTail
  <2>7. /\ after \in Seq(Effects) /\ end \in VSizes /\ u \in Seq(Sent)
    BY <2>6 DEF Stage
  <2>8. /\ stream \o pipe = Bytes(c, vsize) \o u /\ owed = Called(c, vsize).does \o after
        /\ end = Called(c, vsize).size
    BY <2>3, <2>4, <2>6 DEF Follows
  <2>9. x[1].bytes = u /\ x[1].owes = after /\ x[1].size = end
    BY <2>6
  <2>. HIDE DEF x, ds, after, end, u, c
  <2>10. c \in Sent /\ c.op # "data"
    BY <2>6, CommandOps
  <2>11. b = c /\ stream' \o pipe' = u
    <3>1. Head(stream) = c /\ After1(stream) \o pipe = u
      <4>1. /\ vsize \in VSizes /\ stream \in Seq(Sent) /\ pipe \in Seq(Sent) /\ Whole(stream)
            /\ Ahead(c, stream, pipe, u)
        BY <1>1, <1>2, <2>8 DEF Ahead
      <4>2. QED BY <2>7, <2>10, <4>1, FirstOff
    <3>2. QED BY <1>1, <1>4, <3>1 DEF b
  <2>12. Left(list', vsize', owed', after, end) /\ wrong' = wrong /\ desync' = desync
    <3>1. CASE c # CallList
      <4>1. Called(c, vsize).does = Doing(c, vsize) /\ Called(c, vsize).size = Loaded(c, vsize)
        BY <1>2, <2>10, <3>1, CalledFacts
      <4>2. owed' = after /\ wrong' = wrong /\ desync' = desync /\ vsize' = Loaded(c, vsize)
        BY <1>1, <1>2, <2>6, <2>7, <2>8, <2>11, <4>1, ExecuteFirst
      <4>3. list' = << >>
        BY <1>1, <2>11, <3>1
      <4>4. QED BY <2>8, <4>1, <4>2, <4>3 DEF Left
    <3>2. CASE c = CallList
      <4>1. Doing(c, vsize) = << >> /\ Loaded(c, vsize) = vsize
        BY <3>2 DEF Doing, Loaded, CallList, Op
      <4>2. owed = Doing(c, vsize) \o owed
        BY <1>2, <4>1, ConcatEmptySeq
      <4>3. owed' = owed /\ wrong' = wrong /\ desync' = desync /\ vsize' = vsize
        BY <1>1, <1>2, <2>6, <2>11, <4>1, <4>2, ExecuteFirst
      <4>4. list' = Bytes(c1, vsize) \o m
        BY <1>1, <1>5, <2>11, <3>2
      <4>5. owed = (Doing(c1, vsize) \o q) \o after /\ end = IF short THEN then ELSE Loaded(c2, then)
        BY <1>5, <2>8, <3>2
      <4>. HIDE DEF c1, then
      <4>6. owed' = Doing(c1, vsize) \o (q \o after)
        <5>. HIDE DEF q
        <5>1. (Doing(c1, vsize) \o q) \o after = Doing(c1, vsize) \o (q \o after)
          BY <1>5, <1>6, <2>7, Associative, Zenon
        <5>2. QED BY <4>3, <4>5, <5>1
      <4>7. LastLeft(c2, m, then, q \o after, after, end)
        <5>1. << >> \o after = after
          BY <2>7, ConcatEmptySeq
        <5>2. CASE short
          BY <4>5, <5>1, <5>2 DEF LastLeft
        <5>3. CASE ~short
          BY <4>5, <5>3 DEF LastLeft
        <5>4. QED BY <5>2, <5>3
      <4>8. q \o after \in Seq(Effects)
        <5>. HIDE DEF q
        <5>1. QED BY <1>5, <2>7
      <4>9. LastLeft(c2, m, Loaded(c1, vsize), q \o after, after, end)
        BY <4>7 DEF then
      <4>10. /\ list' = Bytes(c1, vsize') \o m /\ owed' = Doing(c1, vsize') \o (q \o after)
             /\ LastLeft(c2, m, Loaded(c1, vsize'), q \o after, after, end)
        <5>. HIDE DEF m, q, c2
        <5>1. QED BY <4>3, <4>4, <4>6, <4>9
      <4>. HIDE DEF m, q, c2
      <4>11. QED BY <1>5, <4>3, <4>8, <4>10 DEF Left
    <3>3. QED BY <3>1, <3>2
  <2>13. Row(k - 1, x, ds)'
    BY <1>4, <2>6, RowStays
  <2>14. OnItsWay(k - 1, x, ds)'
    BY <2>9, <2>11, <2>12, <2>13 DEF OnItsWay
  <2>15. k - 1 \in Nat /\ x \in [1 .. (k - 1) + 1 -> Stage] /\ ds \in [1 .. k - 1 -> Listable]
    BY <2>5, <2>6 DEF Row
  <2>16. QED BY <2>1, <2>12, <2>14, <2>15
<1>11. QED BY <1>4, <1>8, <1>9, <1>10 DEF StreamInv

-----------------------------------------------------------------------------
LEMMA StreamStep == StreamInv /\ [StreamNext]_streamVars => StreamInv'
<1>. SUFFICES ASSUME StreamInv, [StreamNext]_streamVars
              PROVE  StreamInv'
  OBVIOUS
<1>1. CASE UNCHANGED streamVars
  <2>1. /\ UNCHANGED <<pipe, stream, list, parsing, desync, vsize, listed, short, sized>>
        /\ UNCHANGED <<owed, spoilt, wrong>>
    BY <1>1 DEF streamVars, memory, history
  <2>2. StreamTypeOK'
    BY <2>1, Zenon DEF StreamInv, StreamTypeOK
  <2>3. \A k, r, cs : OnItsWay(k, r, cs) => OnItsWay(k, r, cs)'
    <3>1. ASSUME NEW k, NEW r, NEW cs, OnItsWay(k, r, cs)
          PROVE  OnItsWay(k, r, cs)'
      <4>1. Row(k, r, cs)
        BY <3>1 DEF OnItsWay
      <4>2. Row(k, r, cs)'
        BY <2>1, <4>1, RowStays
      <4>3. QED BY <2>1, <3>1, <4>2 DEF OnItsWay
    <3>2. QED BY <3>1
  <2>4. ASSUME ~spoilt'
        PROVE  /\ ~wrong' /\ ~desync'
               /\ \E k \in Nat : \E r \in [1 .. k + 1 -> Stage], cs \in [1 .. k -> Listable] :
                     OnItsWay(k, r, cs)'
    BY <2>1, <2>3, <2>4 DEF StreamInv
  <2>5. /\ owed' \in Seq(Effects) /\ listed' \in [1 .. 2 -> Listable] /\ short' \in BOOLEAN
        /\ (list' # << >> => parsing')
    BY <2>1 DEF StreamInv
  <2>6. QED BY <2>2, <2>4, <2>5 DEF StreamInv
<1>2. CASE \E c \in Sent : Send(c)
  BY <1>2, StreamSends
<1>3. CASE feed
  BY <1>3, BurstFed
<1>4. CASE ParseStream
  BY <1>4, StreamParsed
<1>5. CASE ParseList
  BY <1>5, ListParsed
<1>6. CASE ListEnds
  BY <1>6, ListDropped
<1>7. CASE feed_ends
  BY <1>7, FeedEnds
<1>8. QED BY <1>1, <1>2, <1>3, <1>4, <1>5, <1>6, <1>7 DEF StreamNext

\* The strengthening of ParsedAsSent: the bytes on their way are a row of
\* commands, and what is owed is what the list that runs still does, then
\* what each of them does with the format it meets.
THEOREM StreamInvariant == StreamSpec => []StreamInv
<1>1. StreamInit => StreamInv
  BY StreamStart
<1>2. StreamInv /\ [StreamNext]_streamVars => StreamInv'
  BY StreamStep
<1>3. QED BY <1>1, <1>2, PTL DEF StreamSpec

\* Nothing is on its way when no bytes are: each command has one.
LEMMA ParsedFollows == StreamInv => ParsedAsSent
<1>. SUFFICES ASSUME StreamInv
              PROVE  ParsedAsSent
  OBVIOUS
<1>1. StreamTypeOK /\ (spoilt \/ (~wrong /\ ~desync))
  BY DEF StreamInv
<1>2. ASSUME ~spoilt, pipe = << >>, stream = << >>, list = << >>
      PROVE  owed = << >> /\ vsize = sized
  <2>0. PICK k \in Nat : \E r, cs : OnItsWay(k, r, cs)
    BY <1>2 DEF StreamInv
  <2>1. PICK r, cs : OnItsWay(k, r, cs)
    BY <2>0
  <2>2. Row(k, r, cs) /\ r[1].bytes = stream \o pipe /\ Left(list, vsize, owed, r[1].owes, r[1].size)
    BY <2>1 DEF OnItsWay
  <2>3. owed = r[1].owes /\ r[1].size = vsize
    <3>1. vsize \in VSizes
      BY StreamFacts
    <3>2. QED BY <1>2, <2>2, <3>1, Ended
  <2>4. r[1].bytes = << >>
    <3>1. << >> \o << >> = << >>
      OBVIOUS
    <3>2. QED BY <1>2, <2>2, <3>1
  <2>5. k = 0
    <3>. SUFFICES ASSUME k \in Nat \ {0}
                  PROVE  FALSE
      OBVIOUS
    <3>1. Follows(r[1], cs[1], r[2]) /\ r[1] \in Stage /\ r[2] \in Stage /\ cs[1] \in Listable
      BY <2>2, RowTail
    <3>. DEFINE b == Bytes(cs[1], r[1].size)
                u == r[2].bytes
    <3>2. << >> = b \o u
      BY <2>4, <3>1 DEF Follows
    <3>3. b \in Seq(Sent) /\ b # << >> /\ u \in Seq(Sent)
      <4>1. r[1].size \in VSizes /\ u \in Seq(Sent) /\ cs[1] \in Sent
        BY <3>1, CommandOps DEF Stage
      <4>2. QED BY <4>1, BytesFacts
    <3>. HIDE DEF b, u
    <3>4. Len(b) \in Nat \ {0} /\ Len(u) \in Nat
      BY <3>3, EmptySeq
    <3>5. Len(b \o u) = Len(b) + Len(u)
      BY <3>3
    <3>6. Len(b \o u) # 0
      <4>. DEFINE i == Len(b)
                  j == Len(u)
      <4>1. i \in Nat \ {0} /\ j \in Nat /\ Len(b \o u) = i + j
        BY <3>4, <3>5
      <4>. HIDE DEF i, j
      <4>2. QED BY <4>1
    <3>7. Len(<< >>) = 0
      OBVIOUS
    <3>8. QED BY <3>2, <3>6, <3>7
  <2>6. r[1] = AllSent(sized)
    BY <2>2, <2>5 DEF Row
  <2>7. r[1].owes = << >> /\ r[1].size = sized
    BY <2>6 DEF AllSent
  <2>8. QED BY <2>3, <2>7
<1>3. QED BY <1>1, <1>2 DEF ParsedAsSent

\* What feed() cuts out of the gather pipe's bursts and parse() and call_dl()
\* execute is what the guest has sent, in order, each command once, whatever
\* the length of a burst, of vertices, draws and XF loads, and for every
\* display list of two commands, whole or short of a byte.
THEOREM ExecutedAsSent == StreamSpec => []ParsedAsSent
BY StreamInvariant, ParsedFollows, PTL
=============================================================================
