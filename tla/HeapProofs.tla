----------------------------- MODULE HeapProofs -----------------------------
(***************************************************************************)
(* Proofs about the kernel heap.                                           *)
(*                                                                         *)
(* From the bottom up: powers of two and the two maps from sizes to        *)
(* classes; lists and bitmaps; blocks that tile their pools, and the flags *)
(* and tags on them; what each function of tlsf.c does to a heap that is   *)
(* Good; what each call does to one that is Whole; and from there the      *)
(* invariant HeapInv, the properties of Heap and the refinement of Arena.  *)
(*                                                                         *)
(* Within a call blocks are off the lists, or beside a free one: Good(h,   *)
(* ps, L) has the listed blocks L as a parameter, and OnlyNext, OnlyNear   *)
(* and OnlyPrev say where two free blocks may still touch.                 *)
(***************************************************************************)
EXTENDS Heap, NaturalsInduction, WellFoundedInduction, TLAPS

----------------------------------------------------------------------------
(* Powers of two.                                                          *)

\* Every set of numbers that is not empty has a least one.
LEMMA LeastNumber ==
  ASSUME NEW S \in SUBSET Nat, S # {}
  PROVE  \E n \in S : \A m \in S : n <= m
<1>1. \E x \in S : \A y \in S : ~(<<y, x>> \in OpToRel(<, Nat))
  BY NatLessThanWellFounded, WFMin
<1>2. \A x \in S, y \in S : ~(<<y, x>> \in OpToRel(<, Nat)) => x <= y
  BY DEF OpToRel
<1> QED BY <1>1, <1>2

\* The exponents there are.
Exps == 0 .. FlIndexMax + 1

\* The powers of two are defined: each is twice the one before.
LEMMA Pow2Is ==
  /\ Pow2[0] = 1
  /\ \A k \in Exps : k # 0 => Pow2[k] = 2 * Pow2[k - 1]
<1> DEFINE Is(f, n) == f = [k \in 0 .. n |-> IF k = 0 THEN 1 ELSE 2 * f[k - 1]]
           Bad == {n \in Nat : ~\E f : Is(f, n)}
<1>m. FlIndexMax + 1 \in Nat BY HeapAssumption
<1>1. ASSUME Bad # {} PROVE FALSE
  <2>1. PICK n \in Bad : \A m \in Bad : n <= m
    <3>1. Bad \in SUBSET Nat OBVIOUS
    <3> HIDE DEF Bad
    <3> QED BY <1>1, <3>1, LeastNumber
  <2>2. n \in Nat /\ ~\E f : Is(f, n) BY <2>1
  <2>3. CASE n = 0
    <3>1. PICK f : f = [k \in 0 .. n |-> 1] OBVIOUS
    <3>2. Is(f, n) BY <2>3, <3>1
    <3> QED BY <2>2, <3>2
  <2>4. CASE n # 0
    <3>1. n - 1 \in Nat /\ n - 1 \notin Bad
      <4>1. n - 1 \in Nat /\ ~(n <= n - 1) BY <2>2, <2>4
      <4> HIDE DEF Bad
      <4> QED BY <2>1, <4>1
    <3>2. PICK g : Is(g, n - 1) BY <3>1
    <3>3. PICK f : f = [k \in 0 .. n |-> IF k = 0 THEN 1 ELSE 2 * g[k - 1]] OBVIOUS
    <3>4. \A k \in 0 .. n - 1 : f[k] = g[k] BY <2>2, <3>2, <3>3
    <3>5. \A k \in 0 .. n : k # 0 => f[k - 1] = g[k - 1] BY <2>2, <3>4
    <3>6. Is(f, n) BY <3>3, <3>5
    <3> QED BY <2>2, <3>6
  <2> QED BY <2>3, <2>4
<1>2. \E f : Is(f, FlIndexMax + 1) BY <1>1, <1>m
<1>3. Is(Pow2, FlIndexMax + 1) BY <1>2 DEF Pow2
<1> QED BY <1>3, <1>m DEF Exps

\* They are positive numbers.
LEMMA Pow2Type == \A k \in Exps : Pow2[k] \in Nat /\ Pow2[k] >= 1
<1> DEFINE Bad == {k \in Exps : ~(Pow2[k] \in Nat /\ Pow2[k] >= 1)}
<1>m. FlIndexMax + 1 \in Nat BY HeapAssumption
<1>1. ASSUME Bad # {} PROVE FALSE
  <2>1. PICK n \in Bad : \A m \in Bad : n <= m
    <3>1. Bad \in SUBSET Nat BY <1>m DEF Exps
    <3> HIDE DEF Bad
    <3> QED BY <1>1, <3>1, LeastNumber
  <2>2. n # 0 BY <2>1, Pow2Is
  <2>3. n - 1 \in Exps /\ n - 1 \notin Bad BY <2>1, <2>2, <1>m DEF Exps
  <2>4. Pow2[n - 1] \in Nat /\ Pow2[n - 1] >= 1 BY <2>3
  <2>5. Pow2[n] = 2 * Pow2[n - 1] BY <2>1, <2>2, Pow2Is
  <2> QED BY <2>1, <2>4, <2>5
<1> QED BY <1>1

\* Each power is twice the one before, forwards.
LEMMA Pow2Next ==
  ASSUME NEW k \in 0 .. FlIndexMax
  PROVE  k \in Exps /\ k + 1 \in Exps /\ Pow2[k + 1] = 2 * Pow2[k]
<1>1. k + 1 \in Exps /\ k \in Exps /\ k + 1 # 0 BY HeapAssumption DEF Exps
<1>2. k + 1 - 1 = k BY HeapAssumption
<1> QED BY <1>1, <1>2, Pow2Is

\* They grow: a higher power is at least twice a lower one.
LEMMA Pow2Grows ==
  ASSUME NEW j \in Exps, NEW k \in Exps, j < k
  PROVE  2 * Pow2[j] <= Pow2[k]
<1> DEFINE Bad == {n \in Exps : j < n /\ ~(2 * Pow2[j] <= Pow2[n])}
<1>m. FlIndexMax + 1 \in Nat BY HeapAssumption
<1>1. ASSUME Bad # {} PROVE FALSE
  <2>1. PICK n \in Bad : \A m \in Bad : n <= m
    <3>1. Bad \in SUBSET Nat BY <1>m DEF Exps
    <3> HIDE DEF Bad
    <3> QED BY <1>1, <3>1, LeastNumber
  <2>2. n - 1 \in Exps /\ n - 1 \notin Bad /\ n # 0 BY <2>1, <1>m DEF Exps
  <2>3. Pow2[n] = 2 * Pow2[n - 1] BY <2>1, <2>2, Pow2Is
  <2>4. Pow2[n - 1] \in Nat /\ Pow2[j] \in Nat BY <2>2, Pow2Type
  <2>5. j = n - 1 \/ j < n - 1 BY <2>1, <1>m DEF Exps
  <2>6. Pow2[j] <= Pow2[n - 1]
    <3>1. CASE j = n - 1 BY <3>1, <2>4
    <3>2. CASE j < n - 1
      <4>1. 2 * Pow2[j] <= Pow2[n - 1] BY <3>2, <2>2
      <4> QED BY <4>1, <2>4
    <3> QED BY <2>5, <3>1, <3>2
  <2> QED BY <2>1, <2>3, <2>4, <2>6
<1> QED BY <1>1

\* Exponents add up.
LEMMA Pow2Sum ==
  ASSUME NEW j \in Exps, NEW k \in Exps, j + k \in Exps
  PROVE  Pow2[j + k] = Pow2[j] * Pow2[k]
<1> DEFINE Bad == {n \in Exps : j + n \in Exps /\ Pow2[j + n] # Pow2[j] * Pow2[n]}
<1>m. FlIndexMax + 1 \in Nat /\ j \in Nat BY HeapAssumption DEF Exps
<1>1. ASSUME Bad # {} PROVE FALSE
  <2>1. PICK n \in Bad : \A m \in Bad : n <= m
    <3>1. Bad \in SUBSET Nat BY <1>m DEF Exps
    <3> HIDE DEF Bad
    <3> QED BY <1>1, <3>1, LeastNumber
  <2>2. Pow2[j] \in Nat BY Pow2Type
  <2>3. n \in Nat /\ j + n \in Exps BY <2>1, <1>m DEF Exps
  <2>4. n # 0 BY <2>1, <2>2, <1>m, Pow2Is
  <2>5. n - 1 \in Exps /\ j + (n - 1) \in Exps /\ n - 1 \notin Bad
    BY <2>1, <2>3, <2>4, <1>m DEF Exps
  <2>6. PICK x \in Nat : x = Pow2[n - 1] BY <2>5, Pow2Type
  <2>7. Pow2[j + (n - 1)] = Pow2[j] * x BY <2>5, <2>6
  <2>8. Pow2[n] = 2 * x BY <2>1, <2>4, <2>6, Pow2Is
  <2>9. Pow2[j + n] = 2 * Pow2[j + (n - 1)]
    <3>1. j + n # 0 /\ (j + n) - 1 = j + (n - 1) BY <2>3, <2>4, <1>m
    <3> QED BY <2>3, <3>1, Pow2Is
  <2>10. 2 * (Pow2[j] * x) = Pow2[j] * (2 * x) BY <2>2
  <2> QED BY <2>1, <2>7, <2>8, <2>9, <2>10
<1> QED BY <1>1

----------------------------------------------------------------------------
(* Size classes.                                                           *)

\* Division by a positive number.
LEMMA DivIs ==
  ASSUME NEW d \in Nat, d >= 1, NEW x \in Nat
  PROVE  x \div d \in Nat /\ d * (x \div d) <= x /\ x < d * (x \div d) + d
OBVIOUS

\* A quotient lies between the multiples of the divisor.
LEMMA DivBetween ==
  ASSUME NEW d \in Nat, d >= 1, NEW x \in Nat, NEW q \in Nat
  PROVE  /\ d * q <= x => q <= x \div d
         /\ x < d * q => x \div d < q
<1>1. PICK y \in Nat : y = x \div d /\ d * y <= x /\ x < d * y + d BY DivIs
<1>2. ASSUME d * q <= x, y < q PROVE FALSE
  <2>1. PICK e \in Nat : q = y + 1 + e
    <3>1. q - y - 1 \in Nat /\ q = y + 1 + (q - y - 1) BY <1>2
    <3> QED BY <3>1
  <2>2. d * q = d * y + d + d * e BY <2>1
  <2>3. d * e \in Nat /\ d * y \in Nat OBVIOUS
  <2> QED BY <1>1, <1>2, <2>2, <2>3
<1>3. ASSUME x < d * q, y >= q PROVE FALSE
  <2>1. PICK e \in Nat : y = q + e
    <3>1. y - q \in Nat /\ y = q + (y - q) BY <1>3
    <3> QED BY <3>1
  <2>2. d * y = d * q + d * e BY <2>1
  <2>3. d * e \in Nat /\ d * q \in Nat OBVIOUS
  <2> QED BY <1>1, <1>3, <2>2, <2>3
<1> QED BY <1>1, <1>2, <1>3

\* The constants of tlsf.c, its static assertion on ALIGN_SIZE among them.
LEMMA ConstantsIs ==
  /\ AlignSize = 8 /\ SlCount \in Nat /\ SlCount >= 1
  /\ FlShift \in Nat /\ FlShift >= 3 /\ FlShift = SlLog2 + 3
  /\ FlIndexMax \in Nat /\ SlLog2 \in Nat /\ FlShift < FlIndexMax
  /\ FlCount = FlIndexMax - FlShift + 1
  /\ SmallBlockSize = SlCount * 8 /\ SmallBlockSize \div SlCount = 8
  /\ BlockSizeMax \in Nat /\ 2 * SmallBlockSize <= BlockSizeMax
<1>1. /\ FlIndexMax \in Nat /\ SlLog2 \in Nat /\ FlShift = SlLog2 + 3
      /\ FlShift < FlIndexMax
  BY HeapAssumption DEF FlShift, AlignLog2
<1>2. 0 \in Exps /\ 1 \in Exps /\ 2 \in Exps /\ 3 \in Exps
  BY <1>1 DEF Exps
<1>3. Pow2[1] = 2 BY <1>2, Pow2Is
<1>4. Pow2[2] = 4 BY <1>2, <1>3, Pow2Is
<1>5. Pow2[3] = 8 BY <1>2, <1>4, Pow2Is
<1>6. SlLog2 \in Exps /\ FlShift \in Exps /\ FlIndexMax \in Exps
  BY <1>1 DEF Exps
<1>7. SlCount \in Nat /\ SlCount >= 1 BY <1>6, Pow2Type DEF SlCount
<1>8. SmallBlockSize = SlCount * 8
  BY <1>1, <1>2, <1>5, <1>6, Pow2Sum DEF SmallBlockSize, SlCount
<1>9. SmallBlockSize \div SlCount = 8
  <2>1. PICK s \in Nat : s = SlCount /\ s >= 1 BY <1>7
  <2>2. (s * 8) \div s <= 8 /\ 8 <= (s * 8) \div s
    <3>1. s * 8 \in Nat /\ s * 8 < s * 9 BY <2>1
    <3>2. (s * 8) \div s \in Nat BY <2>1, <3>1, DivIs
    <3> QED BY <2>1, <3>1, <3>2, DivBetween
  <2>3. (s * 8) \div s \in Nat BY <2>1, DivIs
  <2> QED BY <1>8, <2>1, <2>2, <2>3
<1>10. BlockSizeMax \in Nat /\ 2 * SmallBlockSize <= BlockSizeMax
  BY <1>1, <1>6, Pow2Grows, Pow2Type DEF SmallBlockSize, BlockSizeMax
<1> QED BY <1>1, <1>5, <1>7, <1>8, <1>9, <1>10 DEF AlignSize, AlignLog2, FlCount, FlShift

\* The sizes tlsf_fls_sizet() is asked about.
Widths == {n \in Nat : n >= 1 /\ n < Pow2[FlIndexMax + 1]}

\* At most one bit is the highest.
LEMMA FlsUnique ==
  ASSUME NEW n \in Nat, NEW j \in 0 .. FlIndexMax, NEW k \in 0 .. FlIndexMax,
         Pow2[j] <= n, n < Pow2[j + 1], Pow2[k] <= n, n < Pow2[k + 1]
  PROVE  j = k
<1> SUFFICES ASSUME NEW i \in 0 .. FlIndexMax, NEW l \in 0 .. FlIndexMax,
                    i < l, n < Pow2[i + 1], Pow2[l] <= n
             PROVE  FALSE
  BY HeapAssumption
<1>1. i \in Exps /\ l \in Exps /\ Pow2[i + 1] = 2 * Pow2[i] BY Pow2Next
<1>2. 2 * Pow2[i] <= Pow2[l] BY <1>1, Pow2Grows
<1>3. Pow2[i] \in Nat /\ Pow2[l] \in Nat BY <1>1, Pow2Type
<1> QED BY <1>1, <1>2, <1>3

\* tlsf_fls_sizet() finds the highest bit.
LEMMA FlsIs ==
  ASSUME NEW n \in Widths
  PROVE  Fls(n) \in 0 .. FlIndexMax /\ Pow2[Fls(n)] <= n /\ n < Pow2[Fls(n) + 1]
<1> DEFINE Above == {k \in 0 .. FlIndexMax : n < Pow2[k + 1]}
<1>m. FlIndexMax \in Nat BY HeapAssumption
<1>1. FlIndexMax \in Above /\ Above \in SUBSET Nat BY <1>m DEF Widths
<1>2. PICK k \in Above : \A j \in Above : k <= j
  <2> HIDE DEF Above
  <2> QED BY <1>1, LeastNumber
<1>3. Pow2[k] <= n
  <2>1. k \in Exps /\ Pow2[k] \in Nat BY <1>2, <1>m, Pow2Type DEF Exps
  <2>2. CASE k = 0 BY <2>2, Pow2Is DEF Widths
  <2>3. CASE k # 0
    <3>1. k - 1 \in 0 .. FlIndexMax /\ k - 1 + 1 = k BY <1>2, <2>3, <1>m
    <3>2. ~(n < Pow2[k - 1 + 1]) BY <1>2, <3>1
    <3> QED BY <2>1, <3>1, <3>2 DEF Widths
  <2> QED BY <2>2, <2>3
<1>4. \E i \in 0 .. FlIndexMax : Pow2[i] <= n /\ n < Pow2[i + 1] BY <1>2, <1>3
<1> QED BY <1>4 DEF Fls

\* It grows with the size.
LEMMA FlsGrows ==
  ASSUME NEW m \in Widths, NEW n \in Widths, m <= n
  PROVE  Fls(m) <= Fls(n)
<1>1. PICK j \in 0 .. FlIndexMax, k \in 0 .. FlIndexMax :
        /\ j = Fls(m) /\ Pow2[j] <= m /\ k = Fls(n) /\ n < Pow2[k + 1]
  BY FlsIs
<1>2. ASSUME k < j PROVE FALSE
  <2>1. k \in Exps /\ j \in Exps /\ Pow2[k + 1] = 2 * Pow2[k] BY Pow2Next
  <2>2. 2 * Pow2[k] <= Pow2[j] BY <1>2, <2>1, Pow2Grows
  <2>3. Pow2[k] \in Nat /\ Pow2[j] \in Nat BY <2>1, Pow2Type
  <2> QED BY <1>1, <2>1, <2>2, <2>3 DEF Widths
<1> QED BY <1>1, <1>2, HeapAssumption

\* A small size is classed by its eights.
LEMMA SmallIs ==
  ASSUME NEW n \in Nat, n < SmallBlockSize
  PROVE  /\ MappingInsert(n) = <<0, n \div 8>>
         /\ n \div 8 \in 0 .. SlCount - 1
<1>1. n < 8 * SlCount BY ConstantsIs
<1>2. n \div 8 \in Nat /\ n \div 8 < SlCount BY <1>1, ConstantsIs
<1> QED BY <1>2, ConstantsIs DEF MappingInsert

\* A large one by its highest bit and the SL_INDEX_COUNT_LOG2 bits after it.
LEMMA LargeIs ==
  ASSUME NEW n \in Widths, n >= SmallBlockSize
  PROVE  \E k \in FlShift .. FlIndexMax, d \in Nat :
           /\ k = Fls(n) /\ k - SlLog2 \in Exps /\ d = Pow2[k - SlLog2] /\ d >= 1
           /\ Pow2[k] = d * SlCount /\ Pow2[k + 1] = 2 * (d * SlCount)
           /\ Pow2[k] <= n /\ n < Pow2[k + 1]
           /\ MappingInsert(n) = <<k - (FlShift - 1), n \div d - SlCount>>
           /\ n \div d \in SlCount .. 2 * SlCount - 1
<1>c. /\ FlShift \in Nat /\ FlIndexMax \in Nat /\ SlLog2 \in Nat /\ FlShift = SlLog2 + 3
      /\ FlShift < FlIndexMax /\ SlCount \in Nat /\ SlCount >= 1
  BY ConstantsIs
<1>1. PICK k \in 0 .. FlIndexMax : k = Fls(n) /\ Pow2[k] <= n /\ n < Pow2[k + 1]
  BY FlsIs
<1>2. k >= FlShift
  <2>1. ASSUME k < FlShift PROVE FALSE
    <3>1. k + 1 \in Exps /\ FlShift \in Exps BY <1>c, <2>1 DEF Exps
    <3>2. Pow2[k + 1] \in Nat /\ Pow2[FlShift] \in Nat BY <3>1, Pow2Type
    <3>3. Pow2[k + 1] <= Pow2[FlShift]
      <4>1. CASE k + 1 = FlShift BY <4>1, <3>2
      <4>2. CASE k + 1 < FlShift BY <4>2, <3>1, <3>2, Pow2Grows
      <4> QED BY <2>1, <4>1, <4>2, <1>c
    <3> QED BY <1>1, <3>2, <3>3 DEF SmallBlockSize, Widths
  <2> QED BY <2>1, <1>c
<1>3. k - SlLog2 \in Exps /\ SlLog2 \in Exps /\ k - SlLog2 + SlLog2 = k /\ k \in Exps
  BY <1>c, <1>2 DEF Exps
<1>4. PICK d \in Nat : d = Pow2[k - SlLog2] /\ d >= 1 BY <1>3, Pow2Type
<1>5. Pow2[k] = d * SlCount BY <1>3, <1>4, Pow2Sum DEF SlCount
<1>6. Pow2[k + 1] = 2 * (d * SlCount) BY <1>5, Pow2Next
<1>7. n \div d \in SlCount .. 2 * SlCount - 1
  <2>1. d * SlCount <= n /\ n < d * (2 * SlCount)
    <3>1. d * (2 * SlCount) = 2 * (d * SlCount) BY <1>c
    <3> QED BY <1>1, <1>5, <1>6, <3>1
  <2>2. n \in Nat BY DEF Widths
  <2>3. n \div d \in Nat BY <2>2, <1>4, DivIs
  <2> QED BY <1>c, <1>4, <2>1, <2>2, <2>3, DivBetween
<1>8. MappingInsert(n) = <<k - (FlShift - 1), n \div d - SlCount>>
  <2>1. ~(n < SmallBlockSize) BY ConstantsIs DEF Widths
  <2> QED BY <2>1, <1>1, <1>4 DEF MappingInsert
<1> QED BY <1>1, <1>2, <1>3, <1>4, <1>5, <1>6, <1>7, <1>8, <1>c

\* Sizes below the largest are widths.
LEMMA BelowMax ==
  ASSUME NEW n \in Nat, n >= 1, n < BlockSizeMax
  PROVE  n \in Widths /\ Fls(n) < FlIndexMax
<1>1. FlIndexMax \in 0 .. FlIndexMax BY HeapAssumption
<1>2. FlIndexMax \in Exps /\ Pow2[FlIndexMax + 1] = 2 * Pow2[FlIndexMax] BY <1>1, Pow2Next
<1>3. Pow2[FlIndexMax] \in Nat BY <1>2, Pow2Type
<1>4. n \in Widths BY <1>2, <1>3 DEF Widths, BlockSizeMax
<1>5. Fls(n) \in 0 .. FlIndexMax /\ Pow2[Fls(n)] <= n BY <1>4, FlsIs
<1>6. Fls(n) # FlIndexMax BY <1>3, <1>5 DEF BlockSizeMax
<1> QED BY <1>4, <1>5, <1>6, HeapAssumption

\* mapping_insert() never indexes past the lists.
LEMMA InClasses ==
  ASSUME NEW n \in Nat, n >= 1, n < BlockSizeMax
  PROVE  MappingInsert(n) \in Classes
<1>c. /\ FlShift \in Nat /\ FlIndexMax \in Nat /\ FlShift >= 3 /\ SlCount \in Nat
      /\ FlShift < FlIndexMax /\ FlCount = FlIndexMax - FlShift + 1 /\ SmallBlockSize \in Nat
  BY ConstantsIs
<1>1. CASE n < SmallBlockSize
  BY <1>1, <1>c, SmallIs DEF Classes
<1>2. CASE n >= SmallBlockSize
  <2>1. n \in Widths /\ Fls(n) < FlIndexMax BY BelowMax
  <2>2. PICK k \in FlShift .. FlIndexMax, x \in SlCount .. 2 * SlCount - 1 :
          k < FlIndexMax /\ MappingInsert(n) = <<k - (FlShift - 1), x - SlCount>>
    BY <1>2, <2>1, LargeIs
  <2>3. k - (FlShift - 1) \in 0 .. FlCount - 1 /\ x - SlCount \in 0 .. SlCount - 1
    BY <1>c, <2>2
  <2> QED BY <2>2, <2>3 DEF Classes
<1> QED BY <1>1, <1>2, <1>c

\* The order in which search_suitable_block() tries the classes.
AtLeast(c, e) == c[1] > e[1] \/ (c[1] = e[1] /\ c[2] >= e[2])

\* What a request is rounded up to.
Unit(n) == IF n >= SmallBlockSize THEN Pow2[Fls(n) - SlLog2] ELSE 1

\* mapping_search() of a large size ends in the size's own row or at the
\* beginning of the next one.
LEMMA SearchLarge ==
  ASSUME NEW n \in Nat, n >= SmallBlockSize, n < BlockSizeMax
  PROVE  \E k \in FlShift .. FlIndexMax - 1, d \in Nat, u \in Nat :
           /\ k = Fls(n) /\ d = Unit(n) /\ d >= 1 /\ u = n + d - 1
           /\ Pow2[k] = d * SlCount /\ Pow2[k + 1] = 2 * (d * SlCount)
           /\ Pow2[k] <= n /\ n < Pow2[k + 1]
           /\ \/ /\ u < Pow2[k + 1]
                 /\ u \div d \in SlCount .. 2 * SlCount - 1
                 /\ MappingSearch(n) = <<k - (FlShift - 1), u \div d - SlCount>>
              \/ /\ u >= Pow2[k + 1] /\ u \div d = 2 * SlCount
                 /\ MappingSearch(n) = <<k + 1 - (FlShift - 1), 0>>
<1>c. /\ FlShift \in Nat /\ FlIndexMax \in Nat /\ FlShift >= 3 /\ SlCount \in Nat
      /\ SlCount >= 1 /\ FlShift < FlIndexMax /\ SlLog2 \in Nat /\ FlShift = SlLog2 + 3
      /\ SmallBlockSize = SlCount * 8 /\ BlockSizeMax \in Nat
  BY ConstantsIs
<1>w. n \in Widths /\ n >= 1 /\ Fls(n) < FlIndexMax BY <1>c, BelowMax
<1>1. PICK k \in FlShift .. FlIndexMax, d \in Nat :
        /\ k = Fls(n) /\ d = Pow2[k - SlLog2] /\ d >= 1 /\ k - SlLog2 \in Exps
        /\ Pow2[k] = d * SlCount /\ Pow2[k + 1] = 2 * (d * SlCount)
        /\ Pow2[k] <= n /\ n < Pow2[k + 1]
  BY <1>w, LargeIs
<1>2. k \in FlShift .. FlIndexMax - 1 BY <1>1, <1>w, <1>c
<1>3. d = Unit(n) BY <1>1, <1>w DEF Unit
<1>4. PICK u \in Nat : u = n + d - 1 BY <1>1
<1>5. MappingSearch(n) = MappingInsert(u) BY <1>1, <1>4 DEF MappingSearch
<1>6. PICK z \in Nat : z = d * SlCount BY <1>1, <1>c
<1>7. d <= z
  <2>1. PICK e \in Nat : SlCount = 1 + e
    <3>1. SlCount - 1 \in Nat /\ SlCount = 1 + (SlCount - 1) BY <1>c
    <3> QED BY <3>1
  <2>2. d * SlCount = d + d * e /\ d * e \in Nat BY <2>1
  <2> QED BY <1>6, <2>2
<1>8. k + 1 \in 0 .. FlIndexMax /\ k \in 0 .. FlIndexMax BY <1>2, <1>c
<1>9. k + 1 \in Exps /\ k + 2 \in Exps /\ Pow2[k + 2] = 4 * z
  <2>1. Pow2[k + 1 + 1] = 2 * Pow2[k + 1] /\ k + 1 + 1 = k + 2 /\ k + 1 + 1 \in Exps /\ k + 1 \in Exps
    BY <1>8, <1>c, Pow2Next
  <2> QED BY <1>1, <1>6, <2>1
<1>10. u \in Widths /\ u >= SmallBlockSize
  <2>1. u < 4 * z BY <1>1, <1>4, <1>6, <1>7
  <2>2. Pow2[k + 2] <= Pow2[FlIndexMax + 1]
    <3>1. FlIndexMax + 1 \in Exps BY <1>c DEF Exps
    <3>2. Pow2[k + 2] \in Nat /\ Pow2[FlIndexMax + 1] \in Nat BY <1>9, <3>1, Pow2Type
    <3>3. CASE k + 2 = FlIndexMax + 1 BY <3>2, <3>3
    <3>4. CASE k + 2 < FlIndexMax + 1 BY <1>9, <3>1, <3>2, <3>4, Pow2Grows
    <3> QED BY <1>2, <1>c, <3>3, <3>4
  <2>3. Pow2[FlIndexMax + 1] \in Nat BY <1>c, Pow2Type DEF Exps
  <2> QED BY <1>1, <1>4, <1>9, <2>1, <2>2, <2>3, <1>c DEF Widths
<1>11. CASE u < Pow2[k + 1]
  <2>1. Fls(u) = k
    <3>1. PICK j \in 0 .. FlIndexMax : j = Fls(u) /\ Pow2[j] <= u /\ u < Pow2[j + 1]
      BY <1>10, FlsIs
    <3>2. Pow2[k] <= u BY <1>1, <1>4, <1>6
    <3> QED BY <1>8, <1>11, <3>1, <3>2, FlsUnique
  <2>2. /\ MappingInsert(u) = <<k - (FlShift - 1), u \div d - SlCount>>
        /\ u \div d \in SlCount .. 2 * SlCount - 1
    BY <1>1, <1>10, <2>1, LargeIs
  <2> QED BY <1>1, <1>2, <1>3, <1>4, <1>5, <1>11, <2>2
<1>12. CASE u >= Pow2[k + 1]
  <2>1. Fls(u) = k + 1
    <3>1. PICK j \in 0 .. FlIndexMax : j = Fls(u) /\ Pow2[j] <= u /\ u < Pow2[j + 1]
      BY <1>10, FlsIs
    <3>2. u < Pow2[k + 1 + 1] /\ k + 1 + 1 = k + 2
      BY <1>1, <1>2, <1>4, <1>6, <1>7, <1>9, <1>c
    <3>3. Pow2[k + 1] <= u BY <1>1, <1>12, <1>6
    <3> QED BY <1>8, <3>1, <3>2, <3>3, FlsUnique
  <2>2. PICK e \in Nat :
          /\ e = Pow2[k + 1 - SlLog2]
          /\ Pow2[k + 1] = e * SlCount /\ e >= 1
          /\ MappingInsert(u) = <<k + 1 - (FlShift - 1), u \div e - SlCount>>
          /\ u \div e \in SlCount .. 2 * SlCount - 1
    <3>1. PICK j \in FlShift .. FlIndexMax, e \in Nat :
            /\ j = Fls(u) /\ e = Pow2[j - SlLog2] /\ e >= 1 /\ Pow2[j] = e * SlCount
            /\ MappingInsert(u) = <<j - (FlShift - 1), u \div e - SlCount>>
            /\ u \div e \in SlCount .. 2 * SlCount - 1
      BY <1>10, LargeIs
    <3>2. j = k + 1 BY <2>1, <3>1
    <3>3. /\ e = Pow2[k + 1 - SlLog2] /\ Pow2[k + 1] = e * SlCount /\ e >= 1
          /\ MappingInsert(u) = <<k + 1 - (FlShift - 1), u \div e - SlCount>>
          /\ u \div e \in SlCount .. 2 * SlCount - 1
      BY <3>1, <3>2, <1>c
    <3> QED BY <3>3
  <2>3. e = 2 * d
    <3>1. k - SlLog2 \in 0 .. FlIndexMax /\ k - SlLog2 + 1 = k + 1 - SlLog2
      BY <1>2, <1>c
    <3> QED BY <1>1, <2>2, <3>1, Pow2Next
  <2>4. u < 2 * z + d BY <1>1, <1>4, <1>6
  <2>5. u \div e = SlCount
    <3>1. e * (SlCount + 1) = 2 * z + 2 * d BY <2>3, <1>6, <1>c
    <3>2. u < e * (SlCount + 1) BY <2>4, <3>1
    <3>3. u \div e < SlCount + 1 BY <3>2, <2>2, <1>c, DivBetween
    <3> QED BY <2>2, <3>3, <1>c
  <2>6. u \div d = 2 * SlCount
    <3>1. d * (2 * SlCount) = 2 * z /\ d * (2 * SlCount + 1) = 2 * z + d
      BY <1>6, <1>c
    <3>2. d * (2 * SlCount) <= u /\ u < d * (2 * SlCount + 1)
      BY <1>1, <1>6, <1>12, <2>4, <3>1
    <3>3. 2 * SlCount \in Nat /\ 2 * SlCount + 1 \in Nat /\ u \div d \in Nat
      BY <1>c, <1>1, DivIs
    <3>4. 2 * SlCount <= u \div d /\ u \div d < 2 * SlCount + 1
      BY <3>2, <3>3, <1>1, DivBetween
    <3> QED BY <3>3, <3>4
  <2>7. MappingInsert(u) = <<k + 1 - (FlShift - 1), 0>> BY <2>2, <2>5, <1>c
  <2> QED BY <1>1, <1>2, <1>3, <1>4, <1>5, <1>12, <2>6, <2>7
<1>13. Pow2[k + 1] \in Nat BY <1>9, Pow2Type
<1> QED BY <1>4, <1>11, <1>12, <1>13

\* What mapping_search() returns is a class, or beyond the last row.
LEMMA SearchType ==
  ASSUME NEW n \in Nat, n >= 1, n < BlockSizeMax
  PROVE  /\ MappingSearch(n) = <<MappingSearch(n)[1], MappingSearch(n)[2]>>
         /\ MappingSearch(n)[1] \in Nat /\ MappingSearch(n)[2] \in 0 .. SlCount - 1
         /\ MappingSearch(n)[1] < FlCount => MappingSearch(n) \in Classes
<1>c. /\ FlShift \in Nat /\ FlIndexMax \in Nat /\ FlShift >= 3 /\ SlCount \in Nat
      /\ SlCount >= 1 /\ FlShift < FlIndexMax /\ SmallBlockSize \in Nat
      /\ FlCount = FlIndexMax - FlShift + 1
  BY ConstantsIs
<1>1. \E f \in Nat, s \in 0 .. SlCount - 1 : MappingSearch(n) = <<f, s>>
  <2>1. CASE n < SmallBlockSize
    <3>1. MappingSearch(n) = MappingInsert(n) BY <2>1, <1>c DEF MappingSearch
    <3> QED BY <2>1, <3>1, SmallIs
  <2>2. CASE n >= SmallBlockSize
    <3>1. PICK k \in FlShift .. FlIndexMax - 1, y \in Int :
            \/ /\ y \in SlCount .. 2 * SlCount - 1
               /\ MappingSearch(n) = <<k - (FlShift - 1), y - SlCount>>
            \/ MappingSearch(n) = <<k + 1 - (FlShift - 1), 0>>
      BY <2>2, SearchLarge
    <3>2. /\ k - (FlShift - 1) \in Nat /\ k + 1 - (FlShift - 1) \in Nat
          /\ 0 \in 0 .. SlCount - 1
          /\ y \in SlCount .. 2 * SlCount - 1 => y - SlCount \in 0 .. SlCount - 1
      BY <1>c
    <3> QED BY <3>1, <3>2
  <2> QED BY <2>1, <2>2, <1>c
<1>2. PICK f \in Nat, s \in 0 .. SlCount - 1 : MappingSearch(n) = <<f, s>> BY <1>1
<1>3. f < FlCount => <<f, s>> \in Classes BY <1>c DEF Classes
<1> QED BY <1>2, <1>3

\* A block whose class is at least the one searched for is large enough.
LEMMA SearchFits ==
  ASSUME NEW n \in Nat, n >= 1, n % 8 = 0, n < BlockSizeMax,
         NEW m \in Nat, m >= 1, m < BlockSizeMax,
         AtLeast(MappingInsert(m), MappingSearch(n))
  PROVE  m >= n
<1>c. /\ FlShift \in Nat /\ FlIndexMax \in Nat /\ FlShift >= 3 /\ SlCount \in Nat
      /\ SlCount >= 1 /\ FlShift < FlIndexMax /\ SmallBlockSize \in Nat
  BY ConstantsIs
<1> SUFFICES ASSUME m < n PROVE FALSE OBVIOUS
<1>1. CASE n < SmallBlockSize
  <2>1. MappingSearch(n) = <<0, n \div 8>> BY <1>1, <1>c, SmallIs DEF MappingSearch
  <2>2. MappingInsert(m) = <<0, m \div 8>> BY <1>1, <1>c, SmallIs
  <2>3. m \div 8 < n \div 8 OBVIOUS
  <2> QED BY <2>1, <2>2, <2>3 DEF AtLeast
<1>2. CASE n >= SmallBlockSize
  <2>1. PICK k \in FlShift .. FlIndexMax - 1, d \in Nat, u \in Nat :
           /\ k = Fls(n) /\ d = Unit(n) /\ d >= 1 /\ u = n + d - 1
           /\ \/ /\ u \div d \in SlCount .. 2 * SlCount - 1
                 /\ MappingSearch(n) = <<k - (FlShift - 1), u \div d - SlCount>>
              \/ MappingSearch(n) = <<k + 1 - (FlShift - 1), 0>>
    BY <1>2, SearchLarge
  <2>2. CASE m < SmallBlockSize
    <3>1. MappingInsert(m) = <<0, m \div 8>> BY <2>2, SmallIs
    <3>2. PICK f \in Nat, s \in Int : f > 0 /\ MappingSearch(n) = <<f, s>>
      <4>1. /\ k - (FlShift - 1) > 0 /\ k - (FlShift - 1) \in Nat
            /\ k + 1 - (FlShift - 1) > 0 /\ k + 1 - (FlShift - 1) \in Nat
        BY <1>c
      <4>2. u \div d \in SlCount .. 2 * SlCount - 1 => u \div d - SlCount \in Int
        BY <1>c
      <4> QED BY <2>1, <4>1, <4>2
    <3> QED BY <3>1, <3>2 DEF AtLeast
  <2>3. CASE m >= SmallBlockSize
    <3>1. m \in Widths /\ n \in Widths BY BelowMax
    <3>2. PICK j \in FlShift .. FlIndexMax, e \in Nat :
            /\ j = Fls(m) /\ e = Pow2[j - SlLog2] /\ e >= 1
            /\ MappingInsert(m) = <<j - (FlShift - 1), m \div e - SlCount>>
            /\ m \div e \in SlCount .. 2 * SlCount - 1
      BY <2>3, <3>1, LargeIs
    <3>3. j <= k BY <2>1, <3>1, <3>2, FlsGrows
    <3>4. CASE MappingSearch(n) = <<k + 1 - (FlShift - 1), 0>>
      <4>1. ~(j - (FlShift - 1) > k + 1 - (FlShift - 1)) /\ j - (FlShift - 1) # k + 1 - (FlShift - 1)
        BY <3>3, <1>c
      <4> QED BY <3>2, <3>4, <4>1 DEF AtLeast
    <3>5. CASE /\ u \div d \in SlCount .. 2 * SlCount - 1
               /\ MappingSearch(n) = <<k - (FlShift - 1), u \div d - SlCount>>
      <4>1. j = k /\ m \div e >= u \div d
        <5>1. ~(j - (FlShift - 1) > k - (FlShift - 1)) BY <3>3, <1>c
        <5>2. /\ j - (FlShift - 1) = k - (FlShift - 1)
              /\ m \div e - SlCount >= u \div d - SlCount
          BY <3>2, <3>5, <5>1 DEF AtLeast
        <5> QED BY <3>2, <3>5, <5>2, <1>c
      <4>2. e = d BY <1>2, <2>1, <3>2, <4>1 DEF Unit
      <4>3. PICK y \in Nat : y = m \div d /\ d * y <= m BY <2>1, <4>2, DivIs
      <4>4. PICK z \in Nat : z = u \div d /\ u < d * z + d BY <2>1, DivIs
      <4>5. d * z <= d * y
        <5>1. PICK x \in Nat : y = z + x
          <6>1. y - z \in Nat /\ y = z + (y - z) BY <4>1, <4>2, <4>3, <4>4
          <6> QED BY <6>1
        <5>2. d * y = d * z + d * x /\ d * x \in Nat /\ d * z \in Nat BY <5>1
        <5> QED BY <5>2
      <4>6. PICK v \in Nat, w \in Nat : v = d * y /\ w = d * z BY <4>3, <4>4
      <4>7. v <= m /\ n + d - 1 < w + d /\ w <= v BY <2>1, <4>3, <4>4, <4>5, <4>6
      <4> QED BY <2>1, <4>6, <4>7
    <3> QED BY <2>1, <3>4, <3>5
  <2> QED BY <2>2, <2>3, <1>c
<1> QED BY <1>1, <1>2, <1>c

\* A block as large as the request rounded up has such a class: a search that
\* finds nothing has missed none.
LEMMA SearchFinds ==
  ASSUME NEW n \in Nat, n >= 1, n < BlockSizeMax,
         NEW m \in Nat, m >= 1, m < BlockSizeMax, m >= AlignUp(n, Unit(n))
  PROVE  /\ MappingSearch(n)[1] < FlCount
         /\ AtLeast(MappingInsert(m), MappingSearch(n))
<1>c. /\ FlShift \in Nat /\ FlIndexMax \in Nat /\ FlShift >= 3 /\ SlCount \in Nat
      /\ SlCount >= 1 /\ FlShift < FlIndexMax /\ SmallBlockSize \in Nat
      /\ FlCount = FlIndexMax - FlShift + 1
  BY ConstantsIs
<1>1. CASE n < SmallBlockSize
  <2>1. AlignUp(n, Unit(n)) = n BY <1>1, <1>c DEF Unit, AlignUp
  <2>2. MappingSearch(n) = <<0, n \div 8>> /\ n \div 8 \in 0 .. SlCount - 1
    BY <1>1, <1>c, SmallIs DEF MappingSearch
  <2>3. CASE m < SmallBlockSize
    <3>1. MappingInsert(m) = <<0, m \div 8>> BY <2>3, SmallIs
    <3>2. m \div 8 >= n \div 8 BY <2>1
    <3> QED BY <2>2, <3>1, <3>2, <1>c DEF AtLeast
  <2>4. CASE m >= SmallBlockSize
    <3>1. PICK j \in FlShift .. FlIndexMax, y \in Int :
            MappingInsert(m) = <<j - (FlShift - 1), y>>
      <4>1. PICK j \in FlShift .. FlIndexMax, e \in Nat :
              /\ MappingInsert(m) = <<j - (FlShift - 1), m \div e - SlCount>>
              /\ m \div e \in SlCount .. 2 * SlCount - 1
        BY <2>4, BelowMax, LargeIs
      <4>2. PICK y \in Int : y = m \div e - SlCount BY <4>1, <1>c
      <4> QED BY <4>1, <4>2
    <3> QED BY <2>2, <3>1, <1>c DEF AtLeast
  <2> QED BY <2>3, <2>4, <1>c
<1>2. CASE n >= SmallBlockSize
  <2>1. PICK k \in FlShift .. FlIndexMax - 1, d \in Nat, u \in Nat :
           /\ k = Fls(n) /\ d = Unit(n) /\ d >= 1 /\ u = n + d - 1
           /\ Pow2[k + 1] = 2 * (d * SlCount) /\ Pow2[k] = d * SlCount
           /\ \/ /\ u \div d \in SlCount .. 2 * SlCount - 1
                 /\ MappingSearch(n) = <<k - (FlShift - 1), u \div d - SlCount>>
              \/ /\ u \div d = 2 * SlCount
                 /\ MappingSearch(n) = <<k + 1 - (FlShift - 1), 0>>
    BY <1>2, SearchLarge
  <2>2. PICK z \in Nat : z = u \div d /\ d * z <= u /\ u < d * z + d BY <2>1, DivIs
  <2>3. m >= z * d /\ z * d = d * z BY <2>1, <2>2 DEF AlignUp
  <2>4. m >= n BY <2>1, <2>2, <2>3
  <2>5. m \in Widths /\ n \in Widths /\ Fls(m) < FlIndexMax BY BelowMax
  <2>6. PICK j \in FlShift .. FlIndexMax, e \in Nat :
            /\ j = Fls(m) /\ e = Pow2[j - SlLog2] /\ e >= 1 /\ m < Pow2[j + 1]
            /\ MappingInsert(m) = <<j - (FlShift - 1), m \div e - SlCount>>
            /\ m \div e \in SlCount .. 2 * SlCount - 1
    BY <1>2, <2>4, <2>5, <1>c, LargeIs
  <2>7. k <= j /\ j < FlIndexMax BY <2>1, <2>4, <2>5, <2>6, FlsGrows
  <2>8. CASE /\ u \div d = 2 * SlCount
             /\ MappingSearch(n) = <<k + 1 - (FlShift - 1), 0>>
    <3>1. m >= Pow2[k + 1]
      <4>1. d * (2 * SlCount) = 2 * (d * SlCount) BY <1>c
      <4> QED BY <2>1, <2>2, <2>3, <2>8, <4>1
    <3>2. j # k BY <2>1, <2>6, <3>1, <1>c
    <3>3. j >= k + 1 BY <2>7, <3>2, <1>c
    <3>4. k + 1 - (FlShift - 1) < FlCount BY <2>7, <3>3, <1>c
    <3>5. \/ j - (FlShift - 1) > k + 1 - (FlShift - 1)
          \/ j - (FlShift - 1) = k + 1 - (FlShift - 1)
      BY <3>3, <1>c
    <3>6. m \div e - SlCount >= 0 BY <2>6, <1>c
    <3> QED BY <2>6, <2>8, <3>4, <3>5, <3>6 DEF AtLeast
  <2>9. CASE /\ u \div d \in SlCount .. 2 * SlCount - 1
             /\ MappingSearch(n) = <<k - (FlShift - 1), u \div d - SlCount>>
    <3>1. k - (FlShift - 1) < FlCount BY <2>7, <1>c
    <3>2. CASE j > k
      <4>1. j - (FlShift - 1) > k - (FlShift - 1) BY <3>2, <1>c
      <4> QED BY <2>6, <2>9, <3>1, <4>1 DEF AtLeast
    <3>3. CASE j = k
      <4>1. e = d BY <1>2, <2>1, <2>6, <3>3 DEF Unit
      <4>2. z <= m \div d BY <2>1, <2>2, <2>3, DivBetween
      <4>3. m \div e - SlCount >= u \div d - SlCount BY <4>1, <4>2, <2>2, <2>6, <1>c
      <4> QED BY <2>6, <2>9, <3>1, <3>3, <4>3 DEF AtLeast
    <3> QED BY <2>7, <3>2, <3>3, <1>c
  <2> QED BY <2>1, <2>8, <2>9
<1> QED BY <1>1, <1>2, <1>c

----------------------------------------------------------------------------
(* Free lists.                                                             *)

InList(x, list) == \E i \in 1 .. Len(list) : list[i] = x
NoneTwice(list) == \A i, j \in 1 .. Len(list) : list[i] = list[j] => i = j

\* A list that a block is taken out of keeps the others.
LEMMA UnlinkIs ==
  ASSUME NEW S, NEW list \in Seq(S), NEW b, InList(b, list), NoneTwice(list)
  PROVE  /\ Unlink(list, b) \in Seq(S \ {b}) /\ Len(Unlink(list, b)) = Len(list) - 1
         /\ NoneTwice(Unlink(list, b))
         /\ \A x : InList(x, Unlink(list, b)) <=> x # b /\ InList(x, list)
<1> DEFINE N == Len(list)
<1>1. N \in Nat /\ DOMAIN list = 1 .. N OBVIOUS
<1>2. PICK i \in 1 .. N : i = (CHOOSE k \in DOMAIN list : list[k] = b) /\ list[i] = b
  BY <1>1 DEF InList
<1>3. PICK u : u = [j \in 1 .. N - 1 |-> list[IF j < i THEN j ELSE j + 1]] OBVIOUS
<1>4. Unlink(list, b) = u BY <1>2, <1>3 DEF Unlink
<1>5. N - 1 \in Nat /\ \A j \in 1 .. N - 1 : (IF j < i THEN j ELSE j + 1) \in 1 .. N
  BY <1>1
<1>6. \A j \in 1 .. N - 1 : u[j] \in S \ {b}
  BY <1>1, <1>2, <1>3 DEF NoneTwice
<1>7. u \in Seq(S \ {b}) /\ Len(u) = N - 1 BY <1>3, <1>5, <1>6
<1>8. NoneTwice(u)
  <2> SUFFICES ASSUME NEW j \in 1 .. N - 1, NEW k \in 1 .. N - 1, u[j] = u[k] PROVE j = k
    BY <1>7 DEF NoneTwice
  <2>1. PICK x \in 1 .. N : x = (IF j < i THEN j ELSE j + 1) BY <1>5
  <2>2. PICK y \in 1 .. N : y = (IF k < i THEN k ELSE k + 1) BY <1>5
  <2>3. list[x] = list[y] BY <1>3, <2>1, <2>2
  <2>4. x = y BY <2>3 DEF NoneTwice
  <2> QED BY <1>1, <1>2, <2>1, <2>2, <2>4
<1>9. ASSUME NEW x PROVE InList(x, u) <=> x # b /\ InList(x, list)
  <2>1. ASSUME NEW j \in 1 .. N - 1, u[j] = x PROVE x # b /\ InList(x, list)
    <3>1. PICK k \in 1 .. N : k = (IF j < i THEN j ELSE j + 1) BY <1>5
    <3>2. list[k] = x BY <1>3, <2>1, <3>1
    <3> QED BY <1>6, <2>1, <3>2 DEF InList
  <2>2. ASSUME NEW k \in 1 .. N, list[k] = x, x # b PROVE InList(x, u)
    <3>1. k # i BY <1>2, <2>2
    <3>2. PICK j \in 1 .. N - 1 : (IF j < i THEN j ELSE j + 1) = k
      <4>1. CASE k < i
        <5>1. k \in 1 .. N - 1 BY <4>1, <1>1
        <5> QED BY <4>1, <5>1
      <4>2. CASE k > i
        <5>1. k - 1 \in 1 .. N - 1 /\ ~(k - 1 < i) /\ k - 1 + 1 = k BY <4>2, <1>1, <1>2
        <5> QED BY <5>1
      <4> QED BY <3>1, <4>1, <4>2, <1>1
    <3>3. u[j] = x BY <1>3, <2>2, <3>2
    <3> QED BY <1>7, <3>3 DEF InList
  <2> QED BY <2>1, <2>2, <1>7 DEF InList
<1> QED BY <1>4, <1>7, <1>8, <1>9

\* A list that a block is put in front of.
LEMMA ConsIs ==
  ASSUME NEW S, NEW list \in Seq(S), NEW b, ~InList(b, list), NoneTwice(list)
  PROVE  /\ <<b>> \o list \in Seq(S \cup {b}) /\ <<b>> \o list # << >>
         /\ NoneTwice(<<b>> \o list)
         /\ \A x : InList(x, <<b>> \o list) <=> x = b \/ InList(x, list)
<1> DEFINE N == Len(list)
<1>1. N \in Nat /\ list \in Seq(S \cup {b}) OBVIOUS
<1>2. PICK u \in Seq(S \cup {b}) : u = <<b>> \o list
  <2>1. <<b>> \in Seq(S \cup {b}) OBVIOUS
  <2>2. <<b>> \o list \in Seq(S \cup {b}) BY <1>1, <2>1
  <2> QED BY <2>2
<1>3. /\ Len(u) = N + 1 /\ u[1] = b
      /\ \A j \in 2 .. N + 1 : u[j] = list[j - 1]
  BY <1>1, <1>2
<1>4. NoneTwice(u)
  <2> SUFFICES ASSUME NEW j \in 1 .. N + 1, NEW k \in 1 .. N + 1, j < k, u[j] = u[k]
               PROVE  FALSE
    BY <1>1, <1>3 DEF NoneTwice
  <2>1. k \in 2 .. N + 1 /\ k - 1 \in 1 .. N BY <1>1
  <2>2. u[k] = list[k - 1] BY <2>1, <1>3
  <2>3. CASE j = 1 BY <1>3, <2>1, <2>2, <2>3 DEF InList
  <2>4. CASE j # 1
    <3>1. j - 1 \in 1 .. N /\ j - 1 # k - 1 /\ u[j] = list[j - 1] BY <1>1, <1>3, <2>4
    <3> QED BY <2>1, <2>2, <3>1 DEF NoneTwice
  <2> QED BY <2>3, <2>4
<1>5. ASSUME NEW x PROVE InList(x, u) <=> x = b \/ InList(x, list)
  <2>1. ASSUME NEW j \in 1 .. N + 1, u[j] = x PROVE x = b \/ InList(x, list)
    <3>1. CASE j = 1 BY <1>3, <2>1, <3>1
    <3>2. CASE j # 1
      <4>1. j - 1 \in 1 .. N /\ u[j] = list[j - 1] BY <1>1, <1>3, <3>2
      <4> QED BY <2>1, <4>1 DEF InList
    <3> QED BY <3>1, <3>2
  <2>2. ASSUME NEW k \in 1 .. N, list[k] = x PROVE InList(x, u)
    <3>1. k + 1 \in 1 .. N + 1 /\ u[k + 1] = x
      <4>1. k + 1 \in 2 .. N + 1 /\ k + 1 - 1 = k BY <1>1
      <4> QED BY <1>1, <1>3, <2>2, <4>1
    <3> QED BY <1>3, <3>1 DEF InList
  <2>3. InList(b, u) 
    <3>1. 1 \in 1 .. N + 1 BY <1>1
    <3> QED BY <1>3, <3>1 DEF InList
  <2> QED BY <1>3, <2>1, <2>2, <2>3 DEF InList
<1>6. u # << >> BY <1>1, <1>3
<1> QED BY <1>2, <1>4, <1>5, <1>6

\* The heap as a record whose assertions have all held.
IsHeap(h) ==
  h = [size |-> h.size, prev |-> h.prev, free |-> h.free, prevfree |-> h.prevfree,
       blocks |-> h.blocks, fl |-> h.fl, sl |-> h.sl, ok |-> TRUE]

Rows == 0 .. FlCount - 1
Cols == 0 .. SlCount - 1

\* The bitmaps show which lists have a block.
Mapped(blocks, sl, fl) ==
  /\ \A f \in Rows, s \in Cols : s \in sl[f] <=> blocks[<<f, s>>] # << >>
  /\ \A f \in Rows : f \in fl <=> sl[f] # {}

\* The lists hold the blocks of L, each once and in the list of its class.
Listed(h, L) ==
  /\ h.blocks \in [Classes -> Seq(L)]
  /\ h.sl \in [Rows -> SUBSET Cols] /\ h.fl \subseteq Rows
  /\ \A c \in Classes : NoneTwice(h.blocks[c])
  /\ \A b \in L : MappingInsert(h.size[b]) \in Classes
  /\ \A c \in Classes, b \in L : InList(b, h.blocks[c]) <=> MappingInsert(h.size[b]) = c
  /\ Mapped(h.blocks, h.sl, h.fl)

\* All that a list operation leaves alone.
SameBlocks(g, h) ==
  g.size = h.size /\ g.prev = h.prev /\ g.free = h.free /\ g.prevfree = h.prevfree

\* An assertion that holds changes nothing.
LEMMA InsistIs ==
  ASSUME NEW h, IsHeap(h), NEW cond, cond
  PROVE  Insist(h, cond) = h
<1>h. PICK s, p, f, pf, bl, fl, sl :
        h = [size |-> s, prev |-> p, free |-> f, prevfree |-> pf,
             blocks |-> bl, fl |-> fl, sl |-> sl, ok |-> TRUE]
  BY DEF IsHeap
<1> QED BY <1>h DEF Insist

\* A class is a row and a column.
LEMMA ClassIs ==
  ASSUME NEW c \in Classes
  PROVE  c[1] \in Rows /\ c[2] \in Cols /\ c = <<c[1], c[2]>>
BY DEF Classes, Rows, Cols

\* The list of class c becomes list, and the bitmaps follow.
Relisted(blocks, sl, fl, c, list, B, T, F) ==
  /\ blocks = [e \in Classes |-> blocks[e]]
  /\ sl \in [Rows -> SUBSET Cols] /\ fl \subseteq Rows
  /\ B = [blocks EXCEPT ![c] = list]
  /\ list = << >> => T = [sl EXCEPT ![c[1]] = sl[c[1]] \ {c[2]}]
  /\ list # << >> => T = [sl EXCEPT ![c[1]] = sl[c[1]] \cup {c[2]}]
  /\ F = IF T[c[1]] = {} THEN fl \ {c[1]} ELSE fl \cup {c[1]}

\* The bitmaps when one list changes.
LEMMA MappedList ==
  ASSUME NEW blocks, NEW sl, NEW fl, Mapped(blocks, sl, fl),
         NEW c \in Classes, NEW list, NEW B, NEW T, NEW F,
         Relisted(blocks, sl, fl, c, list, B, T, F)
  PROVE  Mapped(B, T, F) /\ T \in [Rows -> SUBSET Cols] /\ F \subseteq Rows
<1> USE DEF Relisted
<1>1. PICK x \in Rows, y \in Cols : x = c[1] /\ y = c[2] /\ c = <<x, y>> BY ClassIs
<1>2. T \in [Rows -> SUBSET Cols]
  <2>1. sl[x] \in SUBSET Cols BY <1>1
  <2>2. CASE list = << >> BY <1>1, <2>1, <2>2
  <2>3. CASE list # << >> BY <1>1, <2>1, <2>3
  <2> QED BY <2>2, <2>3
<1>3. F \subseteq Rows BY <1>1
<1>4. ASSUME NEW f \in Rows, NEW s \in Cols
      PROVE  s \in T[f] <=> B[<<f, s>>] # << >>
  <2>1. <<f, s>> \in Classes BY DEF Classes, Rows, Cols
  <2>2. s \in sl[f] <=> blocks[<<f, s>>] # << >> BY DEF Mapped
  <2>3. CASE f = x /\ s = y
    <3>1. B[<<f, s>>] = list BY <1>1, <2>1, <2>3
    <3>2. s \in T[f] <=> list # << >> BY <1>1, <2>3
    <3> QED BY <3>1, <3>2
  <2>4. CASE f # x \/ s # y
    <3>1. <<f, s>> # c BY <1>1, <2>4
    <3>2. B[<<f, s>>] = blocks[<<f, s>>] BY <2>1, <3>1
    <3>3. s \in T[f] <=> s \in sl[f]
      <4>1. CASE f # x BY <1>1, <4>1
      <4>2. CASE f = x /\ s # y BY <1>1, <4>2
      <4> QED BY <2>4, <4>1, <4>2
    <3> QED BY <2>2, <3>2, <3>3
  <2> QED BY <2>3, <2>4
<1>5. ASSUME NEW f \in Rows PROVE f \in F <=> T[f] # {}
  <2>1. CASE f = x BY <1>1, <2>1
  <2>2. CASE f # x
    <3>1. T[f] = sl[f] BY <1>1, <2>2
    <3>2. f \in F <=> f \in fl BY <1>1, <2>2
    <3> QED BY <3>1, <3>2 DEF Mapped
  <2> QED BY <2>1, <2>2
<1> QED BY <1>2, <1>3, <1>4, <1>5 DEF Mapped

\* remove_free_block() takes the block out of its list and the bitmaps follow.
LEMMA RemoveIs ==
  ASSUME NEW h, IsHeap(h), NEW L, Listed(h, L), NEW b \in L, NEW c \in Classes,
         MappingInsert(h.size[b]) = c
  PROVE  /\ IsHeap(RemoveFreeBlock(h, b, c))
         /\ SameBlocks(RemoveFreeBlock(h, b, c), h)
         /\ Listed(RemoveFreeBlock(h, b, c), L \ {b})
<1>1. PICK x \in Rows, y \in Cols : x = c[1] /\ y = c[2] /\ c = <<x, y>> BY ClassIs
<1>2. PICK list : list = Unlink(h.blocks[c], b) OBVIOUS
<1>3. PICK slmap : slmap = IF list = << >> THEN h.sl[x] \ {y} ELSE h.sl[x] OBVIOUS
<1>4. PICK B : B = [h.blocks EXCEPT ![c] = list] OBVIOUS
<1>5. PICK T : T = [h.sl EXCEPT ![x] = slmap] OBVIOUS
<1>6. PICK F : F = IF slmap = {} THEN h.fl \ {x} ELSE h.fl OBVIOUS
<1>7. PICK g : g = RemoveFreeBlock(h, b, c) OBVIOUS
<1>h. PICK s, p, f, pf, bl, fl, sl :
        h = [size |-> s, prev |-> p, free |-> f, prevfree |-> pf,
             blocks |-> bl, fl |-> fl, sl |-> sl, ok |-> TRUE]
  BY DEF IsHeap
<1>8. g = [size |-> h.size, prev |-> h.prev, free |-> h.free, prevfree |-> h.prevfree,
           blocks |-> B, fl |-> F, sl |-> T, ok |-> TRUE]
  <2>1. g = [h EXCEPT !.blocks[c] = list, !.sl[x] = slmap, !.fl = F]
    BY <1>1, <1>2, <1>3, <1>6, <1>7 DEF RemoveFreeBlock
  <2> QED BY <2>1, <1>h, <1>4, <1>5
<1>9. IsHeap(g) /\ SameBlocks(g, h) /\ g.blocks = B /\ g.sl = T /\ g.fl = F
  BY <1>8 DEF IsHeap, SameBlocks
<1>10. h.blocks[c] \in Seq(L) /\ InList(b, h.blocks[c]) /\ NoneTwice(h.blocks[c])
  BY DEF Listed
<1>11. /\ list \in Seq(L \ {b}) /\ NoneTwice(list)
       /\ \A z : InList(z, list) <=> z # b /\ InList(z, h.blocks[c])
  BY <1>2, <1>10, UnlinkIs
<1>12. ASSUME NEW e \in Classes, e # c PROVE B[e] = h.blocks[e] /\ B[e] \in Seq(L \ {b})
  <2>1. h.blocks[e] \in Seq(L) /\ ~InList(b, h.blocks[e]) BY <1>12 DEF Listed
  <2>2. \A i \in 1 .. Len(h.blocks[e]) : h.blocks[e][i] \in L \ {b} BY <2>1 DEF InList
  <2>3. h.blocks[e] \in Seq(L \ {b}) BY <2>1, <2>2
  <2> QED BY <1>4, <1>12, <2>3 DEF Listed
<1>13. B[c] = list BY <1>4 DEF Listed
<1>14. B \in [Classes -> Seq(L \ {b})]
  <2>1. B = [e \in Classes |-> B[e]] BY <1>4 DEF Listed
  <2>2. \A e \in Classes : B[e] \in Seq(L \ {b}) BY <1>11, <1>12, <1>13
  <2> QED BY <2>1, <2>2
<1>15. /\ \A e \in Classes : NoneTwice(B[e])
       /\ \A e \in Classes, d \in L \ {b} : InList(d, B[e]) <=> MappingInsert(h.size[d]) = e
  <2> SUFFICES ASSUME NEW e \in Classes
               PROVE  /\ NoneTwice(B[e])
                      /\ \A d \in L \ {b} : InList(d, B[e]) <=> MappingInsert(h.size[d]) = e
    OBVIOUS
  <2>1. CASE e = c BY <1>11, <1>13, <2>1 DEF Listed
  <2>2. CASE e # c BY <1>12, <2>2 DEF Listed
  <2> QED BY <2>1, <2>2
<1>16. Mapped(B, T, F) /\ T \in [Rows -> SUBSET Cols] /\ F \subseteq Rows
  <2>1. /\ Mapped(h.blocks, h.sl, h.fl) /\ h.blocks \in [Classes -> Seq(L)]
        /\ h.sl \in [Rows -> SUBSET Cols] /\ h.fl \subseteq Rows
        /\ h.blocks = [e \in Classes |-> h.blocks[e]]
    BY DEF Listed
  <2>2. y \in h.sl[x] /\ x \in h.fl
    <3>1. h.blocks[<<x, y>>] # << >> BY <1>1, <1>10 DEF InList
    <3> QED BY <2>1, <3>1 DEF Mapped
  <2>3. list = << >> => T = [h.sl EXCEPT ![c[1]] = h.sl[c[1]] \ {c[2]}] BY <1>1, <1>3, <1>5
  <2>4. list # << >> => T = [h.sl EXCEPT ![c[1]] = h.sl[c[1]] \cup {c[2]}]
    <3>1. h.sl[x] = h.sl[x] \cup {y} BY <2>2
    <3> QED BY <1>1, <1>3, <1>5, <3>1
  <2>5. T[c[1]] = slmap BY <1>1, <1>5, <2>1
  <2>6. F = IF T[c[1]] = {} THEN h.fl \ {c[1]} ELSE h.fl \cup {c[1]}
    <3>1. h.fl = h.fl \cup {x} BY <2>2
    <3> QED BY <1>1, <1>6, <2>5, <3>1
  <2>7. Relisted(h.blocks, h.sl, h.fl, c, list, B, T, F)
    BY <1>4, <2>1, <2>3, <2>4, <2>6 DEF Relisted
  <2> QED BY <2>1, <2>7, MappedList
<1>17. Listed(g, L \ {b})
  <2>1. \A d \in L \ {b} : MappingInsert(g.size[d]) \in Classes BY <1>9 DEF SameBlocks, Listed
  <2>2. g.size = h.size BY <1>9 DEF SameBlocks
  <2> QED BY <1>9, <1>14, <1>15, <1>16, <2>1, <2>2 DEF Listed
<1> QED BY <1>7, <1>9, <1>17

\* insert_free_block() puts the block in front of the list of its class.
LEMMA InsertIs ==
  ASSUME NEW h, IsHeap(h), NEW L, Listed(h, L), NEW b, b \notin L, NEW c \in Classes,
         MappingInsert(h.size[b]) = c, b \in Nat, b % 8 = 0
  PROVE  /\ IsHeap(InsertFreeBlock(h, b, c))
         /\ SameBlocks(InsertFreeBlock(h, b, c), h)
         /\ Listed(InsertFreeBlock(h, b, c), L \cup {b})
<1>1. PICK x \in Rows, y \in Cols : x = c[1] /\ y = c[2] /\ c = <<x, y>> BY ClassIs
<1>2. PICK list : list = <<b>> \o h.blocks[c] OBVIOUS
<1>4. PICK B : B = [h.blocks EXCEPT ![c] = list] OBVIOUS
<1>5. PICK T : T = [h.sl EXCEPT ![x] = h.sl[x] \cup {y}] OBVIOUS
<1>6. PICK F : F = h.fl \cup {x} OBVIOUS
<1>7. PICK g : g = InsertFreeBlock(h, b, c) OBVIOUS
<1>3. Insist(h, ToPtr(b) % AlignSize = 0) = h
  <2>1. ToPtr(b) % AlignSize = 0 BY ConstantsIs DEF ToPtr
  <2> QED BY <2>1, InsistIs
<1>h. PICK s, p, f, pf, bl, fl, sl :
        h = [size |-> s, prev |-> p, free |-> f, prevfree |-> pf,
             blocks |-> bl, fl |-> fl, sl |-> sl, ok |-> TRUE]
  BY DEF IsHeap
<1>8. g = [size |-> h.size, prev |-> h.prev, free |-> h.free, prevfree |-> h.prevfree,
           blocks |-> B, fl |-> F, sl |-> T, ok |-> TRUE]
  <2>1. g = [h EXCEPT !.blocks[c] = <<b>> \o @, !.fl = @ \cup {c[1]},
                      !.sl[c[1]] = @ \cup {c[2]}]
    BY <1>3, <1>7 DEF InsertFreeBlock
  <2> QED BY <1>h, <1>1, <1>2, <1>4, <1>5, <1>6, <2>1
<1>9. IsHeap(g) /\ SameBlocks(g, h) /\ g.blocks = B /\ g.sl = T /\ g.fl = F
  BY <1>8 DEF IsHeap, SameBlocks
<1>10. h.blocks[c] \in Seq(L) /\ NoneTwice(h.blocks[c]) /\ ~InList(b, h.blocks[c])
  BY DEF Listed, InList
<1>11. /\ list \in Seq(L \cup {b}) /\ NoneTwice(list) /\ list # << >>
       /\ \A z : InList(z, list) <=> z = b \/ InList(z, h.blocks[c])
  BY <1>2, <1>10, ConsIs
<1>12. ASSUME NEW e \in Classes, e # c PROVE B[e] = h.blocks[e] /\ B[e] \in Seq(L \cup {b})
  BY <1>4, <1>12 DEF Listed
<1>13. B[c] = list BY <1>4 DEF Listed
<1>14. B \in [Classes -> Seq(L \cup {b})]
  <2>1. B = [e \in Classes |-> B[e]] BY <1>4 DEF Listed
  <2>2. \A e \in Classes : B[e] \in Seq(L \cup {b}) BY <1>11, <1>12, <1>13
  <2> QED BY <2>1, <2>2
<1>15. /\ \A e \in Classes : NoneTwice(B[e])
       /\ \A e \in Classes, d \in L \cup {b} : InList(d, B[e]) <=> MappingInsert(h.size[d]) = e
  <2> SUFFICES ASSUME NEW e \in Classes
               PROVE  /\ NoneTwice(B[e])
                      /\ \A d \in L \cup {b} : InList(d, B[e]) <=> MappingInsert(h.size[d]) = e
    OBVIOUS
  <2>1. CASE e = c BY <1>11, <1>13, <2>1 DEF Listed
  <2>2. CASE e # c
    <3>1. ~InList(b, h.blocks[e]) BY DEF Listed, InList
    <3> QED BY <1>12, <2>2, <3>1 DEF Listed
  <2> QED BY <2>1, <2>2
<1>16. Mapped(B, T, F) /\ T \in [Rows -> SUBSET Cols] /\ F \subseteq Rows
  <2>1. /\ Mapped(h.blocks, h.sl, h.fl) /\ h.blocks \in [Classes -> Seq(L)]
        /\ h.sl \in [Rows -> SUBSET Cols] /\ h.fl \subseteq Rows
        /\ h.blocks = [e \in Classes |-> h.blocks[e]]
    BY DEF Listed
  <2>2. list # << >> => T = [h.sl EXCEPT ![c[1]] = h.sl[c[1]] \cup {c[2]}] BY <1>1, <1>5
  <2>3. T[c[1]] # {} BY <1>1, <1>5, <2>1
  <2>4. F = IF T[c[1]] = {} THEN h.fl \ {c[1]} ELSE h.fl \cup {c[1]} BY <1>1, <1>6, <2>3
  <2>7. Relisted(h.blocks, h.sl, h.fl, c, list, B, T, F)
    BY <1>4, <1>11, <2>1, <2>2, <2>4 DEF Relisted
  <2> QED BY <2>1, <2>7, MappedList
<1>17. Listed(g, L \cup {b})
  <2>1. \A d \in L \cup {b} : MappingInsert(g.size[d]) \in Classes BY <1>9 DEF SameBlocks, Listed
  <2>2. g.size = h.size BY <1>9 DEF SameBlocks
  <2> QED BY <1>9, <1>14, <1>15, <1>16, <2>1, <2>2 DEF Listed
<1> QED BY <1>7, <1>9, <1>17

----------------------------------------------------------------------------
(* The search for a block.                                                 *)

\* MinOf() is the least number, as tlsf_ffs() is the lowest bit.
LEMMA MinIs ==
  ASSUME NEW S \in SUBSET Nat, S # {}
  PROVE  MinOf(S) \in S /\ \A j \in S : MinOf(S) <= j
BY LeastNumber DEF MinOf

\* search_suitable_block() finds the first list at or after a class that has a
\* block, and none only if there is none.
LEMMA SuitableIs ==
  ASSUME NEW h, NEW L, Listed(h, L), NEW c \in Classes
  PROVE  \/ /\ SearchSuitableBlock(h, c) = NoClass
            /\ \A e \in Classes : AtLeast(e, c) => h.blocks[e] = << >>
         \/ /\ SearchSuitableBlock(h, c) \in Classes
            /\ AtLeast(SearchSuitableBlock(h, c), c)
            /\ h.blocks[SearchSuitableBlock(h, c)] # << >>
<1>c. FlCount \in Nat /\ SlCount \in Nat BY ConstantsIs
<1>1. PICK x \in Rows, y \in Cols : x = c[1] /\ y = c[2] /\ c = <<x, y>> BY ClassIs
<1>2. PICK slmap : slmap = {s \in h.sl[x] : s >= y} OBVIOUS
<1>3. PICK flmap : flmap = {f \in h.fl : f > x} OBVIOUS
<1>4. SearchSuitableBlock(h, c) =
        IF slmap # {} THEN <<x, MinOf(slmap)>>
        ELSE IF flmap = {} THEN NoClass
        ELSE <<MinOf(flmap), MinOf(h.sl[MinOf(flmap)])>>
  BY <1>1, <1>2, <1>3 DEF SearchSuitableBlock
<1>5. /\ h.sl \in [Rows -> SUBSET Cols] /\ h.fl \subseteq Rows
      /\ \A f \in Rows, s \in Cols : s \in h.sl[f] <=> h.blocks[<<f, s>>] # << >>
      /\ \A f \in Rows : f \in h.fl <=> h.sl[f] # {}
  BY DEF Listed, Mapped
<1>6. \A f \in Rows, s \in Cols : <<f, s>> \in Classes BY DEF Classes, Rows, Cols
<1>7. Rows \subseteq Nat /\ Cols \subseteq Nat BY <1>c DEF Rows, Cols
<1>8. CASE slmap # {}
  <2>1. slmap \in SUBSET Nat BY <1>2, <1>5, <1>7
  <2>2. PICK s \in slmap : s = MinOf(slmap) BY <1>8, <2>1, MinIs
  <2>3. s \in Cols /\ s >= y /\ s \in h.sl[x] BY <1>2, <1>5, <2>2
  <2>4. h.blocks[<<x, s>>] # << >> /\ <<x, s>> \in Classes BY <1>5, <1>6, <2>3
  <2>5. AtLeast(<<x, s>>, c) BY <1>1, <2>3 DEF AtLeast
  <2> QED BY <1>4, <1>8, <2>2, <2>4, <2>5
<1>9. CASE slmap = {} /\ flmap # {}
  <2>1. flmap \in SUBSET Nat BY <1>3, <1>5, <1>7
  <2>2. PICK f \in flmap : f = MinOf(flmap) BY <1>9, <2>1, MinIs
  <2>3. f \in Rows /\ f > x /\ h.sl[f] # {} BY <1>3, <1>5, <2>2
  <2>4. h.sl[f] \in SUBSET Nat BY <1>5, <1>7, <2>3
  <2>5. PICK s \in h.sl[f] : s = MinOf(h.sl[f]) BY <2>3, <2>4, MinIs
  <2>6. s \in Cols BY <1>5, <2>3, <2>5
  <2>7. h.blocks[<<f, s>>] # << >> /\ <<f, s>> \in Classes BY <1>5, <1>6, <2>3, <2>5, <2>6
  <2>8. AtLeast(<<f, s>>, c) BY <1>1, <2>3 DEF AtLeast
  <2> QED BY <1>4, <1>9, <2>2, <2>5, <2>7, <2>8
<1>10. CASE slmap = {} /\ flmap = {}
  <2>1. SearchSuitableBlock(h, c) = NoClass BY <1>4, <1>10
  <2>2. ASSUME NEW e \in Classes, AtLeast(e, c), h.blocks[e] # << >> PROVE FALSE
    <3>1. PICK f \in Rows, s \in Cols : f = e[1] /\ s = e[2] /\ e = <<f, s>> BY ClassIs
    <3>2. s \in h.sl[f] /\ f \in h.fl BY <1>5, <2>2, <3>1
    <3>3. f > x \/ (f = x /\ s >= y) BY <1>1, <2>2, <3>1 DEF AtLeast
    <3> QED BY <1>2, <1>3, <1>10, <3>2, <3>3
  <2> QED BY <2>1, <2>2
<1> QED BY <1>8, <1>9, <1>10

\* block_locate_free() finds a listed block of at least the size asked for, and
\* none only if no listed block has the size rounded up.
LEMMA LocateIs ==
  ASSUME NEW h, NEW L, Listed(h, L),
         \A b \in L : h.size[b] \in Nat /\ h.size[b] >= 1 /\ h.size[b] < BlockSizeMax,
         NEW n \in Nat, n >= 1, n % 8 = 0, n < BlockSizeMax
  PROVE  /\ LocateClass(h, n) = NoClass =>
              \A b \in L : h.size[b] < AlignUp(n, Unit(n))
         /\ LocateClass(h, n) # NoClass =>
              /\ LocateClass(h, n) \in Classes
              /\ Located(h, n) \in L /\ h.size[Located(h, n)] >= n
              /\ MappingInsert(h.size[Located(h, n)]) = LocateClass(h, n)
<1>c. FlCount \in Nat BY ConstantsIs
<1>1. PICK c : c = MappingSearch(n) OBVIOUS
<1>2. c[1] \in Nat /\ (c[1] < FlCount => c \in Classes) BY <1>1, SearchType
<1>3. LocateClass(h, n) = IF c[1] >= FlCount THEN NoClass ELSE SearchSuitableBlock(h, c)
  BY <1>1 DEF LocateClass
<1>4. ASSUME NEW b \in L, h.size[b] >= AlignUp(n, Unit(n))
      PROVE  c[1] < FlCount /\ AtLeast(MappingInsert(h.size[b]), c)
  BY <1>1, <1>4, SearchFinds
<1>5. ASSUME LocateClass(h, n) = NoClass, NEW b \in L, h.size[b] >= AlignUp(n, Unit(n))
      PROVE  FALSE
  <2>1. c[1] < FlCount /\ AtLeast(MappingInsert(h.size[b]), c) BY <1>4, <1>5
  <2>2. c \in Classes /\ SearchSuitableBlock(h, c) = NoClass BY <1>2, <1>3, <1>5, <2>1, <1>c
  <2>3. NoClass \notin Classes
    <3>1. ~(-1 \in Rows) BY <1>c DEF Rows
    <3> QED BY <3>1, ClassIs DEF NoClass
  <2>4. MappingInsert(h.size[b]) \in Classes /\ InList(b, h.blocks[MappingInsert(h.size[b])])
    BY DEF Listed
  <2>5. h.blocks[MappingInsert(h.size[b])] = << >> BY <2>1, <2>2, <2>3, <2>4, SuitableIs
  <2> QED BY <2>4, <2>5 DEF InList
<1>6. ASSUME LocateClass(h, n) # NoClass
      PROVE  /\ LocateClass(h, n) \in Classes
             /\ Located(h, n) \in L /\ h.size[Located(h, n)] >= n
             /\ MappingInsert(h.size[Located(h, n)]) = LocateClass(h, n)
  <2>1. c[1] < FlCount BY <1>2, <1>3, <1>6, <1>c
  <2>2. PICK e \in Classes : e = LocateClass(h, n) /\ AtLeast(e, c) /\ h.blocks[e] # << >>
    BY <1>2, <1>3, <1>6, <2>1, <1>c, SuitableIs
  <2>3. h.blocks[e] \in Seq(L) BY DEF Listed
  <2>4. PICK b \in L : b = h.blocks[e][1] /\ b = Head(h.blocks[e]) /\ 1 \in 1 .. Len(h.blocks[e])
    BY <2>2, <2>3
  <2>5. InList(b, h.blocks[e]) BY <2>4 DEF InList
  <2>6. MappingInsert(h.size[b]) = e BY <2>5 DEF Listed
  <2>7. h.size[b] >= n BY <1>1, <2>2, <2>6, SearchFits
  <2>8. b = Located(h, n) BY <2>2, <2>4 DEF Located
  <2> QED BY <2>2, <2>6, <2>7, <2>8
<1>7. \A b \in L : h.size[b] \in Nat OBVIOUS
<1>8. AlignUp(n, Unit(n)) \in Nat
  <2>1. PICK d \in Nat : d = Unit(n) /\ d >= 1
    <3>1. CASE n < SmallBlockSize BY <3>1, ConstantsIs DEF Unit
    <3>2. CASE n >= SmallBlockSize BY <3>2, SearchLarge
    <3> QED BY <3>1, <3>2, ConstantsIs
  <2>2. (n + d - 1) \div d \in Nat
    <3>1. n + d - 1 \in Nat BY <2>1
    <3> QED BY <2>1, <3>1, DivIs
  <2> QED BY <2>1, <2>2 DEF AlignUp
<1> QED BY <1>5, <1>6, <1>7, <1>8

----------------------------------------------------------------------------
(* Alignment and pools.                                                    *)

\* align_up() goes to the next multiple.
LEMMA AlignUpIs ==
  ASSUME NEW x \in Nat, NEW a \in Nat, a >= 1
  PROVE  \E q \in Nat : /\ AlignUp(x, a) = q * a /\ AlignUp(x, a) \in Nat
                        /\ AlignUp(x, a) >= x /\ AlignUp(x, a) < x + a
                        /\ AlignUp(x, a) % a = 0
<1>1. x + a - 1 \in Nat OBVIOUS
<1>2. PICK q \in Nat : /\ q = (x + a - 1) \div a /\ a * q <= x + a - 1
                       /\ x + a - 1 < a * q + a
  BY <1>1, DivIs
<1>3. PICK y \in Nat : y = q * a /\ y = a * q BY <1>2
<1>4. AlignUp(x, a) = y BY <1>2, <1>3 DEF AlignUp
<1>5. y >= x /\ y < x + a BY <1>2, <1>3
<1>6. y % a = 0 BY <1>3
<1> QED BY <1>3, <1>4, <1>5, <1>6

\* Multiples of eight are aligned.
LEMMA AlignUp8 ==
  ASSUME NEW x \in Nat
  PROVE  /\ AlignUp(x, 8) \in Nat /\ AlignUp(x, 8) % 8 = 0
         /\ AlignUp(x, 8) >= x /\ AlignUp(x, 8) < x + 8
BY DEF AlignUp

\* A pool that tlsf_add_pool() takes.
LEMMA PoolIs ==
  ASSUME NEW q \in Pools, PoolFits(q)
  PROVE  /\ PoolFirst(q) \in Nat /\ PoolFirst(q) % 8 = 0 /\ PoolFirst(q) = q.mem - 8
         /\ PoolBytes(q) \in Nat /\ PoolBytes(q) % 8 = 0
         /\ PoolBytes(q) >= 24 /\ PoolBytes(q) < BlockSizeMax
         /\ PoolEnd(q) \in Nat /\ PoolEnd(q) = PoolFirst(q) + PoolBytes(q) + 8
         /\ PoolEnd(q) % 8 = 0
         /\ PoolEnd(q) + 16 <= q.mem + q.bytes
         /\ q.mem \in Nat /\ q.bytes \in Nat
<1>1. q.mem \in Nat /\ q.bytes \in Nat /\ q.mem >= 8 BY HeapAssumption DEF Overhead
<1>3. PoolBytes(q) = (q.bytes - 16) - ((q.bytes - 16) % 8)
  BY ConstantsIs DEF PoolBytes, AlignDown, Overhead
<1>0. /\ q.mem % 8 = 0 /\ q.bytes >= 16 /\ PoolBytes(q) >= 24
      /\ PoolBytes(q) <= BlockSizeMax /\ PoolBytes(q) # BlockSizeMax
  BY ConstantsIs, PoolAssumption DEF PoolFits, Overhead, BlockSizeMin
<1>2. /\ q.mem % 8 = 0 /\ q.bytes >= 16 /\ PoolBytes(q) >= 24 /\ PoolBytes(q) < BlockSizeMax
  <2>1. PoolBytes(q) \in Int /\ BlockSizeMax \in Int BY <1>1, <1>3, ConstantsIs
  <2> QED BY <1>0, <2>1
<1>4. PICK m \in Nat, n \in Nat : m = q.mem /\ n = q.bytes BY <1>1
<1>5. PoolBytes(q) \in Nat /\ PoolBytes(q) % 8 = 0 /\ PoolBytes(q) <= n - 16
  BY <1>2, <1>3, <1>4
<1>6. PICK w \in Nat : w = PoolBytes(q) /\ w % 8 = 0 /\ w <= n - 16 /\ w >= 24 BY <1>2, <1>5
<1>7. PoolFirst(q) = m - 8 /\ PoolEnd(q) = m - 8 + w + 8
  BY <1>4, <1>6 DEF PoolFirst, PoolEnd, Overhead
<1>8. /\ m - 8 \in Nat /\ (m - 8) % 8 = 0 /\ m - 8 + w + 8 \in Nat
      /\ (m - 8 + w + 8) % 8 = 0
  BY <1>1, <1>2, <1>4, <1>6
<1> QED BY <1>1, <1>2, <1>4, <1>6, <1>7, <1>8

\* Two pools do not meet.
LEMMA PoolsApart ==
  ASSUME NEW q \in Pools, NEW r \in Pools, PoolFits(q), PoolFits(r), q # r
  PROVE  PoolEnd(q) < PoolFirst(r) \/ PoolEnd(r) < PoolFirst(q)
<1>1. q.mem + q.bytes <= r.mem \/ r.mem + r.bytes <= q.mem BY HeapAssumption
<1> QED BY <1>1, PoolIs

\* adjust_request_size() refuses, or returns a size that a block can have.
LEMMA AdjustIs ==
  ASSUME NEW n \in Nat
  PROVE  LET j == AdjustRequestSize(n, AlignSize)
         IN  j = 0 \/ (j \in Nat /\ j >= 24 /\ j % 8 = 0 /\ j >= n /\ j < BlockSizeMax)
<1>1. AlignSize = 8 /\ BlockSizeMax \in Nat BY ConstantsIs
<1>2. BlockSizeMax > 24
  <2>1. FirstPool \in Pools BY DEF Pools
  <2>2. PoolBytes(FirstPool) \in Nat /\ PoolBytes(FirstPool) >= 24 /\ PoolBytes(FirstPool) < BlockSizeMax
    BY <2>1, PoolIs, FirstPoolAssumption
  <2> QED BY <1>1, <2>2
<1>3. PICK x \in Nat : x = AlignUp(n, 8) /\ x % 8 = 0 /\ x >= n BY AlignUp8
<1>4. AdjustRequestSize(n, AlignSize) =
        IF n = 0 \/ x >= BlockSizeMax THEN 0 ELSE IF x < 24 THEN 24 ELSE x
  BY <1>1, <1>3 DEF AdjustRequestSize, BlockSizeMin
<1> QED BY <1>1, <1>2, <1>3, <1>4

----------------------------------------------------------------------------
(* Blocks in memory.                                                       *)

After(size, b) == b + size[b] + 8

GoodPools(ps) == \A q \in ps : q \in Pools /\ PoolFits(q)

\* What a block is: aligned, and of a size for which there is a next block,
\* unless it is a sentinel.
Shaped(size) ==
  /\ \A b \in DOMAIN size : b \in Nat /\ b % 8 = 0 /\ size[b] \in Nat
  /\ \A b \in DOMAIN size : size[b] # 0 =>
       size[b] >= 24 /\ size[b] % 8 = 0 /\ After(size, b) \in DOMAIN size

\* No two overlap.
Disjoint(size) ==
  \A b, c \in DOMAIN size : b < c => After(size, b) <= c

\* Every pool begins with a block and ends with a sentinel, and every block is
\* in a pool.
Pooled(size, ps) ==
  /\ \A q \in ps : /\ PoolFirst(q) \in DOMAIN size /\ PoolEnd(q) \in DOMAIN size
                   /\ size[PoolEnd(q)] = 0
  /\ \A b \in DOMAIN size : \E q \in ps :
       PoolFirst(q) <= b /\ b <= PoolEnd(q) /\ (size[b] = 0 => b = PoolEnd(q))

\* The blocks tile the pools.
Tiled(size, ps) == Shaped(size) /\ Disjoint(size) /\ Pooled(size, ps) /\ GoodPools(ps)

\* A block that is not a sentinel ends inside its pool, and the block after it
\* is not the first of a pool.
LEMMA InsidePool ==
  ASSUME NEW size, NEW ps, Tiled(size, ps), NEW b \in DOMAIN size, size[b] # 0
  PROVE  /\ \E q \in ps : /\ PoolFirst(q) <= b /\ b < PoolEnd(q)
                          /\ After(size, b) <= PoolEnd(q)
         /\ \A q \in ps : After(size, b) # PoolFirst(q)
<1>1. PICK q \in ps : PoolFirst(q) <= b /\ b <= PoolEnd(q) /\ PoolEnd(q) \in DOMAIN size
                      /\ size[PoolEnd(q)] = 0
  BY DEF Tiled, Pooled
<1>2. b \in Nat /\ size[b] \in Nat /\ PoolEnd(q) \in Nat /\ PoolFirst(q) \in Nat
  BY <1>1, PoolIs DEF Tiled, Shaped, GoodPools
<1>3. b < PoolEnd(q) BY <1>1, <1>2
<1>4. After(size, b) <= PoolEnd(q) BY <1>1, <1>3 DEF Tiled, Disjoint
<1>5. ASSUME NEW r \in ps, After(size, b) = PoolFirst(r) PROVE FALSE
  <2>1. PoolFirst(r) \in Nat /\ PoolEnd(r) \in Nat /\ PoolFirst(r) <= PoolEnd(r)
    BY PoolIs DEF Tiled, GoodPools
  <2>2. b < PoolFirst(r) BY <1>2, <1>5 DEF After
  <2>3. q # r BY <1>1, <1>2, <2>1, <2>2
  <2>4. PoolEnd(q) < PoolFirst(r) \/ PoolEnd(r) < PoolFirst(q)
    BY <2>3, PoolsApart DEF Tiled, GoodPools
  <2> QED BY <1>1, <1>2, <1>4, <1>5, <2>1, <2>2, <2>4
<1> QED BY <1>1, <1>3, <1>4, <1>5

\* A block is smaller than the largest size.
LEMMA SizeBound ==
  ASSUME NEW size, NEW ps, Tiled(size, ps), NEW b \in DOMAIN size
  PROVE  size[b] \in Nat /\ size[b] < BlockSizeMax
<1>c. BlockSizeMax \in Nat /\ BlockSizeMax >= 1 BY ConstantsIs
<1>1. b \in Nat /\ size[b] \in Nat BY DEF Tiled, Shaped
<1>2. CASE size[b] = 0 BY <1>2, <1>c
<1>3. CASE size[b] # 0
  <2>1. PICK q \in ps : PoolFirst(q) <= b /\ After(size, b) <= PoolEnd(q) BY <1>3, InsidePool
  <2>2. /\ PoolFirst(q) \in Nat /\ PoolBytes(q) \in Nat /\ PoolBytes(q) < BlockSizeMax
        /\ PoolEnd(q) = PoolFirst(q) + PoolBytes(q) + 8
    BY PoolIs DEF Tiled, GoodPools
  <2>3. b + size[b] + 8 <= PoolFirst(q) + PoolBytes(q) + 8 BY <2>1, <2>2 DEF After
  <2> QED BY <1>1, <1>c, <2>1, <2>2, <2>3
<1> QED BY <1>2, <1>3

\* Different blocks have different blocks after them.
LEMMA AfterUnique ==
  ASSUME NEW size, Shaped(size), Disjoint(size),
         NEW b \in DOMAIN size, NEW c \in DOMAIN size
  PROVE  /\ After(size, b) \in Nat /\ After(size, b) > b
         /\ After(size, b) = After(size, c) => b = c
<1>1. b \in Nat /\ c \in Nat /\ size[b] \in Nat /\ size[c] \in Nat BY DEF Shaped
<1>2. b < c => After(size, b) <= c BY DEF Disjoint
<1>3. c < b => After(size, c) <= b BY DEF Disjoint
<1> QED BY <1>1, <1>2, <1>3 DEF After

\* Block b of size in two, the second at r.
Halved(size, S, b, n, r) ==
  /\ r = b + n + 8
  /\ DOMAIN S = DOMAIN size \cup {r}
  /\ S[b] = n /\ S[r] = size[b] - (n + 8)
  /\ \A c \in DOMAIN size : c # b => S[c] = size[c]

\* Splitting a block keeps the tiling.
LEMMA HalvedTiled ==
  ASSUME NEW size, NEW ps, Tiled(size, ps), NEW b \in DOMAIN size, size[b] # 0,
         NEW n \in Nat, n >= 24, n % 8 = 0, size[b] >= n + 32,
         NEW S, NEW r, Halved(size, S, b, n, r)
  PROVE  /\ Tiled(S, ps) /\ r \notin DOMAIN size /\ r \in Nat /\ r # b /\ r % 8 = 0
         /\ S[r] \in Nat /\ S[r] >= 24
         /\ After(S, b) = r /\ After(S, r) = After(size, b)
         /\ \A c \in DOMAIN size : c # b => After(S, c) = After(size, c)
<1>1. PICK s \in Nat : /\ s = size[b] /\ s >= n + 32 /\ s % 8 = 0 /\ b \in Nat /\ b % 8 = 0
                       /\ b + s + 8 \in DOMAIN size /\ After(size, b) = b + s + 8
  BY DEF Tiled, Shaped, After
<1>2. /\ r = b + n + 8 /\ r \in Nat /\ r % 8 = 0 /\ b < r /\ r < b + s + 8 /\ r # b
      /\ S[r] = s - (n + 8) /\ S[r] \in Nat /\ S[r] >= 24 /\ S[r] % 8 = 0 /\ S[b] = n
  BY <1>1 DEF Halved
<1>3. r \notin DOMAIN size
  <2>1. ASSUME r \in DOMAIN size PROVE FALSE
    <3>1. After(size, b) <= r BY <1>2, <2>1 DEF Tiled, Disjoint
    <3> QED BY <1>1, <1>2, <3>1
  <2> QED BY <2>1
<1>4. After(S, b) = r /\ After(S, r) = After(size, b)
  BY <1>1, <1>2 DEF After
<1>5. \A c \in DOMAIN size : c # b => S[c] = size[c] /\ After(S, c) = After(size, c)
  BY DEF After, Halved
<1>6. DOMAIN S = DOMAIN size \cup {r} BY DEF Halved
<1>7. Shaped(S)
  <2>1. \A c \in DOMAIN size : c \in Nat /\ c % 8 = 0 /\ size[c] \in Nat BY DEF Tiled, Shaped
  <2>2. ASSUME NEW c \in DOMAIN S PROVE c \in Nat /\ c % 8 = 0 /\ S[c] \in Nat
    BY <1>2, <1>5, <1>6, <2>1
  <2>3. ASSUME NEW c \in DOMAIN S, S[c] # 0
        PROVE  S[c] >= 24 /\ S[c] % 8 = 0 /\ After(S, c) \in DOMAIN S
    <3>1. CASE c = b BY <1>2, <1>4, <1>6, <3>1
    <3>2. CASE c = r BY <1>1, <1>2, <1>4, <1>6, <3>2
    <3>3. CASE c \in DOMAIN size /\ c # b BY <1>5, <1>6, <2>3, <3>3 DEF Tiled, Shaped
    <3> QED BY <1>6, <3>1, <3>2, <3>3
  <2> QED BY <2>2, <2>3 DEF Shaped
<1>8. Disjoint(S)
  <2> SUFFICES ASSUME NEW c \in DOMAIN S, NEW d \in DOMAIN S, c < d
               PROVE  After(S, c) <= d
    BY DEF Disjoint
  <2>1. /\ \A x, y \in DOMAIN size : x < y => After(size, x) <= y
        /\ \A x \in DOMAIN size : x \in Nat /\ size[x] \in Nat
    BY DEF Tiled, Disjoint, Shaped
  <2>2. CASE c \in DOMAIN size /\ d \in DOMAIN size /\ c # b BY <1>5, <2>1, <2>2
  <2>3. CASE c = b /\ d \in DOMAIN size
    <3>1. b + s + 8 <= d BY <1>1, <2>1, <2>3
    <3> QED BY <1>2, <1>4, <2>1, <2>3, <3>1
  <2>4. CASE c = b /\ d = r BY <1>2, <1>4, <2>4
  <2>5. CASE c = r /\ d \in DOMAIN size
    <3>1. b < d BY <1>1, <1>2, <2>1, <2>5
    <3>2. After(size, b) <= d BY <2>1, <2>5, <3>1
    <3> QED BY <1>4, <2>5, <3>2
  <2>6. CASE c = r /\ d = r BY <1>2, <2>6
  <2>7. CASE c \in DOMAIN size /\ c # b /\ d = r
    <3>1. c < b
      <4>1. ASSUME b < c PROVE FALSE
        <5>1. b + s + 8 <= c BY <1>1, <2>1, <2>7, <4>1
        <5> QED BY <1>2, <2>1, <2>7, <5>1
      <4> QED BY <1>1, <2>1, <2>7, <4>1
    <3>2. After(size, c) <= b /\ After(size, c) \in Nat BY <2>1, <2>7, <3>1 DEF After
    <3> QED BY <1>1, <1>2, <1>5, <2>7, <3>2
  <2> QED BY <1>6, <2>2, <2>3, <2>4, <2>5, <2>6, <2>7
<1>9. Pooled(S, ps)
  <2>1. ASSUME NEW q \in ps
        PROVE  /\ PoolFirst(q) \in DOMAIN S /\ PoolEnd(q) \in DOMAIN S /\ S[PoolEnd(q)] = 0
    <3>1. /\ PoolFirst(q) \in DOMAIN size /\ PoolEnd(q) \in DOMAIN size
          /\ size[PoolEnd(q)] = 0
      BY DEF Tiled, Pooled
    <3> QED BY <1>5, <1>6, <3>1
  <2>2. ASSUME NEW c \in DOMAIN S
        PROVE  \E q \in ps : PoolFirst(q) <= c /\ c <= PoolEnd(q) /\ (S[c] = 0 => c = PoolEnd(q))
    <3>1. PICK q \in ps : PoolFirst(q) <= b /\ b < PoolEnd(q) /\ After(size, b) <= PoolEnd(q)
      BY InsidePool
    <3>2. PoolFirst(q) \in Nat /\ PoolEnd(q) \in Nat BY PoolIs DEF Tiled, GoodPools
    <3>3. CASE c = b BY <1>1, <1>2, <3>1, <3>2, <3>3
    <3>4. CASE c = r BY <1>1, <1>2, <3>1, <3>2, <3>4
    <3>5. CASE c \in DOMAIN size /\ c # b BY <1>5, <3>5 DEF Tiled, Pooled
    <3> QED BY <1>6, <3>3, <3>4, <3>5
  <2> QED BY <2>1, <2>2 DEF Pooled
<1>10. Tiled(S, ps) BY <1>7, <1>8, <1>9 DEF Tiled
<1> QED BY <1>2, <1>3, <1>4, <1>5, <1>10

\* Block b of size taken into p.
Joined(size, S, p, b) ==
  /\ DOMAIN S = DOMAIN size \ {b}
  /\ S[p] = size[p] + size[b] + 8
  /\ \A c \in DOMAIN size : c # b /\ c # p => S[c] = size[c]

\* So does joining a block with the next one.
LEMMA JoinedTiled ==
  ASSUME NEW size, NEW ps, Tiled(size, ps), NEW p \in DOMAIN size, size[p] # 0,
         NEW b \in DOMAIN size, b = After(size, p), size[b] # 0,
         NEW S, Joined(size, S, p, b)
  PROVE  /\ Tiled(S, ps) /\ p # b /\ p \in DOMAIN S /\ S[p] # 0 /\ S[p] \in Nat
         /\ After(S, p) = After(size, b)
         /\ \A c \in DOMAIN size : c # b /\ c # p => After(S, c) = After(size, c)
<1>1. PICK s \in Nat, t \in Nat :
        /\ s = size[p] /\ s >= 24 /\ s % 8 = 0 /\ p \in Nat /\ p % 8 = 0 /\ b = p + s + 8
        /\ t = size[b] /\ t >= 24 /\ t % 8 = 0 /\ b + t + 8 \in DOMAIN size
        /\ After(size, b) = b + t + 8 /\ b \in Nat
  BY DEF Tiled, Shaped, After
<1>2. S[p] = s + t + 8 /\ DOMAIN S = DOMAIN size \ {b} BY <1>1 DEF Joined
<1>3. p # b /\ p \in DOMAIN S /\ After(S, p) = After(size, b) BY <1>1, <1>2 DEF After
<1>4. \A c \in DOMAIN size : c # b /\ c # p => S[c] = size[c] /\ After(S, c) = After(size, c)
  BY DEF After, Joined
<1>5. /\ \A x, y \in DOMAIN size : x < y => After(size, x) <= y
      /\ \A x \in DOMAIN size : x \in Nat /\ size[x] \in Nat
  BY DEF Tiled, Disjoint, Shaped
<1>6. Shaped(S)
  <2>1. ASSUME NEW c \in DOMAIN S PROVE c \in Nat /\ c % 8 = 0 /\ S[c] \in Nat
    <3>1. CASE c = p BY <1>1, <1>2, <3>1
    <3>2. CASE c # p BY <1>2, <1>4, <3>2 DEF Tiled, Shaped
    <3> QED BY <3>1, <3>2
  <2>2. ASSUME NEW c \in DOMAIN S, S[c] # 0
        PROVE  S[c] >= 24 /\ S[c] % 8 = 0 /\ After(S, c) \in DOMAIN S
    <3>1. CASE c = p BY <1>1, <1>2, <1>3, <3>1
    <3>2. CASE c # p
      <4>1. S[c] = size[c] /\ After(S, c) = After(size, c) /\ c \in DOMAIN size
        BY <1>2, <1>4, <3>2
      <4>2. S[c] >= 24 /\ S[c] % 8 = 0 /\ After(size, c) \in DOMAIN size
        BY <2>2, <4>1 DEF Tiled, Shaped
      <4>3. After(size, c) # b BY <3>2, <4>1, AfterUnique DEF Tiled
      <4> QED BY <1>2, <4>1, <4>2, <4>3
    <3> QED BY <3>1, <3>2
  <2> QED BY <2>1, <2>2 DEF Shaped
<1>7. Disjoint(S)
  <2> SUFFICES ASSUME NEW c \in DOMAIN S, NEW d \in DOMAIN S, c < d
               PROVE  After(S, c) <= d
    BY DEF Disjoint
  <2>1. CASE c # p BY <1>2, <1>4, <1>5, <2>1
  <2>2. CASE c = p
    <3>1. b <= d /\ d # b BY <1>2, <1>5, <2>2
    <3>2. b < d BY <1>1, <1>2, <1>5, <3>1
    <3>3. After(size, b) <= d BY <1>2, <1>5, <3>2
    <3> QED BY <1>3, <2>2, <3>3
  <2> QED BY <2>1, <2>2
<1>8. Pooled(S, ps)
  <2>1. ASSUME NEW q \in ps
        PROVE  /\ PoolFirst(q) \in DOMAIN S /\ PoolEnd(q) \in DOMAIN S /\ S[PoolEnd(q)] = 0
    <3>1. /\ PoolFirst(q) \in DOMAIN size /\ PoolEnd(q) \in DOMAIN size
          /\ size[PoolEnd(q)] = 0
      BY DEF Tiled, Pooled
    <3>2. PoolFirst(q) # b BY InsidePool
    <3> QED BY <1>2, <1>4, <3>1, <3>2
  <2>2. ASSUME NEW c \in DOMAIN S
        PROVE  \E q \in ps : PoolFirst(q) <= c /\ c <= PoolEnd(q) /\ (S[c] = 0 => c = PoolEnd(q))
    <3>1. PICK q \in ps :
            PoolFirst(q) <= c /\ c <= PoolEnd(q) /\ (size[c] = 0 => c = PoolEnd(q))
      BY <1>2 DEF Tiled, Pooled
    <3>2. S[c] = 0 => size[c] = 0 BY <1>1, <1>2, <1>4
    <3> QED BY <3>1, <3>2
  <2> QED BY <2>1, <2>2 DEF Pooled
<1>9. Tiled(S, ps) BY <1>6, <1>7, <1>8 DEF Tiled
<1> QED BY <1>1, <1>2, <1>3, <1>4, <1>9

\* The flags and the prev_phys_block words tell which blocks are free.
Tagged(size, free, prevfree, prev) ==
  /\ \A b \in free : b \in DOMAIN size /\ size[b] # 0
  /\ \A c : c \in prevfree <=> \E b \in free : c = After(size, b)
  /\ DOMAIN prev = prevfree
  /\ \A b \in free : prev[After(size, b)] = b

\* A free block cut in two free ones.
LEMMA HalvedFree ==
  ASSUME NEW size, NEW F, NEW P, NEW V, Tagged(size, F, P, V), NEW ps, Tiled(size, ps),
         NEW b \in F, NEW n \in Nat, n >= 24, n % 8 = 0, size[b] >= n + 32,
         NEW S, NEW r, Halved(size, S, b, n, r),
         NEW Q, Q = P \cup {r, After(size, b)},
         NEW W, DOMAIN W = Q, W[After(size, b)] = r, W[r] = b,
         \A c \in P : c # r /\ c # After(size, b) => W[c] = V[c]
  PROVE  Tagged(S, F \cup {r}, Q, W)
<1>1. b \in DOMAIN size /\ size[b] # 0 BY DEF Tagged
<1>2. /\ r \notin DOMAIN size /\ r \in Nat /\ S[r] >= 24 /\ S[r] \in Nat
      /\ After(S, b) = r /\ After(S, r) = After(size, b)
      /\ \A c \in DOMAIN size : c # b => After(S, c) = After(size, c)
  BY <1>1, HalvedTiled
<1>3. ASSUME NEW c \in F, c # b
      PROVE  /\ c \in DOMAIN size /\ After(S, c) = After(size, c) /\ After(size, c) # r
             /\ After(size, c) # After(size, b) /\ After(size, c) \in P
  <2>1. c \in DOMAIN size /\ size[c] # 0 /\ After(size, c) \in P BY DEF Tagged
  <2>2. After(size, c) \in DOMAIN size BY <2>1 DEF Tiled, Shaped
  <2>3. After(size, c) # After(size, b) BY <1>1, <1>3, <2>1, AfterUnique DEF Tiled
  <2> QED BY <1>2, <1>3, <2>1, <2>2, <2>3
<1>4. \A c \in F \cup {r} : c \in DOMAIN S /\ S[c] # 0
  BY <1>1, <1>2, <1>3 DEF Tagged, Halved
<1>5. ASSUME NEW c PROVE c \in Q <=> \E x \in F \cup {r} : c = After(S, x)
  <2>1. c \in P <=> \E x \in F : c = After(size, x) BY DEF Tagged
  <2> QED BY <1>2, <1>3, <2>1
<1>6. \A c \in F \cup {r} : W[After(S, c)] = c
  <2>1. \A c \in F : V[After(size, c)] = c BY DEF Tagged
  <2> QED BY <1>2, <1>3, <2>1
<1> QED BY <1>4, <1>5, <1>6 DEF Tagged

\* A used block cut in a used and a free one.
LEMMA HalvedUsed ==
  ASSUME NEW size, NEW F, NEW P, NEW V, Tagged(size, F, P, V), NEW ps, Tiled(size, ps),
         NEW b \in DOMAIN size, size[b] # 0, b \notin F,
         NEW n \in Nat, n >= 24, n % 8 = 0, size[b] >= n + 32,
         NEW S, NEW r, Halved(size, S, b, n, r),
         NEW Q, Q = P \cup {After(size, b)},
         NEW W, DOMAIN W = Q, W[After(size, b)] = r,
         \A c \in P : c # After(size, b) => W[c] = V[c]
  PROVE  Tagged(S, F \cup {r}, Q, W) /\ r \notin Q
<1>2. /\ r \notin DOMAIN size /\ r \in Nat /\ S[r] >= 24 /\ S[r] \in Nat
      /\ After(S, b) = r /\ After(S, r) = After(size, b)
      /\ \A c \in DOMAIN size : c # b => After(S, c) = After(size, c)
  BY HalvedTiled
<1>3. ASSUME NEW c \in F
      PROVE  /\ c \in DOMAIN size /\ After(S, c) = After(size, c) /\ After(size, c) # r
             /\ After(size, c) # After(size, b) /\ After(size, c) \in P
  <2>1. c \in DOMAIN size /\ size[c] # 0 /\ After(size, c) \in P BY DEF Tagged
  <2>2. After(size, c) \in DOMAIN size BY <2>1 DEF Tiled, Shaped
  <2>3. After(size, c) # After(size, b) BY <2>1, AfterUnique DEF Tiled
  <2> QED BY <1>2, <2>1, <2>2, <2>3
<1>4. \A c \in F \cup {r} : c \in DOMAIN S /\ S[c] # 0
  BY <1>2, <1>3 DEF Tagged, Halved
<1>5. ASSUME NEW c PROVE c \in Q <=> \E x \in F \cup {r} : c = After(S, x)
  <2>1. c \in P <=> \E x \in F : c = After(size, x) BY DEF Tagged
  <2> QED BY <1>2, <1>3, <2>1
<1>6. \A c \in F \cup {r} : W[After(S, c)] = c
  <2>1. \A c \in F : V[After(size, c)] = c BY DEF Tagged
  <2> QED BY <1>2, <1>3, <2>1
<1>7. r \notin Q
  <2>1. After(size, b) \in DOMAIN size BY DEF Tiled, Shaped
  <2>2. r \notin P BY <1>3 DEF Tagged
  <2> QED BY <1>2, <2>1, <2>2
<1> QED BY <1>4, <1>5, <1>6, <1>7 DEF Tagged

\* Two free blocks joined in one.
LEMMA JoinedFree ==
  ASSUME NEW size, NEW F, NEW P, NEW V, Tagged(size, F, P, V), NEW ps, Tiled(size, ps),
         NEW p \in F, NEW b \in F, b = After(size, p),
         NEW S, Joined(size, S, p, b),
         NEW Q, Q = P \ {b},
         NEW W, DOMAIN W = Q, W[After(size, b)] = p,
         \A c \in Q : c # After(size, b) => W[c] = V[c]
  PROVE  Tagged(S, F \ {b}, Q, W)
<1>1. p \in DOMAIN size /\ size[p] # 0 /\ b \in DOMAIN size /\ size[b] # 0 BY DEF Tagged
<1>2. /\ p # b /\ p \in DOMAIN S /\ S[p] # 0 /\ After(S, p) = After(size, b)
      /\ \A c \in DOMAIN size : c # b /\ c # p => After(S, c) = After(size, c)
  BY <1>1, JoinedTiled
<1>3. ASSUME NEW c \in F, c # b, c # p
      PROVE  /\ c \in DOMAIN size /\ After(S, c) = After(size, c) /\ After(size, c) # b
             /\ After(size, c) # After(size, b) /\ After(size, c) \in P
  <2>1. c \in DOMAIN size /\ size[c] # 0 /\ After(size, c) \in P BY DEF Tagged
  <2>2. After(size, c) # After(size, b) BY <1>1, <1>3, <2>1, AfterUnique DEF Tiled
  <2>3. After(size, c) # b BY <1>1, <1>3, <2>1, AfterUnique DEF Tiled
  <2> QED BY <1>2, <1>3, <2>1, <2>2, <2>3
<1>4. \A c \in F \ {b} : c \in DOMAIN S /\ S[c] # 0
  BY <1>1, <1>2, <1>3 DEF Tagged, Joined
<1>5. After(size, b) # b /\ After(size, b) \in P
  <2>1. After(size, b) > b /\ After(size, b) \in Nat /\ b \in Nat
    BY <1>1, AfterUnique DEF Tiled, Shaped
  <2> QED BY <2>1 DEF Tagged
<1>6. ASSUME NEW c PROVE c \in Q <=> \E x \in F \ {b} : c = After(S, x)
  <2>1. c \in P <=> \E x \in F : c = After(size, x) BY DEF Tagged
  <2>2. ASSUME c \in Q PROVE \E x \in F \ {b} : c = After(S, x)
    <3>1. PICK x \in F : c = After(size, x) /\ c # b BY <2>1, <2>2
    <3>2. CASE x = b BY <1>2, <3>1, <3>2
    <3>3. CASE x = p BY <3>1, <3>3
    <3>4. CASE x # b /\ x # p BY <1>3, <3>1, <3>4
    <3> QED BY <3>2, <3>3, <3>4
  <2>3. ASSUME NEW x \in F \ {b}, c = After(S, x) PROVE c \in Q
    <3>1. CASE x = p BY <1>2, <1>5, <2>3, <3>1
    <3>2. CASE x # p BY <1>3, <2>3, <3>2
    <3> QED BY <3>1, <3>2
  <2> QED BY <2>2, <2>3
<1>7. \A c \in F \ {b} : W[After(S, c)] = c
  <2>1. \A c \in F : V[After(size, c)] = c BY DEF Tagged
  <2> QED BY <1>2, <1>3, <2>1
<1> QED BY <1>4, <1>6, <1>7 DEF Tagged

\* A free block joined to the used one before it.
LEMMA JoinedUsed ==
  ASSUME NEW size, NEW F, NEW P, NEW V, Tagged(size, F, P, V), NEW ps, Tiled(size, ps),
         NEW p \in DOMAIN size, size[p] # 0, p \notin F, NEW b \in F, b = After(size, p),
         NEW S, Joined(size, S, p, b),
         NEW Q, Q = P \ {After(size, b)},
         NEW W, DOMAIN W = Q, \A c \in Q : W[c] = V[c]
  PROVE  Tagged(S, F \ {b}, Q, W)
<1>1. b \in DOMAIN size /\ size[b] # 0 BY DEF Tagged
<1>2. /\ p # b /\ p \in DOMAIN S /\ S[p] # 0 /\ After(S, p) = After(size, b)
      /\ \A c \in DOMAIN size : c # b /\ c # p => After(S, c) = After(size, c)
  BY <1>1, JoinedTiled
<1>3. ASSUME NEW c \in F, c # b
      PROVE  /\ c \in DOMAIN size /\ c # p /\ After(S, c) = After(size, c)
             /\ After(size, c) # After(size, b) /\ After(size, c) \in P
  <2>1. c \in DOMAIN size /\ size[c] # 0 /\ After(size, c) \in P BY DEF Tagged
  <2>2. After(size, c) # After(size, b) BY <1>1, <1>3, <2>1, AfterUnique DEF Tiled
  <2> QED BY <1>2, <1>3, <2>1, <2>2
<1>4. \A c \in F \ {b} : c \in DOMAIN S /\ S[c] # 0
  BY <1>1, <1>2, <1>3 DEF Tagged, Joined
<1>6. ASSUME NEW c PROVE c \in Q <=> \E x \in F \ {b} : c = After(S, x)
  <2>1. c \in P <=> \E x \in F : c = After(size, x) BY DEF Tagged
  <2> QED BY <1>2, <1>3, <2>1
<1>7. \A c \in F \ {b} : W[After(S, c)] = c
  <2>1. \A c \in F : V[After(size, c)] = c BY DEF Tagged
  <2> QED BY <1>3, <2>1
<1> QED BY <1>4, <1>6, <1>7 DEF Tagged

\* A used block becomes free.
LEMMA FreedTagged ==
  ASSUME NEW size, NEW F, NEW P, NEW V, Tagged(size, F, P, V), NEW ps, Tiled(size, ps),
         NEW b \in DOMAIN size, size[b] # 0, b \notin F,
         NEW Q, Q = P \cup {After(size, b)},
         NEW W, DOMAIN W = Q, W[After(size, b)] = b,
         \A c \in P : c # After(size, b) => W[c] = V[c]
  PROVE  Tagged(size, F \cup {b}, Q, W)
<1>1. ASSUME NEW c \in F
      PROVE  c \in DOMAIN size /\ After(size, c) # After(size, b) /\ After(size, c) \in P
  <2>1. c \in DOMAIN size /\ size[c] # 0 /\ After(size, c) \in P BY DEF Tagged
  <2>2. After(size, c) # After(size, b) BY <2>1, AfterUnique DEF Tiled
  <2> QED BY <2>1, <2>2
<1>2. ASSUME NEW c PROVE c \in Q <=> \E x \in F \cup {b} : c = After(size, x)
  <2>1. c \in P <=> \E x \in F : c = After(size, x) BY DEF Tagged
  <2> QED BY <2>1
<1>3. \A c \in F \cup {b} : W[After(size, c)] = c
  <2>1. \A c \in F : V[After(size, c)] = c BY DEF Tagged
  <2> QED BY <1>1, <2>1
<1> QED BY <1>2, <1>3 DEF Tagged

\* A free block becomes used.
LEMMA UsedTagged ==
  ASSUME NEW size, NEW F, NEW P, NEW V, Tagged(size, F, P, V), NEW ps, Tiled(size, ps),
         NEW b \in F,
         NEW Q, Q = P \ {After(size, b)},
         NEW W, DOMAIN W = Q, \A c \in Q : W[c] = V[c]
  PROVE  Tagged(size, F \ {b}, Q, W)
<1>1. ASSUME NEW c \in F, c # b
      PROVE  c \in DOMAIN size /\ After(size, c) # After(size, b) /\ After(size, c) \in P
  <2>1. c \in DOMAIN size /\ size[c] # 0 /\ After(size, c) \in P BY DEF Tagged
  <2>2. After(size, c) # After(size, b)
    BY <1>1, <2>1, AfterUnique DEF Tiled, Tagged
  <2> QED BY <2>1, <2>2
<1>2. ASSUME NEW c PROVE c \in Q <=> \E x \in F \ {b} : c = After(size, x)
  <2>1. c \in P <=> \E x \in F : c = After(size, x) BY DEF Tagged
  <2> QED BY <1>1, <2>1
<1>3. \A c \in F \ {b} : W[After(size, c)] = c
  <2>1. \A c \in F : V[After(size, c)] = c BY DEF Tagged
  <2> QED BY <1>1, <2>1
<1> QED BY <1>2, <1>3 DEF Tagged

----------------------------------------------------------------------------
(* The heap's words.                                                       *)

SameLists(g, h) == g.blocks = h.blocks /\ g.fl = h.fl /\ g.sl = h.sl

\* g is h with other block words.
Has(g, h, size, prev, free, prevfree) ==
  /\ IsHeap(g) /\ SameLists(g, h)
  /\ g.size = size /\ g.prev = prev /\ g.free = free /\ g.prevfree = prevfree

Put(f, x, v) == [c \in DOMAIN f \cup {x} |-> IF c = x THEN v ELSE f[c]]
Cut(f, x)    == [c \in DOMAIN f \ {x} |-> f[c]]

\* block_next() is where the block ends.
LEMMA NextIs ==
  ASSUME NEW h, NEW b
  PROVE  BlockNext(h, b) = After(h.size, b)
BY DEF BlockNext, After, Overhead

\* block_set_size().
LEMMA SetSizeIs ==
  ASSUME NEW h, IsHeap(h), NEW b, NEW n
  PROVE  Has(SetSize(h, b, n), h, Put(h.size, b, n), h.prev, h.free, h.prevfree)
<1>h. PICK hs, hp, hf, he, bl, fl, sl :
        h = [size |-> hs, prev |-> hp, free |-> hf, prevfree |-> he,
             blocks |-> bl, fl |-> fl, sl |-> sl, ok |-> TRUE]
  BY DEF IsHeap
<1>1. SetSize(h, b, n) = [h EXCEPT !.size = Put(h.size, b, n)]
  BY <1>h DEF SetSize, Put
<1> QED BY <1>h, <1>1 DEF Has, IsHeap, SameLists

\* block_link_next().
LEMMA LinkNextIs ==
  ASSUME NEW h, IsHeap(h), NEW b, h.size[b] # 0
  PROVE  Has(LinkNext(h, b), h, h.size, Put(h.prev, After(h.size, b), b), h.free, h.prevfree)
<1>h. PICK hs, hp, hf, he, bl, fl, sl :
        h = [size |-> hs, prev |-> hp, free |-> hf, prevfree |-> he,
             blocks |-> bl, fl |-> fl, sl |-> sl, ok |-> TRUE]
  BY DEF IsHeap
<1>1. Insist(h, h.size[b] # 0) = h BY InsistIs
<1>2. LinkNext(h, b) = [h EXCEPT !.prev = Put(h.prev, After(h.size, b), b)]
  BY <1>h, <1>1, NextIs DEF LinkNext, Put
<1> QED BY <1>h, <1>2 DEF Has, IsHeap, SameLists

\* block_mark_as_free().
LEMMA MarkAsFreeIs ==
  ASSUME NEW h, IsHeap(h), NEW b, h.size[b] # 0
  PROVE  Has(MarkAsFree(h, b), h, h.size, Put(h.prev, After(h.size, b), b),
             h.free \cup {b}, h.prevfree \cup {After(h.size, b)})
<1>1. PICK g : g = LinkNext(h, b) OBVIOUS
<1>2. Has(g, h, h.size, Put(h.prev, After(h.size, b), b), h.free, h.prevfree)
  BY <1>1, LinkNextIs
<1>3. PICK s, p, f, e, bl, fl, sl :
        g = [size |-> s, prev |-> p, free |-> f, prevfree |-> e,
             blocks |-> bl, fl |-> fl, sl |-> sl, ok |-> TRUE]
  BY <1>2 DEF Has, IsHeap
<1>4. MarkAsFree(h, b) = [g EXCEPT !.prevfree = @ \cup {After(h.size, b)}, !.free = @ \cup {b}]
  BY <1>1, NextIs DEF MarkAsFree
<1>5. MarkAsFree(h, b) = [size |-> s, prev |-> p, free |-> f \cup {b},
                          prevfree |-> e \cup {After(h.size, b)},
                          blocks |-> bl, fl |-> fl, sl |-> sl, ok |-> TRUE]
  BY <1>3, <1>4
<1> QED BY <1>2, <1>3, <1>5 DEF Has, IsHeap, SameLists

\* block_mark_as_used().
LEMMA MarkAsUsedIs ==
  ASSUME NEW h, IsHeap(h), NEW b, h.size[b] # 0
  PROVE  Has(MarkAsUsed(h, b), h, h.size, Cut(h.prev, After(h.size, b)),
             h.free \ {b}, h.prevfree \ {After(h.size, b)})
<1>h. PICK s, p, f, e, bl, fl, sl :
        h = [size |-> s, prev |-> p, free |-> f, prevfree |-> e,
             blocks |-> bl, fl |-> fl, sl |-> sl, ok |-> TRUE]
  BY DEF IsHeap
<1>1. Insist(h, h.size[b] # 0) = h BY InsistIs
<1>3. PICK n : n = After(h.size, b) /\ n = BlockNext(h, b) BY NextIs
<1>2. PICK V : V = [c \in DOMAIN h.prev \ {n} |-> h.prev[c]] OBVIOUS
<1>4. MarkAsUsed(h, b) = [h EXCEPT !.prevfree = h.prevfree \ {n}, !.free = h.free \ {b},
                                   !.prev = V]
  BY <1>1, <1>2, <1>3 DEF MarkAsUsed
<1>5. MarkAsUsed(h, b) = [size |-> h.size, prev |-> V, free |-> h.free \ {b},
                          prevfree |-> h.prevfree \ {n},
                          blocks |-> bl, fl |-> fl, sl |-> sl, ok |-> TRUE]
  BY <1>h, <1>4
<1>6. V = Cut(h.prev, n) BY <1>2 DEF Cut
<1>7. h.blocks = bl /\ h.fl = fl /\ h.sl = sl BY <1>h
<1> QED BY <1>3, <1>5, <1>6, <1>7 DEF Has, IsHeap, SameLists

\* block_split().
LEMMA SplitIs ==
  ASSUME NEW h, IsHeap(h), NEW b \in Nat, b % 8 = 0, NEW n \in Nat, n % 8 = 0, n # 0,
         h.size[b] \in Nat, h.size[b] >= n + 32, NEW r, r = b + n + 8
  PROVE  LET S == Put(Put(h.size, r, h.size[b] - (n + 8)), b, n)
         IN  Has(BlockSplit(h, b, n), h, S, Put(h.prev, After(S, r), r),
                 h.free \cup {r}, h.prevfree \cup {After(S, r)})
<1>1. r = Remaining(b, n) BY DEF Remaining, Overhead
<1>2. PICK m \in Nat : m = h.size[b] - (n + 8) /\ m >= 24 OBVIOUS
<1>3. Insist(h, ToPtr(r) % AlignSize = 0 /\ m >= BlockSizeMin) = h
  <2>1. ToPtr(r) % AlignSize = 0 /\ m >= BlockSizeMin
    BY <1>2, ConstantsIs DEF ToPtr, BlockSizeMin
  <2> QED BY <2>1, InsistIs
<1>4. PICK g : g = SetSize(h, r, m) OBVIOUS
<1>5. Has(g, h, Put(h.size, r, m), h.prev, h.free, h.prevfree) BY <1>4, SetSizeIs
<1>6. PICK k : k = SetSize(g, b, n) OBVIOUS
<1>7. PICK S : S = Put(Put(h.size, r, m), b, n) OBVIOUS
<1>8. Has(k, g, Put(g.size, b, n), g.prev, g.free, g.prevfree) BY <1>5, <1>6, SetSizeIs DEF Has
<1>9. IsHeap(k) /\ SameLists(k, h) /\ k.size = S /\ k.prev = h.prev /\ k.free = h.free
      /\ k.prevfree = h.prevfree
  BY <1>5, <1>7, <1>8 DEF Has, SameLists
<1>10. k.size[r] # 0
  <2>1. S[r] = m BY <1>7 DEF Put
  <2> QED BY <1>2, <1>9, <2>1
<1>11. BlockSplit(h, b, n) = MarkAsFree(k, r)
  BY <1>1, <1>2, <1>3, <1>4, <1>6 DEF BlockSplit, Overhead
<1>12. Has(MarkAsFree(k, r), k, k.size, Put(k.prev, After(k.size, r), r),
             k.free \cup {r}, k.prevfree \cup {After(k.size, r)})
  BY <1>9, <1>10, MarkAsFreeIs
<1> QED BY <1>2, <1>7, <1>9, <1>11, <1>12 DEF Has, SameLists

\* block_absorb().
LEMMA AbsorbIs ==
  ASSUME NEW h, IsHeap(h), NEW p, NEW b, p # b, h.size[p] \in Nat, h.size[p] # 0,
         h.size[b] \in Nat
  PROVE  LET S == Cut(Put(h.size, p, h.size[p] + h.size[b] + 8), b)
         IN  Has(BlockAbsorb(h, p, b), h, S, Put(Cut(h.prev, b), After(S, p), p),
                 h.free \ {b}, h.prevfree \ {b})
<1>1. PICK m \in Nat : m = h.size[p] + h.size[b] + 8 /\ m # 0 OBVIOUS
<1>2. Insist(h, h.size[p] # 0) = h BY InsistIs
<1>3. PICK g : g = SetSize(h, p, m) OBVIOUS
<1>4. Has(g, h, Put(h.size, p, m), h.prev, h.free, h.prevfree) BY <1>3, SetSizeIs
<1>5. PICK s, v, f, e, bl, fl, sl :
        g = [size |-> s, prev |-> v, free |-> f, prevfree |-> e,
             blocks |-> bl, fl |-> fl, sl |-> sl, ok |-> TRUE]
  BY <1>4 DEF Has, IsHeap
<1>6. PICK k : k = [g EXCEPT !.size = Cut(g.size, b), !.prev = Cut(g.prev, b),
                             !.free = g.free \ {b}, !.prevfree = g.prevfree \ {b}]
  OBVIOUS
<1>7. BlockAbsorb(h, p, b) = LinkNext(k, p)
  <2>1. k = [g EXCEPT !.size = [c \in DOMAIN @ \ {b} |-> @[c]],
                      !.prev = [c \in DOMAIN @ \ {b} |-> @[c]],
                      !.free = @ \ {b}, !.prevfree = @ \ {b}]
    BY <1>5, <1>6 DEF Cut
  <2> QED BY <1>1, <1>2, <1>3, <2>1 DEF BlockAbsorb, Overhead
<1>8. PICK S : S = Cut(Put(h.size, p, m), b) OBVIOUS
<1>9. IsHeap(k) /\ SameLists(k, h) /\ k.size = S /\ k.prev = Cut(h.prev, b)
      /\ k.free = h.free \ {b} /\ k.prevfree = h.prevfree \ {b}
  BY <1>4, <1>5, <1>6, <1>8 DEF Has, IsHeap, SameLists
<1>10. k.size[p] # 0
  <2>1. p \in DOMAIN Put(h.size, p, m) /\ Put(h.size, p, m)[p] = m BY DEF Put
  <2>2. S[p] = m BY <1>8, <2>1 DEF Cut
  <2> QED BY <1>1, <1>9, <2>2
<1>11. Has(LinkNext(k, p), k, k.size, Put(k.prev, After(k.size, p), p), k.free, k.prevfree)
  BY <1>9, <1>10, LinkNextIs
<1> QED BY <1>1, <1>7, <1>8, <1>9, <1>11 DEF Has, SameLists

----------------------------------------------------------------------------
(* Operations on blocks.                                                   *)

\* The heap is sound, and its lists hold the free blocks in L.
Good(h, ps, L) ==
  /\ IsHeap(h) /\ Tiled(h.size, ps)
  /\ Tagged(h.size, h.free, h.prevfree, h.prev)
  /\ Listed(h, L) /\ L \subseteq h.free

\* The lists depend on the sizes of the blocks in them.
LEMMA ListedKept ==
  ASSUME NEW g, NEW h, NEW L, Listed(h, L), SameLists(g, h),
         \A b \in L : g.size[b] = h.size[b]
  PROVE  Listed(g, L)
BY DEF Listed, SameLists

\* A block that is not a sentinel.
LEMMA BlockIs ==
  ASSUME NEW size, NEW ps, Tiled(size, ps), NEW b \in DOMAIN size, size[b] # 0
  PROVE  /\ b \in Nat /\ b % 8 = 0 /\ size[b] \in Nat /\ size[b] >= 24 /\ size[b] % 8 = 0
         /\ size[b] < BlockSizeMax /\ MappingInsert(size[b]) \in Classes
         /\ After(size, b) \in DOMAIN size /\ After(size, b) \in Nat /\ After(size, b) > b
<1>1. /\ b \in Nat /\ b % 8 = 0 /\ size[b] \in Nat /\ size[b] >= 24 /\ size[b] % 8 = 0
      /\ After(size, b) \in DOMAIN size
  BY DEF Tiled, Shaped
<1>2. size[b] < BlockSizeMax BY SizeBound
<1>3. MappingInsert(size[b]) \in Classes BY <1>1, <1>2, InClasses
<1>4. After(size, b) \in Nat /\ After(size, b) > b BY <1>1 DEF After
<1> QED BY <1>1, <1>2, <1>3, <1>4

\* A free block is one.
LEMMA FreeIs ==
  ASSUME NEW h, NEW ps, NEW L, Good(h, ps, L), NEW b \in h.free
  PROVE  /\ b \in DOMAIN h.size /\ h.size[b] # 0
         /\ b \in Nat /\ b % 8 = 0 /\ h.size[b] \in Nat /\ h.size[b] >= 24
         /\ h.size[b] % 8 = 0 /\ h.size[b] < BlockSizeMax
         /\ MappingInsert(h.size[b]) \in Classes
         /\ After(h.size, b) \in DOMAIN h.size /\ After(h.size, b) > b
<1>1. b \in DOMAIN h.size /\ h.size[b] # 0 /\ Tiled(h.size, ps) BY DEF Good, Tagged
<1> QED BY <1>1, BlockIs

\* block_remove().
LEMMA RemoveGood ==
  ASSUME NEW h, NEW ps, NEW L, Good(h, ps, L), NEW b \in L
  PROVE  Good(BlockRemove(h, b), ps, L \ {b}) /\ SameBlocks(BlockRemove(h, b), h)
<1>1. b \in h.free BY DEF Good
<1>2. PICK c \in Classes : c = MappingInsert(h.size[b]) BY <1>1, FreeIs
<1>3. PICK g : g = RemoveFreeBlock(h, b, c) OBVIOUS
<1>4. IsHeap(g) /\ SameBlocks(g, h) /\ Listed(g, L \ {b}) BY <1>2, <1>3, RemoveIs DEF Good
<1>5. BlockRemove(h, b) = g BY <1>2, <1>3 DEF BlockRemove
<1> QED BY <1>4, <1>5 DEF Good, SameBlocks

\* block_insert().
LEMMA InsertGood ==
  ASSUME NEW h, NEW ps, NEW L, Good(h, ps, L), NEW b \in h.free, b \notin L
  PROVE  Good(BlockInsert(h, b), ps, L \cup {b}) /\ SameBlocks(BlockInsert(h, b), h)
<1>1. b \in Nat /\ b % 8 = 0 BY FreeIs
<1>2. PICK c \in Classes : c = MappingInsert(h.size[b]) BY FreeIs
<1>3. PICK g : g = InsertFreeBlock(h, b, c) OBVIOUS
<1>4. IsHeap(g) /\ SameBlocks(g, h) /\ Listed(g, L \cup {b})
  BY <1>1, <1>2, <1>3, InsertIs DEF Good
<1>5. BlockInsert(h, b) = g BY <1>2, <1>3 DEF BlockInsert
<1> QED BY <1>4, <1>5 DEF Good, SameBlocks

\* block_mark_as_used() on a free block that is in no list.
LEMMA UsedGood ==
  ASSUME NEW h, NEW ps, NEW L, Good(h, ps, L), NEW b \in h.free, b \notin L
  PROVE  LET g == MarkAsUsed(h, b)
         IN  Good(g, ps, L) /\ g.size = h.size /\ g.free = h.free \ {b}
<1>1. PICK g : g = MarkAsUsed(h, b) OBVIOUS
<1>2. IsHeap(h) /\ h.size[b] # 0 BY FreeIs DEF Good
<1>3. Has(g, h, h.size, Cut(h.prev, After(h.size, b)),
          h.free \ {b}, h.prevfree \ {After(h.size, b)})
  BY <1>1, <1>2, MarkAsUsedIs
<1>4. Tagged(g.size, g.free, g.prevfree, g.prev)
  <2>1. Tagged(h.size, h.free, h.prevfree, h.prev) /\ Tiled(h.size, ps)
        /\ DOMAIN h.prev = h.prevfree
    BY DEF Good, Tagged
  <2>2. DOMAIN g.prev = g.prevfree /\ \A c \in g.prevfree : g.prev[c] = h.prev[c]
    BY <1>3, <2>1 DEF Has, Cut
  <2>3. g.size = h.size /\ g.free = h.free \ {b} /\ g.prevfree = h.prevfree \ {After(h.size, b)}
    BY <1>3 DEF Has
  <2> QED BY <2>1, <2>2, <2>3, UsedTagged
<1>5. Listed(g, L) BY <1>3, ListedKept DEF Good, Has
<1> QED BY <1>1, <1>3, <1>4, <1>5 DEF Good, Has

\* block_mark_as_free() on a used one.
LEMMA FreeGood ==
  ASSUME NEW h, NEW ps, NEW L, Good(h, ps, L), NEW b \in DOMAIN h.size, h.size[b] # 0,
         b \notin h.free
  PROVE  LET g == MarkAsFree(h, b)
         IN  Good(g, ps, L) /\ g.size = h.size /\ g.free = h.free \cup {b}
<1>1. PICK g : g = MarkAsFree(h, b) OBVIOUS
<1>3. Has(g, h, h.size, Put(h.prev, After(h.size, b), b),
          h.free \cup {b}, h.prevfree \cup {After(h.size, b)})
  BY <1>1, MarkAsFreeIs DEF Good
<1>4. Tagged(g.size, g.free, g.prevfree, g.prev)
  <2>1. Tagged(h.size, h.free, h.prevfree, h.prev) /\ Tiled(h.size, ps)
        /\ DOMAIN h.prev = h.prevfree
    BY DEF Good, Tagged
  <2>2. /\ DOMAIN g.prev = g.prevfree /\ g.prev[After(h.size, b)] = b
        /\ \A c \in h.prevfree : c # After(h.size, b) => g.prev[c] = h.prev[c]
    BY <1>3, <2>1 DEF Has, Put
  <2>3. g.size = h.size /\ g.free = h.free \cup {b} /\ g.prevfree = h.prevfree \cup {After(h.size, b)}
    BY <1>3 DEF Has
  <2> QED BY <2>1, <2>2, <2>3, FreedTagged
<1>5. Listed(g, L) BY <1>3, ListedKept DEF Good, Has
<1>6. L \subseteq g.free BY <1>3 DEF Good, Has
<1> QED BY <1>1, <1>3, <1>4, <1>5, <1>6 DEF Good, Has

\* No block begins inside another.
LEMMA InsideNone ==
  ASSUME NEW size, NEW ps, Tiled(size, ps), NEW b \in DOMAIN size,
         NEW r \in Nat, b < r, r < After(size, b)
  PROVE  r \notin DOMAIN size
<1>1. b \in Nat /\ size[b] \in Nat /\ After(size, b) \in Nat BY DEF Tiled, Shaped, After
<1>2. ASSUME r \in DOMAIN size PROVE FALSE
  <2>1. After(size, b) <= r BY <1>2 DEF Tiled, Disjoint
  <2> QED BY <1>1, <2>1
<1> QED BY <1>2

\* block_split() halves the block.
LEMMA PutHalved ==
  ASSUME NEW size, NEW b \in DOMAIN size, NEW n \in Nat, NEW r, r = b + n + 8, b \in Nat,
         r \notin DOMAIN size
  PROVE  Halved(size, Put(Put(size, r, size[b] - (n + 8)), b, n), b, n, r)
<1>1. PICK m : m = size[b] - (n + 8) OBVIOUS
<1>2. PICK T : T = Put(size, r, m) OBVIOUS
<1>3. /\ DOMAIN T = DOMAIN size \cup {r} /\ T[r] = m
      /\ \A c \in DOMAIN size : T[c] = size[c]
  BY <1>2 DEF Put
<1>4. PICK S : S = Put(T, b, n) OBVIOUS
<1>5. /\ DOMAIN S = DOMAIN size \cup {r} /\ S[b] = n
      /\ \A c \in DOMAIN T : c # b => S[c] = T[c]
  BY <1>3, <1>4 DEF Put
<1>6. S[r] = m BY <1>3, <1>5
<1>7. \A c \in DOMAIN size : c # b => S[c] = size[c] BY <1>3, <1>5
<1> QED BY <1>1, <1>2, <1>4, <1>5, <1>6, <1>7 DEF Halved

\* A cut through a free block that is in no list: the second part is at r.
CutFree(h, g, b, n, r) ==
  LET S == Put(Put(h.size, r, h.size[b] - (n + 8)), b, n)
  IN  Has(g, h, S, Put(Put(h.prev, After(S, r), r), r, b),
          h.free \cup {r}, h.prevfree \cup {After(S, r)} \cup {r})

\* Such a cut keeps the heap sound; neither part is in a list yet.
LEMMA CutFreeGood ==
  ASSUME NEW h, NEW ps, NEW L, Good(h, ps, L), NEW b \in h.free, b \notin L,
         NEW n \in Nat, n >= 24, n % 8 = 0, h.size[b] >= n + 32, NEW r, r = b + n + 8,
         NEW g, CutFree(h, g, b, n, r)
  PROVE  /\ Good(g, ps, L) /\ Halved(h.size, g.size, b, n, r)
         /\ g.free = h.free \cup {r} /\ r \notin DOMAIN h.size
<1>1. /\ b \in DOMAIN h.size /\ h.size[b] # 0 /\ b \in Nat /\ b % 8 = 0 /\ h.size[b] \in Nat
      /\ After(h.size, b) \in DOMAIN h.size
  BY FreeIs
<1>t. Tiled(h.size, ps) /\ Tagged(h.size, h.free, h.prevfree, h.prev) BY DEF Good
<1>2. r \in Nat /\ r \notin DOMAIN h.size
  <2>1. r \in Nat /\ b < r /\ r < After(h.size, b) BY <1>1 DEF After
  <2> QED BY <1>1, <1>t, <2>1, InsideNone
<1>3. PICK S : S = Put(Put(h.size, r, h.size[b] - (n + 8)), b, n) OBVIOUS
<1>4. Halved(h.size, S, b, n, r) BY <1>1, <1>2, <1>3, PutHalved
<1>5. /\ Tiled(S, ps) /\ After(S, r) = After(h.size, b)
  BY <1>1, <1>t, <1>4, HalvedTiled
<1>6. /\ IsHeap(g) /\ SameLists(g, h) /\ g.size = S
      /\ g.prev = Put(Put(h.prev, After(h.size, b), r), r, b)
      /\ g.free = h.free \cup {r} /\ g.prevfree = h.prevfree \cup {r, After(h.size, b)}
  BY <1>3, <1>5 DEF CutFree, Has
<1>7. Tagged(g.size, g.free, g.prevfree, g.prev)
  <2>1. DOMAIN h.prev = h.prevfree /\ r # After(h.size, b) BY <1>1, <1>2, <1>t DEF Tagged
  <2>2. PICK V : V = Put(h.prev, After(h.size, b), r) OBVIOUS
  <2>3. /\ DOMAIN V = h.prevfree \cup {After(h.size, b)} /\ V[After(h.size, b)] = r
        /\ \A c \in h.prevfree : c # After(h.size, b) => V[c] = h.prev[c]
    BY <2>1, <2>2 DEF Put
  <2>4. /\ DOMAIN g.prev = g.prevfree /\ g.prev[r] = b
        /\ \A c \in DOMAIN V : c # r => g.prev[c] = V[c]
    BY <1>6, <2>2, <2>3 DEF Put
  <2>5. /\ g.prev[After(h.size, b)] = r
        /\ \A c \in h.prevfree : c # r /\ c # After(h.size, b) => g.prev[c] = h.prev[c]
    BY <2>1, <2>3, <2>4
  <2> QED BY <1>t, <1>4, <1>6, <2>4, <2>5, HalvedFree
<1>8. Listed(g, L) /\ L \subseteq g.free
  <2>1. \A c \in L : g.size[c] = h.size[c]
    <3>1. \A c \in L : c \in DOMAIN h.size /\ c # b BY <1>t DEF Good, Tagged
    <3> QED BY <1>4, <1>6, <3>1 DEF Halved
  <2> QED BY <1>6, <2>1, ListedKept DEF Good
<1> QED BY <1>2, <1>4, <1>5, <1>6, <1>7, <1>8 DEF Good

\* block_trim_free() that cuts a block that is in no list: the rest goes to its list.
LEMMA TrimFreeGood ==
  ASSUME NEW h, NEW ps, NEW L, Good(h, ps, L), NEW b \in h.free, b \notin L,
         NEW n \in Nat, n >= 24, n % 8 = 0, h.size[b] >= n + 32
  PROVE  LET g == BlockTrimFree(h, b, n)
             r == b + n + 8
         IN  /\ Good(g, ps, L \cup {r}) /\ Halved(h.size, g.size, b, n, r)
             /\ g.free = h.free \cup {r} /\ r \notin DOMAIN h.size
<1>1. /\ b \in DOMAIN h.size /\ h.size[b] # 0 /\ b \in Nat /\ b % 8 = 0 /\ h.size[b] \in Nat
  BY FreeIs
<1>2. IsHeap(h) /\ Insist(h, b \in h.free) = h BY InsistIs DEF Good
<1>3. PICK r : r = b + n + 8 /\ r = Remaining(b, n) BY DEF Remaining, Overhead
<1>4. BlockCanSplit(h, b, n) <=> h.size[b] >= n + 32 BY <1>1 DEF BlockCanSplit, HeaderSize
<1>6. h.size[b] >= n + 32 OBVIOUS
<1>7. PICK S : S = Put(Put(h.size, r, h.size[b] - (n + 8)), b, n) OBVIOUS
<1>8. PICK k : k = BlockSplit(h, b, n) OBVIOUS
<1>9. Has(k, h, S, Put(h.prev, After(S, r), r), h.free \cup {r}, h.prevfree \cup {After(S, r)})
  <2>1. n # 0 OBVIOUS
  <2> QED BY <1>1, <1>2, <1>3, <1>6, <1>7, <1>8, <2>1, SplitIs
<1>10. k.size[b] # 0 /\ After(k.size, b) = r
  <2>1. S[b] = n BY <1>7 DEF Put
  <2> QED BY <1>3, <1>9, <2>1 DEF Has, After
<1>11. PICK l : l = LinkNext(k, b) OBVIOUS
<1>12. Has(l, k, k.size, Put(k.prev, r, b), k.free, k.prevfree)
  BY <1>9, <1>10, <1>11, LinkNextIs DEF Has
<1>13. PICK m : m = [l EXCEPT !.prevfree = @ \cup {r}] OBVIOUS
<1>14. Has(m, l, l.size, l.prev, l.free, l.prevfree \cup {r})
  <2>1. PICK s, p, f, e, bl, fl, sl :
      l = [size |-> s, prev |-> p, free |-> f, prevfree |-> e,
           blocks |-> bl, fl |-> fl, sl |-> sl, ok |-> TRUE]
    BY <1>12 DEF Has, IsHeap
  <2> QED BY <1>13, <2>1 DEF Has, IsHeap, SameLists
<1>15. CutFree(h, m, b, n, r) BY <1>7, <1>9, <1>12, <1>14 DEF CutFree, Has, SameLists
<1>16. /\ Good(m, ps, L) /\ Halved(h.size, m.size, b, n, r)
       /\ m.free = h.free \cup {r} /\ r \notin DOMAIN h.size
  BY <1>3, <1>6, <1>15, CutFreeGood
<1>17. r \notin L BY <1>16 DEF Good, Tagged
<1>18. Good(BlockInsert(m, r), ps, L \cup {r}) /\ SameBlocks(BlockInsert(m, r), m)
  BY <1>16, <1>17, InsertGood
<1>19. BlockTrimFree(h, b, n) = BlockInsert(m, r)
  BY <1>2, <1>3, <1>4, <1>6, <1>8, <1>11, <1>13 DEF BlockTrimFree
<1> QED BY <1>1, <1>3, <1>6, <1>16, <1>18, <1>19 DEF SameBlocks

\* block_trim_free_leading(): the first part goes to its list.
LEMMA LeadingGood ==
  ASSUME NEW h, NEW ps, NEW L, Good(h, ps, L), NEW b \in h.free, b \notin L,
         NEW n \in Nat, n >= 32, n % 8 = 0, h.size[b] >= n + 24
  PROVE  LET g == BlockTrimFreeLeading(h, b, n)
         IN  /\ Good(g, ps, L \cup {b}) /\ Halved(h.size, g.size, b, n - 8, b + n)
             /\ g.free = h.free \cup {b + n} /\ b + n \notin DOMAIN h.size
<1>1. /\ b \in DOMAIN h.size /\ h.size[b] # 0 /\ b \in Nat /\ b % 8 = 0 /\ h.size[b] \in Nat
  BY FreeIs
<1>2. IsHeap(h) BY DEF Good
<1>3. PICK o \in Nat : o = n - 8 /\ o >= 24 /\ o % 8 = 0 /\ h.size[b] >= o + 32 /\ o # 0 BY <1>1
<1>4. PICK r : r = b + o + 8 /\ r = Remaining(b, o) /\ r = b + n
  BY <1>1, <1>3 DEF Remaining, Overhead
<1>5. PICK S : S = Put(Put(h.size, r, h.size[b] - (o + 8)), b, o) OBVIOUS
<1>6. PICK k : k = BlockSplit(h, b, o) OBVIOUS
<1>7. Has(k, h, S, Put(h.prev, After(S, r), r), h.free \cup {r}, h.prevfree \cup {After(S, r)})
  BY <1>1, <1>2, <1>3, <1>4, <1>5, <1>6, SplitIs
<1>8. PICK l : l = [k EXCEPT !.prevfree = @ \cup {r}] OBVIOUS
<1>9. Has(l, k, k.size, k.prev, k.free, k.prevfree \cup {r})
  <2>1. PICK s, p, f, e, bl, fl, sl :
      k = [size |-> s, prev |-> p, free |-> f, prevfree |-> e,
           blocks |-> bl, fl |-> fl, sl |-> sl, ok |-> TRUE]
    BY <1>7 DEF Has, IsHeap
  <2> QED BY <1>8, <2>1 DEF Has, IsHeap, SameLists
<1>10. l.size[b] # 0 /\ After(l.size, b) = r
  <2>1. S[b] = o BY <1>5 DEF Put
  <2> QED BY <1>3, <1>4, <1>7, <1>9, <2>1 DEF Has, After
<1>11. PICK m : m = LinkNext(l, b) OBVIOUS
<1>12. Has(m, l, l.size, Put(l.prev, r, b), l.free, l.prevfree)
  BY <1>9, <1>10, <1>11, LinkNextIs DEF Has
<1>13. CutFree(h, m, b, o, r) BY <1>5, <1>7, <1>9, <1>12 DEF CutFree, Has, SameLists
<1>14. /\ Good(m, ps, L) /\ Halved(h.size, m.size, b, o, r)
       /\ m.free = h.free \cup {r} /\ r \notin DOMAIN h.size
  BY <1>3, <1>4, <1>13, CutFreeGood
<1>15. Good(BlockInsert(m, b), ps, L \cup {b}) /\ SameBlocks(BlockInsert(m, b), m)
  BY <1>14, InsertGood
<1>16. BlockTrimFreeLeading(h, b, n) = BlockInsert(m, b)
  BY <1>3, <1>4, <1>6, <1>8, <1>11 DEF BlockTrimFreeLeading, Overhead
<1> QED BY <1>3, <1>4, <1>14, <1>15, <1>16 DEF SameBlocks

\* The cut of block_trim_used(): the second part is free and in no list yet.
LEMMA CutUsedGood ==
  ASSUME NEW h, NEW ps, NEW L, Good(h, ps, L), NEW b \in DOMAIN h.size, h.size[b] # 0,
         b \notin h.free, NEW n \in Nat, n >= 24, n % 8 = 0, h.size[b] >= n + 32,
         NEW r, r = b + n + 8
  PROVE  LET g == [BlockSplit(h, b, n) EXCEPT !.prevfree = @ \ {r}]
         IN  /\ Good(g, ps, L) /\ Halved(h.size, g.size, b, n, r)
             /\ g.free = h.free \cup {r} /\ r \notin DOMAIN h.size
<1>t. Tiled(h.size, ps) /\ Tagged(h.size, h.free, h.prevfree, h.prev) /\ IsHeap(h) BY DEF Good
<1>1. /\ b \in Nat /\ b % 8 = 0 /\ h.size[b] \in Nat /\ After(h.size, b) \in DOMAIN h.size
  BY <1>t, BlockIs
<1>2. r \in Nat /\ r \notin DOMAIN h.size
  <2>1. r \in Nat /\ b < r /\ r < After(h.size, b) BY <1>1 DEF After
  <2> QED BY <1>t, <2>1, InsideNone
<1>3. PICK S : S = Put(Put(h.size, r, h.size[b] - (n + 8)), b, n) OBVIOUS
<1>4. Halved(h.size, S, b, n, r) BY <1>1, <1>2, <1>3, PutHalved
<1>5. Tiled(S, ps) /\ After(S, r) = After(h.size, b) BY <1>t, <1>4, HalvedTiled
<1>6. PICK k : k = BlockSplit(h, b, n) OBVIOUS
<1>7. Has(k, h, S, Put(h.prev, After(S, r), r), h.free \cup {r}, h.prevfree \cup {After(S, r)})
  <2>1. n # 0 OBVIOUS
  <2> QED BY <1>t, <1>1, <1>3, <1>6, <2>1, SplitIs
<1>8. Tagged(k.size, k.free, k.prevfree, k.prev) /\ r \notin k.prevfree
  <2>1. DOMAIN h.prev = h.prevfree BY <1>t DEF Tagged
  <2>2. /\ k.size = S /\ k.free = h.free \cup {r}
        /\ k.prevfree = h.prevfree \cup {After(h.size, b)}
        /\ k.prev = Put(h.prev, After(h.size, b), r)
    BY <1>5, <1>7 DEF Has
  <2>3. /\ DOMAIN k.prev = k.prevfree /\ k.prev[After(h.size, b)] = r
        /\ \A c \in h.prevfree : c # After(h.size, b) => k.prev[c] = h.prev[c]
    BY <2>1, <2>2 DEF Put
  <2> QED BY <1>t, <1>4, <2>2, <2>3, HalvedUsed
<1>9. Listed(k, L) /\ L \subseteq k.free
  <2>1. \A c \in L : k.size[c] = h.size[c]
    <3>1. \A c \in L : c \in DOMAIN h.size /\ c # b BY <1>t DEF Good, Tagged
    <3> QED BY <1>4, <1>7, <3>1 DEF Has, Halved
  <2>2. L \subseteq k.free BY <1>7 DEF Good, Has
  <2> QED BY <1>7, <2>1, <2>2, ListedKept DEF Good, Has
<1>10. [k EXCEPT !.prevfree = @ \ {r}] = k
  <2>1. PICK s, p, f, e, bl, fl, sl :
      k = [size |-> s, prev |-> p, free |-> f, prevfree |-> e,
           blocks |-> bl, fl |-> fl, sl |-> sl, ok |-> TRUE]
    BY <1>7 DEF Has, IsHeap
  <2>2. k.prevfree \ {r} = k.prevfree BY <1>8
  <2>3. k.prevfree = e BY <2>1
  <2> QED BY <2>1, <2>2, <2>3
<1>11. Good(k, ps, L) /\ k.size = S /\ k.free = h.free \cup {r}
  BY <1>5, <1>7, <1>8, <1>9 DEF Good, Has
<1> QED BY <1>2, <1>4, <1>6, <1>10, <1>11

\* block_absorb() joins the blocks.
LEMMA CutJoined ==
  ASSUME NEW size, NEW p \in DOMAIN size, NEW b, p # b
  PROVE  Joined(size, Cut(Put(size, p, size[p] + size[b] + 8), b), p, b)
<1>1. PICK m : m = size[p] + size[b] + 8 OBVIOUS
<1>2. PICK T : T = Put(size, p, m) OBVIOUS
<1>3. /\ DOMAIN T = DOMAIN size /\ T[p] = m
      /\ \A c \in DOMAIN size : c # p => T[c] = size[c]
  BY <1>2 DEF Put
<1>4. PICK S : S = Cut(T, b) OBVIOUS
<1>5. DOMAIN S = DOMAIN size \ {b} /\ \A c \in DOMAIN size : c # b => S[c] = T[c]
  BY <1>3, <1>4 DEF Cut
<1>6. S[p] = m /\ \A c \in DOMAIN size : c # b /\ c # p => S[c] = size[c]
  BY <1>3, <1>5
<1> QED BY <1>1, <1>2, <1>4, <1>5, <1>6 DEF Joined

\* block_absorb() of a free block by a free one, both in no list.
LEMMA AbsorbGood ==
  ASSUME NEW h, NEW ps, NEW L, Good(h, ps, L), NEW p \in h.free, p \notin L,
         NEW b \in h.free, b \notin L, b = After(h.size, p)
  PROVE  LET g == BlockAbsorb(h, p, b)
         IN  /\ Good(g, ps, L) /\ Joined(h.size, g.size, p, b) /\ g.free = h.free \ {b}
<1>t. Tiled(h.size, ps) /\ Tagged(h.size, h.free, h.prevfree, h.prev) /\ IsHeap(h) BY DEF Good
<1>1. /\ p \in DOMAIN h.size /\ h.size[p] # 0 /\ h.size[p] \in Nat
      /\ b \in DOMAIN h.size /\ h.size[b] # 0 /\ h.size[b] \in Nat
      /\ p \in Nat /\ b \in Nat /\ b > p
  BY FreeIs
<1>2. p # b BY <1>1
<1>3. PICK S : S = Cut(Put(h.size, p, h.size[p] + h.size[b] + 8), b) OBVIOUS
<1>4. Joined(h.size, S, p, b) BY <1>1, <1>2, <1>3, CutJoined
<1>5. Tiled(S, ps) /\ After(S, p) = After(h.size, b) BY <1>t, <1>1, <1>4, JoinedTiled
<1>6. PICK g : g = BlockAbsorb(h, p, b) OBVIOUS
<1>7. Has(g, h, S, Put(Cut(h.prev, b), After(S, p), p), h.free \ {b}, h.prevfree \ {b})
  BY <1>t, <1>1, <1>2, <1>3, <1>6, AbsorbIs
<1>8. Tagged(g.size, g.free, g.prevfree, g.prev)
  <2>1. DOMAIN h.prev = h.prevfree /\ After(h.size, b) \in h.prevfree BY <1>t DEF Tagged
  <2>2. After(h.size, b) # b
    <3>1. After(h.size, b) \in Nat /\ After(h.size, b) > b BY <1>1, <1>t, BlockIs
    <3> QED BY <1>1, <3>1
  <2>3. /\ g.size = S /\ g.free = h.free \ {b} /\ g.prevfree = h.prevfree \ {b}
        /\ g.prev = Put(Cut(h.prev, b), After(h.size, b), p)
    BY <1>5, <1>7 DEF Has
  <2>4. PICK V : V = Cut(h.prev, b) OBVIOUS
  <2>5. DOMAIN V = h.prevfree \ {b} /\ \A c \in h.prevfree \ {b} : V[c] = h.prev[c]
    BY <2>1, <2>4 DEF Cut
  <2>6. /\ DOMAIN g.prev = g.prevfree /\ g.prev[After(h.size, b)] = p
        /\ \A c \in g.prevfree : c # After(h.size, b) => g.prev[c] = h.prev[c]
    BY <2>1, <2>2, <2>3, <2>4, <2>5 DEF Put
  <2> QED BY <1>t, <1>4, <2>3, <2>6, JoinedFree
<1>9. Listed(g, L) /\ L \subseteq g.free
  <2>1. \A c \in L : g.size[c] = h.size[c]
    <3>1. \A c \in L : c \in DOMAIN h.size /\ c # b /\ c # p BY <1>t DEF Good, Tagged
    <3> QED BY <1>4, <1>7, <3>1 DEF Has, Joined
  <2>2. L \subseteq g.free BY <1>7 DEF Good, Has
  <2> QED BY <1>7, <2>1, <2>2, ListedKept DEF Good, Has
<1> QED BY <1>4, <1>5, <1>6, <1>7, <1>8, <1>9 DEF Good, Has

\* block_absorb() of a free block by a used one, and block_mark_as_used().
LEMMA AbsorbUsedGood ==
  ASSUME NEW h, NEW ps, NEW L, Good(h, ps, L),
         NEW p \in DOMAIN h.size, h.size[p] # 0, p \notin h.free,
         NEW b \in h.free, b \notin L, b = After(h.size, p)
  PROVE  LET g == MarkAsUsed(BlockAbsorb(h, p, b), p)
         IN  /\ Good(g, ps, L) /\ Joined(h.size, g.size, p, b) /\ g.free = h.free \ {b}
<1>t. Tiled(h.size, ps) /\ Tagged(h.size, h.free, h.prevfree, h.prev) /\ IsHeap(h) BY DEF Good
<1>1. /\ h.size[p] \in Nat /\ b \in DOMAIN h.size /\ h.size[b] # 0 /\ h.size[b] \in Nat
      /\ p \in Nat /\ b \in Nat /\ b > p
  BY <1>t, FreeIs, BlockIs
<1>2. p # b BY <1>1
<1>3. PICK S : S = Cut(Put(h.size, p, h.size[p] + h.size[b] + 8), b) OBVIOUS
<1>4. Joined(h.size, S, p, b) BY <1>2, <1>3, CutJoined
<1>5. Tiled(S, ps) /\ After(S, p) = After(h.size, b) /\ S[p] # 0 BY <1>t, <1>1, <1>4, JoinedTiled
<1>6. PICK k : k = BlockAbsorb(h, p, b) OBVIOUS
<1>7. Has(k, h, S, Put(Cut(h.prev, b), After(S, p), p), h.free \ {b}, h.prevfree \ {b})
  BY <1>t, <1>1, <1>2, <1>3, <1>6, AbsorbIs
<1>8. PICK g : g = MarkAsUsed(k, p) OBVIOUS
<1>9. Has(g, k, k.size, Cut(k.prev, After(S, p)), k.free \ {p}, k.prevfree \ {After(S, p)})
  BY <1>5, <1>7, <1>8, MarkAsUsedIs DEF Has
<1>10. b \notin h.prevfree
  <2>1. ASSUME NEW x \in h.free, b = After(h.size, x) PROVE FALSE
    <3>1. x \in DOMAIN h.size BY <1>t DEF Tagged
    <3> QED BY <1>t, <2>1, <3>1, AfterUnique DEF Tiled
  <2> QED BY <1>t, <2>1 DEF Tagged
<1>11. /\ IsHeap(g) /\ SameLists(g, h) /\ g.size = S /\ g.free = h.free \ {b}
       /\ g.prevfree = h.prevfree \ {After(h.size, b)}
       /\ g.prev = Cut(Put(Cut(h.prev, b), After(h.size, b), p), After(h.size, b))
  <2>1. (h.free \ {b}) \ {p} = h.free \ {b} OBVIOUS
  <2>2. h.prevfree \ {b} = h.prevfree BY <1>10
  <2> QED BY <1>5, <1>7, <1>9, <2>1, <2>2 DEF Has, SameLists
<1>12. Tagged(g.size, g.free, g.prevfree, g.prev)
  <2>1. DOMAIN h.prev = h.prevfree BY <1>t DEF Tagged
  <2>2. PICK V : V = Cut(h.prev, b) OBVIOUS
  <2>3. DOMAIN V = h.prevfree /\ \A c \in h.prevfree : V[c] = h.prev[c]
    BY <1>10, <2>1, <2>2 DEF Cut
  <2>4. PICK T : T = Put(V, After(h.size, b), p) OBVIOUS
  <2>5. /\ DOMAIN T = h.prevfree \cup {After(h.size, b)}
        /\ \A c \in h.prevfree : c # After(h.size, b) => T[c] = h.prev[c]
    BY <2>3, <2>4 DEF Put
  <2>6. DOMAIN g.prev = g.prevfree /\ \A c \in g.prevfree : g.prev[c] = h.prev[c]
    BY <1>11, <2>2, <2>4, <2>5 DEF Cut
  <2> QED BY <1>t, <1>4, <1>11, <2>6, JoinedUsed
<1>13. Listed(g, L) /\ L \subseteq g.free
  <2>1. \A c \in L : g.size[c] = h.size[c]
    <3>1. \A c \in L : c \in DOMAIN h.size /\ c # b /\ c # p BY <1>t DEF Good, Tagged
    <3> QED BY <1>4, <1>11, <3>1 DEF Joined
  <2>2. L \subseteq g.free BY <1>11 DEF Good
  <2> QED BY <1>11, <2>1, <2>2, ListedKept DEF Good
<1> QED BY <1>4, <1>5, <1>6, <1>8, <1>11, <1>12, <1>13 DEF Good

----------------------------------------------------------------------------
(* Coalescing.                                                             *)

Used(h) == {b \in DOMAIN h.size : h.size[b] # 0 /\ b \notin h.free}

\* The blocks in use are where they were.
Kept(g, h) == \A b \in Used(g) \cap Used(h) : g.size[b] = h.size[b]

\* No two free blocks are next to each other: nowhere; only c and the block
\* after it; only c and a block beside it.
Coalesced(h)   == \A b \in h.free : After(h.size, b) \notin h.free
OnlyNext(h, c) == \A b \in h.free : After(h.size, b) \in h.free => b = c
OnlyNear(h, c) ==
  \A b \in h.free : After(h.size, b) \in h.free => b = c \/ After(h.size, b) = c

\* The heap between two calls: every free block is listed, and all is merged.
Whole(h, ps) == Good(h, ps, h.free) /\ Coalesced(h)

\* Two free blocks that are joined: nothing changes for the used ones.
LEMMA JoinKeeps ==
  ASSUME NEW h, NEW ps, NEW L, Good(h, ps, L), NEW p \in h.free, NEW b \in h.free,
         b = After(h.size, p), NEW g, Joined(h.size, g.size, p, b), g.free = h.free \ {b}
  PROVE  /\ Used(g) = Used(h) /\ Kept(g, h) /\ p \in g.free
         /\ After(g.size, p) = After(h.size, b)
         /\ \A c \in g.free : c # p => After(g.size, c) = After(h.size, c)
<1>t. Tiled(h.size, ps) /\ Tagged(h.size, h.free, h.prevfree, h.prev) BY DEF Good
<1>1. /\ p \in DOMAIN h.size /\ h.size[p] # 0 /\ b \in DOMAIN h.size /\ h.size[b] # 0
  BY FreeIs
<1>2. /\ p # b /\ p \in DOMAIN g.size /\ g.size[p] # 0 /\ After(g.size, p) = After(h.size, b)
      /\ \A c \in DOMAIN h.size : c # b /\ c # p => After(g.size, c) = After(h.size, c)
  BY <1>t, <1>1, JoinedTiled
<1>3. \A c \in h.free : c \in DOMAIN h.size BY <1>t DEF Tagged
<1>4. /\ DOMAIN g.size = DOMAIN h.size \ {b}
      /\ \A c \in DOMAIN h.size : c # b /\ c # p => g.size[c] = h.size[c]
  BY DEF Joined
<1>5. Used(g) = Used(h) BY <1>2, <1>4 DEF Used
<1>6. Kept(g, h) BY <1>4 DEF Kept, Used
<1> QED BY <1>2, <1>3, <1>5, <1>6

\* block_merge_next() and block_insert() of a free block that is merged with
\* what is before it.
LEMMA SettleIs ==
  ASSUME NEW h, NEW ps, NEW c \in h.free, Good(h, ps, h.free \ {c}), OnlyNext(h, c)
  PROVE  LET g == BlockInsert(BlockMergeNext(h, c), c)
         IN  Whole(g, ps) /\ Used(g) = Used(h) /\ Kept(g, h)
<1>1. c \in DOMAIN h.size /\ h.size[c] # 0 /\ IsHeap(h) /\ c \in Nat /\ After(h.size, c) > c
  BY FreeIs DEF Good
<1>2. Insist(h, h.size[c] # 0) = h BY <1>1, InsistIs
<1>3. PICK n : n = After(h.size, c) /\ n = BlockNext(h, c) BY NextIs
<1>4. CASE n \in h.free
  <2>1. n # c
    <3>1. n \in Nat BY <1>4, FreeIs
    <3> QED BY <1>1, <1>3, <3>1
  <2>2. PICK k : k = BlockRemove(h, n) OBVIOUS
  <2>3. Good(k, ps, h.free \ {c, n}) /\ SameBlocks(k, h)
    <3>1. n \in h.free \ {c} /\ (h.free \ {c}) \ {n} = h.free \ {c, n} BY <1>4, <2>1
    <3> QED BY <2>2, <3>1, RemoveGood
  <2>4. PICK m : m = BlockAbsorb(k, c, n) OBVIOUS
  <2>5. Good(m, ps, h.free \ {c, n}) /\ Joined(h.size, m.size, c, n) /\ m.free = h.free \ {n}
    <3>1. c \in k.free /\ n \in k.free /\ k.size = h.size /\ k.free = h.free
      BY <1>4, <2>3 DEF SameBlocks
    <3>2. n = After(k.size, c) /\ c \notin h.free \ {c, n} /\ n \notin h.free \ {c, n} BY <1>3, <3>1
    <3> QED BY <2>3, <2>4, <3>1, <3>2, AbsorbGood
  <2>6. /\ Used(m) = Used(h) /\ Kept(m, h) /\ c \in m.free
        /\ After(m.size, c) = After(h.size, n)
        /\ \A x \in m.free : x # c => After(m.size, x) = After(h.size, x)
    <3>1. n = After(h.size, c) BY <1>3
    <3> QED BY <1>4, <2>5, <3>1, JoinKeeps
  <2>7. Coalesced(m)
    <3> SUFFICES ASSUME NEW x \in m.free, After(m.size, x) \in m.free PROVE FALSE
      BY DEF Coalesced
    <3>1. CASE x = c BY <1>4, <2>1, <2>5, <2>6, <3>1 DEF OnlyNext
    <3>2. CASE x # c BY <2>5, <2>6, <3>2 DEF OnlyNext
    <3> QED BY <3>1, <3>2
  <2>8. PICK g : g = BlockInsert(m, c) OBVIOUS
  <2>9. Good(g, ps, m.free) /\ SameBlocks(g, m)
    <3>1. (h.free \ {c, n}) \cup {c} = m.free BY <2>1, <2>5
    <3> QED BY <2>5, <2>6, <2>8, <3>1, InsertGood
  <2>10. BlockMergeNext(h, c) = m BY <1>2, <1>3, <1>4, <2>2, <2>4 DEF BlockMergeNext
  <2> QED BY <2>6, <2>7, <2>8, <2>9, <2>10 DEF Whole, SameBlocks, Coalesced, Used, Kept
<1>5. CASE n \notin h.free
  <2>1. BlockMergeNext(h, c) = h BY <1>2, <1>3, <1>5 DEF BlockMergeNext
  <2>2. PICK g : g = BlockInsert(h, c) OBVIOUS
  <2>3. Good(g, ps, h.free) /\ SameBlocks(g, h)
    <3>1. (h.free \ {c}) \cup {c} = h.free OBVIOUS
    <3> QED BY <2>2, <3>1, InsertGood
  <2>4. Coalesced(h) BY <1>3, <1>5 DEF Coalesced, OnlyNext
  <2> QED BY <2>1, <2>2, <2>3, <2>4 DEF Whole, SameBlocks, Coalesced, Used, Kept
<1> QED BY <1>4, <1>5

\* block_merge_prev() of a block that has just become free.
LEMMA MergePrevIs ==
  ASSUME NEW h, NEW ps, NEW b \in h.free, Good(h, ps, h.free \ {b}), OnlyNear(h, b)
  PROVE  LET g == BlockMergePrev(h, b)
             c == MergedPrev(h, b)
         IN  /\ c \in g.free /\ Good(g, ps, g.free \ {c}) /\ OnlyNext(g, c)
             /\ Used(g) = Used(h) /\ Kept(g, h)
<1>t. /\ Tiled(h.size, ps) /\ Tagged(h.size, h.free, h.prevfree, h.prev) /\ IsHeap(h)
  BY DEF Good
<1>1. CASE b \in h.prevfree
  <2>1. PICK p \in h.free : b = After(h.size, p) /\ h.prev[b] = p BY <1>t, <1>1 DEF Tagged
  <2>2. p # b
    <3>1. p \in Nat /\ b \in Nat /\ After(h.size, p) > p BY FreeIs
    <3> QED BY <2>1, <3>1
  <2>3. Insist(h, p \in h.free) = h BY <1>t, InsistIs
  <2>4. PICK k : k = BlockRemove(h, p) OBVIOUS
  <2>5. Good(k, ps, h.free \ {b, p}) /\ SameBlocks(k, h)
    <3>1. p \in h.free \ {b} /\ (h.free \ {b}) \ {p} = h.free \ {b, p} BY <2>2
    <3> QED BY <2>4, <3>1, RemoveGood
  <2>6. PICK m : m = BlockAbsorb(k, p, b) OBVIOUS
  <2>7. Good(m, ps, h.free \ {b, p}) /\ Joined(h.size, m.size, p, b) /\ m.free = h.free \ {b}
    <3>1. p \in k.free /\ b \in k.free /\ k.size = h.size /\ k.free = h.free
      BY <2>5 DEF SameBlocks
    <3> QED BY <2>1, <2>5, <2>6, <3>1, AbsorbGood
  <2>8. /\ Used(m) = Used(h) /\ Kept(m, h) /\ p \in m.free
        /\ \A x \in m.free : x # p => After(m.size, x) = After(h.size, x)
    BY <2>1, <2>7, JoinKeeps
  <2>9. OnlyNext(m, p)
    <3> SUFFICES ASSUME NEW x \in m.free, After(m.size, x) \in m.free, x # p PROVE FALSE
      BY DEF OnlyNext
    <3>1. /\ After(h.size, x) \in h.free /\ x # b /\ After(h.size, x) # b /\ x \in h.free
      BY <2>7, <2>8
    <3> QED BY <3>1 DEF OnlyNear
  <2>10. h.free \ {b, p} = m.free \ {p} BY <2>7
  <2>11. BlockMergePrev(h, b) = m /\ MergedPrev(h, b) = p
    BY <1>1, <2>1, <2>3, <2>4, <2>6 DEF BlockMergePrev, MergedPrev
  <2> QED BY <2>7, <2>8, <2>9, <2>10, <2>11
<1>2. CASE b \notin h.prevfree
  <2>1. BlockMergePrev(h, b) = h /\ MergedPrev(h, b) = b
    BY <1>2 DEF BlockMergePrev, MergedPrev
  <2>2. \A x \in h.free : After(h.size, x) # b BY <1>t, <1>2 DEF Tagged
  <2>3. OnlyNext(h, b) BY <2>2 DEF OnlyNext, OnlyNear
  <2> QED BY <2>1, <2>3 DEF Kept
<1> QED BY <1>1, <1>2

\* tlsf_free() gives back one block, and nothing changes for the other ones.
LEMMA TlsfFreeIs ==
  ASSUME NEW h, NEW ps, Whole(h, ps), NEW b \in Used(h)
  PROVE  LET g == TlsfFree(h, ToPtr(b))
         IN  Whole(g, ps) /\ Used(g) = Used(h) \ {b} /\ Kept(g, h)
<1>1. /\ Good(h, ps, h.free) /\ b \in DOMAIN h.size /\ h.size[b] # 0 /\ b \notin h.free
      /\ IsHeap(h) /\ Tiled(h.size, ps)
  BY DEF Whole, Used, Good
<1>2. FromPtr(ToPtr(b)) = b
  <2>1. b \in Nat BY <1>1, BlockIs
  <2> QED BY <2>1 DEF FromPtr, ToPtr
<1>3. Insist(h, b \notin h.free) = h BY <1>1, InsistIs
<1>4. PICK k : k = MarkAsFree(h, b) OBVIOUS
<1>5. Good(k, ps, h.free) /\ k.size = h.size /\ k.free = h.free \cup {b}
  BY <1>1, <1>4, FreeGood
<1>6. h.free = k.free \ {b} /\ b \in k.free BY <1>1, <1>5
<1>7. OnlyNear(k, b) BY <1>5 DEF OnlyNear, Whole, Coalesced
<1>8. Used(k) = Used(h) \ {b} BY <1>5 DEF Used
<1>9. PICK m, c : m = BlockMergePrev(k, b) /\ c = MergedPrev(k, b) OBVIOUS
<1>10. /\ c \in m.free /\ Good(m, ps, m.free \ {c}) /\ OnlyNext(m, c)
       /\ Used(m) = Used(k) /\ Kept(m, k)
  BY <1>5, <1>6, <1>7, <1>9, MergePrevIs
<1>11. PICK g : g = BlockInsert(BlockMergeNext(m, c), c) OBVIOUS
<1>12. Whole(g, ps) /\ Used(g) = Used(m) /\ Kept(g, m) BY <1>10, <1>11, SettleIs
<1>13. TlsfFree(h, ToPtr(b)) = g BY <1>2, <1>3, <1>4, <1>9, <1>11 DEF TlsfFree
<1>14. Kept(g, h) BY <1>5, <1>8, <1>10, <1>12 DEF Kept
<1> QED BY <1>8, <1>10, <1>12, <1>13, <1>14

----------------------------------------------------------------------------
(* Allocation.                                                             *)

\* Free neighbours there are none, but for a block before c.
OnlyPrev(h, c) ==
  \A b \in h.free : After(h.size, b) \in h.free => After(h.size, b) = c

\* block_locate_free() takes a block that is large enough out of its list.
LEMMA LocateGood ==
  ASSUME NEW h, NEW ps, Whole(h, ps), NEW n \in Nat, n >= 1, n % 8 = 0, n < BlockSizeMax,
         LocateClass(h, n) # NoClass
  PROVE  LET b == Located(h, n)
             g == BlockLocateFree(h, n)
         IN  /\ b \in h.free /\ h.size[b] >= n
             /\ Good(g, ps, h.free \ {b}) /\ SameBlocks(g, h)
<1>1. Good(h, ps, h.free) /\ Listed(h, h.free) /\ IsHeap(h) BY DEF Whole, Good
<1>2. \A b \in h.free : h.size[b] \in Nat /\ h.size[b] >= 1 /\ h.size[b] < BlockSizeMax
  <2> SUFFICES ASSUME NEW b \in h.free
               PROVE  h.size[b] \in Nat /\ h.size[b] >= 1 /\ h.size[b] < BlockSizeMax
    OBVIOUS
  <2>1. h.size[b] \in Nat /\ h.size[b] >= 24 /\ h.size[b] < BlockSizeMax BY <1>1, FreeIs
  <2> QED BY <2>1
<1>3. PICK b \in h.free :
        /\ b = Located(h, n) /\ h.size[b] >= n
        /\ MappingInsert(h.size[b]) = LocateClass(h, n)
  BY <1>1, <1>2, LocateIs
<1>4. Insist(h, h.size[b] >= n) = h BY <1>1, <1>3, InsistIs
<1>5. BlockLocateFree(h, n) = BlockRemove(h, b)
  BY <1>3, <1>4 DEF BlockLocateFree, BlockRemove
<1>6. Good(BlockRemove(h, b), ps, h.free \ {b}) /\ SameBlocks(BlockRemove(h, b), h)
  BY <1>1, RemoveGood
<1> QED BY <1>3, <1>5, <1>6

\* block_prepare_used(): the block is handed out, what is left over is listed.
LEMMA PrepareIs ==
  ASSUME NEW h, NEW ps, NEW b \in h.free, Good(h, ps, h.free \ {b}), OnlyPrev(h, b),
         NEW n \in Nat, n >= 24, n % 8 = 0, h.size[b] >= n
  PROVE  LET g == BlockPrepareUsed(h, b, n)
         IN  /\ Whole(g, ps) /\ Used(g) = Used(h) \cup {b} /\ b \notin Used(h)
             /\ Kept(g, h) /\ g.size[b] >= n /\ b \in DOMAIN g.size
<1>t. Tiled(h.size, ps) /\ Tagged(h.size, h.free, h.prevfree, h.prev) /\ IsHeap(h) BY DEF Good
<1>1. /\ b \in DOMAIN h.size /\ h.size[b] # 0 /\ h.size[b] \in Nat /\ b \in Nat
      /\ After(h.size, b) \in DOMAIN h.size /\ After(h.size, b) > b
  BY FreeIs
<1>2. Insist(h, n # 0) = h
  <2>1. n # 0 OBVIOUS
  <2> QED BY <1>t, <2>1, InsistIs
<1>3. PICK m : m = BlockTrimFree(h, b, n) OBVIOUS
<1>4. PICK g : g = MarkAsUsed(m, b) OBVIOUS
<1>5. BlockPrepareUsed(h, b, n) = g BY <1>2, <1>3, <1>4 DEF BlockPrepareUsed
<1>6. After(h.size, b) \notin h.free
  <2>1. After(h.size, b) # b BY <1>1
  <2> QED BY <2>1 DEF OnlyPrev
<1>7. \A x \in h.free : x \in DOMAIN h.size /\ After(h.size, x) \in DOMAIN h.size BY FreeIs
<1>l. PICK L : L = h.free \ {b} /\ Good(h, ps, L) /\ b \notin L OBVIOUS
<1>8. CASE h.size[b] < n + 32
  <2>1. m = h
    <3>1. ~BlockCanSplit(h, b, n) BY <1>1, <1>8 DEF BlockCanSplit, HeaderSize
    <3>2. Insist(h, b \in h.free) = h BY <1>t, InsistIs
    <3>3. BlockTrimFree(h, b, n) = h BY <3>1, <3>2 DEF BlockTrimFree
    <3> QED BY <1>3, <3>3
  <2>2. Good(g, ps, h.free \ {b}) /\ g.size = h.size /\ g.free = h.free \ {b}
    BY <1>4, <2>1, UsedGood
  <2>3. Coalesced(g) BY <2>2 DEF Coalesced, OnlyPrev
  <2>4. Used(g) = Used(h) \cup {b} /\ b \notin Used(h) BY <1>1, <2>2 DEF Used
  <2> QED BY <1>1, <1>5, <2>2, <2>3, <2>4 DEF Whole, Kept
<1>9. CASE h.size[b] >= n + 32
  <2>1. PICK r : r = b + n + 8 OBVIOUS
  <2>2. /\ Good(m, ps, (h.free \ {b}) \cup {r}) /\ Halved(h.size, m.size, b, n, r)
        /\ m.free = h.free \cup {r} /\ r \notin DOMAIN h.size
    <3>1. /\ Good(m, ps, L \cup {r}) /\ Halved(h.size, m.size, b, n, r)
          /\ m.free = h.free \cup {r} /\ r \notin DOMAIN h.size
      BY <1>l, <1>3, <1>9, <2>1, TrimFreeGood
    <3> QED BY <1>l, <3>1
  <2>3. r # b BY <1>1, <2>2
  <2>4. Good(g, ps, g.free) /\ g.size = m.size /\ g.free = (h.free \ {b}) \cup {r}
    <3>1. b \in m.free /\ b \notin (h.free \ {b}) \cup {r} BY <2>2, <2>3
    <3>2. m.free \ {b} = (h.free \ {b}) \cup {r} BY <2>2, <2>3
    <3> QED BY <1>4, <2>2, <3>1, <3>2, UsedGood
  <2>5. /\ After(g.size, r) = After(h.size, b) /\ g.size[r] # 0
        /\ \A c \in DOMAIN h.size : c # b => After(g.size, c) = After(h.size, c)
    <3>1. /\ After(m.size, r) = After(h.size, b) /\ m.size[r] \in Nat /\ m.size[r] >= 24
          /\ \A c \in DOMAIN h.size : c # b => After(m.size, c) = After(h.size, c)
      BY <1>t, <1>1, <1>9, <2>2, HalvedTiled
    <3> QED BY <2>4, <3>1
  <2>6. Coalesced(g)
    <3> SUFFICES ASSUME NEW x \in g.free, After(g.size, x) \in g.free PROVE FALSE
      BY DEF Coalesced
    <3>1. CASE x = r BY <1>1, <1>6, <2>2, <2>4, <2>5, <3>1
    <3>2. CASE x # r
      <4>1. x \in h.free /\ x # b BY <2>4, <3>2
      <4>2. After(g.size, x) = After(h.size, x) /\ After(h.size, x) # r
        BY <1>7, <2>2, <2>5, <4>1
      <4>3. After(h.size, x) \in h.free /\ After(h.size, x) # b BY <2>4, <4>2
      <4> QED BY <4>1, <4>3 DEF OnlyPrev
    <3> QED BY <3>1, <3>2
  <2>7. /\ DOMAIN g.size = DOMAIN h.size \cup {r} /\ g.size[b] = n
        /\ \A c \in DOMAIN h.size : c # b => g.size[c] = h.size[c]
    BY <2>2, <2>4 DEF Halved
  <2>8. Used(g) = Used(h) \cup {b} /\ b \notin Used(h)
    BY <1>1, <2>2, <2>4, <2>7 DEF Used
  <2>9. Kept(g, h) BY <2>7 DEF Kept, Used
  <2> QED BY <1>1, <1>5, <2>4, <2>6, <2>7, <2>8, <2>9 DEF Whole
<1> QED BY <1>1, <1>8, <1>9

\* What a call that hands out a block at b does.
HandsOut(g, h, ps, b, n) ==
  /\ Whole(g, ps) /\ Used(g) = Used(h) \cup {b} /\ b \notin Used(h)
  /\ Kept(g, h) /\ b \in DOMAIN g.size /\ g.size[b] >= n

\* tlsf_malloc().
LEMMA TlsfMallocIs ==
  ASSUME NEW h, NEW ps, Whole(h, ps), NEW n \in Nat,
         LocateClass(h, AdjustRequestSize(n, AlignSize)) # NoClass
  PROVE  LET b == Located(h, AdjustRequestSize(n, AlignSize))
         IN  b \in h.free /\ HandsOut(TlsfMalloc(h, n), h, ps, b, n)
<1>1. PICK j : j = AdjustRequestSize(n, AlignSize) OBVIOUS
<1>2. j # 0 BY <1>1 DEF LocateClass
<1>3. j \in Nat /\ j >= 24 /\ j % 8 = 0 /\ j >= n /\ j < BlockSizeMax BY <1>1, <1>2, AdjustIs
<1>4. PICK b, k : b = Located(h, j) /\ k = BlockLocateFree(h, j) OBVIOUS
<1>5. b \in h.free /\ h.size[b] >= j /\ Good(k, ps, h.free \ {b}) /\ SameBlocks(k, h)
  <2>1. j >= 1 BY <1>3
  <2> QED BY <1>1, <1>3, <1>4, <2>1, LocateGood
<1>6. /\ b \in k.free /\ Good(k, ps, k.free \ {b}) /\ k.size[b] >= j /\ Used(k) = Used(h)
      /\ k.size = h.size
  BY <1>5 DEF SameBlocks, Used
<1>7. OnlyPrev(k, b) BY <1>5 DEF SameBlocks, OnlyPrev, Whole, Coalesced
<1>8. PICK g : g = BlockPrepareUsed(k, b, j) OBVIOUS
<1>9. /\ Whole(g, ps) /\ Used(g) = Used(h) \cup {b} /\ b \notin Used(h)
      /\ Kept(g, k) /\ g.size[b] >= j /\ b \in DOMAIN g.size
  BY <1>3, <1>6, <1>7, <1>8, PrepareIs
<1>10. g.size[b] >= n
  <2>1. g.size[b] \in Nat BY <1>9 DEF Whole, Good, Tiled, Shaped
  <2> QED BY <1>3, <1>9, <2>1
<1>11. Kept(g, h) BY <1>6, <1>9 DEF Kept
<1>12. TlsfMalloc(h, n) = g BY <1>1, <1>4, <1>8 DEF TlsfMalloc
<1> QED BY <1>1, <1>4, <1>5, <1>9, <1>10, <1>11, <1>12 DEF HandsOut

\* The alignments asked for: up to eight, or multiples of sixteen.
LEMMA AlignIs ==
  ASSUME NEW a \in Aligns
  PROVE  \/ a \in {1, 2, 4, 8}
         \/ /\ a \in Nat /\ a > 8 /\ (a = 16 \/ a >= 32)
            /\ \E c \in Nat : a = 8 * c
<1>1. PICK k \in 0 .. FlIndexMax : a = Pow2[k] BY HeapAssumption
<1>2. FlIndexMax \in Nat /\ FlIndexMax >= 4 BY ConstantsIs
<1>3. Pow2[0] = 1 /\ Pow2[1] = 2 /\ Pow2[2] = 4 /\ Pow2[3] = 8 /\ Pow2[4] = 16
  <2>1. Pow2[0] = 1 BY Pow2Is
  <2>2. Pow2[1] = 2 * Pow2[0] BY <1>2, Pow2Is DEF Exps
  <2>3. Pow2[2] = 2 * Pow2[1] BY <1>2, Pow2Is DEF Exps
  <2>4. Pow2[3] = 2 * Pow2[2] BY <1>2, Pow2Is DEF Exps
  <2>5. Pow2[4] = 2 * Pow2[3] BY <1>2, Pow2Is DEF Exps
  <2> QED BY <2>1, <2>2, <2>3, <2>4, <2>5
<1>4. CASE k <= 3 BY <1>1, <1>2, <1>3, <1>4
<1>5. CASE k > 3
  <2>1. k - 3 \in Exps /\ 3 \in Exps /\ k \in Exps /\ 3 + (k - 3) = k BY <1>2, <1>5 DEF Exps
  <2>2. PICK c \in Nat : c = Pow2[k - 3] /\ c >= 1 BY <2>1, Pow2Type
  <2>3. a = 8 * c BY <1>1, <1>3, <2>1, <2>2, Pow2Sum
  <2>4. CASE k = 4
    <3>1. a = 16 BY <1>1, <1>3, <2>4
    <3> QED BY <2>3, <3>1
  <2>5. CASE k > 4
    <3>1. 2 * Pow2[4] <= Pow2[k]
      <4>1. 4 \in Exps BY <1>2 DEF Exps
      <4> QED BY <2>1, <2>5, <4>1, Pow2Grows
    <3>2. a >= 32 BY <1>1, <1>3, <2>3, <3>1
    <3> QED BY <2>3, <3>2
  <2> QED BY <1>2, <1>5, <2>4, <2>5
<1> QED BY <1>2, <1>4, <1>5

\* A multiple is its own alignment.
LEMMA AlignUpExact ==
  ASSUME NEW a \in Nat, a >= 1, NEW q \in Nat
  PROVE  AlignUp(q * a, a) = q * a
<1>1. PICK y \in Nat : y = q * a /\ y = a * q OBVIOUS
<1>2. PICK x \in Nat : x = y + a - 1 OBVIOUS
<1>3. a * (q + 1) = y + a BY <1>1
<1>4. q <= x \div a /\ x \div a < q + 1
  <2>1. a * q <= x /\ x < a * (q + 1) /\ q + 1 \in Nat BY <1>1, <1>2, <1>3
  <2> QED BY <1>2, <2>1, DivBetween
<1>5. x \div a \in Nat BY <1>2, DivIs
<1>6. x \div a = q BY <1>4, <1>5
<1> QED BY <1>1, <1>2, <1>6 DEF AlignUp

\* The bytes tlsf_memalign() cuts off are none or enough for a block, and the
\* address after them is aligned.
LEMMA GapIs ==
  ASSUME NEW a \in Aligns, NEW b \in Nat, b % 8 = 0
  PROVE  LET g == Gap(b, a)
         IN  /\ g \in Nat /\ g % 8 = 0 /\ (g = 0 \/ g >= 32)
             /\ (ToPtr(b) + g) % a = 0
             /\ a <= 8 => g = 0
             /\ a > 8 => g <= a + 24
<1>p. PICK p \in Nat : p = ToPtr(b) /\ p % 8 = 0 BY DEF ToPtr
<1>1. CASE a \in {1, 2, 4, 8}
  <2>1. AlignUp(p, a) = p BY <1>p, <1>1 DEF AlignUp
  <2>2. Gap(b, a) = 0 BY <1>p, <2>1 DEF Gap
  <2>3. p % a = 0 BY <1>p, <1>1
  <2> QED BY <1>1, <1>p, <2>2, <2>3
<1>2. CASE a \notin {1, 2, 4, 8}
  <2>1. a \in Nat /\ a > 8 /\ (a = 16 \/ a >= 32) BY <1>2, AlignIs
  <2>2. PICK c \in Nat : a = 8 * c BY <1>2, AlignIs
  <2>3. PICK q \in Nat, u \in Nat :
          /\ u = AlignUp(p, a) /\ u = q * a /\ u >= p /\ u < p + a /\ u % a = 0
    <3>1. a >= 1 BY <2>1
    <3>2. PICK q \in Nat : /\ AlignUp(p, a) = q * a /\ AlignUp(p, a) \in Nat
                           /\ AlignUp(p, a) >= p /\ AlignUp(p, a) < p + a
                           /\ AlignUp(p, a) % a = 0
      BY <2>1, <3>1, AlignUpIs
    <3> QED BY <3>2
  <2>4. u % 8 = 0
    <3>1. q * a = 8 * (q * c) /\ q * c \in Nat BY <2>2
    <3> QED BY <2>3, <3>1
  <2>5. PICK d \in Nat : d = u - p /\ d % 8 = 0 /\ d < a BY <1>p, <2>1, <2>3, <2>4
  <2>6. CASE d = 0 \/ d >= 32
    <3>1. Gap(b, a) = d BY <1>p, <2>3, <2>5, <2>6 DEF Gap, HeaderSize
    <3>2. p + d = u BY <1>p, <2>3, <2>5
    <3>3. (p + d) % a = 0 BY <2>3, <3>2
    <3>4. ~(a <= 8) /\ d <= a + 24 BY <2>1, <2>5
    <3> QED BY <1>p, <2>5, <2>6, <3>1, <3>3, <3>4
  <2>7. CASE d # 0 /\ d < 32 /\ 32 - d <= a
    <3>1. Gap(b, a) = AlignUp(u + a, a) - p
      <4>1. ~(32 - d > a) BY <2>1, <2>5, <2>7
      <4>2. Gap(b, a) = AlignUp(u + (IF 32 - d > a THEN 32 - d ELSE a), a) - p
        BY <1>p, <2>3, <2>5, <2>7 DEF Gap, HeaderSize
      <4> QED BY <4>1, <4>2
    <3>2. u + a = (q + 1) * a BY <2>1, <2>3
    <3>3. AlignUp(u + a, a) = u + a
      <4>1. q + 1 \in Nat /\ a >= 1 BY <2>1
      <4> QED BY <2>1, <3>2, <4>1, AlignUpExact
    <3>4. Gap(b, a) = d + a /\ d + a >= 32 /\ (d + a) % 8 = 0 /\ d + a <= a + 24
      BY <1>p, <2>1, <2>2, <2>3, <2>5, <2>7, <3>1, <3>3
    <3>5. (u + a) % a = 0
      <4>1. ((q + 1) * a) % a = 0 BY <2>1
      <4> QED BY <3>2, <4>1
    <3>6. p + (d + a) = u + a BY <1>p, <2>1, <2>3, <2>5
    <3> QED BY <1>p, <2>1, <2>5, <3>4, <3>5, <3>6
  <2>8. CASE d # 0 /\ d < 32 /\ 32 - d > a
    <3>1. a = 16 /\ d = 8 BY <2>1, <2>5, <2>8
    <3>2. Gap(b, a) = AlignUp(u + 24, 16) - p
      BY <1>p, <2>3, <2>5, <2>8, <3>1 DEF Gap, HeaderSize
    <3>3. u % 16 = 0 BY <2>3, <3>1
    <3>4. AlignUp(u + 24, 16) = u + 32 BY <2>3, <3>3 DEF AlignUp
    <3>5. Gap(b, a) = 40 /\ p + 40 = u + 32 BY <1>p, <2>3, <2>5, <3>1, <3>2, <3>4
    <3>6. (u + 32) % 16 = 0 BY <2>3, <3>3
    <3> QED BY <1>p, <3>1, <3>5, <3>6
  <2> QED BY <2>1, <2>5, <2>6, <2>7, <2>8
<1> QED BY <1>1, <1>2

\* The size tlsf_memalign() looks for leaves room for the gap.
LEMMA AlignedSizeIs ==
  ASSUME NEW n \in Nat, NEW a \in Aligns, AlignedSize(n, a) # 0
  PROVE  LET s == AlignedSize(n, a)
             j == AdjustRequestSize(n, AlignSize)
         IN  /\ s \in Nat /\ s >= 1 /\ s % 8 = 0 /\ s < BlockSizeMax
             /\ j \in Nat /\ j >= 24 /\ j % 8 = 0 /\ j >= n
             /\ a <= 8 => s = j
             /\ a > 8 => s >= j + a + 32
<1>1. PICK j : j = AdjustRequestSize(n, AlignSize) OBVIOUS
<1>2. AlignedSize(n, a) = IF j # 0 /\ a > 8 THEN AdjustRequestSize(j + a + 32, a) ELSE j
  BY <1>1, ConstantsIs DEF AlignedSize, HeaderSize
<1>3. j # 0 BY <1>2
<1>4. j \in Nat /\ j >= 24 /\ j % 8 = 0 /\ j >= n /\ j < BlockSizeMax BY <1>1, <1>3, AdjustIs
<1>5. CASE a \in {1, 2, 4, 8}
  <2>1. a <= 8 /\ ~(a > 8) BY <1>5
  <2>2. AlignedSize(n, a) = j BY <1>2, <2>1
  <2> QED BY <1>1, <1>4, <2>1, <2>2
<1>6. CASE a \notin {1, 2, 4, 8}
  <2>1. a \in Nat /\ a > 8 BY <1>6, AlignIs
  <2>2. PICK c \in Nat : a = 8 * c BY <1>6, AlignIs
  <2>3. PICK m \in Nat : m = j + a + 32 BY <1>4, <2>1
  <2>4. PICK q \in Nat, u \in Nat : u = AlignUp(m, a) /\ u = q * a /\ u >= m
    <3>1. a >= 1 BY <2>1
    <3> QED BY <2>1, <2>3, <3>1, AlignUpIs
  <2>5. u % 8 = 0
    <3>1. q * a = 8 * (q * c) /\ q * c \in Nat BY <2>2
    <3> QED BY <2>4, <3>1
  <2>6. AlignedSize(n, a) = IF m = 0 \/ u >= BlockSizeMax THEN 0 ELSE IF u < 24 THEN 24 ELSE u
    BY <1>2, <1>3, <2>1, <2>3, <2>4 DEF AdjustRequestSize, BlockSizeMin
  <2>7. AlignedSize(n, a) = u /\ u < BlockSizeMax BY <1>4, <2>1, <2>3, <2>4, <2>6, ConstantsIs
  <2> QED BY <1>1, <1>4, <2>1, <2>3, <2>4, <2>5, <2>7
<1> QED BY <1>5, <1>6

\* tlsf_memalign(): what is cut off before the aligned block is listed too.
LEMMA TlsfMemalignIs ==
  ASSUME NEW h, NEW ps, Whole(h, ps), NEW n \in Nat, NEW a \in Aligns,
         LocateClass(h, AlignedSize(n, a)) # NoClass
  PROVE  LET b == Located(h, AlignedSize(n, a))
         IN  /\ b \in h.free /\ (ToPtr(b) + Gap(b, a)) % a = 0 /\ Gap(b, a) \in Nat
             /\ HandsOut(TlsfMemalign(h, n, a), h, ps, b + Gap(b, a), n)
<1>1. PICK s : s = AlignedSize(n, a) OBVIOUS
<1>2. PICK j : j = AdjustRequestSize(n, AlignSize) OBVIOUS
<1>3. s # 0 BY <1>1 DEF LocateClass
<1>4. /\ s \in Nat /\ s >= 1 /\ s % 8 = 0 /\ s < BlockSizeMax
      /\ j \in Nat /\ j >= 24 /\ j % 8 = 0 /\ j >= n
      /\ a <= 8 => s = j
      /\ a > 8 => s >= j + a + 32
  BY <1>1, <1>2, <1>3, AlignedSizeIs
<1>5. PICK b, k : b = Located(h, s) /\ k = BlockLocateFree(h, s) OBVIOUS
<1>6. b \in h.free /\ h.size[b] >= s /\ Good(k, ps, h.free \ {b}) /\ SameBlocks(k, h)
  BY <1>1, <1>4, <1>5, LocateGood
<1>7. /\ b \in k.free /\ k.size = h.size /\ k.free = h.free /\ Used(k) = Used(h) /\ IsHeap(k)
  BY <1>6 DEF SameBlocks, Used, Good
<1>8. /\ b \in DOMAIN h.size /\ h.size[b] # 0 /\ h.size[b] \in Nat /\ b \in Nat /\ b % 8 = 0
      /\ After(h.size, b) \in DOMAIN h.size
  BY <1>6, FreeIs DEF Whole
<1>9. a \in Nat
  <2>1. CASE a \in {1, 2, 4, 8} BY <2>1
  <2>2. CASE a \notin {1, 2, 4, 8} BY <2>2, AlignIs
  <2> QED BY <2>1, <2>2
<1>10. PICK e \in Nat :
         /\ e = Gap(b, a) /\ e % 8 = 0 /\ (e = 0 \/ e >= 32)
         /\ (ToPtr(b) + e) % a = 0 /\ (a <= 8 => e = 0) /\ (a > 8 => e <= a + 24)
  BY <1>8, GapIs
<1>11. h.size[b] >= j + e /\ (e # 0 => h.size[b] >= e + 32) BY <1>4, <1>6, <1>8, <1>9, <1>10
<1>12. PICK m : m = IF e # 0 /\ BlockCanSplit(k, b, e)
                    THEN BlockTrimFreeLeading(Insist(k, e >= HeaderSize), b, e)
                    ELSE Insist(k, e = 0)
  OBVIOUS
<1>13. TlsfMemalign(h, n, a) = BlockPrepareUsed(m, b + e, j)
  BY <1>1, <1>2, <1>5, <1>10, <1>12 DEF TlsfMemalign
<1>14. /\ b + e \in m.free /\ Good(m, ps, m.free \ {b + e}) /\ OnlyPrev(m, b + e)
       /\ m.size[b + e] >= j /\ Used(m) = Used(h) /\ Kept(m, h)
  <2>1. CASE e = 0
    <3>1. Insist(k, e = 0) = k BY <1>7, <2>1, InsistIs
    <3>2. m = k /\ b + e = b BY <1>8, <1>12, <2>1, <3>1
    <3>3. OnlyPrev(k, b) BY <1>7 DEF OnlyPrev, Whole, Coalesced
    <3>4. h.size[b] >= j BY <1>11, <2>1, <1>4, <1>8
    <3> QED BY <1>6, <1>7, <3>2, <3>3, <3>4 DEF Kept
  <2>2. CASE e # 0
    <3>1. PICK c \in Nat : c = b + e /\ c # b BY <1>8, <2>2
    <3>2. Insist(k, e >= HeaderSize) = k
      <4>1. e >= HeaderSize BY <1>10, <2>2 DEF HeaderSize
      <4> QED BY <1>7, <4>1, InsistIs
    <3>3. BlockCanSplit(k, b, e) BY <1>7, <1>8, <1>11, <2>2 DEF BlockCanSplit, HeaderSize
    <3>4. m = BlockTrimFreeLeading(k, b, e) BY <1>12, <2>2, <3>2, <3>3
    <3>5. PICK L : L = h.free \ {b} /\ Good(k, ps, L) /\ b \notin L BY <1>6
    <3>6. /\ Good(m, ps, L \cup {b}) /\ Halved(k.size, m.size, b, e - 8, b + e)
          /\ m.free = k.free \cup {b + e} /\ b + e \notin DOMAIN k.size
      <4>1. e >= 32 /\ k.size[b] >= e + 24 BY <1>7, <1>8, <1>10, <1>11, <2>2
      <4>2. b \in k.free /\ e % 8 = 0 /\ Good(k, ps, L) /\ b \notin L BY <1>7, <1>10, <3>5
      <4> QED BY <3>4, <4>1, <4>2, LeadingGood
    <3>7. /\ Halved(h.size, m.size, b, e - 8, c) /\ m.free = h.free \cup {c}
          /\ c \notin DOMAIN h.size
      BY <1>7, <3>1, <3>6
    <3>8. c \notin h.free /\ \A x \in h.free : x \in DOMAIN h.size /\ After(h.size, x) \in DOMAIN h.size
      BY <3>7, FreeIs DEF Whole
    <3>9. m.free \ {c} = h.free /\ L \cup {b} = h.free BY <1>6, <3>5, <3>7, <3>8
    <3>10. /\ After(m.size, b) = c /\ After(m.size, c) = After(h.size, b)
           /\ m.size[c] = h.size[b] - e
           /\ \A x \in DOMAIN h.size : x # b => After(m.size, x) = After(h.size, x)
      <4>1. PICK o \in Nat : o = e - 8 /\ o >= 24 /\ o % 8 = 0 /\ h.size[b] >= o + 32
        BY <1>8, <1>10, <1>11, <2>2
      <4>2. Halved(h.size, m.size, b, o, c) BY <3>7, <4>1
      <4>3. Tiled(h.size, ps) BY DEF Whole, Good
      <4>4. /\ After(m.size, b) = c /\ After(m.size, c) = After(h.size, b)
            /\ \A x \in DOMAIN h.size : x # b => After(m.size, x) = After(h.size, x)
        BY <1>8, <4>1, <4>2, <4>3, HalvedTiled
      <4>5. m.size[c] = h.size[b] - (o + 8) BY <4>2 DEF Halved
      <4> QED BY <1>8, <4>1, <4>4, <4>5
    <3>11. OnlyPrev(m, c)
      <4> SUFFICES ASSUME NEW x \in m.free, After(m.size, x) \in m.free, After(m.size, x) # c
                   PROVE  FALSE
        BY DEF OnlyPrev
      <4>1. x # b /\ After(m.size, x) \in h.free BY <3>7, <3>10
      <4>2. CASE x = c BY <1>6, <3>10, <4>1, <4>2 DEF Whole, Coalesced
      <4>3. CASE x # c BY <3>7, <3>8, <3>10, <4>1, <4>3 DEF Whole, Coalesced
      <4> QED BY <4>2, <4>3
    <3>12. m.size[c] >= j BY <1>4, <1>8, <1>11, <3>10
    <3>13. Used(m) = Used(h) /\ Kept(m, h)
      <4>1. /\ DOMAIN m.size = DOMAIN h.size \cup {c}
            /\ \A x \in DOMAIN h.size : x # b => m.size[x] = h.size[x]
        BY <3>7 DEF Halved
      <4> QED BY <1>6, <3>7, <4>1 DEF Used, Kept
    <3> QED BY <3>1, <3>6, <3>7, <3>9, <3>11, <3>12, <3>13
  <2> QED BY <2>1, <2>2
<1>15. PICK c, g : c = b + e /\ g = BlockPrepareUsed(m, c, j) OBVIOUS
<1>16. /\ Whole(g, ps) /\ Used(g) = Used(m) \cup {c} /\ c \notin Used(m)
       /\ Kept(g, m) /\ g.size[c] >= j /\ c \in DOMAIN g.size
  BY <1>4, <1>14, <1>15, PrepareIs
<1>17. g.size[c] >= n
  <2>1. g.size[c] \in Nat BY <1>16 DEF Whole, Good, Tiled, Shaped
  <2> QED BY <1>4, <1>16, <2>1
<1>18. Kept(g, h) BY <1>14, <1>16 DEF Kept
<1> QED BY <1>1, <1>5, <1>6, <1>10, <1>13, <1>14, <1>15, <1>16, <1>17, <1>18 DEF HandsOut

\* block_trim_used(): what a realloc leaves over becomes free.
LEMMA TrimUsedIs ==
  ASSUME NEW h, NEW ps, Whole(h, ps), NEW b \in Used(h),
         NEW n \in Nat, n >= 24, n % 8 = 0, h.size[b] >= n
  PROVE  LET g == BlockTrimUsed(h, b, n)
         IN  /\ Whole(g, ps) /\ Used(g) = Used(h) /\ g.size[b] >= n
             /\ \A c \in Used(h) : c # b => g.size[c] = h.size[c]
<1>1. /\ Good(h, ps, h.free) /\ b \in DOMAIN h.size /\ h.size[b] # 0 /\ b \notin h.free
      /\ IsHeap(h) /\ Tiled(h.size, ps)
  BY DEF Whole, Used, Good
<1>2. b \in Nat /\ h.size[b] \in Nat /\ After(h.size, b) \in DOMAIN h.size BY <1>1, BlockIs
<1>3. Insist(h, b \notin h.free) = h BY <1>1, InsistIs
<1>4. PICK r : r = b + n + 8 /\ r = Remaining(b, n) BY DEF Remaining, Overhead
<1>5. BlockCanSplit(h, b, n) <=> h.size[b] >= n + 32 BY <1>2 DEF BlockCanSplit, HeaderSize
<1>6. CASE h.size[b] < n + 32
  <2>1. BlockTrimUsed(h, b, n) = h BY <1>2, <1>3, <1>5, <1>6 DEF BlockTrimUsed
  <2> QED BY <2>1
<1>7. CASE h.size[b] >= n + 32
  <2>1. PICK m : m = [BlockSplit(h, b, n) EXCEPT !.prevfree = @ \ {r}] OBVIOUS
  <2>2. /\ Good(m, ps, h.free) /\ Halved(h.size, m.size, b, n, r)
        /\ m.free = h.free \cup {r} /\ r \notin DOMAIN h.size
    <3>1. r = b + n + 8 BY <1>4
    <3> QED BY <1>1, <1>7, <2>1, <3>1, CutUsedGood
  <2>3. /\ \A x \in h.free : x \in DOMAIN h.size /\ After(h.size, x) \in DOMAIN h.size
    BY <1>1, FreeIs
  <2>4. r \notin h.free /\ m.free \ {r} = h.free BY <2>2, <2>3
  <2>5. /\ DOMAIN m.size = DOMAIN h.size \cup {r} /\ m.size[b] = n
        /\ \A x \in DOMAIN h.size : x # b => m.size[x] = h.size[x]
    BY <2>2 DEF Halved
  <2>6. OnlyNext(m, r)
    <3> SUFFICES ASSUME NEW x \in m.free, After(m.size, x) \in m.free, x # r PROVE FALSE
      BY DEF OnlyNext
    <3>1. x \in h.free /\ x # b /\ x \in DOMAIN h.size BY <1>1, <2>2, <2>3
    <3>2. After(m.size, x) = After(h.size, x) BY <2>5, <3>1 DEF After
    <3> QED BY <2>2, <2>3, <3>1, <3>2 DEF Whole, Coalesced
  <2>7. Used(m) = Used(h)
    <3>1. n # 0 OBVIOUS
    <3> QED BY <1>1, <2>2, <2>5, <3>1 DEF Used
  <2>8. PICK g : g = BlockInsert(BlockMergeNext(m, r), r) OBVIOUS
  <2>9. Whole(g, ps) /\ Used(g) = Used(m) /\ Kept(g, m)
    <3>1. Good(m, ps, m.free \ {r}) /\ r \in m.free BY <2>2, <2>4
    <3> QED BY <2>6, <2>8, <3>1, SettleIs
  <2>10. BlockTrimUsed(h, b, n) = g
    BY <1>3, <1>4, <1>5, <1>7, <2>1, <2>8 DEF BlockTrimUsed
  <2>11. g.size[b] = n /\ \A c \in Used(h) : c # b => g.size[c] = h.size[c]
    <3>1. \A c \in Used(h) : c \in DOMAIN h.size BY DEF Used
    <3> QED BY <2>5, <2>7, <2>9, <3>1 DEF Kept
  <2> QED BY <2>7, <2>9, <2>10, <2>11
<1> QED BY <1>2, <1>6, <1>7

\* tlsf_realloc() in place: the block grows into the next one or shrinks.
LEMMA ReallocHereIs ==
  ASSUME NEW h, NEW ps, Whole(h, ps), NEW b \in Used(h),
         NEW j \in Nat, j >= 24, j % 8 = 0, ~MustMove(h, ToPtr(b), j)
  PROVE  LET g == TlsfReallocHere(h, ToPtr(b), j)
         IN  /\ Whole(g, ps) /\ Used(g) = Used(h) /\ g.size[b] >= j
             /\ \A c \in Used(h) : c # b => g.size[c] = h.size[c]
<1>1. /\ Good(h, ps, h.free) /\ b \in DOMAIN h.size /\ h.size[b] # 0 /\ b \notin h.free
      /\ IsHeap(h) /\ Tiled(h.size, ps)
  BY DEF Whole, Used, Good
<1>2. b \in Nat /\ h.size[b] \in Nat /\ After(h.size, b) \in Nat /\ After(h.size, b) > b
  BY <1>1, BlockIs
<1>3. FromPtr(ToPtr(b)) = b BY <1>2 DEF FromPtr, ToPtr
<1>4. PICK n : n = After(h.size, b) /\ n = BlockNext(h, b) BY NextIs
<1>5. PICK k : k = IF j > h.size[b] THEN MarkAsUsed(BlockMergeNext(h, b), b) ELSE h OBVIOUS
<1>6. /\ Whole(k, ps) /\ Used(k) = Used(h) /\ k.size[b] >= j
      /\ \A c \in Used(h) : c # b => k.size[c] = h.size[c]
  <2>1. CASE j <= h.size[b]
    <3>1. ~(j > h.size[b]) BY <1>2, <2>1
    <3>2. k = h BY <1>5, <3>1
    <3> QED BY <2>1, <3>2, <1>2
  <2>2. CASE j > h.size[b]
    <3>1. n \in h.free /\ ~(j > h.size[b] + h.size[n] + 8)
      BY <1>3, <1>4, <2>2 DEF MustMove, Overhead
    <3>2. Insist(h, h.size[b] # 0) = h BY <1>1, InsistIs
    <3>3. PICK l : l = BlockRemove(h, n) OBVIOUS
    <3>4. Good(l, ps, h.free \ {n}) /\ SameBlocks(l, h) BY <1>1, <3>1, <3>3, RemoveGood
    <3>5. BlockMergeNext(h, b) = BlockAbsorb(l, b, n)
      BY <1>4, <3>1, <3>2, <3>3 DEF BlockMergeNext
    <3>6. k = MarkAsUsed(BlockAbsorb(l, b, n), b) BY <1>5, <2>2, <3>5
    <3>7. l.size = h.size /\ l.free = h.free BY <3>4 DEF SameBlocks
    <3>8. /\ Good(k, ps, h.free \ {n}) /\ Joined(h.size, k.size, b, n) /\ k.free = h.free \ {n}
      <4>1. PICK L : L = h.free \ {n} /\ Good(l, ps, L) /\ n \notin L BY <3>4
      <4>2. n = After(l.size, b) /\ n \in l.free /\ b \in DOMAIN l.size /\ l.size[b] # 0 /\ b \notin l.free
        BY <1>1, <1>4, <3>1, <3>7
      <4>3. Good(k, ps, L) /\ Joined(l.size, k.size, b, n) /\ k.free = l.free \ {n}
        BY <3>6, <4>1, <4>2, AbsorbUsedGood
      <4> QED BY <3>7, <4>1, <4>3
    <3>9. /\ n \in DOMAIN h.size /\ h.size[n] # 0 /\ h.size[n] \in Nat BY <1>1, <3>1, FreeIs
    <3>10. /\ b # n /\ b \in DOMAIN k.size /\ k.size[b] # 0
           /\ \A c \in DOMAIN h.size : c # n /\ c # b => After(k.size, c) = After(h.size, c)
      <4>1. n = After(h.size, b) BY <1>4
      <4> QED BY <1>1, <3>8, <3>9, <4>1, JoinedTiled
    <3>11. /\ DOMAIN k.size = DOMAIN h.size \ {n} /\ k.size[b] = h.size[b] + h.size[n] + 8
           /\ \A c \in DOMAIN h.size : c # n /\ c # b => k.size[c] = h.size[c]
      BY <3>8 DEF Joined
    <3>12. Coalesced(k)
      <4>1. \A x \in k.free : x \in h.free /\ x \in DOMAIN h.size /\ x # n /\ x # b
        BY <1>1, <3>8, FreeIs
      <4> QED BY <3>8, <3>10, <4>1 DEF Whole, Coalesced
    <3>13. Used(k) = Used(h) BY <1>1, <3>1, <3>8, <3>10, <3>11 DEF Used
    <3>14. k.size[b] >= j BY <1>2, <3>1, <3>9, <3>11
    <3>15. \A c \in Used(h) : c # b => k.size[c] = h.size[c] BY <3>1, <3>11 DEF Used
    <3> QED BY <3>8, <3>12, <3>13, <3>14, <3>15 DEF Whole
  <2> QED BY <1>2, <2>1, <2>2
<1>7. Insist(k, b \notin h.free) = k BY <1>1, <1>6, InsistIs DEF Whole, Good
<1>8. TlsfReallocHere(h, ToPtr(b), j) = BlockTrimUsed(k, b, j)
  BY <1>3, <1>5, <1>7 DEF TlsfReallocHere
<1>9. PICK g : g = BlockTrimUsed(k, b, j) OBVIOUS
<1>10. /\ Whole(g, ps) /\ Used(g) = Used(k) /\ g.size[b] >= j
       /\ \A c \in Used(k) : c # b => g.size[c] = k.size[c]
  BY <1>6, <1>9, TrimUsedIs
<1> QED BY <1>6, <1>8, <1>9, <1>10

----------------------------------------------------------------------------
(* Pools.                                                                  *)

\* A block lies in one pool; it ends there, or is the sentinel.
LEMMA PoolOf ==
  ASSUME NEW size, NEW ps, Tiled(size, ps), NEW b \in DOMAIN size
  PROVE  \E q \in ps : /\ PoolFirst(q) <= b /\ b <= PoolEnd(q)
                       /\ size[b] = 0 => b = PoolEnd(q)
                       /\ size[b] # 0 => After(size, b) <= PoolEnd(q) /\ b < PoolEnd(q)
                       /\ \A r \in ps : PoolFirst(r) <= b /\ b <= PoolEnd(r) => r = q
<1>1. PICK q \in ps : /\ PoolFirst(q) <= b /\ b <= PoolEnd(q)
                      /\ size[b] = 0 => b = PoolEnd(q)
  BY DEF Tiled, Pooled
<1>2. b \in Nat BY DEF Tiled, Shaped
<1>3. \A r \in ps : r \in Pools /\ PoolFits(r) /\ PoolFirst(r) \in Nat /\ PoolEnd(r) \in Nat
  BY PoolIs DEF Tiled, GoodPools
<1>4. ASSUME NEW r \in ps, PoolFirst(r) <= b, b <= PoolEnd(r), r # q PROVE FALSE
  <2>1. PoolEnd(q) < PoolFirst(r) \/ PoolEnd(r) < PoolFirst(q) BY <1>3, <1>4, PoolsApart
  <2> QED BY <1>1, <1>2, <1>3, <1>4, <2>1
<1>5. CASE size[b] = 0 BY <1>1, <1>4, <1>5
<1>6. CASE size[b] # 0
  <2>1. PICK r \in ps : PoolFirst(r) <= b /\ b < PoolEnd(r) /\ After(size, b) <= PoolEnd(r)
    BY <1>6, InsidePool
  <2>2. r = q BY <1>2, <1>3, <1>4, <2>1
  <2> QED BY <1>1, <1>4, <1>6, <2>1, <2>2
<1> QED BY <1>5, <1>6

\* A pool without a block in use is one free block and its sentinel.
LEMMA WholeFree ==
  ASSUME NEW h, NEW ps, Whole(h, ps), NEW q \in ps,
         \A b \in Used(h) : ~(PoolFirst(q) <= b /\ b < PoolEnd(q))
  PROVE  /\ PoolFirst(q) \in h.free /\ h.size[PoolFirst(q)] = PoolBytes(q)
         /\ After(h.size, PoolFirst(q)) = PoolEnd(q)
         /\ PoolEnd(q) \in DOMAIN h.size /\ h.size[PoolEnd(q)] = 0
         /\ \A c \in DOMAIN h.size :
              PoolFirst(q) <= c /\ c <= PoolEnd(q) => c \in {PoolFirst(q), PoolEnd(q)}
<1>t. Tiled(h.size, ps) /\ Good(h, ps, h.free) BY DEF Whole, Good
<1>1. PICK b \in Nat, e \in Nat, w \in Nat :
        /\ b = PoolFirst(q) /\ e = PoolEnd(q) /\ w = PoolBytes(q) /\ e = b + w + 8
  BY <1>t, PoolIs DEF Tiled, GoodPools
<1>2. b \in DOMAIN h.size /\ e \in DOMAIN h.size /\ h.size[e] = 0 BY <1>1, <1>t DEF Tiled, Pooled
<1>3. ASSUME NEW c \in DOMAIN h.size, b <= c, c < e PROVE h.size[c] # 0 /\ c \in h.free
  <2>0. c \in Nat BY <1>t DEF Tiled, Shaped
  <2>1. PICK r \in ps : /\ h.size[c] = 0 => c = PoolEnd(r)
                        /\ \A s \in ps : PoolFirst(s) <= c /\ c <= PoolEnd(s) => s = r
    BY <1>t, PoolOf
  <2>2. PoolFirst(q) <= c /\ c <= PoolEnd(q) /\ c # PoolEnd(q) BY <1>1, <1>3, <2>0
  <2>3. h.size[c] # 0
    <3>1. r = q BY <2>1, <2>2
    <3> QED BY <2>1, <2>2, <3>1
  <2>4. c \notin Used(h) BY <1>1, <1>3
  <2> QED BY <2>3, <2>4 DEF Used
<1>4. h.size[b] # 0 /\ b \in h.free /\ h.size[b] \in Nat
  <2>1. b <= b /\ b < e BY <1>1
  <2>2. h.size[b] # 0 /\ b \in h.free BY <1>2, <1>3, <2>1
  <2> QED BY <1>t, <2>2, FreeIs
<1>5. PICK n : n = After(h.size, b) OBVIOUS
<1>6. n = e
  <2>1. n \in DOMAIN h.size /\ n \in Nat /\ n > b BY <1>2, <1>4, <1>5, <1>t, BlockIs
  <2>2. b < e BY <1>1
  <2>3. n <= e BY <1>2, <1>5, <1>t, <2>2 DEF Tiled, Disjoint
  <2>4. ASSUME n < e PROVE FALSE
    <3>1. b <= n BY <1>1, <2>1
    <3>2. n \in h.free BY <1>3, <2>1, <2>4, <3>1
    <3> QED BY <1>4, <1>5, <3>2 DEF Whole, Coalesced
  <2> QED BY <1>1, <2>1, <2>3, <2>4
<1>7. h.size[b] = w BY <1>1, <1>4, <1>5, <1>6 DEF After
<1>8. ASSUME NEW c \in DOMAIN h.size, b <= c, c <= e PROVE c \in {b, e}
  <2>1. c \in Nat BY <1>t DEF Tiled, Shaped
  <2>2. CASE c = b BY <2>2
  <2>3. CASE b < c
    <3>1. e <= c BY <1>2, <1>5, <1>6, <1>t, <2>3 DEF Tiled, Disjoint
    <3> QED BY <1>1, <1>8, <2>1, <3>1
  <2> QED BY <1>1, <1>8, <2>1, <2>2, <2>3
<1> QED BY <1>1, <1>2, <1>4, <1>5, <1>6, <1>7, <1>8

\* Pool q of blocks b and e beside the blocks of size.
LEMMA PoolTiled ==
  ASSUME NEW size, NEW ps, Tiled(size, ps), NEW q \in Pools, PoolFits(q), q \notin ps,
         NEW S, DOMAIN S = DOMAIN size \cup {PoolFirst(q), PoolEnd(q)},
         S[PoolFirst(q)] = PoolBytes(q), S[PoolEnd(q)] = 0,
         \A c \in DOMAIN size : S[c] = size[c]
  PROVE  /\ Tiled(S, ps \cup {q})
         /\ PoolFirst(q) \notin DOMAIN size /\ PoolEnd(q) \notin DOMAIN size
         /\ After(S, PoolFirst(q)) = PoolEnd(q)
         /\ \A c \in DOMAIN size : After(S, c) = After(size, c)
<1>1. PICK b \in Nat, e \in Nat, w \in Nat :
        /\ b = PoolFirst(q) /\ e = PoolEnd(q) /\ w = PoolBytes(q) /\ e = b + w + 8
        /\ b % 8 = 0 /\ e % 8 = 0 /\ w % 8 = 0 /\ w >= 24
  BY PoolIs
<1>2. ASSUME NEW c \in DOMAIN size
      PROVE  /\ c \in Nat /\ size[c] \in Nat /\ c % 8 = 0
             /\ \/ After(size, c) <= b
                \/ e + 8 <= c
  <2>1. PICK r \in ps : /\ PoolFirst(r) <= c /\ c <= PoolEnd(r)
                        /\ size[c] = 0 => c = PoolEnd(r)
                        /\ size[c] # 0 => After(size, c) <= PoolEnd(r)
    BY PoolOf
  <2>2. r # q /\ r \in Pools /\ PoolFits(r) BY DEF Tiled, GoodPools
  <2>3. /\ PoolFirst(r) \in Nat /\ PoolEnd(r) \in Nat /\ PoolFirst(r) % 8 = 0 /\ PoolEnd(r) % 8 = 0
    BY <2>2, PoolIs
  <2>4. e < PoolFirst(r) \/ PoolEnd(r) < b BY <1>1, <2>2, PoolsApart
  <2>5. c \in Nat /\ size[c] \in Nat /\ c % 8 = 0 BY DEF Tiled, Shaped
  <2>6. CASE e < PoolFirst(r)
    <3>1. e + 8 <= PoolFirst(r) BY <1>1, <2>3, <2>6
    <3> QED BY <1>1, <2>1, <2>3, <2>5, <3>1
  <2>7. CASE PoolEnd(r) < b
    <3>1. PoolEnd(r) + 8 <= b BY <1>1, <2>3, <2>7
    <3>2. After(size, c) <= b
      <4>1. CASE size[c] = 0 BY <1>1, <2>1, <2>3, <2>5, <3>1, <4>1 DEF After
      <4>2. CASE size[c] # 0 BY <1>1, <2>1, <2>3, <2>5, <3>1, <4>2 DEF After
      <4> QED BY <4>1, <4>2
    <3> QED BY <2>5, <3>2
  <2> QED BY <2>4, <2>6, <2>7
<1>3. b \notin DOMAIN size /\ e \notin DOMAIN size
  <2>1. ASSUME NEW c \in DOMAIN size PROVE c # b /\ c # e
    BY <1>1, <1>2 DEF After
  <2> QED BY <2>1
<1>4. S[b] = w /\ S[e] = 0 /\ After(S, b) = e /\ After(S, e) = e + 8 BY <1>1 DEF After
<1>5. \A c \in DOMAIN size : S[c] = size[c] /\ After(S, c) = After(size, c) BY DEF After
<1>6. DOMAIN S = DOMAIN size \cup {b, e} BY <1>1
<1>7. Shaped(S)
  <2>1. ASSUME NEW c \in DOMAIN S PROVE c \in Nat /\ c % 8 = 0 /\ S[c] \in Nat
    <3>1. CASE c \in DOMAIN size BY <1>2, <1>5, <3>1
    <3>2. CASE c = b \/ c = e BY <1>1, <1>4, <3>2
    <3> QED BY <1>6, <3>1, <3>2
  <2>2. ASSUME NEW c \in DOMAIN S, S[c] # 0
        PROVE  S[c] >= 24 /\ S[c] % 8 = 0 /\ After(S, c) \in DOMAIN S
    <3>1. CASE c \in DOMAIN size BY <1>5, <1>6, <2>2, <3>1 DEF Tiled, Shaped
    <3>2. CASE c = b BY <1>1, <1>4, <1>6, <3>2
    <3>3. CASE c = e BY <1>4, <2>2, <3>3
    <3> QED BY <1>6, <3>1, <3>2, <3>3
  <2> QED BY <2>1, <2>2 DEF Shaped
<1>8. Disjoint(S)
  <2> SUFFICES ASSUME NEW c \in DOMAIN S, NEW d \in DOMAIN S, c < d
               PROVE  After(S, c) <= d
    BY DEF Disjoint
  <2>1. CASE c \in DOMAIN size /\ d \in DOMAIN size BY <1>5, <2>1 DEF Tiled, Disjoint
  <2>2. CASE c \in DOMAIN size /\ d \in {b, e}
    <3>1. c \in Nat /\ ~(e + 8 <= c) BY <1>1, <1>2, <2>2
    <3>2. After(size, c) <= b /\ After(size, c) \in Nat BY <1>2, <2>2, <3>1 DEF After
    <3> QED BY <1>1, <1>5, <2>2, <3>2
  <2>3. CASE c \in {b, e} /\ d \in DOMAIN size
    <3>1. d \in Nat /\ ~(After(size, d) <= b) BY <1>1, <1>2, <2>3 DEF After
    <3>2. e + 8 <= d BY <1>2, <2>3, <3>1
    <3> QED BY <1>1, <1>4, <2>3, <3>1, <3>2
  <2>4. CASE c \in {b, e} /\ d \in {b, e} BY <1>1, <1>4, <2>4
  <2> QED BY <1>6, <2>1, <2>2, <2>3, <2>4
<1>9. Pooled(S, ps \cup {q})
  <2>1. ASSUME NEW r \in ps \cup {q}
        PROVE  PoolFirst(r) \in DOMAIN S /\ PoolEnd(r) \in DOMAIN S /\ S[PoolEnd(r)] = 0
    <3>1. CASE r \in ps
      <4>1. PoolFirst(r) \in DOMAIN size /\ PoolEnd(r) \in DOMAIN size /\ size[PoolEnd(r)] = 0
        BY <3>1 DEF Tiled, Pooled
      <4> QED BY <1>5, <1>6, <4>1
    <3>2. CASE r = q BY <1>1, <1>4, <1>6, <3>2
    <3> QED BY <3>1, <3>2
  <2>2. ASSUME NEW c \in DOMAIN S
        PROVE  \E r \in ps \cup {q} :
                 PoolFirst(r) <= c /\ c <= PoolEnd(r) /\ (S[c] = 0 => c = PoolEnd(r))
    <3>1. CASE c \in DOMAIN size
      <4>1. PICK r \in ps :
              PoolFirst(r) <= c /\ c <= PoolEnd(r) /\ (size[c] = 0 => c = PoolEnd(r))
        BY <3>1 DEF Tiled, Pooled
      <4> QED BY <1>5, <3>1, <4>1
    <3>2. CASE c = b
      <4>1. b <= b /\ b <= e /\ S[b] # 0 BY <1>1, <1>4
      <4> QED BY <1>1, <3>2, <4>1
    <3>3. CASE c = e
      <4>1. b <= e /\ e <= e BY <1>1
      <4> QED BY <1>1, <3>3, <4>1
    <3> QED BY <1>6, <3>1, <3>2, <3>3
  <2> QED BY <2>1, <2>2 DEF Pooled
<1>10. GoodPools(ps \cup {q}) BY DEF Tiled, GoodPools
<1> QED BY <1>1, <1>3, <1>4, <1>5, <1>7, <1>8, <1>9, <1>10 DEF Tiled

\* tlsf_add_pool(): a free block and a sentinel more.
LEMMA AddPoolIs ==
  ASSUME NEW h, NEW ps, Whole(h, ps), NEW q \in Pools, PoolFits(q), q \notin ps
  PROVE  LET g == TlsfAddPool(h, q)
         IN  Whole(g, ps \cup {q}) /\ Used(g) = Used(h) /\ Kept(g, h)
<1>t. /\ Tiled(h.size, ps) /\ Tagged(h.size, h.free, h.prevfree, h.prev) /\ IsHeap(h)
      /\ Listed(h, h.free) /\ Good(h, ps, h.free)
  BY DEF Whole, Good
<1>1. PICK b \in Nat, e \in Nat, w \in Nat :
        /\ b = PoolFirst(q) /\ e = PoolEnd(q) /\ w = PoolBytes(q) /\ e = b + w + 8
        /\ b % 8 = 0 /\ w >= 24 /\ w < BlockSizeMax
  BY PoolIs
<1>2. PICK T : T = Put(h.size, b, w) OBVIOUS
<1>3. PICK S : S = Put(T, e, 0) OBVIOUS
<1>4. b # e BY <1>1
<1>5. DOMAIN T = DOMAIN h.size \cup {b} /\ T[b] = w /\ \A c \in DOMAIN h.size : c # b => T[c] = h.size[c]
  BY <1>2 DEF Put
<1>6. /\ DOMAIN S = DOMAIN h.size \cup {b, e} /\ S[e] = 0 /\ S[b] = w
      /\ \A c \in DOMAIN h.size : c # b /\ c # e => S[c] = h.size[c]
  BY <1>3, <1>4, <1>5 DEF Put
<1>7. b \notin DOMAIN h.size /\ e \notin DOMAIN h.size
  <2>2. ASSUME NEW c \in DOMAIN h.size PROVE c # b /\ c # e
    <3>1. PICK r \in ps : /\ PoolFirst(r) <= c /\ c <= PoolEnd(r)
      BY <1>t, PoolOf
    <3>2. r # q /\ r \in Pools /\ PoolFits(r) BY <1>t DEF Tiled, GoodPools
    <3>3. PoolFirst(r) \in Nat /\ PoolEnd(r) \in Nat BY <3>2, PoolIs
    <3>4. e < PoolFirst(r) \/ PoolEnd(r) < b BY <1>1, <3>2, PoolsApart
    <3>5. c \in Nat BY <1>t DEF Tiled, Shaped
    <3> QED BY <1>1, <3>1, <3>3, <3>4, <3>5
  <2> QED BY <2>2
<1>8. \A c \in DOMAIN h.size : S[c] = h.size[c] /\ T[c] = h.size[c] BY <1>5, <1>6, <1>7
<1>9. /\ Tiled(S, ps \cup {q}) /\ After(S, b) = e
      /\ \A c \in DOMAIN h.size : After(S, c) = After(h.size, c)
  <2>1. /\ DOMAIN S = DOMAIN h.size \cup {PoolFirst(q), PoolEnd(q)}
        /\ S[PoolFirst(q)] = PoolBytes(q) /\ S[PoolEnd(q)] = 0
        /\ \A c \in DOMAIN h.size : S[c] = h.size[c]
    BY <1>1, <1>6, <1>8
  <2>2. /\ Tiled(S, ps \cup {q}) /\ After(S, PoolFirst(q)) = PoolEnd(q)
        /\ \A c \in DOMAIN h.size : After(S, c) = After(h.size, c)
    BY <1>t, <2>1, PoolTiled
  <2> QED BY <1>1, <2>2
<1>10. PICK k : k = SetSize([h EXCEPT !.free = @ \cup {b}], b, w) OBVIOUS
<1>11. Has(k, h, T, h.prev, h.free \cup {b}, h.prevfree)
  <2>1. PICK j : j = [h EXCEPT !.free = @ \cup {b}] OBVIOUS
  <2>2. Has(j, h, h.size, h.prev, h.free \cup {b}, h.prevfree)
    <3>1. PICK s, p, f, x, bl, fl, sl :
        h = [size |-> s, prev |-> p, free |-> f, prevfree |-> x,
             blocks |-> bl, fl |-> fl, sl |-> sl, ok |-> TRUE]
      BY <1>t DEF IsHeap
    <3> QED BY <2>1, <3>1 DEF Has, IsHeap, SameLists
  <2>3. Has(k, j, Put(j.size, b, w), j.prev, j.free, j.prevfree)
    <3>1. k = SetSize(j, b, w) BY <1>10, <2>1
    <3>2. IsHeap(j) BY <2>2 DEF Has
    <3> QED BY <3>1, <3>2, SetSizeIs
  <2> QED BY <1>2, <2>2, <2>3 DEF Has, SameLists
<1>12. \A c \in h.free : c \in DOMAIN h.size /\ After(h.size, c) \in DOMAIN h.size
  BY <1>t, FreeIs
<1>13. Listed(k, h.free) BY <1>t, <1>8, <1>11, <1>12, ListedKept DEF Has
<1>14. PICK l : l = BlockInsert(k, b) OBVIOUS
<1>15. IsHeap(l) /\ SameBlocks(l, k) /\ Listed(l, h.free \cup {b})
  <2>1. k.size[b] = w /\ b \notin h.free BY <1>5, <1>7, <1>11, <1>12 DEF Has
  <2>2. PICK c \in Classes : c = MappingInsert(k.size[b])
    <3>1. w >= 1 BY <1>1
    <3> QED BY <1>1, <2>1, <3>1, InClasses
  <2>3. l = InsertFreeBlock(k, b, c) BY <1>14, <2>2 DEF BlockInsert
  <2> QED BY <1>1, <1>11, <1>13, <2>1, <2>2, <2>3, InsertIs DEF Has
<1>16. After(T, b) = e /\ T[b] # 0 BY <1>1, <1>5 DEF After
<1>17. PICK m : m = LinkNext(l, b) OBVIOUS
<1>18. Has(m, l, T, Put(h.prev, e, b), h.free \cup {b}, h.prevfree)
  <2>1. l.size = T /\ l.prev = h.prev /\ l.free = h.free \cup {b} /\ l.prevfree = h.prevfree
    BY <1>11, <1>15 DEF Has, SameBlocks
  <2>2. l.size[b] # 0 /\ After(l.size, b) = e BY <1>16, <2>1
  <2>3. Has(m, l, l.size, Put(l.prev, After(l.size, b), b), l.free, l.prevfree)
    BY <1>15, <1>17, <2>2, LinkNextIs
  <2> QED BY <2>1, <2>2, <2>3
<1>19. PICK o : o = SetSize(m, e, 0) OBVIOUS
<1>20. Has(o, m, S, Put(h.prev, e, b), h.free \cup {b}, h.prevfree)
  <2>1. Has(o, m, Put(m.size, e, 0), m.prev, m.free, m.prevfree)
    BY <1>18, <1>19, SetSizeIs DEF Has
  <2> QED BY <1>3, <1>18, <2>1 DEF Has
<1>21. PICK g : g = [o EXCEPT !.prevfree = @ \cup {e}] OBVIOUS
<1>22. Has(g, o, S, Put(h.prev, e, b), h.free \cup {b}, h.prevfree \cup {e})
  <2>1. PICK s, p, f, x, bl, fl, sl :
      o = [size |-> s, prev |-> p, free |-> f, prevfree |-> x,
           blocks |-> bl, fl |-> fl, sl |-> sl, ok |-> TRUE]
    BY <1>20 DEF Has, IsHeap
  <2> QED BY <1>20, <1>21, <2>1 DEF Has, IsHeap, SameLists
<1>23. TlsfAddPool(h, q) = g
  BY <1>1, <1>10, <1>14, <1>17, <1>19, <1>21 DEF TlsfAddPool
<1>24. SameLists(g, l) BY <1>18, <1>20, <1>22 DEF Has, SameLists
<1>25. Listed(g, h.free \cup {b})
  <2>1. l.size = T /\ g.size = S BY <1>11, <1>15, <1>22 DEF Has, SameBlocks
  <2>2. \A c \in h.free \cup {b} : S[c] = T[c] BY <1>5, <1>6, <1>8, <1>12
  <2> QED BY <1>15, <1>24, <2>1, <2>2, ListedKept
<1>26. Tagged(S, h.free \cup {b}, h.prevfree \cup {e}, Put(h.prev, e, b))
  <2>1. \A c \in h.free \cup {b} : c \in DOMAIN S /\ S[c] # 0
    <3>1. \A c \in h.free : h.size[c] # 0 BY <1>t DEF Tagged
    <3>2. w # 0 BY <1>1
    <3> QED BY <1>6, <1>8, <1>12, <3>1, <3>2
  <2>2. ASSUME NEW c
        PROVE  c \in h.prevfree \cup {e} <=> \E x \in h.free \cup {b} : c = After(S, x)
    <3>1. c \in h.prevfree <=> \E x \in h.free : c = After(h.size, x) BY <1>t DEF Tagged
    <3> QED BY <1>9, <1>12, <3>1
  <2>3. /\ DOMAIN h.prev = h.prevfree /\ \A c \in h.free : h.prev[After(h.size, c)] = c
        /\ \A c \in h.free : After(h.size, c) \in h.prevfree
    BY <1>t DEF Tagged
  <2>4. PICK W : W = Put(h.prev, e, b) OBVIOUS
  <2>5. /\ DOMAIN W = h.prevfree \cup {e} /\ W[e] = b
        /\ \A c \in h.prevfree : c # e => W[c] = h.prev[c]
    BY <2>3, <2>4 DEF Put
  <2>6. \A c \in h.free \cup {b} : W[After(S, c)] = c
    BY <1>7, <1>9, <1>12, <2>3, <2>5
  <2> QED BY <2>1, <2>2, <2>4, <2>5, <2>6 DEF Tagged
<1>27. Good(g, ps \cup {q}, g.free) BY <1>9, <1>22, <1>25, <1>26 DEF Good, Has
<1>28. Coalesced(g)
  <2>1. g.free = h.free \cup {b} /\ g.size = S BY <1>22 DEF Has
  <2>2. ASSUME NEW c \in g.free PROVE After(g.size, c) \notin g.free
    <3>1. CASE c = b BY <1>4, <1>7, <1>9, <1>12, <2>1, <3>1
    <3>2. CASE c # b BY <1>7, <1>9, <1>12, <2>1, <3>2 DEF Whole, Coalesced
    <3> QED BY <3>1, <3>2
  <2> QED BY <2>2 DEF Coalesced
<1>29. Used(g) = Used(h) /\ Kept(g, h)
  <2>1. g.free = h.free \cup {b} /\ g.size = S BY <1>22 DEF Has
  <2> QED BY <1>6, <1>7, <1>8, <2>1 DEF Used, Kept
<1> QED BY <1>23, <1>27, <1>28, <1>29 DEF Whole

\* The control structure without a pool.
LEMMA ControlIs == Whole(ControlConstruct, {}) /\ Used(ControlConstruct) = {}
<1>1. PICK h : h = ControlConstruct OBVIOUS
<1>2. /\ h.size = << >> /\ h.prev = << >> /\ h.free = {} /\ h.prevfree = {}
      /\ h.blocks = [c \in Classes |-> << >>] /\ h.fl = {} /\ h.sl = [f \in Rows |-> {}]
      /\ IsHeap(h)
  BY <1>1 DEF ControlConstruct, IsHeap, Rows
<1>3. DOMAIN h.size = {} /\ DOMAIN h.prev = {} BY <1>2
<1>4. Tiled(h.size, {}) BY <1>3 DEF Tiled, Shaped, Disjoint, Pooled, GoodPools
<1>5. Tagged(h.size, h.free, h.prevfree, h.prev) BY <1>2, <1>3 DEF Tagged
<1>6. Listed(h, {})
  <2>1. \A f \in Rows, s \in Cols : <<f, s>> \in Classes BY DEF Rows, Cols, Classes
  <2>2. Mapped(h.blocks, h.sl, h.fl) BY <1>2, <2>1 DEF Mapped
  <2>3. << >> \in Seq({}) /\ NoneTwice(<< >>) BY DEF NoneTwice
  <2> QED BY <1>2, <2>2, <2>3 DEF Listed
<1> QED BY <1>1, <1>2, <1>3, <1>4, <1>5, <1>6 DEF Whole, Good, Coalesced, Used

\* tlsf_remove_pool() of a pool without a block in use.
LEMMA RemovePoolIs ==
  ASSUME NEW h, NEW ps, Whole(h, ps), NEW q \in ps,
         \A c \in Used(h) : ~(PoolFirst(q) <= c /\ c < PoolEnd(q))
  PROVE  LET g == TlsfRemovePool(h, q)
         IN  Whole(g, ps \ {q}) /\ Used(g) = Used(h) /\ Kept(g, h)
<1>t. /\ Tiled(h.size, ps) /\ Tagged(h.size, h.free, h.prevfree, h.prev) /\ IsHeap(h)
      /\ Good(h, ps, h.free)
  BY DEF Whole, Good
<1>1. PICK b, e : b = PoolFirst(q) /\ e = PoolEnd(q) OBVIOUS
<1>2. /\ b \in h.free /\ After(h.size, b) = e /\ e \in DOMAIN h.size /\ h.size[e] = 0
      /\ \A c \in DOMAIN h.size : b <= c /\ c <= e => c \in {b, e}
  BY <1>1, WholeFree
<1>3. b \in DOMAIN h.size /\ h.size[b] # 0 /\ b \in Nat /\ e \in Nat /\ b < e
  <2>1. b \in DOMAIN h.size /\ h.size[b] # 0 /\ b \in Nat BY <1>t, <1>2, FreeIs
  <2> QED BY <1>t, <1>2, <2>1, BlockIs
<1>4. e \notin h.free BY <1>t, <1>2 DEF Tagged
<1>5. ASSUME NEW c \in DOMAIN h.size, c # b, c # e
      PROVE  (After(h.size, c) # b /\ After(h.size, c) # e) \/ h.size[c] = 0
  <2>1. CASE h.size[c] # 0
    <3>1. After(h.size, c) # b BY <1>t, <1>1, <2>1, InsidePool
    <3>2. After(h.size, c) # e BY <1>t, <1>2, <1>3, <1>5, AfterUnique DEF Tiled
    <3> QED BY <3>1, <3>2
  <2> QED BY <2>1
<1>6. PICK k : k = BlockRemove(h, b) OBVIOUS
<1>7. Good(k, ps, h.free \ {b}) /\ SameBlocks(k, h) BY <1>t, <1>2, <1>6, RemoveGood
<1>8. PICK S : S = [c \in DOMAIN h.size \ {b, e} |-> h.size[c]] OBVIOUS
<1>9. PICK g : g = TlsfRemovePool(h, q) OBVIOUS
<1>10. Has(g, k, S, Cut(h.prev, e), h.free \ {b}, h.prevfree \ {e})
  <2>1. BlockNext(h, b) = e BY <1>2, NextIs
  <2>2. Insist(h, b \in h.free /\ e \notin h.free /\ h.size[e] = 0) = h
    BY <1>t, <1>2, <1>4, InsistIs
  <2>3. g = [k EXCEPT !.size = [c \in DOMAIN k.size \ {b, e} |-> k.size[c]],
                      !.prev = [c \in DOMAIN k.prev \ {e} |-> k.prev[c]],
                      !.free = k.free \ {b}, !.prevfree = k.prevfree \ {e}]
    BY <1>1, <1>6, <1>9, <2>1, <2>2 DEF TlsfRemovePool
  <2>4. /\ [c \in DOMAIN k.size \ {b, e} |-> k.size[c]] = S
        /\ [c \in DOMAIN k.prev \ {e} |-> k.prev[c]] = Cut(h.prev, e)
        /\ k.free = h.free /\ k.prevfree = h.prevfree
    BY <1>7, <1>8 DEF SameBlocks, Cut
  <2>5. PICK V : V = Cut(h.prev, e) OBVIOUS
  <2>6. g = [k EXCEPT !.size = S, !.prev = V, !.free = h.free \ {b},
                      !.prevfree = h.prevfree \ {e}]
    BY <2>3, <2>4, <2>5
  <2>7. PICK s, p, f, x, bl, fl, sl :
      k = [size |-> s, prev |-> p, free |-> f, prevfree |-> x,
           blocks |-> bl, fl |-> fl, sl |-> sl, ok |-> TRUE]
    BY <1>7 DEF Good, IsHeap
  <2>8. g = [size |-> S, prev |-> V, free |-> h.free \ {b}, prevfree |-> h.prevfree \ {e},
             blocks |-> bl, fl |-> fl, sl |-> sl, ok |-> TRUE]
    BY <2>6, <2>7
  <2>9. k.blocks = bl /\ k.fl = fl /\ k.sl = sl BY <2>7
  <2> QED BY <2>5, <2>8, <2>9 DEF Has, IsHeap, SameLists
<1>11. /\ DOMAIN S = DOMAIN h.size \ {b, e}
       /\ \A c \in DOMAIN S : S[c] = h.size[c] /\ After(S, c) = After(h.size, c)
  BY <1>8 DEF After
<1>12. Tiled(S, ps \ {q})
  <2>1. Shaped(S)
    <3>1. \A c \in DOMAIN S : c \in Nat /\ c % 8 = 0 /\ S[c] \in Nat
      BY <1>t, <1>11 DEF Tiled, Shaped
    <3>2. ASSUME NEW c \in DOMAIN S, S[c] # 0
          PROVE  S[c] >= 24 /\ S[c] % 8 = 0 /\ After(S, c) \in DOMAIN S
      <4>1. /\ c \in DOMAIN h.size /\ h.size[c] # 0 /\ c # b /\ c # e
            /\ S[c] = h.size[c] /\ After(S, c) = After(h.size, c)
        BY <1>11, <3>2
      <4>2. h.size[c] >= 24 /\ h.size[c] % 8 = 0 /\ After(h.size, c) \in DOMAIN h.size
        BY <1>t, <4>1 DEF Tiled, Shaped
      <4> QED BY <1>5, <1>11, <4>1, <4>2
    <3> QED BY <3>1, <3>2 DEF Shaped
  <2>2. Disjoint(S) BY <1>t, <1>11 DEF Tiled, Disjoint
  <2>3. Pooled(S, ps \ {q})
    <3>1. ASSUME NEW r \in ps \ {q}
          PROVE  PoolFirst(r) \in DOMAIN S /\ PoolEnd(r) \in DOMAIN S /\ S[PoolEnd(r)] = 0
      <4>1. /\ PoolFirst(r) \in DOMAIN h.size /\ PoolEnd(r) \in DOMAIN h.size
            /\ h.size[PoolEnd(r)] = 0
        BY <1>t DEF Tiled, Pooled
      <4>2. /\ PoolFirst(r) \in Nat /\ PoolEnd(r) \in Nat /\ PoolFirst(r) <= PoolEnd(r)
        BY <1>t, PoolIs DEF Tiled, GoodPools
      <4>3. e < PoolFirst(r) \/ PoolEnd(r) < b BY <1>1, <1>t, PoolsApart DEF Tiled, GoodPools
      <4>4. PoolFirst(r) \notin {b, e} /\ PoolEnd(r) \notin {b, e} BY <1>3, <4>2, <4>3
      <4> QED BY <1>11, <4>1, <4>4
    <3>2. ASSUME NEW c \in DOMAIN S
          PROVE  \E r \in ps \ {q} :
                   PoolFirst(r) <= c /\ c <= PoolEnd(r) /\ (S[c] = 0 => c = PoolEnd(r))
      <4>1. c \in DOMAIN h.size /\ c \notin {b, e} /\ S[c] = h.size[c] BY <1>11
      <4>2. PICK r \in ps :
              PoolFirst(r) <= c /\ c <= PoolEnd(r) /\ (h.size[c] = 0 => c = PoolEnd(r))
        BY <1>t, <4>1 DEF Tiled, Pooled
      <4>3. r # q BY <1>1, <1>2, <4>1, <4>2
      <4> QED BY <4>1, <4>2, <4>3
    <3> QED BY <3>1, <3>2 DEF Pooled
  <2>4. GoodPools(ps \ {q}) BY <1>t DEF Tiled, GoodPools
  <2> QED BY <2>1, <2>2, <2>3, <2>4 DEF Tiled
<1>13. \A c \in h.free : c \in DOMAIN h.size /\ h.size[c] # 0 /\ c # e BY <1>t, <1>2 DEF Tagged
<1>14. Tagged(S, h.free \ {b}, h.prevfree \ {e}, Cut(h.prev, e))
  <2>1. ASSUME NEW c \in h.free, c # b
        PROVE  /\ c \in DOMAIN S /\ S[c] # 0 /\ After(S, c) = After(h.size, c)
               /\ After(h.size, c) # e
    BY <1>5, <1>11, <1>13, <2>1
  <2>2. ASSUME NEW c
        PROVE  c \in h.prevfree \ {e} <=> \E x \in h.free \ {b} : c = After(S, x)
    <3>1. c \in h.prevfree <=> \E x \in h.free : c = After(h.size, x) BY <1>t DEF Tagged
    <3> QED BY <1>2, <2>1, <3>1
  <2>3. /\ DOMAIN h.prev = h.prevfree /\ \A c \in h.free : h.prev[After(h.size, c)] = c
        /\ \A c \in h.free : After(h.size, c) \in h.prevfree
    BY <1>t DEF Tagged
  <2>4. PICK V : V = Cut(h.prev, e) OBVIOUS
  <2>5. DOMAIN V = h.prevfree \ {e} /\ \A c \in h.prevfree : c # e => V[c] = h.prev[c]
    BY <2>3, <2>4 DEF Cut
  <2>6. \A c \in h.free \ {b} : V[After(S, c)] = c BY <2>1, <2>3, <2>5
  <2> QED BY <2>1, <2>2, <2>4, <2>5, <2>6 DEF Tagged
<1>15. Listed(g, h.free \ {b})
  <2>1. \A c \in h.free \ {b} : g.size[c] = k.size[c]
    BY <1>7, <1>10, <1>11, <1>13 DEF Has, SameBlocks
  <2> QED BY <1>7, <1>10, <2>1, ListedKept DEF Has, Good
<1>16. g.size = S /\ g.free = h.free \ {b} /\ IsHeap(g) BY <1>10 DEF Has
<1>17. Good(g, ps \ {q}, g.free) BY <1>10, <1>12, <1>14, <1>15 DEF Good, Has
<1>18. Coalesced(g) BY <1>11, <1>13, <1>16 DEF Coalesced, Whole
<1>19. Used(g) = Used(h) /\ Kept(g, h) BY <1>2, <1>11, <1>16 DEF Used, Kept
<1> QED BY <1>9, <1>17, <1>18, <1>19 DEF Whole

----------------------------------------------------------------------------
(* The invariant.                                                          *)

\* The requests of krealloc() adjust to a size there is: the others are
\* refused by adjust_request_size(), which tlsf_realloc() does not look at.
ReallocFits == \A n \in ReallocRequests : AdjustRequestSize(n, AlignSize) # 0

Holding(n, a) == [asked |-> n, align |-> a]

\* Callers hold the blocks in use, each as large and as aligned as asked for.
Held(h, lv) ==
  /\ DOMAIN lv = {ToPtr(b) : b \in Used(h)}
  /\ lv = [p \in DOMAIN lv |-> Holding(lv[p].asked, lv[p].align)]
  /\ \A b \in Used(h) : /\ ToPtr(b) % lv[ToPtr(b)].align = 0
                        /\ h.size[b] >= lv[ToPtr(b)].asked

\* The inductive invariant.
HeapInv == Whole(heap, pools) /\ Held(heap, live) /\ faulted \in BOOLEAN

\* A block in use.
LEMMA UsedIs ==
  ASSUME NEW h, NEW ps, Whole(h, ps), NEW b \in Used(h)
  PROVE  /\ b \in DOMAIN h.size /\ h.size[b] # 0 /\ b \in Nat /\ b % 8 = 0
         /\ h.size[b] \in Nat /\ h.size[b] >= 24
         /\ ToPtr(b) = b + 16 /\ ToPtr(b) \in Nat /\ ToPtr(b) % 8 = 0
         /\ FromPtr(ToPtr(b)) = b
<1>1. /\ b \in DOMAIN h.size /\ h.size[b] # 0 /\ Tiled(h.size, ps) BY DEF Used, Whole, Good
<1>2. b \in Nat /\ b % 8 = 0 /\ h.size[b] \in Nat /\ h.size[b] >= 24 BY <1>1, BlockIs
<1>3. ToPtr(b) = b + 16 /\ ToPtr(b) \in Nat /\ ToPtr(b) % 8 = 0 /\ FromPtr(ToPtr(b)) = b
  BY <1>2 DEF ToPtr, FromPtr
<1> QED BY <1>1, <1>2, <1>3

\* A pointer that a caller holds.
LEMMA HeldIs ==
  ASSUME NEW h, NEW ps, NEW lv, Whole(h, ps), Held(h, lv), NEW p \in DOMAIN lv
  PROVE  FromPtr(p) \in Used(h) /\ p = ToPtr(FromPtr(p))
<1>1. PICK b \in Used(h) : p = ToPtr(b) BY DEF Held
<1> QED BY <1>1, UsedIs

\* g is h with a block at b handed out, the blocks in U being the other ones
\* in use, and lv1 says so.
Placed(g, h, ps, lv, lv1, U, b, n, a) ==
  /\ Whole(g, ps) /\ U \subseteq Used(h)
  /\ Used(g) = U \cup {b} /\ b \notin U
  /\ \A c \in U : g.size[c] = h.size[c]
  /\ g.size[b] >= n /\ ToPtr(b) % a = 0
  /\ lv1 = [p \in {ToPtr(c) : c \in U} \cup {ToPtr(b)} |->
              IF p = ToPtr(b) THEN Holding(n, a) ELSE lv[p]]

\* Then what callers hold is right again.
LEMMA PlacedHeld ==
  ASSUME NEW h, NEW ps, Whole(h, ps), NEW lv, Held(h, lv),
         NEW g, NEW lv1, NEW U, NEW b, NEW n, NEW a, Placed(g, h, ps, lv, lv1, U, b, n, a)
  PROVE  Held(g, lv1)
<1>1. /\ Whole(g, ps) /\ U \subseteq Used(h)
      /\ Used(g) = U \cup {b} /\ b \notin U
      /\ \A c \in U : g.size[c] = h.size[c]
      /\ g.size[b] >= n /\ ToPtr(b) % a = 0
  BY DEF Placed
<1>2. /\ DOMAIN lv1 = {ToPtr(c) : c \in Used(g)} /\ lv1[ToPtr(b)] = Holding(n, a)
      /\ \A p \in DOMAIN lv1 : p # ToPtr(b) => lv1[p] = lv[p]
  BY <1>1 DEF Placed
<1>3. ASSUME NEW c \in U PROVE ToPtr(c) # ToPtr(b) /\ lv1[ToPtr(c)] = lv[ToPtr(c)]
  <2>1. b \in Nat /\ c \in Nat /\ b # c BY <1>1, UsedIs
  <2>2. ToPtr(c) # ToPtr(b) BY <2>1 DEF ToPtr
  <2> QED BY <1>1, <1>2, <2>2
<1>4. Holding(n, a).asked = n /\ Holding(n, a).align = a BY DEF Holding
<1>5. lv1 = [p \in DOMAIN lv1 |-> Holding(lv1[p].asked, lv1[p].align)]
  <2>1. ASSUME NEW p \in DOMAIN lv1 PROVE lv1[p] = Holding(lv1[p].asked, lv1[p].align)
    <3>1. CASE p = ToPtr(b) BY <1>2, <1>4, <3>1
    <3>2. CASE p # ToPtr(b)
      <4>1. p \in DOMAIN lv BY <1>1, <1>2, <3>2 DEF Held
      <4> QED BY <1>2, <3>2, <4>1 DEF Held
    <3> QED BY <3>1, <3>2
  <2>2. lv1 = [p \in DOMAIN lv1 |-> lv1[p]] BY DEF Placed
  <2> QED BY <2>1, <2>2
<1>6. ASSUME NEW c \in Used(g)
      PROVE  ToPtr(c) % lv1[ToPtr(c)].align = 0 /\ g.size[c] >= lv1[ToPtr(c)].asked
  <2>1. CASE c = b BY <1>1, <1>2, <1>4, <2>1
  <2>2. CASE c \in U BY <1>1, <1>3, <2>2 DEF Held
  <2> QED BY <1>1, <2>1, <2>2
<1> QED BY <1>2, <1>5, <1>6 DEF Held

\* The same for a heap whose blocks in use are some of the ones before.
LEMMA KeptHeld ==
  ASSUME NEW h, NEW ps, Whole(h, ps), NEW lv, Held(h, lv),
         NEW g, Used(g) \subseteq Used(h), Kept(g, h),
         NEW lv1, lv1 = [p \in {ToPtr(b) : b \in Used(g)} |-> lv[p]]
  PROVE  Held(g, lv1)
<1>1. DOMAIN lv1 = {ToPtr(b) : b \in Used(g)} /\ \A p \in DOMAIN lv1 : lv1[p] = lv[p] OBVIOUS
<1>2. \A p \in DOMAIN lv1 : p \in DOMAIN lv BY <1>1 DEF Held
<1>3. lv1 = [p \in DOMAIN lv1 |-> Holding(lv1[p].asked, lv1[p].align)]
  <2>1. \A p \in DOMAIN lv1 : lv1[p] = Holding(lv1[p].asked, lv1[p].align)
    BY <1>1, <1>2 DEF Held
  <2>2. lv1 = [p \in DOMAIN lv1 |-> lv1[p]] OBVIOUS
  <2> QED BY <2>1, <2>2
<1>4. ASSUME NEW b \in Used(g)
      PROVE  ToPtr(b) % lv1[ToPtr(b)].align = 0 /\ g.size[b] >= lv1[ToPtr(b)].asked
  <2>1. b \in Used(h) /\ g.size[b] = h.size[b] /\ lv1[ToPtr(b)] = lv[ToPtr(b)]
    BY <1>1 DEF Kept
  <2> QED BY <2>1 DEF Held
<1> QED BY <1>1, <1>3, <1>4 DEF Held

----------------------------------------------------------------------------
(* What the calls do.                                                      *)

Stays == UNCHANGED <<heap, pools, live>>

Takes ==
  /\ \E b : \E n \in Requests, a \in Aligns \cup {AlignSize} :
       Placed(heap', heap, pools, live, live', Used(heap), b, n, a)
  /\ UNCHANGED pools

Gives ==
  /\ \E b \in Used(heap) :
       /\ Whole(heap', pools) /\ Used(heap') = Used(heap) \ {b} /\ Kept(heap', heap)
       /\ live' = [p \in DOMAIN live \ {ToPtr(b)} |-> live[p]]
  /\ UNCHANGED pools

Resizes ==
  /\ \E c \in Used(heap) : \E b, a : \E n \in ReallocRequests :
       /\ Placed(heap', heap, pools, live, live', Used(heap) \ {c}, b, n, a)
       /\ b = c => a = live[ToPtr(c)].align
  /\ UNCHANGED pools

SameUse == Whole(heap', pools') /\ Used(heap') = Used(heap) /\ Kept(heap', heap) /\ live' = live

Adds == SameUse /\ \E q \in Pools : q \notin pools /\ pools' = pools \cup {q}

Drops ==
  /\ SameUse
  /\ \E q \in pools : pools' = pools \ {q} /\ \A p \in DOMAIN live : ~InPool(p, q)

\* A call that gets its memory from tlsf_malloc().
LEMMA MallocPlaced ==
  ASSUME HeapInv, NEW n \in Nat, CanMalloc(n), heap' = TlsfMalloc(heap, n),
         Hold(NewPtr(n), n, AlignSize)
  PROVE  \E b : Placed(heap', heap, pools, live, live', Used(heap), b, n, AlignSize)
<1>1. Whole(heap, pools) /\ Held(heap, live) BY DEF HeapInv
<1>2. PICK b : b = Located(heap, AdjustRequestSize(n, AlignSize)) OBVIOUS
<1>3. b \in heap.free /\ HandsOut(heap', heap, pools, b, n)
  BY <1>1, <1>2, TlsfMallocIs DEF CanMalloc
<1>4. /\ Whole(heap', pools) /\ Used(heap') = Used(heap) \cup {b} /\ b \notin Used(heap)
      /\ Kept(heap', heap) /\ heap'.size[b] >= n
  BY <1>3 DEF HandsOut
<1>5. \A c \in Used(heap) : heap'.size[c] = heap.size[c] BY <1>4 DEF Kept
<1>6. ToPtr(b) % AlignSize = 0
  <2>1. b \in Used(heap') BY <1>4
  <2> QED BY <1>4, <2>1, UsedIs, ConstantsIs
<1>7. DOMAIN live = {ToPtr(c) : c \in Used(heap)} BY <1>1 DEF Held
<1>8. live' = [p \in {ToPtr(c) : c \in Used(heap)} \cup {ToPtr(b)} |->
                 IF p = ToPtr(b) THEN Holding(n, AlignSize) ELSE live[p]]
  BY <1>2, <1>7 DEF Hold, NewPtr, Holding
<1> QED BY <1>4, <1>5, <1>6, <1>8 DEF Placed

\* kmalloc() and kcalloc().
LEMMA KmallocIs ==
  ASSUME HeapInv, NEW n \in Requests, Kmalloc(n) \/ Kcalloc(n)
  PROVE  (Takes \/ Stays) /\ faulted' \in BOOLEAN
<1>1. n \in Nat /\ AlignSize \in Aligns \cup {AlignSize} BY HeapAssumption
<1>2. faulted' \in BOOLEAN BY DEF Kmalloc, Kcalloc, HeapInv
<1>3. UNCHANGED pools BY DEF Kmalloc, Kcalloc
<1>4. CASE CanMalloc(n)
  <2>1. heap' = TlsfMalloc(heap, n) /\ Hold(NewPtr(n), n, AlignSize)
    BY <1>4 DEF Kmalloc, Kcalloc
  <2>2. PICK b : Placed(heap', heap, pools, live, live', Used(heap), b, n, AlignSize)
    BY <1>1, <1>4, <2>1, MallocPlaced
  <2>3. Takes BY <1>1, <1>3, <2>2 DEF Takes
  <2> QED BY <1>2, <2>3
<1>5. CASE ~CanMalloc(n)
  <2>1. Stays BY <1>3, <1>5 DEF Kmalloc, Kcalloc, Stays
  <2> QED BY <1>2, <2>1
<1> QED BY <1>4, <1>5

\* tlsf_memalign().
LEMMA MemalignIs ==
  ASSUME HeapInv, NEW n \in Requests, NEW a \in Aligns, Memalign(n, a)
  PROVE  (Takes \/ Stays) /\ faulted' \in BOOLEAN
<1>1. Whole(heap, pools) /\ Held(heap, live) /\ n \in Nat BY HeapAssumption DEF HeapInv
<1>2. faulted' \in BOOLEAN /\ UNCHANGED pools BY DEF Memalign, HeapInv
<1>3. CASE LocateClass(heap, AlignedSize(n, a)) # NoClass
  <2>1. PICK c : c = Located(heap, AlignedSize(n, a)) OBVIOUS
  <2>2. PICK e : e = Gap(c, a) OBVIOUS
  <2>3. heap' = TlsfMemalign(heap, n, a) /\ Hold(ToPtr(c) + e, n, a)
    BY <1>3, <2>1, <2>2 DEF Memalign
  <2>4. /\ c \in heap.free /\ (ToPtr(c) + e) % a = 0 /\ e \in Nat
        /\ HandsOut(heap', heap, pools, c + e, n)
    BY <1>1, <1>3, <2>1, <2>2, <2>3, TlsfMemalignIs
  <2>5. PICK b : b = c + e OBVIOUS
  <2>6. ToPtr(c) + e = ToPtr(b)
    <3>1. c \in Nat BY <1>1, <2>4, FreeIs DEF Whole
    <3> QED BY <2>4, <2>5, <3>1 DEF ToPtr
  <2>7. /\ Whole(heap', pools) /\ Used(heap') = Used(heap) \cup {b} /\ b \notin Used(heap)
        /\ Kept(heap', heap) /\ heap'.size[b] >= n
    BY <2>4, <2>5 DEF HandsOut
  <2>8. \A d \in Used(heap) : heap'.size[d] = heap.size[d] BY <2>7 DEF Kept
  <2>9. DOMAIN live = {ToPtr(d) : d \in Used(heap)} BY <1>1 DEF Held
  <2>10. live' = [p \in {ToPtr(d) : d \in Used(heap)} \cup {ToPtr(b)} |->
                    IF p = ToPtr(b) THEN Holding(n, a) ELSE live[p]]
    BY <2>3, <2>6, <2>9 DEF Hold, Holding
  <2>11. ToPtr(b) % a = 0 BY <2>4, <2>6
  <2>12. Placed(heap', heap, pools, live, live', Used(heap), b, n, a)
    BY <2>7, <2>8, <2>10, <2>11 DEF Placed
  <2>13. Takes BY <1>2, <2>12 DEF Takes
  <2> QED BY <1>2, <2>13
<1>4. CASE LocateClass(heap, AlignedSize(n, a)) = NoClass
  <2>1. Stays BY <1>2, <1>4 DEF Memalign, Stays
  <2> QED BY <1>2, <2>1
<1> QED BY <1>3, <1>4

\* kfree().
LEMMA KfreeIs ==
  ASSUME HeapInv, NEW p \in DOMAIN live, Kfree(p)
  PROVE  Gives /\ faulted' \in BOOLEAN
<1>1. Whole(heap, pools) /\ Held(heap, live) BY DEF HeapInv
<1>2. PICK b \in Used(heap) : p = ToPtr(b) BY <1>1, HeldIs
<1>3. /\ heap' = TlsfFree(heap, ToPtr(b)) /\ UNCHANGED pools /\ faulted' \in BOOLEAN
      /\ live' = [x \in DOMAIN live \ {ToPtr(b)} |-> live[x]]
  BY <1>2 DEF Kfree, Drop, HeapInv
<1>4. Whole(heap', pools) /\ Used(heap') = Used(heap) \ {b} /\ Kept(heap', heap)
  BY <1>1, <1>3, TlsfFreeIs
<1> QED BY <1>3, <1>4 DEF Gives

\* krealloc() that moves.
LEMMA KreallocMoveIs ==
  ASSUME HeapInv, NEW p \in DOMAIN live, NEW n \in ReallocRequests, KreallocMove(p, n)
  PROVE  (Resizes \/ Stays) /\ faulted' \in BOOLEAN
<1>1. Whole(heap, pools) /\ Held(heap, live) /\ n \in Nat BY HeapAssumption DEF HeapInv
<1>2. faulted' \in BOOLEAN /\ UNCHANGED pools BY DEF KreallocMove, HeapInv
<1>3. PICK c \in Used(heap) : p = ToPtr(c) BY <1>1, HeldIs
<1>4. CASE CanMalloc(n)
  <2>1. PICK b : b = Located(heap, AdjustRequestSize(n, AlignSize)) OBVIOUS
  <2>2. PICK k : k = TlsfMalloc(heap, n) OBVIOUS
  <2>3. b \in heap.free /\ HandsOut(k, heap, pools, b, n)
    BY <1>1, <1>4, <2>1, <2>2, TlsfMallocIs DEF CanMalloc
  <2>4. /\ Whole(k, pools) /\ Used(k) = Used(heap) \cup {b} /\ b \notin Used(heap)
        /\ Kept(k, heap) /\ k.size[b] >= n
    BY <2>3 DEF HandsOut
  <2>5. heap' = TlsfFree(k, ToPtr(c)) /\ NewPtr(n) = ToPtr(b)
    BY <1>3, <1>4, <2>1, <2>2 DEF KreallocMove, NewPtr
  <2>6. Whole(heap', pools) /\ Used(heap') = Used(k) \ {c} /\ Kept(heap', k)
    BY <2>4, <2>5, TlsfFreeIs
  <2>7. b # c BY <2>4
  <2>8. Used(heap') = (Used(heap) \ {c}) \cup {b} /\ b \notin Used(heap) \ {c}
    BY <2>4, <2>6, <2>7
  <2>9. \A d \in Used(heap) \ {c} : heap'.size[d] = heap.size[d]
    BY <2>4, <2>6 DEF Kept
  <2>10. heap'.size[b] >= n BY <2>4, <2>6, <2>7 DEF Kept
  <2>11. ToPtr(b) % AlignSize = 0
    <3>1. b \in Used(heap') BY <2>8
    <3> QED BY <2>6, <3>1, UsedIs, ConstantsIs
  <2>12. DOMAIN live \ {p} = {ToPtr(d) : d \in Used(heap) \ {c}}
    <3>1. DOMAIN live = {ToPtr(d) : d \in Used(heap)} BY <1>1 DEF Held
    <3>2. \A d \in Used(heap) : ToPtr(d) = p => d = c
      <4>1. \A d \in Used(heap) : FromPtr(ToPtr(d)) = d BY <1>1, UsedIs
      <4> QED BY <1>3, <4>1
    <3> QED BY <1>3, <3>1, <3>2
  <2>13. live' = [x \in {ToPtr(d) : d \in Used(heap) \ {c}} \cup {ToPtr(b)} |->
                    IF x = ToPtr(b) THEN Holding(n, AlignSize) ELSE live[x]]
    BY <1>4, <2>5, <2>12 DEF KreallocMove, Holding
  <2>14. Placed(heap', heap, pools, live, live', Used(heap) \ {c}, b, n, AlignSize)
    BY <2>6, <2>8, <2>9, <2>10, <2>11, <2>13 DEF Placed
  <2>15. Resizes BY <1>2, <2>7, <2>14 DEF Resizes
  <2> QED BY <1>2, <2>15
<1>5. CASE ~CanMalloc(n)
  <2>1. Stays BY <1>2, <1>5 DEF KreallocMove, Stays
  <2> QED BY <1>2, <2>1
<1> QED BY <1>4, <1>5

\* krealloc() in place.
LEMMA KreallocHereIs ==
  ASSUME HeapInv, ReallocFits, NEW p \in DOMAIN live, NEW n \in ReallocRequests,
         KreallocHere(p, n)
  PROVE  Resizes /\ faulted' \in BOOLEAN
<1>1. Whole(heap, pools) /\ Held(heap, live) /\ n \in Nat BY HeapAssumption DEF HeapInv
<1>2. faulted' \in BOOLEAN /\ UNCHANGED pools BY DEF KreallocHere, HeapInv
<1>3. PICK c \in Used(heap) : p = ToPtr(c) BY <1>1, HeldIs
<1>4. PICK j : j = AdjustRequestSize(n, AlignSize) OBVIOUS
<1>5. j # 0 BY <1>4 DEF ReallocFits
<1>6. j \in Nat /\ j >= 24 /\ j % 8 = 0 /\ j >= n BY <1>1, <1>4, <1>5, AdjustIs
<1>7. /\ ~MustMove(heap, ToPtr(c), j) /\ heap' = TlsfReallocHere(heap, ToPtr(c), j)
      /\ Hold(p, n, live[p].align)
  BY <1>3, <1>4, <1>5 DEF KreallocHere
<1>8. /\ Whole(heap', pools) /\ Used(heap') = Used(heap) /\ heap'.size[c] >= j
      /\ \A d \in Used(heap) : d # c => heap'.size[d] = heap.size[d]
  BY <1>1, <1>6, <1>7, ReallocHereIs
<1>9. heap'.size[c] >= n
  <2>1. heap'.size[c] \in Nat BY <1>8, UsedIs
  <2> QED BY <1>1, <1>6, <1>8, <2>1
<1>10. Used(heap') = (Used(heap) \ {c}) \cup {c} BY <1>8
<1>11. {ToPtr(d) : d \in Used(heap) \ {c}} \cup {ToPtr(c)} = DOMAIN live \cup {p}
  <2>1. DOMAIN live = {ToPtr(d) : d \in Used(heap)} BY <1>1 DEF Held
  <2> QED BY <1>3, <2>1
<1>12. live' = [x \in {ToPtr(d) : d \in Used(heap) \ {c}} \cup {ToPtr(c)} |->
                  IF x = ToPtr(c) THEN Holding(n, live[p].align) ELSE live[x]]
  BY <1>3, <1>7, <1>11 DEF Hold, Holding
<1>13. ToPtr(c) % live[p].align = 0 BY <1>1, <1>3 DEF Held
<1>14. Placed(heap', heap, pools, live, live', Used(heap) \ {c}, c, n, live[p].align)
  BY <1>8, <1>9, <1>10, <1>12, <1>13 DEF Placed
<1>15. Resizes BY <1>2, <1>3, <1>14 DEF Resizes
<1> QED BY <1>2, <1>15

\* What a caller holds lies in one pool, and in no other one's memory.
LEMMA HeldIn ==
  ASSUME NEW h, NEW ps, Whole(h, ps), NEW b \in Used(h)
  PROVE  \E q \in ps :
           /\ PoolFirst(q) <= b /\ b < PoolEnd(q) /\ InPool(ToPtr(b), q)
           /\ q.mem <= ToPtr(b) /\ ToPtr(b) + h.size[b] - 1 <= q.mem + q.bytes - 1
           /\ \A r \in ps : PoolFirst(r) <= b /\ b < PoolEnd(r) => r = q
           /\ \A r \in Pools : r.mem <= ToPtr(b) /\ ToPtr(b) <= r.mem + r.bytes - 1 => r = q
<1>1. /\ b \in DOMAIN h.size /\ h.size[b] # 0 /\ b \in Nat /\ h.size[b] \in Nat
      /\ h.size[b] >= 24 /\ ToPtr(b) = b + 16
  BY UsedIs
<1>t. Tiled(h.size, ps) BY DEF Whole, Good
<1>2. PICK q \in ps : /\ PoolFirst(q) <= b /\ b < PoolEnd(q) /\ After(h.size, b) <= PoolEnd(q)
                      /\ \A r \in ps : PoolFirst(r) <= b /\ b <= PoolEnd(r) => r = q
  BY <1>1, <1>t, PoolOf
<1>3. q \in Pools /\ PoolFits(q) BY <1>t DEF Tiled, GoodPools
<1>4. /\ PoolFirst(q) \in Nat /\ PoolFirst(q) = q.mem - 8 /\ PoolEnd(q) \in Nat
      /\ PoolEnd(q) + 16 <= q.mem + q.bytes /\ q.mem \in Nat /\ q.bytes \in Nat
  BY <1>3, PoolIs
<1>5. b + h.size[b] + 8 <= PoolEnd(q) BY <1>2 DEF After
<1>6. InPool(ToPtr(b), q) BY <1>1, <1>2, <1>4, <1>5 DEF InPool
<1>7. q.mem <= ToPtr(b) /\ ToPtr(b) + h.size[b] - 1 <= q.mem + q.bytes - 1
  BY <1>1, <1>2, <1>4, <1>5
<1>8. ASSUME NEW r \in ps, PoolFirst(r) <= b, b < PoolEnd(r) PROVE r = q
  <2>1. PoolEnd(r) \in Nat BY <1>t, PoolIs DEF Tiled, GoodPools
  <2> QED BY <1>1, <1>2, <1>8, <2>1
<1>9. ASSUME NEW r \in Pools, r.mem <= ToPtr(b), ToPtr(b) <= r.mem + r.bytes - 1, r # q
      PROVE  FALSE
  <2>1. r.mem + r.bytes <= q.mem \/ q.mem + q.bytes <= r.mem BY <1>3, <1>9, HeapAssumption
  <2>2. r.mem \in Nat /\ r.bytes \in Nat BY HeapAssumption
  <2> QED BY <1>1, <1>4, <1>7, <1>9, <2>1, <2>2
<1> QED BY <1>2, <1>6, <1>7, <1>8, <1>9

\* tlsf_add_pool().
LEMMA AddPoolStep ==
  ASSUME HeapInv, NEW q \in MorePools, AddPool(q)
  PROVE  (Adds \/ Stays) /\ faulted' \in BOOLEAN
<1>1. Whole(heap, pools) /\ q \in Pools /\ q \notin pools BY DEF HeapInv, Pools, AddPool
<1>2. faulted' \in BOOLEAN /\ live' = live BY DEF AddPool, HeapInv
<1>3. CASE PoolFits(q)
  <2>1. heap' = TlsfAddPool(heap, q) /\ pools' = pools \cup {q} BY <1>3 DEF AddPool
  <2>2. Whole(heap', pools') /\ Used(heap') = Used(heap) /\ Kept(heap', heap)
    BY <1>1, <1>3, <2>1, AddPoolIs
  <2>3. Adds BY <1>1, <1>2, <2>1, <2>2 DEF Adds, SameUse
  <2> QED BY <1>2, <2>3
<1>4. CASE ~PoolFits(q)
  <2>1. Stays BY <1>2, <1>4 DEF AddPool, Stays
  <2> QED BY <1>2, <2>1
<1> QED BY <1>3, <1>4

\* tlsf_remove_pool().
LEMMA RemovePoolStep ==
  ASSUME HeapInv, NEW q \in MorePools, RemovePool(q)
  PROVE  Drops /\ faulted' \in BOOLEAN
<1>1. Whole(heap, pools) /\ Held(heap, live) BY DEF HeapInv
<1>2. /\ q \in pools /\ (\A p \in DOMAIN live : ~InPool(p, q)) /\ live' = live
      /\ heap' = TlsfRemovePool(heap, q) /\ pools' = pools \ {q} /\ faulted' \in BOOLEAN
  BY DEF RemovePool, HeapInv
<1>3. ASSUME NEW c \in Used(heap), PoolFirst(q) <= c /\ c < PoolEnd(q) PROVE FALSE
  <2>1. PICK r \in pools : InPool(ToPtr(c), r) /\ (PoolFirst(q) <= c /\ c < PoolEnd(q) => q = r)
    BY <1>1, <1>2, HeldIn
  <2>2. ToPtr(c) \in DOMAIN live BY <1>1 DEF Held
  <2> QED BY <1>2, <1>3, <2>1, <2>2
<1>4. Whole(heap', pools') /\ Used(heap') = Used(heap) /\ Kept(heap', heap)
  BY <1>1, <1>2, <1>3, RemovePoolIs
<1> QED BY <1>2, <1>4 DEF Drops, SameUse

\* Every step is one of these.
LEMMA StepIs ==
  ASSUME HeapInv, ReallocFits, [Next]_vars
  PROVE  /\ Stays \/ Takes \/ Gives \/ Resizes \/ Adds \/ Drops
         /\ faulted' \in BOOLEAN
<1>1. CASE \E n \in Requests : Kmalloc(n) \/ Kcalloc(n) BY <1>1, KmallocIs
<1>2. CASE \E n \in Requests, a \in Aligns : Memalign(n, a) BY <1>2, MemalignIs
<1>3. CASE \E p \in DOMAIN live : Kfree(p) BY <1>3, KfreeIs
<1>4. CASE \E p \in DOMAIN live, n \in ReallocRequests : KreallocMove(p, n)
  BY <1>4, KreallocMoveIs
<1>5. CASE \E p \in DOMAIN live, n \in ReallocRequests : KreallocHere(p, n)
  BY <1>5, KreallocHereIs
<1>6. CASE \E q \in MorePools : AddPool(q) BY <1>6, AddPoolStep
<1>7. CASE \E q \in MorePools : RemovePool(q) BY <1>7, RemovePoolStep
<1>8. CASE UNCHANGED vars BY <1>8 DEF vars, Stays, HeapInv
<1> QED BY <1>1, <1>2, <1>3, <1>4, <1>5, <1>6, <1>7, <1>8 DEF Next

----------------------------------------------------------------------------
(* The invariant holds.                                                    *)

\* heap_init() establishes it.
LEMMA InvInit == ASSUME Init PROVE HeapInv
<1>1. FirstPool \in Pools /\ PoolFits(FirstPool) BY FirstPoolAssumption DEF Pools
<1>2. PICK h : h = ControlConstruct OBVIOUS
<1>3. Whole(h, {}) /\ Used(h) = {} BY <1>2, ControlIs
<1>4. heap = TlsfAddPool(h, FirstPool) /\ pools = {} \cup {FirstPool} BY <1>2 DEF Init
<1>5. Whole(heap, pools) /\ Used(heap) = {} BY <1>1, <1>3, <1>4, AddPoolIs
<1>6. live = << >> /\ faulted \in BOOLEAN BY DEF Init
<1>7. DOMAIN live = {} /\ live = [p \in DOMAIN live |-> Holding(live[p].asked, live[p].align)]
  BY <1>6
<1> QED BY <1>5, <1>6, <1>7 DEF HeapInv, Held

\* Every step keeps it.
LEMMA InvStep == ASSUME HeapInv, ReallocFits, [Next]_vars PROVE HeapInv'
<1>1. Whole(heap, pools) /\ Held(heap, live) BY DEF HeapInv
<1>2. faulted' \in BOOLEAN BY StepIs
<1>3. CASE Stays
  <2>1. Whole(heap', pools') /\ Held(heap', live') BY <1>1, <1>3 DEF Stays
  <2> QED BY <1>2, <2>1 DEF HeapInv
<1>4. CASE Takes
  <2>p. pools' = pools BY <1>4 DEF Takes
  <2>b. PICK b : \E n \in Requests, a \in Aligns \cup {AlignSize} :
          Placed(heap', heap, pools, live, live', Used(heap), b, n, a)
    BY <1>4 DEF Takes
  <2>1. PICK n \in Requests, a \in Aligns \cup {AlignSize} :
          Placed(heap', heap, pools, live, live', Used(heap), b, n, a)
    BY <2>b
  <2>2. Held(heap', live') BY <1>1, <2>1, PlacedHeld
  <2>3. Whole(heap', pools') BY <2>1, <2>p DEF Placed
  <2> QED BY <1>2, <2>2, <2>3 DEF HeapInv
<1>5. CASE Gives
  <2>1. PICK b \in Used(heap) :
          /\ Whole(heap', pools) /\ Used(heap') = Used(heap) \ {b} /\ Kept(heap', heap)
          /\ live' = [p \in DOMAIN live \ {ToPtr(b)} |-> live[p]] /\ pools' = pools
    BY <1>5 DEF Gives
  <2>2. DOMAIN live \ {ToPtr(b)} = {ToPtr(c) : c \in Used(heap')}
    <3>1. \A c \in Used(heap) : FromPtr(ToPtr(c)) = c BY <1>1, UsedIs
    <3>2. \A c \in Used(heap) : ToPtr(c) = ToPtr(b) <=> c = b BY <3>1
    <3>3. DOMAIN live = {ToPtr(c) : c \in Used(heap)} BY <1>1 DEF Held
    <3> QED BY <2>1, <3>2, <3>3
  <2>3. live' = [p \in {ToPtr(c) : c \in Used(heap')} |-> live[p]] BY <2>1, <2>2
  <2>4. Held(heap', live') BY <1>1, <2>1, <2>3, KeptHeld
  <2> QED BY <1>2, <2>1, <2>4 DEF HeapInv
<1>6. CASE Resizes
  <2>p. pools' = pools BY <1>6 DEF Resizes
  <2>c. PICK c \in Used(heap) : \E b, a : \E n \in ReallocRequests :
          Placed(heap', heap, pools, live, live', Used(heap) \ {c}, b, n, a)
    BY <1>6 DEF Resizes
  <2>b. PICK b, a : \E n \in ReallocRequests :
          Placed(heap', heap, pools, live, live', Used(heap) \ {c}, b, n, a)
    BY <2>c
  <2>1. PICK n \in ReallocRequests :
          Placed(heap', heap, pools, live, live', Used(heap) \ {c}, b, n, a)
    BY <2>b
  <2>2. Held(heap', live') BY <1>1, <2>1, PlacedHeld
  <2>3. Whole(heap', pools') BY <2>1, <2>p DEF Placed
  <2> QED BY <1>2, <2>2, <2>3 DEF HeapInv
<1>7. CASE Adds \/ Drops
  <2>1. /\ Whole(heap', pools') /\ Used(heap') = Used(heap) /\ Kept(heap', heap)
        /\ live' = live
    BY <1>7 DEF Adds, Drops, SameUse
  <2>2. live' = [p \in {ToPtr(c) : c \in Used(heap')} |-> live[p]]
    <3>1. DOMAIN live = {ToPtr(c) : c \in Used(heap)} BY <1>1 DEF Held
    <3>2. live = [p \in DOMAIN live |-> Holding(live[p].asked, live[p].align)] BY <1>1 DEF Held
    <3>3. live = [p \in DOMAIN live |-> live[p]] BY <3>2
    <3> QED BY <2>1, <3>1, <3>3
  <2>3. Held(heap', live') BY <1>1, <2>1, <2>2, KeptHeld
  <2> QED BY <1>2, <2>1, <2>3 DEF HeapInv
<1> QED BY <1>3, <1>4, <1>5, <1>6, <1>7, StepIs

----------------------------------------------------------------------------
(* What follows from it.                                                   *)

\* Every component has its type.
LEMMA InvType == ASSUME HeapInv PROVE TypeOK
<1>t. /\ IsHeap(heap) /\ Tiled(heap.size, pools)
      /\ Tagged(heap.size, heap.free, heap.prevfree, heap.prev)
      /\ Listed(heap, heap.free) /\ Held(heap, live) /\ Whole(heap, pools)
  BY DEF HeapInv, Whole, Good
<1>1. DOMAIN heap = {"size", "prev", "free", "prevfree", "blocks", "fl", "sl", "ok"}
  <2>1. PICK s, p, f, pf, bl, fl, sl :
          heap = [size |-> s, prev |-> p, free |-> f, prevfree |-> pf,
                  blocks |-> bl, fl |-> fl, sl |-> sl, ok |-> TRUE]
    BY <1>t DEF IsHeap
  <2> QED BY <2>1
<1>2. \A b \in DOMAIN heap.size : b \in Nat /\ heap.size[b] \in Nat BY <1>t DEF Tiled, Shaped
<1>3. heap.free \subseteq DOMAIN heap.size BY <1>t DEF Tagged
<1>4. heap.prevfree \subseteq DOMAIN heap.size
  <2>1. \A b \in heap.free : After(heap.size, b) \in DOMAIN heap.size BY <1>t, FreeIs DEF Whole
  <2> QED BY <1>t, <2>1 DEF Tagged
<1>5. ASSUME NEW c \in Classes PROVE heap.blocks[c] \in Seq(DOMAIN heap.size)
  <2>1. heap.blocks[c] \in Seq(heap.free) BY <1>t DEF Listed
  <2> QED BY <1>3, <2>1
<1>6. /\ heap.fl \subseteq 0 .. FlCount - 1
      /\ \A f \in 0 .. FlCount - 1 : heap.sl[f] \subseteq 0 .. SlCount - 1
  BY <1>t DEF Listed, Rows, Cols
<1>7. pools \subseteq Pools BY <1>t DEF Tiled, GoodPools
<1>8. \A p \in DOMAIN live : FromPtr(p) \in DOMAIN heap.size BY <1>t, HeldIs DEF Used
<1>9. faulted \in BOOLEAN BY DEF HeapInv
<1> QED BY <1>1, <1>2, <1>3, <1>4, <1>5, <1>6, <1>7, <1>8, <1>9 DEF TypeOK

\* The lists pass tlsf_check().
LEMMA InvLists == ASSUME HeapInv PROVE TlsfCheck(heap)
<1>w. Whole(heap, pools) BY DEF HeapInv
<1>t. /\ Good(heap, pools, heap.free) /\ Tiled(heap.size, pools)
      /\ Tagged(heap.size, heap.free, heap.prevfree, heap.prev)
      /\ Listed(heap, heap.free) /\ Coalesced(heap)
  BY <1>w DEF Whole, Good
<1>n. \A b : BlockNext(heap, b) = After(heap.size, b) BY NextIs
<1>1. ASSUME NEW f \in Rows, NEW s \in Cols
      PROVE  /\ s \in heap.sl[f] => f \in heap.fl
             /\ s \in heap.sl[f] <=> heap.blocks[<<f, s>>] # << >>
  BY <1>t DEF Listed, Mapped
<1>2. ASSUME NEW f \in Rows, NEW s \in Cols, NEW i \in 1 .. Len(heap.blocks[<<f, s>>])
      PROVE  LET b == heap.blocks[<<f, s>>][i]
             IN  /\ b \in heap.free /\ b \notin heap.prevfree
                 /\ BlockNext(heap, b) \in heap.prevfree \ heap.free
                 /\ heap.size[b] >= BlockSizeMin
                 /\ MappingInsert(heap.size[b]) = <<f, s>>
                 /\ \A j \in 1 .. i - 1 : heap.blocks[<<f, s>>][j] # b
  <2>1. PICK c \in Classes : c = <<f, s>> BY DEF Classes, Rows, Cols
  <2>2. heap.blocks[c] \in Seq(heap.free) /\ NoneTwice(heap.blocks[c]) BY <1>t DEF Listed
  <2>3. PICK b \in heap.free : b = heap.blocks[c][i] BY <1>2, <2>1, <2>2
  <2>4. MappingInsert(heap.size[b]) = c
    <3>1. InList(b, heap.blocks[c]) BY <1>2, <2>1, <2>3 DEF InList
    <3> QED BY <1>t, <3>1 DEF Listed
  <2>5. heap.size[b] >= BlockSizeMin BY <1>t, FreeIs DEF BlockSizeMin
  <2>6. BlockNext(heap, b) \in heap.prevfree \ heap.free
    BY <1>n, <1>t DEF Tagged, Coalesced
  <2>7. b \notin heap.prevfree BY <1>t DEF Tagged, Coalesced
  <2>8. ASSUME NEW j \in 1 .. i - 1, heap.blocks[c][j] = b PROVE FALSE
    <3>1. Len(heap.blocks[c]) \in Nat BY <2>2
    <3>2. i \in 1 .. Len(heap.blocks[c]) BY <2>1
    <3>3. j \in 1 .. Len(heap.blocks[c]) /\ j # i BY <2>8, <3>1, <3>2
    <3> QED BY <2>2, <2>3, <2>8, <3>2, <3>3 DEF NoneTwice
  <2> QED BY <2>1, <2>3, <2>4, <2>5, <2>6, <2>7, <2>8
<1>3. ASSUME NEW b \in heap.free
      PROVE  LET list == heap.blocks[MappingInsert(heap.size[b])]
             IN  \E i \in DOMAIN list : list[i] = b
  <2>1. PICK c \in Classes : c = MappingInsert(heap.size[b]) BY <1>t DEF Listed
  <2>2. InList(b, heap.blocks[c]) /\ heap.blocks[c] \in Seq(heap.free) BY <1>t, <2>1 DEF Listed
  <2> QED BY <2>1, <2>2 DEF InList
<1> QED BY <1>1, <1>2, <1>3 DEF TlsfCheck, Rows, Cols

\* Every pool passes tlsf_check_pool().
LEMMA InvPools == ASSUME HeapInv, NEW q \in pools PROVE TlsfCheckPool(heap, q)
<1>w. Whole(heap, pools) BY DEF HeapInv
<1>t. /\ Good(heap, pools, heap.free) /\ Tiled(heap.size, pools) /\ Shaped(heap.size)
      /\ Disjoint(heap.size) /\ Pooled(heap.size, pools)
      /\ Tagged(heap.size, heap.free, heap.prevfree, heap.prev)
  BY <1>w DEF Whole, Good, Tiled
<1>n. \A b : BlockNext(heap, b) = After(heap.size, b) BY NextIs
<1>1. PICK w : w = {b \in DOMAIN heap.size : InPool(b, q)} OBVIOUS
<1>2. /\ PoolFirst(q) \in Nat /\ PoolEnd(q) \in Nat /\ PoolFirst(q) <= PoolEnd(q)
  BY <1>t, PoolIs DEF Tiled, GoodPools
<1>3. {PoolFirst(q), PoolEnd(q)} \subseteq w /\ heap.size[PoolEnd(q)] = 0
  BY <1>1, <1>2, <1>t DEF Pooled, InPool
<1>4. PoolFirst(q) \notin heap.prevfree
  <2>1. SUFFICES ASSUME NEW b \in heap.free, PoolFirst(q) = After(heap.size, b) PROVE FALSE
    BY <1>t DEF Tagged
  <2>2. b \in DOMAIN heap.size /\ heap.size[b] # 0 BY <1>t DEF Tagged
  <2> QED BY <1>t, <2>1, <2>2, InsidePool
<1>5. ASSUME NEW b \in w \ {PoolEnd(q)}
      PROVE  /\ BlockNext(heap, b) \in w
             /\ BlockNext(heap, b) \in heap.prevfree <=> b \in heap.free
  <2>1. b \in DOMAIN heap.size /\ PoolFirst(q) <= b /\ b <= PoolEnd(q) /\ b # PoolEnd(q)
    BY <1>1 DEF InPool
  <2>2. heap.size[b] # 0 /\ After(heap.size, b) <= PoolEnd(q)
    <3>1. PICK r \in pools : /\ heap.size[b] = 0 => b = PoolEnd(r)
                             /\ heap.size[b] # 0 => After(heap.size, b) <= PoolEnd(r)
                             /\ \A x \in pools :
                                  PoolFirst(x) <= b /\ b <= PoolEnd(x) => x = r
      BY <1>t, <2>1, PoolOf
    <3> QED BY <2>1, <3>1
  <2>3. /\ After(heap.size, b) \in DOMAIN heap.size /\ After(heap.size, b) > b
        /\ After(heap.size, b) \in Nat /\ b \in Nat
    BY <1>t, <2>1, <2>2, BlockIs
  <2>4. After(heap.size, b) \in w BY <1>1, <1>2, <2>1, <2>2, <2>3 DEF InPool
  <2>5. ASSUME NEW c \in heap.free, After(heap.size, b) = After(heap.size, c) PROVE b = c
    <3>1. c \in DOMAIN heap.size BY <1>t DEF Tagged
    <3> QED BY <1>t, <2>1, <2>5, <3>1, AfterUnique
  <2>6. After(heap.size, b) \in heap.prevfree <=> b \in heap.free BY <1>t, <2>5 DEF Tagged
  <2> QED BY <1>n, <2>4, <2>6
<1> QED BY <1>1, <1>3, <1>4, <1>5 DEF TlsfCheckPool

\* The heap passes its checks.
LEMMA InvChecks == ASSUME HeapInv PROVE ChecksPass
<1>t. /\ IsHeap(heap) /\ Tagged(heap.size, heap.free, heap.prevfree, heap.prev)
  BY DEF HeapInv, Whole, Good
<1>1. heap.ok = TRUE
  <2>1. PICK s, p, f, pf, bl, fl, sl :
          heap = [size |-> s, prev |-> p, free |-> f, prevfree |-> pf,
                  blocks |-> bl, fl |-> fl, sl |-> sl, ok |-> TRUE]
    BY <1>t DEF IsHeap
  <2> QED BY <2>1
<1>2. PrevPhysExact BY <1>t, NextIs DEF Tagged, PrevPhysExact
<1> QED BY <1>1, <1>2, InvType, InvLists, InvPools DEF ChecksPass

\* Searches find what there is.
LEMMA InvFit == ASSUME HeapInv PROVE GoodFit
<1>t. Good(heap, pools, heap.free) /\ Listed(heap, heap.free) BY DEF HeapInv, Whole, Good
<1>f. \A b \in heap.free : /\ heap.size[b] \in Nat /\ heap.size[b] >= 1
                           /\ heap.size[b] < BlockSizeMax
  BY <1>t, FreeIs
<1>1. ASSUME NEW r \in Requests, NEW n, n = AdjustRequestSize(r, AlignSize), n # 0
      PROVE  IF LocateClass(heap, n) # NoClass
             THEN LET b == Head(heap.blocks[LocateClass(heap, n)])
                  IN  b \in heap.free /\ heap.size[b] >= n
             ELSE \A b \in heap.free : heap.size[b] < AlignUp(n, Unit(n))
  <2>1. r \in Nat BY HeapAssumption
  <2>2. n \in Nat /\ n >= 1 /\ n % 8 = 0 /\ n < BlockSizeMax BY <1>1, <2>1, AdjustIs
  <2>3. /\ LocateClass(heap, n) = NoClass =>
             \A b \in heap.free : heap.size[b] < AlignUp(n, Unit(n))
        /\ LocateClass(heap, n) # NoClass =>
             Located(heap, n) \in heap.free /\ heap.size[Located(heap, n)] >= n
    BY <1>t, <1>f, <2>2, LocateIs
  <2> QED BY <2>3 DEF Located
<1> QED BY <1>1 DEF GoodFit, Unit

\* A heap without a block in use is whole.
LEMMA InvWhole == ASSUME HeapInv PROVE AllFreedWhole
<1>1. Whole(heap, pools) /\ Held(heap, live) BY DEF HeapInv
<1>2. SUFFICES ASSUME live = << >>, NEW q \in pools
               PROVE  PoolFirst(q) \in heap.free /\ heap.size[PoolFirst(q)] = PoolBytes(q)
  BY DEF AllFreedWhole
<1>3. DOMAIN live = {} BY <1>2
<1>4. Used(heap) = {} BY <1>1, <1>3 DEF Held
<1> QED BY <1>1, <1>4, WholeFree

----------------------------------------------------------------------------
(* The theorems.                                                           *)

\* Between two calls the heap is sound, merged, and held as its callers think.
THEOREM InvCorrect ==
  ASSUME ReallocFits
  PROVE  Spec => []HeapInv
<1>1. Init => HeapInv BY InvInit
<1>2. HeapInv /\ [Next]_vars => HeapInv' BY InvStep
<1> QED BY <1>1, <1>2, PTL DEF Spec

\* No tlsf_assert() fails and tlsf_check() and tlsf_check_pool() pass after
\* every call, for any pools, requests, alignments and classes: lists, bitmaps,
\* flags, sizes and the tags at block ends never disagree.
THEOREM ChecksCorrect ==
  ASSUME ReallocFits
  PROVE  Spec => []ChecksPass
<1>1. HeapInv => ChecksPass BY InvChecks
<1> QED BY <1>1, InvCorrect, PTL

\* mapping_search() and the bitmaps together find a block that is large enough
\* whenever there is one as large as the request rounded up to its class.
THEOREM GoodFitCorrect ==
  ASSUME ReallocFits
  PROVE  Spec => []GoodFit
<1>1. HeapInv => GoodFit BY InvFit
<1> QED BY <1>1, InvCorrect, PTL

\* When all memory is given back, in whatever order, block_merge_prev() and
\* block_merge_next() have put every pool together again.
THEOREM WholeCorrect ==
  ASSUME ReallocFits
  PROVE  Spec => []AllFreedWhole
<1>1. HeapInv => AllFreedWhole BY InvWhole
<1> QED BY <1>1, InvCorrect, PTL

----------------------------------------------------------------------------
(* The heap implements an arena.                                           *)

Extent(q)  == [first |-> q.mem, last |-> q.mem + q.bytes - 1]
Ext(ps)    == {Extent(q) : q \in ps}
Region(n, a, m) == [asked |-> n, align |-> a, bytes |-> m]
Reg(h, lv) == [p \in DOMAIN lv |-> Region(lv[p].asked, lv[p].align, h.size[FromPtr(p)])]

\* Different pools are different extents.
LEMMA ExtentUnique ==
  ASSUME NEW q \in Pools, NEW r \in Pools, Extent(q) = Extent(r)
  PROVE  q = r
<1>1. PICK m \in Nat, n \in Nat : q = [mem |-> m, bytes |-> n] BY HeapAssumption
<1>2. PICK k \in Nat, l \in Nat : r = [mem |-> k, bytes |-> l] BY HeapAssumption
<1>3. Extent(q).first = m /\ Extent(q).last = m + n - 1 BY <1>1 DEF Extent
<1>4. Extent(r).first = k /\ Extent(r).last = k + l - 1 BY <1>2 DEF Extent
<1>5. m = k /\ n = l BY <1>3, <1>4
<1> QED BY <1>1, <1>2, <1>5

\* O is R without the regions of blocks that are not in U.
OnlyOf(O, R, U) ==
  /\ \A x : x \in DOMAIN O <=> \E c \in U : x = ToPtr(c)
  /\ \A x \in DOMAIN O : O[x] = R[x]

\* S is O and a region at p that an arena may hand out.
Joins(S, O, p, n, a, ps) ==
  /\ p \in DOMAIN S /\ p \notin DOMAIN O
  /\ S[p].asked = n /\ S[p].align = a
  /\ S[p].bytes >= S[p].asked /\ p % S[p].align = 0
  /\ \E e \in Ext(ps) : e.first <= p /\ p + S[p].bytes - 1 <= e.last
  /\ \A x \in DOMAIN O : ~(p < x + O[x].bytes /\ x < p + S[p].bytes)
  /\ S = [x \in DOMAIN O \cup {p} |-> IF x = p THEN S[p] ELSE O[x]]

\* The region of a block that is handed out, beside the others.
LEMMA PlacedRegion ==
  ASSUME NEW h, NEW ps, Whole(h, ps), NEW lv, Held(h, lv),
         NEW g, NEW lv1, NEW U, NEW b, NEW n, NEW a, Placed(g, h, ps, lv, lv1, U, b, n, a),
         NEW R, R = Reg(h, lv), NEW S, S = Reg(g, lv1), NEW O, OnlyOf(O, R, U),
         NEW p, p = ToPtr(b)
  PROVE  Joins(S, O, p, n, a, ps)
<1>1. /\ Whole(g, ps) /\ U \subseteq Used(h) /\ Used(g) = U \cup {b} /\ b \notin U
      /\ \A c \in U : g.size[c] = h.size[c]
      /\ g.size[b] >= n /\ ToPtr(b) % a = 0
  BY DEF Placed
<1>2. /\ DOMAIN lv1 = {ToPtr(c) : c \in U} \cup {p}
      /\ \A x \in DOMAIN lv1 : lv1[x] = IF x = p THEN Holding(n, a) ELSE lv[x]
  BY DEF Placed
<1>3. DOMAIN lv = {ToPtr(c) : c \in Used(h)} BY DEF Held
<1>4. \A c \in Used(g) : FromPtr(ToPtr(c)) = c BY <1>1, UsedIs
<1>5. Holding(n, a).asked = n /\ Holding(n, a).align = a BY DEF Holding
<1>6. S[p] = Region(n, a, g.size[b]) /\ p \in DOMAIN S
  BY <1>1, <1>2, <1>4, <1>5 DEF Reg
<1>7. S[p].asked = n /\ S[p].align = a /\ S[p].bytes = g.size[b] BY <1>6 DEF Region
<1>8. ASSUME NEW c \in U
      PROVE  /\ ToPtr(c) # p /\ O[ToPtr(c)] = R[ToPtr(c)] /\ S[ToPtr(c)] = R[ToPtr(c)]
             /\ O[ToPtr(c)].bytes = g.size[c]
  <2>1. ToPtr(c) # p BY <1>1, <1>4
  <2>2. O[ToPtr(c)] = R[ToPtr(c)] BY DEF OnlyOf
  <2>3. ToPtr(c) \in DOMAIN lv /\ ToPtr(c) \in DOMAIN lv1 BY <1>1, <1>2, <1>3
  <2>4. FromPtr(ToPtr(c)) = c /\ g.size[c] = h.size[c] BY <1>1, <1>4
  <2>5. lv1[ToPtr(c)] = lv[ToPtr(c)] BY <1>2, <2>1, <2>3
  <2>6. R[ToPtr(c)] = Region(lv[ToPtr(c)].asked, lv[ToPtr(c)].align, g.size[c])
    BY <2>3, <2>4 DEF Reg
  <2>7. S[ToPtr(c)] = Region(lv[ToPtr(c)].asked, lv[ToPtr(c)].align, g.size[c])
    BY <2>3, <2>4, <2>5 DEF Reg
  <2>8. R[ToPtr(c)].bytes = g.size[c] BY <2>6 DEF Region
  <2> QED BY <2>1, <2>2, <2>6, <2>7, <2>8
<1>9. DOMAIN O = {ToPtr(c) : c \in U} /\ p \notin DOMAIN O BY <1>8 DEF OnlyOf
<1>10. \E e \in Ext(ps) : e.first <= p /\ p + S[p].bytes - 1 <= e.last
  <2>1. PICK q \in ps : q.mem <= p /\ p + g.size[b] - 1 <= q.mem + q.bytes - 1
    BY <1>1, HeldIn
  <2>2. Extent(q) \in Ext(ps) BY DEF Ext
  <2>3. Extent(q).first = q.mem /\ Extent(q).last = q.mem + q.bytes - 1 BY DEF Extent
  <2> QED BY <1>7, <2>1, <2>2, <2>3
<1>11. ASSUME NEW x \in DOMAIN O, p < x + O[x].bytes, x < p + S[p].bytes PROVE FALSE
  <2>1. PICK c \in U : x = ToPtr(c) BY <1>9
  <2>2. O[x].bytes = g.size[c] /\ c # b BY <1>1, <1>8, <2>1
  <2>3. /\ b \in DOMAIN g.size /\ c \in DOMAIN g.size /\ b \in Nat /\ c \in Nat
        /\ g.size[b] \in Nat /\ g.size[c] \in Nat /\ p = b + 16 /\ x = c + 16
    BY <1>1, <2>1, UsedIs
  <2>4. Disjoint(g.size) BY <1>1 DEF Whole, Good, Tiled
  <2>5. (b < c => b + g.size[b] + 8 <= c) /\ (c < b => c + g.size[c] + 8 <= b)
    BY <2>3, <2>4 DEF Disjoint, After
  <2> QED BY <1>7, <1>11, <2>2, <2>3, <2>5
<1>12. S = [x \in DOMAIN O \cup {p} |-> IF x = p THEN S[p] ELSE O[x]]
  <2>1. DOMAIN S = DOMAIN O \cup {p} /\ S = [x \in DOMAIN S |-> S[x]] BY <1>2, <1>9 DEF Reg
  <2>2. ASSUME NEW x \in DOMAIN O PROVE x # p /\ S[x] = O[x]
    <3>1. PICK c \in U : x = ToPtr(c) BY <1>9
    <3>2. S[ToPtr(c)] = O[ToPtr(c)] /\ ToPtr(c) # p BY <1>8
    <3> QED BY <3>1, <3>2
  <2> QED BY <2>1, <2>2
<1> QED BY <1>1, <1>6, <1>7, <1>9, <1>10, <1>11, <1>12 DEF Joins

\* A heap whose blocks in use are where they were.
LEMMA KeptRegions ==
  ASSUME NEW h, NEW ps, Whole(h, ps), NEW lv, Held(h, lv),
         NEW g, Used(g) \subseteq Used(h), Kept(g, h),
         NEW lv1, lv1 = [p \in {ToPtr(b) : b \in Used(g)} |-> lv[p]]
  PROVE  Reg(g, lv1) = [p \in {ToPtr(b) : b \in Used(g)} |-> Reg(h, lv)[p]]
<1>1. DOMAIN lv = {ToPtr(c) : c \in Used(h)} BY DEF Held
<1>2. ASSUME NEW b \in Used(g) PROVE Reg(g, lv1)[ToPtr(b)] = Reg(h, lv)[ToPtr(b)]
  <2>1. b \in Used(h) /\ g.size[b] = h.size[b] BY DEF Kept
  <2>2. FromPtr(ToPtr(b)) = b BY <2>1, UsedIs
  <2>3. ToPtr(b) \in DOMAIN lv /\ ToPtr(b) \in DOMAIN lv1 /\ lv1[ToPtr(b)] = lv[ToPtr(b)]
    BY <1>1, <2>1
  <2> QED BY <2>1, <2>2, <2>3 DEF Reg
<1>3. PICK R : R = Reg(g, lv1) OBVIOUS
<1>4. DOMAIN R = {ToPtr(b) : b \in Used(g)} /\ R = [p \in DOMAIN R |-> R[p]]
  BY <1>3 DEF Reg
<1>5. PICK T : T = Reg(h, lv) OBVIOUS
<1>6. \A p \in DOMAIN R : R[p] = T[p] BY <1>2, <1>3, <1>4, <1>5
<1> QED BY <1>3, <1>4, <1>5, <1>6

\* kmalloc(), kcalloc() and tlsf_memalign() hand out a region.
LEMMA TakeStep == ASSUME HeapInv, Takes PROVE Promise!Take
<1>1. Whole(heap, pools) /\ Held(heap, live) BY DEF HeapInv
<1>p. pools' = pools BY DEF Takes
<1>b. PICK b : \E n \in Requests, a \in Aligns \cup {AlignSize} :
        Placed(heap', heap, pools, live, live', Used(heap), b, n, a)
  BY DEF Takes
<1>2. PICK n \in Requests, a \in Aligns \cup {AlignSize} :
        Placed(heap', heap, pools, live, live', Used(heap), b, n, a)
  BY <1>b
<1>3. PICK R : R = Reg(heap, live) OBVIOUS
<1>4. PICK S : S = Reg(heap', live') OBVIOUS
<1>5. R = [x \in {ToPtr(c) : c \in Used(heap)} |-> R[x]]
  <2>1. DOMAIN live = {ToPtr(c) : c \in Used(heap)} BY <1>1 DEF Held
  <2>2. DOMAIN R = DOMAIN live /\ R = [x \in DOMAIN R |-> R[x]] BY <1>3 DEF Reg
  <2> QED BY <2>1, <2>2
<1>o. OnlyOf(R, R, Used(heap)) BY <1>5 DEF OnlyOf
<1>6. PICK p : p = ToPtr(b) OBVIOUS
<1>j. Joins(S, R, p, n, a, pools)
  BY <1>1, <1>2, <1>3, <1>4, <1>o, <1>6, PlacedRegion
<1>7. /\ p \in DOMAIN S /\ p \notin DOMAIN R
      /\ S[p].asked = n /\ S[p].align = a
      /\ S[p].bytes >= S[p].asked /\ p % S[p].align = 0
      /\ \E e \in Ext(pools) : e.first <= p /\ p + S[p].bytes - 1 <= e.last
      /\ \A x \in DOMAIN R : ~(p < x + R[x].bytes /\ x < p + S[p].bytes)
      /\ S = [x \in DOMAIN R \cup {p} |-> IF x = p THEN S[p] ELSE R[x]]
  BY <1>j DEF Joins
<1>8. Promise!Fresh(p, S[p], R)
  BY <1>7 DEF Promise!Fresh, Promise!Overlap, Ext, Extent
<1>9. S = Promise!With(R, p, S[p]) BY <1>7 DEF Promise!With
<1>10. n \in Requests \cup ReallocRequests OBVIOUS
<1>11. Ext(pools') = Ext(pools) BY <1>p
<1> QED BY <1>3, <1>4, <1>7, <1>8, <1>9, <1>10, <1>11
        DEF Promise!Take, Ext, Extent, Reg, Region

\* kfree() takes one back.
LEMMA GiveStep == ASSUME HeapInv, Gives PROVE Promise!Give
<1>1. Whole(heap, pools) /\ Held(heap, live) BY DEF HeapInv
<1>2. PICK b \in Used(heap) :
        /\ Whole(heap', pools) /\ Used(heap') = Used(heap) \ {b} /\ Kept(heap', heap)
        /\ live' = [p \in DOMAIN live \ {ToPtr(b)} |-> live[p]] /\ pools' = pools
  BY DEF Gives
<1>3. DOMAIN live = {ToPtr(c) : c \in Used(heap)} BY <1>1 DEF Held
<1>4. DOMAIN live \ {ToPtr(b)} = {ToPtr(c) : c \in Used(heap')}
  <2>1. \A c \in Used(heap) : FromPtr(ToPtr(c)) = c BY <1>1, UsedIs
  <2>2. \A c \in Used(heap) : ToPtr(c) = ToPtr(b) <=> c = b BY <2>1
  <2> QED BY <1>2, <1>3, <2>2
<1>5. live' = [p \in {ToPtr(c) : c \in Used(heap')} |-> live[p]] BY <1>2, <1>4
<1>6. PICK R : R = Reg(heap, live) OBVIOUS
<1>7. PICK S : S = Reg(heap', live') OBVIOUS
<1>8. S = [p \in {ToPtr(c) : c \in Used(heap')} |-> R[p]]
  BY <1>1, <1>2, <1>5, <1>6, <1>7, KeptRegions
<1>9. DOMAIN R = DOMAIN live BY <1>6 DEF Reg
<1>10. PICK p \in DOMAIN R : p = ToPtr(b) BY <1>3, <1>9
<1>11. S = [x \in DOMAIN R \ {p} |-> R[x]] BY <1>4, <1>8, <1>9, <1>10
<1>12. Ext(pools') = Ext(pools) BY <1>2
<1> QED BY <1>6, <1>7, <1>10, <1>11, <1>12
        DEF Promise!Give, Promise!Without, Ext, Extent, Reg, Region

\* krealloc() resizes or moves one.
LEMMA ResizeStep == ASSUME HeapInv, Resizes PROVE Promise!Resize
<1>1. Whole(heap, pools) /\ Held(heap, live) BY DEF HeapInv
<1>p. pools' = pools BY DEF Resizes
<1>c. PICK c \in Used(heap) : \E b, a : \E n \in ReallocRequests :
        /\ Placed(heap', heap, pools, live, live', Used(heap) \ {c}, b, n, a)
        /\ b = c => a = live[ToPtr(c)].align
  BY DEF Resizes
<1>b. PICK b, a : \E n \in ReallocRequests :
        /\ Placed(heap', heap, pools, live, live', Used(heap) \ {c}, b, n, a)
        /\ b = c => a = live[ToPtr(c)].align
  BY <1>c
<1>2. PICK n \in ReallocRequests :
        /\ Placed(heap', heap, pools, live, live', Used(heap) \ {c}, b, n, a)
        /\ b = c => a = live[ToPtr(c)].align
  BY <1>b
<1>3. PICK R : R = Reg(heap, live) OBVIOUS
<1>4. PICK S : S = Reg(heap', live') OBVIOUS
<1>5. PICK o, p : o = ToPtr(c) /\ p = ToPtr(b) OBVIOUS
<1>6. PICK O : O = [x \in {ToPtr(d) : d \in Used(heap) \ {c}} |-> R[x]] OBVIOUS
<1>o. OnlyOf(O, R, Used(heap) \ {c}) BY <1>6 DEF OnlyOf
<1>j. Joins(S, O, p, n, a, pools)
  BY <1>1, <1>2, <1>3, <1>4, <1>5, <1>o, PlacedRegion
<1>7. /\ p \in DOMAIN S /\ p \notin DOMAIN O
      /\ S[p].asked = n /\ S[p].align = a
      /\ S[p].bytes >= S[p].asked /\ p % S[p].align = 0
      /\ \E e \in Ext(pools) : e.first <= p /\ p + S[p].bytes - 1 <= e.last
      /\ \A x \in DOMAIN O : ~(p < x + O[x].bytes /\ x < p + S[p].bytes)
      /\ S = [x \in DOMAIN O \cup {p} |-> IF x = p THEN S[p] ELSE O[x]]
  BY <1>j DEF Joins
<1>8. DOMAIN R = DOMAIN live /\ DOMAIN live = {ToPtr(d) : d \in Used(heap)}
  BY <1>1, <1>3 DEF Held, Reg
<1>9. o \in DOMAIN R /\ R[o].align = live[o].align
  <2>1. o \in DOMAIN live BY <1>5, <1>8
  <2>2. R[o] = Region(live[o].asked, live[o].align, heap.size[FromPtr(o)])
    BY <1>3, <2>1 DEF Reg
  <2> QED BY <1>8, <2>1, <2>2 DEF Region
<1>10. O = [x \in DOMAIN R \ {o} |-> R[x]]
  <2>1. \A d \in Used(heap) : FromPtr(ToPtr(d)) = d BY <1>1, UsedIs
  <2>2. \A d \in Used(heap) : ToPtr(d) = o <=> d = c BY <1>5, <2>1
  <2>3. DOMAIN R \ {o} = {ToPtr(d) : d \in Used(heap) \ {c}} BY <1>5, <1>8, <2>2
  <2> QED BY <1>6, <2>3
<1>11. p = o => S[p].align = R[o].align
  <2>1. Used(heap') = (Used(heap) \ {c}) \cup {b} /\ Whole(heap', pools) BY <1>2 DEF Placed
  <2>2. FromPtr(p) = b /\ FromPtr(o) = c BY <1>1, <1>5, <2>1, UsedIs
  <2> QED BY <1>2, <1>5, <1>7, <1>9, <2>2
<1>12. Promise!Fresh(p, S[p], O)
  BY <1>7 DEF Promise!Fresh, Promise!Overlap, Ext, Extent
<1>13. O = Promise!Without(o) BY <1>3, <1>10 DEF Promise!Without, Reg, Region
<1>14. S = Promise!With(O, p, S[p]) BY <1>7 DEF Promise!With
<1>15. n \in Requests \cup ReallocRequests OBVIOUS
<1>16. Ext(pools') = Ext(pools) BY <1>p
<1>17. /\ Promise!Fresh(p, S[p], Promise!Without(o))
       /\ S = Promise!With(Promise!Without(o), p, S[p])
  BY <1>12, <1>13, <1>14
<1> QED BY <1>3, <1>4, <1>7, <1>9, <1>11, <1>15, <1>16, <1>17
        DEF Promise!Resize, Ext, Extent, Reg, Region

\* tlsf_add_pool() and tlsf_remove_pool() leave the regions alone.
LEMMA SameRegions == ASSUME HeapInv, SameUse PROVE Reg(heap', live') = Reg(heap, live)
<1>1. Whole(heap, pools) /\ Held(heap, live) BY DEF HeapInv
<1>2. Used(heap') = Used(heap) /\ Kept(heap', heap) /\ live' = live BY DEF SameUse
<1>3. DOMAIN live = {ToPtr(c) : c \in Used(heap)} BY <1>1 DEF Held
<1>4. live = [p \in DOMAIN live |-> Holding(live[p].asked, live[p].align)] BY <1>1 DEF Held
<1>5. live = [p \in DOMAIN live |-> live[p]] BY <1>4
<1>6. live' = [p \in {ToPtr(b) : b \in Used(heap')} |-> live[p]] BY <1>2, <1>3, <1>5
<1>7. Reg(heap', live') = [p \in {ToPtr(b) : b \in Used(heap')} |-> Reg(heap, live)[p]]
  BY <1>1, <1>2, <1>6, KeptRegions
<1>8. PICK R : R = Reg(heap, live) OBVIOUS
<1>9. DOMAIN R = {ToPtr(b) : b \in Used(heap')} /\ R = [p \in DOMAIN R |-> R[p]]
  BY <1>2, <1>3, <1>8 DEF Reg
<1> QED BY <1>7, <1>8, <1>9

\* tlsf_add_pool() adds an extent.
LEMMA AddStep == ASSUME HeapInv, Adds PROVE Promise!AddExtent
<1>1. PICK q \in Pools : q \notin pools /\ pools' = pools \cup {q} BY DEF Adds
<1>2. pools \subseteq Pools BY InvType DEF TypeOK
<1>3. PICK e : e = Extent(q) OBVIOUS
<1>4. e \in Ext(Pools) BY <1>3 DEF Ext
<1>5. e \notin Ext(pools) BY <1>1, <1>2, <1>3, ExtentUnique DEF Ext
<1>6. Ext(pools') = Ext(pools) \cup {e} BY <1>1, <1>3 DEF Ext
<1>7. Reg(heap', live') = Reg(heap, live) BY SameRegions DEF Adds
<1> QED BY <1>4, <1>5, <1>6, <1>7 DEF Promise!AddExtent, Ext, Extent, Reg, Region

\* tlsf_remove_pool() drops one that holds no region.
LEMMA DropStep == ASSUME HeapInv, Drops PROVE Promise!DropExtent
<1>1. PICK q \in pools : pools' = pools \ {q} /\ \A p \in DOMAIN live : ~InPool(p, q)
  BY DEF Drops
<1>2. pools \subseteq Pools BY InvType DEF TypeOK
<1>3. PICK e : e = Extent(q) OBVIOUS
<1>4. e \in Ext(pools) BY <1>3 DEF Ext
<1>5. Ext(pools') = Ext(pools) \ {e}
  <2>1. \A r \in pools : Extent(r) = e <=> r = q BY <1>1, <1>2, <1>3, ExtentUnique
  <2> QED BY <1>1, <2>1 DEF Ext
<1>6. Reg(heap', live') = Reg(heap, live) BY SameRegions DEF Drops
<1>7. PICK R : R = Reg(heap, live) OBVIOUS
<1>8. DOMAIN R = DOMAIN live BY <1>7 DEF Reg
<1>9. ASSUME NEW p \in DOMAIN R, e.first <= p /\ p <= e.last PROVE FALSE
  <2>1. Whole(heap, pools) /\ Held(heap, live) BY DEF HeapInv
  <2>2. PICK b \in Used(heap) : p = ToPtr(b) BY <1>8, <2>1, HeldIs
  <2>3. e.first = q.mem /\ e.last = q.mem + q.bytes - 1 BY <1>3 DEF Extent
  <2>4. PICK s \in pools :
          /\ InPool(ToPtr(b), s)
          /\ \A r \in Pools : r.mem <= ToPtr(b) /\ ToPtr(b) <= r.mem + r.bytes - 1 => r = s
    BY <2>1, HeldIn
  <2>5. s = q BY <1>1, <1>2, <1>9, <2>2, <2>3, <2>4
  <2> QED BY <1>1, <1>8, <2>2, <2>4, <2>5
<1> QED BY <1>4, <1>5, <1>6, <1>7, <1>9 DEF Promise!DropExtent, Ext, Extent, Reg, Region

\* Every step of the heap is one of the arena, or none.
LEMMA ArenaStep ==
  ASSUME HeapInv, ReallocFits, [Next]_vars
  PROVE  [Promise!Next]_(Promise!avars)
<1>1. CASE Stays BY <1>1 DEF Stays, Promise!avars
<1>2. CASE Takes BY <1>2, TakeStep DEF Promise!Next
<1>3. CASE Gives BY <1>3, GiveStep DEF Promise!Next
<1>4. CASE Resizes BY <1>4, ResizeStep DEF Promise!Next
<1>5. CASE Adds BY <1>5, AddStep DEF Promise!Next
<1>6. CASE Drops BY <1>6, DropStep DEF Promise!Next
<1> QED BY <1>1, <1>2, <1>3, <1>4, <1>5, <1>6, StepIs

\* heap_init() begins one.
LEMMA ArenaInit == ASSUME Init PROVE Promise!Init
<1>1. pools = {FirstPool} /\ live = << >> BY DEF Init
<1>2. FirstPool \in Pools BY DEF Pools
<1>3. Ext(pools) \in SUBSET Ext(Pools) BY <1>1, <1>2 DEF Ext
<1>4. DOMAIN live = {} BY <1>1
<1>5. Reg(heap, live) = << >> BY <1>4 DEF Reg
<1> QED BY <1>3, <1>5 DEF Promise!Init, Ext, Extent, Reg, Region

\* Whatever the order of kmalloc(), kcalloc(), krealloc(), kfree(), memalign
\* and of pools that come and go: regions handed out lie in a pool, are as large
\* and as aligned as asked for, never overlap, and no call touches one of
\* another caller.
THEOREM ArenaCorrect ==
  ASSUME ReallocFits
  PROVE  Spec => ArenaPromise
<1>1. Init => Promise!Init BY ArenaInit
<1>2. HeapInv /\ [Next]_vars => [Promise!Next]_(Promise!avars) BY ArenaStep
<1> QED BY <1>1, <1>2, InvCorrect, PTL DEF Spec, ArenaPromise, Promise!Spec
=============================================================================
