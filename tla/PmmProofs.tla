----------------------------- MODULE PmmProofs -----------------------------
(***************************************************************************)
(* Proofs about Pmm for every memory map and page size: what the search    *)
(* returns, that the accounts of the frames it can see are exact, and that *)
(* those frames are usable memory outside the bitmap.                      *)
(***************************************************************************)
EXTENDS Pmm, WellFoundedInduction, TLAPS

\* The first usable chunk that can hold the bitmap.
FirstFitting(m, bytes) ==
  CHOOSE i \in Fits(m, bytes) : \A j \in Fits(m, bytes) : i <= j

-----------------------------------------------------------------------------
(* Memory maps *)

\* A set of natural numbers that is not empty has a least element.
LEMMA Least ==
  ASSUME NEW S, S \subseteq Nat, S # {}
  PROVE  \E x \in S : \A y \in S : x <= y
<1>1. \E x \in S : \A y \in S : ~(<<y, x>> \in OpToRel(<, Nat))
  BY NatLessThanWellFounded, WFMin
<1>2. \A x \in S, y \in S : ~(<<y, x>> \in OpToRel(<, Nat)) => x <= y
  BY DEF OpToRel
<1> QED BY <1>1, <1>2

\* What is known of one entry.
LEMMA EntryOf ==
  ASSUME NEW m, IsMap(m), NEW i \in DOMAIN m
  PROVE  /\ i \in Nat
         /\ m[i] \in Entries
         /\ m[i].base \in 0 .. MaxAddr
<1>1. m \in Seq(Entries) /\ m[i].base + m[i].length <= MaxAddr BY DEF IsMap
<1>2. m[i] \in Entries /\ i \in Nat BY <1>1
<1>3. m[i].base \in Nat /\ m[i].length \in Nat BY <1>2 DEF Entries
<1> QED BY <1>1, <1>2, <1>3, PmmAssumption

\* find_highest_mem_chunk() finds a chunk: the loop ends with one selected.
LEMMA HighestUsable ==
  ASSUME NEW m, IsMap(m)
  PROVE  /\ FindHighestMemChunk(m) \in Usable(m)
         /\ \A j \in Usable(m) : m[j].base <= m[FindHighestMemChunk(m)].base
<1>1. Usable(m) \subseteq Nat /\ \A i \in Usable(m) : m[i].base \in 0 .. MaxAddr
  BY EntryOf DEF Usable
<1> DEFINE Bounds == {k \in Nat : \A i \in Usable(m) : m[i].base <= k}
<1>2. MaxAddr \in Bounds BY <1>1, PmmAssumption
<1>3. PICK k \in Bounds : \A l \in Bounds : k <= l BY <1>2, Least
<1> DEFINE Tops == {i \in Usable(m) : m[i].base = k}
<1>4. Tops # {}
  <2> SUFFICES ASSUME Tops = {} PROVE FALSE OBVIOUS
  <2>1. \A i \in Usable(m) : m[i].base <= k /\ m[i].base # k BY <1>3
  <2>2. Usable(m) # {} BY DEF IsMap
  <2>4. k # 0 BY <1>1, <1>3, <2>1, <2>2
  <2>5. \A i \in Usable(m) : m[i].base <= k - 1 BY <1>1, <1>3, <2>1
  <2>3. k - 1 \in Bounds BY <1>3, <2>4, <2>5
  <2> QED BY <1>3, <2>3
<1>5. PICK i \in Tops : \A j \in Tops : i <= j BY <1>1, <1>4, Least
<1>6. \A j \in Usable(m) : \/ m[j].base < m[i].base
                           \/ m[j].base = m[i].base /\ i <= j
  BY <1>1, <1>3, <1>5
<1> DEFINE h == FindHighestMemChunk(m)
           Top(x) == \A j \in Usable(m) : \/ m[j].base < m[x].base
                                          \/ m[j].base = m[x].base /\ x <= j
<1>7. h \in Usable(m) /\ Top(h)
  <2>1. \E x \in Usable(m) : Top(x) BY <1>5, <1>6
  <2>2. h = CHOOSE x \in Usable(m) : Top(x) BY DEF FindHighestMemChunk
  <2> HIDE DEF Top, h
  <2> QED BY <2>1, <2>2
<1> HIDE DEF h
<1>8. \A j \in Usable(m) : m[j].base <= m[h].base BY <1>1, <1>7
<1> QED BY <1>7, <1>8 DEF h

\* get_bitmap_size() of a memory map is a number of bytes.
LEMMA SizeNat == ASSUME NEW m, IsMap(m) PROVE GetBitmapSize(m) \in Nat
<1> DEFINE h == FindHighestMemChunk(m)
<1>1. h \in DOMAIN m BY HighestUsable DEF Usable
<1>2. m[h].base \in Nat /\ m[h].length \in Nat BY <1>1, EntryOf DEF Entries
<1> DEFINE end == m[h].base + m[h].length
<1>3. end \in Nat BY <1>2
<1> HIDE DEF h, end
<1>4. \A a \in Nat : a \div PageSize \in Nat BY PmmAssumption
<1>5. (end \div PageSize) \div 8 \in Nat BY <1>3, <1>4
<1>6. \A a \in Nat : a + PageSize - 1 \in Nat BY PmmAssumption
<1>7. \A a \in Nat : AlignUp(a) \in Nat
  <2> SUFFICES ASSUME NEW a \in Nat PROVE AlignUp(a) \in Nat OBVIOUS
  <2>1. (a + PageSize - 1) \div PageSize \in Nat BY <1>4, <1>6
  <2>2. \A q \in Nat : q * PageSize \in Nat BY PmmAssumption
  <2> QED BY <2>1, <2>2 DEF AlignUp
<1> QED BY <1>5, <1>7 DEF GetBitmapSize, h, end

\* Taking the bitmap's bytes from a chunk that holds them leaves a memory map.
LEMMA CarveMap ==
  ASSUME NEW m, IsMap(m), NEW bytes \in Nat, NEW i \in Fits(m, bytes)
  PROVE  IsMap(Carve(m, i, bytes))
<1> DEFINE e == [base |-> m[i].base + bytes, length |-> m[i].length - bytes,
                 usable |-> m[i].usable]
<1>1. /\ i \in DOMAIN m /\ m[i] \in Entries
      /\ m[i].length >= bytes /\ m[i].usable
  BY EntryOf DEF Fits, Usable
<1>2. e \in Entries
      /\ e.base + e.length = m[i].base + m[i].length
  BY <1>1 DEF Entries
<1>3. Carve(m, i, bytes) = [m EXCEPT ![i] = e]
  BY <1>1 DEF Carve
<1> HIDE DEF e
<1>4. [m EXCEPT ![i] = e] \in Seq(Entries)
  BY <1>1, <1>2 DEF IsMap
<1>5. \A j \in DOMAIN m : [m EXCEPT ![i] = e][j].base
                            + [m EXCEPT ![i] = e][j].length <= MaxAddr
  BY <1>1, <1>2 DEF IsMap
<1>6. i \in Usable([m EXCEPT ![i] = e]) BY <1>1 DEF Usable, e
<1> QED BY <1>3, <1>4, <1>5, <1>6 DEF IsMap

\* init_bitmap() finds the chunk it is assumed to find.
LEMMA FittingFits ==
  ASSUME NEW m, IsMap(m), NEW bytes, Fits(m, bytes) # {}
  PROVE  FirstFitting(m, bytes) \in Fits(m, bytes)
<1>1. Fits(m, bytes) \subseteq Nat BY EntryOf DEF Fits, Usable
<1> QED BY <1>1, Least DEF FirstFitting

-----------------------------------------------------------------------------
(* The inductive invariant *)

\* Before pmm_init() nothing is held, and the map is the boot loader's.
Fresh == pc = "pmm_init" => mmap \in Maps /\ \A c \in Callers : owned[c] = {}

\* Starts the search has given up: a bit that tests 1 is in the way.
Blocked(s) ==
  \E f \in s .. s + frames : f < bit /\ BitmapTestBit(bits, f)

\* find_contigious_chunk()'s loop: the run it is on, which started at
\* bit_start and reaches up to bit, and nothing before it that would do.
Searching ==
  pc = "scan" =>
    /\ bit = 1 \/ bit <= NBits
    /\ bit >= 1 /\ bit_start < bit
    /\ bit_start = 0 => /\ frames_found = 0
                       /\ \A s \in 1 .. bit - 1 : Blocked(s)
    /\ bit_start # 0 => /\ frames_found = bit - bit_start
                       /\ FreeRun(bit_start, bit - 1)
                       /\ \A s \in 1 .. bit_start - 1 : Blocked(s)
    /\ frames_found <= frames

\* What pmm_alloc() needs of the result: the part of the chunk inside the
\* bitmap tests 0.
Result ==
  pc = "return" /\ bit_start # 0 =>
    \A f \in Chunk : f < NBits => ~BitmapTestBit(bits, f)

\* The call in progress is of a caller that holds nothing yet.
Calling == pc \in {"scan", "return"} => owned[caller] = {} /\ frames # 0

IInv ==
  TypeOK /\ Fresh /\ Calling /\ Searching /\ Result /\ FirstFit /\ AccountsExact

\* The number of bits is a number.
LEMMA BitsNat == ASSUME TypeOK PROVE NBits \in Nat
BY SizeNat DEF TypeOK, NBits

\* The invariant holds when pmm_init() is called.
LEMMA InitIInv == Init => IInv
<1> SUFFICES ASSUME Init PROVE IInv OBVIOUS
<1>1. TypeOK BY PmmAssumption DEF Init, TypeOK
<1> QED BY <1>1 DEF Init, IInv, Fresh, Calling, Searching, Result, FirstFit,
                    AccountsExact

-----------------------------------------------------------------------------
(* Types *)

\* Every step keeps the types.
LEMMA TypeStep == IInv /\ [Next]_vars => TypeOK'
<1> SUFFICES ASSUME TypeOK, Fresh, Searching, [Next]_vars PROVE TypeOK' BY DEF IInv
<1>1. CASE PmmInit
  <2> DEFINE bytes == GetBitmapSize(mmap)
             at    == FirstFitting(mmap, bytes)
             after == Carve(mmap, at, bytes)
  <2>1. IsMap(mmap) /\ Fits(mmap, bytes) # {}
    BY <1>1, PmmAssumption DEF PmmInit, Fresh
  <2>2. bytes \in Nat /\ at \in Fits(mmap, bytes) BY <2>1, SizeNat, FittingFits
  <2>3. IsMap(after) BY <2>1, <2>2, CarveMap
  <2>4. mmap' = after /\ bitmap' = mmap[at].base
    BY <1>1 DEF PmmInit, FirstFitting
  <2>5. bits' \subseteq 0 .. 8 * bytes - 1
    BY <1>1 DEF PmmInit, UnsetBits
  <2>6. bits' \subseteq Nat BY <2>2, <2>5
  <2>7. bitmap' \in Nat BY <2>1, <2>2, <2>4, EntryOf DEF Fits, Usable
  <2> HIDE DEF bytes, at, after
  <2> QED BY <1>1, <2>3, <2>4, <2>6, <2>7 DEF PmmInit, TypeOK, locals
<1>2. ASSUME NEW c \in Callers, NEW n \in Sizes, PmmAlloc(c, n) PROVE TypeOK'
  BY <1>2, PmmAssumption DEF PmmAlloc, TypeOK
<1>3. CASE ScanUsed BY <1>3 DEF ScanUsed, TypeOK
<1>4. CASE ScanFree BY <1>4 DEF ScanFree, TypeOK
<1>5. CASE ScanEnough BY <1>5 DEF ScanEnough, TypeOK
<1>6. CASE ScanEnd BY <1>6 DEF ScanEnd, TypeOK, locals
<1>7. CASE PmmAllocReturn
  <2>1. Chunk \subseteq Nat BY DEF TypeOK, Chunk
  <2> QED BY <1>7, <2>1 DEF PmmAllocReturn, TypeOK, locals, SetBits
<1>8. ASSUME NEW c \in Callers, PmmFree(c) PROVE TypeOK'
  BY <1>8 DEF PmmFree, TypeOK, locals, UnsetBits
<1>9. CASE UNCHANGED vars BY <1>9 DEF vars, locals, TypeOK
<1> QED BY <1>1, <1>2, <1>3, <1>4, <1>5, <1>6, <1>7, <1>8, <1>9
        DEF Next, Scan

-----------------------------------------------------------------------------
(* The search *)

\* The call in progress and the state before pmm_init().
LEMMA CallStep == IInv /\ [Next]_vars => Fresh' /\ Calling'
<1> SUFFICES ASSUME TypeOK, Fresh, Calling, [Next]_vars PROVE Fresh' /\ Calling'
  BY DEF IInv
<1>1. CASE PmmInit BY <1>1 DEF PmmInit, Fresh, Calling
<1>2. ASSUME NEW c \in Callers, NEW n \in Sizes, PmmAlloc(c, n)
      PROVE  Fresh' /\ Calling'
  BY <1>2, PmmAssumption DEF PmmAlloc, Fresh, Calling
<1>3. CASE ScanUsed BY <1>3 DEF ScanUsed, Fresh, Calling
<1>4. CASE ScanFree BY <1>4 DEF ScanFree, Fresh, Calling
<1>5. CASE ScanEnough BY <1>5 DEF ScanEnough, Fresh, Calling
<1>6. CASE ScanEnd BY <1>6 DEF ScanEnd, Fresh, Calling, locals
<1>7. CASE PmmAllocReturn BY <1>7 DEF PmmAllocReturn, Fresh, Calling
<1>8. ASSUME NEW c \in Callers, PmmFree(c) PROVE Fresh' /\ Calling'
  BY <1>8 DEF PmmFree, Fresh, Calling
<1>9. CASE UNCHANGED vars BY <1>9 DEF vars, locals, Fresh, Calling
<1> QED BY <1>1, <1>2, <1>3, <1>4, <1>5, <1>6, <1>7, <1>8, <1>9
        DEF Next, Scan

\* One round of the loop keeps the loop invariant.
LEMMA SearchStep == IInv /\ [Next]_vars => Searching'
<1> SUFFICES ASSUME TypeOK, Searching, [Next]_vars PROVE Searching' BY DEF IInv
<1>n. NBits \in Nat BY BitsNat
<1>t. bit \in Nat /\ bit_start \in Nat /\ frames_found \in Nat /\ frames \in Nat
  BY DEF TypeOK
<1>2. ASSUME NEW c \in Callers, NEW n \in Sizes, PmmAlloc(c, n) PROVE Searching'
  BY <1>2, PmmAssumption DEF PmmAlloc, Searching
<1>3. CASE ScanUsed
  <2>1. /\ bit' = bit + 1 /\ bit_start' = 0 /\ frames_found' = 0
        /\ frames' = frames /\ bits' = bits /\ NBits' = NBits
    BY <1>3 DEF ScanUsed, NBits
  <2>2. /\ bit >= 1 /\ bit_start < bit /\ bit < NBits
        /\ BitmapTestBit(bits, bit)
    BY <1>3 DEF ScanUsed, Searching
  <2>3. \A s \in 1 .. bit : Blocked(s)'
    <3> SUFFICES ASSUME NEW s \in 1 .. bit PROVE Blocked(s)' OBVIOUS
    <3>1. ASSUME Blocked(s) PROVE Blocked(s)'
      BY <1>t, <2>1, <3>1 DEF Blocked
    <3>2. ASSUME bit <= s + frames PROVE Blocked(s)'
      BY <1>t, <2>1, <2>2, <3>2 DEF Blocked
    <3>3. CASE bit_start = 0
      BY <1>3, <1>t, <3>1, <3>2, <3>3 DEF ScanUsed, Searching
    <3>4. CASE bit_start # 0
      <4>1. CASE s < bit_start BY <1>3, <1>t, <3>1, <3>4, <4>1 DEF ScanUsed, Searching
      <4>2. CASE s >= bit_start
        BY <1>3, <1>t, <3>2, <3>4, <4>2 DEF ScanUsed, Searching
      <4> QED BY <1>t, <4>1, <4>2
    <3> QED BY <3>3, <3>4
  <2> QED BY <1>n, <1>t, <2>1, <2>2, <2>3 DEF Searching
<1>4. CASE ScanFree
  <2>1. /\ bit' = bit + 1 /\ frames_found' = frames_found + 1
        /\ bit_start' = (IF bit_start = 0 THEN bit ELSE bit_start)
        /\ frames' = frames /\ bits' = bits /\ NBits' = NBits
    BY <1>4 DEF ScanFree, NBits
  <2>2. /\ bit >= 1 /\ bit_start < bit /\ bit < NBits /\ frames_found < frames
        /\ ~BitmapTestBit(bits, bit)
    BY <1>4 DEF ScanFree, Searching
  <2>3. \A s \in Nat : Blocked(s) => Blocked(s)'
    BY <1>t, <2>1 DEF Blocked
  <2>4. CASE bit_start = 0
    <3>1. bit_start' = bit /\ frames_found = 0 BY <1>4, <2>1, <2>4 DEF ScanFree, Searching
    <3>2. FreeRun(bit_start, bit - 1)'
      BY <1>t, <2>1, <2>2, <3>1 DEF FreeRun
    <3>3. \A s \in 1 .. bit - 1 : Blocked(s)'
      BY <1>4, <1>t, <2>3, <2>4 DEF ScanFree, Searching
    <3> QED BY <1>n, <1>t, <2>1, <2>2, <3>1, <3>2, <3>3 DEF Searching
  <2>5. CASE bit_start # 0
    <3>1. bit_start' = bit_start /\ frames_found = bit - bit_start
          /\ FreeRun(bit_start, bit - 1)
      BY <1>4, <2>1, <2>5 DEF ScanFree, Searching
    <3>2. FreeRun(bit_start, bit - 1)'
      BY <1>t, <2>1, <2>2, <3>1 DEF FreeRun
    <3>3. \A s \in 1 .. bit_start - 1 : Blocked(s)'
      BY <1>4, <1>t, <2>3, <2>5 DEF ScanFree, Searching
    <3> QED BY <1>n, <1>t, <2>1, <2>2, <2>5, <3>1, <3>2, <3>3 DEF Searching
  <2> QED BY <2>4, <2>5
<1>5. ASSUME pc' # "scan" PROVE Searching' BY <1>5 DEF Searching
<1>6. CASE PmmInit \/ ScanEnough \/ ScanEnd \/ PmmAllocReturn
           \/ \E c \in Callers : PmmFree(c)
  BY <1>5, <1>6 DEF PmmInit, ScanEnough, ScanEnd, PmmAllocReturn, PmmFree
<1>7. CASE UNCHANGED vars
  BY <1>7 DEF vars, locals, Searching, Blocked, FreeRun, NBits
<1> QED BY <1>2, <1>3, <1>4, <1>6, <1>7 DEF Next, Scan

\* The end of the loop: the run is the first that will do, or there is none.
LEMMA ReturnStep == IInv /\ [Next]_vars => Result' /\ FirstFit'
<1> SUFFICES ASSUME TypeOK, Calling, Searching, Result, FirstFit, [Next]_vars
             PROVE  Result' /\ FirstFit'
  BY DEF IInv
<1>n. NBits \in Nat BY BitsNat
<1>t. bit \in Nat /\ bit_start \in Nat /\ frames_found \in Nat /\ frames \in Nat
  BY DEF TypeOK
<1> DEFINE Roomy  == {s \in 1 .. NBits - 1 - frames : FreeRun(s, s + frames)}
           Ending == {s \in 1 .. NBits - 1 : FreeRun(s, NBits - 1)}
<1>c. Candidates = IF Roomy # {} THEN Roomy ELSE Ending BY DEF Candidates
<1>b. ASSUME pc = "scan", NEW s \in Nat, Blocked(s) PROVE s \notin Roomy /\ s \notin Ending
  <2>1. PICK f \in s .. s + frames : f < bit /\ BitmapTestBit(bits, f)
    BY <1>b DEF Blocked
  <2>2. s \notin Roomy BY <1>t, <2>1 DEF FreeRun
  <2>3. CASE bit <= NBits
    <3>1. f \in s .. NBits - 1 BY <1>n, <1>t, <2>1, <2>3
    <3> QED BY <2>1, <2>2, <3>1 DEF FreeRun
  <2>4. CASE bit = 1
    <3>1. s = 0 \/ s \notin 1 .. NBits - 1 BY <1>t, <2>1, <2>4
    <3> QED BY <2>2, <3>1
  <2> QED BY <1>b, <2>3, <2>4 DEF Searching
<1>r. ASSUME UNCHANGED <<mmap, bits, frames, bit_start>>
      PROVE  /\ Candidates' = Candidates /\ NBits' = NBits /\ Chunk' = Chunk
             /\ bits' = bits /\ bit_start' = bit_start
  BY <1>r DEF Candidates, FreeRun, NBits, Chunk
<1>1. CASE ScanEnough
  <2>1. /\ bit < NBits /\ ~BitmapTestBit(bits, bit) /\ frames_found >= frames
        /\ UNCHANGED <<mmap, bits, frames, bit_start>> /\ pc = "scan"
    BY <1>1 DEF ScanEnough
  <2>2. /\ bit_start # 0 /\ bit = bit_start + frames
        /\ FreeRun(bit_start, bit - 1)
        /\ \A s \in 1 .. bit_start - 1 : Blocked(s)
    BY <1>t, <2>1 DEF Searching, Calling
  <2>3. FreeRun(bit_start, bit_start + frames)
    BY <1>t, <2>1, <2>2 DEF FreeRun
  <2>4. bit_start \in Roomy BY <1>n, <1>t, <2>1, <2>2, <2>3
  <2>5. \A s \in Roomy : bit_start <= s BY <1>n, <1>t, <1>b, <2>1, <2>2
  <2>6. Result' BY <1>t, <2>1, <2>3, <1>r DEF Result, FreeRun, Chunk
  <2>7. Candidates = Roomy BY <1>c, <2>4
  <2> HIDE DEF Roomy, Ending
  <2>8. Candidates # {} BY <2>4, <2>7
  <2> QED BY <1>r, <2>1, <2>4, <2>5, <2>6, <2>7, <2>8 DEF FirstFit
<1>2. CASE ScanEnd
  <2>1. /\ bit >= NBits /\ pc = "scan"
        /\ UNCHANGED <<mmap, bits, frames, bit_start>>
    BY <1>2 DEF ScanEnd, locals
  <2>2. CASE bit_start = 0
    <3>1. \A s \in 1 .. bit - 1 : Blocked(s) BY <2>1, <2>2 DEF Searching
    <3>2. Roomy = {} BY <1>n, <1>t, <1>b, <2>1, <3>1
    <3>3. Ending = {} BY <1>n, <1>t, <1>b, <2>1, <3>1
    <3>4. Candidates = {} BY <1>c, <3>2, <3>3
    <3> QED BY <1>r, <2>1, <2>2, <3>4 DEF FirstFit, Result
  <2>3. CASE bit_start # 0
    <3>1. /\ frames_found = bit - bit_start /\ frames_found <= frames
          /\ FreeRun(bit_start, bit - 1) /\ bit_start < bit
          /\ \A s \in 1 .. bit_start - 1 : Blocked(s)
      BY <2>1, <2>3 DEF Searching
    <3>2. bit = NBits BY <1>n, <1>t, <2>1, <2>3, <3>1 DEF Searching
    <3>3. Roomy = {}
      <4> SUFFICES ASSUME NEW s \in Roomy PROVE FALSE OBVIOUS
      <4>1. s \in Nat /\ s >= 1 /\ s + frames < NBits BY <1>n, <1>t
      <4>2. s < bit_start BY <1>n, <1>t, <3>1, <3>2, <4>1
      <4>3. Blocked(s) BY <1>t, <3>1, <4>1, <4>2
      <4> QED BY <1>b, <2>1, <4>1, <4>3
    <3>4. bit_start \in Ending BY <1>n, <1>t, <2>3, <3>1, <3>2
    <3>5. \A s \in Ending : bit_start <= s BY <1>n, <1>t, <1>b, <2>1, <3>1
    <3>6. Result'
      BY <1>n, <1>t, <1>r, <2>1, <3>1, <3>2 DEF Result, FreeRun, Chunk
    <3>7. Candidates = Ending BY <1>c, <3>3
    <3> HIDE DEF Roomy, Ending
    <3>8. Candidates # {} BY <3>4, <3>7
    <3> QED BY <1>r, <2>1, <3>4, <3>5, <3>6, <3>7, <3>8 DEF FirstFit
  <2> QED BY <2>2, <2>3
<1>3. ASSUME pc' # "return" PROVE Result' /\ FirstFit'
  BY <1>3 DEF Result, FirstFit
<1>4. CASE \/ PmmInit \/ PmmAllocReturn \/ ScanUsed \/ ScanFree
           \/ \E c \in Callers, n \in Sizes : PmmAlloc(c, n)
           \/ \E c \in Callers : PmmFree(c)
  BY <1>3, <1>4 DEF PmmInit, PmmAllocReturn, PmmAlloc, PmmFree, ScanUsed,
                    ScanFree
<1>5. CASE UNCHANGED vars
  <2>1. UNCHANGED <<mmap, bits, frames, bit_start>> /\ pc' = pc
    BY <1>5 DEF vars, locals
  <2> QED BY <1>r, <2>1 DEF Result, FirstFit
<1> QED BY <1>1, <1>2, <1>4, <1>5 DEF Next, Scan

-----------------------------------------------------------------------------
(* The accounts *)

\* pmm_alloc() and pmm_free() keep the accounts of the visible frames exact.
LEMMA AccountStep == IInv /\ [Next]_vars => AccountsExact'
<1> SUFFICES ASSUME TypeOK, Fresh, Calling, Result, AccountsExact, [Next]_vars
             PROVE  AccountsExact'
  BY DEF IInv
<1>n. NBits \in Nat BY BitsNat
<1>k. ASSUME mmap' = mmap PROVE Tracked' = Tracked BY <1>k DEF Tracked, NBits
<1>1. CASE PmmInit
  <2>1. /\ reserved' = bits'
        /\ \A c \in Callers : owned'[c] = {}
    BY <1>1 DEF PmmInit, Fresh
  <2> QED BY <2>1 DEF AccountsExact
<1>2. CASE PmmAllocReturn
  <2> DEFINE granted == IF bit_start = 0 THEN {} ELSE Chunk
  <2>1. /\ pc = "return" /\ mmap' = mmap /\ reserved' = reserved
        /\ bits' = bits \cup granted
        /\ owned' = [owned EXCEPT ![caller] = granted]
    BY <1>2 DEF PmmAllocReturn, SetBits
  <2>2. owned[caller] = {} /\ caller \in Callers BY <2>1 DEF Calling, TypeOK
  <2>3. \A f \in granted \cap Tracked : f \notin bits
    BY <1>n, <2>1 DEF Result, Tracked, BitmapTestBit
  <2> HIDE DEF granted
  <2>4. \A f \in granted \cap Tracked :
          f \notin reserved /\ \A c \in Callers : f \notin owned[c]
    BY <2>1, <2>3 DEF AccountsExact
  <2>5. \A c \in Callers : owned'[c] = IF c = caller THEN granted ELSE owned[c]
    BY <2>1 DEF TypeOK
  <2>6. \A f \in Tracked :
          f \in bits' <=> f \in reserved \/ \E c \in Callers : f \in owned'[c]
    BY <2>1, <2>2, <2>5 DEF AccountsExact
  <2>7. \A c \in Callers : owned'[c] \cap reserved \cap Tracked = {}
    BY <2>1, <2>4, <2>5 DEF AccountsExact
  <2>8. \A c, d \in Callers : c # d => owned'[c] \cap owned'[d] \cap Tracked = {}
    BY <2>1, <2>4, <2>5 DEF AccountsExact
  <2> QED BY <1>k, <2>1, <2>6, <2>7, <2>8 DEF AccountsExact
<1>3. ASSUME NEW c \in Callers, PmmFree(c) PROVE AccountsExact'
  <2>1. /\ pc = "idle" /\ mmap' = mmap /\ reserved' = reserved
        /\ bits' = bits \ owned[c]
        /\ \A d \in Callers : owned'[d] = IF d = c THEN {} ELSE owned[d]
    BY <1>3 DEF PmmFree, UnsetBits, TypeOK
  <2>2. \A f \in Tracked : f \in owned[c] =>
          f \notin reserved /\ \A d \in Callers : d # c => f \notin owned[d]
    BY <2>1 DEF AccountsExact
  <2>3. \A f \in Tracked :
          f \in bits' <=> f \in reserved \/ \E d \in Callers : f \in owned'[d]
    BY <2>1, <2>2 DEF AccountsExact
  <2> QED BY <1>k, <2>1, <2>3 DEF AccountsExact
<1>4. ASSUME UNCHANGED <<mmap, bits, owned, reserved>>, pc # "pmm_init"
      PROVE  AccountsExact'
  BY <1>4, <1>k DEF AccountsExact
<1>5. CASE \/ \E c \in Callers, n \in Sizes : PmmAlloc(c, n)
           \/ ScanUsed \/ ScanFree \/ ScanEnough \/ ScanEnd
  BY <1>4, <1>5 DEF PmmAlloc, ScanUsed, ScanFree, ScanEnough, ScanEnd
<1>6. CASE UNCHANGED vars
  <2>1. UNCHANGED <<mmap, bits, owned, reserved, pc>> BY <1>6 DEF vars
  <2> QED BY <1>k, <2>1 DEF AccountsExact
<1> QED BY <1>1, <1>2, <1>3, <1>5, <1>6 DEF Next, Scan

-----------------------------------------------------------------------------
(* What init_bitmap() leaves free *)

\* The quotient of a number written as a multiple and a remainder.
LEMMA Quotient ==
  ASSUME NEW q \in Nat, NEW r \in 0 .. PageSize - 1
  PROVE  (PageSize * q + r) \div PageSize = q
BY PmmAssumption

\* A whole number of pages.
LEMMA WholePages ==
  ASSUME NEW a \in Nat, a % PageSize = 0
  PROVE  \E q \in Nat : a = PageSize * q
BY PmmAssumption

\* The size of the bitmap is a whole number of pages.
LEMMA SizeWhole ==
  ASSUME NEW m, IsMap(m)
  PROVE  \E q \in Nat : GetBitmapSize(m) = PageSize * q
<1> DEFINE h == FindHighestMemChunk(m)
           a == ((m[h].base + m[h].length) \div PageSize) \div 8
<1>1. h \in DOMAIN m BY HighestUsable DEF Usable
<1>2. m[h].base \in Nat /\ m[h].length \in Nat BY <1>1, EntryOf DEF Entries
<1>3. PICK e \in Nat : e = m[h].base + m[h].length BY <1>2
<1>4. \A x \in Nat : x \div PageSize \in Nat BY PmmAssumption
<1>5. a \in Nat BY <1>3, <1>4
<1>6. PICK b \in Nat : b = a BY <1>5
<1>7. b + PageSize - 1 \in Nat BY PmmAssumption
<1>8. PICK q \in Nat : q = (b + PageSize - 1) \div PageSize BY <1>4, <1>7
<1>9. GetBitmapSize(m) = q * PageSize BY <1>6, <1>8 DEF GetBitmapSize, AlignUp
<1> QED BY <1>9, PmmAssumption

\* The highest chunk, where no two have the same base.
LEMMA HighestIs ==
  ASSUME NEW m, IsMap(m), NEW h \in Usable(m),
         \A j \in Usable(m) \ {h} : m[j].base < m[h].base
  PROVE  FindHighestMemChunk(m) = h
<1>1. Usable(m) \subseteq Nat /\ \A i \in Usable(m) : m[i].base \in Nat
  BY EntryOf DEF Usable, Entries
<1>2. \A j \in Usable(m) : m[j].base < m[h].base \/ (m[j].base = m[h].base /\ h <= j)
  <2> SUFFICES ASSUME NEW j \in Usable(m)
               PROVE  m[j].base < m[h].base \/ (m[j].base = m[h].base /\ h <= j)
    OBVIOUS
  <2>1. CASE j = h BY <2>1, <1>1
  <2>2. CASE j # h BY <2>2
  <2> QED BY <2>1, <2>2
<1>3. \A i \in Usable(m) :
        (\A j \in Usable(m) : m[j].base < m[i].base \/ (m[j].base = m[i].base /\ i <= j))
          => i = h
  <2> SUFFICES ASSUME NEW i \in Usable(m) \ {h},
                      m[h].base < m[i].base \/ m[h].base = m[i].base
               PROVE  FALSE
    OBVIOUS
  <2>1. m[i].base < m[h].base /\ m[i].base \in Nat /\ m[h].base \in Nat BY <1>1
  <2> QED BY <2>1
<1> QED BY <1>2, <1>3 DEF FindHighestMemChunk

\* Frames of a chunk of whole pages.
LEMMA FramesOf ==
  ASSUME NEW m, NEW i, NEW b \in Nat, NEW l \in Nat,
         m[i].base = PageSize * b, m[i].length = PageSize * l
  PROVE  EntryFrames(m, i) = b .. b + l - 1
<1>1. PageSize \in Nat /\ PageSize - 1 \in 0 .. PageSize - 1 BY PmmAssumption
<1>2. (m[i].length + PageSize - 1) \div PageSize = l
  <2>1. (PageSize * l + (PageSize - 1)) \div PageSize = l BY <1>1, Quotient
  <2>2. m[i].length + PageSize - 1 = PageSize * l + (PageSize - 1) BY <1>1
  <2> QED BY <2>1, <2>2
<1>3. \A j \in Nat : (m[i].base + j * PageSize) \div PageSize = b + j
  <2> SUFFICES ASSUME NEW j \in Nat
               PROVE  (m[i].base + j * PageSize) \div PageSize = b + j
    OBVIOUS
  <2>1. PICK k \in Nat : k = b + j OBVIOUS
  <2>2. 0 \in 0 .. PageSize - 1 BY PmmAssumption
  <2>3. (PageSize * k + 0) \div PageSize = k BY <2>2, Quotient
  <2>4. m[i].base + j * PageSize = PageSize * k + 0 BY <1>1, <2>1
  <2> QED BY <2>1, <2>3, <2>4
<1>4. EntryFrames(m, i) = {b + j : j \in 0 .. l - 1}
  BY <1>2, <1>3 DEF EntryFrames
<1>5. ASSUME NEW f \in b .. b + l - 1 PROVE f \in EntryFrames(m, i)
  <2>1. f - b \in 0 .. l - 1 /\ f = b + (f - b) OBVIOUS
  <2> QED BY <1>4, <2>1
<1>6. ASSUME NEW f \in EntryFrames(m, i) PROVE f \in b .. b + l - 1
  <2>1. PICK j \in 0 .. l - 1 : f = b + j BY <1>4
  <2> QED BY <2>1
<1> QED BY <1>5, <1>6

\* What is known of a chunk the boot loader reports as usable.
LEMMA SoundChunk ==
  ASSUME NEW m \in Maps, NEW i \in Usable(m)
  PROVE  /\ i \in DOMAIN m /\ m[i].base \in Nat /\ m[i].length \in Nat /\ m[i].length > 0
         /\ \E b, l \in Nat : m[i].base = PageSize * b /\ m[i].length = PageSize * l
         /\ \A j \in Usable(m) \ {i} :
              \/ m[j].base + m[j].length <= m[i].base
              \/ m[i].base + m[i].length <= m[j].base
<1>1. IsMap(m) /\ Sound(m) BY PmmAssumption, BootLoaderAssumption
<1>2. i \in DOMAIN m /\ m[i].base \in Nat /\ m[i].length \in Nat
  BY <1>1, EntryOf DEF Usable, Entries
<1>3. m[i].base % PageSize = 0 /\ m[i].length % PageSize = 0 /\ m[i].length > 0
  BY <1>1 DEF Sound
<1>4. PICK b \in Nat : m[i].base = PageSize * b BY <1>2, <1>3, WholePages
<1>5. PICK l \in Nat : m[i].length = PageSize * l BY <1>2, <1>3, WholePages
<1>6. \A j \in Usable(m) \ {i} :
        \/ m[j].base + m[j].length <= m[i].base
        \/ m[i].base + m[i].length <= m[j].base
  BY <1>1 DEF Sound
<1> QED BY <1>2, <1>3, <1>4, <1>5, <1>6

\* The size computed from the map that init_bitmap() edited is the same.
LEMMA SizeStays ==
  ASSUME NEW m \in Maps, NEW at \in Fits(m, GetBitmapSize(m))
  PROVE  GetBitmapSize(Carve(m, at, GetBitmapSize(m))) = GetBitmapSize(m)
<1>0. IsMap(m) /\ Sound(m) BY PmmAssumption, BootLoaderAssumption
<1>1. PICK bytes \in Nat : bytes = GetBitmapSize(m) BY <1>0, SizeNat
<1>2. PICK after : after = Carve(m, at, bytes) OBVIOUS
<1>3. at \in Usable(m) /\ m[at].length >= bytes BY <1>1 DEF Fits
<1>4. IsMap(after) BY <1>0, <1>1, <1>2, CarveMap
<1>t. \A i \in Usable(m) : i \in DOMAIN m /\ m[i].base \in Nat /\ m[i].length \in Nat
  BY SoundChunk
<1>5. /\ \A i \in DOMAIN m : i # at => after[i] = m[i]
      /\ after[at].base = m[at].base + bytes /\ after[at].length = m[at].length - bytes
      /\ Usable(after) = Usable(m)
  <2>1. at \in DOMAIN m /\ m[at].usable /\ m \in Seq(Entries) BY <1>0, <1>3 DEF Usable, IsMap
  <2>2. after = [m EXCEPT ![at] = [base |-> m[at].base + bytes,
                                   length |-> m[at].length - bytes, usable |-> m[at].usable]]
    BY <1>2, <2>1 DEF Carve
  <2>3. after[at] = [base |-> m[at].base + bytes, length |-> m[at].length - bytes,
                     usable |-> m[at].usable]
    BY <2>1, <2>2
  <2>4. DOMAIN after = DOMAIN m /\ \A i \in DOMAIN m : i # at => after[i] = m[i]
    BY <2>1, <2>2
  <2>5. after[at].usable BY <2>1, <2>3
  <2> QED BY <2>1, <2>3, <2>4, <2>5 DEF Usable
<1>6. PICK h \in Usable(m) : h = FindHighestMemChunk(m) BY <1>0, HighestUsable
<1>7. \A j \in Usable(m) \ {h} : m[j].base < m[h].base
  <2> SUFFICES ASSUME NEW j \in Usable(m) \ {h} PROVE m[j].base < m[h].base OBVIOUS
  <2>2. m[j].base <= m[h].base BY <1>0, <1>6, HighestUsable
  <2>3. /\ m[j].length > 0 /\ m[h].length > 0
        /\ m[j].base + m[j].length <= m[h].base \/ m[h].base + m[h].length <= m[j].base
    BY SoundChunk
  <2> QED BY <2>2, <2>3, <1>t
<1>8. \A j \in Usable(after) \ {h} : after[j].base < after[h].base
  <2> SUFFICES ASSUME NEW j \in Usable(m) \ {h} PROVE after[j].base < after[h].base
    BY <1>5
  <2>1. CASE h = at BY <2>1, <1>1, <1>5, <1>7, <1>t
  <2>2. CASE h # at /\ j # at BY <2>2, <1>5, <1>7, <1>t
  <2>3. CASE j = at
    <3>1. m[j].base < m[h].base /\ after[h] = m[h] /\ after[j].base = m[j].base + bytes
      BY <2>3, <1>5, <1>7, <1>t
    <3>2. \/ m[h].base + m[h].length <= m[j].base
          \/ /\ m[j].base + m[j].length <= m[h].base
             /\ m[j].length = bytes => m[j].base + m[j].length < m[h].base
      BY <1>0, <1>1 DEF Sound
    <3> QED BY <2>3, <3>1, <3>2, <1>1, <1>3, <1>t
  <2> QED BY <2>1, <2>2, <2>3
<1>9. FindHighestMemChunk(after) = h BY <1>4, <1>5, <1>8, HighestIs
<1>10. after[h].base + after[h].length = m[h].base + m[h].length
  BY <1>1, <1>3, <1>5, <1>t
<1>11. GetBitmapSize(after) = GetBitmapSize(m) BY <1>6, <1>9, <1>10 DEF GetBitmapSize
<1> QED BY <1>1, <1>2, <1>11

\* A frame of a chunk of the edited map is one of the boot loader's chunk, and
\* outside the bitmap.
LEMMA ChunkFrames ==
  ASSUME NEW m \in Maps, NEW bytes \in Nat, bytes = GetBitmapSize(m),
         NEW at \in Fits(m, bytes), NEW after, after = Carve(m, at, bytes),
         NEW i \in Fits(after, bytes), NEW f \in EntryFrames(after, i)
  PROVE  /\ i \in Usable(m) /\ f \in EntryFrames(m, i)
         /\ ~(m[at].base <= f * PageSize /\ f * PageSize < m[at].base + bytes)
<1>0. IsMap(m) /\ PageSize \in Nat \ {0} BY PmmAssumption
<1>a. at \in Usable(m) /\ m[at].length >= bytes BY DEF Fits
<1>b. at \in DOMAIN m /\ m[at].usable BY <1>a DEF Usable
<1>c. after = [m EXCEPT ![at] = [base |-> m[at].base + bytes,
                                 length |-> m[at].length - bytes, usable |-> m[at].usable]]
  BY <1>b DEF Carve
<1>d. m \in Seq(Entries) BY <1>0 DEF IsMap
<1>e. /\ DOMAIN after = DOMAIN m /\ \A k \in DOMAIN m : k # at => after[k] = m[k]
      /\ after[at] = [base |-> m[at].base + bytes, length |-> m[at].length - bytes,
                      usable |-> m[at].usable]
  BY <1>b, <1>c, <1>d
<1>1. i \in Usable(m) BY <1>e DEF Fits, Usable
<1>2. PICK b \in Nat, l \in Nat : m[i].base = PageSize * b /\ m[i].length = PageSize * l
  BY <1>1, SoundChunk
<1>3. EntryFrames(m, i) = b .. b + l - 1 BY <1>2, FramesOf
<1>4. m[at].base \in Nat /\ m[at].length \in Nat /\ m[i].base \in Nat /\ m[i].length \in Nat
  BY <1>1, <1>a, SoundChunk
<1>5. CASE i = at
  <2>1. PICK q \in Nat : bytes = PageSize * q BY <1>0, SizeWhole
  <2>2. after[i].base = PageSize * (b + q) /\ after[i].length = PageSize * (l - q)
    <3>1. after[i].base = PageSize * b + PageSize * q
          /\ after[i].length = PageSize * l - PageSize * q
      BY <1>2, <1>5, <1>e, <2>1
    <3> QED BY <3>1, <1>0
  <2>3. q <= l
    <3>1. PageSize * q <= PageSize * l BY <1>2, <1>5, <1>a, <2>1
    <3>2. q > l => PageSize * q > PageSize * l BY <1>0
    <3> QED BY <3>1, <3>2, <1>0
  <2>4. PICK b2 \in Nat, l2 \in Nat : b2 = b + q /\ l2 = l - q BY <2>3
  <2>5. EntryFrames(after, i) = b2 .. b2 + l2 - 1
    <3>1. after[i].base = PageSize * b2 /\ after[i].length = PageSize * l2 BY <2>2, <2>4
    <3> QED BY <3>1, FramesOf
  <2>6. f \in Nat /\ f >= b + q /\ f <= b + l - 1 BY <2>4, <2>5
  <2>7. f * PageSize >= m[at].base + bytes
    <3>1. f * PageSize >= (b + q) * PageSize BY <1>0, <2>6
    <3>2. (b + q) * PageSize = PageSize * b + PageSize * q BY <1>0
    <3> QED BY <1>2, <1>5, <2>1, <3>1, <3>2
  <2>8. f \in EntryFrames(m, i) BY <1>3, <2>6
  <2>9. f * PageSize \in Nat BY <1>0, <2>6
  <2> QED BY <1>1, <1>4, <2>7, <2>8, <2>9
<1>6. CASE i # at
  <2>1. after[i] = m[i] /\ i \in DOMAIN m BY <1>1, <1>6, <1>e DEF Usable
  <2>2. EntryFrames(after, i) = EntryFrames(m, i) BY <2>1 DEF EntryFrames
  <2>3. f \in Nat /\ f >= b /\ f + 1 <= b + l BY <1>3, <2>2
  <2>4. f * PageSize \in Nat /\ m[i].base <= f * PageSize
        /\ f * PageSize < m[i].base + m[i].length
    <3>1. f * PageSize >= b * PageSize /\ (f + 1) * PageSize <= (b + l) * PageSize
      BY <1>0, <2>3
    <3>2. /\ (f + 1) * PageSize = f * PageSize + PageSize
          /\ (b + l) * PageSize = PageSize * b + PageSize * l
          /\ b * PageSize = PageSize * b
      BY <1>0, <2>3
    <3>3. f * PageSize \in Nat BY <1>0, <2>3
    <3> QED BY <1>0, <1>2, <1>4, <3>1, <3>2, <3>3
  <2>5. \/ m[at].base + m[at].length <= m[i].base
        \/ m[i].base + m[i].length <= m[at].base
    BY <1>1, <1>6, <1>a, SoundChunk
  <2>6. ~(m[at].base <= f * PageSize /\ f * PageSize < m[at].base + bytes)
    BY <1>4, <1>a, <2>4, <2>5
  <2> QED BY <1>1, <2>2, <2>6
<1> QED BY <1>5, <1>6

\* What init_bitmap() left free, and the size it computed.
LeftFree ==
  /\ booted.map \in Maps /\ booted.bytes = GetBitmapSize(booted.map)
  /\ GetBitmapSize(mmap) = booted.bytes
  /\ pc = "pmm_init" => mmap = booted.map
  /\ pc # "pmm_init" => \A f \in 0 .. NBits - 1 : f \notin reserved => f \in Backed

\* pmm_init() establishes it and nothing else touches it.
LEMMA LeftFreeStep == LeftFree /\ [Next]_vars => LeftFree'
<1> SUFFICES ASSUME LeftFree, [Next]_vars PROVE LeftFree' OBVIOUS
<1>1. CASE PmmInit
  <2>0. PICK m \in Maps : m = mmap /\ m = booted.map BY <1>1 DEF LeftFree, PmmInit
  <2>i. IsMap(m) /\ Fits(m, GetBitmapSize(m)) # {} BY PmmAssumption
  <2>1. PICK bytes \in Nat : bytes = GetBitmapSize(m) BY <2>i, SizeNat
  <2>2. PICK at \in Fits(m, bytes) : at = FirstFitting(m, bytes)
    BY <2>i, <2>1, FittingFits
  <2>3. PICK after : after = Carve(m, at, bytes) OBVIOUS
  <2>4. /\ bitmap' = m[at].base /\ mmap' = after /\ booted' = booted
        /\ reserved' = UnsetBits(0 .. 8 * bytes - 1,
                         UNION {EntryFrames(after, i) : i \in Fits(after, bytes)})
    BY <1>1, <2>0, <2>1, <2>2, <2>3 DEF PmmInit, FirstFitting
  <2>5. GetBitmapSize(after) = bytes BY <2>1, <2>2, <2>3, SizeStays
  <2>6. booted.bytes = bytes BY <2>0, <2>1 DEF LeftFree
  <2>7. NBits' = 8 * bytes BY <2>4, <2>5 DEF NBits
  <2>8. ASSUME NEW f \in 0 .. NBits' - 1, f \notin reserved' PROVE f \in Backed'
    <3>1. PICK i \in Fits(after, bytes) : f \in EntryFrames(after, i)
      BY <2>4, <2>7, <2>8 DEF UnsetBits
    <3>2. /\ i \in Usable(m) /\ f \in EntryFrames(m, i)
          /\ ~(m[at].base <= f * PageSize /\ f * PageSize < m[at].base + bytes)
      BY <2>1, <2>2, <2>3, <3>1, ChunkFrames
    <3> QED BY <2>0, <2>4, <2>6, <3>2 DEF Backed
  <2> QED BY <1>1, <2>0, <2>1, <2>4, <2>5, <2>6, <2>8 DEF LeftFree, PmmInit
<1>2. CASE UNCHANGED <<mmap, bitmap, booted, reserved>> /\ (pc' = "pmm_init" <=> pc = "pmm_init")
  BY <1>2 DEF LeftFree, NBits, Backed
<1>3. CASE \/ \E c \in Callers, n \in Sizes : PmmAlloc(c, n)
           \/ Scan \/ PmmAllocReturn \/ (\E c \in Callers : PmmFree(c)) \/ UNCHANGED vars
  BY <1>2, <1>3 DEF PmmAlloc, Scan, ScanUsed, ScanFree, ScanEnough, ScanEnd, PmmAllocReturn,
     PmmFree, vars
<1> QED BY <1>1, <1>3 DEF Next

-----------------------------------------------------------------------------
(* Theorems *)

\* The invariant of pmm.c for every memory map, page size and set of callers.
THEOREM Invariance == Spec => []IInv
<1>1. IInv /\ [Next]_vars => IInv'
  BY TypeStep, CallStep, SearchStep, ReturnStep, AccountStep DEF IInv
<1> QED BY InitIInv, <1>1, PTL DEF Spec

\* Type correctness of pmm.c's state.
THEOREM TypeCorrect == Spec => []TypeOK
<1>1. IInv => TypeOK BY DEF IInv
<1> QED BY Invariance, <1>1, PTL

\* The loop of find_contigious_chunk() computes the first candidate.
THEOREM SearchCorrect == Spec => []FirstFit
<1>1. IInv => FirstFit BY DEF IInv
<1> QED BY Invariance, <1>1, PTL

\* The search always returns a chunk: the last bit of the bitmap cannot be
\* seen and is a candidate for any request.
THEOREM GrantCorrect == Spec => []NeverFails
<1>1. IInv => NeverFails
  <2> SUFFICES ASSUME IInv, pc = "return", NBits > 0, NBits % 32 = 0
               PROVE  bit_start # 0
    BY DEF NeverFails
  <2>1. NBits \in Nat BY BitsNat DEF IInv
  <2>2. NBits >= 32 /\ (NBits - 1) % 32 = 31 BY <2>1
  <2>3. ~BitmapTestBit(bits, NBits - 1) BY <2>2 DEF BitmapTestBit, Testable
  <2>4. FreeRun(NBits - 1, NBits - 1) BY <2>1, <2>2, <2>3 DEF FreeRun
  <2>5. NBits - 1 \in {s \in 1 .. NBits - 1 : FreeRun(s, NBits - 1)}
    BY <2>1, <2>2, <2>4
  <2>6. Candidates # {} /\ \A s \in Candidates : s >= 1
    <3>1. frames \in Nat BY DEF IInv, TypeOK
    <3> QED BY <2>1, <2>5, <3>1 DEF Candidates
  <2>7. bit_start \in Candidates BY <2>6 DEF IInv, FirstFit
  <2> QED BY <2>6, <2>7
<1> QED BY Invariance, <1>1, PTL

\* No frame whose bit can be seen is lost or handed out twice by pmm_alloc()
\* and pmm_free(), in any order and for requests of any size.
THEOREM AccountsCorrect == Spec => []AccountsExact
<1>1. IInv => AccountsExact BY DEF IInv
<1> QED BY Invariance, <1>1, PTL

\* Through a bit that can be seen nobody is handed a frame of the bitmap or one
\* that is not usable memory, for every memory map of whole pages whose chunks
\* lie apart; and the size of the bitmap never changes.
THEOREM OwnedCorrect == Spec => []OwnedBacked
<1>1. Init => LeftFree
  BY DEF Init, LeftFree
<1>2. IInv /\ LeftFree => OwnedBacked
  <2> SUFFICES ASSUME IInv, LeftFree, pc # "pmm_init", NEW c \in Callers,
                      NEW f \in owned[c] \cap Tracked
               PROVE  f \in Backed
    BY DEF OwnedBacked, LeftFree
  <2>1. f \notin reserved BY DEF IInv, AccountsExact
  <2> QED BY <2>1 DEF LeftFree, Tracked
<1> QED BY Invariance, <1>1, <1>2, LeftFreeStep, PTL DEF Spec

=============================================================================
