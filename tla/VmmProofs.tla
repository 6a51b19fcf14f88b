----------------------------- MODULE VmmProofs -----------------------------
(***************************************************************************)
(* Proofs about the virtual memory manager, for every number of frames,    *)
(* of entries of a table and of address spaces: a cached translation is    *)
(* never stale, the kernel slots the boot loader filled are the same in    *)
(* all address spaces, and page tables implement the address spaces of     *)
(* module AddressSpace.  All of it rests on ZeroFrames: vmm.c itself does  *)
(* not clear the frames that become tables.                                *)
(***************************************************************************)
EXTENDS Vmm, FiniteSetTheorems, WellFoundedInduction, TLAPS

----------------------------------------------------------------------------
(* Walks as lookups in a memory m.                                         *)

\* The entry of a table, and the tables and the page on the way of a walk.
Entry(m, t, i) == IF t = Absent THEN Absent ELSE m[t][i]
Pdpt(m, s, p)  == Entry(m, s, p[1])
Pd(m, s, p)    == Entry(m, Pdpt(m, s, p), p[2])
Pt(m, s, p)    == Entry(m, Pd(m, s, p), p[3])
Page(m, s, p)  == Entry(m, Pt(m, s, p), p[4])

\* The place of entry i of table f: a table of the kernel half may be in the
\* same slot of several PML4s, which counts as one place.
Home(P, f, i) == IF f \in P /\ i >= Half THEN Boot ELSE f

Memory == [Frames -> [Index -> Frames \cup Data \cup {Absent}]]

\* No table is in two places.
Unshared(m, u, P) ==
  \A f, g \in u, i, j \in Index :
    m[f][i] \in Frames /\ m[f][i] = m[g][j] => i = j /\ Home(P, f, i) = Home(P, g, j)

\* Tables have a level; those of level 4 hold pages, the others hold tables of
\* the next level.
Levels(m, u, P, level) ==
  /\ level \in [Frames -> 1 .. 4]
  /\ \A s \in P : level[s] = 1
  /\ \A f \in u, i \in Index : level[f] = 4 => m[f][i] \in Data \cup {Absent}
  /\ \A f \in u, i \in Index :
       level[f] # 4 /\ m[f][i] # Absent => m[f][i] \in u /\ level[m[f][i]] = level[f] + 1

\* The slots of the kernel half that the boot loader filled.
Slots == {i \in Index : i >= Half /\ BootTables[Boot][i] # Absent}

\* They are the same in all PML4s, and not empty.
Shared(m, P) ==
  \A i \in Slots : m[Boot][i] # Absent /\ \A s \in P : m[s][i] = m[Boot][i]

\* The page tables of the address spaces P, in the frames u of memory m.
Good(m, u, P, level) ==
  /\ m \in Memory /\ u \subseteq Frames /\ DOMAIN BootTables \subseteq u
  /\ P \subseteq u /\ Boot \in P
  /\ \A f \in Frames \ u : m[f] = Zero
  /\ Unshared(m, u, P) /\ Levels(m, u, P, level) /\ Shared(m, P)

TreeInv == \E level : Good(mem, used, pml4s, level)

VInv == TypeOK /\ TreeInv /\ TlbFresh

\* The indices of a page.
LEMMA PageIndices ==
  ASSUME NEW p \in Pages
  PROVE  p[1] \in Index /\ p[2] \in Index /\ p[3] \in Index /\ p[4] \in Index
BY VmmAssumption

\* Pages with the same indices are the same.
LEMMA SamePage ==
  ASSUME NEW p \in Pages, NEW q \in Pages,
         p[1] = q[1], p[2] = q[2], p[3] = q[3], p[4] = q[4]
  PROVE  p = q
BY VmmAssumption

\* Tables of the walk of a page, by level.
LEMMA WalkLevels ==
  ASSUME NEW m, NEW u, NEW P, NEW level, Good(m, u, P, level),
         NEW s \in P, NEW p \in Pages
  PROVE  /\ s \in u /\ level[s] = 1 /\ s # Absent
         /\ Pdpt(m, s, p) # Absent => Pdpt(m, s, p) \in u /\ level[Pdpt(m, s, p)] = 2
         /\ Pd(m, s, p) # Absent => Pd(m, s, p) \in u /\ level[Pd(m, s, p)] = 3
         /\ Pt(m, s, p) # Absent => Pt(m, s, p) \in u /\ level[Pt(m, s, p)] = 4
         /\ Page(m, s, p) \in Data \cup {Absent}
<1> USE PageIndices DEF Good, Levels
<1>1. s \in u /\ level[s] = 1 /\ s # Absent BY VmmAssumption
<1>2. Pdpt(m, s, p) # Absent => Pdpt(m, s, p) \in u /\ level[Pdpt(m, s, p)] = 2
  BY <1>1 DEF Pdpt, Entry
<1>3. Pd(m, s, p) # Absent => Pd(m, s, p) \in u /\ level[Pd(m, s, p)] = 3
  BY <1>2 DEF Pd, Entry
<1>4. Pt(m, s, p) # Absent => Pt(m, s, p) \in u /\ level[Pt(m, s, p)] = 4
  BY <1>3 DEF Pt, Entry
<1>5. Page(m, s, p) \in Data \cup {Absent} BY <1>4 DEF Page, Entry
<1> QED BY <1>1, <1>2, <1>3, <1>4, <1>5

\* Two entries for one table are one.
LEMMA OnePlace ==
  ASSUME NEW m, NEW u, NEW P, Unshared(m, u, P), NEW f \in u, NEW g \in u,
         NEW i \in Index, NEW j \in Index, m[f][i] \in Frames, m[f][i] = m[g][j]
  PROVE  i = j /\ Home(P, f, i) = Home(P, g, j)
BY DEF Unshared

\* A page table is that of one page's upper indices, and, in the user half, of
\* one address space.
LEMMA WalksApart ==
  ASSUME NEW m, NEW u, NEW P, NEW level, Good(m, u, P, level),
         NEW s \in P, NEW p \in Pages, NEW t \in P, NEW q \in Pages,
         Pt(m, s, p) # Absent, Pt(m, s, p) = Pt(m, t, q)
  PROVE  /\ p[1] = q[1] /\ p[2] = q[2] /\ p[3] = q[3]
         /\ p[1] >= Half \/ s = t
<1> DEFINE a1 == Pdpt(m, s, p)  b1 == Pdpt(m, t, q)
           a2 == Pd(m, s, p)    b2 == Pd(m, t, q)
           a3 == Pt(m, s, p)    b3 == Pt(m, t, q)
<1>1. p[1] \in Index /\ p[2] \in Index /\ p[3] \in Index BY PageIndices
<1>2. q[1] \in Index /\ q[2] \in Index /\ q[3] \in Index BY PageIndices
<1>a. a2 # Absent /\ a1 # Absent /\ b2 # Absent /\ b1 # Absent
  <2>1. a2 # Absent /\ b2 # Absent BY DEF Pt, Entry
  <2> QED BY <2>1 DEF Pd, Entry
<1>3. /\ a1 \in u /\ a2 \in u /\ a3 \in u /\ s \in u /\ s # Absent
      /\ level[s] = 1 /\ level[a1] = 2 /\ level[a2] = 3
  BY <1>a, WalkLevels
<1>4. /\ b1 \in u /\ b2 \in u /\ b3 \in u /\ t \in u /\ t # Absent
      /\ level[t] = 1 /\ level[b1] = 2 /\ level[b2] = 3
  BY <1>a, WalkLevels
<1>u. Unshared(m, u, P) BY DEF Good
<1>5. u \subseteq Frames /\ \A f \in P : level[f] = 1 BY DEF Good, Levels
<1>6. a1 \notin P /\ a2 \notin P /\ b1 \notin P /\ b2 \notin P BY <1>3, <1>4, <1>5
<1>7. a3 = m[a2][p[3]] /\ b3 = m[b2][q[3]] BY <1>a DEF Pt, Entry
<1>0. a3 = b3 OBVIOUS
<1>8. p[3] = q[3] /\ a2 = b2
  <2> HIDE DEF a1, a2, a3, b1, b2, b3
  <2>1. m[a2][p[3]] \in Frames /\ m[a2][p[3]] = m[b2][q[3]] BY <1>0, <1>3, <1>5, <1>7
  <2>2. p[3] = q[3] /\ Home(P, a2, p[3]) = Home(P, b2, q[3])
    BY <1>u, <1>1, <1>2, <1>3, <1>4, <2>1, OnePlace
  <2> QED BY <2>2, <1>6 DEF Home
<1>9. a2 = m[a1][p[2]] /\ b2 = m[b1][q[2]] BY <1>a DEF Pd, Entry
<1>10. p[2] = q[2] /\ a1 = b1
  <2> HIDE DEF a1, a2, a3, b1, b2, b3
  <2>1. m[a1][p[2]] \in Frames /\ m[a1][p[2]] = m[b1][q[2]] BY <1>3, <1>5, <1>8, <1>9
  <2>2. p[2] = q[2] /\ Home(P, a1, p[2]) = Home(P, b1, q[2])
    BY <1>u, <1>1, <1>2, <1>3, <1>4, <2>1, OnePlace
  <2> QED BY <2>2, <1>6 DEF Home
<1>11. a1 = m[s][p[1]] /\ b1 = m[t][q[1]]
  BY <1>3, <1>4 DEF Pdpt, Entry
<1> HIDE DEF a1, a2, a3, b1, b2, b3
<1>12. p[1] = q[1] /\ Home(P, s, p[1]) = Home(P, t, q[1])
  <2>1. m[s][p[1]] \in Frames /\ m[s][p[1]] = m[t][q[1]] BY <1>3, <1>5, <1>10, <1>11
  <2> QED BY <1>u, <1>1, <1>2, <1>3, <1>4, <2>1, OnePlace
<1> QED BY <1>8, <1>10, <1>12 DEF Home

\* All address spaces find the same tables in the kernel half.
LEMMA KernelWalk ==
  ASSUME NEW m, NEW u, NEW P, NEW level, Good(m, u, P, level),
         NEW s \in P, NEW p \in KernelPages
  PROVE  /\ Pt(m, s, p) = Pt(m, Boot, p) /\ Page(m, s, p) = Page(m, Boot, p)
         /\ Pdpt(m, s, p) # Absent
<1>1. p \in Pages BY DEF KernelPages
<1>2. p[1] \in Slots BY <1>1, PageIndices DEF KernelPages, Slots
<1>3. Boot \in P /\ s # Absent /\ Boot # Absent BY <1>1, WalkLevels DEF Good
<1>4. Pdpt(m, s, p) = Pdpt(m, Boot, p) /\ Pdpt(m, s, p) # Absent
  BY <1>2, <1>3 DEF Good, Shared, Pdpt, Entry
<1> QED BY <1>4 DEF Page, Pt, Pd

----------------------------------------------------------------------------
(* What get_next_level() does to the tables.                               *)

\* A walk, as get_page_table() passes it on.
Walk(m, u, a) == [mem |-> m, used |-> u, at |-> a]

\* Its parts.
LEMMA WalkParts ==
  ASSUME NEW m, NEW u, NEW a
  PROVE  Walk(m, u, a).mem = m /\ Walk(m, u, a).used = u /\ Walk(m, u, a).at = a
BY DEF Walk

\* Without alloc it is a lookup.
LEMMA NextLookup ==
  ASSUME NEW m, NEW u, NEW a, NEW i
  PROVE  GetNextLevel(Walk(m, u, a), i, FALSE) = Walk(m, u, Entry(m, a, i))
BY DEF GetNextLevel, Walk, Entry

\* The translation the processor finds is the page at the end of the walk.
LEMMA TranslateIs ==
  ASSUME NEW s, NEW p
  PROVE  /\ GetPageTable(s, p, FALSE) = Walk(mem, used, Pt(mem, s, p))
         /\ Translate(s, p) = Page(mem, s, p)
<1>1. GetPageTable(s, p, FALSE) = Walk(mem, used, Pt(mem, s, p))
  <2>1. GetPageTable(s, p, FALSE) =
          GetNextLevel(GetNextLevel(GetNextLevel(
            Walk(mem, used, s), p[1], FALSE), p[2], FALSE), p[3], FALSE)
    BY Zenon DEF GetPageTable, Walk
  <2>2. GetNextLevel(Walk(mem, used, s), p[1], FALSE) = Walk(mem, used, Pdpt(mem, s, p))
    BY NextLookup DEF Pdpt
  <2>3. GetNextLevel(Walk(mem, used, Pdpt(mem, s, p)), p[2], FALSE)
          = Walk(mem, used, Pd(mem, s, p))
    BY NextLookup DEF Pd
  <2>4. GetNextLevel(Walk(mem, used, Pd(mem, s, p)), p[3], FALSE)
          = Walk(mem, used, Pt(mem, s, p))
    BY NextLookup DEF Pt
  <2> QED BY <2>1, <2>2, <2>3, <2>4
<1>2. GetPageTable(s, p, FALSE).at = Pt(mem, s, p)
  <2>1. Walk(mem, used, Pt(mem, s, p)).at = Pt(mem, s, p) BY WalkParts
  <2> QED BY <1>1, <2>1
<1> QED BY <1>1, <1>2 DEF Translate, Page, Entry

\* pmm_alloc() returns a frame that is free.
LEMMA AllocIs ==
  ASSUME NEW u, Frames \ u # {}
  PROVE  PmmAlloc(u) \in Frames \ u
<1> DEFINE S == Frames \ u
<1>1. S \in SUBSET Nat /\ S # {} BY VmmAssumption
<1>2. \E x \in S : \A y \in S : ~(<<y, x>> \in OpToRel(<, Nat))
  BY <1>1, NatLessThanWellFounded, WFMin
<1>3. \A x \in S, y \in S : ~(<<y, x>> \in OpToRel(<, Nat)) => x <= y
  BY <1>1 DEF OpToRel
<1>4. \E x \in S : \A y \in S : x <= y BY <1>2, <1>3
<1> QED BY <1>4 DEF PmmAlloc

\* n frames are free.
Free(u, n) == Cardinality(Frames \ u) >= n

\* Each allocation takes one.
LEMMA FreeDown ==
  ASSUME NEW u, NEW n \in Nat, Free(u, n + 1)
  PROVE  Frames \ u # {} /\ \A f \in Frames \ u : Free(u \cup {f}, n)
<1>1. IsFiniteSet(Frames \ u) BY VmmAssumption, FS_Difference
<1>2. Cardinality(Frames \ u) \in Nat BY <1>1, FS_CardinalityType
<1>3. Frames \ u # {} BY <1>2, FS_EmptySet DEF Free
<1>4. ASSUME NEW f \in Frames \ u PROVE Free(u \cup {f}, n)
  <2>1. Frames \ (u \cup {f}) = (Frames \ u) \ {f} OBVIOUS
  <2>2. Cardinality((Frames \ u) \ {f}) = Cardinality(Frames \ u) - 1
    BY <1>1, <1>4, FS_RemoveElement
  <2> QED BY <1>2, <2>1, <2>2 DEF Free
<1> QED BY <1>3, <1>4

\* The step from entry i of table a leads to a table b that is there in the
\* memory m2, and no page has changed.
Made(m, u, P, level, a, i, n, m2, u2, l2, b) ==
  /\ GetNextLevel(Walk(m, u, a), i, TRUE) = Walk(m2, u2, b)
  /\ Good(m2, u2, P, l2) /\ Free(u2, n) /\ u \subseteq u2
  /\ b \in u2 /\ b = m2[a][i] /\ l2[b] = level[a] + 1 /\ b # Absent
  /\ \A g \in u : l2[g] = level[g]
  /\ \A g \in u, j \in Index : m[g][j] # Absent => m2[g][j] = m[g][j]
  /\ \A s \in P, p \in Pages : Page(m2, s, p) = Page(m, s, p)

\* With alloc it makes the table that is missing, and no page changes.
LEMMA NextMakes ==
  ASSUME NEW m, NEW u, NEW P, NEW level, Good(m, u, P, level),
         NEW a \in u, level[a] < 4, NEW i \in Index,
         NEW n \in Nat, Free(u, n + 1)
  PROVE  \E m2, u2, l2, b : Made(m, u, P, level, a, i, n, m2, u2, l2, b)
<1>t. /\ m \in Memory /\ u \subseteq Frames /\ DOMAIN BootTables \subseteq u
      /\ P \subseteq u /\ Boot \in P
      /\ \A f \in Frames \ u : m[f] = Zero
      /\ level \in [Frames -> 1 .. 4]
      /\ Unshared(m, u, P) /\ Levels(m, u, P, level) /\ Shared(m, P)
  BY DEF Good, Levels
<1>a. a # Absent /\ a \in Frames /\ level[a] # 4 BY <1>t, VmmAssumption
<1>f. PICK f \in Frames \ u : f = PmmAlloc(u) /\ Free(u \cup {f}, n)
  BY FreeDown, AllocIs
<1>1. CASE m[a][i] # Absent
  <2>1. GetNextLevel(Walk(m, u, a), i, TRUE) = Walk(m, u, m[a][i])
    BY <1>a, <1>1 DEF GetNextLevel, Walk
  <2>2. m[a][i] \in u /\ level[m[a][i]] = level[a] + 1 BY <1>t, <1>a, <1>1 DEF Levels
  <2>3. Free(u, n)
    <3>1. IsFiniteSet(Frames \ u) BY VmmAssumption, FS_Difference
    <3>2. Cardinality(Frames \ u) \in Nat BY <3>1, FS_CardinalityType
    <3> QED BY <3>2 DEF Free
  <2>4. Made(m, u, P, level, a, i, n, m, u, level, m[a][i])
    BY <1>1, <2>1, <2>2, <2>3 DEF Made
  <2> QED BY <2>4
<1>2. CASE m[a][i] = Absent
  <2> DEFINE mm == [m EXCEPT ![a][i] = f]
             uu == u \cup {f}
             ll == [level EXCEPT ![f] = level[a] + 1]
  <2>1. GetNextLevel(Walk(m, u, a), i, TRUE) = Walk(mm, uu, f)
    BY <1>a, <1>f, <1>2 DEF GetNextLevel, Walk
  <2>2. /\ mm \in Memory /\ mm[a][i] = f
        /\ \A g \in Frames, j \in Index :
             mm[g][j] = IF g = a /\ j = i THEN f ELSE m[g][j]
        /\ \A g \in Frames : g # a => mm[g] = m[g]
    BY <1>t, <1>a DEF Memory
  <2>3. /\ ll \in [Frames -> 1 .. 4] /\ ll[f] = level[a] + 1
        /\ \A g \in Frames : g # f => ll[g] = level[g]
    BY <1>t, <1>a
  <2>4. f # Absent /\ f # a /\ f \notin P /\ f \notin Data /\ m[f] = Zero /\ a \in Frames
    BY <1>t, <1>a, VmmAssumption
  <2>5. \A j \in Index : mm[f][j] = Absent /\ m[f][j] = Absent BY <2>2, <2>4 DEF Zero
  <2> HIDE DEF mm, ll
  <2>6. \A g \in u, j \in Index : m[g][j] # f
    BY <1>t, <2>4 DEF Levels
  <2>7. Unshared(mm, uu, P)
    <3> SUFFICES ASSUME NEW g \in uu, NEW h \in uu, NEW j \in Index, NEW k \in Index,
                        mm[g][j] \in Frames, mm[g][j] = mm[h][k]
                 PROVE  j = k /\ Home(P, g, j) = Home(P, h, k)
      BY DEF Unshared
    <3>1. g \in u /\ h \in u BY <1>t, <2>5, VmmAssumption
    <3>2. CASE mm[g][j] = f
      <4>1. \A x \in u, y \in Index : mm[x][y] = f => x = a /\ y = i
        BY <1>t, <2>2, <2>6
      <4>2. mm[h][k] = f BY <3>2
      <4>3. g = a /\ j = i BY <3>1, <3>2, <4>1
      <4>4. h = a /\ k = i BY <3>1, <4>1, <4>2
      <4> QED BY <4>3, <4>4
    <3>3. CASE mm[g][j] # f
      <4>1. m[g][j] \in Frames /\ m[g][j] = m[h][k] BY <1>t, <2>2, <3>1, <3>3
      <4> QED BY <1>t, <3>1, <4>1, OnePlace
    <3> QED BY <3>2, <3>3
  <2>8. Levels(mm, uu, P, ll)
    <3>1. \A s \in P : ll[s] = 1 BY <1>t, <2>3, <2>4 DEF Levels
    <3>2. ASSUME NEW g \in uu, NEW j \in Index
          PROVE  /\ ll[g] = 4 => mm[g][j] \in Data \cup {Absent}
                 /\ ll[g] # 4 /\ mm[g][j] # Absent =>
                      mm[g][j] \in uu /\ ll[mm[g][j]] = ll[g] + 1
      <4>1. CASE g = f BY <2>5, <4>1
      <4>2. CASE g = a /\ j = i
        <5>1. mm[g][j] = f /\ ll[g] = level[a] /\ f \in uu BY <2>2, <2>3, <2>4, <4>2
        <5> QED BY <1>a, <2>3, <5>1
      <4>3. CASE g \in u /\ ~(g = a /\ j = i)
        <5>1. mm[g][j] = m[g][j] /\ ll[g] = level[g] BY <1>t, <2>2, <2>3, <4>3
        <5>2. level[g] = 4 => m[g][j] \in Data \cup {Absent} BY <1>t, <4>3 DEF Levels
        <5>3. level[g] # 4 /\ m[g][j] # Absent =>
                m[g][j] \in u /\ level[m[g][j]] = level[g] + 1
          BY <1>t, <4>3 DEF Levels
        <5>4. m[g][j] \in u => ll[m[g][j]] = level[m[g][j]] BY <1>t, <2>3
        <5> QED BY <5>1, <5>2, <5>3, <5>4
      <4> QED BY <4>1, <4>2, <4>3
    <3> QED BY <2>3, <3>1, <3>2 DEF Levels
  <2>9. Shared(mm, P)
    <3>1. \A s \in P, j \in Slots : m[s][j] # Absent BY <1>t DEF Shared
    <3>2. \A s \in P, j \in Slots : mm[s][j] = m[s][j]
      BY <1>t, <1>2, <2>2, <3>1 DEF Slots
    <3> QED BY <1>t, <3>2 DEF Shared
  <2>10. \A g \in Frames \ uu : mm[g] = Zero BY <1>t, <2>2
  <2>11. Good(mm, uu, P, ll) BY <1>t, <2>2, <2>7, <2>8, <2>9, <2>10 DEF Good
  <2>12. ASSUME NEW s \in P, NEW p \in Pages PROVE Page(mm, s, p) = Page(m, s, p)
    <3>1. p[1] \in Index /\ p[2] \in Index /\ p[3] \in Index /\ p[4] \in Index BY PageIndices
    <3>2. \A t \in u, j \in Index :
            mm[t][j] = m[t][j] \/ (m[t][j] = Absent /\ mm[t][j] = f)
      BY <1>t, <1>2, <2>2
    <3>3. \/ Pdpt(mm, s, p) = Pdpt(m, s, p)
          \/ Pdpt(m, s, p) = Absent /\ Pdpt(mm, s, p) = f
      BY <3>1, <3>2, WalkLevels DEF Pdpt, Entry
    <3>4. \/ Pd(mm, s, p) = Pd(m, s, p)
          \/ Pd(m, s, p) = Absent /\ Pd(mm, s, p) = f
      <4>1. Pdpt(m, s, p) = Absent \/ Pdpt(m, s, p) \in u BY WalkLevels
      <4> QED BY <2>4, <2>5, <3>1, <3>2, <3>3, <4>1 DEF Pd, Entry
    <3>5. \/ Pt(mm, s, p) = Pt(m, s, p)
          \/ Pt(m, s, p) = Absent /\ Pt(mm, s, p) = f
      <4>1. Pd(m, s, p) = Absent \/ Pd(m, s, p) \in u BY WalkLevels
      <4> QED BY <2>4, <2>5, <3>1, <3>2, <3>4, <4>1 DEF Pt, Entry
    <3>6. Pt(m, s, p) = Absent \/ (Pt(m, s, p) \in u /\ Pt(m, s, p) # a)
      BY <1>a, WalkLevels
    <3> QED BY <1>t, <2>2, <2>4, <2>5, <3>1, <3>5, <3>6 DEF Page, Entry
  <2>13. \A g \in u : ll[g] = level[g] BY <1>t, <2>3
  <2>14. \A g \in u, j \in Index : m[g][j] # Absent => mm[g][j] = m[g][j]
    BY <1>t, <1>2, <2>2
  <2>15. f \in uu /\ u \subseteq uu /\ Free(uu, n) BY <1>f
  <2> HIDE DEF uu
  <2>16. Made(m, u, P, level, a, i, n, mm, uu, ll, f)
    BY <2>1, <2>2, <2>3, <2>4, <2>11, <2>12, <2>13, <2>14, <2>15 DEF Made
  <2> QED BY <2>16
<1> QED BY <1>1, <1>2

\* get_page_table() with alloc ends at the page table b of the page, in memory
\* m2, and no page has changed.
Walked(s, p, m2, u2, l2, b) ==
  /\ GetPageTable(s, p, TRUE) = Walk(m2, u2, b)
  /\ Good(m2, u2, pml4s, l2) /\ used \subseteq u2
  /\ b = Pt(m2, s, p) /\ b # Absent
  /\ \A t \in pml4s, q \in Pages : Page(m2, t, q) = Page(mem, t, q)

\* It does so from any page tables.
LEMMA WalkMakes ==
  ASSUME NEW level, Good(mem, used, pml4s, level), NEW s \in pml4s, NEW p \in Pages,
         EnoughFrames(3)
  PROVE  \E m2, u2, l2, b : Walked(s, p, m2, u2, l2, b)
<1>i. p[1] \in Index /\ p[2] \in Index /\ p[3] \in Index BY PageIndices
<1>0. /\ s \in used /\ level[s] = 1 /\ s # Absent /\ pml4s \subseteq used
      /\ \A t \in pml4s : level[t] = 1
  BY WalkLevels DEF Good, Levels
<1>f. Free(used, 3) BY DEF Free, EnoughFrames
<1>1. PICK m1, u1, l1, b1 : Made(mem, used, pml4s, level, s, p[1], 2, m1, u1, l1, b1)
  <2>1. Free(used, 2 + 1) BY <1>f
  <2>2. level[s] < 4 BY <1>0
  <2> QED BY <1>0, <1>i, <2>1, <2>2, NextMakes
<1>2. /\ Good(m1, u1, pml4s, l1) /\ Free(u1, 1 + 1) /\ used \subseteq u1
      /\ b1 \in u1 /\ b1 = m1[s][p[1]] /\ l1[b1] = 2 /\ b1 # Absent
      /\ \A t \in pml4s : l1[t] = 1
  BY <1>0, <1>1 DEF Made
<1>3. PICK m2, u2, l2, b2 : Made(m1, u1, pml4s, l1, b1, p[2], 1, m2, u2, l2, b2)
  <2>1. b1 \notin pml4s /\ l1[b1] < 4 BY <1>2
  <2> QED BY <1>2, <1>i, <2>1, NextMakes
<1>4. /\ Good(m2, u2, pml4s, l2) /\ Free(u2, 0 + 1) /\ u1 \subseteq u2
      /\ b2 \in u2 /\ b2 = m2[b1][p[2]] /\ l2[b2] = 3 /\ b2 # Absent
      /\ \A t \in pml4s : l2[t] = 1
      /\ m2[s][p[1]] = b1
  <2>1. pml4s \subseteq u1 BY <1>0, <1>2
  <2> QED BY <1>0, <1>2, <1>3, <1>i, <2>1 DEF Made
<1>5. PICK m3, u3, l3, b3 : Made(m2, u2, pml4s, l2, b2, p[3], 0, m3, u3, l3, b3)
  <2>1. b2 \notin pml4s /\ l2[b2] < 4 BY <1>4
  <2> QED BY <1>4, <1>i, <2>1, NextMakes
<1>6. /\ Good(m3, u3, pml4s, l3) /\ u2 \subseteq u3
      /\ b3 = m3[b2][p[3]] /\ b3 # Absent
      /\ m3[s][p[1]] = b1 /\ m3[b1][p[2]] = b2
  <2>1. s \in u2 /\ b1 \in u2 BY <1>0, <1>2, <1>4
  <2> QED BY <1>2, <1>4, <1>5, <1>i, <2>1 DEF Made
<1>7. Pdpt(m3, s, p) = b1 BY <1>0, <1>6 DEF Pdpt, Entry
<1>8. Pd(m3, s, p) = b2 BY <1>2, <1>6, <1>7 DEF Pd, Entry
<1>9. Pt(m3, s, p) = b3 BY <1>4, <1>6, <1>8 DEF Pt, Entry
<1>10. \A t \in pml4s, q \in Pages : Page(m3, t, q) = Page(mem, t, q)
  <2>1. \A t \in pml4s, q \in Pages : Page(m1, t, q) = Page(mem, t, q) BY <1>1 DEF Made
  <2>2. \A t \in pml4s, q \in Pages : Page(m2, t, q) = Page(m1, t, q) BY <1>3 DEF Made
  <2>3. \A t \in pml4s, q \in Pages : Page(m3, t, q) = Page(m2, t, q) BY <1>5 DEF Made
  <2> QED BY <2>1, <2>2, <2>3
<1>11. GetPageTable(s, p, TRUE) = Walk(m3, u3, b3)
  <2>1. GetPageTable(s, p, TRUE) =
          GetNextLevel(GetNextLevel(GetNextLevel(
            Walk(mem, used, s), p[1], TRUE), p[2], TRUE), p[3], TRUE)
    BY Zenon DEF GetPageTable, Walk
  <2>2. GetNextLevel(Walk(mem, used, s), p[1], TRUE) = Walk(m1, u1, b1) BY <1>1 DEF Made
  <2>3. GetNextLevel(Walk(m1, u1, b1), p[2], TRUE) = Walk(m2, u2, b2) BY <1>3 DEF Made
  <2>4. GetNextLevel(Walk(m2, u2, b2), p[3], TRUE) = Walk(m3, u3, b3) BY <1>5 DEF Made
  <2> QED BY <2>1, <2>2, <2>3, <2>4
<1>12. Walked(s, p, m3, u3, l3, b3)
  BY <1>2, <1>4, <1>6, <1>9, <1>10, <1>11 DEF Walked
<1> QED BY <1>12

\* Writing an entry of the page table of a page changes that page, in that
\* address space only if it is one of the user half, and in all of them if its
\* slot is one the boot loader filled.
Written(m, m2, P, s, p, v) ==
  \A t \in P, q \in Pages :
    /\ q # p \/ (t # s /\ p \in UserPages) => Page(m2, t, q) = Page(m, t, q)
    /\ q = p /\ (t = s \/ p \in KernelPages) => Page(m2, t, q) = v

LEMMA WriteEntry ==
  ASSUME NEW m, NEW u, NEW P, NEW level, Good(m, u, P, level),
         NEW s \in P, NEW p \in Pages, NEW b, b = Pt(m, s, p), b # Absent,
         NEW v \in Data \cup {Absent}, NEW m2, m2 = [m EXCEPT ![b][p[4]] = v]
  PROVE  Good(m2, u, P, level) /\ Written(m, m2, P, s, p, v)
<1>t. /\ m \in Memory /\ u \subseteq Frames /\ DOMAIN BootTables \subseteq u
      /\ P \subseteq u /\ Boot \in P
      /\ \A f \in Frames \ u : m[f] = Zero
      /\ level \in [Frames -> 1 .. 4]
      /\ Unshared(m, u, P) /\ Levels(m, u, P, level) /\ Shared(m, P)
      /\ \A t \in P : level[t] = 1
  BY DEF Good, Levels
<1>b. b \in u /\ level[b] = 4 /\ b \in Frames /\ b \notin P BY <1>t, WalkLevels
<1>i. p[4] \in Index BY PageIndices
<1>1. /\ m2 \in Memory
      /\ \A g \in Frames, j \in Index :
           m2[g][j] = IF g = b /\ j = p[4] THEN v ELSE m[g][j]
      /\ \A g \in Frames : g # b => m2[g] = m[g]
  BY <1>t, <1>b, <1>i DEF Memory
<1>2. v \notin Frames BY VmmAssumption
<1>3. Unshared(m2, u, P)
  <2> SUFFICES ASSUME NEW f \in u, NEW g \in u, NEW i \in Index, NEW j \in Index,
                      m2[f][i] \in Frames, m2[f][i] = m2[g][j]
               PROVE  i = j /\ Home(P, f, i) = Home(P, g, j)
    BY DEF Unshared
  <2>1. m[f][i] \in Frames /\ m[f][i] = m[g][j] BY <1>t, <1>1, <1>2
  <2> QED BY <1>t, <2>1, OnePlace
<1>4. Levels(m2, u, P, level)
  <2>1. \A f \in u, i \in Index : level[f] # 4 => m2[f][i] = m[f][i]
    BY <1>t, <1>b, <1>1
  <2>2. \A f \in u, i \in Index : level[f] = 4 => m2[f][i] \in Data \cup {Absent}
    BY <1>t, <1>b, <1>1 DEF Levels
  <2> QED BY <1>t, <2>1, <2>2 DEF Levels
<1>5. Shared(m2, P)
  <2>1. \A t \in P : m2[t] = m[t] BY <1>t, <1>b, <1>1
  <2> QED BY <1>t, <2>1 DEF Shared
<1>6. Good(m2, u, P, level) BY <1>t, <1>b, <1>1, <1>3, <1>4, <1>5 DEF Good
<1>7. ASSUME NEW t \in P, NEW q \in Pages
      PROVE  /\ q # p \/ (t # s /\ p \in UserPages) => Page(m2, t, q) = Page(m, t, q)
             /\ q = p /\ (t = s \/ p \in KernelPages) => Page(m2, t, q) = v
  <2>i. q[1] \in Index /\ q[2] \in Index /\ q[3] \in Index /\ q[4] \in Index BY PageIndices
  <2>1. \A f \in u : level[f] # 4 => m2[f] = m[f] BY <1>t, <1>b, <1>1
  <2>2. Pdpt(m2, t, q) = Pdpt(m, t, q) BY <2>1, WalkLevels DEF Pdpt, Entry
  <2>3. Pd(m2, t, q) = Pd(m, t, q)
    <3>1. Pdpt(m, t, q) # Absent => m2[Pdpt(m, t, q)] = m[Pdpt(m, t, q)] BY <2>1, WalkLevels
    <3> QED BY <2>2, <3>1 DEF Pd, Entry
  <2>4. Pt(m2, t, q) = Pt(m, t, q)
    <3>1. Pd(m, t, q) # Absent => m2[Pd(m, t, q)] = m[Pd(m, t, q)] BY <2>1, WalkLevels
    <3> QED BY <2>3, <3>1 DEF Pt, Entry
  <2>5. Pt(m, t, q) # Absent => Pt(m, t, q) \in Frames BY <1>t, WalkLevels
  <2>6. CASE Pt(m, t, q) = b /\ q[4] = p[4]
    <3>1. p[1] = q[1] /\ p[2] = q[2] /\ p[3] = q[3] /\ (p[1] >= Half \/ s = t)
      BY <2>6, WalksApart
    <3>2. q = p BY <2>6, <3>1, SamePage
    <3>3. t = s \/ p \notin UserPages
      <4>1. Half \in Nat /\ p[1] \in Nat BY PageIndices, VmmAssumption
      <4> QED BY <3>1, <4>1 DEF UserPages
    <3>4. Page(m2, t, q) = v
      <4>1. Page(m2, t, q) = m2[b][q[4]] BY <2>4, <2>6 DEF Page, Entry
      <4>2. m2[b][p[4]] = v BY <1>1, <1>b, <1>i
      <4> QED BY <2>6, <4>1, <4>2
    <3> QED BY <3>2, <3>3, <3>4
  <2>7. CASE ~(Pt(m, t, q) = b /\ q[4] = p[4])
    <3>1. Page(m2, t, q) = Page(m, t, q) BY <1>1, <2>4, <2>5, <2>7, <2>i DEF Page, Entry
    <3>2. q = p /\ p \in KernelPages => Pt(m, t, q) = b
      <4>1. ASSUME q = p, p \in KernelPages PROVE Pt(m, t, q) = b
        BY <4>1, KernelWalk
      <4> QED BY <4>1
    <3>3. ~(q = p /\ (t = s \/ p \in KernelPages)) BY <2>7, <3>2
    <3> QED BY <3>1, <3>3
  <2> QED BY <2>6, <2>7
<1> QED BY <1>6, <1>7 DEF Written

----------------------------------------------------------------------------
(* The actions.                                                            *)

\* vmm_map_page() maps the page, and changes no other one.
LEMMA MapStep ==
  ASSUME NEW level, Good(mem, used, pml4s, level), NEW s \in pml4s, NEW p \in Pages,
         NEW d \in Data, VmmMapPage(s, p, d)
  PROVE  /\ \E l2 : Good(mem', used', pml4s, l2)
         /\ Written(mem, mem', pml4s, s, p, d)
<1>1. PICK m2, u2, l2, b : Walked(s, p, m2, u2, l2, b) BY WalkMakes DEF VmmMapPage
<1>2. GetPageTable(s, p, TRUE) = Walk(m2, u2, b) BY <1>1 DEF Walked
<1>3. mem' = [m2 EXCEPT ![b][p[4]] = d] /\ used' = u2
  <2>1. LET w == GetPageTable(s, p, TRUE) IN w.mem = m2 /\ w.used = u2 /\ w.at = b
    <3>1. LET w == Walk(m2, u2, b) IN w.mem = m2 /\ w.used = u2 /\ w.at = b BY WalkParts
    <3> QED BY <1>2, <3>1
  <2> QED BY <2>1 DEF VmmMapPage
<1>4. Good(m2, u2, pml4s, l2) /\ b = Pt(m2, s, p) /\ b # Absent BY <1>1 DEF Walked
<1>5. PICK m3 : m3 = mem' OBVIOUS
<1>6. Good(m3, u2, pml4s, l2) /\ Written(m2, m3, pml4s, s, p, d)
  BY <1>3, <1>4, <1>5, WriteEntry
<1>7. \A t \in pml4s, q \in Pages : Page(m2, t, q) = Page(mem, t, q) BY <1>1 DEF Walked
<1>8. Written(mem, m3, pml4s, s, p, d) BY <1>6, <1>7 DEF Written
<1> QED BY <1>3, <1>5, <1>6, <1>8

\* vmm_unmap_page() unmaps it, and changes no other one.
LEMMA UnmapStep ==
  ASSUME NEW level, Good(mem, used, pml4s, level), NEW s \in pml4s, NEW p \in Pages,
         VmmUnmapPage(s, p)
  PROVE  /\ Good(mem', used', pml4s, level)
         /\ Written(mem, mem', pml4s, s, p, Absent)
<1>1. GetPageTable(s, p, FALSE) = Walk(mem, used, Pt(mem, s, p)) BY TranslateIs
<1>2. /\ Pt(mem, s, p) # Absent /\ used' = used
      /\ mem' = [mem EXCEPT ![Pt(mem, s, p)][p[4]] = Absent]
  <2>0. Walk(mem, used, Pt(mem, s, p)).at = Pt(mem, s, p) BY WalkParts
  <2>1. GetPageTable(s, p, FALSE).at = Pt(mem, s, p) BY <1>1, <2>0
  <2> QED BY <2>1 DEF VmmUnmapPage
<1>3. PICK m3, b : m3 = mem' /\ b = Pt(mem, s, p) OBVIOUS
<1>4. Good(m3, used, pml4s, level) /\ Written(mem, m3, pml4s, s, p, Absent)
  BY <1>2, <1>3, WriteEntry
<1> QED BY <1>2, <1>3, <1>4

\* vmm_get_phys() changes no page, whatever tables it makes.
LEMMA PhysStep ==
  ASSUME NEW level, Good(mem, used, pml4s, level), cr3 \in pml4s, NEW p \in Pages,
         VmmGetPhys(p)
  PROVE  /\ \E l2 : Good(mem', used', pml4s, l2)
         /\ \A t \in pml4s, q \in Pages : Page(mem', t, q) = Page(mem, t, q)
<1>0. PICK s \in pml4s : s = cr3 OBVIOUS
<1>1. PICK m2, u2, l2, b : Walked(s, p, m2, u2, l2, b) BY WalkMakes DEF VmmGetPhys
<1>2. GetPageTable(cr3, p, TRUE) = Walk(m2, u2, b) BY <1>0, <1>1 DEF Walked
<1>3. mem' = m2 /\ used' = u2
  <2>1. LET w == GetPageTable(cr3, p, TRUE) IN w.mem = m2 /\ w.used = u2
    <3>1. LET w == Walk(m2, u2, b) IN w.mem = m2 /\ w.used = u2 BY WalkParts
    <3> QED BY <1>2, <3>1
  <2> QED BY <2>1 DEF VmmGetPhys
<1> QED BY <1>1, <1>3 DEF Walked

\* vmm_make_pml4() adds an address space with an empty user half.
LEMMA MakeStep ==
  ASSUME NEW level, Good(mem, used, pml4s, level), old_pml4 \in pml4s \cup {Absent},
         cr3 \in pml4s, VmmMakePml4, ZeroFrames
  PROVE  /\ \E l2 : Good(mem', used', pml4s', l2)
         /\ \A t \in pml4s, q \in Pages : Page(mem', t, q) = Page(mem, t, q)
         /\ \E new \in Frames \ used :
              /\ pml4s' = pml4s \cup {new}
              /\ \A q \in UserPages : Page(mem', new, q) = Absent
<1>t. /\ mem \in Memory /\ used \subseteq Frames /\ DOMAIN BootTables \subseteq used
      /\ pml4s \subseteq used /\ Boot \in pml4s
      /\ \A f \in Frames \ used : mem[f] = Zero
      /\ level \in [Frames -> 1 .. 4]
      /\ Unshared(mem, used, pml4s) /\ Levels(mem, used, pml4s, level) /\ Shared(mem, pml4s)
      /\ \A t \in pml4s : level[t] = 1
  BY DEF Good, Levels
<1>f. Frames \ used # {}
  <2>1. Free(used, 0 + 1) BY DEF VmmMakePml4, EnoughFrames, Free
  <2> QED BY <2>1, FreeDown
<1>n. PICK new \in Frames \ used : new = PmmAlloc(used) BY <1>f, AllocIs
<1>o. PICK old \in pml4s : old = IF old_pml4 = Absent THEN cr3 ELSE old_pml4 OBVIOUS
<1>1. /\ used' = used \cup {new} /\ pml4s' = pml4s \cup {new}
      /\ mem' = [mem EXCEPT ![new] =
                   [i \in Index |-> IF i >= Half THEN mem[old][i]
                                   ELSE IF i < ClearedTo THEN Absent ELSE mem[new][i]]]
  BY <1>n, <1>o DEF VmmMakePml4, Copied
<1>2. PICK m2, u2, P2 : m2 = mem' /\ u2 = used' /\ P2 = pml4s' OBVIOUS
<1>3. /\ m2 \in Memory
      /\ \A f \in Frames : f # new => m2[f] = mem[f]
      /\ \A i \in Index : m2[new][i] = IF i >= Half THEN mem[old][i] ELSE Absent
  <2>1. mem[new] = Zero BY <1>t
  <2>2. old \in Frames BY <1>t
  <2>3. [i \in Index |-> IF i >= Half THEN mem[old][i]
                         ELSE IF i < ClearedTo THEN Absent ELSE mem[new][i]]
          \in [Index -> Frames \cup Data \cup {Absent}]
    BY <1>t, <2>2 DEF Memory
  <2>4. m2 \in Memory BY <1>1, <1>2, <1>t, <2>3 DEF Memory
  <2>5. \A f \in Frames : f # new => m2[f] = mem[f] BY <1>1, <1>2, <1>t DEF Memory
  <2>6. m2[new] = [i \in Index |-> IF i >= Half THEN mem[old][i]
                                   ELSE IF i < ClearedTo THEN Absent ELSE mem[new][i]]
    BY <1>1, <1>2, <1>t DEF Memory
  <2>7. \A i \in Index : m2[new][i] = IF i >= Half THEN mem[old][i] ELSE Absent
    BY <2>1, <2>6 DEF Zero
  <2> QED BY <2>4, <2>5, <2>7
<1>4. PICK l2 : l2 = [level EXCEPT ![new] = 1] OBVIOUS
<1>5. l2 \in [Frames -> 1 .. 4] /\ l2[new] = 1 /\ \A f \in Frames : f # new => l2[f] = level[f]
  BY <1>4, <1>t
<1>6. /\ new # Absent /\ new \notin Data /\ new \notin pml4s /\ Boot # new
      /\ old # new /\ old \in used
  BY <1>t, VmmAssumption
<1>7. Unshared(m2, u2, P2)
  <2> SUFFICES ASSUME NEW f \in u2, NEW g \in u2, NEW i \in Index, NEW j \in Index,
                      m2[f][i] \in Frames, m2[f][i] = m2[g][j]
               PROVE  i = j /\ Home(P2, f, i) = Home(P2, g, j)
    BY DEF Unshared
  <2>1. ASSUME NEW h \in u2, NEW k \in Index, m2[h][k] \in Frames
        PROVE  \E e \in used : /\ m2[h][k] = mem[e][k]
                               /\ Home(P2, h, k) = Home(pml4s, e, k)
    <3>1. CASE h = new
      <4>1. k >= Half /\ m2[h][k] = mem[old][k] BY <1>3, <2>1, <3>1, VmmAssumption
      <4>2. Home(P2, h, k) = Boot /\ Home(pml4s, old, k) = Boot
        BY <1>1, <1>2, <1>t, <3>1, <4>1 DEF Home
      <4> QED BY <1>6, <4>1, <4>2
    <3>2. CASE h # new
      <4>1. h \in used BY <1>1, <1>2, <3>2
      <4>2. m2[h][k] = mem[h][k] BY <1>3, <1>t, <3>2, <4>1
      <4>3. Home(P2, h, k) = Home(pml4s, h, k) BY <1>1, <1>2, <3>2 DEF Home
      <4> QED BY <4>1, <4>2, <4>3
    <3> QED BY <3>1, <3>2
  <2>2. PICK a \in used : m2[f][i] = mem[a][i] /\ Home(P2, f, i) = Home(pml4s, a, i) BY <2>1
  <2>3. PICK b \in used : m2[g][j] = mem[b][j] /\ Home(P2, g, j) = Home(pml4s, b, j) BY <2>1
  <2>4. mem[a][i] \in Frames /\ mem[a][i] = mem[b][j] BY <2>2, <2>3
  <2>5. i = j /\ Home(pml4s, a, i) = Home(pml4s, b, j) BY <1>t, <2>4, OnePlace
  <2> QED BY <2>2, <2>3, <2>5
<1>8. Levels(m2, u2, P2, l2)
  <2>1. \A s \in P2 : l2[s] = 1 BY <1>1, <1>2, <1>5, <1>t
  <2>2. ASSUME NEW f \in u2, NEW i \in Index
        PROVE  /\ l2[f] = 4 => m2[f][i] \in Data \cup {Absent}
               /\ l2[f] # 4 /\ m2[f][i] # Absent => m2[f][i] \in u2 /\ l2[m2[f][i]] = l2[f] + 1
    <3> DEFINE e == IF f = new THEN old ELSE f
    <3>1. e \in used /\ level[e] = l2[f] BY <1>1, <1>2, <1>5, <1>6, <1>t
    <3>2. m2[f][i] = mem[e][i] \/ m2[f][i] = Absent BY <1>3, <1>1, <1>2, <1>t
    <3>3. /\ level[e] = 4 => mem[e][i] \in Data \cup {Absent}
          /\ level[e] # 4 /\ mem[e][i] # Absent =>
               mem[e][i] \in used /\ level[mem[e][i]] = level[e] + 1
      BY <1>t, <3>1 DEF Levels
    <3> HIDE DEF e
    <3>4. mem[e][i] \in used => mem[e][i] \in u2 /\ l2[mem[e][i]] = level[mem[e][i]]
      BY <1>1, <1>2, <1>5, <1>t
    <3> QED BY <3>1, <3>2, <3>3, <3>4
  <2> QED BY <1>5, <2>1, <2>2 DEF Levels
<1>9. Shared(m2, P2)
  <2>1. m2[Boot] = mem[Boot] BY <1>3, <1>6, <1>t
  <2>2. \A s \in pml4s : m2[s] = mem[s] BY <1>3, <1>6, <1>t
  <2>3. \A i \in Slots : m2[new][i] = mem[old][i] BY <1>3 DEF Slots
  <2>4. \A i \in Slots, s \in P2 : m2[s][i] = mem[Boot][i]
    <3>1. \A i \in Slots, s \in pml4s : mem[s][i] = mem[Boot][i] BY <1>t DEF Shared
    <3>2. \A i \in Slots : m2[new][i] = mem[Boot][i] BY <2>3, <3>1
    <3>3. \A i \in Slots, s \in pml4s : m2[s][i] = mem[Boot][i] BY <2>2, <3>1
    <3>4. P2 = pml4s \cup {new} BY <1>1, <1>2
    <3> QED BY <3>2, <3>3, <3>4
  <2> QED BY <1>t, <2>1, <2>4 DEF Shared
<1>10. Good(m2, u2, P2, l2)
  <2>1. /\ u2 \subseteq Frames /\ DOMAIN BootTables \subseteq u2
        /\ P2 \subseteq u2 /\ Boot \in P2
        /\ \A f \in Frames \ u2 : m2[f] = Zero
    BY <1>1, <1>2, <1>3, <1>t
  <2> QED BY <1>3, <1>7, <1>8, <1>9, <2>1 DEF Good
<1>11. ASSUME NEW t \in pml4s, NEW q \in Pages PROVE Page(m2, t, q) = Page(mem, t, q)
  <2>1. \A f \in used : m2[f] = mem[f] BY <1>3, <1>t
  <2>2. Pdpt(m2, t, q) = Pdpt(mem, t, q) BY <2>1, WalkLevels DEF Pdpt, Entry
  <2>3. Pd(m2, t, q) = Pd(mem, t, q)
    <3>1. Pdpt(mem, t, q) # Absent => m2[Pdpt(mem, t, q)] = mem[Pdpt(mem, t, q)]
      BY <2>1, WalkLevels
    <3> QED BY <2>2, <3>1 DEF Pd, Entry
  <2>4. Pt(m2, t, q) = Pt(mem, t, q)
    <3>1. Pd(mem, t, q) # Absent => m2[Pd(mem, t, q)] = mem[Pd(mem, t, q)]
      BY <2>1, WalkLevels
    <3> QED BY <2>3, <3>1 DEF Pt, Entry
  <2>5. Pt(mem, t, q) # Absent => m2[Pt(mem, t, q)] = mem[Pt(mem, t, q)]
    BY <2>1, WalkLevels
  <2> QED BY <2>4, <2>5 DEF Page, Entry
<1>12. ASSUME NEW q \in UserPages PROVE Page(m2, new, q) = Absent
  <2>1. q[1] \in Index /\ ~(q[1] >= Half)
    <3>1. q \in Pages /\ q[1] < Half BY DEF UserPages
    <3>2. q[1] \in Index /\ q[1] \in Nat /\ Half \in Nat BY <3>1, PageIndices, VmmAssumption
    <3> QED BY <3>1, <3>2
  <2>2. Pdpt(m2, new, q) = Absent BY <1>3, <1>6, <2>1 DEF Pdpt, Entry
  <2> QED BY <2>2 DEF Page, Pt, Pd, Entry
<1> QED BY <1>1, <1>2, <1>10, <1>11, <1>12

----------------------------------------------------------------------------
(* The invariant.                                                          *)

\* The same of the translation after a step.
LEMMA TranslateNext ==
  ASSUME NEW s, NEW p
  PROVE  Translate(s, p)' = Page(mem', s, p)
<1>1. GetPageTable(s, p, FALSE)' = Walk(mem', used', Pt(mem', s, p))
  <2>1. GetPageTable(s, p, FALSE)' =
          GetNextLevel(GetNextLevel(GetNextLevel(
            Walk(mem', used', s), p[1], FALSE), p[2], FALSE), p[3], FALSE)
    BY Zenon DEF GetPageTable, Walk
  <2>2. GetNextLevel(Walk(mem', used', s), p[1], FALSE) = Walk(mem', used', Pdpt(mem', s, p))
    BY NextLookup DEF Pdpt
  <2>3. GetNextLevel(Walk(mem', used', Pdpt(mem', s, p)), p[2], FALSE)
          = Walk(mem', used', Pd(mem', s, p))
    BY NextLookup DEF Pd
  <2>4. GetNextLevel(Walk(mem', used', Pd(mem', s, p)), p[3], FALSE)
          = Walk(mem', used', Pt(mem', s, p))
    BY NextLookup DEF Pt
  <2> QED BY <2>1, <2>2, <2>3, <2>4
<1>2. Walk(mem', used', Pt(mem', s, p)).at = Pt(mem', s, p) BY WalkParts
<1>3. GetPageTable(s, p, FALSE)'.at = Pt(mem', s, p) BY <1>1, <1>2
<1> QED BY <1>3 DEF Translate, Page, Entry

\* What is left over is nothing.
LEMMA FreeFrames ==
  ASSUME ZeroFrames, NEW m, NEW u, DOMAIN BootTables \subseteq u,
         \A f \in Frames \ u : m[f] = Zero
  PROVE  \A f \in Frames \ u : m[f] = Leftover[f]
BY VmmAssumption DEF ZeroFrames

\* The tables are sound at first.
LEMMA InitTree == ZeroFrames /\ Init => TreeInv
<1> SUFFICES ASSUME ZeroFrames, Init PROVE TreeInv OBVIOUS
<1> DEFINE tables == DOMAIN BootTables
<1>1. PICK lv \in [tables -> 1 .. 4] :
        /\ lv[Boot] = 1
        /\ \A f \in tables, i \in Index :
             IF lv[f] = 4 THEN BootTables[f][i] \in Data \cup {Absent}
             ELSE \/ BootTables[f][i] = Absent
                  \/ BootTables[f][i] \in tables /\ lv[BootTables[f][i]] = lv[f] + 1
  BY BootAssumption
<1>2. /\ tables \subseteq Frames /\ Boot \in tables
      /\ BootTables \in [tables -> [Index -> tables \cup Data \cup {Absent}]]
  BY VmmAssumption, BootAssumption DEF Boot
<1>3. /\ used = tables /\ pml4s = {Boot} /\ DOMAIN mem = Frames
      /\ \A f \in tables : mem[f] = BootTables[f]
      /\ \A f \in Frames \ tables : mem[f] = Zero
      /\ mem = [f \in Frames |-> IF f \in tables THEN BootTables[f] ELSE Zero]
  <2>1. \A f \in Frames \ tables : Leftover[f] = Zero BY VmmAssumption DEF ZeroFrames
  <2>2. mem = [f \in Frames |-> IF f \in tables THEN BootTables[f] ELSE Zero]
    BY <2>1 DEF Init
  <2> QED BY <1>2, <2>2 DEF Init
<1> DEFINE level == [f \in Frames |-> IF f \in tables THEN lv[f] ELSE 4]
<1>4. level \in [Frames -> 1 .. 4] /\ \A f \in tables : level[f] = lv[f] BY <1>2
<1> HIDE DEF level, tables
<1>5. mem \in Memory
  <2>1. Zero \in [Index -> Frames \cup Data \cup {Absent}] BY DEF Zero
  <2>2. \A f \in tables : BootTables[f] \in [Index -> Frames \cup Data \cup {Absent}] BY <1>2
  <2> QED BY <1>3, <2>1, <2>2 DEF Memory
<1>6. Unshared(mem, used, pml4s)
  <2> SUFFICES ASSUME NEW f \in tables, NEW g \in tables, NEW i \in Index, NEW j \in Index,
                      BootTables[f][i] \in Frames, BootTables[f][i] = BootTables[g][j]
               PROVE  f = g /\ i = j
    BY <1>3 DEF Unshared
  <2>1. BootTables[f][i] \in tables BY <1>2, VmmAssumption
  <2> QED BY <2>1, BootAssumption DEF tables
<1>7. Levels(mem, used, pml4s, level) BY <1>1, <1>2, <1>3, <1>4 DEF Levels
<1>8. Shared(mem, pml4s)
  BY <1>2, <1>3 DEF Shared, Slots
<1>9. Good(mem, used, pml4s, level) BY <1>2, <1>3, <1>5, <1>6, <1>7, <1>8 DEF Good, tables
<1> QED BY <1>9 DEF TreeInv

\* The invariant holds at first.
LEMMA InitVInv == ZeroFrames /\ Init => VInv
<1> SUFFICES ASSUME ZeroFrames, Init PROVE VInv OBVIOUS
<1>1. PICK level : Good(mem, used, pml4s, level) BY InitTree DEF TreeInv
<1>2. cr3 \in pml4s /\ old_pml4 = Absent /\ tlb = [p \in Pages |-> Absent] BY DEF Init
<1>3. TypeOK
  <2>1. \A f \in Frames \ used : mem[f] = Leftover[f] BY <1>1, FreeFrames DEF Good
  <2> QED BY <1>1, <1>2, <2>1 DEF TypeOK, Good, Memory
<1> QED BY <1>1, <1>2, <1>3 DEF VInv, TreeInv, TlbFresh

\* A step keeps the page tables sound; it changes at most one page, and adds at
\* most one space.
Effect ==
  \/ /\ UNCHANGED pml4s
     /\ \/ cr3' \in pml4s /\ tlb' = [q \in Pages |-> Absent]
        \/ UNCHANGED <<cr3, tlb>>
        \/ \E p \in Pages : cr3' = cr3 /\ tlb' = [tlb EXCEPT ![p] = Page(mem, cr3, p)]
     /\ \A t \in pml4s, q \in Pages : Page(mem', t, q) = Page(mem, t, q)
  \/ /\ UNCHANGED <<pml4s, cr3>>
     /\ \E s \in pml4s, p \in Pages, v \in Data \cup {Absent} :
          Written(mem, mem', pml4s, s, p, v) /\ tlb' = [tlb EXCEPT ![p] = Absent]
  \/ /\ UNCHANGED <<cr3, tlb>>
     /\ \A t \in pml4s, q \in Pages : Page(mem', t, q) = Page(mem, t, q)
     /\ \E new \in Frames \ pml4s :
          /\ pml4s' = pml4s \cup {new}
          /\ \A q \in UserPages : Page(mem', new, q) = Absent

LEMMA StepEffect ==
  ASSUME ZeroFrames, TypeOK, TreeInv, [Next]_vars
  PROVE  TreeInv' /\ Effect
<1>g. PICK level : Good(mem, used, pml4s, level) BY DEF TreeInv
<1>1. ASSUME UNCHANGED <<mem, used, pml4s>>,
             \/ cr3' \in pml4s /\ tlb' = [q \in Pages |-> Absent]
             \/ UNCHANGED <<cr3, tlb>>
             \/ \E p \in Pages : cr3' = cr3 /\ tlb' = [tlb EXCEPT ![p] = Page(mem, cr3, p)]
      PROVE  TreeInv' /\ Effect
  <2>1. Good(mem, used, pml4s, level)' <=> Good(mem', used', pml4s', level) OBVIOUS
  <2> QED BY <1>1, <1>g DEF TreeInv, Effect
<1>2. CASE VmmMakePml4
  <2>1. cr3 \in pml4s /\ old_pml4 \in pml4s \cup {Absent} /\ pml4s \subseteq used
    BY DEF TypeOK
  <2>2. PICK l2 : Good(mem', used', pml4s', l2) BY <1>2, <1>g, <2>1, MakeStep
  <2>3. \A t \in pml4s, q \in Pages : Page(mem', t, q) = Page(mem, t, q)
    BY <1>2, <1>g, <2>1, MakeStep
  <2>4. PICK new \in Frames \ used :
          pml4s' = pml4s \cup {new} /\ \A q \in UserPages : Page(mem', new, q) = Absent
    BY <1>2, <1>g, <2>1, MakeStep
  <2>5. new \in Frames \ pml4s /\ UNCHANGED <<cr3, tlb>> BY <1>2, <2>1 DEF VmmMakePml4
  <2>6. Effect BY <2>3, <2>4, <2>5 DEF Effect
  <2> QED BY <2>2, <2>6 DEF TreeInv
<1>3. CASE \E s \in pml4s : VmmLoadPml4(s) BY <1>1, <1>3 DEF VmmLoadPml4
<1>4. CASE \E p \in Pages : Access(p) BY <1>1, <1>4, TranslateIs DEF Access
<1>5. CASE \E s \in pml4s, p \in Pages : VmmUnmapPage(s, p)
  <2>1. PICK s \in pml4s, p \in Pages : VmmUnmapPage(s, p) BY <1>5
  <2>2. Good(mem', used', pml4s, level) /\ Written(mem, mem', pml4s, s, p, Absent)
    BY <1>g, <2>1, UnmapStep
  <2>3. UNCHANGED <<pml4s, cr3>> /\ tlb' = [tlb EXCEPT ![p] = Absent]
    BY <2>1 DEF VmmUnmapPage, FlushTlbSingle
  <2>4. Effect BY <2>2, <2>3 DEF Effect
  <2> QED BY <2>2, <2>3, <2>4 DEF TreeInv
<1>6. CASE \E s \in pml4s, p \in Pages, d \in Data : VmmMapPage(s, p, d)
  <2>1. PICK s \in pml4s, p \in Pages, d \in Data : VmmMapPage(s, p, d) BY <1>6
  <2>2. PICK l2 : Good(mem', used', pml4s, l2) BY <1>g, <2>1, MapStep
  <2>3. Written(mem, mem', pml4s, s, p, d) BY <1>g, <2>1, MapStep
  <2>4. UNCHANGED <<pml4s, cr3>> /\ tlb' = [tlb EXCEPT ![p] = Absent]
    BY <2>1 DEF VmmMapPage, FlushTlbSingle
  <2>5. Effect BY <2>3, <2>4 DEF Effect
  <2> QED BY <2>2, <2>4, <2>5 DEF TreeInv
<1>7. CASE \E p \in Pages : VmmGetPhys(p)
  <2>1. PICK p \in Pages : VmmGetPhys(p) BY <1>7
  <2>2. cr3 \in pml4s BY DEF TypeOK
  <2>3. PICK l2 : Good(mem', used', pml4s, l2) BY <1>g, <2>1, <2>2, PhysStep
  <2>4. \A t \in pml4s, q \in Pages : Page(mem', t, q) = Page(mem, t, q)
    BY <1>g, <2>1, <2>2, PhysStep
  <2>5. UNCHANGED <<pml4s, cr3, tlb>> BY <2>1 DEF VmmGetPhys
  <2>6. Effect BY <2>4, <2>5 DEF Effect
  <2> QED BY <2>3, <2>5, <2>6 DEF TreeInv
<1>8. CASE UNCHANGED vars BY <1>1, <1>8 DEF vars
<1> QED BY <1>2, <1>3, <1>4, <1>5, <1>6, <1>7, <1>8 DEF Next

\* No step leaves a stale translation in the TLB.
LEMMA VStep == ZeroFrames /\ VInv /\ [Next]_vars => VInv'
<1> SUFFICES ASSUME ZeroFrames, VInv, [Next]_vars PROVE VInv' OBVIOUS
<1>0. TypeOK /\ TreeInv /\ TlbFresh BY DEF VInv
<1>1. TreeInv' /\ Effect BY <1>0, StepEffect
<1>g. PICK level : Good(mem, used, pml4s, level) BY <1>0 DEF TreeInv
<1>h. PICK l2 : Good(mem', used', pml4s', l2) BY <1>1 DEF TreeInv
<1>2. cr3 \in pml4s /\ tlb \in [Pages -> Data \cup {Absent}] BY <1>0 DEF TypeOK
<1>3. \A p \in Pages : tlb[p] \in {Absent, Page(mem, cr3, p)}
  BY <1>0, TranslateIs DEF TlbFresh
<1>4. old_pml4' \in pml4s' \cup {Absent}
  <2>1. CASE VmmMakePml4 BY <1>0, <2>1 DEF VmmMakePml4, TypeOK
  <2>2. CASE ~VmmMakePml4
    <3>1. UNCHANGED <<pml4s, old_pml4>>
      BY <2>2 DEF Next, VmmLoadPml4, VmmUnmapPage, VmmMapPage, VmmGetPhys, Access, vars
    <3> QED BY <1>0, <3>1 DEF TypeOK
  <2> QED BY <2>1, <2>2
<1>5. /\ cr3' \in pml4s' /\ tlb' \in [Pages -> Data \cup {Absent}]
      /\ \A q \in Pages : tlb'[q] \in {Absent, Page(mem', cr3', q)}
  <2>p. \A q \in Pages : Page(mem, cr3, q) \in Data \cup {Absent} BY <1>g, <1>2, WalkLevels
  <2>1. CASE /\ UNCHANGED pml4s /\ cr3' \in pml4s /\ tlb' = [q \in Pages |-> Absent]
    BY <2>1
  <2>2. CASE /\ UNCHANGED <<cr3, tlb>> /\ pml4s \subseteq pml4s'
             /\ \A t \in pml4s, q \in Pages : Page(mem', t, q) = Page(mem, t, q)
    BY <1>2, <1>3, <2>2
  <2>3. CASE /\ UNCHANGED pml4s
             /\ \E p \in Pages : cr3' = cr3 /\ tlb' = [tlb EXCEPT ![p] = Page(mem, cr3, p)]
             /\ \A t \in pml4s, q \in Pages : Page(mem', t, q) = Page(mem, t, q)
    BY <1>2, <1>3, <2>p, <2>3
  <2>4. CASE /\ UNCHANGED <<pml4s, cr3>>
             /\ \E s \in pml4s, p \in Pages, v \in Data \cup {Absent} :
                  Written(mem, mem', pml4s, s, p, v) /\ tlb' = [tlb EXCEPT ![p] = Absent]
    <3>1. PICK s \in pml4s, p \in Pages, v \in Data \cup {Absent} :
            Written(mem, mem', pml4s, s, p, v) /\ tlb' = [tlb EXCEPT ![p] = Absent]
      BY <2>4
    <3>2. \A q \in Pages : q # p => Page(mem', cr3, q) = Page(mem, cr3, q)
      BY <1>2, <3>1 DEF Written
    <3> QED BY <1>2, <1>3, <2>4, <3>1, <3>2
  <2> QED BY <1>1, <2>1, <2>2, <2>3, <2>4 DEF Effect
<1>6. TypeOK'
  <2>1. \A f \in Frames \ used' : mem'[f] = Leftover[f] BY <1>h, FreeFrames DEF Good
  <2> QED BY <1>4, <1>5, <1>h, <2>1 DEF TypeOK, Good, Memory
<1>7. TlbFresh'
  <2>1. PICK c : c = cr3' OBVIOUS
  <2>2. \A q \in Pages : Translate(c, q)' = Page(mem', c, q) BY TranslateNext
  <2>3. \A q \in Pages : Translate(cr3, q)' = Page(mem', cr3', q)
    <3>1. \A q \in Pages : Translate(cr3, q)' = Translate(c, q)'
      BY <2>1 DEF Translate, GetPageTable
    <3> QED BY <2>1, <2>2, <3>1
  <2> QED BY <1>5, <2>3 DEF TlbFresh
<1> QED BY <1>1, <1>6, <1>7 DEF VInv

\* On frames that hold zeros the state of the manager has its types, and free
\* frames are left alone.
THEOREM VmmTypeCorrect == ASSUME ZeroFrames PROVE Spec => []TypeOK
<1>1. VInv => TypeOK BY DEF VInv
<1> QED BY <1>1, InitVInv, VStep, PTL DEF Spec

\* On frames that hold zeros vmm_map_page() and vmm_unmap_page() leave no stale
\* translation in the TLB of the core, through whichever address space they work
\* and whichever others share the tables.
THEOREM TlbCorrect == ASSUME ZeroFrames PROVE Spec => []TlbFresh
<1>1. VInv => TlbFresh BY DEF VInv
<1> QED BY <1>1, InitVInv, VStep, PTL DEF Spec

\* On frames that hold zeros all address spaces see the same pages behind the
\* kernel slots that the boot loader filled, although each has a PML4 of its own
\* and late slots may differ.
THEOREM KernelCorrect == ASSUME ZeroFrames PROVE Spec => []KernelAgrees
<1>1. VInv => KernelAgrees
  <2> SUFFICES ASSUME VInv, NEW s \in pml4s, NEW p \in KernelPages
               PROVE  Translate(s, p) = Translate(Boot, p)
    BY DEF KernelAgrees
  <2>1. PICK level : Good(mem, used, pml4s, level) BY DEF VInv, TreeInv
  <2> QED BY <2>1, KernelWalk, TranslateIs
<1> QED BY <1>1, InitVInv, VStep, PTL DEF Spec

----------------------------------------------------------------------------
(* The refinement.                                                         *)

\* The abstract state: the pages of each half in a memory m.
UserHalf(m, P) == [s \in P |-> [p \in UserPages |-> Page(m, s, p)]]
KernelHalf(m) == [p \in KernelPages |-> Page(m, Boot, p)]

\* What the refinement mapping says, in these terms.
Users == [s \in pml4s |-> [p \in UserPages |-> Translate(s, p)]]
Kernel == [p \in KernelPages |-> Translate(Boot, p)]

LEMMA MappingIs ==
  /\ Users = UserHalf(mem, pml4s) /\ Kernel = KernelHalf(mem)
  /\ Users' = UserHalf(mem', pml4s') /\ Kernel' = KernelHalf(mem')
<1>1. \A s, p : Translate(s, p) = Page(mem, s, p) BY TranslateIs
<1>2. \A s, p : Translate(s, p)' = Page(mem', s, p) BY TranslateNext
<1>3. Users = UserHalf(mem, pml4s) BY <1>1 DEF Users, UserHalf
<1>4. Kernel = KernelHalf(mem) BY <1>1 DEF Kernel, KernelHalf
<1>5. Users' = UserHalf(mem', pml4s') BY <1>2 DEF Users, UserHalf
<1>6. Kernel' = KernelHalf(mem') BY <1>2 DEF Kernel, KernelHalf, Boot
<1> QED BY <1>3, <1>4, <1>5, <1>6

\* Pages of the two halves.
LEMMA Halves ==
  /\ UserPages \subseteq Pages /\ KernelPages \subseteq Pages /\ LatePages \subseteq Pages
  /\ UserPages \cap KernelPages = {} /\ UserPages \cap LatePages = {}
  /\ KernelPages \cap LatePages = {} /\ Pages = UserPages \cup KernelPages \cup LatePages
<1>1. \A p \in Pages : p[1] \in Nat /\ Half \in Nat BY PageIndices, VmmAssumption
<1> QED BY <1>1 DEF UserPages, KernelPages, LatePages

\* Every step of the manager is one of the abstract address spaces, or none.
LEMMA SpaceStep == ZeroFrames /\ VInv /\ [Next]_vars => [Promise!Next]_(Promise!avars)
<1> SUFFICES ASSUME ZeroFrames, VInv, [Next]_vars PROVE [Promise!Next]_(Promise!avars) OBVIOUS
<1>0. TypeOK /\ TreeInv BY DEF VInv
<1>1. TreeInv' /\ Effect BY <1>0, StepEffect
<1>g. PICK level : Good(mem, used, pml4s, level) BY <1>0 DEF TreeInv
<1>b. Boot \in pml4s BY <1>g DEF Good
<1>2. CASE /\ UNCHANGED pml4s
           /\ \A t \in pml4s, q \in Pages : Page(mem', t, q) = Page(mem, t, q)
  <2>1. UserHalf(mem', pml4s') = UserHalf(mem, pml4s) BY <1>2, Halves DEF UserHalf
  <2>2. KernelHalf(mem') = KernelHalf(mem) BY <1>2, <1>b, Halves DEF KernelHalf
  <2>3. Users' = Users /\ Kernel' = Kernel BY <2>1, <2>2, MappingIs
  <2>4. UNCHANGED Promise!avars BY <1>2, <2>3 DEF Promise!avars, Users, Kernel
  <2> QED BY <2>4
<1>3. CASE /\ UNCHANGED pml4s
           /\ \E s \in pml4s, p \in Pages, v \in Data \cup {Absent} :
                Written(mem, mem', pml4s, s, p, v)
  <2>1. PICK s \in pml4s, p \in Pages, v \in Data \cup {Absent} :
          Written(mem, mem', pml4s, s, p, v)
    BY <1>3
  <2>2. CASE p \in UserPages
    <3>0. p \notin KernelPages BY <2>2, Halves
    <3>1. \A t \in pml4s, q \in Pages :
            Page(mem', t, q) = IF q = p /\ t = s THEN v ELSE Page(mem, t, q)
      BY <2>1, <2>2 DEF Written
    <3>2. UserHalf(mem', pml4s') = [UserHalf(mem, pml4s) EXCEPT ![s][p] = v]
      BY <1>3, <2>2, <3>1, Halves DEF UserHalf
    <3>3. UserHalf(mem', pml4s')[s][p] = v BY <1>3, <2>2, <3>1, Halves DEF UserHalf
    <3>4. KernelHalf(mem') = KernelHalf(mem) BY <1>b, <3>0, <3>1, Halves DEF KernelHalf
    <3>5. /\ Users'[s][p] \in Data \cup {Absent}
          /\ Users' = [Users EXCEPT ![s][p] = Users'[s][p]] /\ Kernel' = Kernel
      BY <3>2, <3>3, <3>4, MappingIs
    <3>6. Promise!MapUser BY <1>3, <2>2, <3>5 DEF Promise!MapUser, Users, Kernel
    <3> QED BY <3>6 DEF Promise!Next
  <2>3. CASE p \in KernelPages
    <3>0. p \notin UserPages BY <2>3, Halves
    <3>1. \A t \in pml4s, q \in Pages :
            Page(mem', t, q) = IF q = p THEN v ELSE Page(mem, t, q)
      BY <2>1, <2>3 DEF Written
    <3>2. UserHalf(mem', pml4s') = UserHalf(mem, pml4s)
      BY <1>3, <3>0, <3>1, Halves DEF UserHalf
    <3>3. KernelHalf(mem') = [KernelHalf(mem) EXCEPT ![p] = v] /\ KernelHalf(mem')[p] = v
      BY <1>b, <2>3, <3>1, Halves DEF KernelHalf
    <3>5. /\ Kernel'[p] \in Data \cup {Absent}
          /\ Kernel' = [Kernel EXCEPT ![p] = Kernel'[p]] /\ Users' = Users
      BY <3>2, <3>3, MappingIs
    <3>6. Promise!MapKernel BY <1>3, <2>3, <3>5 DEF Promise!MapKernel, Users, Kernel
    <3> QED BY <3>6 DEF Promise!Next
  <2>4. CASE p \in LatePages
    <3>0. p \notin UserPages /\ p \notin KernelPages BY <2>4, Halves
    <3>1. \A t \in pml4s, q \in Pages : q # p => Page(mem', t, q) = Page(mem, t, q)
      BY <2>1 DEF Written
    <3>2. UserHalf(mem', pml4s') = UserHalf(mem, pml4s)
      BY <1>3, <3>0, <3>1, Halves DEF UserHalf
    <3>3. KernelHalf(mem') = KernelHalf(mem) BY <1>b, <3>0, <3>1, Halves DEF KernelHalf
    <3>4. Users' = Users /\ Kernel' = Kernel BY <3>2, <3>3, MappingIs
    <3>5. UNCHANGED Promise!avars BY <1>3, <3>4 DEF Promise!avars, Users, Kernel
    <3> QED BY <3>5
  <2> QED BY <2>2, <2>3, <2>4, Halves
<1>4. CASE /\ \A t \in pml4s, q \in Pages : Page(mem', t, q) = Page(mem, t, q)
           /\ \E new \in Frames \ pml4s :
                /\ pml4s' = pml4s \cup {new}
                /\ \A q \in UserPages : Page(mem', new, q) = Absent
  <2>1. PICK new \in Frames \ pml4s :
          pml4s' = pml4s \cup {new} /\ \A q \in UserPages : Page(mem', new, q) = Absent
    BY <1>4
  <2>2. KernelHalf(mem') = KernelHalf(mem) BY <1>4, <1>b, Halves DEF KernelHalf
  <2>3. UserHalf(mem', pml4s') =
          [t \in pml4s' |-> IF t = new THEN [p \in UserPages |-> Absent]
                            ELSE UserHalf(mem, pml4s)[t]]
    BY <1>4, <2>1, Halves DEF UserHalf
  <2>4. /\ Kernel' = Kernel
        /\ Users' = [t \in pml4s' |-> IF t = new THEN [p \in UserPages |-> Absent]
                                      ELSE Users[t]]
    BY <2>2, <2>3, MappingIs
  <2>5. new \in pml4s' \ pml4s BY <2>1
  <2>6. Promise!New
    BY <2>1, <2>4, <2>5 DEF Promise!New, Promise!Nothing, Users, Kernel
  <2> QED BY <2>6 DEF Promise!Next
<1> QED BY <1>1, <1>2, <1>3, <1>4 DEF Effect

\* On frames that hold zeros page tables implement address spaces: mapping
\* changes one page of one space, lookups change none, mapping a late page
\* changes no other one, and a new space has an empty user half.
THEOREM SpaceCorrect == ASSUME ZeroFrames PROVE Spec => SpacePromise
<1>1. Init => Promise!Init
  <2> SUFFICES ASSUME Init PROVE Promise!Init OBVIOUS
  <2>1. PICK level : Good(mem, used, pml4s, level) BY InitTree DEF TreeInv
  <2>2. pml4s = {Boot} BY DEF Init
  <2>3. \A s \in pml4s, p \in Pages : Page(mem, s, p) \in Data \cup {Absent}
    BY <2>1, WalkLevels
  <2>4. UserHalf(mem, pml4s) \in [pml4s -> [UserPages -> Data \cup {Absent}]]
    BY <2>3, Halves DEF UserHalf
  <2>5. KernelHalf(mem) \in [KernelPages -> Data \cup {Absent}]
    BY <2>2, <2>3, Halves DEF KernelHalf
  <2> QED BY <2>2, <2>4, <2>5, MappingIs DEF Promise!Init, Users, Kernel
<1> QED BY <1>1, InitVInv, VStep, SpaceStep, PTL DEF Spec, SpacePromise, Promise!Spec

=============================================================================
