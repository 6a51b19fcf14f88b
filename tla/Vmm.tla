-------------------------------- MODULE Vmm --------------------------------
(***************************************************************************)
(* The virtual memory manager (mm/vmm.c): page tables of four levels in    *)
(* frames of physical memory, walked and extended by get_page_table(), and *)
(* the TLB of the core that runs the code.                                 *)
(*                                                                         *)
(* A virtual page is the tuple of its four indices.  Half is the first     *)
(* index of the kernel half (256 of 512).  An entry is the frame of the    *)
(* next table, a page that is mapped, or Absent; flags other than          *)
(* PTE_PRESENT are left out.  The boot loader's tables are made of 4 KiB   *)
(* pages: get_next_level() would take a larger one for a table.  A kernel  *)
(* slot that is empty in the boot loader's PML4 is filled in one PML4 at a *)
(* time; the pages behind it are late.                                     *)
(***************************************************************************)
EXTENDS Integers, FiniteSets

CONSTANTS
  Frames,     \* 0 .. n: frames pmm_alloc() can hand out, in that order
  Index,      \* 0 .. n: indices of a table
  Half,       \* first index of the kernel half
  Pages,      \* virtual pages in use
  Data,       \* physical pages that get mapped
  Absent,
  BootTables, \* the boot loader's tables: a function from frames to tables
  Leftover,   \* what the other frames hold: words that may look like entries
  ClearedTo   \* entries of a new PML4 that memzero() reaches (64 of 512)

ASSUME VmmAssumption ==
  /\ Frames \subseteq Nat /\ IsFiniteSet(Frames) /\ Index \subseteq Nat /\ Half \in Index
  /\ Pages \subseteq Index \X Index \X Index \X Index
  /\ Absent \notin Frames \cup Data /\ Frames \cap Data = {}
  /\ DOMAIN BootTables \subseteq Frames /\ 0 \in DOMAIN BootTables
  /\ Leftover \in [Frames \ DOMAIN BootTables -> [Index -> Frames \cup {Absent}]]
  /\ ClearedTo \in Nat /\ ClearedTo <= Half

Boot == 0     \* frame of the boot loader's PML4

\* The boot loader's tables have four levels, and no table is in two places.
ASSUME BootAssumption ==
  LET tables == DOMAIN BootTables
  IN  /\ BootTables \in [tables -> [Index -> tables \cup Data \cup {Absent}]]
      /\ \E level \in [tables -> 1 .. 4] :
           /\ level[Boot] = 1
           /\ \A f \in tables, i \in Index :
                IF level[f] = 4 THEN BootTables[f][i] \in Data \cup {Absent}
                ELSE \/ BootTables[f][i] = Absent
                     \/ BootTables[f][i] \in tables /\ level[BootTables[f][i]] = level[f] + 1
      /\ \A f, g \in tables, i, j \in Index :
           BootTables[f][i] \in tables /\ BootTables[f][i] = BootTables[g][j] => f = g /\ i = j

Zero == [i \in Index |-> Absent]

\* Free frames hold zeros, as memory does on a machine just switched on.
ZeroFrames == \A f \in DOMAIN Leftover : Leftover[f] = Zero

\* Pages of the user half, pages behind the kernel slots that the boot loader
\* filled, and late ones.
UserPages   == {p \in Pages : p[1] < Half}
KernelPages == {p \in Pages : p[1] >= Half /\ BootTables[Boot][p[1]] # Absent}
LatePages   == {p \in Pages : p[1] >= Half /\ BootTables[Boot][p[1]] = Absent}

VARIABLES
  mem,        \* mem[f]: the table in frame f
  used,       \* frames that pmm_alloc() has handed out
  pml4s,      \* frames of the address spaces' PML4s
  cr3,        \* the PML4 loaded
  old_pml4,   \* the static of vmm_make_pml4(); Absent is NULL
  tlb         \* tlb[p]: the translation of p the core has cached

vars == <<mem, used, pml4s, cr3, old_pml4, tlb>>

Init ==
  /\ mem = [f \in Frames |-> IF f \in DOMAIN BootTables THEN BootTables[f] ELSE Leftover[f]]
  /\ used = DOMAIN BootTables
  /\ pml4s = {Boot} /\ cr3 = Boot /\ old_pml4 = Absent
  /\ tlb = [p \in Pages |-> Absent]

\* pmm_alloc(1): the first free frame, as it is.  (That a frame is handed out
\* once is the contract of module Pmm's frames with a bit that can be tested.)
PmmAlloc(u) == CHOOSE f \in Frames \ u : \A g \in Frames \ u : f <= g

\* Mutant: the frame stays free.
GetNextLevelFree(w, i, alloc) ==
  IF w.at = Absent THEN w
  ELSE IF w.mem[w.at][i] # Absent THEN [w EXCEPT !.at = w.mem[w.at][i]]
  ELSE IF ~alloc THEN [w EXCEPT !.at = Absent]
  ELSE [w EXCEPT !.mem[w.at][i] = PmmAlloc(w.used), !.at = PmmAlloc(w.used)]

\* get_next_level().  A walk is the memory, the frames used and the table it
\* is at, Absent for NULL.  A new table holds what its frame held.
GetNextLevel(w, i, alloc) ==
  IF w.at = Absent THEN w
  ELSE IF w.mem[w.at][i] # Absent THEN [w EXCEPT !.at = w.mem[w.at][i]]
  ELSE IF ~alloc THEN [w EXCEPT !.at = Absent]
  ELSE LET f == PmmAlloc(w.used)
       IN  [mem |-> [w.mem EXCEPT ![w.at][i] = f], used |-> w.used \cup {f}, at |-> f]

GetPageTable(pml4, virt, alloc) ==
  GetNextLevel(GetNextLevel(GetNextLevel(
    [mem |-> mem, used |-> used, at |-> pml4],
    virt[1], alloc), virt[2], alloc), virt[3], alloc)

\* Bound: the machine has the frames that a walk may need.
EnoughFrames(n) == Cardinality(Frames \ used) >= n

\* invlpg of __amd64_flush_tlb_single().
FlushTlbSingle(virt) == tlb' = [tlb EXCEPT ![virt] = Absent]

VmmMapPage(pml4, virt, phys) ==
  LET w == GetPageTable(pml4, virt, TRUE)
  IN  /\ EnoughFrames(3)
      /\ mem' = [w.mem EXCEPT ![w.at][virt[4]] = phys]
      /\ used' = w.used
      /\ FlushTlbSingle(virt)
      /\ UNCHANGED <<pml4s, cr3, old_pml4>>

\* Mutant: the core keeps the translation.
VmmUnmapPageCached(pml4, virt) ==
  LET w == GetPageTable(pml4, virt, FALSE)
  IN  /\ w.at # Absent
      /\ mem' = [mem EXCEPT ![w.at][virt[4]] = Absent]
      /\ UNCHANGED <<used, pml4s, cr3, old_pml4, tlb>>

\* vmm_unmap_page(); it returns early when there is no page table.
VmmUnmapPage(pml4, virt) ==
  LET w == GetPageTable(pml4, virt, FALSE)
  IN  /\ w.at # Absent
      /\ mem' = [mem EXCEPT ![w.at][virt[4]] = Absent]
      /\ FlushTlbSingle(virt)
      /\ UNCHANGED <<used, pml4s, cr3, old_pml4>>

\* Mutant: all entries are copied.
CopiedAll(i) == TRUE

\* The entries that vmm_make_pml4() copies: the kernel half.
Copied(i) == i >= Half

\* Mutant: the copy starts one entry past the first of the kernel half.
VmmMakePml4Short ==
  LET new == PmmAlloc(used)
      old == IF old_pml4 = Absent THEN cr3 ELSE old_pml4
  IN  /\ EnoughFrames(1)
      /\ old_pml4' = old
      /\ mem' = [mem EXCEPT ![new] =
                   [i \in Index |-> IF i > Half THEN mem[old][i]
                                   ELSE IF i < ClearedTo THEN Absent ELSE @[i]]]
      /\ used' = used \cup {new}
      /\ pml4s' = pml4s \cup {new}
      /\ UNCHANGED <<cr3, tlb>>

\* vmm_make_pml4(): a new PML4 with the kernel half of the PML4 that was loaded
\* at the first call.  memzero() reaches the first 64 entries only; the others
\* of the user half are what the frame held.
VmmMakePml4 ==
  LET new == PmmAlloc(used)
      old == IF old_pml4 = Absent THEN cr3 ELSE old_pml4
  IN  /\ EnoughFrames(1)
      /\ old_pml4' = old
      /\ mem' = [mem EXCEPT ![new] =
                   [i \in Index |-> IF Copied(i) THEN mem[old][i]
                                   ELSE IF i < ClearedTo THEN Absent ELSE @[i]]]
      /\ used' = used \cup {new}
      /\ pml4s' = pml4s \cup {new}
      /\ UNCHANGED <<cr3, tlb>>

\* vmm_get_phys(): the lookup makes the tables that are missing.
VmmGetPhys(virt) ==
  LET w == GetPageTable(cr3, virt, TRUE)
  IN  /\ EnoughFrames(3)
      /\ mem' = w.mem
      /\ used' = w.used
      /\ UNCHANGED <<pml4s, cr3, old_pml4, tlb>>

\* VMM_LOAD_PML4(); loading CR3 empties the TLB.
VmmLoadPml4(pml4) ==
  /\ cr3' = pml4
  /\ tlb' = [p \in Pages |-> Absent]
  /\ UNCHANGED <<mem, used, pml4s, old_pml4>>

\* The translation the processor finds in the tables.
Translate(pml4, virt) ==
  LET w == GetPageTable(pml4, virt, FALSE)
  IN  IF w.at = Absent THEN Absent ELSE mem[w.at][virt[4]]

\* The program touches a page that is mapped, and the core caches it.
Access(virt) ==
  /\ Translate(cr3, virt) # Absent
  /\ tlb' = [tlb EXCEPT ![virt] = Translate(cr3, virt)]
  /\ UNCHANGED <<mem, used, pml4s, cr3, old_pml4>>

Next ==
  \/ VmmMakePml4
  \/ \E s \in pml4s : VmmLoadPml4(s)
  \/ \E s \in pml4s, p \in Pages :
       VmmUnmapPage(s, p) \/ \E d \in Data : VmmMapPage(s, p, d)
  \/ \E p \in Pages : VmmGetPhys(p) \/ Access(p)

Spec == Init /\ [][Next]_vars

----------------------------------------------------------------------------
(* Properties.                                                             *)

TypeOK ==
  /\ mem \in [Frames -> [Index -> Frames \cup Data \cup {Absent}]]
  /\ \A f \in Frames \ used : mem[f] = Leftover[f]
  /\ pml4s \subseteq used /\ used \subseteq Frames
  /\ cr3 \in pml4s /\ old_pml4 \in pml4s \cup {Absent}
  /\ tlb \in [Pages -> Data \cup {Absent}]

\* A cached translation is the one in the tables: every change of a page's
\* entry, through whichever address space, drops what this core has cached.
TlbFresh == \A p \in Pages : tlb[p] \in {Absent, Translate(cr3, p)}

\* Every address space sees the same pages behind the kernel slots that the boot
\* loader filled, whenever it was made and through whichever one they are mapped.
\* (A late page is seen in the space whose slot was filled and in those copied
\* from it afterwards.)
KernelAgrees ==
  \A s \in pml4s, p \in KernelPages : Translate(s, p) = Translate(Boot, p)

Promise == INSTANCE AddressSpace WITH
  NoData <- Absent,
  spaces <- pml4s,
  user   <- [s \in pml4s |-> [p \in UserPages |-> Translate(s, p)]],
  kernel <- [p \in KernelPages |-> Translate(Boot, p)]

\* On frames that hold zeros, mapping or unmapping a page changes that page and
\* no other one, of that space and no other one; a lookup changes none, whatever
\* tables it makes; mapping a late page changes none of the others; a new space
\* has an empty user half.
SpacePromise == Promise!Spec

\* A PML4 that vmm_make_pml4() makes has an empty user half, whatever its frame
\* held.  The code fails this: memzero() is given entries, and clears bytes.
FreshPml4Empty ==
  [][\A s \in pml4s' \ pml4s, i \in Index : i < Half => mem'[s][i] = Absent]_vars
=============================================================================
