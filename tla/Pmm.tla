-------------------------------- MODULE Pmm --------------------------------
(***************************************************************************)
(* The physical memory manager (mm/pmm.c): one bit per page frame, set up  *)
(* from the boot loader's memory map, searched bit by bit by               *)
(* find_contigious_chunk() and written by pmm_alloc() and pmm_free().      *)
(*                                                                         *)
(* Addresses are counted in bytes of a page of PageSize bytes (0x1000 in   *)
(* the code), so that a bitmap of a few pages stays small.  The callers    *)
(* are the ones that hold frames: the heap, page tables, PML4s.            *)
(***************************************************************************)
EXTENDS Integers, Sequences, Bitmap

CONSTANTS
  PageSize,   \* bytes in a page
  MaxAddr,    \* end of the physical address space
  Maps,       \* memory maps the boot loader may hand over
  Callers,    \* holders of frames, one chunk each
  Sizes       \* numbers of frames asked for

Usable(m) == {i \in DOMAIN m : m[i].usable}

\* find_highest_mem_chunk(): the first usable entry with the highest base.
FindHighestMemChunk(m) ==
  CHOOSE i \in Usable(m) :
    \A j \in Usable(m) : \/ m[j].base < m[i].base
                         \/ m[j].base = m[i].base /\ i <= j

AlignUp(a) == ((a + PageSize - 1) \div PageSize) * PageSize

\* get_bitmap_size(), in bytes.
GetBitmapSize(m) ==
  LET h == FindHighestMemChunk(m)
  IN  AlignUp(((m[h].base + m[h].length) \div PageSize) \div 8)

\* Mutant: the bitmap is put anywhere in usable memory.
FitsAny(m, bytes) == Usable(m)

\* Usable chunks of at least the given length.
Fits(m, bytes) == {i \in Usable(m) : m[i].length >= bytes}

Entries == [base : Nat, length : Nat, usable : BOOLEAN]

\* A memory map: entries within the address space, one of them usable.
IsMap(m) ==
  /\ m \in Seq(Entries)
  /\ \A i \in DOMAIN m : m[i].base + m[i].length <= MaxAddr
  /\ Usable(m) # {}

ASSUME PmmAssumption ==
  /\ PageSize \in Nat \ {0}
  /\ MaxAddr \in Nat
  /\ \A m \in Maps : IsMap(m) /\ Fits(m, GetBitmapSize(m)) # {}
  /\ Sizes \subseteq Nat \ {0}

\* What the boot loader promises of usable chunks: whole pages, none empty and
\* none overlapping.  Of two that touch, the lower is not exactly the bitmap's
\* size: emptied, it would be taken for the highest one.  (A boot loader that
\* merges chunks that touch keeps this.)
Sound(m) ==
  \A i \in Usable(m) :
    /\ m[i].base % PageSize = 0 /\ m[i].length % PageSize = 0 /\ m[i].length > 0
    /\ \A j \in Usable(m) \ {i} :
         \/ m[j].base + m[j].length <= m[i].base
         \/ /\ m[i].base + m[i].length <= m[j].base
            /\ m[i].length = GetBitmapSize(m) => m[i].base + m[i].length < m[j].base

ASSUME BootLoaderAssumption == \A m \in Maps : Sound(m)

VARIABLES
  mmap,       \* mmap_resp, whose entries init_bitmap() changes
  bitmap,     \* physical address of the bitmap
  bits,       \* the bits that are 1
  pc,         \* where pmm_init() or pmm_alloc() is
  caller, frames,               \* the call of pmm_alloc() in progress
  bit, bit_start, frames_found, \* locals of find_contigious_chunk()
  owned,      \* frames each caller holds
  booted,     \* history: the map before init_bitmap(), its size, and ...
  reserved    \* ... the bits that init_bitmap() left set

locals == <<caller, frames, bit, bit_start, frames_found>>
vars   == <<mmap, bitmap, bits, pc, locals, owned, booted, reserved>>

\* Bits of the bitmap: get_bitmap_size()*8, computed anew for every bit.
NBits == 8 * GetBitmapSize(mmap)

Init ==
  /\ mmap \in Maps
  /\ bitmap = 0
  /\ bits = {}
  /\ pc = "pmm_init"
  /\ caller \in Callers
  /\ frames = 0
  /\ bit = 0
  /\ bit_start = 0
  /\ frames_found = 0
  /\ owned = [c \in Callers |-> {}]
  /\ booted = [map |-> mmap, bytes |-> GetBitmapSize(mmap)]
  /\ reserved = {}

-----------------------------------------------------------------------------
(* pmm_init() *)

\* Mutant: the bitmap's chunk is shortened but not moved up.
CarveLengthOnly(m, i, bytes) == [m EXCEPT ![i].length = @ - bytes]

\* The bitmap's pages leave the chunk it was put into.
Carve(m, i, bytes) ==
  [m EXCEPT ![i] = [base |-> @.base + bytes, length |-> @.length - bytes,
                    usable |-> @.usable]]

\* Frames of entry i: (base + j)/0x1000 for j = 0, 0x1000, ... < length.
EntryFrames(m, i) ==
  {(m[i].base + j * PageSize) \div PageSize :
     j \in 0 .. ((m[i].length + PageSize - 1) \div PageSize) - 1}

\* Put the bitmap into the first chunk that holds it, set every bit, clear
\* those of the frames of every chunk that could have held it.
PmmInit ==
  /\ pc = "pmm_init"
  /\ LET bytes == GetBitmapSize(mmap)
         at    == CHOOSE i \in Fits(mmap, bytes) :
                    \A j \in Fits(mmap, bytes) : i <= j
         after == Carve(mmap, at, bytes)
     IN  /\ bitmap' = mmap[at].base
         /\ mmap' = after
         /\ bits' = UnsetBits(0 .. 8 * bytes - 1,
                      UNION {EntryFrames(after, i) : i \in Fits(after, bytes)})
  /\ reserved' = bits'
  /\ pc' = "idle"
  /\ UNCHANGED <<locals, owned, booted>>

-----------------------------------------------------------------------------
(* pmm_alloc() *)

\* The call, up to the first test of find_contigious_chunk().
PmmAlloc(c, n) ==
  /\ pc = "idle"
  /\ owned[c] = {}
  /\ caller' = c
  /\ frames' = n
  /\ bit' = 1
  /\ bit_start' = 0
  /\ frames_found' = 0
  /\ pc' = "scan"
  /\ UNCHANGED <<mmap, bitmap, bits, owned, booted, reserved>>

\* The loop, for a bit that tests 1: start again behind it.
ScanUsed ==
  /\ pc = "scan"
  /\ bit < NBits
  /\ BitmapTestBit(bits, bit)
  /\ bit_start' = 0
  /\ frames_found' = 0
  /\ bit' = bit + 1
  /\ UNCHANGED <<mmap, bitmap, bits, pc, caller, frames, owned, booted, reserved>>

\* Mutant: the start of the run moves along with the search.
ScanFreeMoving ==
  /\ pc = "scan"
  /\ bit < NBits
  /\ ~BitmapTestBit(bits, bit)
  /\ frames_found < frames
  /\ bit_start' = bit
  /\ frames_found' = frames_found + 1
  /\ bit' = bit + 1
  /\ UNCHANGED <<mmap, bitmap, bits, pc, caller, frames, owned, booted, reserved>>

\* Mutant: the start of the run is not recorded.
ScanFreeUnset ==
  /\ pc = "scan"
  /\ bit < NBits
  /\ ~BitmapTestBit(bits, bit)
  /\ frames_found < frames
  /\ frames_found' = frames_found + 1
  /\ bit' = bit + 1
  /\ UNCHANGED <<mmap, bitmap, bits, pc, caller, frames, bit_start, owned,
                 booted, reserved>>

\* The loop, for a bit that tests 0 while the run is too short.
ScanFree ==
  /\ pc = "scan"
  /\ bit < NBits
  /\ ~BitmapTestBit(bits, bit)
  /\ frames_found < frames
  /\ bit_start' = IF bit_start = 0 THEN bit ELSE bit_start
  /\ frames_found' = frames_found + 1
  /\ bit' = bit + 1
  /\ UNCHANGED <<mmap, bitmap, bits, pc, caller, frames, owned, booted, reserved>>

\* The loop, for a bit that tests 0 behind a run that is long enough: break.
ScanEnough ==
  /\ pc = "scan"
  /\ bit < NBits
  /\ ~BitmapTestBit(bits, bit)
  /\ frames_found >= frames
  /\ frames_found' = frames_found + 1
  /\ pc' = "return"
  /\ UNCHANGED <<mmap, bitmap, bits, caller, frames, bit, bit_start, owned,
                 booted, reserved>>

\* The loop ends at the last bit.
ScanEnd ==
  /\ pc = "scan"
  /\ bit >= NBits
  /\ pc' = "return"
  /\ UNCHANGED <<mmap, bitmap, bits, locals, owned, booted, reserved>>

\* The frames pmm_alloc() is about to mark.
Chunk == bit_start .. bit_start + frames - 1

\* Mutant: the last frame of the chunk stays unmarked.
PmmAllocReturnShort ==
  /\ pc = "return"
  /\ pc' = "idle"
  /\ LET granted == IF bit_start = 0 THEN {} ELSE Chunk
     IN  /\ bits' = SetBits(bits, granted \ {bit_start + frames - 1})
         /\ owned' = [owned EXCEPT ![caller] = granted]
  /\ UNCHANGED <<mmap, bitmap, locals, booted, reserved>>

\* pmm_alloc() marks the chunk and returns its address, or 0 without one.
PmmAllocReturn ==
  /\ pc = "return"
  /\ pc' = "idle"
  /\ LET granted == IF bit_start = 0 THEN {} ELSE Chunk
     IN  /\ bits' = SetBits(bits, granted)
         /\ owned' = [owned EXCEPT ![caller] = granted]
  /\ UNCHANGED <<mmap, bitmap, locals, booted, reserved>>

-----------------------------------------------------------------------------
(* pmm_free() *)

\* A caller gives back the chunk it holds.
PmmFree(c) ==
  /\ pc = "idle"
  /\ owned[c] # {}
  /\ bits' = UnsetBits(bits, owned[c])
  /\ owned' = [owned EXCEPT ![c] = {}]
  /\ UNCHANGED <<mmap, bitmap, pc, locals, booted, reserved>>

-----------------------------------------------------------------------------
Scan == ScanUsed \/ ScanFree \/ ScanEnough \/ ScanEnd

Next ==
  \/ PmmInit
  \/ \E c \in Callers, n \in Sizes : PmmAlloc(c, n)
  \/ Scan \/ PmmAllocReturn
  \/ \E c \in Callers : PmmFree(c)

Spec == Init /\ [][Next]_vars

-----------------------------------------------------------------------------
(* Properties *)

\* Types of the manager's variables and of find_contigious_chunk()'s locals.
TypeOK ==
  /\ IsMap(mmap)
  /\ bitmap \in Nat
  /\ bits \subseteq Nat
  /\ pc \in {"pmm_init", "idle", "scan", "return"}
  /\ caller \in Callers
  /\ frames \in Nat
  /\ bit \in Nat
  /\ bit_start \in Nat
  /\ frames_found \in Nat
  /\ owned \in [Callers -> SUBSET Nat]
  /\ reserved \subseteq Nat

\* Frames whose bit bitmap_test_bit() can see.
Tracked == {f \in 0 .. NBits - 1 : Testable(f)}

\* For the frames whose bit can be seen the accounts are exact, through any
\* sequence of pmm_alloc() and pmm_free(): a bit is set if and only if the
\* frame was reserved at boot or one caller holds it, never both and never
\* two callers.
AccountsExact ==
  pc # "pmm_init" =>
    /\ \A f \in Tracked :
         f \in bits <=> f \in reserved \/ \E c \in Callers : f \in owned[c]
    /\ \A c \in Callers : owned[c] \cap reserved \cap Tracked = {}
    /\ \A c, d \in Callers : c # d => owned[c] \cap owned[d] \cap Tracked = {}

\* Frames of usable memory, as the boot loader reported it, outside the bitmap.
Backed ==
  {f \in UNION {EntryFrames(booted.map, i) : i \in Usable(booted.map)} :
     ~(bitmap <= f * PageSize /\ f * PageSize < bitmap + booted.bytes)}

\* init_bitmap() edits the very map it reads: what it leaves free is usable
\* memory and never the bitmap itself, so nobody is handed the bitmap's or the
\* firmware's frames through a bit that can be seen; and the size that
\* find_contigious_chunk() computes from the edited map for every bit is still
\* the size that was cleared.
OwnedBacked ==
  /\ GetBitmapSize(mmap) = booted.bytes
  /\ pc # "pmm_init" => \A c \in Callers : owned[c] \cap Tracked \subseteq Backed

\* Frames 1.. whose bit tests 0, seen from a start that is not frame 0.
FreeRun(s, t) == \A f \in s .. t : ~BitmapTestBit(bits, f)

\* What find_contigious_chunk() looks for: the first run of one frame more
\* than asked for; without one, the run that reaches the end of the bitmap.
Candidates ==
  LET roomy == {s \in 1 .. NBits - 1 - frames : FreeRun(s, s + frames)}
  IN  IF roomy # {} THEN roomy
                    ELSE {s \in 1 .. NBits - 1 : FreeRun(s, NBits - 1)}

\* The search returns the first candidate, and 0 only when there is none: a
\* run in the middle that is exactly as long as asked for is passed over.
FirstFit ==
  pc = "return" =>
    IF Candidates = {} THEN bit_start = 0
    ELSE /\ bit_start \in Candidates
         /\ \A s \in Candidates : bit_start <= s

\* The callers in vmm.c do not test for 0, and pmm_alloc() never returns it:
\* the bitmap is a whole number of pages, so its last bits are among those that
\* always test 0.  When memory is exhausted it hands out frames in use instead.
NeverFails ==
  pc = "return" /\ NBits > 0 /\ NBits % 32 = 0 => bit_start # 0

\* vmm.h of vmm_alloc_pages: "Allocates n pages": pages of the caller's own.
PagesOwn ==
  \A c, d \in Callers : c # d => owned[c] \cap owned[d] = {}

=============================================================================
