-------------------------------- MODULE Pid --------------------------------
(***************************************************************************)
(* Process ids: init_pid_bitmap(), alloc_pid() and free_pid() of           *)
(* sched/process.c, on the bitmap of libkern/bitmap.c.                     *)
(***************************************************************************)
EXTENDS Integers, Bitmap

CONSTANTS
  Procs,      \* calls of create_process()
  None,       \* the pid of a process that does not exist
  MaxPid      \* bound on the search: alloc_pid() itself loops for ever

ASSUME PidAssumption ==
  /\ MaxPid \in Nat
  /\ MaxPid >= 8
  /\ None \notin Nat

VARIABLES
  ready,             \* pid_bitmap # NULL
  pid_bitmap,        \* the bits that are 1
  pid_bitmap_bytes,
  pid,               \* pid of each process
  stale              \* history: the bits of the byte kmalloc() returned

pid_vars == <<ready, pid_bitmap, pid_bitmap_bytes, pid, stale>>

PidInit ==
  /\ ready = FALSE
  /\ pid_bitmap = {}
  /\ pid_bitmap_bytes = 1
  /\ pid = [p \in Procs |-> None]
  /\ stale = {}

\* Mutant: the search starts at 0.
FirstFreeFromZero(bits) ==
  CHOOSE i \in 0 .. MaxPid :
    /\ ~BitmapTestBit(bits, i)
    /\ \A j \in 0 .. i - 1 : BitmapTestBit(bits, j)

\* The loop of alloc_pid(): the first id from 1 whose bit tests 0.
FirstFree(bits) ==
  CHOOSE i \in 1 .. MaxPid :
    /\ ~BitmapTestBit(bits, i)
    /\ \A j \in 1 .. i - 1 : BitmapTestBit(bits, j)

\* pid_bitmap_bytes after the loop has come to id i: one more byte for every
\* id whose byte is beyond it (the krealloc() has succeeded).
Grown(bytes, i) == IF i \div 8 > bytes THEN i \div 8 ELSE bytes

\* Mutant: the bit of the id stays 0.
TakeUnmarked(p, bits) ==
  LET i == FirstFree(bits)
  IN  /\ pid' = [pid EXCEPT ![p] = i]
      /\ pid_bitmap' = bits
      /\ pid_bitmap_bytes' = Grown(pid_bitmap_bytes, i)

\* create_process() for p sets p->pid from the bits found in pid_bitmap.
Take(p, bits) ==
  LET i == FirstFree(bits)
  IN  /\ pid' = [pid EXCEPT ![p] = i]
      /\ pid_bitmap' = SetBits(bits, {i})
      /\ pid_bitmap_bytes' = Grown(pid_bitmap_bytes, i)

\* alloc_pid() the first time: init_pid_bitmap() gets a byte of the heap and
\* does not clear it; nor is the byte behind it, which id 8 uses, its own.
AllocPidFirst(p, content) ==
  /\ ~ready
  /\ pid[p] = None
  /\ ready' = TRUE
  /\ stale' = content
  /\ Take(p, content)

\* alloc_pid() from then on.
AllocPid(p) ==
  /\ ready
  /\ pid[p] = None
  /\ Take(p, pid_bitmap)
  /\ UNCHANGED <<ready, stale>>

\* free_pid(), which no code calls yet: a process gives its id back.
FreePid(p) ==
  /\ pid[p] # None
  /\ pid[p] > 0
  /\ pid_bitmap' = UnsetBits(pid_bitmap, {pid[p]})
  /\ pid' = [pid EXCEPT ![p] = None]
  /\ UNCHANGED <<ready, pid_bitmap_bytes, stale>>

PidNext ==
  \E p \in Procs :
    \/ \E content \in SUBSET (0 .. 8) : AllocPidFirst(p, content)
    \/ AllocPid(p)
    \/ FreePid(p)

PidSpec == PidInit /\ [][PidNext]_pid_vars

-----------------------------------------------------------------------------
(* Properties *)

\* Ids whose bit bitmap_test_bit() can see.
Visible == {i \in 1 .. MaxPid : Testable(i)}

\* Of the ids whose bit can be seen, a bit is 1 exactly if some process has
\* the id or the heap's byte had it from the start: no process ever gets an
\* id in use, an id given back can be had again, and one that was stale in
\* the byte never becomes usable.
VisibleExact ==
  ready =>
    /\ \A i \in Visible :
         i \in pid_bitmap <=> i \in stale \/ \E p \in Procs : pid[p] = i
    /\ \A p \in Procs : pid[p] \notin stale \cap Visible
    /\ \A p, q \in Procs : p # q /\ pid[p] = pid[q] => pid[p] \notin Visible

\* Ids stay so low that pid_bitmap never grows: the first id whose bit cannot
\* be seen, 8, is handed out whenever the seven below are taken, and no id
\* above it ever is.
NeverGrows ==
  /\ pid_bitmap_bytes = 1
  /\ \A p \in Procs : pid[p] # None => pid[p] \in 1 .. 8

=============================================================================
