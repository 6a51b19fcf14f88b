------------------------------- MODULE MCVmm -------------------------------
(***************************************************************************)
(* Instances of Vmm for TLC: tables of four entries, two per half at the   *)
(* top.  The boot loader's PML4 has the first slot of the kernel half down *)
(* to a page table, and its second slot empty.                             *)
(***************************************************************************)
EXTENDS Vmm

CONSTANT d1

\* A table with one entry.
Only(i, e) == [Zero EXCEPT ![i] = e]

MCBootTables ==
  [f \in 0 .. 3 |-> CASE f = 0 -> Only(2, 1)
                      [] f = 1 -> Only(0, 2)
                      [] f = 2 -> Only(0, 3)
                      [] f = 3 -> Only(0, d1)]

\* Two pages with a table in common, one of the kernel half, which has no page
\* table at first, and a late one.
MCPages == {<<0, 0, 0, 0>>, <<0, 0, 1, 0>>, <<2, 0, 1, 0>>, <<3, 0, 0, 0>>}

\* Memory that was never used, and memory with a word that looks like an entry
\* where memzero() does not reach.
MCLeftoverZero == [f \in Frames \ DOMAIN BootTables |-> Zero]
MCLeftoverUsed == [f \in Frames \ DOMAIN BootTables |-> IF f = 4 THEN Only(1, 5) ELSE Zero]
=============================================================================
