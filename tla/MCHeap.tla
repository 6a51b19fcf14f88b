------------------------------- MODULE MCHeap -------------------------------
(***************************************************************************)
(* Instances of Heap for TLC: classes of four lists (32 in the code), the  *)
(* largest block 256 bytes.  The first block is at address 0 because the   *)
(* one of the kernel is a multiple of 128: a page and the 6536 bytes of    *)
(* the control structure, less the size word.                              *)
(***************************************************************************)
EXTENDS Heap

Boot  == [mem |-> 8, bytes |-> 216]
Extra == [mem |-> 520, bytes |-> 59]
Tiny  == [mem |-> 800, bytes |-> 36]     \* refused: too small
Odd   == [mem |-> 844, bytes |-> 80]     \* refused: not aligned

MCPools == {Extra, Tiny, Odd}
=============================================================================
