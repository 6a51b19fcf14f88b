------------------------------- MODULE MCPmm -------------------------------
(***************************************************************************)
(* Instances of Pmm for TLC: a page of 4 bytes, so that a bitmap of one    *)
(* page has 32 bits, the width at which bitmap_test_bit()'s shift wraps.   *)
(***************************************************************************)
EXTENDS Pmm, TLC

CONSTANTS c1, c2, c3

Entry(first, n, usable) ==
  [base |-> 4 * first, length |-> 4 * n, usable |-> usable]

\* Low memory, firmware, high memory; the bitmap (64 bits) goes low.
Split == << Entry(1, 11, TRUE), Entry(12, 4, FALSE), Entry(16, 25, TRUE) >>

\* Low memory too small for the bitmap, which goes to the start of the high
\* memory; seven frames lie past the bitmap's last bit (71 frames, 64 bits).
High == << Entry(1, 1, TRUE), Entry(2, 2, FALSE), Entry(4, 67, TRUE) >>

\* A chunk exactly as large as the bitmap.
Exact == << Entry(2, 1, TRUE), Entry(3, 1, FALSE), Entry(5, 4, TRUE) >>

MCMaps    == {Split, High, Exact}
MCCallers == {c1, c2, c3}
Symmetry  == Permutations(MCCallers)

\* The condition the model branches on is the value the code computes.
ASSUME TestBitAgrees ==
  \A b \in 0 .. 255 : \A bits0 \in {{}, {b}} :
    BitmapTestBit(bits0, b) <=> TestBitValue(bits0, b) # 0

=============================================================================
