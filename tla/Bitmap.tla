------------------------------- MODULE Bitmap -------------------------------
(***************************************************************************)
(* libkern/bitmap.c.  A bitmap_t is the set of its bits that are 1; memory *)
(* past the end of a bitmap is addressed by larger numbers, as it is by    *)
(* bitmap[bit / 8].                                                        *)
(***************************************************************************)
EXTENDS Integers

\* bitmap_set_bit() for each of the given bits.
SetBits(bits, some) == bits \cup some

\* bitmap_unset_bit() for each of the given bits.
UnsetBits(bits, some) == bits \ some

\* x >> k, in two halves so that 2^31 stays out of it.
Sar(x, k) == (x \div 2^(k \div 2)) \div 2^(k - k \div 2)

\* bitmap_test_bit(): (byte & (1 << (bit % 8))) >> bit.  The value is an int
\* and the build shifts it with sar, which uses the count modulo 32.
TestBitValue(bits, bit) ==
  Sar(IF bit \in bits THEN 2^(bit % 8) ELSE 0, bit % 32)

\* The value is non-zero exactly for a bit that is 1 and has bit % 32 < 8.
Testable(bit) == bit % 32 < 8

\* bitmap_test_bit() as a condition.
BitmapTestBit(bits, bit) == bit \in bits /\ Testable(bit)

=============================================================================
