------------------------------- MODULE Arena -------------------------------
(***************************************************************************)
(* What a heap promises its callers, with no word on how it finds memory:  *)
(* the regions handed out lie in pools, never overlap, are at least as     *)
(* large and as aligned as was asked for, and keep their place until they  *)
(* are given back or moved by a realloc.  Heap implements it.              *)
(***************************************************************************)
EXTENDS Integers

CONSTANTS
  Extents,    \* the pools there can be: records of first and last byte
  Requests,   \* numbers of bytes asked for
  Aligns      \* alignments asked for

VARIABLES
  extents,    \* the pools the heap owns
  regions     \* address -> [asked, align, bytes], the regions handed out

avars == <<extents, regions>>

Overlap(p, m, q, n) == p < q + n /\ q < p + m

\* [p, p + r.bytes) is a region the heap may hand out beside others.
Fresh(p, r, others) ==
  /\ r.bytes >= r.asked /\ p % r.align = 0
  /\ \E e \in extents : e.first <= p /\ p + r.bytes - 1 <= e.last
  /\ \A q \in DOMAIN others : ~Overlap(p, r.bytes, q, others[q].bytes)

Without(p)  == [q \in DOMAIN regions \ {p} |-> regions[q]]
With(rs, p, r) == [q \in DOMAIN rs \cup {p} |-> IF q = p THEN r ELSE rs[q]]

Init == extents \in SUBSET Extents /\ regions = << >>

\* malloc, memalign: a region is handed out.
Take ==
  /\ \E p \in DOMAIN regions' : \E n \in Requests, a \in Aligns :
       LET r == regions'[p]
       IN  /\ p \notin DOMAIN regions
           /\ r.asked = n /\ r.align = a
           /\ Fresh(p, r, regions)
           /\ regions' = With(regions, p, r)
  /\ UNCHANGED extents

\* free, realloc to nothing.
Give ==
  /\ \E p \in DOMAIN regions : regions' = Without(p)
  /\ UNCHANGED extents

\* realloc: the region is resized in place or moved; no other one changes.
Resize ==
  /\ \E p \in DOMAIN regions, q \in DOMAIN regions' : \E n \in Requests :
       LET r == regions'[q]
       IN  /\ r.asked = n
           /\ q = p => r.align = regions[p].align
           /\ Fresh(q, r, Without(p))
           /\ regions' = With(Without(p), q, r)
  /\ UNCHANGED extents

AddExtent ==
  /\ \E e \in Extents \ extents : extents' = extents \cup {e}
  /\ UNCHANGED regions

\* Only a pool with nothing handed out may go.
DropExtent ==
  /\ \E e \in extents :
       /\ \A p \in DOMAIN regions : ~(e.first <= p /\ p <= e.last)
       /\ extents' = extents \ {e}
  /\ UNCHANGED regions

Next == Take \/ Give \/ Resize \/ AddExtent \/ DropExtent

Spec == Init /\ [][Next]_avars
=============================================================================
