------------------------------ MODULE Hashmap ------------------------------
(***************************************************************************)
(* The hash map of include/lib/hashmap.h: open addressing, a key within    *)
(* MaxChain cells of its home, a table that doubles when a key finds no    *)
(* cell.  hashmap_put() calls itself through hashmap_rehash_helper(), so   *)
(* the call in progress is a stack of frames, one per table being filled:  *)
(* the table, the element that hashmap_put() is to place in it (or none)   *)
(* and how far hashmap_iterate_pairs() has come in emptying it into the    *)
(* table of the next frame.                                                *)
(*                                                                         *)
(* A key stands for its bytes and length; Hash gives the number that the   *)
(* CRC and the mixing of hashmap_hash_helper_int_helper() make of it.      *)
(***************************************************************************)
EXTENDS Integers, Sequences, FiniteSets

CONSTANTS
  Maps, Keys, Values,
  Hash,       \* [Keys -> Nat]
  MaxChain,   \* HASHMAP_MAX_CHAIN_LENGTH
  InitSize,   \* the size a map is created with
  MaxTable,   \* the largest table the heap has room for
  NoValue     \* NULL

\* The powers of two that a size is.
PowersOfTwo ==
  {1, 2, 4, 8, 16, 32, 64, 128, 256, 512, 1024, 2048, 4096, 8192, 16384,
   32768, 65536, 131072, 262144, 524288, 1048576, 2097152, 4194304, 8388608,
   16777216, 33554432, 67108864, 134217728, 268435456, 536870912, 1073741824}

\* NULL is no key and no value, nor is "no call in progress" a call.
ASSUME HashmapAssumption ==
  /\ Hash \in [Keys -> Nat]
  /\ NoValue \notin Keys /\ NoValue \notin Values
  /\ NoValue \notin [map : Maps, key : Keys, data : Values]
  /\ MaxChain \in Nat \ {0}
  /\ {InitSize, MaxTable} \subseteq PowersOfTwo /\ InitSize <= MaxTable

Unused == [key |-> NoValue, data |-> NoValue]
InUse(t, i) == t.cells[i].key # NoValue

\* hashmap_create() with memory from kcalloc().
HashmapCreate(n) ==
  [table_size |-> n, size |-> 0, cells |-> [i \in 0 .. n - 1 |-> Unused]]

\* The i-th cell of the chain of key k.
Probe(t, k, i) == (Hash[k] + i) % t.table_size

Chain == 0 .. MaxChain - 1

\* Places of the chain where k is found, and where it could be put.
Matches(t, k) == {i \in Chain : t.cells[Probe(t, k, i)].key = k}
Holes(t, k)   == {i \in Chain : ~InUse(t, Probe(t, k, i))}

First(S) == CHOOSE i \in S : \A j \in S : i <= j

HashmapGet(t, k) ==
  IF Matches(t, k) = {} THEN NoValue
  ELSE t.cells[Probe(t, k, First(Matches(t, k)))].data

NoIndex == -1

\* Mutant: the first hole is taken without a look for the key behind it.
HashHelperHole(t, k) ==
  IF t.size >= t.table_size \/ Holes(t, k) = {} THEN NoIndex
  ELSE Probe(t, k, First(Holes(t, k)))

\* hashmap_hash_helper(): the cell for k.  A full table has none, not even
\* for a key that is in it.
HashHelper(t, k) ==
  IF t.size >= t.table_size THEN NoIndex
  ELSE IF Matches(t, k) # {} THEN Probe(t, k, First(Matches(t, k)))
  ELSE IF Holes(t, k) # {} THEN Probe(t, k, First(Holes(t, k)))
  ELSE NoIndex

SetCell(t, i, k, v) ==
  [t EXCEPT !.cells[i] = [key |-> k, data |-> v],
            !.size = IF InUse(t, i) THEN @ ELSE @ + 1]

ClearCell(t, i) == [t EXCEPT !.cells[i] = Unused, !.size = @ - 1]

----------------------------------------------------------------------------
VARIABLES
  maps,       \* maps[m]: the table of map m
  stack,      \* frames of the hashmap_put() in progress, the map's own first
  target,     \* the map it is for
  faulted     \* kcalloc() had no memory and cleared page 0

hvars == <<maps, stack, target, faulted>>

Frame(t, k, v) == [table |-> t, key |-> k, data |-> v, next |-> 0]

HashInit ==
  /\ maps = [m \in Maps |-> HashmapCreate(InitSize)]
  /\ stack = << >>
  /\ target \in Maps
  /\ faulted = FALSE

Idle == stack = << >> /\ ~faulted
Busy == stack # << >> /\ ~faulted

Depth  == Len(stack)
Top    == stack[Depth]
Below  == stack[Depth - 1]
Cell   == HashHelper(Top.table, Top.key)

\* hashmap_put() is called.
HashmapPut(m, k, v) ==
  /\ Idle
  /\ target' = m
  /\ stack' = <<Frame(maps[m], k, v)>>
  /\ UNCHANGED <<maps, faulted>>

\* The element is placed, and hashmap_put() on the map returns.
Place ==
  /\ Busy /\ Depth = 1 /\ Cell # NoIndex
  /\ maps' = [maps EXCEPT ![target] = SetCell(Top.table, Cell, Top.key, Top.data)]
  /\ stack' = << >>
  /\ UNCHANGED <<target, faulted>>

\* The element is placed in a new table; hashmap_rehash_iterator() returns -1
\* and hashmap_iterate_pairs() clears the old cell.
Move ==
  /\ Busy /\ Depth > 1 /\ Top.key # NoValue /\ Cell # NoIndex
  /\ stack' = [stack EXCEPT
       ![Depth] = Frame(SetCell(@.table, Cell, @.key, @.data), NoValue, NoValue),
       ![Depth - 1].table = ClearCell(@, Below.next),
       ![Depth - 1].next = @ + 1]
  /\ UNCHANGED <<maps, target, faulted>>

\* Mutant: the new table is no larger.
RehashSame ==
  /\ Busy /\ Top.key # NoValue /\ Cell = NoIndex
  /\ stack' = Append([stack EXCEPT ![Depth].next = 0],
                     Frame(HashmapCreate(Top.table.table_size), NoValue, NoValue))
  /\ UNCHANGED <<maps, target, faulted>>

\* No cell: hashmap_rehash_helper() creates a table of twice the size.
Rehash ==
  LET n == 2 * Top.table.table_size
  IN  /\ Busy /\ Top.key # NoValue /\ Cell = NoIndex
      /\ IF n <= MaxTable
         THEN /\ stack' = Append([stack EXCEPT ![Depth].next = 0],
                                 Frame(HashmapCreate(n), NoValue, NoValue))
              /\ UNCHANGED faulted
         ELSE faulted' = TRUE /\ UNCHANGED stack
      /\ UNCHANGED <<maps, target>>

\* hashmap_iterate_pairs() hands the next element over, or passes a cell.
Iterate ==
  LET i == Below.next
  IN  /\ Busy /\ Depth > 1 /\ Top.key = NoValue /\ i < Below.table.table_size
      /\ stack' = IF InUse(Below.table, i)
                  THEN [stack EXCEPT ![Depth].key = Below.table.cells[i].key,
                                     ![Depth].data = Below.table.cells[i].data]
                  ELSE [stack EXCEPT ![Depth - 1].next = @ + 1]
      /\ UNCHANGED <<maps, target, faulted>>

\* Mutant: the new table replaces the map before the iteration is over.
SwapEarly ==
  /\ Busy /\ Depth > 1 /\ Top.key = NoValue
  /\ Below.next >= Below.table.table_size - 1
  /\ stack' = [SubSeq(stack, 1, Depth - 1) EXCEPT ![Depth - 1].table = Top.table]
  /\ UNCHANGED <<maps, target, faulted>>

\* Mutant: the map is destroyed after the copy, not before.
SwapDestroyed ==
  /\ Busy /\ Depth > 1 /\ Top.key = NoValue
  /\ Below.next = Below.table.table_size
  /\ stack' = [SubSeq(stack, 1, Depth - 1) EXCEPT
                ![Depth - 1].table = HashmapCreate(0)]
  /\ UNCHANGED <<maps, target, faulted>>

\* The old table is destroyed and the new one copied over it; hashmap_put()
\* tries again.
Swap ==
  /\ Busy /\ Depth > 1 /\ Top.key = NoValue
  /\ Below.next = Below.table.table_size
  /\ stack' = [SubSeq(stack, 1, Depth - 1) EXCEPT ![Depth - 1].table = Top.table]
  /\ UNCHANGED <<maps, target, faulted>>

PutStep == Place \/ Move \/ Rehash \/ Iterate \/ Swap

\* hashmap_remove() and hashmap_remove_and_return_key().
HashmapRemove(m, k) ==
  LET t == maps[m]
  IN  /\ Idle /\ Matches(t, k) # {}
      /\ maps' = [maps EXCEPT
           ![m] = ClearCell(t, Probe(t, k, First(Matches(t, k))))]
      /\ UNCHANGED <<stack, target, faulted>>

----------------------------------------------------------------------------
(* Properties.                                                             *)

Tables == {maps[m] : m \in Maps} \cup {stack[i].table : i \in 1 .. Len(stack)}

HashTypeOK ==
  /\ \A t \in Tables :
       /\ t.table_size \in PowersOfTwo /\ t.table_size \in InitSize .. MaxTable
       /\ t.cells \in [0 .. t.table_size - 1 ->
                         [key : Keys, data : Values] \cup {Unused}]
  /\ \A i \in 1 .. Len(stack) : stack[i].next \in 0 .. stack[i].table.table_size
  /\ target \in Maps /\ faulted \in BOOLEAN

\* In the map and in every table that a rehash is filling or emptying, each
\* element is found by hashmap_get() in the one cell that holds its key, so no
\* key is out of reach of its chain and none is stored twice; and size, the
\* "full" test of hashmap_hash_helper(), is the number of cells in use.
Findable ==
  \A t \in Tables :
    /\ \A i \in 0 .. t.table_size - 1 :
         InUse(t, i) => Probe(t, t.cells[i].key, First(Matches(t, t.cells[i].key))) = i
    /\ t.size = Cardinality({i \in 0 .. t.table_size - 1 : InUse(t, i)})

\* What m maps k to, wherever a rehash has the element at the moment.
Lookup(m, k) ==
  LET own  == IF stack # << >> /\ target = m
              THEN {stack[i].table : i \in 1 .. Len(stack)} ELSE {maps[m]}
      hits == {HashmapGet(t, k) : t \in own} \ {NoValue}
  IN  IF hits = {} THEN NoValue ELSE CHOOSE v \in hits : TRUE

Contents == INSTANCE Dict WITH
  dict <- [m \in Maps |-> [k \in Keys |-> Lookup(m, k)]],
  call <- IF stack = << >> THEN NoValue
          ELSE [map |-> target, key |-> stack[1].key, data |-> stack[1].data]

\* Puts and removes are those of a dictionary: rehashing neither loses nor
\* revives an element, at any depth.
DictPromise == Contents!Spec

\* A put that has begun returns, or the machine faults for want of memory.
PutReturns == Busy ~> (Idle \/ faulted)
=============================================================================
