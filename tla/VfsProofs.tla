------------------------------ MODULE VfsProofs ------------------------------
(***************************************************************************)
(* Proofs about the hash map and the tree of vnodes kept in hash maps: the *)
(* types, that every element is found in the one cell that holds its key,  *)
(* that the maps implement dictionaries, and that a path is found exactly  *)
(* when the tree has it.                                                   *)
(***************************************************************************)
EXTENDS Vfs, FiniteSetTheorems, WellFoundedInduction, TLAPS

----------------------------------------------------------------------------
(* One table.  E is the set of the elements that may be in it.             *)

Pair  == [key : Keys, data : Values]
Sizes == {n \in PowersOfTwo : InitSize <= n /\ n <= MaxTable}

TableOf(E) ==
  UNION {[table_size : {n}, size : Nat, cells : [0 .. n - 1 -> E \cup {Unused}]] :
           n \in Sizes}

Used(t) == {i \in 0 .. t.table_size - 1 : InUse(t, i)}

\* An element is within the chain of its key.
Within(t) ==
  \A i \in Used(t) : \E j \in Chain : Probe(t, t.cells[i].key, j) = i

\* No key is stored twice.
Once(t) ==
  \A i, j \in Used(t) : t.cells[i].key = t.cells[j].key => i = j

GoodTable(t, E) ==
  t \in TableOf(E) /\ Within(t) /\ Once(t) /\ t.size = Cardinality(Used(t))

\* A set of numbers that is not empty has a first one: First() is defined.
LEMMA FirstIs ==
  ASSUME NEW S \in SUBSET Nat, S # {}
  PROVE  First(S) \in S /\ \A j \in S : First(S) <= j
<1>1. \E x \in S : \A y \in S : ~(<<y, x>> \in OpToRel(<, Nat))
  BY NatLessThanWellFounded, WFMin
<1>2. \A x \in S, y \in S : ~(<<y, x>> \in OpToRel(<, Nat)) => x <= y
  BY DEF OpToRel
<1>3. \E x \in S : \A y \in S : x <= y
  BY <1>1, <1>2
<1>4. QED
  BY <1>3 DEF First

\* A table has a size, and twice it is a size when there is memory for it.
LEMMA SizeFacts ==
  ASSUME NEW n \in Sizes
  PROVE  /\ n \in Nat /\ n > 0 /\ n \in PowersOfTwo /\ n \in InitSize .. MaxTable
         /\ 2 * n <= MaxTable => 2 * n \in Sizes
<1>1. InitSize \in PowersOfTwo /\ MaxTable \in PowersOfTwo
  BY HashmapAssumption
<1>2. InitSize \in Nat /\ MaxTable \in Nat /\ MaxTable <= 1073741824
  BY <1>1 DEF PowersOfTwo
<1>3. n \in PowersOfTwo /\ InitSize <= n /\ n <= MaxTable
  BY DEF Sizes
<1>4. n \in Nat /\ n > 0
  BY <1>3 DEF PowersOfTwo
<1>5. ASSUME 2 * n <= MaxTable PROVE 2 * n \in PowersOfTwo
  BY <1>2, <1>3, <1>5 DEF PowersOfTwo
<1>6. QED
  BY <1>2, <1>3, <1>4, <1>5 DEF Sizes

\* The parts of a table.
LEMMA TableParts ==
  ASSUME NEW E, NEW t \in TableOf(E)
  PROVE  /\ t.table_size \in Sizes /\ t.table_size \in Nat /\ t.table_size > 0
         /\ t.size \in Nat
         /\ t.cells \in [0 .. t.table_size - 1 -> E \cup {Unused}]
<1>1. PICK n \in Sizes :
        t \in [table_size : {n}, size : Nat, cells : [0 .. n - 1 -> E \cup {Unused}]]
  BY DEF TableOf
<1>2. QED
  BY <1>1, SizeFacts

\* A probe stays within the table.
LEMMA ProbeIn ==
  ASSUME NEW E, NEW t \in TableOf(E), NEW k \in Keys, NEW i \in Chain
  PROVE  Probe(t, k, i) \in 0 .. t.table_size - 1
<1>1. Hash[k] + i \in Nat
  BY HashmapAssumption DEF Chain
<1>2. QED
  BY <1>1, TableParts DEF Probe

\* A new table is good and empty.
LEMMA Created ==
  ASSUME NEW E, NEW n \in Sizes
  PROVE  GoodTable(HashmapCreate(n), E) /\ Used(HashmapCreate(n)) = {}
         /\ HashmapCreate(n).table_size = n
<1> DEFINE t == HashmapCreate(n)
<1>1. t.table_size = n /\ t.size = 0 /\ t.cells = [i \in 0 .. n - 1 |-> Unused]
  BY DEF HashmapCreate
<1>2. t \in TableOf(E)
  BY SizeFacts DEF TableOf, HashmapCreate
<1>3. Used(t) = {}
  BY <1>1 DEF Used, InUse, Unused
<1>4. Cardinality(Used(t)) = 0
  BY <1>3, FS_EmptySet
<1>5. QED
  BY <1>1, <1>2, <1>3, <1>4 DEF GoodTable, Within, Once

\* A cell of a good table is unused or holds an element of E.
LEMMA CellIs ==
  ASSUME NEW E \in SUBSET Pair, NEW t \in TableOf(E), NEW i \in 0 .. t.table_size - 1
  PROVE  /\ i \in Used(t) => /\ t.cells[i] \in E
                             /\ t.cells[i].key \in Keys /\ t.cells[i].data \in Values
                             /\ t.cells[i] = [key |-> t.cells[i].key,
                                              data |-> t.cells[i].data]
         /\ i \notin Used(t) => t.cells[i] = Unused
<1>1. t.cells[i] \in E \cup {Unused}
  BY TableParts
<1>2. ASSUME t.cells[i] \in E
      PROVE  /\ t.cells[i].key \in Keys /\ t.cells[i].data \in Values
             /\ t.cells[i] = [key |-> t.cells[i].key, data |-> t.cells[i].data]
  BY <1>2 DEF Pair
<1>3. QED
  BY <1>1, <1>2, HashmapAssumption DEF Used, InUse, Unused

\* The cells where key k is found, and the cell for it.
LEMMA MatchIs ==
  ASSUME NEW E \in SUBSET Pair, NEW t, GoodTable(t, E), NEW k \in Keys
  PROVE  /\ \A i \in Used(t) : t.cells[i].key = k =>
               Matches(t, k) # {} /\ Probe(t, k, First(Matches(t, k))) = i
         /\ Matches(t, k) # {} =>
               /\ Probe(t, k, First(Matches(t, k))) \in Used(t)
               /\ t.cells[Probe(t, k, First(Matches(t, k)))].key = k
<1>1. t \in TableOf(E) /\ Within(t) /\ Once(t)
  BY DEF GoodTable
<1>2. ASSUME Matches(t, k) # {}
      PROVE  /\ Probe(t, k, First(Matches(t, k))) \in Used(t)
             /\ t.cells[Probe(t, k, First(Matches(t, k)))].key = k
  <2>1. Matches(t, k) \in SUBSET Nat
    BY HashmapAssumption DEF Matches, Chain
  <2>2. First(Matches(t, k)) \in Matches(t, k)
    BY <1>2, <2>1, FirstIs
  <2>3. PICK j \in Chain : j = First(Matches(t, k)) /\ t.cells[Probe(t, k, j)].key = k
    BY <2>2 DEF Matches
  <2>4. Probe(t, k, j) \in 0 .. t.table_size - 1
    BY <1>1, ProbeIn
  <2>5. QED
    BY <2>3, <2>4, HashmapAssumption DEF Used, InUse
<1>3. ASSUME NEW i \in Used(t), t.cells[i].key = k
      PROVE  Matches(t, k) # {} /\ Probe(t, k, First(Matches(t, k))) = i
  <2>1. PICK j \in Chain : Probe(t, k, j) = i
    BY <1>1, <1>3 DEF Within
  <2>2. j \in Matches(t, k)
    BY <1>3, <2>1 DEF Matches
  <2>3. QED
    BY <1>1, <1>2, <1>3, <2>2 DEF Once
<1>4. QED
  BY <1>2, <1>3

\* hashmap_get() returns the data of the cell that holds the key, if one does.
LEMMA GetIs ==
  ASSUME NEW E \in SUBSET Pair, NEW t, GoodTable(t, E), NEW k \in Keys
  PROVE  /\ \A i \in Used(t) : t.cells[i].key = k =>
               HashmapGet(t, k) = t.cells[i].data
         /\ (\A i \in Used(t) : t.cells[i].key # k) => HashmapGet(t, k) = NoValue
         /\ HashmapGet(t, k) # NoValue =>
               \E i \in Used(t) : t.cells[i] = [key |-> k, data |-> HashmapGet(t, k)]
         /\ HashmapGet(t, k) \in Values \cup {NoValue}
<1>1. \A i \in Used(t) : t.cells[i].key = k => HashmapGet(t, k) = t.cells[i].data
  BY MatchIs DEF HashmapGet
<1>2. (\A i \in Used(t) : t.cells[i].key # k) => HashmapGet(t, k) = NoValue
  BY MatchIs DEF HashmapGet
<1>3. \A i \in Used(t) : /\ t.cells[i].data \in Values
                         /\ t.cells[i] = [key |-> t.cells[i].key,
                                          data |-> t.cells[i].data]
  BY CellIs DEF GoodTable, Used
<1>4. QED
  BY <1>1, <1>2, <1>3

\* The cell that hashmap_hash_helper() returns for a key is one of its chain:
\* the one that holds it, or else one that is not in use.
LEMMA HelperIs ==
  ASSUME NEW E \in SUBSET Pair, NEW t, GoodTable(t, E), NEW k \in Keys,
         HashHelper(t, k) # NoIndex
  PROVE  /\ HashHelper(t, k) \in 0 .. t.table_size - 1
         /\ \E j \in Chain : Probe(t, k, j) = HashHelper(t, k)
         /\ HashHelper(t, k) \in Used(t) => t.cells[HashHelper(t, k)].key = k
         /\ \A i \in Used(t) : t.cells[i].key = k => i = HashHelper(t, k)
<1> DEFINE c == HashHelper(t, k)
<1>1. t \in TableOf(E)
  BY DEF GoodTable
<1>2. CASE Matches(t, k) # {}
  <2>1. c = Probe(t, k, First(Matches(t, k)))
    BY <1>2 DEF HashHelper
  <2>2. c \in Used(t) /\ t.cells[c].key = k
    BY <1>2, <2>1, MatchIs
  <2>3. \E j \in Chain : Probe(t, k, j) = c
    BY <2>2 DEF GoodTable, Within
  <2>4. \A i \in Used(t) : t.cells[i].key = k => i = c
    BY <2>2 DEF GoodTable, Once
  <2>5. c \in 0 .. t.table_size - 1
    BY <2>2 DEF Used
  <2>6. QED
    BY <2>2, <2>3, <2>4, <2>5
<1>3. CASE Matches(t, k) = {}
  <2>1. Holes(t, k) # {} /\ c = Probe(t, k, First(Holes(t, k)))
    BY <1>3 DEF HashHelper
  <2>2. Holes(t, k) \in SUBSET Nat
    BY HashmapAssumption DEF Holes, Chain
  <2>3. First(Holes(t, k)) \in Holes(t, k)
    BY <2>1, <2>2, FirstIs
  <2>4. PICK j \in Chain : j = First(Holes(t, k)) /\ ~InUse(t, Probe(t, k, j))
    BY <2>3 DEF Holes
  <2>5. c = Probe(t, k, j) /\ c \notin Used(t)
    BY <2>1, <2>4 DEF Used
  <2>6. c \in 0 .. t.table_size - 1
    BY <1>1, <2>5, ProbeIn
  <2>7. \A i \in Used(t) : t.cells[i].key # k
    BY <1>3, MatchIs
  <2>8. QED
    BY <2>5, <2>6, <2>7
<1>4. QED
  BY <1>2, <1>3

\* The cells in use are finitely many.
LEMMA UsedFinite ==
  ASSUME NEW E, NEW t \in TableOf(E)
  PROVE  IsFiniteSet(Used(t))
<1>1. IsFiniteSet(0 .. t.table_size - 1)
  BY TableParts, FS_Interval
<1>2. QED
  BY <1>1, FS_Subset DEF Used

\* The records that setting and clearing a cell make.
LEMMA RecordIs ==
  ASSUME NEW P, NEW Q, NEW R, NEW t \in [table_size : P, size : Q, cells : R],
         NEW i, NEW e, NEW w
  PROVE  [t EXCEPT !.cells[i] = e, !.size = w]
         = [table_size |-> t.table_size, size |-> w, cells |-> [t.cells EXCEPT ![i] = e]]
<1>1. PICK g : g = [t.cells EXCEPT ![i] = e]
  OBVIOUS
<1>2. PICK r : r = [t EXCEPT !.cells = g]
  OBVIOUS
<1>3. r \in [table_size : P, size : Q, cells : {g}]
  BY <1>2
<1>4. r.table_size = t.table_size /\ r.cells = g
  BY <1>2
<1>5. [r EXCEPT !.size = w] = [table_size |-> t.table_size, size |-> w, cells |-> g]
  BY <1>3, <1>4
<1>6. [t EXCEPT !.cells[i] = e, !.size = w] = [r EXCEPT !.size = w]
  BY <1>1, <1>2
<1>7. QED
  BY <1>1, <1>5, <1>6

\* What hashmap_put() makes of a table when there is a cell for the key.
LEMMA SetIs ==
  ASSUME NEW E \in SUBSET Pair, NEW t, GoodTable(t, E), NEW k \in Keys, NEW v \in Values,
         [key |-> k, data |-> v] \in E, HashHelper(t, k) # NoIndex,
         NEW u, u = SetCell(t, HashHelper(t, k), k, v)
  PROVE  /\ GoodTable(u, E) /\ u.table_size = t.table_size
         /\ \A h \in Keys : HashmapGet(u, h) = IF h = k THEN v ELSE HashmapGet(t, h)
<1> DEFINE c == HashHelper(t, k)
           n == t.table_size
           e == [key |-> k, data |-> v]
<1>1. /\ c \in 0 .. n - 1
      /\ \E j \in Chain : Probe(t, k, j) = c
      /\ c \in Used(t) => t.cells[c].key = k
      /\ \A i \in Used(t) : t.cells[i].key = k => i = c
  BY HelperIs
<1>2. /\ t \in TableOf(E) /\ Within(t) /\ Once(t) /\ t.size = Cardinality(Used(t))
  BY DEF GoodTable
<1>3. /\ n \in Sizes /\ n \in Nat /\ t.size \in Nat
      /\ t.cells \in [0 .. n - 1 -> E \cup {Unused}]
      /\ u = SetCell(t, c, k, v)
  BY <1>2, TableParts
<1> HIDE DEF c
<1>4. PICK w \in Nat : w = IF c \in Used(t) THEN t.size ELSE t.size + 1
  BY <1>3
<1>5. InUse(t, c) <=> c \in Used(t)
  BY <1>1 DEF Used
<1>6. u = [table_size |-> n, size |-> w, cells |-> [t.cells EXCEPT ![c] = e]]
  <2>1. PICK m \in Sizes :
          t \in [table_size : {m}, size : Nat, cells : [0 .. m - 1 -> E \cup {Unused}]]
    BY <1>2 DEF TableOf
  <2>2. w = IF InUse(t, c) THEN t.size ELSE t.size + 1
    BY <1>4, <1>5
  <2>3. u = [t EXCEPT !.cells[c] = e, !.size = w]
    BY <1>3, <2>2 DEF SetCell
  <2>4. QED
    BY <2>1, <2>3, RecordIs
<1>7. /\ u.table_size = n /\ u.size = w /\ u.cells \in [0 .. n - 1 -> E \cup {Unused}]
      /\ u.cells[c] = e
      /\ \A i \in 0 .. n - 1 : i # c => u.cells[i] = t.cells[i]
  BY <1>1, <1>3, <1>6
<1>8. u \in TableOf(E)
  BY <1>3, <1>6, <1>7 DEF TableOf
<1>9. Used(u) = Used(t) \cup {c}
  BY <1>1, <1>7, HashmapAssumption DEF Used, InUse
<1>10. Within(u)
  BY <1>1, <1>2, <1>7, <1>9 DEF Within, Probe, Used
<1>11. Once(u)
  BY <1>1, <1>2, <1>7, <1>9 DEF Once, Used
<1>12. u.size = Cardinality(Used(u))
  <2>1. IsFiniteSet(Used(t))
    BY <1>2, UsedFinite
  <2>2. Cardinality(Used(t) \cup {c}) =
          IF c \in Used(t) THEN Cardinality(Used(t)) ELSE Cardinality(Used(t)) + 1
    BY <2>1, FS_AddElement
  <2>3. QED
    BY <1>2, <1>4, <1>7, <1>9, <2>2
<1>13. GoodTable(u, E)
  BY <1>8, <1>10, <1>11, <1>12 DEF GoodTable
<1>14. ASSUME NEW h \in Keys
       PROVE  HashmapGet(u, h) = IF h = k THEN v ELSE HashmapGet(t, h)
  <2>1. CASE h = k
    <3>1. c \in Used(u) /\ u.cells[c].key = k /\ u.cells[c].data = v
      BY <1>7, <1>9
    <3>2. QED
      BY <2>1, <3>1, <1>13, GetIs
  <2>2. CASE h # k /\ \E i \in Used(t) : t.cells[i].key = h
    <3>1. PICK i \in Used(t) : t.cells[i].key = h
      BY <2>2
    <3>2. i \in Used(u) /\ u.cells[i] = t.cells[i]
      BY <1>1, <1>7, <1>9, <2>2, <3>1 DEF Used
    <3>3. HashmapGet(u, h) = t.cells[i].data
      <4>1. \A j \in Used(u) : u.cells[j].key = h => HashmapGet(u, h) = u.cells[j].data
        BY <1>13, GetIs
      <4>2. QED
        BY <3>1, <3>2, <4>1
    <3>4. HashmapGet(t, h) = t.cells[i].data
      BY <3>1, GetIs
    <3>5. QED
      BY <2>2, <3>3, <3>4
  <2>3. CASE h # k /\ \A i \in Used(t) : t.cells[i].key # h
    <3>1. \A i \in Used(u) : u.cells[i].key # h
      BY <1>7, <1>9, <2>3 DEF Used
    <3>2. HashmapGet(u, h) = NoValue
      BY <1>13, <3>1, GetIs
    <3>3. HashmapGet(t, h) = NoValue
      BY <2>3, GetIs
    <3>4. QED
      BY <2>3, <3>2, <3>3
  <2>4. QED
    BY <2>1, <2>2, <2>3
<1>15. QED
  BY <1>7, <1>13, <1>14

\* u is t without the element of cell c.
Cleared(t, c, u, E) ==
  /\ GoodTable(u, E) /\ u.table_size = t.table_size
  /\ Used(u) = Used(t) \ {c}
  /\ \A h \in Keys : HashmapGet(u, h) =
       IF h = t.cells[c].key THEN NoValue ELSE HashmapGet(t, h)

\* What clearing the cell of a key makes of a table.
LEMMA ClearIs ==
  ASSUME NEW E \in SUBSET Pair, NEW t, GoodTable(t, E), NEW c \in Used(t),
         NEW u, u = ClearCell(t, c)
  PROVE  Cleared(t, c, u, E)
<1> DEFINE n == t.table_size
           k == t.cells[c].key
<1>1. /\ t \in TableOf(E) /\ Within(t) /\ Once(t) /\ t.size = Cardinality(Used(t))
  BY DEF GoodTable
<1>2. /\ n \in Sizes /\ n \in Nat /\ t.size \in Nat
      /\ t.cells \in [0 .. n - 1 -> E \cup {Unused}]
  BY <1>1, TableParts
<1>3. c \in 0 .. n - 1
  BY DEF Used
<1>4. IsFiniteSet(Used(t)) /\ Cardinality(Used(t) \ {c}) = Cardinality(Used(t)) - 1
      /\ Cardinality(Used(t) \ {c}) \in Nat
  BY <1>1, UsedFinite, FS_RemoveElement, FS_CardinalityType
<1>5. u = [table_size |-> n, size |-> t.size - 1, cells |-> [t.cells EXCEPT ![c] = Unused]]
  <2>1. PICK m \in Sizes :
          t \in [table_size : {m}, size : Nat, cells : [0 .. m - 1 -> E \cup {Unused}]]
    BY <1>1 DEF TableOf
  <2>2. u = [t EXCEPT !.cells[c] = Unused, !.size = t.size - 1]
    BY DEF ClearCell
  <2>3. QED
    BY <2>1, <2>2, RecordIs
<1>6. /\ u.table_size = n /\ u.size = t.size - 1
      /\ u.cells \in [0 .. n - 1 -> E \cup {Unused}]
      /\ u.cells[c] = Unused
      /\ \A i \in 0 .. n - 1 : i # c => u.cells[i] = t.cells[i]
  BY <1>2, <1>3, <1>5
<1>7. u \in TableOf(E)
  BY <1>1, <1>2, <1>4, <1>5, <1>6 DEF TableOf
<1>8. Used(u) = Used(t) \ {c}
  BY <1>3, <1>6 DEF Used, InUse, Unused
<1>9. Within(u)
  BY <1>1, <1>6, <1>8 DEF Within, Probe, Used
<1>10. Once(u)
  BY <1>1, <1>6, <1>8 DEF Once, Used
<1>11. GoodTable(u, E)
  BY <1>1, <1>4, <1>6, <1>7, <1>8, <1>9, <1>10 DEF GoodTable
<1>12. ASSUME NEW h \in Keys
       PROVE  HashmapGet(u, h) = IF h = k THEN NoValue ELSE HashmapGet(t, h)
  <2>1. CASE h = k
    <3>1. \A i \in Used(u) : u.cells[i].key # k
      BY <1>1, <1>6, <1>8 DEF Once, Used
    <3>2. HashmapGet(u, k) = NoValue
      <4>1. (\A i \in Used(u) : u.cells[i].key # h) => HashmapGet(u, h) = NoValue
        BY <1>11, GetIs
      <4>2. QED
        BY <2>1, <3>1, <4>1
    <3>3. QED
      BY <2>1, <3>2
  <2>2. CASE h # k /\ \E i \in Used(t) : t.cells[i].key = h
    <3>1. PICK i \in Used(t) : t.cells[i].key = h
      BY <2>2
    <3>2. i \in Used(u) /\ u.cells[i] = t.cells[i]
      BY <1>6, <1>8, <2>2, <3>1 DEF Used
    <3>3. HashmapGet(u, h) = t.cells[i].data
      <4>1. \A j \in Used(u) : u.cells[j].key = h => HashmapGet(u, h) = u.cells[j].data
        BY <1>11, GetIs
      <4>2. QED
        BY <3>1, <3>2, <4>1
    <3>4. HashmapGet(t, h) = t.cells[i].data
      BY <3>1, GetIs
    <3>5. QED
      BY <2>2, <3>3, <3>4
  <2>3. CASE h # k /\ \A i \in Used(t) : t.cells[i].key # h
    <3>1. \A i \in Used(u) : u.cells[i].key # h
      BY <1>6, <1>8, <2>3 DEF Used
    <3>2. HashmapGet(u, h) = NoValue
      BY <1>11, <3>1, GetIs
    <3>3. HashmapGet(t, h) = NoValue
      BY <2>3, GetIs
    <3>4. QED
      BY <2>3, <3>2, <3>3
  <2>4. QED
    BY <2>1, <2>2, <2>3
<1>13. QED
  BY <1>6, <1>8, <1>11, <1>12 DEF Cleared

----------------------------------------------------------------------------
(* The stack of a put.                                                     *)

FrameOf(E) ==
  [table : TableOf(E), key : Keys \cup {NoValue}, data : Values \cup {NoValue}, next : Nat]

GoodFrame(f, E) ==
  /\ f \in FrameOf(E)
  /\ GoodTable(f.table, E)
  /\ f.next <= f.table.table_size
  /\ f.key # NoValue => [key |-> f.key, data |-> f.data] \in E

\* The element to place in g is the one that the iteration over f has come to.
Handed(f, g) ==
  /\ f.next \in Used(f.table)
  /\ f.table.cells[f.next] = [key |-> g.key, data |-> g.data]

\* The iteration over f has left nothing behind it.
Emptied(f) == \A i \in Used(f.table) : f.next <= i

\* No key is in both tables.
Apart(f, g) ==
  \A k \in Keys : HashmapGet(f.table, k) = NoValue \/ HashmapGet(g.table, k) = NoValue

GoodStack(s, E) ==
  /\ s \in Seq(FrameOf(E))
  /\ \A d \in 1 .. Len(s) : GoodFrame(s[d], E)
  /\ \A d \in 1 .. Len(s) : (d = 1 \/ d < Len(s)) => s[d].key # NoValue
  /\ \A d \in 1 .. Len(s) : (d > 1 /\ s[d].key # NoValue) => Handed(s[d - 1], s[d])
  /\ \A d \in 1 .. Len(s), e \in 1 .. Len(s) :
       d < e => /\ s[d].table.table_size < s[e].table.table_size
                /\ Apart(s[d], s[e])
  /\ \A d \in 1 .. Len(s) : d < Len(s) => Emptied(s[d])

\* What the tables of a stack map k to.
Hits(s, k) == {HashmapGet(s[d].table, k) : d \in 1 .. Len(s)} \ {NoValue}

\* s and r hold the same elements, for the same call.
SameStack(s, r) ==
  /\ r # << >>
  /\ r[1].key = s[1].key /\ r[1].data = s[1].data
  /\ \A k \in Keys : Hits(r, k) = Hits(s, k)

\* The parts of a good frame.
LEMMA FrameParts ==
  ASSUME NEW E, NEW f, GoodFrame(f, E)
  PROVE  /\ f.table \in TableOf(E) /\ GoodTable(f.table, E)
         /\ f.key \in Keys \cup {NoValue} /\ f.data \in Values \cup {NoValue}
         /\ f.next \in Nat /\ f.next <= f.table.table_size
         /\ f.table.table_size \in Sizes /\ f.table.table_size \in Nat
         /\ f.table.table_size > 0
         /\ f = [table |-> f.table, key |-> f.key, data |-> f.data, next |-> f.next]
<1>1. f \in FrameOf(E) /\ GoodTable(f.table, E) /\ f.next <= f.table.table_size
  BY DEF GoodFrame
<1>2. /\ f.table \in TableOf(E) /\ f.key \in Keys \cup {NoValue}
      /\ f.data \in Values \cup {NoValue} /\ f.next \in Nat
      /\ f = [table |-> f.table, key |-> f.key, data |-> f.data, next |-> f.next]
  BY <1>1 DEF FrameOf
<1>3. QED
  BY <1>1, <1>2, TableParts

\* A frame with one field changed.
LEMMA FrameIs ==
  ASSUME NEW P, NEW Q, NEW R, NEW S,
         NEW f \in [table : P, key : Q, data : R, next : S], NEW w
  PROVE  /\ [f EXCEPT !.next = w] =
              [table |-> f.table, key |-> f.key, data |-> f.data, next |-> w]
         /\ [f EXCEPT !.table = w] =
              [table |-> w, key |-> f.key, data |-> f.data, next |-> f.next]
         /\ [f EXCEPT !.key = w] =
              [table |-> f.table, key |-> w, data |-> f.data, next |-> f.next]
         /\ [f EXCEPT !.data = w] =
              [table |-> f.table, key |-> f.key, data |-> w, next |-> f.next]
<1>1. [f EXCEPT !.next = w] =
        [table |-> f.table, key |-> f.key, data |-> f.data, next |-> w]
  OBVIOUS
<1>2. [f EXCEPT !.table = w] =
        [table |-> w, key |-> f.key, data |-> f.data, next |-> f.next]
  OBVIOUS
<1>3. [f EXCEPT !.key = w] =
        [table |-> f.table, key |-> w, data |-> f.data, next |-> f.next]
  OBVIOUS
<1>4. [f EXCEPT !.data = w] =
        [table |-> f.table, key |-> f.key, data |-> w, next |-> f.next]
  OBVIOUS
<1>5. QED
  BY <1>1, <1>2, <1>3, <1>4

\* The stack of a put that has just been called.
LEMMA CalledStack ==
  ASSUME NEW E \in SUBSET Pair, NEW t, GoodTable(t, E), NEW k \in Keys, NEW v \in Values,
         [key |-> k, data |-> v] \in E
  PROVE  GoodStack(<<Frame(t, k, v)>>, E)
<1> DEFINE f == Frame(t, k, v)
           s == <<f>>
<1>1. t \in TableOf(E)
  BY DEF GoodTable
<1>2. f.table = t /\ f.key = k /\ f.data = v /\ f.next = 0 /\ f \in FrameOf(E)
  BY <1>1 DEF Frame, FrameOf
<1>3. GoodFrame(f, E)
  BY <1>1, <1>2, TableParts DEF GoodFrame
<1>4. s \in Seq(FrameOf(E)) /\ Len(s) = 1 /\ s[1] = f
  BY <1>2
<1>5. k # NoValue
  BY HashmapAssumption
<1> HIDE DEF f, s
<1>6. \A d \in 1 .. Len(s) : d = 1 /\ ~(d > 1) /\ ~(d < Len(s)) /\ s[d] = f
  BY <1>4
<1>7. \A d \in 1 .. Len(s), e \in 1 .. Len(s) : ~(d < e)
  BY <1>4
<1>8. f.key # NoValue
  BY <1>2, <1>5
<1>9. \A d \in 1 .. Len(s) : GoodFrame(s[d], E) /\ s[d].key # NoValue
  BY <1>3, <1>6, <1>8
<1>10. \A d \in 1 .. Len(s) : (d > 1 /\ s[d].key # NoValue) => Handed(s[d - 1], s[d])
  BY <1>6
<1>11. \A d \in 1 .. Len(s) : d < Len(s) => Emptied(s[d])
  BY <1>6
<1>12. GoodStack(s, E)
  BY <1>4, <1>7, <1>9, <1>10, <1>11 DEF GoodStack
<1>13. QED
  BY <1>12 DEF s, f

\* The stack after Rehash.
Rehashed(s) ==
  Append([s EXCEPT ![Len(s)].next = 0],
         Frame(HashmapCreate(2 * s[Len(s)].table.table_size), NoValue, NoValue))

\* A rehash begins: a frame with a new table is put on the stack.
LEMMA RehashedStack ==
  ASSUME NEW E \in SUBSET Pair, NEW s, GoodStack(s, E), s # << >>,
         s[Len(s)].key # NoValue,
         2 * s[Len(s)].table.table_size <= MaxTable,
         NEW r, r = Rehashed(s)
  PROVE  GoodStack(r, E) /\ SameStack(s, r)
<1>1. PICK D \in Nat : D = Len(s) /\ D > 0 /\ D \in 1 .. Len(s)
  BY DEF GoodStack
<1>2. PICK f : f = s[D] /\ GoodFrame(f, E)
  BY <1>1 DEF GoodStack
<1>3. PICK n : n = 2 * f.table.table_size
  OBVIOUS
<1>4. n \in Sizes /\ n \in Nat /\ f.table.table_size < n
  BY <1>1, <1>2, <1>3, FrameParts, SizeFacts
<1>5. PICK t : t = HashmapCreate(n)
  OBVIOUS
<1>6. GoodTable(t, E) /\ Used(t) = {} /\ t.table_size = n /\ t \in TableOf(E)
  BY <1>4, <1>5, Created DEF GoodTable
<1>7. PICK g : g = Frame(t, NoValue, NoValue)
  OBVIOUS
<1>8. g \in FrameOf(E) /\ g.table = t /\ g.key = NoValue /\ g.next = 0
  BY <1>6, <1>7 DEF Frame, FrameOf
<1>9. GoodFrame(g, E)
  BY <1>4, <1>6, <1>8 DEF GoodFrame
<1>10. PICK h : h = [f EXCEPT !.next = 0]
  OBVIOUS
<1>11. h \in FrameOf(E) /\ h.table = f.table /\ h.key = f.key /\ h.data = f.data
       /\ h.next = 0
  BY <1>2, <1>10 DEF GoodFrame, FrameOf
<1>12. GoodFrame(h, E)
  <2>1. GoodTable(f.table, E) /\ 0 <= f.table.table_size
    BY <1>2, FrameParts
  <2>2. f.key # NoValue => [key |-> f.key, data |-> f.data] \in E
    BY <1>2 DEF GoodFrame
  <2>3. QED
    BY <1>11, <2>1, <2>2 DEF GoodFrame
<1>13. PICK q : q = [s EXCEPT ![Len(s)].next = 0]
  OBVIOUS
<1>14. s \in Seq(FrameOf(E))
  BY DEF GoodStack
<1>15. q \in Seq(FrameOf(E)) /\ Len(q) = D /\ q[D] = h
       /\ \A d \in 1 .. D : d # D => q[d] = s[d]
  BY <1>1, <1>2, <1>10, <1>11, <1>13, <1>14
<1>16. r = Append(q, g)
  BY <1>1, <1>2, <1>3, <1>5, <1>7, <1>13 DEF Rehashed
<1>17. /\ r \in Seq(FrameOf(E)) /\ Len(r) = D + 1 /\ r[D + 1] = g /\ r[D] = h
       /\ \A d \in 1 .. D : d # D => r[d] = s[d]
  BY <1>1, <1>8, <1>15, <1>16
<1>18. \A k \in Keys : HashmapGet(t, k) = NoValue
  BY <1>6, GetIs
<1>19. ASSUME NEW d \in 1 .. D
       PROVE  /\ r[d].table = s[d].table /\ r[d].key = s[d].key /\ r[d].data = s[d].data
              /\ GoodFrame(r[d], E) /\ r[d].key # NoValue
              /\ d < D => r[d].next = s[d].next
  BY <1>1, <1>2, <1>11, <1>12, <1>17 DEF GoodStack
<1>20. GoodStack(r, E)
  <2>1. \A d \in 1 .. Len(r) : GoodFrame(r[d], E)
    BY <1>9, <1>17, <1>19
  <2>2. \A d \in 1 .. Len(r) : (d = 1 \/ d < Len(r)) => r[d].key # NoValue
    BY <1>1, <1>17, <1>19
  <2>3. ASSUME NEW d \in 1 .. Len(r), d > 1, r[d].key # NoValue
        PROVE  Handed(r[d - 1], r[d])
    <3>1. d \in 1 .. D /\ d - 1 \in 1 .. D /\ d - 1 < D
      BY <1>8, <1>17, <2>3
    <3>2. Handed(s[d - 1], s[d])
      BY <1>1, <1>19, <3>1, <2>3 DEF GoodStack
    <3>3. QED
      BY <1>19, <3>1, <3>2 DEF Handed
  <2>4. ASSUME NEW d \in 1 .. Len(r), NEW e \in 1 .. Len(r), d < e
        PROVE  /\ r[d].table.table_size < r[e].table.table_size
               /\ Apart(r[d], r[e])
    <3>1. CASE e \in 1 .. D
      BY <1>1, <1>19, <2>4, <3>1 DEF GoodStack, Apart
    <3>2. CASE e = D + 1
      <4>1. d \in 1 .. D
        BY <1>17, <2>4, <3>2
      <4>2. Apart(r[d], r[e])
        BY <1>8, <1>17, <1>18, <3>2 DEF Apart
      <4>3. r[d].table.table_size <= f.table.table_size
        <5>1. CASE d = D
          BY <1>2, <1>11, <1>17, <5>1, FrameParts
        <5>2. CASE d < D
          <6>1. s[d].table.table_size < s[D].table.table_size
            BY <1>1, <4>1, <5>2 DEF GoodStack
          <6>2. s[d].table.table_size \in Nat
            BY <1>1, <4>1, FrameParts DEF GoodStack
          <6>3. QED
            BY <1>2, <1>19, <4>1, <6>1, <6>2, FrameParts
        <5>3. QED
          BY <1>1, <4>1, <5>1, <5>2
      <4>4. r[d].table.table_size \in Nat /\ f.table.table_size \in Nat
        BY <1>2, <1>19, <4>1, FrameParts
      <4>5. QED
        BY <1>4, <1>6, <1>8, <1>17, <3>2, <4>2, <4>3, <4>4
    <3>3. QED
      BY <1>17, <3>1, <3>2
  <2>5. ASSUME NEW d \in 1 .. Len(r), d < Len(r)
        PROVE  Emptied(r[d])
    <3>1. CASE d = D
      <4>1. r[d].next = 0 /\ r[d].table \in TableOf(E)
        BY <1>11, <1>12, <1>17, <3>1, FrameParts
      <4>2. QED
        BY <4>1 DEF Emptied, Used
    <3>2. CASE d < D
      BY <1>1, <1>17, <2>5, <3>2 DEF GoodStack
    <3>3. QED
      BY <1>17, <2>5, <3>1, <3>2
  <2>6. QED
    BY <1>17, <2>1, <2>2, <2>3, <2>4, <2>5 DEF GoodStack
<1>21. SameStack(s, r)
  <2>1. ASSUME NEW k \in Keys PROVE Hits(r, k) = Hits(s, k)
    <3>1. HashmapGet(r[D + 1].table, k) = NoValue
      BY <1>8, <1>17, <1>18
    <3>2. \A d \in 1 .. D : HashmapGet(r[d].table, k) = HashmapGet(s[d].table, k)
      BY <1>19
    <3>3. QED
      BY <1>1, <1>17, <3>1, <3>2 DEF Hits
  <2>2. r # << >> /\ 1 \in 1 .. D
    BY <1>1, <1>17
  <2>3. QED
    BY <1>19, <2>1, <2>2 DEF SameStack
<1>22. QED
  BY <1>20, <1>21

\* The stack after Move.
Moved(s) ==
  [s EXCEPT
     ![Len(s)] = Frame(SetCell(s[Len(s)].table,
                               HashHelper(s[Len(s)].table, s[Len(s)].key),
                               s[Len(s)].key, s[Len(s)].data),
                       NoValue, NoValue),
     ![Len(s) - 1].table = ClearCell(s[Len(s) - 1].table, s[Len(s) - 1].next),
     ![Len(s) - 1].next = s[Len(s) - 1].next + 1]

\* An element goes from the table being emptied to the one being filled.
LEMMA MovedStack ==
  ASSUME NEW E \in SUBSET Pair, NEW s, GoodStack(s, E), Len(s) > 1,
         s[Len(s)].key # NoValue,
         HashHelper(s[Len(s)].table, s[Len(s)].key) # NoIndex,
         NEW r,
         r = Moved(s)
  PROVE  GoodStack(r, E) /\ SameStack(s, r)
<1>1. s \in Seq(FrameOf(E))
  BY DEF GoodStack
<1>2. PICK D \in Nat : D = Len(s) /\ D > 1 /\ D \in 1 .. Len(s) /\ D - 1 \in 1 .. Len(s)
  BY <1>1
<1>3. PICK f : f = s[D] /\ GoodFrame(f, E)
  BY <1>2 DEF GoodStack
<1>4. PICK g : g = s[D - 1] /\ GoodFrame(g, E)
  BY <1>2 DEF GoodStack
<1>5. /\ g.next \in Used(g.table)
      /\ g.table.cells[g.next] = [key |-> f.key, data |-> f.data]
  BY <1>2, <1>3, <1>4 DEF GoodStack, Handed
<1>6. PICK K : K = f.key
  OBVIOUS
<1>7. PICK V : V = f.data
  OBVIOUS
<1>8. /\ K \in Keys /\ V \in Values /\ [key |-> K, data |-> V] \in E
      /\ K # NoValue /\ V # NoValue
  <2>1. [key |-> K, data |-> V] \in E /\ K # NoValue
    BY <1>2, <1>3, <1>6, <1>7 DEF GoodFrame
  <2>2. QED
    BY <2>1, HashmapAssumption DEF Pair
<1>9. PICK u : u = SetCell(f.table, HashHelper(f.table, K), K, V)
  OBVIOUS
<1>10. GoodTable(f.table, E) /\ GoodTable(g.table, E)
  BY <1>3, <1>4 DEF GoodFrame
<1>11. /\ GoodTable(u, E) /\ u.table_size = f.table.table_size
       /\ \A h \in Keys : HashmapGet(u, h) = IF h = K THEN V ELSE HashmapGet(f.table, h)
  <2>1. HashHelper(f.table, K) # NoIndex
    BY <1>2, <1>3, <1>6
  <2>2. PICK t : t = f.table
    OBVIOUS
  <2>3. /\ GoodTable(t, E) /\ HashHelper(t, K) # NoIndex
        /\ u = SetCell(t, HashHelper(t, K), K, V)
    BY <1>9, <1>10, <2>1, <2>2
  <2>4. /\ GoodTable(u, E) /\ u.table_size = t.table_size
        /\ \A h \in Keys : HashmapGet(u, h) = IF h = K THEN V ELSE HashmapGet(t, h)
    BY <1>8, <2>3, SetIs
  <2>5. QED
    BY <2>2, <2>4
<1>12. PICK w : w = ClearCell(g.table, g.next)
  OBVIOUS
<1>13. g.table.cells[g.next].key = K /\ g.table.cells[g.next].data = V
  BY <1>5, <1>6, <1>7
<1>14. /\ GoodTable(w, E) /\ w.table_size = g.table.table_size
       /\ Used(w) = Used(g.table) \ {g.next}
       /\ \A h \in Keys : HashmapGet(w, h) =
            IF h = K THEN NoValue ELSE HashmapGet(g.table, h)
  <2>1. PICK t : t = g.table
    OBVIOUS
  <2>2. PICK c : c = g.next
    OBVIOUS
  <2>3. GoodTable(t, E) /\ c \in Used(t) /\ w = ClearCell(t, c) /\ t.cells[c].key = K
    BY <1>5, <1>10, <1>12, <1>13, <2>1, <2>2
  <2>4. Cleared(t, c, w, E)
    BY <2>3, ClearIs
  <2>5. QED
    BY <2>1, <2>2, <2>3, <2>4 DEF Cleared
<1>15. HashmapGet(g.table, K) = V
  BY <1>5, <1>8, <1>10, <1>13, GetIs
<1>16. PICK f2 : f2 = Frame(u, NoValue, NoValue)
  OBVIOUS
<1>17. PICK g2 : g2 = [table |-> w, key |-> g.key, data |-> g.data, next |-> g.next + 1]
  OBVIOUS
<1>18. u \in TableOf(E) /\ w \in TableOf(E)
  BY <1>11, <1>14 DEF GoodTable
<1>19. /\ f2 \in FrameOf(E) /\ f2.table = u /\ f2.key = NoValue /\ f2.next = 0
       /\ g2 \in FrameOf(E) /\ g2.table = w /\ g2.key = g.key /\ g2.data = g.data
       /\ g2.next = g.next + 1
  BY <1>4, <1>16, <1>17, <1>18, FrameParts DEF Frame, FrameOf
<1>20. GoodFrame(f2, E)
  BY <1>11, <1>18, <1>19, TableParts DEF GoodFrame
<1>21. GoodFrame(g2, E)
  <2>1. g.next + 1 <= w.table_size
    BY <1>4, <1>5, <1>14, FrameParts DEF Used
  <2>2. g.key # NoValue => [key |-> g.key, data |-> g.data] \in E
    BY <1>4 DEF GoodFrame
  <2>3. QED
    BY <1>14, <1>19, <2>1, <2>2 DEF GoodFrame
<1>22. /\ r \in Seq(FrameOf(E)) /\ Len(r) = D /\ r[D] = f2 /\ r[D - 1] = g2
       /\ \A d \in 1 .. D : (d # D /\ d # D - 1) => r[d] = s[d]
  <2>1. g2 = [[g EXCEPT !.table = w] EXCEPT !.next = g.next + 1]
    <3>1. PICK x : x = [g EXCEPT !.table = w]
      OBVIOUS
    <3>2. /\ x \in FrameOf(E) /\ x.table = w /\ x.key = g.key /\ x.data = g.data
          /\ x.next = g.next
      BY <1>4, <1>18, <3>1 DEF GoodFrame, FrameOf
    <3>3. [x EXCEPT !.next = g.next + 1] =
            [table |-> x.table, key |-> x.key, data |-> x.data, next |-> g.next + 1]
      BY <3>2, FrameIs DEF FrameOf
    <3>4. QED
      BY <1>17, <3>1, <3>2, <3>3
  <2>2. PICK p : p = [s EXCEPT ![D] = f2]
    OBVIOUS
  <2>3. p \in Seq(FrameOf(E)) /\ Len(p) = D /\ p[D - 1] = g /\ p[D] = f2
        /\ \A d \in 1 .. D : (d # D /\ d # D - 1) => p[d] = s[d]
    BY <1>1, <1>2, <1>4, <1>19, <2>2
  <2>4. f2 = Frame(SetCell(s[D].table, HashHelper(s[D].table, s[D].key),
                           s[D].key, s[D].data), NoValue, NoValue)
    BY <1>3, <1>6, <1>7, <1>9, <1>16
  <2>5. r = [[p EXCEPT ![D - 1].table = w] EXCEPT ![D - 1].next = g.next + 1]
    BY <1>2, <1>4, <1>12, <2>2, <2>4 DEF Moved
  <2>6. r = [p EXCEPT ![D - 1] = g2]
    BY <1>2, <2>1, <2>3, <2>5
  <2>7. r \in Seq(FrameOf(E)) /\ Len(r) = D
    BY <1>2, <1>19, <2>3, <2>6
  <2>8. r[D] = f2 /\ r[D - 1] = g2
    BY <1>2, <2>3, <2>6
  <2>9. \A d \in 1 .. D : (d # D /\ d # D - 1) => r[d] = s[d]
    BY <1>2, <2>3, <2>6
  <2>10. QED
    BY <2>7, <2>8, <2>9
<1>23. ASSUME NEW d \in 1 .. D
       PROVE  /\ GoodFrame(s[d], E) /\ GoodFrame(r[d], E)
              /\ r[d].table.table_size = s[d].table.table_size
              /\ d < D => r[d].key = s[d].key /\ r[d].data = s[d].data
              /\ d < D - 1 => r[d] = s[d]
  <2>1. GoodFrame(s[d], E)
    BY <1>2 DEF GoodStack
  <2>2. CASE d = D
    BY <1>2, <1>3, <1>11, <1>19, <1>20, <1>22, <2>1, <2>2
  <2>3. CASE d = D - 1
    BY <1>2, <1>4, <1>14, <1>19, <1>21, <1>22, <2>1, <2>3
  <2>4. CASE d # D /\ d # D - 1
    BY <1>22, <2>1, <2>4
  <2>5. d < D - 1 => d # D /\ d # D - 1
    BY <1>2
  <2>6. QED
    BY <1>2, <2>2, <2>3, <2>4, <2>5
<1>24. ASSUME NEW d \in 1 .. D, NEW k \in Keys
       PROVE  /\ k # K => HashmapGet(r[d].table, k) = HashmapGet(s[d].table, k)
              /\ HashmapGet(s[d].table, K) = IF d = D - 1 THEN V ELSE NoValue
              /\ HashmapGet(r[d].table, K) = IF d = D THEN V ELSE NoValue
  <2>1. ASSUME d # D - 1 PROVE HashmapGet(s[d].table, K) = NoValue
    <3>1. CASE d < D - 1
      <4>1. Apart(s[d], s[D - 1])
        BY <1>2, <3>1 DEF GoodStack
      <4>2. QED
        BY <1>4, <1>8, <1>15, <4>1 DEF Apart
    <3>2. CASE d = D
      <4>1. Apart(s[D - 1], s[D])
        BY <1>2 DEF GoodStack
      <4>2. QED
        BY <1>4, <1>8, <1>15, <3>2, <4>1 DEF Apart
    <3>3. QED
      BY <1>2, <2>1, <3>1, <3>2
  <2>2. CASE d = D
    BY <1>2, <1>3, <1>8, <1>11, <1>19, <1>22, <2>1, <2>2
  <2>3. CASE d = D - 1
    BY <1>2, <1>4, <1>8, <1>14, <1>15, <1>19, <1>22, <2>3
  <2>4. CASE d # D /\ d # D - 1
    BY <1>22, <2>1, <2>4
  <2>5. QED
    BY <2>2, <2>3, <2>4
<1>25. GoodStack(r, E)
  <2>1. \A d \in 1 .. Len(r) : GoodFrame(r[d], E)
    BY <1>22, <1>23
  <2>2. ASSUME NEW d \in 1 .. Len(r), d = 1 \/ d < Len(r)
        PROVE  r[d].key # NoValue
    <3>1. d < D /\ d \in 1 .. D
      BY <1>2, <1>22, <2>2
    <3>2. QED
      BY <1>2, <1>23, <3>1 DEF GoodStack
  <2>3. ASSUME NEW d \in 1 .. Len(r), d > 1, r[d].key # NoValue
        PROVE  Handed(r[d - 1], r[d])
    <3>1. d \in 1 .. D /\ d - 1 \in 1 .. D /\ d - 1 < D - 1 /\ d < D
      BY <1>2, <1>19, <1>22, <2>3
    <3>2. Handed(s[d - 1], s[d])
      BY <1>2, <1>23, <3>1, <2>3 DEF GoodStack
    <3>3. QED
      BY <1>23, <3>1, <3>2 DEF Handed
  <2>4. ASSUME NEW d \in 1 .. Len(r), NEW e \in 1 .. Len(r), d < e
        PROVE  /\ r[d].table.table_size < r[e].table.table_size
               /\ Apart(r[d], r[e])
    <3>1. d \in 1 .. D /\ e \in 1 .. D /\ d # e
      BY <1>2, <1>22, <2>4
    <3>2. s[d].table.table_size < s[e].table.table_size /\ Apart(s[d], s[e])
      BY <1>2, <2>4, <3>1 DEF GoodStack
    <3>3. ASSUME NEW k \in Keys
          PROVE  HashmapGet(r[d].table, k) = NoValue \/ HashmapGet(r[e].table, k) = NoValue
      BY <1>24, <3>1, <3>2 DEF Apart
    <3>4. QED
      BY <1>23, <3>1, <3>2, <3>3 DEF Apart
  <2>5. ASSUME NEW d \in 1 .. Len(r), d < Len(r)
        PROVE  Emptied(r[d])
    <3>1. Emptied(s[d])
      BY <1>2, <1>22, <2>5 DEF GoodStack
    <3>2. CASE d = D - 1
      <4>1. Emptied(g)
        BY <1>4, <3>1, <3>2
      <4>2. \A i \in Used(g.table) : i \in Nat
        BY <1>4, FrameParts DEF Used
      <4>3. g.next \in Nat
        BY <1>4, FrameParts
      <4>4. \A i \in Used(w) : g.next + 1 <= i
        BY <1>14, <4>1, <4>2, <4>3 DEF Emptied
      <4>5. r[d].table = w /\ r[d].next = g.next + 1
        BY <1>19, <1>22, <3>2
      <4>6. QED
        BY <4>4, <4>5 DEF Emptied
    <3>3. CASE d < D - 1
      BY <1>2, <1>22, <3>1, <3>3
    <3>4. QED
      BY <1>2, <1>22, <2>5, <3>2, <3>3
  <2>6. QED
    BY <1>22, <2>1, <2>2, <2>3, <2>4, <2>5 DEF GoodStack
<1>26. SameStack(s, r)
  <2>1. ASSUME NEW k \in Keys PROVE Hits(r, k) = Hits(s, k)
    <3>1. CASE k = K
      <4>1. Hits(s, k) = {V}
        BY <1>2, <1>8, <1>24, <3>1 DEF Hits
      <4>2. Hits(r, k) = {V}
        <5>1. HashmapGet(r[D].table, K) = V
          BY <1>2, <1>8, <1>24
        <5>2. \A d \in 1 .. D : HashmapGet(r[d].table, K) \in {V, NoValue}
          BY <1>8, <1>24
        <5>3. QED
          BY <1>2, <1>8, <1>22, <3>1, <5>1, <5>2 DEF Hits
      <4>3. QED
        BY <4>1, <4>2
    <3>2. CASE k # K
      <4>1. \A d \in 1 .. D : HashmapGet(r[d].table, k) = HashmapGet(s[d].table, k)
        BY <1>24, <3>2
      <4>2. QED
        BY <1>2, <1>22, <4>1 DEF Hits
    <3>3. QED
      BY <3>1, <3>2
  <2>2. r # << >> /\ 1 \in 1 .. D /\ 1 < D
    BY <1>2, <1>22
  <2>3. QED
    BY <1>23, <2>1, <2>2 DEF SameStack
<1>27. QED
  BY <1>25, <1>26

\* The stack after Iterate hands an element over, and after it passes a cell.
HandedOver(s) ==
  [s EXCEPT
     ![Len(s)].key = s[Len(s) - 1].table.cells[s[Len(s) - 1].next].key,
     ![Len(s)].data = s[Len(s) - 1].table.cells[s[Len(s) - 1].next].data]

Passed(s) == [s EXCEPT ![Len(s) - 1].next = s[Len(s) - 1].next + 1]

\* A change of the top frame's element or of the iteration below it, with the
\* tables as they are, keeps a stack good.
LEMMA SameTables ==
  ASSUME NEW E \in SUBSET Pair, NEW s, GoodStack(s, E), Len(s) > 1,
         NEW r \in Seq(FrameOf(E)), Len(r) = Len(s),
         \A d \in 1 .. Len(s) : GoodFrame(r[d], E) /\ r[d].table = s[d].table,
         \A d \in 1 .. Len(s) :
           d < Len(s) => r[d].key = s[d].key /\ r[d].data = s[d].data,
         \A d \in 1 .. Len(s) : d < Len(s) - 1 => r[d].next = s[d].next,
         r[Len(s)].key # NoValue => Handed(r[Len(s) - 1], r[Len(s)]),
         Emptied(r[Len(s) - 1])
  PROVE  GoodStack(r, E) /\ SameStack(s, r)
<1>1. PICK D \in Nat : D = Len(s) /\ D = Len(r) /\ D > 1
  BY DEF GoodStack
<1>2. ASSUME NEW d \in 1 .. Len(r), d = 1 \/ d < Len(r)
      PROVE  r[d].key # NoValue
  <2>1. d < D /\ d \in 1 .. Len(s)
    BY <1>1, <1>2
  <2>2. s[d].key # NoValue
    BY <1>1, <2>1 DEF GoodStack
  <2>3. QED
    BY <1>1, <2>1, <2>2
<1>3. ASSUME NEW d \in 1 .. Len(r), d > 1, r[d].key # NoValue
      PROVE  Handed(r[d - 1], r[d])
  <2>1. CASE d = D
    BY <1>1, <1>3, <2>1
  <2>2. CASE d < D
    <3>1. /\ d \in 1 .. Len(s) /\ d - 1 \in 1 .. Len(s)
          /\ d < Len(s) /\ d - 1 < Len(s) - 1
      BY <1>1, <1>3, <2>2
    <3>2. r[d].key = s[d].key /\ r[d].data = s[d].data
      BY <3>1
    <3>3. Handed(s[d - 1], s[d])
      BY <1>3, <3>1, <3>2 DEF GoodStack
    <3>4. r[d - 1].next = s[d - 1].next /\ r[d - 1].table = s[d - 1].table
      BY <3>1
    <3>5. QED
      BY <3>2, <3>3, <3>4 DEF Handed
  <2>3. QED
    BY <1>1, <2>1, <2>2
<1>4. ASSUME NEW d \in 1 .. Len(r), NEW e \in 1 .. Len(r), d < e
      PROVE  /\ r[d].table.table_size < r[e].table.table_size
             /\ Apart(r[d], r[e])
  <2>1. s[d].table.table_size < s[e].table.table_size /\ Apart(s[d], s[e])
    BY <1>1, <1>4 DEF GoodStack
  <2>2. r[d].table = s[d].table /\ r[e].table = s[e].table
    BY <1>1
  <2>3. QED
    BY <2>1, <2>2 DEF Apart
<1>5. ASSUME NEW d \in 1 .. Len(r), d < Len(r)
      PROVE  Emptied(r[d])
  <2>1. CASE d = D - 1
    BY <1>1, <2>1
  <2>2. CASE d < D - 1
    <3>1. Emptied(s[d]) /\ r[d].next = s[d].next /\ r[d].table = s[d].table
      BY <1>1, <2>2 DEF GoodStack
    <3>2. QED
      BY <3>1 DEF Emptied
  <2>3. QED
    BY <1>1, <1>5, <2>1, <2>2
<1>6. GoodStack(r, E)
  <2>1. \A d \in 1 .. Len(r) : GoodFrame(r[d], E)
    BY <1>1
  <2>2. QED
    BY <1>2, <1>3, <1>4, <1>5, <2>1 DEF GoodStack
<1>7. SameStack(s, r)
  <2>1. 1 \in 1 .. Len(s) /\ 1 < Len(s) /\ r # << >>
    BY <1>1
  <2>2. \A k \in Keys, d \in 1 .. Len(s) :
          HashmapGet(r[d].table, k) = HashmapGet(s[d].table, k)
    OBVIOUS
  <2>3. \A k \in Keys : Hits(r, k) = Hits(s, k)
    BY <2>2 DEF Hits
  <2>4. QED
    BY <2>1, <2>3 DEF SameStack
<1>8. QED
  BY <1>6, <1>7

\* hashmap_iterate_pairs() hands an element over.
LEMMA HandedStack ==
  ASSUME NEW E \in SUBSET Pair, NEW s, GoodStack(s, E), Len(s) > 1,
         s[Len(s)].key = NoValue,
         s[Len(s) - 1].next \in Used(s[Len(s) - 1].table),
         NEW r, r = HandedOver(s)
  PROVE  GoodStack(r, E) /\ SameStack(s, r)
<1>1. s \in Seq(FrameOf(E))
  BY DEF GoodStack
<1>2. PICK D \in Nat : D = Len(s) /\ D > 1 /\ D \in 1 .. Len(s) /\ D - 1 \in 1 .. Len(s)
  BY <1>1
<1>3. PICK f : f = s[D] /\ GoodFrame(f, E)
  BY <1>2 DEF GoodStack
<1>4. PICK g : g = s[D - 1] /\ GoodFrame(g, E)
  BY <1>2 DEF GoodStack
<1>5. PICK c : c = g.table.cells[g.next]
  OBVIOUS
<1>6. /\ c \in E /\ c.key \in Keys /\ c.data \in Values
      /\ c = [key |-> c.key, data |-> c.data]
  <2>1. g.table \in TableOf(E) /\ g.next \in Used(g.table)
    BY <1>2, <1>4, FrameParts
  <2>2. g.next \in 0 .. g.table.table_size - 1
    BY <2>1 DEF Used
  <2>3. QED
    BY <1>5, <2>1, <2>2, CellIs
<1>7. PICK f2 : f2 = [table |-> f.table, key |-> c.key, data |-> c.data, next |-> f.next]
  OBVIOUS
<1>8. /\ f2 \in FrameOf(E) /\ f2.table = f.table /\ f2.key = c.key /\ f2.data = c.data
      /\ f2.next = f.next
  BY <1>3, <1>6, <1>7, FrameParts DEF FrameOf
<1>9. GoodFrame(f2, E)
  BY <1>3, <1>6, <1>8, FrameParts DEF GoodFrame
<1>10. r = [s EXCEPT ![D] = f2]
  <2>1. PICK x : x = [f EXCEPT !.key = c.key]
    OBVIOUS
  <2>2. x = [table |-> f.table, key |-> c.key, data |-> f.data, next |-> f.next]
    BY <1>3, <2>1, FrameIs DEF GoodFrame, FrameOf
  <2>3. x \in FrameOf(E) /\ x.table = f.table /\ x.key = c.key /\ x.next = f.next
    BY <1>3, <1>6, <2>2, FrameParts DEF FrameOf
  <2>4. [x EXCEPT !.data = c.data] = f2
    <3>1. [x EXCEPT !.data = c.data] =
            [table |-> x.table, key |-> x.key, data |-> c.data, next |-> x.next]
      BY <2>3, FrameIs DEF FrameOf
    <3>2. QED
      BY <1>7, <2>3, <3>1
  <2>5. r = [[s EXCEPT ![D].key = c.key] EXCEPT ![D].data = c.data]
    BY <1>2, <1>4, <1>5 DEF HandedOver
  <2>6. PICK p : p = [s EXCEPT ![D].key = c.key]
    OBVIOUS
  <2>7. p = [s EXCEPT ![D] = x]
    BY <1>3, <2>1, <2>6
  <2>8. p[D] = x
    BY <1>1, <1>2, <2>7
  <2>9. r = [p EXCEPT ![D] = f2]
    BY <2>4, <2>5, <2>6, <2>8
  <2>10. QED
    BY <2>7, <2>9
<1>11. /\ r \in Seq(FrameOf(E)) /\ Len(r) = D /\ r[D] = f2
       /\ \A d \in 1 .. D : d # D => r[d] = s[d]
  BY <1>1, <1>2, <1>8, <1>10
<1>12. \A d \in 1 .. Len(s) : GoodFrame(r[d], E) /\ r[d].table = s[d].table
  BY <1>2, <1>3, <1>8, <1>9, <1>11 DEF GoodStack
<1>13. \A d \in 1 .. Len(s) : d < Len(s) => r[d] = s[d]
  BY <1>2, <1>11
<1>14. Handed(r[D - 1], r[D])
  BY <1>2, <1>4, <1>5, <1>6, <1>8, <1>11 DEF Handed
<1>15. Emptied(r[D - 1])
  BY <1>2, <1>11 DEF GoodStack
<1>16. \A d \in 1 .. Len(s) : d < Len(s) - 1 => d < Len(s)
  BY <1>2
<1>17. QED
  BY <1>2, <1>11, <1>12, <1>13, <1>14, <1>15, <1>16, SameTables

\* hashmap_iterate_pairs() passes a cell that is not in use.
LEMMA PassedStack ==
  ASSUME NEW E \in SUBSET Pair, NEW s, GoodStack(s, E), Len(s) > 1,
         s[Len(s)].key = NoValue,
         s[Len(s) - 1].next < s[Len(s) - 1].table.table_size,
         s[Len(s) - 1].next \notin Used(s[Len(s) - 1].table),
         NEW r, r = Passed(s)
  PROVE  GoodStack(r, E) /\ SameStack(s, r)
<1>1. s \in Seq(FrameOf(E))
  BY DEF GoodStack
<1>2. PICK D \in Nat : D = Len(s) /\ D > 1 /\ D \in 1 .. Len(s) /\ D - 1 \in 1 .. Len(s)
  BY <1>1
<1>3. PICK g : g = s[D - 1] /\ GoodFrame(g, E)
  BY <1>2 DEF GoodStack
<1>4. PICK g2 : g2 = [g EXCEPT !.next = g.next + 1]
  OBVIOUS
<1>5. g.next \in Nat /\ g.table.table_size \in Nat /\ g.next < g.table.table_size
  BY <1>2, <1>3, FrameParts
<1>6. /\ g2 \in FrameOf(E) /\ g2.table = g.table /\ g2.key = g.key /\ g2.data = g.data
      /\ g2.next = g.next + 1
  BY <1>3, <1>4, <1>5 DEF GoodFrame, FrameOf
<1>7. GoodFrame(g2, E)
  BY <1>3, <1>5, <1>6 DEF GoodFrame
<1>8. r = [s EXCEPT ![D - 1] = g2]
  BY <1>2, <1>3, <1>4 DEF Passed
<1>9. r \in Seq(FrameOf(E)) /\ Len(r) = D
  BY <1>1, <1>2, <1>6, <1>8
<1>10. r[D - 1] = g2 /\ \A d \in 1 .. D : d # D - 1 => r[d] = s[d]
  BY <1>1, <1>2, <1>8
<1>11. ASSUME NEW d \in 1 .. Len(s)
       PROVE  /\ GoodFrame(r[d], E) /\ r[d].table = s[d].table
              /\ r[d].key = s[d].key /\ r[d].data = s[d].data
              /\ d < Len(s) - 1 => r[d].next = s[d].next
  <2>1. CASE d = D - 1
    BY <1>2, <1>3, <1>6, <1>7, <1>10, <2>1
  <2>2. CASE d # D - 1
    BY <1>2, <1>10, <2>2 DEF GoodStack
  <2>3. QED
    BY <2>1, <2>2
<1>12. r[D].key = NoValue
  BY <1>2, <1>11
<1>13. Emptied(g2)
  <2>1. Emptied(g)
    BY <1>2, <1>3 DEF GoodStack
  <2>2. g.next \notin Used(g.table)
    BY <1>2, <1>3
  <2>3. \A i \in Used(g.table) : i \in Nat
    BY <1>5 DEF Used
  <2>4. QED
    BY <1>5, <1>6, <2>1, <2>2, <2>3 DEF Emptied
<1>14. QED
  BY <1>2, <1>9, <1>10, <1>11, <1>12, <1>13, SameTables

\* The stack after Swap.
Swapped(s) ==
  [SubSeq(s, 1, Len(s) - 1) EXCEPT ![Len(s) - 1].table = s[Len(s)].table]

\* The table that has been filled replaces the one that has been emptied.
LEMMA SwappedStack ==
  ASSUME NEW E \in SUBSET Pair, NEW s, GoodStack(s, E), Len(s) > 1,
         s[Len(s)].key = NoValue,
         s[Len(s) - 1].next = s[Len(s) - 1].table.table_size,
         NEW r, r = Swapped(s)
  PROVE  GoodStack(r, E) /\ SameStack(s, r)
<1>1. s \in Seq(FrameOf(E))
  BY DEF GoodStack
<1>2. PICK D \in Nat : D = Len(s) /\ D > 1 /\ D \in 1 .. Len(s) /\ D - 1 \in 1 .. Len(s)
  BY <1>1
<1>3. PICK f : f = s[D] /\ GoodFrame(f, E)
  BY <1>2 DEF GoodStack
<1>4. PICK g : g = s[D - 1] /\ GoodFrame(g, E)
  BY <1>2 DEF GoodStack
<1>5. /\ f.table \in TableOf(E) /\ GoodTable(f.table, E) /\ f.table.table_size \in Nat
      /\ g.table \in TableOf(E) /\ GoodTable(g.table, E) /\ g.table.table_size \in Nat
      /\ g.next \in Nat
  BY <1>3, <1>4, FrameParts
<1>6. g.next = g.table.table_size /\ g.table.table_size < f.table.table_size
  BY <1>2, <1>3, <1>4 DEF GoodStack
<1>7. PICK g2 : g2 = [g EXCEPT !.table = f.table]
  OBVIOUS
<1>8. /\ g2 \in FrameOf(E) /\ g2.table = f.table /\ g2.key = g.key /\ g2.data = g.data
      /\ g2.next = g.next
  BY <1>4, <1>5, <1>7 DEF GoodFrame, FrameOf
<1>9. GoodFrame(g2, E)
  BY <1>4, <1>5, <1>6, <1>8 DEF GoodFrame
<1>10. PICK p : p = SubSeq(s, 1, D - 1)
  OBVIOUS
<1>11. p \in Seq(FrameOf(E)) /\ Len(p) = D - 1 /\ \A d \in 1 .. D - 1 : p[d] = s[d]
  BY <1>1, <1>2, <1>10
<1>12. r = [p EXCEPT ![D - 1] = g2]
  BY <1>2, <1>3, <1>4, <1>7, <1>10, <1>11 DEF Swapped
<1>13. r \in Seq(FrameOf(E)) /\ Len(r) = D - 1 /\ r[D - 1] = g2
       /\ \A d \in 1 .. D - 1 : d # D - 1 => r[d] = s[d]
  BY <1>2, <1>8, <1>11, <1>12
<1>14. \A k \in Keys : HashmapGet(g.table, k) = NoValue
  <2>1. Emptied(g)
    BY <1>2, <1>4 DEF GoodStack
  <2>2. Used(g.table) = {}
    BY <1>5, <1>6, <2>1 DEF Emptied, Used
  <2>3. QED
    BY <1>5, <2>2, GetIs
<1>15. ASSUME NEW d \in 1 .. D - 1
       PROVE  /\ GoodFrame(r[d], E) /\ r[d].key = s[d].key /\ r[d].data = s[d].data
              /\ r[d].key # NoValue /\ r[d].next = s[d].next
              /\ d < D - 1 => r[d] = s[d]
  <2>1. d \in 1 .. Len(s) /\ d < Len(s)
    BY <1>2
  <2>2. GoodFrame(s[d], E) /\ s[d].key # NoValue
    BY <2>1 DEF GoodStack
  <2>3. CASE d = D - 1
    BY <1>2, <1>4, <1>8, <1>9, <1>13, <2>2, <2>3
  <2>4. CASE d # D - 1
    BY <1>2, <1>13, <2>2, <2>4
  <2>5. QED
    BY <2>3, <2>4
<1>16. GoodStack(r, E)
  <2>1. \A d \in 1 .. Len(r) : GoodFrame(r[d], E) /\ r[d].key # NoValue
    BY <1>13, <1>15
  <2>2. ASSUME NEW d \in 1 .. Len(r), d > 1
        PROVE  Handed(r[d - 1], r[d])
    <3>1. /\ d \in 1 .. D - 1 /\ d - 1 \in 1 .. D - 1 /\ d - 1 < D - 1
          /\ d \in 1 .. Len(s)
      BY <1>2, <1>13, <2>2
    <3>2. s[d].key # NoValue
      BY <1>15, <3>1
    <3>3. Handed(s[d - 1], s[d])
      BY <2>2, <3>1, <3>2 DEF GoodStack
    <3>4. QED
      BY <1>15, <3>1, <3>3 DEF Handed
  <2>3. ASSUME NEW d \in 1 .. Len(r), NEW e \in 1 .. Len(r), d < e
        PROVE  /\ r[d].table.table_size < r[e].table.table_size
               /\ Apart(r[d], r[e])
    <3>1. /\ d \in 1 .. Len(s) /\ e \in 1 .. Len(s) /\ d < D /\ d < D - 1
          /\ d \in 1 .. D - 1 /\ e \in 1 .. D - 1
      BY <1>2, <1>13, <2>3
    <3>2. r[d] = s[d]
      BY <1>15, <3>1
    <3>3. CASE e < D - 1
      <4>1. r[e] = s[e]
        BY <1>15, <3>1, <3>3
      <4>2. QED
        BY <2>3, <3>1, <3>2, <4>1 DEF GoodStack
    <3>4. CASE e = D - 1
      <4>1. s[d].table.table_size < s[D].table.table_size /\ Apart(s[d], s[D])
        BY <1>2, <3>1 DEF GoodStack
      <4>2. r[e].table = s[D].table
        BY <1>3, <1>8, <1>13, <3>4
      <4>3. QED
        BY <3>2, <4>1, <4>2 DEF Apart
    <3>5. QED
      BY <1>2, <3>1, <3>3, <3>4
  <2>4. ASSUME NEW d \in 1 .. Len(r), d < Len(r)
        PROVE  Emptied(r[d])
    <3>1. d \in 1 .. Len(s) /\ d < Len(s) /\ d < D - 1 /\ d \in 1 .. D - 1
      BY <1>2, <1>13, <2>4
    <3>2. QED
      BY <1>15, <3>1 DEF GoodStack
  <2>5. QED
    BY <1>13, <2>1, <2>2, <2>3, <2>4 DEF GoodStack
<1>17. SameStack(s, r)
  <2>1. 1 \in 1 .. D - 1 /\ r # << >>
    BY <1>2, <1>13
  <2>2. ASSUME NEW k \in Keys PROVE Hits(r, k) = Hits(s, k)
    <3>1. \A d \in 1 .. D - 1 : d # D - 1 =>
            HashmapGet(r[d].table, k) = HashmapGet(s[d].table, k)
      BY <1>13
    <3>2. HashmapGet(r[D - 1].table, k) = HashmapGet(s[D].table, k)
      BY <1>3, <1>8, <1>13
    <3>3. HashmapGet(s[D - 1].table, k) = NoValue
      BY <1>4, <1>14
    <3>4. ASSUME NEW v PROVE v \in Hits(r, k) => v \in Hits(s, k)
      <4>1. SUFFICES ASSUME v \in Hits(r, k) PROVE v \in Hits(s, k)
        OBVIOUS
      <4>2. PICK d \in 1 .. D - 1 : v = HashmapGet(r[d].table, k) /\ v # NoValue
        BY <1>13, <4>1 DEF Hits
      <4>3. PICK e \in 1 .. Len(s) : v = HashmapGet(s[e].table, k)
        BY <1>2, <3>1, <3>2, <4>2
      <4>4. QED
        BY <4>2, <4>3 DEF Hits
    <3>5. ASSUME NEW v PROVE v \in Hits(s, k) => v \in Hits(r, k)
      <4>1. SUFFICES ASSUME v \in Hits(s, k) PROVE v \in Hits(r, k)
        OBVIOUS
      <4>2. PICK d \in 1 .. Len(s) : v = HashmapGet(s[d].table, k) /\ v # NoValue
        BY <4>1 DEF Hits
      <4>3. PICK e \in 1 .. D - 1 : v = HashmapGet(r[e].table, k)
        <5>1. CASE d = D
          BY <1>2, <3>2, <4>2, <5>1
        <5>2. CASE d # D
          <6>1. d \in 1 .. D - 1 /\ d # D - 1
            BY <1>2, <3>3, <4>2, <5>2
          <6>2. QED
            BY <3>1, <4>2, <6>1
        <5>3. QED
          BY <5>1, <5>2
      <4>4. QED
        BY <1>13, <4>2, <4>3 DEF Hits
    <3>6. QED
      BY <3>4, <3>5
  <2>3. QED
    BY <1>15, <2>1, <2>2 DEF SameStack
<1>18. QED
  BY <1>16, <1>17

----------------------------------------------------------------------------
(* The invariant.                                                          *)

\* The elements that can be in a map of the tree: vnodes under their names.
Entries(V) == {[key |-> Name[v], data |-> v] : v \in V \ {Root}}

TreeInv ==
  /\ made \in SUBSET Vnodes
  /\ \A v \in made : ~TooLong(Name[v])
  /\ target \in Maps /\ faulted \in BOOLEAN
  /\ maps \in [Maps -> TableOf(Entries(made))]
  /\ \A m \in Maps : GoodTable(maps[m], Entries(made))
  /\ GoodStack(stack, Entries(made))

\* An element is a pair, and stays one when there are more vnodes.
LEMMA EntriesIs ==
  ASSUME NEW V \in SUBSET Vnodes, NEW W \in SUBSET Vnodes, V \subseteq W
  PROVE  /\ Entries(V) \in SUBSET Pair
         /\ Entries(V) \subseteq Entries(W)
         /\ \A v \in V \ {Root} :
              /\ [key |-> Name[v], data |-> v] \in Entries(V)
              /\ Name[v] \in Keys /\ v \in Values
<1>1. \A v \in Vnodes : Name[v] \in Keys /\ v \in Values
  BY VfsAssumption
<1>2. QED
  BY <1>1 DEF Entries, Pair

\* A table stays good when there are more elements that may be in it.
LEMMA MoreEntries ==
  ASSUME NEW E, NEW F, E \subseteq F
  PROVE  /\ TableOf(E) \subseteq TableOf(F)
         /\ \A t : GoodTable(t, E) => GoodTable(t, F)
<1>1. ASSUME NEW t \in TableOf(E) PROVE t \in TableOf(F)
  <2>1. PICK n \in Sizes :
          t \in [table_size : {n}, size : Nat, cells : [0 .. n - 1 -> E \cup {Unused}]]
    BY DEF TableOf
  <2>2. t \in [table_size : {n}, size : Nat, cells : [0 .. n - 1 -> F \cup {Unused}]]
    BY <2>1
  <2>3. QED
    BY <2>2 DEF TableOf
<1>2. QED
  BY <1>1 DEF GoodTable

\* A stack without frames is good.
LEMMA NoStack == \A E : GoodStack(<< >>, E)
BY DEF GoodStack

\* A new kernel has the invariant.
LEMMA TreeInit == Init => TreeInv
<1> SUFFICES ASSUME Init PROVE TreeInv
  OBVIOUS
<1> USE DEF Init, HashInit
<1>1. made \in SUBSET Vnodes /\ \A v \in made : ~TooLong(Name[v])
  BY VfsAssumption DEF TooLong
<1>2. InitSize \in Sizes
  <2>1. InitSize \in PowersOfTwo /\ InitSize <= MaxTable
    BY HashmapAssumption
  <2>2. InitSize \in Nat
    BY <2>1 DEF PowersOfTwo
  <2>3. QED
    BY <2>1, <2>2 DEF Sizes
<1>3. GoodTable(HashmapCreate(InitSize), Entries(made))
  BY <1>2, Created
<1>4. HashmapCreate(InitSize) \in TableOf(Entries(made))
  BY <1>3 DEF GoodTable
<1>5. QED
  BY <1>1, <1>3, <1>4, NoStack DEF TreeInv

\* A put that is called leaves a good stack of one frame.
LEMMA PutInv ==
  ASSUME TreeInv, NEW m \in Maps, NEW v \in made \ {Root},
         HashmapPut(m, Name[v], v), UNCHANGED made
  PROVE  TreeInv'
<1>1. stack' = <<Frame(maps[m], Name[v], v)>> /\ target' = m
      /\ UNCHANGED <<maps, faulted, made>>
  BY DEF HashmapPut
<1>2. PICK E : E = Entries(made)
  OBVIOUS
<1>3. /\ E \in SUBSET Pair /\ [key |-> Name[v], data |-> v] \in E
      /\ Name[v] \in Keys /\ v \in Values
  BY <1>2, EntriesIs DEF TreeInv
<1>4. GoodTable(maps[m], E)
  BY <1>2 DEF TreeInv
<1>5. PICK t : t = maps[m]
  OBVIOUS
<1>6. PICK k : k = Name[v]
  OBVIOUS
<1>7. GoodStack(<<Frame(t, k, v)>>, E)
  BY <1>3, <1>4, <1>5, <1>6, CalledStack
<1>8. GoodStack(stack', E) /\ E = Entries(made)'
  BY <1>1, <1>2, <1>5, <1>6, <1>7 DEF Entries
<1>9. QED
  BY <1>1, <1>2, <1>8 DEF TreeInv

\* The last step of a put stores the element in the map.
LEMMA PlaceInv ==
  ASSUME TreeInv, Place, UNCHANGED made
  PROVE  /\ TreeInv'
         /\ stack[1].key \in Keys /\ stack[1].data \in Values
         /\ maps' = [maps EXCEPT ![target] = maps'[target]]
         /\ \A h \in Keys : HashmapGet(maps'[target], h) =
              IF h = stack[1].key THEN stack[1].data
              ELSE HashmapGet(stack[1].table, h)
<1>1. PICK E : E = Entries(made) /\ E \in SUBSET Pair /\ E = Entries(made)'
  BY EntriesIs DEF TreeInv, Entries
<1>2. PICK f : f = stack[1]
  OBVIOUS
<1>3. GoodFrame(f, E) /\ f.key # NoValue
  BY <1>1, <1>2 DEF TreeInv, GoodStack, Place, Depth
<1>4. GoodTable(f.table, E) /\ [key |-> f.key, data |-> f.data] \in E
      /\ f.key \in Keys /\ f.data \in Values
  BY <1>1, <1>3 DEF GoodFrame, Pair
<1>5. PICK t : t = f.table
  OBVIOUS
<1>6. PICK k : k = f.key
  OBVIOUS
<1>7. PICK v : v = f.data
  OBVIOUS
<1>8. PICK u : u = SetCell(t, HashHelper(t, k), k, v)
  OBVIOUS
<1>9. HashHelper(t, k) # NoIndex /\ stack' = << >> /\ UNCHANGED <<target, faulted>>
      /\ maps' = [maps EXCEPT ![target] = u]
  BY <1>2, <1>5, <1>6, <1>7, <1>8 DEF Place, Cell, Top, Depth
<1>10. /\ GoodTable(u, E) /\ u.table_size = t.table_size
       /\ \A h \in Keys : HashmapGet(u, h) = IF h = k THEN v ELSE HashmapGet(t, h)
  <2>1. /\ GoodTable(t, E) /\ [key |-> k, data |-> v] \in E
        /\ k \in Keys /\ v \in Values
    BY <1>4, <1>5, <1>6, <1>7
  <2>2. QED
    BY <1>1, <1>8, <1>9, <2>1, SetIs
<1>11. u \in TableOf(E)
  BY <1>10 DEF GoodTable
<1>12. maps \in [Maps -> TableOf(E)] /\ target \in Maps
  BY <1>1 DEF TreeInv
<1>13. maps'[target] = u
  BY <1>9, <1>12
<1>14. maps' \in [Maps -> TableOf(E)] /\ \A m \in Maps : GoodTable(maps'[m], E)
  BY <1>1, <1>9, <1>10, <1>11, <1>12 DEF TreeInv
<1>15. TreeInv'
  BY <1>1, <1>9, <1>14, NoStack DEF TreeInv
<1>16. QED
  BY <1>2, <1>4, <1>5, <1>6, <1>7, <1>9, <1>10, <1>13, <1>15

\* The other steps of a put keep the stack good, and what it holds.
LEMMA StepInv ==
  ASSUME TreeInv, Move \/ Rehash \/ Iterate \/ Swap, UNCHANGED made
  PROVE  /\ TreeInv' /\ UNCHANGED <<maps, target>>
         /\ stack # << >> /\ SameStack(stack, stack')
<1>1. PICK E : E = Entries(made) /\ E \in SUBSET Pair /\ E = Entries(made)'
  BY EntriesIs DEF TreeInv, Entries
<1>2. PICK s : s = stack /\ GoodStack(s, E) /\ s # << >>
  BY <1>1 DEF TreeInv, Move, Rehash, Iterate, Swap, Busy
<1>3. PICK r : r = stack'
  OBVIOUS
<1>4. s \in Seq(FrameOf(E)) /\ Len(s) \in Nat /\ Len(s) >= 1
  BY <1>2 DEF GoodStack
<1>5. SameStack(s, s)
  BY <1>2 DEF SameStack
<1>6. GoodStack(r, E) /\ SameStack(s, r) /\ UNCHANGED <<maps, target>>
      /\ faulted' \in BOOLEAN
  <2>1. CASE Move
    <3>1. /\ Len(s) > 1 /\ s[Len(s)].key # NoValue
          /\ HashHelper(s[Len(s)].table, s[Len(s)].key) # NoIndex
          /\ UNCHANGED <<maps, target, faulted>>
      BY <1>2, <2>1 DEF Move, Depth, Top, Cell
    <3>2. r = Moved(s)
      BY <1>2, <1>3, <1>4, <2>1 DEF Move, Depth, Top, Cell, Below, Moved
    <3>3. QED
      BY <1>1, <1>2, <3>1, <3>2, MovedStack DEF TreeInv
  <2>2. CASE Rehash
    <3>1. s[Len(s)].key # NoValue /\ UNCHANGED <<maps, target>>
      BY <1>2, <2>2 DEF Rehash, Depth, Top
    <3>2. CASE 2 * s[Len(s)].table.table_size <= MaxTable
      <4>1. r = Rehashed(s) /\ UNCHANGED faulted
        BY <1>2, <1>3, <2>2, <3>2 DEF Rehash, Depth, Top, Rehashed
      <4>2. QED
        BY <1>1, <1>2, <3>1, <3>2, <4>1, RehashedStack DEF TreeInv
    <3>3. CASE ~(2 * s[Len(s)].table.table_size <= MaxTable)
      <4>1. r = s /\ faulted' = TRUE
        BY <1>2, <1>3, <2>2, <3>3 DEF Rehash, Depth, Top
      <4>2. QED
        BY <1>2, <1>5, <3>1, <4>1
    <3>4. QED
      BY <3>2, <3>3
  <2>3. CASE Iterate
    <3>1. /\ Len(s) > 1 /\ s[Len(s)].key = NoValue /\ UNCHANGED <<maps, target, faulted>>
          /\ s[Len(s) - 1].next < s[Len(s) - 1].table.table_size
      BY <1>2, <2>3 DEF Iterate, Depth, Top, Below
    <3>2. s[Len(s) - 1].next \in Nat /\ s[Len(s) - 1].table.table_size \in Nat
      BY <1>2, <1>4, <3>1, FrameParts DEF GoodStack
    <3>3. s[Len(s) - 1].next \in Used(s[Len(s) - 1].table) <=>
            InUse(s[Len(s) - 1].table, s[Len(s) - 1].next)
      BY <3>1, <3>2 DEF Used
    <3>4. CASE InUse(s[Len(s) - 1].table, s[Len(s) - 1].next)
      <4>1. r = HandedOver(s)
        BY <1>2, <1>3, <2>3, <3>4 DEF Iterate, Depth, Below, HandedOver
      <4>2. QED
        BY <1>1, <1>2, <3>1, <3>3, <3>4, <4>1, HandedStack DEF TreeInv
    <3>5. CASE ~InUse(s[Len(s) - 1].table, s[Len(s) - 1].next)
      <4>1. r = Passed(s)
        BY <1>2, <1>3, <2>3, <3>5 DEF Iterate, Depth, Below, Passed
      <4>2. QED
        BY <1>1, <1>2, <3>1, <3>3, <3>5, <4>1, PassedStack DEF TreeInv
    <3>6. QED
      BY <3>4, <3>5
  <2>4. CASE Swap
    <3>1. /\ Len(s) > 1 /\ s[Len(s)].key = NoValue /\ UNCHANGED <<maps, target, faulted>>
          /\ s[Len(s) - 1].next = s[Len(s) - 1].table.table_size
      BY <1>2, <2>4 DEF Swap, Depth, Top, Below
    <3>2. r = Swapped(s)
      BY <1>2, <1>3, <2>4 DEF Swap, Depth, Top, Swapped
    <3>3. QED
      BY <1>1, <1>2, <3>1, <3>2, SwappedStack DEF TreeInv
  <2>5. QED
    BY <2>1, <2>2, <2>3, <2>4
<1>7. QED
  BY <1>1, <1>2, <1>3, <1>6 DEF TreeInv

\* hashmap_remove() takes the element of a key out of the map.
LEMMA RemoveInv ==
  ASSUME TreeInv, NEW m \in Maps, NEW k \in Keys, HashmapRemove(m, k), UNCHANGED made
  PROVE  /\ TreeInv' /\ stack = << >> /\ UNCHANGED <<stack, target>>
         /\ maps' = [maps EXCEPT ![m] = maps'[m]]
         /\ \A h \in Keys : HashmapGet(maps'[m], h) =
              IF h = k THEN NoValue ELSE HashmapGet(maps[m], h)
<1>1. PICK E : E = Entries(made) /\ E \in SUBSET Pair /\ E = Entries(made)'
  BY EntriesIs DEF TreeInv, Entries
<1>2. PICK t : t = maps[m] /\ GoodTable(t, E)
  BY <1>1 DEF TreeInv
<1>3. PICK c : c = Probe(t, k, First(Matches(t, k)))
  OBVIOUS
<1>4. PICK u : u = ClearCell(t, c)
  OBVIOUS
<1>5. /\ Matches(t, k) # {} /\ maps' = [maps EXCEPT ![m] = u]
      /\ stack = << >> /\ UNCHANGED <<stack, target, faulted>>
  BY <1>2, <1>3, <1>4 DEF HashmapRemove, Idle
<1>6. c \in Used(t) /\ t.cells[c].key = k
  BY <1>1, <1>2, <1>3, <1>5, MatchIs
<1>7. Cleared(t, c, u, E)
  BY <1>1, <1>2, <1>4, <1>6, ClearIs
<1>8. /\ GoodTable(u, E) /\ u \in TableOf(E)
      /\ \A h \in Keys : HashmapGet(u, h) = IF h = k THEN NoValue ELSE HashmapGet(t, h)
  BY <1>6, <1>7 DEF Cleared, GoodTable
<1>9. maps \in [Maps -> TableOf(E)]
  BY <1>1 DEF TreeInv
<1>10. maps'[m] = u
  BY <1>5, <1>9
<1>11. maps' \in [Maps -> TableOf(E)] /\ \A n \in Maps : GoodTable(maps'[n], E)
  BY <1>1, <1>5, <1>8, <1>9 DEF TreeInv
<1>12. TreeInv'
  BY <1>1, <1>5, <1>11 DEF TreeInv
<1>13. QED
  BY <1>2, <1>5, <1>8, <1>10, <1>12

\* A new vnode changes no table.
LEMMA MakeInv ==
  ASSUME TreeInv, NEW v \in Vnodes, MakeVnode(v)
  PROVE  TreeInv'
<1>1. UNCHANGED <<maps, stack, target, faulted>> /\ stack = << >>
      /\ made' = IF TooLong(Name[v]) THEN made ELSE made \cup {v}
  BY DEF MakeVnode, hvars, Idle
<1>2. made' \in SUBSET Vnodes /\ made \subseteq made' /\ \A w \in made' : ~TooLong(Name[w])
  BY <1>1 DEF TreeInv
<1>3. PICK E : E = Entries(made)
  OBVIOUS
<1>4. PICK F : F = Entries(made') /\ E \subseteq F
  BY <1>2, <1>3, EntriesIs DEF TreeInv
<1>5. maps \in [Maps -> TableOf(E)] /\ \A m \in Maps : GoodTable(maps[m], E)
  BY <1>3 DEF TreeInv
<1>6. maps \in [Maps -> TableOf(F)] /\ \A m \in Maps : GoodTable(maps[m], F)
  BY <1>4, <1>5, MoreEntries
<1>7. GoodStack(stack', F)
  BY <1>1, NoStack
<1>8. (\A w \in made : ~TooLong(Name[w]))' /\ F = Entries(made)'
  BY <1>2, <1>4 DEF TooLong
<1>9. QED
  BY <1>1, <1>2, <1>6, <1>7, <1>8 DEF TreeInv

\* Every step keeps the invariant.
LEMMA TreeNext == TreeInv /\ [Next]_vars => TreeInv'
<1> SUFFICES ASSUME TreeInv, [Next]_vars PROVE TreeInv'
  OBVIOUS
<1>1. Maps = Dirs /\ Keys = Names
  BY VfsAssumption
<1>2. ASSUME NEW v \in Vnodes, MakeVnode(v) PROVE TreeInv'
  BY <1>2, MakeInv
<1>3. ASSUME NEW parent \in Dirs \cap made, NEW child \in made \ {Root},
             AppendChild(parent, child)
      PROVE  TreeInv'
  BY <1>1, <1>3, PutInv DEF AppendChild
<1>4. ASSUME NEW parent \in Dirs \cap made, NEW name \in Names,
             RemoveChild(parent, name)
      PROVE  TreeInv'
  BY <1>1, <1>4, RemoveInv DEF RemoveChild
<1>5. CASE Return
  BY <1>5, PlaceInv, StepInv DEF Return, PutStep
<1>6. CASE UNCHANGED vars
  BY <1>6 DEF vars, TreeInv, Entries, TooLong
<1>7. QED
  BY <1>2, <1>3, <1>4, <1>5, <1>6 DEF Next

\* The invariant of the hash maps and of the tree holds in every state.
THEOREM TreeInvariance == Spec => []TreeInv
BY TreeInit, TreeNext, PTL DEF Spec

\* A table that the invariant is about has the type of TypeOK.
LEMMA TreeTables ==
  ASSUME TreeInv, NEW t \in Tables
  PROVE  GoodTable(t, Entries(made))
BY DEF TreeInv, GoodStack, GoodFrame, Tables

\* The types of the hash maps and of the tree: a table has a size that
\* hashmap_create() accepts and memory holds, the iteration of a rehash stays
\* within its table, and a map holds only vnodes that vfs_make_vnode() returned.
THEOREM TreeTypeCorrect == Spec => []TypeOK
<1>1. TreeInv => TypeOK
  <2> SUFFICES ASSUME TreeInv PROVE TypeOK
    OBVIOUS
  <2>1. PICK E : E = Entries(made) /\ E \in SUBSET Pair
    BY EntriesIs DEF TreeInv
  <2>2. ASSUME NEW t \in Tables
        PROVE  /\ t.table_size \in PowersOfTwo /\ t.table_size \in InitSize .. MaxTable
               /\ t.cells \in [0 .. t.table_size - 1 ->
                                 [key : Keys, data : Values] \cup {Unused}]
               /\ \A i \in DOMAIN t.cells : InUse(t, i) => t.cells[i].data \in made
    <3>1. t \in TableOf(E)
      BY <2>1, TreeTables DEF GoodTable
    <3>2. t.table_size \in Sizes /\ t.cells \in [0 .. t.table_size - 1 -> E \cup {Unused}]
      BY <3>1, TableParts
    <3>3. t.cells \in [0 .. t.table_size - 1 -> Pair \cup {Unused}]
      BY <2>1, <3>2
    <3>4. \A e \in E : e.data \in made
      BY <2>1 DEF Entries
    <3>5. ASSUME NEW i \in DOMAIN t.cells, InUse(t, i) PROVE t.cells[i].data \in made
      <4>1. i \in 0 .. t.table_size - 1
        BY <3>2, <3>5
      <4>2. t.cells[i] \in E
        BY <2>1, <3>1, <3>5, <4>1, CellIs DEF Used
      <4>3. QED
        BY <3>4, <4>2
    <3>6. QED
      BY <3>2, <3>3, <3>5, SizeFacts DEF Pair
  <2>3. \A i \in 1 .. Len(stack) : stack[i].next \in 0 .. stack[i].table.table_size
    BY FrameParts DEF TreeInv, GoodStack
  <2>4. QED
    BY <2>2, <2>3 DEF TypeOK, HashTypeOK, TreeInv
<1>2. QED
  BY <1>1, TreeInvariance, PTL

\* hashmap_get() finds every element, in the one cell that holds its key, in the
\* maps and in every table that a rehash is filling or emptying; and the size
\* that the "full" test of hashmap_hash_helper() reads is exact.
THEOREM FindableCorrect == Spec => []Findable
<1>1. TreeInv => Findable
  <2> SUFFICES ASSUME TreeInv, NEW t \in Tables
               PROVE  /\ \A i \in 0 .. t.table_size - 1 : InUse(t, i) =>
                           Probe(t, t.cells[i].key,
                                 First(Matches(t, t.cells[i].key))) = i
                      /\ t.size = Cardinality({i \in 0 .. t.table_size - 1 : InUse(t, i)})
    BY DEF Findable
  <2>1. PICK E : E = Entries(made) /\ E \in SUBSET Pair /\ GoodTable(t, E)
    BY EntriesIs, TreeTables DEF TreeInv
  <2>2. ASSUME NEW i \in 0 .. t.table_size - 1, InUse(t, i)
        PROVE  Probe(t, t.cells[i].key, First(Matches(t, t.cells[i].key))) = i
    <3>1. i \in Used(t) /\ t.cells[i].key \in Keys
      BY <2>1, <2>2, CellIs DEF Used, GoodTable
    <3>2. QED
      BY <2>1, <3>1, MatchIs
  <2>3. t.size = Cardinality({i \in 0 .. t.table_size - 1 : InUse(t, i)})
    BY <2>1 DEF GoodTable, Used
  <2>4. QED
    BY <2>2, <2>3
<1>2. QED
  BY <1>1, TreeInvariance, PTL

----------------------------------------------------------------------------
(* The maps implement dictionaries.                                        *)

\* The value that a lookup has, given what the tables map the key to.
OneOf(H) == IF H = {} THEN NoValue ELSE CHOOSE v \in H : TRUE

LookIn(ms, s, tg, m, k) ==
  OneOf(IF s # << >> /\ tg = m THEN Hits(s, k) ELSE {HashmapGet(ms[m], k)} \ {NoValue})

\* Lookup() is LookIn(), before and after a step.
LEMMA LookupIs ==
  ASSUME NEW m, NEW k
  PROVE  /\ Lookup(m, k) = LookIn(maps, stack, target, m, k)
         /\ Lookup(m, k)' = LookIn(maps', stack', target', m, k)
<1>1. ASSUME NEW s
      PROVE  {HashmapGet(t, k) : t \in {s[i].table : i \in 1 .. Len(s)}} \ {NoValue}
             = Hits(s, k)
  BY DEF Hits
<1>2. ASSUME NEW ms
      PROVE  {HashmapGet(t, k) : t \in {ms[m]}} \ {NoValue}
             = {HashmapGet(ms[m], k)} \ {NoValue}
  OBVIOUS
<1>3. Lookup(m, k) = LookIn(maps, stack, target, m, k)
  <2>1. CASE stack # << >> /\ target = m
    BY <1>1, <2>1 DEF Lookup, LookIn, OneOf
  <2>2. CASE ~(stack # << >> /\ target = m)
    BY <1>2, <2>2 DEF Lookup, LookIn, OneOf
  <2>3. QED
    BY <2>1, <2>2
<1>4. Lookup(m, k)' = LookIn(maps', stack', target', m, k)
  <2>1. CASE stack' # << >> /\ target' = m
    BY <1>1, <2>1 DEF Lookup, LookIn, OneOf
  <2>2. CASE ~(stack' # << >> /\ target' = m)
    BY <1>2, <2>2 DEF Lookup, LookIn, OneOf
  <2>3. QED
    BY <2>1, <2>2
<1>5. QED
  BY <1>3, <1>4

\* A map that no put is under way for is looked up in its own table.
LEMMA LookHere ==
  ASSUME NEW ms, NEW s, NEW tg, NEW m, NEW k, ~(s # << >> /\ tg = m)
  PROVE  LookIn(ms, s, tg, m, k) = HashmapGet(ms[m], k)
BY DEF LookIn, OneOf

\* A map that a put without a rehash is under way for, too.
LEMMA LookOne ==
  ASSUME NEW ms, NEW s, NEW m, NEW k, Len(s) = 1, s # << >>
  PROVE  LookIn(ms, s, m, m, k) = HashmapGet(s[1].table, k)
<1>1. Hits(s, k) = {HashmapGet(s[1].table, k)} \ {NoValue}
  BY DEF Hits
<1>2. QED
  BY <1>1 DEF LookIn, OneOf

\* The dictionaries and the call that the maps stand for.
DictOf == [m \in Maps |-> [k \in Keys |-> Lookup(m, k)]]
CallOf ==
  IF stack = << >> THEN NoValue
  ELSE [map |-> target, key |-> stack[1].key, data |-> stack[1].data]

\* Two lookups agree when they find the same.
LEMMA SameDict ==
  ASSUME \A m \in Maps, k \in Keys :
           LookIn(maps', stack', target', m, k) = LookIn(maps, stack, target, m, k)
  PROVE  DictOf' = DictOf
<1>1. \A m \in Maps, k \in Keys : Lookup(m, k)' = Lookup(m, k)
  BY LookupIs
<1>2. QED
  BY <1>1 DEF DictOf

\* A put that is called changes no dictionary.
LEMMA PutDict ==
  ASSUME TreeInv, NEW m \in Maps, NEW v \in made \ {Root},
         HashmapPut(m, Name[v], v), UNCHANGED made
  PROVE  /\ DictOf' = DictOf /\ CallOf = NoValue
         /\ CallOf' \in [map : Maps, key : Keys, data : Values]
<1>1. /\ stack = << >> /\ stack' = <<Frame(maps[m], Name[v], v)>>
      /\ target' = m /\ maps' = maps
  BY DEF HashmapPut, Idle
<1>2. Len(stack') = 1 /\ stack' # << >>
      /\ stack'[1].table = maps[m] /\ stack'[1].key = Name[v] /\ stack'[1].data = v
  BY <1>1 DEF Frame
<1>3. Name[v] \in Keys /\ v \in Values
  BY EntriesIs DEF TreeInv
<1>4. ASSUME NEW n \in Maps, NEW k \in Keys
      PROVE  LookIn(maps', stack', target', n, k) = LookIn(maps, stack, target, n, k)
  <2>1. LookIn(maps, stack, target, n, k) = HashmapGet(maps[n], k)
    BY <1>1, LookHere
  <2>2. CASE n = m
    <3>1. LookIn(maps', stack', m, m, k) = HashmapGet(stack'[1].table, k)
      BY <1>2, LookOne
    <3>2. QED
      BY <1>1, <1>2, <2>1, <2>2, <3>1
  <2>3. CASE n # m
    <3>1. LookIn(maps', stack', target', n, k) = HashmapGet(maps'[n], k)
      BY <1>1, <2>3, LookHere
    <3>2. QED
      BY <1>1, <2>1, <3>1
  <2>4. QED
    BY <2>2, <2>3
<1>5. DictOf' = DictOf
  BY <1>4, SameDict
<1>6. CallOf = NoValue
  BY <1>1 DEF CallOf
<1>7. CallOf' = [map |-> m, key |-> Name[v], data |-> v]
  BY <1>1, <1>2 DEF CallOf
<1>8. QED
  BY <1>3, <1>5, <1>6, <1>7

\* A put takes effect when the element is placed.
LEMMA PlaceDict ==
  ASSUME TreeInv, Place, UNCHANGED made
  PROVE  /\ CallOf # NoValue /\ CallOf' = NoValue
         /\ DictOf' = [DictOf EXCEPT ![CallOf.map][CallOf.key] = CallOf.data]
<1>1. /\ Len(stack) = 1 /\ stack # << >> /\ stack' = << >> /\ target' = target
  BY DEF Place, Busy, Depth
<1>2. target \in Maps
  BY DEF TreeInv
<1>3. PICK K : K = stack[1].key
  OBVIOUS
<1>4. PICK V : V = stack[1].data
  OBVIOUS
<1>5. CallOf = [map |-> target, key |-> K, data |-> V]
  BY <1>1, <1>3, <1>4 DEF CallOf
<1>6. K \in Keys /\ V \in Values
  BY <1>3, <1>4, PlaceInv
<1>7. CallOf \in [map : Maps, key : Keys, data : Values]
  BY <1>2, <1>5, <1>6
<1>8. CallOf # NoValue /\ CallOf' = NoValue
  <2>1. NoValue \notin [map : Maps, key : Keys, data : Values]
    BY HashmapAssumption
  <2>2. CallOf # NoValue
    BY <1>7, <2>1
  <2>3. CallOf' = NoValue
    BY <1>1 DEF CallOf
  <2>4. QED
    BY <2>2, <2>3
<1>9. ASSUME NEW m \in Maps, NEW k \in Keys
      PROVE  Lookup(m, k)' = IF m = target /\ k = K THEN V ELSE Lookup(m, k)
  <2>1. Lookup(m, k)' = HashmapGet(maps'[m], k)
    BY <1>1, LookupIs, LookHere
  <2>2. CASE m = target
    <3>1. HashmapGet(maps'[target], k) = IF k = K THEN V ELSE HashmapGet(stack[1].table, k)
      BY <1>3, <1>4, PlaceInv
    <3>2. Lookup(m, k) = HashmapGet(stack[1].table, k)
      BY <1>1, <2>2, LookupIs, LookOne
    <3>3. QED
      BY <2>1, <2>2, <3>1, <3>2
  <2>3. CASE m # target
    <3>1. maps \in [Maps -> TableOf(Entries(made))]
      BY DEF TreeInv
    <3>2. maps'[m] = maps[m]
      BY <2>3, <3>1, PlaceInv
    <3>3. Lookup(m, k) = HashmapGet(maps[m], k)
      BY <2>3, LookupIs, LookHere
    <3>4. QED
      BY <2>1, <2>3, <3>2, <3>3
  <2>4. QED
    BY <2>2, <2>3
<1>10. DictOf' = [DictOf EXCEPT ![target][K] = V]
  <2>1. DictOf' = [m \in Maps |-> [k \in Keys |-> Lookup(m, k)']]
    BY DEF DictOf
  <2>2. DictOf' = [m \in Maps |-> [k \in Keys |->
                     IF m = target /\ k = K THEN V ELSE Lookup(m, k)]]
    BY <1>9, <2>1
  <2>3. QED
    BY <1>2, <1>6, <2>2 DEF DictOf
<1>11. CallOf.map = target /\ CallOf.key = K /\ CallOf.data = V
  BY <1>5
<1>12. QED
  BY <1>8, <1>10, <1>11

\* The steps of a rehash change no dictionary, nor the call.
LEMMA StepDict ==
  ASSUME TreeInv, Move \/ Rehash \/ Iterate \/ Swap, UNCHANGED made
  PROVE  DictOf' = DictOf /\ CallOf' = CallOf
<1>1. stack # << >> /\ SameStack(stack, stack') /\ UNCHANGED <<maps, target>>
  BY StepInv
<1>2. ASSUME NEW m \in Maps, NEW k \in Keys
      PROVE  LookIn(maps', stack', target', m, k) = LookIn(maps, stack, target, m, k)
  <2>1. CASE m = target
    <3>1. Hits(stack', k) = Hits(stack, k) /\ stack' # << >>
      BY <1>1 DEF SameStack
    <3>2. QED
      BY <1>1, <2>1, <3>1 DEF LookIn
  <2>2. CASE m # target
    BY <1>1, <2>2, LookHere
  <2>3. QED
    BY <2>1, <2>2
<1>3. CallOf' = CallOf
  BY <1>1 DEF CallOf, SameStack
<1>4. QED
  BY <1>2, <1>3, SameDict

\* A remove takes the key out of the dictionary.
LEMMA RemoveDict ==
  ASSUME TreeInv, NEW n \in Maps, NEW h \in Keys, HashmapRemove(n, h), UNCHANGED made
  PROVE  /\ CallOf = NoValue /\ CallOf' = CallOf
         /\ DictOf' = [DictOf EXCEPT ![n][h] = NoValue]
<1>1. stack = << >> /\ UNCHANGED <<stack, target>>
  BY RemoveInv
<1>2. CallOf = NoValue /\ CallOf' = CallOf
  BY <1>1 DEF CallOf
<1>3. ASSUME NEW m \in Maps, NEW k \in Keys
      PROVE  Lookup(m, k)' = IF m = n /\ k = h THEN NoValue ELSE Lookup(m, k)
  <2>1. Lookup(m, k)' = HashmapGet(maps'[m], k) /\ Lookup(m, k) = HashmapGet(maps[m], k)
    BY <1>1, LookupIs, LookHere
  <2>2. CASE m = n
    <3>1. HashmapGet(maps'[n], k) = IF k = h THEN NoValue ELSE HashmapGet(maps[n], k)
      BY RemoveInv
    <3>2. QED
      BY <2>1, <2>2, <3>1
  <2>3. CASE m # n
    <3>1. maps \in [Maps -> TableOf(Entries(made))]
      BY DEF TreeInv
    <3>2. maps'[m] = maps[m]
      BY <2>3, <3>1, RemoveInv
    <3>3. QED
      BY <2>1, <2>3, <3>2
  <2>4. QED
    BY <2>2, <2>3
<1>4. DictOf' = [DictOf EXCEPT ![n][h] = NoValue]
  <2>1. DictOf' = [m \in Maps |-> [k \in Keys |-> Lookup(m, k)']]
    BY DEF DictOf
  <2>2. DictOf' = [m \in Maps |-> [k \in Keys |->
                     IF m = n /\ k = h THEN NoValue ELSE Lookup(m, k)]]
    BY <1>3, <2>1
  <2>3. QED
    BY <2>2 DEF DictOf
<1>5. QED
  BY <1>2, <1>4

\* Maps start as empty dictionaries.
LEMMA DictInit == Init => Contents!Init
<1> SUFFICES ASSUME Init PROVE Contents!Init
  OBVIOUS
<1>1. stack = << >> /\ maps = [m \in Maps |-> HashmapCreate(InitSize)]
  BY DEF Init, HashInit
<1>2. TreeInv
  BY TreeInit
<1>3. ASSUME NEW m \in Maps, NEW k \in Keys PROVE Lookup(m, k) = NoValue
  <2>1. Lookup(m, k) = HashmapGet(maps[m], k)
    BY <1>1, LookupIs, LookHere
  <2>2. PICK t : t = HashmapCreate(InitSize) /\ t = maps[m]
    BY <1>1
  <2>3. PICK E : E = Entries(made) /\ E \in SUBSET Pair /\ GoodTable(t, E)
    BY <1>2, <2>2, EntriesIs DEF TreeInv
  <2>4. t.table_size = InitSize /\ t.cells = [i \in 0 .. InitSize - 1 |-> Unused]
    BY <2>2 DEF HashmapCreate
  <2>5. Used(t) = {}
    BY <2>4 DEF Used, InUse, Unused
  <2>6. QED
    BY <2>1, <2>2, <2>3, <2>5, GetIs
<1>4. QED
  BY <1>1, <1>3 DEF Contents!Init

\* Every step is one of the dictionaries, or changes none.
LEMMA DictNext ==
  TreeInv /\ [Next]_vars => [Contents!Next]_(Contents!dvars)
<1> SUFFICES ASSUME TreeInv, [Next]_vars PROVE [Contents!Next]_(Contents!dvars)
  OBVIOUS
<1>1. Maps = Dirs /\ Keys = Names
  BY VfsAssumption
<1>2. ASSUME DictOf' = DictOf, CallOf' = CallOf
      PROVE  [Contents!Next]_(Contents!dvars)
  BY <1>2 DEF Contents!dvars, DictOf, CallOf
<1>3. ASSUME NEW v \in Vnodes, MakeVnode(v) PROVE [Contents!Next]_(Contents!dvars)
  <2>1. UNCHANGED <<maps, stack, target>>
    BY <1>3 DEF MakeVnode, hvars
  <2>2. DictOf' = DictOf
    BY <2>1, SameDict
  <2>3. CallOf' = CallOf
    BY <2>1 DEF CallOf
  <2>4. QED
    BY <1>2, <2>2, <2>3
<1>4. ASSUME NEW parent \in Dirs \cap made, NEW child \in made \ {Root},
             AppendChild(parent, child)
      PROVE  [Contents!Next]_(Contents!dvars)
  <2>1. /\ DictOf' = DictOf /\ CallOf = NoValue
        /\ CallOf' \in [map : Maps, key : Keys, data : Values]
    BY <1>1, <1>4, PutDict DEF AppendChild
  <2>2. Contents!Call
    BY <2>1 DEF Contents!Call, DictOf, CallOf
  <2>3. QED
    BY <2>2 DEF Contents!Next
<1>5. ASSUME NEW parent \in Dirs \cap made, NEW name \in Names,
             RemoveChild(parent, name)
      PROVE  [Contents!Next]_(Contents!dvars)
  <2>1. /\ CallOf = NoValue /\ CallOf' = CallOf
        /\ DictOf' = [DictOf EXCEPT ![parent][name] = NoValue]
    BY <1>1, <1>5, RemoveDict DEF RemoveChild
  <2>2. \E m \in Maps, k \in Keys : DictOf' = [DictOf EXCEPT ![m][k] = NoValue]
    BY <1>1, <2>1
  <2>3. Contents!Remove
    BY <2>1, <2>2 DEF Contents!Remove, DictOf, CallOf
  <2>4. QED
    BY <2>3 DEF Contents!Next
<1>6. CASE Place /\ UNCHANGED made
  <2>1. /\ CallOf # NoValue /\ CallOf' = NoValue
        /\ DictOf' = [DictOf EXCEPT ![CallOf.map][CallOf.key] = CallOf.data]
    BY <1>6, PlaceDict
  <2>2. Contents!Take
    BY <2>1 DEF Contents!Take, DictOf, CallOf
  <2>3. QED
    BY <2>2 DEF Contents!Next
<1>7. CASE (Move \/ Rehash \/ Iterate \/ Swap) /\ UNCHANGED made
  BY <1>2, <1>7, StepDict
<1>8. CASE UNCHANGED vars
  <2>1. UNCHANGED <<maps, stack, target>>
    BY <1>8 DEF vars
  <2>2. DictOf' = DictOf
    BY <2>1, SameDict
  <2>3. CallOf' = CallOf
    BY <2>1 DEF CallOf
  <2>4. QED
    BY <1>2, <2>2, <2>3
<1>9. QED
  BY <1>3, <1>4, <1>5, <1>6, <1>7, <1>8 DEF Next, Return, PutStep

\* Puts and removes are those of dictionaries, one for each map: a rehash, at
\* any depth, neither loses an element nor brings one back, and the put it is
\* part of takes effect once, at its end.
THEOREM DictCorrect == Spec => DictPromise
BY TreeInvariance, DictInit, DictNext, PTL DEF Spec, DictPromise, Contents!Spec

----------------------------------------------------------------------------
(* Paths.                                                                  *)


\* The loop of path2vnode() is defined: each component from the one before.
LEMMA WalkIs ==
  ASSUME NEW path, Len(path) \in Nat
  PROVE  /\ Walk(path)[0] = Root
         /\ \A i \in 1 .. Len(path) :
              Walk(path)[i] = Component(path, i, Walk(path)[i - 1])
<1> DEFINE Is(f, n) ==
             f = [i \in 0 .. n |-> IF i = 0 THEN Root ELSE Component(path, i, f[i - 1])]
           Bad == {n \in Nat : ~\E f : Is(f, n)}
<1>1. ASSUME Bad # {} PROVE FALSE
  <2>1. PICK n \in Bad : \A m \in Bad : n <= m
    <3>1. Bad \in SUBSET Nat
      OBVIOUS
    <3> HIDE DEF Bad
    <3>2. QED
      BY <1>1, <3>1, FirstIs
  <2>2. n \in Nat /\ ~\E f : Is(f, n)
    BY <2>1
  <2>3. CASE n = 0
    <3>1. PICK f : f = [i \in 0 .. n |-> Root]
      OBVIOUS
    <3>2. Is(f, n)
      BY <2>3, <3>1
    <3>3. QED
      BY <2>2, <3>2
  <2>4. CASE n # 0
    <3>1. n - 1 \in Nat /\ n - 1 \notin Bad
      BY <2>1, <2>2, <2>4
    <3>2. PICK g : Is(g, n - 1)
      BY <3>1
    <3>3. PICK f : f = [i \in 0 .. n |-> IF i = 0 THEN Root
                                         ELSE Component(path, i, g[i - 1])]
      OBVIOUS
    <3>4. \A i \in 0 .. n - 1 : f[i] = g[i]
      BY <2>2, <3>2, <3>3
    <3>5. \A i \in 0 .. n : i # 0 => f[i - 1] = g[i - 1]
      BY <2>2, <3>4
    <3>6. Is(f, n)
      BY <3>3, <3>5
    <3>7. QED
      BY <2>2, <3>6
  <2>5. QED
    BY <2>3, <2>4
<1>2. \E f : Is(f, Len(path))
  BY <1>1
<1>3. Is(Walk(path), Len(path))
  BY <1>2 DEF Walk
<1>4. QED
  BY <1>3

\* So are the vnodes that the tree has at each component.
LEMMA ReachIs ==
  ASSUME NEW path, Len(path) \in Nat
  PROVE  /\ Reach(path)[0] = {Root}
         /\ \A i \in 1 .. Len(path) :
              Reach(path)[i] = Children(path, i, Reach(path)[i - 1])
<1>0. PICK top : top = {Root}
  OBVIOUS
<1> DEFINE Is(f, n) ==
             f = [i \in 0 .. n |-> IF i = 0 THEN top ELSE Children(path, i, f[i - 1])]
           Bad == {n \in Nat : ~\E f : Is(f, n)}
<1>1. ASSUME Bad # {} PROVE FALSE
  <2>1. PICK n \in Bad : \A m \in Bad : n <= m
    <3>1. Bad \in SUBSET Nat
      OBVIOUS
    <3> HIDE DEF Bad
    <3>2. QED
      BY <1>1, <3>1, FirstIs
  <2>2. n \in Nat /\ ~\E f : Is(f, n)
    BY <2>1
  <2>3. CASE n = 0
    <3>1. PICK f : f = [i \in 0 .. n |-> top]
      OBVIOUS
    <3>2. Is(f, n)
      BY <2>3, <3>1
    <3>3. QED
      BY <2>2, <3>2
  <2>4. CASE n # 0
    <3>1. n - 1 \in Nat /\ n - 1 \notin Bad
      BY <2>1, <2>2, <2>4
    <3>2. PICK g : Is(g, n - 1)
      BY <3>1
    <3>3. PICK f : f = [i \in 0 .. n |-> IF i = 0 THEN top
                                         ELSE Children(path, i, g[i - 1])]
      OBVIOUS
    <3>4. \A i \in 0 .. n - 1 : f[i] = g[i]
      BY <2>2, <3>2, <3>3
    <3>5. \A i \in 0 .. n : i # 0 => f[i - 1] = g[i - 1]
      BY <2>2, <3>4
    <3>6. Is(f, n)
      BY <3>3, <3>5
    <3>7. QED
      BY <2>2, <3>6
  <2>5. QED
    BY <2>3, <2>4
<1>2. \E f : Is(f, Len(path))
  BY <1>1
<1>3. Is(Reach(path), Len(path))
  BY <1>0, <1>2 DEF Reach
<1>4. PICK f : f = Reach(path)
  OBVIOUS
<1>5. f[0] = top
  BY <1>3, <1>4
<1>6. ASSUME NEW i \in 1 .. Len(path) PROVE f[i] = Children(path, i, f[i - 1])
  <2>1. i \in 0 .. Len(path) /\ i # 0
    OBVIOUS
  <2>2. QED
    BY <1>3, <1>4, <2>1
<1>7. QED
  BY <1>0, <1>4, <1>5, <1>6

\* A child is what hashmap_get() finds under its name.
LEMMA ChildIs ==
  ASSUME TreeInv, NEW p \in Dirs, NEW name \in Names
  PROVE  /\ \A v : ChildOf(p, name, v) =>
               /\ v = HashmapGet(maps[p], name) /\ v # NoValue
               /\ v \in made \ {Root} /\ name = Name[v]
         /\ HashmapGet(maps[p], name) # NoValue =>
               ChildOf(p, name, HashmapGet(maps[p], name))
<1>1. p \in Maps /\ name \in Keys /\ NoValue \notin Keys /\ NoValue \notin Values
      /\ Values = Vnodes
  BY VfsAssumption, HashmapAssumption
<1>2. PICK E : E = Entries(made) /\ E \in SUBSET Pair
  BY EntriesIs DEF TreeInv
<1>3. PICK t : t = maps[p] /\ GoodTable(t, E) /\ t \in TableOf(E)
  BY <1>1, <1>2 DEF TreeInv, GoodTable
<1>4. t.cells \in [0 .. t.table_size - 1 -> E \cup {Unused}]
  BY <1>3, TableParts
<1>5. ASSUME NEW v, ChildOf(p, name, v)
      PROVE  /\ v = HashmapGet(maps[p], name) /\ v # NoValue
             /\ v \in made \ {Root} /\ name = Name[v]
  <2>1. PICK i \in 0 .. t.table_size - 1 : t.cells[i] = [key |-> name, data |-> v]
    BY <1>3, <1>4, <1>5 DEF ChildOf
  <2>2. i \in Used(t) /\ t.cells[i].key = name /\ t.cells[i].data = v
    BY <1>1, <2>1 DEF Used, InUse
  <2>3. t.cells[i] \in E /\ v \in Values
    BY <1>2, <1>3, <2>2, CellIs
  <2>4. PICK w \in made \ {Root} : t.cells[i] = [key |-> Name[w], data |-> w]
    BY <1>2, <2>3 DEF Entries
  <2>5. v = w /\ name = Name[w]
    BY <2>2, <2>4
  <2>6. HashmapGet(t, name) = v
    <3>1. \A j \in Used(t) : t.cells[j].key = name => HashmapGet(t, name) = t.cells[j].data
      <4>1. name \in Keys /\ E \in SUBSET Pair /\ GoodTable(t, E)
        BY <1>1, <1>2, <1>3
      <4>2. QED
        BY <4>1, GetIs
    <3>2. QED
      BY <2>2, <3>1
  <2>7. QED
    BY <1>1, <1>3, <2>3, <2>5, <2>6
<1>6. ASSUME HashmapGet(maps[p], name) # NoValue
      PROVE  ChildOf(p, name, HashmapGet(maps[p], name))
  <2>1. PICK i \in Used(t) : t.cells[i] = [key |-> name, data |-> HashmapGet(t, name)]
    BY <1>1, <1>2, <1>3, <1>6, GetIs
  <2>2. i \in DOMAIN t.cells
    BY <1>4, <2>1 DEF Used
  <2>3. QED
    BY <1>3, <2>1, <2>2 DEF ChildOf
<1>7. QED
  BY <1>5, <1>6

\* One component: what path2vnode() goes to is what the tree has.
LEMMA ComponentIs ==
  ASSUME TreeInv, NEW path, NEW i, path[i] \in Names, NEW x, NEW X, X = {x} \ {NoValue}
  PROVE  /\ {Component(path, i, x)} \ {NoValue} = Children(path, i, X)
         /\ Component(path, i, x) # Root
<1>1. Root \in Values /\ NoValue \notin Values /\ Root # NoValue
  BY VfsAssumption, HashmapAssumption
<1>2. PICK name \in Names : name = path[i]
  OBVIOUS
<1>3. CASE x = NoValue \/ x \notin Dirs
  <2>1. Component(path, i, x) = NoValue
    BY <1>3 DEF Component, Name2Vnode
  <2>2. X \cap Dirs = {}
    BY <1>3
  <2>3. Children(path, i, X) = {}
    BY <2>2 DEF Children
  <2>4. QED
    BY <1>1, <2>1, <2>3
<1>4. CASE NameLen[name] >= NAME_MAX
  <2>1. Component(path, i, x) = NoValue
    BY <1>2, <1>4 DEF Component
  <2>2. \A p \in Dirs, v \in made : ~ChildOf(p, name, v)
    BY <1>4, ChildIs DEF TreeInv, TooLong
  <2>3. Children(path, i, X) = {}
    BY <1>2, <2>2 DEF Children
  <2>4. QED
    BY <1>1, <2>1, <2>3
<1>5. CASE x # NoValue /\ x \in Dirs /\ ~(NameLen[name] >= NAME_MAX)
  <2>1. PICK y : y = HashmapGet(maps[x], name)
    OBVIOUS
  <2>2. Component(path, i, x) = y
    BY <1>2, <1>5, <2>1 DEF Component, Name2Vnode
  <2>3. Children(path, i, X) = {v \in made : ChildOf(x, name, v)}
    BY <1>2, <1>5 DEF Children
  <2>4. \A v : ChildOf(x, name, v) =>
          v = y /\ v # NoValue /\ v \in made \ {Root}
    BY <1>5, <2>1, ChildIs
  <2>5. y # NoValue => ChildOf(x, name, y)
    BY <1>5, <2>1, ChildIs
  <2>6. {y} \ {NoValue} = {v \in made : ChildOf(x, name, v)}
    BY <2>4, <2>5
  <2>7. y # Root
    BY <1>1, <2>4, <2>5
  <2>8. QED
    BY <2>2, <2>3, <2>6, <2>7
<1>6. QED
  BY <1>3, <1>4, <1>5

\* path2vnode() finds exactly the paths that the tree has, between puts: every
\* name that vfs_make_vnode() accepts can be looked up again.
THEOREM PathsCorrect == Spec => []PathsExact
<1>1. TreeInv => PathsExact
  <2> SUFFICES ASSUME TreeInv, NEW path \in Paths
               PROVE  {Path2Vnode(path)} \ {NoValue} = Reach(path)[Len(path)] \ {Root}
    BY DEF PathsExact
  <2>1. path \in Seq(Names) /\ path # << >>
    BY VfsAssumption
  <2>2. PICK n \in Nat : n = Len(path) /\ n > 0 /\ \A i \in 1 .. n : path[i] \in Names
    BY <2>1
  <2>3. Root # NoValue
    BY VfsAssumption, HashmapAssumption
  <2>4. PICK W : W = Walk(path)
    OBVIOUS
  <2>5. PICK R : R = Reach(path)
    OBVIOUS
  <2>6. W[0] = Root /\ \A i \in 1 .. n : W[i] = Component(path, i, W[i - 1])
    BY <2>2, <2>4, WalkIs
  <2>7. R[0] = {Root} /\ \A i \in 1 .. n : R[i] = Children(path, i, R[i - 1])
    BY <2>2, <2>5, ReachIs
  <2> DEFINE Bad == {i \in 0 .. n : R[i] # {W[i]} \ {NoValue}}
  <2>8. ASSUME Bad # {} PROVE FALSE
    <3>1. PICK i \in Bad : \A j \in Bad : i <= j
      <4>1. Bad \in SUBSET Nat
        OBVIOUS
      <4> HIDE DEF Bad
      <4>2. QED
        BY <2>8, <4>1, FirstIs
    <3>2. i \in 0 .. n /\ R[i] # {W[i]} \ {NoValue}
      BY <3>1
    <3>3. i # 0
      BY <2>3, <2>6, <2>7, <3>2
    <3>4. i \in 1 .. n /\ i - 1 \in 0 .. n /\ i - 1 \notin Bad
      BY <3>1, <3>2, <3>3
    <3>5. R[i - 1] = {W[i - 1]} \ {NoValue}
      BY <3>4
    <3>6. PICK x : x = W[i - 1]
      OBVIOUS
    <3>7. PICK X : X = R[i - 1] /\ X = {x} \ {NoValue}
      BY <3>5, <3>6
    <3>8. {Component(path, i, x)} \ {NoValue} = Children(path, i, X)
      BY <2>2, <3>4, <3>7, ComponentIs
    <3>9. QED
      BY <2>6, <2>7, <3>2, <3>4, <3>6, <3>7, <3>8
  <2>9. R[n] = {W[n]} \ {NoValue}
    BY <2>2, <2>8
  <2>10. W[n] # Root
    <3>1. n \in 1 .. n /\ n - 1 \in 0 .. n
      BY <2>2
    <3>2. R[n - 1] = {W[n - 1]} \ {NoValue}
      BY <2>8, <3>1
    <3>3. PICK x : x = W[n - 1]
      OBVIOUS
    <3>4. PICK X : X = {x} \ {NoValue}
      OBVIOUS
    <3>5. Component(path, n, x) # Root
      BY <2>2, <3>1, <3>4, ComponentIs
    <3>6. QED
      BY <2>6, <3>1, <3>3, <3>5
  <2>11. Path2Vnode(path) = W[n]
    BY <2>2, <2>4, <2>10 DEF Path2Vnode
  <2>12. QED
    BY <2>2, <2>5, <2>9, <2>10, <2>11
<1>2. QED
  BY <1>1, TreeInvariance, PTL
=============================================================================
