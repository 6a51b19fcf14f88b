----------------------------- MODULE PidProofs -----------------------------
(***************************************************************************)
(* Proofs about Pid for every number of processes.                         *)
(***************************************************************************)
EXTENDS Pid, WellFoundedInduction, TLAPS

\* The loop of alloc_pid() ends, at the latest at id 8, whose bit it cannot
\* see, and with an id whose bit, if it can be seen, is 0.
LEMMA FirstFreeIs ==
  ASSUME NEW bits
  PROVE  /\ FirstFree(bits) \in 1 .. 8
         /\ ~BitmapTestBit(bits, FirstFree(bits))
<1> DEFINE S == {i \in 1 .. MaxPid : ~BitmapTestBit(bits, i)}
<1>1. 8 \in S BY PidAssumption DEF BitmapTestBit, Testable
<1>2. S \subseteq Nat BY PidAssumption
<1>3. \E i \in S : \A j \in S : i <= j
  <2> HIDE DEF S
  <2>1. \E i \in S : \A j \in S : ~(<<j, i>> \in OpToRel(<, Nat))
    BY <1>1, <1>2, NatLessThanWellFounded, WFMin
  <2>2. \A i \in S, j \in S : ~(<<j, i>> \in OpToRel(<, Nat)) => i <= j
    BY <1>2 DEF OpToRel
  <2> QED BY <2>1, <2>2
<1>4. PICK i \in S : \A j \in S : i <= j BY <1>3
<1>5. \A j \in 1 .. i - 1 : BitmapTestBit(bits, j) BY <1>4, PidAssumption
<1> DEFINE n == FirstFree(bits)
<1>6. /\ n \in 1 .. MaxPid /\ ~BitmapTestBit(bits, n)
      /\ \A j \in 1 .. n - 1 : BitmapTestBit(bits, j)
  BY <1>4, <1>5 DEF FirstFree
<1> HIDE DEF n
<1>7. n <= 8 BY <1>1, <1>6, PidAssumption
<1> QED BY <1>6, <1>7, PidAssumption DEF n

\* The inductive invariant: before the first call nobody has an id.
IInv ==
  /\ pid \in [Procs -> 1 .. 8 \cup {None}]
  /\ ~ready => \A p \in Procs : pid[p] = None
  /\ NeverGrows
  /\ VisibleExact

\* A process that takes the first free id keeps the accounts exact.
LEMMA TakeStep ==
  ASSUME IInv, NEW p \in Procs, NEW bits, pid[p] = None, Take(p, bits),
         \A i \in Visible :
           i \in bits <=> i \in stale' \/ \E q \in Procs : pid[q] = i,
         \A q \in Procs : pid[q] \notin stale' \cap Visible,
         ready'
  PROVE  IInv'
<1> DEFINE n == FirstFree(bits)
<1>1. n \in 1 .. 8 /\ ~BitmapTestBit(bits, n) BY FirstFreeIs
<1>2. /\ pid' = [pid EXCEPT ![p] = n] /\ pid_bitmap' = bits \cup {n}
      /\ pid_bitmap_bytes' = Grown(pid_bitmap_bytes, n)
  BY DEF Take, SetBits
<1> HIDE DEF n
<1>3. \A q \in Procs : pid'[q] = IF q = p THEN n ELSE pid[q]
  BY <1>2 DEF IInv
<1>4. n \in Visible => n \notin stale' /\ \A q \in Procs : pid[q] # n
  BY <1>1 DEF BitmapTestBit, Visible
<1>5. None \notin Nat BY PidAssumption
<1>6. \A i \in Visible : i \in Nat BY PidAssumption DEF Visible
<1>7. pid' \in [Procs -> 1 .. 8 \cup {None}] BY <1>1, <1>2 DEF IInv
<1>8. NeverGrows'
  <2>1. pid_bitmap_bytes' = 1 BY <1>1, <1>2 DEF IInv, NeverGrows, Grown
  <2> QED BY <1>1, <1>3, <2>1 DEF IInv, NeverGrows
<1>9. VisibleExact'
  <2>1. \A i \in Visible :
          i \in pid_bitmap' <=> i \in stale' \/ \E q \in Procs : pid'[q] = i
    BY <1>2, <1>3, <1>5, <1>6
  <2>2. \A q \in Procs : pid'[q] \notin stale' \cap Visible BY <1>3, <1>4
  <2>3. \A q, r \in Procs : q # r /\ pid'[q] = pid'[r] => pid'[q] \notin Visible
    <3>1. \A q, r \in Procs : q # r /\ pid[q] = pid[r] => pid[q] \notin Visible
      BY <1>5, <1>6 DEF IInv, VisibleExact
    <3> QED BY <1>3, <1>4, <3>1
  <2> QED BY <2>1, <2>2, <2>3 DEF VisibleExact, Visible
<1> QED BY <1>7, <1>8, <1>9 DEF IInv

\* The invariant of alloc_pid() and free_pid() for every number of processes.
THEOREM Invariance == PidSpec => []IInv
<1>1. PidInit => IInv
  BY PidAssumption DEF PidInit, IInv, NeverGrows, VisibleExact
<1>2. IInv /\ [PidNext]_pid_vars => IInv'
  <2> SUFFICES ASSUME IInv, [PidNext]_pid_vars PROVE IInv' OBVIOUS
  <2>n. None \notin Nat /\ \A i \in Visible : i \in Nat BY PidAssumption DEF Visible
  <2>1. ASSUME NEW p \in Procs, NEW content \in SUBSET (0 .. 8),
               AllocPidFirst(p, content)
        PROVE  IInv'
    <3>1. /\ \A q \in Procs : pid[q] = None
          /\ pid[p] = None /\ Take(p, content) /\ stale' = content /\ ready' = TRUE
      BY <2>1 DEF AllocPidFirst, IInv
    <3>2. \A i \in Visible : i \in content <=> i \in stale' \/ \E q \in Procs : pid[q] = i
      BY <3>1, <2>n
    <3>3. \A q \in Procs : pid[q] \notin stale' \cap Visible BY <3>1, <2>n
    <3> QED BY <3>1, <3>2, <3>3, TakeStep
  <2>2. ASSUME NEW p \in Procs, AllocPid(p) PROVE IInv'
    <3>1. /\ ready /\ pid[p] = None /\ Take(p, pid_bitmap)
          /\ stale' = stale /\ ready' = ready
      BY <2>2 DEF AllocPid
    <3>2. \A i \in Visible :
            i \in pid_bitmap <=> i \in stale' \/ \E q \in Procs : pid[q] = i
      BY <3>1 DEF IInv, VisibleExact
    <3>3. \A q \in Procs : pid[q] \notin stale' \cap Visible
      BY <3>1 DEF IInv, VisibleExact
    <3> QED BY <3>1, <3>2, <3>3, TakeStep
  <2>3. ASSUME NEW p \in Procs, FreePid(p) PROVE IInv'
    <3>1. /\ pid[p] # None /\ pid_bitmap' = pid_bitmap \ {pid[p]}
          /\ pid' = [pid EXCEPT ![p] = None]
          /\ UNCHANGED <<ready, pid_bitmap_bytes, stale>>
      BY <2>3 DEF FreePid, UnsetBits
    <3>2. \A q \in Procs : pid'[q] = IF q = p THEN None ELSE pid[q]
      BY <3>1 DEF IInv
    <3>3. ready BY <3>1 DEF IInv
    <3>4. \A i \in Visible :
            i \in pid_bitmap' <=> i \in stale \/ \E q \in Procs : pid'[q] = i
      <4>1. \A i \in Visible : i = pid[p] =>
              i \notin stale /\ \A q \in Procs : q # p => pid[q] # i
        BY <3>3 DEF IInv, VisibleExact
      <4> QED BY <2>n, <3>1, <3>2, <3>3, <4>1 DEF IInv, VisibleExact
    <3>5. \A q \in Procs : pid'[q] \notin stale \cap Visible
      BY <2>n, <3>2, <3>3 DEF IInv, VisibleExact
    <3>6. \A q, r \in Procs : q # r /\ pid'[q] = pid'[r] => pid'[q] \notin Visible
      BY <2>n, <3>2, <3>3 DEF IInv, VisibleExact
    <3>7. VisibleExact' BY <3>1, <3>4, <3>5, <3>6 DEF VisibleExact, Visible
    <3>8. NeverGrows' BY <3>1, <3>2 DEF IInv, NeverGrows
    <3> QED BY <3>1, <3>3, <3>7, <3>8 DEF IInv
  <2>4. CASE UNCHANGED pid_vars
    BY <2>4 DEF pid_vars, IInv, NeverGrows, VisibleExact, Visible
  <2> QED BY <2>1, <2>2, <2>3, <2>4 DEF PidNext
<1> QED BY <1>1, <1>2, PTL DEF PidSpec

\* Ids whose bit can be seen name one process each.
THEOREM VisibleCorrect == PidSpec => []VisibleExact
<1>1. IInv => VisibleExact BY DEF IInv
<1> QED BY Invariance, <1>1, PTL

\* No id above 8 is ever handed out, however many processes there are.
THEOREM BoundCorrect == PidSpec => []NeverGrows
<1>1. IInv => NeverGrows BY DEF IInv
<1> QED BY Invariance, <1>1, PTL

=============================================================================
