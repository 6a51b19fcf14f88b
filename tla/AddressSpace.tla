---------------------------- MODULE AddressSpace ----------------------------
(***************************************************************************)
(* What the virtual memory manager promises: address spaces with a user    *)
(* half of their own, empty in those it makes, and the pages of the kernel *)
(* half that they all share.  Vmm implements it with page tables, given    *)
(* frames that hold zeros.                                                 *)
(***************************************************************************)
CONSTANTS UserPages, KernelPages, Data, NoData, Boot

VARIABLES
  spaces,     \* the address spaces there are
  user,       \* user[s][p]: what page p is mapped to in space s
  kernel      \* kernel[p]: what page p is mapped to in all of them

avars == <<spaces, user, kernel>>

Nothing == [p \in UserPages |-> NoData]

Init ==
  /\ spaces = {Boot} /\ user \in [spaces -> [UserPages -> Data \cup {NoData}]]
  /\ kernel \in [KernelPages -> Data \cup {NoData}]

\* vmm_map_page() and vmm_unmap_page(): one page of one space changes.
MapUser ==
  LET old == user
      new == user'
  IN  /\ \E s \in spaces, p \in UserPages :
           /\ new[s][p] \in Data \cup {NoData}
           /\ new = [old EXCEPT ![s][p] = new[s][p]]
      /\ UNCHANGED <<spaces, kernel>>

\* The same for a page that all the spaces share.
MapKernel ==
  LET old == kernel
      new == kernel'
  IN  /\ \E p \in KernelPages :
           /\ new[p] \in Data \cup {NoData}
           /\ new = [old EXCEPT ![p] = new[p]]
      /\ UNCHANGED <<spaces, user>>

\* vmm_make_pml4().
New ==
  /\ \E s \in spaces' \ spaces :
       /\ spaces' = spaces \cup {s}
       /\ user' = [t \in spaces' |-> IF t = s THEN Nothing ELSE user[t]]
  /\ UNCHANGED kernel

Next == MapUser \/ MapKernel \/ New

Spec == Init /\ [][Next]_avars
=============================================================================
