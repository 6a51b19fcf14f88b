------------------------------ MODULE MCBitmap ------------------------------
(***************************************************************************)
(* The two allocators built on the bitmap, frames and process ids.  They   *)
(* share its operations and no state, so in a behaviour one of them moves. *)
(***************************************************************************)
EXTENDS MCPmm, Pid

CONSTANTS p1, p2, p3

MCProcs == {p1, p2, p3}

MCSymmetry == Permutations(MCCallers) \cup Permutations(MCProcs)

VARIABLE moves     \* the allocator that moves

MCInit == Init /\ PidInit /\ moves \in {"pmm", "pid"}

MCNext ==
  \/ moves = "pmm" /\ Next /\ UNCHANGED <<moves, pid_vars>>
  \/ moves = "pid" /\ PidNext /\ UNCHANGED <<moves, vars>>

MCSpec == MCInit /\ [][MCNext]_<<moves, vars, pid_vars>>

=============================================================================
