------------------------------ MODULE MCSched ------------------------------
(***************************************************************************)
(* An instance of Sched for TLC.                                           *)
(***************************************************************************)
EXTENDS Sched

CONSTANTS p1, p2, p3, idle, test_func, t3, t4

MCProcesses == {p1, p2, p3}
MCThreads == {idle, test_func, t3, t4}

\* What sched_start() creates, one process "idle" with two threads, and two
\* more processes, dealt round robin to the cores.
MCScript == <<[proc |-> p1, thread |-> idle],
              [proc |-> p1, thread |-> test_func],
              [proc |-> p2, thread |-> t3],
              [proc |-> p3, thread |-> t4]>>

=============================================================================
