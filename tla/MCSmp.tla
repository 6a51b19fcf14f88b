------------------------------- MODULE MCSmp -------------------------------
(***************************************************************************)
(* Instances of Smp for TLC.                                               *)
(***************************************************************************)
EXTENDS Smp

=============================================================================
