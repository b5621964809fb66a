------------------------------ MODULE MCUsers -------------------------------
(***************************************************************************)
(* The instance of Users for TLC.  The run checks liveness, so there is no *)
(* symmetry.                                                               *)
(***************************************************************************)
EXTENDS Users, TLC
=============================================================================
