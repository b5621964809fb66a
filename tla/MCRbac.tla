------------------------------- MODULE MCRbac -------------------------------
(***************************************************************************)
(* Instances of Rbac for TLC.                                              *)
(***************************************************************************)
EXTENDS Rbac, TLC

\* Requests and replicas are interchangeable; used for safety alone.
Symmetry == Permutations(Proc) \cup Permutations(Replica)
=============================================================================
