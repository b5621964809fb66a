----------------------------- MODULE MCAccounts -----------------------------
(***************************************************************************)
(* Instances of Accounts for TLC.                                          *)
(***************************************************************************)
EXTENDS Accounts, TLC

\* Requests, ids and addresses are interchangeable.
Symmetry == Permutations(Proc) \cup Permutations(User) \cup Permutations(Token)
                \cup Permutations(Email)
=============================================================================
