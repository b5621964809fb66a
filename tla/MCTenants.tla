----------------------------- MODULE MCTenants -----------------------------
(***************************************************************************)
(* The instance of Tenants for TLC.                                        *)
(***************************************************************************)
EXTENDS Tenants, TLC

\* All of these are interchangeable; the run checks safety alone.
Symmetry == Permutations(Proc) \cup Permutations(Tenant) \cup Permutations(Slug)

\* Bound: one tenant is cached, onboarded or deleted; another is created and
\* updated meanwhile.  All that tenants share is the column of their slugs.
InFocus(t) ==
    \/ \E at \in Replica : cache[at][t] # NoEntry
    \/ stage[t] # "none"
    \/ t \in deleted

OneInFocus == \A t, other \in Tenant : InFocus(t) /\ InFocus(other) => t = other
=============================================================================
