----------------------------- MODULE KeyLedger -----------------------------
(***************************************************************************)
(* What the service of API keys promises, without its table, its requests  *)
(* or its clock.  A key is given out once, to one tenant, and is live; a   *)
(* tenant never has more than Cap live keys; a live key is retired once    *)
(* and for all.                                                            *)
(***************************************************************************)
EXTENDS Integers, FiniteSets

CONSTANTS Key, Tenant, Cap

VARIABLES
    live,      \* per tenant: the keys that are good, or may still become so
    retired    \* the keys that never will be good again

vars == <<live, retired>>

Init ==
    /\ live = [t \in Tenant |-> {}]
    /\ retired = {}

Create(t, k) ==
    /\ k \notin retired
    /\ \A owner \in Tenant : k \notin live[owner]
    /\ Cardinality(live[t]) < Cap
    /\ live' = [live EXCEPT ![t] = @ \cup {k}]
    /\ UNCHANGED retired

\* Keys may be retired one by one or together.
Retire(keys) ==
    /\ keys \subseteq UNION {live[t] : t \in Tenant}
    /\ live' = [t \in Tenant |-> live[t] \ keys]
    /\ retired' = retired \cup keys

Next ==
    \/ \E t \in Tenant, k \in Key : Create(t, k)
    \/ \E keys \in SUBSET Key : Retire(keys)

Spec == Init /\ [][Next]_vars
=============================================================================
