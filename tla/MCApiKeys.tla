----------------------------- MODULE MCApiKeys ------------------------------
(***************************************************************************)
(* Instances of ApiKeys for TLC.                                           *)
(***************************************************************************)
EXTENDS ApiKeysLedger, TLC

\* Requests, keys, tenants and names are interchangeable.
Symmetry == Permutations(Proc) \cup Permutations(Key)
                \cup Permutations(Tenant) \cup Permutations(Name)

\* The requests that change how many keys are ACTIVE, and validateApiKey,
\* whose save of a stale entity might; without update, rotate and the clock
\* the table can hold one key more.
CountingHandler(p) ==
    \/ \E t \in Tenant, n \in Name : CountActive(p, t, n, Never)
    \/ Generate(p)
    \/ Insert(p)
    \/ \E t \in Tenant, k \in Key : \/ ReadForRevoke(p, t, k)
                                    \/ ReadForDelete(p, t, k)
    \/ \E k \in Key : Validate(p, k, rows[k].secret)
    \/ SaveLoad(p)
    \/ SaveWrite(p)
    \/ Remove(p)
    \/ Abort(p)

CountingSpec == Init /\ [][\E p \in Proc : CountingHandler(p)]_vars
=============================================================================
