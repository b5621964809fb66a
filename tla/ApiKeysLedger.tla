--------------------------- MODULE ApiKeysLedger ---------------------------
(***************************************************************************)
(* ApiKeys implements KeyLedger.  A key is in the ledger once its row has  *)
(* been inserted; it is live while the row is ACTIVE or a request in       *)
(* flight holds an entity that may make it so, and retired afterwards.     *)
(***************************************************************************)
EXTENDS ApiKeys

Known(k) == Stored(k) \/ k \in deleted

LiveKeys(t) == {k \in UsableKeys(t) : Known(k)}
RetiredKeys == {k \in Key : Retired(k)}

Ledger == INSTANCE KeyLedger WITH
            Cap <- MaxActive + Cardinality(Proc) - 1,
            live <- [t \in Tenant |-> LiveKeys(t)],
            retired <- RetiredKeys

\* Whatever the requests in flight do, a key is entered once, for one tenant
\* that has room for it, leaves for good, and is never handed to another
\* tenant (create, update, revoke, rotate, delete and validateApiKey).
KeyLedgerImplemented == Ledger!Spec
=============================================================================
