-------------------------- MODULE KeyLedgerProofs --------------------------
(***************************************************************************)
(* ApiKeys implements KeyLedger, for every number of requests, keys and    *)
(* tenants and every limit.  The insert of a new key is a Create of the    *)
(* ledger, and its room there is the room that the budget of               *)
(* ApiKeysLimitProofs has kept for it.  Every other step leaves the known  *)
(* keys as they are and adds no live one: it is a Retire, perhaps of no    *)
(* key at all, which is a stutter.                                         *)
(***************************************************************************)
EXTENDS ApiKeysLedger, ApiKeysLimitProofs

Live == [t \in Tenant |-> LiveKeys(t)]

\* create makes its keys ACTIVE.
NewAreActive ==
    \A p \in Proc : req[p].pc \in {"generate", "insert"} =>
                        req[p].ent.status = "ACTIVE"

LedgerInv == BudgetInv /\ NewAreActive

-----------------------------------------------------------------------------
\* The invariant

LEMMA NewStep == TypeOK /\ NewAreActive /\ [Next]_vars => NewAreActive'
<1> SUFFICES ASSUME TypeOK, NewAreActive, [Next]_vars PROVE NewAreActive'
  OBVIOUS
<1>1. CASE UNCHANGED vars
  BY <1>1 DEF vars, NewAreActive
<1>2. CASE Tick
  BY <1>2 DEF Tick, NewAreActive
<1>3. ASSUME NEW p \in Proc, Handler(p) PROVE NewAreActive'
  <2>1. ASSUME NEW r, Become(p, r),
               r.pc \in {"generate", "insert"} => r.ent.status = "ACTIVE"
        PROVE  NewAreActive'
    BY <2>1 DEF Become, TypeOK, NewAreActive
  <2>2. ASSUME Finish(p) PROVE NewAreActive'
    BY <2>1, <2>2 DEF Finish, Idle
  <2>3. ASSUME NEW k, NEW ent, StartSave(p, k, ent) PROVE NewAreActive'
    BY <2>1, <2>3 DEF StartSave
  <2>4. CASE \E t \in Tenant, n \in Name, e \in MaybeTime : CountActive(p, t, n, e)
    BY <2>1, <2>4 DEF CountActive
  <2>5. CASE Generate(p)
    <3>1. PICK k \in Key : IF Stored(k) THEN Finish(p)
             ELSE Become(p, [pc |-> "insert", key |-> k, loaded |-> NoRow,
                             ent |-> [req[p].ent EXCEPT !.secret = FreshSecret]])
      BY <2>5 DEF Generate
    <3>2. req[p].ent \in Row /\ req[p].ent.status = "ACTIVE"
      BY <2>5 DEF Generate, TypeOK, RequestOK, NewAreActive
    <3>3. [req[p].ent EXCEPT !.secret = FreshSecret].status = "ACTIVE"
      BY <3>2 DEF Row
    <3> QED BY <2>1, <2>2, <3>1, <3>3
  <2>6. CASE \/ \E t \in Tenant, k \in Key : \/ ReadForUpdate(p, t, k)
                                            \/ ReadForRevoke(p, t, k)
                                            \/ ReadForRotate(p, t, k)
             \/ \E k \in Key, s \in Secret : Validate(p, k, s)
    BY <2>3, <2>6 DEF ReadForUpdate, ReadForRevoke, ReadForRotate, Validate
  <2>7. CASE SaveLoad(p) \/ \E t \in Tenant, k \in Key : ReadForDelete(p, t, k)
    BY <2>1, <2>7 DEF SaveLoad, ReadForDelete
  <2>8. CASE Insert(p) \/ SaveWrite(p) \/ Remove(p) \/ Abort(p)
    BY <2>2, <2>8 DEF Insert, SaveWrite, Remove, Abort
  <2> QED BY <1>3, <2>4, <2>5, <2>6, <2>7, <2>8 DEF Handler
<1> QED BY <1>1, <1>2, <1>3 DEF Next

LEMMA LedgerInit == Init => LedgerInv
<1>1. Init => BudgetInv
  BY KeyInit, BudgetInit DEF BudgetInv
<1>2. Init => NewAreActive
  BY DEF Init, Idle, NewAreActive
<1> QED BY <1>1, <1>2 DEF LedgerInv

LEMMA LedgerStep == LedgerInv /\ [Next]_vars => LedgerInv'
<1>1. BudgetInv /\ [Next]_vars => BudgetInv'
  BY KeyStep, BudgetStep DEF BudgetInv
<1>2. BudgetInv => TypeOK
  BY DEF BudgetInv, KeyInv
<1> QED BY <1>1, <1>2, NewStep DEF LedgerInv

-----------------------------------------------------------------------------
\* What the mapping makes of a state

\* A live key is live for one tenant alone.
LEMMA OneOwner ==
    ASSUME KeyInv, NEW t \in Tenant, NEW u \in Tenant, NEW k,
           k \in LiveKeys(t), k \in LiveKeys(u)
    PROVE  t = u
<1>1. k \in Key
  BY FiniteParts DEF KeyInv, LiveKeys, UsableKeys, ActiveKeys
<1>2. ASSUME NEW o \in Tenant, k \in LiveKeys(o)
      PROVE  \/ Stored(k) /\ rows[k].tenant = o
             \/ \E p \in Proc : /\ req[p].pc \in {"save", "write"}
                                /\ req[p].key = k /\ req[p].ent.tenant = o
  BY <1>1, <1>2
     DEF KeyInv, KeysKnown, LiveKeys, Known, UsableKeys, ActiveKeys, HeldKeys, Holders
<1> QED BY <1>2 DEF KeyInv, OneTenant

\* The known keys are the live and the retired ones.
Partition ==
    \A k \in Key :
        /\ k \in RetiredKeys
              <=> Known(k) /\ \A t \in Tenant : k \notin LiveKeys(t)
        /\ \A t \in Tenant : k \in LiveKeys(t) => Known(k)

LEMMA KnownParts == TypeOK => Partition
<1> SUFFICES ASSUME TypeOK, NEW k \in Key
             PROVE  /\ k \in RetiredKeys
                         <=> Known(k) /\ \A t \in Tenant : k \notin LiveKeys(t)
                    /\ \A t \in Tenant : k \in LiveKeys(t) => Known(k)
  BY DEF Partition
<1>1. Usable(k) <=> \E t \in Tenant : k \in UsableKeys(t)
  <2>1. Stored(k) => rows[k].tenant \in Tenant
    BY DEF TypeOK, Stored, Row
  <2>2. \A p \in Proc : Holds(p, k) => req[p].ent.tenant \in Tenant
    BY DEF TypeOK, RequestOK, Holds, Row
  <2> QED
    BY <2>1, <2>2
       DEF Usable, UsableKeys, ActiveKeys, HeldKeys, Holders, Holds
<1> QED BY <1>1 DEF RetiredKeys, Retired, Known, LiveKeys

LEMMA KnownPartsNext == TypeOK' => Partition'
BY KnownParts, PTL

LEMMA LiveAreKeys ==
    ASSUME TypeOK, NEW t \in Tenant
    PROVE  LiveKeys(t) \subseteq Key
BY FiniteParts DEF LiveKeys, UsableKeys, ActiveKeys

-----------------------------------------------------------------------------
\* The steps

\* A step that makes no key known and no known key live retires what it
\* takes from the live ones.
LEMMA RetireStep ==
    ASSUME KeyInv, TypeOK',
           \A k \in Key : Known(k)' <=> Known(k),
           \A t \in Tenant : LiveKeys(t)' \subseteq LiveKeys(t)
    PROVE  Ledger!Next
<1> DEFINE keys == (UNION {LiveKeys(t) : t \in Tenant})
                      \ UNION {LiveKeys(t)' : t \in Tenant}
<1>t. TypeOK
  BY DEF KeyInv
<1>1. /\ \A t \in Tenant : LiveKeys(t) \subseteq Key
      /\ \A t \in Tenant : LiveKeys(t)' \subseteq Key
      /\ keys \in SUBSET Key
  BY <1>t, LiveAreKeys
<1>2. ASSUME NEW t \in Tenant PROVE LiveKeys(t)' = LiveKeys(t) \ keys
  <2>1. LiveKeys(t)' \subseteq LiveKeys(t) \ keys
    OBVIOUS
  <2>2. ASSUME NEW k \in LiveKeys(t), k \notin keys PROVE k \in LiveKeys(t)'
    <3>1. PICK u \in Tenant : k \in LiveKeys(u)'
      BY <2>2
    <3>2. u = t
      BY <3>1, OneOwner
    <3> QED BY <3>1, <3>2
  <2> QED BY <2>1, <2>2
<1>3. RetiredKeys' = RetiredKeys \cup keys
  <2>1. Partition /\ Partition'
    BY <1>t, KnownParts, KnownPartsNext
  <2>3. RetiredKeys \subseteq Key /\ RetiredKeys' \subseteq Key
    BY DEF RetiredKeys
  <2>4. ASSUME NEW k \in Key PROVE k \in RetiredKeys' <=> k \in RetiredKeys \cup keys
    BY <2>1 DEF Partition
  <2> QED BY <1>1, <2>3, <2>4
<1>4. keys \subseteq UNION {Live[t] : t \in Tenant}
  BY DEF Live
<1>5. Live' = [t \in Tenant |-> Live[t] \ keys]
  BY <1>2 DEF Live
<1> HIDE DEF keys
<1>6. Ledger!Retire(keys)
  BY <1>3, <1>4, <1>5 DEF Ledger!Retire, Live
<1> QED BY <1>1, <1>6 DEF Ledger!Next

\* The insert of a new key is a Create: the budget of its tenant has room for
\* the key, which counts there already, and hence for one live key more.
LEMMA InsertStep ==
    ASSUME LedgerInv, NEW p \in Proc, Insert(p),
           NEW k, k = req[p].key, NEW row, row = req[p].ent, NEW t, t = row.tenant,
           rows' = [rows EXCEPT ![k] = row],
           \A u \in Tenant : UsableKeys(u)' \subseteq UsableKeys(u), TypeOK'
    PROVE  Ledger!Next
<1> DEFINE Cap == MaxActive + Cardinality(Proc) - 1
<1>i. TypeOK /\ KeysKnown /\ OneTenant /\ Budget /\ NewAreActive
  BY DEF LedgerInv, BudgetInv, KeyInv
<1>1. /\ k \in Key /\ row \in Row /\ req[p].pc = "insert"
      /\ row.status = "ACTIVE" /\ t \in Tenant
  BY <1>i DEF Insert, TypeOK, RequestOK, NewAreActive, Row
<1>2. ~Known(k) /\ \A u \in Tenant : k \notin LiveKeys(u)
  BY <1>i, <1>1 DEF KeysKnown, Known, LiveKeys
<1>3. /\ deleted' = deleted /\ req'[p] = Idle
      /\ \A q \in Proc \ {p} : req'[q] = req[q]
  BY <1>i DEF Insert, Finish, Become, TypeOK
<1>4. rows'[k] = row /\ \A j \in Key \ {k} : rows'[j] = rows[j]
  BY <1>i, <1>1 DEF TypeOK
<1>5. Known(k)' /\ \A j \in Key \ {k} : Known(j)' <=> Known(j)
  BY <1>1, <1>3, <1>4, NoValueAssumption DEF Known, Stored
<1>6. ASSUME NEW u \in Tenant
      PROVE  LiveKeys(u)' = IF u = t THEN LiveKeys(u) \cup {k} ELSE LiveKeys(u)
  <2>1. ASSUME NEW j \in Key \ {k}
        PROVE  j \in UsableKeys(u)' <=> j \in UsableKeys(u)
    <3>1. j \in ActiveKeys(u)' <=> j \in ActiveKeys(u)
      BY <1>4 DEF ActiveKeys, Stored
    <3>2. j \in HeldKeys(u)' <=> j \in HeldKeys(u)
      BY <1>3 DEF HeldKeys, Holders, Idle
    <3> QED BY <3>1, <3>2 DEF UsableKeys
  <2>2. k \in UsableKeys(u)' <=> u = t
    <3>1. k \in ActiveKeys(u)' <=> u = t
      BY <1>1, <1>4, NoValueAssumption DEF ActiveKeys, Stored
    <3>2. k \notin HeldKeys(u)'
      <4>1. ASSUME NEW q \in Proc \ {p} PROVE ~(q \in Holders(u) /\ req[q].key = k)
        BY <1>i, <1>1 DEF KeysKnown, Holders, Stored
      <4> QED BY <1>3, <4>1 DEF HeldKeys, Holders, Idle
    <3> QED BY <3>1, <3>2 DEF UsableKeys
  <2>3. UsableKeys(u) \subseteq Key /\ UsableKeys(u)' \subseteq Key
    BY <1>i, FiniteParts DEF UsableKeys, ActiveKeys
  <2> QED BY <1>1, <1>2, <1>5, <2>1, <2>2, <2>3 DEF LiveKeys
<1>7. RetiredKeys' = RetiredKeys
  <2>1. Partition /\ Partition'
    BY <1>i, KnownParts, KnownPartsNext
  <2>2. ASSUME NEW j \in Key PROVE j \in RetiredKeys' <=> j \in RetiredKeys
    <3>1. CASE j = k
      BY <1>1, <1>2, <1>6, <2>1, <3>1 DEF Partition
    <3>2. CASE j # k
      <4>1. \A u \in Tenant : j \in LiveKeys(u)' <=> j \in LiveKeys(u)
        BY <1>6, <3>2
      <4> QED BY <1>5, <2>1, <3>2, <4>1 DEF Partition
    <3> QED BY <3>1, <3>2
  <2>3. RetiredKeys \subseteq Key /\ RetiredKeys' \subseteq Key
    BY DEF RetiredKeys
  <2> QED BY <2>2, <2>3
<1>8. Cardinality(LiveKeys(t)) < Cap
  <2>1. k \in UsableKeys(t) /\ LiveKeys(t) \subseteq UsableKeys(t)
    BY <1>1 DEF UsableKeys, HeldKeys, Holders, LiveKeys
  <2>2. IsFiniteSet(UsableKeys(t)) /\ IsFiniteSet(Creating(t))
    BY <1>i, <1>1, FiniteParts
  <2>3. IsFiniteSet(LiveKeys(t)) /\ LiveKeys(t) \cup {k} \subseteq UsableKeys(t)
    BY <2>1, <2>2, FS_Subset
  <2>4. /\ IsFiniteSet(LiveKeys(t) \cup {k})
        /\ Cardinality(LiveKeys(t) \cup {k}) = Cardinality(LiveKeys(t)) + 1
    BY <1>1, <1>2, <2>3, FS_AddElement
  <2>5. Cardinality(LiveKeys(t) \cup {k}) <= Cardinality(UsableKeys(t))
    BY <2>2, <2>3, FS_Subset
  <2>6. Cardinality(UsableKeys(t)) + Cardinality(Creating(t)) <= Cap
    BY <1>i, <1>1 DEF Budget
  <2>7. /\ Cardinality(UsableKeys(t)) \in Nat /\ Cardinality(Creating(t)) \in Nat
        /\ Cardinality(LiveKeys(t)) \in Nat /\ Cardinality(Proc) \in Nat
    BY <2>2, <2>3, FS_CardinalityType, ProcAssumption
  <2> QED BY <2>4, <2>5, <2>6, <2>7, NumberAssumption
<1>9. Live' = [Live EXCEPT ![t] = @ \cup {k}]
  BY <1>1, <1>6 DEF Live
<1>10. k \notin RetiredKeys
  BY <1>1, <1>2, <1>i, KnownParts DEF Partition
<1>11. /\ \A owner \in Tenant : k \notin Live[owner]
       /\ Cardinality(Live[t]) < MaxActive + Cardinality(Proc) - 1
  BY <1>1, <1>2, <1>8 DEF Live
<1> HIDE DEF Cap
<1>12. Ledger!Cardinality(LiveKeys(t)) = Cardinality(LiveKeys(t))
  BY DEF Ledger!Cardinality, Cardinality
<1>13. Ledger!Create(t, k)
  BY <1>1, <1>7, <1>9, <1>10, <1>11, <1>12 DEF Ledger!Create, Live
<1> QED BY <1>1, <1>13 DEF Ledger!Next

-----------------------------------------------------------------------------
\* The refinement

\* What a handler does to the known keys: an insert that succeeds adds its key,
\* a deletion and the save of a deleted key move one, the others none.
LEMMA KnownStep ==
    ASSUME KeyInv, NEW p \in Proc, Handler(p)
    PROVE  \/ \A k \in Key : Known(k)' <=> Known(k)
           \/ Insert(p) /\ rows' = [rows EXCEPT ![req[p].key] = req[p].ent]
<1>i. TypeOK /\ KeysKnown
  BY DEF KeyInv
<1>1. ASSUME rows' = rows, deleted' = deleted
      PROVE  \A k \in Key : Known(k)' <=> Known(k)
  BY <1>1 DEF Known, Stored
<1>2. CASE Insert(p)
  BY <1>1, <1>2 DEF Insert
<1>3. CASE SaveWrite(p)
  <2>1. /\ req[p].key \in Key /\ Known(req[p].key) /\ deleted' = deleted
        /\ req[p].ent \in Row /\ req[p].loaded \in Row \cup {NoRow}
    BY <1>i, <1>3 DEF SaveWrite, KeysKnown, Known, TypeOK, RequestOK, Request
  <2>2. Stored(req[p].key) /\ req[p].loaded # NoRow =>
           Merged(req[p].ent, req[p].loaded, rows[req[p].key]) \in Row
    BY <1>i, <2>1, MergedType DEF TypeOK, Stored
  <2>3. \/ rows' = rows
        \/ \E row \in Row : rows' = [rows EXCEPT ![req[p].key] = row]
    BY <1>3, <2>1, <2>2 DEF SaveWrite
  <2> QED BY <1>1, <1>i, <2>1, <2>3, NoValueAssumption DEF Known, Stored, TypeOK
<1>4. CASE Remove(p)
  <2>1. req[p].key \in Key /\ Known(req[p].key)
    BY <1>i, <1>4 DEF Remove, KeysKnown, Known, TypeOK, RequestOK
  <2> QED BY <1>i, <1>4, <2>1 DEF Remove, Known, Stored, TypeOK
<1>5. CASE ~(Insert(p) \/ SaveWrite(p) \/ Remove(p))
  <2>1. rows' = rows /\ deleted' = deleted
    BY <1>5
       DEF Handler, CountActive, Generate, ReadForUpdate, ReadForRevoke,
           ReadForRotate, ReadForDelete, Validate, SaveLoad, Abort
  <2> QED BY <1>1, <2>1
<1> QED BY <1>2, <1>3, <1>4, <1>5

\* A draw makes only an unknown key usable, and a count none.
LEMMA DrawLeavesLive ==
    ASSUME KeyInv, NEW p \in Proc, NEW t \in Tenant,
           \/ Generate(p)
           \/ \E u \in Tenant, n \in Name, e \in MaybeTime : CountActive(p, u, n, e)
    PROVE  LiveKeys(t)' \subseteq LiveKeys(t)
<1>i. TypeOK
  BY DEF KeyInv
<1>1. rows' = rows /\ deleted' = deleted
  BY DEF Generate, CountActive
<1>2. \E r : Become(p, r) /\ (r.pc \in {"insert", "save", "write"} => ~Known(r.key))
  <2>1. CASE Generate(p)
    <3>1. PICK k \in Key :
             /\ k \notin deleted
             /\ IF Stored(k) THEN Finish(p)
                ELSE Become(p, [pc |-> "insert", key |-> k, loaded |-> NoRow,
                                ent |-> [req[p].ent EXCEPT !.secret = FreshSecret]])
      BY <2>1 DEF Generate, Drawn
    <3>2. ~Stored(k) => ~Known(k)
      BY <3>1 DEF Known
    <3> DEFINE ent == [req[p].ent EXCEPT !.secret = FreshSecret]
    <3> HIDE DEF ent
    <3> QED BY <3>1, <3>2 DEF Finish, Idle, ent
  <2>2. CASE \E u \in Tenant, n \in Name, e \in MaybeTime : CountActive(p, u, n, e)
    BY <2>2 DEF CountActive
  <2> QED BY <2>1, <2>2
<1>3. PICK r : Become(p, r) /\ (r.pc \in {"insert", "save", "write"} => ~Known(r.key))
  BY <1>2
<1>4. req'[p] = r /\ \A q \in Proc \ {p} : req'[q] = req[q]
  BY <1>i, <1>3 DEF Become, TypeOK
<1>5. ActiveKeys(t)' = ActiveKeys(t)
  BY <1>1 DEF ActiveKeys, Stored
<1>6. \A k : Known(k)' <=> Known(k)
  BY <1>1 DEF Known, Stored
<1>7. \A k : k \in HeldKeys(t)' /\ Known(k) => k \in HeldKeys(t)
  BY <1>3, <1>4 DEF HeldKeys, Holders
<1> QED BY <1>5, <1>6, <1>7 DEF LiveKeys, UsableKeys

LEMMA RefinementInit == Init => Ledger!Init
<1> SUFFICES ASSUME Init PROVE Ledger!Init
  OBVIOUS
<1>1. \A k \in Key : ~Known(k)
  BY DEF Init, Known, Stored
<1>2. TypeOK
  BY TypeInit
<1>3. \A t \in Tenant : LiveKeys(t) = {}
  BY <1>1, <1>2, LiveAreKeys DEF LiveKeys
<1>4. RetiredKeys = {}
  BY <1>1 DEF RetiredKeys, Retired, Known
<1> QED BY <1>3, <1>4 DEF Ledger!Init

LEMMA RefinementStep == LedgerInv /\ [Next]_vars => [Ledger!Next]_(Ledger!vars)
<1> SUFFICES ASSUME LedgerInv, [Next]_vars PROVE [Ledger!Next]_(Ledger!vars)
  OBVIOUS
<1>i. KeyInv /\ TypeOK
  BY DEF LedgerInv, BudgetInv, KeyInv
<1>t. TypeOK'
  BY <1>i, TypeStep
<1>1. CASE UNCHANGED <<rows, deleted, req>>
  <2>1. UNCHANGED <<Live, RetiredKeys>>
    BY <1>1
       DEF Live, LiveKeys, Known, UsableKeys, ActiveKeys, HeldKeys, Holders,
           RetiredKeys, Retired, Usable, Holds, Stored
  <2> QED BY <2>1 DEF Ledger!vars, Live
<1>2. ASSUME NEW p \in Proc, Handler(p) PROVE Ledger!Next
  <2>1. ASSUME \A k \in Key : Known(k)' <=> Known(k) PROVE Ledger!Next
    <3>1. ASSUME NEW t \in Tenant PROVE LiveKeys(t)' \subseteq LiveKeys(t)
      <4>1. CASE Shrinks
        <5>1. LiveKeys(t) \subseteq Key /\ UsableKeys(t)' \subseteq UsableKeys(t)
          BY <1>i, <4>1, LiveAreKeys DEF Shrinks
        <5>2. UsableKeys(t) \subseteq Key
          BY <1>i, FiniteParts DEF UsableKeys, ActiveKeys
        <5> QED BY <2>1, <5>1, <5>2 DEF LiveKeys
      <4>2. CASE ~Shrinks
        BY <1>i, <1>2, <4>2, HandlerShrinks, DrawLeavesLive
      <4> QED BY <4>1, <4>2
    <3> QED BY <1>i, <1>t, <2>1, <3>1, RetireStep
  <2>2. CASE Insert(p) /\ rows' = [rows EXCEPT ![req[p].key] = req[p].ent]
    <3>1. req[p].pc = "insert" /\ req[p].pc # "generate"
      BY <2>2 DEF Insert
    <3>2. Shrinks
      BY <1>i, <1>2, <2>2, <3>1, HandlerShrinks DEF CountActive, Generate
    <3> QED BY <1>t, <2>2, <3>2, InsertStep DEF Shrinks
  <2> QED BY <1>i, <1>2, <2>1, <2>2, KnownStep
<1>3. CASE UNCHANGED vars
  BY <1>1, <1>3 DEF vars
<1>4. CASE Tick
  BY <1>1, <1>4 DEF Tick
<1> QED BY <1>2, <1>3, <1>4 DEF Next

\* The service of API keys implements the ledger of keys.
THEOREM LedgerIsImplemented == Spec => KeyLedgerImplemented
<1>1. Spec => []LedgerInv
  BY LedgerInit, LedgerStep, PTL DEF Spec
<1> QED
  BY <1>1, RefinementInit, RefinementStep, PTL
     DEF Spec, KeyLedgerImplemented, Ledger!Spec
=============================================================================
