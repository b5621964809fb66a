------------------------- MODULE ApiKeysLimitProofs -------------------------
(***************************************************************************)
(* The number of ACTIVE keys of a tenant, for every number of requests and *)
(* every limit.  A create counts and inserts in different steps, so the    *)
(* invariant counts ahead: the keys that are ACTIVE or may still be        *)
(* written as ACTIVE by a request in flight, and the creates that are past *)
(* the check.  That sum only grows at the check itself, where at most one  *)
(* unit per other request is added to fewer than MaxActive keys.           *)
(***************************************************************************)
EXTENDS ApiKeysProofs, FiniteSetTheorems

\* In a well-typed state the sets the budget counts are finite.
LEMMA FiniteParts ==
    ASSUME TypeOK, NEW t \in Tenant
    PROVE  /\ IsFiniteSet(ActiveKeys(t)) /\ IsFiniteSet(HeldKeys(t))
           /\ IsFiniteSet(UsableKeys(t)) /\ IsFiniteSet(Creating(t))
           /\ HeldKeys(t) \subseteq Key
<1>1. HeldKeys(t) \subseteq Key
  BY DEF TypeOK, RequestOK, HeldKeys, Holders
<1>2. UsableKeys(t) \subseteq Key /\ ActiveKeys(t) \subseteq Key
  BY <1>1 DEF UsableKeys, ActiveKeys
<1>3. Creating(t) \subseteq Proc
  BY DEF Creating
<1> QED BY <1>1, <1>2, <1>3, FS_Subset, KeyAssumption, ProcAssumption

\* The keys in the hands of requests are at most as many as the requests that
\* are not among those of C.
LEMMA HeldByDistinct ==
    ASSUME TypeOK, NEW t \in Tenant, NEW C \in SUBSET Proc, C \cap Holders(t) = {}
    PROVE  Cardinality(HeldKeys(t)) + Cardinality(C) <= Cardinality(Proc)
<1> DEFINE f == [p \in Holders(t) |-> req[p].key]
<1>1. Holders(t) \subseteq Proc
  BY DEF Holders
<1>2. IsFiniteSet(Holders(t)) /\ IsFiniteSet(C) /\ IsFiniteSet(Proc)
  BY <1>1, FS_Subset, ProcAssumption
<1>3. f \in Surjection(Holders(t), HeldKeys(t))
  BY DEF Surjection, HeldKeys
<1>4. Cardinality(HeldKeys(t)) <= Cardinality(Holders(t))
  BY <1>2, <1>3, FS_Surjection
<1>5. Cardinality(Holders(t) \cap C) = 0
  BY FS_EmptySet
<1>6. Cardinality(Holders(t) \cup C) =
        Cardinality(Holders(t)) + Cardinality(C) - Cardinality(Holders(t) \cap C)
  BY <1>2, FS_Union
<1>7. Cardinality(Holders(t) \cup C) <= Cardinality(Proc)
  <2>1. Holders(t) \cup C \in SUBSET Proc
    BY <1>1
  <2> QED BY <2>1, ProcAssumption, FS_Subset
<1>8. /\ Cardinality(HeldKeys(t)) \in Nat /\ Cardinality(Holders(t)) \in Nat
      /\ Cardinality(C) \in Nat /\ Cardinality(Proc) \in Nat
  BY <1>2, FiniteParts, FS_CardinalityType
<1> QED BY <1>4, <1>5, <1>6, <1>7, <1>8

\* The check of create: with fewer than MaxActive keys ACTIVE, the keys in the
\* hands of other requests cannot make the sum larger than the budget.
LEMMA CountKeepsBudget ==
    ASSUME TypeOK, NEW t \in Tenant, Cardinality(ActiveKeys(t)) < MaxActive,
           NEW C \in SUBSET Proc, C \cap Holders(t) = {}
    PROVE  Cardinality(UsableKeys(t)) + Cardinality(C)
             <= MaxActive + Cardinality(Proc) - 1
<1>1. IsFiniteSet(ActiveKeys(t)) /\ IsFiniteSet(HeldKeys(t))
  BY FiniteParts
<1>2. Cardinality(UsableKeys(t)) <= Cardinality(ActiveKeys(t)) + Cardinality(HeldKeys(t))
  <2> DEFINE both == ActiveKeys(t) \cap HeldKeys(t)
  <2>1. IsFiniteSet(both)
    BY <1>1, FS_Intersection
  <2>2. /\ Cardinality(both) \in Nat /\ Cardinality(ActiveKeys(t)) \in Nat
        /\ Cardinality(HeldKeys(t)) \in Nat
    BY <1>1, <2>1, FS_CardinalityType
  <2>3. Cardinality(UsableKeys(t)) = Cardinality(ActiveKeys(t))
          + Cardinality(HeldKeys(t)) - Cardinality(both)
    BY <1>1, FS_Union DEF UsableKeys
  <2> QED BY <2>2, <2>3
<1>3. /\ Cardinality(UsableKeys(t)) \in Nat /\ Cardinality(ActiveKeys(t)) \in Nat
      /\ Cardinality(HeldKeys(t)) \in Nat /\ Cardinality(C) \in Nat
      /\ Cardinality(Proc) \in Nat
  BY FiniteParts, FS_CardinalityType, FS_Subset, ProcAssumption
<1>4. Cardinality(HeldKeys(t)) + Cardinality(C) <= Cardinality(Proc)
  BY HeldByDistinct
<1> QED BY <1>2, <1>3, <1>4, NumberAssumption

\* A step that adds nothing to either set keeps the budget.
LEMMA ShrinkKeepsBudget ==
    ASSUME TypeOK, NEW t \in Tenant,
           UsableKeys(t)' \subseteq UsableKeys(t), Creating(t)' \subseteq Creating(t)
    PROVE  Cardinality(UsableKeys(t)') + Cardinality(Creating(t)')
             <= Cardinality(UsableKeys(t)) + Cardinality(Creating(t))
<1>1. IsFiniteSet(UsableKeys(t)) /\ IsFiniteSet(Creating(t))
  BY FiniteParts
<1>2. /\ IsFiniteSet(UsableKeys(t)') /\ IsFiniteSet(Creating(t)')
      /\ Cardinality(UsableKeys(t)') <= Cardinality(UsableKeys(t))
      /\ Cardinality(Creating(t)') <= Cardinality(Creating(t))
  BY <1>1, FS_Subset
<1>3. /\ Cardinality(UsableKeys(t)) \in Nat /\ Cardinality(Creating(t)) \in Nat
      /\ Cardinality(UsableKeys(t)') \in Nat /\ Cardinality(Creating(t)') \in Nat
  BY <1>1, <1>2, FS_CardinalityType
<1> QED BY <1>2, <1>3

\* A create that draws its key turns one unit of one set into one of the other.
LEMMA DrawKeepsBudget ==
    ASSUME TypeOK, NEW t \in Tenant, NEW k \in Key, NEW p \in Creating(t),
           UsableKeys(t)' \subseteq UsableKeys(t) \cup {k},
           Creating(t)' \subseteq Creating(t) \ {p}
    PROVE  Cardinality(UsableKeys(t)') + Cardinality(Creating(t)')
             <= Cardinality(UsableKeys(t)) + Cardinality(Creating(t))
<1>1. IsFiniteSet(UsableKeys(t)) /\ IsFiniteSet(Creating(t))
  BY FiniteParts
<1>2. /\ IsFiniteSet(UsableKeys(t) \cup {k})
      /\ Cardinality(UsableKeys(t) \cup {k}) <= Cardinality(UsableKeys(t)) + 1
  <2>1. Cardinality(UsableKeys(t)) \in Nat
    BY <1>1, FS_CardinalityType
  <2> DEFINE U == UsableKeys(t)
  <2>2. /\ IsFiniteSet(U \cup {k})
        /\ Cardinality(U \cup {k}) =
              IF k \in U THEN Cardinality(U) ELSE Cardinality(U) + 1
    <3> HIDE DEF U
    <3>1. IsFiniteSet(U)
      BY <1>1 DEF U
    <3> QED BY <3>1, FS_AddElement
  <2> QED BY <2>1, <2>2
<1>3. /\ IsFiniteSet(Creating(t) \ {p})
      /\ Cardinality(Creating(t) \ {p}) = Cardinality(Creating(t)) - 1
  BY <1>1, FS_RemoveElement
<1>4. /\ IsFiniteSet(UsableKeys(t)') /\ IsFiniteSet(Creating(t)')
      /\ Cardinality(UsableKeys(t)') <= Cardinality(UsableKeys(t) \cup {k})
      /\ Cardinality(Creating(t)') <= Cardinality(Creating(t) \ {p})
  BY <1>2, <1>3, FS_Subset
<1>5. /\ Cardinality(UsableKeys(t)) \in Nat /\ Cardinality(Creating(t)) \in Nat
      /\ Cardinality(UsableKeys(t) \cup {k}) \in Nat
      /\ Cardinality(UsableKeys(t)') \in Nat /\ Cardinality(Creating(t)') \in Nat
  BY <1>1, <1>2, <1>4, FS_CardinalityType
<1> QED BY <1>2, <1>3, <1>4, <1>5

-----------------------------------------------------------------------------
\* Which key belongs to whom

KeyInv == TypeOK /\ KeysKnown /\ OneTenant

LEMMA KeyInit == Init => KeyInv
<1> SUFFICES ASSUME Init PROVE KeyInv
  OBVIOUS
<1>1. \A p \in Proc : req[p] = Idle
  BY DEF Init
<1> QED BY <1>1, TypeInit DEF KeyInv, KeysKnown, OneTenant, Idle

\* A step that leaves the table alone and gives a slot a request which saves
\* nothing, or an entity just read from the table.
LEMMA KeyBecome ==
    ASSUME KeyInv, NEW p \in Proc, NEW r, Become(p, r),
           rows' = rows, deleted' = deleted,
           \/ r.pc \in {"idle", "generate"}
           \/ r.pc = "remove" /\ Stored(r.key)
           \/ /\ r.pc = "save" /\ Stored(r.key)
              /\ r.ent.tenant = rows[r.key].tenant
    PROVE  KeysKnown' /\ OneTenant'
<1>1. req'[p] = r /\ \A q \in Proc \ {p} : req'[q] = req[q]
  BY DEF Become, KeyInv, TypeOK
<1>2. KeysKnown'
  BY <1>1 DEF KeyInv, KeysKnown, Stored
<1>3. OneTenant'
  BY <1>1 DEF KeyInv, OneTenant, Stored
<1> QED BY <1>2, <1>3

LEMMA KeyStep == KeyInv /\ [Next]_vars => KeyInv'
<1> SUFFICES ASSUME KeyInv, [Next]_vars PROVE KeysKnown' /\ OneTenant'
  BY TypeStep DEF KeyInv
<1>t. TypeOK
  BY DEF KeyInv
<1>1. CASE UNCHANGED vars
  BY <1>1 DEF vars, KeyInv, KeysKnown, OneTenant, Stored
<1>2. CASE Tick
  BY <1>2 DEF Tick, KeyInv, KeysKnown, OneTenant, Stored
<1>3. ASSUME NEW p \in Proc, Handler(p) PROVE KeysKnown' /\ OneTenant'
  <2>t. /\ rows \in [Key -> Row \cup {NoRow}] /\ RequestOK(req[p])
        /\ req[p] \in Request /\ req \in [Proc -> Request]
    BY <1>t DEF TypeOK
  <2>f. ASSUME Finish(p), rows' = rows, deleted' = deleted
        PROVE  KeysKnown' /\ OneTenant'
    BY <2>f, KeyBecome DEF Finish, Idle
  <2>s. ASSUME NEW k \in Key, Stored(k), NEW ent, StartSave(p, k, ent),
               ent.tenant = rows[k].tenant, rows' = rows, deleted' = deleted
        PROVE  KeysKnown' /\ OneTenant'
    BY <2>s, KeyBecome DEF StartSave
  <2>1. ASSUME NEW t \in Tenant, NEW n \in Name, NEW e \in MaybeTime,
               CountActive(p, t, n, e)
        PROVE  KeysKnown' /\ OneTenant'
    BY <2>1, KeyBecome DEF CountActive
  <2>2. CASE Generate(p)
    <3>1. PICK k \in Key \ (deleted \cup Drawn) : IF Stored(k) THEN Finish(p)
             ELSE Become(p, [pc |-> "insert", key |-> k, loaded |-> NoRow,
                             ent |-> [req[p].ent EXCEPT !.secret = FreshSecret]])
      BY <2>2 DEF Generate
    <3>2. CASE Stored(k)
      BY <2>2, <2>f, <3>1, <3>2 DEF Generate
    <3>3. CASE ~Stored(k)
      <4>1. \A q \in Proc : req[q].pc = "insert" => req[q].key # k
        BY <3>1 DEF Drawn
      <4>2. /\ req'[p].pc = "insert" /\ req'[p].key = k
            /\ \A q \in Proc \ {p} : req'[q] = req[q]
        BY <2>t, <3>1, <3>3 DEF Become
      <4>3. rows' = rows /\ deleted' = deleted
        BY <2>2 DEF Generate
      <4>4. KeysKnown'
        BY <3>1, <3>3, <4>1, <4>2, <4>3 DEF KeyInv, KeysKnown, Stored
      <4>5. OneTenant'
        BY <4>2, <4>3 DEF KeyInv, OneTenant, Stored
      <4> QED BY <4>4, <4>5
    <3> QED BY <3>2, <3>3
  <2>3. CASE Insert(p)
    <3> DEFINE k == req[p].key
    <3>1. /\ k \in Key /\ req[p].ent \in Row /\ req[p].pc = "insert"
          /\ deleted' = deleted
      BY <2>3, <2>t DEF Insert, RequestOK
    <3>2. /\ req'[p] = Idle
          /\ \A q \in Proc \ {p} : req'[q] = req[q]
      BY <2>3, <2>t DEF Insert, Finish, Become
    <3>3. \A q \in Proc \ {p} :
             req[q].pc \in {"insert", "save", "write", "remove"} => req[q].key # k
      BY <3>1 DEF KeyInv, KeysKnown
    <3>4. \A j \in Key \ {k} : rows'[j] = rows[j]
      BY <2>3, <2>t, <3>1 DEF Insert
    <3>5. \A q \in Proc \ {p} :
             req[q].pc \in {"insert", "save", "write", "remove"} =>
                rows'[req[q].key] = rows[req[q].key]
      BY <1>t, <3>3, <3>4 DEF TypeOK, RequestOK
    <3>6. KeysKnown'
      BY <3>1, <3>2, <3>5 DEF KeyInv, KeysKnown, Stored, Idle
    <3>7. OneTenant'
      BY <3>2, <3>5 DEF KeyInv, OneTenant, Stored, Idle
    <3> QED BY <3>6, <3>7
  <2>4. ASSUME NEW t \in Tenant, NEW k \in Key, ReadForUpdate(p, t, k)
        PROVE  KeysKnown' /\ OneTenant'
    <3>1. PICK n \in Name, e \in Time \cup {rows[k].expiresAt} :
             StartSave(p, k, [rows[k] EXCEPT !.name = n, !.expiresAt = e])
      BY <2>4 DEF ReadForUpdate
    <3>2. rows[k] \in Row
      BY <2>4, <2>t DEF ReadForUpdate, Found, Stored
    <3>3. [rows[k] EXCEPT !.name = n, !.expiresAt = e].tenant = rows[k].tenant
      BY <3>2 DEF Row
    <3> QED BY <2>4, <2>s, <3>1, <3>3 DEF ReadForUpdate, Found
  <2>5. ASSUME NEW t \in Tenant, NEW k \in Key, ReadForRevoke(p, t, k)
        PROVE  KeysKnown' /\ OneTenant'
    <3>1. [rows[k] EXCEPT !.status = "REVOKED"].tenant = rows[k].tenant
      BY <2>5, <2>t DEF ReadForRevoke, Found, Stored, Row
    <3> QED BY <2>5, <2>s, <3>1 DEF ReadForRevoke, Found
  <2>6. ASSUME NEW t \in Tenant, NEW k \in Key, ReadForRotate(p, t, k)
        PROVE  KeysKnown' /\ OneTenant'
    <3>1. [rows[k] EXCEPT !.secret = FreshSecret].tenant = rows[k].tenant
      BY <2>6, <2>t DEF ReadForRotate, Found, Stored, Row
    <3> QED BY <2>6, <2>s, <3>1 DEF ReadForRotate, Found
  <2>7. ASSUME NEW t \in Tenant, NEW k \in Key, ReadForDelete(p, t, k)
        PROVE  KeysKnown' /\ OneTenant'
    BY <2>7, KeyBecome DEF ReadForDelete, Found
  <2>8. ASSUME NEW k \in Key, NEW s \in Secret, Validate(p, k, s)
        PROVE  KeysKnown' /\ OneTenant'
    <3>1. rows[k] \in Row
      BY <2>8, <2>t DEF Validate, Stored
    <3>2. /\ [rows[k] EXCEPT !.status = "EXPIRED"].tenant = rows[k].tenant
          /\ [rows[k] EXCEPT !.lastUsedAt = now].tenant = rows[k].tenant
      BY <3>1 DEF Row
    <3> QED BY <2>8, <2>s, <3>2 DEF Validate
  <2>9. CASE SaveLoad(p)
    <3>1. /\ req'[p].pc = "write" /\ req'[p].key = req[p].key
          /\ req'[p].ent = req[p].ent /\ req[p].pc = "save"
          /\ \A q \in Proc \ {p} : req'[q] = req[q]
      BY <2>9, <2>t DEF SaveLoad, Become
    <3>2. rows' = rows /\ deleted' = deleted
      BY <2>9 DEF SaveLoad
    <3>3. KeysKnown'
      BY <3>1, <3>2 DEF KeyInv, KeysKnown, Stored
    <3>4. OneTenant'
      BY <3>1, <3>2 DEF KeyInv, OneTenant, Stored
    <3> QED BY <3>3, <3>4
  <2>10. CASE SaveWrite(p)
    <3> DEFINE k == req[p].key
               ent == req[p].ent
               loaded == req[p].loaded
    <3>1. /\ k \in Key /\ ent \in Row /\ req[p].pc = "write"
          /\ deleted' = deleted
      BY <2>10, <2>t DEF SaveWrite, RequestOK
    <3>2. /\ req'[p] = Idle
          /\ \A q \in Proc \ {p} : req'[q] = req[q]
      BY <2>10, <2>t DEF SaveWrite, Finish, Become
    <3>3. \A j \in Key \ {k} : rows'[j] = rows[j]
      BY <2>10, <2>t, <3>1 DEF SaveWrite
    <3>4. /\ rows[k] # NoRow => rows'[k] # NoRow
          /\ rows'[k] # NoRow => rows'[k].tenant = ent.tenant
      <4>1. CASE rows'[k] = rows[k]
        BY <3>1, <4>1 DEF KeyInv, OneTenant, Stored
      <4>2. CASE loaded = NoRow /\ rows'[k] = ent
        BY <3>1, <4>2, NoValueAssumption DEF Stored
      <4>3. CASE /\ loaded # NoRow /\ Stored(k)
                 /\ rows'[k] = Merged(ent, loaded, rows[k])
        <5>1. loaded \in Row /\ rows[k] \in Row
          BY <2>10, <2>t, <3>1, <4>3 DEF Request, Stored
        <5>2. rows'[k] \in Row /\ rows'[k].tenant = rows[k].tenant
          BY <3>1, <4>3, <5>1, MergedType DEF Merged
        <5> QED BY <3>1, <4>3, <5>2, NoValueAssumption DEF KeyInv, OneTenant, Stored
      <4> QED BY <2>10, <2>t, <3>1, <4>1, <4>2, <4>3 DEF SaveWrite
    <3>5. \A q \in Proc \ {p} : req[q].pc = "insert" => req[q].key # k
      BY <3>1 DEF KeyInv, KeysKnown
    <3>6. \A q \in Proc \ {p} :
             /\ req[q].pc \in {"insert", "save", "write", "remove"}
             /\ req[q].key # k
             => rows'[req[q].key] = rows[req[q].key]
      BY <1>t, <3>3 DEF TypeOK, RequestOK
    <3>7. KeysKnown'
      BY <3>1, <3>2, <3>4, <3>5, <3>6 DEF KeyInv, KeysKnown, Stored, Idle
    <3>8. OneTenant'
      <4>1. \A q \in Proc \ {p} :
               req[q].pc \in {"save", "write"} /\ req[q].key = k
                 => req[q].ent.tenant = ent.tenant
        BY <3>1 DEF KeyInv, OneTenant
      <4> QED BY <3>2, <3>4, <3>6, <4>1 DEF KeyInv, OneTenant, Stored, Idle
    <3> QED BY <3>7, <3>8
  <2>11. CASE Remove(p)
    <3> DEFINE k == req[p].key
    <3>1. k \in Key /\ req[p].pc = "remove" /\ deleted' = deleted \cup {k}
      BY <2>11, <2>t DEF Remove, RequestOK
    <3>2. /\ req'[p] = Idle
          /\ \A q \in Proc \ {p} : req'[q] = req[q]
      BY <2>11, <2>t DEF Remove, Finish, Become
    <3>3. rows'[k] = NoRow /\ \A j \in Key \ {k} : rows'[j] = rows[j]
      BY <2>11, <2>t, <3>1 DEF Remove
    <3>4. \A q \in Proc \ {p} : req[q].pc = "insert" => req[q].key # k
      BY <3>1 DEF KeyInv, KeysKnown
    <3>5. \A q \in Proc \ {p} :
             /\ req[q].pc \in {"insert", "save", "write", "remove"}
             /\ req[q].key # k
             => rows'[req[q].key] = rows[req[q].key]
      BY <1>t, <3>3 DEF TypeOK, RequestOK
    <3>6. KeysKnown'
      BY <3>1, <3>2, <3>3, <3>4, <3>5 DEF KeyInv, KeysKnown, Stored, Idle
    <3>7. OneTenant'
      BY <3>2, <3>3, <3>5 DEF KeyInv, OneTenant, Stored, Idle
    <3> QED BY <3>6, <3>7
  <2>12. CASE Abort(p)
    BY <2>12, <2>f DEF Abort
  <2> QED
    BY <1>3, <2>1, <2>2, <2>3, <2>4, <2>5, <2>6, <2>7, <2>8, <2>9, <2>10,
       <2>11, <2>12 DEF Handler
<1> QED BY <1>1, <1>2, <1>3 DEF Next

\* A key belongs to one tenant: its row never moves, and no request in flight
\* could write it into another tenant.
THEOREM KeysKeepTheirTenant == Spec => []OneTenant
<1>1. Spec => []KeyInv
  BY KeyInit, KeyStep, PTL DEF Spec
<1>2. KeyInv => OneTenant
  BY DEF KeyInv
<1> QED BY <1>1, <1>2, PTL

-----------------------------------------------------------------------------
\* The budget

BudgetInv == KeyInv /\ Budget

\* No tenant gains a usable key or a create that is past the check.
Shrinks == \A t \in Tenant : /\ UsableKeys(t)' \subseteq UsableKeys(t)
                              /\ Creating(t)' \subseteq Creating(t)

LEMMA ShrinksKeepsBudget == BudgetInv /\ Shrinks => Budget'
<1> SUFFICES ASSUME BudgetInv, Shrinks, NEW t \in Tenant
             PROVE  Cardinality(UsableKeys(t)') + Cardinality(Creating(t)')
                      <= MaxActive + Cardinality(Proc) - 1
  BY DEF Budget
<1>1. IsFiniteSet(UsableKeys(t)) /\ IsFiniteSet(Creating(t))
  BY FiniteParts DEF BudgetInv, KeyInv
<1>2. IsFiniteSet(UsableKeys(t)') /\ IsFiniteSet(Creating(t)')
  BY <1>1, FS_Subset DEF Shrinks
<1>3. /\ Cardinality(UsableKeys(t)) \in Nat /\ Cardinality(Creating(t)) \in Nat
      /\ Cardinality(UsableKeys(t)') \in Nat /\ Cardinality(Creating(t)') \in Nat
      /\ Cardinality(Proc) \in Nat
  BY <1>1, <1>2, FS_CardinalityType, ProcAssumption
<1>4. Cardinality(UsableKeys(t)') + Cardinality(Creating(t)')
        <= Cardinality(UsableKeys(t)) + Cardinality(Creating(t))
  BY ShrinkKeepsBudget DEF BudgetInv, KeyInv, Shrinks
<1>5. Cardinality(UsableKeys(t)) + Cardinality(Creating(t))
        <= MaxActive + Cardinality(Proc) - 1
  BY DEF BudgetInv, Budget
<1> QED BY <1>3, <1>4, <1>5, NumberAssumption

\* A step that leaves the table alone and gives a slot a request that holds
\* no key as ACTIVE, or one that was usable already.
LEMMA BecomeShrinks ==
    ASSUME TypeOK, NEW p \in Proc, NEW r, Become(p, r), rows' = rows,
           r.pc \notin {"generate", "insert"},
           r.pc \in {"save", "write"} /\ r.ent.status = "ACTIVE" =>
              \A t \in Tenant : r.ent.tenant = t => r.key \in UsableKeys(t)
    PROVE  Shrinks
<1>1. req'[p] = r /\ \A q \in Proc \ {p} : req'[q] = req[q]
  BY DEF Become, TypeOK
<1> SUFFICES ASSUME NEW t \in Tenant
             PROVE  /\ UsableKeys(t)' \subseteq UsableKeys(t)
                    /\ Creating(t)' \subseteq Creating(t)
  BY DEF Shrinks
<1>2. ActiveKeys(t)' = ActiveKeys(t)
  BY DEF ActiveKeys, Stored
<1>3. Creating(t)' \subseteq Creating(t)
  BY <1>1 DEF Creating
<1>4. HeldKeys(t)' \subseteq UsableKeys(t)
  BY <1>1 DEF HeldKeys, Holders, UsableKeys
<1> QED BY <1>2, <1>3, <1>4 DEF UsableKeys

\* A row written by request p, which held it as ACTIVE or found it so: the
\* slot is idle afterwards and no other row changes.
LEMMA WriteShrinks ==
    ASSUME TypeOK, NEW p \in Proc, Finish(p),
           NEW k \in Key, \A j \in Key \ {k} : rows'[j] = rows[j],
           rows'[k] # NoRow /\ rows'[k].status = "ACTIVE" =>
              \A t \in Tenant : rows'[k].tenant = t => k \in UsableKeys(t)
    PROVE  Shrinks
<1>1. req'[p] = Idle /\ \A q \in Proc \ {p} : req'[q] = req[q]
  BY DEF Finish, Become, TypeOK
<1> SUFFICES ASSUME NEW t \in Tenant
             PROVE  /\ UsableKeys(t)' \subseteq UsableKeys(t)
                    /\ Creating(t)' \subseteq Creating(t)
  BY DEF Shrinks
<1>2. ActiveKeys(t)' \subseteq UsableKeys(t)
  BY DEF ActiveKeys, Stored, UsableKeys
<1>3. Creating(t)' \subseteq Creating(t)
  BY <1>1 DEF Creating, Idle
<1>4. HeldKeys(t)' \subseteq UsableKeys(t)
  BY <1>1 DEF HeldKeys, Holders, UsableKeys, Idle
<1> QED BY <1>2, <1>3, <1>4 DEF UsableKeys

\* Only the count of create adds to the budget, and only its draw moves a unit
\* of it from the creates to the keys.
LEMMA HandlerShrinks ==
    ASSUME KeyInv, NEW p \in Proc, Handler(p)
    PROVE  \/ Shrinks
           \/ \E t \in Tenant, n \in Name, e \in MaybeTime : CountActive(p, t, n, e)
           \/ Generate(p)
<1>i. TypeOK /\ KeysKnown /\ OneTenant
  BY DEF KeyInv
<1>t. /\ rows \in [Key -> Row \cup {NoRow}] /\ RequestOK(req[p])
      /\ req[p] \in Request /\ req \in [Proc -> Request]
  BY <1>i DEF TypeOK
<1>f. ASSUME Finish(p), rows' = rows PROVE Shrinks
  <2>1. Idle.pc = "idle"
    BY DEF Idle
  <2> QED BY <1>i, <1>f, <2>1, BecomeShrinks DEF Finish
\* A handler that has just read the row of k and edited its copy.
<1>e. ASSUME NEW k \in Key, Stored(k), NEW ent, StartSave(p, k, ent),
             ent.tenant = rows[k].tenant,
             ent.status = "ACTIVE" => rows[k].status = "ACTIVE",
             rows' = rows
      PROVE  Shrinks
  <2> DEFINE r == [pc |-> "save", key |-> k, ent |-> ent, loaded |-> NoRow]
  <2>1. ent.status = "ACTIVE" =>
           \A t \in Tenant : ent.tenant = t => k \in UsableKeys(t)
    BY <1>e DEF UsableKeys, ActiveKeys
  <2> QED BY <1>i, <1>e, <2>1, BecomeShrinks DEF StartSave
<1>3. CASE Insert(p)
  <2> DEFINE k == req[p].key
  <2>1. k \in Key /\ req[p].ent \in Row /\ req[p].pc = "insert" /\ Finish(p)
    BY <1>3, <1>t DEF Insert, RequestOK
  <2>2. /\ \A j \in Key \ {k} : rows'[j] = rows[j]
        /\ rows'[k] = rows[k] \/ rows'[k] = req[p].ent
    BY <1>3, <1>t, <2>1 DEF Insert
  <2>3. ~Stored(k)
    BY <1>i, <2>1 DEF KeysKnown
  <2>4. rows'[k] # NoRow /\ rows'[k].status = "ACTIVE" =>
           \A t \in Tenant : rows'[k].tenant = t => k \in UsableKeys(t)
    BY <2>1, <2>2, <2>3 DEF Stored, UsableKeys, HeldKeys, Holders
  <2> QED BY <1>i, <2>1, <2>2, <2>4, WriteShrinks
<1>4. ASSUME NEW t \in Tenant, NEW k \in Key, ReadForUpdate(p, t, k)
      PROVE  Shrinks
  <2>1. PICK n \in Name, e \in Time \cup {rows[k].expiresAt} :
           StartSave(p, k, [rows[k] EXCEPT !.name = n, !.expiresAt = e])
    BY <1>4 DEF ReadForUpdate
  <2> DEFINE ent == [rows[k] EXCEPT !.name = n, !.expiresAt = e]
  <2>2. rows[k] \in Row
    BY <1>4, <1>t DEF ReadForUpdate, Found, Stored
  <2>3. ent.tenant = rows[k].tenant /\ ent.status = rows[k].status
    BY <2>2 DEF Row
  <2>4. Stored(k) /\ rows' = rows
    BY <1>4 DEF ReadForUpdate, Found
  <2> HIDE DEF ent
  <2>5. StartSave(p, k, ent)
    BY <2>1 DEF ent
  <2> QED BY <1>e, <2>3, <2>4, <2>5
<1>5. ASSUME NEW t \in Tenant, NEW k \in Key, ReadForRevoke(p, t, k)
      PROVE  Shrinks
  <2> DEFINE ent == [rows[k] EXCEPT !.status = "REVOKED"]
  <2>1. rows[k] \in Row /\ Stored(k) /\ rows' = rows /\ StartSave(p, k, ent)
    BY <1>5, <1>t DEF ReadForRevoke, Found, Stored
  <2>2. ent.tenant = rows[k].tenant /\ ent.status = "REVOKED"
    BY <2>1 DEF Row
  <2> HIDE DEF ent
  <2> QED BY <1>e, <2>1, <2>2
<1>6. ASSUME NEW t \in Tenant, NEW k \in Key, ReadForRotate(p, t, k)
      PROVE  Shrinks
  <2> DEFINE ent == [rows[k] EXCEPT !.secret = FreshSecret]
  <2>1. rows[k] \in Row /\ Stored(k) /\ rows' = rows /\ StartSave(p, k, ent)
    BY <1>6, <1>t DEF ReadForRotate, Found, Stored
  <2>2. ent.tenant = rows[k].tenant /\ ent.status = rows[k].status
    BY <2>1 DEF Row
  <2> HIDE DEF ent
  <2> QED BY <1>e, <2>1, <2>2
<1>7. ASSUME NEW t \in Tenant, NEW k \in Key, ReadForDelete(p, t, k)
      PROVE  Shrinks
  <2> QED BY <1>i, <1>7, BecomeShrinks DEF ReadForDelete
<1>8. ASSUME NEW k \in Key, NEW s \in Secret, Validate(p, k, s)
      PROVE  Shrinks
  <2> DEFINE expired == [rows[k] EXCEPT !.status = "EXPIRED"]
             used == [rows[k] EXCEPT !.lastUsedAt = now]
  <2>1. /\ rows[k] \in Row /\ Stored(k) /\ rows' = rows
        /\ StartSave(p, k, expired) \/ StartSave(p, k, used)
    BY <1>8, <1>t DEF Validate, Stored
  <2>2. /\ expired.tenant = rows[k].tenant /\ expired.status = "EXPIRED"
        /\ used.tenant = rows[k].tenant /\ used.status = rows[k].status
    BY <2>1 DEF Row
  <2> HIDE DEF expired, used
  <2> QED BY <1>e, <2>1, <2>2
<1>9. CASE SaveLoad(p)
  <2> DEFINE r == [pc |-> "write", key |-> req[p].key, ent |-> req[p].ent,
                   loaded |-> rows[req[p].key]]
  <2>1. Become(p, r) /\ rows' = rows /\ req[p].pc = "save"
    BY <1>9 DEF SaveLoad
  <2>2. req[p].ent.status = "ACTIVE" =>
           \A t \in Tenant : req[p].ent.tenant = t => req[p].key \in UsableKeys(t)
    BY <2>1 DEF UsableKeys, HeldKeys, Holders
  <2> QED BY <1>i, <2>1, <2>2, BecomeShrinks
<1>10. CASE SaveWrite(p)
  <2> DEFINE k == req[p].key
             ent == req[p].ent
             loaded == req[p].loaded
  <2>1. k \in Key /\ ent \in Row /\ req[p].pc = "write" /\ Finish(p)
    BY <1>10, <1>t DEF SaveWrite, RequestOK
  <2>2. /\ \A j \in Key \ {k} : rows'[j] = rows[j]
        /\ \/ rows'[k] = rows[k]
           \/ rows'[k] = ent
           \/ Stored(k) /\ rows'[k] = Merged(ent, loaded, rows[k])
    BY <1>10, <1>t, <2>1 DEF SaveWrite
  <2>3. ent.status = "ACTIVE" =>
           \A t \in Tenant : ent.tenant = t => k \in UsableKeys(t)
    BY <2>1 DEF UsableKeys, HeldKeys, Holders
  <2>4. Stored(k) /\ rows[k].status = "ACTIVE" =>
           \A t \in Tenant : rows[k].tenant = t => k \in UsableKeys(t)
    BY <2>1 DEF UsableKeys, ActiveKeys
  <2>5. Stored(k) => ent.tenant = rows[k].tenant
    BY <1>i, <2>1 DEF OneTenant
  <2>6. /\ Merged(ent, loaded, rows[k]).tenant = rows[k].tenant
        /\ Merged(ent, loaded, rows[k]).status \in {ent.status, rows[k].status}
    BY DEF Merged, Column
  <2>7. rows'[k] # NoRow /\ rows'[k].status = "ACTIVE" =>
           \A t \in Tenant : rows'[k].tenant = t => k \in UsableKeys(t)
    BY <2>2, <2>3, <2>4, <2>5, <2>6 DEF Stored
  <2> QED BY <1>i, <2>1, <2>2, <2>7, WriteShrinks
<1>11. CASE Remove(p)
  <2> DEFINE k == req[p].key
  <2>1. k \in Key /\ Finish(p)
    BY <1>11, <1>t DEF Remove, RequestOK
  <2>2. rows'[k] = NoRow /\ \A j \in Key \ {k} : rows'[j] = rows[j]
    BY <1>11, <1>t, <2>1 DEF Remove
  <2> QED BY <1>i, <2>1, <2>2, WriteShrinks
<1>12. CASE Abort(p)
  BY <1>12, <1>f DEF Abort
<1> QED
  BY <1>3, <1>4, <1>5, <1>6, <1>7, <1>8, <1>9, <1>10, <1>11, <1>12 DEF Handler

LEMMA BudgetStep == BudgetInv /\ [Next]_vars => Budget'
<1> SUFFICES ASSUME BudgetInv, [Next]_vars PROVE Budget'
  OBVIOUS
<1>t. TypeOK /\ KeysKnown /\ OneTenant /\ Budget
  BY DEF BudgetInv, KeyInv
<1>s. Shrinks => Budget'
  BY ShrinksKeepsBudget
<1>1. CASE UNCHANGED vars
  BY <1>1, <1>t
     DEF vars, Budget, UsableKeys, ActiveKeys, Stored, HeldKeys, Holders, Creating
<1>2. CASE Tick
  BY <1>2, <1>t
     DEF Tick, Budget, UsableKeys, ActiveKeys, Stored, HeldKeys, Holders, Creating
<1>3. ASSUME NEW p \in Proc, Handler(p) PROVE Budget'
  <2>t. /\ rows \in [Key -> Row \cup {NoRow}] /\ RequestOK(req[p])
        /\ req[p] \in Request /\ req \in [Proc -> Request]
    BY <1>t DEF TypeOK
  <2>s. CASE Shrinks
    BY <1>s, <2>s
  <2>1. ASSUME NEW t \in Tenant, NEW n \in Name, NEW e \in MaybeTime,
               CountActive(p, t, n, e)
        PROVE  Budget'
    <3>1. /\ req'[p].pc = "generate" /\ req'[p].ent.tenant = t
          /\ req[p].pc = "idle"
          /\ \A q \in Proc \ {p} : req'[q] = req[q]
      BY <2>1, <2>t DEF CountActive, Become
    <3>2. rows' = rows
      BY <2>1 DEF CountActive
    <3>3. ASSUME NEW u \in Tenant PROVE UsableKeys(u)' \subseteq UsableKeys(u)
      <4>1. ActiveKeys(u)' = ActiveKeys(u)
        BY <3>2 DEF ActiveKeys, Stored
      <4>2. HeldKeys(u)' \subseteq HeldKeys(u)
        BY <3>1 DEF HeldKeys, Holders
      <4> QED BY <4>1, <4>2 DEF UsableKeys
    <3>4. ASSUME NEW u \in Tenant \ {t} PROVE Creating(u)' \subseteq Creating(u)
      BY <3>1 DEF Creating
    <3>5. Creating(t)' \subseteq Proc /\ Creating(t)' \cap Holders(t) = {}
      BY <3>1 DEF Creating, Holders
    <3>6. ASSUME NEW u \in Tenant
          PROVE  Cardinality(UsableKeys(u)') + Cardinality(Creating(u)')
                   <= MaxActive + Cardinality(Proc) - 1
      <4>1. IsFiniteSet(UsableKeys(u)) /\ IsFiniteSet(Creating(u))
        BY <1>t, FiniteParts
      <4>2. IsFiniteSet(UsableKeys(u)') /\ IsFiniteSet(Creating(u)')
        BY <3>3, <4>1, FS_Subset, ProcAssumption DEF Creating
      <4>3. Cardinality(UsableKeys(u)') <= Cardinality(UsableKeys(u))
        BY <3>3, <4>1, FS_Subset
      <4>4. /\ Cardinality(UsableKeys(u)) \in Nat /\ Cardinality(Creating(u)) \in Nat
            /\ Cardinality(UsableKeys(u)') \in Nat
            /\ Cardinality(Creating(u)') \in Nat /\ Cardinality(Proc) \in Nat
        BY <4>1, <4>2, FS_CardinalityType, ProcAssumption
      <4>5. CASE u = t
        <5>1. Cardinality(ActiveKeys(t)) < MaxActive
          BY <2>1 DEF CountActive, BelowLimit
        <5>2. Cardinality(UsableKeys(t)) + Cardinality(Creating(t)')
                <= MaxActive + Cardinality(Proc) - 1
          BY <1>t, <3>5, <5>1, CountKeepsBudget
        <5> QED BY <4>3, <4>4, <4>5, <5>2, NumberAssumption
      <4>6. CASE u # t
        <5>1. Cardinality(Creating(u)') <= Cardinality(Creating(u))
          BY <3>4, <4>1, <4>6, FS_Subset
        <5>2. Cardinality(UsableKeys(u)) + Cardinality(Creating(u))
                <= MaxActive + Cardinality(Proc) - 1
          BY <1>t DEF Budget
        <5> QED BY <4>3, <4>4, <5>1, <5>2, NumberAssumption
      <4> QED BY <4>5, <4>6
    <3> QED BY <3>6 DEF Budget
  <2>2. CASE Generate(p)
    <3>1. PICK k \in Key \ (deleted \cup Drawn) : IF Stored(k) THEN Finish(p)
             ELSE Become(p, [pc |-> "insert", key |-> k, loaded |-> NoRow,
                             ent |-> [req[p].ent EXCEPT !.secret = FreshSecret]])
      BY <2>2 DEF Generate
    <3>2. rows' = rows /\ req[p].pc = "generate" /\ req[p].ent \in Row
      BY <2>2, <2>t DEF Generate, RequestOK
    <3>3. CASE Stored(k)
      <4>1. Idle.pc = "idle"
        BY DEF Idle
      <4>2. Shrinks
        BY <1>t, <3>1, <3>2, <3>3, <4>1, BecomeShrinks DEF Finish
      <4> QED BY <1>s, <4>2
    <3>4. CASE ~Stored(k)
      <4> DEFINE t == req[p].ent.tenant
      <4>1. /\ req'[p].pc = "insert" /\ req'[p].key = k
            /\ req'[p].ent.tenant = req[p].ent.tenant
            /\ \A q \in Proc \ {p} : req'[q] = req[q]
        BY <2>t, <3>1, <3>2, <3>4 DEF Become, Row
      <4>2. t \in Tenant /\ p \in Creating(t)
        BY <3>2 DEF Row, Creating
      <4>3. ASSUME NEW u \in Tenant
            PROVE  /\ UsableKeys(u)' \subseteq UsableKeys(u) \cup {k}
                   /\ u # t => UsableKeys(u)' \subseteq UsableKeys(u)
                   /\ Creating(u)' \subseteq Creating(u) \ {p}
        <5>1. ActiveKeys(u)' = ActiveKeys(u)
          BY <3>2 DEF ActiveKeys, Stored
        <5>2. /\ HeldKeys(u)' \subseteq HeldKeys(u) \cup {k}
              /\ u # t => HeldKeys(u)' \subseteq HeldKeys(u)
          BY <4>1 DEF HeldKeys, Holders
        <5>3. Creating(u)' \subseteq Creating(u) \ {p}
          BY <4>1 DEF Creating
        <5> QED BY <5>1, <5>2, <5>3 DEF UsableKeys
      <4>4. ASSUME NEW u \in Tenant
            PROVE  Cardinality(UsableKeys(u)') + Cardinality(Creating(u)')
                     <= Cardinality(UsableKeys(u)) + Cardinality(Creating(u))
        <5>1. CASE u = t
          BY <1>t, <4>2, <4>3, <5>1, DrawKeepsBudget
        <5>2. CASE u # t
          BY <1>t, <4>3, <5>2, ShrinkKeepsBudget
        <5> QED BY <5>1, <5>2
      <4>5. ASSUME NEW u \in Tenant
            PROVE  Cardinality(UsableKeys(u)') + Cardinality(Creating(u)')
                     <= MaxActive + Cardinality(Proc) - 1
        <5>1. /\ IsFiniteSet(UsableKeys(u)) /\ IsFiniteSet(Creating(u))
          BY <1>t, FiniteParts
        <5>2. IsFiniteSet(UsableKeys(u) \cup {k})
          BY <5>1, FS_AddElement
        <5>3. IsFiniteSet(UsableKeys(u)') /\ IsFiniteSet(Creating(u)')
          BY <4>3, <5>1, <5>2, FS_Subset
        <5>4. /\ Cardinality(UsableKeys(u)) \in Nat
              /\ Cardinality(Creating(u)) \in Nat
              /\ Cardinality(UsableKeys(u)') \in Nat
              /\ Cardinality(Creating(u)') \in Nat /\ Cardinality(Proc) \in Nat
          BY <5>1, <5>3, FS_CardinalityType, ProcAssumption
        <5>5. Cardinality(UsableKeys(u)) + Cardinality(Creating(u))
                <= MaxActive + Cardinality(Proc) - 1
          BY <1>t DEF Budget
        <5> QED BY <4>4, <5>4, <5>5, NumberAssumption
      <4> QED BY <4>5 DEF Budget
    <3> QED BY <3>3, <3>4
  <2> QED BY <1>t, <1>3, <2>1, <2>2, <2>s, HandlerShrinks DEF BudgetInv
<1> QED BY <1>1, <1>2, <1>3 DEF Next

LEMMA ProcPositive == Cardinality(Proc) \in Nat \ {0}
BY ProcAssumption, FS_CardinalityType, FS_EmptySet

LEMMA BudgetInit == Init => Budget
<1> SUFFICES ASSUME Init, NEW t \in Tenant
             PROVE  Cardinality(UsableKeys(t)) + Cardinality(Creating(t))
                      <= MaxActive + Cardinality(Proc) - 1
  BY DEF Budget
<1>1. UsableKeys(t) = {} /\ Creating(t) = {}
  BY DEF Init, Idle, UsableKeys, ActiveKeys, Stored, HeldKeys, Holders, Creating
<1>2. Cardinality(UsableKeys(t)) = 0 /\ Cardinality(Creating(t)) = 0
  BY <1>1, FS_EmptySet
<1> QED BY <1>2, ProcPositive, NumberAssumption

\* The keys that are ACTIVE are among those the budget counts.
LEMMA BudgetBounds == BudgetInv => ActiveBounded
<1> SUFFICES ASSUME BudgetInv, NEW t \in Tenant
             PROVE  Cardinality(ActiveKeys(t)) <= MaxActive + Cardinality(Proc) - 1
  BY DEF ActiveBounded
<1>1. IsFiniteSet(UsableKeys(t)) /\ IsFiniteSet(Creating(t))
  BY FiniteParts DEF BudgetInv, KeyInv
<1>2. /\ IsFiniteSet(ActiveKeys(t))
      /\ Cardinality(ActiveKeys(t)) <= Cardinality(UsableKeys(t))
  BY <1>1, FS_Subset DEF UsableKeys
<1>3. /\ Cardinality(ActiveKeys(t)) \in Nat /\ Cardinality(UsableKeys(t)) \in Nat
      /\ Cardinality(Creating(t)) \in Nat
  BY <1>1, <1>2, FS_CardinalityType
<1> QED BY <1>2, <1>3, ProcPositive, NumberAssumption DEF BudgetInv, Budget

\* However many requests overlap, a tenant has fewer ACTIVE keys than the
\* limit plus the number of requests in flight.
THEOREM ActiveKeysAreBounded == Spec => []ActiveBounded
<1>1. Init => BudgetInv
  BY KeyInit, BudgetInit DEF BudgetInv
<1>2. BudgetInv /\ [Next]_vars => BudgetInv'
  BY KeyStep, BudgetStep DEF BudgetInv
<1>3. Spec => []BudgetInv
  BY <1>1, <1>2, PTL DEF Spec
<1> QED BY <1>3, BudgetBounds, PTL

\* With one request at a time the limit is exact: the comment of create holds.
THEOREM LimitHoldsAlone ==
    ASSUME Cardinality(Proc) = 1
    PROVE  Spec => []LimitKept
<1>1. ActiveBounded => LimitKept
  BY NumberAssumption DEF ActiveBounded, LimitKept
<1> QED BY <1>1, ActiveKeysAreBounded, PTL
=============================================================================
