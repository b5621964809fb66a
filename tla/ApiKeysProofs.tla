---------------------------- MODULE ApiKeysProofs ----------------------------
(***************************************************************************)
(* Theorems about ApiKeys, for every number of requests, keys, tenants and *)
(* names, every limit and every bound.                                     *)
(***************************************************************************)
EXTENDS ApiKeys, TLAPS

\* The UPDATE of a save leaves a well-typed row, of the same tenant.
LEMMA MergedType ==
    ASSUME NEW ent \in Row, NEW loaded \in Row, NEW row \in Row
    PROVE  Merged(ent, loaded, row) \in Row
BY DEF Merged, Column, Row

\* What each handler makes of the row it has read is a row.
LEMMA EditType ==
    ASSUME NEW row \in Row
    PROVE  /\ \A n \in Name, e \in MaybeTime :
                 [row EXCEPT !.name = n, !.expiresAt = e] \in Row
           /\ \A s \in Status : [row EXCEPT !.status = s] \in Row
           /\ \A s \in Secret : [row EXCEPT !.secret = s] \in Row
           /\ \A t \in MaybeTime : [row EXCEPT !.lastUsedAt = t] \in Row
BY DEF Row

\* Setting one request slot to a well-formed request keeps all of them so.
LEMMA BecomeType ==
    ASSUME TypeOK, NEW p \in Proc, NEW r \in Request, RequestOK(r), Become(p, r)
    PROVE  req' \in [Proc -> Request] /\ \A q \in Proc : RequestOK(req'[q])
BY DEF TypeOK, Become

LEMMA FinishType ==
    ASSUME TypeOK, NEW p \in Proc, Finish(p)
    PROVE  req' \in [Proc -> Request] /\ \A q \in Proc : RequestOK(req'[q])
<1>1. Idle \in Request /\ RequestOK(Idle)
  BY DEF Idle, Request, RequestOK, PC
<1> QED BY <1>1, BecomeType DEF Finish

LEMMA StartSaveType ==
    ASSUME TypeOK, NEW p \in Proc, NEW k \in Key, NEW ent \in Row,
           StartSave(p, k, ent)
    PROVE  req' \in [Proc -> Request] /\ \A q \in Proc : RequestOK(req'[q])
<1> DEFINE r == [pc |-> "save", key |-> k, ent |-> ent, loaded |-> NoRow]
<1>1. r \in Request /\ RequestOK(r)
  BY DEF Request, RequestOK, PC
<1> QED BY <1>1, BecomeType DEF StartSave

LEMMA TypeInit == Init => TypeOK
<1> SUFFICES ASSUME Init PROVE TypeOK
  OBVIOUS
<1>1. Idle \in Request /\ RequestOK(Idle)
  BY DEF Idle, Request, RequestOK, PC
<1> QED BY <1>1, NumberAssumption DEF Init, TypeOK, Time

\* One step of any handler, or of the clock, keeps the types.
LEMMA TypeStep == TypeOK /\ [Next]_vars => TypeOK'
<1> SUFFICES ASSUME TypeOK, [Next]_vars PROVE TypeOK'
  OBVIOUS
<1> USE NumberAssumption
<1>1. CASE UNCHANGED vars
  BY <1>1 DEF vars, TypeOK, RequestOK
<1>2. CASE Tick
  BY <1>2 DEF Tick, TypeOK, RequestOK, Time
<1>3. ASSUME NEW p \in Proc, Handler(p) PROVE TypeOK'
  <2>t. /\ rows \in [Key -> Row \cup {NoRow}] /\ deleted \subseteq Key
        /\ issued \in 0..MaxSecret /\ now \in Time /\ RequestOK(req[p])
        /\ req[p] \in Request
    BY DEF TypeOK
  <2>1. ASSUME NEW t \in Tenant, NEW n \in Name, NEW e \in MaybeTime,
               CountActive(p, t, n, e)
        PROVE  TypeOK'
    <3> DEFINE ent == [tenant |-> t, name |-> n, secret |-> 0,
                       status |-> "ACTIVE", expiresAt |-> e, lastUsedAt |-> Never]
               r == [pc |-> "generate", key |-> NoKey, loaded |-> NoRow, ent |-> ent]
    <3>1. ent \in Row
      BY DEF Row, Secret, Status, MaybeTime
    <3>2. r \in Request /\ RequestOK(r)
      BY <3>1 DEF Request, RequestOK, PC
    <3> QED BY <2>1, <2>t, <3>2, BecomeType DEF CountActive, TypeOK
  <2>2. CASE Generate(p)
    <3>1. issued' \in 0..MaxSecret /\ FreshSecret \in Secret
      BY <2>2, <2>t DEF Generate, Secret, FreshSecret
    <3>2. PICK k \in Key : IF Stored(k) THEN Finish(p)
             ELSE Become(p, [pc |-> "insert", key |-> k, loaded |-> NoRow,
                             ent |-> [req[p].ent EXCEPT !.secret = FreshSecret]])
      BY <2>2 DEF Generate
    <3> DEFINE ent == [req[p].ent EXCEPT !.secret = FreshSecret]
               r == [pc |-> "insert", key |-> k, loaded |-> NoRow, ent |-> ent]
    <3>3. req[p].ent \in Row
      BY <2>2, <2>t DEF Generate, RequestOK
    <3>4. ent \in Row
      BY <3>1, <3>3, EditType
    <3>5. r \in Request /\ RequestOK(r)
      BY <3>4 DEF Request, RequestOK, PC
    <3>6. req' \in [Proc -> Request] /\ \A q \in Proc : RequestOK(req'[q])
      BY <3>2, <3>5, BecomeType, FinishType
    <3> QED BY <2>2, <2>t, <3>1, <3>6 DEF Generate, TypeOK
  <2>3. CASE Insert(p)
    <3>1. req[p].ent \in Row /\ req[p].key \in Key
      BY <2>3, <2>t DEF Insert, RequestOK
    <3>2. rows' \in [Key -> Row \cup {NoRow}]
      BY <2>3, <2>t, <3>1 DEF Insert
    <3> QED BY <2>3, <2>t, <3>2, FinishType DEF Insert, TypeOK
  <2>4. ASSUME NEW t \in Tenant, NEW k \in Key, ReadForUpdate(p, t, k)
        PROVE  TypeOK'
    <3>1. rows[k] \in Row
      BY <2>4, <2>t DEF ReadForUpdate, Found, Stored
    <3>2. PICK n \in Name, e \in Time \cup {rows[k].expiresAt} :
             StartSave(p, k, [rows[k] EXCEPT !.name = n, !.expiresAt = e])
      BY <2>4 DEF ReadForUpdate
    <3>3. e \in MaybeTime
      BY <3>1 DEF Row, MaybeTime
    <3>4. [rows[k] EXCEPT !.name = n, !.expiresAt = e] \in Row
      BY <3>1, <3>3, EditType
    <3>5. req' \in [Proc -> Request] /\ \A q \in Proc : RequestOK(req'[q])
      BY <3>2, <3>4, StartSaveType
    <3> QED BY <2>4, <2>t, <3>5 DEF ReadForUpdate, TypeOK
  <2>5. ASSUME NEW t \in Tenant, NEW k \in Key, ReadForRevoke(p, t, k)
        PROVE  TypeOK'
    <3>1. rows[k] \in Row
      BY <2>5, <2>t DEF ReadForRevoke, Found, Stored
    <3>2. [rows[k] EXCEPT !.status = "REVOKED"] \in Row
      BY <3>1, EditType DEF Status
    <3> QED BY <2>5, <2>t, <3>2, StartSaveType DEF ReadForRevoke, TypeOK
  <2>6. ASSUME NEW t \in Tenant, NEW k \in Key, ReadForRotate(p, t, k)
        PROVE  TypeOK'
    <3>1. rows[k] \in Row
      BY <2>6, <2>t DEF ReadForRotate, Found, Stored
    <3>2. issued' \in 0..MaxSecret /\ FreshSecret \in Secret
      BY <2>6, <2>t DEF ReadForRotate, Secret, FreshSecret
    <3>3. [rows[k] EXCEPT !.secret = FreshSecret] \in Row
      BY <3>1, <3>2, EditType
    <3> QED BY <2>6, <2>t, <3>2, <3>3, StartSaveType DEF ReadForRotate, TypeOK
  <2>7. ASSUME NEW t \in Tenant, NEW k \in Key, ReadForDelete(p, t, k)
        PROVE  TypeOK'
    <3> DEFINE r == [pc |-> "remove", key |-> k, ent |-> rows[k], loaded |-> NoRow]
    <3>1. rows[k] \in Row
      BY <2>7, <2>t DEF ReadForDelete, Found, Stored
    <3>2. r \in Request /\ RequestOK(r)
      BY <3>1 DEF Request, RequestOK, PC
    <3> QED BY <2>7, <2>t, <3>2, BecomeType DEF ReadForDelete, TypeOK
  <2>8. ASSUME NEW k \in Key, NEW s \in Secret, Validate(p, k, s)
        PROVE  TypeOK'
    <3>1. rows[k] \in Row
      BY <2>8, <2>t DEF Validate, Stored
    <3>2. now \in MaybeTime
      BY <2>t DEF MaybeTime
    <3>3. /\ [rows[k] EXCEPT !.status = "EXPIRED"] \in Row
          /\ [rows[k] EXCEPT !.lastUsedAt = now] \in Row
      BY <3>1, <3>2, EditType DEF Status
    <3>4. req' \in [Proc -> Request] /\ \A q \in Proc : RequestOK(req'[q])
      BY <2>8, <3>3, StartSaveType DEF Validate
    <3> QED BY <2>8, <2>t, <3>4 DEF Validate, TypeOK
  <2>9. CASE SaveLoad(p)
    <3> DEFINE r == [pc |-> "write", key |-> req[p].key, ent |-> req[p].ent,
                     loaded |-> rows[req[p].key]]
    <3>1. req[p].ent \in Row /\ req[p].key \in Key
      BY <2>9, <2>t DEF SaveLoad, RequestOK
    <3>2. r \in Request /\ RequestOK(r)
      BY <2>t, <3>1 DEF Request, RequestOK, PC
    <3> QED BY <2>9, <2>t, <3>2, BecomeType DEF SaveLoad, TypeOK
  <2>10. CASE SaveWrite(p)
    <3> DEFINE k == req[p].key
               ent == req[p].ent
               loaded == req[p].loaded
    <3>1. ent \in Row /\ k \in Key /\ loaded \in Row \cup {NoRow}
      BY <2>10, <2>t DEF SaveWrite, RequestOK, Request
    <3>2. CASE loaded = NoRow
      <4>1. rows' \in [Key -> Row \cup {NoRow}]
        BY <2>10, <2>t, <3>1, <3>2 DEF SaveWrite
      <4> QED BY <2>10, <2>t, <4>1, FinishType DEF SaveWrite, TypeOK
    <3>3. CASE loaded # NoRow
      <4>1. Stored(k) => Merged(ent, loaded, rows[k]) \in Row
        BY <2>t, <3>1, <3>3, MergedType DEF Stored
      <4>2. rows' \in [Key -> Row \cup {NoRow}]
        BY <2>10, <2>t, <3>1, <3>3, <4>1 DEF SaveWrite
      <4> QED BY <2>10, <2>t, <4>2, FinishType DEF SaveWrite, TypeOK
    <3> QED BY <3>2, <3>3
  <2>11. CASE Remove(p)
    <3>1. req[p].key \in Key
      BY <2>11, <2>t DEF Remove, RequestOK
    <3> QED BY <2>11, <2>t, <3>1, FinishType DEF Remove, TypeOK
  <2>12. CASE Abort(p)
    BY <2>12, <2>t, FinishType DEF Abort, TypeOK
  <2> QED
    BY <1>3, <2>1, <2>2, <2>3, <2>4, <2>5, <2>6, <2>7, <2>8, <2>9, <2>10,
       <2>11, <2>12 DEF Handler
<1> QED BY <1>1, <1>2, <1>3 DEF Next

\* Every reachable state is well typed.
THEOREM TypeCorrect == Spec => []TypeOK
BY TypeInit, TypeStep, PTL DEF Spec

-----------------------------------------------------------------------------
\* RetiredStays

\* A request that would write key k as ACTIVE.
HoldsActive(r, k) ==
    r.pc \in {"insert", "save", "write"} /\ r.key = k /\ r.ent.status = "ACTIVE"

\* No request holds k as ACTIVE after a slot has become one that does not.
LEMMA NoNewHolder ==
    ASSUME TypeOK, NEW k \in Key, \A q \in Proc : ~Holds(q, k),
           NEW p \in Proc, NEW r, Become(p, r), ~HoldsActive(r, k)
    PROVE  \A q \in Proc : ~Holds(q, k)'
BY DEF TypeOK, Become, Holds, HoldsActive

LEMMA NoHolderAtFinish ==
    ASSUME TypeOK, NEW k \in Key, \A q \in Proc : ~Holds(q, k),
           NEW p \in Proc, Finish(p)
    PROVE  \A q \in Proc : ~Holds(q, k)'
<1>1. ~HoldsActive(Idle, k)
  BY DEF Idle, HoldsActive
<1> QED BY <1>1, NoNewHolder DEF Finish

\* A handler that starts to save an entity of some row: it holds k as ACTIVE
\* only if the entity is k's and says ACTIVE.
LEMMA NoHolderAtSave ==
    ASSUME TypeOK, NEW k \in Key, \A q \in Proc : ~Holds(q, k),
           NEW p \in Proc, NEW j, NEW ent, StartSave(p, j, ent),
           j = k => ent.status # "ACTIVE"
    PROVE  \A q \in Proc : ~Holds(q, k)'
<1> DEFINE r == [pc |-> "save", key |-> j, ent |-> ent, loaded |-> NoRow]
<1>1. ~HoldsActive(r, k)
  BY DEF HoldsActive
<1> QED BY <1>1, NoNewHolder DEF StartSave

LEMMA RetiredStep ==
    ASSUME TypeOK, [Next]_vars, NEW k \in Key, Retired(k)
    PROVE  Retired(k)'
<1> USE NumberAssumption
<1>r. /\ Stored(k) \/ k \in deleted
      /\ Stored(k) => rows[k].status # "ACTIVE"
      /\ \A q \in Proc : ~Holds(q, k)
  BY DEF Retired, Usable
<1>q. ASSUME rows' = rows, deleted' = deleted, \A q \in Proc : ~Holds(q, k)'
      PROVE  Retired(k)'
  BY <1>q, <1>r DEF Retired, Usable, Stored
<1>1. CASE UNCHANGED vars
  BY <1>1, <1>q, <1>r DEF vars, Holds
<1>2. CASE Tick
  BY <1>2, <1>q, <1>r DEF Tick, Holds
<1>3. ASSUME NEW p \in Proc, Handler(p) PROVE Retired(k)'
  <2>t. /\ rows \in [Key -> Row \cup {NoRow}] /\ RequestOK(req[p])
        /\ req[p] \in Request
    BY DEF TypeOK
  <2>1. ASSUME NEW t \in Tenant, NEW n \in Name, NEW e \in MaybeTime,
               CountActive(p, t, n, e)
        PROVE  Retired(k)'
    <3> DEFINE r == [pc |-> "generate", key |-> NoKey, loaded |-> NoRow,
                     ent |-> [tenant |-> t, name |-> n, secret |-> 0,
                              status |-> "ACTIVE", expiresAt |-> e,
                              lastUsedAt |-> Never]]
    <3>1. ~HoldsActive(r, k)
      BY DEF HoldsActive
    <3> QED BY <2>1, <1>q, <1>r, <3>1, NoNewHolder DEF CountActive
  <2>2. CASE Generate(p)
    <3>1. PICK j \in Key \ (deleted \cup Drawn) : IF Stored(j) THEN Finish(p)
             ELSE Become(p, [pc |-> "insert", key |-> j, loaded |-> NoRow,
                             ent |-> [req[p].ent EXCEPT !.secret = FreshSecret]])
      BY <2>2 DEF Generate
    <3> DEFINE r == [pc |-> "insert", key |-> j, loaded |-> NoRow,
                     ent |-> [req[p].ent EXCEPT !.secret = FreshSecret]]
    <3>2. ~Stored(j) => j # k
      BY <1>r, <3>1
    <3>3. ~Stored(j) => ~HoldsActive(r, k)
      BY <3>2 DEF HoldsActive
    <3>4. \A q \in Proc : ~Holds(q, k)'
      BY <1>r, <3>1, <3>3, NoNewHolder, NoHolderAtFinish
    <3> QED BY <2>2, <1>q, <3>4 DEF Generate
  <2>3. CASE Insert(p)
    <3>1. \A q \in Proc : ~Holds(q, k)'
      BY <2>3, <1>r, NoHolderAtFinish DEF Insert
    <3>2. req[p].key = k => req[p].ent.status # "ACTIVE"
      BY <2>3, <1>r DEF Insert, Holds
    <3>3. req[p].key \in Key /\ req[p].ent \in Row
      BY <2>3, <2>t DEF Insert, RequestOK
    <3>4. rows'[k] = rows[k] \/ (rows'[k] \in Row /\ rows'[k].status # "ACTIVE")
      BY <2>3, <2>t, <3>2, <3>3 DEF Insert
    <3> QED BY <2>3, <1>r, <3>1, <3>4, NoValueAssumption
            DEF Insert, Retired, Usable, Stored
  <2>4. ASSUME NEW t \in Tenant, NEW j \in Key, ReadForUpdate(p, t, j)
        PROVE  Retired(k)'
    <3>1. PICK n \in Name, e \in Time \cup {rows[j].expiresAt} :
             StartSave(p, j, [rows[j] EXCEPT !.name = n, !.expiresAt = e])
      BY <2>4 DEF ReadForUpdate
    <3>2. rows[j] \in Row
      BY <2>4, <2>t DEF ReadForUpdate, Found, Stored
    <3> DEFINE ent == [rows[j] EXCEPT !.name = n, !.expiresAt = e]
    <3>3. ent.status = rows[j].status
      BY <3>2 DEF Row
    <3>4. j = k => ent.status # "ACTIVE"
      BY <2>4, <1>r, <3>3 DEF ReadForUpdate, Found
    <3>5. \A q \in Proc : ~Holds(q, k)'
      BY <1>r, <3>1, <3>4, NoHolderAtSave
    <3> QED BY <2>4, <1>q, <3>5 DEF ReadForUpdate
  <2>5. ASSUME NEW t \in Tenant, NEW j \in Key, ReadForRevoke(p, t, j)
        PROVE  Retired(k)'
    <3>1. rows[j] \in Row
      BY <2>5, <2>t DEF ReadForRevoke, Found, Stored
    <3> DEFINE ent == [rows[j] EXCEPT !.status = "REVOKED"]
    <3>2. ent.status # "ACTIVE"
      BY <3>1 DEF Row
    <3>3. \A q \in Proc : ~Holds(q, k)'
      BY <2>5, <1>r, <3>2, NoHolderAtSave DEF ReadForRevoke
    <3> QED BY <2>5, <1>q, <3>3 DEF ReadForRevoke
  <2>6. ASSUME NEW t \in Tenant, NEW j \in Key, ReadForRotate(p, t, j)
        PROVE  Retired(k)'
    <3>1. rows[j] \in Row
      BY <2>6, <2>t DEF ReadForRotate, Found, Stored
    <3> DEFINE ent == [rows[j] EXCEPT !.secret = FreshSecret]
    <3>2. ent.status = rows[j].status
      BY <3>1 DEF Row
    <3>3. j = k => ent.status # "ACTIVE"
      BY <2>6, <1>r, <3>2 DEF ReadForRotate, Found
    <3>4. \A q \in Proc : ~Holds(q, k)'
      BY <2>6, <1>r, <3>3, NoHolderAtSave DEF ReadForRotate
    <3> QED BY <2>6, <1>q, <3>4 DEF ReadForRotate
  <2>7. ASSUME NEW t \in Tenant, NEW j \in Key, ReadForDelete(p, t, j)
        PROVE  Retired(k)'
    <3> DEFINE r == [pc |-> "remove", key |-> j, ent |-> rows[j], loaded |-> NoRow]
    <3>1. ~HoldsActive(r, k)
      BY DEF HoldsActive
    <3> QED BY <2>7, <1>q, <1>r, <3>1, NoNewHolder DEF ReadForDelete
  <2>8. ASSUME NEW j \in Key, NEW s \in Secret, Validate(p, j, s)
        PROVE  Retired(k)'
    <3>1. j # k
      BY <2>8, <1>r DEF Validate
    <3>2. \A q \in Proc : ~Holds(q, k)'
      BY <2>8, <1>r, <3>1, NoHolderAtSave DEF Validate
    <3> QED BY <2>8, <1>q, <3>2 DEF Validate
  <2>9. CASE SaveLoad(p)
    <3> DEFINE r == [pc |-> "write", key |-> req[p].key, ent |-> req[p].ent,
                     loaded |-> rows[req[p].key]]
    <3>1. ~HoldsActive(r, k)
      BY <2>9, <1>r DEF SaveLoad, HoldsActive, Holds
    <3> QED BY <2>9, <1>q, <1>r, <3>1, NoNewHolder DEF SaveLoad
  <2>10. CASE SaveWrite(p)
    <3> DEFINE j == req[p].key
               ent == req[p].ent
               loaded == req[p].loaded
    <3>1. \A q \in Proc : ~Holds(q, k)'
      BY <2>10, <1>r, NoHolderAtFinish DEF SaveWrite
    <3>2. ent \in Row /\ j \in Key /\ loaded \in Row \cup {NoRow}
      BY <2>10, <2>t DEF SaveWrite, RequestOK, Request
    <3>3. j = k => ent.status # "ACTIVE"
      BY <2>10, <1>r DEF SaveWrite, Holds
    <3>4. ASSUME j = k, loaded # NoRow, Stored(k)
          PROVE  /\ Merged(ent, loaded, rows[k]) \in Row
                 /\ Merged(ent, loaded, rows[k]).status # "ACTIVE"
      <4>1. rows[k] \in Row
        BY <2>t, <3>4 DEF Stored
      <4>2. Merged(ent, loaded, rows[k]) \in Row
        BY <3>2, <3>4, <4>1, MergedType
      <4> QED BY <1>r, <3>3, <3>4, <4>2 DEF Merged, Column
    <3>5. rows'[k] = rows[k] \/ (rows'[k] \in Row /\ rows'[k].status # "ACTIVE")
      BY <2>10, <2>t, <3>2, <3>3, <3>4 DEF SaveWrite
    <3> QED BY <2>10, <1>r, <3>1, <3>5, NoValueAssumption
            DEF SaveWrite, Retired, Usable, Stored
  <2>11. CASE Remove(p)
    <3>1. \A q \in Proc : ~Holds(q, k)'
      BY <2>11, <1>r, NoHolderAtFinish DEF Remove
    <3>2. req[p].key \in Key
      BY <2>11, <2>t DEF Remove, RequestOK
    <3>3. IF req[p].key = k THEN rows'[k] = NoRow /\ k \in deleted'
          ELSE rows'[k] = rows[k] /\ (k \in deleted => k \in deleted')
      BY <2>11, <2>t, <3>2 DEF Remove
    <3> QED BY <1>r, <3>1, <3>3 DEF Retired, Usable, Stored
  <2>12. CASE Abort(p)
    BY <2>12, <1>q, <1>r, NoHolderAtFinish DEF Abort
  <2> QED
    BY <1>3, <2>1, <2>2, <2>3, <2>4, <2>5, <2>6, <2>7, <2>8, <2>9, <2>10,
       <2>11, <2>12 DEF Handler
<1> QED BY <1>1, <1>2, <1>3 DEF Next

\* A key that is retired stays retired, whatever the requests in flight do.
THEOREM RetirementIsFinal == Spec => RetiredStays
<1>1. TypeOK /\ [Next]_vars => \A k \in Key : Retired(k) => Retired(k)'
  BY RetiredStep
<1>2. TypeOK /\ [Next]_vars => [\A k \in Key : Retired(k) => Retired(k)']_vars
  BY <1>1
<1> QED BY <1>2, TypeCorrect, PTL DEF Spec, RetiredStays

-----------------------------------------------------------------------------
\* SupersededStays

\* A request that would write secret s into the row of key k.
HoldsSecret(r, k, s) ==
    r.pc \in {"insert", "save", "write"} /\ r.key = k /\ r.ent.secret = s

StoresSecret(k, s) == Stored(k) /\ rows[k].secret = s

LEMMA CurrentMeans ==
    ASSUME NEW k \in Key, NEW s
    PROVE  s \in Current(k) <=>
              StoresSecret(k, s) \/ \E p \in Proc : HoldsSecret(req[p], k, s)
BY DEF Current, StoresSecret, HoldsSecret

\* What a save may write: the secret of its entity, or the one that is there.
LEMMA SecretWritten ==
    ASSUME TypeOK, [Next]_vars, NEW k \in Key, NEW s, s \notin Current(k)
    PROVE  ~StoresSecret(k, s)'
<1>1. ~StoresSecret(k, s) /\ \A p \in Proc : ~HoldsSecret(req[p], k, s)
  BY CurrentMeans
<1>2. CASE UNCHANGED rows
  BY <1>1, <1>2 DEF StoresSecret, Stored
<1>t. /\ rows \in [Key -> Row \cup {NoRow}]
      /\ \A p \in Proc : req[p] \in Request /\ RequestOK(req[p])
  BY DEF TypeOK
<1>3. ASSUME NEW p \in Proc, Insert(p)
      PROVE  ~StoresSecret(k, s)'
  <2>1. req[p].key = k => req[p].ent.secret # s
    BY <1>1, <1>3 DEF Insert, HoldsSecret
  <2> QED BY <1>1, <1>3, <1>t, <2>1 DEF Insert, StoresSecret, Stored
<1>4. ASSUME NEW p \in Proc, SaveWrite(p)
      PROVE  ~StoresSecret(k, s)'
  <2> DEFINE ent == req[p].ent
             loaded == req[p].loaded
             merged == Merged(ent, loaded, rows[k])
  <2>1. rows'[k] = rows[k] \/
           /\ req[p].key = k
           /\ IF loaded = NoRow THEN rows'[k] = ent
              ELSE Stored(k) /\ rows'[k] = merged
    BY <1>4, <1>t DEF SaveWrite
  <2>2. req[p].key = k => ent.secret # s
    BY <1>1, <1>4 DEF SaveWrite, HoldsSecret
  <2>3. merged.secret \in {ent.secret, rows[k].secret}
    BY DEF Merged, Column
  <2> HIDE DEF merged
  <2> QED BY <1>1, <2>1, <2>2, <2>3 DEF StoresSecret, Stored
<1>5. ASSUME NEW p \in Proc, Remove(p)
      PROVE  ~StoresSecret(k, s)'
  BY <1>1, <1>5, <1>t DEF Remove, StoresSecret, Stored
<1> QED BY <1>2, <1>3, <1>4, <1>5
        DEF Next, Handler, vars, Tick, CountActive, Generate, ReadForUpdate,
            ReadForRevoke, ReadForRotate, ReadForDelete, Validate, SaveLoad, Abort

\* No request holds s for key k after a slot has become one that does not.
LEMMA NoNewSecret ==
    ASSUME TypeOK, NEW k \in Key, NEW s, s \notin Current(k),
           NEW p \in Proc, NEW r, Become(p, r), ~HoldsSecret(r, k, s)
    PROVE  \A q \in Proc : ~HoldsSecret(req[q], k, s)'
<1>1. \A q \in Proc : ~HoldsSecret(req[q], k, s)
  BY CurrentMeans
<1>2. req'[p] = r /\ \A q \in Proc \ {p} : req'[q] = req[q]
  BY DEF TypeOK, Become
<1> QED BY <1>1, <1>2 DEF HoldsSecret

\* A handler that starts to save a row: with the secret of the row, or a fresh one.
LEMMA NoSecretAtSave ==
    ASSUME TypeOK, NEW k \in Key, NEW s \in 1..issued, s \notin Current(k),
           NEW p \in Proc, NEW j \in Key, Stored(j), NEW ent, StartSave(p, j, ent),
           ent.secret \in {rows[j].secret, FreshSecret}
    PROVE  \A q \in Proc : ~HoldsSecret(req[q], k, s)'
<1> DEFINE r == [pc |-> "save", key |-> j, ent |-> ent, loaded |-> NoRow]
<1>1. j = k => rows[j].secret # s
  BY CurrentMeans DEF StoresSecret
<1>2. s # FreshSecret
  BY NumberAssumption DEF TypeOK, FreshSecret
<1>3. ~HoldsSecret(r, k, s)
  BY <1>1, <1>2 DEF HoldsSecret
<1> QED BY <1>3, NoNewSecret DEF StartSave

LEMMA SecretHeld ==
    ASSUME TypeOK, [Next]_vars, NEW k \in Key, NEW s \in 1..issued,
           s \notin Current(k)
    PROVE  \A q \in Proc : ~HoldsSecret(req[q], k, s)'
<1> DEFINE Free == \A q \in Proc : ~HoldsSecret(req[q], k, s)'
<1>1. \A q \in Proc : ~HoldsSecret(req[q], k, s)
  BY CurrentMeans
<1>2. CASE UNCHANGED req
  BY <1>1, <1>2 DEF HoldsSecret
<1>t. /\ rows \in [Key -> Row \cup {NoRow}] /\ issued \in Nat
      /\ \A p \in Proc : req[p] \in Request /\ RequestOK(req[p])
  BY NumberAssumption DEF TypeOK
<1>3. ASSUME NEW p \in Proc, NEW r, Become(p, r), r.pc \in {"idle", "generate", "remove"}
      PROVE  Free
  BY <1>3, NoNewSecret DEF HoldsSecret
<1>4. ASSUME NEW p \in Proc, Finish(p)
      PROVE  Free
  BY <1>3, <1>4 DEF Finish, Idle
<1>5. ASSUME NEW p \in Proc, NEW t \in Tenant, NEW n \in Name, NEW e \in MaybeTime,
             CountActive(p, t, n, e)
      PROVE  Free
  BY <1>3, <1>5 DEF CountActive
<1>6. ASSUME NEW p \in Proc, Generate(p)
      PROVE  Free
  <2> DEFINE ent == [req[p].ent EXCEPT !.secret = FreshSecret]
             r(j) == [pc |-> "insert", key |-> j, loaded |-> NoRow, ent |-> ent]
  <2>1. PICK j \in Key : Finish(p) \/ Become(p, r(j))
    BY <1>6 DEF Generate
  <2>2. req[p].ent \in Row
    BY <1>6, <1>t DEF Generate, RequestOK
  <2>3. ent.secret # s
    BY <1>t, <2>2 DEF Row, FreshSecret
  <2> HIDE DEF ent
  <2>4. ~HoldsSecret(r(j), k, s)
    BY <2>3 DEF HoldsSecret
  <2> HIDE DEF r
  <2> QED BY <1>4, <2>1, <2>4, NoNewSecret
<1>7. ASSUME NEW p \in Proc, NEW t \in Tenant, NEW j \in Key, Found(p, t, j),
             NEW ent, StartSave(p, j, ent),
             ent.secret \in {rows[j].secret, FreshSecret}
      PROVE  Free
  BY <1>7, NoSecretAtSave DEF Found
<1>8. ASSUME NEW p \in Proc, NEW t \in Tenant, NEW j \in Key,
             \/ ReadForUpdate(p, t, j) \/ ReadForRevoke(p, t, j)
             \/ ReadForRotate(p, t, j)
      PROVE  Free
  <2>1. Found(p, t, j) /\ rows[j] \in Row
    BY <1>8, <1>t DEF ReadForUpdate, ReadForRevoke, ReadForRotate, Found, Stored
  <2>2. CASE ReadForUpdate(p, t, j)
    <3>1. PICK n \in Name, e \in Time \cup {rows[j].expiresAt} :
             StartSave(p, j, [rows[j] EXCEPT !.name = n, !.expiresAt = e])
      BY <2>2 DEF ReadForUpdate
    <3>2. [rows[j] EXCEPT !.name = n, !.expiresAt = e].secret = rows[j].secret
      BY <2>1 DEF Row
    <3> QED BY <1>7, <2>1, <3>1, <3>2
  <2>3. CASE ReadForRevoke(p, t, j)
    <3>1. [rows[j] EXCEPT !.status = "REVOKED"].secret = rows[j].secret
      BY <2>1 DEF Row
    <3> QED BY <1>7, <2>1, <2>3, <3>1 DEF ReadForRevoke
  <2>4. CASE ReadForRotate(p, t, j)
    <3>1. [rows[j] EXCEPT !.secret = FreshSecret].secret = FreshSecret
      BY <2>1 DEF Row
    <3> QED BY <1>7, <2>1, <2>4, <3>1 DEF ReadForRotate
  <2> QED BY <1>8, <2>2, <2>3, <2>4
<1>9. ASSUME NEW p \in Proc, NEW t \in Tenant, NEW j \in Key, ReadForDelete(p, t, j)
      PROVE  Free
  BY <1>3, <1>9 DEF ReadForDelete
<1>10. ASSUME NEW p \in Proc, NEW j \in Key, NEW x \in Secret, Validate(p, j, x)
       PROVE  Free
  <2>1. Stored(j) /\ rows[j] \in Row
    BY <1>10, <1>t DEF Validate, Stored
  <2>2. /\ [rows[j] EXCEPT !.status = "EXPIRED"].secret = rows[j].secret
        /\ [rows[j] EXCEPT !.lastUsedAt = now].secret = rows[j].secret
    BY <2>1 DEF Row
  <2> QED BY <1>10, <2>1, <2>2, NoSecretAtSave DEF Validate
<1>11. ASSUME NEW p \in Proc, SaveLoad(p)
       PROVE  Free
  <2> DEFINE r == [pc |-> "write", key |-> req[p].key, ent |-> req[p].ent,
                   loaded |-> rows[req[p].key]]
  <2>1. ~HoldsSecret(r, k, s)
    BY <1>1, <1>11 DEF SaveLoad, HoldsSecret
  <2> QED BY <1>11, <2>1, NoNewSecret DEF SaveLoad
<1>12. ASSUME NEW p \in Proc, Insert(p) \/ SaveWrite(p) \/ Remove(p) \/ Abort(p)
       PROVE  Free
  BY <1>4, <1>12 DEF Insert, SaveWrite, Remove, Abort
<1> QED BY <1>2, <1>5, <1>6, <1>8, <1>9, <1>10, <1>11, <1>12
        DEF Next, Handler, vars, Tick

\* A secret that was rotated away, and that no request holds, is never the
\* secret of that key again, whatever the stale saves of other handlers write.
THEOREM SupersededSecretsStay == Spec => SupersededStays
<1>1. ASSUME TypeOK, [Next]_vars, NEW k \in Key, NEW s \in 1..issued,
             s \notin Current(k)
      PROVE  s \notin Current(k)'
  <2>1. ~StoresSecret(k, s)' /\ \A q \in Proc : ~HoldsSecret(req[q], k, s)'
    BY <1>1, SecretWritten, SecretHeld
  <2> QED BY <2>1 DEF Current, StoresSecret, HoldsSecret, Stored
<1>2. TypeOK /\ [Next]_vars =>
         [\A k \in Key : \A s \in 1..issued :
             s \notin Current(k) => s \notin Current(k)']_vars
  BY <1>1
<1> QED BY <1>2, TypeCorrect, PTL DEF Spec, SupersededStays
=============================================================================
