--------------------------- MODULE TenantsProofs ---------------------------
(***************************************************************************)
(* Theorems about Tenants, for every number of requests, replicas, tenants *)
(* and slugs: its types, that no two tenants share a slug, and that an     *)
(* onboarding that comes to its end has left every default role.           *)
(***************************************************************************)
EXTENDS Tenants, TLAPS

-----------------------------------------------------------------------------
\* Types

\* The part of TypeOK about the request slots.
SlotsOK ==
    /\ req \in [Proc -> Request]
    /\ \A p \in Proc : req[p].pc \notin {"idle", "insert"} => req[p].tenant \in born

\* The part of TypeOK about the rows of the database.
RowsOK ==
    /\ tenants \in [Tenant -> Row \cup {NoRow}]
    /\ born \subseteq Tenant /\ deleted \subseteq born
    /\ roles \in [Tenant -> SUBSET DefaultRole]
    /\ \A t \in Tenant :
          /\ Stored(t) => t \in born
          /\ ~Stored(t) => roles[t] = {}

StageOK == stage \in [Tenant -> Stage]
CacheOK == cache \in [Replica -> [Tenant -> Row \cup {NoEntry}]]

LEMMA TypeParts == TypeOK <=> RowsOK /\ StageOK /\ CacheOK /\ SlotsOK
BY DEF TypeOK, RowsOK, StageOK, CacheOK, SlotsOK

\* What a request holds at each program counter.
LEMMA Held ==
    ASSUME SlotsOK, RowsOK, NEW p \in Proc
    PROVE  /\ req[p].pc # "idle" => req[p].at \in Replica
           /\ req[p].pc \notin {"idle", "insert"} =>
                 req[p].tenant \in Tenant /\ req[p].tenant \in born
           /\ req[p].pc \in {"insert", "cacheNew", "fill", "checkNewSlug", "save",
                             "write"} => req[p].ent \in Row
           /\ req[p].pc = "write" => req[p].loaded \in Row \cup {NoRow}
           /\ req[p].pc = "checkNewSlug" => [req[p] EXCEPT !.pc = "save"] \in Request
<1>1. req[p] \in Request
  BY DEF SlotsOK
<1>2. req[p].pc \notin {"idle", "insert"} => req[p].tenant \in born
  BY DEF SlotsOK
<1>3. born \subseteq Tenant
  BY DEF RowsOK
<1> QED BY <1>1, <1>2, <1>3 DEF Request

\* The requests that a slot may become.
LEMMA Requests ==
    ASSUME NEW at \in Replica, NEW t \in Tenant, NEW ent \in Row
    PROVE  /\ [pc |-> "insert", at |-> at, ent |-> ent] \in Request
           /\ \A pc \in {"cacheNew", "fill"} :
                 [pc |-> pc, at |-> at, tenant |-> t, ent |-> ent] \in Request
           /\ \A sets \in Status \cup {"same"}, pc \in {"checkNewSlug", "save"} :
                 [pc |-> pc, at |-> at, tenant |-> t, sets |-> sets, ent |-> ent]
                    \in Request
           /\ \A loaded \in Row \cup {NoRow} :
                 [pc |-> "write", at |-> at, tenant |-> t, ent |-> ent,
                  loaded |-> loaded] \in Request
BY DEF Request

\* The requests that hold no row.
LEMMA BareRequests ==
    ASSUME NEW at \in Replica, NEW t \in Tenant
    PROVE  \A pc \in {"welcome", "query", "remove", "invalidate"} :
              [pc |-> pc, at |-> at, tenant |-> t] \in Request
BY DEF Request

LEMMA BecomeSlots ==
    ASSUME SlotsOK, NEW p \in Proc, NEW r \in Request, Become(p, r),
           born \subseteq born',
           r.pc \notin {"idle", "insert"} => r.tenant \in born'
    PROVE  SlotsOK'
<1>1. req' \in [Proc -> Request] /\ req'[p] = r
  BY DEF SlotsOK, Become
<1>2. \A q \in Proc \ {p} : req'[q] = req[q]
  BY DEF SlotsOK, Become
<1> QED BY <1>1, <1>2 DEF SlotsOK

LEMMA FinishSlots ==
    ASSUME SlotsOK, NEW p \in Proc, Finish(p), born \subseteq born'
    PROVE  SlotsOK'
<1>1. Idle \in Request /\ Idle.pc = "idle"
  BY DEF Idle, Request
<1> QED BY <1>1, BecomeSlots DEF Finish

LEMMA SetEntryCache ==
    ASSUME CacheOK, NEW at \in Replica, NEW t \in Tenant,
           NEW entry \in Row \cup {NoEntry}, SetEntry(at, t, entry)
    PROVE  CacheOK'
BY DEF CacheOK, SetEntry

LEMMA SetStageOK ==
    ASSUME StageOK, NEW t \in Tenant, NEW next \in Stage,
           stage' = [stage EXCEPT ![t] = next]
    PROVE  StageOK'
BY DEF StageOK

\* A save writes a row, whatever it has loaded.
LEMMA Written ==
    ASSUME RowsOK, SlotsOK, NEW p \in Proc, SaveWrite(p)
    PROVE  LET t == req[p].tenant IN
           \/ tenants' = tenants
           \/ \E row \in Row :
                 UniqueSlug(t, row) /\ tenants' = [tenants EXCEPT ![t] = row]
<1> DEFINE t == req[p].tenant
           ent == req[p].ent
           loaded == req[p].loaded
<1>1. t \in Tenant /\ ent \in Row /\ loaded \in Row \cup {NoRow}
  BY Held DEF SaveWrite
<1>2. tenants[t] \in Row \cup {NoRow}
  BY <1>1 DEF RowsOK
<1>3. ASSUME loaded # NoRow, Stored(t) PROVE Merged(ent, loaded, tenants[t]) \in Row
  BY <1>1, <1>2, <1>3 DEF Merged, Column, Row, Stored
<1> QED BY <1>1, <1>3 DEF SaveWrite

\* The database keeps its types: one case for each way in which it changes.
LEMMA RowsStep == TypeOK /\ [Next]_vars => RowsOK'
<1> SUFFICES ASSUME TypeOK, [Next]_vars PROVE RowsOK'
  OBVIOUS
<1>t. RowsOK /\ SlotsOK /\ StageOK
  BY TypeParts
<1>0. ASSUME UNCHANGED <<tenants, born, deleted, roles>> PROVE RowsOK'
  BY <1>0, <1>t DEF RowsOK, Stored
<1>1. CASE UNCHANGED vars
  BY <1>0, <1>1 DEF vars
<1>2. ASSUME NEW at \in Replica, NEW t \in Tenant, Expire(at, t) PROVE RowsOK'
  BY <1>0, <1>2 DEF Expire
<1>3. ASSUME NEW t \in Tenant, Onboard(t) \/ OnboardingFails(t) PROVE RowsOK'
  <2>1. CASE SaveRole(t)
    <3>1. stage[t] \in DefaultRole
      BY <2>1 DEF SaveRole
    <3> QED BY <2>1, <3>1, <1>0, <1>t DEF SaveRole, RowsOK, Stored
  <2> QED BY <1>0, <1>3, <2>1 DEF Onboard, FindRoles, FindPermissions, OnboardingFails
<1>4. ASSUME NEW p \in Proc, NEW at \in Replica, Begin(p, at) PROVE RowsOK'
  BY <1>0, <1>4 DEF Begin, CheckSlug, Find, ReadForUpdate, StartUpdate, ReadForDelete
<1>5. ASSUME NEW p \in Proc, Continue(p) PROVE RowsOK'
  <2>1. CASE Insert(p)
    <3>1. req[p].ent \in Row
      BY <2>1, <1>t, Held DEF Insert
    <3>2. ASSUME NEW t \in Tenant \ born, born' = born \cup {t},
                 tenants' = [tenants EXCEPT ![t] = req[p].ent]
          PROVE  RowsOK'
      BY <2>1, <3>1, <3>2, <1>t, NoValueAssumption DEF Insert, RowsOK, Stored
    <3> QED BY <2>1, <3>2, <1>0 DEF Insert
  <2>2. CASE SaveWrite(p)
    <3>1. req[p].tenant \in born
      BY <2>2, <1>t, Held DEF SaveWrite
    <3>2. UNCHANGED <<born, deleted, roles>>
      BY <2>2 DEF SaveWrite
    <3>3. ASSUME NEW row \in Row, tenants' = [tenants EXCEPT ![req[p].tenant] = row]
          PROVE  RowsOK'
      BY <3>1, <3>2, <3>3, <1>t, NoValueAssumption DEF RowsOK, Stored
    <3> QED BY <2>2, <3>2, <3>3, <1>0, <1>t, Written
  <2>3. CASE Remove(p)
    <3>1. req[p].tenant \in born
      BY <2>3, <1>t, Held DEF Remove
    <3> QED BY <2>3, <3>1, <1>t DEF Remove, RowsOK, Stored
  <2> QED BY <1>0, <1>5, <2>1, <2>2, <2>3
          DEF Continue, CacheNew, Welcome, Query, Fill, CheckNewSlug, SaveLoad,
              Invalidate
<1>6. ASSUME NEW p \in Proc, Abort(p) PROVE RowsOK'
  BY <1>0, <1>6 DEF Abort
<1> QED BY <1>1, <1>2, <1>3, <1>4, <1>5, <1>6 DEF Next

LEMMA StageStep == TypeOK /\ [Next]_vars => StageOK'
<1> SUFFICES ASSUME TypeOK, [Next]_vars PROVE StageOK'
  OBVIOUS
<1>t. RowsOK /\ SlotsOK /\ StageOK
  BY TypeParts
<1>0. ASSUME UNCHANGED stage PROVE StageOK'
  BY <1>0, <1>t DEF StageOK
<1>1. ASSUME NEW t \in Tenant, Onboard(t) \/ OnboardingFails(t) PROVE StageOK'
  <2>1. stage[t] \in DefaultRole => RoleAfter[stage[t]] \in Stage
    BY DEF DefaultRole, RoleAfter, Stage
  <2>2. {"skipped", "findPermissions", "failed", FirstRole} \subseteq Stage
    BY DEF Stage, DefaultRole, RoleAfter, FirstRole
  <2> QED BY <1>1, <1>t, <2>1, <2>2, SetStageOK
          DEF Onboard, OnboardingFails, FindRoles, FindPermissions, SaveRole, SetStage
<1>2. ASSUME NEW p \in Proc, Welcome(p) PROVE StageOK'
  <2>1. req[p].tenant \in Tenant /\ "findRoles" \in Stage
    BY <1>2, <1>t, Held DEF Welcome, Stage
  <2> QED BY <1>2, <2>1, <1>t, SetStageOK DEF Welcome
<1>3. CASE UNCHANGED vars
  BY <1>0, <1>3 DEF vars
<1> QED BY <1>0, <1>1, <1>2, <1>3
        DEF Next, Begin, Continue, Abort, Expire, CheckSlug, Find, ReadForUpdate,
            StartUpdate, ReadForDelete, Insert, CacheNew, Query, Fill, CheckNewSlug,
            SaveLoad, SaveWrite, Invalidate, Remove

LEMMA CacheStep == TypeOK /\ [Next]_vars => CacheOK'
<1> SUFFICES ASSUME TypeOK, [Next]_vars PROVE CacheOK'
  OBVIOUS
<1>t. RowsOK /\ SlotsOK /\ CacheOK
  BY TypeParts
<1>0. ASSUME UNCHANGED cache PROVE CacheOK'
  BY <1>0, <1>t DEF CacheOK
<1>1. ASSUME NEW at \in Replica, NEW t \in Tenant, Expire(at, t) PROVE CacheOK'
  BY <1>1, <1>t, SetEntryCache DEF Expire
<1>2. ASSUME NEW p \in Proc, CacheNew(p) \/ Fill(p) \/ Invalidate(p) PROVE CacheOK'
  BY <1>2, <1>t, Held, SetEntryCache DEF CacheNew, Fill, Invalidate
<1>3. CASE UNCHANGED vars
  BY <1>0, <1>3 DEF vars
<1> QED BY <1>0, <1>1, <1>2, <1>3
        DEF Next, Begin, Continue, Abort, Onboard, OnboardingFails, FindRoles,
            FindPermissions, SaveRole, CheckSlug, Find, ReadForUpdate, StartUpdate,
            ReadForDelete, Insert, Welcome, Query, CheckNewSlug, SaveLoad, SaveWrite,
            Remove

LEMMA SlotsStep == TypeOK /\ [Next]_vars => SlotsOK'
<1> SUFFICES ASSUME TypeOK, [Next]_vars PROVE SlotsOK'
  OBVIOUS
<1>t. RowsOK /\ SlotsOK
  BY TypeParts
<1>0. ASSUME UNCHANGED <<born, req>> PROVE SlotsOK'
  BY <1>0, <1>t DEF SlotsOK
<1>r. \A t \in Tenant : Stored(t) => t \in born /\ tenants[t] \in Row
  BY <1>t DEF RowsOK, Stored
<1>1. CASE UNCHANGED vars
  BY <1>0, <1>1 DEF vars
<1>2. ASSUME NEW at \in Replica, NEW t \in Tenant, Expire(at, t) PROVE SlotsOK'
  BY <1>0, <1>2 DEF Expire
<1>3. ASSUME NEW t \in Tenant, Onboard(t) \/ OnboardingFails(t) PROVE SlotsOK'
  BY <1>0, <1>3 DEF Onboard, OnboardingFails, FindRoles, FindPermissions, SaveRole
<1>4. ASSUME NEW p \in Proc, NEW at \in Replica, Begin(p, at) PROVE SlotsOK'
  <2>1. ASSUME NEW s \in Slug, CheckSlug(p, at, s) PROVE SlotsOK'
    <3> DEFINE r == [pc |-> "insert", at |-> at,
                     ent |-> [slug |-> s, status |-> "ACTIVE"]]
    <3>1. r \in Request
      BY DEF Request, Row, Status
    <3> QED BY <2>1, <3>1, <1>t, BecomeSlots DEF CheckSlug
  <2>2. ASSUME NEW t \in Tenant, Find(p, at, t) \/ ReadForDelete(p, at, t)
        PROVE  SlotsOK'
    <3>1. t \in born
      BY <2>2, <1>r DEF Find, ReadForDelete
    <3> QED BY <2>2, <3>1, <1>t, BareRequests, BecomeSlots DEF Find, ReadForDelete
  <2>3. ASSUME NEW t \in Tenant, NEW s \in Slug, NEW sets \in Status \cup {"same"},
               NEW status \in Status, StartUpdate(p, at, t, s, status, sets)
        PROVE  SlotsOK'
    <3> DEFINE ent == [slug |-> s, status |-> status]
               r(pc) == [pc |-> pc, at |-> at, tenant |-> t, sets |-> sets,
                         ent |-> ent]
    <3>1. ent \in Row /\ t \in born
      BY <2>3, <1>r DEF Row, StartUpdate
    <3>2. r("checkNewSlug") \in Request /\ r("save") \in Request
      BY <3>1, Requests
    <3> QED BY <2>3, <3>1, <3>2, <1>t, BecomeSlots DEF StartUpdate
  <2>4. ASSUME NEW t \in Tenant, ReadForUpdate(p, at, t) PROVE SlotsOK'
    <3>1. tenants[t].status \in Status
      BY <2>4, <1>r DEF ReadForUpdate, StartUpdate, Row
    <3> QED BY <2>3, <2>4, <3>1 DEF ReadForUpdate
  <2> QED BY <1>4, <2>1, <2>2, <2>4 DEF Begin
<1>5. ASSUME NEW p \in Proc, Continue(p) PROVE SlotsOK'
  <2>h. /\ req[p].pc # "idle" => req[p].at \in Replica
        /\ req[p].pc \notin {"idle", "insert"} =>
              req[p].tenant \in Tenant /\ req[p].tenant \in born
    BY <1>t, Held
  <2>1. CASE Insert(p)
    <3>1. req[p].ent \in Row
      BY <2>1, <1>t, Held DEF Insert
    <3>2. CASE Finish(p) /\ UNCHANGED born
      BY <3>2, <1>t, FinishSlots
    <3>3. ASSUME NEW t \in Tenant \ born, born' = born \cup {t},
                 Become(p, [pc |-> "cacheNew", at |-> req[p].at, tenant |-> t,
                            ent |-> req[p].ent])
          PROVE  SlotsOK'
      <4> DEFINE r == [pc |-> "cacheNew", at |-> req[p].at, tenant |-> t,
                       ent |-> req[p].ent]
      <4>1. r \in Request
        BY <2>1, <2>h, <3>1, Requests DEF Insert
      <4> QED BY <3>3, <4>1, <1>t, BecomeSlots
    <3> QED BY <2>1, <3>2, <3>3 DEF Insert
  <2>2. CASE CacheNew(p)
    BY <2>2, <2>h, <1>t, BareRequests, BecomeSlots DEF CacheNew
  <2>3. CASE Welcome(p) \/ Fill(p) \/ Invalidate(p)
    BY <2>3, <1>t, FinishSlots DEF Welcome, Fill, Invalidate
  <2>4. CASE Query(p)
    <3> DEFINE t == req[p].tenant
               r == [pc |-> "fill", at |-> req[p].at, tenant |-> t,
                     ent |-> tenants[t]]
    <3>1. Stored(t) => r \in Request
      BY <2>4, <2>h, <1>r, Requests DEF Query
    <3> QED BY <2>4, <2>h, <3>1, <1>t, BecomeSlots, FinishSlots DEF Query
  <2>5. CASE CheckNewSlug(p)
    <3> DEFINE r == [req[p] EXCEPT !.pc = "save"]
    <3>1. r \in Request
      BY <2>5, <1>t, Held DEF CheckNewSlug
    <3>2. r.tenant = req[p].tenant
      BY <2>5, <1>t DEF CheckNewSlug, SlotsOK, Request
    <3>3. ASSUME NEW next \in Request, next.tenant = req[p].tenant, Become(p, next)
          PROVE  SlotsOK'
      BY <2>5, <2>h, <3>3, <1>t, BecomeSlots DEF CheckNewSlug
    <3>4. (Become(p, r) \/ Finish(p)) /\ born' = born
      BY <2>5, Zenon DEF CheckNewSlug
    <3> HIDE DEF r
    <3> QED BY <3>1, <3>2, <3>3, <3>4, <1>t, FinishSlots
  <2>6. CASE SaveLoad(p)
    <3> DEFINE t == req[p].tenant
               r == [pc |-> "write", at |-> req[p].at, tenant |-> t,
                     ent |-> req[p].ent, loaded |-> tenants[t]]
    <3>1. req[p].ent \in Row /\ t \in Tenant /\ t \in born
      BY <2>6, <1>t, Held DEF SaveLoad
    <3>2. tenants[t] \in Row \cup {NoRow}
      BY <3>1, <1>t DEF RowsOK
    <3>3. r \in Request
      BY <2>6, <2>h, <3>1, <3>2, Requests DEF SaveLoad
    <3> QED BY <2>6, <3>1, <3>3, <1>t, BecomeSlots DEF SaveLoad
  <2>7. CASE SaveWrite(p)
    <3> DEFINE r == [pc |-> "invalidate", at |-> req[p].at,
                     tenant |-> req[p].tenant]
    <3>1. r \in Request
      BY <2>7, <2>h, BareRequests DEF SaveWrite
    <3>2. Become(p, r) \/ Finish(p)
      BY <2>7 DEF SaveWrite, Finish
    <3> QED BY <2>7, <2>h, <3>1, <3>2, <1>t, BecomeSlots, FinishSlots DEF SaveWrite
  <2>8. CASE Remove(p)
    BY <2>8, <2>h, <1>t, BareRequests, BecomeSlots DEF Remove
  <2> QED BY <1>5, <2>1, <2>2, <2>3, <2>4, <2>5, <2>6, <2>7, <2>8 DEF Continue
<1>6. ASSUME NEW p \in Proc, Abort(p) PROVE SlotsOK'
  BY <1>6, <1>t, FinishSlots DEF Abort
<1> QED BY <1>1, <1>2, <1>3, <1>4, <1>5, <1>6 DEF Next

LEMMA TypeInit == Init => TypeOK
<1>1. Idle \in Request /\ Idle.pc = "idle" /\ "none" \in Stage
  BY DEF Idle, Request, Stage
<1> QED BY <1>1 DEF Init, TypeOK, Stored

LEMMA TypeStep == TypeOK /\ [Next]_vars => TypeOK'
BY RowsStep, StageStep, CacheStep, SlotsStep
   DEF TypeOK, RowsOK, StageOK, CacheOK, SlotsOK

\* Whatever the two services do, their state has the types of TypeOK.
THEOREM TypesHold == Spec => []TypeOK
BY TypeInit, TypeStep, PTL DEF Spec

-----------------------------------------------------------------------------
\* Slugs

\* A row whose slug is unique may take the place of any other.
LEMMA SlugsStayApart ==
    ASSUME TypeOK, OneTenantPerSlug, NEW t \in Tenant, NEW row,
           UniqueSlug(t, row), tenants' = [tenants EXCEPT ![t] = row]
    PROVE  OneTenantPerSlug'
<1>1. tenants'[t] = row /\ \A other \in Tenant \ {t} : tenants'[other] = tenants[other]
  BY DEF TypeOK
<1> QED BY <1>1 DEF OneTenantPerSlug, UniqueSlug, Stored

LEMMA SlugStep == TypeOK /\ OneTenantPerSlug /\ [Next]_vars => OneTenantPerSlug'
<1> SUFFICES ASSUME TypeOK, OneTenantPerSlug, [Next]_vars PROVE OneTenantPerSlug'
  OBVIOUS
<1>t. RowsOK /\ SlotsOK
  BY TypeParts
<1>0. ASSUME UNCHANGED tenants PROVE OneTenantPerSlug'
  BY <1>0 DEF OneTenantPerSlug, Stored
<1>1. ASSUME NEW p \in Proc, Insert(p) PROVE OneTenantPerSlug'
  BY <1>0, <1>1, SlugsStayApart DEF Insert
<1>2. ASSUME NEW p \in Proc, SaveWrite(p) PROVE OneTenantPerSlug'
  <2>1. req[p].tenant \in Tenant
    BY <1>2, <1>t, Held DEF SaveWrite
  <2> QED BY <1>0, <1>2, <2>1, <1>t, Written, SlugsStayApart
<1>3. ASSUME NEW p \in Proc, Remove(p) PROVE OneTenantPerSlug'
  <2>1. \A t \in Tenant : Stored(t)' => Stored(t) /\ tenants'[t] = tenants[t]
    BY <1>3, <1>t DEF Remove, RowsOK, Stored
  <2> QED BY <2>1 DEF OneTenantPerSlug
<1>4. CASE UNCHANGED vars
  BY <1>0, <1>4 DEF vars
<1> QED BY <1>0, <1>1, <1>2, <1>3, <1>4
        DEF Next, Begin, Continue, Abort, Expire, Onboard, OnboardingFails,
            FindRoles, FindPermissions, SaveRole, CheckSlug, Find, ReadForUpdate,
            StartUpdate, ReadForDelete, CacheNew, Welcome, Query, Fill,
            CheckNewSlug, SaveLoad, Invalidate

\* However create and update overlap, between their look for a slug and their
\* write, no two stored tenants share one: the unique column sees to it.
THEOREM SlugsAreUnique == Spec => []OneTenantPerSlug
<1>1. Init => TypeOK /\ OneTenantPerSlug
  BY TypeInit DEF Init, OneTenantPerSlug, Stored
<1>2. TypeOK /\ OneTenantPerSlug /\ [Next]_vars => (TypeOK /\ OneTenantPerSlug)'
  BY TypeStep, SlugStep
<1> QED BY <1>1, <1>2, PTL DEF Spec

-----------------------------------------------------------------------------
\* Default roles

\* The roles that are there when onboarding has come to a stage.
RolesBefore(s) ==
    CASE s = "member" -> {"admin"}
      [] s = "viewer" -> {"admin", "member"}
      [] s = "done"   -> DefaultRole
      [] OTHER        -> {}

\* RolesComplete needs to know of every stage, not of the last one alone.
Progress ==
    \A t \in Tenant \ deleted : RolesBefore(stage[t]) \subseteq roles[t]

\* The wildcard of admin stands for every permission that a route asks for.
LEMMA AdminMayAll == Required \subseteq Granted("admin")
BY DEF Required, Granted, Wanted, Permission

LEMMA ProgressCompletes == TypeOK /\ Progress => RolesComplete
<1> SUFFICES ASSUME TypeOK, Progress, NEW t \in Tenant \ deleted, stage[t] = "done"
             PROVE  /\ roles[t] = DefaultRole
                    /\ Required \subseteq UNION {Granted(r) : r \in roles[t]}
  BY DEF RolesComplete
<1>1. roles[t] = DefaultRole
  BY DEF TypeOK, Progress, RolesBefore
<1>2. "admin" \in DefaultRole
  BY DEF DefaultRole, RoleAfter
<1>3. Granted("admin") \in {Granted(r) : r \in roles[t]}
  BY <1>1, <1>2
<1> QED BY <1>1, <1>3, AdminMayAll

LEMMA ProgressStep == TypeOK /\ Progress /\ [Next]_vars => Progress'
<1> SUFFICES ASSUME TypeOK, Progress, [Next]_vars PROVE Progress'
  OBVIOUS
<1>t. RowsOK /\ SlotsOK /\ StageOK
  BY TypeParts
<1>0. ASSUME UNCHANGED <<deleted, roles, stage>> PROVE Progress'
  BY <1>0 DEF Progress
\* A stage that asks for no role may begin at any time.
<1>s. ASSUME NEW t \in Tenant, NEW next \in {"findRoles", "findPermissions",
                                             "skipped", "failed", "admin"},
             stage' = [stage EXCEPT ![t] = next], UNCHANGED <<deleted, roles>>
      PROVE  Progress'
  <2>1. RolesBefore(next) = {}
    BY DEF RolesBefore
  <2>2. \A other \in Tenant :
           stage'[other] = IF other = t THEN next ELSE stage[other]
    BY <1>s, <1>t DEF StageOK
  <2> QED BY <1>s, <2>1, <2>2 DEF Progress
<1>1. CASE UNCHANGED vars
  BY <1>0, <1>1 DEF vars
<1>2. ASSUME NEW p \in Proc, Welcome(p) PROVE Progress'
  <2>1. req[p].tenant \in Tenant
    BY <1>2, <1>t, Held DEF Welcome
  <2> QED BY <1>2, <1>s, <2>1 DEF Welcome
<1>3. ASSUME NEW p \in Proc, Remove(p) PROVE Progress'
  <2>1. \A t \in Tenant \ deleted' :
           t \in Tenant \ deleted /\ roles'[t] = roles[t] /\ stage'[t] = stage[t]
    BY <1>3, <1>t DEF Remove, RowsOK
  <2> QED BY <2>1 DEF Progress
<1>4. ASSUME NEW t \in Tenant, SaveRole(t) PROVE Progress'
  <2>1. CASE Stored(t)
    <3>1. stage[t] \in {"admin", "member", "viewer"}
      BY <1>4 DEF SaveRole, DefaultRole, RoleAfter
    <3>2. RolesBefore(RoleAfter[stage[t]]) \subseteq RolesBefore(stage[t]) \cup {stage[t]}
      BY <3>1 DEF RolesBefore, RoleAfter, DefaultRole
    <3>3. \A other \in Tenant :
             /\ other # t => stage'[other] = stage[other] /\ roles'[other] = roles[other]
             /\ stage'[t] = RoleAfter[stage[t]]
             /\ roles'[t] = roles[t] \cup {stage[t]}
             /\ deleted' = deleted
      BY <1>4, <2>1, <1>t DEF SaveRole, SetStage, StageOK, RowsOK
    <3> QED BY <3>2, <3>3 DEF Progress
  <2>2. CASE ~Stored(t)
    BY <1>4, <1>s, <2>2 DEF SaveRole, SetStage
  <2> QED BY <2>1, <2>2
<1>5. ASSUME NEW t \in Tenant, FindRoles(t) \/ FindPermissions(t) \/ OnboardingFails(t)
      PROVE  Progress'
  BY <1>5, <1>s DEF FindRoles, FindPermissions, OnboardingFails, SetStage, FirstRole
<1> QED BY <1>0, <1>1, <1>2, <1>3, <1>4, <1>5
        DEF Next, Begin, Continue, Abort, Expire, Onboard, CheckSlug, Find,
            ReadForUpdate, StartUpdate, ReadForDelete, Insert, CacheNew, Query,
            Fill, CheckNewSlug, SaveLoad, SaveWrite, Invalidate

\* Onboarding is not awaited, but when it comes to its end in a tenant that was
\* not deleted, the three roles are there and admin may call every route.
THEOREM OnboardingCompletes == Spec => []RolesComplete
<1>1. Init => TypeOK /\ Progress
  <2>1. RolesBefore("none") = {}
    BY DEF RolesBefore
  <2> QED BY <2>1, TypeInit DEF Init, Progress
<1>2. TypeOK /\ Progress /\ [Next]_vars => (TypeOK /\ Progress)'
  BY TypeStep, ProgressStep
<1> QED BY <1>1, <1>2, ProgressCompletes, PTL DEF Spec

-----------------------------------------------------------------------------
\* Statuses

\* What a request that carries a row says.
CarriesStatus(r, t, status) ==
    /\ r.pc \in {"cacheNew", "fill", "checkNewSlug", "save", "write"}
    /\ r.tenant = t
    /\ r.ent.status = status

\* The row and the caches, without the requests.
Shows(t, status) ==
    \/ Stored(t) /\ tenants[t].status = status
    \/ \E at \in Replica : cache[at][t] # NoEntry /\ cache[at][t].status = status

LEMMA SaysParts ==
    ASSUME NEW t, NEW status
    PROVE  Says(t, status) <=>
              Shows(t, status) \/ \E p \in Proc : CarriesStatus(req[p], t, status)
BY DEF Says, Shows, CarriesStatus

LEMMA SilenceKept ==
    ASSUME TypeOK, NEW t, NEW status, ~Says(t, status),
           NEW p \in Proc, NEW r, Become(p, r),
           ~CarriesStatus(r, t, status), ~Shows(t, status)'
    PROVE  ~Says(t, status)'
<1>1. req'[p] = r /\ \A q \in Proc \ {p} : req'[q] = req[q]
  BY DEF TypeOK, Become
<1>2. \A q \in Proc : ~CarriesStatus(req'[q], t, status)
  BY <1>1, SaysParts
<1> QED BY <1>2 DEF Says, Shows, CarriesStatus

\* The exception of StatusHolds: an update begins whose payload has the status.
Asked(t, status) ==
    \E p \in Proc : /\ req[p].pc = "idle" /\ req'[p].pc # "idle"
                    /\ Stored(t) /\ req'[p].tenant = t
                    /\ req'[p].sets = status

LEMMA StatusStep ==
    ASSUME TypeOK, [Next]_vars, NEW t \in born, NEW status \in Status,
           ~Says(t, status)
    PROVE  ~Says(t, status)' \/ Asked(t, status)
<1>t. RowsOK /\ CacheOK /\ SlotsOK /\ t \in Tenant
  BY TypeParts DEF RowsOK
<1>s. ~Shows(t, status) /\ \A p \in Proc : ~CarriesStatus(req[p], t, status)
  BY SaysParts
<1>w. ASSUME UNCHANGED <<tenants, cache>> PROVE ~Shows(t, status)'
  BY <1>w, <1>s DEF Shows, Stored
<1>c. ASSUME UNCHANGED tenants, NEW at \in Replica, NEW other \in Tenant, NEW entry,
             SetEntry(at, other, entry),
             other = t => entry = NoEntry \/ entry.status # status
      PROVE  ~Shows(t, status)'
  BY <1>c, <1>s, <1>t DEF Shows, Stored, SetEntry, CacheOK
<1>i. \A other, st : ~CarriesStatus(Idle, other, st)
  BY DEF CarriesStatus, Idle
<1>1. ASSUME UNCHANGED <<tenants, cache, req>> PROVE ~Says(t, status)'
  BY <1>1 DEF Says, Stored
<1>2. ASSUME NEW at \in Replica, NEW other \in Tenant, Expire(at, other)
      PROVE  ~Says(t, status)'
  <2>1. ~Shows(t, status)' /\ req' = req
    BY <1>2, <1>c DEF Expire
  <2> QED BY <2>1, <1>s DEF Says, Shows, CarriesStatus
<1>3. ASSUME NEW p \in Proc, NEW at \in Replica, Begin(p, at)
      PROVE  ~Says(t, status)' \/ Asked(t, status)
  <2>1. CASE \/ \E s \in Slug : CheckSlug(p, at, s)
             \/ \E other \in Tenant : Find(p, at, other) \/ ReadForDelete(p, at, other)
    BY <2>1, <1>w, SilenceKept DEF CheckSlug, Find, ReadForDelete, CarriesStatus
  <2>2. ASSUME NEW other \in Tenant, NEW s \in Slug,
               NEW sets \in Status \cup {"same"}, NEW st,
               StartUpdate(p, at, other, s, st, sets),
               st = IF sets = "same" THEN tenants[other].status ELSE sets
        PROVE  ~Says(t, status)' \/ Asked(t, status)
    <3> DEFINE r == [pc |-> IF s = tenants[other].slug THEN "save" ELSE "checkNewSlug",
                     at |-> at, tenant |-> other, sets |-> sets,
                     ent |-> [slug |-> s, status |-> st]]
    <3>1. Become(p, r) /\ UNCHANGED <<tenants, cache>> /\ Stored(other)
          /\ req[p].pc = "idle"
      BY <2>2 DEF StartUpdate
    <3>2. r.pc # "idle" /\ r.tenant = other /\ r.sets = sets /\ r.ent.status = st
      OBVIOUS
    <3>3. req'[p] = r
      BY <3>1, <1>t DEF Become, SlotsOK
    <3>4. CASE other = t /\ sets = status
      BY <3>1, <3>2, <3>3, <3>4 DEF Asked
    <3>5. CASE ~(other = t /\ sets = status)
      <4>1. ~(other = t /\ st = status)
        BY <2>2, <3>1, <3>5, <1>s DEF Shows
      <4>2. ~CarriesStatus(r, t, status)
        BY <3>2, <4>1 DEF CarriesStatus
      <4> HIDE DEF r
      <4> QED BY <3>1, <4>2, <1>w, SilenceKept
    <3> QED BY <3>4, <3>5
  <2> QED BY <1>3, <2>1, <2>2 DEF Begin, ReadForUpdate
<1>4. ASSUME NEW p \in Proc, Continue(p) PROVE ~Says(t, status)'
  <2> DEFINE own == req[p].tenant
  <2>h. /\ req[p].pc # "idle" => req[p].at \in Replica
        /\ req[p].pc \notin {"idle", "insert"} => own \in Tenant
    BY <1>t, Held
  <2>e. req[p].pc \in {"cacheNew", "fill", "checkNewSlug", "save", "write"} =>
           ~(own = t /\ req[p].ent.status = status)
    BY <1>s DEF CarriesStatus
  <2>1. CASE Insert(p)
    <3>1. CASE Finish(p) /\ UNCHANGED <<tenants, cache>>
      BY <3>1, <1>w, <1>i, SilenceKept DEF Finish
    <3>2. ASSUME NEW new \in Tenant \ born, UNCHANGED cache,
                 tenants' = [tenants EXCEPT ![new] = req[p].ent],
                 Become(p, [pc |-> "cacheNew", at |-> req[p].at, tenant |-> new,
                            ent |-> req[p].ent])
          PROVE  ~Says(t, status)'
      <4>1. new # t
        OBVIOUS
      <4>2. ~Shows(t, status)'
        BY <3>2, <4>1, <1>s, <1>t DEF Shows, Stored, RowsOK
      <4>3. ~CarriesStatus([pc |-> "cacheNew", at |-> req[p].at, tenant |-> new,
                            ent |-> req[p].ent], t, status)
        BY <4>1 DEF CarriesStatus
      <4> QED BY <3>2, <4>2, <4>3, SilenceKept
    <3> QED BY <2>1, <3>1, <3>2 DEF Insert
  <2>2. CASE CacheNew(p)
    <3>1. ~Shows(t, status)'
      BY <2>2, <2>h, <2>e, <1>c DEF CacheNew
    <3> QED BY <2>2, <3>1, SilenceKept DEF CacheNew, CarriesStatus
  <2>3. CASE Fill(p) \/ Invalidate(p)
    <3>1. ~Shows(t, status)'
      BY <2>3, <2>h, <2>e, <1>c DEF Fill, Invalidate
    <3> QED BY <2>3, <3>1, <1>i, SilenceKept DEF Fill, Invalidate, Finish
  <2>4. CASE Welcome(p)
    BY <2>4, <1>w, <1>i, SilenceKept DEF Welcome, Finish
  <2>5. CASE Query(p)
    <3> DEFINE r == [pc |-> "fill", at |-> req[p].at, tenant |-> own,
                     ent |-> tenants[own]]
    <3>1. Stored(own) => ~CarriesStatus(r, t, status)
      BY <1>s DEF CarriesStatus, Shows
    <3> QED BY <2>5, <3>1, <1>w, <1>i, SilenceKept DEF Query, Finish
  <2>6. CASE CheckNewSlug(p)
    <3> DEFINE r == [req[p] EXCEPT !.pc = "save"]
    <3>1. (Become(p, r) \/ Become(p, Idle)) /\ UNCHANGED <<tenants, cache>>
      BY <2>6, Zenon DEF CheckNewSlug, Finish
    <3>2. r.tenant = own /\ r.ent = req[p].ent
      BY <2>6, <1>t DEF CheckNewSlug, SlotsOK, Request
    <3>3. ~CarriesStatus(r, t, status)
      <4> HIDE DEF r
      <4> QED BY <2>6, <2>e, <3>2 DEF CheckNewSlug, CarriesStatus
    <3> HIDE DEF r
    <3> QED BY <3>1, <3>3, <1>w, <1>i, SilenceKept
  <2>7. CASE SaveLoad(p)
    <3> DEFINE r == [pc |-> "write", at |-> req[p].at, tenant |-> own,
                     ent |-> req[p].ent, loaded |-> tenants[own]]
    <3>1. ~CarriesStatus(r, t, status)
      BY <2>7, <2>e DEF SaveLoad, CarriesStatus
    <3> QED BY <2>7, <3>1, <1>w, SilenceKept DEF SaveLoad
  <2>8. CASE SaveWrite(p)
    <3>1. req[p].ent \in Row
      BY <2>8, <1>t, Held DEF SaveWrite
    <3>2. ASSUME NEW loaded, Stored(own), own = t
          PROVE  Merged(req[p].ent, loaded, tenants[own]).status # status
      BY <2>8, <3>2, <2>e, <1>s DEF SaveWrite, Shows, Merged, Column
    <3>3. tenants' = tenants
             \/ \E row : /\ tenants' = [tenants EXCEPT ![own] = row]
                         /\ own = t => row.status # status
      BY <2>8, <2>e, <3>2 DEF SaveWrite
    <3>4. ~Shows(t, status)'
      BY <2>8, <2>h, <3>3, <1>s, <1>t DEF SaveWrite, Shows, Stored, RowsOK
    <3>5. \/ Become(p, Idle)
          \/ Become(p, [pc |-> "invalidate", at |-> req[p].at, tenant |-> own])
      BY <2>8 DEF SaveWrite
    <3> QED BY <3>4, <3>5, <1>i, SilenceKept DEF CarriesStatus
  <2>9. CASE Remove(p)
    <3>1. ~Shows(t, status)'
      BY <2>9, <2>h, <1>s, <1>t DEF Remove, Shows, Stored, RowsOK
    <3> QED BY <2>9, <3>1, SilenceKept DEF Remove, CarriesStatus
  <2> QED BY <1>4, <2>1, <2>2, <2>3, <2>4, <2>5, <2>6, <2>7, <2>8, <2>9 DEF Continue
<1>5. ASSUME NEW p \in Proc, Abort(p) PROVE ~Says(t, status)'
  BY <1>5, <1>w, <1>i, SilenceKept DEF Abort, Finish
<1>6. ASSUME NEW other \in Tenant, Onboard(other) \/ OnboardingFails(other)
      PROVE  ~Says(t, status)'
  <2>1. UNCHANGED <<tenants, cache, req>>
    BY <1>6 DEF Onboard, OnboardingFails, FindRoles, FindPermissions, SaveRole
  <2> QED BY <1>1, <2>1
<1>7. ASSUME UNCHANGED vars PROVE ~Says(t, status)'
  BY <1>1, <1>7 DEF vars
<1> QED BY <1>2, <1>3, <1>4, <1>5, <1>6, <1>7 DEF Next

\* A status that neither the row nor a cache nor a request in flight has comes
\* back only with an update of the stored tenant that asks for it.
THEOREM StatusesHold == Spec => StatusHolds
<1>1. TypeOK /\ [Next]_vars =>
         [\A t \in born, status \in Status : ~Says(t, status) =>
             \/ ~Says(t, status)'
             \/ \E p \in Proc : /\ req[p].pc = "idle" /\ req'[p].pc # "idle"
                                /\ Stored(t) /\ req'[p].tenant = t
                                /\ req'[p].sets = status]_vars
  BY StatusStep DEF Asked
<1> QED BY <1>1, TypesHold, PTL DEF Spec, StatusHolds
=============================================================================
