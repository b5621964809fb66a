---------------------------- MODULE UsersProofs ----------------------------
(***************************************************************************)
(* Theorems about Users, for every number of requests, replicas and users  *)
(* and every lifetime of a token: its types, its books of deletions, and   *)
(* that a user who is gone stays gone.                                     *)
(***************************************************************************)
EXTENDS Users, TLAPS

-----------------------------------------------------------------------------
\* Types

\* The part of TypeOK about the request slots.
SlotsOK ==
    /\ req \in [Proc -> Request]
    /\ \A p \in Proc : req[p].pc \notin {"idle", "insert"} => req[p].user \in born

\* The part of TypeOK about everything else.
TablesOK ==
    /\ tenant \in BOOLEAN
    /\ born \subseteq User
    /\ users \in [User -> Status \cup {NoRow}]
    /\ deleted \subseteq born
    /\ cache \in [Replica -> [User -> Status \cup {NoEntry}]]
    /\ grant \in [User -> 0..Life]
    /\ announced \subseteq born /\ unannounced \subseteq born
    /\ audited \subseteq deleted /\ lost \subseteq deleted
    /\ cut \subseteq announced \cup unannounced

LEMMA TypeParts == TypeOK <=> TablesOK /\ SlotsOK
BY DEF TypeOK, TablesOK, SlotsOK

\* TypeOK is not inductive without this: rows are of users that were inserted,
\* a deletion has published its event, or failed to, before it may be cut, and is
\* done before it may be lost.
Support ==
    /\ \A u \in User : Stored(u) => u \in born
    /\ \A p \in Proc, u \in User : Deleting(p, u) => u \in announced \cup unannounced
    /\ \A p \in Proc : req[p].pc = "audit" => req[p].user \in deleted

\* What a request holds at each program counter.
LEMMA Held ==
    ASSUME TypeOK, NEW p \in Proc
    PROVE  /\ req[p].pc # "idle" => req[p].at \in Replica
           /\ req[p].pc \notin {"idle", "insert"} =>
                 req[p].user \in User /\ req[p].user \in born
           /\ req[p].pc = "insert" => req[p].op \in {"create", "register"}
           /\ req[p].pc = "fill" => req[p].value \in Status
           /\ req[p].pc \in {"save", "write"} =>
                 req[p].ent \in Status /\ req[p].op \in {"update", "login", "other"}
           /\ req[p].pc = "write" => req[p].loaded \in Status \cup {NoRow}
           /\ req[p].pc = "invalidate" => req[p].op \in {"update", "delete"}
<1>1. req[p] \in Request
  BY DEF TypeOK
<1>2. req[p].pc \notin {"idle", "insert"} => req[p].user \in born /\ born \subseteq User
  BY DEF TypeOK
<1> QED BY <1>1, <1>2 DEF Request

\* The requests that a slot may become.
LEMMA Requests ==
    ASSUME NEW at \in Replica, NEW u \in User
    PROVE  /\ Idle \in Request
           /\ \A op \in {"create", "register"} :
                 [pc |-> "insert", at |-> at, op |-> op] \in Request
           /\ \A pc \in {"cacheNew", "issue", "query", "remove", "audit"} :
                 [pc |-> pc, at |-> at, user |-> u] \in Request
           /\ \A value \in Status :
                 [pc |-> "fill", at |-> at, user |-> u, value |-> value] \in Request
           /\ \A ent \in Status, op \in {"update", "login", "other"} :
                 [pc |-> "save", at |-> at, user |-> u, op |-> op, ent |-> ent]
                    \in Request
           /\ \A ent \in Status, op \in {"update", "login", "other"},
                 loaded \in Status \cup {NoRow} :
                 [pc |-> "write", at |-> at, user |-> u, op |-> op, ent |-> ent,
                  loaded |-> loaded] \in Request
           /\ \A op \in {"update", "delete"} :
                 [pc |-> "invalidate", at |-> at, user |-> u, op |-> op] \in Request
BY DEF Request, Idle

LEMMA BecomeSlots ==
    ASSUME SlotsOK, NEW p \in Proc, NEW r \in Request, Become(p, r),
           born \subseteq born',
           r.pc \notin {"idle", "insert"} => r.user \in born'
    PROVE  SlotsOK'
<1>1. req' \in [Proc -> Request] /\ req'[p] = r
  BY DEF SlotsOK, Become
<1>2. \A q \in Proc \ {p} : req'[q] = req[q]
  BY DEF SlotsOK, Become
<1> QED BY <1>1, <1>2 DEF SlotsOK

LEMMA FinishSlots ==
    ASSUME SlotsOK, NEW p \in Proc, Finish(p), born \subseteq born'
    PROVE  SlotsOK'
<1>1. Idle \in Request /\ Idle.pc = "idle"
  BY DEF Idle, Request
<1> QED BY <1>1, BecomeSlots DEF Finish


LEMMA TypeInit == Init => TypeOK /\ Support
<1>1. Idle \in Request /\ Idle.pc = "idle"
  BY DEF Idle, Request
<1> QED BY <1>1, LifeAssumption, NoValueAssumption
        DEF Init, TypeOK, Support, Deleting, Stored

\* One step of any request, of the clock, of an entry or of the tenant.
LEMMA TypeStep == TypeOK /\ Support /\ [Next]_vars => TypeOK'
<1> SUFFICES ASSUME TypeOK, Support, [Next]_vars PROVE TypeOK'
  OBVIOUS
<1> USE LifeAssumption
<1>t. TablesOK /\ SlotsOK
  BY TypeParts
<1>s. SUFFICES TablesOK' /\ SlotsOK'
  BY DEF TypeOK, TablesOK, SlotsOK
<1>1. CASE UNCHANGED vars
  BY <1>1, <1>t DEF vars, rowVars, logVars, TablesOK, SlotsOK
<1>2. CASE Tick
  BY <1>2, <1>t DEF Tick, rowVars, logVars, TablesOK, SlotsOK
<1>3. CASE DeleteTenant
  BY <1>3, <1>t DEF DeleteTenant, TablesOK, SlotsOK
<1>4. CASE TenantComesBack
  BY <1>4, <1>t DEF TenantComesBack, logVars, TablesOK, SlotsOK
<1>5. ASSUME NEW at \in Replica, NEW u \in User, Expire(at, u)
      PROVE  TablesOK' /\ SlotsOK'
  BY <1>5, <1>t DEF Expire, SetEntry, rowVars, logVars, TablesOK, SlotsOK
<1>6. ASSUME NEW p \in Proc, NEW at \in Replica, Begin(p, at)
      PROVE  TablesOK' /\ SlotsOK'
  <2>1. ASSUME NEW op \in {"create", "register"}, Create(p, at, op)
        PROVE  TablesOK' /\ SlotsOK'
    <3> DEFINE r == [pc |-> "insert", at |-> at, op |-> op]
    <3>1. r \in Request
      BY DEF Request
    <3>2. SlotsOK'
      BY <2>1, <3>1, <1>t, BecomeSlots DEF Create, rowVars
    <3> QED BY <2>1, <3>2, <1>t DEF Create, rowVars, logVars, TablesOK
  <2>2. ASSUME NEW u \in User, Find(p, at, u) \/ Refresh(p, at, u)
        PROVE  TablesOK' /\ SlotsOK'
    <3>1. \A pc \in {"query", "issue"} : [pc |-> pc, at |-> at, user |-> u] \in Request
      BY Requests
    <3>2. u \in born
      BY <2>2 DEF Find, Refresh, Support
    <3>3. SlotsOK'
      BY <2>2, <3>1, <3>2, <1>t, BecomeSlots DEF Find, Refresh, rowVars
    <3> QED BY <2>2, <3>3, <1>t DEF Find, Refresh, rowVars, logVars, TablesOK
  <2>3. ASSUME NEW u \in User, NEW op \in {"update", "login", "other"},
               NEW ent \in Status, StartSave(p, at, u, op, ent)
        PROVE  TablesOK' /\ SlotsOK'
    <3> DEFINE r == [pc |-> "save", at |-> at, user |-> u, op |-> op, ent |-> ent]
    <3>1. r \in Request /\ u \in born
      BY <2>3, Requests DEF StartSave, Support
    <3>2. SlotsOK'
      BY <2>3, <3>1, <1>t, BecomeSlots DEF StartSave, rowVars
    <3> QED BY <2>3, <3>2, <1>t DEF StartSave, rowVars, logVars, TablesOK
  <2>4. ASSUME NEW u \in User, Update(p, at, u) \/ Login(p, at, u) \/ Touch(p, at, u)
        PROVE  TablesOK' /\ SlotsOK'
    <3>1. Stored(u) => users[u] \in Status
      BY <1>t DEF TablesOK, Stored
    <3> QED BY <2>3, <2>4, <3>1 DEF Update, Login, Touch, StartSave, Status
  <2>5. ASSUME NEW u \in User, ReadForDelete(p, at, u)
        PROVE  TablesOK' /\ SlotsOK'
    <3> DEFINE r == [pc |-> "invalidate", at |-> at, user |-> u, op |-> "delete"]
    <3>1. r \in Request /\ u \in born
      BY <2>5, Requests DEF ReadForDelete, Support
    <3>2. SlotsOK'
      BY <2>5, <3>1, <1>t, BecomeSlots DEF ReadForDelete, rowVars
    <3> QED BY <2>5, <3>1, <3>2, <1>t
            DEF ReadForDelete, PublishUserDeleted, rowVars, TablesOK
  <2> QED BY <1>6, <2>1, <2>2, <2>4, <2>5 DEF Begin
<1>7. ASSUME NEW p \in Proc, Continue(p) PROVE TablesOK' /\ SlotsOK'
  <2> DEFINE at == req[p].at
             u == req[p].user
  <2>1. CASE Insert(p)
    <3>1. req[p].pc = "insert" /\ at \in Replica
      BY <2>1, Held DEF Insert
    <3>2. ASSUME Finish(p), UNCHANGED <<users, born>> PROVE TablesOK' /\ SlotsOK'
      BY <2>1, <3>2, <1>t, FinishSlots DEF Insert, logVars, TablesOK
    <3>3. ASSUME NEW v \in User \ born, NEW pc \in {"cacheNew", "issue"},
                 users' = [users EXCEPT ![v] = "ACTIVE"], born' = born \cup {v},
                 Become(p, [pc |-> pc, at |-> at, user |-> v])
          PROVE  TablesOK' /\ SlotsOK'
      <4>1. [pc |-> pc, at |-> at, user |-> v] \in Request
        BY <3>1, Requests
      <4>2. SlotsOK'
        BY <3>3, <4>1, <1>t, BecomeSlots
      <4> QED BY <2>1, <3>3, <4>2, <1>t DEF Insert, logVars, TablesOK, Status
    <3> QED BY <2>1, <3>2, <3>3 DEF Insert
  <2>2. CASE CacheNew(p)
    <3>1. u \in User /\ at \in Replica
      BY <2>2, Held DEF CacheNew
    <3>2. SlotsOK'
      BY <2>2, <1>t, FinishSlots DEF CacheNew, rowVars
    <3> QED BY <2>2, <3>1, <3>2, <1>t
            DEF CacheNew, SetEntry, rowVars, logVars, TablesOK, Status
  <2>3. CASE Issue(p)
    <3>1. SlotsOK'
      BY <2>3, <1>t, FinishSlots DEF Issue, rowVars
    <3>2. Life \in 0..Life
      OBVIOUS
    <3>3. grant' \in [User -> 0..Life]
      BY <2>3, <3>2, <1>t DEF Issue, TablesOK
    <3> QED BY <2>3, <3>1, <3>3, <1>t DEF Issue, rowVars, logVars, TablesOK
  <2>4. CASE Query(p)
    <3>1. u \in born /\ u \in User /\ at \in Replica
      BY <2>4, Held DEF Query
    <3>2. Stored(u) => users[u] \in Status
      BY <3>1, <1>t DEF TablesOK, Stored
    <3> DEFINE r == [pc |-> "fill", at |-> at, user |-> u, value |-> users[u]]
    <3>3. Stored(u) => r \in Request
      BY <3>1, <3>2, Requests
    <3>4. SlotsOK'
      BY <2>4, <3>1, <3>3, <1>t, BecomeSlots, FinishSlots DEF Query, rowVars
    <3> QED BY <2>4, <3>4, <1>t DEF Query, rowVars, logVars, TablesOK
  <2>5. CASE Fill(p)
    <3>1. u \in User /\ at \in Replica /\ req[p].value \in Status
      BY <2>5, Held DEF Fill
    <3>2. SlotsOK'
      BY <2>5, <1>t, FinishSlots DEF Fill, rowVars
    <3> QED BY <2>5, <3>1, <3>2, <1>t DEF Fill, SetEntry, rowVars, logVars, TablesOK
  <2>6. CASE SaveLoad(p)
    <3>1. /\ u \in born /\ u \in User /\ at \in Replica /\ req[p].ent \in Status
          /\ req[p].op \in {"update", "login", "other"}
      BY <2>6, Held DEF SaveLoad
    <3>2. users[u] \in Status \cup {NoRow}
      BY <3>1, <1>t DEF TablesOK
    <3> DEFINE r == [pc |-> "write", at |-> at, user |-> u, op |-> req[p].op,
                     ent |-> req[p].ent, loaded |-> users[u]]
    <3>3. r \in Request
      BY <3>1, <3>2, Requests
    <3>4. SlotsOK'
      BY <2>6, <3>1, <3>3, <1>t, BecomeSlots DEF SaveLoad, rowVars
    <3> QED BY <2>6, <3>4, <1>t DEF SaveLoad, rowVars, logVars, TablesOK
  <2>7. CASE SaveWrite(p)
    <3>1. /\ u \in born /\ u \in User /\ at \in Replica /\ req[p].ent \in Status
          /\ req[p].loaded \in Status \cup {NoRow}
      BY <2>7, Held DEF SaveWrite
    <3>2. users' \in [User -> Status \cup {NoRow}]
      BY <2>7, <3>1, <1>t DEF SaveWrite, SaveFails, Stored, Column, TablesOK
    <3>3. /\ [pc |-> "issue", at |-> at, user |-> u] \in Request
          /\ [pc |-> "invalidate", at |-> at, user |-> u, op |-> "update"] \in Request
      BY <3>1, Requests
    <3>4. SlotsOK'
      BY <2>7, <3>1, <3>3, <1>t, BecomeSlots, FinishSlots DEF SaveWrite, With
    <3> QED BY <2>7, <3>2, <3>4, <1>t DEF SaveWrite, logVars, TablesOK
  <2>8. CASE Invalidate(p)
    <3>1. u \in born /\ u \in User /\ at \in Replica
      BY <2>8, Held DEF Invalidate
    <3>2. [pc |-> "remove", at |-> at, user |-> u] \in Request
      BY <3>1, Requests
    <3>3. SlotsOK'
      BY <2>8, <3>1, <3>2, <1>t, BecomeSlots, FinishSlots DEF Invalidate, With, rowVars
    <3> QED BY <2>8, <3>1, <3>3, <1>t
            DEF Invalidate, SetEntry, rowVars, logVars, TablesOK
  <2>9. CASE Remove(p)
    <3>1. u \in born /\ u \in User /\ at \in Replica
      BY <2>9, Held DEF Remove
    <3>2. [pc |-> "audit", at |-> at, user |-> u] \in Request
      BY <3>1, Requests
    <3>3. SlotsOK'
      BY <2>9, <3>1, <3>2, <1>t, BecomeSlots DEF Remove, With
    <3> QED BY <2>9, <3>1, <3>3, <1>t DEF Remove, logVars, TablesOK
  <2>10. CASE WriteAudit(p)
    <3>1. u \in deleted
      BY <2>10 DEF WriteAudit, Support
    <3>2. SlotsOK'
      BY <2>10, <1>t, FinishSlots DEF WriteAudit, rowVars
    <3> QED BY <2>10, <3>1, <3>2, <1>t DEF WriteAudit, Log, rowVars, TablesOK
  <2> QED BY <1>7, <2>1, <2>2, <2>3, <2>4, <2>5, <2>6, <2>7, <2>8, <2>9, <2>10
          DEF Continue
<1>8. ASSUME NEW p \in Proc, Abort(p) PROVE TablesOK' /\ SlotsOK'
  <2>1. SlotsOK'
    BY <1>8, <1>t, FinishSlots DEF Abort, rowVars
  <2>2. cut' \subseteq announced \cup unannounced /\ lost' \subseteq deleted
    BY <1>8, <1>t, Held DEF Abort, TablesOK, Support, Deleting
  <2> QED BY <1>8, <2>1, <2>2, <1>t DEF Abort, rowVars, TablesOK
<1> QED BY <1>1, <1>2, <1>3, <1>4, <1>5, <1>6, <1>7, <1>8 DEF Next

-----------------------------------------------------------------------------
\* The books of deletions

\* What Support says of one request.
Backed(r) ==
    /\ r.pc = "remove" => r.user \in announced \cup unannounced
    /\ r.pc = "invalidate" /\ r.op = "delete" =>
          r.user \in announced \cup unannounced
    /\ r.pc = "audit" => r.user \in deleted

LEMMA BecomeBacked ==
    ASSUME TypeOK, Support, NEW p \in Proc, NEW r, Become(p, r), Backed(r)',
           announced \subseteq announced', unannounced \subseteq unannounced',
           deleted \subseteq deleted',
           \A u \in User : Stored(u)' => u \in born'
    PROVE  Support'
<1>1. req'[p] = r /\ \A q \in Proc \ {p} : req'[q] = req[q]
  BY DEF TypeOK, Become
<1> QED BY <1>1 DEF Backed, Support, Deleting

LEMMA SupportStep == TypeOK /\ Support /\ [Next]_vars => Support'
<1> SUFFICES ASSUME TypeOK, Support, [Next]_vars PROVE Support'
  OBVIOUS
<1>t. users \in [User -> Status \cup {NoRow}] /\ born \subseteq User
  BY DEF TypeOK
<1>0. ASSUME UNCHANGED <<users, born, deleted, announced, unannounced, req>>
      PROVE  Support'
  BY <1>0 DEF Support, Stored, Deleting
<1>i. Backed(Idle)'
  BY DEF Backed, Idle
<1>1. CASE UNCHANGED vars
  BY <1>0, <1>1 DEF vars, rowVars, logVars
<1>2. CASE Tick \/ TenantComesBack
  BY <1>0, <1>2 DEF Tick, TenantComesBack, rowVars, logVars
<1>3. CASE DeleteTenant
  <2>1. \A u \in User : ~Stored(u)'
    BY <1>3 DEF DeleteTenant, Stored
  <2> QED BY <1>3, <2>1 DEF DeleteTenant, Support, Deleting
<1>4. ASSUME NEW at \in Replica, NEW u \in User, Expire(at, u) PROVE Support'
  BY <1>0, <1>4 DEF Expire, rowVars, logVars
<1>5. ASSUME UNCHANGED <<users, born>> PROVE \A u \in User : Stored(u)' => u \in born'
  BY <1>5 DEF Support, Stored
<1>6. ASSUME NEW p \in Proc, NEW at \in Replica, Begin(p, at) PROVE Support'
  <2>1. ASSUME NEW r, Become(p, r), UNCHANGED <<rowVars, announced, unannounced>>,
               r.pc \in {"insert", "query", "issue", "save"}
        PROVE  Support'
    <3>1. Backed(r)'
      BY <2>1 DEF Backed
    <3> QED BY <2>1, <3>1, <1>5, BecomeBacked DEF rowVars
  <2>2. ASSUME NEW op \in {"create", "register"}, Create(p, at, op) PROVE Support'
    BY <2>1, <2>2 DEF Create, logVars
  <2>3. ASSUME NEW u \in User, \/ Find(p, at, u) \/ Refresh(p, at, u)
                               \/ Update(p, at, u) \/ Login(p, at, u)
                               \/ Touch(p, at, u)
        PROVE  Support'
    BY <2>1, <2>3 DEF Find, Refresh, Update, Login, Touch, StartSave, logVars
  <2>4. ASSUME NEW u \in User, ReadForDelete(p, at, u) PROVE Support'
    <3> DEFINE r == [pc |-> "invalidate", at |-> at, user |-> u, op |-> "delete"]
    <3>1. /\ Backed(r)'
          /\ announced \subseteq announced' /\ unannounced \subseteq unannounced'
      BY <2>4 DEF ReadForDelete, PublishUserDeleted, Backed
    <3> QED BY <2>4, <3>1, <1>5, BecomeBacked DEF ReadForDelete, rowVars
  <2> QED BY <1>6, <2>2, <2>3, <2>4 DEF Begin
<1>7. ASSUME NEW p \in Proc, Continue(p) PROVE Support'
  <2> DEFINE u == req[p].user
  <2>1. ASSUME UNCHANGED <<rowVars, announced, unannounced>>,
               \/ Finish(p)
               \/ \E r : Become(p, r) /\ r.pc \in {"issue", "fill", "write"}
        PROVE  Support'
    <3>1. \A r : r.pc \in {"issue", "fill", "write"} => Backed(r)'
      BY DEF Backed
    <3> QED BY <2>1, <3>1, <1>5, <1>i, BecomeBacked DEF Finish, rowVars
  <2>2. CASE \/ CacheNew(p) \/ Issue(p) \/ Query(p) \/ Fill(p) \/ SaveLoad(p)
             \/ WriteAudit(p)
    BY <2>1, <2>2
       DEF CacheNew, Issue, Query, Fill, SaveLoad, WriteAudit, Log, logVars
  <2>3. CASE Insert(p)
    <3>1. ASSUME NEW v \in User \ born, users' = [users EXCEPT ![v] = "ACTIVE"],
                 born' = born \cup {v}
          PROVE  \A w \in User : Stored(w)' => w \in born'
      BY <3>1, <1>t DEF Support, Stored
    <3>2. \A v, at, pc : pc \in {"cacheNew", "issue"} =>
             Backed([pc |-> pc, at |-> at, user |-> v])'
      BY DEF Backed
    <3>3. UNCHANGED <<announced, unannounced>> /\ deleted' = deleted
      BY <2>3 DEF Insert, logVars
    <3>4. \/ Finish(p) /\ UNCHANGED <<users, born>>
          \/ \E v \in User \ born, pc \in {"cacheNew", "issue"} :
                /\ users' = [users EXCEPT ![v] = "ACTIVE"]
                /\ born' = born \cup {v}
                /\ Become(p, [pc |-> pc, at |-> req[p].at, user |-> v])
      BY <2>3 DEF Insert
    <3> QED BY <3>1, <3>2, <3>3, <3>4, <1>5, <1>i, BecomeBacked DEF Finish
  <2>4. CASE SaveWrite(p)
    <3>1. u \in born /\ u \in User
      BY <2>4, Held DEF SaveWrite
    <3>2. \A w \in User : Stored(w)' => w \in born'
      BY <2>4, <3>1, <1>t DEF SaveWrite, Support, Stored
    <3>3. \A v, at :
             /\ Backed([pc |-> "issue", at |-> at, user |-> v])'
             /\ Backed([pc |-> "invalidate", at |-> at, user |-> v, op |-> "update"])'
      BY DEF Backed
    <3>4. UNCHANGED <<announced, unannounced>> /\ deleted' = deleted
      BY <2>4 DEF SaveWrite, logVars
    <3>5. \/ Finish(p)
          \/ \E v, at : Become(p, [pc |-> "issue", at |-> at, user |-> v])
          \/ \E v, at : Become(p, [pc |-> "invalidate", at |-> at, user |-> v,
                                   op |-> "update"])
      BY <2>4 DEF SaveWrite, With
    <3> QED BY <3>2, <3>3, <3>4, <3>5, <1>i, BecomeBacked DEF Finish
  <2>5. CASE Invalidate(p)
    <3>1. u \in User
      BY <2>5, Held DEF Invalidate
    <3>2. req[p].op = "delete" => u \in announced \cup unannounced
      BY <2>5, <3>1 DEF Invalidate, Support, Deleting
    <3>3. UNCHANGED <<announced, unannounced>> /\ UNCHANGED <<users, born, deleted>>
      BY <2>5 DEF Invalidate, rowVars, logVars
    <3>4. \A v, at : v \in announced \cup unannounced =>
             Backed([pc |-> "remove", at |-> at, user |-> v])'
      BY <3>3 DEF Backed
    <3>5. \/ Finish(p)
          \/ \E v, at : v \in announced \cup unannounced
                         /\ Become(p, [pc |-> "remove", at |-> at, user |-> v])
      BY <2>5, <3>2 DEF Invalidate, With
    <3> QED BY <3>3, <3>4, <3>5, <1>5, <1>i, BecomeBacked DEF Finish
  <2>6. CASE Remove(p)
    <3>1. u \in User
      BY <2>6, Held DEF Remove
    <3>2. \A w \in User : Stored(w)' => w \in born'
      BY <2>6, <3>1, <1>t DEF Remove, Support, Stored
    <3>3. UNCHANGED <<announced, unannounced>> /\ deleted' = deleted \cup {u}
      BY <2>6 DEF Remove, logVars
    <3>4. \A v, at : v \in deleted' => Backed([pc |-> "audit", at |-> at, user |-> v])'
      BY DEF Backed
    <3>5. \E v, at : v \in deleted' /\ Become(p, [pc |-> "audit", at |-> at, user |-> v])
      BY <2>6, <3>3 DEF Remove, With
    <3> QED BY <3>2, <3>3, <3>4, <3>5, BecomeBacked
  <2> QED BY <1>7, <2>2, <2>3, <2>4, <2>5, <2>6 DEF Continue
<1>8. ASSUME NEW p \in Proc, Abort(p) PROVE Support'
  BY <1>8, <1>5, <1>i, BecomeBacked DEF Abort, Finish, rowVars
<1> QED BY <1>1, <1>2, <1>3, <1>4, <1>6, <1>7, <1>8 DEF Next

\* Whatever UserService does, its state has the types of TypeOK (Support makes
\* it inductive).
THEOREM TypesHold == Spec => []TypeOK
<1>1. TypeOK /\ Support /\ [Next]_vars => (TypeOK /\ Support)'
  BY TypeStep, SupportStep
<1> QED BY <1>1, TypeInit, PTL DEF Spec

-----------------------------------------------------------------------------
\* Events and records of deletions

\* Other slots keep what they are doing.
LEMMA OthersKeep ==
    ASSUME TypeOK, NEW p \in Proc, NEW r, Become(p, r)
    PROVE  req'[p] = r /\ \A q \in Proc \ {p} : req'[q] = req[q]
BY DEF TypeOK, Become

\* Stronger than EventsMatchRows, which excuses users who are not stored:
\* without the excuse it is inductive, for a save may store them again.
Accounted ==
    /\ deleted \subseteq announced \cup unannounced
    /\ \A u \in announced :
          u \in cut \/ u \in deleted \/ \E p \in Proc : Deleting(p, u)

\* A step of one request that leaves its own deletion cut, done or going on.
LEMMA AccountedKept ==
    ASSUME TypeOK, Accounted, NEW p \in Proc, NEW r, Become(p, r),
           deleted \subseteq deleted', deleted' \subseteq (announced \cup unannounced)',
           cut \subseteq cut',
           \A u \in announced' : u \in announced \/ Deleting(p, u)',
           \A u : Deleting(p, u) => Deleting(p, u)' \/ u \in cut' \/ u \in deleted'
    PROVE  Accounted'
<1>1. ASSUME NEW u \in announced'
      PROVE  u \in cut' \/ u \in deleted' \/ (\E q \in Proc : Deleting(q, u))'
  <2>1. CASE Deleting(p, u) \/ Deleting(p, u)'
    BY <2>1
  <2>2. CASE u \in announced /\ ~Deleting(p, u)
    <3>1. CASE u \in cut \/ u \in deleted
      BY <3>1
    <3>2. CASE \E q \in Proc : Deleting(q, u)
      <4>1. PICK q \in Proc \ {p} : Deleting(q, u)
        BY <2>2, <3>2
      <4>2. Deleting(q, u)'
        BY <4>1, OthersKeep DEF Deleting
      <4> QED BY <4>2
    <3> QED BY <2>2, <3>1, <3>2 DEF Accounted
  <2> QED BY <2>1, <2>2
<1> QED BY <1>1 DEF Accounted

LEMMA AccountedStep == TypeOK /\ Support /\ Accounted /\ [Next]_vars => Accounted'
<1> SUFFICES ASSUME TypeOK, Support, Accounted, [Next]_vars PROVE Accounted'
  OBVIOUS
<1>0. ASSUME UNCHANGED <<deleted, announced, unannounced, cut, req>> PROVE Accounted'
  BY <1>0 DEF Accounted, Deleting
<1>1. CASE UNCHANGED vars
  BY <1>0, <1>1 DEF vars, rowVars, logVars
<1>2. CASE Tick \/ DeleteTenant \/ TenantComesBack
  BY <1>0, <1>2 DEF Tick, DeleteTenant, TenantComesBack, rowVars, logVars
<1>3. ASSUME NEW at \in Replica, NEW u \in User, Expire(at, u) PROVE Accounted'
  BY <1>0, <1>3 DEF Expire, rowVars, logVars
<1>4. ASSUME NEW p \in Proc, NEW r, Become(p, r), \A u : ~Deleting(p, u),
             UNCHANGED <<deleted, announced, unannounced, cut>>
      PROVE  Accounted'
  BY <1>4, AccountedKept DEF Accounted
<1>5. ASSUME NEW p \in Proc, NEW at \in Replica, Begin(p, at) PROVE Accounted'
  <2>1. req[p].pc = "idle" /\ \A u : ~Deleting(p, u)
    BY <1>5 DEF Begin, Create, Find, Update, Login, Touch, StartSave, Refresh,
                ReadForDelete, Deleting
  <2>2. ASSUME NEW u \in User, ReadForDelete(p, at, u) PROVE Accounted'
    <3> DEFINE r == [pc |-> "invalidate", at |-> at, user |-> u, op |-> "delete"]
    <3>1. Deleting(p, u)'
      BY <2>2, OthersKeep DEF ReadForDelete, Deleting
    <3> QED BY <2>1, <2>2, <3>1, AccountedKept
            DEF ReadForDelete, PublishUserDeleted, rowVars, Accounted
  <2> QED BY <1>4, <1>5, <2>1, <2>2
          DEF Begin, Create, Find, Update, Login, Touch, StartSave, Refresh,
              rowVars, logVars
<1>6. ASSUME NEW p \in Proc, Continue(p) PROVE Accounted'
  <2>1. CASE Insert(p) \/ CacheNew(p) \/ Issue(p) \/ Query(p) \/ Fill(p)
             \/ SaveLoad(p) \/ SaveWrite(p) \/ WriteAudit(p)
    <3>1. \A u : ~Deleting(p, u)
      BY <2>1 DEF Insert, CacheNew, Issue, Query, Fill, SaveLoad, SaveWrite,
                  WriteAudit, Deleting
    <3>2. UNCHANGED <<deleted, announced, unannounced, cut>>
      BY <2>1 DEF Insert, CacheNew, Issue, Query, Fill, SaveLoad, SaveWrite,
                  WriteAudit, rowVars, logVars
    <3>3. \E r : Become(p, r)
      BY <2>1 DEF Insert, CacheNew, Issue, Query, Fill, SaveLoad, SaveWrite,
                  WriteAudit, Finish
    <3> QED BY <1>4, <3>1, <3>2, <3>3
  <2>2. CASE Invalidate(p)
    <3>1. UNCHANGED <<deleted, announced, unannounced, cut>> /\ \E r : Become(p, r)
      BY <2>2 DEF Invalidate, Finish, rowVars, logVars
    <3>2. ASSUME NEW u, Deleting(p, u) PROVE Deleting(p, u)'
      <4>1. Become(p, With(p, "remove")) /\ req[p].user = u
        BY <2>2, <3>2 DEF Invalidate, Deleting
      <4> QED BY <4>1, OthersKeep DEF Deleting, With
    <3> QED BY <3>1, <3>2, AccountedKept DEF Accounted
  <2>3. CASE Remove(p)
    <3>1. req[p].user \in announced \cup unannounced
      BY <2>3, Held DEF Remove, Support, Deleting
    <3> QED BY <2>3, <3>1, AccountedKept DEF Remove, Accounted, Deleting, logVars
  <2> QED BY <1>6, <2>1, <2>2, <2>3 DEF Continue
<1>7. ASSUME NEW p \in Proc, Abort(p) PROVE Accounted'
  BY <1>7, AccountedKept DEF Abort, Accounted, Deleting, Finish, rowVars
<1> QED BY <1>1, <1>2, <1>3, <1>5, <1>6, <1>7 DEF Next

\* Every deletion has its event or the logged error of it, and a user announced
\* as deleted is deleted, is being deleted or was to be deleted by a request that
\* broke off (UserService.delete publishes at line 253, before its remove, and
\* goes on if that fails, line 259).
THEOREM EventsAccounted == Spec => []EventsMatchRows
<1>1. Init => TypeOK /\ Support /\ Accounted
  BY TypeInit DEF Init, Accounted
<1>2. TypeOK /\ Support /\ Accounted /\ [Next]_vars
        => (TypeOK /\ Support /\ Accounted)'
  BY TypeStep, SupportStep, AccountedStep
<1>3. Accounted => EventsMatchRows
  BY DEF Accounted, EventsMatchRows
<1> QED BY <1>1, <1>2, <1>3, PTL DEF Spec

\* A step of one request that puts its own deletion on record, or loses it.
LEMMA RecordsKept ==
    ASSUME TypeOK, DeletionsOnRecord, NEW p \in Proc, NEW r, Become(p, r),
           audited \subseteq audited', lost \subseteq lost',
           \A u \in deleted' : u \in deleted \/ (r.pc = "audit" /\ r.user = u),
           req[p].pc = "audit" => req[p].user \in audited' \cup lost'
    PROVE  DeletionsOnRecord'
<1>1. ASSUME NEW u \in deleted'
      PROVE  u \in audited' \/ u \in lost'
                \/ \E q \in Proc : req'[q].pc = "audit" /\ req'[q].user = u
  <2>1. CASE r.pc = "audit" /\ r.user = u
    BY <2>1, OthersKeep
  <2>2. CASE u \in deleted
    <3>1. CASE \E q \in Proc \ {p} : req[q].pc = "audit" /\ req[q].user = u
      BY <3>1, OthersKeep
    <3> QED BY <2>2, <3>1 DEF DeletionsOnRecord
  <2> QED BY <2>1, <2>2
<1> QED BY <1>1 DEF DeletionsOnRecord

LEMMA RecordsStep == TypeOK /\ DeletionsOnRecord /\ [Next]_vars => DeletionsOnRecord'
<1> SUFFICES ASSUME TypeOK, DeletionsOnRecord, [Next]_vars PROVE DeletionsOnRecord'
  OBVIOUS
<1>0. ASSUME UNCHANGED <<deleted, audited, lost, req>> PROVE DeletionsOnRecord'
  BY <1>0 DEF DeletionsOnRecord
<1>1. CASE UNCHANGED vars
  BY <1>0, <1>1 DEF vars, rowVars, logVars
<1>2. CASE Tick \/ TenantComesBack
  BY <1>0, <1>2 DEF Tick, TenantComesBack, rowVars, logVars
<1>3. CASE DeleteTenant
  BY <1>3 DEF DeleteTenant, DeletionsOnRecord
<1>4. ASSUME NEW at \in Replica, NEW u \in User, Expire(at, u)
      PROVE  DeletionsOnRecord'
  BY <1>0, <1>4 DEF Expire, rowVars, logVars
<1>5. ASSUME NEW p \in Proc, NEW r, Become(p, r), req[p].pc # "audit",
             UNCHANGED <<deleted, audited, lost>>
      PROVE  DeletionsOnRecord'
  BY <1>5, RecordsKept
<1>6. ASSUME NEW p \in Proc, NEW at \in Replica, Begin(p, at)
      PROVE  DeletionsOnRecord'
  BY <1>5, <1>6 DEF Begin, Create, Find, Update, Login, Touch, StartSave, Refresh,
                    ReadForDelete, rowVars, logVars
<1>7. ASSUME NEW p \in Proc, Continue(p) PROVE DeletionsOnRecord'
  <2>1. CASE Insert(p) \/ CacheNew(p) \/ Issue(p) \/ Query(p) \/ Fill(p)
             \/ SaveLoad(p) \/ SaveWrite(p) \/ Invalidate(p)
    <3>1. req[p].pc # "audit"
      BY <2>1 DEF Insert, CacheNew, Issue, Query, Fill, SaveLoad, SaveWrite,
                  Invalidate
    <3>2. UNCHANGED <<deleted, audited, lost>>
      BY <2>1 DEF Insert, CacheNew, Issue, Query, Fill, SaveLoad, SaveWrite,
                  Invalidate, rowVars, logVars
    <3>3. \E r : Become(p, r)
      BY <2>1 DEF Insert, CacheNew, Issue, Query, Fill, SaveLoad, SaveWrite,
                  Invalidate, Finish
    <3> QED BY <1>5, <3>1, <3>2, <3>3
  <2>2. CASE Remove(p)
    BY <2>2, RecordsKept DEF Remove, With, logVars
  <2>3. CASE WriteAudit(p)
    BY <2>3, RecordsKept DEF WriteAudit, Log, Finish, rowVars
  <2> QED BY <1>7, <2>1, <2>2, <2>3 DEF Continue
<1>8. ASSUME NEW p \in Proc, Abort(p) PROVE DeletionsOnRecord'
  BY <1>8, RecordsKept DEF Abort, Finish, rowVars
<1> QED BY <1>1, <1>2, <1>3, <1>4, <1>6, <1>7, <1>8 DEF Next

\* A deletion is on record, or its INSERT is under way, was broken off, or the
\* tenant was deleted (AuditInterceptor writes the record after the response).
THEOREM RecordsAccounted == Spec => []DeletionsOnRecord
<1>1. Init => TypeOK /\ Support /\ DeletionsOnRecord
  BY TypeInit DEF Init, DeletionsOnRecord
<1>2. TypeOK /\ Support /\ DeletionsOnRecord /\ [Next]_vars
        => (TypeOK /\ Support /\ DeletionsOnRecord)'
  BY TypeStep, SupportStep, RecordsStep
<1> QED BY <1>1, <1>2, PTL DEF Spec

-----------------------------------------------------------------------------
\* Users who are gone

\* What GoneForGood asks of a step.
StaysGone(u) ==
    /\ Gone(u)'
    /\ \A at \in Replica : cache'[at][u] \in {cache[at][u], NoEntry}
    /\ grant'[u] <= grant[u]

\* A step of one request that does not bring the user's row with it.
LEMMA GoneKept ==
    ASSUME TypeOK, NEW u \in User, Gone(u), NEW p \in Proc, NEW r, Become(p, r),
           born \subseteq born', users'[u] = NoRow,
           r.pc \in {"cacheNew", "issue", "fill", "save", "write"} => r.user # u
    PROVE  Gone(u)'
<1>1. \A q \in Proc : ~Carries(q, u)'
  BY OthersKeep DEF Gone, Carries
<1> QED BY <1>1 DEF Gone, Stored

LEMMA GoneStep ==
    ASSUME TypeOK, [Next]_vars, NEW u \in User, Gone(u)
    PROVE  StaysGone(u)
<1>t. /\ cache \in [Replica -> [User -> Status \cup {NoEntry}]]
      /\ grant \in [User -> 0..Life]
      /\ users \in [User -> Status \cup {NoRow}]
      /\ Life \in Nat
  BY LifeAssumption DEF TypeOK
<1>g. u \in born /\ users[u] = NoRow /\ ~Stored(u) /\ \A p \in Proc : ~Carries(p, u)
  BY DEF Gone, Stored
<1>c. \A at \in Replica : cache[at][u] \in {cache[at][u], NoEntry}
  OBVIOUS
<1>l. grant[u] \in Nat /\ grant[u] <= grant[u]
  BY <1>t
<1>0. ASSUME UNCHANGED <<cache, grant>>, Gone(u)' PROVE StaysGone(u)
  BY <1>0, <1>c, <1>l DEF StaysGone
<1>e. ASSUME NEW at \in Replica, NEW v \in User, NEW entry, SetEntry(at, v, entry),
             v # u \/ entry = NoEntry
      PROVE  \A a \in Replica : cache'[a][u] \in {cache[a][u], NoEntry}
  BY <1>e, <1>t DEF SetEntry
<1>1. CASE UNCHANGED vars
  BY <1>0, <1>1, <1>g DEF vars, rowVars, Gone, Stored, Carries
<1>2. CASE DeleteTenant
  BY <1>0, <1>2, <1>g DEF DeleteTenant, Gone, Stored, Carries
<1>3. CASE TenantComesBack
  BY <1>0, <1>3, <1>g DEF TenantComesBack, Gone, Stored, Carries
<1>4. CASE Tick
  <2>1. Gone(u)' /\ cache' = cache
    BY <1>4, <1>g DEF Tick, rowVars, Gone, Stored, Carries
  <2>2. grant'[u] <= grant[u]
    BY <1>4, <1>l DEF Tick
  <2> QED BY <2>1, <2>2, <1>c DEF StaysGone
<1>5. ASSUME NEW at \in Replica, NEW v \in User, Expire(at, v) PROVE StaysGone(u)
  <2>1. Gone(u)' /\ grant' = grant
    BY <1>5, <1>g DEF Expire, rowVars, Gone, Stored, Carries
  <2> QED BY <1>5, <1>e, <1>l, <2>1 DEF Expire, StaysGone
<1>6. ASSUME NEW p \in Proc, NEW at \in Replica, Begin(p, at) PROVE StaysGone(u)
  <2>1. ASSUME NEW r, Become(p, r), UNCHANGED <<rowVars, cache, grant>>,
               r.pc \in {"issue", "save"} => r.user # u,
               r.pc \in {"insert", "query", "invalidate", "issue", "save"}
        PROVE  StaysGone(u)
    BY <2>1, <1>0, <1>g, GoneKept DEF rowVars
  <2>2. ASSUME NEW op \in {"create", "register"}, Create(p, at, op)
        PROVE  StaysGone(u)
    BY <2>1, <2>2 DEF Create
  <2>3. ASSUME NEW v \in User, Find(p, at, v) \/ ReadForDelete(p, at, v)
        PROVE  StaysGone(u)
    BY <2>1, <2>3 DEF Find, ReadForDelete
  <2>4. ASSUME NEW v \in User, \/ Update(p, at, v) \/ Login(p, at, v)
                               \/ Touch(p, at, v) \/ Refresh(p, at, v)
        PROVE  StaysGone(u)
    <3>1. v # u
      BY <2>4, <1>g DEF Update, Login, Touch, StartSave, Refresh
    <3> QED BY <2>1, <2>4, <3>1 DEF Update, Login, Touch, StartSave, Refresh
  <2> QED BY <1>6, <2>2, <2>3, <2>4 DEF Begin
<1>7. ASSUME NEW p \in Proc, Continue(p) PROVE StaysGone(u)
  <2> DEFINE v == req[p].user
  <2>1. CASE Insert(p)
    <3>1. Gone(u)'
      <4>1. CASE Finish(p) /\ UNCHANGED <<users, born>>
        BY <4>1, <1>g, GoneKept DEF Finish, Idle
      <4>2. ASSUME NEW w \in User \ born, NEW pc, NEW at,
                   users' = [users EXCEPT ![w] = "ACTIVE"], born' = born \cup {w},
                   Become(p, [pc |-> pc, at |-> at, user |-> w])
            PROVE  Gone(u)'
        BY <4>2, <1>g, <1>t, GoneKept
      <4> QED BY <2>1, <4>1, <4>2 DEF Insert
    <3> QED BY <2>1, <3>1, <1>0 DEF Insert
  <2>2. CASE CacheNew(p) \/ Fill(p)
    <3>1. v # u /\ v \in User /\ req[p].at \in Replica
      BY <2>2, <1>g, Held DEF CacheNew, Fill, Carries
    <3>2. Gone(u)' /\ grant' = grant
      BY <2>2, <1>g, GoneKept DEF CacheNew, Fill, Finish, Idle, rowVars
    <3> QED BY <2>2, <3>1, <3>2, <1>e, <1>l DEF CacheNew, Fill, StaysGone
  <2>3. CASE Issue(p)
    <3>1. v # u
      BY <2>3, <1>g DEF Issue, Carries
    <3>2. Gone(u)' /\ cache' = cache
      BY <2>3, <1>g, GoneKept DEF Issue, Finish, Idle, rowVars
    <3> QED BY <2>3, <3>1, <3>2, <1>t, <1>c, <1>l DEF Issue, StaysGone
  <2>4. CASE Query(p)
    <3>1. Stored(v) => v # u
      BY <1>g
    <3> QED BY <2>4, <3>1, <1>0, <1>g, GoneKept DEF Query, Finish, Idle, rowVars
  <2>5. CASE SaveLoad(p)
    <3>1. v # u
      BY <2>5, <1>g DEF SaveLoad, Carries
    <3> QED BY <2>5, <3>1, <1>0, <1>g, GoneKept DEF SaveLoad, rowVars
  <2>6. CASE SaveWrite(p)
    <3>1. v # u
      BY <2>6, <1>g DEF SaveWrite, Carries
    <3>2. users'[u] = NoRow /\ born' = born
      BY <2>6, <3>1, <1>g, <1>t DEF SaveWrite
    <3>3. Gone(u)'
      BY <2>6, <3>1, <3>2, GoneKept DEF SaveWrite, Finish, Idle, With
    <3> QED BY <2>6, <3>3, <1>0 DEF SaveWrite
  <2>7. CASE Invalidate(p)
    <3>1. v \in User /\ req[p].at \in Replica
      BY <2>7, Held DEF Invalidate
    <3>2. Gone(u)' /\ grant' = grant
      BY <2>7, <1>g, GoneKept DEF Invalidate, Finish, Idle, With, rowVars
    <3> QED BY <2>7, <3>1, <3>2, <1>e, <1>l DEF Invalidate, StaysGone
  <2>8. CASE Remove(p)
    <3>1. users'[u] = NoRow
      BY <2>8, <1>g, <1>t DEF Remove
    <3> QED BY <2>8, <3>1, <1>0, GoneKept DEF Remove, With
  <2>9. CASE WriteAudit(p)
    BY <2>9, <1>0, <1>g, GoneKept DEF WriteAudit, Finish, Idle, rowVars
  <2> QED BY <1>7, <2>1, <2>2, <2>3, <2>4, <2>5, <2>6, <2>7, <2>8, <2>9
          DEF Continue
<1>8. ASSUME NEW p \in Proc, Abort(p) PROVE StaysGone(u)
  BY <1>8, <1>0, <1>g, GoneKept DEF Abort, Finish, Idle, rowVars
<1> QED BY <1>1, <1>2, <1>3, <1>4, <1>5, <1>6, <1>7, <1>8 DEF Next

\* Once a user is not stored and no request carries what it read of the row,
\* no save stores, no lookup caches and no refresh logs in that user again.
THEOREM GoneStaysGone == Spec => GoneForGood
<1>1. TypeOK /\ [Next]_vars => [\A u \in User : Gone(u) =>
          /\ Gone(u)'
          /\ \A at \in Replica : cache'[at][u] \in {cache[at][u], NoEntry}
          /\ grant'[u] <= grant[u]]_vars
  BY GoneStep DEF StaysGone
<1> QED BY <1>1, TypesHold, PTL DEF Spec, GoneForGood
=============================================================================
