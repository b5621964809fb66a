----------------------------- MODULE RbacProofs -----------------------------
(***************************************************************************)
(* Theorems about Rbac, for every number of requests, replicas, users,     *)
(* roles, names and permissions: its types, what a replica may still serve *)
(* when an assignment or a removal returns, and that a role which was      *)
(* taken from a user comes back only by a request for that role.           *)
(***************************************************************************)
EXTENDS Rbac, TLAPS

-----------------------------------------------------------------------------
\* The parts of the type invariant

TablesOK ==
    /\ users \subseteq User
    /\ roles \in [Role -> Row \cup {NoRow}]
    /\ gone \subseteq Role \ StoredRoles
    /\ userRoles \in [User -> SUBSET StoredRoles]
    /\ \A u \in User \ users : userRoles[u] = {}

CachesOK == cache \in [Replica -> [User -> [Kind -> Entry \cup {NoEntry}]]]

RequestsOK == req \in [Proc -> Request]

LEMMA TypeParts == TypeOK <=> TablesOK /\ CachesOK /\ RequestsOK
BY DEF TypeOK, TablesOK, CachesOK, RequestsOK

\* What a request holds at each program counter.
LEMMA Held ==
    ASSUME NEW r \in Request
    PROVE  /\ r.pc \in PC \cup {"idle", "remove"}
           /\ r.pc # "idle" => r.at \in Replica
           /\ r.pc \in PC => r.user \in User
           /\ r.pc \in {"remove", "save"} => r.role \in Role
           /\ r.pc \in {"query", "fill"} => r.kind \in Kind
           /\ r.pc = "fill" => r.value \in Value
           /\ r.pc \in {"save", "write"} => r.ent \in SUBSET Role
           /\ r.pc = "write" => r.found \in BOOLEAN /\ r.loaded \in SUBSET Role
           /\ r.pc = "invalidate" => r.todo \in SUBSET Kind
BY DEF Request, PC

LEMMA HeldBy ==
    ASSUME TypeOK, NEW p \in Proc
    PROVE  req[p] \in Request
BY DEF TypeOK

LEMMA Became ==
    ASSUME TypeOK, NEW p \in Proc, NEW r, Become(p, r)
    PROVE  req'[p] = r /\ \A q \in Proc \ {p} : req'[q] = req[q]
BY DEF TypeOK, Become

LEMMA BecomeRequests ==
    ASSUME TypeOK, NEW p \in Proc, NEW r \in Request, Become(p, r)
    PROVE  RequestsOK'
BY DEF TypeOK, Become, RequestsOK

LEMMA IdleRequest == Idle \in Request /\ Idle.pc = "idle"
BY DEF Idle, Request

LEMMA FinishRequests ==
    ASSUME TypeOK, NEW p \in Proc, Finish(p)
    PROVE  RequestsOK'
BY IdleRequest, BecomeRequests DEF Finish

\* The database answers with names or with permissions.
LEMMA AnswerType ==
    ASSUME TypeOK, NEW u \in User, NEW kind \in Kind
    PROVE  Answer(u, kind) \in Value
<1>1. \A r \in userRoles[u] : roles[r].name \in Name /\ roles[r].perms \in SUBSET Perm
  BY DEF TypeOK, StoredRoles, Row
<1> QED BY <1>1 DEF Answer, Value, Kind

-----------------------------------------------------------------------------
\* What the actions make of a request

LEMMA StartSaveRequests ==
    ASSUME TypeOK, NEW p \in Proc, NEW at \in Replica, NEW u \in User,
           NEW r \in Role, NEW ent \in SUBSET Role, StartSave(p, at, u, r, ent)
    PROVE  RequestsOK'
<1> DEFINE request == [pc |-> "save", at |-> at, user |-> u, role |-> r, ent |-> ent]
<1>1. request \in Request
  BY DEF Request
<1> QED BY <1>1, BecomeRequests DEF StartSave

LEMMA BeginRequests ==
    ASSUME TypeOK, NEW p \in Proc, NEW at \in Replica, Begin(p, at)
    PROVE  RequestsOK'
<1>1. ASSUME NEW u \in User, NEW kind \in Kind, LookUp(p, at, u, kind)
      PROVE  RequestsOK'
  <2> DEFINE request == [pc |-> "query", at |-> at, user |-> u, kind |-> kind]
  <2>1. request \in Request
    BY DEF Request
  <2> QED BY <1>1, <2>1, BecomeRequests DEF LookUp
<1>2. ASSUME NEW u \in User, NEW r \in Role,
             AssignRole(p, at, u, r) \/ RemoveRole(p, at, u, r)
      PROVE  RequestsOK'
  <2>1. userRoles[u] \subseteq Role
    BY DEF TypeOK, StoredRoles
  <2> QED BY <1>2, <2>1, StartSaveRequests DEF AssignRole, RemoveRole
<1>3. ASSUME NEW r \in Role, ReadForDelete(p, at, r)
      PROVE  RequestsOK'
  <2> DEFINE request == [pc |-> "remove", at |-> at, role |-> r]
  <2>1. request \in Request
    BY DEF Request
  <2> QED BY <1>3, <2>1, BecomeRequests DEF ReadForDelete
<1> QED BY <1>1, <1>2, <1>3 DEF Begin

LEMMA ContinueRequests ==
    ASSUME TypeOK, NEW p \in Proc, Continue(p)
    PROVE  RequestsOK'
<1>1. CASE Query(p)
  <2>1. CASE req[p].user \notin users
    BY <1>1, <2>1, FinishRequests DEF Query
  <2>2. CASE req[p].user \in users
    <3> DEFINE u == req[p].user
               kind == req[p].kind
               value == Answer(u, kind)
               request == [pc |-> "fill", at |-> req[p].at, user |-> u,
                           kind |-> kind, value |-> value]
    <3>1. req[p].at \in Replica /\ u \in User /\ kind \in Kind
      BY <1>1, Held, HeldBy DEF Query, PC
    <3>2. value \in Value
      BY <3>1, AnswerType
    <3>3. Become(p, request)
      BY <1>1, <2>2 DEF Query
    <3> HIDE DEF value, u, kind
    <3>4. request \in Request
      BY <3>1, <3>2 DEF Request
    <3> QED BY <3>3, <3>4, BecomeRequests
  <2> QED BY <2>1, <2>2
<1>2. CASE Fill(p)
  BY <1>2, FinishRequests DEF Fill
<1>3. CASE SaveLoad(p)
  <2> DEFINE u == req[p].user
             found == u \in users
             request == [pc |-> "write", at |-> req[p].at, user |-> u,
                         ent |-> req[p].ent, found |-> found,
                         loaded |-> userRoles[u]]
  <2>1. req[p].at \in Replica /\ u \in User /\ req[p].ent \in SUBSET Role
    BY <1>3, Held, HeldBy DEF SaveLoad, PC
  <2>2. userRoles[u] \in SUBSET Role /\ found \in BOOLEAN
    BY <2>1 DEF TypeOK, StoredRoles
  <2>3. Become(p, request)
    BY <1>3 DEF SaveLoad
  <2> HIDE DEF u, found
  <2>4. request \in Request
    BY <2>1, <2>2 DEF Request
  <2> QED BY <2>3, <2>4, BecomeRequests
<1>4. CASE SaveWrite(p)
  <2>1. CASE SaveFails(p)
    BY <1>4, <2>1, FinishRequests DEF SaveWrite
  <2>2. CASE ~SaveFails(p)
    <3> DEFINE request == [pc |-> "invalidate", at |-> req[p].at,
                           user |-> req[p].user, todo |-> Kind]
    <3>1. req[p].at \in Replica /\ req[p].user \in User
      BY <1>4, Held, HeldBy DEF SaveWrite, PC
    <3>2. Become(p, request)
      BY <1>4, <2>2 DEF SaveWrite
    <3>3. request \in Request
      BY <3>1 DEF Request
    <3> QED BY <3>2, <3>3, BecomeRequests
  <2> QED BY <2>1, <2>2
<1>5. ASSUME NEW kind \in Kind, Invalidate(p, kind)
      PROVE  RequestsOK'
  <2> DEFINE left == req[p].todo \ {kind}
             request == [req[p] EXCEPT !.todo = left]
  <2>1. req[p] \in [pc : {"invalidate"}, at : Replica, user : User, todo : SUBSET Kind]
    BY <1>5, HeldBy DEF Invalidate, Request
  <2>2. left \in SUBSET Kind
    BY <2>1
  <2> HIDE DEF left
  <2>3. request \in Request
    BY <2>1, <2>2 DEF Request
  <2>4. Become(p, IF left = {} THEN Idle ELSE request)
    BY <1>5 DEF Invalidate, Invalidated, left
  <2> QED BY <2>3, <2>4, IdleRequest, BecomeRequests
<1>6. CASE RemoveRow(p)
  BY <1>6, FinishRequests DEF RemoveRow
<1> QED BY <1>1, <1>2, <1>3, <1>4, <1>5, <1>6 DEF Continue

LEMMA RequestsStep == TypeOK /\ [Next]_vars => RequestsOK'
<1> SUFFICES ASSUME TypeOK, [Next]_vars PROVE RequestsOK'
  OBVIOUS
<1>1. CASE UNCHANGED req
  BY <1>1 DEF TypeOK, RequestsOK
<1>2. ASSUME NEW p \in Proc, Continue(p)
      PROVE  RequestsOK'
  BY <1>2, ContinueRequests
<1>3. ASSUME NEW p \in Proc, Abort(p)
      PROVE  RequestsOK'
  BY <1>3, FinishRequests DEF Abort
<1>4. ASSUME NEW p \in Proc, NEW at \in Replica, Begin(p, at)
      PROVE  RequestsOK'
  BY <1>4, BeginRequests
<1>5. ASSUME NEW at \in Replica, Restart(at)
      PROVE  RequestsOK'
  BY <1>5, IdleRequest DEF Restart, TypeOK, RequestsOK
<1> QED BY <1>1, <1>2, <1>3, <1>4, <1>5
        DEF Next, vars, Expire, CreateRole, DeleteUser

-----------------------------------------------------------------------------
\* The tables

\* The UPDATE and the rows of user_roles of one save.
LEMMA SaveTables ==
    ASSUME TypeOK, NEW p \in Proc, SaveWrite(p)
    PROVE  TablesOK'
<1>1. CASE SaveFails(p)
  BY <1>1 DEF SaveWrite, TypeOK, TablesOK, StoredRoles
<1>2. CASE ~SaveFails(p)
  <2> DEFINE u == req[p].user
             kept == userRoles[u] \ Dropped(p)
  <2>1. u \in User
    BY Held, HeldBy DEF SaveWrite, PC
  <2>2. /\ roles' = roles /\ gone' = gone
        /\ users' = IF req[p].found THEN users ELSE users \cup {u}
        /\ userRoles' = [userRoles EXCEPT ![u] = kept \cup Added(p)]
    BY <1>2 DEF SaveWrite
  <2>3. Added(p) \subseteq StoredRoles /\ StoredRoles' = StoredRoles
    BY <1>2, <2>2 DEF SaveFails, StoredRoles
  <2>4. userRoles[u] \in SUBSET StoredRoles /\ kept \in SUBSET StoredRoles
    BY <2>1 DEF TypeOK
  <2>5. userRoles' \in [User -> SUBSET StoredRoles]
    BY <2>1, <2>2, <2>3, <2>4 DEF TypeOK
  <2>6. ASSUME u \notin users'
        PROVE  userRoles'[u] = {}
    <3>1. req[p].found /\ u \notin users
      BY <2>2, <2>6
    <3>2. Added(p) = {} /\ userRoles[u] = {}
      BY <1>2, <2>1, <3>1 DEF SaveFails, TypeOK
    <3> QED BY <2>1, <2>2, <3>2 DEF TypeOK
  <2>7. \A v \in User \ users' : userRoles'[v] = {}
    BY <2>1, <2>2, <2>6 DEF TypeOK
  <2> QED BY <2>1, <2>2, <2>3, <2>5, <2>7 DEF TypeOK, TablesOK
<1> QED BY <1>1, <1>2

LEMMA TablesStep == TypeOK /\ [Next]_vars => TablesOK'
<1> SUFFICES ASSUME TypeOK, [Next]_vars PROVE TablesOK'
  OBVIOUS
<1>1. CASE UNCHANGED <<users, roles, gone, userRoles>>
  BY <1>1 DEF TypeOK, TablesOK, StoredRoles
<1>2. ASSUME NEW p \in Proc, SaveWrite(p)
      PROVE  TablesOK'
  BY <1>2, SaveTables
<1>3. ASSUME NEW p \in Proc, RemoveRow(p)
      PROVE  TablesOK'
  <2> DEFINE r == req[p].role
  <2>1. r \in Role
    BY <1>3, Held, HeldBy DEF RemoveRow
  <2>2. /\ roles' = [roles EXCEPT ![r] = NoRow] /\ gone' = gone \cup {r}
        /\ userRoles' = [u \in User |-> userRoles[u] \ {r}] /\ users' = users
    BY <1>3 DEF RemoveRow
  <2>3. StoredRoles' = StoredRoles \ {r}
    BY <2>1, <2>2 DEF TypeOK, StoredRoles
  <2> QED BY <2>1, <2>2, <2>3 DEF TypeOK, TablesOK
<1>4. ASSUME NEW r \in Role, NEW name \in Name, NEW perms \in SUBSET Perm,
             CreateRole(r, name, perms)
      PROVE  TablesOK'
  <2> DEFINE row == [name |-> name, perms |-> perms, isSystem |-> FALSE]
  <2>0. row \in Row
    BY DEF Row
  <2> HIDE DEF row
  <2>1. row # NoRow
    BY <2>0, NoValueAssumption
  <2>2. /\ roles' = [roles EXCEPT ![r] = row] /\ r \notin gone
        /\ UNCHANGED <<users, gone, userRoles>>
    BY <1>4 DEF CreateRole, row
  <2>3. StoredRoles' = StoredRoles \cup {r}
    BY <2>1, <2>2 DEF TypeOK, StoredRoles
  <2> QED BY <2>0, <2>2, <2>3 DEF TypeOK, TablesOK
<1>5. ASSUME NEW u \in User, DeleteUser(u)
      PROVE  TablesOK'
  BY <1>5 DEF DeleteUser, TypeOK, TablesOK, StoredRoles
<1> QED BY <1>1, <1>2, <1>3, <1>4, <1>5
        DEF Next, Continue, Begin, vars, Query, Fill, SaveLoad, Invalidate, Abort,
            LookUp, AssignRole, RemoveRole, StartSave, ReadForDelete, Expire, Restart

-----------------------------------------------------------------------------
\* The caches

\* The entries of a user at a replica are replaced, and no others.
LEMMA EntriesSet ==
    ASSUME TypeOK, NEW at \in Replica, NEW u \in User,
           NEW f \in [Kind -> Entry \cup {NoEntry}],
           cache' = [cache EXCEPT ![at][u] = f]
    PROVE  /\ CachesOK'
           /\ \A a \in Replica, v \in User :
                 cache'[a][v] = IF a = at /\ v = u THEN f ELSE cache[a][v]
BY DEF TypeOK, CachesOK

LEMMA EntrySet ==
    ASSUME TypeOK, NEW at \in Replica, NEW u \in User, NEW kind \in Kind,
           NEW entry \in Entry \cup {NoEntry}, SetEntry(at, u, kind, entry)
    PROVE  /\ CachesOK'
           /\ \A a \in Replica, v \in User, k \in Kind :
                 cache'[a][v][k] = IF a = at /\ v = u /\ k = kind THEN entry
                                   ELSE cache[a][v][k]
<1> DEFINE f == [cache[at][u] EXCEPT ![kind] = entry]
<1>1. cache[at][u] \in [Kind -> Entry \cup {NoEntry}]
  BY DEF TypeOK
<1>2. f \in [Kind -> Entry \cup {NoEntry}]
  BY <1>1
<1>3. cache' = [cache EXCEPT ![at][u] = f]
  BY DEF SetEntry, TypeOK
<1>4. \A k \in Kind : f[k] = IF k = kind THEN entry ELSE cache[at][u][k]
  BY <1>1
<1> HIDE DEF f
<1>5. /\ CachesOK'
      /\ \A a \in Replica, v \in User :
            cache'[a][v] = IF a = at /\ v = u THEN f ELSE cache[a][v]
  BY <1>2, <1>3, EntriesSet
<1> QED BY <1>4, <1>5

\* The history of an entry: a save joins it, or is forgotten.
LEMMA EntryMarked ==
    ASSUME NEW entry \in Entry, NEW saves \in SUBSET Proc
    PROVE  /\ [entry EXCEPT !.outlived = saves] \in Entry
           /\ [entry EXCEPT !.outlived = saves].outlived = saves
BY DEF Entry

\* The entries that the save of p finds at its replica have outlived it.
LEMMA SavedCaches ==
    ASSUME TypeOK, NEW p \in Proc, SaveWrite(p), ~SaveFails(p)
    PROVE  /\ CachesOK'
           /\ \A a \in Replica, v \in User, k \in Kind :
                 IF a = req[p].at /\ v = req[p].user /\ cache[a][v][k] # NoEntry
                 THEN /\ cache'[a][v][k] # NoEntry
                      /\ cache'[a][v][k].outlived = cache[a][v][k].outlived \cup {p}
                 ELSE cache'[a][v][k] = cache[a][v][k]
<1> DEFINE at == req[p].at
           u == req[p].user
           f == [k \in Kind |->
                   IF cache[at][u][k] = NoEntry THEN NoEntry
                   ELSE [cache[at][u][k] EXCEPT !.outlived = @ \cup {p}]]
<1>1. at \in Replica /\ u \in User
  BY Held, HeldBy DEF SaveWrite, PC
<1>2. \A k \in Kind : cache[at][u][k] \in Entry \cup {NoEntry}
  BY <1>1 DEF TypeOK
<1>3. ASSUME NEW k \in Kind, cache[at][u][k] # NoEntry
      PROVE  f[k] \in Entry /\ f[k].outlived = cache[at][u][k].outlived \cup {p}
  <2> DEFINE entry == cache[at][u][k]
             saves == entry.outlived \cup {p}
  <2>1. entry \in Entry
    BY <1>2, <1>3
  <2>2. saves \in SUBSET Proc
    BY <2>1 DEF Entry
  <2>3. f[k] = [entry EXCEPT !.outlived = saves]
    BY <1>3
  <2> HIDE DEF entry, saves, f
  <2> QED BY <2>1, <2>2, <2>3, EntryMarked DEF saves, entry
<1>4. \A k \in Kind : cache[at][u][k] = NoEntry => f[k] = NoEntry
  OBVIOUS
<1>5. cache' = [cache EXCEPT ![at][u] = f]
  BY <1>1 DEF SaveWrite, Mark, TypeOK
<1>6. f \in [Kind -> Entry \cup {NoEntry}]
  BY <1>3, <1>4
<1> HIDE DEF at, u, f
<1>7. /\ CachesOK'
      /\ \A a \in Replica, v \in User :
            cache'[a][v] = IF a = at /\ v = u THEN f ELSE cache[a][v]
  BY <1>1, <1>5, <1>6 DEF TypeOK, CachesOK
<1> QED BY <1>3, <1>4, <1>7, NoValueAssumption DEF at, u

\* A request that fails between its save and its deletions leaves the entries.
LEMMA AbortedCaches ==
    ASSUME TypeOK, NEW p \in Proc, Abort(p), req[p].pc = "invalidate"
    PROVE  /\ CachesOK'
           /\ \A a \in Replica, v \in User, k \in Kind :
                 IF a = req[p].at /\ v = req[p].user /\ cache[a][v][k] # NoEntry
                 THEN /\ cache'[a][v][k] # NoEntry
                      /\ cache'[a][v][k].outlived = cache[a][v][k].outlived \ {p}
                 ELSE cache'[a][v][k] = cache[a][v][k]
<1> DEFINE at == req[p].at
           u == req[p].user
           f == [k \in Kind |->
                   IF cache[at][u][k] = NoEntry THEN NoEntry
                   ELSE [cache[at][u][k] EXCEPT !.outlived = @ \ {p}]]
<1>1. at \in Replica /\ u \in User
  BY Held, HeldBy DEF PC
<1>2. \A k \in Kind : cache[at][u][k] \in Entry \cup {NoEntry}
  BY <1>1 DEF TypeOK
<1>3. ASSUME NEW k \in Kind, cache[at][u][k] # NoEntry
      PROVE  f[k] \in Entry /\ f[k].outlived = cache[at][u][k].outlived \ {p}
  <2> DEFINE entry == cache[at][u][k]
             saves == entry.outlived \ {p}
  <2>1. entry \in Entry
    BY <1>2, <1>3
  <2>2. saves \in SUBSET Proc
    BY <2>1 DEF Entry
  <2>3. f[k] = [entry EXCEPT !.outlived = saves]
    BY <1>3
  <2> HIDE DEF entry, saves, f
  <2> QED BY <2>1, <2>2, <2>3, EntryMarked DEF saves, entry
<1>4. \A k \in Kind : cache[at][u][k] = NoEntry => f[k] = NoEntry
  OBVIOUS
<1>5. cache' = [cache EXCEPT ![at][u] = f]
  BY <1>1 DEF Abort, Mark, TypeOK
<1>6. f \in [Kind -> Entry \cup {NoEntry}]
  BY <1>3, <1>4
<1> HIDE DEF at, u, f
<1>7. /\ CachesOK'
      /\ \A a \in Replica, v \in User :
            cache'[a][v] = IF a = at /\ v = u THEN f ELSE cache[a][v]
  BY <1>1, <1>5, <1>6 DEF TypeOK, CachesOK
<1> QED BY <1>3, <1>4, <1>7, NoValueAssumption DEF at, u

\* What a request deletes when it is done with a save.
LEMMA InvalidatedCaches ==
    ASSUME TypeOK, NEW p \in Proc, NEW kind \in Kind, Invalidate(p, kind)
    PROVE  /\ CachesOK'
           /\ \A a \in Replica, v \in User, k \in Kind :
                 cache'[a][v][k] =
                    IF a = req[p].at /\ v = req[p].user /\ k = kind THEN NoEntry
                    ELSE cache[a][v][k]
<1>1. req[p].at \in Replica /\ req[p].user \in User
  BY Held, HeldBy DEF Invalidate, PC
<1> QED BY <1>1, EntrySet DEF Invalidate

LEMMA FilledCaches ==
    ASSUME TypeOK, NEW p \in Proc, Fill(p)
    PROVE  /\ CachesOK'
           /\ \A a \in Replica, v \in User, k \in Kind :
                 \/ cache'[a][v][k] = cache[a][v][k]
                 \/ cache'[a][v][k].outlived = {}
<1> DEFINE entry == [value |-> req[p].value, outlived |-> {}]
<1>1. req[p].at \in Replica /\ req[p].user \in User /\ req[p].kind \in Kind
  BY Held, HeldBy DEF Fill, PC
<1>2. req[p].value \in Value
  BY Held, HeldBy DEF Fill
<1>3. entry \in Entry \cup {NoEntry} /\ entry.outlived = {}
  BY <1>2 DEF Entry
<1>4. SetEntry(req[p].at, req[p].user, req[p].kind, entry)
  BY DEF Fill
<1> HIDE DEF entry
<1> QED BY <1>1, <1>3, <1>4, EntrySet

LEMMA RestartedCaches ==
    ASSUME TypeOK, NEW at \in Replica, Restart(at)
    PROVE  /\ CachesOK'
           /\ \A a \in Replica, v \in User, k \in Kind :
                 cache'[a][v][k] = IF a = at THEN NoEntry ELSE cache[a][v][k]
<1>1. /\ NoCache \in [User -> [Kind -> Entry \cup {NoEntry}]]
      /\ \A v \in User, k \in Kind : NoCache[v][k] = NoEntry
  BY DEF NoCache
<1>2. cache' = [cache EXCEPT ![at] = NoCache]
  BY DEF Restart
<1> QED BY <1>1, <1>2 DEF TypeOK, CachesOK

LEMMA CachesStep == TypeOK /\ [Next]_vars => CachesOK'
<1> SUFFICES ASSUME TypeOK, [Next]_vars PROVE CachesOK'
  OBVIOUS
<1>1. CASE UNCHANGED cache
  BY <1>1 DEF TypeOK, CachesOK
<1>2. ASSUME NEW p \in Proc, SaveWrite(p)
      PROVE  CachesOK'
  BY <1>1, <1>2, SavedCaches DEF SaveWrite
<1>3. ASSUME NEW p \in Proc, Abort(p)
      PROVE  CachesOK'
  BY <1>1, <1>3, AbortedCaches DEF Abort
<1>4. ASSUME NEW at \in Replica, NEW u \in User, NEW kind \in Kind,
             Expire(at, u, kind)
      PROVE  CachesOK'
  BY <1>4, EntrySet DEF Expire
<1> QED BY <1>1, <1>2, <1>3, <1>4, InvalidatedCaches, FilledCaches, RestartedCaches
        DEF Next, Continue, Begin, vars, Query, SaveLoad, RemoveRow, LookUp,
            AssignRole, RemoveRole, StartSave, ReadForDelete, CreateRole, DeleteUser

-----------------------------------------------------------------------------
\* The type invariant

LEMMA TypeInit == Init => TypeOK
<1> SUFFICES ASSUME Init PROVE TypeOK
  OBVIOUS
<1>1. PICK name \in [SystemRole -> Name] :
         roles = [r \in Role |->
                    IF r \in SystemRole
                    THEN [name |-> name[r], perms |-> Perm, isSystem |-> TRUE]
                    ELSE NoRow]
  BY DEF Init
<1>2. \A r \in SystemRole : [name |-> name[r], perms |-> Perm, isSystem |-> TRUE] \in Row
  BY DEF Row
<1>3. roles \in [Role -> Row \cup {NoRow}]
  BY <1>1, <1>2
<1>4. req \in [Proc -> Request]
  BY IdleRequest DEF Init
<1>5. cache \in [Replica -> [User -> [Kind -> Entry \cup {NoEntry}]]]
  BY DEF Init, NoCache
<1> QED BY <1>3, <1>4, <1>5 DEF Init, TypeOK, StoredRoles

LEMMA TypeStep == TypeOK /\ [Next]_vars => TypeOK'
<1> SUFFICES ASSUME TypeOK, [Next]_vars PROVE TypeOK'
  OBVIOUS
<1>1. TablesOK' /\ CachesOK' /\ RequestsOK'
  BY TablesStep, CachesStep, RequestsStep
<1> QED BY <1>1 DEF TypeOK, TablesOK, CachesOK, RequestsOK

\* However saves, deletions of roles and users, failures and restarts overlap,
\* nobody holds a role that is not stored and nobody who is not stored holds a
\* role (the foreign keys of user_roles and what a save checks).
THEOREM TypesHold == Spec => []TypeOK
BY TypeInit, TypeStep, PTL DEF Spec

-----------------------------------------------------------------------------
\* What a replica may still serve

\* The save of p still has to delete this entry.
Owed(p, at, u, kind) ==
    /\ req[p].pc = "invalidate"
    /\ req[p].at = at /\ req[p].user = u /\ kind \in req[p].todo

\* InvalidationComplete does not say which request will delete an entry: a
\* request with nothing left to delete must not be the one that it waits for.
EveryEntryIsOwed ==
    \A at \in Replica, u \in User, kind \in Kind :
        cache[at][u][kind] # NoEntry =>
            \A p \in cache[at][u][kind].outlived : Owed(p, at, u, kind)

Shrinks(at, u, kind) ==
    \/ cache'[at][u][kind] = cache[at][u][kind]
    \/ cache'[at][u][kind] = NoEntry
    \/ cache'[at][u][kind].outlived = {}

LEMMA Outlived ==
    ASSUME TypeOK, NEW at \in Replica, NEW u \in User, NEW kind \in Kind,
           cache[at][u][kind] # NoEntry
    PROVE  cache[at][u][kind].outlived \subseteq Proc
<1>1. cache[at][u][kind] \in Entry
  BY DEF TypeOK
<1> QED BY <1>1 DEF Entry

\* The steps of a request that has no deletions to do.
LEMMA OwedKept ==
    ASSUME TypeOK, EveryEntryIsOwed,
           NEW p \in Proc, req[p].pc # "invalidate", NEW r, Become(p, r),
           \A at \in Replica, u \in User, kind \in Kind : Shrinks(at, u, kind)
    PROVE  EveryEntryIsOwed'
<1> SUFFICES ASSUME NEW at \in Replica, NEW u \in User, NEW kind \in Kind,
                    cache'[at][u][kind] # NoEntry,
                    NEW q \in cache'[at][u][kind].outlived
             PROVE  Owed(q, at, u, kind)'
  BY DEF EveryEntryIsOwed
<1>1. cache'[at][u][kind] = cache[at][u][kind]
  BY DEF Shrinks
<1>2. Owed(q, at, u, kind) /\ q \in Proc
  BY <1>1, Outlived DEF EveryEntryIsOwed
<1>3. req'[q] = req[q]
  BY <1>2, Became DEF Owed
<1> QED BY <1>2, <1>3 DEF Owed

LEMMA SaveOwed ==
    ASSUME TypeOK, EveryEntryIsOwed, NEW p \in Proc, SaveWrite(p), ~SaveFails(p)
    PROVE  EveryEntryIsOwed'
<1> SUFFICES ASSUME NEW at \in Replica, NEW u \in User, NEW kind \in Kind,
                    cache'[at][u][kind] # NoEntry,
                    NEW q \in cache'[at][u][kind].outlived
             PROVE  Owed(q, at, u, kind)'
  BY DEF EveryEntryIsOwed
<1> DEFINE r == [pc |-> "invalidate", at |-> req[p].at, user |-> req[p].user,
                 todo |-> Kind]
<1>1. req[p].pc = "write" /\ Become(p, r)
  BY DEF SaveWrite
<1>2. req'[p] = r /\ \A s \in Proc \ {p} : req'[s] = req[s]
  BY <1>1, Became
<1>3. \/ q = p /\ at = req[p].at /\ u = req[p].user
      \/ cache[at][u][kind] # NoEntry /\ q \in cache[at][u][kind].outlived
  BY SavedCaches
<1>4. CASE q = p /\ at = req[p].at /\ u = req[p].user
  BY <1>2, <1>4 DEF Owed
<1>5. CASE cache[at][u][kind] # NoEntry /\ q \in cache[at][u][kind].outlived
  <2>1. Owed(q, at, u, kind) /\ q \in Proc
    BY <1>5, Outlived DEF EveryEntryIsOwed
  <2>2. req'[q] = req[q]
    BY <1>1, <1>2, <2>1 DEF Owed
  <2> QED BY <2>1, <2>2 DEF Owed
<1> QED BY <1>3, <1>4, <1>5

LEMMA InvalidateOwed ==
    ASSUME TypeOK, EveryEntryIsOwed, NEW p \in Proc, NEW done \in Kind,
           Invalidate(p, done)
    PROVE  EveryEntryIsOwed'
<1> SUFFICES ASSUME NEW at \in Replica, NEW u \in User, NEW kind \in Kind,
                    cache'[at][u][kind] # NoEntry,
                    NEW q \in cache'[at][u][kind].outlived
             PROVE  Owed(q, at, u, kind)'
  BY DEF EveryEntryIsOwed
<1> DEFINE left == req[p].todo \ {done}
           r == IF left = {} THEN Idle ELSE [req[p] EXCEPT !.todo = left]
<1>1. Become(p, r)
  BY DEF Invalidate, Invalidated
<1>2. req'[p] = r /\ \A s \in Proc \ {p} : req'[s] = req[s]
  BY <1>1, Became
<1>3. /\ cache'[at][u][kind] = cache[at][u][kind]
      /\ ~(at = req[p].at /\ u = req[p].user /\ kind = done)
  BY InvalidatedCaches
<1>4. Owed(q, at, u, kind) /\ q \in Proc
  BY <1>3, Outlived DEF EveryEntryIsOwed
<1>5. CASE q # p
  BY <1>2, <1>4, <1>5 DEF Owed
<1>6. CASE q = p
  <2>1. kind \in left
    BY <1>3, <1>4, <1>6 DEF Owed
  <2>2. req'[p] = [req[p] EXCEPT !.todo = left]
    BY <1>2, <2>1
  <2>3. req[p] \in [pc : {"invalidate"}, at : Replica, user : User, todo : SUBSET Kind]
    BY HeldBy DEF Invalidate, Request
  <2> HIDE DEF left
  <2>4. /\ req'[p].pc = req[p].pc /\ req'[p].at = req[p].at
        /\ req'[p].user = req[p].user /\ req'[p].todo = left
    BY <2>2, <2>3
  <2> QED BY <1>4, <1>6, <2>1, <2>4 DEF Owed
<1> QED BY <1>5, <1>6

LEMMA AbortOwed ==
    ASSUME TypeOK, EveryEntryIsOwed, NEW p \in Proc, Abort(p),
           req[p].pc = "invalidate"
    PROVE  EveryEntryIsOwed'
<1> SUFFICES ASSUME NEW at \in Replica, NEW u \in User, NEW kind \in Kind,
                    cache'[at][u][kind] # NoEntry,
                    NEW q \in cache'[at][u][kind].outlived
             PROVE  Owed(q, at, u, kind)'
  BY DEF EveryEntryIsOwed
<1>1. Become(p, Idle)
  BY DEF Abort, Finish
<1>2. \A s \in Proc \ {p} : req'[s] = req[s]
  BY <1>1, Became
<1>3. /\ cache[at][u][kind] # NoEntry /\ q \in cache[at][u][kind].outlived
      /\ q = p => ~(at = req[p].at /\ u = req[p].user)
  BY AbortedCaches
<1>4. Owed(q, at, u, kind) /\ q \in Proc
  BY <1>3, Outlived DEF EveryEntryIsOwed
<1>5. q # p
  BY <1>3, <1>4 DEF Owed
<1> QED BY <1>2, <1>4, <1>5 DEF Owed

LEMMA RestartOwed ==
    ASSUME TypeOK, EveryEntryIsOwed, NEW at \in Replica, Restart(at)
    PROVE  EveryEntryIsOwed'
<1> SUFFICES ASSUME NEW a \in Replica, NEW u \in User, NEW kind \in Kind,
                    cache'[a][u][kind] # NoEntry,
                    NEW q \in cache'[a][u][kind].outlived
             PROVE  Owed(q, a, u, kind)'
  BY DEF EveryEntryIsOwed
<1>1. a # at /\ cache'[a][u][kind] = cache[a][u][kind]
  BY RestartedCaches
<1>2. Owed(q, a, u, kind) /\ q \in Proc
  BY <1>1, Outlived DEF EveryEntryIsOwed
<1>3. req'[q] = req[q]
  BY <1>1, <1>2 DEF Restart, Owed
<1> QED BY <1>2, <1>3 DEF Owed

LEMMA OwedStep ==
    TypeOK /\ EveryEntryIsOwed /\ [Next]_vars => EveryEntryIsOwed'
<1> SUFFICES ASSUME TypeOK, EveryEntryIsOwed, [Next]_vars
             PROVE  EveryEntryIsOwed'
  OBVIOUS
<1>1. CASE UNCHANGED <<cache, req>>
  BY <1>1 DEF EveryEntryIsOwed, Owed
<1>2. ASSUME NEW p \in Proc, Continue(p)
      PROVE  EveryEntryIsOwed'
  <2>1. CASE Fill(p)
    <3>1. \A at \in Replica, u \in User, kind \in Kind : Shrinks(at, u, kind)
      BY <2>1, FilledCaches DEF Shrinks
    <3> QED BY <2>1, <3>1, OwedKept DEF Fill, Finish
  <2>2. CASE SaveWrite(p)
    BY <2>2, SaveOwed, OwedKept DEF SaveWrite, Finish, Shrinks
  <2>3. CASE UNCHANGED cache /\ req[p].pc # "invalidate" /\ \E r : Become(p, r)
    BY <2>3, OwedKept DEF Shrinks
  <2>4. CASE Query(p) \/ SaveLoad(p) \/ RemoveRow(p)
    BY <2>3, <2>4 DEF Query, SaveLoad, RemoveRow, Finish
  <2> QED BY <1>2, <2>1, <2>2, <2>4, InvalidateOwed DEF Continue
<1>3. ASSUME NEW p \in Proc, Abort(p)
      PROVE  EveryEntryIsOwed'
  BY <1>3, AbortOwed, OwedKept DEF Abort, Finish, Shrinks
<1>4. ASSUME NEW p \in Proc, NEW at \in Replica, Begin(p, at)
      PROVE  EveryEntryIsOwed'
  <2>1. UNCHANGED cache /\ req[p].pc = "idle" /\ \E r : Become(p, r)
    BY <1>4 DEF Begin, LookUp, AssignRole, RemoveRole, StartSave, ReadForDelete
  <2> QED BY <2>1, OwedKept DEF Shrinks
<1>5. ASSUME NEW at \in Replica, NEW u \in User, NEW kind \in Kind,
             Expire(at, u, kind)
      PROVE  EveryEntryIsOwed'
  <2>1. UNCHANGED req
    BY <1>5 DEF Expire
  <2>2. \A a \in Replica, v \in User, k \in Kind :
           cache'[a][v][k] = NoEntry \/ cache'[a][v][k] = cache[a][v][k]
    BY <1>5, EntrySet DEF Expire
  <2> QED BY <2>1, <2>2 DEF EveryEntryIsOwed, Owed
<1> QED BY <1>1, <1>2, <1>3, <1>4, <1>5, RestartOwed
        DEF Next, vars, CreateRole, DeleteUser

LEMMA OwedInit == Init => EveryEntryIsOwed
BY DEF Init, NoCache, EveryEntryIsOwed

\* When an assignment or a removal of a role has returned, its replica serves
\* nothing of that user that was cached before the save: each entry that has
\* outlived a save is still to be deleted by the request that saved.
THEOREM ReturnedSavesServeNothingOlder == Spec => []InvalidationComplete
<1>1. Init => TypeOK /\ EveryEntryIsOwed
  BY TypeInit, OwedInit
<1>2. TypeOK /\ EveryEntryIsOwed /\ [Next]_vars => (TypeOK /\ EveryEntryIsOwed)'
  BY TypeStep, OwedStep
<1>3. EveryEntryIsOwed => InvalidationComplete
  BY DEF EveryEntryIsOwed, InvalidationComplete, Owed
<1> QED BY <1>1, <1>2, <1>3, PTL DEF Spec

-----------------------------------------------------------------------------
\* A role that was taken from a user

Asked(u, r) ==
    \E p \in Proc : /\ req[p].pc = "idle" /\ req'[p].pc = "save"
                     /\ req'[p].user = u /\ req'[p].role = r

Without(u, r) == r \notin userRoles[u] /\ \A p \in Proc : ~Carries(p, u, r)

\* No request carries a role on from its first step to its second, or out of a
\* lookup, that it did not carry before.
LEMMA CarriesContinue ==
    ASSUME TypeOK, NEW p \in Proc, Continue(p) \/ Abort(p),
           NEW u \in User, NEW r \in Role, Without(u, r)
    PROVE  \A q \in Proc : ~Carries(q, u, r)'
<1> DEFINE write == [pc |-> "write", at |-> req[p].at, user |-> req[p].user,
                     ent |-> req[p].ent, found |-> req[p].user \in users,
                     loaded |-> userRoles[req[p].user]]
<1>1. \E request :
         /\ Become(p, request)
         /\ \/ request.pc \notin {"save", "write"}
            \/ req[p].pc = "save" /\ request = write
  <2>1. CASE SaveLoad(p)
    BY <2>1 DEF SaveLoad
  <2>2. ASSUME NEW kind \in Kind, Invalidate(p, kind)
        PROVE  \E request : /\ Become(p, request)
                            /\ request.pc \notin {"save", "write"}
    <3> DEFINE left == req[p].todo \ {kind}
    <3>1. req[p] \in [pc : {"invalidate"}, at : Replica, user : User, todo : SUBSET Kind]
      BY <2>2, HeldBy DEF Invalidate, Request
    <3>2. [req[p] EXCEPT !.todo = left].pc = "invalidate"
      BY <3>1
    <3> QED BY <2>2, <3>2, IdleRequest DEF Invalidate, Invalidated
  <2>3. CASE Query(p)
    BY <2>3, IdleRequest DEF Query, Finish
  <2>4. CASE SaveWrite(p)
    <3> DEFINE request == [pc |-> "invalidate", at |-> req[p].at,
                           user |-> req[p].user, todo |-> Kind]
    <3>1. Become(p, Idle) \/ Become(p, request)
      BY <2>4 DEF SaveWrite, Finish
    <3>2. request.pc \notin {"save", "write"}
      OBVIOUS
    <3> HIDE DEF request
    <3> QED BY <3>1, <3>2, IdleRequest
  <2>5. CASE Fill(p) \/ RemoveRow(p) \/ Abort(p)
    BY <2>5, IdleRequest DEF Fill, RemoveRow, Abort, Finish
  <2> QED BY <2>1, <2>2, <2>3, <2>4, <2>5 DEF Continue
<1>2. PICK request :
         /\ Become(p, request)
         /\ \/ request.pc \notin {"save", "write"}
            \/ req[p].pc = "save" /\ request = write
  BY <1>1
<1>3. req'[p] = request /\ \A q \in Proc \ {p} : req'[q] = req[q]
  BY <1>2, Became
<1>4. write.user = req[p].user /\ write.ent = req[p].ent
  OBVIOUS
<1> HIDE DEF write
<1> QED BY <1>2, <1>3, <1>4 DEF Carries, Without

\* A request that begins reads roles that the user has, or was asked for this one.
LEMMA CarriesBegin ==
    ASSUME TypeOK, NEW p \in Proc, NEW at \in Replica, Begin(p, at),
           NEW u \in User, NEW r \in Role, Without(u, r)
    PROVE  Asked(u, r) \/ \A q \in Proc : ~Carries(q, u, r)'
<1>1. ASSUME NEW v \in User, NEW role \in Role, NEW ent,
             req[p].pc = "idle", StartSave(p, at, v, role, ent),
             ent \subseteq userRoles[v] \cup {role}
      PROVE  Asked(u, r) \/ \A q \in Proc : ~Carries(q, u, r)'
  <2> DEFINE request == [pc |-> "save", at |-> at, user |-> v, role |-> role,
                         ent |-> ent]
  <2>1. req'[p] = request /\ \A q \in Proc \ {p} : req'[q] = req[q]
    BY <1>1, Became DEF StartSave
  <2>2. /\ req'[p].pc = "save" /\ req'[p].user = v /\ req'[p].role = role
        /\ req'[p].ent = ent
    BY <2>1
  <2>3. CASE v = u /\ role = r
    BY <1>1, <2>2, <2>3 DEF Asked
  <2>4. CASE ~(v = u /\ role = r)
    BY <1>1, <2>1, <2>2, <2>4 DEF Carries, Without
  <2> QED BY <2>3, <2>4
<1>2. ASSUME NEW request, Become(p, request), request.pc \notin {"save", "write"}
      PROVE  \A q \in Proc : ~Carries(q, u, r)'
  BY <1>2, Became DEF Carries, Without
<1>3. ASSUME NEW v \in User, NEW role \in Role, AssignRole(p, at, v, role)
      PROVE  Asked(u, r) \/ \A q \in Proc : ~Carries(q, u, r)'
  BY <1>1, <1>3 DEF AssignRole
<1>4. ASSUME NEW v \in User, NEW role \in Role, RemoveRole(p, at, v, role)
      PROVE  Asked(u, r) \/ \A q \in Proc : ~Carries(q, u, r)'
  BY <1>1, <1>4 DEF RemoveRole
<1>5. ASSUME NEW v \in User, NEW kind \in Kind, LookUp(p, at, v, kind)
      PROVE  \A q \in Proc : ~Carries(q, u, r)'
  BY <1>2, <1>5 DEF LookUp
<1>6. ASSUME NEW role \in Role, ReadForDelete(p, at, role)
      PROVE  \A q \in Proc : ~Carries(q, u, r)'
  BY <1>2, <1>6 DEF ReadForDelete
<1> QED BY <1>3, <1>4, <1>5, <1>6 DEF Begin

LEMMA CarriesRestart ==
    ASSUME TypeOK, NEW at \in Replica, Restart(at),
           NEW u \in User, NEW r \in Role, Without(u, r)
    PROVE  \A q \in Proc : ~Carries(q, u, r)'
BY IdleRequest DEF Restart, Carries, Without

\* A role that no request carries is not written into the roles of the user.
LEMMA NotWritten ==
    ASSUME TypeOK, [Next]_vars, NEW u \in User, NEW r \in Role, Without(u, r)
    PROVE  r \notin userRoles'[u]
<1>1. CASE UNCHANGED userRoles
  BY <1>1 DEF Without
<1>2. ASSUME NEW p \in Proc, SaveWrite(p)
      PROVE  r \notin userRoles'[u]
  <2>1. req[p].user \in User
    BY <1>2, Held, HeldBy DEF SaveWrite, PC
  <2>2. CASE SaveFails(p)
    BY <1>1, <1>2, <2>2 DEF SaveWrite
  <2>3. CASE ~SaveFails(p)
    <3>1. userRoles'[u] = IF u = req[p].user
                          THEN (userRoles[u] \ Dropped(p)) \cup Added(p)
                          ELSE userRoles[u]
      BY <1>2, <2>1, <2>3 DEF SaveWrite, TypeOK
    <3>2. u = req[p].user => r \notin req[p].ent
      BY <1>2 DEF SaveWrite, Without, Carries
    <3> QED BY <3>1, <3>2 DEF Added, Without
  <2> QED BY <2>2, <2>3
<1>3. ASSUME NEW p \in Proc, RemoveRow(p)
      PROVE  r \notin userRoles'[u]
  BY <1>3 DEF RemoveRow, Without
<1>4. ASSUME NEW v \in User, DeleteUser(v)
      PROVE  r \notin userRoles'[u]
  BY <1>4 DEF DeleteUser, Without, TypeOK
<1> QED BY <1>1, <1>2, <1>3, <1>4
        DEF Next, Continue, Begin, vars, Query, Fill, SaveLoad, Invalidate, Abort,
            LookUp, AssignRole, RemoveRole, StartSave, ReadForDelete, Expire,
            CreateRole, Restart

LEMMA RemovedStep ==
    ASSUME TypeOK, [Next]_vars, NEW u \in User, NEW r \in Role, Without(u, r)
    PROVE  Asked(u, r) \/ \A q \in Proc : ~Carries(q, u, r)'
<1>1. CASE UNCHANGED req
  BY <1>1 DEF Without, Carries
<1> QED BY <1>1, CarriesContinue, CarriesBegin, CarriesRestart
        DEF Next, vars, Expire, CreateRole, DeleteUser

\* A role that was taken from a user comes back only by a request to assign that
\* very role: no save of the other roles, however stale the roles that it read,
\* puts it back.
THEOREM RemovedRolesStay == Spec => RemovedStays
<1> DEFINE Stays ==
        \A u \in User, r \in Role :
          r \notin userRoles[u] /\ (\A p \in Proc : ~Carries(p, u, r)) =>
             \/ r \notin userRoles'[u] /\ (\A p \in Proc : ~Carries(p, u, r)')
             \/ \E p \in Proc : /\ req[p].pc = "idle" /\ req'[p].pc = "save"
                                 /\ req'[p].user = u /\ req'[p].role = r
<1>1. TypeOK /\ [Next]_vars => [Stays]_vars
  <2> SUFFICES ASSUME TypeOK, [Next]_vars, NEW u \in User, NEW r \in Role, Without(u, r)
               PROVE  \/ r \notin userRoles'[u] /\ (\A p \in Proc : ~Carries(p, u, r)')
                      \/ Asked(u, r)
    BY DEF Without, Asked
  <2> QED BY NotWritten, RemovedStep
<1>2. RemovedStays <=> [][Stays]_vars
  BY DEF RemovedStays
<1> HIDE DEF Stays
<1> QED BY <1>1, <1>2, TypeInit, TypeStep, PTL DEF Spec
=============================================================================
