------------------------------- MODULE Users -------------------------------
(***************************************************************************)
(* UserService (src/src/modules/users/services/user.service.ts) with what  *)
(* surrounds the rows of the users table: the entry user:<id> that every   *)
(* replica caches, the event user.deleted, the audit record of a deletion, *)
(* the tokens that auth.controller.ts hands out, and the tenant whose      *)
(* deletion takes its users and audit records along.                       *)
(*                                                                         *)
(*   create            Create -> Insert -> CacheNew                        *)
(*   register          Create -> Insert -> Issue                           *)
(*   findById          Find -> Query -> Fill                               *)
(*   update            <read> -> SaveLoad -> SaveWrite -> Invalidate       *)
(*   login             <read> -> SaveLoad -> SaveWrite -> Issue            *)
(*   profile, password <read> -> SaveLoad -> SaveWrite                     *)
(*   delete            ReadForDelete -> Invalidate -> Remove -> WriteAudit *)
(*   refresh           Refresh -> Issue                                    *)
(*                                                                         *)
(* All users belong to one tenant.  Addresses and passwords are the        *)
(* subject of module Accounts.  The status PENDING is treated as ACTIVE,   *)
(* ARCHIVED as INACTIVE.  The events user.created and user.updated follow  *)
(* what they report and are left out, as are the keys of lists in the      *)
(* cache, which nothing ever sets.                                         *)
(***************************************************************************)
EXTENDS Integers, Repository

CONSTANTS
    Proc,          \* requests that may be in flight at the same time
    Replica,       \* processes of the gateway
    User,          \* ids of users, given out by the database
    Life,          \* how many ticks of the clock the longest token is good for
    NoRow, NoEntry

Status == {"ACTIVE", "INACTIVE"}

Request ==
    [pc : {"idle"}]
        \cup [pc : {"insert"}, at : Replica, op : {"create", "register"}]
        \cup [pc : {"cacheNew", "issue", "query", "remove", "audit"},
              at : Replica, user : User]
        \cup [pc : {"fill"}, at : Replica, user : User, value : Status]
        \cup [pc : {"save"}, at : Replica, user : User, ent : Status,
              op : {"update", "login", "other"}]
        \cup [pc : {"write"}, at : Replica, user : User, ent : Status,
              op : {"update", "login", "other"}, loaded : Status \cup {NoRow}]
        \cup [pc : {"invalidate"}, at : Replica, user : User,
              op : {"update", "delete"}]

Idle == [pc |-> "idle"]

ASSUME LifeAssumption == Life \in Nat
ASSUME NoValueAssumption == NoRow \notin Status /\ NoEntry \notin Status

VARIABLES
    tenant,      \* whether the row of the tenant is there
    users,       \* the users table: a status, or NoRow
    born,        \* ids of users that were inserted at some time
    deleted,     \* ids of users that UserService.delete has removed
    cache,       \* per replica and user: a status, or NoEntry
    grant,       \* ticks left of the user's longest token; 0 if there is none
    announced,   \* history: ids in the events user.deleted handed to Kafka
    unannounced, \* history: ids in the events that could not be handed over
    audited,     \* ids in the records of successful deletions
    cut,         \* history: ids whose deletion ended after its event and before
                 \* its remove
    lost,        \* history: ids whose deletion has lost its record
    req          \* what each request slot is doing

rowVars == <<tenant, users, born, deleted>>
logVars == <<announced, unannounced, audited, cut, lost>>
vars == <<rowVars, cache, grant, logVars, req>>

-----------------------------------------------------------------------------

Stored(u) == users[u] # NoRow

Become(p, request) == req' = [req EXCEPT ![p] = request]
Finish(p) == Become(p, Idle)
With(p, pc) == [pc |-> pc, at |-> req[p].at, user |-> req[p].user]

SetEntry(at, u, entry) == cache' = [cache EXCEPT ![at][u] = entry]

Init ==
    /\ tenant = TRUE
    /\ users = [u \in User |-> NoRow]
    /\ born = {} /\ deleted = {}
    /\ cache = [at \in Replica |-> [u \in User |-> NoEntry]]
    /\ grant = [u \in User |-> 0]
    /\ announced = {} /\ unannounced = {}
    /\ audited = {} /\ cut = {} /\ lost = {}
    /\ req = [p \in Proc |-> Idle]

-----------------------------------------------------------------------------
\* create and register

\* The tenant was found.
Create(p, at, op) ==
    /\ req[p].pc = "idle"
    /\ tenant
    /\ born # User
    /\ Become(p, [pc |-> "insert", at |-> at, op |-> op])
    /\ UNCHANGED <<rowVars, cache, grant, logVars>>

\* The INSERT, or the error of the foreign key; no ids are left at the bound.
Insert(p) ==
    /\ req[p].pc = "insert"
    /\ IF ~tenant \/ born = User
       THEN Finish(p) /\ UNCHANGED <<users, born>>
       ELSE \E u \in User \ born :
              /\ users' = [users EXCEPT ![u] = "ACTIVE"]
              /\ born' = born \cup {u}
              /\ Become(p, [pc |-> IF req[p].op = "create" THEN "cacheNew"
                                                           ELSE "issue",
                            at |-> req[p].at, user |-> u])
    /\ UNCHANGED <<tenant, deleted, cache, grant, logVars>>

CacheNew(p) ==
    /\ req[p].pc = "cacheNew"
    /\ SetEntry(req[p].at, req[p].user, "ACTIVE")
    /\ Finish(p)
    /\ UNCHANGED <<rowVars, grant, logVars>>

\* An access token and a refresh token are signed and returned.
Issue(p) ==
    /\ req[p].pc = "issue"
    /\ grant' = [grant EXCEPT ![req[p].user] = Life]
    /\ Finish(p)
    /\ UNCHANGED <<rowVars, cache, logVars>>

\* Mutant: the claims of the refresh token are believed without a look at the
\* users table.
Refresh_NoLookup(p, at, u) ==
    /\ req[p].pc = "idle"
    /\ grant[u] > 0
    /\ Become(p, [pc |-> "issue", at |-> at, user |-> u])
    /\ UNCHANGED <<rowVars, cache, grant, logVars>>

\* The user must be there, with whatever status.
Refresh(p, at, u) ==
    /\ req[p].pc = "idle"
    /\ grant[u] > 0
    /\ Stored(u)
    /\ Become(p, [pc |-> "issue", at |-> at, user |-> u])
    /\ UNCHANGED <<rowVars, cache, grant, logVars>>

Tick ==
    /\ \E u \in User : grant[u] > 0
    /\ grant' = [u \in User |-> IF grant[u] > 0 THEN grant[u] - 1 ELSE 0]
    /\ UNCHANGED <<rowVars, cache, logVars, req>>

-----------------------------------------------------------------------------
\* findById; a hit changes nothing and is no step, and nor is the 404.

Find(p, at, u) ==
    /\ req[p].pc = "idle"
    /\ u \in born
    /\ cache[at][u] = NoEntry
    /\ Become(p, [pc |-> "query", at |-> at, user |-> u])
    /\ UNCHANGED <<rowVars, cache, grant, logVars>>

Query(p) ==
    LET u == req[p].user IN
    /\ req[p].pc = "query"
    /\ IF Stored(u)
       THEN Become(p, [pc |-> "fill", at |-> req[p].at, user |-> u,
                       value |-> users[u]])
       ELSE Finish(p)
    /\ UNCHANGED <<rowVars, cache, grant, logVars>>

Fill(p) ==
    /\ req[p].pc = "fill"
    /\ SetEntry(req[p].at, req[p].user, req[p].value)
    /\ Finish(p)
    /\ UNCHANGED <<rowVars, grant, logVars>>

\* Mutant: the entries are set without a TTL.
Expire_Never(at, u) ==
    /\ FALSE
    /\ SetEntry(at, u, NoEntry)
    /\ UNCHANGED <<rowVars, grant, logVars, req>>

\* The TTL of the entry has passed.
Expire(at, u) ==
    /\ cache[at][u] # NoEntry
    /\ SetEntry(at, u, NoEntry)
    /\ UNCHANGED <<rowVars, grant, logVars, req>>

-----------------------------------------------------------------------------
\* Handlers that read the row and save what they made of it

StartSave(p, at, u, op, ent) ==
    /\ req[p].pc = "idle"
    /\ Stored(u)
    /\ Become(p, [pc |-> "save", at |-> at, user |-> u, op |-> op, ent |-> ent])
    /\ UNCHANGED <<rowVars, cache, grant, logVars>>

Update(p, at, u) == \E status \in Status : StartSave(p, at, u, "update", status)

Login(p, at, u) ==
    /\ users[u] = "ACTIVE"
    /\ StartSave(p, at, u, "login", "ACTIVE")

\* The profile, the password and the roles: the status is saved as it was read.
Touch(p, at, u) == StartSave(p, at, u, "other", users[u])

SaveLoad(p) ==
    /\ req[p].pc = "save"
    /\ Become(p, [pc |-> "write", at |-> req[p].at, user |-> req[p].user,
                  op |-> req[p].op, ent |-> req[p].ent,
                  loaded |-> users[req[p].user]])
    /\ UNCHANGED <<rowVars, cache, grant, logVars>>

\* An INSERT meets the primary key or the foreign key.
SaveFails(p) == req[p].loaded = NoRow /\ (Stored(req[p].user) \/ ~tenant)

SaveWrite(p) ==
    LET u == req[p].user  op == req[p].op
        written == IF req[p].loaded = NoRow
                   THEN req[p].ent
                   ELSE Column(req[p].ent, req[p].loaded, users[u])
        updatesNothing == req[p].loaded # NoRow /\ ~Stored(u)
    IN
    /\ req[p].pc = "write"
    /\ users' = IF SaveFails(p) \/ updatesNothing
                THEN users
                ELSE [users EXCEPT ![u] = written]
    /\ \/ /\ SaveFails(p) \/ op = "other"
          /\ Finish(p)
       \/ /\ ~SaveFails(p) /\ op = "login"
          /\ Become(p, With(p, "issue"))
       \/ /\ ~SaveFails(p) /\ op = "update"
          /\ Become(p, [pc |-> "invalidate", at |-> req[p].at, user |-> u,
                        op |-> "update"])
    /\ UNCHANGED <<tenant, born, deleted, cache, grant, logVars>>

\* Mutant: a deletion ends here; its remove is not awaited and lost.
Invalidate_Ends(p) ==
    /\ req[p].pc = "invalidate"
    /\ SetEntry(req[p].at, req[p].user, NoEntry)
    /\ Finish(p)
    /\ UNCHANGED <<rowVars, grant, logVars>>

\* An update invalidates after its save, a deletion before its remove.
Invalidate(p) ==
    /\ req[p].pc = "invalidate"
    /\ SetEntry(req[p].at, req[p].user, NoEntry)
    /\ IF req[p].op = "delete" THEN Become(p, With(p, "remove")) ELSE Finish(p)
    /\ UNCHANGED <<rowVars, grant, logVars>>

-----------------------------------------------------------------------------
\* delete, and the record of it that AuditInterceptor writes

\* emit hands the event to the Kafka client, without waiting for it, or throws,
\* and then the publisher logs the error, rethrows it, and delete only logs it.
\* Whether the event arrives is not modelled.
PublishUserDeleted(u) ==
    \/ announced' = announced \cup {u} /\ UNCHANGED unannounced
    \/ unannounced' = unannounced \cup {u} /\ UNCHANGED announced

\* Mutant: the event is published before the user is looked for.
ReadForDelete_NoLookup(p, at, u) ==
    /\ req[p].pc = "idle"
    /\ PublishUserDeleted(u)
    /\ Become(p, [pc |-> "invalidate", at |-> at, user |-> u, op |-> "delete"])
    /\ UNCHANGED <<rowVars, cache, grant, audited, cut, lost>>

\* The user is found, and the event is published before anything is done.
\* Whether that fails or not, the deletion goes on.
ReadForDelete(p, at, u) ==
    /\ req[p].pc = "idle"
    /\ Stored(u)
    /\ PublishUserDeleted(u)
    /\ Become(p, [pc |-> "invalidate", at |-> at, user |-> u, op |-> "delete"])
    /\ UNCHANGED <<rowVars, cache, grant, audited, cut, lost>>

Remove(p) ==
    LET u == req[p].user IN
    /\ req[p].pc = "remove"
    /\ users' = [users EXCEPT ![u] = NoRow]
    /\ deleted' = deleted \cup {u}
    /\ Become(p, With(p, "audit"))
    /\ UNCHANGED <<tenant, born, cache, grant, logVars>>

\* Mutant: only failed deletions are put on record.
WriteAudit_Nothing(p) ==
    /\ req[p].pc = "audit"
    /\ Finish(p)
    /\ UNCHANGED <<rowVars, cache, grant, logVars>>

\* AuditService.log: the record refers to the tenant, and the INSERT fails
\* without it.
Log(u) ==
    IF tenant
    THEN audited' = audited \cup {u} /\ UNCHANGED lost
    ELSE lost' = lost \cup {u} /\ UNCHANGED audited

\* The response is out; nobody waits for the record or hears of its error.
WriteAudit(p) ==
    /\ req[p].pc = "audit"
    /\ Log(req[p].user)
    /\ Finish(p)
    /\ UNCHANGED <<rowVars, cache, grant, announced, unannounced, cut>>

-----------------------------------------------------------------------------
\* The tenant, as TenantService changes it

\* The foreign keys of users and audit_logs cascade; no cache is told, and no
\* event user.deleted is published.
DeleteTenant ==
    /\ tenant
    /\ tenant' = FALSE
    /\ users' = [u \in User |-> NoRow]
    /\ audited' = {}
    /\ lost' = lost \cup audited
    /\ UNCHANGED <<born, deleted, cache, grant, announced, unannounced, cut, req>>

\* A stale save of the tenant inserts it again (SaveWrite of module Tenants).
TenantComesBack ==
    /\ ~tenant
    /\ tenant' = TRUE
    /\ UNCHANGED <<users, born, deleted, cache, grant, logVars, req>>

-----------------------------------------------------------------------------
\* A request fails at the database, or the process ends: the rest is not done.
Abort(p) ==
    LET request == req[p]  About == {request.user} IN
    /\ request.pc # "idle"
    /\ cut' = IF \/ request.pc = "remove"
                 \/ request.pc = "invalidate" /\ request.op = "delete"
              THEN cut \cup About ELSE cut
    /\ lost' = IF request.pc = "audit" THEN lost \cup About ELSE lost
    /\ Finish(p)
    /\ UNCHANGED <<rowVars, cache, grant, announced, unannounced, audited>>

\* What a request does once it has begun: each await comes back.
Continue(p) ==
    \/ Insert(p)
    \/ CacheNew(p)
    \/ Issue(p)
    \/ Query(p)
    \/ Fill(p)
    \/ SaveLoad(p)
    \/ SaveWrite(p)
    \/ Invalidate(p)
    \/ Remove(p)
    \/ WriteAudit(p)

Begin(p, at) ==
    \/ \E op \in {"create", "register"} : Create(p, at, op)
    \/ \E u \in User : Find(p, at, u)
    \/ \E u \in User : Update(p, at, u)
    \/ \E u \in User : Login(p, at, u)
    \/ \E u \in User : Touch(p, at, u)
    \/ \E u \in User : ReadForDelete(p, at, u)
    \/ \E u \in User : Refresh(p, at, u)

Next ==
    \/ \E p \in Proc : Continue(p) \/ Abort(p)
    \/ \E p \in Proc, at \in Replica : Begin(p, at)
    \/ \E at \in Replica, u \in User : Expire(at, u)
    \/ Tick
    \/ DeleteTenant
    \/ TenantComesBack

Spec == Init /\ [][Next]_vars

\* Every await settles, every entry expires unless it is replaced first, and
\* time passes while somebody holds a token.
Fairness ==
    /\ \A p \in Proc : WF_vars(Continue(p))
    /\ \A at \in Replica, u \in User : WF_vars(Expire(at, u))
    /\ WF_vars(Tick)

FairSpec == Spec /\ Fairness

-----------------------------------------------------------------------------
\* Properties

\* Type invariant: whoever is stored, cached, granted a token, reported or in
\* the hands of a request was inserted once.
TypeOK ==
    /\ tenant \in BOOLEAN
    /\ born \subseteq User
    /\ users \in [User -> Status \cup {NoRow}]
    /\ deleted \subseteq born
    /\ cache \in [Replica -> [User -> Status \cup {NoEntry}]]
    /\ grant \in [User -> 0..Life]
    /\ announced \subseteq born /\ unannounced \subseteq born
    /\ audited \subseteq deleted /\ lost \subseteq deleted
    /\ cut \subseteq announced \cup unannounced
    /\ req \in [Proc -> Request]
    /\ \A p \in Proc : req[p].pc \notin {"idle", "insert"} => req[p].user \in born

\* The requests that know the user and may write the row, an entry or a token.
Carries(p, u) ==
    /\ req[p].pc \in {"cacheNew", "issue", "fill", "save", "write"}
    /\ req[p].user = u

Gone(u) == u \in born /\ ~Stored(u) /\ (\A p \in Proc : ~Carries(p, u))

\* Once a user is not stored and no request in flight has read the row before,
\* the user stays away: no save inserts the row again, no lookup caches it,
\* and no refresh prolongs a session (delete and the tenant's cascade).
GoneForGood ==
    [][\A u \in User : Gone(u) =>
          /\ Gone(u)'
          /\ \A at \in Replica : cache'[at][u] \in {cache[at][u], NoEntry}
          /\ grant'[u] <= grant[u]]_vars

\* Between the event of a deletion (line 253), published or not, and its end.
Deleting(p, u) ==
    /\ \/ req[p].pc = "remove"
       \/ req[p].pc = "invalidate" /\ req[p].op = "delete"
    /\ req[p].user = u

\* The event is published before the row is removed "(transactional
\* consistency)", line 251, and a deletion whose event could not be published
\* goes on (line 259).  Every deletion has its event or the logged error of
\* it, and a user who was announced as deleted and is stored is being deleted,
\* was to be deleted by a request that broke off, or was inserted again by a
\* stale save.
EventsMatchRows ==
    /\ deleted \subseteq announced \cup unannounced
    /\ \A u \in announced : Stored(u) =>
          u \in cut \/ u \in deleted \/ \E p \in Proc : Deleting(p, u)

\* The record of a deletion is written after it and its errors are swallowed
\* (audit.interceptor.ts:65-67): a deletion is on record unless its INSERT is
\* under way, was broken off, or the tenant was deleted.
DeletionsOnRecord ==
    \A u \in deleted :
        u \in audited \/ u \in lost
            \/ \E p \in Proc : req[p].pc = "audit" /\ req[p].user = u

\* Deletions and saves of other services leave entries behind, and lookups that
\* were on their way cache what they have read (lines 122-140, 264-267).  Once
\* the row keeps still, every cache in the end agrees with it or is silent.
CachesConverge ==
    \A u \in User, row \in Status \cup {NoRow} :
        <>[](users[u] = row) =>
            <>[](\A at \in Replica : cache[at][u] \in {row, NoEntry})

\* A user who is gone for good is logged out in the end: a refresh needs the
\* row (refresh-token.service.ts:41), and tokens expire.
SessionsEnd == \A u \in User : <>[](~Stored(u)) => <>[](grant[u] = 0)
=============================================================================
