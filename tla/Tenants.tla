------------------------------ MODULE Tenants ------------------------------
(***************************************************************************)
(* TenantService and OnboardingService (src/src/modules/tenants/services): *)
(* the tenants table, the entry tenant:<id> that every replica caches, and *)
(* the default roles, which create leaves to a process of its own that it  *)
(* neither awaits nor asks how it ended.                                   *)
(*                                                                         *)
(*   create     CheckSlug -> Insert -> CacheNew -> Welcome                 *)
(*   findById   Find -> Query -> Fill                                      *)
(*   update     ReadForUpdate (-> CheckNewSlug) -> SaveLoad -> SaveWrite   *)
(*                                                           -> Invalidate *)
(*   delete     ReadForDelete -> Remove -> Invalidate                      *)
(*   onboarding FindRoles -> FindPermissions -> SaveRole, three times      *)
(*                                                                         *)
(* Other statuses are treated as SUSPENDED is, and the other columns as    *)
(* the status.  Events are the last thing a handler does and are left out, *)
(* as are the keys of lists in the cache, which nothing ever sets.  The    *)
(* roles that users create themselves are the subject of module Rbac.      *)
(***************************************************************************)
EXTENDS FiniteSets, Repository

CONSTANTS
    Proc,          \* requests that may be in flight at the same time
    Replica,       \* processes of the gateway
    Tenant,        \* ids of tenants, given out by the database
    Slug,
    NoRow, NoEntry

Status == {"ACTIVE", "SUSPENDED"}
Row == [slug : Slug, status : Status]

\* The names of DEFAULT_ROLES, in their order.
FirstRole == "admin"
RoleAfter == [admin |-> "member", member |-> "viewer", viewer |-> "done"]
DefaultRole == DOMAIN RoleAfter

Stage == {"none", "findRoles", "findPermissions", "done", "skipped", "failed"}
           \cup DefaultRole

\* "sets" is the status in the payload of an update; "same" if it has none.
Request ==
    [pc : {"idle"}]
        \cup [pc : {"insert"}, at : Replica, ent : Row]
        \cup [pc : {"cacheNew", "fill"}, at : Replica, tenant : Tenant, ent : Row]
        \cup [pc : {"welcome", "query", "remove", "invalidate"},
              at : Replica, tenant : Tenant]
        \cup [pc : {"checkNewSlug", "save"}, at : Replica, tenant : Tenant,
              ent : Row, sets : Status \cup {"same"}]
        \cup [pc : {"write"}, at : Replica, tenant : Tenant,
              ent : Row, loaded : Row \cup {NoRow}]

Idle == [pc |-> "idle"]

ASSUME NoValueAssumption == NoRow \notin Row /\ NoEntry \notin Row

VARIABLES
    tenants,     \* the tenants table; NoRow where there is no row of that id
    born,        \* ids of tenants that were inserted at some time
    deleted,     \* ids of tenants that were removed at some time
    roles,       \* per tenant: the default roles in the roles table
    stage,       \* per tenant: how far onboarding has come
    cache,       \* per replica and tenant: a Row or NoEntry
    req          \* what each request slot is doing

vars == <<tenants, born, deleted, roles, stage, cache, req>>

-----------------------------------------------------------------------------

Stored(t) == tenants[t] # NoRow
SlugFree(s) == \A t \in Tenant : Stored(t) => tenants[t].slug # s

\* Mutant: the column slug is not unique.
UniqueSlug_Missing(t, row) == TRUE

\* The unique constraint on slug.
UniqueSlug(t, row) ==
    \A other \in Tenant \ {t} : Stored(other) => tenants[other].slug # row.slug

Merged(ent, loaded, row) ==
    [slug   |-> Column(ent.slug, loaded.slug, row.slug),
     status |-> Column(ent.status, loaded.status, row.status)]

\* The permissions that the migration seeds, all of them active.
Permission ==
    {"tenants:create", "tenants:read", "tenants:update", "tenants:delete",
     "users:create", "users:read", "users:update", "users:delete",
     "api-keys:create", "api-keys:read", "api-keys:update", "api-keys:delete",
     "api-keys:rotate", "roles:create", "roles:read", "roles:update",
     "roles:delete", "audit-logs:read"}

\* What DEFAULT_ROLES lists for each role.
Wanted == [admin  |-> {"*:*"},
           member |-> {"users:read", "api-keys:read", "api-keys:create"},
           viewer |-> {"users:read"}]

\* Mutant: the wildcard is looked up like any other permission.
Granted_NoWildcard(role) == {perm \in Permission : perm \in Wanted[role]}

\* matchingPerms
Granted(role) ==
    {perm \in Permission : perm \in Wanted[role] \/ "*:*" \in Wanted[role]}

\* What the guarded routes of rbac.controller and audit.controller ask for.
Required == {"roles:read", "roles:create", "roles:delete", "roles:update",
             "audit-logs:read"}

Become(p, request) == req' = [req EXCEPT ![p] = request]
Finish(p) == Become(p, Idle)

SetEntry(at, t, entry) == cache' = [cache EXCEPT ![at][t] = entry]

Init ==
    /\ tenants = [t \in Tenant |-> NoRow]
    /\ born = {} /\ deleted = {}
    /\ roles = [t \in Tenant |-> {}]
    /\ stage = [t \in Tenant |-> "none"]
    /\ cache = [at \in Replica |-> [t \in Tenant |-> NoEntry]]
    /\ req = [p \in Proc |-> Idle]

-----------------------------------------------------------------------------
\* create

CheckSlug(p, at, s) ==
    /\ req[p].pc = "idle"
    /\ SlugFree(s)
    /\ born # Tenant
    /\ Become(p, [pc |-> "insert", at |-> at,
                  ent |-> [slug |-> s, status |-> "ACTIVE"]])
    /\ UNCHANGED <<tenants, born, deleted, roles, stage, cache>>

\* The INSERT, or the error of the unique slug; no ids are left at the bound.
Insert(p) ==
    LET row == req[p].ent IN
    /\ req[p].pc = "insert"
    /\ \/ \E t \in Tenant \ born :
             /\ UniqueSlug(t, row)
             /\ tenants' = [tenants EXCEPT ![t] = row]
             /\ born' = born \cup {t}
             /\ Become(p, [pc |-> "cacheNew", at |-> req[p].at,
                           tenant |-> t, ent |-> row])
       \/ /\ \A t \in Tenant \ born : ~UniqueSlug(t, row)
          /\ Finish(p)
          /\ UNCHANGED <<tenants, born>>
    /\ UNCHANGED <<deleted, roles, stage, cache>>

CacheNew(p) ==
    LET t == req[p].tenant  at == req[p].at IN
    /\ req[p].pc = "cacheNew"
    /\ SetEntry(at, t, req[p].ent)
    /\ Become(p, [pc |-> "welcome", at |-> at, tenant |-> t])
    /\ UNCHANGED <<tenants, born, deleted, roles, stage>>

\* The list entry is dropped, onboarding is started, the event is published.
Welcome(p) ==
    /\ req[p].pc = "welcome"
    /\ stage' = [stage EXCEPT ![req[p].tenant] = "findRoles"]
    /\ Finish(p)
    /\ UNCHANGED <<tenants, born, deleted, roles, cache>>

-----------------------------------------------------------------------------
\* findById; a hit changes nothing and is no step, and nor is the 404.

Find(p, at, t) ==
    /\ req[p].pc = "idle"
    /\ t \in born
    /\ cache[at][t] = NoEntry
    /\ Become(p, [pc |-> "query", at |-> at, tenant |-> t])
    /\ UNCHANGED <<tenants, born, deleted, roles, stage, cache>>

Query(p) ==
    LET t == req[p].tenant IN
    /\ req[p].pc = "query"
    /\ IF Stored(t)
       THEN Become(p, [pc |-> "fill", at |-> req[p].at, tenant |-> t,
                       ent |-> tenants[t]])
       ELSE Finish(p)
    /\ UNCHANGED <<tenants, born, deleted, roles, stage, cache>>

Fill(p) ==
    /\ req[p].pc = "fill"
    /\ SetEntry(req[p].at, req[p].tenant, req[p].ent)
    /\ Finish(p)
    /\ UNCHANGED <<tenants, born, deleted, roles, stage>>

\* The TTL of the entry has passed, or its process has ended.
Expire(at, t) ==
    /\ cache[at][t] # NoEntry
    /\ SetEntry(at, t, NoEntry)
    /\ UNCHANGED <<tenants, born, deleted, roles, stage, req>>

-----------------------------------------------------------------------------
\* update

\* The row with the payload assigned to it; a new slug is looked up first.
StartUpdate(p, at, t, s, status, sets) ==
    /\ req[p].pc = "idle"
    /\ Stored(t)
    /\ Become(p, [pc |-> IF s = tenants[t].slug THEN "save" ELSE "checkNewSlug",
                  at |-> at, tenant |-> t, sets |-> sets,
                  ent |-> [slug |-> s, status |-> status]])
    /\ UNCHANGED <<tenants, born, deleted, roles, stage, cache>>

\* Mutant: a payload without a status counts as one with the default.
ReadForUpdate_Default(p, at, t) ==
    \E s \in Slug, sets \in Status \cup {"same"} :
        StartUpdate(p, at, t, s, IF sets = "same" THEN "ACTIVE" ELSE sets, sets)

ReadForUpdate(p, at, t) ==
    \E s \in Slug, sets \in Status \cup {"same"} :
        StartUpdate(p, at, t, s,
                    IF sets = "same" THEN tenants[t].status ELSE sets, sets)

CheckNewSlug(p) ==
    /\ req[p].pc = "checkNewSlug"
    /\ IF SlugFree(req[p].ent.slug)
       THEN Become(p, [req[p] EXCEPT !.pc = "save"])
       ELSE Finish(p)
    /\ UNCHANGED <<tenants, born, deleted, roles, stage, cache>>

SaveLoad(p) ==
    /\ req[p].pc = "save"
    /\ Become(p, [pc |-> "write", at |-> req[p].at, tenant |-> req[p].tenant,
                  ent |-> req[p].ent, loaded |-> tenants[req[p].tenant]])
    /\ UNCHANGED <<tenants, born, deleted, roles, stage, cache>>

\* The second statement of a save.  An INSERT meets a row of that id or of
\* that slug, an UPDATE a row of that slug; an UPDATE of a deleted row does
\* nothing and is no error.
SaveWrite(p) ==
    LET t == req[p].tenant
        inserts == req[p].loaded = NoRow
        noRow == ~inserts /\ ~Stored(t)
        written == IF inserts THEN req[p].ent
                              ELSE Merged(req[p].ent, req[p].loaded, tenants[t])
        fails == ~noRow /\ ((inserts /\ Stored(t)) \/ ~UniqueSlug(t, written))
    IN
    /\ req[p].pc = "write"
    /\ tenants' = IF fails \/ noRow THEN tenants
                                    ELSE [tenants EXCEPT ![t] = written]
    /\ Become(p, IF fails THEN Idle
                 ELSE [pc |-> "invalidate", at |-> req[p].at, tenant |-> t])
    /\ UNCHANGED <<born, deleted, roles, stage, cache>>

\* The last step of update and of delete.
Invalidate(p) ==
    /\ req[p].pc = "invalidate"
    /\ SetEntry(req[p].at, req[p].tenant, NoEntry)
    /\ Finish(p)
    /\ UNCHANGED <<tenants, born, deleted, roles, stage>>

-----------------------------------------------------------------------------
\* delete

ReadForDelete(p, at, t) ==
    /\ req[p].pc = "idle"
    /\ Stored(t)
    /\ Become(p, [pc |-> "remove", at |-> at, tenant |-> t])
    /\ UNCHANGED <<tenants, born, deleted, roles, stage, cache>>

\* Mutant: the foreign key of roles does not cascade.
Remove_NoCascade(p) ==
    LET t == req[p].tenant IN
    /\ req[p].pc = "remove"
    /\ tenants' = [tenants EXCEPT ![t] = NoRow]
    /\ deleted' = deleted \cup {t}
    /\ Become(p, [pc |-> "invalidate", at |-> req[p].at, tenant |-> t])
    /\ UNCHANGED <<born, roles, stage, cache>>

\* The foreign keys of roles, users, keys and webhooks cascade.
Remove(p) ==
    LET t == req[p].tenant IN
    /\ req[p].pc = "remove"
    /\ tenants' = [tenants EXCEPT ![t] = NoRow]
    /\ deleted' = deleted \cup {t}
    /\ roles' = [roles EXCEPT ![t] = {}]
    /\ Become(p, [pc |-> "invalidate", at |-> req[p].at, tenant |-> t])
    /\ UNCHANGED <<born, stage, cache>>

-----------------------------------------------------------------------------
\* initializeTenant

SetStage(t, next) == stage' = [stage EXCEPT ![t] = next]

\* A tenant that has a role already is left as it is.  Today none has: create
\* is the only caller, and nobody may create roles before these are there.
FindRoles(t) ==
    /\ stage[t] = "findRoles"
    /\ SetStage(t, IF roles[t] = {} THEN "findPermissions" ELSE "skipped")
    /\ UNCHANGED <<tenants, born, deleted, roles, cache, req>>

FindPermissions(t) ==
    /\ stage[t] = "findPermissions"
    /\ SetStage(t, FirstRole)
    /\ UNCHANGED <<tenants, born, deleted, roles, cache, req>>

\* The save of a role with its permissions is one transaction; without the
\* tenant it meets the foreign key.
SaveRole(t) ==
    /\ stage[t] \in DefaultRole
    /\ IF Stored(t)
       THEN /\ roles' = [roles EXCEPT ![t] = @ \cup {stage[t]}]
            /\ SetStage(t, RoleAfter[stage[t]])
       ELSE SetStage(t, "failed") /\ UNCHANGED roles
    /\ UNCHANGED <<tenants, born, deleted, cache, req>>

Onboard(t) == FindRoles(t) \/ FindPermissions(t) \/ SaveRole(t)

\* A database error, which create has chosen to ignore, or the end of the
\* process: nobody takes the rest up again.
OnboardingFails(t) ==
    /\ stage[t] \in {"findRoles", "findPermissions"} \cup DefaultRole
    /\ SetStage(t, "failed")
    /\ UNCHANGED <<tenants, born, deleted, roles, cache, req>>

-----------------------------------------------------------------------------
\* A request fails at the database, or the process ends: the rest is not done.
Abort(p) ==
    /\ req[p].pc # "idle"
    /\ Finish(p)
    /\ UNCHANGED <<tenants, born, deleted, roles, stage, cache>>

\* What a request does once it has begun: each await comes back.
Continue(p) ==
    \/ Insert(p)
    \/ CacheNew(p)
    \/ Welcome(p)
    \/ Query(p)
    \/ Fill(p)
    \/ CheckNewSlug(p)
    \/ SaveLoad(p)
    \/ SaveWrite(p)
    \/ Invalidate(p)
    \/ Remove(p)

Begin(p, at) ==
    \/ \E s \in Slug : CheckSlug(p, at, s)
    \/ \E t \in Tenant : Find(p, at, t)
    \/ \E t \in Tenant : ReadForUpdate(p, at, t)
    \/ \E t \in Tenant : ReadForDelete(p, at, t)

Next ==
    \/ \E p \in Proc : Continue(p) \/ Abort(p)
    \/ \E p \in Proc, at \in Replica : Begin(p, at)
    \/ \E at \in Replica, t \in Tenant : Expire(at, t)
    \/ \E t \in Tenant : Onboard(t) \/ OnboardingFails(t)

Spec == Init /\ [][Next]_vars

-----------------------------------------------------------------------------
\* Properties

\* Type invariant: roles belong to stored tenants, and whatever knows a tenant
\* knows one that was inserted once.
TypeOK ==
    /\ tenants \in [Tenant -> Row \cup {NoRow}]
    /\ born \subseteq Tenant /\ deleted \subseteq born
    /\ roles \in [Tenant -> SUBSET DefaultRole]
    /\ stage \in [Tenant -> Stage]
    /\ cache \in [Replica -> [Tenant -> Row \cup {NoEntry}]]
    /\ req \in [Proc -> Request]
    /\ \A t \in Tenant :
          /\ Stored(t) => t \in born
          /\ ~Stored(t) => roles[t] = {}
    /\ \A p \in Proc : req[p].pc \notin {"idle", "insert"} => req[p].tenant \in born

\* create and update look for the slug and write later (lines 32-48, 167-181);
\* whatever overlaps, two stored tenants never share one.
OneTenantPerSlug ==
    \A t, other \in Tenant :
        Stored(t) /\ Stored(other) /\ tenants[t].slug = tenants[other].slug
            => t = other

\* The row, a cache or a request that may still write either says of t that it
\* has this status.
Says(t, status) ==
    \/ Stored(t) /\ tenants[t].status = status
    \/ \E at \in Replica : cache[at][t] # NoEntry /\ cache[at][t].status = status
    \/ \E p \in Proc : /\ req[p].pc \in {"cacheNew", "fill", "checkNewSlug",
                                         "save", "write"}
                       /\ req[p].tenant = t
                       /\ req[p].ent.status = status

\* Nothing brings back a status that neither the row nor a cache nor a request
\* in flight has: it takes an update of a stored tenant whose payload says so.
\* So a tenant that is suspended, or deleted, everywhere stays so, whatever
\* stale saves and late lookups follow (lines 85-101 and 180-184).
StatusHolds ==
    [][\A t \in born, status \in Status : ~Says(t, status) =>
          \/ ~Says(t, status)'
          \/ \E p \in Proc : /\ req[p].pc = "idle" /\ req'[p].pc # "idle"
                             /\ Stored(t) /\ req'[p].tenant = t
                             /\ req'[p].sets = status]_vars

\* create answers before the default roles are there (line 61).  If onboarding
\* comes to its end and the tenant was not deleted meanwhile, the tenant has
\* all three, and its admin may call every guarded route.
RolesComplete ==
    \A t \in Tenant \ deleted :
        stage[t] = "done" =>
            /\ roles[t] = DefaultRole
            /\ Required \subseteq UNION {Granted(r) : r \in roles[t]}
=============================================================================
