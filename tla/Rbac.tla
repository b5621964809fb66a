------------------------------- MODULE Rbac --------------------------------
(***************************************************************************)
(* RbacService (src/src/modules/rbac/rbac.service.ts) and the guard that   *)
(* asks it: the tables roles and user_roles of one tenant, and the role    *)
(* names and permissions of its users that every replica of the gateway    *)
(* caches in its own memory.                                               *)
(*                                                                         *)
(*   getUserRoleNames, getUserPermissions      LookUp -> Query -> Fill     *)
(*   assignRoleToUser, removeRoleFromUser                                  *)
(*        <read> -> SaveLoad -> SaveWrite -> Invalidate, once per kind     *)
(*   deleteRole                                ReadForDelete -> RemoveRow  *)
(*                                                                         *)
(* A lookup that hits the cache changes nothing and is no step; RbacGuard  *)
(* is one lookup or two.  The columns of the users table that assign and   *)
(* remove save as they read them are the subject of module Accounts.  The  *)
(* members of Perm are the active permissions.  Time is not modelled: an   *)
(* entry of a cache expires at some moment.                                *)
(***************************************************************************)
EXTENDS FiniteSets

CONSTANTS
    Proc,         \* requests that may be in flight at the same time
    Replica,      \* processes of the gateway
    User,
    Role,         \* ids of roles, given out by the database
    SystemRole,   \* the roles that onboarding made for the tenant
    Name, Perm,
    NoRow, NoEntry

ASSUME SystemRoleAssumption == SystemRole \subseteq Role

Kind == {"roles", "perms"}
Row == [name : Name, perms : SUBSET Perm, isSystem : BOOLEAN]

\* What is cached of a user: the names of the roles, or the permissions.
Value == (SUBSET Name) \cup (SUBSET Perm)

\* outlived is history: the saves that the entry has been there through and
\* whose request is not done yet.
Entry == [value : Value, outlived : SUBSET Proc]

PC == {"query", "fill", "save", "write", "invalidate"}
Request ==
    [pc : {"idle"}]
        \cup [pc : {"remove"}, at : Replica, role : Role]
        \cup [pc : {"query"}, at : Replica, user : User, kind : Kind]
        \cup [pc : {"fill"}, at : Replica, user : User, kind : Kind, value : Value]
        \cup [pc : {"save"}, at : Replica, user : User, role : Role,
              ent : SUBSET Role]
        \cup [pc : {"write"}, at : Replica, user : User, ent : SUBSET Role,
              found : BOOLEAN, loaded : SUBSET Role]
        \cup [pc : {"invalidate"}, at : Replica, user : User, todo : SUBSET Kind]

Idle == [pc |-> "idle"]

ASSUME NoValueAssumption ==
    NoRow \notin Row /\ NoEntry \notin Entry

VARIABLES
    users,       \* ids in the users table
    roles,       \* the roles table; NoRow where there is no row of that id
    gone,        \* ids of roles that were deleted at some time
    userRoles,   \* the user_roles table
    cache,       \* per replica, user and kind: an Entry or NoEntry
    req          \* what each request slot is doing

vars == <<users, roles, gone, userRoles, cache, req>>

-----------------------------------------------------------------------------

StoredRoles == {r \in Role : roles[r] # NoRow}

\* What the database says of a user: the names or the permissions of the roles.
Answer(u, kind) ==
    IF kind = "roles" THEN {roles[r].name : r \in userRoles[u]}
                      ELSE UNION {roles[r].perms : r \in userRoles[u]}

Become(p, request) == req' = [req EXCEPT ![p] = request]
Finish(p) == Become(p, Idle)

SetEntry(at, u, kind, entry) == cache' = [cache EXCEPT ![at][u][kind] = entry]

\* history: f is applied to outlived of the entries of user u at a replica.
Mark(at, u, f(_)) ==
    LET Marked(entry) == [entry EXCEPT !.outlived = f(@)] IN
    cache' = [cache EXCEPT ![at][u] =
                [kind \in Kind |->
                   IF cache[at][u][kind] = NoEntry THEN NoEntry
                   ELSE Marked(cache[at][u][kind])]]

NoCache == [u \in User |-> [kind \in Kind |-> NoEntry]]

Init ==
    /\ users = User
    /\ \E name \in [SystemRole -> Name] :
          roles = [r \in Role |->
                     IF r \in SystemRole
                     THEN [name |-> name[r], perms |-> Perm, isSystem |-> TRUE]
                     ELSE NoRow]
    /\ gone = {}
    /\ userRoles = [u \in User |-> {}]
    /\ cache = [at \in Replica |-> NoCache]
    /\ req = [p \in Proc |-> Idle]

-----------------------------------------------------------------------------
\* Lookups

LookUp(p, at, u, kind) ==
    /\ req[p].pc = "idle"
    /\ cache[at][u][kind] = NoEntry
    /\ Become(p, [pc |-> "query", at |-> at, user |-> u, kind |-> kind])
    /\ UNCHANGED <<users, roles, gone, userRoles, cache>>

\* The answer for a user who is not there is empty and not cached.
Query(p) ==
    LET u == req[p].user  kind == req[p].kind IN
    /\ req[p].pc = "query"
    /\ IF u \in users
       THEN Become(p, [pc |-> "fill", at |-> req[p].at, user |-> u,
                       kind |-> kind, value |-> Answer(u, kind)])
       ELSE Finish(p)
    /\ UNCHANGED <<users, roles, gone, userRoles, cache>>

Fill(p) ==
    /\ req[p].pc = "fill"
    /\ SetEntry(req[p].at, req[p].user, req[p].kind,
                [value |-> req[p].value, outlived |-> {}])
    /\ Finish(p)
    /\ UNCHANGED <<users, roles, gone, userRoles>>

\* Mutant: the entries with role names are cached without a TTL.
Expire_PermsOnly(at, u, kind) ==
    /\ kind = "perms"
    /\ cache[at][u][kind] # NoEntry
    /\ SetEntry(at, u, kind, NoEntry)
    /\ UNCHANGED <<users, roles, gone, userRoles, req>>

\* The TTL of the entry has passed.
Expire(at, u, kind) ==
    /\ cache[at][u][kind] # NoEntry
    /\ SetEntry(at, u, kind, NoEntry)
    /\ UNCHANGED <<users, roles, gone, userRoles, req>>

-----------------------------------------------------------------------------
\* assignRoleToUser and removeRoleFromUser

\* role is the one that the request was asked to assign or to remove.
StartSave(p, at, u, r, ent) ==
    /\ Become(p, [pc |-> "save", at |-> at, user |-> u, role |-> r, ent |-> ent])
    /\ UNCHANGED <<users, roles, gone, userRoles, cache>>

\* Mutant: the role is looked up by the tenant alone.
AssignRole_Any(p, at, u, r) ==
    /\ req[p].pc = "idle"
    /\ u \in users /\ r \in StoredRoles
    /\ r \notin userRoles[u]
    /\ \E any \in StoredRoles : StartSave(p, at, u, r, userRoles[u] \cup {any})

AssignRole(p, at, u, r) ==
    /\ req[p].pc = "idle"
    /\ u \in users /\ r \in StoredRoles
    /\ r \notin userRoles[u]
    /\ StartSave(p, at, u, r, userRoles[u] \cup {r})

RemoveRole(p, at, u, r) ==
    /\ req[p].pc = "idle"
    /\ u \in users
    /\ StartSave(p, at, u, r, userRoles[u] \ {r})

SaveLoad(p) ==
    LET u == req[p].user IN
    /\ req[p].pc = "save"
    /\ Become(p, [pc |-> "write", at |-> req[p].at, user |-> u, ent |-> req[p].ent,
                  found |-> u \in users, loaded |-> userRoles[u]])
    /\ UNCHANGED <<users, roles, gone, userRoles, cache>>

\* The rows of user_roles that the save inserts and deletes: the difference
\* between the entity's roles and those it has just loaded.
Added(p) == req[p].ent \ req[p].loaded
Dropped(p) == req[p].loaded \ req[p].ent

\* A primary or a foreign key is violated, and the transaction rolls back.
SaveFails(p) ==
    LET u == req[p].user IN
    \/ ~req[p].found /\ u \in users
    \/ req[p].found /\ u \notin users /\ Added(p) # {}
    \/ Added(p) \cap userRoles[u] # {}
    \/ ~(Added(p) \subseteq StoredRoles)

SaveWrite(p) ==
    LET u == req[p].user  at == req[p].at
        OutlivesThis(saves) == saves \cup {p}
    IN
    /\ req[p].pc = "write"
    /\ IF SaveFails(p)
       THEN Finish(p) /\ UNCHANGED <<users, userRoles, cache>>
       ELSE /\ users' = IF req[p].found THEN users ELSE users \cup {u}
            /\ userRoles' = [userRoles EXCEPT ![u] = (@ \ Dropped(p)) \cup Added(p)]
            /\ Mark(at, u, OutlivesThis)
            /\ Become(p, [pc |-> "invalidate", at |-> at, user |-> u, todo |-> Kind])
    /\ UNCHANGED <<roles, gone>>

Invalidated(p, kind) ==
    LET left == req[p].todo \ {kind} IN
    Become(p, IF left = {} THEN Idle ELSE [req[p] EXCEPT !.todo = left])

\* Mutant: both deletions name the key of the permissions.
Invalidate_PermsTwice(p, kind) ==
    /\ req[p].pc = "invalidate" /\ kind \in req[p].todo
    /\ SetEntry(req[p].at, req[p].user, "perms", NoEntry)
    /\ Invalidated(p, kind)
    /\ UNCHANGED <<users, roles, gone, userRoles>>

\* The two deletions run at the same time; either may come first.
Invalidate(p, kind) ==
    /\ req[p].pc = "invalidate" /\ kind \in req[p].todo
    /\ SetEntry(req[p].at, req[p].user, kind, NoEntry)
    /\ Invalidated(p, kind)
    /\ UNCHANGED <<users, roles, gone, userRoles>>

-----------------------------------------------------------------------------
\* Roles and users come and go; neither deletion touches the caches.

CreateRole(r, name, perms) ==
    /\ r \notin StoredRoles \cup gone
    /\ roles' = [roles EXCEPT ![r] =
                   [name |-> name, perms |-> perms, isSystem |-> FALSE]]
    /\ UNCHANGED <<users, gone, userRoles, cache, req>>

ReadForDelete(p, at, r) ==
    /\ req[p].pc = "idle"
    /\ r \in StoredRoles /\ ~roles[r].isSystem
    /\ Become(p, [pc |-> "remove", at |-> at, role |-> r])
    /\ UNCHANGED <<users, roles, gone, userRoles, cache>>

\* Mutant: the foreign key of user_roles does not cascade.
RemoveRow_NoCascade(p) ==
    LET r == req[p].role IN
    /\ req[p].pc = "remove"
    /\ roles' = [roles EXCEPT ![r] = NoRow]
    /\ gone' = gone \cup {r}
    /\ Finish(p)
    /\ UNCHANGED <<users, userRoles, cache>>

RemoveRow(p) ==
    LET r == req[p].role IN
    /\ req[p].pc = "remove"
    /\ roles' = [roles EXCEPT ![r] = NoRow]
    /\ gone' = gone \cup {r}
    /\ userRoles' = [u \in User |-> userRoles[u] \ {r}]
    /\ Finish(p)
    /\ UNCHANGED <<users, cache>>

\* The DELETE of UserService.delete, which drops user:<id> from the cache and
\* not the entries here; the foreign key of user_roles cascades.
DeleteUser(u) ==
    /\ u \in users
    /\ users' = users \ {u}
    /\ userRoles' = [userRoles EXCEPT ![u] = {}]
    /\ UNCHANGED <<roles, gone, cache, req>>

-----------------------------------------------------------------------------
\* A request fails at the database; what it wrote stays, and nobody deletes
\* the entries it did not get to.
Abort(p) ==
    LET ForgetsThis(saves) == saves \ {p} IN
    /\ req[p].pc # "idle"
    /\ IF req[p].pc = "invalidate" THEN Mark(req[p].at, req[p].user, ForgetsThis)
                                   ELSE UNCHANGED cache
    /\ Finish(p)
    /\ UNCHANGED <<users, roles, gone, userRoles>>

\* A replica restarts: its cache is empty and its requests are gone.
Restart(at) ==
    /\ cache' = [cache EXCEPT ![at] = NoCache]
    /\ req' = [p \in Proc |->
                 IF req[p].pc # "idle" /\ req[p].at = at THEN Idle ELSE req[p]]
    /\ UNCHANGED <<users, roles, gone, userRoles>>

\* What a request does once it has begun: each await comes back.
Continue(p) ==
    \/ Query(p)
    \/ Fill(p)
    \/ SaveLoad(p)
    \/ SaveWrite(p)
    \/ \E kind \in Kind : Invalidate(p, kind)
    \/ RemoveRow(p)

Begin(p, at) ==
    \/ \E u \in User, kind \in Kind : LookUp(p, at, u, kind)
    \/ \E u \in User, r \in Role : AssignRole(p, at, u, r)
    \/ \E u \in User, r \in Role : RemoveRole(p, at, u, r)
    \/ \E r \in Role : ReadForDelete(p, at, r)

Next ==
    \/ \E p \in Proc : Continue(p) \/ Abort(p)
    \/ \E p \in Proc, at \in Replica : Begin(p, at)
    \/ \E at \in Replica, u \in User, kind \in Kind : Expire(at, u, kind)
    \/ \E r \in Role, name \in Name, perms \in SUBSET Perm : CreateRole(r, name, perms)
    \/ \E u \in User : DeleteUser(u)
    \/ \E at \in Replica : Restart(at)

Spec == Init /\ [][Next]_vars

\* Every await settles, and every entry expires unless it is replaced first.
Fairness ==
    /\ \A p \in Proc : WF_vars(Continue(p))
    /\ \A at \in Replica, u \in User, kind \in Kind : WF_vars(Expire(at, u, kind))

FairSpec == Spec /\ Fairness

-----------------------------------------------------------------------------
\* Properties

\* Type invariant: nobody holds a role that is not stored, and nobody who is
\* not stored holds a role, however saves and deletions overlap.
TypeOK ==
    /\ users \subseteq User
    /\ roles \in [Role -> Row \cup {NoRow}]
    /\ gone \subseteq Role \ StoredRoles
    /\ userRoles \in [User -> SUBSET StoredRoles]
    /\ \A u \in User \ users : userRoles[u] = {}
    /\ cache \in [Replica -> [User -> [Kind -> Entry \cup {NoEntry}]]]
    /\ req \in [Proc -> Request]

\* When assignRoleToUser or removeRoleFromUser has returned (lines 121-122 and
\* 139-140), its replica serves nothing that was cached before the save.
InvalidationComplete ==
    \A at \in Replica, u \in User, kind \in Kind :
        cache[at][u][kind] # NoEntry =>
            \A p \in cache[at][u][kind].outlived : req[p].pc = "invalidate"

\* The requests that may still write r into the roles of u.
Carries(p, u, r) ==
    req[p].pc \in {"save", "write"} /\ req[p].user = u /\ r \in req[p].ent

\* A role that a user does not hold, and that no request in flight has read
\* for that user, is not given back by a stale save of the other roles: it
\* takes a request to assign that very role (lines 118-121 and 138-139).
RemovedStays ==
    [][\A u \in User, r \in Role :
          r \notin userRoles[u] /\ (\A p \in Proc : ~Carries(p, u, r)) =>
             \/ r \notin userRoles'[u] /\ (\A p \in Proc : ~Carries(p, u, r)')
             \/ \E p \in Proc : /\ req[p].pc = "idle" /\ req'[p].pc = "save"
                                 /\ req'[p].user = u /\ req'[p].role = r]_vars

\* Whatever the lookups cached while roles changed, and although deletions and
\* other replicas invalidate nothing: once the roles of a user keep still,
\* every cache in the end says what the database says, or nothing.
StaleEnds ==
    \A at \in Replica, u \in User, kind \in Kind :
        \A value \in Value :
            <>[](Answer(u, kind) = value) =>
               <>[](cache[at][u][kind] # NoEntry => cache[at][u][kind].value = value)
=============================================================================
