# TLA+ specifications of the multi-tenant SaaS gateway

The gateway is a NestJS application (TypeScript, TypeORM on PostgreSQL,
cache-manager, Kafka). A request runs in an async handler, and everything it
awaits lets other requests run, in the same process and in the other replicas
(the Helm charts run 3 to 10). No handler opens a transaction of its own, takes
a lock or sets an isolation level, and no entity has a version column. What can
go wrong is therefore almost always of one kind: a handler reads a row or a
cache, awaits something, and writes what it made of the old value. The modules
here say what survives that, and the runs and proofs check it.

## The system

| Component | State | Operations | What makes it hard |
|---|---|---|---|
| API keys (`modules/api-keys`) | table `api_keys` | create, update, revoke, delete, rotate, validate | limit counted before the insert; `validate` saves a row it read earlier |
| Auth (`modules/auth/services`) | tables `users`, `password_reset_tokens` | register, login, change password, request and perform a reset, refresh | bcrypt between read and save; two saves in a reset; tokens revoked and inserted separately |
| Users (`modules/users`) | table `users`, cache `user:<id>`, topic `user.events` | create, find, update, delete | cache and event before or after the write; stale saves; caches per replica |
| Tokens (`auth/services`, `auth/strategies`) | tokens in the hands of clients | issue, refresh, expire | nothing is stored or revoked; only a refresh looks at the row |
| Profile (`modules/profile`) | table `users` | update the name | saves the whole row |
| RBAC (`modules/rbac`) | tables `roles`, `user_roles`, caches `rbac:perms`, `rbac:roles` | assign, remove, create, delete, the lookups of the guard | lost updates of the role list; late fills; caches per replica |
| Tenants (`modules/tenants`) | table `tenants`, cache `tenant:<id>`, topic `tenant.events` | create, find, update, delete, onboarding | slug race; stale saves; onboarding neither awaited nor retried; cascades that tell no cache |
| Webhooks (`modules/webhooks`) | table `webhooks`, receivers | create, update, rotate, trigger with retries | counters and secret in a stale entity; save inside the retried block |
| Cache (`modules/redis`) | one in-memory store per process | get, set, del, clear | no store is configured, so replicas do not share it |
| Audit (`modules/audit`) | table `audit_logs` | one INSERT per request | after the response, errors swallowed, gone with the tenant |
| Events (`common/services`, `modules/kafka`) | Kafka topics | publish | fire and forget; one event precedes what it reports |
| Throttler, tenant middleware, health, filters, logging, DTOs, configuration | none | | stateless, or never registered |

The components meet in the database: foreign keys cascade from tenants to
users, keys, roles and webhooks, and from users to tokens and `user_roles`.
Several services write the same row of `users` and know nothing of each other.

For each component, the properties that make it correct:

- API keys: a revoked, expired or deleted key is not used again; a rotated
  secret is not valid again; a tenant does not have more keys than configured;
  a key never moves to another tenant.
- Accounts: a replaced password is not valid again; a barred user stays out; a
  deleted user stays deleted; a reset token works once, and a user has one.
- RBAC: nobody holds a role that does not exist; a role that was taken away
  stays away; caches do not outlive an invalidation, and in the end agree with
  the database.
- Users: a user who is gone is gone from the table, from the caches and, in the
  end, from every session; every deletion has its record, and its event unless
  publishing failed; an event has its deletion, up to what broke off.
- Tenants: no two share a slug; an onboarding that ends leaves all default
  roles; a status that was taken away everywhere stays away.
- Webhooks: at most `maxRetries` posts per delivery, every trigger ends, counts
  claim nothing that did not happen, a deactivated webhook is left alone.

## Modules

`Repository` is what TypeORM's `save` does with an entity that has an id: it
SELECTs the row, compares it with the entity the caller holds, and writes the
columns that differ, in a second statement. A column that is merely out of date
in the entity counts as a difference. This one operator (`Column`) is what the
stale saves of the other modules rest on. It is external: it is modelled from
TypeORM's behaviour, not from a file of the repository.

`ApiKeys` models `ApiKeysService`. `rows` is the table. `req[p]` is the
request in slot `p`: its program counter, the key, the entity in its hands and
the row its save has loaded. The actions are named for the statements a handler
awaits: `CountActive`, `Generate`, `Insert` (create); `ReadForUpdate`,
`ReadForRevoke`, `ReadForRotate`, `Validate`, each followed by `SaveLoad` and
`SaveWrite`; `ReadForDelete` and `Remove`. `issued` numbers the secrets,
`deleted` remembers ids that will not come again, `now` is the clock of
`expiresAt` and `lastUsedAt`. `Abort` is a database error or the end of the
process: what was written stays, the rest is not done.

`Accounts` models everything that writes `users` and
`password_reset_tokens`, in the same style; a password is the number of the
bcrypt hash made for it. `resets` is history: how often each token has set a
password. `UpdateProfile` saves the columns as it read them, so it also stands
for every other request that changes columns the module leaves out.

`Rbac` models `RbacService` for one tenant with several replicas, each with its
own cache. Entries expire by an action of their own; no clock is needed.
`outlived` in an entry is history: the saves the entry has been there through
and whose request is not done yet. `Restart` empties the cache of a replica and
ends its requests; `DeleteUser` is the deletion of a user by another service.

`Webhooks` models `WebhookService`. A request has one `job` per webhook, so a
trigger runs its deliveries side by side; a delivery is a loop of posts, each
accepted, refused or timed out, and then a save of its counters. The save of an
accepted delivery is inside the try of the attempt (`SaveThrows`, `Catch`).
`posts` in a job, `accepted` and `exhausted` are history. The service has no
caller of `trigger` yet; it is modelled as it offers it.

`KeyLedger` is what the service of API keys promises, with no table, request or
clock: a key is given out once, to one tenant that has room for it (`Create`),
and is retired for good (`Retire`). `ApiKeysLedger` says how `ApiKeys`
implements it. A key is live while its row is ACTIVE or some request holds an
entity that may still make it so, and retired once neither is the case; the room
per tenant is `MaxActive + |Proc| - 1`. `Insert` is a `Create`, and every other
step retires some keys, or none.

`Users` models `UserService` with what surrounds a row of `users`: the entries
of the caches, the event of a deletion, its audit record, the tokens, and the
tenant that takes its users along. Where `Accounts` is about what the columns of
a row hold, `Users` is about whether there is a row and who still believes in
it; both model the same handlers, cut at the same awaits. `born` and `deleted`
are the ids that were inserted and removed. `grant` is how long the longest
token of a user is still good for; `Tick` runs it down. `announced`,
`unannounced`, `cut` and `lost` are history: the events handed to Kafka, those
that could not be, the deletions that ended between their event and their remove,
the records that were not written or went with the tenant. `PublishUserDeleted`
may fail: the publisher logs and rethrows, and `delete` logs and goes on.
`audited` is the audit log. `DeleteTenant` is the cascade, in one statement;
`TenantComesBack` is the stale save of module `Tenants` that inserts the row
again.

`Tenants` models `TenantService` and `OnboardingService`. `stage[t]` is how far
the onboarding of a tenant has come: a process that `Welcome` starts, that nobody
awaits, and that `OnboardingFails` may end at every await, for good. `SaveRole`
is one transaction per role, as TypeORM's save of an entity with a relation is.
`Granted` is the matching of `DEFAULT_ROLES` with the permissions that the
migration seeds, and `Required` what the guarded routes ask for.

`MCApiKeys`, `MCAccounts`, `MCRbac`, `MCUsers`, `MCTenants` and `MCWebhooks`
instantiate the modules for TLC. They give it symmetry sets where no liveness is
checked; MCApiKeys also holds one restricted specification and MCTenants one
constraint (below). `ApiKeysProofs`, `ApiKeysLimitProofs`, `KeyLedgerProofs`,
`AccountsProofs`, `RbacProofs`, `UsersProofs`, `TenantsProofs` and `WebhooksProofs`
hold the theorems.

Operators with a suffix (`BelowLimit_OffByOne`) are faulty variants of the
operator defined after them. Nothing uses them: they show which slip in the
code a property would notice.

## Runs

| Run | Instance | Checks |
|---|---|---|
| ApiKeysRace | 2 requests, 1 key, 2 tenants, 1 name, clock 0..1, 2 secrets | `TypeOK`, `RetiredStays`, `SupersededStays`, `KeyLedgerImplemented` |
| ApiKeysLimit | 2 requests, 3 keys, 1 tenant, limit 1, `CountingSpec` | `ActiveBounded`, `KeyLedgerImplemented` |
| ApiKeysOverLimit | 2 requests, 2 keys, limit 1 | `LimitKept`, violated |
| AccountsRace | 2 requests, 2 users, 1 token, 1 address, clock 0..1, 3 hashes | `TypeOK`, `SpentStays`, `SupersededStays`, `BarredUntilUpdated`, `DeletedStays` |
| AccountsTokens | 2 requests, 1 user, 3 tokens, 2 hashes | `LiveTokensBounded` |
| AccountsTokenTwice | 2 requests, 1 user, 1 token, 3 hashes | `TokenResetsOnce`, violated |
| AccountsOldPassword | 2 requests, 1 user, 1 token, 3 hashes | `OnlyPasswordRequests`, violated |
| RbacCache | 2 requests, 2 replicas, 1 user, a system role and another | `TypeOK`, `InvalidationComplete`, `RemovedStays` |
| RbacStale | 2 requests, 2 replicas, 1 user, 1 role without permissions, fairness | `StaleEnds` |
| UsersDeletion | 2 requests, 1 replica, 1 user, tokens of 2 ticks, fairness | `TypeOK`, `EventsMatchRows`, `DeletionsOnRecord`, `GoneForGood`, `CachesConverge`, `SessionsEnd` |
| TenantsRace | 2 requests, 1 replica, 2 tenants, 2 slugs, `OneInFocus` | `TypeOK`, `OneTenantPerSlug`, `RolesComplete`, `StatusHolds` |
| WebhooksRetry | 2 requests, 1 webhook, at most 2 attempts, 2 triggers or tests, fairness | `TypeOK`, `PostsBounded`, `CountsAreReal`, `DeactivatedIsSilent`, `RequestsEnd` |

Read-modify-write races need two requests on one row, so two slots reach every
order of the statements of two handlers; a slot is used again after it
finishes, so longer histories are there as well. One key is
enough for the properties of a key; two tenants show that a key does not change
hands. Three keys are more than the bound of `ActiveBounded` allows, so a
violation would fit. `CountingSpec` leaves out update, rotation and the clock,
which do not change the number of ACTIVE keys; the proof of `ActiveBounded`
covers all of `Spec`. Three tokens are more than `LiveTokensBounded` allows.
One address in AccountsRace makes the unique constraint bite at every insert,
and three hashes suffice for a password, its replacement and a third.

In UsersDeletion the histories of different users touch nothing in common but
the tenant, so one user is enough. One replica is enough because another
replica, which an invalidation does not reach, is no worse off than one whose
request fails just before `Invalidate`, and such a request is in the run; so is
a lookup that fills the cache late. Tokens of 2 ticks can be renewed while they
are good. In TenantsRace two tenants compete for a slug. `OneInFocus` keeps TLC to
the states where at most one tenant is cached, onboarded or deleted, while the
other is created and updated: slugs are all that tenants share, and all else
concerns one tenant at a time. The theorems about both modules need neither bound:
they hold for any number of users, tenants and replicas, and without `OneInFocus`.

The bounds are `MaxTime`, `MaxSecret`, `MaxHash`, `MaxTriggers` and the numbers
of ids. Ids,
secrets and hashes are used up in the end, which is why these runs do not check
for deadlock: the code has no wait that could block, the instance merely has no
fresh id left. `Rbac` has no counters; its requests may always come to an end.

Two attempts are a first one and a retry; two triggers make two deliveries with
stale counters overlap, and updates and deletions are not bounded. With one
webhook no trigger waits for two deliveries; they touch different rows, and
`RequestsEnd` needs each to end by itself.

Fairness is assumed in three places. In `FairSpec` of `Rbac`, every await
settles (`WF(Continue(p))`; the database driver and the store answer or
reject), and an entry of a cache expires unless it is replaced before
(`WF(Expire)`, the TTL of 300 passed to every `set`). Requests need not arrive.
The stale entries of RbacStale come from the other replica, from lookups that
fill after the invalidation of a request that overtook them, from the deletion
of a role or a user during a lookup or after it, and from requests that fail
before they invalidate. The role has no permissions there, since the two kinds
of entries differ only in what they say, and the permissions of a role never
change once it is created: stale names stand for stale permissions. In
`FairSpec` of `Users` the same holds of requests and entries, and time passes
while anybody holds a token (`WF(Tick)`); a tenant, an audit log and a broker
owe nothing. In `Spec` of `Webhooks`, a job continues (`WF(Continue(p, w))`):
the timer of `AbortSignal.timeout` fires and the database answers or reports an
error. Receivers owe nothing: `Accept` and `Refuse` have no fairness.

### What the violated runs show

- `LimitKept`: two creates count `MaxActive - 1` keys, both insert.
- `TokenResetsOnce`: a reset has saved the password and not yet marked the
  token; another request with the token, or the same one after a crash, sets
  the password again.
- `OnlyPasswordRequests`: login, profile or update reads the user, a password
  change runs from start to end, and the save of the first request writes the
  old hash back. The caller of the change was told that it succeeded, and the
  old password is valid.

The passing properties say how far that goes. They are stated with the requests
in flight: once no request holds an entity from before, what was retired,
replaced, spent or barred cannot come back.

## Proofs

Every safety invariant and every action property that a passing run checks is
proved, for every value of the constants. The assumptions are the `ASSUME`s of
the modules: the markers for "no value" are not values, the bounds are natural
numbers, sets that a property counts are finite (requests and keys in `ApiKeys`,
requests and tokens in `Accounts`, requests in `Webhooks`), where a bound
refers to the number of requests there is at least one, and the roles of
onboarding are roles. All else is arbitrary: users, roles, names, tenants,
replicas, webhooks and all bounds.

Several invariants are not inductive as they stand; the strengthened ones, and
why they are needed, are named below.

`ApiKeysProofs`, `ApiKeysLimitProofs` and `KeyLedgerProofs` are about `ApiKeys`:

- `TypeCorrect` (ApiKeysProofs): `Spec => []TypeOK`, one step per action. The
  part of `TypeOK` that says what a request holds at each program counter makes
  it inductive.
- `RetirementIsFinal` (ApiKeysProofs): `Spec => RetiredStays`. Every handler
  that writes ACTIVE either holds an entity that says so already, or is the
  insert of a new key; `Generate` draws no key that was deleted or is stored.
- `SupersededSecretsStay` (ApiKeysProofs): `Spec => SupersededStays`. A row or an
  entity gets the secret of a row, of an entity of the same key, or a fresh one;
  fresh ones are larger than all that were issued (`SecretWritten`, `SecretHeld`).
- `ActiveKeysAreBounded` (ApiKeysLimitProofs): `Spec => []ActiveBounded`. The
  invariant itself is not inductive, since a create that has counted and a
  stale ACTIVE entity may both add a key later. `Budget` counts them in
  advance: keys that are ACTIVE or held as ACTIVE by some request, plus creates
  that have passed the limit and not drawn a key, are at most
  `MaxActive + |Proc| - 1`. Only `CountActive` adds to that sum. When it runs,
  ACTIVE keys are below the limit, and every other request adds at most one.
  Saves of stale entities add nothing since their key is counted already.
  `KeysKnown` (an insert's key is known to nobody else) and `OneTenant` (a row
  and all entities of it name one tenant) are needed for the sums per tenant.
- `KeysKeepTheirTenant`: `Spec => []OneTenant`.
- `LimitHoldsAlone`: with one request at a time the limit holds as documented.
- `LedgerIsImplemented` (KeyLedgerProofs): `Spec => KeyLedgerImplemented`. An
  `Insert` maps to a `Create` whose room is what `Budget` left when the create
  was counted; every other step maps to a `Retire`, perhaps of no key. For that
  the live and the retired keys together must be the known ones, apart from each
  other (`Partition`), no key may be live for two tenants (`OneOwner`, from
  `OneTenant`), and a key that is usable after a step but was not before must be
  the one inserted (`NewAreActive`).

`AccountsProofs` is about `Accounts`. `Moves` sorts what any step makes of a
request into four kinds: one with no password in hand, a registration, a save
that begins with the row as it is, and a save that has loaded its row. `UserAfter`
and `TokenAfter` say what any step makes of a row. The action properties follow
from these:

- `TypesHold`: `Spec => []TypeOK`, for users, tokens and requests in turn. That a
  token never outlives its user is the foreign key: a token is inserted for a
  stored user, and the deletion of the user takes its tokens along.
- `LiveTokensAreBounded`: `Spec => []LiveTokensBounded`. The bound is not
  inductive, since a request that has revoked the tokens adds one later.
  `TokensPaid` counts these in advance: the live tokens of a user plus the
  requests past `RevokeTokens` are no more than there are requests.
  `RevokeTokens` resets the sum to the requests past it, `InsertToken` exchanges
  one for the other, and nothing else adds to it.
- `SpentTokensStay`: `Spec => SpentStays`. A save carries a token only if it was
  live when the request read it, and only a fresh token is inserted.
- `SupersededPasswordsStay`: `Spec => SupersededStays`. A hash in a row or in an
  entity comes from one of them or is new.
- `BarredUsersStay`: `Spec => BarredUntilUpdated`, and `DeletedUsersStay`:
  `Spec => DeletedStays`. A save begins with the row as it is; one that began
  before is what the hypotheses of the two properties exclude.

`RbacProofs` is about `Rbac`:

- `TypesHold`: `Spec => []TypeOK`. The substance is in the tables
  (`SaveTables`): what a save adds is stored at that moment or it rolls back,
  and a save whose user is deleted between its two statements rolls back unless it
  has nothing to add.
- `ReturnedSavesServeNothingOlder`: `Spec => []InvalidationComplete`. The
  invariant only says that the request which saved is still at work; a request
  with the wrong deletions left would do. `EveryEntryIsOwed` says that what it
  has left to delete is this entry, at its own replica, of this user and this
  kind, and is inductive. A restart takes the caches and the requests of one
  replica together; a request that fails before its deletions owes nothing any
  more, and its entries are left to the TTL.
- `RemovedRolesStay`: `Spec => RemovedStays`. A save adds what its entity has and
  what it loaded has not; entities are read from the row or name the role they
  were asked for (`CarriesBegin`, `CarriesContinue`, `NotWritten`).

`WebhooksProofs` is about `Webhooks`. One invariant, `Inv`, carries all but the
last theorem:

- `TypesHold`: `Spec => []TypeOK`. The counters of a row are bounded by `Count`
  only because each delivery and each failure is paid for by a trigger. `PostsPaid`
  counts what was accepted plus what the running deliveries may still post,
  `FailuresPaid` what was given up plus the deliveries that may still give up. A
  trigger pays for both when it starts.
- `PostsAreBounded`: `Spec => []PostsBounded`. `Phase` relates attempts, posts and
  place in the code; with it a post that is followed by a failing save counts as
  an attempt.
- `NothingCountedTwice`: `Spec => []CountsAreReal`. `CarriedReal` says of every
  entity in hand what the invariant says of the rows, since a stale entity may
  be saved at any time.
- `DeactivatedStaysSilent`: `Spec => DeactivatedIsSilent`. A save writes the
  column isActive of its entity or of the row, and a trigger starts at rows that
  say active.

`UsersProofs` is about `Users`, from the assumptions that `Life` is a natural
number and that the markers are not values:

- `TypesHold`: `Spec => []TypeOK`. `TypeOK` is inductive with `Support`: who is
  stored was born, a deletion past its first step was announced or its event
  failed, and one past its removal was done.
- `EventsAccounted`: `Spec => []EventsMatchRows`: no user is deleted before the
  attempt to publish the event, and no announced one is left stored without a
  reason. A deletion without an event is one whose publishing failed
  (`unannounced`). The invariant excuses everybody who is not stored. Without the excuse (`Accounted`) it is inductive;
  with it, it is not, since a stale save may store a user again.
- `RecordsAccounted`: `Spec => []DeletionsOnRecord`, inductive as it stands.
- `GoneStaysGone`: `Spec => GoneForGood`. Every write of a row, an entry or a
  token is by a request that carries what it read of the user, and only a stored
  user can be read.

`TenantsProofs` is about `Tenants`, from the assumption that the markers are not
values:

- `TypesHold`: `Spec => []TypeOK`, for rows, stages, caches and slots in turn.
- `SlugsAreUnique`: `Spec => []OneTenantPerSlug`. The looks at the slug are not
  used: the unique column alone carries the proof.
- `OnboardingCompletes`: `Spec => []RolesComplete`. `Progress` says for each
  stage which roles are there (`RolesBefore`), as long as the tenant was not
  deleted; `AdminMayAll` is the wildcard.
- `StatusesHold`: `Spec => StatusHolds`. A save writes, column by column, what
  its entity or the row says, so nothing writes a status that nobody says,
  except an update whose payload has it.

Only model-checked: `StaleEnds`, `RequestsEnd`, `CachesConverge` and `SessionsEnd`.
They are liveness under fairness, for which one must prove that actions are
enabled, and the proof system does not reach that. The three properties of the
violated runs are not theorems, since they do not hold.

## Observations

What the models had to follow and a reader of the code may not expect. These
are no findings of a run: the properties are stated so that they hold.

- The roles of a new tenant are there, but nobody in it holds one, and the routes
  that assign roles ask for `roles:update`: its users cannot get a role through
  the API.
- Roles have no unique constraint on tenant and name; `initializeTenant` relies
  on being called once. Nothing calls it again, so a partial run stays partial.
- A tenant that is deleted between the two statements of an update's save stays
  away, but one deleted before the first of them is inserted again, without users,
  keys and roles.
- No guard and no login reads the status of the tenant; a suspended tenant works
  as before.
- `tenant.deleted` is published after `remove`, which takes the id off the
  entity.
- The TTL of 300 is meant as five minutes; cache-manager, as of the version that
  `@nestjs/cache-manager` 3 needs, takes milliseconds. The models have no
  durations: an entry may expire at any moment, and in the end does.
- When `publishUserDeleted` fails, the user is deleted without an event. The
  comment above it speaks of transactional consistency; nothing repeats the event.
- The entities that `database.module.ts` registers (line 25) do not include
  `Webhook` and `PasswordResetToken`, and it does not set `autoLoadEntities`;
  TypeORM finds no metadata for them until they are listed. `Webhooks` and
  `Accounts` model the services as they work with the tables the migrations
  create.

## Not modelled, and why

- Signatures of tokens (library code); `JwtStrategy` looks nothing up, so a token
  is good until it expires, which is how `grant` treats it.
- Events other than `user.deleted`: they come last in their handlers, nothing in
  the program consumes them, and delivery is the broker's. Audit records of other
  actions: the same lines run for all of them.
- The cascade from a tenant to its keys, roles and webhooks in the modules of
  those tables: `ApiKeys`, `Rbac` and `Webhooks` take their tenants as given.
  `Tenants` has the cascade to roles, `Users` that to users and audit records.
- The order of the two reads that `assignRoleToUser` starts in parallel:
  `AssignRole` is one step. A role that is deleted between them is met by the
  foreign key at the save, as one that is deleted after both.
- `CacheService.clear` and the keys of cached lists: nothing calls the one or sets
  the others.
- `RbacGuard`: lookups only, which are `LookUp`, `Query` and `Fill` of `Rbac`.
- The throttler guard (not registered), tenant middleware, health, filters,
  interceptors that log, DTOs, configuration: no state of their own, or a single
  step without any interleaving.
- Read operations are not actions unless they fill a cache. Running and reverting
  migrations.
- ARCHIVED users are treated as INACTIVE ones, and statuses of tenants other than
  ACTIVE as SUSPENDED. Columns that no condition reads (name of a user,
  description, metadata, scopes) are left out, among them url, events and secret
  of a webhook.

## Plan

Done: the core modules, `Users`, `Tenants`, `KeyLedger` with its refinement, and
the proofs of all invariants and action properties. Left:

- A composition of `Users` and `Tenants`, in which `DeleteTenant` and
  `TenantComesBack` are the steps of `Tenants` themselves.
- An abstract specification of the life of a reset token (issued, live, spent, for
  one user with room for it), which `Accounts` implements as `ApiKeys` does
  `KeyLedger`.
