------------------------------ MODULE ApiKeys -------------------------------
(***************************************************************************)
(* ApiKeysService (src/src/modules/api-keys/api-keys.service.ts) over the  *)
(* api_keys table, with several requests in flight at once.  A handler is  *)
(* cut where it awaits the database, so a request is a short sequence of   *)
(* steps that other requests interleave with:                              *)
(*                                                                         *)
(*   create    CountActive -> Generate -> Insert                           *)
(*   update, rotate, revoke, validate                                      *)
(*             <read> -> SaveLoad -> SaveWrite     (see module Repository) *)
(*   delete    ReadForDelete -> Remove                                     *)
(*                                                                         *)
(* A request that throws or returns before it writes leaves nothing behind *)
(* and is no step here.  findAll and findOne change no state.  Scopes and  *)
(* metadata are columns that update treats exactly as it treats the name.  *)
(***************************************************************************)
EXTENDS Integers, FiniteSets, Repository

CONSTANTS
    Proc,        \* requests that may be in flight at the same time
    Key,         \* values randomBytes(24) may give for the column "key"
    Tenant,
    Name,
    MaxActive,   \* API_KEY_MAX_ACTIVE
    Interval,    \* API_KEY_LAST_USED_UPDATE_INTERVAL, in clock ticks
    MaxTime,     \* bound: the clock stops here
    MaxSecret,   \* bound: how many secrets are generated
    NoRow, NoKey, Never

Time     == 0..MaxTime
Status   == {"ACTIVE", "REVOKED", "EXPIRED"}
Secret   == 0..MaxSecret        \* 0 is a secret that was never issued
MaybeTime == Time \cup {Never}

\* The columns of the ApiKey entity that the handlers read or write.
Row == [tenant : Tenant, name : Name, secret : Secret, status : Status,
        expiresAt : MaybeTime, lastUsedAt : MaybeTime]

PC == {"idle", "generate", "insert", "save", "write", "remove"}

Request == [pc : PC, key : Key \cup {NoKey},
            ent : Row \cup {NoRow}, loaded : Row \cup {NoRow}]

Idle == [pc |-> "idle", key |-> NoKey, ent |-> NoRow, loaded |-> NoRow]

ASSUME ProcAssumption == IsFiniteSet(Proc) /\ Proc # {}
ASSUME KeyAssumption == IsFiniteSet(Key)
ASSUME NumberAssumption ==
    MaxActive \in Nat /\ Interval \in Nat /\ MaxTime \in Nat /\ MaxSecret \in Nat
ASSUME NoValueAssumption ==
    NoRow \notin Row /\ NoKey \notin Key /\ Never \notin Time

VARIABLES
    rows,        \* the api_keys table; NoRow where no row has that key
    deleted,     \* keys whose row was deleted at some time
    issued,      \* how many secrets have been generated
    now,         \* the clock
    req          \* what each request slot is doing

vars == <<rows, deleted, issued, now, req>>

-----------------------------------------------------------------------------

Stored(k) == rows[k] # NoRow
ActiveKeys(t) ==
    {k \in Key : Stored(k) /\ rows[k].tenant = t /\ rows[k].status = "ACTIVE"}

\* existingKeys >= apiKeyMaxActive is the error; a mutant is off by one.
BelowLimit_OffByOne(t) == Cardinality(ActiveKeys(t)) <= MaxActive
BelowLimit(t) == Cardinality(ActiveKeys(t)) < MaxActive

\* randomBytes(32): a secret that was never generated before.
FreshSecret == issued + 1

\* Keys that another create has drawn and not inserted yet.
Drawn == {req[p].key : p \in {q \in Proc : req[q].pc = "insert"}}

\* expiresAt && expiresAt < new Date()
Expired(row) == row.expiresAt # Never /\ row.expiresAt < now

ShouldUpdateLastUsed(lastUsedAt) ==
    lastUsedAt # Never => now - lastUsedAt > Interval

\* The unique constraint on (tenantId, name).
NameFree(k, row) ==
    \A other \in Key \ {k} :
        Stored(other) => <<rows[other].tenant, rows[other].name>>
                            # <<row.tenant, row.name>>

\* The UPDATE of a save: the columns where ent and loaded differ.
Merged(ent, loaded, row) ==
    [tenant     |-> row.tenant,
     name       |-> Column(ent.name, loaded.name, row.name),
     secret     |-> Column(ent.secret, loaded.secret, row.secret),
     status     |-> Column(ent.status, loaded.status, row.status),
     expiresAt  |-> Column(ent.expiresAt, loaded.expiresAt, row.expiresAt),
     lastUsedAt |-> Column(ent.lastUsedAt, loaded.lastUsedAt, row.lastUsedAt)]

Become(p, request) == req' = [req EXCEPT ![p] = request]
Finish(p) == Become(p, Idle)

\* The handler has changed its copy of the row and calls save.
StartSave(p, k, ent) ==
    Become(p, [pc |-> "save", key |-> k, ent |-> ent, loaded |-> NoRow])

Init ==
    /\ rows = [k \in Key |-> NoRow]
    /\ deleted = {}
    /\ issued = 0
    /\ now = 0
    /\ req = [p \in Proc |-> Idle]

-----------------------------------------------------------------------------
\* create

CountActive(p, t, n, e) ==
    /\ req[p].pc = "idle"
    /\ BelowLimit(t)
    /\ Become(p, [pc |-> "generate", key |-> NoKey, loaded |-> NoRow,
                  ent |-> [tenant |-> t, name |-> n, secret |-> 0,
                           status |-> "ACTIVE", expiresAt |-> e,
                           lastUsedAt |-> Never]])
    /\ UNCHANGED <<rows, deleted, issued, now>>

\* 24 random bytes never repeat a key of the past or one being drawn now; the
\* code does allow for one that is stored, and refuses it.
Generate(p) ==
    /\ req[p].pc = "generate"
    /\ issued < MaxSecret
    /\ issued' = issued + 1
    /\ \E k \in Key \ (deleted \cup Drawn) :
          IF Stored(k)
          THEN Finish(p)
          ELSE Become(p, [pc |-> "insert", key |-> k, loaded |-> NoRow,
                          ent |-> [req[p].ent EXCEPT !.secret = FreshSecret]])
    /\ UNCHANGED <<rows, deleted, now>>

\* The INSERT, or the error of the unique constraint.
Insert(p) ==
    LET k == req[p].key  row == req[p].ent IN
    /\ req[p].pc = "insert"
    /\ rows' = IF NameFree(k, row) THEN [rows EXCEPT ![k] = row] ELSE rows
    /\ Finish(p)
    /\ UNCHANGED <<deleted, issued, now>>

-----------------------------------------------------------------------------
\* Handlers that read a row and save what they made of it.  A read is
\* findOne with the id and the tenant of the caller.

Found(p, t, k) == req[p].pc = "idle" /\ Stored(k) /\ rows[k].tenant = t

\* Mutant: a new expiry makes the key ACTIVE again.
ReadForUpdate_Reactivates(p, t, k) ==
    /\ Found(p, t, k)
    /\ \E e \in Time :
          StartSave(p, k, [rows[k] EXCEPT !.expiresAt = e, !.status = "ACTIVE"])
    /\ UNCHANGED <<rows, deleted, issued, now>>

ReadForUpdate(p, t, k) ==
    /\ Found(p, t, k)
    /\ \E n \in Name, e \in Time \cup {rows[k].expiresAt} :
          StartSave(p, k, [rows[k] EXCEPT !.name = n, !.expiresAt = e])
    /\ UNCHANGED <<rows, deleted, issued, now>>

\* Mutant: a status of another enumeration.
ReadForRevoke_WrongStatus(p, t, k) ==
    /\ Found(p, t, k)
    /\ StartSave(p, k, [rows[k] EXCEPT !.status = "INACTIVE"])
    /\ UNCHANGED <<rows, deleted, issued, now>>

ReadForRevoke(p, t, k) ==
    /\ Found(p, t, k)
    /\ StartSave(p, k, [rows[k] EXCEPT !.status = "REVOKED"])
    /\ UNCHANGED <<rows, deleted, issued, now>>

ReadForRotate(p, t, k) ==
    /\ Found(p, t, k)
    /\ issued < MaxSecret
    /\ issued' = issued + 1
    /\ StartSave(p, k, [rows[k] EXCEPT !.secret = FreshSecret])
    /\ UNCHANGED <<rows, deleted, now>>

ReadForDelete(p, t, k) ==
    /\ Found(p, t, k)
    /\ Become(p, [pc |-> "remove", key |-> k, ent |-> rows[k], loaded |-> NoRow])
    /\ UNCHANGED <<rows, deleted, issued, now>>

\* Mutant: the hash of the secret that came with the request goes into the row
\* along with lastUsedAt (a change of the hash function), and is not compared.
Validate_StoresSecret(p, k, secret) ==
    /\ req[p].pc = "idle"
    /\ Stored(k)
    /\ rows[k].status = "ACTIVE"
    /\ \/ /\ Expired(rows[k])
          /\ StartSave(p, k, [rows[k] EXCEPT !.status = "EXPIRED"])
       \/ /\ ~Expired(rows[k])
          /\ StartSave(p, k, [rows[k] EXCEPT !.secret = secret, !.lastUsedAt = now])
    /\ UNCHANGED <<rows, deleted, issued, now>>

\* validateApiKey with some secret.  The outcomes that write nothing (unknown,
\* not ACTIVE, wrong secret, last use recent enough) are no steps.
Validate(p, k, secret) ==
    /\ req[p].pc = "idle"
    /\ Stored(k)
    /\ rows[k].status = "ACTIVE"
    /\ \/ /\ Expired(rows[k])
          /\ StartSave(p, k, [rows[k] EXCEPT !.status = "EXPIRED"])
       \/ /\ ~Expired(rows[k])
          /\ secret = rows[k].secret
          /\ ShouldUpdateLastUsed(rows[k].lastUsedAt)
          /\ StartSave(p, k, [rows[k] EXCEPT !.lastUsedAt = now])
    /\ UNCHANGED <<rows, deleted, issued, now>>

SaveLoad(p) ==
    /\ req[p].pc = "save"
    /\ Become(p, [pc |-> "write", key |-> req[p].key, ent |-> req[p].ent,
                  loaded |-> rows[req[p].key]])
    /\ UNCHANGED <<rows, deleted, issued, now>>

\* The second statement of a save: INSERT when the first found no row,
\* otherwise UPDATE of the differing columns.  Either may meet the unique
\* constraint, and an UPDATE of a deleted row does nothing.
SaveWrite(p) ==
    LET k == req[p].key
        ent == req[p].ent
        loaded == req[p].loaded
        written == IF loaded = NoRow THEN ent ELSE Merged(ent, loaded, rows[k])
    IN
    /\ req[p].pc = "write"
    /\ rows' = IF (loaded = NoRow <=> Stored(k)) \/ ~NameFree(k, written)
               THEN rows
               ELSE [rows EXCEPT ![k] = written]
    /\ Finish(p)
    /\ UNCHANGED <<deleted, issued, now>>

Remove(p) ==
    LET k == req[p].key IN
    /\ req[p].pc = "remove"
    /\ rows' = [rows EXCEPT ![k] = NoRow]
    /\ deleted' = deleted \cup {k}
    /\ Finish(p)
    /\ UNCHANGED <<issued, now>>

-----------------------------------------------------------------------------
\* A database error, or the end of the process, leaves the rest undone.
Abort(p) ==
    /\ req[p].pc # "idle"
    /\ Finish(p)
    /\ UNCHANGED <<rows, deleted, issued, now>>

Tick ==
    /\ now < MaxTime
    /\ now' = now + 1
    /\ UNCHANGED <<rows, deleted, issued, req>>

Handler(p) ==
    \/ \E t \in Tenant, n \in Name, e \in MaybeTime : CountActive(p, t, n, e)
    \/ Generate(p)
    \/ Insert(p)
    \/ \E t \in Tenant, k \in Key : ReadForUpdate(p, t, k)
    \/ \E t \in Tenant, k \in Key : ReadForRevoke(p, t, k)
    \/ \E t \in Tenant, k \in Key : ReadForRotate(p, t, k)
    \/ \E t \in Tenant, k \in Key : ReadForDelete(p, t, k)
    \/ \E k \in Key, secret \in Secret : Validate(p, k, secret)
    \/ SaveLoad(p)
    \/ SaveWrite(p)
    \/ Remove(p)
    \/ Abort(p)

Next == Tick \/ \E p \in Proc : Handler(p)

Spec == Init /\ [][Next]_vars

-----------------------------------------------------------------------------
\* Properties

\* Requests past a read hold an entity, requests past a draw know their key.
RequestOK(r) ==
    /\ r.pc # "idle" => r.ent \in Row
    /\ r.pc \in {"insert", "save", "write", "remove"} => r.key \in Key

\* Type invariant: every column, every entity in hand and the counters keep
\* to their types whatever order the statements of the requests run in.
TypeOK ==
    /\ rows \in [Key -> Row \cup {NoRow}]
    /\ deleted \subseteq Key
    /\ issued \in 0..MaxSecret
    /\ now \in Time
    /\ req \in [Proc -> Request]
    /\ \A p \in Proc : RequestOK(req[p])

\* Some request may still write the key as ACTIVE: it holds an entity of it,
\* new or read earlier, that says ACTIVE.
Holds(p, k) ==
    /\ req[p].pc \in {"insert", "save", "write"}
    /\ req[p].key = k
    /\ req[p].ent.status = "ACTIVE"

Usable(k) ==
    \/ Stored(k) /\ rows[k].status = "ACTIVE"
    \/ \E p \in Proc : Holds(p, k)

Retired(k) == (Stored(k) \/ k \in deleted) /\ ~Usable(k)

\* create counts the ACTIVE keys and inserts later (lines 54-90), so requests
\* that overlap may pass the limit.  They do so by less than the number of
\* requests in flight, and saves of stale entities do not add to it.
ActiveBounded ==
    \A t \in Tenant :
        Cardinality(ActiveKeys(t)) <= MaxActive + Cardinality(Proc) - 1

\* The parts of the inductive invariant behind ActiveBounded.

\* Keys of t that are ACTIVE, or that a request in flight may still make so.
Holders(t) ==
    {p \in Proc : /\ req[p].pc \in {"insert", "save", "write"}
                  /\ req[p].ent.status = "ACTIVE"
                  /\ req[p].ent.tenant = t}
HeldKeys(t) == {req[p].key : p \in Holders(t)}
UsableKeys(t) == ActiveKeys(t) \cup HeldKeys(t)

\* Creates that have passed the limit and not drawn a key yet.
Creating(t) == {p \in Proc : req[p].pc = "generate" /\ req[p].ent.tenant = t}

Budget ==
    \A t \in Tenant :
        Cardinality(UsableKeys(t)) + Cardinality(Creating(t))
            <= MaxActive + Cardinality(Proc) - 1

\* Only create inserts a new key, and it alone knows the key until then.
KeysKnown ==
    /\ \A p \in Proc :
          /\ req[p].pc \in {"save", "write", "remove"} =>
                Stored(req[p].key) \/ req[p].key \in deleted
          /\ req[p].pc = "insert" =>
                ~Stored(req[p].key) /\ req[p].key \notin deleted
    /\ \A p, q \in Proc :
          p # q /\ req[p].pc = "insert" /\ req[q].pc = "insert"
            => req[p].key # req[q].key

\* A key belongs to one tenant: the row, and every entity of it that a request
\* may still save, name the same one.
OneTenant ==
    /\ \A p \in Proc :
          req[p].pc \in {"save", "write"} /\ Stored(req[p].key)
            => req[p].ent.tenant = rows[req[p].key].tenant
    /\ \A p, q \in Proc :
          /\ req[p].pc \in {"save", "write"} /\ req[q].pc \in {"save", "write"}
          /\ req[p].key = req[q].key
          => req[p].ent.tenant = req[q].ent.tenant

\* A key that was revoked, has expired or was deleted, and of which no request
\* in flight holds an older ACTIVE entity, never becomes usable again: no
\* handler, and no stale save of one, brings it back (revoke, delete,
\* validateApiKey).
RetiredStays == [][\A k \in Key : Retired(k) => Retired(k)']_vars

\* The secrets of key k that are, or may yet be written, in its row.
Current(k) ==
    {rows[k].secret : r \in {q \in {k} : Stored(q)}}
        \cup {req[p].ent.secret :
                 p \in {q \in Proc : /\ req[q].pc \in {"insert", "save", "write"}
                                    /\ req[q].key = k}}

\* rotate replaces a secret for good (lines 193-210): an issued secret that is
\* neither stored for k nor in the hands of a request never is k's again.
SupersededStays ==
    [][\A k \in Key : \A s \in 1..issued :
          s \notin Current(k) => s \notin Current(k)']_vars

\* The comment of create: "Limit to configured max active keys per tenant".
LimitKept == \A t \in Tenant : Cardinality(ActiveKeys(t)) <= MaxActive
=============================================================================
