------------------------------ MODULE Accounts ------------------------------
(***************************************************************************)
(* The users and password_reset_tokens tables under the services that      *)
(* write them: register, login, change and reset of the password           *)
(* (src/src/modules/auth/services), create, update and delete of a user    *)
(* (users/services/user.service.ts) and the profile (profile.service.ts).  *)
(* A request is cut where it awaits the database; the awaits of bcrypt lie *)
(* between a read and a save and only make that gap longer.                *)
(*                                                                         *)
(*   register, create      CheckFree -> Insert                             *)
(*   login, profile, change, update                                        *)
(*                         <read> -> SaveLoad -> SaveWrite                 *)
(*   delete                ReadForDelete -> Remove                         *)
(*   forgot password       FindUser -> RevokeTokens -> InsertToken         *)
(*   reset password        FindToken -> SaveLoad -> SaveWrite -> MarkUsed  *)
(*                                                                         *)
(* Every hash has a new salt, so a password is the number of the bcrypt    *)
(* hash that was made for it.  lastLoginAt, name and the other columns are *)
(* left out: a request that writes only those still saves the columns      *)
(* below as it read them.  The status ARCHIVED is treated as INACTIVE      *)
(* everywhere, and a member of Email stands for a tenant and an address.   *)
(***************************************************************************)
EXTENDS Integers, FiniteSets, Repository

CONSTANTS
    Proc,          \* requests that may be in flight at the same time
    User, Token,   \* ids of rows, given out by the database
    Email,
    Ttl,           \* TOKEN_TTL_MINUTES, in clock ticks
    MaxTime,       \* bound: the clock stops here
    MaxHash,       \* bound: how many password hashes are made
    NoRow, NoUser, NoToken

Time   == 0..MaxTime
Hash   == 1..MaxHash
Status == {"PENDING", "ACTIVE", "INACTIVE"}
MayLogIn == {"PENDING", "ACTIVE"}

Row == [email : Email, passwordHash : Hash, status : Status]
TokenRow == [user : User, used : BOOLEAN, expiresAt : 0..(MaxTime + Ttl)]

Op == {"none", "register", "login", "profile", "change", "update", "delete",
       "forgot", "reset"}
PC == {"idle", "insert", "save", "write", "remove", "revokeTokens",
       "insertToken", "markUsed"}

Request == [op : Op, pc : PC, user : User \cup {NoUser},
            token : Token \cup {NoToken},
            ent : Row \cup {NoRow}, loaded : Row \cup {NoRow}]

Idle == [op |-> "none", pc |-> "idle", user |-> NoUser, token |-> NoToken,
         ent |-> NoRow, loaded |-> NoRow]

ASSUME ProcAssumption == IsFiniteSet(Proc) /\ Proc # {}
ASSUME TokenAssumption == IsFiniteSet(Token)
ASSUME NumberAssumption ==
    Ttl \in Nat /\ MaxTime \in Nat /\ MaxHash \in Nat
ASSUME NoValueAssumption ==
    /\ NoRow \notin Row \cup TokenRow
    /\ NoUser \notin User /\ NoToken \notin Token

VARIABLES
    users,       \* the users table; NoRow where there is no row of that id
    deleted,     \* ids of users that were deleted at some time
    tokens,      \* the password_reset_tokens table
    drawn,       \* ids of tokens that were inserted at some time
    hashes,      \* how many password hashes have been made
    resets,      \* history: how many resets with the token wrote a password
    now,
    req          \* what each request slot is doing

vars == <<users, deleted, tokens, drawn, hashes, resets, now, req>>

-----------------------------------------------------------------------------

Stored(u) == users[u] # NoRow
EmailFree(u, email) ==
    \A other \in User \ {u} : Stored(other) => users[other].email # email

Live(t) == tokens[t] # NoRow /\ ~tokens[t].used

\* used: false, expiresAt: MoreThan(new Date()); the mutant forgets the first.
Redeemable_Used(t) == tokens[t] # NoRow /\ tokens[t].expiresAt > now
Redeemable(t) == Live(t) /\ tokens[t].expiresAt > now

\* The UPDATE of a save: the columns where ent and loaded differ.
Merged(ent, loaded, row) ==
    [email        |-> row.email,
     passwordHash |-> Column(ent.passwordHash, loaded.passwordHash, row.passwordHash),
     status       |-> Column(ent.status, loaded.status, row.status)]

Become(p, request) == req' = [req EXCEPT ![p] = request]
Finish(p) == Become(p, Idle)

StartSave(p, op, u, t, ent) ==
    Become(p, [op |-> op, pc |-> "save", user |-> u, token |-> t,
               ent |-> ent, loaded |-> NoRow])

\* bcrypt.hash: a hash that was never made before.
FreshHash == hashes + 1

\* Mutant: whoever sets a password activates the account.
SaveNewHash_Activates(p, op, u, t) ==
    /\ hashes < MaxHash
    /\ hashes' = hashes + 1
    /\ StartSave(p, op, u, t,
                 [users[u] EXCEPT !.passwordHash = FreshHash, !.status = "ACTIVE"])

\* A new bcrypt hash is made and put into the entity of u.
SaveNewHash(p, op, u, t) ==
    /\ hashes < MaxHash
    /\ hashes' = hashes + 1
    /\ StartSave(p, op, u, t, [users[u] EXCEPT !.passwordHash = FreshHash])

Init ==
    /\ users = [u \in User |-> NoRow]
    /\ deleted = {}
    /\ tokens = [t \in Token |-> NoRow]
    /\ drawn = {}
    /\ hashes = 0
    /\ resets = [t \in Token |-> 0]
    /\ now = 0
    /\ req = [p \in Proc |-> Idle]

-----------------------------------------------------------------------------
\* register (PENDING) and UserService.create (ACTIVE)

CheckFree(p, email, status) ==
    /\ req[p].pc = "idle"
    /\ \A u \in User : Stored(u) => users[u].email # email
    /\ hashes < MaxHash
    /\ hashes' = hashes + 1
    /\ Become(p, [Idle EXCEPT !.op = "register", !.pc = "insert",
                     !.ent = [email |-> email, passwordHash |-> FreshHash,
                              status |-> status]])
    /\ UNCHANGED <<users, deleted, tokens, drawn, resets, now>>

\* Mutant: the row of a deleted user is taken up again.
Insert_Revives(p) ==
    /\ req[p].pc = "insert"
    /\ \E u \in User :
          /\ ~Stored(u)
          /\ users' = IF EmailFree(u, req[p].ent.email)
                      THEN [users EXCEPT ![u] = req[p].ent]
                      ELSE users
    /\ Finish(p)
    /\ UNCHANGED <<deleted, tokens, drawn, hashes, resets, now>>

\* The INSERT under a fresh id, or the error of UNIQUE (tenantId, email).
Insert(p) ==
    /\ req[p].pc = "insert"
    /\ \E u \in User \ deleted :
          /\ ~Stored(u)
          /\ users' = IF EmailFree(u, req[p].ent.email)
                      THEN [users EXCEPT ![u] = req[p].ent]
                      ELSE users
    /\ Finish(p)
    /\ UNCHANGED <<deleted, tokens, drawn, hashes, resets, now>>

-----------------------------------------------------------------------------
\* Handlers that read a user and save what they made of it

\* Mutant: the password that the caller gives is hashed again and put into the
\* entity (a change of the cost of bcrypt), and is not compared.
Login_StoresPassword(p, u, hash) ==
    /\ req[p].pc = "idle"
    /\ Stored(u)
    /\ users[u].status \in MayLogIn
    /\ StartSave(p, "login", u, NoToken, [users[u] EXCEPT !.passwordHash = hash])
    /\ UNCHANGED <<users, deleted, tokens, drawn, hashes, resets, now>>

\* The password that the caller gives is compared with the hash just read.
Login(p, u, hash) ==
    /\ req[p].pc = "idle"
    /\ Stored(u)
    /\ users[u].passwordHash = hash
    /\ users[u].status \in MayLogIn
    /\ StartSave(p, "login", u, NoToken, users[u])
    /\ UNCHANGED <<users, deleted, tokens, drawn, hashes, resets, now>>

\* Also the users row that assignRoleToUser and removeRoleFromUser save.
UpdateProfile(p, u) ==
    /\ req[p].pc = "idle"
    /\ Stored(u)
    /\ StartSave(p, "profile", u, NoToken, users[u])
    /\ UNCHANGED <<users, deleted, tokens, drawn, hashes, resets, now>>

ChangePassword(p, u, hash) ==
    /\ req[p].pc = "idle"
    /\ Stored(u)
    /\ users[u].passwordHash = hash
    /\ SaveNewHash(p, "change", u, NoToken)
    /\ UNCHANGED <<users, deleted, tokens, drawn, resets, now>>

\* UserService.update; without a status in the payload it keeps the one read.
UpdateUser(p, u, status) ==
    /\ req[p].pc = "idle"
    /\ Stored(u)
    /\ StartSave(p, "update", u, NoToken, [users[u] EXCEPT !.status = status])
    /\ UNCHANGED <<users, deleted, tokens, drawn, hashes, resets, now>>

SaveLoad(p) ==
    /\ req[p].pc = "save"
    /\ Become(p, [op |-> req[p].op, pc |-> "write", user |-> req[p].user,
                  token |-> req[p].token, ent |-> req[p].ent,
                  loaded |-> users[req[p].user]])
    /\ UNCHANGED <<users, deleted, tokens, drawn, hashes, resets, now>>

\* The second statement of the save of a user.  When the first found no row it
\* is an INSERT, which fails if there is a row by now or the address is taken.
SaveFails(p) ==
    /\ req[p].loaded = NoRow
    /\ Stored(req[p].user) \/ ~EmailFree(req[p].user, req[p].ent.email)

SaveWrite(p) ==
    LET u == req[p].user
        ent == req[p].ent
        loaded == req[p].loaded
    IN
    /\ req[p].pc = "write"
    /\ IF SaveFails(p)
       THEN Finish(p) /\ UNCHANGED <<users, resets>>
       ELSE /\ users' = [users EXCEPT ![u] =
                           IF loaded = NoRow THEN ent
                           ELSE IF Stored(u) THEN Merged(ent, loaded, users[u])
                           ELSE NoRow]
            /\ IF req[p].op = "reset"
               THEN /\ Become(p, [Idle EXCEPT !.op = "reset", !.pc = "markUsed",
                                      !.user = u, !.token = req[p].token])
                    /\ resets' = [resets EXCEPT ![req[p].token] = @ + 1]
               ELSE Finish(p) /\ UNCHANGED resets
    /\ UNCHANGED <<deleted, tokens, drawn, hashes, now>>

ReadForDelete(p, u) ==
    /\ req[p].pc = "idle"
    /\ Stored(u)
    /\ Become(p, [Idle EXCEPT !.op = "delete", !.pc = "remove", !.user = u])
    /\ UNCHANGED <<users, deleted, tokens, drawn, hashes, resets, now>>

\* Mutant: the foreign key of the tokens does not cascade.
Remove_NoCascade(p) ==
    LET u == req[p].user IN
    /\ req[p].pc = "remove"
    /\ users' = [users EXCEPT ![u] = NoRow]
    /\ deleted' = deleted \cup {u}
    /\ Finish(p)
    /\ UNCHANGED <<tokens, drawn, hashes, resets, now>>

\* The DELETE; the foreign key of the tokens cascades.
Remove(p) ==
    LET u == req[p].user IN
    /\ req[p].pc = "remove"
    /\ users' = [users EXCEPT ![u] = NoRow]
    /\ deleted' = deleted \cup {u}
    /\ tokens' = [t \in Token |->
                    IF tokens[t] # NoRow /\ tokens[t].user = u
                    THEN NoRow ELSE tokens[t]]
    /\ Finish(p)
    /\ UNCHANGED <<drawn, hashes, resets, now>>

-----------------------------------------------------------------------------
\* Password reset

FindUser(p, u) ==
    /\ req[p].pc = "idle"
    /\ Stored(u)
    /\ Become(p, [Idle EXCEPT !.op = "forgot", !.pc = "revokeTokens", !.user = u])
    /\ UNCHANGED <<users, deleted, tokens, drawn, hashes, resets, now>>

\* Mutant: the tokens that are out stay valid.
RevokeTokens_None(p) ==
    /\ req[p].pc = "revokeTokens"
    /\ Become(p, [Idle EXCEPT !.op = "forgot", !.pc = "insertToken",
                     !.user = req[p].user])
    /\ UNCHANGED <<users, deleted, tokens, drawn, hashes, resets, now>>

\* UPDATE password_reset_tokens SET used = true of the unused ones of the user
RevokeTokens(p) ==
    LET u == req[p].user IN
    /\ req[p].pc = "revokeTokens"
    /\ tokens' = [t \in Token |->
                    IF Live(t) /\ tokens[t].user = u
                    THEN [tokens[t] EXCEPT !.used = TRUE] ELSE tokens[t]]
    /\ Become(p, [Idle EXCEPT !.op = "forgot", !.pc = "insertToken", !.user = u])
    /\ UNCHANGED <<users, deleted, drawn, hashes, resets, now>>

\* The INSERT, or the error of the foreign key when the user is gone.
InsertToken(p) ==
    LET u == req[p].user IN
    /\ req[p].pc = "insertToken"
    /\ IF Stored(u)
       THEN \E t \in Token \ drawn :
               /\ tokens' = [tokens EXCEPT ![t] =
                    [user |-> u, used |-> FALSE, expiresAt |-> now + Ttl]]
               /\ drawn' = drawn \cup {t}
       ELSE UNCHANGED <<tokens, drawn>>
    /\ Finish(p)
    /\ UNCHANGED <<users, deleted, hashes, resets, now>>

\* The token that is unused and not expired, with its user, in one SELECT.
FindToken(p, t) ==
    /\ req[p].pc = "idle"
    /\ Redeemable(t)
    /\ SaveNewHash(p, "reset", tokens[t].user, t)
    /\ UNCHANGED <<users, deleted, tokens, drawn, resets, now>>

\* save of the token with used = true.  used only ever becomes true, so the two
\* statements of this save do not show.  A token that the deletion of its user
\* took along is inserted again if the user is back (its expiry matters no more).
MarkUsed(p) ==
    LET t == req[p].token  u == req[p].user IN
    /\ req[p].pc = "markUsed"
    /\ tokens' =
         IF tokens[t] # NoRow THEN [tokens EXCEPT ![t].used = TRUE]
         ELSE IF Stored(u) THEN [tokens EXCEPT ![t] =
                 [user |-> u, used |-> TRUE, expiresAt |-> now]]
         ELSE tokens
    /\ Finish(p)
    /\ UNCHANGED <<users, deleted, drawn, hashes, resets, now>>

-----------------------------------------------------------------------------
\* A database error, or the end of the process, leaves the rest undone.
Abort(p) ==
    /\ req[p].pc # "idle"
    /\ Finish(p)
    /\ UNCHANGED <<users, deleted, tokens, drawn, hashes, resets, now>>

Tick ==
    /\ now < MaxTime
    /\ now' = now + 1
    /\ UNCHANGED <<users, deleted, tokens, drawn, hashes, resets, req>>

Handler(p) ==
    \/ \E email \in Email, status \in MayLogIn : CheckFree(p, email, status)
    \/ Insert(p)
    \/ \E u \in User, hash \in Hash : Login(p, u, hash)
    \/ \E u \in User : UpdateProfile(p, u)
    \/ \E u \in User, hash \in Hash : ChangePassword(p, u, hash)
    \/ \E u \in User, status \in Status : UpdateUser(p, u, status)
    \/ SaveLoad(p)
    \/ SaveWrite(p)
    \/ \E u \in User : ReadForDelete(p, u)
    \/ Remove(p)
    \/ \E u \in User : FindUser(p, u)
    \/ RevokeTokens(p)
    \/ InsertToken(p)
    \/ \E t \in Token : FindToken(p, t)
    \/ MarkUsed(p)
    \/ Abort(p)

Next == Tick \/ \E p \in Proc : Handler(p)

Spec == Init /\ [][Next]_vars

-----------------------------------------------------------------------------
\* Properties

\* What a request carries from one step to the next.
RequestOK(r) ==
    /\ r.pc \in {"insert", "save", "write"} => r.ent \in Row
    /\ r.pc \notin {"idle", "insert"} => r.user \in User
    /\ r.pc \in {"save", "write", "markUsed"} /\ r.op = "reset" => r.token \in Token
    /\ r.pc = "markUsed" => r.op = "reset"

\* Type invariant: rows, entities in hand and counters keep to their types, and
\* a reset token never outlives its user, whatever order the statements run in.
TypeOK ==
    /\ users \in [User -> Row \cup {NoRow}]
    /\ deleted \subseteq User
    /\ tokens \in [Token -> TokenRow \cup {NoRow}]
    /\ drawn \subseteq Token
    /\ hashes \in 0..MaxHash
    /\ resets \in [Token -> Nat]
    /\ now \in Time
    /\ req \in [Proc -> Request]
    /\ \A p \in Proc : RequestOK(req[p])
    /\ \A t \in Token : tokens[t] # NoRow => Stored(tokens[t].user)

LiveTokens(u) == {t \in Token : Live(t) /\ tokens[t].user = u}

\* requestReset revokes the tokens of the user and inserts a new one in another
\* step (lines 32-49): requests that overlap leave several live tokens, but
\* never more than there are requests in flight.
LiveTokensBounded == \A u \in User : Cardinality(LiveTokens(u)) <= Cardinality(Proc)

\* The requests that may still write the row of u.
Saving(p, u) == req[p].pc \in {"save", "write"} /\ req[p].user = u

Spent(t) ==
    /\ t \in drawn /\ ~Live(t)
    /\ \A p \in Proc : ~(req[p].pc \in {"save", "write"} /\ req[p].token = t)

\* A token that is used, revoked or gone, and that no request in flight has
\* found before, is never live again and writes no password any more
\* (resetPassword, lines 63-81, against concurrent resets and deletions).
SpentStays ==
    [][\A t \in Token : Spent(t) => Spent(t)' /\ resets'[t] = resets[t]]_vars

\* The hashes that are some user's password, or that a request may yet write.
InUse ==
    {users[u].passwordHash : u \in {v \in User : Stored(v)}}
        \cup {req[p].ent.passwordHash :
                 p \in {q \in Proc : req[q].pc \in {"insert", "save", "write"}}}

\* A password that was replaced, and that no request in flight holds in an
\* older entity, never opens an account again, whatever saves login, profile
\* and status changes make of the users they read.
SupersededStays == [][\A h \in 1..hashes : h \notin InUse => h \notin InUse']_vars

\* The user cannot log in, and no request holds an entity that says otherwise.
Barred(u) ==
    /\ Stored(u) /\ users[u].status \notin MayLogIn
    /\ \A p \in Proc : Saving(p, u) => req[p].ent.status \notin MayLogIn

\* A deactivated user (login.service.ts:41-48) is admitted again only by an
\* update of the status; deleting the row is the other way out.
BarredUntilUpdated ==
    [][\A u \in User : Barred(u) =>
          \/ Barred(u)'
          \/ ~Stored(u)'
          \/ \E p \in Proc : /\ req[p].pc = "idle"
                             /\ req'[p].op = "update" /\ req'[p].user = u]_vars

\* A deleted user that no request in flight may save stays deleted: the row is
\* not inserted again (UserService.delete against saves of stale entities).
DeletedStays ==
    [][\A u \in deleted :
          ~Stored(u) /\ (\A p \in Proc : ~Saving(p, u))
            => ~Stored(u)' /\ (\A p \in Proc : ~Saving(p, u)')]_vars

\* The test "updates the user password and marks token as used" of
\* resetPassword: a token sets a password once.
TokenResetsOnce == \A t \in Token : resets[t] <= 1

\* The comment of UpdateUserPayload: "Password changes should use a separate
\* password change endpoint": a stored password changes only at the save of a
\* request to change or reset it, not at one of login, profile or update.
OnlyPasswordRequests ==
    [][\A u \in User :
          /\ Stored(u) /\ Stored(u)'
          /\ users[u].passwordHash # users'[u].passwordHash
          => \E p \in Proc : /\ req[p].op \in {"change", "reset"}
                              /\ req[p].pc = "write" /\ req'[p].pc # "write"]_vars
=============================================================================
