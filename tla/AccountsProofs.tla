--------------------------- MODULE AccountsProofs ---------------------------
(***************************************************************************)
(* Theorems about Accounts, for every number of requests, users, tokens    *)
(* and hashes: its types, how many reset tokens of a user are live, and    *)
(* what no step takes back: a token that is spent, a password that was     *)
(* replaced, a user who was barred or deleted.                             *)
(***************************************************************************)
EXTENDS Accounts, FiniteSetTheorems, TLAPS

-----------------------------------------------------------------------------
\* The parts of the type invariant

UsersOK ==
    /\ users \in [User -> Row \cup {NoRow}]
    /\ deleted \subseteq User
    /\ hashes \in 0..MaxHash

TokensOK ==
    /\ tokens \in [Token -> TokenRow \cup {NoRow}]
    /\ drawn \subseteq Token
    /\ resets \in [Token -> Nat]
    /\ now \in Time
    /\ \A t \in Token : tokens[t] # NoRow => Stored(tokens[t].user)

RequestsOK ==
    /\ req \in [Proc -> Request]
    /\ \A p \in Proc : RequestOK(req[p])

LEMMA TypeParts == TypeOK <=> UsersOK /\ TokensOK /\ RequestsOK
BY DEF TypeOK, UsersOK, TokensOK, RequestsOK

LEMMA StoredRow ==
    ASSUME TypeOK, NEW u \in User, Stored(u)
    PROVE  users[u] \in Row
BY DEF TypeOK, Stored

\* A token that is there names a user who is stored.
LEMMA TokenOwner ==
    ASSUME TypeOK, NEW t \in Token, tokens[t] # NoRow
    PROVE  /\ tokens[t] \in TokenRow
           /\ tokens[t].user \in User /\ Stored(tokens[t].user)
BY DEF TypeOK, TokenRow

\* What a request holds at each program counter.
LEMMA Held ==
    ASSUME TypeOK, NEW p \in Proc
    PROVE  /\ req[p] \in Request
           /\ req[p].pc \in {"insert", "save", "write"} => req[p].ent \in Row
           /\ req[p].pc \notin {"idle", "insert"} => req[p].user \in User
           /\ req[p].pc \in {"save", "write", "markUsed"} /\ req[p].op = "reset" =>
                 req[p].token \in Token
           /\ req[p].pc = "markUsed" => req[p].op = "reset"
           /\ req[p].loaded \in Row \cup {NoRow}
<1>1. req[p] \in Request /\ RequestOK(req[p])
  BY DEF TypeOK
<1> QED BY <1>1 DEF RequestOK, Request

-----------------------------------------------------------------------------
\* What the actions make of a request

LEMMA IdleRequest ==
    Idle \in Request /\ RequestOK(Idle) /\ Idle.pc = "idle"
BY DEF Idle, Request, RequestOK, Op, PC

LEMMA Became ==
    ASSUME TypeOK, NEW p \in Proc, NEW r, Become(p, r)
    PROVE  req'[p] = r /\ \A q \in Proc \ {p} : req'[q] = req[q]
BY DEF TypeOK, Become

LEMMA BecomeRequests ==
    ASSUME TypeOK, NEW p \in Proc, NEW r \in Request, RequestOK(r), Become(p, r)
    PROVE  RequestsOK'
<1>1. req' \in [Proc -> Request]
  BY DEF TypeOK, Become
<1>2. \A q \in Proc : RequestOK(req'[q])
  BY Became DEF TypeOK
<1> QED BY <1>1, <1>2 DEF RequestsOK

\* The four kinds of requests that a step leaves behind: one with no password in
\* hand, a registration, a save that begins with the row as it is, and a save
\* that has loaded its row.
Issues(p, r) == RevokeTokens(p) /\ r.pc = "insertToken" /\ r.user = req[p].user
Quiet(p, r) ==
    /\ r.pc \notin {"insert", "save", "write"}
    /\ r.pc = "insertToken" => Issues(p, r)

Registers(p, r) == r.pc = "insert" /\ r.ent.passwordHash = hashes + 1

Begins(p, r) ==
    /\ req[p].pc = "idle" /\ r.pc = "save"
    /\ r.user \in User /\ Stored(r.user)
    /\ r.ent.passwordHash \in {users[r.user].passwordHash, hashes + 1}
    /\ r.ent.status = users[r.user].status \/ r.op = "update"
    /\ r.token = NoToken \/ Live(r.token)

Loads(p, r) ==
    /\ req[p].pc = "save" /\ r.pc = "write"
    /\ r.user = req[p].user /\ r.ent = req[p].ent /\ r.token = req[p].token

Moves(p, r) ==
    /\ r \in Request /\ RequestOK(r) /\ Become(p, r)
    /\ Quiet(p, r) \/ Registers(p, r) \/ Begins(p, r) \/ Loads(p, r)

LEMMA StartSaveMoves ==
    ASSUME TypeOK, NEW p \in Proc, req[p].pc = "idle",
           NEW op \in Op, NEW u \in User, Stored(u),
           NEW t \in Token \cup {NoToken}, op = "reset" => t \in Token,
           t = NoToken \/ Live(t),
           NEW ent \in Row, StartSave(p, op, u, t, ent),
           ent.passwordHash \in {users[u].passwordHash, hashes + 1},
           ent.status = users[u].status \/ op = "update"
    PROVE  \E r : Moves(p, r)
<1> DEFINE r == [op |-> op, pc |-> "save", user |-> u, token |-> t,
                 ent |-> ent, loaded |-> NoRow]
<1>1. r \in Request /\ RequestOK(r)
  BY DEF Request, RequestOK, PC
<1>2. Become(p, r)
  BY DEF StartSave
<1>3. Begins(p, r)
  BY DEF Begins
<1> QED BY <1>1, <1>2, <1>3 DEF Moves

LEMMA SaveNewHashMoves ==
    ASSUME TypeOK, NEW p \in Proc, req[p].pc = "idle",
           NEW op \in Op, NEW u \in User, Stored(u),
           NEW t \in Token \cup {NoToken}, op = "reset" => t \in Token,
           t = NoToken \/ Live(t), SaveNewHash(p, op, u, t)
    PROVE  \E r : Moves(p, r)
<1> DEFINE ent == [users[u] EXCEPT !.passwordHash = FreshHash]
<1>1. users[u] \in Row
  BY StoredRow
<1>2. hashes + 1 \in Hash
  BY NumberAssumption DEF SaveNewHash, TypeOK, Hash
<1>3. ent \in Row /\ ent.passwordHash = hashes + 1 /\ ent.status = users[u].status
  BY <1>1, <1>2 DEF Row, FreshHash
<1>4. StartSave(p, op, u, t, ent)
  BY DEF SaveNewHash
<1> HIDE DEF ent
<1> QED BY <1>3, <1>4, StartSaveMoves

\* Requests with nothing in hand but ids.
LEMMA BareMoves ==
    ASSUME TypeOK, NEW p \in Proc, NEW r \in Request, Become(p, r),
           r.pc \in {"remove", "revokeTokens", "insertToken", "markUsed"},
           r.user \in User, r.pc = "markUsed" => r.op = "reset" /\ r.token \in Token,
           r.pc = "insertToken" => Issues(p, r)
    PROVE  \E s : Moves(p, s)
<1>1. RequestOK(r)
  BY DEF RequestOK
<1>2. Quiet(p, r)
  BY DEF Quiet
<1> QED BY <1>1, <1>2 DEF Moves

LEMMA FinishMoves ==
    ASSUME TypeOK, NEW p \in Proc, Finish(p)
    PROVE  \E r : Moves(p, r)
<1>1. Become(p, Idle) /\ Quiet(p, Idle)
  BY IdleRequest DEF Finish, Quiet
<1> QED BY <1>1, IdleRequest DEF Moves

LEMMA CheckFreeMoves ==
    ASSUME TypeOK, NEW p \in Proc, NEW email \in Email, NEW status \in MayLogIn,
           CheckFree(p, email, status)
    PROVE  \E r : Moves(p, r)
<1> DEFINE ent == [email |-> email, passwordHash |-> FreshHash, status |-> status]
           r == [Idle EXCEPT !.op = "register", !.pc = "insert", !.ent = ent]
<1>1. hashes + 1 \in Hash
  BY NumberAssumption DEF CheckFree, TypeOK, Hash
<1>2. ent \in Row /\ ent.passwordHash = hashes + 1
  BY <1>1 DEF Row, FreshHash, MayLogIn, Status
<1> HIDE DEF ent
<1>3. r \in Request /\ r.pc = "insert" /\ r.ent = ent
  BY <1>2, IdleRequest DEF Request, Op, PC
<1>4. Become(p, r)
  BY DEF CheckFree, ent
<1> HIDE DEF r
<1>5. RequestOK(r) /\ Registers(p, r)
  BY <1>2, <1>3 DEF RequestOK, Registers
<1> QED BY <1>3, <1>4, <1>5 DEF Moves

LEMMA SaveLoadMoves ==
    ASSUME TypeOK, NEW p \in Proc, SaveLoad(p)
    PROVE  \E r : Moves(p, r)
<1> DEFINE r == [op |-> req[p].op, pc |-> "write", user |-> req[p].user,
                 token |-> req[p].token, ent |-> req[p].ent,
                 loaded |-> users[req[p].user]]
<1>1. req[p].pc = "save" /\ Become(p, r)
  BY DEF SaveLoad
<1>2. /\ req[p] \in Request /\ req[p].ent \in Row /\ req[p].user \in User
      /\ req[p].op = "reset" => req[p].token \in Token
  BY <1>1, Held
<1>3. users[req[p].user] \in Row \cup {NoRow}
  BY <1>2 DEF TypeOK
<1>4. r \in Request /\ RequestOK(r)
  BY <1>2, <1>3 DEF Request, RequestOK, PC
<1>5. Loads(p, r)
  BY <1>1 DEF Loads
<1> QED BY <1>1, <1>4, <1>5 DEF Moves

LEMMA SaveWriteMoves ==
    ASSUME TypeOK, NEW p \in Proc, SaveWrite(p)
    PROVE  \E r : Moves(p, r)
<1> DEFINE r == [Idle EXCEPT !.op = "reset", !.pc = "markUsed",
                    !.user = req[p].user, !.token = req[p].token]
<1>1. Finish(p) \/ (Become(p, r) /\ req[p].op = "reset")
  BY DEF SaveWrite
<1>2. req[p].user \in User /\ (req[p].op = "reset" => req[p].token \in Token)
  BY Held DEF SaveWrite
<1>3. ASSUME req[p].op = "reset"
      PROVE  /\ r \in Request /\ r.pc = "markUsed" /\ r.user \in User
             /\ r.op = "reset" /\ r.token \in Token
  BY <1>2, <1>3, IdleRequest DEF Request, Op, PC
<1> HIDE DEF r
<1> QED BY <1>1, <1>3, BareMoves, FinishMoves

LEMMA ReadMoves ==
    ASSUME TypeOK, NEW p \in Proc, NEW u \in User, ReadForDelete(p, u) \/ FindUser(p, u)
    PROVE  \E r : Moves(p, r)
<1> DEFINE delete == [Idle EXCEPT !.op = "delete", !.pc = "remove", !.user = u]
           forgot == [Idle EXCEPT !.op = "forgot", !.pc = "revokeTokens", !.user = u]
<1>1. Become(p, delete) \/ Become(p, forgot)
  BY DEF ReadForDelete, FindUser
<1>2. /\ delete \in Request /\ delete.pc = "remove" /\ delete.user = u
      /\ forgot \in Request /\ forgot.pc = "revokeTokens" /\ forgot.user = u
  BY IdleRequest DEF Request, Op, PC
<1> HIDE DEF delete, forgot
<1> QED BY <1>1, <1>2, BareMoves

LEMMA RevokeTokensMoves ==
    ASSUME TypeOK, NEW p \in Proc, RevokeTokens(p)
    PROVE  \E r : Moves(p, r)
<1> DEFINE u == req[p].user
           r == [Idle EXCEPT !.op = "forgot", !.pc = "insertToken", !.user = u]
<1>1. u \in User /\ Become(p, r)
  BY Held DEF RevokeTokens
<1> HIDE DEF u
<1>2. r \in Request /\ r.pc = "insertToken" /\ r.user = u
  BY <1>1, IdleRequest DEF Request, Op, PC
<1> HIDE DEF r
<1>3. Issues(p, r)
  BY <1>2 DEF Issues, u
<1> QED BY <1>1, <1>2, <1>3, BareMoves

LEMMA StartMoves ==
    ASSUME TypeOK, NEW p \in Proc,
           \/ \E u \in User, hash \in Hash : Login(p, u, hash)
           \/ \E u \in User : UpdateProfile(p, u)
           \/ \E u \in User, hash \in Hash : ChangePassword(p, u, hash)
           \/ \E u \in User, status \in Status : UpdateUser(p, u, status)
           \/ \E t \in Token : FindToken(p, t)
    PROVE  \E r : Moves(p, r)
<1>1. \A op \in {"login", "profile", "change", "update", "reset"} : op \in Op
  BY DEF Op
<1>2. NoToken \in Token \cup {NoToken} /\ \A t \in Token : t \in Token \cup {NoToken}
  OBVIOUS
<1>3. ASSUME NEW u \in User, NEW hash \in Hash, Login(p, u, hash) PROVE \E r : Moves(p, r)
  <2>1. users[u] \in Row /\ Stored(u) /\ req[p].pc = "idle"
           /\ StartSave(p, "login", u, NoToken, users[u])
    BY <1>3, StoredRow DEF Login
  <2> QED BY <1>1, <1>2, <2>1, StartSaveMoves
<1>4. ASSUME NEW u \in User, UpdateProfile(p, u) PROVE \E r : Moves(p, r)
  <2>1. users[u] \in Row /\ Stored(u) /\ req[p].pc = "idle"
           /\ StartSave(p, "profile", u, NoToken, users[u])
    BY <1>4, StoredRow DEF UpdateProfile
  <2> QED BY <1>1, <1>2, <2>1, StartSaveMoves
<1>5. ASSUME NEW u \in User, NEW hash \in Hash, ChangePassword(p, u, hash)
      PROVE  \E r : Moves(p, r)
  <2>1. Stored(u) /\ req[p].pc = "idle" /\ SaveNewHash(p, "change", u, NoToken)
    BY <1>5 DEF ChangePassword
  <2> QED BY <1>1, <1>2, <2>1, SaveNewHashMoves
<1>6. ASSUME NEW u \in User, NEW status \in Status, UpdateUser(p, u, status)
      PROVE  \E r : Moves(p, r)
  <2> DEFINE ent == [users[u] EXCEPT !.status = status]
  <2>1. users[u] \in Row /\ Stored(u) /\ req[p].pc = "idle"
           /\ StartSave(p, "update", u, NoToken, ent)
    BY <1>6, StoredRow DEF UpdateUser
  <2>2. ent \in Row /\ ent.passwordHash = users[u].passwordHash
    BY <2>1 DEF Row
  <2> HIDE DEF ent
  <2> QED BY <1>1, <1>2, <2>1, <2>2, StartSaveMoves
<1>7. ASSUME NEW t \in Token, FindToken(p, t) PROVE \E r : Moves(p, r)
  <2> DEFINE u == tokens[t].user
  <2>1. Live(t) /\ req[p].pc = "idle" /\ SaveNewHash(p, "reset", u, t)
    BY <1>7 DEF FindToken, Redeemable
  <2>2. u \in User /\ Stored(u)
    BY <2>1, TokenOwner DEF Live
  <2> HIDE DEF u
  <2> QED BY <1>1, <1>2, <2>1, <2>2, SaveNewHashMoves
<1> QED BY <1>3, <1>4, <1>5, <1>6, <1>7

\* One case for each action.
LEMMA HandlerMoves ==
    ASSUME TypeOK, NEW p \in Proc, Handler(p)
    PROVE  \E r : Moves(p, r)
<1>1. CASE \E email \in Email, status \in MayLogIn : CheckFree(p, email, status)
  BY <1>1, CheckFreeMoves
<1>2. CASE Insert(p) \/ Remove(p) \/ InsertToken(p) \/ MarkUsed(p) \/ Abort(p)
  BY <1>2, FinishMoves DEF Insert, Remove, InsertToken, MarkUsed, Abort
<1>3. CASE \/ \E u \in User, hash \in Hash : Login(p, u, hash)
           \/ \E u \in User : UpdateProfile(p, u)
           \/ \E u \in User, hash \in Hash : ChangePassword(p, u, hash)
           \/ \E u \in User, status \in Status : UpdateUser(p, u, status)
           \/ \E t \in Token : FindToken(p, t)
  BY <1>3, StartMoves
<1>4. CASE SaveLoad(p) \/ SaveWrite(p)
  BY <1>4, SaveLoadMoves, SaveWriteMoves
<1>5. CASE \E u \in User : ReadForDelete(p, u) \/ FindUser(p, u)
  BY <1>5, ReadMoves
<1>6. CASE RevokeTokens(p)
  BY <1>6, RevokeTokensMoves
<1> QED BY <1>1, <1>2, <1>3, <1>4, <1>5, <1>6 DEF Handler

LEMMA RequestsStep == TypeOK /\ [Next]_vars => RequestsOK'
<1> SUFFICES ASSUME TypeOK, [Next]_vars PROVE RequestsOK'
  OBVIOUS
<1>1. CASE UNCHANGED req
  BY <1>1, TypeParts DEF RequestsOK
<1>2. ASSUME NEW p \in Proc, Handler(p) PROVE RequestsOK'
  BY <1>2, HandlerMoves, BecomeRequests DEF Moves
<1> QED BY <1>1, <1>2 DEF Next, Tick, vars

-----------------------------------------------------------------------------
\* What the actions do to the users

\* An INSERT of register or create takes a fresh id.
Inserts(p, u) ==
    /\ req[p].pc = "insert" /\ u \in User \ deleted /\ ~Stored(u)
    /\ users' = [users EXCEPT ![u] = req[p].ent]

\* The second statement of a save.
Saves(p, u) ==
    /\ req[p].pc = "write" /\ req[p].user = u
    /\ \/ /\ Stored(u) /\ req[p].loaded # NoRow
          /\ users' = [users EXCEPT ![u] = Merged(req[p].ent, req[p].loaded, users[u])]
       \/ ~Stored(u) /\ users' = [users EXCEPT ![u] = req[p].ent]

Removes(p, u) ==
    /\ Remove(p) /\ req[p].user = u
    /\ users' = [users EXCEPT ![u] = NoRow]

LEMMA UserWrites ==
    ASSUME TypeOK, [Next]_vars
    PROVE  \/ UNCHANGED users
           \/ \E p \in Proc, u \in User : Inserts(p, u) \/ Saves(p, u) \/ Removes(p, u)
<1>1. ASSUME NEW p \in Proc, Insert(p)
      PROVE  UNCHANGED users \/ \E u \in User : Inserts(p, u)
  BY <1>1 DEF Insert, Inserts
<1>2. ASSUME NEW p \in Proc, SaveWrite(p)
      PROVE  UNCHANGED users \/ \E u \in User : Saves(p, u)
  <2> DEFINE u == req[p].user
  <2>1. u \in User /\ users \in [User -> Row \cup {NoRow}]
    BY <1>2, Held DEF SaveWrite, TypeOK
  <2>2. CASE SaveFails(p)
    BY <1>2, <2>2 DEF SaveWrite
  <2>3. CASE ~SaveFails(p) /\ req[p].loaded = NoRow
    <3>1. ~Stored(u)
      BY <2>3 DEF SaveFails
    <3>2. users' = [users EXCEPT ![u] = req[p].ent]
      BY <1>2, <2>3 DEF SaveWrite
    <3> QED BY <1>2, <2>1, <3>1, <3>2 DEF Saves, SaveWrite
  <2>4. CASE req[p].loaded # NoRow /\ Stored(u)
    <3>1. users' = [users EXCEPT ![u] = Merged(req[p].ent, req[p].loaded, users[u])]
      BY <1>2, <2>4 DEF SaveWrite, SaveFails
    <3> QED BY <1>2, <2>1, <2>4, <3>1 DEF Saves, SaveWrite
  <2>5. CASE req[p].loaded # NoRow /\ ~Stored(u)
    <3>1. users' = [users EXCEPT ![u] = NoRow]
      BY <1>2, <2>5 DEF SaveWrite, SaveFails
    <3> QED BY <2>1, <2>5, <3>1 DEF Stored
  <2> QED BY <2>2, <2>3, <2>4, <2>5
<1>3. ASSUME NEW p \in Proc, Remove(p) PROVE \E u \in User : Removes(p, u)
  BY <1>3, Held DEF Remove, Removes
<1>4. ASSUME NEW p \in Proc, Handler(p), ~Insert(p), ~SaveWrite(p), ~Remove(p)
      PROVE  UNCHANGED users
  BY <1>4 DEF Handler, CheckFree, Login, UpdateProfile, ChangePassword, UpdateUser,
       SaveLoad, ReadForDelete, FindUser, RevokeTokens, InsertToken, FindToken,
       MarkUsed, Abort
<1> QED BY <1>1, <1>2, <1>3, <1>4 DEF Next, Tick, vars

\* The row that a save leaves takes each column from the entity or the row.
LEMMA MergedRow ==
    ASSUME NEW ent \in Row, NEW loaded \in Row, NEW row \in Row
    PROVE  LET m == Merged(ent, loaded, row) IN
           /\ m \in Row /\ m.passwordHash \in {ent.passwordHash, row.passwordHash}
           /\ m.status \in {ent.status, row.status}
BY DEF Merged, Column, Row

\* What is stored for one user after a step.
LEMMA UserAfter ==
    ASSUME TypeOK, [Next]_vars, NEW u \in User
    PROVE  \/ users'[u] = users[u]
           \/ ~Stored(u) /\ u \notin deleted /\
                 \E p \in Proc : req[p].pc = "insert" /\ users'[u] = req[p].ent
           \/ \E p \in Proc :
                 /\ req[p].pc = "write" /\ Saving(p, u)
                 /\ users'[u] \in Row
                 /\ \/ ~Stored(u) /\ users'[u] = req[p].ent
                    \/ /\ Stored(u)
                       /\ users'[u].passwordHash
                             \in {req[p].ent.passwordHash, users[u].passwordHash}
                       /\ users'[u].status \in {req[p].ent.status, users[u].status}
           \/ users'[u] = NoRow /\ \E p \in Proc : Removes(p, u)
<1>1. users \in [User -> Row \cup {NoRow}]
  BY DEF TypeOK
<1>2. CASE UNCHANGED users
  BY <1>2
<1>3. ASSUME NEW p \in Proc, NEW v \in User, Inserts(p, v)
      PROVE  \/ users'[u] = users[u]
             \/ ~Stored(u) /\ u \notin deleted
                  /\ req[p].pc = "insert" /\ users'[u] = req[p].ent
  BY <1>1, <1>3 DEF Inserts
<1>4. ASSUME NEW p \in Proc, NEW v \in User, Saves(p, v)
      PROVE  \/ users'[u] = users[u]
             \/ /\ req[p].pc = "write" /\ Saving(p, u) /\ users'[u] \in Row
                /\ \/ ~Stored(u) /\ users'[u] = req[p].ent
                   \/ /\ Stored(u)
                      /\ users'[u].passwordHash
                            \in {req[p].ent.passwordHash, users[u].passwordHash}
                      /\ users'[u].status \in {req[p].ent.status, users[u].status}
  <2>1. CASE u # v
    BY <1>1, <1>4, <2>1 DEF Saves
  <2>2. CASE u = v
    <3>1. req[p].pc = "write" /\ Saving(p, u) /\ req[p].ent \in Row
      BY <1>4, <2>2, Held DEF Saves, Saving
    <3>2. CASE ~Stored(u)
      BY <1>1, <1>4, <2>2, <3>1, <3>2 DEF Saves
    <3>3. CASE Stored(u)
      <4>1. users[u] \in Row /\ req[p].loaded \in Row
        BY <1>4, <2>2, <3>3, StoredRow, Held DEF Saves
      <4> DEFINE m == Merged(req[p].ent, req[p].loaded, users[u])
      <4>2. users'[u] = m
        BY <1>1, <1>4, <2>2, <3>3 DEF Saves
      <4>3. /\ m \in Row /\ m.passwordHash \in {req[p].ent.passwordHash, users[u].passwordHash}
            /\ m.status \in {req[p].ent.status, users[u].status}
        BY <3>1, <4>1, MergedRow
      <4> HIDE DEF m
      <4> QED BY <3>1, <3>3, <4>2, <4>3
    <3> QED BY <3>2, <3>3
  <2> QED BY <2>1, <2>2
<1>5. ASSUME NEW p \in Proc, NEW v \in User, Removes(p, v)
      PROVE  users'[u] = users[u] \/ (users'[u] = NoRow /\ Removes(p, u))
  BY <1>1, <1>5 DEF Removes
<1> QED BY <1>2, <1>3, <1>4, <1>5, UserWrites

\* The other actions and the counters of the users' side.
LEMMA CountersStep ==
    ASSUME TypeOK, [Next]_vars
    PROVE  /\ hashes' \in {hashes, hashes + 1} /\ hashes' \in 0..MaxHash
           /\ \/ deleted' = deleted
              \/ \E p \in Proc : Remove(p) /\ deleted' = deleted \cup {req[p].user}
<1>1. hashes \in 0..MaxHash /\ MaxHash \in Nat
  BY NumberAssumption DEF TypeOK
<1>2. ASSUME NEW p \in Proc, Handler(p)
      PROVE  \/ hashes' = hashes
             \/ hashes < MaxHash /\ hashes' = hashes + 1
  BY <1>2 DEF Handler, CheckFree, Insert, Login, UpdateProfile, ChangePassword,
       UpdateUser, SaveLoad, SaveWrite, ReadForDelete, Remove, FindUser, RevokeTokens,
       InsertToken, FindToken, MarkUsed, Abort, SaveNewHash
<1>3. ASSUME NEW p \in Proc, Handler(p), ~Remove(p)
      PROVE  deleted' = deleted
  BY <1>3 DEF Handler, CheckFree, Insert, Login, UpdateProfile, ChangePassword,
       UpdateUser, SaveLoad, SaveWrite, ReadForDelete, FindUser, RevokeTokens,
       InsertToken, FindToken, MarkUsed, Abort
<1>4. ASSUME NEW p \in Proc, Remove(p)
      PROVE  deleted' = deleted \cup {req[p].user}
  BY <1>4 DEF Remove
<1>5. CASE UNCHANGED vars \/ Tick
  BY <1>1, <1>5 DEF vars, Tick
<1>6. ASSUME NEW p \in Proc, Handler(p)
      PROVE  /\ hashes' \in {hashes, hashes + 1} /\ hashes' \in 0..MaxHash
             /\ \/ deleted' = deleted
                \/ \E q \in Proc : Remove(q) /\ deleted' = deleted \cup {req[q].user}
  <2>1. hashes' \in {hashes, hashes + 1} /\ hashes' \in 0..MaxHash
    BY <1>1, <1>2, <1>6
  <2> QED BY <2>1, <1>3, <1>4, <1>6
<1> QED BY <1>5, <1>6 DEF Next

LEMMA UsersStep == TypeOK /\ [Next]_vars => UsersOK'
<1> SUFFICES ASSUME TypeOK, [Next]_vars PROVE UsersOK'
  OBVIOUS
<1>1. users \in [User -> Row \cup {NoRow}] /\ deleted \subseteq User
  BY DEF TypeOK
<1>2. ASSUME NEW u \in User PROVE users'[u] \in Row \cup {NoRow}
  <2>1. users[u] \in Row \cup {NoRow}
    BY <1>1
  <2>2. \A p \in Proc : req[p].pc = "insert" => req[p].ent \in Row
    BY Held
  <2> QED BY <2>1, <2>2, UserAfter
<1>3. users' \in [User -> Row \cup {NoRow}]
  <2>1. \E f : users' = [u \in User |-> f[u]]
    BY <1>1, UserWrites DEF Inserts, Saves, Removes
  <2> QED BY <1>2, <2>1
<1>4. deleted' \subseteq User
  <2>1. \A p \in Proc : Remove(p) => req[p].user \in User
    BY Held DEF Remove
  <2> QED BY <1>1, <2>1, CountersStep
<1> QED BY <1>3, <1>4, CountersStep DEF UsersOK

-----------------------------------------------------------------------------
\* What the actions do to the tokens

\* What is stored for one token after a step: nothing new, nothing at all, a
\* token that is used, or one that was just drawn.
LEMMA TokenAfter ==
    ASSUME TypeOK, [Next]_vars, NEW t \in Token
    PROVE  \/ tokens'[t] = tokens[t]
           \/ tokens'[t] = NoRow
           \/ /\ tokens'[t] \in TokenRow /\ tokens'[t].used
              /\ Stored(tokens'[t].user)
              /\ tokens[t] # NoRow => tokens'[t].user = tokens[t].user
           \/ \E p \in Proc :
                 /\ InsertToken(p) /\ t \notin drawn /\ tokens'[t] \in TokenRow
                 /\ tokens'[t].user = req[p].user /\ Stored(req[p].user)
                 /\ tokens' = [tokens EXCEPT ![t] = tokens'[t]]
<1>1. tokens \in [Token -> TokenRow \cup {NoRow}] /\ now \in Time
  BY DEF TypeOK
<1>2. ASSUME NEW p \in Proc, Remove(p)
      PROVE  tokens'[t] = tokens[t] \/ tokens'[t] = NoRow
  BY <1>2 DEF Remove
<1>3. ASSUME NEW p \in Proc, RevokeTokens(p)
      PROVE  \/ tokens'[t] = tokens[t]
             \/ /\ tokens'[t] \in TokenRow /\ tokens'[t].used
                /\ Stored(tokens'[t].user) /\ tokens'[t].user = tokens[t].user
  <2>1. CASE Live(t) /\ tokens[t].user = req[p].user
    <3>1. tokens'[t] = [tokens[t] EXCEPT !.used = TRUE]
      BY <1>3, <2>1 DEF RevokeTokens
    <3>2. tokens[t] \in TokenRow /\ Stored(tokens[t].user)
      BY <2>1, TokenOwner DEF Live
    <3> QED BY <3>1, <3>2 DEF TokenRow
  <2>2. CASE ~(Live(t) /\ tokens[t].user = req[p].user)
    BY <1>3, <2>2 DEF RevokeTokens
  <2> QED BY <2>1, <2>2
<1>4. ASSUME NEW p \in Proc, InsertToken(p)
      PROVE  \/ tokens'[t] = tokens[t]
             \/ /\ t \notin drawn /\ tokens'[t] \in TokenRow
                /\ tokens'[t].user = req[p].user /\ Stored(req[p].user)
                /\ tokens' = [tokens EXCEPT ![t] = tokens'[t]]
  <2>1. CASE ~Stored(req[p].user)
    BY <1>4, <2>1 DEF InsertToken
  <2>2. CASE Stored(req[p].user)
    <3>1. req[p].user \in User
      BY <1>4, Held DEF InsertToken
    <3> DEFINE row == [user |-> req[p].user, used |-> FALSE, expiresAt |-> now + Ttl]
    <3>2. now + Ttl \in 0..(MaxTime + Ttl)
      BY <1>1, NumberAssumption DEF Time
    <3>3. row \in TokenRow /\ row.user = req[p].user
      BY <3>1, <3>2 DEF TokenRow
    <3> HIDE DEF row
    <3>4. PICK s \in Token \ drawn : tokens' = [tokens EXCEPT ![s] = row]
      BY <1>4, <2>2 DEF InsertToken, row
    <3>5. CASE s = t
      <4>1. tokens'[t] = row
        BY <1>1, <3>4, <3>5
      <4> QED BY <2>2, <3>3, <3>4, <3>5, <4>1
    <3>6. CASE s # t
      BY <1>1, <3>4, <3>6
    <3> QED BY <3>5, <3>6
  <2> QED BY <2>1, <2>2
<1>5. ASSUME NEW p \in Proc, MarkUsed(p)
      PROVE  \/ tokens'[t] = tokens[t]
             \/ /\ tokens'[t] \in TokenRow /\ tokens'[t].used
                /\ Stored(tokens'[t].user)
                /\ tokens[t] # NoRow => tokens'[t].user = tokens[t].user
  <2> DEFINE s == req[p].token
  <2>1. s \in Token /\ req[p].user \in User
    BY <1>5, Held DEF MarkUsed
  <2>2. CASE t # s
    BY <1>1, <1>5, <2>2 DEF MarkUsed
  <2>3. CASE t = s /\ tokens[t] # NoRow
    <3>1. tokens[t] \in TokenRow /\ Stored(tokens[t].user)
      BY <2>3, TokenOwner
    <3>2. tokens' = [tokens EXCEPT ![t].used = TRUE]
      BY <1>5, <2>3 DEF MarkUsed
    <3>3. tokens'[t] = [tokens[t] EXCEPT !.used = TRUE]
      BY <1>1, <3>2
    <3> QED BY <3>1, <3>3 DEF TokenRow
  <2>4. CASE t = s /\ tokens[t] = NoRow /\ Stored(req[p].user)
    <3> DEFINE row == [user |-> req[p].user, used |-> TRUE, expiresAt |-> now]
    <3>1. tokens' = [tokens EXCEPT ![t] = row]
      BY <1>5, <2>4 DEF MarkUsed
    <3>2. now \in 0..(MaxTime + Ttl)
      BY <1>1, NumberAssumption DEF Time
    <3>3. row \in TokenRow /\ row.used /\ row.user = req[p].user
      BY <2>1, <3>2 DEF TokenRow
    <3> HIDE DEF row
    <3>4. tokens'[t] = row
      BY <1>1, <3>1
    <3> QED BY <2>4, <3>3, <3>4
  <2>5. CASE t = s /\ tokens[t] = NoRow /\ ~Stored(req[p].user)
    BY <1>5, <2>5 DEF MarkUsed
  <2> QED BY <2>2, <2>3, <2>4, <2>5
<1>6. ASSUME NEW p \in Proc, Handler(p), ~Remove(p), ~RevokeTokens(p), ~InsertToken(p),
             ~MarkUsed(p)
      PROVE  tokens' = tokens
  BY <1>6 DEF Handler, CheckFree, Insert, Login, UpdateProfile, ChangePassword,
       UpdateUser, SaveLoad, SaveWrite, ReadForDelete, FindUser, FindToken, Abort
<1>7. CASE UNCHANGED vars \/ Tick
  BY <1>7 DEF vars, Tick
<1>8. ASSUME NEW p \in Proc, Handler(p)
      PROVE  \/ tokens'[t] = tokens[t]
             \/ tokens'[t] = NoRow
             \/ /\ tokens'[t] \in TokenRow /\ tokens'[t].used
                /\ Stored(tokens'[t].user)
                /\ tokens[t] # NoRow => tokens'[t].user = tokens[t].user
             \/ /\ InsertToken(p) /\ t \notin drawn /\ tokens'[t] \in TokenRow
                /\ tokens'[t].user = req[p].user /\ Stored(req[p].user)
                /\ tokens' = [tokens EXCEPT ![t] = tokens'[t]]
  BY <1>2, <1>3, <1>4, <1>5, <1>6, <1>8
<1> QED BY <1>7, <1>8 DEF Next

\* Only a deletion takes a stored user away, and it takes the tokens along.
LEMMA StoredStays ==
    ASSUME TypeOK, [Next]_vars, NEW u \in User, Stored(u)
    PROVE  users'[u] # NoRow \/ \E p \in Proc : Removes(p, u)
BY UserAfter, NoValueAssumption DEF Stored

LEMMA OwnersStay ==
    ASSUME TypeOK, [Next]_vars, NEW t \in Token, tokens'[t] # NoRow
    PROVE  tokens'[t].user \in User /\ users'[tokens'[t].user] # NoRow
<1> DEFINE u == tokens'[t].user
<1>1. u \in User /\ Stored(u)
  BY TokenAfter, TokenOwner DEF TokenRow
<1>2. ASSUME NEW p \in Proc, Removes(p, u) PROVE FALSE
  <2>1. tokens'[t] = IF tokens[t] # NoRow /\ tokens[t].user = u THEN NoRow ELSE tokens[t]
    BY <1>2 DEF Removes, Remove
  <2> QED BY <2>1
<1> HIDE DEF u
<1>3. users'[u] # NoRow
  BY <1>1, <1>2, StoredStays
<1> QED BY <1>1, <1>3 DEF u

LEMMA TokenCounters ==
    ASSUME TypeOK, [Next]_vars
    PROVE  /\ drawn \subseteq drawn' /\ drawn' \subseteq Token
           /\ now' \in Time
           /\ \/ resets' = resets
              \/ \E p \in Proc :
                    /\ SaveWrite(p) /\ req[p].token \in Token
                    /\ resets' = [resets EXCEPT ![req[p].token] = @ + 1]
<1>1. drawn \subseteq Token /\ now \in Time
  BY DEF TypeOK
<1>2. CASE UNCHANGED vars
  BY <1>1, <1>2 DEF vars
<1>3. CASE Tick
  BY <1>1, <1>3, NumberAssumption DEF Tick, Time
<1>4. ASSUME NEW p \in Proc, Handler(p)
      PROVE  now' = now /\ (InsertToken(p) \/ drawn' = drawn)
                /\ (SaveWrite(p) \/ resets' = resets)
  BY <1>4 DEF Handler, CheckFree, Insert, Login, UpdateProfile, ChangePassword,
       UpdateUser, SaveLoad, SaveWrite, ReadForDelete, Remove, FindUser, RevokeTokens,
       InsertToken, FindToken, MarkUsed, Abort
<1>5. ASSUME NEW p \in Proc, InsertToken(p)
      PROVE  drawn \subseteq drawn' /\ drawn' \subseteq Token
  BY <1>1, <1>5 DEF InsertToken
<1>6. ASSUME NEW p \in Proc, SaveWrite(p)
      PROVE  \/ resets' = resets
             \/ /\ req[p].token \in Token
                /\ resets' = [resets EXCEPT ![req[p].token] = @ + 1]
  BY <1>6, Held DEF SaveWrite
<1> QED BY <1>1, <1>2, <1>3, <1>4, <1>5, <1>6 DEF Next

LEMMA TokensStep == TypeOK /\ [Next]_vars => TokensOK'
<1> SUFFICES ASSUME TypeOK, [Next]_vars PROVE TokensOK'
  OBVIOUS
<1>1. tokens \in [Token -> TokenRow \cup {NoRow}] /\ resets \in [Token -> Nat]
  BY DEF TypeOK
<1>2. \A t \in Token : tokens'[t] \in TokenRow \cup {NoRow}
  BY <1>1, TokenAfter
<1>3. tokens' \in [Token -> TokenRow \cup {NoRow}]
  <2>1. \E f : tokens' = [t \in Token |-> f[t]]
    <3>1. ASSUME NEW p \in Proc, Handler(p) PROVE \E f : tokens' = [t \in Token |-> f[t]]
      BY <1>1, <3>1 DEF Handler, CheckFree, Insert, Login, UpdateProfile,
           ChangePassword, UpdateUser, SaveLoad, SaveWrite, ReadForDelete, Remove,
           FindUser, RevokeTokens, InsertToken, FindToken, MarkUsed, Abort
    <3>2. CASE UNCHANGED vars \/ Tick
      BY <1>1, <3>2 DEF vars, Tick
    <3> QED BY <3>1, <3>2 DEF Next
  <2> QED BY <1>2, <2>1
<1>4. resets' \in [Token -> Nat]
  BY <1>1, TokenCounters
<1>5. \A t \in Token : tokens'[t] # NoRow => users'[tokens'[t].user] # NoRow
  BY OwnersStay
<1> QED BY <1>3, <1>4, <1>5, TokenCounters DEF TokensOK, Stored

-----------------------------------------------------------------------------
\* Types

LEMMA TypeInit == Init => TypeOK
BY IdleRequest, NumberAssumption DEF Init, TypeOK, Time, Stored

LEMMA TypeStep == TypeOK /\ [Next]_vars => TypeOK'
BY UsersStep, TokensStep, RequestsStep
   DEF TypeOK, UsersOK, TokensOK, RequestsOK

\* Whatever the services do, their state has the types of TypeOK: a token never
\* outlives its user, and no request loses the entity that it is about to save.
THEOREM TypesHold == Spec => []TypeOK
BY TypeInit, TypeStep, PTL DEF Spec

-----------------------------------------------------------------------------
\* Live tokens

\* The requests that have revoked the tokens of a user and insert one next.
Issuing(u) == {p \in Proc : req[p].pc = "insertToken" /\ req[p].user = u}

\* LiveTokensBounded does not hold step by step on its own: a token is paid for
\* by the request that inserts it, and counts it before it does.
TokensPaid ==
    \A u \in User :
        Cardinality(LiveTokens(u)) + Cardinality(Issuing(u)) <= Cardinality(Proc)

LEMMA Finite ==
    ASSUME NEW u
    PROVE  /\ IsFiniteSet(LiveTokens(u)) /\ Cardinality(LiveTokens(u)) \in Nat
           /\ IsFiniteSet(Issuing(u)) /\ Cardinality(Issuing(u)) \in Nat
           /\ Cardinality(Proc) \in Nat
<1>1. LiveTokens(u) \in SUBSET Token /\ Issuing(u) \in SUBSET Proc
  BY DEF LiveTokens, Issuing
<1>2. IsFiniteSet(LiveTokens(u)) /\ IsFiniteSet(Issuing(u))
  BY <1>1, ProcAssumption, TokenAssumption, FS_Subset
<1> QED BY <1>2, ProcAssumption, FS_CardinalityType

\* A step issues for a user only after it has revoked the user's tokens.
LEMMA IssuingAfter ==
    ASSUME TypeOK, [Next]_vars, NEW u \in User
    PROVE  \/ Issuing(u)' \subseteq Issuing(u)
           \/ \E p \in Proc : RevokeTokens(p) /\ req[p].user = u
<1>1. CASE UNCHANGED req
  BY <1>1 DEF Issuing
<1>2. ASSUME NEW p \in Proc, Handler(p)
      PROVE  Issuing(u)' \subseteq Issuing(u) \/ (RevokeTokens(p) /\ req[p].user = u)
  <2>1. PICK r : Moves(p, r)
    BY <1>2, HandlerMoves
  <2>2. req'[p] = r /\ \A q \in Proc \ {p} : req'[q] = req[q]
    BY <2>1, Became DEF Moves
  <2>3. CASE r.pc = "insertToken" /\ r.user = u
    BY <2>1, <2>3 DEF Moves, Quiet, Registers, Begins, Loads, Issues
  <2>4. CASE ~(r.pc = "insertToken" /\ r.user = u)
    BY <2>2, <2>4 DEF Issuing
  <2> QED BY <2>3, <2>4
<1> QED BY <1>1, <1>2 DEF Next, Tick, vars

\* At most one token becomes live, that of the request that issues it.
LEMMA LiveAfter ==
    ASSUME TypeOK, [Next]_vars, NEW u \in User
    PROVE  \/ LiveTokens(u)' \subseteq LiveTokens(u)
           \/ \E p \in Proc, t \in Token :
                 /\ InsertToken(p) /\ req[p].user = u
                 /\ LiveTokens(u)' \subseteq LiveTokens(u) \cup {t}
<1>1. ASSUME NEW t \in Token, t \in LiveTokens(u)', t \notin LiveTokens(u)
      PROVE  \E p \in Proc : /\ InsertToken(p) /\ req[p].user = u
                             /\ tokens' = [tokens EXCEPT ![t] = tokens'[t]]
  <2>1. tokens'[t] # NoRow /\ ~tokens'[t].used /\ tokens'[t].user = u
    BY <1>1 DEF LiveTokens, Live
  <2>2. tokens'[t] # tokens[t]
    BY <1>1, <2>1 DEF LiveTokens, Live
  <2> QED BY <2>1, <2>2, TokenAfter
<1>2. CASE LiveTokens(u)' \subseteq LiveTokens(u)
  BY <1>2
<1>3. CASE ~(LiveTokens(u)' \subseteq LiveTokens(u))
  <2>1. PICK t \in Token : t \in LiveTokens(u)' /\ t \notin LiveTokens(u)
    BY <1>3 DEF LiveTokens
  <2>2. PICK p \in Proc : /\ InsertToken(p) /\ req[p].user = u
                         /\ tokens' = [tokens EXCEPT ![t] = tokens'[t]]
    BY <1>1, <2>1
  <2>3. \A s \in Token \ {t} : tokens'[s] = tokens[s]
    BY <2>2 DEF TypeOK
  <2>4. LiveTokens(u)' \subseteq LiveTokens(u) \cup {t}
    BY <2>3 DEF LiveTokens, Live
  <2> QED BY <2>2, <2>4
<1> QED BY <1>2, <1>3

LEMMA PaidStep ==
    ASSUME TypeOK, TokensPaid, [Next]_vars
    PROVE  TokensPaid'
<1> SUFFICES ASSUME NEW u \in User
             PROVE  Cardinality(LiveTokens(u)') + Cardinality(Issuing(u)')
                        <= Cardinality(Proc)
  BY DEF TokensPaid
<1> DEFINE live == LiveTokens(u)'
           issuing == Issuing(u)'
<1>1. Cardinality(LiveTokens(u)) + Cardinality(Issuing(u)) <= Cardinality(Proc)
  BY DEF TokensPaid
<1>2. live \subseteq Token /\ issuing \subseteq Proc
  BY DEF LiveTokens, Issuing
<1> HIDE DEF live, issuing
<1>3. /\ IsFiniteSet(live) /\ Cardinality(live) \in Nat
      /\ IsFiniteSet(issuing) /\ Cardinality(issuing) \in Nat
      /\ Cardinality(issuing) <= Cardinality(Proc)
  BY <1>2, ProcAssumption, TokenAssumption, FS_Subset, FS_CardinalityType
<1>4. CASE \E p \in Proc : RevokeTokens(p) /\ req[p].user = u
  <2>1. live = {}
    <3>1. PICK p \in Proc : RevokeTokens(p) /\ req[p].user = u
      BY <1>4
    <3> SUFFICES ASSUME NEW t \in Token, Live(t)', tokens'[t].user = u
                 PROVE  FALSE
      BY <1>2 DEF live, LiveTokens
    <3>2. tokens'[t] = IF Live(t) /\ tokens[t].user = u
                       THEN [tokens[t] EXCEPT !.used = TRUE] ELSE tokens[t]
      BY <3>1 DEF RevokeTokens
    <3>3. CASE Live(t) /\ tokens[t].user = u
      <4>1. tokens[t] \in TokenRow
        BY <3>3, TokenOwner DEF Live
      <4>2. tokens'[t].used
        BY <3>2, <3>3, <4>1 DEF TokenRow
      <4> QED BY <4>2 DEF Live
    <3>4. CASE ~(Live(t) /\ tokens[t].user = u)
      BY <3>2, <3>4 DEF Live
    <3> QED BY <3>3, <3>4
  <2>2. Cardinality(live) = 0
    BY <2>1, FS_EmptySet
  <2> QED BY <1>3, <2>2, Finite DEF live, issuing
<1>5. CASE ~\E p \in Proc : RevokeTokens(p) /\ req[p].user = u
  <2>1. issuing \subseteq Issuing(u)
    BY <1>5, IssuingAfter DEF issuing
  <2>2. Cardinality(issuing) <= Cardinality(Issuing(u))
    BY <2>1, Finite, FS_Subset
  <2>3. CASE live \subseteq LiveTokens(u)
    <3>1. Cardinality(live) <= Cardinality(LiveTokens(u))
      BY <2>3, Finite, FS_Subset
    <3> QED BY <1>1, <1>3, <2>2, <3>1, Finite DEF live, issuing
  <2>4. ASSUME NEW p \in Proc, NEW t \in Token, InsertToken(p), req[p].user = u,
               live \subseteq LiveTokens(u) \cup {t}
        PROVE  Cardinality(live) + Cardinality(issuing) <= Cardinality(Proc)
    <3>1. /\ IsFiniteSet(LiveTokens(u) \cup {t})
          /\ Cardinality(LiveTokens(u) \cup {t}) <= Cardinality(LiveTokens(u)) + 1
      <4>1. IsFiniteSet(LiveTokens(u)) /\ Cardinality(LiveTokens(u)) \in Nat
        BY Finite
      <4> HIDE DEF LiveTokens
      <4>2. /\ IsFiniteSet(LiveTokens(u) \cup {t})
            /\ Cardinality(LiveTokens(u) \cup {t})
                 = IF t \in LiveTokens(u) THEN Cardinality(LiveTokens(u))
                   ELSE Cardinality(LiveTokens(u)) + 1
        BY <4>1, FS_AddElement
      <4> QED BY <4>1, <4>2
    <3>2. Cardinality(live) <= Cardinality(LiveTokens(u) \cup {t})
      BY <2>4, <3>1, FS_Subset
    <3>3. p \in Issuing(u)
      BY <2>4 DEF InsertToken, Issuing
    <3>4. p \notin issuing
      <4>1. req'[p] = Idle
        BY <2>4, Became DEF InsertToken, Finish
      <4> QED BY <4>1, IdleRequest DEF issuing, Issuing
    <3>5. issuing \subseteq Issuing(u) \ {p}
      BY <2>1, <3>4
    <3>6. /\ IsFiniteSet(Issuing(u) \ {p})
          /\ Cardinality(Issuing(u) \ {p}) = Cardinality(Issuing(u)) - 1
      BY <3>3, Finite, FS_RemoveElement
    <3>7. Cardinality(issuing) <= Cardinality(Issuing(u) \ {p})
      BY <3>5, <3>6, FS_Subset
    <3>8. Cardinality(LiveTokens(u) \cup {t}) \in Nat
      BY <3>1, FS_CardinalityType
    <3> QED BY <1>1, <1>3, <3>1, <3>2, <3>6, <3>7, <3>8, Finite
  <2> QED BY <2>3, <2>4, LiveAfter DEF live, issuing
<1> QED BY <1>4, <1>5

\* However many requests for a reset of one password overlap, no more of its
\* tokens are live than there are requests.
THEOREM LiveTokensAreBounded == Spec => []LiveTokensBounded
<1>1. Init => TypeOK /\ TokensPaid
  <2> SUFFICES ASSUME Init PROVE TokensPaid
    BY TypeInit
  <2>1. ASSUME NEW u \in User
        PROVE  Cardinality(LiveTokens(u)) = 0 /\ Cardinality(Issuing(u)) = 0
    <3>1. LiveTokens(u) = {} /\ Issuing(u) = {}
      BY IdleRequest DEF Init, LiveTokens, Live, Issuing
    <3> QED BY <3>1, FS_EmptySet
  <2> QED BY <2>1, Finite DEF TokensPaid
<1>2. TypeOK /\ TokensPaid /\ [Next]_vars => (TypeOK /\ TokensPaid)'
  BY TypeStep, PaidStep
<1>3. TypeOK /\ TokensPaid => LiveTokensBounded
  BY Finite DEF TokensPaid, LiveTokensBounded
<1> QED BY <1>1, <1>2, <1>3, PTL DEF Spec

-----------------------------------------------------------------------------
\* What no step takes back

\* The requests that may save a user after a step: those that might before, with
\* the same entity and token, and the one that has begun to.
LEMMA SavingAfter ==
    ASSUME TypeOK, [Next]_vars, NEW p \in Proc, req'[p].pc \in {"save", "write"}
    PROVE  \/ /\ req[p].pc \in {"save", "write"}
              /\ req'[p].user = req[p].user /\ req'[p].ent = req[p].ent
              /\ req'[p].token = req[p].token
           \/ /\ Begins(p, req'[p])
<1>1. CASE UNCHANGED req
  BY <1>1
<1>2. ASSUME NEW q \in Proc, Handler(q)
      PROVE  \/ /\ req[p].pc \in {"save", "write"}
                /\ req'[p].user = req[p].user /\ req'[p].ent = req[p].ent
                /\ req'[p].token = req[p].token
             \/ /\ Begins(p, req'[p])
  <2>1. PICK r : Moves(q, r)
    BY <1>2, HandlerMoves
  <2>2. req'[q] = r /\ \A o \in Proc \ {q} : req'[o] = req[o]
    BY <2>1, Became DEF Moves
  <2>3. CASE p # q
    BY <2>2, <2>3
  <2>4. CASE p = q
    <3>1. Begins(p, r) \/ Loads(p, r)
      BY <2>1, <2>2, <2>4 DEF Moves, Quiet, Registers
    <3> QED BY <2>2, <2>4, <3>1 DEF Loads
  <2> QED BY <2>3, <2>4
<1> QED BY <1>1, <1>2 DEF Next, Tick, vars

LEMMA SpentStep ==
    ASSUME TypeOK, [Next]_vars, NEW t \in Token, Spent(t)
    PROVE  Spent(t)' /\ resets'[t] = resets[t]
<1>1. t \in drawn /\ ~Live(t)
         /\ \A p \in Proc : ~(req[p].pc \in {"save", "write"} /\ req[p].token = t)
  BY DEF Spent
<1>2. t \in drawn'
  BY <1>1, TokenCounters
<1>3. ~(tokens'[t] # NoRow /\ ~tokens'[t].used)
  BY <1>1, TokenAfter DEF Live
<1>4. ASSUME NEW p \in Proc, req'[p].pc \in {"save", "write"}, req'[p].token = t
      PROVE  FALSE
  <2>1. Begins(p, req'[p])
    BY <1>1, <1>4, SavingAfter
  <2> QED BY <1>1, <1>4, <2>1, NoValueAssumption DEF Begins
<1>5. resets'[t] = resets[t]
  <2>1. \A p \in Proc : SaveWrite(p) => req[p].token # t
    BY <1>1 DEF SaveWrite
  <2> QED BY <2>1, TokenCounters DEF TypeOK
<1>6. Spent(t)'
  BY <1>2, <1>3, <1>4 DEF Spent, Live
<1> QED BY <1>5, <1>6

\* A reset token that is used, revoked or gone, and that no request has found
\* before, is never live again, and sets no password any more.
THEOREM SpentTokensStay == Spec => SpentStays
<1>1. TypeOK /\ [Next]_vars =>
         [\A t \in Token : Spent(t) => Spent(t)' /\ resets'[t] = resets[t]]_vars
  BY SpentStep
<1> QED BY <1>1, TypesHold, PTL DEF Spec, SpentStays

\* Who holds a hash: a row, or a request that may write it.
Uses(h) ==
    \/ \E u \in User : Stored(u) /\ users[u].passwordHash = h
    \/ \E p \in Proc : /\ req[p].pc \in {"insert", "save", "write"}
                       /\ req[p].ent.passwordHash = h

LEMMA InUseMeans == \A h : h \in InUse <=> Uses(h)
BY DEF InUse, Uses

\* A request that holds a hash has got it from a row or has just made it.
LEMMA HeldAfter ==
    ASSUME TypeOK, [Next]_vars, NEW p \in Proc,
           req'[p].pc \in {"insert", "save", "write"}
    PROVE  req'[p].ent.passwordHash = hashes + 1 \/ Uses(req'[p].ent.passwordHash)
<1>1. CASE UNCHANGED req
  BY <1>1 DEF Uses
<1>2. ASSUME NEW q \in Proc, Handler(q)
      PROVE  req'[p].ent.passwordHash = hashes + 1 \/ Uses(req'[p].ent.passwordHash)
  <2>1. PICK r : Moves(q, r)
    BY <1>2, HandlerMoves
  <2>2. req'[q] = r /\ \A o \in Proc \ {q} : req'[o] = req[o]
    BY <2>1, Became DEF Moves
  <2>3. CASE p # q
    BY <2>2, <2>3 DEF Uses
  <2>4. CASE p = q
    <3>1. Registers(p, r) \/ Begins(p, r) \/ Loads(p, r)
      BY <2>1, <2>2, <2>4 DEF Moves, Quiet
    <3>2. CASE Registers(p, r)
      BY <2>2, <2>4, <3>2 DEF Registers
    <3>3. CASE Begins(p, r)
      BY <2>2, <2>4, <3>3 DEF Begins, Uses
    <3>4. CASE Loads(p, r)
      BY <2>2, <2>4, <3>4 DEF Loads, Uses
    <3> QED BY <3>1, <3>2, <3>3, <3>4
  <2> QED BY <2>3, <2>4
<1> QED BY <1>1, <1>2 DEF Next, Tick, vars

LEMMA SupersededStep ==
    ASSUME TypeOK, [Next]_vars, NEW h \in 1..hashes, h \notin InUse
    PROVE  h \notin InUse'
<1>1. ~Uses(h) /\ h # hashes + 1
  BY InUseMeans DEF TypeOK
<1>2. ASSUME NEW u \in User, users'[u] # NoRow, users'[u].passwordHash = h
      PROVE  FALSE
  <2>1. \A p \in Proc : req[p].pc \in {"insert", "save", "write"} =>
           req[p].ent.passwordHash # h
    BY <1>1 DEF Uses
  <2>2. Stored(u) => users[u].passwordHash # h
    BY <1>1 DEF Uses
  <2> QED BY <1>2, <2>1, <2>2, UserAfter DEF Stored
<1>3. ASSUME NEW p \in Proc, req'[p].pc \in {"insert", "save", "write"},
             req'[p].ent.passwordHash = h
      PROVE  FALSE
  BY <1>1, <1>3, HeldAfter
<1> QED BY <1>2, <1>3 DEF InUse, Stored

\* A password that was replaced, and that no request holds, opens no account
\* again, whatever the saves of other requests write.
THEOREM SupersededPasswordsStay == Spec => SupersededStays
<1>1. TypeOK /\ [Next]_vars =>
         [\A h \in 1..hashes : h \notin InUse => h \notin InUse']_vars
  BY SupersededStep
<1> QED BY <1>1, TypesHold, PTL DEF Spec, SupersededStays

LEMMA BarredStep ==
    ASSUME TypeOK, [Next]_vars, NEW u \in User, Barred(u)
    PROVE  \/ Barred(u)'
           \/ ~Stored(u)'
           \/ \E p \in Proc : /\ req[p].pc = "idle"
                              /\ req'[p].op = "update" /\ req'[p].user = u
<1> SUFFICES ASSUME users'[u] # NoRow,
                    \A p \in Proc : ~(/\ req[p].pc = "idle"
                                      /\ req'[p].op = "update" /\ req'[p].user = u)
             PROVE  Barred(u)'
  BY DEF Stored
<1>1. /\ Stored(u) /\ users[u].status \notin MayLogIn
      /\ \A p \in Proc : Saving(p, u) => req[p].ent.status \notin MayLogIn
  BY DEF Barred
<1>2. users'[u].status \notin MayLogIn
  BY <1>1, UserAfter
<1>3. ASSUME NEW p \in Proc, req'[p].pc \in {"save", "write"}, req'[p].user = u
      PROVE  req'[p].ent.status \notin MayLogIn
  <2>1. CASE Begins(p, req'[p])
    BY <1>1, <1>3, <2>1 DEF Begins
  <2>2. CASE /\ req[p].pc \in {"save", "write"}
             /\ req'[p].user = req[p].user /\ req'[p].ent = req[p].ent
    BY <1>1, <1>3, <2>2 DEF Saving
  <2> QED BY <1>3, <2>1, <2>2, SavingAfter
<1> QED BY <1>2, <1>3 DEF Barred, Saving, Stored

\* A deactivated user whom no request holds as active is admitted again only by
\* an update, however stale the entities are that logins and profiles save.
THEOREM BarredUsersStay == Spec => BarredUntilUpdated
<1>1. TypeOK /\ [Next]_vars =>
         [\A u \in User : Barred(u) =>
             \/ Barred(u)'
             \/ ~Stored(u)'
             \/ \E p \in Proc : /\ req[p].pc = "idle"
                                /\ req'[p].op = "update" /\ req'[p].user = u]_vars
  BY BarredStep
<1> QED BY <1>1, TypesHold, PTL DEF Spec, BarredUntilUpdated

LEMMA DeletedStep ==
    ASSUME TypeOK, [Next]_vars, NEW u \in deleted, ~Stored(u),
           \A p \in Proc : ~Saving(p, u)
    PROVE  ~Stored(u)' /\ \A p \in Proc : ~Saving(p, u)'
<1>1. u \in User
  BY DEF TypeOK
<1>2. users'[u] = NoRow
  BY <1>1, UserAfter DEF Stored
<1>3. ASSUME NEW p \in Proc, req'[p].pc \in {"save", "write"}, req'[p].user = u
      PROVE  FALSE
  <2>1. Begins(p, req'[p])
    BY <1>3, SavingAfter DEF Saving
  <2> QED BY <1>3, <2>1 DEF Begins
<1> QED BY <1>2, <1>3 DEF Stored, Saving

\* A deleted user whom no request may save stays deleted.
THEOREM DeletedUsersStay == Spec => DeletedStays
<1>1. TypeOK /\ [Next]_vars =>
         [\A u \in deleted :
             ~Stored(u) /\ (\A p \in Proc : ~Saving(p, u))
               => ~Stored(u)' /\ (\A p \in Proc : ~Saving(p, u)')]_vars
  BY DeletedStep
<1> QED BY <1>1, TypesHold, PTL DEF Spec, DeletedStays
=============================================================================
