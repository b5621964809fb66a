--------------------------- MODULE WebhooksProofs ---------------------------
(***************************************************************************)
(* Theorems about Webhooks, for every number of requests, webhooks, retries *)
(* and triggers: its types, that a delivery keeps to its retries, that the  *)
(* counters of a row claim no more than happened, and that a deactivated   *)
(* webhook stays silent.                                                   *)
(***************************************************************************)
EXTENDS Webhooks, FiniteSetTheorems, TLAPS

-----------------------------------------------------------------------------
\* The inductive invariant

Carrying == {"post", "catch", "save", "write"}

\* How often a delivery has posted at each point of its loop.
Posted(j) ==
    /\ j.attempt <= j.ent.maxRetries
    /\ j.pc \in {"post", "catch"} => ~GivenUp(j)
    /\ j.posts = IF j.pc = "post" \/ GivenUp(j) THEN j.attempt ELSE j.attempt + 1

Phase(j) ==
    /\ j.op \in Delivery => j.pc \in Carrying /\ Posted(j)
    /\ j.op = "delete" => j.pc = "remove"
    /\ j.pc \in {"post", "catch"} => j.op \in Delivery
    /\ j.pc \in Carrying => j.ent \in Row

JobsOK ==
    /\ job \in [Proc -> [Webhook -> Job]]
    /\ \A p \in Proc, w \in Webhook : Phase(job[p][w])

\* A webhook that is stored, or worked on, has got its id from the database.
RowsOK ==
    /\ rows \in [Webhook -> Row \cup {NoRow}]
    /\ drawn \subseteq Webhook
    /\ \A w \in Webhook : Stored(w) => w \in drawn
    /\ \A p \in Proc, w \in Webhook : job[p][w] # Idle => w \in drawn

CountersOK ==
    /\ triggers \in 0..MaxTriggers
    /\ accepted \in [Webhook -> Nat]
    /\ exhausted \in [Webhook -> Nat]

\* The entities of the requests claim no more than happened, as the rows do.
ClaimsReal(row, w) ==
    row.deliveryCount <= accepted[w] /\ row.failureCount <= exhausted[w]

CarriedReal ==
    \A p \in Proc, w \in Webhook :
        job[p][w].pc \in Carrying => ClaimsReal(job[p][w].ent, w)

\* What the deliveries that run may still post, and which of them may still
\* give up: together with what happened it is paid for by the triggers.
Left(j) == IF j.op \in Delivery THEN j.ent.maxRetries - j.posts ELSE 0
PostsLeft(w) == {u \in Proc \X (1..MaxRetries) : u[2] <= Left(job[u[1]][w])}

Tries(j) == j.op \in Delivery /\ ~GivenUp(j)
Trying(w) == {p \in Proc : Tries(job[p][w])}

PostsPaid ==
    \A w \in Webhook :
        accepted[w] + Cardinality(PostsLeft(w)) <= MaxRetries * triggers

FailuresPaid ==
    \A w \in Webhook : exhausted[w] + Cardinality(Trying(w)) <= triggers

Inv == JobsOK /\ RowsOK /\ CountersOK /\ CarriedReal /\ CountsAreReal
          /\ PostsPaid /\ FailuresPaid

-----------------------------------------------------------------------------
\* Counting

LEMMA Smaller ==
    ASSUME NEW S, IsFiniteSet(S), NEW T, T \subseteq S
    PROVE  /\ IsFiniteSet(T)
           /\ Cardinality(T) \in Nat /\ Cardinality(S) \in Nat
           /\ Cardinality(T) <= Cardinality(S)
           /\ \A x \in S : x \notin T => Cardinality(T) + 1 <= Cardinality(S)
<1>1. IsFiniteSet(T) /\ Cardinality(T) <= Cardinality(S)
  BY FS_Subset
<1>2. Cardinality(T) \in Nat /\ Cardinality(S) \in Nat
  BY <1>1, FS_CardinalityType
<1>3. ASSUME NEW x \in S, x \notin T PROVE Cardinality(T) + 1 <= Cardinality(S)
  <2>1. IsFiniteSet(S \ {x}) /\ Cardinality(S \ {x}) = Cardinality(S) - 1
    BY <1>3, FS_RemoveElement
  <2>2. T \in SUBSET (S \ {x})
    BY <1>3
  <2>3. Cardinality(T) <= Cardinality(S \ {x})
    BY <2>1, <2>2, FS_Subset
  <2> QED BY <1>2, <2>1, <2>3
<1> QED BY <1>1, <1>2, <1>3

LEMMA Joined ==
    ASSUME NEW S, IsFiniteSet(S), NEW R, IsFiniteSet(R), NEW T, T \subseteq S \cup R
    PROVE  Cardinality(T) <= Cardinality(S) + Cardinality(R)
<1>1. /\ IsFiniteSet(S \cup R)
      /\ Cardinality(S \cup R) = Cardinality(S) + Cardinality(R) - Cardinality(S \cap R)
  BY FS_Union
<1>2. IsFiniteSet(S \cap R) /\ Cardinality(S \cap R) \in Nat
  BY FS_Intersection, FS_CardinalityType
<1>3. Cardinality(T) \in Nat /\ Cardinality(T) <= Cardinality(S \cup R)
  BY <1>1, Smaller
<1>4. Cardinality(S) \in Nat /\ Cardinality(R) \in Nat
  BY FS_CardinalityType
<1> QED BY <1>1, <1>2, <1>3, <1>4

\* The posts of one delivery.
LEMMA Posts ==
    ASSUME NEW p
    PROVE  /\ IsFiniteSet({p} \X (1..MaxRetries))
           /\ Cardinality({p} \X (1..MaxRetries)) = MaxRetries
<1>1. IsFiniteSet({p}) /\ Cardinality({p}) = 1
  BY FS_Singleton
<1>2. IsFiniteSet(1..MaxRetries) /\ Cardinality(1..MaxRetries) = MaxRetries
  BY NumberAssumption, FS_Interval
<1>3. /\ IsFiniteSet({p} \X (1..MaxRetries))
      /\ Cardinality({p} \X (1..MaxRetries))
            = Cardinality({p}) * Cardinality(1..MaxRetries)
  BY <1>1, <1>2, FS_Product
<1>4. MaxRetries \in Nat /\ 1 * MaxRetries = MaxRetries
  BY NumberAssumption
<1> QED BY <1>1, <1>2, <1>3, <1>4

LEMMA Finite ==
    ASSUME NEW w
    PROVE  /\ IsFiniteSet(PostsLeft(w)) /\ Cardinality(PostsLeft(w)) \in Nat
           /\ IsFiniteSet(Trying(w)) /\ Cardinality(Trying(w)) \in Nat
<1>1. IsFiniteSet(1..MaxRetries)
  BY NumberAssumption, FS_Interval
<1>2. IsFiniteSet(Proc \X (1..MaxRetries))
  BY <1>1, ProcAssumption, FS_Product
<1>3. PostsLeft(w) \subseteq Proc \X (1..MaxRetries) /\ Trying(w) \subseteq Proc
  BY DEF PostsLeft, Trying
<1> QED BY <1>2, <1>3, ProcAssumption, Smaller

\* The bounds that the triggers pay for.
LEMMA Bounds ==
    ASSUME NEW n \in 0..MaxTriggers
    PROVE  /\ MaxRetries * n \in Nat /\ MaxRetries * n <= MaxTriggers * MaxRetries
           /\ n <= MaxTriggers * MaxRetries
           /\ MaxRetries * (n + 1) = MaxRetries * n + MaxRetries
<1>1. MaxRetries \in Nat /\ MaxRetries >= 1 /\ MaxTriggers \in Nat
  BY NumberAssumption
<1>2. PICK d \in Nat : MaxTriggers = n + d
  <2>1. MaxTriggers - n \in Nat /\ MaxTriggers = n + (MaxTriggers - n)
    BY <1>1
  <2> QED BY <2>1
<1>3. MaxTriggers * MaxRetries = MaxRetries * n + MaxRetries * d
  BY <1>1, <1>2
<1>4. MaxRetries * n \in Nat /\ MaxRetries * d \in Nat
  BY <1>1, <1>2
<1>5. PICK e \in Nat : MaxRetries = 1 + e
  <2>1. MaxRetries - 1 \in Nat /\ MaxRetries = 1 + (MaxRetries - 1)
    BY <1>1
  <2> QED BY <2>1
<1>6. MaxRetries * n = n + e * n /\ e * n \in Nat
  BY <1>5
<1>7. MaxRetries * (n + 1) = MaxRetries * n + MaxRetries
  BY <1>1
<1> QED BY <1>3, <1>4, <1>6, <1>7

\* Count is wide enough for what is paid for.
LEMMA Counted ==
    CountersOK /\ PostsPaid /\ FailuresPaid
        => accepted \in [Webhook -> Count] /\ exhausted \in [Webhook -> Count]
<1> SUFFICES ASSUME CountersOK, PostsPaid, FailuresPaid, NEW w \in Webhook
             PROVE  accepted[w] \in Count /\ exhausted[w] \in Count
  BY DEF CountersOK
<1>1. triggers \in 0..MaxTriggers /\ accepted[w] \in Nat /\ exhausted[w] \in Nat
  BY DEF CountersOK
<1>2. accepted[w] + Cardinality(PostsLeft(w)) <= MaxRetries * triggers
  BY DEF PostsPaid
<1>3. exhausted[w] + Cardinality(Trying(w)) <= triggers
  BY DEF FailuresPaid
<1>4. /\ MaxRetries * triggers \in Nat
      /\ MaxRetries * triggers <= MaxTriggers * MaxRetries
      /\ triggers <= MaxTriggers * MaxRetries
  BY <1>1, Bounds
<1>5. MaxTriggers * MaxRetries \in Nat
  BY NumberAssumption
<1>6. Cardinality(PostsLeft(w)) \in Nat /\ Cardinality(Trying(w)) \in Nat
  BY Finite
<1> QED BY <1>1, <1>2, <1>3, <1>4, <1>5, <1>6 DEF Count

-----------------------------------------------------------------------------
\* The jobs that the actions make

LEMMA IdleJob == Idle \in Job /\ Phase(Idle) /\ Left(Idle) = 0 /\ ~Tries(Idle)
                    /\ Idle.pc = "idle" /\ Idle.op = "none"
BY NumberAssumption DEF Idle, Job, Phase, Carrying, Delivery, Left, Tries

\* A row with a new count is a row, and its other columns are what they were.
LEMMA Counting ==
    ASSUME NEW row \in Row, NEW c \in Count
    PROVE  /\ [row EXCEPT !.deliveryCount = c] \in Row
           /\ [row EXCEPT !.failureCount = c] \in Row
BY DEF Row

Fields(n, j, pc, ent, attempt, posts) ==
    /\ n.op = j.op /\ n.pc = pc /\ n.ent = ent
    /\ n.attempt = attempt /\ n.posts = posts

\* A delivery with what it may still do, as a row bounds it.
LEMMA LeftBounds ==
    ASSUME NEW j \in Job, Phase(j)
    PROVE  /\ Left(j) \in 0..MaxRetries
           /\ j.op \in Delivery => /\ Left(j) = j.ent.maxRetries - j.posts
                                   /\ j.ent.maxRetries \in 1..MaxRetries
                                   /\ j.posts \in Nat /\ j.attempt \in Nat
<1>1. CASE j.op \in Delivery
  <2>1. j.pc \in Carrying /\ Posted(j) /\ j.ent \in Row
    BY <1>1 DEF Phase
  <2>2. /\ j.ent.maxRetries \in 1..MaxRetries
        /\ j.posts \in Nat /\ j.attempt \in Nat
    BY <2>1 DEF Row, Job
  <2>3. j.posts <= j.ent.maxRetries
    BY <2>1, <2>2 DEF Posted, GivenUp
  <2> QED BY <1>1, <2>2, <2>3, NumberAssumption DEF Left
<1>2. CASE j.op \notin Delivery
  BY <1>2, NumberAssumption DEF Left
<1> QED BY <1>1, <1>2

LEMMA StartedJob ==
    ASSUME NEW op \in Delivery, NEW w \in Webhook, rows[w] \in Row
    PROVE  LET n == StartDelivery(op, w) IN
           /\ n \in Job /\ Phase(n) /\ n # Idle
           /\ n.op = op /\ n.ent = rows[w]
<1> DEFINE n == StartDelivery(op, w)
<1>1. Idle.attempt = 0 /\ Idle.posts = 0
  BY DEF Idle
<1>2. n \in Job /\ n.op = op /\ n.pc = "post" /\ n.ent = rows[w]
         /\ n.attempt = 0 /\ n.posts = 0
  BY <1>1, IdleJob DEF StartDelivery, Job
<1>3. rows[w].maxRetries \in 1..MaxRetries
  BY DEF Row
<1> HIDE DEF n
<1>4. Phase(n)
  BY <1>2, <1>3 DEF Phase, Posted, Carrying, GivenUp, Delivery
<1>5. n # Idle
  BY <1>2, IdleJob
<1> QED BY <1>2, <1>4, <1>5 DEF n

LEMMA AcceptedJob ==
    ASSUME NEW j \in Job, Phase(j), j.pc = "post", j.ent.deliveryCount + 1 \in Count
    PROVE  LET n == [j EXCEPT !.pc = "save", !.posts = @ + 1,
                              !.ent.deliveryCount = @ + 1] IN
           /\ n \in Job /\ Phase(n) /\ n # Idle /\ n.op = j.op
           /\ Left(n) = Left(j) - 1 /\ (Tries(n) <=> Tries(j)) /\ Left(j) \in 1..MaxRetries
           /\ n.ent.deliveryCount = j.ent.deliveryCount + 1
           /\ n.ent.failureCount = j.ent.failureCount
           /\ n.ent.isActive = j.ent.isActive
<1> DEFINE n == [j EXCEPT !.pc = "save", !.posts = @ + 1, !.ent.deliveryCount = @ + 1]
           ent == [j.ent EXCEPT !.deliveryCount = j.ent.deliveryCount + 1]
<1>1. Fields(n, j, "save", ent, j.attempt, j.posts + 1)
  BY DEF Job, Fields
<1>2. j.op \in Delivery /\ Posted(j) /\ j.ent \in Row /\ j.posts = j.attempt /\ ~GivenUp(j)
  BY DEF Phase, Posted
<1>3. ent \in Row /\ ent.maxRetries = j.ent.maxRetries
         /\ ent.deliveryCount = j.ent.deliveryCount + 1
         /\ ent.failureCount = j.ent.failureCount /\ ent.isActive = j.ent.isActive
  BY <1>2 DEF Row
<1>4. n \in Job
  <2> DEFINE posts == j.posts + 1
             count == j.ent.deliveryCount + 1
  <2>1. posts \in Nat /\ [j.ent EXCEPT !.deliveryCount = count] \in Row
    BY <1>3 DEF Job
  <2> HIDE DEF posts, count
  <2>2. [j EXCEPT !.pc = "save", !.posts = posts, !.ent.deliveryCount = count] \in Job
    BY <2>1 DEF Job
  <2> QED BY <2>2 DEF posts, count
<1> HIDE DEF n, ent
<1>5. n.op = j.op /\ n.pc = "save" /\ n.ent = ent /\ n.attempt = j.attempt
         /\ n.posts = j.posts + 1
  BY <1>1 DEF Fields
<1>6. GivenUp(n) <=> GivenUp(j)
  BY <1>3, <1>5 DEF GivenUp
<1>7. Phase(n)
  BY <1>2, <1>3, <1>5, <1>6 DEF Phase, Posted, Carrying
<1>8. /\ j.ent.maxRetries \in 1..MaxRetries /\ j.posts \in Nat
      /\ Left(j) = j.ent.maxRetries - j.posts /\ Left(j) \in 0..MaxRetries
  BY <1>2, LeftBounds
<1>9. j.posts # j.ent.maxRetries
  BY <1>2 DEF GivenUp
<1>10. Left(n) = Left(j) - 1 /\ Left(j) \in 1..MaxRetries
  BY <1>2, <1>3, <1>5, <1>8, <1>9 DEF Left
<1>11. (Tries(n) <=> Tries(j)) /\ n # Idle
  BY <1>5, <1>6, IdleJob DEF Tries
<1> QED BY <1>3, <1>4, <1>5, <1>7, <1>10, <1>11 DEF n

LEMMA RefusedJob ==
    ASSUME NEW j \in Job, Phase(j), j.pc = "post"
    PROVE  LET n == [j EXCEPT !.pc = "catch", !.posts = @ + 1] IN
           /\ n \in Job /\ Phase(n) /\ n # Idle /\ n.op = j.op /\ n.ent = j.ent
           /\ Left(n) <= Left(j) /\ (Tries(n) => Tries(j))
<1> DEFINE n == [j EXCEPT !.pc = "catch", !.posts = @ + 1]
<1>0. Fields(n, j, "catch", j.ent, j.attempt, j.posts + 1)
  BY DEF Job, Fields
<1>1. n \in Job
  <2> DEFINE posts == j.posts + 1
  <2>1. posts \in Nat
    BY DEF Job
  <2> HIDE DEF posts
  <2>2. [j EXCEPT !.pc = "catch", !.posts = posts] \in Job
    BY <2>1 DEF Job
  <2> QED BY <2>2 DEF posts
<1>2. j.op \in Delivery /\ Posted(j) /\ j.ent \in Row /\ j.posts = j.attempt /\ ~GivenUp(j)
  BY DEF Phase, Posted
<1> HIDE DEF n
<1>3. n.op = j.op /\ n.pc = "catch" /\ n.ent = j.ent /\ n.attempt = j.attempt
         /\ n.posts = j.posts + 1
  BY <1>0 DEF Fields
<1>4. Phase(n)
  BY <1>2, <1>3 DEF Phase, Posted, Carrying, GivenUp
<1>5. /\ j.ent.maxRetries \in 1..MaxRetries /\ j.posts \in Nat
      /\ Left(j) = j.ent.maxRetries - j.posts
  BY <1>2, LeftBounds
<1>6. Left(n) <= Left(j)
  BY <1>2, <1>3, <1>5 DEF Left
<1>7. (Tries(n) => Tries(j)) /\ n # Idle
  BY <1>3, IdleJob DEF Tries, GivenUp
<1> QED BY <1>1, <1>3, <1>4, <1>6, <1>7 DEF n

\* The catch block goes round the loop again, or gives up.
LEMMA CaughtJob ==
    ASSUME NEW j \in Job, Phase(j), j.pc = "catch"
    PROVE  LET next == [j EXCEPT !.attempt = @ + 1]
               again == [next EXCEPT !.pc = "post"]
               last == [next EXCEPT !.pc = "save", !.ent.failureCount = @ + 1] IN
           /\ Tries(j)
           /\ next.attempt < next.ent.maxRetries =>
                 /\ again \in Job /\ Phase(again) /\ again # Idle
                 /\ again.op = j.op /\ again.ent = j.ent /\ Left(again) <= Left(j)
           /\ ~(next.attempt < next.ent.maxRetries) /\ j.ent.failureCount + 1 \in Count =>
                 /\ last \in Job /\ Phase(last) /\ last # Idle
                 /\ last.op = j.op /\ Left(last) <= Left(j) /\ ~Tries(last)
                 /\ last.ent.deliveryCount = j.ent.deliveryCount
                 /\ last.ent.failureCount = j.ent.failureCount + 1
                 /\ last.ent.isActive = j.ent.isActive
<1> DEFINE next == [j EXCEPT !.attempt = @ + 1]
           again == [next EXCEPT !.pc = "post"]
           last == [next EXCEPT !.pc = "save", !.ent.failureCount = @ + 1]
           ent == [j.ent EXCEPT !.failureCount = j.ent.failureCount + 1]
<1>1. /\ j.op \in Delivery /\ Posted(j) /\ j.ent \in Row
      /\ j.posts = j.attempt + 1 /\ ~GivenUp(j)
  BY DEF Phase, Posted
<1>2. /\ j.ent.maxRetries \in 1..MaxRetries /\ j.posts \in Nat /\ j.attempt \in Nat
      /\ Left(j) = j.ent.maxRetries - j.posts
  BY <1>1, LeftBounds
<1>3. j.attempt + 1 <= j.ent.maxRetries
  BY <1>1, <1>2 DEF Posted, GivenUp
<1>4. j.attempt + 1 \in 0..MaxRetries
  BY <1>2, <1>3, NumberAssumption
<1>5. next.attempt = j.attempt + 1 /\ next.ent = j.ent
  BY DEF Job
<1>6. /\ Fields(again, j, "post", j.ent, j.attempt + 1, j.posts)
      /\ Fields(last, j, "save", ent, j.attempt + 1, j.posts)
  BY DEF Job, Fields
<1>7. again \in Job
  BY <1>4 DEF Job
<1>8. ent.maxRetries = j.ent.maxRetries
         /\ ent.failureCount = j.ent.failureCount + 1
         /\ ent.deliveryCount = j.ent.deliveryCount /\ ent.isActive = j.ent.isActive
  BY <1>1 DEF Row
<1>9. ASSUME j.ent.failureCount + 1 \in Count PROVE ent \in Row /\ last \in Job
  <2>1. ent \in Row
    BY <1>1, <1>9, Counting
  <2> QED BY <2>1, <1>4 DEF Job
<1> HIDE DEF again, last, ent, next
<1>10. Tries(j)
  BY <1>1 DEF Tries
<1>11. ASSUME next.attempt < next.ent.maxRetries
       PROVE  Phase(again) /\ Left(again) <= Left(j) /\ again # Idle
  <2>1. again.op = j.op /\ again.pc = "post" /\ again.ent = j.ent
           /\ again.attempt = j.attempt + 1 /\ again.posts = j.posts
    BY <1>6 DEF Fields
  <2>2. Phase(again)
    BY <1>1, <1>2, <1>5, <1>11, <2>1 DEF Phase, Posted, Carrying, GivenUp
  <2> QED BY <2>1, <2>2, <1>1, <1>2, IdleJob DEF Left
<1>12. ASSUME ~(next.attempt < next.ent.maxRetries), ent \in Row
       PROVE  Phase(last) /\ Left(last) <= Left(j) /\ last # Idle /\ ~Tries(last)
  <2>1. last.op = j.op /\ last.pc = "save" /\ last.ent = ent
           /\ last.attempt = j.attempt + 1 /\ last.posts = j.posts
    BY <1>6 DEF Fields
  <2>2. j.attempt + 1 = j.ent.maxRetries
    BY <1>2, <1>3, <1>5, <1>12
  <2>3. Phase(last) /\ ~Tries(last)
    BY <1>1, <1>2, <1>8, <1>12, <2>1, <2>2 DEF Phase, Posted, Carrying, GivenUp, Tries
  <2> QED BY <2>1, <2>3, <1>1, <1>2, <1>8, IdleJob DEF Left
<1> QED BY <1>6, <1>7, <1>8, <1>9, <1>10, <1>11, <1>12 DEF Fields, again, last, next

LEMMA UpdateJob ==
    ASSUME NEW w \in Webhook, rows[w] \in Row, NEW active \in BOOLEAN,
           NEW retries \in 1..MaxRetries
    PROVE  LET n == [Idle EXCEPT !.op = "update", !.pc = "save",
                       !.ent = [rows[w] EXCEPT !.isActive = active, !.maxRetries = retries]] IN
           /\ n \in Job /\ Phase(n) /\ n.op = "update" /\ n # Idle
           /\ n.ent.deliveryCount = rows[w].deliveryCount
           /\ n.ent.failureCount = rows[w].failureCount
<1> DEFINE ent == [rows[w] EXCEPT !.isActive = active, !.maxRetries = retries]
           n == [Idle EXCEPT !.op = "update", !.pc = "save", !.ent = ent]
<1>1. /\ ent \in Row
      /\ ent.deliveryCount = rows[w].deliveryCount /\ ent.failureCount = rows[w].failureCount
  BY DEF Row
<1> HIDE DEF ent
<1>2. n \in Job /\ n.op = "update" /\ n.pc = "save" /\ n.ent = ent
  BY <1>1, IdleJob DEF Job
<1> HIDE DEF n
<1>3. Phase(n) /\ n # Idle
  BY <1>1, <1>2, IdleJob DEF Phase, Carrying, Delivery
<1> QED BY <1>1, <1>2, <1>3 DEF n, ent

LEMMA DeleteJob ==
    LET n == [Idle EXCEPT !.op = "delete", !.pc = "remove"] IN
    n \in Job /\ Phase(n) /\ n.op = "delete" /\ n.pc = "remove" /\ n # Idle
<1> DEFINE n == [Idle EXCEPT !.op = "delete", !.pc = "remove"]
<1>1. n \in Job /\ n.op = "delete" /\ n.pc = "remove"
  BY IdleJob DEF Job
<1> HIDE DEF n
<1>2. Phase(n) /\ n # Idle
  BY <1>1, IdleJob DEF Phase, Carrying, Delivery
<1> QED BY <1>1, <1>2 DEF n

\* A save that loads its row, and one that fails with retries left.
LEMMA LoadedJob ==
    ASSUME NEW j \in Job, Phase(j), j.pc = "save", NEW loaded \in Row \cup {NoRow}
    PROVE  LET n == [j EXCEPT !.pc = "write", !.loaded = loaded] IN
           /\ n \in Job /\ Phase(n) /\ n # Idle /\ n.op = j.op /\ n.ent = j.ent
           /\ Left(n) = Left(j) /\ (Tries(n) <=> Tries(j))
<1> DEFINE n == [j EXCEPT !.pc = "write", !.loaded = loaded]
<1>1. Fields(n, j, "write", j.ent, j.attempt, j.posts)
  BY DEF Job, Fields
<1>2. n \in Job
  BY DEF Job
<1> HIDE DEF n
<1>3. n.op = j.op /\ n.pc = "write" /\ n.ent = j.ent /\ n.attempt = j.attempt
         /\ n.posts = j.posts
  BY <1>1 DEF Fields
<1>4. Phase(n)
  BY <1>3 DEF Phase, Posted, Carrying, GivenUp, Delivery
<1>5. Left(n) = Left(j) /\ (Tries(n) <=> Tries(j)) /\ n # Idle
  BY <1>3, IdleJob DEF Left, Tries, GivenUp
<1> QED BY <1>2, <1>3, <1>4, <1>5 DEF n

LEMMA ThrownJob ==
    ASSUME NEW j \in Job, Phase(j), j.pc \in {"save", "write"}, Tries(j)
    PROVE  LET n == [j EXCEPT !.pc = "catch", !.loaded = NoRow] IN
           /\ n \in Job /\ Phase(n) /\ n # Idle /\ n.op = j.op /\ n.ent = j.ent
           /\ Left(n) = Left(j)
<1> DEFINE n == [j EXCEPT !.pc = "catch", !.loaded = NoRow]
<1>1. Fields(n, j, "catch", j.ent, j.attempt, j.posts)
  BY DEF Job, Fields
<1>2. n \in Job
  BY DEF Job
<1> HIDE DEF n
<1>3. n.op = j.op /\ n.pc = "catch" /\ n.ent = j.ent /\ n.attempt = j.attempt
         /\ n.posts = j.posts
  BY <1>1 DEF Fields
<1>4. Phase(n)
  BY <1>3 DEF Phase, Posted, Carrying, GivenUp, Delivery, Tries
<1>5. Left(n) = Left(j) /\ n # Idle
  BY <1>3, IdleJob DEF Left
<1> QED BY <1>2, <1>3, <1>4, <1>5 DEF n

\* The row that the UPDATE of a save writes.
LEMMA MergedRow ==
    ASSUME NEW ent \in Row, NEW loaded \in Row, NEW row \in Row
    PROVE  LET m == Merged(ent, loaded, row) IN
           /\ m \in Row
           /\ m.isActive \in {ent.isActive, row.isActive}
           /\ m.deliveryCount \in {ent.deliveryCount, row.deliveryCount}
           /\ m.failureCount \in {ent.failureCount, row.failureCount}
BY DEF Merged, Column, Row

-----------------------------------------------------------------------------
\* What a step leaves of the parts of the invariant

\* The history only grows.
Grows ==
    \A w \in Webhook : accepted[w] <= accepted'[w] /\ exhausted[w] <= exhausted'[w]

LEMMA GrowsStill == CountersOK /\ UNCHANGED <<accepted, exhausted>> => Grows
BY DEF CountersOK, Grows

\* The rows and the entities that were real stay so.
LEMMA ClaimsStay ==
    ASSUME CountersOK, CountersOK', Grows, NEW w \in Webhook, NEW row \in Row,
           ClaimsReal(row, w)
    PROVE  row.deliveryCount <= accepted'[w] /\ row.failureCount <= exhausted'[w]
<1>1. row.deliveryCount \in Int /\ row.failureCount \in Int
  BY DEF Row, Count
<1>2. /\ accepted[w] \in Nat /\ exhausted[w] \in Nat
      /\ accepted'[w] \in Nat /\ exhausted'[w] \in Nat
  BY DEF CountersOK
<1>3. accepted[w] <= accepted'[w] /\ exhausted[w] <= exhausted'[w]
  BY DEF Grows
<1>4. row.deliveryCount <= accepted[w] /\ row.failureCount <= exhausted[w]
  BY DEF ClaimsReal
<1> QED BY <1>1, <1>2, <1>3, <1>4

LEMMA CountsStay ==
    ASSUME RowsOK, CountersOK, CountersOK', Grows, CountsAreReal, UNCHANGED rows
    PROVE  CountsAreReal'
<1> SUFFICES ASSUME NEW w \in Webhook, rows[w] # NoRow
             PROVE  /\ rows[w].deliveryCount <= accepted'[w]
                    /\ rows[w].failureCount <= exhausted'[w]
  BY DEF CountsAreReal, Stored
<1>1. rows[w] \in Row
  BY DEF RowsOK
<1>2. ClaimsReal(rows[w], w)
  BY DEF CountsAreReal, ClaimsReal, Stored
<1> QED BY <1>1, <1>2, ClaimsStay

LEMMA Became ==
    ASSUME JobsOK, NEW p \in Proc, NEW w \in Webhook, NEW n \in Job, Become(p, w, n)
    PROVE  /\ job' \in [Proc -> [Webhook -> Job]]
           /\ job'[p][w] = n
           /\ \A q \in Proc, v \in Webhook : ~(q = p /\ v = w) => job'[q][v] = job[q][v]
BY DEF JobsOK, Become

\* A job that is changed as the invariant asks for.
Sound(n, w) ==
    /\ n \in Job /\ Phase(n)
    /\ n # Idle => w \in drawn
    /\ n.pc \in Carrying => /\ n.ent.deliveryCount <= accepted'[w]
                            /\ n.ent.failureCount <= exhausted'[w]

LEMMA SoundStays ==
    ASSUME Inv, CountersOK', Grows, NEW p \in Proc, NEW w \in Webhook
    PROVE  Sound(job[p][w], w)
<1>1. job[p][w] \in Job /\ Phase(job[p][w])
  BY DEF Inv, JobsOK
<1>2. job[p][w] # Idle => w \in drawn
  BY DEF Inv, RowsOK
<1>3. ASSUME job[p][w].pc \in Carrying
      PROVE  /\ job[p][w].ent.deliveryCount <= accepted'[w]
             /\ job[p][w].ent.failureCount <= exhausted'[w]
  <2>1. job[p][w].ent \in Row
    BY <1>1, <1>3 DEF Phase
  <2>2. ClaimsReal(job[p][w].ent, w)
    BY <1>3 DEF Inv, CarriedReal
  <2> QED BY <2>1, <2>2, ClaimsStay DEF Inv
<1> QED BY <1>1, <1>2, <1>3 DEF Sound

SoundJobs ==
    /\ job' \in [Proc -> [Webhook -> Job]]
    /\ \A p \in Proc, w \in Webhook : Sound(job'[p][w], w)

LEMMA SoundStep ==
    ASSUME Inv, CountersOK', Grows, NEW p \in Proc, NEW w \in Webhook,
           NEW n, Become(p, w, n), Sound(n, w)
    PROVE  SoundJobs
<1>1. /\ job' \in [Proc -> [Webhook -> Job]]
      /\ job'[p][w] = n
      /\ \A q \in Proc, v \in Webhook : ~(q = p /\ v = w) => job'[q][v] = job[q][v]
  BY Became DEF Inv, Sound
<1> QED BY <1>1, SoundStays DEF SoundJobs

LEMMA IdleSound == ASSUME NEW w PROVE Sound(Idle, w)
BY IdleJob DEF Sound, Carrying

LEMMA Assembled ==
    ASSUME SoundJobs, CountersOK', CountsAreReal', PostsPaid', FailuresPaid',
           rows' \in [Webhook -> Row \cup {NoRow}], drawn \subseteq drawn',
           drawn' \subseteq Webhook,
           \A w \in Webhook : rows'[w] # NoRow => w \in drawn'
    PROVE  Inv'
<1>1. JobsOK'
  BY DEF SoundJobs, Sound, JobsOK
<1>2. RowsOK'
  BY DEF SoundJobs, Sound, RowsOK, Stored
<1>3. CarriedReal'
  BY DEF SoundJobs, Sound, CarriedReal, ClaimsReal
<1> QED BY <1>1, <1>2, <1>3 DEF Inv

LEMMA AssembledStill ==
    ASSUME Inv, SoundJobs, CountersOK', Grows, PostsPaid', FailuresPaid',
           UNCHANGED <<rows, drawn>>
    PROVE  Inv'
<1>1. CountsAreReal'
  BY CountsStay DEF Inv
<1>2. /\ rows' \in [Webhook -> Row \cup {NoRow}] /\ drawn' \subseteq Webhook
      /\ \A w \in Webhook : rows'[w] # NoRow => w \in drawn'
  BY DEF Inv, RowsOK, Stored
<1> QED BY <1>1, <1>2, Assembled

-----------------------------------------------------------------------------
\* What a step leaves of the budgets

LEMMA PostsLower ==
    ASSUME JobsOK, SoundJobs, NEW w \in Webhook,
           \A p \in Proc : Left(job'[p][w]) <= Left(job[p][w])
    PROVE  PostsLeft(w)' \subseteq PostsLeft(w)
<1> SUFFICES ASSUME NEW p \in Proc, NEW k \in 1..MaxRetries, k <= Left(job'[p][w])
             PROVE  k <= Left(job[p][w])
  BY DEF PostsLeft
<1>1. Left(job[p][w]) \in 0..MaxRetries
  BY LeftBounds DEF JobsOK
<1>2. Left(job'[p][w]) \in 0..MaxRetries
  BY LeftBounds DEF SoundJobs, Sound
<1>3. Left(job'[p][w]) <= Left(job[p][w])
  OBVIOUS
<1> QED BY <1>1, <1>2, <1>3, NumberAssumption

LEMMA PostsQuiet ==
    ASSUME Inv, SoundJobs, UNCHANGED <<accepted, triggers>>,
           \A p \in Proc, w \in Webhook : Left(job'[p][w]) <= Left(job[p][w])
    PROVE  PostsPaid'
<1> SUFFICES ASSUME NEW w \in Webhook
             PROVE  accepted[w] + Cardinality(PostsLeft(w)') <= MaxRetries * triggers
  BY DEF PostsPaid
<1>1. PostsLeft(w)' \subseteq PostsLeft(w)
  BY PostsLower DEF Inv
<1>2. /\ Cardinality(PostsLeft(w)') <= Cardinality(PostsLeft(w))
      /\ Cardinality(PostsLeft(w)') \in Nat /\ Cardinality(PostsLeft(w)) \in Nat
  BY <1>1, Finite, Smaller
<1>3. accepted[w] + Cardinality(PostsLeft(w)) <= MaxRetries * triggers
  BY DEF Inv, PostsPaid
<1>4. accepted[w] \in Nat /\ MaxRetries * triggers \in Nat
  BY NumberAssumption DEF Inv, CountersOK
<1> QED BY <1>2, <1>3, <1>4

LEMMA FailuresQuiet ==
    ASSUME Inv, UNCHANGED <<exhausted, triggers>>,
           \A p \in Proc, w \in Webhook : Tries(job'[p][w]) => Tries(job[p][w])
    PROVE  FailuresPaid'
<1> SUFFICES ASSUME NEW w \in Webhook
             PROVE  exhausted[w] + Cardinality(Trying(w)') <= triggers
  BY DEF FailuresPaid
<1>1. Trying(w)' \subseteq Trying(w)
  BY DEF Trying
<1>2. /\ Cardinality(Trying(w)') <= Cardinality(Trying(w))
      /\ Cardinality(Trying(w)') \in Nat /\ Cardinality(Trying(w)) \in Nat
  BY <1>1, Finite, Smaller
<1>3. exhausted[w] + Cardinality(Trying(w)) <= triggers
  BY DEF Inv, FailuresPaid
<1>4. exhausted[w] \in Nat /\ triggers \in Nat
  BY NumberAssumption DEF Inv, CountersOK
<1> QED BY <1>2, <1>3, <1>4

\* A trigger pays for all that its request may post and give up.
LEMMA PaidBegun ==
    ASSUME Inv, NEW p \in Proc, triggers' = triggers + 1,
           UNCHANGED <<accepted, exhausted>>,
           \A q \in Proc \ {p}, w \in Webhook : job'[q][w] = job[q][w]
    PROVE  PostsPaid' /\ FailuresPaid'
<1>1. triggers \in 0..MaxTriggers /\ MaxTriggers \in Nat /\ MaxRetries \in Nat
  BY NumberAssumption DEF Inv, CountersOK
<1>2. ASSUME NEW w \in Webhook
      PROVE  accepted[w] + Cardinality(PostsLeft(w)') <= MaxRetries * (triggers + 1)
  <2>1. PostsLeft(w)' \subseteq PostsLeft(w) \cup ({p} \X (1..MaxRetries))
    BY DEF PostsLeft
  <2>2. Cardinality(PostsLeft(w)') <= Cardinality(PostsLeft(w)) + MaxRetries
    <3>1. /\ IsFiniteSet({p} \X (1..MaxRetries))
          /\ Cardinality({p} \X (1..MaxRetries)) = MaxRetries
      BY Posts
    <3> HIDE DEF PostsLeft
    <3>2. IsFiniteSet(PostsLeft(w))
      BY Finite
    <3>3. Cardinality(PostsLeft(w)')
            <= Cardinality(PostsLeft(w)) + Cardinality({p} \X (1..MaxRetries))
      BY <2>1, <3>1, <3>2, Joined
    <3> QED BY <3>1, <3>3
  <2>3. accepted[w] + Cardinality(PostsLeft(w)) <= MaxRetries * triggers
    BY DEF Inv, PostsPaid
  <2>4. /\ MaxRetries * (triggers + 1) = MaxRetries * triggers + MaxRetries
        /\ MaxRetries * triggers \in Nat
    BY <1>1, Bounds
  <2>5. /\ Cardinality(PostsLeft(w)) \in Nat /\ Cardinality(PostsLeft(w)') \in Nat
        /\ accepted[w] \in Nat
    <3>1. PostsLeft(w)' \subseteq Proc \X (1..MaxRetries)
      BY DEF PostsLeft
    <3>2. IsFiniteSet(1..MaxRetries)
      BY <1>1, FS_Interval
    <3>3. IsFiniteSet(Proc \X (1..MaxRetries))
      BY <3>2, ProcAssumption, FS_Product
    <3>4. Cardinality(PostsLeft(w)') \in Nat
      BY <3>1, <3>3, Smaller
    <3> QED BY <3>4, Finite DEF Inv, CountersOK
  <2> QED BY <1>1, <2>2, <2>3, <2>4, <2>5
<1>3. ASSUME NEW w \in Webhook
      PROVE  exhausted[w] + Cardinality(Trying(w)') <= triggers + 1
  <2>1. Trying(w)' \subseteq Trying(w) \cup {p}
    BY DEF Trying
  <2>2. IsFiniteSet({p}) /\ Cardinality({p}) = 1
    BY FS_Singleton
  <2>3. Cardinality(Trying(w)') <= Cardinality(Trying(w)) + 1
    <3>1. Cardinality(Trying(w)') <= Cardinality(Trying(w)) + Cardinality({p})
      BY <2>1, <2>2, Finite, Joined
    <3> QED BY <3>1, <2>2
  <2>4. exhausted[w] + Cardinality(Trying(w)) <= triggers
    BY DEF Inv, FailuresPaid
  <2>5. /\ Cardinality(Trying(w)) \in Nat /\ Cardinality(Trying(w)') \in Nat
        /\ exhausted[w] \in Nat
    <3>1. Trying(w)' \subseteq Proc
      BY DEF Trying
    <3>2. Cardinality(Trying(w)') \in Nat
      BY <3>1, ProcAssumption, Smaller
    <3> QED BY <3>2, Finite DEF Inv, CountersOK
  <2> QED BY <1>1, <2>3, <2>4, <2>5
<1> QED BY <1>2, <1>3 DEF PostsPaid, FailuresPaid

-----------------------------------------------------------------------------
\* The actions

Bookkeeping == <<rows, drawn, triggers, accepted, exhausted>>

\* A step of one job that neither posts nor gives up.
LEMMA JobStep ==
    ASSUME Inv, NEW p \in Proc, NEW w \in Webhook, NEW n, Become(p, w, n),
           UNCHANGED Bookkeeping, n \in Job, Phase(n), n # Idle => w \in drawn,
           n.pc \in Carrying => ClaimsReal(n.ent, w),
           Left(n) <= Left(job[p][w]), Tries(n) => Tries(job[p][w])
    PROVE  Inv'
<1>1. UNCHANGED <<rows, drawn>> /\ UNCHANGED <<accepted, triggers>>
         /\ UNCHANGED <<exhausted, triggers>> /\ UNCHANGED <<accepted, exhausted>>
  BY DEF Bookkeeping
<1>2. CountersOK' /\ Grows
  BY <1>1, GrowsStill DEF Inv, CountersOK
<1>3. Sound(n, w)
  BY <1>1 DEF Sound, ClaimsReal
<1>4. SoundJobs
  BY <1>2, <1>3, SoundStep
<1>5. /\ job'[p][w] = n
      /\ \A q \in Proc, v \in Webhook : ~(q = p /\ v = w) => job'[q][v] = job[q][v]
  BY Became DEF Inv
<1>6. \A q \in Proc, v \in Webhook :
         /\ Left(job'[q][v]) <= Left(job[q][v])
         /\ Tries(job'[q][v]) => Tries(job[q][v])
  <2> SUFFICES ASSUME NEW q \in Proc, NEW v \in Webhook
               PROVE  /\ Left(job'[q][v]) <= Left(job[q][v])
                      /\ Tries(job'[q][v]) => Tries(job[q][v])
    OBVIOUS
  <2>1. Left(job[q][v]) \in 0..MaxRetries
    BY LeftBounds DEF Inv, JobsOK
  <2> QED BY <1>5, <2>1, NumberAssumption
<1>7. PostsPaid' /\ FailuresPaid'
  BY <1>1, <1>4, <1>6, PostsQuiet, FailuresQuiet
<1> QED BY <1>1, <1>2, <1>4, <1>7, AssembledStill

\* What holds of the job that a step begins with.
LEMMA Held ==
    ASSUME Inv, NEW p \in Proc, NEW w \in Webhook
    PROVE  /\ job[p][w] \in Job /\ Phase(job[p][w])
           /\ job[p][w] # Idle => w \in drawn
           /\ job[p][w].pc # "idle" => job[p][w] # Idle
           /\ job[p][w].pc \in Carrying =>
                 job[p][w].ent \in Row /\ ClaimsReal(job[p][w].ent, w)
           /\ Left(job[p][w]) \in 0..MaxRetries
<1>1. job[p][w] \in Job /\ Phase(job[p][w])
  BY DEF Inv, JobsOK
<1>2. Left(job[p][w]) \in 0..MaxRetries
  BY <1>1, LeftBounds
<1>3. job[p][w].pc \in Carrying =>
         job[p][w].ent \in Row /\ ClaimsReal(job[p][w].ent, w)
  BY <1>1 DEF Inv, CarriedReal, Phase
<1>4. job[p][w] # Idle => w \in drawn
  BY DEF Inv, RowsOK
<1> QED BY <1>1, <1>2, <1>3, <1>4, IdleJob

LEMMA HeldRow ==
    ASSUME Inv, NEW w \in Webhook, Stored(w)
    PROVE  rows[w] \in Row /\ w \in drawn /\ ClaimsReal(rows[w], w)
BY DEF Inv, RowsOK, CountsAreReal, ClaimsReal, Stored

LEMMA CreateStep ==
    ASSUME Inv, NEW w \in Webhook, NEW retries \in 1..MaxRetries, Create(w, retries)
    PROVE  Inv'
<1> DEFINE row == [isActive |-> TRUE, maxRetries |-> retries,
                   deliveryCount |-> 0, failureCount |-> 0]
<1>1. UNCHANGED job /\ UNCHANGED <<accepted, triggers>> /\ UNCHANGED <<exhausted, triggers>>
         /\ UNCHANGED <<accepted, exhausted>>
  BY DEF Create
<1>2. CountersOK' /\ Grows
  BY <1>1, GrowsStill DEF Inv, CountersOK
<1>3. row \in Row /\ row.deliveryCount = 0 /\ row.failureCount = 0
  BY NumberAssumption DEF Row, Count
<1> HIDE DEF row
<1>4. rows' = [rows EXCEPT ![w] = row] /\ drawn' = drawn \cup {w}
  BY DEF Create, row
<1>5. /\ rows' \in [Webhook -> Row \cup {NoRow}] /\ drawn \subseteq drawn'
      /\ drawn' \subseteq Webhook
      /\ \A v \in Webhook : rows'[v] # NoRow => v \in drawn'
  BY <1>3, <1>4 DEF Inv, RowsOK, Stored
<1>6. CountsAreReal'
  <2> SUFFICES ASSUME NEW v \in Webhook, rows'[v] # NoRow
               PROVE  /\ rows'[v].deliveryCount <= accepted[v]
                      /\ rows'[v].failureCount <= exhausted[v]
    BY <1>1 DEF CountsAreReal, Stored
  <2>1. CASE v = w
    <3>1. rows'[v] = row
      BY <1>4, <2>1 DEF Inv, RowsOK
    <3>2. accepted[v] \in Nat /\ exhausted[v] \in Nat
      BY DEF Inv, CountersOK
    <3> QED BY <1>3, <3>1, <3>2
  <2>2. CASE v # w
    <3>1. rows'[v] = rows[v]
      BY <1>4, <2>2 DEF Inv, RowsOK
    <3> QED BY <3>1, HeldRow DEF Stored, ClaimsReal
  <2> QED BY <2>1, <2>2
<1>7. SoundJobs
  BY <1>1, <1>2, SoundStays DEF SoundJobs, Inv, JobsOK
<1>8. \A q \in Proc, v \in Webhook : Left(job[q][v]) <= Left(job[q][v])
  BY Held
<1>9. PostsPaid' /\ FailuresPaid'
  BY <1>1, <1>7, <1>8, PostsQuiet, FailuresQuiet
<1> QED BY <1>2, <1>5, <1>6, <1>7, <1>9, Assembled

LEMMA ReadForUpdateStep ==
    ASSUME Inv, NEW p \in Proc, NEW w \in Webhook, NEW active \in BOOLEAN,
           NEW retries \in 1..MaxRetries, ReadForUpdate(p, w, active, retries)
    PROVE  Inv'
<1> DEFINE n == [Idle EXCEPT !.op = "update", !.pc = "save",
                   !.ent = [rows[w] EXCEPT !.isActive = active, !.maxRetries = retries]]
<1>1. rows[w] \in Row /\ w \in drawn /\ ClaimsReal(rows[w], w)
  BY HeldRow DEF ReadForUpdate
<1>2. /\ n \in Job /\ Phase(n) /\ n.op = "update" /\ n # Idle
      /\ n.ent.deliveryCount = rows[w].deliveryCount
      /\ n.ent.failureCount = rows[w].failureCount
  BY <1>1, UpdateJob, Zenon
<1>3. Become(p, w, n) /\ UNCHANGED Bookkeeping /\ job[p][w] = Idle
  BY DEF ReadForUpdate, Bookkeeping, RequestIdle
<1> HIDE DEF n
<1>4. Left(n) <= Left(job[p][w]) /\ ~Tries(n)
  BY <1>2, <1>3, IdleJob DEF Left, Tries, Delivery
<1>5. ClaimsReal(n.ent, w)
  BY <1>1, <1>2 DEF ClaimsReal
<1> QED BY <1>1, <1>2, <1>3, <1>4, <1>5, JobStep

LEMMA ReadForDeleteStep ==
    ASSUME Inv, NEW p \in Proc, NEW w \in Webhook, ReadForDelete(p, w)
    PROVE  Inv'
<1> DEFINE n == [Idle EXCEPT !.op = "delete", !.pc = "remove"]
<1>1. rows[w] \in Row /\ w \in drawn
  BY HeldRow DEF ReadForDelete
<1>2. n \in Job /\ Phase(n) /\ n.op = "delete" /\ n.pc = "remove"
  BY DeleteJob
<1>3. Become(p, w, n) /\ UNCHANGED Bookkeeping /\ job[p][w] = Idle
  BY DEF ReadForDelete, Bookkeeping, RequestIdle
<1> HIDE DEF n
<1>4. Left(n) <= Left(job[p][w]) /\ ~Tries(n) /\ n.pc \notin Carrying
  BY <1>2, <1>3, IdleJob DEF Left, Tries, Delivery, Carrying
<1> QED BY <1>1, <1>2, <1>3, <1>4, JobStep

LEMMA RefuseStep ==
    ASSUME Inv, NEW p \in Proc, NEW w \in Webhook, Refuse(p, w)
    PROVE  Inv'
<1> DEFINE j == job[p][w]
           n == [j EXCEPT !.pc = "catch", !.posts = @ + 1]
<1>1. j.pc = "post" /\ Become(p, w, n) /\ UNCHANGED Bookkeeping
  BY DEF Refuse, Bookkeeping
<1>2. j \in Job /\ Phase(j) /\ w \in drawn /\ ClaimsReal(j.ent, w)
  BY <1>1, Held DEF Carrying
<1> HIDE DEF j
<1>3. /\ n \in Job /\ Phase(n) /\ n.ent = j.ent
      /\ Left(n) <= Left(j) /\ (Tries(n) => Tries(j))
  BY <1>1, <1>2, RefusedJob
<1> HIDE DEF n
<1> QED BY <1>1, <1>2, <1>3, JobStep DEF j

LEMMA SaveLoadStep ==
    ASSUME Inv, NEW p \in Proc, NEW w \in Webhook, SaveLoad(p, w)
    PROVE  Inv'
<1> DEFINE j == job[p][w]
           n == [j EXCEPT !.pc = "write", !.loaded = rows[w]]
<1>1. j.pc = "save" /\ Become(p, w, n) /\ UNCHANGED Bookkeeping
  BY DEF SaveLoad, Bookkeeping
<1>2. /\ j \in Job /\ Phase(j) /\ w \in drawn /\ ClaimsReal(j.ent, w)
      /\ Left(j) \in 0..MaxRetries
  BY <1>1, Held DEF Carrying
<1>3. rows[w] \in Row \cup {NoRow}
  BY DEF Inv, RowsOK
<1> HIDE DEF j
<1>4. /\ n \in Job /\ Phase(n) /\ n.op = j.op /\ n.ent = j.ent
      /\ Left(n) = Left(j) /\ (Tries(n) <=> Tries(j))
  BY <1>1, <1>2, <1>3, LoadedJob, Zenon
<1> HIDE DEF n
<1>5. Left(n) <= Left(j)
  BY <1>2, <1>4
<1> QED BY <1>1, <1>2, <1>4, <1>5, JobStep DEF j

\* A job that ends.
LEMMA EndedStep ==
    ASSUME Inv, NEW p \in Proc, NEW w \in Webhook, Finish(p, w), UNCHANGED Bookkeeping
    PROVE  Inv'
<1>1. Become(p, w, Idle) /\ Left(Idle) <= Left(job[p][w])
  BY Held, IdleJob, NumberAssumption DEF Finish
<1>2. Idle.pc \notin Carrying
  BY IdleJob DEF Carrying
<1> QED BY <1>1, <1>2, IdleJob, JobStep

LEMMA SaveThrowsStep ==
    ASSUME Inv, NEW p \in Proc, NEW w \in Webhook, SaveThrows(p, w)
    PROVE  Inv'
<1> DEFINE j == job[p][w]
           n == [j EXCEPT !.pc = "catch", !.loaded = NoRow]
<1>1. j.pc \in {"save", "write"} /\ UNCHANGED Bookkeeping
  BY DEF SaveThrows, Bookkeeping
<1>2. (Tries(j) /\ Become(p, w, n)) \/ Finish(p, w)
  BY DEF SaveThrows, Tries
<1>3. /\ j \in Job /\ Phase(j) /\ w \in drawn /\ ClaimsReal(j.ent, w)
      /\ Left(j) \in 0..MaxRetries
  BY <1>1, Held DEF Carrying
<1>4. CASE Tries(j) /\ Become(p, w, n)
  <2> HIDE DEF j
  <2>1. n \in Job /\ Phase(n) /\ n.ent = j.ent /\ Left(n) = Left(j)
    BY <1>1, <1>3, <1>4, ThrownJob, Zenon
  <2> HIDE DEF n
  <2>2. Left(n) <= Left(j)
    BY <1>3, <2>1
  <2> QED BY <1>1, <1>3, <1>4, <2>1, <2>2, JobStep DEF j
<1>5. CASE Finish(p, w)
  BY <1>1, <1>5, EndedStep
<1> QED BY <1>2, <1>4, <1>5

\* The receiver has accepted a post that was paid for.
LEMMA AcceptStep ==
    ASSUME Inv, NEW p \in Proc, NEW w \in Webhook, Accept(p, w)
    PROVE  Inv'
<1> DEFINE j == job[p][w]
           n == [j EXCEPT !.pc = "save", !.posts = @ + 1, !.ent.deliveryCount = @ + 1]
<1>1. /\ j.pc = "post" /\ Become(p, w, n) /\ accepted' = [accepted EXCEPT ![w] = @ + 1]
      /\ UNCHANGED <<rows, drawn>> /\ UNCHANGED <<exhausted, triggers>>
  BY DEF Accept
<1>2. /\ j \in Job /\ Phase(j) /\ w \in drawn
      /\ j.ent \in Row /\ ClaimsReal(j.ent, w)
      /\ Left(j) \in 0..MaxRetries /\ j.op \in Delivery /\ Left(j) >= 1
  <2>1. /\ j \in Job /\ Phase(j) /\ w \in drawn
        /\ j.ent \in Row /\ ClaimsReal(j.ent, w) /\ Left(j) \in 0..MaxRetries
    BY <1>1, Held DEF Carrying
  <2> HIDE DEF j
  <2>2. j.op \in Delivery /\ Posted(j) /\ ~GivenUp(j)
    BY <1>1, <2>1 DEF Phase, Posted
  <2>3. Left(j) = j.ent.maxRetries - j.posts /\ j.ent.maxRetries \in 1..MaxRetries
           /\ j.posts \in Nat /\ j.attempt \in Nat
    BY <2>1, <2>2, LeftBounds
  <2>4. j.posts # j.ent.maxRetries
    BY <1>1, <2>2 DEF Posted, GivenUp
  <2> QED BY <2>1, <2>2, <2>3, <2>4
<1>3. /\ accepted \in [Webhook -> Nat] /\ exhausted \in [Webhook -> Nat]
      /\ triggers \in 0..MaxTriggers /\ accepted[w] \in Nat
  BY DEF Inv, CountersOK
<1>4. accepted'[w] = accepted[w] + 1
         /\ \A v \in Webhook \ {w} : accepted'[v] = accepted[v]
  BY <1>1, <1>3
<1>5. CountersOK' /\ Grows
  BY <1>1, <1>3, <1>4 DEF CountersOK, Grows
<1>6. accepted[w] + Cardinality(PostsLeft(w)) <= MaxRetries * triggers
  BY DEF Inv, PostsPaid
<1>7. PostsLeft(w) # {}
  <2>1. <<p, 1>> \in Proc \X (1..MaxRetries)
    BY NumberAssumption
  <2>2. <<p, 1>> \in PostsLeft(w)
    BY <1>2, <2>1 DEF PostsLeft
  <2> QED BY <2>2
<1>8. Cardinality(PostsLeft(w)) \in Nat \ {0}
  BY <1>7, Finite, FS_EmptySet
<1>9. /\ MaxRetries * triggers \in Nat
      /\ MaxRetries * triggers <= MaxTriggers * MaxRetries
  BY <1>3, Bounds
<1>10. accepted[w] + 1 \in Count
  BY <1>3, <1>6, <1>8, <1>9, NumberAssumption DEF Count
<1>11. j.ent.deliveryCount + 1 \in Count
  <2>1. j.ent.deliveryCount <= accepted[w] /\ j.ent.deliveryCount \in Nat
    BY <1>2, NumberAssumption DEF ClaimsReal, Row, Count
  <2> QED BY <1>3, <1>10, <2>1, NumberAssumption DEF Count
<1>12. /\ n \in Job /\ Phase(n) /\ n # Idle /\ n.op = j.op
       /\ Left(n) = Left(j) - 1 /\ (Tries(n) <=> Tries(j)) /\ Left(j) \in 1..MaxRetries
       /\ n.ent.deliveryCount = j.ent.deliveryCount + 1
       /\ n.ent.failureCount = j.ent.failureCount
       /\ n.ent.isActive = j.ent.isActive
  <2> HIDE DEF j
  <2> QED BY <1>1, <1>2, <1>11, AcceptedJob, Zenon
<1> HIDE DEF n
<1>13. Sound(n, w)
  <2>1. j.ent.deliveryCount <= accepted[w] /\ j.ent.failureCount <= exhausted[w]
           /\ j.ent.deliveryCount \in Nat
    BY <1>2, NumberAssumption DEF ClaimsReal, Row, Count
  <2>2. n.ent.deliveryCount <= accepted'[w] /\ n.ent.failureCount <= exhausted'[w]
    BY <1>1, <1>3, <1>4, <1>12, <2>1
  <2> QED BY <1>2, <1>12, <2>2 DEF Sound
<1>14. SoundJobs
  BY <1>1, <1>5, <1>13, SoundStep
<1>15. /\ job'[p][w] = n
       /\ \A q \in Proc, v \in Webhook : ~(q = p /\ v = w) => job'[q][v] = job[q][v]
  BY <1>1, <1>12, Became DEF Inv
<1>16. FailuresPaid'
  <2>1. \A q \in Proc, v \in Webhook : Tries(job'[q][v]) => Tries(job[q][v])
    BY <1>12, <1>15
  <2> QED BY <1>1, <2>1, FailuresQuiet
<1>17. \A q \in Proc, v \in Webhook : Left(job'[q][v]) <= Left(job[q][v])
  <2> SUFFICES ASSUME NEW q \in Proc, NEW v \in Webhook
               PROVE  Left(job'[q][v]) <= Left(job[q][v])
    OBVIOUS
  <2>1. Left(job[q][v]) \in 0..MaxRetries
    BY Held
  <2> QED BY <1>12, <1>15, <2>1, NumberAssumption
<1>18. PostsPaid'
  <2> SUFFICES ASSUME NEW v \in Webhook
               PROVE  accepted'[v] + Cardinality(PostsLeft(v)') <= MaxRetries * triggers
    BY <1>1 DEF PostsPaid
  <2>1. PostsLeft(v)' \subseteq PostsLeft(v)
    BY <1>14, <1>17, PostsLower DEF Inv
  <2>2. /\ Cardinality(PostsLeft(v)') <= Cardinality(PostsLeft(v))
        /\ Cardinality(PostsLeft(v)') \in Nat /\ Cardinality(PostsLeft(v)) \in Nat
    BY <2>1, Finite, Smaller
  <2>3. accepted[v] + Cardinality(PostsLeft(v)) <= MaxRetries * triggers
    BY DEF Inv, PostsPaid
  <2>4. accepted[v] \in Nat
    BY <1>3
  <2>5. CASE v # w
    BY <1>4, <1>9, <2>2, <2>3, <2>4, <2>5
  <2>6. CASE v = w
    <3> DEFINE post == <<p, Left(j)>>
    <3>1. post \in PostsLeft(w)
      BY <1>2, <1>12 DEF PostsLeft
    <3>2. post \notin PostsLeft(w)'
      BY <1>2, <1>12, <1>15 DEF PostsLeft
    <3>3. Cardinality(PostsLeft(w)') + 1 <= Cardinality(PostsLeft(w))
      <4> HIDE DEF post
      <4> QED BY <2>1, <2>6, <3>1, <3>2, Finite, Smaller
    <3> QED BY <1>4, <1>9, <2>2, <2>3, <2>4, <2>6, <3>3
  <2> QED BY <2>5, <2>6
<1> QED BY <1>1, <1>5, <1>14, <1>16, <1>18, AssembledStill

\* A delivery goes round its loop again, or gives up what it was paid for.
LEMMA CatchStep ==
    ASSUME Inv, NEW p \in Proc, NEW w \in Webhook, Catch(p, w)
    PROVE  Inv'
<1> DEFINE j == job[p][w]
           next == [j EXCEPT !.attempt = @ + 1]
           again == [next EXCEPT !.pc = "post"]
           last == [next EXCEPT !.pc = "save", !.ent.failureCount = @ + 1]
<1>1. j.pc = "catch" /\ UNCHANGED <<rows, drawn>> /\ UNCHANGED <<accepted, triggers>>
  BY DEF Catch
<1>2. \/ /\ next.attempt < next.ent.maxRetries
         /\ Become(p, w, again) /\ UNCHANGED exhausted
      \/ /\ ~(next.attempt < next.ent.maxRetries)
         /\ Become(p, w, last) /\ exhausted' = [exhausted EXCEPT ![w] = @ + 1]
  BY DEF Catch
<1>3. /\ j \in Job /\ Phase(j) /\ w \in drawn
      /\ j.ent \in Row /\ ClaimsReal(j.ent, w) /\ Left(j) \in 0..MaxRetries
  BY <1>1, Held DEF Carrying
<1>4. /\ Tries(j)
      /\ next.attempt < next.ent.maxRetries =>
            /\ again \in Job /\ Phase(again) /\ again # Idle
            /\ again.op = j.op /\ again.ent = j.ent /\ Left(again) <= Left(j)
      /\ ~(next.attempt < next.ent.maxRetries) /\ j.ent.failureCount + 1 \in Count =>
            /\ last \in Job /\ Phase(last) /\ last # Idle
            /\ last.op = j.op /\ Left(last) <= Left(j) /\ ~Tries(last)
            /\ last.ent.deliveryCount = j.ent.deliveryCount
            /\ last.ent.failureCount = j.ent.failureCount + 1
            /\ last.ent.isActive = j.ent.isActive
  <2> HIDE DEF j
  <2> QED BY <1>1, <1>3, CaughtJob, Zenon
<1> HIDE DEF again, last, next
<1>5. CASE /\ next.attempt < next.ent.maxRetries
           /\ Become(p, w, again) /\ UNCHANGED exhausted
  <2>1. UNCHANGED Bookkeeping
    BY <1>1, <1>5 DEF Bookkeeping
  <2> QED BY <1>3, <1>4, <1>5, <2>1, JobStep
<1>6. CASE /\ ~(next.attempt < next.ent.maxRetries)
           /\ Become(p, w, last) /\ exhausted' = [exhausted EXCEPT ![w] = @ + 1]
  <2>1. /\ accepted \in [Webhook -> Nat] /\ exhausted \in [Webhook -> Nat]
        /\ triggers \in 0..MaxTriggers /\ exhausted[w] \in Nat
    BY DEF Inv, CountersOK
  <2>2. exhausted'[w] = exhausted[w] + 1
           /\ \A v \in Webhook \ {w} : exhausted'[v] = exhausted[v]
    BY <1>6, <2>1
  <2>3. CountersOK' /\ Grows
    BY <1>1, <1>6, <2>1, <2>2 DEF CountersOK, Grows
  <2>4. exhausted[w] + Cardinality(Trying(w)) <= triggers
    BY DEF Inv, FailuresPaid
  <2>5. p \in Trying(w)
    BY <1>4 DEF Trying
  <2>6. Cardinality(Trying(w)) \in Nat \ {0}
    BY <2>5, Finite, FS_EmptySet
  <2>7. triggers <= MaxTriggers * MaxRetries
    BY <2>1, Bounds
  <2>8. exhausted[w] + 1 \in Count
    BY <2>1, <2>4, <2>6, <2>7, NumberAssumption DEF Count
  <2>9. /\ j.ent.failureCount <= exhausted[w] /\ j.ent.failureCount \in Nat
        /\ j.ent.deliveryCount <= accepted[w]
    BY <1>3, NumberAssumption DEF ClaimsReal, Row, Count
  <2>10. j.ent.failureCount + 1 \in Count
    BY <2>1, <2>8, <2>9, NumberAssumption DEF Count
  <2>11. Sound(last, w)
    <3>1. /\ last \in Job /\ Phase(last)
          /\ last.ent.deliveryCount = j.ent.deliveryCount
          /\ last.ent.failureCount = j.ent.failureCount + 1
      BY <1>4, <1>6, <2>10
    <3>2. last.ent.deliveryCount <= accepted'[w] /\ last.ent.failureCount <= exhausted'[w]
      BY <1>1, <2>1, <2>2, <2>9, <3>1
    <3> QED BY <1>3, <3>1, <3>2 DEF Sound
  <2>12. SoundJobs
    BY <1>6, <2>3, <2>11, SoundStep
  <2>13. /\ job'[p][w] = last
         /\ \A q \in Proc, v \in Webhook : ~(q = p /\ v = w) => job'[q][v] = job[q][v]
    BY <1>4, <1>6, <2>10, Became DEF Inv
  <2>14. PostsPaid'
    <3>1. \A q \in Proc, v \in Webhook : Left(job'[q][v]) <= Left(job[q][v])
      <4> SUFFICES ASSUME NEW q \in Proc, NEW v \in Webhook
                   PROVE  Left(job'[q][v]) <= Left(job[q][v])
        OBVIOUS
      <4>1. Left(job[q][v]) \in 0..MaxRetries
        BY Held
      <4> QED BY <1>4, <1>6, <2>10, <2>13, <4>1, NumberAssumption
    <3> QED BY <1>1, <2>12, <3>1, PostsQuiet
  <2>15. FailuresPaid'
    <3> SUFFICES ASSUME NEW v \in Webhook
                 PROVE  exhausted'[v] + Cardinality(Trying(v)') <= triggers
      BY <1>1 DEF FailuresPaid
    <3>1. Trying(v)' \subseteq Trying(v) /\ (v = w => p \notin Trying(v)')
      BY <1>4, <1>6, <2>10, <2>13 DEF Trying
    <3>2. /\ Cardinality(Trying(v)') <= Cardinality(Trying(v))
          /\ Cardinality(Trying(v)') \in Nat /\ Cardinality(Trying(v)) \in Nat
      BY <3>1, Finite, Smaller
    <3>3. exhausted[v] + Cardinality(Trying(v)) <= triggers
      BY DEF Inv, FailuresPaid
    <3>4. exhausted[v] \in Nat /\ triggers \in Nat
      BY <2>1, NumberAssumption
    <3>5. CASE v # w
      BY <2>2, <3>2, <3>3, <3>4, <3>5
    <3>6. CASE v = w
      <4>1. Cardinality(Trying(w)') + 1 <= Cardinality(Trying(w))
        BY <2>5, <3>1, <3>6, Finite, Smaller
      <4> QED BY <2>2, <3>2, <3>3, <3>4, <3>6, <4>1
    <3> QED BY <3>5, <3>6
  <2> QED BY <1>1, <2>3, <2>12, <2>14, <2>15, AssembledStill
<1> QED BY <1>2, <1>5, <1>6

\* A step that ends a job and leaves its webhook with another row, or none.
LEMMA EndedWithRow ==
    ASSUME Inv, NEW p \in Proc, NEW w \in Webhook, NEW row \in Row \cup {NoRow},
           Finish(p, w), rows' = [rows EXCEPT ![w] = row], w \in drawn,
           row # NoRow => ClaimsReal(row, w),
           UNCHANGED <<drawn, triggers, accepted, exhausted>>
    PROVE  Inv'
<1>1. UNCHANGED <<accepted, exhausted>> /\ UNCHANGED <<accepted, triggers>>
         /\ UNCHANGED <<exhausted, triggers>> /\ drawn' = drawn
  OBVIOUS
<1>2. CountersOK' /\ Grows
  BY <1>1, GrowsStill DEF Inv, CountersOK
<1>3. Become(p, w, Idle)
  BY DEF Finish
<1>4. SoundJobs
  BY <1>2, <1>3, IdleSound, SoundStep
<1>5. /\ job'[p][w] = Idle
      /\ \A q \in Proc, v \in Webhook : ~(q = p /\ v = w) => job'[q][v] = job[q][v]
  BY <1>3, IdleJob, Became DEF Inv
<1>6. \A q \in Proc, v \in Webhook :
         /\ Left(job'[q][v]) <= Left(job[q][v])
         /\ Tries(job'[q][v]) => Tries(job[q][v])
  <2> SUFFICES ASSUME NEW q \in Proc, NEW v \in Webhook
               PROVE  /\ Left(job'[q][v]) <= Left(job[q][v])
                      /\ Tries(job'[q][v]) => Tries(job[q][v])
    OBVIOUS
  <2>1. Left(job[q][v]) \in 0..MaxRetries
    BY Held
  <2> QED BY <1>5, <2>1, IdleJob, NumberAssumption
<1>7. PostsPaid' /\ FailuresPaid'
  BY <1>1, <1>4, <1>6, PostsQuiet, FailuresQuiet
<1>8. /\ rows' \in [Webhook -> Row \cup {NoRow}]
      /\ rows'[w] = row /\ \A v \in Webhook \ {w} : rows'[v] = rows[v]
  BY DEF Inv, RowsOK
<1>9. \A v \in Webhook : rows'[v] # NoRow => v \in drawn'
  BY <1>1, <1>8 DEF Inv, RowsOK, Stored
<1>10. CountsAreReal'
  <2> SUFFICES ASSUME NEW v \in Webhook, rows'[v] # NoRow
               PROVE  /\ rows'[v].deliveryCount <= accepted[v]
                      /\ rows'[v].failureCount <= exhausted[v]
    BY <1>1 DEF CountsAreReal, Stored
  <2>1. CASE v = w
    BY <1>8, <2>1 DEF ClaimsReal
  <2>2. CASE v # w
    BY <1>8, <2>2, HeldRow DEF Stored, ClaimsReal
  <2> QED BY <2>1, <2>2
<1>11. drawn \subseteq drawn' /\ drawn' \subseteq Webhook
  BY <1>1 DEF Inv, RowsOK
<1> QED BY <1>2, <1>4, <1>7, <1>8, <1>9, <1>10, <1>11, Assembled

LEMMA RemoveStep ==
    ASSUME Inv, NEW p \in Proc, NEW w \in Webhook, Remove(p, w)
    PROVE  Inv'
<1>1. w \in drawn
  BY Held DEF Remove
<1> QED BY <1>1, EndedWithRow DEF Remove

\* The row after a save.
Saved(j, w) ==
    IF j.loaded = NoRow THEN j.ent
    ELSE IF Stored(w) THEN Merged(j.ent, j.loaded, rows[w])
    ELSE NoRow

LEMMA SaveWriteStep ==
    ASSUME Inv, NEW p \in Proc, NEW w \in Webhook, SaveWrite(p, w)
    PROVE  Inv'
<1> DEFINE j == job[p][w]
<1>1. /\ j.pc = "write" /\ Finish(p, w) /\ rows' = [rows EXCEPT ![w] = Saved(j, w)]
      /\ UNCHANGED <<drawn, triggers, accepted, exhausted>>
  BY DEF SaveWrite, Saved
<1>2. j \in Job /\ w \in drawn /\ j.ent \in Row /\ ClaimsReal(j.ent, w)
  BY <1>1, Held DEF Carrying
<1>3. j.loaded \in Row \cup {NoRow}
  BY <1>2 DEF Job
<1> HIDE DEF j
<1>4. CASE j.loaded = NoRow
  <2>1. Saved(j, w) = j.ent
    BY <1>4 DEF Saved
  <2> QED BY <1>1, <1>2, <2>1, EndedWithRow
<1>5. CASE j.loaded # NoRow /\ Stored(w)
  <2> DEFINE m == Merged(j.ent, j.loaded, rows[w])
  <2>1. rows[w] \in Row /\ ClaimsReal(rows[w], w) /\ j.loaded \in Row
    BY <1>3, <1>5, HeldRow
  <2>2. /\ m \in Row
        /\ m.deliveryCount \in {j.ent.deliveryCount, rows[w].deliveryCount}
        /\ m.failureCount \in {j.ent.failureCount, rows[w].failureCount}
    BY <1>2, <2>1, MergedRow
  <2>3. Saved(j, w) = m
    BY <1>5 DEF Saved
  <2> HIDE DEF m
  <2>4. ClaimsReal(m, w)
    BY <1>2, <2>1, <2>2 DEF ClaimsReal
  <2> QED BY <1>1, <1>2, <2>2, <2>3, <2>4, EndedWithRow
<1>6. CASE j.loaded # NoRow /\ ~Stored(w)
  <2>1. Saved(j, w) = NoRow
    BY <1>6 DEF Saved
  <2> QED BY <1>1, <1>2, <2>1, EndedWithRow
<1> QED BY <1>4, <1>5, <1>6

LEMMA TestDeliveryStep ==
    ASSUME Inv, NEW p \in Proc, NEW w \in Webhook, TestDelivery(p, w)
    PROVE  Inv'
<1> DEFINE n == StartDelivery("test", w)
<1>1. /\ Become(p, w, n) /\ triggers' = triggers + 1 /\ triggers < MaxTriggers
      /\ UNCHANGED <<accepted, exhausted>> /\ UNCHANGED <<rows, drawn>>
  BY DEF TestDelivery
<1>2. rows[w] \in Row /\ w \in drawn /\ ClaimsReal(rows[w], w)
  BY HeldRow DEF TestDelivery
<1>3. n \in Job /\ Phase(n) /\ n.ent = rows[w]
  BY <1>2, StartedJob DEF Delivery
<1> HIDE DEF n
<1>4. CountersOK' /\ Grows
  BY <1>1, GrowsStill, NumberAssumption DEF Inv, CountersOK
<1>5. Sound(n, w)
  BY <1>1, <1>2, <1>3 DEF Sound, ClaimsReal
<1>6. SoundJobs
  BY <1>1, <1>4, <1>5, SoundStep
<1>7. \A q \in Proc \ {p}, v \in Webhook : job'[q][v] = job[q][v]
  BY <1>1, <1>3, Became DEF Inv
<1>8. PostsPaid' /\ FailuresPaid'
  BY <1>1, <1>7, PaidBegun
<1> QED BY <1>1, <1>4, <1>6, <1>8, AssembledStill

\* A step that gives one request a new row of jobs.
LEMMA RequestStep ==
    ASSUME Inv, CountersOK', Grows, NEW p \in Proc, NEW jobs,
           job' = [job EXCEPT ![p] = [w \in Webhook |-> jobs[w]]],
           \A w \in Webhook : Sound(jobs[w], w)
    PROVE  /\ SoundJobs
           /\ \A w \in Webhook : job'[p][w] = jobs[w]
           /\ \A q \in Proc \ {p}, w \in Webhook : job'[q][w] = job[q][w]
<1>1. /\ job' \in [Proc -> [Webhook -> Job]]
      /\ \A w \in Webhook : job'[p][w] = jobs[w]
      /\ \A q \in Proc \ {p}, w \in Webhook : job'[q][w] = job[q][w]
  BY DEF Inv, JobsOK, Sound
<1> QED BY <1>1, SoundStays DEF SoundJobs

LEMMA TriggerStep ==
    ASSUME Inv, NEW p \in Proc, NEW matching \in SUBSET Webhook, Trigger(p, matching)
    PROVE  Inv'
<1> DEFINE jobs == [w \in Webhook |->
                       IF w \in matching THEN StartDelivery("trigger", w) ELSE Idle]
<1>1. /\ triggers' = triggers + 1 /\ triggers < MaxTriggers
      /\ UNCHANGED <<accepted, exhausted>> /\ UNCHANGED <<rows, drawn>>
      /\ job' = [job EXCEPT ![p] = [w \in Webhook |-> jobs[w]]]
  BY DEF Trigger
<1>2. CountersOK' /\ Grows
  BY <1>1, GrowsStill, NumberAssumption DEF Inv, CountersOK
<1>3. \A w \in Webhook : Sound(jobs[w], w)
  <2> SUFFICES ASSUME NEW w \in Webhook PROVE Sound(jobs[w], w)
    OBVIOUS
  <2>1. CASE w \in matching
    <3> DEFINE n == StartDelivery("trigger", w)
    <3>1. rows[w] \in Row /\ w \in drawn /\ ClaimsReal(rows[w], w)
      BY <2>1, HeldRow DEF Trigger
    <3>2. n \in Job /\ Phase(n) /\ n.ent = rows[w] /\ jobs[w] = n
      BY <2>1, <3>1, StartedJob DEF Delivery
    <3> HIDE DEF n, jobs
    <3> QED BY <1>1, <3>1, <3>2 DEF Sound, ClaimsReal
  <2>2. CASE w \notin matching
    BY <2>2, IdleSound
  <2> QED BY <2>1, <2>2
<1> HIDE DEF jobs
<1>4. SoundJobs /\ \A q \in Proc \ {p}, w \in Webhook : job'[q][w] = job[q][w]
  BY <1>1, <1>2, <1>3, RequestStep
<1>5. PostsPaid' /\ FailuresPaid'
  BY <1>1, <1>4, PaidBegun
<1> QED BY <1>1, <1>2, <1>4, <1>5, AssembledStill

LEMMA AbortStep ==
    ASSUME Inv, NEW p \in Proc, Abort(p)
    PROVE  Inv'
<1> DEFINE jobs == [w \in Webhook |-> Idle]
<1>1. /\ UNCHANGED <<accepted, exhausted>> /\ UNCHANGED <<accepted, triggers>>
      /\ UNCHANGED <<exhausted, triggers>> /\ UNCHANGED <<rows, drawn>>
      /\ job' = [job EXCEPT ![p] = [w \in Webhook |-> jobs[w]]]
      /\ \A w \in Webhook : jobs[w] = Idle
  BY DEF Abort
<1>2. CountersOK' /\ Grows
  BY <1>1, GrowsStill DEF Inv, CountersOK
<1>3. \A w \in Webhook : Sound(jobs[w], w)
  BY IdleSound
<1> HIDE DEF jobs
<1>4. /\ SoundJobs
      /\ \A w \in Webhook : job'[p][w] = jobs[w]
      /\ \A q \in Proc \ {p}, w \in Webhook : job'[q][w] = job[q][w]
  BY <1>1, <1>2, <1>3, RequestStep
<1>5. \A q \in Proc, v \in Webhook :
         /\ Left(job'[q][v]) <= Left(job[q][v])
         /\ Tries(job'[q][v]) => Tries(job[q][v])
  <2> SUFFICES ASSUME NEW q \in Proc, NEW v \in Webhook
               PROVE  /\ Left(job'[q][v]) <= Left(job[q][v])
                      /\ Tries(job'[q][v]) => Tries(job[q][v])
    OBVIOUS
  <2>1. Left(job[q][v]) \in 0..MaxRetries
    BY Held
  <2> QED BY <1>1, <1>4, <2>1, IdleJob, NumberAssumption
<1>6. PostsPaid' /\ FailuresPaid'
  BY <1>1, <1>4, <1>5, PostsQuiet, FailuresQuiet
<1> QED BY <1>1, <1>2, <1>4, <1>6, AssembledStill

LEMMA StutterStep ==
    ASSUME Inv, UNCHANGED vars
    PROVE  Inv'
BY DEF vars, Inv, JobsOK, RowsOK, CountersOK, CarriedReal, CountsAreReal, PostsPaid,
       FailuresPaid, PostsLeft, Trying, Stored, ClaimsReal

-----------------------------------------------------------------------------
\* The invariant holds

LEMMA InvInit == Init => Inv
<1> SUFFICES ASSUME Init PROVE Inv
  OBVIOUS
<1>1. JobsOK
  BY IdleJob DEF Init, JobsOK
<1>2. RowsOK
  BY DEF Init, RowsOK, Stored
<1>3. CountersOK
  BY NumberAssumption DEF Init, CountersOK
<1>4. CarriedReal
  BY IdleJob DEF Init, CarriedReal, Carrying
<1>5. CountsAreReal
  BY DEF Init, CountsAreReal, Stored
<1>6. ASSUME NEW w \in Webhook
      PROVE  Cardinality(PostsLeft(w)) = 0 /\ Cardinality(Trying(w)) = 0
  <2>1. PostsLeft(w) = {}
    BY IdleJob DEF Init, PostsLeft
  <2>2. Trying(w) = {}
    BY IdleJob DEF Init, Trying
  <2> QED BY <2>1, <2>2, FS_EmptySet
<1>7. PostsPaid /\ FailuresPaid
  BY <1>6, NumberAssumption DEF Init, PostsPaid, FailuresPaid
<1> QED BY <1>1, <1>2, <1>3, <1>4, <1>5, <1>7 DEF Inv

LEMMA InvStep == Inv /\ [Next]_vars => Inv'
<1> SUFFICES ASSUME Inv, [Next]_vars PROVE Inv'
  OBVIOUS
<1>1. CASE UNCHANGED vars
  BY <1>1, StutterStep
<1>2. CASE \E w \in Webhook, retries \in 1..MaxRetries : Create(w, retries)
  BY <1>2, CreateStep
<1>3. ASSUME NEW p \in Proc, Handler(p) PROVE Inv'
  <2>1. CASE \E w \in Webhook, active \in BOOLEAN, retries \in 1..MaxRetries :
                ReadForUpdate(p, w, active, retries)
    BY <2>1, ReadForUpdateStep
  <2>2. CASE \E w \in Webhook : ReadForDelete(p, w)
    BY <2>2, ReadForDeleteStep
  <2>3. CASE \E matching \in SUBSET Webhook : Trigger(p, matching)
    BY <2>3, TriggerStep
  <2>4. CASE \E w \in Webhook : TestDelivery(p, w)
    BY <2>4, TestDeliveryStep
  <2>5. CASE \E w \in Webhook : Accept(p, w) \/ Refuse(p, w) \/ Continue(p, w)
    BY <2>5, AcceptStep, RefuseStep, CatchStep, SaveLoadStep, SaveWriteStep,
       SaveThrowsStep, RemoveStep DEF Continue, Timeout
  <2>6. CASE Abort(p)
    BY <2>6, AbortStep
  <2> QED BY <1>3, <2>1, <2>2, <2>3, <2>4, <2>5, <2>6 DEF Handler
<1> QED BY <1>1, <1>2, <1>3 DEF Next

\* The invariant behind the theorems below: what the deliveries have done, and may
\* still do, is paid for by the triggers that started them.
THEOREM InvHolds == Spec => []Inv
BY InvInit, InvStep, PTL DEF Spec

\* Whatever the receivers and the database do, the state has the types of TypeOK;
\* the counters fit in Count because each is paid for by a trigger.
THEOREM TypesHold == Spec => []TypeOK
<1>1. Inv => TypeOK
  BY Counted DEF Inv, JobsOK, RowsOK, CountersOK, TypeOK, Phase, Carrying
<1> QED BY <1>1, InvHolds, PTL

\* No delivery posts more often than maxRetries, also when it was accepted and
\* the save after it failed.
THEOREM PostsAreBounded == Spec => []PostsBounded
<1>1. Inv => PostsBounded
  <2> SUFFICES ASSUME Inv, NEW p \in Proc, NEW w \in Webhook,
                      job[p][w].op \in Delivery
               PROVE  job[p][w].posts <= job[p][w].ent.maxRetries
    BY DEF PostsBounded
  <2>1. job[p][w] \in Job /\ Phase(job[p][w]) /\ Left(job[p][w]) \in 0..MaxRetries
    BY Held
  <2>2. /\ Left(job[p][w]) = job[p][w].ent.maxRetries - job[p][w].posts
        /\ job[p][w].ent.maxRetries \in 1..MaxRetries /\ job[p][w].posts \in Nat
    BY <2>1, LeftBounds
  <2> QED BY <2>1, <2>2, NumberAssumption
<1> QED BY <1>1, InvHolds, PTL

\* No row ever claims a delivery or a failure that did not happen, however stale
\* the entities are that the requests save.
THEOREM NothingCountedTwice == Spec => []CountsAreReal
<1>1. Inv => CountsAreReal
  BY DEF Inv
<1> QED BY <1>1, InvHolds, PTL

-----------------------------------------------------------------------------
\* Deactivated webhooks

\* Requests that were silent about a webhook stay so, and no trigger begins.
Hush(w) ==
    /\ Silenced(w)'
    /\ \A p \in Proc : job[p][w] = Idle => job'[p][w].op # "trigger"

Harmless(n) == n = Idle \/ n.op = "delete" \/ ~n.ent.isActive

LEMMA HushStep ==
    ASSUME NEW w \in Webhook, Silenced(w), rows'[w] # NoRow, ~rows'[w].isActive,
           \A p \in Proc : job'[p][w] # job[p][w] =>
              /\ Harmless(job'[p][w])
              /\ job[p][w] # Idle \/ job'[p][w].op # "trigger"
    PROVE  Hush(w)
<1>1. \A p \in Proc : job'[p][w] # Idle /\ job'[p][w].op # "delete"
                           => ~job'[p][w].ent.isActive
  BY DEF Silenced, Harmless
<1>2. \A p \in Proc : job[p][w] = Idle => job'[p][w].op # "trigger"
  BY IdleJob
<1>3. Silenced(w)'
  BY <1>1 DEF Silenced, Stored
<1> QED BY <1>2, <1>3 DEF Hush

\* A step of one job, of this webhook or of another one.
LEMMA HushJob ==
    ASSUME Inv, NEW w \in Webhook, Silenced(w), UNCHANGED rows,
           NEW p \in Proc, NEW v \in Webhook, NEW n \in Job, Become(p, v, n),
           v = w => Harmless(n) /\ (job[p][w] # Idle \/ n.op # "trigger")
    PROVE  Hush(w)
<1>1. /\ job'[p][v] = n
      /\ \A q \in Proc, u \in Webhook : ~(q = p /\ u = v) => job'[q][u] = job[q][u]
  BY Became DEF Inv
<1>2. rows'[w] # NoRow /\ ~rows'[w].isActive
  BY DEF Silenced, Stored
<1>3. ASSUME NEW q \in Proc, job'[q][w] # job[q][w]
      PROVE  /\ Harmless(job'[q][w])
             /\ job[q][w] # Idle \/ job'[q][w].op # "trigger"
  <2>1. q = p /\ w = v
    BY <1>1, <1>3
  <2> QED BY <1>1, <2>1
<1> QED BY <1>2, <1>3, HushStep

\* The jobs that work on a silenced webhook carry no active entity.
LEMMA SilentJob ==
    ASSUME Inv, NEW w \in Webhook, Silenced(w), NEW p \in Proc,
           job[p][w].pc \in Carrying
    PROVE  ~job[p][w].ent.isActive /\ job[p][w] # Idle
<1>1. job[p][w] # Idle
  BY IdleJob DEF Carrying
<1>2. job[p][w].op # "delete"
  BY Held DEF Phase, Carrying
<1> QED BY <1>1, <1>2 DEF Silenced

\* What a step may do to a silenced webhook.
Silent(w) ==
    /\ \/ Silenced(w)'
       \/ ~Stored(w)'
       \/ \E p \in Proc : job[p][w] = Idle /\ job'[p][w].op = "update"
    /\ \A p \in Proc : job[p][w] = Idle => job'[p][w].op # "trigger"

LEMMA HushIsSilent == ASSUME NEW w, Hush(w) PROVE Silent(w)
BY DEF Hush, Silent

LEMMA SilentReads ==
    ASSUME Inv, NEW w \in Webhook, Silenced(w), NEW p \in Proc, NEW v \in Webhook,
           \/ \E active \in BOOLEAN, retries \in 1..MaxRetries :
                 ReadForUpdate(p, v, active, retries)
           \/ ReadForDelete(p, v)
           \/ TestDelivery(p, v)
    PROVE  Silent(w)
<1>1. ASSUME NEW active \in BOOLEAN, NEW retries \in 1..MaxRetries,
             ReadForUpdate(p, v, active, retries)
      PROVE  Silent(w)
  <2> DEFINE n == [Idle EXCEPT !.op = "update", !.pc = "save",
                   !.ent = [rows[v] EXCEPT !.isActive = active, !.maxRetries = retries]]
  <2>1. rows[v] \in Row
    BY <1>1, HeldRow DEF ReadForUpdate
  <2>2. /\ n \in Job /\ Phase(n) /\ n.op = "update" /\ n # Idle
        /\ n.ent.deliveryCount = rows[v].deliveryCount
        /\ n.ent.failureCount = rows[v].failureCount
    BY <2>1, UpdateJob, Zenon
  <2>3. Become(p, v, n) /\ UNCHANGED rows /\ job[p][v] = Idle
    BY <1>1 DEF ReadForUpdate, RequestIdle
  <2> HIDE DEF n
  <2>4. CASE v = w
    <3>1. /\ job'[p][v] = n
          /\ \A q \in Proc, u \in Webhook : ~(q = p /\ u = v) => job'[q][u] = job[q][u]
      BY <2>2, <2>3, Became DEF Inv
    <3>2. \A q \in Proc : job[q][w] = Idle => job'[q][w].op # "trigger"
      BY <2>2, <2>4, <3>1, IdleJob
    <3>3. job[p][w] = Idle /\ job'[p][w].op = "update"
      BY <2>2, <2>3, <2>4, <3>1
    <3> QED BY <3>2, <3>3 DEF Silent
  <2>5. CASE v # w
    BY <2>2, <2>3, <2>5, HushJob, HushIsSilent
  <2> QED BY <2>4, <2>5
<1>2. CASE ReadForDelete(p, v)
  <2> DEFINE n == [Idle EXCEPT !.op = "delete", !.pc = "remove"]
  <2>1. n \in Job /\ n.op = "delete"
    BY DeleteJob
  <2>2. Become(p, v, n) /\ UNCHANGED rows
    BY <1>2 DEF ReadForDelete
  <2> HIDE DEF n
  <2>3. Harmless(n) /\ n.op # "trigger"
    BY <2>1 DEF Harmless
  <2> QED BY <2>1, <2>2, <2>3, HushJob, HushIsSilent
<1>3. CASE TestDelivery(p, v)
  <2> DEFINE n == StartDelivery("test", v)
  <2>1. rows[v] \in Row
    BY <1>3, HeldRow DEF TestDelivery
  <2>2. n \in Job /\ n.op = "test" /\ n.ent = rows[v]
    BY <2>1, StartedJob DEF Delivery
  <2>3. Become(p, v, n) /\ UNCHANGED rows
    BY <1>3 DEF TestDelivery
  <2> HIDE DEF n
  <2>4. v = w => Harmless(n) /\ n.op # "trigger"
    BY <2>2 DEF Harmless, Silenced
  <2> QED BY <2>2, <2>3, <2>4, HushJob, HushIsSilent
<1> QED BY <1>1, <1>2, <1>3

LEMMA HushAttempts ==
    ASSUME Inv, NEW w \in Webhook, Silenced(w), NEW p \in Proc, NEW v \in Webhook,
           Accept(p, v) \/ Refuse(p, v) \/ Catch(p, v)
    PROVE  Hush(w)
<1> DEFINE j == job[p][v]
           accept == [j EXCEPT !.pc = "save", !.posts = @ + 1, !.ent.deliveryCount = @ + 1]
           refuse == [j EXCEPT !.pc = "catch", !.posts = @ + 1]
           next == [j EXCEPT !.attempt = @ + 1]
           again == [next EXCEPT !.pc = "post"]
           last == [next EXCEPT !.pc = "save", !.ent.failureCount = @ + 1]
<1>1. /\ j.pc \in {"post", "catch"} /\ UNCHANGED rows
      /\ \E n \in {accept, refuse, again, last} : Become(p, v, n)
  BY DEF Accept, Refuse, Catch
<1>2. /\ j \in Job /\ j.ent \in Row
      /\ v = w => ~j.ent.isActive /\ j # Idle
  BY <1>1, Held, SilentJob DEF Carrying
<1>3. /\ accept.ent = [j.ent EXCEPT !.deliveryCount = j.ent.deliveryCount + 1]
      /\ refuse.ent = j.ent /\ again.ent = j.ent
      /\ last.ent = [j.ent EXCEPT !.failureCount = j.ent.failureCount + 1]
  <2> HIDE DEF j
  <2> QED BY <1>2 DEF Job
<1>4. \A n \in {accept, refuse, again, last} : n.ent.isActive = j.ent.isActive
  <2>1. /\ [j.ent EXCEPT !.deliveryCount = j.ent.deliveryCount + 1].isActive = j.ent.isActive
        /\ [j.ent EXCEPT !.failureCount = j.ent.failureCount + 1].isActive = j.ent.isActive
    BY <1>2 DEF Row
  <2> HIDE DEF accept, refuse, again, last, j
  <2> QED BY <1>3, <2>1
<1> HIDE DEF accept, refuse, again, last
<1>5. PICK n \in {accept, refuse, again, last} : Become(p, v, n)
  BY <1>1
<1>6. v = w => Harmless(n) /\ job[p][w] # Idle
  BY <1>2, <1>4, <1>5 DEF Harmless
<1>7. /\ job'[p][v] = n
      /\ \A q \in Proc, u \in Webhook : ~(q = p /\ u = v) => job'[q][u] = job[q][u]
  BY <1>5 DEF Become, Inv, JobsOK
<1>8. rows'[w] # NoRow /\ ~rows'[w].isActive
  BY <1>1 DEF Silenced, Stored
<1>9. ASSUME NEW q \in Proc, job'[q][w] # job[q][w]
      PROVE  Harmless(job'[q][w]) /\ job[q][w] # Idle
  <2>1. q = p /\ w = v
    BY <1>7, <1>9
  <2> QED BY <1>6, <1>7, <2>1
<1> QED BY <1>8, <1>9, HushStep

\* The rest of a save, and what ends a job.
LEMMA HushEnded ==
    ASSUME Inv, NEW w \in Webhook, Silenced(w), NEW p \in Proc, NEW v \in Webhook,
           Finish(p, v), rows'[w] # NoRow, ~rows'[w].isActive
    PROVE  Hush(w)
<1>1. Become(p, v, Idle)
  BY DEF Finish
<1>2. /\ job'[p][v] = Idle
      /\ \A q \in Proc, u \in Webhook : ~(q = p /\ u = v) => job'[q][u] = job[q][u]
  BY <1>1, IdleJob, Became DEF Inv
<1>3. \A q \in Proc : job'[q][w] # job[q][w] => job'[q][w] = Idle
  BY <1>2
<1>4. Harmless(Idle) /\ Idle.op # "trigger"
  BY IdleJob DEF Harmless
<1> QED BY <1>3, <1>4, HushStep

LEMMA HushSaves ==
    ASSUME Inv, NEW w \in Webhook, Silenced(w), NEW p \in Proc, NEW v \in Webhook,
           SaveLoad(p, v) \/ SaveThrows(p, v)
    PROVE  Hush(w)
<1> DEFINE j == job[p][v]
           load == [j EXCEPT !.pc = "write", !.loaded = rows[v]]
           throw == [j EXCEPT !.pc = "catch", !.loaded = NoRow]
<1>1. /\ j.pc \in {"save", "write"} /\ UNCHANGED rows
      /\ (\E n \in {load, throw} : Become(p, v, n)) \/ Finish(p, v)
  BY DEF SaveLoad, SaveThrows
<1>3. load.ent = j.ent /\ throw.ent = j.ent
  <2>1. j \in Job
    BY Held
  <2> HIDE DEF j
  <2> QED BY <2>1 DEF Job
<1>4. rows'[w] # NoRow /\ ~rows'[w].isActive
  BY <1>1 DEF Silenced, Stored
<1>5. CASE Finish(p, v)
  BY <1>4, <1>5, HushEnded
<1> HIDE DEF load, throw
<1>6. CASE \E n \in {load, throw} : Become(p, v, n)
  <2>1. PICK n \in {load, throw} : Become(p, v, n)
    BY <1>6
  <2>2. /\ job'[p][v] = n
        /\ \A q \in Proc, u \in Webhook : ~(q = p /\ u = v) => job'[q][u] = job[q][u]
    BY <2>1 DEF Become, Inv, JobsOK
  <2>3. v = w => Harmless(n) /\ job[p][w] # Idle
    <3>1. v = w => ~j.ent.isActive /\ j # Idle
      BY <1>1, SilentJob DEF Carrying
    <3>2. n.ent = j.ent
      BY <1>3, <2>1
    <3> QED BY <3>1, <3>2 DEF Harmless
  <2>4. ASSUME NEW q \in Proc, job'[q][w] # job[q][w]
        PROVE  Harmless(job'[q][w]) /\ job[q][w] # Idle
    <3>1. q = p /\ w = v
      BY <2>2, <2>4
    <3> QED BY <2>2, <2>3, <3>1
  <2> QED BY <1>4, <2>4, HushStep
<1> QED BY <1>1, <1>5, <1>6

\* What a save of an inactive entity writes over an inactive row is inactive.
LEMMA SilentWrite ==
    ASSUME Inv, NEW w \in Webhook, Silenced(w), NEW p \in Proc, NEW v \in Webhook,
           SaveWrite(p, v)
    PROVE  Hush(w)
<1> DEFINE j == job[p][v]
<1>1. /\ j.pc = "write" /\ Finish(p, v) /\ rows' = [rows EXCEPT ![v] = Saved(j, v)]
      /\ j.loaded = NoRow => ~Stored(v)
  BY DEF SaveWrite, Saved
<1>2. /\ rows'[v] = Saved(j, v)
      /\ \A u \in Webhook \ {v} : rows'[u] = rows[u]
  BY <1>1 DEF Inv, RowsOK
<1>3. CASE v # w
  BY <1>1, <1>2, <1>3, HushEnded DEF Silenced, Stored
<1>4. CASE v = w
  <2>1. j \in Job /\ j.ent \in Row /\ ~j.ent.isActive
    BY <1>1, <1>4, Held, SilentJob DEF Carrying
  <2>2. Stored(v) /\ rows[v] \in Row /\ ~rows[v].isActive
    BY <1>4, HeldRow DEF Silenced
  <2>3. j.loaded \in Row
    BY <1>1, <2>1, <2>2 DEF Job
  <2> DEFINE m == Merged(j.ent, j.loaded, rows[v])
  <2> HIDE DEF j
  <2>4. m \in Row /\ m.isActive \in {j.ent.isActive, rows[v].isActive}
    BY <2>1, <2>2, <2>3, MergedRow
  <2>5. Saved(j, v) = m
    BY <2>2, <2>3, NoValueAssumption DEF Saved
  <2> HIDE DEF m
  <2>6. rows'[w] # NoRow /\ ~rows'[w].isActive
    BY <1>2, <1>4, <2>1, <2>2, <2>4, <2>5, NoValueAssumption
  <2> QED BY <1>1, <2>6, HushEnded DEF j
<1> QED BY <1>3, <1>4

LEMMA SilentRemove ==
    ASSUME Inv, NEW w \in Webhook, Silenced(w), NEW p \in Proc, NEW v \in Webhook,
           Remove(p, v)
    PROVE  Silent(w)
<1>1. Finish(p, v) /\ rows' = [rows EXCEPT ![v] = NoRow]
  BY DEF Remove
<1>2. rows'[v] = NoRow /\ \A u \in Webhook \ {v} : rows'[u] = rows[u]
  BY <1>1 DEF Inv, RowsOK
<1>3. CASE v # w
  BY <1>1, <1>2, <1>3, HushEnded, HushIsSilent DEF Silenced, Stored
<1>4. CASE v = w
  <2>1. Become(p, v, Idle)
    BY <1>1 DEF Finish
  <2>2. /\ job'[p][v] = Idle
        /\ \A q \in Proc, u \in Webhook : ~(q = p /\ u = v) => job'[q][u] = job[q][u]
    BY <2>1, IdleJob, Became DEF Inv
  <2>3. \A q \in Proc : job[q][w] = Idle => job'[q][w].op # "trigger"
    BY <2>2, IdleJob
  <2> QED BY <1>2, <1>4, <2>3 DEF Silent, Stored
<1> QED BY <1>3, <1>4

\* trigger asks the database for active webhooks only.
LEMMA HushTrigger ==
    ASSUME Inv, NEW w \in Webhook, Silenced(w), NEW p \in Proc,
           NEW matching \in SUBSET Webhook, Trigger(p, matching) \/ Abort(p)
    PROVE  Hush(w)
<1>2. UNCHANGED rows
  BY DEF Trigger, Abort
<1>3. /\ job'[p][w] = Idle
      /\ \A q \in Proc \ {p} : job'[q][w] = job[q][w]
  <2>1. CASE Abort(p)
    BY <2>1 DEF Abort, Inv, JobsOK
  <2>2. CASE Trigger(p, matching)
    <3>1. w \notin matching
      BY <2>2 DEF Trigger, Silenced
    <3> QED BY <2>2, <3>1 DEF Trigger, Inv, JobsOK
  <2> QED BY <2>1, <2>2
<1>4. Harmless(Idle) /\ Idle.op # "trigger"
  BY IdleJob DEF Harmless
<1>5. rows'[w] # NoRow /\ ~rows'[w].isActive
  BY <1>2 DEF Silenced, Stored
<1> QED BY <1>3, <1>4, <1>5, HushStep

LEMMA HushStill ==
    ASSUME Inv, NEW w \in Webhook, Silenced(w), UNCHANGED job,
           UNCHANGED rows
              \/ \E v \in Webhook, retries \in 1..MaxRetries : Create(v, retries)
    PROVE  Hush(w)
<1>1. rows'[w] = rows[w]
  <2>1. ASSUME NEW v \in Webhook, NEW retries \in 1..MaxRetries, Create(v, retries)
        PROVE  rows'[w] = rows[w]
    <3>1. w \in drawn /\ v \notin drawn
      BY <2>1, HeldRow DEF Create, Silenced
    <3> QED BY <2>1, <3>1 DEF Create, Inv, RowsOK
  <2> QED BY <2>1
<1>2. rows'[w] # NoRow /\ ~rows'[w].isActive
  BY <1>1 DEF Silenced, Stored
<1> QED BY <1>2, HushStep

LEMMA SilentStep ==
    ASSUME Inv, [Next]_vars, NEW w \in Webhook, Silenced(w)
    PROVE  Silent(w)
<1>1. CASE UNCHANGED vars
  BY <1>1, HushStill, HushIsSilent DEF vars
<1>2. CASE \E v \in Webhook, retries \in 1..MaxRetries : Create(v, retries)
  <2>1. UNCHANGED job
    BY <1>2 DEF Create
  <2> QED BY <1>2, <2>1, HushStill, HushIsSilent
<1>3. ASSUME NEW p \in Proc, Handler(p) PROVE Silent(w)
  <2>1. CASE \/ \E v \in Webhook, active \in BOOLEAN, retries \in 1..MaxRetries :
                   ReadForUpdate(p, v, active, retries)
             \/ \E v \in Webhook : ReadForDelete(p, v)
             \/ \E v \in Webhook : TestDelivery(p, v)
    BY <2>1, SilentReads
  <2>2. CASE \E matching \in SUBSET Webhook : Trigger(p, matching) \/ Abort(p)
    BY <2>2, HushTrigger, HushIsSilent
  <2>3. CASE \E v \in Webhook : Accept(p, v) \/ Refuse(p, v) \/ Continue(p, v)
    BY <2>3, HushAttempts, HushSaves, SilentWrite, SilentRemove, HushIsSilent
       DEF Continue, Timeout
  <2> QED BY <1>3, <2>1, <2>2, <2>3 DEF Handler
<1> QED BY <1>1, <1>2, <1>3 DEF Next

\* A webhook that is not active, and that no request holds as active, begins no
\* delivery but a test, and stays so until an update of it begins or it is gone.
THEOREM DeactivatedStaysSilent == Spec => DeactivatedIsSilent
<1>1. Inv /\ [Next]_vars =>
         [\A w \in Webhook : Silenced(w) =>
             /\ \/ Silenced(w)'
                \/ ~Stored(w)'
                \/ \E p \in Proc : job[p][w] = Idle /\ job'[p][w].op = "update"
             /\ \A p \in Proc : job[p][w] = Idle => job'[p][w].op # "trigger"]_vars
  BY SilentStep DEF Silent
<1> QED BY <1>1, InvHolds, PTL DEF Spec, DeactivatedIsSilent
=============================================================================
