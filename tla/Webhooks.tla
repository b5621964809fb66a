------------------------------ MODULE Webhooks ------------------------------
(***************************************************************************)
(* WebhookService (src/src/modules/webhooks/webhook.service.ts): the table *)
(* webhooks of a tenant, and the deliveries of trigger and testDelivery.   *)
(* A request has one job for each webhook it works on; trigger runs its    *)
(* deliveries side by side and ends with the last of them.                 *)
(*                                                                         *)
(*   deliver   Accept, or Refuse or Timeout and Catch until the retries    *)
(*             are used up; then SaveLoad -> SaveWrite of the counters     *)
(*   update, rotateSecret      ReadForUpdate -> SaveLoad -> SaveWrite      *)
(*   delete                    ReadForDelete -> Remove                     *)
(*                                                                         *)
(* The save of an accepted delivery lies inside the try of the attempt:    *)
(* when it fails the event is posted again.  url, events, secret and       *)
(* description are left out.  rotateSecret is an update that changes none  *)
(* of the columns below, and any of the active webhooks may have asked for *)
(* an event.                                                               *)
(***************************************************************************)
EXTENDS Integers, FiniteSets, Repository

CONSTANTS
    Proc,            \* requests that may be in flight at the same time
    Webhook,         \* ids of webhooks, given out by the database
    MaxRetries,      \* the DTOs allow 1..5 for maxRetries
    MaxTriggers,     \* bound: how many triggers and test deliveries begin
    NoRow

ASSUME ProcAssumption == IsFiniteSet(Proc)
ASSUME NumberAssumption == MaxRetries \in Nat \ {0} /\ MaxTriggers \in Nat

Count == 0..(MaxTriggers * MaxRetries)
Row == [isActive : BOOLEAN, maxRetries : 1..MaxRetries,
        deliveryCount : Count, failureCount : Count]

Delivery == {"trigger", "test"}
\* posts is history: how often the delivery has posted the event.
Job == [op : Delivery \cup {"none", "update", "delete"},
        pc : {"idle", "post", "catch", "save", "write", "remove"},
        ent : Row \cup {NoRow}, loaded : Row \cup {NoRow},
        attempt : 0..MaxRetries, posts : Nat]

Idle == [op |-> "none", pc |-> "idle", ent |-> NoRow, loaded |-> NoRow,
         attempt |-> 0, posts |-> 0]

ASSUME NoValueAssumption == NoRow \notin Row

VARIABLES
    rows,        \* the webhooks table; NoRow where there is no row of that id
    drawn,       \* ids that were given out
    job,         \* what each request does for each webhook
    triggers,    \* how many triggers and test deliveries have begun
    accepted,    \* history: posts that the receiver accepted
    exhausted    \* history: deliveries that used up their retries

vars == <<rows, drawn, job, triggers, accepted, exhausted>>

-----------------------------------------------------------------------------

Stored(w) == rows[w] # NoRow
RequestIdle(p) == \A w \in Webhook : job[p][w] = Idle

Become(p, w, j) == job' = [job EXCEPT ![p][w] = j]
Finish(p, w) == Become(p, w, Idle)

\* The UPDATE of a save: the columns where ent and loaded differ.
Merged(ent, loaded, row) ==
    [c \in DOMAIN row |-> Column(ent[c], loaded[c], row[c])]

\* A delivery begins with the row as its request has read it.
StartDelivery(op, w) == [Idle EXCEPT !.op = op, !.pc = "post", !.ent = rows[w]]

\* The loop has ended: what remains is the save of failureCount.
GivenUp(j) == j.attempt = j.ent.maxRetries

Init ==
    /\ rows = [w \in Webhook |-> NoRow]
    /\ drawn = {}
    /\ job = [p \in Proc |-> [w \in Webhook |-> Idle]]
    /\ triggers = 0
    /\ accepted = [w \in Webhook |-> 0]
    /\ exhausted = [w \in Webhook |-> 0]

-----------------------------------------------------------------------------
\* create, update, rotateSecret and delete

Create(w, retries) ==
    /\ w \notin drawn
    /\ drawn' = drawn \cup {w}
    /\ rows' = [rows EXCEPT ![w] = [isActive |-> TRUE, maxRetries |-> retries,
                                    deliveryCount |-> 0, failureCount |-> 0]]
    /\ UNCHANGED <<job, triggers, accepted, exhausted>>

ReadForUpdate(p, w, active, retries) ==
    /\ RequestIdle(p)
    /\ Stored(w)
    /\ Become(p, w, [Idle EXCEPT !.op = "update", !.pc = "save",
                 !.ent = [rows[w] EXCEPT !.isActive = active, !.maxRetries = retries]])
    /\ UNCHANGED <<rows, drawn, triggers, accepted, exhausted>>

ReadForDelete(p, w) ==
    /\ RequestIdle(p)
    /\ Stored(w)
    /\ Become(p, w, [Idle EXCEPT !.op = "delete", !.pc = "remove"])
    /\ UNCHANGED <<rows, drawn, triggers, accepted, exhausted>>

Remove(p, w) ==
    /\ job[p][w].pc = "remove"
    /\ rows' = [rows EXCEPT ![w] = NoRow]
    /\ Finish(p, w)
    /\ UNCHANGED <<drawn, triggers, accepted, exhausted>>

-----------------------------------------------------------------------------
\* trigger, testDelivery and deliver

\* Mutant: the webhooks are not filtered by isActive.
Trigger_Inactive(p, matching) ==
    /\ RequestIdle(p)
    /\ matching \subseteq {w \in Webhook : Stored(w)}
    /\ triggers < MaxTriggers
    /\ triggers' = triggers + 1
    /\ job' = [job EXCEPT ![p] =
         [w \in Webhook |-> IF w \in matching THEN StartDelivery("trigger", w) ELSE Idle]]
    /\ UNCHANGED <<rows, drawn, accepted, exhausted>>

Trigger(p, matching) ==
    /\ RequestIdle(p)
    /\ matching \subseteq {w \in Webhook : Stored(w) /\ rows[w].isActive}
    /\ triggers < MaxTriggers
    /\ triggers' = triggers + 1
    /\ job' = [job EXCEPT ![p] =
         [w \in Webhook |-> IF w \in matching THEN StartDelivery("trigger", w) ELSE Idle]]
    /\ UNCHANGED <<rows, drawn, accepted, exhausted>>

TestDelivery(p, w) ==
    /\ RequestIdle(p)
    /\ Stored(w)
    /\ triggers < MaxTriggers
    /\ triggers' = triggers + 1
    /\ Become(p, w, StartDelivery("test", w))
    /\ UNCHANGED <<rows, drawn, accepted, exhausted>>

\* The receiver answers with a status of success.
Accept(p, w) ==
    /\ job[p][w].pc = "post"
    /\ Become(p, w, [job[p][w] EXCEPT !.pc = "save", !.posts = @ + 1,
                                      !.ent.deliveryCount = @ + 1])
    /\ accepted' = [accepted EXCEPT ![w] = @ + 1]
    /\ UNCHANGED <<rows, drawn, triggers, exhausted>>

\* Mutant: the delivery is counted before response.ok is looked at.
Refuse_Counted(p, w) ==
    /\ job[p][w].pc = "post"
    /\ Become(p, w, [job[p][w] EXCEPT !.pc = "catch", !.posts = @ + 1,
                                      !.ent.deliveryCount = @ + 1])
    /\ UNCHANGED <<rows, drawn, triggers, accepted, exhausted>>

\* It answers with another status, or the connection fails.
Refuse(p, w) ==
    /\ job[p][w].pc = "post"
    /\ Become(p, w, [job[p][w] EXCEPT !.pc = "catch", !.posts = @ + 1])
    /\ UNCHANGED <<rows, drawn, triggers, accepted, exhausted>>

\* Mutant: fetch has no signal.
Timeout_Never(p, w) == FALSE

\* AbortSignal.timeout: no answer within 10 seconds.
Timeout(p, w) == Refuse(p, w)

\* Mutant: an attempt too many.
Catch_OffByOne(p, w) ==
    LET next == [job[p][w] EXCEPT !.attempt = @ + 1] IN
    /\ job[p][w].pc = "catch"
    /\ IF next.attempt <= next.ent.maxRetries
       THEN Become(p, w, [next EXCEPT !.pc = "post"]) /\ UNCHANGED exhausted
       ELSE /\ Become(p, w, [next EXCEPT !.pc = "save", !.ent.failureCount = @ + 1])
            /\ exhausted' = [exhausted EXCEPT ![w] = @ + 1]
    /\ UNCHANGED <<rows, drawn, triggers, accepted>>

\* The catch block, then the condition of the loop and the count of a failure.
Catch(p, w) ==
    LET next == [job[p][w] EXCEPT !.attempt = @ + 1] IN
    /\ job[p][w].pc = "catch"
    /\ IF next.attempt < next.ent.maxRetries
       THEN Become(p, w, [next EXCEPT !.pc = "post"]) /\ UNCHANGED exhausted
       ELSE /\ Become(p, w, [next EXCEPT !.pc = "save", !.ent.failureCount = @ + 1])
            /\ exhausted' = [exhausted EXCEPT ![w] = @ + 1]
    /\ UNCHANGED <<rows, drawn, triggers, accepted>>

-----------------------------------------------------------------------------
\* save, for all of them

SaveLoad(p, w) ==
    /\ job[p][w].pc = "save"
    /\ Become(p, w, [job[p][w] EXCEPT !.pc = "write", !.loaded = rows[w]])
    /\ UNCHANGED <<rows, drawn, triggers, accepted, exhausted>>

\* The UPDATE, which does nothing when the row is gone, or the INSERT of a row
\* that was gone at the SELECT.
SaveWrite(p, w) ==
    LET j == job[p][w] IN
    /\ j.pc = "write"
    /\ j.loaded = NoRow => ~Stored(w)
    /\ rows' = [rows EXCEPT ![w] =
                  IF j.loaded = NoRow THEN j.ent
                  ELSE IF Stored(w) THEN Merged(j.ent, j.loaded, rows[w])
                  ELSE NoRow]
    /\ Finish(p, w)
    /\ UNCHANGED <<drawn, triggers, accepted, exhausted>>

\* Mutant: the failed save is tried again with its post, uncounted.
SaveThrows_Uncounted(p, w) ==
    LET j == job[p][w] IN
    /\ j.pc \in {"save", "write"}
    /\ IF j.op \in Delivery /\ ~GivenUp(j)
       THEN Become(p, w, [j EXCEPT !.pc = "post", !.loaded = NoRow])
       ELSE Finish(p, w)
    /\ UNCHANGED <<rows, drawn, triggers, accepted, exhausted>>

\* Either statement fails.  A delivery that was accepted goes on to its catch
\* block, with deliveryCount as it stands; the other requests end.
SaveThrows(p, w) ==
    LET j == job[p][w] IN
    /\ j.pc \in {"save", "write"}
    /\ IF j.op \in Delivery /\ ~GivenUp(j)
       THEN Become(p, w, [j EXCEPT !.pc = "catch", !.loaded = NoRow])
       ELSE Finish(p, w)
    /\ UNCHANGED <<rows, drawn, triggers, accepted, exhausted>>

\* The process of the request ends, or the read of a delete fails.
Abort(p) ==
    /\ ~RequestIdle(p)
    /\ job' = [job EXCEPT ![p] = [w \in Webhook |-> Idle]]
    /\ UNCHANGED <<rows, drawn, triggers, accepted, exhausted>>

-----------------------------------------------------------------------------

\* What a job does without help from a receiver.
Continue(p, w) ==
    \/ Timeout(p, w)
    \/ Catch(p, w)
    \/ SaveLoad(p, w)
    \/ SaveWrite(p, w)
    \/ SaveThrows(p, w)
    \/ Remove(p, w)

Handler(p) ==
    \/ \E w \in Webhook, active \in BOOLEAN, retries \in 1..MaxRetries :
          ReadForUpdate(p, w, active, retries)
    \/ \E w \in Webhook : ReadForDelete(p, w)
    \/ \E matching \in SUBSET Webhook : Trigger(p, matching)
    \/ \E w \in Webhook : TestDelivery(p, w)
    \/ \E w \in Webhook : Accept(p, w) \/ Refuse(p, w) \/ Continue(p, w)
    \/ Abort(p)

Next ==
    \/ \E w \in Webhook, retries \in 1..MaxRetries : Create(w, retries)
    \/ \E p \in Proc : Handler(p)

\* The timer of a post fires, and the database answers or reports an error.
\* Nothing is assumed of the receivers.
Fairness == \A p \in Proc, w \in Webhook : WF_vars(Continue(p, w))

Spec == Init /\ [][Next]_vars /\ Fairness

-----------------------------------------------------------------------------
\* Properties

\* Type invariant: rows, entities and counters keep to their types, and no
\* delivery counts more attempts than a DTO may ask for.
TypeOK ==
    /\ rows \in [Webhook -> Row \cup {NoRow}]
    /\ drawn \subseteq Webhook
    /\ job \in [Proc -> [Webhook -> Job]]
    /\ triggers \in 0..MaxTriggers
    /\ accepted \in [Webhook -> Count]
    /\ exhausted \in [Webhook -> Count]
    /\ \A p \in Proc, w \in Webhook :
          job[p][w].pc \in {"post", "catch", "save", "write"} => job[p][w].ent \in Row

\* One delivery posts at most maxRetries times, also when the event was accepted
\* and the save after it failed, which makes deliver post it again (lines
\* 159-187), and whatever becomes of the row meanwhile.
PostsBounded ==
    \A p \in Proc, w \in Webhook :
        job[p][w].op \in Delivery => job[p][w].posts <= job[p][w].ent.maxRetries

\* The counters of a webhook (lines 176 and 189) never claim more than happened:
\* stale saves and failed ones lose counts, but nothing is counted twice.
CountsAreReal ==
    \A w \in Webhook : Stored(w) =>
        /\ rows[w].deliveryCount <= accepted[w]
        /\ rows[w].failureCount <= exhausted[w]

\* The webhook is not active, and no request holds it in another state.
Silenced(w) ==
    /\ Stored(w) /\ ~rows[w].isActive
    /\ \A p \in Proc : job[p][w] # Idle /\ job[p][w].op # "delete"
                          => ~job[p][w].ent.isActive

\* A deactivated webhook gets no event but from testDelivery, and no delivery
\* activates it: that takes an update (lines 75, 111 and 178).
DeactivatedIsSilent ==
    [][\A w \in Webhook : Silenced(w) =>
          /\ \/ Silenced(w)'
             \/ ~Stored(w)'
             \/ \E p \in Proc : job[p][w] = Idle /\ job'[p][w].op = "update"
          /\ \A p \in Proc :
               job[p][w] = Idle => job'[p][w].op # "trigger"]_vars

\* Every request comes to its end, whatever the receivers do: a trigger waits
\* for its slowest delivery (lines 115-117), and a delivery for 10 seconds at
\* most maxRetries times.
RequestsEnd == \A p \in Proc : []<>RequestIdle(p)
=============================================================================
