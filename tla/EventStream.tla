----------------------------- MODULE EventStream -----------------------------
(***************************************************************************)
(* One EventStream<T> of middlewares/event_stream.h: a table of            *)
(* subscriptions and the publish coroutines that run over it.              *)
(*                                                                         *)
(* Everything runs on one io_context thread: a coroutine keeps the thread  *)
(* until it suspends, and `running' is the publish that holds it (0 when   *)
(* the thread is with any other coroutine).  A handler that suspends lets  *)
(* other publishes and other subscribers' calls in; a handler that does    *)
(* not suspend returns to its publish at once.  A handler that publishes   *)
(* on its own stream counts as one that suspends.                          *)
(***************************************************************************)
EXTENDS Naturals, FiniteSets

CONSTANTS
  MaxSubs,   \* bound: subscribe() calls in a behaviour
  MaxPubs,   \* bound: publish() calls in a behaviour
  MaxHit     \* bound: largest execHit given to subscribe()

ASSUME BoundsAssumption == MaxSubs \in Nat /\ MaxPubs \in Nat /\ MaxHit \in Nat

Ids  == 1 .. MaxSubs
Pubs == 1 .. MaxPubs

VARIABLES
  insertId,   \* insertId_: the last subscription id given out
  listeners,  \* the keys of listeners_
  execHit,    \* execHit of each subscription, 0 = permanent
  suspends,   \* does the subscription's handler suspend while it runs
  published,  \* publish() calls made so far
  pc,         \* where each publish coroutine is
  snapshot,   \* the subscriptions its snapshot still has to be delivered to
  current,    \* the subscription whose handler it is awaiting
  running,    \* the publish that holds the thread, 0 = none
  quota,      \* history: the execHit each subscription was made with
  audience,   \* history: the listeners in the table when publish took its snapshot
  delivered   \* history: the publishes whose data each handler was called with

vars == <<insertId, listeners, execHit, suspends, published, pc, snapshot,
          current, running, quota, audience, delivered>>

(***************************************************************************)
(* The std::map is walked in the order of its keys.                        *)
(***************************************************************************)
First(S) == CHOOSE i \in S : \A j \in S : i <= j

Init ==
  /\ insertId = 0
  /\ listeners = {}
  /\ execHit = [i \in Ids |-> 0]
  /\ suspends = [i \in Ids |-> FALSE]
  /\ published = 0
  /\ pc = [p \in Pubs |-> "idle"]
  /\ snapshot = [p \in Pubs |-> {}]
  /\ current = [p \in Pubs |-> 0]
  /\ running = 0
  /\ quota = [i \in Ids |-> 0]
  /\ audience = [p \in Pubs |-> {}]
  /\ delivered = [i \in Ids |-> {}]

(***************************************************************************)
(* subscribe and unsubscribe are plain calls: made by a coroutine that has *)
(* the thread, which is a publish only while it is inside a handler.       *)
(***************************************************************************)
UserCode == running # 0 => pc[running] = "handling"

Subscribe(hit, slow) ==
  /\ UserCode
  /\ insertId < MaxSubs
  /\ insertId' = insertId + 1
  /\ listeners' = listeners \cup {insertId'}
  /\ execHit' = [execHit EXCEPT ![insertId'] = hit]
  /\ suspends' = [suspends EXCEPT ![insertId'] = slow]
  /\ quota' = [quota EXCEPT ![insertId'] = hit]
  /\ UNCHANGED <<published, pc, snapshot, current, running, audience, delivered>>

Unsubscribe(i) ==
  /\ UserCode
  /\ i \in listeners
  /\ listeners' = listeners \ {i}
  /\ UNCHANGED <<insertId, execHit, suspends, published, pc, snapshot, current,
                 running, quota, audience, delivered>>

(***************************************************************************)
(* publish up to the end of the snapshot loop: the subscriptions are       *)
(* copied, the limited ones are charged, and the exhausted ones erased, in *)
(* one stretch without a suspension.  With no listener it returns at once. *)
(***************************************************************************)
\* Slip: an exhausted subscription stays, and execHit = 0 makes it permanent.
ExhaustedKept == {}
Exhausted == {i \in listeners : execHit[i] = 1}

Charged == [i \in Ids |-> IF i \in listeners /\ execHit[i] > 0 THEN execHit[i] - 1
                                                              ELSE execHit[i]]

\* Slip: the exhausted subscriptions are erased before the copy is made.
TakeSnapshotAfterErasing(p) ==
  /\ snapshot' = [snapshot EXCEPT ![p] = listeners \ Exhausted]
  /\ listeners' = listeners \ Exhausted
  /\ execHit' = Charged

TakeSnapshot(p) ==
  /\ snapshot' = [snapshot EXCEPT ![p] = listeners]
  /\ listeners' = listeners \ Exhausted
  /\ execHit' = Charged

Publish(p) ==
  /\ running = 0
  /\ p = published + 1
  /\ published' = p
  /\ audience' = [audience EXCEPT ![p] = listeners]
  /\ \/ /\ listeners = {}
        /\ pc' = [pc EXCEPT ![p] = "done"]
        /\ UNCHANGED <<listeners, execHit, snapshot, running>>
     \/ /\ listeners # {}
        /\ TakeSnapshot(p)
        /\ pc' = [pc EXCEPT ![p] = "dispatch"]
        /\ running' = p
  /\ UNCHANGED <<insertId, suspends, current, quota, delivered>>

(***************************************************************************)
(* The dispatch loop: call the next handler of the snapshot, whether or    *)
(* not it has been unsubscribed since, and wait for it.                    *)
(***************************************************************************)
\* Slip: an unordered table is walked.
AnyListener(p) == CHOOSE i \in snapshot[p] : \A j \in snapshot[p] : i >= j
NextToCall(p) == First(snapshot[p])

Invoke(p) ==
  /\ running = p
  /\ pc[p] = "dispatch"
  /\ snapshot[p] # {}
  /\ LET i == NextToCall(p) IN
       /\ snapshot' = [snapshot EXCEPT ![p] = @ \ {i}]
       /\ current' = [current EXCEPT ![p] = i]
       /\ delivered' = [delivered EXCEPT ![i] = @ \cup {p}]
       /\ running' = IF suspends[i] THEN 0 ELSE p
  /\ pc' = [pc EXCEPT ![p] = "handling"]
  /\ UNCHANGED <<insertId, listeners, execHit, suspends, published, quota, audience>>

(***************************************************************************)
(* The awaited handler returned or threw; both catch clauses go on with    *)
(* the next subscription.  After the last one the coroutine ends.          *)
(***************************************************************************)
Outcomes == {"returned", "threw"}

\* Slip: without the catch clauses an exception destroys the coroutine.
HandlerEndsUncaught(p, outcome) ==
  /\ pc[p] = "handling"
  /\ running \in {0, p}
  /\ running' = IF outcome = "threw" THEN 0 ELSE p
  /\ pc' = [pc EXCEPT ![p] = IF outcome = "threw" THEN "idle" ELSE "dispatch"]
  /\ current' = [current EXCEPT ![p] = 0]
  /\ UNCHANGED <<insertId, listeners, execHit, suspends, published, snapshot,
                 quota, audience, delivered>>

HandlerEnds(p, outcome) ==
  /\ pc[p] = "handling"
  /\ running \in {0, p}
  /\ running' = p
  /\ pc' = [pc EXCEPT ![p] = "dispatch"]
  /\ current' = [current EXCEPT ![p] = 0]
  /\ UNCHANGED <<insertId, listeners, execHit, suspends, published, snapshot,
                 quota, audience, delivered>>

Finish(p) ==
  /\ running = p
  /\ pc[p] = "dispatch"
  /\ snapshot[p] = {}
  /\ running' = 0
  /\ pc' = [pc EXCEPT ![p] = "done"]
  /\ UNCHANGED <<insertId, listeners, execHit, suspends, published, snapshot,
                 current, quota, audience, delivered>>

Next ==
  \/ \E hit \in 0 .. MaxHit, slow \in BOOLEAN : Subscribe(hit, slow)
  \/ \E i \in Ids : Unsubscribe(i)
  \/ \E p \in Pubs : Publish(p)
  \/ \E p \in Pubs : Invoke(p)
  \/ \E p \in Pubs, outcome \in Outcomes : HandlerEnds(p, outcome)
  \/ \E p \in Pubs : Finish(p)

(***************************************************************************)
(* The io_context keeps running the ready coroutines.  That a handler ends *)
(* is an assumption on the subscribers; nothing obliges anybody to         *)
(* subscribe, unsubscribe or publish.                                      *)
(***************************************************************************)
Progress(p) == Invoke(p) \/ Finish(p)
Fairness ==
  \A p \in Pubs : /\ WF_vars(Progress(p))
                  /\ SF_vars(\E outcome \in Outcomes : HandlerEnds(p, outcome))

Spec == Init /\ [][Next]_vars /\ Fairness
-----------------------------------------------------------------------------
(***************************************************************************)
(* Every variable keeps its type.                                          *)
(***************************************************************************)
TypeOK ==
  /\ insertId \in 0 .. MaxSubs
  /\ listeners \in SUBSET Ids
  /\ execHit \in [Ids -> Nat]
  /\ suspends \in [Ids -> BOOLEAN]
  /\ published \in 0 .. MaxPubs
  /\ pc \in [Pubs -> {"idle", "dispatch", "handling", "done"}]
  /\ snapshot \in [Pubs -> SUBSET Ids]
  /\ current \in [Pubs -> Ids \cup {0}]
  /\ running \in Pubs \cup {0}
  /\ quota \in [Ids -> Nat]
  /\ audience \in [Pubs -> SUBSET Ids]
  /\ delivered \in [Ids -> SUBSET Pubs]

(***************************************************************************)
(* A subscription made with execHit = n > 0 is called for at most n        *)
(* publishes, whatever publishes overlap, and while it is in the table the *)
(* publishes that have taken it and its remaining execHit add up to n.     *)
(***************************************************************************)
TakenBy(i) == {p \in Pubs : i \in audience[p]}

LimitedSubscription ==
  \A i \in Ids : quota[i] > 0 =>
    /\ Cardinality(TakenBy(i)) <= quota[i]
    /\ delivered[i] \subseteq TakenBy(i)
    /\ i \in listeners => execHit[i] > 0 /\ Cardinality(TakenBy(i)) + execHit[i] = quota[i]

(***************************************************************************)
(* A publish that has returned has called exactly the handlers that were   *)
(* subscribed when it began: none is lost to an exception, an unsubscribe  *)
(* or another publish, and nobody who came later is called.                *)
(***************************************************************************)
DeliveredToAudience ==
  \A p \in Pubs : pc[p] = "done" => {i \in Ids : p \in delivered[i]} = audience[p]

(***************************************************************************)
(* Within one publish the handlers are called in subscription order, each  *)
(* after the previous one has ended.                                       *)
(***************************************************************************)
SubscriptionOrder ==
  \A p \in Pubs, j \in Ids : p \in delivered[j] =>
    \A i \in audience[p] : i < j => p \in delivered[i] /\ current[p] # i

(***************************************************************************)
(* Tokens reach a handler in the order they were published as long as no   *)
(* handler subscribed before it suspends: the order EventBridge relies on  *)
(* for the model-token stream.  (Behind a handler that suspends, a later   *)
(* publish overtakes an earlier one.)                                      *)
(***************************************************************************)
BehindPromptHandlers(i) == \A j \in Ids : j < i => ~suspends[j]

PublishOrder ==
  [][\A i \in Ids : BehindPromptHandlers(i) =>
       \A p \in delivered'[i] \ delivered[i], q \in delivered[i] : q < p]_vars

(***************************************************************************)
(* When handlers end, every publish returns, however many throw, and has   *)
(* by then called everyone who was subscribed when it began and nobody     *)
(* else.                                                                   *)
(***************************************************************************)
PublishReturns ==
  \A p \in Pubs : (pc[p] = "dispatch") ~>
                   (pc[p] = "done" /\ {i \in Ids : p \in delivered[i]} = audience[p])

(***************************************************************************)
(* The table, the countdowns and the coroutines implement the group of     *)
(* Broadcast: counting execHit down and erasing at zero is the same as     *)
(* leaving after the n-th message.                                         *)
(***************************************************************************)
Group == INSTANCE Broadcast WITH
  Members <- Ids, Limits <- 0 .. MaxHit, Messages <- Pubs, known <- 1 .. insertId, members <- listeners,
  limit <- quota, sentTo <- audience, got <- delivered

ImplementsBroadcast == Group!Spec
=============================================================================
