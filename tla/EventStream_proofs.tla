-------------------------- MODULE EventStream_proofs --------------------------
(***************************************************************************)
(* Proofs about EventStream for any number of subscriptions, publishes and *)
(* execHit values: the types, that no limited subscription is overdrawn,   *)
(* and that a finished publish has called exactly its audience, in order.  *)
(***************************************************************************)
EXTENDS EventStream, FiniteSetTheorems, WellFoundedInduction, TLAPS

(***************************************************************************)
(* A set of natural numbers that is not empty has a least element: a table *)
(* that is not empty has a first key, its begin().                         *)
(* The library's least-number theorems take an operator; the sets 0 .. n   *)
(* ordered by inclusion say the same without one.                          *)
(***************************************************************************)
LEMMA LeastExists ==
  ASSUME NEW S \in SUBSET Nat, S # {}
  PROVE  \E i \in S : \A j \in S : i <= j
<1> DEFINE Below(n) == 0 .. n
           T == {Below(n) : n \in S}
<1>1. T \subseteq FiniteSubsetsOf(Nat) /\ T # {}
  <2>1. \A n \in S : Below(n) \in SUBSET Nat /\ IsFiniteSet(Below(n))
    BY FS_Interval
  <2>. QED
    BY <2>1 DEF FiniteSubsetsOf
<1>2. IsWellFoundedOn(StrictSubsetOrdering(Nat), FiniteSubsetsOf(Nat))
  BY FS_StrictSubsetOrderingWellFounded
<1>3. \E x \in T : \A y \in T : ~ (<<y, x>> \in StrictSubsetOrdering(Nat))
  <2>. HIDE DEF T
  <2>. QED
    BY <1>1, <1>2, WFMin
<1>4. PICK i \in S : \A j \in S : <<Below(j), Below(i)>> \notin StrictSubsetOrdering(Nat)
  BY <1>3
<1>5. ASSUME NEW j \in S, j < i
      PROVE  FALSE
  <2>1. Below(j) \subseteq Below(i) /\ i \notin Below(j) /\ i \in Below(i)
    BY <1>5
  <2>2. Below(j) # Below(i) /\ Below(j) \in SUBSET Nat /\ Below(i) \in SUBSET Nat
    BY <2>1
  <2>. QED
    BY <1>4, <2>1, <2>2 DEF StrictSubsetOrdering
<1>6. \A j \in S : i <= j
  BY <1>5
<1>. QED
  BY <1>6

(***************************************************************************)
(* The next subscription of a snapshot that is not empty is one of it, and *)
(* no other one of it comes before: the std::map is walked by its keys.    *)
(***************************************************************************)
LEMMA FirstIsLeast ==
  ASSUME NEW S \in SUBSET Nat, S # {}
  PROVE  First(S) \in S /\ \A j \in S : First(S) <= j
<1>1. PICK i \in S : \A j \in S : i <= j
  BY LeastExists
<1>. QED
  BY <1>1 DEF First

-----------------------------------------------------------------------------
(***************************************************************************)
(* The identities of subscriptions and of publishes are natural numbers, 0 *)
(* is none of them, and the publishes are finitely many.                   *)
(***************************************************************************)
LEMMA IdsAndPubs ==
  /\ Ids \in SUBSET Nat /\ 0 \notin Ids
  /\ Pubs \in SUBSET Nat /\ 0 \notin Pubs
  /\ IsFiniteSet(Pubs)
BY BoundsAssumption, FS_Interval DEF Ids, Pubs

(***************************************************************************)
(* What the dispatch loop calls next is a subscription of the snapshot.    *)
(***************************************************************************)
LEMMA NextToCallIsLeast ==
  ASSUME TypeOK, NEW p \in Pubs, snapshot[p] # {}
  PROVE  /\ NextToCall(p) \in snapshot[p]
         /\ \A j \in snapshot[p] : NextToCall(p) <= j
<1>1. snapshot[p] \in SUBSET Nat
  BY IdsAndPubs DEF TypeOK
<1>. QED
  BY <1>1, FirstIsLeast DEF NextToCall

(***************************************************************************)
(* Charging the listeners, as the snapshot loop of publish() does, leaves  *)
(* a number in every execHit: nothing is counted below zero.               *)
(***************************************************************************)
LEMMA ChargedType == TypeOK => Charged \in [Ids -> Nat]
<1>. SUFFICES ASSUME TypeOK, NEW i \in Ids
              PROVE  (IF i \in listeners /\ execHit[i] > 0 THEN execHit[i] - 1
                                                          ELSE execHit[i]) \in Nat
  BY DEF Charged
<1>. QED
  BY DEF TypeOK

(***************************************************************************)
(* The variables of EventStream keep their types, for any bounds.          *)
(***************************************************************************)
LEMMA InitTypeOK == Init => TypeOK
BY BoundsAssumption DEF Init, TypeOK, Ids, Pubs

(***************************************************************************)
(* No operation of the stream takes a variable out of its type.            *)
(***************************************************************************)
LEMMA NextTypeOK == TypeOK /\ [Next]_vars => TypeOK'
<1>. SUFFICES ASSUME TypeOK, [Next]_vars PROVE TypeOK'
  OBVIOUS
<1>. USE BoundsAssumption
<1>1. ASSUME NEW hit \in 0 .. MaxHit, NEW slow \in BOOLEAN, Subscribe(hit, slow)
      PROVE  TypeOK'
  <2>1. insertId' \in Ids /\ insertId' \in 0 .. MaxSubs /\ hit \in Nat
    BY <1>1 DEF Subscribe, TypeOK, Ids
  <2>. QED
    BY <1>1, <2>1 DEF Subscribe, TypeOK
<1>2. ASSUME NEW i \in Ids, Unsubscribe(i) PROVE TypeOK'
  BY <1>2 DEF Unsubscribe, TypeOK
<1>3. ASSUME NEW p \in Pubs, Publish(p) PROVE TypeOK'
  <2>1. published' \in 0 .. MaxPubs
    BY <1>3 DEF Publish, Pubs
  <2>2. CASE listeners = {}
    BY <1>3, <2>1, <2>2 DEF Publish, TypeOK
  <2>3. CASE listeners # {}
    BY <1>3, <2>1, <2>3, ChargedType DEF Publish, TakeSnapshot, TypeOK
  <2>. QED
    BY <2>2, <2>3
<1>4. ASSUME NEW p \in Pubs, Invoke(p) PROVE TypeOK'
  <2>1. NextToCall(p) \in Ids
    BY <1>4, NextToCallIsLeast DEF Invoke, TypeOK
  <2>. QED
    BY <1>4, <2>1 DEF Invoke, TypeOK
<1>5. ASSUME NEW p \in Pubs, NEW outcome \in Outcomes, HandlerEnds(p, outcome)
      PROVE  TypeOK'
  BY <1>5 DEF HandlerEnds, TypeOK
<1>6. ASSUME NEW p \in Pubs, Finish(p) PROVE TypeOK'
  BY <1>6 DEF Finish, TypeOK
<1>7. ASSUME UNCHANGED vars PROVE TypeOK'
  BY <1>7 DEF vars, TypeOK
<1>. QED
  BY <1>1, <1>2, <1>3, <1>4, <1>5, <1>6, <1>7 DEF Next

(***************************************************************************)
(* For any bounds the table, the countdowns and the publish coroutines of  *)
(* an EventStream keep their types.                                        *)
(***************************************************************************)
THEOREM TypeCorrect == Spec => []TypeOK
BY InitTypeOK, NextTypeOK, PTL DEF Spec

-----------------------------------------------------------------------------
(***************************************************************************)
(* The inductive invariant.  What a publish has called is its audience     *)
(* without its snapshot, and everything called lies before everything      *)
(* still to be called; the handler it waits for is the last one called.    *)
(***************************************************************************)
Called(p) == audience[p] \ snapshot[p]

Dispatch(p) ==
  /\ pc[p] = "idle" <=> p > published
  /\ pc[p] = "idle" => audience[p] = {}
  /\ pc[p] = "done" => snapshot[p] = {}
  /\ snapshot[p] \subseteq audience[p]
  /\ \A i \in Ids : p \in delivered[i] <=> i \in Called(p)
  /\ \A i \in Called(p), j \in snapshot[p] : i < j
  /\ pc[p] = "handling" => current[p] \in Called(p) /\ \A i \in Called(p) : i <= current[p]
  /\ pc[p] # "handling" => current[p] = 0

(***************************************************************************)
(* Ids are given out in order; a limited subscription in the table has     *)
(* been charged once for each publish that took it.                        *)
(***************************************************************************)
Numbered ==
  /\ listeners \subseteq 1 .. insertId
  /\ \A p \in Pubs : audience[p] \subseteq 1 .. insertId

ChargedPerPublish ==
  \A i \in Ids : quota[i] > 0 =>
    /\ Cardinality(TakenBy(i)) <= quota[i]
    /\ i \in listeners => execHit[i] > 0 /\ Cardinality(TakenBy(i)) + execHit[i] = quota[i]

(***************************************************************************)
(* A publish keeps the thread except inside a handler that suspends, so    *)
(* what a later publish finds not yet called lies behind such a handler.   *)
(***************************************************************************)
ThreadHeld ==
  \A p \in Pubs : /\ pc[p] = "dispatch" => running = p
                  /\ pc[p] = "handling" /\ running # p => suspends[current[p]]

Overtakable ==
  \A p, q \in Pubs : p < q /\ pc[q] # "idle" =>
    \A i \in snapshot[p] : ~ BehindPromptHandlers(i)

IInv == /\ TypeOK
        /\ \A p \in Pubs : Dispatch(p)
        /\ Numbered
        /\ ChargedPerPublish
        /\ ThreadHeld
        /\ Overtakable

(***************************************************************************)
(* The inductive invariant holds of the empty table of a new EventStream.  *)
(***************************************************************************)
LEMMA InitIInv == Init => IInv
<1>. SUFFICES ASSUME Init PROVE IInv
  OBVIOUS
<1>1. TypeOK
  BY InitTypeOK
<1>2. ASSUME NEW p \in Pubs PROVE Dispatch(p)
  BY IdsAndPubs DEF Init, Dispatch, Called, Ids, Pubs
<1>3. Numbered /\ ThreadHeld /\ Overtakable
  BY DEF Init, Numbered, ThreadHeld, Overtakable
<1>4. ChargedPerPublish
  BY DEF Init, ChargedPerPublish
<1>. QED
  BY <1>1, <1>2, <1>3, <1>4 DEF IInv

(***************************************************************************)
(* Subscribing and unsubscribing leave the publishes alone.                *)
(***************************************************************************)
LEMMA SubscribeIInv ==
  ASSUME IInv, NEW hit \in 0 .. MaxHit, NEW slow \in BOOLEAN, Subscribe(hit, slow)
  PROVE  (\A p \in Pubs : Dispatch(p))' /\ (Numbered /\ ChargedPerPublish /\ ThreadHeld /\ Overtakable)'
<1>. USE BoundsAssumption, IdsAndPubs
<1>. DEFINE n == insertId + 1
<1>0. /\ TypeOK /\ insertId \in Nat /\ n \in Ids /\ n \notin listeners
      /\ \A p \in Pubs : n \notin audience[p] /\ audience[p] \subseteq 1 .. insertId
  BY DEF IInv, TypeOK, Numbered, Subscribe, Ids
<1>. USE <1>0
<1>1. \A p \in Pubs : Dispatch(p)'
  BY DEF IInv, Subscribe, Dispatch, Called
<1>2. Numbered'
  BY DEF IInv, Subscribe, Numbered
<1>3. ASSUME NEW i \in Ids, quota'[i] > 0
      PROVE  /\ Cardinality(TakenBy(i))' <= quota'[i]
             /\ i \in listeners' => /\ execHit'[i] > 0
                                    /\ Cardinality(TakenBy(i))' + execHit'[i] = quota'[i]
  <2>1. TakenBy(i)' = TakenBy(i)
    BY DEF Subscribe, TakenBy
  <2>2. CASE i = n
    <3>1. TakenBy(i) = {}
      BY <2>2 DEF TakenBy
    <3>2. Cardinality(TakenBy(i)) = 0
      BY <3>1, FS_EmptySet
    <3>3. execHit'[i] = hit /\ quota'[i] = hit /\ hit \in Nat
      BY <2>2 DEF Subscribe, TypeOK
    <3>. QED
      BY <1>3, <2>1, <3>2, <3>3
  <2>3. CASE i # n
    <3>1. quota'[i] = quota[i] /\ execHit'[i] = execHit[i] /\ (i \in listeners' <=> i \in listeners)
      BY <2>3 DEF Subscribe, TypeOK
    <3>. QED
      BY <1>3, <2>1, <3>1 DEF IInv, ChargedPerPublish
  <2>. QED
    BY <2>2, <2>3
<1>4. \A i \in Ids : i # n => suspends'[i] = suspends[i]
  BY DEF Subscribe, TypeOK
<1>5. ThreadHeld'
  BY <1>4 DEF IInv, Subscribe, ThreadHeld, Dispatch, Called
<1>6. Overtakable'
  BY <1>4 DEF IInv, Subscribe, Overtakable, BehindPromptHandlers, Dispatch
<1>. QED
  BY <1>1, <1>2, <1>3, <1>5, <1>6 DEF ChargedPerPublish

(***************************************************************************)
(* unsubscribe() takes an entry out of the table and leaves what           *)
(* overlapping publishes have copied of it: the invariant is kept.         *)
(***************************************************************************)
LEMMA UnsubscribeIInv ==
  ASSUME IInv, NEW k \in Ids, Unsubscribe(k)
  PROVE  (\A p \in Pubs : Dispatch(p))' /\ (Numbered /\ ChargedPerPublish /\ ThreadHeld /\ Overtakable)'
<1>1. \A p \in Pubs : Dispatch(p)'
  BY DEF IInv, Unsubscribe, Dispatch, Called
<1>2. Numbered' /\ ThreadHeld'
  BY DEF IInv, Unsubscribe, Numbered, ThreadHeld
<1>3. ChargedPerPublish'
  BY DEF IInv, Unsubscribe, ChargedPerPublish, TakenBy
<1>4. Overtakable'
  BY DEF IInv, Unsubscribe, Overtakable, BehindPromptHandlers
<1>. QED
  BY <1>1, <1>2, <1>3, <1>4

(***************************************************************************)
(* A publish takes the whole table: each subscription of it is charged     *)
(* once, and the publishes that are suspended are all behind a handler     *)
(* that suspends.                                                          *)
(***************************************************************************)
LEMMA PublishIInv ==
  ASSUME IInv, NEW p \in Pubs, Publish(p)
  PROVE  (\A q \in Pubs : Dispatch(q))' /\ (Numbered /\ ChargedPerPublish /\ ThreadHeld /\ Overtakable)'
<1>. USE IdsAndPubs
<1>0. /\ TypeOK /\ published \in Nat /\ pc[p] = "idle" /\ running = 0
      /\ audience[p] = {} /\ snapshot[p] = {} /\ \A i \in Ids : p \notin delivered[i]
  BY DEF IInv, TypeOK, Publish, Dispatch, Called
<1>. USE <1>0
<1>1. /\ audience' = [audience EXCEPT ![p] = listeners]
      /\ snapshot' = [snapshot EXCEPT ![p] = listeners]
      /\ pc' = [pc EXCEPT ![p] = IF listeners = {} THEN "done" ELSE "dispatch"]
      /\ published' = p /\ p = published + 1
      /\ UNCHANGED <<insertId, suspends, current, quota, delivered>>
  <2>1. CASE listeners = {}
    <3>1. [snapshot EXCEPT ![p] = listeners] = snapshot
      BY <2>1 DEF TypeOK
    <3>. QED
      BY <2>1, <3>1 DEF Publish
  <2>2. CASE listeners # {}
    BY <2>2 DEF Publish, TakeSnapshot
  <2>. QED
    BY <2>1, <2>2
<1>2. /\ listeners' = listeners \ Exhausted
      /\ \A i \in Ids : execHit'[i] = IF i \in listeners /\ execHit[i] > 0 THEN execHit[i] - 1
                                                                           ELSE execHit[i]
  <2>1. CASE listeners = {}
    BY <2>1 DEF Publish, Exhausted
  <2>2. CASE listeners # {}
    BY <2>2 DEF Publish, TakeSnapshot, Charged
  <2>. QED
    BY <2>1, <2>2
<1>3. ASSUME NEW q \in Pubs PROVE Dispatch(q)'
  <2>1. CASE q = p
    <3>1. /\ audience'[p] = listeners /\ snapshot'[p] = listeners /\ current'[p] = 0
          /\ pc'[p] \in {"done", "dispatch"} /\ (pc'[p] = "done" => listeners = {})
      BY <1>1 DEF TypeOK, IInv, Dispatch
    <3>. QED
      BY <1>1, <2>1, <3>1 DEF Dispatch, Called
  <2>2. CASE q # p
    BY <1>1, <2>2 DEF IInv, TypeOK, Dispatch, Called
  <2>. QED
    BY <2>1, <2>2
<1>4. Numbered'
  BY <1>1, <1>2 DEF IInv, Numbered, TypeOK
<1>5. ASSUME NEW i \in Ids, quota'[i] > 0
      PROVE  /\ Cardinality(TakenBy(i))' <= quota'[i]
             /\ i \in listeners' => /\ execHit'[i] > 0
                                    /\ Cardinality(TakenBy(i))' + execHit'[i] = quota'[i]
  <2>0. /\ IsFiniteSet(TakenBy(i)) /\ p \notin TakenBy(i) /\ Cardinality(TakenBy(i)) \in Nat
        /\ execHit[i] \in Nat /\ quota[i] \in Nat
    <3>1. TakenBy(i) \in SUBSET Pubs
      BY DEF TakenBy
    <3>2. IsFiniteSet(TakenBy(i))
      BY <3>1, FS_Subset
    <3>. QED
      BY <3>2, FS_CardinalityType DEF TakenBy, TypeOK
  <2>1. CASE i \in listeners
    <3>1. TakenBy(i)' = TakenBy(i) \cup {p}
      BY <1>1, <2>1 DEF TakenBy, TypeOK
    <3>2. Cardinality(TakenBy(i) \cup {p}) = Cardinality(TakenBy(i)) + 1
      BY <2>0, FS_AddElement
    <3>3. execHit[i] > 0 /\ Cardinality(TakenBy(i)) + execHit[i] = quota[i]
      BY <1>1, <1>5, <2>1 DEF IInv, ChargedPerPublish
    <3>4. execHit'[i] = execHit[i] - 1 /\ quota'[i] = quota[i]
      BY <1>1, <1>2, <2>1, <3>3
    <3>5. i \in listeners' => execHit[i] # 1
      BY <1>2 DEF Exhausted
    <3>. QED
      BY <2>0, <3>1, <3>2, <3>3, <3>4, <3>5
  <2>2. CASE i \notin listeners
    <3>1. TakenBy(i)' = TakenBy(i)
      BY <1>1, <2>2 DEF TakenBy, TypeOK
    <3>. QED
      BY <1>1, <1>2, <1>5, <2>2, <3>1 DEF IInv, ChargedPerPublish
  <2>. QED
    BY <2>1, <2>2
<1>6. \A q \in Pubs : pc[q] # "dispatch" /\ (pc[q] = "handling" => suspends[current[q]])
  BY DEF IInv, ThreadHeld
<1>7. ThreadHeld'
  <2>1. listeners # {} => running' = p
    BY DEF Publish
  <2>. QED
    BY <1>1, <1>6, <2>1 DEF ThreadHeld, TypeOK
<1>8. ASSUME NEW q \in Pubs, NEW r \in Pubs, q < r, pc'[r] # "idle", NEW i \in snapshot'[q]
      PROVE  ~ BehindPromptHandlers(i)'
  <2>1. r <= p
    BY <1>1, <1>8 DEF IInv, Dispatch, TypeOK
  <2>2. q # p /\ snapshot'[q] = snapshot[q]
    BY <1>1, <1>8, <2>1 DEF TypeOK
  <2>3. pc[q] \notin {"idle", "done", "dispatch"}
    BY <1>1, <1>6, <1>8, <2>1, <2>2 DEF IInv, Dispatch
  <2>4. pc[q] = "handling"
    BY <2>3 DEF TypeOK
  <2>5. current[q] \in Ids /\ current[q] < i /\ suspends[current[q]]
    BY <1>6, <1>8, <2>2, <2>4 DEF IInv, Dispatch, Called, TypeOK
  <2>. QED
    BY <1>1, <2>5 DEF BehindPromptHandlers
<1>9. Overtakable'
  BY <1>8 DEF Overtakable
<1>. QED
  BY <1>3, <1>4, <1>5, <1>7, <1>9 DEF ChargedPerPublish

(***************************************************************************)
(* Calling the next handler moves the least subscription from the snapshot *)
(* to the called ones; a handler that suspends gives the thread away.      *)
(***************************************************************************)
LEMMA InvokeIInv ==
  ASSUME IInv, NEW p \in Pubs, Invoke(p)
  PROVE  (\A q \in Pubs : Dispatch(q))' /\ (Numbered /\ ChargedPerPublish /\ ThreadHeld /\ Overtakable)'
<1>. USE IdsAndPubs
<1>. DEFINE k == NextToCall(p)
<1>0. TypeOK /\ Dispatch(p) /\ pc[p] = "dispatch" /\ running = p
  BY DEF IInv, Invoke
<1>1. /\ k \in snapshot[p] /\ k \in Ids /\ k \in audience[p]
      /\ \A j \in snapshot[p] : k <= j
  BY <1>0, NextToCallIsLeast DEF Invoke, TypeOK, Dispatch
<1>2. /\ snapshot' = [snapshot EXCEPT ![p] = @ \ {k}]
      /\ current' = [current EXCEPT ![p] = k]
      /\ delivered' = [delivered EXCEPT ![k] = @ \cup {p}]
      /\ running' = IF suspends[k] THEN 0 ELSE p
      /\ pc' = [pc EXCEPT ![p] = "handling"]
      /\ UNCHANGED <<insertId, listeners, execHit, suspends, published, quota, audience>>
  BY DEF Invoke
<1>. HIDE DEF k
<1>3. ASSUME NEW q \in Pubs PROVE Dispatch(q)'
  <2>1. CASE q = p
    <3>1. /\ Called(p)' = Called(p) \cup {k}
          /\ snapshot'[p] = snapshot[p] \ {k} /\ current'[p] = k /\ pc'[p] = "handling"
      BY <1>0, <1>1, <1>2 DEF Called, TypeOK
    <3>2. \A i \in Ids : p \in delivered'[i] <=> i \in Called(p)'
      BY <1>0, <1>1, <1>2, <3>1 DEF Dispatch, TypeOK
    <3>a. /\ snapshot[p] \in SUBSET Nat /\ Called(p) \in SUBSET Nat /\ k \in Nat
          /\ \A i \in Called(p), j \in snapshot[p] : i < j
      BY <1>0, <1>1 DEF Dispatch, Called, TypeOK
    <3>3. ASSUME NEW i \in Called(p)', NEW j \in snapshot'[p] PROVE i < j
      <4>1. j \in snapshot[p] /\ j # k /\ k <= j
        BY <1>1, <3>1
      <4>2. i \in Called(p) \/ i = k
        BY <3>1
      <4>. QED
        BY <3>a, <4>1, <4>2
    <3>4. ASSUME NEW i \in Called(p)' PROVE i <= k
      <4>1. i \in Called(p) \/ i = k
        BY <3>1
      <4>. QED
        BY <1>1, <3>a, <4>1
    <3>. QED
      BY <1>0, <1>1, <1>2, <2>1, <3>1, <3>2, <3>3, <3>4 DEF Dispatch
  <2>2. CASE q # p
    <3>1. \A i \in Ids : q \in delivered'[i] <=> q \in delivered[i]
      BY <1>0, <1>1, <1>2, <2>2 DEF TypeOK
    <3>. QED
      BY <1>0, <1>2, <2>2, <3>1 DEF IInv, Dispatch, Called, TypeOK
  <2>. QED
    BY <2>1, <2>2
<1>4. Numbered' /\ ChargedPerPublish'
  BY <1>2 DEF IInv, Numbered, ChargedPerPublish, TakenBy
<1>5. ASSUME NEW q \in Pubs
      PROVE  /\ pc'[q] = "dispatch" => running' = q
             /\ pc'[q] = "handling" /\ running' # q => suspends'[current'[q]]
  <2>1. CASE q = p
    BY <1>0, <1>1, <1>2, <2>1 DEF TypeOK
  <2>2. CASE q # p
    BY <1>0, <1>2, <2>2 DEF IInv, ThreadHeld, TypeOK
  <2>. QED
    BY <2>1, <2>2
<1>6. \A q \in Pubs : snapshot'[q] \subseteq snapshot[q] /\ (pc'[q] # "idle" => pc[q] # "idle")
  BY <1>0, <1>2 DEF TypeOK
<1>7. Overtakable'
  BY <1>2, <1>6 DEF IInv, Overtakable, BehindPromptHandlers
<1>. QED
  BY <1>3, <1>4, <1>5, <1>7 DEF ThreadHeld

(***************************************************************************)
(* A handler returns or throws, the publish takes the thread back and goes *)
(* on with its snapshot: the invariant is kept.                            *)
(***************************************************************************)
LEMMA HandlerEndsIInv ==
  ASSUME IInv, NEW p \in Pubs, NEW outcome \in Outcomes, HandlerEnds(p, outcome)
  PROVE  (\A q \in Pubs : Dispatch(q))' /\ (Numbered /\ ChargedPerPublish /\ ThreadHeld /\ Overtakable)'
<1>. USE IdsAndPubs
<1>0. TypeOK
  BY DEF IInv
<1>1. \A q \in Pubs : Dispatch(q)'
  BY <1>0 DEF IInv, HandlerEnds, Dispatch, Called, TypeOK
<1>2. Numbered' /\ ChargedPerPublish'
  BY DEF IInv, HandlerEnds, Numbered, ChargedPerPublish, TakenBy
<1>3. ThreadHeld'
  BY <1>0 DEF IInv, HandlerEnds, ThreadHeld, TypeOK
<1>4. Overtakable'
  BY <1>0 DEF IInv, HandlerEnds, Overtakable, BehindPromptHandlers, TypeOK
<1>. QED
  BY <1>1, <1>2, <1>3, <1>4

(***************************************************************************)
(* A publish whose snapshot is used up ends and leaves the thread: the     *)
(* invariant is kept.                                                      *)
(***************************************************************************)
LEMMA FinishIInv ==
  ASSUME IInv, NEW p \in Pubs, Finish(p)
  PROVE  (\A q \in Pubs : Dispatch(q))' /\ (Numbered /\ ChargedPerPublish /\ ThreadHeld /\ Overtakable)'
<1>. USE IdsAndPubs
<1>0. TypeOK
  BY DEF IInv
<1>1. \A q \in Pubs : Dispatch(q)'
  BY <1>0 DEF IInv, Finish, Dispatch, Called, TypeOK
<1>2. Numbered' /\ ChargedPerPublish'
  BY DEF IInv, Finish, Numbered, ChargedPerPublish, TakenBy
<1>3. ThreadHeld'
  BY <1>0 DEF IInv, Finish, ThreadHeld, TypeOK
<1>4. Overtakable'
  BY <1>0 DEF IInv, Finish, Overtakable, BehindPromptHandlers, TypeOK
<1>. QED
  BY <1>1, <1>2, <1>3, <1>4

(***************************************************************************)
(* Every operation of the stream, and every stutter, keeps the inductive   *)
(* invariant.                                                              *)
(***************************************************************************)
LEMMA NextIInv == IInv /\ [Next]_vars => IInv'
<1>. SUFFICES ASSUME IInv, [Next]_vars PROVE IInv'
  OBVIOUS
<1>0. TypeOK'
  BY NextTypeOK DEF IInv
<1>. DEFINE Rest == (\A p \in Pubs : Dispatch(p)) /\ Numbered /\ ChargedPerPublish /\ ThreadHeld /\ Overtakable
<1>1. ASSUME NEW hit \in 0 .. MaxHit, NEW slow \in BOOLEAN, Subscribe(hit, slow) PROVE Rest'
  BY <1>1, SubscribeIInv
<1>2. ASSUME NEW i \in Ids, Unsubscribe(i) PROVE Rest'
  BY <1>2, UnsubscribeIInv
<1>3. ASSUME NEW p \in Pubs, Publish(p) PROVE Rest'
  BY <1>3, PublishIInv
<1>4. ASSUME NEW p \in Pubs, Invoke(p) PROVE Rest'
  BY <1>4, InvokeIInv
<1>5. ASSUME NEW p \in Pubs, NEW outcome \in Outcomes, HandlerEnds(p, outcome) PROVE Rest'
  BY <1>5, HandlerEndsIInv
<1>6. ASSUME NEW p \in Pubs, Finish(p) PROVE Rest'
  BY <1>6, FinishIInv
<1>7. ASSUME UNCHANGED vars PROVE Rest'
  <2>1. \A p \in Pubs : Dispatch(p)'
    BY <1>7 DEF vars, IInv, Dispatch, Called
  <2>2. Numbered' /\ ChargedPerPublish' /\ ThreadHeld' /\ Overtakable'
    BY <1>7 DEF vars, IInv, Numbered, ChargedPerPublish, TakenBy, ThreadHeld, Overtakable, BehindPromptHandlers
  <2>. QED
    BY <2>1, <2>2
<1>8. Rest'
  BY <1>1, <1>2, <1>3, <1>4, <1>5, <1>6, <1>7 DEF Next
<1>. QED
  BY <1>0, <1>8 DEF IInv

(***************************************************************************)
(* The inductive invariant holds in every state of an EventStream.         *)
(***************************************************************************)
LEMMA Inductive == Spec => []IInv
BY InitIInv, NextIInv, PTL DEF Spec

-----------------------------------------------------------------------------
(***************************************************************************)
(* A subscription made for n publishes is called for at most n, whatever   *)
(* publishes overlap, subscribers leave or handlers throw: publish()'s     *)
(* countdown and erasure, for any number of subscriptions and publishes.   *)
(***************************************************************************)
THEOREM LimitedSubscriptionCorrect == Spec => []LimitedSubscription
<1>1. IInv => LimitedSubscription
  <2>. SUFFICES ASSUME IInv, NEW i \in Ids, quota[i] > 0
                PROVE  /\ Cardinality(TakenBy(i)) <= quota[i]
                       /\ delivered[i] \subseteq TakenBy(i)
                       /\ i \in listeners => execHit[i] > 0 /\ Cardinality(TakenBy(i)) + execHit[i] = quota[i]
    BY DEF LimitedSubscription
  <2>1. delivered[i] \subseteq TakenBy(i)
    BY DEF IInv, TypeOK, Dispatch, Called, TakenBy
  <2>. QED
    BY <2>1 DEF IInv, ChargedPerPublish
<1>. QED
  BY <1>1, Inductive, PTL

(***************************************************************************)
(* A publish that has returned called exactly the handlers subscribed when *)
(* it began: publish()'s snapshot and its catch clauses.                   *)
(***************************************************************************)
THEOREM DeliveredToAudienceCorrect == Spec => []DeliveredToAudience
<1>1. IInv => DeliveredToAudience
  BY DEF IInv, TypeOK, Dispatch, Called, DeliveredToAudience
<1>. QED
  BY <1>1, Inductive, PTL

(***************************************************************************)
(* Within one publish, handlers are called in subscription order, each     *)
(* after the one before it has ended: the awaited loop over the snapshot.  *)
(***************************************************************************)
THEOREM SubscriptionOrderCorrect == Spec => []SubscriptionOrder
<1>1. IInv => SubscriptionOrder
  <2>. SUFFICES ASSUME IInv, NEW p \in Pubs, NEW j \in Ids, p \in delivered[j],
                       NEW i \in audience[p], i < j
                PROVE  p \in delivered[i] /\ current[p] # i
    BY DEF SubscriptionOrder
  <2>1. j \in Called(p) /\ i \in Ids /\ Dispatch(p) /\ j \in Nat /\ i \in Nat /\ i # 0
    BY IdsAndPubs DEF IInv, TypeOK, Dispatch
  <2>2. i \notin snapshot[p]
    BY <2>1 DEF Dispatch
  <2>3. current[p] # i
    BY <2>1 DEF Dispatch
  <2>. QED
    BY <2>1, <2>2, <2>3 DEF Dispatch, Called
<1>. QED
  BY <1>1, Inductive, PTL

(***************************************************************************)
(* A handler with nobody suspending before it gets the messages in the     *)
(* order of the publish() calls: what EventBridge relies on for tokens.    *)
(***************************************************************************)
THEOREM PublishOrderCorrect == Spec => PublishOrder
<1>. DEFINE InOrder == \A i \in Ids : BehindPromptHandlers(i) =>
                         \A p \in delivered'[i] \ delivered[i], q \in delivered[i] : q < p
<1>1. ASSUME IInv, [Next]_vars PROVE [InOrder]_vars
  <2>. SUFFICES ASSUME NEW i \in Ids, BehindPromptHandlers(i), Next,
                       NEW p \in delivered'[i] \ delivered[i], NEW q \in delivered[i]
                PROVE  q < p
    BY <1>1
  <2>. USE <1>1, IdsAndPubs
  <2>0. TypeOK
    BY DEF IInv
  <2>1. PICK r \in Pubs : Invoke(r)
    BY DEF Next, Subscribe, Unsubscribe, Publish, HandlerEnds, Finish
  <2>2. r = p /\ i = NextToCall(p)
    BY <2>0, <2>1 DEF Invoke, TypeOK
  <2>3. i \in snapshot[p] /\ p \in Nat /\ p \in Pubs
    BY <2>0, <2>1, <2>2, NextToCallIsLeast DEF Invoke
  <2>4. q \in Nat /\ q \in Pubs /\ pc[q] # "idle" /\ q # p
    BY <2>0, <2>3 DEF IInv, TypeOK, Dispatch, Called
  <2>5. ~ (p < q)
    BY <2>3, <2>4 DEF IInv, Overtakable
  <2>. QED
    BY <2>3, <2>4, <2>5
<1>. QED
  BY <1>1, Inductive, PTL DEF Spec, PublishOrder

-----------------------------------------------------------------------------
(***************************************************************************)
(* An event stream implements Broadcast, step by step.  A subscription     *)
(* made without a limit keeps execHit = 0, which is never counted down.    *)
(***************************************************************************)
Permanent == \A i \in listeners : quota[i] = 0 => execHit[i] = 0

(***************************************************************************)
(* A permanent subscription in the table is never counted: its execHit     *)
(* stays 0 in every publish().                                             *)
(***************************************************************************)
LEMMA NextPermanent == IInv /\ Permanent /\ [Next]_vars => Permanent'
<1>. SUFFICES ASSUME IInv, Permanent, [Next]_vars PROVE Permanent'
  OBVIOUS
<1>0. TypeOK
  BY DEF IInv
<1>1. ASSUME NEW hit \in 0 .. MaxHit, NEW slow \in BOOLEAN, Subscribe(hit, slow) PROVE Permanent'
  <2>1. insertId' \in Ids
    BY <1>0, <1>1, BoundsAssumption DEF Subscribe, TypeOK, Ids
  <2>. QED
    BY <1>0, <1>1, <2>1 DEF Subscribe, Permanent, TypeOK
<1>2. ASSUME NEW i \in Ids, Unsubscribe(i) PROVE Permanent'
  BY <1>2 DEF Unsubscribe, Permanent
<1>3. ASSUME NEW p \in Pubs, Publish(p) PROVE Permanent'
  BY <1>0, <1>3 DEF Publish, TakeSnapshot, Charged, Permanent, TypeOK
<1>4. ASSUME UNCHANGED <<listeners, execHit, quota>> PROVE Permanent'
  BY <1>4 DEF Permanent
<1>. QED
  BY <1>1, <1>2, <1>3, <1>4 DEF Next, Invoke, HandlerEnds, Finish, vars

(***************************************************************************)
(* A new EventStream maps to a new group of Broadcast.                     *)
(***************************************************************************)
LEMMA InitBroadcasts == Init => Group!Init
BY DEF Init, Group!Init

(***************************************************************************)
(* Every step of the stream maps to a step of Broadcast or is invisible    *)
(* there: subscribe joins, unsubscribe leaves, the snapshot sends, a call  *)
(* of a handler gives.                                                     *)
(***************************************************************************)
LEMMA StepBroadcasts ==
  IInv /\ Permanent /\ [Next]_vars => [Group!Next]_(Group!vars)
<1>. SUFFICES ASSUME IInv, Permanent, [Next]_vars PROVE Group!Next \/ UNCHANGED Group!vars
  OBVIOUS
<1>a. TypeOK /\ insertId \in Nat
  BY DEF IInv, TypeOK
<1>. USE <1>a, IdsAndPubs
<1>1. ASSUME UNCHANGED <<insertId, listeners, quota, audience, delivered>> PROVE UNCHANGED Group!vars
  BY <1>1 DEF Group!vars
<1>2. ASSUME NEW hit \in 0 .. MaxHit, NEW slow \in BOOLEAN, Subscribe(hit, slow)
      PROVE  Group!Join(insertId', hit)
  <2>1. insertId' \in Ids \ (1 .. insertId) /\ 1 .. insertId' = (1 .. insertId) \cup {insertId'}
    BY <1>2, BoundsAssumption DEF Subscribe, TypeOK, Ids
  <2>. QED
    BY <1>2, <2>1 DEF Subscribe, Group!Join
<1>3. ASSUME NEW i \in Ids, Unsubscribe(i) PROVE Group!Leave(i)
  BY <1>3 DEF Unsubscribe, Group!Leave
<1>4. ASSUME NEW p \in Pubs, Publish(p), listeners = {} PROVE UNCHANGED Group!vars
  <2>1. audience[p] = {}
    BY <1>4 DEF Publish, IInv, TypeOK, Dispatch
  <2>2. audience' = audience
    BY <1>4, <2>1 DEF Publish, TypeOK
  <2>. QED
    BY <1>1, <1>4, <2>2 DEF Publish
<1>5. ASSUME NEW p \in Pubs, Publish(p), listeners # {} PROVE Group!Send(p)
  <2>1. audience[p] = {}
    BY <1>5 DEF Publish, IInv, TypeOK, Dispatch
  <2>2. ASSUME NEW i \in listeners
        PROVE  execHit[i] # 1 <=> quota[i] = 0 \/ Group!Count(i) + 1 < quota[i]
    <3>1. i \in Ids /\ execHit[i] \in Nat /\ quota[i] \in Nat
      BY DEF TypeOK
    <3>a. TakenBy(i) \in SUBSET Pubs
      BY DEF TakenBy
    <3>2. Group!Count(i) = Cardinality(TakenBy(i))
      <4>1. {m \in Pubs : i \in audience[m]} = TakenBy(i)
        BY DEF TakenBy
      <4>2. Group!Count(i) = Cardinality({m \in Pubs : i \in audience[m]})
        BY Zenon DEF Group!Count, Group!Cardinality, Cardinality
      <4>. QED
        BY <4>1, <4>2
    <3>3. Group!Count(i) \in Nat
      BY <3>a, <3>2, FS_Subset, FS_CardinalityType
    <3>4. quota[i] > 0 => execHit[i] > 0 /\ Group!Count(i) + execHit[i] = quota[i]
      BY <3>1, <3>2 DEF IInv, ChargedPerPublish
    <3>5. quota[i] = 0 => execHit[i] = 0
      BY DEF Permanent
    <3>. QED
      BY <3>1, <3>3, <3>4, <3>5
  <2>3. listeners \ Exhausted = {i \in listeners : quota[i] = 0 \/ Group!Count(i) + 1 < quota[i]}
    BY <2>2 DEF Exhausted
  <2>. QED
    BY <1>5, <2>1, <2>3 DEF Publish, TakeSnapshot, Group!Send
<1>6. ASSUME NEW p \in Pubs, Invoke(p) PROVE Group!Give(p, NextToCall(p))
  <2>1. NextToCall(p) \in snapshot[p] /\ NextToCall(p) \in Ids
    BY <1>6, NextToCallIsLeast DEF Invoke, TypeOK
  <2>2. NextToCall(p) \in audience[p] /\ p \notin delivered[NextToCall(p)]
    BY <2>1 DEF IInv, Dispatch, Called
  <2>. QED
    BY <1>6, <2>1, <2>2 DEF Invoke, Group!Give
<1>7. ASSUME NEW p \in Pubs, Invoke(p) PROVE NextToCall(p) \in Ids
  BY <1>7, NextToCallIsLeast DEF Invoke, TypeOK
<1>8. ASSUME NEW p \in Pubs, Finish(p) \/ \E outcome \in Outcomes : HandlerEnds(p, outcome)
      PROVE  UNCHANGED Group!vars
  BY <1>1, <1>8 DEF Finish, HandlerEnds
<1>9. CASE UNCHANGED vars
  BY <1>1, <1>9 DEF vars
<1>10. ASSUME NEW hit \in 0 .. MaxHit, NEW slow \in BOOLEAN, Subscribe(hit, slow)
       PROVE  insertId' \in Ids
  BY <1>10, BoundsAssumption DEF Subscribe, TypeOK, Ids
<1>. QED
  BY <1>2, <1>3, <1>4, <1>5, <1>6, <1>7, <1>8, <1>9, <1>10 DEF Next, Group!Next

(***************************************************************************)
(* Counting execHit down and erasing at zero is leaving the group after    *)
(* the n-th message: every behaviour of the stream, for any bounds, starts *)
(* as Broadcast starts and takes Broadcast's steps.                        *)
(***************************************************************************)
THEOREM Broadcasts == Spec => Group!Init /\ [][Group!Next]_(Group!vars)
<1>1. Init => Permanent
  BY DEF Init, Permanent
<1>. QED
  BY <1>1, NextPermanent, InitBroadcasts, StepBroadcasts, Inductive, PTL DEF Spec
=============================================================================
