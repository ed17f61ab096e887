---------------------- MODULE SubagentSupervisor_proofs ----------------------
(***************************************************************************)
(* Proofs about SubagentSupervisor for any subagents and any number of     *)
(* requests, tasks and lost runs: the types, and that what callers and     *)
(* other agents are told of runs is true.                                  *)
(***************************************************************************)
EXTENDS SubagentSupervisor, FiniteSetTheorems, SequenceTheorems, TLAPS

Outcomes == {"ok", "failed"}
States   == {"none", "ready", "running", "lost"} \cup Outcomes

(***************************************************************************)
(* The types, with no bound on the messages of a batch: that there are no  *)
(* more of them than tasks follows from Counted.                           *)
(***************************************************************************)
RunTypes ==
  /\ asked \in Nat
  /\ form \in [Requests -> {"single", "batch"}]
  /\ tasks \in [Requests -> Batches]
  /\ run \in [Requests -> [Places -> States]]
  /\ received \in [Requests -> Nat]

AnswerTypes ==
  /\ caller \in [Requests -> {"unused", "waiting", "answered", "timedout"}]
  /\ server \in [Requests -> {"none", "working", "done"}]
  /\ results \in [Requests -> Seq(Items)]
  /\ response \in [Requests -> Seq(Items)]

(***************************************************************************)
(* What holds of each request.  Unasked: a number not given yet is blank.  *)
(* Single: a single request has one task.  Stored: each run of a batch     *)
(* that ended has its item in its place.  Counted: a batch has had one     *)
(* message for each of these runs.  Told: an answer has them all.          *)
(***************************************************************************)
EndedOf(r) == {k \in TasksOf(r) : run[r][k] \in Outcomes}

Unasked(r) == r > asked => /\ tasks[r] = <<>> /\ response[r] = <<>>
                           /\ received[r] = 0 /\ caller[r] = "unused"

Single(r) == form[r] = "single" => Len(tasks[r]) \in {0, 1}

Stored(r) ==
  form[r] = "batch" =>
    /\ Len(results[r]) = Len(tasks[r])
    /\ \A k \in EndedOf(r) : results[r][k] = Item(k, run[r][k])

Counted(r) == received[r] = IF form[r] = "batch" THEN Cardinality(EndedOf(r)) ELSE 0

Told(r) ==
  caller[r] = "answered" =>
    /\ Len(response[r]) = Len(tasks[r])
    /\ \A k \in TasksOf(r) : k \in EndedOf(r) /\ response[r][k] = Item(k, run[r][k])

Request(r) == Unasked(r) /\ Single(r) /\ Stored(r) /\ Counted(r) /\ Told(r)

(***************************************************************************)
(* What holds of the registry: each name in it has a run that goes on or   *)
(* was lost, and a run that goes on and is the only one of its name has    *)
(* its name there.                                                         *)
(***************************************************************************)
Runs(r, k, name) == k \in TasksOf(r) /\ tasks[r][k] = name

Backed ==
  \A name \in registry : \E r \in Requests : \E k \in TasksOf(r) :
    Runs(r, k, name) /\ run[r][k] \in {"running", "lost"}

Alone(r, k) ==
  \A q \in Requests : \A j \in TasksOf(q) : Runs(q, j, tasks[r][k]) => q = r /\ j = k

Found ==
  \A r \in Requests : \A k \in TasksOf(r) :
    run[r][k] = "running" /\ Alone(r, k) => tasks[r][k] \in registry

Registry == registry \subseteq Names /\ Backed /\ Found

IInv == RunTypes /\ AnswerTypes /\ (\A r \in Requests : Request(r)) /\ Registry

-----------------------------------------------------------------------------
(***************************************************************************)
(* The names of a batch are a sequence no longer than MaxTasks.            *)
(***************************************************************************)
LEMMA BatchIsSeq ==
  ASSUME NEW names \in Batches
  PROVE  /\ names \in Seq(AllNames) /\ Len(names) \in Nat /\ Len(names) <= MaxTasks
         /\ 1 .. Len(names) \subseteq Places
         /\ \A k \in 1 .. Len(names) : names[k] \in AllNames
<1>1. PICK n \in 0 .. MaxTasks : names \in [1 .. n -> AllNames]
  BY DEF Batches
<1>2. n \in Nat /\ n <= MaxTasks
  BY BoundsAssumption
<1>3. names \in Seq(AllNames) /\ Len(names) = n
  BY <1>1, <1>2
<1>. QED
  BY <1>1, <1>2, <1>3, BoundsAssumption DEF Places

(***************************************************************************)
(* The tasks of a request are places, and their names are known or not.    *)
(***************************************************************************)
LEMMA TasksArePlaces ==
  ASSUME RunTypes, NEW r \in Requests
  PROVE  /\ Len(tasks[r]) \in Nat /\ Len(tasks[r]) <= MaxTasks
         /\ TasksOf(r) \subseteq Places
         /\ \A k \in TasksOf(r) : tasks[r][k] \in AllNames
<1>1. tasks[r] \in Batches
  BY DEF RunTypes
<1>. QED
  BY <1>1, BatchIsSeq DEF TasksOf

(***************************************************************************)
(* The runs of a request that ended are finitely many.                     *)
(***************************************************************************)
LEMMA EndedFinite ==
  ASSUME RunTypes, NEW r \in Requests
  PROVE  /\ IsFiniteSet(TasksOf(r)) /\ Cardinality(TasksOf(r)) = Len(tasks[r])
         /\ IsFiniteSet(EndedOf(r)) /\ Cardinality(EndedOf(r)) \in Nat
         /\ Cardinality(EndedOf(r)) <= Len(tasks[r])
         /\ Cardinality(EndedOf(r)) = Len(tasks[r]) => EndedOf(r) = TasksOf(r)
<1>1. Len(tasks[r]) \in Nat
  BY TasksArePlaces
<1>2. IsFiniteSet(TasksOf(r)) /\ Cardinality(TasksOf(r)) = Len(tasks[r])
  BY <1>1, FS_Interval DEF TasksOf
<1>3. EndedOf(r) \in SUBSET TasksOf(r)
  BY DEF EndedOf
<1>. QED
  BY <1>2, <1>3, FS_Subset, FS_CardinalityType

(***************************************************************************)
(* What is recorded of a run is an item.                                   *)
(***************************************************************************)
LEMMA ItemType ==
  ASSUME NEW k \in Places, NEW outcome
  PROVE  Item(k, outcome) \in Items
BY BoundsAssumption DEF Item, Items, Places

-----------------------------------------------------------------------------
(***************************************************************************)
(* The invariant gives the types and the property.                         *)
(***************************************************************************)
LEMMA IInvTypeOK == IInv /\ asked <= MaxRequests => TypeOK
<1>. SUFFICES ASSUME IInv, asked <= MaxRequests PROVE TypeOK
  OBVIOUS
<1>1. RunTypes /\ AnswerTypes /\ registry \in SUBSET Names
  BY DEF IInv, Registry
<1>2. ASSUME NEW r \in Requests PROVE received[r] \in 0 .. MaxTasks
  <2>1. Counted(r)
    BY DEF IInv, Request
  <2>. QED
    BY <1>1, <2>1, EndedFinite, TasksArePlaces, BoundsAssumption DEF Counted
<1>3. received \in [Requests -> 0 .. MaxTasks]
  BY <1>1, <1>2 DEF RunTypes
<1>4. asked \in 0 .. MaxRequests
  BY <1>1, BoundsAssumption DEF RunTypes
<1>5. run \in [Requests -> [Places -> {"none", "ready", "running", "ok", "failed", "lost"}]]
  <2>1. States = {"none", "ready", "running", "ok", "failed", "lost"}
    BY DEF States, Outcomes
  <2>. QED
    BY <1>1, <2>1 DEF RunTypes
<1>. QED
  BY <1>1, <1>3, <1>4, <1>5 DEF RunTypes, AnswerTypes, TypeOK

\* What answers hold and whom the registry names is true of the runs.
LEMMA IInvAccounted == IInv => RunsAccounted
<1>. SUFFICES ASSUME IInv PROVE RunsAccounted
  OBVIOUS
<1>1. RunTypes
  BY DEF IInv
<1>2. BatchInOrder
  <2>. SUFFICES ASSUME NEW r \in Requests, caller[r] = "answered"
                PROVE  /\ Len(response[r]) = Len(tasks[r])
                       /\ \A k \in TasksOf(r) :
                            /\ response[r][k].of = k
                            /\ run[r][k] = IF response[r][k].ok THEN "ok" ELSE "failed"
    BY DEF BatchInOrder
  <2>1. Len(response[r]) = Len(tasks[r])
    BY DEF IInv, Request, Told
  <2>2. ASSUME NEW k \in TasksOf(r)
        PROVE  /\ response[r][k].of = k
               /\ run[r][k] = IF response[r][k].ok THEN "ok" ELSE "failed"
    <3>1. run[r][k] \in Outcomes /\ response[r][k] = Item(k, run[r][k])
      BY <2>2 DEF IInv, Request, Told, EndedOf
    <3>2. CASE run[r][k] = "ok"
      <4>1. Item(k, "ok").of = k /\ Item(k, "ok").ok
        BY DEF Item
      <4>. QED
        BY <3>1, <3>2, <4>1
    <3>3. CASE run[r][k] = "failed"
      <4>1. Item(k, "failed").of = k /\ ~Item(k, "failed").ok
        BY DEF Item
      <4>. QED
        BY <3>1, <3>3, <4>1
    <3>. QED
      BY <3>1, <3>2, <3>3 DEF Outcomes
  <2>. QED
    BY <2>1, <2>2
<1>3. ASSUME NEW name \in registry PROVE RunsOf(name) \cap (Running \cup Lost) # {}
  <2>1. PICK r \in Requests : \E k \in TasksOf(r) :
               Runs(r, k, name) /\ run[r][k] \in {"running", "lost"}
    BY <1>3 DEF IInv, Registry, Backed
  <2>2. PICK k \in TasksOf(r) : Runs(r, k, name) /\ run[r][k] \in {"running", "lost"}
    BY <2>1
  <2>3. <<r, k>> \in Requests \X Places
    BY <1>1, <2>2, TasksArePlaces
  <2>4. <<r, k>> \in RunsOf(name)
    BY <2>2, <2>3 DEF RunsOf, Runs
  <2>5. <<r, k>> \in Running \/ <<r, k>> \in Lost
    BY <2>2, <2>3 DEF Running, Lost
  <2>. QED
    BY <2>4, <2>5
<1>4. ASSUME NEW name \in Names,
             RunsOf(name) \cap Running # {}, Cardinality(RunsOf(name)) = 1
      PROVE  name \in registry
  <2>1. IsFiniteSet(RunsOf(name))
    <3>1. IsFiniteSet(Requests) /\ IsFiniteSet(Places)
      BY FS_Interval, BoundsAssumption DEF Requests, Places
    <3>2. IsFiniteSet(Requests \X Places)
      BY <3>1, FS_Product
    <3>3. RunsOf(name) \in SUBSET (Requests \X Places)
      BY DEF RunsOf
    <3>. QED
      BY <3>2, <3>3, FS_Subset
  <2>2. PICK x : RunsOf(name) = {x}
    BY <1>4, <2>1, FS_Singleton
  <2>3. x \in RunsOf(name) /\ x \in Running
    BY <1>4, <2>2
  <2>4. PICK r \in Requests, k \in Places :
          x = <<r, k>> /\ run[r][k] = "running" /\ k \in TasksOf(r) /\ tasks[r][k] = name
    BY <2>3 DEF RunsOf, Running
  <2>5. Alone(r, k)
    <3>. SUFFICES ASSUME NEW q \in Requests, NEW j \in TasksOf(q), Runs(q, j, tasks[r][k])
                  PROVE  q = r /\ j = k
      BY DEF Alone
    <3>1. j \in Places
      BY <1>1, TasksArePlaces
    <3>2. <<q, j>> \in RunsOf(name)
      BY <2>4, <3>1 DEF RunsOf, Runs
    <3>3. <<q, j>> = <<r, k>>
      BY <2>2, <2>4, <3>2
    <3>. QED
      BY <3>3
  <2>. QED
    BY <2>4, <2>5 DEF IInv, Registry, Found
<1>. QED
  BY <1>2, <1>3, <1>4 DEF RunsAccounted, RegistryBacked

-----------------------------------------------------------------------------
(***************************************************************************)
(* A new supervisor satisfies the invariant.                               *)
(***************************************************************************)
LEMMA InitIInv == Init => IInv
<1>. SUFFICES ASSUME Init PROVE IInv
  OBVIOUS
<1>1. <<>> \in Batches
  <2>1. <<>> \in [1 .. 0 -> AllNames]
    OBVIOUS
  <2>. QED
    BY <2>1, BoundsAssumption DEF Batches
<1>2. RunTypes
  BY <1>1 DEF Init, RunTypes, States
<1>3. AnswerTypes
  BY DEF Init, AnswerTypes
<1>4. ASSUME NEW r \in Requests PROVE Request(r) /\ TasksOf(r) = {}
  <2>1. TasksOf(r) = {}
    BY DEF Init, TasksOf
  <2>. QED
    BY <2>1 DEF Init, Request, Unasked, Single, Stored, Counted, Told
<1>5. Registry
  BY <1>4 DEF Init, Registry, Backed, Found
<1>. QED
  BY <1>2, <1>3, <1>4, <1>5 DEF IInv

(***************************************************************************)
(* A run that had not ended ends with an outcome and reports it: the       *)
(* types, and what holds of each request, are kept.                        *)
(***************************************************************************)
Ending(r, k, outcome) ==
  /\ k \in TasksOf(r)
  /\ run[r][k] \in {"ready", "running"}
  /\ run' = [run EXCEPT ![r][k] = outcome]
  /\ Report(r, k, outcome)
  /\ UNCHANGED <<asked, form, tasks>>

\* The types after a run has ended.
LEMMA EndingTypes ==
  ASSUME RunTypes, AnswerTypes, NEW r \in Requests, NEW k \in Places,
         NEW outcome \in Outcomes, Ending(r, k, outcome), Request(r)
  PROVE  RunTypes' /\ AnswerTypes'
<1>1. run' \in [Requests -> [Places -> States]]
  BY DEF Ending, RunTypes, States
<1>2. Item(k, outcome) \in Items
  BY ItemType
<1>3. CASE form[r] = "single"
  <2>1. Answer(r, <<Item(k, outcome)>>) /\ UNCHANGED <<results, received>>
    BY <1>3 DEF Ending, Report
  <2>2. <<Item(k, outcome)>> \in Seq(Items)
    BY <1>2
  <2>3. RunTypes'
    BY <1>1, <2>1 DEF Ending, RunTypes
  <2>4. AnswerTypes'
    BY <2>1, <2>2 DEF Answer, AnswerTypes
  <2>. QED
    BY <2>3, <2>4
<1>4. CASE form[r] = "batch"
  <2>1. /\ results' = [results EXCEPT ![r][k] = Item(k, outcome)]
        /\ received' = [received EXCEPT ![r] = received[r] + 1]
        /\ UNCHANGED <<caller, server, response>>
    BY <1>4 DEF Ending, Report, Store, Sent
  <2>2. results[r] \in Seq(Items) /\ k \in 1 .. Len(results[r])
    BY <1>4 DEF Ending, Request, Stored, AnswerTypes, TasksOf
  <2>3. [results[r] EXCEPT ![k] = Item(k, outcome)] \in Seq(Items)
    BY <1>2, <2>2, ExceptSeq
  <2>4. results' = [results EXCEPT ![r] = [results[r] EXCEPT ![k] = Item(k, outcome)]]
    BY <2>1
  <2>5. results' \in [Requests -> Seq(Items)]
    BY <2>3, <2>4 DEF AnswerTypes
  <2>6. AnswerTypes'
    BY <2>1, <2>5 DEF AnswerTypes
  <2>7. RunTypes'
    BY <1>1, <2>1 DEF Ending, RunTypes
  <2>. QED
    BY <2>6, <2>7
<1>. QED
  BY <1>3, <1>4 DEF RunTypes

\* What holds of the request whose run ended: its result stands in its place and is counted.
LEMMA EndingRequest ==
  ASSUME RunTypes, AnswerTypes, NEW r \in Requests, NEW k \in Places,
         NEW outcome \in Outcomes, Ending(r, k, outcome), Request(r)
  PROVE  Request(r)'
<1>1. /\ asked' = asked /\ form'[r] = form[r] /\ tasks'[r] = tasks[r]
      /\ run'[r] = [run[r] EXCEPT ![k] = outcome]
      /\ k \in TasksOf(r) /\ run[r][k] \notin Outcomes
  BY DEF Ending, RunTypes, Outcomes
<1>2. \A j \in Places : run'[r][j] = IF j = k THEN outcome ELSE run[r][j]
  BY <1>1 DEF RunTypes
<1>3. TasksOf(r)' = TasksOf(r) /\ TasksOf(r) \subseteq Places
  BY <1>1, TasksArePlaces DEF TasksOf
<1>4. EndedOf(r)' = EndedOf(r) \cup {k} /\ k \notin EndedOf(r)
  BY <1>1, <1>2, <1>3 DEF EndedOf
<1>5. tasks[r] # <<>> /\ ~(r > asked)
  BY <1>1 DEF Request, Unasked, TasksOf
<1>6. caller[r] # "answered"
  BY <1>1 DEF Request, Told, EndedOf
<1>7. Unasked(r)' /\ Single(r)'
  BY <1>1, <1>5 DEF Request, Unasked, Single
<1>8. CASE form[r] = "single"
  <2>1. /\ caller' = [caller EXCEPT ![r] = IF @ = "waiting" THEN "answered" ELSE @]
        /\ response' = [response EXCEPT ![r] = IF caller[r] = "waiting"
                                               THEN <<Item(k, outcome)>> ELSE @]
        /\ UNCHANGED <<results, received>>
    BY <1>8 DEF Ending, Report, Answer
  <2>2. k = 1 /\ Len(tasks[r]) = 1 /\ TasksOf(r) = {1}
    <3>1. Len(tasks[r]) \in {0, 1} /\ k \in 1 .. Len(tasks[r])
      BY <1>1, <1>8, TasksArePlaces DEF Request, Single, TasksOf
    <3>2. \A n \in {0, 1} : \A j \in 1 .. n : n = 1 /\ j = 1
      OBVIOUS
    <3>3. Len(tasks[r]) = 1 /\ k = 1
      BY <3>1, <3>2
    <3>. QED
      BY <3>3 DEF TasksOf
  <2>3. Told(r)'
    <3>. SUFFICES ASSUME caller'[r] = "answered" PROVE Told(r)'
      BY DEF Told
    <3>1. response'[r] = <<Item(1, outcome)>>
      BY <1>6, <2>1, <2>2 DEF AnswerTypes
    <3>2. run'[r][1] = outcome
      BY <1>2, <2>2
    <3>3. Len(response'[r]) = Len(tasks'[r]) /\ response'[r][1] = Item(1, outcome)
      BY <1>1, <2>2, <3>1
    <3>4. TasksOf(r)' = {1} /\ 1 \in EndedOf(r)'
      BY <1>3, <1>4, <2>2
    <3>. QED
      BY <3>2, <3>3, <3>4 DEF Told, Item
  <2>4. Stored(r)' /\ Counted(r)'
    BY <1>1, <1>8, <2>1 DEF Request, Stored, Counted
  <2>. QED
    BY <1>7, <2>3, <2>4 DEF Request
<1>9. CASE form[r] = "batch"
  <2>1. /\ results' = [results EXCEPT ![r][k] = Item(k, outcome)]
        /\ received' = [received EXCEPT ![r] = received[r] + 1]
        /\ UNCHANGED <<caller, server, response>>
    BY <1>9 DEF Ending, Report, Store, Sent
  <2>2. results[r] \in Seq(Items) /\ Len(results[r]) = Len(tasks[r])
    BY <1>9 DEF Request, Stored, AnswerTypes
  <2>3. results'[r] = [results[r] EXCEPT ![k] = Item(k, outcome)]
    BY <2>1 DEF AnswerTypes
  <2>4. Item(k, outcome) \in Items
    BY ItemType
  <2>5. /\ Len(results'[r]) = Len(results[r])
        /\ \A j \in 1 .. Len(results[r]) :
             results'[r][j] = IF j = k THEN Item(k, outcome) ELSE results[r][j]
    BY <1>1, <2>2, <2>3, <2>4, ExceptSeq DEF TasksOf
  <2>6. Stored(r)'
    <3>1. ASSUME NEW j \in EndedOf(r)' PROVE results'[r][j] = Item(j, run'[r][j])
      <4>1. j \in 1 .. Len(results[r]) /\ j \in Places
        BY <1>1, <1>3, <1>4, <2>2, <3>1 DEF EndedOf, TasksOf
      <4>2. CASE j = k
        BY <1>2, <2>5, <4>1, <4>2
      <4>3. CASE j # k
        <5>1. j \in EndedOf(r)
          BY <1>4, <3>1, <4>3
        <5>2. results[r][j] = Item(j, run[r][j])
          BY <1>9, <5>1 DEF Request, Stored
        <5>. QED
          BY <1>2, <2>5, <4>1, <4>3, <5>2
      <4>. QED
        BY <4>2, <4>3
    <3>2. Len(results'[r]) = Len(tasks'[r])
      BY <1>1, <2>2, <2>5
    <3>. QED
      BY <3>1, <3>2 DEF Stored, Item
  <2>7. Counted(r)'
    <3>1. Cardinality(EndedOf(r) \cup {k}) = Cardinality(EndedOf(r)) + 1
      BY <1>4, EndedFinite, FS_AddElement
    <3>2. received'[r] = received[r] + 1 /\ received[r] = Cardinality(EndedOf(r))
      BY <1>9, <2>1 DEF Request, Counted, RunTypes
    <3>. QED
      BY <1>1, <1>4, <1>9, <3>1, <3>2 DEF Counted
  <2>8. Told(r)'
    BY <1>6, <2>1 DEF Told
  <2>. QED
    BY <1>7, <2>6, <2>7, <2>8 DEF Request
<1>. QED
  BY <1>8, <1>9 DEF RunTypes

(***************************************************************************)
(* A step that ends no run of a request and answers nothing to it keeps    *)
(* what holds of it, whether it starts, loses or waits no longer.          *)
(***************************************************************************)
Untouched(q) ==
  /\ asked' \in Nat /\ asked <= asked'
  /\ form'[q] = form[q] /\ tasks'[q] = tasks[q] /\ results'[q] = results[q]
  /\ received'[q] = received[q] /\ response'[q] = response[q]
  /\ \A k \in Places : run'[q][k] = run[q][k] \/ {run[q][k], run'[q][k]} \cap Outcomes = {}
  /\ \/ caller'[q] = caller[q]
     \/ caller[q] = "waiting" /\ caller'[q] = "timedout"

\* Such a request is as it was.
LEMMA UntouchedRequest ==
  ASSUME RunTypes, NEW q \in Requests, Request(q), Untouched(q)
  PROVE  Request(q)'
<1>1. TasksOf(q)' = TasksOf(q) /\ TasksOf(q) \subseteq Places
  BY TasksArePlaces DEF Untouched, TasksOf
<1>2. /\ EndedOf(q)' = EndedOf(q)
      /\ \A k \in EndedOf(q) : run'[q][k] = run[q][k]
  BY <1>1 DEF EndedOf, Untouched
<1>3. Unasked(q)'
  <2>. SUFFICES ASSUME q > asked' PROVE Unasked(q)'
    BY DEF Unasked
  <2>1. q > asked
    BY DEF Untouched, RunTypes, Requests
  <2>. QED
    BY <2>1 DEF Request, Unasked, Untouched
<1>4. Single(q)'
  BY DEF Request, Single, Untouched
<1>5. Stored(q)'
  BY <1>2 DEF Request, Stored, Untouched, Item
<1>6. Counted(q)'
  BY <1>2 DEF Request, Counted, Untouched
<1>7. Told(q)'
  BY <1>1, <1>2 DEF Request, Told, Untouched, Item
<1>. QED
  BY <1>3, <1>4, <1>5, <1>6, <1>7 DEF Request

\* The end of a run keeps the types, and what holds of every request.
LEMMA EndingRequests ==
  ASSUME RunTypes, AnswerTypes, \A q \in Requests : Request(q),
         NEW r \in Requests, NEW k \in Places,
         NEW outcome \in Outcomes, Ending(r, k, outcome)
  PROVE  RunTypes' /\ AnswerTypes' /\ (\A q \in Requests : Request(q))'
<1>1. ASSUME NEW q \in Requests, q # r PROVE Request(q)'
  <2>1. /\ asked' = asked /\ form'[q] = form[q] /\ tasks'[q] = tasks[q] /\ run'[q] = run[q]
    BY <1>1 DEF Ending, RunTypes
  <2>2. /\ results'[q] = results[q] /\ received'[q] = received[q]
        /\ response'[q] = response[q] /\ caller'[q] = caller[q]
    BY <1>1 DEF Ending, Report, Answer, Store, Sent, AnswerTypes, RunTypes
  <2>3. Untouched(q)
    BY <2>1, <2>2 DEF Untouched, RunTypes
  <2>. QED
    BY <2>3, UntouchedRequest
<1>. QED
  BY <1>1, EndingTypes, EndingRequest

-----------------------------------------------------------------------------
(***************************************************************************)
(* runSubagent begins.                                                     *)
(***************************************************************************)
LEMMA StartIInv ==
  ASSUME IInv, NEW r \in Requests, NEW k \in Places, Start(r, k)
  PROVE  IInv'
<1>. USE DEF IInv
<1>1. /\ k \in TasksOf(r) /\ run[r][k] = "ready" /\ tasks[r][k] \in Names
      /\ run' = [run EXCEPT ![r][k] = "running"]
      /\ registry' = registry \cup {tasks[r][k]}
      /\ UNCHANGED <<asked, form, tasks, caller, server, results, received, response>>
  BY DEF Start, NextReady, Registered
<1>2. RunTypes' /\ AnswerTypes'
  BY <1>1 DEF RunTypes, AnswerTypes, States
<1>3. \A q \in Requests : \A j \in Places :
        run'[q][j] = IF q = r /\ j = k THEN "running" ELSE run[q][j]
  BY <1>1 DEF RunTypes
<1>4. ASSUME NEW q \in Requests PROVE Request(q)'
  <2>1. Untouched(q)
    BY <1>1, <1>3 DEF Untouched, RunTypes, Outcomes
  <2>. QED
    BY <2>1, UntouchedRequest
<1>5. \A q \in Requests : TasksOf(q)' = TasksOf(q) /\ TasksOf(q) \subseteq Places
  BY <1>1, TasksArePlaces DEF TasksOf
<1>6. Backed'
  <2>. SUFFICES ASSUME NEW name \in registry'
                PROVE  \E q \in Requests : \E j \in TasksOf(q)' :
                         Runs(q, j, name)' /\ run'[q][j] \in {"running", "lost"}
    BY DEF Backed
  <2>1. CASE name = tasks[r][k]
    BY <1>1, <1>3, <1>5, <2>1 DEF Runs
  <2>2. CASE name \in registry
    BY <1>1, <1>3, <1>5, <2>2 DEF Registry, Backed, Runs
  <2>. QED
    BY <1>1, <2>1, <2>2
<1>7. Found'
  <2>. SUFFICES ASSUME NEW q \in Requests, NEW j \in TasksOf(q)',
                       run'[q][j] = "running", Alone(q, j)'
                PROVE  tasks'[q][j] \in registry'
    BY DEF Found
  <2>1. Alone(q, j)
    BY <1>1, <1>5 DEF Alone, Runs
  <2>. QED
    BY <1>1, <1>3, <1>5, <2>1 DEF Registry, Found
<1>. QED
  BY <1>1, <1>2, <1>4, <1>6, <1>7 DEF Registry

(***************************************************************************)
(* A name that is not in the list is answered with an error.               *)
(***************************************************************************)
LEMMA StartUnknownIInv ==
  ASSUME IInv, NEW r \in Requests, NEW k \in Places, StartUnknown(r, k)
  PROVE  IInv'
<1>. USE DEF IInv
<1>1. /\ Ending(r, k, "failed") /\ run[r][k] = "ready"
      /\ registry' = registry
  BY NamesAssumption DEF StartUnknown, NextReady, Registered, Ending
<1>2. RunTypes' /\ AnswerTypes' /\ (\A q \in Requests : Request(q))'
  BY <1>1, EndingRequests DEF Outcomes
<1>3. tasks' = tasks /\ \A q \in Requests : \A j \in Places :
        run'[q][j] = IF q = r /\ j = k THEN "failed" ELSE run[q][j]
  BY <1>1 DEF RunTypes, Ending
<1>4. \A q \in Requests : TasksOf(q)' = TasksOf(q) /\ TasksOf(q) \subseteq Places
  BY <1>3, TasksArePlaces DEF TasksOf
<1>5. Backed'
  <2>. SUFFICES ASSUME NEW name \in registry
                PROVE  \E q \in Requests : \E j \in TasksOf(q)' :
                         Runs(q, j, name)' /\ run'[q][j] \in {"running", "lost"}
    BY <1>1 DEF Backed
  <2>1. PICK q \in Requests : \E j \in TasksOf(q) :
          Runs(q, j, name) /\ run[q][j] \in {"running", "lost"}
    BY DEF Registry, Backed
  <2>2. PICK j \in TasksOf(q) : Runs(q, j, name) /\ run[q][j] \in {"running", "lost"}
    BY <2>1
  <2>3. run'[q][j] = run[q][j]
    BY <1>1, <1>3, <1>4, <2>2
  <2>. QED
    BY <1>3, <1>4, <2>2, <2>3 DEF Runs
<1>6. Found'
  <2>. SUFFICES ASSUME NEW q \in Requests, NEW j \in TasksOf(q)',
                       run'[q][j] = "running", Alone(q, j)'
                PROVE  tasks'[q][j] \in registry'
    BY DEF Found
  <2>1. Alone(q, j)
    BY <1>3, <1>4 DEF Alone, Runs
  <2>. QED
    BY <1>1, <1>3, <1>4, <2>1 DEF Registry, Found
<1>. QED
  BY <1>1, <1>2, <1>5, <1>6 DEF Registry

(***************************************************************************)
(* The subgraph returns or throws a std::exception.                        *)
(***************************************************************************)
LEMMA RunEndsIInv ==
  ASSUME IInv, NEW r \in Requests, NEW k \in Places, NEW outcome \in Outcomes,
         RunEnds(r, k, outcome)
  PROVE  IInv'
<1>. USE DEF IInv
<1>1. /\ Ending(r, k, outcome) /\ run[r][k] = "running" /\ k \in TasksOf(r)
      /\ registry' = registry \ {tasks[r][k]}
  BY DEF RunEnds, Unregistered, Ending
<1>2. RunTypes' /\ AnswerTypes' /\ (\A q \in Requests : Request(q))'
  BY <1>1, EndingRequests
<1>3. tasks' = tasks /\ \A q \in Requests : \A j \in Places :
        run'[q][j] = IF q = r /\ j = k THEN outcome ELSE run[q][j]
  BY <1>1 DEF RunTypes, Ending
<1>4. \A q \in Requests : TasksOf(q)' = TasksOf(q) /\ TasksOf(q) \subseteq Places
  BY <1>3, TasksArePlaces DEF TasksOf
<1>5. Backed'
  <2>. SUFFICES ASSUME NEW name \in registry, name # tasks[r][k]
                PROVE  \E q \in Requests : \E j \in TasksOf(q)' :
                         Runs(q, j, name)' /\ run'[q][j] \in {"running", "lost"}
    BY <1>1 DEF Backed
  <2>1. PICK q \in Requests : \E j \in TasksOf(q) :
          Runs(q, j, name) /\ run[q][j] \in {"running", "lost"}
    BY DEF Registry, Backed
  <2>2. PICK j \in TasksOf(q) : Runs(q, j, name) /\ run[q][j] \in {"running", "lost"}
    BY <2>1
  <2>3. run'[q][j] = run[q][j]
    BY <1>3, <1>4, <2>2 DEF Runs
  <2>. QED
    BY <1>3, <1>4, <2>2, <2>3 DEF Runs
<1>6. Found'
  <2>. SUFFICES ASSUME NEW q \in Requests, NEW j \in TasksOf(q)',
                       run'[q][j] = "running", Alone(q, j)'
                PROVE  tasks'[q][j] \in registry'
    BY DEF Found
  <2>1. Alone(q, j)
    BY <1>3, <1>4 DEF Alone, Runs
  <2>2. ~(q = r /\ j = k)
    BY <1>3, <1>4 DEF Outcomes
  <2>3. run[q][j] = "running"
    BY <1>3, <1>4, <2>2
  <2>4. tasks[q][j] \in registry
    BY <1>4, <2>1, <2>3 DEF Registry, Found
  <2>5. tasks[q][j] # tasks[r][k]
    BY <1>1, <2>1, <2>2 DEF Alone, Runs
  <2>. QED
    BY <1>1, <1>3, <2>4, <2>5
<1>. QED
  BY <1>1, <1>2, <1>5, <1>6 DEF Registry

(***************************************************************************)
(* Anything else is thrown.                                                *)
(***************************************************************************)
LEMMA RunLostIInv ==
  ASSUME IInv, NEW r \in Requests, NEW k \in Places, RunLost(r, k)
  PROVE  IInv'
<1>. USE DEF IInv
<1>1. /\ k \in TasksOf(r) /\ run[r][k] = "running"
      /\ run' = [run EXCEPT ![r][k] = "lost"]
      /\ server' = [server EXCEPT ![r] = IF form[r] = "single" THEN "done" ELSE @]
      /\ UNCHANGED <<asked, form, tasks, caller, registry, results, received, response>>
  BY DEF RunLost
<1>2. RunTypes' /\ AnswerTypes'
  BY <1>1 DEF RunTypes, AnswerTypes, States
<1>3. \A q \in Requests : \A j \in Places :
        run'[q][j] = IF q = r /\ j = k THEN "lost" ELSE run[q][j]
  BY <1>1 DEF RunTypes
<1>4. ASSUME NEW q \in Requests PROVE Request(q)'
  <2>1. Untouched(q)
    BY <1>1, <1>3 DEF Untouched, RunTypes, Outcomes
  <2>. QED
    BY <2>1, UntouchedRequest
<1>5. \A q \in Requests : TasksOf(q)' = TasksOf(q) /\ TasksOf(q) \subseteq Places
  BY <1>1, TasksArePlaces DEF TasksOf
<1>6. Backed'
  <2>. SUFFICES ASSUME NEW name \in registry
                PROVE  \E q \in Requests : \E j \in TasksOf(q)' :
                         Runs(q, j, name)' /\ run'[q][j] \in {"running", "lost"}
    BY <1>1 DEF Backed
  <2>. QED
    BY <1>1, <1>3, <1>5 DEF Registry, Backed, Runs
<1>7. Found'
  <2>. SUFFICES ASSUME NEW q \in Requests, NEW j \in TasksOf(q)',
                       run'[q][j] = "running", Alone(q, j)'
                PROVE  tasks'[q][j] \in registry'
    BY DEF Found
  <2>1. Alone(q, j)
    BY <1>1, <1>5 DEF Alone, Runs
  <2>. QED
    BY <1>1, <1>3, <1>5, <2>1 DEF Registry, Found
<1>. QED
  BY <1>1, <1>2, <1>4, <1>6, <1>7 DEF Registry

(***************************************************************************)
(* The registry is told of nothing when no run that goes on or was lost    *)
(* changes, and a new request has only runs that are ready.                *)
(***************************************************************************)
LEMMA RegistryKept ==
  ASSUME RunTypes, Registry, UNCHANGED registry,
         \A q \in Requests :
           \/ tasks'[q] = tasks[q] /\ run'[q] = run[q]
           \/ tasks[q] = <<>> /\ \A j \in Places : run'[q][j] \in {"ready", "none"},
         \A q \in Requests : TasksOf(q)' \subseteq Places
  PROVE  Registry'
<1>1. ASSUME NEW q \in Requests, NEW j \in TasksOf(q)
      PROVE  tasks'[q] = tasks[q] /\ run'[q] = run[q] /\ j \in TasksOf(q)'
  BY <1>1 DEF TasksOf
<1>2. Backed'
  BY <1>1 DEF Registry, Backed, Runs
<1>3. Found'
  <2>. SUFFICES ASSUME NEW q \in Requests, NEW j \in TasksOf(q)',
                       run'[q][j] = "running", Alone(q, j)'
                PROVE  tasks'[q][j] \in registry'
    BY DEF Found
  <2>1. tasks'[q] = tasks[q] /\ run'[q] = run[q] /\ j \in TasksOf(q)
    BY DEF TasksOf
  <2>2. Alone(q, j)
    BY <1>1, <2>1 DEF Alone, Runs
  <2>. QED
    BY <2>1, <2>2 DEF Registry, Found
<1>. QED
  BY <1>2, <1>3 DEF Registry

(***************************************************************************)
(* A request arrives.                                                      *)
(***************************************************************************)
LEMMA AskIInv ==
  ASSUME IInv, NEW f \in {"single", "batch"}, NEW names \in Batches, Ask(f, names)
  PROVE  IInv'
<1>. USE DEF IInv
<1>0. PICK n \in Requests : n = asked + 1
  BY BoundsAssumption DEF Ask, RunTypes, Requests
<1>1. n > asked /\ n \in Nat /\ asked' = n
  BY <1>0, BoundsAssumption DEF Ask, RunTypes, Requests
<1>2. /\ form' = [form EXCEPT ![n] = f]
      /\ tasks' = [tasks EXCEPT ![n] = names]
      /\ results' = [results EXCEPT ![n] = [k \in 1 .. Len(names) |-> Blank]]
      /\ run' = [run EXCEPT ![n] = [k \in Places |-> IF k <= Len(names) THEN "ready" ELSE "none"]]
      /\ caller' = [caller EXCEPT ![n] = IF names = <<>> THEN "answered" ELSE "waiting"]
      /\ server' = [server EXCEPT ![n] = IF names = <<>> THEN "done" ELSE "working"]
      /\ UNCHANGED <<registry, received, response>>
  BY <1>1 DEF Ask
<1>3. /\ names \in Seq(AllNames) /\ Len(names) \in Nat /\ 1 .. Len(names) \subseteq Places
      /\ f = "single" => Len(names) = 1
  BY BatchIsSeq DEF Ask
<1>4. [k \in 1 .. Len(names) |-> Blank] \in Seq(Items)
  <2>1. Blank \in Items
    BY BoundsAssumption DEF Blank, Items
  <2>. QED
    BY <1>3, <2>1
<1>5. RunTypes'
  <2>1. [k \in Places |-> IF k <= Len(names) THEN "ready" ELSE "none"] \in [Places -> States]
    BY DEF States
  <2>2. run' \in [Requests -> [Places -> States]]
    BY <1>2, <2>1 DEF RunTypes
  <2>. QED
    BY <1>1, <1>2, <2>2 DEF RunTypes
<1>6. AnswerTypes'
  BY <1>2, <1>4 DEF AnswerTypes
<1>7. /\ tasks[n] = <<>> /\ response[n] = <<>> /\ received[n] = 0
  BY <1>1 DEF Request, Unasked
<1>8. Request(n)'
  <2>1. /\ form'[n] = f /\ tasks'[n] = names /\ response'[n] = <<>> /\ received'[n] = 0
        /\ results'[n] = [k \in 1 .. Len(names) |-> Blank]
        /\ \A k \in Places : run'[n][k] \in {"ready", "none"}
        /\ caller'[n] = IF names = <<>> THEN "answered" ELSE "waiting"
    BY <1>1, <1>2, <1>7 DEF RunTypes, AnswerTypes
  <2>2. TasksOf(n)' = 1 .. Len(names) /\ EndedOf(n)' = {}
    BY <1>3, <2>1 DEF TasksOf, EndedOf, Outcomes
  <2>3. Unasked(n)' /\ Single(n)'
    <3>1. ~(n > asked')
      BY <1>1
    <3>2. form'[n] = "single" => Len(tasks'[n]) \in {0, 1}
      BY <1>3, <2>1, Zenon
    <3>. QED
      BY <3>1, <3>2 DEF Unasked, Single
  <2>4. Stored(n)'
    BY <1>3, <2>1, <2>2 DEF Stored
  <2>5. Counted(n)'
    BY <2>1, <2>2, FS_EmptySet DEF Counted
  <2>6. Told(n)'
    <3>1. names = <<>> => 1 .. Len(names) = {}
      OBVIOUS
    <3>. QED
      BY <2>1, <2>2, <3>1 DEF Told
  <2>. QED
    BY <2>3, <2>4, <2>5, <2>6 DEF Request
<1>9. ASSUME NEW q \in Requests, q # n PROVE Request(q)'
  <2>1. Untouched(q)
    BY <1>1, <1>2, <1>9 DEF Untouched, RunTypes, AnswerTypes
  <2>. QED
    BY <2>1, UntouchedRequest
<1>10. Registry'
  <2>1. \A q \in Requests :
           \/ tasks'[q] = tasks[q] /\ run'[q] = run[q]
           \/ tasks[q] = <<>> /\ \A j \in Places : run'[q][j] \in {"ready", "none"}
    BY <1>1, <1>2, <1>7 DEF RunTypes
  <2>2. \A q \in Requests : tasks'[q] \in Batches
    BY <1>5 DEF RunTypes
  <2>3. \A q \in Requests : TasksOf(q)' \subseteq Places
    BY <2>2, BatchIsSeq DEF TasksOf
  <2>. QED
    BY <1>2, <2>1, <2>3, RegistryKept
<1>. QED
  BY <1>5, <1>6, <1>8, <1>9, <1>10

(***************************************************************************)
(* A batch has all its messages, so all its runs have ended.               *)
(***************************************************************************)
LEMMA BatchReturnsIInv ==
  ASSUME IInv, NEW r \in Requests, BatchReturns(r)
  PROVE  IInv'
<1>. USE DEF IInv
<1>1. /\ form[r] = "batch" /\ received[r] = Len(tasks[r]) /\ server[r] = "working"
      /\ server' = [server EXCEPT ![r] = "done"]
      /\ caller' = [caller EXCEPT ![r] = IF @ = "waiting" THEN "answered" ELSE @]
      /\ response' = [response EXCEPT ![r] = IF caller[r] = "waiting" THEN results[r] ELSE @]
      /\ UNCHANGED <<asked, form, tasks, run, registry, results, received>>
  BY DEF BatchReturns, Answer
<1>2. RunTypes' /\ AnswerTypes'
  BY <1>1 DEF RunTypes, AnswerTypes
<1>3. EndedOf(r) = TasksOf(r)
  BY <1>1, EndedFinite DEF Request, Counted
<1>4. ASSUME NEW q \in Requests PROVE Request(q)'
  <2>1. CASE q # r \/ caller[r] # "waiting"
    <3>1. Untouched(q)
      BY <1>1, <2>1 DEF Untouched, RunTypes, AnswerTypes
    <3>. QED
      BY <3>1, UntouchedRequest
  <2>2. CASE q = r /\ caller[r] = "waiting"
    <3>1. caller'[r] = "answered" /\ response'[r] = results[r]
      BY <1>1, <2>2 DEF AnswerTypes
    <3>2. ~(r > asked)
      BY <2>2 DEF Request, Unasked
    <3>3. TasksOf(r)' = TasksOf(r) /\ EndedOf(r)' = EndedOf(r)
      BY <1>1 DEF TasksOf, EndedOf
    <3>4. /\ Len(results[r]) = Len(tasks[r])
          /\ \A k \in EndedOf(r) : results[r][k] = Item(k, run[r][k])
      BY <1>1 DEF Request, Stored
    <3>5. Told(r)'
      BY <1>1, <1>3, <3>1, <3>3, <3>4 DEF Told, Item
    <3>6. Unasked(r)' /\ Single(r)'
      BY <1>1, <3>2 DEF Unasked, Request, Single
    <3>7. Stored(r)' /\ Counted(r)'
      BY <1>1, <3>3 DEF Request, Stored, Counted, Item
    <3>. QED
      BY <2>2, <3>5, <3>6, <3>7 DEF Request
  <2>. QED
    BY <2>1, <2>2
<1>5. Registry'
  BY <1>1, TasksArePlaces, RegistryKept DEF TasksOf
<1>. QED
  BY <1>2, <1>4, <1>5

(***************************************************************************)
(* The caller waits no longer.                                             *)
(***************************************************************************)
LEMMA TimeOutIInv ==
  ASSUME IInv, NEW r \in Requests, TimeOut(r)
  PROVE  IInv'
<1>. USE DEF IInv
<1>1. /\ caller[r] = "waiting" /\ caller' = [caller EXCEPT ![r] = "timedout"]
      /\ UNCHANGED <<asked, form, tasks, server, run, registry, results, received, response>>
  BY DEF TimeOut
<1>2. RunTypes' /\ AnswerTypes'
  BY <1>1 DEF RunTypes, AnswerTypes
<1>3. ASSUME NEW q \in Requests PROVE Request(q)'
  <2>1. Untouched(q)
    BY <1>1 DEF Untouched, RunTypes, AnswerTypes
  <2>. QED
    BY <2>1, UntouchedRequest
<1>4. Registry'
  BY <1>1, TasksArePlaces, RegistryKept DEF TasksOf
<1>. QED
  BY <1>2, <1>3, <1>4

(***************************************************************************)
(* A step that changes nothing keeps the invariant.                        *)
(***************************************************************************)
LEMMA StutterIInv ==
  ASSUME IInv, UNCHANGED vars
  PROVE  IInv'
<1>. USE DEF IInv, vars
<1>1. RunTypes' /\ AnswerTypes'
  BY DEF RunTypes, AnswerTypes
<1>2. ASSUME NEW q \in Requests PROVE Request(q)'
  <2>1. Untouched(q)
    BY DEF Untouched, RunTypes
  <2>. QED
    BY <2>1, UntouchedRequest
<1>3. Registry'
  BY TasksArePlaces, RegistryKept DEF TasksOf
<1>. QED
  BY <1>1, <1>2, <1>3

\* Every step keeps the inductive invariant.
LEMMA NextIInv == IInv /\ [Next]_vars => IInv'
<1>. SUFFICES ASSUME IInv, [Next]_vars PROVE IInv'
  OBVIOUS
<1>. QED
  BY AskIInv, StartIInv, StartUnknownIInv, RunEndsIInv, RunLostIInv, BatchReturnsIInv,
     TimeOutIInv, StutterIInv DEF Next, Outcomes

(***************************************************************************)
(* No more requests are made than the bound says.                          *)
(***************************************************************************)
LEMMA AskedBounded == Spec => [](asked \in Nat /\ asked <= MaxRequests)
<1>1. Init => asked \in Nat /\ asked <= MaxRequests
  BY BoundsAssumption DEF Init
<1>2. (asked \in Nat /\ asked <= MaxRequests) /\ [Next]_vars
        => (asked \in Nat /\ asked <= MaxRequests)'
  BY BoundsAssumption DEF Next, Ask, Start, StartUnknown, RunEnds, RunLost, BatchReturns, TimeOut, vars
<1>. QED
  BY <1>1, <1>2, PTL DEF Spec

(***************************************************************************)
(* Every variable keeps its type, for any subagents and any bounds.        *)
(***************************************************************************)
THEOREM TypeCorrect == Spec => []TypeOK
BY InitIInv, NextIInv, IInvTypeOK, AskedBounded, PTL DEF Spec

(***************************************************************************)
(* A caller that is answered is told, in the order of its tasks, how each  *)
(* run ended, none of which goes on; a name in the registry has a run      *)
(* behind it, and one whose only run goes on is there.                     *)
(***************************************************************************)
THEOREM RunsAccountedCorrect == Spec => []RunsAccounted
BY InitIInv, NextIInv, IInvAccounted, PTL DEF Spec
=============================================================================
