-------------------------- MODULE SubagentSupervisor --------------------------
(***************************************************************************)
(* middlewares/subagent_supervisor.h behind its request streams: the       *)
(* coroutines that run subagents, one at a time or a batch at once, the    *)
(* registry of running subagents, and the callers, whose requests time out *)
(* while the subagents run on.                                             *)
(*                                                                         *)
(* A task is named by its request and its place in it.  Its run ends well, *)
(* with a std::exception, or with something else thrown, which the         *)
(* detached coroutine of the task does not survive.                        *)
(***************************************************************************)
EXTENDS Naturals, Sequences, FiniteSets

CONSTANTS
  Names,         \* the keys of subAgentList whose subgraph is compiled
  Unknown,       \* any other name
  MaxRequests,   \* bound: requests in a behaviour
  MaxTasks,      \* bound: tasks of a batch
  MaxLost        \* bound: runs that end with something that is no std::exception

ASSUME NamesAssumption == Unknown \notin Names
ASSUME BoundsAssumption == MaxRequests \in Nat /\ MaxTasks \in Nat /\ MaxLost \in Nat

Requests == 1 .. MaxRequests
Places   == 1 .. MaxTasks
AllNames == Names \cup {Unknown}
Batches  == UNION {[1 .. n -> AllNames] : n \in 0 .. MaxTasks}

Blank == [of |-> 0, ok |-> FALSE]

VARIABLES
  asked,      \* requests made so far
  form,       \* "single" or "batch"
  tasks,      \* the subagent names of each request
  caller,     \* "unused", "waiting", "answered", "timedout"
  server,     \* the server coroutine: "none", "working", "done"
  run,        \* each task: "none", "ready", "running", "ok", "failed", "lost"
  registry,   \* the keys of runningRegistry_
  results,    \* the results vector of each batch
  received,   \* messages sent on doneChannel
  response    \* what the caller received

vars == <<asked, form, tasks, caller, server, run, registry, results, received, response>>

Init ==
  /\ asked = 0
  /\ form = [r \in Requests |-> "single"]
  /\ tasks = [r \in Requests |-> <<>>]
  /\ caller = [r \in Requests |-> "unused"]
  /\ server = [r \in Requests |-> "none"]
  /\ run = [r \in Requests |-> [k \in Places |-> "none"]]
  /\ registry = {}
  /\ results = [r \in Requests |-> <<>>]
  /\ received = [r \in Requests |-> 0]
  /\ response = [r \in Requests |-> <<>>]

TasksOf(r) == 1 .. Len(tasks[r])

(***************************************************************************)
(* The answer reaches a caller that still waits; a late one is dropped.    *)
(***************************************************************************)
Answer(r, items) ==
  /\ server' = [server EXCEPT ![r] = "done"]
  /\ caller' = [caller EXCEPT ![r] = IF @ = "waiting" THEN "answered" ELSE @]
  /\ response' = [response EXCEPT ![r] = IF caller[r] = "waiting" THEN items ELSE @]

(***************************************************************************)
(* A request arrives.  runBatch answers an empty batch at once; otherwise  *)
(* it makes room for n results and spawns n coroutines.                    *)
(***************************************************************************)
Ask(f, names) ==
  /\ asked < MaxRequests
  /\ f = "single" => Len(names) = 1
  /\ asked' = asked + 1
  /\ form' = [form EXCEPT ![asked'] = f]
  /\ tasks' = [tasks EXCEPT ![asked'] = names]
  /\ results' = [results EXCEPT ![asked'] = [k \in 1 .. Len(names) |-> Blank]]
  /\ run' = [run EXCEPT ![asked'] =
               [k \in Places |-> IF k <= Len(names) THEN "ready" ELSE "none"]]
  /\ IF names = <<>>
     THEN /\ caller' = [caller EXCEPT ![asked'] = "answered"]
          /\ server' = [server EXCEPT ![asked'] = "done"]
     ELSE /\ caller' = [caller EXCEPT ![asked'] = "waiting"]
          /\ server' = [server EXCEPT ![asked'] = "working"]
  /\ UNCHANGED <<registry, received, response>>

(***************************************************************************)
(* What becomes of the result of a task: a single request is answered with *)
(* it; in a batch it goes into the vector at the task's own place, and a   *)
(* message is sent on doneChannel.                                         *)
(***************************************************************************)
Item(k, outcome) == [of |-> k, ok |-> outcome = "ok"]

\* Slip: results are stored in the order they arrive.
StoreAtArrival(r, k, outcome) ==
  results' = [results EXCEPT ![r][received[r] + 1] = Item(k, outcome)]
Store(r, k, outcome) == results' = [results EXCEPT ![r][k] = Item(k, outcome)]

\* Slip: a run that failed sends no message.
SentWhenOk(r, outcome) == IF outcome = "ok" THEN received[r] + 1 ELSE received[r]
Sent(r, outcome) == received[r] + 1

Report(r, k, outcome) ==
  IF form[r] = "single"
  THEN Answer(r, <<Item(k, outcome)>>) /\ UNCHANGED <<results, received>>
  ELSE /\ Store(r, k, outcome)
       /\ received' = [received EXCEPT ![r] = Sent(r, outcome)]
       /\ UNCHANGED <<caller, server, response>>

(***************************************************************************)
(* runSubagent begins; the coroutines of a batch in the order they were    *)
(* spawned.  It registers the name and runs the subgraph.                  *)
(***************************************************************************)
NextReady(r, k) ==
  /\ k \in TasksOf(r)
  /\ run[r][k] = "ready"
  /\ \A j \in 1 .. k - 1 : run[r][j] # "ready"

Registered(name) == IF name \in Names THEN registry \cup {name} ELSE registry

Start(r, k) ==
  /\ NextReady(r, k)
  /\ tasks[r][k] \in Names
  /\ run' = [run EXCEPT ![r][k] = "running"]
  /\ registry' = Registered(tasks[r][k])
  /\ UNCHANGED <<asked, form, tasks, caller, server, results, received, response>>

(***************************************************************************)
(* A name that is not in the list is answered with an error.               *)
(***************************************************************************)
StartUnknown(r, k) ==
  /\ NextReady(r, k)
  /\ tasks[r][k] = Unknown
  /\ run' = [run EXCEPT ![r][k] = "failed"]
  /\ registry' = Registered(tasks[r][k])
  /\ Report(r, k, "failed")
  /\ UNCHANGED <<asked, form, tasks>>

(***************************************************************************)
(* The subgraph and onSubagentEnd return, or a std::exception is caught.   *)
(***************************************************************************)
\* Slip: the entry is only removed when the run ends well.
UnregisteredWhenOk(name, outcome) == IF outcome = "ok" THEN registry \ {name} ELSE registry
Unregistered(name, outcome) == registry \ {name}

RunEnds(r, k, outcome) ==
  /\ k \in TasksOf(r)
  /\ run[r][k] = "running"
  /\ run' = [run EXCEPT ![r][k] = outcome]
  /\ registry' = Unregistered(tasks[r][k], outcome)
  /\ Report(r, k, outcome)
  /\ UNCHANGED <<asked, form, tasks>>

(***************************************************************************)
(* Anything else thrown passes both catch clauses by: the name stays       *)
(* registered, the task of a batch sends nothing, and the server of a      *)
(* single request ends with an error that does not wake the caller.        *)
(***************************************************************************)
Lost == {x \in Requests \X Places : run[x[1]][x[2]] = "lost"}

RunLost(r, k) ==
  /\ k \in TasksOf(r)
  /\ run[r][k] = "running"
  /\ Cardinality(Lost) < MaxLost
  /\ run' = [run EXCEPT ![r][k] = "lost"]
  /\ server' = [server EXCEPT ![r] = IF form[r] = "single" THEN "done" ELSE @]
  /\ UNCHANGED <<asked, form, tasks, caller, registry, results, received, response>>

(***************************************************************************)
(* runBatch has received its n messages and returns the vector.            *)
(***************************************************************************)
BatchReturns(r) ==
  /\ form[r] = "batch"
  /\ server[r] = "working"
  /\ received[r] = Len(tasks[r])
  /\ Answer(r, results[r])
  /\ UNCHANGED <<asked, form, tasks, run, registry, results, received>>

(***************************************************************************)
(* The caller's request times out; nothing tells the server.               *)
(***************************************************************************)
TimeOut(r) ==
  /\ caller[r] = "waiting"
  /\ caller' = [caller EXCEPT ![r] = "timedout"]
  /\ UNCHANGED <<asked, form, tasks, server, run, registry, results, received, response>>

Next ==
  \/ \E f \in {"single", "batch"}, names \in Batches : Ask(f, names)
  \/ \E r \in Requests, k \in Places : Start(r, k)
  \/ \E r \in Requests, k \in Places : StartUnknown(r, k)
  \/ \E r \in Requests, k \in Places, outcome \in {"ok", "failed"} : RunEnds(r, k, outcome)
  \/ \E r \in Requests, k \in Places : RunLost(r, k)
  \/ \E r \in Requests : BatchReturns(r)
  \/ \E r \in Requests : TimeOut(r)

(***************************************************************************)
(* Ready coroutines are resumed, and a subagent's run comes to an end.     *)
(***************************************************************************)
Ends(r, k) == RunLost(r, k) \/ \E outcome \in {"ok", "failed"} : RunEnds(r, k, outcome)

Fairness ==
  \A r \in Requests :
    /\ WF_vars(BatchReturns(r))
    /\ \A k \in Places : WF_vars(Start(r, k) \/ StartUnknown(r, k)) /\ WF_vars(Ends(r, k))

Spec == Init /\ [][Next]_vars /\ Fairness
-----------------------------------------------------------------------------
Items == [of : 0 .. MaxTasks, ok : BOOLEAN]

(***************************************************************************)
(* Every variable keeps its type.                                          *)
(***************************************************************************)
TypeOK ==
  /\ asked \in 0 .. MaxRequests
  /\ form \in [Requests -> {"single", "batch"}]
  /\ tasks \in [Requests -> Batches]
  /\ caller \in [Requests -> {"unused", "waiting", "answered", "timedout"}]
  /\ server \in [Requests -> {"none", "working", "done"}]
  /\ run \in [Requests -> [Places -> {"none", "ready", "running", "ok", "failed", "lost"}]]
  /\ registry \in SUBSET Names
  /\ \A r \in Requests : results[r] \in Seq(Items) /\ response[r] \in Seq(Items)
  /\ received \in [Requests -> 0 .. MaxTasks]

(***************************************************************************)
(* However the runs of a batch, of several batches and of single requests  *)
(* interleave, a caller that is answered has one result per task, at the   *)
(* task's own place, that says how its run ended, and no run of the        *)
(* request is still under way.                                             *)
(***************************************************************************)
Running == {x \in Requests \X Places : run[x[1]][x[2]] = "running"}

BatchInOrder ==
  \A r \in Requests : caller[r] = "answered" =>
    /\ Len(response[r]) = Len(tasks[r])
    /\ \A k \in TasksOf(r) : /\ response[r][k].of = k
                             /\ run[r][k] = IF response[r][k].ok THEN "ok" ELSE "failed"

(***************************************************************************)
(* cross_agent_query is never told that an agent runs when none of that    *)
(* name does, unless a run of it was lost; and an agent whose name is in   *)
(* use once is found.                                                      *)
(***************************************************************************)
RunsOf(name) ==
  {x \in Requests \X Places : x[2] \in TasksOf(x[1]) /\ tasks[x[1]][x[2]] = name}

RegistryBacked ==
  /\ \A name \in registry : RunsOf(name) \cap (Running \cup Lost) # {}
  /\ \A name \in Names :
       RunsOf(name) \cap Running # {} /\ Cardinality(RunsOf(name)) = 1 => name \in registry

(***************************************************************************)
(* What callers and other agents are told of runs is true: an answer by    *)
(* what became of each task, the registry by who runs.                     *)
(***************************************************************************)
RunsAccounted == BatchInOrder /\ RegistryBacked

(***************************************************************************)
(* A batch whose runs all end returns, whether or not anybody still waits. *)
(***************************************************************************)
BatchEnds ==
  \A r \in Requests :
    (server[r] = "working") ~> (server[r] = "done" \/ \E k \in Places : run[r][k] = "lost")

(***************************************************************************)
(* The comment of runningRegistry_: inserted when a subagent starts and    *)
(* removed when it completes, so that who is running can be looked up.     *)
(* (Does not hold.)                                                        *)
(***************************************************************************)
RunningIsRegistered == \A x \in Running : tasks[x[1]][x[2]] \in registry

(***************************************************************************)
(* README.md: a subagent task isolates its context.  All runs of one       *)
(* subagent share the thread "session_subagent_<name>", so no two of them  *)
(* may be under way at once.                                               *)
(* (Does not hold.)                                                        *)
(***************************************************************************)
ContextIsolated ==
  \A x, y \in Running : x # y => tasks[x[1]][x[2]] # tasks[y[1]][y[2]]
=============================================================================
