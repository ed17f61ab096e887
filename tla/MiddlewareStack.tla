--------------------------- MODULE MiddlewareStack ---------------------------
(***************************************************************************)
(* WrapHandleBaseNode::run of nodes/warp_handle.h: the start hooks of the  *)
(* middlewares, the node's own baseRun, and the unwinding through the end  *)
(* hooks, with the hooks of the four wrapped nodes (agentcall.h,           *)
(* modelcall.h, toolcall.h) that write a reply or clear graphData.         *)
(*                                                                         *)
(* A hook returns, fails "soft" (any exception that the node turns into a  *)
(* reply) or fails "hard" (CancelledException, NodeInterrupt).             *)
(***************************************************************************)
EXTENDS Naturals, Sequences

CONSTANT N   \* how many middleware handles are registered

ASSUME NAssumption == N \in Nat

Handles == 1 .. N
NodeKinds == {"agent_start", "llm", "tools", "agent_end"}
MessageNodes == {"llm", "tools"}
Failures == {"soft", "hard"}

VARIABLES
  node,       \* which wrapped node this is
  pc,         \* "start", "base", "end", "done"
  i,          \* the handle the loop is at
  error,      \* errorPtr and errorRethrow: "none", "soft", "hard"
  writes,     \* what stands in result.writes for the node's reply
  graphData,  \* the handles whose data this thread's graphData holds
  outcome,    \* how run() ended
  started,    \* history: handles whose start hook returned
  ended,      \* history: handles whose end hook was called, in order
  unwound,    \* history: handles the unwinding visited, in order
  raised      \* history: the failures of the hooks and of baseRun

vars == <<node, pc, i, error, writes, graphData, outcome, started, ended, unwound, raised>>

Init ==
  /\ node \in NodeKinds
  /\ pc = "start"
  /\ i = 1
  /\ error = "none"
  /\ writes = <<>>
  /\ graphData \in SUBSET Handles
  /\ outcome = "none"
  /\ started = {}
  /\ ended = <<>>
  /\ unwound = <<>>
  /\ raised = {}

(***************************************************************************)
(* onHandleStart: agent_start empties graphData before every hook, then    *)
(* the hook may store its own data there.                                  *)
(***************************************************************************)
BeforeHook == IF node = "agent_start" THEN {} ELSE graphData

(***************************************************************************)
(* agent_end has no start hook and agent_start no end hook to fail.        *)
(***************************************************************************)
StartFailures == IF node = "agent_end" THEN {} ELSE Failures
EndFailures   == IF node = "agent_start" THEN {} ELSE Failures
BaseFailures  == IF node \in MessageNodes THEN Failures ELSE {}

StartReturns ==
  /\ pc = "start"
  /\ i <= N
  /\ graphData' \in {BeforeHook, BeforeHook \cup {i}}
  /\ started' = started \cup {i}
  /\ i' = i + 1
  /\ UNCHANGED <<node, pc, error, writes, outcome, ended, unwound, raised>>

(***************************************************************************)
(* A start hook fails: onHandleStartError, which in a message node writes  *)
(* the reply that replaces baseRun's unless the failure is rethrown, then  *)
(* out of the loop, past baseRun, with i at the failed handle.             *)
(***************************************************************************)
ReplyFor(what, failure) ==
  IF node \in MessageNodes /\ failure = "soft" THEN Append(writes, what) ELSE writes

\* Slip: a control failure of a start hook is not marked to be rethrown.
RaiseUnmarked(failure) ==
  /\ error' = "soft"
  /\ raised' = raised \cup {failure}

Raise(failure) ==
  /\ error' = failure
  /\ raised' = raised \cup {failure}

\* Slip: the unwinding starts with the handle that failed.
FailedHandleUnwound == IF i <= N THEN i + 1 ELSE i
UnwindFrom == i

StartFails(failure) ==
  /\ pc = "start"
  /\ i <= N
  /\ Raise(failure)
  /\ writes' = ReplyFor("startError", failure)
  /\ graphData' = BeforeHook
  /\ pc' = "base"
  /\ UNCHANGED <<node, i, outcome, started, ended, unwound>>

StartsDone ==
  /\ pc = "start"
  /\ i > N
  /\ pc' = "base"
  /\ UNCHANGED <<node, i, error, writes, graphData, outcome, started, ended, unwound, raised>>

(***************************************************************************)
(* baseRun, only when every start hook returned.  Otherwise                *)
(* onHandleBaseRunError is called for a failure that is not its own and    *)
(* writes nothing.                                                         *)
(***************************************************************************)
BaseReturns ==
  /\ pc = "base"
  /\ error = "none"
  /\ writes' = Append(writes, "base")
  /\ pc' = "end"
  /\ i' = UnwindFrom
  /\ UNCHANGED <<node, error, graphData, outcome, started, ended, unwound, raised>>

BaseFails(failure) ==
  /\ pc = "base"
  /\ error = "none"
  /\ Raise(failure)
  /\ writes' = ReplyFor("baseError", failure)
  /\ pc' = "end"
  /\ i' = UnwindFrom
  /\ UNCHANGED <<node, graphData, outcome, started, ended, unwound>>

WritesWhenSkipped == writes

BaseSkipped ==
  /\ pc = "base"
  /\ error # "none"
  /\ writes' = WritesWhenSkipped
  /\ pc' = "end"
  /\ i' = UnwindFrom
  /\ UNCHANGED <<node, error, graphData, outcome, started, ended, unwound, raised>>

(***************************************************************************)
(* The unwinding visits i - 1, ..., 1.  As long as nothing has failed it   *)
(* calls the end hooks; after any failure only onHandleEndError.           *)
(* agent_end erases graphData after each of them.                          *)
(***************************************************************************)
\* Slip: only the end hook that returned erases graphData.
AfterEndOnlyReturned(failed) == IF node = "agent_end" /\ ~failed THEN {} ELSE graphData
AfterEnd(failed) == IF node = "agent_end" THEN {} ELSE graphData

MoreToUnwind == i > 1

Unwind ==
  /\ pc = "end"
  /\ MoreToUnwind
  /\ i' = i - 1
  /\ unwound' = Append(unwound, i')

EndReturns ==
  /\ Unwind
  /\ error = "none"
  /\ ended' = Append(ended, i')
  /\ graphData' = AfterEnd(FALSE)
  /\ UNCHANGED <<node, pc, error, writes, outcome, started, raised>>

EndFails(failure) ==
  /\ Unwind
  /\ error = "none"
  /\ Raise(failure)
  /\ ended' = Append(ended, i')
  /\ graphData' = AfterEnd(TRUE)
  /\ UNCHANGED <<node, pc, writes, outcome, started>>

EndSkipped ==
  /\ Unwind
  /\ error # "none"
  /\ graphData' = AfterEnd(TRUE)
  /\ UNCHANGED <<node, pc, error, writes, outcome, started, ended, raised>>

Leave ==
  /\ pc = "end"
  /\ i = 1
  /\ pc' = "done"
  /\ outcome' = IF error = "hard" THEN "rethrown" ELSE "returned"
  /\ UNCHANGED <<node, i, error, writes, graphData, started, ended, unwound, raised>>

Next ==
  \/ StartReturns
  \/ \E failure \in StartFailures : StartFails(failure)
  \/ StartsDone
  \/ BaseReturns
  \/ \E failure \in BaseFailures : BaseFails(failure)
  \/ BaseSkipped
  \/ EndReturns
  \/ \E failure \in EndFailures : EndFails(failure)
  \/ EndSkipped
  \/ Leave

Spec == Init /\ [][Next]_vars
-----------------------------------------------------------------------------
(***************************************************************************)
(* Every variable keeps its type.                                          *)
(***************************************************************************)
TypeOK ==
  /\ node \in NodeKinds
  /\ pc \in {"start", "base", "end", "done"}
  /\ i \in 1 .. N + 1
  /\ error \in {"none", "soft", "hard"}
  /\ writes \in Seq({"base", "startError", "baseError"})
  /\ graphData \in SUBSET Handles
  /\ outcome \in {"none", "returned", "rethrown"}
  /\ started \in SUBSET Handles
  /\ ended \in Seq(Handles)
  /\ unwound \in Seq(Handles)
  /\ raised \in SUBSET Failures

(***************************************************************************)
(* The unwinding is the start order reversed: when run() ends it has       *)
(* visited exactly the handles whose start hook returned, last first.      *)
(***************************************************************************)
Reverse == [k \in 1 .. Len(unwound) |-> unwound[Len(unwound) + 1 - k]]

LifoUnwinding ==
  pc = "done" => /\ {unwound[k] : k \in 1 .. Len(unwound)} = started
                 /\ \A k \in 1 .. Len(Reverse) : Reverse[k] = k

(***************************************************************************)
(* A message node that returns leaves exactly one thing to stand for its   *)
(* reply in the conversation, whichever hook failed: baseRun's result or   *)
(* one error message.                                                      *)
(***************************************************************************)
OneReply ==
  pc = "done" /\ outcome = "returned" /\ node \in MessageNodes => Len(writes) = 1

(***************************************************************************)
(* A cancellation or an interrupt raised by any hook leaves the node, and  *)
(* nothing else does; it is never replaced by a reply.                     *)
(***************************************************************************)
ControlLeavesTheNode ==
  pc = "done" => /\ outcome = "rethrown" <=> "hard" \in raised
                 /\ outcome = "rethrown" => "startError" \notin {writes[k] : k \in 1 .. Len(writes)}

(***************************************************************************)
(* Whatever fails in agent_end, the turn's graphData is gone when it ends, *)
(* provided there is a handle at all.                                      *)
(***************************************************************************)
TurnDataCleared ==
  pc = "done" /\ node = "agent_end" /\ N > 0 => graphData = {}

(***************************************************************************)
(* README.md and the comment of run() promise a stack: every start that    *)
(* ran has its end executed on the way out.                                *)
(* (Does not hold.)                                                        *)
(***************************************************************************)
EveryStartHasItsEnd ==
  pc = "done" => {ended[k] : k \in 1 .. Len(ended)} = started
=============================================================================
