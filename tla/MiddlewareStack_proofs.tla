------------------------ MODULE MiddlewareStack_proofs ------------------------
(***************************************************************************)
(* Proofs about MiddlewareStack for any number of middleware handles.      *)
(***************************************************************************)
EXTENDS MiddlewareStack, SequenceTheorems, TLAPS

(***************************************************************************)
(* run() begins with every variable in its type.                           *)
(***************************************************************************)
LEMMA InitTypeOK == Init => TypeOK
BY NAssumption DEF Init, TypeOK

(***************************************************************************)
(* No step of run() takes a variable out of its type.                      *)
(***************************************************************************)
LEMMA NextTypeOK == TypeOK /\ [Next]_vars => TypeOK'
<1>. SUFFICES ASSUME TypeOK, [Next]_vars PROVE TypeOK'
  OBVIOUS
<1>. USE NAssumption DEF TypeOK, Handles, Failures
<1>1. CASE StartReturns
  <2>1. /\ i \in Handles /\ i' \in 1 .. N + 1
        /\ graphData' \in {BeforeHook, BeforeHook \cup {i}} /\ started' = started \cup {i}
        /\ UNCHANGED <<node, pc, error, writes, outcome, ended, unwound, raised>>
    BY <1>1 DEF StartReturns
  <2>2. graphData' \in SUBSET Handles
    BY <2>1 DEF BeforeHook
  <2>. QED
    BY <2>1, <2>2
<1>a. ASSUME NEW what \in {"base", "startError", "baseError"}, NEW failure
      PROVE  /\ Append(writes, what) \in Seq({"base", "startError", "baseError"})
             /\ ReplyFor(what, failure) \in Seq({"base", "startError", "baseError"})
  <2>1. writes \in Seq({"base", "startError", "baseError"})
    OBVIOUS
  <2>2. Append(writes, what) \in Seq({"base", "startError", "baseError"})
    BY <2>1, AppendProperties
  <2>. QED
    BY <2>1, <2>2 DEF ReplyFor
<1>2. ASSUME NEW failure \in StartFailures, StartFails(failure) PROVE TypeOK'
  <2>1. failure \in Failures /\ writes' \in Seq({"base", "startError", "baseError"})
    BY <1>a, <1>2 DEF StartFails, StartFailures
  <2>. QED
    BY <1>2, <2>1 DEF StartFails, Raise, BeforeHook
<1>3. CASE StartsDone
  BY <1>3 DEF StartsDone
<1>4. CASE BaseReturns
  <2>1. writes' \in Seq({"base", "startError", "baseError"})
    BY <1>a, <1>4 DEF BaseReturns
  <2>. QED
    BY <1>4, <2>1 DEF BaseReturns, UnwindFrom
<1>5. ASSUME NEW failure \in BaseFailures, BaseFails(failure) PROVE TypeOK'
  <2>1. failure \in Failures /\ writes' \in Seq({"base", "startError", "baseError"})
    BY <1>a, <1>5 DEF BaseFails, BaseFailures
  <2>. QED
    BY <1>5, <2>1 DEF BaseFails, Raise, UnwindFrom
<1>6. CASE BaseSkipped
  BY <1>6 DEF BaseSkipped, WritesWhenSkipped, UnwindFrom
<1>7. ASSUME Unwind PROVE i' \in 1 .. N + 1 /\ i' \in Handles /\ unwound' \in Seq(Handles)
  BY <1>7 DEF Unwind, MoreToUnwind
<1>8. CASE EndReturns
  <2>1. ended' \in Seq(Handles)
    BY <1>7, <1>8 DEF EndReturns
  <2>. QED
    BY <1>7, <1>8, <2>1 DEF EndReturns, AfterEnd
<1>9. ASSUME NEW failure \in EndFailures, EndFails(failure) PROVE TypeOK'
  <2>1. ended' \in Seq(Handles)
    BY <1>7, <1>9 DEF EndFails
  <2>. QED
    BY <1>7, <1>9, <2>1 DEF EndFails, EndFailures, Raise, AfterEnd
<1>10. CASE EndSkipped
  BY <1>7, <1>10 DEF EndSkipped, AfterEnd
<1>11. CASE Leave
  BY <1>11 DEF Leave
<1>12. CASE UNCHANGED vars
  BY <1>12 DEF vars
<1>. QED
  BY <1>1, <1>2, <1>3, <1>4, <1>5, <1>6, <1>8, <1>9, <1>10, <1>11, <1>12 DEF Next

(***************************************************************************)
(* The variables of MiddlewareStack keep their types, for any number of    *)
(* handles.                                                                *)
(***************************************************************************)
THEOREM TypeCorrect == Spec => []TypeOK
BY InitTypeOK, NextTypeOK, PTL DEF Spec

-----------------------------------------------------------------------------
(***************************************************************************)
(* The inductive invariant.  Up to the unwinding the handles before i have *)
(* been started; from then on each one visited moves i down by one, so     *)
(* what is left to visit is 1 .. i - 1 and what was visited counts down to *)
(* i.  agent_end's start hooks cannot fail, so it starts every handle.     *)
(***************************************************************************)
Stacked ==
  /\ started = 1 .. i - 1 + Len(unwound)
  /\ \A k \in 1 .. Len(unwound) : unwound[k] = i + Len(unwound) - k
  /\ pc \in {"start", "base"} => unwound = <<>>
  /\ pc = "done" => i = 1
  /\ node = "agent_end" /\ pc # "start" => started = Handles

(***************************************************************************)
(* There is at most one failure, the one `error' holds, and the reply that *)
(* was written fits it.                                                    *)
(***************************************************************************)
Accounted ==
  /\ raised = {error} \ {"none"}
  /\ pc = "start" => error = "none"
  /\ pc = "start" \/ (pc = "base" /\ error = "none") => writes = <<>>
  /\ pc = "base" /\ error = "soft" /\ node \in MessageNodes => Len(writes) = 1
  /\ pc \in {"end", "done"} /\ error # "hard" /\ node \in MessageNodes => Len(writes) = 1
  /\ error # "soft" => \A k \in 1 .. Len(writes) : writes[k] # "startError"
  /\ pc # "done" => outcome = "none"
  /\ pc = "done" => outcome = IF error = "hard" THEN "rethrown" ELSE "returned"

Cleared == node = "agent_end" /\ unwound # <<>> => graphData = {}

IInv == TypeOK /\ Stacked /\ Accounted /\ Cleared

(***************************************************************************)
(* The inductive invariant holds when run() begins.                        *)
(***************************************************************************)
LEMMA InitIInv == Init => IInv
BY InitTypeOK, NAssumption DEF Init, IInv, Stacked, Accounted, Cleared

(***************************************************************************)
(* The loop over the start hooks keeps the invariant, whether a hook       *)
(* returns or fails.                                                       *)
(***************************************************************************)
LEMMA StartIInv ==
  ASSUME IInv, StartReturns \/ StartsDone \/ \E failure \in StartFailures : StartFails(failure)
  PROVE  (Stacked /\ Accounted /\ Cleared)'
<1>. USE NAssumption
<1>0. TypeOK /\ i \in Nat /\ pc = "start" /\ unwound = <<>> /\ writes = <<>> /\ started = 1 .. i - 1
  BY DEF IInv, TypeOK, Stacked, Accounted, StartReturns, StartsDone, StartFails
<1>1. CASE StartReturns
  <2>a. started' = started \cup {i} /\ i' = i + 1 /\ i >= 1
    BY <1>0, <1>1 DEF StartReturns, TypeOK
  <2>b. (1 .. i - 1) \cup {i} = 1 .. i
    BY <1>0, <2>a
  <2>1. started' = 1 .. i' - 1 /\ unwound' = <<>> /\ pc' = "start"
    BY <1>0, <1>1, <2>a, <2>b DEF StartReturns
  <2>. QED
    BY <1>0, <1>1, <2>1 DEF IInv, StartReturns, Stacked, Accounted, Cleared
<1>2. CASE StartsDone
  <2>1. i = N + 1 /\ started = Handles
    BY <1>0, <1>2 DEF StartsDone, TypeOK, Handles
  <2>. QED
    BY <1>0, <1>2, <2>1 DEF IInv, StartsDone, Stacked, Accounted, Cleared
<1>3. ASSUME NEW failure \in StartFailures, StartFails(failure)
      PROVE  (Stacked /\ Accounted /\ Cleared)'
  <2>1. node # "agent_end" /\ failure \in Failures
    BY <1>3 DEF StartFailures
  <2>2. /\ raised' = {failure} /\ error' = failure /\ pc' = "base"
        /\ UNCHANGED <<node, i, outcome, started, unwound>>
    BY <1>0, <1>3 DEF IInv, Accounted, StartFails, Raise
  <2>3. /\ writes' = IF node \in MessageNodes /\ failure = "soft" THEN <<"startError">> ELSE <<>>
        /\ Len(<<"startError">>) = 1
    BY <1>0, <1>3 DEF StartFails, ReplyFor
  <2>. QED
    BY <1>0, <2>1, <2>2, <2>3 DEF IInv, Stacked, Accounted, Cleared, Failures
<1>. QED
  BY <1>1, <1>2, <1>3

(***************************************************************************)
(* baseRun keeps the invariant, whether it returns, fails or is skipped    *)
(* after a failed start hook.                                              *)
(***************************************************************************)
LEMMA BaseIInv ==
  ASSUME IInv, BaseReturns \/ BaseSkipped \/ \E failure \in BaseFailures : BaseFails(failure)
  PROVE  (Stacked /\ Accounted /\ Cleared)'
<1>. USE NAssumption
<1>0. TypeOK /\ pc = "base" /\ unwound = <<>>
  BY DEF IInv, Stacked, BaseReturns, BaseSkipped, BaseFails
<1>1. CASE BaseReturns
  <2>1. writes' = <<"base">> /\ Len(<<"base">>) = 1 /\ <<"base">>[1] = "base"
    BY <1>0, <1>1 DEF IInv, Accounted, BaseReturns
  <2>. QED
    BY <1>0, <1>1, <2>1 DEF IInv, BaseReturns, UnwindFrom, Stacked, Accounted, Cleared
<1>2. CASE BaseSkipped
  BY <1>0, <1>2 DEF IInv, BaseSkipped, WritesWhenSkipped, UnwindFrom, Stacked, Accounted, Cleared, TypeOK
<1>3. ASSUME NEW failure \in BaseFailures, BaseFails(failure)
      PROVE  (Stacked /\ Accounted /\ Cleared)'
  <2>1. failure \in Failures
    BY <1>3 DEF BaseFailures
  <2>2. /\ raised' = {failure} /\ error' = failure /\ pc' = "end"
        /\ UNCHANGED <<node, i, outcome, started, unwound, graphData>>
    BY <1>0, <1>3 DEF IInv, Accounted, BaseFails, Raise, UnwindFrom
  <2>3. /\ writes' = IF node \in MessageNodes /\ failure = "soft" THEN <<"baseError">> ELSE <<>>
        /\ Len(<<"baseError">>) = 1 /\ <<"baseError">>[1] = "baseError"
    BY <1>0, <1>3 DEF IInv, Accounted, BaseFails, ReplyFor
  <2>4. Stacked' /\ Cleared'
    BY <1>0, <2>2 DEF IInv, Stacked, Cleared
  <2>. QED
    BY <1>0, <2>1, <2>2, <2>3, <2>4 DEF IInv, Accounted, Failures
<1>. QED
  BY <1>1, <1>2, <1>3

(***************************************************************************)
(* One more handle visited by the unwinding: the visited ones stay the top *)
(* of the start order, reversed.                                           *)
(***************************************************************************)
LEMMA UnwindStacked ==
  ASSUME IInv, Unwind, UNCHANGED <<node, pc, started>>
  PROVE  Stacked'
<1>. USE NAssumption
<1>1. /\ TypeOK /\ i \in Nat /\ i > 1 /\ i' = i - 1 /\ unwound \in Seq(Handles)
      /\ unwound' = Append(unwound, i - 1) /\ pc = "end"
  BY DEF IInv, TypeOK, Unwind, MoreToUnwind
<1>2. Len(unwound') = Len(unwound) + 1 /\ Len(unwound) \in Nat
  BY <1>1
<1>3. started' = 1 .. i' - 1 + Len(unwound')
  BY <1>1, <1>2 DEF IInv, Stacked
<1>4. ASSUME NEW k \in 1 .. Len(unwound') PROVE unwound'[k] = i' + Len(unwound') - k
  <2>1. CASE k = Len(unwound) + 1
    BY <1>1, <1>2, <2>1
  <2>2. CASE k # Len(unwound) + 1
    BY <1>1, <1>2, <2>2 DEF IInv, Stacked
  <2>. QED
    BY <2>1, <2>2
<1>. QED
  BY <1>1, <1>3, <1>4 DEF IInv, Stacked

(***************************************************************************)
(* The unwinding keeps the invariant, whether an end hook returns, fails   *)
(* or is skipped after a failure.                                          *)
(***************************************************************************)
LEMMA EndIInv ==
  ASSUME IInv, EndReturns \/ EndSkipped \/ \E failure \in EndFailures : EndFails(failure)
  PROVE  (Stacked /\ Accounted /\ Cleared)'
<1>1. CASE EndReturns
  BY <1>1, UnwindStacked DEF IInv, EndReturns, Unwind, AfterEnd, Accounted, Cleared
<1>2. CASE EndSkipped
  BY <1>2, UnwindStacked DEF IInv, EndSkipped, Unwind, AfterEnd, Accounted, Cleared
<1>3. ASSUME NEW failure \in EndFailures, EndFails(failure)
      PROVE  (Stacked /\ Accounted /\ Cleared)'
  <2>1. failure \in Failures
    BY <1>3 DEF EndFailures
  <2>2. /\ raised' = {failure} /\ error' = failure /\ error = "none" /\ pc = "end"
        /\ UNCHANGED <<node, pc, writes, outcome, started>>
    BY <1>3 DEF IInv, Accounted, EndFails, Raise, Unwind
  <2>. QED
    BY <1>3, <2>1, <2>2, UnwindStacked DEF IInv, EndFails, AfterEnd, Accounted, Cleared, Failures
<1>. QED
  BY <1>1, <1>2, <1>3

(***************************************************************************)
(* Every step of run(), and every stutter, keeps the inductive invariant.  *)
(***************************************************************************)
LEMMA NextIInv == IInv /\ [Next]_vars => IInv'
<1>. SUFFICES ASSUME IInv, [Next]_vars PROVE IInv'
  OBVIOUS
<1>0. TypeOK'
  BY NextTypeOK DEF IInv
<1>1. CASE Leave
  BY <1>0, <1>1 DEF IInv, Leave, Stacked, Accounted, Cleared, TypeOK
<1>2. CASE UNCHANGED vars
  BY <1>0, <1>2 DEF vars, IInv, Stacked, Accounted, Cleared
<1>. QED
  BY <1>0, <1>1, <1>2, StartIInv, BaseIInv, EndIInv DEF IInv, Next

(***************************************************************************)
(* The inductive invariant holds in every state of run().                  *)
(***************************************************************************)
LEMMA Inductive == Spec => []IInv
BY InitIInv, NextIInv, PTL DEF Spec

(***************************************************************************)
(* run() unwinds exactly the handles it started, last first, whichever     *)
(* hook or baseRun failed and however many handles there are.              *)
(***************************************************************************)
THEOREM LifoUnwindingCorrect == Spec => []LifoUnwinding
<1>1. IInv => LifoUnwinding
  <2>. SUFFICES ASSUME IInv, pc = "done"
                PROVE  /\ {unwound[k] : k \in 1 .. Len(unwound)} = started
                       /\ \A k \in 1 .. Len(Reverse) : Reverse[k] = k
    BY DEF LifoUnwinding
  <2>. DEFINE n == Len(unwound)
  <2>1. n \in Nat /\ started = 1 .. n /\ \A k \in 1 .. n : unwound[k] = n + 1 - k
    BY DEF IInv, TypeOK, Stacked
  <2>. HIDE DEF n
  <2>2. {unwound[k] : k \in 1 .. n} = 1 .. n
    <3>1. ASSUME NEW j \in 1 .. n PROVE \E k \in 1 .. n : unwound[k] = j
      <4>1. n + 1 - j \in 1 .. n /\ unwound[n + 1 - j] = j
        BY <2>1
      <4>. QED
        BY <4>1
    <3>. QED
      BY <2>1, <3>1
  <2>3. Reverse \in Seq(Nat) /\ Len(Reverse) = n /\ \A k \in 1 .. n : Reverse[k] = k
    <3>1. Reverse = [k \in 1 .. n |-> unwound[n + 1 - k]]
      BY DEF Reverse, n
    <3>2. \A k \in 1 .. n : n + 1 - k \in 1 .. n /\ unwound[n + 1 - k] = k
      BY <2>1
    <3>. QED
      BY <2>1, <3>1, <3>2
  <2>. QED
    BY <2>1, <2>2, <2>3 DEF n
<1>. QED
  BY <1>1, Inductive, PTL

(***************************************************************************)
(* A message node that returns leaves exactly one thing to stand for its   *)
(* reply: baseRun's result or one error message, never both, never none.   *)
(***************************************************************************)
THEOREM OneReplyCorrect == Spec => []OneReply
<1>1. IInv => OneReply
  BY DEF IInv, TypeOK, Accounted, OneReply
<1>. QED
  BY <1>1, Inductive, PTL

(***************************************************************************)
(* A cancellation or an interrupt of any hook leaves the node, and nothing *)
(* else does: errorRethrow.                                                *)
(***************************************************************************)
THEOREM ControlLeavesTheNodeCorrect == Spec => []ControlLeavesTheNode
<1>1. IInv => ControlLeavesTheNode
  BY DEF IInv, TypeOK, Accounted, ControlLeavesTheNode
<1>. QED
  BY <1>1, Inductive, PTL

(***************************************************************************)
(* With any handle at all, agent_end leaves graphData empty, whatever end  *)
(* hooks fail.                                                             *)
(***************************************************************************)
THEOREM TurnDataClearedCorrect == Spec => []TurnDataCleared
<1>1. IInv => TurnDataCleared
  <2>. SUFFICES ASSUME IInv, pc = "done", node = "agent_end", N > 0
                PROVE  graphData = {}
    BY DEF TurnDataCleared
  <2>1. started = 1 .. Len(unwound) /\ started = 1 .. N /\ Len(unwound) \in Nat
    BY DEF IInv, TypeOK, Stacked, Handles
  <2>2. unwound # <<>>
    BY <2>1, NAssumption
  <2>. QED
    BY <2>2 DEF IInv, Cleared
<1>. QED
  BY <1>1, Inductive, PTL
=============================================================================
