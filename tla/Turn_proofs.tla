----------------------------- MODULE Turn_proofs -----------------------------
(***************************************************************************)
(* Proofs about what a turn of the agent is made of: the node that calls   *)
(* the model (ModelCall), for any number of turns, node runs and retries,  *)
(* and the tools, rules, requests and messages whose behaviours Tools      *)
(* holds, for any files, texts, paths and calls.                           *)
(***************************************************************************)
EXTENDS ModelCall, Tools, SequencesExt, SequenceTheorems, FiniteSetTheorems,
        WellFoundedInduction, TLAPS

(***************************************************************************)
(* A step of Tools is one of the part that runs.                           *)
(***************************************************************************)
LEMMA ToolsStep ==
  ASSUME [ToolsNext]_toolsVars
  PROVE  /\ part' = part
         /\ part = "edits" => [Edits!Next]_editVars
         /\ part = "search" => [Search!Next]_searchVars
         /\ part = "rules" => [Rules!Next]_ruleVars
         /\ part = "turns" => [Turns!Next]_turnVars
         /\ part = "asked" => [Asked!Next]_askedVars
BY DEF ToolsNext, toolsVars

Message == [role : Roles, content : Contents]

(***************************************************************************)
(* Writing one message to the conversation puts it last and changes        *)
(* nothing before it.                                                      *)
(***************************************************************************)
LEMMA Written ==
  ASSUME NEW s \in Seq(Message), NEW r \in Roles, NEW c \in Contents
  PROVE  LET t == s \o Msg(r, c) IN
           /\ t \in Seq(Message) /\ t # <<>> /\ Len(t) = Len(s) + 1
           /\ t[Len(t)].role = r /\ t[Len(t)].content = c
           /\ \A k \in 1 .. Len(s) : t[k] = s[k]
           /\ c # "aborted" => Aborted(t) = Aborted(s)
<1>. DEFINE e == [role |-> r, content |-> c]
            t == s \o <<e>>
<1>1. e \in Message
  BY DEF Message
<1>2. t \in Seq(Message) /\ Len(t) = Len(s) + 1 /\ t[Len(t)] = e /\ Len(s) \in Nat
  BY <1>1
<1>3. \A k \in 1 .. Len(s) : t[k] = s[k]
  BY <1>1
<1>4. t # <<>>
  BY <1>2
<1>5. ASSUME c # "aborted" PROVE Aborted(t) = Aborted(s)
  <2>1. 1 .. Len(t) = 1 .. Len(s) \cup {Len(t)}
    BY <1>2
  <2>2. t[Len(t)].content = c
    BY <1>2
  <2>. HIDE DEF t, e
  <2>. QED
    BY <1>3, <1>5, <2>1, <2>2 DEF Aborted
<1>6. t[Len(t)].role = r /\ t[Len(t)].content = c
  BY <1>2
<1>. HIDE DEF e
<1>7. t = s \o Msg(r, c)
  BY DEF e, Msg
<1>. QED
  BY <1>2, <1>3, <1>4, <1>5, <1>6, <1>7

(***************************************************************************)
(* What the type of the counters rests on, and what a provider call starts *)
(* with: each pass of the retry loop makes one call, the temporary message *)
(* holds what this call has streamed, and repairMessages has just run.     *)
(***************************************************************************)
Counted ==
  /\ pc # "idle" => inTurn
  /\ systemList <= nodeRuns
  /\ pc \in {"loop", "waiting"} => attempts = retry
  /\ pc = "calling" => attempts = retry + 1 /\ streamed = temp /\ ~LastIsAssistant

IInv == TypeOK /\ Counted

(***************************************************************************)
(* The inductive invariant holds before the first turn.                    *)
(***************************************************************************)
LEMMA InitIInv == Init => IInv
<1>. SUFFICES ASSUME Init PROVE TypeOK /\ Counted
  BY DEF IInv
<1>1. messages \in Seq([role : Roles, content : Contents])
  BY DEF Init
<1>2. /\ turn \in 0 .. MaxTurns /\ nodeRuns \in 0 .. MaxNodeRuns /\ retry \in 0 .. MaxRetry
      /\ system \in 0 .. MaxNodeRuns /\ systemList \in 0 .. MaxNodeRuns
      /\ attempts \in 0 .. MaxRetry + 1 /\ temp \in 0 .. Long /\ streamed \in 0 .. Long
  BY BoundsAssumption DEF Init, Long
<1>3. TypeOK
  BY <1>1, <1>2 DEF Init, TypeOK
<1>. QED
  BY <1>3 DEF Init, Counted

(***************************************************************************)
(* The messages with which a run of the node ends are well formed, and end *)
(* with the error message.                                                 *)
(***************************************************************************)
LEMMA ErrorEnds ==
  ASSUME NEW ms \in Seq(Message), EndWithError(ms)
  PROVE  /\ messages' \in Seq(Message) /\ messages' # <<>>
         /\ Aborted(messages') = Aborted(ms)
         /\ inTurn' = FALSE /\ pc' = "idle"
BY Written DEF EndWithError, Roles, Contents

(***************************************************************************)
(* repairMessages leaves a well-formed conversation that does not end with *)
(* the assistant, and adds no placeholder.                                 *)
(***************************************************************************)
LEMMA RepairedEnds ==
  ASSUME messages \in Seq(Message)
  PROVE  /\ Repaired \in Seq(Message)
         /\ Aborted(Repaired) = Aborted(messages)
         /\ Repaired # <<>> => Repaired[Len(Repaired)].role # "assistant"
<1>1. CASE LastIsAssistant
  <2>1. Repaired = messages \o Msg("user", "continue")
    BY <1>1 DEF Repaired
  <2>2. "user" \in Roles /\ "continue" \in Contents
    BY DEF Roles, Contents
  <2>. QED
    BY <2>1, <2>2, Written
<1>2. CASE ~LastIsAssistant
  BY <1>2 DEF Repaired, LastIsAssistant
<1>. QED
  BY <1>1, <1>2

(***************************************************************************)
(* The placeholder of a failed attempt is written for a long text only.    *)
(***************************************************************************)
LEMMA PlaceholderEnds ==
  ASSUME messages \in Seq(Message)
  PROVE  /\ messages \o Placeholder \in Seq(Message)
         /\ temp # Long => Aborted(messages \o Placeholder) = Aborted(messages)
<1>1. CASE temp = Long
  BY <1>1, Written DEF Placeholder, Roles, Contents
<1>2. CASE temp # Long
  BY <1>2 DEF Placeholder
<1>. QED
  BY <1>1, <1>2

(***************************************************************************)
(* A reply of the model, with the results of its tool calls if it has any, *)
(* keeps the conversation well formed and adds no placeholder.             *)
(***************************************************************************)
LEMMA ReplyEnds ==
  ASSUME messages \in Seq(Message), NEW callsTools \in BOOLEAN, CallReturns(callsTools)
  PROVE  /\ messages' \in Seq(Message)
         /\ Aborted(messages') = Aborted(messages)
         /\ ~callsTools => messages'[Len(messages')].content = "reply"
<1>. DEFINE t == messages \o Msg("assistant", "reply")
<1>0. /\ "assistant" \in Roles /\ "reply" \in Contents
      /\ "tool" \in Roles /\ "result" \in Contents
  BY DEF Roles, Contents
<1>1. t \in Seq(Message) /\ Aborted(t) = Aborted(messages) /\ t[Len(t)].content = "reply"
  BY <1>0, Written
<1>2. messages' = t \o (IF callsTools THEN Msg("tool", "result") ELSE <<>>)
  BY DEF CallReturns
<1>. HIDE DEF t
<1>3. CASE callsTools
  BY <1>0, <1>1, <1>2, <1>3, Written
<1>4. CASE ~callsTools
  <2>1. messages' = t
    BY <1>1, <1>2, <1>4
  <2>. QED
    BY <1>1, <1>4, <2>1
<1>. QED
  BY <1>3, <1>4

(***************************************************************************)
(* No step of the llm node, of its provider or of the turns takes the      *)
(* variables out of their types or the counters apart.                     *)
(***************************************************************************)
LEMMA NextIInv == IInv /\ [Next]_vars => IInv'
<1>. SUFFICES ASSUME IInv, [Next]_vars PROVE IInv'
  OBVIOUS
<1>. USE BoundsAssumption DEF Counted
<1>0. TypeOK /\ Counted /\ messages \in Seq(Message)
  BY DEF IInv, TypeOK, Message
<1>a. ASSUME messages' \in Seq(Message), Counted',
             /\ turn' \in 0 .. MaxTurns /\ inTurn' \in BOOLEAN /\ nodeRuns' \in 0 .. MaxNodeRuns
             /\ pc' \in {"idle", "loop", "calling", "waiting"}
             /\ system' \in 0 .. MaxNodeRuns /\ systemList' \in 0 .. MaxNodeRuns
             /\ temp' \in 0 .. Long /\ retry' \in 0 .. MaxRetry
             /\ attempts' \in 0 .. MaxRetry + 1 /\ streamed' \in 0 .. Long
      PROVE  IInv'
  BY <1>a DEF IInv, TypeOK, Message
<1>b. ASSUME messages' \in Seq(Message), inTurn' = FALSE, pc' = "idle",
             nodeRuns' \in nodeRuns .. MaxNodeRuns, system' \in {0, system}, temp' \in {0, temp},
             UNCHANGED <<turn, systemList, retry, attempts, streamed>>
      PROVE  IInv'
  <2>1. nodeRuns' \in 0 .. MaxNodeRuns /\ systemList' <= nodeRuns'
    BY <1>0, <1>b DEF TypeOK
  <2>2. Counted'
    BY <1>b, <2>1
  <2>3. system' \in 0 .. MaxNodeRuns /\ temp' \in 0 .. Long
    BY <1>0, <1>b DEF TypeOK, Long
  <2>. QED
    BY <1>0, <1>a, <1>b, <2>1, <2>2, <2>3 DEF TypeOK
<1>1. CASE BeginTurn
  <2>1. messages' \in Seq(Message)
    BY <1>0, <1>1, Written DEF BeginTurn, Roles, Contents
  <2>. QED
    BY <1>0, <1>1, <1>a, <2>1 DEF BeginTurn, TypeOK, Long
<1>2. CASE Enter
  BY <1>0, <1>2, <1>a DEF Enter, TypeOK, Long
<1>3. CASE StartHookFails
  <2>1. messages' \in Seq(Message) /\ inTurn' = FALSE /\ pc' = "idle"
    BY <1>0, <1>3, ErrorEnds DEF StartHookFails
  <2>2. nodeRuns' \in nodeRuns .. MaxNodeRuns
    BY <1>0, <1>3 DEF StartHookFails, TypeOK
  <2>. QED
    BY <1>3, <1>b, <2>1, <2>2 DEF StartHookFails
<1>4. CASE CallModel
  <2>1. messages' \in Seq(Message) /\ ~LastIsAssistant'
    BY <1>0, <1>4, RepairedEnds DEF CallModel, LastIsAssistant
  <2>2. attempts' = retry + 1 /\ attempts' \in 0 .. MaxRetry + 1
    BY <1>0, <1>4 DEF CallModel, TypeOK
  <2>3. /\ temp' = 0 /\ streamed' = 0 /\ pc' = "calling" /\ inTurn
        /\ UNCHANGED <<turn, inTurn, nodeRuns, system, systemList, retry>>
    BY <1>0, <1>4 DEF CallModel, TempCleared
  <2>4. Counted'
    BY <1>0, <2>1, <2>2, <2>3
  <2>. QED
    BY <1>0, <1>a, <2>1, <2>2, <2>3, <2>4 DEF TypeOK, Long
<1>5. CASE RunHookFails
  <2>1. messages' \in Seq(Message) /\ inTurn' = FALSE /\ pc' = "idle"
    BY <1>0, <1>5, RepairedEnds, ErrorEnds DEF RunHookFails
  <2>2. nodeRuns' \in nodeRuns .. MaxNodeRuns /\ system' = system /\ temp' = 0
    BY <1>0, <1>5 DEF RunHookFails, TypeOK, TempCleared
  <2>. QED
    BY <1>5, <1>b, <2>1, <2>2 DEF RunHookFails
<1>6. CASE Token
  <2>1. LastIsAssistant' = LastIsAssistant
    BY <1>6 DEF Token, LastIsAssistant
  <2>. QED
    BY <1>0, <1>6, <1>a, <2>1 DEF Token, TypeOK, Long
<1>7. ASSUME NEW callsTools \in BOOLEAN, CallReturns(callsTools) PROVE IInv'
  <2>1. messages' \in Seq(Message)
    BY <1>0, <1>7, ReplyEnds
  <2>. QED
    BY <1>0, <1>7, <1>a, <2>1 DEF CallReturns, TypeOK, Long
<1>8. CASE Retry
  <2>1. messages' \in Seq(Message)
    BY <1>0, <1>8, PlaceholderEnds DEF Retry
  <2>. QED
    BY <1>0, <1>8, <1>a, <2>1 DEF Retry, RetriesLeft, TypeOK, Long
<1>9. CASE GiveUp
  <2>1. messages' \in Seq(Message) /\ inTurn' = FALSE /\ pc' = "idle"
    BY <1>0, <1>9, PlaceholderEnds, ErrorEnds DEF GiveUp
  <2>. QED
    BY <1>0, <1>9, <1>a, <2>1 DEF GiveUp, TypeOK, Long
<1>10. CASE Cancelled
  <2>1. messages' \in Seq(Message)
    BY <1>10 DEF Cancelled
  <2>2. /\ inTurn' = FALSE /\ pc' = "idle" /\ system' = 0
        /\ UNCHANGED <<turn, nodeRuns, systemList, temp, retry, attempts, streamed>>
    BY <1>10 DEF Cancelled
  <2>3. nodeRuns' \in nodeRuns .. MaxNodeRuns
    BY <1>0, <2>2 DEF TypeOK
  <2>. QED
    BY <1>b, <2>1, <2>2, <2>3
<1>11. CASE TimerFires
  BY <1>0, <1>11, <1>a DEF TimerFires, TypeOK, Long
<1>12. CASE UNCHANGED vars
  <2>1. LastIsAssistant' = LastIsAssistant
    BY <1>12 DEF vars, LastIsAssistant
  <2>. QED
    BY <1>0, <1>12, <1>a, <2>1 DEF vars, TypeOK
<1>. QED
  BY <1>1, <1>2, <1>3, <1>4, <1>5, <1>6, <1>7, <1>8, <1>9, <1>10, <1>11, <1>12 DEF Next

(***************************************************************************)
(* The inductive invariant holds in every state of the node.               *)
(***************************************************************************)
LEMMA Inductive == Spec => []IInv
BY InitIInv, NextIInv, PTL DEF Spec

(***************************************************************************)
(* The variables of the node keep their types; attempts never exceeds one  *)
(* more than llmMaxRetry.                                                  *)
(***************************************************************************)
THEOREM TypeCorrect == Spec => []TypeOK
<1>1. IInv => TypeOK
  BY DEF IInv
<1>. QED
  BY <1>1, Inductive, PTL

(***************************************************************************)
(* The provider is never called on a conversation that ends with the       *)
(* assistant: repairMessages runs before every attempt.                    *)
(***************************************************************************)
THEOREM ModelHasTheTurnCorrect == Spec => []ModelHasTheTurn
<1>1. IInv => ModelHasTheTurn
  BY DEF IInv, Counted, ModelHasTheTurn
<1>. QED
  BY <1>1, Inductive, PTL

(***************************************************************************)
(* A placeholder is written for an attempt that has streamed a long text   *)
(* itself, for any number of attempts, runs and turns.                     *)
(***************************************************************************)
THEOREM AbortedOnlyIfLongCorrect == Spec => AbortedOnlyIfLong
<1>. DEFINE NewAborted == Aborted(messages') \ Aborted(messages) # {}
<1>1. ASSUME IInv, [Next]_vars, NewAborted PROVE streamed = Long
  <2>0. messages \in Seq(Message) /\ Counted
    BY <1>1 DEF IInv, TypeOK, Message
  <2>1. Aborted(messages') # Aborted(messages)
    BY <1>1
  <2>2. CASE BeginTurn
    BY <2>0, <2>1, <2>2, Written DEF BeginTurn, Roles, Contents
  <2>3. CASE Enter \/ Token \/ TimerFires \/ UNCHANGED vars
    BY <2>1, <2>3 DEF Enter, Token, TimerFires, vars
  <2>4. CASE StartHookFails
    BY <2>0, <2>1, <2>4, ErrorEnds DEF StartHookFails
  <2>5. CASE CallModel \/ RunHookFails
    <3>1. Repaired \in Seq(Message) /\ Aborted(Repaired) = Aborted(messages)
      BY <2>0, RepairedEnds
    <3>2. messages' = Repaired \/ EndWithError(Repaired)
      BY <2>5 DEF CallModel, RunHookFails
    <3>3. ASSUME EndWithError(Repaired) PROVE Aborted(messages') = Aborted(Repaired)
      BY <3>1, <3>3, ErrorEnds
    <3>. QED
      BY <2>1, <3>1, <3>2, <3>3
  <2>6. ASSUME NEW callsTools \in BOOLEAN, CallReturns(callsTools) PROVE FALSE
    BY <2>0, <2>1, <2>6, ReplyEnds
  <2>7. CASE Retry \/ GiveUp
    <3>. DEFINE ms == messages \o Placeholder
    <3>1. ms \in Seq(Message) /\ (temp # Long => Aborted(ms) = Aborted(messages))
      BY <2>0, PlaceholderEnds
    <3>2. messages' = ms \/ EndWithError(ms)
      BY <2>7 DEF Retry, GiveUp
    <3>. HIDE DEF ms
    <3>3. ASSUME EndWithError(ms) PROVE Aborted(messages') = Aborted(ms)
      BY <3>1, <3>3, ErrorEnds
    <3>4. temp = Long
      BY <2>1, <3>1, <3>2, <3>3
    <3>. QED
      BY <2>0, <2>7, <3>4 DEF Retry, GiveUp, Counted
  <2>8. CASE Cancelled
    <3>1. Aborted(messages') = {}
      BY <2>8 DEF Cancelled, Aborted
    <3>. QED
      BY <1>1, <3>1
  <2>. QED
    BY <1>1, <2>2, <2>3, <2>4, <2>5, <2>6, <2>7, <2>8 DEF Next
<1>2. ASSUME IInv, [Next]_vars PROVE [NewAborted => streamed = Long]_vars
  BY <1>1, <1>2
<1>. QED
  BY <1>2, Inductive, PTL DEF Spec, AbortedOnlyIfLong

(***************************************************************************)
(* A failing provider ends the turn only after llmMaxRetry + 1 attempts,   *)
(* for every value of llmMaxRetry.                                         *)
(***************************************************************************)
THEOREM EveryRetryUsedCorrect == Spec => EveryRetryUsed
<1>. DEFINE Fails == /\ pc = "calling" /\ ~inTurn' /\ messages' # <<>>
                     /\ messages'[Len(messages')].content = "error"
<1>1. ASSUME IInv, [Next]_vars, Fails PROVE attempts = MaxRetry + 1
  <2>0. messages \in Seq(Message) /\ Counted /\ TypeOK
    BY <1>1 DEF IInv, TypeOK, Message
  <2>1. pc = "calling" /\ inTurn /\ ~inTurn' /\ messages' # <<>>
    BY <1>1, <2>0 DEF Counted
  <2>2. CASE GiveUp
    BY <2>0, <2>2, BoundsAssumption DEF GiveUp, RetriesLeft, Counted, TypeOK
  <2>3. ASSUME NEW callsTools \in BOOLEAN, CallReturns(callsTools) PROVE FALSE
    BY <1>1, <2>0, <2>1, <2>3, ReplyEnds DEF CallReturns
  <2>4. ~Cancelled /\ ~Token /\ ~Retry
    BY <2>1 DEF Cancelled, Token, Retry
  <2>5. ~BeginTurn /\ ~Enter /\ ~StartHookFails /\ ~CallModel /\ ~RunHookFails /\ ~TimerFires
    BY <2>1 DEF BeginTurn, Enter, StartHookFails, CallModel, RunHookFails, TimerFires
  <2>6. ~UNCHANGED vars
    BY <2>1 DEF vars
  <2>. QED
    BY <1>1, <2>2, <2>3, <2>4, <2>5, <2>6 DEF Next
<1>2. ASSUME IInv, [Next]_vars PROVE [Fails => attempts = MaxRetry + 1]_vars
  BY <1>1, <1>2
<1>. QED
  BY <1>2, Inductive, PTL DEF Spec, EveryRetryUsed

-----------------------------------------------------------------------------
(* Numbers and sequences.                                                  *)

\* A set of numbers that has one has a least one.
LEMMA LeastNumber ==
  ASSUME NEW S \in SUBSET Nat, S # {}
  PROVE  \E i \in S : \A j \in S : i <= j
<1> DEFINE T == {0 .. m : m \in S}
<1>1. T \subseteq FiniteSubsetsOf(Nat) /\ T # {}
  <2>1. \A m \in S : 0 .. m \in SUBSET Nat /\ IsFiniteSet(0 .. m)
    BY FS_Interval
  <2>. QED
    BY <2>1 DEF FiniteSubsetsOf
<1>2. IsWellFoundedOn(StrictSubsetOrdering(Nat), FiniteSubsetsOf(Nat))
  BY FS_StrictSubsetOrderingWellFounded
<1>3. \E x \in T : \A y \in T : ~ (<<y, x>> \in StrictSubsetOrdering(Nat))
  <2>. HIDE DEF T
  <2>. QED
    BY <1>1, <1>2, WFMin
<1>4. PICK i \in S : \A y \in T : ~ (<<y, 0 .. i>> \in StrictSubsetOrdering(Nat))
  BY <1>3
<1>5. ASSUME NEW j \in S PROVE i <= j
  <2>1. SUFFICES ASSUME j < i PROVE FALSE
    OBVIOUS
  <2>2. 0 .. j \subseteq 0 .. i /\ 0 .. j # 0 .. i /\ 0 .. j \in SUBSET Nat /\ 0 .. i \in SUBSET Nat
    BY <2>1
  <2>3. <<0 .. j, 0 .. i>> \in StrictSubsetOrdering(Nat)
    BY <2>2 DEF StrictSubsetOrdering
  <2>. QED
    BY <1>4, <2>3
<1>. QED
  BY <1>5

\* f holds the sums of the first 1 .. n of seqs.
Flattens(f, seqs, n) == f = [i \in 1 .. n |-> IF i = 1 THEN seqs[i] ELSE f[i - 1] \o seqs[i]]

\* The function by which FlattenSeq is defined exists, for any sequence.
LEMMA FlattenExists ==
  ASSUME NEW seqs, NEW n \in Nat
  PROVE  \E f : Flattens(f, seqs, n)
<1> DEFINE Bad == {m \in Nat : ~ \E f : Flattens(f, seqs, m)}
<1>1. SUFFICES ASSUME Bad # {} PROVE FALSE
  OBVIOUS
<1>2. PICK m \in Bad : \A k \in Bad : m <= k
  <2>. HIDE DEF Bad
  <2>1. Bad \subseteq Nat
    BY DEF Bad
  <2>. QED
    BY <1>1, <2>1, LeastNumber
<1>3. m # 0
  <2>1. Flattens([i \in 1 .. 0 |-> 0], seqs, 0)
    BY DEF Flattens
  <2>. QED
    BY <2>1
<1>4. m - 1 \in Nat /\ m - 1 \notin Bad
  BY <1>2, <1>3
<1>5. PICK f : Flattens(f, seqs, m - 1)
  BY <1>4
<1>. DEFINE g == [i \in 1 .. m |-> IF i = 1 THEN seqs[i] ELSE f[i - 1] \o seqs[i]]
<1>6. \A i \in 1 .. m - 1 : f[i] = IF i = 1 THEN seqs[i] ELSE f[i - 1] \o seqs[i]
  <2>. DEFINE h == [i \in 1 .. m - 1 |-> IF i = 1 THEN seqs[i] ELSE f[i - 1] \o seqs[i]]
  <2>1. f = h
    BY <1>5 DEF Flattens
  <2>2. \A i \in 1 .. m - 1 : h[i] = IF i = 1 THEN seqs[i] ELSE f[i - 1] \o seqs[i]
    OBVIOUS
  <2>. HIDE DEF h
  <2>. QED
    BY <2>1, <2>2
<1>7. \A i \in 1 .. m - 1 : g[i] = f[i]
  <2>1. \A i \in 1 .. m - 1 : i \in 1 .. m
    BY <1>4
  <2>. QED
    BY <1>6, <2>1
<1>8. Flattens(g, seqs, m)
  <2>1. \A i \in 1 .. m : i # 1 => i - 1 \in 1 .. m - 1
    BY <1>4
  <2>2. \A i \in 1 .. m : i # 1 => g[i - 1] = f[i - 1]
    BY <2>1, <1>7
  <2>3. g = [i \in 1 .. m |-> IF i = 1 THEN seqs[i] ELSE g[i - 1] \o seqs[i]]
    BY <2>2
  <2>. QED
    BY <2>3 DEF Flattens
<1>. QED
  BY <1>2, <1>8

\* What the sums are, one by one.
LEMMA FlattensSteps ==
  ASSUME NEW seqs, NEW n \in Nat, NEW f, Flattens(f, seqs, n)
  PROVE  \A i \in 1 .. n : f[i] = IF i = 1 THEN seqs[i] ELSE f[i - 1] \o seqs[i]
<1>. DEFINE h == [i \in 1 .. n |-> IF i = 1 THEN seqs[i] ELSE f[i - 1] \o seqs[i]]
<1>1. f = h
  BY DEF Flattens
<1>2. \A i \in 1 .. n : h[i] = IF i = 1 THEN seqs[i] ELSE f[i - 1] \o seqs[i]
  OBVIOUS
<1>. HIDE DEF h
<1>. QED
  BY <1>1, <1>2

\* What FlattenSeq gives is the value of that function at the last place.
LEMMA FlattenUnfolds ==
  ASSUME NEW S, NEW seqs \in Seq(S), seqs # <<>>
  PROVE  \E f : Flattens(f, seqs, Len(seqs)) /\ FlattenSeq(seqs) = f[Len(seqs)]
<1>1. \E f : Flattens(f, seqs, Len(seqs))
  <2>1. Len(seqs) \in Nat
    OBVIOUS
  <2>. QED
    BY <2>1, FlattenExists
<1>. DEFINE flatten == CHOOSE f : f = [i \in 1 .. Len(seqs) |-> IF i = 1 THEN seqs[i] ELSE f[i - 1] \o seqs[i]]
<1>2. Flattens(flatten, seqs, Len(seqs))
  BY <1>1 DEF Flattens
<1>3. FlattenSeq(seqs) = flatten[Len(seqs)]
  <2>1. Len(seqs) # 0
    OBVIOUS
  <2>. QED
    BY <2>1 DEF FlattenSeq
<1>. QED
  BY <1>2, <1>3

\* Two of these functions agree on the places where their sequences do.
LEMMA FlattensAgree ==
  ASSUME NEW s, NEW t, NEW n \in Nat, NEW k \in Nat, n <= k, \A i \in 1 .. n : s[i] = t[i],
         NEW f, Flattens(f, s, n), NEW g, Flattens(g, t, k)
  PROVE  \A i \in 1 .. n : f[i] = g[i]
<1>. DEFINE Bad == {i \in 1 .. n : f[i] # g[i]}
<1>1. SUFFICES ASSUME Bad # {} PROVE FALSE
  OBVIOUS
<1>2. PICK i \in Bad : \A j \in Bad : i <= j
  <2>. HIDE DEF Bad
  <2>1. Bad \subseteq Nat
    BY DEF Bad
  <2>. QED
    BY <1>1, <2>1, LeastNumber
<1>3. /\ f[i] = IF i = 1 THEN s[i] ELSE f[i - 1] \o s[i]
      /\ g[i] = IF i = 1 THEN t[i] ELSE g[i - 1] \o t[i]
  <2>1. i \in 1 .. n /\ i \in 1 .. k
    BY <1>2
  <2>. QED
    BY <2>1, FlattensSteps
<1>4. i # 1 => f[i - 1] = g[i - 1]
  <2>1. i # 1 => i - 1 \in 1 .. n /\ i - 1 < i /\ i - 1 \in Int
    OBVIOUS
  <2>. QED
    BY <1>2, <2>1
<1>. QED
  BY <1>2, <1>3, <1>4

\* One place more puts one sequence more at the end.
LEMMA FlattensLast ==
  ASSUME NEW s, NEW t, NEW n \in Nat, n # 0, \A i \in 1 .. n : s[i] = t[i],
         NEW f, Flattens(f, s, n), NEW g, Flattens(g, t, n + 1)
  PROVE  g[n + 1] = f[n] \o t[n + 1]
<1>. DEFINE k == n + 1
<1>1. k \in Nat /\ n <= k /\ k \in 1 .. k /\ k # 1 /\ k - 1 = n /\ n \in 1 .. n
  OBVIOUS
<1>2. Flattens(g, t, k)
  OBVIOUS
<1>. HIDE DEF k
<1>3. \A i \in 1 .. n : f[i] = g[i]
  BY <1>1, <1>2, FlattensAgree
<1>4. \A i \in 1 .. k : g[i] = IF i = 1 THEN t[i] ELSE g[i - 1] \o t[i]
  BY <1>1, <1>2, FlattensSteps
<1>5. g[k] = g[k - 1] \o t[k]
  BY <1>1, <1>4
<1>. QED
  BY <1>1, <1>3, <1>5 DEF k

\* Nothing flattened is nothing,
LEMMA FlattenEmpty == FlattenSeq(<<>>) = <<>>
BY DEF FlattenSeq

\* one sequence flattened is that sequence,
LEMMA FlattenOne == ASSUME NEW s PROVE FlattenSeq(<<s>>) = s
<1>1. <<s>> \in Seq({s}) /\ <<s>> # <<>> /\ Len(<<s>>) = 1
  OBVIOUS
<1>2. PICK f : Flattens(f, <<s>>, 1) /\ FlattenSeq(<<s>>) = f[1]
  BY <1>1, FlattenUnfolds
<1>. QED
  BY <1>2, FlattensSteps

\* one sequence more comes at the end,
LEMMA FlattenAppend ==
  ASSUME NEW S, NEW seqs \in Seq(Seq(S)), NEW s \in Seq(S)
  PROVE  FlattenSeq(Append(seqs, s)) = FlattenSeq(seqs) \o s
<1>. DEFINE n == Len(seqs)
            more == Append(seqs, s)
<1>1. /\ n \in Nat /\ more \in Seq(Seq(S)) /\ more # <<>> /\ Len(more) = n + 1 /\ more[n + 1] = s
      /\ \A i \in 1 .. n : more[i] = seqs[i]
  <2>1. n \in Nat
    OBVIOUS
  <2>. QED
    BY <2>1, AppendProperties
<1>2. CASE seqs = <<>>
  <2>1. more = <<s>>
    BY <1>2
  <2>2. <<>> \o s = s
    OBVIOUS
  <2>. QED
    BY <1>2, <2>1, <2>2, FlattenEmpty, FlattenOne
<1>3. CASE seqs # <<>>
  <2>1. PICK f : Flattens(f, seqs, n) /\ FlattenSeq(seqs) = f[n]
    BY <1>3, FlattenUnfolds
  <2>2. PICK g : Flattens(g, more, n + 1) /\ FlattenSeq(more) = g[n + 1]
    <3>. HIDE DEF more, n
    <3>. QED
      BY <1>1, FlattenUnfolds
  <2>3. n # 0 /\ n \in Nat
    BY <1>3
  <2>4. Flattens(f, seqs, n) /\ Flattens(g, more, n + 1)
    BY <2>1, <2>2
  <2>. HIDE DEF more, n
  <2>5. g[n + 1] = f[n] \o more[n + 1]
    BY <1>1, <2>3, <2>4, FlattensLast
  <2>. QED
    BY <1>1, <2>1, <2>2, <2>5 DEF more
<1>. QED
  BY <1>2, <1>3

\* and what the sequences are made of is what the result is made of.
LEMMA FlattenType ==
  ASSUME NEW S, NEW seqs \in Seq(Seq(S))
  PROVE  FlattenSeq(seqs) \in Seq(S)
<1>1. CASE seqs = <<>>
  <2>1. <<>> \in Seq(S)
    OBVIOUS
  <2>. QED
    BY <1>1, <2>1, FlattenEmpty
<1>2. CASE seqs # <<>>
  <2>. DEFINE n == Len(seqs)
  <2>1. n \in Nat /\ n # 0 /\ \A i \in 1 .. n : seqs[i] \in Seq(S)
    BY <1>2
  <2>2. PICK f : Flattens(f, seqs, n) /\ FlattenSeq(seqs) = f[n]
    BY <1>2, FlattenUnfolds
  <2>. HIDE DEF n
  <2>. DEFINE Bad == {i \in 1 .. n : f[i] \notin Seq(S)}
  <2>3. SUFFICES ASSUME Bad # {} PROVE FALSE
    BY <2>1, <2>2
  <2>4. PICK i \in Bad : \A j \in Bad : i <= j
    <3>. HIDE DEF Bad
    <3>1. Bad \subseteq Nat
      BY DEF Bad
    <3>. QED
      BY <2>3, <3>1, LeastNumber
  <2>5. f[i] = IF i = 1 THEN seqs[i] ELSE f[i - 1] \o seqs[i]
    BY <2>1, <2>2, FlattensSteps
  <2>6. i # 1 => f[i - 1] \in Seq(S)
    <3>1. i # 1 => i - 1 \in 1 .. n /\ i - 1 < i /\ i - 1 \in Int
      BY <2>1
    <3>. QED
      BY <2>4, <3>1
  <2>. QED
    <3>1. i \in 1 .. n /\ f[i] \notin Seq(S) /\ seqs[i] \in Seq(S)
      BY <2>1
    <3>2. CASE i = 1
      BY <2>5, <3>1, <3>2
    <3>3. CASE i # 1
      <4>1. f[i] = f[i - 1] \o seqs[i]
        BY <2>5, <3>3
      <4>. QED
        BY <2>6, <3>1, <3>3, <4>1, ConcatProperties
    <3>. QED
      BY <3>2, <3>3
<1>. QED
  BY <1>1, <1>2

(***************************************************************************)
(* What holds of the empty sequence, and of a sequence with one more when  *)
(* it holds of the sequence, holds of all.                                 *)
(***************************************************************************)
LEMMA AllSequences ==
  ASSUME NEW S, NEW Good \in SUBSET Seq(S), <<>> \in Good,
         \A s \in Good, e \in S : Append(s, e) \in Good
  PROVE  Good = Seq(S)
<1>. DEFINE Bad == {Len(s) : s \in Seq(S) \ Good}
<1>1. SUFFICES ASSUME Bad # {} PROVE FALSE
  OBVIOUS
<1>2. PICK n \in Bad : \A k \in Bad : n <= k
  <2>1. Bad \in SUBSET Nat
    OBVIOUS
  <2>. HIDE DEF Bad
  <2>. QED
    BY <1>1, <2>1, LeastNumber
<1>3. PICK s \in Seq(S) \ Good : n = Len(s)
  BY <1>2
<1>4. s # <<>>
  BY <1>3
<1>5. PICK t \in Seq(S), e \in S : s = Append(t, e)
  BY <1>3, <1>4, SequenceEmptyOrAppend
<1>6. Len(s) = Len(t) + 1 /\ Len(t) \in Nat
  BY <1>5, AppendProperties
<1>7. t \notin Good
  BY <1>3, <1>5
<1>8. Len(t) \in Bad
  BY <1>7
<1>9. n <= Len(t)
  <2>. HIDE DEF Bad
  <2>. QED
    BY <1>2, <1>8
<1>. QED
  BY <1>3, <1>6, <1>9

\* Sequences may be joined in any order.
JoinsAnyhow(S) == \A u, v, x \in Seq(S) : (u \o v) \o x = u \o (v \o x)

LEMMA Associative == ASSUME NEW S PROVE JoinsAnyhow(S)
BY ConcatAssociative DEF JoinsAnyhow

\* An element put at the end of the second of two sequences is at the end of both.
LEMMA ConcatAppend ==
  ASSUME NEW S, NEW s \in Seq(S), NEW t \in Seq(S), NEW e \in S
  PROVE  s \o Append(t, e) = Append(s \o t, e)
<1>1. <<e>> \in Seq(S) /\ s \o t \in Seq(S)
  OBVIOUS
<1>2. Append(t, e) = t \o <<e>> /\ Append(s \o t, e) = (s \o t) \o <<e>>
  BY <1>1, AppendIsConcat
<1>. QED
  BY <1>1, <1>2, ConcatAssociative

\* A function of the elements goes over an appended one.
LEMMA MapAppend ==
  ASSUME NEW S, NEW s \in Seq(S), NEW e \in S, NEW f
  PROVE  [i \in DOMAIN Append(s, e) |-> f[Append(s, e)[i]]] = Append([i \in DOMAIN s |-> f[s[i]]], f[e])
<1>. DEFINE T == {f[x] : x \in S}
            n == Len(s)
            a == [i \in DOMAIN Append(s, e) |-> f[Append(s, e)[i]]]
            m == [i \in DOMAIN s |-> f[s[i]]]
<1>1. /\ n \in Nat /\ DOMAIN s = 1 .. n /\ DOMAIN Append(s, e) = 1 .. n + 1
      /\ \A i \in 1 .. n : Append(s, e)[i] = s[i] /\ s[i] \in S
      /\ Append(s, e)[n + 1] = e
  BY AppendProperties, LenProperties
<1>2. m \in Seq(T) /\ Len(m) = n /\ f[e] \in T
  <2>1. m = [i \in 1 .. n |-> f[s[i]]]
    BY <1>1
  <2>2. \A i \in 1 .. n : f[s[i]] \in T
    BY <1>1
  <2>. HIDE DEF m, T
  <2>3. m \in Seq(T) /\ Len(m) = n
    BY <1>1, <2>1, <2>2, IsASeq
  <2>4. f[e] \in T
    BY DEF T
  <2>. QED
    BY <2>3, <2>4
<1>3. /\ Append(m, f[e]) \in Seq(T) /\ Len(Append(m, f[e])) = n + 1
      /\ \A i \in 1 .. n : Append(m, f[e])[i] = m[i]
      /\ Append(m, f[e])[n + 1] = f[e]
  <2>. HIDE DEF m, T
  <2>. QED
    BY <1>2, AppendProperties
<1>4. a = [i \in 1 .. n + 1 |-> f[Append(s, e)[i]]]
  BY <1>1
<1>5. \A i \in 1 .. n + 1 : a[i] = IF i = n + 1 THEN f[e] ELSE f[s[i]]
  BY <1>1, <1>4
<1>6. a \in Seq(T) /\ Len(a) = n + 1
  <2>1. \A i \in 1 .. n + 1 : f[Append(s, e)[i]] \in T
    BY <1>1
  <2>. HIDE DEF a, T
  <2>. QED
    BY <1>1, <1>4, <2>1, IsASeq
<1>7. \A i \in 1 .. n + 1 : a[i] = Append(m, f[e])[i]
  <2>1. \A i \in 1 .. n : m[i] = f[s[i]]
    BY <1>1
  <2>2. \A i \in 1 .. n + 1 : i # n + 1 => i \in 1 .. n
    BY <1>1
  <2>. HIDE DEF a, m
  <2>. QED
    BY <1>3, <1>5, <2>1, <2>2
<1>. HIDE DEF a, m, T
<1>8. a = Append(m, f[e])
  BY <1>3, <1>6, <1>7, SeqEqual
<1>. QED
  BY <1>8 DEF a, m

\* The sum of what a function makes of each element, with one element more.
SumOf(f, s) == FlattenSeq([i \in DOMAIN s |-> f[s[i]]])

Makes(f, S, T) == f \in [S -> Seq(T)]

\* One element more adds, at the end, what it is made into.
LEMMA SumOfAppend ==
  ASSUME NEW S, NEW T, NEW f, Makes(f, S, T), NEW s \in Seq(S), NEW e \in S
  PROVE  SumOf(f, s) \in Seq(T) /\ SumOf(f, Append(s, e)) = SumOf(f, s) \o f[e]
<1>. DEFINE m == [i \in DOMAIN s |-> f[s[i]]]
<1>1. m \in Seq(Seq(T))
  <2>1. Len(s) \in Nat /\ DOMAIN s = 1 .. Len(s) /\ \A i \in 1 .. Len(s) : f[s[i]] \in Seq(T)
    BY DEF Makes
  <2>2. m = [i \in 1 .. Len(s) |-> f[s[i]]]
    BY <2>1
  <2>. HIDE DEF m
  <2>. QED
    BY <2>1, <2>2, IsASeq
<1>2. [i \in DOMAIN Append(s, e) |-> f[Append(s, e)[i]]] = Append(m, f[e])
  BY MapAppend
<1>3. f[e] \in Seq(T)
  BY DEF Makes
<1>. HIDE DEF m
<1>4. FlattenSeq(Append(m, f[e])) = FlattenSeq(m) \o f[e] /\ FlattenSeq(m) \in Seq(T)
  BY <1>1, <1>3, FlattenAppend, FlattenType
<1>. QED
  BY <1>2, <1>4 DEF m, SumOf

-----------------------------------------------------------------------------
(* Rules for paths.                                                        *)

(***************************************************************************)
(* Unless somebody calls clear, no step leaves a path in the cache that    *)
(* the tree leads elsewhere.                                               *)
(***************************************************************************)
LEMMA RulesStep ==
  ~Cleared /\ Rules!CacheFresh /\ [Rules!Next]_ruleVars => Rules!CacheFresh'
<1>. SUFFICES ASSUME ~Cleared, Rules!CacheFresh, [Rules!Next]_ruleVars PROVE Rules!CacheFresh'
  OBVIOUS
<1>1. ASSUME NEW r \in Routers, Rules!Clear(r) PROVE Rules!CacheFresh'
  BY <1>1 DEF Rules!Clear
<1>2. ASSUME NEW r, NEW p, NEW k, NEW op, Rules!AddRule(r, p, k, op) PROVE Rules!CacheFresh'
  BY <1>2 DEF Rules!AddRule, Rules!CacheCleared, Rules!CacheFresh
<1>3. ASSUME NEW r, NEW p, NEW k, Rules!RemoveRule(r, p, k) PROVE Rules!CacheFresh'
  BY <1>3 DEF Rules!RemoveRule, Rules!CacheCleared, Rules!CacheFresh
<1>4. ASSUME NEW r \in Routers, NEW p, NEW k, Rules!Asks(r, p, k) PROVE Rules!CacheFresh'
  <2>1. PICK h : Rules!Get(r, p, k, h) /\ UNCHANGED rule
    BY <1>4 DEF Rules!Asks
  <2>2. CASE UNCHANGED cache
    BY <2>1, <2>2 DEF Rules!CacheFresh
  <2>3. CASE ~UNCHANGED cache
    <3>1. PICK at \in Rules!Node(r, p) :
            /\ p \notin DOMAIN cache
            /\ cache' = [q \in DOMAIN cache \union {p} |-> IF q = p THEN at ELSE cache[q]]
      BY <2>1, <2>3 DEF Rules!Get
    <3>2. \E n \in Rules!Find(rule[r], p) : at = [router |-> r, node |-> n]
      BY <3>1 DEF Rules!Node
    <3>. QED
      BY <2>1, <3>1, <3>2 DEF Rules!CacheFresh
  <2>. QED
    BY <2>2, <2>3
<1>5. CASE UNCHANGED ruleVars
  BY <1>5 DEF ruleVars, Rules!CacheFresh
<1>. QED
  BY <1>1, <1>2, <1>3, <1>4, <1>5 DEF Rules!Next, ruleVars

(***************************************************************************)
(* The node that the router remembers for a path is the one the tree has   *)
(* for it now (router.h): no question is judged by a rule that was         *)
(* replaced or removed.  Nobody in the repository calls clear, which       *)
(* deletes the nodes and leaves the cache.                                 *)
(***************************************************************************)
THEOREM CacheFreshCorrect == ~Cleared => (ToolsSpec => [](part = "rules" => Rules!CacheFresh))
<1>. SUFFICES ASSUME ~Cleared PROVE ToolsSpec => [](part = "rules" => Rules!CacheFresh)
  OBVIOUS
<1>. DEFINE Inv == part = "rules" => Rules!CacheFresh
<1>1. ToolsInit => Inv
  BY DEF ToolsInit, Rules!Init, Rules!CacheFresh
<1>2. Inv /\ [ToolsNext]_toolsVars => Inv'
  BY ToolsStep, RulesStep
<1>. QED
  BY <1>1, <1>2, PTL DEF ToolsSpec

(***************************************************************************)
(* A search of a tree that has its root ends at nodes of the tree: there   *)
(* is a longest known prefix of a path, since the root is one.             *)
(***************************************************************************)
LEMMA FoundInTree ==
  ASSUME NEW tree, <<>> \in DOMAIN tree, NEW p \in Rules!Paths, Segments # {}
  PROVE  Rules!Find(tree, p) \subseteq DOMAIN tree
<1>. DEFINE known == {q \in Rules!Heads(p) : q \in DOMAIN tree}
            deep == CHOOSE q \in known : \A o \in known : Len(o) <= Len(q)
<1>1. p \in Seq(Segments) /\ Len(p) \in Nat
  BY DEF Rules!Paths
<1>2. \A q \in known : Len(q) \in 0 .. Len(p)
  <2>1. \A n \in 0 .. Len(p) : Len(SubSeq(p, 1, n)) = n
    BY <1>1, SubSeqProperties
  <2>. QED
    BY <2>1 DEF Rules!Heads
<1>3. <<>> \in known
  <2>1. SubSeq(p, 1, 0) = <<>>
    BY <1>1, SubSeqEmpty
  <2>2. 0 \in 0 .. Len(p)
    BY <1>1
  <2>. QED
    BY <2>1, <2>2 DEF Rules!Heads
<1>4. \E q \in known : \A o \in known : Len(o) <= Len(q)
  <2>. DEFINE Short == {Len(p) - Len(q) : q \in known}
  <2>1. Short \in SUBSET Nat /\ Short # {}
    <3>. HIDE DEF known
    <3>. QED
      BY <1>1, <1>2, <1>3
  <2>2. PICK s \in Short : \A t \in Short : s <= t
    <3>. HIDE DEF Short
    <3>. QED
      BY <2>1, LeastNumber
  <2>3. PICK q \in known : s = Len(p) - Len(q)
    OBVIOUS
  <2>4. ASSUME NEW o \in known PROVE Len(o) <= Len(q)
    <3>. HIDE DEF known
    <3>1. Len(p) - Len(q) <= Len(p) - Len(o)
      BY <2>2, <2>3
    <3>2. Len(o) \in Int /\ Len(q) \in Int
      BY <1>2
    <3>. QED
      BY <1>1, <3>1, <3>2
  <2>. QED
    BY <2>4
<1>5. deep \in known
  BY <1>4
<1>. QED
  BY <1>5 DEF Rules!Find

(***************************************************************************)
(* No step removes the root of a tree, unless somebody calls clear.        *)
(***************************************************************************)
Rooted == \A r \in Routers : <<>> \in DOMAIN rule[r]

RulesIInv == Rules!CacheFresh /\ DOMAIN rule = Routers /\ Rooted

\* No step of the router leaves a node out of its tree or a stale one in its cache.
LEMMA RootedStep == ~Cleared /\ RulesIInv /\ [Rules!Next]_ruleVars => RulesIInv'
<1>. SUFFICES ASSUME ~Cleared, RulesIInv, [Rules!Next]_ruleVars
              PROVE  DOMAIN rule' = Routers /\ Rooted'
  BY RulesStep DEF RulesIInv
<1>1. ASSUME NEW r \in Routers, NEW p, NEW k, NEW op, Rules!AddRule(r, p, k, op)
      PROVE  DOMAIN rule' = Routers /\ Rooted'
  BY <1>1 DEF Rules!AddRule, Rules!Grown, RulesIInv, Rooted
<1>2. ASSUME NEW r \in Routers, NEW p, NEW k, Rules!RemoveRule(r, p, k)
      PROVE  DOMAIN rule' = Routers /\ Rooted'
  BY <1>2 DEF Rules!RemoveRule, RulesIInv, Rooted
<1>3. ASSUME UNCHANGED rule PROVE DOMAIN rule' = Routers /\ Rooted'
  BY <1>3 DEF RulesIInv, Rooted
<1>. QED
  BY <1>1, <1>2, <1>3 DEF Rules!Next, Rules!Clear, Rules!Asks, ruleVars

(***************************************************************************)
(* With one router in the process a tool's question is answered from that  *)
(* router's rules as they are when it asks (permission.h): a cached node   *)
(* is the one a search would find.  With two the cache, which they share,  *)
(* answers one router's question from the other's tree.                    *)
(***************************************************************************)
THEOREM OwnRulesCorrect ==
  ~Cleared /\ Segments # {} /\ (\E r : Routers = {r}) => (ToolsSpec => OwnRules)
<1>. SUFFICES ASSUME ~Cleared, Segments # {}, NEW r, Routers = {r} PROVE ToolsSpec => OwnRules
  OBVIOUS
<1>. DEFINE Inv == part = "rules" => RulesIInv
<1>1. ToolsInit => Inv
  BY DEF ToolsInit, RulesIInv, Rooted, Rules!Init, Rules!Bare, Rules!CacheFresh
<1>2. Inv /\ [ToolsNext]_toolsVars => Inv'
  BY ToolsStep, RootedStep
<1>3. ASSUME RulesIInv, [Rules!Next]_ruleVars PROVE Rules!AnsweredByRules
  <2>1. SUFFICES ASSUME lookup' # lookup PROVE Rules!AnsweredByRules
    BY DEF Rules!AnsweredByRules
  <2>2. PICK p \in Rules!Paths, k \in Kinds : Rules!Asks(r, p, k)
    BY <1>3, <2>1 DEF Rules!Next, Rules!Clear, Rules!AddRule, Rules!RemoveRule, ruleVars
  <2>3. PICK h : /\ Rules!Get(r, p, k, h) /\ UNCHANGED rule
                 /\ lookup'.router = r /\ lookup'.path = p /\ lookup'.kind = k
                 /\ lookup'.handle = h
    BY <2>2 DEF Rules!Asks
  <2>4. ASSUME NEW at \in Rules!Node(r, p)
        PROVE  \E n \in Rules!Find(rule[r], p) : at = [router |-> r, node |-> n]
    BY <1>3 DEF RulesIInv, Rules!CacheFresh, Rules!Node
  <2>5. Rules!Find(rule[r], p) \subseteq DOMAIN rule[r]
    BY <1>3, FoundInTree DEF RulesIInv, Rooted
  <2>6. CASE Rules!Node(r, p) = {}
    <3>1. p \notin DOMAIN cache /\ Rules!Find(rule[r], p) = {}
      BY <2>6 DEF Rules!Node
    <3>2. h = Rules!NoRule
      BY <2>3, <2>6 DEF Rules!Get
    <3>. QED
      BY <2>3, <3>1, <3>2 DEF Rules!AnsweredByRules
  <2>7. CASE Rules!Node(r, p) # {}
    <3>1. PICK at \in Rules!Node(r, p) : h \in Rules!Handles(at, k)
      BY <2>3, <2>7 DEF Rules!Get
    <3>2. PICK n \in Rules!Find(rule[r], p) : at = [router |-> r, node |-> n]
      BY <2>4
    <3>3. n \in DOMAIN rule[r] /\ at.router = r /\ at.node = n
      BY <2>5, <3>2
    <3>4. h = rule[r][n][k]
      BY <3>1, <3>3 DEF Rules!Handles, Rules!Alive
    <3>. QED
      BY <2>3, <3>2, <3>4 DEF Rules!AnsweredByRules
  <2>. QED
    BY <2>6, <2>7
<1>4. Inv /\ [ToolsNext]_toolsVars => [part = "rules" => Rules!AnsweredByRules]_ruleVars
  BY <1>3, ToolsStep
<1>. QED
  BY <1>1, <1>2, <1>4, PTL DEF ToolsSpec, OwnRules

-----------------------------------------------------------------------------
(* What keeps a conversation short.                                        *)

TurnMessage ==
  [n : Nat, role : {"system", "user", "assistant", "tool"}, tool : {"none", "read", "write"},
   path : TurnPaths \union {"none"}, text : {"short", "long", "offloaded", "truncated", "summary"},
   id : Nat]

(***************************************************************************)
(* The parts of Summarization's properties, about any list of messages.    *)
(***************************************************************************)
WriteIn(list, i) ==
  IF list[i].role = "assistant" /\ list[i].tool = "write" THEN {list[i].path} ELSE {}

KeptIn(list) ==
  \A i \in 1 .. Len(list) :
    list[i].text = "truncated" /\ WriteIn(list, i) # {} =>
      \E j \in i + 1 .. Len(list) : WriteIn(list, i) \intersect WriteIn(list, j) # {}

NumbersIn(list) == {list[i].n : i \in 1 .. Len(list)}

OrderedIn(list) ==
  \A i, j \in 1 .. Len(list) :
    i < j /\ list[i].n # 0 /\ list[j].n # 0 => list[i].n < list[j].n

ReadableIn(list, texts, next, mine) ==
  \A i \in 1 .. Len(list) :
    list[i].text = "offloaded" =>
      /\ list[i].id < next
      /\ list[i].id \notin mine => list[i].id \in DOMAIN texts /\ texts[list[i].id] = list[i].n

TurnsIInv ==
  /\ talk \in Seq(TurnMessage) /\ nextId \in Nat /\ added \in Nat
  /\ ReadableIn(talk, store, nextId, own)
  /\ NumbersIn(talk) \union history \union {0} = 0 .. added
  /\ OrderedIn(talk) /\ KeptIn(talk)

\* From the invariant follow the properties of the conversation that is kept short.
LEMMA TurnsProperties ==
  ASSUME TurnsIInv
  PROVE  Turns!OffloadedReadable /\ Turns!NothingForgotten /\ Turns!NewestKept
<1>1. DOMAIN talk = 1 .. Len(talk) /\ Len(talk) \in Nat
  BY DEF TurnsIInv
<1>2. Turns!OffloadedReadable
  BY <1>1 DEF TurnsIInv, ReadableIn, Turns!OffloadedReadable
<1>3. Turns!NothingForgotten
  <2>1. {m.n : m \in Turns!ToSet(talk)} = NumbersIn(talk)
    BY <1>1 DEF Turns!ToSet, NumbersIn
  <2>2. 0 .. added \union {0} = 0 .. added
    BY DEF TurnsIInv
  <2>. QED
    BY <1>1, <2>1, <2>2 DEF TurnsIInv, OrderedIn, Turns!NothingForgotten, Turns!None
<1>4. Turns!NewestKept
  <2>1. \A i : Turns!WriteKey(i) = WriteIn(talk, i)
    BY DEF Turns!WriteKey, WriteIn
  <2>. QED
    BY <1>1, <2>1 DEF TurnsIInv, KeptIn, Turns!NewestKept, Turns!Later
<1>. QED
  BY <1>2, <1>3, <1>4

(***************************************************************************)
(* A message that is said is the newest.                                   *)
(***************************************************************************)
LEMMA SaysStep ==
  ASSUME TurnsIInv, NEW r, NEW t, NEW p, NEW x, x \notin {"offloaded", "truncated"},
         Turns!Says(r, t, p, x), Turns!Message(added + 1, r, t, p, x) \in TurnMessage
  PROVE  TurnsIInv'
<1>. DEFINE m == Turns!Message(added + 1, r, t, p, x)
            k == Len(talk)
<1>1. /\ talk' = Append(talk, m) /\ added' = added + 1 /\ added \in Nat
      /\ UNCHANGED <<store, nextId, history, own>>
  BY DEF Turns!Says, TurnsIInv
<1>2. m.n = added + 1 /\ m.text = x
  BY DEF Turns!Message
<1>3. m \in TurnMessage
  OBVIOUS
<1>. HIDE DEF m
<1>4. k \in Nat /\ talk \in Seq(TurnMessage)
  BY DEF TurnsIInv
<1>5. /\ talk' \in Seq(TurnMessage) /\ Len(talk') = k + 1 /\ talk'[k + 1] = m
      /\ \A i \in 1 .. k : talk'[i] = talk[i]
  BY <1>1, <1>3, <1>4, AppendProperties
<1>. HIDE DEF k
<1>6. \A i \in 1 .. k + 1 : i \in 1 .. k \/ i = k + 1
  BY <1>4
<1>7. ReadableIn(talk, store, nextId, own)'
  BY <1>1, <1>2, <1>5, <1>6 DEF ReadableIn, TurnsIInv, k
<1>8. NumbersIn(talk') = NumbersIn(talk) \union {added + 1}
  <2>1. 1 .. k + 1 = 1 .. k \union {k + 1}
    BY <1>4
  <2>2. NumbersIn(talk') = {talk'[i].n : i \in 1 .. k \union {k + 1}}
    BY <1>5, <2>1 DEF NumbersIn
  <2>3. NumbersIn(talk) = {talk'[i].n : i \in 1 .. k}
    BY <1>5 DEF NumbersIn, k
  <2>. QED
    BY <1>2, <1>5, <2>2, <2>3
<1>9. (NumbersIn(talk) \union history \union {0} = 0 .. added)'
  <2>1. 0 .. added + 1 = 0 .. added \union {added + 1}
    BY <1>1
  <2>. QED
    BY <1>1, <1>8, <2>1 DEF TurnsIInv
<1>10. \A i \in 1 .. k : talk[i].n < added + 1
  <2>1. \A i \in 1 .. k : talk[i].n \in 0 .. added
    BY DEF TurnsIInv, NumbersIn, k
  <2>. QED
    BY <1>1, <2>1
<1>11. OrderedIn(talk')
  BY <1>2, <1>4, <1>5, <1>6, <1>10 DEF TurnsIInv, OrderedIn, k
<1>12. KeptIn(talk')
  <2>1. \A i \in 1 .. k : WriteIn(talk', i) = WriteIn(talk, i)
    BY <1>5 DEF WriteIn
  <2>2. \A i \in 1 .. k : \A j \in i + 1 .. k : j \in i + 1 .. k + 1 /\ j \in 1 .. k
    BY <1>4
  <2>. QED
    BY <1>2, <1>5, <1>6, <2>1, <2>2 DEF TurnsIInv, KeptIn, k
<1>. QED
  BY <1>1, <1>5, <1>7, <1>9, <1>11, <1>12 DEF TurnsIInv

(***************************************************************************)
(* Counting is counting, in the instance too.                              *)
(***************************************************************************)
LEMMA TurnsCardinality == \A S : Turns!Cardinality(S) = Cardinality(S)
BY DEF Turns!Cardinality, Cardinality

(***************************************************************************)
(* What the model does to the store itself takes nobody else's id.         *)
(***************************************************************************)
LEMMA StoreStep ==
  ASSUME TurnsIInv, Turns!Insert \/ (\E id : Turns!Set(id) \/ Turns!Delete(id))
  PROVE  TurnsIInv'
<1>1. \E id : /\ own' = own \union {id} /\ UNCHANGED <<talk, history, added>>
              /\ nextId' \in {nextId, nextId + 1}
              /\ \A i \in DOMAIN store : i # id => i \in DOMAIN store' /\ store'[i] = store[i]
  BY DEF Turns!Insert, Turns!Set, Turns!Delete, Turns!With, Turns!getNextId
<1>2. nextId' \in Nat /\ nextId <= nextId' /\ nextId \in Nat
  BY <1>1 DEF TurnsIInv
<1>3. \A i \in 1 .. Len(talk) : talk[i].id \in Nat
  <2>1. \A i \in 1 .. Len(talk) : talk[i] \in TurnMessage
    BY DEF TurnsIInv
  <2>2. \A m \in TurnMessage : m.id \in Nat
    BY DEF TurnMessage
  <2>. QED
    BY <2>1, <2>2
<1>4. ReadableIn(talk, store, nextId, own)'
  <2>1. \A i \in 1 .. Len(talk) : talk[i].id < nextId => talk[i].id < nextId'
    BY <1>2, <1>3
  <2>. QED
    BY <1>1, <2>1 DEF ReadableIn, TurnsIInv
<1>. QED
  BY <1>1, <1>2, <1>4 DEF TurnsIInv, NumbersIn, OrderedIn, KeptIn, WriteIn

(***************************************************************************)
(* A call's arguments are cut only when a later message writes the path,   *)
(* and a cut text is not an id.                                            *)
(***************************************************************************)
LEMMA DeduplicatedList ==
  ASSUME TurnsIInv
  PROVE  LET d == Turns!Deduplicated IN
           /\ d \in Seq(TurnMessage) /\ Len(d) = Len(talk)
           /\ \A i \in 1 .. Len(talk) : d[i].role = talk[i].role
           /\ ReadableIn(d, store, nextId, own)
           /\ NumbersIn(d) = NumbersIn(talk) /\ OrderedIn(d) /\ KeptIn(d)
<1>. DEFINE d == Turns!Deduplicated
            n == Len(talk)
<1>1. DOMAIN talk = 1 .. n /\ n \in Nat /\ \A i \in 1 .. n : talk[i] \in TurnMessage
  BY DEF TurnsIInv
<1>2. \A i \in 1 .. n : d[i] = IF Turns!Outdated(i) THEN [talk[i] EXCEPT !.text = "truncated"] ELSE talk[i]
  BY <1>1 DEF Turns!Deduplicated
<1>3. d = [i \in 1 .. n |-> d[i]]
  BY <1>1 DEF Turns!Deduplicated
<1>4. ASSUME NEW i \in 1 .. n, Turns!Outdated(i), WriteIn(talk, i) # {}
      PROVE  \E j \in i + 1 .. n : WriteIn(talk, i) \intersect WriteIn(talk, j) # {}
  <2>1. Turns!ReadKey(i) = {}
    BY <1>4 DEF WriteIn, Turns!ReadKey
  <2>2. \A j : Turns!WriteKey(j) = WriteIn(talk, j)
    BY DEF WriteIn, Turns!WriteKey
  <2>. QED
    BY <1>4, <2>1, <2>2 DEF Turns!Outdated, Turns!Later
<1>. HIDE DEF d
<1>5. \A i \in 1 .. n :
        /\ d[i] \in TurnMessage /\ d[i].n = talk[i].n /\ d[i].role = talk[i].role
        /\ d[i].tool = talk[i].tool /\ d[i].path = talk[i].path /\ d[i].id = talk[i].id
        /\ d[i].text = IF Turns!Outdated(i) THEN "truncated" ELSE talk[i].text
  <2>1. ASSUME NEW m \in TurnMessage
        PROVE  LET c == [m EXCEPT !.text = "truncated"] IN
               /\ c \in TurnMessage /\ c.n = m.n /\ c.role = m.role
               /\ c.tool = m.tool /\ c.path = m.path /\ c.id = m.id /\ c.text = "truncated"
    BY DEF TurnMessage
  <2>2. SUFFICES ASSUME NEW i \in 1 .. n
        PROVE  /\ d[i] \in TurnMessage /\ d[i].n = talk[i].n /\ d[i].role = talk[i].role
               /\ d[i].tool = talk[i].tool /\ d[i].path = talk[i].path /\ d[i].id = talk[i].id
               /\ d[i].text = IF Turns!Outdated(i) THEN "truncated" ELSE talk[i].text
    OBVIOUS
  <2>3. talk[i] \in TurnMessage
    BY <1>1
  <2>4. CASE Turns!Outdated(i)
    <3>1. d[i] = [talk[i] EXCEPT !.text = "truncated"]
      BY <1>2, <2>4
    <3>. QED
      BY <2>1, <2>3, <2>4, <3>1
  <2>5. CASE ~Turns!Outdated(i)
    BY <1>2, <2>3, <2>5
  <2>. QED
    BY <2>4, <2>5
<1>6. d \in Seq(TurnMessage) /\ Len(d) = n
  BY <1>1, <1>3, <1>5, IsASeq
<1>7. ReadableIn(d, store, nextId, own)
  BY <1>5, <1>6 DEF TurnsIInv, ReadableIn
<1>8. NumbersIn(d) = NumbersIn(talk)
  BY <1>5, <1>6 DEF NumbersIn
<1>9. OrderedIn(d)
  BY <1>5, <1>6 DEF TurnsIInv, OrderedIn
<1>10. KeptIn(d)
  <2>1. \A i \in 1 .. n : WriteIn(d, i) = WriteIn(talk, i)
    BY <1>5 DEF WriteIn
  <2>2. \A i \in 1 .. n : \A j \in i + 1 .. n : j \in 1 .. n
    BY <1>1
  <2>. QED
    BY <1>4, <1>5, <1>6, <2>1, <2>2 DEF TurnsIInv, KeptIn
<1>. QED
  BY <1>5, <1>6, <1>7, <1>8, <1>9, <1>10 DEF d

(***************************************************************************)
(* The rank of a number in a finite set of naturals: how many are less.    *)
(***************************************************************************)
LEMMA Ranks ==
  ASSUME NEW n \in Nat, NEW O \in SUBSET (1 .. n)
  PROVE  LET rank(i) == Cardinality({j \in O : j < i}) IN
           /\ IsFiniteSet(O) /\ Cardinality(O) \in Nat
           /\ \A i \in O : rank(i) \in Nat /\ rank(i) < Cardinality(O)
           /\ \A i, k \in O : i < k => rank(i) < rank(k)
<1>. DEFINE below(i) == {j \in O : j < i}
<1>1. IsFiniteSet(O)
  <2>1. IsFiniteSet(1 .. n)
    BY FS_Interval
  <2>. QED
    BY <2>1, FS_Subset
<1>2. ASSUME NEW S \in SUBSET O, NEW T \in SUBSET S, T # S
      PROVE  Cardinality(T) \in Nat /\ Cardinality(S) \in Nat /\ Cardinality(T) < Cardinality(S)
  <2>1. IsFiniteSet(S)
    BY <1>1, FS_Subset
  <2>2. IsFiniteSet(T) /\ Cardinality(T) <= Cardinality(S) /\ Cardinality(T) # Cardinality(S)
    BY <1>2, <2>1, FS_Subset
  <2>3. Cardinality(T) \in Nat /\ Cardinality(S) \in Nat
    BY <2>1, <2>2, FS_CardinalityType
  <2>. QED
    BY <2>2, <2>3
<1>3. ASSUME NEW i \in O PROVE Cardinality(below(i)) \in Nat /\ Cardinality(below(i)) < Cardinality(O)
  <2>1. below(i) \in SUBSET O /\ below(i) # O /\ O \in SUBSET O
    OBVIOUS
  <2>. HIDE DEF below
  <2>. QED
    BY <1>2, <2>1
<1>4. ASSUME NEW i \in O, NEW k \in O, i < k PROVE Cardinality(below(i)) < Cardinality(below(k))
  <2>1. \A j \in O : j \in Int
    OBVIOUS
  <2>2. \A j \in O : j < i => j < k
    BY <1>4, <2>1
  <2>3. \A j \in below(i) : j \in below(k)
    BY <2>2
  <2>4. i \in below(k) /\ i \notin below(i)
    BY <1>4, <2>1
  <2>5. below(k) \in SUBSET O
    OBVIOUS
  <2>. HIDE DEF below
  <2>. QED
    BY <1>2, <2>3, <2>4, <2>5
<1>5. Cardinality(O) \in Nat
  BY <1>1, FS_CardinalityType
<1>. QED
  BY <1>1, <1>3, <1>4, <1>5

(***************************************************************************)
(* Each long text gets an id of its own, none of which was given before,   *)
(* and the store has the text at it.                                       *)
(***************************************************************************)
LEMMA OffloadedList ==
  ASSUME TurnsIInv, NEW list \in Seq(TurnMessage), ReadableIn(list, store, nextId, own),
         OrderedIn(list), KeptIn(list)
  PROVE  LET work == Turns!Offload(list)
             next == nextId + Turns!Cardinality(DOMAIN work.texts)
         IN  /\ work.list \in Seq(TurnMessage) /\ Len(work.list) = Len(list) /\ next \in Nat
             /\ \A i \in 1 .. Len(list) : work.list[i].role = list[i].role
             /\ ReadableIn(work.list, Turns!With(work.texts), next, own \ DOMAIN work.texts)
             /\ NumbersIn(work.list) = NumbersIn(list) /\ OrderedIn(work.list) /\ KeptIn(work.list)
<1>. DEFINE O == Turns!Offloads(list)
            n == Len(list)
            rank(i) == Turns!Cardinality({j \in O : j < i})
            IdOf(i) == nextId + rank(i)
            ids == {IdOf(i) : i \in O}
            l == Turns!Offload(list).list
            texts == Turns!Offload(list).texts
<1>1. n \in Nat /\ DOMAIN list = 1 .. n /\ \A i \in 1 .. n : list[i] \in TurnMessage
  OBVIOUS
<1>2. O \in SUBSET (1 .. n) /\ O = {i \in 1 .. n : list[i].text = "long"}
  BY <1>1 DEF Turns!Offloads
<1>3. /\ l = [i \in 1 .. n |-> IF i \in O THEN [list[i] EXCEPT !.text = "offloaded", !.id = IdOf(i)] ELSE list[i]]
      /\ texts = [id \in ids |-> list[CHOOSE i \in O : IdOf(i) = id].n]
  <2>1. l = [i \in DOMAIN list |-> IF i \in O THEN [list[i] EXCEPT !.text = "offloaded", !.id = IdOf(i)] ELSE list[i]]
    BY DEF Turns!Offload, Turns!getNextId
  <2>2. texts = [id \in ids |-> list[CHOOSE i \in O : IdOf(i) = id].n]
    BY DEF Turns!Offload, Turns!getNextId
  <2>. HIDE DEF l, texts, O
  <2>. QED
    BY <1>1, <2>1, <2>2
<1>. HIDE DEF l, texts, O
<1>4. /\ IsFiniteSet(O) /\ Cardinality(O) \in Nat
      /\ \A i \in O : rank(i) \in Nat /\ rank(i) < Cardinality(O)
      /\ \A i, k \in O : i < k => rank(i) < rank(k)
  <2>. DEFINE lower(i) == {j \in O : j < i}
  <2>1. \A i : rank(i) = Cardinality(lower(i))
    BY TurnsCardinality
  <2>2. /\ IsFiniteSet(O) /\ Cardinality(O) \in Nat
        /\ \A i \in O : Cardinality(lower(i)) \in Nat /\ Cardinality(lower(i)) < Cardinality(O)
        /\ \A i, k \in O : i < k => Cardinality(lower(i)) < Cardinality(lower(k))
    BY <1>1, <1>2, Ranks
  <2>. HIDE DEF rank, lower
  <2>3. \A i \in O : rank(i) \in Nat /\ rank(i) < Cardinality(O)
    BY <2>1, <2>2
  <2>4. \A i, k \in O : i < k => rank(i) < rank(k)
    BY <2>1, <2>2
  <2>. QED
    BY <2>2, <2>3, <2>4
<1>. HIDE DEF rank
<1>5. nextId \in Nat
  BY DEF TurnsIInv
<1>6. \A i, k \in O : IdOf(i) = IdOf(k) => i = k
  <2>1. \A i, k \in O : i < k \/ k < i \/ i = k
    BY <1>1, <1>2
  <2>. QED
    BY <1>4, <1>5, <2>1
<1>7. Cardinality(ids) = Cardinality(O)
  <2>. DEFINE f == [i \in O |-> IdOf(i)]
  <2>1. f \in Bijection(O, ids)
    BY <1>6 DEF Bijection, Injection, Surjection, IsInjective
  <2>2. ExistsBijection(O, ids)
    BY <2>1 DEF ExistsBijection
  <2>. HIDE DEF ids
  <2>. QED
    BY <1>4, <2>2, FS_Bijection
<1>8. Turns!Cardinality(DOMAIN texts) = Cardinality(O) /\ DOMAIN texts = ids
  BY <1>3, <1>7, TurnsCardinality
<1>. DEFINE next == nextId + Cardinality(O)
<1>9. next \in Nat /\ nextId <= next /\ \A i \in O : IdOf(i) \in Nat /\ nextId <= IdOf(i) /\ IdOf(i) < next
  BY <1>4, <1>5
<1>. HIDE DEF IdOf
<1>10. \A i \in O : texts[IdOf(i)] = list[i].n
  <2>1. \A i \in O : (CHOOSE k \in O : IdOf(k) = IdOf(i)) = i
    BY <1>6
  <2>. QED
    BY <1>3, <2>1
<1>11. \A i \in 1 .. n :
        /\ l[i] \in TurnMessage /\ l[i].n = list[i].n /\ l[i].role = list[i].role
        /\ l[i].tool = list[i].tool /\ l[i].path = list[i].path
        /\ i \in O => l[i].text = "offloaded" /\ l[i].id = IdOf(i)
        /\ i \notin O => l[i] = list[i]
  <2>1. ASSUME NEW m \in TurnMessage, NEW id \in Nat
        PROVE  LET c == [m EXCEPT !.text = "offloaded", !.id = id] IN
               /\ c \in TurnMessage /\ c.n = m.n /\ c.role = m.role
               /\ c.tool = m.tool /\ c.path = m.path /\ c.id = id /\ c.text = "offloaded"
    BY DEF TurnMessage
  <2>2. SUFFICES ASSUME NEW i \in 1 .. n
        PROVE  /\ l[i] \in TurnMessage /\ l[i].n = list[i].n /\ l[i].role = list[i].role
               /\ l[i].tool = list[i].tool /\ l[i].path = list[i].path
               /\ i \in O => l[i].text = "offloaded" /\ l[i].id = IdOf(i)
               /\ i \notin O => l[i] = list[i]
    OBVIOUS
  <2>3. list[i] \in TurnMessage
    BY <1>1
  <2>4. CASE i \in O
    <3>1. l[i] = [list[i] EXCEPT !.text = "offloaded", !.id = IdOf(i)] /\ IdOf(i) \in Nat
      BY <1>3, <1>9, <2>4
    <3>. DEFINE c == [list[i] EXCEPT !.text = "offloaded", !.id = IdOf(i)]
    <3>2. /\ c \in TurnMessage /\ c.n = list[i].n /\ c.role = list[i].role
          /\ c.tool = list[i].tool /\ c.path = list[i].path /\ c.id = IdOf(i) /\ c.text = "offloaded"
      BY <2>1, <2>3, <3>1
    <3>3. l[i] = c
      BY <3>1
    <3>. HIDE DEF c
    <3>. QED
      BY <2>4, <3>2, <3>3
  <2>5. CASE i \notin O
    <3>1. l[i] = list[i]
      BY <1>3, <2>5
    <3>. QED
      BY <2>3, <2>5, <3>1
  <2>. QED
    BY <2>4, <2>5
<1>12. l \in Seq(TurnMessage) /\ Len(l) = n
  <2>1. l = [i \in 1 .. n |-> l[i]]
    BY <1>3
  <2>. HIDE DEF n
  <2>. QED
    BY <1>1, <1>11, <2>1, IsASeq
<1>13. ReadableIn(l, Turns!With(texts), next, own \ ids)
  <2>. DEFINE s == Turns!With(texts)
  <2>1. /\ DOMAIN s = DOMAIN store \union ids
        /\ \A id \in ids : s[id] = texts[id]
        /\ \A id \in DOMAIN store \ ids : s[id] = store[id]
    BY <1>8 DEF Turns!With
  <2>. HIDE DEF s
  <2>2. ASSUME NEW i \in 1 .. n, l[i].text = "offloaded"
        PROVE  /\ l[i].id < next
               /\ l[i].id \notin own \ ids => l[i].id \in DOMAIN s /\ s[l[i].id] = l[i].n
    <3>1. CASE i \in O
      BY <1>9, <1>10, <1>11, <2>1, <3>1
    <3>2. CASE i \notin O
      <4>1. l[i] = list[i]
        BY <1>11, <3>2
      <4>2. list[i].id < nextId /\ list[i].id \in Nat
        BY <1>1, <2>2, <4>1 DEF ReadableIn, TurnMessage
      <4>3. list[i].id \notin ids /\ list[i].id < next
        BY <1>5, <1>9, <4>2
      <4>4. list[i].id \notin own => list[i].id \in DOMAIN store /\ store[list[i].id] = list[i].n
        BY <2>2, <4>1 DEF ReadableIn
      <4>. HIDE DEF ids, next
      <4>. QED
        BY <2>1, <4>1, <4>3, <4>4
    <3>. QED
      BY <3>1, <3>2
  <2>. QED
    BY <1>12, <2>2 DEF ReadableIn, s
<1>14. NumbersIn(l) = NumbersIn(list)
  BY <1>11, <1>12 DEF NumbersIn
<1>15. OrderedIn(l)
  BY <1>11, <1>12 DEF OrderedIn
<1>16. KeptIn(l)
  <2>1. \A i \in 1 .. n : WriteIn(l, i) = WriteIn(list, i)
    BY <1>11 DEF WriteIn
  <2>2. \A i \in 1 .. n : \A j \in i + 1 .. n : j \in 1 .. n
    BY <1>1
  <2>. QED
    BY <1>2, <1>11, <1>12, <2>1, <2>2 DEF KeptIn
<1>. HIDE DEF next, ids
<1>17. nextId + Turns!Cardinality(DOMAIN texts) = next /\ DOMAIN texts = ids
  BY <1>8 DEF next
<1>. QED
  BY <1>9, <1>11, <1>12, <1>13, <1>14, <1>15, <1>16, <1>17 DEF l, texts

(***************************************************************************)
(* The list that is left when the old messages were summarised: the system *)
(* message, the two of the summary, and the recent ones.                   *)
(***************************************************************************)
LEMMA CutList ==
  ASSUME KeepRecent \in Nat, NEW list \in Seq(TurnMessage), list # <<>>,
         Len(list) > KeepRecent + Turns!SystemCount(list)
  PROVE  LET t == Turns!Cut(list, TRUE)
             s == Turns!SystemCount(list)
             gone == Len(list) - KeepRecent - s - 2
         IN  /\ t \in Seq(TurnMessage) /\ Len(t) = s + 2 + KeepRecent
             /\ \A k \in 1 .. s : t[k] = list[k]
             /\ \A k \in s + 1 .. s + 2 : t[k].n = 0 /\ t[k].text = "summary"
             /\ \A k \in s + 3 .. s + 2 + KeepRecent : t[k] = list[k + gone]
<1>. DEFINE s == Turns!SystemCount(list)
            n == Len(list)
            head == SubSeq(list, 1, s)
            both == <<Turns!Summary("user"), Turns!Summary("assistant")>>
            tail == SubSeq(list, n - KeepRecent + 1, n)
            gone == n - KeepRecent - s - 2
            t == Turns!Cut(list, TRUE)
<1>1. s \in {0, 1} /\ n \in Nat /\ n > KeepRecent + s /\ KeepRecent \in Nat
  BY DEF Turns!SystemCount
<1>2. t = (head \o both) \o tail
  BY DEF Turns!Cut, Turns!RecentFrom
<1>3. \A i \in 1 .. n : list[i] \in TurnMessage
  OBVIOUS
<1>. HIDE DEF s, n, t
<1>4. head \in Seq(TurnMessage) /\ Len(head) = s /\ \A i \in 1 .. s : head[i] = list[i]
  <2>1. \A i \in 1 .. s : list[i] \in TurnMessage
    BY <1>1, <1>3
  <2>2. s \in Int /\ 1 \in Int
    BY <1>1
  <2>3. /\ head \in Seq(TurnMessage)
        /\ Len(head) = IF 1 <= s THEN s - 1 + 1 ELSE 0
        /\ \A i \in 1 .. s - 1 + 1 : head[i] = list[1 + i - 1]
    BY <2>1, <2>2, SubSeqProperties
  <2>. HIDE DEF head
  <2>. QED
    BY <1>1, <2>3
<1>5. /\ tail \in Seq(TurnMessage) /\ Len(tail) = KeepRecent
      /\ \A i \in 1 .. KeepRecent : tail[i] = list[n - KeepRecent + i]
  <2>1. \A i \in n - KeepRecent + 1 .. n : list[i] \in TurnMessage
    BY <1>1, <1>3
  <2>2. n - KeepRecent + 1 \in Int /\ n \in Int
    BY <1>1
  <2>3. /\ tail \in Seq(TurnMessage)
        /\ Len(tail) = IF n - KeepRecent + 1 <= n THEN n - (n - KeepRecent + 1) + 1 ELSE 0
        /\ \A i \in 1 .. n - (n - KeepRecent + 1) + 1 : tail[i] = list[n - KeepRecent + 1 + i - 1]
    BY <2>1, <2>2, SubSeqProperties
  <2>. HIDE DEF tail
  <2>. QED
    BY <1>1, <2>3
<1>6. /\ both \in Seq(TurnMessage) /\ Len(both) = 2
      /\ \A i \in 1 .. 2 : both[i].n = 0 /\ both[i].text = "summary"
  <2>1. \A r \in {"user", "assistant"} :
          LET m == Turns!Summary(r) IN m \in TurnMessage /\ m.n = 0 /\ m.text = "summary"
    BY DEF Turns!Summary, TurnMessage, Turns!None, Turns!NoPath
  <2>. QED
    BY <2>1
<1>. HIDE DEF head, tail, both
<1>7. /\ head \o both \in Seq(TurnMessage) /\ Len(head \o both) = s + 2
      /\ \A i \in 1 .. s + 2 : (head \o both)[i] = IF i <= s THEN head[i] ELSE both[i - s]
  <2>1. /\ head \o both \in Seq(TurnMessage) /\ Len(head \o both) = Len(head) + Len(both)
        /\ \A i \in 1 .. Len(head) + Len(both) :
             (head \o both)[i] = IF i <= Len(head) THEN head[i] ELSE both[i - Len(head)]
    BY <1>4, <1>6, ConcatProperties
  <2>2. Len(head) = s /\ Len(both) = 2
    BY <1>4, <1>6
  <2>. QED
    BY <2>1, <2>2
<1>8. /\ t \in Seq(TurnMessage) /\ Len(t) = s + 2 + KeepRecent
      /\ \A i \in 1 .. s + 2 + KeepRecent :
           t[i] = IF i <= s + 2 THEN (head \o both)[i] ELSE tail[i - (s + 2)]
  BY <1>2, <1>5, <1>7, ConcatProperties
<1>9. \A k \in 1 .. s : t[k] = list[k]
  BY <1>1, <1>4, <1>7, <1>8
<1>10. \A k \in s + 1 .. s + 2 : t[k].n = 0 /\ t[k].text = "summary"
  <2>1. \A k \in s + 1 .. s + 2 : k - s \in 1 .. 2 /\ k \in 1 .. s + 2 /\ k \in 1 .. s + 2 + KeepRecent /\ ~(k <= s) /\ k <= s + 2
    BY <1>1
  <2>2. \A k \in s + 1 .. s + 2 : t[k] = both[k - s]
    BY <1>7, <1>8, <2>1
  <2>. QED
    BY <1>6, <2>1, <2>2
<1>11. \A k \in s + 3 .. s + 2 + KeepRecent : t[k] = list[k + gone]
  <2>1. \A k \in s + 3 .. s + 2 + KeepRecent :
           k - (s + 2) \in 1 .. KeepRecent /\ k \in 1 .. s + 2 + KeepRecent /\ ~(k <= s + 2)
           /\ n - KeepRecent + (k - (s + 2)) = k + gone
    BY <1>1
  <2>. QED
    BY <1>5, <1>8, <2>1
<1>. QED
  BY <1>8, <1>9, <1>10, <1>11 DEF s, n, t

(***************************************************************************)
(* What is left has its order, and the numbers that the list had are left  *)
(* or those of the messages summarised; the write that a cut text waited   *)
(* for is recent when the text is.                                         *)
(***************************************************************************)
LEMMA CutKeeps ==
  ASSUME KeepRecent \in Nat, NEW list \in Seq(TurnMessage), list # <<>>,
         Len(list) > KeepRecent + Turns!SystemCount(list),
         NEW texts, NEW next, NEW mine, ReadableIn(list, texts, next, mine),
         OrderedIn(list), KeptIn(list)
  PROVE  LET t == Turns!Cut(list, TRUE)
             s == Turns!SystemCount(list)
             gone == {list[i].n : i \in s + 1 .. Len(list) - KeepRecent}
         IN  /\ t \in Seq(TurnMessage) /\ ReadableIn(t, texts, next, mine)
             /\ OrderedIn(t) /\ KeptIn(t)
             /\ NumbersIn(t) \union gone \union {0} = NumbersIn(list) \union {0}
<1>. DEFINE t == Turns!Cut(list, TRUE)
            s == Turns!SystemCount(list)
            n == Len(list)
            d == n - KeepRecent - s - 2
            at(k) == IF k <= s THEN k ELSE k + d
            new(k) == k \in s + 1 .. s + 2
            L == s + 2 + KeepRecent
            gone == {list[i].n : i \in s + 1 .. n - KeepRecent}
<1>1. /\ t \in Seq(TurnMessage) /\ Len(t) = L
      /\ \A k \in 1 .. s : t[k] = list[k]
      /\ \A k \in s + 1 .. s + 2 : t[k].n = 0 /\ t[k].text = "summary"
      /\ \A k \in s + 3 .. s + 2 + KeepRecent : t[k] = list[k + d]
  BY CutList
<1>2. s \in {0, 1} /\ n \in Nat /\ n > KeepRecent + s /\ KeepRecent \in Nat
  BY DEF Turns!SystemCount
<1>3. s = 1 => list[1].role = "system"
  BY DEF Turns!SystemCount
<1>. HIDE DEF t, s, n
<1>4. \A k \in 1 .. L : new(k) \/ (t[k] = list[at(k)] /\ at(k) \in 1 .. n)
  <2>1. \A k \in 1 .. s : at(k) = k /\ k \in 1 .. n
    BY <1>2
  <2>2. \A k \in s + 3 .. s + 2 + KeepRecent : at(k) = k + d /\ k + d \in 1 .. n
    BY <1>2
  <2>3. \A k \in 1 .. L : k \in 1 .. s \/ new(k) \/ k \in s + 3 .. s + 2 + KeepRecent
    BY <1>2
  <2>. HIDE DEF at, new, L, d
  <2>. QED
    BY <1>1, <2>1, <2>2, <2>3
<1>5. \A i, j \in 1 .. L : i < j /\ ~new(i) /\ ~new(j) => at(i) < at(j)
  BY <1>2
<1>6. ReadableIn(t, texts, next, mine)
  <2>. HIDE DEF at, L, d
  <2>. QED
    BY <1>1, <1>4 DEF ReadableIn, n
<1>7. OrderedIn(t)
  <2>. HIDE DEF at, L, d
  <2>. QED
    BY <1>1, <1>4, <1>5 DEF OrderedIn, n
<1>8. ASSUME NEW i \in 1 .. L, t[i].text = "truncated", WriteIn(t, i) # {}
      PROVE  \E j \in i + 1 .. L : WriteIn(t, i) \intersect WriteIn(t, j) # {}
  <2>1. ~new(i)
    BY <1>1, <1>8
  <2>2. t[i] = list[at(i)] /\ at(i) \in 1 .. n /\ WriteIn(t, i) = WriteIn(list, at(i))
    <3>1. t[i] = list[at(i)] /\ at(i) \in 1 .. n
      BY <1>4, <2>1
    <3>. HIDE DEF at
    <3>. QED
      BY <3>1 DEF WriteIn
  <2>3. ~(i <= s)
    <3>1. i <= s => i = 1 /\ s = 1 /\ at(i) = 1
      BY <1>2
    <3>. HIDE DEF at
    <3>. QED
      BY <1>3, <1>8, <2>2, <3>1 DEF WriteIn
  <2>4. PICK k \in at(i) + 1 .. n : WriteIn(list, at(i)) \intersect WriteIn(list, k) # {}
    <3>. HIDE DEF at
    <3>. QED
      BY <1>8, <2>2 DEF KeptIn, n
  <2>5. at(i) = i + d /\ i \in s + 3 .. L
    BY <1>2, <2>1, <2>3
  <2>6. k - d \in i + 1 .. L /\ k - d \in s + 3 .. s + 2 + KeepRecent /\ k - d + d = k
    BY <1>2, <2>4, <2>5
  <2>7. t[k - d] = list[k]
    <3>. DEFINE j == k - d
    <3>1. j \in s + 3 .. s + 2 + KeepRecent /\ j + d = k
      BY <2>6
    <3>. HIDE DEF j, d
    <3>. QED
      BY <1>1, <3>1 DEF j
  <2>8. WriteIn(t, k - d) = WriteIn(list, k)
    BY <2>7 DEF WriteIn
  <2>. HIDE DEF at, d, L
  <2>. QED
    BY <2>2, <2>4, <2>6, <2>8
<1>9. NumbersIn(t) \union gone \union {0} = NumbersIn(list) \union {0}
  <2>1. ASSUME NEW k \in 1 .. L PROVE t[k].n \in NumbersIn(list) \union {0}
    <3>. HIDE DEF at, d, L
    <3>. QED
      BY <1>1, <1>4 DEF NumbersIn, n
  <2>2. NumbersIn(t) \subseteq NumbersIn(list) \union {0}
    BY <1>1, <2>1 DEF NumbersIn
  <2>3. gone \subseteq NumbersIn(list)
    BY <1>2 DEF NumbersIn, n
  <2>4. ASSUME NEW i \in 1 .. n PROVE list[i].n \in NumbersIn(t) \union gone
    <3>1. CASE i <= s
      <4>1. i \in 1 .. s /\ i \in 1 .. L
        BY <1>2, <3>1
      <4>. QED
        BY <1>1, <4>1 DEF NumbersIn
    <3>2. CASE i > s /\ i <= n - KeepRecent
      <4>1. i \in s + 1 .. n - KeepRecent
        BY <1>2, <3>2
      <4>. QED
        BY <4>1
    <3>3. CASE i > n - KeepRecent
      <4>. DEFINE k == i - d
      <4>1. k \in s + 3 .. s + 2 + KeepRecent /\ k \in 1 .. L /\ k + d = i
        BY <1>2, <3>3
      <4>. HIDE DEF k, d, L
      <4>2. t[k] = list[i]
        BY <1>1, <4>1
      <4>. QED
        BY <1>1, <4>1, <4>2 DEF NumbersIn
    <3>. QED
      BY <1>2, <3>1, <3>2, <3>3
  <2>5. NumbersIn(list) \subseteq NumbersIn(t) \union gone
    BY <2>4 DEF NumbersIn, n
  <2>. QED
    BY <2>2, <2>3, <2>5
<1>10. KeptIn(t)
  BY <1>1, <1>8 DEF KeptIn
<1>. QED
  BY <1>1, <1>6, <1>7, <1>9, <1>10 DEF t, s, n

(***************************************************************************)
(* Before a model call: duplicates cut, long texts moved, old messages     *)
(* summarised, in that order.                                              *)
(***************************************************************************)
LEMMA BeforeModelCallStep ==
  ASSUME KeepRecent \in Nat, TurnsIInv, NEW level, Turns!BeforeModelCall(level)
  PROVE  TurnsIInv'
<1>. DEFINE dedup == Turns!Deduplicated
            work == Turns!Offload(dedup)
            next == nextId + Turns!Cardinality(DOMAIN work.texts)
            n == Len(talk)
            s == Turns!SystemCount(talk)
<1>1. /\ dedup \in Seq(TurnMessage) /\ Len(dedup) = n
      /\ \A i \in 1 .. n : dedup[i].role = talk[i].role
      /\ ReadableIn(dedup, store, nextId, own)
      /\ NumbersIn(dedup) = NumbersIn(talk) /\ OrderedIn(dedup) /\ KeptIn(dedup)
  BY DeduplicatedList
<1>. HIDE DEF dedup
<1>2. /\ work.list \in Seq(TurnMessage) /\ Len(work.list) = n /\ next \in Nat
      /\ \A i \in 1 .. n : work.list[i].role = dedup[i].role
      /\ ReadableIn(work.list, Turns!With(work.texts), next, own \ DOMAIN work.texts)
      /\ NumbersIn(work.list) = NumbersIn(talk) /\ OrderedIn(work.list) /\ KeptIn(work.list)
  BY <1>1, OffloadedList
<1>3. /\ talk # <<>> /\ store' = Turns!With(work.texts) /\ nextId' = next
      /\ own' = own \ DOMAIN work.texts /\ added' = added
  BY DEF Turns!BeforeModelCall, dedup
<1>. DEFINE old == SubSeq(work.list, s + 1, n - KeepRecent)
<1>4. \/ talk' = work.list /\ UNCHANGED history
      \/ /\ n > KeepRecent + s
         /\ talk' = work.list \/ talk' = Turns!Cut(work.list, TRUE)
         /\ history' = history \union {m.n : m \in Turns!ToSet(old)}
  BY DEF Turns!BeforeModelCall, dedup, Turns!Cut
<1>5. n \in Nat /\ n # 0 /\ talk \in Seq(TurnMessage)
  BY <1>3 DEF TurnsIInv
<1>6. Turns!SystemCount(work.list) = s /\ s \in {0, 1}
  <2>1. 1 \in 1 .. n
    BY <1>5
  <2>2. work.list[1].role = talk[1].role
    BY <1>1, <1>2, <2>1
  <2>. QED
    BY <2>2 DEF Turns!SystemCount
<1>. HIDE DEF work, next, s
<1>7. (TurnsIInv)' <=>
        /\ talk' \in Seq(TurnMessage) /\ nextId' \in Nat /\ added' \in Nat
        /\ ReadableIn(talk', store', nextId', own')
        /\ NumbersIn(talk') \union history' \union {0} = 0 .. added'
        /\ OrderedIn(talk') /\ KeptIn(talk')
  BY DEF TurnsIInv
<1>8. NumbersIn(talk) \union history \union {0} = 0 .. added /\ added \in Nat
  BY DEF TurnsIInv
<1>9. CASE talk' = work.list /\ UNCHANGED history
  BY <1>2, <1>3, <1>7, <1>8, <1>9
<1>10. CASE n > KeepRecent + s /\ history' = history \union {m.n : m \in Turns!ToSet(old)}
            /\ (talk' = work.list \/ talk' = Turns!Cut(work.list, TRUE))
  <2>. DEFINE gone == {work.list[i].n : i \in s + 1 .. n - KeepRecent}
  <2>1. {m.n : m \in Turns!ToSet(old)} = gone
    <3>1. \A i \in s + 1 .. n - KeepRecent : work.list[i] \in TurnMessage
      BY <1>2, <1>5, <1>6
    <3>2. s + 1 \in Int /\ n - KeepRecent \in Int
      BY <1>5, <1>6
    <3>3. /\ old \in Seq(TurnMessage)
          /\ Len(old) = IF s + 1 <= n - KeepRecent THEN n - KeepRecent - (s + 1) + 1 ELSE 0
          /\ \A i \in 1 .. n - KeepRecent - (s + 1) + 1 : old[i] = work.list[s + 1 + i - 1]
      BY <3>1, <3>2, SubSeqProperties
    <3>. HIDE DEF old
    <3>. DEFINE c == n - KeepRecent - s
    <3>4. c \in Nat /\ Len(old) = c /\ \A i \in 1 .. c : old[i] = work.list[s + i]
      BY <1>5, <1>6, <1>10, <3>3
    <3>5. Turns!ToSet(old) = {old[i] : i \in 1 .. c}
      <4>1. DOMAIN old = 1 .. c
        BY <3>3, <3>4
      <4>. QED
        BY <4>1 DEF Turns!ToSet
    <3>6. \A i \in 1 .. c : s + i \in s + 1 .. n - KeepRecent
      BY <1>5, <1>6
    <3>7. \A i \in s + 1 .. n - KeepRecent : i - s \in 1 .. c /\ s + (i - s) = i
      BY <1>5, <1>6
    <3>. HIDE DEF c
    <3>8. \A i \in 1 .. c : old[i].n \in gone
      BY <3>4, <3>6
    <3>9. \A i \in s + 1 .. n - KeepRecent : \E j \in 1 .. c : old[j] = work.list[i]
      BY <3>4, <3>7
    <3>. QED
      BY <3>5, <3>8, <3>9
  <2>2. gone \subseteq NumbersIn(work.list)
    <3>1. \A i \in s + 1 .. n - KeepRecent : i \in 1 .. n
      BY <1>5, <1>6
    <3>. QED
      BY <1>2, <3>1 DEF NumbersIn
  <2>3. CASE talk' = work.list
    <3>. HIDE DEF gone
    <3>. QED
      BY <1>2, <1>3, <1>7, <1>8, <1>10, <2>1, <2>2, <2>3
  <2>4. CASE talk' = Turns!Cut(work.list, TRUE)
    <3>1. work.list # <<>> /\ Len(work.list) > KeepRecent + Turns!SystemCount(work.list)
      BY <1>2, <1>5, <1>6, <1>10
    <3>. DEFINE l == work.list
    <3>2. /\ l \in Seq(TurnMessage) /\ ReadableIn(l, store', nextId', own') /\ OrderedIn(l) /\ KeptIn(l)
      BY <1>2, <1>3
    <3>3. Len(l) = n /\ Turns!SystemCount(l) = s /\ l # <<>> /\ Len(l) > KeepRecent + Turns!SystemCount(l)
      BY <1>2, <1>6, <3>1
    <3>. HIDE DEF l
    <3>4. /\ Turns!Cut(l, TRUE) \in Seq(TurnMessage) /\ ReadableIn(Turns!Cut(l, TRUE), store', nextId', own')
          /\ OrderedIn(Turns!Cut(l, TRUE)) /\ KeptIn(Turns!Cut(l, TRUE))
          /\ NumbersIn(Turns!Cut(l, TRUE)) \union {l[i].n : i \in s + 1 .. n - KeepRecent} \union {0}
               = NumbersIn(l) \union {0}
      BY <3>2, <3>3, CutKeeps
    <3>5. NumbersIn(talk') \union gone \union {0} = NumbersIn(talk) \union {0}
      BY <1>2, <2>4, <3>4 DEF l
    <3>. HIDE DEF gone
    <3>6. NumbersIn(talk') \union history' \union {0} = 0 .. added'
      BY <1>3, <1>8, <1>10, <2>1, <3>5
    <3>. QED
      BY <1>2, <1>3, <1>7, <1>8, <2>4, <3>4, <3>6 DEF l
  <2>. QED
    BY <1>10, <2>3, <2>4
<1>. QED
  BY <1>4, <1>9, <1>10

(***************************************************************************)
(* The inductive invariant of a conversation that is kept short.           *)
(***************************************************************************)
LEMMA TurnsInit == Turns!Init => TurnsIInv
<1>. SUFFICES ASSUME Turns!Init PROVE TurnsIInv
  OBVIOUS
<1>. DEFINE m == Turns!Message(1, "system", "none", "none", "short")
<1>1. m \in TurnMessage /\ m.n = 1 /\ m.text = "short"
  BY DEF Turns!Message, TurnMessage, Turns!None
<1>2. talk \in {<<>>, <<m>>} /\ nextId = 1 /\ history = {} /\ added = Len(talk)
  BY DEF Turns!Init, Turns!NoPath
<1>. HIDE DEF m
<1>3. CASE talk = <<>>
  <2>1. Len(talk) = 0 /\ 1 .. 0 = {} /\ 0 .. 0 = {0} /\ talk \in Seq(TurnMessage)
    BY <1>3
  <2>. QED
    BY <1>2, <2>1 DEF TurnsIInv, ReadableIn, NumbersIn, OrderedIn, KeptIn
<1>4. CASE talk = <<m>>
  <2>1. /\ Len(talk) = 1 /\ 1 .. 1 = {1} /\ 0 .. 1 = {0, 1} /\ talk \in Seq(TurnMessage)
        /\ talk[1] = m
    BY <1>1, <1>4
  <2>2. NumbersIn(talk) = {1}
    BY <1>1, <2>1 DEF NumbersIn
  <2>3. OrderedIn(talk)
    BY <2>1 DEF OrderedIn
  <2>. QED
    BY <1>1, <1>2, <2>1, <2>2, <2>3 DEF TurnsIInv, ReadableIn, KeptIn
<1>. QED
  BY <1>2, <1>3, <1>4

\* Every step that changes the conversation keeps the invariant.
LEMMA TurnsStep ==
  KeepRecent \in Nat /\ TurnsIInv /\ [Turns!Next]_turnVars => TurnsIInv'
<1>. SUFFICES ASSUME KeepRecent \in Nat, TurnsIInv, [Turns!Next]_turnVars PROVE TurnsIInv'
  OBVIOUS
<1>1. added + 1 \in Nat
  BY DEF TurnsIInv
<1>2. ASSUME NEW r \in {"user", "assistant", "tool"}, NEW t \in {"none", "read", "write"},
             NEW p \in TurnPaths \union {"none"}, NEW x \in {"short", "long"},
             Turns!Says(r, t, p, x)
      PROVE  TurnsIInv'
  <2>1. Turns!Message(added + 1, r, t, p, x) \in TurnMessage
    BY <1>1, <1>2 DEF Turns!Message, TurnMessage, Turns!None
  <2>. QED
    BY <1>2, <2>1, SaysStep
<1>3. ASSUME Turns!UserSays PROVE TurnsIInv'
  BY <1>2, <1>3 DEF Turns!UserSays, Turns!NoPath
<1>4. ASSUME Turns!Answers PROVE TurnsIInv'
  BY <1>2, <1>4 DEF Turns!Answers, Turns!NoPath
<1>5. ASSUME Turns!Replies PROVE TurnsIInv'
  <2>1. Turns!Last(talk) \in TurnMessage
    <3>1. talk # <<>> /\ talk \in Seq(TurnMessage)
      BY <1>5 DEF Turns!Replies, Turns!Waiting, TurnsIInv
    <3>2. Len(talk) \in 1 .. Len(talk)
      BY <3>1
    <3>. QED
      BY <3>1, <3>2 DEF Turns!Last
  <2>2. Turns!Last(talk).tool \in {"none", "read", "write"} /\ Turns!Last(talk).path \in TurnPaths \union {"none"}
    BY <2>1 DEF TurnMessage
  <2>. QED
    BY <1>2, <1>5, <2>2 DEF Turns!Replies
<1>6. CASE UNCHANGED turnVars
  BY <1>6 DEF turnVars, TurnsIInv, ReadableIn, NumbersIn, OrderedIn, KeptIn, WriteIn
<1>. QED
  BY <1>3, <1>4, <1>5, <1>6, StoreStep, BeforeModelCallStep DEF Turns!Next, turnVars

-----------------------------------------------------------------------------
(* The request that is made of a conversation.                             *)

\* ModelRequest takes FlattenSeq from the same module.
LEMMA AskedFlattenSeq == \A s : Asked!FlattenSeq(s) = FlattenSeq(s)
BY DEF Asked!FlattenSeq, FlattenSeq

\* No block has no block of a type,
LEMMA OfTypeEmpty == ASSUME NEW ty PROVE Asked!OfType(<<>>, ty) = <<>>
<1>1. [i \in DOMAIN <<>> |-> IF <<>>[i].type = ty THEN <<<<>>[i]>> ELSE <<>>] = <<>>
  OBVIOUS
<1>. QED
  BY <1>1, AskedFlattenSeq, FlattenEmpty DEF Asked!OfType

(***************************************************************************)
(* The blocks of a type, with one block more.                              *)
(***************************************************************************)
LEMMA OfTypeAppend ==
  ASSUME NEW S, NEW s \in Seq(S), NEW b \in S, NEW ty
  PROVE  Asked!OfType(Append(s, b), ty) =
           IF b.type = ty THEN Asked!OfType(s, ty) \o <<b>> ELSE Asked!OfType(s, ty) \o <<>>
<1>. DEFINE f == [c \in S |-> IF c.type = ty THEN <<c>> ELSE <<>>]
            m == [i \in DOMAIN s |-> f[s[i]]]
            a == Append(s, b)
<1>1. \A c \in S : f[c] \in Seq(S)
  OBVIOUS
<1>2. \A i \in DOMAIN s : s[i] \in S
  OBVIOUS
<1>3. a \in Seq(S) /\ \A i \in DOMAIN a : a[i] \in S
  BY AppendProperties
<1>4. m \in Seq(Seq(S))
  <2>1. Len(s) \in Nat /\ DOMAIN s = 1 .. Len(s) /\ \A i \in 1 .. Len(s) : f[s[i]] \in Seq(S)
    BY <1>1, <1>2
  <2>2. m = [i \in 1 .. Len(s) |-> f[s[i]]]
    BY <2>1
  <2>. HIDE DEF f, m
  <2>. QED
    BY <2>1, <2>2, IsASeq
<1>5. Asked!OfType(s, ty) = FlattenSeq(m)
  <2>1. m = [i \in DOMAIN s |-> IF s[i].type = ty THEN <<s[i]>> ELSE <<>>]
    BY <1>2
  <2>. QED
    BY <2>1, AskedFlattenSeq DEF Asked!OfType
<1>6. Asked!OfType(a, ty) = FlattenSeq([i \in DOMAIN a |-> f[a[i]]])
  <2>1. [i \in DOMAIN a |-> f[a[i]]] = [i \in DOMAIN a |-> IF a[i].type = ty THEN <<a[i]>> ELSE <<>>]
    BY <1>3
  <2>. HIDE DEF f, a
  <2>. QED
    BY <2>1, AskedFlattenSeq DEF Asked!OfType
<1>7. [i \in DOMAIN a |-> f[a[i]]] = Append(m, f[b])
  <2>. HIDE DEF f
  <2>. QED
    BY MapAppend
<1>8. FlattenSeq(Append(m, f[b])) = FlattenSeq(m) \o f[b]
  <2>. HIDE DEF f, m
  <2>. QED
    BY <1>1, <1>4, FlattenAppend
<1>9. Asked!OfType(a, ty) = Asked!OfType(s, ty) \o f[b]
  <2>. HIDE DEF f, m, a
  <2>. QED
    BY <1>5, <1>6, <1>7, <1>8
<1>10. f[b] = IF b.type = ty THEN <<b>> ELSE <<>>
  OBVIOUS
<1>. QED
  BY <1>9, <1>10

(***************************************************************************)
(* The blocks of a type among those of two sequences, among blocks that    *)
(* all have it and among blocks that have another.                         *)
(***************************************************************************)
LEMMA OfTypePicks ==
  ASSUME NEW S, NEW s \in Seq(S), NEW ty
  PROVE  Asked!OfType(s, ty) \in Seq({b \in S : b.type = ty})
<1>. DEFINE T == {b \in S : b.type = ty}
            Good == {t \in Seq(S) : Asked!OfType(t, ty) \in Seq(T)}
<1>1. <<>> \in Good
  <2>1. <<>> \in Seq(S) /\ <<>> \in Seq(T)
    OBVIOUS
  <2>2. Asked!OfType(<<>>, ty) = <<>>
    BY OfTypeEmpty
  <2>. QED
    BY <2>1, <2>2
<1>2. ASSUME NEW t \in Good, NEW b \in S PROVE Append(t, b) \in Good
  <2>1. Asked!OfType(t, ty) \in Seq(T) /\ t \in Seq(S) /\ Append(t, b) \in Seq(S)
    OBVIOUS
  <2>2. Asked!OfType(Append(t, b), ty) =
          IF b.type = ty THEN Asked!OfType(t, ty) \o <<b>> ELSE Asked!OfType(t, ty) \o <<>>
    BY <2>1, OfTypeAppend
  <2>3. <<>> \in Seq(T) /\ (b.type = ty => <<b>> \in Seq(T))
    OBVIOUS
  <2>. HIDE DEF T
  <2>. QED
    BY <2>1, <2>2, <2>3, ConcatProperties
<1>. QED
  <2>. HIDE DEF Good
  <2>1. Good \in SUBSET Seq(S)
    BY DEF Good
  <2>2. Good = Seq(S)
    BY <1>1, <1>2, <2>1, AllSequences
  <2>. QED
    BY <2>2 DEF Good

\* two lists of blocks have those of both, in order,
LEMMA OfTypeConcat ==
  ASSUME NEW S, NEW s \in Seq(S), NEW t \in Seq(S), NEW ty
  PROVE  Asked!OfType(s \o t, ty) = Asked!OfType(s, ty) \o Asked!OfType(t, ty)
<1>. DEFINE o(u) == Asked!OfType(u, ty)
            Good == {u \in Seq(S) : o(s \o u) = o(s) \o o(u)}
<1>1. \A u \in Seq(S) : o(u) \in Seq(S)
  <2>1. ASSUME NEW u \in Seq(S) PROVE o(u) \in Seq(S)
    <3>1. o(u) \in Seq({b \in S : b.type = ty})
      BY OfTypePicks
    <3>. HIDE DEF o
    <3>. QED
      BY <3>1, SeqMonotonic
  <2>. QED
    BY <2>1
<1>2. <<>> \in Good
  <2>1. <<>> \in Seq(S) /\ s \o <<>> = s /\ o(<<>>) = <<>>
    BY OfTypeEmpty
  <2>2. o(s) \o <<>> = o(s)
    BY <1>1
  <2>. QED
    BY <2>1, <2>2
<1>3. ASSUME NEW u \in Good, NEW b \in S PROVE Append(u, b) \in Good
  <2>1. u \in Seq(S) /\ Append(u, b) \in Seq(S) /\ s \o u \in Seq(S) /\ o(s \o u) = o(s) \o o(u)
    OBVIOUS
  <2>. DEFINE e == IF b.type = ty THEN <<b>> ELSE <<>>
  <2>2. e \in Seq(S)
    OBVIOUS
  <2>3. o(Append(u, b)) = o(u) \o e /\ o(Append(s \o u, b)) = o(s \o u) \o e
    <3>1. \A v \in Seq(S) : o(Append(v, b)) = IF b.type = ty THEN o(v) \o <<b>> ELSE o(v) \o <<>>
      BY OfTypeAppend
    <3>. HIDE DEF o
    <3>. QED
      BY <2>1, <3>1
  <2>4. s \o Append(u, b) = Append(s \o u, b)
    BY <2>1, ConcatAppend
  <2>5. (o(s) \o o(u)) \o e = o(s) \o (o(u) \o e)
    <3>1. o(s) \in Seq(S) /\ o(u) \in Seq(S)
      BY <1>1, <2>1
    <3>2. JoinsAnyhow(S)
      BY Associative
    <3>. HIDE DEF o, e
    <3>. QED
      BY ONLY <2>2, <3>1, <3>2 DEF JoinsAnyhow
  <2>. HIDE DEF o, e
  <2>6. o(s \o Append(u, b)) = o(s) \o o(Append(u, b))
    BY <2>1, <2>3, <2>4, <2>5
  <2>. QED
    BY <2>1, <2>6
<1>. QED
  <2>. HIDE DEF Good
  <2>1. Good \in SUBSET Seq(S)
    BY DEF Good
  <2>2. Good = Seq(S)
    BY <1>2, <1>3, <2>1, AllSequences
  <2>. QED
    BY <2>2 DEF Good

\* a list of blocks of one type has all of them of that type, and none of any other,
LEMMA OfTypeAllOrNone ==
  ASSUME NEW S, NEW s \in Seq(S), NEW ty
  PROVE  /\ (\A b \in S : b.type = ty) => Asked!OfType(s, ty) = s
         /\ (\A b \in S : b.type # ty) => Asked!OfType(s, ty) = <<>>
<1>. DEFINE o(u) == Asked!OfType(u, ty)
            Good == {u \in Seq(S) : /\ (\A b \in S : b.type = ty) => o(u) = u
                                    /\ (\A b \in S : b.type # ty) => o(u) = <<>>}
<1>1. <<>> \in Good
  <2>1. <<>> \in Seq(S) /\ o(<<>>) = <<>>
    BY OfTypeEmpty
  <2>. QED
    BY <2>1
<1>2. ASSUME NEW u \in Good, NEW b \in S PROVE Append(u, b) \in Good
  <2>1. u \in Seq(S) /\ Append(u, b) \in Seq(S)
    OBVIOUS
  <2>2. o(Append(u, b)) = IF b.type = ty THEN o(u) \o <<b>> ELSE o(u) \o <<>>
    BY <2>1, OfTypeAppend
  <2>3. ASSUME \A c \in S : c.type = ty PROVE o(Append(u, b)) = Append(u, b)
    <3>1. o(u) = u
      BY <2>3
    <3>2. Append(u, b) = u \o <<b>>
      BY <2>1, AppendIsConcat
    <3>. HIDE DEF o
    <3>. QED
      BY <2>2, <2>3, <3>1, <3>2
  <2>4. ASSUME \A c \in S : c.type # ty PROVE o(Append(u, b)) = <<>>
    <3>1. o(u) = <<>>
      BY <2>4
    <3>2. <<>> \o <<>> = <<>>
      OBVIOUS
    <3>. HIDE DEF o
    <3>. QED
      BY <2>2, <2>4, <3>1, <3>2
  <2>. HIDE DEF o
  <2>. QED
    BY <2>1, <2>3, <2>4
<1>. QED
  <2>. HIDE DEF Good
  <2>1. Good \in SUBSET Seq(S)
    BY DEF Good
  <2>2. Good = Seq(S)
    BY <1>1, <1>2, <2>1, AllSequences
  <2>. QED
    BY <2>2 DEF Good

\* and one block is of its own type alone.
LEMMA OfTypeOne ==
  ASSUME NEW b, NEW ty
  PROVE  Asked!OfType(<<b>>, ty) = IF b.type = ty THEN <<b>> ELSE <<>>
<1>1. <<b>> \in Seq({b})
  OBVIOUS
<1>2. /\ (\A c \in {b} : c.type = ty) => Asked!OfType(<<b>>, ty) = <<b>>
      /\ (\A c \in {b} : c.type # ty) => Asked!OfType(<<b>>, ty) = <<>>
  <2>. DEFINE S == {b}
              s == <<b>>
  <2>1. s \in Seq(S)
    BY <1>1
  <2>. HIDE DEF S, s
  <2>2. /\ (\A c \in S : c.type = ty) => Asked!OfType(s, ty) = s
        /\ (\A c \in S : c.type # ty) => Asked!OfType(s, ty) = <<>>
    BY <2>1, OfTypeAllOrNone
  <2>. QED
    BY <2>2 DEF S, s
<1>. QED
  BY <1>2

(***************************************************************************)
(* The text of some blocks.                                                *)
(***************************************************************************)
LEMMA TextOfBlocks ==
  /\ Asked!TextOf(<<>>) = <<>>
  /\ \A b : Asked!TextOf(<<b>>) = b.text
  /\ \A S, X : (\A b \in S : b.text \in Seq(X)) => \A s \in Seq(S) : Asked!TextOf(s) \in Seq(X)
<1>1. Asked!TextOf(<<>>) = <<>>
  <2>1. [i \in DOMAIN <<>> |-> <<>>[i].text] = <<>>
    OBVIOUS
  <2>. QED
    BY <2>1, AskedFlattenSeq, FlattenEmpty DEF Asked!TextOf
<1>2. ASSUME NEW b PROVE Asked!TextOf(<<b>>) = b.text
  <2>1. [i \in DOMAIN <<b>> |-> <<b>>[i].text] = <<b.text>>
    OBVIOUS
  <2>. QED
    BY <2>1, AskedFlattenSeq, FlattenOne DEF Asked!TextOf
<1>3. ASSUME NEW S, NEW X, \A b \in S : b.text \in Seq(X), NEW s \in Seq(S)
      PROVE  Asked!TextOf(s) \in Seq(X)
  <2>. DEFINE texts == [i \in DOMAIN s |-> s[i].text]
  <2>1. texts \in Seq(Seq(X))
    <3>1. Len(s) \in Nat /\ DOMAIN s = 1 .. Len(s) /\ \A i \in 1 .. Len(s) : s[i].text \in Seq(X)
      BY <1>3
    <3>2. texts = [i \in 1 .. Len(s) |-> s[i].text]
      BY <3>1
    <3>. HIDE DEF texts
    <3>. QED
      BY <3>1, <3>2, IsASeq
  <2>2. Asked!TextOf(s) = FlattenSeq(texts)
    BY AskedFlattenSeq DEF Asked!TextOf
  <2>. HIDE DEF texts
  <2>. QED
    BY <2>1, <2>2, FlattenType
<1>. QED
  BY <1>1, <1>2, <1>3

(***************************************************************************)
(* The blocks of an answer, the messages of a conversation and the blocks  *)
(* of a request.                                                           *)
(***************************************************************************)
Use == [type : {"tool_use"}, id : Nat, input : {"{x}"}]
Spoken == [type : {"text", "thinking"}, text : Seq(TurnTexts)]
Result == [type : {"tool_result"}, id : Nat, text : Seq(TurnTexts)]
Block == Use \union Spoken
Wired == Use \union Spoken \union Result

Held ==
  [role : {"system", "user", "assistant", "tool"}, content : Seq(TurnTexts),
   calls : Seq([id : Nat, arguments : {"{x}"}]), call : Nat, thinking : Seq(TurnTexts)]

\* The types of the blocks, by the kind of what they hold.
LEMMA BlockTypes ==
  /\ \A b \in Use : b.type = "tool_use" /\ b.id \in Nat /\ b.input = "{x}"
  /\ \A b \in Spoken : b.type \in {"text", "thinking"} /\ b.text \in Seq(TurnTexts)
  /\ \A b \in Result : b.type = "tool_result" /\ b.id \in Nat
BY DEF Use, Spoken, Result

CallIds(m) == {m.calls[i].id : i \in DOMAIN m.calls}

(***************************************************************************)
(* The message that is made of an answer has its text and its calls.       *)
(***************************************************************************)
LEMMA ParsedAnswer ==
  ASSUME NEW blocks \in Seq(Block)
  PROVE  LET m == Asked!parseResponse(blocks)
             uses == Asked!OfType(blocks, "tool_use")
         IN  /\ m \in Held /\ m.role = "assistant" /\ m.call = 0
             /\ m.content = Asked!TextOf(Asked!OfType(blocks, "text"))
             /\ uses \in Seq(Use) /\ Asked!ToolUses(m) = uses
             /\ m.calls = <<>> => uses = <<>>
             /\ CallIds(m) = {uses[i].id : i \in DOMAIN uses}
<1>. DEFINE m == Asked!parseResponse(blocks)
            uses == Asked!OfType(blocks, "tool_use")
            calls == [i \in DOMAIN uses |-> [id |-> uses[i].id, arguments |-> uses[i].input]]
            C == [id : Nat, arguments : {"{x}"}]
<1>1. uses \in Seq(Use)
  <2>1. {b \in Block : b.type = "tool_use"} \subseteq Use
    BY BlockTypes DEF Block
  <2>2. uses \in Seq({b \in Block : b.type = "tool_use"})
    BY OfTypePicks
  <2>. HIDE DEF uses
  <2>. QED
    BY <2>1, <2>2, SeqMonotonic
<1>2. ASSUME NEW ty \in {"text", "thinking"} PROVE Asked!TextOf(Asked!OfType(blocks, ty)) \in Seq(TurnTexts)
  <2>1. \A b \in {b \in Block : b.type = ty} : b.text \in Seq(TurnTexts)
    BY BlockTypes DEF Block
  <2>2. Asked!OfType(blocks, ty) \in Seq({b \in Block : b.type = ty})
    BY OfTypePicks
  <2>. QED
    BY <2>1, <2>2, TextOfBlocks
<1>3. m = [role |-> "assistant", content |-> Asked!TextOf(Asked!OfType(blocks, "text")), calls |-> calls,
           call |-> 0, thinking |-> Asked!TextOf(Asked!OfType(blocks, "thinking"))]
  BY DEF Asked!parseResponse
<1>. HIDE DEF uses, m
<1>4. Len(uses) \in Nat /\ DOMAIN uses = 1 .. Len(uses) /\ \A i \in 1 .. Len(uses) : uses[i] \in Use
  BY <1>1
<1>5. calls \in Seq(C) /\ Len(calls) = Len(uses)
  <2>1. calls = [i \in 1 .. Len(uses) |-> [id |-> uses[i].id, arguments |-> uses[i].input]]
    BY <1>4
  <2>2. \A i \in 1 .. Len(uses) : [id |-> uses[i].id, arguments |-> uses[i].input] \in C
    BY <1>4, BlockTypes
  <2>. HIDE DEF calls, C
  <2>. QED
    BY <1>4, <2>1, <2>2, IsASeq
<1>6. m.role = "assistant" /\ m.call = 0 /\ m.calls = calls
      /\ m.content = Asked!TextOf(Asked!OfType(blocks, "text"))
  BY <1>3
<1>7. m \in Held
  <2>1. Asked!TextOf(Asked!OfType(blocks, "text")) \in Seq(TurnTexts)
        /\ Asked!TextOf(Asked!OfType(blocks, "thinking")) \in Seq(TurnTexts)
    BY <1>2
  <2>. HIDE DEF calls
  <2>. QED
    BY <1>3, <1>5, <2>1 DEF Held
<1>8. DOMAIN calls = DOMAIN uses /\ \A i \in DOMAIN uses : calls[i].id = uses[i].id /\ calls[i].arguments = uses[i].input
  OBVIOUS
<1>9. Asked!ToolUses(m) = uses
  <2>1. \A i \in DOMAIN uses :
          [type |-> "tool_use", id |-> calls[i].id, input |-> Asked!Input(calls[i].arguments)] = uses[i]
    <3>1. ASSUME NEW i \in DOMAIN uses
          PROVE  [type |-> "tool_use", id |-> calls[i].id, input |-> Asked!Input(calls[i].arguments)] = uses[i]
      <4>1. uses[i] \in Use /\ uses[i].input = "{x}"
        BY <1>4, BlockTypes
      <4>2. calls[i].id = uses[i].id /\ Asked!Input(calls[i].arguments) = uses[i].input
        BY <1>8, <4>1 DEF Asked!Input
      <4>. HIDE DEF calls
      <4>. QED
        BY <4>1, <4>2 DEF Use
    <3>. QED
      BY <3>1
  <2>2. Asked!ToolUses(m) = [i \in DOMAIN uses |-> [type |-> "tool_use", id |-> calls[i].id, input |-> Asked!Input(calls[i].arguments)]]
    <3>. HIDE DEF calls
    <3>. QED
      BY <1>6, <1>8 DEF Asked!ToolUses
  <2>3. uses = [i \in DOMAIN uses |-> uses[i]]
    BY <1>1
  <2>. HIDE DEF calls
  <2>. QED
    BY <2>1, <2>2, <2>3
<1>10. calls = <<>> => uses = <<>>
  <2>1. calls = <<>> => Len(uses) = 0
    BY <1>5
  <2>. QED
    BY <1>1, <2>1
<1>11. CallIds(m) = {uses[i].id : i \in DOMAIN uses}
  <2>. HIDE DEF calls
  <2>. QED
    BY <1>6, <1>8 DEF CallIds
<1>. HIDE DEF calls
<1>. QED
  BY <1>1, <1>6, <1>7, <1>9, <1>10, <1>11 DEF m, uses

(***************************************************************************)
(* What is between an answer and the message of a request that shows it.   *)
(***************************************************************************)
Shows(shown, blocks) ==
  /\ Asked!OfType(shown.blocks, "tool_use") = Asked!OfType(blocks, "tool_use")
  /\ Asked!TextOf(Asked!OfType(shown.blocks, "text")) = Asked!TextOf(Asked!OfType(blocks, "text"))
  /\ \A j \in DOMAIN shown.blocks : shown.blocks[j].type = "text" => j = 1

\* An answer of the model, read and converted back, shows its blocks (anthropic_provider.h).
LEMMA ConvertedAnswer ==
  ASSUME NEW blocks \in Seq(Block)
  PROVE  LET shown == Asked!Converted(Asked!parseResponse(blocks))
         IN  shown.role = "assistant" /\ Shows(shown, blocks)
<1>. DEFINE m == Asked!parseResponse(blocks)
            uses == Asked!OfType(blocks, "tool_use")
            content == Asked!TextOf(Asked!OfType(blocks, "text"))
            one == [type |-> "text", text |-> content]
            shown == Asked!Converted(m)
<1>1. /\ m \in Held /\ m.role = "assistant" /\ m.content = content
      /\ uses \in Seq(Use) /\ Asked!ToolUses(m) = uses
      /\ m.calls = <<>> => uses = <<>>
  BY ParsedAnswer
<1>2. content \in Seq(TurnTexts)
  <2>. HIDE DEF m, content
  <2>. QED
    BY <1>1 DEF Held
<1>. HIDE DEF m, uses, content
<1>3. one \in Spoken /\ one.type = "text" /\ one.text = content
  BY <1>2 DEF Spoken
<1>. HIDE DEF one
<1>4. /\ Asked!OfType(<<one>>, "text") = <<one>> /\ Asked!OfType(<<one>>, "tool_use") = <<>>
      /\ Asked!TextOf(<<one>>) = content /\ Asked!TextOf(<<>>) = <<>>
  BY <1>3, OfTypeOne, TextOfBlocks
<1>5. CASE m.calls = <<>>
  <2>1. shown = [role |-> "assistant", blocks |-> <<[type |-> "text", text |-> m.content]>>]
    BY <1>1, <1>5 DEF Asked!Converted
  <2>2. shown.role = "assistant" /\ shown.blocks = <<one>>
    BY <1>1, <2>1 DEF one
  <2>3. uses = <<>>
    BY <1>1, <1>5
  <2>4. \A j \in DOMAIN <<one>> : j = 1
    OBVIOUS
  <2>. HIDE DEF shown
  <2>5. Shows(shown, blocks)
    BY <1>4, <2>2, <2>3, <2>4 DEF Shows, uses, content
  <2>. QED
    BY <2>2, <2>5 DEF shown, m
<1>6. CASE m.calls # <<>>
  <2>. DEFINE front == Asked!TextBlock(m)
  <2>1. shown = [role |-> "assistant", blocks |-> front \o Asked!ToolUses(m)]
    BY <1>1, <1>6 DEF Asked!Converted
  <2>2. shown.role = "assistant" /\ shown.blocks = front \o uses
    BY <1>1, <2>1
  <2>3. front = IF content = <<>> THEN <<>> ELSE <<one>>
    BY <1>1 DEF Asked!TextBlock, one
  <2>4. front \in Seq(Block) /\ uses \in Seq(Block) /\ Len(front) <= 1 /\ Len(front) \in Nat
    <3>1. front \in Seq(Block) /\ Len(front) <= 1 /\ Len(front) \in Nat
      <4>1. one \in Block
        BY <1>3 DEF Block
      <4>2. <<one>> \in Seq(Block) /\ Len(<<one>>) = 1 /\ <<>> \in Seq(Block) /\ Len(<<>>) = 0
        BY <4>1
      <4>. HIDE DEF front
      <4>. QED
        BY <2>3, <4>2
    <3>2. uses \in Seq(Block)
      BY <1>1, SeqMonotonic DEF Block
    <3>. QED
      BY <3>1, <3>2
  <2>5. Asked!OfType(uses, "tool_use") = uses /\ Asked!OfType(uses, "text") = <<>>
    <3>1. \A b \in Use : b.type = "tool_use" /\ b.type # "text"
      BY BlockTypes
    <3>. QED
      BY <1>1, <3>1, OfTypeAllOrNone
  <2>6. Asked!OfType(front, "tool_use") = <<>> /\ Asked!TextOf(Asked!OfType(front, "text")) = content
        /\ Asked!OfType(front, "text") \in Seq({one})
    <3>1. CASE content = <<>>
      <4>1. front = <<>> /\ <<>> \in Seq({one})
        BY <2>3, <3>1
      <4>. HIDE DEF front
      <4>. QED
        BY <1>4, <3>1, <4>1, OfTypeEmpty
    <3>2. CASE content # <<>>
      <4>1. front = <<one>> /\ <<one>> \in Seq({one})
        BY <2>3, <3>2
      <4>. HIDE DEF front
      <4>. QED
        BY <1>4, <4>1
    <3>. QED
      BY <3>1, <3>2
  <2>. HIDE DEF front, shown
  <2>7. \A ty : Asked!OfType(shown.blocks, ty) = Asked!OfType(front, ty) \o Asked!OfType(uses, ty)
    BY <2>2, <2>4, OfTypeConcat
  <2>8. Asked!OfType(shown.blocks, "tool_use") = uses
    <3>1. <<>> \o uses = uses
      BY <1>1
    <3>. QED
      BY <2>5, <2>6, <2>7, <3>1
  <2>9. Asked!TextOf(Asked!OfType(shown.blocks, "text")) = content
    <3>1. \A s \in Seq({one}) : s \o <<>> = s
      OBVIOUS
    <3>. QED
      BY <2>5, <2>6, <2>7, <3>1
  <2>10. ASSUME NEW j \in DOMAIN shown.blocks, shown.blocks[j].type = "text" PROVE j = 1
    <3>1. /\ Len(front \o uses) = Len(front) + Len(uses) /\ front \o uses \in Seq(Block)
          /\ \A i \in 1 .. Len(front) + Len(uses) :
               (front \o uses)[i] = IF i <= Len(front) THEN front[i] ELSE uses[i - Len(front)]
      BY <2>4, ConcatProperties
    <3>2. j \in 1 .. Len(front) + Len(uses) /\ Len(uses) \in Nat
      BY <1>1, <2>2, <2>10, <3>1
    <3>3. CASE j > Len(front)
      <4>1. j - Len(front) \in 1 .. Len(uses) /\ shown.blocks[j] = uses[j - Len(front)]
        BY <2>2, <2>4, <3>1, <3>2, <3>3
      <4>2. uses[j - Len(front)] \in Use
        BY <1>1, <4>1
      <4>. QED
        BY <2>10, <4>1, <4>2, BlockTypes
    <3>4. CASE ~(j > Len(front))
      BY <2>4, <3>2, <3>4
    <3>. QED
      BY <3>3, <3>4
  <2>11. Shows(shown, blocks)
    BY <2>8, <2>9, <2>10 DEF Shows, uses, content
  <2>. QED
    BY <2>2, <2>11 DEF shown, m
<1>. QED
  BY <1>5, <1>6 DEF m, shown

(***************************************************************************)
(* A message of the conversation in the form of the request.               *)
(***************************************************************************)
Sent == [role : {"user", "assistant"}, blocks : Seq(Wired)]

\* What a message of the conversation becomes in a request, by its role.
LEMMA ConvertedMessage ==
  ASSUME NEW m \in Held, m.role # "system"
  PROVE  LET s == Asked!Converted(m) IN
           /\ s \in Sent /\ (s.role = "assistant" <=> m.role = "assistant")
           /\ m.role = "tool" => s.blocks = <<[type |-> "tool_result", id |-> m.call, text |-> m.content]>>
           /\ m.role = "user" => s.blocks = <<[type |-> "text", text |-> m.content]>>
<1>. DEFINE s == Asked!Converted(m)
<1>1. m.role \in {"user", "assistant", "tool"} /\ m.content \in Seq(TurnTexts) /\ m.call \in Nat
      /\ m.calls \in Seq([id : Nat, arguments : {"{x}"}])
  BY DEF Held
<1>. DEFINE one == [type |-> "text", text |-> m.content]
            result == [type |-> "tool_result", id |-> m.call, text |-> m.content]
<1>2. one \in Wired /\ result \in Wired
  BY <1>1 DEF Wired, Spoken, Result
<1>3. <<one>> \in Seq(Wired) /\ <<result>> \in Seq(Wired) /\ <<>> \in Seq(Wired)
  BY <1>2
<1>4. CASE m.role = "tool"
  <2>1. s = [role |-> "user", blocks |-> <<result>>]
    BY <1>4 DEF Asked!Converted
  <2>. HIDE DEF s, result
  <2>2. s.role = "user" /\ s.blocks = <<result>> /\ s \in Sent
    BY <1>3, <2>1 DEF Sent
  <2>. QED
    BY <1>4, <2>2 DEF s, result
<1>5. CASE m.role = "assistant" /\ m.calls # <<>>
  <2>1. s = [role |-> "assistant", blocks |-> Asked!TextBlock(m) \o Asked!ToolUses(m)]
    BY <1>5 DEF Asked!Converted
  <2>2. Asked!TextBlock(m) \in Seq(Wired)
    BY <1>3 DEF Asked!TextBlock
  <2>3. Asked!ToolUses(m) \in Seq(Wired)
    <3>1. Len(m.calls) \in Nat /\ DOMAIN m.calls = 1 .. Len(m.calls)
          /\ \A i \in 1 .. Len(m.calls) : m.calls[i].id \in Nat /\ m.calls[i].arguments = "{x}"
      <4>. DEFINE C == [id : Nat, arguments : {"{x}"}]
      <4>1. \A x \in C : x.id \in Nat /\ x.arguments = "{x}"
        OBVIOUS
      <4>2. m.calls \in Seq(C)
        BY <1>1
      <4>. HIDE DEF C
      <4>3. Len(m.calls) \in Nat /\ DOMAIN m.calls = 1 .. Len(m.calls) /\ \A i \in 1 .. Len(m.calls) : m.calls[i] \in C
        BY <4>2
      <4>. QED
        BY <4>1, <4>3
    <3>2. Asked!ToolUses(m) = [i \in 1 .. Len(m.calls) |->
            [type |-> "tool_use", id |-> m.calls[i].id, input |-> Asked!Input(m.calls[i].arguments)]]
      BY <3>1 DEF Asked!ToolUses
    <3>3. \A i \in 1 .. Len(m.calls) :
            [type |-> "tool_use", id |-> m.calls[i].id, input |-> Asked!Input(m.calls[i].arguments)] \in Wired
      BY <3>1 DEF Asked!Input, Wired, Use
    <3>. DEFINE u == Asked!ToolUses(m)
                n == Len(m.calls)
    <3>4. n \in Nat /\ (\A i \in 1 .. n : u[i] \in Wired) /\ u = [i \in 1 .. n |-> u[i]]
      BY <3>1, <3>2, <3>3
    <3>. HIDE DEF u, n
    <3>5. u \in Seq(Wired)
      BY <3>4, IsASeq
    <3>. QED
      BY <3>5 DEF u
  <2>4. Asked!TextBlock(m) \o Asked!ToolUses(m) \in Seq(Wired)
    BY <2>2, <2>3, ConcatProperties
  <2>. HIDE DEF s
  <2>5. s \in Sent /\ s.role = "assistant"
    BY <2>1, <2>4 DEF Sent
  <2>. QED
    BY <1>5, <2>5 DEF s
<1>6. CASE m.role = "user" \/ (m.role = "assistant" /\ m.calls = <<>>)
  <2>1. s = [role |-> m.role, blocks |-> <<one>>]
    BY <1>6 DEF Asked!Converted
  <2>. HIDE DEF s, one
  <2>2. s.role = m.role /\ s.blocks = <<one>> /\ s \in Sent
    BY <1>3, <1>6, <2>1 DEF Sent
  <2>. QED
    BY <1>6, <2>2 DEF s, one
<1>. QED
  BY <1>1, <1>4, <1>5, <1>6

(***************************************************************************)
(* The request with one message more.                                      *)
(***************************************************************************)
LEMMA ConvertAppend ==
  ASSUME NEW c \in Seq(Held), NEW m \in Held
  PROVE  LET r == Asked!convertMessages(c)
             s == Asked!convertMessages(Append(c, m))
         IN  /\ r.messages \in Seq(Sent) /\ r.system \in Seq(Seq(TurnTexts))
             /\ m.role = "system" => s.messages = r.messages /\ Len(s.system) = Len(r.system) + 1
             /\ m.role # "system" =>
                  s.messages = Append(r.messages, Asked!Converted(m)) /\ s.system = r.system
<1>. DEFINE a == Append(c, m)
            f == [h \in Held |-> IF h.role = "system" THEN <<h.content>> ELSE <<>>]
            g == [h \in Held |-> IF h.role = "system" THEN <<>> ELSE <<Asked!Converted(h)>>]
            r == Asked!convertMessages(c)
            s == Asked!convertMessages(a)
<1>1. Makes(f, Held, Seq(TurnTexts))
  <2>1. \A h \in Held : h.content \in Seq(TurnTexts)
    BY DEF Held
  <2>. QED
    BY <2>1 DEF Makes
<1>2. Makes(g, Held, Sent)
  <2>1. ASSUME NEW h \in Held PROVE g[h] \in Seq(Sent)
    <3>1. CASE h.role = "system"
      BY <3>1
    <3>2. CASE h.role # "system"
      <4>1. Asked!Converted(h) \in Sent
        BY <3>2, ConvertedMessage
      <4>. QED
        BY <3>2, <4>1
    <3>. QED
      BY <3>1, <3>2
  <2>. QED
    BY <2>1 DEF Makes
<1>3. (\A i \in DOMAIN c : c[i] \in Held) /\ a \in Seq(Held) /\ \A i \in DOMAIN a : a[i] \in Held
  <2>1. a \in Seq(Held)
    BY AppendProperties
  <2>. HIDE DEF a
  <2>. QED
    BY <2>1
<1>4. ASSUME NEW d \in Seq(Held)
      PROVE  LET q == Asked!convertMessages(d) IN
             /\ q.system = SumOf(f, d)
             /\ q.messages = SumOf(g, d)
  <2>1. \A i \in DOMAIN d : d[i] \in Held
    OBVIOUS
  <2>2. [i \in DOMAIN d |-> f[d[i]]] = [i \in DOMAIN d |-> IF d[i].role = "system" THEN <<d[i].content>> ELSE <<>>]
    BY <2>1
  <2>3. [i \in DOMAIN d |-> g[d[i]]] = [i \in DOMAIN d |-> IF d[i].role = "system" THEN <<>> ELSE <<Asked!Converted(d[i])>>]
    BY <2>1
  <2>. HIDE DEF f, g
  <2>. QED
    BY <2>2, <2>3, AskedFlattenSeq DEF Asked!convertMessages, SumOf
<1>. HIDE DEF f, g
<1>5. /\ SumOf(f, c) \in Seq(Seq(TurnTexts))
      /\ SumOf(f, a) = SumOf(f, c) \o f[m]
  BY <1>1, SumOfAppend
<1>6. /\ SumOf(g, c) \in Seq(Sent)
      /\ SumOf(g, a) = SumOf(g, c) \o g[m]
  BY <1>2, SumOfAppend
<1>. HIDE DEF a
<1>7. /\ r.system \in Seq(Seq(TurnTexts)) /\ s.system = r.system \o f[m]
      /\ r.messages \in Seq(Sent) /\ s.messages = r.messages \o g[m]
  BY <1>3, <1>4, <1>5, <1>6
<1>. HIDE DEF r, s
<1>8. CASE m.role = "system"
  <2>1. f[m] = <<m.content>> /\ g[m] = <<>> /\ m.content \in Seq(TurnTexts)
    BY <1>8 DEF f, g, Held
  <2>2. s.messages = r.messages /\ Len(s.system) = Len(r.system) + 1
    BY <1>7, <2>1
  <2>. QED
    BY <1>7, <1>8, <2>2 DEF r, s, a
<1>9. CASE m.role # "system"
  <2>1. f[m] = <<>> /\ g[m] = <<Asked!Converted(m)>> /\ Asked!Converted(m) \in Sent
    BY <1>9, ConvertedMessage DEF f, g
  <2>2. s.messages = Append(r.messages, Asked!Converted(m)) /\ s.system = r.system
    BY <1>7, <2>1, AppendIsConcat
  <2>. QED
    BY <1>7, <1>9, <2>2 DEF r, s, a
<1>. QED
  BY <1>8, <1>9

\* A conversation with no message makes a request with none.
LEMMA ConvertNothing ==
  Asked!convertMessages(<<>>) = [system |-> <<>>, messages |-> <<>>]
<1>1. \A f : [i \in DOMAIN <<>> |-> f[i]] = <<>>
  OBVIOUS
<1>2. [i \in DOMAIN <<>> |-> IF <<>>[i].role = "system" THEN <<<<>>[i].content>> ELSE <<>>] = <<>>
      /\ [i \in DOMAIN <<>> |-> IF <<>>[i].role = "system" THEN <<>> ELSE <<Asked!Converted(<<>>[i])>>] = <<>>
  OBVIOUS
<1>. QED
  BY <1>2, AskedFlattenSeq, FlattenEmpty DEF Asked!convertMessages

(***************************************************************************)
(* The messages of the model in a request, with one message more.          *)
(***************************************************************************)
OfModelIn(msgs) ==
  FlattenSeq([i \in DOMAIN msgs |-> IF msgs[i].role = "assistant" THEN <<msgs[i]>> ELSE <<>>])

\* A message put at the end is the model's last if it has the model's role.
LEMMA OfModelAppend ==
  ASSUME NEW msgs \in Seq(Sent), NEW m \in Sent
  PROVE  /\ OfModelIn(msgs) \in Seq(Sent)
         /\ OfModelIn(Append(msgs, m)) =
              IF m.role = "assistant" THEN Append(OfModelIn(msgs), m) ELSE OfModelIn(msgs)
<1>. DEFINE a == Append(msgs, m)
            f == [h \in Sent |-> IF h.role = "assistant" THEN <<h>> ELSE <<>>]
<1>1. Makes(f, Sent, Sent)
  BY DEF Makes
<1>2. a \in Seq(Sent)
  BY AppendProperties
<1>3. ASSUME NEW d \in Seq(Sent) PROVE OfModelIn(d) = SumOf(f, d)
  <2>1. \A i \in DOMAIN d : d[i] \in Sent
    OBVIOUS
  <2>2. [i \in DOMAIN d |-> f[d[i]]] = [i \in DOMAIN d |-> IF d[i].role = "assistant" THEN <<d[i]>> ELSE <<>>]
    BY <2>1
  <2>. HIDE DEF f
  <2>. QED
    BY <2>2 DEF OfModelIn, SumOf
<1>4. f[m] = IF m.role = "assistant" THEN <<m>> ELSE <<>>
  OBVIOUS
<1>. HIDE DEF f
<1>5. /\ SumOf(f, msgs) \in Seq(Sent)
      /\ SumOf(f, a) = SumOf(f, msgs) \o f[m]
  BY <1>1, SumOfAppend
<1>. HIDE DEF a
<1>6. OfModelIn(msgs) \in Seq(Sent) /\ OfModelIn(a) = OfModelIn(msgs) \o f[m]
  BY <1>2, <1>3, <1>5
<1>7. CASE m.role = "assistant"
  <2>1. OfModelIn(msgs) \o <<m>> = Append(OfModelIn(msgs), m)
    BY <1>6, AppendIsConcat
  <2>. QED
    BY <1>4, <1>6, <1>7, <2>1 DEF a
<1>8. CASE m.role # "assistant"
  <2>1. OfModelIn(msgs) \o <<>> = OfModelIn(msgs)
    BY <1>6
  <2>. QED
    BY <1>4, <1>6, <1>8, <2>1 DEF a
<1>. QED
  BY <1>7, <1>8

(***************************************************************************)
(* The results between a message of the model and the next, and the calls  *)
(* that are still open after the newest.                                   *)
(***************************************************************************)
IdsIn(m, ty) == LET picked == Asked!OfType(m.blocks, ty) IN {picked[k].id : k \in DOMAIN picked}

Answering(msgs, i) ==
  {j \in i + 1 .. Len(msgs) : \A k \in i + 1 .. j : msgs[k].role # "assistant"}

Newest(msgs, i) == \A k \in i + 1 .. Len(msgs) : msgs[k].role # "assistant"

ResultsOf(msgs, i) == UNION {IdsIn(msgs[j], "tool_result") : j \in Answering(msgs, i)}

Paired(msgs, open) ==
  \A i \in 1 .. Len(msgs) :
    msgs[i].role = "assistant" =>
      IdsIn(msgs[i], "tool_use") = ResultsOf(msgs, i) \union IF Newest(msgs, i) THEN open ELSE {}

\* A message that is not the model's closes the calls whose results it brings.
LEMMA PairedReply ==
  ASSUME NEW msgs \in Seq(Sent), NEW m \in Sent, m.role # "assistant", NEW open, NEW left,
         Paired(msgs, open), open = IdsIn(m, "tool_result") \union left
  PROVE  Paired(Append(msgs, m), left)
<1>. DEFINE a == Append(msgs, m)
            n == Len(msgs)
<1>1. /\ n \in Nat /\ a \in Seq(Sent) /\ Len(a) = n + 1 /\ a[n + 1] = m
      /\ \A i \in 1 .. n : a[i] = msgs[i]
  BY AppendProperties
<1>. HIDE DEF a, n
<1>2. SUFFICES ASSUME NEW i \in 1 .. n + 1, a[i].role = "assistant"
               PROVE  IdsIn(a[i], "tool_use") =
                        ResultsOf(a, i) \union IF Newest(a, i) THEN left ELSE {}
  BY <1>1 DEF Paired, a
<1>3. i \in 1 .. n /\ a[i] = msgs[i]
  BY <1>1, <1>2
<1>4. IdsIn(msgs[i], "tool_use") = ResultsOf(msgs, i) \union IF Newest(msgs, i) THEN open ELSE {}
  BY <1>2, <1>3 DEF Paired, n
<1>5. \A j \in i + 1 .. n : a[j] = msgs[j]
  BY <1>1, <1>3
<1>6. Newest(a, i) <=> Newest(msgs, i)
  <2>1. \A k \in i + 1 .. n + 1 : k \in i + 1 .. n \/ k = n + 1
    BY <1>1, <1>3
  <2>2. \A k \in i + 1 .. n : k \in i + 1 .. n + 1
    BY <1>1, <1>3
  <2>. QED
    BY <1>1, <1>5, <2>1, <2>2 DEF Newest, n
<1>7. \A j \in i + 1 .. n : j \in Answering(a, i) <=> j \in Answering(msgs, i)
  <2>1. \A j \in i + 1 .. n : j \in i + 1 .. n + 1 /\ \A k \in i + 1 .. j : k \in i + 1 .. n
    BY <1>1, <1>3
  <2>. QED
    BY <1>1, <1>5, <2>1 DEF Answering, n
<1>8. n + 1 \in Answering(a, i) <=> Newest(a, i)
  <2>1. n + 1 \in i + 1 .. n + 1
    BY <1>1, <1>3
  <2>. QED
    BY <1>1, <2>1 DEF Answering, Newest
<1>9. Answering(a, i) = Answering(msgs, i) \union IF Newest(msgs, i) THEN {n + 1} ELSE {}
  <2>1. \A j : j \in Answering(a, i) => j \in i + 1 .. n \/ j = n + 1
    <3>1. \A j \in i + 1 .. n + 1 : j \in i + 1 .. n \/ j = n + 1
      BY <1>1, <1>3
    <3>. QED
      BY <1>1, <3>1 DEF Answering
  <2>2. \A j : j \in Answering(msgs, i) => j \in i + 1 .. n
    BY DEF Answering, n
  <2>. QED
    BY <1>6, <1>7, <1>8, <2>1, <2>2
<1>10. ResultsOf(a, i) = ResultsOf(msgs, i) \union IF Newest(msgs, i) THEN IdsIn(m, "tool_result") ELSE {}
  <2>1. \A j \in Answering(msgs, i) : a[j] = msgs[j]
    BY <1>5 DEF Answering, n
  <2>2. UNION {IdsIn(a[j], "tool_result") : j \in Answering(msgs, i)} = ResultsOf(msgs, i)
    BY <2>1 DEF ResultsOf
  <2>3. CASE Newest(msgs, i)
    <3>1. Answering(a, i) = Answering(msgs, i) \union {n + 1}
      BY <1>9, <2>3
    <3>2. \A x : x \in ResultsOf(a, i) <=> \E j \in Answering(a, i) : x \in IdsIn(a[j], "tool_result")
      BY DEF ResultsOf
    <3>3. \A x : x \in ResultsOf(msgs, i) <=> \E j \in Answering(msgs, i) : x \in IdsIn(msgs[j], "tool_result")
      BY DEF ResultsOf
    <3>4. \A x : x \in ResultsOf(a, i) <=> x \in ResultsOf(msgs, i) \/ x \in IdsIn(m, "tool_result")
      BY <1>1, <2>1, <3>1, <3>2, <3>3
    <3>. QED
      BY <2>3, <3>4
  <2>4. CASE ~Newest(msgs, i)
    BY <1>9, <2>2, <2>4 DEF ResultsOf
  <2>. QED
    BY <2>3, <2>4
<1>. QED
  BY <1>3, <1>4, <1>6, <1>10

\* When no call is open, the model's next message opens its own.
LEMMA PairedAnswer ==
  ASSUME NEW msgs \in Seq(Sent), NEW m \in Sent, m.role = "assistant", Paired(msgs, {})
  PROVE  Paired(Append(msgs, m), IdsIn(m, "tool_use"))
<1>. DEFINE a == Append(msgs, m)
            n == Len(msgs)
<1>1. /\ n \in Nat /\ a \in Seq(Sent) /\ Len(a) = n + 1 /\ a[n + 1] = m
      /\ \A i \in 1 .. n : a[i] = msgs[i]
  BY AppendProperties
<1>. HIDE DEF a, n
<1>2. SUFFICES ASSUME NEW i \in 1 .. n + 1, a[i].role = "assistant"
               PROVE  IdsIn(a[i], "tool_use") =
                        ResultsOf(a, i) \union IF Newest(a, i) THEN IdsIn(m, "tool_use") ELSE {}
  BY <1>1 DEF Paired, a
<1>3. CASE i = n + 1
  <2>1. i + 1 .. n + 1 = {}
    BY <1>1, <1>3
  <2>2. Answering(a, i) = {} /\ Newest(a, i)
    BY <1>1, <2>1 DEF Answering, Newest
  <2>3. ResultsOf(a, i) = {}
    BY <2>2 DEF ResultsOf
  <2>. QED
    BY <1>1, <1>3, <2>2, <2>3
<1>4. CASE i # n + 1
  <2>1. i \in 1 .. n /\ a[i] = msgs[i] /\ n + 1 \in i + 1 .. n + 1
    BY <1>1, <1>4
  <2>2. ~Newest(a, i)
    BY <1>1, <2>1 DEF Newest
  <2>3. \A j \in i + 1 .. n : a[j] = msgs[j]
    BY <1>1, <2>1
  <2>4. Answering(a, i) = Answering(msgs, i)
    <3>1. n + 1 \notin Answering(a, i)
      BY <1>1, <2>1 DEF Answering
    <3>2. \A j \in i + 1 .. n : j \in i + 1 .. n + 1 /\ \A k \in i + 1 .. j : k \in i + 1 .. n
      BY <1>1, <2>1
    <3>3. \A j \in i + 1 .. n : j \in Answering(a, i) <=> j \in Answering(msgs, i)
      BY <1>1, <2>3, <3>2 DEF Answering, n
    <3>4. \A j \in i + 1 .. n + 1 : j \in i + 1 .. n \/ j = n + 1
      BY <1>1, <2>1
    <3>5. \A j : j \in Answering(a, i) => j \in i + 1 .. n + 1
      BY <1>1 DEF Answering
    <3>6. \A j : j \in Answering(msgs, i) => j \in i + 1 .. n
      BY DEF Answering, n
    <3>. QED
      BY <3>1, <3>3, <3>4, <3>5, <3>6
  <2>5. ResultsOf(a, i) = ResultsOf(msgs, i)
    <3>1. \A j \in Answering(msgs, i) : a[j] = msgs[j]
      BY <2>3 DEF Answering, n
    <3>. QED
      BY <2>4, <3>1 DEF ResultsOf
  <2>6. IdsIn(msgs[i], "tool_use") = ResultsOf(msgs, i)
    BY <1>2, <2>1 DEF Paired, n
  <2>. QED
    BY <2>1, <2>2, <2>5, <2>6
<1>. QED
  BY <1>3, <1>4

\* The least of some numbers, as the models take it.
LEMMA AskedMin ==
  ASSUME NEW S \in SUBSET Nat, S # {}
  PROVE  Asked!Min(S) \in S /\ \A k \in S : Asked!Min(S) <= k
<1>1. \E k \in S : \A j \in S : k <= j
  BY LeastNumber
<1>. QED
  BY <1>1 DEF Asked!Min

\* The messages up to the next of the model are those with none of the model's before them.
LEMMA AnsweringUpToNext ==
  ASSUME NEW msgs \in Seq(Sent), NEW i \in 1 .. Len(msgs)
  PROVE  LET next == {j \in 1 .. Len(msgs) : j > i /\ msgs[j].role = "assistant"}
             last == IF next = {} THEN Len(msgs) ELSE Asked!Min(next) - 1
         IN  i + 1 .. last = Answering(msgs, i)
<1>. DEFINE n == Len(msgs)
            next == {j \in 1 .. n : j > i /\ msgs[j].role = "assistant"}
            last == IF next = {} THEN n ELSE Asked!Min(next) - 1
<1>1. n \in Nat /\ i \in 1 .. n
  OBVIOUS
<1>. HIDE DEF n
<1>2. CASE next = {}
  <2>1. \A k \in i + 1 .. n : msgs[k].role # "assistant"
    BY <1>1, <1>2
  <2>2. \A j \in i + 1 .. n : \A k \in i + 1 .. j : k \in i + 1 .. n
    BY <1>1
  <2>. QED
    BY <1>2, <2>1, <2>2 DEF Answering, n
<1>3. CASE next # {}
  <2>. DEFINE least == Asked!Min(next)
  <2>1. least \in next /\ \A k \in next : least <= k
    <3>1. next \in SUBSET Nat
      BY <1>1
    <3>. HIDE DEF next
    <3>. QED
      BY <1>3, <3>1, AskedMin
  <2>. HIDE DEF least
  <2>2. least \in i + 1 .. n /\ msgs[least].role = "assistant"
    BY <1>1, <2>1
  <2>3. \A k \in i + 1 .. n : k < least => msgs[k].role # "assistant"
    <3>1. ASSUME NEW k \in i + 1 .. n, k < least, msgs[k].role = "assistant" PROVE FALSE
      <4>1. k \in next
        BY <1>1, <3>1
      <4>2. least <= k
        BY <2>1, <4>1
      <4>. QED
        BY <1>1, <2>2, <3>1, <4>2
    <3>. QED
      BY <3>1
  <2>4. ASSUME NEW j \in i + 1 .. n PROVE j < least <=> j \in Answering(msgs, i)
    <3>1. CASE j < least
      <4>1. \A k \in i + 1 .. j : k \in i + 1 .. n /\ k < least
        BY <1>1, <2>2, <3>1
      <4>. QED
        BY <2>3, <3>1, <4>1 DEF Answering, n
    <3>2. CASE ~(j < least)
      <4>1. least \in i + 1 .. j
        BY <1>1, <2>2, <3>2
      <4>. QED
        BY <2>2, <3>2, <4>1 DEF Answering, n
    <3>. QED
      BY <3>1, <3>2
  <2>5. \A j : j \in i + 1 .. least - 1 <=> j \in i + 1 .. n /\ j < least
    BY <1>1, <2>2
  <2>6. \A j : j \in Answering(msgs, i) => j \in i + 1 .. n
    BY DEF Answering, n
  <2>7. last = least - 1
    BY <1>3 DEF least
  <2>. HIDE DEF last
  <2>. QED
    BY <2>4, <2>5, <2>6, <2>7 DEF last, n
<1>. QED
  BY <1>2, <1>3 DEF n

(***************************************************************************)
(* The inductive invariant: what convertMessages makes of the conversation *)
(* as it is now shows each answer and closes each call, but for those of   *)
(* the newest answer that are still open; ids are not used twice.          *)
(***************************************************************************)
CalledIn(c) == UNION {CallIds(c[i]) : i \in DOMAIN c}
AnsweredIn(c) == {c[i].call : i \in DOMAIN c}
OpenIn(c) == CalledIn(c) \ AnsweredIn(c)

ShownIn(msgs, answers) ==
  /\ Len(OfModelIn(msgs)) = Len(answers)
  /\ \A i \in 1 .. Len(answers) : Shows(OfModelIn(msgs)[i], answers[i])

ConvertedWell(c, answers) ==
  LET r == Asked!convertMessages(c) IN
  /\ Len(r.system) + Len(r.messages) = Len(c)
  /\ r.messages \in Seq(Sent)
  /\ r.system \in Seq(Seq(TurnTexts))
  /\ ShownIn(r.messages, answers)
  /\ Paired(r.messages, OpenIn(c))

AskedIInv ==
  /\ conversation \in Seq(Held) /\ said \in Seq(Seq(Block))
  /\ ConvertedWell(conversation, said)
  /\ CalledIn(conversation) \subseteq 1 .. MaxBlocks * Len(said)
  /\ AnsweredIn(conversation) \subseteq 0 .. MaxBlocks * Len(said)
  /\ waiting => request = Asked!convertMessages(conversation) /\ OpenIn(conversation) = {}

\* The calls made and left open, by the conversation alone.
LEMMA AskedOpen ==
  ASSUME conversation \in Seq(Held)
  PROVE  /\ Asked!Called = CalledIn(conversation)
         /\ Asked!Unanswered = OpenIn(conversation)
<1>1. \A m : {c.id : c \in Asked!Range(m.calls)} = CallIds(m)
  BY DEF Asked!Range, CallIds
<1>. QED
  BY <1>1 DEF Asked!Unanswered, Asked!Called, Asked!Answered, OpenIn, CalledIn, AnsweredIn

\* From the invariant follow the properties of a request.
LEMMA AskedProperties ==
  ASSUME AskedIInv
  PROVE  Asked!SaidAgain /\ Asked!CallsAnswered
<1>. SUFFICES ASSUME waiting PROVE Asked!SaidAgain /\ Asked!CallsAnswered
  BY DEF Asked!SaidAgain, Asked!CallsAnswered
<1>. DEFINE msgs == request.messages
<1>1. /\ Len(request.system) + Len(msgs) = Len(conversation)
      /\ msgs \in Seq(Sent) /\ ShownIn(msgs, said) /\ Paired(msgs, {})
  BY DEF AskedIInv, ConvertedWell
<1>2. Asked!OfModel = OfModelIn(msgs)
  BY AskedFlattenSeq DEF Asked!OfModel, OfModelIn
<1>3. DOMAIN said = 1 .. Len(said)
  BY DEF AskedIInv
<1>4. Asked!SaidAgain
  BY <1>1, <1>2, <1>3 DEF ShownIn, Shows, Asked!SaidAgain
<1>5. DOMAIN msgs = 1 .. Len(msgs) /\ Len(msgs) \in Nat
  BY <1>1
<1>. HIDE DEF msgs
<1>6. ASSUME NEW i \in 1 .. Len(msgs), msgs[i].role = "assistant"
      PROVE  LET ids(ty, j) == {b.id : b \in Asked!Range(Asked!OfType(msgs[j].blocks, ty))}
                 next == {j \in 1 .. Len(msgs) : j > i /\ msgs[j].role = "assistant"}
                 last == IF next = {} THEN Len(msgs) ELSE Asked!Min(next) - 1
             IN  ids("tool_use", i) = UNION {ids("tool_result", j) : j \in i + 1 .. last}
  <2>. DEFINE ids(ty, j) == {b.id : b \in Asked!Range(Asked!OfType(msgs[j].blocks, ty))}
              next == {j \in 1 .. Len(msgs) : j > i /\ msgs[j].role = "assistant"}
              last == IF next = {} THEN Len(msgs) ELSE Asked!Min(next) - 1
  <2>1. \A ty, j : ids(ty, j) = IdsIn(msgs[j], ty)
    BY DEF IdsIn, Asked!Range
  <2>2. i + 1 .. last = Answering(msgs, i)
    BY <1>1, <1>6, AnsweringUpToNext
  <2>3. IdsIn(msgs[i], "tool_use") = ResultsOf(msgs, i)
    BY <1>1, <1>6 DEF Paired
  <2>. HIDE DEF last
  <2>4. ids("tool_use", i) = UNION {ids("tool_result", j) : j \in i + 1 .. last}
    BY <2>1, <2>2, <2>3 DEF ResultsOf
  <2>. QED
    BY <2>4 DEF last
<1>7. Asked!CallsAnswered
  BY <1>1, <1>5, <1>6 DEF Asked!CallsAnswered, msgs
<1>. QED
  BY <1>4, <1>7

\* A message more: what was called and answered.
LEMMA OpenAppend ==
  ASSUME NEW c \in Seq(Held), NEW m \in Held
  PROVE  /\ Append(c, m) \in Seq(Held) /\ Len(Append(c, m)) = Len(c) + 1
         /\ CalledIn(Append(c, m)) = CalledIn(c) \union CallIds(m)
         /\ AnsweredIn(Append(c, m)) = AnsweredIn(c) \union {m.call}
<1>. DEFINE a == Append(c, m)
            n == Len(c)
<1>1. /\ n \in Nat /\ a \in Seq(Held) /\ Len(a) = n + 1 /\ a[n + 1] = m
      /\ \A i \in 1 .. n : a[i] = c[i]
      /\ DOMAIN a = 1 .. n + 1 /\ DOMAIN c = 1 .. n
  BY AppendProperties, LenProperties
<1>. HIDE DEF a, n
<1>2. \A i : i \in 1 .. n + 1 <=> i \in 1 .. n \/ i = n + 1
  BY <1>1
<1>3. \A x : x \in CalledIn(a) <=> \E i \in 1 .. n + 1 : x \in CallIds(a[i])
  BY <1>1 DEF CalledIn
<1>4. \A x : x \in CalledIn(c) <=> \E i \in 1 .. n : x \in CallIds(c[i])
  BY <1>1 DEF CalledIn
<1>5. CalledIn(a) = CalledIn(c) \union CallIds(m)
  <2>1. \A x : x \in CalledIn(a) <=> x \in CalledIn(c) \/ x \in CallIds(m)
    BY <1>1, <1>2, <1>3, <1>4
  <2>. QED
    BY <2>1
<1>6. AnsweredIn(a) = AnsweredIn(c) \union {m.call}
  BY <1>1, <1>2 DEF AnsweredIn
<1>. QED
  BY <1>1, <1>5, <1>6 DEF a, n

\* A message that is not the model's.
LEMMA ConvertedReply ==
  ASSUME NEW c \in Seq(Held), NEW answers, ConvertedWell(c, answers), NEW m \in Held,
         m.role # "assistant",
         m.role = "tool" => OpenIn(c) = {m.call} \union OpenIn(Append(c, m)),
         m.role # "tool" => OpenIn(c) = OpenIn(Append(c, m))
  PROVE  ConvertedWell(Append(c, m), answers)
<1>. DEFINE r == Asked!convertMessages(c)
            s == Asked!convertMessages(Append(c, m))
            left == OpenIn(Append(c, m))
            shown == Asked!Converted(m)
<1>1. /\ r.messages \in Seq(Sent) /\ r.system \in Seq(Seq(TurnTexts))
      /\ m.role = "system" => s.messages = r.messages /\ Len(s.system) = Len(r.system) + 1
      /\ m.role # "system" => s.messages = Append(r.messages, shown) /\ s.system = r.system
  BY ConvertAppend
<1>2. s.system \in Seq(Seq(TurnTexts))
  <2>1. \E d \in Seq(Held) : d = Append(c, m)
    BY OpenAppend
  <2>2. \A d \in Seq(Held) : Asked!convertMessages(d).system \in Seq(Seq(TurnTexts))
    BY ConvertAppend
  <2>. QED
    BY <2>1, <2>2
<1>3. Len(Append(c, m)) = Len(c) + 1
  BY OpenAppend
<1>4. /\ Len(r.system) + Len(r.messages) = Len(c)
      /\ ShownIn(r.messages, answers) /\ Paired(r.messages, OpenIn(c))
  BY DEF ConvertedWell
<1>5. Len(r.system) \in Nat /\ Len(r.messages) \in Nat
  BY <1>1
<1>6. CASE m.role = "system"
  <2>1. s.messages = r.messages /\ Len(s.system) = Len(r.system) + 1 /\ OpenIn(c) = left
    BY <1>1, <1>6
  <2>2. Len(s.system) + Len(s.messages) = Len(Append(c, m))
    <3>. DEFINE x == Len(r.system)
                y == Len(r.messages)
    <3>1. x \in Nat /\ y \in Nat /\ x + y = Len(c)
      BY <1>4, <1>5
    <3>2. Len(s.system) = x + 1 /\ Len(s.messages) = y
      BY <2>1
    <3>. HIDE DEF x, y, s
    <3>. QED
      BY <1>3, <3>1, <3>2
  <2>. QED
    BY <1>1, <1>2, <1>4, <2>1, <2>2 DEF ConvertedWell
<1>7. CASE m.role # "system"
  <2>1. s.messages = Append(r.messages, shown) /\ s.system = r.system
    BY <1>1, <1>7
  <2>2. /\ shown \in Sent /\ shown.role # "assistant"
        /\ m.role = "tool" => shown.blocks = <<[type |-> "tool_result", id |-> m.call, text |-> m.content]>>
        /\ m.role = "user" => shown.blocks = <<[type |-> "text", text |-> m.content]>>
    BY <1>7, ConvertedMessage
  <2>3. m.role \in {"tool", "user"}
    BY <1>7 DEF Held
  <2>4. OpenIn(c) = IdsIn(shown, "tool_result") \union left
    <3>1. CASE m.role = "tool"
      <4>. DEFINE b == [type |-> "tool_result", id |-> m.call, text |-> m.content]
      <4>1. b.type = "tool_result" /\ b.id = m.call /\ shown.blocks = <<b>>
        BY <2>2, <3>1
      <4>. HIDE DEF b, shown
      <4>2. Asked!OfType(shown.blocks, "tool_result") = <<b>>
        BY <4>1, OfTypeOne
      <4>3. IdsIn(shown, "tool_result") = {m.call}
        BY <4>1, <4>2 DEF IdsIn
      <4>. QED
        BY <3>1, <4>3
    <3>2. CASE m.role = "user"
      <4>. DEFINE b == [type |-> "text", text |-> m.content]
      <4>1. b.type = "text" /\ shown.blocks = <<b>>
        BY <2>2, <3>2
      <4>. HIDE DEF b, shown
      <4>2. Asked!OfType(shown.blocks, "tool_result") = <<>>
        BY <4>1, OfTypeOne
      <4>3. IdsIn(shown, "tool_result") = {}
        BY <4>2 DEF IdsIn
      <4>. QED
        BY <3>2, <4>3
    <3>. QED
      BY <2>3, <3>1, <3>2
  <2>. HIDE DEF r, s, left, shown
  <2>5. Paired(s.messages, left)
    BY <1>1, <1>4, <2>1, <2>2, <2>4, PairedReply
  <2>6. ShownIn(s.messages, answers)
    <3>1. OfModelIn(s.messages) = OfModelIn(r.messages)
      BY <1>1, <2>1, <2>2, OfModelAppend
    <3>. QED
      BY <1>4, <3>1 DEF ShownIn
  <2>7. s.messages \in Seq(Sent) /\ Len(s.messages) = Len(r.messages) + 1
    BY <1>1, <2>1, <2>2, AppendProperties
  <2>8. Len(s.system) + Len(s.messages) = Len(Append(c, m))
    <3>. DEFINE x == Len(r.system)
                y == Len(r.messages)
    <3>1. x \in Nat /\ y \in Nat /\ x + y = Len(c)
      BY <1>4, <1>5
    <3>2. Len(s.system) = x /\ Len(s.messages) = y + 1
      BY <2>1, <2>7
    <3>. HIDE DEF x, y
    <3>. QED
      BY <1>3, <3>1, <3>2
  <2>. QED
    BY <1>2, <2>5, <2>6, <2>7, <2>8 DEF ConvertedWell, s, left
<1>. QED
  BY <1>6, <1>7

\* An answer, when no call is open.
LEMMA ConvertedAnswered ==
  ASSUME NEW c \in Seq(Held), NEW answers \in Seq(Seq(Block)), ConvertedWell(c, answers), OpenIn(c) = {},
         NEW blocks \in Seq(Block),
         OpenIn(Append(c, Asked!parseResponse(blocks))) = CallIds(Asked!parseResponse(blocks))
  PROVE  ConvertedWell(Append(c, Asked!parseResponse(blocks)), Append(answers, blocks))
<1>. DEFINE m == Asked!parseResponse(blocks)
            uses == Asked!OfType(blocks, "tool_use")
            r == Asked!convertMessages(c)
            s == Asked!convertMessages(Append(c, m))
            shown == Asked!Converted(m)
            n == Len(answers)
            later == Append(answers, blocks)
<1>1. m \in Held /\ m.role = "assistant" /\ CallIds(m) = {uses[i].id : i \in DOMAIN uses}
  BY ParsedAnswer
<1>2. shown.role = "assistant" /\ Shows(shown, blocks)
  BY ConvertedAnswer
<1>3. IdsIn(shown, "tool_use") = CallIds(m)
  <2>1. Asked!OfType(shown.blocks, "tool_use") = uses
    BY <1>2 DEF Shows
  <2>. HIDE DEF shown, m, uses
  <2>. QED
    BY <1>1, <2>1 DEF IdsIn
<1>4. OpenIn(Append(c, m)) = CallIds(m)
  OBVIOUS
<1>. HIDE DEF m, uses
<1>5. /\ r.messages \in Seq(Sent) /\ r.system \in Seq(Seq(TurnTexts))
      /\ s.messages = Append(r.messages, shown) /\ s.system = r.system
  BY <1>1, ConvertAppend
<1>6. shown \in Sent
  BY <1>1, ConvertedMessage
<1>7. Len(Append(c, m)) = Len(c) + 1
  BY <1>1, OpenAppend
<1>8. /\ Len(r.system) + Len(r.messages) = Len(c)
      /\ ShownIn(r.messages, answers) /\ Paired(r.messages, {})
  BY DEF ConvertedWell
<1>9. /\ n \in Nat /\ Len(later) = n + 1 /\ later[n + 1] = blocks /\ \A i \in 1 .. n : later[i] = answers[i]
  <2>1. n \in Nat
    OBVIOUS
  <2>. QED
    BY <2>1, AppendProperties
<1>. HIDE DEF r, s, shown, n, later
<1>10. Paired(s.messages, CallIds(m))
  BY <1>2, <1>3, <1>5, <1>6, <1>8, PairedAnswer
<1>11. ShownIn(s.messages, later)
  <2>. DEFINE o == OfModelIn(r.messages)
              p == OfModelIn(s.messages)
  <2>1. o \in Seq(Sent) /\ p = Append(o, shown)
    BY <1>2, <1>5, <1>6, OfModelAppend
  <2>2. Len(o) = n /\ \A i \in 1 .. n : Shows(o[i], answers[i])
    BY <1>8 DEF ShownIn, n
  <2>. HIDE DEF o
  <2>3. Len(p) = n + 1 /\ p[n + 1] = shown /\ \A i \in 1 .. n : p[i] = o[i]
    <3>1. Append(o, shown) \in Seq(Sent) /\ Len(Append(o, shown)) = Len(o) + 1
          /\ Append(o, shown)[Len(o) + 1] = shown /\ \A i \in 1 .. Len(o) : Append(o, shown)[i] = o[i]
      BY <1>6, <2>1, AppendProperties
    <3>. HIDE DEF p
    <3>. QED
      BY <2>1, <2>2, <3>1
  <2>. HIDE DEF p
  <2>4. \A i \in 1 .. n + 1 : Shows(p[i], later[i])
    <3>1. \A i \in 1 .. n + 1 : i \in 1 .. n \/ i = n + 1
      BY <1>9
    <3>. QED
      BY <1>2, <1>9, <2>2, <2>3, <3>1
  <2>. QED
    BY <1>9, <2>3, <2>4 DEF ShownIn, p
<1>12. s.messages \in Seq(Sent) /\ Len(s.messages) = Len(r.messages) + 1
  BY <1>5, <1>6, AppendProperties
<1>13. Len(s.system) + Len(s.messages) = Len(Append(c, m))
  <2>1. Len(r.system) \in Nat /\ Len(r.messages) \in Nat
    BY <1>5
  <2>. DEFINE x == Len(r.system)
              y == Len(r.messages)
  <2>2. x \in Nat /\ y \in Nat /\ x + y = Len(c)
    BY <1>8, <2>1
  <2>3. Len(s.system) = x /\ Len(s.messages) = y + 1
    BY <1>5, <1>12
  <2>. HIDE DEF x, y
  <2>. QED
    BY <1>7, <2>2, <2>3
<1>. QED
  BY <1>4, <1>5, <1>10, <1>11, <1>12, <1>13 DEF ConvertedWell, s, m, later

\* The arithmetic of one answer more: the nonlinear term is unfolded once, here.
LEMMA TimesOneMore ==
  ASSUME NEW a \in Nat, NEW b \in Nat
  PROVE  a * b \in Nat /\ a * (b + 1) \in Nat /\ a * (b + 1) = a * b + a
OBVIOUS

\* A conversation that has grown by a message that is not the model's.
LEMMA GrownBy ==
  ASSUME AskedIInv, ~waiting, NEW m \in Held, m.role # "assistant", CallIds(m) = {},
         m.role # "tool" => m.call = 0 /\ OpenIn(conversation) = {},
         m.role = "tool" => m.call \in OpenIn(conversation),
         MaxBlocks \in Nat,
         conversation' = Append(conversation, m), UNCHANGED <<request, waiting, said, thrown>>
  PROVE  AskedIInv'
<1>. DEFINE D == MaxBlocks * Len(said)
            c == Append(conversation, m)
<1>1. /\ conversation \in Seq(Held) /\ said \in Seq(Seq(Block)) /\ ConvertedWell(conversation, said)
      /\ CalledIn(conversation) \subseteq 1 .. D /\ AnsweredIn(conversation) \subseteq 0 .. D
  BY DEF AskedIInv
<1>2. D \in Nat
  <2>1. Len(said) \in Nat
    BY <1>1
  <2>. QED
    BY <2>1, TimesOneMore
<1>3. /\ c \in Seq(Held) /\ CalledIn(c) = CalledIn(conversation)
      /\ AnsweredIn(c) = AnsweredIn(conversation) \union {m.call}
  <2>1. /\ c \in Seq(Held) /\ CalledIn(c) = CalledIn(conversation) \union CallIds(m)
        /\ AnsweredIn(c) = AnsweredIn(conversation) \union {m.call}
    BY <1>1, OpenAppend
  <2>. HIDE DEF c
  <2>. QED
    BY <2>1
<1>. HIDE DEF D, c
<1>4. 0 \notin CalledIn(conversation) /\ \A x \in CalledIn(conversation) : x \in 0 .. D
  BY <1>1, <1>2
<1>5. m.role = "tool" => OpenIn(conversation) = {m.call} \union OpenIn(c)
  BY <1>3 DEF OpenIn
<1>6. m.role # "tool" => OpenIn(conversation) = OpenIn(c)
  BY <1>3, <1>4 DEF OpenIn
<1>7. ConvertedWell(c, said)
  BY <1>1, <1>5, <1>6, ConvertedReply DEF c
<1>8. AnsweredIn(c) \subseteq 0 .. D
  <2>1. m.call \in 0 .. D
    <3>1. 0 \in 0 .. D
      BY <1>2
    <3>2. OpenIn(conversation) \subseteq CalledIn(conversation)
      BY DEF OpenIn
    <3>. QED
      BY <1>4, <3>1, <3>2
  <2>. QED
    BY <1>1, <1>3, <2>1
<1>9. conversation' = c /\ said' = said /\ ~waiting'
  BY DEF c
<1>. QED
  BY <1>1, <1>3, <1>7, <1>8, <1>9 DEF AskedIInv, D

\* A message of the user or of a tool, or a request, keeps the invariant,
LEMMA GrowsStep ==
  ASSUME MaxBlocks \in Nat, AskedIInv, Asked!Grows
  PROVE  AskedIInv'
<1>1. conversation \in Seq(Held)
  BY DEF AskedIInv
<1>2. Asked!Unanswered = OpenIn(conversation)
  BY <1>1, AskedOpen
<1>3. ~waiting /\ UNCHANGED <<request, waiting, said, thrown>>
  BY DEF Asked!Grows
<1>4. ASSUME NEW role \in {"system", "user", "tool"}, NEW t \in TurnTexts, NEW id \in Nat
      PROVE  LET m == [Asked!Message(role, <<t>>) EXCEPT !.call = id]
             IN  m \in Held /\ m.role = role /\ m.call = id /\ CallIds(m) = {}
  <2>. DEFINE m == [Asked!Message(role, <<t>>) EXCEPT !.call = id]
  <2>1. m = [role |-> role, content |-> <<t>>, calls |-> <<>>, call |-> id, thinking |-> <<>>]
    BY DEF Asked!Message
  <2>2. <<t>> \in Seq(TurnTexts) /\ <<>> \in Seq(TurnTexts) /\ <<>> \in Seq([id : Nat, arguments : {"{x}"}])
    BY <1>4
  <2>. HIDE DEF m
  <2>3. m \in Held
    BY <2>1, <2>2 DEF Held
  <2>4. m.calls = <<>> /\ m.role = role /\ m.call = id
    BY <2>1
  <2>5. CallIds(m) = {}
    BY <2>4 DEF CallIds
  <2>. QED
    BY <2>3, <2>4, <2>5 DEF m
<1>5. CASE OpenIn(conversation) = {}
  <2>1. PICK role \in {"system", "user"}, t \in TurnTexts : conversation' = Append(conversation, Asked!Message(role, <<t>>))
    BY <1>2, <1>5 DEF Asked!Grows
  <2>2. Asked!Message(role, <<t>>) = [Asked!Message(role, <<t>>) EXCEPT !.call = 0]
    BY DEF Asked!Message
  <2>. DEFINE m == Asked!Message(role, <<t>>)
  <2>3. m \in Held /\ m.role = role /\ m.call = 0 /\ CallIds(m) = {}
    <3>. DEFINE n == [Asked!Message(role, <<t>>) EXCEPT !.call = 0]
    <3>1. n \in Held /\ n.role = role /\ n.call = 0 /\ CallIds(n) = {}
      BY <1>4
    <3>2. m = n
      BY <2>2
    <3>. HIDE DEF m, n
    <3>. QED
      BY <3>1, <3>2
  <2>. HIDE DEF m
  <2>4. conversation' = Append(conversation, m)
    BY <2>1 DEF m
  <2>5. m.role # "assistant" /\ m.role # "tool"
    BY <2>3
  <2>. QED
    BY <1>3, <1>5, <2>3, <2>4, <2>5, GrownBy
<1>6. CASE OpenIn(conversation) # {}
  <2>. DEFINE id == Asked!Min(OpenIn(conversation))
  <2>1. OpenIn(conversation) \in SUBSET Nat
    <3>1. CalledIn(conversation) \subseteq 1 .. MaxBlocks * Len(said)
      BY DEF AskedIInv
    <3>. QED
      BY <3>1 DEF OpenIn
  <2>2. id \in OpenIn(conversation) /\ id \in Nat
    BY <1>6, <2>1, AskedMin
  <2>3. PICK t \in TurnTexts : conversation' = Append(conversation, [Asked!Message("tool", <<t>>) EXCEPT !.call = id])
    BY <1>2, <1>6 DEF Asked!Grows
  <2>. HIDE DEF id
  <2>. DEFINE m == [Asked!Message("tool", <<t>>) EXCEPT !.call = id]
  <2>4. m \in Held /\ m.role = "tool" /\ m.call = id /\ CallIds(m) = {}
    BY <1>4, <2>2
  <2>5. conversation' = Append(conversation, m)
    BY <2>3
  <2>. HIDE DEF m
  <2>. QED
    BY <1>3, <2>2, <2>4, <2>5, GrownBy
<1>. QED
  BY <1>5, <1>6

\* A block that the model may answer with, when its arguments are whole.
LEMMA BlockOfAnswer ==
  ASSUME ~Streamed, NEW n \in Nat, NEW b \in Asked!Blocks(n)
  PROVE  b \in Block /\ (b.type = "tool_use" => b.id = n)
<1>1. CASE b \in [type : {"text", "thinking"}, text : {<<t>> : t \in TurnTexts}]
  <2>1. \A t \in TurnTexts : <<t>> \in Seq(TurnTexts)
    OBVIOUS
  <2>2. b \in Spoken /\ b.type # "tool_use"
    BY <1>1, <2>1 DEF Spoken
  <2>. QED
    BY <2>2 DEF Block
<1>2. CASE b \in [type : {"tool_use"}, id : {n}, input : {"{x}"}]
  <2>1. b \in Use /\ b.id = n
    BY <1>2 DEF Use
  <2>. QED
    BY <2>1 DEF Block
<1>3. {"{x}"} \union (IF Streamed THEN {"cut"} ELSE {}) = {"{x}"}
  OBVIOUS
<1>. QED
  BY <1>1, <1>2, <1>3 DEF Asked!Blocks

\* The blocks of an answer whose arguments are whole: ids that nothing has yet.
LEMMA BlocksOfAnswer ==
  ASSUME MaxBlocks \in Nat, ~Streamed, said \in Seq(Seq(Block)), NEW n \in 1 .. MaxBlocks,
         NEW blocks \in [1 .. n -> UNION {Asked!Blocks(Asked!Id(i)) : i \in 1 .. n}],
         \A i \in 1 .. n : blocks[i] \in Asked!Blocks(Asked!Id(i))
  PROVE  /\ blocks \in Seq(Block)
         /\ CallIds(Asked!parseResponse(blocks)) \subseteq
              MaxBlocks * Len(said) + 1 .. MaxBlocks * Len(said) + MaxBlocks
<1>. DEFINE D == MaxBlocks * Len(said)
            S == {b \in Block : b.type = "tool_use" => b.id \in D + 1 .. D + MaxBlocks}
<1>1. D \in Nat
  <2>1. Len(said) \in Nat
    OBVIOUS
  <2>. QED
    BY <2>1, TimesOneMore
<1>2. ASSUME NEW i \in 1 .. n PROVE blocks[i] \in S
  <2>1. Asked!Id(i) = D + i
    BY DEF Asked!Id
  <2>. HIDE DEF D
  <2>2. Asked!Id(i) \in Nat /\ Asked!Id(i) \in D + 1 .. D + MaxBlocks
    BY <1>1, <2>1
  <2>3. blocks[i] \in Block /\ (blocks[i].type = "tool_use" => blocks[i].id = Asked!Id(i))
    BY <2>2, BlockOfAnswer
  <2>. QED
    BY <2>2, <2>3
<1>3. blocks \in Seq(S)
  <2>. HIDE DEF S
  <2>1. n \in Nat /\ blocks \in [1 .. n -> S]
    BY <1>2
  <2>. QED
    BY <2>1, SeqDef
<1>4. blocks \in Seq(Block)
  BY <1>3, SeqMonotonic
<1>. DEFINE uses == Asked!OfType(blocks, "tool_use")
<1>5. CallIds(Asked!parseResponse(blocks)) = {uses[k].id : k \in DOMAIN uses}
  BY <1>4, ParsedAnswer
<1>6. uses \in Seq({b \in S : b.type = "tool_use"})
  <2>. HIDE DEF S
  <2>. QED
    BY <1>3, OfTypePicks
<1>. HIDE DEF uses
<1>7. \A k \in DOMAIN uses : uses[k].id \in D + 1 .. D + MaxBlocks
  <2>1. \A k \in DOMAIN uses : uses[k] \in {b \in S : b.type = "tool_use"}
    <3>. HIDE DEF S
    <3>. QED
      BY <1>6
  <2>. QED
    BY <2>1
<1>. QED
  BY <1>4, <1>5, <1>7

\* so does an answer of the model,
LEMMA AnswersStep ==
  ASSUME MaxBlocks \in Nat, ~Streamed, AskedIInv, Asked!Answers
  PROVE  AskedIInv'
<1>1. PICK n \in 1 .. MaxBlocks :
        \E blocks \in [1 .. n -> UNION {Asked!Blocks(Asked!Id(i)) : i \in 1 .. n}] :
          /\ \A i \in 1 .. n : blocks[i] \in Asked!Blocks(Asked!Id(i))
          /\ said' = Append(said, blocks)
          /\ conversation' = Append(conversation, Asked!parseResponse(blocks))
  BY DEF Asked!Answers
<1>2. PICK blocks \in [1 .. n -> UNION {Asked!Blocks(Asked!Id(i)) : i \in 1 .. n}] :
        /\ \A i \in 1 .. n : blocks[i] \in Asked!Blocks(Asked!Id(i))
        /\ said' = Append(said, blocks)
        /\ conversation' = Append(conversation, Asked!parseResponse(blocks))
  BY <1>1
<1>. DEFINE L == Len(said)
            D == MaxBlocks * L
            m == Asked!parseResponse(blocks)
            c == Append(conversation, m)
<1>3. waiting /\ ~waiting'
  BY DEF Asked!Answers
<1>4. /\ conversation \in Seq(Held) /\ said \in Seq(Seq(Block)) /\ ConvertedWell(conversation, said)
      /\ CalledIn(conversation) \subseteq 1 .. D /\ AnsweredIn(conversation) \subseteq 0 .. D
      /\ OpenIn(conversation) = {}
  BY <1>3 DEF AskedIInv
<1>5. blocks \in Seq(Block) /\ CallIds(m) \subseteq D + 1 .. D + MaxBlocks
  BY <1>2, <1>4, BlocksOfAnswer
<1>6. m \in Held /\ m.call = 0
  BY <1>5, ParsedAnswer
<1>. HIDE DEF m
<1>7. /\ c \in Seq(Held) /\ CalledIn(c) = CalledIn(conversation) \union CallIds(m)
      /\ AnsweredIn(c) = AnsweredIn(conversation) \union {0}
  BY <1>4, <1>6, OpenAppend
<1>8. L \in Nat /\ D \in Nat /\ MaxBlocks * (L + 1) = D + MaxBlocks
  <2>1. L \in Nat
    BY <1>4
  <2>. HIDE DEF L
  <2>. QED
    BY <2>1, TimesOneMore
<1>9. Len(said') = L + 1 /\ said' \in Seq(Seq(Block))
  BY <1>2, <1>4, <1>5, AppendProperties
<1>. HIDE DEF L, D, c
<1>10. \A x \in CallIds(m) : x \notin 0 .. D
  BY <1>5, <1>8
<1>11. OpenIn(c) = CallIds(m)
  <2>1. 0 \in 0 .. D
    BY <1>8
  <2>. QED
    BY <1>4, <1>7, <1>10, <2>1 DEF OpenIn
<1>12. ConvertedWell(c, Append(said, blocks))
  BY <1>4, <1>5, <1>11, ConvertedAnswered DEF c, m
<1>13. CalledIn(c) \subseteq 1 .. D + MaxBlocks /\ AnsweredIn(c) \subseteq 0 .. D + MaxBlocks
  <2>1. /\ \A x \in 1 .. D : x \in 1 .. D + MaxBlocks
        /\ \A x \in 0 .. D : x \in 0 .. D + MaxBlocks
        /\ \A x \in D + 1 .. D + MaxBlocks : x \in 1 .. D + MaxBlocks
        /\ 0 \in 0 .. D + MaxBlocks
    BY <1>8
  <2>. QED
    BY <1>4, <1>5, <1>7, <2>1
<1>14. conversation' = c /\ MaxBlocks * Len(said') = D + MaxBlocks
  BY <1>2, <1>8, <1>9 DEF c, m
<1>. QED
  BY <1>2, <1>3, <1>7, <1>9, <1>12, <1>13, <1>14 DEF AskedIInv

\* so every step does,
LEMMA AskedStep ==
  MaxBlocks \in Nat /\ ~Streamed /\ AskedIInv /\ [Asked!Next]_askedVars => AskedIInv'
<1>. SUFFICES ASSUME MaxBlocks \in Nat, ~Streamed, AskedIInv, [Asked!Next]_askedVars PROVE AskedIInv'
  OBVIOUS
<1>1. ASSUME Asked!Asks PROVE AskedIInv'
  <2>1. conversation \in Seq(Held)
    BY DEF AskedIInv
  <2>2. OpenIn(conversation) = {} /\ UNCHANGED <<conversation, said>>
        /\ request' = Asked!convertMessages(conversation)
    BY <1>1, <2>1, AskedOpen DEF Asked!Asks
  <2>. QED
    BY <2>2 DEF AskedIInv
<1>2. ASSUME Asked!Refused PROVE AskedIInv'
  <2>1. UNCHANGED <<conversation, request, said>> /\ ~waiting'
    BY <1>2 DEF Asked!Refused
  <2>. QED
    BY <2>1 DEF AskedIInv
<1>3. CASE UNCHANGED askedVars
  BY <1>3 DEF askedVars, AskedIInv
<1>. QED
  BY <1>1, <1>2, <1>3, GrowsStep, AnswersStep DEF Asked!Next

\* and the conversation starts in it.
LEMMA AskedInit == Asked!Init => AskedIInv
<1>. SUFFICES ASSUME Asked!Init PROVE AskedIInv
  OBVIOUS
<1>1. conversation = <<>> /\ said = <<>> /\ ~waiting
  BY DEF Asked!Init
<1>2. <<>> \in Seq(Held) /\ <<>> \in Seq(Seq(Block)) /\ <<>> \in Seq(Sent) /\ <<>> \in Seq(Seq(TurnTexts))
  OBVIOUS
<1>3. CalledIn(<<>>) = {} /\ AnsweredIn(<<>>) = {}
  BY DEF CalledIn, AnsweredIn
<1>4. OfModelIn(<<>>) = <<>>
  <2>1. [i \in DOMAIN <<>> |-> IF <<>>[i].role = "assistant" THEN <<<<>>[i]>> ELSE <<>>] = <<>>
    OBVIOUS
  <2>. QED
    BY <2>1, FlattenEmpty DEF OfModelIn
<1>5. Len(<<>>) = 0 /\ 1 .. 0 = {}
  OBVIOUS
<1>6. ShownIn(<<>>, <<>>) /\ Paired(<<>>, OpenIn(<<>>))
  BY <1>4, <1>5 DEF ShownIn, Paired
<1>7. Asked!convertMessages(<<>>).messages = <<>> /\ Asked!convertMessages(<<>>).system = <<>>
  BY ConvertNothing
<1>8. ConvertedWell(<<>>, <<>>)
  <2>. DEFINE r == Asked!convertMessages(<<>>)
  <2>1. r.messages = <<>> /\ r.system = <<>>
    BY <1>7
  <2>. HIDE DEF r
  <2>2. Len(r.system) + Len(r.messages) = Len(<<>>)
    BY <2>1
  <2>. QED
    BY <1>2, <1>6, <2>1, <2>2 DEF ConvertedWell, r
<1>. QED
  BY <1>1, <1>2, <1>3, <1>8 DEF AskedIInv

(***************************************************************************)
(* What was moved out of the conversation stays readable under its id      *)
(* (unless the model itself set or deleted the id), nothing leaves the     *)
(* list of messages without being recorded, a write's arguments are cut    *)
(* only when a newer write of the file follows (summarization.h); and each *)
(* request shows the model what it said, answer by answer, its calls with  *)
(* their results before the next answer (anthropic_provider.h).  This is   *)
(* so for any number of messages, blocks and ids; a stream that was cut    *)
(* in the middle of a call's arguments loses them.                         *)
(***************************************************************************)
THEOREM HistoryReadableCorrect ==
  ~Streamed => (ToolsSpec => []HistoryReadable)
<1>. SUFFICES ASSUME ~Streamed PROVE ToolsSpec => []HistoryReadable
  OBVIOUS
<1>. DEFINE Inv == (part = "turns" => TurnsIInv) /\ (part = "asked" => AskedIInv)
<1>1. ToolsInit => Inv
  BY TurnsInit, AskedInit DEF ToolsInit
<1>2. Inv /\ [ToolsNext]_toolsVars => Inv'
  BY ToolsStep, TurnsStep, AskedStep, ToolsAssumption
<1>3. Inv => HistoryReadable
  BY TurnsProperties, AskedProperties DEF HistoryReadable
<1>. QED
  BY <1>1, <1>2, <1>3, PTL DEF ToolsSpec

-----------------------------------------------------------------------------
(* Searches in files.                                                      *)

\* What a sequence names.
Names(s) == {s[i] : i \in DOMAIN s}

(***************************************************************************)
(* One more name, and the sequence names each once if it did before and    *)
(* the name is new.                                                        *)
(***************************************************************************)
LEMMA NamesAppend ==
  ASSUME NEW S, NEW s \in Seq(S), NEW e \in S
  PROVE  /\ Append(s, e) \in Seq(S) /\ Len(Append(s, e)) = Len(s) + 1
         /\ Names(Append(s, e)) = Names(s) \union {e}
         /\ (IsFiniteSet(Names(s)) /\ Len(s) = Cardinality(Names(s)) /\ e \notin Names(s)) =>
              /\ IsFiniteSet(Names(Append(s, e)))
              /\ Len(Append(s, e)) = Cardinality(Names(Append(s, e)))
<1>1. /\ Len(s) \in Nat /\ DOMAIN s = 1 .. Len(s)
      /\ Append(s, e) \in Seq(S) /\ Len(Append(s, e)) = Len(s) + 1
      /\ DOMAIN Append(s, e) = 1 .. Len(s) + 1
      /\ \A i \in 1 .. Len(s) : Append(s, e)[i] = s[i]
      /\ Append(s, e)[Len(s) + 1] = e
  BY AppendProperties, LenProperties
<1>2. Names(Append(s, e)) = Names(s) \union {e}
  <2>1. 1 .. Len(s) + 1 = (1 .. Len(s)) \union {Len(s) + 1}
    BY <1>1
  <2>. QED
    BY <1>1, <2>1 DEF Names
<1>3. ASSUME IsFiniteSet(Names(s)), e \notin Names(s)
      PROVE  IsFiniteSet(Names(s) \union {e})
             /\ Cardinality(Names(s) \union {e}) = Cardinality(Names(s)) + 1
  BY <1>3, FS_AddElement
<1>. QED
  BY <1>1, <1>2, <1>3

(***************************************************************************)
(* While the grep tool works, its answer names each match in the files it  *)
(* has looked into, once; while the list tool works, what has been there   *)
(* all the time is named or still to come, and the limit is not reached.   *)
(***************************************************************************)
SearchIInv ==
  /\ there \subseteq Files
  /\ met \in [start : SUBSET Files, always : SUBSET Files, ever : SUBSET Files]
  /\ tool = "grep" =>
       /\ answer \in Seq(Files) /\ todo \subseteq met.start
       /\ Names(answer) = hits \intersect (met.start \ todo)
       /\ IsFiniteSet(Names(answer)) /\ Len(answer) = Cardinality(Names(answer))
       /\ outcome = "answered" => todo = {}
  /\ tool = "list" =>
       /\ answer \in Seq(Files) /\ limit \in Nat
       /\ Names(answer) \subseteq met.ever /\ todo \subseteq met.ever
       /\ met.always \subseteq Names(answer) \union todo
       /\ (outcome = "none" /\ limit > 0) => Len(answer) < limit
       /\ outcome = "answered" =>
            /\ limit > 0 => Len(answer) <= limit
            /\ todo = {} \/ (limit > 0 /\ Len(answer) >= limit)

\* The invariant of the search holds before the first call,
LEMMA SearchInit == Search!Init => SearchIInv
<1>. SUFFICES ASSUME Search!Init PROVE SearchIInv
  OBVIOUS
<1>1. /\ answer = <<>> /\ outcome = "none" /\ limit \in {0, 1, 2}
      /\ todo = there /\ there \in SUBSET Files
      /\ met = [start |-> there, always |-> there, ever |-> there]
  BY DEF Search!Init, Search!Limits
<1>2. Names(<<>>) = {} /\ <<>> \in Seq(Files) /\ Len(<<>>) = 0
  BY DEF Names
<1>3. IsFiniteSet(Names(answer)) /\ Cardinality(Names(answer)) = 0
  BY <1>1, <1>2, FS_EmptySet
<1>4. answer \in Seq(Files) /\ Names(answer) = {} /\ Len(answer) = 0
  BY <1>1, <1>2
<1>5. /\ met \in [start : SUBSET Files, always : SUBSET Files, ever : SUBSET Files]
      /\ met.start = there /\ met.always = there /\ met.ever = there
  BY <1>1
<1>6. hits \intersect (met.start \ todo) = {}
  BY <1>1, <1>5
<1>7. limit \in Nat /\ (limit > 0 => 0 < limit) /\ outcome # "answered"
  BY <1>1
<1>. QED
  BY <1>1, <1>3, <1>4, <1>5, <1>6, <1>7 DEF SearchIInv

\* Files that come and go disturb neither.
LEMMA ChangedStep ==
  ASSUME SearchIInv, NEW f \in Files, Search!Create(f) \/ Search!Delete(f)
  PROVE  SearchIInv'
<1>1. PICK new :
        /\ Search!Changed(new) /\ new \subseteq there \union {f}
        /\ IF tool = "list" THEN todo' \subseteq todo \union (new \intersect {f})
                                 /\ todo \intersect new \subseteq todo'
                            ELSE todo' = todo
  <2>1. CASE Search!Create(f)
    BY <2>1 DEF Search!Create
  <2>2. CASE Search!Delete(f)
    BY <2>2 DEF Search!Delete
  <2>. QED
    BY <2>1, <2>2
<1>2. /\ outcome = "none" /\ met' = [met EXCEPT !.always = @ \intersect new, !.ever = @ \union new]
      /\ UNCHANGED <<hits, tool, limit, answer, outcome>> /\ there' = new
  BY <1>1 DEF Search!Changed, Search!callVars
<1>3. /\ there \subseteq Files /\ new \subseteq Files
      /\ met \in [start : SUBSET Files, always : SUBSET Files, ever : SUBSET Files]
  BY <1>1 DEF SearchIInv
<1>4. /\ met' \in [start : SUBSET Files, always : SUBSET Files, ever : SUBSET Files]
      /\ met'.start = met.start /\ met'.always = met.always \intersect new
      /\ met'.ever = met.ever \union new
  BY <1>2, <1>3
<1>5. (tool = "grep" =>
       /\ answer \in Seq(Files) /\ todo \subseteq met.start
       /\ Names(answer) = hits \intersect (met.start \ todo)
       /\ IsFiniteSet(Names(answer)) /\ Len(answer) = Cardinality(Names(answer))
       /\ outcome = "answered" => todo = {})'
  BY <1>1, <1>2, <1>4 DEF SearchIInv
<1>6. (tool = "list" =>
       /\ answer \in Seq(Files) /\ limit \in Nat
       /\ Names(answer) \subseteq met.ever /\ todo \subseteq met.ever
       /\ met.always \subseteq Names(answer) \union todo
       /\ (outcome = "none" /\ limit > 0) => Len(answer) < limit
       /\ outcome # "answered")'
  BY <1>1, <1>2, <1>4 DEF SearchIInv
<1>. QED
  BY <1>2, <1>3, <1>4, <1>5, <1>6 DEF SearchIInv

\* after an entry is listed,
LEMMA ListEntryStep ==
  ASSUME SearchIInv, NEW f \in Files, Search!ListEntry(f)
  PROVE  SearchIInv'
<1>1. /\ tool = "list" /\ outcome = "none" /\ f \in todo
      /\ answer' = Append(answer, f) /\ todo' = todo \ {f}
      /\ UNCHANGED <<there, hits, tool, limit, met>>
      /\ IF limit > 0 /\ Len(answer') >= limit THEN outcome' = "answered" ELSE outcome' = outcome
  BY DEF Search!ListEntry, Search!callVars, Search!Reached, Search!Ends
<1>2. /\ answer \in Seq(Files) /\ limit \in Nat /\ Len(answer) \in Nat
      /\ Names(answer) \subseteq met.ever /\ todo \subseteq met.ever
      /\ met.always \subseteq Names(answer) \union todo
      /\ limit > 0 => Len(answer) < limit
  BY <1>1 DEF SearchIInv
<1>3. /\ answer' \in Seq(Files) /\ Len(answer') = Len(answer) + 1
      /\ Names(answer') = Names(answer) \union {f}
  BY <1>1, <1>2, NamesAppend
<1>4. /\ Names(answer') \subseteq met.ever /\ todo' \subseteq met.ever
      /\ met.always \subseteq Names(answer') \union todo'
  BY <1>1, <1>2, <1>3
<1>5. /\ (outcome' = "none" /\ limit > 0) => Len(answer') < limit
      /\ outcome' = "answered" => limit > 0 /\ Len(answer') >= limit /\ Len(answer') <= limit
  BY <1>1, <1>2, <1>3
<1>6. /\ there \subseteq Files
      /\ met \in [start : SUBSET Files, always : SUBSET Files, ever : SUBSET Files]
  BY DEF SearchIInv
<1>. QED
  BY <1>1, <1>2, <1>3, <1>4, <1>5, <1>6 DEF SearchIInv

\* after a file is searched,
LEMMA GrepFileStep ==
  ASSUME SearchIInv, NEW f \in Files, Search!GrepFile(f)
  PROVE  SearchIInv'
<1>1. /\ tool = "grep" /\ outcome = "none" /\ f \in todo
      /\ UNCHANGED <<there, hits, tool, limit, met>>
  BY DEF Search!GrepFile, Search!callVars
<1>2. /\ there \subseteq Files
      /\ met \in [start : SUBSET Files, always : SUBSET Files, ever : SUBSET Files]
      /\ answer \in Seq(Files) /\ todo \subseteq met.start
      /\ Names(answer) = hits \intersect (met.start \ todo)
      /\ IsFiniteSet(Names(answer)) /\ Len(answer) = Cardinality(Names(answer))
  BY <1>1 DEF SearchIInv
<1>3. CASE ~Search!Readable(f)
  <2>1. outcome' = "failed" /\ UNCHANGED <<todo, answer>>
    BY <1>3 DEF Search!GrepFile, Search!Ends
  <2>. QED
    BY <1>1, <1>2, <2>1 DEF SearchIInv
<1>4. CASE Search!Readable(f) /\ f \notin hits
  <2>1. outcome' = "none" /\ answer' = answer /\ todo' = todo \ {f}
    BY <1>1, <1>4 DEF Search!GrepFile
  <2>. QED
    BY <1>1, <1>2, <1>4, <2>1 DEF SearchIInv
<1>5. CASE Search!Readable(f) /\ f \in hits
  <2>1. outcome' = "none" /\ answer' = Append(answer, f) /\ todo' = todo \ {f}
    BY <1>1, <1>5 DEF Search!GrepFile, Search!Left
  <2>2. f \notin Names(answer) /\ f \in met.start
    BY <1>1, <1>2
  <2>3. /\ answer' \in Seq(Files) /\ Names(answer') = Names(answer) \union {f}
        /\ IsFiniteSet(Names(answer')) /\ Len(answer') = Cardinality(Names(answer'))
    <3>. DEFINE a == Append(answer, f)
    <3>1. answer \in Seq(Files) /\ f \in Files
      BY <1>2
    <3>2. IsFiniteSet(Names(answer)) /\ Len(answer) = Cardinality(Names(answer))
      BY <1>2
    <3>3. /\ a \in Seq(Files) /\ Names(a) = Names(answer) \union {f}
          /\ IsFiniteSet(Names(a)) /\ Len(a) = Cardinality(Names(a))
      BY <2>2, <3>1, <3>2, NamesAppend
    <3>. QED
      BY <2>1, <3>3
  <2>4. todo' \subseteq met.start /\ Names(answer') = hits \intersect (met.start \ todo')
    BY <1>2, <1>5, <2>1, <2>2, <2>3
  <2>. QED
    BY <1>1, <1>2, <2>1, <2>3, <2>4 DEF SearchIInv
<1>. QED
  BY <1>3, <1>4, <1>5

\* so after every step.
LEMMA SearchStep == SearchIInv /\ [Search!Next]_searchVars => SearchIInv'
<1>. SUFFICES ASSUME SearchIInv, [Search!Next]_searchVars PROVE SearchIInv'
  OBVIOUS
<1>1. CASE Search!ListEnds
  BY <1>1 DEF Search!ListEnds, Search!Ends, Search!callVars, SearchIInv
<1>2. CASE Search!Glob
  BY <1>2 DEF Search!Glob, Search!Ends, Search!callVars, SearchIInv
<1>3. CASE Search!GrepEnds
  BY <1>3 DEF Search!GrepEnds, Search!Ends, Search!callVars, SearchIInv
<1>4. CASE Search!ReadBinary
  <2>1. /\ tool = "binary"
        /\ UNCHANGED <<there, changes, hits, Search!callVars, todo, answer, met>>
    BY <1>4 DEF Search!ReadBinary
  <2>. QED
    BY <2>1 DEF Search!callVars, SearchIInv
<1>5. CASE UNCHANGED searchVars
  BY <1>5 DEF searchVars, SearchIInv
<1>. QED
  BY <1>1, <1>2, <1>3, <1>4, <1>5, ChangedStep, ListEntryStep, GrepFileStep DEF Search!Next

\* From it follow the properties of the searches.
LEMMA SearchProperties == SearchIInv => Search!GrepComplete /\ Search!ListWithinLimit
<1>. SUFFICES ASSUME SearchIInv PROVE Search!GrepComplete /\ Search!ListWithinLimit
  OBVIOUS
<1>1. \A s : Search!Range(s) = Names(s)
  BY DEF Search!Range, Names
<1>2. \A S : Search!Cardinality(S) = Cardinality(S)
  BY DEF Search!Cardinality, Cardinality
<1>3. Search!GrepComplete
  BY <1>1, <1>2 DEF SearchIInv, Search!GrepComplete
<1>4. Search!ListWithinLimit
  <2>. SUFFICES ASSUME tool = "list", outcome = "answered"
                PROVE  /\ limit > 0 => Len(answer) <= limit
                       /\ Names(answer) \subseteq met.ever
                       /\ (limit = 0 \/ Len(answer) < limit) => met.always \subseteq Names(answer)
    BY <1>1 DEF Search!ListWithinLimit
  <2>1. answer \in Seq(Files) /\ Len(answer) \in Nat /\ limit \in Nat
    BY DEF SearchIInv
  <2>. QED
    BY <2>1 DEF SearchIInv
<1>. QED
  BY <1>3, <1>4

-----------------------------------------------------------------------------
(* The lines of a file.                                                    *)

(***************************************************************************)
(* What holds of 0, and of the next number when it holds of a number,      *)
(* holds of all.                                                           *)
(***************************************************************************)
LEMMA AllNumbers ==
  ASSUME NEW Good \in SUBSET Nat, 0 \in Good, \A n \in Good : n + 1 \in Good
  PROVE  Good = Nat
<1>. DEFINE Bad == Nat \ Good
<1>1. SUFFICES ASSUME Bad # {} PROVE FALSE
  OBVIOUS
<1>2. PICK n \in Bad : \A k \in Bad : n <= k
  <2>1. Bad \in SUBSET Nat
    OBVIOUS
  <2>. HIDE DEF Bad
  <2>. QED
    BY <1>1, <2>1, LeastNumber
<1>3. n - 1 \in Nat /\ n - 1 \notin Good /\ n - 1 < n
  BY <1>2
<1>. QED
  BY <1>2, <1>3

\* The module's instances of the library's operators are the library's.
LEMMA EditsOperators ==
  /\ \A S : Edits!Cardinality(S) = Cardinality(S)
  /\ \A s : Edits!FlattenSeq(s) = FlattenSeq(s)
  /\ \A s : Edits!Last(s) = s[Len(s)]
<1>1. \A S : Edits!Cardinality(S) = Cardinality(S)
  BY DEF Edits!Cardinality, Cardinality
<1>2. \A s : Edits!FlattenSeq(s) = FlattenSeq(s)
  BY DEF Edits!FlattenSeq, FlattenSeq
<1>3. \A s : Edits!Last(s) = s[Len(s)]
  BY DEF Edits!Last
<1>. QED
  BY <1>1, <1>2, <1>3

\* The least of a set of numbers is in it and below the others.
LEMMA EditsMin ==
  ASSUME NEW S \in SUBSET Nat, S # {}
  PROVE  Edits!Min(S) \in S /\ \A k \in S : Edits!Min(S) <= k
<1>1. \E i \in S : \A k \in S : i <= k
  BY LeastNumber
<1>. QED
  BY <1>1 DEF Edits!Min

(***************************************************************************)
(* In a finite set of naturals there is, for each number up to its size,   *)
(* exactly one element with so many elements up to it; the elements are    *)
(* met in their order.                                                     *)
(***************************************************************************)
LEMMA Elements ==
  ASSUME NEW n \in Nat, NEW O \in SUBSET (1 .. n)
  PROVE  LET upTo(i) == Cardinality({j \in O : j <= i}) IN
           /\ Cardinality(O) \in Nat
           /\ \A k \in 1 .. Cardinality(O) : \E i \in O : upTo(i) = k
           /\ \A i \in O : upTo(i) \in 1 .. Cardinality(O)
           /\ \A i, k \in O : upTo(i) < upTo(k) => i < k
           /\ \A i, k \in O : upTo(i) = upTo(k) => i = k
           /\ \A i \in O : (\A k \in O : k <= i) => upTo(i) = Cardinality(O)
<1>. DEFINE below(i) == {j \in O : j < i}
            rank(i) == Cardinality(below(i))
            to(i) == {j \in O : j <= i}
            upTo(i) == Cardinality(to(i))
            size == Cardinality(O)
<1>1. /\ IsFiniteSet(O) /\ size \in Nat
      /\ \A i \in O : rank(i) \in Nat /\ rank(i) < size
      /\ \A i, k \in O : i < k => rank(i) < rank(k)
  BY Ranks
<1>2. ASSUME NEW i \in O PROVE upTo(i) = rank(i) + 1
  <2>1. to(i) = below(i) \union {i} /\ i \notin below(i)
    <3>1. \A j \in O : (j <= i <=> j < i \/ j = i) /\ ~ (i < i)
      OBVIOUS
    <3>2. \A j : j \in to(i) <=> j \in below(i) \/ j = i
      BY <1>2, <3>1
    <3>3. i \notin below(i)
      BY <3>1
    <3>. HIDE DEF to, below
    <3>. QED
      BY <3>2, <3>3
  <2>2. IsFiniteSet(below(i))
    <3>1. below(i) \in SUBSET O
      OBVIOUS
    <3>. HIDE DEF below
    <3>. QED
      BY <1>1, <3>1, FS_Subset
  <2>3. Cardinality(below(i) \union {i}) = Cardinality(below(i)) + 1
    <3>. HIDE DEF below
    <3>. QED
      BY <2>1, <2>2, FS_AddElement
  <2>. QED
    BY <2>1, <2>3
<1>. HIDE DEF below, rank, to, upTo, size
<1>3. \A i \in O : upTo(i) \in 1 .. size
  BY <1>1, <1>2
<1>4. \A i, k \in O : i < k => upTo(i) < upTo(k)
  BY <1>1, <1>2
<1>5. \A i, k \in O : i < k \/ i = k \/ k < i
  OBVIOUS
<1>6. \A i, k \in O : upTo(i) < upTo(k) => i < k
  BY <1>3, <1>4, <1>5
<1>7. \A i, k \in O : upTo(i) = upTo(k) => i = k
  BY <1>3, <1>4, <1>5
<1>8. \A k \in 1 .. size : \E i \in O : upTo(i) = k
  <2>. DEFINE f == [i \in O |-> upTo(i)]
  <2>1. f \in Injection(O, 1 .. size)
    BY <1>3, <1>7 DEF Injection, IsInjective
  <2>2. IsFiniteSet(1 .. size) /\ Cardinality(1 .. size) = size
    <3>1. size \in Int /\ 1 \in Int /\ (IF 1 > size THEN 0 ELSE size - 1 + 1) = size
      BY <1>1
    <3>. QED
      BY <3>1, FS_Interval
  <2>3. f \in Surjection(O, 1 .. size)
    <3>. HIDE DEF f
    <3>. QED
      BY <2>1, <2>2, FS_Injection DEF size
  <2>. QED
    BY <2>3 DEF Surjection
<1>9. \A i \in O : (\A k \in O : k <= i) => upTo(i) = size
  <2>1. \A i \in O : (\A k \in O : k <= i) => to(i) = O
    BY DEF to
  <2>. QED
    BY <2>1 DEF upTo, size
<1>. QED
  BY <1>1, <1>3, <1>6, <1>7, <1>8, <1>9 DEF to, upTo, size

(***************************************************************************)
(* Each line starts within the text or right behind it, and none before    *)
(* the one above it; behind a last line break no text is left.             *)
(***************************************************************************)
LEMMA LineStarts ==
  ASSUME NEW S, NEW t \in Seq(S)
  PROVE  LET n == Cardinality(Edits!Breaks(t)) IN
           /\ n \in Nat
           /\ \A k \in 0 .. n : Edits!LineStart(t, k) \in 1 .. Len(t) + 1
           /\ \A k \in 0 .. n - 1 : Edits!LineStart(t, k) <= Edits!LineStart(t, k + 1)
           /\ (t = <<>> \/ t[Len(t)] = LineBreak) => Edits!LineStart(t, n) = Len(t) + 1
<1>. DEFINE O == Edits!Breaks(t)
            n == Cardinality(O)
            upTo(i) == Cardinality({j \in O : j <= i})
            start(k) == Edits!LineStart(t, k)
<1>1. Len(t) \in Nat /\ O \in SUBSET (1 .. Len(t)) /\ DOMAIN t = 1 .. Len(t)
  BY DEF Edits!Breaks
<1>2. /\ n \in Nat
      /\ \A k \in 1 .. n : \E i \in O : upTo(i) = k
      /\ \A i, k \in O : upTo(i) < upTo(k) => i < k
      /\ \A i, k \in O : upTo(i) = upTo(k) => i = k
      /\ \A i \in O : (\A k \in O : k <= i) => upTo(i) = n
  <2>. HIDE DEF O
  <2>. QED
    BY <1>1, Elements
<1>3. start(0) = 1
  BY DEF Edits!LineStart
<1>4. \A k \in 1 .. n : \E i \in O : start(k) = 1 + i /\ upTo(i) = k
  <2>. TAKE k \in 1 .. n
  <2>1. \E i \in O : Edits!Cardinality({j \in O : j <= i}) = k
    BY <1>2, EditsOperators
  <2>2. k # 0
    BY <1>2
  <2>3. start(k) = 1 + CHOOSE i \in O : Edits!Cardinality({j \in O : j <= i}) = k
    BY <2>2 DEF Edits!LineStart
  <2>. QED
    BY <2>1, <2>3, EditsOperators
<1>. HIDE DEF start, upTo, n, O
<1>5. \A k \in 0 .. n : start(k) \in 1 .. Len(t) + 1
  <2>1. \A k \in 0 .. n : k = 0 \/ k \in 1 .. n
    BY <1>2
  <2>. QED
    BY <1>1, <1>3, <1>4, <2>1
<1>6. \A k \in 0 .. n - 1 : start(k) <= start(k + 1)
  <2>. TAKE k \in 0 .. n - 1
  <2>1. k + 1 \in 1 .. n /\ (k = 0 \/ k \in 1 .. n) /\ k < k + 1
    BY <1>2
  <2>2. PICK i \in O : start(k + 1) = 1 + i /\ upTo(i) = k + 1
    BY <1>4, <2>1
  <2>3. CASE k = 0
    BY <1>1, <1>3, <2>2, <2>3
  <2>4. CASE k \in 1 .. n
    <3>1. PICK h \in O : start(k) = 1 + h /\ upTo(h) = k
      BY <1>4, <2>4
    <3>2. h < i
      BY <1>2, <2>1, <2>2, <3>1
    <3>. QED
      BY <1>1, <2>2, <3>1, <3>2
  <2>. QED
    BY <2>1, <2>3, <2>4
<1>7. ASSUME t = <<>> \/ t[Len(t)] = LineBreak PROVE start(n) = Len(t) + 1
  <2>1. CASE t = <<>>
    <3>1. O = {} /\ Len(t) = 0
      BY <1>1, <2>1
    <3>2. n = 0
      BY <3>1, FS_EmptySet DEF n
    <3>. QED
      BY <1>3, <3>1, <3>2
  <2>2. CASE t # <<>>
    <3>1. Len(t) \in O
      BY <1>1, <1>7, <2>2 DEF O, Edits!Breaks
    <3>2. \A k \in O : k <= Len(t)
      BY <1>1
    <3>3. upTo(Len(t)) = n
      BY <1>2, <3>1, <3>2
    <3>4. n \in 1 .. n
      <4>1. n # 0
        <5>1. IsFiniteSet(O)
          <6>1. IsFiniteSet(1 .. Len(t))
            BY <1>1, FS_Interval
          <6>. QED
            BY <1>1, <6>1, FS_Subset
        <5>. QED
          BY <3>1, <5>1, FS_EmptySet DEF n
      <4>. QED
        BY <1>2, <4>1
    <3>5. PICK i \in O : start(n) = 1 + i /\ upTo(i) = n
      BY <1>4, <3>4
    <3>6. i = Len(t)
      BY <1>2, <3>1, <3>3, <3>5
    <3>. QED
      BY <1>1, <3>5, <3>6
  <2>. QED
    BY <2>1, <2>2
<1>. QED
  BY <1>2, <1>5, <1>6, <1>7 DEF n, O, start

\* The pieces between the places that st names.
Pieces(t, st, n) == [i \in 1 .. n |-> SubSeq(t, st[i - 1], st[i] - 1)]

Placed(t, st, n) ==
  /\ \A k \in 0 .. n : st[k] \in 1 .. Len(t) + 1
  /\ \A k \in 0 .. n - 1 : st[k] <= st[k + 1]

(***************************************************************************)
(* Adjacent pieces of a sequence, joined, are the piece from the start of  *)
(* the first to the end of the last.                                       *)
(***************************************************************************)
LEMMA JoinedPieces ==
  ASSUME NEW S, NEW t \in Seq(S), NEW n \in Nat, NEW st, Placed(t, st, n), NEW a \in 0 .. n, NEW b \in a .. n
  PROVE  FlattenSeq(SubSeq(Pieces(t, st, n), a + 1, b)) = SubSeq(t, st[a], st[b] - 1)
<1>. DEFINE pieces == Pieces(t, st, n)
            Joined(c) == FlattenSeq(SubSeq(pieces, a + 1, c)) = SubSeq(t, st[a], st[c] - 1)
            Good == {d \in Nat : a + d <= n => st[a] <= st[a + d] /\ Joined(a + d)}
<1>1. /\ Len(t) \in Nat
      /\ \A k \in 0 .. n : st[k] \in 1 .. Len(t) + 1
      /\ \A k \in 0 .. n - 1 : st[k] <= st[k + 1]
      /\ pieces = [i \in 1 .. n |-> SubSeq(t, st[i - 1], st[i] - 1)]
  BY DEF Placed, Pieces
<1>. HIDE DEF pieces
<1>2. \A i \in 1 .. n : pieces[i] \in Seq(S)
  <2>. TAKE i \in 1 .. n
  <2>1. i - 1 \in 0 .. n /\ i \in 0 .. n
    OBVIOUS
  <2>2. st[i - 1] \in Int /\ st[i] - 1 \in Int /\ \A j \in st[i - 1] .. st[i] - 1 : t[j] \in S
    <3>1. st[i - 1] \in 1 .. Len(t) + 1 /\ st[i] \in 1 .. Len(t) + 1
      BY <1>1, <2>1
    <3>2. \A j \in st[i - 1] .. st[i] - 1 : j \in 1 .. Len(t)
      BY <1>1, <3>1
    <3>3. \A j \in 1 .. Len(t) : t[j] \in S
      OBVIOUS
    <3>. QED
      BY <1>1, <3>1, <3>2, <3>3
  <2>3. SubSeq(t, st[i - 1], st[i] - 1) \in Seq(S)
    BY <2>2, SubSeqProperties
  <2>. QED
    BY <1>1, <2>3
<1>3. pieces \in Seq(Seq(S)) /\ Len(pieces) = n
  BY <1>1, <1>2, IsASeq
<1>4. \A c \in a .. n - 1 : /\ SubSeq(pieces, a + 1, c + 1) = Append(SubSeq(pieces, a + 1, c), pieces[c + 1])
                            /\ SubSeq(pieces, a + 1, c) \in Seq(Seq(S))
  <2>. TAKE c \in a .. n - 1
  <2>1. a + 1 \in 1 .. Len(pieces) /\ c + 1 \in a + 1 .. Len(pieces) /\ c + 1 - 1 = c
    BY <1>3
  <2>. DEFINE m == a + 1
              k == c + 1
  <2>2. m \in 1 .. Len(pieces) /\ k \in m .. Len(pieces) /\ k - 1 = c
    BY <2>1
  <2>3. m \in Int /\ c \in Int /\ \A i \in m .. c : pieces[i] \in Seq(S)
    BY <1>2
  <2>4. pieces[k] \in Seq(S)
    BY <1>2
  <2>. HIDE DEF m, k
  <2>5. SubSeq(pieces, m, k) = SubSeq(pieces, m, k - 1) \o <<pieces[k]>>
    BY <1>3, <2>2, SubSeqRecursiveSecond
  <2>6. SubSeq(pieces, m, c) \in Seq(Seq(S))
    BY <2>3, SubSeqProperties
  <2>7. Append(SubSeq(pieces, m, c), pieces[k]) = SubSeq(pieces, m, c) \o <<pieces[k]>>
    BY <2>4, <2>6, AppendIsConcat
  <2>. QED
    BY <2>2, <2>5, <2>6, <2>7 DEF m, k
<1>5. 0 \in Good
  <2>1. SubSeq(pieces, a + 1, a) = <<>>
    <3>1. a + 1 \in Int /\ a \in Int /\ a < a + 1
      OBVIOUS
    <3>. QED
      BY <3>1, SubSeqEmpty
  <2>2. SubSeq(t, st[a], st[a] - 1) = <<>>
    <3>1. st[a] \in Int /\ st[a] - 1 \in Int /\ st[a] - 1 < st[a]
      BY <1>1
    <3>. QED
      BY <3>1, SubSeqEmpty
  <2>3. st[a] <= st[a] /\ a + 0 = a
    BY <1>1
  <2>. HIDE DEF Joined
  <2>4. Joined(a)
    BY <2>1, <2>2, FlattenEmpty DEF Joined
  <2>. QED
    BY <2>3, <2>4
<1>6. ASSUME NEW d \in Good PROVE d + 1 \in Good
  <2>. DEFINE c == a + d
              next == c + 1
  <2>1. SUFFICES ASSUME next <= n PROVE st[a] <= st[next] /\ Joined(next)
    <3>1. a + (d + 1) = next /\ d + 1 \in Nat
      OBVIOUS
    <3>. HIDE DEF Joined, next
    <3>. QED
      BY <3>1
  <2>2. c \in a .. n - 1 /\ c \in 0 .. n /\ c \in 0 .. n - 1 /\ next \in 1 .. n /\ next \in 0 .. n /\ c <= n
        /\ next - 1 = c
    BY <2>1
  <2>3. st[a] <= st[c] /\ Joined(c)
    <3>. HIDE DEF Joined
    <3>. QED
      BY <2>2
  <2>4. /\ SubSeq(pieces, a + 1, next) = Append(SubSeq(pieces, a + 1, c), pieces[next])
        /\ SubSeq(pieces, a + 1, c) \in Seq(Seq(S)) /\ pieces[next] \in Seq(S)
    <3>. HIDE DEF c
    <3>. QED
      BY <1>2, <1>4, <2>2
  <2>5. pieces[next] = SubSeq(t, st[c], st[next] - 1)
    <3>. HIDE DEF c, next
    <3>. QED
      BY <1>1, <2>2
  <2>6. st[c] <= st[next] /\ st[a] \in 1 .. Len(t) + 1 /\ st[c] \in 1 .. Len(t) + 1
        /\ st[next] \in 1 .. Len(t) + 1
    BY <1>1, <2>2
  <2>. HIDE DEF c, next
  <2>7. SubSeq(t, st[a], st[c] - 1) \o SubSeq(t, st[c], st[next] - 1) = SubSeq(t, st[a], st[next] - 1)
    <3>. DEFINE m == st[a]
                k == st[c] - 1
                e == st[next] - 1
    <3>0. Len(t) \in Nat
      OBVIOUS
    <3>1. /\ m \in 1 .. Len(t) + 1 /\ k \in m - 1 .. Len(t) /\ e \in k .. Len(t)
          /\ k + 1 = st[c]
      BY ONLY <2>3, <2>6, <3>0
    <3>. HIDE DEF m, k, e
    <3>2. SubSeq(t, m, k) \o SubSeq(t, k + 1, e) = SubSeq(t, m, e)
      BY <3>1, ConcatAdjacentSubSeq
    <3>. QED
      BY <3>1, <3>2 DEF m, k, e
  <2>8. FlattenSeq(SubSeq(pieces, a + 1, next)) = FlattenSeq(SubSeq(pieces, a + 1, c)) \o pieces[next]
    BY <2>4, FlattenAppend
  <2>9. st[a] <= st[next]
    BY <1>1, <2>3, <2>6
  <2>. QED
    BY <2>3, <2>5, <2>7, <2>8, <2>9
<1>7. Good = Nat
  <2>1. Good \in SUBSET Nat
    OBVIOUS
  <2>. HIDE DEF Good
  <2>. QED
    BY <1>5, <1>6, <2>1, AllNumbers
<1>8. b - a \in Nat /\ a + (b - a) = b /\ b <= n
  OBVIOUS
<1>9. b - a \in Good
  <2>. HIDE DEF Good
  <2>. QED
    BY <1>7, <1>8
<1>10. Joined(b)
  <2>. HIDE DEF Joined
  <2>. QED
    BY <1>8, <1>9
<1>. QED
  BY <1>10 DEF pieces

(***************************************************************************)
(* A read with a limit of a text whose lines are all terminated answers    *)
(* the lines asked for, and fails when there is none: the end of its loop  *)
(* does not overflow while twice the numbers asked for fit in a size_t.    *)
(***************************************************************************)
LEMMA LinesRead ==
  ASSUME MaxLine \in Nat, SizeMax \in Nat, 2 * MaxLine <= SizeMax,
         NEW S, NEW t \in Seq(S), t = <<>> \/ t[Len(t)] = LineBreak,
         NEW o \in {-1} \union 0 .. MaxLine, NEW l \in 1 .. MaxLine
  PROVE  LET lines == Edits!AllLines(t)
             first == Edits!Offset(o)
             last == Edits!Min({Len(lines), first + l})
         IN  Edits!ReadLines(t, o, l) =
               IF first >= Len(lines) THEN Edits!Failed
               ELSE Edits!FlattenSeq(SubSeq(lines, first + 1, last))
<1>. DEFINE n == Cardinality(Edits!Breaks(t))
            start(k) == Edits!LineStart(t, k)
            st == [k \in 0 .. n |-> start(k)]
            whole == [i \in 1 .. n |-> Edits!LinesUpTo(t, i - 1, i)]
            first == Edits!Offset(o)
            end == first + l
            rest == SubSeq(t, start(n), Len(t))
<1>1. /\ n \in Nat
      /\ \A k \in 0 .. n : start(k) \in 1 .. Len(t) + 1
      /\ \A k \in 0 .. n - 1 : start(k) <= start(k + 1)
      /\ start(n) = Len(t) + 1
  BY LineStarts
<1>2. Edits!Cardinality(Edits!Breaks(t)) = n
  BY EditsOperators
<1>3. rest = <<>>
  <2>1. Len(t) \in Int /\ start(n) \in Int /\ Len(t) < start(n)
    BY <1>1
  <2>. HIDE DEF start, n
  <2>. QED
    BY <2>1, SubSeqEmpty
<1>4. Edits!AllLines(t) = whole
  BY <1>2, <1>3 DEF Edits!AllLines
<1>5. first \in 0 .. MaxLine /\ end \in Nat /\ first < end /\ end <= SizeMax
  BY DEF Edits!Offset
<1>6. Edits!LoopEnd(o, l) = end
  <2>1. Edits!Limit(l) = l
    BY DEF Edits!Limit
  <2>2. end % (SizeMax + 1) = end
    <3>. HIDE DEF end
    <3>. QED
      BY <1>5
  <2>. QED
    BY <2>1, <2>2 DEF Edits!LoopEnd
<1>7. Len(whole) = n
  <2>. HIDE DEF n
  <2>. QED
    BY <1>1
<1>. DEFINE last == Edits!Min({n, end})
<1>8. last = (IF n <= end THEN n ELSE end)
  <2>1. {n, end} \in SUBSET Nat /\ {n, end} # {}
    BY <1>1, <1>5
  <2>2. last \in {n, end} /\ last <= n /\ last <= end
    <3>. HIDE DEF n, end
    <3>. QED
      BY <2>1, EditsMin
  <2>. HIDE DEF n, end, last
  <2>. QED
    BY <1>1, <1>5, <2>2
<1>. DEFINE lines == IF first >= last THEN <<>> ELSE Edits!LinesUpTo(t, first, last)
<1>9. Edits!ReadLines(t, o, l) =
        IF last <= first THEN Edits!Failed ELSE IF n < end THEN lines \o rest ELSE lines
  <2>1. ~ (o < 0 /\ l <= 0)
    OBVIOUS
  <2>. QED
    BY <1>2, <1>6, <2>1 DEF Edits!ReadLines
<1>10. CASE first >= n
  <2>1. last <= first
    <3>. HIDE DEF n, first, end, last
    <3>. QED
      BY <1>1, <1>5, <1>8, <1>10
  <2>. QED
    BY <1>4, <1>7, <1>9, <1>10, <2>1
<1>11. CASE ~ (first >= n)
  <2>1. /\ ~ (last <= first) /\ ~ (first >= last) /\ first \in 0 .. n /\ last \in first .. n
        /\ last \in 0 .. n
    <3>. HIDE DEF n, first, end, last
    <3>. QED
      BY <1>1, <1>5, <1>8, <1>11
  <2>2. lines = SubSeq(t, start(first), start(last) - 1)
    <3>. HIDE DEF n, first, end, last
    <3>. QED
      BY <2>1 DEF Edits!LinesUpTo
  <2>3. SubSeq(t, start(first), start(last) - 1) \o <<>> = SubSeq(t, start(first), start(last) - 1)
    <3>1. Len(t) \in Nat /\ start(first) \in 1 .. Len(t) + 1 /\ start(last) \in 1 .. Len(t) + 1
      <4>. HIDE DEF n, first, last, start
      <4>. QED
        BY <1>1, <2>1
    <3>2. /\ start(first) \in Int /\ start(last) - 1 \in Int
          /\ \A j \in start(first) .. start(last) - 1 : t[j] \in S
      <4>. HIDE DEF first, last, start
      <4>1. \A j \in start(first) .. start(last) - 1 : j \in 1 .. Len(t)
        BY <3>1
      <4>. QED
        BY <3>1, <4>1
    <3>. HIDE DEF first, last, start
    <3>3. SubSeq(t, start(first), start(last) - 1) \in Seq(S)
      BY <3>2, SubSeqProperties
    <3>. QED
      BY <3>3, ConcatEmptySeq
  <2>4. FlattenSeq(SubSeq(whole, first + 1, last)) = SubSeq(t, st[first], st[last] - 1)
    <3>1. whole = [i \in 1 .. n |-> SubSeq(t, st[i - 1], st[i] - 1)]
      <4>1. \A i \in 1 .. n : i - 1 \in 0 .. n /\ i \in 0 .. n
        BY <1>1
      <4>2. \A i \in 1 .. n : Edits!LinesUpTo(t, i - 1, i) = SubSeq(t, st[i - 1], st[i] - 1)
        <5>. HIDE DEF n
        <5>. QED
          BY <4>1 DEF Edits!LinesUpTo
      <4>. HIDE DEF n, st
      <4>. QED
        BY <4>2
    <3>2. /\ \A k \in 0 .. n : st[k] \in 1 .. Len(t) + 1
          /\ \A k \in 0 .. n - 1 : st[k] <= st[k + 1]
      <4>1. \A k \in 0 .. n - 1 : k \in 0 .. n /\ k + 1 \in 0 .. n
        BY <1>1
      <4>. HIDE DEF n, start
      <4>. QED
        BY <1>1, <4>1
    <3>3. n \in Nat
      BY <1>1
    <3>4. first \in 0 .. n
      BY <2>1
    <3>5. last \in first .. n
      BY <2>1
    <3>6. Placed(t, st, n) /\ whole = Pieces(t, st, n)
      <4>. HIDE DEF n, st, whole
      <4>. QED
        BY <3>1, <3>2 DEF Placed, Pieces
    <3>. HIDE DEF n, st, whole, first, last
    <3>. QED
      BY <3>3, <3>4, <3>5, <3>6, JoinedPieces
  <2>5. st[first] = start(first) /\ st[last] = start(last)
    <3>. HIDE DEF n, first, last, start
    <3>. QED
      BY <2>1
  <2>6. Edits!ReadLines(t, o, l) = SubSeq(t, start(first), start(last) - 1)
    <3>. HIDE DEF n, first, last, start, end, rest, lines
    <3>. QED
      BY <1>3, <1>9, <2>1, <2>2, <2>3
  <2>7. Edits!FlattenSeq(SubSeq(whole, first + 1, last)) = SubSeq(t, start(first), start(last) - 1)
    <3>. HIDE DEF n, first, last, start, st, whole
    <3>. QED
      BY <2>4, <2>5, EditsOperators
  <2>. HIDE DEF whole, n, start
  <2>. QED
    BY <1>4, <1>7, <1>11, <2>6, <2>7
<1>. QED
  BY <1>10, <1>11

-----------------------------------------------------------------------------
(* Edits of a file.                                                        *)

\* The first k of the sequences, joined.
JoinedTo(seqs, k) == FlattenSeq(SubSeq(seqs, 1, k))

(***************************************************************************)
(* What the first sequences make, one sequence more at a time.             *)
(***************************************************************************)
LEMMA JoinedSteps ==
  ASSUME NEW S, NEW seqs \in Seq(Seq(S))
  PROVE  /\ JoinedTo(seqs, 0) = <<>>
         /\ \A k \in 0 .. Len(seqs) : JoinedTo(seqs, k) \in Seq(S)
         /\ \A k \in 1 .. Len(seqs) : JoinedTo(seqs, k) = JoinedTo(seqs, k - 1) \o seqs[k]
         /\ JoinedTo(seqs, Len(seqs)) = FlattenSeq(seqs)
<1>1. JoinedTo(seqs, 0) = <<>>
  <2>1. SubSeq(seqs, 1, 0) = <<>>
    BY SubSeqEmpty
  <2>. QED
    BY <2>1, FlattenEmpty DEF JoinedTo
<1>2. ASSUME NEW k \in 0 .. Len(seqs)
      PROVE  SubSeq(seqs, 1, k) \in Seq(Seq(S)) /\ JoinedTo(seqs, k) \in Seq(S)
  <2>1. 1 \in Int /\ k \in Int /\ \A i \in 1 .. k : seqs[i] \in Seq(S)
    OBVIOUS
  <2>2. SubSeq(seqs, 1, k) \in Seq(Seq(S))
    BY <2>1, SubSeqProperties
  <2>. QED
    BY <2>2, FlattenType DEF JoinedTo
<1>3. ASSUME NEW k \in 1 .. Len(seqs) PROVE JoinedTo(seqs, k) = JoinedTo(seqs, k - 1) \o seqs[k]
  <2>1. /\ k - 1 \in 0 .. Len(seqs) /\ seqs[k] \in Seq(S)
        /\ 1 \in 1 .. Len(seqs) /\ k \in 1 .. Len(seqs)
    OBVIOUS
  <2>2. SubSeq(seqs, 1, k) = SubSeq(seqs, 1, k - 1) \o <<seqs[k]>>
    BY <2>1, SubSeqRecursiveSecond
  <2>3. SubSeq(seqs, 1, k - 1) \in Seq(Seq(S))
    BY <1>2, <2>1
  <2>4. SubSeq(seqs, 1, k) = Append(SubSeq(seqs, 1, k - 1), seqs[k])
    BY <2>1, <2>2, <2>3, AppendIsConcat
  <2>. QED
    BY <2>1, <2>3, <2>4, FlattenAppend DEF JoinedTo
<1>4. JoinedTo(seqs, Len(seqs)) = FlattenSeq(seqs)
  BY SubSeqFull DEF JoinedTo
<1>. QED
  BY <1>1, <1>2, <1>3, <1>4

\* The same first sequences make the same.
LEMMA JoinedSame ==
  ASSUME NEW S, NEW s \in Seq(Seq(S)), NEW t \in Seq(Seq(S)), Len(s) = Len(t),
         NEW n \in 0 .. Len(s), \A i \in 1 .. n : s[i] = t[i]
  PROVE  JoinedTo(s, n) = JoinedTo(t, n)
<1>. DEFINE Good == {k \in Nat : k <= n => JoinedTo(s, k) = JoinedTo(t, k)}
<1>1. 0 \in Good
  BY JoinedSteps
<1>2. ASSUME NEW k \in Good PROVE k + 1 \in Good
  <2>. DEFINE next == k + 1
  <2>1. SUFFICES ASSUME next <= n PROVE JoinedTo(s, next) = JoinedTo(t, next)
    OBVIOUS
  <2>2. next \in 1 .. Len(s) /\ next \in 1 .. Len(t) /\ next - 1 = k /\ next \in 1 .. n /\ k <= n
    BY <2>1
  <2>3. JoinedTo(s, k) = JoinedTo(t, k)
    BY <2>2
  <2>. HIDE DEF next
  <2>. QED
    BY <2>2, <2>3, JoinedSteps
<1>3. Good = Nat
  <2>1. Good \in SUBSET Nat
    OBVIOUS
  <2>. HIDE DEF Good
  <2>. QED
    BY <1>1, <1>2, <2>1, AllNumbers
<1>. QED
  BY <1>3

\* From a on up to b the sequences are of one element each, those of t.
SinglesIn(seqs, t, a, b) == \A i \in a + 1 .. b : seqs[i] = <<t[i]>>

\* Sequences of one element each make a piece of the sequence these elements are from.
LEMMA JoinedSingles ==
  ASSUME NEW S, NEW seqs \in Seq(Seq(S)), NEW t \in Seq(S), Len(seqs) = Len(t),
         NEW a \in 0 .. Len(t), NEW b \in a .. Len(t),
         SinglesIn(seqs, t, a, b)
  PROVE  JoinedTo(seqs, b) = JoinedTo(seqs, a) \o SubSeq(t, a + 1, b)
<1>. DEFINE Fits(k) == JoinedTo(seqs, k) = JoinedTo(seqs, a) \o SubSeq(t, a + 1, k)
            Good == {d \in Nat : a + d <= b => Fits(a + d)}
<1>0. JoinsAnyhow(S)
  BY Associative
<1>1. JoinedTo(seqs, a) \in Seq(S)
  BY JoinedSteps
<1>2. 0 \in Good
  <2>1. SubSeq(t, a + 1, a) = <<>> /\ a + 0 = a
    BY SubSeqEmpty
  <2>2. Fits(a)
    BY <1>1, <2>1, ConcatEmptySeq
  <2>. HIDE DEF Fits
  <2>. QED
    BY <2>1, <2>2
<1>3. ASSUME NEW d \in Good PROVE d + 1 \in Good
  <2>. DEFINE k == a + d
              next == k + 1
  <2>1. SUFFICES ASSUME next <= b PROVE Fits(next)
    <3>1. a + (d + 1) = next /\ d + 1 \in Nat
      OBVIOUS
    <3>. HIDE DEF Fits, next
    <3>. QED
      BY <3>1
  <2>2. /\ next \in 1 .. Len(seqs) /\ next - 1 = k /\ next \in a + 1 .. b /\ k <= b
        /\ a + 1 \in 1 .. Len(t) /\ next \in a + 1 .. Len(t) /\ k \in Int /\ k <= Len(t)
    BY <2>1
  <2>3. Fits(k)
    <3>. HIDE DEF Fits
    <3>. QED
      BY <2>2
  <2>. HIDE DEF next, k
  <2>4. JoinedTo(seqs, next) = JoinedTo(seqs, k) \o <<t[next]>>
    BY <2>2, JoinedSteps DEF SinglesIn
  <2>5. SubSeq(t, a + 1, next) = SubSeq(t, a + 1, k) \o <<t[next]>>
    <3>. DEFINE m == a + 1
    <3>1. m \in 1 .. Len(t) /\ next \in m .. Len(t)
      BY <2>2
    <3>. HIDE DEF m
    <3>2. SubSeq(t, m, next) = SubSeq(t, m, next - 1) \o <<t[next]>>
      BY <3>1, SubSeqRecursiveSecond
    <3>. QED
      BY <2>2, <3>2 DEF m
  <2>6. SubSeq(t, a + 1, k) \in Seq(S) /\ <<t[next]>> \in Seq(S)
    <3>1. \A i \in a + 1 .. k : i \in 1 .. Len(t)
      BY <2>2
    <3>2. a + 1 \in Int /\ k \in Int /\ \A i \in a + 1 .. k : t[i] \in S
      BY <2>2, <3>1
    <3>3. SubSeq(t, a + 1, k) \in Seq(S)
      BY <3>2, SubSeqProperties
    <3>4. next \in 1 .. Len(t)
      BY <2>2
    <3>. QED
      BY <3>3, <3>4
  <2>. DEFINE piece == SubSeq(t, a + 1, k)
              last == <<t[next]>>
              before == JoinedTo(seqs, a)
  <2>7. before \in Seq(S) /\ piece \in Seq(S) /\ last \in Seq(S)
    BY <1>1, <2>6
  <2>8. /\ JoinedTo(seqs, k) = before \o piece
        /\ JoinedTo(seqs, next) = JoinedTo(seqs, k) \o last
        /\ SubSeq(t, a + 1, next) = piece \o last
    BY <2>3, <2>4, <2>5
  <2>. HIDE DEF piece, last, before
  <2>9. (before \o piece) \o last = before \o (piece \o last)
    <3>1. before \in Seq(S)
      BY <2>7
    <3>2. piece \in Seq(S)
      BY <2>7
    <3>3. last \in Seq(S)
      BY <2>7
    <3>. HIDE DEF Fits, Good
    <3>. QED
      BY ONLY <3>1, <3>2, <3>3, <1>0 DEF JoinsAnyhow
  <2>10. JoinedTo(seqs, next) = before \o SubSeq(t, a + 1, next)
    BY <2>8, <2>9
  <2>. QED
    BY <2>10 DEF before
<1>4. Good = Nat
  <2>1. Good \in SUBSET Nat
    OBVIOUS
  <2>. HIDE DEF Good
  <2>. QED
    BY <1>2, <1>3, <2>1, AllNumbers
<1>5. b - a \in Nat /\ a + (b - a) = b /\ b <= b
  OBVIOUS
<1>6. Fits(b)
  <2>1. b - a \in Good
    <3>. HIDE DEF Good
    <3>. QED
      BY <1>4, <1>5
  <2>. HIDE DEF Fits
  <2>. QED
    BY <1>5, <2>1
<1>. QED
  BY <1>6

\* Empty sequences make nothing.
LEMMA JoinedNothing ==
  ASSUME NEW S, NEW seqs \in Seq(Seq(S)), NEW a \in 0 .. Len(seqs), NEW b \in a .. Len(seqs),
         \A i \in a + 1 .. b : seqs[i] = <<>>
  PROVE  JoinedTo(seqs, b) = JoinedTo(seqs, a)
<1>. DEFINE Good == {d \in Nat : a + d <= b => JoinedTo(seqs, a + d) = JoinedTo(seqs, a)}
<1>1. 0 \in Good
  OBVIOUS
<1>2. ASSUME NEW d \in Good PROVE d + 1 \in Good
  <2>. DEFINE k == a + d
              next == k + 1
  <2>1. SUFFICES ASSUME next <= b PROVE JoinedTo(seqs, next) = JoinedTo(seqs, a)
    <3>1. a + (d + 1) = next /\ d + 1 \in Nat
      OBVIOUS
    <3>. HIDE DEF next
    <3>. QED
      BY <3>1
  <2>2. next \in 1 .. Len(seqs) /\ next - 1 = k /\ next \in a + 1 .. b /\ k <= b /\ k \in 0 .. Len(seqs)
    BY <2>1
  <2>3. JoinedTo(seqs, k) = JoinedTo(seqs, a)
    BY <2>2
  <2>. HIDE DEF next, k
  <2>4. JoinedTo(seqs, next) = JoinedTo(seqs, k) \o <<>> /\ JoinedTo(seqs, k) \in Seq(S)
    BY <2>2, JoinedSteps
  <2>. QED
    BY <2>3, <2>4, ConcatEmptySeq
<1>3. Good = Nat
  <2>1. Good \in SUBSET Nat
    OBVIOUS
  <2>. HIDE DEF Good
  <2>. QED
    BY <1>1, <1>2, <2>1, AllNumbers
<1>4. b - a \in Nat /\ a + (b - a) = b /\ b <= b
  OBVIOUS
<1>5. b - a \in Good
  <2>. HIDE DEF Good
  <2>. QED
    BY <1>3, <1>4
<1>. QED
  BY <1>4, <1>5

(***************************************************************************)
(* In a text of which the front was replaced, the old text occurs behind   *)
(* the front where it occurs in the rest of the original.                  *)
(***************************************************************************)
LEMMA OccursBehind ==
  ASSUME NEW S, NEW front \in Seq(S), NEW t \in Seq(S), NEW p \in 1 .. Len(t) + 1,
         NEW o \in Seq(S), Len(o) > 0, NEW i \in Int
  PROVE  i \in Edits!Occurs(front \o SubSeq(t, p, Len(t)), o, Len(front) + 1)
           <=> i - Len(front) + p - 1 \in Edits!Occurs(t, o, p)
<1>. DEFINE tail == SubSeq(t, p, Len(t))
            x == front \o tail
            n == Len(o)
            f == Len(front)
            j == i - f + p - 1
<1>1. Len(t) \in Nat /\ n \in Nat /\ n > 0 /\ f \in Nat /\ p \in Int
  OBVIOUS
<1>2. tail \in Seq(S) /\ Len(tail) = Len(t) - p + 1
  <2>1. p \in Int /\ Len(t) \in Int /\ \A k \in p .. Len(t) : t[k] \in S
    OBVIOUS
  <2>2. tail \in Seq(S) /\ Len(tail) = IF p <= Len(t) THEN Len(t) - p + 1 ELSE 0
    BY <2>1, SubSeqProperties
  <2>. HIDE DEF tail
  <2>. QED
    BY <2>1, <2>2
<1>3. x \in Seq(S) /\ Len(x) = f + Len(t) - p + 1
  <2>. HIDE DEF tail
  <2>1. x \in Seq(S) /\ Len(x) = Len(front) + Len(tail)
    BY <1>2, ConcatProperties
  <2>. HIDE DEF x
  <2>. QED
    BY <1>1, <1>2, <2>1
<1>4. i \in f + 1 .. Len(x) - n + 1 <=> j \in p .. Len(t) - n + 1
  <2>. HIDE DEF x, n, f
  <2>. QED
    BY <1>1, <1>3
<1>5. ASSUME i \in f + 1 .. Len(x) - n + 1
      PROVE  SubSeq(x, i, i + n - 1) = SubSeq(t, j, j + n - 1)
  <2>. DEFINE e == i + n - 1
              h == i - f
              k == e - f
  <2>1. /\ i \in f + 1 .. f + Len(tail) /\ e \in f + 1 .. f + Len(tail)
        /\ h \in 1 .. Len(t) - p + 1 /\ k \in 1 .. Len(t) - p + 1
        /\ p \in 1 .. Len(t) /\ Len(t) \in 1 .. Len(t)
        /\ p + h - 1 = j /\ p + k - 1 = j + n - 1
    <3>. HIDE DEF x, n, f, tail
    <3>. QED
      BY <1>1, <1>2, <1>3, <1>5
  <2>2. SubSeq(x, i, e) = SubSeq(tail, h, k)
    <3>. HIDE DEF tail, e
    <3>. QED
      BY <1>2, <2>1, SubSeqOfConcat2
  <2>3. SubSeq(tail, h, k) = SubSeq(t, p + h - 1, p + k - 1)
    <3>. HIDE DEF e, h, k
    <3>. QED
      BY <2>1, SubSeqOfSubSeq
  <2>. QED
    BY <2>1, <2>2, <2>3
<1>. HIDE DEF x, n, f, j
<1>6. i \in Edits!Occurs(x, o, f + 1) <=> i \in f + 1 .. Len(x) - n + 1 /\ SubSeq(x, i, i + n - 1) = o
  BY DEF Edits!Occurs, n
<1>7. j \in Edits!Occurs(t, o, p) <=> j \in p .. Len(t) - n + 1 /\ SubSeq(t, j, j + n - 1) = o
  BY DEF Edits!Occurs, n
<1>. QED
  BY <1>4, <1>5, <1>6, <1>7 DEF x, f, j

\* Where the old text occurs.
Starts(t, o) == Edits!Occurs(t, o, 1)

\* What an edit makes of each character: the new text at a place of H, nothing behind it while
\* the old one lasts.
Kept(t, o, w, H) ==
  [i \in DOMAIN t |-> IF i \in H THEN w
                      ELSE IF \E j \in H : j < i /\ i < j + Len(o) THEN <<>> ELSE <<t[i]>>]

\* H are the occurrences before p, taken from the left, that do not overlap.
LeftmostTo(t, o, H, p) ==
  /\ H \subseteq Starts(t, o)
  /\ \A i \in H : i + Len(o) <= p
  /\ \A i \in Starts(t, o) : i < p => (i \in H <=> \A j \in H : j < i => j + Len(o) <= i)

(***************************************************************************)
(* The loop of an edit has replaced the occurrences H before p, and its    *)
(* text is what they leave, and the rest; it is over when no occurrence is *)
(* left, or the one it looks for was found.                                *)
(***************************************************************************)
ReplacedTo(t, o, w, multi, acc, H, p) ==
  /\ p \in 1 .. Len(t) + 1 /\ LeftmostTo(t, o, H, p)
  /\ acc.pos = Len(JoinedTo(Kept(t, o, w, H), p - 1)) + 1
  /\ acc.text = JoinedTo(Kept(t, o, w, H), p - 1) \o SubSeq(t, p, Len(t))
  /\ acc.hits \in Nat
  /\ acc.hits = 0 => H = {} /\ p = 1
  /\ (~multi /\ acc.hits # 0) => acc.hits = 1 /\ H = {Edits!Min(Starts(t, o))}

Over(o, multi, acc) == Edits!Occurs(acc.text, o, acc.pos) = {} \/ (~multi /\ acc.hits = 1)

\* A text with its occurrences replaced is a sequence of pieces, one for each letter.
LEMMA KeptType ==
  ASSUME NEW S, NEW t \in Seq(S), NEW o \in Seq(S), NEW w \in Seq(S), NEW H
  PROVE  Kept(t, o, w, H) \in Seq(Seq(S)) /\ Len(Kept(t, o, w, H)) = Len(t)
<1>. DEFINE k == Kept(t, o, w, H)
<1>1. Len(t) \in Nat /\ DOMAIN t = 1 .. Len(t)
  OBVIOUS
<1>2. /\ k = [i \in 1 .. Len(t) |-> k[i]]
      /\ \A i \in 1 .. Len(t) : k[i] = IF i \in H THEN w
                       ELSE IF \E j \in H : j < i /\ i < j + Len(o) THEN <<>> ELSE <<t[i]>>
  BY <1>1 DEF Kept
<1>3. \A i \in 1 .. Len(t) : <<t[i]>> \in Seq(S) /\ <<>> \in Seq(S)
  OBVIOUS
<1>4. \A i \in 1 .. Len(t) : k[i] \in Seq(S)
  <2>. HIDE DEF k
  <2>. QED
    BY <1>2, <1>3
<1>. HIDE DEF k
<1>5. k \in Seq(Seq(S)) /\ Len(k) = Len(t)
  BY <1>1, <1>2, <1>4, IsASeq
<1>. QED
  BY <1>5 DEF k

\* The front, and the back, of two sequences that are joined.
LEMMA ConcatFront ==
  ASSUME NEW S, NEW a \in Seq(S), NEW b \in Seq(S)
  PROVE  SubSeq(a \o b, 1, Len(a)) = a
<1>1. CASE a = <<>>
  <2>1. Len(a) = 0 /\ SubSeq(a \o b, 1, 0) = <<>>
    BY <1>1, SubSeqEmpty
  <2>. QED
    BY <1>1, <2>1
<1>2. CASE a # <<>>
  <2>1. 1 \in 1 .. Len(a) /\ Len(a) \in 1 .. Len(a)
    BY <1>2
  <2>2. SubSeq(a \o b, 1, Len(a)) = SubSeq(a, 1, Len(a))
    BY <2>1, SubSeqOfConcat1
  <2>. QED
    BY <2>2, SubSeqFull
<1>. QED
  BY <1>1, <1>2

\* The end of two texts joined, from a place in the second, is the end of the second.
LEMMA ConcatBack ==
  ASSUME NEW S, NEW a \in Seq(S), NEW b \in Seq(S), NEW m \in Len(a) + 1 .. Len(a) + Len(b) + 1
  PROVE  SubSeq(a \o b, m, Len(a \o b)) = SubSeq(b, m - Len(a), Len(b))
<1>1. Len(a) \in Nat /\ Len(b) \in Nat /\ Len(a \o b) = Len(a) + Len(b)
  BY ConcatProperties
<1>2. CASE m = Len(a) + Len(b) + 1
  <2>1. SubSeq(a \o b, m, Len(a \o b)) = <<>>
    <3>1. m \in Int /\ Len(a \o b) \in Int /\ Len(a \o b) < m
      BY <1>1, <1>2
    <3>. QED
      BY <3>1, SubSeqEmpty
  <2>2. SubSeq(b, m - Len(a), Len(b)) = <<>>
    <3>1. m - Len(a) \in Int /\ Len(b) \in Int /\ Len(b) < m - Len(a)
      BY <1>1, <1>2
    <3>. QED
      BY <3>1, SubSeqEmpty
  <2>. QED
    BY <2>1, <2>2
<1>3. CASE m # Len(a) + Len(b) + 1
  <2>. DEFINE e == Len(a) + Len(b)
  <2>1. m \in Len(a) + 1 .. Len(a) + Len(b) /\ e \in Len(a) + 1 .. Len(a) + Len(b)
        /\ e - Len(a) = Len(b)
    BY <1>1, <1>3
  <2>. HIDE DEF e
  <2>2. SubSeq(a \o b, m, e) = SubSeq(b, m - Len(a), e - Len(a))
    BY <2>1, SubSeqOfConcat2
  <2>. QED
    BY <1>1, <2>1, <2>2 DEF e
<1>. QED
  BY <1>2, <1>3

\* The tail of a tail, and how long it is.
LEMMA TailOfTail ==
  ASSUME NEW S, NEW t \in Seq(S), NEW p \in 1 .. Len(t) + 1, NEW m \in 1 .. Len(t) - p + 2
  PROVE  /\ SubSeq(t, p, Len(t)) \in Seq(S) /\ Len(SubSeq(t, p, Len(t))) = Len(t) - p + 1
         /\ SubSeq(SubSeq(t, p, Len(t)), m, Len(t) - p + 1) = SubSeq(t, p + m - 1, Len(t))
<1>. DEFINE tail == SubSeq(t, p, Len(t))
            e == Len(t) - p + 1
<1>1. Len(t) \in Nat /\ p \in Int /\ m \in Int /\ e \in Nat
  OBVIOUS
<1>2. tail \in Seq(S) /\ Len(tail) = e
  <2>1. \A k \in p .. Len(t) : t[k] \in S
    OBVIOUS
  <2>2. tail \in Seq(S) /\ Len(tail) = IF p <= Len(t) THEN Len(t) - p + 1 ELSE 0
    BY <1>1, <2>1, SubSeqProperties
  <2>. HIDE DEF tail
  <2>. QED
    BY <1>1, <2>2
<1>3. CASE m = e + 1
  <2>1. e < m /\ Len(t) < p + m - 1 /\ p + m - 1 \in Int
    BY <1>1, <1>3
  <2>2. SubSeq(tail, m, e) = <<>>
    <3>. HIDE DEF tail, e
    <3>. QED
      BY <1>1, <2>1, SubSeqEmpty
  <2>3. SubSeq(t, p + m - 1, Len(t)) = <<>>
    BY <1>1, <2>1, SubSeqEmpty
  <2>. QED
    BY <1>2, <2>2, <2>3
<1>4. CASE m # e + 1
  <2>1. /\ p \in 1 .. Len(t) /\ Len(t) \in 1 .. Len(t)
        /\ m \in 1 .. Len(t) - p + 1 /\ e \in 1 .. Len(t) - p + 1 /\ p + e - 1 = Len(t)
    BY <1>1, <1>4
  <2>2. SubSeq(tail, m, e) = SubSeq(t, p + m - 1, p + e - 1)
    <3>. HIDE DEF e
    <3>. QED
      BY <2>1, SubSeqOfSubSeq
  <2>. QED
    BY <1>2, <2>1, <2>2
<1>. QED
  BY <1>2, <1>3, <1>4

(***************************************************************************)
(* One more occurrence, the first behind p, that is replaced.              *)
(***************************************************************************)
LEMMA LeftmostMore ==
  ASSUME NEW S, NEW t \in Seq(S), NEW o \in Seq(S), Len(o) > 0, NEW H, NEW p \in 1 .. Len(t) + 1,
         LeftmostTo(t, o, H, p),
         NEW q \in Starts(t, o), q >= p, \A k \in Starts(t, o) : k >= p => q <= k
  PROVE  /\ q \in 1 .. Len(t) /\ q + Len(o) \in 1 .. Len(t) + 1
         /\ LeftmostTo(t, o, H \union {q}, q + Len(o))
<1>. DEFINE n == Len(o)
            More == H \union {q}
            Apart(G, i) == \A j \in G : j < i => j + n <= i
<1>1. n \in Nat /\ n > 0 /\ Len(t) \in Nat /\ p \in Int
  OBVIOUS
<1>2. \A i \in Starts(t, o) : i \in 1 .. Len(t) - n + 1
  BY DEF Starts, Edits!Occurs
<1>. HIDE DEF n
<1>3. q \in 1 .. Len(t) /\ q + n \in 1 .. Len(t) + 1 /\ q \in Int
  BY <1>1, <1>2
<1>4. /\ H \subseteq Starts(t, o) /\ \A i \in H : i + n <= p /\ i \in Int
      /\ \A i \in Starts(t, o) : i < p => (i \in H <=> Apart(H, i))
  BY <1>2 DEF LeftmostTo, n
<1>5. \A i \in More : i + n <= q + n
  BY <1>1, <1>3, <1>4
<1>6. ASSUME NEW i \in Starts(t, o), i < q + n PROVE i \in More <=> Apart(More, i)
  <2>1. i \in Int
    BY <1>2
  <2>2. CASE i < p
    <3>1. i # q /\ ~ (q < i)
      BY <1>1, <1>3, <2>1, <2>2
    <3>. QED
      BY <1>4, <2>2, <3>1
  <2>3. CASE i >= p
    <3>1. q <= i
      BY <2>3
    <3>2. i = q \/ q < i
      BY <1>3, <2>1, <3>1
    <3>3. Apart(H, i)
      BY <1>1, <1>4, <2>1, <2>3
    <3>4. CASE i = q
      <4>1. ~ (q < i)
        BY <1>3, <3>4
      <4>. QED
        BY <3>3, <3>4, <4>1
    <3>5. CASE q < i
      <4>1. ~ (q + n <= i) /\ i # q
        BY <1>1, <1>3, <1>6, <2>1, <3>5
      <4>2. i \notin H
        BY <1>1, <1>4, <2>1, <2>3
      <4>. QED
        BY <3>5, <4>1, <4>2
    <3>. QED
      BY <3>2, <3>4, <3>5
  <2>. QED
    BY <1>1, <2>1, <2>2, <2>3
<1>7. More \subseteq Starts(t, o)
  BY <1>4
<1>. QED
  BY <1>3, <1>5, <1>6, <1>7 DEF LeftmostTo, n

\* The next occurrence is at q, and ends before e.
Continues(t, o, H, p, q, G, e) ==
  q \in p .. Len(t) /\ e \in Int /\ e = q + Len(o) /\ e <= Len(t) + 1 /\ G = H \union {q}

\* The text so far goes on with what is kept up to q, and the new text.
Grows(t, o, w, H, p, q, G, e) ==
  JoinedTo(Kept(t, o, w, G), e - 1)
    = JoinedTo(Kept(t, o, w, H), p - 1) \o SubSeq(t, p, q - 1) \o w

(***************************************************************************)
(* What the occurrences up to the next one leave: as before up to p, the   *)
(* characters up to the next one, and the new text.                        *)
(***************************************************************************)
LEMMA KeptMore ==
  ASSUME NEW S, NEW t \in Seq(S), NEW o \in Seq(S), NEW w \in Seq(S), Len(o) > 0,
         NEW H, NEW p \in 1 .. Len(t) + 1, LeftmostTo(t, o, H, p),
         NEW q \in Int, NEW e \in Int, NEW G, Continues(t, o, H, p, q, G, e)
  PROVE  Grows(t, o, w, H, p, q, G, e)
<1>. DEFINE n == Len(o)
            a == Kept(t, o, w, H)
            b == Kept(t, o, w, G)
<1>1. n \in Nat /\ n > 0 /\ Len(t) \in Nat /\ p \in Int /\ q \in Int /\ q + n <= Len(t) + 1
      /\ q \in p .. Len(t) /\ e \in Int /\ q + n = e /\ \A j : j \in G <=> j \in H \/ j = q
  BY DEF Continues
<1>2. /\ a \in Seq(Seq(S)) /\ Len(a) = Len(t)
      /\ b \in Seq(Seq(S)) /\ Len(b) = Len(t)
  BY KeptType
<1>3. /\ \A i \in 1 .. Len(t) : a[i] = IF i \in H THEN w
                ELSE IF \E j \in H : j < i /\ i < j + n THEN <<>> ELSE <<t[i]>>
      /\ \A i \in 1 .. Len(t) : b[i] = IF i \in G THEN w
                ELSE IF \E j \in G : j < i /\ i < j + n THEN <<>> ELSE <<t[i]>>
  BY DEF Kept
<1>. HIDE DEF a, b
<1>4. \A j \in H : j \in Int /\ j + n <= p /\ j < p
  <2>1. \A j \in H : j \in Int /\ j + n <= p
    BY DEF LeftmostTo, Starts, Edits!Occurs
  <2>. QED
    BY <1>1, <2>1
<1>. HIDE DEF n
<1>5. \A i \in 1 .. p - 1 : a[i] = b[i]
  <2>. TAKE i \in 1 .. p - 1
  <2>1. i \in 1 .. Len(t) /\ i # q /\ ~ (q < i)
    BY <1>1
  <2>. QED
    BY <1>1, <1>3, <2>1
<1>6. \A i \in p .. q - 1 : b[i] = <<t[i]>>
  <2>. TAKE i \in p .. q - 1
  <2>1. i \in 1 .. Len(t) /\ i # q /\ ~ (q < i) /\ i >= p
    BY <1>1
  <2>2. i \notin H /\ \A j \in H : ~ (i < j + n)
    BY <1>1, <1>4, <2>1
  <2>. QED
    BY <1>1, <1>3, <2>1, <2>2
<1>7. b[q] = w
  <2>1. q \in 1 .. Len(t) /\ q \in G
    BY <1>1
  <2>. QED
    BY <1>3, <2>1
<1>8. \A i \in q + 1 .. q + n - 1 : b[i] = <<>>
  <2>. TAKE i \in q + 1 .. q + n - 1
  <2>1. i \in 1 .. Len(t) /\ i # q /\ q < i /\ i < q + n /\ i >= p
    BY <1>1
  <2>2. i \notin G /\ q \in G
    BY <1>1, <1>4, <2>1
  <2>. QED
    BY <1>3, <2>1, <2>2
<1>9. JoinedTo(b, q + n - 1) = JoinedTo(b, q)
  <2>. DEFINE z == q + n - 1
  <2>1. q \in 0 .. Len(b) /\ z \in q .. Len(b) /\ \A i \in q + 1 .. z : b[i] = <<>>
    BY <1>1, <1>2, <1>8
  <2>. HIDE DEF z
  <2>2. JoinedTo(b, z) = JoinedTo(b, q)
    BY <1>2, <2>1, JoinedNothing
  <2>. QED
    BY <2>2 DEF z
<1>10. JoinedTo(b, q) = JoinedTo(b, q - 1) \o w
  <2>1. q \in 1 .. Len(b)
    BY <1>1, <1>2
  <2>. QED
    BY <1>2, <1>7, <2>1, JoinedSteps
<1>11. JoinedTo(b, q - 1) = JoinedTo(b, p - 1) \o SubSeq(t, p, q - 1)
  <2>. DEFINE c == p - 1
              z == q - 1
  <2>1. c \in 0 .. Len(t) /\ z \in c .. Len(t) /\ c + 1 = p
    BY <1>1
  <2>2. SinglesIn(b, t, c, z)
    BY <1>6, <2>1 DEF SinglesIn
  <2>. HIDE DEF c, z
  <2>3. JoinedTo(b, z) = JoinedTo(b, c) \o SubSeq(t, c + 1, z)
    BY <1>2, <2>1, <2>2, JoinedSingles
  <2>. QED
    BY <2>1, <2>3 DEF c, z
<1>12. JoinedTo(a, p - 1) = JoinedTo(b, p - 1)
  <2>. DEFINE c == p - 1
  <2>1. c \in 0 .. Len(a) /\ Len(a) = Len(b) /\ \A i \in 1 .. c : a[i] = b[i]
    BY <1>1, <1>2, <1>5
  <2>. HIDE DEF c
  <2>2. JoinedTo(a, c) = JoinedTo(b, c)
    BY <1>2, <2>1, JoinedSame
  <2>. QED
    BY <2>2 DEF c
<1>. QED
  <2>1. JoinedTo(b, e - 1) = JoinedTo(a, p - 1) \o SubSeq(t, p, q - 1) \o w
    <3>1. q + n - 1 = e - 1
      BY <1>1
    <3>2. JoinedTo(b, q + n - 1) = JoinedTo(a, p - 1) \o SubSeq(t, p, q - 1) \o w
      BY <1>9, <1>10, <1>11, <1>12
    <3>. QED
      BY <3>1, <3>2
  <2>. QED
    BY <2>1 DEF a, b, Grows

(***************************************************************************)
(* A turn of the loop changes nothing when it is over, and replaces one    *)
(* more occurrence when it is not.                                         *)
(***************************************************************************)
LEMMA ReplaceStep ==
  ASSUME NEW S, NEW t \in Seq(S), NEW o \in Seq(S), NEW w \in Seq(S), Len(o) > 0,
         NEW multi, NEW acc, NEW H, NEW p, ReplacedTo(t, o, w, multi, acc, H, p)
  PROVE  /\ Over(o, multi, acc) => Edits!Replace(o, w, multi, acc) = acc
         /\ ~ Over(o, multi, acc) =>
              \E G : \E q \in Int :
                q > p /\ ReplacedTo(t, o, w, multi, Edits!Replace(o, w, multi, acc), G, q)
<1>. DEFINE n == Len(o)
            front == JoinedTo(Kept(t, o, w, H), p - 1)
            f == Len(front)
            at == Edits!Occurs(acc.text, o, acc.pos)
            next == Edits!Replace(o, w, multi, acc)
<1>1. /\ p \in 1 .. Len(t) + 1 /\ LeftmostTo(t, o, H, p)
      /\ acc.pos = f + 1 /\ acc.text = front \o SubSeq(t, p, Len(t))
      /\ acc.hits \in Nat
      /\ acc.hits = 0 => H = {} /\ p = 1
      /\ (~multi /\ acc.hits # 0) => acc.hits = 1 /\ H = {Edits!Min(Starts(t, o))}
  BY DEF ReplacedTo
<1>0. JoinsAnyhow(S)
  BY Associative
<1>2. Over(o, multi, acc) => next = acc
  BY DEF Over, Edits!Replace
<1>3. ASSUME ~ Over(o, multi, acc)
      PROVE  \E G : \E q \in Int : q > p /\ ReplacedTo(t, o, w, multi, next, G, q)
  <2>1. at # {} /\ ~ (~multi /\ acc.hits = 1)
    BY <1>3 DEF Over
  <2>2. /\ Len(t) \in Nat /\ n \in Nat /\ n > 0 /\ p \in Int
        /\ Kept(t, o, w, H) \in Seq(Seq(S)) /\ Len(Kept(t, o, w, H)) = Len(t)
    BY <1>1, KeptType
  <2>3. front \in Seq(S) /\ f \in Nat
    <3>1. p - 1 \in 0 .. Len(Kept(t, o, w, H))
      BY <1>1, <2>2
    <3>2. front \in Seq(S)
      BY <2>2, <3>1, JoinedSteps
    <3>. HIDE DEF front
    <3>. QED
      BY <3>2
  <2>. HIDE DEF front
  <2>4. \A i \in Int : i \in at <=> i - f + p - 1 \in Edits!Occurs(t, o, p)
    BY <1>1, <2>3, OccursBehind
  <2>5. /\ at \in SUBSET Nat
        /\ \A k : k \in Edits!Occurs(t, o, p) <=> k \in Starts(t, o) /\ k >= p
        /\ \A k \in Starts(t, o) : k \in 1 .. Len(t) - n + 1
    <3>1. Len(acc.text) \in Int \/ TRUE
      OBVIOUS
    <3>2. at \subseteq f + 1 .. Len(acc.text) - n + 1
      BY <1>1 DEF Edits!Occurs
    <3>3. \A i \in f + 1 .. Len(acc.text) - n + 1 : i \in Nat
      BY <2>3
    <3>4. \A k : k \in Edits!Occurs(t, o, p) <=> k \in Starts(t, o) /\ k >= p
      <4>1. \A k : k \in p .. Len(t) - n + 1 <=> k \in 1 .. Len(t) - n + 1 /\ k >= p
        BY <1>1, <2>2
      <4>. QED
        BY <4>1 DEF Edits!Occurs, Starts
    <3>5. \A k \in Starts(t, o) : k \in 1 .. Len(t) - n + 1
      BY DEF Edits!Occurs, Starts
    <3>. HIDE DEF at
    <3>. QED
      BY <3>2, <3>3, <3>4, <3>5
  <2>. DEFINE pos == Edits!Min(at)
              q == pos - f + p - 1
  <2>6. pos \in at /\ \A k \in at : pos <= k
    <3>. HIDE DEF at
    <3>. QED
      BY <2>1, <2>5, EditsMin
  <2>7. pos \in Int /\ q \in Int /\ q \in Starts(t, o) /\ q >= p
    <3>1. pos \in Int
      <4>. HIDE DEF at, pos
      <4>. QED
        BY <2>5, <2>6
    <3>. HIDE DEF pos, at
    <3>. QED
      BY <2>2, <2>3, <2>4, <2>5, <2>6, <3>1
  <2>8. \A k \in Starts(t, o) : k >= p => q <= k
    <3>. SUFFICES ASSUME NEW k \in Starts(t, o), k >= p PROVE q <= k
      OBVIOUS
    <3>1. k \in Int
      BY <2>5
    <3>. DEFINE i == k + f - p + 1
    <3>2. i \in Int /\ i - f + p - 1 = k
      BY <2>2, <2>3, <3>1
    <3>. HIDE DEF i, at, pos
    <3>3. i \in at
      BY <2>4, <2>5, <3>2
    <3>4. pos <= i
      BY <2>6, <3>3
    <3>. QED
      BY <2>2, <2>3, <2>7, <3>1, <3>2, <3>4
  <2>. DEFINE G == H \union {q}
              e == q + n
  <2>9. q \in 1 .. Len(t) /\ e \in 1 .. Len(t) + 1 /\ LeftmostTo(t, o, G, e)
    <3>1. p \in 1 .. Len(t) + 1
      BY <1>1
    <3>. HIDE DEF q
    <3>. QED
      BY <1>1, <2>7, <2>8, <3>1, LeftmostMore
  <2>. DEFINE mid == SubSeq(t, p, q - 1)
              tail == SubSeq(t, q, Len(t))
              front2 == JoinedTo(Kept(t, o, w, G), e - 1)
  <2>10. front2 = front \o mid \o w
    <3>2. p \in 1 .. Len(t) + 1 /\ q \in p .. Len(t) /\ q + Len(o) <= Len(t) + 1
      <4>. HIDE DEF q
      <4>. QED
        BY <1>1, <2>2, <2>7, <2>9
    <3>3. q \in p .. Len(t)
      BY <3>2
    <3>4. e = q + Len(o)
      OBVIOUS
    <3>10. e <= Len(t) + 1
      BY <3>2, <3>4
    <3>11. e \in Int
      BY <2>9
    <3>5. G = H \union {q}
      OBVIOUS
    <3>6. p \in 1 .. Len(t) + 1
      BY <3>2
    <3>7. LeftmostTo(t, o, H, p)
      BY <1>1
    <3>8. front = JoinedTo(Kept(t, o, w, H), p - 1) /\ mid = SubSeq(t, p, q - 1)
      BY DEF front
    <3>12. Continues(t, o, H, p, q, G, e)
      BY <3>3, <3>4, <3>5, <3>10, <3>11 DEF Continues
    <3>. HIDE DEF q, e, G, mid
    <3>9. Grows(t, o, w, H, p, q, G, e)
      BY <2>2, <2>7, <3>6, <3>7, <3>11, <3>12, KeptMore
    <3>. QED
      BY <3>8, <3>9 DEF Grows
  <2>. HIDE DEF q
  <2>11. /\ SubSeq(t, p, Len(t)) = mid \o tail
         /\ mid \in Seq(S) /\ Len(mid) = q - p
         /\ tail \in Seq(S) /\ Len(tail) = Len(t) - q + 1
         /\ SubSeq(tail, n + 1, Len(tail)) = SubSeq(t, e, Len(t))
    <3>. DEFINE k == q - 1
    <3>1. /\ p \in 1 .. Len(t) + 1 /\ k \in p - 1 .. Len(t) /\ Len(t) \in k .. Len(t)
          /\ q \in 1 .. Len(t) + 1 /\ n + 1 \in 1 .. Len(t) - q + 2 /\ k \in Int
      BY <1>1, <2>2, <2>7, <2>9
    <3>2. \A i \in p .. k : t[i] \in S
      BY <3>1
    <3>3. k + 1 = q /\ q + (n + 1) - 1 = e /\ (IF p <= k THEN k - p + 1 ELSE 0) = q - p
      BY <2>2, <2>7
    <3>. HIDE DEF k, n
    <3>4. SubSeq(t, p, k) \in Seq(S) /\ Len(SubSeq(t, p, k)) = IF p <= k THEN k - p + 1 ELSE 0
      BY <2>2, <3>1, <3>2, SubSeqProperties
    <3>5. SubSeq(t, p, k) \o SubSeq(t, k + 1, Len(t)) = SubSeq(t, p, Len(t))
      BY <3>1, ConcatAdjacentSubSeq
    <3>6. /\ tail \in Seq(S) /\ Len(tail) = Len(t) - q + 1
          /\ SubSeq(tail, n + 1, Len(t) - q + 1) = SubSeq(t, q + (n + 1) - 1, Len(t))
      <4>. DEFINE m == n + 1
      <4>1. m \in 1 .. Len(t) - q + 2
        BY <3>1
      <4>. HIDE DEF m
      <4>2. SubSeq(tail, m, Len(t) - q + 1) = SubSeq(t, q + m - 1, Len(t))
            /\ tail \in Seq(S) /\ Len(tail) = Len(t) - q + 1
        BY <3>1, <4>1, TailOfTail
      <4>. QED
        BY <4>2 DEF m
    <3>. QED
      BY <3>3, <3>4, <3>5, <3>6 DEF k
  <2>. HIDE DEF mid, tail
  <2>. DEFINE new == front \o mid
  <2>12. /\ new \in Seq(S) /\ Len(new) = pos - 1 /\ acc.text = new \o tail
         /\ new \o w \in Seq(S) /\ Len(new \o w) = pos - 1 + Len(w)
         /\ Len(acc.text) = Len(new) + Len(tail)
    <3>2. acc.text = new \o tail
      <4>1. acc.text = front \o (mid \o tail)
        BY <1>1, <2>11
      <4>2. (front \o mid) \o tail = front \o (mid \o tail)
        BY <1>0, <2>3, <2>11 DEF JoinsAnyhow
      <4>. QED
        BY <4>1, <4>2
    <3>3. new \in Seq(S) /\ Len(new) = f + (q - p)
      BY <2>3, <2>11, ConcatProperties
    <3>4. f + (q - p) = pos - 1
      <4>. HIDE DEF pos
      <4>. QED
        BY <2>2, <2>3, <2>7 DEF q
    <3>. HIDE DEF new
    <3>5. new \o w \in Seq(S) /\ Len(new \o w) = Len(new) + Len(w)
      BY <3>3, ConcatProperties
    <3>6. Len(new \o tail) = Len(new) + Len(tail)
      BY <2>11, <3>3, ConcatProperties
    <3>. HIDE DEF pos
    <3>. QED
      BY <3>2, <3>3, <3>4, <3>5, <3>6
  <2>13. /\ SubSeq(acc.text, 1, pos - 1) = new
         /\ SubSeq(acc.text, pos + n, Len(acc.text)) = SubSeq(t, e, Len(t))
    <3>. DEFINE m == pos + n
    <3>1. m \in Len(new) + 1 .. Len(new) + Len(tail) + 1 /\ m - Len(new) = n + 1
      <4>1. Len(new) = pos - 1 /\ Len(tail) = Len(t) - q + 1
        BY <2>11, <2>12
      <4>2. q + n <= Len(t) + 1
        BY <2>2, <2>7, <2>9
      <4>. HIDE DEF new, pos, n
      <4>. QED
        BY <2>2, <2>7, <4>1, <4>2
    <3>. HIDE DEF new, pos, m
    <3>2. SubSeq(new \o tail, 1, Len(new)) = new
      BY <2>11, <2>12, ConcatFront
    <3>3. SubSeq(new \o tail, m, Len(new \o tail)) = SubSeq(tail, m - Len(new), Len(tail))
      BY <2>11, <2>12, <3>1, ConcatBack
    <3>. QED
      BY <2>11, <2>12, <3>1, <3>2, <3>3 DEF m
  <2>14. next = [text |-> new \o w \o SubSeq(t, e, Len(t)), pos |-> pos + Len(w), hits |-> acc.hits + 1]
    <3>1. next = [text |-> SubSeq(acc.text, 1, pos - 1) \o w \o SubSeq(acc.text, pos + n, Len(acc.text)),
                  pos |-> pos + Len(w), hits |-> acc.hits + 1]
      BY <2>1 DEF Edits!Replace, Edits!Skips
    <3>. HIDE DEF pos, new, next, e
    <3>. QED
      BY <2>13, <3>1
  <2>15. /\ next.text = front2 \o SubSeq(t, e, Len(t)) /\ next.pos = Len(front2) + 1
         /\ next.hits = acc.hits + 1 /\ next.hits \in Nat /\ next.hits # 0
    <3>1. pos + Len(w) = Len(new \o w) + 1
      <4>. HIDE DEF pos, new
      <4>. QED
        BY <2>7, <2>12
    <3>2. front2 = new \o w
      BY <2>10
    <3>. HIDE DEF pos, next, front2, e, new
    <3>3. next.text = new \o w \o SubSeq(t, e, Len(t))
      BY <2>14
    <3>4. next.pos = pos + Len(w) /\ next.hits = acc.hits + 1
      BY <2>14
    <3>5. acc.hits + 1 \in Nat /\ acc.hits + 1 # 0
      BY <1>1
    <3>. QED
      BY <3>1, <3>2, <3>3, <3>4, <3>5
  <2>16. ~multi => next.hits = 1 /\ G = {Edits!Min(Starts(t, o))}
    <3>. SUFFICES ASSUME ~multi PROVE next.hits = 1 /\ G = {Edits!Min(Starts(t, o))}
      OBVIOUS
    <3>1. acc.hits = 0 /\ H = {} /\ p = 1
      BY <1>1, <2>1
    <3>2. \A k \in Starts(t, o) : q <= k
      BY <2>5, <2>8, <3>1
    <3>3. Starts(t, o) \in SUBSET Nat /\ Starts(t, o) # {}
      <4>1. \A k \in 1 .. Len(t) - n + 1 : k \in Nat
        BY <2>2
      <4>. QED
        BY <2>5, <2>7, <4>1
    <3>4. Edits!Min(Starts(t, o)) \in Starts(t, o) /\ Edits!Min(Starts(t, o)) <= q
      BY <2>7, <3>3, EditsMin
    <3>5. Edits!Min(Starts(t, o)) = q
      <4>. DEFINE least == Edits!Min(Starts(t, o))
      <4>1. least \in Nat /\ q <= least /\ least <= q
        BY <3>2, <3>3, <3>4
      <4>. HIDE DEF least
      <4>2. least = q
        BY <2>7, <4>1
      <4>. QED
        BY <4>2 DEF least
    <3>. HIDE DEF next
    <3>. QED
      BY <2>15, <3>1, <3>5
  <2>17. e > p /\ e \in Int
    BY <2>2, <2>7
  <2>18. ReplacedTo(t, o, w, multi, next, G, e)
    <3>. HIDE DEF next, G, e
    <3>. QED
      BY <2>9, <2>15, <2>16 DEF ReplacedTo
  <2>. HIDE DEF next, G, e
  <2>. QED
    BY <2>17, <2>18
<1>. QED
  BY <1>2, <1>3

\* f holds the loop after each turn up to the m-th.
Loops(f, t, o, w, multi, m) ==
  f = [i \in 0 .. m |-> IF i = 0 THEN [text |-> t, pos |-> 1, hits |-> 0]
                        ELSE Edits!Replace(o, w, multi, f[i - 1])]

LoopRuns(f, t, o, w, multi, m) ==
  \A i \in 0 .. m : f[i] = IF i = 0 THEN [text |-> t, pos |-> 1, hits |-> 0]
                           ELSE Edits!Replace(o, w, multi, f[i - 1])

\* What the loop holds, turn by turn.
LEMMA LoopSteps ==
  ASSUME NEW t, NEW o, NEW w, NEW multi, NEW m \in Nat, NEW f, Loops(f, t, o, w, multi, m)
  PROVE  LoopRuns(f, t, o, w, multi, m)
<1>. DEFINE h == [i \in 0 .. m |-> IF i = 0 THEN [text |-> t, pos |-> 1, hits |-> 0]
                                   ELSE Edits!Replace(o, w, multi, f[i - 1])]
<1>1. f = h
  BY DEF Loops
<1>2. \A i \in 0 .. m : h[i] = IF i = 0 THEN [text |-> t, pos |-> 1, hits |-> 0]
                               ELSE Edits!Replace(o, w, multi, f[i - 1])
  OBVIOUS
<1>. HIDE DEF h
<1>. QED
  BY <1>1, <1>2 DEF LoopRuns

\* For any number of turns there is such a function.
LEMMA LoopExists ==
  ASSUME NEW t, NEW o, NEW w, NEW multi, NEW n \in Nat
  PROVE  \E f : Loops(f, t, o, w, multi, n)
<1>. DEFINE Good == {m \in Nat : \E f : Loops(f, t, o, w, multi, m)}
            begins == [text |-> t, pos |-> 1, hits |-> 0]
            Next1(x) == Edits!Replace(o, w, multi, x)
<1>1. 0 \in Good
  <2>. DEFINE g == [i \in 0 .. 0 |-> begins]
  <2>1. g = [i \in 0 .. 0 |-> IF i = 0 THEN begins ELSE Next1(g[i - 1])]
    OBVIOUS
  <2>2. Loops(g, t, o, w, multi, 0)
    BY <2>1 DEF Loops
  <2>. QED
    BY <2>2
<1>2. ASSUME NEW k \in Good PROVE k + 1 \in Good
  <2>1. PICK f : Loops(f, t, o, w, multi, k)
    OBVIOUS
  <2>. DEFINE m == k + 1
              g == [i \in 0 .. m |-> IF i = 0 THEN begins ELSE Next1(f[i - 1])]
  <2>2. \A i \in 0 .. k : f[i] = IF i = 0 THEN begins ELSE Next1(f[i - 1])
    <3>1. k \in Nat
      OBVIOUS
    <3>2. LoopRuns(f, t, o, w, multi, k)
      BY <2>1, <3>1, LoopSteps
    <3>. QED
      BY <3>2 DEF LoopRuns
  <2>3. k \in Nat /\ m \in Nat /\ \A i \in 0 .. k : i \in 0 .. m
    OBVIOUS
  <2>. HIDE DEF Next1, begins
  <2>4. \A i \in 0 .. k : g[i] = f[i]
    BY <2>2, <2>3
  <2>5. \A i \in 0 .. m : i # 0 => i - 1 \in 0 .. k
    BY <2>3
  <2>6. \A i \in 0 .. m : i # 0 => g[i - 1] = f[i - 1]
    <3>. HIDE DEF g
    <3>. QED
      BY <2>4, <2>5
  <2>7. g = [i \in 0 .. m |-> IF i = 0 THEN begins ELSE Next1(g[i - 1])]
    BY <2>6
  <2>8. Loops(g, t, o, w, multi, m)
    <3>. HIDE DEF g
    <3>. QED
      BY <2>7 DEF Loops, begins, Next1
  <2>. QED
    BY <2>3, <2>8
<1>3. Good = Nat
  <2>1. Good \in SUBSET Nat
    OBVIOUS
  <2>. HIDE DEF Good
  <2>. QED
    BY <1>1, <1>2, <2>1, AllNumbers
<1>. QED
  BY <1>3

(***************************************************************************)
(* The loop is over after the turns the edit makes at most, since each     *)
(* replaces a character of the original at least.                          *)
(***************************************************************************)
LEMMA EditedOver ==
  ASSUME MaxFile \in Nat, NEW S, NEW t \in Seq(S), NEW o \in Seq(S), NEW w \in Seq(S),
         Len(t) <= MaxFile, Len(o) > 0, NEW multi
  PROVE  /\ Over(o, multi, Edits!Edited(t, o, w, multi))
         /\ \E H : \E p \in Int : ReplacedTo(t, o, w, multi, Edits!Edited(t, o, w, multi), H, p)
<1>. DEFINE m == MaxFile + 1
            loop == CHOOSE f : f = [i \in 0 .. m |->
                      IF i = 0 THEN [text |-> t, pos |-> 1, hits |-> 0]
                      ELSE Edits!Replace(o, w, multi, f[i - 1])]
            last == Edits!Edited(t, o, w, multi)
<1>1. m \in Nat /\ Len(t) \in Nat /\ Len(t) < m
  OBVIOUS
<1>2. Loops(loop, t, o, w, multi, m)
  <2>1. \E f : Loops(f, t, o, w, multi, m)
    <3>. HIDE DEF m
    <3>. QED
      BY <1>1, LoopExists
  <2>. QED
    BY <2>1 DEF Loops
<1>3. last = loop[m]
  BY DEF Edits!Edited
<1>. HIDE DEF m, loop, last
<1>4. \A i \in 0 .. m : loop[i] = IF i = 0 THEN [text |-> t, pos |-> 1, hits |-> 0]
                                  ELSE Edits!Replace(o, w, multi, loop[i - 1])
  <2>1. LoopRuns(loop, t, o, w, multi, m)
    BY <1>1, <1>2, LoopSteps
  <2>. QED
    BY <2>1 DEF LoopRuns
<1>. DEFINE Fits(i) == \E H : \E p \in Int : /\ ReplacedTo(t, o, w, multi, loop[i], H, p)
                                             /\ Over(o, multi, loop[i]) \/ p > i
            Good == {i \in Nat : i <= m => Fits(i)}
<1>5. 0 \in Good
  <2>1. loop[0] = [text |-> t, pos |-> 1, hits |-> 0]
    BY <1>1, <1>4
  <2>2. LeftmostTo(t, o, {}, 1)
    BY DEF LeftmostTo, Starts, Edits!Occurs
  <2>3. JoinedTo(Kept(t, o, w, {}), 1 - 1) = <<>>
    <3>1. Kept(t, o, w, {}) \in Seq(Seq(S)) /\ 1 - 1 = 0
      BY KeptType
    <3>. QED
      BY <3>1, JoinedSteps
  <2>4. <<>> \o SubSeq(t, 1, Len(t)) = t /\ Len(<<>>) = 0
    BY SubSeqFull, ConcatEmptySeq
  <2>5. /\ 1 \in 1 .. Len(t) + 1 /\ 0 \in Nat
        /\ loop[0].pos = Len(<<>>) + 1 /\ loop[0].text = <<>> \o SubSeq(t, 1, Len(t)) /\ loop[0].hits = 0
    BY <1>1, <2>1, <2>4
  <2>6. ReplacedTo(t, o, w, multi, loop[0], {}, 1)
    BY <2>2, <2>3, <2>5 DEF ReplacedTo
  <2>. QED
    BY <2>6
<1>6. ASSUME NEW i \in Good PROVE i + 1 \in Good
  <2>. DEFINE k == i + 1
  <2>1. SUFFICES ASSUME k <= m PROVE Fits(k)
    <3>1. k \in Nat
      OBVIOUS
    <3>. HIDE DEF Fits
    <3>. QED
      BY <3>1
  <2>2. i \in Nat /\ i <= m /\ k \in 0 .. m /\ k # 0 /\ k - 1 = i
    BY <1>1, <2>1
  <2>3. PICK H : \E p \in Int : /\ ReplacedTo(t, o, w, multi, loop[i], H, p)
                                /\ Over(o, multi, loop[i]) \/ p > i
    BY <2>2
  <2>4. PICK p \in Int : /\ ReplacedTo(t, o, w, multi, loop[i], H, p)
                         /\ Over(o, multi, loop[i]) \/ p > i
    BY <2>3
  <2>. DEFINE acc == loop[i]
  <2>. HIDE DEF k
  <2>5. loop[k] = Edits!Replace(o, w, multi, acc)
    BY <1>4, <2>2
  <2>. HIDE DEF acc
  <2>6. ReplacedTo(t, o, w, multi, acc, H, p) /\ (Over(o, multi, acc) \/ p > i)
    BY <2>4 DEF acc
  <2>7. CASE Over(o, multi, acc)
    <3>1. loop[k] = acc
      BY <2>5, <2>6, <2>7, ReplaceStep
    <3>. QED
      BY <2>6, <2>7, <3>1
  <2>8. CASE ~ Over(o, multi, acc)
    <3>1. \E G : \E q \in Int : q > p /\ ReplacedTo(t, o, w, multi, Edits!Replace(o, w, multi, acc), G, q)
      BY <2>6, <2>8, ReplaceStep
    <3>2. PICK G : \E q \in Int : q > p /\ ReplacedTo(t, o, w, multi, loop[k], G, q)
      BY <2>5, <3>1
    <3>3. PICK q \in Int : q > p /\ ReplacedTo(t, o, w, multi, loop[k], G, q)
      BY <3>2
    <3>4. q > k
      BY <2>2, <2>6, <2>8, <3>3 DEF k
    <3>. QED
      BY <3>3, <3>4
  <2>. QED
    BY <2>7, <2>8
<1>7. Fits(m)
  <2>1. Good = Nat
    <3>1. Good \in SUBSET Nat
      OBVIOUS
    <3>. HIDE DEF Good
    <3>. QED
      BY <1>5, <1>6, <3>1, AllNumbers
  <2>2. m <= m
    BY <1>1
  <2>. HIDE DEF Fits
  <2>. QED
    BY <1>1, <2>1, <2>2
<1>8. PICK H : \E p \in Int : /\ ReplacedTo(t, o, w, multi, loop[m], H, p)
                              /\ Over(o, multi, loop[m]) \/ p > m
  BY <1>7
<1>9. PICK p \in Int : /\ ReplacedTo(t, o, w, multi, loop[m], H, p)
                       /\ Over(o, multi, loop[m]) \/ p > m
  BY <1>8
<1>10. ~ (p > m)
  BY <1>1, <1>9 DEF ReplacedTo
<1>11. /\ Over(o, multi, last)
       /\ \E G : \E q \in Int : ReplacedTo(t, o, w, multi, last, G, q)
  BY <1>3, <1>9, <1>10
<1>. QED
  BY <1>11 DEF last

\* The occurrences an edit replaces: those from the left that do not overlap, or the first.
Replaced(t, o, multi) ==
  LET n == Len(o)
      starts == Edits!Occurs(t, o, 1)
      Leftmost(S) == \A i \in starts : i \in S <=> \A j \in S : j < i => j + n <= i
  IN  IF multi THEN CHOOSE S \in SUBSET starts : Leftmost(S) ELSE {Edits!Min(starts)}

IsLeftmost(T, n, A) == \A i \in T : i \in A <=> \A j \in A : j < i => j + n <= i

\* Only one set of occurrences is leftmost.
LEMMA LeftmostUnique ==
  ASSUME NEW T \in SUBSET Nat, NEW n \in Nat, NEW A \in SUBSET T, NEW B \in SUBSET T,
         IsLeftmost(T, n, A), IsLeftmost(T, n, B)
  PROVE  A = B
<1>. DEFINE Bad == {i \in T : (i \in A) # (i \in B)}
<1>1. SUFFICES ASSUME Bad # {} PROVE FALSE
  OBVIOUS
<1>2. PICK i \in Bad : \A k \in Bad : i <= k
  <2>1. Bad \in SUBSET Nat
    OBVIOUS
  <2>. HIDE DEF Bad
  <2>. QED
    BY <1>1, <2>1, LeastNumber
<1>3. i \in T /\ i \in Nat /\ (i \in A) # (i \in B)
  BY <1>2
<1>4. \A j \in T : j < i => (j \in A <=> j \in B)
  <2>. SUFFICES ASSUME NEW j \in T, j < i, ~ (j \in A <=> j \in B) PROVE FALSE
    OBVIOUS
  <2>1. j \in Bad /\ j \in Nat
    OBVIOUS
  <2>. HIDE DEF Bad
  <2>. QED
    BY <1>2, <1>3, <2>1
<1>5. i \in A <=> \A j \in A : j < i => j + n <= i
  BY <1>3 DEF IsLeftmost
<1>6. i \in B <=> \A j \in B : j < i => j + n <= i
  BY <1>3 DEF IsLeftmost
<1>. QED
  BY <1>3, <1>4, <1>5, <1>6

(***************************************************************************)
(* The text of an edit is what it keeps of the characters and puts at the  *)
(* occurrences from the left.                                              *)
(***************************************************************************)
LEMMA EditedText ==
  ASSUME MaxFile \in Nat, NEW S, NEW t \in Seq(S), NEW o \in Seq(S), NEW w \in Seq(S),
         Len(t) <= MaxFile, Len(o) > 0, NEW multi,
         NEW last, last = Edits!Edited(t, o, w, multi), last.hits # 0
  PROVE  last.text \in Seq(S) /\ last.text = FlattenSeq(Kept(t, o, w, Replaced(t, o, multi)))
<1>1. /\ Over(o, multi, last)
      /\ \E H : \E p \in Int : ReplacedTo(t, o, w, multi, last, H, p)
  BY EditedOver
<1>2. PICK H : \E p \in Int : ReplacedTo(t, o, w, multi, last, H, p)
  BY <1>1
<1>3. PICK p \in Int : ReplacedTo(t, o, w, multi, last, H, p)
  BY <1>2
<1>. DEFINE k == Kept(t, o, w, H)
            n == Len(o)
            front == JoinedTo(k, p - 1)
            f == Len(front)
<1>4. /\ p \in 1 .. Len(t) + 1 /\ LeftmostTo(t, o, H, p)
      /\ last.pos = f + 1 /\ last.text = front \o SubSeq(t, p, Len(t))
      /\ (~multi /\ last.hits # 0) => H = {Edits!Min(Starts(t, o))}
  BY <1>3 DEF ReplacedTo
<1>5. /\ Len(t) \in Nat /\ n \in Nat /\ n > 0
      /\ k \in Seq(Seq(S)) /\ Len(k) = Len(t)
  BY KeptType
<1>6. front \in Seq(S) /\ f \in Nat
  <2>1. p - 1 \in 0 .. Len(k)
    BY <1>4, <1>5
  <2>. HIDE DEF k
  <2>2. front \in Seq(S)
    BY <1>5, <2>1, JoinedSteps
  <2>. HIDE DEF front
  <2>. QED
    BY <2>2
<1>7. Starts(t, o) \in SUBSET Nat /\ \A i \in Starts(t, o) : i \in 1 .. Len(t) - n + 1
  BY <1>5 DEF Starts, Edits!Occurs
<1>8. /\ H \subseteq Starts(t, o) /\ \A i \in H : i + n <= p /\ i \in Int
      /\ \A i \in Starts(t, o) : i < p => (i \in H <=> \A j \in H : j < i => j + n <= i)
  BY <1>4, <1>7 DEF LeftmostTo
<1>9. last.text = FlattenSeq(k)
  <2>. DEFINE c == p - 1
  <2>1. c \in 0 .. Len(t) /\ Len(t) \in c .. Len(t) /\ c + 1 = p
    BY <1>4, <1>5
  <2>2. SinglesIn(k, t, c, Len(t))
    <3>. SUFFICES ASSUME NEW i \in c + 1 .. Len(t) PROVE k[i] = <<t[i]>>
      BY DEF SinglesIn
    <3>1. i \in 1 .. Len(t) /\ i >= p /\ i \in DOMAIN t
      BY <1>4, <1>5
    <3>2. i \notin H /\ \A j \in H : ~ (i < j + n)
      BY <1>4, <1>5, <1>8, <3>1
    <3>. QED
      BY <3>1, <3>2 DEF Kept
  <2>. HIDE DEF c, k
  <2>3. JoinedTo(k, Len(t)) = JoinedTo(k, c) \o SubSeq(t, c + 1, Len(t))
    BY <1>5, <2>1, <2>2, JoinedSingles
  <2>4. JoinedTo(k, Len(t)) = FlattenSeq(k)
    BY <1>5, JoinedSteps
  <2>. QED
    BY <1>4, <2>1, <2>3, <2>4 DEF c
<1>10. last.text \in Seq(S)
  <2>. HIDE DEF k
  <2>. QED
    BY <1>5, <1>9, FlattenType
<1>11. H = Replaced(t, o, multi)
  <2>1. CASE ~multi
    BY <1>4, <2>1 DEF Replaced, Starts
  <2>2. CASE multi
    <3>1. \A i \in Starts(t, o) : i < p
      <4>. SUFFICES ASSUME NEW i \in Starts(t, o), ~ (i < p) PROVE FALSE
        OBVIOUS
      <4>. DEFINE z == i + f - p + 1
      <4>1. i \in Int /\ i >= p /\ z \in Int /\ z - f + p - 1 = i
        BY <1>4, <1>6, <1>7
      <4>2. i \in Edits!Occurs(t, o, p)
        BY <1>5, <1>7, <4>1 DEF Edits!Occurs, Starts
      <4>. HIDE DEF z, front
      <4>3. z \in Edits!Occurs(front \o SubSeq(t, p, Len(t)), o, f + 1)
        BY <1>4, <1>6, <4>1, <4>2, OccursBehind
      <4>. QED
        BY <1>1, <1>4, <2>2, <4>3 DEF Over
    <3>2. \A i \in Starts(t, o) : i \in H <=> \A j \in H : j < i => j + n <= i
      BY <1>8, <3>1
    <3>. DEFINE Leftmost(G) == \A i \in Starts(t, o) : i \in G <=> \A j \in G : j < i => j + n <= i
                chosen == CHOOSE G \in SUBSET Starts(t, o) : Leftmost(G)
    <3>3. H \in SUBSET Starts(t, o) /\ Leftmost(H)
      BY <1>8, <3>2
    <3>4. chosen \in SUBSET Starts(t, o) /\ Leftmost(chosen)
      <4>. HIDE DEF Leftmost
      <4>. QED
        BY <3>3
    <3>5. Replaced(t, o, multi) = chosen
      BY <2>2 DEF Replaced, Starts
    <3>7. IsLeftmost(Starts(t, o), n, H) /\ IsLeftmost(Starts(t, o), n, chosen)
      <4>. HIDE DEF chosen
      <4>. QED
        BY <3>3, <3>4 DEF IsLeftmost
    <3>. HIDE DEF chosen, n, Leftmost
    <3>6. H = chosen
      BY <1>5, <1>7, <3>3, <3>4, <3>7, LeftmostUnique
    <3>. QED
      BY <3>5, <3>6
  <2>. QED
    BY <2>1, <2>2
<1>. QED
  BY <1>9, <1>10, <1>11

Chars == Letters \union {LineBreak}

\* The texts of a file are the sequences of its letters up to its length,
LEMMA TextsAre ==
  ASSUME MaxFile \in Nat, NEW t
  PROVE  t \in Edits!Texts <=> t \in Seq(Chars) /\ Len(t) <= MaxFile
<1>1. ASSUME t \in Edits!Texts PROVE t \in Seq(Chars) /\ Len(t) <= MaxFile
  <2>1. PICK n \in 0 .. MaxFile : t \in [1 .. n -> Chars]
    BY <1>1 DEF Edits!Texts, Chars
  <2>2. n \in Nat
    OBVIOUS
  <2>3. t \in Seq(Chars) /\ Len(t) = n
    BY <2>1, <2>2, SeqDef
  <2>. QED
    BY <2>1, <2>3
<1>2. ASSUME t \in Seq(Chars), Len(t) <= MaxFile PROVE t \in Edits!Texts
  <2>1. Len(t) \in 0 .. MaxFile /\ t \in [1 .. Len(t) -> Chars]
    BY <1>2
  <2>. QED
    BY <2>1 DEF Edits!Texts, Chars
<1>. QED
  BY <1>1, <1>2

\* the empty one among them.
LEMMA EmptyText == ASSUME MaxFile \in Nat PROVE <<>> \in Edits!Texts
<1>1. <<>> \in Seq(Chars) /\ Len(<<>>) = 0 /\ 0 <= MaxFile
  OBVIOUS
<1>. QED
  BY <1>1, TextsAre

(***************************************************************************)
(* What a call that reads, edits or writes holds; an undisturbed one that  *)
(* writes finds the file as it left it.                                    *)
(***************************************************************************)
ReadWell(r) ==
  /\ r.text \in Edits!Texts
  /\ r.offset \in {-1} \union 0 .. MaxLine /\ r.limit \in {-1} \union 1 .. MaxLine
  /\ r.answer = Edits!ReadLines(r.text, r.offset, r.limit)

EditWell(r) ==
  /\ r.text \in Edits!Texts /\ r.old \in Edits!Olds /\ r.new \in Edits!News
  /\ Edits!Edited(r.text, r.old, r.new, r.multi).hits # 0
  /\ r.content = Edits!Edited(r.text, r.old, r.new, r.multi).text
  /\ Len(r.content) <= MaxFile

WriteWell(r, f, alone) ==
  /\ f \in Edits!Texts /\ r.content \in Edits!Texts /\ r.at \in {"opened", "written"}
  /\ (alone /\ r.at = "opened") => f = <<>>
  /\ (alone /\ r.at = "written") => f = r.content

CallWell(r, f, alone) ==
  /\ r.tool = "read" => ReadWell(r)
  /\ r.tool = "edit" => EditWell(r)
  /\ r.tool = "write" => WriteWell(r, f, alone)

EditsIInv ==
  /\ call = [c \in Calls |-> call[c]]
  /\ file # Edits!Missing => file \in Edits!Texts
  /\ \A c \in Calls : CallWell(call[c], file, c \notin disturbed)

\* The invariant of the file tools holds before the first call.
LEMMA EditsInit == Edits!Init => EditsIInv
BY DEF Edits!Init, EditsIInv, CallWell, Edits!Idle

\* What a call answers that reads lines with a limit.
LEMMA ReadWellAnswers ==
  ASSUME MaxFile \in Nat, MaxLine \in Nat, SizeMax \in Nat, 2 * MaxLine <= SizeMax,
         NEW c, ReadWell(call[c]), call[c].limit > 0,
         call[c].text = <<>> \/ Edits!Last(call[c].text) = LineBreak
  PROVE  Edits!AsPromised(c)
<1>. DEFINE t == call[c].text
            o == call[c].offset
            l == call[c].limit
            lines == Edits!AllLines(t)
            first == Edits!Offset(o)
            last == Edits!Min({Len(lines), first + l})
            promised == IF first >= Len(lines) THEN Edits!Failed
                        ELSE Edits!FlattenSeq(SubSeq(lines, first + 1, last))
<1>1. /\ t \in Seq(Chars) /\ (t = <<>> \/ t[Len(t)] = LineBreak)
      /\ o \in {-1} \union 0 .. MaxLine /\ l \in 1 .. MaxLine
      /\ call[c].answer = Edits!ReadLines(t, o, l)
  BY TextsAre, EditsOperators DEF ReadWell
<1>2. Edits!ReadLines(t, o, l) = promised
  <2>. HIDE DEF t, o, l
  <2>. QED
    BY <1>1, LinesRead
<1>3. l > 0 /\ ~ (o < 0 /\ l <= 0)
  <2>. HIDE DEF o, l
  <2>. QED
    BY <1>1
<1>4. Edits!AsPromised(c) <=> call[c].answer = promised
  BY <1>3 DEF Edits!AsPromised
<1>. QED
  BY <1>1, <1>2, <1>4

\* What a call has made of the text it read to edit it.
LEMMA EditWellAnswers ==
  ASSUME MaxFile \in Nat, NEW r, EditWell(r)
  PROVE  /\ r.content \in Edits!Texts
         /\ r.content = FlattenSeq(Kept(r.text, r.old, r.new, Replaced(r.text, r.old, r.multi)))
<1>. DEFINE t == r.text
            o == r.old
            w == r.new
            multi == r.multi
            done == Edits!Edited(t, o, w, multi)
<1>1. t \in Seq(Chars) /\ Len(t) <= MaxFile
  BY TextsAre DEF EditWell
<1>2. o \in Seq(Chars) /\ Len(o) > 0
  <2>1. o \in Edits!Texts /\ Len(o) \in 1 .. 2
    BY DEF EditWell, Edits!Olds
  <2>2. o \in Seq(Chars)
    BY <2>1, TextsAre
  <2>3. Len(o) > 0
    <3>. HIDE DEF o
    <3>. QED
      BY <2>1
  <2>. QED
    BY <2>2, <2>3
<1>3. w \in Seq(Chars)
  <2>1. w \in Edits!Texts \/ \E l \in Letters : w = <<l, l>>
    BY DEF EditWell, Edits!News
  <2>2. \A l \in Letters : l \in Chars /\ <<l, l>> \in Seq(Chars)
    BY DEF Chars
  <2>. QED
    BY <2>1, <2>2, TextsAre
<1>4. done.hits # 0 /\ r.content = done.text /\ Len(r.content) <= MaxFile
  BY DEF EditWell
<1>. HIDE DEF t, o, w, multi, done
<1>5. done = Edits!Edited(t, o, w, multi)
  BY DEF done
<1>6. done.text \in Seq(Chars) /\ done.text = FlattenSeq(Kept(t, o, w, Replaced(t, o, multi)))
  BY <1>1, <1>2, <1>3, <1>4, <1>5, EditedText
<1>7. r.content \in Edits!Texts
  BY <1>4, <1>6, TextsAre
<1>. QED
  BY <1>4, <1>6, <1>7 DEF t, o, w, multi

\* From the invariant follow the properties of the file tools.
LEMMA EditsProperties ==
  ASSUME MaxFile \in Nat, MaxLine \in Nat, SizeMax \in Nat, 2 * MaxLine <= SizeMax, EditsIInv
  PROVE  Edits!LinesAnswered /\ Edits!EditAnswered /\ Edits!WrittenAsMeant
<1>1. Edits!LinesAnswered
  BY ReadWellAnswers DEF EditsIInv, CallWell, Edits!LinesAnswered
<1>2. Edits!EditAnswered
  <2>. SUFFICES ASSUME NEW c \in Calls, call[c].tool = "edit"
                PROVE  LET e == call[c]
                           n == Len(e.old)
                           starts == Edits!Occurs(e.text, e.old, 1)
                           Leftmost(S) == \A i \in starts : i \in S <=> \A j \in S : j < i => j + n <= i
                           hit == IF e.multi THEN CHOOSE S \in SUBSET starts : Leftmost(S)
                                  ELSE {Edits!Min(starts)}
                           Keeps(i) == IF i \in hit THEN e.new
                                       ELSE IF \E j \in hit : j < i /\ i < j + n THEN <<>>
                                       ELSE <<e.text[i]>>
                       IN  e.content = Edits!FlattenSeq([i \in DOMAIN e.text |-> Keeps(i)])
    BY DEF Edits!EditAnswered
  <2>. DEFINE e == call[c]
              hit == Replaced(e.text, e.old, e.multi)
  <2>1. e.content = Edits!FlattenSeq(Kept(e.text, e.old, e.new, hit))
    BY EditWellAnswers, EditsOperators DEF EditsIInv, CallWell
  <2>2. Kept(e.text, e.old, e.new, hit) =
          [i \in DOMAIN e.text |-> IF i \in hit THEN e.new
                                   ELSE IF \E j \in hit : j < i /\ i < j + Len(e.old) THEN <<>>
                                   ELSE <<e.text[i]>>]
    BY DEF Kept
  <2>. QED
    BY <2>1, <2>2 DEF Replaced
<1>3. Edits!WrittenAsMeant
  BY DEF EditsIInv, CallWell, WriteWell, Edits!WrittenAsMeant
<1>. QED
  BY <1>1, <1>2, <1>3

(***************************************************************************)
(* Each step of a call keeps this: what it reads, edits or writes of the   *)
(* file, and what the others hold, who are marked as disturbed when the    *)
(* file changes under them.                                                *)
(***************************************************************************)
\* A call that goes on while the file stays.
LEMMA CallGoes ==
  ASSUME EditsIInv, NEW c \in Calls, NEW next, Edits!Goes(c, next), UNCHANGED <<file, disturbed>>,
         CallWell(next, file, c \notin disturbed)
  PROVE  EditsIInv'
<1>1. /\ call' = [d \in Calls |-> call'[d]] /\ call'[c] = next
      /\ \A d \in Calls : d # c => call'[d] = call[d]
  BY DEF EditsIInv, Edits!Goes
<1>2. \A d \in Calls : CallWell(call'[d], file, d \notin disturbed)
  BY <1>1 DEF EditsIInv
<1>. QED
  BY <1>1, <1>2 DEF EditsIInv

\* A call that goes on and writes the file.
LEMMA CallWrites ==
  ASSUME EditsIInv, NEW c \in Calls, NEW next, Edits!Goes(c, next), Edits!Touches(c),
         file' \in Edits!Texts, CallWell(next, file', c \notin disturbed')
  PROVE  EditsIInv'
<1>1. /\ call' = [d \in Calls |-> call'[d]] /\ call'[c] = next
      /\ \A d \in Calls : d # c => call'[d] = call[d]
  BY DEF EditsIInv, Edits!Goes
<1>2. \A d \in Calls : (d # c /\ call[d].tool = "write") => d \in disturbed'
  BY DEF Edits!Touches
<1>3. ASSUME NEW d \in Calls PROVE CallWell(call'[d], file', d \notin disturbed')
  <2>1. CASE d = c
    BY <1>1, <2>1
  <2>2. CASE d # c
    <3>1. CallWell(call[d], file, d \notin disturbed)
      BY DEF EditsIInv
    <3>. QED
      BY <1>1, <1>2, <2>2, <3>1 DEF CallWell, WriteWell
  <2>. QED
    BY <2>1, <2>2
<1>. QED
  BY <1>1, <1>3 DEF EditsIInv

\* A file opened to be written, which empties it, disturbs the calls that write it,
LEMMA OpensStep ==
  ASSUME MaxFile \in Nat, EditsIInv, NEW c \in Calls, NEW content, content \in Edits!Texts,
         Edits!Opens(c, content)
  PROVE  EditsIInv'
<1>. DEFINE next == [tool |-> "write", at |-> "opened", content |-> content]
<1>1. Edits!Goes(c, next) /\ Edits!Touches(c) /\ file' = <<>>
  BY DEF Edits!Opens, Edits!Truncated
<1>2. file' \in Edits!Texts
  BY <1>1, EmptyText
<1>3. CallWell(next, file', c \notin disturbed')
  BY <1>1, <1>2 DEF CallWell, WriteWell
<1>. HIDE DEF next
<1>. QED
  BY <1>1, <1>2, <1>3, CallWrites

\* What is written over a text is a text no longer than the longer of both.
LEMMA OverwrittenText ==
  ASSUME MaxFile \in Nat, NEW f \in Edits!Texts, NEW content \in Edits!Texts
  PROVE  /\ Edits!Overwritten(f, content) \in Edits!Texts
         /\ f = <<>> => Edits!Overwritten(f, content) = content
<1>1. /\ f \in Seq(Chars) /\ Len(f) <= MaxFile /\ Len(f) \in Nat
      /\ content \in Seq(Chars) /\ Len(content) <= MaxFile /\ Len(content) \in Nat
  BY TextsAre
<1>. DEFINE m == Len(content) + 1
            kept == SubSeq(f, m, Len(f))
<1>2. /\ kept \in Seq(Chars) /\ Len(kept) = IF m <= Len(f) THEN Len(f) - m + 1 ELSE 0
  <2>1. m \in Int /\ Len(f) \in Int /\ \A i \in m .. Len(f) : f[i] \in Chars
    BY <1>1
  <2>. HIDE DEF m
  <2>. QED
    BY <2>1, SubSeqProperties
<1>3. content \o kept \in Seq(Chars) /\ Len(content \o kept) = Len(content) + Len(kept)
  <2>. HIDE DEF kept
  <2>. QED
    BY <1>1, <1>2, ConcatProperties
<1>4. Len(content \o kept) <= MaxFile
  <2>. HIDE DEF kept
  <2>. QED
    BY <1>1, <1>2, <1>3
<1>5. Edits!Overwritten(f, content) = content \o kept
  BY DEF Edits!Overwritten
<1>6. ASSUME f = <<>> PROVE content \o kept = content
  <2>1. kept = <<>>
    <3>1. Len(f) < m /\ m \in Int /\ Len(f) \in Int
      BY <1>1, <1>6
    <3>. HIDE DEF m
    <3>. QED
      BY <3>1, SubSeqEmpty
  <2>. QED
    BY <1>1, <2>1, ConcatEmptySeq
<1>. HIDE DEF kept
<1>. QED
  BY <1>3, <1>4, <1>5, <1>6, TextsAre

\* and so does the write that follows.
LEMMA WritesStep ==
  ASSUME MaxFile \in Nat, EditsIInv, NEW c \in Calls, Edits!Writes(c)
  PROVE  EditsIInv'
<1>. DEFINE content == call[c].content
            next == [call[c] EXCEPT !.at = "written"]
<1>1. /\ call[c].tool = "write" /\ call[c].at = "opened"
      /\ file' = Edits!Overwritten(file, content) /\ Edits!Goes(c, next) /\ Edits!Touches(c)
  BY DEF Edits!Writes
<1>2. WriteWell(call[c], file, c \notin disturbed)
  BY <1>1 DEF EditsIInv, CallWell
<1>3. /\ file' \in Edits!Texts /\ content \in Edits!Texts
      /\ file = <<>> => file' = content
  BY <1>1, <1>2, OverwrittenText DEF WriteWell
<1>4. c \notin disturbed' => c \notin disturbed
  BY <1>1 DEF Edits!Touches
<1>5. next.tool = "write" /\ next.at = "written" /\ next.content = content
  BY <1>1
<1>6. CallWell(next, file', c \notin disturbed')
  <2>. HIDE DEF next
  <2>. QED
    BY <1>1, <1>2, <1>3, <1>4, <1>5 DEF CallWell, WriteWell
<1>. HIDE DEF next, content
<1>. QED
  BY <1>1, <1>3, <1>6, CallWrites

\* What a read answers is right when it answers it,
LEMMA ReadsTextStep ==
  ASSUME EditsIInv, NEW c \in Calls, Edits!ReadsText(c)
  PROVE  EditsIInv'
<1>1. PICK o \in {-1} \union 0 .. MaxLine, l \in {-1} \union 1 .. MaxLine :
        Edits!Goes(c, [tool |-> "read", text |-> file, offset |-> o, limit |-> l,
                       answer |-> Edits!ReadLines(file, o, l)])
  BY DEF Edits!ReadsText, Edits!NoRange
<1>. DEFINE next == [tool |-> "read", text |-> file, offset |-> o, limit |-> l,
                     answer |-> Edits!ReadLines(file, o, l)]
<1>2. file \in Edits!Texts /\ UNCHANGED <<file, disturbed>>
  BY DEF Edits!ReadsText, EditsIInv
<1>3. CallWell(next, file, c \notin disturbed)
  BY <1>2 DEF CallWell, ReadWell
<1>4. Edits!Goes(c, next)
  BY <1>1
<1>. HIDE DEF next
<1>. QED
  BY <1>2, <1>3, <1>4, CallGoes

\* what an edit is to write is its text with the occurrences replaced,
LEMMA ReadsToEditStep ==
  ASSUME EditsIInv, NEW c \in Calls, Edits!ReadsToEdit(c)
  PROVE  EditsIInv'
<1>1. PICK o \in Edits!Olds, w \in Edits!News, multi \in BOOLEAN :
        LET done == Edits!Edited(file, o, w, multi)
        IN  /\ Len(done.text) <= MaxFile
            /\ Edits!Goes(c, IF done.hits = 0 THEN [tool |-> "failed"]
                             ELSE [tool |-> "edit", text |-> file, old |-> o, new |-> w,
                                   multi |-> multi, content |-> done.text])
  BY DEF Edits!ReadsToEdit
<1>. DEFINE done == Edits!Edited(file, o, w, multi)
            next == [tool |-> "edit", text |-> file, old |-> o, new |-> w,
                     multi |-> multi, content |-> done.text]
<1>2. file \in Edits!Texts /\ UNCHANGED <<file, disturbed>>
  BY DEF Edits!ReadsToEdit, EditsIInv
<1>3. CASE done.hits = 0
  <2>. DEFINE ends == [tool |-> "failed"]
  <2>1. Edits!Goes(c, ends)
    BY <1>1, <1>3
  <2>2. CallWell(ends, file, c \notin disturbed)
    BY DEF CallWell
  <2>. HIDE DEF ends
  <2>. QED
    BY <1>2, <2>1, <2>2, CallGoes
<1>4. CASE done.hits # 0
  <2>1. Edits!Goes(c, next) /\ Len(done.text) <= MaxFile
    BY <1>1, <1>4
  <2>. HIDE DEF done
  <2>2. /\ next.tool = "edit" /\ next.text = file /\ next.old = o /\ next.new = w
        /\ next.multi = multi /\ next.content = done.text
    OBVIOUS
  <2>. HIDE DEF next
  <2>3. EditWell(next)
    BY <1>2, <1>4, <2>1, <2>2 DEF EditWell, done
  <2>4. CallWell(next, file, c \notin disturbed)
    BY <2>2, <2>3 DEF CallWell
  <2>. QED
    BY <1>2, <2>1, <2>4, CallGoes
<1>. QED
  BY <1>3, <1>4

\* the file of a call that opens it is empty until it writes,
LEMMA OpensToWriteStep ==
  ASSUME MaxFile \in Nat, EditsIInv, NEW c \in Calls, Edits!OpensToWrite(c)
  PROVE  EditsIInv'
<1>. DEFINE ends == [tool |-> "failed"]
<1>1. PICK content \in Edits!Contents :
        \/ Edits!Goes(c, ends) /\ UNCHANGED <<file, disturbed>>
        \/ file' = <<>> /\ Edits!Goes(c, ends) /\ Edits!Touches(c)
        \/ Edits!Opens(c, content)
  BY DEF Edits!OpensToWrite, Edits!Truncated
<1>2. \A f, alone : CallWell(ends, f, alone)
  BY DEF CallWell
<1>3. content \in Edits!Texts /\ <<>> \in Edits!Texts
  BY EmptyText DEF Edits!Contents
<1>. HIDE DEF ends
<1>4. CASE Edits!Goes(c, ends) /\ UNCHANGED <<file, disturbed>>
  BY <1>2, <1>4, CallGoes
<1>5. CASE file' = <<>> /\ Edits!Goes(c, ends) /\ Edits!Touches(c)
  BY <1>2, <1>3, <1>5, CallWrites
<1>6. CASE Edits!Opens(c, content)
  BY <1>3, <1>6, OpensStep
<1>. QED
  BY <1>1, <1>4, <1>5, <1>6

\* so every step of a file tool keeps the invariant.
LEMMA EditsStep ==
  ASSUME MaxFile \in Nat, EditsIInv, [Edits!Next]_editVars
  PROVE  EditsIInv'
<1>1. ASSUME NEW c \in Calls, Edits!OpensToEdit(c) PROVE EditsIInv'
  <2>1. call[c].tool = "edit" /\ Edits!Opens(c, call[c].content)
    BY <1>1 DEF Edits!OpensToEdit
  <2>2. call[c].content \in Edits!Texts
    BY <2>1, EditWellAnswers DEF EditsIInv, CallWell
  <2>. QED
    BY <2>1, <2>2, OpensStep
<1>2. ASSUME NEW c \in Calls, Edits!Returns(c) PROVE EditsIInv'
  <2>1. /\ call' = [call EXCEPT ![c] = Edits!Idle]
        /\ disturbed' = disturbed \ {c} /\ file' = file
    BY <1>2 DEF Edits!Returns, Edits!Goes
  <2>2. /\ call' = [d \in Calls |-> call'[d]] /\ call'[c] = Edits!Idle
        /\ \A d \in Calls : d # c => call'[d] = call[d]
    BY <2>1 DEF EditsIInv
  <2>3. \A f, alone : CallWell(Edits!Idle, f, alone)
    BY DEF CallWell, Edits!Idle
  <2>4. \A d \in Calls : CallWell(call'[d], file, d \notin disturbed')
    BY <2>1, <2>2, <2>3 DEF EditsIInv
  <2>. QED
    BY <2>1, <2>2, <2>4 DEF EditsIInv
<1>3. CASE UNCHANGED editVars
  BY <1>3 DEF editVars, EditsIInv
<1>. QED
  BY <1>1, <1>2, <1>3, ReadsTextStep, ReadsToEditStep, OpensToWriteStep, WritesStep DEF Edits!Next

(***************************************************************************)
(* The tools that work on files do what they were asked, for any files and *)
(* texts, any number of calls at a time, and any lines asked for of which  *)
(* the loop's end fits in a size_t: a read brings its lines and no others, *)
(* an edit replaces the occurrences from the left, what a call wrote and   *)
(* no other call disturbed is in the file, a search looks into every file  *)
(* that was there, and a listing keeps its limit (filesystem.h).           *)
(***************************************************************************)
THEOREM FilesAsAskedCorrect == ToolsSpec => []FilesAsAsked
<1>. DEFINE Inv == (part = "edits" => EditsIInv) /\ (part = "search" => SearchIInv)
<1>1. ToolsInit => Inv
  BY EditsInit, SearchInit, ToolsAssumption DEF ToolsInit
<1>2. Inv /\ [ToolsNext]_toolsVars => Inv'
  BY ToolsStep, EditsStep, SearchStep, ToolsAssumption
<1>3. Inv => FilesAsAsked
  BY EditsProperties, SearchProperties, ToolsAssumption DEF FilesAsAsked
<1>. QED
  BY <1>1, <1>2, <1>3, PTL DEF ToolsSpec

=============================================================================
