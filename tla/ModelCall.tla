------------------------------ MODULE ModelCall -------------------------------
(***************************************************************************)
(* The llm node of nodes/modelcall.h over the turns of a conversation: the *)
(* system message it builds from graphData, the repair of the message      *)
(* order, the call with its streamed tokens, the retries, and what each    *)
(* failure leaves in the messages.                                         *)
(*                                                                         *)
(* `messages' is the conversation without its system message, of which     *)
(* `system' tells how many copies of the middlewares' prompt it holds.     *)
(* Streamed content counts as 0 (none), 1 (less than 512 bytes) or 2.      *)
(***************************************************************************)
EXTENDS Naturals, Sequences

CONSTANTS
  MaxTurns,     \* bound: turns
  MaxNodeRuns,  \* bound: runs of the node in a turn
  MaxRetry      \* agentConfig llmMaxRetry

ASSUME BoundsAssumption == MaxTurns \in Nat /\ MaxNodeRuns \in Nat /\ MaxRetry \in Nat

Msg(role, content) == <<[role |-> role, content |-> content]>>
Long == 2

VARIABLES
  turn,        \* turns begun
  inTurn,      \* a turn is under way
  nodeRuns,    \* runs of the node in it
  pc,          \* the node: "idle", "loop", "calling", "waiting"
  messages,
  system,
  systemList,  \* graphData systemMessage: how many prompts were appended
  temp,        \* graphData tempLLMMessage
  retry,
  attempts,    \* history: calls of the provider in this run of the node
  streamed     \* history: the content that this attempt streamed

vars == <<turn, inTurn, nodeRuns, pc, messages, system, systemList, temp, retry,
          attempts, streamed>>

Init ==
  /\ turn = 0
  /\ inTurn = FALSE
  /\ nodeRuns = 0
  /\ pc = "idle"
  /\ messages = <<>>
  /\ system = 0
  /\ systemList = 0
  /\ temp = 0
  /\ retry = 0
  /\ attempts = 0
  /\ streamed = 0

-----------------------------------------------------------------------------
(***************************************************************************)
(* A turn begins with the user's input; agent_start empties graphData.     *)
(***************************************************************************)
BeginTurn ==
  /\ ~inTurn
  /\ turn < MaxTurns
  /\ turn' = turn + 1
  /\ inTurn' = TRUE
  /\ nodeRuns' = 0
  /\ messages' = messages \o Msg("user", "input")
  /\ systemList' = 0
  /\ temp' = 0
  /\ UNCHANGED <<pc, system, retry, attempts, streamed>>

(***************************************************************************)
(* The node runs: the start hooks append their prompts (planning.h,        *)
(* skill.h), and baseRun writes them into the system message.              *)
(***************************************************************************)
Enter ==
  /\ inTurn /\ pc = "idle"
  /\ nodeRuns < MaxNodeRuns
  /\ nodeRuns' = nodeRuns + 1
  /\ systemList' = systemList + 1
  /\ system' = systemList'
  /\ retry' = 0
  /\ attempts' = 0
  /\ pc' = "loop"
  /\ UNCHANGED <<turn, inTurn, messages, temp, streamed>>

(***************************************************************************)
(* A failure that is not a cancellation becomes an assistant message       *)
(* without tool calls, so the turn ends with it.                           *)
(***************************************************************************)
EndWithError(ms) ==
  /\ messages' = ms \o Msg("assistant", "error")
  /\ inTurn' = FALSE
  /\ pc' = "idle"

StartHookFails ==
  /\ inTurn /\ pc = "idle"
  /\ nodeRuns < MaxNodeRuns
  /\ nodeRuns' = nodeRuns + 1
  /\ EndWithError(messages)
  /\ UNCHANGED <<turn, system, systemList, temp, retry, attempts, streamed>>

(***************************************************************************)
(* The top of the retry loop: the streamed content of the last attempt is  *)
(* dropped, the messages are repaired, and the onModelcallRun hooks run,   *)
(* outside the try block.                                                  *)
(***************************************************************************)
LastIsAssistant == messages # <<>> /\ messages[Len(messages)].role = "assistant"

\* Slip: the messages are repaired before the loop.
RepairedOnce ==
  IF LastIsAssistant /\ retry = 0 THEN messages \o Msg("user", "continue") ELSE messages
Repaired ==
  IF LastIsAssistant THEN messages \o Msg("user", "continue") ELSE messages

TempCleared == 0

CallModel ==
  /\ pc = "loop"
  /\ temp' = TempCleared
  /\ messages' = Repaired
  /\ attempts' = attempts + 1
  /\ streamed' = 0
  /\ pc' = "calling"
  /\ UNCHANGED <<turn, inTurn, nodeRuns, system, systemList, retry>>

RunHookFails ==
  /\ pc = "loop"
  /\ temp' = TempCleared
  /\ EndWithError(Repaired)
  /\ UNCHANGED <<turn, nodeRuns, system, systemList, retry, attempts, streamed>>

Token ==
  /\ pc = "calling"
  /\ temp < Long
  /\ temp' = temp + 1
  /\ streamed' = streamed + 1
  /\ UNCHANGED <<turn, inTurn, nodeRuns, pc, messages, system, systemList, retry, attempts>>

(***************************************************************************)
(* The call returns a reply; if it has tool calls the tools node answers   *)
(* them and the llm node runs again.                                       *)
(***************************************************************************)
CallReturns(callsTools) ==
  /\ pc = "calling"
  /\ messages' = messages \o Msg("assistant", "reply")
                          \o (IF callsTools THEN Msg("tool", "result") ELSE <<>>)
  /\ inTurn' = callsTools
  /\ pc' = "idle"
  /\ UNCHANGED <<turn, nodeRuns, system, systemList, temp, retry, attempts, streamed>>

(***************************************************************************)
(* The call fails: from 512 bytes on, an assistant message takes the place *)
(* of the streamed content.  Then the node waits and tries again, or the   *)
(* exception leaves baseRun.                                               *)
(***************************************************************************)
Placeholder == IF temp = Long THEN Msg("assistant", "aborted") ELSE <<>>

\* Slip: the attempts are counted from one.
RetriesLeftFromOne == retry + 1 < MaxRetry
RetriesLeft == retry < MaxRetry

Retry ==
  /\ pc = "calling"
  /\ RetriesLeft
  /\ messages' = messages \o Placeholder
  /\ retry' = retry + 1
  /\ pc' = "waiting"
  /\ UNCHANGED <<turn, inTurn, nodeRuns, system, systemList, temp, attempts, streamed>>

GiveUp ==
  /\ pc = "calling"
  /\ ~RetriesLeft
  /\ EndWithError(messages \o Placeholder)
  /\ UNCHANGED <<turn, nodeRuns, system, systemList, temp, retry, attempts, streamed>>

(***************************************************************************)
(* A cancellation leaves the graph, and the turn has no messages to hand   *)
(* back to its caller (deepagent.h).                                       *)
(***************************************************************************)
Cancelled ==
  /\ pc = "calling"
  /\ messages' = <<>>
  /\ system' = 0
  /\ inTurn' = FALSE
  /\ pc' = "idle"
  /\ UNCHANGED <<turn, nodeRuns, systemList, temp, retry, attempts, streamed>>

\* Slip: the timer is set before the loop only.
TimerFiresOnce ==
  /\ pc = "waiting"
  /\ retry = 1
  /\ pc' = "loop"
  /\ UNCHANGED <<turn, inTurn, nodeRuns, messages, system, systemList, temp, retry, attempts,
                 streamed>>

TimerFires ==
  /\ pc = "waiting"
  /\ pc' = "loop"
  /\ UNCHANGED <<turn, inTurn, nodeRuns, messages, system, systemList, temp, retry, attempts,
                 streamed>>

Next ==
  \/ BeginTurn
  \/ Enter
  \/ StartHookFails
  \/ CallModel
  \/ RunHookFails
  \/ Token
  \/ \E callsTools \in BOOLEAN : CallReturns(callsTools)
  \/ Retry
  \/ GiveUp
  \/ Cancelled
  \/ TimerFires

(***************************************************************************)
(* A run of the node goes on: the provider answers or fails (its HTTP      *)
(* client has a time-out), and timers fire.                                *)
(***************************************************************************)
Fairness == WF_vars(pc # "idle" /\ Next)

Spec == Init /\ [][Next]_vars /\ Fairness
-----------------------------------------------------------------------------
Roles    == {"user", "assistant", "tool"}
Contents == {"input", "continue", "reply", "aborted", "error", "result"}

(***************************************************************************)
(* Every variable keeps its type.                                          *)
(***************************************************************************)
TypeOK ==
  /\ turn \in 0 .. MaxTurns
  /\ inTurn \in BOOLEAN
  /\ nodeRuns \in 0 .. MaxNodeRuns
  /\ pc \in {"idle", "loop", "calling", "waiting"}
  /\ messages \in Seq([role : Roles, content : Contents])
  /\ system \in 0 .. MaxNodeRuns
  /\ systemList \in 0 .. MaxNodeRuns
  /\ temp \in 0 .. Long
  /\ retry \in 0 .. MaxRetry
  /\ attempts \in 0 .. MaxRetry + 1
  /\ streamed \in 0 .. Long

(***************************************************************************)
(* The model is never called with an assistant message at the end of the   *)
(* conversation, not even after an attempt that left one there.            *)
(***************************************************************************)
ModelHasTheTurn == pc = "calling" => ~LastIsAssistant

(***************************************************************************)
(* An aborted reply is only written for an attempt that has itself         *)
(* streamed 512 bytes: content of an earlier attempt, run or turn does not *)
(* count again.                                                            *)
(***************************************************************************)
Aborted(s) == {k \in 1 .. Len(s) : s[k].content = "aborted"}

AbortedOnlyIfLong ==
  [][Aborted(messages') \ Aborted(messages) # {} => streamed = Long]_vars

(***************************************************************************)
(* A failing provider is called exactly llmMaxRetry + 1 times before the   *)
(* node gives up; an error of the provider ends no turn sooner.            *)
(***************************************************************************)
EveryRetryUsed ==
  [][pc = "calling" /\ ~inTurn' /\ messages' # <<>> /\ messages'[Len(messages')].content = "error"
       => attempts = MaxRetry + 1]_vars

(***************************************************************************)
(* A run of the node ends, whatever the provider does.                     *)
(***************************************************************************)
NodeEnds == (pc # "idle") ~> (pc = "idle")

-----------------------------------------------------------------------------
(***************************************************************************)
(* README.md: an exception of the llm node adds a message to the context   *)
(* and keeps the order of the roles right, so no assistant message follows *)
(* another.                                                                *)
(* (Does not hold.)                                                        *)
(***************************************************************************)
RolesAlternate ==
  \A k \in 1 .. Len(messages) - 1 :
    ~(messages[k].role = "assistant" /\ messages[k + 1].role = "assistant")

(***************************************************************************)
(* The comment in the retry loop: content that was received is kept, not   *)
(* dropped.                                                                *)
(* (Does not hold.)                                                        *)
(***************************************************************************)
PartialKept ==
  [][pc = "calling" /\ temp = Long /\ pc' = "waiting"
       => messages'[Len(messages')].content = "reply"]_vars

(***************************************************************************)
(* baseRun empties the old content of the system message before it builds  *)
(* the new one: every call of a turn is made with the same system message. *)
(* (Does not hold.)                                                        *)
(***************************************************************************)
SystemMessageStable == pc = "calling" => system = 1
=============================================================================
