---------------------------- MODULE Conversation -----------------------------
(***************************************************************************)
(* One conversation thread: the turns of runConversationTurnAsync          *)
(* (agent/deepagent.h), the llm and tools nodes of the graph they run, and *)
(* the interrupts by which a tool call pauses the graph to ask a subagent  *)
(* or the user (middlewares/middleware.h requestInterrupt, tools/          *)
(* sub_agent.h, nodes/toolcall.h).                                         *)
(*                                                                         *)
(* The graph engine is not part of the repository.  It is used like this:  *)
(* run_stream_async runs agent_start, llm, tools, llm, ..., agent_end; a   *)
(* NodeInterrupt stops it in the node that threw; resume_async runs that   *)
(* node again; any other exception leaves run_stream_async.                *)
(***************************************************************************)
EXTENDS Naturals, Sequences, FiniteSets

CONSTANTS
  MaxTurns,        \* bound: user inputs
  MaxModelCalls,   \* bound: model calls that may request tools, in a turn
  MaxCalls,        \* bound: tool calls in a behaviour
  MaxBatch,        \* bound: tool calls in one assistant message
  MaxThrows,       \* bound: exceptions of the engine
  MaxFreed         \* bound: reads of the freed interruptResult that miss it

ASSUME BoundsAssumption ==
  \A b \in {MaxTurns, MaxModelCalls, MaxCalls, MaxBatch, MaxThrows, MaxFreed} : b \in Nat

Calls == 1 .. MaxCalls
Kinds == {"plain", "ask"}   \* a tool that just runs, a tool that interrupts

User            == [role |-> "user", calls |-> <<>>, id |-> 0]
Assistant(cs)   == [role |-> "assistant", calls |-> cs, id |-> 0]
ToolReply(c)    == [role |-> "tool", calls |-> <<>>, id |-> c]
Last(s)         == s[Len(s)]
Elements(s)     == {s[k] : k \in 1 .. Len(s)}

VARIABLES
  kind,        \* which kind of tool each call is for
  pc,          \* "idle", "model", "tools", "asking"
  turn,        \* turns begun
  modelCalls,  \* model calls of this turn
  nextCall,    \* the next unused tool_call_id
  kept,        \* the caller's messages between turns
  messages,    \* the graph's messages channel
  todo,        \* calls the tools node has not come to in this pass
  done,        \* calls it has a result for in this pass
  args,        \* graphData interruptArgs
  result,      \* graphData interruptResult: <<>> is null, <<S>> holds the answers to S
  cache,       \* graphData interruptToolcallCache: the calls it has a result for
  queue,       \* interruptArgs the turn has still to put to somebody
  values,      \* resumeValues: the calls they were answered for
  runs,        \* history: how often each plain call was executed
  asked,       \* history: the calls put to somebody, in order
  answered,    \* history: the calls that were answered
  reply,       \* history: what the reply to each call holds
  rounds,      \* history: interrupts since the last model call
  abandoned,   \* history: calls of a batch that was given up or whose node failed
  throws, freed

turnVars == <<kind, turn, nextCall, kept>>
graphData == <<args, result, cache>>
askVars == <<queue, values>>
history == <<runs, asked, answered, reply, rounds, abandoned>>
bounds == <<throws, freed>>
vars == <<turnVars, pc, modelCalls, messages, todo, done, graphData, askVars, history, bounds>>

Init ==
  /\ kind \in [Calls -> Kinds]
  /\ pc = "idle"
  /\ turn = 0 /\ modelCalls = 0 /\ nextCall = 1
  /\ kept = <<>> /\ messages = <<>>
  /\ todo = <<>> /\ done = {}
  /\ args = <<>> /\ result = <<>> /\ cache = {}
  /\ queue = <<>> /\ values = {}
  /\ runs = [c \in Calls |-> 0]
  /\ asked = <<>>
  /\ answered = {}
  /\ reply = [c \in Calls |-> "none"]
  /\ rounds = 0
  /\ abandoned = {}
  /\ throws = 0 /\ freed = 0

-----------------------------------------------------------------------------
(***************************************************************************)
(* A turn begins: the user's input is appended to the caller's messages,   *)
(* the graph runs from its start, and agent_start empties graphData.       *)
(***************************************************************************)
ClearGraphData ==
  /\ args' = <<>>
  /\ result' = <<>>
  /\ cache' = {}

BeginTurn ==
  /\ pc = "idle"
  /\ turn < MaxTurns
  /\ turn' = turn + 1
  /\ messages' = Append(kept, User)
  /\ ClearGraphData
  /\ modelCalls' = 0
  /\ pc' = "model"
  /\ UNCHANGED <<kind, nextCall, kept, todo, done, askVars, history, bounds>>

(***************************************************************************)
(* repairMessages looks at the last message only: after an assistant one   *)
(* it appends a user message.                                              *)
(***************************************************************************)
Repaired == IF Last(messages).role = "assistant" THEN Append(messages, User) ELSE messages

Batch(n) == [k \in 1 .. n |-> nextCall + k - 1]

(***************************************************************************)
(* The tools node starts a pass: it takes the cache out of graphData and   *)
(* goes through the calls of the last assistant message that has any.      *)
(***************************************************************************)
ModelCallsTools(n) ==
  /\ pc = "model"
  /\ modelCalls < MaxModelCalls
  /\ nextCall + n - 1 <= MaxCalls
  /\ modelCalls' = modelCalls + 1
  /\ nextCall' = nextCall + n
  /\ messages' = Append(Repaired, Assistant(Batch(n)))
  /\ todo' = Batch(n)
  /\ done' = {}
  /\ rounds' = 0
  /\ pc' = "tools"
  /\ UNCHANGED <<kind, turn, kept, graphData, askVars, runs, asked, answered, reply,
                 abandoned, bounds>>

(***************************************************************************)
(* The model answers, or fails and the node writes an assistant message in *)
(* its place; agent_end empties graphData and the turn returns the         *)
(* messages to the caller.                                                 *)
(***************************************************************************)
ModelAnswers ==
  /\ pc = "model"
  /\ messages' = Append(Repaired, Assistant(<<>>))
  /\ kept' = messages'
  /\ ClearGraphData
  /\ pc' = "idle"
  /\ UNCHANGED <<kind, turn, modelCalls, nextCall, todo, done, askVars, history, bounds>>

(***************************************************************************)
(* An exception reaches the turn, from the engine or from an answer that   *)
(* cannot be parsed: the turn ends without messages, and runCliAsync takes *)
(* them over as they are.                                                  *)
(***************************************************************************)
EngineThrows ==
  /\ pc \in {"model", "tools", "asking"}
  /\ throws < MaxThrows
  /\ throws' = throws + 1
  /\ kept' = <<>>
  /\ pc' = "idle"
  /\ UNCHANGED <<kind, turn, modelCalls, nextCall, messages, todo, done, graphData,
                 askVars, history, freed>>

-----------------------------------------------------------------------------
(***************************************************************************)
(* The tools node awaits its calls one after another, in order.            *)
(***************************************************************************)
Call == Head(todo)

ToolTurn == pc = "tools" /\ todo # <<>>

Finished(how) ==
  /\ todo' = Tail(todo)
  /\ done' = done \cup {Call}
  /\ reply' = [reply EXCEPT ![Call] = how]

FromCache == Call \in cache

ReuseCached ==
  /\ ToolTurn
  /\ FromCache
  /\ Finished(reply[Call])
  /\ UNCHANGED <<turnVars, pc, modelCalls, messages, graphData, askVars, runs, asked,
                 answered, rounds, abandoned, bounds>>

(***************************************************************************)
(* An ordinary tool runs; what it returns or throws becomes the reply.     *)
(***************************************************************************)
RunPlain ==
  /\ ToolTurn
  /\ ~FromCache
  /\ kind[Call] = "plain"
  /\ Finished("own")
  /\ runs' = [runs EXCEPT ![Call] = @ + 1]
  /\ UNCHANGED <<turnVars, pc, modelCalls, messages, graphData, askVars, asked, answered,
                 rounds, abandoned, bounds>>

(***************************************************************************)
(* requestInterrupt with a result: the whole map is handed to the first    *)
(* tool that asks and removed.  The tool picks its own entry, and without  *)
(* one returns the map as it is.                                           *)
(***************************************************************************)
TakeResult ==
  /\ ToolTurn
  /\ ~FromCache
  /\ kind[Call] = "ask"
  /\ result # <<>>
  /\ Finished(IF Call \in result[1] THEN "own" ELSE "foreign")
  /\ result' = <<>>
  /\ UNCHANGED <<turnVars, pc, modelCalls, messages, args, cache, askVars, runs, asked,
                 answered, rounds, abandoned, bounds>>

(***************************************************************************)
(* requestInterrupt without one: the argument is appended to interruptArgs *)
(* and the call interrupts.  The reference to interruptResult is read      *)
(* after the entry was erased, so the read may miss a result that was      *)
(* there.                                                                  *)
(***************************************************************************)
Interrupt ==
  /\ ToolTurn
  /\ ~FromCache
  /\ kind[Call] = "ask"
  /\ \/ result = <<>> /\ UNCHANGED freed
     \/ result # <<>> /\ freed < MaxFreed /\ freed' = freed + 1
  /\ result' = <<>>
  /\ args' = Append(args, Call)
  /\ todo' = Tail(todo)
  /\ UNCHANGED <<turnVars, pc, modelCalls, messages, done, cache, askVars, history, throws>>

(***************************************************************************)
(* The pass is over and no call interrupted: the replies are written.      *)
(***************************************************************************)
LastCalls == LET k == CHOOSE m \in 1 .. Len(messages) :
                        /\ messages[m].calls # <<>>
                        /\ \A j \in m + 1 .. Len(messages) : messages[j].calls = <<>>
             IN messages[k].calls

\* Slip: the results taken from the cache are not written again.
RepliesOfThisPass ==
  LET executed == SelectSeq(LastCalls, LAMBDA c : c \notin cache)
  IN [k \in 1 .. Len(executed) |-> ToolReply(executed[k])]

\* Slip: the replies are numbered by their place in the batch.
RepliesByPlace == [k \in 1 .. Len(LastCalls) |-> ToolReply(k)]

Replies == [k \in 1 .. Len(LastCalls) |-> ToolReply(LastCalls[k])]

ToolsReturn ==
  /\ pc = "tools" /\ todo = <<>>
  /\ done = Elements(LastCalls)
  /\ messages' = messages \o Replies
  /\ cache' = {}
  /\ pc' = "model"
  /\ UNCHANGED <<turnVars, modelCalls, todo, done, args, result, askVars, history, bounds>>

(***************************************************************************)
(* Some call interrupted: the other results are cached, the graph stops,   *)
(* and the turn collects interruptArgs, all of them.                       *)
(***************************************************************************)
\* Slip: the cache only keeps what this pass executed itself.
CachedFromThisPass == done \ cache
Cached == done

ToolsInterrupt ==
  /\ pc = "tools" /\ todo = <<>>
  /\ done # Elements(LastCalls)
  /\ cache' = Cached
  /\ queue' = args
  /\ values' = {}
  /\ rounds' = rounds + 1
  /\ pc' = "asking"
  /\ UNCHANGED <<turnVars, modelCalls, messages, todo, done, args, result, runs, asked,
                 answered, reply, abandoned, bounds>>

(***************************************************************************)
(* The tools node fails, in a start hook before baseRun has taken the      *)
(* cache, or in baseRun: one tool message without a tool_call_id is        *)
(* written, and the results the pass has so far are dropped.               *)
(***************************************************************************)
ToolsNodeFails ==
  /\ pc = "tools"
  /\ throws < MaxThrows
  /\ throws' = throws + 1
  /\ messages' = Append(messages, ToolReply(0))
  /\ cache' \in {{}, IF todo = LastCalls THEN cache ELSE {}}
  /\ abandoned' = abandoned \cup Elements(LastCalls)
  /\ pc' = "model"
  /\ UNCHANGED <<turnVars, modelCalls, todo, done, args, result, askVars, runs, asked,
                 answered, reply, rounds, freed>>

-----------------------------------------------------------------------------
(***************************************************************************)
(* The turn puts the next argument to the subagent supervisor or the       *)
(* interrupt handler and waits for the answer or for the time-out.         *)
(***************************************************************************)
ValueOf(isAnswered) == IF isAnswered THEN {Head(queue)} ELSE {}

Ask(isAnswered) ==
  /\ pc = "asking"
  /\ queue # <<>>
  /\ queue' = Tail(queue)
  /\ asked' = Append(asked, Head(queue))
  /\ values' = values \cup ValueOf(isAnswered)
  /\ answered' = IF isAnswered THEN answered \cup {Head(queue)} ELSE answered
  /\ UNCHANGED <<turnVars, pc, modelCalls, messages, todo, done, graphData, runs, reply,
                 rounds, abandoned, bounds>>

(***************************************************************************)
(* With any answer the graph is resumed: the tools node runs again.        *)
(***************************************************************************)
\* Slip: the graph is only resumed with an answer to every question.
AllAnswered == values # {} /\ values = Elements(args)
AnyAnswered == values # {}

Resume ==
  /\ pc = "asking"
  /\ queue = <<>>
  /\ AnyAnswered
  /\ result' = <<values>>
  /\ todo' = LastCalls
  /\ done' = {}
  /\ pc' = "tools"
  /\ UNCHANGED <<turnVars, modelCalls, messages, args, cache, askVars, history, bounds>>

(***************************************************************************)
(* Without any the turn ends; the graph stays where it is.                 *)
(***************************************************************************)
GiveUp ==
  /\ pc = "asking"
  /\ queue = <<>>
  /\ values = {}
  /\ kept' = messages
  /\ abandoned' = abandoned \cup Elements(LastCalls)
  /\ pc' = "idle"
  /\ UNCHANGED <<kind, turn, modelCalls, nextCall, messages, todo, done, graphData,
                 askVars, runs, asked, answered, reply, rounds, bounds>>

Next ==
  \/ BeginTurn
  \/ \E n \in 1 .. MaxBatch : ModelCallsTools(n)
  \/ ModelAnswers
  \/ EngineThrows
  \/ ReuseCached
  \/ RunPlain
  \/ TakeResult
  \/ Interrupt
  \/ ToolsReturn
  \/ ToolsInterrupt
  \/ ToolsNodeFails
  \/ \E isAnswered \in BOOLEAN : Ask(isAnswered)
  \/ Resume
  \/ GiveUp

(***************************************************************************)
(* A begun turn is never left alone: the model, the tools and, by their    *)
(* time-outs, the questions come back.  Only the user may stay silent.     *)
(***************************************************************************)
Fairness == WF_vars(pc # "idle" /\ Next)

Spec == Init /\ [][Next]_vars /\ Fairness
-----------------------------------------------------------------------------
(***************************************************************************)
(* Every variable keeps its type.                                          *)
(***************************************************************************)
TypeOK ==
  /\ kind \in [Calls -> Kinds]
  /\ pc \in {"idle", "model", "tools", "asking"}
  /\ turn \in 0 .. MaxTurns
  /\ modelCalls \in 0 .. MaxModelCalls
  /\ nextCall \in 1 .. MaxCalls + 1
  /\ \A s \in {kept, messages} : \A m \in Elements(s) :
        m.role \in {"user", "assistant", "tool"} /\ m.calls \in Seq(Calls)
                                                 /\ m.id \in Calls \cup {0}
  /\ todo \in Seq(Calls)
  /\ done \in SUBSET Calls
  /\ args \in Seq(Calls)
  /\ result = <<>> \/ (Len(result) = 1 /\ result[1] \in SUBSET Calls)
  /\ cache \in SUBSET Calls
  /\ queue \in Seq(Calls)
  /\ values \in SUBSET Calls
  /\ reply \in [Calls -> {"none", "own", "foreign"}]
  /\ abandoned \in SUBSET Calls

(***************************************************************************)
(* However often its batch is interrupted and resumed, a tool call that    *)
(* has completed is not executed again (README.md: interrupt and resume    *)
(* "does not repeat a toolcall that completed").                           *)
(***************************************************************************)
NoRerun == \A c \in Calls : runs[c] <= 1

(***************************************************************************)
(* A reply stands in the conversation once, and directly behind the        *)
(* assistant message that asked for it, with only other replies between.   *)
(***************************************************************************)
RepliesFollowTheirCall ==
  \A k \in 1 .. Len(messages) : messages[k].id # 0 =>
    \E j \in 1 .. k - 1 :
      /\ messages[k].id \in Elements(messages[j].calls)
      /\ \A m \in j + 1 .. k - 1 : messages[m].role = "tool" /\ messages[m].id # messages[k].id

(***************************************************************************)
(* A conversation is only ever left with unanswered calls when their batch *)
(* was given up or its tools node failed: no sequence of interrupts,       *)
(* partial answers and resumptions loses a reply otherwise.                *)
(***************************************************************************)
Unanswered(s) == (UNION {Elements(m.calls) : m \in Elements(s)}) \ {m.id : m \in Elements(s)}

OnlyAbandonedUnanswered ==
  /\ pc = "model" => Unanswered(messages) \subseteq abandoned
  /\ pc = "idle" => Unanswered(kept) \subseteq abandoned

(***************************************************************************)
(* A batch interrupts at most as often as it has calls that ask (counting  *)
(* a missed read of the freed interruptResult as one more): every          *)
(* resumption settles at least one call.                                   *)
(***************************************************************************)
RoundsBounded ==
  pc \in {"tools", "asking"} =>
    rounds <= Cardinality({c \in Elements(LastCalls) : kind[c] = "ask"}) + freed

(***************************************************************************)
(* A turn that has begun ends.                                             *)
(***************************************************************************)
TurnEnds == (pc # "idle") ~> (pc = "idle")

-----------------------------------------------------------------------------
(***************************************************************************)
(* README.md promises several interrupts of one batch and repeated rounds  *)
(* of interrupt and answer; so a question that was answered is not put     *)
(* again.  (interruptArgs is only emptied with the whole of graphData.)    *)
(* (Does not hold.)                                                        *)
(***************************************************************************)
AnsweredNotAskedAgain ==
  [][asked' # asked => Last(asked') \notin answered]_vars

(***************************************************************************)
(* sub_agent.h: the result is a map and the tool extracts its own entry.   *)
(* (Does not hold.)                                                        *)
(***************************************************************************)
OwnAnswer == \A c \in Calls : reply[c] # "foreign"

(***************************************************************************)
(* README.md: at the start of a round the message context is checked and   *)
(* repaired, so the model never sees a call without its reply.             *)
(* (Does not hold.)                                                        *)
(***************************************************************************)
ModelSeesReplies == pc = "model" => Unanswered(messages) = {}

(***************************************************************************)
(* README.md: an exception keeps the content of the context complete, so   *)
(* what the caller had of the conversation before a turn is still there    *)
(* after it.                                                               *)
(* (Does not hold.)                                                        *)
(***************************************************************************)
ConversationKept ==
  [][/\ Len(kept) <= Len(kept')
     /\ \A k \in 1 .. Len(kept) : kept'[k] = kept[k]]_kept

(***************************************************************************)
(* requestInterrupt is documented to look for an existing result first: a  *)
(* result that is there is never passed over.                              *)
(* (Does not hold.)                                                        *)
(***************************************************************************)
ResultNotMissed ==
  [][pc = "tools" /\ pc' = "tools" /\ result # <<>> /\ result' = <<>> => args' = args]_vars
=============================================================================
