---------------------------- MODULE ModelRequest ----------------------------
(***************************************************************************)
(* A conversation held through AnthropicProvider without streaming         *)
(* (protocol/anthropic_provider.h): how its messages are put into a        *)
(* request, how the answer becomes a message of the conversation again,    *)
(* and what a refused request comes to.  Streams are in ModelStream, the   *)
(* node that retries in ModelCall.                                         *)
(***************************************************************************)
EXTENDS Integers, SequencesExt

CONSTANTS
  Texts,        \* what users, models, tools and system messages say
  MaxBlocks,    \* bound: blocks of an answer
  MaxMessages,  \* bound: messages of the conversation
  Streamed      \* whether arguments may come from a stream that was cut

VARIABLES
  conversation, \* the messages: [role, content, calls, call, thinking]
  request,      \* system and messages of the last request
  waiting,      \* whether it is unanswered
  said,         \* history: the blocks of each answer
  thrown        \* the last exception: "none", "failed", or of a rate limit its retryAfter

vars == <<conversation, request, waiting, said, thrown>>

Nothing == [system |-> <<>>, messages |-> <<>>]

Init ==
  /\ conversation = <<>> /\ request = Nothing /\ waiting = FALSE
  /\ said = <<>> /\ thrown = "none"

Message(role, content) ==
  [role |-> role, content |-> content, calls |-> <<>>, call |-> 0, thinking |-> <<>>]

(***************************************************************************)
(* The conversation (its other writers are in Conversation)                *)
(***************************************************************************)
Called == UNION {{c.id : c \in Range(conversation[i].calls)} : i \in DOMAIN conversation}
Answered == {conversation[i].call : i \in DOMAIN conversation}
Unanswered == Called \ Answered

\* Users and system messages come when no call is open, a tool answers the oldest that is.
Grows ==
  /\ ~waiting /\ Len(conversation) < MaxMessages
  /\ \/ /\ Unanswered = {}
        /\ \E role \in {"system", "user"}, t \in Texts :
             conversation' = Append(conversation, Message(role, <<t>>))
     \/ /\ Unanswered # {}
        /\ \E t \in Texts :
             conversation' = Append(conversation, [Message("tool", <<t>>) EXCEPT !.call = Min(Unanswered)])
  /\ UNCHANGED <<request, waiting, said, thrown>>

(***************************************************************************)
(* convertMessages, buildBody                                              *)
(***************************************************************************)
\* Slip: a message with calls is its calls.
TextLeftOut(m) == <<>>

TextBlock(m) == IF m.content = <<>> THEN <<>> ELSE <<[type |-> "text", text |-> m.content]>>

\* Arguments that are no JSON become an empty object.
Input(arguments) == IF arguments = "cut" THEN "{}" ELSE arguments

ToolUses(m) ==
  [i \in DOMAIN m.calls |->
     [type |-> "tool_use", id |-> m.calls[i].id, input |-> Input(m.calls[i].arguments)]]

Converted(m) ==
  CASE m.role = "tool" ->
         [role |-> "user", blocks |-> <<[type |-> "tool_result", id |-> m.call, text |-> m.content]>>]
    [] m.role = "assistant" /\ m.calls # <<>> ->
         [role |-> "assistant", blocks |-> TextBlock(m) \o ToolUses(m)]
    [] OTHER -> [role |-> m.role, blocks |-> <<[type |-> "text", text |-> m.content]>>]

convertMessages(messages) ==
  LET system(m) == IF m.role = "system" THEN <<m.content>> ELSE <<>>
      others(m) == IF m.role = "system" THEN <<>> ELSE <<Converted(m)>>
  IN  [system |-> FlattenSeq([i \in DOMAIN messages |-> system(messages[i])]),
       messages |-> FlattenSeq([i \in DOMAIN messages |-> others(messages[i])])]

\* With the last word not the model's, the request is sent.
Asks ==
  /\ ~waiting /\ Unanswered = {}
  /\ conversation # <<>> /\ Last(conversation).role # "assistant"
  /\ request' = convertMessages(conversation) /\ waiting' = TRUE /\ thrown' = "none"
  /\ UNCHANGED <<conversation, said>>

(***************************************************************************)
(* completeAsync, parseResponse                                            *)
(***************************************************************************)
OfType(blocks, type) ==
  FlattenSeq([i \in DOMAIN blocks |-> IF blocks[i].type = type THEN <<blocks[i]>> ELSE <<>>])
TextOf(blocks) == FlattenSeq([i \in DOMAIN blocks |-> blocks[i].text])

parseResponse(blocks) ==
  [role |-> "assistant", content |-> TextOf(OfType(blocks, "text")),
   calls |-> LET uses == OfType(blocks, "tool_use")
             IN  [i \in DOMAIN uses |-> [id |-> uses[i].id, arguments |-> uses[i].input]],
   call |-> 0, thinking |-> TextOf(OfType(blocks, "thinking"))]

\* The blocks of an answer (the server is external): ids of calls are new.
Blocks(id) ==
  [type : {"text", "thinking"}, text : {<<t>> : t \in Texts}]
    \union [type : {"tool_use"}, id : {id}, input : {"{x}"} \union IF Streamed THEN {"cut"} ELSE {}]

Id(i) == MaxBlocks * Len(said) + i

Answers ==
  /\ waiting
  /\ \E n \in 1..MaxBlocks :
       \E blocks \in {b \in [1..n -> UNION {Blocks(Id(i)) : i \in 1..n}] :
                        \A i \in 1..n : b[i] \in Blocks(Id(i))} :
         /\ said' = Append(said, blocks)
         /\ conversation' = Append(conversation, parseResponse(blocks))
  /\ waiting' = FALSE
  /\ UNCHANGED <<request, thrown>>

\* retry-after: the seconds, or -1 when there are none or they are no count.
retryAfter(raw) == IF raw \in Nat THEN raw ELSE -1

\* No answer in time, or one with another status than 200: the node that called may ask again.
Refused ==
  /\ waiting
  /\ \/ thrown' = "failed"
     \/ \E raw \in {-7, 0, 3} : thrown' = ToString(retryAfter(raw))
  /\ waiting' = FALSE
  /\ UNCHANGED <<conversation, request, said>>

Next == Grows \/ Asks \/ Answers \/ Refused
Spec == Init /\ [][Next]_vars

----------------------------------------------------------------------------
OfModel ==
  FlattenSeq([i \in DOMAIN request.messages |->
    IF request.messages[i].role = "assistant" THEN <<request.messages[i]>> ELSE <<>>])

\* The model finds in a request what it said itself, answer by answer: its text in front, then its
\* calls with their ids and arguments, in the order it made them (anthropic_provider.h:88-199).
SaidAgain ==
  waiting =>
    /\ Len(OfModel) = Len(said)
    /\ \A i \in DOMAIN said :
         /\ OfType(OfModel[i].blocks, "tool_use") = OfType(said[i], "tool_use")
         /\ TextOf(OfType(OfModel[i].blocks, "text")) = TextOf(OfType(said[i], "text"))
         /\ \A j \in DOMAIN OfModel[i].blocks :
              OfModel[i].blocks[j].type = "text" => j = 1

\* Between a call and the next answer of the model is the call's result, and only that of a call
\* the model made; and no message is lost on the way (anthropic_provider.h:101-114).
CallsAnswered ==
  waiting =>
    /\ Len(request.system) + Len(request.messages) = Len(conversation)
    /\ \A i \in DOMAIN request.messages :
         LET ids(type, j) == {b.id : b \in Range(OfType(request.messages[j].blocks, type))}
             next == {j \in DOMAIN request.messages : j > i /\ request.messages[j].role = "assistant"}
             last == IF next = {} THEN Len(request.messages) ELSE Min(next) - 1
         IN  request.messages[i].role = "assistant" =>
               ids("tool_use", i) = UNION {ids("tool_result", j) : j \in i + 1 .. last}

\* (Does not hold.)  What the model thought goes back with the rest: convertMessages has no branch
\* for it, and a turn of thinking alone becomes an empty message.
ThoughtsAgain ==
  waiting => \A i \in DOMAIN OfModel : TextOf(OfModel[i].blocks) # <<>> \/ OfModel[i].blocks[1].type = "tool_use"

\* (Does not hold with Streamed.)  A call whose arguments were cut off is shown as it was made: it
\* goes back as one without arguments (anthropic_provider.h:127-131).
CutCallsAgain ==
  waiting => \A i \in DOMAIN said : OfType(OfModel[i].blocks, "tool_use") = OfType(said[i], "tool_use")
=============================================================================
