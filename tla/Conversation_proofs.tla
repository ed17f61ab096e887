-------------------------- MODULE Conversation_proofs --------------------------
(***************************************************************************)
(* Proofs about Conversation for any number of turns, calls and failures:  *)
(* the types, that a call that has completed is not executed again, that   *)
(* replies stand behind their calls, and that no reply is lost unless its  *)
(* batch was given up.                                                     *)
(***************************************************************************)
EXTENDS Conversation, SequenceTheorems, TLAPS

Roles   == {"user", "assistant", "tool"}
Message == [role : Roles, calls : Seq(Calls), id : Calls \cup {0}]

(***************************************************************************)
(* The types, with those of the histories that TypeOK leaves out.          *)
(***************************************************************************)
TurnTypes ==
  /\ kind \in [Calls -> Kinds]
  /\ pc \in {"idle", "model", "tools", "asking"}
  /\ turn \in 0 .. MaxTurns
  /\ modelCalls \in 0 .. MaxModelCalls
  /\ nextCall \in 1 .. MaxCalls + 1
  /\ kept \in Seq(Message) /\ messages \in Seq(Message)

PassTypes ==
  /\ todo \in Seq(Calls) /\ done \in SUBSET Calls
  /\ args \in Seq(Calls) /\ queue \in Seq(Calls)
  /\ result = <<>> \/ (Len(result) = 1 /\ result[1] \in SUBSET Calls)
  /\ cache \in SUBSET Calls /\ values \in SUBSET Calls
  /\ reply \in [Calls -> {"none", "own", "foreign"}]
  /\ abandoned \in SUBSET Calls
  /\ runs \in [Calls -> Nat]

(***************************************************************************)
(* Calls are numbered as they are made, so a batch, and what is left of it *)
(* to do, are the last numbers given.  While its tools run or are asked    *)
(* about, the batch is the last message.                                   *)
(***************************************************************************)
Latest(s) ==
  /\ Len(s) < nextCall
  /\ \A k \in 1 .. Len(s) : s[k] = nextCall - Len(s) + k - 1

LastBatch == Last(messages).calls

InBatch == pc \in {"tools", "asking"}

BatchLast ==
  InBatch => messages # <<>> /\ LastBatch # <<>> /\ Latest(LastBatch)

(***************************************************************************)
(* Executed: a call runs once at most, and not before it is made.  Passed: *)
(* in a pass, plain calls behind it have their result, and those before it *)
(* that are not cached have not run.  Paused: when a batch is paused its   *)
(* plain calls are cached.                                                 *)
(***************************************************************************)
Executed ==
  \A c \in Calls : runs[c] <= 1 /\ (c >= nextCall => runs[c] = 0)

Passed ==
  pc = "tools" =>
    /\ Latest(todo) /\ Len(todo) <= Len(LastBatch)
    /\ \A c \in Calls : kind[c] = "plain" =>
         /\ nextCall - Len(LastBatch) <= c /\ c < nextCall - Len(todo) => c \in done
         /\ nextCall - Len(todo) <= c /\ c < nextCall /\ c \notin cache => runs[c] = 0

Paused ==
  pc = "asking" =>
    \A c \in Calls :
      kind[c] = "plain" /\ nextCall - Len(LastBatch) <= c /\ c < nextCall => c \in cache

(***************************************************************************)
(* Replies stand behind their calls, in what the caller keeps too; and     *)
(* what is unanswered was abandoned or is the batch at work.               *)
(***************************************************************************)
Follows(s) ==
  \A k \in 1 .. Len(s) : s[k].id # 0 =>
    \E j \in 1 .. k - 1 :
      /\ s[k].id \in Elements(s[j].calls)
      /\ \A m \in j + 1 .. k - 1 : s[m].role = "tool" /\ s[m].id # s[k].id

Unsettled ==
  /\ pc = "model" => Unanswered(messages) \subseteq abandoned
  /\ pc = "idle" => Unanswered(kept) \subseteq abandoned
  /\ InBatch => Unanswered(messages) \subseteq abandoned \cup Elements(LastBatch)

IInv ==
  /\ TurnTypes /\ PassTypes
  /\ BatchLast /\ Executed /\ Passed /\ Paused
  /\ Follows(kept) /\ Follows(messages) /\ Unsettled

-----------------------------------------------------------------------------
(***************************************************************************)
(* The messages there are.                                                 *)
(***************************************************************************)
LEMMA MessageTypes ==
  /\ User \in Message
  /\ \A cs \in Seq(Calls) : Assistant(cs) \in Message
  /\ \A c \in Calls \cup {0} : ToolReply(c) \in Message
<1>1. <<>> \in Seq(Calls)
  OBVIOUS
<1>. QED
  BY <1>1 DEF User, Assistant, ToolReply, Message, Roles

(***************************************************************************)
(* A message without an id at the end changes nothing about the replies    *)
(* before it.                                                              *)
(***************************************************************************)
LEMMA AppendFollows ==
  ASSUME NEW s \in Seq(Message), NEW m \in Message, m.id = 0, Follows(s)
  PROVE  Follows(Append(s, m))
<1>. DEFINE t == Append(s, m)
<1>1. /\ t \in Seq(Message) /\ Len(t) = Len(s) + 1 /\ Len(s) \in Nat
      /\ \A k \in 1 .. Len(s) : t[k] = s[k]
      /\ t[Len(s) + 1] = m
  OBVIOUS
<1>. HIDE DEF t
<1>2. ASSUME NEW k \in 1 .. Len(t), t[k].id # 0
      PROVE  \E j \in 1 .. k - 1 :
               /\ t[k].id \in Elements(t[j].calls)
               /\ \A i \in j + 1 .. k - 1 : t[i].role = "tool" /\ t[i].id # t[k].id
  <2>1. k \in 1 .. Len(s) /\ t[k] = s[k]
    BY <1>1, <1>2
  <2>2. PICK j \in 1 .. k - 1 :
          /\ s[k].id \in Elements(s[j].calls)
          /\ \A i \in j + 1 .. k - 1 : s[i].role = "tool" /\ s[i].id # s[k].id
    BY <1>2, <2>1 DEF Follows
  <2>3. \A i \in 1 .. k - 1 : t[i] = s[i]
    BY <1>1, <2>1
  <2>4. t[k].id \in Elements(t[j].calls)
    BY <2>1, <2>2, <2>3
  <2>5. ASSUME NEW i \in j + 1 .. k - 1 PROVE t[i].role = "tool" /\ t[i].id # t[k].id
    BY <1>1, <2>1, <2>2, <2>3
  <2>. QED
    BY <2>4, <2>5
<1>. QED
  BY <1>2 DEF Follows, t

(***************************************************************************)
(* A message at the end leaves no more unanswered than it asks for.        *)
(***************************************************************************)
LEMMA AppendUnanswered ==
  ASSUME NEW s \in Seq(Message), NEW m \in Message
  PROVE  Unanswered(Append(s, m)) \subseteq Unanswered(s) \cup Elements(m.calls)
<1>1. /\ Len(Append(s, m)) = Len(s) + 1 /\ Len(s) \in Nat
      /\ \A k \in 1 .. Len(s) : Append(s, m)[k] = s[k]
      /\ Append(s, m)[Len(s) + 1] = m
  OBVIOUS
<1>2. Elements(Append(s, m)) = Elements(s) \cup {m}
  <2>1. 1 .. Len(s) + 1 = 1 .. Len(s) \cup {Len(s) + 1}
    BY <1>1
  <2>. QED
    BY <1>1, <2>1 DEF Elements
<1>. QED
  BY <1>2 DEF Unanswered

(***************************************************************************)
(* While a batch is at work it is the last one, so LastCalls finds it.     *)
(***************************************************************************)
LEMMA LastCallsAreLast ==
  ASSUME messages \in Seq(Message), messages # <<>>, LastBatch # <<>>
  PROVE  LastCalls = LastBatch
<1>. DEFINE IsLast(m) == /\ messages[m].calls # <<>>
                         /\ \A j \in m + 1 .. Len(messages) : messages[j].calls = <<>>
            k == CHOOSE m \in 1 .. Len(messages) : IsLast(m)
<1>1. Len(messages) \in Nat /\ Len(messages) >= 1
  OBVIOUS
<1>2. Len(messages) \in 1 .. Len(messages) /\ IsLast(Len(messages))
  BY <1>1 DEF LastBatch, Last
<1>3. k \in 1 .. Len(messages) /\ IsLast(k)
  BY <1>2
<1>4. k = Len(messages)
  BY <1>1, <1>2, <1>3
<1>. QED
  BY <1>4 DEF LastCalls, LastBatch, Last

\* The batch is a sequence of calls.
LEMMA LastBatchType ==
  ASSUME messages \in Seq(Message), messages # <<>>
  PROVE  LastBatch \in Seq(Calls) /\ messages[Len(messages)] \in Message
<1>1. Len(messages) \in 1 .. Len(messages)
  BY EmptySeq, LenProperties
<1>2. messages[Len(messages)] \in Message
  BY <1>1, ElementOfSeq
<1>. QED
  BY <1>2 DEF LastBatch, Last, Message

(***************************************************************************)
(* The numbers of a batch are calls, and none is there twice.              *)
(***************************************************************************)
LEMMA LatestNumbers ==
  ASSUME nextCall \in 1 .. MaxCalls + 1, NEW s \in Seq(Calls), Latest(s)
  PROVE  /\ \A c \in Calls : c \in Elements(s) <=> nextCall - Len(s) <= c /\ c < nextCall
         /\ Elements(s) \subseteq Calls
         /\ \A j, k \in 1 .. Len(s) : s[j] = s[k] => j = k
<1>1. MaxCalls \in Nat /\ nextCall \in Nat /\ Len(s) \in Nat
  BY BoundsAssumption
<1>2. \A j, k \in 1 .. Len(s) : s[j] = s[k] => j = k
  BY <1>1 DEF Latest
<1>3. Elements(s) \subseteq Calls
  BY DEF Elements
<1>4. ASSUME NEW c \in Calls, nextCall - Len(s) <= c, c < nextCall PROVE c \in Elements(s)
  <2>1. c - (nextCall - Len(s)) + 1 \in 1 .. Len(s)
    BY <1>1, <1>4 DEF Calls
  <2>2. s[c - (nextCall - Len(s)) + 1] = c
    BY <1>1, <2>1 DEF Latest, Calls
  <2>. QED
    BY <2>1, <2>2 DEF Elements
<1>5. ASSUME NEW c \in Elements(s) PROVE nextCall - Len(s) <= c /\ c < nextCall
  BY <1>1 DEF Elements, Latest
<1>. QED
  BY <1>2, <1>3, <1>4, <1>5

(***************************************************************************)
(* The call a pass comes to is the oldest it has not come to.              *)
(***************************************************************************)
LEMMA HeadLatest ==
  ASSUME nextCall \in 1 .. MaxCalls + 1, NEW s \in Seq(Calls), s # <<>>, Latest(s)
  PROVE  /\ Head(s) \in Calls /\ Head(s) = nextCall - Len(s) /\ Head(s) < nextCall
         /\ Tail(s) \in Seq(Calls) /\ Len(Tail(s)) = Len(s) - 1 /\ Latest(Tail(s))
<1>1. /\ Head(s) \in Calls /\ Tail(s) \in Seq(Calls) /\ Head(s) = s[1]
      /\ Len(Tail(s)) = Len(s) - 1 /\ Len(s) \in Nat /\ Len(s) >= 1
      /\ \A k \in 1 .. Len(Tail(s)) : Tail(s)[k] = s[k + 1]
  BY HeadTailProperties, LenProperties, EmptySeq
<1>2. MaxCalls \in Nat /\ nextCall \in Nat
  BY BoundsAssumption
<1>3. Head(s) = nextCall - Len(s)
  BY <1>1, <1>2 DEF Latest
<1>4. \A k \in 1 .. Len(Tail(s)) : Tail(s)[k] = nextCall - Len(Tail(s)) + k - 1
  BY <1>1, <1>2 DEF Latest
<1>. QED
  BY <1>1, <1>2, <1>3, <1>4 DEF Latest

(***************************************************************************)
(* Nothing has been said before the first turn.                            *)
(***************************************************************************)
LEMMA InitIInv == Init => IInv
<1>. SUFFICES ASSUME Init PROVE IInv
  OBVIOUS
<1>1. TurnTypes
  BY BoundsAssumption DEF Init, TurnTypes
<1>2. PassTypes
  BY DEF Init, PassTypes
<1>3. Elements(<<>>) = {}
  BY DEF Elements
<1>4. Unsettled
  BY <1>3 DEF Init, Unsettled, Unanswered, InBatch
<1>. QED
  BY <1>1, <1>2, <1>4 DEF Init, IInv, BatchLast, InBatch, Executed, Passed, Paused, Follows

(***************************************************************************)
(* A step outside a batch, to where the caller or the model has the turn.  *)
(***************************************************************************)
LEMMA BeginTurnIInv == IInv /\ BeginTurn => IInv'
<1>. SUFFICES ASSUME IInv, BeginTurn PROVE IInv'
  OBVIOUS
<1>. USE DEF IInv
<1>1. User \in Message /\ User.id = 0 /\ Elements(User.calls) = {}
  BY MessageTypes DEF User, Elements
<1>2. messages' \in Seq(Message)
  BY <1>1 DEF BeginTurn, TurnTypes
<1>3. TurnTypes'
  BY <1>2, BoundsAssumption DEF BeginTurn, TurnTypes
<1>4. PassTypes'
  BY DEF BeginTurn, ClearGraphData, PassTypes, askVars, history
<1>5. BatchLast' /\ Executed' /\ Passed' /\ Paused'
  BY DEF BeginTurn, BatchLast, InBatch, Executed, Passed, Paused, history
<1>6. Follows(kept') /\ Follows(messages')
  BY <1>1, AppendFollows DEF BeginTurn, TurnTypes
<1>7. Unanswered(messages') \subseteq Unanswered(kept)
  BY <1>1, AppendUnanswered DEF BeginTurn, TurnTypes
<1>8. Unsettled'
  BY <1>7 DEF BeginTurn, Unsettled, InBatch, history
<1>. QED
  BY <1>3, <1>4, <1>5, <1>6, <1>8

(***************************************************************************)
(* repairMessages leaves a conversation of which the same is true.         *)
(***************************************************************************)
LEMMA RepairedMessages ==
  ASSUME messages \in Seq(Message), Follows(messages)
  PROVE  Repaired \in Seq(Message) /\ Follows(Repaired)
           /\ Unanswered(Repaired) \subseteq Unanswered(messages)
<1>1. User \in Message /\ User.id = 0 /\ Elements(User.calls) = {}
  BY MessageTypes DEF User, Elements
<1>. QED
  BY <1>1, AppendFollows, AppendUnanswered DEF Repaired

(***************************************************************************)
(* A new batch: the next numbers, which nobody has run.                    *)
(***************************************************************************)
LEMMA ModelCallsToolsIInv ==
  ASSUME IInv, NEW n \in 1 .. MaxBatch, ModelCallsTools(n)
  PROVE  IInv'
<1>. USE DEF IInv
<1>1. n \in Nat /\ n >= 1 /\ MaxCalls \in Nat /\ nextCall \in Nat /\ nextCall >= 1
      /\ nextCall' = nextCall + n /\ nextCall + n - 1 <= MaxCalls
  BY BoundsAssumption DEF TurnTypes, ModelCallsTools
<1>2. PICK B \in Seq(Calls) :
        B = Batch(n) /\ Len(B) = n /\ B # <<>> /\ \A k \in 1 .. n : B[k] = nextCall + k - 1
  <2>1. \A k \in 1 .. n : nextCall + k - 1 \in Calls
    BY <1>1 DEF Calls
  <2>2. /\ Batch(n) \in Seq(Calls) /\ Len(Batch(n)) = n /\ Batch(n) # <<>>
        /\ \A k \in 1 .. n : Batch(n)[k] = nextCall + k - 1
    BY <1>1, <2>1 DEF Batch
  <2>. QED
    BY <2>2
<1>3. Assistant(B) \in Message /\ Assistant(B).calls = B /\ Assistant(B).id = 0
  BY <1>2, MessageTypes DEF Assistant
<1>4. /\ Repaired \in Seq(Message) /\ Follows(Repaired)
      /\ Unanswered(Repaired) \subseteq Unanswered(messages)
  BY RepairedMessages DEF TurnTypes
<1>5. /\ pc = "model" /\ pc' = "tools" /\ todo' = B /\ done' = {}
      /\ messages' = Append(Repaired, Assistant(B))
      /\ UNCHANGED <<kind, turn, kept, args, result, cache, queue, values, runs, reply, abandoned>>
  BY <1>2 DEF ModelCallsTools, graphData, askVars
<1>6. messages' \in Seq(Message) /\ messages' # <<>> /\ LastBatch' = B
  BY <1>3, <1>4, <1>5 DEF LastBatch, Last
<1>7. TurnTypes'
  <2>1. modelCalls' \in 0 .. MaxModelCalls
    BY BoundsAssumption DEF ModelCallsTools, TurnTypes
  <2>2. nextCall' \in 1 .. MaxCalls + 1
    BY <1>1
  <2>. QED
    BY <1>5, <1>6, <2>1, <2>2 DEF TurnTypes
<1>8. PassTypes'
  BY <1>2, <1>5 DEF PassTypes
<1>9. Latest(B)'
  BY <1>1, <1>2, <1>5 DEF Latest
<1>10. BatchLast'
  BY <1>2, <1>5, <1>6, <1>9 DEF BatchLast, Latest
<1>11. Executed'
  BY <1>1, <1>5 DEF Executed, Calls
<1>12. Passed'
  <2>1. Latest(todo)' /\ Len(todo') = n /\ Len(LastBatch') = n
    BY <1>2, <1>5, <1>6, <1>9 DEF Latest
  <2>2. ASSUME NEW c \in Calls, nextCall' - n <= c PROVE runs'[c] = 0
    BY <1>1, <1>5, <2>2 DEF Executed, Calls
  <2>3. ASSUME NEW c \in Calls, nextCall' - n <= c, c < nextCall' - n PROVE FALSE
    BY <1>1, <2>3 DEF Calls
  <2>. QED
    BY <1>1, <1>5, <2>1, <2>2, <2>3 DEF Passed
<1>13. Paused'
  BY <1>5 DEF Paused
<1>14. Follows(kept') /\ Follows(messages')
  BY <1>3, <1>4, <1>5, AppendFollows
<1>15. Unanswered(messages') \subseteq Unanswered(messages) \cup Elements(B)
  BY <1>3, <1>4, <1>5, AppendUnanswered
<1>16. Unsettled'
  BY <1>5, <1>6, <1>15 DEF Unsettled, InBatch
<1>. QED
  BY <1>7, <1>8, <1>10, <1>11, <1>12, <1>13, <1>14, <1>16

(***************************************************************************)
(* The model's answer ends the turn and is kept.                           *)
(***************************************************************************)
LEMMA ModelAnswersIInv == IInv /\ ModelAnswers => IInv'
<1>. SUFFICES ASSUME IInv, ModelAnswers PROVE IInv'
  OBVIOUS
<1>. USE DEF IInv
<1>1. /\ Assistant(<<>>) \in Message /\ Assistant(<<>>).id = 0
      /\ Elements(Assistant(<<>>).calls) = {}
  <2>1. <<>> \in Seq(Calls) /\ Assistant(<<>>).calls = <<>> /\ Assistant(<<>>).id = 0
    BY DEF Assistant
  <2>2. Elements(<<>>) = {}
    BY DEF Elements
  <2>. QED
    BY <2>1, <2>2, MessageTypes
<1>2. /\ Repaired \in Seq(Message) /\ Follows(Repaired)
      /\ Unanswered(Repaired) \subseteq Unanswered(messages)
  BY RepairedMessages DEF TurnTypes
<1>3. /\ messages' \in Seq(Message) /\ kept' = messages'
      /\ Follows(messages') /\ Unanswered(messages') \subseteq Unanswered(messages)
  BY <1>1, <1>2, AppendFollows, AppendUnanswered DEF ModelAnswers
<1>4. TurnTypes'
  BY <1>3 DEF ModelAnswers, TurnTypes
<1>5. PassTypes'
  BY DEF ModelAnswers, ClearGraphData, PassTypes, askVars, history
<1>6. BatchLast' /\ Executed' /\ Passed' /\ Paused'
  BY DEF ModelAnswers, BatchLast, InBatch, Executed, Passed, Paused, history
<1>7. Unsettled'
  BY <1>3 DEF ModelAnswers, Unsettled, InBatch, history
<1>. QED
  BY <1>3, <1>4, <1>5, <1>6, <1>7

(***************************************************************************)
(* An exception leaves the turn, and nothing is kept.                      *)
(***************************************************************************)
LEMMA EngineThrowsIInv == IInv /\ EngineThrows => IInv'
<1>. SUFFICES ASSUME IInv, EngineThrows PROVE IInv'
  OBVIOUS
<1>. USE DEF IInv
<1>1. TurnTypes'
  BY DEF EngineThrows, TurnTypes
<1>2. PassTypes'
  BY DEF EngineThrows, PassTypes, graphData, askVars, history
<1>3. BatchLast' /\ Executed' /\ Passed' /\ Paused'
  BY DEF EngineThrows, BatchLast, InBatch, Executed, Passed, Paused, history
<1>4. Follows(kept') /\ Follows(messages')
  BY DEF EngineThrows, Follows
<1>5. Unanswered(kept') = {}
  BY DEF EngineThrows, Unanswered, Elements
<1>6. Unsettled'
  BY <1>5 DEF EngineThrows, Unsettled, InBatch
<1>. QED
  BY <1>1, <1>2, <1>3, <1>4, <1>6

(***************************************************************************)
(* A pass over the batch: the call it comes to is finished in one of       *)
(* several ways, or interrupts; the conversation stands still.             *)
(***************************************************************************)
Steps(c) ==
  /\ pc = "tools" /\ todo # <<>> /\ c = Head(todo) /\ pc' = "tools" /\ todo' = Tail(todo)
  /\ done' \in {done, done \cup {c}} /\ cache' = cache
  /\ UNCHANGED <<kind, turn, modelCalls, nextCall, kept, messages, queue, values, abandoned>>
  /\ \A d \in Calls \ {c} : runs'[d] = runs[d]
  /\ kind[c] = "plain" => c \in done'

\* A step of the pass that takes the next call off what is to do keeps the invariant.
LEMMA StepsIInv ==
  ASSUME IInv, NEW c \in Calls, Steps(c), PassTypes', Executed'
  PROVE  IInv'
<1>. USE DEF IInv
<1>1. /\ c = nextCall - Len(todo) /\ c < nextCall /\ nextCall \in Nat /\ c \in Nat
      /\ Len(Tail(todo)) = Len(todo) - 1 /\ Latest(Tail(todo))
      /\ Len(todo) \in Nat /\ Len(LastBatch) \in Nat /\ Latest(todo)
  <2>1. todo # <<>> /\ todo \in Seq(Calls) /\ Latest(todo) /\ nextCall \in 1 .. MaxCalls + 1
    BY DEF Steps, PassTypes, TurnTypes, Passed
  <2>2. LastBatch \in Seq(Calls)
    BY LastBatchType DEF Steps, BatchLast, InBatch, TurnTypes
  <2>3. /\ c = nextCall - Len(todo) /\ c < nextCall
        /\ Len(Tail(todo)) = Len(todo) - 1 /\ Latest(Tail(todo))
    BY <2>1, HeadLatest DEF Steps
  <2>4. nextCall \in Nat /\ c \in Nat
    BY <2>1, BoundsAssumption DEF Calls
  <2>5. Len(todo) \in Nat /\ Len(LastBatch) \in Nat
    BY <2>1, <2>2, LenProperties
  <2>. QED
    BY <2>1, <2>3, <2>4, <2>5
<1>2. TurnTypes'
  BY DEF Steps, TurnTypes
<1>3. LastBatch' = LastBatch
  BY DEF Steps, LastBatch
<1>4. BatchLast'
  BY <1>3 DEF Steps, BatchLast, InBatch, Latest
<1>5. Passed'
  <2>1. Latest(todo)' /\ Len(todo)' <= Len(LastBatch')
    BY <1>1, <1>3 DEF Steps, Latest, Passed
  <2>2. ASSUME NEW d \in Calls, kind'[d] = "plain",
               nextCall' - Len(LastBatch') <= d, d < nextCall' - Len(todo')
        PROVE  d \in done'
    <3>1. CASE d = c
      BY <2>2, <3>1 DEF Steps
    <3>2. CASE d # c
      <4>1. d < nextCall - Len(todo)
        BY <1>1, <2>2, <3>2 DEF Steps, Calls
      <4>. QED
        BY <1>3, <2>2, <4>1 DEF Steps, Passed
    <3>. QED
      BY <3>1, <3>2
  <2>3. ASSUME NEW d \in Calls, kind'[d] = "plain", nextCall' - Len(todo') <= d, d < nextCall',
               d \notin cache'
        PROVE  runs'[d] = 0
    <3>1. d # c /\ nextCall - Len(todo) <= d
      BY <1>1, <2>3 DEF Steps, Calls
    <3>. QED
      BY <2>3, <3>1 DEF Steps, Passed
  <2>. QED
    BY <2>1, <2>2, <2>3 DEF Passed
<1>6. Paused'
  BY DEF Steps, Paused
<1>7. Follows(kept') /\ Follows(messages')
  BY DEF Steps
<1>8. Unsettled'
  BY <1>3 DEF Steps, Unsettled, InBatch
<1>. QED
  BY <1>2, <1>4, <1>5, <1>6, <1>7, <1>8

(***************************************************************************)
(* A call that is cached, or takes an answer, or asks: nothing is run.     *)
(***************************************************************************)
LEMMA UnexecutedIInv == IInv /\ (ReuseCached \/ TakeResult \/ Interrupt) => IInv'
<1>. SUFFICES ASSUME IInv, ReuseCached \/ TakeResult \/ Interrupt PROVE IInv'
  OBVIOUS
<1>. USE DEF IInv
<1>1. pc = "tools" /\ todo # <<>>
  BY DEF ReuseCached, TakeResult, Interrupt, ToolTurn
<1>2. Call \in Calls /\ Tail(todo) \in Seq(Calls)
  BY <1>1, HeadTailProperties DEF PassTypes, Call
<1>3. UNCHANGED runs
  BY DEF ReuseCached, TakeResult, Interrupt, history
<1>4. Executed'
  BY <1>3 DEF Executed, ReuseCached, TakeResult, Interrupt, turnVars
<1>5. CASE ReuseCached
  <2>1. reply' \in [Calls -> {"none", "own", "foreign"}]
    BY <1>2, <1>5 DEF ReuseCached, Finished, PassTypes
  <2>2. PassTypes'
    BY <1>2, <1>3, <1>5, <2>1 DEF ReuseCached, Finished, PassTypes, graphData, askVars
  <2>3. Steps(Call)
    BY <1>1, <1>3, <1>5
       DEF ReuseCached, Finished, Steps, Call, turnVars, graphData, askVars
  <2>. QED
    BY <1>2, <1>4, <2>2, <2>3, StepsIInv
<1>6. CASE TakeResult
  <2>1. PassTypes'
    BY <1>2, <1>3, <1>6 DEF TakeResult, Finished, PassTypes, askVars
  <2>2. Steps(Call)
    BY <1>1, <1>3, <1>6 DEF TakeResult, Finished, Steps, Call, turnVars, askVars
  <2>. QED
    BY <1>2, <1>4, <2>1, <2>2, StepsIInv
<1>7. CASE Interrupt
  <2>1. args' \in Seq(Calls)
    BY <1>2, <1>7 DEF Interrupt, PassTypes
  <2>2. PassTypes'
    BY <1>2, <1>3, <1>7, <2>1 DEF Interrupt, PassTypes, askVars, history
  <2>3. Steps(Call)
    BY <1>1, <1>3, <1>7 DEF Interrupt, Steps, Call, turnVars, askVars, history
  <2>. QED
    BY <1>2, <1>4, <2>2, <2>3, StepsIInv
<1>. QED
  BY <1>5, <1>6, <1>7

(***************************************************************************)
(* A plain call that is not cached has not run: it runs for the first      *)
(* time.                                                                   *)
(***************************************************************************)
LEMMA RunPlainIInv == IInv /\ RunPlain => IInv'
<1>. SUFFICES ASSUME IInv, RunPlain PROVE IInv'
  OBVIOUS
<1>. USE DEF IInv
<1>1. /\ pc = "tools" /\ todo # <<>> /\ todo \in Seq(Calls) /\ Latest(todo)
      /\ nextCall \in 1 .. MaxCalls + 1
  BY DEF RunPlain, ToolTurn, Passed, PassTypes, TurnTypes
<1>2. /\ Call \in Calls /\ Tail(todo) \in Seq(Calls)
      /\ Call = nextCall - Len(todo) /\ Call < nextCall
  BY <1>1, HeadLatest DEF Call
<1>3. runs[Call] = 0
  BY <1>1, <1>2, BoundsAssumption DEF Passed, RunPlain, FromCache
<1>4. runs' = [runs EXCEPT ![Call] = 1]
  BY <1>2, <1>3 DEF RunPlain, PassTypes
<1>5. Executed'
  <2>1. nextCall' = nextCall
    BY DEF RunPlain, turnVars
  <2>2. runs'[Call] = 1 /\ \A d \in Calls \ {Call} : runs'[d] = runs[d]
    BY <1>2, <1>4 DEF PassTypes
  <2>3. ~(Call >= nextCall)
    BY <1>1, <1>2, BoundsAssumption DEF Calls
  <2>. QED
    BY <2>1, <2>2, <2>3 DEF Executed
<1>6. PassTypes'
  <2>1. runs' \in [Calls -> Nat]
    BY <1>4 DEF PassTypes
  <2>3. reply' \in [Calls -> {"none", "own", "foreign"}]
    BY DEF RunPlain, Finished, PassTypes
  <2>2. todo' \in Seq(Calls) /\ done' \in SUBSET Calls
    BY <1>2 DEF RunPlain, Finished, PassTypes
  <2>. QED
    BY <2>1, <2>2, <2>3 DEF RunPlain, PassTypes, graphData, askVars
<1>7. Steps(Call)
  BY <1>1, <1>4 DEF RunPlain, Finished, Steps, Call, turnVars, graphData, askVars, PassTypes
<1>. QED
  BY <1>2, <1>5, <1>6, <1>7, StepsIInv

(***************************************************************************)
(* The replies of a batch, written behind it: each stands behind the batch *)
(* with only replies to other calls between, and answers its call.         *)
(***************************************************************************)
LEMMA RepliesOfBatch ==
  ASSUME NEW s \in Seq(Message), NEW b \in Seq(Calls), s # <<>>, s[Len(s)].calls = b,
         NEW r \in Seq(Message), Len(r) = Len(b), \A k \in 1 .. Len(b) : r[k] = ToolReply(b[k]),
         \A j, k \in 1 .. Len(b) : b[j] = b[k] => j = k,
         Follows(s)
  PROVE  /\ s \o r \in Seq(Message)
         /\ Follows(s \o r)
         /\ Unanswered(s \o r) \subseteq Unanswered(s) \ Elements(b)
<1>. DEFINE t == s \o r
<1>1. /\ t \in Seq(Message) /\ Len(t) = Len(s) + Len(b) /\ Len(s) \in Nat /\ Len(b) \in Nat
      /\ Len(s) >= 1
      /\ \A k \in 1 .. Len(s) : t[k] = s[k]
      /\ \A k \in 1 .. Len(b) : t[Len(s) + k] = r[k]
  OBVIOUS
<1>. HIDE DEF t
<1>2. \A k \in 1 .. Len(b) : /\ t[Len(s) + k].role = "tool" /\ t[Len(s) + k].calls = <<>>
                             /\ t[Len(s) + k].id = b[k]
  <2>. SUFFICES ASSUME NEW k \in 1 .. Len(b)
                PROVE  /\ t[Len(s) + k].role = "tool" /\ t[Len(s) + k].calls = <<>>
                       /\ t[Len(s) + k].id = b[k]
    OBVIOUS
  <2>1. t[Len(s) + k] = ToolReply(b[k])
    BY <1>1
  <2>. QED
    BY <2>1 DEF ToolReply
<1>3. ASSUME NEW k \in 1 .. Len(t), t[k].id # 0
      PROVE  \E j \in 1 .. k - 1 :
               /\ t[k].id \in Elements(t[j].calls)
               /\ \A i \in j + 1 .. k - 1 : t[i].role = "tool" /\ t[i].id # t[k].id
  <2>1. CASE k <= Len(s)
    <3>1. k \in 1 .. Len(s) /\ t[k] = s[k]
      BY <1>1, <2>1
    <3>2. PICK j \in 1 .. k - 1 :
            /\ s[k].id \in Elements(s[j].calls)
            /\ \A i \in j + 1 .. k - 1 : s[i].role = "tool" /\ s[i].id # s[k].id
      BY <1>3, <3>1 DEF Follows
    <3>3. \A i \in 1 .. k - 1 : t[i] = s[i]
      BY <1>1, <3>1
    <3>4. t[k].id \in Elements(t[j].calls)
      BY <3>1, <3>2, <3>3
    <3>5. ASSUME NEW i \in j + 1 .. k - 1 PROVE t[i].role = "tool" /\ t[i].id # t[k].id
      <4>1. i \in 1 .. k - 1
        BY <3>1
      <4>2. t[i] = s[i]
        BY <3>3, <4>1
      <4>. QED
        BY <3>1, <3>2, <4>2
    <3>. QED
      BY <3>4, <3>5
  <2>2. CASE k > Len(s)
    <3>1. PICK n \in 1 .. Len(b) : k = Len(s) + n
      <4>1. k - Len(s) \in 1 .. Len(b) /\ k = Len(s) + (k - Len(s))
        BY <1>1, <2>2
      <4>. QED
        BY <4>1
    <3>2. t[k].id = b[n] /\ t[Len(s)].calls = b
      <4>1. t[k].id = b[n]
        BY <1>2, <3>1
      <4>2. Len(s) \in 1 .. Len(s)
        BY <1>1
      <4>3. t[Len(s)] = s[Len(s)]
        BY <1>1, <4>2
      <4>. QED
        BY <4>1, <4>3
    <3>3. t[k].id \in Elements(t[Len(s)].calls)
      BY <3>1, <3>2 DEF Elements
    <3>4. ASSUME NEW i \in Len(s) + 1 .. k - 1
          PROVE  t[i].role = "tool" /\ t[i].id # t[k].id
      <4>1. i - Len(s) \in 1 .. Len(b) /\ i - Len(s) # n /\ i = Len(s) + (i - Len(s))
        BY <1>1, <3>1
      <4>2. t[i].role = "tool" /\ t[i].id = b[i - Len(s)]
        BY <1>2, <4>1
      <4>. QED
        BY <3>1, <3>2, <4>1, <4>2
    <3>5. Len(s) \in 1 .. k - 1
      BY <1>1, <2>2
    <3>. QED
      BY <3>3, <3>4, <3>5
  <2>3. k <= Len(s) \/ k > Len(s)
    BY <1>1
  <2>. QED
    BY <2>1, <2>2, <2>3, Zenon
<1>4. Elements(t) = Elements(s) \cup {ToolReply(b[k]) : k \in 1 .. Len(b)}
  <2>1. ASSUME NEW m \in Elements(t) PROVE m \in Elements(s) \cup {ToolReply(b[k]) : k \in 1 .. Len(b)}
    <3>1. PICK k \in 1 .. Len(t) : m = t[k]
      BY DEF Elements
    <3>2. CASE k <= Len(s)
      BY <1>1, <3>1, <3>2 DEF Elements
    <3>3. CASE k > Len(s)
      <4>1. k - Len(s) \in 1 .. Len(b) /\ k = Len(s) + (k - Len(s))
        BY <1>1, <3>3
      <4>. QED
        BY <1>1, <3>1, <4>1
    <3>. QED
      BY <1>1, <3>2, <3>3
  <2>2. Elements(s) \subseteq Elements(t)
    BY <1>1 DEF Elements
  <2>3. ASSUME NEW k \in 1 .. Len(b) PROVE ToolReply(b[k]) \in Elements(t)
    <3>1. Len(s) + k \in 1 .. Len(t) /\ t[Len(s) + k] = ToolReply(b[k])
      BY <1>1
    <3>. QED
      BY <3>1 DEF Elements
  <2>. QED
    BY <2>1, <2>2, <2>3
<1>5. Unanswered(t) \subseteq Unanswered(s) \ Elements(b)
  <2>1. Elements(<<>>) = {}
    BY DEF Elements
  <2>2. \A k \in 1 .. Len(b) : ToolReply(b[k]).calls = <<>> /\ ToolReply(b[k]).id = b[k]
    BY DEF ToolReply
  <2>3. UNION {Elements(m.calls) : m \in Elements(t)} \subseteq UNION {Elements(m.calls) : m \in Elements(s)}
    <3>1. \A m \in Elements(t) : m \in Elements(s) \/ Elements(m.calls) = {}
      BY <1>4, <2>1, <2>2
    <3>. QED
      BY <3>1
  <2>4. ASSUME NEW m \in Elements(s) PROVE m.id \in {x.id : x \in Elements(t)}
    BY <1>4
  <2>5. ASSUME NEW c \in Elements(b) PROVE c \in {x.id : x \in Elements(t)}
    <3>1. PICK k \in 1 .. Len(b) : c = b[k]
      BY DEF Elements
    <3>2. ToolReply(b[k]) \in Elements(t) /\ ToolReply(b[k]).id = c
      BY <1>4, <2>2, <3>1
    <3>. QED
      BY <3>2
  <2>6. ASSUME NEW c \in Unanswered(t) PROVE c \in Unanswered(s) \ Elements(b)
    <3>1. c \in UNION {Elements(m.calls) : m \in Elements(s)} /\ c \notin {x.id : x \in Elements(t)}
      BY <2>3, <2>6 DEF Unanswered
    <3>2. c \notin Elements(b)
      BY <2>5, <3>1
    <3>3. c \notin {m.id : m \in Elements(s)}
      BY <2>4, <3>1
    <3>. QED
      BY <3>1, <3>2, <3>3 DEF Unanswered
  <2>. QED
    BY <2>6
<1>6. Follows(t)
  BY <1>3 DEF Follows
<1>. QED
  BY <1>1, <1>5, <1>6 DEF t

(***************************************************************************)
(* What a batch at work is.                                                *)
(***************************************************************************)
LEMMA BatchAtWork ==
  ASSUME IInv, InBatch
  PROVE  /\ LastCalls = LastBatch /\ LastBatch \in Seq(Calls) /\ LastBatch # <<>>
         /\ Latest(LastBatch) /\ messages # <<>> /\ messages[Len(messages)].calls = LastBatch
         /\ Elements(LastBatch) \subseteq Calls
         /\ \A j, k \in 1 .. Len(LastBatch) : LastBatch[j] = LastBatch[k] => j = k
<1>1. messages # <<>> /\ LastBatch # <<>> /\ Latest(LastBatch)
  BY DEF IInv, BatchLast
<1>2. messages \in Seq(Message) /\ nextCall \in 1 .. MaxCalls + 1
  BY DEF IInv, TurnTypes
<1>3. LastCalls = LastBatch /\ LastBatch \in Seq(Calls)
  BY <1>1, <1>2, LastCallsAreLast, LastBatchType
<1>. QED
  BY <1>1, <1>2, <1>3, LatestNumbers DEF LastBatch, Last

(***************************************************************************)
(* A pass without an interrupt writes all replies.                         *)
(***************************************************************************)
LEMMA ToolsReturnIInv == IInv /\ ToolsReturn => IInv'
<1>. SUFFICES ASSUME IInv, ToolsReturn PROVE IInv'
  OBVIOUS
<1>. USE DEF IInv
<1>1. pc = "tools" /\ pc' = "model" /\ messages' = messages \o Replies /\ InBatch
      /\ cache' = {} /\ UNCHANGED <<turnVars, modelCalls, todo, done, args, result, askVars, history>>
  BY DEF ToolsReturn, InBatch
<1>2. /\ LastCalls = LastBatch /\ LastBatch \in Seq(Calls)
      /\ messages # <<>> /\ messages[Len(messages)].calls = LastBatch
      /\ \A j, k \in 1 .. Len(LastBatch) : LastBatch[j] = LastBatch[k] => j = k
  BY <1>1, BatchAtWork
<1>3. /\ Replies \in Seq(Message) /\ Len(Replies) = Len(LastBatch)
      /\ \A k \in 1 .. Len(LastBatch) : Replies[k] = ToolReply(LastBatch[k])
  <2>1. \A k \in 1 .. Len(LastBatch) : ToolReply(LastBatch[k]) \in Message
    BY <1>2, MessageTypes, ElementOfSeq
  <2>. QED
    BY <1>2, <2>1 DEF Replies
<1>4. /\ messages' \in Seq(Message) /\ Follows(messages')
      /\ Unanswered(messages') \subseteq Unanswered(messages) \ Elements(LastBatch)
  <2>1. messages \in Seq(Message) /\ Follows(messages)
    BY DEF TurnTypes
  <2>. DEFINE r == Replies
              b == LastBatch
  <2>2. /\ r \in Seq(Message) /\ Len(r) = Len(b)
        /\ \A k \in 1 .. Len(b) : r[k] = ToolReply(b[k])
        /\ b \in Seq(Calls) /\ messages # <<>> /\ messages[Len(messages)].calls = b
        /\ \A j, k \in 1 .. Len(b) : b[j] = b[k] => j = k
    BY <1>2, <1>3
  <2>. HIDE DEF r, b
  <2>3. /\ messages \o r \in Seq(Message) /\ Follows(messages \o r)
        /\ Unanswered(messages \o r) \subseteq Unanswered(messages) \ Elements(b)
    BY <2>1, <2>2, RepliesOfBatch
  <2>. QED
    BY <1>1, <2>3 DEF r, b
<1>5. TurnTypes'
  BY <1>1, <1>4 DEF TurnTypes, turnVars
<1>6. PassTypes'
  BY <1>1 DEF PassTypes, askVars, history
<1>7. BatchLast' /\ Executed' /\ Passed' /\ Paused'
  BY <1>1 DEF BatchLast, InBatch, Executed, Passed, Paused, history, turnVars
<1>8. Follows(kept')
  BY <1>1 DEF turnVars
<1>9. Unsettled'
  BY <1>1, <1>4 DEF Unsettled, InBatch, history
<1>. QED
  BY <1>4, <1>5, <1>6, <1>7, <1>8, <1>9

(***************************************************************************)
(* A pass with an interrupt caches what it has, which all its plain calls  *)
(* are among; a resumed batch starts over with them.                       *)
(***************************************************************************)
LEMMA ToolsInterruptIInv == IInv /\ ToolsInterrupt => IInv'
<1>. SUFFICES ASSUME IInv, ToolsInterrupt PROVE IInv'
  OBVIOUS
<1>. USE DEF IInv
<1>1. /\ pc = "tools" /\ pc' = "asking" /\ todo = <<>> /\ cache' = done /\ queue' = args
      /\ values' = {}
      /\ UNCHANGED <<turnVars, modelCalls, messages, todo, done, args, result, runs, reply, abandoned>>
  BY DEF ToolsInterrupt, Cached
<1>2. LastBatch' = LastBatch /\ nextCall' = nextCall /\ nextCall \in Nat
  BY <1>1, BoundsAssumption DEF LastBatch, turnVars, TurnTypes
<1>3. TurnTypes'
  BY <1>1 DEF TurnTypes, turnVars
<1>4. PassTypes'
  BY <1>1 DEF PassTypes
<1>5. BatchLast'
  BY <1>1, <1>2 DEF BatchLast, InBatch, Latest
<1>6. Executed' /\ Passed'
  BY <1>1 DEF Executed, Passed, turnVars
<1>7. Paused'
  <2>1. Len(todo) = 0
    BY <1>1
  <2>2. nextCall - 0 = nextCall
    BY <1>2
  <2>. QED
    BY <1>1, <1>2, <2>1, <2>2 DEF Passed, Paused, turnVars
<1>8. Follows(kept') /\ Follows(messages')
  BY <1>1 DEF turnVars
<1>9. Unsettled'
  BY <1>1, <1>2 DEF Unsettled, InBatch
<1>. QED
  BY <1>3, <1>4, <1>5, <1>6, <1>7, <1>8, <1>9

\* The answers to an interrupt begin a new pass over the last calls.
LEMMA ResumeIInv == IInv /\ Resume => IInv'
<1>. SUFFICES ASSUME IInv, Resume PROVE IInv'
  OBVIOUS
<1>. USE DEF IInv
<1>1. /\ pc = "asking" /\ pc' = "tools" /\ InBatch /\ result' = <<values>> /\ todo' = LastCalls
      /\ done' = {}
      /\ UNCHANGED <<turnVars, modelCalls, messages, args, cache, askVars, history>>
  BY DEF Resume, InBatch
<1>2. /\ LastCalls = LastBatch /\ LastBatch \in Seq(Calls) /\ Latest(LastBatch)
  BY <1>1, BatchAtWork
<1>3. LastBatch' = LastBatch /\ nextCall' = nextCall /\ nextCall \in Nat
  BY <1>1, BoundsAssumption DEF LastBatch, turnVars, TurnTypes
<1>4. TurnTypes'
  BY <1>1 DEF TurnTypes, turnVars
<1>5. PassTypes'
  <2>1. Len(result') = 1 /\ result'[1] \in SUBSET Calls
    BY <1>1 DEF PassTypes
  <2>. QED
    BY <1>1, <1>2, <2>1 DEF PassTypes, askVars, history
<1>6. BatchLast'
  BY <1>1, <1>3 DEF BatchLast, InBatch, Latest
<1>7. Executed' /\ Paused'
  BY <1>1 DEF Executed, Paused, turnVars, history
<1>8. Passed'
  <2>1. Latest(todo)' /\ Len(todo)' = Len(LastBatch') /\ Len(LastBatch) \in Nat
    BY <1>1, <1>2, <1>3, LenProperties DEF Latest
  <2>2. \A c \in Calls : nextCall - Len(LastBatch) <= c /\ c < nextCall - Len(LastBatch) => FALSE
    BY <1>3, <2>1 DEF Calls
  <2>3. ASSUME NEW c \in Calls, kind[c] = "plain", nextCall - Len(LastBatch) <= c, c < nextCall,
               c \notin cache
        PROVE  runs[c] = 0
    BY <1>1, <2>3 DEF Paused
  <2>. QED
    BY <1>1, <1>3, <2>1, <2>2, <2>3 DEF Passed, turnVars, history
<1>9. Follows(kept') /\ Follows(messages')
  BY <1>1 DEF turnVars
<1>10. Unsettled'
  BY <1>1, <1>3 DEF Unsettled, InBatch, history
<1>. QED
  BY <1>4, <1>5, <1>6, <1>7, <1>8, <1>9, <1>10

(***************************************************************************)
(* A batch that fails or is given up is abandoned.                         *)
(***************************************************************************)
LEMMA ToolsNodeFailsIInv == IInv /\ ToolsNodeFails => IInv'
<1>. SUFFICES ASSUME IInv, ToolsNodeFails PROVE IInv'
  OBVIOUS
<1>. USE DEF IInv
<1>1. /\ pc = "tools" /\ pc' = "model" /\ InBatch /\ messages' = Append(messages, ToolReply(0))
      /\ cache' \in {{}, cache}
      /\ abandoned' = abandoned \cup Elements(LastCalls)
      /\ UNCHANGED <<turnVars, modelCalls, todo, done, args, result, askVars, runs, reply>>
  BY DEF ToolsNodeFails, InBatch
<1>2. LastCalls = LastBatch /\ Elements(LastBatch) \subseteq Calls
  BY <1>1, BatchAtWork
<1>3. /\ ToolReply(0) \in Message /\ ToolReply(0).id = 0
      /\ Elements(ToolReply(0).calls) = {}
  BY MessageTypes DEF ToolReply, Elements
<1>4. /\ messages' \in Seq(Message) /\ Follows(messages')
      /\ Unanswered(messages') \subseteq Unanswered(messages)
  BY <1>1, <1>3, AppendFollows, AppendUnanswered DEF TurnTypes
<1>5. TurnTypes'
  BY <1>1, <1>4 DEF TurnTypes, turnVars
<1>6. PassTypes'
  BY <1>1, <1>2 DEF PassTypes, askVars
<1>7. BatchLast' /\ Executed' /\ Passed' /\ Paused'
  BY <1>1 DEF BatchLast, InBatch, Executed, Passed, Paused, turnVars
<1>8. Follows(kept')
  BY <1>1 DEF turnVars
<1>9. Unsettled'
  BY <1>1, <1>2, <1>4 DEF Unsettled, InBatch
<1>. QED
  BY <1>4, <1>5, <1>6, <1>7, <1>8, <1>9

\* A question that is given up ends the turn with its calls unanswered.
LEMMA GiveUpIInv == IInv /\ GiveUp => IInv'
<1>. SUFFICES ASSUME IInv, GiveUp PROVE IInv'
  OBVIOUS
<1>. USE DEF IInv
<1>1. /\ pc = "asking" /\ pc' = "idle" /\ InBatch /\ kept' = messages
      /\ abandoned' = abandoned \cup Elements(LastCalls)
      /\ UNCHANGED <<kind, turn, modelCalls, nextCall, messages, todo, done, graphData, askVars,
                     runs, reply>>
  BY DEF GiveUp, InBatch
<1>2. LastCalls = LastBatch /\ Elements(LastBatch) \subseteq Calls
  BY <1>1, BatchAtWork
<1>3. TurnTypes'
  BY <1>1 DEF TurnTypes
<1>4. PassTypes'
  BY <1>1, <1>2 DEF PassTypes, askVars, graphData
<1>5. BatchLast' /\ Executed' /\ Passed' /\ Paused'
  BY <1>1 DEF BatchLast, InBatch, Executed, Passed, Paused
<1>6. Follows(kept') /\ Follows(messages')
  BY <1>1
<1>7. Unsettled'
  BY <1>1, <1>2 DEF Unsettled, InBatch
<1>. QED
  BY <1>3, <1>4, <1>5, <1>6, <1>7

(***************************************************************************)
(* A question moves nothing but itself.                                    *)
(***************************************************************************)
LEMMA AskIInv ==
  ASSUME IInv, NEW isAnswered \in BOOLEAN, Ask(isAnswered)
  PROVE  IInv'
<1>. USE DEF IInv
<1>1. /\ pc = "asking" /\ queue # <<>>
      /\ UNCHANGED <<turnVars, pc, modelCalls, messages, todo, done, graphData, runs, reply, abandoned>>
  BY DEF Ask
<1>2. LastBatch' = LastBatch
  BY <1>1 DEF LastBatch
<1>3. queue' \in Seq(Calls) /\ values' \in SUBSET Calls
  BY <1>1, HeadTailProperties DEF Ask, PassTypes, ValueOf
<1>4. TurnTypes'
  BY <1>1 DEF TurnTypes, turnVars
<1>5. PassTypes'
  BY <1>1, <1>3 DEF PassTypes, graphData
<1>6. BatchLast' /\ Executed' /\ Passed' /\ Paused'
  BY <1>1, <1>2 DEF BatchLast, InBatch, Latest, Executed, Passed, Paused, turnVars, graphData
<1>7. Follows(kept') /\ Follows(messages')
  BY <1>1 DEF turnVars
<1>8. Unsettled'
  BY <1>1, <1>2 DEF Unsettled, InBatch
<1>. QED
  BY <1>4, <1>5, <1>6, <1>7, <1>8

\* Nothing changes.
LEMMA StutterIInv == IInv /\ UNCHANGED vars => IInv'
<1>. SUFFICES ASSUME IInv, UNCHANGED vars PROVE IInv'
  OBVIOUS
<1>1. UNCHANGED <<kind, pc, turn, modelCalls, nextCall, kept, messages, todo, done, args, result,
                  cache, queue, values, runs, reply, abandoned>>
  BY DEF vars, turnVars, graphData, askVars, history
<1>2. LastBatch' = LastBatch
  BY <1>1 DEF LastBatch
<1>3. TurnTypes' /\ PassTypes'
  BY <1>1 DEF IInv, TurnTypes, PassTypes
<1>4. BatchLast' /\ Executed' /\ Passed' /\ Paused' /\ Unsettled'
  BY <1>1, <1>2 DEF IInv, BatchLast, InBatch, Latest, Executed, Passed, Paused, Unsettled
<1>. QED
  BY <1>1, <1>3, <1>4 DEF IInv

\* Every step keeps the inductive invariant.
LEMMA NextIInv == IInv /\ [Next]_vars => IInv'
BY BeginTurnIInv, ModelCallsToolsIInv, ModelAnswersIInv, EngineThrowsIInv, UnexecutedIInv,
   RunPlainIInv, ToolsReturnIInv, ToolsInterruptIInv, ToolsNodeFailsIInv, AskIInv, ResumeIInv,
   GiveUpIInv, StutterIInv DEF Next

-----------------------------------------------------------------------------
(***************************************************************************)
(* Every variable keeps its type, however many turns, calls and failures   *)
(* there are.                                                              *)
(***************************************************************************)
THEOREM TypeCorrect == Spec => []TypeOK
<1>1. ASSUME IInv PROVE TypeOK
  <2>1. \A s \in {kept, messages} : \A m \in Elements(s) : m \in Message
    BY <1>1 DEF IInv, TurnTypes, Elements
  <2>. QED
    BY <1>1, <2>1 DEF IInv, TurnTypes, PassTypes, TypeOK, Message, Roles
<1>2. IInv => TypeOK
  BY <1>1
<1>. QED
  BY <1>2, InitIInv, NextIInv, PTL DEF Spec

(***************************************************************************)
(* However often its batch is interrupted, resumed or given up, a plain    *)
(* tool call is executed once at most.                                     *)
(***************************************************************************)
THEOREM NoRerunCorrect == Spec => []NoRerun
<1>1. IInv => NoRerun
  BY DEF IInv, Executed, NoRerun
<1>. QED
  BY <1>1, InitIInv, NextIInv, PTL DEF Spec

(***************************************************************************)
(* Each reply in the conversation stands behind the message that asked for *)
(* it, once, with only other replies between.                              *)
(***************************************************************************)
THEOREM RepliesFollowTheirCallCorrect == Spec => []RepliesFollowTheirCall
<1>1. IInv => RepliesFollowTheirCall
  BY DEF IInv, Follows, RepliesFollowTheirCall
<1>. QED
  BY <1>1, InitIInv, NextIInv, PTL DEF Spec

(***************************************************************************)
(* A conversation is left with unanswered calls only if their batch was    *)
(* given up or its node failed.                                            *)
(***************************************************************************)
THEOREM OnlyAbandonedUnansweredCorrect == Spec => []OnlyAbandonedUnanswered
<1>1. IInv => OnlyAbandonedUnanswered
  BY DEF IInv, Unsettled, OnlyAbandonedUnanswered
<1>. QED
  BY <1>1, InitIInv, NextIInv, PTL DEF Spec
=============================================================================
