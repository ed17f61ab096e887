------------------------- MODULE StdinPrompts_proofs -------------------------
(***************************************************************************)
(* Proofs about StdinPrompts for any number of lines and prompts: the      *)
(* types, that each line goes to one reader and wakes one that waits, and  *)
(* that nothing is allowed without a yes.                                  *)
(***************************************************************************)
EXTENDS StdinPrompts, SequenceTheorems, TLAPS

(***************************************************************************)
(* The types of the variables that messages go through, and of the others. *)
(***************************************************************************)
LineTypes ==
  /\ typed \in Nat
  /\ terminal \in Seq(Line)
  /\ channel \in Seq(Messages)
  /\ got \in [Prompts -> Seq(Messages)]
  /\ inputs \in SUBSET (1 .. MaxLines)

PromptTypes ==
  /\ waiters \in Seq(Prompts)
  /\ shown \in Nat
  /\ kind \in [Prompts -> {"permission", "confirm"}]
  /\ request \in [Prompts -> {"unused", "waiting", "answered", "timedout"}]
  /\ handler \in [Prompts -> {"none", "checking", "receiving", "waiting", "resumed", "done"}]
  /\ decision \in [Prompts -> {"none", "allow", "deny"}]

LoopTypes ==
  /\ closed \in BOOLEAN /\ eof \in BOOLEAN
  /\ thread \in {"none", "reading", "cancelling", "ended"}
  /\ main \in {"getline", "turn", "ended"}
  /\ busy \in 0 .. MaxPrompts /\ showing \in 0 .. MaxPrompts

(***************************************************************************)
(* Typed: every line somewhere was typed.  Somewhere: every line typed is  *)
(* somewhere.  Ordered: lines stand in the terminal as they were typed,    *)
(* behind those in the channel.  Apart: no line is in two places, and none *)
(* is in the channel twice.                                                *)
(***************************************************************************)
Typed ==
  /\ typed <= MaxLines
  /\ inputs \subseteq 1 .. typed
  /\ IdsOf(channel) \subseteq 1 .. typed
  /\ IdsOf(terminal) \subseteq 1 .. typed
  /\ \A p \in Prompts : GotBy(p) \subseteq 1 .. typed

Somewhere ==
  \A i \in 1 .. typed :
    i \in inputs \/ i \in IdsOf(channel) \/ i \in IdsOf(terminal)
      \/ \E p \in Prompts : i \in GotBy(p)

Ordered ==
  /\ \A j, k \in 1 .. Len(terminal) : j < k => terminal[j].id < terminal[k].id
  /\ \A i \in IdsOf(channel), j \in IdsOf(terminal) : i < j

ChannelOnce ==
  \A j, k \in 1 .. Len(channel) :
    j # k => channel[j].id # channel[k].id \/ channel[j].id = 0

Apart ==
  /\ ChannelOnce
  /\ \A i \in inputs : i \notin IdsOf(channel) /\ i \notin IdsOf(terminal)
  /\ \A p \in Prompts : \A i \in GotBy(p) :
       i \notin inputs /\ i \notin IdsOf(channel) /\ i \notin IdsOf(terminal)
  /\ \A p, q \in Prompts : p # q => \A i \in GotBy(p) : i \notin GotBy(q)

Lines == LineTypes /\ Typed /\ Somewhere /\ Ordered /\ Apart

(***************************************************************************)
(* Whoever waits is in the queue.                                          *)
(***************************************************************************)
Queue ==
  /\ waiters # <<>> => channel = <<>>
  /\ \A p \in Prompts : handler[p] = "waiting" <=> \E k \in 1 .. Len(waiters) : waiters[k] = p
  /\ \A j, k \in 1 .. Len(waiters) : j # k => waiters[j] # waiters[k]

(***************************************************************************)
(* What holds of a prompt: its handler is only resumed with a message, and *)
(* an allowed one is over, by a yes.                                       *)
(***************************************************************************)
Prompt(p) ==
  /\ p > shown => request[p] = "unused" /\ handler[p] = "none"
  /\ handler[p] = "resumed" => got[p] # <<>>
  /\ decision[p] = "allow" => /\ request[p] = "answered" /\ handler[p] = "done"
                              /\ got[p] # <<>> /\ LastGot(p).text = "y"

Handlers == PromptTypes /\ Queue /\ \A p \in Prompts : Prompt(p)

Loop == LoopTypes /\ shown <= MaxPrompts

IInv == Lines /\ Handlers /\ Loop

-----------------------------------------------------------------------------
(***************************************************************************)
(* Messages have a number, 0 for the end of the thread.                    *)
(***************************************************************************)
LEMMA MessageId ==
  /\ Line \subseteq Messages /\ Cancel \in Messages /\ Cancel.id = 0
  /\ \A m \in Messages : m.id \in Nat
  /\ \A m \in Line : m.id \in 1 .. MaxLines /\ m.id # 0
BY BoundsAssumption DEF Line, Messages, Cancel

(***************************************************************************)
(* The numbers in a sequence after one is appended, and before its head is *)
(* taken off.                                                              *)
(***************************************************************************)
LEMMA AppendIds ==
  ASSUME NEW s \in Seq(Messages), NEW m \in Messages
  PROVE  /\ Append(s, m) \in Seq(Messages)
         /\ \A i : i \in IdsOf(Append(s, m)) <=> i \in IdsOf(s) \/ (i = m.id /\ i # 0)
<1>1. /\ Append(s, m) \in Seq(Messages)
      /\ Len(Append(s, m)) = Len(s) + 1 /\ Len(s) \in Nat
      /\ \A k \in 1 .. Len(s) : Append(s, m)[k] = s[k]
      /\ Append(s, m)[Len(s) + 1] = m
  BY AppendProperties, LenProperties
<1>2. ASSUME NEW i, i \in IdsOf(Append(s, m))
      PROVE  i \in IdsOf(s) \/ (i = m.id /\ i # 0)
  <2>1. PICK k \in 1 .. Len(s) + 1 : i = Append(s, m)[k].id /\ i # 0
    BY <1>1, <1>2 DEF IdsOf
  <2>2. k \in 1 .. Len(s) \/ k = Len(s) + 1
    BY <1>1
  <2>. QED
    BY <1>1, <2>1, <2>2 DEF IdsOf
<1>3. ASSUME NEW i, i \in IdsOf(s) \/ (i = m.id /\ i # 0)
      PROVE  i \in IdsOf(Append(s, m))
  <2>1. 1 .. Len(s) \subseteq 1 .. Len(s) + 1 /\ Len(s) + 1 \in 1 .. Len(s) + 1
    BY <1>1
  <2>. QED
    BY <1>1, <1>3, <2>1 DEF IdsOf
<1>. QED
  BY <1>1, <1>2, <1>3

\* The first message of a sequence that is not empty, and what is behind it.
LEMMA HeadIds ==
  ASSUME NEW s \in Seq(Messages), s # <<>>
  PROVE  /\ Head(s) \in Messages /\ Tail(s) \in Seq(Messages) /\ Head(s) = s[1]
         /\ Len(Tail(s)) = Len(s) - 1 /\ Len(s) \in Nat /\ Len(s) >= 1
         /\ \A k \in 1 .. Len(Tail(s)) : Tail(s)[k] = s[k + 1] /\ k + 1 \in 1 .. Len(s)
         /\ \A i : i \in IdsOf(s) <=> i \in IdsOf(Tail(s)) \/ (i = Head(s).id /\ i # 0)
<1>1. /\ Head(s) \in Messages /\ Tail(s) \in Seq(Messages) /\ Head(s) = s[1]
      /\ Len(Tail(s)) = Len(s) - 1 /\ Len(s) \in Nat /\ Len(s) >= 1
      /\ \A k \in 1 .. Len(Tail(s)) : Tail(s)[k] = s[k + 1]
  BY HeadTailProperties, LenProperties, EmptySeq
<1>2. \A k \in 1 .. Len(Tail(s)) : k + 1 \in 1 .. Len(s)
  BY <1>1
<1>3. ASSUME NEW i, i \in IdsOf(s)
      PROVE  i \in IdsOf(Tail(s)) \/ (i = Head(s).id /\ i # 0)
  <2>1. PICK k \in 1 .. Len(s) : i = s[k].id /\ i # 0
    BY <1>3 DEF IdsOf
  <2>2. k = 1 \/ (k - 1 \in 1 .. Len(Tail(s)) /\ (k - 1) + 1 = k)
    BY <1>1
  <2>. QED
    BY <1>1, <2>1, <2>2 DEF IdsOf
<1>4. ASSUME NEW i, i \in IdsOf(Tail(s)) \/ (i = Head(s).id /\ i # 0)
      PROVE  i \in IdsOf(s)
  <2>1. 1 \in 1 .. Len(s)
    BY <1>1
  <2>. QED
    BY <1>1, <1>2, <1>4, <2>1 DEF IdsOf
<1>. QED
  BY <1>1, <1>2, <1>3, <1>4

(***************************************************************************)
(* The line at the head of the terminal is in no other place, and before   *)
(* all the others.                                                         *)
(***************************************************************************)
LEMMA HeadOfTerminal ==
  ASSUME Lines, terminal # <<>>
  PROVE  /\ Head(terminal) \in Line /\ Tail(terminal) \in Seq(Line)
         /\ \A i : i \in IdsOf(terminal) <=> i \in IdsOf(Tail(terminal)) \/ i = Head(terminal).id
         /\ \A i \in IdsOf(Tail(terminal)) : Head(terminal).id < i
         /\ \A j, k \in 1 .. Len(Tail(terminal)) :
              j < k => Tail(terminal)[j].id < Tail(terminal)[k].id
<1>1. terminal \in Seq(Messages) /\ terminal \in Seq(Line)
  BY MessageId, SeqMonotonic DEF Lines, LineTypes
<1>2. Head(terminal) \in Line /\ Tail(terminal) \in Seq(Line)
  BY <1>1, HeadTailProperties
<1>3. \A i : i \in IdsOf(terminal) <=> i \in IdsOf(Tail(terminal)) \/ i = Head(terminal).id
  BY <1>1, <1>2, HeadIds, MessageId
<1>4. /\ Len(terminal) \in Nat /\ Len(terminal) >= 1 /\ Head(terminal) = terminal[1]
      /\ Len(Tail(terminal)) = Len(terminal) - 1
      /\ \A k \in 1 .. Len(Tail(terminal)) :
           Tail(terminal)[k] = terminal[k + 1] /\ k + 1 \in 1 .. Len(terminal)
  BY <1>1, HeadIds
<1>5. \A j, k \in 1 .. Len(terminal) : j < k => terminal[j].id < terminal[k].id
  BY DEF Lines, Ordered
<1>6. ASSUME NEW i \in IdsOf(Tail(terminal)) PROVE Head(terminal).id < i
  <2>1. PICK k \in 1 .. Len(Tail(terminal)) : i = Tail(terminal)[k].id
    BY <1>6 DEF IdsOf
  <2>2. 1 \in 1 .. Len(terminal) /\ 1 < k + 1
    BY <1>4
  <2>. QED
    BY <1>4, <1>5, <2>1, <2>2
<1>7. ASSUME NEW j \in 1 .. Len(Tail(terminal)), NEW k \in 1 .. Len(Tail(terminal)), j < k
      PROVE  Tail(terminal)[j].id < Tail(terminal)[k].id
  <2>1. j + 1 < k + 1
    BY <1>7
  <2>. QED
    BY <1>4, <1>5, <2>1
<1>. QED
  BY <1>2, <1>3, <1>6, <1>7

-----------------------------------------------------------------------------
(***************************************************************************)
(* What got[p] becomes when a message is added to it.                      *)
(***************************************************************************)
LEMMA GotMore ==
  ASSUME LineTypes, NEW w \in Prompts, NEW m \in Messages,
         got' = [got EXCEPT ![w] = Append(@, m)]
  PROVE  /\ got' \in [Prompts -> Seq(Messages)]
         /\ \A p \in Prompts : p # w => GotBy(p)' = GotBy(p)
         /\ \A i : i \in GotBy(w)' <=> i \in GotBy(w) \/ (i = m.id /\ i # 0)
<1>1. got[w] \in Seq(Messages) /\ got'[w] = Append(got[w], m)
  BY DEF LineTypes
<1>2. got' \in [Prompts -> Seq(Messages)]
  BY <1>1, AppendIds DEF LineTypes
<1>3. \A p \in Prompts : p # w => got'[p] = got[p]
  BY DEF LineTypes
<1>. QED
  BY <1>1, <1>2, <1>3, AppendIds DEF GotBy

(***************************************************************************)
(* A line is typed.                                                        *)
(***************************************************************************)
LEMMA TypeLines ==
  ASSUME Lines, Loop, NEW text \in Texts, Type(text)
  PROVE  Lines'
<1>. DEFINE m == [id |-> typed + 1, text |-> text, at |-> showing]
<1>1. /\ typed \in Nat /\ typed' = typed + 1 /\ typed + 1 <= MaxLines
      /\ terminal' = Append(terminal, m)
      /\ UNCHANGED <<channel, got, inputs>>
  BY BoundsAssumption DEF Type, Lines, LineTypes, ioVars
<1>2. m \in Line /\ m \in Messages /\ m.id = typed + 1 /\ m.id # 0
  <2>1. typed + 1 \in 1 .. MaxLines /\ showing \in 0 .. MaxPrompts
    BY <1>1, BoundsAssumption DEF Loop, LoopTypes
  <2>2. m \in Line
    BY <2>1 DEF Line
  <2>. QED
    BY <1>1, <2>2, MessageId
<1>. HIDE DEF m
<1>3. terminal \in Seq(Line) /\ terminal \in Seq(Messages)
  BY MessageId, SeqMonotonic DEF Lines, LineTypes
<1>4. \A i : i \in IdsOf(terminal)' <=> i \in IdsOf(terminal) \/ i = typed + 1
  BY <1>1, <1>2, <1>3, AppendIds
<1>5. IdsOf(channel)' = IdsOf(channel) /\ \A p \in Prompts : GotBy(p)' = GotBy(p)
  BY <1>1 DEF GotBy
<1>6. LineTypes'
  BY <1>1, <1>2, <1>3, AppendProperties DEF Lines, LineTypes
<1>7. Typed'
  BY <1>1, <1>4, <1>5 DEF Lines, Typed
<1>8. Somewhere'
  <2>1. ASSUME NEW i \in 1 .. typed' PROVE i \in 1 .. typed \/ i = typed + 1
    BY <1>1
  <2>. QED
    BY <1>1, <1>4, <1>5, <2>1 DEF Lines, Somewhere
<1>9. Ordered'
  <2>1. \A i \in IdsOf(channel)', j \in IdsOf(terminal)' : i < j
    BY <1>1, <1>4, <1>5 DEF Lines, Ordered, Typed
  <2>2. /\ Len(terminal') = Len(terminal) + 1 /\ Len(terminal) \in Nat
        /\ \A k \in 1 .. Len(terminal) : terminal'[k] = terminal[k]
        /\ terminal'[Len(terminal) + 1] = m
    BY <1>1, <1>2, <1>3, AppendProperties, LenProperties
  <2>3. \A k \in 1 .. Len(terminal) : terminal[k].id \in 1 .. typed
    <3>1. \A k \in 1 .. Len(terminal) : terminal[k].id \in IdsOf(terminal)
      BY <1>3, ElementOfSeq, MessageId DEF IdsOf
    <3>. QED
      BY <3>1 DEF Lines, Typed
  <2>4. ASSUME NEW j \in 1 .. Len(terminal'), NEW k \in 1 .. Len(terminal'), j < k
        PROVE  terminal'[j].id < terminal'[k].id
    <3>1. j \in 1 .. Len(terminal) /\ (k \in 1 .. Len(terminal) \/ k = Len(terminal) + 1)
      BY <2>2, <2>4
    <3>2. CASE k \in 1 .. Len(terminal)
      BY <2>2, <2>4, <3>1, <3>2 DEF Lines, Ordered
    <3>3. CASE k = Len(terminal) + 1
      <4>1. terminal'[j].id \in 1 .. typed /\ terminal'[k].id = typed + 1
        BY <1>2, <2>2, <2>3, <3>1, <3>3
      <4>. QED
        BY <1>1, <4>1
    <3>. QED
      BY <3>1, <3>2, <3>3
  <2>. QED
    BY <2>1, <2>4 DEF Ordered
<1>10. Apart'
  <2>1. ~(typed + 1 \in 1 .. typed)
    BY <1>1
  <2>2. ChannelOnce'
    BY <1>1 DEF Lines, Apart, ChannelOnce
  <2>. QED
    BY <1>1, <1>4, <1>5, <2>1, <2>2 DEF Lines, Apart, Typed
<1>. QED
  BY <1>6, <1>7, <1>8, <1>9, <1>10 DEF Lines

(***************************************************************************)
(* Anything but a line goes to a handler that waits, or into the channel.  *)
(***************************************************************************)
LEMMA SendLines ==
  ASSUME Lines, PromptTypes, NEW m \in Messages, Send(m), UNCHANGED <<typed, inputs>>,
         \/ m.id = 0 /\ terminal' = terminal
         \/ terminal # <<>> /\ m = Head(terminal) /\ terminal' = Tail(terminal)
  PROVE  Lines'
<1>1. m.id \in Nat
  BY MessageId
<1>2. /\ terminal' \in Seq(Line)
      /\ \A i : i \in IdsOf(terminal) <=> i \in IdsOf(terminal)' \/ (i = m.id /\ i # 0)
      /\ m.id # 0 => /\ m.id \notin IdsOf(terminal)'
                     /\ \A i \in IdsOf(terminal)' : m.id < i
      /\ \A j, k \in 1 .. Len(terminal') : j < k => terminal'[j].id < terminal'[k].id
  <2>1. CASE m.id = 0 /\ terminal' = terminal
    BY <2>1 DEF Lines, LineTypes, Ordered
  <2>2. CASE terminal # <<>> /\ m = Head(terminal) /\ terminal' = Tail(terminal)
    <3>1. m.id # 0 /\ \A i \in IdsOf(terminal)' : m.id < i
      BY <2>2, HeadOfTerminal, MessageId
    <3>2. m.id \notin IdsOf(terminal)'
      BY <1>1, <3>1
    <3>. QED
      BY <2>2, <3>1, <3>2, HeadOfTerminal
  <2>. QED
    BY <2>1, <2>2
<1>3. CASE waiters = <<>>
  <2>1. channel' = Append(channel, m) /\ got' = got
    BY <1>3 DEF Send
  <2>2. channel \in Seq(Messages)
    BY DEF Lines, LineTypes
  <2>3. /\ channel' \in Seq(Messages)
        /\ \A i : i \in IdsOf(channel)' <=> i \in IdsOf(channel) \/ (i = m.id /\ i # 0)
    BY <2>1, <2>2, AppendIds
  <2>4. \A p \in Prompts : GotBy(p)' = GotBy(p)
    BY <2>1 DEF GotBy
  <2>5. LineTypes'
    BY <1>2, <2>1, <2>3 DEF Lines, LineTypes
  <2>6. Typed'
    BY <1>2, <2>3, <2>4 DEF Lines, Typed
  <2>7. Somewhere'
    BY <1>2, <2>3, <2>4 DEF Lines, Somewhere
  <2>8. Ordered'
    BY <1>2, <2>3 DEF Lines, Ordered
  <2>9. ChannelOnce'
    <3>1. /\ Len(channel') = Len(channel) + 1 /\ Len(channel) \in Nat
          /\ \A k \in 1 .. Len(channel) : channel'[k] = channel[k]
          /\ channel'[Len(channel) + 1] = m
      BY <2>1, <2>2, AppendProperties, LenProperties
    <3>2. \A k \in 1 .. Len(channel) : channel[k].id = 0 \/ channel[k].id \in IdsOf(channel)
      BY DEF IdsOf
    <3>3. m.id # 0 => m.id \notin IdsOf(channel)
      BY <1>1, <1>2 DEF Lines, Ordered
    <3>. SUFFICES ASSUME NEW j \in 1 .. Len(channel'), NEW k \in 1 .. Len(channel'), j # k
                  PROVE  channel'[j].id # channel'[k].id \/ channel'[j].id = 0
      BY DEF ChannelOnce
    <3>4. /\ j \in 1 .. Len(channel) \/ j = Len(channel) + 1
          /\ k \in 1 .. Len(channel) \/ k = Len(channel) + 1
      BY <3>1
    <3>5. CASE j \in 1 .. Len(channel) /\ k \in 1 .. Len(channel)
      BY <3>1, <3>5 DEF Lines, Apart, ChannelOnce
    <3>6. CASE j \in 1 .. Len(channel) /\ k = Len(channel) + 1
      BY <3>1, <3>2, <3>3, <3>6
    <3>7. CASE j = Len(channel) + 1 /\ k \in 1 .. Len(channel)
      BY <3>1, <3>2, <3>3, <3>7
    <3>. QED
      BY <3>4, <3>5, <3>6, <3>7
  <2>10. Apart'
    BY <1>2, <2>3, <2>4, <2>9 DEF Lines, Apart
  <2>. QED
    BY <2>5, <2>6, <2>7, <2>8, <2>10 DEF Lines
<1>4. CASE waiters # <<>>
  <2>1. Head(waiters) \in Prompts
    BY <1>4, HeadTailProperties DEF PromptTypes
  <2>2. PICK w \in Prompts : w = Head(waiters)
    BY <2>1
  <2>3. got' = [got EXCEPT ![w] = Append(@, m)] /\ channel' = channel
    BY <1>4, <2>2 DEF Send
  <2>4. /\ got' \in [Prompts -> Seq(Messages)]
        /\ \A p \in Prompts : p # w => GotBy(p)' = GotBy(p)
        /\ \A i : i \in GotBy(w)' <=> i \in GotBy(w) \/ (i = m.id /\ i # 0)
    BY <2>3, GotMore DEF Lines
  <2>5. IdsOf(channel)' = IdsOf(channel)
    BY <2>3
  <2>6. LineTypes'
    BY <1>2, <2>3, <2>4 DEF Lines, LineTypes
  <2>7. Typed'
    BY <1>2, <2>4, <2>5 DEF Lines, Typed
  <2>8. Somewhere'
    BY <1>2, <2>4, <2>5 DEF Lines, Somewhere
  <2>9. Ordered'
    BY <1>2, <2>5 DEF Lines, Ordered
  <2>10. Apart'
    <3>1. ChannelOnce'
      BY <2>3 DEF Lines, Apart, ChannelOnce
    <3>2. m.id # 0 => m.id \notin inputs /\ m.id \notin IdsOf(channel)
      BY <1>1, <1>2 DEF Lines, Ordered, Apart
    <3>3. m.id # 0 => \A p \in Prompts : m.id \notin GotBy(p)
      BY <1>2 DEF Lines, Apart
    <3>4. \A p \in Prompts : \A i \in GotBy(p)' :
            i \notin inputs /\ i \notin IdsOf(channel) /\ i \notin IdsOf(terminal)'
      BY <1>2, <2>4, <3>2 DEF Lines, Apart
    <3>5. \A p, q \in Prompts : p # q => \A i \in GotBy(p)' : i \notin GotBy(q)'
      BY <2>4, <3>3 DEF Lines, Apart
    <3>6. \A i \in inputs : i \notin IdsOf(channel) /\ i \notin IdsOf(terminal)'
      BY <1>2 DEF Lines, Apart
    <3>. QED
      BY <2>5, <3>1, <3>4, <3>5, <3>6 DEF Apart
  <2>. QED
    BY <2>6, <2>7, <2>8, <2>9, <2>10 DEF Lines
<1>. QED
  BY <1>3, <1>4

(***************************************************************************)
(* The main loop takes a line, or a handler takes what is in the channel.  *)
(***************************************************************************)
LEMMA MainReadsLines ==
  ASSUME Lines, MainReads
  PROVE  Lines'
<1>. DEFINE m == Head(terminal)
<1>1. /\ terminal # <<>> /\ terminal' = Tail(terminal) /\ inputs' = inputs \cup {m.id}
      /\ UNCHANGED <<typed, channel, got>>
  BY DEF MainReads
<1>2. /\ m \in Line /\ terminal' \in Seq(Line)
      /\ \A i : i \in IdsOf(terminal) <=> i \in IdsOf(terminal)' \/ i = m.id
      /\ \A i \in IdsOf(terminal)' : m.id < i
      /\ \A j, k \in 1 .. Len(terminal') : j < k => terminal'[j].id < terminal'[k].id
  BY <1>1, HeadOfTerminal
<1>. HIDE DEF m
<1>3. m.id \in Nat /\ m.id \in 1 .. MaxLines /\ m.id \notin IdsOf(terminal)'
  <2>1. m.id \in 1 .. MaxLines
    BY <1>2, MessageId
  <2>2. m.id \in Nat
    BY <2>1
  <2>. QED
    BY <1>2, <2>1, <2>2
<1>4. IdsOf(channel)' = IdsOf(channel) /\ \A p \in Prompts : GotBy(p)' = GotBy(p)
  BY <1>1 DEF GotBy
<1>5. \A i : i \in inputs' <=> i \in inputs \/ i = m.id
  BY <1>1
<1>6. LineTypes'
  BY <1>1, <1>2, <1>3 DEF Lines, LineTypes
<1>7. Typed'
  BY <1>1, <1>2, <1>4, <1>5 DEF Lines, Typed
<1>8. Somewhere'
  BY <1>1, <1>2, <1>4, <1>5 DEF Lines, Somewhere
<1>9. Ordered'
  BY <1>2, <1>4 DEF Lines, Ordered
<1>10. Apart'
  <2>1. ChannelOnce'
    BY <1>1 DEF Lines, Apart, ChannelOnce
  <2>2. m.id \notin IdsOf(channel)
    BY <1>2, <1>3 DEF Lines, Ordered
  <2>3. \A p \in Prompts : m.id \notin GotBy(p)
    BY <1>2 DEF Lines, Apart
  <2>. QED
    BY <1>2, <1>3, <1>4, <1>5, <2>1, <2>2, <2>3 DEF Lines, Apart
<1>. QED
  BY <1>6, <1>7, <1>8, <1>9, <1>10 DEF Lines

\* A handler that receives takes the first line of the channel, which is then its own.
LEMMA ReceiveLines ==
  ASSUME Lines, NEW w \in Prompts, Receive(w)
  PROVE  Lines'
<1>1. UNCHANGED <<typed, terminal, inputs>>
  BY DEF Receive
<1>2. CASE channel = <<>>
  <2>1. UNCHANGED <<channel, got>>
    BY <1>2 DEF Receive
  <2>2. IdsOf(terminal)' = IdsOf(terminal) /\ IdsOf(channel)' = IdsOf(channel)
    BY <1>1, <2>1
  <2>3. \A p \in Prompts : GotBy(p)' = GotBy(p)
    BY <2>1 DEF GotBy
  <2>. QED
    BY <1>1, <2>1, <2>2, <2>3
       DEF Lines, LineTypes, Typed, Somewhere, Ordered, Apart, ChannelOnce
<1>3. CASE channel # <<>>
  <2>. DEFINE m == Head(channel)
  <2>1. channel' = Tail(channel) /\ got' = [got EXCEPT ![w] = Append(@, m)]
    BY <1>3 DEF Receive
  <2>2. /\ m \in Messages /\ channel' \in Seq(Messages) /\ m = channel[1]
        /\ Len(channel') = Len(channel) - 1 /\ Len(channel) \in Nat /\ Len(channel) >= 1
        /\ \A k \in 1 .. Len(channel') : channel'[k] = channel[k + 1] /\ k + 1 \in 1 .. Len(channel)
        /\ \A i : i \in IdsOf(channel) <=> i \in IdsOf(channel)' \/ (i = m.id /\ i # 0)
    BY <1>3, <2>1, HeadIds DEF Lines, LineTypes
  <2>. HIDE DEF m
  <2>3. /\ got' \in [Prompts -> Seq(Messages)]
        /\ \A p \in Prompts : p # w => GotBy(p)' = GotBy(p)
        /\ \A i : i \in GotBy(w)' <=> i \in GotBy(w) \/ (i = m.id /\ i # 0)
    BY <2>1, <2>2, GotMore DEF Lines
  <2>4. IdsOf(terminal)' = IdsOf(terminal)
    BY <1>1
  <2>5. m.id # 0 => m.id \notin IdsOf(channel)'
    <3>. SUFFICES ASSUME m.id # 0, m.id \in IdsOf(channel)' PROVE FALSE
      OBVIOUS
    <3>1. PICK k \in 1 .. Len(channel') : m.id = channel'[k].id
      BY DEF IdsOf
    <3>2. k + 1 \in 1 .. Len(channel) /\ 1 \in 1 .. Len(channel) /\ k + 1 # 1
      BY <2>2
    <3>. QED
      BY <2>2, <3>1, <3>2 DEF Lines, Apart, ChannelOnce
  <2>6. LineTypes'
    BY <1>1, <2>2, <2>3 DEF Lines, LineTypes
  <2>7. Typed'
    BY <1>1, <2>2, <2>3, <2>4 DEF Lines, Typed
  <2>8. Somewhere'
    <3>. SUFFICES ASSUME NEW i \in 1 .. typed
                  PROVE  i \in inputs \/ i \in IdsOf(channel)' \/ i \in IdsOf(terminal)
                           \/ \E p \in Prompts : i \in GotBy(p)'
      BY <1>1, <2>4 DEF Somewhere
    <3>1. CASE i \in inputs \/ i \in IdsOf(terminal)
      BY <3>1
    <3>2. CASE i \in IdsOf(channel)
      BY <2>2, <2>3, <3>2
    <3>3. ASSUME NEW p \in Prompts, i \in GotBy(p) PROVE i \in GotBy(p)'
      BY <2>3, <3>3
    <3>. QED
      BY <3>1, <3>2, <3>3 DEF Lines, Somewhere
  <2>9. Ordered'
    BY <1>1, <2>2, <2>4 DEF Lines, Ordered
  <2>10. Apart'
    <3>1. ChannelOnce'
      <4>. SUFFICES ASSUME NEW j \in 1 .. Len(channel'), NEW k \in 1 .. Len(channel'), j # k
                    PROVE  channel'[j].id # channel'[k].id \/ channel'[j].id = 0
        BY DEF ChannelOnce
      <4>1. j + 1 # k + 1
        BY <2>2
      <4>. QED
        BY <2>2, <4>1 DEF Lines, Apart, ChannelOnce
    <3>2. m.id # 0 => m.id \notin inputs /\ m.id \notin IdsOf(terminal)
      <4>1. m.id \in Nat /\ ~(m.id < m.id)
        BY <2>2, MessageId
      <4>. QED
        BY <2>2, <4>1 DEF Lines, Ordered, Apart
    <3>3. m.id # 0 => \A p \in Prompts : m.id \notin GotBy(p)
      BY <2>2 DEF Lines, Apart
    <3>4. \A p \in Prompts : \A i \in GotBy(p)' :
            i \notin inputs /\ i \notin IdsOf(channel)' /\ i \notin IdsOf(terminal)
      BY <2>2, <2>3, <2>5, <3>2 DEF Lines, Apart
    <3>5. \A p, q \in Prompts : p # q => \A i \in GotBy(p)' : i \notin GotBy(q)'
      BY <2>3, <3>3 DEF Lines, Apart
    <3>6. \A i \in inputs : i \notin IdsOf(channel)' /\ i \notin IdsOf(terminal)
      BY <2>2 DEF Lines, Apart
    <3>. QED
      BY <1>1, <2>4, <3>1, <3>4, <3>5, <3>6 DEF Apart
  <2>. QED
    BY <2>6, <2>7, <2>8, <2>9, <2>10 DEF Lines
<1>. QED
  BY <1>2, <1>3

(***************************************************************************)
(* No other step moves a line.                                             *)
(***************************************************************************)
LEMMA LinesKept ==
  ASSUME Lines, UNCHANGED <<typed, terminal, channel, got, inputs>>
  PROVE  Lines'
<1>1. IdsOf(terminal)' = IdsOf(terminal) /\ IdsOf(channel)' = IdsOf(channel)
  OBVIOUS
<1>2. \A p \in Prompts : GotBy(p)' = GotBy(p)
  BY DEF GotBy
<1>. QED
  BY <1>1, <1>2 DEF Lines, LineTypes, Typed, Somewhere, Ordered, Apart, ChannelOnce

-----------------------------------------------------------------------------
(***************************************************************************)
(* A message for a handler that waits takes it off the queue; without one  *)
(* it stays in the channel.                                                *)
(***************************************************************************)
LEMMA SendHandlers ==
  ASSUME LineTypes, Handlers, NEW m \in Messages, Send(m),
         UNCHANGED <<shown, kind, request, decision>>
  PROVE  Handlers'
<1>1. CASE waiters = <<>>
  <2>1. UNCHANGED <<waiters, handler, got>>
    BY <1>1 DEF Send
  <2>2. PromptTypes'
    BY <2>1 DEF Handlers, PromptTypes
  <2>3. Queue'
    BY <1>1, <2>1 DEF Handlers, Queue
  <2>4. \A p \in Prompts : Prompt(p)'
    BY <2>1 DEF Handlers, Prompt, LastGot
  <2>. QED
    BY <2>2, <2>3, <2>4 DEF Handlers
<1>2. CASE waiters # <<>>
  <2>1. /\ Head(waiters) \in Prompts /\ Head(waiters) = waiters[1]
        /\ Tail(waiters) \in Seq(Prompts) /\ Len(waiters) \in Nat /\ Len(waiters) >= 1
        /\ Len(Tail(waiters)) = Len(waiters) - 1
        /\ \A k \in 1 .. Len(Tail(waiters)) : Tail(waiters)[k] = waiters[k + 1]
    BY <1>2, HeadTailProperties, EmptySeq DEF Handlers, PromptTypes
  <2>2. PICK w \in Prompts : w = Head(waiters)
    BY <2>1
  <2>3. /\ waiters' = Tail(waiters)
        /\ handler' = [handler EXCEPT ![w] = "resumed"]
        /\ got' = [got EXCEPT ![w] = Append(@, m)]
        /\ channel' = channel
    BY <1>2, <2>2 DEF Send
  <2>4. handler[w] = "waiting"
    <3>1. 1 \in 1 .. Len(waiters) /\ waiters[1] = w
      BY <2>1, <2>2
    <3>. QED
      BY <3>1 DEF Handlers, Queue
  <2>5. /\ handler'[w] = "resumed" /\ got'[w] # <<>>
        /\ \A p \in Prompts : p # w => handler'[p] = handler[p] /\ got'[p] = got[p]
    <3>1. got[w] \in Seq(Messages) /\ got'[w] = Append(got[w], m)
      BY <2>3 DEF LineTypes
    <3>2. got'[w] # <<>>
      BY <3>1, AppendProperties
    <3>. QED
      BY <2>3, <3>2 DEF Handlers, PromptTypes, LineTypes
  <2>6. PromptTypes'
    BY <2>1, <2>3 DEF Handlers, PromptTypes
  <2>7. Queue'
    <3>1. \A j, k \in 1 .. Len(waiters) : j # k => waiters[j] # waiters[k]
      BY DEF Handlers, Queue
    <3>2. ASSUME NEW j \in 1 .. Len(waiters'), NEW k \in 1 .. Len(waiters'), j # k
          PROVE  waiters'[j] # waiters'[k]
      <4>1. j + 1 \in 1 .. Len(waiters) /\ k + 1 \in 1 .. Len(waiters) /\ j + 1 # k + 1
        BY <2>1, <2>3, <3>2
      <4>. QED
        BY <2>1, <2>3, <3>1, <4>1
    <3>3. ASSUME NEW p \in Prompts
          PROVE  handler'[p] = "waiting" <=> \E k \in 1 .. Len(waiters') : waiters'[k] = p
      <4>1. CASE p = w
        <5>1. ASSUME NEW k \in 1 .. Len(waiters') PROVE waiters'[k] # w
          <6>1. k + 1 \in 1 .. Len(waiters) /\ 1 \in 1 .. Len(waiters) /\ k + 1 # 1
            BY <2>1, <2>3, <5>1
          <6>. QED
            BY <2>1, <2>2, <2>3, <3>1, <6>1
        <5>. QED
          BY <2>5, <4>1, <5>1
      <4>2. CASE p # w
        <5>1. ASSUME NEW k \in 1 .. Len(waiters), waiters[k] = p
              PROVE  k - 1 \in 1 .. Len(waiters') /\ waiters'[k - 1] = p
          <6>1. k # 1
            BY <2>1, <2>2, <4>2, <5>1
          <6>2. k - 1 \in 1 .. Len(waiters') /\ (k - 1) + 1 = k
            BY <2>1, <2>3, <6>1
          <6>. QED
            BY <2>1, <2>3, <5>1, <6>2
        <5>2. ASSUME NEW k \in 1 .. Len(waiters'), waiters'[k] = p
              PROVE  k + 1 \in 1 .. Len(waiters) /\ waiters[k + 1] = p
          BY <2>1, <2>3, <5>2
        <5>. QED
          BY <2>5, <4>2, <5>1, <5>2 DEF Handlers, Queue
      <4>. QED
        BY <4>1, <4>2
    <3>4. waiters' # <<>> => channel' = <<>>
      BY <1>2, <2>3 DEF Handlers, Queue
    <3>. QED
      BY <3>2, <3>3, <3>4 DEF Queue
  <2>8. ASSUME NEW p \in Prompts PROVE Prompt(p)'
    <3>1. CASE p = w
      BY <2>4, <2>5, <3>1 DEF Handlers, Prompt
    <3>2. CASE p # w
      BY <2>5, <3>2 DEF Handlers, Prompt, LastGot
    <3>. QED
      BY <3>1, <3>2
  <2>. QED
    BY <2>6, <2>7, <2>8 DEF Handlers
<1>. QED
  BY <1>1, <1>2

(***************************************************************************)
(* The queue does not notice a step of a handler that does not wait.       *)
(***************************************************************************)
LEMMA QueueKept ==
  ASSUME Queue, UNCHANGED waiters, waiters # <<>> => channel' = <<>>,
         \A p \in Prompts : handler'[p] = "waiting" <=> handler[p] = "waiting"
  PROVE  Queue'
BY DEF Queue

(***************************************************************************)
(* A prompt is shown, in a number not used before.                         *)
(***************************************************************************)
LEMMA ShowPromptHandlers ==
  ASSUME Handlers, NEW k \in Kinds, ShowPrompt(k)
  PROVE  Handlers' /\ shown' <= MaxPrompts
<1>1. PICK n \in Prompts : n = shown + 1 /\ n > shown /\ n <= MaxPrompts /\ n \in Nat
  BY BoundsAssumption DEF ShowPrompt, Handlers, PromptTypes, Prompts
<1>2. /\ shown' = n
      /\ kind' = [kind EXCEPT ![n] = k]
      /\ request' = [request EXCEPT ![n] = "waiting"]
      /\ handler' = [handler EXCEPT ![n] = "checking"]
      /\ UNCHANGED <<waiters, channel, got, decision>>
  BY <1>1 DEF ShowPrompt
<1>3. request[n] = "unused" /\ handler[n] = "none"
  BY <1>1 DEF Handlers, Prompt
<1>4. PromptTypes'
  BY <1>1, <1>2, KindsAssumption DEF Handlers, PromptTypes
<1>5. Queue'
  BY <1>2, <1>3, QueueKept DEF Handlers, PromptTypes, Queue
<1>6. ASSUME NEW p \in Prompts PROVE Prompt(p)'
  <2>1. p > shown' => p > shown /\ p # n
    BY <1>1, <1>2 DEF Prompts, Handlers, PromptTypes
  <2>2. CASE p = n
    BY <1>2, <1>3, <2>1, <2>2 DEF Handlers, PromptTypes, Prompt
  <2>3. CASE p # n
    <3>1. handler'[p] = handler[p] /\ request'[p] = request[p]
      BY <1>2, <2>3 DEF Handlers, PromptTypes
    <3>. QED
      BY <1>2, <2>1, <3>1 DEF Handlers, Prompt, LastGot
  <2>. QED
    BY <2>2, <2>3
<1>. QED
  BY <1>1, <1>2, <1>4, <1>5, <1>6 DEF Handlers

(***************************************************************************)
(* The handler of a prompt answers its request, if that still waits.       *)
(***************************************************************************)
LEMMA FinishHandlers ==
  ASSUME Handlers, NEW p \in Prompts, NEW allow \in BOOLEAN, Finish(p, allow),
         handler[p] \in {"checking", "resumed"},
         allow => got[p] # <<>> /\ LastGot(p).text = "y",
         UNCHANGED <<waiters, channel, shown, kind, got>>
  PROVE  Handlers'
<1>1. /\ handler' = [handler EXCEPT ![p] = "done"]
      /\ request' = [request EXCEPT ![p] = IF @ = "waiting" THEN "answered" ELSE @]
      /\ decision' = [decision EXCEPT ![p] = IF request[p] # "waiting" THEN @
                                             ELSE IF allow THEN "allow" ELSE "deny"]
  BY DEF Finish
<1>2. PromptTypes'
  BY <1>1 DEF Handlers, PromptTypes
<1>3. Queue'
  BY <1>1, QueueKept DEF Handlers, PromptTypes, Queue
<1>4. ASSUME NEW q \in Prompts PROVE Prompt(q)'
  <2>1. CASE q = p
    <3>1. decision[p] # "allow" /\ ~(p > shown)
      BY DEF Handlers, Prompt
    <3>2. handler'[p] = "done"
      BY <1>1 DEF Handlers, PromptTypes
    <3>3. decision'[p] = "allow" => allow /\ request'[p] = "answered"
      BY <1>1, <3>1 DEF Handlers, PromptTypes
    <3>. QED
      BY <2>1, <3>1, <3>2, <3>3 DEF Prompt, LastGot
  <2>2. CASE q # p
    <3>1. handler'[q] = handler[q] /\ request'[q] = request[q] /\ decision'[q] = decision[q]
      BY <1>1, <2>2 DEF Handlers, PromptTypes
    <3>. QED
      BY <3>1 DEF Handlers, Prompt, LastGot
  <2>. QED
    BY <2>1, <2>2
<1>. QED
  BY <1>2, <1>3, <1>4 DEF Handlers

(***************************************************************************)
(* A handler that is not over goes on, with nothing decided.               *)
(***************************************************************************)
LEMMA GoesOnHandlers ==
  ASSUME Handlers, NEW p \in Prompts, NEW to \in {"checking", "receiving"},
         handler[p] \in {"checking", "resumed"},
         handler' = [handler EXCEPT ![p] = to],
         UNCHANGED <<waiters, channel, shown, kind, got, request, decision>>
  PROVE  Handlers'
<1>1. PromptTypes'
  BY DEF Handlers, PromptTypes
<1>2. Queue'
  BY QueueKept DEF Handlers, PromptTypes, Queue
<1>3. ASSUME NEW q \in Prompts PROVE Prompt(q)'
  <2>1. CASE q = p
    <3>1. decision[p] # "allow" /\ ~(p > shown) /\ handler'[p] = to
      BY DEF Handlers, Prompt, PromptTypes
    <3>. QED
      BY <2>1, <3>1 DEF Prompt
  <2>2. CASE q # p
    <3>1. handler'[q] = handler[q]
      BY <2>2 DEF Handlers, PromptTypes
    <3>. QED
      BY <3>1 DEF Handlers, Prompt, LastGot
  <2>. QED
    BY <2>1, <2>2
<1>. QED
  BY <1>1, <1>2, <1>3 DEF Handlers

(***************************************************************************)
(* A handler takes a message from the channel or gets in the queue.        *)
(***************************************************************************)
LEMMA ReceiveHandlers ==
  ASSUME LineTypes, Handlers, NEW p \in Prompts, Receive(p)
  PROVE  Handlers'
<1>1. /\ handler[p] = "receiving"
      /\ UNCHANGED <<shown, kind, request, decision>>
  BY DEF Receive
<1>2. decision[p] # "allow" /\ ~(p > shown)
  BY <1>1 DEF Handlers, Prompt
<1>3. CASE channel = <<>>
  <2>1. /\ waiters' = Append(waiters, p)
        /\ handler' = [handler EXCEPT ![p] = "waiting"]
        /\ UNCHANGED <<channel, got>>
    BY <1>3 DEF Receive
  <2>2. /\ waiters' \in Seq(Prompts)
        /\ Len(waiters') = Len(waiters) + 1 /\ Len(waiters) \in Nat
        /\ \A k \in 1 .. Len(waiters) : waiters'[k] = waiters[k]
        /\ waiters'[Len(waiters) + 1] = p
    BY <2>1, AppendProperties, LenProperties DEF Handlers, PromptTypes
  <2>3. PromptTypes'
    BY <1>1, <2>1, <2>2 DEF Handlers, PromptTypes
  <2>4. \A k \in 1 .. Len(waiters) : waiters[k] # p
    BY <1>1 DEF Handlers, Queue
  <2>5. Queue'
    <3>1. ASSUME NEW j \in 1 .. Len(waiters'), NEW k \in 1 .. Len(waiters'), j # k
          PROVE  waiters'[j] # waiters'[k]
      <4>1. /\ j \in 1 .. Len(waiters) \/ j = Len(waiters) + 1
            /\ k \in 1 .. Len(waiters) \/ k = Len(waiters) + 1
        BY <2>2
      <4>. QED
        BY <2>2, <2>4, <3>1, <4>1 DEF Handlers, Queue
    <3>2. ASSUME NEW q \in Prompts
          PROVE  handler'[q] = "waiting" <=> \E k \in 1 .. Len(waiters') : waiters'[k] = q
      <4>1. \A k \in 1 .. Len(waiters') : k \in 1 .. Len(waiters) \/ k = Len(waiters) + 1
        BY <2>2
      <4>2. /\ Len(waiters) + 1 \in 1 .. Len(waiters')
            /\ \A k \in 1 .. Len(waiters) : k \in 1 .. Len(waiters')
        BY <2>2
      <4>3. CASE q = p
        BY <2>1, <2>2, <4>2, <4>3 DEF Handlers, PromptTypes
      <4>4. CASE q # p
        <5>1. handler'[q] = handler[q]
          BY <2>1, <4>4 DEF Handlers, PromptTypes
        <5>. QED
          BY <2>2, <4>1, <4>2, <4>4, <5>1 DEF Handlers, Queue
      <4>. QED
        BY <4>3, <4>4
    <3>. QED
      BY <1>3, <2>1, <3>1, <3>2 DEF Queue
  <2>6. ASSUME NEW q \in Prompts PROVE Prompt(q)'
    <3>1. q # p => handler'[q] = handler[q]
      BY <2>1 DEF Handlers, PromptTypes
    <3>2. handler'[p] = "waiting"
      BY <2>1 DEF Handlers, PromptTypes
    <3>. QED
      BY <1>1, <1>2, <2>1, <3>1, <3>2 DEF Handlers, Prompt, LastGot
  <2>. QED
    BY <2>3, <2>5, <2>6 DEF Handlers
<1>4. CASE channel # <<>>
  <2>1. /\ handler' = [handler EXCEPT ![p] = "resumed"]
        /\ got' = [got EXCEPT ![p] = Append(@, Head(channel))]
        /\ UNCHANGED waiters
    BY <1>4 DEF Receive
  <2>2. waiters = <<>>
    BY <1>4 DEF Handlers, Queue
  <2>3. got'[p] # <<>> /\ \A q \in Prompts : q # p => got'[q] = got[q]
    <3>1. Head(channel) \in Messages /\ got[p] \in Seq(Messages)
      BY <1>4, HeadTailProperties DEF LineTypes
    <3>2. got'[p] = Append(got[p], Head(channel))
      BY <2>1 DEF LineTypes
    <3>3. got'[p] # <<>>
      BY <3>1, <3>2, AppendProperties
    <3>. QED
      BY <2>1, <3>3 DEF LineTypes
  <2>4. PromptTypes'
    BY <1>1, <2>1 DEF Handlers, PromptTypes
  <2>5. Queue'
    BY <1>1, <2>1, <2>2, QueueKept DEF Handlers, PromptTypes, Queue
  <2>6. ASSUME NEW q \in Prompts PROVE Prompt(q)'
    <3>1. CASE q = p
      BY <1>1, <1>2, <2>1, <2>3, <3>1 DEF Handlers, PromptTypes, Prompt
    <3>2. CASE q # p
      <4>1. handler'[q] = handler[q] /\ got'[q] = got[q]
        BY <2>1, <2>3, <3>2 DEF Handlers, PromptTypes
      <4>. QED
        BY <1>1, <4>1 DEF Handlers, Prompt, LastGot
    <3>. QED
      BY <3>1, <3>2
  <2>. QED
    BY <2>4, <2>5, <2>6 DEF Handlers
<1>. QED
  BY <1>3, <1>4

(***************************************************************************)
(* A request times out, which its handler does not notice.                 *)
(***************************************************************************)
LEMMA TimeOutHandlers ==
  ASSUME Handlers, NEW p \in Prompts, TimeOut(p)
  PROVE  Handlers'
<1>1. /\ request[p] = "waiting"
      /\ request' = [request EXCEPT ![p] = "timedout"]
      /\ decision' = [decision EXCEPT ![p] = "deny"]
      /\ UNCHANGED <<waiters, channel, shown, kind, handler, got>>
  BY DEF TimeOut
<1>2. PromptTypes' /\ Queue'
  BY <1>1 DEF Handlers, PromptTypes, Queue
<1>3. ASSUME NEW q \in Prompts PROVE Prompt(q)'
  <2>1. CASE q = p
    <3>1. ~(p > shown) /\ decision'[p] = "deny"
      BY <1>1 DEF Handlers, PromptTypes, Prompt
    <3>. QED
      BY <1>1, <2>1, <3>1 DEF Handlers, Prompt
  <2>2. CASE q # p
    <3>1. request'[q] = request[q] /\ decision'[q] = decision[q]
      BY <1>1, <2>2 DEF Handlers, PromptTypes
    <3>. QED
      BY <1>1, <3>1 DEF Handlers, Prompt, LastGot
  <2>. QED
    BY <2>1, <2>2
<1>. QED
  BY <1>2, <1>3 DEF Handlers

(***************************************************************************)
(* Steps that leave the prompts alone.                                     *)
(***************************************************************************)
LEMMA HandlersKept ==
  ASSUME Handlers,
         UNCHANGED <<waiters, channel, shown, kind, request, handler, got, decision>>
  PROVE  Handlers'
<1>1. PromptTypes' /\ Queue'
  BY DEF Handlers, PromptTypes, Queue
<1>2. \A p \in Prompts : Prompt(p)'
  BY DEF Handlers, Prompt, LastGot
<1>. QED
  BY <1>1, <1>2 DEF Handlers

-----------------------------------------------------------------------------
(***************************************************************************)
(* A new front end satisfies the invariant.                                *)
(***************************************************************************)
LEMMA InitIInv == Init => IInv
<1>. SUFFICES ASSUME Init PROVE IInv
  OBVIOUS
<1>1. IdsOf(<<>>) = {}
  BY DEF IdsOf
<1>2. IdsOf(terminal) = {} /\ IdsOf(channel) = {} /\ \A p \in Prompts : GotBy(p) = {}
  BY <1>1 DEF Init, GotBy
<1>3. LineTypes
  BY BoundsAssumption DEF Init, LineTypes
<1>4. Lines
  BY <1>2, <1>3, BoundsAssumption DEF Init, Lines, Typed, Somewhere, Ordered, Apart, ChannelOnce
<1>5. PromptTypes
  BY DEF Init, PromptTypes
<1>6. Queue /\ \A p \in Prompts : Prompt(p)
  BY DEF Init, Queue, Prompt
<1>7. Loop
  <2>1. 0 \in 0 .. MaxPrompts /\ 0 <= MaxPrompts
    BY BoundsAssumption
  <2>2. LoopTypes
    BY <2>1 DEF Init, LoopTypes
  <2>. QED
    BY <2>1, <2>2 DEF Init, Loop
<1>. QED
  BY <1>4, <1>5, <1>6, <1>7 DEF IInv, Handlers

(***************************************************************************)
(* What the user and the reader thread do.                                 *)
(***************************************************************************)
LEMMA InputIInv ==
  ASSUME IInv,
         (\E text \in Texts : Type(text)) \/ Close \/ ThreadReads \/ ThreadSeesEof \/ ThreadCancels
  PROVE  IInv'
<1>. USE DEF IInv, ioVars
<1>1. ASSUME NEW text \in Texts, Type(text) PROVE IInv'
  <2>1. Lines'
    BY <1>1, TypeLines
  <2>2. Handlers'
    BY <1>1, HandlersKept DEF Type
  <2>3. Loop'
    BY <1>1 DEF Type, Loop, LoopTypes
  <2>. QED
    BY <2>1, <2>2, <2>3
<1>2. ASSUME Close PROVE IInv'
  <2>1. Lines' /\ Handlers'
    BY <1>2, LinesKept, HandlersKept DEF Close
  <2>2. Loop'
    BY <1>2 DEF Close, Loop, LoopTypes
  <2>. QED
    BY <2>1, <2>2
<1>3. ASSUME ThreadReads PROVE IInv'
  <2>1. /\ terminal # <<>> /\ terminal' = Tail(terminal) /\ Send(Head(terminal))
        /\ UNCHANGED <<typed, closed, thread, eof, ioVars>>
    BY <1>3 DEF ThreadReads
  <2>2. Head(terminal) \in Messages
    BY <2>1, HeadOfTerminal, MessageId
  <2>3. Lines'
    BY <2>1, <2>2, SendLines DEF Handlers
  <2>4. Handlers'
    BY <2>1, <2>2, SendHandlers DEF Lines
  <2>5. Loop'
    BY <2>1 DEF Loop, LoopTypes
  <2>. QED
    BY <2>3, <2>4, <2>5
<1>4. ASSUME ThreadSeesEof PROVE IInv'
  <2>1. Lines' /\ Handlers'
    BY <1>4, LinesKept, HandlersKept DEF ThreadSeesEof
  <2>2. Loop'
    BY <1>4 DEF ThreadSeesEof, Loop, LoopTypes
  <2>. QED
    BY <2>1, <2>2
<1>5. ASSUME ThreadCancels PROVE IInv'
  <2>1. /\ thread' = "ended" /\ Send(Cancel)
        /\ UNCHANGED <<typed, terminal, closed, eof, ioVars>>
    BY <1>5 DEF ThreadCancels
  <2>2. Lines'
    BY <2>1, SendLines, MessageId DEF Handlers
  <2>3. Handlers'
    BY <2>1, SendHandlers, MessageId DEF Lines
  <2>4. Loop'
    BY <2>1 DEF Loop, LoopTypes
  <2>. QED
    BY <2>2, <2>3, <2>4
<1>. QED
  BY <1>1, <1>2, <1>3, <1>4, <1>5

(***************************************************************************)
(* What the main loop and a turn do.                                       *)
(***************************************************************************)
LEMMA MainIInv ==
  ASSUME IInv, MainReads \/ MainEnds \/ TurnOver \/ \E k \in Kinds : ShowPrompt(k)
  PROVE  IInv'
<1>. USE DEF IInv
<1>1. ASSUME MainReads PROVE IInv'
  <2>1. Lines'
    BY <1>1, MainReadsLines
  <2>2. Handlers'
    BY <1>1, HandlersKept DEF MainReads
  <2>3. Loop'
    BY <1>1 DEF MainReads, Loop, LoopTypes
  <2>. QED
    BY <2>1, <2>2, <2>3
<1>2. ASSUME MainEnds PROVE IInv'
  <2>1. Lines' /\ Handlers'
    BY <1>2, LinesKept, HandlersKept DEF MainEnds
  <2>2. Loop'
    BY <1>2 DEF MainEnds, Loop, LoopTypes
  <2>. QED
    BY <2>1, <2>2
<1>3. ASSUME TurnOver PROVE IInv'
  <2>1. Lines' /\ Handlers'
    BY <1>3, LinesKept, HandlersKept DEF TurnOver
  <2>2. Loop'
    BY <1>3, BoundsAssumption DEF TurnOver, Loop, LoopTypes
  <2>. QED
    BY <2>1, <2>2
<1>4. ASSUME NEW k \in Kinds, ShowPrompt(k) PROVE IInv'
  <2>1. Lines'
    BY <1>4, LinesKept DEF ShowPrompt
  <2>2. Handlers' /\ shown' <= MaxPrompts
    BY <1>4, ShowPromptHandlers
  <2>3. showing' \in 0 .. MaxPrompts
    BY <1>4, <2>2, BoundsAssumption DEF ShowPrompt, Handlers, PromptTypes
  <2>4. Loop'
    BY <1>4, <2>2, <2>3 DEF ShowPrompt, Loop, LoopTypes
  <2>. QED
    BY <2>1, <2>2, <2>4
<1>. QED
  BY <1>1, <1>2, <1>3, <1>4

(***************************************************************************)
(* What the handler of a prompt does, and its timer.                       *)
(***************************************************************************)
LEMMA HandleIInv ==
  ASSUME IInv, NEW p \in Prompts, Handle(p) \/ TimeOut(p)
  PROVE  IInv'
<1>. USE DEF IInv
<1>0. p \in 0 .. MaxPrompts /\ 0 \in 0 .. MaxPrompts
  BY BoundsAssumption DEF Prompts
<1>1. ASSUME CheckEof(p) PROVE IInv'
  <2>1. Lines'
    BY <1>1, LinesKept DEF CheckEof
  <2>2. CASE kind[p] = "permission"
    <3>1. Finish(p, FALSE) /\ busy' = 0
      BY <1>1, <2>2 DEF CheckEof, WithoutLine
    <3>2. Handlers'
      BY <1>1, <3>1, FinishHandlers DEF CheckEof
    <3>3. Loop'
      BY <1>0, <1>1, <3>1 DEF CheckEof, Finish, Loop, LoopTypes
    <3>. QED
      BY <2>1, <3>2, <3>3
  <2>3. CASE kind[p] # "permission"
    <3>1. busy' = p /\ showing' = p /\ UNCHANGED <<request, handler, decision>>
      BY <1>1, <2>3 DEF CheckEof, WithoutLine
    <3>2. Handlers'
      BY <1>1, <3>1, HandlersKept DEF CheckEof
    <3>3. Loop'
      BY <1>0, <1>1, <3>1 DEF CheckEof, Loop, LoopTypes
    <3>. QED
      BY <2>1, <3>2, <3>3
  <2>. QED
    BY <2>2, <2>3
<1>2. ASSUME CheckOpen(p) PROVE IInv'
  <2>1. Lines' /\ Handlers'
    BY <1>2, LinesKept, GoesOnHandlers DEF CheckOpen
  <2>2. Loop'
    BY <1>0, <1>2 DEF CheckOpen, Loop, LoopTypes
  <2>. QED
    BY <2>1, <2>2
<1>3. ASSUME Receive(p) PROVE IInv'
  <2>1. Lines' /\ Handlers'
    BY <1>3, ReceiveLines, ReceiveHandlers DEF Lines
  <2>2. Loop'
    BY <1>0, <1>3 DEF Receive, Loop, LoopTypes
  <2>. QED
    BY <2>1, <2>2
<1>4. ASSUME Decide(p) PROVE IInv'
  <2>1. Lines'
    BY <1>4, LinesKept DEF Decide
  <2>2. got[p] # <<>>
    BY <1>4 DEF Decide, Handlers, Prompt
  <2>3. Handlers'
    BY <1>4, <2>2, FinishHandlers DEF Decide, Allows
  <2>4. Loop'
    BY <1>0, <1>4 DEF Decide, Finish, Loop, LoopTypes
  <2>. QED
    BY <2>1, <2>3, <2>4
<1>5. ASSUME AskAgain(p) PROVE IInv'
  <2>1. Lines' /\ Handlers'
    BY <1>5, LinesKept, GoesOnHandlers DEF AskAgain
  <2>2. Loop'
    BY <1>0, <1>5 DEF AskAgain, Loop, LoopTypes
  <2>. QED
    BY <2>1, <2>2
<1>6. ASSUME TimeOut(p) PROVE IInv'
  <2>1. Lines'
    BY <1>6, LinesKept DEF TimeOut
  <2>2. Handlers'
    BY <1>6, TimeOutHandlers
  <2>3. Loop'
    BY <1>6 DEF TimeOut, Loop, LoopTypes
  <2>. QED
    BY <2>1, <2>2, <2>3
<1>. QED
  BY <1>1, <1>2, <1>3, <1>4, <1>5, <1>6 DEF Handle

\* Every step keeps the inductive invariant.
LEMMA NextIInv == IInv /\ [Next]_vars => IInv'
<1>. SUFFICES ASSUME IInv, [Next]_vars PROVE IInv'
  OBVIOUS
<1>1. ASSUME UNCHANGED vars PROVE IInv'
  <2>1. Lines' /\ Handlers'
    BY <1>1, LinesKept, HandlersKept DEF IInv, vars, ioVars
  <2>2. Loop'
    BY <1>1 DEF IInv, vars, ioVars, Loop, LoopTypes
  <2>. QED
    BY <2>1, <2>2 DEF IInv
<1>. QED
  BY <1>1, InputIInv, MainIInv, HandleIInv DEF Next

-----------------------------------------------------------------------------
(***************************************************************************)
(* The invariant gives the types and the properties.                       *)
(***************************************************************************)
LEMMA IInvTypeOK == IInv => TypeOK
<1>. SUFFICES ASSUME IInv PROVE TypeOK
  OBVIOUS
<1>1. LineTypes /\ PromptTypes /\ LoopTypes /\ typed <= MaxLines /\ shown <= MaxPrompts
  BY DEF IInv, Lines, Typed, Handlers, Loop
<1>2. typed \in 0 .. MaxLines /\ shown \in 0 .. MaxPrompts
  BY <1>1, BoundsAssumption DEF LineTypes, PromptTypes
<1>3. \A p \in Prompts : got[p] \in Seq(Messages)
  BY <1>1 DEF LineTypes
<1>. QED
  BY <1>1, <1>2, <1>3 DEF LineTypes, PromptTypes, LoopTypes, TypeOK

\* Each line in its place, and whoever waits in the queue: no line is lost, doubled or missed.
LEMMA IInvLines == IInv => LinesAccounted
<1>. SUFFICES ASSUME IInv PROVE LinesAccounted
  OBVIOUS
<1>1. LinesReadOnce
  <2>1. 1 .. typed = inputs \cup IdsOf(channel) \cup IdsOf(terminal) \cup UNION {GotBy(p) : p \in Prompts}
    <3>1. ASSUME NEW i \in 1 .. typed
          PROVE  i \in inputs \cup IdsOf(channel) \cup IdsOf(terminal) \cup UNION {GotBy(p) : p \in Prompts}
      BY DEF IInv, Lines, Somewhere
    <3>2. ASSUME NEW i \in inputs \cup IdsOf(channel) \cup IdsOf(terminal) \cup UNION {GotBy(p) : p \in Prompts}
          PROVE  i \in 1 .. typed
      BY DEF IInv, Lines, Typed
    <3>. QED
      BY <3>1, <3>2
  <2>2. inputs \cap (IdsOf(channel) \cup IdsOf(terminal)) = {}
    BY DEF IInv, Lines, Apart
  <2>3. \A i \in IdsOf(channel), j \in IdsOf(terminal) : i < j
    BY DEF IInv, Lines, Ordered
  <2>4. \A p \in Prompts : GotBy(p) \cap (inputs \cup IdsOf(channel) \cup IdsOf(terminal)) = {}
    BY DEF IInv, Lines, Apart
  <2>5. \A p, q \in Prompts : p # q => GotBy(p) \cap GotBy(q) = {}
    BY DEF IInv, Lines, Apart
  <2>. QED
    BY <2>1, <2>2, <2>3, <2>4, <2>5 DEF LinesReadOnce
<1>2. NoMissedWakeup
  <2>1. Queue /\ waiters \in Seq(Prompts)
    BY DEF IInv, Handlers, PromptTypes
  <2>2. \A k \in 1 .. Len(waiters) : waiters[k] \in Prompts
    BY <2>1, ElementOfSeq
  <2>. QED
    BY <2>1, <2>2 DEF Queue, NoMissedWakeup
<1>. QED
  BY <1>1, <1>2 DEF LinesAccounted

\* What holds of each prompt: nothing is allowed without a yes.
LEMMA IInvAllowed == IInv => AllowedByYes
BY DEF IInv, Handlers, Prompt, AllowedByYes

(***************************************************************************)
(* Every variable keeps its type, for any number of lines and prompts.     *)
(***************************************************************************)
THEOREM TypeCorrect == Spec => []TypeOK
BY InitIInv, NextIInv, IInvTypeOK, PTL DEF Spec

(***************************************************************************)
(* Each line typed is in one place, on its way to one reader, and no       *)
(* handler waits beside a message in the channel or outside the queue.     *)
(***************************************************************************)
THEOREM LinesAccountedCorrect == Spec => []LinesAccounted
BY InitIInv, NextIInv, IInvLines, PTL DEF Spec

(***************************************************************************)
(* A prompt that was allowed received a "y" while its request waited.      *)
(***************************************************************************)
THEOREM AllowedByYesCorrect == Spec => []AllowedByYes
BY InitIInv, NextIInv, IInvAllowed, PTL DEF Spec
=============================================================================
