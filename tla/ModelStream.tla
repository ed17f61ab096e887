---------------------------- MODULE ModelStream ----------------------------
(***************************************************************************)
(* One streamed call of a language model: OpenAIProvider and               *)
(* AnthropicProvider (protocol/openai_provider.h,                          *)
(* protocol/anthropic_provider.h), from the connection to the              *)
(* ChatCompletion they return.  The server sends events; what one read of  *)
(* the socket brings is any number of pieces of them: the text of an       *)
(* event, and the line breaks that end it: one for OpenAI, two (the end of *)
(* the line and an empty line) for Anthropic.  The node that retries the   *)
(* call is in ModelCall.                                                   *)
(***************************************************************************)
EXTENDS SequencesExt

CONSTANTS
  Words,        \* the tokens a content event brings: text, ThinkOpen and ThinkClose
  ThinkOpen, ThinkClose,  \* the tags some providers put around their thinking
  Indices,      \* indices of the tool calls
  MaxEvents,    \* bound of the model: events of the stream
  ServerEnds    \* whether the server ends each stream or breaks it off

Break == [kind |-> "break"]
Event(kind, index, data) == [kind |-> kind, index |-> index, data |-> data]
Events ==
  {Event("content", 0, w) : w \in Words} \union {Event("thinking", 0, "t"), Event("noise", 0, "")}
    \union {Event("tool", i, part) : i \in Indices, part \in {"id", "arguments"}}

VARIABLES
  provider,     \* "openai" or "anthropic"
  ending,       \* how the server ends its lines: "lf" or "crlf"
  phase,        \* "setup", "body", "shutdown", "returned" or "thrown"
  wire,         \* what the server sent and the client has not read
  sent,         \* the events the server has sent
  server,       \* "sends", "finished" or "broken"
  lineBuffer,   \* pieces read and not yet processed
  content, thinking, tcMap,    \* the accumulators
  shown,        \* what on_chunk was given
  completion    \* the content and thinking returned

call == <<provider, ending>>
vars == <<call, phase, wire, sent, server, lineBuffer, content, thinking, tcMap, shown, completion>>

accumulators == <<lineBuffer, content, thinking, tcMap, shown, completion>>

Init ==
  /\ provider \in {"openai", "anthropic"}
  /\ ending \in {"lf", "crlf"} /\ (provider = "openai" => ending = "lf")  \* which takes both
  /\ phase = "setup"
  /\ wire = <<>> /\ sent = <<>> /\ server = "sends"
  /\ lineBuffer = <<>> /\ content = <<>> /\ thinking = <<>>
  /\ tcMap = [i \in Indices |-> <<>>]
  /\ shown = <<>>
  /\ completion = [content |-> <<>>, thinking |-> <<>>]

(***************************************************************************)
(* The server (external)                                                   *)
(***************************************************************************)
Breaks == IF provider = "openai" THEN <<Break>> ELSE <<Break, Break>>

ServerSends ==
  /\ server = "sends" /\ phase = "body" /\ Len(sent) < MaxEvents
  /\ \E e \in Events : wire' = wire \o <<e>> \o Breaks /\ sent' = Append(sent, e)
  /\ UNCHANGED <<call, phase, server, accumulators>>

ServerFinishes ==
  /\ server = "sends" /\ phase = "body"
  /\ server' = "finished"
  /\ UNCHANGED <<call, phase, wire, sent, accumulators>>

\* The connection is lost, with any end of what is on the wire.
ServerBreaks ==
  /\ server = "sends" /\ phase = "body"
  /\ server' = "broken"
  /\ \E n \in 0 .. Len(wire) : wire' = SubSeq(wire, 1, n)
  /\ UNCHANGED <<call, phase, sent, accumulators>>

(***************************************************************************)
(* doStream                                                                *)
(***************************************************************************)
\* The header: a status other than 200 is thrown, 429 as a rate limit.
OpenAIHeader(status) == IF status = 200 THEN "body" ELSE "thrown"
AnthropicHeader(status) == IF status = 200 THEN "body" ELSE "thrown"

\* Resolving, connecting, the handshake, the request and the header: each
\* under the deadline.
Answered(status) ==
  /\ phase = "setup"
  /\ phase' = IF provider = "openai" THEN OpenAIHeader(status) ELSE AnthropicHeader(status)
  /\ UNCHANGED <<call, wire, sent, server, accumulators>>

TimesOut ==
  /\ phase = "setup"
  /\ phase' = "thrown"
  /\ UNCHANGED <<call, wire, sent, server, accumulators>>

\* Slip: what is processed is the read alone.
OnlyTheRead(read) == read

\* What processSseBuffer works on: the rest of earlier reads, then this one.
Buffered(read) == lineBuffer \o read

\* The pieces up to the last line break, and the rest kept for the next read.
LastBreak(buf) == Max({0} \union {i \in DOMAIN buf : buf[i] = Break})

\* Anthropic's blocks end with an empty line, looked for as two line feeds.
LastBlank(buf) ==
  Max({0} \union {i \in DOMAIN buf : i > 1 /\ ending = "lf" /\ buf[i] = Break /\ buf[i - 1] = Break})

Processed(buf) == IF provider = "openai" THEN LastBreak(buf) ELSE LastBlank(buf)

Lines(buf) == SelectSeq(SubSeq(buf, 1, Processed(buf)), LAMBDA e : e # Break)

Data(events, kind) ==
  LET chosen == SelectSeq(events, LAMBDA e : e.kind = kind)
  IN  [i \in DOMAIN chosen |-> chosen[i].data]

Parts(events, index) == Data(SelectSeq(events, LAMBDA e : e.index = index), "tool")

\* What on_chunk is called with, one call an event.
ToShow(events) == SelectSeq(events, LAMBDA e : e.kind \in {"content", "thinking"})

\* processSseBuffer.
Process(buf) ==
  LET events == Lines(buf)
  IN  /\ lineBuffer' = SubSeq(buf, Processed(buf) + 1, Len(buf))
      /\ content' = content \o Data(events, "content")
      /\ thinking' = thinking \o Data(events, "thinking")
      /\ tcMap' = [i \in Indices |-> tcMap[i] \o Parts(events, i)]
      /\ shown' = shown \o ToShow(events)

\* One turn of the reading loop: there is no deadline on it.
Reads ==
  /\ phase = "body" /\ wire # <<>>
  /\ \E n \in 1 .. Len(wire) :
       Process(Buffered(SubSeq(wire, 1, n))) /\ wire' = SubSeq(wire, n + 1, Len(wire))
  /\ UNCHANGED <<call, phase, sent, server, completion>>

\* Slip: a failed read is tried again.
ParserDone == server = "finished"

\* The parser is done, or the read failed: both leave the loop.
LoopOver == server # "sends"

LoopEnds ==
  /\ phase = "body" /\ wire = <<>> /\ LoopOver
  /\ phase' = "shutdown"
  /\ UNCHANGED <<call, wire, sent, server, accumulators>>

\* Slip: the close tag stays.
KeepsClose(acc) == [acc EXCEPT !.inside = FALSE, !.cleaned = Append(@, ThinkClose)]

Leaves(acc) == [acc EXCEPT !.inside = FALSE]

\* extractThinkTags: a tag that is not closed cuts the content itself, and
\* what was cleaned before it is not used.
extractThinkTags(text) ==
  LET acc == FoldLeft(
        LAMBDA a, i :
          IF a.inside THEN IF text[i] = ThinkClose THEN Leaves(a)
                           ELSE [a EXCEPT !.thinking = Append(@, text[i])]
          ELSE IF text[i] = ThinkOpen THEN [a EXCEPT !.inside = TRUE, !.start = i]
          ELSE [a EXCEPT !.cleaned = Append(@, text[i])],
        [inside |-> FALSE, start |-> 0, cleaned |-> <<>>, thinking |-> <<>>],
        [i \in DOMAIN text |-> i])
  IN  [content |-> IF acc.inside THEN SubSeq(text, 1, acc.start - 1) ELSE acc.cleaned,
       thinking |-> acc.thinking]

\* What is made of the accumulators.
OpenAICompletion ==
  IF thinking = <<>> THEN extractThinkTags(content) ELSE [content |-> content, thinking |-> thinking]
AnthropicCompletion == [content |-> content, thinking |-> thinking]

\* Unstreamed, the same answer is one message: completeAsync takes the thinking from it, from the
\* tags in its content, or from beside it.
completeAsync(text, reasoning, beside) ==
  LET message == IF reasoning = <<>> THEN extractThinkTags(text)
                 ELSE [content |-> text, thinking |-> reasoning]
  IN  IF message.thinking = <<>> THEN [message EXCEPT !.thinking = beside] ELSE message

\* With TLS, the shutdown is awaited, without a deadline.
Returns ==
  /\ phase = "shutdown"
  /\ phase' = "returned"
  /\ completion' = IF provider = "openai" THEN OpenAICompletion ELSE AnthropicCompletion
  /\ UNCHANGED <<call, wire, sent, server, lineBuffer, content, thinking, tcMap, shown>>

Done == phase \in {"returned", "thrown"} /\ UNCHANGED vars

Next ==
  \/ ServerSends \/ ServerFinishes \/ ServerBreaks
  \/ (\E status \in {200, 429, 500} : Answered(status)) \/ TimesOut
  \/ Reads \/ LoopEnds \/ Returns \/ Done

Fairness ==
  /\ WF_vars(TimesOut) /\ WF_vars(Reads) /\ WF_vars(LoopEnds) /\ WF_vars(Returns)
  /\ ServerEnds => WF_vars(ServerFinishes)

Spec == Init /\ [][Next]_vars /\ Fairness

(***************************************************************************)
(* Properties                                                              *)
(***************************************************************************)
(* However the reads cut the stream, what has been assembled is what the   *)
(* events read so far say, in their order, each tool call from its own     *)
(* parts; and of a stream the server finished nothing is left out (unless  *)
(* its blocks end in a way AnthropicProvider does not know).               *)
Assembled ==
  \E n \in 0 .. Len(sent) :
    LET events == SubSeq(sent, 1, n)
    IN  /\ content = Data(events, "content") /\ thinking = Data(events, "thinking")
        /\ \A i \in Indices : tcMap[i] = Parts(events, i)
        /\ shown = ToShow(events)
        /\ ( /\ phase \in {"shutdown", "returned"} /\ server = "finished"
             /\ provider = "openai" \/ ending = "lf") => n = Len(sent)

(* (Does not hold.)  A stream whose lines end in CRLF is read: the carriage *)
(* return is taken off each line (anthropic_provider.h:225-226), but a      *)
(* block is looked for by two line feeds (:210), and none is found.         *)
CrlfRead == phase = "returned" /\ server = "finished" => lineBuffer = <<>>

Inside(text, i) ==
  LET tags == {j \in 1 .. i - 1 : text[j] \in {ThinkOpen, ThinkClose}}
  IN  tags # {} /\ text[Max(tags)] = ThinkOpen

Paired(text) ==
  LET tags == SelectSeq(text, LAMBDA w : w \in {ThinkOpen, ThinkClose})
  IN  \A i \in DOMAIN tags : tags[i] = IF i % 2 = 1 THEN ThinkOpen ELSE ThinkClose

(* Thinking sent between tags in the content (every tag paired) is moved   *)
(* out of it, and nothing but the tags is lost.                            *)
ThinkingExtracted ==
  provider = "openai" /\ phase = "returned" /\ thinking = <<>> /\ Paired(content) /\ ~Inside(content, Len(content) + 1) =>
    LET Where(P(_)) == SelectSeq([i \in DOMAIN content |-> i],
                                 LAMBDA i : content[i] \notin {ThinkOpen, ThinkClose} /\ P(i))
        Text(S) == [k \in DOMAIN S |-> content[S[k]]]
    IN  /\ completion.content = Text(Where(LAMBDA i : ~Inside(content, i)))
        /\ completion.thinking = Text(Where(LAMBDA i : Inside(content, i)))

(* OpenAIProvider makes of a stream the completion it makes of the same    *)
(* answer unstreamed, with the thinking in the message or, when no tags    *)
(* are in the content, beside it (openai_provider.h:171-243, :326-336).    *)
AsUnstreamed ==
  provider = "openai" /\ phase = "returned" /\ server = "finished" =>
    LET text == Data(sent, "content")  thoughts == Data(sent, "thinking")
    IN  /\ completion = completeAsync(text, thoughts, <<>>)
        /\ (~Contains(text, ThinkOpen) => completion = completeAsync(text, <<>>, thoughts))

(* (Does not hold.)  Thinking is extracted when its last tag is left open. *)
OpenThinkingExtracted ==
  provider = "openai" /\ phase = "returned" /\ thinking = <<>> /\ Paired(content) =>
    \A i \in DOMAIN completion.content : completion.content[i] \notin {ThinkOpen, ThinkClose}

(* (Does not hold.)  A completion is returned only of a stream that the    *)
(* server finished; one broken off is an error.                            *)
AnswerWhole == phase = "returned" => server = "finished"

(* A call ends, if the server ends the stream.                             *)
StreamEnds == <>(phase \in {"returned", "thrown"})
=============================================================================
