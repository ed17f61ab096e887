----------------------------- MODULE TextChunks -----------------------------
(***************************************************************************)
(* How texts are cut: into chunks for the vector store of rag_search       *)
(* (tools/rag_search.h), and to the head of a long tool result             *)
(* (nodes/toolcall.h).  A text is a sequence of characters; Heading, Item  *)
(* and Fence at the start of a line stand for "# ", "- " and "```".        *)
(***************************************************************************)
EXTENDS SequencesExt

CONSTANTS
  Letter, NewLine, Stop, Heading, Item, Fence,   \* the characters; Stop is a delimiter
  MaxText,       \* bound: longest text
  MaxLengths,    \* values of maxUtf8Length
  Overlaps       \* characters that overlapPercent makes of it

Chars == {Letter, NewLine, Stop, Heading, Item, Fence}
Delimiters == <<NewLine, Stop>>
Modes == {"FixedLength", "Character", "Structural", "StructuralThenChar",
          "StructuralThenCharThenFixed"}

VARIABLES text, mode, maxLen, overlap

vars == <<text, mode, maxLen, overlap>>

----------------------------------------------------------------------------
(* The cuts.                                                               *)

\* Parts between the occurrences of a delimiter, empty ones too.
Parts(s, d) ==
  FoldLeft(LAMBDA parts, ch : IF ch = d THEN Append(parts, <<>>)
                              ELSE [parts EXCEPT ![Len(parts)] = Append(@, ch)], <<<<>>>>, s)

splitByDelimiter(s, d) == SelectSeq(Parts(s, d), LAMBDA part : part # <<>>)

\* Slip: a chunk begins behind the overlap.
StepOver(size, o) == size + o

\* stepChars.
Step(size, o) == Max({size - o, 1})

\* Chunks of size characters; each shares o of them with the next.
splitByFixedLength(s, size, o) ==
  LET starts == {n \in 0..Len(s) - 1 : n % Step(size, o) = 0}
      last == {n \in starts : n + size >= Len(s)}
      used == {n \in starts : last = {} \/ n <= Min(last)}
  IN  [i \in 1..Cardinality(used) |->
         SubSeq(s, (i - 1) * Step(size, o) + 1, Min({(i - 1) * Step(size, o) + size, Len(s)}))]

\* The first delimiter that cuts the text; parts that are too long are cut again.
splitByDelimiters(text0, size) ==
  LET cut[s \in Seq(Chars)] ==
        LET useful == {i \in DOMAIN Delimiters : Len(splitByDelimiter(s, Delimiters[i])) > 1}
            parts == splitByDelimiter(s, Delimiters[Min(useful)])
        IN  IF useful = {} THEN splitByFixedLength(s, size, 0)
            ELSE FlattenSeq([i \in DOMAIN parts |->
                   IF Len(parts[i]) > size THEN cut[parts[i]] ELSE <<parts[i]>>])
  IN  cut[text0]

\* The accumulator of splitByStructure.
Flushed(a) ==
  IF a.current = <<>> THEN a ELSE [a EXCEPT !.blocks = Append(@, a.current), !.current = <<>>]

Joined(a, line) ==
  [a EXCEPT !.current = IF @ = <<>> THEN line ELSE @ \o <<NewLine>> \o line]

\* A fence opens a block, or ends the one it is in.
Fenced(a, line) ==
  IF a.code THEN [Flushed(Joined(a, line)) EXCEPT !.code = FALSE, !.item = FALSE]
  ELSE [Flushed(a) EXCEPT !.current = line, !.code = TRUE, !.item = FALSE]

TakeLine(a, line) ==
  CASE line # <<>> /\ line[1] = Fence -> Fenced(a, line)
    [] a.code /\ (line = <<>> \/ line[1] # Fence) -> Joined(a, line)
    [] ~a.code /\ line = <<>> -> [Flushed(a) EXCEPT !.item = FALSE]
    [] ~a.code /\ line # <<>> /\ line[1] = Heading ->
         [Flushed(a) EXCEPT !.current = line, !.item = FALSE]
    [] ~a.code /\ line # <<>> /\ line[1] = Item ->
         [Joined(IF a.item THEN a ELSE Flushed(a), line) EXCEPT !.item = TRUE]
    [] ~a.code /\ line # <<>> /\ line[1] \notin {Fence, Heading, Item} ->
         [Joined(a, line) EXCEPT !.item = FALSE]

\* The heading still held goes out alone.
LastOut(a) == IF a.held = <<>> THEN a.out ELSE Append(a.out, a.held)

\* A block that begins with a heading goes with the next, if that one does not.
Merged(blocks) ==
  LastOut(FoldLeft(LAMBDA a, b :
    IF b[1] = Heading THEN [out |-> LastOut(a), held |-> b]
    ELSE IF a.held = <<>> THEN [a EXCEPT !.out = Append(@, b)]
    ELSE [out |-> Append(a.out, a.held \o <<NewLine, NewLine>> \o b), held |-> <<>>],
    [out |-> <<>>, held |-> <<>>], blocks))

splitByStructure(s) ==
  Merged(Flushed(FoldLeft(TakeLine, [blocks |-> <<>>, current |-> <<>>, code |-> FALSE, item |-> FALSE],
                          Parts(s, NewLine))).blocks)

\* What a chunk takes over from the one before it.
Tail0(prev, o) == IF Len(prev) <= o THEN <<>> ELSE SubSeq(prev, Len(prev) - o + 1, Len(prev))

applyChunkOverlap(chunks, o) ==
  FoldLeft(LAMBDA out, c : Append(out, IF out = <<>> THEN c ELSE Tail0(Last(out), o) \o c),
           <<>>, chunks)

\* Chunks before the overlap is put in front of them.
Plain(s, m, size) ==
  LET fit(b) == IF Len(b) <= size THEN <<b>>
                ELSE IF m = "Structural" THEN splitByFixedLength(b, size, 0)
                ELSE splitByDelimiters(b, size)
      blocks == splitByStructure(s)
  IN  IF m = "Character" THEN splitByDelimiters(s, size)
      ELSE FlattenSeq([i \in DOMAIN blocks |-> fit(blocks[i])])

splitTextToChunks(s, m, size, o) ==
  IF s = <<>> THEN <<>>
  ELSE IF m = "FixedLength" THEN splitByFixedLength(s, size, o)
  ELSE applyChunkOverlap(Plain(s, m, size), o)

----------------------------------------------------------------------------
(* The head of a tool result that is too long.                             *)

Breaks(s, n) == {i \in 1..n : s[i] = NewLine}

\* lastLineIndex: up to the last line break among the first n characters.
LastLineIndex(s, n) == IF Breaks(s, n) = {} THEN 0 ELSE Max(Breaks(s, n)) - 1

\* The head that is kept and the lines it is said to have: whole lines when they make a third of
\* the characters the result may have, otherwise these characters.
Head0(s, n) ==
  IF LastLineIndex(s, n) >= n \div 3
  THEN [text |-> SubSeq(s, 1, LastLineIndex(s, n)), lines |-> Cardinality(Breaks(s, n))]
  ELSE [text |-> SubSeq(s, 1, n), lines |-> 0]

----------------------------------------------------------------------------
Init == text = <<>> /\ mode \in Modes /\ maxLen \in MaxLengths /\ overlap \in Overlaps

\* Every text: one character more.
Grows == \E ch \in Chars : /\ Len(text) < MaxText /\ text' = Append(text, ch)
                           /\ UNCHANGED <<mode, maxLen, overlap>>

Next == Grows
Spec == Init /\ [][Next]_vars

----------------------------------------------------------------------------
Chunks == splitTextToChunks(text, mode, maxLen, overlap)

\* Characters that no cut may lose: all but line breaks and delimiters.
Kept(s) == SelectSeq(s, LAMBDA ch : ch \notin {NewLine, Stop})

\* The chunks hold the whole text, in its order, and each but the first begins with characters of
\* the one before it and with no others (rag_search.h:140-490): without what they share they are
\* the text again.
NothingLost ==
  IF mode = "FixedLength"
  THEN text # <<>> =>
         text = Chunks[1] \o FlattenSeq([i \in 1..Len(Chunks) - 1 |->
                  SubSeq(Chunks[i + 1], Min({overlap, maxLen - 1}) + 1, Len(Chunks[i + 1]))])
  ELSE text # <<>> =>
         /\ Len(Chunks) = Len(Plain(text, mode, maxLen))
         /\ Kept(FlattenSeq(Plain(text, mode, maxLen))) = Kept(text)
         /\ \A i \in 2..Len(Chunks) :
              LET own == Plain(text, mode, maxLen)[i]
                  shared == SubSeq(Chunks[i], 1, Len(Chunks[i]) - Len(own))
              IN  IsSuffix(own, Chunks[i]) /\ IsSuffix(shared, Chunks[i - 1])

\* No chunk is empty, and none is longer than the limit and the overlap together.
ChunksBounded == \A i \in DOMAIN Chunks : Len(Chunks[i]) \in 1..maxLen + overlap

\* Lines a head is said to have are the first of the result: the reader who asks the shared store
\* for those from there on misses nothing (toolcall.h:158-178).
HeadContinues ==
  \A n \in 1..Len(text) :
    LET head == Head0(text, n)
        rest == SubSeq(text, Len(head.text) + 2, Len(text))
    IN  head.lines > 0 =>
          Parts(head.text, NewLine) \o Parts(rest, NewLine) = Parts(text, NewLine)
          /\ Len(Parts(head.text, NewLine)) = head.lines

\* (Does not hold.)  Every chunk is within maxUtf8Length, which is "guaranteed"
\* (rag_search.h:415-417): the overlap comes on top of it.
ChunksWithinLimit == \A i \in DOMAIN Chunks : Len(Chunks[i]) <= maxLen
=============================================================================
