----------------------------- MODULE FileTools -----------------------------
(***************************************************************************)
(* The tools that read, write and edit one text file (tools/filesystem.h,  *)
(* the branch built with asio files).  Calls of several agents run on the  *)
(* same io_context: a call gives way at each co_await, so another one can  *)
(* run between an edit's reading and its writing, and between the opening  *)
(* (which truncates) and the writing.  A file is a sequence of characters. *)
(* The permission question asked before is in PathRouter.                  *)
(***************************************************************************)
EXTENDS SequencesExt

CONSTANTS
  Calls,        \* the calls
  Letters,      \* characters other than the line break
  NewLine,      \* the line break
  MaxFile,      \* bound of the model: longest file
  MaxLine,      \* bound of the model: lines a read skips, and lines it asks for
  SizeMax       \* largest size_t

Missing == <<"missing">>
Failed == <<"error">>
NoRange == -1

Texts == UNION {[1 .. n -> Letters \union {NewLine}] : n \in 0 .. MaxFile}

Olds == {s \in Texts : Len(s) \in 1 .. 2}      \* what the edits look for
News == {s \in Texts : Len(s) <= 1} \union {<<l, l>> : l \in Letters}
Contents == {s \in Texts : Len(s) <= 2}       \* what is written

VARIABLES
  file,         \* the file's characters, or Missing
  call,         \* the calls: what they do, how far, what they hold
  disturbed     \* the calls whose file another call touched while they wrote

vars == <<file, call, disturbed>>

Idle == [tool |-> "none"]

(***************************************************************************)
(* Reading a range of lines                                                *)
(***************************************************************************)
Breaks(text) == {i \in DOMAIN text : text[i] = NewLine}

\* Where the n-th line (from 0) starts; past the last line there is none.
LineStart(text, n) ==
  IF n = 0 THEN 1
  ELSE 1 + CHOOSE i \in Breaks(text) : Cardinality({j \in Breaks(text) : j <= i}) = n

LinesUpTo(text, from, to) ==    \* lines from .. to - 1, all terminated
  SubSeq(text, LineStart(text, from), LineStart(text, to) - 1)

\* A missing line_offset is 0, a missing line_limit the largest size_t.
Offset(offset) == IF offset >= 0 THEN offset ELSE 0
Limit(limit) == IF limit > 0 THEN limit ELSE SizeMax

\* The bound of the loop, in size_t.
LoopEnd(offset, limit) == (Offset(offset) + Limit(limit)) % (SizeMax + 1)

\* execute_async of the text reader.  The loop ends at LoopEnd, or at the end
\* of the file, where the rest of the text is an unterminated line (or empty).
ReadLines(text, offset, limit) ==
  LET terminated == Cardinality(Breaks(text))
      end == LoopEnd(offset, limit)
      lineNum == Min({terminated, end})
      first == Offset(offset)
      rest == SubSeq(text, LineStart(text, terminated), Len(text))
      lines == IF first >= lineNum THEN <<>> ELSE LinesUpTo(text, first, lineNum)
  IN  IF offset < 0 /\ limit <= 0 THEN text
      ELSE IF lineNum <= first THEN Failed
      ELSE IF terminated < end THEN lines \o rest ELSE lines

(***************************************************************************)
(* Editing                                                                 *)
(***************************************************************************)
Occurs(text, old, pos) ==
  {i \in pos .. Len(text) - Len(old) + 1 : SubSeq(text, i, i + Len(old) - 1) = old}

\* Where the search goes on after a replacement: behind the new text.
Skips(pos, new) == pos + Len(new)

\* One turn of the loop: acc is the text, the position, the replacements made.
Replace(old, new, multi, acc) ==
  LET at == Occurs(acc.text, old, acc.pos)
  IN  IF at = {} \/ (~multi /\ acc.hits = 1) THEN acc
      ELSE LET pos == Min(at)
           IN  [text |-> SubSeq(acc.text, 1, pos - 1) \o new
                           \o SubSeq(acc.text, pos + Len(old), Len(acc.text)),
                pos |-> Skips(pos, new), hits |-> acc.hits + 1]

\* After so many turns no more can come, since each replaces a character at least.
Edited(text, old, new, multi) ==
  LET turn[i \in 0 .. MaxFile + 1] ==
        IF i = 0 THEN [text |-> text, pos |-> 1, hits |-> 0]
        ELSE Replace(old, new, multi, turn[i - 1])
  IN  turn[MaxFile + 1]

(***************************************************************************)
(* The calls                                                               *)
(***************************************************************************)
Goes(c, next) == call' = [call EXCEPT ![c] = next]

Touches(c) == disturbed' =
  disturbed \union {d \in Calls \ {c} : call[d].tool = "write"}

\* Reading: nothing else runs until the answer (a small file is read whole).
ReadsText(c) ==
  /\ call[c] = Idle /\ file # Missing
  /\ \E offset \in {NoRange} \union 0 .. MaxLine, limit \in {NoRange} \union 1 .. MaxLine :
       Goes(c, [tool |-> "read", text |-> file, offset |-> offset, limit |-> limit,
                answer |-> ReadLines(file, offset, limit)])
  /\ UNCHANGED <<file, disturbed>>

\* Editing: the file is read; without a match the call fails.
ReadsToEdit(c) ==
  /\ call[c] = Idle /\ file # Missing
  /\ \E old \in Olds, new \in News, multi \in BOOLEAN :
       LET done == Edited(file, old, new, multi)
       IN  /\ Len(done.text) <= MaxFile
           /\ Goes(c, IF done.hits = 0 THEN [tool |-> "failed"]
                      ELSE [tool |-> "edit", text |-> file, old |-> old, new |-> new,
                            multi |-> multi, content |-> done.text])
  /\ UNCHANGED <<file, disturbed>>

\* Slip: the file is opened as it is.
Untruncated == IF file = Missing THEN <<>> ELSE file

\* The file is opened to be written: it is empty from here on.
Truncated == <<>>

Opens(c, content) ==
  /\ file' = Truncated
  /\ Goes(c, [tool |-> "write", at |-> "opened", content |-> content])
  /\ Touches(c)

OpensToEdit(c) == call[c].tool = "edit" /\ Opens(c, call[c].content)

\* Writing a file: refused when it exists and may not be overwritten; the
\* base64 text is decoded when the file is already empty.
OpensToWrite(c) ==
  /\ call[c] = Idle
  /\ \E content \in Contents, overwrite, undecodable \in BOOLEAN :
       IF ~overwrite /\ file # Missing
       THEN Goes(c, [tool |-> "failed"]) /\ UNCHANGED <<file, disturbed>>
       ELSE IF undecodable
       THEN file' = Truncated /\ Goes(c, [tool |-> "failed"]) /\ Touches(c)
       ELSE Opens(c, content)

\* Each call writes from the start of the file: what another call wrote
\* beyond the end stays.  (A write of nothing is skipped.)
Overwritten(old, content) == content \o SubSeq(old, Len(content) + 1, Len(old))

Writes(c) ==
  /\ call[c].tool = "write" /\ call[c].at = "opened"
  /\ file' = Overwritten(file, call[c].content)
  /\ Goes(c, [call[c] EXCEPT !.at = "written"])
  /\ Touches(c)

\* The call has returned; another one is made.
Returns(c) ==
  /\ call[c].tool \in {"read", "failed"} \/ (call[c].tool = "write" /\ call[c].at = "written")
  /\ Goes(c, Idle)
  /\ disturbed' = disturbed \ {c}
  /\ UNCHANGED file

Init ==
  /\ file \in {Missing} \union Texts
  /\ call = [c \in Calls |-> Idle]
  /\ disturbed = {}

Next ==
  \E c \in Calls :
    ReadsText(c) \/ ReadsToEdit(c) \/ OpensToEdit(c) \/ OpensToWrite(c) \/ Writes(c) \/ Returns(c)

Spec == Init /\ [][Next]_vars

(***************************************************************************)
(* Properties                                                              *)
(***************************************************************************)
\* The lines of a text, the last one perhaps unterminated.
AllLines(text) ==
  LET n == Cardinality(Breaks(text))
      whole == [i \in 1 .. n |-> LinesUpTo(text, i - 1, i)]
      rest == SubSeq(text, LineStart(text, n), Len(text))
  IN  IF rest = <<>> THEN whole ELSE Append(whole, rest)

AsPromised(c) ==
  LET r == call[c]
      lines == AllLines(r.text)
      first == Offset(r.offset)
      last == IF r.limit > 0 THEN Min({Len(lines), first + r.limit}) ELSE Len(lines)
  IN  r.answer = (IF r.offset < 0 /\ r.limit <= 0 THEN r.text
                  ELSE IF first >= Len(lines) THEN Failed
                  ELSE FlattenSeq(SubSeq(lines, first + 1, last)))

(* A read with a limit, of a file whose lines are all terminated, answers  *)
(* the lines asked for, and fails exactly when the offset is past the last *)
(* line.                                                                   *)
LinesAnswered ==
  \A c \in Calls :
    (call[c].tool = "read" /\ call[c].limit > 0
     /\ (call[c].text = <<>> \/ Last(call[c].text) = NewLine)) => AsPromised(c)

(* (Does not hold.)  prompt.h:257-260: the same of every read, with the    *)
(* limit left out, and with a last line that is not terminated.            *)
EveryReadAnswered == \A c \in Calls : call[c].tool = "read" => AsPromised(c)

(* An edit replaces occurrences of the old text from the left that do not  *)
(* overlap, all of them or the first: outside them nothing changes, and no *)
(* occurrence remains in a piece between them.                             *)
EditAnswered ==
  \A c \in Calls : call[c].tool = "edit" =>
    LET e == call[c]
        n == Len(e.old)
        starts == Occurs(e.text, e.old, 1)
        Leftmost(S) == \A i \in starts : i \in S <=> \A j \in S : j < i => j + n <= i
        hits == IF e.multi THEN CHOOSE S \in SUBSET starts : Leftmost(S) ELSE {Min(starts)}
        Kept(i) == IF i \in hits THEN e.new
                   ELSE IF \E j \in hits : j < i /\ i < j + n THEN <<>> ELSE <<e.text[i]>>
    IN  e.content = FlattenSeq([i \in DOMAIN e.text |-> Kept(i)])

(* A call that wrote while no other call opened or wrote the file leaves   *)
(* exactly the text it meant to write.                                     *)
WrittenAsMeant ==
  \A c \in Calls \ disturbed :
    call[c].tool = "write" /\ call[c].at = "written" => file = call[c].content

(* (Does not hold.)  What two edits that both succeeded put in the file is *)
(* in the file: an edit is applied to the text the other one left.         *)
EditsApplied ==
  [][\A c \in Calls : call[c].tool = "edit" /\ call'[c].tool = "write" => call[c].text = file]_vars
=============================================================================
