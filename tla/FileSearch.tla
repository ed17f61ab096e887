----------------------------- MODULE FileSearch -----------------------------
(***************************************************************************)
(* The tools that look at many files, or at a range of bytes of one        *)
(* (tools/filesystem.h): filesystem_list, filesystem_glob, filesystem_grep *)
(* and filesystem_read_binary_file.  Other processes and other agents      *)
(* create and delete files between any two steps; the grep tool gives way  *)
(* at every file it reads.                                                 *)
(***************************************************************************)
EXTENDS Integers, Sequences, SequencesExt, FiniteSets

CONSTANTS Files,       \* files that may be there, numbers: a tool meets them in any order
          MaxChanges,  \* bound: files created and deleted
          MaxSize      \* bound: bytes of a file that is read

Tools == {"list", "glob", "grep", "binary"}
Limits == {0, 1, 2}    \* of a listing; 0 is none
NoArg == -1            \* an argument that is not given
Bytes == [size : 0..MaxSize, offset : NoArg..MaxSize + 1, limit : {NoArg} \cup 1..MaxSize + 1]

VARIABLES
  there,     \* files that are there
  changes,
  hits,      \* files the text patterns match in
  tool, limit, bytes, async,   \* the call; async: the build with asio files
  todo,      \* files it has still to look at
  answer,    \* files in its answer, in order
  outcome,   \* "none", "answered", "failed"
  count,     \* bytes a read of bytes brings
  met        \* history: files that were there when the call began, all the time, and ever

callVars == <<tool, limit, bytes, async>>
vars == <<there, changes, hits, callVars, todo, answer, outcome, count, met>>

NoBytes == [size |-> 0, offset |-> NoArg, limit |-> NoArg]

Init ==
  /\ there \in SUBSET Files /\ changes = 0 /\ hits \in SUBSET Files
  /\ tool \in Tools /\ async \in BOOLEAN
  /\ limit \in Limits /\ (tool # "list" => limit = 0)
  /\ bytes \in Bytes /\ (tool # "binary" => bytes = NoBytes)
  /\ todo = there /\ answer = <<>> /\ outcome = "none" /\ count = 0
  /\ met = [start |-> there, always |-> there, ever |-> there]

----------------------------------------------------------------------------
\* Somebody creates or deletes a file.
Changed(new) ==
  /\ changes < MaxChanges /\ outcome = "none" /\ tool # "binary"
  /\ new # there /\ there' = new /\ changes' = changes + 1
  /\ met' = [met EXCEPT !.always = @ \cap new, !.ever = @ \cup new]
  /\ UNCHANGED <<hits, callVars, answer, outcome, count>>

\* A directory that is being read shows a new file or not; a pattern was resolved before.
Create(f) ==
  /\ Changed(there \cup {f})
  /\ IF tool = "list" THEN todo' \in {todo, todo \cup ({f} \ Range(answer))} ELSE UNCHANGED todo
Delete(f) ==
  /\ Changed(there \ {f})
  /\ IF tool = "list" THEN todo' = todo \ {f} ELSE UNCHANGED todo

Ends(what) == outcome' = what

\* Slip: the limit is checked before the next entry counts.
ReachedLate(n) == limit > 0 /\ n > limit

\* The limit of a listing.
Reached(n) == limit > 0 /\ n >= limit

\* An entry of the directory; the tool does not give way here.
ListEntry(f) ==
  /\ tool = "list" /\ outcome = "none" /\ f \in todo
  /\ answer' = Append(answer, f) /\ todo' = todo \ {f}
  /\ IF Reached(Len(answer')) THEN Ends("answered") ELSE UNCHANGED outcome
  /\ UNCHANGED <<there, changes, hits, callVars, count, met>>

\* No entry is left; or a directory below cannot be read, which nothing catches.
ListEnds ==
  /\ tool = "list" /\ outcome = "none"
  /\ (todo = {} /\ Ends("answered")) \/ Ends("failed")
  /\ UNCHANGED <<there, changes, hits, callVars, todo, answer, count, met>>

\* The files the patterns match, at once; none is an error.
Glob ==
  /\ tool = "glob" /\ outcome = "none"
  /\ answer' = SetToSeq(there) /\ Ends(IF there = {} THEN "failed" ELSE "answered")
  /\ UNCHANGED <<there, changes, hits, callVars, todo, count, met>>

\* Slip: a search that has found something is over.
FirstHit(f) == {}

\* What is left to search.
Left(f) == todo \ {f}

Readable(f) == f \in there

\* The next file is read whole and searched; one that cannot be read fails the call.
GrepFile(f) ==
  /\ tool = "grep" /\ outcome = "none" /\ f \in todo
  /\ IF ~Readable(f) THEN Ends("failed") /\ UNCHANGED <<todo, answer>>
     ELSE /\ todo' = IF f \in hits THEN Left(f) ELSE todo \ {f}
          /\ answer' = IF f \in hits THEN Append(answer, f) ELSE answer
          /\ UNCHANGED outcome
  /\ UNCHANGED <<there, changes, hits, callVars, count, met>>

\* No match at all is an error.
GrepEnds ==
  /\ tool = "grep" /\ outcome = "none" /\ todo = {}
  /\ Ends(IF answer = <<>> THEN "failed" ELSE "answered")
  /\ UNCHANGED <<there, changes, hits, callVars, todo, answer, count, met>>

\* Bytes that are asked for.  No byte_limit is the largest size_t, which is -1 as a streamsize.
BytesRead(b) ==
  LET limited == IF b.limit = NoArg THEN -1 ELSE b.limit
      available == Max({b.size - (IF b.offset = NoArg THEN 0 ELSE b.offset), 0})
  IN  Min({limited, available})

\* What a range of bytes brings: the asynchronous read is into a string that is empty, no byte.
RangeAsync(b) == IF BytesRead(b) <= 0 THEN <<0, "failed">> ELSE <<0, "answered">>
RangeSync(b)  == IF BytesRead(b) <= 0 THEN <<0, "failed">> ELSE <<BytesRead(b), "answered">>

\* A file is read whole, or a range of it.
ReadBinary ==
  /\ tool = "binary" /\ outcome = "none"
  /\ IF bytes.offset = NoArg /\ bytes.limit = NoArg
     THEN count' = bytes.size /\ Ends("answered")
     ELSE LET range == IF async THEN RangeAsync(bytes) ELSE RangeSync(bytes)
          IN  count' = range[1] /\ Ends(range[2])
  /\ UNCHANGED <<there, changes, hits, callVars, todo, answer, met>>

Next ==
  \/ \E f \in Files : Create(f) \/ Delete(f) \/ ListEntry(f) \/ GrepFile(f)
  \/ ListEnds \/ Glob \/ GrepEnds \/ ReadBinary

Spec == Init /\ [][Next]_vars

----------------------------------------------------------------------------
\* A search that answers has looked into every file that was there: it names those with a match,
\* once each, though files come and go while it gives way (filesystem.h:1187-1322).
GrepComplete ==
  tool = "grep" /\ outcome = "answered" =>
    Range(answer) = hits \cap met.start /\ Len(answer) = Cardinality(Range(answer))

\* A listing is within its limit, names nothing that was never there, and if it stays below the
\* limit names all that was there all the time (filesystem.h:139-207).
ListWithinLimit ==
  tool = "list" /\ outcome = "answered" =>
    /\ limit > 0 => Len(answer) <= limit
    /\ Range(answer) \subseteq met.ever
    /\ (limit = 0 \/ Len(answer) < limit) => met.always \subseteq Range(answer)

\* (Does not hold.)  One file that cannot be read does not cost the matches in the others:
\* readFileContent throws, and nothing catches it (filesystem.h:1156, :1231, :1269).
GrepSurvives == tool = "grep" /\ answer # <<>> => outcome # "failed"

\* (Does not hold.)  A range that begins within the file is read: byte_limit is unlimited by
\* default (prompt.h:276-277), but then the read fails (filesystem.h:499-507, :578-588), and with
\* a limit the asynchronous read brings nothing (:516-519).
RangeRead ==
  tool = "binary" /\ outcome # "none" /\ bytes.offset < bytes.size /\ bytes.size > 0 =>
    outcome = "answered" /\ count > 0
=============================================================================
