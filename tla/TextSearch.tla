----------------------------- MODULE TextSearch -----------------------------
(***************************************************************************)
(* The text search of the grep tool: AhoCorasick (util/aho_corasick.h), the *)
(* matches it keeps, the text removeAll leaves, and the line numbers of    *)
(* FilesystemGrepTool (tools/filesystem.h).  A trie node is named by the   *)
(* folded characters that lead to it, so the root is << >>; a match is     *)
(* <<start, end, pattern>>, 0-based and half open as in the code.          *)
(***************************************************************************)
EXTENDS SequencesExt

CONSTANTS
  Letters,      \* characters of the patterns
  Capitals,     \* characters of the text that onCharCode folds
  Fold,         \* the letter they are folded to
  NewLine,      \* the line break
  MaxPattern,   \* longest pattern
  MaxText       \* longest text

Patterns == UNION {[1 .. n -> Letters] : n \in 1 .. MaxPattern}

VARIABLES
  patterns,     \* the patterns, in the order they were added
  fail,         \* failure link of each trie node built so far
  queue,        \* nodes of build's queue
  text,         \* the text read so far
  current,      \* the automaton's node
  found,        \* every occurrence, in the order search meets them
  result        \* what search returns; NotYet before

vars == <<patterns, fail, queue, text, current, found, result>>

NotYet == <<<<0, 0, 0>>>>   \* no match is empty

onCharCode(ch) == IF ch \in Capitals THEN Fold ELSE ch

(***************************************************************************)
(* Building the automaton                                                  *)
(***************************************************************************)
\* addPattern: the nodes of the trie.
Nodes == {<<>>} \union UNION {{SubSeq(p, 1, n) : n \in 1 .. Len(p)} : p \in ToSet(patterns)}

Children(node) == {n \in Nodes : n # <<>> /\ Front(n) = node}

\* The first node on the failure path of a node that has a child for ch (the
\* root when none has).
Fallback(node, ch) ==
  LET walk[n \in DOMAIN fail] ==
        IF n = <<>> \/ Append(n, ch) \in Nodes THEN n ELSE walk[fail[n]]
  IN  walk[node]

Step(node, ch) ==
  LET next == Append(Fallback(node, ch), ch) IN IF next \in Nodes THEN next ELSE <<>>

Init ==
  /\ \E n \in 1 .. 2 : patterns \in [1 .. n -> Patterns]
  /\ fail = [n \in Children(<<>>) \union {<<>>} |-> <<>>]
  /\ queue = SetToSeq(Children(<<>>))
  /\ text = <<>> /\ current = <<>> /\ found = <<>>
  /\ result = NotYet

\* Slip: a link goes back to the root.
RootLink(child) == <<>>

\* A child's link: where its parent's link goes with the child's character.
Link(child) == Step(fail[Front(child)], Last(child))

Build ==
  /\ queue # <<>>
  /\ fail' = [n \in Children(Head(queue)) |-> Link(n)] @@ fail
  /\ queue' = Tail(queue) \o SetToSeq(Children(Head(queue)))
  /\ UNCHANGED <<patterns, text, current, found, result>>

(***************************************************************************)
(* Searching                                                               *)
(***************************************************************************)
\* outputs of a node: its own patterns, then those of its failure path.
Outputs(node) ==
  LET out[n \in DOMAIN fail] ==
        LET own == SelectSeq([i \in 1 .. Len(patterns) |-> i], LAMBDA i : patterns[i] = n)
        IN  IF n = <<>> THEN <<>> ELSE own \o out[fail[n]]
  IN  out[node]

Reads(ch) ==
  /\ queue = <<>> /\ result = NotYet /\ Len(text) < MaxText
  /\ text' = Append(text, ch)
  /\ current' = Step(current, onCharCode(ch))
  /\ found' = found \o [i \in DOMAIN Outputs(current') |->
                 LET id == Outputs(current')[i]
                 IN  <<Len(text') - Len(patterns[id]), Len(text'), id>>]
  /\ UNCHANGED <<patterns, fail, queue, result>>

\* AhoCorasickMatchInfo::operator<: by start, the longer first.
Before(m, n) == m[1] < n[1] \/ (m[1] = n[1] /\ m[2] > n[2])

\* The matches kept: the first, then each that starts where the last ended or
\* later.
Kept(matches) ==
  FoldLeft(LAMBDA kept, m :
             IF kept = <<>> \/ m[1] >= Last(kept)[2] THEN Append(kept, m) ELSE kept,
           <<>>, SortSeq(matches, Before))

Ends ==
  /\ queue = <<>> /\ result = NotYet /\ text # <<>>
  /\ result' = Kept(found)
  /\ UNCHANGED <<patterns, fail, queue, text, current, found>>

Next == Build \/ (\E ch \in Letters \union Capitals \union {NewLine} : Reads(ch)) \/ Ends

Spec == Init /\ [][Next]_vars

(***************************************************************************)
(* What the callers make of the matches                                    *)
(***************************************************************************)
NewLines(from, to) == Cardinality({i \in from + 1 .. to : text[i] = NewLine})

\* grep in "content" mode: the line of each match, counted on from the match
\* before it.
Lines(matches) ==
  FoldLeft(LAMBDA acc, m :
             [at |-> m[1], lines |-> Append(acc.lines,
                IF acc.lines = <<>> THEN NewLines(0, m[1])
                ELSE Last(acc.lines) + NewLines(acc.at, m[1]))],
           [at |-> 0, lines |-> <<>>], matches).lines

removeAll(matches) ==
  LET acc == FoldLeft(LAMBDA a, m : [at |-> m[2], out |-> a.out \o SubSeq(text, a.at + 1, m[1])],
                      [at |-> 0, out |-> <<>>], matches)
  IN  acc.out \o SubSeq(text, acc.at + 1, Len(text))

(***************************************************************************)
(* Properties                                                              *)
(***************************************************************************)
Folded == [i \in DOMAIN text |-> onCharCode(text[i])]

Occurrences ==
  {m \in (0 .. Len(text)) \X (1 .. Len(text)) \X DOMAIN patterns :
     m[1] < m[2] /\ SubSeq(Folded, m[1] + 1, m[2]) = patterns[m[3]]}

(* The links of the automaton find every occurrence of every pattern in    *)
(* the text read so far, folded, and nothing else.                         *)
EveryOccurrence == ToSet(found) = Occurrences /\ Len(found) = Cardinality(Occurrences)

(* What search returns does not overlap, and every occurrence left out     *)
(* overlaps one that was kept and starts earlier, or as early and is no    *)
(* shorter; the lines grep prints are the numbers of line breaks before    *)
(* the matches (counted from 0), and removeAll drops exactly the matched   *)
(* characters.                                                             *)
LongestFirst ==
  result # NotYet =>
    LET kept == ToSet(result)
    IN  /\ kept \subseteq Occurrences
        /\ \A i \in 1 .. Len(result) - 1 : result[i][2] <= result[i + 1][1]
        /\ \A m \in Occurrences \ kept :
             \E k \in kept : k[1] <= m[1] /\ m[1] < k[2] /\ (k[1] < m[1] \/ m[2] <= k[2])
        /\ Lines(result) = [i \in DOMAIN result |-> NewLines(0, result[i][1])]
        /\ removeAll(result) =
             LET out == {i \in DOMAIN text : \E k \in kept : k[1] < i /\ i <= k[2]}
             IN  FoldLeft(LAMBDA s, i : IF i \in out THEN s ELSE Append(s, text[i]), <<>>,
                          [i \in DOMAIN text |-> i])
=============================================================================
