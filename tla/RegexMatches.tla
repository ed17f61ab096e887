---------------------------- MODULE RegexMatches ----------------------------
(***************************************************************************)
(* The two backends of XXRegex (util/regex.cpp), one of which a build has: *)
(* Hyperscan, whose callback merges each reported interval with those it   *)
(* overlaps, and std::regex, which sorts the intervals of all patterns and *)
(* merges neighbours.  An interval is <<start, end>>, half open.           *)
(***************************************************************************)
EXTENDS SequencesExt

CONSTANTS
  MaxText,      \* length of the text
  MaxMatches,   \* bound of the model: intervals reported
  Valid         \* whether the patterns compiled

Intervals == {m \in (0 .. MaxText) \X (0 .. MaxText) : m[1] < m[2]}

VARIABLES
  reported,     \* the intervals the engine found, in the order it found them
  results       \* what the Hyperscan callback has made of them

vars == <<reported, results>>

Overlap(m, n) == m[1] < n[2] /\ n[1] < m[2]
Lower(m, n) == m[1] < n[1] \/ (m[1] = n[1] /\ m[2] < n[2])
Span(m, n) == <<Min({m[1], n[1]}), Max({m[2], n[2]})>>

\* Slip: the older interval is dropped, and its bounds with it.
Swallow(old, new) == new

\* An interval that overlaps the new one is erased, and the new one widened.
Widen(old, new) == Span(old, new)

\* xxregexMatchCallback.
Callback(kept, match) ==
  LET acc == FoldLeft(LAMBDA a, old :
                        IF Overlap(old, a.new) THEN [a EXCEPT !.new = Widen(old, @)]
                        ELSE [a EXCEPT !.kept = Append(@, old)],
                      [new |-> match, kept |-> <<>>], kept)
  IN  Append(acc.kept, acc.new)

\* XXRegexStdRegex::match: sorted, then each merged with the last one kept.
StdMatch(matches) ==
  FoldLeft(LAMBDA kept, m :
             IF kept # <<>> /\ m[1] < Last(kept)[2]
             THEN Append(Front(kept), <<Last(kept)[1], Max({Last(kept)[2], m[2]})>>)
             ELSE Append(kept, m),
           <<>>, SortSeq(matches, Lower))

\* remove: the positions of the text it keeps.
Removed(matches) ==
  LET acc == FoldLeft(LAMBDA a, m : [at |-> m[2], out |-> a.out \o [i \in 1 .. m[1] - a.at |-> a.at + i]],
                      [at |-> 0, out |-> <<>>], matches)
  IN  acc.out \o [i \in 1 .. MaxText - acc.at |-> acc.at + i]

Init == reported = <<>> /\ results = <<>>

\* Hyperscan reports in the order of the ends.
Report(m) ==
  /\ Valid /\ Len(reported) < MaxMatches
  /\ reported # <<>> => Last(reported)[2] <= m[2]
  /\ reported' = Append(reported, m)
  /\ results' = Callback(results, m)

Next == \E m \in Intervals : Report(m)

Spec == Init /\ [][Next]_vars

(* Whichever backend was built, the same intervals give the same result:   *)
(* in order, disjoint, covering what was found and nothing else; so        *)
(* remove keeps exactly the characters no interval covers.                 *)
BackendsAgree ==
  LET covered == UNION {m[1] + 1 .. m[2] : m \in ToSet(reported)}
  IN  /\ results = StdMatch(reported)
      /\ \A i \in 1 .. Len(results) - 1 : results[i][2] <= results[i + 1][1]
      /\ ToSet(Removed(results)) = (1 .. MaxText) \ covered
      /\ \A i, j \in DOMAIN Removed(results) : i < j => Removed(results)[i] < Removed(results)[j]
=============================================================================
