---------------------------- MODULE TextEncoding ----------------------------
(***************************************************************************)
(* The bytes of a text: where its characters are (util/string_util.h), and *)
(* how a text of unknown encoding becomes UTF-8 (util/string_util.cpp).    *)
(* A text is a sequence of bytes.  The detector (uchardet) and the         *)
(* converter (iconv) are external: the one names any encodings, the other  *)
(* converts, stops in the middle, or does not know an encoding.            *)
(***************************************************************************)
EXTENDS Integers, SequencesExt

CONSTANTS
  Texts,         \* bound of the model: the texts
  Detected,      \* bound of the model: what the detector answers, sequences of names
  ShortLength    \* defShortStringLength

Nul == 0
NewLine == 10
Continuation == 128..191     \* utf8IsContinuationChar

VARIABLES
  text,
  result      \* what autoConvertToUtf8 made of it: whether it succeeded, and the new text

vars == <<text, result>>

----------------------------------------------------------------------------
(* Characters.  Indices count from 0, as in the code.                      *)

\* Slip: a byte of four counts for three.
WidthOfThree(b) == 1 + Cardinality({lead \in {192, 224, 248, 252} : b >= lead})

\* The bytes of the character that begins with b.
Width(b) == 1 + Cardinality({lead \in {192, 224, 240, 248, 252} : b >= lead})

\* Indices at which a character begins that is reached from start, in order; then one behind.
Walk(s, start) ==
  LET from[i \in Nat] == IF i >= Len(s) THEN <<i>> ELSE <<i>> \o from[i + Width(s[i + 1])]
  IN  from[start]

utf8GetLength(s) == Len(Walk(s, 0)) - 1

findIndexByUtf8Length(s, target, start) ==
  LET walk == Walk(s, start)  n == Max({target, 1})
  IN  IF n < Len(walk) THEN walk[n + 1] ELSE 0

\* The index, the line feeds before it, and where the last of them is.
findIndexAndLastLineIndexByUtf8Length(s, target) ==
  LET index == IF Len(s) >= target THEN findIndexByUtf8Length(s, target, 0) ELSE 0
      lines == {i \in ToSet(Walk(s, 0)) : i < index /\ s[i + 1] = NewLine}
  IN  <<index, Cardinality(lines), IF lines = {} THEN 0 ELSE Max(lines)>>

\* A string ends with a NUL that it does not count.
ByteAt(s, i) == IF i < Len(s) THEN s[i + 1] ELSE Nul

\* Slip: the bytes that follow are not looked at.
RefusedLead(s, i) == ByteAt(s, i) \in Continuation \cup {192, 193} \cup 248..255

\* What utf8GetLengthCheckAvail does not let pass as a character at i; char is signed.
Refused(s, i) ==
  LET b == ByteAt(s, i)
  IN  \/ b \in Continuation \cup {192, 193} \cup 248..255
      \/ b = 240 /\ ByteAt(s, i + 1) \in 128..143
      \/ b = 224 /\ ByteAt(s, i + 1) \in 128..159
      \/ b = 239 /\ ByteAt(s, i + 1) = 191 /\ ByteAt(s, i + 2) = 189
      \/ \E j \in 1..Width(b) - 1 : ByteAt(s, i + j) \notin Continuation

\* The characters up to a NUL, or 0.
utf8GetLengthCheckAvail(s) ==
  LET walk == Walk(s, 0)
      n == Min({k \in DOMAIN walk : walk[k] >= Len(s) \/ ByteAt(s, walk[k]) = Nul}) - 1
  IN  IF \E k \in 1..n : Refused(s, walk[k]) THEN 0 ELSE n

utf8IsAvail(s) == s # <<>> /\ s[1] # Nul /\ utf8GetLengthCheckAvail(s) # 0

----------------------------------------------------------------------------
(* Encodings.                                                              *)

\* g_encoding_priorities, g_encoding_shift.
Priorities == {"UTF-8", "UTF-16", "GB2312", "GBK", "GB18030"}
Shifted(name) == IF name \in {"GB2312", "GBK"} THEN "GB18030" ELSE name

\* detectUtfBom.
Bom(s) ==
  CASE Len(s) >= 2 /\ SubSeq(s, 1, 2) = <<255, 254>> -> "UTF-16LE"
    [] Len(s) >= 2 /\ SubSeq(s, 1, 2) = <<254, 255>> -> "UTF-16BE"
    [] Len(s) >= 3 /\ SubSeq(s, 1, 3) = <<239, 187, 191>> -> "UTF-8"
    [] OTHER -> "none"

Same == "unchanged"
Empty == "empty"

\* What iconv may do with a text: "unknown" encoding, "whole" text converted, or "stopped" before
\* its end, at a character that is none (with //IGNORE it goes on, and reports it all the same).
convertCharset(s, from, iconv) ==
  CASE from = "UTF-8" -> [ok |-> TRUE, text |-> Same]
    [] from # "UTF-8" /\ (s = <<>> \/ iconv = "unknown") -> [ok |-> FALSE, text |-> Same]
    [] from # "UTF-8" /\ s # <<>> /\ iconv = "whole" -> [ok |-> TRUE, text |-> from]
    [] from # "UTF-8" /\ s # <<>> /\ iconv = "stopped" -> [ok |-> TRUE, text |-> Empty]

IsShort(s) == Len(s) < ShortLength

\* Slip: short texts are not checked.
UsableUnchecked(s, name) == name \in Priorities

\* A name the loop takes; UTF-8 is not believed of a short text that is none.
Usable(s, name) ==
  name \in Priorities /\ (IsShort(s) /\ name = "UTF-8" => utf8GetLengthCheckAvail(s) # 0)

Selected(s, found) ==
  LET usable == {i \in DOMAIN found : Usable(s, found[i])}
      name == IF usable # {} THEN Shifted(found[Min(usable)])
              ELSE IF IsShort(s) THEN "GB18030" ELSE found[1]
  IN  IF name = "UTF-16" THEN "UTF-16LE" ELSE name

autoConvertCharset(s, found, iconv) ==
  IF s = <<>> THEN [ok |-> TRUE, text |-> Same]
  ELSE IF Bom(s) # "none" /\ convertCharset(s, Bom(s), iconv).ok
    THEN convertCharset(s, Bom(s), iconv)
  ELSE IF found = <<>> THEN [ok |-> FALSE, text |-> Same]
  ELSE convertCharset(s, Selected(s, found), iconv)

autoConvertToUtf8 ==
  /\ result.text = "none"
  /\ \E found \in Detected, iconv \in {"unknown", "whole", "stopped"} :
       result' = autoConvertCharset(text, found, iconv)
  /\ UNCHANGED text

Init == text \in Texts /\ result = [ok |-> FALSE, text |-> "none"]

Next == autoConvertToUtf8

Spec == Init /\ [][Next]_vars

----------------------------------------------------------------------------
(* UTF-8, as Unicode defines it (table 3-7 of its standard).               *)

Strict(c) ==
  \/ Len(c) = 1 /\ c[1] \in 0..127
  \/ Len(c) = 2 /\ c[1] \in 194..223 /\ c[2] \in Continuation
  \/ /\ Len(c) = 3 /\ c[1] \in 224..239 /\ {c[2], c[3]} \subseteq Continuation
     /\ c[1] = 224 => c[2] >= 160
     /\ c[1] = 237 => c[2] <= 159
  \/ /\ Len(c) = 4 /\ c[1] \in 240..244 /\ {c[2], c[3], c[4]} \subseteq Continuation
     /\ c[1] = 240 => c[2] >= 144
     /\ c[1] = 244 => c[2] <= 143

\* The same with surrogates, and with values no character has.
Loose(c) ==
  \/ Strict(c)
  \/ Len(c) = 3 /\ c[1] = 237 /\ {c[2], c[3]} \subseteq Continuation
  \/ Len(c) = 4 /\ c[1] \in 244..247 /\ {c[2], c[3], c[4]} \subseteq Continuation

\* The texts that are characters one after the other, as those sequences of characters.
Readings(s, Char(_)) ==
  LET cuts(n) == {ends \in [1..n -> 1..Len(s)] :
                    /\ \A k \in 1..n - 1 : ends[k] < ends[k + 1]
                    /\ ends[n] = Len(s)}
      Piece(ends, k) == SubSeq(s, IF k = 1 THEN 1 ELSE ends[k - 1] + 1, ends[k])
  IN  UNION {{ends \in cuts(n) : \A k \in 1..n : Char(Piece(ends, k))} : n \in 1..Len(s)}

Replacement == <<239, 191, 189>>
Plain(c) == Loose(c) /\ c # Replacement
NoNul == Nul \notin ToSet(text)

\* A text without NUL passes the check if it is UTF-8 in shortest form and holds no U+FFFD, and
\* only then, and its characters are counted right (string_util.h:277-344, modelcall.h:231).
AvailExact ==
  NoNul =>
    /\ utf8IsAvail(text) <=> Readings(text, Plain) # {}
    /\ utf8IsAvail(text) => {utf8GetLengthCheckAvail(text)} = {Len(e) : e \in Readings(text, Plain)}

\* Cutting UTF-8 after so many characters cuts between two of them, and the lines are those before
\* the cut (string_util.h:179-271; rag_search.h:147-178, toolcall.h:162).
CutsAtCharacters ==
  \A ends \in Readings(text, Loose) :
    /\ utf8GetLength(text) = Len(ends)
    /\ \A n \in 1..Len(text) :
         LET cut == findIndexByUtf8Length(text, n, 0)
             heads == {i \in 1..cut : text[i] = NewLine}
         IN  /\ cut = IF n <= Len(ends) THEN ends[n] ELSE 0
             /\ findIndexAndLastLineIndexByUtf8Length(text, n) =
                  <<cut, Cardinality(heads), IF heads = {} THEN 0 ELSE Max(heads) - 1>>

\* A short text without byte order mark that is left as it was, with success, is UTF-8, and UTF-8
\* is left as it was where the detector sees it first (string_util.cpp:125-214).
UnchangedIsUtf8 ==
  NoNul /\ text # <<>> /\ Bom(text) = "none" =>
    /\ result = [ok |-> TRUE, text |-> Same] /\ IsShort(text) => Readings(text, Plain) # {}
    /\ Readings(text, Plain) # {} =>
         \A found \in Detected, iconv \in {"unknown", "whole", "stopped"} :
           found # <<>> /\ found[1] = "UTF-8" =>
             autoConvertCharset(text, found, iconv) = [ok |-> TRUE, text |-> Same]

\* (Does not hold.)  What passes the check is UTF-8: surrogates do, and so do values beyond the
\* last character (string_util.h:286-317).
AvailIsUtf8 == NoNul /\ utf8IsAvail(text) => Readings(text, Strict) # {}

\* (Does not hold.)  UTF-8 is UTF-8 to the check: a short text with U+FFFD in it is taken for
\* GB18030 (string_util.h:300-306, string_util.cpp:182-205).
Utf8Kept ==
  result.text # "none" /\ NoNul /\ Readings(text, Strict) # {} /\ Detected = {<<"UTF-8">>} =>
    result.text = Same

\* (Does not hold.)  A text that cannot be converted is kept: convertCharset reports success, and
\* an empty text takes its place (string_util.cpp:113-122, :223-228).
NothingEmptied == result.text # Empty
=============================================================================
