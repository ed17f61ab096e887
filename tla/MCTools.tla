------------------------------- MODULE MCTools -------------------------------
(***************************************************************************)
(* The parts of Tools for TLC, and with them what is done with texts:      *)
(* search in a text and in a store of documents, regular expressions, the  *)
(* chunks a text is cut into, and encodings.  A behaviour is one of these  *)
(* parts on a small instance.                                              *)
(***************************************************************************)
EXTENDS Tools

VARIABLES
  patterns, fail, queue, text, current, found, matches,       \* TextSearch
  reported, results,                                          \* RegexMatches
  document, mode, maxLen, overlap,                            \* TextChunks
  docs, adding, addition, query, ranking, held,               \* Documents
  raw, converted                                              \* TextEncoding

Text     == INSTANCE TextSearch WITH Letters <- {"a", "b"}, Capitals <- {"A"}, Fold <- "a",
                                     NewLine <- "nl", MaxPattern <- 3, MaxText <- 3,
                                     result <- matches
Patterns == INSTANCE RegexMatches WITH MaxText <- 4, MaxMatches <- 4, Valid <- TRUE
Chunks   == INSTANCE TextChunks WITH Letter <- "x", NewLine <- "n", Stop <- ".", Heading <- "H",
                                     Item <- "I", Fence <- "F", MaxText <- 4, MaxLengths <- {2},
                                     Overlaps <- {0, 1}, text <- document
Stored   == INSTANCE Documents WITH
              Texts <- {1, 2}, Adders <- {"a1", "a2"}, Limits <- {-1, 0, 2}, MaxBatch <- 2,
              Complete <- TRUE, outcome <- addition, search <- query, results <- ranking,
              Files <- {[kind |-> "markdown", path |-> "p", content |-> <<2, 1>>],
                        [kind |-> "markdown", path |-> "q", content |-> <<2>>],
                        [kind |-> "markdown", path |-> "empty", content |-> <<>>],
                        [kind |-> "other", path |-> "o", content |-> <<1>>]}

\* Bytes at the borders of the ranges UTF-8 has, and the longer texts in which they matter.
Edges    == {0, 10, 120, 143, 159, 189, 191, 193, 194, 224, 237, 239, 240, 248}
Encoded  == INSTANCE TextEncoding WITH
              text <- raw, result <- converted, ShortLength <- 3,
              Texts <- UNION {[1..n -> Edges] : n \in 0..2}
                         \cup {<<b, c, d>> : b \in {120, 224, 237, 239}, c \in {10, 159, 191},
                                            d \in {10, 189, 191}}
                         \cup {<<b, c, 191, d>> : b \in {240, 244, 247}, c \in {143, 144, 159},
                                                 d \in {0, 120, 189}}
                         \cup {<<255, 254, 120>>, <<254, 255, 0, 10>>, <<239, 187, 191, 120>>},
              Detected <- {<<>>, <<"UTF-8">>, <<"GBK">>, <<"ASCII">>, <<"ASCII", "UTF-8">>,
                           <<"UTF-8", "GB2312">>, <<"UTF-16">>}

TextIdle     == /\ patterns = Idle /\ fail = Idle /\ queue = Idle /\ text = Idle
                /\ current = Idle /\ found = Idle /\ matches = Idle
PatternsIdle == reported = Idle /\ results = Idle
ChunksIdle   == document = Idle /\ mode = Idle /\ maxLen = Idle /\ overlap = Idle
StoredIdle   == /\ docs = Idle /\ adding = Idle /\ addition = Idle /\ query = Idle
                /\ ranking = Idle /\ held = Idle
EncodedIdle  == raw = Idle /\ converted = Idle

MCInit ==
  /\ ToolsInit
  /\ IF part = "text" THEN Text!Init ELSE TextIdle
  /\ IF part = "patterns" THEN Patterns!Init ELSE PatternsIdle
  /\ IF part = "chunks" THEN Chunks!Init ELSE ChunksIdle
  /\ IF part = "stored" THEN Stored!Init ELSE StoredIdle
  /\ IF part = "encoded" THEN Encoded!Init ELSE EncodedIdle

textVars    == <<patterns, fail, queue, text, current, found, matches>>
patternVars == <<reported, results>>
chunkVars   == <<document, mode, maxLen, overlap>>
storedVars  == <<docs, adding, addition, query, ranking, held>>
encodedVars == <<raw, converted>>

MCNext ==
  /\ ToolsNext
  /\ IF part = "text" THEN Text!Next ELSE UNCHANGED textVars
  /\ IF part = "patterns" THEN Patterns!Next ELSE UNCHANGED patternVars
  /\ IF part = "chunks" THEN Chunks!Next ELSE UNCHANGED chunkVars
  /\ IF part = "stored" THEN Stored!Next ELSE UNCHANGED storedVars
  /\ IF part = "encoded" THEN Encoded!Next ELSE UNCHANGED encodedVars

\* A behaviour of this one is a behaviour of Tools.
MCSpec == MCInit /\ [][MCNext]_<<toolsVars, textVars, patternVars, chunkVars, storedVars, encodedVars>>

----------------------------------------------------------------------------
\* A search in a text finds every occurrence, keeps the longest first and no two that overlap, and
\* a regular expression gives the same matches in both builds; a search in the documents finds the
\* best of their chunks (aho_corasick.h, regex.cpp, rag_search.h).
TextFound ==
  /\ part = "text" => Text!EveryOccurrence /\ Text!LongestFirst
  /\ part = "patterns" => Patterns!BackendsAgree
  /\ part = "stored" => Stored!BestFound

\* Cutting a text into chunks, or off a head, loses nothing of it, and no chunk is empty or longer
\* than the limit and the overlap; every stored chunk has its own vector (rag_search.h,
\* toolcall.h:158-183).  A text is cut between two of its characters, the check for UTF-8 tells
\* it from other bytes, and what is left unconverted is UTF-8 (string_util.h, string_util.cpp).
TextsWhole ==
  /\ part = "chunks" => Chunks!NothingLost /\ Chunks!ChunksBounded /\ Chunks!HeadContinues
  /\ part = "stored" => Stored!VectorsOwn
  /\ part = "encoded" => Encoded!AvailExact /\ Encoded!CutsAtCharacters /\ Encoded!UnchangedIsUtf8
=============================================================================
