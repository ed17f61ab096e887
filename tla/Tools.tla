-------------------------------- MODULE Tools --------------------------------
(***************************************************************************)
(* What an agent's tools do and what it keeps of a conversation: file      *)
(* tools, searches, permission rules, what keeps a conversation short, and *)
(* the request that is made of it.  A behaviour is one of these parts.     *)
(* The parts share no state in the code; each runs on its own here, the    *)
(* variables of the others standing still.  MCTools checks it.             *)
(***************************************************************************)
EXTENDS Integers

CONSTANTS
  Running,                                                         \* those that may run
  Calls, Letters, LineBreak, MaxFile, MaxLine, SizeMax,            \* of FileTools
  Files, MaxFileChanges, MaxSize,                                  \* of FileSearch
  Routers, Kinds, Segments, Star, Depth, MaxRules, Cleared,        \* of PathRouter
  TurnPaths, KeepRecent, MaxTurnMessages, MaxIds,                  \* of Summarization
  TurnTexts, MaxBlocks, MaxMessages, Streamed                      \* of ModelRequest

\* A file has a number of lines and a message a number of blocks.  The line a read starts at and
\* the lines it asks for are of type int64_t, the place it ends at is their sum as a size_t of 64
\* bits, which two of them do not exceed (tools/filesystem.h:276-296).
ASSUME ToolsAssumption ==
  /\ MaxFile \in Nat /\ MaxLine \in Nat /\ SizeMax \in Nat /\ 2 * MaxLine <= SizeMax
  /\ KeepRecent \in Nat /\ MaxBlocks \in Nat

VARIABLES
  part,                                                       \* the one that runs
  file, call, disturbed,                                      \* FileTools
  there, changes, hits, tool, limit, bytes, async, todo, answer, outcome, count, met,
                                                              \* FileSearch
  rule, cache, lookup,                                        \* PathRouter
  talk, store, nextId, history, added, own,                   \* Summarization
  conversation, request, waiting, said, thrown                \* ModelRequest

Edits    == INSTANCE FileTools WITH NewLine <- LineBreak
Search   == INSTANCE FileSearch WITH MaxChanges <- MaxFileChanges
Rules    == INSTANCE PathRouter
Turns    == INSTANCE Summarization WITH Paths <- TurnPaths, MaxMessages <- MaxTurnMessages,
                                        messages <- talk
Asked    == INSTANCE ModelRequest WITH Texts <- TurnTexts

Idle == "idle"

EditsIdle    == file = Idle /\ call = Idle /\ disturbed = Idle
SearchIdle   == /\ there = Idle /\ changes = Idle /\ hits = Idle /\ tool = Idle /\ limit = Idle
                /\ bytes = Idle /\ async = Idle /\ todo = Idle /\ answer = Idle
                /\ outcome = Idle /\ count = Idle /\ met = Idle
RulesIdle    == rule = Idle /\ cache = Idle /\ lookup = Idle
TurnsIdle    == /\ talk = Idle /\ store = Idle /\ nextId = Idle /\ history = Idle
                /\ added = Idle /\ own = Idle
AskedIdle    == /\ conversation = Idle /\ request = Idle /\ waiting = Idle /\ said = Idle
                /\ thrown = Idle

ToolsInit ==
  /\ part \in Running
  /\ IF part = "edits" THEN Edits!Init ELSE EditsIdle
  /\ IF part = "search" THEN Search!Init ELSE SearchIdle
  /\ IF part = "rules" THEN Rules!Init ELSE RulesIdle
  /\ IF part = "turns" THEN Turns!Init ELSE TurnsIdle
  /\ IF part = "asked" THEN Asked!Init ELSE AskedIdle

editVars    == <<file, call, disturbed>>
searchVars  == <<there, changes, hits, tool, limit, bytes, async, todo, answer, outcome, count, met>>
ruleVars    == <<rule, cache, lookup>>
turnVars    == <<talk, store, nextId, history, added, own>>
askedVars   == <<conversation, request, waiting, said, thrown>>

ToolsNext ==
  /\ UNCHANGED part
  /\ IF part = "edits" THEN Edits!Next ELSE UNCHANGED editVars
  /\ IF part = "search" THEN Search!Next ELSE UNCHANGED searchVars
  /\ IF part = "rules" THEN Rules!Next ELSE UNCHANGED ruleVars
  /\ IF part = "turns" THEN Turns!Next ELSE UNCHANGED turnVars
  /\ IF part = "asked" THEN Asked!Next ELSE UNCHANGED askedVars

toolsVars == <<part, editVars, searchVars, ruleVars, turnVars, askedVars>>

ToolsSpec == ToolsInit /\ [][ToolsNext]_toolsVars

----------------------------------------------------------------------------
\* The file tools do what they were asked: a read brings its lines and no others, an edit replaces
\* the occurrences from the left, what a call wrote undisturbed is in it, a search looks into every
\* file that was there, and a listing keeps its limit (tools/filesystem.h).
FilesAsAsked ==
  /\ part = "edits" => Edits!LinesAnswered /\ Edits!EditAnswered /\ Edits!WrittenAsMeant
  /\ part = "search" => Search!GrepComplete /\ Search!ListWithinLimit

\* A tool's question is answered from the rules of the router it asks as they are when it asks,
\* whatever was asked, added and removed before (router.h:165-290, permission.h:68-93).
OwnRules == [][part = "rules" => Rules!AnsweredByRules]_ruleVars

\* A text moved to the share store stays readable under its id, nothing leaves the conversation
\* without being recorded, and the newest read of a file is kept (summarization.h); what the model
\* said is what the next request shows it, each of its calls with the result
\* (anthropic_provider.h).
HistoryReadable ==
  /\ part = "turns" => Turns!OffloadedReadable /\ Turns!NothingForgotten /\ Turns!NewestKept
  /\ part = "asked" => Asked!SaidAgain /\ Asked!CallsAnswered
=============================================================================
