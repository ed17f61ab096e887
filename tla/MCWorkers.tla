------------------------------ MODULE MCWorkers ------------------------------
(***************************************************************************)
(* What works in the background, or outside the process, for TLC: a        *)
(* command, a request, the code graph's indexing, the monitor of selected  *)
(* text, the events on the bus, the training.  A behaviour is one of these *)
(* parts.  The parts share no state in the code; each runs on its own      *)
(* here, the variables of the others standing still.                       *)
(***************************************************************************)
EXTENDS Naturals, FiniteSetsExt

CONSTANTS
  MaxWrites, Capacity,                                             \* of ExecuteCommand
  Hosts, Dirs, FollowRedirect,                                     \* of HttpClient
  NFiles, MaxEdits, MaxGraphStarts, TwoThreads,                    \* of CodeGraph
  Windows, MaxSelections, MaxMonitorStarts,                        \* of SelectionMonitor
  MaxBusEvents, MaxSubs, MaxStreams, Removes,                      \* of EventBus
  Prompts, Seed, NCases, CheckAfter, TopK, MaxBrood, Limits, Patience, Backups, MaxRuns, MaxCount
                                                                   \* of Training

ASSUME WorkersAssumption ==
  /\ {FollowRedirect, NFiles, MaxStreams} \subseteq Nat
  /\ Seed \in Prompts /\ {NCases, CheckAfter, TopK, MaxBrood, Patience, Backups} \subseteq Nat \ {0}
  /\ Limits \subseteq 0..MaxCount - 1 /\ {MaxCount, MaxRuns} \subseteq Nat
  /\ IsFiniteSet(Prompts)                                  \* an answer has a length limit

VARIABLES
  job,                                                        \* the one that runs
  platform, timeout, script, background, process, written, read, stages, output,
                                                              \* ExecuteCommand
  requestPhase, url, method, body, redirects, requestExpired, httpReply, response, requestsMade,
                                                              \* HttpClient
  disk, nodes, record, edges, unresolved, database, indexing, watching, fileWatcher, indexer,
  events, mutex, caller, toIndex, incremental, heard, reading, owner, terminated, graphStarts,
                                                              \* CodeGraph
  monitoring, monitorOwner, monitorStopped, monitorTerminated, hookThread, reader, task, uia,
  event, selectionPending, lastWindow, uiaText, selections, reported, cachedPort, clipboard,
  monitorStarts,                                              \* SelectionMonitor
  busStreams, streamsMade, listeners, suspends, context, shownTokens, spawned, publishing,
  audience, hearing,                                          \* EventBus
  limit, saving, population, generation, bestEver, idle, rotating, file, backup, lastSaved,
  bestSaved, freshOverTorn, runs                              \* Training

Commands == INSTANCE ExecuteCommand WITH result <- output
Requests == INSTANCE HttpClient WITH
              phase <- requestPhase, count <- redirects, expired <- requestExpired,
              reply <- httpReply, result <- response, made <- requestsMade
Graph    == INSTANCE CodeGraph WITH
              MaxStarts <- MaxGraphStarts, running <- indexing, worker <- indexer,
              todo <- toIndex, starts <- graphStarts
Monitor  == INSTANCE SelectionMonitor WITH
              MaxStarts <- MaxMonitorStarts, running <- monitoring, owner <- monitorOwner,
              stopped <- monitorStopped, terminated <- monitorTerminated, worker <- hookThread,
              pending <- selectionPending, made <- selections, starts <- monitorStarts
Bus      == INSTANCE EventBus WITH
              MaxEvents <- MaxBusEvents, streams <- busStreams, made <- streamsMade,
              shown <- shownTokens, heard <- hearing
Trainer  == INSTANCE Training WITH pc <- saving

Off == "off"

CommandsIdle == /\ platform = Off /\ timeout = FALSE /\ script = Off /\ background = Off
                /\ process = Off /\ written = Off /\ read = Off /\ stages = Off
                /\ output = Off
RequestsIdle == /\ requestPhase = "returned" /\ url = Off /\ method = Off /\ body = Off
                /\ redirects = 0 /\ requestExpired = Off /\ httpReply = Off /\ response = Off
                /\ requestsMade = Off
GraphIdle    == /\ disk = [f \in 1..NFiles |-> 0] /\ nodes = disk /\ record = Off /\ edges = Off
                /\ unresolved = Off /\ database = Off /\ indexing = FALSE /\ watching = FALSE
                /\ fileWatcher = Off /\ indexer = Off /\ events = {} /\ mutex = Off
                /\ caller = Off /\ toIndex = Off /\ incremental = Off /\ heard = Off
                /\ reading = Off /\ owner = "idle" /\ terminated = FALSE /\ graphStarts = Off
MonitorIdle  == /\ monitoring = FALSE /\ monitorOwner = "idle" /\ monitorStopped = Off
                /\ monitorTerminated = Off /\ hookThread = Off /\ reader = Off /\ task = Off
                /\ uia = Off /\ event = Off /\ selectionPending = FALSE /\ lastWindow = Off
                /\ uiaText = Off /\ selections = Off /\ reported = Off /\ cachedPort = Off
                /\ clipboard = Off /\ monitorStarts = Off
BusIdle      == /\ busStreams = Off /\ streamsMade = Off /\ listeners = Off /\ suspends = Off
                /\ context = Off /\ shownTokens = <<>> /\ spawned = <<>> /\ publishing = {}
                /\ audience = {} /\ hearing = <<>>
TrainingIdle == /\ limit = 0 /\ saving = "off" /\ population = {} /\ generation = 0
                /\ bestEver = 0 /\ idle = 0 /\ rotating = Backups /\ file = Trainer!Absent
                /\ backup = [i \in 1..Backups |-> file] /\ lastSaved = file /\ bestSaved = 0
                /\ freshOverTorn = FALSE /\ runs = 0

WorkersInit ==
  /\ job \in {"commands", "requests", "graph", "monitor", "bus", "training"}
  /\ IF job = "commands" THEN Commands!Init ELSE CommandsIdle
  /\ IF job = "requests" THEN Requests!Init ELSE RequestsIdle
  /\ IF job = "graph" THEN Graph!Init ELSE GraphIdle
  /\ IF job = "monitor" THEN Monitor!Init ELSE MonitorIdle
  /\ IF job = "bus" THEN Bus!Init ELSE BusIdle
  /\ IF job = "training" THEN Trainer!Init ELSE TrainingIdle

commandVars  == <<platform, timeout, script, background, process, written, read, stages, output>>
httpVars     == <<requestPhase, url, method, body, redirects, requestExpired, httpReply, response,
                  requestsMade>>
graphVars    == <<disk, nodes, record, edges, unresolved, database, indexing, watching, fileWatcher,
                  indexer, events, mutex, caller, toIndex, incremental, heard, reading, owner,
                  terminated, graphStarts>>
monitorVars  == <<monitoring, monitorOwner, monitorStopped, monitorTerminated, hookThread, reader,
                  task, uia, event, selectionPending, lastWindow, uiaText, selections, reported,
                  cachedPort, clipboard, monitorStarts>>
busVars      == <<busStreams, streamsMade, listeners, suspends, context, shownTokens, spawned,
                  publishing, audience, hearing>>
trainingVars == <<limit, saving, population, generation, bestEver, idle, rotating, file, backup,
                  lastSaved, bestSaved, freshOverTorn, runs>>
workersVars  == <<job, commandVars, httpVars, graphVars, monitorVars, busVars, trainingVars>>

\* A step of one of them.
Works(p, A) ==
  /\ job = p /\ A /\ UNCHANGED job
  /\ IF p = "commands" THEN TRUE ELSE UNCHANGED commandVars
  /\ IF p = "requests" THEN TRUE ELSE UNCHANGED httpVars
  /\ IF p = "graph" THEN TRUE ELSE UNCHANGED graphVars
  /\ IF p = "monitor" THEN TRUE ELSE UNCHANGED monitorVars
  /\ IF p = "bus" THEN TRUE ELSE UNCHANGED busVars
  /\ IF p = "training" THEN TRUE ELSE UNCHANGED trainingVars

WorkersNext ==
  \/ Works("commands", Commands!Next)
  \/ Works("requests", Requests!Next)
  \/ Works("graph", Graph!Next)
  \/ Works("monitor", Monitor!Next)
  \/ Works("bus", Bus!Next)
  \/ Works("training", Trainer!Next)

(***************************************************************************)
(* The fairness each part's own module states, its fair steps numbered.  A *)
(* behaviour is one part's, so that one condition serves the k-th step of  *)
(* each of them.                                                           *)
(***************************************************************************)
WorkersFairSteps == 1..Max({5, NFiles + 3})

CommandFair(k) ==
  \/ k = 1 /\ Commands!Command
  \/ k = 2 /\ Commands!Tool
  \/ k = 3 /\ Commands!TimesOut

RequestFair(k) ==
  \/ k = 1 /\ Requests!Expires
  \/ k = 2 /\ Requests!Begins
  \/ k = 3 /\ Requests!TimesOut
  \/ k = 4 /\ Requests!Decides

GraphFair(k) ==
  /\ ~terminated
  /\ \/ k = 1 /\ Graph!OwnerSteps
     \/ k = 2 /\ Graph!CallerSteps
     \/ k = 3 /\ Graph!WorkerSteps
     \/ \E f \in 1..NFiles : k = f + 3 /\ Graph!EventArrives(f)

MonitorFair(k) ==
  \/ k = 1 /\ Monitor!WorkerSteps
  \/ k = 2 /\ Monitor!Process
  \/ k = 3 /\ Monitor!ReaderSteps
  \/ k = 4 /\ Monitor!EventSteps
  \/ k = 5 /\ Monitor!OwnerSteps

BusFair(k) == k = 1 /\ Bus!Steps

TrainingFair(k) == k = 1 /\ (Trainer!Generation \/ Trainer!Saving)

WorkersFairness ==
  /\ \A k \in WorkersFairSteps :
       WF_workersVars(\/ Works("commands", CommandFair(k)) \/ Works("requests", RequestFair(k))
                      \/ Works("graph", GraphFair(k)) \/ Works("monitor", MonitorFair(k))
                      \/ Works("bus", BusFair(k)) \/ Works("training", TrainingFair(k)))
  /\ SF_workersVars(Works("graph", ~terminated /\ Graph!IndexFileBegins))

WorkersSpec == WorkersInit /\ [][WorkersNext]_workersVars /\ WorkersFairness

----------------------------------------------------------------------------
\* A command's answer holds all it wrote, and a request goes, through its redirects, where it is
\* sent and with the body of its method; what the graph tells the bus is heard, in order
\* (execute_command.h, http_client.h, event_stream.h).
Outcomes ==
  /\ [](job = "commands" => Commands!WholeOutput)
  /\ [](job = "requests" => Requests!BodyWithItsMethod)
  /\ Requests!RedirectTarget
  /\ [](job = "bus" => Bus!TokensInOrder /\ Bus!EveryoneHears)

\* Stopping stops: no listener is called when the monitor's stop has returned, and nobody indexes
\* into the database when the code graph's shutdown has closed it (text_selection_monitor.cpp,
\* codegraph_manager.cpp).
QuietAfterStop ==
  /\ job = "monitor" => Monitor!QuietAfterStop
  /\ job = "graph" => Graph!DatabaseOutlivesIndexing

\* Whatever step of a save a crash comes in, what was saved last is there; and the best score of a
\* run does not fall (training.h).
SavedCopyKept == Trainer!SavedCopyKept
BestKept == Trainer!BestKept

\* Calls come to an end: a command with a timeout, and a request outside a TLS shutdown
\* (execute_command.h, http_client.h).
CallsEnd == Commands!CommandReturns /\ Requests!RequestEnds

\* Background work is done: a change that is told is indexed, a selection that was flagged is
\* looked at, stop and shutdown return, an event for the bus is published, and every training
\* ends.
WorkDone ==
  Graph!ChangesIndexed /\ Monitor!SelectionsTaken /\ Bus!EventsPublished /\ Trainer!TrainingEnds
=============================================================================
