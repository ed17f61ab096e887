----------------------------- MODULE CodeGraph -----------------------------
(***************************************************************************)
(* CodeGraphManager: an index of the source files of a project, kept in a  *)
(* database.  Its owner initializes it, has directories indexed, asks, and *)
(* starts and stops a watcher thread that indexes the files that change.   *)
(* One mutex guards the database, except in shutdown.  A file is known by  *)
(* the version of its content, and calls one function of the next file.    *)
(***************************************************************************)
EXTENDS Naturals, FiniteSets

CONSTANTS NFiles,     \* files of the project
          MaxEdits,   \* bound: times a file is changed
          MaxStarts,  \* bound: calls of initialize, and of startFileWatcher
          TwoThreads  \* whether shutdown may come from a thread of its own

Files == 1..NFiles
Callee(f) == (f % NFiles) + 1

VARIABLES
  disk,        \* disk[f]: the version on disk
  nodes,       \* nodes[f]: the version its nodes were extracted from, 0 without any
  record,      \* record[f]: the version whose mtime and size the file record has
  edges,       \* calls between nodes
  unresolved,  \* files whose reference is kept for later
  database,    \* db_ and the rest: "none", "open", or "broken" when initialize failed half way
  running,     \* running_
  watching,    \* file_watcher_running_
  fileWatcher, \* file_watcher_ exists
  worker,      \* worker_thread_: "none", "polling", "waiting", "indexing", "ended"
  events,      \* files changed that the watcher has not been told of
  mutex,       \* "free", or who holds it: "caller", "worker"
  caller,      \* a call of the API: "idle" or "indexing"
  todo,        \* the files indexDirectory still has to look at
  incremental, \* its argument
  heard,       \* the file the worker was told of, or 0
  reading,     \* the file being indexed by the holder of the mutex, and the version read
  owner,       \* "idle" or, in shutdown, "joining"
  terminated,  \* a joinable std::thread was assigned to
  starts

dataVars   == <<nodes, record, edges, unresolved>>
threadVars == <<running, watching, fileWatcher, worker, owner, terminated>>
callVars   == <<caller, todo, incremental>>
vars == <<disk, dataVars, database, threadVars, events, mutex, callVars, heard, reading, starts>>

NoFile == [file |-> 0, version |-> 0]

TypeOK ==
  /\ {disk, nodes, record} \subseteq [Files -> 0..MaxEdits + 1]
  /\ edges \subseteq Files \X Files /\ {unresolved, events, todo} \subseteq SUBSET Files
  /\ database \in {"none", "open", "broken"} /\ mutex \in {"free", "caller", "worker"}
  /\ {running, watching, fileWatcher, incremental, terminated} \subseteq BOOLEAN
  /\ worker \in {"none", "polling", "waiting", "indexing", "ended"}
  /\ caller \in {"idle", "indexing"} /\ owner \in {"idle", "joining"}
  /\ heard \in Files \cup {0} /\ reading \in [file : Files \cup {0}, version : 0..MaxEdits + 1] /\ starts \in 0..MaxStarts

Init ==
  /\ disk = [f \in Files |-> 1] /\ nodes = [f \in Files |-> 0] /\ record = nodes
  /\ edges = {} /\ unresolved = {} /\ events = {} /\ todo = {} /\ heard = 0 /\ reading = NoFile
  /\ database = "none" /\ mutex = "free" /\ caller = "idle" /\ owner = "idle" /\ worker = "none"
  /\ running = FALSE /\ watching = FALSE /\ fileWatcher = FALSE /\ incremental = FALSE
  /\ terminated = FALSE /\ starts = 0

\* The environment: a file is edited, which the watcher, if there is one, will be told.
Edit(f) ==
  /\ disk[f] <= MaxEdits
  /\ disk' = [disk EXCEPT ![f] = @ + 1]
  /\ events' = IF fileWatcher THEN events \cup {f} ELSE events
  /\ UNCHANGED <<dataVars, database, threadVars, mutex, heard, callVars, reading, starts>>

\* writeExtractionResult, one transaction: what was there of the file goes, with the edges of its
\* nodes; its reference waits to be resolved.  The record takes mtime and size as they are now.
\* In a database that could not be initialized the transaction is rolled back.
Write(f, version) ==
  IF database # "open" THEN UNCHANGED dataVars ELSE
  /\ nodes' = [nodes EXCEPT ![f] = version]
  /\ record' = [record EXCEPT ![f] = disk[f]]
  /\ edges' = {e \in edges : f \notin {e[1], e[2]}}
  /\ unresolved' = unresolved \cup {f}

\* resolveReferences, one transaction: a reference without a candidate stays.
Resolvable == {f \in unresolved : nodes[Callee(f)] # 0}
Resolve ==
  /\ edges' = edges \cup {<<f, Callee(f)>> : f \in Resolvable}
  /\ unresolved' = unresolved \ Resolvable

-----------------------------------------------------------------------------
(* The owner. *)

\* Slip: the database is closed first.
ShutdownClosesFirst ==
  /\ owner = "idle" /\ database # "none" /\ (TwoThreads \/ caller = "idle") /\ ~terminated
  /\ database' = "none"
  /\ IF running THEN running' = FALSE /\ owner' = "joining" ELSE UNCHANGED <<running, owner>>
  /\ UNCHANGED <<disk, dataVars, watching, fileWatcher, worker, terminated, events, mutex, heard,
                 callVars, reading, starts>>

\* shutdown takes no lock; it joins the worker only while running_ is set.
Shutdown ==
  /\ owner = "idle" /\ database # "none" /\ (TwoThreads \/ caller = "idle") /\ ~terminated
  /\ IF running THEN running' = FALSE /\ owner' = "joining" /\ UNCHANGED database
     ELSE database' = "none" /\ UNCHANGED <<running, owner>>
  /\ UNCHANGED <<disk, dataVars, watching, fileWatcher, worker, terminated, events, mutex, heard, callVars,
                 reading, starts>>

\* The flag file_watcher_running_ keeps its value.
ShutdownEnds ==
  /\ owner = "joining" /\ worker \in {"none", "ended"}
  /\ owner' = "idle" /\ worker' = "none" /\ fileWatcher' = FALSE /\ events' = {}
  /\ database' = "none"
  /\ UNCHANGED <<disk, dataVars, running, watching, terminated, mutex, heard, callVars, reading, starts>>

\* initialize, after its shutdown: the database file may turn out unusable half way through.
Initialize ==
  /\ owner = "idle" /\ database = "none" /\ mutex = "free" /\ starts < MaxStarts
  /\ starts' = starts + 1
  /\ \/ database' = "open" /\ running' = TRUE
     \/ database' = "broken" /\ UNCHANGED running
  /\ UNCHANGED <<disk, dataVars, watching, fileWatcher, worker, owner, terminated, events, mutex, heard,
                 callVars, reading>>

\* startFileWatcher: after a stopFileWatcher the old thread, never joined, is assigned to.
StartFileWatcher ==
  /\ owner = "idle" /\ database # "none" /\ mutex = "free" /\ ~watching /\ starts < MaxStarts
  /\ starts' = starts + 1
  /\ watching' = TRUE /\ running' = TRUE /\ fileWatcher' = TRUE /\ events' = {}
  /\ IF worker = "none" THEN worker' = "polling" /\ UNCHANGED terminated
     ELSE terminated' = TRUE /\ UNCHANGED worker
  /\ UNCHANGED <<disk, dataVars, database, owner, mutex, heard, callVars, reading>>

StopFileWatcher ==
  /\ owner = "idle" /\ watching
  /\ watching' = FALSE
  /\ UNCHANGED <<disk, dataVars, database, running, fileWatcher, worker, owner, terminated, events,
                 mutex, heard, callVars, reading, starts>>

-----------------------------------------------------------------------------
(* indexDirectory, which holds the mutex to its end. *)

IndexDirectory ==
  /\ caller = "idle" /\ (TwoThreads \/ owner = "idle") /\ mutex = "free" /\ database # "none"
  /\ caller' = "indexing" /\ mutex' = "caller" /\ todo' = Files /\ incremental' \in BOOLEAN
  /\ UNCHANGED <<disk, dataVars, database, threadVars, events, heard, reading, starts>>

\* is_changed: the file has no record, or not the mtime and size it had.
Changed(f) == record[f] # disk[f]

Skips(f) ==
  /\ caller = "indexing" /\ running /\ reading = NoFile /\ f \in todo
  /\ incremental /\ ~Changed(f)
  /\ todo' = todo \ {f}
  /\ UNCHANGED <<disk, dataVars, database, threadVars, events, mutex, heard, caller, incremental, reading,
                 starts>>

Reads(f) ==
  /\ caller = "indexing" /\ running /\ reading = NoFile /\ f \in todo
  /\ incremental => Changed(f)
  /\ reading' = [file |-> f, version |-> disk[f]] /\ todo' = todo \ {f}
  /\ UNCHANGED <<disk, dataVars, database, threadVars, events, mutex, heard, caller, incremental, starts>>

Writes ==
  /\ caller = "indexing" /\ reading # NoFile
  /\ Write(reading.file, reading.version) /\ reading' = NoFile
  /\ UNCHANGED <<disk, database, threadVars, events, mutex, heard, callVars, starts>>

\* At the end, or when running_ was cleared, the references are resolved and the text index built.
\* While running_ is clear no reference is resolved either.
IndexEnds ==
  /\ caller = "indexing" /\ reading = NoFile /\ (todo = {} \/ ~running)
  /\ IF running THEN Resolve ELSE UNCHANGED <<edges, unresolved>>
  /\ caller' = "idle" /\ mutex' = "free" /\ todo' = {}
  /\ UNCHANGED <<disk, nodes, record, database, threadVars, events, heard, incremental,
                 reading, starts>>

-----------------------------------------------------------------------------
(* The worker: poll, and in its callback indexFile. *)

EventArrives(f) ==
  /\ worker = "polling" /\ running /\ watching /\ f \in events
  /\ events' = events \ {f} /\ worker' = "waiting" /\ heard' = f
  /\ UNCHANGED <<disk, dataVars, database, running, watching, fileWatcher, owner, terminated, mutex,
                 callVars, reading, starts>>

\* Slip: the event is thrown away when the mutex is taken.
IndexFileTries ==
  /\ worker = "waiting"
  /\ heard' = 0
  /\ IF mutex = "free"
     THEN worker' = "indexing" /\ mutex' = "worker" /\ reading' = [file |-> heard, version |-> disk[heard]]
     ELSE worker' = "polling" /\ UNCHANGED <<mutex, reading>>
  /\ UNCHANGED <<disk, dataVars, database, running, watching, fileWatcher, owner, terminated, events,
                 callVars, starts>>

IndexFileBegins ==
  /\ worker = "waiting" /\ mutex = "free"
  /\ worker' = "indexing" /\ mutex' = "worker" /\ heard' = 0
  /\ reading' = [file |-> heard, version |-> disk[heard]]
  /\ UNCHANGED <<disk, dataVars, database, running, watching, fileWatcher, owner, terminated, events,
                 callVars, starts>>

\* The references of the file are left unresolved, and the text index as it was.
IndexFileEnds ==
  /\ worker = "indexing"
  /\ Write(reading.file, reading.version)
  /\ worker' = "polling" /\ mutex' = "free" /\ reading' = NoFile
  /\ UNCHANGED <<disk, database, running, watching, fileWatcher, owner, terminated, events, heard,
                 callVars, starts>>

WorkerEnds ==
  /\ worker = "polling" /\ ~(running /\ watching)
  /\ worker' = "ended"
  /\ UNCHANGED <<disk, dataVars, database, running, watching, fileWatcher, owner, terminated, events,
                 mutex, heard, callVars, reading, starts>>

-----------------------------------------------------------------------------
OwnerSteps  == ShutdownEnds
CallerSteps == (\E f \in Files : Skips(f) \/ Reads(f)) \/ Writes \/ IndexEnds
WorkerSteps == (\E f \in Files : EventArrives(f)) \/ IndexFileBegins \/ IndexFileEnds \/ WorkerEnds

Next ==
  /\ ~terminated
  /\ \/ \E f \in Files : Edit(f)
     \/ Shutdown \/ Initialize \/ StartFileWatcher \/ StopFileWatcher \/ IndexDirectory
     \/ OwnerSteps \/ CallerSteps \/ WorkerSteps

(***************************************************************************)
(* Each thread is scheduled.  The worker waits for a mutex others hold for *)
(* a while and again: strong fairness stands for a mutex that starves      *)
(* nobody.                                                                 *)
(***************************************************************************)
Spec ==
  /\ Init /\ [][Next]_vars
  /\ WF_vars(~terminated /\ OwnerSteps) /\ WF_vars(~terminated /\ CallerSteps)
  /\ WF_vars(~terminated /\ WorkerSteps) /\ SF_vars(~terminated /\ IndexFileBegins)
  /\ \A f \in Files : WF_vars(~terminated /\ EventArrives(f))

-----------------------------------------------------------------------------
\* The database stays open while a file is being indexed: shutdown joins the worker before it closes
\* the database, and no call of the API is under way.
DatabaseOutlivesIndexing ==
  worker = "indexing" \/ caller = "indexing" => database # "none"

\* While the watcher runs, a file that changed is indexed again as it is then; and a shutdown
\* returns, whatever the worker is waiting for.
ChangesIndexed ==
  /\ \A f \in Files : f \in events ~> (nodes[f] = disk[f] \/ database # "open" \/ ~running \/ ~watching
                            \/ terminated)
  /\ owner = "joining" ~> owner = "idle"

\* (Does not hold.)  A call between two functions that are both indexed, and that waits for no
\* resolution, is an edge: indexing the callee's file again removes the edge for good.
CallersKept ==
  mutex = "free" => \A f \in Files \ unresolved :
    nodes[f] # 0 /\ nodes[Callee(f)] # 0 => <<f, Callee(f)>> \in edges

\* (Does not hold.)  A file whose record is up to date has the nodes of that version: the record is
\* taken from the disk after the content was read.
RecordOfTheNodes == \A f \in Files : record[f] = disk[f] => nodes[f] = disk[f]

\* (Does not hold.)  Without a watcher one can be started: shutdown leaves file_watcher_running_.
WatcherStartable == database = "open" /\ ~fileWatcher => ~watching

\* (Does not hold.)  No thread is assigned to while it is joinable.
NoTerminate == ~terminated
=============================================================================
