-------------------------- MODULE SelectionMonitor --------------------------
(***************************************************************************)
(* TextSelectionMonitor on Windows: the owner starts and stops it; a       *)
(* worker thread pumps messages, and on it run the two hooks; threads of   *)
(* UI Automation deliver events with the text in them; and a reader thread *)
(* finds the text selected and calls the listeners.  A selection is known  *)
(* by its number and its window, a window by what it offers.               *)
(***************************************************************************)
EXTENDS Naturals, Sequences, FiniteSetsExt

CONSTANTS Windows,       \* sets of offers: see Ways
          MaxSelections, \* bound: selections the user makes
          MaxStarts      \* bound: calls of start that do something

VARIABLES
  running,     \* running_
  owner,       \* the owner: "idle", in stop ("joinWorker", "joinReader"), or "gone"
  stopped,     \* the last stop has returned, and no start came after it
  terminated,  \* a joinable std::thread was assigned to or destroyed
  worker,      \* workerThread_: "none", "hooking", "loop", "joins", "ended"
  reader,      \* processingThread_: "none", "reading", "notifying", "ended"
  task,        \* what the reader reads, or will read when the worker has joined it
  uia,         \* an event of UI Automation being handled: "none" or its step
  event,       \* the selection it is about
  pending,     \* selectionPending_
  lastWindow,  \* lastSelectionHwnd_, as the selection made there
  uiaText,     \* pendingUiaText_, as the selection it is the text of
  made,        \* selections made
  reported,    \* those the listeners were told of, in order
  cachedPort,  \* what findCDPPort remembers: "unknown", "found", "missing"
  clipboard,   \* what is on it: "text", "image", "nothing"
  starts

selectionVars == <<pending, lastWindow, uiaText, made>>
readerVars    == <<reader, task, reported, cachedPort, clipboard>>
uiaVars       == <<uia, event>>
ownerVars     == <<owner, stopped, terminated, starts>>
vars == <<running, worker, selectionVars, readerVars, uiaVars, ownerVars>>

Selection(n, w) == [n |-> n, window |-> w]
None == Selection(0, {})
Selections == [n : 0..MaxSelections, window : Windows \cup {{}}]
Tasks == [from : {"uia", "window", "none"}, what : Selections]
NoTask == [from |-> "none", what |-> None]

TypeOK ==
  /\ {running, stopped, terminated, pending} \subseteq BOOLEAN
  /\ owner \in {"idle", "joinWorker", "joinReader", "gone"}
  /\ worker \in {"none", "hooking", "loop", "joins", "ended"}
  /\ reader \in {"none", "reading", "notifying", "ended"} /\ task \in Tasks
  /\ uia \in {"none", "extracting", "stored"} /\ {event, lastWindow, uiaText} \subseteq Selections
  /\ made \in 0..MaxSelections /\ starts \in 0..MaxStarts

Init ==
  /\ running = FALSE /\ owner = "idle" /\ stopped = TRUE /\ terminated = FALSE
  /\ worker = "none" /\ reader = "none" /\ task = NoTask
  /\ uia = "none" /\ event = None
  /\ pending = FALSE /\ lastWindow = None /\ uiaText = None
  /\ made = 0 /\ reported = <<>> /\ starts = 0
  /\ cachedPort = "unknown" /\ clipboard \in {"text", "image"}

(***************************************************************************)
(* What getSelectedText tries, in order.  Two of the ways end the search   *)
(* with nothing: no IUIAutomation (or no element) for the window, and a    *)
(* ValuePattern whose value is empty.                                      *)
(***************************************************************************)
Ways == <<"edit", "devtools", "noAutomation", "textPattern", "value", "accessible", "clipboard",
          "caption">>

\* findCDPPort: the port found, or that none was, is remembered for 30 s.
PortAnswers(listening) == IF cachedPort = "unknown" THEN listening ELSE cachedPort = "found"

\* getSelectedTextByCDP: the page's target, its socket and the expression all have to answer.
ByDevTools(w, listening) ==
  "browser" \in w /\ PortAnswers(listening) /\ listening /\ "page" \in w

\* One way applies to a window: it gives a text, or it ends the search.
Applies(way, w, listening, copied) ==
  CASE way = "devtools"     -> ByDevTools(w, listening)
    [] way = "noAutomation" -> "automation" \notin w
    [] way = "value"        -> {"value", "emptyValue"} \cap w # {}
    [] way = "clipboard"    -> copied /\ "copies" \in w
    [] OTHER                -> way \in w

\* getSelectedText: the first way that applies, or none.
Way(w, listening, copied) ==
  LET applying == {i \in DOMAIN Ways : Applies(Ways[i], w, listening, copied)}
  IN IF applying = {} THEN "none" ELSE Ways[Min(applying)]

GivesText(way, w) == way \notin {"none", "noAutomation"} /\ ~(way = "value" /\ "value" \notin w)

\* getSelectedTextByClipboard is reached: no way before it applies.
ClipboardTried(w, listening) == Way(w, listening, FALSE) \in {"caption", "none"}

\* The clipboard is emptied when it opens; the text that was on it is put back if it opens again.
ClipboardAfter(opened, reopened) ==
  IF opened /\ ~(reopened /\ clipboard = "text") THEN "nothing" ELSE clipboard

-----------------------------------------------------------------------------
(* The owner. *)

\* A second start after the worker has failed assigns to a thread never joined.
Start ==
  /\ owner = "idle" /\ ~running /\ ~terminated /\ starts < MaxStarts
  /\ starts' = starts + 1
  /\ IF worker = "none"
     THEN /\ running' = TRUE /\ worker' = "hooking" /\ stopped' = FALSE
          /\ UNCHANGED terminated
     ELSE /\ terminated' = TRUE /\ UNCHANGED <<running, worker, stopped>>
  /\ UNCHANGED <<owner, selectionVars, readerVars, uiaVars>>

\* A stop of a monitor that does not run returns at once.
Stop ==
  /\ owner = "idle" /\ running
  /\ running' = FALSE /\ owner' = "joinWorker"
  /\ UNCHANGED <<worker, stopped, terminated, starts, selectionVars, readerVars, uiaVars>>

\* The destructor stops the monitor first; what stop has left joinable terminates the process.
Destroy ==
  /\ owner = "idle" /\ ~running
  /\ owner' = "gone" /\ terminated' = (worker # "none")
  /\ UNCHANGED <<running, worker, stopped, starts, selectionVars, readerVars, uiaVars>>

JoinsWorker ==
  /\ owner = "joinWorker" /\ worker = "ended"
  /\ worker' = "none" /\ owner' = "joinReader"
  /\ UNCHANGED <<running, stopped, terminated, starts, selectionVars, readerVars, uiaVars>>

\* Slip: the reader thread is forgotten.
JoinsNoReader ==
  /\ owner = "joinReader" /\ uia = "none"
  /\ owner' = "idle" /\ stopped' = TRUE
  /\ UNCHANGED <<running, worker, terminated, starts, selectionVars, readerVars, uiaVars>>

\* The handlers are removed here too: no event arrives after it.
JoinsReader ==
  /\ owner = "joinReader" /\ reader \in {"none", "ended"} /\ uia = "none"
  /\ owner' = "idle" /\ stopped' = TRUE /\ reader' = "none"
  /\ UNCHANGED <<running, worker, terminated, starts, selectionVars, task, reported, cachedPort,
                 clipboard, uiaVars>>

-----------------------------------------------------------------------------
(* The worker, and the hooks, which the message loop calls. *)

\* Either hook may be refused: the thread ends, and nobody has joined it.
WorkerBegins ==
  /\ worker = "hooking"
  /\ \/ worker' = "loop" /\ UNCHANGED running
     \/ worker' = "ended" /\ running' = FALSE
  /\ UNCHANGED <<selectionVars, readerVars, uiaVars, ownerVars>>

WorkerEnds ==
  /\ worker = "loop" /\ ~running
  /\ worker' = "ended"
  /\ UNCHANGED <<running, selectionVars, readerVars, uiaVars, ownerVars>>

\* WinEventProc, and MouseProc on the release that ends a drag or a double click.
Selected(w) ==
  /\ made < MaxSelections /\ worker = "loop" /\ running
  /\ made' = made + 1 /\ lastWindow' = Selection(made', w) /\ pending' = TRUE
  /\ UNCHANGED <<running, worker, uiaText, readerVars, uiaVars, ownerVars>>

\* What the reader is to do, by processPendingSelection: a text UI Automation brought comes first.
Task(text, window) ==
  IF text # None THEN [from |-> "uia", what |-> text] ELSE [from |-> "window", what |-> window]

\* processPendingSelection, posted by MouseProc or called when the debounce time is over.
Process ==
  /\ worker = "loop" /\ pending
  /\ pending' = FALSE /\ uiaText' = None
  /\ IF uiaText = None /\ lastWindow = None
     THEN UNCHANGED <<worker, reader, task>>
     ELSE /\ task' = Task(uiaText, lastWindow)
          /\ IF reader = "none" THEN reader' = "reading" /\ UNCHANGED worker
             ELSE worker' = "joins" /\ UNCHANGED reader
  /\ UNCHANGED <<running, lastWindow, made, reported, cachedPort, clipboard, uiaVars, ownerVars>>

\* Slip: a reader that has ended is taken for one that was never started.
NextReaderUnjoined ==
  /\ worker = "joins" /\ reader = "none"
  /\ worker' = "loop" /\ reader' = "reading"
  /\ UNCHANGED <<running, selectionVars, task, reported, cachedPort, clipboard, uiaVars, ownerVars>>

\* The reader before is joined, and the next one is started.
NextReader ==
  /\ worker = "joins" /\ reader = "ended"
  /\ worker' = "loop" /\ reader' = "reading"
  /\ UNCHANGED <<running, selectionVars, task, reported, cachedPort, clipboard, uiaVars, ownerVars>>

-----------------------------------------------------------------------------
(* The reader, and the events of UI Automation. *)

\* The text is found, or none is and the reader ends; a task that brought its text needs no search.
Reads ==
  /\ reader = "reading" /\ task.from = "window"
  /\ \E listening, opened, reopened \in BOOLEAN :
       LET w == task.what.window
           way == Way(w, listening, opened /\ reopened)
       IN /\ cachedPort' = IF "browser" \in w /\ "edit" \notin w
                           THEN IF PortAnswers(listening) THEN "found" ELSE "missing"
                           ELSE cachedPort
          /\ clipboard' = IF ClipboardTried(w, listening)
                          THEN ClipboardAfter(opened, reopened) ELSE clipboard
          /\ reader' = IF GivesText(way, w) THEN "notifying" ELSE "ended"
  /\ UNCHANGED <<running, worker, selectionVars, task, reported, uiaVars, ownerVars>>

HasText ==
  /\ reader = "reading" /\ task.from = "uia"
  /\ reader' = "notifying"
  /\ UNCHANGED <<running, worker, selectionVars, task, reported, cachedPort, clipboard, uiaVars,
                 ownerVars>>

\* The listeners are called one after another under their mutex, and the thread ends.
Notifies ==
  /\ reader = "notifying"
  /\ reader' = "ended" /\ reported' = Append(reported, task.what.n)
  /\ UNCHANGED <<running, worker, selectionVars, task, cachedPort, clipboard, uiaVars, ownerVars>>

PortForgotten ==
  /\ cachedPort # "unknown" /\ reader # "notifying" /\ cachedPort' = "unknown"
  /\ UNCHANGED <<running, worker, selectionVars, reader, task, reported, clipboard, uiaVars,
                 ownerVars>>

\* HandleAutomationEvent: it looks at running_ first, then extracts the text from its sender.
EventArrives(w) ==
  /\ uia = "none" /\ running /\ made < MaxSelections
  /\ made' = made + 1 /\ uia' = "extracting" /\ event' = Selection(made', w)
  /\ UNCHANGED <<running, worker, pending, lastWindow, uiaText, readerVars, ownerVars>>

\* The text is stored under the mutex; a selection without text is dropped.
EventStored ==
  /\ uia = "extracting"
  /\ IF event.window = {} THEN uia' = "none" /\ UNCHANGED uiaText
     ELSE uia' = "stored" /\ uiaText' = event
  /\ UNCHANGED <<running, worker, pending, lastWindow, made, event, readerVars, ownerVars>>

\* The flag is raised after the mutex is released.
EventFlagged ==
  /\ uia = "stored"
  /\ uia' = "none" /\ pending' = TRUE
  /\ UNCHANGED <<running, worker, lastWindow, uiaText, made, event, readerVars, ownerVars>>

-----------------------------------------------------------------------------
WorkerSteps == WorkerBegins \/ WorkerEnds \/ Process \/ NextReader
ReaderSteps == Reads \/ HasText \/ Notifies
EventSteps  == EventStored \/ EventFlagged
OwnerSteps  == JoinsWorker \/ JoinsReader
Next ==
  \/ Start \/ Stop \/ Destroy \/ PortForgotten
  \/ \E w \in Windows : Selected(w) \/ EventArrives(w)
  \/ WorkerSteps \/ ReaderSteps \/ EventSteps \/ OwnerSteps

(***************************************************************************)
(* Each thread is scheduled, the message loop polls the flag every 100 ms, *)
(* a reader's searches all have timeouts, and listeners return.            *)
(***************************************************************************)
Spec ==
  /\ Init /\ [][Next]_vars
  /\ WF_vars(WorkerSteps) /\ WF_vars(Process) /\ WF_vars(ReaderSteps)
  /\ WF_vars(EventSteps) /\ WF_vars(OwnerSteps)

-----------------------------------------------------------------------------
\* Once stop has returned no listener is being called, and none will be, until the monitor is
\* started again: the worker is joined before the reader it may still start.
QuietAfterStop == stopped => reader \in {"none", "ended"} /\ worker # "joins"

\* Every change of selection the hooks or UI Automation flagged is looked at, or the monitor
\* stops, and a stop returns: neither join waits for ever.
SelectionsTaken ==
  /\ pending ~> (~pending \/ ~running)
  /\ owner = "joinWorker" ~> owner = "idle"

\* (Does not hold.)  Listeners hear of selections in the order they were made: a text of UI
\* Automation stored before its flag is raised can be taken with the flag of an earlier selection,
\* and its own flag then reports that earlier selection's window a second time.
NewestLast == \A i \in 1..Len(reported) - 1 : reported[i] < reported[i + 1]

\* (Does not hold.)  The monitor never assigns to or destroys a thread that is still joinable: a
\* worker whose hook was refused clears running_, and so no stop joins it.
NoTerminate == ~terminated

\* (Does not hold.)  Reading a selection leaves the clipboard as it was.
ClipboardKept == clipboard # "nothing"
=============================================================================
