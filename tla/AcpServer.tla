----------------------------- MODULE AcpServer -----------------------------
(***************************************************************************)
(* The ACP server: AcpProtocolHandler under its two transports.  One       *)
(* thread, the reader, takes the messages one after the other: the loop of *)
(* StdioAcpServer::run, or the io thread of HttpAcpServer, which also      *)
(* blocks until the prompt it serves is answered or 120 s are over.  Each  *)
(* prompt that is let in runs on a detached thread of its own.             *)
(* Different prompts have different ids here.                              *)
(***************************************************************************)
EXTENDS Naturals, FiniteSets

CONSTANTS N,            \* bound: session/prompt requests, numbered as they arrive
          StringIds,    \* those whose JSON-RPC id is a string
          Sessions,     \* session ids
          MaxInflight,  \* Config::maxInflightPrompts
          MaxCancels,   \* bound: no session/cancel once a session has had this many
          None

Prompts == 1..N

VARIABLES
  transport,  \* "stdio" or "http"
  reader,     \* what the reader does
  current,    \* the prompt whose HTTP request it serves, or None
  session,    \* session[p]: the session prompt p is for, None before it arrives
  worker,     \* worker[p]: where the thread of p is
  inflight,   \* inflightSessions_
  count,      \* inflightCount_
  flag,       \* cancelFlags_
  stopFlag,   \* stopFlag_
  answer,     \* answer[p]: the JSON-RPC response emitted for p
  slots,      \* pendingResponses_: prompts whose HTTP request has registered
  reply,      \* reply[p]: the HTTP response to p
  cancels     \* cancels[s]: cancel messages received (history)

readerVars == <<transport, reader, current, session>>
workerVars == <<worker, inflight, count>>
flagVars   == <<flag, stopFlag, cancels>>
outVars    == <<answer, slots, reply>>
vars       == <<readerVars, workerVars, flagVars, outVars>>

\* Workers whose session is in flight, and workers that are counted.
Unreleased == {"running", "ran", "cancelled", "answered"}
Counted == Unreleased \cup {"released"}

TypeOK ==
  /\ transport \in {"stdio", "http"}
  /\ reader \in {"reading", "register", "wait", "drain", "asleep", "returned"}
  /\ current \in Prompts \cup {None}
  /\ session \in [Prompts -> Sessions \cup {None}]
  /\ worker \in [Prompts -> Counted \cup {"none", "notify", "gone"}]
  /\ inflight \subseteq Sessions
  /\ count \in 0..MaxInflight
  /\ flag \in [Sessions -> {"absent", "clear", "set"}]
  /\ stopFlag \in BOOLEAN
  /\ cancels \in [Sessions -> 0..MaxCancels]
  /\ answer \in [Prompts -> {"none", "refused", "end_turn", "cancelled"}]
  /\ slots \subseteq Prompts
  /\ reply \in [Prompts -> {"none", "answer", "timeout"}]

Init ==
  /\ transport \in {"stdio", "http"} /\ reader = "reading" /\ current = None
  /\ session = [p \in Prompts |-> None]
  /\ worker = [p \in Prompts |-> "none"]
  /\ inflight = {} /\ count = 0
  /\ flag = [s \in Sessions |-> "absent"] /\ stopFlag = FALSE
  /\ cancels = [s \in Sessions |-> 0]
  /\ answer = [p \in Prompts |-> "none"]
  /\ slots = {}
  /\ reply = [p \in Prompts |-> "none"]

----------------------------------------------------------------------------
(* The sink, called by the reader and by workers.  Over HTTP an answer     *)
(* goes to the request registered under its integer id; there may be none. *)

Emit(p, what) ==
  /\ answer' = [answer EXCEPT ![p] = what]
  /\ IF p \in slots \ StringIds
     THEN slots' = slots \ {p} /\ reply' = [reply EXCEPT ![p] = "answer"]
     ELSE UNCHANGED <<slots, reply>>

----------------------------------------------------------------------------
(* The reader.                                                             *)

\* Between two messages the stdio loop tests stopFlag_.
NextMessage == reader' = IF transport = "stdio" /\ stopFlag THEN "drain" ELSE "reading"

\* The backpressure test.
Full == count >= MaxInflight

\* Slip: the count goes up before the single-flight test and stays up.
CountedAnyway == count' = count + 1 /\ UNCHANGED <<worker, inflight>>

\* A refused prompt takes no place.
NotCounted == UNCHANGED workerVars

\* handleSessionPrompt refuses: the error is emitted at once.  (Its tests are at different
\* moments, but in between other threads can only lower the count and release sessions.)
Refuse(p, s) ==
  /\ Full \/ s \in inflight
  /\ Emit(p, "refused")
  /\ flag' = IF ~Full /\ flag[s] = "absent" THEN [flag EXCEPT ![s] = "clear"] ELSE flag
  /\ NotCounted

\* The session's cancel flag is made if it is not there, and the worker is started.
Admit(p, s) ==
  /\ ~Full /\ s \notin inflight
  /\ flag' = IF flag[s] = "absent" THEN [flag EXCEPT ![s] = "clear"] ELSE flag
  /\ inflight' = inflight \cup {s}
  /\ count' = count + 1
  /\ worker' = [worker EXCEPT ![p] = "running"]
  /\ UNCHANGED outVars

SessionPrompt(p, s) ==
  /\ reader = "reading" /\ session[p] = None /\ \A q \in 1..p - 1 : session[q] # None
  /\ session' = [session EXCEPT ![p] = s]
  /\ Refuse(p, s) \/ Admit(p, s)
  /\ IF transport = "http" THEN reader' = "register" /\ current' = p
                           ELSE NextMessage /\ UNCHANGED current
  /\ UNCHANGED <<transport, stopFlag, cancels>>

SessionNew(s) ==
  /\ reader = "reading" /\ flag[s] = "absent"
  /\ flag' = [flag EXCEPT ![s] = "clear"]
  /\ NextMessage
  /\ UNCHANGED <<transport, current, session, stopFlag, cancels, workerVars, outVars>>

\* A cancel without a prompt in flight stays for the next one.
SessionCancel(s) ==
  /\ reader = "reading" /\ \A t \in Sessions : cancels[t] < MaxCancels
  /\ cancels' = [cancels EXCEPT ![s] = @ + 1]
  /\ flag' = [flag EXCEPT ![s] = "set"]
  /\ NextMessage
  /\ UNCHANGED <<transport, current, session, stopFlag, workerVars, outVars>>

\* handleAcpRequest registers its promise after handleMessage has come back.
Register ==
  /\ reader = "register" /\ reader' = "wait"
  /\ slots' = slots \cup {current}
  /\ UNCHANGED <<transport, current, session, answer, reply, workerVars, flagVars>>

\* future.wait_for comes back with the answer, or with a timeout: 504.
WaitEnds ==
  /\ reader = "wait" /\ reader' = "reading" /\ current' = None
  /\ slots' = slots \ {current}
  /\ reply' = [reply EXCEPT ![current] = IF @ = "answer" THEN "answer" ELSE "timeout"]
  /\ UNCHANGED <<transport, session, answer, workerVars, flagVars>>

\* AcpProtocolHandler::stop, from any thread.
Stop ==
  /\ ~stopFlag /\ stopFlag' = TRUE
  /\ flag' = [s \in Sessions |-> IF flag[s] = "absent" THEN "absent" ELSE "set"]
  /\ UNCHANGED <<cancels, readerVars, workerVars, outVars>>

\* The end of input ends the stdio loop; HttpAcpServer::stop ends the io thread.
InputEnds ==
  /\ reader = "reading"
  /\ reader' = IF transport = "stdio" THEN "drain" ELSE "returned"
  /\ transport = "http" => stopFlag
  /\ UNCHANGED <<transport, current, session, workerVars, flagVars, outVars>>

\* Slip: the server waits for sessions, not for workers.
NoSessionLeft == inflight = {}

\* The predicate drainWorkers waits for.
NobodyLeft == count = 0

\* drainWorkers under workersMu_: nobody is left and run drops the sink, or it waits.
Drain ==
  /\ reader = "drain"
  /\ reader' = IF NobodyLeft THEN "returned" ELSE "asleep"
  /\ UNCHANGED <<transport, current, session, workerVars, flagVars, outVars>>

----------------------------------------------------------------------------
(* A worker thread.                                                        *)

\* Slip: the flag is read and not taken down.
FlagRead(s) == flag

\* cancelFlag->exchange(false).
FlagTaken(s) == [flag EXCEPT ![s] = "clear"]

\* engine->run comes back; a cancel has no effect before that.
RunReturns(p) ==
  /\ worker[p] = "running"
  /\ worker' = [worker EXCEPT ![p] = IF flag[session[p]] = "set" THEN "cancelled" ELSE "ran"]
  /\ flag' = FlagTaken(session[p])
  /\ UNCHANGED <<inflight, count, stopFlag, cancels, readerVars, outVars>>

\* There is no engine, or engine->run throws: the flag is not looked at.
RunFails(p) ==
  /\ worker[p] = "running"
  /\ worker' = [worker EXCEPT ![p] = "ran"]
  /\ UNCHANGED <<inflight, count, readerVars, flagVars, outVars>>

WorkerEmits(p) ==
  /\ worker[p] \in {"ran", "cancelled"}
  /\ Emit(p, IF worker[p] = "ran" THEN "end_turn" ELSE "cancelled")
  /\ worker' = [worker EXCEPT ![p] = "answered"]
  /\ UNCHANGED <<inflight, count, readerVars, flagVars>>

\* workerCleanup gives the session back first.
WorkerReleases(p) ==
  /\ worker[p] = "answered"
  /\ inflight' = inflight \ {session[p]}
  /\ worker' = [worker EXCEPT ![p] = "released"]
  /\ UNCHANGED <<count, readerVars, flagVars, outVars>>

\* prev == 1.
Last == count = 1

WorkerUncounts(p) ==
  /\ worker[p] = "released"
  /\ worker' = [worker EXCEPT ![p] = IF Last THEN "notify" ELSE "gone"]
  /\ count' = count - 1
  /\ UNCHANGED <<inflight, readerVars, flagVars, outVars>>

WorkerNotifies(p) ==
  /\ worker[p] = "notify"
  /\ worker' = [worker EXCEPT ![p] = "gone"]
  /\ reader' = IF reader = "asleep" THEN "drain" ELSE reader
  /\ UNCHANGED <<transport, current, session, inflight, count, flagVars, outVars>>

Worker(p) ==
  \/ RunReturns(p) \/ RunFails(p) \/ WorkerEmits(p)
  \/ WorkerReleases(p) \/ WorkerUncounts(p) \/ WorkerNotifies(p)

----------------------------------------------------------------------------
Reader == Register \/ WaitEnds \/ Drain

Next ==
  \/ \E p \in Prompts, s \in Sessions : SessionPrompt(p, s)
  \/ \E s \in Sessions : SessionNew(s) \/ SessionCancel(s)
  \/ Stop \/ InputEnds \/ Reader
  \/ \E p \in Prompts : Worker(p)

\* The reader goes on (its wait has a timeout), and runs of the engine end.
Spec ==
  /\ Init /\ [][Next]_vars
  /\ WF_vars(Reader) /\ \A p \in 1..N : WF_vars(Worker(p))

----------------------------------------------------------------------------
\* inflightCount_ is the number of workers between their start and their cleanup, and
\* inflightSessions_ holds the sessions of those that have not given theirs back, each of one
\* worker: whatever order prompts, refusals, failures and cleanups come in, no place in the
\* server and no session is lost, or used twice (acp_server.h:352-363, :446-456).
WorkersAccounted ==
  /\ count = Cardinality({p \in Prompts : worker[p] \in Counted})
  /\ inflight = {session[p] : p \in {q \in Prompts : worker[q] \in Unreleased}}
  /\ \A p, q \in Prompts :
       {worker[p], worker[q]} \subseteq Unreleased /\ session[p] = session[q] => p = q

\* A cancel message cancels one prompt at most, though it may wait for that prompt; stop adds
\* one for each session (acp_server.h:79-84, :403, :464-469).
CancelsSpent ==
  \A s \in Sessions :
    Cardinality({p \in Prompts : session[p] = s /\ (answer[p] = "cancelled" \/ worker[p] = "cancelled")})
      + (IF flag[s] = "set" THEN 1 ELSE 0)
      <= cancels[s] + (IF stopFlag THEN 1 ELSE 0)

\* When StdioAcpServer::run has returned, every prompt it took has its answer, and no worker
\* will use the sink that is gone (acp_server.h:213-218, :884-888).
QuietAfterReturn ==
  transport = "stdio" /\ reader = "returned" =>
    \A p \in Prompts : session[p] # None => answer[p] # "none" /\ worker[p] \notin Counted

\* In the end every prompt that arrived is answered, over HTTP its request has a response, and
\* a server that drains has returned: no wakeup of drainWorkers is lost (acp_server.h:213-218,
\* :451-455).
Settled ==
  <>[]( /\ \A p \in Prompts : session[p] # None =>
             answer[p] # "none" /\ (transport = "http" => reply[p] # "none")
        /\ reader \notin {"drain", "asleep"})

\* A prompt's HTTP request gets what is emitted for it: acp_server.h:708 says it waits for the
\* response that comes through the sink.
AnswerDelivered ==
  \A p \in Prompts : answer[p] # "none" => reply[p] # "timeout"

=============================================================================
