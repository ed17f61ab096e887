------------------------------ MODULE AcpCalls ------------------------------
(***************************************************************************)
(* Requests of the agent to its ACP client: AcpProtocolHandler::callClient *)
(* with pending_ and its timeout, handleMessage, which takes the client's  *)
(* answers, and the HTTP handler that calls it (protocol/acp_server.h).    *)
(* Prompts, the other direction, are in AcpServer.  Over stdio one loop    *)
(* takes the messages; over HTTP a few threads do, and what the agent      *)
(* sends reaches nobody, because broadcastSSE only logs.                   *)
(***************************************************************************)
EXTENDS Naturals, FiniteSets

CONSTANTS Calls,        \* threads that call the client, once each
          Threads,      \* threads that take messages
          MaxMessages   \* bound: messages of the client

Ids == 1..Cardinality(Calls)
Answers == {"result", "error"}

VARIABLES
  transport,   \* "stdio" or "http"
  nextId,      \* nextOutboundId_
  id,          \* id[c]: 0 before it has one
  pc,          \* pc[c]: "idle", "pending", "waiting", "returned"
  outcome,     \* outcome[c]: "none", "result", "error", "timeout"
  expired,     \* expired[c]: its 30 seconds are over
  pending,     \* keys of pending_, and whose promise each is
  promise,     \* promise[c]: what it was given
  seen,        \* ids the client has seen
  thread,      \* thread[t]: "free", what it is about to give to whom, or "waits"
  messages,    \* messages the client has sent
  stopFlag, stopFound   \* stopFlag_; calls that waited when it was set (history)

callVars == <<nextId, id, pc, outcome, expired>>
tableVars == <<pending, promise>>
stopVars == <<stopFlag, stopFound>>
vars == <<transport, callVars, tableVars, seen, thread, messages, stopVars>>

Nothing == [what |-> "none", id |-> 0]
Free == [doing |-> "free"]
Waits == [doing |-> "waits"]
Gives(c, a) == [doing |-> "gives", to |-> c, answer |-> a]

Init ==
  /\ transport \in {"stdio", "http"} /\ nextId = 1 /\ stopFlag = FALSE /\ stopFound = {}
  /\ id = [c \in Calls |-> 0] /\ pc = [c \in Calls |-> "idle"]
  /\ outcome = [c \in Calls |-> "none"] /\ expired = [c \in Calls |-> FALSE]
  /\ pending = {} /\ promise = [c \in Calls |-> Nothing] /\ seen = {} /\ messages = 0
  /\ thread = [t \in Threads |-> Free]

----------------------------------------------------------------------------
\* fetch_add.
FetchAdd == nextId + 1

\* A call takes its id and puts its promise in the table.
Begin(c) ==
  /\ pc[c] = "idle" /\ nextId' = FetchAdd /\ id' = [id EXCEPT ![c] = nextId]
  /\ pending' = {p \in pending : p.id # nextId} \cup {[id |-> nextId, call |-> c]}
  /\ pc' = [pc EXCEPT ![c] = "pending"]
  /\ UNCHANGED <<transport, outcome, expired, promise, seen, thread, messages, stopVars>>

\* The sink writes a line; over HTTP it reaches nobody.
Send(c) ==
  /\ pc[c] = "pending" /\ pc' = [pc EXCEPT ![c] = "waiting"]
  /\ seen' = IF transport = "stdio" THEN seen \cup {id[c]} ELSE seen
  /\ UNCHANGED <<transport, nextId, id, outcome, expired, tableVars, thread, messages, stopVars>>

\* 30 seconds go by.
Expire(c) ==
  /\ pc[c] = "waiting" /\ ~expired[c] /\ expired' = [expired EXCEPT ![c] = TRUE]
  /\ UNCHANGED <<transport, nextId, id, pc, outcome, tableVars, seen, thread, messages, stopVars>>

Return(c, what) ==
  /\ pc' = [pc EXCEPT ![c] = "returned"] /\ outcome' = [outcome EXCEPT ![c] = what]
  /\ UNCHANGED <<transport, nextId, id, expired, promise, seen, thread, messages, stopVars>>

\* Slip: a call that gives up leaves its entry.
KeepsEntry(c) == pending

\* The entry of a call that gives up is erased.
Erased(c) == {p \in pending : p.id # id[c]}

\* Slip: the wait has no limit once the table holds the entry.
WaitsOn(c) == expired[c] /\ \A p \in pending : p.call # c

\* future.wait_for has run out.
TimedOut(c) == expired[c]

GiveUp(c) ==
  /\ pc[c] = "waiting" /\ TimedOut(c) /\ promise[c] = Nothing
  /\ pending' = Erased(c) /\ Return(c, "timeout")

Answered(c) ==
  /\ pc[c] = "waiting" /\ promise[c] # Nothing
  /\ Return(c, promise[c].what) /\ UNCHANGED pending

\* A thread that has handled a message takes the next; over HTTP one with an id and no result is
\* taken for a prompt, and its answer waited for.
AfterMessage(hasId) == IF transport = "http" /\ hasId THEN Waits ELSE Free

\* The client's answer: its id finds the promise, or a string, as which no promise is found.
AnswerArrives(t, n, a, isString) ==
  /\ thread[t] = Free /\ (n \in seen \/ isString)
  /\ messages < MaxMessages /\ messages' = messages + 1
  /\ LET found == {p \in pending : p.id = n /\ ~isString}
     IN  /\ pending' = pending \ found
         /\ thread' = [thread EXCEPT ![t] =
              IF found = {} THEN AfterMessage(TRUE)
              ELSE Gives((CHOOSE p \in found : TRUE).call, [what |-> a, id |-> n])]
  /\ UNCHANGED <<transport, callVars, promise, seen, stopVars>>

\* set_value, when the table is no longer locked.
Give(t) ==
  /\ thread[t].doing = "gives"
  /\ promise' = [promise EXCEPT ![thread[t].to] = thread[t].answer]
  /\ thread' = [thread EXCEPT ![t] = AfterMessage(TRUE)]
  /\ UNCHANGED <<transport, callVars, pending, seen, messages, stopVars>>

\* session/cancel, as a notification or with an id.
CancelArrives(t, hasId) ==
  /\ thread[t] = Free /\ messages < MaxMessages /\ messages' = messages + 1
  /\ thread' = [thread EXCEPT ![t] = AfterMessage(hasId)]
  /\ UNCHANGED <<transport, callVars, tableVars, seen, stopVars>>

\* asyncTimeout, two minutes, ends the wait.
WaitEnds(t) ==
  /\ thread[t] = Waits /\ thread' = [thread EXCEPT ![t] = Free]
  /\ UNCHANGED <<transport, callVars, tableVars, seen, messages, stopVars>>

Stop ==
  /\ ~stopFlag /\ stopFlag' = TRUE /\ stopFound' = {c \in Calls : pc[c] = "waiting"}
  /\ UNCHANGED <<transport, callVars, tableVars, seen, thread, messages>>

Next ==
  \/ Stop
  \/ \E c \in Calls : Begin(c) \/ Send(c) \/ Expire(c) \/ GiveUp(c) \/ Answered(c)
  \/ \E t \in Threads : Give(t) \/ WaitEnds(t) \/ \E h \in BOOLEAN : CancelArrives(t, h)
  \/ \E t \in Threads, n \in Ids, a \in Answers, s \in BOOLEAN : AnswerArrives(t, n, a, s)

\* Threads run and time passes; the client need not answer.
Fairness == \A c \in Calls : WF_vars(Send(c)) /\ WF_vars(Expire(c)) /\ WF_vars(GiveUp(c) \/ Answered(c))

Spec == Init /\ [][Next]_vars /\ Fairness

----------------------------------------------------------------------------
\* A call returns the answer given to its own id, and a call that has returned has left nothing
\* in the table, however a late answer and the timeout meet (acp_server.h:98-115, :159-187).
OwnAnswerAndNoEntry ==
  \A c \in Calls :
    /\ promise[c] # Nothing => promise[c].id = id[c]
    /\ pc[c] = "returned" => \A p \in pending : p.call # c

\* A call that has begun returns (acp_server.h:151-188).
CallReturns == \A c \in Calls : pc[c] = "pending" ~> pc[c] = "returned"

\* (Does not hold.)  "Stop all in-flight prompts, cancel pending requests" (acp_server.h:74): stop
\* leaves pending_ alone, and a call that waits goes on until its 30 seconds are over.
StopCancelsCalls == \A c \in stopFound : outcome[c] # "timeout"

\* (Does not hold.)  A message of the client that has no answer does not hold a thread: an answer
\* to callClient, and a session/cancel with an id, wait for asyncTimeout (acp_server.h:694-733).
ThreadsGoOn == \A t \in Threads : thread[t] # Waits

\* (Does not hold.)  What the agent asks reaches the client ("streaming notifications",
\* acp_server.h:536): broadcastSSE only logs (:765-771).
RequestReaches == \A c \in Calls : pc[c] = "waiting" => id[c] \in seen
=============================================================================
