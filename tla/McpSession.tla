----------------------------- MODULE McpSession -----------------------------
(***************************************************************************)
(* An MCP session: McpClient on the one io_context thread of an agent, and *)
(* its server, over HTTP or over the pipes of a subprocess (the build with *)
(* Boost.Process, which is the default).  Between two co_awaits a call     *)
(* runs without interruption, so a step here goes from one to the next.    *)
(* The server may answer in any order, send ids back as strings, say       *)
(* things twice or things that answer nothing, and die; McpServer is one   *)
(* that answers in order.                                                  *)
(***************************************************************************)
EXTENDS Naturals, Sequences, FiniteSets

CONSTANTS N,                 \* bound: calls of the client, numbered as they begin
          MaxStarts,         \* bound: calls of initialize
          MaxNoise,          \* bound: lines that answer no request waiting
          OverlappingWrites  \* whether calls begin while another one writes

Calls == 1..N

VARIABLES
  transport,    \* "http" or "stdio"
  closed,       \* closed_
  initialized,  \* initialized_
  discovered,   \* sseDiscovered_
  nextId,       \* nextId_
  pc,           \* pc[r]: where call r is
  handshake,    \* the call that is, or was last, an initialize
  id,           \* id[r]: its JSON-RPC id, 0 before it has one
  result,       \* result[r]: what it returned, or Nothing
  pending,      \* keys of pending_
  promise,      \* promise[r]: what the promise of r was given, or Nothing
  holder,       \* the call that holds stdioWriteMutex_ while it is suspended
  stuck,        \* the thread waits for that mutex
  running,      \* stdioRunning_
  reader,       \* the reader loop of the last subprocess
  oldReader,    \* the loop of the one before it still has to notice
  starts,       \* subprocesses started
  server,       \* "up" or "down"
  toServer, taken, fromServer,  \* the pipes, and the requests the server works at
  noise

clientVars == <<transport, closed, initialized, discovered, nextId, handshake>>
callVars   == <<pc, id, result>>
tableVars  == <<pending, promise>>
lockVars   == <<holder, stuck>>
readerVars == <<running, reader, oldReader, starts>>
serverVars == <<server, toServer, taken, fromServer, noise>>
vars == <<clientVars, callVars, tableVars, lockVars, readerVars, serverVars>>

\* What a promise is given and a call returns: an outcome, and the call it was made for, or 0.
Outcome(what, r) == [what |-> what, call |-> r]
Nothing == Outcome("none", 0)
Failed  == Outcome("failed", 0)
Closed  == Outcome("closed", 0)

Given == [what : {"result", "error"}, call : Calls] \cup {Closed, Nothing}

TypeOK ==
  /\ transport \in {"http", "stdio"}
  /\ {closed, initialized, discovered, stuck, running, oldReader} \subseteq BOOLEAN
  /\ nextId \in 1..N + 1
  /\ pc \in [Calls -> {"none", "discovering", "posting", "notifying", "writing", "waiting", "done"}]
  /\ id \in [Calls -> 0..N]
  /\ result \in [Calls -> Given \cup {Failed}]
  /\ pending \subseteq Calls /\ promise \in [Calls -> Given]
  /\ {holder, handshake} \subseteq Calls \cup {0}
  /\ reader \in {"none", "spawned", "reading", "gone"}
  /\ starts \in 0..MaxStarts /\ server \in {"up", "down"} /\ noise \in 0..MaxNoise

Init ==
  /\ transport \in {"http", "stdio"} /\ closed = FALSE /\ initialized = FALSE
  /\ discovered = FALSE /\ nextId = 1 /\ handshake = 0
  /\ pc = [r \in Calls |-> "none"] /\ id = [r \in Calls |-> 0]
  /\ result = [r \in Calls |-> Nothing]
  /\ pending = {} /\ promise = [r \in Calls |-> Nothing]
  /\ holder = 0 /\ stuck = FALSE
  /\ running = FALSE /\ reader = "none" /\ oldReader = FALSE /\ starts = 0
  /\ server = "down" /\ toServer = <<>> /\ taken = {} /\ fromServer = <<>> /\ noise = 0

----------------------------------------------------------------------------
(* Calls.                                                                  *)

Next1(r) == pc[r] = "none" /\ \A q \in 1..r - 1 : pc[q] # "none"

InProgress == {r \in Calls : pc[r] \notin {"none", "done"}}

Returns(r, what) == pc' = [pc EXCEPT ![r] = "done"] /\ result' = [result EXCEPT ![r] = what]

\* Slip: the id is read and not advanced.
SameId == nextId' = nextId

\* nextId_.fetch_add.
NewId == nextId' = nextId + 1

\* sendRequest up to its first co_await.  Over stdio the promise is registered and the write
\* begins under a mutex that stays locked while the coroutine is suspended: another call that
\* begins meanwhile blocks the thread itself.
SendRequest(r) ==
  IF closed
  THEN Returns(r, Failed) /\ UNCHANGED <<nextId, id, tableVars, lockVars>>
  ELSE /\ NewId /\ id' = [id EXCEPT ![r] = nextId]
       /\ UNCHANGED <<result, promise>>
       /\ IF transport = "http"
          THEN /\ pc' = [pc EXCEPT ![r] = IF discovered THEN "posting" ELSE "discovering"]
               /\ UNCHANGED <<pending, lockVars>>
          ELSE /\ pending' = pending \cup {nextId}
               /\ pc' = [pc EXCEPT ![r] = "writing"]
               /\ holder' = IF holder = 0 THEN r ELSE holder
               /\ stuck' = (holder # 0)

\* startStdioSubprocess: new pipes, a new process and a new reader; the pipes of an earlier
\* subprocess go, and the reader suspended on them will be told so.
StartSubprocess ==
  /\ running' = TRUE /\ reader' = "spawned" /\ oldReader' = (oldReader \/ reader = "reading")
  /\ server' = "up" /\ toServer' = <<>> /\ taken' = {} /\ fromServer' = <<>>
  /\ UNCHANGED noise

\* initialize: one at a time, and again if it failed.  The subprocess may fail to start.
Initialize(r) ==
  /\ Next1(r) /\ ~stuck /\ ~initialized /\ InProgress = {} /\ starts < MaxStarts
  /\ starts' = starts + 1 /\ handshake' = r
  /\ \/ /\ transport = "stdio" /\ StartSubprocess /\ SendRequest(r)
     \/ /\ transport = "http" /\ SendRequest(r)
        /\ UNCHANGED <<running, reader, oldReader, serverVars>>
     \/ /\ transport = "stdio" /\ Returns(r, Failed)
        /\ UNCHANGED <<nextId, id, tableVars, lockVars, running, reader, oldReader, serverVars>>
  /\ UNCHANGED <<transport, closed, initialized, discovered>>

\* ping, listTools, callTool and the others: one request each, once the session is there.
Request(r) ==
  /\ Next1(r) /\ ~stuck /\ (initialized \/ closed)
  /\ OverlappingWrites \/ holder = 0
  /\ SendRequest(r)
  /\ UNCHANGED <<transport, closed, initialized, discovered, handshake, readerVars, serverVars>>

\* discoverSseEndpoint: with an endpoint event, without one, or after a failure.
DiscoveryEnds(r) ==
  /\ pc[r] = "discovering"
  /\ discovered' = TRUE
  /\ pc' = [pc EXCEPT ![r] = "posting"]
  /\ UNCHANGED <<transport, closed, initialized, nextId, handshake, id, result, tableVars, lockVars, readerVars, serverVars>>

\* The POST comes back with an answer, or fails: timeout, status, no JSON, no matching event.
PostEnds(r) ==
  /\ pc[r] = "posting"
  /\ \/ /\ r = handshake
        /\ pc' = [pc EXCEPT ![r] = "notifying"] /\ UNCHANGED result
     \/ \E what \in {"result", "error"} :
          (what = "result" => r # handshake) /\ Returns(r, Outcome(what, r))
     \/ Returns(r, Failed)
  /\ UNCHANGED <<clientVars, id, tableVars, lockVars, readerVars, serverVars>>

\* initialize's notification over HTTP is over, in whatever way.
Notified(r) ==
  /\ pc[r] = "notifying"
  /\ Returns(r, Outcome("result", r))
  /\ initialized' = TRUE
  /\ UNCHANGED <<transport, closed, discovered, nextId, handshake, id, tableVars, lockVars, readerVars, serverVars>>

\* pending_.erase(id) after a failed write.
Unpended(r) == pending \ {id[r]}

WriteEnds(r) ==
  /\ pc[r] = "writing" /\ holder = r /\ ~stuck
  /\ holder' = 0
  /\ \/ /\ server = "up"
        /\ toServer' = Append(toServer, [id |-> id[r], call |-> r])
        /\ pc' = [pc EXCEPT ![r] = "waiting"] /\ UNCHANGED <<result, pending>>
     \/ /\ server = "down" /\ Returns(r, Failed) /\ pending' = Unpended(r)
        /\ UNCHANGED toServer
  /\ UNCHANGED <<clientVars, id, promise, stuck, readerVars, server, taken, fromServer, noise>>

\* Every 5 ms the call looks at its future.
FutureReady(r) ==
  /\ pc[r] = "waiting" /\ ~stuck /\ promise[r] # Nothing
  /\ Returns(r, promise[r])
  /\ initialized' = (initialized \/ (r = handshake /\ promise[r].what = "result"))
  /\ UNCHANGED <<transport, closed, discovered, nextId, handshake, id, tableVars, lockVars, readerVars, serverVars>>

----------------------------------------------------------------------------
(* The reader loop.                                                        *)

ReaderBegins ==
  /\ reader = "spawned" /\ ~stuck
  /\ reader' = IF running THEN "reading" ELSE "gone"
  /\ UNCHANGED <<running, oldReader, starts, clientVars, callVars, tableVars, lockVars, serverVars>>

\* deliverResponse's reading of the id: a number, or a string of digits.
Parsed(line) == IF line.as \in {"integer", "string"} THEN line.id ELSE 0

Deliver(line) ==
  LET key == Parsed(line) IN
  IF key \in pending
  THEN /\ pending' = pending \ {key}
       /\ promise' = [r \in Calls |-> IF id[r] = key /\ promise[r] = Nothing
                                      THEN Outcome(line.what, line.call) ELSE promise[r]]
  ELSE UNCHANGED tableVars

ReaderReads ==
  /\ reader = "reading" /\ ~stuck /\ fromServer # <<>>
  /\ Deliver(Head(fromServer))
  /\ fromServer' = Tail(fromServer)
  /\ reader' = IF running THEN "reading" ELSE "gone"
  /\ UNCHANGED <<running, oldReader, starts, clientVars, callVars, lockVars, server, toServer, taken, noise>>

\* The pipe is at its end, or was closed: nobody tells the calls that wait.
ReaderEnds ==
  /\ reader = "reading" /\ ~stuck /\ server = "down" /\ fromServer = <<>>
  /\ reader' = "gone" /\ running' = FALSE
  /\ UNCHANGED <<oldReader, starts, clientVars, callVars, tableVars, lockVars, serverVars>>

\* The same for the reader of the subprocess before: stdioRunning_ is one flag for both.
OldReaderEnds ==
  /\ oldReader /\ ~stuck /\ oldReader' = FALSE /\ running' = FALSE
  /\ UNCHANGED <<reader, starts, clientVars, callVars, tableVars, lockVars, serverVars>>

\* closeInternal gives every call that waits an error.
Drained ==
  [r \in Calls |-> IF id[r] \in pending THEN Closed ELSE promise[r]]

Close ==
  /\ ~closed /\ ~stuck
  /\ closed' = TRUE /\ initialized' = FALSE /\ discovered' = FALSE
  /\ pending' = {} /\ promise' = Drained
  /\ running' = FALSE
  /\ server' = "down" /\ toServer' = <<>> /\ taken' = {} /\ fromServer' = <<>>
  /\ UNCHANGED <<transport, nextId, handshake, callVars, lockVars, reader, oldReader, starts, noise>>

----------------------------------------------------------------------------
(* The server.                                                             *)

ServerTakes ==
  /\ server = "up" /\ toServer # <<>>
  /\ taken' = taken \cup {Head(toServer)} /\ toServer' = Tail(toServer)
  /\ UNCHANGED <<clientVars, callVars, tableVars, lockVars, readerVars, server, fromServer, noise>>

Says(line) == fromServer' = Append(fromServer, line)

\* processJsonRpc: every request with an id has one response with that id, a result or an error.
ServerAnswers ==
  /\ server = "up"
  /\ \E q \in taken, as \in {"integer", "string"}, what \in {"result", "error"} :
       /\ taken' = taken \ {q}
       /\ Says([id |-> q.id, as |-> as, what |-> what, call |-> q.call])
  /\ UNCHANGED <<clientVars, callVars, tableVars, lockVars, readerVars, server, toServer, noise>>

\* A notification, an id that is null or unknown, or an answer given for the second time.
ServerChatters ==
  /\ server = "up" /\ noise < MaxNoise /\ noise' = noise + 1
  /\ \/ Says([id |-> 0, as |-> "none", what |-> "result", call |-> 0])
     \/ \E r \in Calls : /\ promise[r] # Nothing /\ promise[r].call # 0
                         /\ Says([id |-> id[r], as |-> "integer", what |-> "result", call |-> r])
  /\ UNCHANGED <<clientVars, callVars, tableVars, lockVars, readerVars, server, toServer, taken>>

ServerDies ==
  /\ server = "up" /\ server' = "down" /\ toServer' = <<>> /\ taken' = {}
  /\ UNCHANGED <<clientVars, callVars, tableVars, lockVars, readerVars, fromServer, noise>>

----------------------------------------------------------------------------
CallGoesOn(r) ==
  DiscoveryEnds(r) \/ PostEnds(r) \/ Notified(r) \/ WriteEnds(r) \/ FutureReady(r)

ReaderLoop == ReaderBegins \/ ReaderReads \/ ReaderEnds \/ OldReaderEnds

Server == ServerTakes \/ ServerAnswers

Next ==
  \/ \E r \in Calls : Initialize(r) \/ Request(r) \/ CallGoesOn(r)
  \/ ReaderLoop \/ Close \/ Server \/ ServerChatters \/ ServerDies

\* The io_context runs what is ready, HTTP requests time out, a server that lives answers.
Spec ==
  /\ Init /\ [][Next]_vars
  /\ \A r \in 1..N : WF_vars(CallGoesOn(r))
  /\ WF_vars(ReaderLoop) /\ WF_vars(Server)

----------------------------------------------------------------------------
\* An answer a call returns was made for that call, whatever else the server says, in whatever
\* order (mcp_client.h:452-467, :1159-1194).
OwnAnswer ==
  \A r \in Calls : result[r].what \in {"result", "error"} => result[r].call = r

\* A call that waits is in the table or has its promise kept, and the table holds no other
\* entry: no answer, failed write or close loses a call or leaves one behind (mcp_client.h:
\* :713-729, :1026-1038, :1180-1193).
PromiseKept ==
  /\ \A r \in Calls : pc[r] = "waiting" => id[r] \in pending \/ promise[r] # Nothing
  /\ \A i \in pending : \E r \in Calls : id[r] = i /\ pc[r] \in {"writing", "waiting"}

\* In the end the calls that have not returned are those whose answers nobody reads any more and
\* those of a thread that blocked itself, and close lets the first ones return too: no answer,
\* failure or close is lost on any other call (mcp_client.h:719-772, :1026-1082).
CallsEnd ==
  <>[](\A r \in InProgress : transport = "stdio" /\ ~closed /\ (reader = "gone" \/ stuck))

\* Every call returns while its server lives: mcp_client.h:109-118 refuses a second initialize
\* only when the first one has succeeded.
ServedCallReturns == <>[](server = "up" => InProgress = {})

\* Every call returns, or times out: Config has a requestTimeout (mcp_client.h:82).
EveryCallReturns == <>[](InProgress = {})

=============================================================================
