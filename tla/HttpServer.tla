----------------------------- MODULE HttpServer -----------------------------
(***************************************************************************)
(* HttpServer: the thread that starts it, the accept loop on the first     *)
(* worker, the connections dealt out to the workers in turn, each worker   *)
(* an io_context with a thread of its own; and the event stream McpServer  *)
(* serves on it.  A connection belongs to a client, which sends requests   *)
(* one after the other, may be silent and may go.                          *)
(***************************************************************************)
EXTENDS Naturals, FiniteSets

CONSTANTS N,               \* bound: connections
          Workers,         \* Config::ioThreads
          MaxConnections,  \* Config::maxConnections
          MaxRequests      \* bound: requests on a connection

ASSUME ConstantsAssumption ==
  N \in Nat /\ Workers \in Nat \ {0} /\ MaxConnections \in Nat /\ MaxRequests \in Nat

Conns == 1..N
Threads == 0..Workers - 1

\* What a request is for: a route that answers or throws, a path with a route for another
\* method, no route, the event stream, or nothing that can be parsed.
Kinds == {"answers", "throws", "other", "unknown", "stream", "bad"}
Unhandled == {"throws", "other", "unknown"}

VARIABLES
  life,       \* the thread in start()
  stopped,    \* stopped_
  stopping,   \* McpServer::stop: "no", "told" its streams, "called" HttpServer::stop
  worker,     \* worker[t]: whether the thread is in run()
  accepting,  \* the accept loop
  count,      \* activeConnections_
  nextWorker, \* nextWorker_
  conn,       \* conn[c]: where the coroutine of c is
  on,         \* on[c]: the worker c was given to
  gone,       \* clients that have disconnected
  asked,      \* asked[c]: requests read
  kind,       \* kind[c]: the one that is served
  keep,       \* keep[c]: keepAlive, once the response is there
  streams     \* sseClients_

lifeVars == <<life, stopped, stopping>>
loopVars == <<worker, accepting, nextWorker>>
requestVars == <<asked, kind, keep>>
vars == <<lifeVars, loopVars, requestVars, count, conn, on, gone, streams>>

\* Connections with a coroutine, which holds a ConnectionGuard.
Active == {"queued", "reading", "handling", "writing", "opening", "streaming"}
Live == {c \in Conns : conn[c] \in Active}

TypeOK ==
  /\ life \in {"new", "checked", "cleared", "running", "returned"}
  /\ stopped \in BOOLEAN /\ stopping \in {"no", "told", "called"}
  /\ worker \in [Threads -> {"none", "ready", "running", "over"}]
  /\ accepting \in {"off", "spawned", "on", "over"}
  /\ count \in 0..N /\ nextWorker \in 0..N
  /\ conn \in [Conns -> Active \cup {"none", "offered", "dropped", "ended"}]
  /\ on \in [Conns -> Threads] /\ {gone, streams} \subseteq SUBSET Conns
  /\ asked \in [Conns -> 0..MaxRequests] /\ kind \in [Conns -> Kinds \cup {"none"}]
  /\ keep \in [Conns -> BOOLEAN]

Init ==
  /\ life = "new" /\ stopped = FALSE /\ stopping = "no"
  /\ worker = [t \in Threads |-> "none"] /\ accepting = "off"
  /\ count = 0 /\ nextWorker = 0
  /\ conn = [c \in Conns |-> "none"] /\ on = [c \in Conns |-> 0]
  /\ gone = {} /\ streams = {}
  /\ asked = [c \in Conns |-> 0] /\ kind = [c \in Conns |-> "none"]
  /\ keep = [c \in Conns |-> FALSE]

----------------------------------------------------------------------------
(* start and stop.                                                         *)

StartChecks ==
  /\ life = "new" /\ life' = IF stopped THEN "returned" ELSE "checked"
  /\ UNCHANGED <<stopped, stopping, loopVars, requestVars, count, conn, on, gone, streams>>

StartClears ==
  /\ life = "checked" /\ life' = "cleared" /\ stopped' = FALSE
  /\ UNCHANGED <<stopping, loopVars, requestVars, count, conn, on, gone, streams>>

\* The workers, the acceptor, its coroutine and the threads.
StartBuilds ==
  /\ life = "cleared" /\ life' = "running"
  /\ worker' = [t \in Threads |-> "ready"] /\ accepting' = "spawned"
  /\ UNCHANGED <<stopped, stopping, nextWorker, requestVars, count, conn, on, gone, streams>>

StartReturns ==
  /\ life = "running" /\ \A t \in Threads : worker[t] = "over"
  /\ life' = "returned"
  /\ UNCHANGED <<stopped, stopping, loopVars, requestVars, count, conn, on, gone, streams>>

\* McpServer::stop: first the streams are told, which the registry forgets ...
StopStreams ==
  /\ stopping = "no" /\ stopping' = "told" /\ streams' = {}
  /\ UNCHANGED <<life, stopped, loopVars, requestVars, count, conn, on, gone>>

\* ... then HttpServer::stop: the io_contexts are stopped, and what waits on them stays there.
Stop ==
  /\ stopping = "told" /\ stopping' = "called" /\ stopped' = TRUE
  /\ worker' = [t \in Threads |-> IF life = "running" THEN "over" ELSE worker[t]]
  /\ UNCHANGED <<life, accepting, nextWorker, requestVars, count, conn, on, gone, streams>>

ThreadBegins(t) ==
  /\ worker[t] = "ready" /\ worker' = [worker EXCEPT ![t] = "running"]
  /\ UNCHANGED <<lifeVars, accepting, nextWorker, requestVars, count, conn, on, gone, streams>>

\* run() comes back as soon as its io_context has nothing to do.
RunReturns(t) ==
  /\ worker[t] = "running" /\ \A c \in Live : on[c] # t
  /\ t = 0 => accepting = "over"
  /\ worker' = [worker EXCEPT ![t] = "over"]
  /\ UNCHANGED <<lifeVars, accepting, nextWorker, requestVars, count, conn, on, gone, streams>>

----------------------------------------------------------------------------
(* The accept loop.                                                        *)

\* Slip: the loop begins with an accept.
AcceptsFirst == "on"

\* while (!stopped_).
GoesOn == IF stopped THEN "over" ELSE "on"

AcceptLoopBegins ==
  /\ accepting = "spawned" /\ worker[0] = "running" /\ accepting' = GoesOn
  /\ UNCHANGED <<lifeVars, worker, nextWorker, requestVars, count, conn, on, gone, streams>>

\* At the limit the socket is closed; otherwise the next worker in turn gets it.
Accept(c) ==
  /\ accepting = "on" /\ worker[0] = "running" /\ conn[c] = "offered"
  /\ accepting' = GoesOn
  /\ IF count >= MaxConnections
     THEN conn' = [conn EXCEPT ![c] = "dropped"] /\ UNCHANGED <<count, nextWorker, on>>
     ELSE /\ conn' = [conn EXCEPT ![c] = "queued"]
          /\ count' = count + 1 /\ nextWorker' = nextWorker + 1
          /\ on' = [on EXCEPT ![c] = nextWorker % Workers]
  /\ UNCHANGED <<lifeVars, worker, requestVars, gone, streams>>

----------------------------------------------------------------------------
(* A connection, on its worker: serve().                                   *)

Runs(c, where) == conn[c] = where /\ worker[on[c]] = "running"
To(c, where) == conn' = [conn EXCEPT ![c] = where]

\* ~ConnectionGuard, on every way out.
Uncounted(c) == count - 1

\* What the next request and the next connection find.
Cleared(c) == kind' = [kind EXCEPT ![c] = "none"] /\ keep' = [keep EXCEPT ![c] = FALSE]

Ends(c) ==
  /\ To(c, "ended") /\ count' = Uncounted(c) /\ Cleared(c)
  /\ asked' = [asked EXCEPT ![c] = 0] /\ gone' = gone \ {c}

ServeBegins(c) ==
  /\ Runs(c, "queued") /\ To(c, "reading")
  /\ UNCHANGED <<lifeVars, loopVars, requestVars, count, on, gone, streams>>

\* The coroutine is a lambda's, and the lambda is a temporary of the accept loop: begun by the
\* thread of another worker it may find its captures gone, and the stream with them.
StreamLost(c) ==
  /\ Runs(c, "queued") /\ on[c] # 0 /\ Ends(c)
  /\ UNCHANGED <<lifeVars, loopVars, on, streams>>

\* A request that cannot be parsed or is too large is answered at once, with no keep-alive.
ReadsRequest(c, k) ==
  /\ Runs(c, "reading") /\ c \notin gone /\ asked[c] < MaxRequests
  /\ asked' = [asked EXCEPT ![c] = @ + 1] /\ kind' = [kind EXCEPT ![c] = k]
  /\ To(c, CASE k = "bad" -> "writing" [] k = "stream" -> "opening" [] OTHER -> "handling")
  /\ streams' = IF k = "stream" THEN streams \cup {c} ELSE streams
  /\ UNCHANGED <<lifeVars, loopVars, keep, count, on, gone>>

\* Slip: reading has no timeout.
ReadsForEver(c) == c \in gone

\* The client has gone, or has been silent for requestTimeout.
ReadGivesUp(c) == TRUE

ReadEnds(c) ==
  /\ Runs(c, "reading") /\ ReadGivesUp(c) /\ Ends(c)
  /\ UNCHANGED <<lifeVars, loopVars, on, streams>>

\* The status of a response.  A request that was not handled gets 404 or 405, which depends on
\* whether another method has a route for the path; a handler that threw has not handled its
\* request either, and the 500 it was given is written over.
Status(k) ==
  CASE k = "answers" -> 200 [] k = "bad" -> 400 [] k = "other" -> 405 [] OTHER -> 404

HandlerEnds(c) ==
  /\ Runs(c, "handling") /\ To(c, "writing")
  /\ \E clientClose \in BOOLEAN :
       keep' = [keep EXCEPT ![c] = kind[c] \notin Unhandled /\ ~stopped /\ ~clientClose]
  /\ UNCHANGED <<lifeVars, loopVars, asked, kind, count, on, gone, streams>>

\* The response is out, or the client has gone and the exception ends the coroutine.
WriteEnds(c) ==
  /\ Runs(c, "writing")
  /\ IF c \notin gone /\ keep[c] /\ ~stopped
     THEN To(c, "reading") /\ Cleared(c) /\ UNCHANGED <<asked, count, gone>>
     ELSE Ends(c)
  /\ UNCHANGED <<lifeVars, loopVars, on, streams>>

\* Slip: a stream whose first write fails is not forgotten.
StaysRegistered(c) == streams

\* sseClients_.erase.
Unregistered(c) == streams \ {c}

\* handleSseStream's first event: if it cannot be written the stream is over.
StreamOpens(c) ==
  /\ Runs(c, "opening")
  /\ IF c \in gone
     THEN Ends(c) /\ streams' = Unregistered(c)
     ELSE To(c, "streaming") /\ UNCHANGED <<count, streams, gone, requestVars>>
  /\ UNCHANGED <<lifeVars, loopVars, on>>

\* After each keepalive, written or not, and 15 s: the loop ends if stopSSE has marked the
\* stream, or the server is stopped.
StreamEnds(c) ==
  /\ Runs(c, "streaming") /\ (c \notin streams \/ stopped)
  /\ Ends(c) /\ streams' = Unregistered(c)
  /\ UNCHANGED <<lifeVars, loopVars, on>>

----------------------------------------------------------------------------
(* The clients.                                                            *)

Connects(c) ==
  /\ conn[c] = "none" /\ accepting = "on" /\ worker[0] = "running" /\ ~stopped
  /\ \A d \in 1..c - 1 : conn[d] # "none"
  /\ To(c, "offered")
  /\ UNCHANGED <<lifeVars, loopVars, requestVars, count, on, gone, streams>>

Disconnects(c) ==
  /\ c \in Live \ gone /\ gone' = gone \cup {c}
  /\ UNCHANGED <<lifeVars, loopVars, requestVars, count, conn, on, streams>>

----------------------------------------------------------------------------
Start == StartChecks \/ StartClears \/ StartBuilds \/ StartReturns
Thread(t) == ThreadBegins(t) \/ RunReturns(t)
Serve(c) ==
  \/ Accept(c) \/ ServeBegins(c) \/ StreamLost(c) \/ ReadEnds(c) \/ HandlerEnds(c)
  \/ WriteEnds(c) \/ StreamOpens(c) \/ StreamEnds(c)

Next ==
  \/ Start \/ StopStreams \/ Stop \/ AcceptLoopBegins
  \/ \E t \in Threads : Thread(t)
  \/ \E c \in Conns : \/ Serve(c) \/ Connects(c) \/ Disconnects(c)
                      \/ \E k \in Kinds : ReadsRequest(c, k)

\* Threads run, and every operation of a connection has a timeout; clients need do nothing.
Spec ==
  /\ Init /\ [][Next]_vars
  /\ WF_vars(Start) /\ WF_vars(AcceptLoopBegins) /\ WF_vars(Stop)
  /\ \A t \in 0..Workers - 1 : WF_vars(Thread(t))
  /\ \A c \in 1..N : WF_vars(Serve(c))

----------------------------------------------------------------------------
\* activeConnections_ counts the coroutines that exist, whatever way the others ended, and
\* never passes maxConnections: no refusal is due to a connection that is over (http_server.h:
\* :329-335, :372-382, :397-413).
ActiveCounted == count = Cardinality(Live) /\ count <= MaxConnections

\* Until McpServer stops, its registry of streams holds those that are open, and no other: no
\* broadcast reaches a stream that is over (mcp_server.h:859-903, :910-926).
StreamsRegistered ==
  stopping = "no" => streams = {c \in Conns : conn[c] \in {"opening", "streaming"}}

\* After each keep-alive response the connection is read again or closed: in the end every
\* connection that was accepted is over, but for event streams and for those dealt to a worker
\* whose run() has returned (http_server.h:457-474, :577-598).
ConnectionsEnd == <>[](\A c \in Live : conn[c] = "streaming" \/ worker[on[c]] = "over")

\* A stop that start does not undo makes start return (http_server.h:159-162, :222-236).
StartEnds == <>[](stopped => life \in {"new", "returned"})

\* Every connection a worker is given is served: "each runs its own io_context" and "Round-robin
\* dispatch to a per-thread worker io_context" (http_server.h:208, :384).
WorkersServe == <>[](stopped \/ \A c \in Live : conn[c] # "queued")

\* An accepted connection whose client stays is read (http_server.h:397-413).
AcceptedIsRead ==
  [][\A c \in Conns : conn[c] = "queued" /\ conn'[c] # "queued" => conn'[c] = "reading"]_conn

\* A stream ends when its client has gone: it waits "for the client to disconnect or the server
\* to stop" (mcp_server.h:877-878).
StreamsEnd == <>[](stopped \/ \A c \in Live : conn[c] = "streaming" => c \notin gone)

\* A handler that throws is answered with an internal server error (http_server.h:542-547).
ThrowIsServerError ==
  \A c \in Conns : conn[c] = "writing" /\ kind[c] = "throws" => Status(kind[c]) = 500

\* After stop, "serve() loops catch operation_aborted and exit cleanly" (http_server.h:231-232).
StopEndsConnections == <>[](stopped => Live = {})

\* A call of stop is not lost: it is "safe to call from any thread" (http_server.h:221).
StopIsHeard == <>[](stopping = "called" => life # "running")

=============================================================================
