----------------------------- MODULE McpServer ------------------------------
(***************************************************************************)
(* The MCP server (protocol/mcp_server.h) behind its transports, and what  *)
(* McpClient (protocol/mcp_client.h) makes of its answers.  Workers are    *)
(* the threads of the HTTP server, or the one loop over stdin.  The        *)
(* program adds and removes entries of the registries at any time:         *)
(* addTool, removeTool and listTools take no lock; a call looks its entry  *)
(* up under a shared one.  Tools, resources and prompts have a registry    *)
(* each, all alike.  Subscriptions are written and never read.             *)
(***************************************************************************)
EXTENDS Naturals, Sequences, FiniteSets

CONSTANTS Workers,
          Entries,    \* entries that may be registered
          MaxChanges  \* bound: entries added and removed

Supported == <<202511, 202506, 202503, 202411>>   \* kMcpSupportedProtocols, year and month
Offered == {0, 202311, 202411, 202501, 202503, 202506, 202511, 202601}   \* 0: none

\* What a request can be.  The first five are refused or answered for their form alone, the next
\* three are notifications by their name, whether they have an id or not.
Malformed == {"refusedByAccept", "garbled", "noObject", "badVersion", "noMethod"}
Notifications == {"initialized", "cancelled", "message"}
Methods == Malformed \cup Notifications \cup
           {"initialize", "constant", "subscribe", "list", "call", "unknown"}
Requests == [method : Methods, hasId : BOOLEAN, entry : Entries,
             kind : {"tool", "resource", "prompt"}, version : Offered]
\* Those that differ in what their method reads.
Relevant(r) ==
  /\ r.method # "initialize" => r.version = 0
  /\ r.method # "call" => r.entry = CHOOSE e \in Entries : TRUE
  /\ r.method \notin {"call", "list"} => r.kind = "tool"
  /\ r.method \in {"refusedByAccept", "garbled", "noObject"} => ~r.hasId

VARIABLES
  registered,   \* keys of toolsByName_, resourcesByUri_, promptsByName_
  changes,
  phase,        \* phase[w]: "idle", "listing", "found", "running", "answered"
  request,      \* request[w]
  seen,         \* seen[w]: entries a list holds so far
  disturbed,    \* disturbed[w]: the registry changed while w was reading it
  sometime,     \* sometime[w]: entries registered at some moment of the request
  throughout,   \* throughout[w]: entries registered at every moment of it
  answer        \* answer[w]: its id, "own", "null" or "none", and what it says

vars == <<registered, changes, phase, request, seen, disturbed, sometime, throughout, answer>>

Answer(id, what) == [id |-> id, what |-> what]
NoAnswer == Answer("none", "nothing")
NoRequest == [method |-> "unknown", hasId |-> FALSE, entry |-> CHOOSE e \in Entries : TRUE,
              kind |-> "tool", version |-> 0]

Init ==
  /\ registered \in SUBSET Entries /\ changes = 0
  /\ phase = [w \in Workers |-> "idle"] /\ request = [w \in Workers |-> NoRequest]
  /\ seen = [w \in Workers |-> {}] /\ disturbed = [w \in Workers |-> FALSE]
  /\ sometime = [w \in Workers |-> {}] /\ throughout = [w \in Workers |-> {}]
  /\ answer = [w \in Workers |-> NoAnswer]

----------------------------------------------------------------------------
Reading(w) == phase[w] \in {"listing", "found"}

\* addTool, removeTool and the like: no lock.
Changes(new) ==
  /\ changes < MaxChanges /\ new # registered
  /\ registered' = new /\ changes' = changes + 1
  /\ disturbed' = [w \in Workers |-> disturbed[w] \/ Reading(w)]
  /\ sometime' = [w \in Workers |-> IF phase[w] = "idle" THEN {} ELSE sometime[w] \cup new]
  /\ throughout' = [w \in Workers |-> throughout[w] \cap new]
  /\ UNCHANGED <<phase, request, seen, answer>>

Add(e) == Changes(registered \cup {e})
RemoveEntry(e) == Changes(registered \ {e})

\* The newest version whose year is not past the client's; a supported one is taken as it is.
NegotiatedVersion(v) ==
  LET fits == {i \in DOMAIN Supported : Supported[i] \div 100 <= v \div 100}
  IN  IF v \in {Supported[i] : i \in DOMAIN Supported} THEN v
      ELSE IF v = 0 \/ fits = {} THEN 202411
      ELSE Supported[CHOOSE i \in fits : \A j \in fits : i <= j]

\* Slip: every answer goes back with the id of its request.
AlwaysAnswered(r, what) == Answer(IF r.hasId THEN "own" ELSE "null", what)

\* No answer without an id.
Answered(r, what) == IF r.hasId THEN Answer("own", what) ELSE NoAnswer

\* A request that no registry is read for is answered at once.
AnswerOf(r) ==
  CASE r.method \in Malformed -> Answer("null", "error")
    [] r.method \in {"initialized", "cancelled"} -> Answered(r, "result")
    [] r.method = "message" -> NoAnswer
    [] r.method \in {"initialize", "constant", "subscribe"} -> Answered(r, "result")
    [] r.method = "unknown" -> Answered(r, "error")

Receive(w, r) ==
  /\ phase[w] = "idle" /\ request' = [request EXCEPT ![w] = r]
  /\ seen' = [seen EXCEPT ![w] = {}] /\ disturbed' = [disturbed EXCEPT ![w] = FALSE]
  /\ sometime' = [sometime EXCEPT ![w] = registered]
  /\ throughout' = [throughout EXCEPT ![w] = registered]
  /\ CASE r.method = "list" ->
            phase' = [phase EXCEPT ![w] = "listing"] /\ answer' = [answer EXCEPT ![w] = NoAnswer]
       [] r.method = "call" ->
            phase' = [phase EXCEPT ![w] = "looking"] /\ answer' = [answer EXCEPT ![w] = NoAnswer]
       [] r.method \notin {"list", "call"} ->
            phase' = [phase EXCEPT ![w] = "answered"] /\ answer' = [answer EXCEPT ![w] = AnswerOf(r)]
  /\ UNCHANGED <<registered, changes>>

historyVars == <<registered, changes, request, disturbed, sometime, throughout>>

Says(w, what) ==
  /\ phase' = [phase EXCEPT ![w] = "answered"]
  /\ answer' = [answer EXCEPT ![w] = Answered(request[w], what)]

\* A list takes one entry after the other.
ListTakes(w, e) ==
  /\ phase[w] = "listing" /\ e \in registered \ seen[w]
  /\ seen' = [seen EXCEPT ![w] = @ \cup {e}]
  /\ UNCHANGED <<historyVars, phase, answer>>

\* It ends when it has them all; where it ends after a change is undefined.
ListEnds(w) ==
  /\ phase[w] = "listing" /\ (registered \subseteq seen[w] \/ disturbed[w])
  /\ Says(w, "result") /\ UNCHANGED <<historyVars, seen>>

\* Slip: a call finds what another registry has.
FindsAll(w) == Entries

\* The entries a call can find.
Found(w) == registered

\* The entry is found, and its handler copied before the lock is left.
LookUp(w) ==
  /\ phase[w] = "looking"
  /\ IF request[w].entry \in Found(w)
     THEN phase' = [phase EXCEPT ![w] = "found"] /\ UNCHANGED answer
     ELSE Says(w, "error")
  /\ UNCHANGED <<historyVars, seen>>

\* The copy; of an entry erased meanwhile it is undefined, and may go well.
CopyHandler(w) ==
  /\ phase[w] = "found" /\ phase' = [phase EXCEPT ![w] = "running"]
  /\ UNCHANGED <<historyVars, seen, answer>>

\* A handler gives a value, or fails.
HandlerReturns(w, kind, failure) ==
  /\ phase[w] = "running" /\ request[w].kind = kind
  /\ Says(w, "value") \/ Says(w, failure)
  /\ UNCHANGED <<historyVars, seen>>

\* A tool that throws is a result with isError.
ToolReturns(w) == HandlerReturns(w, "tool", "isError")

\* A reader that has nothing, or throws, is an error.
ReaderReturns(w) == HandlerReturns(w, "resource", "error")
PromptReturns(w) == HandlerReturns(w, "prompt", "error")

\* The answer is written, and the worker takes the next request.
Done(w) ==
  /\ phase[w] = "answered" /\ phase' = [phase EXCEPT ![w] = "idle"]
  /\ request' = [request EXCEPT ![w] = NoRequest] /\ answer' = [answer EXCEPT ![w] = NoAnswer]
  /\ seen' = [seen EXCEPT ![w] = {}] /\ disturbed' = [disturbed EXCEPT ![w] = FALSE]
  /\ sometime' = [sometime EXCEPT ![w] = {}] /\ throughout' = [throughout EXCEPT ![w] = {}]
  /\ UNCHANGED <<registered, changes>>

----------------------------------------------------------------------------
\* What a method of McpClient makes of the answer; "waiting" for the one it does not get, or one
\* that has no id it knows.
Told(r, a) ==
  CASE a.id # "own" -> "waiting"
    [] a.id = "own" /\ r.method = "call" /\ r.kind = "tool" -> "value"
    [] a.id = "own" /\ r.method = "call" /\ r.kind # "tool" ->
         IF a.what = "value" THEN "value" ELSE "failed"
    [] a.id = "own" /\ r.method = "list" -> IF a.what = "result" THEN "value" ELSE "empty"
    [] a.id = "own" /\ r.method \notin {"call", "list"} ->
         IF a.what = "result" THEN "value" ELSE "failed"

\* The version the client keeps: what the server said, if it knows it or it looks like one.
negotiateProtocolVersion(requested, said) ==
  IF said \in {Supported[i] : i \in DOMAIN Supported} \/ said \div 100 \in {2024, 2025}
  THEN said ELSE requested

Next ==
  \/ \E e \in Entries : Add(e) \/ RemoveEntry(e)
  \/ \E w \in Workers :
       \/ \E r \in {q \in Requests : Relevant(q)} : Receive(w, r)
       \/ \E e \in Entries : ListTakes(w, e)
       \/ ListEnds(w) \/ LookUp(w) \/ CopyHandler(w)
       \/ ToolReturns(w) \/ ReaderReturns(w) \/ PromptReturns(w) \/ Done(w)

Spec == Init /\ [][Next]_vars

----------------------------------------------------------------------------
\* Only a request with an id is answered under an id, and what is not malformed is answered under
\* no other; a notification is not answered (mcp_server.h:379-515).
AnswersMatch ==
  \A w \in Workers : phase[w] = "answered" =>
    /\ answer[w].id = "own" => request[w].hasId
    /\ answer[w].id = "null" => request[w].method \in Malformed

\* What a call does stands at a moment of it: a handler runs only for an entry that was there
\* at some moment, and "not found" is said only of one that was not there throughout
\* (mcp_server.h:643-653, :699-709, :783-793).
CallSeesRegistry ==
  \A w \in Workers : request[w].method = "call" =>
    /\ phase[w] \in {"found", "running"} => request[w].entry \in sometime[w]
    /\ phase[w] = "answered" /\ answer[w].what = "value" => request[w].entry \in sometime[w]
    /\ phase[w] = "answered" /\ answer[w].what = "error" /\ request[w].kind = "tool" =>
         request[w].entry \notin throughout[w]

\* Both ends know the version they agree on, and it is the client's where the server has it
\* (mcp_server.h:545-572, mcp_client.h:426-450).
VersionAgreed ==
  \A w \in Workers : request[w].method = "initialize" =>
    LET agreed == negotiateProtocolVersion(request[w].version, NegotiatedVersion(request[w].version))
        known == {Supported[i] : i \in DOMAIN Supported}
    IN  agreed \in known /\ (request[w].version \in known => agreed = request[w].version)

\* (Does not hold.)  "If no exact match, pick our newest below client's version"
\* (mcp_server.h:561): only the years are compared, and 2025-11-25 is picked for 2025-01-01.
VersionNotNewer ==
  \A w \in Workers : request[w].method = "initialize" /\ request[w].version > 202411 =>
    NegotiatedVersion(request[w].version) <= request[w].version

\* (Does not hold.)  A request with an id is answered under its id: one without a method is
\* answered under null (mcp_server.h:424-428), and notifications/message not at all (:421-423).
RequestAnswered ==
  \A w \in Workers : phase[w] = "answered" /\ request[w].hasId => answer[w].id = "own"

\* (Does not hold.)  No registry changes while a worker reads it: addTool, removeTool and listTools
\* (mcp_server.h:220-237) do not take toolsMutex_, whatever handleToolsCall locks (:645).
RegistryUnchanged == \A w \in Workers : ~disturbed[w]

\* (Does not hold.)  A failed tool is a failure for the tool node: McpClientTool reads neither
\* isError nor the error that callTool hands on (mcp_client.h:1253-1295, :229-251).
FailureTold ==
  \A w \in Workers : phase[w] = "answered" /\ answer[w].what \in {"isError", "error"} =>
    Told(request[w], answer[w]) # "value"
=============================================================================
