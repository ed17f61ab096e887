------------------------------- MODULE MCPeers -------------------------------
(***************************************************************************)
(* The agent and those it talks to, for TLC: the editor whose agent it is  *)
(* (ACP, both ways), the MCP servers it is a client of, its own MCP        *)
(* server, and the model's stream.  A behaviour is one of these parts.     *)
(* The parts share no state in the code; each runs on its own here, the    *)
(* variables of the others standing still.                                 *)
(***************************************************************************)
EXTENDS Naturals, FiniteSetsExt

CONSTANTS
  MaxPrompts, StringIds, Sessions, MaxInflight, MaxCancels, None,           \* of AcpServer
  ClientCalls, MaxStarts, MaxNoise, OverlappingWrites,                      \* of McpSession
  ServingThreads, Entries, MaxChanges,                                      \* of McpServer
  EditorCalls, MessageThreads, MaxMessages,                                 \* of AcpCalls
  Words, ThinkOpen, ThinkClose, Indices, MaxEvents, ServerEnds              \* of ModelStream

ASSUME PeersAssumption ==
  /\ {MaxPrompts, MaxInflight, MaxCancels, ClientCalls, EditorCalls} \subseteq Nat
  /\ None \notin Sessions

VARIABLES
  peer,                                                       \* the one it talks to
  agentTransport, agentReader, current, session, agentWorker, inflight, agentCount, flag,
  agentStop, agentAnswer, slots, agentReply, cancels,         \* AcpServer
  clientTransport, closed, initialized, discovered, clientNextId, handshake, clientPc, clientId,
  result, clientPending, clientPromise, holder, stuck, running, clientReader, oldReader, starts,
  mcpProcess, toServer, taken, fromServer, noise,             \* McpSession
  registered, changes, serving, request, seenEntries, disturbed, sometime, throughout, answer,
                                                              \* McpServer
  transport, nextId, id, pc, outcome, callExpired, pending, promise, seen, thread, messages,
  stopFlag, stopFound,                                        \* AcpCalls
  provider, ending, phase, wire, sent, server, lineBuffer, content, thinking, tcMap, shown,
  completion                                                  \* ModelStream

Agent    == INSTANCE AcpServer WITH
              N <- MaxPrompts, transport <- agentTransport, reader <- agentReader,
              worker <- agentWorker, count <- agentCount, stopFlag <- agentStop,
              answer <- agentAnswer, reply <- agentReply
Client   == INSTANCE McpSession WITH
              N <- ClientCalls, transport <- clientTransport, nextId <- clientNextId,
              pc <- clientPc, id <- clientId, pending <- clientPending, promise <- clientPromise,
              reader <- clientReader, server <- mcpProcess
Serving  == INSTANCE McpServer WITH
              Workers <- ServingThreads, phase <- serving, seen <- seenEntries
Outbound == INSTANCE AcpCalls WITH
              Calls <- 1..EditorCalls, Threads <- MessageThreads, expired <- callExpired
Stream   == INSTANCE ModelStream

Idle == "idle"

AgentIdle    == /\ agentTransport = Idle /\ agentReader = Idle /\ current = Idle
                /\ session = [p \in 1..MaxPrompts |-> None] /\ agentWorker = Idle
                /\ inflight = Idle /\ agentCount = Idle /\ flag = Idle /\ agentStop = Idle
                /\ agentAnswer = Idle /\ slots = Idle /\ agentReply = Idle /\ cancels = Idle
ClientIdle   == /\ clientTransport = Idle /\ closed = Idle /\ initialized = Idle
                /\ discovered = Idle /\ clientNextId = Idle /\ handshake = Idle
                /\ clientPc = [r \in 1..ClientCalls |-> "none"] /\ clientId = Idle
                /\ result = Idle /\ clientPending = Idle /\ clientPromise = Idle
                /\ holder = Idle /\ stuck = Idle /\ running = Idle /\ clientReader = Idle
                /\ oldReader = Idle /\ starts = Idle /\ mcpProcess = Idle /\ toServer = Idle
                /\ taken = Idle /\ fromServer = Idle /\ noise = Idle
ServingIdle  == /\ registered = Idle /\ changes = Idle /\ serving = Idle /\ request = Idle
                /\ seenEntries = Idle /\ disturbed = Idle /\ sometime = Idle
                /\ throughout = Idle /\ answer = Idle
OutboundIdle == /\ transport = Idle /\ nextId = Idle /\ id = Idle
                /\ pc = [c \in 1..EditorCalls |-> "idle"] /\ outcome = Idle
                /\ callExpired = Idle /\ pending = Idle /\ promise = Idle /\ seen = Idle
                /\ thread = Idle /\ messages = Idle /\ stopFlag = Idle /\ stopFound = Idle
StreamIdle   == /\ provider = "openai" /\ ending = "lf" /\ phase = "returned" /\ wire = <<>>
                /\ sent = <<>> /\ server = "sends" /\ lineBuffer = <<>> /\ content = <<>>
                /\ thinking = <<>> /\ tcMap = [i \in Indices |-> <<>>] /\ shown = <<>>
                /\ completion = [content |-> <<>>, thinking |-> <<>>]

PeersInit ==
  /\ peer \in {"agent", "client", "serving", "outbound", "stream"}
  /\ IF peer = "agent" THEN Agent!Init ELSE AgentIdle
  /\ IF peer = "client" THEN Client!Init ELSE ClientIdle
  /\ IF peer = "serving" THEN Serving!Init ELSE ServingIdle
  /\ IF peer = "outbound" THEN Outbound!Init ELSE OutboundIdle
  /\ IF peer = "stream" THEN Stream!Init /\ ending = "lf" ELSE StreamIdle
                                                              \* bound: no CRLF, see CrlfRead

agentVars    == <<agentTransport, agentReader, current, session, agentWorker, inflight, agentCount,
                  flag, agentStop, agentAnswer, slots, agentReply, cancels>>
clientVars   == <<clientTransport, closed, initialized, discovered, clientNextId, handshake,
                  clientPc, clientId, result, clientPending, clientPromise, holder, stuck, running,
                  clientReader, oldReader, starts, mcpProcess, toServer, taken, fromServer, noise>>
servingVars  == <<registered, changes, serving, request, seenEntries, disturbed, sometime,
                  throughout, answer>>
outboundVars == <<transport, nextId, id, pc, outcome, callExpired, pending, promise, seen, thread,
                  messages, stopFlag, stopFound>>
streamVars   == <<provider, ending, phase, wire, sent, server, lineBuffer, content, thinking,
                  tcMap, shown, completion>>
peersVars    == <<peer, agentVars, clientVars, servingVars, outboundVars, streamVars>>

\* A step with one of them.
With(p, A) ==
  /\ peer = p /\ A /\ UNCHANGED peer
  /\ IF p = "agent" THEN TRUE ELSE UNCHANGED agentVars
  /\ IF p = "client" THEN TRUE ELSE UNCHANGED clientVars
  /\ IF p = "serving" THEN TRUE ELSE UNCHANGED servingVars
  /\ IF p = "outbound" THEN TRUE ELSE UNCHANGED outboundVars
  /\ IF p = "stream" THEN TRUE ELSE UNCHANGED streamVars

PeersNext ==
  \/ With("agent", Agent!Next)
  \/ With("client", Client!Next)
  \/ With("serving", Serving!Next)
  \/ With("outbound", Outbound!Next)
  \/ With("stream", Stream!Next)

(***************************************************************************)
(* The fairness each part's own module states, its fair steps numbered.  A *)
(* behaviour is one part's, so that one condition serves the k-th step of  *)
(* each of them.                                                           *)
(***************************************************************************)
FairSteps == 1..Max({MaxPrompts + 1, ClientCalls + 2, 3 * EditorCalls, 5})

AgentFair(k) ==
  \/ k = 1 /\ Agent!Reader
  \/ \E p \in 1..MaxPrompts : k = p + 1 /\ Agent!Worker(p)

ClientFair(k) ==
  \/ k = 1 /\ Client!ReaderLoop
  \/ k = 2 /\ Client!Server
  \/ \E r \in 1..ClientCalls : k = r + 2 /\ Client!CallGoesOn(r)

OutboundFair(k) ==
  \E c \in 1..EditorCalls :
    \/ k = 3 * c - 2 /\ Outbound!Send(c)
    \/ k = 3 * c - 1 /\ Outbound!Expire(c)
    \/ k = 3 * c /\ (Outbound!GiveUp(c) \/ Outbound!Answered(c))

StreamFair(k) ==
  \/ k = 1 /\ Stream!TimesOut
  \/ k = 2 /\ Stream!Reads
  \/ k = 3 /\ Stream!LoopEnds
  \/ k = 4 /\ Stream!Returns
  \/ k = 5 /\ ServerEnds /\ Stream!ServerFinishes

PeersFairness ==
  \A k \in FairSteps :
    WF_peersVars(\/ With("agent", AgentFair(k)) \/ With("client", ClientFair(k))
                 \/ With("outbound", OutboundFair(k)) \/ With("stream", StreamFair(k)))

PeersSpec == PeersInit /\ [][PeersNext]_peersVars /\ PeersFairness

----------------------------------------------------------------------------
\* The agent's server loses no place and no session to a worker that is gone, spends a cancel on
\* one prompt, and leaves nothing behind when it returns (acp_server.h:79-84, :213-218, :352-469).
PromptsAccounted ==
  peer = "agent" => Agent!WorkersAccounted /\ Agent!CancelsSpent /\ Agent!QuietAfterReturn

\* An answer is the answer to what was asked: a call of the MCP client, or one to the editor, is
\* given the answer made for it and leaves no entry behind, and the MCP server answers a request
\* under its own id, by entries that were there while it worked (mcp_client.h, acp_server.h,
\* mcp_server.h).
OwnAnswers ==
  /\ peer = "client" => Client!OwnAnswer /\ Client!PromiseKept
  /\ peer = "outbound" => Outbound!OwnAnswerAndNoEntry
  /\ peer = "serving" => Serving!AnswersMatch /\ Serving!CallSeesRegistry /\ Serving!VersionAgreed

\* The model's answer is the stream's, however it was cut, its thinking is told from it, and
\* unstreamed it would have been the same
\* (openai_provider.h, anthropic_provider.h).
StreamRead == Stream!Assembled /\ Stream!ThinkingExtracted /\ Stream!AsUnstreamed

\* Calls end: a prompt is answered and the server drains, a call of the MCP client returns unless
\* nobody reads its answers, a call to the editor returns, and so does a stream the server ends.
CallsReturn ==
  Agent!Settled /\ Client!CallsEnd /\ Outbound!CallReturns /\ Stream!StreamEnds
=============================================================================
