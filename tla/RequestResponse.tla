--------------------------- MODULE RequestResponse ---------------------------
(***************************************************************************)
(* One RequestResponseStream of middlewares/event_stream.h: callers that   *)
(* wait for an answer or a timer, the detached server coroutine of each    *)
(* request, and respond/failRequest called from outside a handler.         *)
(*                                                                         *)
(* A request is named by its correlationId.  Its channel has room for one  *)
(* message; a message sent while async_receive waits completes it, and any *)
(* other message stays in the channel, where nobody reads it any more, so  *)
(* the channel is the state `waitResp' of its only receiver.               *)
(***************************************************************************)
EXTENDS Naturals

CONSTANTS
  MaxRequests,    \* bound: accepted requests in a behaviour
  MaxServers,     \* bound: serve() calls in a behaviour
  MaxRefusals,    \* bound: requests made while no server is registered
  Answers,        \* the responses a handler can return
  None, Timeout   \* not yet returned, and the error "Timeout"

ASSUME BoundsAssumption ==
  MaxRequests \in Nat /\ MaxServers \in Nat /\ MaxRefusals \in Nat
ASSUME OutcomesAssumption == None \notin Answers /\ Timeout \notin Answers /\ None # Timeout

Requests  == 1 .. MaxRequests
ServerIds == 1 .. MaxServers

VARIABLES
  serverId,        \* serverId_
  servers,         \* the keys of servers_
  correlationSeq,  \* correlationSeq_
  pending,         \* the keys of pending_
  handler,         \* the server each request was dispatched to
  server,          \* the detached server coroutine of each request
  waitResp,        \* the coroutine that waits on the channel
  answer,          \* the response that completed it
  settled,         \* which side of waitResp() || waitTimeout() succeeded first
  result,          \* what request() returned
  refusals,        \* requests answered "no server registered"
  offered          \* history: the responses sent for each request

vars == <<serverId, servers, correlationSeq, pending, handler, server, waitResp,
          answer, settled, result, refusals, offered>>

serverVars == <<serverId, servers>>
callerVars == <<correlationSeq, handler, settled, result, refusals>>

Init ==
  /\ serverId = 0
  /\ servers = {}
  /\ correlationSeq = 0
  /\ pending = {}
  /\ handler = [c \in Requests |-> 0]
  /\ server = [c \in Requests |-> "none"]
  /\ waitResp = [c \in Requests |-> "none"]
  /\ answer = [c \in Requests |-> None]
  /\ settled = [c \in Requests |-> "no"]
  /\ result = [c \in Requests |-> None]
  /\ refusals = 0
  /\ offered = [c \in Requests |-> {}]

Serve ==
  /\ serverId < MaxServers
  /\ serverId' = serverId + 1
  /\ servers' = servers \cup {serverId'}
  /\ UNCHANGED <<callerVars, pending, server, waitResp, answer, offered>>

RemoveServer(s) ==
  /\ s \in servers
  /\ servers' = servers \ {s}
  /\ UNCHANGED <<serverId, callerVars, pending, server, waitResp, answer, offered>>

-----------------------------------------------------------------------------
(***************************************************************************)
(* request(), up to its suspension: refused without a server, otherwise a  *)
(* new slot, a server coroutine of the first server, and two waits.  The   *)
(* handler is copied: removing its server later does not stop it.          *)
(***************************************************************************)
RequestRefused ==
  /\ servers = {}
  /\ refusals < MaxRefusals
  /\ refusals' = refusals + 1
  /\ UNCHANGED <<serverVars, correlationSeq, handler, settled, result, pending,
                 server, waitResp, answer, offered>>

FirstServer == CHOOSE s \in servers : \A t \in servers : s <= t

Request(c) ==
  /\ servers # {}
  /\ c = correlationSeq + 1
  /\ correlationSeq' = c
  /\ pending' = pending \cup {c}
  /\ handler' = [handler EXCEPT ![c] = FirstServer]
  /\ server' = [server EXCEPT ![c] = "running"]
  /\ waitResp' = [waitResp EXCEPT ![c] = "waiting"]
  /\ UNCHANGED <<serverVars, answer, settled, result, refusals, offered>>

(***************************************************************************)
(* async_send: completes the receive that is waiting.  Without an error    *)
(* code the wait succeeds with the response; with one it throws, and the   *)
(* wait for the first success goes on with the timer alone.                *)
(***************************************************************************)
SendResponse(c, a) ==
  /\ offered' = [offered EXCEPT ![c] = @ \cup {a}]
  /\ waitResp' = [waitResp EXCEPT ![c] = IF @ = "waiting" THEN "got" ELSE @]
  /\ answer' = [answer EXCEPT ![c] = IF waitResp[c] = "waiting" THEN a ELSE @]

\* Slip: the error code is not looked at and the empty response is taken.
SendErrorUnchecked(c) ==
  /\ waitResp' = [waitResp EXCEPT ![c] = IF @ = "waiting" THEN "got" ELSE @]
  /\ answer' = [answer EXCEPT ![c] = IF @ = None THEN CHOOSE a \in Answers : TRUE ELSE @]
  /\ UNCHANGED offered

SendError(c) ==
  /\ waitResp' = [waitResp EXCEPT ![c] = IF @ = "waiting" THEN "failed" ELSE @]
  /\ UNCHANGED <<answer, offered>>

(***************************************************************************)
(* The server coroutine ends: its handler returns a response, throws       *)
(* CancelledException (nothing is sent), or throws anything else.          *)
(***************************************************************************)
ServerDone(c) ==
  /\ server[c] = "running"
  /\ server' = [server EXCEPT ![c] = "done"]

HandlerReturns(c, a) ==
  /\ ServerDone(c)
  /\ SendResponse(c, a)
  /\ UNCHANGED <<serverVars, callerVars, pending>>

HandlerCancelled(c) ==
  /\ ServerDone(c)
  /\ UNCHANGED <<serverVars, callerVars, pending, waitResp, answer, offered>>

HandlerThrows(c) ==
  /\ ServerDone(c)
  /\ SendError(c)
  /\ UNCHANGED <<serverVars, callerVars, pending>>

(***************************************************************************)
(* respond and failRequest, from anyone the handler gave the correlationId *)
(* to; both take the slot, and do nothing when it is gone.                 *)
(***************************************************************************)
Respond(c, a) ==
  /\ c \in pending
  /\ pending' = pending \ {c}
  /\ SendResponse(c, a)
  /\ UNCHANGED <<serverVars, callerVars, server>>

FailRequest(c) ==
  /\ c \in pending
  /\ pending' = pending \ {c}
  /\ SendError(c)
  /\ UNCHANGED <<serverVars, callerVars, server>>

(***************************************************************************)
(* waitResp() || waitTimeout(), wait_for_one_success: the coroutine whose  *)
(* completion is handled first settles the request, and the other wait is  *)
(* cancelled, with a response it may already have received.                *)
(***************************************************************************)
ResponseWins(c) ==
  /\ settled[c] = "no"
  /\ waitResp[c] = "got"
  /\ settled' = [settled EXCEPT ![c] = "response"]
  /\ UNCHANGED <<serverVars, correlationSeq, handler, result, refusals, pending,
                 server, waitResp, answer, offered>>

\* Slip: the timer is only waited for together with a server that runs.
TimerWinsWhileServed(c) ==
  /\ settled[c] = "no"
  /\ waitResp[c] # "none"
  /\ server[c] = "running"
  /\ settled' = [settled EXCEPT ![c] = "timer"]
  /\ waitResp' = [waitResp EXCEPT ![c] = IF @ = "waiting" THEN "cancelled" ELSE @]
  /\ UNCHANGED <<serverVars, correlationSeq, handler, result, refusals, pending,
                 server, answer, offered>>

TimerWins(c) ==
  /\ settled[c] = "no"
  /\ waitResp[c] # "none"
  /\ settled' = [settled EXCEPT ![c] = "timer"]
  /\ waitResp' = [waitResp EXCEPT ![c] = IF @ = "waiting" THEN "cancelled" ELSE @]
  /\ UNCHANGED <<serverVars, correlationSeq, handler, result, refusals, pending,
                 server, answer, offered>>

(***************************************************************************)
(* request() resumes: the result is the response or "Timeout", and the     *)
(* slot is removed on every path.                                          *)
(***************************************************************************)
\* Slip: the slot is only removed when the response came in time.
ReturnKeepingSlot(c) ==
  /\ settled[c] # "no"
  /\ result[c] = None
  /\ result' = [result EXCEPT ![c] = IF settled[c] = "response" THEN answer[c] ELSE Timeout]
  /\ pending' = IF settled[c] = "response" THEN pending \ {c} ELSE pending
  /\ UNCHANGED <<serverVars, correlationSeq, handler, settled, refusals, server,
                 waitResp, answer, offered>>

Return(c) ==
  /\ settled[c] # "no"
  /\ result[c] = None
  /\ result' = [result EXCEPT ![c] = IF settled[c] = "response" THEN answer[c] ELSE Timeout]
  /\ pending' = pending \ {c}
  /\ UNCHANGED <<serverVars, correlationSeq, handler, settled, refusals, server,
                 waitResp, answer, offered>>

Next ==
  \/ Serve
  \/ \E s \in ServerIds : RemoveServer(s)
  \/ RequestRefused
  \/ \E c \in Requests : Request(c)
  \/ \E c \in Requests, a \in Answers : HandlerReturns(c, a)
  \/ \E c \in Requests : HandlerCancelled(c)
  \/ \E c \in Requests : HandlerThrows(c)
  \/ \E c \in Requests, a \in Answers : Respond(c, a)
  \/ \E c \in Requests : FailRequest(c)
  \/ \E c \in Requests : ResponseWins(c)
  \/ \E c \in Requests : TimerWins(c)
  \/ \E c \in Requests : Return(c)

(***************************************************************************)
(* Timers expire and ready coroutines are resumed.  Nothing is assumed of  *)
(* the handlers: they may run for ever.                                    *)
(***************************************************************************)
Fairness ==
  \A c \in Requests : /\ WF_vars(ResponseWins(c) \/ TimerWins(c))
                      /\ WF_vars(Return(c))

Spec == Init /\ [][Next]_vars /\ Fairness
-----------------------------------------------------------------------------
(***************************************************************************)
(* Every variable keeps its type.                                          *)
(***************************************************************************)
TypeOK ==
  /\ serverId \in 0 .. MaxServers
  /\ servers \in SUBSET ServerIds
  /\ correlationSeq \in 0 .. MaxRequests
  /\ pending \in SUBSET Requests
  /\ handler \in [Requests -> ServerIds \cup {0}]
  /\ server \in [Requests -> {"none", "running", "done"}]
  /\ waitResp \in [Requests -> {"none", "waiting", "got", "failed", "cancelled"}]
  /\ answer \in [Requests -> Answers \cup {None}]
  /\ settled \in [Requests -> {"no", "response", "timer"}]
  /\ result \in [Requests -> Answers \cup {None, Timeout}]
  /\ refusals \in 0 .. MaxRefusals
  /\ offered \in [Requests -> SUBSET Answers]

(***************************************************************************)
(* A slot never outlives its request: an entry of pending_ belongs to a    *)
(* caller that is still waiting, so a late respond() finds nothing.        *)
(***************************************************************************)
NoSlotLeak == \A c \in pending : c <= correlationSeq /\ result[c] = None

(***************************************************************************)
(* A caller is told nothing but a response that was sent for its own       *)
(* request, or that the time is up: an exception of the server never turns *)
(* into a response.                                                        *)
(***************************************************************************)
OwnAnswer == \A c \in Requests : result[c] \in offered[c] \cup {None, Timeout}

(***************************************************************************)
(* The response that reached the waiting caller first is the one it gets:  *)
(* neither a second response nor a late one replaces it, and a result is   *)
(* never taken back.                                                       *)
(***************************************************************************)
FirstAnswerStands ==
  [][\A c \in Requests :
       /\ answer[c] # None => answer'[c] = answer[c]
       /\ result[c] # None => result'[c] = result[c]
       /\ result'[c] \in Answers => result'[c] = answer[c]]_vars

(***************************************************************************)
(* A stream of this kind is an asynchronous request: see AsyncRequest.  It *)
(* includes that request() always returns, whether the server answers,     *)
(* throws, hangs, is removed, or the slot is taken by failRequest.         *)
(***************************************************************************)
Call == INSTANCE AsyncRequest WITH
  status <- [c \in Requests |-> IF c > correlationSeq THEN "unused"
                                ELSE IF result[c] = None THEN "open" ELSE "closed"]

ImplementsAsyncRequest == Call!Spec

(***************************************************************************)
(* Several servers of one topic take turns, as the comment of serve() says *)
(* ("request is dispatched by polling"): two requests in a row made while  *)
(* the same two servers are registered go to different ones.               *)
(* (Does not hold.)                                                        *)
(***************************************************************************)
ServersTakeTurns ==
  [][\A c \in Requests : /\ correlationSeq' = c /\ correlationSeq = c - 1 /\ c > 1
                         /\ \E s \in servers : s # handler[c - 1]
                         /\ handler[c - 1] \in servers
       => handler'[c] # handler'[c - 1]]_vars
=============================================================================
