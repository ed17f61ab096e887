------------------------ MODULE RequestResponse_proofs ------------------------
(***************************************************************************)
(* Proofs about RequestResponse for any number of requests, servers and    *)
(* answers: the types, the safety properties of a request, and that every  *)
(* step is a step of AsyncRequest or leaves it unchanged.                  *)
(***************************************************************************)
EXTENDS RequestResponse, FiniteSetTheorems, WellFoundedInduction, TLAPS

(***************************************************************************)
(* A set of natural numbers that is not empty has a least element: a table *)
(* that is not empty has a first key, its begin().                         *)
(* The library's least-number theorems take an operator; the sets 0 .. n   *)
(* ordered by inclusion say the same without one.                          *)
(***************************************************************************)
LEMMA LeastExists ==
  ASSUME NEW S \in SUBSET Nat, S # {}
  PROVE  \E i \in S : \A j \in S : i <= j
<1> DEFINE Below(n) == 0 .. n
           T == {Below(n) : n \in S}
<1>1. T \subseteq FiniteSubsetsOf(Nat) /\ T # {}
  <2>1. \A n \in S : Below(n) \in SUBSET Nat /\ IsFiniteSet(Below(n))
    BY FS_Interval
  <2>. QED
    BY <2>1 DEF FiniteSubsetsOf
<1>2. IsWellFoundedOn(StrictSubsetOrdering(Nat), FiniteSubsetsOf(Nat))
  BY FS_StrictSubsetOrderingWellFounded
<1>3. \E x \in T : \A y \in T : ~ (<<y, x>> \in StrictSubsetOrdering(Nat))
  <2>. HIDE DEF T
  <2>. QED
    BY <1>1, <1>2, WFMin
<1>4. PICK i \in S : \A j \in S : <<Below(j), Below(i)>> \notin StrictSubsetOrdering(Nat)
  BY <1>3
<1>5. ASSUME NEW j \in S, j < i
      PROVE  FALSE
  <2>1. Below(j) \subseteq Below(i) /\ i \notin Below(j) /\ i \in Below(i)
    BY <1>5
  <2>2. Below(j) # Below(i) /\ Below(j) \in SUBSET Nat /\ Below(i) \in SUBSET Nat
    BY <2>1
  <2>. QED
    BY <1>4, <2>1, <2>2 DEF StrictSubsetOrdering
<1>6. \A j \in S : i <= j
  BY <1>5
<1>. QED
  BY <1>6

(***************************************************************************)
(* servers_.begin() of a table that is not empty is one of its entries.    *)
(***************************************************************************)
LEMMA FirstServerType ==
  ASSUME TypeOK, servers # {}
  PROVE  FirstServer \in servers
<1>1. servers \in SUBSET Nat
  BY BoundsAssumption DEF TypeOK, ServerIds
<1>2. PICK s \in servers : \A t \in servers : s <= t
  BY <1>1, LeastExists
<1>. QED
  BY <1>2 DEF FirstServer

(***************************************************************************)
(* A new RequestResponseStream is well typed.                              *)
(***************************************************************************)
LEMMA InitTypeOK == Init => TypeOK
BY BoundsAssumption DEF Init, TypeOK

(***************************************************************************)
(* No operation of the stream takes a variable out of its type.            *)
(***************************************************************************)
LEMMA NextTypeOK == TypeOK /\ [Next]_vars => TypeOK'
<1>. SUFFICES ASSUME TypeOK, [Next]_vars PROVE TypeOK'
  OBVIOUS
<1>. USE BoundsAssumption DEF serverVars, callerVars
<1>1. ASSUME Serve PROVE TypeOK'
  <2>1. serverId' \in ServerIds /\ serverId' \in 0 .. MaxServers
    BY <1>1 DEF Serve, TypeOK, ServerIds
  <2>. QED
    BY <1>1, <2>1 DEF Serve, TypeOK
<1>2. ASSUME NEW s \in ServerIds, RemoveServer(s) PROVE TypeOK'
  BY <1>2 DEF RemoveServer, TypeOK
<1>3. ASSUME RequestRefused PROVE TypeOK'
  <2>1. refusals' \in 0 .. MaxRefusals
    BY <1>3 DEF RequestRefused, TypeOK
  <2>. QED
    BY <1>3, <2>1 DEF RequestRefused, TypeOK
<1>4. ASSUME NEW c \in Requests, Request(c) PROVE TypeOK'
  <2>1. FirstServer \in ServerIds /\ correlationSeq' \in 0 .. MaxRequests
    BY <1>4, FirstServerType DEF Request, TypeOK, Requests
  <2>. QED
    BY <1>4, <2>1 DEF Request, TypeOK
<1>5. ASSUME NEW c \in Requests, NEW a \in Answers, HandlerReturns(c, a) PROVE TypeOK'
  BY <1>5 DEF HandlerReturns, ServerDone, SendResponse, TypeOK
<1>6. ASSUME NEW c \in Requests, HandlerCancelled(c) PROVE TypeOK'
  BY <1>6 DEF HandlerCancelled, ServerDone, TypeOK
<1>7. ASSUME NEW c \in Requests, HandlerThrows(c) PROVE TypeOK'
  BY <1>7 DEF HandlerThrows, ServerDone, SendError, TypeOK
<1>8. ASSUME NEW c \in Requests, NEW a \in Answers, Respond(c, a) PROVE TypeOK'
  BY <1>8 DEF Respond, SendResponse, TypeOK
<1>9. ASSUME NEW c \in Requests, FailRequest(c) PROVE TypeOK'
  BY <1>9 DEF FailRequest, SendError, TypeOK
<1>10. ASSUME NEW c \in Requests, ResponseWins(c) PROVE TypeOK'
  BY <1>10 DEF ResponseWins, TypeOK
<1>11. ASSUME NEW c \in Requests, TimerWins(c) PROVE TypeOK'
  BY <1>11 DEF TimerWins, TypeOK
<1>12. ASSUME NEW c \in Requests, Return(c) PROVE TypeOK'
  BY <1>12 DEF Return, TypeOK
<1>13. ASSUME UNCHANGED vars PROVE TypeOK'
  BY <1>13 DEF vars, TypeOK
<1>. QED
  BY <1>1, <1>2, <1>3, <1>4, <1>5, <1>6, <1>7, <1>8, <1>9, <1>10, <1>11, <1>12, <1>13 DEF Next

(***************************************************************************)
(* The variables of RequestResponse keep their types, for any bounds and   *)
(* any set of answers.                                                     *)
(***************************************************************************)
THEOREM TypeCorrect == Spec => []TypeOK
BY InitTypeOK, NextTypeOK, PTL DEF Spec

-----------------------------------------------------------------------------
(***************************************************************************)
(* The inductive invariant.  A request not yet made has left no trace; the *)
(* answer is there exactly when the wait has it, and it was sent for this  *)
(* request; a result was written after the waits were settled, and it is   *)
(* that answer or Timeout.                                                 *)
(***************************************************************************)
Untouched(c) ==
  /\ c \notin pending /\ server[c] = "none" /\ waitResp[c] = "none"
  /\ answer[c] = None /\ settled[c] = "no" /\ result[c] = None /\ offered[c] = {}

Consistent(c) ==
  /\ c > correlationSeq => Untouched(c)
  /\ answer[c] # None <=> waitResp[c] = "got"
  /\ answer[c] \in offered[c] \cup {None}
  /\ settled[c] = "response" => waitResp[c] = "got"
  /\ result[c] # None => settled[c] # "no"
  /\ result[c] \in {None, Timeout, answer[c]}
  /\ c \in pending => result[c] = None

IInv == TypeOK /\ \A c \in Requests : Consistent(c)

(***************************************************************************)
(* The inductive invariant holds of a new stream, on which nothing was     *)
(* requested.                                                              *)
(***************************************************************************)
LEMMA InitIInv == Init => IInv
BY InitTypeOK DEF Init, IInv, Consistent, Untouched

(***************************************************************************)
(* Every operation of the stream, and every stutter, keeps the inductive   *)
(* invariant.                                                              *)
(***************************************************************************)
LEMMA NextIInv == IInv /\ [Next]_vars => IInv'
<1>. SUFFICES ASSUME IInv, [Next]_vars PROVE IInv'
  OBVIOUS
<1>0. TypeOK /\ TypeOK'
  BY NextTypeOK DEF IInv
<1>. SUFFICES ASSUME NEW d \in Requests PROVE Consistent(d)'
  BY <1>0 DEF IInv
<1>a. Consistent(d) /\ d \in Nat
  BY DEF IInv, Requests
<1>. USE <1>0, <1>a, OutcomesAssumption DEF serverVars, callerVars, Consistent, Untouched
<1>1. CASE Serve
  BY <1>1 DEF Serve
<1>2. ASSUME NEW s \in ServerIds, RemoveServer(s) PROVE Consistent(d)'
  BY <1>2 DEF RemoveServer
<1>3. CASE RequestRefused
  BY <1>3 DEF RequestRefused
<1>4. ASSUME NEW c \in Requests, Request(c) PROVE Consistent(d)'
  <2>1. correlationSeq \in Nat /\ correlationSeq' = correlationSeq + 1 /\ correlationSeq' = c
    BY <1>4 DEF Request, TypeOK
  <2>. QED
    BY <1>4, <2>1 DEF Request, TypeOK
<1>5. ASSUME NEW c \in Requests, NEW a \in Answers, HandlerReturns(c, a) PROVE Consistent(d)'
  BY <1>5 DEF HandlerReturns, ServerDone, SendResponse, TypeOK
<1>6. ASSUME NEW c \in Requests, HandlerCancelled(c) PROVE Consistent(d)'
  BY <1>6 DEF HandlerCancelled, ServerDone, TypeOK
<1>7. ASSUME NEW c \in Requests, HandlerThrows(c) PROVE Consistent(d)'
  BY <1>7 DEF HandlerThrows, ServerDone, SendError, TypeOK
<1>8. ASSUME NEW c \in Requests, NEW a \in Answers, Respond(c, a) PROVE Consistent(d)'
  BY <1>8 DEF Respond, SendResponse, TypeOK
<1>9. ASSUME NEW c \in Requests, FailRequest(c) PROVE Consistent(d)'
  BY <1>9 DEF FailRequest, SendError, TypeOK
<1>10. ASSUME NEW c \in Requests, ResponseWins(c) PROVE Consistent(d)'
  BY <1>10 DEF ResponseWins, TypeOK
<1>11. ASSUME NEW c \in Requests, TimerWins(c) PROVE Consistent(d)'
  BY <1>11 DEF TimerWins, TypeOK
<1>12. ASSUME NEW c \in Requests, Return(c) PROVE Consistent(d)'
  BY <1>12 DEF Return, TypeOK
<1>13. CASE UNCHANGED vars
  BY <1>13 DEF vars
<1>. QED
  BY <1>1, <1>2, <1>3, <1>4, <1>5, <1>6, <1>7, <1>8, <1>9, <1>10, <1>11, <1>12, <1>13 DEF Next

(***************************************************************************)
(* The inductive invariant holds in every state of a                       *)
(* RequestResponseStream.                                                  *)
(***************************************************************************)
LEMMA Inductive == Spec => []IInv
BY InitIInv, NextIInv, PTL DEF Spec

(***************************************************************************)
(* An entry of pending_ belongs to a caller that still waits: request()    *)
(* erases it on every path, so a late respond() or failRequest() finds     *)
(* nothing.                                                                *)
(***************************************************************************)
THEOREM NoSlotLeakCorrect == Spec => []NoSlotLeak
<1>1. IInv => NoSlotLeak
  <2>. SUFFICES ASSUME IInv, NEW c \in pending
                PROVE  c <= correlationSeq /\ result[c] = None
    BY DEF NoSlotLeak
  <2>1. c \in Requests /\ c \in Nat /\ correlationSeq \in Nat /\ Consistent(c)
    BY DEF IInv, TypeOK, Requests
  <2>. QED
    BY <2>1 DEF Consistent, Untouched
<1>. QED
  BY <1>1, Inductive, PTL

(***************************************************************************)
(* A caller gets a response that was sent for its own request, or a        *)
(* timeout, however servers, respond() and failRequest() interleave.       *)
(***************************************************************************)
THEOREM OwnAnswerCorrect == Spec => []OwnAnswer
<1>1. IInv => OwnAnswer
  BY DEF IInv, Consistent, OwnAnswer
<1>. QED
  BY <1>1, Inductive, PTL

(***************************************************************************)
(* The first response that reaches the caller stands: the channel of       *)
(* capacity one and the single receive, for any number of late answers.    *)
(***************************************************************************)
THEOREM FirstAnswerStandsCorrect == Spec => FirstAnswerStands
<1>. DEFINE Stands(c) ==
       /\ answer[c] # None => answer'[c] = answer[c]
       /\ result[c] # None => result'[c] = result[c]
       /\ result'[c] \in Answers => result'[c] = answer[c]
<1>1. ASSUME IInv, [Next]_vars, NEW d \in Requests PROVE Stands(d)
  <2>a. TypeOK /\ Consistent(d)
    BY <1>1 DEF IInv
  <2>. USE <2>a, OutcomesAssumption DEF serverVars, callerVars, Consistent
  <2>1. ASSUME NEW c \in Requests, NEW a \in Answers, HandlerReturns(c, a) \/ Respond(c, a)
        PROVE  Stands(d)
    BY <2>1 DEF HandlerReturns, Respond, SendResponse, TypeOK
  <2>2. ASSUME NEW c \in Requests, Return(c) PROVE Stands(d)
    BY <2>2 DEF Return, TypeOK
  <2>3. ASSUME UNCHANGED <<answer, result>> PROVE Stands(d)
    BY <2>3
  <2>4. CASE Serve \/ RequestRefused
    BY <2>3, <2>4 DEF Serve, RequestRefused
  <2>5. ASSUME NEW s \in ServerIds, RemoveServer(s) PROVE Stands(d)
    BY <2>3, <2>5 DEF RemoveServer
  <2>6. ASSUME NEW c \in Requests,
               \/ Request(c) \/ HandlerCancelled(c) \/ HandlerThrows(c)
               \/ FailRequest(c) \/ ResponseWins(c) \/ TimerWins(c)
        PROVE  Stands(d)
    BY <2>3, <2>6 DEF Request, HandlerCancelled, HandlerThrows, SendError, FailRequest,
                      ResponseWins, TimerWins
  <2>7. CASE UNCHANGED vars
    BY <2>3, <2>7 DEF vars
  <2>. QED
    BY <1>1, <2>1, <2>2, <2>4, <2>5, <2>6, <2>7 DEF Next
<1>2. ASSUME IInv, [Next]_vars PROVE [\A c \in Requests : Stands(c)]_vars
  BY <1>1, <1>2
<1>. QED
  BY <1>2, Inductive, PTL DEF Spec, FirstAnswerStands

-----------------------------------------------------------------------------
(***************************************************************************)
(* A request stream implements AsyncRequest: a new stream, on which        *)
(* nothing was requested, maps to the abstract one with no request open.   *)
(***************************************************************************)
LEMMA InitSimulates == Init => Call!Init
BY DEF Init, Call!Init, Requests

(***************************************************************************)
(* Every step of the stream maps to a step of AsyncRequest or is invisible *)
(* there: request() opens, a response is offered, and the return of        *)
(* request() closes.                                                       *)
(***************************************************************************)
LEMMA StepSimulates == IInv /\ [Next]_vars => [Call!Next]_(Call!vars)
<1>. SUFFICES ASSUME IInv, [Next]_vars PROVE Call!Next \/ UNCHANGED Call!vars
  OBVIOUS
<1>. DEFINE status == [c \in Requests |-> IF c > correlationSeq THEN "unused"
                                          ELSE IF result[c] = None THEN "open" ELSE "closed"]
<1>a. /\ TypeOK /\ Requests \in SUBSET Nat /\ correlationSeq \in Nat
      /\ \A c \in Requests : Consistent(c)
  BY DEF IInv, TypeOK, Requests
<1>. USE <1>a, OutcomesAssumption
<1>1. ASSUME UNCHANGED <<correlationSeq, result, offered>> PROVE UNCHANGED Call!vars
  BY <1>1 DEF Call!vars
<1>2. ASSUME NEW c \in Requests, Request(c) PROVE Call!Open(c)
  <2>1. /\ c \in Nat /\ c = correlationSeq + 1 /\ correlationSeq' = c
        /\ UNCHANGED <<offered, result>> /\ result[c] = None
    BY <1>2 DEF Request, Consistent, Untouched
  <2>2. status[c] = "unused"
    BY <2>1
  <2>3. \A d \in Requests : (d > c <=> d > correlationSeq /\ d # c) /\ d \in Nat
    BY <2>1
  <2>4. status' = [status EXCEPT ![c] = "open"]
    BY <2>1, <2>3
  <2>. QED
    BY <2>1, <2>2, <2>4 DEF Call!Open
<1>3. ASSUME NEW c \in Requests, NEW a \in Answers, HandlerReturns(c, a) \/ Respond(c, a)
      PROVE  Call!Offer(c, a)
  <2>1. ~ Untouched(c)
    BY <1>3 DEF HandlerReturns, ServerDone, Respond, Untouched
  <2>2. ~ (c > correlationSeq)
    BY <2>1 DEF Consistent
  <2>. QED
    BY <1>3, <2>2 DEF HandlerReturns, Respond, SendResponse, callerVars, Call!Offer, TypeOK
<1>4. ASSUME NEW c \in Requests, Return(c) PROVE Call!Close(c)
  <2>0. ~ Untouched(c) /\ result[c] = None
    BY <1>4 DEF Return, Untouched
  <2>1. ~ (c > correlationSeq)
    BY <2>0 DEF Consistent
  <2>2. PICK v \in offered[c] \cup {Timeout} : result' = [result EXCEPT ![c] = v] /\ v # None
    BY <1>4 DEF Return, Consistent
  <2>3. status[c] = "open"
    BY <2>0, <2>1
  <2>4. correlationSeq' = correlationSeq /\ offered' = offered
    BY <1>4 DEF Return
  <2>5. status' = [status EXCEPT ![c] = "closed"]
    BY <2>1, <2>2, <2>4 DEF TypeOK
  <2>. QED
    BY <2>2, <2>3, <2>4, <2>5 DEF Call!Close
<1>5. CASE Serve \/ RequestRefused
  BY <1>1, <1>5 DEF Serve, RequestRefused, callerVars
<1>6. ASSUME NEW s \in ServerIds, RemoveServer(s) PROVE UNCHANGED Call!vars
  BY <1>1, <1>6 DEF RemoveServer, callerVars
<1>7. ASSUME NEW c \in Requests,
             \/ HandlerCancelled(c) \/ HandlerThrows(c)
             \/ FailRequest(c) \/ ResponseWins(c) \/ TimerWins(c)
      PROVE  UNCHANGED Call!vars
  BY <1>1, <1>7 DEF HandlerCancelled, HandlerThrows, SendError, FailRequest, ResponseWins,
                    TimerWins, callerVars
<1>8. CASE UNCHANGED vars
  BY <1>1, <1>8 DEF vars
<1>. QED
  BY <1>2, <1>3, <1>4, <1>5, <1>6, <1>7, <1>8 DEF Next, Call!Next

(***************************************************************************)
(* The safety part of ImplementsAsyncRequest for any bounds: a request     *)
(* opens once, and closes once with an answer offered for it or Timeout.   *)
(***************************************************************************)
THEOREM Simulates == Spec => Call!Init /\ [][Call!Next]_(Call!vars)
BY InitSimulates, StepSimulates, Inductive, PTL DEF Spec
=============================================================================
