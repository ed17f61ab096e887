---------------------------- MODULE AsyncRequest -----------------------------
(***************************************************************************)
(* What a request stream promises a caller, without servers, channels and  *)
(* timers: a request that was accepted is closed exactly once, either with *)
(* an answer that somebody offered for that request, or with a timeout,    *)
(* and closed it is sooner or later, whatever the other side does.         *)
(***************************************************************************)
CONSTANTS Requests, Answers, None, Timeout

VARIABLES
  status,   \* "unused", "open" or "closed"
  offered,  \* the answers offered for each request
  result    \* what the caller was told

vars == <<status, offered, result>>

Init ==
  /\ status = [r \in Requests |-> "unused"]
  /\ offered = [r \in Requests |-> {}]
  /\ result = [r \in Requests |-> None]

Open(r) ==
  /\ status[r] = "unused"
  /\ status' = [status EXCEPT ![r] = "open"]
  /\ UNCHANGED <<offered, result>>

Offer(r, a) ==
  /\ status[r] # "unused"
  /\ offered' = [offered EXCEPT ![r] = @ \cup {a}]
  /\ UNCHANGED <<status, result>>

Close(r) ==
  /\ status[r] = "open"
  /\ status' = [status EXCEPT ![r] = "closed"]
  /\ \E v \in offered[r] \cup {Timeout} : result' = [result EXCEPT ![r] = v]
  /\ UNCHANGED offered

Next ==
  \E r \in Requests :
    \/ Open(r)
    \/ \E a \in Answers : Offer(r, a)
    \/ Close(r)

Spec == Init /\ [][Next]_vars /\ \A r \in Requests : WF_vars(Close(r))
=============================================================================
