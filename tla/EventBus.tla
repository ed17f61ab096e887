------------------------------ MODULE EventBus ------------------------------
(***************************************************************************)
(* The EventBus of an agent and the EventBridge that puts the events of    *)
(* its graph on it (middlewares/event_stream.h).  The graph's callback is  *)
(* a plain call: it gives the event to the original callback and spawns a  *)
(* coroutine that will publish it.  All of it runs on one thread; a        *)
(* publish keeps the thread until a handler suspends.  What subscriptions  *)
(* and single streams do beyond that is in EventStream.                    *)
(***************************************************************************)
EXTENDS SequencesExt

CONSTANTS
  MaxEvents,   \* bound: events of the graph
  MaxSubs,     \* bound: subscriptions
  MaxStreams,  \* bound: streams made
  Removes      \* whether topics are removed; nothing under src/agent does

Topics == {"model_token", "error"}

VARIABLES
  streams,     \* streams_: the stream of each topic, 0 = none
  made,        \* streams made so far
  listeners,   \* the subscriptions of each stream, oldest first
  suspends,    \* whether each subscription's handler suspends
  context,     \* whether the AgentContext lives
  shown,       \* what the original callback was given: [type, bus]; bus = spawned for the bus too
  spawned,     \* events whose publish has not begun
  publishing,  \* publishes that wait for a handler: the event, the subscriptions still to call
  audience,    \* history: the subscriptions in the table when each publish began
  heard        \* history: the events each handler was called with, by their number

vars == <<streams, made, listeners, suspends, context, shown, spawned, publishing, audience, heard>>

table == <<streams, made, listeners, suspends>>

Init ==
  /\ streams = [t \in Topics |-> 0] /\ made = 0
  /\ listeners = [s \in 1..MaxStreams |-> <<>>] /\ suspends = <<>>
  /\ context = TRUE
  /\ shown = <<>> /\ spawned = <<>> /\ publishing = {} /\ audience = {} /\ heard = <<>>

(***************************************************************************)
(* The bus                                                                 *)
(***************************************************************************)
\* get: the topic's stream, made at its first use.
get(topic) == IF streams[topic] = 0 THEN made + 1 ELSE streams[topic]

Got(topic) ==
  /\ get(topic) <= MaxStreams
  /\ streams' = [streams EXCEPT ![topic] = get(topic)]
  /\ made' = Max({made, get(topic)})

Subscribe(topic, slow) ==
  /\ Len(suspends) < MaxSubs
  /\ Got(topic)
  /\ suspends' = Append(suspends, slow)
  /\ listeners' = [listeners EXCEPT ![get(topic)] = Append(@, Len(suspends'))]
  /\ heard' = Append(heard, <<>>)
  /\ UNCHANGED <<context, shown, spawned, publishing, audience>>

remove(topic) ==
  /\ Removes /\ streams[topic] # 0
  /\ streams' = [streams EXCEPT ![topic] = 0]
  /\ UNCHANGED <<made, listeners, suspends, context, shown, spawned, publishing, audience, heard>>

(***************************************************************************)
(* The bridge                                                              *)
(***************************************************************************)
\* The topic an event of the graph is published on: most are not.
Published(type) == type \in Topics

GraphEvent(type) ==
  /\ Len(shown) < MaxEvents
  /\ shown' = Append(shown, [type |-> type, bus |-> context /\ Published(type)])
  /\ spawned' = IF context /\ Published(type) THEN Append(spawned, Len(shown')) ELSE spawned
  /\ UNCHANGED <<table, context, publishing, audience, heard>>

\* The agent goes; what was spawned holds the bus.
ContextGone ==
  /\ context
  /\ context' = FALSE
  /\ UNCHANGED <<table, shown, spawned, publishing, audience, heard>>

\* Slip: the coroutine spawned last runs first.
NewestSpawned == Len(spawned)

NextSpawned == 1

\* Slip: the coroutine holds the context, not the bus.
HoldsTheContext == context

HoldsTheBus == TRUE

\* The publish of p calls the handlers of rest up to the first that suspends.
Calls(p, rest) ==
  LET slow == {i \in DOMAIN rest : suspends[rest[i]]}
      upTo == IF slow = {} THEN Len(rest) ELSE Min(slow)
      called == {rest[i] : i \in 1..upTo}
      waits == IF slow = {} THEN {}
               ELSE {[event |-> p, rest |-> SubSeq(rest, upTo + 1, Len(rest))]}
  IN  /\ heard' = [s \in DOMAIN heard |-> IF s \in called THEN Append(heard[s], p) ELSE heard[s]]
      /\ publishing' = {w \in publishing : w.event # p} \cup waits

\* A spawned coroutine begins: it gets the stream and copies its subscriptions.
Begins ==
  /\ spawned # <<>>
  /\ LET p == spawned[NextSpawned]
         topic == shown[p].type
     IN  /\ spawned' = RemoveAt(spawned, NextSpawned)
         /\ IF HoldsTheBus
            THEN /\ Got(topic)
                 /\ audience' = audience \cup {[event |-> p, to |-> listeners[get(topic)]]}
                 /\ Calls(p, listeners[get(topic)])
            ELSE UNCHANGED <<streams, made, audience, publishing, heard>>
  /\ UNCHANGED <<listeners, suspends, context, shown>>

\* A handler that suspended returns, or throws, which is logged.
HandlerEnds(w) ==
  /\ Calls(w.event, w.rest)
  /\ UNCHANGED <<table, context, shown, spawned, audience>>

Next ==
  \/ \E topic \in Topics : (\E slow \in BOOLEAN : Subscribe(topic, slow)) \/ remove(topic)
  \/ \E type \in Topics \union {"node_start"} : GraphEvent(type)
  \/ ContextGone \/ Begins \/ \E w \in publishing : HandlerEnds(w)

\* Coroutines that are ready run, and handlers end.
Steps == Begins \/ \E w \in publishing : HandlerEnds(w)

Spec == Init /\ [][Next]_vars /\ WF_vars(Steps)

----------------------------------------------------------------------------
\* No handler before s in the table suspends.
Direct(s) == \A stream \in DOMAIN listeners : Contains(listeners[stream], s) =>
               \A i \in DOMAIN listeners[stream] :
                 suspends[listeners[stream][i]] => listeners[stream][i] >= s

\* Tokens are published in coroutines of their own, and yet a handler with none before it that
\* suspends hears them in the order of the graph, with no gap from the first to the last
\* (event_stream.h:485-503): what it puts together of them is the model's text.
TokensInOrder ==
  \A s \in DOMAIN heard : Direct(s) /\ heard[s] # <<>> =>
    LET first == Head(heard[s])
    IN  /\ \A i, j \in DOMAIN heard[s] : i < j => heard[s][i] < heard[s][j]
        /\ Range(heard[s]) = {n \in first..Last(heard[s]) :
                               shown[n].type = shown[first].type /\ shown[n].bus}

\* An event spawned for the bus is published even when the agent has gone, and when its publish
\* is over everyone who was subscribed as it began has heard it, once (event_stream.h:99-127,
\* :464-503).
EveryoneHears ==
  /\ \A n \in DOMAIN shown : shown[n].bus =>
       Contains(spawned, n) \/ \E a \in audience : a.event = n
  /\ \A a \in audience :
       (\A w \in publishing : w.event # a.event) =>
         \A s \in Range(a.to) : Cardinality({i \in DOMAIN heard[s] : heard[s][i] = a.event}) = 1

\* Every event gets to its handlers, though the callback waits for none of them.
EventsPublished == []<>(spawned = <<>> /\ publishing = {})

\* (Does not hold.)  Publications complete in the order of the events (event_stream.h:485-489):
\* a later one passes an earlier one whose handler is suspended.
OrderKept == \A s \in DOMAIN heard : \A i, j \in DOMAIN heard[s] : i < j => heard[s][i] < heard[s][j]

\* (Does not hold with Removes.)  The stream of a publish that waits is still there: remove
\* destroys it, and the log line of a handler that throws reads its name (event_stream.h:121-125).
StreamAlive == \A w \in publishing : streams[shown[w.event].type] # 0
=============================================================================
