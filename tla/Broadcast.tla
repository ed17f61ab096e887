------------------------------ MODULE Broadcast ------------------------------
(***************************************************************************)
(* What an event stream promises its subscribers, without the table, the   *)
(* counters and the coroutines that keep the promise: a message is owed to *)
(* everyone who is a member when it is sent, leaving does not cancel what  *)
(* is owed, and a member that joined for n messages is gone after the n-th.*)
(***************************************************************************)
EXTENDS Naturals, FiniteSets

CONSTANTS Members,    \* the identities members can take
          Limits,     \* the numbers of messages one can join for, 0 = no limit
          Messages    \* the identities of the messages

VARIABLES
  known,     \* everyone who ever joined
  members,   \* who belongs to the group now
  limit,     \* how many messages each joined for, 0 = no limit
  sentTo,    \* whom each message was sent to
  got        \* what each member has been given

vars == <<known, members, limit, sentTo, got>>

Count(i) == Cardinality({m \in Messages : i \in sentTo[m]})

Init ==
  /\ known = {}
  /\ members = {}
  /\ limit = [i \in Members |-> 0]
  /\ sentTo = [m \in Messages |-> {}]
  /\ got = [i \in Members |-> {}]

Join(i, n) ==
  /\ i \in Members \ known
  /\ known' = known \cup {i}
  /\ members' = members \cup {i}
  /\ limit' = [limit EXCEPT ![i] = n]
  /\ UNCHANGED <<sentTo, got>>

Leave(i) ==
  /\ i \in members
  /\ members' = members \ {i}
  /\ UNCHANGED <<known, limit, sentTo, got>>

(***************************************************************************)
(* Everyone present is owed the message; whoever has reached its limit     *)
(* with it leaves.                                                         *)
(***************************************************************************)
Send(m) ==
  /\ sentTo[m] = {}
  /\ members # {}
  /\ sentTo' = [sentTo EXCEPT ![m] = members]
  /\ members' = {i \in members : limit[i] = 0 \/ Count(i) + 1 < limit[i]}
  /\ UNCHANGED <<known, limit, got>>

Give(m, i) ==
  /\ i \in sentTo[m]
  /\ m \notin got[i]
  /\ got' = [got EXCEPT ![i] = @ \cup {m}]
  /\ UNCHANGED <<known, members, limit, sentTo>>

Next ==
  \/ \E i \in Members, n \in Limits : Join(i, n)
  \/ \E i \in Members : Leave(i)
  \/ \E m \in Messages : Send(m)
  \/ \E m \in Messages, i \in Members : Give(m, i)

Spec == Init /\ [][Next]_vars
=============================================================================
