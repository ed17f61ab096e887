----------------------------- MODULE StdinPrompts -----------------------------
(***************************************************************************)
(* Everything of the command line front end that reads the terminal: the   *)
(* main loop of runCliAsync (agent/deepagent.h), the reader thread of      *)
(* agent/stdin_reader.h, and the prompts that the permission prompter      *)
(* (middlewares/permission.h) and the interrupt handler (middlewares/      *)
(* interrupt_handler.h) show inside a turn, each behind a request that     *)
(* times out.                                                              *)
(*                                                                         *)
(* The main loop calls getline on the io thread: while it is blocked no    *)
(* coroutine runs.  Its getline and the reader thread's take lines from    *)
(* the same std::cin, whichever comes first.                               *)
(***************************************************************************)
EXTENDS Naturals, Sequences

CONSTANTS
  MaxLines,     \* bound: lines typed in a behaviour
  MaxPrompts,   \* bound: prompts shown in a behaviour
  Kinds         \* "permission" prompts, "confirm" interrupts (one bool, no default)

ASSUME BoundsAssumption == MaxLines \in Nat /\ MaxPrompts \in Nat
ASSUME KindsAssumption == Kinds \subseteq {"permission", "confirm"}

Prompts == 1 .. MaxPrompts
Texts   == {"y", "n", "other"}

(***************************************************************************)
(* The message of the reader thread's end, an error code and no line.      *)
(***************************************************************************)
Cancel == [id |-> 0, text |-> "cancel", at |-> 0]

VARIABLES
  typed,      \* lines typed so far
  terminal,   \* typed lines nobody has read
  closed,     \* the terminal is at its end
  thread,     \* the reader thread: "none", "reading", "cancelling", "ended"
  eof,        \* eof_
  channel,    \* messages in the channel
  waiters,    \* prompts whose handler waits in async_receive
  main,       \* the main loop: "getline", "turn", "ended"
  busy,       \* the prompt whose handler keeps the io thread, 0 = none
  showing,    \* the prompt that stands last on the screen, 0 = the main loop's
  shown,      \* prompts shown so far
  kind, request, handler, got, decision,   \* of each prompt
  inputs      \* the ids of the lines the main loop took

ioVars == <<main, busy, showing, shown, kind, request, decision, inputs>>
vars == <<typed, terminal, closed, thread, eof, channel, waiters, handler, got, ioVars>>

Init ==
  /\ typed = 0
  /\ terminal = <<>>
  /\ closed = FALSE
  /\ thread = "none"
  /\ eof = FALSE
  /\ channel = <<>>
  /\ waiters = <<>>
  /\ main = "getline"
  /\ busy = 0
  /\ showing = 0
  /\ shown = 0
  /\ kind = [p \in Prompts |-> "permission"]
  /\ request = [p \in Prompts |-> "unused"]
  /\ handler = [p \in Prompts |-> "none"]
  /\ got = [p \in Prompts |-> <<>>]
  /\ decision = [p \in Prompts |-> "none"]
  /\ inputs = {}

-----------------------------------------------------------------------------
(***************************************************************************)
(* The user types a line, in answer to what stands last on the screen, or  *)
(* ends the input.                                                         *)
(***************************************************************************)
Type(text) ==
  /\ ~closed
  /\ typed < MaxLines
  /\ typed' = typed + 1
  /\ terminal' = Append(terminal, [id |-> typed', text |-> text, at |-> showing])
  /\ UNCHANGED <<closed, thread, eof, channel, waiters, handler, got, ioVars>>

Close ==
  /\ ~closed
  /\ closed' = TRUE
  /\ UNCHANGED <<typed, terminal, thread, eof, channel, waiters, handler, got, ioVars>>

-----------------------------------------------------------------------------
(***************************************************************************)
(* The reader thread.  async_send gives a message to the handler that has  *)
(* waited longest, or leaves it in the channel.                            *)
(***************************************************************************)
\* Slip: a message handed to a waiting handler is buffered, too.
SendAndBuffer(m) ==
  /\ channel' = Append(channel, m)
  /\ IF waiters = <<>>
     THEN UNCHANGED <<waiters, handler, got>>
     ELSE /\ waiters' = Tail(waiters)
          /\ handler' = [handler EXCEPT ![Head(waiters)] = "resumed"]
          /\ got' = [got EXCEPT ![Head(waiters)] = Append(@, m)]

Send(m) ==
  IF waiters = <<>>
  THEN channel' = Append(channel, m) /\ UNCHANGED <<waiters, handler, got>>
  ELSE /\ waiters' = Tail(waiters)
       /\ handler' = [handler EXCEPT ![Head(waiters)] = "resumed"]
       /\ got' = [got EXCEPT ![Head(waiters)] = Append(@, m)]
       /\ UNCHANGED channel

ThreadReads ==
  /\ thread = "reading"
  /\ terminal # <<>>
  /\ terminal' = Tail(terminal)
  /\ Send(Head(terminal))
  /\ UNCHANGED <<typed, closed, thread, eof, ioVars>>

ThreadSeesEof ==
  /\ thread = "reading"
  /\ terminal = <<>> /\ closed
  /\ eof' = TRUE
  /\ thread' = "cancelling"
  /\ UNCHANGED <<typed, terminal, closed, channel, waiters, handler, got, ioVars>>

ThreadCancels ==
  /\ thread = "cancelling"
  /\ thread' = "ended"
  /\ Send(Cancel)
  /\ UNCHANGED <<typed, terminal, closed, eof, ioVars>>

-----------------------------------------------------------------------------
(***************************************************************************)
(* The main loop.                                                          *)
(***************************************************************************)
MainReads ==
  /\ main = "getline"
  /\ terminal # <<>>
  /\ terminal' = Tail(terminal)
  /\ inputs' = inputs \cup {Head(terminal).id}
  /\ main' = "turn"
  /\ UNCHANGED <<typed, closed, thread, eof, channel, waiters, busy, showing, shown, kind,
                 request, handler, got, decision>>

MainEnds ==
  /\ main = "getline"
  /\ terminal = <<>> /\ closed
  /\ main' = "ended"
  /\ UNCHANGED <<typed, terminal, closed, thread, eof, channel, waiters, busy, showing,
                 shown, kind, request, handler, got, decision, inputs>>

TurnOver ==
  /\ main = "turn" /\ busy = 0
  /\ \A p \in Prompts : request[p] # "waiting"
  /\ main' = "getline"
  /\ showing' = 0
  /\ UNCHANGED <<typed, terminal, closed, thread, eof, channel, waiters, busy, shown, kind,
                 request, handler, got, decision, inputs>>

-----------------------------------------------------------------------------
(***************************************************************************)
(* A turn asks: one prompt at a time waits for its answer.  The first one  *)
(* creates the StdinReader and so its thread.                              *)
(***************************************************************************)
ShowPrompt(k) ==
  /\ main = "turn" /\ busy = 0
  /\ shown < MaxPrompts
  /\ \A p \in Prompts : request[p] # "waiting"
  /\ shown' = shown + 1
  /\ showing' = shown'
  /\ kind' = [kind EXCEPT ![shown'] = k]
  /\ request' = [request EXCEPT ![shown'] = "waiting"]
  /\ handler' = [handler EXCEPT ![shown'] = "checking"]
  /\ thread' = IF thread = "none" THEN "reading" ELSE thread
  /\ UNCHANGED <<typed, terminal, closed, eof, channel, waiters, main, busy, got, decision,
                 inputs>>

(***************************************************************************)
(* The handler is through: its answer counts if the request still waits.   *)
(***************************************************************************)
\* Slip: a late answer replaces the refusal.
FinishLate(p, allow) ==
  /\ handler' = [handler EXCEPT ![p] = "done"]
  /\ showing' = 0
  /\ request' = request
  /\ decision' = [decision EXCEPT ![p] = IF allow THEN "allow" ELSE "deny"]

Finish(p, allow) ==
  /\ handler' = [handler EXCEPT ![p] = "done"]
  /\ showing' = 0
  /\ request' = [request EXCEPT ![p] = IF @ = "waiting" THEN "answered" ELSE @]
  /\ decision' = [decision EXCEPT ![p] = IF request[p] # "waiting" THEN @
                                         ELSE IF allow THEN "allow" ELSE "deny"]

(***************************************************************************)
(* readLine, its test first: at the end of the input, with nothing in the  *)
(* channel, there is no line.  The permission prompter then denies; the    *)
(* interrupt handler takes the empty default for an invalid answer and     *)
(* calls readLine again, without a suspension in between.                  *)
(***************************************************************************)
NoLine == eof /\ channel = <<>>

Holds(p) == main = "turn" /\ busy \in {0, p}

\* Slip: the permission prompter asks again, too.
WithoutLineAgain(p) == busy' = p /\ showing' = p /\ UNCHANGED <<request, handler, decision>>
WithoutLine(p) ==
  IF kind[p] = "permission"
  THEN Finish(p, FALSE) /\ busy' = 0
  ELSE busy' = p /\ showing' = p /\ UNCHANGED <<request, handler, decision>>

CheckEof(p) ==
  /\ Holds(p)
  /\ handler[p] = "checking"
  /\ NoLine
  /\ WithoutLine(p)
  /\ UNCHANGED <<typed, terminal, closed, thread, eof, channel, waiters, main, shown, kind,
                 got, inputs>>

CheckOpen(p) ==
  /\ Holds(p)
  /\ handler[p] = "checking"
  /\ ~NoLine
  /\ handler' = [handler EXCEPT ![p] = "receiving"]
  /\ busy' = p
  /\ UNCHANGED <<typed, terminal, closed, thread, eof, channel, waiters, main, showing,
                 shown, kind, request, got, decision, inputs>>

Receive(p) ==
  /\ Holds(p)
  /\ handler[p] = "receiving"
  /\ busy' = 0
  /\ IF channel = <<>>
     THEN /\ waiters' = Append(waiters, p)
          /\ handler' = [handler EXCEPT ![p] = "waiting"]
          /\ UNCHANGED <<channel, got>>
     ELSE /\ channel' = Tail(channel)
          /\ got' = [got EXCEPT ![p] = Append(@, Head(channel))]
          /\ handler' = [handler EXCEPT ![p] = "resumed"]
          /\ UNCHANGED waiters
  /\ UNCHANGED <<typed, terminal, closed, thread, eof, main, showing, shown, kind, request,
                 decision, inputs>>

(***************************************************************************)
(* The handler goes on with what it received, timed out or not.  "y"       *)
(* allows; to a confirmation anything but "y" and "n" is invalid and the   *)
(* prompt is shown again.                                                  *)
(***************************************************************************)
LastGot(p) == got[p][Len(got[p])]
Invalid(p) == kind[p] = "confirm" /\ LastGot(p).text \notin {"y", "n"}

Allows(p) == LastGot(p).text = "y"

Decide(p) ==
  /\ Holds(p)
  /\ handler[p] = "resumed"
  /\ ~Invalid(p)
  /\ Finish(p, Allows(p))
  /\ UNCHANGED <<typed, terminal, closed, thread, eof, channel, waiters, main, busy, shown,
                 kind, got, inputs>>

AskAgain(p) ==
  /\ Holds(p)
  /\ handler[p] = "resumed"
  /\ Invalid(p)
  /\ handler' = [handler EXCEPT ![p] = "checking"]
  /\ showing' = p
  /\ busy' = p
  /\ UNCHANGED <<typed, terminal, closed, thread, eof, channel, waiters, main, shown, kind,
                 request, got, decision, inputs>>

(***************************************************************************)
(* The request of the prompt times out: refused.  Nothing stops the        *)
(* handler.                                                                *)
(***************************************************************************)
TimeOut(p) ==
  /\ main = "turn" /\ busy = 0
  /\ request[p] = "waiting"
  /\ request' = [request EXCEPT ![p] = "timedout"]
  /\ decision' = [decision EXCEPT ![p] = "deny"]
  /\ UNCHANGED <<typed, terminal, closed, thread, eof, channel, waiters, main, busy, showing,
                 shown, kind, handler, got, inputs>>

Handle(p) == CheckEof(p) \/ CheckOpen(p) \/ Receive(p) \/ Decide(p) \/ AskAgain(p)

Next ==
  \/ \E text \in Texts : Type(text)
  \/ Close
  \/ ThreadReads \/ ThreadSeesEof \/ ThreadCancels
  \/ MainReads \/ MainEnds \/ TurnOver
  \/ \E k \in Kinds : ShowPrompt(k)
  \/ \E p \in Prompts : Handle(p)
  \/ \E p \in Prompts : TimeOut(p)

(***************************************************************************)
(* The reader thread and the coroutines run, and a request that waits      *)
(* times out when its timer gets a turn.  The user may stay away.          *)
(***************************************************************************)
Fairness ==
  /\ WF_vars(ThreadReads \/ ThreadSeesEof \/ ThreadCancels)
  /\ \A p \in Prompts : WF_vars(Handle(p)) /\ SF_vars(TimeOut(p))

Spec == Init /\ [][Next]_vars /\ Fairness
-----------------------------------------------------------------------------
Line     == [id : 1 .. MaxLines, text : Texts, at : 0 .. MaxPrompts]
Messages == Line \cup [id : {0}, text : {"cancel"}, at : {0}]

(***************************************************************************)
(* Every variable keeps its type.                                          *)
(***************************************************************************)
TypeOK ==
  /\ typed \in 0 .. MaxLines
  /\ terminal \in Seq(Line)
  /\ closed \in BOOLEAN /\ eof \in BOOLEAN
  /\ thread \in {"none", "reading", "cancelling", "ended"}
  /\ channel \in Seq(Messages)
  /\ waiters \in Seq(Prompts)
  /\ main \in {"getline", "turn", "ended"}
  /\ busy \in 0 .. MaxPrompts /\ showing \in 0 .. MaxPrompts /\ shown \in 0 .. MaxPrompts
  /\ kind \in [Prompts -> {"permission", "confirm"}]
  /\ request \in [Prompts -> {"unused", "waiting", "answered", "timedout"}]
  /\ handler \in [Prompts -> {"none", "checking", "receiving", "waiting", "resumed", "done"}]
  /\ \A p \in Prompts : got[p] \in Seq(Messages)
  /\ decision \in [Prompts -> {"none", "allow", "deny"}]
  /\ inputs \in SUBSET (1 .. MaxLines)

(***************************************************************************)
(* No line is lost or read twice, however the main loop, the thread and    *)
(* several waiting prompts compete: each stands in one place, and what is  *)
(* in the channel was typed before what is still in the terminal.          *)
(***************************************************************************)
IdsOf(s) == {s[k].id : k \in 1 .. Len(s)} \ {0}
GotBy(p) == IdsOf(got[p])

LinesReadOnce ==
  /\ 1 .. typed = inputs \cup IdsOf(channel) \cup IdsOf(terminal) \cup UNION {GotBy(p) : p \in Prompts}
  /\ inputs \cap (IdsOf(channel) \cup IdsOf(terminal)) = {}
  /\ \A i \in IdsOf(channel), j \in IdsOf(terminal) : i < j
  /\ \A p \in Prompts : GotBy(p) \cap (inputs \cup IdsOf(channel) \cup IdsOf(terminal)) = {}
  /\ \A p, q \in Prompts : p # q => GotBy(p) \cap GotBy(q) = {}

(***************************************************************************)
(* Nothing is allowed without a "y": not by a time-out, not by the end of  *)
(* the input, and not by a "y" that comes after the request was given up.  *)
(***************************************************************************)
AllowedByYes ==
  \A p \in Prompts : decision[p] = "allow" =>
    /\ request[p] = "answered"
    /\ got[p] # <<>> /\ LastGot(p).text = "y"

(***************************************************************************)
(* A handler only ever waits for a message while none is in the channel,   *)
(* and every one that waits is in the queue, once.                         *)
(***************************************************************************)
NoMissedWakeup ==
  /\ waiters # <<>> => channel = <<>>
  /\ {p \in Prompts : handler[p] = "waiting"} = {waiters[k] : k \in 1 .. Len(waiters)}
  /\ \A j, k \in 1 .. Len(waiters) : j # k => waiters[j] # waiters[k]

(***************************************************************************)
(* Lines reach exactly one reader, and none is kept from a handler that    *)
(* waits for it.                                                           *)
(***************************************************************************)
LinesAccounted == LinesReadOnce /\ NoMissedWakeup

(***************************************************************************)
(* Without a confirmation among them, prompts are settled: a permission    *)
(* request is answered, refused at the end of the input, or timed out,     *)
(* whatever the user and earlier prompts that timed out do.                *)
(***************************************************************************)
PermissionSettled ==
  \A p \in Prompts : (request[p] = "waiting" /\ \A q \in Prompts : kind[q] = "permission")
                     ~> (request[p] # "waiting")

-----------------------------------------------------------------------------
(***************************************************************************)
(* permission.h says that the prompter asks the user and returns the       *)
(* user's decision: what is allowed was typed at its own prompt.           *)
(* (Does not hold.)                                                        *)
(***************************************************************************)
AnswerForItsPrompt ==
  \A p \in Prompts : decision[p] = "allow" => LastGot(p).at = p

(***************************************************************************)
(* The comment of request(): once it has timed out the server coroutine    *)
(* ends by itself and no zombie is left, so it takes no more lines.        *)
(* (Does not hold.)                                                        *)
(***************************************************************************)
NoZombieReader ==
  [][\A p \in Prompts : request[p] = "timedout" /\ handler[p] = "waiting" => got'[p] = got[p]]_vars

(***************************************************************************)
(* stdin_reader.h: at the end of the input readLine returns at once, so    *)
(* that nothing blocks for ever; every prompt is settled.                  *)
(* (Does not hold.)                                                        *)
(***************************************************************************)
PromptSettled ==
  \A p \in Prompts : (request[p] = "waiting") ~> (request[p] # "waiting")
=============================================================================
