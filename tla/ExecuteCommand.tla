--------------------------- MODULE ExecuteCommand ---------------------------
(***************************************************************************)
(* The execute_linux_command and execute_windows_command tools, in the     *)
(* build with Boost.Process: a shell runs with its two outputs in pipes of *)
(* limited capacity, and the tool waits for their ends and for its exit,   *)
(* all three against a timer, or one after the other when the timeout is   *)
(* 0 or less.  A command is the sequence of pieces it writes.              *)
(***************************************************************************)
EXTENDS Naturals, Sequences, SequencesExt

CONSTANTS MaxWrites,  \* bound: pieces a command writes
          Capacity    \* pieces a pipe holds

Pipes == {"out", "err"}

VARIABLES
  platform,   \* which of the two tools
  timeout,    \* whether `timeout` is positive
  script,     \* what the command still has to write
  background, \* it has left a child behind that keeps its outputs open
  process,    \* the shell: "running", "exited", "terminated"
  written,    \* written[p]: pieces it has put in pipe p
  read,       \* read[p]: pieces of them the tool has in strout or strerr
  stages,     \* what is awaited now, and what after it
  result      \* "none", "output" or "timed out"

vars == <<platform, timeout, script, background, process, written, read, stages, result>>

TypeOK ==
  /\ platform \in {"linux", "windows"} /\ {timeout, background} \subseteq BOOLEAN
  /\ Len(script) <= MaxWrites /\ process \in {"running", "exited", "terminated"}
  /\ {written, read} \subseteq [Pipes -> 0..MaxWrites]
  /\ \A p \in Pipes : written[p] - read[p] \in 0..Capacity
  /\ result \in {"none", "output", "timed out"}

\* What is awaited together, and in which order: the reads of the pipes begin when awaited.
LinuxOrder(t) == IF t THEN <<{"out", "err", "exit"}>> ELSE <<{"out"}, {"err"}, {"exit"}>>
WindowsOrder(t) == IF t THEN <<{"exit", "out", "err"}>> ELSE <<{"exit"}, {"out"}, {"err"}>>
Awaited(p, t) == IF p = "linux" THEN LinuxOrder(t) ELSE WindowsOrder(t)

Init ==
  /\ platform \in {"linux", "windows"} /\ timeout \in BOOLEAN /\ background \in BOOLEAN
  /\ script \in SeqOf(Pipes, MaxWrites) /\ process = "running"
  /\ written = [p \in Pipes |-> 0] /\ read = written
  /\ stages = Awaited(platform, timeout) /\ result = "none"

\* The command writes its next piece, when there is room in the pipe.
Writes ==
  /\ process = "running" /\ script # <<>>
  /\ written[Head(script)] - read[Head(script)] < Capacity
  /\ written' = [written EXCEPT ![Head(script)] = @ + 1] /\ script' = Tail(script)
  /\ UNCHANGED <<platform, timeout, background, process, read, stages, result>>

Exits ==
  /\ process = "running" /\ script = <<>>
  /\ process' = "exited"
  /\ UNCHANGED <<platform, timeout, script, background, written, read, stages, result>>

\* The child left behind ends, in a time of its own.
BackgroundEnds ==
  /\ background /\ process # "running"
  /\ background' = FALSE
  /\ UNCHANGED <<platform, timeout, script, process, written, read, stages, result>>

Awaits(op) == result = "none" /\ stages # <<>> /\ op \in Head(stages)

\* An operation awaited is over: the others of its stage go on, or the next stage begins.
Over(op) == IF Head(stages) = {op} THEN Tail(stages) ELSE <<Head(stages) \ {op}>> \o Tail(stages)

\* async_read with transfer_all: piece by piece, to the end of the pipe.
Reads(p) ==
  /\ Awaits(p) /\ read[p] < written[p]
  /\ read' = [read EXCEPT ![p] = @ + 1]
  /\ UNCHANGED <<platform, timeout, script, background, process, written, stages, result>>

EndOfPipe(p) ==
  /\ Awaits(p) /\ read[p] = written[p] /\ process # "running" /\ ~background
  /\ stages' = Over(p)
  /\ UNCHANGED <<platform, timeout, script, background, process, written, read, result>>

ExitSeen ==
  /\ Awaits("exit") /\ process # "running"
  /\ stages' = Over("exit")
  /\ UNCHANGED <<platform, timeout, script, background, process, written, read, result>>

\* Slip: the exit alone is taken for the end of the command.
ReturnsAtExit ==
  /\ result = "none" /\ \A s \in ToSet(stages) : "exit" \notin s
  /\ result' = "output"
  /\ UNCHANGED <<platform, timeout, script, background, process, written, read, stages>>

\* Everything awaited is over: exit code and outputs are put together.
Returns ==
  /\ result = "none" /\ stages = <<>>
  /\ result' = "output"
  /\ UNCHANGED <<platform, timeout, script, background, process, written, read, stages>>

\* Slip: the timer is looked at only while the shell runs.
TimesOutOfTheShell ==
  /\ timeout /\ result = "none" /\ stages # <<>> /\ process = "running"
  /\ process' = "terminated" /\ result' = "timed out"
  /\ UNCHANGED <<platform, timeout, script, background, written, read, stages>>

\* The timer wins against the three together: the shell is terminated, what was read is returned.
TimesOut ==
  /\ timeout /\ result = "none" /\ stages # <<>>
  /\ process' = IF process = "running" THEN "terminated" ELSE process
  /\ result' = "timed out"
  /\ UNCHANGED <<platform, timeout, script, background, written, read, stages>>

Command == Writes \/ Exits
Tool    == (\E p \in Pipes : Reads(p) \/ EndOfPipe(p)) \/ ExitSeen \/ Returns
Next    == Command \/ BackgroundEnds \/ Tool \/ TimesOut

\* The command writes and exits when it can, the tool's operations complete when they can, and the
\* timer fires.  A child left behind may stay for ever.
Spec == Init /\ [][Next]_vars /\ WF_vars(Command) /\ WF_vars(Tool) /\ WF_vars(TimesOut)

-----------------------------------------------------------------------------
\* An answer that is not a timeout has everything the command wrote to both outputs, the pieces
\* still in the pipes when the shell exited included.
WholeOutput == result = "output" => script = <<>> /\ read = written

\* With a timeout the tool returns, whatever the command does: also when a child of the shell keeps
\* the outputs open after the shell is gone.
CommandReturns == timeout ~> result # "none"

\* (Does not hold.)  Without a timeout the tool returns for a command that writes what it has and
\* exits: waiting for one pipe, or for the exit, first, it leaves the other pipe to fill up.
UntimedReturns == ~background ~> result # "none"
=============================================================================
