-------------------------------- MODULE Cgi --------------------------------
(***************************************************************************)
(* One call of runCgi (srcs/Cgi.cpp): the server's thread, the process of  *)
(* the script and the two pipes between them.  The thread writes the body  *)
(* of the request to the script's stdin, reads its stdout with a budget of *)
(* three seconds, waits for the process and makes a status of the outcome. *)
(*                                                                         *)
(* Data.  A body, an output and the room of a pipe are counted in units of *)
(* one write.  A script is the sequence of what it does.                   *)
(***************************************************************************)
EXTENDS Naturals, FiniteSets, Sequences

CONSTANTS
  Scripts,   \* what the scripts do: sequences of Steps
  MaxBody,   \* longest body, in units
  PipeCap,   \* room in a pipe, in units
  Faults     \* which of "pipe" and "fork" may fail

\* read: read stdin to its end; write: write one unit to stdout; spawn: leave
\* behind a process that inherits stdout; exit0, exit1: exit; crash: die by a
\* signal; hang: never end.
Steps == {"read", "write", "spawn", "exit0", "exit1", "crash", "hang"}

\* Ends of the pipes: inPipe[0], inPipe[1], outPipe[0], outPipe[1].
Ends == {"inR", "inW", "outR", "outW"}

\* A script ends with one of these, and does nothing behind it.
EndSteps == {"exit0", "exit1", "crash", "hang"}
WellEnded(s) == s # <<>> /\ \A k \in DOMAIN s : s[k] \in EndSteps <=> k = Len(s)

ASSUME CgiScriptsAssumption ==
    Scripts \subseteq Seq(Steps) /\ \A s \in Scripts : WellEnded(s)
ASSUME CgiBoundsAssumption  == MaxBody \in Nat /\ PipeCap \in Nat \ {0}
ASSUME CgiFaultsAssumption  == Faults \subseteq {"pipe", "fork"}

VARIABLES
  pc,        \* the server's thread: "pipe", "fork", "write", "read", "wait",
             \* "kill", "status", "returned", or "down" when SIGPIPE ended it
  ends,      \* pipe ends the server's process has open
  toWrite,   \* units of the body still to be written
  ok,        \* what readWithTimeout returned
  out,       \* units read from the script
  status,    \* r.status, 0 until it is set
  child,     \* the script's process: "none", "running", "exited0", "exited1",
             \* "signaled"; and "reaped" once waitpid has returned
  outcome,   \* how the process ended, as waitpid told: "none" until then
  todo,      \* what the script has still to do
  childEnds, \* pipe ends the script's processes have open
  inPipe,    \* units in the pipe to the script
  outPipe,   \* units in the pipe from the script
  written    \* units the script has written (history)

parentVars == <<pc, ends, toWrite, ok, out, status, outcome>>
childVars == <<todo, childEnds, written>>
pipeVars == <<inPipe, outPipe>>
vars == <<parentVars, child, childVars, pipeVars>>

Ended == {"exited0", "exited1", "signaled"}

Init ==
    /\ pc = "pipe" /\ ends = {} /\ ok = TRUE /\ out = 0 /\ status = 0
    /\ toWrite \in 0 .. MaxBody
    /\ child = "none" /\ outcome = "none"
    /\ todo \in Scripts
    /\ childEnds = {} /\ inPipe = 0 /\ outPipe = 0 /\ written = 0

-----------------------------------------------------------------------------
(***************************************************************************)
(* The server's thread                                                     *)
(***************************************************************************)
Pipe ==
    /\ pc = "pipe"
    /\ ends' = Ends
    /\ pc' = "fork"
    /\ UNCHANGED <<toWrite, ok, out, status, outcome, child, childVars, pipeVars>>

\* The first or the second pipe() fails; the first one's ends stay open.
PipeFails ==
    /\ pc = "pipe" /\ "pipe" \in Faults
    /\ ends' \in {{}, {"inR", "inW"}}
    /\ status' = 500
    /\ pc' = "returned"
    /\ UNCHANGED <<toWrite, ok, out, outcome, child, childVars, pipeVars>>

\* fork() fails; nothing closes the pipes.
ForkFails ==
    /\ pc = "fork" /\ "fork" \in Faults
    /\ status' = 500
    /\ pc' = "returned"
    /\ UNCHANGED <<ends, toWrite, ok, out, outcome, child, childVars, pipeVars>>

\* fork(), the close() calls of both sides and execvp(): a script that cannot be
\* executed is one that writes a line and exits with a status that is not 0.
Fork ==
    /\ pc = "fork"
    /\ child' = "running"
    /\ childEnds' = {"inR", "outW"}
    /\ ends' = {"inW", "outR"}
    /\ pc' = "write"
    /\ UNCHANGED <<toWrite, ok, out, status, outcome, todo, written, pipeVars>>

\* Variant with a bug, which the checks must notice: size() + 1, with the zero
\* behind the body.
WriteBody_WithZero ==
    /\ pc = "write" /\ toWrite >= 0
    /\ "inR" \in childEnds /\ inPipe < PipeCap
    /\ toWrite' = toWrite - 1
    /\ inPipe' = inPipe + 1
    /\ UNCHANGED <<pc, ends, ok, out, status, outcome, child, childVars, outPipe>>

\* write() to inPipe[1] blocks until all is written.
WriteBody ==
    /\ pc = "write" /\ toWrite > 0
    /\ "inR" \in childEnds /\ inPipe < PipeCap
    /\ toWrite' = toWrite - 1
    /\ inPipe' = inPipe + 1
    /\ UNCHANGED <<pc, ends, ok, out, status, outcome, child, childVars, outPipe>>

\* Nobody has the read end any more: SIGPIPE.
WriteKillsServer ==
    /\ pc = "write" /\ toWrite > 0 /\ "inR" \notin childEnds
    /\ pc' = "down"
    /\ UNCHANGED <<ends, toWrite, ok, out, status, outcome, child, childVars, pipeVars>>

\* Variant with a bug, which the checks must notice: inPipe[1] stays open.
CloseInput_Never ==
    /\ pc = "write" /\ toWrite = 0
    /\ pc' = "read"
    /\ UNCHANGED <<ends, toWrite, ok, out, status, outcome, child, childVars, pipeVars>>

CloseInput ==
    /\ pc = "write" /\ toWrite = 0
    /\ ends' = ends \ {"inW"}
    /\ pc' = "read"
    /\ UNCHANGED <<toWrite, ok, out, status, outcome, child, childVars, pipeVars>>

\* Variant with a bug, which the checks must notice: one read() is enough.
ReadOutput_Once ==
    /\ pc = "read"
    /\ \E n \in 1 .. outPipe : out' = out + n /\ outPipe' = outPipe - n
    /\ ends' = ends \ {"outR"}
    /\ pc' = "wait"
    /\ UNCHANGED <<toWrite, ok, status, outcome, child, childVars, inPipe>>

\* read() returns what is there, at most what the buffer holds.
ReadOutput ==
    /\ pc = "read"
    /\ \E n \in 1 .. outPipe : out' = out + n /\ outPipe' = outPipe - n
    /\ UNCHANGED <<pc, ends, toWrite, ok, status, outcome, child, childVars, inPipe>>

\* Variant with a bug, which the checks must notice: outPipe[0] stays open.
DoneReading_Leaks(result) ==
    /\ ok' = result
    /\ pc' = "wait"
    /\ UNCHANGED <<ends, toWrite, out, status, outcome, child, childVars, pipeVars>>

\* readWithTimeout returns and outPipe[0] is closed.
DoneReading(result) ==
    /\ ok' = result
    /\ ends' = ends \ {"outR"}
    /\ pc' = "wait"
    /\ UNCHANGED <<toWrite, out, status, outcome, child, childVars, pipeVars>>

ReadEnd ==
    /\ pc = "read" /\ outPipe = 0 /\ "outW" \notin childEnds
    /\ DoneReading(TRUE)

\* select() finds the budget used up with nothing to read.
Timeout ==
    /\ pc = "read" /\ outPipe = 0 /\ "outW" \in childEnds
    /\ DoneReading(FALSE)

\* Variant with a bug, which the checks must notice: waitpid() with WNOHANG.
Wait_NoHang ==
    /\ pc = "wait"
    /\ outcome' = IF child \in Ended THEN child ELSE "exited0"
    /\ child' = IF child \in Ended THEN "reaped" ELSE child
    /\ pc' = IF ok THEN "status" ELSE "kill"
    /\ UNCHANGED <<ends, toWrite, ok, out, status, childVars, pipeVars>>

\* waitpid() blocks until the process has ended, after a timeout too.
Wait ==
    /\ pc = "wait" /\ child \in Ended
    /\ outcome' = child
    /\ child' = "reaped"
    /\ pc' = IF ok THEN "status" ELSE "kill"
    /\ UNCHANGED <<ends, toWrite, ok, out, status, childVars, pipeVars>>

\* kill() and a second waitpid(), of a process that is no more.
Kill ==
    /\ pc = "kill"
    /\ status' = 504
    /\ pc' = "returned"
    /\ UNCHANGED <<ends, toWrite, ok, out, outcome, child, childVars, pipeVars>>

\* Variant with a bug, which the checks must notice: the tests swapped.
Status_Swapped ==
    /\ pc = "status"
    /\ status' = CASE outcome = "signaled" -> 500
                   [] outcome = "exited1"  -> 502
                   [] outcome = "exited0"  -> 200
    /\ pc' = "returned"
    /\ UNCHANGED <<ends, toWrite, ok, out, outcome, child, childVars, pipeVars>>

\* The status of a script that ended by itself; one that ended well chooses
\* its own, here 200.
Status ==
    /\ pc = "status"
    /\ status' = CASE outcome = "signaled" -> 502
                   [] outcome = "exited1"  -> 500
                   [] outcome = "exited0"  -> 200
    /\ pc' = "returned"
    /\ UNCHANGED <<ends, toWrite, ok, out, outcome, child, childVars, pipeVars>>

Parent ==
    \/ Pipe \/ PipeFails \/ ForkFails \/ Fork
    \/ WriteBody \/ WriteKillsServer \/ CloseInput
    \/ ReadOutput \/ ReadEnd \/ Timeout \/ Wait \/ Kill \/ Status

-----------------------------------------------------------------------------
(***************************************************************************)
(* The script's process, and one that it leaves behind.                    *)
(***************************************************************************)
Doing(step) == child = "running" /\ todo # <<>> /\ Head(todo) = step

ReadStdin ==
    /\ Doing("read")
    /\ IF inPipe > 0
       THEN inPipe' = inPipe - 1 /\ UNCHANGED todo
       ELSE "inW" \notin ends /\ todo' = Tail(todo) /\ UNCHANGED inPipe
    /\ UNCHANGED <<parentVars, child, childEnds, written, outPipe>>

WriteStdout ==
    /\ Doing("write") /\ "outR" \in ends /\ outPipe < PipeCap
    /\ outPipe' = outPipe + 1 /\ written' = written + 1
    /\ todo' = Tail(todo)
    /\ UNCHANGED <<parentVars, child, childEnds, inPipe>>

\* The thread has given up reading: SIGPIPE for the script.
WriteKillsScript ==
    /\ Doing("write") /\ "outR" \notin ends
    /\ child' = "signaled"
    /\ childEnds' = {}
    /\ UNCHANGED <<parentVars, todo, written, pipeVars>>

\* Whoever is left behind keeps outPipe[1] open after the script has ended.
SpawnStep ==
    /\ Doing("spawn")
    /\ todo' = Tail(todo)
    /\ childEnds' = childEnds \union {"spawned"}
    /\ UNCHANGED <<parentVars, child, written, pipeVars>>

End(step, how) ==
    /\ Doing(step)
    /\ child' = how
    /\ childEnds' = IF "spawned" \in childEnds THEN {"outW", "spawned"} ELSE {}
    /\ UNCHANGED <<parentVars, todo, written, pipeVars>>

Child ==
    \/ ReadStdin \/ WriteStdout \/ WriteKillsScript \/ SpawnStep
    \/ End("exit0", "exited0") \/ End("exit1", "exited1") \/ End("crash", "signaled")

Next == Parent \/ Child

Spec == Init /\ [][Next]_vars

\* The thread and the script run whenever they can; select() counts down while
\* it blocks, so Timeout is part of the thread's progress.
FairSpec == Spec /\ WF_vars(Parent) /\ WF_vars(Child)

-----------------------------------------------------------------------------
(***************************************************************************)
(* Properties                                                              *)
(***************************************************************************)
TypeOK ==
    /\ pc \in {"pipe", "fork", "write", "read", "wait", "kill", "status",
               "returned", "down"}
    /\ ends \subseteq Ends
    /\ toWrite \in 0 .. MaxBody
    /\ ok \in BOOLEAN
    /\ out \in Nat
    /\ status \in {0, 200, 500, 502, 504}
    /\ child \in {"none", "running", "reaped"} \union Ended
    /\ outcome \in {"none"} \union Ended
    /\ todo \in Seq(Steps)
    /\ childEnds \subseteq {"inR", "outW", "spawned"}
    /\ inPipe \in 0 .. PipeCap
    /\ outPipe \in 0 .. PipeCap
    /\ written \in Nat

\* A script is answered for with 200 only when it has exited with 0 and all it
\* wrote until then was read: neither a timeout nor an early end is mistaken
\* for a complete output.
OkMeansComplete ==
    status = 200 => outcome = "exited0" /\ ok /\ out = written /\ outPipe = 0

\* When runCgi returns no process of the script is left for nobody to wait for:
\* neither running nor a zombie.
NoProcessLeft == pc = "returned" => child \in {"none", "reaped"}

\* When runCgi returns after it has started a script, both pipes are closed on
\* the server's side.
PipesClosed == pc = "returned" /\ child # "none" => ends = {}

\* runCgi returns: neither a script that is slow nor one that never ends keeps
\* the server's only thread.
Returns == <>(pc \in {"returned", "down"})

\* All the script writes if nothing ends it before, and its last step: what it
\* has done and what it has still to do together.
Writes(s) == {k \in DOMAIN s : s[k] = "write"}

Plan == [output |-> written + Cardinality(Writes(todo)), fate |-> todo[Len(todo)]]

\* Status 1 when the call never returns, 0 as long as it has not.
Answered ==
    [status |-> CASE pc = "returned" -> status [] pc = "down" -> 1 [] OTHER -> 0,
     output |-> IF pc = "returned" /\ status = 200 THEN out ELSE 0]

Call == INSTANCE CgiCall WITH plan <- Plan, answer <- Answered

\* runCgi is one answer that comes in the end and tells how the script fared:
\* 200 only with everything the script had to write, 502 only for a crash.
CallImplemented == Call!Spec
=============================================================================
