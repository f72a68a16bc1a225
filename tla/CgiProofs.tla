----------------------------- MODULE CgiProofs -----------------------------
(***************************************************************************)
(* Theorems about Cgi, for every script, body, pipe size and timing.       *)
(***************************************************************************)
EXTENDS Cgi, SequenceTheorems, FiniteSetTheorems, FunctionTheorems, TLAPS

\* Where the thread is tells what has become of the process and of the pipes.
StageInv ==
    /\ pc \in {"pipe", "fork"} => child = "none"
    /\ pc \in {"write", "read", "wait"} => child \in {"running"} \union Ended
    /\ pc \in {"kill", "status"} => child = "reaped" /\ outcome \in Ended
    /\ pc = "returned" => child \in {"none", "reaped"}
    /\ pc \in {"pipe", "fork"} => status = 0 /\ ok
    /\ pc = "write" => ends = {"inW", "outR"} /\ ok
    /\ pc = "read" => ends = {"outR"} /\ ok
    /\ pc \in {"wait", "kill", "status"} => ends = {}
    /\ pc = "kill" => ~ok
    /\ pc = "status" => ok
    /\ pc = "returned" /\ child = "reaped" => ends = {}

\* Nothing the script writes gets lost between the two ends of its pipe, and
\* once the thread has seen the end of it nobody can add to it.
OutputInv ==
    /\ out + outPipe = written
    /\ child = "running" => "outW" \in childEnds
    /\ pc \in {"wait", "kill", "status", "returned"} /\ child # "none" /\ ok =>
          outPipe = 0 /\ "outW" \notin childEnds
    /\ status = 200 => pc = "returned" /\ outcome = "exited0" /\ ok /\ child = "reaped"

CgiInv == TypeOK /\ StageInv /\ OutputInv

LEMMA CgiInit == Init => CgiInv
<1> SUFFICES ASSUME Init PROVE CgiInv
  OBVIOUS
<1>1. TypeOK
  BY CgiScriptsAssumption, CgiBoundsAssumption DEF Init, TypeOK, Ended, Ends
<1>2. StageInv
  BY DEF Init, StageInv
<1>3. OutputInv
  BY DEF Init, OutputInv
<1>4. QED
  BY <1>1, <1>2, <1>3 DEF CgiInv

\* A step of the script shortens what it has still to do.
LEMMA TailType ==
    ASSUME TypeOK, todo # <<>>
    PROVE  Tail(todo) \in Seq(Steps)
  BY HeadTailProperties DEF TypeOK

LEMMA CgiStep ==
    ASSUME CgiInv, [Next]_vars
    PROVE  CgiInv'
<1> USE CgiBoundsAssumption
    DEF CgiInv, TypeOK, StageInv, OutputInv, parentVars, childVars, pipeVars, Ended, Ends
<1>1. CASE Pipe
  BY <1>1 DEF Pipe
<1>2. CASE PipeFails
  BY <1>2 DEF PipeFails
<1>3. CASE ForkFails
  BY <1>3 DEF ForkFails
<1>4. CASE Fork
  BY <1>4 DEF Fork
<1>5. CASE WriteBody
  BY <1>5 DEF WriteBody
<1>6. CASE WriteKillsServer
  BY <1>6 DEF WriteKillsServer
<1>7. CASE CloseInput
  BY <1>7 DEF CloseInput
<1>8. CASE ReadOutput
  <2>1. PICK n \in 1 .. outPipe : out' = out + n /\ outPipe' = outPipe - n
    BY <1>8 DEF ReadOutput
  <2>2. out' \in Nat /\ outPipe' \in 0 .. PipeCap /\ out' + outPipe' = written
    BY <2>1
  <2>3. UNCHANGED <<pc, ends, toWrite, ok, status, outcome, child, childVars, inPipe>>
    BY <1>8 DEF ReadOutput
  <2>4. pc = "read"
    BY <1>8 DEF ReadOutput
  <2>5. TypeOK'
    BY <2>2, <2>3
  <2>6. StageInv'
    BY <2>3, <2>4
  <2>7. OutputInv'
    BY <2>2, <2>3, <2>4
  <2>8. QED
    BY <2>5, <2>6, <2>7
<1>9. CASE ReadEnd
  BY <1>9 DEF ReadEnd, DoneReading
<1>10. CASE Timeout
  <2>0. ok' = FALSE
    BY <1>10 DEF Timeout, DoneReading
  <2>1. /\ pc = "read" /\ pc' = "wait" /\ ends' = {}
        /\ UNCHANGED <<toWrite, out, status, outcome, child, childVars, pipeVars>>
    BY <1>10 DEF Timeout, DoneReading
  <2>2. TypeOK'
    <3>1. ok' \in BOOLEAN
      BY ONLY <2>0
    <3>2. QED
      BY <2>1, <3>1
  <2>3. StageInv'
    BY <2>0, <2>1
  <2>4. OutputInv'
    BY <2>0, <2>1
  <2>5. QED
    BY <2>2, <2>3, <2>4
<1>11. CASE Wait
  BY <1>11 DEF Wait
<1>12. CASE Kill
  BY <1>12 DEF Kill
<1>13. CASE Status
  BY <1>13 DEF Status
<1>14. CASE ReadStdin
  <2>1. /\ todo' \in Seq(Steps) /\ inPipe' \in 0 .. PipeCap
        /\ UNCHANGED <<parentVars, child, childEnds, written, outPipe>>
    BY <1>14, TailType DEF ReadStdin, Doing
  <2>2. QED
    BY <2>1
<1>15. CASE WriteStdout
  <2>1. /\ todo' \in Seq(Steps) /\ outPipe' \in 0 .. PipeCap /\ written' \in Nat
        /\ out + outPipe' = written' /\ pc \notin {"wait", "kill", "status"}
        /\ pc = "returned" => child # "running"
        /\ child = "running" /\ pc # "returned"
        /\ UNCHANGED <<parentVars, child, childEnds, inPipe>>
    BY <1>15, TailType DEF WriteStdout, Doing
  <2>2. TypeOK'
    BY <2>1
  <2>3. StageInv'
    BY <2>1
  <2>4. OutputInv'
    BY <2>1
  <2>5. QED
    BY <2>2, <2>3, <2>4
<1>16. CASE WriteKillsScript
  BY <1>16 DEF WriteKillsScript, Doing
<1>17. CASE SpawnStep
  BY <1>17, TailType DEF SpawnStep, Doing
<1>18. CASE End("exit0", "exited0") \/ End("exit1", "exited1") \/ End("crash", "signaled")
  <2>1. /\ child = "running" /\ child' \in Ended
        /\ childEnds' \in {{"outW", "spawned"}, {}}
        /\ childEnds' # {} => "outW" \in childEnds
        /\ UNCHANGED <<parentVars, todo, written, pipeVars>>
    BY <1>18 DEF End, Doing
  <2>2. TypeOK'
    BY <2>1
  <2>3. StageInv'
    BY <2>1
  <2>4. OutputInv'
    BY <2>1
  <2>5. QED
    BY <2>2, <2>3, <2>4
<1>19. CASE UNCHANGED vars
  BY <1>19 DEF vars
<1>20. QED
  BY <1>1, <1>2, <1>3, <1>4, <1>5, <1>6, <1>7, <1>8, <1>9, <1>10, <1>11, <1>12,
     <1>13, <1>14, <1>15, <1>16, <1>17, <1>18, <1>19 DEF Next, Parent, Child

LEMMA CgiInvariant == Spec => []CgiInv
<1>1. CgiInv /\ [Next]_vars => CgiInv'
  BY CgiStep
<1>2. QED
  BY CgiInit, <1>1, PTL DEF Spec

\* Every variable of a CGI call keeps its type.
THEOREM CgiTypeCorrect == Spec => []TypeOK
<1>1. CgiInv => TypeOK
  BY DEF CgiInv
<1>2. QED
  BY <1>1, CgiInvariant, PTL

\* A script that is answered for with 200 exited with 0 and was read to the end.
THEOREM OkComplete == Spec => []OkMeansComplete
<1>1. CgiInv => OkMeansComplete
  BY DEF CgiInv, TypeOK, OutputInv, OkMeansComplete
<1>2. QED
  BY <1>1, CgiInvariant, PTL

\* No process is left behind unwaited for.
THEOREM NoneLeft == Spec => []NoProcessLeft
<1>1. CgiInv => NoProcessLeft
  BY DEF CgiInv, StageInv, NoProcessLeft
<1>2. QED
  BY <1>1, CgiInvariant, PTL

\* A call that started a script gives all its descriptors back.
THEOREM PipesGivenBack == Spec => []PipesClosed
<1>1. CgiInv => PipesClosed
  BY DEF CgiInv, StageInv, PipesClosed
<1>2. QED
  BY <1>1, CgiInvariant, PTL

-----------------------------------------------------------------------------
(***************************************************************************)
(* runCgi implements CgiCall, up to its promise that an answer comes.      *)
(***************************************************************************)
\* Moving the members of an interval down by one loses the 1 and nothing else.
LEMMA ShiftedCount ==
    ASSUME NEW n \in Nat, NEW A \in SUBSET (1 .. n), NEW B \in SUBSET (1 .. n),
           \A k \in 1 .. n : k \in B <=> k + 1 \in A
    PROVE  /\ Cardinality(A) \in Nat
           /\ Cardinality(B) \in Nat
           /\ 1 \in A => Cardinality(A) = Cardinality(B) + 1
           /\ 1 \notin A => Cardinality(A) = Cardinality(B)
<1>1. IsFiniteSet(A)
  <2>1. IsFiniteSet(1 .. n)
    BY FS_Interval
  <2>2. QED
    BY <2>1, FS_Subset
<1> DEFINE old == A \ {1}
           f == [k \in old |-> k - 1]
<1>2. \A k \in old : k \in Int /\ k - 1 \in B
  OBVIOUS
<1>3. \A k \in B : k \in Int /\ k + 1 \in old /\ (k + 1) - 1 = k
  OBVIOUS
<1>4. IsFiniteSet(old)
  BY <1>1, FS_RemoveElement
<1>5. /\ 1 \in A => Cardinality(old) = Cardinality(A) - 1
      /\ 1 \notin A => Cardinality(old) = Cardinality(A)
  BY <1>1, FS_RemoveElement
<1> HIDE DEF old
<1>6. f \in Bijection(old, B)
  <2>1. f \in [old -> B]
    BY <1>2
  <2>2. \A a, b \in old : f[a] = f[b] => a = b
    BY <1>2
  <2>3. \A b \in B : \E a \in old : f[a] = b
    BY <1>3
  <2>4. QED
    BY <2>1, <2>2, <2>3, Fun_IsBij
<1>7. ExistsBijection(old, B)
  BY <1>6 DEF ExistsBijection
<1>8. Cardinality(B) = Cardinality(old)
  BY <1>4, <1>7, FS_Bijection
<1>9. Cardinality(old) \in Nat /\ Cardinality(A) \in Nat
  BY <1>1, <1>4, FS_CardinalityType
<1> DEFINE cA == Cardinality(A)
           cB == Cardinality(B)
           cO == Cardinality(old)
<1>10. cA \in Nat /\ cO \in Nat /\ cB = cO
       /\ (1 \in A => cO = cA - 1) /\ (1 \notin A => cO = cA)
  BY <1>5, <1>8, <1>9
<1> HIDE DEF cA, cB, cO
<1>11. cA \in Nat /\ cB \in Nat /\ (1 \in A => cA = cB + 1) /\ (1 \notin A => cA = cB)
  BY <1>10
<1>12. QED
  BY <1>11 DEF cA, cB

\* A step that is no end has another behind it, and what is behind it is well
\* ended in the same way, with as many writes but for its own.
LEMMA TailOfScript ==
    ASSUME NEW s \in Seq(Steps), WellEnded(s), Head(s) \notin EndSteps
    PROVE  /\ WellEnded(Tail(s))
           /\ Tail(s)[Len(Tail(s))] = s[Len(s)]
           /\ Len(Tail(s)) = Len(s) - 1
           /\ Cardinality(Writes(s)) \in Nat
           /\ Cardinality(Writes(Tail(s))) \in Nat
           /\ Head(s) = "write" => Cardinality(Writes(s)) = Cardinality(Writes(Tail(s))) + 1
           /\ Head(s) # "write" => Cardinality(Writes(s)) = Cardinality(Writes(Tail(s)))
<1> DEFINE n == Len(s)
           t == Tail(s)
           m == Len(t)
<1>1. n \in Nat /\ DOMAIN s = 1 .. n
  BY LenProperties
<1>2. s # <<>> /\ \A k \in 1 .. n : s[k] \in EndSteps <=> k = n
  BY <1>1 DEF WellEnded
<1>3. n # 0
  BY <1>2, EmptySeq
<1>4. Head(s) = s[1]
  BY <1>2
<1>5. t \in Seq(Steps) /\ m = n - 1 /\ \A k \in 1 .. m : t[k] = s[k + 1]
  BY <1>2, HeadTailProperties
<1>6. DOMAIN t = 1 .. m
  BY <1>5, LenProperties
<1>7. t # <<>> \/ m = 0
  BY EmptySeq
<1>8. WellEnded(t) <=> t # <<>> /\ \A k \in 1 .. m : t[k] \in EndSteps <=> k = m
  BY <1>6 DEF WellEnded
<1>9. /\ Writes(s) = {k \in 1 .. n : s[k] = "write"}
      /\ Writes(t) = {k \in 1 .. m : t[k] = "write"}
  BY <1>1, <1>6 DEF Writes
<1> HIDE DEF n, t, m
<1>10. n # 1
  BY <1>1, <1>2, <1>3, <1>4
<1>11. WellEnded(t) /\ t[m] = s[n]
  <2>1. \A k \in 1 .. m : t[k] \in EndSteps <=> k = m
    BY <1>1, <1>2, <1>5
  <2>2. t[m] = s[n]
    BY <1>1, <1>3, <1>5, <1>10
  <2>3. m # 0
    BY <1>1, <1>3, <1>5, <1>10
  <2>4. QED
    BY <1>7, <1>8, <2>1, <2>2, <2>3
<1>12. ASSUME NEW k \in 1 .. n
       PROVE  k \in Writes(t) <=> k + 1 \in Writes(s)
  BY <1>1, <1>5, <1>9
<1>13. Writes(s) \in SUBSET (1 .. n) /\ Writes(t) \in SUBSET (1 .. n)
  BY <1>1, <1>5, <1>9
<1>14. 1 \in Writes(s) <=> Head(s) = "write"
  BY <1>1, <1>3, <1>4, <1>9
<1>15. /\ Cardinality(Writes(s)) \in Nat
       /\ Cardinality(Writes(t)) \in Nat
       /\ 1 \in Writes(s) => Cardinality(Writes(s)) = Cardinality(Writes(t)) + 1
       /\ 1 \notin Writes(s) => Cardinality(Writes(s)) = Cardinality(Writes(t))
  BY <1>1, <1>12, <1>13, ShiftedCount
<1>16. QED
  BY <1>5, <1>11, <1>14, <1>15 DEF n, t, m

\* What the script has done and has still to do fits how its process ended.
PlanInv ==
    /\ WellEnded(todo)
    /\ "exited0" \in {child, outcome} =>
          Cardinality(Writes(todo)) = 0 /\ todo[Len(todo)] = "exit0"
    /\ "signaled" \in {child, outcome} => ~ok \/ todo[Len(todo)] = "crash"
    /\ pc = "down" => "outR" \in ends
    /\ child # "reaped" => outcome = "none"

\* A script that is at its end has nothing more to write.
LEMMA LastStep ==
    ASSUME NEW s \in Seq(Steps), WellEnded(s), Head(s) \in EndSteps
    PROVE  Cardinality(Writes(s)) = 0 /\ s[Len(s)] = Head(s)
<1> DEFINE n == Len(s)
<1>1. n \in Nat /\ DOMAIN s = 1 .. n
  BY LenProperties
<1>2. s # <<>> /\ \A k \in 1 .. n : s[k] \in EndSteps <=> k = n
  BY <1>1 DEF WellEnded
<1>3. n # 0
  BY <1>2, EmptySeq
<1>4. Head(s) = s[1]
  BY <1>2
<1>5. Writes(s) = {k \in 1 .. n : s[k] = "write"}
  BY <1>1 DEF Writes
<1> HIDE DEF n
<1>6. n = 1
  BY <1>1, <1>2, <1>3, <1>4
<1>7. Writes(s) = {}
  <2>1. s[1] # "write"
    BY <1>4 DEF EndSteps
  <2>2. QED
    BY <1>5, <1>6, <2>1
<1>8. QED
  BY <1>4, <1>6, <1>7, FS_EmptySet DEF n

\* The script's next step.
LEMMA NextStep ==
    ASSUME TypeOK, PlanInv
    PROVE  /\ todo \in Seq(Steps) /\ WellEnded(todo) /\ written \in Nat
           /\ Cardinality(Writes(todo)) \in Nat
           /\ Head(todo) \notin EndSteps =>
                 /\ WellEnded(Tail(todo))
                 /\ Tail(todo)[Len(Tail(todo))] = todo[Len(todo)]
                 /\ Cardinality(Writes(Tail(todo))) \in Nat
                 /\ Head(todo) = "write" => Cardinality(Writes(todo))
                                               = Cardinality(Writes(Tail(todo))) + 1
                 /\ Head(todo) # "write" => Cardinality(Writes(todo))
                                               = Cardinality(Writes(Tail(todo)))
           /\ Head(todo) \in EndSteps =>
                 Cardinality(Writes(todo)) = 0 /\ todo[Len(todo)] = Head(todo)
<1>1. todo \in Seq(Steps) /\ WellEnded(todo) /\ written \in Nat
  BY DEF TypeOK, PlanInv
<1>2. CASE Head(todo) \in EndSteps
  BY <1>1, <1>2, LastStep
<1>3. CASE Head(todo) \notin EndSteps
  BY <1>1, <1>3, TailOfScript
<1>4. QED
  BY <1>1, <1>2, <1>3

\* No step but the script's own changes what is left of the script.
LEMMA PlanKept ==
    ASSUME TypeOK, PlanInv, [Next]_vars
    PROVE  Plan' = Plan /\ WellEnded(todo')
<1>1. CASE UNCHANGED <<todo, written>>
  BY <1>1, NextStep DEF Plan
<1>2. CASE ReadStdin /\ todo' = Tail(todo)
  <2>1. written' = written /\ Head(todo) = "read"
    BY <1>2 DEF ReadStdin, Doing
  <2>2. Head(todo) \notin EndSteps /\ Head(todo) # "write"
    BY <2>1 DEF EndSteps
  <2>3. QED
    BY <1>2, <2>1, <2>2, NextStep DEF Plan
<1>3. CASE WriteStdout
  <2>1. written' = written + 1 /\ Head(todo) = "write" /\ todo' = Tail(todo)
    BY <1>3 DEF WriteStdout, Doing
  <2>2. Head(todo) \notin EndSteps
    BY <2>1 DEF EndSteps
  <2>3. WellEnded(todo') /\ todo'[Len(todo')] = todo[Len(todo)]
    BY <2>1, <2>2, NextStep
  <2> DEFINE a == Cardinality(Writes(todo))
             b == Cardinality(Writes(Tail(todo)))
  <2>4. a = b + 1 /\ b \in Nat /\ written \in Nat
    BY <2>1, <2>2, NextStep
  <2> HIDE DEF a, b
  <2>5. written' + b = written + a
    BY <2>1, <2>4
  <2>6. written' + Cardinality(Writes(todo')) = written + Cardinality(Writes(todo))
    BY <2>1, <2>5 DEF a, b
  <2>7. QED
    BY <2>3, <2>6 DEF Plan
<1>4. CASE SpawnStep
  <2>1. written' = written /\ Head(todo) = "spawn" /\ todo' = Tail(todo)
    BY <1>4 DEF SpawnStep, Doing, parentVars
  <2>2. Head(todo) \notin EndSteps /\ Head(todo) # "write"
    BY <2>1 DEF EndSteps
  <2>3. QED
    BY <2>1, <2>2, NextStep DEF Plan
<1>5. UNCHANGED <<todo, written>> \/ (ReadStdin /\ todo' = Tail(todo)) \/ WriteStdout
      \/ SpawnStep
  BY DEF Next, Parent, Child, Pipe, PipeFails, ForkFails, Fork, WriteBody,
     WriteKillsServer, CloseInput, ReadOutput, ReadEnd, Timeout, DoneReading, Wait,
     Kill, Status, ReadStdin, WriteKillsScript, End, vars, childVars
<1>6. QED
  BY <1>1, <1>2, <1>3, <1>4, <1>5

LEMMA PlanInit == Init => PlanInv
  BY CgiScriptsAssumption DEF Init, PlanInv

LEMMA PlanStep ==
    ASSUME CgiInv, PlanInv, [Next]_vars
    PROVE  PlanInv'
<1> DEFINE none == Cardinality(Writes(todo)) = 0 /\ todo[Len(todo)] = "exit0"
           crash == todo[Len(todo)] = "crash"
<1>1. WellEnded(todo')
  BY PlanKept DEF CgiInv
<1>2. /\ "exited0" \in {child, outcome} => none
      /\ "signaled" \in {child, outcome} => ~ok \/ crash
      /\ pc = "down" => "outR" \in ends
      /\ child # "reaped" => outcome = "none"
  BY DEF PlanInv
<1>3. CASE todo' = todo
  <2> SUFFICES /\ "exited0" \in {child', outcome'} => none
               /\ "signaled" \in {child', outcome'} => ~ok' \/ crash
               /\ pc' = "down" => "outR" \in ends'
               /\ child' # "reaped" => outcome' = "none"
    BY <1>1, <1>3 DEF PlanInv
  <2>1. Head(todo) \in EndSteps => Cardinality(Writes(todo)) = 0 /\ todo[Len(todo)] = Head(todo)
    BY NextStep DEF CgiInv
  <2>2. CASE Pipe \/ PipeFails \/ ForkFails \/ Fork \/ WriteBody \/ CloseInput
             \/ ReadOutput \/ Kill \/ Status \/ ReadStdin \/ UNCHANGED vars
    <3>1. /\ child' = child \/ (child' = "running" /\ child = "none")
          /\ outcome' = outcome /\ ok' = ok
          /\ pc' = "down" => pc = "down" /\ ends' = ends
      BY <2>2 DEF Pipe, PipeFails, ForkFails, Fork, WriteBody, CloseInput, ReadOutput,
         Kill, Status, ReadStdin, vars, parentVars, CgiInv, StageInv
    <3> HIDE DEF none, crash
    <3>2. QED
      BY <1>2, <3>1
  <2>3. CASE WriteKillsServer
    <3>1. UNCHANGED <<child, outcome, ok, ends>> /\ "outR" \in ends
      BY <2>3 DEF WriteKillsServer, CgiInv, StageInv
    <3> HIDE DEF none, crash
    <3>2. QED
      BY <1>2, <3>1
  <2>4. CASE ReadEnd \/ Timeout
    <3>1. UNCHANGED <<child, outcome>> /\ pc' = "wait" /\ (~ok => ~ok')
      BY <2>4 DEF ReadEnd, Timeout, DoneReading, CgiInv, StageInv
    <3> HIDE DEF none, crash
    <3>2. QED
      BY <1>2, <3>1
  <2>5. CASE Wait
    <3>1. child' = "reaped" /\ outcome' = child /\ ok' = ok /\ pc' # "down"
      BY <2>5 DEF Wait
    <3> HIDE DEF none, crash
    <3>2. QED
      BY <1>2, <3>1
  <2>6. CASE WriteKillsScript
    <3>1. /\ child' = "signaled" /\ UNCHANGED <<pc, ends, ok, outcome>>
          /\ child = "running" /\ "outR" \notin ends
      BY <2>6 DEF WriteKillsScript, Doing, parentVars
    <3>2. ~ok
      <4>1. pc # "down"
        BY <1>2, <3>1
      <4>2. pc = "wait"
        BY <3>1, <4>1 DEF CgiInv, TypeOK, StageInv
      <4>3. QED
        BY <3>1, <4>2 DEF CgiInv, OutputInv
    <3> HIDE DEF none, crash
    <3>3. QED
      BY <1>2, <3>1, <3>2
  <2>7. CASE End("exit0", "exited0")
    <3>1. /\ child' = "exited0" /\ child = "running" /\ UNCHANGED <<pc, ends, ok, outcome>>
          /\ Head(todo) = "exit0"
      BY <2>7 DEF End, Doing, parentVars
    <3>2. none
      BY <2>1, <3>1 DEF EndSteps
    <3> HIDE DEF none, crash
    <3>3. QED
      BY <1>2, <3>1, <3>2
  <2>8. CASE End("exit1", "exited1")
    <3>1. child' = "exited1" /\ child = "running" /\ UNCHANGED <<pc, ends, ok, outcome>>
      BY <2>8 DEF End, Doing, parentVars
    <3> HIDE DEF none, crash
    <3>3. QED
      BY <1>2, <3>1
  <2>9. CASE End("crash", "signaled")
    <3>1. /\ child' = "signaled" /\ child = "running" /\ UNCHANGED <<pc, ends, ok, outcome>>
          /\ Head(todo) = "crash"
      BY <2>9 DEF End, Doing, parentVars
    <3>2. crash
      BY <2>1, <3>1 DEF EndSteps
    <3> HIDE DEF none, crash
    <3>3. QED
      BY <1>2, <3>1, <3>2
  <2>10. CASE WriteStdout \/ SpawnStep
    <3>1. child = "running" /\ child' = "running" /\ UNCHANGED <<pc, ends, ok, outcome>>
      BY <2>10 DEF WriteStdout, SpawnStep, Doing, parentVars
    <3> HIDE DEF none, crash
    <3>2. QED
      BY <1>2, <3>1
  <2>11. QED
    BY <2>2, <2>3, <2>4, <2>5, <2>6, <2>7, <2>8, <2>9, <2>10 DEF Next, Parent, Child
<1>4. CASE todo' # todo
  <2>1. ReadStdin \/ WriteStdout \/ SpawnStep
    BY <1>4 DEF Next, Parent, Child, Pipe, PipeFails, ForkFails, Fork, WriteBody,
       WriteKillsServer, CloseInput, ReadOutput, ReadEnd, Timeout, DoneReading, Wait,
       Kill, Status, WriteKillsScript, End, vars, childVars
  <2>2. child = "running" /\ child' = "running" /\ UNCHANGED <<pc, ends, ok, outcome>>
    BY <2>1 DEF ReadStdin, WriteStdout, SpawnStep, Doing, parentVars
  <2>3. outcome = "none"
    BY <1>2, <2>2
  <2>4. QED
    BY <1>1, <1>2, <2>2, <2>3 DEF PlanInv
<1>5. QED
  BY <1>3, <1>4

\* A step of the call is the one answer or invisible to who called.
LEMMA StepIsAnswer ==
    ASSUME CgiInv, PlanInv, [Next]_vars
    PROVE  [Call!Answer]_(Call!vars)
<1>1. Plan' = Plan
  BY PlanKept DEF CgiInv
<1>2. CASE Answered' = Answered
  BY <1>1, <1>2 DEF Call!vars
<1>3. CASE PipeFails \/ ForkFails \/ Kill \/ Status \/ WriteKillsServer
  <2> SUFFICES Answered = Call!Failed(0) /\ Answered' \in Call!Answers
    BY <1>1 DEF Call!Answer, Call!Pending
  <2>1. Answered = Call!Failed(0)
    BY <1>3 DEF PipeFails, ForkFails, Kill, Status, WriteKillsServer, Answered, Call!Failed
  <2>2. CASE WriteKillsServer
    BY <2>2 DEF WriteKillsServer, Answered, Call!Failed, Call!Answers, Call!Lost
  <2>3. CASE PipeFails \/ ForkFails
    BY <2>3 DEF PipeFails, ForkFails, Answered, Call!Failed, Call!Answers
  <2>4. CASE Kill
    BY <2>4 DEF Kill, Answered, Call!Failed, Call!Answers
  <2>5. CASE Status
    <3>1. pc = "status" /\ pc' = "returned" /\ out' = out /\ outcome \in Ended
          /\ child = "reaped" /\ ok
      BY <2>5 DEF Status, CgiInv, StageInv
    <3>2. CASE outcome = "signaled"
      <4>1. status' = 502 /\ Plan.fate = "crash"
        BY <2>5, <3>1, <3>2 DEF Status, PlanInv, Plan
      <4>2. Answered' = Call!Failed(502)
        BY <3>1, <4>1 DEF Answered, Call!Failed
      <4>3. QED
        BY <2>1, <4>1, <4>2 DEF Call!Answers
    <3>3. CASE outcome = "exited1"
      <4>1. status' = 500
        BY <2>5, <3>3 DEF Status
      <4>2. Answered' = Call!Failed(500)
        BY <3>1, <4>1 DEF Answered, Call!Failed
      <4>3. QED
        BY <2>1, <4>2 DEF Call!Answers
    <3>4. CASE outcome = "exited0"
      <4>1. status' = 200
        BY <2>5, <3>4 DEF Status
      <4>2. Cardinality(Writes(todo)) = 0 /\ Plan.fate = "exit0"
        BY <3>4 DEF PlanInv, Plan
      <4>3. out = written /\ written \in Nat
        BY <3>1 DEF CgiInv, OutputInv, TypeOK
      <4>4. Plan.output = out
        BY <4>2, <4>3 DEF Plan
      <4>5. Answered' = [status |-> 200, output |-> out]
        BY <3>1, <4>1 DEF Answered
      <4>6. QED
        BY <2>1, <4>2, <4>4, <4>5 DEF Call!Answers
    <3>5. QED
      BY <3>1, <3>2, <3>3, <3>4 DEF Ended
  <2>6. QED
    BY <1>3, <2>1, <2>2, <2>3, <2>4, <2>5
<1>4. CASE Pipe \/ Fork \/ WriteBody \/ CloseInput \/ ReadOutput \/ ReadEnd \/ Timeout \/ Wait
  <2>1. /\ pc \notin {"returned", "down"} /\ pc' \notin {"returned", "down"}
    BY <1>4 DEF Pipe, Fork, WriteBody, CloseInput, ReadOutput, ReadEnd, Timeout,
       DoneReading, Wait
  <2>2. QED
    BY <1>2, <2>1 DEF Answered
<1>5. CASE Child \/ UNCHANGED vars
  <2>1. UNCHANGED parentVars
    BY <1>5 DEF Child, ReadStdin, WriteStdout, WriteKillsScript, SpawnStep, End, vars
  <2>2. QED
    BY <1>2, <2>1 DEF parentVars, Answered
<1>6. QED
  BY <1>3, <1>4, <1>5 DEF Next, Parent

\* runCgi gives at most one answer, and one that is true of the script: 200 only
\* with everything that a script which exits with 0 had to write, 502 only for
\* one that crashes.
THEOREM CallAnswersOnce == Spec => Call!Safety
<1>1. Init => Call!Init
  BY DEF Init, Call!Init, Call!Failed, Call!Pending, Answered
<1>2. Init => PlanInv
  BY PlanInit
<1>3. CgiInv /\ PlanInv /\ [Next]_vars => PlanInv'
  BY PlanStep
<1>4. CgiInv /\ PlanInv /\ [Next]_vars => [Call!Answer]_(Call!vars)
  BY StepIsAnswer
<1>5. QED
  BY <1>1, <1>2, <1>3, <1>4, CgiInvariant, PTL DEF Spec, Call!Safety
=============================================================================
