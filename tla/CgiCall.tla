------------------------------ MODULE CgiCall ------------------------------
(***************************************************************************)
(* What runCgi promises to handleCgiRequest, without pipes and processes:  *)
(* one answer, in the end, and a status that tells how the script fared.   *)
(* A status of 200 comes with the whole output of a script that exited     *)
(* with 0.                                                                 *)
(***************************************************************************)
EXTENDS Naturals

\* Statuses that are none: no answer yet, and never one, because the server's
\* process has ended with the call.
Pending == 0
Lost == 1

VARIABLES
  plan,   \* output: how much the script writes; fate: its last step
  answer  \* status and output of the answer

vars == <<plan, answer>>

Failed(status) == [status |-> status, output |-> 0]

\* A pipe or a process that cannot be made, and a script that takes too long,
\* may come before every fate.
Answers ==
    {Failed(Lost), Failed(500), Failed(504)}
    \union {a \in {[status |-> 200, output |-> plan.output]} : plan.fate = "exit0"}
    \union {a \in {Failed(502)} : plan.fate = "crash"}

Answer ==
    /\ answer = Failed(Pending)
    /\ answer' \in Answers
    /\ UNCHANGED plan

Init == answer = Failed(Pending)

Safety == Init /\ [][Answer]_vars

Spec == Safety /\ <>(answer # Failed(Pending))
=============================================================================
