------------------------------ MODULE Exchange ------------------------------
(***************************************************************************)
(* What the event loop promises a client that makes one request per        *)
(* connection, without descriptors, buffers or a poll set: the request is  *)
(* carried out once, the response comes in order from its first piece to   *)
(* its last, the connection is closed with the last piece, and nothing     *)
(* else closes it but the client's own leaving.                            *)
(***************************************************************************)
EXTENDS Naturals, Sequences

CONSTANTS Conns, RespLen

VARIABLES
  times,     \* how often the request of a connection was carried out
  received,  \* pieces of the response its client has been sent
  ended,     \* the server has closed the connection
  left,      \* the client has shut down or reset it
  stopped    \* the server's process has ended

vars == <<times, received, ended, left, stopped>>

\* The first n pieces of a response.
Begin(n) == [p \in 1 .. n |-> p]

Init ==
    /\ times = [c \in Conns |-> 0]
    /\ received = [c \in Conns |-> <<>>]
    /\ ended = [c \in Conns |-> FALSE]
    /\ left = [c \in Conns |-> FALSE]
    /\ stopped = FALSE

Serving(c) == ~stopped /\ ~ended[c]

CarryOut(c) ==
    /\ Serving(c) /\ times[c] = 0
    /\ times' = [times EXCEPT ![c] = 1]
    /\ UNCHANGED <<received, ended, left, stopped>>

\* The last piece closes the connection.
Deliver(c) ==
    /\ Serving(c) /\ times[c] = 1
    /\ \E n \in Len(received[c]) + 1 .. RespLen :
          /\ received' = [received EXCEPT ![c] = Begin(n)]
          /\ ended' = [ended EXCEPT ![c] = n = RespLen]
    /\ UNCHANGED <<times, left, stopped>>

GiveUp(c) ==
    /\ Serving(c) /\ left[c]
    /\ ended' = [ended EXCEPT ![c] = TRUE]
    /\ UNCHANGED <<times, received, left, stopped>>

Leave(c) ==
    /\ Serving(c) /\ ~left[c]
    /\ left' = [left EXCEPT ![c] = TRUE]
    /\ UNCHANGED <<times, received, ended, stopped>>

Stop ==
    /\ ~stopped /\ stopped' = TRUE
    /\ UNCHANGED <<times, received, ended, left>>

Next == Stop \/ \E c \in Conns : CarryOut(c) \/ Deliver(c) \/ GiveUp(c) \/ Leave(c)

Spec == Init /\ [][Next]_vars
=============================================================================
