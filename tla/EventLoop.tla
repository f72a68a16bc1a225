----------------------------- MODULE EventLoop -----------------------------
(***************************************************************************)
(* The event loop of srcs/Server.cpp: one thread that polls the listeners  *)
(* and the clients, accepts, reads requests, has them processed and writes *)
(* the responses, over a kernel whose sockets change between any two of    *)
(* its system calls.  One action is the code between two system calls that *)
(* another process can observe.                                            *)
(*                                                                         *)
(* Data.  A client sends requests of two segments each: the odd one holds  *)
(* a head that announces a body, the even one completes it.  A response is *)
(* RespLen pieces.  What the router, the parser and the CGI decide about a *)
(* request is its "kind".                                                  *)
(***************************************************************************)
EXTENDS Naturals, FiniteSets, Sequences, SequencesExt, ResponseHandling

CONSTANTS
  Conns,        \* connections the clients may make
  MaxFd,        \* size of the process's descriptor table (RLIMIT_NOFILE)
  ServerPorts,  \* listen_port of each server block, in the order of the file
  Scripts,      \* what a client may send: sequences of requests
  RespLen,      \* pieces a serialized response consists of
  Faults,       \* which of FaultKinds happen
  None          \* absent from a map; a free descriptor

\* Who answers the request, and how: the Router ("route"), a CGI script
\* ("cgi"), sendError before either is reached ("reject"), an exception that
\* the Router lets escape ("throw").
Kinds == {"route", "cgi", "reject", "throw"}

Requests == [kind : Kinds, version : STRING, connection : STRING, status : Nat]

\* fin, reset: a peer shuts down its half or aborts; fcntl, accept, listener,
\* exit: fcntl() fails on an accepted socket, accept() fails with another error
\* than EAGAIN, poll() reports POLLERR for a listener, a call fails on whose
\* failure the code exits; sigpipe: a CGI script goes without reading its body.
FaultKinds == {"fin", "reset", "fcntl", "accept", "listener", "exit", "sigpipe"}

Ports == Range(ServerPorts)

Fds == 1 .. MaxFd

ASSUME MaxFdAssumption   == MaxFd \in Nat
ASSUME RespLenAssumption == RespLen \in Nat \ {0}
ASSUME ServersAssumption == ServerPorts \in Seq(Ports) /\ ServerPorts # <<>>
ASSUME ScriptsAssumption == Scripts \subseteq Seq(Requests) /\ Scripts # {}
ASSUME NamesAssumption   == /\ Conns \intersect Ports = {}
                            /\ None \notin Conns \union Ports \union Nat
ASSUME FaultsAssumption  == Faults \subseteq FaultKinds

VARIABLES
  \* the server
  pc,              \* where the thread is: "listen", "poll", "scan", "accept",
                   \* "cgi", "reject", or "down" when the process has ended
  i,               \* the loop index of initializeListeners and of start_server
  m_fds,           \* the poll set: records of fd, events, revents
  m_fdToPort,      \* port of a listener's descriptor
  m_clientOrigin,  \* listener that accepted a client's descriptor
  m_inbuf,         \* segments read from a client, <<>> when there is no entry
  m_outbuf,        \* pieces still to send, <<>> when there is no entry
  \* the kernel and the clients
  sock,            \* what a descriptor is: a port listened on, a connection
  link,            \* "none", "queued", "open", "closed", "dropped"
  port,            \* port a connection is made to
  script,          \* requests its client sends
  peer,            \* "up", "fin", "reset", or "gone": a reset after a fin
  sent,            \* segments sent by the client
  taken,           \* segments received by the server
  writable,        \* the socket's send buffer has room
  got,             \* pieces the kernel accepted for the client
  \* history
  executed,        \* requests of a connection that were carried out, in order
  due              \* descriptors poll reported and the scan has yet to visit

serverVars == <<pc, i, m_fds, m_fdToPort, m_clientOrigin, m_inbuf, m_outbuf>>
clientVars == <<port, script, peer, sent>>
kernelVars == <<sock, link, taken, writable, got>>
vars == <<serverVars, clientVars, kernelVars, executed, due>>

-----------------------------------------------------------------------------
(***************************************************************************)
(* Data                                                                    *)
(***************************************************************************)

\* m_listenerFdSet; filled together with m_fdToPort and m_seen (the range of
\* m_fdToPort), none of which is ever reduced.
m_listenerFdSet == {f \in Fds : m_fdToPort[f] # None}

\* findServerByPort: the first block that listens on the port, else the first.
FirstWithPort(p) ==
    {s \in DOMAIN ServerPorts : /\ ServerPorts[s] = p
                                /\ \A t \in 1 .. s - 1 : ServerPorts[t] # p}

\* Variant with a bug, which the checks must notice: the index of the vector.
FindServerByPort_ZeroBased(p) ==
    (IF FirstWithPort(p) # {} THEN CHOOSE s \in FirstWithPort(p) : TRUE ELSE 1) - 1

\* Variant with a bug, which the checks must notice: the last block of the port.
FindServerByPort_Last(p) ==
    LET S == {s \in DOMAIN ServerPorts : ServerPorts[s] = p}
    IN  IF S # {} THEN CHOOSE s \in S : \A t \in S : t <= s ELSE 1

FindServerByPort(p) ==
    IF FirstWithPort(p) # {} THEN CHOOSE s \in FirstWithPort(p) : TRUE ELSE 1

\* A serialized response to request r of connection c.
Response(c, r, announced, server) ==
    [p \in 1 .. RespLen |-> [to |-> c, request |-> r, part |-> p,
                             announced |-> announced, server |-> server]]

Pieces == [to : Conns, request : Nat, part : 1 .. RespLen,
           announced : {"keep-alive", "close"}, server : DOMAIN ServerPorts]

Segments == Conns \X Nat

\* Which request the buffer starts with, and whether it starts with its head.
RequestAt(buf) == (buf[1][2] + 1) \div 2
StartsWithHead(buf) == buf[1][2] % 2 = 1

\* HTTP_IsRequestComplete: a buffer that starts with a head is complete once
\* the body is there.  One that starts inside a body is whatever its bytes say.
Completeness(buf) == IF StartsWithHead(buf) THEN {Len(buf) >= 2} ELSE BOOLEAN

\* RequestParser::parse throws on a buffer that does not start with a head.
KindOf(buf) ==
    IF StartsWithHead(buf) THEN script[buf[1][1]][RequestAt(buf)].kind ELSE "reject"

\* The part every path of processCompleteRequest shares: the server block is
\* the one that findServerByPort gives for the listener of the client.
CurrentServer(f) == FindServerByPort(m_fdToPort[m_clientOrigin[f]])

\* The Router's answer to the request at the front of buf.
RoutedResponse(f, buf) ==
    LET q == script[buf[1][1]][RequestAt(buf)]
    IN  Response(buf[1][1], RequestAt(buf),
                 AnnouncedByInitialize(q.status, q.version, q.connection),
                 CurrentServer(f))

\* The answer of sendError and of handleCgiRequest.
PlainResponse(f, buf) ==
    Response(buf[1][1], RequestAt(buf), AnnouncedByDefault, CurrentServer(f))

\* Variant with a bug, which the checks must notice: the events are replaced by POLLIN.
WantWrite_InOnly(f) ==
    [k \in DOMAIN m_fds |->
        IF m_fds[k].fd = f THEN [m_fds[k] EXCEPT !.events = {"IN"}] ELSE m_fds[k]]

\* The loop over m_fds after a response is ready.
WantWrite(f) ==
    [k \in DOMAIN m_fds |->
        IF m_fds[k].fd = f THEN [m_fds[k] EXCEPT !.events = {"IN", "OUT"}]
                           ELSE m_fds[k]]

-----------------------------------------------------------------------------
Init ==
    /\ pc = "listen" /\ i = 1
    /\ m_fds = <<>>
    /\ m_fdToPort = [f \in Fds |-> None]
    /\ m_clientOrigin = [f \in Fds |-> None]
    /\ m_inbuf = [f \in Fds |-> <<>>]
    /\ m_outbuf = [f \in Fds |-> <<>>]
    /\ sock = [f \in Fds |-> None]
    /\ link = [c \in Conns |-> "none"]
    /\ port \in [Conns -> Ports]
    /\ script \in [Conns -> Scripts]
    /\ peer = [c \in Conns |-> "up"]
    /\ sent = [c \in Conns |-> 0]
    /\ taken = [c \in Conns |-> 0]
    /\ writable = [c \in Conns |-> TRUE]
    /\ got = [c \in Conns |-> <<>>]
    /\ executed = [c \in Conns |-> <<>>]
    /\ due = {}

-----------------------------------------------------------------------------
(***************************************************************************)
(* initializeListeners, one iteration per server block.                    *)
(***************************************************************************)
\* socket() and accept() hand out the lowest free descriptor.
LowestFree(f) == sock[f] = None /\ \A g \in Fds : sock[g] = None => f <= g

SkipSeenPort ==
    /\ pc = "listen" /\ i <= Len(ServerPorts)
    /\ \E f \in Fds : m_fdToPort[f] = ServerPorts[i]
    /\ i' = i + 1
    /\ UNCHANGED <<pc, m_fds, m_fdToPort, m_clientOrigin, m_inbuf, m_outbuf,
                   clientVars, kernelVars, executed, due>>

CreateListener ==
    /\ pc = "listen" /\ i <= Len(ServerPorts)
    /\ \A f \in Fds : m_fdToPort[f] # ServerPorts[i]
    /\ \E f \in Fds :
          /\ LowestFree(f)
          /\ sock' = [sock EXCEPT ![f] = ServerPorts[i]]
          /\ m_fdToPort' = [m_fdToPort EXCEPT ![f] = ServerPorts[i]]
          /\ m_fds' = Append(m_fds, [fd |-> f, events |-> {"IN"}, revents |-> {}])
    /\ i' = i + 1
    /\ UNCHANGED <<pc, m_clientOrigin, m_inbuf, m_outbuf, clientVars, link, taken,
                   writable, got, executed, due>>

ListenersReady ==
    /\ pc = "listen" /\ i > Len(ServerPorts)
    /\ pc' = "poll"
    /\ UNCHANGED <<i, m_fds, m_fdToPort, m_clientOrigin, m_inbuf, m_outbuf,
                   clientVars, kernelVars, executed, due>>

\* create_listener and poll() end the process when a system call fails, the
\* first also when there is no descriptor left.
ExitOnFailure ==
    /\ \/ pc \in {"listen", "poll"} /\ "exit" \in Faults
       \/ /\ pc = "listen" /\ i <= Len(ServerPorts)
          /\ \A f \in Fds : sock[f] # None /\ m_fdToPort[f] # ServerPorts[i]
    /\ pc' = "down"
    /\ UNCHANGED <<i, m_fds, m_fdToPort, m_clientOrigin, m_inbuf, m_outbuf,
                   clientVars, kernelVars, executed, due>>

-----------------------------------------------------------------------------
(***************************************************************************)
(* poll().  It blocks while nothing is ready.                              *)
(***************************************************************************)
Broken(f) == sock[f] \in Conns /\ peer[sock[f]] \in {"reset", "gone"}

Readable(f) ==
    \/ sock[f] \in Ports /\ \E c \in Conns : link[c] = "queued" /\ port[c] = sock[f]
    \/ sock[f] \in Conns /\ (taken[sock[f]] < sent[sock[f]] \/ peer[sock[f]] # "up")

Writable(f) == sock[f] \in Conns /\ (writable[sock[f]] \/ Broken(f))

\* What poll reports for an entry; ERR stands for POLLERR, POLLHUP, POLLNVAL,
\* which are reported whether asked for or not.
Reported(entry, failing) ==
    {e \in entry.events : \/ e = "IN" /\ Readable(entry.fd)
                          \/ e = "OUT" /\ Writable(entry.fd)}
    \union {e \in {"ERR"} : Broken(entry.fd) \/ entry.fd \in failing}

Poll ==
    /\ pc = "poll"
    /\ \E failing \in SUBSET m_listenerFdSet :
          /\ failing # {} => "listener" \in Faults
          /\ m_fds' = [k \in DOMAIN m_fds |->
                          [m_fds[k] EXCEPT !.revents = Reported(m_fds[k], failing)]]
    /\ due' = {f \in Fds : \E k \in DOMAIN m_fds :
                              m_fds'[k].fd = f /\ m_fds'[k].revents # {}}
    /\ due' # {}
    /\ pc' = "scan" /\ i' = 1
    /\ UNCHANGED <<m_fdToPort, m_clientOrigin, m_inbuf, m_outbuf, clientVars,
                   kernelVars, executed>>

-----------------------------------------------------------------------------
(***************************************************************************)
(* The scan of start_server.  Entry is m_fds[i]; the tests come in the     *)
(* order of the code: error, listener, POLLOUT with a response, POLLIN.    *)
(***************************************************************************)
Scanning == pc = "scan" /\ i <= Len(m_fds)
Fd == m_fds[i].fd
Revents == m_fds[i].revents
HasError == "ERR" \in Revents
IsListener == Fd \in m_listenerFdSet
\* Variant with a bug, which the checks must notice: send() without looking at revents.
MayWrite_Unpolled == m_outbuf[Fd] # <<>>

MayWrite == "OUT" \in Revents /\ m_outbuf[Fd] # <<>>
MayRead == "IN" \in Revents /\ ~MayWrite

\* ++i of the for loop.
NextEntry ==
    /\ i' = i + 1
    /\ pc' = "scan"
    /\ due' = due \ {Fd}

\* Variant with a bug, which the checks must notice: m_inbuf keeps its entry.
ForgetClient_KeepsInput ==
    /\ m_clientOrigin' = [m_clientOrigin EXCEPT ![Fd] = None]
    /\ m_outbuf' = [m_outbuf EXCEPT ![Fd] = <<>>]
    /\ UNCHANGED m_inbuf

ForgetClient ==
    /\ m_clientOrigin' = [m_clientOrigin EXCEPT ![Fd] = None]
    /\ m_inbuf' = [m_inbuf EXCEPT ![Fd] = <<>>]
    /\ m_outbuf' = [m_outbuf EXCEPT ![Fd] = <<>>]

\* Variant with a bug, which the checks must notice: the last entry goes.
EraseEntry_Last ==
    /\ m_fds' = RemoveAt(m_fds, Len(m_fds))
    /\ i' = i

\* Variant with a bug, which the checks must notice: no --index.
EraseEntry_SkipsNext ==
    /\ m_fds' = RemoveAt(m_fds, i)
    /\ i' = i + 1

\* Variant with a bug, which the checks must notice: the entry stays.
EraseEntry_Never ==
    /\ m_fds' = m_fds
    /\ i' = i + 1

\* The entry is erased; --index and the ++i of the for loop cancel out.
EraseEntry ==
    /\ m_fds' = RemoveAt(m_fds, i)
    /\ i' = i

\* closeClientConnection
CloseClientConnection ==
    /\ sock' = [sock EXCEPT ![Fd] = None]
    /\ link' = [link EXCEPT ![sock[Fd]] = "closed"]
    /\ ForgetClient
    /\ EraseEntry
    /\ pc' = "scan"
    /\ due' = due \ {Fd}
    /\ UNCHANGED <<m_fdToPort, clientVars, taken, writable, executed>>

EndScan ==
    /\ pc = "scan" /\ i > Len(m_fds)
    /\ pc' = "poll"
    /\ UNCHANGED <<i, m_fds, m_fdToPort, m_clientOrigin, m_inbuf, m_outbuf,
                   clientVars, kernelVars, executed, due>>

\* handlePollError on a client closes it, whatever it still had to say.
HandlePollError ==
    /\ Scanning /\ HasError /\ ~IsListener
    /\ CloseClientConnection
    /\ UNCHANGED got

\* handlePollError on a listener, and an entry with nothing to do.
PassOver ==
    /\ Scanning
    /\ \/ HasError /\ IsListener
       \/ ~HasError /\ ~IsListener /\ ~MayWrite /\ ~MayRead
    /\ NextEntry
    /\ UNCHANGED <<m_fds, m_fdToPort, m_clientOrigin, m_inbuf, m_outbuf,
                   clientVars, kernelVars, executed>>

-----------------------------------------------------------------------------
(***************************************************************************)
(* acceptNewConnections.  The loop runs for a listener in every scan, with *)
(* or without POLLIN, until accept() fails.                                *)
(***************************************************************************)
\* Variant with a bug, which the checks must notice: every entry is accepted on.
StartAccept_Anywhere ==
    /\ Scanning /\ ~HasError
    /\ pc' = "accept"
    /\ UNCHANGED <<i, m_fds, m_fdToPort, m_clientOrigin, m_inbuf, m_outbuf,
                   clientVars, kernelVars, executed, due>>

StartAccept ==
    /\ Scanning /\ ~HasError /\ IsListener
    /\ pc' = "accept"
    /\ UNCHANGED <<i, m_fds, m_fdToPort, m_clientOrigin, m_inbuf, m_outbuf,
                   clientVars, kernelVars, executed, due>>

Queued(c) == link[c] = "queued" /\ port[c] = sock[Fd]

Accept ==
    /\ pc = "accept"
    /\ \E c \in Conns, f \in Fds :
          /\ Queued(c) /\ LowestFree(f)
          /\ sock' = [sock EXCEPT ![f] = c]
          /\ link' = [link EXCEPT ![c] = "open"]
          /\ m_fds' = Append(m_fds, [fd |-> f, events |-> {"IN", "OUT"}, revents |-> {}])
          /\ m_clientOrigin' = [m_clientOrigin EXCEPT ![f] = Fd]
    /\ UNCHANGED <<pc, i, m_fdToPort, m_inbuf, m_outbuf, clientVars, taken,
                   writable, got, executed, due>>

\* fcntl() fails on the new descriptor: it is closed and the loop goes on.
AcceptThenDrop ==
    /\ pc = "accept" /\ "fcntl" \in Faults
    /\ \E f \in Fds : sock[f] = None
    /\ \E c \in Conns : Queued(c) /\ link' = [link EXCEPT ![c] = "dropped"]
    /\ UNCHANGED <<serverVars, clientVars, sock, taken, writable, got, executed, due>>

\* accept() fails: nobody waits, there is no free descriptor, or another error.
EndAccept ==
    /\ pc = "accept"
    /\ \/ \A c \in Conns : ~Queued(c)
       \/ \A f \in Fds : sock[f] # None
       \/ "accept" \in Faults
    /\ NextEntry
    /\ UNCHANGED <<m_fds, m_fdToPort, m_clientOrigin, m_inbuf, m_outbuf,
                   clientVars, kernelVars, executed>>

-----------------------------------------------------------------------------
(***************************************************************************)
(* handleClientWrite                                                       *)
(***************************************************************************)
Writing == Scanning /\ ~HasError /\ ~IsListener /\ MayWrite
CanSend(c) == writable[c] /\ peer[c] \in {"up", "fin"}

\* Variant with a bug, which the checks must notice: what was sent is not erased.
Unsent_All(out, n) == out

\* outData.erase(0, sent)
Unsent(out, n) == SubSeq(out, n + 1, Len(out))

\* send() takes a part: the rest stays, and the socket's buffer is full.
SendPart ==
    /\ Writing /\ CanSend(sock[Fd])
    /\ \E n \in 1 .. Len(m_outbuf[Fd]) - 1 :
          /\ got' = [got EXCEPT ![sock[Fd]] = @ \o SubSeq(m_outbuf[Fd], 1, n)]
          /\ m_outbuf' = [m_outbuf EXCEPT ![Fd] = Unsent(@, n)]
    /\ writable' = [writable EXCEPT ![sock[Fd]] = FALSE]
    /\ NextEntry
    /\ UNCHANGED <<m_fds, m_fdToPort, m_clientOrigin, m_inbuf, clientVars, sock,
                   link, taken, executed>>

\* send() takes the rest: the connection is closed.
SendRest ==
    /\ Writing /\ CanSend(sock[Fd])
    /\ got' = [got EXCEPT ![sock[Fd]] = @ \o m_outbuf[Fd]]
    /\ CloseClientConnection

\* send() < 0: the peer reset the connection, or the buffer has no room.
SendFails ==
    /\ Writing /\ ~CanSend(sock[Fd]) /\ peer[sock[Fd]] # "gone"
    /\ CloseClientConnection
    /\ UNCHANGED got

\* send() without MSG_NOSIGNAL to a peer that sent a FIN and then a RST:
\* SIGPIPE, whose default action ends the process.
SendKillsServer ==
    /\ Writing /\ peer[sock[Fd]] = "gone"
    /\ pc' = "down"
    /\ UNCHANGED <<i, m_fds, m_fdToPort, m_clientOrigin, m_inbuf, m_outbuf,
                   clientVars, kernelVars, executed, due>>

-----------------------------------------------------------------------------
(***************************************************************************)
(* handleClientRead: readClientData, HTTP_IsRequestComplete and            *)
(* processCompleteRequest.                                                 *)
(***************************************************************************)
Reading == Scanning /\ ~HasError /\ ~IsListener /\ MayRead
Unread(c) == sent[c] - taken[c]

\* Variant with a bug, which the checks must notice: the end of the stream is not an error.
ReadFails_Ignored ==
    /\ Reading
    /\ Unread(sock[Fd]) = 0
    /\ NextEntry
    /\ UNCHANGED <<m_fds, m_fdToPort, m_clientOrigin, m_inbuf, m_outbuf,
                   clientVars, kernelVars, executed>>

\* recv() returns 0 (end of stream) or -1 (reset, or nothing there).
ReadFails ==
    /\ Reading
    /\ Unread(sock[Fd]) = 0 \/ Broken(Fd)
    /\ CloseClientConnection
    /\ UNCHANGED got

\* Variant with a bug, which the checks must notice: a recv() of 0 bytes counts as data.
Receive_EvenNothing ==
    /\ Reading
    /\ \E n \in 0 .. Unread(sock[Fd]) :
          /\ taken' = [taken EXCEPT ![sock[Fd]] = @ + n]
          /\ m_inbuf' = [m_inbuf EXCEPT ![Fd] =
                @ \o [k \in 1 .. n |-> <<sock[Fd], taken[sock[Fd]] + k>>]]
    /\ m_inbuf'[Fd] # <<>>

\* recv() returns some segments, which join what the client's buffer holds.
Receive ==
    /\ Reading
    /\ \E n \in 1 .. Unread(sock[Fd]) :
          /\ taken' = [taken EXCEPT ![sock[Fd]] = @ + n]
          /\ m_inbuf' = [m_inbuf EXCEPT ![Fd] =
                @ \o [k \in 1 .. n |-> <<sock[Fd], taken[sock[Fd]] + k>>]]

ReadIncomplete ==
    /\ Receive
    /\ FALSE \in Completeness(m_inbuf'[Fd])
    /\ NextEntry
    /\ UNCHANGED <<m_fds, m_fdToPort, m_clientOrigin, m_outbuf, clientVars, sock,
                   link, writable, got, executed>>

\* recv() made the buffer complete and the request is of this kind.
ReadComplete(kind) ==
    /\ Receive
    /\ TRUE \in Completeness(m_inbuf'[Fd])
    /\ KindOf(m_inbuf'[Fd]) = kind
    /\ UNCHANGED <<m_fdToPort, m_clientOrigin, clientVars, sock, link, writable, got>>

Execute(buf) ==
    executed' = [executed EXCEPT ![buf[1][1]] = Append(@, RequestAt(buf))]

\* The Router answers.  The response replaces what m_outbuf holds, and the
\* request stays in m_inbuf.
RouteRequest ==
    /\ ReadComplete("route")
    /\ m_outbuf' = [m_outbuf EXCEPT ![Fd] = RoutedResponse(Fd, m_inbuf'[Fd])]
    /\ m_fds' = WantWrite(Fd)
    /\ Execute(m_inbuf'[Fd])
    /\ NextEntry

\* handleCgiRequest up to the return of runCgi, for which the thread waits.
StartCgi ==
    /\ ReadComplete("cgi")
    /\ Execute(m_inbuf'[Fd])
    /\ pc' = "cgi"
    /\ UNCHANGED <<i, m_fds, m_outbuf, due>>

FinishCgi ==
    /\ pc = "cgi"
    /\ m_outbuf' = [m_outbuf EXCEPT ![Fd] = PlainResponse(Fd, m_inbuf[Fd])]
    /\ m_fds' = WantWrite(Fd)
    /\ m_inbuf' = [m_inbuf EXCEPT ![Fd] = <<>>]
    /\ NextEntry
    /\ UNCHANGED <<m_fdToPort, m_clientOrigin, clientVars, kernelVars, executed>>

\* runCgi writes the body to a pipe that the script has closed: see module Cgi.
CgiKillsServer ==
    /\ pc = "cgi" /\ "sigpipe" \in Faults
    /\ pc' = "down"
    /\ UNCHANGED <<i, m_fds, m_fdToPort, m_clientOrigin, m_inbuf, m_outbuf,
                   clientVars, kernelVars, executed, due>>

\* A request that does not parse, whose body is too large or whose script is
\* missing or not executable: sendError, and at once closeClientConnection.
SendError ==
    /\ ReadComplete("reject")
    /\ m_outbuf' = [m_outbuf EXCEPT ![Fd] = PlainResponse(Fd, m_inbuf'[Fd])]
    /\ m_fds' = WantWrite(Fd)
    /\ pc' = "reject"
    /\ UNCHANGED <<i, executed, due>>

CloseAfterError ==
    /\ pc = "reject"
    /\ CloseClientConnection
    /\ UNCHANGED got

\* An exception of the Router passes through start_server to main.
RouterThrows ==
    /\ ReadComplete("throw")
    /\ pc' = "down"
    /\ UNCHANGED <<i, m_fds, m_outbuf, executed, due>>

-----------------------------------------------------------------------------
(***************************************************************************)
(* The clients and their kernels.                                          *)
(***************************************************************************)
Connect(c) ==
    /\ link[c] = "none"
    /\ \E f \in Fds : sock[f] = port[c]
    /\ link' = [link EXCEPT ![c] = "queued"]
    /\ UNCHANGED <<serverVars, clientVars, sock, taken, writable, got, executed, due>>

SendSegment(c) ==
    /\ link[c] \in {"queued", "open"} /\ peer[c] = "up"
    /\ sent[c] < 2 * Len(script[c])
    /\ sent' = [sent EXCEPT ![c] = @ + 1]
    /\ UNCHANGED <<serverVars, port, script, peer, kernelVars, executed, due>>

\* The client shuts its sending half down, and may still read the response.
PeerFin(c) ==
    /\ "fin" \in Faults
    /\ link[c] \in {"queued", "open"} /\ peer[c] = "up"
    /\ peer' = [peer EXCEPT ![c] = "fin"]
    /\ UNCHANGED <<serverVars, port, script, sent, kernelVars, executed, due>>

PeerReset(c) ==
    /\ "reset" \in Faults
    /\ link[c] \in {"queued", "open"} /\ peer[c] \in {"up", "fin"}
    /\ peer' = [peer EXCEPT ![c] = IF @ = "fin" THEN "gone" ELSE "reset"]
    /\ UNCHANGED <<serverVars, port, script, sent, kernelVars, executed, due>>

\* The client reads, which makes room in the socket's send buffer.
Drain(c) ==
    /\ link[c] = "open" /\ ~writable[c]
    /\ writable' = [writable EXCEPT ![c] = TRUE]
    /\ UNCHANGED <<serverVars, clientVars, sock, link, taken, got, executed, due>>

-----------------------------------------------------------------------------
Server ==
    \/ SkipSeenPort \/ CreateListener \/ ListenersReady \/ ExitOnFailure
    \/ Poll \/ EndScan \/ HandlePollError \/ PassOver
    \/ StartAccept \/ Accept \/ AcceptThenDrop \/ EndAccept
    \/ SendPart \/ SendRest \/ SendFails \/ SendKillsServer
    \/ ReadFails \/ ReadIncomplete \/ RouteRequest \/ StartCgi \/ FinishCgi
    \/ CgiKillsServer \/ SendError \/ CloseAfterError \/ RouterThrows

Client(c) == Connect(c) \/ SendSegment(c) \/ PeerFin(c) \/ PeerReset(c) \/ Drain(c)

Next == Server \/ \E c \in Conns : pc # "down" /\ Client(c)

Spec == Init /\ [][Next]_vars

\* The thread runs whenever it can, and a client reads what it is sent.
Fairness == WF_vars(Server) /\ \A c \in Conns : WF_vars(pc # "down" /\ Drain(c))

FairSpec == Spec /\ Fairness
-----------------------------------------------------------------------------
(***************************************************************************)
(* Properties                                                              *)
(***************************************************************************)
Entries == [fd : Fds, events : SUBSET {"IN", "OUT"},
            revents : SUBSET {"IN", "OUT", "ERR"}]

\* Every variable has its type; in particular the poll set holds descriptors
\* only, and a client's descriptor remembers a listener's.
TypeOK ==
    /\ pc \in {"listen", "poll", "scan", "accept", "cgi", "reject", "down"}
    /\ i \in Nat \ {0}
    /\ m_fds \in Seq(Entries)
    /\ m_fdToPort \in [Fds -> Ports \union {None}]
    /\ m_clientOrigin \in [Fds -> Fds \union {None}]
    /\ m_inbuf \in [Fds -> Seq(Segments)]
    /\ m_outbuf \in [Fds -> Seq(Pieces)]
    /\ sock \in [Fds -> Conns \union Ports \union {None}]
    /\ link \in [Conns -> {"none", "queued", "open", "closed", "dropped"}]
    /\ port \in [Conns -> Ports]
    /\ script \in [Conns -> Scripts]
    /\ peer \in [Conns -> {"up", "fin", "reset", "gone"}]
    /\ sent \in [Conns -> Nat]
    /\ taken \in [Conns -> Nat]
    /\ writable \in [Conns -> BOOLEAN]
    /\ got \in [Conns -> Seq(Pieces)]
    /\ executed \in [Conns -> Seq(Nat)]
    /\ due \subseteq Fds

\* The open descriptors and the entries of the poll set are the same, one for one.
EntriesAreOpenSockets ==
    /\ \A k, l \in DOMAIN m_fds : m_fds[k].fd = m_fds[l].fd => k = l
    /\ \A f \in Fds : sock[f] # None <=> \E k \in DOMAIN m_fds : m_fds[k].fd = f

\* m_fdToPort knows the listeners and nothing else.
ListenersKnown ==
    \A f \in Fds : m_fdToPort[f] = IF sock[f] \in Ports THEN sock[f] ELSE None

\* m_clientOrigin knows the clients and nothing else, each by a listener of the
\* port it connected to; an open connection has one descriptor.
ClientsKnown ==
    /\ \A f \in Fds :
          IF sock[f] \in Conns
          THEN /\ m_clientOrigin[f] # None
               /\ m_fdToPort[m_clientOrigin[f]] = port[sock[f]]
               /\ link[sock[f]] = "open"
          ELSE m_clientOrigin[f] = None
    /\ \A c \in Conns : link[c] = "open" => \E f \in Fds : sock[f] = c
    /\ \A f, g \in Fds : sock[f] \in Conns /\ sock[f] = sock[g] => f = g

\* No client's entry comes before a listener's.
ListenersFirst ==
    \A k, l \in DOMAIN m_fds :
        k < l /\ m_fds[l].fd \in m_listenerFdSet => m_fds[k].fd \in m_listenerFdSet

\* The poll set, the maps of the server and the kernel's descriptor table
\* agree: no open socket is left out of the poll set or is in it twice, no
\* closed one is polled, a client's entry names a listener of the port it
\* connected to, and the listeners come first, so that --index never wraps.
\* closeClientConnection and acceptNewConnections change them one by one.
PollSetMatchesSockets ==
    EntriesAreOpenSockets /\ ListenersKnown /\ ClientsKnown /\ ListenersFirst

\* Where accept(), runCgi() and the close after sendError leave the thread, it
\* stands at an entry of the right sort: the entry it came from has not moved,
\* and the CGI's request is still there.
ThreadAtEntry ==
    pc \in {"accept", "cgi", "reject"} =>
        /\ i \in DOMAIN m_fds
        /\ Fd \in m_listenerFdSet <=> pc = "accept"
        /\ pc = "cgi" => m_inbuf[Fd] # <<>>

\* A descriptor that is closed and handed out again carries nothing over: the
\* buffers of a descriptor hold bytes of the connection it stands for only,
\* the input in the order and without a gap up to the last segment received,
\* and a client gets pieces of responses to its own requests only.
OwnBytesOnly ==
    /\ \A f \in Fds :
          IF sock[f] \in Conns
          THEN LET c == sock[f] IN
               /\ Len(m_inbuf[f]) <= taken[c]
               /\ \A k \in DOMAIN m_inbuf[f] :
                     m_inbuf[f][k] = <<c, taken[c] - Len(m_inbuf[f]) + k>>
               /\ \A k \in DOMAIN m_outbuf[f] : m_outbuf[f][k].to = c
          ELSE m_inbuf[f] = <<>> /\ m_outbuf[f] = <<>>
    /\ \A c \in Conns : \A k \in DOMAIN got[c] : got[c][k].to = c

\* One scan visits every descriptor that poll reported exactly once, although
\* the scan erases entries from m_fds and appends to it: what is still to be
\* visited is what the entries from i on report, and nothing is left of it
\* when the thread goes back to poll().
ReadyVisitedOnce ==
    /\ pc \in {"listen", "poll"} => due = {}
    /\ pc \in {"scan", "accept", "cgi", "reject"} =>
          due = {f \in Fds : \E k \in i .. Len(m_fds) :
                                m_fds[k].fd = f /\ m_fds[k].revents # {}}

\* Every response, sent or waiting, is composed with the first block that
\* listens on the port the client connected to, whichever descriptors its
\* listener and the connection have and had.  This is not the virtual server
\* that a Host header asks for: the code compares no server_name with it, and
\* the other blocks of the port answer nobody.
AnsweredByFirstOfPort ==
    /\ \A c \in Conns : \A k \in DOMAIN got[c] :
          got[c][k].server \in FirstWithPort(port[c])
    /\ \A f \in Fds : \A k \in DOMAIN m_outbuf[f] :
          sock[f] \in Conns /\ m_outbuf[f][k].server \in FirstWithPort(port[sock[f]])

\* What a client receives is a prefix of one well-formed response: the code
\* serves one request per connection, and never starts a second response
\* behind a part of the first.
ResponseIntegrity ==
    \A c \in Conns : \A k \in DOMAIN got[c] :
        got[c][k].part = k /\ got[c][k].request = got[c][1].request

\* No request is carried out twice, or before an earlier one: a retried POST or
\* DELETE would find the effect of the first.
ExecutedOnceInOrder ==
    \A c \in Conns : \A k, l \in DOMAIN executed[c] :
        k < l => executed[c][k] < executed[c][l]

\* The whole response to some request has been handed to the kernel.
Answered(c) == got[c] # <<>> /\ got[c][Len(got[c])].part = RespLen

\* The server closes the connection of a client that has neither shut down nor
\* reset only when it has sent it a whole response, not because a stale
\* revents made it call recv() or send() with nothing to do.
CloseOnlyAfterAnswer ==
    [][\A c \in Conns :
          link[c] = "open" /\ link'[c] = "closed" /\ peer[c] = "up"
              => Answered(c)']_vars

\* A connection whose last response announced "keep-alive" is not closed by
\* the server.
KeepAliveHonoured ==
    [][\A c \in Conns :
          link[c] = "open" /\ link'[c] = "closed" /\ peer[c] = "up" /\ Answered(c)'
              => got'[c][Len(got'[c])].announced = "close"]_vars

\* No request and no client ends the process.
NeverDown == pc # "down"

\* Every client that has sent a request and stays gets a whole response, and
\* every connection with a request is closed in the end, if the process lives.
RequestAnswered ==
    \A c \in Conns :
        link[c] = "open" /\ sent[c] >= 2
            ~> Answered(c) \/ peer[c] # "up" \/ pc = "down"

ConnectionReleased ==
    \A c \in Conns :
        link[c] = "open" /\ (sent[c] >= 2 \/ peer[c] # "up")
            ~> link[c] # "open" \/ pc = "down"

OneExchange == INSTANCE Exchange
                  WITH times    <- [c \in Conns |-> Len(executed[c])],
                       received <- [c \in Conns |-> [k \in DOMAIN got[c] |-> got[c][k].part]],
                       ended    <- [c \in Conns |-> link[c] \in {"closed", "dropped"}],
                       left     <- [c \in Conns |-> peer[c] # "up"],
                       stopped  <- pc = "down"

\* To a client that makes one well-formed request the loop with its buffers,
\* partial sends and reused descriptors is one exchange: carried out once,
\* answered from the first piece to the last, closed with the last.
ExchangeImplemented == OneExchange!Spec
=============================================================================
