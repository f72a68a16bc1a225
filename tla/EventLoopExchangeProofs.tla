---------------------- MODULE EventLoopExchangeProofs ----------------------
(***************************************************************************)
(* Theorems about what a client sees of the event loop: what poll reported *)
(* is still so when the scan comes to it, and for clients that make one    *)
(* request per connection, the request is carried out once, its response   *)
(* comes whole and in order, and the loop implements module Exchange.      *)
(***************************************************************************)
EXTENDS EventLoopDataProofs

-----------------------------------------------------------------------------
(***************************************************************************)
(* What poll reported about a client stays true until the scan visits its  *)
(* entry, although other entries are served, closed and appended first:    *)
(* recv() and send() have something to do, unless the client has gone.     *)
(***************************************************************************)
\* The entries the scan has not begun with.
Unvisited == (IF pc = "scan" THEN i ELSE i + 1) .. Len(m_fds)

ReportHolds(c, revents) ==
    /\ "ERR" \in revents => peer[c] # "up"
    /\ "IN" \in revents => taken[c] < sent[c] \/ peer[c] # "up"
    /\ "OUT" \in revents => writable[c] \/ peer[c] # "up"

ReportsStillTrue ==
    InScan => \A k \in Unvisited :
                 sock[m_fds[k].fd] \in Conns =>
                     ReportHolds(sock[m_fds[k].fd], m_fds[k].revents)

\* A step that takes nothing away from what was reported about the client of f.
Undisturbed(f) ==
    \/ sock'[f] \notin Conns
    \/ /\ sock'[f] = sock[f]
       /\ peer[sock[f]] # "up" => peer'[sock[f]] # "up"
       /\ taken[sock[f]] < sent[sock[f]] => taken'[sock[f]] < sent'[sock[f]]
       /\ writable[sock[f]] => writable'[sock[f]]

\* Every entry that is unvisited after the step was so before and is undisturbed,
\* or reports nothing.
LEMMA ReportsKept ==
    ASSUME ReportsStillTrue, InScan' => InScan,
           \A k \in Unvisited' :
              \/ m_fds'[k].revents = {}
              \/ \E j \in Unvisited : /\ m_fds'[k].fd = m_fds[j].fd
                                      /\ m_fds'[k].revents = m_fds[j].revents
                                      /\ Undisturbed(m_fds[j].fd)
    PROVE  ReportsStillTrue'
<1> SUFFICES ASSUME InScan', NEW k \in Unvisited', sock'[m_fds'[k].fd] \in Conns
             PROVE  ReportHolds(sock[m_fds[k].fd], m_fds[k].revents)'
  BY DEF ReportsStillTrue
<1>1. CASE m_fds'[k].revents = {}
  BY <1>1 DEF ReportHolds
<1>2. ASSUME NEW j \in Unvisited, m_fds'[k].fd = m_fds[j].fd,
             m_fds'[k].revents = m_fds[j].revents, Undisturbed(m_fds[j].fd)
      PROVE  ReportHolds(sock[m_fds[k].fd], m_fds[k].revents)'
  <2>1. sock'[m_fds[j].fd] = sock[m_fds[j].fd] /\ sock[m_fds[j].fd] \in Conns
    BY <1>2 DEF Undisturbed
  <2>2. ReportHolds(sock[m_fds[j].fd], m_fds[j].revents)
    BY <2>1 DEF ReportsStillTrue
  <2>3. QED
    BY <1>2, <2>1, <2>2 DEF ReportHolds, Undisturbed
<1>3. QED
  BY <1>1, <1>2

\* No entry but the one at i has its descriptor or its connection.
LEMMA OtherEntry ==
    ASSUME TypeInv, PollInv, i \in DOMAIN m_fds, NEW k \in DOMAIN m_fds, k # i
    PROVE  /\ m_fds[k].fd # Fd /\ m_fds[k].fd \in Fds
           /\ sock[m_fds[k].fd] \in Conns => sock[m_fds[k].fd] # sock[Fd]
<1>1. m_fds[k] \in Entries /\ Fd \in Fds
  BY EntryType, ElementOfSeq, LenProperties DEF TypeInv, TypeOK
<1>2. m_fds[k].fd \in Fds
  BY <1>1 DEF Entries
<1>3. m_fds[k].fd # Fd
  BY DEF PollInv, PollSetMatchesSockets, EntriesAreOpenSockets, Fd
<1>4. QED
  BY <1>1, <1>2, <1>3 DEF PollInv, PollSetMatchesSockets, ClientsKnown

\* The scan goes on behind the entry at i, which is all the step disturbs.
LEMMA ReportsBehind ==
    ASSUME TypeInv, PollInv, ReportsStillTrue, i \in DOMAIN m_fds, InScan,
           Unvisited' = i + 1 .. Len(m_fds),
           \A k \in 1 .. Len(m_fds) : /\ m_fds'[k].fd = m_fds[k].fd
                                      /\ m_fds'[k].revents = m_fds[k].revents,
           \A f \in Fds : f # Fd /\ (sock[f] \in Conns => sock[f] # sock[Fd]) => Undisturbed(f)
    PROVE  ReportsStillTrue'
<1>1. i \in 1 .. Len(m_fds) /\ Len(m_fds) \in Nat /\ DOMAIN m_fds = 1 .. Len(m_fds)
  BY EntryType, LenProperties DEF TypeInv, TypeOK
<1>2. ASSUME NEW k \in Unvisited'
      PROVE  /\ k \in Unvisited /\ m_fds'[k].fd = m_fds[k].fd
             /\ m_fds'[k].revents = m_fds[k].revents /\ Undisturbed(m_fds[k].fd)
  <2>1. k \in i + 1 .. Len(m_fds)
    OBVIOUS
  <2>2. k \in 1 .. Len(m_fds) /\ k # i /\ k \in i .. Len(m_fds)
    BY <1>1, <2>1
  <2>3. k \in Unvisited
    BY ONLY <2>1, <2>2 DEF Unvisited
  <2>4. QED
    BY <1>1, <2>2, <2>3, OtherEntry
<1>3. QED
  BY <1>2, ReportsKept

\* erase() moves the unvisited entries up by one.
LEMMA ReportsAfterClose ==
    ASSUME TypeInv, PollInv, ReportsStillTrue, i \in DOMAIN m_fds, ~IsListener,
           pc \in {"scan", "reject"}, CloseClientConnection
    PROVE  ReportsStillTrue'
<1>1. i \in 1 .. Len(m_fds) /\ Len(m_fds) \in Nat /\ DOMAIN m_fds = 1 .. Len(m_fds)
      /\ m_fds \in Seq(Entries)
  BY EntryType, LenProperties DEF TypeInv, TypeOK
<1>2. /\ Len(m_fds') = Len(m_fds) - 1
      /\ \A k \in 1 .. Len(m_fds) - 1 : m_fds'[k] = IF k < i THEN m_fds[k] ELSE m_fds[k + 1]
  BY <1>1, RemoveAtProperties DEF CloseClientConnection, EraseEntry
<1>3. Unvisited' = i .. Len(m_fds) - 1
  BY <1>2 DEF Unvisited, CloseClientConnection, EraseEntry
<1>4. ASSUME NEW f \in Fds, f # Fd PROVE Undisturbed(f)
  <2>1. sock'[f] = sock[f] /\ UNCHANGED <<peer, taken, sent, writable>>
    BY <1>4 DEF CloseClientConnection, clientVars, TypeInv, TypeOK
  <2>2. QED
    BY <2>1 DEF Undisturbed
<1>5. ASSUME NEW k \in Unvisited'
      PROVE  /\ k + 1 \in Unvisited /\ m_fds'[k] = m_fds[k + 1]
             /\ Undisturbed(m_fds[k + 1].fd)
  <2>1. k \in i .. Len(m_fds) - 1
    BY <1>3
  <2>2. k + 1 \in i + 1 .. Len(m_fds) /\ k + 1 \in i .. Len(m_fds)
    BY <1>1, <2>1
  <2>3. k + 1 \in Unvisited
    BY ONLY <2>2 DEF Unvisited
  <2>4. m_fds'[k] = m_fds[k + 1]
    BY <1>1, <1>2, <2>1
  <2>5. k + 1 \in DOMAIN m_fds /\ k + 1 # i
    BY <1>1, <2>2
  <2>6. QED
    BY <1>1, <1>4, <2>3, <2>4, <2>5, OtherEntry
<1>6. InScan
  BY DEF InScan
<1>7. QED
  BY <1>5, <1>6, ReportsKept

\* What poll reports is so.
LEMMA ReportsOfPoll ==
    ASSUME TypeInv, TypeInv', PollInv, Poll
    PROVE  ReportsStillTrue'
<1>1. PICK failing \in SUBSET m_listenerFdSet :
         m_fds' = [k \in DOMAIN m_fds |->
                      [m_fds[k] EXCEPT !.revents = Reported(m_fds[k], failing)]]
  BY DEF Poll
<1>2. /\ DOMAIN m_fds = 1 .. Len(m_fds) /\ m_fds \in Seq(Entries)
      /\ DOMAIN m_fds' = 1 .. Len(m_fds') /\ pc' = "scan" /\ i' = 1
      /\ UNCHANGED <<sock, peer, taken, sent, writable>>
  BY LenProperties DEF TypeInv, TypeOK, Poll, kernelVars, clientVars
<1>3. \A k \in Unvisited' : k \in DOMAIN m_fds
  BY <1>1, <1>2 DEF Unvisited
<1> SUFFICES ASSUME NEW k \in DOMAIN m_fds, sock[m_fds[k].fd] \in Conns
             PROVE  ReportHolds(sock[m_fds[k].fd], Reported(m_fds[k], failing))
  <2>1. \A k \in DOMAIN m_fds : /\ m_fds'[k].fd = m_fds[k].fd
                                /\ m_fds'[k].revents = Reported(m_fds[k], failing)
    <3> TAKE k \in DOMAIN m_fds
    <3>1. m_fds[k] \in Entries
      BY <1>2, ElementOfSeq
    <3>2. QED
      BY <1>1, <3>1 DEF Entries
  <2>2. ASSUME NEW k \in Unvisited', sock'[m_fds'[k].fd] \in Conns
        PROVE  ReportHolds(sock[m_fds[k].fd], m_fds[k].revents)'
    <3>1. /\ k \in DOMAIN m_fds /\ m_fds'[k].fd = m_fds[k].fd
          /\ m_fds'[k].revents = Reported(m_fds[k], failing)
          /\ sock[m_fds[k].fd] \in Conns
      BY <1>2, <1>3, <2>1, <2>2
    <3>2. ReportHolds(sock[m_fds[k].fd], Reported(m_fds[k], failing))
      BY <3>1
    <3>3. QED
      BY <1>2, <3>1, <3>2 DEF ReportHolds
  <2>3. QED
    BY <2>2 DEF ReportsStillTrue
<1> DEFINE f == m_fds[k].fd
<1>4. f \in Fds
  <2>1. m_fds[k] \in Entries
    BY <1>2, ElementOfSeq
  <2>2. QED
    BY <2>1 DEF Entries
<1>5. sock[f] \notin Ports /\ f \notin failing
  <2>1. sock[f] \notin Ports
    BY NamesAssumption
  <2>2. f \notin m_listenerFdSet
    BY <1>4, <2>1 DEF PollInv, PollSetMatchesSockets, ListenersKnown, m_listenerFdSet
  <2>3. QED
    BY <2>1, <2>2
<1>6. QED
  BY <1>5 DEF Reported, ReportHolds, Broken, Readable, Writable

\* Every step keeps the reports true; one step of the proof per action.
LEMMA StepKeepsReports ==
    ASSUME TypeInv, TypeInv', PollInv, ReportsStillTrue, [Next]_vars
    PROVE  ReportsStillTrue'
<1> USE DEF serverVars, clientVars, kernelVars
<1>a. /\ Len(m_fds) \in Nat /\ DOMAIN m_fds = 1 .. Len(m_fds) /\ i \in Nat \ {0}
      /\ m_fds \in Seq(Entries)
  BY LenProperties DEF TypeInv, TypeOK
<1>b. ASSUME Scanning PROVE i \in DOMAIN m_fds /\ InScan
  BY <1>b, ScanningEntry DEF TypeInv, Scanning, InScan
<1>c. ASSUME NEW f
      PROVE  /\ Len(WantWrite(f)) = Len(m_fds)
             /\ \A k \in 1 .. Len(m_fds) : /\ WantWrite(f)[k].fd = m_fds[k].fd
                                           /\ WantWrite(f)[k].revents = m_fds[k].revents
  BY WantWriteProperties DEF TypeInv, TypeOK
<1>d. ASSUME UNCHANGED <<sock, peer, sent, taken, writable>>
      PROVE  \A f : Undisturbed(f)
  BY <1>d DEF Undisturbed
<1>e. ASSUME NextEntry \/ (pc' \in {"cgi", "reject"} /\ i' = i), i \in DOMAIN m_fds,
             Len(m_fds') = Len(m_fds)
      PROVE  Unvisited' = i + 1 .. Len(m_fds)
  BY <1>e, <1>a DEF Unvisited, NextEntry
<1>1. CASE ~InScan'
  BY <1>1 DEF ReportsStillTrue
<1>2. CASE Poll
  BY <1>2, ReportsOfPoll
<1>3. CASE HandlePollError \/ SendRest \/ SendFails \/ ReadFails
  BY <1>3, <1>b, ReportsAfterClose
  DEF HandlePollError, SendRest, SendFails, ReadFails, Writing, Reading, Scanning
<1>4. CASE CloseAfterError
  BY <1>4, ReportsAfterClose DEF CloseAfterError, TypeInv, ThreadAtEntry, IsListener
<1>5. CASE PassOver
  BY <1>5, <1>b, <1>d, <1>e, ReportsBehind DEF PassOver
<1>6. CASE EndAccept
  BY <1>6, <1>d, <1>e, ReportsBehind DEF EndAccept, TypeInv, ThreadAtEntry, InScan
<1>7. CASE SendPart
  <2>1. /\ i \in DOMAIN m_fds /\ InScan /\ NextEntry /\ Fd \in Fds
        /\ writable' = [writable EXCEPT ![sock[Fd]] = FALSE]
        /\ UNCHANGED <<m_fds, sock, peer, sent, taken>>
    BY <1>7, <1>b, EntryType DEF SendPart, Writing, TypeInv
  <2>2. ASSUME NEW f \in Fds, sock[f] \in Conns => sock[f] # sock[Fd]
        PROVE  Undisturbed(f)
    BY <2>1, <2>2 DEF Undisturbed, TypeInv, TypeOK
  <2>3. QED
    BY <1>e, <2>1, <2>2, ReportsBehind
<1>8. CASE ReadIncomplete \/ RouteRequest \/ StartCgi \/ SendError
  <2>1. /\ Receive /\ i \in DOMAIN m_fds /\ InScan /\ Fd \in Fds
        /\ UNCHANGED <<sock, peer, sent, writable>>
    BY <1>8, <1>b, EntryType
    DEF ReadIncomplete, RouteRequest, StartCgi, SendError, ReadComplete, Receive, Reading,
        TypeInv
  <2>2. PICK n : taken' = [taken EXCEPT ![sock[Fd]] = @ + n]
    BY <2>1 DEF Receive
  <2>3. ASSUME NEW f \in Fds, sock[f] \in Conns => sock[f] # sock[Fd]
        PROVE  Undisturbed(f)
    BY <2>1, <2>2, <2>3 DEF Undisturbed, TypeInv, TypeOK
  <2>4. m_fds' = m_fds \/ m_fds' = WantWrite(Fd)
    BY <1>8 DEF ReadIncomplete, RouteRequest, StartCgi, SendError
  <2>5. NextEntry \/ (pc' \in {"cgi", "reject"} /\ i' = i)
    BY <1>8 DEF ReadIncomplete, RouteRequest, StartCgi, SendError
  <2>6. /\ Len(m_fds') = Len(m_fds)
        /\ \A k \in 1 .. Len(m_fds) : /\ m_fds'[k].fd = m_fds[k].fd
                                      /\ m_fds'[k].revents = m_fds[k].revents
    BY <2>4, <1>c
  <2>7. Unvisited' = i + 1 .. Len(m_fds)
    BY <1>e, <2>1, <2>5, <2>6
  <2>8. QED
    BY <2>1, <2>3, <2>6, <2>7, ReportsBehind
<1>9. CASE FinishCgi
  <2>1. /\ i \in DOMAIN m_fds /\ InScan /\ NextEntry /\ m_fds' = WantWrite(Fd)
        /\ UNCHANGED <<sock, peer, sent, taken, writable>>
    BY <1>9 DEF FinishCgi, TypeInv, ThreadAtEntry, InScan
  <2>2. QED
    BY <1>c, <1>d, <1>e, <2>1, ReportsBehind
<1>10. CASE StartAccept \/ AcceptThenDrop
  <2>1. /\ UNCHANGED <<i, m_fds, sock, peer, sent, taken, writable>> /\ InScan
        /\ pc' = "accept"
    BY <1>10 DEF StartAccept, AcceptThenDrop, Scanning, InScan
  <2>2. \A k \in Unvisited' : k \in Unvisited
    <3>1. Unvisited' = i + 1 .. Len(m_fds)
      BY <2>1 DEF Unvisited
    <3>2. \A k \in i + 1 .. Len(m_fds) : k \in i .. Len(m_fds) /\ k \in i + 1 .. Len(m_fds)
      BY <1>a
    <3>3. QED
      BY <3>1, <3>2 DEF Unvisited
  <2>3. QED
    BY <1>d, <2>1, <2>2, ReportsKept
<1>11. CASE Accept
  <2>1. PICK c \in Conns, f \in Fds :
           /\ LowestFree(f) /\ sock' = [sock EXCEPT ![f] = c]
           /\ m_fds' = Append(m_fds, [fd |-> f, events |-> {"IN", "OUT"}, revents |-> {}])
    BY <1>11 DEF Accept
  <2>2. [fd |-> f, events |-> {"IN", "OUT"}, revents |-> {}] \in Entries
    BY DEF Entries
  <2>3. /\ Len(m_fds') = Len(m_fds) + 1 /\ m_fds'[Len(m_fds) + 1].revents = {}
        /\ \A k \in 1 .. Len(m_fds) : m_fds'[k] = m_fds[k]
    <3> DEFINE e == [fd |-> f, events |-> {"IN", "OUT"}, revents |-> {}]
    <3>1. e.revents = {} /\ e \in Entries
      BY <2>2
    <3> HIDE DEF e
    <3>2. QED
      BY <1>a, <2>1, <3>1, AppendProperties DEF e
  <2>4. /\ UNCHANGED <<pc, i, peer, sent, taken, writable>> /\ pc = "accept" /\ InScan
    BY <1>11 DEF Accept, InScan
  <2>5. ASSUME NEW k \in 1 .. Len(m_fds) PROVE Undisturbed(m_fds[k].fd)
    <3>1. m_fds[k] \in Entries /\ k \in DOMAIN m_fds
      BY <1>a, ElementOfSeq
    <3>2. m_fds[k].fd \in Fds
      BY <3>1 DEF Entries
    <3>3. sock[f] = None /\ sock[m_fds[k].fd] # None
      BY <2>1, <3>1, <3>2
      DEF LowestFree, PollInv, PollSetMatchesSockets, EntriesAreOpenSockets
    <3>4. sock'[m_fds[k].fd] = sock[m_fds[k].fd]
      BY <2>1, <3>2, <3>3 DEF TypeInv, TypeOK
    <3>5. QED
      BY <2>4, <3>4 DEF Undisturbed
  <2>6. Unvisited' = i + 1 .. Len(m_fds) + 1 /\ Unvisited = i + 1 .. Len(m_fds)
    BY <2>3, <2>4 DEF Unvisited
  <2>7. \A k \in i + 1 .. Len(m_fds) + 1 :
           k = Len(m_fds) + 1 \/ (k \in 1 .. Len(m_fds) /\ k \in i + 1 .. Len(m_fds))
    BY <1>a
  <2>8. QED
    BY <2>3, <2>4, <2>5, <2>6, <2>7, ReportsKept
<1>12. CASE \E c \in Conns : pc # "down" /\ Client(c)
  <2>1. PICK c \in Conns : Client(c)
    BY <1>12
  <2>2. UNCHANGED <<pc, i, m_fds, sock>>
    BY <2>1 DEF Client, Connect, SendSegment, PeerFin, PeerReset, Drain
  <2>3. ASSUME NEW d \in Conns
        PROVE  /\ peer[d] # "up" => peer'[d] # "up"
               /\ taken[d] < sent[d] => taken'[d] < sent'[d]
               /\ writable[d] => writable'[d]
    <3>1. taken[d] \in Nat /\ sent[d] \in Nat
      BY DEF TypeInv, TypeOK
    <3>2. CASE Connect(c)
      BY <3>2 DEF Connect
    <3>3. CASE SendSegment(c)
      BY <3>1, <3>3 DEF SendSegment, TypeInv, TypeOK
    <3>4. CASE PeerFin(c)
      BY <3>4 DEF PeerFin, TypeInv, TypeOK
    <3>5. CASE PeerReset(c)
      BY <3>5 DEF PeerReset, TypeInv, TypeOK
    <3>6. CASE Drain(c)
      BY <3>6 DEF Drain, TypeInv, TypeOK
    <3>7. QED
      BY <2>1, <3>2, <3>3, <3>4, <3>5, <3>6 DEF Client
  <2>4. \A f : Undisturbed(f)
    BY <2>2, <2>3 DEF Undisturbed
  <2>5. Unvisited' = Unvisited /\ InScan' = InScan
    BY <2>2 DEF Unvisited, InScan
  <2>6. QED
    BY <2>2, <2>4, <2>5, ReportsKept
<1>13. CASE UNCHANGED vars
  BY <1>13 DEF vars, ReportsStillTrue, ReportHolds, InScan, Unvisited
<1>14. CASE SkipSeenPort \/ CreateListener \/ ListenersReady \/ ExitOnFailure \/ EndScan
            \/ SendKillsServer \/ CgiKillsServer \/ RouterThrows
  BY <1>1, <1>14
  DEF SkipSeenPort, CreateListener, ListenersReady, ExitOnFailure, EndScan, SendKillsServer,
      CgiKillsServer, RouterThrows, InScan
<1>15. QED
  BY <1>2, <1>3, <1>4, <1>5, <1>6, <1>7, <1>8, <1>9, <1>10, <1>11, <1>12, <1>13,
     <1>14 DEF Next, Server

\* Whatever is closed, accepted or answered in the course of a scan, what poll
\* reported about a client still holds when the scan gets to its entry.
THEOREM ReportsHold == Spec => []ReportsStillTrue
<1>1. Init => ReportsStillTrue
  BY DEF Init, ReportsStillTrue, InScan
<1>2. TypeInv /\ TypeInv' /\ PollInv /\ ReportsStillTrue /\ [Next]_vars => ReportsStillTrue'
  BY StepKeepsReports
<1>3. QED
  BY <1>1, <1>2, PollInvariant, PTL DEF Spec

-----------------------------------------------------------------------------
(***************************************************************************)
(* Runs of pieces: the pieces behind the first a of the response to        *)
(* request 1, in order.                                                    *)
(***************************************************************************)
InOrderFrom(s, a) == \A k \in DOMAIN s : s[k].part = a + k /\ s[k].request = 1

LEMMA ConcatInOrder ==
    ASSUME NEW s \in Seq(Pieces), NEW t \in Seq(Pieces),
           InOrderFrom(s, 0), InOrderFrom(t, Len(s))
    PROVE  InOrderFrom(s \o t, 0) /\ Len(s \o t) = Len(s) + Len(t)
<1>1. /\ DOMAIN s = 1 .. Len(s) /\ Len(s) \in Nat
      /\ DOMAIN t = 1 .. Len(t) /\ Len(t) \in Nat
  BY LenProperties
<1>2. /\ Len(s \o t) = Len(s) + Len(t)
      /\ DOMAIN (s \o t) = 1 .. Len(s) + Len(t)
      /\ \A k \in 1 .. Len(s) + Len(t) :
            (s \o t)[k] = IF k <= Len(s) THEN s[k] ELSE t[k - Len(s)]
  BY ConcatProperties, LenProperties
<1>3. \A k \in 1 .. Len(s) + Len(t) :
         \/ k \in 1 .. Len(s) /\ (s \o t)[k] = s[k]
         \/ /\ k - Len(s) \in 1 .. Len(t) /\ (s \o t)[k] = t[k - Len(s)]
            /\ Len(s) + (k - Len(s)) = 0 + k
  BY <1>1, <1>2
<1>4. ASSUME NEW k \in 1 .. Len(s) + Len(t)
      PROVE  (s \o t)[k].part = 0 + k /\ (s \o t)[k].request = 1
  <2>1. CASE k \in 1 .. Len(s) /\ (s \o t)[k] = s[k]
    BY <1>1, <2>1 DEF InOrderFrom
  <2>2. CASE /\ k - Len(s) \in 1 .. Len(t) /\ (s \o t)[k] = t[k - Len(s)]
             /\ Len(s) + (k - Len(s)) = 0 + k
    <3>1. t[k - Len(s)].part = Len(s) + (k - Len(s)) /\ t[k - Len(s)].request = 1
      BY <1>1, <2>2 DEF InOrderFrom
    <3>2. QED
      BY <2>2, <3>1
  <2>3. QED
    BY <1>3, <2>1, <2>2
<1>5. QED
  BY <1>2, <1>4 DEF InOrderFrom

\* The front that send() took, and the rest that it left.
LEMMA PartsInOrder ==
    ASSUME NEW s \in Seq(Pieces), NEW a \in Nat, InOrderFrom(s, a), NEW n \in 1 .. Len(s) - 1
    PROVE  /\ SubSeq(s, 1, n) \in Seq(Pieces) /\ Len(SubSeq(s, 1, n)) = n
           /\ InOrderFrom(SubSeq(s, 1, n), a)
           /\ Unsent(s, n) \in Seq(Pieces) /\ Len(Unsent(s, n)) = Len(s) - n
           /\ InOrderFrom(Unsent(s, n), a + n)
<1>1. DOMAIN s = 1 .. Len(s) /\ Len(s) \in Nat /\ \A k \in 1 .. Len(s) : s[k] \in Pieces
  BY LenProperties, ElementOfSeq
<1> DEFINE front == SubSeq(s, 1, n)
           rest  == SubSeq(s, n + 1, Len(s))
<1>2. /\ front \in Seq(Pieces) /\ Len(front) = n /\ DOMAIN front = 1 .. n
      /\ \A k \in 1 .. n : front[k] = s[k] /\ k \in 1 .. Len(s)
  <2>1. /\ 1 \in Int /\ n \in Int /\ \A k \in 1 .. n : k \in 1 .. Len(s)
        /\ (IF 1 <= n THEN n - 1 + 1 ELSE 0) = n /\ n - 1 + 1 = n
        /\ \A k \in 1 .. n : 1 + k - 1 = k
    BY <1>1
  <2>2. QED
    BY <1>1, <2>1, SubSeqProperties, LenProperties
<1>3. /\ rest \in Seq(Pieces) /\ Len(rest) = Len(s) - n /\ DOMAIN rest = 1 .. Len(s) - n
      /\ \A k \in 1 .. Len(s) - n : rest[k] = s[n + k] /\ n + k \in 1 .. Len(s)
  <2>1. /\ n + 1 \in Int /\ Len(s) \in Int /\ \A k \in n + 1 .. Len(s) : k \in 1 .. Len(s)
        /\ (IF n + 1 <= Len(s) THEN Len(s) - (n + 1) + 1 ELSE 0) = Len(s) - n
        /\ Len(s) - (n + 1) + 1 = Len(s) - n
        /\ \A k \in 1 .. Len(s) - n : n + 1 + k - 1 = n + k /\ n + k \in 1 .. Len(s)
    BY <1>1
  <2>2. QED
    BY <1>1, <2>1, SubSeqProperties, LenProperties
<1> HIDE DEF front, rest
<1>4. InOrderFrom(front, a)
  BY <1>1, <1>2 DEF InOrderFrom
<1>5. InOrderFrom(rest, a + n)
  <2>1. ASSUME NEW k \in 1 .. Len(s) - n
        PROVE  rest[k].part = (a + n) + k /\ rest[k].request = 1
    <3>1. a + (n + k) = (a + n) + k
      BY <1>1
    <3>2. s[n + k].part = a + (n + k) /\ s[n + k].request = 1
      BY <1>1, <1>3 DEF InOrderFrom
    <3>3. QED
      BY <1>3, <3>1, <3>2
  <2>2. QED
    BY <1>3, <2>1 DEF InOrderFrom
<1>6. QED
  BY <1>2, <1>3, <1>4, <1>5 DEF front, rest, Unsent

LEMMA ResponseInOrder ==
    ASSUME NEW c, NEW announced, NEW server
    PROVE  LET r == Response(c, 1, announced, server)
           IN  Len(r) = RespLen /\ r # <<>> /\ InOrderFrom(r, 0)
<1> DEFINE r == Response(c, 1, announced, server)
<1>1. RespLen \in Nat \ {0}
  BY RespLenAssumption
<1>2. DOMAIN r = 1 .. RespLen /\ InOrderFrom(r, 0)
  BY <1>1 DEF Response, InOrderFrom
<1>3. \A k \in 1 .. RespLen : r[k] \in {r[j] : j \in 1 .. RespLen}
  OBVIOUS
<1>4. r \in Seq({r[j] : j \in 1 .. RespLen}) /\ Len(r) = RespLen
  <2>1. r \in [1 .. RespLen -> {r[j] : j \in 1 .. RespLen}]
    BY <1>3 DEF Response
  <2> HIDE DEF r
  <2>2. QED
    BY <1>1, <2>1
<1>5. r # <<>>
  <2> HIDE DEF r
  <2>1. QED
    BY <1>1, <1>4, EmptySeq
<1>6. QED
  BY <1>2, <1>4, <1>5

-----------------------------------------------------------------------------
(***************************************************************************)
(* One request per connection.  The inductive invariant says how far the   *)
(* request of a connection is, from what was executed, read, queued and    *)
(* sent.  The code does not check any of it: it holds because the request  *)
(* stays complete in m_inbuf, nothing more arrives to be appended to it,   *)
(* and the last piece of the response closes the connection.               *)
(***************************************************************************)
OneRequestEach == \A s \in Scripts : Len(s) = 1
NoneRejected   == \A s \in Scripts : \A r \in DOMAIN s : s[r].kind # "reject"

ClientProgress(c) ==
    /\ taken[c] <= sent[c] /\ sent[c] <= 2
    /\ executed[c] \in {<<>>, << 1 >>}
    /\ executed[c] = <<>> => got[c] = <<>>
    /\ InOrderFrom(got[c], 0)
    /\ link[c] \in {"none", "queued"} => executed[c] = <<>> /\ taken[c] = 0

\* All that was received is in the buffer; a response is there only if it is
\* one of sendError, which is about to be thrown away.
Unserved(f) ==
    /\ Len(m_inbuf[f]) = taken[sock[f]]
    /\ m_outbuf[f] = <<>> \/ (pc = "reject" /\ f = Fd)

AtScript(f) == got[sock[f]] = <<>> /\ Len(m_inbuf[f]) = 2

\* What the client got and what is queued make up the response.
UnderWay(f) ==
    /\ m_outbuf[f] # <<>>
    /\ Len(got[sock[f]]) + Len(m_outbuf[f]) = RespLen
    /\ InOrderFrom(m_outbuf[f], Len(got[sock[f]]))

DescriptorProgress(f) ==
    sock[f] \in Conns =>
        IF executed[sock[f]] = <<>> THEN Unserved(f)
        ELSE /\ taken[sock[f]] = 2
             /\ IF pc = "cgi" /\ f = Fd THEN AtScript(f) ELSE UnderWay(f)

ExchangeInv ==
    /\ \A c \in Conns : ClientProgress(c)
    /\ pc # "down" => \A f \in Fds : DescriptorProgress(f)
    /\ pc = "cgi" => executed[sock[Fd]] # <<>>

\* The invariants it builds on.
BaseInv == TypeInv /\ PollInv /\ InputOwned /\ OutputOwned

LEMMA ClientsKept ==
    ASSUME ExchangeInv, UNCHANGED <<taken, sent, executed, got>>,
           \A c \in Conns : link'[c] \in {"none", "queued"} => link[c] \in {"none", "queued"}
    PROVE  \A c \in Conns : ClientProgress(c)'
  BY DEF ExchangeInv, ClientProgress

\* A descriptor whose connection and buffers a step leaves alone.
LEMMA DescriptorKept ==
    ASSUME ExchangeInv, pc # "down", NEW f \in Fds, sock[f] \in Conns => sock'[f] = sock[f],
           sock'[f] \in Conns => sock[f] \in Conns,
           m_inbuf'[f] = m_inbuf[f], m_outbuf'[f] = m_outbuf[f],
           sock[f] \in Conns => /\ executed'[sock[f]] = executed[sock[f]]
                                /\ got'[sock[f]] = got[sock[f]]
                                /\ taken'[sock[f]] = taken[sock[f]],
           (pc = "cgi" /\ f = Fd) <=> (pc' = "cgi" /\ f = Fd'),
           (pc = "reject" /\ f = Fd) => (pc' = "reject" /\ f = Fd')
    PROVE  DescriptorProgress(f)'
<1> SUFFICES ASSUME sock'[f] \in Conns PROVE DescriptorProgress(f)'
  BY DEF DescriptorProgress
<1>1. sock[f] \in Conns /\ sock'[f] = sock[f] /\ DescriptorProgress(f)
  BY DEF ExchangeInv
<1>2. QED
  BY <1>1 DEF DescriptorProgress, Unserved, AtScript, UnderWay

\* Steps that leave all data alone, outside of a CGI and of sendError.
LEMMA AllKept ==
    ASSUME ExchangeInv, UNCHANGED <<taken, sent, executed, got, m_inbuf, m_outbuf>>,
           \A f \in Fds : sock[f] \in Conns \/ sock'[f] \in Conns => sock'[f] = sock[f],
           \A c \in Conns : link'[c] \in {"none", "queued"} => link[c] \in {"none", "queued"},
           pc \notin {"cgi", "reject", "down"}, pc' \notin {"cgi", "reject"}
    PROVE  ExchangeInv'
<1>1. \A c \in Conns : ClientProgress(c)'
  BY ClientsKept
<1>2. ASSUME NEW f \in Fds PROVE DescriptorProgress(f)'
  BY DescriptorKept
<1>3. QED
  BY <1>1, <1>2 DEF ExchangeInv

\* The end of the process.
LEMMA DownKept ==
    ASSUME ExchangeInv, pc' = "down", UNCHANGED <<taken, sent, executed, got, link>>
    PROVE  ExchangeInv'
  BY ClientsKept DEF ExchangeInv

\* Who holds what is not the entry's is not concerned by what happens there.
LEMMA CloseProgress ==
    ASSUME BaseInv, ExchangeInv, i \in DOMAIN m_fds, ~IsListener, pc \in {"scan", "reject"},
           CloseClientConnection, got' \in [Conns -> Seq(Pieces)],
           \A d \in Conns \ {sock[Fd]} : got'[d] = got[d],
           InOrderFrom(got'[sock[Fd]], 0),
           executed[sock[Fd]] = <<>> => got'[sock[Fd]] = <<>>
    PROVE  ExchangeInv'
<1>1. sock[Fd] \in Conns /\ Fd \in Fds
  BY ClientEntry DEF BaseInv, PollInv, TypeInv
<1>2. /\ \A f \in Fds : sock'[f] = IF f = Fd THEN None ELSE sock[f]
      /\ \A f \in Fds \ {Fd} : m_inbuf'[f] = m_inbuf[f] /\ m_outbuf'[f] = m_outbuf[f]
      /\ \A c \in Conns : link'[c] = IF c = sock[Fd] THEN "closed" ELSE link[c]
      /\ UNCHANGED <<taken, sent, executed>> /\ pc' = "scan"
  BY <1>1 DEF CloseClientConnection, ForgetClient, BaseInv, TypeInv, TypeOK, clientVars
<1>3. ASSUME NEW c \in Conns PROVE ClientProgress(c)'
  <2>1. ClientProgress(c)
    BY DEF ExchangeInv
  <2>2. CASE c = sock[Fd]
    BY <1>2, <2>1, <2>2 DEF ClientProgress
  <2>3. CASE c # sock[Fd]
    BY <1>2, <2>1, <2>3 DEF ClientProgress
  <2>4. QED
    BY <2>2, <2>3
<1>4. ASSUME NEW f \in Fds PROVE DescriptorProgress(f)'
  <2>1. CASE f = Fd
    BY <1>2, <2>1, NamesAssumption DEF DescriptorProgress
  <2>2. CASE f # Fd
    <3>1. sock[f] \in Conns => sock[f] # sock[Fd]
      BY <1>1, <2>2 DEF BaseInv, PollInv, PollSetMatchesSockets, ClientsKnown
    <3>2. QED
      BY <1>2, <2>2, <3>1, DescriptorKept
  <2>3. QED
    BY <2>1, <2>2
<1>5. QED
  BY <1>2, <1>3, <1>4 DEF ExchangeInv

\* A step that concerns the entry's descriptor f and its connection c only.
LEMMA EntryProgress ==
    ASSUME BaseInv, ExchangeInv, pc # "down",
           NEW f \in Fds, f = Fd, NEW c \in Conns, c = sock[f],
           UNCHANGED <<sock, link, sent>>,
           \A d \in Conns \ {c} : /\ taken'[d] = taken[d] /\ got'[d] = got[d]
                                  /\ executed'[d] = executed[d],
           \A g \in Fds \ {f} : m_inbuf'[g] = m_inbuf[g] /\ m_outbuf'[g] = m_outbuf[g],
           pc' = "scan" \/ (pc' \in {"cgi", "reject"} /\ Fd' = f),
           ClientProgress(c)', DescriptorProgress(f)',
           pc' = "cgi" => executed'[c] # <<>>
    PROVE  ExchangeInv'
<1>1. ASSUME NEW d \in Conns PROVE ClientProgress(d)'
  <2>1. CASE d # c
    BY <2>1 DEF ExchangeInv, ClientProgress
  <2>2. QED
    BY <2>1
<1>2. ASSUME NEW g \in Fds PROVE DescriptorProgress(g)'
  <2>1. CASE g # f
    <3>1. sock[g] \in Conns => sock[g] # c
      BY <2>1 DEF BaseInv, PollInv, PollSetMatchesSockets, ClientsKnown
    <3>2. QED
      BY <2>1, <3>1, DescriptorKept
  <2>2. QED
    BY <2>1
<1>3. QED
  BY <1>1, <1>2 DEF ExchangeInv

\* What recv() finds and leaves: a request that was not carried out, of which
\* the buffer now holds all that was received, from its head on.
LEMMA ReceiveProgress ==
    ASSUME BaseInv, ExchangeInv, pc # "down", Receive, UNCHANGED <<sock, sent>>,
           NEW f \in Fds, f = Fd, NEW c \in Conns, c = sock[f]
    PROVE  /\ executed[c] = <<>> /\ got[c] = <<>>
           /\ m_outbuf[f] = <<>> \/ pc = "reject"
           /\ taken'[c] <= sent[c]
           /\ Len(m_inbuf'[f]) = taken'[c]
           /\ m_inbuf'[f][1][1] = c /\ RequestAt(m_inbuf'[f]) = 1
           /\ StartsWithHead(m_inbuf'[f])
           /\ TRUE \in Completeness(m_inbuf'[f]) => taken'[c] = 2
           /\ \A d \in Conns \ {c} : taken'[d] = taken[d]
           /\ \A g \in Fds \ {f} : m_inbuf'[g] = m_inbuf[g]
<1>1. /\ ClientProgress(c) /\ DescriptorProgress(f)
      /\ taken[c] \in Nat /\ sent[c] \in Nat /\ m_inbuf[f] \in Seq(Segments)
  BY DEF ExchangeInv, BaseInv, TypeInv, TypeOK
<1>2. PICK n \in 1 .. Unread(sock[Fd]) :
         /\ taken' = [taken EXCEPT ![sock[Fd]] = @ + n]
         /\ m_inbuf' = [m_inbuf EXCEPT ![Fd] =
               @ \o [k \in 1 .. n |-> <<sock[Fd], taken[sock[Fd]] + k>>]]
  BY DEF Receive
<1>3. n \in Nat /\ n >= 1 /\ taken[c] + n <= sent[c] /\ sent[c] <= 2
  BY <1>1, <1>2 DEF Unread, ClientProgress
<1>4. executed[c] = <<>>
  <2>1. taken[c] # 2
    BY <1>1, <1>3
  <2>2. QED
    BY <1>1, <2>1 DEF DescriptorProgress
<1>5. got[c] = <<>> /\ (m_outbuf[f] = <<>> \/ pc = "reject") /\ Len(m_inbuf[f]) = taken[c]
  BY <1>1, <1>4 DEF ClientProgress, DescriptorProgress, Unserved
<1>6. /\ \A d \in Conns : taken'[d] = IF d = c THEN taken[c] + n ELSE taken[d]
      /\ \A g \in Fds \ {f} : m_inbuf'[g] = m_inbuf[g]
  BY <1>2 DEF BaseInv, TypeInv, TypeOK
<1>7. /\ InputOwned' /\ m_inbuf' \in [Fds -> Seq(Segments)] /\ m_inbuf'[f] # <<>>
  BY ReceiveOwned, ReceiveTyped DEF BaseInv, PollInv, TypeInv
<1>8. Len(m_inbuf'[f]) = taken'[c]
  <2> DEFINE more == [k \in 1 .. n |-> <<sock[Fd], taken[sock[Fd]] + k>>]
  <2>1. more \in Seq(Segments) /\ Len(more) = n
    <3>1. \A k \in 1 .. n : <<sock[Fd], taken[sock[Fd]] + k>> \in Segments
      BY <1>1 DEF Segments
    <3>2. more \in [1 .. n -> Segments]
      BY <3>1
    <3>3. QED
      BY <1>3, <3>2
  <2>2. m_inbuf'[f] = m_inbuf[f] \o more
    BY <1>2 DEF BaseInv, TypeInv, TypeOK
  <2> HIDE DEF more
  <2>3. Len(m_inbuf'[f]) = Len(m_inbuf[f]) + n
    BY <1>1, <2>1, <2>2, ConcatProperties
  <2>4. QED
    BY <1>5, <1>6, <2>3
<1>9. m_inbuf'[f][1] = <<c, 1>>
  <2>1. OwnInput(m_inbuf'[f], c, taken'[c])
    BY <1>7 DEF InputOwned
  <2>2. 1 \in DOMAIN m_inbuf'[f]
    BY <1>7, LenProperties, EmptySeq
  <2>3. taken'[c] - Len(m_inbuf'[f]) + 1 = 1
    BY <1>1, <1>3, <1>6, <1>8
  <2>4. QED
    BY <2>1, <2>2, <2>3 DEF OwnInput
<1>10. /\ m_inbuf'[f][1][1] = c /\ RequestAt(m_inbuf'[f]) = 1
       /\ StartsWithHead(m_inbuf'[f])
  BY <1>9 DEF RequestAt, StartsWithHead
<1>11. TRUE \in Completeness(m_inbuf'[f]) => taken'[c] = 2
  <2>1. Completeness(m_inbuf'[f]) = {Len(m_inbuf'[f]) >= 2}
    BY <1>10 DEF Completeness
  <2>2. TRUE \in Completeness(m_inbuf'[f]) => Len(m_inbuf'[f]) >= 2
    BY <2>1, Zenon
  <2>3. QED
    BY <1>1, <1>3, <1>6, <1>8, <2>2
<1>12. QED
  BY <1>1, <1>3, <1>4, <1>5, <1>6, <1>8, <1>10, <1>11

\* A descriptor is opened: for a connection that has had nothing yet.
LEMMA OpenProgress ==
    ASSUME BaseInv, ExchangeInv, NEW f \in Fds, NEW s, sock[f] = None,
           sock' = [sock EXCEPT ![f] = s], s \in Conns => link[s] = "queued",
           UNCHANGED <<taken, sent, executed, got, m_inbuf, m_outbuf>>,
           \A c \in Conns : link'[c] \in {"none", "queued"} => link[c] \in {"none", "queued"},
           pc \notin {"cgi", "reject", "down"}, pc' \notin {"cgi", "reject"}
    PROVE  ExchangeInv'
<1>1. \A g \in Fds : sock'[g] = IF g = f THEN s ELSE sock[g]
  BY DEF BaseInv, TypeInv, TypeOK
<1>2. m_inbuf[f] = <<>> /\ m_outbuf[f] = <<>>
  BY NamesAssumption DEF BaseInv, InputOwned, OutputOwned
<1>3. ASSUME NEW g \in Fds PROVE DescriptorProgress(g)'
  <2>1. CASE g = f
    <3>1. s \in Conns => executed[s] = <<>> /\ taken[s] = 0
      BY DEF ExchangeInv, ClientProgress
    <3>2. QED
      BY <1>1, <1>2, <2>1, <3>1 DEF DescriptorProgress, Unserved
  <2>2. CASE g # f
    BY <1>1, <2>2, DescriptorKept
  <2>3. QED
    BY <2>1, <2>2
<1>4. QED
  BY <1>3, ClientsKept DEF ExchangeInv

\* What handleClientRead makes of the bytes it received.
LEMMA ReadProgress ==
    ASSUME BaseInv, BaseInv', ExchangeInv,
           ReadIncomplete \/ RouteRequest \/ StartCgi \/ SendError
    PROVE  ExchangeInv'
<1> USE DEF kernelVars, clientVars
<1>1. /\ Receive /\ pc = "scan" /\ Scanning /\ ~IsListener
      /\ UNCHANGED <<sock, sent, link, got>>
  BY DEF ReadIncomplete, RouteRequest, StartCgi, SendError, ReadComplete, Receive, Reading,
         Scanning
<1>2. Fd \in Fds /\ sock[Fd] \in Conns
  BY <1>1, ReceiveOwned DEF BaseInv
<1>3. PICK f0 \in Fds, c0 \in Conns : f0 = Fd /\ c0 = sock[f0]
  BY <1>2
<1>4. /\ executed[c0] = <<>> /\ got[c0] = <<>> /\ m_outbuf[f0] = <<>>
      /\ taken'[c0] <= sent[c0] /\ Len(m_inbuf'[f0]) = taken'[c0]
      /\ m_inbuf'[f0][1][1] = c0 /\ RequestAt(m_inbuf'[f0]) = 1
      /\ TRUE \in Completeness(m_inbuf'[f0]) => taken'[c0] = 2
      /\ \A d \in Conns \ {c0} : taken'[d] = taken[d]
      /\ \A g \in Fds \ {f0} : m_inbuf'[g] = m_inbuf[g]
  BY <1>1, <1>3, ReceiveProgress
<1>5. ClientProgress(c0) /\ link[c0] = "open"
  BY <1>3 DEF ExchangeInv, BaseInv, PollInv, PollSetMatchesSockets, ClientsKnown
<1>6. CASE ReadIncomplete \/ SendError
  <2>1. /\ UNCHANGED executed
        /\ \A g \in Fds \ {f0} : m_outbuf'[g] = m_outbuf[g]
        /\ \/ pc' = "scan" /\ UNCHANGED m_outbuf
           \/ pc' = "reject" /\ Fd' = f0
    <3>1. CASE ReadIncomplete
      BY <3>1 DEF ReadIncomplete, NextEntry
    <3>2. CASE SendError
      <4>1. UNCHANGED <<executed, i>> /\ pc' = "reject" /\ m_fds' = WantWrite(Fd)
        BY <3>2 DEF SendError
      <4>2. \A g \in Fds \ {f0} : m_outbuf'[g] = m_outbuf[g]
        BY <1>3, <3>2 DEF SendError, BaseInv, TypeInv, TypeOK
      <4>3. Fd' = Fd
        BY <1>1, <4>1, ScanningEntry, EntryType, WantWriteProperties
        DEF Fd, BaseInv, TypeInv, TypeOK
      <4>4. QED
        BY <1>3, <4>1, <4>2, <4>3
    <3>3. QED
      BY <1>6, <3>1, <3>2
  <2>2. ClientProgress(c0)'
    BY <1>1, <1>4, <1>5, <2>1 DEF ClientProgress
  <2>3. DescriptorProgress(f0)'
    BY <1>1, <1>3, <1>4, <2>1 DEF DescriptorProgress, Unserved
  <2>4. QED
    BY <1>1, <1>3, <1>4, <2>1, <2>2, <2>3, EntryProgress
<1>7. CASE RouteRequest \/ StartCgi
  <2>1. /\ taken'[c0] = 2
        /\ executed' = [executed EXCEPT ![c0] = Append(@, 1)]
    BY <1>3, <1>4, <1>7 DEF RouteRequest, StartCgi, ReadComplete, Execute
  <2>2. /\ executed'[c0] = << 1 >> /\ executed'[c0] # <<>>
        /\ \A d \in Conns \ {c0} : executed'[d] = executed[d]
    BY <1>4, <2>1 DEF BaseInv, TypeInv, TypeOK
  <2>3. ClientProgress(c0)'
    BY <1>1, <1>4, <1>5, <2>2 DEF ClientProgress
  <2>4. CASE StartCgi
    <3>1. /\ pc' = "cgi" /\ UNCHANGED <<m_outbuf, m_fds, i>>
      BY <2>4 DEF StartCgi
    <3>2. Fd' = f0
      BY <1>3, <3>1 DEF Fd
    <3>3. DescriptorProgress(f0)'
      BY <1>1, <1>3, <1>4, <2>1, <2>2, <3>1, <3>2 DEF DescriptorProgress, AtScript
    <3>4. QED
      BY <1>1, <1>3, <1>4, <2>2, <2>3, <3>1, <3>2, <3>3, EntryProgress
  <2>5. CASE RouteRequest
    <3>1. /\ pc' = "scan"
          /\ m_outbuf' = [m_outbuf EXCEPT ![f0] = RoutedResponse(f0, m_inbuf'[f0])]
      BY <1>3, <2>5 DEF RouteRequest, NextEntry
    <3>2. /\ m_outbuf'[f0] = RoutedResponse(f0, m_inbuf'[f0])
          /\ \A g \in Fds \ {f0} : m_outbuf'[g] = m_outbuf[g]
      BY <3>1 DEF BaseInv, TypeInv, TypeOK
    <3>3. /\ m_outbuf'[f0] # <<>> /\ Len(m_outbuf'[f0]) = RespLen
          /\ InOrderFrom(m_outbuf'[f0], 0)
      BY <1>4, <3>2, ResponseInOrder DEF RoutedResponse
    <3>4. UnderWay(f0)'
      BY <1>1, <1>3, <1>4, <3>3, RespLenAssumption DEF UnderWay
    <3>5. DescriptorProgress(f0)'
      BY <1>1, <1>3, <2>1, <2>2, <3>1, <3>4 DEF DescriptorProgress
    <3>6. QED
      BY <1>1, <1>3, <1>4, <2>2, <2>3, <3>1, <3>2, <3>5, EntryProgress
  <2>6. QED
    BY <1>7, <2>4, <2>5
<1>8. QED
  BY <1>6, <1>7

\* What send() finds: the response is under way, and so far in order.
LEMMA SendProgress ==
    ASSUME BaseInv, ExchangeInv, Writing, NEW f \in Fds, f = Fd, NEW c \in Conns, c = sock[f]
    PROVE  /\ executed[c] # <<>> /\ taken[c] = 2 /\ ClientProgress(c) /\ UnderWay(f)
           /\ InOrderFrom(got[c], 0) /\ got[c] \in Seq(Pieces)
           /\ m_outbuf[f] \in Seq(Pieces) /\ link[c] = "open"
           /\ Len(got[c]) + Len(m_outbuf[f]) = RespLen
<1>1. DescriptorProgress(f) /\ ClientProgress(c) /\ m_outbuf[f] # <<>> /\ pc = "scan"
  BY DEF ExchangeInv, Writing, MayWrite, Scanning
<1>2. executed[c] # <<>>
  BY <1>1 DEF DescriptorProgress, Unserved
<1>3. UnderWay(f) /\ taken[c] = 2
  BY <1>1, <1>2 DEF DescriptorProgress
<1>4. Len(got[c]) + Len(m_outbuf[f]) = RespLen
  BY <1>3 DEF UnderWay
<1>5. QED
  BY <1>1, <1>2, <1>3, <1>4
  DEF ClientProgress, BaseInv, TypeInv, TypeOK, PollInv, PollSetMatchesSockets, ClientsKnown

LEMMA SendPartProgress ==
    ASSUME BaseInv, ExchangeInv, SendPart
    PROVE  /\ ExchangeInv'
           /\ Len(got[sock[Fd]]) < Len(got'[sock[Fd]]) /\ Len(got'[sock[Fd]]) < RespLen
<1> USE DEF kernelVars, clientVars
<1>1. /\ Writing /\ pc = "scan" /\ pc' = "scan"
      /\ UNCHANGED <<sock, link, sent, taken, executed, m_inbuf>>
  BY DEF SendPart, Writing, Scanning, NextEntry
<1>2. Fd \in Fds /\ sock[Fd] \in Conns
  BY <1>1, ScanningEntry, ClientEntry DEF Writing, BaseInv, PollInv, TypeInv
<1>3. PICK f \in Fds, c \in Conns : f = Fd /\ c = sock[f]
  BY <1>2
<1>4. /\ executed[c] # <<>> /\ taken[c] = 2 /\ ClientProgress(c) /\ UnderWay(f)
      /\ InOrderFrom(got[c], 0) /\ got[c] \in Seq(Pieces)
      /\ m_outbuf[f] \in Seq(Pieces) /\ link[c] = "open"
      /\ Len(got[c]) + Len(m_outbuf[f]) = RespLen
  BY <1>1, <1>3, SendProgress
<1>5. PICK n \in 1 .. Len(m_outbuf[f]) - 1 :
         /\ got' = [got EXCEPT ![c] = @ \o SubSeq(m_outbuf[f], 1, n)]
         /\ m_outbuf' = [m_outbuf EXCEPT ![f] = Unsent(@, n)]
  BY <1>3 DEF SendPart
<1> DEFINE front == SubSeq(m_outbuf[f], 1, n)
           rest  == Unsent(m_outbuf[f], n)
<1>6. /\ got'[c] = got[c] \o front /\ m_outbuf'[f] = rest
      /\ \A d \in Conns \ {c} : got'[d] = got[d]
      /\ \A g \in Fds \ {f} : m_outbuf'[g] = m_outbuf[g]
  BY <1>5 DEF BaseInv, TypeInv, TypeOK
<1>7. Len(got[c]) \in Nat /\ Len(m_outbuf[f]) \in Nat /\ n \in Nat
  BY <1>4, LenProperties
<1>8. /\ front \in Seq(Pieces) /\ Len(front) = n /\ InOrderFrom(front, Len(got[c]))
      /\ rest \in Seq(Pieces) /\ Len(rest) = Len(m_outbuf[f]) - n
      /\ InOrderFrom(rest, Len(got[c]) + n)
  BY <1>3, <1>4, <1>7, PartsInOrder DEF UnderWay
<1> HIDE DEF front, rest
<1>9. InOrderFrom(got[c] \o front, 0) /\ Len(got[c] \o front) = Len(got[c]) + n
  BY <1>4, <1>8, ConcatInOrder
<1>10. ClientProgress(c)'
  BY <1>1, <1>4, <1>6, <1>9 DEF ClientProgress
<1>11. UnderWay(f)'
  <2>1. Len(got'[c]) + Len(m_outbuf'[f]) = RespLen
    <3>1. Len(got[c]) + Len(m_outbuf[f]) = RespLen
      BY <1>4
    <3>2. Len(got'[c]) = Len(got[c]) + n /\ Len(m_outbuf'[f]) = Len(m_outbuf[f]) - n
      BY <1>6, <1>8, <1>9
    <3> DEFINE a == Len(got[c])
               b == Len(m_outbuf[f])
    <3>3. a \in Nat /\ b \in Nat /\ a + b = RespLen
      BY <1>7, <3>1
    <3> HIDE DEF a, b
    <3>4. (a + n) + (b - n) = RespLen
      BY <1>7, <3>3
    <3>5. QED
      BY <3>2, <3>4 DEF a, b
  <2>2. rest # <<>>
    BY <1>7, <1>8, EmptySeq
  <2>3. InOrderFrom(m_outbuf'[f], Len(got'[c]))
    BY <1>6, <1>8, <1>9
  <2>4. QED
    BY <1>1, <1>3, <1>6, <2>1, <2>2, <2>3 DEF UnderWay
<1>12. DescriptorProgress(f)'
  BY <1>1, <1>3, <1>4, <1>11 DEF DescriptorProgress
<1>13. Len(got[c]) < Len(got'[c]) /\ Len(got'[c]) < RespLen
  <2>1. /\ Len(got[c]) + Len(m_outbuf[f]) = RespLen
        /\ Len(got'[c]) = Len(got[c]) + n
        /\ n \in 1 .. Len(m_outbuf[f]) - 1
    BY <1>4, <1>6, <1>9
  <2> DEFINE a == Len(got[c])
             b == Len(m_outbuf[f])
  <2>2. a \in Nat /\ b \in Nat /\ a + b = RespLen /\ n \in 1 .. b - 1
    BY <1>7, <2>1
  <2> HIDE DEF a, b
  <2>3. a < a + n /\ a + n < RespLen
    BY <2>2
  <2>4. QED
    BY <2>1, <2>3 DEF a
<1>14. QED
  BY <1>1, <1>3, <1>6, <1>10, <1>12, <1>13, EntryProgress

LEMMA SendRestProgress ==
    ASSUME BaseInv, BaseInv', ExchangeInv, SendRest
    PROVE  /\ ExchangeInv'
           /\ executed[sock[Fd]] = << 1 >> /\ Len(got'[sock[Fd]]) = RespLen
           /\ Len(got[sock[Fd]]) < RespLen
<1>1. /\ Writing /\ pc = "scan" /\ CloseClientConnection /\ ~IsListener
      /\ i \in DOMAIN m_fds
  BY ScanningEntry DEF SendRest, Writing, Scanning, BaseInv, TypeInv
<1>2. Fd \in Fds /\ sock[Fd] \in Conns
  BY <1>1, ClientEntry DEF BaseInv, PollInv, TypeInv
<1>3. PICK f \in Fds, c \in Conns : f = Fd /\ c = sock[f]
  BY <1>2
<1>4. /\ executed[c] # <<>> /\ ClientProgress(c) /\ UnderWay(f)
      /\ InOrderFrom(got[c], 0) /\ got[c] \in Seq(Pieces) /\ m_outbuf[f] \in Seq(Pieces)
      /\ Len(got[c]) + Len(m_outbuf[f]) = RespLen
  BY <1>1, <1>3, SendProgress
<1>5. /\ got'[c] = got[c] \o m_outbuf[f] /\ \A d \in Conns \ {c} : got'[d] = got[d]
      /\ got' \in [Conns -> Seq(Pieces)]
  BY <1>3 DEF SendRest, BaseInv, TypeInv, TypeOK
<1>6. /\ InOrderFrom(got'[c], 0)
      /\ Len(got'[c]) = Len(got[c]) + Len(m_outbuf[f])
  BY <1>3, <1>4, <1>5, ConcatInOrder DEF UnderWay
<1>7. Len(got'[c]) = RespLen /\ Len(got[c]) < RespLen
  <2>1. Len(got[c]) \in Nat /\ Len(m_outbuf[f]) \in Nat /\ Len(m_outbuf[f]) # 0
    BY <1>4, LenProperties, EmptySeq DEF UnderWay
  <2>2. Len(got[c]) + Len(m_outbuf[f]) = RespLen
    BY <1>4
  <2>3. Len(got'[c]) = Len(got[c]) + Len(m_outbuf[f])
    BY <1>6
  <2> DEFINE a == Len(got[c])
             b == Len(m_outbuf[f])
  <2>4. a \in Nat /\ b \in Nat /\ b # 0 /\ a + b = RespLen
    BY <2>1, <2>2
  <2> HIDE DEF a, b
  <2>5. a < RespLen
    BY <2>4
  <2>6. QED
    BY <2>2, <2>3, <2>5 DEF a
<1>8. executed[c] = << 1 >>
  BY <1>4 DEF ClientProgress
<1>9. ExchangeInv'
  BY <1>1, <1>3, <1>4, <1>5, <1>6, CloseProgress
<1>10. QED
  BY <1>3, <1>7, <1>8, <1>9

LEMMA FinishCgiProgress ==
    ASSUME BaseInv, ExchangeInv, FinishCgi
    PROVE  ExchangeInv'
<1> USE DEF kernelVars, clientVars
<1>1. /\ pc = "cgi" /\ pc' = "scan" /\ i \in DOMAIN m_fds /\ ~IsListener
      /\ UNCHANGED <<sock, link, sent, taken, got, executed>>
  BY DEF FinishCgi, NextEntry, BaseInv, TypeInv, ThreadAtEntry, IsListener
<1>2. Fd \in Fds /\ sock[Fd] \in Conns
  BY <1>1, ClientEntry DEF BaseInv, PollInv, TypeInv
<1>3. PICK f \in Fds, c \in Conns : f = Fd /\ c = sock[f]
  BY <1>2
<1>4. /\ executed[c] # <<>> /\ DescriptorProgress(f) /\ ClientProgress(c)
  BY <1>1, <1>3 DEF ExchangeInv
<1>5. taken[c] = 2 /\ got[c] = <<>> /\ Len(m_inbuf[f]) = 2 /\ m_inbuf[f] \in Seq(Segments)
  BY <1>1, <1>3, <1>4 DEF DescriptorProgress, AtScript, BaseInv, TypeInv, TypeOK
<1>6. m_inbuf[f][1] = <<c, 1>>
  <2>1. OwnInput(m_inbuf[f], c, taken[c]) /\ 1 \in DOMAIN m_inbuf[f]
    BY <1>3, <1>5, LenProperties DEF BaseInv, InputOwned
  <2>2. QED
    BY <1>5, <2>1 DEF OwnInput
<1>7. /\ m_outbuf' = [m_outbuf EXCEPT ![f] = PlainResponse(f, m_inbuf[f])]
      /\ m_inbuf' = [m_inbuf EXCEPT ![f] = <<>>]
  BY <1>3 DEF FinishCgi
<1>8. /\ m_outbuf'[f] = PlainResponse(f, m_inbuf[f])
      /\ \A g \in Fds \ {f} : m_outbuf'[g] = m_outbuf[g] /\ m_inbuf'[g] = m_inbuf[g]
  BY <1>7 DEF BaseInv, TypeInv, TypeOK
<1>9. /\ m_outbuf'[f] # <<>> /\ Len(m_outbuf'[f]) = RespLen /\ InOrderFrom(m_outbuf'[f], 0)
  <2>1. RequestAt(m_inbuf[f]) = 1
    BY <1>6 DEF RequestAt
  <2>2. QED
    BY <1>8, <2>1, ResponseInOrder DEF PlainResponse
<1>10. UnderWay(f)'
  BY <1>1, <1>3, <1>5, <1>9, RespLenAssumption DEF UnderWay
<1>11. DescriptorProgress(f)' /\ ClientProgress(c)'
  BY <1>1, <1>3, <1>4, <1>5, <1>10 DEF DescriptorProgress, ClientProgress
<1>12. QED
  BY <1>1, <1>3, <1>8, <1>11, EntryProgress

\* Every step keeps the invariant, when nobody sends a second request; one
\* step of the proof per action.
LEMMA StepProgress ==
    ASSUME OneRequestEach, BaseInv, BaseInv', ExchangeInv, [Next]_vars
    PROVE  ExchangeInv'
<1> USE DEF serverVars, clientVars, kernelVars
<1>a. ASSUME Scanning PROVE i \in DOMAIN m_fds
  BY <1>a, ScanningEntry DEF BaseInv, TypeInv
<1>b. \A c \in Conns : InOrderFrom(got[c], 0)
  BY DEF ExchangeInv, ClientProgress
<1>1. CASE SkipSeenPort \/ ListenersReady \/ Poll \/ EndScan \/ PassOver \/ StartAccept
           \/ EndAccept
  BY <1>1, AllKept
  DEF SkipSeenPort, ListenersReady, Poll, EndScan, PassOver, StartAccept, EndAccept,
      Scanning, NextEntry
<1>2. CASE ExitOnFailure \/ SendKillsServer \/ CgiKillsServer
  BY <1>2, DownKept DEF ExitOnFailure, SendKillsServer, CgiKillsServer
<1>3. CASE CreateListener
  <2>1. PICK f \in Fds : LowestFree(f) /\ sock' = [sock EXCEPT ![f] = ServerPorts[i]]
    BY <1>3 DEF CreateListener
  <2>2. ServerPorts[i] \notin Conns
    <3>1. i \in 1 .. Len(ServerPorts)
      BY <1>3, ServersAssumption, LenProperties DEF CreateListener, BaseInv, TypeInv, TypeOK
    <3>2. ServerPorts[i] \in Ports
      BY <3>1, ServersAssumption, ElementOfSeq
    <3>3. QED
      BY <3>2, NamesAssumption
  <2>3. QED
    BY <1>3, <2>1, <2>2, OpenProgress DEF CreateListener, LowestFree
<1>4. CASE Accept
  <2>1. PICK c \in Conns, f \in Fds :
           /\ Queued(c) /\ LowestFree(f)
           /\ sock' = [sock EXCEPT ![f] = c]
           /\ link' = [link EXCEPT ![c] = "open"]
    BY <1>4 DEF Accept
  <2>2. \A d \in Conns : link'[d] \in {"none", "queued"} => link[d] \in {"none", "queued"}
    BY <2>1 DEF BaseInv, TypeInv, TypeOK
  <2>3. QED
    BY <1>4, <2>1, <2>2, OpenProgress DEF Accept, LowestFree, Queued
<1>5. CASE AcceptThenDrop
  <2>1. PICK c \in Conns : link' = [link EXCEPT ![c] = "dropped"]
    BY <1>5 DEF AcceptThenDrop
  <2>2. \A d \in Conns : link'[d] \in {"none", "queued"} => link[d] \in {"none", "queued"}
    BY <2>1 DEF BaseInv, TypeInv, TypeOK
  <2>3. QED
    BY <1>5, <2>2, AllKept DEF AcceptThenDrop
<1>6. CASE HandlePollError \/ SendFails \/ ReadFails \/ CloseAfterError
  <2>1. /\ CloseClientConnection /\ UNCHANGED got /\ ~IsListener /\ i \in DOMAIN m_fds
        /\ pc \in {"scan", "reject"}
    BY <1>6, <1>a
    DEF HandlePollError, SendFails, ReadFails, CloseAfterError, Writing, Reading, Scanning,
        BaseInv, TypeInv, ThreadAtEntry, IsListener
  <2>2. sock[Fd] \in Conns
    BY <2>1, ClientEntry DEF BaseInv, PollInv, TypeInv
  <2>3. ClientProgress(sock[Fd]) /\ got \in [Conns -> Seq(Pieces)]
    BY <2>2 DEF ExchangeInv, BaseInv, TypeInv, TypeOK
  <2>4. QED
    BY <2>1, <2>2, <2>3, CloseProgress DEF ClientProgress
<1>7. CASE SendPart
  BY <1>7, SendPartProgress
<1>8. CASE SendRest
  BY <1>8, SendRestProgress
<1>9. CASE ReadIncomplete \/ RouteRequest \/ StartCgi \/ SendError
  BY <1>9, ReadProgress
<1>10. CASE FinishCgi
  BY <1>10, FinishCgiProgress
<1>11. CASE RouterThrows
  <2>1. /\ Receive /\ pc # "down" /\ pc' = "down"
        /\ UNCHANGED <<sock, sent, executed, got, link>>
    BY <1>11 DEF RouterThrows, ReadComplete, Receive, Reading, Scanning
  <2>2. Fd \in Fds /\ sock[Fd] \in Conns
    BY <2>1, ReceiveOwned DEF BaseInv
  <2>3. PICK f \in Fds, c \in Conns : f = Fd /\ c = sock[f]
    BY <2>2
  <2>4. taken'[c] <= sent[c] /\ \A d \in Conns \ {c} : taken'[d] = taken[d]
    BY <2>1, <2>3, ReceiveProgress
  <2>9. link[c] = "open"
    BY <2>3 DEF BaseInv, PollInv, PollSetMatchesSockets, ClientsKnown
  <2>5. \A d \in Conns : ClientProgress(d)'
    BY <2>1, <2>4, <2>9 DEF ExchangeInv, ClientProgress
  <2>6. QED
    BY <2>1, <2>5 DEF ExchangeInv
<1>12. CASE \E c \in Conns : pc # "down" /\ Client(c)
  <2>1. PICK c \in Conns : Client(c) /\ pc # "down"
    BY <1>12
  <2>2. UNCHANGED <<serverVars, script, sock, taken, got, executed>>
    BY <2>1 DEF Client, Connect, SendSegment, PeerFin, PeerReset, Drain
  <2>3. \A d \in Conns : link'[d] = link[d] \/ (link[d] = "none" /\ link'[d] = "queued")
    BY <2>1 DEF Client, Connect, SendSegment, PeerFin, PeerReset, Drain, BaseInv, TypeInv,
                TypeOK
  <2>4. ASSUME NEW d \in Conns PROVE sent[d] <= sent'[d] /\ sent'[d] <= 2
    <3>1. sent[d] \in Nat /\ sent[d] <= 2 /\ Len(script[d]) = 1
      BY DEF ExchangeInv, ClientProgress, OneRequestEach, BaseInv, TypeInv, TypeOK
    <3>2. CASE SendSegment(c)
      <4>1. sent'[d] = IF d = c THEN sent[d] + 1 ELSE sent[d]
        BY <3>2 DEF SendSegment, BaseInv, TypeInv, TypeOK
      <4>2. d = c => sent[d] < 2
        <5>1. sent[c] < 2 * Len(script[c])
          BY <3>2 DEF SendSegment
        <5>2. d = c => sent[d] < 2 * 1
          BY <3>1, <5>1
        <5>3. QED
          BY <3>1, <5>2
      <4>3. QED
        BY <3>1, <4>1, <4>2
    <3>3. CASE ~SendSegment(c)
      BY <2>1, <3>1, <3>3 DEF Client, Connect, PeerFin, PeerReset, Drain
    <3>4. QED
      BY <3>2, <3>3
  <2>5. ASSUME NEW d \in Conns PROVE ClientProgress(d)'
    <3>1. ClientProgress(d) /\ taken[d] \in Nat /\ sent[d] \in Nat /\ sent'[d] \in Nat
      BY DEF ExchangeInv, BaseInv, TypeInv, TypeOK
    <3>2. QED
      BY <2>2, <2>3, <2>4, <3>1 DEF ClientProgress
  <2>6. Fd' = Fd
    BY <2>2 DEF Fd
  <2>7. ASSUME NEW f \in Fds PROVE DescriptorProgress(f)'
    BY <2>1, <2>2, <2>6, DescriptorKept
  <2>8. QED
    BY <2>2, <2>5, <2>6, <2>7 DEF ExchangeInv
<1>13. CASE UNCHANGED vars
  BY <1>13 DEF vars, ExchangeInv, ClientProgress, DescriptorProgress, Unserved, AtScript,
               UnderWay, Fd
<1>14. QED
  BY <1>1, <1>2, <1>3, <1>4, <1>5, <1>6, <1>7, <1>8, <1>9, <1>10, <1>11, <1>12, <1>13
  DEF Next, Server

LEMMA ExchangeInvariant ==
    ASSUME OneRequestEach
    PROVE  Spec => [](BaseInv /\ ExchangeInv)
<1>1. Init => ExchangeInv
  BY NamesAssumption, EmptySeq
  DEF Init, ExchangeInv, ClientProgress, DescriptorProgress, InOrderFrom
<1>2. BaseInv /\ BaseInv' /\ ExchangeInv /\ [Next]_vars => ExchangeInv'
  BY StepProgress
<1>3. Spec => []BaseInv
  BY DataInvariant, PTL DEF BaseInv
<1>4. QED
  BY <1>1, <1>2, <1>3, PTL DEF Spec

-----------------------------------------------------------------------------
(***************************************************************************)
(* What follows from it.                                                   *)
(***************************************************************************)
\* To a client that makes one request per connection, what arrives is the
\* beginning of one response, however often send() takes only a part.
THEOREM OneResponseInOrder ==
    ASSUME OneRequestEach
    PROVE  Spec => []ResponseIntegrity
<1>1. BaseInv /\ ExchangeInv => ResponseIntegrity
  <2> SUFFICES ASSUME BaseInv, ExchangeInv, NEW c \in Conns, NEW k \in DOMAIN got[c]
               PROVE  got[c][k].part = k /\ got[c][k].request = got[c][1].request
    BY DEF ResponseIntegrity
  <2>1. InOrderFrom(got[c], 0) /\ got[c] \in Seq(Pieces)
    BY DEF ExchangeInv, ClientProgress, BaseInv, TypeInv, TypeOK
  <2>2. k \in Nat /\ 1 \in DOMAIN got[c]
    BY <2>1, LenProperties
  <2>3. QED
    BY <2>1, <2>2 DEF InOrderFrom
<1>2. QED
  BY <1>1, ExchangeInvariant, PTL

\* The request of such a client is carried out once at most, although it stays
\* in m_inbuf while its response is sent.
THEOREM RequestExecutedOnce ==
    ASSUME OneRequestEach
    PROVE  Spec => []ExecutedOnceInOrder
<1>1. ExchangeInv => ExecutedOnceInOrder
  <2> SUFFICES ASSUME ExchangeInv, NEW c \in Conns,
                      NEW k \in DOMAIN executed[c], NEW l \in DOMAIN executed[c]
               PROVE  ~ (k < l)
    BY DEF ExecutedOnceInOrder
  <2>1. executed[c] = <<>> \/ executed[c] = << 1 >>
    BY DEF ExchangeInv, ClientProgress
  <2>2. k = 1 /\ l = 1
    BY <2>1
  <2>3. QED
    BY <2>2
<1>2. QED
  BY <1>1, ExchangeInvariant, PTL

NotRejecting == pc # "reject"

\* sendError is not reached when every request is well-formed.
LEMMA NeverRejected ==
    ASSUME OneRequestEach, NoneRejected
    PROVE  Spec => []NotRejecting
<1>1. Init => NotRejecting
  BY DEF Init, NotRejecting
<1>2. ASSUME BaseInv, ExchangeInv, pc # "reject", [Next]_vars
      PROVE  pc' # "reject"
  <2>1. ~ SendError
    <3> SUFFICES ASSUME SendError PROVE FALSE
      OBVIOUS
    <3>1. /\ Receive /\ pc # "down" /\ UNCHANGED <<sock, sent>>
          /\ KindOf(m_inbuf'[Fd]) = "reject"
      BY DEF SendError, ReadComplete, Receive, Reading, Scanning, clientVars
    <3>2. Fd \in Fds /\ sock[Fd] \in Conns
      BY <1>2, <3>1, ReceiveOwned DEF BaseInv
    <3>3. PICK f \in Fds, c \in Conns : f = Fd /\ c = sock[f]
      BY <3>2
    <3>4. /\ m_inbuf'[f][1][1] = c /\ RequestAt(m_inbuf'[f]) = 1
          /\ StartsWithHead(m_inbuf'[f])
      BY <1>2, <3>1, <3>3, ReceiveProgress
    <3>5. script[c][1].kind = "reject"
      BY <3>1, <3>3, <3>4 DEF KindOf
    <3>6. script[c] \in Scripts /\ script[c] \in Seq(Requests) /\ Len(script[c]) = 1
      BY <1>2, ScriptsAssumption DEF BaseInv, TypeInv, TypeOK, OneRequestEach
    <3>7. 1 \in DOMAIN script[c]
      BY <3>6, LenProperties
    <3>8. QED
      BY <3>5, <3>6, <3>7 DEF NoneRejected
  <2>2. QED
    BY <1>2, <2>1
    DEF Next, Server, SkipSeenPort, CreateListener, ListenersReady, ExitOnFailure, Poll,
        EndScan, HandlePollError, PassOver, StartAccept, Accept, AcceptThenDrop, EndAccept,
        SendPart, SendRest, SendFails, SendKillsServer, ReadFails, ReadIncomplete,
        RouteRequest, StartCgi, FinishCgi, CgiKillsServer, CloseAfterError, RouterThrows,
        CloseClientConnection, NextEntry, Client, Connect, SendSegment, PeerFin, PeerReset,
        Drain, vars, serverVars
<1>3. BaseInv /\ ExchangeInv /\ NotRejecting /\ [Next]_vars => NotRejecting'
  BY <1>2 DEF NotRejecting
<1>4. QED
  BY <1>1, <1>3, ExchangeInvariant, PTL DEF Spec

\* Where the server closes a connection without having sent the whole response,
\* poll's report had a reason, and it is the client.
LEMMA ClosedForAReason ==
    ASSUME BaseInv, ReportsStillTrue, HandlePollError \/ SendFails \/ ReadFails
    PROVE  peer[sock[Fd]] # "up" /\ sock[Fd] \in Conns /\ Fd \in Fds
<1>1. Scanning /\ pc = "scan" /\ ~IsListener /\ i \in DOMAIN m_fds
  BY ScanningEntry DEF HandlePollError, SendFails, ReadFails, Writing, Reading, Scanning,
                       BaseInv, TypeInv
<1>2. sock[Fd] \in Conns /\ Fd \in Fds
  BY <1>1, ClientEntry DEF BaseInv, PollInv, TypeInv
<1>3. i \in Unvisited
  BY <1>1, EntryType DEF Unvisited, BaseInv, TypeInv
<1>4. ReportHolds(sock[Fd], Revents)
  BY <1>1, <1>2, <1>3 DEF ReportsStillTrue, InScan, Fd, Revents
<1>5. taken[sock[Fd]] \in Nat /\ sent[sock[Fd]] \in Nat
  BY <1>2 DEF BaseInv, TypeInv, TypeOK
<1>6. CASE HandlePollError
  BY <1>2, <1>4, <1>6 DEF HandlePollError, HasError, ReportHolds
<1>7. CASE SendFails
  BY <1>2, <1>4, <1>7 DEF SendFails, Writing, MayWrite, CanSend, ReportHolds
<1>8. CASE ReadFails
  BY <1>2, <1>4, <1>5, <1>8 DEF ReadFails, Reading, MayRead, Unread, Broken, ReportHolds
<1>9. QED
  BY <1>2, <1>6, <1>7, <1>8

\* A request being well-formed, the server closes the connection of a client
\* that stays only behind its whole response: neither revents of before a
\* close or an accept, nor an exhausted send buffer makes it close earlier.
THEOREM ClosesOnlyAfterAnswer ==
    ASSUME OneRequestEach, NoneRejected
    PROVE  Spec => CloseOnlyAfterAnswer
<1> DEFINE Step(c) == link[c] = "open" /\ link'[c] = "closed" /\ peer[c] = "up" => Answered(c)'
<1>1. ASSUME BaseInv, BaseInv', ExchangeInv, ExchangeInv', NotRejecting, ReportsStillTrue,
             [Next]_vars, NEW c \in Conns, link[c] = "open", link'[c] = "closed", peer[c] = "up"
      PROVE  Answered(c)'
  <2> USE DEF kernelVars
  <2>1. HandlePollError \/ SendRest \/ SendFails \/ ReadFails
    <3>1. \A d \in Conns : ~ Client(d)
      BY <1>1 DEF Client, Connect, SendSegment, PeerFin, PeerReset, Drain, BaseInv, TypeInv,
                  TypeOK
    <3>2. ~ (Accept \/ AcceptThenDrop \/ CloseAfterError)
      BY <1>1 DEF Accept, AcceptThenDrop, CloseAfterError, NotRejecting, BaseInv, TypeInv,
                  TypeOK
    <3>3. QED
      BY <1>1, <3>1, <3>2
      DEF Next, Server, SkipSeenPort, CreateListener, ListenersReady, ExitOnFailure, Poll,
          EndScan, PassOver, StartAccept, EndAccept, SendPart, SendKillsServer,
          ReadIncomplete, RouteRequest, StartCgi, FinishCgi, CgiKillsServer, SendError,
          RouterThrows, ReadComplete, vars
  <2>2. c = sock[Fd]
    BY <1>1, <2>1
    DEF HandlePollError, SendRest, SendFails, ReadFails, CloseClientConnection, BaseInv,
        TypeInv, TypeOK
  <2>3. SendRest
    BY <1>1, <2>1, <2>2, ClosedForAReason
  <2>4. Len(got'[c]) = RespLen
    BY <1>1, <2>2, <2>3, SendRestProgress
  <2>5. InOrderFrom(got'[c], 0) /\ got'[c] \in Seq(Pieces)
    BY <1>1 DEF ExchangeInv, ClientProgress, BaseInv, TypeInv, TypeOK
  <2>6. RespLen \in DOMAIN got'[c] /\ got'[c] # <<>>
    BY <2>4, <2>5, RespLenAssumption, LenProperties, EmptySeq
  <2>7. got'[c][RespLen].part = RespLen
    BY <2>5, <2>6, RespLenAssumption DEF InOrderFrom
  <2>8. QED
    BY <2>4, <2>6, <2>7 DEF Answered
<1>2. /\ BaseInv /\ BaseInv' /\ ExchangeInv /\ ExchangeInv' /\ NotRejecting
      /\ ReportsStillTrue /\ [Next]_vars
      => [\A c \in Conns : Step(c)]_vars
  BY <1>1
<1>3. QED
  BY <1>2, ExchangeInvariant, NeverRejected, ReportsHold, PTL DEF Spec, CloseOnlyAfterAnswer

-----------------------------------------------------------------------------
(***************************************************************************)
(* The event loop implements Exchange.                                     *)
(***************************************************************************)
Times    == [c \in Conns |-> Len(executed[c])]
Received == [c \in Conns |-> [k \in DOMAIN got[c] |-> got[c][k].part]]
Ended    == [c \in Conns |-> link[c] \in {"closed", "dropped"}]
Left     == [c \in Conns |-> peer[c] # "up"]
Stopped  == pc = "down"

\* Pieces in order are the beginning of a response.
LEMMA PartsAreBegin ==
    ASSUME NEW s \in Seq(Pieces), InOrderFrom(s, 0)
    PROVE  /\ [k \in DOMAIN s |-> s[k].part] = OneExchange!Begin(Len(s))
           /\ Len(s) \in Nat /\ Len([k \in DOMAIN s |-> s[k].part]) = Len(s)
<1>1. DOMAIN s = 1 .. Len(s) /\ Len(s) \in Nat
  BY LenProperties
<1>2. \A k \in 1 .. Len(s) : s[k].part = k
  BY <1>1 DEF InOrderFrom
<1>3. [k \in DOMAIN s |-> s[k].part] = [k \in 1 .. Len(s) |-> k]
  BY <1>1, <1>2
<1>4. Len([k \in 1 .. Len(s) |-> k]) = Len(s)
  <2> DEFINE n == Len(s)
  <2>1. n \in Nat
    BY <1>1
  <2> HIDE DEF n
  <2>2. [k \in 1 .. n |-> k] \in [1 .. n -> Nat]
    OBVIOUS
  <2>3. Len([k \in 1 .. n |-> k]) = n
    BY <2>1, <2>2
  <2>4. QED
    BY <2>3 DEF n
<1>5. QED
  BY <1>1, <1>3, <1>4 DEF OneExchange!Begin

LEMMA IsCarryOut ==
    ASSUME NEW c \in Conns, link[c] = "open", pc # "down", pc' # "down",
           executed[c] = <<>>, executed'[c] = << 1 >>,
           \A d \in Conns \ {c} : executed'[d] = executed[d],
           UNCHANGED <<got, link, peer>>
    PROVE  OneExchange!CarryOut(c)
<1>1. ~Stopped /\ ~Ended[c] /\ Times[c] = 0
  BY DEF Stopped, Ended, Times
<1>2. Times' = [Times EXCEPT ![c] = 1]
  <2>1. Len(<< 1 >>) = 1
    OBVIOUS
  <2>2. \A d \in Conns : Len(executed'[d]) = IF d = c THEN 1 ELSE Len(executed[d])
    BY <2>1
  <2>3. QED
    BY <2>2 DEF Times
<1>3. UNCHANGED <<Received, Ended, Left, Stopped>>
  BY DEF Received, Ended, Left, Stopped
<1>4. QED
  BY <1>1, <1>2, <1>3
  DEF OneExchange!CarryOut, OneExchange!Serving, Times, Received, Ended, Left, Stopped

LEMMA IsDeliver ==
    ASSUME BaseInv, BaseInv', ExchangeInv, ExchangeInv', NEW c \in Conns,
           link[c] = "open", pc # "down", pc' # "down", executed[c] = << 1 >>,
           Len(got[c]) < Len(got'[c]), Len(got'[c]) <= RespLen,
           \A d \in Conns \ {c} : got'[d] = got[d],
           link' = [link EXCEPT ![c] = IF Len(got'[c]) = RespLen THEN "closed" ELSE "open"],
           UNCHANGED <<executed, peer>>
    PROVE  OneExchange!Deliver(c)
<1>1. ~Stopped /\ ~Ended[c] /\ Times[c] = 1
  BY DEF Stopped, Ended, Times
<1>2. /\ Len(Received[c]) = Len(got[c]) /\ Len(got[c]) \in Nat
      /\ Received'[c] = OneExchange!Begin(Len(got'[c])) /\ Len(got'[c]) \in Nat
  <2>1. /\ InOrderFrom(got[c], 0) /\ got[c] \in Seq(Pieces)
        /\ InOrderFrom(got'[c], 0) /\ got'[c] \in Seq(Pieces)
    BY DEF ExchangeInv, ClientProgress, BaseInv, TypeInv, TypeOK
  <2>2. /\ Received[c] = [k \in DOMAIN got[c] |-> got[c][k].part]
        /\ Received'[c] = [k \in DOMAIN got'[c] |-> got'[c][k].part]
    BY DEF Received
  <2>3. QED
    BY <2>1, <2>2, PartsAreBegin
<1>3. Received' = [Received EXCEPT ![c] = OneExchange!Begin(Len(got'[c]))]
  <2>1. \A d \in Conns \ {c} : Received'[d] = Received[d]
    BY DEF Received
  <2>2. Received = [d \in Conns |-> Received[d]] /\ Received' = [d \in Conns |-> Received'[d]]
    BY DEF Received
  <2>3. QED
    BY <1>2, <2>1, <2>2
<1>4. Ended' = [Ended EXCEPT ![c] = Len(got'[c]) = RespLen]
  <2>1. \A d \in Conns : link'[d] = IF d = c THEN IF Len(got'[c]) = RespLen THEN "closed"
                                                                           ELSE "open"
                                             ELSE link[d]
    BY DEF BaseInv, TypeInv, TypeOK
  <2> DEFINE last == Len(got'[c]) = RespLen
  <2>2. \A d \in Conns : (link'[d] \in {"closed", "dropped"})
                             = IF d = c THEN last ELSE link[d] \in {"closed", "dropped"}
    BY <2>1
  <2>3. c \in Conns
    OBVIOUS
  <2> HIDE DEF last
  <2>4. Ended' = [Ended EXCEPT ![c] = last]
    BY <2>2, <2>3, Zenon DEF Ended
  <2>5. QED
    BY <2>4 DEF last
<1>5. UNCHANGED <<Times, Left, Stopped>>
  BY DEF Times, Left, Stopped
<1>6. Len(got'[c]) \in Len(Received[c]) + 1 .. RespLen
  BY <1>2, RespLenAssumption
<1>7. QED
  BY <1>1, <1>3, <1>4, <1>5, <1>6
  DEF OneExchange!Deliver, OneExchange!Serving, Times, Received, Ended, Left, Stopped

LEMMA IsGiveUp ==
    ASSUME BaseInv, NEW c \in Conns, link[c] = "open", pc # "down", pc' # "down",
           peer[c] # "up", link' = [link EXCEPT ![c] = "closed"],
           UNCHANGED <<got, executed, peer>>
    PROVE  OneExchange!GiveUp(c)
<1>1. ~Stopped /\ ~Ended[c] /\ Left[c]
  BY DEF Stopped, Ended, Left
<1>2. Ended' = [Ended EXCEPT ![c] = TRUE]
  <2>1. \A d \in Conns : link'[d] = IF d = c THEN "closed" ELSE link[d]
    BY DEF BaseInv, TypeInv, TypeOK
  <2> DEFINE closed == link'[c] \in {"closed", "dropped"}
  <2>2. closed /\ \A d \in Conns \ {c} : link'[d] = link[d]
    BY <2>1
  <2>3. \A d \in Conns : (link'[d] \in {"closed", "dropped"})
                             = IF d = c THEN closed ELSE link[d] \in {"closed", "dropped"}
    BY <2>2
  <2>4. c \in Conns /\ closed = TRUE
    BY <2>2
  <2> HIDE DEF closed
  <2>5. Ended' = [Ended EXCEPT ![c] = closed]
    BY <2>3, <2>4, Zenon DEF Ended
  <2>6. QED
    BY <2>4, <2>5
<1>3. UNCHANGED <<Times, Received, Left, Stopped>>
  BY DEF Times, Received, Left, Stopped
<1>4. QED
  BY <1>1, <1>2, <1>3
  DEF OneExchange!GiveUp, OneExchange!Serving, Times, Received, Ended, Left, Stopped

LEMMA IsLeave ==
    ASSUME BaseInv, NEW c \in Conns, link[c] \in {"queued", "open"}, pc # "down",
           peer[c] = "up", NEW p, p # "up", peer' = [peer EXCEPT ![c] = p],
           UNCHANGED <<pc, got, executed, link>>
    PROVE  OneExchange!Leave(c)
<1>1. ~Stopped /\ ~Ended[c] /\ ~Left[c]
  BY DEF Stopped, Ended, Left
<1>2. Left' = [Left EXCEPT ![c] = TRUE]
  <2>1. \A d \in Conns : peer'[d] = IF d = c THEN p ELSE peer[d]
    BY DEF BaseInv, TypeInv, TypeOK
  <2>2. \A d \in Conns : (peer'[d] # "up") = IF d = c THEN TRUE ELSE peer[d] # "up"
    BY <2>1
  <2>3. QED
    BY <2>2, Zenon DEF Left
<1>3. UNCHANGED <<Times, Received, Ended, Stopped>>
  BY DEF Times, Received, Ended, Stopped
<1>4. QED
  BY <1>1, <1>2, <1>3
  DEF OneExchange!Leave, OneExchange!Serving, Times, Received, Ended, Left, Stopped

\* Every step of the loop is a step of Exchange or leaves all of it as it is;
\* one step of the proof per kind of step.
LEMMA StepIsExchange ==
    ASSUME BaseInv, BaseInv', ExchangeInv, ExchangeInv', NotRejecting, ReportsStillTrue,
           "fcntl" \notin Faults, [Next]_vars
    PROVE  [OneExchange!Next]_(OneExchange!vars)
<1> USE DEF kernelVars, clientVars, serverVars
<1>a. ASSUME UNCHANGED <<executed, got, link, peer>>, pc' # "down", pc # "down"
      PROVE  UNCHANGED OneExchange!vars
  BY <1>a DEF OneExchange!vars
<1>b. ASSUME UNCHANGED <<executed, got, link, peer>>, pc # "down", pc' = "down"
      PROVE  OneExchange!Next
  BY <1>b DEF OneExchange!Next, OneExchange!Stop
<1>c. ASSUME Scanning PROVE i \in DOMAIN m_fds /\ pc = "scan"
  BY <1>c, ScanningEntry DEF BaseInv, TypeInv, Scanning
<1>d. ASSUME NEW c \in Conns, \/ OneExchange!CarryOut(c) \/ OneExchange!Deliver(c)
                              \/ OneExchange!GiveUp(c) \/ OneExchange!Leave(c)
      PROVE  OneExchange!Next
  BY <1>d DEF OneExchange!Next
<1>e. ASSUME NEW f \in Fds, sock[f] \in Conns PROVE link[sock[f]] = "open"
  BY <1>e DEF BaseInv, PollInv, PollSetMatchesSockets, ClientsKnown
<1>1. CASE ExitOnFailure \/ SendKillsServer \/ CgiKillsServer \/ RouterThrows
  BY <1>1, <1>b
  DEF ExitOnFailure, SendKillsServer, CgiKillsServer, RouterThrows, ReadComplete, Receive,
      Reading, Writing, Scanning
<1>2. CASE SkipSeenPort \/ CreateListener \/ ListenersReady \/ Poll \/ EndScan \/ PassOver
           \/ StartAccept \/ EndAccept \/ ReadIncomplete \/ FinishCgi
  BY <1>2, <1>a
  DEF SkipSeenPort, CreateListener, ListenersReady, Poll, EndScan, PassOver, StartAccept,
      EndAccept, ReadIncomplete, FinishCgi, Receive, Reading, Scanning, NextEntry
<1>3. CASE Accept
  <2>1. PICK c \in Conns : link[c] = "queued" /\ link' = [link EXCEPT ![c] = "open"]
    BY <1>3 DEF Accept, Queued
  <2>2. \A d \in Conns : link'[d] = IF d = c THEN "open" ELSE link[d]
    BY <2>1 DEF BaseInv, TypeInv, TypeOK
  <2>3. \A d \in Conns : (link'[d] \in {"closed", "dropped"})
                             = (link[d] \in {"closed", "dropped"})
    BY <2>1, <2>2
  <2>4. UNCHANGED <<executed, got, peer, pc>>
    BY <1>3 DEF Accept
  <2>5. QED
    BY <2>3, <2>4, Zenon DEF OneExchange!vars
<1>4. CASE AcceptThenDrop \/ CloseAfterError \/ SendError
  <2>1. CASE SendError
    BY <1>a, <2>1 DEF SendError, ReadComplete, Receive, Reading, Scanning
  <2>2. QED
    BY <1>4, <2>1 DEF AcceptThenDrop, CloseAfterError, NotRejecting
<1>5. CASE HandlePollError \/ SendFails \/ ReadFails
  <2>1. PICK f \in Fds, c \in Conns : f = Fd /\ c = sock[f] /\ peer[c] # "up"
    BY <1>5, ClosedForAReason
  <2>2. /\ link' = [link EXCEPT ![c] = "closed"] /\ UNCHANGED <<got, executed, peer>>
        /\ pc = "scan" /\ pc' = "scan"
    BY <1>5, <2>1 DEF HandlePollError, SendFails, ReadFails, Writing, Reading, Scanning,
                      CloseClientConnection
  <2>3. OneExchange!GiveUp(c)
    BY <1>e, <2>1, <2>2, IsGiveUp
  <2>4. QED
    BY <1>d, <2>3
<1>6. CASE SendRest \/ SendPart
  <2>1. Writing /\ Fd \in Fds /\ sock[Fd] \in Conns /\ pc = "scan" /\ pc' = "scan"
        /\ UNCHANGED <<executed, peer>>
    BY <1>6, <1>c, ClientEntry
    DEF SendRest, SendPart, Writing, CloseClientConnection, NextEntry, BaseInv, PollInv,
        TypeInv
  <2>2. PICK f \in Fds, c \in Conns : f = Fd /\ c = sock[f]
    BY <2>1
  <2>3. link[c] = "open" /\ executed[c] = << 1 >>
    <3>1. executed[c] # <<>> /\ ClientProgress(c) /\ link[c] = "open"
      BY <2>1, <2>2, SendProgress
    <3>2. QED
      BY <3>1 DEF ClientProgress
  <2>4. \A d \in Conns \ {c} : got'[d] = got[d]
    BY <1>6, <2>2 DEF SendRest, SendPart, BaseInv, TypeInv, TypeOK
  <2>5. CASE SendRest
    <3>1. Len(got'[c]) = RespLen /\ Len(got[c]) < RespLen
      BY <2>2, <2>5, SendRestProgress
    <3>2. link' = [link EXCEPT ![c] = IF Len(got'[c]) = RespLen THEN "closed" ELSE "open"]
      BY <2>2, <2>5, <3>1 DEF SendRest, CloseClientConnection
    <3>3. Len(got[c]) < Len(got'[c]) /\ Len(got'[c]) <= RespLen
      BY <3>1, RespLenAssumption
    <3>4. OneExchange!Deliver(c)
      BY <2>1, <2>3, <2>4, <3>2, <3>3, IsDeliver
    <3>5. QED
      BY <1>d, <3>4
  <2>6. CASE SendPart
    <3>1. Len(got[c]) < Len(got'[c]) /\ Len(got'[c]) < RespLen
      BY <2>2, <2>6, SendPartProgress
    <3>2. link' = [link EXCEPT ![c] = IF Len(got'[c]) = RespLen THEN "closed" ELSE "open"]
      <4>1. UNCHANGED link /\ Len(got'[c]) # RespLen
        BY <2>6, <3>1 DEF SendPart
      <4>2. QED
        BY <2>3, <4>1 DEF BaseInv, TypeInv, TypeOK
    <3>3. Len(got[c]) < Len(got'[c]) /\ Len(got'[c]) <= RespLen
      BY <3>1, RespLenAssumption
    <3>4. OneExchange!Deliver(c)
      BY <2>1, <2>3, <2>4, <3>2, <3>3, IsDeliver
    <3>5. QED
      BY <1>d, <3>4
  <2>7. QED
    BY <1>6, <2>5, <2>6
<1>7. CASE RouteRequest \/ StartCgi
  <2>1. /\ Receive /\ UNCHANGED <<sock, sent, got, link, peer>> /\ pc = "scan"
        /\ pc' # "down" /\ TRUE \in Completeness(m_inbuf'[Fd])
        /\ Execute(m_inbuf'[Fd])
    BY <1>7 DEF RouteRequest, StartCgi, ReadComplete, Receive, Reading, Scanning, NextEntry
  <2>2. Fd \in Fds /\ sock[Fd] \in Conns
    BY <2>1, ReceiveOwned DEF BaseInv
  <2>3. PICK f \in Fds, c \in Conns : f = Fd /\ c = sock[f]
    BY <2>2
  <2>4. executed[c] = <<>> /\ m_inbuf'[f][1][1] = c /\ RequestAt(m_inbuf'[f]) = 1
    BY <2>1, <2>3, ReceiveProgress
  <2>5. executed' = [executed EXCEPT ![c] = Append(@, 1)]
    BY <2>1, <2>3, <2>4 DEF Execute
  <2>6. executed'[c] = << 1 >> /\ \A d \in Conns \ {c} : executed'[d] = executed[d]
    BY <2>4, <2>5 DEF BaseInv, TypeInv, TypeOK
  <2>7. OneExchange!CarryOut(c)
    BY <1>e, <2>1, <2>3, <2>4, <2>6, IsCarryOut
  <2>8. QED
    BY <1>d, <2>7
<1>8. CASE \E c \in Conns : pc # "down" /\ Client(c)
  <2>1. PICK c \in Conns : pc # "down" /\ Client(c)
    BY <1>8
  <2>2. CASE SendSegment(c) \/ Drain(c)
    BY <1>a, <2>1, <2>2 DEF SendSegment, Drain
  <2>3. CASE Connect(c)
    <3>1. UNCHANGED <<executed, got, peer, pc>>
      BY <2>3 DEF Connect
    <3>2. \A d \in Conns : link'[d] = IF d = c THEN "queued" ELSE link[d]
      BY <2>3 DEF Connect, BaseInv, TypeInv, TypeOK
    <3>3. \A d \in Conns : (link'[d] \in {"closed", "dropped"})
                               = (link[d] \in {"closed", "dropped"})
      BY <2>3, <3>2 DEF Connect
    <3>4. QED
      BY <3>1, <3>3, Zenon DEF OneExchange!vars
  <2>4. CASE (PeerFin(c) \/ PeerReset(c)) /\ peer[c] = "up"
    <3>1. PICK p : p # "up" /\ peer' = [peer EXCEPT ![c] = p]
      BY <2>4 DEF PeerFin, PeerReset
    <3>2. link[c] \in {"queued", "open"} /\ UNCHANGED <<pc, got, executed, link>>
      BY <2>4 DEF PeerFin, PeerReset
    <3>3. OneExchange!Leave(c)
      BY <2>1, <2>4, <3>1, <3>2, IsLeave
    <3>4. QED
      BY <1>d, <3>3
  <2>5. CASE PeerReset(c) /\ peer[c] # "up"
    <3>1. UNCHANGED <<executed, got, link, pc>>
      BY <2>5 DEF PeerReset
    <3>2. \A d \in Conns : (peer'[d] # "up") = (peer[d] # "up")
      BY <2>5 DEF PeerReset, BaseInv, TypeInv, TypeOK
    <3>3. QED
      BY <3>1, <3>2, Zenon DEF OneExchange!vars
  <2>6. QED
    BY <2>1, <2>2, <2>3, <2>4, <2>5 DEF Client, PeerFin
<1>9. CASE UNCHANGED vars
  BY <1>9 DEF vars, OneExchange!vars
<1>10. QED
  BY <1>1, <1>2, <1>3, <1>4, <1>5, <1>6, <1>7, <1>8, <1>9 DEF Next, Server

\* The event loop with its buffers, partial sends and reused descriptors is one
\* exchange per client, as long as nobody sends a second or a malformed request
\* and no accepted socket fails to become non-blocking.
THEOREM LoopImplementsExchange ==
    ASSUME OneRequestEach, NoneRejected, "fcntl" \notin Faults
    PROVE  Spec => ExchangeImplemented
<1>1. Init => OneExchange!Init
  <2> SUFFICES ASSUME Init PROVE OneExchange!Init
    OBVIOUS
  <2>1. Times = [c \in Conns |-> 0] /\ Received = [c \in Conns |-> <<>>]
    BY DEF Init, Times, Received
  <2>2. Ended = [c \in Conns |-> FALSE]
    <3>1. \A c \in Conns : (link[c] \in {"closed", "dropped"}) = FALSE
      BY DEF Init
    <3>2. QED
      BY <3>1, Zenon DEF Ended
  <2>3. Left = [c \in Conns |-> FALSE]
    <3>1. \A c \in Conns : (peer[c] # "up") = FALSE
      BY DEF Init
    <3>2. QED
      BY <3>1, Zenon DEF Left
  <2>4. Stopped = FALSE
    BY DEF Init, Stopped
  <2>5. QED
    BY <2>1, <2>2, <2>3, <2>4
    DEF OneExchange!Init, Times, Received, Ended, Left, Stopped
<1>2. /\ BaseInv /\ BaseInv' /\ ExchangeInv /\ ExchangeInv' /\ NotRejecting
      /\ ReportsStillTrue /\ [Next]_vars
      => [OneExchange!Next]_(OneExchange!vars)
  BY StepIsExchange
<1>3. QED
  BY <1>1, <1>2, ExchangeInvariant, NeverRejected, ReportsHold, PTL
  DEF Spec, ExchangeImplemented, OneExchange!Spec
=============================================================================
