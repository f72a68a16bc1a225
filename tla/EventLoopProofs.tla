-------------------------- MODULE EventLoopProofs --------------------------
(***************************************************************************)
(* Theorems about EventLoop, for every value of its constants.             *)
(***************************************************************************)
EXTENDS EventLoop, SequenceTheorems, TLAPS

-----------------------------------------------------------------------------
(***************************************************************************)
(* The operators the actions are built from                                *)
(***************************************************************************)

\* std::vector::erase: the entries in front keep their place, those behind
\* move up by one.
LEMMA RemoveAtProperties ==
    ASSUME NEW S, NEW s \in Seq(S), NEW k \in 1 .. Len(s)
    PROVE  /\ RemoveAt(s, k) \in Seq(S)
           /\ Len(RemoveAt(s, k)) = Len(s) - 1
           /\ \A j \in 1 .. Len(s) - 1 :
                 RemoveAt(s, k)[j] = IF j < k THEN s[j] ELSE s[j + 1]
<1> DEFINE front == SubSeq(s, 1, k - 1)
           back  == SubSeq(s, k + 1, Len(s))
<1>0. /\ Len(s) \in Nat
      /\ \A j \in 1 .. Len(s) : s[j] \in S
  BY LenProperties, ElementOfSeq
<1>1. /\ front \in Seq(S)
      /\ Len(front) = k - 1
      /\ \A j \in 1 .. k - 1 : front[j] = s[j]
  <2>1. \A j \in 1 .. k - 1 : s[j] \in S
    BY <1>0
  <2>2. /\ 1 \in Int /\ k - 1 \in Int
        /\ (IF 1 <= k - 1 THEN k - 1 - 1 + 1 ELSE 0) = k - 1
        /\ \A j \in 1 .. k - 1 : 1 + j - 1 = j
        /\ k - 1 - 1 + 1 = k - 1
    BY <1>0
  <2>3. QED
    BY <2>1, <2>2, SubSeqProperties
<1>2. /\ back \in Seq(S)
      /\ Len(back) = Len(s) - k
      /\ \A j \in 1 .. Len(s) - k : back[j] = s[k + j]
  <2>1. \A j \in k + 1 .. Len(s) : s[j] \in S
    BY <1>0
  <2>2. k + 1 \in Int /\ Len(s) \in Int
    BY <1>0
  <2>3. /\ back \in Seq(S)
        /\ Len(back) = IF k + 1 <= Len(s) THEN Len(s) - (k + 1) + 1 ELSE 0
        /\ \A j \in 1 .. Len(s) - (k + 1) + 1 : back[j] = s[k + 1 + j - 1]
    BY <2>1, <2>2, SubSeqProperties
  <2> HIDE DEF back
  <2>4. QED
    BY <2>3, <1>0
<1>3. /\ front \o back \in Seq(S)
      /\ Len(front \o back) = (k - 1) + (Len(s) - k)
      /\ \A j \in 1 .. (k - 1) + (Len(s) - k) :
            (front \o back)[j] = IF j <= k - 1 THEN front[j] ELSE back[j - (k - 1)]
  <2> HIDE DEF front, back
  <2>1. /\ front \o back \in Seq(S)
        /\ Len(front \o back) = Len(front) + Len(back)
        /\ \A j \in 1 .. Len(front) + Len(back) :
              (front \o back)[j] = IF j <= Len(front) THEN front[j]
                                    ELSE back[j - Len(front)]
    BY <1>1, <1>2, ConcatProperties
  <2>2. QED
    BY <1>0, <1>1, <1>2, <2>1
<1>4. RemoveAt(s, k) = front \o back
  BY DEF RemoveAt
<1>5. \A j \in 1 .. Len(s) - 1 :
         (front \o back)[j] = IF j < k THEN s[j] ELSE s[j + 1]
  <2> TAKE j \in 1 .. Len(s) - 1
  <2> HIDE DEF front, back
  <2>1. CASE j < k
    BY <2>1, <1>0, <1>1, <1>3
  <2>2. CASE ~(j < k)
    <3>1. j - (k - 1) \in 1 .. Len(s) - k /\ k + (j - (k - 1)) = j + 1
      BY <2>2, <1>0
    <3>2. QED
      BY <2>2, <3>1, <1>0, <1>2, <1>3
  <2>3. QED
    BY <2>1, <2>2
<1>6. QED
  <2> HIDE DEF front, back
  <2>1. (k - 1) + (Len(s) - k) = Len(s) - 1
    BY <1>0
  <2>2. QED
    BY <1>3, <1>4, <1>5, <2>1

\* findServerByPort always finds a server block, if only the first.
LEMMA FindServerByPortType ==
    ASSUME NEW p
    PROVE  FindServerByPort(p) \in DOMAIN ServerPorts
<1>1. 1 \in DOMAIN ServerPorts
  BY ServersAssumption, LenProperties, EmptySeq
<1>2. FirstWithPort(p) \subseteq DOMAIN ServerPorts
  BY DEF FirstWithPort
<1>3. QED
  BY <1>1, <1>2 DEF FindServerByPort

\* A response is a sequence of pieces, and is not empty.
LEMMA ResponseType ==
    ASSUME NEW c \in Conns, NEW r \in Nat,
           NEW announced \in {"keep-alive", "close"},
           NEW server \in DOMAIN ServerPorts
    PROVE  Response(c, r, announced, server) \in Seq(Pieces)
<1>1. \A p \in 1 .. RespLen :
         [to |-> c, request |-> r, part |-> p,
          announced |-> announced, server |-> server] \in Pieces
  BY DEF Pieces
<1>2. RespLen \in Nat
  BY RespLenAssumption
<1>3. QED
  BY <1>1, <1>2 DEF Response

\* Asking for POLLOUT changes neither the order of the poll set nor revents.
LEMMA WantWriteProperties ==
    ASSUME NEW f, m_fds \in Seq(Entries)
    PROVE  /\ WantWrite(f) \in Seq(Entries)
           /\ Len(WantWrite(f)) = Len(m_fds)
           /\ \A k \in 1 .. Len(m_fds) : /\ WantWrite(f)[k].fd = m_fds[k].fd
                                         /\ WantWrite(f)[k].revents = m_fds[k].revents
<1>1. Len(m_fds) \in Nat /\ DOMAIN m_fds = 1 .. Len(m_fds)
  BY LenProperties
<1>2. \A k \in 1 .. Len(m_fds) : m_fds[k] \in Entries
  BY ElementOfSeq
<1>3. \A k \in 1 .. Len(m_fds) :
         /\ WantWrite(f)[k] \in Entries
         /\ WantWrite(f)[k].fd = m_fds[k].fd
         /\ WantWrite(f)[k].revents = m_fds[k].revents
  BY <1>1, <1>2 DEF WantWrite, Entries
<1>4. WantWrite(f) \in [1 .. Len(m_fds) -> Entries]
  BY <1>1, <1>3 DEF WantWrite
<1>5. WantWrite(f) \in Seq(Entries) /\ Len(WantWrite(f)) = Len(m_fds)
  BY <1>1, <1>4
<1>6. QED
  BY <1>3, <1>5
-----------------------------------------------------------------------------
(***************************************************************************)
(* Type correctness.  TypeOK alone is not inductive: what FinishCgi and    *)
(* CloseAfterError do is typed only because the thread still stands at the *)
(* entry they need, which is ThreadAtEntry.                                *)
(***************************************************************************)
TypeInv == TypeOK /\ ThreadAtEntry

\* The entry of the scan is an entry of the poll set.
LEMMA EntryType ==
    ASSUME TypeOK, i \in DOMAIN m_fds
    PROVE  /\ i \in 1 .. Len(m_fds)
           /\ Len(m_fds) \in Nat
           /\ m_fds[i] \in Entries
           /\ Fd \in Fds
<1>1. m_fds \in Seq(Entries)
  BY DEF TypeOK
<1>2. i \in 1 .. Len(m_fds) /\ Len(m_fds) \in Nat
  BY <1>1, LenProperties
<1>3. m_fds[i] \in Entries
  BY <1>1, <1>2, ElementOfSeq
<1>4. QED
  BY <1>2, <1>3 DEF Entries, Fd

\* A scan in progress has an entry.
LEMMA ScanningEntry ==
    ASSUME TypeOK, Scanning
    PROVE  i \in DOMAIN m_fds
<1>1. Len(m_fds) \in Nat /\ DOMAIN m_fds = 1 .. Len(m_fds)
  BY LenProperties DEF TypeOK
<1>2. i \in Nat \ {0} /\ i <= Len(m_fds)
  BY DEF TypeOK, Scanning
<1>3. QED
  BY <1>1, <1>2

\* closeClientConnection keeps the types, whatever the client received.
LEMMA CloseTyped ==
    ASSUME TypeInv, i \in DOMAIN m_fds, CloseClientConnection,
           got' \in [Conns -> Seq(Pieces)]
    PROVE  TypeInv'
<1>1. /\ m_fds \in Seq(Entries)
      /\ i \in 1 .. Len(m_fds)
  BY EntryType DEF TypeInv, TypeOK
<1>2. RemoveAt(m_fds, i) \in Seq(Entries)
  BY <1>1, RemoveAtProperties
<1>3. <<>> \in Seq(Segments) /\ <<>> \in Seq(Pieces)
  BY EmptySeq
<1>4. TypeOK'
  BY <1>2, <1>3 DEF TypeInv, TypeOK, CloseClientConnection, ForgetClient, EraseEntry,
     clientVars
<1>5. ThreadAtEntry'
  BY DEF ThreadAtEntry, CloseClientConnection
<1>6. QED
  BY <1>4, <1>5 DEF TypeInv
\* An entry that is no listener's is the entry of a connection.
LEMMA ClientEntry ==
    ASSUME TypeOK, PollSetMatchesSockets, i \in DOMAIN m_fds, ~IsListener
    PROVE  sock[Fd] \in Conns /\ Fd \in Fds
<1>1. Fd \in Fds
  BY EntryType
<1>2. sock[Fd] # None
  BY <1>1 DEF PollSetMatchesSockets, EntriesAreOpenSockets, Fd
<1>3. sock[Fd] \notin Ports
  BY <1>1, NamesAssumption DEF PollSetMatchesSockets, ListenersKnown, IsListener, m_listenerFdSet, TypeOK
<1>4. QED
  BY <1>1, <1>2, <1>3 DEF TypeOK

\* What recv() leaves: a buffer with at least the segments it returned.
LEMMA ReceiveTyped ==
    ASSUME TypeOK, PollSetMatchesSockets, Receive
    PROVE  /\ taken' \in [Conns -> Nat]
           /\ m_inbuf' \in [Fds -> Seq(Segments)]
           /\ m_inbuf'[Fd] # <<>>
           /\ Fd \in Fds /\ sock[Fd] \in Conns /\ i \in DOMAIN m_fds
<1>1. i \in DOMAIN m_fds
  BY ScanningEntry DEF Receive, Reading
<1>2. sock[Fd] \in Conns /\ Fd \in Fds
  BY <1>1, ClientEntry DEF Receive, Reading
<1> DEFINE c == sock[Fd]
<1>3. /\ sent[c] \in Nat /\ taken[c] \in Nat
      /\ m_inbuf[Fd] \in Seq(Segments)
  BY <1>2 DEF TypeOK
<1>4. PICK n \in 1 .. Unread(c) :
         /\ taken' = [taken EXCEPT ![c] = @ + n]
         /\ m_inbuf' = [m_inbuf EXCEPT ![Fd] =
                           @ \o [k \in 1 .. n |-> <<c, taken[c] + k>>]]
  BY DEF Receive
<1>5. n \in Nat \ {0}
  BY <1>3, <1>4 DEF Unread
<1> DEFINE new == [k \in 1 .. n |-> <<c, taken[c] + k>>]
<1>6. new \in Seq(Segments) /\ Len(new) = n
  <2>1. \A k \in 1 .. n : <<c, taken[c] + k>> \in Segments
    BY <1>2, <1>3, <1>5 DEF Segments
  <2>2. new \in [1 .. n -> Segments]
    BY <2>1
  <2>3. QED
    BY <1>5, <2>2
<1>7. m_inbuf[Fd] \o new \in Seq(Segments) /\ m_inbuf[Fd] \o new # <<>>
  <2> HIDE DEF new
  <2>1. /\ m_inbuf[Fd] \o new \in Seq(Segments)
        /\ Len(m_inbuf[Fd] \o new) = Len(m_inbuf[Fd]) + n
    BY <1>3, <1>6, ConcatProperties
  <2>2. Len(m_inbuf[Fd]) \in Nat
    BY <1>3, LenProperties
  <2>3. Len(m_inbuf[Fd] \o new) # 0
    BY <1>5, <2>1, <2>2
  <2>4. QED
    BY <2>1, <2>3, EmptySeq
<1>8. m_inbuf' \in [Fds -> Seq(Segments)] /\ m_inbuf'[Fd] # <<>>
  <2> HIDE DEF new
  <2>1. m_inbuf' = [m_inbuf EXCEPT ![Fd] = m_inbuf[Fd] \o new]
    BY <1>4 DEF new
  <2>2. QED
    BY <1>2, <1>7, <2>1 DEF TypeOK
<1>9. taken' \in [Conns -> Nat]
  BY <1>2, <1>3, <1>4, <1>5 DEF TypeOK
<1>10. QED
  BY <1>1, <1>2, <1>8, <1>9

\* What a response to the request at the front of a buffer consists of.
LEMMA AnswerTyped ==
    ASSUME NEW buf \in Seq(Segments), buf # <<>>, NEW f
    PROVE  /\ RequestAt(buf) \in Nat
           /\ buf[1][1] \in Conns
           /\ RoutedResponse(f, buf) \in Seq(Pieces)
           /\ PlainResponse(f, buf) \in Seq(Pieces)
<1>1. buf[1] \in Segments
  BY EmptySeq, ElementOfSeq
<1>2. buf[1][1] \in Conns /\ buf[1][2] \in Nat
  BY <1>1 DEF Segments
<1>3. RequestAt(buf) \in Nat
  BY <1>2 DEF RequestAt
<1>4. CurrentServer(f) \in DOMAIN ServerPorts
  BY FindServerByPortType DEF CurrentServer
<1>5. PlainResponse(f, buf) \in Seq(Pieces)
  BY <1>2, <1>3, <1>4, ResponseType DEF PlainResponse, AnnouncedByDefault
<1>6. RoutedResponse(f, buf) \in Seq(Pieces)
  <2> DEFINE q == script[buf[1][1]][RequestAt(buf)]
             a == AnnouncedByInitialize(q.status, q.version, q.connection)
  <2>1. a \in {"keep-alive", "close"}
    BY DEF AnnouncedByInitialize
  <2> HIDE DEF a
  <2>2. Response(buf[1][1], RequestAt(buf), a, CurrentServer(f)) \in Seq(Pieces)
    BY <1>2, <1>3, <1>4, <2>1, ResponseType
  <2>3. QED
    BY <2>2 DEF RoutedResponse, a
<1>7. QED
  BY <1>2, <1>3, <1>5, <1>6
LEMMA InitTyped == Init => TypeInv
<1> SUFFICES ASSUME Init PROVE TypeInv
  OBVIOUS
<1>1. /\ <<>> \in Seq(Entries) /\ <<>> \in Seq(Segments)
      /\ <<>> \in Seq(Pieces) /\ <<>> \in Seq(Nat)
  BY EmptySeq
<1>2. TypeOK
  BY <1>1 DEF Init, TypeOK
<1>3. ThreadAtEntry
  BY DEF Init, ThreadAtEntry
<1>4. QED
  BY <1>2, <1>3 DEF TypeInv

\* Every step keeps the types; one step of the proof per action.
LEMMA StepTyped ==
    ASSUME TypeInv, PollSetMatchesSockets, [Next]_vars
    PROVE  TypeInv'
<1> USE DEF TypeInv
<1> USE DEF serverVars, clientVars, kernelVars
<1>a. m_fds \in Seq(Entries) /\ Len(m_fds) \in Nat /\ DOMAIN m_fds = 1 .. Len(m_fds)
  BY LenProperties DEF TypeOK
<1>b. \A f \in Fds : \A e \in SUBSET {"IN", "OUT"} :
         [fd |-> f, events |-> e, revents |-> {}] \in Entries
  BY DEF Entries
<1>1. CASE SkipSeenPort
  BY <1>1 DEF SkipSeenPort, TypeOK, ThreadAtEntry
<1>2. CASE CreateListener
  <2>1. PICK f \in Fds :
           /\ LowestFree(f)
           /\ sock' = [sock EXCEPT ![f] = ServerPorts[i]]
           /\ m_fdToPort' = [m_fdToPort EXCEPT ![f] = ServerPorts[i]]
           /\ m_fds' = Append(m_fds, [fd |-> f, events |-> {"IN"}, revents |-> {}])
    BY <1>2 DEF CreateListener
  <2>2. ServerPorts[i] \in Ports
    <3>1. i \in 1 .. Len(ServerPorts)
      BY <1>2, ServersAssumption, LenProperties DEF CreateListener, TypeOK
    <3>2. QED
      BY <3>1, ServersAssumption, ElementOfSeq
  <2>3. m_fds' \in Seq(Entries)
    BY <1>a, <1>b, <2>1, AppendProperties
  <2>4. QED
    BY <1>2, <2>1, <2>2, <2>3 DEF CreateListener, TypeOK, ThreadAtEntry
<1>3. CASE ListenersReady
  BY <1>3 DEF ListenersReady, TypeOK, ThreadAtEntry
<1>4. CASE ExitOnFailure
  BY <1>4 DEF ExitOnFailure, TypeOK, ThreadAtEntry
<1>5. CASE Poll
  <2>1. PICK failing \in SUBSET m_listenerFdSet :
           m_fds' = [k \in DOMAIN m_fds |->
                        [m_fds[k] EXCEPT !.revents = Reported(m_fds[k], failing)]]
    BY <1>5 DEF Poll
  <2>2. \A k \in 1 .. Len(m_fds) :
           [m_fds[k] EXCEPT !.revents = Reported(m_fds[k], failing)] \in Entries
    <3> TAKE k \in 1 .. Len(m_fds)
    <3>1. m_fds[k] \in Entries
      BY <1>a, ElementOfSeq
    <3>2. Reported(m_fds[k], failing) \subseteq {"IN", "OUT", "ERR"}
      BY <3>1 DEF Reported, Entries
    <3>3. QED
      BY <3>1, <3>2 DEF Entries
  <2>3. m_fds' \in [1 .. Len(m_fds) -> Entries]
    BY <1>a, <2>1, <2>2
  <2>4. m_fds' \in Seq(Entries)
    BY <1>a, <2>3
  <2>5. QED
    BY <1>5, <2>4 DEF Poll, TypeOK, ThreadAtEntry
<1>6. CASE EndScan
  BY <1>6 DEF EndScan, TypeOK, ThreadAtEntry
<1>7. CASE HandlePollError
  BY <1>7, ScanningEntry, CloseTyped DEF HandlePollError, TypeOK
<1>8. CASE PassOver
  BY <1>8 DEF PassOver, NextEntry, TypeOK, ThreadAtEntry
<1>9. CASE StartAccept
  BY <1>9, ScanningEntry DEF StartAccept, TypeOK, ThreadAtEntry, IsListener, Fd,
     m_listenerFdSet
<1>10. CASE Accept
  <2>1. PICK c \in Conns, f \in Fds :
           /\ Queued(c) /\ LowestFree(f)
           /\ sock' = [sock EXCEPT ![f] = c]
           /\ link' = [link EXCEPT ![c] = "open"]
           /\ m_fds' = Append(m_fds, [fd |-> f, events |-> {"IN", "OUT"},
                                      revents |-> {}])
           /\ m_clientOrigin' = [m_clientOrigin EXCEPT ![f] = Fd]
    BY <1>10 DEF Accept
  <2>2. i \in DOMAIN m_fds /\ Fd \in m_listenerFdSet
    BY <1>10 DEF Accept, ThreadAtEntry
  <2>3. /\ m_fds' \in Seq(Entries)
        /\ Len(m_fds') = Len(m_fds) + 1
        /\ \A k \in 1 .. Len(m_fds) : m_fds'[k] = m_fds[k]
    <3> DEFINE e == [fd |-> f, events |-> {"IN", "OUT"}, revents |-> {}]
    <3>1. e \in Entries
      BY <1>b
    <3> HIDE DEF e
    <3>2. QED
      BY <1>a, <2>1, <3>1, AppendProperties DEF e
  <2>4. DOMAIN m_fds' = 1 .. Len(m_fds')
    BY <2>3, LenProperties
  <2>5. Fd \in Fds
    BY <2>2, EntryType
  <2>6. TypeOK'
    BY <1>10, <2>1, <2>3, <2>5 DEF Accept, TypeOK
  <2>7. ThreadAtEntry'
    BY <1>10, <1>a, <2>2, <2>3, <2>4 DEF Accept, ThreadAtEntry, Fd, m_listenerFdSet
  <2>8. QED
    BY <2>6, <2>7
<1>11. CASE AcceptThenDrop
  BY <1>11 DEF AcceptThenDrop, TypeOK, ThreadAtEntry, Fd, m_listenerFdSet
<1>12. CASE EndAccept
  BY <1>12 DEF EndAccept, NextEntry, TypeOK, ThreadAtEntry
<1>13. CASE SendPart
  <2>1. sock[Fd] \in Conns /\ Fd \in Fds
    BY <1>13, ScanningEntry, ClientEntry DEF SendPart, Writing
  <2>2. PICK n \in 1 .. Len(m_outbuf[Fd]) - 1 :
           /\ got' = [got EXCEPT ![sock[Fd]] = @ \o SubSeq(m_outbuf[Fd], 1, n)]
           /\ m_outbuf' = [m_outbuf EXCEPT ![Fd] = Unsent(@, n)]
    BY <1>13 DEF SendPart
  <2>3. m_outbuf[Fd] \in Seq(Pieces) /\ Len(m_outbuf[Fd]) \in Nat
    BY <2>1, LenProperties DEF TypeOK
  <2>4. \A k \in 1 .. Len(m_outbuf[Fd]) : m_outbuf[Fd][k] \in Pieces
    BY <2>3, ElementOfSeq
  <2>5. SubSeq(m_outbuf[Fd], 1, n) \in Seq(Pieces)
    BY <2>2, <2>3, <2>4, SubSeqProperties
  <2>6. Unsent(m_outbuf[Fd], n) \in Seq(Pieces)
    <3>1. \A k \in n + 1 .. Len(m_outbuf[Fd]) : m_outbuf[Fd][k] \in Pieces
      BY <2>2, <2>3, <2>4
    <3>2. n + 1 \in Int /\ Len(m_outbuf[Fd]) \in Int
      BY <2>2, <2>3
    <3>3. QED
      BY <3>1, <3>2, SubSeqProperties DEF Unsent
  <2>7. got[sock[Fd]] \o SubSeq(m_outbuf[Fd], 1, n) \in Seq(Pieces)
    BY <2>1, <2>5, ConcatProperties DEF TypeOK
  <2>8. got' \in [Conns -> Seq(Pieces)] /\ m_outbuf' \in [Fds -> Seq(Pieces)]
    BY <2>1, <2>2, <2>6, <2>7 DEF TypeOK
  <2>9. QED
    BY <1>13, <2>8 DEF SendPart, NextEntry, TypeOK, ThreadAtEntry
<1>14. CASE SendRest
  <2>1. i \in DOMAIN m_fds /\ sock[Fd] \in Conns /\ Fd \in Fds
    BY <1>14, ScanningEntry, ClientEntry DEF SendRest, Writing
  <2>2. got[sock[Fd]] \o m_outbuf[Fd] \in Seq(Pieces)
    BY <2>1, ConcatProperties DEF TypeOK
  <2>3. got' \in [Conns -> Seq(Pieces)]
    BY <1>14, <2>1, <2>2 DEF SendRest, TypeOK
  <2>4. QED
    BY <1>14, <2>1, <2>3, CloseTyped DEF SendRest
<1>15. CASE SendFails
  BY <1>15, ScanningEntry, CloseTyped DEF SendFails, Writing, TypeOK
<1>16. CASE SendKillsServer \/ CgiKillsServer
  BY <1>16 DEF SendKillsServer, CgiKillsServer, TypeOK, ThreadAtEntry
<1>17. CASE ReadFails
  BY <1>17, ScanningEntry, CloseTyped DEF ReadFails, Reading, TypeOK
<1>18. CASE ReadIncomplete
  <2>1. taken' \in [Conns -> Nat] /\ m_inbuf' \in [Fds -> Seq(Segments)]
    BY <1>18, ReceiveTyped DEF ReadIncomplete
  <2>2. TypeOK'
    BY <1>18, <2>1 DEF ReadIncomplete, NextEntry, TypeOK
  <2>3. ThreadAtEntry'
    BY <1>18 DEF ReadIncomplete, NextEntry, ThreadAtEntry
  <2>4. QED
    BY <2>2, <2>3
<1>19. CASE RouteRequest
  <2>1. /\ taken' \in [Conns -> Nat] /\ m_inbuf' \in [Fds -> Seq(Segments)]
        /\ m_inbuf'[Fd] # <<>> /\ Fd \in Fds /\ sock[Fd] \in Conns
    BY <1>19, ReceiveTyped DEF RouteRequest, ReadComplete
  <2>2. m_inbuf'[Fd] \in Seq(Segments)
    BY <2>1
  <2>3. /\ RequestAt(m_inbuf'[Fd]) \in Nat
        /\ m_inbuf'[Fd][1][1] \in Conns
        /\ RoutedResponse(Fd, m_inbuf'[Fd]) \in Seq(Pieces)
    BY <2>1, <2>2, AnswerTyped
  <2>4. executed' \in [Conns -> Seq(Nat)]
    BY <1>19, <2>3, AppendProperties DEF RouteRequest, Execute, TypeOK
  <2>5. m_outbuf' \in [Fds -> Seq(Pieces)]
    BY <1>19, <2>3 DEF RouteRequest, TypeOK
  <2>6. m_fds' \in Seq(Entries)
    BY <1>19, <1>a, WantWriteProperties DEF RouteRequest
  <2>7. QED
    BY <1>19, <2>1, <2>4, <2>5, <2>6
    DEF RouteRequest, ReadComplete, NextEntry, TypeOK, ThreadAtEntry
<1>20. CASE StartCgi
  <2>1. /\ taken' \in [Conns -> Nat] /\ m_inbuf' \in [Fds -> Seq(Segments)]
        /\ m_inbuf'[Fd] # <<>> /\ Fd \in Fds /\ sock[Fd] \in Conns /\ i \in DOMAIN m_fds
    BY <1>20, ReceiveTyped DEF StartCgi, ReadComplete
  <2>2. RequestAt(m_inbuf'[Fd]) \in Nat /\ m_inbuf'[Fd][1][1] \in Conns
    BY <2>1, AnswerTyped
  <2>3. executed' \in [Conns -> Seq(Nat)]
    BY <1>20, <2>2, AppendProperties DEF StartCgi, Execute, TypeOK
  <2>4. TypeOK'
    BY <1>20, <2>1, <2>3 DEF StartCgi, ReadComplete, TypeOK
  <2>5. ThreadAtEntry'
    BY <1>20, <2>1 DEF StartCgi, ReadComplete, Receive, Reading, IsListener,
       ThreadAtEntry, Fd, m_listenerFdSet
  <2>6. QED
    BY <2>4, <2>5
<1>21. CASE FinishCgi
  <2>1. i \in DOMAIN m_fds /\ Fd \in Fds /\ m_inbuf[Fd] # <<>>
    BY <1>21, EntryType DEF FinishCgi, ThreadAtEntry
  <2>2. m_inbuf[Fd] \in Seq(Segments)
    BY <2>1 DEF TypeOK
  <2>3. PlainResponse(Fd, m_inbuf[Fd]) \in Seq(Pieces)
    BY <2>1, <2>2, AnswerTyped
  <2>4. m_fds' \in Seq(Entries)
    BY <1>21, <1>a, WantWriteProperties DEF FinishCgi
  <2>5. <<>> \in Seq(Segments)
    BY EmptySeq
  <2>6. m_outbuf' \in [Fds -> Seq(Pieces)] /\ m_inbuf' \in [Fds -> Seq(Segments)]
    BY <1>21, <2>3, <2>5 DEF FinishCgi, TypeOK
  <2>7. TypeOK'
    BY <1>21, <2>4, <2>6 DEF FinishCgi, NextEntry, TypeOK
  <2>8. ThreadAtEntry'
    BY <1>21 DEF FinishCgi, NextEntry, ThreadAtEntry
  <2>9. QED
    BY <2>7, <2>8
<1>22. CASE SendError
  <2>1. /\ taken' \in [Conns -> Nat] /\ m_inbuf' \in [Fds -> Seq(Segments)]
        /\ m_inbuf'[Fd] # <<>> /\ Fd \in Fds /\ sock[Fd] \in Conns /\ i \in DOMAIN m_fds
    BY <1>22, ReceiveTyped DEF SendError, ReadComplete
  <2>2. PlainResponse(Fd, m_inbuf'[Fd]) \in Seq(Pieces)
    BY <2>1, AnswerTyped
  <2>3. /\ m_fds' \in Seq(Entries) /\ Len(m_fds') = Len(m_fds)
        /\ \A k \in 1 .. Len(m_fds) : m_fds'[k].fd = m_fds[k].fd
    BY <1>22, <1>a, WantWriteProperties DEF SendError
  <2>4. DOMAIN m_fds' = DOMAIN m_fds
    BY <1>a, <2>3, LenProperties
  <2>5. TypeOK'
    BY <1>22, <2>1, <2>2, <2>3 DEF SendError, ReadComplete, TypeOK
  <2>6. ThreadAtEntry'
    BY <1>22, <1>a, <2>1, <2>3, <2>4 DEF SendError, ReadComplete, Receive, Reading,
       IsListener, ThreadAtEntry, Fd, m_listenerFdSet
  <2>7. QED
    BY <2>5, <2>6
<1>23. CASE CloseAfterError
  BY <1>23, CloseTyped DEF CloseAfterError, ThreadAtEntry, TypeOK
<1>24. CASE RouterThrows
  <2>1. taken' \in [Conns -> Nat] /\ m_inbuf' \in [Fds -> Seq(Segments)]
    BY <1>24, ReceiveTyped DEF RouterThrows, ReadComplete
  <2>2. TypeOK'
    BY <1>24, <2>1 DEF RouterThrows, ReadComplete, TypeOK
  <2>3. ThreadAtEntry'
    BY <1>24 DEF RouterThrows, ThreadAtEntry
  <2>4. QED
    BY <2>2, <2>3
<1>25. CASE \E c \in Conns : pc # "down" /\ Client(c)
  <2>1. UNCHANGED serverVars
    BY <1>25 DEF Client, Connect, SendSegment, PeerFin, PeerReset, Drain
  <2>2. ThreadAtEntry'
    BY <2>1 DEF ThreadAtEntry, Fd, m_listenerFdSet
  <2>3. PICK c \in Conns : Client(c)
    BY <1>25
  <2>4. CASE Connect(c)
    BY <2>2, <2>4 DEF Connect, TypeOK
  <2>5. CASE SendSegment(c)
    BY <2>2, <2>5 DEF SendSegment, TypeOK
  <2>6. CASE PeerFin(c)
    BY <2>2, <2>6 DEF PeerFin, TypeOK
  <2>7. CASE PeerReset(c)
    BY <2>2, <2>7 DEF PeerReset, TypeOK
  <2>8. CASE Drain(c)
    BY <2>2, <2>8 DEF Drain, TypeOK
  <2>9. QED
    BY <2>3, <2>4, <2>5, <2>6, <2>7, <2>8 DEF Client
<1>26. CASE UNCHANGED vars
  BY <1>26 DEF vars, TypeOK, ThreadAtEntry, Fd, m_listenerFdSet
<1>27. QED
  BY <1>1, <1>2, <1>3, <1>4, <1>5, <1>6, <1>7, <1>8, <1>9, <1>10, <1>11, <1>12,
     <1>13, <1>14, <1>15, <1>16, <1>17, <1>18, <1>19, <1>20, <1>21, <1>22, <1>23,
     <1>24, <1>25, <1>26 DEF Next, Server
-----------------------------------------------------------------------------
(***************************************************************************)
(* The poll set and the sockets.  While initializeListeners runs there are *)
(* listeners only, which is why a listener added later still comes first.  *)
(***************************************************************************)
ListenersOnly ==
    pc = "listen" => \A k \in DOMAIN m_fds : m_fds[k].fd \in m_listenerFdSet

PollInv == PollSetMatchesSockets /\ ListenersOnly

\* Steps that leave the sockets alone, and the entries in their places.
LEMMA SameSockets ==
    ASSUME TypeInv, TypeInv', PollInv,
           Len(m_fds') = Len(m_fds),
           \A k \in 1 .. Len(m_fds) : m_fds'[k].fd = m_fds[k].fd,
           UNCHANGED <<m_fdToPort, m_clientOrigin, sock, port>>,
           \A c \in Conns : link'[c] = "open" <=> link[c] = "open",
           pc' = "listen" => pc = "listen"
    PROVE  PollInv'
<1>1. /\ DOMAIN m_fds = 1 .. Len(m_fds)
      /\ DOMAIN m_fds' = 1 .. Len(m_fds)
  BY LenProperties DEF TypeInv, TypeOK
<1>2. EntriesAreOpenSockets'
  BY <1>1 DEF PollInv, PollSetMatchesSockets, EntriesAreOpenSockets
<1>3. ListenersKnown'
  BY DEF PollInv, PollSetMatchesSockets, ListenersKnown
<1>4. ClientsKnown'
  BY DEF PollInv, PollSetMatchesSockets, ClientsKnown
<1>5. ListenersFirst'
  BY <1>1 DEF PollInv, PollSetMatchesSockets, ListenersFirst, m_listenerFdSet
<1>6. ListenersOnly'
  BY <1>1 DEF PollInv, ListenersOnly, m_listenerFdSet
<1>7. QED
  BY <1>2, <1>3, <1>4, <1>5, <1>6 DEF PollInv, PollSetMatchesSockets

\* Steps that leave the poll set and the sockets alone altogether.
LEMMA SamePollSet ==
    ASSUME TypeInv, TypeInv', PollInv,
           UNCHANGED <<m_fds, m_fdToPort, m_clientOrigin, sock, link, port>>,
           pc' = "listen" => pc = "listen"
    PROVE  PollInv'
  BY SameSockets

\* closeClientConnection on the entry of a client.
LEMMA CloseMatches ==
    ASSUME TypeInv, TypeInv', PollInv, i \in DOMAIN m_fds, ~IsListener,
           CloseClientConnection
    PROVE  PollInv'
<1> DEFINE c == sock[Fd]
           Old(k) == IF k < i THEN k ELSE k + 1
<1>1. /\ i \in 1 .. Len(m_fds)
      /\ m_fds \in Seq(Entries) /\ Len(m_fds) \in Nat
      /\ DOMAIN m_fds = 1 .. Len(m_fds)
  BY EntryType, LenProperties DEF TypeInv, TypeOK
<1>2. c \in Conns /\ Fd \in Fds /\ c \notin Ports /\ None \notin Conns
  BY ClientEntry, NamesAssumption DEF PollInv, TypeInv
<1>3. /\ sock' = [sock EXCEPT ![Fd] = None]
      /\ link' = [link EXCEPT ![c] = "closed"]
      /\ m_clientOrigin' = [m_clientOrigin EXCEPT ![Fd] = None]
      /\ m_fdToPort' = m_fdToPort /\ port' = port
      /\ m_fds' = RemoveAt(m_fds, i)
      /\ pc' = "scan"
  BY DEF CloseClientConnection, ForgetClient, EraseEntry, clientVars
<1>4. /\ m_fds' \in Seq(Entries)
      /\ Len(m_fds') = Len(m_fds) - 1
      /\ \A j \in 1 .. Len(m_fds) - 1 :
            m_fds'[j] = IF j < i THEN m_fds[j] ELSE m_fds[j + 1]
  BY <1>1, <1>3, RemoveAtProperties
<1>5. DOMAIN m_fds' = 1 .. Len(m_fds) - 1
  BY <1>4, LenProperties
<1>o. /\ \A k \in DOMAIN m_fds' : /\ Old(k) \in DOMAIN m_fds /\ Old(k) # i
                                  /\ m_fds'[k] = m_fds[Old(k)]
      /\ \A k, l \in DOMAIN m_fds' : /\ k < l => Old(k) < Old(l)
                                     /\ Old(k) = Old(l) => k = l
  BY <1>1, <1>4, <1>5
<1> HIDE DEF Old
<1>6. EntriesAreOpenSockets'
  <2>1. \A k, l \in DOMAIN m_fds' : m_fds'[k].fd = m_fds'[l].fd => k = l
    BY <1>o DEF PollInv, PollSetMatchesSockets, EntriesAreOpenSockets
  <2>2. ASSUME NEW f \in Fds, sock'[f] # None
        PROVE  \E k \in DOMAIN m_fds' : m_fds'[k].fd = f
    <3>1. f # Fd /\ sock[f] # None
      BY <1>2, <1>3, <2>2 DEF TypeInv, TypeOK
    <3>2. PICK k \in DOMAIN m_fds : m_fds[k].fd = f
      BY <3>1 DEF PollInv, PollSetMatchesSockets, EntriesAreOpenSockets
    <3>3. k # i
      BY <3>1, <3>2 DEF Fd
    <3>4. CASE k < i
      <4>1. k \in DOMAIN m_fds' /\ m_fds'[k] = m_fds[k]
        BY <1>1, <1>4, <1>5, <3>2, <3>4
      <4>2. QED
        BY <3>2, <4>1
    <3>5. CASE k > i
      <4>1. k - 1 \in DOMAIN m_fds' /\ m_fds'[k - 1] = m_fds[k]
        BY <1>1, <1>4, <1>5, <3>2, <3>5
      <4>2. QED
        BY <3>2, <4>1
    <3>6. QED
      BY <1>1, <3>2, <3>3, <3>4, <3>5
  <2>3. ASSUME NEW f \in Fds, NEW k \in DOMAIN m_fds', m_fds'[k].fd = f
        PROVE  sock'[f] # None
    <3>1. PICK j \in DOMAIN m_fds : m_fds[j].fd = f /\ j # i
      BY <1>o, <2>3
    <3>2. f # Fd /\ sock[f] # None
      BY <3>1, <1>1 DEF PollInv, PollSetMatchesSockets, EntriesAreOpenSockets, Fd
    <3>3. QED
      BY <1>3, <3>2 DEF TypeInv, TypeOK
  <2>4. QED
    BY <2>1, <2>2, <2>3 DEF EntriesAreOpenSockets
<1>7. ListenersKnown'
  BY <1>2, <1>3, NamesAssumption
  DEF PollInv, PollSetMatchesSockets, ListenersKnown, TypeInv, TypeOK
<1>8. ClientsKnown'
  <2> USE DEF PollInv, PollSetMatchesSockets, ClientsKnown
  <2>1. \A f \in Fds : sock'[f] = IF f = Fd THEN None ELSE sock[f]
    BY <1>3 DEF TypeInv, TypeOK
  <2>2. \A f \in Fds : m_clientOrigin'[f] = IF f = Fd THEN None ELSE m_clientOrigin[f]
    BY <1>3 DEF TypeInv, TypeOK
  <2>3. \A d \in Conns : link'[d] = IF d = c THEN "closed" ELSE link[d]
    BY <1>3 DEF TypeInv, TypeOK
  <2>4. ASSUME NEW f \in Fds
        PROVE  IF sock'[f] \in Conns
               THEN /\ m_clientOrigin'[f] # None
                    /\ m_fdToPort'[m_clientOrigin'[f]] = port'[sock'[f]]
                    /\ link'[sock'[f]] = "open"
               ELSE m_clientOrigin'[f] = None
    <3>1. CASE f = Fd
      BY <1>2, <2>1, <2>2, <3>1
    <3>2. CASE f # Fd
      <4>1. sock'[f] = sock[f] /\ m_clientOrigin'[f] = m_clientOrigin[f]
        BY <2>1, <2>2, <3>2
      <4>2. sock[f] \in Conns => sock[f] # c
        BY <1>2, <3>2
      <4>3. sock[f] \in Conns => link'[sock[f]] = link[sock[f]]
        BY <2>3, <4>2
      <4>4. QED
        BY <1>3, <4>1, <4>3
    <3>3. QED
      BY <3>1, <3>2
  <2>5. \A d \in Conns : link'[d] = "open" => \E f \in Fds : sock'[f] = d
    <3> TAKE d \in Conns
    <3> HAVE link'[d] = "open"
    <3>1. d # c /\ link[d] = "open"
      BY <2>3
    <3>2. PICK f \in Fds : sock[f] = d
      BY <3>1
    <3>3. QED
      BY <2>1, <3>1, <3>2
  <2>6. \A f, g \in Fds : sock'[f] \in Conns /\ sock'[f] = sock'[g] => f = g
    BY <1>2, <2>1
  <2>7. QED
    BY <2>4, <2>5, <2>6
<1>9. ListenersFirst'
  BY <1>3, <1>o
  DEF PollInv, PollSetMatchesSockets, ListenersFirst, m_listenerFdSet
<1>10. ListenersOnly'
  BY <1>3 DEF ListenersOnly
<1>11. QED
  BY <1>6, <1>7, <1>8, <1>9, <1>10 DEF PollInv, PollSetMatchesSockets
\* An entry at the back for a descriptor that was free.
LEMMA AppendMatches ==
    ASSUME TypeInv, TypeInv', EntriesAreOpenSockets,
           NEW f \in Fds, NEW s, NEW e \in Entries, e.fd = f,
           sock[f] = None, s # None,
           sock' = [sock EXCEPT ![f] = s],
           m_fds' = Append(m_fds, e)
    PROVE  /\ EntriesAreOpenSockets'
           /\ DOMAIN m_fds = 1 .. Len(m_fds) /\ Len(m_fds) \in Nat
           /\ DOMAIN m_fds' = 1 .. Len(m_fds) + 1
           /\ \A k \in 1 .. Len(m_fds) : m_fds'[k] = m_fds[k]
           /\ m_fds'[Len(m_fds) + 1] = e
<1>1. m_fds \in Seq(Entries) /\ DOMAIN m_fds = 1 .. Len(m_fds) /\ Len(m_fds) \in Nat
  BY LenProperties DEF TypeInv, TypeOK
<1>2. /\ m_fds' \in Seq(Entries)
      /\ Len(m_fds') = Len(m_fds) + 1
      /\ \A k \in 1 .. Len(m_fds) : m_fds'[k] = m_fds[k]
      /\ m_fds'[Len(m_fds) + 1] = e
  BY <1>1, AppendProperties
<1>3. DOMAIN m_fds' = 1 .. Len(m_fds) + 1
  BY <1>2, LenProperties
<1>4. \A g \in Fds : sock'[g] = IF g = f THEN s ELSE sock[g]
  BY DEF TypeInv, TypeOK
<1>5. \A k \in DOMAIN m_fds : m_fds[k].fd \in Fds /\ m_fds[k].fd # f
  <2> TAKE k \in DOMAIN m_fds
  <2>1. m_fds[k] \in Entries
    BY <1>1, ElementOfSeq
  <2>2. QED
    BY <2>1 DEF EntriesAreOpenSockets, Entries
<1>6. \A k, l \in DOMAIN m_fds' : m_fds'[k].fd = m_fds'[l].fd => k = l
  <2> TAKE k, l \in DOMAIN m_fds'
  <2>1. CASE k \in DOMAIN m_fds /\ l \in DOMAIN m_fds
    BY <1>1, <1>2, <2>1 DEF EntriesAreOpenSockets
  <2>2. CASE k = Len(m_fds) + 1 \/ l = Len(m_fds) + 1
    BY <1>1, <1>2, <1>3, <1>5, <2>2
  <2>3. QED
    BY <1>1, <1>3, <2>1, <2>2
<1>7. \A g \in Fds : sock'[g] # None <=> \E k \in DOMAIN m_fds' : m_fds'[k].fd = g
  <2> TAKE g \in Fds
  <2>1. CASE g = f
    <3>1. Len(m_fds) + 1 \in DOMAIN m_fds'
      BY <1>1, <1>3
    <3>2. QED
      BY <1>2, <1>4, <2>1, <3>1
  <2>2. CASE g # f
    <3>1. \A k \in DOMAIN m_fds : k \in DOMAIN m_fds' /\ m_fds'[k] = m_fds[k]
      BY <1>1, <1>2, <1>3
    <3>2. \A k \in DOMAIN m_fds' : m_fds'[k].fd = g => k \in DOMAIN m_fds
      BY <1>1, <1>2, <1>3, <2>2
    <3>3. QED
      BY <1>4, <2>2, <3>1, <3>2 DEF EntriesAreOpenSockets
  <2>3. QED
    BY <2>1, <2>2
<1>8. QED
  BY <1>1, <1>2, <1>3, <1>6, <1>7 DEF EntriesAreOpenSockets

\* initializeListeners adds a listener behind listeners.
LEMMA CreateListenerMatches ==
    ASSUME TypeInv, TypeInv', PollInv, CreateListener
    PROVE  PollInv'
<1> USE DEF PollInv, PollSetMatchesSockets
<1> DEFINE entry(f) == [fd |-> f, events |-> {"IN"}, revents |-> {}]
           p == ServerPorts[i]
<1>1. PICK f \in Fds :
         /\ LowestFree(f)
         /\ sock' = [sock EXCEPT ![f] = p]
         /\ m_fdToPort' = [m_fdToPort EXCEPT ![f] = p]
         /\ m_fds' = Append(m_fds, entry(f))
  BY DEF CreateListener
<1>2. p \in Ports /\ p # None /\ p \notin Conns
  <2>1. i \in 1 .. Len(ServerPorts)
    BY ServersAssumption, LenProperties DEF CreateListener, TypeInv, TypeOK
  <2>2. QED
    BY <2>1, ServersAssumption, ElementOfSeq, NamesAssumption
<1>3. sock[f] = None /\ entry(f) \in Entries /\ entry(f).fd = f
  BY <1>1 DEF LowestFree, Entries
<1> HIDE DEF entry, p
<1>4. /\ EntriesAreOpenSockets'
      /\ DOMAIN m_fds = 1 .. Len(m_fds) /\ Len(m_fds) \in Nat
      /\ DOMAIN m_fds' = 1 .. Len(m_fds) + 1
      /\ \A k \in 1 .. Len(m_fds) : m_fds'[k] = m_fds[k]
      /\ m_fds'[Len(m_fds) + 1] = entry(f)
  BY <1>1, <1>2, <1>3, AppendMatches
<1>5. /\ \A g \in Fds : sock'[g] = IF g = f THEN p ELSE sock[g]
      /\ \A g \in Fds : m_fdToPort'[g] = IF g = f THEN p ELSE m_fdToPort[g]
      /\ UNCHANGED <<m_clientOrigin, link, port, pc>> /\ pc = "listen"
  BY <1>1 DEF TypeInv, TypeOK, CreateListener, clientVars
<1>6. ListenersKnown'
  BY <1>2, <1>3, <1>5, NamesAssumption DEF ListenersKnown
<1>7. \A k \in DOMAIN m_fds' : m_fds'[k].fd \in m_listenerFdSet'
  <2> TAKE k \in DOMAIN m_fds'
  <2>1. CASE k \in DOMAIN m_fds
    BY <1>2, <1>4, <1>5, <2>1 DEF ListenersOnly, m_listenerFdSet
  <2>2. CASE k = Len(m_fds) + 1
    BY <1>2, <1>3, <1>4, <1>5, <2>2 DEF m_listenerFdSet
  <2>3. QED
    BY <1>4, <2>1, <2>2
<1>8. ClientsKnown'
  <2>1. \A g \in Fds : sock[g] \notin Conns
    BY <1>4, <1>5, NamesAssumption
    DEF ListenersOnly, EntriesAreOpenSockets, ListenersKnown, m_listenerFdSet
  <2>2. QED
    BY <1>2, <1>3, <1>5, <2>1 DEF ClientsKnown
<1>9. ListenersFirst' /\ ListenersOnly'
  BY <1>7 DEF ListenersFirst, ListenersOnly
<1>10. QED
  BY <1>4, <1>6, <1>8, <1>9

\* acceptNewConnections adds a client behind all others.
LEMMA AcceptMatches ==
    ASSUME TypeInv, TypeInv', PollInv, Accept
    PROVE  PollInv'
<1> USE DEF PollInv, PollSetMatchesSockets
<1> DEFINE entry(f) == [fd |-> f, events |-> {"IN", "OUT"}, revents |-> {}]
<1>1. PICK c \in Conns, f \in Fds :
         /\ Queued(c) /\ LowestFree(f)
         /\ sock' = [sock EXCEPT ![f] = c]
         /\ link' = [link EXCEPT ![c] = "open"]
         /\ m_fds' = Append(m_fds, entry(f))
         /\ m_clientOrigin' = [m_clientOrigin EXCEPT ![f] = Fd]
  BY DEF Accept
<1>2. /\ pc = "accept" /\ i \in DOMAIN m_fds
      /\ Fd \in m_listenerFdSet /\ Fd \in Fds
      /\ UNCHANGED <<pc, m_fdToPort, port>>
  BY EntryType DEF Accept, TypeInv, ThreadAtEntry, clientVars
<1>3. c # None /\ c \notin Ports /\ Fd # None
  BY <1>2, NamesAssumption, MaxFdAssumption DEF Fds
<1>4. sock[f] = None /\ entry(f) \in Entries /\ entry(f).fd = f
  BY <1>1 DEF LowestFree, Entries
<1> HIDE DEF entry
<1>5. /\ EntriesAreOpenSockets'
      /\ DOMAIN m_fds = 1 .. Len(m_fds) /\ Len(m_fds) \in Nat
      /\ DOMAIN m_fds' = 1 .. Len(m_fds) + 1
      /\ \A k \in 1 .. Len(m_fds) : m_fds'[k] = m_fds[k]
      /\ m_fds'[Len(m_fds) + 1] = entry(f)
  BY <1>1, <1>3, <1>4, AppendMatches
<1>6. /\ \A g \in Fds : sock'[g] = IF g = f THEN c ELSE sock[g]
      /\ \A g \in Fds : m_clientOrigin'[g] = IF g = f THEN Fd ELSE m_clientOrigin[g]
      /\ \A d \in Conns : link'[d] = IF d = c THEN "open" ELSE link[d]
  BY <1>1 DEF TypeInv, TypeOK
<1>7. ListenersKnown'
  BY <1>2, <1>3, <1>4, <1>6, NamesAssumption DEF ListenersKnown
<1>8. m_fdToPort[f] = None
  BY <1>4, NamesAssumption DEF ListenersKnown
<1>9. ClientsKnown'
  <2>1. link[c] = "queued" /\ port[c] = sock[Fd] /\ m_fdToPort[Fd] = sock[Fd]
    BY <1>1, <1>2 DEF Queued, ListenersKnown, m_listenerFdSet
  <2>2. \A g \in Fds : sock[g] # c
    BY <2>1 DEF ClientsKnown
  <2>3. ASSUME NEW g \in Fds
        PROVE  IF sock'[g] \in Conns
               THEN /\ m_clientOrigin'[g] # None
                    /\ m_fdToPort'[m_clientOrigin'[g]] = port'[sock'[g]]
                    /\ link'[sock'[g]] = "open"
               ELSE m_clientOrigin'[g] = None
    <3>1. CASE g = f
      BY <1>2, <1>3, <1>6, <2>1, <3>1
    <3>2. CASE g # f
      BY <1>2, <1>6, <2>2, <3>2 DEF ClientsKnown
    <3>3. QED
      BY <3>1, <3>2
  <2>4. \A d \in Conns : link'[d] = "open" => \E g \in Fds : sock'[g] = d
    <3> TAKE d \in Conns
    <3> HAVE link'[d] = "open"
    <3>1. CASE d = c
      BY <1>6, <3>1
    <3>2. CASE d # c
      <4>1. PICK g \in Fds : sock[g] = d
        BY <1>6, <3>2 DEF ClientsKnown
      <4>2. g # f
        BY <1>4, <4>1, NamesAssumption
      <4>3. QED
        BY <1>6, <4>1, <4>2
    <3>3. QED
      BY <3>1, <3>2
  <2>5. \A g, h \in Fds : sock'[g] \in Conns /\ sock'[g] = sock'[h] => g = h
    BY <1>6, <2>2 DEF ClientsKnown
  <2>6. QED
    BY <2>3, <2>4, <2>5 DEF ClientsKnown
<1>10. ListenersFirst'
  <2> SUFFICES ASSUME NEW k \in DOMAIN m_fds', NEW l \in DOMAIN m_fds', k < l,
                      m_fds'[l].fd \in m_listenerFdSet'
               PROVE  m_fds'[k].fd \in m_listenerFdSet'
    BY DEF ListenersFirst
  <2>1. m_listenerFdSet' = m_listenerFdSet
    BY <1>2 DEF m_listenerFdSet
  <2>2. l # Len(m_fds) + 1
    BY <1>4, <1>5, <1>8, <2>1 DEF m_listenerFdSet
  <2>3. k \in DOMAIN m_fds /\ l \in DOMAIN m_fds
    BY <1>5, <2>2
  <2>4. QED
    BY <1>5, <2>1, <2>3 DEF ListenersFirst
<1>11. ListenersOnly'
  BY <1>2 DEF ListenersOnly
<1>12. QED
  BY <1>5, <1>7, <1>9, <1>10, <1>11
LEMMA InitMatches == Init => PollInv
<1> SUFFICES ASSUME Init PROVE PollInv
  OBVIOUS
<1>1. /\ m_fds = <<>> /\ DOMAIN m_fds = {}
      /\ \A f \in Fds : /\ sock[f] = None /\ m_fdToPort[f] = None
                        /\ m_clientOrigin[f] = None
      /\ \A c \in Conns : link[c] = "none"
  BY DEF Init
<1>2. QED
  BY <1>1, NamesAssumption
  DEF PollInv, PollSetMatchesSockets, EntriesAreOpenSockets, ListenersKnown,
      ClientsKnown, ListenersFirst, ListenersOnly

\* Every step keeps the poll set in line; one step of the proof per action.
LEMMA StepMatches ==
    ASSUME TypeInv, TypeInv', PollInv, [Next]_vars
    PROVE  PollInv'
<1> USE DEF serverVars, clientVars, kernelVars
<1>a. Len(m_fds) \in Nat /\ DOMAIN m_fds = 1 .. Len(m_fds)
  BY LenProperties DEF TypeInv, TypeOK
<1>b. ASSUME Scanning PROVE i \in DOMAIN m_fds
  BY <1>b, ScanningEntry DEF TypeInv
<1>c. ASSUME NEW f PROVE /\ Len(WantWrite(f)) = Len(m_fds)
                         /\ \A k \in 1 .. Len(m_fds) : WantWrite(f)[k].fd = m_fds[k].fd
  BY WantWriteProperties DEF TypeInv, TypeOK
<1>1. CASE SkipSeenPort \/ ListenersReady \/ ExitOnFailure \/ EndScan \/ PassOver
           \/ StartAccept \/ EndAccept \/ SendKillsServer \/ CgiKillsServer
  BY <1>1, SamePollSet
  DEF SkipSeenPort, ListenersReady, ExitOnFailure, EndScan, PassOver, StartAccept,
      EndAccept, SendKillsServer, CgiKillsServer, NextEntry
<1>2. CASE CreateListener
  BY <1>2, CreateListenerMatches
<1>3. CASE Poll
  <2>1. PICK failing \in SUBSET m_listenerFdSet :
           m_fds' = [k \in DOMAIN m_fds |->
                        [m_fds[k] EXCEPT !.revents = Reported(m_fds[k], failing)]]
    BY <1>3 DEF Poll
  <2>2. \A k \in 1 .. Len(m_fds) : m_fds'[k].fd = m_fds[k].fd
    <3> TAKE k \in 1 .. Len(m_fds)
    <3>1. m_fds[k] \in Entries
      BY <1>a, ElementOfSeq DEF TypeInv, TypeOK
    <3>2. m_fds'[k] = [m_fds[k] EXCEPT !.revents = Reported(m_fds[k], failing)]
      BY <1>a, <2>1
    <3>3. QED
      BY <3>1, <3>2 DEF Entries
  <2>3. Len(m_fds') = Len(m_fds)
    <3>1. DOMAIN m_fds' = 1 .. Len(m_fds)
      BY <1>a, <2>1
    <3>2. Len(m_fds') \in Nat /\ DOMAIN m_fds' = 1 .. Len(m_fds')
      BY LenProperties DEF TypeInv, TypeOK
    <3>3. QED
      BY <1>a, <3>1, <3>2
  <2>4. QED
    BY <1>3, <2>2, <2>3, SameSockets DEF Poll
<1>4. CASE Accept
  BY <1>4, AcceptMatches
<1>5. CASE AcceptThenDrop
  <2>1. PICK c \in Conns : link[c] = "queued" /\ link' = [link EXCEPT ![c] = "dropped"]
    BY <1>5 DEF AcceptThenDrop, Queued
  <2>2. \A d \in Conns : link'[d] = "open" <=> link[d] = "open"
    BY <2>1 DEF TypeInv, TypeOK
  <2>3. QED
    BY <1>5, <2>2, SameSockets DEF AcceptThenDrop
<1>6. CASE SendPart \/ ReadIncomplete \/ StartCgi \/ RouterThrows
  BY <1>6, SamePollSet
  DEF SendPart, ReadIncomplete, StartCgi, RouterThrows, ReadComplete, NextEntry
<1>7. CASE HandlePollError \/ SendRest \/ SendFails \/ ReadFails
  BY <1>7, <1>b, CloseMatches
  DEF HandlePollError, SendRest, SendFails, ReadFails, Writing, Reading
<1>8. CASE CloseAfterError
  BY <1>8, CloseMatches DEF CloseAfterError, TypeInv, ThreadAtEntry, IsListener
<1>9. CASE RouteRequest
  BY <1>9, <1>c, SameSockets DEF RouteRequest, ReadComplete, NextEntry
<1>10. CASE FinishCgi
  BY <1>10, <1>c, SameSockets DEF FinishCgi, NextEntry
<1>11. CASE SendError
  BY <1>11, <1>c, SameSockets DEF SendError, ReadComplete
<1>12. CASE \E c \in Conns : pc # "down" /\ Client(c)
  <2>1. PICK c \in Conns : Client(c)
    BY <1>12
  <2>2. CASE Connect(c)
    <3>1. \A d \in Conns : link'[d] = "open" <=> link[d] = "open"
      BY <2>2 DEF Connect, TypeInv, TypeOK
    <3>2. QED
      BY <2>2, <3>1, SameSockets DEF Connect
  <2>3. CASE SendSegment(c) \/ PeerFin(c) \/ PeerReset(c) \/ Drain(c)
    BY <2>3, SamePollSet DEF SendSegment, PeerFin, PeerReset, Drain
  <2>4. QED
    BY <2>1, <2>2, <2>3 DEF Client
<1>13. CASE UNCHANGED vars
  BY <1>13, SamePollSet DEF vars
<1>14. QED
  BY <1>1, <1>2, <1>3, <1>4, <1>5, <1>6, <1>7, <1>8, <1>9, <1>10, <1>11, <1>12,
     <1>13 DEF Next, Server

\* The two halves are inductive together only: a response is typed because the
\* scan's entry stands for a connection, and erase() shifts the entries
\* as it should because the index is one of the poll set.
LEMMA PollInvariant == Spec => [](TypeInv /\ PollInv)
<1>1. Init => TypeInv /\ PollInv
  BY InitTyped, InitMatches
<1>2. TypeInv /\ PollInv /\ [Next]_vars => TypeInv' /\ PollInv'
  <2> SUFFICES ASSUME TypeInv, PollInv, [Next]_vars PROVE TypeInv' /\ PollInv'
    OBVIOUS
  <2>1. TypeInv'
    BY StepTyped DEF PollInv
  <2>2. QED
    BY <2>1, StepMatches
<1>3. QED
  BY <1>1, <1>2, PTL DEF Spec

\* Type correctness: every variable of the event loop keeps its type, whatever
\* the clients, the kernel and the requests do.
THEOREM TypeCorrect == Spec => []TypeOK
<1>1. TypeInv => TypeOK
  BY DEF TypeInv
<1>2. QED
  BY <1>1, PollInvariant, PTL

\* Whenever a system call or a CGI returns, the thread stands at the entry the
\* call was made for.
THEOREM ThreadStaysAtEntry == Spec => []ThreadAtEntry
<1>1. TypeInv => ThreadAtEntry
  BY DEF TypeInv
<1>2. QED
  BY <1>1, PollInvariant, PTL

\* However often clients are accepted and closed in the middle of a scan, the
\* poll set, the two maps and the kernel's descriptor table agree.
THEOREM PollSetCorrect == Spec => []PollSetMatchesSockets
<1>1. PollInv => PollSetMatchesSockets
  BY DEF PollInv
<1>2. QED
  BY <1>1, PollInvariant, PTL
-----------------------------------------------------------------------------
(***************************************************************************)
(* The scan visits what poll reported exactly once.                        *)
(***************************************************************************)
InScan == pc \in {"scan", "accept", "cgi", "reject"}

\* What the entries from place n on report.
ReportedFrom(n) ==
    {f \in Fds : \E k \in n .. Len(m_fds) : m_fds[k].fd = f /\ m_fds[k].revents # {}}

\* An entry has nothing more to say once the scan has passed it: no later
\* entry has the same descriptor.
LEMMA PassEntry ==
    ASSUME TypeInv, PollInv, i \in DOMAIN m_fds
    PROVE  ReportedFrom(i + 1) = ReportedFrom(i) \ {Fd}
<1>1. i \in 1 .. Len(m_fds) /\ Len(m_fds) \in Nat /\ DOMAIN m_fds = 1 .. Len(m_fds)
  BY EntryType, LenProperties DEF TypeInv, TypeOK
<1>2. \A k \in i .. Len(m_fds) : m_fds[k].fd = Fd <=> k = i
  BY <1>1 DEF PollInv, PollSetMatchesSockets, EntriesAreOpenSockets, Fd
<1>3. QED
  BY <1>1, <1>2 DEF ReportedFrom

\* ++i, with the entries left in their places.
LEMMA NextEntryVisits ==
    ASSUME TypeInv, PollInv, ReadyVisitedOnce, i \in DOMAIN m_fds, InScan, NextEntry,
           Len(m_fds') = Len(m_fds),
           \A k \in 1 .. Len(m_fds) : /\ m_fds'[k].fd = m_fds[k].fd
                                      /\ m_fds'[k].revents = m_fds[k].revents
    PROVE  ReadyVisitedOnce'
<1>1. i \in Nat \ {0} /\ Len(m_fds) \in Nat
  BY EntryType DEF TypeInv, TypeOK
<1>2. due = ReportedFrom(i)
  BY DEF ReadyVisitedOnce, ReportedFrom, InScan
<1>3. due' = ReportedFrom(i + 1) /\ i' = i + 1 /\ pc' = "scan"
  BY <1>2, PassEntry DEF NextEntry
<1>4. ReportedFrom(i + 1) =
         {f \in Fds : \E k \in i' .. Len(m_fds') :
                         m_fds'[k].fd = f /\ m_fds'[k].revents # {}}
  BY <1>1, <1>3 DEF ReportedFrom
<1>5. QED
  BY <1>3, <1>4 DEF ReadyVisitedOnce

\* erase() moves the entries behind i up by one, and i stays.
LEMMA CloseVisits ==
    ASSUME TypeInv, PollInv, ReadyVisitedOnce, i \in DOMAIN m_fds, InScan,
           CloseClientConnection
    PROVE  ReadyVisitedOnce'
<1>1. i \in 1 .. Len(m_fds) /\ Len(m_fds) \in Nat /\ m_fds \in Seq(Entries)
  BY EntryType DEF TypeInv, TypeOK
<1>2. due' = ReportedFrom(i + 1) /\ i' = i /\ pc' = "scan" /\ m_fds' = RemoveAt(m_fds, i)
  BY PassEntry
  DEF ReadyVisitedOnce, ReportedFrom, InScan, CloseClientConnection, EraseEntry
<1>3. /\ Len(m_fds') = Len(m_fds) - 1
      /\ \A k \in i .. Len(m_fds) - 1 : m_fds'[k] = m_fds[k + 1]
  <2>1. /\ Len(RemoveAt(m_fds, i)) = Len(m_fds) - 1
        /\ \A k \in 1 .. Len(m_fds) - 1 :
              RemoveAt(m_fds, i)[k] = IF k < i THEN m_fds[k] ELSE m_fds[k + 1]
    BY <1>1, RemoveAtProperties
  <2>2. QED
    BY <1>1, <1>2, <2>1
<1>4. ASSUME NEW f \in Fds
      PROVE  (\E k \in i + 1 .. Len(m_fds) : m_fds[k].fd = f /\ m_fds[k].revents # {})
             <=> (\E k \in i .. Len(m_fds) - 1 :
                     m_fds'[k].fd = f /\ m_fds'[k].revents # {})
  <2>1. ASSUME NEW k \in i + 1 .. Len(m_fds)
        PROVE  k - 1 \in i .. Len(m_fds) - 1 /\ m_fds'[k - 1] = m_fds[k]
    BY <1>1, <1>3
  <2>2. ASSUME NEW k \in i .. Len(m_fds) - 1
        PROVE  k + 1 \in i + 1 .. Len(m_fds) /\ m_fds'[k] = m_fds[k + 1]
    BY <1>1, <1>3
  <2>3. QED
    BY <2>1, <2>2
<1>5. ReportedFrom(i + 1) =
         {f \in Fds : \E k \in i' .. Len(m_fds') :
                         m_fds'[k].fd = f /\ m_fds'[k].revents # {}}
  BY <1>2, <1>3, <1>4 DEF ReportedFrom
<1>6. QED
  BY <1>2, <1>5 DEF ReadyVisitedOnce

\* Steps that stay at the entry, or outside of the scan.
LEMMA StayVisits ==
    ASSUME TypeInv, ReadyVisitedOnce, UNCHANGED <<i, due>>,
           Len(m_fds') = Len(m_fds),
           \A k \in 1 .. Len(m_fds) : /\ m_fds'[k].fd = m_fds[k].fd
                                      /\ m_fds'[k].revents = m_fds[k].revents,
           pc' \in {"listen", "poll"} => pc \in {"listen", "poll"},
           InScan' => InScan
    PROVE  ReadyVisitedOnce'
<1>1. i \in Nat \ {0} /\ Len(m_fds) \in Nat
  BY LenProperties DEF TypeInv, TypeOK
<1>2. QED
  BY <1>1 DEF ReadyVisitedOnce, InScan

\* Steps that leave the scan's state alone altogether.
LEMMA StandVisits ==
    ASSUME ReadyVisitedOnce, UNCHANGED <<i, due, m_fds>>,
           pc' \in {"listen", "poll"} => pc \in {"listen", "poll"},
           InScan' => InScan
    PROVE  ReadyVisitedOnce'
  BY DEF ReadyVisitedOnce, InScan

\* An entry at the back that reports nothing is nothing to visit.
LEMMA AppendVisits ==
    ASSUME TypeInv, ReadyVisitedOnce, UNCHANGED <<pc, due>>,
           NEW e \in Entries, e.revents = {}, m_fds' = Append(m_fds, e),
           InScan => i' = i
    PROVE  ReadyVisitedOnce'
<1>1. m_fds \in Seq(Entries) /\ Len(m_fds) \in Nat /\ i \in Nat \ {0}
  BY LenProperties DEF TypeInv, TypeOK
<1>2. /\ Len(m_fds') = Len(m_fds) + 1
      /\ \A k \in 1 .. Len(m_fds) : m_fds'[k] = m_fds[k]
      /\ m_fds'[Len(m_fds) + 1] = e
  BY <1>1, AppendProperties
<1>3. \A k \in i .. Len(m_fds) + 1 :
         m_fds'[k].revents # {} => k \in i .. Len(m_fds)
  BY <1>1, <1>2
<1>4. \A k \in i .. Len(m_fds) : k \in i .. Len(m_fds) + 1 /\ m_fds'[k] = m_fds[k]
  BY <1>1, <1>2
<1>5. ReportedFrom(i) =
         {f \in Fds : \E k \in i .. Len(m_fds') :
                         m_fds'[k].fd = f /\ m_fds'[k].revents # {}}
  <2>1. ASSUME NEW f \in Fds
        PROVE  (\E k \in i .. Len(m_fds) : m_fds[k].fd = f /\ m_fds[k].revents # {})
               <=> (\E k \in i .. Len(m_fds') :
                       m_fds'[k].fd = f /\ m_fds'[k].revents # {})
    <3>1. i .. Len(m_fds') = i .. Len(m_fds) + 1
      BY <1>2
    <3>2. QED
      BY <1>3, <1>4, <3>1
  <2>2. QED
    BY <2>1 DEF ReportedFrom
<1>6. CASE InScan
  BY <1>5, <1>6 DEF ReadyVisitedOnce, InScan, ReportedFrom
<1>7. CASE ~InScan
  BY <1>7 DEF ReadyVisitedOnce, InScan
<1>8. QED
  BY <1>6, <1>7
\* Every step keeps track of what is to be visited; one step per action.
LEMMA StepVisits ==
    ASSUME TypeInv, TypeInv', PollInv, ReadyVisitedOnce, [Next]_vars
    PROVE  ReadyVisitedOnce'
<1> USE DEF serverVars, clientVars, kernelVars
<1>a. /\ Len(m_fds) \in Nat /\ DOMAIN m_fds = 1 .. Len(m_fds) /\ i \in Nat \ {0}
      /\ m_fds \in Seq(Entries)
  BY LenProperties DEF TypeInv, TypeOK
<1>b. ASSUME Scanning PROVE i \in DOMAIN m_fds /\ InScan
  BY <1>b, ScanningEntry DEF TypeInv, Scanning, InScan
<1>c. ASSUME NEW f
      PROVE  /\ Len(WantWrite(f)) = Len(m_fds)
             /\ \A k \in 1 .. Len(m_fds) : /\ WantWrite(f)[k].fd = m_fds[k].fd
                                           /\ WantWrite(f)[k].revents = m_fds[k].revents
  BY WantWriteProperties DEF TypeInv, TypeOK
<1>1. CASE SkipSeenPort \/ ListenersReady \/ ExitOnFailure
  BY <1>1 DEF SkipSeenPort, ListenersReady, ExitOnFailure, ReadyVisitedOnce
<1>2. CASE CreateListener
  <2>1. PICK f \in Fds :
           m_fds' = Append(m_fds, [fd |-> f, events |-> {"IN"}, revents |-> {}])
    BY <1>2 DEF CreateListener
  <2>2. [fd |-> f, events |-> {"IN"}, revents |-> {}] \in Entries
    BY DEF Entries
  <2>3. QED
    BY <1>2, <2>1, <2>2, AppendVisits DEF CreateListener, InScan
<1>3. CASE Poll
  <2>1. /\ due' = {f \in Fds : \E k \in DOMAIN m_fds :
                                  m_fds'[k].fd = f /\ m_fds'[k].revents # {}}
        /\ i' = 1 /\ pc' = "scan" /\ DOMAIN m_fds' = DOMAIN m_fds
    BY <1>3 DEF Poll
  <2>2. DOMAIN m_fds' = 1 .. Len(m_fds')
    BY LenProperties DEF TypeInv, TypeOK
  <2>3. QED
    BY <2>1, <2>2 DEF ReadyVisitedOnce
<1>4. CASE EndScan
  <2>1. i .. Len(m_fds) = {}
    BY <1>4, <1>a DEF EndScan
  <2>2. due = {}
    BY <1>4, <2>1 DEF EndScan, ReadyVisitedOnce
  <2>3. QED
    BY <1>4, <2>2 DEF EndScan, ReadyVisitedOnce
<1>5. CASE StartAccept \/ AcceptThenDrop \/ SendKillsServer \/ CgiKillsServer
           \/ StartCgi \/ RouterThrows
  BY <1>5, StandVisits
  DEF StartAccept, AcceptThenDrop, SendKillsServer, CgiKillsServer, StartCgi,
      RouterThrows, Scanning, Writing, ReadComplete, Receive, Reading, InScan
<1>6. CASE PassOver \/ SendPart \/ ReadIncomplete
  BY <1>6, <1>b, NextEntryVisits
  DEF PassOver, SendPart, ReadIncomplete, Writing, Receive, Reading
<1>7. CASE Accept
  <2>1. PICK f \in Fds :
           m_fds' = Append(m_fds, [fd |-> f, events |-> {"IN", "OUT"}, revents |-> {}])
    BY <1>7 DEF Accept
  <2>2. [fd |-> f, events |-> {"IN", "OUT"}, revents |-> {}] \in Entries
    BY DEF Entries
  <2>3. QED
    BY <1>7, <2>1, <2>2, AppendVisits DEF Accept
<1>8. CASE EndAccept
  BY <1>8, NextEntryVisits DEF EndAccept, TypeInv, ThreadAtEntry, InScan
<1>9. CASE HandlePollError \/ SendRest \/ SendFails \/ ReadFails
  BY <1>9, <1>b, CloseVisits
  DEF HandlePollError, SendRest, SendFails, ReadFails, Writing, Reading
<1>10. CASE CloseAfterError
  BY <1>10, CloseVisits DEF CloseAfterError, TypeInv, ThreadAtEntry, InScan
<1>11. CASE RouteRequest
  BY <1>11, <1>b, <1>c, NextEntryVisits
  DEF RouteRequest, ReadComplete, Receive, Reading
<1>12. CASE FinishCgi
  BY <1>12, <1>c, NextEntryVisits DEF FinishCgi, TypeInv, ThreadAtEntry, InScan
<1>13. CASE SendError
  BY <1>13, <1>b, <1>c, StayVisits
  DEF SendError, ReadComplete, Receive, Reading, InScan
<1>14. CASE \E c \in Conns : pc # "down" /\ Client(c)
  BY <1>14, StandVisits
  DEF Client, Connect, SendSegment, PeerFin, PeerReset, Drain, InScan
<1>15. CASE UNCHANGED vars
  BY <1>15, StandVisits DEF vars, InScan
<1>16. QED
  BY <1>1, <1>2, <1>3, <1>4, <1>5, <1>6, <1>7, <1>8, <1>9, <1>10, <1>11, <1>12,
     <1>13, <1>14, <1>15 DEF Next, Server

\* Whatever is accepted, closed or answered while the scan runs, it visits each
\* descriptor that poll reported once, and leaves none for the next round.
THEOREM ReadyVisited == Spec => []ReadyVisitedOnce
<1>1. Init => ReadyVisitedOnce
  BY DEF Init, ReadyVisitedOnce
<1>2. /\ TypeInv /\ TypeInv' /\ PollInv /\ ReadyVisitedOnce /\ [Next]_vars
      => ReadyVisitedOnce'
  BY StepVisits
<1>3. QED
  BY <1>1, <1>2, PollInvariant, PTL DEF Spec
=============================================================================
