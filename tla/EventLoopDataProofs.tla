------------------------ MODULE EventLoopDataProofs ------------------------
(***************************************************************************)
(* Theorems about the data the event loop moves: what is in a descriptor's *)
(* buffers is of the connection it stands for, and what a client receives  *)
(* is for it and from the server block of its port.                        *)
(***************************************************************************)
EXTENDS EventLoopProofs, WellFoundedInduction

-----------------------------------------------------------------------------
(***************************************************************************)
(* findServerByPort                                                        *)
(***************************************************************************)
LEMMA LeastElement ==
    ASSUME NEW T \in SUBSET Nat, T # {}
    PROVE  \E n \in T : \A m \in T : n <= m
<1> DEFINE R == OpToRel(<, Nat)
<1>1. IsWellFoundedOn(R, Nat)
  BY NatLessThanWellFounded
<1>2. \A m, n \in Nat : m < n => <<m, n>> \in R
  BY DEF OpToRel
<1> HIDE DEF R
<1>3. PICK n \in T : \A m \in T : ~ (<<m, n>> \in R)
  BY <1>1, WFMin
<1>4. \A m \in T : ~ (m < n)
  BY <1>2, <1>3
<1>5. \A m \in T : n <= m
  BY <1>4
<1>6. QED
  BY <1>5

\* A port that some block listens on is answered for by the first block of it.
LEMMA FindServerByPortCorrect ==
    ASSUME NEW p \in Ports
    PROVE  FindServerByPort(p) \in FirstWithPort(p)
<1> DEFINE T == {s \in DOMAIN ServerPorts : ServerPorts[s] = p}
<1>1. DOMAIN ServerPorts = 1 .. Len(ServerPorts) /\ Len(ServerPorts) \in Nat
  BY ServersAssumption, LenProperties
<1>2. T # {}
  BY DEF Ports, Range
<1>3. T \in SUBSET Nat
  BY <1>1
<1>4. PICK s \in T : \A t \in T : s <= t
  <2> HIDE DEF T
  <2>1. QED
    BY <1>2, <1>3, LeastElement
<1>5. \A t \in 1 .. s - 1 : ServerPorts[t] # p
  BY <1>1, <1>4
<1>6. FirstWithPort(p) # {}
  BY <1>4, <1>5 DEF FirstWithPort
<1>7. QED
  BY <1>6 DEF FindServerByPort

-----------------------------------------------------------------------------
(***************************************************************************)
(* The invariant, descriptor by descriptor.                                *)
(***************************************************************************)
\* buf holds the last of the n segments received from c.
OwnInput(buf, c, n) ==
    /\ Len(buf) <= n
    /\ \A k \in DOMAIN buf : buf[k] = <<c, n - Len(buf) + k>>

\* All pieces of s are for c, from the first server block of port p.
OwnPieces(s, c, p) == \A k \in DOMAIN s : s[k].to = c /\ s[k].server \in FirstWithPort(p)

InputOwned ==
    \A f \in Fds : IF sock[f] \in Conns
                   THEN OwnInput(m_inbuf[f], sock[f], taken[sock[f]])
                   ELSE m_inbuf[f] = <<>>

OutputOwned ==
    \A f \in Fds : IF sock[f] \in Conns
                   THEN OwnPieces(m_outbuf[f], sock[f], port[sock[f]])
                   ELSE m_outbuf[f] = <<>>

GotOwned == \A c \in Conns : OwnPieces(got[c], c, port[c])

LEMMA FrontOwn ==
    ASSUME NEW buf \in Seq(Segments), NEW c, NEW n, OwnInput(buf, c, n), buf # <<>>
    PROVE  buf[1][1] = c
<1>1. 1 \in DOMAIN buf
  BY LenProperties, EmptySeq
<1>2. QED
  BY <1>1 DEF OwnInput

LEMMA AppendOwn ==
    ASSUME NEW buf \in Seq(Segments), NEW c \in Conns, NEW n \in Nat,
           OwnInput(buf, c, n), NEW m \in Nat
    PROVE  OwnInput(buf \o [k \in 1 .. m |-> <<c, n + k>>], c, n + m)
<1> DEFINE new == [k \in 1 .. m |-> <<c, n + k>>]
           all == buf \o new
<1>1. new \in Seq(Segments) /\ Len(new) = m
  <2>1. \A k \in 1 .. m : <<c, n + k>> \in Segments
    BY DEF Segments
  <2>2. new \in [1 .. m -> Segments]
    BY <2>1
  <2>3. QED
    BY <2>2
<1>2. Len(buf) \in Nat /\ DOMAIN buf = 1 .. Len(buf)
  BY LenProperties
<1>3. \A k \in 1 .. m : new[k] = <<c, n + k>>
  OBVIOUS
<1> HIDE DEF new
<1>4. /\ all \in Seq(Segments)
      /\ Len(all) = Len(buf) + m
      /\ \A k \in 1 .. Len(buf) + m :
            all[k] = IF k <= Len(buf) THEN buf[k] ELSE new[k - Len(buf)]
  BY <1>1, ConcatProperties
<1>5. DOMAIN all = 1 .. Len(buf) + m
  BY <1>4, LenProperties
<1> HIDE DEF all
<1>6. ASSUME NEW k \in 1 .. Len(buf) + m
      PROVE  all[k] = <<c, (n + m) - Len(all) + k>>
  <2>1. CASE k <= Len(buf)
    <3>1. all[k] = <<c, n - Len(buf) + k>>
      BY <1>2, <1>4, <2>1 DEF OwnInput
    <3>2. n - Len(buf) + k = (n + m) - Len(all) + k
      BY <1>2, <1>4
    <3>3. QED
      BY <3>1, <3>2
  <2>2. CASE k > Len(buf)
    <3>1. k - Len(buf) \in 1 .. m
      BY <1>2, <2>2
    <3>2. all[k] = <<c, n + (k - Len(buf))>>
      BY <1>2, <1>3, <1>4, <2>2, <3>1
    <3>3. n + (k - Len(buf)) = (n + m) - Len(all) + k
      BY <1>2, <1>4
    <3>4. QED
      BY <3>2, <3>3
  <2>3. QED
    BY <1>2, <2>1, <2>2
<1>7. Len(all) <= n + m
  BY <1>2, <1>4 DEF OwnInput
<1>8. OwnInput(all, c, n + m)
  BY <1>5, <1>6, <1>7 DEF OwnInput
<1>9. QED
  BY <1>8 DEF all, new

LEMMA ConcatOwn ==
    ASSUME NEW s \in Seq(Pieces), NEW t \in Seq(Pieces), NEW c, NEW p,
           OwnPieces(s, c, p), OwnPieces(t, c, p)
    PROVE  OwnPieces(s \o t, c, p)
<1>1. /\ DOMAIN s = 1 .. Len(s) /\ Len(s) \in Nat
      /\ DOMAIN t = 1 .. Len(t) /\ Len(t) \in Nat
  BY LenProperties
<1>2. /\ DOMAIN (s \o t) = 1 .. Len(s) + Len(t)
      /\ \A k \in 1 .. Len(s) + Len(t) :
            (s \o t)[k] = IF k <= Len(s) THEN s[k] ELSE t[k - Len(s)]
  BY ConcatProperties, LenProperties
<1>3. \A k \in 1 .. Len(s) + Len(t) :
         \/ k \in 1 .. Len(s) /\ (s \o t)[k] = s[k]
         \/ k - Len(s) \in 1 .. Len(t) /\ (s \o t)[k] = t[k - Len(s)]
  BY <1>1, <1>2
<1>4. QED
  BY <1>1, <1>2, <1>3 DEF OwnPieces

\* The front that send() took, and the rest that it left.
LEMMA PartOwn ==
    ASSUME NEW s \in Seq(Pieces), NEW a \in Nat \ {0}, NEW b \in Nat, b <= Len(s),
           NEW c, NEW p, OwnPieces(s, c, p)
    PROVE  SubSeq(s, a, b) \in Seq(Pieces) /\ OwnPieces(SubSeq(s, a, b), c, p)
<1>1. DOMAIN s = 1 .. Len(s) /\ Len(s) \in Nat
  BY LenProperties
<1>2. \A k \in a .. b : s[k] \in Pieces
  <2>1. \A k \in a .. b : k \in 1 .. Len(s)
    BY <1>1
  <2>2. QED
    BY <2>1, ElementOfSeq
<1>3. a \in Int /\ b \in Int
  OBVIOUS
<1>4. /\ SubSeq(s, a, b) \in Seq(Pieces)
      /\ Len(SubSeq(s, a, b)) = IF a <= b THEN b - a + 1 ELSE 0
      /\ \A k \in 1 .. b - a + 1 : SubSeq(s, a, b)[k] = s[a + k - 1]
  BY <1>2, <1>3, SubSeqProperties
<1> DEFINE r == SubSeq(s, a, b)
<1>5. DOMAIN r = 1 .. Len(r)
  BY <1>4, LenProperties
<1> HIDE DEF r
<1>6. \A k \in DOMAIN r : k \in 1 .. b - a + 1 /\ a + k - 1 \in 1 .. Len(s)
  BY <1>1, <1>4, <1>5 DEF r
<1>7. \A k \in DOMAIN r : r[k] = s[a + k - 1]
  BY <1>4, <1>6 DEF r
<1>8. OwnPieces(r, c, p)
  BY <1>1, <1>6, <1>7 DEF OwnPieces
<1>9. QED
  BY <1>4, <1>8 DEF r

\* What is composed for the entry of a client is for that client, from a block
\* of the port its connection was made to.
LEMMA AnswerOwn ==
    ASSUME TypeInv, PollInv, NEW f \in Fds, sock[f] \in Conns,
           NEW buf, buf[1][1] = sock[f]
    PROVE  /\ OwnPieces(RoutedResponse(f, buf), sock[f], port[sock[f]])
           /\ OwnPieces(PlainResponse(f, buf), sock[f], port[sock[f]])
<1> DEFINE c == sock[f]
<1>1. m_fdToPort[m_clientOrigin[f]] = port[c]
  BY DEF PollInv, PollSetMatchesSockets, ClientsKnown
<1>2. port[c] \in Ports
  BY DEF TypeInv, TypeOK
<1>3. CurrentServer(f) \in FirstWithPort(port[c])
  BY <1>1, <1>2, FindServerByPortCorrect DEF CurrentServer
<1>4. \A r, a : OwnPieces(Response(c, r, a, CurrentServer(f)), c, port[c])
  BY <1>3 DEF Response, OwnPieces
<1>5. QED
  BY <1>4 DEF RoutedResponse, PlainResponse

-----------------------------------------------------------------------------
(***************************************************************************)
(* The ways a step changes the buffers.                                    *)
(***************************************************************************)
LEMMA CloseOwned ==
    ASSUME TypeInv, PollInv, InputOwned, OutputOwned, i \in DOMAIN m_fds, ~IsListener,
           CloseClientConnection
    PROVE  InputOwned' /\ OutputOwned'
<1>1. sock[Fd] \in Conns /\ Fd \in Fds
  BY ClientEntry DEF PollInv, TypeInv
<1>2. /\ \A f \in Fds : sock'[f] = IF f = Fd THEN None ELSE sock[f]
      /\ \A f \in Fds : m_inbuf'[f] = IF f = Fd THEN <<>> ELSE m_inbuf[f]
      /\ \A f \in Fds : m_outbuf'[f] = IF f = Fd THEN <<>> ELSE m_outbuf[f]
      /\ UNCHANGED <<taken, port>>
  BY DEF CloseClientConnection, ForgetClient, TypeInv, TypeOK, clientVars
<1>3. None \notin Conns
  BY NamesAssumption
<1>4. QED
  BY <1>2, <1>3 DEF InputOwned, OutputOwned

\* A descriptor that was free has empty buffers, whatever it becomes.
LEMMA OpenOwned ==
    ASSUME TypeInv, InputOwned, OutputOwned,
           NEW f \in Fds, NEW s, sock[f] = None, sock' = [sock EXCEPT ![f] = s],
           UNCHANGED <<m_inbuf, m_outbuf, taken, port>>
    PROVE  InputOwned' /\ OutputOwned'
<1>1. \A g \in Fds : sock'[g] = IF g = f THEN s ELSE sock[g]
  BY DEF TypeInv, TypeOK
<1>2. m_inbuf[f] = <<>> /\ m_outbuf[f] = <<>>
  BY NamesAssumption DEF InputOwned, OutputOwned
<1>3. \A c \in Conns : OwnInput(<<>>, c, taken[c]) /\ OwnPieces(<<>>, c, port[c])
  <2>1. \A c \in Conns : taken[c] \in Nat
    BY DEF TypeInv, TypeOK
  <2>2. QED
    BY <2>1 DEF OwnInput, OwnPieces
<1>4. QED
  BY <1>1, <1>2, <1>3 DEF InputOwned, OutputOwned

\* recv() appends to the buffer of its own connection, and no other descriptor
\* stands for that connection.
LEMMA ReceiveOwned ==
    ASSUME TypeInv, PollInv, InputOwned, Receive, UNCHANGED sock
    PROVE  /\ InputOwned'
           /\ Fd \in Fds /\ sock[Fd] \in Conns
           /\ m_inbuf'[Fd][1][1] = sock[Fd]
<1> DEFINE c == sock[Fd]
<1>1. /\ Fd \in Fds /\ c \in Conns
      /\ m_inbuf'[Fd] \in Seq(Segments) /\ m_inbuf'[Fd] # <<>>
  BY ReceiveTyped DEF PollInv, TypeInv
<1>2. PICK n \in 1 .. Unread(c) :
         /\ taken' = [taken EXCEPT ![c] = @ + n]
         /\ m_inbuf' = [m_inbuf EXCEPT ![Fd] =
                           @ \o [k \in 1 .. n |-> <<c, taken[c] + k>>]]
  BY DEF Receive
<1>3. taken[c] \in Nat /\ n \in Nat /\ m_inbuf[Fd] \in Seq(Segments)
  BY <1>1, <1>2 DEF Unread, TypeInv, TypeOK
<1>4. /\ \A d \in Conns : taken'[d] = IF d = c THEN taken[c] + n ELSE taken[d]
      /\ \A f \in Fds : f # Fd => m_inbuf'[f] = m_inbuf[f]
      /\ m_inbuf'[Fd] = m_inbuf[Fd] \o [k \in 1 .. n |-> <<c, taken[c] + k>>]
  BY <1>1, <1>2 DEF TypeInv, TypeOK
<1>5. OwnInput(m_inbuf[Fd], c, taken[c])
  BY <1>1 DEF InputOwned
<1>6. OwnInput(m_inbuf'[Fd], c, taken'[c])
  BY <1>1, <1>3, <1>4, <1>5, AppendOwn
<1>7. \A f \in Fds : f # Fd /\ sock[f] \in Conns => sock[f] # c
  BY <1>1 DEF PollInv, PollSetMatchesSockets, ClientsKnown
<1>8. InputOwned'
  <2> SUFFICES ASSUME NEW f \in Fds
               PROVE  IF sock'[f] \in Conns
                      THEN OwnInput(m_inbuf'[f], sock'[f], taken'[sock'[f]])
                      ELSE m_inbuf'[f] = <<>>
    BY DEF InputOwned
  <2>1. CASE f = Fd
    BY <1>1, <1>6, <2>1
  <2>2. CASE f # Fd
    BY <1>4, <1>7, <2>2 DEF InputOwned
  <2>3. QED
    BY <2>1, <2>2
<1>9. m_inbuf'[Fd][1][1] = c
  BY <1>1, <1>6, FrontOwn
<1>10. QED
  BY <1>1, <1>8, <1>9

\* A response is put into the buffer of the entry it was composed for.
LEMMA AnswerOwned ==
    ASSUME TypeInv, PollInv, OutputOwned, NEW f \in Fds, sock[f] \in Conns,
           NEW buf, buf[1][1] = sock[f],
           \/ m_outbuf' = [m_outbuf EXCEPT ![f] = RoutedResponse(f, buf)]
           \/ m_outbuf' = [m_outbuf EXCEPT ![f] = PlainResponse(f, buf)],
           UNCHANGED <<sock, port>>
    PROVE  OutputOwned'
<1>1. OwnPieces(m_outbuf'[f], sock[f], port[sock[f]])
  BY AnswerOwn DEF TypeInv, TypeOK
<1>2. \A g \in Fds : g # f => m_outbuf'[g] = m_outbuf[g]
  BY DEF TypeInv, TypeOK
<1>3. QED
  BY <1>1, <1>2 DEF OutputOwned

\* Every step keeps the buffers of a connection its own; one step per action.
LEMMA StepOwned ==
    ASSUME TypeInv, TypeInv', PollInv, InputOwned, OutputOwned, GotOwned, [Next]_vars
    PROVE  InputOwned' /\ OutputOwned' /\ GotOwned'
<1> USE DEF serverVars, clientVars, kernelVars
<1>a. ASSUME Scanning PROVE i \in DOMAIN m_fds
  BY <1>a, ScanningEntry DEF TypeInv
<1>b. ASSUME UNCHANGED <<m_inbuf, m_outbuf, sock, taken, got, port>>
      PROVE  InputOwned' /\ OutputOwned' /\ GotOwned'
  BY <1>b DEF InputOwned, OutputOwned, GotOwned
<1>c. ASSUME UNCHANGED <<got, port>> PROVE GotOwned'
  BY <1>c DEF GotOwned
<1>d. ASSUME UNCHANGED <<m_outbuf, sock, port>> PROVE OutputOwned'
  BY <1>d DEF OutputOwned
<1>e. ASSUME Writing
      PROVE  /\ Fd \in Fds /\ sock[Fd] \in Conns /\ i \in DOMAIN m_fds
             /\ m_outbuf[Fd] \in Seq(Pieces) /\ Len(m_outbuf[Fd]) \in Nat
             /\ OwnPieces(m_outbuf[Fd], sock[Fd], port[sock[Fd]])
  <2>1. i \in DOMAIN m_fds /\ Fd \in Fds /\ sock[Fd] \in Conns
    BY <1>a, <1>e, ClientEntry DEF Writing, PollInv, TypeInv
  <2>2. m_outbuf[Fd] \in Seq(Pieces)
    BY <2>1 DEF TypeInv, TypeOK
  <2>3. QED
    BY <2>1, <2>2, LenProperties DEF OutputOwned
<1>f. ASSUME NEW new \in Seq(Pieces), NEW c \in Conns,
             OwnPieces(new, c, port[c]),
             got' = [got EXCEPT ![c] = @ \o new], UNCHANGED port
      PROVE  GotOwned'
  <2>1. \A d \in Conns : got'[d] = IF d = c THEN got[c] \o new ELSE got[d]
    BY <1>f DEF TypeInv, TypeOK
  <2>2. OwnPieces(got[c] \o new, c, port[c])
    BY <1>f, ConcatOwn DEF TypeInv, TypeOK, GotOwned
  <2>3. QED
    BY <1>f, <2>1, <2>2 DEF GotOwned
<1>1. CASE SkipSeenPort \/ ListenersReady \/ ExitOnFailure \/ Poll \/ EndScan \/ PassOver
           \/ StartAccept \/ AcceptThenDrop \/ EndAccept \/ SendKillsServer
           \/ CgiKillsServer
  BY <1>1, <1>b
  DEF SkipSeenPort, ListenersReady, ExitOnFailure, Poll, EndScan, PassOver, StartAccept,
      AcceptThenDrop, EndAccept, SendKillsServer, CgiKillsServer
<1>2. CASE CreateListener
  <2>1. PICK f \in Fds : LowestFree(f) /\ sock' = [sock EXCEPT ![f] = ServerPorts[i]]
    BY <1>2 DEF CreateListener
  <2>2. QED
    BY <1>2, <1>c, <2>1, OpenOwned DEF CreateListener, LowestFree
<1>3. CASE Accept
  <2>1. PICK c \in Conns, f \in Fds : LowestFree(f) /\ sock' = [sock EXCEPT ![f] = c]
    BY <1>3 DEF Accept
  <2>2. QED
    BY <1>3, <1>c, <2>1, OpenOwned DEF Accept, LowestFree
<1>4. CASE HandlePollError \/ SendFails \/ ReadFails
  <2>1. GotOwned'
    BY <1>4, <1>c
    DEF HandlePollError, SendFails, ReadFails, CloseClientConnection
  <2>2. QED
    BY <1>4, <1>a, <2>1, CloseOwned
    DEF HandlePollError, SendFails, ReadFails, Writing, Reading
<1>5. CASE CloseAfterError
  <2>1. i \in DOMAIN m_fds /\ ~IsListener
    BY <1>5 DEF CloseAfterError, TypeInv, ThreadAtEntry, IsListener
  <2>2. QED
    BY <1>5, <1>c, <2>1, CloseOwned DEF CloseAfterError, CloseClientConnection
<1>6. CASE SendPart
  <2>1. PICK n \in 1 .. Len(m_outbuf[Fd]) - 1 :
           /\ got' = [got EXCEPT ![sock[Fd]] = @ \o SubSeq(m_outbuf[Fd], 1, n)]
           /\ m_outbuf' = [m_outbuf EXCEPT ![Fd] = Unsent(@, n)]
    BY <1>6 DEF SendPart
  <2>2. Writing /\ UNCHANGED <<m_inbuf, sock, taken, port>>
    BY <1>6 DEF SendPart
  <2>3. n \in Nat /\ n <= Len(m_outbuf[Fd]) /\ 1 \in Nat \ {0} /\ n + 1 \in Nat \ {0}
    BY <1>e, <2>1, <2>2
  <2>4. GotOwned'
    <3>1. /\ SubSeq(m_outbuf[Fd], 1, n) \in Seq(Pieces)
          /\ OwnPieces(SubSeq(m_outbuf[Fd], 1, n), sock[Fd], port[sock[Fd]])
      BY <1>e, <2>2, <2>3, PartOwn
    <3>2. QED
      BY <1>e, <1>f, <2>1, <2>2, <3>1
  <2>5. OutputOwned'
    <3>1. OwnPieces(Unsent(m_outbuf[Fd], n), sock[Fd], port[sock[Fd]])
      BY <1>e, <2>2, <2>3, PartOwn DEF Unsent
    <3>2. \A f \in Fds : m_outbuf'[f] = IF f = Fd THEN Unsent(m_outbuf[Fd], n)
                                                  ELSE m_outbuf[f]
      BY <2>1 DEF TypeInv, TypeOK
    <3>3. QED
      BY <1>e, <2>2, <3>1, <3>2 DEF OutputOwned
  <2>6. InputOwned'
    BY <2>2 DEF InputOwned
  <2>7. QED
    BY <2>4, <2>5, <2>6
<1>7. CASE SendRest
  <2>1. /\ Writing /\ CloseClientConnection /\ ~IsListener
        /\ got' = [got EXCEPT ![sock[Fd]] = @ \o m_outbuf[Fd]]
    BY <1>7 DEF SendRest, Writing
  <2>2. GotOwned'
    BY <1>e, <1>f, <2>1 DEF CloseClientConnection
  <2>3. QED
    BY <1>e, <2>1, <2>2, CloseOwned
<1>8. CASE ReadIncomplete \/ RouterThrows \/ StartCgi
  <2>1. Receive /\ UNCHANGED <<sock, got, port, m_outbuf>>
    BY <1>8 DEF ReadIncomplete, RouterThrows, StartCgi, ReadComplete
  <2>2. QED
    BY <1>c, <1>d, <2>1, ReceiveOwned
<1>9. CASE RouteRequest
  <2>1. /\ Receive /\ UNCHANGED <<sock, got, port>>
        /\ m_outbuf' = [m_outbuf EXCEPT ![Fd] = RoutedResponse(Fd, m_inbuf'[Fd])]
    BY <1>9 DEF RouteRequest, ReadComplete
  <2>2. QED
    BY <1>c, <2>1, ReceiveOwned, AnswerOwned
<1>10. CASE SendError
  <2>1. /\ Receive /\ UNCHANGED <<sock, got, port>>
        /\ m_outbuf' = [m_outbuf EXCEPT ![Fd] = PlainResponse(Fd, m_inbuf'[Fd])]
    BY <1>10 DEF SendError, ReadComplete
  <2>2. QED
    BY <1>c, <2>1, ReceiveOwned, AnswerOwned
<1>11. CASE FinishCgi
  <2>1. /\ UNCHANGED <<sock, got, port, taken>>
        /\ m_outbuf' = [m_outbuf EXCEPT ![Fd] = PlainResponse(Fd, m_inbuf[Fd])]
        /\ m_inbuf' = [m_inbuf EXCEPT ![Fd] = <<>>]
    BY <1>11 DEF FinishCgi
  <2>2. i \in DOMAIN m_fds /\ ~IsListener /\ m_inbuf[Fd] # <<>>
    BY <1>11 DEF FinishCgi, TypeInv, ThreadAtEntry, IsListener
  <2>3. Fd \in Fds /\ sock[Fd] \in Conns
    BY <2>2, ClientEntry DEF PollInv, TypeInv
  <2>4. m_inbuf[Fd][1][1] = sock[Fd]
    BY <2>2, <2>3, FrontOwn DEF InputOwned, TypeInv, TypeOK
  <2>5. OutputOwned'
    BY <2>1, <2>3, <2>4, AnswerOwned
  <2>6. InputOwned'
    <3>1. \A f \in Fds : m_inbuf'[f] = IF f = Fd THEN <<>> ELSE m_inbuf[f]
      BY <2>1 DEF TypeInv, TypeOK
    <3>2. \A c \in Conns : OwnInput(<<>>, c, taken[c])
      <4>1. \A c \in Conns : taken[c] \in Nat
        BY DEF TypeInv, TypeOK
      <4>2. QED
        BY <4>1 DEF OwnInput
    <3>3. QED
      BY <2>1, <2>3, <3>1, <3>2 DEF InputOwned
  <2>7. QED
    BY <1>c, <2>1, <2>5, <2>6
<1>12. CASE \E c \in Conns : pc # "down" /\ Client(c)
  BY <1>12, <1>b DEF Client, Connect, SendSegment, PeerFin, PeerReset, Drain
<1>13. CASE UNCHANGED vars
  BY <1>13, <1>b DEF vars
<1>14. QED
  BY <1>1, <1>2, <1>3, <1>4, <1>5, <1>6, <1>7, <1>8, <1>9, <1>10, <1>11, <1>12,
     <1>13 DEF Next, Server

LEMMA DataInvariant == Spec => [](TypeInv /\ PollInv /\ InputOwned /\ OutputOwned /\ GotOwned)
<1>1. Init => InputOwned /\ OutputOwned /\ GotOwned
  <2> SUFFICES ASSUME Init PROVE InputOwned /\ OutputOwned /\ GotOwned
    OBVIOUS
  <2>1. /\ \A f \in Fds : m_inbuf[f] = <<>> /\ m_outbuf[f] = <<>> /\ sock[f] = None
        /\ \A c \in Conns : got[c] = <<>>
    BY DEF Init
  <2>2. \A c, p : OwnPieces(<<>>, c, p)
    BY DEF OwnPieces
  <2>3. QED
    BY <2>1, <2>2, NamesAssumption DEF InputOwned, OutputOwned, GotOwned
<1>2. /\ TypeInv /\ TypeInv' /\ PollInv /\ InputOwned /\ OutputOwned /\ GotOwned
      /\ [Next]_vars
      => InputOwned' /\ OutputOwned' /\ GotOwned'
  BY StepOwned
<1>3. QED
  BY <1>1, <1>2, PollInvariant, PTL DEF Spec

\* However descriptors are closed and handed out again, no byte of one
\* connection gets into the buffers of another or to another client.
THEOREM BytesStayTheirOwn == Spec => []OwnBytesOnly
<1>1. InputOwned /\ OutputOwned /\ GotOwned => OwnBytesOnly
  BY DEF InputOwned, OutputOwned, GotOwned, OwnInput, OwnPieces, OwnBytesOnly
<1>2. QED
  BY <1>1, DataInvariant, PTL

\* Every response is composed with the first server block of the port that its
\* client connected to.
THEOREM FirstOfPortAnswers == Spec => []AnsweredByFirstOfPort
<1>1. OutputOwned /\ GotOwned => AnsweredByFirstOfPort
  BY DEF OutputOwned, GotOwned, OwnPieces, AnsweredByFirstOfPort
<1>2. QED
  BY <1>1, DataInvariant, PTL
=============================================================================
