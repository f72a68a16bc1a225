--------------------------- MODULE FramingProofs ---------------------------
(***************************************************************************)
(* Theorems about RequestFraming, for every message, every way to cut it   *)
(* into reads and every limit.                                             *)
(***************************************************************************)
EXTENDS RequestFraming, SequenceTheorems, WellFoundedInduction, TLAPS

-----------------------------------------------------------------------------
(***************************************************************************)
(* Texts and headers                                                       *)
(***************************************************************************)
\* The beginning of a sequence.
LEMMA Prefix ==
    ASSUME NEW S, NEW s \in Seq(S), NEW p \in 0 .. Len(s)
    PROVE  /\ SubSeq(s, 1, p) \in Seq(S) /\ Len(SubSeq(s, 1, p)) = p
           /\ \A k \in 1 .. p : SubSeq(s, 1, p)[k] = s[k]
<1> DEFINE n == Len(s)
<1>1. n \in Nat
  BY LenProperties
<1>2. \A k \in 1 .. n : s[k] \in S
  BY ElementOfSeq
<1>3. p \in 0 .. n
  OBVIOUS
<1> HIDE DEF n
<1>4. p \in Int /\ 1 \in Int /\ \A k \in 1 .. p : s[k] \in S
  BY <1>1, <1>2, <1>3
<1>5. /\ SubSeq(s, 1, p) \in Seq(S)
      /\ Len(SubSeq(s, 1, p)) = IF 1 <= p THEN p - 1 + 1 ELSE 0
      /\ \A k \in 1 .. p - 1 + 1 : SubSeq(s, 1, p)[k] = s[1 + k - 1]
  BY <1>4, SubSeqProperties
<1>6. (IF 1 <= p THEN p - 1 + 1 ELSE 0) = p /\ 1 .. p - 1 + 1 = 1 .. p
      /\ \A k \in 1 .. p : 1 + k - 1 = k
  BY <1>1, <1>3
<1>7. QED
  BY <1>5, <1>6

\* A text in front of another is the beginning of every longer beginning of both.
LEMMA PrefixOfPrefix ==
    ASSUME NEW S, NEW s \in Seq(S), NEW t \in Seq(S), NEW p \in Nat,
           Len(s) <= p, p \in 0 .. Len(s \o t)
    PROVE  SubSeq(SubSeq(s \o t, 1, p), 1, Len(s)) = s
<1> DEFINE all == s \o t
           raw == SubSeq(all, 1, p)
           n == Len(s)
           x == Len(t)
           a == Len(all)
           front == SubSeq(raw, 1, n)
<1>1. n \in Nat /\ x \in Nat
  BY LenProperties
<1>2. all \in Seq(S) /\ a = n + x
      /\ \A k \in 1 .. n + x : all[k] = IF k <= n THEN s[k] ELSE t[k - n]
  BY ConcatProperties
<1>3. n <= p /\ p \in 0 .. a
  OBVIOUS
<1>4. raw \in Seq(S) /\ Len(raw) = p /\ \A k \in 1 .. p : raw[k] = all[k]
  <2> HIDE DEF all
  <2>1. QED
    BY <1>2, <1>3, Prefix
<1> HIDE DEF all, raw
<1>5. n \in 0 .. Len(raw)
  <2> HIDE DEF n
  <2>1. QED
    BY <1>1, <1>3, <1>4
<1>6. front \in Seq(S) /\ Len(front) = n /\ \A k \in 1 .. n : front[k] = raw[k]
  BY <1>4, <1>5, Prefix
<1>7. \A k \in 1 .. n : front[k] = s[k]
  <2> HIDE DEF n, a, x, front
  <2>1. QED
    BY <1>1, <1>2, <1>3, <1>4, <1>6
<1> HIDE DEF front
<1>8. front = s
  BY <1>6, <1>7, SeqEqual
<1>9. QED
  BY <1>8 DEF front, raw, all

\* What has been found in the beginning of a text is found in the text.
LEMMA OccurrencesInPrefix ==
    ASSUME NEW S, NEW s \in Seq(S), NEW text \in Seq(S), text # <<>>, NEW p \in 0 .. Len(s)
    PROVE  Occurrences(text, SubSeq(s, 1, p))
              = {k \in Occurrences(text, s) : k + Len(text) - 1 <= p}
<1> DEFINE n == Len(s)
           w == Len(text)
           t == SubSeq(s, 1, p)
<1>1. n \in Nat /\ w \in Nat \ {0} /\ p \in 0 .. n
  BY LenProperties, EmptySeq
<1>2. Len(t) = p
  BY Prefix
<1>3. ASSUME NEW k \in 1 .. p, k + w - 1 <= p
      PROVE  SubSeq(t, k, k + w - 1) = SubSeq(s, k, k + w - 1)
  <2> DEFINE e == k + w - 1
  <2>0. 1 \in 1 .. n /\ p \in 1 .. n /\ k \in 1 .. p - 1 + 1 /\ e \in 1 .. p - 1 + 1
        /\ 1 + k - 1 = k /\ 1 + e - 1 = e
    <3> HIDE DEF n, w
    <3>1. QED
      BY <1>1, <1>3
  <2> HIDE DEF e
  <2>1. SubSeq(SubSeq(s, 1, p), k, e) = SubSeq(s, 1 + k - 1, 1 + e - 1)
    BY <2>0, SubSeqOfSubSeq
  <2>2. QED
    BY <2>0, <2>1 DEF e
<1>4. /\ Occurrences(text, t) = {k \in 1 .. p : k + w - 1 <= p /\ SubSeq(t, k, k + w - 1) = text}
      /\ Occurrences(text, s) = {k \in 1 .. n : k + w - 1 <= n /\ SubSeq(s, k, k + w - 1) = text}
  BY <1>2 DEF Occurrences
<1> HIDE DEF n, w, t
<1>5. ASSUME NEW k
      PROVE  k \in Occurrences(text, t) <=> k \in Occurrences(text, s) /\ k + w - 1 <= p
  <2>1. CASE k \in 1 .. p /\ k + w - 1 <= p
    <3>1. SubSeq(t, k, k + w - 1) = SubSeq(s, k, k + w - 1)
      BY <1>3, <2>1
    <3>2. k \in 1 .. n /\ k + w - 1 <= n
      BY <1>1, <2>1
    <3>3. QED
      BY <1>4, <2>1, <3>1, <3>2
  <2>2. CASE ~(k \in 1 .. p /\ k + w - 1 <= p)
    <3>1. k \in 1 .. n /\ k + w - 1 <= p => k \in 1 .. p
      BY <1>1
    <3>2. QED
      BY <1>4, <2>2, <3>1
  <2>3. QED
    BY <2>1, <2>2
<1>6. Occurrences(text, t) = {k \in Occurrences(text, s) : k + w - 1 <= p}
  BY <1>5
<1>7. QED
  BY <1>6 DEF n, w, t

\* A header that is there once, and one that is not there.
LEMMA OneLine ==
    ASSUME NEW m \in Messages, NEW name, NEW k \in DOMAIN m.headers, Lines(m, name) = {k}
    PROVE  /\ GetHeaderValueCI(m, name) = m.headers[k].value
           /\ Spelled(m) => GetHeader(m, name) = m.headers[k].value
<1> DEFINE H == m.headers
<1>1. H \in Seq(HeaderType)
  BY FramingMessagesAssumption DEF MessageType
<1>2. k \in Nat
  BY <1>1, LenProperties
<1> HIDE DEF H
<1>3. {j \in {k} : \A i \in {k} : j <= i} = {k} /\ {j \in {k} : \A i \in {k} : i <= j} = {k}
  BY <1>2
<1>4. Values(m, {k}) = {H[k].value}
  BY DEF Values, H
<1>5. Only({H[k].value}) = H[k].value
  BY DEF Only
<1>6. GetHeaderValueCI(m, name) = H[k].value
  <2>1. {j \in DOMAIN m.headers : m.headers[j].name = name} = {k}
    BY DEF Lines
  <2>2. QED
    BY <1>3, <1>4, <1>5, <2>1 DEF GetHeaderValueCI
<1>7. ASSUME Spelled(m)
      PROVE  GetHeader(m, name) = H[k].value
  <2>1. {j \in DOMAIN m.headers : m.headers[j].name = name /\ m.headers[j].exact} = {k}
    BY <1>7 DEF Lines, Spelled
  <2>2. QED
    BY <1>3, <1>4, <1>5, <2>1 DEF GetHeader
<1>8. QED
  BY <1>6, <1>7 DEF H

LEMMA NoLine ==
    ASSUME NEW m, NEW name, Lines(m, name) = {}
    PROVE  GetHeaderValueCI(m, name) = "" /\ GetHeader(m, name) = ""
<1>1. Values(m, {}) = {} /\ Only({}) = ""
  BY DEF Values, Only
<1>2. {j \in DOMAIN m.headers : m.headers[j].name = name} = {}
  BY DEF Lines
<1>3. {j \in DOMAIN m.headers : m.headers[j].name = name /\ m.headers[j].exact} = {}
  BY DEF Lines
<1>4. {j \in {} : \A i \in {} : j <= i} = {} /\ {j \in {} : \A i \in {} : i <= j} = {}
  OBVIOUS
<1>5. QED
  BY <1>1, <1>2, <1>3, <1>4 DEF GetHeaderValueCI, GetHeader

\* The sizes of a message.
LEMMA MessageSizes ==
    ASSUME NEW m \in Messages
    PROVE  /\ m.headers \in Seq(HeaderType) /\ HeadSize(m) \in Nat /\ HeadSize(m) >= 2
           /\ m.body \in Seq(BodyChars) /\ Len(m.body) \in Nat
           /\ m.next \in Seq(BodyChars) /\ Len(m.next) \in Nat
           /\ m.body \o m.next \in Seq(BodyChars)
           /\ Len(m.body \o m.next) = Len(m.body) + Len(m.next)
           /\ Size(m) = HeadSize(m) + Len(m.body \o m.next) /\ Size(m) \in Nat
<1>1. m.headers \in Seq(HeaderType) /\ m.body \in Seq(BodyChars) /\ m.next \in Seq(BodyChars)
  BY FramingMessagesAssumption DEF MessageType
<1> DEFINE h == Len(m.headers)
           b == Len(m.body)
           n == Len(m.next)
<1>2. h \in Nat /\ b \in Nat /\ n \in Nat
  BY <1>1, LenProperties
<1>3. m.body \o m.next \in Seq(BodyChars) /\ Len(m.body \o m.next) = b + n
  BY <1>1, ConcatProperties
<1>4. HeadSize(m) = h + 2 /\ Size(m) = HeadSize(m) + b + n
  BY DEF HeadSize, Size
<1> DEFINE all == Len(m.body \o m.next)
<1>5. all = b + n
  BY <1>3
<1> HIDE DEF h, b, n, all
<1>6. HeadSize(m) \in Nat /\ HeadSize(m) >= 2 /\ Size(m) = HeadSize(m) + all /\ Size(m) \in Nat
  BY <1>2, <1>4, <1>5
<1>7. QED
  BY <1>1, <1>2, <1>3, <1>6 DEF h, b, n, all

\* What has been read of the body.
LEMMA RawIsPrefix ==
    ASSUME NEW m \in Messages, NEW n \in HeadSize(m) .. Size(m)
    PROVE  /\ n - HeadSize(m) \in 0 .. Len(m.body \o m.next)
           /\ Raw(m, n) = SubSeq(m.body \o m.next, 1, n - HeadSize(m))
           /\ Raw(m, n) \in Seq(BodyChars) /\ Len(Raw(m, n)) = n - HeadSize(m)
<1> DEFINE all == m.body \o m.next
           h == HeadSize(m)
           p == n - h
           a == Len(all)
<1>1. /\ h \in Nat /\ a \in Nat /\ Size(m) = h + a /\ all \in Seq(BodyChars)
      /\ n \in h .. Size(m)
  <2>1. n \in h .. Size(m)
    OBVIOUS
  <2>2. h \in Nat /\ Size(m) = h + a /\ all \in Seq(BodyChars)
    BY MessageSizes
  <2>3. a \in Nat
    BY <2>2, LenProperties
  <2>4. QED
    BY <2>1, <2>2, <2>3
<1>2. p \in 0 .. a
  <2> HIDE DEF a, h
  <2>1. QED
    BY <1>1
<1>3. Raw(m, n) = SubSeq(all, 1, p)
  BY DEF Raw
<1>4. SubSeq(all, 1, p) \in Seq(BodyChars) /\ Len(SubSeq(all, 1, p)) = p
  <2> HIDE DEF p, all
  <2>1. p \in 0 .. Len(all)
    BY <1>2
  <2>2. QED
    BY <1>1, <2>1, Prefix
<1>5. QED
  BY <1>2, <1>3, <1>4

-----------------------------------------------------------------------------
(***************************************************************************)
(* HTTP_IsRequestComplete says yes from the last byte of the request on.   *)
(***************************************************************************)
LEMMA LastChunkType == LastChunk \in Seq(BodyChars) /\ LastChunk # <<>> /\ Len(LastChunk) = 5
<1>1. "0" \in BodyChars /\ CR \in BodyChars /\ LF \in BodyChars
  BY FramingDigitsAssumption DEF BodyChars
<1>2. QED
  BY <1>1 DEF LastChunk

LEMMA LastChunkInPrefix ==
    ASSUME NEW s \in Seq(BodyChars), NEW p \in 0 .. Len(s)
    PROVE  Occurrences(LastChunk, SubSeq(s, 1, p))
              = {k \in Occurrences(LastChunk, s) : k + 5 - 1 <= p}
<1>1. LastChunk \in Seq(BodyChars) /\ LastChunk # <<>>
  BY LastChunkType
<1>2. Occurrences(LastChunk, SubSeq(s, 1, p))
         = {k \in Occurrences(LastChunk, s) : k + Len(LastChunk) - 1 <= p}
  BY ONLY <1>1, s \in Seq(BodyChars), p \in 0 .. Len(s), OccurrencesInPrefix
<1>3. QED
  BY <1>2, LastChunkType

LEMMA CompleteAtTheEnd ==
    ASSUME NEW m \in Messages, WellFormed(m), NEW n \in 0 .. Size(m)
    PROVE  HTTP_IsRequestComplete(m, n) <=> HeadSize(m) + Len(m.body) <= n
<1> DEFINE h == HeadSize(m)
           b == Len(m.body)
           a == Len(m.body \o m.next)
           r == Len(Raw(m, n))
<1>1. h \in Nat /\ b \in Nat /\ Size(m) = h + a /\ a \in Nat /\ a >= b
  <2> DEFINE x == Len(m.next)
  <2>1. h \in Nat /\ b \in Nat /\ Size(m) = h + a /\ a = b + x /\ x \in Nat
    BY MessageSizes
  <2> HIDE DEF h, b, a, x
  <2>2. QED
    BY <2>1
<1>2. n \in 0 .. Size(m)
  OBVIOUS
<1>3. CASE n < h
  <2>1. ~HTTP_IsRequestComplete(m, n)
    <3>1. ~(HeadSize(m) <= n)
      BY <1>1, <1>2, <1>3
    <3>2. QED
      BY <3>1 DEF HTTP_IsRequestComplete
  <2>2. ~(h + b <= n)
    <3> HIDE DEF h, b
    <3>1. QED
      BY <1>1, <1>2, <1>3
  <2>3. QED
    BY <2>1, <2>2
<1>4. CASE h <= n
  <2>1. r = n - h /\ n - h \in 0 .. a /\ Raw(m, n) = SubSeq(m.body \o m.next, 1, n - h)
    <3>1. n \in HeadSize(m) .. Size(m)
      <4> HIDE DEF h, b, a
      <4>1. n \in h .. Size(m)
        BY <1>1, <1>2, <1>4
      <4>2. QED
        BY <4>1 DEF h
    <3>2. QED
      BY <3>1, RawIsPrefix
  <2>2. HeadSize(m) <= n
    BY <1>4
  <2>3. CASE LengthForm(m)
    <3>1. PICK k \in DOMAIN m.headers :
             /\ Lines(m, "Content-Length") = {k}
             /\ m.headers[k].value # "" /\ Strtoul[m.headers[k].value] = b
      BY <2>3 DEF LengthForm
    <3>2. GetHeaderValueCI(m, "Content-Length") = m.headers[k].value
      BY <3>1, OneLine
    <3>3. HTTP_IsRequestComplete(m, n) <=> b <= r
      BY <2>2, <3>1, <3>2 DEF HTTP_IsRequestComplete
    <3> HIDE DEF r, b, h
    <3>4. QED
      BY <1>1, <1>2, <2>1, <3>3 DEF b, h
  <2>4. CASE ChunkedForm(m)
    <3>1. PICK k \in DOMAIN m.headers :
             Lines(m, "Transfer-Encoding") = {k} /\ m.headers[k].value = "chunked"
      BY <2>4 DEF ChunkedForm, ChunkedHead
    <3>2. GetHeaderValueCI(m, "Content-Length") = ""
      BY <2>4, NoLine DEF ChunkedForm, ChunkedHead
    <3>3. GetHeaderValueCI(m, "Transfer-Encoding") = "chunked"
      BY <3>1, OneLine
    <3>4. HTTP_IsRequestComplete(m, n) <=> Occurrences(LastChunk, Raw(m, n)) # {}
      BY <2>2, <3>2, <3>3 DEF HTTP_IsRequestComplete, IsChunkedRequestComplete
    <3> DEFINE p == n - h
               all == m.body \o m.next
    <3>5. Occurrences(LastChunk, Raw(m, n)) = {j \in Occurrences(LastChunk, all) : j + 5 - 1 <= p}
      <4>1. p \in 0 .. Len(all) /\ Raw(m, n) = SubSeq(all, 1, p) /\ all \in Seq(BodyChars)
        BY <2>1, MessageSizes
      <4> HIDE DEF p, all
      <4>2. QED
        BY <4>1, LastChunkInPrefix
    <3>6. Occurrences(LastChunk, all) = {b - 5 + 1}
      BY <2>4, LastChunkType DEF ChunkedForm
    <3> HIDE DEF all, b, p
    <3>7. Occurrences(LastChunk, Raw(m, n)) # {} <=> b - 5 + 1 + 5 - 1 <= p
      BY <3>5, <3>6
    <3> HIDE DEF h
    <3>8. b - 5 + 1 + 5 - 1 <= p <=> h + b <= n
      BY <1>1, <1>2 DEF p
    <3>9. QED
      BY <3>4, <3>7, <3>8 DEF h, b
  <2>5. CASE NoBodyForm(m)
    <3>1. GetHeaderValueCI(m, "Content-Length") = "" /\ GetHeaderValueCI(m, "Transfer-Encoding") = ""
      BY <2>5, NoLine DEF NoBodyForm
    <3>2. HTTP_IsRequestComplete(m, n)
      BY <2>2, <3>1 DEF HTTP_IsRequestComplete
    <3>3. b = 0
      BY <2>5, EmptySeq DEF NoBodyForm
    <3> HIDE DEF b, h
    <3>4. h + b <= n
      BY <1>1, <1>2, <1>4, <3>3
    <3>5. QED
      BY <3>2, <3>4 DEF b, h
  <2>6. QED
    BY <2>3, <2>4, <2>5 DEF WellFormed
<1>5. QED
  <2>1. n < h \/ h <= n
    <3> HIDE DEF h
    <3>1. QED
      BY <1>1, <1>2
  <2>2. QED
    BY <1>3, <1>4, <2>1

-----------------------------------------------------------------------------
(***************************************************************************)
(* The parts of decodeChunkedBody                                          *)
(***************************************************************************)
LEMMA LeastNumber ==
    ASSUME NEW T \in SUBSET Nat, T # {}
    PROVE  \E n \in T : \A m \in T : n <= m
<1> DEFINE R == OpToRel(<, Nat)
<1>1. IsWellFoundedOn(R, Nat)
  BY NatLessThanWellFounded
<1>2. \A m, n \in Nat : m < n => <<m, n>> \in R
  BY DEF OpToRel
<1> HIDE DEF R
<1>3. PICK n \in T : \A m \in T : ~(<<m, n>> \in R)
  BY <1>1, WFMin
<1>4. \A m \in T : ~(m < n)
  BY <1>2, <1>3
<1>5. \A m \in T : n <= m
  BY <1>4
<1>6. QED
  BY <1>5

\* Where the white space ends.
LEMMA SkippedType ==
    ASSUME NEW raw \in Seq(BodyChars), NEW i \in 1 .. Len(raw) + 1
    PROVE  /\ Skipped(raw, i) \in i .. Len(raw) + 1
           /\ i \in DOMAIN raw /\ raw[i] # CR => Skipped(raw, i) = i
<1> DEFINE L == Len(raw)
           P(j) == /\ \A k \in i .. j - 1 : raw[k] = CR
                   /\ j \in DOMAIN raw => raw[j] # CR
           T == {j \in i .. L + 1 : j \in DOMAIN raw => raw[j] # CR}
<1>1. L \in Nat /\ DOMAIN raw = 1 .. L
  BY LenProperties
<1>2. Skipped(raw, i) = CHOOSE j \in i .. L + 1 : P(j)
  BY DEF Skipped
<1>3. i \in 1 .. L + 1
  OBVIOUS
<1> HIDE DEF L
<1>4. T \in SUBSET Nat /\ L + 1 \in T
  BY <1>1, <1>3
<1>5. PICK j \in T : \A k \in T : j <= k
  <2> HIDE DEF T
  <2>1. QED
    BY <1>4, LeastNumber
<1>6. j \in i .. L + 1 /\ P(j)
  BY <1>1, <1>3, <1>5
<1> DEFINE c == CHOOSE x \in i .. L + 1 : P(x)
<1>7. c \in i .. L + 1 /\ P(c)
  <2> HIDE DEF P
  <2>1. QED
    BY <1>6
<1> HIDE DEF c
<1>8. i \in DOMAIN raw /\ raw[i] # CR => c = i
  BY <1>1, <1>3, <1>7
<1>9. QED
  BY <1>2, <1>7, <1>8 DEF c, L

\* The digits of a line, and that there is no other number of them.
DigitsAt(raw, i, n) ==
    /\ \A k \in i .. i + n - 1 : k \in DOMAIN raw /\ raw[k] \in DOMAIN DigitValue
    /\ i + n \in DOMAIN raw => raw[i + n] \notin DOMAIN DigitValue

LEMMA DigitsType ==
    ASSUME NEW raw \in Seq(BodyChars), NEW i \in 1 .. Len(raw) + 1
    PROVE  /\ Digits(raw, i) \in 0 .. Len(raw) /\ DigitsAt(raw, i, Digits(raw, i))
           /\ \A n \in Nat : DigitsAt(raw, i, n) => Digits(raw, i) = n
<1> DEFINE L == Len(raw)
           T == {n \in 0 .. L : i + n \in DOMAIN raw => raw[i + n] \notin DOMAIN DigitValue}
<1>1. L \in Nat /\ DOMAIN raw = 1 .. L
  BY LenProperties
<1>2. Digits(raw, i) = CHOOSE n \in 0 .. L : DigitsAt(raw, i, n)
  BY DEF Digits, DigitsAt
<1>3. i \in 1 .. L + 1
  OBVIOUS
<1> HIDE DEF L
<1>4. T \in SUBSET Nat /\ L \in T
  BY <1>1, <1>3
<1>5. PICK n \in T : \A k \in T : n <= k
  <2> HIDE DEF T
  <2>1. QED
    BY <1>4, LeastNumber
<1>6. n \in 0 .. L /\ DigitsAt(raw, i, n)
  <2>1. n \in 0 .. L /\ (i + n \in DOMAIN raw => raw[i + n] \notin DOMAIN DigitValue)
    BY <1>5
  <2>2. ASSUME NEW k \in i .. i + n - 1
        PROVE  k \in DOMAIN raw /\ raw[k] \in DOMAIN DigitValue
    <3>1. k - i \in 0 .. L /\ k - i \notin T /\ i + (k - i) = k
      BY <1>1, <1>3, <1>5, <2>1, <2>2
    <3>2. QED
      BY <3>1
  <2>3. QED
    BY <2>1, <2>2 DEF DigitsAt
<1> DEFINE c == CHOOSE x \in 0 .. L : DigitsAt(raw, i, x)
<1>7. c \in 0 .. L /\ DigitsAt(raw, i, c)
  BY <1>6
<1> HIDE DEF c
<1>8. ASSUME NEW m \in Nat, DigitsAt(raw, i, m)
      PROVE  c = m
  <2>1. ASSUME c < m PROVE FALSE
    <3>1. i + c \in i .. i + m - 1 /\ c \in Nat
      BY <1>3, <1>7, <2>1
    <3>2. i + c \in DOMAIN raw /\ raw[i + c] \in DOMAIN DigitValue
      BY <1>8, <3>1 DEF DigitsAt
    <3>3. QED
      BY <1>7, <3>2 DEF DigitsAt
  <2>2. ASSUME m < c PROVE FALSE
    <3>1. i + m \in i .. i + c - 1
      BY <1>3, <1>7, <2>2
    <3>2. i + m \in DOMAIN raw /\ raw[i + m] \in DOMAIN DigitValue
      BY <1>7, <3>1 DEF DigitsAt
    <3>3. QED
      BY <1>8, <3>2 DEF DigitsAt
  <2>3. QED
    BY <1>7, <2>1, <2>2
<1>9. QED
  BY <1>2, <1>7, <1>8 DEF c, L

\* Where the next line begins.
LEMMA NextLineType ==
    ASSUME NEW raw \in Seq(BodyChars), NEW i \in 1 .. Len(raw)
    PROVE  /\ NextLine(raw, i) \in i + 1 .. Len(raw) + 1
           /\ \A j \in i + 1 .. Len(raw) + 1 :
                 raw[j - 1] = LF /\ (\A k \in i .. j - 2 : raw[k] # LF) => NextLine(raw, i) = j
<1> DEFINE L == Len(raw)
           P(j) == /\ j = L + 1 \/ raw[j - 1] = LF
                   /\ \A k \in i .. j - 2 : raw[k] # LF
           T == {j \in i + 1 .. L + 1 : j = L + 1 \/ raw[j - 1] = LF}
<1>1. L \in Nat
  BY LenProperties
<1>2. NextLine(raw, i) = CHOOSE j \in i + 1 .. L + 1 : P(j)
  BY DEF NextLine
<1>3. i \in 1 .. L
  OBVIOUS
<1> HIDE DEF L
<1>4. T \in SUBSET Nat /\ L + 1 \in T
  BY <1>1, <1>3
<1>5. PICK j \in T : \A k \in T : j <= k
  <2> HIDE DEF T
  <2>1. QED
    BY <1>4, LeastNumber
<1>6. j \in i + 1 .. L + 1 /\ P(j)
  <2>1. j \in i + 1 .. L + 1 /\ (j = L + 1 \/ raw[j - 1] = LF)
    BY <1>5
  <2>2. ASSUME NEW k \in i .. j - 2
        PROVE  raw[k] # LF
    <3>1. k + 1 \in i + 1 .. L + 1 /\ k + 1 \notin T /\ (k + 1) - 1 = k
      BY <1>1, <1>3, <1>5, <2>1, <2>2
    <3>2. QED
      BY <3>1
  <2>3. QED
    BY <2>1, <2>2
<1> DEFINE c == CHOOSE x \in i + 1 .. L + 1 : P(x)
<1>7. c \in i + 1 .. L + 1 /\ P(c)
  <2> HIDE DEF P
  <2>1. QED
    BY <1>6
<1> HIDE DEF c
<1>8. ASSUME NEW m \in i + 1 .. L + 1, raw[m - 1] = LF, \A k \in i .. m - 2 : raw[k] # LF
      PROVE  c = m
  <2>1. ASSUME c < m PROVE FALSE
    <3>1. c # L + 1 /\ c - 1 \in i .. m - 2
      BY <1>1, <1>3, <1>7, <1>8, <2>1
    <3>2. QED
      BY <1>7, <1>8, <3>1
  <2>2. ASSUME m < c PROVE FALSE
    <3>1. m - 1 \in i .. c - 2
      BY <1>1, <1>3, <1>7, <1>8, <2>2
    <3>2. QED
      BY <1>7, <1>8, <3>1
  <2>3. QED
    BY <1>1, <1>3, <1>7, <2>1, <2>2
<1>9. QED
  BY <1>2, <1>7, <1>8 DEF c, L

LEMMA OneDigitMore ==
    ASSUME NEW a \in Nat, NEW b \in Nat, NEW c \in Nat
    PROVE  a * b + c \in Nat
<1>1. a * b \in Nat
  OBVIOUS
<1>2. QED
  BY <1>1

\* The function Number defines by recursion exists, since there is no first
\* prefix of the numeral at which it does not, and its values are numbers, since
\* there is no first one that is none.
LEMMA NumberExists ==
    ASSUME NEW s \in Seq(DOMAIN DigitValue)
    PROVE  \E f \in [0 .. Len(s) -> Nat] :
              /\ Number(s) = f[Len(s)]
              /\ \A n \in 0 .. Len(s) :
                    f[n] = IF n = 0 THEN 0 ELSE Radix * f[n - 1] + DigitValue[s[n]]
<1> DEFINE N == Len(s)
           Rec(f, n) == IF n = 0 THEN 0 ELSE Radix * f[n - 1] + DigitValue[s[n]]
           Good(n) == \E f \in [0 .. n -> Nat] : \A m \in 0 .. n : f[m] = Rec(f, m)
           v == CHOOSE f : f = [n \in 0 .. N |-> Rec(f, n)]
<1>1. N \in Nat /\ \A n \in 1 .. N : s[n] \in DOMAIN DigitValue
  BY LenProperties, ElementOfSeq
<1>2. Radix \in Nat /\ \A n \in 1 .. N : DigitValue[s[n]] \in Nat
  BY <1>1, FramingDigitsAssumption
<1>3. Number(s) = v[N]
  BY DEF Number
<1> HIDE DEF N
<1>4. Good(N)
  <2> DEFINE T == {n \in 0 .. N : ~Good(n)}
  <2>1. SUFFICES ASSUME T # {} PROVE FALSE
    <3> HIDE DEF Good
    <3>1. QED
      BY <1>1
  <2>2. T \in SUBSET Nat
    BY <1>1
  <2>3. PICK n \in T : \A m \in T : n <= m
    <3> HIDE DEF T
    <3>1. QED
      BY <2>1, <2>2, LeastNumber
  <2>4. n \in 0 .. N /\ ~Good(n)
    BY <2>3
  <2>5. n # 0
    <3> DEFINE f == [m \in 0 .. 0 |-> 0]
    <3>1. f \in [0 .. 0 -> Nat] /\ \A m \in 0 .. 0 : f[m] = Rec(f, m)
      OBVIOUS
    <3>2. Good(0)
      BY <3>1
    <3>3. QED
      BY <2>4, <3>2
  <2>6. n - 1 \in 0 .. N /\ n \in 1 .. N /\ n \in Nat
    BY <1>1, <2>4, <2>5
  <2>7. Good(n - 1)
    <3>1. ~(n <= n - 1)
      BY <2>6
    <3> HIDE DEF Good
    <3>2. QED
      BY <2>3, <2>6, <3>1
  <2>8. PICK f \in [0 .. n - 1 -> Nat] : \A m \in 0 .. n - 1 : f[m] = Rec(f, m)
    BY <2>7
  <2> DEFINE x == Radix * f[n - 1] + DigitValue[s[n]]
             g == [m \in 0 .. n |-> IF m = n THEN x ELSE f[m]]
  <2>9. x \in Nat
    <3>1. f[n - 1] \in Nat
      BY <2>6
    <3>2. DigitValue[s[n]] \in Nat
      BY <1>2, <2>6
    <3>3. QED
      BY <1>2, <3>1, <3>2, OneDigitMore
  <2>10. g \in [0 .. n -> Nat]
    <3> HIDE DEF x
    <3>1. QED
      BY <2>6, <2>8, <2>9
  <2>11. ASSUME NEW m \in 0 .. n
         PROVE  g[m] = Rec(g, m)
    <3>1. CASE m = 0
      BY <2>6, <2>8, <3>1
    <3>2. CASE m = n
      <4>1. g[n - 1] = f[n - 1] /\ g[n] = x
        <5> HIDE DEF x
        <5>1. QED
          BY <2>6
      <4>2. QED
        BY <2>6, <3>2, <4>1
    <3>3. CASE m # 0 /\ m # n
      <4>1. m - 1 \in 0 .. n /\ m - 1 # n /\ m \in 0 .. n - 1
        BY <2>6, <2>11, <3>3
      <4>2. g[m] = f[m] /\ g[m - 1] = f[m - 1]
        <5> HIDE DEF x
        <5>1. QED
          BY <3>3, <4>1
      <4>3. f[m] = Radix * f[m - 1] + DigitValue[s[m]]
        BY <2>8, <3>3, <4>1
      <4> HIDE DEF g
      <4>4. QED
        BY <3>3, <4>2, <4>3
    <3>4. QED
      BY <3>1, <3>2, <3>3
  <2>12. Good(n)
    <3> HIDE DEF g, Rec
    <3>1. QED
      BY <2>10, <2>11
  <2>13. QED
    BY <2>4, <2>12
<1>5. v \in [0 .. N -> Nat] /\ \A n \in 0 .. N : v[n] = Rec(v, n)
  <2>1. PICK f \in [0 .. N -> Nat] : \A m \in 0 .. N : f[m] = Rec(f, m)
    BY <1>4
  <2> HIDE DEF Rec
  <2>2. f = [n \in 0 .. N |-> Rec(f, n)]
    BY <2>1
  <2>3. v = [n \in 0 .. N |-> Rec(v, n)]
    BY <2>2
  <2> HIDE DEF v
  <2>4. DOMAIN v = 0 .. N /\ \A n \in 0 .. N : v[n] = Rec(v, n)
    BY <2>3
  <2> DEFINE T == {n \in 0 .. N : v[n] \notin Nat}
  <2>5. SUFFICES ASSUME T # {} PROVE FALSE
    <3>1. v = [n \in 0 .. N |-> v[n]]
      BY <2>3
    <3>2. QED
      BY <2>4, <3>1
  <2>6. T \in SUBSET Nat
    BY <1>1
  <2>7. PICK n \in T : \A m \in T : n <= m
    <3> HIDE DEF T
    <3>1. QED
      BY <2>5, <2>6, LeastNumber
  <2>8. n \in 0 .. N /\ v[n] \notin Nat
    BY <2>7
  <2>9. n # 0
    BY <2>4, <2>8 DEF Rec
  <2>10. n - 1 \in 0 .. N /\ n \in 1 .. N
    BY <1>1, <2>8, <2>9
  <2>11. v[n - 1] \in Nat
    BY <2>7, <2>10
  <2>12. v[n] = Radix * v[n - 1] + DigitValue[s[n]]
    BY <2>4, <2>8, <2>9 DEF Rec
  <2>13. QED
    BY <1>2, <2>8, <2>10, <2>11, <2>12, OneDigitMore
<1> HIDE DEF v
<1>6. QED
  BY <1>3, <1>5 DEF N

LEMMA NumberType ==
    ASSUME NEW s \in Seq(DOMAIN DigitValue)
    PROVE  Number(s) \in Nat
<1> DEFINE N == Len(s)
<1>1. N \in Nat
  BY LenProperties
<1>2. PICK f \in [0 .. N -> Nat] : Number(s) = f[N]
  BY NumberExists
<1> HIDE DEF N
<1>3. QED
  BY <1>1, <1>2

\* The size of the last chunk.
LEMMA NumberOfZero == Number(<<"0">>) = 0
<1> DEFINE s == <<"0">>
<1>1. s \in Seq(DOMAIN DigitValue) /\ Len(s) = 1 /\ s[1] = "0" /\ DigitValue["0"] = 0
  BY FramingDigitsAssumption
<1> HIDE DEF s
<1>2. PICK f \in [0 .. Len(s) -> Nat] :
         /\ Number(s) = f[Len(s)]
         /\ \A n \in 0 .. Len(s) :
               f[n] = IF n = 0 THEN 0 ELSE Radix * f[n - 1] + DigitValue[s[n]]
  BY <1>1, NumberExists
<1>3. f[0] = 0 /\ f[1] = Radix * f[0] + DigitValue[s[1]]
  BY <1>1, <1>2
<1>4. Radix * 0 + 0 = 0
  BY FramingDigitsAssumption
<1>5. QED
  BY <1>1, <1>2, <1>3, <1>4 DEF s

LEMMA ChunkSizeType ==
    ASSUME NEW raw \in Seq(BodyChars), NEW i \in 1 .. Len(raw) + 1
    PROVE  ChunkSize(raw, i) \in Nat
<1> DEFINE d == Digits(raw, i)
           L == Len(raw)
           e == i + d - 1
<1>1. d \in 0 .. L /\ DigitsAt(raw, i, d)
  BY DigitsType
<1>2. L \in Nat /\ i \in 1 .. L + 1
  BY LenProperties
<1> HIDE DEF L
<1>3. d \in Nat /\ i \in Int /\ e \in Int
  <2> HIDE DEF d
  <2>1. QED
    BY <1>1, <1>2
<1>4. \A k \in i .. e : raw[k] \in DOMAIN DigitValue
  BY <1>1 DEF DigitsAt
<1>5. ChunkSize(raw, i) = Number(SubSeq(raw, i, e))
  BY DEF ChunkSize
<1> HIDE DEF e
<1>6. SubSeq(raw, i, e) \in Seq(DOMAIN DigitValue)
  BY <1>3, <1>4, SubSeqProperties
<1>7. QED
  BY <1>5, <1>6, NumberType

-----------------------------------------------------------------------------
(***************************************************************************)
(* decodeChunkedBody as a whole                                            *)
(***************************************************************************)
\* What a line decodes to depends on what follows it only.
LEMMA DecodedByWhatFollows ==
    ASSUME NEW raw \in Seq(BodyChars), NEW i \in 1 .. Len(raw) + 1, NEW f, NEW g,
           \A j \in i + 1 .. Len(raw) + 1 : f[j] = g[j]
    PROVE  DecodedLines(raw, f, i) = DecodedLines(raw, g, i)
<1> DEFINE L == Len(raw)
           start == NextLine(raw, i)
           first == Skipped(raw, i)
           size  == ChunkSize(raw, first)
           after == start + size + 2
<1>1. L \in Nat /\ i \in 1 .. L + 1 /\ \A j \in i + 1 .. L + 1 : f[j] = g[j]
  BY LenProperties
<1>2. CASE i > Len(raw)
  BY <1>2 DEF DecodedLines
<1>3. CASE i <= Len(raw)
  <2>1. i \in 1 .. L
    <3>1. i <= L
      BY <1>3
    <3> HIDE DEF L
    <3>2. QED
      BY <1>1, <3>1
  <2>2. start \in i + 1 .. L + 1
    BY <2>1, NextLineType
  <2>3. first \in 1 .. L + 1
    <3>1. first \in i .. L + 1
      BY <1>1, SkippedType
    <3> HIDE DEF L, first
    <3>2. QED
      BY <1>1, <3>1
  <2>4. size \in Nat
    <3> HIDE DEF first
    <3>1. QED
      BY <2>3, ChunkSizeType
  <2> HIDE DEF L, start, size
  <2>5. after <= L => after \in i + 1 .. L + 1
    BY <1>1, <2>2, <2>4
  <2>6. f[start] = g[start] /\ (after <= L => f[after] = g[after])
    BY <1>1, <2>2, <2>5
  <2>7. QED
    BY <2>6 DEF DecodedLines, L, start, size
<1>4. Len(raw) \in Nat /\ i \in Nat
  BY <1>1
<1>5. i > Len(raw) \/ i <= Len(raw)
  BY <1>4
<1>6. QED
  BY <1>2, <1>3, <1>5

\* The function that DecodeChunkedBody defines by recursion, from the end of the
\* text to its beginning, exists: there is no last line at which it does not.
LEMMA DecoderExists ==
    ASSUME NEW raw \in Seq(BodyChars)
    PROVE  \E D : /\ DecodeChunkedBody(raw) = D[1]
                  /\ \A i \in 1 .. Len(raw) + 1 : D[i] = DecodedLines(raw, D, i)
<1> DEFINE L == Len(raw)
           From(n) == L + 1 - n .. L + 1
           Good(n) == \E f : \A i \in From(n) : f[i] = DecodedLines(raw, f, i)
           v == CHOOSE f : f = [i \in 1 .. L + 1 |-> DecodedLines(raw, f, i)]
           T == {n \in 0 .. L : ~Good(n)}
<1>1. L \in Nat
  BY LenProperties
<1>2. DecodeChunkedBody(raw) = v[1]
  BY DEF DecodeChunkedBody
<1>3. ASSUME NEW i \in 1 .. L + 1, NEW f, NEW g, \A j \in i + 1 .. L + 1 : f[j] = g[j]
      PROVE  DecodedLines(raw, f, i) = DecodedLines(raw, g, i)
  BY <1>3, DecodedByWhatFollows
<1> HIDE DEF L
<1>4. Good(L)
  <2>1. SUFFICES ASSUME T # {} PROVE FALSE
    <3> HIDE DEF Good
    <3>1. QED
      BY <1>1
  <2>2. T \in SUBSET Nat
    BY <1>1
  <2>3. PICK n \in T : \A m \in T : n <= m
    <3> HIDE DEF T
    <3>1. QED
      BY <2>1, <2>2, LeastNumber
  <2>4. n \in 0 .. L /\ ~Good(n)
    BY <2>3
  <2> DEFINE a == L + 1 - n
  <2>5. a \in 1 .. L + 1
    BY <1>1, <2>4
  <2>6. \E f : \A i \in a + 1 .. L + 1 : f[i] = DecodedLines(raw, f, i)
    <3>1. CASE n = 0
      <4>1. a + 1 .. L + 1 = {}
        BY <1>1, <3>1
      <4>2. QED
        BY <4>1
    <3>2. CASE n # 0
      <4>1. n - 1 \in 0 .. L /\ ~(n <= n - 1)
        BY <1>1, <2>4, <3>2
      <4>2. Good(n - 1)
        <5> HIDE DEF Good
        <5>1. QED
          BY <2>3, <4>1
      <4>3. L + 1 - (n - 1) = a + 1
        BY <1>1, <2>4
      <4>4. QED
        BY <4>2, <4>3
    <3>3. QED
      BY <3>1, <3>2
  <2>7. PICK f : \A i \in a + 1 .. L + 1 : f[i] = DecodedLines(raw, f, i)
    BY <2>6
  <2> DEFINE g == [i \in 1 .. L + 1 |-> IF i = a THEN DecodedLines(raw, f, a) ELSE f[i]]
  <2>8. ASSUME NEW i \in a .. L + 1
        PROVE  g[i] = DecodedLines(raw, g, i)
    <3> HIDE DEF a
    <3>1. i \in 1 .. L + 1 /\ \A j \in i + 1 .. L + 1 : j \in 1 .. L + 1 /\ j # a
      BY <1>1, <2>5, <2>8
    <3>2. \A j \in i + 1 .. L + 1 : f[j] = g[j]
      BY <3>1
    <3> HIDE DEF g
    <3>3. DecodedLines(raw, f, i) = DecodedLines(raw, g, i)
      BY <1>3, <3>1, <3>2
    <3>4. CASE i = a
      <4>1. g[i] = DecodedLines(raw, f, i)
        BY <3>1, <3>4 DEF g
      <4>2. QED
        BY <3>3, <4>1
    <3>5. CASE i # a
      <4>1. g[i] = f[i] /\ i \in a + 1 .. L + 1
        BY <1>1, <2>5, <2>8, <3>1, <3>5 DEF g
      <4>2. QED
        BY <2>7, <3>3, <4>1
    <3>6. QED
      BY <3>4, <3>5
  <2>9. Good(n)
    <3> HIDE DEF g
    <3>1. QED
      BY <2>8
  <2>10. QED
    BY <2>4, <2>9
<1>5. From(L) = 1 .. L + 1
  BY <1>1
<1>6. PICK f : \A i \in 1 .. L + 1 : f[i] = DecodedLines(raw, f, i)
  BY <1>4, <1>5
<1> DEFINE g == [i \in 1 .. L + 1 |-> f[i]]
<1>7. ASSUME NEW i \in 1 .. L + 1
      PROVE  g[i] = DecodedLines(raw, g, i)
  <2>1. \A j \in i + 1 .. L + 1 : f[j] = g[j]
    BY <1>1
  <2> HIDE DEF g
  <2>2. DecodedLines(raw, f, i) = DecodedLines(raw, g, i)
    BY <1>3, <2>1
  <2>3. QED
    BY <1>6, <2>2 DEF g
<1>8. g = [i \in 1 .. L + 1 |-> DecodedLines(raw, g, i)]
  <2>1. DOMAIN g = 1 .. L + 1 /\ g = [i \in 1 .. L + 1 |-> g[i]]
    OBVIOUS
  <2> HIDE DEF g
  <2>2. QED
    BY <1>7, <2>1
<1>9. v = [i \in 1 .. L + 1 |-> DecodedLines(raw, v, i)]
  <2> HIDE DEF g
  <2>1. QED
    BY <1>8
<1> HIDE DEF v
<1>10. \A i \in 1 .. L + 1 : v[i] = DecodedLines(raw, v, i)
  BY <1>9
<1>11. QED
  BY <1>2, <1>10 DEF L

\* Characters a decoded body may have, and what decoding gives: such a body, or
\* the beginning of one at which std::stoul has thrown.
Decoded == Seq(BodyChars \union {Nul})
Decodings == Decoded \union {c \o <<Exception>> : c \in Decoded}

LEMMA ChunkType ==
    ASSUME NEW raw \in Seq(BodyChars), NEW i \in Nat, NEW size \in Nat
    PROVE  Chunk(raw, i, size) \in Decoded /\ Len(Chunk(raw, i, size)) = size
<1> DEFINE C == Chunk(raw, i, size)
           S == BodyChars \union {Nul}
<1>1. C = [k \in 1 .. size |-> IF i + k - 1 \in DOMAIN raw THEN raw[i + k - 1] ELSE Nul]
  BY DEF Chunk
<1>2. \A k \in DOMAIN raw : raw[k] \in BodyChars
  BY ElementOfSeq, LenProperties
<1>3. C \in [1 .. size -> S]
  BY <1>1, <1>2
<1> HIDE DEF C, S
<1>4. C \in Seq(S) /\ Len(C) = size
  BY <1>3
<1>5. QED
  BY <1>4 DEF C, S, Decoded

LEMMA EndsInException ==
    ASSUME NEW c \in Decoded
    PROVE  DecodingThrows(c \o <<Exception>>)
<1> DEFINE S == BodyChars \union {Nul, Exception}
           t == c \o <<Exception>>
           n == Len(c)
<1>1. c \in Seq(S) /\ <<Exception>> \in Seq(S) /\ Len(<<Exception>>) = 1 /\ n \in Nat
  <2>1. c \in Seq(BodyChars \union {Nul})
    BY DEF Decoded
  <2>2. n \in Nat /\ c \in [1 .. n -> BodyChars \union {Nul}]
    BY <2>1, LenProperties
  <2>3. c \in Seq(S)
    BY <2>1
  <2>4. QED
    BY <2>2, <2>3
<1>2. t \in Seq(S) /\ Len(t) = n + 1
      /\ \A k \in 1 .. n + 1 : t[k] = IF k <= n THEN c[k] ELSE <<Exception>>[k - n]
  <2> DEFINE e == <<Exception>>
  <2>1. e \in Seq(S) /\ Len(e) = 1
    BY <1>1
  <2> HIDE DEF e
  <2>2. c \o e \in Seq(S) /\ Len(c \o e) = n + 1
        /\ \A k \in 1 .. n + 1 : (c \o e)[k] = IF k <= n THEN c[k] ELSE e[k - n]
    <3>1. c \in Seq(S) /\ e \in Seq(S)
      BY <1>1, <2>1
    <3> DEFINE x == Len(c)
               y == Len(e)
    <3>2. c \o e \in Seq(S) /\ Len(c \o e) = x + y
          /\ \A k \in 1 .. x + y : (c \o e)[k] = IF k <= x THEN c[k] ELSE e[k - x]
      BY ONLY <3>1, ConcatProperties
    <3>3. y = 1 /\ x = n
      BY <2>1
    <3> HIDE DEF x, y, n
    <3>4. QED
      BY <3>2, <3>3
  <2>3. QED
    BY <2>2 DEF e
<1> HIDE DEF t, n
<1>3. t[n + 1] = Exception
  BY <1>1, <1>2
<1>4. t # <<>>
  BY <1>1, <1>2, EmptySeq
<1>5. t[Len(t)] = Exception
  BY <1>2, <1>3
<1>6. DecodingThrows(t)
  BY <1>4, <1>5 DEF DecodingThrows
<1>7. QED
  BY <1>6 DEF t

LEMMA JoinedDecodings ==
    ASSUME NEW c \in Decoded, NEW d \in Decodings
    PROVE  c \o d \in Decodings
<1>1. CASE d \in Decoded
  BY <1>1, ConcatProperties DEF Decoded, Decodings
<1>2. CASE d \notin Decoded
  <2>1. PICK e \in Decoded : d = e \o <<Exception>>
    BY <1>2 DEF Decodings
  <2> DEFINE S == BodyChars \union {Nul, Exception}
  <2>2. c \in Seq(S) /\ e \in Seq(S) /\ <<Exception>> \in Seq(S)
    BY DEF Decoded
  <2>3. c \o d = (c \o e) \o <<Exception>>
    BY <2>1, <2>2, ConcatAssociative
  <2>4. c \o e \in Decoded
    BY ConcatProperties DEF Decoded
  <2>5. QED
    BY <2>3, <2>4 DEF Decodings
<1>3. QED
  BY <1>1, <1>2

LEMMA DecodedType ==
    ASSUME NEW raw \in Seq(BodyChars)
    PROVE  DecodeChunkedBody(raw) \in Decodings
<1> DEFINE L == Len(raw)
<1>1. L \in Nat
  BY LenProperties
<1>2. PICK D : /\ DecodeChunkedBody(raw) = D[1]
               /\ \A i \in 1 .. Len(raw) + 1 : D[i] = DecodedLines(raw, D, i)
  BY DecoderExists
<1>3. ASSUME NEW i \in 1 .. L + 1, \A j \in i + 1 .. L + 1 : D[j] \in Decodings
      PROVE  D[i] \in Decodings
  <2> DEFINE start == NextLine(raw, i)
             first == Skipped(raw, i)
             size  == ChunkSize(raw, first)
             after == start + size + 2
  <2>1. D[i] = DecodedLines(raw, D, i)
    BY <1>2
  <2>2. <<>> \in Decoded /\ <<>> \in Decodings /\ <<Exception>> \in Decodings
    <3>1. <<>> \in Decoded /\ <<Exception>> \in Seq({Exception})
      BY EmptySeq DEF Decoded
    <3>2. <<>> \o <<Exception>> = <<Exception>>
      BY <3>1, ConcatEmptySeq
    <3>3. QED
      BY <3>1, <3>2 DEF Decodings
  <2>3. CASE i > Len(raw)
    <3>1. D[i] = <<>>
      BY <2>1, <2>3 DEF DecodedLines
    <3>2. QED
      BY <2>2, <3>1
  <2>4. CASE i <= Len(raw)
    <3>0. i \in 1 .. L
      <4>1. i <= L
        BY <2>4
      <4> HIDE DEF L
      <4>2. QED
        BY <1>1, <1>3, <4>1
    <3>1. start \in i + 1 .. L + 1
      BY <3>0, NextLineType
    <3>2. first \in 1 .. L + 1
      <4>1. first \in i .. L + 1
        BY SkippedType
      <4> HIDE DEF L, first
      <4>2. QED
        BY <1>1, <1>3, <4>1
    <3>3. size \in Nat
      <4> HIDE DEF first
      <4>1. QED
        BY <3>2, ChunkSizeType
    <3>4. Chunk(raw, start, size) \in Decoded
      <4>1. start \in Nat
        <5> HIDE DEF L, start
        <5>1. QED
          BY <1>1, <1>3, <3>1
      <4> HIDE DEF start, size
      <4>2. QED
        BY <3>3, <4>1, ChunkType
    <3>5. after <= L => after \in i + 1 .. L + 1
      <4> HIDE DEF L, start, size
      <4>1. QED
        BY <1>1, <1>3, <3>1, <3>3
    <3>6. D[start] \in Decodings /\ (after <= L => D[after] \in Decodings)
      BY <1>3, <3>1, <3>5
    <3> DEFINE rest == IF after <= L THEN D[after] ELSE <<>>
    <3>7. rest \in Decodings
      BY <2>2, <3>6
    <3>8. D[i] \in {<<>>, <<Exception>>, D[start], Chunk(raw, start, size) \o rest}
      <4>1. first \in Nat /\ Digits(raw, first) \in Nat
        <5> HIDE DEF first
        <5>1. first \in Nat /\ Digits(raw, first) \in 0 .. L
          BY <1>1, <3>2, DigitsType
        <5>2. QED
          BY <1>1, <5>1
      <4>2. raw[i] = LF \/ (raw[i] # LF /\ Digits(raw, first) = 0)
            \/ (raw[i] # LF /\ Digits(raw, first) > 0)
        BY <4>1
      <4>3. ~(i > Len(raw))
        BY <1>1, <3>0
      <4> HIDE DEF start, first, size
      <4>4. QED
        BY <2>1, <2>4, <4>2, <4>3 DEF DecodedLines, start, first, size
    <3>9. Chunk(raw, start, size) \o rest \in Decodings
      <4> HIDE DEF rest
      <4>1. QED
        BY <3>4, <3>7, JoinedDecodings
    <3>10. QED
      BY <2>2, <3>6, <3>8, <3>9
  <2>5. QED
    <3>1. i > L \/ i <= L
      <4> HIDE DEF L
      <4>1. QED
        BY <1>1, <1>3
    <3>2. QED
      BY <2>3, <2>4, <3>1
<1> HIDE DEF L
<1> DEFINE T == {n \in 0 .. L : D[L + 1 - n] \notin Decodings}
<1>4. T = {}
  <2>1. SUFFICES ASSUME T # {} PROVE FALSE
    OBVIOUS
  <2>2. T \in SUBSET Nat
    BY <1>1
  <2>3. PICK n \in T : \A m \in T : n <= m
    <3> HIDE DEF T
    <3>1. QED
      BY <2>1, <2>2, LeastNumber
  <2>4. L + 1 - n \in 1 .. L + 1 /\ n \in 0 .. L
    BY <1>1, <2>3
  <2>5. ASSUME NEW j \in L + 1 - n + 1 .. L + 1
        PROVE  D[j] \in Decodings
    <3>1. L + 1 - j \in 0 .. L /\ L + 1 - (L + 1 - j) = j /\ ~(n <= L + 1 - j)
      BY <1>1, <2>4, <2>5
    <3>2. QED
      BY <2>3, <3>1
  <2>6. D[L + 1 - n] \in Decodings
    BY <1>3, <2>4, <2>5
  <2>7. QED
    BY <2>3, <2>6
<1>5. D[1] \in Decodings
  <2>1. L \in 0 .. L /\ L + 1 - L = 1
    BY <1>1
  <2>2. QED
    BY <1>4, <2>1
<1>6. QED
  BY <1>2, <1>5

-----------------------------------------------------------------------------
(***************************************************************************)
(* The invariant: an outcome is there exactly when the request is complete,*)
(* and it is one of what was read until then.                              *)
(***************************************************************************)
ForScript(m, raw) == By("script", Other, GetHeader(m, "Content-Length"), Body(m, raw))

Outcomes(m, raw) ==
    {By("server", 400, "", <<>>), By("server", 413, "", <<>>), By("router", Other, "", <<>>),
     ForScript(m, raw), HandlePOST(m, raw)}

FramingInv ==
    /\ message \in Messages
    /\ read \in 0 .. Size(message)
    /\ outcome = Waiting <=> ~HTTP_IsRequestComplete(message, read)
    /\ outcome # Waiting => outcome \in Outcomes(message, Raw(message, read))

LEMMA PostIsOfRouter ==
    ASSUME NEW m, NEW raw
    PROVE  HandlePOST(m, raw).by = "router"
<1> DEFINE length == GetHeader(m, "Content-Length")
           chunked == GetHeader(m, "Transfer-Encoding") = "chunked"
           body == IF chunked THEN DecodeChunkedBody(raw) ELSE Body(m, raw)
<1>1. HandlePOST(m, raw) =
         CASE length = "" /\ ~chunked -> By("router", 411, length, <<>>)
          [] length # "" /\ length \in NoNumber -> By("router", Thrown, length, <<>>)
          [] length # "" /\ length \notin NoNumber /\ Strtoul[length] > RouterLimit ->
                By("router", 413, length, <<>>)
          [] OTHER -> IF DecodingThrows(body) THEN By("router", Thrown, length, <<>>)
                                              ELSE By("router", Stored, length, body)
  BY DEF HandlePOST
<1> HIDE DEF length, chunked, body
<1>2. \A status, l, b : By("router", status, l, b).by = "router"
  BY DEF By
<1>3. CASE length = "" /\ ~chunked
  <2>1. HandlePOST(m, raw) = By("router", 411, length, <<>>)
    BY <1>1, <1>3
  <2>2. QED
    BY <1>2, <2>1
<1>4. CASE length # "" /\ length \in NoNumber
  <2>1. HandlePOST(m, raw) = By("router", Thrown, length, <<>>)
    BY <1>1, <1>4
  <2>2. QED
    BY <1>2, <2>1
<1>5. CASE length # "" /\ length \notin NoNumber /\ Strtoul[length] > RouterLimit
  <2>1. HandlePOST(m, raw) = By("router", 413, length, <<>>)
    BY <1>1, <1>5
  <2>2. QED
    BY <1>2, <2>1
<1>6. CASE /\ ~(length = "" /\ ~chunked) /\ ~(length # "" /\ length \in NoNumber)
           /\ ~(length # "" /\ length \notin NoNumber /\ Strtoul[length] > RouterLimit)
  <2>1. HandlePOST(m, raw) = IF DecodingThrows(body) THEN By("router", Thrown, length, <<>>)
                                                     ELSE By("router", Stored, length, body)
    BY <1>1, <1>6
  <2>2. QED
    BY <1>2, <2>1
<1>7. QED
  BY <1>3, <1>4, <1>5, <1>6

LEMMA OutcomeIsNoWaiting ==
    ASSUME NEW m, NEW raw
    PROVE  Waiting \notin Outcomes(m, raw)
<1>1. ASSUME NEW o \in Outcomes(m, raw)
      PROVE  o.by # "nobody"
  <2>1. o = HandlePOST(m, raw) => o.by = "router"
    BY PostIsOfRouter
  <2>2. By("server", 400, "", <<>>).by = "server"
    BY DEF By
  <2>3. By("server", 413, "", <<>>).by = "server"
    BY DEF By
  <2>4. By("router", Other, "", <<>>).by = "router"
    BY DEF By
  <2>5. ForScript(m, raw).by = "script"
    BY DEF By, ForScript
  <2>6. \/ o = HandlePOST(m, raw) \/ o = By("server", 400, "", <<>>)
        \/ o = By("server", 413, "", <<>>) \/ o = By("router", Other, "", <<>>)
        \/ o = ForScript(m, raw)
    BY DEF Outcomes
  <2>7. QED
    BY <2>1, <2>2, <2>3, <2>4, <2>5, <2>6
<1>2. Waiting.by = "nobody"
  BY DEF Waiting
<1>3. QED
  BY <1>1, <1>2

\* An outcome for a script is the one of ReceiveForScript.
LEMMA ScriptOutcome ==
    ASSUME NEW m, NEW raw, NEW o \in Outcomes(m, raw), o.by = "script"
    PROVE  o = ForScript(m, raw)
<1>1. o = HandlePOST(m, raw) => o.by = "router"
  BY PostIsOfRouter
<1>2. By("server", 400, "", <<>>).by = "server"
  BY DEF By
<1>3. By("server", 413, "", <<>>).by = "server"
  BY DEF By
<1>4. By("router", Other, "", <<>>).by = "router"
  BY DEF By
<1>5. \/ o = HandlePOST(m, raw) \/ o = By("server", 400, "", <<>>)
      \/ o = By("server", 413, "", <<>>) \/ o = By("router", Other, "", <<>>)
      \/ o = ForScript(m, raw)
  BY DEF Outcomes
<1>6. QED
  BY <1>1, <1>2, <1>3, <1>4, <1>5

LEMMA FramingInit == Init => FramingInv
<1> SUFFICES ASSUME Init PROVE FramingInv
  OBVIOUS
<1>1. message \in Messages /\ read = 0 /\ outcome = Waiting
  BY DEF Init
<1>2. HeadSize(message) >= 2 /\ HeadSize(message) \in Nat /\ Size(message) \in Nat
  BY <1>1, MessageSizes
<1>3. ~HTTP_IsRequestComplete(message, 0)
  <2>1. ~(HeadSize(message) <= 0)
    BY <1>2
  <2>2. QED
    BY <2>1 DEF HTTP_IsRequestComplete
<1>4. QED
  BY <1>1, <1>2, <1>3 DEF FramingInv

LEMMA FramingStep ==
    ASSUME FramingInv, [Next]_vars
    PROVE  FramingInv'
<1>1. message \in Messages /\ read \in 0 .. Size(message) /\ Size(message) \in Nat
  BY MessageSizes DEF FramingInv
<1>2. CASE ReceivePart
  <2>1. PICK n \in read + 1 .. Size(message) :
           ~HTTP_IsRequestComplete(message, n) /\ read' = n
    BY <1>2 DEF ReceivePart
  <2>2. message' = message /\ outcome' = Waiting /\ n \in 0 .. Size(message)
    BY <1>1, <1>2 DEF ReceivePart
  <2>3. QED
    BY <1>1, <2>1, <2>2 DEF FramingInv
<1>3. ASSUME NEW n \in read + 1 .. Size(message), Complete(n), read' = n, message' = message,
             outcome' \in Outcomes(message, Raw(message, n))
      PROVE  FramingInv'
  <2>1. HTTP_IsRequestComplete(message, n) /\ n \in 0 .. Size(message)
    BY <1>1, <1>3 DEF Complete
  <2>2. outcome' # Waiting
    BY <1>3, OutcomeIsNoWaiting
  <2>3. QED
    BY <1>1, <1>3, <2>1, <2>2 DEF FramingInv
<1>4. CASE ReceiveMalformed
  BY <1>3, <1>4 DEF ReceiveMalformed, Outcomes
<1>5. CASE ReceiveTooLarge
  BY <1>3, <1>5 DEF ReceiveTooLarge, Outcomes
<1>6. CASE ReceiveForScript
  BY <1>3, <1>6 DEF ReceiveForScript, ForScript, Outcomes
<1>7. CASE ReceiveForRouter
  BY <1>3, <1>7 DEF ReceiveForRouter, Outcomes
<1>8. CASE UNCHANGED vars
  BY <1>8 DEF FramingInv, vars
<1>9. QED
  BY <1>2, <1>4, <1>5, <1>6, <1>7, <1>8 DEF Next

LEMMA FramingInvariant == Spec => []FramingInv
<1>1. FramingInv /\ [Next]_vars => FramingInv'
  BY FramingStep
<1>2. QED
  BY FramingInit, <1>1, PTL DEF Spec

\* A request is acted on with its last byte, however it is cut up and however
\* the headers that frame it are spelled.
THEOREM JudgedInTime == Spec => []JudgedAtItsEnd
<1>1. ASSUME FramingInv, WellFormed(message)
      PROVE  outcome = Waiting <=> read < HeadSize(message) + Len(message.body)
  <2>1. message \in Messages /\ read \in 0 .. Size(message)
        /\ (outcome = Waiting <=> ~HTTP_IsRequestComplete(message, read))
    BY <1>1 DEF FramingInv
  <2>2. HTTP_IsRequestComplete(message, read) <=> HeadSize(message) + Len(message.body) <= read
    BY <1>1, <2>1, CompleteAtTheEnd
  <2> DEFINE e == HeadSize(message) + Len(message.body)
  <2>3. HeadSize(message) \in Nat /\ Len(message.body) \in Nat /\ Size(message) \in Nat
    BY <2>1, MessageSizes
  <2>4. e \in Nat /\ read \in Nat
    BY <2>1, <2>3
  <2> HIDE DEF e
  <2>5. ~(e <= read) <=> read < e
    BY <2>4
  <2>6. QED
    BY <2>1, <2>2, <2>5 DEF e
<1>2. FramingInv => JudgedAtItsEnd
  BY <1>1 DEF JudgedAtItsEnd
<1>3. QED
  BY <1>2, FramingInvariant, PTL

\* What a script is told of the length of its input is what it gets of it, and
\* what the client means.
THEOREM ScriptReadsItsBody == Spec => []ScriptToldLength
<1>1. ASSUME FramingInv, outcome.by = "script", Spelled(message), ~Multipart(message),
             Meant(message), LengthForm(message) \/ NoBodyForm(message)
      PROVE  /\ Strtoul[outcome.length] <= Len(outcome.body)
             /\ SubSeq(outcome.body, 1, Strtoul[outcome.length]) = message.data
  <2> DEFINE raw == Raw(message, read)
             h == HeadSize(message)
             p == read - h
             b == Len(message.body)
             length == GetHeader(message, "Content-Length")
  <2>1. message \in Messages /\ read \in 0 .. Size(message)
    BY <1>1 DEF FramingInv
  <2>2. outcome # Waiting
    <3>1. Waiting.by = "nobody"
      BY DEF Waiting
    <3>2. QED
      BY <1>1, <3>1
  <2>3. HTTP_IsRequestComplete(message, read) /\ outcome \in Outcomes(message, raw)
    BY <1>1, <2>2 DEF FramingInv
  <2>4. WellFormed(message) /\ h + b <= read
    BY <1>1, <2>1, <2>3, CompleteAtTheEnd DEF WellFormed
  <2>5. h \in Nat /\ b \in Nat /\ message.body \in Seq(BodyChars) /\ message.next \in Seq(BodyChars)
    BY <2>1, MessageSizes
  <2>6. h <= read /\ read \in Nat /\ read \in h .. Size(message) /\ b <= p /\ p \in Nat
    <3>1. Size(message) \in Nat
      BY <2>1, MessageSizes
    <3> HIDE DEF h, b
    <3>2. QED
      BY <2>1, <2>4, <2>5, <3>1
  <2>7. /\ raw = SubSeq(message.body \o message.next, 1, p) /\ raw \in Seq(BodyChars)
        /\ Len(raw) = p /\ p \in 0 .. Len(message.body \o message.next)
    BY <2>1, <2>6, RawIsPrefix
  <2>8. outcome = ForScript(message, raw)
    BY <1>1, <2>3, ScriptOutcome
  <2>9. Body(message, raw) = raw
    <3>1. GetHeader(message, "Transfer-Encoding") = ""
      BY <1>1, NoLine DEF LengthForm, NoBodyForm
    <3>2. GetHeader(message, "Content-Type") # "multipart"
      BY <1>1, NoLine DEF Multipart
    <3>3. QED
      BY <3>1, <3>2 DEF Body
  <2>10. outcome.length = length /\ outcome.body = raw
    BY <2>8, <2>9 DEF ForScript, By
  <2>11. Strtoul[length] = b
    <3>1. CASE LengthForm(message)
      <4>1. PICK k \in DOMAIN message.headers :
               /\ Lines(message, "Content-Length") = {k}
               /\ Strtoul[message.headers[k].value] = b
        BY <3>1 DEF LengthForm
      <4>2. QED
        BY <1>1, <2>1, <4>1, OneLine
    <3>2. CASE NoBodyForm(message)
      <4>1. length = "" /\ b = 0
        BY <3>2, NoLine, EmptySeq DEF NoBodyForm
      <4>2. QED
        BY <4>1, FramingNumbersAssumption
    <3>3. QED
      BY <1>1, <3>1, <3>2
  <2>12. message.data = message.body
    BY <1>1 DEF Meant, LengthForm, NoBodyForm, ChunkedHead
  <2>13. SubSeq(raw, 1, b) = message.body
    BY <2>5, <2>6, <2>7, PrefixOfPrefix
  <2>14. QED
    BY <2>6, <2>7, <2>10, <2>11, <2>12, <2>13
<1>2. FramingInv => ScriptToldLength
  BY <1>1 DEF ScriptToldLength
<1>3. QED
  BY <1>2, FramingInvariant, PTL

-----------------------------------------------------------------------------
(***************************************************************************)
(* What a handler gets has its type.                                       *)
(***************************************************************************)
\* A header's value is a value, also one that is not there.
LEMMA HeaderValueType ==
    ASSUME NEW m \in Messages, NEW name
    PROVE  GetHeader(m, name) \in DOMAIN Strtoul
<1> DEFINE H == m.headers
           K == {k \in DOMAIN H : H[k].name = name /\ H[k].exact}
           Last == {k \in K : \A j \in K : j <= k}
           V == Values(m, Last)
<1>1. H \in Seq(HeaderType)
  BY MessageSizes
<1>2. \A k \in DOMAIN H : H[k] \in HeaderType
  <2> HIDE DEF H
  <2>1. QED
    BY <1>1, ElementOfSeq, LenProperties
<1>3. \A h \in HeaderType : h.value \in DOMAIN Strtoul
  BY DEF HeaderType
<1>4. V \subseteq DOMAIN Strtoul
  <2>1. V = {H[k].value : k \in Last}
    BY DEF Values
  <2>2. Last \subseteq DOMAIN H
    OBVIOUS
  <2> HIDE DEF H, V, Last
  <2>3. QED
    BY <1>2, <1>3, <2>1, <2>2
<1>5. GetHeader(m, name) = Only(V)
  BY DEF GetHeader
<1> HIDE DEF V
<1>6. V = {} => Only(V) = ""
  BY DEF Only
<1>7. V # {} => Only(V) \in V
  BY DEF Only
<1>8. "" \in DOMAIN Strtoul
  BY FramingNumbersAssumption
<1>9. QED
  BY <1>4, <1>5, <1>6, <1>7, <1>8

\* Where a text is cut that loses the line ends at its end: there is such a place,
\* and no other.
CutAt(s, n) ==
    /\ n = 0 \/ s[n] \notin {CR, LF}
    /\ \A k \in n + 1 .. Len(s) : s[k] \in {CR, LF}

LEMMA LineEndsCut ==
    ASSUME NEW S, NEW s \in Seq(S)
    PROVE  /\ \E n \in 0 .. Len(s) : CutAt(s, n)
           /\ \A n \in 0 .. Len(s) : CutAt(s, n) => WithoutLineEnds(s) = SubSeq(s, 1, n)
<1> DEFINE L == Len(s)
           T == {n \in 0 .. L : \A k \in n + 1 .. L : s[k] \in {CR, LF}}
           K == {k \in DOMAIN s : s[k] \notin {CR, LF}}
           P(n) == n \in K \union {0} /\ \A k \in K : k <= n
           c == CHOOSE n \in 0 .. L : P(n)
<1>1. L \in Nat /\ DOMAIN s = 1 .. L
  BY LenProperties
<1>2. WithoutLineEnds(s) = SubSeq(s, 1, c)
  BY DEF WithoutLineEnds
<1>3. \A n : CutAt(s, n) <=> /\ n = 0 \/ s[n] \notin {CR, LF}
                             /\ \A k \in n + 1 .. L : s[k] \in {CR, LF}
  BY DEF CutAt
<1> HIDE DEF L
<1>4. T \in SUBSET Nat /\ L \in T
  BY <1>1
<1>5. PICK n \in T : \A j \in T : n <= j
  <2> HIDE DEF T
  <2>1. QED
    BY <1>4, LeastNumber
<1>6. n \in 0 .. L /\ CutAt(s, n)
  <2>1. n \in 0 .. L /\ \A k \in n + 1 .. L : s[k] \in {CR, LF}
    BY <1>5
  <2>2. ASSUME n # 0, s[n] \in {CR, LF}
        PROVE  FALSE
    <3>1. n - 1 \in 0 .. L /\ ~(n <= n - 1) /\ \A k \in (n - 1) + 1 .. L : k = n \/ k \in n + 1 .. L
      BY <1>1, <2>1, <2>2
    <3>2. n - 1 \in T
      BY <2>1, <2>2, <3>1
    <3>3. QED
      BY <1>5, <3>1, <3>2
  <2>3. QED
    BY <1>3, <2>1, <2>2
<1>7. ASSUME NEW x \in 0 .. L, CutAt(s, x)
      PROVE  c = x
  <2>1. P(x)
    BY <1>1, <1>3, <1>7
  <2>2. \A y \in 0 .. L : P(y) => y = x
    BY <1>1, <2>1
  <2> HIDE DEF P
  <2>3. c \in 0 .. L /\ P(c)
    BY <2>1
  <2>4. QED
    BY <2>2, <2>3
<1> HIDE DEF c
<1>8. QED
  BY <1>2, <1>6, <1>7 DEF L

\* The first of some places, as the code's searches find it.
LEMMA FirstOf ==
    ASSUME NEW T \in SUBSET Nat, NEW n \in T, \A j \in T : n <= j
    PROVE  (CHOOSE k \in T : \A j \in T : k <= j) = n
<1>1. \A k \in T : (\A j \in T : k <= j) => k = n
  OBVIOUS
<1>2. QED
  BY <1>1

LEMMA FirstIsThere ==
    ASSUME NEW T \in SUBSET Nat, T # {}
    PROVE  (CHOOSE k \in T : \A j \in T : k <= j) \in T
  BY LeastNumber, FirstOf

\* The part of a form is text of the form.
LEMMA PartType ==
    ASSUME NEW raw \in Seq(BodyChars)
    PROVE  BodyContentExtractor(raw) \in Seq(BodyChars)
<1> DEFINE starts == Occurrences(<<CR, LF, CR, LF>>, raw)
           start  == CHOOSE k \in starts : \A j \in starts : k <= j
           ends   == {k \in Occurrences(<<Mark>>, raw) : start + 4 <= k}
           end    == CHOOSE k \in ends : \A j \in ends : k <= j
           part   == SubSeq(raw, start + 4, end - 1)
           L      == Len(raw)
<1>1. BodyContentExtractor(raw) = IF starts = {} \/ ends = {} THEN <<>> ELSE WithoutLineEnds(part)
  BY DEF BodyContentExtractor
<1>2. L \in Nat /\ \A k \in 1 .. L : raw[k] \in BodyChars
  BY LenProperties, ElementOfSeq
<1>3. \A text : Occurrences(text, raw) \subseteq 1 .. L
  BY DEF Occurrences
<1>4. CASE starts = {} \/ ends = {}
  BY <1>1, <1>4, EmptySeq
<1>5. CASE starts # {} /\ ends # {}
  <2>1. starts \in SUBSET Nat /\ starts \subseteq 1 .. L
    <3> HIDE DEF L
    <3>1. QED
      BY <1>2, <1>3
  <2>2. start \in starts
    <3> HIDE DEF starts
    <3>1. QED
      BY <1>5, <2>1, FirstIsThere
  <2>3. start \in 1 .. L
    BY <2>1, <2>2
  <2>4. ends \in SUBSET Nat /\ ends \subseteq 1 .. L
    <3> HIDE DEF L, start
    <3>1. QED
      BY <1>2, <1>3
  <2>5. end \in ends
    <3> HIDE DEF ends
    <3>1. QED
      BY <1>5, <2>4, FirstIsThere
  <2>6. end \in 1 .. L
    BY <2>4, <2>5
  <2> HIDE DEF start, end, L
  <2>7. start + 4 \in Int /\ end - 1 \in Int /\ \A k \in start + 4 .. end - 1 : raw[k] \in BodyChars
    BY <1>2, <2>3, <2>6
  <2>8. part \in Seq(BodyChars)
    BY <2>7, SubSeqProperties
  <2> HIDE DEF part
  <2>9. PICK n \in 0 .. Len(part) : WithoutLineEnds(part) = SubSeq(part, 1, n)
    BY <2>8, LineEndsCut
  <2>10. WithoutLineEnds(part) \in Seq(BodyChars)
    BY <2>8, <2>9, Prefix
  <2>11. QED
    BY <1>1, <1>5, <2>10
<1>6. QED
  BY <1>4, <1>5

LEMMA BodyType ==
    ASSUME NEW m, NEW raw \in Seq(BodyChars)
    PROVE  Body(m, raw) \in Seq(BodyChars)
<1>1. <<>> \in Seq(BodyChars)
  BY EmptySeq
<1>2. QED
  BY <1>1, PartType DEF Body

Typed(o) ==
    /\ o.by \in {"server", "script", "router"}
    /\ o.status \in {Thrown, Other, Stored, 400, 411, 413}
    /\ o.length \in DOMAIN Strtoul
    /\ o.body \in Seq(BodyChars \union {Nul})

LEMMA TypedBy ==
    ASSUME NEW who \in {"server", "script", "router"},
           NEW status \in {Thrown, Other, Stored, 400, 411, 413},
           NEW length \in DOMAIN Strtoul, NEW body \in Seq(BodyChars \union {Nul})
    PROVE  Typed(By(who, status, length, body))
<1> DEFINE o == By(who, status, length, body)
<1>1. o.by = who /\ o.status = status /\ o.length = length /\ o.body = body
  BY DEF By
<1> HIDE DEF o
<1>2. Typed(o)
  BY <1>1 DEF Typed
<1>3. QED
  BY <1>2 DEF o

\* handlePOST, its exceptions included.
LEMMA PostType ==
    ASSUME NEW m \in Messages, NEW raw \in Seq(BodyChars)
    PROVE  Typed(HandlePOST(m, raw))
<1> DEFINE length == GetHeader(m, "Content-Length")
           chunked == GetHeader(m, "Transfer-Encoding") = "chunked"
           body == IF chunked THEN DecodeChunkedBody(raw) ELSE Body(m, raw)
           o == HandlePOST(m, raw)
<1>1. o = CASE length = "" /\ ~chunked -> By("router", 411, length, <<>>)
            [] length # "" /\ length \in NoNumber -> By("router", Thrown, length, <<>>)
            [] length # "" /\ length \notin NoNumber /\ Strtoul[length] > RouterLimit ->
                  By("router", 413, length, <<>>)
            [] OTHER -> IF DecodingThrows(body) THEN By("router", Thrown, length, <<>>)
                                                ELSE By("router", Stored, length, body)
  BY DEF HandlePOST
<1>2. length \in DOMAIN Strtoul
  BY HeaderValueType
<1>3. body \in Decodings
  <2>1. DecodeChunkedBody(raw) \in Decodings
    BY DecodedType
  <2>2. Body(m, raw) \in Seq(BodyChars)
    BY BodyType
  <2> DEFINE b == Body(m, raw)
  <2>3. b \in Decoded
    <3> HIDE DEF b
    <3>1. b \in Seq(BodyChars)
      BY <2>2 DEF b
    <3>2. QED
      BY <3>1 DEF Decoded
  <2>4. QED
    BY <2>1, <2>3 DEF Decodings
<1>4. ~DecodingThrows(body) => body \in Seq(BodyChars \union {Nul})
  <2> HIDE DEF body
  <2>1. QED
    BY <1>3, EndsInException DEF Decodings, Decoded
<1>5. <<>> \in Seq(BodyChars \union {Nul})
  BY EmptySeq
<1> HIDE DEF length, chunked, body, o
<1>6. \/ o = By("router", 411, length, <<>>) \/ o = By("router", Thrown, length, <<>>)
      \/ o = By("router", 413, length, <<>>)
      \/ ~DecodingThrows(body) /\ o = By("router", Stored, length, body)
  <2>1. CASE length = "" /\ ~chunked
    <3>1. o = By("router", 411, length, <<>>)
      BY <1>1, <2>1
    <3>2. QED
      BY <3>1
  <2>2. CASE length # "" /\ length \in NoNumber
    BY <1>1, <2>2
  <2>3. CASE length # "" /\ length \notin NoNumber /\ Strtoul[length] > RouterLimit
    BY <1>1, <2>3
  <2>4. CASE /\ ~(length = "" /\ ~chunked) /\ ~(length # "" /\ length \in NoNumber)
             /\ ~(length # "" /\ length \notin NoNumber /\ Strtoul[length] > RouterLimit)
    <3>1. o = IF DecodingThrows(body) THEN By("router", Thrown, length, <<>>)
                                      ELSE By("router", Stored, length, body)
      BY <1>1, <2>4
    <3>2. QED
      BY <3>1
  <2>5. QED
    BY <2>1, <2>2, <2>3, <2>4
<1> DEFINE empty == <<>>
<1>7. Typed(By("router", 411, length, empty)) /\ Typed(By("router", 413, length, empty))
      /\ Typed(By("router", Thrown, length, empty))
  <2>1. empty \in Seq(BodyChars \union {Nul})
    BY <1>5
  <2> HIDE DEF empty
  <2>2. QED
    BY <1>2, <2>1, TypedBy
<1>8. ASSUME ~DecodingThrows(body)
      PROVE  Typed(By("router", Stored, length, body))
  BY <1>2, <1>4, <1>8, TypedBy
<1>9. Typed(o)
  BY <1>6, <1>7, <1>8
<1>10. QED
  BY <1>9 DEF o

\* An outcome has its type: what a handler is given are characters of a body,
\* whatever the message and wherever the reads cut it.
THEOREM FramingTypeCorrect == Spec => []TypeOK
<1>1. ASSUME FramingInv, outcome # Waiting
      PROVE  Typed(outcome)
  <2> DEFINE raw == Raw(message, read)
  <2>1. message \in Messages /\ read \in 0 .. Size(message) /\ outcome \in Outcomes(message, raw)
    BY <1>1 DEF FramingInv
  <2>2. read \in HeadSize(message) .. Size(message)
    <3>1. HeadSize(message) <= read
      BY <1>1 DEF FramingInv, HTTP_IsRequestComplete
    <3>2. HeadSize(message) \in Nat /\ Size(message) \in Nat
      BY <2>1, MessageSizes
    <3>3. QED
      BY <2>1, <3>1, <3>2
  <2>3. raw \in Seq(BodyChars)
    BY <2>1, <2>2, RawIsPrefix
  <2> HIDE DEF raw
  <2>4. "" \in DOMAIN Strtoul /\ <<>> \in Seq(BodyChars \union {Nul})
    BY FramingNumbersAssumption, EmptySeq
  <2> DEFINE empty == <<>>
  <2>5. /\ Typed(By("server", 400, "", empty)) /\ Typed(By("server", 413, "", empty))
        /\ Typed(By("router", Other, "", empty))
    <3>1. ASSUME NEW no \in DOMAIN Strtoul, NEW e \in Seq(BodyChars \union {Nul})
          PROVE  /\ Typed(By("server", 400, no, e)) /\ Typed(By("server", 413, no, e))
                 /\ Typed(By("router", Other, no, e))
      BY TypedBy
    <3>2. QED
      BY ONLY <2>4, <3>1
  <2>6. Typed(HandlePOST(message, raw))
    BY <2>1, <2>3, PostType
  <2>7. Typed(ForScript(message, raw))
    <3>1. GetHeader(message, "Content-Length") \in DOMAIN Strtoul
      BY <2>1, HeaderValueType
    <3>2. Body(message, raw) \in Seq(BodyChars)
      BY <2>3, BodyType
    <3> DEFINE b == Body(message, raw)
    <3>3. b \in Seq(BodyChars \union {Nul})
      <4> HIDE DEF b
      <4>1. b \in Seq(BodyChars)
        BY <3>2 DEF b
      <4>2. QED
        BY <4>1
    <3>4. QED
      BY <3>1, <3>3, TypedBy DEF ForScript
  <2>8. \/ outcome = By("server", 400, "", empty) \/ outcome = By("server", 413, "", empty)
        \/ outcome = By("router", Other, "", empty)
        \/ outcome = ForScript(message, raw) \/ outcome = HandlePOST(message, raw)
    BY <2>1 DEF Outcomes
  <2> HIDE DEF empty
  <2>9. CASE outcome = By("server", 400, "", empty)
    BY ONLY <2>5, <2>9
  <2>10. CASE outcome = By("server", 413, "", empty)
    BY ONLY <2>5, <2>10
  <2>11. CASE outcome = By("router", Other, "", empty)
    BY ONLY <2>5, <2>11
  <2>12. CASE outcome = ForScript(message, raw)
    BY ONLY <2>7, <2>12
  <2>13. CASE outcome = HandlePOST(message, raw)
    BY ONLY <2>6, <2>13
  <2>14. QED
    BY <2>8, <2>9, <2>10, <2>11, <2>12, <2>13
<1>2. FramingInv => TypeOK
  BY <1>1 DEF FramingInv, TypeOK, Typed
<1>3. QED
  BY <1>2, FramingInvariant, PTL

-----------------------------------------------------------------------------
(***************************************************************************)
(* What has been read when a request is acted on begins with its body.     *)
(***************************************************************************)
Begins(raw, body) ==
    Len(body) <= Len(raw) /\ \A k \in 1 .. Len(body) : raw[k] = body[k]

LEMMA BodyIsRead ==
    ASSUME NEW m \in Messages, NEW n \in HeadSize(m) .. Size(m), HeadSize(m) + Len(m.body) <= n
    PROVE  Begins(Raw(m, n), m.body) /\ SubSeq(Raw(m, n), 1, Len(m.body)) = m.body
<1> DEFINE raw == Raw(m, n)
           b == Len(m.body)
           h == HeadSize(m)
           p == n - h
<1>1. h \in Nat /\ b \in Nat /\ Size(m) \in Nat /\ h + b <= n /\ n \in h .. Size(m)
      /\ m.body \in Seq(BodyChars) /\ m.next \in Seq(BodyChars)
  BY MessageSizes
<1>2. /\ p \in 0 .. Len(m.body \o m.next) /\ raw = SubSeq(m.body \o m.next, 1, p)
      /\ raw \in Seq(BodyChars) /\ Len(raw) = p
  BY RawIsPrefix
<1>3. b <= p /\ p \in Nat
  <2> HIDE DEF b, h
  <2>1. QED
    BY <1>1
<1>4. SubSeq(raw, 1, b) = m.body
  BY <1>1, <1>2, <1>3, PrefixOfPrefix
<1>5. b \in 0 .. Len(raw)
  <2> HIDE DEF p, b, raw
  <2>1. QED
    BY <1>1, <1>2, <1>3
<1> HIDE DEF raw
<1>6. \A k \in 1 .. b : SubSeq(raw, 1, b)[k] = raw[k]
  BY <1>2, <1>5, Prefix
<1>7. \A k \in 1 .. b : raw[k] = m.body[k]
  BY <1>4, <1>6
<1>8. b <= Len(raw)
  BY <1>2, <1>3
<1>9. QED
  BY <1>4, <1>7, <1>8 DEF Begins, raw

\* A piece of the body is the same piece of what was read.
LEMMA SamePiece ==
    ASSUME NEW raw \in Seq(BodyChars), NEW body \in Seq(BodyChars), Begins(raw, body),
           NEW i \in Nat \ {0}, NEW e \in Int, e <= Len(body)
    PROVE  /\ SubSeq(raw, i, e) = SubSeq(body, i, e)
           /\ SubSeq(body, i, e) \in Seq(BodyChars)
<1> DEFINE b == Len(body)
<1>1. b \in Nat /\ e <= b /\ \A k \in 1 .. b : body[k] \in BodyChars /\ raw[k] = body[k]
  BY LenProperties, ElementOfSeq DEF Begins
<1> HIDE DEF b
<1>2. \A k \in i .. e : k \in 1 .. b
  BY <1>1
<1>3. \A k \in i .. e : body[k] \in BodyChars /\ raw[k] \in BodyChars /\ raw[k] = body[k]
  BY <1>1, <1>2
<1> DEFINE s == SubSeq(raw, i, e)
           t == SubSeq(body, i, e)
<1>4. /\ s \in Seq(BodyChars) /\ Len(s) = (IF i <= e THEN e - i + 1 ELSE 0)
      /\ \A k \in 1 .. e - i + 1 : s[k] = raw[i + k - 1]
  BY <1>3, SubSeqProperties
<1>5. /\ t \in Seq(BodyChars) /\ Len(t) = (IF i <= e THEN e - i + 1 ELSE 0)
      /\ \A k \in 1 .. e - i + 1 : t[k] = body[i + k - 1]
  BY <1>3, SubSeqProperties
<1> HIDE DEF s, t
<1>6. ASSUME NEW k \in 1 .. Len(s)
      PROVE  s[k] = t[k]
  <2>1. k \in 1 .. e - i + 1 /\ i + k - 1 \in i .. e
    BY <1>4
  <2>2. QED
    BY <1>3, <1>4, <1>5, <2>1
<1>7. s = t
  BY <1>4, <1>5, <1>6, SeqEqual
<1>8. QED
  BY <1>5, <1>7 DEF s, t

-----------------------------------------------------------------------------
(***************************************************************************)
(* Chunks that are laid out as the client means them decode to the data.   *)
(***************************************************************************)
\* A chunk at i: a line with its size, its characters and a line end.
ChunkAt(body, i, digits, size) ==
    /\ i \in Nat \ {0} /\ digits \in Nat \ {0} /\ size \in Nat \ {0}
    /\ DigitsAt(body, i, digits) /\ Number(SubSeq(body, i, i + digits - 1)) = size
    /\ i + digits + 2 + size + 2 <= Len(body)
    /\ body[i + digits] = CR /\ body[i + digits + 1] = LF

\* How the decoder reads it.
LEMMA OneChunk ==
    ASSUME NEW raw \in Seq(BodyChars), NEW body \in Seq(BodyChars), Begins(raw, body),
           NEW i, NEW digits, NEW size, ChunkAt(body, i, digits, size)
    PROVE  /\ i <= Len(raw) /\ i + digits + 2 + size + 2 <= Len(raw)
           /\ ~(i > Len(raw)) /\ raw[i] # LF
           /\ Digits(raw, Skipped(raw, i)) > 0 /\ Digits(raw, Skipped(raw, i)) # 0
           /\ ChunkSize(raw, Skipped(raw, i)) = size /\ size # 0
           /\ NextLine(raw, i) = i + digits + 2
           /\ Chunk(raw, i + digits + 2, size)
                 = SubSeq(body, i + digits + 2, i + digits + 2 + size - 1)
<1> DEFINE b == Len(body)
           L == Len(raw)
           from == i + digits + 2
           to == from + size + 2
<1>0. /\ i \in Nat \ {0} /\ digits \in Nat \ {0} /\ size \in Nat \ {0}
      /\ DigitsAt(body, i, digits) /\ Number(SubSeq(body, i, i + digits - 1)) = size
      /\ to <= b /\ body[i + digits] = CR /\ body[i + digits + 1] = LF
  BY DEF ChunkAt
<1>1. b \in Nat /\ L \in Nat /\ b <= L /\ to <= b /\ \A k \in 1 .. b : raw[k] = body[k]
      /\ DOMAIN body = 1 .. b /\ DOMAIN raw = 1 .. L
  BY <1>0, LenProperties DEF Begins
<1>2. CR # LF /\ CR \notin DOMAIN DigitValue /\ LF \notin DOMAIN DigitValue
  BY <1>0, FramingDigitsAssumption DEF CR, LF
<1>3. body[i + digits] = CR /\ body[i + digits + 1] = LF
  BY <1>0
<1> HIDE DEF b, L
<1>4. from \in Nat /\ to \in Nat /\ from <= b /\ i <= b /\ i \in 1 .. L
  BY <1>0, <1>1
<1>5. \A k \in i .. i + digits - 1 :
         k \in 1 .. b /\ raw[k] \in DOMAIN DigitValue /\ raw[k] # CR /\ raw[k] # LF
  <2>1. \A k \in i .. i + digits - 1 : k \in 1 .. b /\ body[k] \in DOMAIN DigitValue
    BY <1>0, <1>1, <1>4 DEF DigitsAt
  <2>2. QED
    BY <1>0, <1>1, <1>2, <2>1
<1>6. raw[i] # CR /\ raw[i] # LF /\ i \in DOMAIN raw
  <2>1. i \in i .. i + digits - 1
    BY <1>0
  <2>2. QED
    BY <1>0, <1>1, <1>4, <1>5, <2>1
<1>7. i + digits \in 1 .. b /\ i + digits + 1 \in 1 .. b
  BY <1>0, <1>1
<1>8. raw[i + digits] = CR /\ raw[i + digits + 1] = LF
  BY <1>0, <1>1, <1>3, <1>7
<1>9. i \in 1 .. Len(raw) /\ i \in 1 .. Len(raw) + 1
  BY <1>0, <1>1, <1>4 DEF L
<1>10. Skipped(raw, i) = i
  BY <1>0, <1>6, <1>9, SkippedType
<1>11. Digits(raw, i) = digits
  <2>1. DigitsAt(raw, i, digits)
    BY <1>0, <1>1, <1>2, <1>5, <1>8 DEF DigitsAt
  <2>2. QED
    BY <1>0, <1>9, <2>1, DigitsType
<1>12. ChunkSize(raw, i) = size
  <2> DEFINE e == i + digits - 1
  <2>1. e \in Int /\ e <= Len(body)
    <3>1. e \in Int /\ e <= b
      <4>1. i \in Nat /\ digits \in Nat
        BY <1>0
      <4>2. QED
        BY <1>1, <1>7, <4>1
    <3>2. QED
      BY <3>1 DEF b
  <2> HIDE DEF e
  <2>2. SubSeq(raw, i, e) = SubSeq(body, i, e)
    BY <1>0, <2>1, SamePiece
  <2>3. QED
    BY <1>0, <1>11, <2>2 DEF ChunkSize, e
<1>13. NextLine(raw, i) = from
  <2>1. from \in i + 1 .. L + 1 /\ from - 1 = i + digits + 1
    BY <1>0, <1>1, <1>4
  <2>2. \A k \in i .. from - 2 : k \in i .. i + digits - 1 \/ k = i + digits
    BY <1>0
  <2>3. \A k \in i .. from - 2 : raw[k] # LF
    BY <1>0, <1>2, <1>5, <1>8, <2>2
  <2>4. from \in i + 1 .. Len(raw) + 1 /\ raw[from - 1] = LF
    BY <1>0, <1>8, <2>1 DEF L
  <2> HIDE DEF from
  <2>5. QED
    BY <1>0, <1>9, <2>3, <2>4, NextLineType
<1>14. Chunk(raw, from, size) = SubSeq(body, from, from + size - 1)
  <2> DEFINE s == Chunk(raw, from, size)
             t == SubSeq(body, from, from + size - 1)
             S == BodyChars \union {Nul}
  <2>1. s = [k \in 1 .. size |-> IF from + k - 1 \in 1 .. L THEN raw[from + k - 1] ELSE Nul]
    BY <1>0, <1>1 DEF Chunk
  <2>2. s \in Seq(S) /\ Len(s) = size
    BY <1>0, <1>4, ChunkType DEF Decoded
  <2>3. \A k \in 1 .. b : body[k] \in S
    BY <1>0, ElementOfSeq DEF b
  <2>4. \A k \in from .. from + size - 1 : k \in 1 .. b
    <3>1. size \in Nat /\ from \in Nat \ {0} /\ from + size + 2 <= b
      BY <1>0, <1>1
    <3> HIDE DEF from
    <3>2. QED
      BY <1>1, <3>1
  <2>5. from \in Int /\ from + size - 1 \in Int
        /\ \A k \in from .. from + size - 1 : body[k] \in S
    BY <1>0, <1>4, <2>3, <2>4
  <2> HIDE DEF S, from
  <2>6. /\ t \in Seq(S) 
        /\ Len(t) = IF from <= from + size - 1 THEN from + size - 1 - from + 1 ELSE 0
        /\ \A k \in 1 .. from + size - 1 - from + 1 : t[k] = body[from + k - 1]
    BY <1>0, <2>5, SubSeqProperties
  <2> HIDE DEF s, t
  <2>7. Len(t) = size /\ \A k \in 1 .. size : t[k] = body[from + k - 1]
    BY <1>0, <1>4, <2>6
  <2>8. ASSUME NEW k \in 1 .. size
        PROVE  s[k] = t[k]
    <3>1. from + k - 1 \in 1 .. b
      BY <1>0, <1>4, <2>4
    <3>2. from + k - 1 \in 1 .. L
      BY <1>0, <1>1, <3>1
    <3>3. QED
      BY <1>0, <1>1, <2>1, <2>7, <3>1, <3>2
  <2>9. s = t
    BY <1>0, <2>2, <2>6, <2>7, <2>8, SeqEqual
  <2>10. QED
    BY <1>0, <2>9 DEF s, t
<1>15. ~(i > Len(raw)) /\ i <= Len(raw) /\ to <= Len(raw)
  BY <1>0, <1>1, <1>4 DEF L
<1> HIDE DEF from, to
<1>16. size # 0 /\ digits > 0 /\ ~(digits = 0)
  BY <1>0
<1>17. QED
  BY <1>6, <1>10, <1>11, <1>12, <1>13, <1>14, <1>15, <1>16 DEF from, to

\* The last chunk.
LEMMA EndOfChunks ==
    ASSUME NEW raw \in Seq(BodyChars), NEW body \in Seq(BodyChars), Begins(raw, body),
           NEW i \in Nat \ {0}, i = Len(body) - 4, SubSeq(body, i, Len(body)) = LastChunk, NEW D
    PROVE  DecodedLines(raw, D, i) = <<>>
<1> DEFINE b == Len(body)
           L == Len(raw)
<1>1. /\ b \in Nat /\ L \in Nat /\ b <= L /\ i = b - 4 /\ DOMAIN raw = 1 .. L
      /\ \A k \in 1 .. b : raw[k] = body[k]
      /\ \A k \in 1 .. b : body[k] \in BodyChars
  BY LenProperties, ElementOfSeq DEF Begins
<1>2. \A k \in 1 .. b - i + 1 : SubSeq(body, i, b)[k] = body[i + k - 1]
  <2>1. SubSeq(body, i, b) = LastChunk
    OBVIOUS
  <2> HIDE DEF b
  <2>2. i \in Int /\ b \in Int /\ \A k \in i .. b : body[k] \in BodyChars
    BY <1>1
  <2>3. QED
    BY ONLY <2>2, SubSeqProperties
<1>3. LastChunk[1] = "0" /\ LastChunk[2] = CR
  BY DEF LastChunk
<1>4. SubSeq(body, i, b) = LastChunk
  OBVIOUS
<1> HIDE DEF b, L
<1>5. 1 \in 1 .. b - i + 1 /\ 2 \in 1 .. b - i + 1 /\ i + 1 - 1 = i /\ i + 2 - 1 = i + 1
  BY <1>1
<1>6. body[i] = "0" /\ body[i + 1] = CR
  BY <1>2, <1>3, <1>4, <1>5
<1>7. i \in 1 .. b /\ i + 1 \in 1 .. b /\ i \in 1 .. L /\ i + 1 \in 1 .. L
  BY <1>1
<1>8. raw[i] = "0" /\ raw[i + 1] = CR
  BY <1>1, <1>6, <1>7
<1>9. /\ "0" \in DOMAIN DigitValue /\ CR \notin DOMAIN DigitValue /\ LF \notin DOMAIN DigitValue
  BY FramingDigitsAssumption
<1>10. i \in 1 .. Len(raw) /\ i \in 1 .. Len(raw) + 1
  BY <1>1, <1>7 DEF L
<1>11. raw[i] # CR /\ raw[i] # LF
  BY <1>8, <1>9
<1>12. Skipped(raw, i) = i
  BY <1>1, <1>7, <1>10, <1>11, SkippedType
<1>13. Digits(raw, i) = 1
  <2>1. DigitsAt(raw, i, 1)
    BY <1>1, <1>7, <1>8, <1>9 DEF DigitsAt
  <2>2. QED
    BY <1>10, <2>1, DigitsType
<1>14. ChunkSize(raw, i) = 0
  <2>1. SubSeq(raw, i, i) = <<raw[i]>>
    <3>1. \A k \in i .. i : raw[k] \in {"0"}
      BY <1>8
    <3>2. /\ SubSeq(raw, i, i) \in Seq({"0"}) /\ Len(SubSeq(raw, i, i)) = IF i <= i THEN i - i + 1 ELSE 0
      BY <3>1, SubSeqProperties
    <3> DEFINE s == SubSeq(raw, i, i)
    <3>3. s \in Seq({"0"}) /\ Len(s) = 1
      BY <3>2
    <3> HIDE DEF s
    <3>4. s[1] = "0"
      <4>1. 1 \in 1 .. Len(s)
        BY <3>3
      <4>2. s[1] \in {"0"}
        BY ONLY <3>3, <4>1, ElementOfSeq
      <4>3. QED
        BY <4>2
    <3>5. s = <<"0">>
      BY <3>3, <3>4
    <3>6. QED
      BY <1>8, <3>5 DEF s
  <2>2. i + 1 - 1 = i
    OBVIOUS
  <2>3. ChunkSize(raw, i) = Number(SubSeq(raw, i, i))
    BY <1>13, <2>2 DEF ChunkSize
  <2>4. QED
    BY <1>8, <2>1, <2>3, NumberOfZero
<1>15. ~(i > Len(raw)) /\ i <= Len(raw)
  BY <1>1, <1>7 DEF L
<1>16. 1 > 0 /\ 1 # 0
  OBVIOUS
<1>17. QED
  BY <1>11, <1>12, <1>13, <1>14, <1>15, <1>16 DEF DecodedLines

\* All of them, from the last to the first.
LEMMA ChunksDecode ==
    ASSUME NEW m \in Messages, InChunks(m), NEW raw \in Seq(BodyChars), Begins(raw, m.body)
    PROVE  DecodeChunkedBody(raw) = m.data
<1> DEFINE c == m.chunks
           body == m.body
           data == m.data
           N == Len(c)
           b == Len(body)
           d == Len(data)
           L == Len(raw)
<1>1. body \in Seq(BodyChars) /\ data \in Seq(BodyChars) /\ c \in Seq([body : Nat, data : Nat])
  BY FramingMessagesAssumption DEF MessageType
<1>2. N \in Nat /\ b \in Nat /\ d \in Nat /\ L \in Nat /\ b <= L
  <2>1. L \in Nat /\ b <= L
    BY LenProperties DEF Begins
  <2>2. b \in Nat /\ d \in Nat
    <3> HIDE DEF body, data
    <3>1. QED
      BY <1>1, LenProperties
  <2>3. N \in Nat
    <3> HIDE DEF c
    <3>1. QED
      BY <1>1, LenProperties
  <2>4. QED
    BY <2>1, <2>2, <2>3
<1>3. \A k \in 1 .. N : c[k].body \in Nat /\ c[k].data \in Nat
  <2> DEFINE Place == [body : Nat, data : Nat]
  <2>1. \A x \in Place : x.body \in Nat /\ x.data \in Nat
    OBVIOUS
  <2> HIDE DEF Place, c
  <2>2. \A k \in 1 .. N : c[k] \in Place
    BY <1>1, ElementOfSeq DEF Place
  <2>3. QED
    BY <2>1, <2>2
<1>4. /\ N > 0 /\ c[1].body = 1 /\ c[1].data = 1
      /\ c[N].body = b - 4 /\ c[N].data = d + 1 /\ SubSeq(body, b - 4, b) = LastChunk
      /\ \A k \in 1 .. N - 1 : ChunkLaid(m, c[k], c[k + 1])
  <2>1. /\ N > 0 /\ c[1] = [body |-> 1, data |-> 1] /\ c[N] = [body |-> b - 4, data |-> d + 1]
        /\ SubSeq(body, b - 4, b) = LastChunk
        /\ \A k \in 1 .. N - 1 : ChunkLaid(m, c[k], c[k + 1])
    BY DEF InChunks
  <2> HIDE DEF c, N, body, data, b, d
  <2>2. c[1].body = 1 /\ c[1].data = 1
    BY <2>1
  <2>3. c[N].body = b - 4 /\ c[N].data = d + 1
    BY <2>1
  <2>4. QED
    BY <2>1, <2>2, <2>3
<1>5. PICK D : /\ DecodeChunkedBody(raw) = D[1]
               /\ \A i \in 1 .. L + 1 : D[i] = DecodedLines(raw, D, i)
  BY DecoderExists
<1> DEFINE Good(k) == /\ c[k].body > 0 /\ c[k].body <= b
                      /\ c[k].data > 0 /\ c[k].data <= d + 1
                      /\ D[c[k].body] = SubSeq(data, c[k].data, d)
<1>6. Good(N)
  <2> DEFINE i == c[N].body
  <2>1. i > 0
    <3>1. CASE N = 1
      BY <1>4, <3>1
    <3>2. CASE N # 1
      <4>1. N - 1 \in 1 .. N - 1 /\ N - 1 + 1 = N /\ N - 1 \in 1 .. N
        <5> HIDE DEF N
        <5>1. QED
          BY <1>2, <1>4, <3>2
      <4>2. ChunkLaid(m, c[N - 1], c[N])
        BY <1>4, <4>1
      <4>3. 0 < c[N - 1].body /\ c[N - 1].body < i
        BY <4>2 DEF ChunkLaid
      <4>4. c[N - 1].body \in Nat /\ i \in Nat
        BY <1>3, <4>1
      <4> HIDE DEF c, N, i
      <4>5. QED
        BY <4>3, <4>4
    <3>3. QED
      BY <3>1, <3>2
  <2>2. i = b - 4 /\ i \in Int /\ SubSeq(body, i, b) = LastChunk
    <3>1. i = b - 4 /\ SubSeq(body, b - 4, b) = LastChunk
      BY <1>4
    <3> HIDE DEF i, b, body
    <3>2. QED
      BY <1>2, <3>1
  <2> HIDE DEF i, b, L
  <2>3. i \in Nat \ {0} /\ i \in 1 .. L + 1 /\ i <= b
    BY <1>2, <2>1, <2>2
  <2>4. DecodedLines(raw, D, i) = <<>>
    BY <1>1, <2>2, <2>3, EndOfChunks DEF b
  <2>5. SubSeq(data, d + 1, d) = <<>>
    <3> HIDE DEF d, data
    <3>1. QED
      BY <1>2, SubSeqEmpty
  <2>6. D[i] = <<>>
    BY <1>5, <2>3, <2>4
  <2> HIDE DEF d
  <2>7. d + 1 > 0 /\ d + 1 <= d + 1
    BY <1>2
  <2>8. QED
    BY <1>4, <2>1, <2>3, <2>5, <2>6, <2>7 DEF i
<1>7. ASSUME NEW k \in 1 .. N - 1, Good(k + 1)
      PROVE  Good(k)
  <2> DEFINE i == c[k].body
             x == c[k].data
             to == c[k + 1].body
             y == c[k + 1].data
             digits == Digits(body, i)
             size == y - x
             from == i + digits + 2
  <2>1. ChunkLaid(m, c[k], c[k + 1])
    BY <1>4
  <2>2. i \in Nat /\ x \in Nat /\ to \in Nat /\ y \in Nat
    <3>1. k \in 1 .. N /\ k + 1 \in 1 .. N
      <4> HIDE DEF N
      <4>1. QED
        BY <1>2, <1>7
    <3> HIDE DEF c
    <3>2. QED
      BY <1>3, <3>1
  <2>3. /\ i > 0 /\ i < to /\ to <= b
        /\ x > 0 /\ x < y /\ y <= d + 1
        /\ digits > 0 /\ to = from + size + 2
        /\ Number(SubSeq(body, i, i + digits - 1)) = size
        /\ SubSeq(body, from - 2, from - 1) = <<CR, LF>>
        /\ SubSeq(body, from, from + size - 1) = SubSeq(data, x, y - 1)
    BY <2>1 DEF ChunkLaid
  <2>4. D[to] = SubSeq(data, y, d)
    BY <1>7
  <2> HIDE DEF Good
  <2> HIDE DEF c, N, i, x, to, y
  <2>5. digits \in Nat /\ DigitsAt(body, i, digits)
    <3>1. i \in 1 .. Len(body) + 1
      <4>1. i \in 1 .. b + 1
        <5> HIDE DEF b, digits
        <5>1. QED
          BY <1>2, <2>2, <2>3
      <4>2. QED
        BY <4>1
    <3>2. Digits(body, i) \in 0 .. Len(body) /\ DigitsAt(body, i, Digits(body, i))
      <4> HIDE DEF body
      <4>1. QED
        BY <1>1, <3>1, DigitsType
    <3>3. QED
      <4>1. digits \in 0 .. b /\ DigitsAt(body, i, digits)
        BY <3>2
      <4> HIDE DEF b, digits
      <4>2. QED
        BY <1>2, <4>1
  <2> HIDE DEF digits, b, d, L, body, data
  <2>6. digits \in Nat \ {0} /\ size \in Nat \ {0} /\ i \in Nat \ {0} /\ from \in Nat
    BY <2>2, <2>3, <2>5
  <2>7. body[i + digits] = CR /\ body[i + digits + 1] = LF
    <3> DEFINE s == SubSeq(body, from - 2, from - 1)
    <3>1. from - 2 = i + digits /\ from - 1 = i + digits + 1 /\ from - 2 \in Int /\ from - 1 \in Int
          /\ \A j \in from - 2 .. from - 1 : j \in 1 .. b
      BY <1>2, <2>2, <2>3, <2>6
    <3>2. \A j \in 1 .. b : body[j] \in BodyChars
      BY <1>1, ElementOfSeq DEF b
    <3>3. \A j \in 1 .. from - 1 - (from - 2) + 1 : s[j] = body[from - 2 + j - 1]
      <4>1. \A j \in from - 2 .. from - 1 : body[j] \in BodyChars
        BY <3>1, <3>2
      <4> HIDE DEF from
      <4>2. QED
        BY <3>1, <4>1, SubSeqProperties
    <3>4. s = <<CR, LF>>
      BY <2>3
    <3> HIDE DEF s
    <3>5. s[1] = body[i + digits] /\ s[2] = body[i + digits + 1]
      <4>1. 1 \in 1 .. from - 1 - (from - 2) + 1 /\ 2 \in 1 .. from - 1 - (from - 2) + 1
            /\ from - 2 + 1 - 1 = i + digits /\ from - 2 + 2 - 1 = i + digits + 1
        BY <2>2, <2>5
      <4> HIDE DEF from
      <4>2. QED
        BY <3>3, <4>1
    <3>6. QED
      BY <3>4, <3>5
  <2>8. DecodedLines(raw, D, i) = SubSeq(body, from, from + size - 1) \o D[to]
    <3>1. i + digits + 2 + size + 2 <= Len(body)
      BY <2>3 DEF b
    <3>2. Begins(raw, body) /\ raw \in Seq(BodyChars) /\ body \in Seq(BodyChars)
      BY <1>1 DEF body
    <3>3. ChunkAt(body, i, digits, size)
      <4>1. /\ i \in Nat \ {0} /\ digits \in Nat \ {0} /\ size \in Nat \ {0}
            /\ DigitsAt(body, i, digits) /\ Number(SubSeq(body, i, i + digits - 1)) = size
            /\ body[i + digits] = CR /\ body[i + digits + 1] = LF
        BY <2>3, <2>5, <2>6, <2>7
      <4> HIDE DEF size
      <4>2. QED
        BY <3>1, <4>1 DEF ChunkAt
    <3> HIDE DEF size
    <3>4. DecodedLines(raw, D, i)
             = SubSeq(body, i + digits + 2, i + digits + 2 + size - 1)
               \o D[i + digits + 2 + size + 2]
      <4> DEFINE start == i + digits + 2
      <4>1. /\ ~(i > Len(raw)) /\ i <= Len(raw) /\ start + size + 2 <= Len(raw) /\ raw[i] # LF
            /\ Digits(raw, Skipped(raw, i)) > 0 /\ Digits(raw, Skipped(raw, i)) # 0
            /\ ChunkSize(raw, Skipped(raw, i)) = size /\ size # 0
            /\ NextLine(raw, i) = start
            /\ Chunk(raw, start, size) = SubSeq(body, start, start + size - 1)
        BY <3>2, <3>3, OneChunk
      <4> HIDE DEF start
      <4>2. DecodedLines(raw, D, i) = Chunk(raw, start, size) \o D[start + size + 2]
        BY <4>1 DEF DecodedLines
      <4>3. QED
        BY <4>1, <4>2 DEF start
    <3>5. from = i + digits + 2
      BY DEF from
    <3>6. QED
      BY <2>3, <3>4, <3>5
  <2>9. i \in 1 .. L + 1 /\ i <= b
    BY <1>2, <2>2, <2>3
  <2>10. D[i] = SubSeq(data, x, y - 1) \o SubSeq(data, y, d)
    BY <1>5, <2>3, <2>4, <2>8, <2>9
  <2>11. SubSeq(data, x, y - 1) \o SubSeq(data, y, d) = SubSeq(data, x, d)
    <3> DEFINE z == y - 1
    <3>1. x \in 1 .. d + 1 /\ z \in x - 1 .. d /\ d \in z .. d /\ z + 1 = y
      BY <1>2, <2>2, <2>3
    <3> HIDE DEF z
    <3>2. x \in 1 .. Len(data) + 1 /\ z \in x - 1 .. Len(data) /\ d \in z .. Len(data)
      BY <3>1 DEF d
    <3>3. SubSeq(data, x, z) \o SubSeq(data, z + 1, d) = SubSeq(data, x, d)
      BY ONLY <1>1, <3>2, ConcatAdjacentSubSeq
    <3>4. QED
      BY <3>1, <3>3 DEF z
  <2>12. x <= d + 1
    BY <1>2, <2>2, <2>3
  <2>13. QED
    BY <2>3, <2>9, <2>10, <2>11, <2>12 DEF Good, i, x
<1> HIDE DEF Good, N
<1>8. Good(1)
  <2> DEFINE T == {j \in Nat : j < N /\ ~Good(N - j)}
  <2>1. T = {}
    <3>1. SUFFICES ASSUME T # {} PROVE FALSE
      OBVIOUS
    <3>2. T \in SUBSET Nat
      OBVIOUS
    <3>3. PICK j \in T : \A l \in T : j <= l
      <4> HIDE DEF T
      <4>1. QED
        BY <3>1, <3>2, LeastNumber
    <3>4. j \in Nat /\ j < N /\ ~Good(N - j)
      BY <3>3
    <3>5. j # 0
      <4>1. N - 0 = N
        BY <1>2
      <4>2. QED
        BY <1>6, <3>4, <4>1
    <3>6. j - 1 \in Nat /\ j - 1 < N /\ ~(j <= j - 1) /\ N - j \in 1 .. N - 1
          /\ N - (j - 1) = (N - j) + 1
      BY <1>2, <3>4, <3>5
    <3>7. Good(N - (j - 1))
      BY <3>3, <3>6
    <3>8. Good(N - j)
      BY <1>7, <3>6, <3>7
    <3>9. QED
      BY <3>4, <3>8
  <2>2. N - 1 \in Nat /\ N - 1 < N /\ N - (N - 1) = 1
    BY <1>2, <1>4
  <2>3. QED
    BY <2>1, <2>2
<1>9. D[1] = SubSeq(data, 1, d)
  BY <1>4, <1>8 DEF Good
<1>10. SubSeq(data, 1, d) = data
  BY <1>1, SubSeqFull
<1>11. QED
  BY <1>5, <1>9, <1>10

-----------------------------------------------------------------------------
(***************************************************************************)
(* The part of a form                                                      *)
(***************************************************************************)
\* Two line ends make no difference at the end of a text.
LEMMA LineEndDropped ==
    ASSUME NEW body \in Seq(BodyChars), NEW i \in Nat \ {0}, NEW mark \in Nat,
           i + 2 <= mark, mark <= Len(body),
           SubSeq(body, mark - 2, mark - 1) = <<CR, LF>>
    PROVE  WithoutLineEnds(SubSeq(body, i, mark - 1)) = WithoutLineEnds(SubSeq(body, i, mark - 3))
<1> DEFINE b == Len(body)
           part == SubSeq(body, i, mark - 1)
           data == SubSeq(body, i, mark - 3)
           pair == SubSeq(body, mark - 2, mark - 1)
           p == Len(part)
           d == Len(data)
<1>1. b \in Nat /\ \A k \in 1 .. b : body[k] \in BodyChars
  BY LenProperties, ElementOfSeq
<1>2. mark <= b /\ pair = <<CR, LF>> /\ i + 2 <= mark
  OBVIOUS
<1> HIDE DEF b, pair
<1>3. \A k \in i .. mark - 1 : body[k] \in BodyChars
  <2>1. \A k \in i .. mark - 1 : k \in 1 .. b
    BY <1>1, <1>2
  <2>2. QED
    BY <1>1, <2>1
<1>4. /\ part \in Seq(BodyChars)
      /\ Len(part) = IF i <= mark - 1 THEN mark - 1 - i + 1 ELSE 0
      /\ \A k \in 1 .. mark - 1 - i + 1 : part[k] = body[i + k - 1]
  BY <1>3, SubSeqProperties
<1>5. \A k \in i .. mark - 3 : body[k] \in BodyChars
  BY <1>2, <1>3
<1>6. /\ data \in Seq(BodyChars)
      /\ Len(data) = IF i <= mark - 3 THEN mark - 3 - i + 1 ELSE 0
      /\ \A k \in 1 .. mark - 3 - i + 1 : data[k] = body[i + k - 1]
  BY <1>5, SubSeqProperties
<1>7. \A k \in mark - 2 .. mark - 1 : body[k] \in BodyChars
  BY <1>2, <1>3
<1>8. \A k \in 1 .. mark - 1 - (mark - 2) + 1 : pair[k] = body[mark - 2 + k - 1]
  BY <1>7, SubSeqProperties DEF pair
<1>9. body[mark - 2] = CR /\ body[mark - 1] = LF
  <2>1. 1 \in 1 .. mark - 1 - (mark - 2) + 1 /\ 2 \in 1 .. mark - 1 - (mark - 2) + 1
        /\ mark - 2 + 1 - 1 = mark - 2 /\ mark - 2 + 2 - 1 = mark - 1
    OBVIOUS
  <2>2. pair[1] = body[mark - 2] /\ pair[2] = body[mark - 1]
    BY <1>8, <2>1
  <2>3. QED
    BY <1>2, <2>2
<1> HIDE DEF part, data
<1>10. p = d + 2 /\ d \in Nat /\ d = mark - 2 - i /\ \A k \in 1 .. d : part[k] = data[k]
  BY <1>2, <1>4, <1>6
<1>11. part[d + 1] = CR /\ part[d + 2] = LF
  <2>1. d + 1 \in 1 .. mark - 1 - i + 1 /\ d + 2 \in 1 .. mark - 1 - i + 1
        /\ i + (d + 1) - 1 = mark - 2 /\ i + (d + 2) - 1 = mark - 1
    BY <1>2, <1>10
  <2>2. QED
    BY <1>4, <1>9, <2>1
<1>12. PICK n \in 0 .. Len(data) : CutAt(data, n)
  BY <1>6, LineEndsCut
<1>13. WithoutLineEnds(data) = SubSeq(data, 1, n)
  BY <1>6, <1>12, LineEndsCut
<1> HIDE DEF p, d
<1>14. n \in 0 .. d /\ n \in 0 .. p
  BY <1>10, <1>12 DEF d
<1>15. CutAt(part, n)
  <2>1. n = 0 \/ data[n] \notin {CR, LF}
    BY <1>12 DEF CutAt
  <2>2. n = 0 \/ part[n] \notin {CR, LF}
    BY <1>10, <1>14, <2>1
  <2>3. \A k \in n + 1 .. p : (k \in n + 1 .. d /\ k \in 1 .. d) \/ k = d + 1 \/ k = d + 2
    BY <1>10, <1>14
  <2>4. \A k \in n + 1 .. d : data[k] \in {CR, LF}
    BY <1>12 DEF CutAt, d
  <2>5. \A k \in n + 1 .. p : part[k] \in {CR, LF}
    BY <1>10, <1>11, <2>3, <2>4
  <2>6. QED
    BY <2>2, <2>5 DEF CutAt, p
<1>16. WithoutLineEnds(part) = SubSeq(part, 1, n)
  <2>1. n \in 0 .. Len(part)
    BY <1>14 DEF p
  <2>2. QED
    BY <1>4, <1>15, <2>1, LineEndsCut
<1>17. SubSeq(part, 1, n) = SubSeq(data, 1, n)
  <2> DEFINE s == SubSeq(part, 1, n)
             t == SubSeq(data, 1, n)
  <2>1. n \in 0 .. Len(part) /\ n \in 0 .. Len(data)
    BY <1>14 DEF p, d
  <2>2. s \in Seq(BodyChars) /\ Len(s) = n /\ \A k \in 1 .. n : s[k] = part[k]
    BY <1>4, <2>1, Prefix
  <2>3. t \in Seq(BodyChars) /\ Len(t) = n /\ \A k \in 1 .. n : t[k] = data[k]
    BY <1>6, <2>1, Prefix
  <2> HIDE DEF s, t
  <2>4. \A k \in 1 .. n : s[k] = t[k]
    BY <1>10, <1>14, <2>2, <2>3
  <2>5. s = t
    BY <2>2, <2>3, <2>4, SeqEqual
  <2>6. QED
    BY <2>5 DEF s, t
<1>18. QED
  BY <1>13, <1>16, <1>17 DEF part, data

EmptyLine == <<CR, LF, CR, LF>>

LEMMA EmptyLineType == EmptyLine \in Seq(BodyChars) /\ EmptyLine # <<>> /\ Len(EmptyLine) = 4
<1>1. CR \in BodyChars /\ LF \in BodyChars
  BY DEF BodyChars
<1>2. QED
  BY <1>1 DEF EmptyLine

LEMMA MarkType == <<Mark>> \in Seq(BodyChars) /\ <<Mark>> # <<>> /\ Len(<<Mark>>) = 1
<1>1. Mark \in BodyChars
  BY DEF BodyChars
<1>2. QED
  BY <1>1

\* Where the boundaries of a text are.
LEMMA MarksOf ==
    ASSUME NEW s \in Seq(BodyChars)
    PROVE  Occurrences(<<Mark>>, s) = {k \in 1 .. Len(s) : s[k] = Mark}
<1> DEFINE n == Len(s)
<1>1. n \in Nat /\ \A k \in 1 .. n : s[k] \in BodyChars
  BY LenProperties, ElementOfSeq
<1>2. Occurrences(<<Mark>>, s) = {k \in 1 .. n : k + 1 - 1 <= n /\ SubSeq(s, k, k + 1 - 1) = <<Mark>>}
  BY MarkType DEF Occurrences
<1> HIDE DEF n
<1>3. ASSUME NEW k \in 1 .. n
      PROVE  k + 1 - 1 <= n /\ (SubSeq(s, k, k + 1 - 1) = <<Mark>> <=> s[k] = Mark)
  <2>1. k + 1 - 1 = k /\ k \in Int /\ k <= n
    BY <1>1
  <2> DEFINE t == SubSeq(s, k, k)
  <2>2. \A j \in k .. k : s[j] \in BodyChars
    BY <1>1
  <2>3. /\ t \in Seq(BodyChars) /\ Len(t) = IF k <= k THEN k - k + 1 ELSE 0
        /\ \A j \in 1 .. k - k + 1 : t[j] = s[k + j - 1]
    BY <2>1, <2>2, SubSeqProperties
  <2> HIDE DEF t
  <2>4. Len(t) = 1 /\ t[1] = s[k]
    <3>1. k - k + 1 = 1 /\ 1 \in 1 .. k - k + 1 /\ k + 1 - 1 = k
      BY <2>1
    <3>2. QED
      BY <2>1, <2>3, <3>1
  <2>5. t = <<Mark>> <=> s[k] = Mark
    <3>1. t = <<Mark>> => t[1] = Mark
      OBVIOUS
    <3>2. t[1] = Mark => t = <<Mark>>
      BY <2>3, <2>4
    <3>3. QED
      BY <2>4, <3>1, <3>2
  <2>6. QED
    BY <2>1, <2>5 DEF t
<1>4. QED
  BY <1>2, <1>3 DEF n

LEMMA NothingToCut == WithoutLineEnds(<<>>) = <<>>
<1>1. <<>> \in Seq(BodyChars) /\ Len(<<>>) = 0
  BY EmptySeq
<1> DEFINE s == <<>>
<1>2. s \in Seq(BodyChars) /\ Len(s) = 0
  BY <1>1
<1> HIDE DEF s
<1>3. CutAt(s, 0) /\ 0 \in 0 .. Len(s)
  BY <1>2 DEF CutAt
<1>4. WithoutLineEnds(s) = SubSeq(s, 1, 0)
  BY <1>2, <1>3, LineEndsCut
<1>5. SubSeq(s, 1, 0) = <<>>
  BY SubSeqEmpty
<1>6. QED
  BY <1>4, <1>5 DEF s

\* What a form is cut down to is its part, with whatever is behind the form.
LEMMA PartOfForm ==
    ASSUME NEW m \in Messages, InForm(m), NEW raw \in Seq(BodyChars),
           NEW p \in 0 .. Len(m.body \o m.next), raw = SubSeq(m.body \o m.next, 1, p),
           Begins(raw, m.body), SubSeq(raw, 1, Len(m.body)) = m.body
    PROVE  (IF raw = <<>> THEN <<>> ELSE BodyContentExtractor(raw)) = WithoutLineEnds(m.data)
<1> DEFINE body == m.body
           b == Len(body)
           L == Len(raw)
           starts == Occurrences(EmptyLine, raw)
           start  == CHOOSE k \in starts : \A j \in starts : k <= j
           marks  == Occurrences(<<Mark>>, raw)
           ends   == {k \in marks : start + 4 <= k}
           end    == CHOOSE k \in ends : \A j \in ends : k <= j
<1>1. /\ b \in Nat /\ L \in Nat /\ b <= L /\ body \in Seq(BodyChars)
      /\ m.body \o m.next \in Seq(BodyChars) /\ \A k \in 1 .. b : raw[k] = body[k]
  BY MessageSizes, LenProperties DEF Begins
<1>2. BodyContentExtractor(raw) = IF starts = {} \/ ends = {} THEN <<>>
                                  ELSE WithoutLineEnds(SubSeq(raw, start + 4, end - 1))
  BY DEF BodyContentExtractor, EmptyLine
<1>3. CASE Occurrences(EmptyLine, m.body \o m.next) = {} /\ m.data = <<>>
  <2> DEFINE all == m.body \o m.next
  <2>1. starts = {k \in Occurrences(EmptyLine, all) : k + Len(EmptyLine) - 1 <= p}
    <3>1. all \in Seq(BodyChars) /\ p \in 0 .. Len(all) /\ raw = SubSeq(all, 1, p)
      BY <1>1
    <3>2. EmptyLine \in Seq(BodyChars) /\ EmptyLine # <<>>
      BY EmptyLineType
    <3> HIDE DEF all
    <3>3. Occurrences(EmptyLine, SubSeq(all, 1, p))
             = {k \in Occurrences(EmptyLine, all) : k + Len(EmptyLine) - 1 <= p}
      BY ONLY <3>1, <3>2, OccurrencesInPrefix
    <3>4. QED
      BY <3>1, <3>3
  <2>2. starts = {}
    BY <1>3, <2>1
  <2> HIDE DEF starts
  <2>3. BodyContentExtractor(raw) = <<>>
    BY <1>2, <2>2
  <2>4. WithoutLineEnds(m.data) = <<>>
    BY <1>3, NothingToCut
  <2>5. QED
    BY <2>3, <2>4
<1>4. ASSUME NEW k \in Occurrences(EmptyLine, m.body), NEW mark \in Occurrences(<<Mark>>, m.body),
             \A j \in Occurrences(EmptyLine, m.body) : k <= j,
             k + 6 <= mark, \A j \in k + 4 .. mark - 1 : m.body[j] # Mark,
             m.data = SubSeq(m.body, k + 4, mark - 3),
             SubSeq(m.body, mark - 2, mark - 1) = <<CR, LF>>
      PROVE  (IF raw = <<>> THEN <<>> ELSE BodyContentExtractor(raw)) = WithoutLineEnds(m.data)
  <2>1. k \in 1 .. b /\ mark \in 1 .. b
    BY <1>4 DEF Occurrences
  <2>2. k + 6 <= mark /\ mark <= b /\ k \in Nat /\ mark \in Nat
    <3>1. k + 6 <= mark
      BY <1>4
    <3> HIDE DEF b
    <3>2. QED
      BY <1>1, <2>1, <3>1
  <2>3. Occurrences(EmptyLine, body) = {j \in starts : j + 4 - 1 <= b}
    <3>1. b \in 0 .. Len(raw) /\ EmptyLine \in Seq(BodyChars) /\ EmptyLine # <<>>
      <4>1. b \in 0 .. L
        <5> HIDE DEF b, L
        <5>1. QED
          BY <1>1
      <4>2. QED
        BY <4>1, EmptyLineType
    <3> HIDE DEF b
    <3>2. Occurrences(EmptyLine, SubSeq(raw, 1, b))
             = {j \in Occurrences(EmptyLine, raw) : j + Len(EmptyLine) - 1 <= b}
      BY ONLY <3>1, raw \in Seq(BodyChars), OccurrencesInPrefix
    <3>3. SubSeq(raw, 1, b) = body
      BY DEF b
    <3>4. QED
      BY <3>2, <3>3, EmptyLineType
  <2>4. starts \subseteq 1 .. L
    BY DEF Occurrences
  <2> HIDE DEF b, L, starts
  <2>5. k \in starts /\ \A j \in starts : k <= j
    <3>1. k \in starts
      BY <1>4, <2>3
    <3>2. ASSUME NEW j \in starts, ~(k <= j)
          PROVE  FALSE
      <4>1. j \in 1 .. L
        BY <2>4
      <4>2. j + 4 - 1 <= b
        BY <1>1, <2>2, <3>2, <4>1
      <4>3. j \in Occurrences(EmptyLine, body)
        BY <2>3, <4>2
      <4>4. QED
        BY <1>4, <3>2, <4>3
    <3>3. QED
      BY <3>1, <3>2
  <2>6. start = k
    <3>1. starts \in SUBSET Nat
      BY <1>1, <2>4
    <3>2. QED
      BY <2>5, <3>1, FirstOf
  <2>7. marks = {j \in 1 .. L : raw[j] = Mark}
    BY MarksOf DEF L
  <2> HIDE DEF start, marks
  <2>8. mark \in ends /\ \A j \in ends : mark <= j
    <3>1. body[mark] = Mark
      <4>1. Occurrences(<<Mark>>, body) = {j \in 1 .. Len(body) : body[j] = Mark}
        BY <1>1, MarksOf
      <4>2. mark \in Occurrences(<<Mark>>, body)
        BY <1>4
      <4>3. QED
        BY <4>1, <4>2
    <3>2. mark \in 1 .. L /\ start + 4 <= mark
      BY <1>1, <2>1, <2>2, <2>6
    <3>3. mark \in ends
      BY <1>1, <2>1, <2>7, <3>1, <3>2
    <3>4. ASSUME NEW j \in ends, ~(mark <= j)
          PROVE  FALSE
      <4>1. j \in 1 .. L /\ raw[j] = Mark /\ k + 4 <= j
        BY <2>6, <2>7
      <4>2. j \in k + 4 .. mark - 1 /\ j \in 1 .. b
        BY <1>1, <2>2, <3>4, <4>1
      <4>3. body[j] = Mark
        BY <1>1, <4>1, <4>2
      <4>4. QED
        BY <1>4, <4>2, <4>3
    <3>5. QED
      BY <3>3, <3>4
  <2>9. end = mark
    <3>1. ends \in SUBSET Nat
      <4>1. ends \subseteq marks /\ marks \subseteq 1 .. L
        BY <2>7
      <4> HIDE DEF ends
      <4>2. QED
        BY <1>1, <4>1
    <3> HIDE DEF ends
    <3>2. QED
      BY <2>8, <3>1, FirstOf
  <2>10. starts # {} /\ ends # {} 
    BY <2>5, <2>8
  <2> HIDE DEF ends, end
  <2>11. BodyContentExtractor(raw) = WithoutLineEnds(SubSeq(raw, k + 4, mark - 1))
    BY <1>2, <2>6, <2>9, <2>10
  <2>12. SubSeq(raw, k + 4, mark - 1) = SubSeq(body, k + 4, mark - 1)
    <3> DEFINE i == k + 4
               e == mark - 1
    <3>1. i \in Nat \ {0} /\ e \in Int /\ e <= Len(body)
      BY <1>1, <2>2 DEF b
    <3> HIDE DEF i, e
    <3>2. Begins(raw, body)
      OBVIOUS
    <3>3. SubSeq(raw, i, e) = SubSeq(body, i, e)
      BY <1>1, <3>1, <3>2, SamePiece
    <3>4. QED
      BY <3>3 DEF i, e
  <2>13. WithoutLineEnds(SubSeq(body, k + 4, mark - 1)) = WithoutLineEnds(SubSeq(body, k + 4, mark - 3))
    <3> DEFINE i == k + 4
    <3>1. i \in Nat \ {0} /\ mark \in Nat /\ i + 2 <= mark /\ mark <= Len(body)
      BY <2>2 DEF b
    <3>2. SubSeq(body, mark - 2, mark - 1) = <<CR, LF>>
      BY <1>4
    <3> HIDE DEF i, body
    <3>3. WithoutLineEnds(SubSeq(body, i, mark - 1)) = WithoutLineEnds(SubSeq(body, i, mark - 3))
      BY <1>1, <3>1, <3>2, LineEndDropped
    <3>4. QED
      BY <3>3 DEF i
  <2>14. raw # <<>>
    <3>1. L # 0
      BY <1>1, <2>2
    <3>2. QED
      BY <3>1, EmptySeq DEF L
  <2>15. m.data = SubSeq(body, k + 4, mark - 3)
    BY <1>4
  <2>16. QED
    BY <2>11, <2>12, <2>13, <2>14, <2>15
<1>5. QED
  BY <1>3, <1>4 DEF InForm, EmptyLine

-----------------------------------------------------------------------------
(***************************************************************************)
(* What is stored and what a script reads is what the client means.        *)
(***************************************************************************)
\* A text is the beginning of itself.
LEMMA WholeText ==
    ASSUME NEW S, NEW s \in Seq(S)
    PROVE  SubSeq(s, 1, Len(s)) = s
<1> DEFINE n == Len(s)
           t == SubSeq(s, 1, n)
<1>1. n \in Nat
  BY LenProperties
<1>2. n \in 0 .. Len(s)
  BY <1>1
<1>3. t \in Seq(S) /\ Len(t) = n /\ \A k \in 1 .. n : t[k] = s[k]
  <2> HIDE DEF n
  <2>1. QED
    BY <1>2, Prefix
<1> HIDE DEF t
<1>4. t = s
  BY <1>3, SeqEqual
<1>5. QED
  BY <1>4 DEF t, n

\* An upload is stored by handlePOST, with the body it has.
LEMMA StoredOutcome ==
    ASSUME NEW m, NEW raw, NEW o \in Outcomes(m, raw), o.by = "router", o.status = Stored
    PROVE  o.body = IF GetHeader(m, "Transfer-Encoding") = "chunked" THEN DecodeChunkedBody(raw)
                    ELSE Body(m, raw)
<1> DEFINE length == GetHeader(m, "Content-Length")
           chunked == GetHeader(m, "Transfer-Encoding") = "chunked"
           body == IF chunked THEN DecodeChunkedBody(raw) ELSE Body(m, raw)
<1>1. \A who, status, l, b : /\ By(who, status, l, b).by = who
                             /\ By(who, status, l, b).status = status
                             /\ By(who, status, l, b).body = b
  BY DEF By
<1>2. o = HandlePOST(m, raw)
  <2>1. \/ o = HandlePOST(m, raw) \/ o = By("server", 400, "", <<>>)
        \/ o = By("server", 413, "", <<>>) \/ o = By("router", Other, "", <<>>)
        \/ o = By("script", Other, length, Body(m, raw))
    BY DEF Outcomes, ForScript
  <2>2. o # By("server", 400, "", <<>>) /\ o # By("server", 413, "", <<>>)
    <3>1. By("server", 400, "", <<>>).by = "server"
      BY DEF By
    <3>2. By("server", 413, "", <<>>).by = "server"
      BY DEF By
    <3>3. QED
      BY <3>1, <3>2
  <2>3. o # By("script", Other, length, Body(m, raw))
    BY <1>1
  <2>4. o # By("router", Other, "", <<>>)
    <3>1. By("router", Other, "", <<>>).status = Other
      BY DEF By
    <3>2. Other # Stored
      BY DEF Other, Stored
    <3>3. QED
      BY <3>1, <3>2
  <2>5. QED
    BY <2>1, <2>2, <2>3, <2>4
<1>3. o = CASE length = "" /\ ~chunked -> By("router", 411, length, <<>>)
            [] length # "" /\ length \in NoNumber -> By("router", Thrown, length, <<>>)
            [] length # "" /\ length \notin NoNumber /\ Strtoul[length] > RouterLimit ->
                  By("router", 413, length, <<>>)
            [] OTHER -> IF DecodingThrows(body) THEN By("router", Thrown, length, <<>>)
                                                ELSE By("router", Stored, length, body)
  BY <1>2 DEF HandlePOST
<1> HIDE DEF length, chunked, body
<1>4. \/ o = By("router", 411, length, <<>>) \/ o = By("router", Thrown, length, <<>>)
      \/ o = By("router", 413, length, <<>>) \/ o = By("router", Stored, length, body)
  <2>1. CASE length = "" /\ ~chunked
    <3>1. o = By("router", 411, length, <<>>)
      BY <1>3, <2>1
    <3>2. QED
      BY <3>1
  <2>2. CASE length # "" /\ length \in NoNumber
    BY <1>3, <2>2
  <2>3. CASE length # "" /\ length \notin NoNumber /\ Strtoul[length] > RouterLimit
    BY <1>3, <2>3
  <2>4. CASE /\ ~(length = "" /\ ~chunked) /\ ~(length # "" /\ length \in NoNumber)
             /\ ~(length # "" /\ length \notin NoNumber /\ Strtoul[length] > RouterLimit)
    <3>1. o = IF DecodingThrows(body) THEN By("router", Thrown, length, <<>>)
                                      ELSE By("router", Stored, length, body)
      BY <1>3, <2>4
    <3>2. QED
      BY <3>1
  <2>5. QED
    BY <2>1, <2>2, <2>3, <2>4
<1>5. By("router", 411, length, <<>>).status = 411 /\ By("router", 413, length, <<>>).status = 413
      /\ By("router", Thrown, length, <<>>).status = Thrown
  BY <1>1
<1>6. o = By("router", Stored, length, body)
  <2>1. Stored # 411 /\ Stored # 413 /\ Stored # Thrown
    BY DEF Stored, Thrown
  <2>2. QED
    BY <1>4, <1>5, <2>1
<1>7. o.body = body
  BY <1>1, <1>6
<1>8. QED
  BY <1>7 DEF body, chunked

\* For every well-formed message, cut up in any way: where the code finds the end
\* of the body, an upload stores and a script reads exactly the data the client
\* means.
THEOREM DelimitedBodiesArrive == Spec => []DelimitedBodyAsSent
<1>1. ASSUME FramingInv,
             Multipart(message) \/ ChunkedForm(message) \/ message.next = <<>>,
             ChunkedForm(message) => outcome.by = "router",
             \/ outcome.by = "script"
             \/ outcome.by = "router" /\ outcome.status = Stored,
             WellFormed(message), Spelled(message), Meant(message)
      PROVE  outcome.body = IF Multipart(message) THEN WithoutLineEnds(message.data)
                                                  ELSE message.data
  <2> DEFINE raw == Raw(message, read)
             h == HeadSize(message)
             b == Len(message.body)
             p == read - h
             coding == GetHeader(message, "Transfer-Encoding")
  <2>1. message \in Messages /\ read \in 0 .. Size(message)
    BY <1>1 DEF FramingInv
  <2>2. outcome # Waiting
    <3>1. Waiting.by = "nobody"
      BY DEF Waiting
    <3>2. QED
      BY <1>1, <3>1
  <2>3. HTTP_IsRequestComplete(message, read) /\ outcome \in Outcomes(message, raw)
    BY <1>1, <2>2 DEF FramingInv
  <2>4. h + b <= read
    BY <1>1, <2>1, <2>3, CompleteAtTheEnd
  <2>5. /\ h \in Nat /\ b \in Nat /\ Size(message) \in Nat
        /\ message.body \in Seq(BodyChars) /\ message.next \in Seq(BodyChars)
    BY <2>1, MessageSizes
  <2>6. read \in h .. Size(message) /\ b <= p /\ p \in Nat
    <3> HIDE DEF h, b
    <3>1. QED
      BY <2>1, <2>4, <2>5
  <2>7. /\ raw = SubSeq(message.body \o message.next, 1, p) /\ raw \in Seq(BodyChars)
        /\ p \in 0 .. Len(message.body \o message.next)
    BY <2>1, <2>6, RawIsPrefix
  <2>8. Begins(raw, message.body) /\ SubSeq(raw, 1, b) = message.body
    BY <2>1, <2>4, <2>6, BodyIsRead
  <2>9. outcome.body = IF outcome.by = "router" /\ coding = "chunked" THEN DecodeChunkedBody(raw)
                       ELSE Body(message, raw)
    <3>1. CASE outcome.by = "router" /\ outcome.status = Stored
      BY <2>3, <3>1, StoredOutcome
    <3>2. CASE outcome.by = "script"
      <4>1. outcome = ForScript(message, raw)
        BY <2>3, <3>2, ScriptOutcome
      <4>2. outcome.body = Body(message, raw)
        BY <4>1 DEF ForScript, By
      <4>3. QED
        BY <3>2, <4>2
    <3>3. QED
      BY <1>1, <3>1, <3>2
  <2>10. CASE Multipart(message)
    <3>1. LengthForm(message) /\ InForm(message)
      BY <1>1, <2>10 DEF Meant
    <3>2. coding = ""
      BY <3>1, NoLine DEF LengthForm
    <3>3. outcome.body = IF raw = <<>> THEN <<>> ELSE BodyContentExtractor(raw)
      <4>1. outcome.body = Body(message, raw)
        BY <2>9, <3>2
      <4>2. GetHeader(message, "Content-Type") = "multipart"
        BY <2>10 DEF Multipart
      <4>3. QED
        BY <3>2, <4>1, <4>2 DEF Body
    <3> HIDE DEF raw, p
    <3>4. (IF raw = <<>> THEN <<>> ELSE BodyContentExtractor(raw)) = WithoutLineEnds(message.data)
      BY <2>1, <2>7, <2>8, <3>1, PartOfForm
    <3>5. QED
      BY <2>10, <3>3, <3>4
  <2>11. CASE ~Multipart(message) /\ ChunkedForm(message)
    <3>1. InChunks(message)
      BY <1>1, <2>11 DEF Meant, ChunkedForm
    <3>2. coding = "chunked"
      <4>1. PICK k \in DOMAIN message.headers :
               Lines(message, "Transfer-Encoding") = {k} /\ message.headers[k].value = "chunked"
        BY <2>11 DEF ChunkedForm, ChunkedHead
      <4>2. QED
        BY <1>1, <2>1, <4>1, OneLine
    <3>3. outcome.body = DecodeChunkedBody(raw)
      BY <1>1, <2>9, <2>11, <3>2
    <3> HIDE DEF raw
    <3>4. DecodeChunkedBody(raw) = message.data
      BY <2>1, <2>7, <2>8, <3>1, ChunksDecode
    <3>5. QED
      BY <2>11, <3>3, <3>4
  <2>12. CASE ~Multipart(message) /\ ~ChunkedForm(message)
    <3>1. message.data = message.body
      <4>1. Lines(message, "Transfer-Encoding") = {}
        BY <1>1, <2>12 DEF WellFormed, LengthForm, NoBodyForm
      <4>2. QED
        BY <1>1, <2>12, <4>1 DEF Meant, ChunkedHead
    <3>2. coding = ""
      BY <1>1, <2>12, NoLine DEF WellFormed, LengthForm, NoBodyForm
    <3>3. GetHeader(message, "Content-Type") # "multipart"
      BY <2>12, NoLine DEF Multipart
    <3>4. outcome.body = raw
      BY <2>9, <3>2, <3>3 DEF Body
    <3>5. p = b /\ Len(raw) = p
      <4>1. message.next = <<>>
        BY <1>1, <2>12
      <4>2. Len(message.next) = 0
        BY <4>1, EmptySeq
      <4>3. Len(message.body \o message.next) = b + Len(message.next)
        BY <2>1, MessageSizes
      <4>4. Len(raw) = p
        BY <2>1, <2>6, RawIsPrefix
      <4> HIDE DEF raw, p, b
      <4>5. QED
        BY <2>5, <2>6, <2>7, <4>2, <4>3, <4>4
    <3> HIDE DEF raw, p, b
    <3>6. SubSeq(raw, 1, Len(raw)) = raw
      BY <2>7, WholeText
    <3>7. QED
      BY <2>8, <2>12, <3>1, <3>4, <3>5, <3>6
  <2>13. QED
    BY <2>10, <2>11, <2>12
<1>2. FramingInv => DelimitedBodyAsSent
  BY <1>1 DEF DelimitedBodyAsSent, BodyAsSent
<1>3. QED
  BY <1>2, FramingInvariant, PTL
=============================================================================
