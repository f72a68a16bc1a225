--------------------------- MODULE RequestFraming ---------------------------
(***************************************************************************)
(* How the bytes of one connection become a request: recv() in pieces of   *)
(* any size, HTTP_IsRequestComplete after each of them, and, once it says  *)
(* yes, RequestParser::parse over everything that was read, the limit on   *)
(* the body and the body a handler gets (srcs/Server.cpp,                  *)
(* srcs/RequestParser.cpp, srcs/Request.cpp, srcs/RouterMethods.cpp).      *)
(* The length of a body is read four times, by four functions that do not  *)
(* agree on how a header is looked up and what is done with its value.     *)
(*                                                                         *)
(* Data.  The request line, a header line and the empty line count as one  *)
(* unit each: a part of a line is no line.  A body is a sequence of        *)
(* characters, since the framing and the decoder search in it as text.     *)
(***************************************************************************)
EXTENDS Naturals, Sequences

CONSTANTS
  Messages,    \* what clients send
  Chars,       \* characters of a body other than digits and line ends
  DigitValue,  \* DigitValue[d] is the value of the digit d
  Radix,       \* base of a chunk size: 16, less to keep chunks short
  Strtoul,     \* Strtoul[v] is the number std::strtoul makes of the value v
  NoNumber,    \* values std::stoi throws for
  Limit,       \* client_max_body_size
  RouterLimit  \* 100 MB

CR == "CR"
LF == "LF"
Nul == "NUL"           \* the padding of a chunk that is not all there
Mark == "mark"         \* the boundary of a multipart body, with its two dashes
Exception == "thrown"  \* no character: std::stoul has thrown

BodyChars == Chars \union DOMAIN DigitValue \union {CR, LF, Mark}

\* exact: spelled as the code spells the name, other cases are not.  The value
\* "multipart" of Content-Type stands for multipart/form-data with a boundary.
HeaderType == [name : {"Content-Length", "Transfer-Encoding", "Content-Type"},
               exact : BOOLEAN, value : DOMAIN Strtoul]

\* method "bad" is a request line that parseRequestLine throws for.  target: is
\* the request one for a script or for the Router (module Locations decides).
\* body is what follows the headers, data the content the client means by it,
\* chunks where each chunk begins in body and its characters in data, next what
\* the client sends behind the request.
MessageType == [method : {"GET", "POST", "DELETE", "bad"}, target : {"script", "router"},
                headers : Seq(HeaderType), body : Seq(BodyChars), data : Seq(BodyChars),
                chunks : Seq([body : Nat, data : Nat]), next : Seq(BodyChars)]

ASSUME FramingMessagesAssumption == Messages \subseteq MessageType
ASSUME FramingDigitsAssumption ==
    /\ Radix \in Nat \ {0, 1}
    /\ DigitValue \in [DOMAIN DigitValue -> 0 .. Radix - 1]
    /\ "0" \in DOMAIN DigitValue /\ DigitValue["0"] = 0
    /\ {CR, LF, Nul, Mark, Exception} \intersect (Chars \union DOMAIN DigitValue) = {}
ASSUME FramingNumbersAssumption ==
    /\ Strtoul \in [DOMAIN Strtoul -> Nat]
    /\ {"", "chunked", "Chunked", "multipart"} \subseteq DOMAIN Strtoul
    /\ NoNumber \subseteq DOMAIN Strtoul
    /\ Strtoul[""] = 0
\* configFinalCheck lets no limit above 100 MB pass.
ASSUME FramingLimitAssumption == Limit \in Nat /\ RouterLimit \in Nat /\ Limit <= RouterLimit

VARIABLES
  message,  \* what the client of the connection sends
  read,     \* how many units of it have been received
  outcome   \* what became of the request

vars == <<message, read, outcome>>

Waiting == [by |-> "nobody", status |-> 0, length |-> "", body |-> <<>>]

\* Statuses of the Router: Stored is 201, Thrown an exception that leaves it,
\* Other an answer that does not depend on the body.
Stored == 201
Thrown == 1
Other  == 200

-----------------------------------------------------------------------------
(***************************************************************************)
(* The two ways to look a header up.  An absent header is an empty value.  *)
(***************************************************************************)
Values(m, K) == {m.headers[k].value : k \in K}

Only(S) == IF S = {} THEN "" ELSE CHOOSE v \in S : TRUE

\* The first line of that name, in whatever case.
GetHeaderValueCI(m, name) ==
    LET K == {k \in DOMAIN m.headers : m.headers[k].name = name}
    IN  Only(Values(m, {k \in K : \A j \in K : k <= j}))

\* Request::getHeader: the last line of that name in the case of the code,
\* since setHeader overwrites.
GetHeader(m, name) ==
    LET K == {k \in DOMAIN m.headers : m.headers[k].name = name /\ m.headers[k].exact}
    IN  Only(Values(m, {k \in K : \A j \in K : j <= k}))

-----------------------------------------------------------------------------
(***************************************************************************)
(* Framing                                                                 *)
(***************************************************************************)
\* The request line, the header lines and the empty line.
HeadSize(m) == Len(m.headers) + 2

Size(m) == HeadSize(m) + Len(m.body) + Len(m.next)

\* What follows the head in the first n units of the stream.
Raw(m, n) == SubSeq(m.body \o m.next, 1, n - HeadSize(m))

Occurrences(text, s) ==
    {k \in 1 .. Len(s) : k + Len(text) - 1 <= Len(s) /\ SubSeq(s, k, k + Len(text) - 1) = text}

LastChunk == <<"0", CR, LF, CR, LF>>

IsChunkedRequestComplete(body) == Occurrences(LastChunk, body) # {}

\* Variant with a bug, which the checks must notice: the parser's lookup.
HTTP_IsRequestComplete_CaseSensitive(m, n) ==
    /\ HeadSize(m) <= n
    /\ LET length == GetHeader(m, "Content-Length")
       IN  IF length # "" THEN Strtoul[length] <= Len(Raw(m, n))
           ELSE GetHeader(m, "Transfer-Encoding") = "chunked" => IsChunkedRequestComplete(Raw(m, n))

\* Variant with a bug, which the checks must notice: the body is not waited for.
HTTP_IsRequestComplete_HeadOnly(m, n) == HeadSize(m) <= n

HTTP_IsRequestComplete(m, n) ==
    /\ HeadSize(m) <= n
    /\ LET length == GetHeaderValueCI(m, "Content-Length")
       IN  IF length # "" THEN Strtoul[length] <= Len(Raw(m, n))
           ELSE GetHeaderValueCI(m, "Transfer-Encoding") = "chunked"
                   => IsChunkedRequestComplete(Raw(m, n))

-----------------------------------------------------------------------------
(***************************************************************************)
(* The body of the parsed request                                          *)
(***************************************************************************)
\* Line ends at the end are taken away.
WithoutLineEnds(s) ==
    LET K == {k \in DOMAIN s : s[k] \notin {CR, LF}}
    IN  SubSeq(s, 1, CHOOSE n \in 0 .. Len(s) : n \in K \union {0} /\ \A k \in K : k <= n)

\* The first part: from the end of its headers to the next boundary, empty if
\* one of them is missing.
BodyContentExtractor(content) ==
    LET starts == Occurrences(<<CR, LF, CR, LF>>, content)
        start  == CHOOSE k \in starts : \A j \in starts : k <= j
        ends   == {k \in Occurrences(<<Mark>>, content) : start + 4 <= k}
        end    == CHOOSE k \in ends : \A j \in ends : k <= j
    IN  IF starts = {} \/ ends = {} THEN <<>>
        ELSE WithoutLineEnds(SubSeq(content, start + 4, end - 1))

\* Variant with a bug, which the checks must notice: forms are not cut out.
Body_Uncut(m, raw) == raw

\* RequestParser::parse: everything behind the head, nothing of a chunked body.
Body(m, raw) ==
    CASE raw = <<>> -> <<>>
      [] raw # <<>> /\ GetHeader(m, "Transfer-Encoding") \in {"chunked", "Chunked"} -> <<>>
      [] OTHER -> IF GetHeader(m, "Content-Type") = "multipart" THEN BodyContentExtractor(raw)
                                                               ELSE raw

-----------------------------------------------------------------------------
(***************************************************************************)
(* decodeChunkedBody: a line with a size, so many characters, two          *)
(* characters that are skipped, and so on until a size is 0 or nothing is  *)
(* left.                                                                   *)
(***************************************************************************)
\* Behind the white space that starts at i.
Skipped(raw, i) ==
    CHOOSE j \in i .. Len(raw) + 1 :
        /\ \A k \in i .. j - 1 : raw[k] = CR
        /\ j \in DOMAIN raw => raw[j] # CR

\* How many digits start at i.
Digits(raw, i) ==
    CHOOSE n \in 0 .. Len(raw) :
        /\ \A k \in i .. i + n - 1 : k \in DOMAIN raw /\ raw[k] \in DOMAIN DigitValue
        /\ i + n \in DOMAIN raw => raw[i + n] \notin DOMAIN DigitValue

\* What a numeral means.
Number(s) ==
    LET value[n \in 0 .. Len(s)] ==
            IF n = 0 THEN 0 ELSE Radix * value[n - 1] + DigitValue[s[n]]
    IN  value[Len(s)]

\* std::stoul(line, nullptr, 16).
ChunkSize(raw, i) == Number(SubSeq(raw, i, i + Digits(raw, i) - 1))

\* Behind the end of the line that starts at i.
NextLine(raw, i) ==
    CHOOSE j \in i + 1 .. Len(raw) + 1 :
        /\ j = Len(raw) + 1 \/ raw[j - 1] = LF
        /\ \A k \in i .. j - 2 : raw[k] # LF

\* The characters of a chunk, padded when they are not all there.
Chunk(raw, i, size) ==
    [k \in 1 .. size |-> IF i + k - 1 \in DOMAIN raw THEN raw[i + k - 1] ELSE Nul]

\* Decoded[i] is made of the lines from i on; it ends in Exception if std::stoul
\* meets a line without a digit.
DecodedLines(raw, Decoded, i) ==
    LET start == NextLine(raw, i)
        first == Skipped(raw, i)
        size  == ChunkSize(raw, first)
        after == start + size + 2
    IN  CASE i > Len(raw) -> <<>>
          [] i <= Len(raw) /\ raw[i] = LF -> Decoded[start]
          [] i <= Len(raw) /\ raw[i] # LF /\ Digits(raw, first) = 0 -> <<Exception>>
          [] i <= Len(raw) /\ raw[i] # LF /\ Digits(raw, first) > 0 ->
                IF size = 0 THEN <<>>
                ELSE Chunk(raw, start, size)
                     \o (IF after <= Len(raw) THEN Decoded[after] ELSE <<>>)

DecodeChunkedBody(raw) ==
    LET Decoded[i \in 1 .. Len(raw) + 1] == DecodedLines(raw, Decoded, i) IN Decoded[1]

\* Variant with a bug, which the checks must notice: the exception is swallowed.
DecodingThrows_Swallowed(body) == FALSE

DecodingThrows(body) == body # <<>> /\ body[Len(body)] = Exception

-----------------------------------------------------------------------------
(***************************************************************************)
(* processCompleteRequest and what the handlers see                        *)
(***************************************************************************)
By(who, status, length, body) ==
    [by |-> who, status |-> status, length |-> length, body |-> body]

\* handlePOST: its tests of the length and the body it stores.
HandlePOST(m, raw) ==
    LET length == GetHeader(m, "Content-Length")
        chunked == GetHeader(m, "Transfer-Encoding") = "chunked"
        body == IF chunked THEN DecodeChunkedBody(raw) ELSE Body(m, raw)
    IN  CASE length = "" /\ ~chunked -> By("router", 411, length, <<>>)
          [] length # "" /\ length \in NoNumber -> By("router", Thrown, length, <<>>)
          [] length # "" /\ length \notin NoNumber /\ Strtoul[length] > RouterLimit ->
                By("router", 413, length, <<>>)
          [] OTHER -> IF DecodingThrows(body) THEN By("router", Thrown, length, <<>>)
                                              ELSE By("router", Stored, length, body)

TooLarge(m) ==
    LET length == GetHeader(m, "Content-Length") IN length # "" /\ Strtoul[length] > Limit

Complete(n) == read < n /\ n <= Size(message) /\ HTTP_IsRequestComplete(message, n)

ReceivePart ==
    /\ outcome = Waiting
    /\ \E n \in read + 1 .. Size(message) : ~HTTP_IsRequestComplete(message, n) /\ read' = n
    /\ UNCHANGED <<message, outcome>>

\* parse() throws.
ReceiveMalformed ==
    /\ outcome = Waiting /\ message.method = "bad"
    /\ \E n \in read + 1 .. Size(message) : Complete(n) /\ read' = n
    /\ outcome' = By("server", 400, "", <<>>)
    /\ UNCHANGED message

ReceiveTooLarge ==
    /\ outcome = Waiting /\ message.method # "bad" /\ TooLarge(message)
    /\ \E n \in read + 1 .. Size(message) : Complete(n) /\ read' = n
    /\ outcome' = By("server", 413, "", <<>>)
    /\ UNCHANGED message

\* runCgi: CONTENT_LENGTH and what is written to the script's stdin.
ReceiveForScript ==
    /\ outcome = Waiting /\ message.method # "bad" /\ ~TooLarge(message)
    /\ message.target = "script"
    /\ \E n \in read + 1 .. Size(message) :
          /\ Complete(n) /\ read' = n
          /\ outcome' = By("script", Other, GetHeader(message, "Content-Length"),
                           Body(message, Raw(message, n)))
    /\ UNCHANGED message

ReceiveForRouter ==
    /\ outcome = Waiting /\ message.method # "bad" /\ ~TooLarge(message)
    /\ message.target = "router"
    /\ \E n \in read + 1 .. Size(message) :
          /\ Complete(n) /\ read' = n
          /\ outcome' = IF message.method = "POST" THEN HandlePOST(message, Raw(message, n))
                                                   ELSE By("router", Other, "", <<>>)
    /\ UNCHANGED message

Init == message \in Messages /\ read = 0 /\ outcome = Waiting

Next == ReceivePart \/ ReceiveMalformed \/ ReceiveTooLarge \/ ReceiveForScript \/ ReceiveForRouter

Spec == Init /\ [][Next]_vars

-----------------------------------------------------------------------------
(***************************************************************************)
(* Properties.  Which messages are in order:                               *)
(***************************************************************************)
Lines(m, name) == {k \in DOMAIN m.headers : m.headers[k].name = name}

LengthForm(m) ==
    /\ \E k \in DOMAIN m.headers :
          /\ Lines(m, "Content-Length") = {k}
          /\ m.headers[k].value # "" /\ Strtoul[m.headers[k].value] = Len(m.body)
    /\ Lines(m, "Transfer-Encoding") = {}

ChunkedHead(m) ==
    /\ Lines(m, "Content-Length") = {}
    /\ \E k \in DOMAIN m.headers :
          Lines(m, "Transfer-Encoding") = {k} /\ m.headers[k].value = "chunked"

\* The text of the last chunk stands at the end of the body only: the framing
\* does not count chunks, and data with this text ends the body early.
ChunkedForm(m) ==
    /\ ChunkedHead(m)
    /\ Occurrences(LastChunk, m.body \o m.next) = {Len(m.body) - Len(LastChunk) + 1}

NoBodyForm(m) ==
    /\ Lines(m, "Content-Length") = {} /\ Lines(m, "Transfer-Encoding") = {}
    /\ m.body = <<>>

\* One request, framed as HTTP/1.1 asks for, its headers in any case.
WellFormed(m) == LengthForm(m) \/ ChunkedForm(m) \/ NoBodyForm(m)

\* Headers are spelled as the code spells them.
Spelled(m) == \A k \in DOMAIN m.headers : m.headers[k].exact

Multipart(m) == Lines(m, "Content-Type") # {} /\ GetHeader(m, "Content-Type") = "multipart"

\* The chunk at c, of the data up to where that of the chunk d begins: a line
\* with its size, the characters and a line end.
ChunkLaid(m, c, d) ==
    LET digits == Digits(m.body, c.body)
        size   == d.data - c.data
        from   == c.body + digits + 2
    IN  /\ c.body > 0 /\ c.body < d.body /\ d.body <= Len(m.body)
        /\ c.data > 0 /\ c.data < d.data /\ d.data <= Len(m.data) + 1
        /\ digits > 0 /\ d.body = from + size + 2
        /\ Number(SubSeq(m.body, c.body, c.body + digits - 1)) = size
        /\ SubSeq(m.body, from - 2, from - 1) = <<CR, LF>>
        /\ SubSeq(m.body, from, from + size - 1) = SubSeq(m.data, c.data, d.data - 1)

InChunks(m) ==
    LET n == Len(m.chunks)
    IN  /\ n > 0 /\ m.chunks[1] = [body |-> 1, data |-> 1]
        /\ m.chunks[n] = [body |-> Len(m.body) - 4, data |-> Len(m.data) + 1]
        /\ SubSeq(m.body, Len(m.body) - 4, Len(m.body)) = LastChunk
        /\ \A k \in 1 .. n - 1 : ChunkLaid(m, m.chunks[k], m.chunks[k + 1])

\* The data is the part of a form: between the empty line behind its headers and
\* the boundary, or there is no part.
InForm(m) ==
    LET empty == Occurrences(<<CR, LF, CR, LF>>, m.body)
    IN  \/ /\ Occurrences(<<CR, LF, CR, LF>>, m.body \o m.next) = {} /\ m.data = <<>>
        \/ \E k \in empty, mark \in Occurrences(<<Mark>>, m.body) :
              /\ \A j \in empty : k <= j
              /\ k + 6 <= mark /\ \A j \in k + 4 .. mark - 1 : m.body[j] # Mark
              /\ m.data = SubSeq(m.body, k + 4, mark - 3)
              /\ SubSeq(m.body, mark - 2, mark - 1) = <<CR, LF>>

\* The body carries the data: as it is, in chunks, or as a form with a length.
Meant(m) ==
    CASE Multipart(m) -> LengthForm(m) /\ InForm(m)
      [] ~Multipart(m) /\ ChunkedHead(m) -> InChunks(m)
      [] OTHER -> m.data = m.body

-----------------------------------------------------------------------------
TypeOK ==
    /\ message \in Messages
    /\ read \in 0 .. Size(message)
    /\ \/ outcome = Waiting
       \/ /\ outcome.by \in {"server", "script", "router"}
          /\ outcome.status \in {Thrown, Other, Stored, 400, 411, 413}
          /\ outcome.length \in DOMAIN Strtoul
          /\ outcome.body \in Seq(BodyChars \union {Nul})

\* A request is acted on when its last byte is in, not before and not later,
\* however the network cuts it up and in whatever case its headers are: a
\* server that judges early uses a part of a body, one that judges late waits
\* for ever.
JudgedAtItsEnd ==
    WellFormed(message) =>
        (outcome = Waiting <=> read < HeadSize(message) + Len(message.body))

\* What an upload stores and a script reads is what the client meant and no
\* more: the body, the decoded chunks, or the part of a form (a form loses the
\* line ends at its end).  It does not hold: parse() takes all that was read for
\* the body, the beginning of a next request included, gives a script nothing of
\* a body in chunks, and a chunk whose data reads like the last one ends the body.
BodyAsSent ==
    /\ \/ outcome.by = "script"
       \/ outcome.by = "router" /\ outcome.status = Stored
    /\ LengthForm(message) \/ ChunkedHead(message) \/ NoBodyForm(message)
    /\ Spelled(message) /\ Meant(message)
    => outcome.body = IF Multipart(message) THEN WithoutLineEnds(message.data) ELSE message.data

\* It does for a body whose end the code finds, at a boundary, at the only text of
\* a last chunk or because the client sends nothing behind it, and for chunks that
\* go to the Router.  A greedy search, a wrong count of digits or of line ends would show.
DelimitedBodyAsSent ==
    /\ WellFormed(message)
    /\ Multipart(message) \/ ChunkedForm(message) \/ message.next = <<>>
    /\ ChunkedForm(message) => outcome.by = "router"
    => BodyAsSent

\* A script that reads as many bytes as CONTENT_LENGTH says has read what the
\* client meant.  The two come from different functions: the variable from the
\* header, the input from the body that parse() has cut out.
ScriptToldLength ==
    /\ outcome.by = "script" /\ Spelled(message) /\ ~Multipart(message) /\ Meant(message)
    /\ LengthForm(message) \/ NoBodyForm(message)
    => /\ Strtoul[outcome.length] <= Len(outcome.body)
       /\ SubSeq(outcome.body, 1, Strtoul[outcome.length]) = message.data
=============================================================================
