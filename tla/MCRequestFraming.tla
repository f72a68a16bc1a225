-------------------------- MODULE MCRequestFraming --------------------------
(***************************************************************************)
(* Small instances of RequestFraming for TLC.  Chunk sizes are written to  *)
(* base 2, so that "10" needs two characters of data and not sixteen.      *)
(***************************************************************************)
EXTENDS RequestFraming, TLC

MCDigitValue == "0" :> 0 @@ "1" :> 1

\* More than any buffer holds: std::strtoul wraps "-1" around.
Huge == 1000

MCStrtoul == "" :> 0 @@ "0" :> 0 @@ "1" :> 1 @@ "2" :> 2 @@ "3" :> 3 @@ "9" :> 9 @@ "10" :> 10 @@ "abc" :> 0
             @@ "-1" :> Huge @@ "chunked" :> 0 @@ "Chunked" :> 0 @@ "multipart" :> 0

Header(name, exact, value) == [name |-> name, exact |-> exact, value |-> value]
Length(v)  == Header("Content-Length", TRUE, v)
LowerLength(v) == Header("Content-Length", FALSE, v)
Coding(v)  == Header("Transfer-Encoding", TRUE, v)
LowerCoding(v) == Header("Transfer-Encoding", FALSE, v)
Form       == Header("Content-Type", TRUE, "multipart")

\* The chunk format, from the client's side: the first k chunks as they are sent,
\* and the data in them.
End == <<CR, LF>>
Size2 == << <<"1">>, <<"1", "0">>, <<"1", "1">> >>
Sent(chunks) ==
    LET S[k \in 0 .. Len(chunks)] ==
            IF k = 0 THEN <<>>
            ELSE S[k - 1] \o Size2[Len(chunks[k])] \o End
                 \o chunks[k] \o End
    IN  S
Joined(chunks) ==
    LET J[k \in 0 .. Len(chunks)] == IF k = 0 THEN <<>> ELSE J[k - 1] \o chunks[k]
    IN  J
Chunked(chunks) == Sent(chunks)[Len(chunks)] \o <<"0">> \o End \o End
Data(chunks) == Joined(chunks)[Len(chunks)]
Layout(chunks) ==
    [k \in 1 .. Len(chunks) + 1 |-> [body |-> Len(Sent(chunks)[k - 1]) + 1,
                                     data |-> Len(Joined(chunks)[k - 1]) + 1]]

PartOf(data) == <<"x">> \o End \o End \o data \o End \o <<Mark>>

Msg(method, target, headers, body, data, next) ==
    [method |-> method, target |-> target, headers |-> headers, body |-> body,
     data |-> data, chunks |-> <<>>, next |-> next]

ChunkedMsg(target, header, chunks, next) ==
    [Msg("POST", target, <<header>>, Chunked(chunks), Data(chunks), next)
        EXCEPT !.chunks = Layout(chunks)]

Ten == [k \in 1 .. 10 |-> "x"]

Targets == {"script", "router"}
Nexts == {<<>>, <<"x", "1">>}

Plain == {Msg("POST", t, <<h>>, b, b, n) :
            t \in Targets, n \in Nexts,
            h \in {Length("2"), LowerLength("2")}, b \in {<<"x", CR>>, <<"0", LF>>}}
         \union {Msg(m, t, <<>>, <<>>, <<>>, n) :
            m \in {"GET", "POST", "DELETE", "bad"}, t \in Targets, n \in Nexts}
         \union {Msg("POST", t, <<Length("0")>>, <<>>, <<>>, <<>>) : t \in Targets}
         \union {Msg("POST", t, <<h>>, Ten, Ten, <<>>) :
            t \in Targets, h \in {Length("10"), LowerLength("10")}}

\* The size and the data of the last two chunks read like a last chunk.
Pieces == {ChunkedMsg(t, h, c, n) :
            t \in Targets, n \in Nexts, h \in {Coding("chunked"), LowerCoding("chunked"), Coding("Chunked")},
            c \in {<<>>, <<<<"x">>, <<LF, "1">>>>, <<<<"0">>, <<CR, "0">>, <<"x", "x">>>>,
                   <<End, End>>}}

Forms == {Msg("POST", t, <<Form, Length("9")>>, PartOf(d), d, n) :
            t \in Targets, n \in Nexts, d \in {<<"x">>, <<LF>>}}

\* Lengths that are none, are not the body's, come twice or beside chunks; a
\* form without a part, and chunks that do not decode.
Odd == {Msg("POST", t, hs, <<"x", "x">>, <<"x", "x">>, <<>>) :
            t \in Targets, hs \in {<<Length("abc")>>, <<Length("-1")>>, <<Length("3")>>, <<Length("1")>>,
                                   <<Length("9")>>, <<Length("2"), Length("1")>>, <<Length("1"), Length("10")>>,
                                   <<LowerLength("2"), Length("1")>>, <<Length("")>>,
                                   <<Length("2"), Coding("chunked")>>}}
       \union {Msg("POST", t, <<Length("2"), Form>>, <<"x", Mark>>, <<>>, <<>>) : t \in Targets}
       \union {Msg("POST", "router", <<Coding("chunked")>>, b \o Chunked(<<>>), <<>>, <<>>) :
            b \in {<<"x", LF>>, <<LF, CR, "1", LF>>, <<"1", LF, "x", "x">>}}

MCMessages == Plain \union Pieces \union Forms \union Odd

\* An upload whose client does not wait for the answer.
MCPipelined == {Msg("POST", "router", <<Length("2")>>, <<"x", "x">>, <<"x", "x">>, <<"1", "0">>)}

\* Two more instances that violate BodyAsSent: chunks for a script, and an upload
\* whose first chunk ends like a last one.
MCChunkedForScript == {ChunkedMsg("script", Coding("chunked"), <<<<"x">>>>, <<>>)}
MCChunkData == {ChunkedMsg("router", Coding("chunked"), <<<<"0", CR, LF>>, <<"x">>>>, <<>>)}
=============================================================================
