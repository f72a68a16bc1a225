-------------------------- MODULE MCConfiguration --------------------------
(***************************************************************************)
(* Small instances of Configuration for TLC: files that are put together   *)
(* from good blocks, and every file that one edit makes of them.           *)
(***************************************************************************)
EXTENDS Configuration

L(kind, values) == [kind |-> kind, values |-> values]

ServerBegins == L("server", <<>>)
Closes       == L("close", <<>>)
Opening      == L("open", <<>>)
Listen       == L("listen", <<"81">>)
Name(n)      == L("server_name", <<n>>)
Root(r)      == L("root", <<r>>)
Location(p)  == L("location", <<p>>)
Methods(m)   == L("methods", m)
Upload       == L("upload_path", <<"up">>)
CgiPath      == L("cgi_path", <<"up">>)
CgiExtension == L("cgi_extension", <<".py">>)

\* A location of each form, the second one with its brace on the next line.
Places == {<<Location("/a"), Closes>>,
           <<L("bare_location", <<"/a">>), Opening, Root("a"), Upload, Closes>>,
           <<Location("/b"), Methods(<<"GET", "POST">>), L("index", <<"a">>), Closes>>}

Script == <<Location("/b"), CgiExtension, CgiPath, Closes>>

\* The second block has a root behind its locations.
Blocks == {<<ServerBegins, Name("a")>> \o p \o <<Closes>> : p \in Places}
          \union {<<ServerBegins, Name("b"), Listen>> \o p \o Script \o <<Root("a"), Closes>> :
                      p \in Places}

Good == Blocks \union {b \o c : b, c \in Blocks}

Inserted == {ServerBegins, Closes, Opening, Listen, Root("a"), Root("gone"), Location("/b"), Upload,
             Name("b"), L("index", <<"a">>), L("word", <<>>), L("faulty", <<>>),
             L("methods", <<"none">>), L("redirect", <<"a">>), CgiExtension}

Edited(f) == {RemoveAt(f, k) : k \in DOMAIN f}
             \union {InsertAt(f, k, line) : k \in 1 .. Len(f) + 1, line \in Inserted}

\* The braces of these files match in number only.
Crossed == {<<Closes>> \o b \o <<ServerBegins>> : b \in Blocks}
           \union {<<Closes, Closes>> \o b \o <<Opening>> : b \in Blocks}

MCFiles == {<<>>} \union Good \union UNION {Edited(f) : f \in Good} \union Crossed
=============================================================================
