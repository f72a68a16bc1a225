------------------------------ MODULE MCRouter ------------------------------
(***************************************************************************)
(* A small instance of Router for TLC: the locations of full_test.conf     *)
(* that have to do with uploads, and one of scripts.                       *)
(***************************************************************************)
EXTENDS Router, TLC

CONSTANTS b1, b2

MCNames == {"www", "full_test", "cgi", "upload", "uploads", "upload.html", "index.html",
            "main", "gallery", "old-page", "a", "a.html", "A", "t1"}

MCBegins == {<<"upload", "uploads">>, <<"upload", "upload.html">>, <<"a", "a.html">>}

MCWithHtml == [n \in MCNames |-> IF n = "a" THEN "a.html"
                                 ELSE IF n = "upload" THEN "upload.html" ELSE None]
MCLower == [n \in MCNames |-> IF n = "A" THEN "a" ELSE n]

MCServer == [root |-> <<"www", "full_test">>, index |-> <<"index.html">>]

Loc(path, root, upload, index, methods, cgi) ==
    [path |-> path, root |-> root, upload_path |-> upload, index |-> index,
     methods |-> methods, cgi |-> cgi]

FullTest == <<
    Loc(<<Empty>>, <<"www", "full_test">>, <<"uploads", "main">>, <<>>, {"GET"}, {}),
    Loc(<<"gallery">>, <<"www", "cgi">>, <<>>, <<"index.html">>, {"GET"}, {"a.html"}),
    Loc(<<"upload">>, <<"www", "full_test">>, <<>>, <<"upload.html">>, {"GET"}, {}),
    Loc(<<"uploads">>, <<"www">>, <<"uploads">>, <<>>, Methods, {})>>

Put(f, p, content) == [q \in DOMAIN f \union {p} |-> IF q = p THEN content ELSE f[q]]

\* The directories that configFinalCheck looks for, without www/uploads, which
\* uploads create; with it and a subdirectory; with a file in its place.
Site == [p \in {<<>>, <<"www">>, <<"www", "full_test">>, <<"www", "main">>, <<"www", "cgi">>,
                <<"uploads">>, <<"uploads", "main">>} |-> Dir]
        @@ (<<"www", "full_test", "upload.html">> :> b1)
Uploaded == Put(Put(Site, <<"www", "uploads">>, Dir), <<"www", "uploads", "upload">>, Dir)
MCTrees == {Site, Uploaded, Put(Site, <<"www", "uploads">>, b1)}

Req(method, url, length, filename, body) ==
    [method |-> method, url |-> url, length |-> length, filename |-> filename, body |-> body]

\* The page www/upload.html posts to "/uploads/" and the name of a file; a
\* client without a name posts to "/uploads/".
Posts == {Req("POST", <<"uploads", n>>, "given", <<n>>, b1) : n \in {"a", "a.html"}}
         \union {Req("POST", <<"uploads", "a">>, l, <<>>, b2) :
                     l \in {"none", "large", "garbage", "chunked", "bad_chunks"}}
         \union {Req("POST", <<"uploads", Empty>>, "given", f, b1) :
                     f \in {<<>>, <<"A">>, <<"upload", "a">>, <<Empty, "a">>}}

UploadedUrls == {<<"uploads">>, <<"uploads", Empty>>, <<"uploads", "a">>,
                 <<"uploads", "a.html">>, <<"uploads", "upload", Empty>>,
                 <<"uploads", "upload", Up, "a">>, <<"uploads", Up>>}

Pages == {<<Empty>>, <<Up>>, <<"upload">>, <<"gallery">>, <<"a">>}

Others == {Req(m, u, "none", <<>>, b1) : m \in {"GET", "DELETE"}, u \in UploadedUrls}
          \union {Req("GET", u, "none", <<>>, b1) : u \in Pages}
          \union {Req("DELETE", <<"old-page">>, "none", <<>>, b1)}

\* A client that posts to a page.
Stray == {Req("POST", u, "given", <<>>, b2) : u \in {<<"upload">>, <<"upload", "a">>}}

MCRequests == Posts \union Others \union Stray
=============================================================================
