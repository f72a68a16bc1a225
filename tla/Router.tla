------------------------------- MODULE Router -------------------------------
(***************************************************************************)
(* The Router (srcs/Router.cpp, srcs/RouterMethods.cpp) over the file      *)
(* system.  The server is one thread, so a request is one step; what is    *)
(* hard is the history: files come and go through the requests of many     *)
(* clients, POST, GET and DELETE each compute the file they mean in their  *)
(* own way, and what they compute depends on the location.                 *)
(*                                                                         *)
(* Paths have no "." segments, no backslashes and no repeated slashes, no  *)
(* name begins with two dots, there are no links, the document roots       *)
(* exist, as configFinalCheck demands, and a path that leaves the start    *)
(* directory does not come back to it by its name.  What weakly_canonical  *)
(* does is then Canonical, and the tests of the handlers that a path lies  *)
(* in its root, which compare the beginnings of strings, are Covers.       *)
(***************************************************************************)
EXTENDS Locations, SequencesExt

CONSTANTS
  Bodies,    \* contents of files and of requests
  Cut,       \* the content a write leaves when the disk fills up
  Dir,       \* a directory
  None,      \* no answer, no body
  WithHtml,  \* name n is a file name; WithHtml[n] is n.html, or None
  Lower,     \* a name in lower case
  Stamps,    \* names that makeTimestampName may return
  Requests,  \* requests that clients send
  Trees,     \* file systems the server may find
  Faults     \* "open": a file cannot be created; "full": the disk fills up;
             \* "read": a file or a directory cannot be read

\* A file name of Content-Disposition: a path, absolute when it begins with
\* Empty; <<>> when there is none.
FileNames == {f \in Seq(Names \union {Up, Empty}) :
                 f # <<Empty>> /\ \A k \in 2 .. Len(f) - 1 : f[k] # Empty}

\* length: no Content-Length, a number, one above 100 MB, not a number, or
\* none but chunks that decodeChunkedBody decodes or throws for.  filename:
\* what Content-Disposition says.
RequestType == [method : Methods, url : Urls,
                length : {"none", "given", "large", "garbage", "chunked", "bad_chunks"},
                filename : FileNames, body : Bodies]

Contents == Bodies \union {Cut}

\* Whatever is there lies in a directory that is there.
IsTree(f) ==
    \A p \in DOMAIN f : p # <<>> =>
        /\ SubSeq(p, 1, Len(p) - 1) \in DOMAIN f
        /\ f[SubSeq(p, 1, Len(p) - 1)] = Dir

IsFileSystem(f) ==
    /\ DOMAIN f \subseteq Seq(Names)
    /\ \A p \in DOMAIN f : f[p] \in Contents \union {Dir}

ASSUME RequestsAssumption == Requests \subseteq RequestType
ASSUME TreesAssumption ==
    \A f \in Trees : f = [p \in DOMAIN f |-> f[p]] /\ IsFileSystem(f) /\ IsTree(f)
ASSUME NamingAssumption ==
    /\ WithHtml \in [Names -> Names \union {None}] /\ None \notin Names
    /\ Lower \in [Names -> Names]
    /\ Stamps \subseteq Names /\ Stamps # {}
ASSUME ContentAssumption == Dir \notin Contents /\ None \notin Contents /\ Cut \notin Bodies
ASSUME RouterFaultsAssumption == Faults \subseteq {"open", "full", "read"}

VARIABLES
  fs,      \* the file system: what is there, a directory or a content
  answer,  \* the last request, with the status and the body of its response
  acked    \* history: bodies acknowledged with 201 for the url of their
           \* request and not deleted under it since

vars == <<fs, answer, acked>>

Answer(r, status, body) == answer' = [request |-> r, status |-> status, body |-> body]

\* No response: the exception leaves the Router and ends the process, which is
\* started again over the same files.
Thrown == 0

Init == fs \in Trees /\ answer = None /\ acked = <<>>

-----------------------------------------------------------------------------
(***************************************************************************)
(* The Router of a request: m_docroot, m_uploads and m_index.              *)
(***************************************************************************)
RequestedUrls == {r.url : r \in Requests}

RouterOf == [u \in RequestedUrls |-> Place(u)]

Docroot(url) == RouterOf[url].docroot
UploadDir(url) == RouterOf[url].uploadDir
IndexName(url) == RouterOf[url].indexName

Routes == {r \in Requests : ~IsCgi(r.url)}

-----------------------------------------------------------------------------
(***************************************************************************)
(* isMethodAllowed and the redirects, which are written into the code.     *)
(***************************************************************************)
IsMethodAllowed(method, url) == method = "GET" \/ url[1] = "uploads"

Redirects == {<<"old-page">>, <<"redirect-upload">>, <<"redirect-calculator">>}

RedirectStatus(url) ==
    CASE url = <<"old-page">> -> 301
      [] url = <<"redirect-upload">> -> 302
      [] url = <<"redirect-calculator">> -> 307

Redirect(r) ==
    /\ r.url \in Redirects
    /\ Answer(r, RedirectStatus(r.url), None)
    /\ UNCHANGED <<fs, acked>>

\* The handler of method is reached.
Routed(r, method) ==
    r.method = method /\ r.url \notin Redirects /\ IsMethodAllowed(method, r.url)

NotAllowed(r) ==
    /\ r.url \notin Redirects /\ ~IsMethodAllowed(r.method, r.url)
    /\ Answer(r, 405, None)
    /\ UNCHANGED <<fs, acked>>

-----------------------------------------------------------------------------
(***************************************************************************)
(* Paths                                                                   *)
(***************************************************************************)
\* The components of p; ".." takes the name before it away.
Resolved(p) ==
    LET step(c, x) == IF x = Up /\ c # <<>> /\ Last(c) \in Names THEN Front(c) ELSE Append(c, x)
    IN  FoldLeft(step, <<>>, p)

\* weakly_canonical(p): a path that ends in ".." is one of a directory.
Canonical(p) ==
    IF ~Contains(p, Up) THEN p
    ELSE IF Last(p) = Up THEN Append(Resolved(p), Empty) ELSE Resolved(p)

\* exists(p) in the files f for a path that may end in a slash, and the entry
\* it means.
Entry(p) == IF p[Len(p)] = Empty THEN SubSeq(p, 1, Len(p) - 1) ELSE p
Exists(f, p) == Entry(p) \in DOMAIN f /\ (p[Len(p)] = Empty => f[Entry(p)] = Dir)

-----------------------------------------------------------------------------
(***************************************************************************)
(* handleGET                                                               *)
(***************************************************************************)
GetPath(url) == Canonical(Docroot(url) \o url)

GetAllowed(url) == Covers(Docroot(url), GetPath(url))

\* p.html
Alternatives(p) ==
    {q \in DOMAIN fs : /\ p[Len(p)] \in Names
                       /\ q = SubSeq(p, 1, Len(p) - 1) \o <<WithHtml[p[Len(p)]]>>}

\* The entry a GET of url is about; no element when there is none.
Targets(url) ==
    LET p == GetPath(url)
    IN  IF ~GetAllowed(url) THEN {}
        ELSE IF Exists(fs, p) THEN {Entry(p)} ELSE Alternatives(p)

\* Variant with a bug, which the checks must notice: the entry "..", as readdir
\* returns it, is one of them.
Listing_Dots(p) == {n \in Names \union {Up} : n = Up \/ Append(p, n) \in DOMAIN fs}

\* generateDirectoryListing: the names in a directory.
Listing(p) == {n \in Names : Append(p, n) \in DOMAIN fs}

\* What is sent for entry p: a content, or a listing when a directory has no
\* index.  A directory in the place of the index is read as an empty file,
\* for which Dir stands.
BodyOf(p, index) ==
    IF fs[p] # Dir THEN fs[p]
    ELSE IF index \in Listing(p) THEN fs[Append(p, index)] ELSE Listing(p)

GetForbidden(r) ==
    /\ Routed(r, "GET") /\ ~GetAllowed(r.url)
    /\ Answer(r, 403, None)
    /\ UNCHANGED <<fs, acked>>

GetFound(r) ==
    /\ Routed(r, "GET")
    /\ \E p \in Targets(r.url) : Answer(r, 200, BodyOf(p, IndexName(r.url)))
    /\ UNCHANGED <<fs, acked>>

\* loadFile cannot open the file, or the listing fails.
GetFails(r) ==
    /\ Routed(r, "GET") /\ Targets(r.url) # {} /\ "read" \in Faults
    /\ Answer(r, 500, None)
    /\ UNCHANGED <<fs, acked>>

GetMissing(r) ==
    /\ Routed(r, "GET") /\ GetAllowed(r.url) /\ Targets(r.url) = {}
    /\ Answer(r, 404, None)
    /\ UNCHANGED <<fs, acked>>

-----------------------------------------------------------------------------
(***************************************************************************)
(* handlePOST                                                              *)
(***************************************************************************)
\* The tests on the length, in their order; std::stoi throws.
RefusedLength(r) ==
    CASE r.length = "none" -> 411
      [] r.length = "large" -> 413
      [] r.length = "garbage" -> Thrown
      [] OTHER -> 200

PostRefused(r) ==
    /\ Routed(r, "POST") /\ RefusedLength(r) # 200
    /\ Answer(r, RefusedLength(r), None)
    /\ UNCHANGED <<fs, acked>>

\* The last component, Empty when the path ends in a slash or leads upwards.
ExtractNameFromPath(url) == IF url[Len(url)] = Up THEN Empty ELSE url[Len(url)]

\* The file name of Content-Disposition, in lower case as all of the header.
ExtractFilename(r) ==
    [k \in DOMAIN r.filename |->
        IF r.filename[k] \in Names THEN Lower[r.filename[k]] ELSE r.filename[k]]

\* The first of the two that is not empty, else the time.
UploadNames(r) ==
    LET given == {<<ExtractNameFromPath(r.url)>>} \ {<<Empty>>}
        said  == {ExtractFilename(r)} \ {<<>>}
    IN  IF given # {} THEN given ELSE IF said # {} THEN said ELSE {<<t>> : t \in Stamps}

Base(url) == Docroot(url) \o UploadDir(url)

\* create_directories(p); it throws when one of them is a file.
WithDirectories(p) ==
    [q \in DOMAIN fs \union Prefixes(p) |-> IF q \in DOMAIN fs THEN fs[q] ELSE Dir]

Blocked(p) == \E q \in Prefixes(p) : q \in DOMAIN fs /\ fs[q] # Dir

PostBlocked(r) ==
    /\ Routed(r, "POST") /\ RefusedLength(r) = 200 /\ Blocked(Base(r.url))
    /\ Answer(r, Thrown, None)
    /\ UNCHANGED <<fs, acked>>

\* The directories are made, whatever becomes of the request after that.
Prepared(r) == Routed(r, "POST") /\ RefusedLength(r) = 200 /\ ~Blocked(Base(r.url))

\* Where an upload goes; base / name is name when that is an absolute path.
PostPath(url, name) ==
    Canonical(IF name[1] = Empty THEN name ELSE Base(url) \o name)

PostAllowed(url, name) == Covers(Base(url), PostPath(url, name))

PostForbidden(r) ==
    /\ Prepared(r)
    /\ \E n \in UploadNames(r) : ~PostAllowed(r.url, n)
    /\ fs' = WithDirectories(Base(r.url))
    /\ Answer(r, 403, None)
    /\ UNCHANGED acked

\* Variant with a bug, which the checks must notice: no test of the name.
Free_Always(f, p) == TRUE

Free(f, p) == ~Exists(f, p)

\* A name that is taken, by a file or a directory.
PostConflict(r) ==
    /\ Prepared(r)
    /\ \E n \in UploadNames(r) :
          PostAllowed(r.url, n) /\ ~Free(WithDirectories(Base(r.url)), PostPath(r.url, n))
    /\ fs' = WithDirectories(Base(r.url))
    /\ Answer(r, 409, None)
    /\ UNCHANGED acked

\* A file can be created in a directory that is there.
Creatable(f, p) == \E d \in DOMAIN f, n \in Names : f[d] = Dir /\ p = Append(d, n)

\* decodeChunkedBody throws, or the file cannot be created.  The directories stay.
PostFails(r) ==
    /\ Prepared(r)
    /\ \E n \in UploadNames(r) :
          /\ PostAllowed(r.url, n) /\ Free(WithDirectories(Base(r.url)), PostPath(r.url, n))
          /\ \/ r.length = "bad_chunks" /\ Answer(r, Thrown, None)
             \/ /\ r.length # "bad_chunks"
                /\ \/ "open" \in Faults
                   \/ ~Creatable(WithDirectories(Base(r.url)), PostPath(r.url, n))
                /\ Answer(r, 500, None)
    /\ fs' = WithDirectories(Base(r.url))
    /\ UNCHANGED acked

With(f, p, content) == [q \in DOMAIN f \union {p} |-> IF q = p THEN content ELSE f[q]]

\* What is on the disk after out.write, whose result nobody looks at.
Written(body) == {body} \union {c \in {Cut} : "full" \in Faults}

PostStores(r) ==
    /\ Prepared(r) /\ r.length # "bad_chunks"
    /\ \E n \in UploadNames(r), content \in Written(r.body) :
          /\ PostAllowed(r.url, n) /\ Free(WithDirectories(Base(r.url)), PostPath(r.url, n))
          /\ Creatable(WithDirectories(Base(r.url)), PostPath(r.url, n))
          /\ fs' = With(WithDirectories(Base(r.url)), PostPath(r.url, n), content)
    /\ Answer(r, 201, None)
    /\ acked' = IF ExtractNameFromPath(r.url) = Empty THEN acked
                                                      ELSE With(acked, r.url, r.body)

-----------------------------------------------------------------------------
(***************************************************************************)
(* handleDELETE                                                            *)
(***************************************************************************)
\* Variant with a bug, which the checks must notice: the upload directory forgotten.
DeletePath_Docroot(url) == Canonical(Docroot(url) \o Tail(url))

\* The file of a url that begins with "/uploads/".
DeletePath(url) == Canonical(Base(url) \o Tail(url))

DeleteAllowed(url) == Covers(Base(url), DeletePath(url))

DeleteForbidden(r) ==
    /\ Routed(r, "DELETE") /\ Len(r.url) > 1 /\ ~DeleteAllowed(r.url)
    /\ Answer(r, 403, None)
    /\ UNCHANGED <<fs, acked>>

DeleteMissing(r) ==
    /\ Routed(r, "DELETE")
    /\ Len(r.url) = 1 \/ (DeleteAllowed(r.url) /\ ~Exists(fs, DeletePath(r.url)))
    /\ Answer(r, 404, None)
    /\ UNCHANGED <<fs, acked>>

\* The last tests are passed.
Deletes(r) ==
    /\ Routed(r, "DELETE") /\ Len(r.url) > 1
    /\ DeleteAllowed(r.url) /\ Exists(fs, DeletePath(r.url))

\* remove() takes files and empty directories and throws for other ones.
Without(f, S) == [q \in DOMAIN f \ S |-> f[q]]

\* The urls a client of url means by it: url, and with ".." those of its file.
Meant(url) ==
    {url} \union {u \in DOMAIN acked : Contains(url, Up) /\ GetPath(u) = Entry(DeletePath(url))}

DeleteRemoves(r) ==
    /\ Deletes(r) /\ Listing(Entry(DeletePath(r.url))) = {}
    /\ fs' = Without(fs, {Entry(DeletePath(r.url))})
    /\ Answer(r, 204, None)
    /\ acked' = Without(acked, Meant(r.url))

DeleteFails(r) ==
    /\ Deletes(r) /\ Listing(Entry(DeletePath(r.url))) # {}
    /\ Answer(r, 500, None)
    /\ UNCHANGED <<fs, acked>>

-----------------------------------------------------------------------------
HandleRequest(r) ==
    \/ Redirect(r) \/ NotAllowed(r)
    \/ GetForbidden(r) \/ GetFound(r) \/ GetFails(r) \/ GetMissing(r)
    \/ PostRefused(r) \/ PostBlocked(r) \/ PostForbidden(r)
    \/ PostConflict(r) \/ PostFails(r) \/ PostStores(r)
    \/ DeleteForbidden(r) \/ DeleteMissing(r) \/ DeleteRemoves(r) \/ DeleteFails(r)

Next == \E r \in Routes : HandleRequest(r)

Spec == Init /\ [][Next]_vars

-----------------------------------------------------------------------------
(***************************************************************************)
(* Properties                                                              *)
(***************************************************************************)
\* Every path is a path of names, every content a content of a request: no
\* handler composes a path from an empty name.
TypeOK ==
    /\ IsFileSystem(fs)
    /\ answer = None \/ /\ answer.request \in Requests
                        /\ answer.status \in {Thrown, 200, 201, 204, 301, 302, 307, 403,
                                              404, 405, 409, 411, 413, 500}
                        /\ \/ answer.body \in Contents \union {Dir, None}
                           \/ answer.body \in SUBSET Names
    /\ DOMAIN acked \subseteq RequestedUrls
    /\ \A u \in DOMAIN acked : acked[u] \in Bodies

\* A body that was acknowledged with 201 is what a GET of the same url yields,
\* whatever was posted, fetched and deleted in the meantime, until that url is
\* deleted; on a full disk it may be cut short.  handlePOST stores under the
\* last component below the upload directory, handleGET looks below the
\* document root.  A DELETE of a url with ".." deletes what that url means.
UploadServed ==
    \A u \in DOMAIN acked :
        /\ Targets(u) # {}
        /\ \A p \in Targets(u) : BodyOf(p, IndexName(u)) \in Written(acked[u])

FilesOf(f) == {p \in DOMAIN f : f[p] # Dir}

\* The files change as the client is told: 201 means one new file and no other
\* change, 204 that one entry has gone, everything else, errors and exceptions
\* half way included, that all files are what they were.  No request ever
\* replaces a content.
ChangeAsAnswered ==
    /\ \A p \in FilesOf(fs) \intersect DOMAIN fs' : fs'[p] = fs[p]
    /\ answer'.status = 201 =>
          \E p \in FilesOf(fs') : p \notin DOMAIN fs /\ FilesOf(fs') = FilesOf(fs) \union {p}
    /\ answer'.status = 204 =>
          \E p \in DOMAIN fs : DOMAIN fs' = DOMAIN fs \ {p}
    /\ answer'.status \notin {201, 204} =>
          FilesOf(fs') = FilesOf(fs) /\ DOMAIN fs \subseteq DOMAIN fs'
ChangesAsAnswered == [][ChangeAsAnswered]_vars

\* Where handleGET looks for the uploads, by their urls.
UploadUrls == {<<"uploads", n>> : n \in Names}

FileOf == [u \in UploadUrls |-> Place(u).docroot \o u]

Stored == {u \in UploadUrls : FileOf[u] \in FilesOf(fs)}

Store == INSTANCE UploadStore
            WITH Urls <- UploadUrls, Cuts <- {c \in {Cut} : "full" \in Faults},
                 Plain <- {<<>>} \union {<<n>> : n \in Names},
                 Indirect <- {u \in RequestedUrls : Contains(u, Up)},
                 store <- [u \in Stored |-> fs[FileOf[u]]], last <- answer

\* To the clients of the upload directory the Router is a store: POST never
\* replaces what another client has stored, GET yields it if it can be read,
\* DELETE removes exactly the url it names and never fails to, and an error
\* changes nothing.  The three handlers find the file each in its own way.
StoreImplemented == Store!Spec
=============================================================================
