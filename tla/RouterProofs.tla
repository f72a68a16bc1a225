---------------------------- MODULE RouterProofs ----------------------------
(***************************************************************************)
(* Theorems about Router, for every set of locations, requests, faults and *)
(* file systems: types, what a request changes, and that it is a store of  *)
(* uploads (UploadStore).                                                  *)
(***************************************************************************)
EXTENDS Router, TLAPS

-----------------------------------------------------------------------------
(***************************************************************************)
(* Paths                                                                   *)
(***************************************************************************)
LEMMA FrontOfAppend ==
    ASSUME NEW p \in Seq(Names), NEW n \in Names
    PROVE  /\ Append(p, n) \in Seq(Names)
           /\ Append(p, n) # <<>>
           /\ SubSeq(Append(p, n), 1, Len(Append(p, n)) - 1) = p
  <1>1. Append(p, n) \in Seq(Names) /\ Len(Append(p, n)) = Len(p) + 1
    OBVIOUS
  <1>2. SubSeq(Append(p, n), 1, Len(p)) = p
    OBVIOUS
  <1>3. QED
    BY <1>1, <1>2

LEMMA PrefixType ==
    ASSUME NEW p \in Seq(Names), NEW q \in Prefixes(p)
    PROVE  /\ q \in Seq(Names) /\ Len(q) <= Len(p)
           /\ \A k \in 1 .. Len(q) : q[k] = p[k]
           /\ q # <<>> => SubSeq(q, 1, Len(q) - 1) \in Prefixes(p)
  <1>1. PICK k \in 0 .. Len(p) : q = SubSeq(p, 1, k)
    BY DEF Prefixes
  <1>2. q \in Seq(Names) /\ Len(q) = k /\ \A j \in 1 .. Len(q) : q[j] = p[j]
    BY <1>1
  <1>3. ASSUME q # <<>> PROVE SubSeq(q, 1, Len(q) - 1) \in Prefixes(p)
    <2>1. k >= 1
      BY <1>2, <1>3
    <2>2. SubSeq(q, 1, k - 1) = SubSeq(p, 1, k - 1)
      BY <1>1, <1>2, <2>1
    <2>3. QED
      BY <1>2, <2>1, <2>2 DEF Prefixes
  <1>4. QED
    BY <1>2, <1>3

LEMMA PrefixEnds ==
    ASSUME NEW p \in Seq(Names)
    PROVE  p \in Prefixes(p) /\ <<>> \in Prefixes(p)
  <1>1. SubSeq(p, 1, Len(p)) = p
    OBVIOUS
  <1>2. SubSeq(p, 1, 0) = <<>>
    OBVIOUS
  <1>3. Len(p) \in 0 .. Len(p) /\ 0 \in 0 .. Len(p)
    OBVIOUS
  <1>4. QED
    BY <1>1, <1>2, <1>3 DEF Prefixes

\* The base of a concatenation is one of its prefixes.
LEMMA BaseIsPrefix ==
    ASSUME NEW p \in Seq(Names), NEW q \in Seq(Names)
    PROVE  p \in Prefixes(p \o q)
  <1>1. Len(p) \in 0 .. Len(p \o q)
    OBVIOUS
  <1>2. SubSeq(p \o q, 1, Len(p)) = p
    OBVIOUS
  <1>3. QED
    BY <1>1, <1>2 DEF Prefixes

\* Two components behind a path, one after the other.
LEMMA TwoBehind ==
    ASSUME NEW S, NEW p \in Seq(S), NEW a \in S, NEW n \in S
    PROVE  /\ p \o <<a, n>> = Append(p \o <<a>>, n)
           /\ (p \o <<a, n>>)[Len(p \o <<a, n>>)] = n
  <1>1. <<a, n>> \in Seq(S) /\ <<a>> \in Seq(S)
    OBVIOUS
  <1>2. p \o <<a, n>> \in Seq(S) /\ Len(p \o <<a, n>>) = Len(p) + 2
    BY <1>1
  <1>3. p \o <<a>> \in Seq(S) /\ Len(p \o <<a>>) = Len(p) + 1
    BY <1>1
  <1>4. Append(p \o <<a>>, n) \in Seq(S) /\ Len(Append(p \o <<a>>, n)) = Len(p) + 2
    BY <1>3
  <1>5. \A k \in 1 .. Len(p) + 2 : (p \o <<a, n>>)[k] = Append(p \o <<a>>, n)[k]
    BY <1>1, <1>2, <1>3, <1>4
  <1>6. p \o <<a, n>> = Append(p \o <<a>>, n)
    BY <1>2, <1>4, <1>5
  <1>7. QED
    BY <1>2, <1>6, <1>1

\* What follows a path in a path.
LEMMA OneBehind ==
    ASSUME NEW S, NEW p \in Seq(S), NEW t \in Seq(S), NEW n \in S, p \o <<n>> = p \o t
    PROVE  Len(t) = 1 /\ t[1] = n
  <1>1. <<n>> \in Seq(S) /\ Len(<<n>>) = 1 /\ <<n>>[1] = n
    OBVIOUS
  <1>2. Len(p \o <<n>>) = Len(p) + 1 /\ Len(p \o t) = Len(p) + Len(t)
    BY <1>1
  <1>3. Len(p) \in Nat /\ Len(t) \in Nat
    OBVIOUS
  <1>4. Len(t) = 1
    BY <1>2, <1>3
  <1>5. (p \o <<n>>)[Len(p) + 1] = n /\ (p \o t)[Len(p) + 1] = t[1]
    BY <1>1, <1>4
  <1>6. QED
    BY <1>4, <1>5

\* A path without ".." is its canonical form.
LEMMA PlainPath ==
    ASSUME NEW p \in Seq(Names \union {Empty})
    PROVE  ~Contains(p, Up) /\ Canonical(p) = p
  <1>1. Up \notin Names \union {Empty}
    <2>1. Up # Empty
      BY Zenon DEF Up, Empty
    <2>2. QED
      BY <2>1, NameAssumption
  <1>2. ~Contains(p, Up)
    BY <1>1 DEF Contains
  <1>3. QED
    BY <1>2 DEF Canonical

\* A path begins with its root.
LEMMA CoversOwn ==
    ASSUME NEW S, NEW root \in Seq(S), root # <<>>, NEW t \in Seq(S)
    PROVE  Covers(root, root \o t)
  <1>1. Len(root \o t) = Len(root) + Len(t) /\ Len(root) >= 1 /\ Len(t) >= 0
    OBVIOUS
  <1>2. \A k \in 1 .. Len(root) : (root \o t)[k] = root[k]
    OBVIOUS
  <1> DEFINE whole == root \o t
  <1>3. Len(root) \in 1 .. Len(root) /\ Len(root) <= Len(whole)
    BY <1>1
  <1>4. \A k \in 1 .. Len(root) - 1 : root[k] = whole[k]
    BY <1>1, <1>2
  <1>5. root[Len(root)] = whole[Len(root)]
    BY <1>2, <1>3
  <1> HIDE DEF whole
  <1>6. Covers(root, whole)
    BY <1>3, <1>4, <1>5 DEF Covers
  <1>7. QED
    BY <1>6 DEF whole

-----------------------------------------------------------------------------
(***************************************************************************)
(* Locations                                                               *)
(***************************************************************************)
LEMMA MatchedType ==
    ASSUME NEW url, MatchLocation(url) # {}
    PROVE  Matched(url) \in LocationType
  <1>1. (CHOOSE l \in MatchLocation(url) : TRUE) \in DOMAIN Locations
    BY DEF MatchLocation
  <1>2. QED
    BY <1>1, LocationAssumption DEF Matched

LEMMA PlaceType ==
    ASSUME NEW url
    PROVE  /\ Place(url).docroot \in Seq(Names) /\ Place(url).docroot # <<>>
           /\ Place(url).uploadDir \in Seq(Names) /\ Place(url).uploadDir # <<>>
           /\ Place(url).indexName \in Names
  <1> DEFINE given == MatchLocation(url) # {}
             index == IF given /\ Matched(url).index # <<>> THEN Matched(url).index
                                                            ELSE Server.index
  <1>1. given => /\ Matched(url).root \in Seq(Names)
                 /\ Matched(url).upload_path \in Seq(Names)
                 /\ Matched(url).index \in Seq(Names)
    BY MatchedType DEF LocationType
  <1>2. Server.root \in Seq(Names) /\ Server.root # <<>> /\ Server.index \in Seq(Names)
    BY ServerAssumption DEF Dirs
  <1>3. index \in Seq(Names)
    BY <1>1, <1>2
  <1>4. (IF index # <<>> THEN index[1] ELSE "index.html") \in Names
    <2> HIDE DEF index
    <2> QED BY <1>3, NameAssumption
  <1>5. <<"uploads">> \in Seq(Names) /\ <<"uploads">> # <<>>
    BY NameAssumption
  <1>6. QED
    BY <1>1, <1>2, <1>4, <1>5 DEF Place

LEMMA RequestPlace ==
    ASSUME NEW r \in Requests
    PROVE  /\ Docroot(r.url) \in Seq(Names) /\ Docroot(r.url) # <<>>
           /\ IndexName(r.url) \in Names
           /\ UploadDir(r.url) \in Seq(Names)
           /\ Base(r.url) \in Seq(Names) /\ Base(r.url) # <<>>
  <1>1. r.url \in RequestedUrls
    BY DEF RequestedUrls
  <1>2. RouterOf[r.url] = Place(r.url)
    BY <1>1 DEF RouterOf
  <1>3. /\ Docroot(r.url) \in Seq(Names) /\ Docroot(r.url) # <<>>
        /\ IndexName(r.url) \in Names
        /\ UploadDir(r.url) \in Seq(Names) /\ UploadDir(r.url) # <<>>
    BY <1>2, PlaceType DEF Docroot, IndexName, UploadDir
  <1>4. Len(Base(r.url)) >= 1 /\ Base(r.url) \in Seq(Names)
    BY <1>3 DEF Base
  <1>5. QED
    BY <1>3, <1>4

LEMMA UrlType ==
    ASSUME NEW r \in Requests
    PROVE  /\ r.url \in Urls
           /\ r.url \in Seq(Names \union {Up, Empty}) /\ Len(r.url) \in Nat \ {0}
           /\ r.filename \in FileNames /\ r.body \in Bodies
  <1>1. r.url \in Urls /\ r.filename \in FileNames /\ r.body \in Bodies
    BY RequestsAssumption DEF RequestType
  <1>2. r.url \in Seq(Names \union {Up, Empty}) /\ r.url # <<>>
    BY <1>1 DEF Urls
  <1>3. QED
    BY <1>1, <1>2

LEMMA PlainUrl ==
    ASSUME NEW r \in Requests, ~Contains(r.url, Up)
    PROVE  r.url \in Seq(Names \union {Empty})
  <1>1. r.url \in Seq(Names \union {Up, Empty})
    BY UrlType
  <1>2. \A k \in 1 .. Len(r.url) : r.url[k] \in Names \union {Empty}
    BY <1>1 DEF Contains
  <1>3. QED
    BY <1>1, <1>2

\* Where an upload goes that has a plain name.
LEMMA NamedUpload ==
    ASSUME NEW r \in Requests, NEW n \in Names
    PROVE  PostPath(r.url, <<n>>) = Append(Base(r.url), n)
  <1> DEFINE base == Base(r.url)
  <1>1. base \in Seq(Names) /\ <<n>> \in Seq(Names) /\ <<n>>[1] = n
    BY RequestPlace
  <1>2. n # Empty
    BY NameAssumption
  <1>3. PostPath(r.url, <<n>>) = Canonical(base \o <<n>>)
    BY <1>1, <1>2 DEF PostPath
  <1> HIDE DEF base
  <1>4. base \o <<n>> \in Seq(Names) /\ base \o <<n>> = Append(base, n)
    BY <1>1
  <1>5. base \o <<n>> \in Seq(Names \union {Empty})
    BY <1>4
  <1>6. Canonical(base \o <<n>>) = base \o <<n>>
    BY <1>5, PlainPath
  <1>7. QED
    BY <1>3, <1>4, <1>6 DEF base

\* The name of the url comes before the one of the header.
LEMMA NameOfUrl ==
    ASSUME NEW r, NEW n, ExtractNameFromPath(r.url) = n, n # Empty
    PROVE  UploadNames(r) = {<<n>>}
  <1>1. <<n>> # <<Empty>>
    <2>1. <<n>>[1] # <<Empty>>[1]
      OBVIOUS
    <2>2. QED
      BY <2>1
  <1>2. {<<ExtractNameFromPath(r.url)>>} \ {<<Empty>>} = {<<n>>}
    BY <1>1
  <1>3. QED
    BY <1>2 DEF UploadNames

\* What a DELETE without ".." is about.
LEMMA PlainDelete ==
    ASSUME NEW r \in Requests, Len(r.url) > 1, ~Contains(r.url, Up)
    PROVE  DeletePath(r.url) = Base(r.url) \o Tail(r.url) /\ DeleteAllowed(r.url)
  <1> DEFINE base == Base(r.url)
             rest == Tail(r.url)
             S == Names \union {Empty}
  <1>1. r.url \in Seq(S)
    BY PlainUrl
  <1>2. rest \in Seq(S)
    BY <1>1
  <1>3. base \in Seq(Names) /\ base # <<>>
    BY RequestPlace
  <1>4. base \in Seq(S)
    BY <1>3
  <1> HIDE DEF base, rest
  <1>5. base \o rest \in Seq(S)
    BY <1>2, <1>4
  <1> HIDE DEF S
  <1>6. Covers(base, base \o rest)
    BY <1>2, <1>3, <1>4, CoversOwn
  <1>7. Canonical(base \o rest) = base \o rest
    BY <1>5, PlainPath DEF S
  <1>8. QED
    BY <1>6, <1>7 DEF DeletePath, DeleteAllowed, base, rest

-----------------------------------------------------------------------------
(***************************************************************************)
(* The file system                                                         *)
(***************************************************************************)
\* A well-formed file system g that adds to f the directories to base.
AddsDirectories(g, f, base) ==
    /\ IsFileSystem(g) /\ IsTree(g)
    /\ DOMAIN g = DOMAIN f \union Prefixes(base)
    /\ \A p \in DOMAIN f : g[p] = f[p]
    /\ base \in DOMAIN g /\ g[base] = Dir
    /\ FilesOf(g) = FilesOf(f)

\* One that adds to f the file p.
AddsFile(g, f, p) ==
    /\ IsFileSystem(g) /\ IsTree(g)
    /\ DOMAIN g = DOMAIN f \union {p}
    /\ \A q \in DOMAIN f : g[q] = f[q]
    /\ FilesOf(g) = FilesOf(f) \union {p}

\* create_directories adds directories to a tree and nothing else.
LEMMA DirectoriesMade ==
    ASSUME NEW base \in Seq(Names), IsFileSystem(fs), IsTree(fs), ~Blocked(base)
    PROVE  AddsDirectories(WithDirectories(base), fs, base)
  <1> DEFINE f == WithDirectories(base)
  <1>1. /\ DOMAIN f = DOMAIN fs \union Prefixes(base)
        /\ \A p \in DOMAIN fs : f[p] = fs[p]
        /\ \A p \in DOMAIN f : p \notin DOMAIN fs => f[p] = Dir
    BY DEF WithDirectories
  <1>2. \A p \in Prefixes(base) : p \in DOMAIN f /\ f[p] = Dir
    BY <1>1 DEF Blocked
  <1> HIDE DEF f
  <1>3. IsFileSystem(f)
    <2>1. \A p \in DOMAIN f : p \in Seq(Names)
      BY <1>1, PrefixType DEF IsFileSystem
    <2>2. \A p \in DOMAIN f : f[p] \in Contents \union {Dir}
      BY <1>1 DEF IsFileSystem
    <2>3. QED
      BY <2>1, <2>2 DEF IsFileSystem
  <1>4. IsTree(f)
    <2>2. ASSUME NEW p \in DOMAIN f, p # <<>>
          PROVE  /\ SubSeq(p, 1, Len(p) - 1) \in DOMAIN f
                 /\ f[SubSeq(p, 1, Len(p) - 1)] = Dir
      <3>1. CASE p \in DOMAIN fs
        BY <1>1, <2>2, <3>1 DEF IsTree
      <3>2. CASE p \in Prefixes(base)
        <4>1. SubSeq(p, 1, Len(p) - 1) \in Prefixes(base)
          BY <2>2, <3>2, PrefixType
        <4>2. QED
          BY <1>2, <4>1
      <3>3. QED
        BY <1>1, <2>2, <3>1, <3>2
    <2>3. QED
      BY <2>2 DEF IsTree
  <1>5. base \in DOMAIN f /\ f[base] = Dir
    BY <1>2, PrefixEnds
  <1>6. FilesOf(f) = FilesOf(fs)
    BY <1>1 DEF FilesOf
  <1>7. AddsDirectories(f, fs, base)
    BY <1>1, <1>3, <1>4, <1>5, <1>6 DEF AddsDirectories
  <1>8. QED
    BY <1>7 DEF f

\* A new entry in a directory.
LEMMA FileAdded ==
    ASSUME NEW f, IsFileSystem(f), IsTree(f), NEW base \in DOMAIN f, f[base] = Dir,
           NEW n \in Names, NEW c \in Contents, Append(base, n) \notin DOMAIN f
    PROVE  AddsFile(With(f, Append(base, n), c), f, Append(base, n))
  <1> DEFINE out == Append(base, n)
             g == With(f, out, c)
  <1>0. base \in Seq(Names)
    BY DEF IsFileSystem
  <1>1. /\ DOMAIN g = DOMAIN f \union {out}
        /\ \A p \in DOMAIN f : g[p] = f[p]
        /\ g[out] = c
    BY DEF With
  <1>2. /\ out \in Seq(Names) /\ out # <<>>
        /\ SubSeq(out, 1, Len(out) - 1) = base
    BY <1>0, FrontOfAppend
  <1> HIDE DEF g, out
  <1>3. IsFileSystem(g)
    BY <1>1, <1>2 DEF IsFileSystem
  <1>4. IsTree(g)
    <2>2. ASSUME NEW p \in DOMAIN g, p # <<>>
          PROVE  /\ SubSeq(p, 1, Len(p) - 1) \in DOMAIN g
                 /\ g[SubSeq(p, 1, Len(p) - 1)] = Dir
      <3>1. CASE p \in DOMAIN f
        BY <1>1, <2>2, <3>1 DEF IsTree
      <3>2. CASE p = out
        BY <1>1, <1>2, <3>2
      <3>3. QED
        BY <1>1, <3>1, <3>2
    <2>3. QED
      BY <2>2 DEF IsTree
  <1>5. FilesOf(g) = FilesOf(f) \union {out}
    <2>1. c # Dir
      BY ContentAssumption
    <2>2. QED
      BY <1>1, <2>1 DEF FilesOf
  <1>6. AddsFile(g, f, out)
    BY <1>1, <1>3, <1>4, <1>5 DEF AddsFile
  <1>7. QED
    BY <1>6 DEF g, out

\* remove() of a file or of an empty directory.
LEMMA EntryRemoved ==
    ASSUME IsFileSystem(fs), IsTree(fs), NEW e \in DOMAIN fs, Listing(e) = {}
    PROVE  \A g : g = Without(fs, {e}) =>
               /\ IsFileSystem(g) /\ IsTree(g)
               /\ DOMAIN g = DOMAIN fs \ {e}
               /\ \A p \in DOMAIN g : g[p] = fs[p]
  <1> TAKE g
  <1> HAVE g = Without(fs, {e})
  <1>1. /\ DOMAIN g = DOMAIN fs \ {e}
        /\ \A p \in DOMAIN g : g[p] = fs[p]
    BY DEF Without
  <1>2. IsFileSystem(g)
    BY <1>1 DEF IsFileSystem
  <1>3. ASSUME NEW p \in DOMAIN fs, p # <<>>, SubSeq(p, 1, Len(p) - 1) = e
        PROVE  FALSE
    <2>1. p \in Seq(Names) /\ Len(p) >= 1
      BY <1>3 DEF IsFileSystem
    <2>2. p = Append(e, p[Len(p)]) /\ p[Len(p)] \in Names
      BY <2>1, <1>3
    <2>3. QED
      BY <2>2 DEF Listing
  <1>4. IsTree(g)
    BY <1>1, <1>3 DEF IsTree
  <1>5. QED
    BY <1>1, <1>2, <1>4

-----------------------------------------------------------------------------
(***************************************************************************)
(* One request                                                             *)
(***************************************************************************)
\* TypeOK, strengthened by what the file system is.
TreeInv == TypeOK /\ IsTree(fs)

Statuses == {Thrown, 200, 201, 204, 301, 302, 307, 403, 404, 405, 409, 411, 413,
             500}

\* What an answer has to be for TypeOK.
Proper(r, status, body) ==
    /\ status \in Statuses
    /\ body \in Contents \union {Dir, None} \/ body \in SUBSET Names

LEMMA AnswerType ==
    ASSUME NEW r \in Requests, NEW status, NEW body, Proper(r, status, body),
           Answer(r, status, body), IsFileSystem(fs'), IsTree(fs'),
           DOMAIN acked' \subseteq RequestedUrls, \A u \in DOMAIN acked' : acked'[u] \in Bodies
    PROVE  TreeInv' /\ answer'.request = r /\ answer'.status = status
  <1>1. /\ answer'.request = r /\ answer'.status = status /\ answer'.body = body
    BY DEF Answer
  <1>2. TypeOK'
    BY <1>1 DEF TypeOK, Proper, Statuses
  <1>3. QED
    BY <1>1, <1>2 DEF TreeInv

\* A request that leaves the file system alone.
LEMMA NothingChanged ==
    ASSUME TreeInv, NEW r \in Requests, NEW status, NEW body, Proper(r, status, body),
           status \notin {201, 204}, Answer(r, status, body), UNCHANGED <<fs, acked>>
    PROVE  TreeInv' /\ ChangeAsAnswered
  <1>1. TreeInv' /\ answer'.status = status
    BY AnswerType DEF TreeInv, TypeOK
  <1>2. ChangeAsAnswered
    BY <1>1 DEF ChangeAsAnswered, FilesOf
  <1>3. QED
    BY <1>1, <1>2

\* A POST that fails after its directories were made.
LEMMA OnlyDirectories ==
    ASSUME TreeInv, NEW r \in Requests, NEW status, status \in {Thrown, 403, 409, 500},
           ~Blocked(Base(r.url)), fs' = WithDirectories(Base(r.url)),
           Answer(r, status, None), UNCHANGED acked
    PROVE  TreeInv' /\ ChangeAsAnswered
  <1>1. /\ IsFileSystem(fs') /\ IsTree(fs')
        /\ DOMAIN fs' = DOMAIN fs \union Prefixes(Base(r.url))
        /\ \A p \in DOMAIN fs : fs'[p] = fs[p]
        /\ FilesOf(fs') = FilesOf(fs)
    <2>1. IsFileSystem(fs) /\ IsTree(fs)
      BY DEF TreeInv, TypeOK
    <2>2. Base(r.url) \in Seq(Names)
      BY RequestPlace
    <2>3. AddsDirectories(fs', fs, Base(r.url))
      BY <2>1, <2>2, DirectoriesMade
    <2>4. QED
      BY <2>3 DEF AddsDirectories
  <1>2. Proper(r, status, None) /\ status \notin {201, 204}
    BY DEF Proper, Statuses, Thrown
  <1>3. TreeInv' /\ answer'.request = r /\ answer'.status = status
    BY <1>1, <1>2, AnswerType DEF TreeInv, TypeOK
  <1>4. ChangeAsAnswered
    BY <1>1, <1>2, <1>3 DEF ChangeAsAnswered, FilesOf
  <1>5. QED
    BY <1>3, <1>4

LEMMA StoreStep ==
    ASSUME TreeInv, NEW r \in Requests, PostStores(r)
    PROVE  TreeInv' /\ ChangeAsAnswered
  <1> DEFINE base == Base(r.url)
             f == WithDirectories(base)
  <1>1. base \in Seq(Names) /\ ~Blocked(base)
    BY RequestPlace DEF PostStores, Prepared
  <1>2. PICK n \in UploadNames(r), content \in Written(r.body) :
            /\ Free(f, PostPath(r.url, n)) /\ Creatable(f, PostPath(r.url, n))
            /\ fs' = With(f, PostPath(r.url, n), content)
    BY DEF PostStores
  <1> DEFINE out == PostPath(r.url, n)
  <1>3. content \in Contents
    BY UrlType DEF Written, Contents
  <1>4. /\ IsFileSystem(f) /\ IsTree(f)
        /\ DOMAIN f = DOMAIN fs \union Prefixes(base)
        /\ \A p \in DOMAIN fs : f[p] = fs[p]
        /\ base \in DOMAIN f /\ f[base] = Dir
        /\ FilesOf(f) = FilesOf(fs)
    <2>1. IsFileSystem(fs) /\ IsTree(fs)
      BY DEF TreeInv, TypeOK
    <2>2. AddsDirectories(f, fs, base)
      BY <1>1, <2>1, DirectoriesMade
    <2> HIDE DEF f, base
    <2>3. QED
      BY <2>2 DEF AddsDirectories
  <1> HIDE DEF f, out
  <1>b. PICK d \in DOMAIN f, m \in Names : f[d] = Dir /\ out = Append(d, m)
    BY <1>2 DEF Creatable, out
  <1>5. out \notin DOMAIN f
    <2>1. d \in Seq(Names)
      BY <1>4 DEF IsFileSystem
    <2>2. out[Len(out)] = m /\ m # Empty
      BY <1>b, <2>1, NameAssumption
    <2>3. Entry(out) = out
      BY <2>2 DEF Entry
    <2>4. QED
      BY <1>2, <2>2, <2>3 DEF Free, Exists, out
  <1>6. /\ IsFileSystem(fs') /\ IsTree(fs')
        /\ DOMAIN fs' = DOMAIN f \union {out}
        /\ \A p \in DOMAIN f : fs'[p] = f[p]
        /\ FilesOf(fs') = FilesOf(f) \union {out}
    <2>1. AddsFile(With(f, out, content), f, out)
      BY <1>3, <1>4, <1>5, <1>b, FileAdded
    <2>2. AddsFile(fs', f, out)
      BY <1>2, <2>1 DEF out
    <2>3. QED
      BY <2>2 DEF AddsFile
  <1>7. DOMAIN acked' \subseteq RequestedUrls /\ \A u \in DOMAIN acked' : acked'[u] \in Bodies
    <2>1. r.url \in RequestedUrls
      BY DEF RequestedUrls
    <2>2. acked' = acked \/ acked' = With(acked, r.url, r.body)
      BY DEF PostStores
    <2>3. QED
      BY <2>1, <2>2, UrlType DEF With, TreeInv, TypeOK
  <1>8. TreeInv' /\ answer'.request = r /\ answer'.status = 201
    <2>1. Answer(r, 201, None) /\ Proper(r, 201, None)
      BY DEF PostStores, Proper, Statuses
    <2>2. QED
      BY <1>6, <1>7, <2>1, AnswerType
  <1>9. out \notin DOMAIN fs
    BY <1>4, <1>5
  <1>10. ChangeAsAnswered
    <2>1. \A p \in FilesOf(fs) \intersect DOMAIN fs' : fs'[p] = fs[p]
      BY <1>4, <1>6 DEF FilesOf
    <2>2. \E p \in FilesOf(fs') : p \notin DOMAIN fs /\ FilesOf(fs') = FilesOf(fs) \union {p}
      BY <1>4, <1>6, <1>9
    <2>3. QED
      BY <1>8, <2>1, <2>2 DEF ChangeAsAnswered
  <1>11. QED
    BY <1>8, <1>10

LEMMA DeleteStep ==
    ASSUME TreeInv, NEW r \in Requests, DeleteRemoves(r)
    PROVE  TreeInv' /\ ChangeAsAnswered
  <1> DEFINE e == Entry(DeletePath(r.url))
  <1>1. /\ e \in DOMAIN fs /\ Listing(e) = {}
        /\ fs' = Without(fs, {e}) /\ Answer(r, 204, None) /\ acked' = Without(acked, Meant(r.url))
    BY DEF DeleteRemoves, Deletes, Exists
  <1> HIDE DEF e
  <1>3. /\ IsFileSystem(fs') /\ IsTree(fs')
        /\ DOMAIN fs' = DOMAIN fs \ {e}
        /\ \A p \in DOMAIN fs' : fs'[p] = fs[p]
    <2>1. IsFileSystem(fs) /\ IsTree(fs)
      BY DEF TreeInv, TypeOK
    <2>2. QED
      BY <1>1, <2>1, EntryRemoved
  <1>4. DOMAIN acked' \subseteq RequestedUrls /\ \A u \in DOMAIN acked' : acked'[u] \in Bodies
    BY <1>1 DEF Without, TreeInv, TypeOK
  <1>5. Proper(r, 204, None)
    BY DEF Proper, Statuses
  <1>6. TreeInv' /\ answer'.request = r /\ answer'.status = 204
    BY <1>1, <1>3, <1>4, <1>5, AnswerType
  <1>7. ChangeAsAnswered
    <2>1. answer'.status = 204
      BY <1>6
    <2>2. \A p \in FilesOf(fs) \intersect DOMAIN fs' : fs'[p] = fs[p]
      BY <1>3
    <2>3. \E p \in DOMAIN fs : DOMAIN fs' = DOMAIN fs \ {p}
      BY <1>1, <1>3
    <2>4. QED
      BY <2>1, <2>2, <2>3 DEF ChangeAsAnswered
  <1>8. QED
    BY <1>6, <1>7

LEMMA GetBodyType ==
    ASSUME TreeInv, NEW r \in Requests, NEW p \in Targets(r.url)
    PROVE  Proper(r, 200, BodyOf(p, IndexName(r.url)))
  <1>1. p \in DOMAIN fs
    BY DEF Targets, Exists, Alternatives
  <1>2. Listing(p) \in SUBSET Names
    BY DEF Listing
  <1>3. IndexName(r.url) \in Listing(p) => Append(p, IndexName(r.url)) \in DOMAIN fs
    BY DEF Listing
  <1>4. \A q \in DOMAIN fs : fs[q] \in Contents \union {Dir}
    BY DEF TreeInv, TypeOK, IsFileSystem
  <1>5. QED
    BY <1>1, <1>2, <1>3, <1>4 DEF Proper, Statuses, BodyOf

LEMMA RequestStep ==
    ASSUME TreeInv, NEW r \in Requests, HandleRequest(r)
    PROVE  TreeInv' /\ ChangeAsAnswered
  <1>1. CASE Redirect(r)
    <2>1. RedirectStatus(r.url) \in {301, 302, 307}
      BY <1>1 DEF Redirect, Redirects, RedirectStatus
    <2>2. Proper(r, RedirectStatus(r.url), None)
      BY <2>1 DEF Proper, Statuses
    <2>3. QED
      BY <1>1, <2>1, <2>2, NothingChanged DEF Redirect
  <1>2. CASE NotAllowed(r)
    <2>1. Proper(r, 405, None)
      BY DEF Proper, Statuses
    <2>2. QED
      BY <1>2, <2>1, NothingChanged DEF NotAllowed
  <1>3. CASE GetFound(r)
    <2>1. PICK p \in Targets(r.url) : Answer(r, 200, BodyOf(p, IndexName(r.url)))
      BY <1>3 DEF GetFound
    <2>2. QED
      BY <1>3, <2>1, GetBodyType, NothingChanged DEF GetFound
  <1>a. CASE GetFails(r)
    <2>1. Proper(r, 500, None)
      BY DEF Proper, Statuses
    <2>2. QED
      BY <1>a, <2>1, NothingChanged DEF GetFails
  <1>b. CASE GetForbidden(r) \/ DeleteForbidden(r)
    <2>1. Proper(r, 403, None)
      BY DEF Proper, Statuses
    <2>2. QED
      BY <1>b, <2>1, NothingChanged DEF GetForbidden, DeleteForbidden
  <1>4. CASE GetMissing(r) \/ DeleteMissing(r)
    <2>1. Proper(r, 404, None)
      BY DEF Proper, Statuses
    <2>2. QED
      BY <1>4, <2>1, NothingChanged DEF GetMissing, DeleteMissing
  <1>5. CASE PostRefused(r)
    <2>1. RefusedLength(r) \in {Thrown, 411, 413}
      BY <1>5 DEF PostRefused, RefusedLength
    <2>2. Proper(r, RefusedLength(r), None) /\ RefusedLength(r) \notin {201, 204}
      BY <2>1 DEF Proper, Statuses, Thrown
    <2>3. QED
      BY <1>5, <2>2, NothingChanged DEF PostRefused
  <1>6. CASE PostBlocked(r)
    <2>1. Proper(r, Thrown, None) /\ Thrown \notin {201, 204}
      BY DEF Proper, Statuses, Thrown
    <2>2. QED
      BY <1>6, <2>1, NothingChanged DEF PostBlocked
  <1>7. CASE PostConflict(r)
    BY <1>7, OnlyDirectories DEF PostConflict, Prepared
  <1>c. CASE PostForbidden(r)
    BY <1>c, OnlyDirectories DEF PostForbidden, Prepared
  <1>8. CASE PostFails(r)
    BY <1>8, OnlyDirectories DEF PostFails, Prepared
  <1>9. CASE PostStores(r)
    BY <1>9, StoreStep
  <1>10. CASE DeleteRemoves(r)
    BY <1>10, DeleteStep
  <1>11. CASE DeleteFails(r)
    <2>1. Proper(r, 500, None)
      BY DEF Proper, Statuses
    <2>2. QED
      BY <1>11, <2>1, NothingChanged DEF DeleteFails
  <1>12. QED
    BY <1>1, <1>2, <1>3, <1>4, <1>5, <1>6, <1>7, <1>8, <1>9, <1>10, <1>11, <1>a, <1>b, <1>c
       DEF HandleRequest

LEMMA NextStep ==
    ASSUME TreeInv, Next
    PROVE  TreeInv' /\ ChangeAsAnswered
  BY RequestStep DEF Next, Routes

LEMMA TreeInvInvariant == Spec => []TreeInv
  <1>1. Init => TreeInv
    BY TreesAssumption DEF Init, TreeInv, TypeOK
  <1>2. TreeInv /\ [Next]_vars => TreeInv'
    <2>1. TreeInv /\ UNCHANGED vars => TreeInv'
      BY DEF vars, TreeInv, TypeOK
    <2>2. QED
      BY <2>1, NextStep
  <1>3. QED
    BY <1>1, <1>2, PTL DEF Spec

-----------------------------------------------------------------------------
(***************************************************************************)
(* Theorems                                                                *)
(***************************************************************************)
\* Every path the handlers compose is a path of names, every file holds the
\* body of a request or what was left of it.
THEOREM RouterTypeCorrect == Spec => []TypeOK
  <1>1. TreeInv => TypeOK
    BY DEF TreeInv
  <1>2. QED
    BY <1>1, TreeInvInvariant, PTL

\* The files change exactly as the status tells the client: no handler
\* overwrites, loses or leaves behind a file.
THEOREM ChangesCorrect == Spec => ChangesAsAnswered
  <1>1. TreeInv /\ [Next]_vars => [ChangeAsAnswered]_vars
    BY NextStep
  <1>2. QED
    BY <1>1, TreeInvInvariant, PTL DEF Spec, ChangesAsAnswered

-----------------------------------------------------------------------------
(***************************************************************************)
(* Uploads are served                                                      *)
(***************************************************************************)
\* What the theorem asks of the configuration and the clients: "/uploads"
\* is one place, its uploads go to "uploads" in its root, and clients post to
\* "/uploads/" and a name, as the upload page does.
UploadsAtHome ==
    \A r \in Requests : r.url[1] = "uploads" =>
        /\ Base(r.url) = Docroot(r.url) \o <<"uploads">>
        /\ \A q \in Requests : q.url[1] = "uploads" => Docroot(q.url) = Docroot(r.url)
        /\ r.method = "POST" => Len(r.url) = 2

\* The file of an acknowledged url is where its name says.
InPlace(u) ==
    \E n \in Names :
        /\ u = <<"uploads", n>>
        /\ Append(Base(u), n) \in DOMAIN fs
        /\ fs[Append(Base(u), n)] \in Written(acked[u])

ServedInv == \A u \in DOMAIN acked : InPlace(u)

LEMMA WrittenType ==
    ASSUME NEW b \in Bodies, NEW c \in Written(b)
    PROVE  c \in Contents /\ c # Dir
  BY ContentAssumption DEF Written, Contents

\* GET finds an upload under the name that POST stored it under.
LEMMA PathOfUpload ==
    ASSUME UploadsAtHome, NEW r \in Requests, NEW n \in Names, r.url = <<"uploads", n>>
    PROVE  /\ GetPath(r.url) = Append(Base(r.url), n)
           /\ GetPath(r.url)[Len(GetPath(r.url))] = n
           /\ GetAllowed(r.url) /\ ~Contains(r.url, Up)
  <1> DEFINE root == Docroot(r.url)
             S == Names \union {Empty}
  <1>1. root \in Seq(Names) /\ root # <<>> /\ "uploads" \in Names
    BY RequestPlace, NameAssumption
  <1>2. Base(r.url) = root \o <<"uploads">>
    BY DEF UploadsAtHome
  <1>3. <<"uploads", n>> \in Seq(S) /\ root \in Seq(S)
    BY <1>1
  <1> HIDE DEF root
  <1>4. root \o <<"uploads", n>> \in Seq(S)
    BY <1>3
  <1>5. /\ root \o <<"uploads", n>> = Append(root \o <<"uploads">>, n)
        /\ (root \o <<"uploads", n>>)[Len(root \o <<"uploads", n>>)] = n
    BY <1>1, TwoBehind
  <1>6. Canonical(root \o <<"uploads", n>>) = root \o <<"uploads", n>>
    BY <1>4, PlainPath
  <1>7. ~Contains(r.url, Up)
    BY <1>3, PlainPath
  <1>8. GetPath(r.url) = root \o <<"uploads", n>>
    BY <1>6 DEF GetPath, root
  <1> HIDE DEF S
  <1>9. Covers(root, root \o <<"uploads", n>>)
    BY <1>1, <1>3, CoversOwn
  <1>10. QED
    BY <1>2, <1>5, <1>7, <1>8, <1>9 DEF GetAllowed, root

LEMMA ServedInvServes ==
    ASSUME UploadsAtHome, TreeInv, ServedInv
    PROVE  UploadServed
  <1> SUFFICES ASSUME NEW u \in DOMAIN acked
               PROVE  /\ Targets(u) # {}
                      /\ \A p \in Targets(u) : BodyOf(p, IndexName(u)) \in Written(acked[u])
    BY DEF UploadServed
  <1>1. PICK r \in Requests : r.url = u
    BY DEF TreeInv, TypeOK, RequestedUrls
  <1>2. PICK n \in Names : /\ u = <<"uploads", n>>
                           /\ Append(Base(u), n) \in DOMAIN fs
                           /\ fs[Append(Base(u), n)] \in Written(acked[u])
    BY DEF ServedInv, InPlace
  <1>3. acked[u] \in Bodies
    BY DEF TreeInv, TypeOK
  <1> DEFINE path == GetPath(u)
  <1>6. path = Append(Base(u), n) /\ path[Len(path)] = n /\ GetAllowed(u)
    BY <1>1, <1>2, PathOfUpload
  <1> HIDE DEF path
  <1>7. n # Empty
    BY NameAssumption
  <1>8. Entry(path) = path /\ Exists(fs, path)
    BY <1>2, <1>6, <1>7 DEF Entry, Exists
  <1>9. Targets(u) = {path}
    BY <1>6, <1>8 DEF Targets, path
  <1>10. fs[path] # Dir /\ fs[path] \in Written(acked[u])
    BY <1>2, <1>3, <1>6, WrittenType
  <1>11. QED
    BY <1>9, <1>10 DEF BodyOf

LEMMA ServedKept ==
    ASSUME TreeInv, ServedInv, ChangeAsAnswered, answer'.status # 204, NEW u \in DOMAIN acked,
           acked'[u] = acked[u]
    PROVE  InPlace(u)'
  <1>1. PICK n \in Names : /\ u = <<"uploads", n>>
                           /\ Append(Base(u), n) \in DOMAIN fs
                           /\ fs[Append(Base(u), n)] \in Written(acked[u])
    BY DEF ServedInv, InPlace
  <1> DEFINE p == Append(Base(u), n)
  <1>2. p \in FilesOf(fs)
    <2>1. acked[u] \in Bodies
      BY DEF TreeInv, TypeOK
    <2>2. QED
      BY <1>1, <2>1, WrittenType DEF FilesOf
  <1> HIDE DEF p
  <1>3. p \in DOMAIN fs'
    BY <1>2 DEF ChangeAsAnswered, FilesOf
  <1>4. fs'[p] = fs[p]
    BY <1>2, <1>3 DEF ChangeAsAnswered
  <1>5. QED
    BY <1>1, <1>3, <1>4 DEF InPlace, p

LEMMA ServedAfterStore ==
    ASSUME UploadsAtHome, TreeInv, ServedInv, NEW r \in Requests, PostStores(r)
    PROVE  ServedInv'
  <1>1. ChangeAsAnswered /\ answer'.status = 201
    BY StoreStep DEF PostStores, Answer
  <1>2. r.url[1] = "uploads" /\ r.method = "POST"
    BY DEF PostStores, Prepared, Routed, IsMethodAllowed
  <1>3. Len(r.url) = 2 /\ r.url \in Seq(Names \union {Up, Empty})
    BY <1>2, UrlType DEF UploadsAtHome
  <1>4. CASE r.url[2] \notin Names
    <2>1. acked' = acked
      BY <1>3, <1>4 DEF PostStores, ExtractNameFromPath
    <2>2. QED
      BY <1>1, <2>1, ServedKept DEF ServedInv
  <1>5. CASE r.url[2] \in Names
    <2> DEFINE n == r.url[2]
               out == Append(Base(r.url), n)
    <2>1. n \in Names /\ r.url = <<"uploads", n>>
      BY <1>2, <1>3, <1>5
    <2>a. ExtractNameFromPath(r.url) = n /\ n # Empty
      BY <1>3, <2>1, NameAssumption DEF ExtractNameFromPath
    <2>2. acked' = With(acked, r.url, r.body)
      BY <2>a DEF PostStores
    <2>b. UploadNames(r) = {<<n>>}
      BY <2>a, NameOfUrl
    <2>c. PostPath(r.url, <<n>>) = out
      BY <2>1, NamedUpload
    <2>3. PICK content \in Written(r.body) :
              fs' = With(WithDirectories(Base(r.url)), out, content)
      BY <2>b, <2>c DEF PostStores
    <2>4. out \in DOMAIN fs' /\ fs'[out] = content
      BY <2>3 DEF With
    <2>5. /\ DOMAIN acked' = DOMAIN acked \union {r.url} /\ acked'[r.url] = r.body
          /\ \A u \in DOMAIN acked : u # r.url => acked'[u] = acked[u]
      BY <2>2 DEF With
    <2>6. InPlace(r.url)'
      BY <2>1, <2>3, <2>4, <2>5 DEF InPlace
    <2>7. ASSUME NEW u \in DOMAIN acked, u # r.url PROVE InPlace(u)'
      BY <1>1, <2>5, <2>7, ServedKept
    <2>8. QED
      BY <2>5, <2>6, <2>7 DEF ServedInv
  <1>6. QED
    BY <1>4, <1>5

LEMMA ServedAfterDelete ==
    ASSUME UploadsAtHome, TreeInv, ServedInv, NEW r \in Requests, DeleteRemoves(r)
    PROVE  ServedInv'
  <1> DEFINE e == Entry(DeletePath(r.url))
  <1>1. /\ fs' = Without(fs, {e}) /\ acked' = Without(acked, Meant(r.url))
        /\ Exists(fs, DeletePath(r.url)) /\ Len(r.url) > 1
    BY DEF DeleteRemoves, Deletes
  <1>2. r.url[1] = "uploads"
    BY DEF DeleteRemoves, Deletes, Routed, IsMethodAllowed
  <1>3. r.url \in Seq(Names \union {Up, Empty})
    BY UrlType
  <1> SUFFICES ASSUME NEW u \in DOMAIN acked, u \notin Meant(r.url) PROVE InPlace(u)'
    BY <1>1 DEF ServedInv, Without
  <1>4. PICK n \in Names : /\ u = <<"uploads", n>>
                           /\ Append(Base(u), n) \in DOMAIN fs
                           /\ fs[Append(Base(u), n)] \in Written(acked[u])
    BY DEF ServedInv, InPlace
  <1> DEFINE p == Append(Base(u), n)
  <1>5. fs[p] # Dir
    <2>1. acked[u] \in Bodies
      BY DEF TreeInv, TypeOK
    <2>2. QED
      BY <1>4, <2>1, WrittenType
  <1>a. PICK q \in Requests : q.url = u
    BY DEF TreeInv, TypeOK, RequestedUrls
  <1>6. Base(r.url) = Base(u)
    <2>1. u[1] = "uploads"
      BY <1>4
    <2>2. QED
      BY <1>2, <1>a, <2>1 DEF UploadsAtHome
  <1>7. Base(u) \in Seq(Names)
    BY <1>6, RequestPlace
  <1> DEFINE path == DeletePath(r.url)
             base == Base(u)
  <1>9. p # e
    <2>a. CASE Contains(r.url, Up)
      <3>1. GetPath(u) = p
        BY <1>4, <1>a, PathOfUpload
      <3>2. QED
        BY <2>a, <3>1 DEF Meant
    <2>1. CASE path[Len(path)] = Empty
      BY <1>1, <1>5, <2>1 DEF Exists
    <2>2. CASE path[Len(path)] # Empty /\ ~Contains(r.url, Up)
      <3>a. path = base \o Tail(r.url)
        BY <1>1, <1>6, <2>2, PlainDelete
      <3>1. e = base \o Tail(r.url)
        BY <2>2, <3>a DEF Entry
      <3>2. p = base \o <<n>>
        BY <1>4, <1>7
      <3> HIDE DEF e, p, base
      <3>3. SUFFICES ASSUME base \o <<n>> = base \o Tail(r.url) PROVE FALSE
        BY <3>1, <3>2
      <3>4. base \in Seq(Names)
        BY <1>7 DEF base
      <3>5. Tail(r.url) \in Seq(Names \union {Empty}) /\ Len(Tail(r.url)) = Len(r.url) - 1
        BY <1>1, <2>2, PlainUrl
      <3>6. base \in Seq(Names \union {Empty})
        BY <3>4
      <3>7. Len(Tail(r.url)) = 1 /\ Tail(r.url)[1] = n
        <4> DEFINE t == Tail(r.url)
                   S == Names \union {Empty}
        <4>1. t \in Seq(S) /\ base \in Seq(S) /\ n \in S /\ base \o <<n>> = base \o t
          BY <3>3, <3>5, <3>6
        <4> HIDE DEF t, S
        <4>2. Len(t) = 1 /\ t[1] = n
          BY <4>1, OneBehind
        <4>3. QED
          BY <4>2 DEF t
      <3>8. r.url = <<"uploads", n>>
        BY <1>1, <1>2, <1>3, <3>5, <3>7
      <3>9. QED
        BY <1>4, <3>8 DEF Meant
    <2>3. QED
      BY <2>1, <2>2, <2>a
  <1> HIDE DEF p, e
  <1>10. p \in DOMAIN fs' /\ fs'[p] = fs[p]
    BY <1>1, <1>4, <1>9 DEF Without, p
  <1>11. acked'[u] = acked[u]
    BY <1>1 DEF Without
  <1>12. QED
    BY <1>4, <1>10, <1>11 DEF InPlace, p

\* An upload that was acknowledged is what a GET of its url yields, until a
\* DELETE of that url, for every history of requests.
THEOREM UploadsServed ==
    ASSUME UploadsAtHome
    PROVE  Spec => []UploadServed
  <1>1. Init => ServedInv
    BY DEF Init, ServedInv
  <1>2. TreeInv /\ ServedInv /\ [Next]_vars => ServedInv'
    <2> SUFFICES ASSUME TreeInv, ServedInv, [Next]_vars PROVE ServedInv'
      OBVIOUS
    <2>1. CASE UNCHANGED <<fs, acked>>
      BY <2>1 DEF ServedInv, InPlace
    <2>2. CASE UNCHANGED vars
      BY <2>1, <2>2 DEF vars
    <2>3. ASSUME NEW r \in Requests, HandleRequest(r) PROVE ServedInv'
      <3>1. CASE PostForbidden(r) \/ PostConflict(r) \/ PostFails(r)
        <4>1. acked' = acked /\ answer'.status # 204
          BY <3>1 DEF PostForbidden, PostConflict, PostFails, Answer, Thrown
        <4>2. ChangeAsAnswered
          BY <2>3, RequestStep
        <4>3. QED
          BY <4>1, <4>2, ServedKept DEF ServedInv
      <3>2. CASE PostStores(r)
        BY <3>2, ServedAfterStore
      <3>3. CASE DeleteRemoves(r)
        BY <3>3, ServedAfterDelete
      <3>4. QED
        BY <2>1, <2>3, <3>1, <3>2, <3>3
           DEF HandleRequest, Redirect, NotAllowed, GetForbidden, GetFound, GetFails,
               GetMissing, PostRefused, PostBlocked, DeleteForbidden, DeleteMissing,
               DeleteFails
    <2>4. QED
      BY <2>2, <2>3 DEF Next, Routes
  <1>3. TreeInv /\ ServedInv => UploadServed
    BY ServedInvServes
  <1>4. QED
    BY <1>1, <1>2, <1>3, TreeInvInvariant, PTL DEF Spec

-----------------------------------------------------------------------------
(***************************************************************************)
(* The Router is a store of uploads                                        *)
(***************************************************************************)
\* GET looks for every upload in the root that posts to "/uploads/" have.
UploadsTogether ==
    \A r \in Requests, u \in UploadUrls :
        r.url[1] = "uploads" => Place(u).docroot = Docroot(r.url)

\* What the Router stands for as a store.
Uploads == [u \in Stored |-> fs[FileOf[u]]]

\* The file of an upload is below the directory that posts and deletes of it use.
LEMMA UploadFile ==
    ASSUME UploadsAtHome, UploadsTogether, NEW r \in Requests, r.url[1] = "uploads",
           NEW n \in Names
    PROVE  /\ <<"uploads", n>> \in UploadUrls
           /\ FileOf[<<"uploads", n>>] = Docroot(r.url) \o <<"uploads", n>>
           /\ FileOf[<<"uploads", n>>] = Append(Base(r.url), n)
  <1> DEFINE root == Docroot(r.url)
             u == <<"uploads", n>>
  <1>1. u \in UploadUrls
    BY DEF UploadUrls
  <1>2. root \in Seq(Names) /\ "uploads" \in Names
    BY RequestPlace, NameAssumption
  <1>3. Base(r.url) = root \o <<"uploads">>
    BY DEF UploadsAtHome
  <1>4. FileOf[u] = root \o u
    BY <1>1 DEF FileOf, UploadsTogether
  <1> HIDE DEF root
  <1>5. root \o <<"uploads", n>> = Append(root \o <<"uploads">>, n)
    BY <1>2, TwoBehind
  <1>6. QED
    BY <1>1, <1>3, <1>4, <1>5 DEF root

\* Two uploads are never one file.
LEMMA UploadFilesDiffer ==
    ASSUME UploadsAtHome, UploadsTogether, NEW r \in Requests, r.url[1] = "uploads",
           NEW u \in UploadUrls, NEW v \in UploadUrls, FileOf[u] = FileOf[v]
    PROVE  u = v
  <1>1. PICK n \in Names, m \in Names : u = <<"uploads", n>> /\ v = <<"uploads", m>>
    BY DEF UploadUrls
  <1>2. Append(Base(r.url), n) = Append(Base(r.url), m)
    BY <1>1, UploadFile
  <1>3. Base(r.url) \in Seq(Names)
    BY RequestPlace
  <1>4. n = m
    BY <1>2, <1>3
  <1>5. QED
    BY <1>1, <1>4

\* A request after which the files are what they were.
LEMMA StoreKept ==
    ASSUME FilesOf(fs') = FilesOf(fs), \A p \in FilesOf(fs) : fs'[p] = fs[p]
    PROVE  Uploads' = Uploads
  <1>1. Stored' = Stored
    BY DEF Stored
  <1>2. \A u \in Stored : fs'[FileOf[u]] = fs[FileOf[u]]
    BY DEF Stored
  <1>3. QED
    BY <1>1, <1>2 DEF Uploads

\* A url under which something is stored is the url of a file.
LEMMA StoredUrl ==
    ASSUME UploadsAtHome, UploadsTogether, NEW r \in Requests, r.url \in Stored
    PROVE  \E n \in Names :
               /\ r.url = <<"uploads", n>> /\ r.url[1] = "uploads" /\ n # Empty
               /\ FileOf[r.url] = Append(Base(r.url), n)
               /\ FileOf[r.url] \in FilesOf(fs)
  <1>1. PICK n \in Names : r.url = <<"uploads", n>>
    BY DEF Stored, UploadUrls
  <1>2. r.url[1] = "uploads" /\ n # Empty
    BY <1>1, NameAssumption
  <1>3. FileOf[r.url] = Append(Base(r.url), n)
    BY <1>1, <1>2, UploadFile
  <1>4. QED
    BY <1>1, <1>2, <1>3 DEF Stored

\* An answer that promises nothing.
LEMMA IsNothing ==
    ASSUME TreeInv, NEW r \in Requests, HandleRequest(r),
           answer'.request = r, answer'.status \notin {201, 204},
           r.url \in Stored => \/ r.method = "POST"
                               \/ r.method = "GET" /\ answer'.status = 500
    PROVE  Store!Nothing
  <1>1. ChangeAsAnswered
    BY RequestStep
  <1>2. FilesOf(fs') = FilesOf(fs) /\ \A p \in FilesOf(fs) : fs'[p] = fs[p]
    BY <1>1 DEF ChangeAsAnswered, FilesOf
  <1>3. Uploads' = Uploads
    BY <1>2, StoreKept
  <1>4. DOMAIN Uploads = Stored
    BY DEF Uploads
  <1>5. QED
    BY <1>3, <1>4 DEF Store!Nothing, Store!Asked, Uploads

\* GET yields what is stored.
LEMMA IsGet ==
    ASSUME UploadsAtHome, UploadsTogether, TreeInv, NEW r \in Requests, HandleRequest(r),
           r.method = "GET", answer'.request = r, r.url \in Stored, answer'.status # 500
    PROVE  Store!Get
  <1>1. PICK n \in Names :
            /\ r.url = <<"uploads", n>> /\ r.url[1] = "uploads" /\ n # Empty
            /\ FileOf[r.url] = Append(Base(r.url), n)
            /\ FileOf[r.url] \in FilesOf(fs)
    BY StoredUrl
  <1> DEFINE path == GetPath(r.url)
  <1>2. /\ path = FileOf[r.url] /\ path[Len(path)] = n
        /\ GetAllowed(r.url)
    <2>1. r.url = <<"uploads", n>>
      BY <1>1
    <2>2. /\ GetPath(r.url) = Append(Base(r.url), n)
          /\ GetPath(r.url)[Len(GetPath(r.url))] = n
          /\ GetAllowed(r.url)
      BY <2>1, PathOfUpload
    <2>3. QED
      BY <1>1, <2>2
  <1> HIDE DEF path
  <1>3. Entry(path) = path /\ Exists(fs, path) /\ fs[path] # Dir
    BY <1>1, <1>2 DEF Entry, Exists, FilesOf
  <1>4. Targets(r.url) = {path}
    BY <1>2, <1>3 DEF Targets, path
  <1>5. r.url \notin Redirects
    BY <1>1 DEF Redirects
  <1>6. GetFound(r) \/ GetFails(r)
    BY <1>1, <1>2, <1>4, <1>5
       DEF HandleRequest, Redirect, NotAllowed, GetForbidden, GetMissing, PostRefused,
           PostBlocked, PostForbidden, PostConflict, PostFails, PostStores, Prepared,
           DeleteForbidden, DeleteMissing, DeleteRemoves, DeleteFails, Deletes, Routed,
           IsMethodAllowed
  <1>7. GetFound(r)
    BY <1>6 DEF GetFails, Answer
  <1>8. answer'.status = 200 /\ answer'.body = fs[path] /\ UNCHANGED fs
    BY <1>3, <1>4, <1>7 DEF GetFound, Answer, BodyOf
  <1>9. Uploads' = Uploads
    BY <1>8, StoreKept
  <1>10. r.url \in DOMAIN Uploads /\ Uploads[r.url] = fs[path]
    BY <1>2 DEF Uploads
  <1>11. QED
    BY <1>8, <1>9, <1>10 DEF Store!Get, Store!Asked, Uploads

\* POST takes a url that is free, the one it names if it names one.
LEMMA IsPut ==
    ASSUME UploadsAtHome, UploadsTogether, TreeInv, NEW r \in Requests, PostStores(r)
    PROVE  Store!Put \/ Store!PutElsewhere
  <1>1. ChangeAsAnswered /\ answer'.status = 201 /\ answer'.request = r
    BY StoreStep DEF PostStores, Answer
  <1>2. r.url[1] = "uploads" /\ r.method = "POST"
    BY DEF PostStores, Prepared, Routed, IsMethodAllowed
  <1>3. r.body \in Bodies
    BY UrlType
  <1> DEFINE made == WithDirectories(Base(r.url))
  <1>4. PICK n \in UploadNames(r), content \in Written(r.body) :
            /\ Free(made, PostPath(r.url, n)) /\ Creatable(made, PostPath(r.url, n))
            /\ fs' = With(made, PostPath(r.url, n), content)
    BY DEF PostStores
  <1> DEFINE out == PostPath(r.url, n)
  <1>5. content # Dir /\ out \in FilesOf(fs') /\ fs'[out] = content
    BY <1>3, <1>4, WrittenType DEF With, FilesOf
  <1>6. out \notin DOMAIN fs
    <2>1. PICK p \in FilesOf(fs') : p \notin DOMAIN fs /\ FilesOf(fs') = FilesOf(fs) \union {p}
      BY <1>1 DEF ChangeAsAnswered
    <2>2. CASE p = out
      BY <2>1, <2>2
    <2>3. CASE p # out
      <3>1. out \in FilesOf(fs)
        BY <1>5, <2>1, <2>3
      <3>2. PICK d \in DOMAIN made, m \in Names : made[d] = Dir /\ out = Append(d, m)
        BY <1>4 DEF Creatable
      <3>3. out \in DOMAIN made /\ d \in Seq(Names)
        <4>1. IsFileSystem(fs) /\ IsTree(fs) /\ ~Blocked(Base(r.url))
          BY DEF TreeInv, TypeOK, PostStores, Prepared
        <4>2. AddsDirectories(made, fs, Base(r.url))
          BY <4>1, RequestPlace, DirectoriesMade
        <4> HIDE DEF made, out
        <4>3. QED
          BY <3>1, <4>2 DEF AddsDirectories, IsFileSystem, FilesOf
      <3> HIDE DEF made
      <3>4. out[Len(out)] = m /\ m # Empty
        BY <3>2, <3>3, NameAssumption
      <3>5. Exists(made, out)
        BY <3>3, <3>4 DEF Exists, Entry
      <3>6. QED
        BY <1>4, <3>5 DEF Free
    <2>4. QED
      BY <2>2, <2>3
  <1> HIDE DEF out, made
  <1>7. FilesOf(fs') = FilesOf(fs) \union {out} /\ \A p \in FilesOf(fs) : fs'[p] = fs[p]
    <2>1. PICK p \in FilesOf(fs') : p \notin DOMAIN fs /\ FilesOf(fs') = FilesOf(fs) \union {p}
      BY <1>1 DEF ChangeAsAnswered
    <2>2. p = out
      BY <1>5, <1>6, <2>1 DEF FilesOf
    <2>3. QED
      BY <1>1, <2>1, <2>2 DEF ChangeAsAnswered, FilesOf
  <1>8. \A v \in Stored : fs'[FileOf[v]] = fs[FileOf[v]]
    BY <1>7 DEF Stored
  <1>9. DOMAIN Uploads = Stored
    BY DEF Uploads
  <1>10. ASSUME NEW m \in Names, r.url = <<"uploads", m>>
         PROVE  FileOf[r.url] = out
    <2>1. ExtractNameFromPath(r.url) = m /\ m # Empty
      BY <1>10, NameAssumption DEF ExtractNameFromPath
    <2>2. n = <<m>>
      BY <1>4, <2>1, NameOfUrl
    <2>3. out = Append(Base(r.url), m)
      BY <2>2, NamedUpload DEF out
    <2>4. QED
      BY <1>2, <1>10, <2>3, UploadFile
  <1>11. CASE \E u \in UploadUrls : FileOf[u] = out
    <2>1. PICK u \in UploadUrls : FileOf[u] = out
      BY <1>11
    <2>2. \A v \in UploadUrls : FileOf[v] = out => v = u
      BY <1>2, <2>1, UploadFilesDiffer
    <2>3. u \in UploadUrls \ Stored
      BY <1>6, <2>1 DEF Stored, FilesOf
    <2>4. Stored' = Stored \union {u}
      BY <1>7, <2>1, <2>2 DEF Stored
    <2>5. Uploads' = [v \in Stored \union {u} |-> IF v = u THEN content ELSE Uploads[v]]
      BY <1>5, <1>8, <2>1, <2>3, <2>4 DEF Uploads
    <2>6. r.url \in UploadUrls => u = r.url
      BY <1>10, <2>2 DEF UploadUrls
    <2>7. content \in {r.body} \union {c \in {Cut} : "full" \in Faults}
      BY <1>4 DEF Written
    <2>8. \E v \in UploadUrls \ DOMAIN Uploads,
              b \in {r.body} \union {c \in {Cut} : "full" \in Faults} :
              /\ r.url \in UploadUrls => v = r.url
              /\ Uploads' = [w \in DOMAIN Uploads \union {v} |-> IF w = v THEN b ELSE Uploads[w]]
      BY <1>9, <2>3, <2>5, <2>6, <2>7
    <2>9. QED
      BY <1>1, <1>2, <2>8 DEF Store!Put, Store!Asked, Uploads
  <1>12. CASE ~\E u \in UploadUrls : FileOf[u] = out
    <2>1. r.url \notin UploadUrls
      BY <1>10, <1>12 DEF UploadUrls
    <2>2. Stored' = Stored
      BY <1>7, <1>12 DEF Stored
    <2>3. Uploads' = Uploads
      BY <1>8, <2>2 DEF Uploads
    <2>4. ~\E m \in Names : n = <<m>>
      <3> SUFFICES ASSUME NEW m \in Names, n = <<m>> PROVE FALSE
        OBVIOUS
      <3>1. out = Append(Base(r.url), m)
        BY NamedUpload DEF out
      <3>2. QED
        BY <1>2, <1>12, <3>1, UploadFile
    <2>5. r.filename \notin {<<>>} \union {<<m>> : m \in Names}
      <3>1. n \in {<<ExtractNameFromPath(r.url)>>} \ {<<Empty>>} => n[1] \in Names
        <4>1. r.url \in Seq(Names \union {Up, Empty}) /\ Len(r.url) \in Nat \ {0}
          BY UrlType
        <4>2. r.url[Len(r.url)] \in Names \union {Up, Empty}
          BY <4>1
        <4>3. ExtractNameFromPath(r.url) \in Names \union {Empty}
          BY <4>2 DEF ExtractNameFromPath
        <4>4. QED
          BY <4>3
      <3>2. n \notin {<<ExtractNameFromPath(r.url)>>} \ {<<Empty>>}
        BY <2>4, <3>1
      <3>3. n \in {ExtractFilename(r)} \ {<<>>} \/ (ExtractFilename(r) = <<>> /\ n \in {<<t>> : t \in Stamps})
        BY <1>4, <3>2 DEF UploadNames
      <3>4. n = ExtractFilename(r) /\ n # <<>>
        BY <2>4, <3>3, NamingAssumption
      <3>5. CASE r.filename = <<>>
        BY <3>4, <3>5 DEF ExtractFilename
      <3>6. ASSUME NEW m \in Names, r.filename = <<m>> PROVE FALSE
        <4>1. n = <<Lower[m]>>
          BY <3>4, <3>6 DEF ExtractFilename
        <4>2. QED
          BY <2>4, <4>1, NamingAssumption
      <3>7. QED
        BY <3>5, <3>6
    <2>6. QED
      BY <1>1, <1>2, <2>1, <2>3, <2>5 DEF Store!PutElsewhere, Store!Asked, Uploads
  <1>13. QED
    BY <1>11, <1>12

\* DELETE without ".." removes the upload it names and no other.
LEMMA IsPlainDelete ==
    ASSUME UploadsAtHome, UploadsTogether, TreeInv, NEW r \in Requests, DeleteRemoves(r),
           ~Contains(r.url, Up)
    PROVE  Store!Delete
  <1> DEFINE path == DeletePath(r.url)
             e == Entry(path)
             base == Base(r.url)
  <1>1. /\ fs' = Without(fs, {e}) /\ Exists(fs, path) /\ Len(r.url) > 1
        /\ r.method = "DELETE" /\ answer'.status = 204 /\ answer'.request = r
    BY DEF DeleteRemoves, Deletes, Routed, Answer
  <1>2. r.url[1] = "uploads"
    BY DEF DeleteRemoves, Deletes, Routed, IsMethodAllowed
  <1>3. r.url \in Seq(Names \union {Empty}) /\ base \in Seq(Names)
    BY PlainUrl, RequestPlace
  <1>a. path = base \o Tail(r.url)
    BY <1>1, PlainDelete
  <1>4. ASSUME r.url \in UploadUrls PROVE e = FileOf[r.url]
    <2>1. PICK n \in Names : r.url = <<"uploads", n>>
      BY <1>4 DEF UploadUrls
    <2>2. FileOf[r.url] = Append(base, n)
      BY <1>2, <2>1, UploadFile
    <2>3. Tail(r.url) = <<n>>
      BY <2>1
    <2>4. path = Append(base, n)
      <3>1. path = base \o <<n>>
        BY <1>a, <2>3
      <3> HIDE DEF path, base
      <3>2. base \in Seq(Names)
        BY <1>3 DEF base
      <3>3. QED
        BY <3>1, <3>2
    <2>5. path[Len(path)] = n /\ n # Empty
      BY <1>3, <2>4, NameAssumption
    <2>6. QED
      BY <2>2, <2>4, <2>5 DEF Entry
  <1>5. ASSUME NEW v \in Stored, e = FileOf[v] PROVE v = r.url
    <2>1. PICK n \in Names : v = <<"uploads", n>>
      BY DEF Stored, UploadUrls
    <2>2. e = Append(base, n)
      BY <1>2, <1>5, <2>1, UploadFile
    <2>3. path[Len(path)] # Empty
      BY <1>1, <1>5 DEF Exists, Stored, FilesOf
    <2>4. e = base \o Tail(r.url)
      BY <1>a, <2>3 DEF Entry
    <2>5. base \o <<n>> = base \o Tail(r.url)
      <3> HIDE DEF e, base
      <3>1. base \in Seq(Names)
        BY <1>3 DEF base
      <3>2. Append(base, n) = base \o <<n>>
        BY <3>1
      <3>3. QED
        BY <2>2, <2>4, <3>2
    <2>6. Tail(r.url) \in Seq(Names \union {Empty}) /\ Len(Tail(r.url)) = Len(r.url) - 1
      BY <1>1, <1>3
    <2>7. Len(Tail(r.url)) = 1 /\ Tail(r.url)[1] = n
      <3> DEFINE t == Tail(r.url)
                 S == Names \union {Empty}
      <3>1. t \in Seq(S) /\ n \in S /\ base \o <<n>> = base \o t
        BY <2>5, <2>6
      <3> HIDE DEF t, base
      <3>a. base \in Seq(Names)
        BY <1>3 DEF base
      <3>b. base \in Seq(S)
        BY <3>a
      <3> HIDE DEF S
      <3>2. Len(t) = 1 /\ t[1] = n
        BY <3>1, <3>b, OneBehind
      <3>3. QED
        BY <3>2 DEF t
    <2>8. QED
      BY <1>1, <1>2, <1>3, <2>1, <2>6, <2>7
  <1> HIDE DEF e
  <1>6. DOMAIN fs' = DOMAIN fs \ {e} /\ \A p \in DOMAIN fs' : fs'[p] = fs[p]
    BY <1>1 DEF Without
  <1>7. Stored' = Stored \ {r.url}
    <2>1. \A v \in Stored' : v \in Stored /\ v # r.url
      BY <1>4, <1>6 DEF Stored, FilesOf
    <2>2. \A v \in Stored \ {r.url} : v \in Stored'
      BY <1>5, <1>6 DEF Stored, FilesOf
    <2>3. Stored' \subseteq UploadUrls /\ Stored \subseteq UploadUrls
      BY DEF Stored
    <2>4. QED
      BY <2>1, <2>2
  <1>8. \A v \in Stored' : fs'[FileOf[v]] = fs[FileOf[v]]
    BY <1>6 DEF Stored, FilesOf
  <1>9. Uploads' = [v \in DOMAIN Uploads \ {r.url} |-> Uploads[v]]
    BY <1>7, <1>8 DEF Uploads
  <1>10. QED
    BY <1>1, <1>9 DEF Store!Delete, Store!Asked, Uploads

\* With ".." it removes what that url means.
LEMMA IsDelete ==
    ASSUME UploadsAtHome, UploadsTogether, TreeInv, NEW r \in Requests, DeleteRemoves(r)
    PROVE  Store!Delete
  <1>1. CASE ~Contains(r.url, Up)
    BY <1>1, IsPlainDelete
  <1>2. CASE Contains(r.url, Up)
    <2> DEFINE e == Entry(DeletePath(r.url))
    <2>1. /\ fs' = Without(fs, {e})
          /\ r.method = "DELETE" /\ answer'.status = 204 /\ answer'.request = r
      BY DEF DeleteRemoves, Deletes, Routed, Answer
    <2>2. r.url[1] = "uploads"
      BY DEF DeleteRemoves, Deletes, Routed, IsMethodAllowed
    <2> HIDE DEF e
    <2>3. DOMAIN fs' = DOMAIN fs \ {e} /\ \A p \in DOMAIN fs' : fs'[p] = fs[p]
      BY <2>1 DEF Without
    <2>4. \A v \in Stored' : v \in Stored /\ fs'[FileOf[v]] = fs[FileOf[v]]
      BY <2>3 DEF Stored, FilesOf
    <2>5. \A v \in Stored : FileOf[v] # e => v \in Stored'
      BY <2>3 DEF Stored, FilesOf
    <2>6. \A v \in Stored' : FileOf[v] # e
      BY <2>3 DEF Stored, FilesOf
    <2>7. DOMAIN Uploads = Stored
      BY DEF Uploads
    <2>8. r.url \in {u \in RequestedUrls : Contains(u, Up)}
      BY <1>2 DEF RequestedUrls
    <2>9. ASSUME NEW gone, Stored' = Stored \ {gone}
          PROVE  Uploads' = [v \in DOMAIN Uploads \ {gone} |-> Uploads[v]]
      BY <2>4, <2>9 DEF Uploads
    <2>10. CASE \E v \in UploadUrls : FileOf[v] = e
      <3>1. PICK v \in UploadUrls : FileOf[v] = e
        BY <2>10
      <3>2. \A w \in UploadUrls : FileOf[w] = e => w = v
        BY <2>2, <3>1, UploadFilesDiffer
      <3>3. Stored' = Stored \ {v}
        <4>1. Stored \subseteq UploadUrls
          BY DEF Stored
        <4>2. QED
          BY <2>4, <2>5, <2>6, <3>1, <3>2, <4>1
      <3>4. Uploads' = [w \in DOMAIN Uploads \ {v} |-> Uploads[w]]
        BY <2>9, <3>3
      <3>5. QED
        BY <2>1, <2>8, <3>4 DEF Store!Delete, Store!Asked, Uploads
    <2>11. CASE ~\E v \in UploadUrls : FileOf[v] = e
      <3>1. Stored \subseteq UploadUrls
        BY DEF Stored
      <3>2. r.url \notin Stored
        <4> SUFFICES ASSUME NEW n \in Names, r.url = <<"uploads", n>> PROVE FALSE
          BY DEF Stored, UploadUrls
        <4>1. r.url \in Seq(Names \union {Empty})
          BY NameAssumption
        <4>2. QED
          BY <1>2, <4>1, PlainPath
      <3>3. Stored' = Stored \ {r.url}
        BY <2>4, <2>5, <2>11, <3>1, <3>2
      <3>4. Uploads' = [w \in DOMAIN Uploads \ {r.url} |-> Uploads[w]]
        BY <2>9, <3>3
      <3>5. QED
        BY <2>1, <3>4 DEF Store!Delete, Store!Asked, Uploads
    <2>12. QED
      BY <2>10, <2>11
  <1>3. QED
    BY <1>1, <1>2

\* What is stored can be deleted.
LEMMA StoredIsDeleted ==
    ASSUME UploadsAtHome, UploadsTogether, TreeInv, NEW r \in Requests, HandleRequest(r),
           r.method = "DELETE", r.url \in Stored
    PROVE  DeleteRemoves(r)
  <1>1. PICK n \in Names :
            /\ r.url = <<"uploads", n>> /\ r.url[1] = "uploads" /\ n # Empty
            /\ FileOf[r.url] = Append(Base(r.url), n)
            /\ FileOf[r.url] \in FilesOf(fs)
    BY StoredUrl
  <1>2. ~Contains(r.url, Up)
    BY <1>1, PathOfUpload
  <1>3. Len(r.url) = 2 /\ Tail(r.url) = <<n>>
    BY <1>1
  <1> DEFINE base == Base(r.url)
             path == DeletePath(r.url)
  <1>4. path = base \o <<n>> /\ DeleteAllowed(r.url)
    <2>1. Len(r.url) > 1
      BY <1>3
    <2>2. DeletePath(r.url) = Base(r.url) \o Tail(r.url) /\ DeleteAllowed(r.url)
      BY <1>2, <2>1, PlainDelete
    <2>3. QED
      BY <1>3, <2>2
  <1>5. base \in Seq(Names)
    BY RequestPlace
  <1> HIDE DEF base, path
  <1>6. path = Append(base, n) /\ path[Len(path)] = n
    BY <1>4, <1>5
  <1>7. Entry(path) = path /\ path \in FilesOf(fs)
    BY <1>1, <1>6 DEF Entry, base
  <1>8. Exists(fs, path)
    BY <1>1, <1>6, <1>7 DEF Exists, FilesOf
  <1>9. Listing(path) = {}
    <2> SUFFICES ASSUME NEW m \in Names, Append(path, m) \in DOMAIN fs PROVE FALSE
      BY DEF Listing
    <2>1. path \in Seq(Names)
      BY <1>7 DEF TreeInv, TypeOK, IsFileSystem, FilesOf
    <2>2. fs[path] = Dir
      BY <2>1, FrontOfAppend DEF TreeInv, IsTree
    <2>3. QED
      BY <1>7, <2>2 DEF FilesOf
  <1>10. r.url \notin Redirects
    BY <1>1 DEF Redirects
  <1>11. QED
    BY <1>1, <1>3, <1>4, <1>7, <1>8, <1>9, <1>10
       DEF HandleRequest, Redirect, NotAllowed, GetForbidden, GetFound, GetFails, GetMissing,
           PostRefused, PostBlocked, PostForbidden, PostConflict, PostFails, PostStores,
           Prepared, DeleteForbidden, DeleteMissing, DeleteFails, Deletes, Routed,
           IsMethodAllowed, path

\* To the clients of the upload directory the Router is a store: POST takes a
\* free url, GET yields what is stored if it can be read, DELETE always removes
\* what it names, and nothing else changes anything.
THEOREM RouterImplementsStore ==
    ASSUME UploadsAtHome, UploadsTogether
    PROVE  Spec => StoreImplemented
  <1>1. TreeInv /\ [Next]_vars => [Store!Next]_(Store!vars)
    <2> SUFFICES ASSUME TreeInv, [Next]_vars PROVE [Store!Next]_(Store!vars)
      OBVIOUS
    <2>1. CASE UNCHANGED vars
      BY <2>1 DEF vars, Store!vars, Stored, FilesOf
    <2>2. ASSUME NEW r \in Requests, HandleRequest(r) PROVE Store!Next
      <3>1. answer'.request = r
        BY <2>2 DEF HandleRequest, Redirect, NotAllowed, GetForbidden, GetFound, GetFails,
                    GetMissing, PostRefused, PostBlocked, PostForbidden, PostConflict,
                    PostFails, PostStores, DeleteForbidden, DeleteMissing, DeleteRemoves,
                    DeleteFails, Answer
      <3>2. CASE PostStores(r)
        BY <3>2, IsPut DEF Store!Next
      <3>3. CASE DeleteRemoves(r)
        BY <3>3, IsDelete DEF Store!Next
      <3>4. CASE ~PostStores(r) /\ ~DeleteRemoves(r)
        <4>1. RefusedLength(r) \in {Thrown, 411, 413, 200}
          BY DEF RefusedLength
        <4>2. RedirectStatus(r.url) \in {301, 302, 307} \/ ~Redirect(r)
          BY DEF Redirect, Redirects, RedirectStatus
        <4>3. answer'.status \notin {201, 204}
          BY <2>2, <3>4, <4>1, <4>2
             DEF HandleRequest, Redirect, NotAllowed, GetForbidden, GetFound, GetFails,
                 GetMissing, PostRefused, PostBlocked, PostForbidden, PostConflict, PostFails,
                 DeleteForbidden, DeleteMissing, DeleteFails, Answer, Routed, Thrown
        <4>4. CASE r.url \in Stored /\ r.method = "GET" /\ answer'.status # 500
          BY <2>2, <3>1, <4>4, IsGet DEF Store!Next
        <4>5. CASE r.url \in Stored /\ r.method = "DELETE"
          BY <2>2, <3>4, <4>5, StoredIsDeleted
        <4>6. r.method = "GET" \/ r.method = "POST" \/ r.method = "DELETE"
          BY RequestsAssumption DEF RequestType, Methods
        <4>7. ASSUME r.url \in Stored => \/ r.method = "POST"
                                         \/ r.method = "GET" /\ answer'.status = 500
              PROVE  Store!Next
          <5>1. Store!Nothing
            BY <2>2, <3>1, <4>3, <4>7, IsNothing
          <5>2. QED
            BY <5>1 DEF Store!Next
        <4>8. CASE r.url \notin Stored
          BY <4>7, <4>8
        <4>9. CASE r.url \in Stored /\ r.method = "GET"
          <5>1. CASE answer'.status = 500
            BY <4>7, <4>9, <5>1
          <5>2. CASE answer'.status # 500
            BY <4>4, <4>9, <5>2
          <5>3. QED
            BY <5>1, <5>2
        <4>10. CASE r.url \in Stored /\ r.method = "POST"
          BY <4>7, <4>10
        <4>11. QED
          BY <4>5, <4>6, <4>8, <4>9, <4>10
      <3>5. QED
        BY <3>2, <3>3, <3>4
    <2>3. QED
      BY <2>1, <2>2 DEF Next, Routes
  <1>2. QED
    BY <1>1, TreeInvInvariant, PTL DEF Spec, StoreImplemented, Store!Spec
=============================================================================
