----------------------------- MODULE Locations -----------------------------
(***************************************************************************)
(* Which location of a server block a request belongs to, and where it     *)
(* sends the request: matchLocation, setLocationDefaults and               *)
(* checkCgiRequest of srcs/Server.cpp.                                     *)
(*                                                                         *)
(* The path of a request is the sequence of its components: "/uploads/a"   *)
(* is <<"uploads", "a">>, "/uploads/" is <<"uploads", "">> and "/" is      *)
(* <<"">>; a component may be "..".  A path in the file system is a        *)
(* sequence of names, relative to the directory the server was started in. *)
(***************************************************************************)
EXTENDS Naturals, Sequences

CONSTANTS
  Names,      \* components a path may have, and names of files
  Begins,     \* <<a, b>>: the name a is the beginning of the longer name b
  Locations,  \* the location blocks of a server block, in the order of the file
  Server      \* its defaults: root and index

\* The component after a trailing slash, and the one that leads upwards.
Empty == ""
Up == ".."

Methods == {"GET", "POST", "DELETE"}

Dirs == Seq(Names) \ {<<>>}

Urls == {u \in Seq(Names \union {Up, Empty}) :
            u # <<>> /\ \A k \in 1 .. Len(u) - 1 : u[k] # Empty}

\* An empty sequence is a directive that is missing; cgi holds the names that
\* end in the location's cgi_extension.
LocationType == [path : Urls, root : Seq(Names), upload_path : Seq(Names),
                 index : Seq(Names), methods : SUBSET Methods, cgi : SUBSET Names]

ASSUME NameAssumption     == /\ Empty \notin Names /\ Up \notin Names
                             /\ {"uploads", "index.html"} \subseteq Names
ASSUME BeginsAssumption   == Begins \subseteq {b \in Names \X Names : b[1] # b[2]}
ASSUME LocationAssumption == \A l \in DOMAIN Locations : Locations[l] \in LocationType
ASSUME LocationsAreListed == DOMAIN Locations \subseteq Nat
ASSUME ServerAssumption   == Server \in [root : Dirs, index : Seq(Names)]

-----------------------------------------------------------------------------
\* The string of path is a prefix of the string of url: "/upload" of
\* "/uploads/a" also.
Covers(path, url) ==
    /\ Len(path) <= Len(url)
    /\ \A k \in 1 .. Len(path) - 1 : path[k] = url[k]
    /\ \/ path[Len(path)] \in {Empty, url[Len(path)]}
       \/ <<path[Len(path)], url[Len(path)]>> \in Begins

\* Variant with a bug, which the checks must notice: the first match, not the longest.
MatchLocation_First(url) ==
    {l \in DOMAIN Locations :
        /\ Covers(Locations[l].path, url)
        /\ \A m \in DOMAIN Locations : Covers(Locations[m].path, url) => l <= m}

\* The longest match, the first one of equal ones: of two prefixes of a string
\* the shorter is a prefix of the longer.  No element when nothing matches.
MatchLocation(url) ==
    {l \in DOMAIN Locations :
        /\ Covers(Locations[l].path, url)
        /\ \A m \in DOMAIN Locations :
              Covers(Locations[m].path, url) =>
                 /\ Covers(Locations[m].path, Locations[l].path)
                 /\ Locations[m].path = Locations[l].path => l <= m}

Matched(url) == Locations[CHOOSE l \in MatchLocation(url) : TRUE]

\* setLocationDefaults: where files are looked for, where uploads go, which
\* file stands for a directory.
Place(url) ==
    LET given  == MatchLocation(url) # {}
        index  == IF given /\ Matched(url).index # <<>> THEN Matched(url).index
                                                        ELSE Server.index
    IN  [docroot   |-> IF given /\ Matched(url).root # <<>> THEN Matched(url).root
                                                            ELSE Server.root,
         uploadDir |-> IF given /\ Matched(url).upload_path # <<>>
                       THEN Matched(url).upload_path ELSE <<"uploads">>,
         indexName |-> IF index # <<>> THEN index[1] ELSE "index.html"]

\* A request for a script, or for a location of scripts with an index, never
\* reaches the Router.
IsCgi(url) ==
    /\ MatchLocation(url) # {}
    /\ Matched(url).cgi # {}
    /\ \/ url[Len(url)] \in Matched(url).cgi
       \/ url = Matched(url).path /\ Matched(url).index # <<>>
=============================================================================
