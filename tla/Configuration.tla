--------------------------- MODULE Configuration ---------------------------
(***************************************************************************)
(* ConfigParser::parse (srcs/ConfigParser.cpp) over the lines of one file, *)
(* and configFinalCheck (srcs/ConfigCheck.cpp) over what it made of them.  *)
(* The parser has no stack: two flags, one server block and one location   *)
(* block under construction and a counter of braces stand for the nesting, *)
(* and what it does with a line depends on all the lines before it.        *)
(*                                                                         *)
(* Data.  A line is what the first word makes of it, with the values of    *)
(* the directive.  Blank lines and comments are no lines.                  *)
(***************************************************************************)
EXTENDS Integers, FiniteSets, SequencesExt

CONSTANTS
  Files,        \* configuration files, sequences of lines
  Values,       \* values of directives, and paths of locations
  Exists,       \* values that are paths stat() finds, at every time
  Rooted,       \* values that begin with a slash
  ValidMethods  \* values that are names of HTTP methods

\* Directives with a list of values, to which every line adds; the other ones
\* hold one value, the last one.  error_page stands for the entry of one code.
ListKinds == {"server_name", "index", "methods"}

\* Where parseLine stores a directive: always in the server block, always in
\* the location block, or in the one that inLocation names.
ServerKinds   == {"listen", "server_name", "error_page", "client_max_body_size"}
LocationKinds == {"methods", "upload_path", "redirect", "cgi_extension", "cgi_path"}
EitherKinds   == {"root", "index"}

Directives == ServerKinds \union LocationKinds \union EitherKinds

\* server: "server {".  location: with a brace on its line, bare_location: with
\* none.  open: any other line with a brace, a lone one or one of a word that
\* parseLine does not know.  word: a line without one that parseLine ignores,
\* "server" alone among them.  faulty: a line parseLine throws for.
Kinds == Directives \union
         {"server", "close", "location", "bare_location", "open", "word", "faulty"}

LineType == [kind : Kinds, values : Seq(Values)]

ASSUME FilesAssumption == \A f \in Files : f \in Seq(LineType)
ASSUME LinesAssumption ==
    \A f \in Files : \A k \in DOMAIN f :
        f[k].kind \in (Directives \ ListKinds) \union {"location", "bare_location"} =>
            Len(f[k].values) = 1
ASSUME ConfigValuesAssumption ==
    /\ {"8080", "www", "1048576", "/error.html", "GET", "index.html"} \subseteq Values
    /\ Exists \subseteq Values /\ Rooted \subseteq Values /\ ValidMethods \subseteq Values
    /\ "GET" \in ValidMethods

VARIABLES
  file,             \* the file
  lineNumber,       \* how many of its lines have been read
  servers,          \* config.servers
  currentServer,    \* the server block under construction
  currentLocation,  \* the location block under construction
  inServer, inLocation,
  braceCount,
  verdict           \* "reading", "refused" by an exception, or "accepted"

blockVars == <<servers, currentServer, currentLocation, inServer, inLocation>>
vars == <<file, lineNumber, blockVars, braceCount, verdict>>

-----------------------------------------------------------------------------
(***************************************************************************)
(* Blocks.  The settings of a block are the values of each directive, none *)
(* when it is empty or missing.                                            *)
(***************************************************************************)
Unset == [d \in Directives |-> <<>>]

\* What "server {" starts from.
Server_struct ==
    [settings |-> [Unset EXCEPT !["listen"] = <<"8080">>, !["root"] = <<"www">>,
                                !["client_max_body_size"] = <<"1048576">>,
                                !["error_page"] = <<"/error.html">>],
     locations |-> <<>>]

Location_struct(path) == [path |-> path, settings |-> Unset]

\* Variant with a bug, which the checks must notice: every line adds to its directive.
With_Adds(settings, line) == [settings EXCEPT ![line.kind] = @ \o line.values]

With(settings, line) ==
    [settings EXCEPT ![line.kind] = IF line.kind \in ListKinds THEN @ \o line.values
                                                               ELSE line.values]

OrElse(values, default) == IF values = <<>> THEN default ELSE values

\* Variant with a bug, which the checks must notice: the methods have no default.
Completed_NoMethods(location, server) ==
    [location EXCEPT !.settings["root"] = OrElse(@, server.settings["root"])]

\* What a closing brace adds to a location.
Completed(location, server) ==
    [location EXCEPT !.settings["root"] = OrElse(@, server.settings["root"]),
                     !.settings["methods"] = OrElse(@, <<"GET">>)]

-----------------------------------------------------------------------------
(***************************************************************************)
(* parse and parseLine, one line a step                                    *)
(***************************************************************************)
Line == file[lineNumber + 1]

Reads(kinds) ==
    /\ verdict = "reading" /\ lineNumber < Len(file) /\ Line.kind \in kinds
    /\ lineNumber' = lineNumber + 1
    /\ UNCHANGED file

\* The flag of a location that is still open stays.
ServerLine ==
    /\ Reads({"server"})
    /\ braceCount' = braceCount + 1
    /\ inServer' = TRUE
    /\ currentServer' = Server_struct
    /\ UNCHANGED <<servers, currentLocation, inLocation, verdict>>

CloseLocation ==
    /\ Reads({"close"}) /\ inLocation
    /\ currentServer' = [currentServer EXCEPT
                            !.locations = Append(@, Completed(currentLocation, currentServer))]
    /\ inLocation' = FALSE
    /\ braceCount' = braceCount - 1
    /\ UNCHANGED <<servers, currentLocation, inServer, verdict>>

CloseServer ==
    /\ Reads({"close"}) /\ ~inLocation /\ inServer
    /\ currentServer' = [currentServer EXCEPT !.settings["index"] = OrElse(@, <<"index.html">>)]
    /\ servers' = Append(servers, currentServer')
    /\ inServer' = FALSE
    /\ braceCount' = braceCount - 1
    /\ UNCHANGED <<currentLocation, inLocation, verdict>>

CloseOther ==
    /\ Reads({"close"}) /\ ~inLocation /\ ~inServer
    /\ braceCount' = braceCount - 1
    /\ UNCHANGED <<blockVars, verdict>>

\* Lines that get to parseLine.  The counter is looked at here and nowhere else.
Opens(line) == line.kind \in {"location", "open"}

Counted(kinds) ==
    /\ Reads(kinds)
    /\ braceCount' = IF Opens(Line) THEN braceCount + 1 ELSE braceCount
    /\ braceCount' >= 0

\* Variant with a bug, which the checks must notice: the last location shows through.
LocationLine_NoReset ==
    /\ Counted({"location", "bare_location"})
    /\ currentLocation' = [currentLocation EXCEPT !.path = Line.values[1]]
    /\ inLocation' = TRUE
    /\ UNCHANGED <<servers, currentServer, inServer, verdict>>

LocationLine ==
    /\ Counted({"location", "bare_location"})
    /\ currentLocation' = Location_struct(Line.values[1])
    /\ inLocation' = TRUE
    /\ UNCHANGED <<servers, currentServer, inServer, verdict>>

\* stat() of the value of a directive.
Refused(line) ==
    \/ line.kind = "faulty"
    \/ line.kind = "methods" /\ ~inLocation
    \/ line.kind \in {"root", "upload_path"} /\ line.values[1] \notin Exists

ToServer(line) ==
    \/ line.kind \in ServerKinds
    \/ line.kind \in EitherKinds /\ ~inLocation

ServerDirective ==
    /\ Counted(Directives) /\ ~Refused(Line) /\ ToServer(Line)
    /\ currentServer' = [currentServer EXCEPT !.settings = With(@, Line)]
    /\ UNCHANGED <<servers, currentLocation, inServer, inLocation, verdict>>

\* Outside of a location it goes to the last one, which is complete, and is lost.
LocationDirective ==
    /\ Counted(Directives) /\ ~Refused(Line) /\ ~ToServer(Line)
    /\ currentLocation' = [currentLocation EXCEPT !.settings = With(@, Line)]
    /\ UNCHANGED <<servers, currentServer, inServer, inLocation, verdict>>

Ignored ==
    /\ Counted({"open", "word"})
    /\ UNCHANGED <<blockVars, verdict>>

\* parseLine throws.
LineRefused ==
    /\ Counted(Directives \union {"faulty"}) /\ Refused(Line)
    /\ verdict' = "refused"
    /\ UNCHANGED blockVars

UnexpectedBrace ==
    /\ Reads(Kinds \ {"server", "close"})
    /\ (IF Opens(Line) THEN braceCount + 1 ELSE braceCount) < 0
    /\ verdict' = "refused"
    /\ UNCHANGED <<blockVars, braceCount>>

-----------------------------------------------------------------------------
(***************************************************************************)
(* The end of the file                                                     *)
(***************************************************************************)
\* Keys of a server block: its port with each of its names.
Keys(server) ==
    LET names == OrElse(server.settings["server_name"], <<"default_server">>)
    IN  [k \in DOMAIN names |-> <<server.settings["listen"][1], names[k]>>]

\* Variant with a bug, which the checks must notice: the first name only.
UniqueBindings_First ==
    IsInjective([s \in DOMAIN servers |-> Keys(servers[s])[1]])

\* No (port, server_name) comes twice.
UniqueBindings ==
    \A s, t \in DOMAIN servers :
        \A j \in DOMAIN Keys(servers[s]), k \in DOMAIN Keys(servers[t]) :
            Keys(servers[s])[j] = Keys(servers[t])[k] => s = t /\ j = k

\* configFinalCheck, without the tests of what parse() has ensured: ports,
\* sizes and codes in range, an index, a root and methods that are not empty.
ServerChecked(server) ==
    /\ server.settings["server_name"] # <<>>
    /\ ToSet(server.settings["root"]) \subseteq Exists

LocationChecked(location) ==
    LET given(d) == ToSet(location.settings[d])
    IN  /\ given("root") \union given("upload_path") \subseteq Exists
        /\ given("redirect") \subseteq Rooted
        /\ given("cgi_extension") # {} => given("cgi_path") # {} /\ given("cgi_path") \subseteq Exists
        /\ given("methods") \subseteq ValidMethods

ConfigFinalCheck ==
    /\ servers # <<>>
    /\ \A s \in DOMAIN servers :
          /\ ServerChecked(servers[s])
          /\ \A l \in DOMAIN servers[s].locations : LocationChecked(servers[s].locations[l])

Acceptable ==
    /\ braceCount = 0
    /\ UniqueBindings
    /\ \A s \in DOMAIN servers : servers[s].locations # <<>>
    /\ ConfigFinalCheck

EndOfFile ==
    /\ verdict = "reading" /\ lineNumber = Len(file)
    /\ verdict' = IF Acceptable THEN "accepted" ELSE "refused"
    /\ UNCHANGED <<file, lineNumber, blockVars, braceCount>>

-----------------------------------------------------------------------------
\* Before the first "server {" the parser writes to blocks that nobody has
\* filled in; no server is made of them.
Init ==
    /\ file \in Files /\ lineNumber = 0
    /\ servers = <<>>
    /\ currentServer = [settings |-> Unset, locations |-> <<>>]
    /\ currentLocation = [path |-> "", settings |-> Unset]
    /\ inServer = FALSE /\ inLocation = FALSE
    /\ braceCount = 0
    /\ verdict = "reading"

Next ==
    \/ ServerLine \/ CloseLocation \/ CloseServer \/ CloseOther
    \/ LocationLine \/ ServerDirective \/ LocationDirective \/ Ignored
    \/ LineRefused \/ UnexpectedBrace
    \/ EndOfFile

Spec == Init /\ [][Next]_vars

-----------------------------------------------------------------------------
(***************************************************************************)
(* What a well-nested file means: the reading of its nesting, line by line *)
(* from the depth of the braces, against which the flags of the parser are *)
(* checked.                                                                *)
(***************************************************************************)
LinesOf(f, kinds) == {k \in DOMAIN f : f[k].kind \in kinds}

\* Blocks that are open in front of line k.
Depth(f, k) ==
    Cardinality({j \in LinesOf(f, {"server", "location", "open"}) : j < k})
    - Cardinality({j \in LinesOf(f, {"close"}) : j < k})

\* Servers hold locations and directives, locations hold directives, and a
\* brace on a line of its own belongs to the location above it.  A "server" line
\* whose brace comes on the next one is not among them: for the parser that is
\* no server, and its block is lost.
WellNested(f) ==
    /\ \A k \in LinesOf(f, {"server"}) : Depth(f, k) = 0
    /\ \A k \in LinesOf(f, {"location", "bare_location"}) : Depth(f, k) = 1
    /\ \A k \in LinesOf(f, {"bare_location"}) : k < Len(f) /\ f[k + 1].kind = "open"
    /\ \A k \in LinesOf(f, {"open"}) : k > 1 /\ f[k - 1].kind = "bare_location"
    /\ \A k \in LinesOf(f, {"close"} \union Directives) : Depth(f, k) > 0
    /\ Depth(f, Len(f) + 1) = 0

\* The lines of the block that line k opens in a block of depth d.
Inside(f, k, d) ==
    {j \in k + 1 .. Len(f) :
        \A i \in LinesOf(f, {"close"}) : k < i /\ i <= j => Depth(f, i) # d + 1}

\* The lines K of f, one after the other.
InOrder(f, K) == FlattenSeq([k \in DOMAIN f |-> IF k \in K THEN <<k>> ELSE <<>>])

\* The values that the lines K give to directive d: all of them, or the last one's.
Given(f, K, d) ==
    LET lines == K \intersect LinesOf(f, {d})
    IN  IF d \in ListKinds
        THEN FlattenSeq([k \in DOMAIN f |-> IF k \in lines THEN f[k].values ELSE <<>>])
        ELSE IF lines = {} THEN <<>> ELSE f[Max(lines)].values

\* A location without a root has the root its server has above it; a root
\* directive behind the location does not reach it.  The code has no other
\* description of this; the order is taken from it, and no property judges it.
LocationMeant(f, s, l) ==
    LET own    == Inside(f, l, 1)
        above  == {k \in Inside(f, s, 0) : Depth(f, k) = 1 /\ \E j \in own \union {l} : k <= j}
        root   == OrElse(Given(f, above, "root"), <<"www">>)
        default == [Unset EXCEPT !["root"] = root, !["methods"] = <<"GET">>]
    IN  [path |-> f[l].values[1],
         settings |-> [d \in Directives |->
                          IF d \in ServerKinds THEN <<>> ELSE OrElse(Given(f, own, d), default[d])]]

\* The directives of a server block proper count wherever they stand in it,
\* those of locations nowhere but there.
ServerMeant(f, s) ==
    LET all     == Inside(f, s, 0)
        own     == {k \in all : Depth(f, k) = 1}
        default == [Server_struct.settings EXCEPT !["index"] = <<"index.html">>]
        places  == InOrder(f, all \intersect LinesOf(f, {"location", "bare_location"}))
    IN  [settings |-> [d \in Directives |->
                          IF d \in ServerKinds THEN (IF d \in ListKinds \/ Given(f, all, d) # <<>>
                                                    THEN Given(f, all, d) ELSE default[d])
                          ELSE IF d \in EitherKinds THEN OrElse(Given(f, own, d), default[d])
                          ELSE <<>>],
         locations |-> [l \in DOMAIN places |-> LocationMeant(f, s, places[l])]]

Meaning(f) ==
    LET blocks == InOrder(f, LinesOf(f, {"server"}))
    IN  [s \in DOMAIN blocks |-> ServerMeant(f, blocks[s])]

-----------------------------------------------------------------------------
(***************************************************************************)
(* Properties                                                              *)
(***************************************************************************)
SettingsOK(settings) ==
    /\ settings \in [Directives -> Seq(Values)]
    /\ \A d \in Directives \ ListKinds : Len(settings[d]) <= 1

LocationOK(location) == location.path \in Values \union {""} /\ SettingsOK(location.settings)

ServerOK(server) ==
    /\ SettingsOK(server.settings)
    /\ \A l \in DOMAIN server.locations : LocationOK(server.locations[l])

TypeOK ==
    /\ file \in Seq(LineType) /\ lineNumber \in 0 .. Len(file)
    /\ \A s \in DOMAIN servers : ServerOK(servers[s])
    /\ ServerOK(currentServer) /\ LocationOK(currentLocation)
    /\ inServer \in BOOLEAN /\ inLocation \in BOOLEAN
    /\ braceCount \in -Len(file) .. Len(file)
    /\ verdict \in {"reading", "refused", "accepted"}

\* A well-nested file is accepted as what its nesting says or not at all: no
\* block is lost or mixed with an earlier one, no directive ends up in a block
\* it does not stand in, and each has the defaults of its block.
BlocksKept == verdict = "accepted" /\ WellNested(file) => servers = Meaning(file)

\* Whatever the file looks like, the server starts with blocks it can work
\* with: the request handlers take the first port, root, method list and
\* location without asking, configFinalCheck and parse() share the tests
\* between them, and no two blocks answer to one name on one port.
AcceptedIsServable ==
    verdict = "accepted" =>
        /\ servers # <<>>
        /\ \A s \in DOMAIN servers :
              /\ \A d \in {"listen", "server_name", "root", "index", "client_max_body_size"} :
                    servers[s].settings[d] # <<>>
              /\ servers[s].locations # <<>>
              /\ \A l \in DOMAIN servers[s].locations :
                    \A d \in {"root", "methods"} : servers[s].locations[l].settings[d] # <<>>
        /\ \A s, t \in DOMAIN servers :
              /\ s # t /\ servers[s].settings["listen"] = servers[t].settings["listen"]
              => ToSet(servers[s].settings["server_name"])
                    \intersect ToSet(servers[t].settings["server_name"]) = {}
=============================================================================
