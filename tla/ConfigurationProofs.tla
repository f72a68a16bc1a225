------------------------ MODULE ConfigurationProofs ------------------------
(***************************************************************************)
(* Theorems about Configuration, for every file, however its braces match, *)
(* and every file system.                                                  *)
(***************************************************************************)
EXTENDS Configuration, SequenceTheorems, TLAPS

-----------------------------------------------------------------------------
(***************************************************************************)
(* The types of the blocks                                                 *)
(***************************************************************************)
Settings ==
    {s \in [Directives -> Seq(Values)] : \A d \in Directives \ ListKinds : Len(s[d]) <= 1}

LocationBlocks == [path : Values \union {""}, settings : Settings]
ServerBlocks == [settings : Settings, locations : Seq(LocationBlocks)]

\* One directive of a block gets other values.
LEMMA SettingChanged ==
    ASSUME NEW s \in Settings, NEW d \in Directives, NEW v \in Seq(Values),
           d \in ListKinds \/ Len(v) <= 1
    PROVE  [s EXCEPT ![d] = v] \in Settings
<1> DEFINE t == [s EXCEPT ![d] = v]
<1>1. s \in [Directives -> Seq(Values)] /\ \A e \in Directives \ ListKinds : Len(s[e]) <= 1
  BY DEF Settings
<1>2. t \in [Directives -> Seq(Values)]
  BY <1>1
<1>3. ASSUME NEW e \in Directives \ ListKinds
      PROVE  Len(t[e]) <= 1
  <2>1. CASE e = d
    BY <1>1, <1>3, <2>1
  <2>2. CASE e # d
    BY <1>1, <1>3, <2>2
  <2>3. QED
    BY <2>1, <2>2
<1>4. QED
  BY <1>2, <1>3 DEF Settings

\* A line of the file.
LEMMA LineTypeCorrect ==
    ASSUME NEW f \in Files, NEW k \in 1 .. Len(f)
    PROVE  /\ f[k] \in LineType /\ f[k].kind \in Kinds /\ f[k].values \in Seq(Values)
           /\ f[k].kind \in (Directives \ ListKinds) \union {"location", "bare_location"} =>
                 Len(f[k].values) = 1 /\ f[k].values # <<>> /\ f[k].values[1] \in Values
<1>1. f \in Seq(LineType)
  BY FilesAssumption
<1>2. f[k] \in LineType /\ k \in DOMAIN f
  BY <1>1, ElementOfSeq, LenProperties
<1>3. f[k].kind \in Kinds /\ f[k].values \in Seq(Values)
  BY <1>2 DEF LineType
<1>4. ASSUME f[k].kind \in (Directives \ ListKinds) \union {"location", "bare_location"}
      PROVE  Len(f[k].values) = 1 /\ f[k].values # <<>> /\ f[k].values[1] \in Values
  <2> DEFINE v == f[k].values
  <2>1. Len(v) = 1
    BY <1>2, <1>4, LinesAssumption
  <2>2. v \in Seq(Values)
    BY <1>3
  <2> HIDE DEF v
  <2>3. v # <<>>
    BY <2>1, EmptySeq
  <2>4. v[1] \in Values
    BY <2>1, <2>2, ElementOfSeq
  <2>5. QED
    BY <2>1, <2>3, <2>4 DEF v
<1>5. QED
  BY <1>2, <1>3, <1>4

\* A directive that is read keeps the settings in order and takes none away.
LEMMA WithType ==
    ASSUME NEW s \in Settings, NEW line \in LineType, line.kind \in Directives,
           line.kind \notin ListKinds => Len(line.values) = 1 /\ line.values # <<>>
    PROVE  /\ With(s, line) \in Settings
           /\ \A d \in Directives : s[d] # <<>> => With(s, line)[d] # <<>>
<1> DEFINE kd == line.kind
           v == line.values
           w == IF kd \in ListKinds THEN s[kd] \o v ELSE v
<1>1. v \in Seq(Values) /\ s \in [Directives -> Seq(Values)] /\ kd \in Directives
  BY DEF LineType, Settings
<1>2. With(s, line) = [s EXCEPT ![kd] = w]
  BY DEF With
<1>3. kd \notin ListKinds => Len(v) = 1 /\ v # <<>>
  OBVIOUS
<1> HIDE DEF kd, v
<1>4. s[kd] \in Seq(Values)
  BY <1>1
<1>5. s[kd] \o v \in Seq(Values) /\ (s[kd] # <<>> => s[kd] \o v # <<>>)
  BY <1>1, <1>4, ConcatProperties, ConcatEqualIffEmpty
<1>6. w \in Seq(Values) /\ (s[kd] # <<>> => w # <<>>)
  BY <1>1, <1>3, <1>5
<1>7. kd \in ListKinds \/ Len(w) <= 1
  BY <1>3
<1> HIDE DEF w
<1>8. [s EXCEPT ![kd] = w] \in Settings
  BY <1>1, <1>6, <1>7, SettingChanged
<1>9. \A d \in Directives : s[d] # <<>> => [s EXCEPT ![kd] = w][d] # <<>>
  BY <1>1, <1>6
<1>10. QED
  BY <1>2, <1>8, <1>9

\* A default counts where nothing was given.
LEMMA DefaultType ==
    ASSUME NEW s \in Settings, NEW d \in Directives, NEW v \in Seq(Values), Len(v) <= 1
    PROVE  /\ [s EXCEPT ![d] = OrElse(s[d], v)] \in Settings
           /\ v # <<>> => [s EXCEPT ![d] = OrElse(s[d], v)][d] # <<>>
           /\ \A e \in Directives : s[e] # <<>> => [s EXCEPT ![d] = OrElse(s[d], v)][e] # <<>>
<1> DEFINE w == OrElse(s[d], v)
<1>1. s \in [Directives -> Seq(Values)] /\ (d \in ListKinds \/ Len(s[d]) <= 1)
  BY DEF Settings
<1>2. w \in Seq(Values) /\ (d \in ListKinds \/ Len(w) <= 1)
      /\ (v # <<>> => w # <<>>) /\ (s[d] # <<>> => w # <<>>)
  BY <1>1 DEF OrElse
<1> HIDE DEF w
<1>3. [s EXCEPT ![d] = w] \in Settings
  BY <1>2, SettingChanged
<1>4. \A e \in Directives : [s EXCEPT ![d] = w][e] = IF e = d THEN w ELSE s[e]
  BY <1>1
<1>5. QED
  BY <1>2, <1>3, <1>4 DEF w

LEMMA UnsetType == Unset \in Settings
<1>1. Unset \in [Directives -> Seq(Values)]
  BY EmptySeq DEF Unset
<1>2. \A d \in Directives : Len(Unset[d]) <= 1
  BY EmptySeq DEF Unset
<1>3. QED
  BY <1>1, <1>2 DEF Settings

\* The blocks are what the server starts from.
ServerBegun(s) ==
    /\ \A d \in {"listen", "root", "client_max_body_size"} : s.settings[d] # <<>>
    /\ \A l \in DOMAIN s.locations :
          \A d \in {"root", "methods"} : s.locations[l].settings[d] # <<>>

LEMMA OneValue ==
    ASSUME NEW v \in Values
    PROVE  <<v>> \in Seq(Values) /\ Len(<<v>>) = 1 /\ <<v>> # <<>>
  OBVIOUS

LEMMA ServerStructType == Server_struct \in ServerBlocks /\ ServerBegun(Server_struct)
<1>1. {"listen", "root", "client_max_body_size", "error_page"} \subseteq Directives
  BY DEF Directives, ServerKinds, EitherKinds
<1>2. /\ <<"8080">> \in Seq(Values) /\ Len(<<"8080">>) <= 1 /\ <<"8080">> # <<>>
      /\ <<"www">> \in Seq(Values) /\ Len(<<"www">>) <= 1 /\ <<"www">> # <<>>
      /\ <<"1048576">> \in Seq(Values) /\ Len(<<"1048576">>) <= 1 /\ <<"1048576">> # <<>>
      /\ <<"/error.html">> \in Seq(Values) /\ Len(<<"/error.html">>) <= 1
  BY ConfigValuesAssumption
<1> DEFINE a == [Unset EXCEPT !["listen"] = <<"8080">>]
           b == [a EXCEPT !["root"] = <<"www">>]
           c == [b EXCEPT !["client_max_body_size"] = <<"1048576">>]
           d == [c EXCEPT !["error_page"] = <<"/error.html">>]
<1>3. a \in Settings /\ a["listen"] # <<>>
  <2>1. a \in Settings
    BY <1>1, <1>2, UnsetType, SettingChanged
  <2>2. QED
    BY <1>1, <1>2, <2>1, UnsetType DEF Settings
<1> HIDE DEF a
<1>4. b \in Settings /\ b["listen"] # <<>> /\ b["root"] # <<>>
  <2>1. b \in Settings
    BY <1>1, <1>2, <1>3, SettingChanged
  <2>2. QED
    BY <1>1, <1>2, <1>3, <2>1 DEF Settings
<1> HIDE DEF b
<1>5. c \in Settings /\ c["listen"] # <<>> /\ c["root"] # <<>> /\ c["client_max_body_size"] # <<>>
  <2>1. c \in Settings
    BY <1>1, <1>2, <1>4, SettingChanged
  <2>2. QED
    BY <1>1, <1>2, <1>4, <2>1 DEF Settings
<1> HIDE DEF c
<1>6. d \in Settings /\ d["listen"] # <<>> /\ d["root"] # <<>> /\ d["client_max_body_size"] # <<>>
  <2>1. d \in Settings
    BY <1>1, <1>2, <1>5, SettingChanged
  <2>2. QED
    BY <1>1, <1>2, <1>5, <2>1 DEF Settings
<1>7. Server_struct = [settings |-> d, locations |-> <<>>]
  BY DEF Server_struct, a, b, c
<1> HIDE DEF d
<1>8. <<>> \in Seq(LocationBlocks) /\ DOMAIN <<>> = {}
  BY EmptySeq
<1>9. Server_struct \in ServerBlocks
  BY <1>6, <1>7, <1>8 DEF ServerBlocks
<1>10. QED
  BY <1>6, <1>7, <1>8, <1>9 DEF ServerBegun

\* What a closing brace makes of a location.
LEMMA CompletedType ==
    ASSUME NEW l \in LocationBlocks, NEW s \in ServerBlocks
    PROVE  /\ Completed(l, s) \in LocationBlocks
           /\ Completed(l, s).settings["methods"] # <<>>
           /\ s.settings["root"] # <<>> => Completed(l, s).settings["root"] # <<>>
<1> DEFINE S == l.settings
           r == s.settings["root"]
           T == [S EXCEPT !["root"] = OrElse(S["root"], r)]
           U == [T EXCEPT !["methods"] = OrElse(T["methods"], <<"GET">>)]
<1>1. {"root", "methods"} \subseteq Directives \ (ListKinds \ {"methods"})
  BY DEF Directives, LocationKinds, EitherKinds, ListKinds
<1>2. S \in Settings /\ s.settings \in Settings
  BY DEF LocationBlocks, ServerBlocks
<1>3. r \in Seq(Values) /\ Len(r) <= 1
  BY <1>1, <1>2 DEF Settings, ListKinds
<1>4. <<"GET">> \in Seq(Values) /\ Len(<<"GET">>) <= 1 /\ <<"GET">> # <<>>
  BY ConfigValuesAssumption
<1> HIDE DEF S, r
<1>5. T \in Settings /\ (r # <<>> => T["root"] # <<>>)
  BY <1>1, <1>2, <1>3, DefaultType
<1> HIDE DEF T
<1>6. U \in Settings /\ U["methods"] # <<>> /\ (r # <<>> => U["root"] # <<>>)
  <2>1. U \in Settings
    BY <1>1, <1>4, <1>5, DefaultType
  <2>2. U["methods"] # <<>>
    BY <1>1, <1>4, <1>5, DefaultType
  <2>3. T["root"] # <<>> => U["root"] # <<>>
    BY <1>1, <1>4, <1>5, DefaultType
  <2>4. QED
    BY <1>5, <2>1, <2>2, <2>3
<1>7. Completed(l, s) = [l EXCEPT !.settings = U]
  BY DEF Completed, U, T, S, r, LocationBlocks
<1> HIDE DEF U
<1>8. Completed(l, s) \in LocationBlocks /\ Completed(l, s).settings = U
  BY <1>6, <1>7 DEF LocationBlocks
<1>9. QED
  BY <1>6, <1>8 DEF r

-----------------------------------------------------------------------------
(***************************************************************************)
(* The invariant                                                           *)
(***************************************************************************)
\* The counter of braces is at most as far from zero as lines were read.
CountInv ==
    /\ file \in Files /\ lineNumber \in 0 .. Len(file)
    /\ braceCount \in -lineNumber .. lineNumber
    /\ inServer \in BOOLEAN /\ inLocation \in BOOLEAN
    /\ verdict \in {"reading", "refused", "accepted"}

\* The server block under construction is in order while one is open, whatever
\* the parser wrote to it before; the ones that are closed have an index too.
BlocksInv ==
    /\ currentServer \in ServerBlocks /\ currentLocation \in LocationBlocks
    /\ servers \in Seq(ServerBlocks)
    /\ inServer => ServerBegun(currentServer)
    /\ \A s \in DOMAIN servers :
          ServerBegun(servers[s]) /\ servers[s].settings["index"] # <<>>

VerdictInv == verdict = "accepted" => Acceptable

ConfInv == CountInv /\ BlocksInv /\ VerdictInv

LEMMA ConfInit == Init => ConfInv
<1> SUFFICES ASSUME Init PROVE ConfInv
  OBVIOUS
<1>1. /\ file \in Files /\ lineNumber = 0 /\ servers = <<>>
      /\ currentServer = [settings |-> Unset, locations |-> <<>>]
      /\ currentLocation = [path |-> "", settings |-> Unset]
      /\ inServer = FALSE /\ inLocation = FALSE /\ braceCount = 0 /\ verdict = "reading"
  BY DEF Init
<1>2. CountInv
  <2>1. Len(file) \in Nat
    BY <1>1, FilesAssumption, LenProperties
  <2>2. inServer \in BOOLEAN /\ inLocation \in BOOLEAN
    <3>1. inServer = FALSE /\ inLocation = FALSE
      BY <1>1
    <3>2. QED
      BY ONLY <3>1
  <2>3. lineNumber \in 0 .. Len(file) /\ braceCount \in -lineNumber .. lineNumber
    <3> DEFINE n == Len(file)
    <3>1. n \in Nat /\ lineNumber = 0 /\ braceCount = 0
      BY <1>1, <2>1
    <3> HIDE DEF n
    <3>2. 0 \in 0 .. n
      BY <3>1
    <3>3. 0 \in -0 .. 0
      OBVIOUS
    <3>4. QED
      BY <3>1, <3>2, <3>3 DEF n
  <2>4. file \in Files /\ verdict \in {"reading", "refused", "accepted"}
    BY <1>1
  <2>5. QED
    BY <2>2, <2>3, <2>4 DEF CountInv
<1>3. BlocksInv
  <2>1. currentServer \in ServerBlocks /\ currentLocation \in LocationBlocks
    BY <1>1, UnsetType, EmptySeq DEF ServerBlocks, LocationBlocks
  <2>2. servers \in Seq(ServerBlocks) /\ DOMAIN servers = {}
    <3>1. <<>> \in Seq(ServerBlocks) /\ DOMAIN <<>> = {}
      BY EmptySeq
    <3>2. QED
      BY <1>1, <3>1
  <2>3. QED
    BY <1>1, <2>1, <2>2 DEF BlocksInv
<1>4. VerdictInv
  BY <1>1 DEF VerdictInv
<1>5. QED
  BY <1>2, <1>3, <1>4 DEF ConfInv

\* A line that is read is one of the file.
LEMMA ReadLine ==
    ASSUME CountInv, NEW K, Reads(K)
    PROVE  /\ Line \in LineType /\ Line.kind \in K /\ Line.values \in Seq(Values)
           /\ Line.kind \in (Directives \ ListKinds) \union {"location", "bare_location"} =>
                 Len(Line.values) = 1 /\ Line.values # <<>> /\ Line.values[1] \in Values
           /\ verdict = "reading" /\ file' = file /\ lineNumber' = lineNumber + 1
           /\ file \in Files /\ lineNumber' \in 0 .. Len(file)
<1>1. /\ file \in Files /\ lineNumber \in 0 .. Len(file) /\ lineNumber < Len(file)
      /\ verdict = "reading" /\ file' = file /\ lineNumber' = lineNumber + 1 /\ Line.kind \in K
  BY DEF Reads, CountInv
<1> DEFINE n == Len(file)
<1>2. n \in Nat
  BY <1>1, FilesAssumption, LenProperties
<1>3. lineNumber + 1 \in 1 .. n /\ lineNumber + 1 \in 0 .. n
  <2>1. lineNumber \in 0 .. n /\ lineNumber < n
    BY <1>1
  <2> HIDE DEF n
  <2>2. QED
    BY <1>2, <2>1
<1>4. QED
  BY <1>1, <1>3, LineTypeCorrect DEF Line

\* The counter moves by one at most.
LEMMA CountStep ==
    ASSUME CountInv, lineNumber' = lineNumber + 1, file' = file, lineNumber' \in 0 .. Len(file),
           braceCount' \in {braceCount - 1, braceCount, braceCount + 1},
           inServer' \in BOOLEAN, inLocation' \in BOOLEAN,
           verdict' \in {"reading", "refused", "accepted"}
    PROVE  CountInv'
<1>1. braceCount' \in -lineNumber' .. lineNumber'
  <2>1. lineNumber \in Nat /\ braceCount \in -lineNumber .. lineNumber
    BY DEF CountInv
  <2>2. QED
    BY <2>1
<1>2. QED
  BY <1>1 DEF CountInv

LEMMA BlocksKeep ==
    ASSUME BlocksInv, currentServer' \in ServerBlocks, currentLocation' \in LocationBlocks,
           servers' = servers, inServer' => ServerBegun(currentServer')
    PROVE  BlocksInv'
  BY DEF BlocksInv

LEMMA ConfStep ==
    ASSUME ConfInv, [Next]_vars
    PROVE  ConfInv'
<1>1. /\ CountInv /\ BlocksInv /\ VerdictInv
      /\ currentServer \in ServerBlocks /\ currentLocation \in LocationBlocks
      /\ servers \in Seq(ServerBlocks) /\ (inServer => ServerBegun(currentServer))
      /\ inServer \in BOOLEAN /\ inLocation \in BOOLEAN
      /\ verdict \in {"reading", "refused", "accepted"} /\ braceCount \in Int
  BY DEF ConfInv, CountInv, BlocksInv
<1>2. ASSUME VerdictInv, verdict' # "accepted"
      PROVE  VerdictInv'
  BY <1>2 DEF VerdictInv
<1>3. CASE ServerLine
  <2>1. /\ Reads({"server"}) /\ braceCount' = braceCount + 1 /\ inServer' = TRUE
        /\ currentServer' = Server_struct
        /\ UNCHANGED <<servers, currentLocation, inLocation, verdict>>
    BY <1>3 DEF ServerLine
  <2>2. verdict = "reading" /\ file' = file /\ lineNumber' = lineNumber + 1
        /\ lineNumber' \in 0 .. Len(file)
    BY <1>1, <2>1, ReadLine
  <2>3. inServer' \in BOOLEAN
    BY <2>1, Zenon
  <2>4. CountInv'
    BY <1>1, <2>1, <2>2, <2>3, CountStep
  <2>5. BlocksInv'
    BY <1>1, <2>1, ServerStructType, BlocksKeep
  <2>6. QED
    BY <1>1, <1>2, <2>1, <2>2, <2>4, <2>5 DEF ConfInv
<1>4. CASE CloseLocation
  <2> DEFINE done == Completed(currentLocation, currentServer)
             more == Append(currentServer.locations, done)
  <2>1. /\ Reads({"close"}) /\ braceCount' = braceCount - 1 /\ inLocation' = FALSE
        /\ currentServer' = [currentServer EXCEPT !.locations = more]
        /\ UNCHANGED <<servers, currentLocation, inServer, verdict>>
    BY <1>4 DEF CloseLocation
  <2>2. verdict = "reading" /\ file' = file /\ lineNumber' = lineNumber + 1
        /\ lineNumber' \in 0 .. Len(file)
    BY <1>1, <2>1, ReadLine
  <2>3. inLocation' \in BOOLEAN
    BY <2>1, Zenon
  <2>4. CountInv'
    BY <1>1, <2>1, <2>2, <2>3, CountStep
  <2>5. /\ done \in LocationBlocks /\ done.settings["methods"] # <<>>
        /\ currentServer.settings["root"] # <<>> => done.settings["root"] # <<>>
    BY <1>1, CompletedType
  <2>6. currentServer.locations \in Seq(LocationBlocks) /\ currentServer.settings \in Settings
    BY <1>1 DEF ServerBlocks
  <2> DEFINE ls == currentServer.locations
             n == Len(ls)
  <2>7. n \in Nat /\ DOMAIN ls = 1 .. n
    BY <2>6, LenProperties
  <2> HIDE DEF done, ls
  <2>8. more \in Seq(LocationBlocks)
    BY <2>5, <2>6, AppendProperties DEF ls
  <2>9. Len(more) = n + 1 /\ (\A k \in 1 .. n : more[k] = ls[k]) /\ more[n + 1] = done
    BY <2>5, <2>6, AppendProperties DEF ls
  <2>10. DOMAIN more = 1 .. n + 1
    BY <2>8, <2>9, LenProperties
  <2> HIDE DEF more, n
  <2>11. currentServer' \in ServerBlocks /\ currentServer'.settings = currentServer.settings
         /\ currentServer'.locations = more
    BY <1>1, <2>1, <2>8 DEF ServerBlocks
  <2>12. ASSUME inServer
         PROVE  ServerBegun(currentServer')
    <3>1. /\ \A d \in {"listen", "root", "client_max_body_size"} : currentServer.settings[d] # <<>>
          /\ \A l \in DOMAIN ls : \A d \in {"root", "methods"} : ls[l].settings[d] # <<>>
      BY <1>1, <2>12 DEF ServerBegun, ls
    <3>2. ASSUME NEW l \in 1 .. n + 1, NEW d \in {"root", "methods"}
          PROVE  more[l].settings[d] # <<>>
      <4>1. CASE l \in 1 .. n
        BY <2>7, <2>9, <3>1, <4>1
      <4>2. CASE l = n + 1
        BY <2>5, <2>9, <3>1, <4>2
      <4>3. QED
        BY <2>7, <4>1, <4>2
    <3>3. QED
      BY <2>10, <2>11, <3>1, <3>2 DEF ServerBegun
  <2>13. BlocksInv'
    BY <1>1, <2>1, <2>11, <2>12, BlocksKeep
  <2>14. QED
    BY <1>1, <1>2, <2>1, <2>2, <2>4, <2>13 DEF ConfInv
<1>5. CASE CloseServer
  <2> DEFINE st == [currentServer.settings EXCEPT !["index"] =
                       OrElse(currentServer.settings["index"], <<"index.html">>)]
  <2>1. /\ Reads({"close"}) /\ braceCount' = braceCount - 1 /\ inServer' = FALSE /\ inServer
        /\ currentServer' = [currentServer EXCEPT !.settings["index"] =
                                OrElse(@, <<"index.html">>)]
        /\ servers' = Append(servers, currentServer')
        /\ UNCHANGED <<currentLocation, inLocation, verdict>>
    BY <1>5 DEF CloseServer
  <2>2. verdict = "reading" /\ file' = file /\ lineNumber' = lineNumber + 1
        /\ lineNumber' \in 0 .. Len(file)
    BY <1>1, <2>1, ReadLine
  <2>3. inServer' \in BOOLEAN
    BY <2>1, Zenon
  <2>4. CountInv'
    BY <1>1, <2>1, <2>2, <2>3, CountStep
  <2>5. currentServer' = [currentServer EXCEPT !.settings = st]
    BY <1>1, <2>1 DEF ServerBlocks
  <2>6. /\ st \in Settings /\ st["index"] # <<>>
        /\ \A d \in Directives : currentServer.settings[d] # <<>> => st[d] # <<>>
    <3>1. "index" \in Directives /\ currentServer.settings \in Settings
      BY <1>1 DEF Directives, EitherKinds, ServerBlocks
    <3>2. <<"index.html">> \in Seq(Values) /\ Len(<<"index.html">>) <= 1 /\ <<"index.html">> # <<>>
      BY ConfigValuesAssumption
    <3>3. QED
      BY <3>1, <3>2, DefaultType
  <2> HIDE DEF st
  <2>7. currentServer' \in ServerBlocks /\ currentServer'.settings = st
        /\ currentServer'.locations = currentServer.locations
    BY <1>1, <2>5, <2>6 DEF ServerBlocks
  <2>8. ServerBegun(currentServer')
    <3>1. {"listen", "root", "client_max_body_size"} \subseteq Directives
      BY DEF Directives, ServerKinds, EitherKinds
    <3>2. ServerBegun(currentServer)
      BY <1>1, <2>1
    <3>3. QED
      BY <2>6, <2>7, <3>1, <3>2 DEF ServerBegun
  <2> DEFINE n == Len(servers)
             new == currentServer'
             all == Append(servers, new)
  <2>9. n \in Nat /\ DOMAIN servers = 1 .. n
    BY <1>1, LenProperties
  <2>10. new \in ServerBlocks /\ servers' = all
    BY <2>1, <2>7
  <2> HIDE DEF new
  <2>11. all \in Seq(ServerBlocks)
    BY <1>1, <2>10, AppendProperties
  <2>12. Len(all) = n + 1 /\ (\A k \in 1 .. n : all[k] = servers[k]) /\ all[n + 1] = new
    BY <1>1, <2>10, AppendProperties
  <2>13. DOMAIN all = 1 .. n + 1
    BY <2>11, <2>12, LenProperties
  <2> HIDE DEF n, all
  <2>14. ASSUME NEW s \in 1 .. n + 1
         PROVE  ServerBegun(all[s]) /\ all[s].settings["index"] # <<>>
    <3>1. CASE s \in 1 .. n
      <4>1. ServerBegun(servers[s]) /\ servers[s].settings["index"] # <<>>
        BY <1>1, <2>9, <3>1 DEF BlocksInv
      <4>2. QED
        BY <2>12, <3>1, <4>1
    <3>2. CASE s = n + 1
      BY <2>6, <2>7, <2>8, <2>12, <3>2 DEF new
    <3>3. QED
      BY <2>9, <3>1, <3>2
  <2>15. BlocksInv'
    BY <1>1, <2>1, <2>7, <2>8, <2>10, <2>11, <2>13, <2>14 DEF BlocksInv
  <2>16. QED
    BY <1>1, <1>2, <2>1, <2>2, <2>4, <2>15 DEF ConfInv
<1>6. CASE CloseOther
  <2>1. /\ Reads({"close"}) /\ braceCount' = braceCount - 1 /\ UNCHANGED <<blockVars, verdict>>
    BY <1>6 DEF CloseOther
  <2>2. verdict = "reading" /\ file' = file /\ lineNumber' = lineNumber + 1
        /\ lineNumber' \in 0 .. Len(file)
    BY <1>1, <2>1, ReadLine
  <2>3. CountInv'
    BY <1>1, <2>1, <2>2, CountStep DEF blockVars
  <2>4. BlocksInv'
    BY <1>1, <2>1, BlocksKeep DEF blockVars
  <2>5. QED
    BY <1>1, <1>2, <2>1, <2>2, <2>3, <2>4 DEF ConfInv
<1>7. CASE LocationLine
  <2> DEFINE K == {"location", "bare_location"}
  <2>1. /\ Reads(K) /\ braceCount' \in {braceCount, braceCount + 1}
        /\ currentLocation' = Location_struct(Line.values[1]) /\ inLocation' = TRUE
        /\ UNCHANGED <<servers, currentServer, inServer, verdict>>
    BY <1>7 DEF LocationLine, Counted
  <2>2. verdict = "reading" /\ file' = file /\ lineNumber' = lineNumber + 1
        /\ lineNumber' \in 0 .. Len(file) /\ Line.values[1] \in Values
    BY <1>1, <2>1, ReadLine
  <2>3. inLocation' \in BOOLEAN
    BY <2>1, Zenon
  <2>4. CountInv'
    BY <1>1, <2>1, <2>2, <2>3, CountStep
  <2>5. currentLocation' \in LocationBlocks
    BY <2>1, <2>2, UnsetType DEF Location_struct, LocationBlocks
  <2>6. BlocksInv'
    BY <1>1, <2>1, <2>5, BlocksKeep
  <2>7. QED
    BY <1>1, <1>2, <2>1, <2>2, <2>4, <2>6 DEF ConfInv
<1>8. CASE ServerDirective
  <2> DEFINE st == With(currentServer.settings, Line)
  <2>1. /\ Reads(Directives) /\ braceCount' \in {braceCount, braceCount + 1}
        /\ currentServer' = [currentServer EXCEPT !.settings = st]
        /\ UNCHANGED <<servers, currentLocation, inServer, inLocation, verdict>>
    BY <1>8 DEF ServerDirective, Counted
  <2>2. /\ verdict = "reading" /\ file' = file /\ lineNumber' = lineNumber + 1
        /\ lineNumber' \in 0 .. Len(file) /\ Line \in LineType /\ Line.kind \in Directives
        /\ Line.kind \notin ListKinds => Len(Line.values) = 1 /\ Line.values # <<>>
    BY <1>1, <2>1, ReadLine
  <2>3. CountInv'
    BY <1>1, <2>1, <2>2, CountStep
  <2>4. currentServer.settings \in Settings
    BY <1>1 DEF ServerBlocks
  <2>5. /\ st \in Settings
        /\ \A d \in Directives : currentServer.settings[d] # <<>> => st[d] # <<>>
    BY <2>2, <2>4, WithType
  <2> HIDE DEF st
  <2>6. currentServer' \in ServerBlocks /\ currentServer'.settings = st
        /\ currentServer'.locations = currentServer.locations
    BY <1>1, <2>1, <2>5 DEF ServerBlocks
  <2>7. ServerBegun(currentServer) => ServerBegun(currentServer')
    <3>1. {"listen", "root", "client_max_body_size"} \subseteq Directives
      BY DEF Directives, ServerKinds, EitherKinds
    <3>2. QED
      BY <2>5, <2>6, <3>1 DEF ServerBegun
  <2>8. BlocksInv'
    BY <1>1, <2>1, <2>6, <2>7, BlocksKeep
  <2>9. QED
    BY <1>1, <1>2, <2>1, <2>2, <2>3, <2>8 DEF ConfInv
<1>9. CASE LocationDirective
  <2> DEFINE st == With(currentLocation.settings, Line)
  <2>1. /\ Reads(Directives) /\ braceCount' \in {braceCount, braceCount + 1}
        /\ currentLocation' = [currentLocation EXCEPT !.settings = st]
        /\ UNCHANGED <<servers, currentServer, inServer, inLocation, verdict>>
    BY <1>9 DEF LocationDirective, Counted
  <2>2. /\ verdict = "reading" /\ file' = file /\ lineNumber' = lineNumber + 1
        /\ lineNumber' \in 0 .. Len(file) /\ Line \in LineType /\ Line.kind \in Directives
        /\ Line.kind \notin ListKinds => Len(Line.values) = 1 /\ Line.values # <<>>
    BY <1>1, <2>1, ReadLine
  <2>3. CountInv'
    BY <1>1, <2>1, <2>2, CountStep
  <2>4. st \in Settings
    <3>1. currentLocation.settings \in Settings
      BY <1>1 DEF LocationBlocks
    <3>2. QED
      BY <2>2, <3>1, WithType
  <2> HIDE DEF st
  <2>5. currentLocation' \in LocationBlocks
    BY <1>1, <2>1, <2>4 DEF LocationBlocks
  <2>6. BlocksInv'
    BY <1>1, <2>1, <2>5, BlocksKeep
  <2>7. QED
    BY <1>1, <1>2, <2>1, <2>2, <2>3, <2>6 DEF ConfInv
<1>10. CASE Ignored \/ LineRefused \/ UnexpectedBrace
  <2>1. \E K : Reads(K)
    BY <1>10 DEF Ignored, LineRefused, UnexpectedBrace, Counted
  <2>2. /\ braceCount' \in {braceCount, braceCount + 1}
        /\ UNCHANGED blockVars /\ verdict' \in {verdict, "refused"}
    BY <1>10 DEF Ignored, LineRefused, UnexpectedBrace, Counted
  <2>3. /\ verdict = "reading" /\ file' = file /\ lineNumber' = lineNumber + 1
        /\ lineNumber' \in 0 .. Len(file)
    BY <1>1, <2>1, ReadLine
  <2>4. CountInv'
    BY <1>1, <2>2, <2>3, CountStep DEF blockVars
  <2>5. BlocksInv'
    BY <1>1, <2>2, BlocksKeep DEF blockVars
  <2>6. QED
    BY <1>1, <1>2, <2>2, <2>3, <2>4, <2>5 DEF ConfInv
<1>11. CASE EndOfFile
  <2>1. /\ verdict' \in {"accepted", "refused"} /\ (verdict' = "accepted" => Acceptable)
        /\ UNCHANGED <<file, lineNumber, blockVars, braceCount>>
    BY <1>11 DEF EndOfFile
  <2>2. CountInv'
    BY <1>1, <2>1 DEF CountInv, blockVars
  <2>3. BlocksInv'
    BY <1>1, <2>1, BlocksKeep DEF blockVars
  <2>4. Acceptable => Acceptable'
    BY <2>1 DEF Acceptable, UniqueBindings, ConfigFinalCheck, blockVars
  <2>5. VerdictInv'
    BY <2>1, <2>4 DEF VerdictInv
  <2>6. QED
    BY <2>2, <2>3, <2>5 DEF ConfInv
<1>12. CASE UNCHANGED vars
  <2>1. UNCHANGED <<file, lineNumber, servers, currentServer, currentLocation, inServer,
                    inLocation, braceCount, verdict>>
    BY <1>12 DEF vars, blockVars
  <2>2. CountInv'
    BY <1>1, <2>1 DEF CountInv
  <2>3. BlocksInv'
    BY <1>1, <2>1 DEF BlocksInv
  <2>4. Acceptable => Acceptable'
    BY <2>1 DEF Acceptable, UniqueBindings, ConfigFinalCheck
  <2>5. VerdictInv'
    BY <1>1, <2>1, <2>4 DEF VerdictInv
  <2>6. QED
    BY <2>2, <2>3, <2>5 DEF ConfInv
<1>13. QED
  BY <1>3, <1>4, <1>5, <1>6, <1>7, <1>8, <1>9, <1>10, <1>11, <1>12 DEF Next

LEMMA ConfInvariant == Spec => []ConfInv
<1>1. ConfInv /\ [Next]_vars => ConfInv'
  BY ConfStep
<1>2. QED
  BY ConfInit, <1>1, PTL DEF Spec

\* Every variable of the parser keeps its type, and the counter of braces stays
\* between the numbers that as many lines as the file has can lead it to.
THEOREM ConfTypeCorrect == Spec => []TypeOK
<1>1. ASSUME NEW b \in ServerBlocks
      PROVE  ServerOK(b)
  <2>1. b.settings \in Settings /\ b.locations \in Seq(LocationBlocks)
    BY DEF ServerBlocks
  <2>2. \A l \in DOMAIN b.locations : b.locations[l] \in LocationBlocks
    BY <2>1, ElementOfSeq, LenProperties
  <2>3. QED
    BY <2>1, <2>2 DEF ServerOK, LocationOK, LocationBlocks, Settings, SettingsOK
<1>2. ASSUME ConfInv
      PROVE  TypeOK
  <2>1. CountInv /\ BlocksInv
    BY <1>2 DEF ConfInv
  <2>2. file \in Seq(LineType) /\ Len(file) \in Nat
    BY <2>1, FilesAssumption, LenProperties DEF CountInv
  <2> DEFINE n == Len(file)
  <2>3. lineNumber \in 0 .. n /\ braceCount \in -lineNumber .. lineNumber
    BY <2>1 DEF CountInv
  <2>4. n \in Nat
    BY <2>2
  <2> HIDE DEF n
  <2>5. braceCount \in -n .. n
    BY <2>3, <2>4
  <2>6. \A s \in DOMAIN servers : ServerOK(servers[s])
    <3>1. servers \in Seq(ServerBlocks)
      BY <2>1 DEF BlocksInv
    <3>2. \A s \in DOMAIN servers : servers[s] \in ServerBlocks
      BY <3>1, ElementOfSeq, LenProperties
    <3>3. QED
      BY <1>1, <3>2
  <2>7. ServerOK(currentServer)
    BY <1>1, <2>1 DEF BlocksInv
  <2>8. LocationOK(currentLocation)
    BY <2>1 DEF BlocksInv, LocationOK, LocationBlocks, Settings, SettingsOK
  <2>9. QED
    BY <2>1, <2>2, <2>3, <2>5, <2>6, <2>7, <2>8 DEF TypeOK, CountInv, n
<1>3. ConfInv => TypeOK
  BY <1>2
<1>4. QED
  BY <1>3, ConfInvariant, PTL

\* Whatever the file looks like, what parse() and configFinalCheck let pass has
\* everything the request handlers take from it without asking.
THEOREM AcceptedServes == Spec => []AcceptedIsServable
<1>1. ASSUME ConfInv, verdict = "accepted"
      PROVE  /\ servers # <<>>
             /\ \A s \in DOMAIN servers :
                   /\ \A d \in {"listen", "server_name", "root", "index", "client_max_body_size"} :
                         servers[s].settings[d] # <<>>
                   /\ servers[s].locations # <<>>
                   /\ \A l \in DOMAIN servers[s].locations :
                         \A d \in {"root", "methods"} :
                            servers[s].locations[l].settings[d] # <<>>
  <2>1. BlocksInv /\ Acceptable
    BY <1>1 DEF ConfInv, VerdictInv
  <2>2. servers # <<>>
    BY <2>1 DEF Acceptable, ConfigFinalCheck
  <2>3. ASSUME NEW s \in DOMAIN servers
        PROVE  /\ ServerBegun(servers[s]) /\ servers[s].settings["index"] # <<>>
               /\ servers[s].settings["server_name"] # <<>> /\ servers[s].locations # <<>>
    BY <2>1 DEF BlocksInv, Acceptable, ConfigFinalCheck, ServerChecked
  <2>4. QED
    BY <2>2, <2>3 DEF ServerBegun
<1>2. ASSUME ConfInv, verdict = "accepted", NEW s \in DOMAIN servers, NEW t \in DOMAIN servers,
             s # t, servers[s].settings["listen"] = servers[t].settings["listen"]
      PROVE  ToSet(servers[s].settings["server_name"])
                \intersect ToSet(servers[t].settings["server_name"]) = {}
  <2> DEFINE a == servers[s].settings["server_name"]
             b == servers[t].settings["server_name"]
  <2>1. a # <<>> /\ b # <<>>
    BY <1>1, <1>2
  <2>2. UniqueBindings
    BY <1>2 DEF ConfInv, VerdictInv, Acceptable
  <2>3. /\ Keys(servers[s]) = [k \in DOMAIN a |-> <<servers[s].settings["listen"][1], a[k]>>]
        /\ Keys(servers[t]) = [k \in DOMAIN b |-> <<servers[t].settings["listen"][1], b[k]>>]
    BY <2>1 DEF Keys, OrElse
  <2>4. ASSUME NEW j \in DOMAIN a, NEW k \in DOMAIN b
        PROVE  a[j] # b[k]
    <3>1. j \in DOMAIN Keys(servers[s]) /\ k \in DOMAIN Keys(servers[t])
      BY <2>3
    <3>2. Keys(servers[s])[j] # Keys(servers[t])[k]
      BY <1>2, <2>2, <3>1 DEF UniqueBindings
    <3>3. QED
      BY <1>2, <2>3, <3>2
  <2>5. ToSet(a) = {a[j] : j \in DOMAIN a} /\ ToSet(b) = {b[k] : k \in DOMAIN b}
    BY DEF ToSet
  <2> HIDE DEF a, b
  <2>6. ToSet(a) \intersect ToSet(b) = {}
    BY <2>4, <2>5
  <2>7. QED
    BY <2>6 DEF a, b
<1>3. ConfInv => AcceptedIsServable
  BY <1>1, <1>2 DEF AcceptedIsServable
<1>4. QED
  BY <1>3, ConfInvariant, PTL
=============================================================================
