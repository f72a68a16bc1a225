# WebServer_Hive: verification of the server

TLA+ models of the C++ web server in this repository (`srcs/`, `includes/`, `main.cpp`),
TLC instances that model-check them, and TLAPS proofs. Line numbers refer to
`srcs/Server.cpp` unless another file is named.

1. [The system](#1-the-system)
2. [Modules](#2-modules)
3. [EventLoop](#3-eventloop)
4. [Cgi](#4-cgi)
5. [Locations and Router](#5-locations-and-router)
6. [RequestFraming](#6-requestframing)
7. [Configuration](#7-configuration)
8. [Abstract specifications and refinement](#8-abstract-specifications-and-refinement)
9. [Runs, bounds and results](#9-runs-bounds-and-results)
10. [Fairness](#10-fairness)
11. [Proofs](#11-proofs)
12. [What the checks found](#12-what-the-checks-found)
13. [What is not modelled](#13-what-is-not-modelled)
14. [Plan](#14-plan)

Running: `tlc -config MCEventLoop_oneshot.cfg MCEventLoop`, `tlapm EventLoopProofs.tla`.

## 1. The system

One process and one thread. `main` parses a configuration file, checks it and calls
`Server::start_server`, which never returns in normal operation.

| component | state | operations | talks to |
|---|---|---|---|
| event loop (`Server.cpp`, `Server.hpp`) | `m_fds` (poll set), `m_clientOrigin`, `m_fdToPort`, `m_listenerFdSet`, `m_seen`, `m_portToFd`, `m_inbuf`, `m_outbuf` | listen, poll, scan, accept, read, process, write, close | kernel sockets; parser, Router, CGI by calls |
| request framing (`HTTP_IsRequestComplete`) | none, a function of `m_inbuf[fd]` | is the buffer a complete request? | event loop |
| request parser (`RequestParser.cpp`, `Request.cpp`) | the `Request` it builds | `parse`, which throws on a bad request | event loop |
| location matching and CGI dispatch (lines 6-24, 298-379) | none | longest matching location, defaults, is it a CGI, path of the script | configuration, file system |
| Router (`Router.cpp`, `RouterMethods.cpp`) | files below a document root and its upload directory | redirects, method table, GET, POST, DELETE | file system |
| CGI (`Cgi.cpp`) | two pipes and a child process per call | `runCgi`, which blocks | script process |
| responses (`Response.cpp`, `ResponseHandling.cpp`) | the `Response` it builds | `initialize`, `fromErrorCode`, `serializer` | Router, event loop |
| configuration (`ConfigParser.cpp`, `ConfigCheck.cpp`) | server blocks with their locations | `parse`, `configFinalCheck`, which throw | `main` |

**How they interact.** `poll()` fills `revents`; the scan goes over `m_fds` by index
and, for one entry at a time, closes a client with an error, accepts on a listener,
writes a response or reads. A read that completes a request is parsed and routed in
the same call, or hands the thread to `runCgi` until the script is done. Everything is
keyed by descriptor numbers, which the kernel reuses as soon as they are closed.

**What is hard.**

* The scan changes the vector it walks over: a close erases at the index, an accept appends.
* Five maps and a vector have to change together when a descriptor comes or goes, and a
  number that is freed in a scan can come back in the same scan.
* Sockets change between `poll()` and the call that relies on its answer: a peer shuts
  down or resets, a buffer fills, another client connects. A CGI call in between may
  take any time.
* A response goes out in parts while more input arrives.
* Errors: at the descriptor limit, in `fcntl`, `accept`, `poll`, in a script, as an
  exception of the Router.
* `runCgi` deals with two pipes of bounded size, a process that may write, read, hang, die
  or leave a child of its own, a time limit, and `waitpid`.

**What makes each component correct.**

| component | property |
|---|---|
| event loop | tables and kernel agree; one scan serves each ready descriptor once; no byte crosses from one connection to another; each client is answered with the first server block of the port it connected to; a response arrives whole; a request is carried out once; a connection is closed after its answer and not before; every request is answered; every connection is released; the process survives |
| CGI | the call returns; a success means a complete output; no process is left behind, and no descriptor once a script was started |
| framing, parser | a request is complete exactly when its bytes are there, however they are split; framing, parser, decoder, limits and scripts agree on where the body ends and what it is |
| Router | what was uploaded can be fetched and deleted under its name; an upload never overwrites; files change as the answer says and not otherwise |
| configuration | an accepted file yields all its blocks with the values written in them |

## 2. Modules

| module | what it is |
|---|---|
| `EventLoop` | the event loop over a model of the kernel and the clients |
| `ResponseHandling` | the decision on the `Connection` header, used by `EventLoop` |
| `Exchange` | abstract: what the loop promises a client with one request |
| `MCEventLoop` + 6 cfg | instances of `EventLoop` |
| `EventLoopProofs` | theorems about `EventLoop`: types, poll set, scan |
| `EventLoopDataProofs` | theorems about `EventLoop`: buffers and responses |
| `EventLoopExchangeProofs` | theorems about `EventLoop`: reports of `poll()`, the exchange with one request, `Exchange` |
| `Cgi` | one call of `runCgi`: thread, script, pipes |
| `CgiCall` | abstract: what a call promises its caller |
| `MCCgi` + 2 cfg | instances of `Cgi` |
| `CgiProofs` | theorems about `Cgi`, and that it implements `CgiCall` |
| `Locations` | longest match, defaults of a location, what counts as a CGI request |
| `Router` | `handleRequest` and the GET, POST and DELETE handlers over the file system; extends `Locations` |
| `UploadStore` | abstract: what the Router promises the clients of an upload directory |
| `MCRouter` + cfg | an instance of `Router` with the locations of `full_test.conf` |
| `RouterProofs` | theorems about `Router`, and that it implements `UploadStore` |
| `RequestFraming` | from the bytes of a connection to the body a handler or a script gets |
| `MCRequestFraming` + 2 cfg | messages of every form and many that have none |
| `FramingProofs` | theorems about `RequestFraming` |
| `Configuration` | `parse` and `configFinalCheck` over the lines of a file |
| `MCConfiguration` + cfg | good files and everything one edit makes of them |
| `ConfigurationProofs` | theorems about `Configuration`: types, and what an accepted file has |
| `NestingProofs` | theorem about `Configuration`: an accepted file is what its nesting says |

`EventLoop` sees a CGI call from outside: `StartCgi`, any amount of activity of the
clients, and `FinishCgi` or `CgiKillsServer`. `Cgi` is the inside of that call; that
it ends is a property there (`Returns`), and `EventLoop` relies on it for its liveness.
Likewise `RouteRequest` and `RouterThrows` are what `EventLoop` sees of one step of
`Router`, whose status 0 (`Thrown`) is the exception that ends the process.
`Completeness` in `EventLoop` says when a buffer is complete; `RequestFraming` is the function behind
it, and `JudgedAtItsEnd` there is what makes the two segments of `EventLoop` a fair picture of a request.
`RequestFraming` ends where `Router` begins (`HandlePOST` is the part of `handlePOST` about lengths and
bodies, `RefusedLength` and `body` in `Router` the rest). `Configuration` yields what `ServerPorts`,
`Locations` and `Server` are constants for.

Definitions named `Name_Variant` directly before `Name` are the same definition with a
typical bug in it. They are not part of the specification: each one is swapped in once to
see that the property it belongs to notices.

## 3. EventLoop

**Grain.** One action is the code between two system calls another process can observe.
Parsing, routing and the changes of the tables that belong to one entry of the scan are
one step, since nobody else runs in this process; a CGI call is two steps, because
the clients go on during it, and `sendError` with its close is two steps.

**State.**

| variable | code |
|---|---|
| `pc`, `i` | the place in `start_server`, and the index of the loops at lines 190 and 525 |
| `m_fds` | `m_fds`: records with `fd`, `events`, `revents`, where `"ERR"` stands for POLLERR, POLLHUP and POLLNVAL |
| `m_fdToPort` | `m_fdToPort`; `m_listenerFdSet` and `m_seen` are its domain and range, since all are filled together and never reduced |
| `m_clientOrigin`, `m_inbuf`, `m_outbuf` | the maps of the same names; `None` or `<<>>` for no entry |
| `sock` | the kernel's descriptor table |
| `link`, `port`, `script`, `peer`, `sent`, `taken`, `writable`, `got` | per connection: its stage, the port it is made to, the requests its client sends, whether the client shut down or reset, segments sent and received, room in the send buffer, what the kernel took for the client |
| `executed`, `due` | history: requests carried out; descriptors a scan has yet to visit |

An `m_outbuf` entry with an empty string does not occur (a serialized response is never
empty and `handleClientWrite` erases the entry with its last byte), nor does
an `m_inbuf` entry without bytes: `<<>>` for "no entry" loses nothing.

**Data.** A request is two segments: its head, which announces a body, and the body.
That is enough for a request to arrive in one piece or in two, and for two
pipelined requests to share one buffer. A response is `RespLen` pieces that know whom
they are for, which request they answer, their place, what they announce and which
server block composed them. What parser, matching and Router decide about a request is
its `kind`: the Router answers, a script is run, the request is rejected by `sendError`
(400, 413, 403, 404), or an exception escapes.

**Actions and code.**

| code | actions |
|---|---|
| `initializeListeners`, `create_listener` (26-68, 188-206) | `SkipSeenPort`, `CreateListener`, `ListenersReady`, `ExitOnFailure` |
| `poll` (518-523) | `Poll`, enabled when something is ready; `ExitOnFailure` |
| the scan (525-551) | `HandlePollError`, `PassOver`, `StartAccept`, the write and read actions, `EndScan`; the order of the tests is in `HasError`, `IsListener`, `MayWrite`, `MayRead` |
| `acceptNewConnections` (220-245) | `Accept` once per connection, `AcceptThenDrop` (failing `fcntl`), `EndAccept` |
| `handleClientWrite` (247-276) | `SendPart`, `SendRest`, `SendFails`, `SendKillsServer` |
| `readClientData`, `handleClientRead` (278-296, 491-504) | `ReadFails`, `ReadIncomplete`, and the next row |
| `processCompleteRequest`, `handleCgiRequest`, `sendError` (162-176, 381-489) | `RouteRequest`, `StartCgi`/`FinishCgi`/`CgiKillsServer`, `SendError`/`CloseAfterError`, `RouterThrows` |
| `closeClientConnection` (178-186) | the operator `CloseClientConnection`, part of every action that closes |

`RouteRequest` leaves the request in `m_inbuf` (line 479 ff.), `FinishCgi` erases it
(line 409): the model keeps this difference. A buffer that starts in the middle of a
request, which is what remains when a CGI request took the beginning of the next one
with it, may look complete or not and does not parse.

**Kernel and clients.** The lowest free descriptor is handed out. A listener is
readable while a connection waits for it. A client may connect, send, shut down, reset
(also after a shutdown) and read. `recv()` returns any part of what has arrived, `send()`
takes any part if there is room, and less than all of it means the buffer is full.
After a FIN of the peer a `send()` still succeeds; after FIN and RST it
raises SIGPIPE. `Faults` names which of the rare events an instance contains.

**Properties.** Every one is commented where it is defined. The ones that carry most:

* `PollSetMatchesSockets`: poll set, maps and kernel agree, entry by entry; listeners
  come first, which is why `--index` at line 185 never wraps.
* `ReadyVisitedOnce`: `due`, what poll reported and the scan has not visited, is always
  exactly what the entries from `i` on report.
* `OwnBytesOnly`: after the reuse of a descriptor its buffers hold bytes of the new
  connection only, in order and without a gap.
* `AnsweredByFirstOfPort`: the two maps by which `processCompleteRequest` finds a port lead to the one
  the client connected to, however descriptors were reused, and to the first block that listens there. It is not the
  block a Host header names (section 12).
* `ResponseIntegrity`, `ExecutedOnceInOrder`, `CloseOnlyAfterAnswer`: the exchange with
  a client that sends one request. For a second request they fail (section 12).
* `RequestAnswered`, `ConnectionReleased`: liveness.

## 4. Cgi

Two processes in one module: the thread (`Pipe` to `Status`, in the order of
`runCgi`), and the script, whose program is a sequence of steps from `Steps`. Bodies, outputs
and pipes are counted in units of one write. `ends` and `childEnds` are the pipe ends
the two sides have open: a reader sees the end of a pipe when nobody has the
write end, a writer is killed when nobody has the read end. `spawn` models a script that leaves a
process behind which inherits stdout: its end of the pipe stays open.

`Timeout` is enabled when `select()` has nothing to read; time is abstracted, so the model
covers scripts of every speed. The budget is for the whole read, because `select()`
on Linux counts `tv` down (Cgi.cpp:13-20): once a timeout is possible nothing resets it.
A body is written before anything is read (`WriteBody`), so the script has to read. The three ways out of
`Wait` and the statuses 504, 502, 500 and 200 follow lines 106-124 and 169. Scripts are sequences of
steps of which the last one, and no other, ends the process (`WellEnded`).

`OkMeansComplete` is the property a reader of the code would ask about: status 200
implies that the process exited with 0, that the read saw the end of the pipe, and
that no unit was left in it. `NoProcessLeft` and `PipesClosed` are the cleaning up; `PipesClosed` speaks of calls that started
a script, since the exits behind a failing `pipe()` or `fork()` close nothing (section 12).

## 5. Locations and Router

The thread handles a request in one step, so nothing interleaves inside a handler. What
is hard is the history: files come and go through the requests of many clients, and POST, GET and
DELETE each put together the path they mean in their own way:

| method | file |
|---|---|
| GET `/uploads/a` | docroot + whole path, or that with `.html`; a directory's index or its listing |
| POST `/uploads/a` | docroot / upload_path / last part of the path |
| DELETE `/uploads/a` | docroot / upload_path / what follows `/uploads/` |

**State.** `fs` is the file system, a function from paths to contents and `Dir`. `answer`
is the last request with its status and body. `acked` is history: for the url of an upload that
was answered with 201, its body, until a DELETE of that url is answered with 204. The
process keeps nothing between requests; after an exception it is started again over
the same files, so a restart is no step of its own.

**Actions and code.**

| code | actions |
|---|---|
| `Router::handleRequest` (Router.cpp:67-120) | `HandleRequest`: `Redirect`, `NotAllowed`, or a handler (`Routed`) |
| `handleGET`, `generateDirectoryListing` (RouterMethods.cpp:55-202) | `GetForbidden` (403), `GetFound`, `GetFails` (500), `GetMissing` |
| `handlePOST` (222-272) | in the order of its exits: `PostRefused` (411, 413, `stoi` throws), `PostBlocked` (`create_directories` throws), `PostForbidden` (403), `PostConflict` (409), `PostFails` (chunks that do not decode, 500), `PostStores` (201) |
| `handleDELETE` (274-311) | `DeleteForbidden` (403), `DeleteMissing`, `DeleteRemoves`, `DeleteFails` |
| `matchLocation`, `setLocationDefaults`, `checkCgiRequest` (Server.cpp:6-24, 298-343) | the operators `MatchLocation`, `Place`, `IsCgi` |

`create_directories` precedes every later exit of `handlePOST`, so all of them leave its
directories (`WithDirectories`), the refusals and the exceptions too.

**Data.** A url is the sequence of its parts; an empty last part is a trailing slash, and a part may be "..". The
file name of a Content-Disposition header, which `handlePOST` takes as it is, is such a sequence too, absolute when
it begins with an empty part. Prefixes are compared as strings, in `matchLocation` (`/upload` covers `/uploads/a`) and in
the three tests that end in 403: both are `Covers`, with the constant `Begins` for names that begin with other names.
`Canonical` is what `weakly_canonical` does to such a path. Names and bodies are values; `Lower` and `WithHtml` are the
two conversions that change which file is meant. The parsed request is a record with the kind of its length (none, a
number, too large, no number, chunks). `Faults` says whether a file may fail to be created (`open`), a file or a
directory to be read (`read`), or a write may be cut short without anybody noticing (`full`, content `Cut`).

**Properties.**

* `UploadServed`: between POST, GET and DELETE of one url, an acknowledged body is what
  is served. It depends on the three ways above to mean the same file. A DELETE by a url with ".." ends what was
  acknowledged under the plain url of that file (`Meant`).
* `ChangesAsAnswered`: 201 is exactly one new file, 204 exactly one entry less, anything
  else leaves all files alone, and no step changes a content.

The model has the paths that the tests against 403 refuse and the ones they let pass; no property says which directory a
path has to stay in, since the tests are on beginnings of strings.

## 6. RequestFraming

A message is read in pieces of any size. After each piece `HTTP_IsRequestComplete` looks at everything
that was read; once it says yes, the parser, the limit on the body, the Router or a script work on
what is there by then. The length of a body is determined four times:

| where | lookup | value |
|---|---|---|
| framing (133-160) | any case, first line of that name | `strtoul` |
| limit (432-436) | case of the code, last line | `strtoul` |
| `handlePOST` (RouterMethods.cpp:226-231) | case of the code, last line | `stoi`, which throws |
| script (Cgi.cpp:70) | case of the code, last line | the text, as CONTENT_LENGTH |

and the end of a chunked body twice: by a search for the text of the last chunk (130) and by
`decodeChunkedBody`, which counts (RouterMethods.cpp:37-53).

**State.** `message` is what the client sends, the beginning of a next request included (`next`);
`read` how much of it has arrived; `outcome` who acted on it, with which status, CONTENT_LENGTH and body.

**Data.** The lines of the head are one unit each, since a part of a line is no line to either reader. The body
is a sequence of characters, because framing, forms and chunks are searched as text: CR, LF, digits, a few
other characters and the boundary. `Radix` and `DigitValue` say what a chunk size means; `Strtoul` and
`NoNumber` what the two conversions make of a header's value. Two fields are the client's side: `data`, the
content it means by the body, and `chunks`, where each of its chunks begins in the body and in the data. `Meant`
says that the body does carry the data: as it is, in chunks laid one behind the other (`InChunks`), or as the part
of a form with a length (`InForm`). A form sent in chunks is not among them, since the code decodes it as chunks
and does not cut it.

**Properties.** `JudgedAtItsEnd`: well-formed requests are acted on with their last byte, however the
network cuts them. `BodyAsSent`: what is stored or given to a script is exactly what the client meant. It does not
hold (section 12). `DelimitedBodyAsSent` says where it does: for bodies whose end the code finds, at a boundary, at the only
text of a last chunk, or because the client sends nothing behind them, and for chunks that go to the Router.
`ScriptToldLength`: a script that reads CONTENT_LENGTH bytes has read the body. These are about messages
whose body carries what they mean (`Meant`). Well-formed is defined
from HTTP/1.1 (`LengthForm`, `ChunkedForm`, `NoBodyForm`), not from the code. The model contains all other
messages as well, and on some the code does what no document asks for; these are in section 12.

## 7. Configuration

The parser has no stack: two flags (`inServer`, `inLocation`), one server block and one location block
under construction and a brace counter. Each line is one step, so what a line does depends on all the
lines above it.

| code | actions |
|---|---|
| `parse`, server line and closing brace (ConfigParser.cpp:43-96) | `ServerLine`, `CloseLocation`, `CloseServer`, `CloseOther` |
| `parse`, brace counter (98-102) | `Counted`, `UnexpectedBrace` |
| `parseLine` (146-397) | `LocationLine`, `ServerDirective`, `LocationDirective`, `Ignored`, `LineRefused` |
| end of file and `configFinalCheck` (108-143, ConfigCheck.cpp) | `EndOfFile` with `Acceptable`: `UniqueBindings`, `ServerChecked`, `LocationChecked` |

A line is its kind, what the first word and the brace make of it, with its values. Kinds follow where
`parseLine` stores a directive (`ServerKinds`, `LocationKinds`, `EitherKinds`) and whether it adds or
overwrites (`ListKinds`). A line that is refused for its characters (a missing semicolon, a port
out of range) is `faulty`.

`Keys` are the bindings of a block, its port with each of its names; `UniqueBindings` says that no two of them are
equal, which is what the set in `parse` (108-128) finds out.

`Meaning` reads the same file by the depth of its braces, without flags: a block's lines are those between its
braces (`Inside`), a directive's value is what those lines give it (`Given`: all values joined, or the last one). `BlocksKept` compares the two:
what is accepted is what the nesting says, for well-nested files (`WellNested`): braces match in nesting and not in number
only, a brace on a line of its own follows a location line, and every directive stands in a block. `AcceptedIsServable` holds for every file, however
its braces stand: the handlers may take the first index, the port and the methods without asking. Two things `Meaning`
takes from the code, which has no other description of them: the root a location inherits (`LocationMeant`), and that
location directives at server level belong to no block (section 12).

## 8. Abstract specifications and refinement

Each is a few lines, has none of the machinery of the detailed module, and is checked as a `PROPERTY`
under a mapping of the detailed state.

* `Exchange`, implemented by `EventLoop` (`ExchangeImplemented`, run `loop_oneshot`): a connection is carried out
  once, delivered from the first piece to the last, closed with the last one, given up only after the
  client has left. Mapped: the length of `executed`, the parts in `got`, `link`, `peer`, `pc`. The mapping
  forgets descriptors, buffers and the poll set: they must not show.
* `CgiCall`, implemented by `Cgi` (`CallImplemented`, run `cgi_ending`): one answer, in the end, and 200 only
  with all that the script had planned to write, 502 only for a crash. `Plan` is put together from what the
  script has done and what it has left to do (the units written, with the writes in `todo`; its last step), so it is
  constant although `todo` is not. `CgiCall`'s specification is its safety part (`Safety`), which is proved as well,
  and that the answer comes, which is checked only.
* `UploadStore`, implemented by `Router` (`StoreImplemented`, run `router`): a map from urls to bodies.
  POST takes a free url, GET yields what is stored if it can be read, DELETE removes what it names, everything else, errors
  and exceptions included, changes nothing. The mapping takes the files of the file system that GET would find.
  A DELETE by a url with ".." (`Indirect`) may mean any one of the stored urls, and an upload whose file name is a path may
  go where none of them leads (`PutElsewhere`).
  It is a store only where the three methods mean one directory, which is what the two assumptions of its theorem say
  (section 11).

## 9. Runs, bounds and results

| run | instance | checks | distinct states |
|---|---|---|---|
| `loop_shared` | 3 blocks on 2 ports, 3 descriptors; 2 clients with one request, or with two of which the second makes the Router throw; shutdown, reset, failing `fcntl` and `accept` | `TypeOK`, `PollSetMatchesSockets`, `ThreadAtEntry`, `OwnBytesOnly`, `AnsweredByFirstOfPort` | 2.3 M |
| `loop_oneshot` | 1 port, 3 descriptors; 2 clients with one request each, to the Router or a script, responses of 3 pieces; shutdown, POLLERR of the listener, exits, SIGPIPE from a script; fair | `ResponseIntegrity`, `ExecutedOnceInOrder`, `PollSetMatchesSockets`, `ReadyVisitedOnce`, `CloseOnlyAfterAnswer`, `ExchangeImplemented`, `RequestAnswered`, `ConnectionReleased` | 0.27 M |
| `cgi_ending` | 7 scripts that end, body of up to 3, pipe of 2; failing `pipe`, `fork`; fair | `TypeOK`, `OkMeansComplete`, `NoProcessLeft`, `PipesClosed`, `Returns`, `CallImplemented` | 455 |
| `router` | locations of `full_test.conf`; two file names, two bodies, uploads without a name, stray posts, chunks, file names that are paths, GET and DELETE of urls in and above the upload directory, some with ".."; an upload directory that is there with a subdirectory, is missing, or is a file; full disk, failing open and read | `TypeOK`, `UploadServed`, `ChangesAsAnswered`, `StoreImplemented` | 10.5 k |
| `framing` | 119 messages: bodies with a length, in up to 3 chunks, as forms, none; with and without the beginning of a next request; headers in two cases, twice, contradictory; lengths that are no number, too large, negative | `TypeOK`, `JudgedAtItsEnd`, `DelimitedBodyAsSent`, `ScriptToldLength` | 1.6 k |
| `config` | 6 server blocks with 1 or 2 locations, all pairs of them, and each file with one line removed or one of 15 lines inserted anywhere; files whose braces cross | `TypeOK`, `BlocksKept`, `AcceptedIsServable` | 0.25 M |
| `second_request`, `error_page`, `keep_alive`, `router_throws`, `cgi_hanging`, `pipelined_body` | the smallest instance that shows it | one property each, violated | |

**Why the bounds are enough.** Hazards of the scan need two entries that change in the
same scan and a descriptor that is freed and handed out again. `loop_shared` gives the
clients a single descriptor, so every second connection reuses one and `accept()`
runs into the limit; the same port appears in two blocks. `loop_oneshot` has two clients at a time, so a
close moves an entry that is still to be visited and an accept appends behind entries that are being
visited. In both all orders of closing, accepting and reporting occur. A response of three pieces can be
interrupted twice and resumed with more than one piece left. A client that pipelines two requests of
two segments gives every split of a request over reads, and buffers that begin with
the second half of one. What more clients, descriptors or pieces would
add is covered by the theorems for the properties that are proved.

The Router's requests form a closed set, so its state space is finite without a bound on their number: all
histories of those requests are covered. `a` and `a.html` are both uploaded, since GET may
take one for the other; `A` meets `a` after its conversion to lower case; the three trees make
`create_directories` create, find and throw. `DELETE /uploads/` removes the upload directory itself in some of the histories.

In `framing` every way to cut a message into reads is covered. Chunk data contains digits, line ends and the
beginnings of a last chunk, so a search that is too greedy or a count that is off by one shows; "10" is
a chunk of two characters, because `Radix` is 2 there, and a Content-Length of ten. In `config` one edit is
enough to lose, double or move any brace, block or directive, in files with a second block for it to leak into.

Deadlock checking is off (`CHECK_DEADLOCK FALSE`): a server whose clients are all done
blocks in `poll()` for ever, a process that is down stays down, and a call, a message and a file
have an end. That the thread is not stuck while there is work is what `RequestAnswered`,
`ConnectionReleased`, `Returns` and `CallImplemented` say.

`Symmetry` exchanges the two clients, which have equal sets of scripts; it is used in `loop_shared`,
for safety only.

## 10. Fairness

`WF_vars(Server)`: the thread runs when it can. Every action of `Server` is the next
thing the one thread does, and no two of them compete for the same entry, so weak fairness
of their disjunction is enough; which part of a buffer a `send()` or a `recv()`
takes stays free. `WF_vars(Drain(c))`: a client that has the server's response in front of it
reads. Clients need neither connect nor send. In `Cgi` thread and script are fair;
`hang` is a step that is never enabled.

Liveness is stated with `pc = "down"` as a way out: exits are part of the code.

## 11. Proofs

For all values of the constants: any number of connections, descriptors and server
blocks, any responses and request sequences, all faults.

`EventLoopProofs`:

* `TypeCorrect` (`Spec => []TypeOK`) and `ThreadStaysAtEntry`. `TypeOK` is not inductive:
  `FinishCgi` and `CloseAfterError` use the entry at `i`, so the typing of what they write
  depends on the thread still standing at a client's entry. `TypeInv` is
  the conjunction of both.
* `PollSetCorrect` (`[]PollSetMatchesSockets`). The inductive invariant `PollInv` adds
  `ListenersOnly`: until the first poll there are listeners only. One lemma per way
  the tables change (a listener is appended, a client is appended, a client's entry is
  erased, nothing changes) carries the step; `RemoveAt` is opened up once, to say that its
  entries are the old ones shifted.
* `ReadyVisited` (`[]ReadyVisitedOnce`). It needs both: that descriptors are unique in
  `m_fds`, so visiting an entry takes its descriptor out of `due`, and that
  appended entries report nothing.

`EventLoopDataProofs`:

* `BytesStayTheirOwn` (`[]OwnBytesOnly`) and `FirstOfPortAnswers` (`[]AnsweredByFirstOfPort`),
  by one invariant in three parts: input, output and received pieces
  (`InputOwned`, `OutputOwned`, `GotOwned`), each per descriptor or connection. A free
  descriptor has empty buffers, so a new connection starts clean; `recv()` appends to the one
  descriptor of its connection, which is unique by `PollSetMatchesSockets`; a
  response is composed from the front of a buffer, which is the connection's own.
* `FindServerByPortCorrect`: `findServerByPort` yields the first block of a port, which exists when any
  block listens there, by the least element of a set of indices.

`EventLoopExchangeProofs`:

* `ReportsHold` (`[]ReportsStillTrue`): what `poll()` reported about a client is still so when the scan gets to
  its entry, whatever was closed, accepted, answered or waited for on the way. This is what makes it safe to work through
  one snapshot of `revents` with blocking calls in between, and it needs `PollSetCorrect`: a step that serves an entry
  disturbs no other one.
* `OneResponseInOrder` (`[]ResponseIntegrity`) and `RequestExecutedOnce` (`[]ExecutedOnceInOrder`) under
  `OneRequestEach`, `ClosesOnlyAfterAnswer` (`CloseOnlyAfterAnswer`) under `NoneRejected` as well. Both assumptions are
  about the clients, and are needed: `second_request` and `error_page` violate the properties without them. The inductive
  invariant `ExchangeInv` says for each connection how `executed`, what was read, the two buffers and what was
  received go together: before the execution all that was read is in `m_inbuf`; after it everything was read, and
  what the client got and what is queued are the response, in order.
* `LoopImplementsExchange` (`Spec => ExchangeImplemented`), also without the fault `fcntl`, with which a connection is
  dropped that no request was read from: every step is a step of `Exchange` (`CarryOut`, `Deliver`, `GiveUp`, `Leave`, `Stop`) or a stutter.

`CgiProofs`: `CgiTypeCorrect`, `OkComplete`, `NoneLeft`, `PipesGivenBack`. The
inductive invariant `CgiInv` says for each place of the thread which ends are open and what
has become of the process (`StageInv`), and that units are conserved:
what was read plus what is in the pipe is what was written, and once the thread has seen
the end of the pipe no writer is left (`OutputInv`). `CallAnswersOnce` is the safety part of the refinement:
`Plan` never changes, since a script ends with its last step only (`PlanInv`), and a call that is answered for with
200 has read all of it.

`RouterProofs`: `RouterTypeCorrect`, `ChangesCorrect` and `UploadsServed`, for all locations, names, requests,
paths with "..", initial trees and faults.

* `TreeInv` is `TypeOK` and that the files are a tree (`IsTree`), and inductive. Three lemmas on the operators carry it:
  adding the prefixes of a path whose existing ones are directories keeps a tree, so does
  adding a file under one of its directories, and so does removing an entry with an empty `Listing`.
* `UploadsServed` is `ASSUME UploadsAtHome PROVE Spec => []UploadServed`. `UploadsAtHome` says
  that urls below `/uploads` share one document root, that their upload directory is `uploads` below it,
  and that posts have one part after `/uploads/`. That is `full_test.conf` with its upload
  page. It fails for an `upload_path` of any other name, and so does `UploadServed`. The inductive
  invariant (`ServedInv`) names the file: each acknowledged url's body, or its cut form,
  is where the name of the url says. A DELETE of another plain url, or of the upload
  directory, cannot take it away; a POST cannot replace it, because the name is taken.

* `RouterImplementsStore` is `ASSUME UploadsAtHome, UploadsTogether PROVE Spec => StoreImplemented`.
  `UploadsTogether` says that GET looks for every upload in the root that posts to `/uploads/` have. Both
  hold of `full_test.conf` and of the run's instance. Without the second one a file below `/uploads` might be visible under
  another root. The proof shows that `create_directories` and the deletion of a directory leave the map alone, that
  a POST that stores adds one url, which was free, and that a DELETE takes at most one url away.

`FramingProofs`: for all messages, limits, radixes and ways to cut a message into reads.

* `JudgedInTime` (`[]JudgedAtItsEnd`), `ScriptReadsItsBody` (`[]ScriptToldLength`), `DelimitedBodiesArrive`
  (`[]DelimitedBodyAsSent`) and `FramingTypeCorrect` (`[]TypeOK`). The inductive invariant `FramingInv` is short: an outcome is there exactly
  when the request is complete, and it is one of those of what had been read then (`Outcomes`). The rest is about operators.
* A length or the text of a last chunk is found when the last byte of it is in, and not before; with
  `ChunkedForm` the text occurs once, with `LengthForm` the first line of the name is the only one.
* `Number` and the decoder are recursive functions. That they exist, and are what their equations
  say, is proved by least counterexample, since induction theorems with an operator parameter are of no use here. That the decoder
  yields the client's data follows from the last chunk down to the first: the least number of chunks from the end for which
  it would be false contradicts the equation at that chunk. What the decoder makes of a body that is not in chunks is only typed.
* A form is cut at the first empty line and the first boundary behind it, and loses the line ends at its end.

`ConfigurationProofs`: `ConfTypeCorrect` and `AcceptedServes` (`[]AcceptedIsServable`), for all files. `ConfInv` is
the counter of braces (`CountInv`), the types of the blocks and that a server block under construction has had its
defaults since its line (`BlocksInv`), and that an accepted file has passed its tests (`VerdictInv`).

`NestingProofs`: `BlocksAreKept` (`[]BlocksKept`), for all well-nested files, of any length and number of
blocks. The parser has no stack, so what it holds has to be told from the lines it has read. The inductive invariant
`NestInv` does that, behind line n and as long as nothing has been thrown:

* `Flags`: `braceCount` is the depth in front of line n + 1 and at most 2, `inServer` says that it is not 0,
  `inLocation` that it is 2 or that line n is a location whose brace is still to come.
* `ServersBuilt`: `servers` are the meanings of the blocks that are closed; the block under construction was opened by
  the last server line, no brace has closed it since, and its settings are those that the lines behind it give
  (`ServerSoFar`, the defaults included, which is where the order of defaults and directives matters).
* `LocationsBuilt`: the same for its locations. The last one is in `currentLocation` while it is open, with the
  values of its lines alone (`LocationSoFar`): nothing of an earlier location shows through.

`BlocksKept` follows at the end of the file because `Acceptable` wants the counter to be 0. The strengthening
mentions no line that has not been read, while `Meaning` is about the whole file; `LocationEnds` and `ServerEnds`
close the gap: `Inside` of a block is what lies between its line and the brace at its depth. The operators that join the
contributions of lines (`FlattenSeq` in `InOrder` and `Given`) are recursive functions; `JoinOneMore` says by least
counterexample that a contribution behind all others ends up at the end (`InOrderMore`, `GivenMore`).
`FlagsNext` says for each kind of line which flags it can meet in such a file, the `Built` lemmas what it does to the blocks.

Assumptions are the named `ASSUME`s of the modules: sizes are naturals,
there is at least one server block, requests and trees have their types, initial trees are trees,
scripts and messages have their types, directives with one value come with one, model values do not coincide.

Model-checked only: liveness (`RequestAnswered`, `ConnectionReleased`, `Returns`, the liveness part of
`CallImplemented`), which is out of TLAPS's reach. Every other property of a passing run is the subject of a theorem.

## 12. What the checks found

| run | what happens | where |
|---|---|---|
| `second_request` | a request stays in `m_inbuf` after it was routed; the next bytes complete it again, it is carried out again and its response replaces the one that is being sent | 479 |
| `error_page` | `sendError` queues a page, `closeClientConnection` erases it: no 400, 403, 404 or 413 of `processCompleteRequest` reaches a client | 438, 447, 468 |
| `keep_alive` | the header announces `keep-alive`, the connection is closed | 273 |
| `router_throws` | an exception of the Router ends the process | 478 |
| `cgi_hanging` | `waitpid` before `kill`: the 3 s limit does not bound the call | Cgi.cpp:104 |
| `pipelined_body` | `parse()` takes all that was read for the body: the beginning of the next request, if it comes in with the end of an upload, is stored with it | RequestParser.cpp:136 |

Other behaviour that the models contain and no run is about:

* Of several blocks on one port, as in `full_2_serv_samePort.conf`, the first one answers every request, although
  README.md:12 lists "Multiple server blocks with host/port and virtual server support" and `parse` tests that no two of
  them share a name (ConfigParser.cpp:111-130): no code compares a `server_name` with the Host header, which only
  scripts get to see (Server.cpp:70-78, Cgi.cpp:72). `AnsweredByFirstOfPort` states what happens.
* `upload_path`, `cgi_path` and `cgi_extension` at server level, which `full_test.conf` has in lines 10, 27 and 28, go
  into the location under construction, and the next `location` line resets it (ConfigParser.cpp:350, 384, 395, 230):
  the file is accepted and these lines have no effect.
* When the second `pipe()` or `fork()` fails, `runCgi` returns without closing what was opened (Cgi.cpp:45, 51):
  `PipeFails`, `ForkFails`.
* A script that exits before its body is written raises SIGPIPE in the server, which ends it (Cgi.cpp:96):
  `WriteKillsServer`, status `Lost` of `CgiCall`.
* The `methods` of a location (ConfigStructs.hpp:7, "HTTP methods allowed for this location") are
parsed and checked but `isMethodAllowed` (Router.cpp:24) decides by a table in the code.
* `upload_path` is checked relative to the working directory (ConfigCheck.cpp:54-55) and used relative to the
document root (RouterMethods.cpp:242).
* `client_max_body_size` (ConfigStructs.hpp:31, "limit for POST/PUT requests") is compared with the header that
  is spelled `Content-Length` only: neither chunked bodies nor a lower-case header count.
* A lower-case `content-length` frames a request, but `handlePOST` answers 411 and scripts get no
  CONTENT_LENGTH; a lower-case `transfer-encoding` frames chunks that are then stored undecoded or refused.
  "Chunked" is a coding for the parser and none for the framing, which takes the request for complete
  with its head.
* Of two Content-Length lines the framing takes the first, everybody else the last. A negative length
  never completes.
* Chunk data that contains the text of a last chunk ends the request if a read ends there, and the upload is cut
  short (`MCChunkData`); the decoder pads an incomplete chunk with zeros.
* A script gets nothing of a chunked body (`MCChunkedForScript`): `parse()` empties it, and only `handlePOST` decodes
  (RequestParser.cpp:147-151). The two named instances of `MCRequestFraming`, in the place of `MCPipelined`, violate
  `BodyAsSent` like that one.
* Of a form a script gets the first part, with CONTENT_LENGTH for the whole; a part loses the line ends at its end.
* `server` with its brace on the next line is ignored, and so is its block; such files are not well-nested here.
  `return 301 /;` is ignored.
  Braces are counted, not matched: files that begin with a closing brace may be accepted.

The passing runs leave these cases out on purpose and only where they must:
`loop_oneshot` has clients with one request, and no rejected requests; `cgi_ending` has scripts that read before
they write more than a pipe holds, and `PipesClosed` is about calls that started one; `DelimitedBodyAsSent` and
`ScriptToldLength` are about well-formed messages, without the three cases above, `BlocksKept` about well-nested files.

## 13. What is not modelled

* Bytes: headers, paths, error pages. The exceptions are the `Connection` header in `EventLoop`,
  because `KeepAliveHonoured` is about it, and the body with the headers about its length in `RequestFraming`.
* Chunk extensions, signs and "0x" before a chunk size, trailers.
* `m_portToFd`, which is written and never read.
* The limit of 128 waiting connections; connections that a client gives up before they
  are accepted (`accept()` then fails, which is `EndAccept` under the fault `accept`).
* `POLLNVAL`, which needs a closed descriptor in the poll set; `PollSetMatchesSockets` excludes it.
* EINTR, memory exhaustion, and bytes that are lost when a socket is closed with unread input.
* That a CGI child inherits all the server's descriptors (nothing sets FD_CLOEXEC), so that
  a socket may outlive its close in the server.
* Time in `Cgi`: the length of the budget does not matter, only that it may run out.
* The header block of a script's output: `Status` stands for one that leaves 200.
* In paths: "." segments, backslashes, repeated slashes, links, names that begin with two dots, and urls that leave the
  directory the server was started in and come back to it by its name. Directories that cannot be searched, for which
  `exists` and `weakly_canonical` throw. Query strings, which stay part of the last name.
* Changes of the files by other processes, the CGI scripts among them.
* The `redirect` directive: the configuration parser reads it, the Router's redirects are written
  into the code and only those exist (`Redirects`).
* `buildScriptPath` and `validateScriptPath`: they choose the file a script is read from, which no
  state of the models depends on.
* The characters of a configuration line, the warnings of `configFinalCheck`, and files that disappear between
  `parse` and the first request.
* That `POLLOUT` is asked for from the start (242), so that the thread spins while a client is idle: the steps are
  there (`Poll`, `PassOver`), but no property counts them.

## 14. Plan

The components that keep state are modelled, and every safety property and action property of the passing runs is
proved. What TLC alone answers for is liveness. Left to do:

* The assumptions of the theorems about the exchange (`OneRequestEach`, `NoneRejected`) and about uploads
  (`UploadsAtHome`, `UploadsTogether`) are about clients and configurations. A theorem that derives the second pair
  from the lines of a file, through `Meaning` and `Locations`, would join `Configuration` and `Router`.
* Proofs with several leaves that repeat each other (the cases of `NestStep`, the closing steps of
  `EventLoopExchangeProofs`) can share more lemmas.
