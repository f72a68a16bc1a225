-------------------------- MODULE ResponseHandling --------------------------
(***************************************************************************)
(* The decision of srcs/ResponseHandling.cpp and srcs/Response.cpp on the  *)
(* header "Connection" of a response.  A response that went through        *)
(* Response::initialize (every response of the Router) announces what the  *)
(* request asked for; one that did not (sendError, a CGI answer) gets the  *)
(* default of Response::serializer.                                        *)
(***************************************************************************)
EXTENDS Naturals

\* Statuses whose response announces "close" whatever the request says.
mustClose == {400, 408, 413, 500}

\* shouldKeepAlive: HTTP/1.1 persists unless told not to, HTTP/1.0 only when
\* told to.  The value of the header is compared as the client wrote it.
ShouldKeepAlive(version, connection) ==
    \/ version = "HTTP/1.1" /\ connection # "close"
    \/ version = "HTTP/1.0" /\ connection = "keep-alive"

\* What Response::initialize writes into the header.
AnnouncedByInitialize(status, version, connection) ==
    IF status \notin mustClose /\ ShouldKeepAlive(version, connection)
    THEN "keep-alive"
    ELSE "close"

\* What Response::serializer adds when nobody set the header.
AnnouncedByDefault == "close"
=============================================================================
