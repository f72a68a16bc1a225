---------------------------- MODULE UploadStore ----------------------------
(***************************************************************************)
(* What the Router promises the clients of an upload directory, without    *)
(* file system, locations and docroots: a store of bodies under urls.  A   *)
(* body is put under a url that is free, fetched from it and deleted from  *)
(* it; an answer that does not say so has changed nothing.                 *)
(***************************************************************************)
EXTENDS Naturals

CONSTANTS
  Urls,     \* urls of uploads
  Cuts,     \* what may be stored of a body instead of all of it
  Plain,    \* file names that clients give an upload, without directories
  Indirect  \* urls with "..", which may mean what another url names

VARIABLES
  store,  \* what is stored under a url
  last    \* the last request with the status and the body of its answer

vars == <<store, last>>

Asked == last'.request.url

\* An upload that names its url gets it, another one gets a free one.
Put ==
    /\ last'.request.method = "POST" /\ last'.status = 201
    /\ \E u \in Urls \ DOMAIN store, b \in {last'.request.body} \union Cuts :
          /\ Asked \in Urls => u = Asked
          /\ store' = [v \in DOMAIN store \union {u} |-> IF v = u THEN b ELSE store[v]]

\* An upload whose file name is a path may go where no url of the store leads.
PutElsewhere ==
    /\ last'.request.method = "POST" /\ last'.status = 201
    /\ Asked \notin Urls /\ last'.request.filename \notin Plain
    /\ UNCHANGED store

Get ==
    /\ last'.request.method = "GET" /\ Asked \in DOMAIN store
    /\ last'.status = 200 /\ last'.body = store[Asked]
    /\ UNCHANGED store

\* What is not stored, as a directory, leaves the store as it was.
Delete ==
    /\ last'.request.method = "DELETE" /\ last'.status = 204
    /\ \E gone \in {Asked} \union {u \in Urls : Asked \in Indirect} :
          store' = [v \in DOMAIN store \ {gone} |-> store[v]]

\* Errors, and requests that are not about the store.  What is stored can be
\* deleted, and fetched if it can be read.
Nothing ==
    /\ last'.status \notin {201, 204}
    /\ Asked \in DOMAIN store => \/ last'.request.method = "POST"
                                 \/ last'.request.method = "GET" /\ last'.status = 500
    /\ UNCHANGED store

Next == Put \/ PutElsewhere \/ Get \/ Delete \/ Nothing

Spec == [][Next]_vars
=============================================================================
