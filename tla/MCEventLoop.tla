---------------------------- MODULE MCEventLoop ----------------------------
(***************************************************************************)
(* Small instances of EventLoop for TLC.                                   *)
(***************************************************************************)
EXTENDS EventLoop, TLC

CONSTANTS c1, c2, p80, p81

Request(kind, connection, status) ==
    [kind |-> kind, version |-> "HTTP/1.1", connection |-> connection, status |-> status]

GetClose  == Request("route", "close", 200)
Get       == Request("route", "", 200)
Script    == Request("cgi", "", 200)
Malformed == Request("reject", "", 400)
BadLength == Request("throw", "", 200)

OnePort   == <<p80>>
TwoPorts  == <<p80, p81, p80>>

OneRequest    == {<<GetClose>>, <<Script>>}
TwoGets       == {<<Get, Get>>}
OneGet        == {<<Get>>}
Mixed         == {<<Get>>, <<Script, BadLength>>}
OneMalformed  == {<<Malformed>>}
OneBadLength  == {<<BadLength>>}

Symmetry == Permutations({c1, c2})
=============================================================================
