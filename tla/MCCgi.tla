------------------------------- MODULE MCCgi -------------------------------
(***************************************************************************)
(* Small instances of Cgi for TLC.                                         *)
(***************************************************************************)
EXTENDS Cgi

\* Scripts that end whatever the server does, and read stdin before they write
\* more than a pipe holds.
Ending == {<<"read", "write", "write", "write", "exit0">>,
           <<"write", "read", "write", "exit0">>,
           <<"read", "write", "exit1">>,
           <<"write", "exit1">>,
           <<"read", "write", "crash">>,
           <<"read", "spawn", "write", "exit0">>,
           <<"exit0">>}

Hanging == {<<"read", "hang">>}
=============================================================================
