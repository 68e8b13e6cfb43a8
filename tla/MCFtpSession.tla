---------------------------- MODULE MCFtpSession -----------------------------
(***************************************************************************)
(* A session of two users, each with a home directory, one with a          *)
(* directory in it.  The control port is near the end of the port numbers, *)
(* so that some data ports wrap around.                                    *)
(***************************************************************************)
EXTENDS FtpSession

MCUsers == {"alice", "bob"}

MCHome == <<"server">>

MCEntries == {<< >>, MCHome} \cup {MCHome \o d : d \in {<<"alice">>, <<"bob">>, <<"alice", "docs">>}}

\* CWD docs, "..", ".", "../.." and "/".
MCDirs ==
       [absolute : {FALSE}, names : {<<"docs">>, <<"..">>, <<".">>, <<"..", "..">>}]
  \cup [absolute : {TRUE}, names : {<< >>}]
==============================================================================
