------------------------------ MODULE FtpControl -----------------------------
(***************************************************************************)
(* The control connection between client.c and the process of server.c     *)
(* that serves it: a TCP stream in each direction, read with one recv into *)
(* one buffer, so that whatever has arrived is taken as one message.       *)
(***************************************************************************)
EXTENDS Sequences, FiniteSets, FtpPorts

CONSTANTS Users,     \* the users of users.csv
          Dirs,      \* the arguments of CWD: with a leading "/" or not, split at "/"
          Home,      \* the directory the server runs in
          Entries    \* the directories of its machine; both as paths from the root

\* Names are strings.
ASSUME NamesAssumption ==
  /\ Users \subseteq STRING
  /\ Dirs \subseteq [absolute : BOOLEAN, names : Seq(STRING)]
  /\ Home \in Seq(STRING)

VARIABLES toServer,    \* requests
          toClient     \* reply codes

wires == <<toServer, toClient>>

Transfers == {"STOR", "RETR", "LIST"}

WiresInit ==
  /\ toServer = << >>
  /\ toClient = <<220>>
==============================================================================
