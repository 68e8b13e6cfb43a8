----------------------------- MODULE MCFtpServer -----------------------------
(***************************************************************************)
(* The server's process with any client that sends one request at a time   *)
(* and reads the reply: requests in an order client.c would not choose,    *)
(* unknown commands and ports that are no ports included.                  *)
(***************************************************************************)
EXTENDS FtpServer

CONSTANTS MaxTransfers,    \* bound of the model: ports the client may send
          MaxPath          \* bound of the model: CWD is sent on shorter paths

\* What the replies have told the client.
VARIABLES granted,    \* the ports of the PORT commands that were answered with 200
          spent,      \* those of them, by number, that were used up or taken back
          entered     \* the directories entered between USER and the password

historyVars == <<granted, spent, entered>>
serviceVars == <<wires, serverVars, historyVars>>

MCUsers == {"alice", "bob"}

MCHome == <<"server">>

MCEntries ==
       {<< >>, <<"docs">>, MCHome}
  \cup {MCHome \o d : d \in {<<"alice">>, <<"bob">>, <<"alice", "docs">>}}

\* CWD docs, alice, "..", ".", "../..", /docs and "/".
MCDirs ==
       [absolute : {FALSE},
        names : {<<"docs">>, <<"alice">>, <<"..">>, <<".">>, <<"..", "..">>}]
  \cup [absolute : {TRUE}, names : {<<"docs">>, << >>}]

Names == Users \cup {"nobody"}

Requests ==
       [cmd : {"USER", "PASS"}, arg : Names]
  \cup [cmd : Transfers \cup {"PWD", "QUIT", "unknown", "incomplete"}, arg : {<< >>}]
  \cup [cmd : {"CWD"}, arg : Dirs]
  \cup [cmd : {"PORT"}, arg : {<<4, 1>>, <<255, 9>>, << >>}]

ServiceInit ==
  /\ WiresInit
  /\ ServerInit
  /\ granted = << >>
  /\ spent = {}
  /\ entered = << >>

\* The reply is read, and the next request sent.
SendRequest(r) ==
  /\ toServer = << >>
  /\ toClient # << >>
  /\ r.cmd = "CWD" => Len(path) < MaxPath
  /\ r.cmd = "PORT" => Len(granted) < MaxTransfers
  /\ toServer' = <<r>>
  /\ toClient' = << >>
  /\ UNCHANGED <<serverVars, historyVars>>

\* The client closes the connection.
Leave ==
  /\ toServer = << >>
  /\ toClient # << >>
  /\ toClient' = << >>
  /\ UNCHANGED <<toServer, serverVars, historyVars>>

Answered(cmd, code) == Request.cmd = cmd /\ toClient' = <<code>>

\* A PORT is used up by the transfer it serves, and by a RETR whose file is not
\* there; a PORT that is refused takes the one before it back.
GrantHistory ==
  /\ granted' = IF Answered("PORT", 200)
                THEN Append(granted, PortOf(Request.arg[1], Request.arg[2]))
                ELSE granted
  /\ spent' = IF started' # started \/ Answered("PORT", 501) \/ Answered("RETR", 550)
              THEN spent \cup {Len(granted)}
              ELSE spent

EnteredHistory ==
  entered' = CASE Request.cmd = "USER"             -> << >>
               [] Request.cmd = "CWD" /\ ~auth2    -> path'
               [] OTHER                            -> entered

Answer == Respond /\ GrantHistory /\ EnteredHistory

ServiceNext ==
  \/ \E r \in Requests : SendRequest(r)
  \/ Leave
  \/ Answer
  \/ toClient = << >> /\ ServerCloses /\ UNCHANGED historyVars
  \/ ~serving /\ UNCHANGED serviceVars

ServiceSpec == ServiceInit /\ [][ServiceNext]_serviceVars

------------------------------------------------------------------------------
(* Properties *)

\* Every PORT serves one transfer at most, on its own port: a transfer starts
\* under the last PORT that was granted, and only if no other transfer did, no
\* RETR was answered with 550 under it and no later PORT was refused (port_f,
\* lines 297, 303 and 374).
OneTransferPerPort ==
  [][started' # started =>
       /\ granted # << >> /\ Len(granted) \notin spent
       /\ Last(started').port = Last(granted)]_serviceVars

\* No failed login leaves a flag behind: whoever has a flag set is a user of
\* users.csv, and a password was accepted only after the name.
LoginConsistent == (auth2 => auth1) /\ (auth1 => username \in Users)

\* The flags, the user and the directory of a session belong together: who is
\* logged in is a user of users.csv and stays below one directory, whatever
\* parse_dir is given.  It is the user's own, or the first that was entered
\* between USER and PASS: the directories of an earlier login are gone, and no
\* ".." removes the first name (parse_dir, min_len 1).
SessionConsistent ==
  /\ LoginConsistent
  /\ auth2 => path # << >> /\ Head(path) = Head(Append(entered, username))

\* "200 directory changed to": after a CWD that is answered with 200 the session
\* is in the directory its argument names, the one that ls has looked at; after
\* one that parse_dir refuses it is in the first directory of its path, for
\* parse_dir stops where ".." would leave it and keeps what it has done before.
\* This needs that no "." is in the path or the argument, which parse_dir takes
\* for the name of a directory, and that an argument with a leading "/" meets a
\* path that is not empty.
CwdAsAnswered ==
  [][/\ HandleCwd
     /\ path # << >> \/ ~Request.arg.absolute
     /\ ~Contains(path \o Request.arg.names, ".")
     => IF toClient' = <<200>>
        THEN Resolve(Home, path') = Target(Request.arg)
        ELSE path # << >> => path' = <<Head(path)>>]_serviceVars

------------------------------------------------------------------------------
(* What the source says and the code does not do.                          *)

\* "this prevents a user from accessing data from other users" (path, server.c
\* 147): who is logged in is in the user's own directory or below it.
OwnDirectory == auth2 => IsPrefix(Append(Home, username), Resolve(Home, path))
==============================================================================
