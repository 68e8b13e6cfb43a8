------------------------------ MODULE FtpServer ------------------------------
(***************************************************************************)
(* handle_user (project_2/code/server.c): the process that serves one      *)
(* control connection.  Each action is one round of its loop: it takes a   *)
(* request, changes the state of the session and sends one reply.          *)
(* A PORT request carries the two numbers of the port, CWD the names       *)
(* between the slashes and whether one stands before them; the file names  *)
(* of transfers are left out.                                              *)
(***************************************************************************)
EXTENDS FtpControl, SequencesExt

VARIABLES serving,    \* the process is in its loop
          auth1,      \* a valid user name was given
          auth2,      \* and the password for it
          username,
          path,       \* the linked list of directory names
          port_f,     \* a data port has been received
          port,
          started     \* the transfers handed to a child process, in order

authVars == <<auth1, auth2, username>>
portVars == <<port_f, port>>
serverVars == <<serving, authVars, path, portVars, started>>

NoName == ""

ServerInit ==
  /\ serving = TRUE
  /\ auth1 = FALSE
  /\ auth2 = FALSE
  /\ username = NoName
  /\ path = << >>
  /\ port_f = FALSE
  /\ port = 0        \* uninitialized until port_f is set
  /\ started = << >>

Request == Head(toServer)

\* recv returns a request for cmd.
Serve(cmd) ==
  /\ serving
  /\ toServer # << >>
  /\ Request.cmd = cmd

Reply(code) ==
  /\ toServer' = << >>
  /\ toClient' = Append(toClient, code)

\* A command other than USER and PASS is served once a user name is known.
ServeUser(cmd) == Serve(cmd) /\ (auth1 \/ auth2)

------------------------------------------------------------------------------

\* What auth_user and auth_pass may return: 1 for a match, 0 for none, -1 when
\* users.csv cannot be read.  The name of a user stands for the password too.
AuthUser(name) == {-1, IF name \in Users THEN 1 ELSE 0}
AuthPass(name, password) == {-1, IF password = name THEN 1 ELSE 0}

\* Mutant: the directories of the last session stay in the list.
HandleUserInPath ==
  /\ Serve("USER")
  /\ auth2' = FALSE
  /\ \E found \in AuthUser(Request.arg) :
       /\ auth1' = (found = 1)
       /\ username' = IF found = 1 THEN Request.arg ELSE NoName
       /\ Reply(CASE found = 1 -> 331 [] found = 0 -> 530 [] OTHER -> 501)
  /\ UNCHANGED <<serving, path, portVars, started>>

\* USER: signs out, then looks the name up.
HandleUser ==
  /\ Serve("USER")
  /\ auth2' = FALSE
  /\ path' = << >>
  /\ \E found \in AuthUser(Request.arg) :
       /\ auth1' = (found = 1)
       /\ username' = IF found = 1 THEN Request.arg ELSE NoName
       /\ Reply(CASE found = 1 -> 331 [] found = 0 -> 530 [] OTHER -> 501)
  /\ UNCHANGED <<serving, portVars, started>>

\* PASS without a user name.
PassWithoutUser ==
  /\ Serve("PASS")
  /\ ~auth1
  /\ auth2' = FALSE
  /\ Reply(530)
  /\ UNCHANGED <<serving, auth1, username, path, portVars, started>>

\* PASS when already logged in: signs out.
PassAgain ==
  /\ Serve("PASS")
  /\ auth1 /\ auth2
  /\ auth1' = FALSE
  /\ auth2' = FALSE
  /\ path' = << >>
  /\ username' = NoName
  /\ Reply(530)
  /\ UNCHANGED <<serving, portVars, started>>

\* PASS with the password of the user: the path starts at the user's name.
PassRight ==
  /\ Serve("PASS")
  /\ auth1 /\ ~auth2
  /\ 1 \in AuthPass(username, Request.arg)
  /\ auth2' = TRUE
  /\ path' = Append(path, username)
  /\ Reply(230)
  /\ UNCHANGED <<serving, auth1, username, portVars, started>>

\* PASS with another password, or users.csv is unreadable.
PassRefused ==
  /\ Serve("PASS")
  /\ auth1 /\ ~auth2
  /\ auth1' = FALSE
  /\ \E found \in AuthPass(username, Request.arg) \ {1} :
       Reply(IF found = 0 THEN 530 ELSE 501)
  /\ UNCHANGED <<serving, auth2, username, path, portVars, started>>

\* Mutant: the command is dropped without a reply.
NotLoggedInSilent ==
  /\ \E cmd \in Transfers \cup {"PORT", "CWD", "PWD", "QUIT"} : Serve(cmd)
  /\ ~auth1 /\ ~auth2
  /\ toServer' = << >>
  /\ UNCHANGED <<toClient, serverVars>>

\* Any other command before a user name is known.
NotLoggedIn ==
  /\ \E cmd \in Transfers \cup {"PORT", "CWD", "PWD", "QUIT"} : Serve(cmd)
  /\ ~auth1 /\ ~auth2
  /\ Reply(530)
  /\ UNCHANGED serverVars

\* PORT with six numbers.
HandlePort ==
  /\ ServeUser("PORT")
  /\ Len(Request.arg) = 2
  /\ port_f' = TRUE
  /\ port' = PortOf(Request.arg[1], Request.arg[2])
  /\ Reply(200)
  /\ UNCHANGED <<serving, authVars, path, started>>

\* Mutant: the data port stays valid after the transfer was started.
StartTransferKeepsPort ==
  /\ \E cmd \in Transfers : ServeUser(cmd)
  /\ port_f
  /\ started' = Append(started, [cmd |-> Request.cmd, port |-> port])
  /\ Reply(150)
  /\ UNCHANGED <<serving, authVars, path, portVars>>

\* STOR, RETR, LIST: 150, and a child process takes the transfer.
StartTransfer ==
  /\ \E cmd \in Transfers : ServeUser(cmd)
  /\ port_f
  /\ started' = Append(started, [cmd |-> Request.cmd, port |-> port])
  /\ Reply(150)
  /\ port_f' = FALSE
  /\ UNCHANGED <<serving, authVars, path, port>>

\* Mutant: fork_f is not cleared, and 150 follows 550.
NoSuchFileButOkay ==
  /\ ServeUser("RETR")
  /\ port_f
  /\ toServer' = << >>
  /\ toClient' = toClient \o <<550, 150>>
  /\ port_f' = FALSE
  /\ started' = Append(started, [cmd |-> Request.cmd, port |-> port])
  /\ UNCHANGED <<serving, authVars, path, port>>

\* RETR of a file that cannot be opened.
NoSuchFile ==
  /\ ServeUser("RETR")
  /\ port_f
  /\ Reply(550)
  /\ port_f' = FALSE
  /\ UNCHANGED <<serving, authVars, path, port, started>>

\* A transfer for which no data port was sent.
NoPort ==
  /\ \E cmd \in Transfers : ServeUser(cmd)
  /\ ~port_f
  /\ Reply(425)
  /\ UNCHANGED serverVars

\* PORT that get_port cannot take apart.
BadPort ==
  /\ ServeUser("PORT")
  /\ Len(Request.arg) # 2
  /\ port_f' = FALSE
  /\ Reply(501)
  /\ UNCHANGED <<serving, authVars, path, port, started>>

\* parse_command returns -1 (no such command) or -2 (no argument).
BadCommand ==
  /\ \/ Serve("unknown") /\ Reply(202)
     \/ Serve("incomplete") /\ Reply(501)
  /\ UNCHANGED serverVars

------------------------------------------------------------------------------
(* CWD                                                                     *)

\* Where the file system takes a name from the directory at.
Stepped(at, name) ==
  CASE name = ".."  -> IF at = << >> THEN at ELSE Front(at)
    [] name = "."   -> at
    [] OTHER        -> Append(at, name)

\* Where it takes the names of a path, one after the other.
Resolve(from, names) ==
  LET at[i \in 0 .. Len(names)] ==
        IF i = 0 THEN from ELSE Stepped(at[i - 1], names[i])
  IN  at[Len(names)]

\* Where "ls" starts.  The path of the session stands before dir, with a slash
\* after each name; get_path gives a blank for an empty list, so that a slash in
\* front of dir comes first.
Start(dir) == IF path = << >> /\ dir.absolute THEN << >> ELSE Home

\* The directory that "ls" is given.
Target(dir) == Resolve(Start(dir), path \o dir.names)

\* ls finds every directory on the way.
Found(dir) ==
  \A i \in 0 .. Len(path \o dir.names) :
    Resolve(Start(dir), SubSeq(path \o dir.names, 1, i)) \in Entries

\* Mutant: ".." removes the first name.
ParsedAtHead(st, name) ==
  CASE ~st.ok -> st
    [] st.ok /\ name = ".." ->
         IF Len(st.path) > 1
         THEN [path |-> Tail(st.path), ok |-> TRUE]
         ELSE [path |-> st.path, ok |-> FALSE]
    [] OTHER -> [path |-> Append(st.path, name), ok |-> TRUE]

\* What parse_dir does with one name; it stops at the first it refuses.
Parsed(st, name) ==
  CASE ~st.ok -> st
    [] st.ok /\ name = ".." ->
         IF Len(st.path) > 1
         THEN [path |-> Front(st.path), ok |-> TRUE]
         ELSE [path |-> st.path, ok |-> FALSE]
    [] OTHER -> [path |-> Append(st.path, name), ok |-> TRUE]

\* parse_dir with min_len 1: the path it leaves, and whether it returns 0.
ParseDir(names, new_path) ==
  LET st[i \in 0 .. Len(new_path)] ==
        IF i = 0 THEN [path |-> names, ok |-> TRUE] ELSE Parsed(st[i - 1], new_path[i])
  IN  st[Len(new_path)]

\* ls finds nothing there.
CwdNotFound ==
  /\ ServeUser("CWD")
  /\ ~Found(Request.arg)
  /\ Reply(501)
  /\ UNCHANGED serverVars

\* parse_dir takes the names, whatever stood before them.
HandleCwd ==
  /\ ServeUser("CWD")
  /\ Found(Request.arg)
  /\ Request.arg.names # << >>
  /\ LET parsed == ParseDir(path, Request.arg.names)
     IN  /\ path' = parsed.path
         /\ Reply(IF parsed.ok THEN 200 ELSE 501)
  /\ UNCHANGED <<serving, authVars, portVars, started>>

\* "CWD /" has no directory names: parse_dir compares a null token, and the
\* process is killed.
CwdWithoutName ==
  /\ ServeUser("CWD")
  /\ Found(Request.arg)
  /\ Request.arg.names = << >>
  /\ serving' = FALSE
  /\ toServer' = << >>
  /\ UNCHANGED <<toClient, authVars, path, portVars, started>>

------------------------------------------------------------------------------

HandlePwd ==
  /\ ServeUser("PWD")
  /\ Reply(257)
  /\ UNCHANGED serverVars

HandleQuit ==
  /\ ServeUser("QUIT")
  /\ Reply(221)
  /\ UNCHANGED serverVars

\* The client is gone: recv returns 0, or the reply to it kills the process.
ServerCloses ==
  /\ serving
  /\ toServer = << >>
  /\ serving' = FALSE
  /\ UNCHANGED <<wires, authVars, path, portVars, started>>

Respond ==
  \/ HandleUser
  \/ PassWithoutUser \/ PassAgain \/ PassRight \/ PassRefused
  \/ NotLoggedIn
  \/ BadCommand \/ HandlePort \/ BadPort
  \/ StartTransfer \/ NoSuchFile \/ NoPort
  \/ CwdNotFound \/ HandleCwd \/ CwdWithoutName
  \/ HandlePwd \/ HandleQuit
==============================================================================
