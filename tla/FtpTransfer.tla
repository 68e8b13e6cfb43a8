----------------------------- MODULE FtpTransfer -----------------------------
(***************************************************************************)
(* The data connections of project_2: the accept loop of server.c, the     *)
(* children that both sides fork for a transfer (handle_transfer), and     *)
(* what the sessions share: the ports of the machine, a file of the server *)
(* and temp.txt.                                                           *)
(*                                                                         *)
(* A transfer is named by its session and the value of port_counter it was *)
(* started with.  Of the control connection only the 150 is left: the      *)
(* server's child is forked with it, the client's when it is read.  The    *)
(* sessions are those of one user, so that they name the same file.  A     *)
(* block of the file is named by the transfer that stored it, the listing  *)
(* of a directory by the transfer that asked for it.  How data_transfer.c  *)
(* frames the blocks is in DataTransfer; here a connection carries them.   *)
(***************************************************************************)
EXTENDS FtpPorts, SequencesExt

CONSTANTS Sessions,
          ControlPorts,      \* of each session: the local ports connect may choose
          ClosedPorts,       \* the ports bind refuses to a client
          MaxDescriptors,    \* connections that main of the server can hold
          Blocks,            \* the blocks of a file that is stored
          MaxTransfers,      \* bound of the model: transfers in all
          None, Old, Hole, End

ASSUME TransferAssumption ==
  /\ ControlPorts \in [Sessions -> SUBSET (1 .. PortSpace - 1)]
  /\ MaxDescriptors \in Nat
  /\ Blocks \in Nat \ {0}
  /\ MaxTransfers \in Nat \ {0}

VARIABLES
  accepting,                        \* main of the server is in its loop
  session, control_port, port_counter, replied,
  command,                          \* of every transfer
  spc, link, handle, spos,          \* the server's child of every transfer
  cpc,                              \* the client's child
  down, up,                         \* what the server's and the client's child sent
  file,                             \* the file, block by block
  temp, listing,                    \* temp.txt: which one, and the lines in it
  shared, torn                      \* history

sessionVars == <<accepting, session, control_port, port_counter, replied>>
serverVars == <<spc, link, handle, spos>>
clientVars == <<cpc, up>>
tempVars == <<temp, listing>>
historyVars == <<shared, torn>>
vars == <<sessionVars, command, serverVars, clientVars, down, file, tempVars, historyVars>>

Commands == {"STOR", "RETR", "LIST"}

LastTransfer == FirstTransfer + MaxTransfers - 1
Transfers == Sessions \X (FirstTransfer .. LastTransfer)

\* The marks are none of the transfers, and the end mark is no block.
ASSUME MarkAssumption ==
  /\ {None, Old, Hole, End} \cap Transfers = {}
  /\ End \notin {Old, Hole}

\* The file that is there is longer than those that are stored over it.
OldFile == [b \in 1 .. Blocks + 1 |-> Old]
Upload(t) == [b \in 1 .. Blocks |-> t]

Init ==
  /\ accepting = TRUE
  /\ session = [s \in Sessions |-> "new"]
  /\ control_port = [s \in Sessions |-> 0]
  /\ port_counter = [s \in Sessions |-> FirstTransfer]
  /\ replied = [s \in Sessions |-> FALSE]
  /\ command = [t \in Transfers |-> None]
  /\ spc = [t \in Transfers |-> "none"]
  /\ link = [t \in Transfers |-> None]
  /\ handle = [t \in Transfers |-> None]
  /\ spos = [t \in Transfers |-> 0]
  /\ cpc = [t \in Transfers |-> "none"]
  /\ up = [t \in Transfers |-> << >>]
  /\ down = [t \in Transfers |-> << >>]
  /\ file = OldFile
  /\ temp = None
  /\ listing = [t \in Transfers |-> << >>]
  /\ shared = {}
  /\ torn = FALSE

Current(s) == <<s, port_counter[s]>>

PortOfTransfer(t) == NewPort(control_port[t[1]], t[2])

ServerOver(t) == spc[t] \in {"done", "killed"}
ClientOver(t) == cpc[t] \in {"done", "complete", "cut", "failed", "killed"}

\* The control connection is closed when the client and its children have closed it.
HoldsControl(s) ==
  \/ session[s] = "open"
  \/ session[s] = "left" /\ \E t \in Transfers : t[1] = s /\ cpc[t] # "none" /\ ~ClientOver(t)

------------------------------------------------------------------------------
(* The accept loop, and the sessions                                       *)

\* accept and fork; main keeps its copy of the descriptor for good.
Accept(s) ==
  /\ accepting
  /\ session[s] = "new"
  /\ Cardinality({r \in Sessions : session[r] # "new"}) < MaxDescriptors
  /\ \E p \in ControlPorts[s] :
       /\ \A r \in Sessions : HoldsControl(r) => control_port[r] # p
       /\ control_port' = [control_port EXCEPT ![s] = p]
  /\ session' = [session EXCEPT ![s] = "open"]
  /\ UNCHANGED <<accepting, port_counter, replied, command, serverVars,
                 clientVars, down, file, tempVars, historyVars>>

\* accept fails, as it must when no descriptor is left: main returns.
AcceptFails ==
  /\ accepting
  /\ \E s \in Sessions : session[s] = "new"
  /\ accepting' = FALSE
  /\ UNCHANGED <<session, control_port, port_counter, replied, command,
                 serverVars, clientVars, down, file, tempVars, historyVars>>

\* handle_user answers a transfer command with 150 and forks.
ServerForks(s) ==
  /\ session[s] = "open" /\ ~replied[s]
  /\ port_counter[s] <= LastTransfer
  /\ Cardinality({t \in Transfers : spc[t] # "none"}) < MaxTransfers
  /\ \E c \in Commands : command' = [command EXCEPT ![Current(s)] = c]
  /\ spc' = [spc EXCEPT ![Current(s)] = "connect"]
  /\ replied' = [replied EXCEPT ![s] = TRUE]
  /\ UNCHANGED <<accepting, session, control_port, port_counter, link, handle,
                 spos, clientVars, down, file, tempVars, historyVars>>

\* It refuses the command; the client has used up the port all the same.
ServerRefuses(s) ==
  /\ session[s] = "open" /\ ~replied[s]
  /\ port_counter[s] < LastTransfer
  /\ port_counter' = [port_counter EXCEPT ![s] = @ + 1]
  /\ UNCHANGED <<accepting, session, control_port, replied, command, serverVars,
                 clientVars, down, file, tempVars, historyVars>>

\* The client reads the 150 and forks.
ClientForks(s) ==
  /\ session[s] = "open" /\ replied[s]
  /\ cpc' = [cpc EXCEPT ![Current(s)] = "bind"]
  /\ port_counter' = [port_counter EXCEPT ![s] = @ + 1]
  /\ replied' = [replied EXCEPT ![s] = FALSE]
  /\ UNCHANGED <<accepting, session, control_port, command, serverVars, up,
                 down, file, tempVars, historyVars>>

\* QUIT: the client's main closes the control connection; its children run on.
Quit(s) ==
  /\ session[s] = "open" /\ ~replied[s]
  /\ session' = [session EXCEPT ![s] = "left"]
  /\ UNCHANGED <<accepting, control_port, port_counter, replied, command,
                 serverVars, clientVars, down, file, tempVars, historyVars>>

\* The client is interrupted at its terminal, with all its children: an upload
\* stops anywhere.
Interrupt(s) ==
  /\ session[s] = "open"
  /\ session' = [session EXCEPT ![s] = "left"]
  /\ replied' = [replied EXCEPT ![s] = FALSE]
  /\ cpc' = [t \in Transfers |-> IF t[1] = s /\ ~ClientOver(t) THEN "killed" ELSE cpc[t]]
  /\ \E n \in 0 .. Blocks :
       up' = [t \in Transfers |->
                IF t[1] = s /\ cpc[t] = "send" THEN SubSeq(Upload(t), 1, n) ELSE up[t]]
  /\ UNCHANGED <<accepting, control_port, port_counter, command, serverVars,
                 down, file, tempVars, historyVars>>

------------------------------------------------------------------------------
(* The meeting of the two children                                         *)

Listens(t) == cpc[t] \in {"accept", "send", "receive"}

\* Mutant: two may listen on one port.
CanBindTwice(p) ==
  /\ p \notin ClosedPorts
  /\ \A s \in Sessions : HoldsControl(s) => control_port[s] # p

\* bind refuses a port that is listened on or is that of a control connection.
CanBind(p) ==
  /\ p \notin ClosedPorts
  /\ \A t \in Transfers : Listens(t) => PortOfTransfer(t) # p
  /\ \A s \in Sessions : HoldsControl(s) => control_port[s] # p

\* socket, bind, listen of the client's child
Bind(t) ==
  /\ cpc[t] = "bind"
  /\ cpc' = [cpc EXCEPT ![t] = IF CanBind(PortOfTransfer(t)) THEN "accept" ELSE "failed"]
  /\ UNCHANGED <<sessionVars, command, serverVars, up, down, file, tempVars, historyVars>>

\* connect of the server's child of t, and accept of the client's child c.
Meet(t, c) ==
  /\ spc[t] = "connect"
  /\ cpc[c] = "accept"
  /\ PortOfTransfer(t) = PortOfTransfer(c)
  /\ link' = [link EXCEPT ![t] = c]
  /\ spc' = [spc EXCEPT ![t] = IF command[t] = "LIST" THEN "append" ELSE "open"]
  /\ cpc' = [cpc EXCEPT ![c] = IF command[c] = "STOR" THEN "send" ELSE "receive"]
  /\ UNCHANGED <<sessionVars, command, handle, spos, up, down, file, tempVars, historyVars>>

\* Mutant: connect is tried once.
ConnectOnce(t) ==
  \/ \E c \in Transfers : Meet(t, c)
  \/ /\ spc[t] = "connect"
     /\ \A c \in Transfers : cpc[c] = "accept" => PortOfTransfer(t) # PortOfTransfer(c)
     /\ spc' = [spc EXCEPT ![t] = "done"]
     /\ UNCHANGED <<sessionVars, command, link, handle, spos, clientVars, down,
                    file, tempVars, historyVars>>

\* connect is tried until somebody listens on the port.
Connect(t) == \E c \in Transfers : Meet(t, c)

\* The server's child that client's child c has accepted.
OtherEnd(c) == CHOOSE t \in Transfers : link[t] = c

------------------------------------------------------------------------------
(* The server's child                                                      *)

Does(t, cmd, place) == command[t] = cmd /\ spc[t] = place

Storing == {t \in Transfers : Does(t, "STOR", "receive")}
Reading == {t \in Transfers : Does(t, "RETR", "send")}

\* The children that have added to temp.txt and not removed it.
Listing == {t \in Transfers : \/ \E p \in {"open", "send", "remove"} : Does(t, "LIST", p)
                              \/ Does(t, "LIST", "killed") /\ temp # None}

\* ls -1 >> temp.txt
AppendListing(t) ==
  /\ spc[t] = "append"
  /\ temp' = IF temp = None THEN t ELSE temp
  /\ listing' = [listing EXCEPT ![temp'] = Append(@, t)]
  /\ shared' = IF Listing = {} THEN shared ELSE shared \cup Listing \cup {t}
  /\ spc' = [spc EXCEPT ![t] = "open"]
  /\ UNCHANGED <<sessionVars, command, link, handle, spos, clientVars, down, file, torn>>

\* fopen of temp.txt; when it is not there nothing is sent.
OpenListing(t) ==
  /\ Does(t, "LIST", "open")
  /\ handle' = [handle EXCEPT ![t] = temp]
  /\ spc' = [spc EXCEPT ![t] = IF temp = None THEN "remove" ELSE "send"]
  /\ UNCHANGED <<sessionVars, command, link, spos, clientVars, down, file, tempVars, historyVars>>

\* fopen of the file for reading
OpenFile(t) ==
  /\ Does(t, "RETR", "open")
  /\ shared' = IF torn \/ Storing # {} THEN shared \cup {t} ELSE shared
  /\ spc' = [spc EXCEPT ![t] = "send"]
  /\ UNCHANGED <<sessionVars, command, link, handle, spos, clientVars, down, file, tempVars, torn>>

\* Mutant: the file is opened without being emptied.
CreateFileKept(t) ==
  /\ Does(t, "STOR", "open")
  /\ shared' = shared \cup Reading
  /\ torn' = (Storing # {})
  /\ spc' = [spc EXCEPT ![t] = "receive"]
  /\ UNCHANGED <<sessionVars, command, link, handle, spos, clientVars, down, file, tempVars>>

\* fopen of the file for writing empties it.
CreateFile(t) ==
  /\ Does(t, "STOR", "open")
  /\ file' = << >>
  /\ shared' = shared \cup Reading
  /\ torn' = (Storing # {})
  /\ spc' = [spc EXCEPT ![t] = "receive"]
  /\ UNCHANGED <<sessionVars, command, link, handle, spos, clientVars, down, tempVars>>

Source(t) == IF command[t] = "LIST" THEN listing[handle[t]] ELSE file

\* What is sent to a client that has gone is lost.
SendDown(t, b) ==
  down' = IF ClientOver(link[t]) THEN down ELSE [down EXCEPT ![link[t]] = Append(@, b)]

\* send_file: a block
SendBlock(t) ==
  /\ spc[t] = "send"
  /\ spos[t] < Len(Source(t))
  /\ SendDown(t, Source(t)[spos[t] + 1])
  /\ spos' = [spos EXCEPT ![t] = @ + 1]
  /\ UNCHANGED <<sessionVars, command, spc, link, handle, clientVars, file, tempVars, historyVars>>

\* send_file: the end mark
SendEnd(t) ==
  /\ spc[t] = "send"
  /\ spos[t] >= Len(Source(t))
  /\ SendDown(t, End)
  /\ spc' = [spc EXCEPT ![t] = IF command[t] = "LIST" THEN "remove" ELSE "done"]
  /\ UNCHANGED <<sessionVars, command, link, handle, spos, clientVars, file, tempVars, historyVars>>

\* The client's child has gone: a send kills the process.
SendFails(t) ==
  /\ spc[t] = "send" /\ ClientOver(link[t])
  /\ spc' = [spc EXCEPT ![t] = "killed"]
  /\ UNCHANGED <<sessionVars, command, link, handle, spos, clientVars, down, file, tempVars, historyVars>>

\* Mutant: temp.txt is kept.
KeepListing(t) ==
  /\ spc[t] = "remove"
  /\ spc' = [spc EXCEPT ![t] = "done"]
  /\ UNCHANGED <<sessionVars, command, link, handle, spos, clientVars, down, file, tempVars, historyVars>>

\* rm temp.txt
RemoveListing(t) ==
  /\ spc[t] = "remove"
  /\ temp' = None
  /\ spc' = [spc EXCEPT ![t] = "done"]
  /\ UNCHANGED <<sessionVars, command, link, handle, spos, clientVars, down, file, listing, historyVars>>

\* The file with block b written at position n, after a hole if it is shorter.
WrittenAt(n, b) ==
  [i \in 1 .. (IF n > Len(file) THEN n ELSE Len(file)) |->
     CASE i = n -> b [] i # n /\ i <= Len(file) -> file[i] [] OTHER -> Hole]

\* What the client's child has sent and receive_file not taken.
Unread(t) == SubSeq(up[link[t]], spos[t] + 1, Len(up[link[t]]))

\* receive_file: a block
StoreBlock(t) ==
  /\ spc[t] = "receive"
  /\ Unread(t) # << >> /\ Head(Unread(t)) # End
  /\ file' = WrittenAt(spos[t] + 1, Head(Unread(t)))
  /\ spos' = [spos EXCEPT ![t] = @ + 1]
  /\ UNCHANGED <<sessionVars, command, spc, link, handle, clientVars, down, tempVars, historyVars>>

\* receive_file: the end mark
StoreEnd(t) ==
  /\ spc[t] = "receive"
  /\ Unread(t) # << >> /\ Head(Unread(t)) = End
  /\ spc' = [spc EXCEPT ![t] = "done"]
  /\ UNCHANGED <<sessionVars, command, link, handle, spos, clientVars, down, file, tempVars, historyVars>>

\* receive_file: the client's child has closed.
StoreCut(t) ==
  /\ spc[t] = "receive"
  /\ Unread(t) = << >> /\ ClientOver(link[t])
  /\ spc' = [spc EXCEPT ![t] = "done"]
  /\ torn' = TRUE
  /\ UNCHANGED <<sessionVars, command, link, handle, spos, clientVars, down, file, tempVars, shared>>

------------------------------------------------------------------------------
(* The client's child                                                      *)

\* send_file: all the blocks and the end mark.  Nobody else writes the client's
\* file, and what has been sent waits in the connection.
ClientSend(c) ==
  /\ cpc[c] = "send"
  /\ up' = [up EXCEPT ![c] = Append(Upload(c), End)]
  /\ cpc' = [cpc EXCEPT ![c] = "done"]
  /\ UNCHANGED <<sessionVars, command, serverVars, down, file, tempVars, historyVars>>

ClientSendFails(c) ==
  /\ cpc[c] = "send" /\ ServerOver(OtherEnd(c))
  /\ cpc' = [cpc EXCEPT ![c] = "killed"]
  /\ UNCHANGED <<sessionVars, command, serverVars, up, down, file, tempVars, historyVars>>

Ended(c) == down[c] # << >> /\ Last(down[c]) = End

\* receive_file has taken everything up to the end mark.
ClientComplete(c) ==
  /\ cpc[c] = "receive"
  /\ Ended(c)
  /\ cpc' = [cpc EXCEPT ![c] = "complete"]
  /\ UNCHANGED <<sessionVars, command, serverVars, up, down, file, tempVars, historyVars>>

\* receive_file has taken everything, and the server's child has closed.
ClientCut(c) ==
  /\ cpc[c] = "receive"
  /\ ~Ended(c) /\ ServerOver(OtherEnd(c))
  /\ cpc' = [cpc EXCEPT ![c] = "cut"]
  /\ UNCHANGED <<sessionVars, command, serverVars, up, down, file, tempVars, historyVars>>

\* What receive_file has taken of a transfer that is complete.
Got(c) == Front(down[c])

------------------------------------------------------------------------------

ServerChild(t) ==
  \/ Connect(t)
  \/ AppendListing(t) \/ OpenListing(t) \/ OpenFile(t) \/ CreateFile(t)
  \/ SendBlock(t) \/ SendEnd(t) \/ SendFails(t) \/ RemoveListing(t)
  \/ StoreBlock(t) \/ StoreEnd(t) \/ StoreCut(t)

ClientChild(t) ==
  Bind(t) \/ ClientSend(t) \/ ClientSendFails(t) \/ ClientComplete(t) \/ ClientCut(t)

Session(s) ==
  \/ Accept(s)
  \/ ServerForks(s) \/ ServerRefuses(s) \/ ClientForks(s)
  \/ Quit(s) \/ Interrupt(s)

\* Nobody has to connect or to type, and a child may wait for ever.
Idle == (\A s \in Sessions : ~replied[s]) /\ UNCHANGED vars

Next ==
  \/ AcceptFails
  \/ \E s \in Sessions : Session(s)
  \/ \E t \in Transfers : ServerChild(t) \/ ClientChild(t)
  \/ Idle

Spec == Init /\ [][Next]_vars

(***************************************************************************)
(* Fairness.  The processes are scheduled: the children go on, the client  *)
(* forks when it has read the 150.  Nobody has to type.                    *)
(***************************************************************************)
Fairness ==
  /\ \A t \in Transfers : WF_vars(ServerChild(t)) /\ WF_vars(ClientChild(t))
  /\ \A s \in Sessions : WF_vars(ClientForks(s))

FairSpec == Spec /\ Fairness

------------------------------------------------------------------------------
(* Properties *)

\* Two transfers that the arithmetic of the ports gives the same port.
Collide(t, u) == t[1] # u[1] /\ PortOfTransfer(t) = PortOfTransfer(u)

\* A server's child that keeps trying to connect (server.c:594) does not miss the
\* client's child that waits for it: it meets no other listener from then on,
\* although sessions choose their ports without knowing of each other and the
\* ports of two transfers may be equal.  It goes astray only before its client
\* listens, or when that has failed to bind or has been killed.
MeetsItsClient ==
  [][\A t \in Transfers : link'[t] # link[t] /\ cpc[t] = "accept" => link'[t] = t]_vars

Whole(f) == f = OldFile \/ \E t \in Transfers : f = Upload(t)

\* What a client has received when the end mark comes is one listing, its own,
\* or one file as one client stored it; unless it shared temp.txt or the file
\* with another transfer, or met the wrong child.
ReceivedIntact ==
  \A t \in Transfers :
    cpc[t] = "complete" /\ link[t] = t /\ t \notin shared =>
      IF command[t] = "LIST" THEN Got(t) = <<t>> ELSE Whole(Got(t))

\* Between two uploads the file is one client's file, unless the last uploads
\* overlapped or were cut.
FileIntact == Storing = {} /\ ~torn => Whole(file)

Started == {t \in Transfers : spc[t] # "none"}

\* No two transfers that were started have the same port, and none has a port
\* that cannot be bound.
Apart ==
  \A t \in Started :
    /\ PortOfTransfer(t) \notin ClosedPorts
    /\ \A s \in Sessions : control_port[s] # PortOfTransfer(t)
    /\ \A u \in Started : ~Collide(t, u)

\* The child of the server whose client was interrupted before it accepted:
\* nothing ends its loop.
LeftOver(t) == spc[t] = "connect" /\ cpc[t] = "killed"

\* Both ends of a connection between two sessions receive.
BothReceive(t, c) == link[t] = c /\ spc[t] = "receive" /\ cpc[c] = "receive"

\* The server's child of t has nobody to connect to: the client's child is over
\* or was met by another.
Loops(t) == spc[t] = "connect" /\ (ClientOver(t) \/ \E u \in Transfers : link[u] = t)

\* The client's child waits for a server's child that has gone elsewhere.
Deserted(t) == cpc[t] = "accept" /\ spc[t] # "connect"

\* Every child of a transfer that was answered with 150 ends, whatever ports
\* collide, but for those that the collision has left alone (server.c:594,
\* client.c:306): a loop of connect whose listener is over or taken, an accept
\* whose server's child has gone elsewhere, and two that met crosswise and both
\* receive.  So nobody waits in accept while the server's child of its transfer
\* tries to connect, or for a child that sends (data_transfer.c:35).  As long as
\* no two transfers have the same port both sides end, but for the loop of a
\* server's child whose client was killed before it accepted.  (A session has a
\* last transfer in the model: all of them are over or stuck again and again.)
TransfersEnd ==
  []<>(/\ \A t \in Started :
            /\ ServerOver(t) \/ Loops(t) \/ BothReceive(t, link[t])
            /\ ClientOver(t) \/ Deserted(t) \/ \E u \in Transfers : BothReceive(u, t)
       /\ Apart => \A t \in Started : (ServerOver(t) /\ ClientOver(t)) \/ LeftOver(t))

------------------------------------------------------------------------------
(* What the source says and the code does not do.                          *)

\* "to list all the files under the current server directory": a LIST that is
\* complete has brought the listing of the session's own directory, and nothing
\* else.
ListsOwnDirectory ==
  \A t \in Transfers :
    cpc[t] = "complete" /\ command[t] = "LIST" /\ link[t] = t => Got(t) = <<t>>
==============================================================================
