----------------------------- MODULE FtpSession ------------------------------
(***************************************************************************)
(* One FTP session: client.c, the process of server.c that serves it and   *)
(* the control connection between them.                                    *)
(***************************************************************************)
EXTENDS FtpServer, FtpClient

CONSTANT MaxPath    \* bound of the model: CWD is typed on shorter paths only

VARIABLE held    \* another process of the server has this connection open

vars == <<wires, serverVars, clientVars, held>>

\* main of the server never closes the descriptor it got from accept.
Init == WiresInit /\ ServerInit /\ ClientInit /\ held = TRUE

TypeCommand ==
  \/ TypeUser \/ TypePass \/ TypePwd \/ TypeQuit \/ TypeTransfer
  \/ Len(path) < MaxPath /\ TypeCwd

ClientStep == (TypeCommand \/ Read \/ ClientDies) /\ UNCHANGED <<serverVars, held>>

\* The child of a transfer has a copy of the descriptor as well.
ServerStep ==
  /\ Respond
  /\ held' = (held \/ started' # started)
  /\ UNCHANGED clientVars

\* recv returns nothing only when no process of the server has the connection.
ClientAlone ==
  /\ ~serving /\ ~held
  /\ ReadNothing
  /\ UNCHANGED <<serverVars, held>>

ServerAlone == cpc = "closed" /\ ServerCloses /\ UNCHANGED <<clientVars, held>>

\* The server is interrupted at its terminal, with all its processes.
ServerStops ==
  /\ serving
  /\ serving' = FALSE
  /\ held' = FALSE
  /\ UNCHANGED <<wires, authVars, path, portVars, started, clientVars>>

\* The others end: main because accept failed, and the children.
OthersEnd ==
  /\ held
  /\ held' = FALSE
  /\ UNCHANGED <<wires, serverVars, clientVars>>

\* The client has returned, or waits in recv for a server that does not answer.
Stopped == ~serving /\ cpc # "prompt" /\ UNCHANGED vars

Next ==
  ClientStep \/ ServerStep \/ ClientAlone \/ ServerAlone \/ ServerStops \/ OthersEnd \/ Stopped

Spec == Init /\ [][Next]_vars

(***************************************************************************)
(* Fairness.  Both processes are scheduled, and recv returns what has      *)
(* arrived, or nothing when all copies of the other end are closed.        *)
(* Nobody has to type, and no process has to end.                          *)
(***************************************************************************)
Fairness ==
  /\ WF_vars(ServerStep)
  /\ WF_vars(Read /\ UNCHANGED <<serverVars, held>>)
  /\ WF_vars(ClientAlone)

FairSpec == Spec /\ Fairness

------------------------------------------------------------------------------
(* Properties *)

Transfer == [cmd : Transfers, port : 0 .. PortSpace - 1]

\* Every variable has the type of the C object it stands for.
TypeOK ==
  /\ \A i \in 1 .. Len(toServer) : DOMAIN toServer[i] = {"cmd", "arg"}
  /\ toClient \in Seq({150, 200, 202, 220, 221, 230, 257, 331, 425, 501, 530, 550})
  /\ serving \in BOOLEAN /\ held \in BOOLEAN
  /\ auth1 \in BOOLEAN /\ auth2 \in BOOLEAN
  /\ username \in Users \cup {NoName}
  /\ port_f \in BOOLEAN
  /\ port \in 0 .. PortSpace - 1
  /\ started \in Seq(Transfer)
  /\ cpc \in {"greeting", "prompt", "answer", "quit", "port", "transfer", "closed"}
  /\ input \in Transfers
  /\ port_counter \in FirstTransfer .. FirstTransfer + MaxTransfers
  /\ listening \in Seq(Transfer)

\* Requests and replies alternate: there is never more than one message on the
\* control connection.  Both sides read with one recv into one buffer and would
\* take two messages for one (server.c:162, client.c:131-371).
AtMostOneMessage == Len(toServer) + Len(toClient) <= 1

\* Between two commands the server has handed to child processes exactly the
\* transfers for which the client has one listening, each with the port its
\* client is listening on: no connect of handle_transfer spins on a port that
\* nobody opens, and no accept waits for a server that does not come.
TransfersPaired == cpc = "prompt" /\ serving => started = listening

\* When a transfer command reaches the server, the port of this very transfer
\* has been accepted: NO_PORT "in theory should never run" (server.c:380), and
\* no port left from an earlier transfer is taken for it.
TransferUsesSentPort ==
  toServer # << >> /\ Request.cmd \in Transfers => port_f /\ port = new_port

\* The transfer that is being asked for.
Asked == [cmd |-> input, port |-> new_port]

\* What a request on its way says about the two sides: a PORT carries the port
\* the client will listen on, and a transfer command finds it accepted.
RequestInv ==
  toServer # << >> =>
    /\ started = listening
    /\ Request.cmd = "PORT" =>
         Request.arg = <<HighByte(new_port), LowByte(new_port)>>
    /\ Request.cmd = "PORT" /\ cpc # "closed" => cpc = "port"
    /\ Request.cmd \in Transfers =>
         /\ Request.cmd = input
         /\ port_f /\ port = new_port
         /\ cpc \in {"transfer", "closed"}
    /\ cpc = "port" => Request.cmd = "PORT"
    /\ cpc = "transfer" => Request.cmd \in Transfers

\* What a reply on its way says: 200 to PORT, that the server knows the port;
\* 150, that it has started the transfer, and no other reply that it has.
ReplyInv ==
  toClient # << >> =>
    /\ cpc = "port" /\ Code = 200 => port_f /\ port = new_port
    /\ cpc = "transfer" =>
         started = IF Code = 150 THEN Append(listening, Asked) ELSE listening

\* The invariant from which the others follow: where the client is in its loop,
\* the message on the connection and the transfers that each side has started
\* fit together, in every state of the login and whatever was refused.
LockStep ==
  /\ AtMostOneMessage
  /\ cpc = "prompt" => toServer = << >> /\ toClient = << >>
  /\ RequestInv
  /\ ReplyInv
  /\ cpc \notin {"transfer", "closed"} => started = listening
  /\ cpc = "transfer" /\ toClient = << >> => started = listening
  /\ cpc \in {"port", "transfer"} => port_counter < FirstTransfer + MaxTransfers

\* The two programs implement TransferAgreement: whatever is refused, typed or
\* interrupted between PORT, the command and the 150, the children of the two
\* sides are started for the same transfers in the same order.
Agreement == INSTANCE TransferAgreement
               WITH offered <- started, taken <- listening

SameTransfers == Agreement!AgreementSpec

Waiting == cpc \notin {"prompt", "closed"}

\* Every command the client sends is answered, or its recv notices that the
\* server is gone: no order of replies leaves client.c and handle_user both
\* waiting in recv.  What can leave the client waiting is that handle_user alone
\* is killed, for main keeps the connection open (server.c:109).
AnsweredWhileServed == Waiting ~> ~Waiting \/ (~serving /\ held)

------------------------------------------------------------------------------
(* What a text of the source says and the code does not do.                *)

\* "QUIT to close connection at any moment": the client comes back to its prompt
\* from every command, so that the user can type QUIT.
PromptReturns == Waiting ~> ~Waiting
==============================================================================
