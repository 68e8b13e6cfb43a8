------------------------------ MODULE FtpClient ------------------------------
(***************************************************************************)
(* main and send_new_port (project_2/code/client.c): the loop that reads a *)
(* command of the user, sends it and waits for the reply.  STOR, RETR and  *)
(* LIST take two requests: PORT, then the command itself.                  *)
(***************************************************************************)
EXTENDS FtpControl

CONSTANTS ControlPorts,    \* the local ports connect may choose
          MaxTransfers     \* bound of the model: ports a session may send

ASSUME ControlAssumption ==
  /\ ControlPorts \subseteq 1 .. PortSpace - 1
  /\ MaxTransfers \in Nat

VARIABLES cpc,             \* the reply main waits for, or "prompt", "closed"
          input,           \* the transfer command of the user
          control_port,    \* the local port of the control connection
          port_counter,
          listening        \* the transfers handed to a child process, in order

clientVars == <<cpc, input, control_port, port_counter, listening>>

new_port == NewPort(control_port, port_counter)

ClientInit ==
  /\ cpc = "greeting"
  /\ input = "LIST"    \* unset until a transfer is typed
  /\ control_port \in ControlPorts
  /\ port_counter = FirstTransfer
  /\ listening = << >>

Send(cmd, arg) == toServer' = Append(toServer, [cmd |-> cmd, arg |-> arg])

\* The user types a command that takes one request and prints the reply.
Ask(cmd, arg) ==
  /\ cpc = "prompt"
  /\ Send(cmd, arg)
  /\ cpc' = IF cmd = "QUIT" THEN "quit" ELSE "answer"
  /\ UNCHANGED <<input, control_port, port_counter, listening, toClient>>

TypeUser == \E u \in Users \cup {"nobody"} : Ask("USER", u)
TypePass == \E u \in Users \cup {"nobody"} : Ask("PASS", u)
TypeCwd  == \E d \in Dirs : Ask("CWD", d)
TypePwd  == Ask("PWD", << >>)
TypeQuit == Ask("QUIT", << >>)

\* The user types a transfer command: the next port goes first.  (STOR of a
\* file the client does not have sends nothing.)
TypeTransfer ==
  /\ cpc = "prompt"
  /\ port_counter < FirstTransfer + MaxTransfers
  /\ input' \in Transfers
  /\ Send("PORT", <<HighByte(new_port), LowByte(new_port)>>)
  /\ cpc' = "port"
  /\ UNCHANGED <<control_port, port_counter, listening, toClient>>

\* recv returns a reply.
Receive ==
  /\ toClient # << >>
  /\ toClient' = << >>

Code == Head(toClient)

\* The reply of a command is printed.
ReadAnswer ==
  /\ cpc \in {"greeting", "answer"}
  /\ Receive
  /\ cpc' = "prompt"
  /\ UNCHANGED <<input, control_port, port_counter, listening, toServer>>

ReadQuit ==
  /\ cpc = "quit"
  /\ Receive
  /\ cpc' = IF Code = 221 THEN "closed" ELSE "prompt"
  /\ UNCHANGED <<input, control_port, port_counter, listening, toServer>>

\* Mutant: the reply to PORT is not looked at.
ReadPortUnchecked ==
  /\ cpc = "port"
  /\ Receive
  /\ Send(input, << >>)
  /\ cpc' = "transfer"
  /\ UNCHANGED <<input, control_port, port_counter, listening>>

\* send_new_port: the command itself follows when the port is accepted.
ReadPort ==
  /\ cpc = "port"
  /\ Receive
  /\ IF Code = 200
     THEN /\ Send(input, << >>)
          /\ cpc' = "transfer"
          /\ UNCHANGED port_counter
     ELSE /\ cpc' = "prompt"
          /\ port_counter' = port_counter + 1
          /\ UNCHANGED toServer
  /\ UNCHANGED <<input, control_port, listening>>

\* Mutant: every reply but 530 starts the child process.
ListenUnlessRefused ==
  /\ cpc = "transfer"
  /\ Receive
  /\ listening' = IF Code = 530
                  THEN listening
                  ELSE Append(listening, [cmd |-> input, port |-> new_port])
  /\ cpc' = "prompt"
  /\ port_counter' = port_counter + 1
  /\ UNCHANGED <<input, control_port, toServer>>

\* 150: a child process listens on the port.
ReadTransfer ==
  /\ cpc = "transfer"
  /\ Receive
  /\ listening' = IF Code = 150
                  THEN Append(listening, [cmd |-> input, port |-> new_port])
                  ELSE listening
  /\ cpc' = "prompt"
  /\ port_counter' = port_counter + 1
  /\ UNCHANGED <<input, control_port, toServer>>

\* recv returns nothing, which counts as a reply for the loop, or fails and ends
\* it.  What was sent is lost.
ReadNothing ==
  /\ cpc \notin {"prompt", "closed"}
  /\ toClient = << >>
  /\ cpc' \in {"prompt", "closed"}
  /\ port_counter' =
       IF cpc \in {"port", "transfer"} THEN port_counter + 1 ELSE port_counter
  /\ toServer' = << >>
  /\ UNCHANGED <<input, control_port, listening, toClient>>

\* The client is killed, or its terminal is closed.
ClientDies ==
  /\ cpc # "closed"
  /\ cpc' = "closed"
  /\ UNCHANGED <<input, control_port, port_counter, listening, wires>>

Read == ReadAnswer \/ ReadQuit \/ ReadPort \/ ReadTransfer
==============================================================================
