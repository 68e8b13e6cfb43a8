--------------------------- MODULE FtpPortSequence ---------------------------
(***************************************************************************)
(* The data ports that client.c opens in the course of one session, one    *)
(* for every transfer command.                                             *)
(***************************************************************************)
EXTENDS FtpPorts

CONSTANTS ControlPorts,    \* the local ports connect may choose
          LastTransfer     \* the last value of port_counter that is used

ASSUME SequenceAssumption ==
  /\ ControlPorts \subseteq 1 .. PortSpace - 1
  /\ LastTransfer \in Nat

VARIABLES control_port, port_counter,
          used             \* the data ports opened so far

portsVars == <<control_port, port_counter, used>>

PortsInit ==
  /\ control_port \in ControlPorts
  /\ port_counter = FirstTransfer
  /\ used = {}

\* new_port of the transfer that is typed now
new_port == NewPort(control_port, port_counter)

\* main, lines 198-199; the server connects to the port it puts together.
Transfer ==
  /\ port_counter <= LastTransfer
  /\ used' = used \cup {PortOf(HighByte(new_port), LowByte(new_port))}
  /\ port_counter' = port_counter + 1
  /\ UNCHANGED control_port

\* The user has typed enough.
Exited == port_counter > LastTransfer /\ UNCHANGED portsVars

PortsNext == Transfer \/ Exited

PortsSpec == PortsInit /\ [][PortsNext]_portsVars

------------------------------------------------------------------------------
(* Properties *)

\* The port of a transfer is not the port of the control connection and not
\* one that an earlier transfer of the session, which may still be running, is
\* using: bind in the child process (client.c:284) does not meet a port that
\* its own session has taken.  This holds for the first 252 transfers; the
\* next one, with port_counter 256, is given the control port.
PortIsFresh ==
  port_counter <= LastTransfer => new_port \notin used \cup {control_port}
==============================================================================
