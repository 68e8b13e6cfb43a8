------------------------------- MODULE FtpPorts ------------------------------
(***************************************************************************)
(* The numbers of the data ports (project_2/code): the client derives one  *)
(* from the port of its control connection for each transfer and sends it  *)
(* as two bytes; the server puts the bytes together again.                 *)
(***************************************************************************)
EXTENDS Integers

\* The number of values of an unsigned short.
PortSpace == 65536

\* The value port_counter starts with.
FirstTransfer == 4

\* Mutant: the square is kept in an unsigned char.
NewPortOfByte(control_port, port_counter) ==
  (control_port + ((port_counter * port_counter) % 256)) % PortSpace

\* Mutant: new_port is an int.
NewPortInt(control_port, port_counter) ==
  control_port + port_counter * port_counter

\* new_port = control_port + (port_counter * port_counter)
NewPort(control_port, port_counter) ==
  (control_port + port_counter * port_counter) % PortSpace

\* The two unsigned chars of send_new_port.
HighByte(port) == (port \div 256) % 256
LowByte(port) == port % 256

\* port = (p1 * 256) + p2
PortOf(p1, p2) == p1 * 256 + p2
==============================================================================
