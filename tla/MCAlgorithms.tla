---------------------------- MODULE MCAlgorithms -----------------------------
(***************************************************************************)
(* The parts of the programs that are sequential and can be looked at      *)
(* alone, one in each behaviour: the congestion window, the data ports of  *)
(* a session, the linked lists, the process that serves a client.          *)
(***************************************************************************)
EXTENDS MCCongestionControl, FtpPortSequence, LinkedLists, MCFtpServer

VARIABLE subject    \* the part that moves

Init ==
  /\ subject \in {"congestion", "ports", "lists", "server"}
  /\ CCInit
  /\ PortsInit
  /\ ListInit
  /\ ServiceInit
  \* the others are the same in every behaviour
  /\ subject # "ports" => control_port = CHOOSE c \in ControlPorts : TRUE
  /\ subject # "lists" => use = "window"

Next ==
  /\ \/ subject = "congestion" /\ CCNext /\ UNCHANGED <<portsVars, listVars, serviceVars>>
     \/ subject = "ports" /\ PortsNext /\ UNCHANGED <<ccVars, listVars, serviceVars>>
     \/ subject = "lists" /\ ListNext /\ UNCHANGED <<ccVars, portsVars, serviceVars>>
     \/ subject = "server" /\ ServiceNext /\ UNCHANGED <<ccVars, portsVars, listVars>>
  /\ UNCHANGED subject

Spec == Init /\ [][Next]_<<subject, ccVars, portsVars, listVars, serviceVars>>
==============================================================================
