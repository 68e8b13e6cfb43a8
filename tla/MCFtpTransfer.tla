---------------------------- MODULE MCFtpTransfer ----------------------------
(***************************************************************************)
(* Two sessions.  With control ports 40000 and 40009 the second transfer   *)
(* of one session has the port of the first of the other (40025).          *)
(***************************************************************************)
EXTENDS FtpTransfer

MCSessions == {"a", "b"}

MCControlPorts == [s \in MCSessions |-> IF s = "a" THEN {40000} ELSE {40009}]
==============================================================================
