-------------------------- MODULE ReliableTransfer ---------------------------
(***************************************************************************)
(* What the pair rdt_sender / rdt_receiver promises: the received file is  *)
(* a prefix of the source file that only grows, the sender finishes only   *)
(* when all of it is delivered, and the receiver closes the file only      *)
(* after that.                                                             *)
(***************************************************************************)
EXTENDS Integers, Sequences

CONSTANT FileLen

VARIABLES output,     \* the bytes of the received file
          sender,     \* "sending" or "finished"
          receiver    \* "open" or "closed"

vars == <<output, sender, receiver>>

File == [i \in 1 .. FileLen |-> i - 1]

Init ==
  /\ output = << >>
  /\ sender = "sending"
  /\ receiver = "open"

Deliver ==
  /\ receiver = "open"
  /\ \E n \in Len(output) + 1 .. FileLen : output' = SubSeq(File, 1, n)
  /\ UNCHANGED <<sender, receiver>>

Finish ==
  /\ sender = "sending"
  /\ output = File
  /\ sender' = "finished"
  /\ UNCHANGED <<output, receiver>>

Close ==
  /\ receiver = "open"
  /\ sender = "finished"
  /\ receiver' = "closed"
  /\ UNCHANGED <<output, sender>>

Next == Deliver \/ Finish \/ Close

Spec == Init /\ [][Next]_vars
==============================================================================
