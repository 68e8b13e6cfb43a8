------------------------------- MODULE FileCopy ------------------------------
(***************************************************************************)
(* What a transfer of project_2 promises: the target grows as a prefix of  *)
(* the source.  The transfer ends complete, with all of it, or it is cut.  *)
(***************************************************************************)
EXTENDS Naturals, Sequences

CONSTANT Source    \* the file that is sent, a sequence

VARIABLES target, ending

vars == <<target, ending>>

Init ==
  /\ target = << >>
  /\ ending = "none"

Extend ==
  /\ ending = "none"
  /\ \E n \in Len(target) + 1 .. Len(Source) : target' = SubSeq(Source, 1, n)
  /\ UNCHANGED ending

Complete ==
  /\ ending = "none"
  /\ target = Source
  /\ ending' = "complete"
  /\ UNCHANGED target

Cut ==
  /\ ending = "none"
  /\ ending' = "cut"
  /\ UNCHANGED target

Next == Extend \/ Complete \/ Cut

Spec == Init /\ [][Next]_vars
==============================================================================
