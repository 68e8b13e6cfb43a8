---------------------------- MODULE ListContents -----------------------------
(***************************************************************************)
(* What the linked lists of both projects are for.  The sliding window is  *)
(* a queue, the receiver's list of early packets a sorted queue without    *)
(* duplicates, and the path of a session a stack.                          *)
(***************************************************************************)
EXTENDS Naturals, Sequences

CONSTANT Values

VARIABLES use,     \* "window", "early" or "path"
          items    \* what is in the list, in order

contentsVars == <<use, items>>

ContentsInit ==
  /\ use \in {"window", "early", "path"}
  /\ items = << >>

\* v goes in where all the items before it are smaller and all the others larger,
\* unless it is there already.
AddSorted(v) ==
  IF \E i \in 1 .. Len(items) : items[i] = v
  THEN UNCHANGED items
  ELSE \E k \in 0 .. Len(items) :
         /\ \A i \in 1 .. k : items[i] < v
         /\ \A i \in k + 1 .. Len(items) : items[i] > v
         /\ items' = [i \in 1 .. Len(items) + 1 |->
                        IF i <= k THEN items[i] ELSE IF i = k + 1 THEN v ELSE items[i - 1]]

Add(v) ==
  /\ IF use = "early" THEN AddSorted(v) ELSE items' = Append(items, v)
  /\ UNCHANGED use

Remove ==
  /\ items # << >>
  /\ items' = IF use = "path" THEN SubSeq(items, 1, Len(items) - 1) ELSE Tail(items)
  /\ UNCHANGED use

ContentsNext == Remove \/ \E v \in Values : Add(v)

ContentsSpec == ContentsInit /\ [][ContentsNext]_contentsVars
==============================================================================
