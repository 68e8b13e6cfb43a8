----------------------------- MODULE LinkedLists -----------------------------
(***************************************************************************)
(* The doubly linked lists of project_1 and project_2 (linked_list.c), and *)
(* add_pkt_to_list of rdt_receiver.c, pointer by pointer.  A node is its   *)
(* address; malloc returns any address that is free, and a field keeps its *)
(* value when the node is freed.                                           *)
(*                                                                         *)
(* One list is in use: the sliding window of the sender (add_node at the   *)
(* tail, remove_node at the head), the early packets of the receiver       *)
(* (add_pkt_to_list, remove_node) or the path of a session (add_node and   *)
(* the remove_node of project_2, both at the tail).  delete_list removes   *)
(* node by node.  A packet stands for its sequence number.                 *)
(***************************************************************************)
EXTENDS Naturals, Sequences

CONSTANTS Nodes,     \* the addresses malloc may return
          Values,    \* sequence numbers, or names
          NULL

ASSUME ListAssumption == NULL \notin Nodes /\ Values \subseteq Nat

VARIABLES use,
          head, tail, size,
          p, next, prev,    \* of every node
          allocated

listVars == <<use, head, tail, size, p, next, prev, allocated>>

ListInit ==
  /\ use \in {"window", "early", "path"}
  /\ head = NULL /\ tail = NULL /\ size = 0
  /\ p = [n \in Nodes |-> 0]
  /\ next = [n \in Nodes |-> NULL]
  /\ prev = [n \in Nodes |-> NULL]
  /\ allocated = {}

\* What follows a node; whatever follows an address that is none.
Follow(n) == IF n \in Nodes THEN next[n] ELSE NULL

\* The i-th node from the head, counted from 0.
NodeAt(i) ==
  LET at[k \in 0 .. i] == IF k = 0 THEN head ELSE Follow(at[k - 1])
  IN  at[i]

\* Node n is new, and holds v.
Malloc(n, v) ==
  /\ n \in Nodes \ allocated
  /\ allocated' = allocated \cup {n}
  /\ p' = [p EXCEPT ![n] = v]
  /\ size' = size + 1

AddFirst(n, v) ==
  /\ size = 0
  /\ Malloc(n, v)
  /\ head' = n /\ tail' = n
  /\ prev' = [prev EXCEPT ![n] = NULL]
  /\ next' = [next EXCEPT ![n] = NULL]

\* Mutant: the new node does not point back.
AddLastForward(n, v) ==
  /\ size > 0
  /\ Malloc(n, v)
  /\ next' = [next EXCEPT ![tail] = n, ![n] = NULL]
  /\ tail' = n
  /\ UNCHANGED <<head, prev>>

AddLast(n, v) ==
  /\ size > 0
  /\ Malloc(n, v)
  /\ prev' = [prev EXCEPT ![n] = tail]
  /\ next' = [next EXCEPT ![tail] = n, ![n] = NULL]
  /\ tail' = n
  /\ UNCHANGED head

\* add_node
AddNode(v) == (\E n \in Nodes : AddFirst(n, v) \/ AddLast(n, v)) /\ UNCHANGED use

\* add_pkt_to_list: a new head.  prev of the old one stays NULL.
AddBeforeHead(n, v) ==
  /\ size > 0 /\ v < p[head]
  /\ Malloc(n, v)
  /\ prev' = [prev EXCEPT ![n] = NULL]
  /\ next' = [next EXCEPT ![n] = head]
  /\ head' = n
  /\ UNCHANGED tail

\* The walk of add_pkt_to_list stops at node m: it holds v, or the next is larger.
StopsAt(m, v) ==
  next[m] # NULL /\ (p[m] = v \/ p[next[m]] > v)

\* Mutant: the new node goes in at the first larger one, after it.
InsertedLate(n, v) ==
  \E i \in 0 .. size - 1 :
    LET m == NodeAt(i)
    IN  /\ next[m] # NULL /\ p[m] > v
        /\ \A j \in 0 .. i - 1 : p[NodeAt(j)] <= v
        /\ Malloc(n, v)
        /\ prev' = [prev EXCEPT ![n] = m, ![next[m]] = n]
        /\ next' = [next EXCEPT ![n] = next[m], ![m] = n]

\* It goes in after the node where the walk stops.
Inserted(n, v) ==
  \E i \in 0 .. size - 1 :
    LET m == NodeAt(i)
    IN  /\ StopsAt(m, v) /\ p[m] # v
        /\ \A j \in 0 .. i - 1 : ~StopsAt(NodeAt(j), v)
        /\ Malloc(n, v)
        /\ prev' = [prev EXCEPT ![n] = m, ![next[m]] = n]
        /\ next' = [next EXCEPT ![n] = next[m], ![m] = n]

\* add_pkt_to_list: in the middle
AddBetween(n, v) ==
  /\ size > 0 /\ v >= p[head] /\ v <= p[tail]
  /\ Inserted(n, v)
  /\ UNCHANGED <<head, tail>>

\* add_pkt_to_list: the walk stops at a duplicate, or at the tail.
Dropped(v) ==
  /\ size > 0 /\ v >= p[head] /\ v <= p[tail]
  /\ \/ \A i \in 0 .. size - 1 : ~StopsAt(NodeAt(i), v)
     \/ \E i \in 0 .. size - 1 :
          /\ StopsAt(NodeAt(i), v) /\ p[NodeAt(i)] = v
          /\ \A j \in 0 .. i - 1 : ~StopsAt(NodeAt(j), v)
  /\ UNCHANGED <<head, tail, size, p, next, prev, allocated>>

AddLarger(n, v) == size > 0 /\ v > p[tail] /\ AddLast(n, v)

AddPktToList(v) ==
  /\ \/ \E n \in Nodes :
          AddFirst(n, v) \/ AddBeforeHead(n, v) \/ AddLarger(n, v) \/ AddBetween(n, v)
     \/ Dropped(v)
  /\ UNCHANGED use

\* remove_node of project_1
RemoveHead ==
  /\ size > 0
  /\ head' = next[head]
  /\ allocated' = allocated \ {head}
  /\ size' = size - 1
  /\ prev' = IF size' = 0 THEN prev ELSE [prev EXCEPT ![head'] = NULL]
  /\ UNCHANGED <<use, tail, p, next>>

\* Mutant: the new tail keeps its next.
RemoveTailOnly ==
  /\ size > 0
  /\ tail' = prev[tail]
  /\ allocated' = allocated \ {tail}
  /\ size' = size - 1
  /\ UNCHANGED <<use, head, p, next, prev>>

\* remove_node of project_2
RemoveTail ==
  /\ size > 0
  /\ tail' = prev[tail]
  /\ allocated' = allocated \ {tail}
  /\ size' = size - 1
  /\ next' = IF size' = 0 THEN next ELSE [next EXCEPT ![tail'] = NULL]
  /\ UNCHANGED <<use, head, p, prev>>

ListNext ==
  \/ use = "window" /\ (RemoveHead \/ \E v \in Values : AddNode(v))
  \/ use = "early" /\ (RemoveHead \/ \E v \in Values : AddPktToList(v))
  \/ use = "path" /\ (RemoveTail \/ \E v \in Values : AddNode(v))

ListSpec == ListInit /\ [][ListNext]_listVars

------------------------------------------------------------------------------
(* Properties *)

\* From the head the list leads over size nodes to its tail and ends there; the
\* nodes on the way are all there are, so that no pointer that is followed leads
\* to a freed node and no node is lost, in whatever order nodes are added,
\* removed and their addresses used again.
ChainSound ==
  size > 0 =>
    /\ allocated = {NodeAt(i) : i \in 0 .. size - 1}
    /\ \A i \in 0 .. size - 1 : NodeAt(i) = tail <=> i = size - 1
    /\ next[tail] = NULL

\* The path can be taken back from its tail (remove_node of project_2): the
\* node before the tail is the one that leads to it.
WalksBack ==
  use = "path" => \A i \in 1 .. size - 1 : prev[NodeAt(i)] = NodeAt(i - 1)

Contents == INSTANCE ListContents
              WITH items <- [i \in 1 .. size |-> p[NodeAt(i - 1)]]

\* The pointers implement the queue, the sorted queue without duplicates and
\* the stack that the models of the programs use.
KeepsContents == Contents!ContentsSpec
==============================================================================
