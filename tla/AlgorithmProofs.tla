--------------------------- MODULE AlgorithmProofs ---------------------------
(***************************************************************************)
(* Proofs about the parts of the programs that are sequential: no session  *)
(* of up to 252 transfers uses a data port twice; the linked lists keep    *)
(* their chain of nodes and their contents, however many nodes there are   *)
(* and whatever addresses malloc returns; the congestion window keeps pace *)
(* with the acknowledgements, whatever the float additions round to.       *)
(*                                                                         *)
(* A leaf that needs the value of One is for SMT alone: Zenon writes       *)
(* numbers in unary.                                                       *)
(***************************************************************************)
EXTENDS MCCongestionControl, FtpPortSequence, LinkedLists,
        ArithmeticLemmas, SequenceTheorems, TLAPS

------------------------------------------------------------------------------
(* The data ports *)

\* The inductive invariant: the ports used are those of the counters so far.
SequenceInv ==
  /\ control_port \in 1 .. PortSpace - 1
  /\ port_counter \in Nat /\ port_counter >= FirstTransfer
  /\ used = {NewPort(control_port, k) : k \in FirstTransfer .. port_counter - 1}

\* The ports a session has used are those of its counters so far.
LEMMA SequenceInvariant == PortsSpec => []SequenceInv
<1>1. PortsInit => SequenceInv
  BY SequenceAssumption DEF PortsInit, SequenceInv, FirstTransfer
<1>2. SequenceInv /\ [PortsNext]_portsVars => SequenceInv'
  <2> SUFFICES ASSUME SequenceInv, [PortsNext]_portsVars
               PROVE  SequenceInv'
    OBVIOUS
  <2>1. CASE Transfer
    <3>1. new_port \in 0 .. PortSpace - 1
      BY NewPortType DEF SequenceInv, new_port
    <3>2. PortOf(HighByte(new_port), LowByte(new_port)) = new_port
      BY <3>1, RoundTrip
    <3>3. /\ port_counter \in Nat /\ port_counter >= 4
          /\ port_counter' = port_counter + 1
          /\ control_port' = control_port
      BY <2>1 DEF Transfer, SequenceInv, FirstTransfer
    <3>4. 4 .. port_counter' - 1 = (4 .. port_counter - 1) \cup {port_counter}
      BY <3>3
    <3>5. used' = {NewPort(control_port, k) : k \in 4 .. port_counter - 1}
                    \cup {NewPort(control_port, port_counter)}
      BY <2>1, <3>2 DEF Transfer, SequenceInv, FirstTransfer, new_port
    <3>6. used' = {NewPort(control_port, k) : k \in 4 .. port_counter' - 1}
      BY <3>4, <3>5
    <3> QED BY <3>3, <3>6 DEF SequenceInv, FirstTransfer
  <2>2. CASE UNCHANGED portsVars
    BY <2>2 DEF portsVars, SequenceInv
  <2> QED BY <2>1, <2>2 DEF PortsNext, Exited
<1> QED BY <1>1, <1>2, PTL DEF PortsSpec

\* The data ports of a session are all different, and different from its
\* control port, for every control port and as long as port_counter stays below
\* 256 (the 253rd transfer takes the control port itself).
THEOREM FreshPorts ==
  ASSUME LastTransfer <= 255
  PROVE  PortsSpec => []PortIsFresh
<1>1. SequenceInv => PortIsFresh
  <2> SUFFICES ASSUME SequenceInv, port_counter <= LastTransfer
               PROVE  new_port \notin used \cup {control_port}
    BY DEF PortIsFresh
  <2>1. /\ control_port \in 1 .. PortSpace - 1
        /\ port_counter \in 1 .. 255
    BY SequenceAssumption DEF SequenceInv, FirstTransfer
  <2>2. new_port # control_port
    BY <2>1, NotControl DEF new_port
  <2>3. ASSUME NEW k \in 4 .. port_counter - 1
        PROVE  NewPort(control_port, k) # new_port
    <3>1. k \in 0 .. 255 /\ port_counter \in 0 .. 255 /\ k < port_counter
      BY <2>1
    <3> QED BY <2>1, <3>1, Distinct, Zenon DEF new_port
  <2> QED BY <2>2, <2>3 DEF SequenceInv, FirstTransfer
<1> QED BY <1>1, SequenceInvariant, PTL

------------------------------------------------------------------------------
(* The linked lists *)

ListTypeOK ==
  /\ use \in {"window", "early", "path"}
  /\ size \in Nat
  /\ head \in Nodes \cup {NULL}
  /\ tail \in Nodes \cup {NULL}
  /\ p \in [Nodes -> Nat]
  /\ next \in [Nodes -> Nodes \cup {NULL}]
  /\ prev \in [Nodes -> Nodes \cup {NULL}]
  /\ allocated \subseteq Nodes

Injective(q, n) == \A i, j \in 0 .. n - 1 : q[i] = q[j] => i = j

\* The first n values of q.
Image(q, n) == {q[i] : i \in 0 .. n - 1}

\* q is the list, node by node.
Chain(q) ==
  /\ q \in [0 .. size - 1 -> Nodes]
  /\ Injective(q, size)
  /\ allocated = {q[i] : i \in 0 .. size - 1}
  /\ size > 0 => head = q[0] /\ tail = q[size - 1] /\ next[tail] = NULL
  /\ \A i \in 1 .. size - 1 : next[q[i - 1]] = q[i]
  /\ use = "path" => \A i \in 1 .. size - 1 : prev[q[i]] = q[i - 1]
  /\ use = "early" => \A i, j \in 0 .. size - 1 : i < j => p[q[i]] < p[q[j]]

\* The inductive invariant: there is such a chain.
ListInv == ListTypeOK /\ \E q \in [0 .. size - 1 -> Nodes] : Chain(q)

\* The walk from the head meets the nodes of the chain one by one.
ChainIsWalked ==
  \A q : ListTypeOK /\ Chain(q) => \A i \in 0 .. size - 1 : NodeAt(i) = q[i]

LEMMA Walked == ChainIsWalked
<1> SUFFICES ASSUME ListTypeOK, NEW q, Chain(q), NEW n \in 0 .. size - 1
             PROVE  NodeAt(n) = q[n]
  BY DEF ChainIsWalked
<1> DEFINE Solves(h) == h = [k \in 0 .. n |-> IF k = 0 THEN head ELSE Follow(h[k - 1])]
           R == CHOOSE h : Solves(h)
           h == [k \in 0 .. n |-> q[k]]
<1>1. NodeAt(n) = R[n]
  BY DEF NodeAt
<1>2. /\ size \in Nat /\ n \in Nat /\ n <= size - 1 /\ size > 0
      /\ q \in [0 .. size - 1 -> Nodes] /\ head = q[0]
      /\ \A i \in 1 .. size - 1 : next[q[i - 1]] = q[i]
  BY DEF ListTypeOK, Chain
<1>3. \A k \in 1 .. n : Follow(q[k - 1]) = q[k]
  <2> SUFFICES ASSUME NEW k \in 1 .. n PROVE Follow(q[k - 1]) = q[k]
    OBVIOUS
  <2>1. k \in 1 .. size - 1 /\ k - 1 \in 0 .. size - 1
    BY <1>2
  <2>2. q[k - 1] \in Nodes /\ next[q[k - 1]] = q[k]
    BY <1>2, <2>1
  <2> QED BY <2>2 DEF Follow
<1>4. Solves(h)
  <2> SUFFICES ASSUME NEW k \in 0 .. n
               PROVE  h[k] = IF k = 0 THEN head ELSE Follow(h[k - 1])
    OBVIOUS
  <2>1. CASE k = 0
    BY <1>2, <2>1
  <2>2. CASE k # 0
    <3>1. k \in 1 .. n /\ k - 1 \in 0 .. n
      BY <1>2, <2>2
    <3> QED BY <1>3, <2>2, <3>1
  <2> QED BY <2>1, <2>2
<1>5. Solves(R)
  <2> HIDE DEF Solves
  <2> QED BY <1>4
<1> HIDE DEF R
<1> DEFINE Same == [k \in 0 .. n |-> IF R[k] = q[k] THEN 1 ELSE 0]
<1>6. Same[0] \in {1}
  BY <1>2, <1>5
<1>7. \A k \in 1 .. n : Same[k - 1] \in {1} => Same[k] \in {1}
  <2> SUFFICES ASSUME NEW k \in 1 .. n, Same[k - 1] \in {1} PROVE Same[k] \in {1}
    OBVIOUS
  <2>1. k \in 0 .. n /\ k - 1 \in 0 .. n /\ k # 0
    BY <1>2
  <2>2. R[k] = Follow(R[k - 1])
    BY <1>5, <2>1
  <2>3. R[k - 1] = q[k - 1]
    BY <2>1
  <2> QED BY <1>3, <2>1, <2>2, <2>3
<1>8. \A k \in 0 .. n : Same[k] \in {1}
  <2> HIDE DEF Same
  <2> QED BY <1>2, <1>6, <1>7, Along
<1>9. n \in 0 .. n
  BY <1>2
<1> QED BY <1>1, <1>8, <1>9

\* The chain with node n at place k.
With(q, s, k, n) ==
  [i \in 0 .. s |-> IF i < k THEN q[i] ELSE IF i = k THEN n ELSE q[i - 1]]

LEMMA WithNode ==
  ASSUME NEW s \in Nat, NEW q \in [0 .. s - 1 -> Nodes], Injective(q, s),
         NEW k \in 0 .. s, NEW n \in Nodes, \A i \in 0 .. s - 1 : q[i] # n
  PROVE  /\ With(q, s, k, n) \in [0 .. s -> Nodes]
         /\ Injective(With(q, s, k, n), s + 1)
         /\ Image(With(q, s, k, n), s + 1) = Image(q, s) \cup {n}
         /\ \A i \in 0 .. k - 1 : With(q, s, k, n)[i] = q[i]
         /\ With(q, s, k, n)[k] = n
         /\ \A i \in k + 1 .. s : With(q, s, k, n)[i] = q[i - 1]
<1> DEFINE w == With(q, s, k, n)
<1>1. /\ \A i \in 0 .. k - 1 : w[i] = q[i] /\ i \in 0 .. s - 1
      /\ w[k] = n
      /\ \A i \in k + 1 .. s : w[i] = q[i - 1] /\ i - 1 \in 0 .. s - 1
  BY DEF With
<1>2. \A i \in 0 .. s : i \in 0 .. k - 1 \/ i = k \/ i \in k + 1 .. s
  OBVIOUS
<1>3. w \in [0 .. s -> Nodes]
  <2>1. \A i \in 0 .. s : w[i] \in Nodes
    BY <1>1, <1>2
  <2>2. w = [i \in 0 .. s |-> w[i]]
    BY DEF With
  <2> HIDE DEF w
  <2> QED BY <2>1, <2>2
<1> HIDE DEF w
<1>4. ASSUME NEW i \in 0 .. s, NEW j \in 0 .. s, w[i] = w[j] PROVE i = j
  <2> USE DEF Injective
  <2>1. CASE i \in 0 .. k - 1
    BY <1>1, <1>2, <1>4, <2>1
  <2>2. CASE i = k
    BY <1>1, <1>2, <1>4, <2>2
  <2>3. CASE i \in k + 1 .. s
    BY <1>1, <1>2, <1>4, <2>3
  <2> QED BY <1>2, <2>1, <2>2, <2>3
<1>5. Injective(w, s + 1)
  BY <1>4 DEF Injective
<1>6. {w[i] : i \in 0 .. s} = {q[i] : i \in 0 .. s - 1} \cup {n}
  <2>1. ASSUME NEW i \in 0 .. s PROVE w[i] \in {q[j] : j \in 0 .. s - 1} \cup {n}
    BY <1>1, <1>2
  <2>2. ASSUME NEW j \in 0 .. s - 1 PROVE \E i \in 0 .. s : w[i] = q[j]
    <3>1. CASE j < k
      <4>1. j \in 0 .. k - 1 /\ j \in 0 .. s
        BY <3>1
      <4> QED BY <1>1, <4>1
    <3>2. CASE ~(j < k)
      <4>1. j + 1 \in k + 1 .. s /\ j + 1 \in 0 .. s /\ (j + 1) - 1 = j
        BY <3>2
      <4> QED BY <1>1, <4>1
    <3> QED BY <3>1, <3>2
  <2>3. n \in {w[i] : i \in 0 .. s}
    BY <1>1
  <2> QED BY <2>1, <2>2, <2>3
<1>7. Image(w, s + 1) = Image(q, s) \cup {n}
  <2>1. (s + 1) - 1 = s
    OBVIOUS
  <2> QED BY <1>6, <2>1 DEF Image
<1> QED BY <1>1, <1>3, <1>5, <1>7 DEF w

\* A new node n with the value v takes place k of the chain: what has to become
\* of the pointers for the chain to go on.
Linked(q, k, n, v) ==
  /\ Malloc(n, v)
  /\ head' = IF k = 0 THEN n ELSE head
  /\ tail' = IF k = size THEN n ELSE tail
  /\ next' \in [Nodes -> Nodes \cup {NULL}]
  /\ next'[n] = IF k = size THEN NULL ELSE q[k]
  /\ k > 0 => next'[q[k - 1]] = n
  /\ \A i \in 0 .. size - 1 : i # k - 1 => next'[q[i]] = next[q[i]]
  /\ prev' \in [Nodes -> Nodes \cup {NULL}]
  /\ use = "path" => /\ k = size
                     /\ size > 0 => prev'[n] = tail
                     /\ \A m \in Nodes \ {n} : prev'[m] = prev[m]
  /\ use = "early" => /\ \A i \in 0 .. k - 1 : p[q[i]] < v
                      /\ \A i \in k .. size - 1 : v < p[q[i]]
  /\ use' = use

LEMMA ChainGrows ==
  ASSUME ListTypeOK, NEW q, Chain(q), NEW n, NEW v \in Values, NEW k \in 0 .. size,
         Linked(q, k, n, v), NEW w, w = With(q, size, k, n)
  PROVE  ListTypeOK' /\ Chain(w)'
<1>1. /\ n \in Nodes /\ n \notin allocated
      /\ allocated' = allocated \cup {n}
      /\ p' = [p EXCEPT ![n] = v] /\ v \in Nat
      /\ size' = size + 1 /\ use' = use
  BY ListAssumption DEF Linked, Malloc
<1>2. /\ size \in Nat /\ k \in Nat /\ k <= size /\ size' - 1 = size /\ size' \in Nat
      /\ q \in [0 .. size - 1 -> Nodes] /\ Injective(q, size)
      /\ allocated = {q[i] : i \in 0 .. size - 1}
  BY <1>1 DEF ListTypeOK, Chain
<1>3. \A i \in 0 .. size - 1 : q[i] \in Nodes /\ q[i] # n
  BY <1>1, <1>2
<1>4. /\ w \in [0 .. size -> Nodes]
      /\ Injective(w, size + 1)
      /\ {w[i] : i \in 0 .. size} = {q[i] : i \in 0 .. size - 1} \cup {n}
      /\ \A i \in 0 .. k - 1 : w[i] = q[i]
      /\ w[k] = n
      /\ \A i \in k + 1 .. size : w[i] = q[i - 1]
  <2> DEFINE s == size
  <2>1. /\ s \in Nat /\ k \in 0 .. s /\ q \in [0 .. s - 1 -> Nodes] /\ Injective(q, s)
        /\ \A i \in 0 .. s - 1 : q[i] # n
    BY <1>2, <1>3
  <2>2. w = With(q, s, k, n)
    OBVIOUS
  <2> HIDE DEF s
  <2>3. n \in Nodes
    BY <1>1
  <2>4. /\ With(q, s, k, n) \in [0 .. s -> Nodes]
        /\ Injective(With(q, s, k, n), s + 1)
        /\ Image(With(q, s, k, n), s + 1) = Image(q, s) \cup {n}
        /\ \A i \in 0 .. k - 1 : With(q, s, k, n)[i] = q[i]
        /\ With(q, s, k, n)[k] = n
        /\ \A i \in k + 1 .. s : With(q, s, k, n)[i] = q[i - 1]
    BY <2>1, <2>3, WithNode
  <2>5. (s + 1) - 1 = s
    BY <2>1
  <2>6. Image(w, s + 1) = {w[i] : i \in 0 .. s} /\ Image(q, s) = {q[i] : i \in 0 .. s - 1}
    BY <2>5 DEF Image
  <2>7. /\ w \in [0 .. s -> Nodes]
        /\ Injective(w, s + 1)
        /\ Image(w, s + 1) = Image(q, s) \cup {n}
        /\ \A i \in 0 .. k - 1 : w[i] = q[i]
        /\ w[k] = n
        /\ \A i \in k + 1 .. s : w[i] = q[i - 1]
    BY <2>2, <2>4, Zenon
  <2> QED BY <2>6, <2>7 DEF s
<1>5. ListTypeOK'
  BY <1>1, <1>2 DEF ListTypeOK, Linked
<1>6. w \in [0 .. size' - 1 -> Nodes] /\ Injective(w, size')
  BY <1>1, <1>2, <1>4
<1>7. allocated' = {w[i] : i \in 0 .. size' - 1}
  BY <1>1, <1>2, <1>4
<1>8. \A i \in 0 .. size : \/ i \in 0 .. k - 1 /\ i \in 0 .. size - 1
                           \/ i = k
                           \/ i \in k + 1 .. size /\ i - 1 \in 0 .. size - 1 /\ i - 1 \in k .. size - 1
  BY <1>2
<1>9. head' = w[0] /\ tail' = w[size' - 1] /\ next'[tail'] = NULL
  <2>1. head' = w[0]
    <3>1. CASE k = 0
      BY <1>4, <3>1 DEF Linked
    <3>2. CASE k # 0
      <4>1. 0 \in 0 .. k - 1 /\ size > 0
        BY <1>2, <3>2
      <4> QED BY <1>4, <3>2, <4>1 DEF Linked, Chain
    <3> QED BY <3>1, <3>2
  <2>2. tail' = w[size] /\ next'[tail'] = NULL
    <3>1. CASE k = size
      BY <1>4, <3>1 DEF Linked
    <3>2. CASE k # size
      <4>1. /\ size \in k + 1 .. size /\ size > 0
            /\ size - 1 \in 0 .. size - 1 /\ size - 1 # k - 1
        BY <1>2, <3>2
      <4>2. tail' = tail /\ tail = q[size - 1] /\ next[tail] = NULL
        BY <3>2, <4>1 DEF Linked, Chain
      <4>3. next'[q[size - 1]] = next[q[size - 1]]
        BY <4>1 DEF Linked
      <4> QED BY <1>4, <4>1, <4>2, <4>3
    <3> QED BY <3>1, <3>2
  <2> QED BY <1>2, <2>1, <2>2
<1>10. ASSUME NEW i \in 1 .. size PROVE next'[w[i - 1]] = w[i]
  <2>1. \A j \in 1 .. size - 1 : next[q[j - 1]] = q[j]
    BY DEF Chain
  <2>2. CASE i < k
    <3>1. i \in 0 .. k - 1 /\ i - 1 \in 0 .. k - 1 /\ i \in 1 .. size - 1
          /\ i - 1 \in 0 .. size - 1 /\ i - 1 # k - 1
      BY <1>2, <2>2
    <3>2. w[i - 1] = q[i - 1] /\ w[i] = q[i]
      BY <1>4, <3>1
    <3>3. next'[q[i - 1]] = next[q[i - 1]]
      BY <3>1 DEF Linked
    <3> QED BY <2>1, <3>1, <3>2, <3>3
  <2>3. CASE i = k
    <3>1. i - 1 \in 0 .. k - 1 /\ k > 0
      BY <1>2, <2>3
    <3>2. w[i - 1] = q[k - 1] /\ w[i] = n
      BY <1>4, <2>3, <3>1
    <3> QED BY <3>1, <3>2 DEF Linked
  <2>4. CASE i = k + 1
    <3>1. i \in k + 1 .. size /\ i - 1 = k /\ k # size
      BY <1>2, <2>4
    <3>2. w[i - 1] = n /\ w[i] = q[k]
      BY <1>4, <3>1
    <3> QED BY <3>1, <3>2 DEF Linked
  <2>5. CASE i > k + 1
    <3>1. /\ i \in k + 1 .. size /\ i - 1 \in k + 1 .. size /\ i - 1 \in 1 .. size - 1
          /\ (i - 1) - 1 \in 0 .. size - 1 /\ (i - 1) - 1 # k - 1
      BY <1>2, <2>5
    <3>2. w[i - 1] = q[(i - 1) - 1] /\ w[i] = q[i - 1]
      BY <1>4, <3>1
    <3>3. next'[q[(i - 1) - 1]] = next[q[(i - 1) - 1]]
      BY <3>1 DEF Linked
    <3> QED BY <2>1, <3>1, <3>2, <3>3
  <2> QED BY <1>2, <2>2, <2>3, <2>4, <2>5
<1>11. ASSUME use = "path", NEW i \in 1 .. size PROVE prev'[w[i]] = w[i - 1]
  <2>1. k = size /\ (size > 0 => prev'[n] = tail) /\ \A m \in Nodes \ {n} : prev'[m] = prev[m]
    BY <1>11 DEF Linked
  <2>2. i - 1 \in 0 .. k - 1 /\ size > 0
    BY <1>2, <2>1
  <2>3. w[i - 1] = q[i - 1]
    BY <1>4, <2>2
  <2>4. CASE i = size
    BY <1>4, <2>1, <2>2, <2>3, <2>4 DEF Chain
  <2>5. CASE i # size
    <3>1. i \in 0 .. k - 1 /\ i \in 1 .. size - 1 /\ i \in 0 .. size - 1
      BY <1>2, <2>1, <2>5
    <3>2. w[i] = q[i] /\ q[i] \in Nodes \ {n}
      BY <1>3, <1>4, <3>1
    <3>3. prev[q[i]] = q[i - 1]
      BY <1>11, <3>1 DEF Chain
    <3> QED BY <2>1, <2>3, <3>2, <3>3
  <2> QED BY <2>4, <2>5
<1>12. ASSUME use = "early", NEW i \in 0 .. size, NEW j \in 0 .. size, i < j
       PROVE  p'[w[i]] < p'[w[j]]
  <2>1. /\ \A l \in 0 .. k - 1 : p[q[l]] < v
        /\ \A l \in k .. size - 1 : v < p[q[l]]
    BY <1>12 DEF Linked
  <2>2. \A l, m \in 0 .. size - 1 : l < m => p[q[l]] < p[q[m]]
    BY <1>12 DEF Chain
  <2>3. p'[n] = v /\ \A l \in 0 .. size - 1 : p'[q[l]] = p[q[l]]
    BY <1>1, <1>3 DEF ListTypeOK
  <2>4. CASE i \in 0 .. k - 1
    <3>1. w[i] = q[i] /\ i \in 0 .. size - 1
      BY <1>2, <1>4, <2>4
    <3>2. CASE j \in 0 .. k - 1
      <4>1. w[j] = q[j] /\ j \in 0 .. size - 1
        BY <1>2, <1>4, <3>2
      <4> QED BY <1>12, <2>2, <2>3, <3>1, <4>1
    <3>3. CASE j = k
      BY <1>4, <2>1, <2>3, <2>4, <3>1, <3>3
    <3>4. CASE j \in k + 1 .. size
      <4>1. w[j] = q[j - 1] /\ j - 1 \in 0 .. size - 1 /\ i < j - 1
        BY <1>2, <1>4, <2>4, <3>4
      <4> QED BY <2>2, <2>3, <3>1, <4>1
    <3> QED BY <1>8, <3>2, <3>3, <3>4
  <2>5. CASE i = k
    <3>1. j \in k + 1 .. size /\ j - 1 \in k .. size - 1 /\ j - 1 \in 0 .. size - 1
      BY <1>2, <1>12, <2>5
    <3> QED BY <1>4, <2>1, <2>3, <2>5, <3>1
  <2>6. CASE i \in k + 1 .. size
    <3>1. /\ j \in k + 1 .. size /\ j - 1 \in 0 .. size - 1
          /\ i - 1 \in 0 .. size - 1 /\ i - 1 < j - 1
      BY <1>2, <1>12, <2>6
    <3>2. w[i] = q[i - 1] /\ w[j] = q[j - 1]
      BY <1>4, <2>6, <3>1
    <3> QED BY <2>2, <2>3, <3>1, <3>2
  <2> QED BY <1>8, <2>4, <2>5, <2>6
<1>13. Chain(w)'
  <2>1. \A i \in 1 .. size' - 1 : next'[w[i - 1]] = w[i]
    BY <1>2, <1>10
  <2>2. use' = "path" => \A i \in 1 .. size' - 1 : prev'[w[i]] = w[i - 1]
    BY <1>1, <1>2, <1>11
  <2>3. use' = "early" => \A i, j \in 0 .. size' - 1 : i < j => p'[w[i]] < p'[w[j]]
    BY <1>1, <1>2, <1>12
  <2> QED BY <1>6, <1>7, <1>9, <2>1, <2>2, <2>3 DEF Chain
<1> QED BY <1>5, <1>13

LEMMA FirstIsLinked ==
  ASSUME ListTypeOK, NEW q, Chain(q), NEW n, NEW v \in Values, AddFirst(n, v), use' = use
  PROVE  Linked(q, size, n, v)
<1>1. size = 0 /\ n \in Nodes
  BY DEF AddFirst, Malloc
<1>2. 0 .. size - 1 = {} /\ 0 .. 0 - 1 = {}
  BY <1>1
<1> QED BY <1>1, <1>2 DEF AddFirst, Linked, ListTypeOK

LEMMA LastIsLinked ==
  ASSUME ListTypeOK, NEW q, Chain(q), NEW n, NEW v \in Values, AddLast(n, v), use' = use,
         use = "early" => v > p[tail]
  PROVE  Linked(q, size, n, v)
<1>1. /\ size > 0 /\ size \in Nat /\ size - 1 \in 0 .. size - 1
      /\ q \in [0 .. size - 1 -> Nodes] /\ Injective(q, size)
      /\ allocated = {q[i] : i \in 0 .. size - 1}
      /\ head = q[0] /\ tail = q[size - 1]
  BY DEF AddLast, Chain, ListTypeOK
<1>2. n \in Nodes /\ n \notin allocated /\ tail \in Nodes /\ tail # n
  BY <1>1 DEF AddLast, Malloc
<1>3. ASSUME NEW i \in 0 .. size - 1, i # size - 1 PROVE next'[q[i]] = next[q[i]]
  <2>1. q[i] # tail /\ q[i] # n /\ q[i] \in Nodes
    BY <1>1, <1>2, <1>3 DEF Injective
  <2> QED BY <2>1, <1>2 DEF AddLast, ListTypeOK
<1>4. next'[n] = NULL /\ next'[tail] = n /\ next' \in [Nodes -> Nodes \cup {NULL}]
  BY <1>2 DEF AddLast, ListTypeOK
<1>5. /\ prev'[n] = tail /\ prev' \in [Nodes -> Nodes \cup {NULL}]
      /\ \A m \in Nodes \ {n} : prev'[m] = prev[m]
  BY <1>2 DEF AddLast, ListTypeOK
<1>6. ASSUME use = "early", NEW i \in 0 .. size - 1 PROVE p[q[i]] < v
  <2>1. p[tail] < v /\ p[q[i]] \in Nat /\ p[tail] \in Nat /\ v \in Nat
    BY <1>1, <1>2, <1>6, ListAssumption DEF ListTypeOK
  <2>2. i < size - 1 => p[q[i]] < p[q[size - 1]]
    BY <1>1, <1>6 DEF Chain
  <2>3. i < size - 1 \/ i = size - 1
    BY <1>1
  <2> QED BY <1>1, <2>1, <2>2, <2>3
<1>7. size .. size - 1 = {} /\ size # 0
  BY <1>1
<1>8. Malloc(n, v) /\ tail' = n /\ head' = head
  BY DEF AddLast
<1> QED BY <1>1, <1>3, <1>4, <1>5, <1>6, <1>7, <1>8 DEF Linked

LEMMA HeadIsLinked ==
  ASSUME ListTypeOK, NEW q, Chain(q), NEW n, NEW v \in Values, AddBeforeHead(n, v),
         use = "early", use' = use
  PROVE  Linked(q, 0, n, v)
<1>1. /\ size > 0 /\ size \in Nat /\ 0 \in 0 .. size - 1
      /\ q \in [0 .. size - 1 -> Nodes]
      /\ allocated = {q[i] : i \in 0 .. size - 1}
      /\ head = q[0]
  BY DEF AddBeforeHead, Chain, ListTypeOK
<1>2. n \in Nodes /\ n \notin allocated /\ head \in Nodes /\ head # n
  BY <1>1 DEF AddBeforeHead, Malloc
<1>3. ASSUME NEW i \in 0 .. size - 1 PROVE next'[q[i]] = next[q[i]]
  <2>1. q[i] # n /\ q[i] \in Nodes
    BY <1>1, <1>2
  <2> QED BY <2>1, <1>2 DEF AddBeforeHead, ListTypeOK
<1>4. /\ next'[n] = q[0] /\ next' \in [Nodes -> Nodes \cup {NULL}]
      /\ prev' \in [Nodes -> Nodes \cup {NULL}]
  BY <1>1, <1>2 DEF AddBeforeHead, ListTypeOK
<1>5. ASSUME NEW i \in 0 .. size - 1 PROVE v < p[q[i]]
  <2>1. v < p[q[0]] /\ p[q[i]] \in Nat /\ p[q[0]] \in Nat /\ v \in Nat
    BY <1>1, <1>2, ListAssumption DEF AddBeforeHead, ListTypeOK
  <2>2. i > 0 => p[q[0]] < p[q[i]]
    BY <1>1 DEF Chain
  <2>3. i > 0 \/ i = 0
    OBVIOUS
  <2> QED BY <2>1, <2>2, <2>3
<1>6. 0 .. 0 - 1 = {} /\ size # 0 /\ ~(0 > 0)
  BY <1>1
<1>7. Malloc(n, v) /\ tail' = tail /\ head' = n
  BY DEF AddBeforeHead
<1> QED BY <1>1, <1>3, <1>4, <1>5, <1>6, <1>7 DEF Linked

LEMMA BetweenIsLinked ==
  ASSUME ListTypeOK, NEW q, Chain(q), NEW n, NEW v \in Values, AddBetween(n, v),
         use = "early", use' = use
  PROVE  \E k \in 0 .. size : Linked(q, k, n, v)
<1>1. /\ size > 0 /\ size \in Nat /\ 0 \in 0 .. size - 1
      /\ q \in [0 .. size - 1 -> Nodes] /\ Injective(q, size)
      /\ allocated = {q[i] : i \in 0 .. size - 1}
      /\ head = q[0] /\ tail = q[size - 1] /\ next[tail] = NULL
      /\ \A i \in 1 .. size - 1 : next[q[i - 1]] = q[i]
      /\ \A i, j \in 0 .. size - 1 : i < j => p[q[i]] < p[q[j]]
  BY DEF AddBetween, Chain, ListTypeOK
<1>2. \A i \in 0 .. size - 1 : NodeAt(i) = q[i]
  BY Walked DEF ChainIsWalked
<1>3. PICK i \in 0 .. size - 1 :
        LET m == NodeAt(i)
        IN  /\ StopsAt(m, v) /\ p[m] # v
            /\ \A j \in 0 .. i - 1 : ~StopsAt(NodeAt(j), v)
            /\ Malloc(n, v)
            /\ prev' = [prev EXCEPT ![n] = m, ![next[m]] = n]
            /\ next' = [next EXCEPT ![n] = next[m], ![m] = n]
  BY DEF AddBetween, Inserted
<1> DEFINE m == q[i]
<1>4. /\ StopsAt(m, v) /\ p[m] # v
      /\ Malloc(n, v)
      /\ prev' = [prev EXCEPT ![n] = m, ![next[m]] = n]
      /\ next' = [next EXCEPT ![n] = next[m], ![m] = n]
  BY <1>2, <1>3
<1>5. \A j \in 0 .. i - 1 : ~StopsAt(q[j], v)
  <2>1. \A j \in 0 .. i - 1 : ~StopsAt(NodeAt(j), v) /\ j \in 0 .. size - 1
    BY <1>1, <1>3
  <2> QED BY <1>2, <2>1
<1>6. m \in Nodes /\ n \in Nodes /\ n \notin allocated /\ m # n
  BY <1>1, <1>4 DEF Malloc
<1>7. i + 1 \in 1 .. size - 1 /\ next[m] = q[i + 1] /\ q[i + 1] \in Nodes
  <2>1. next[m] # NULL
    BY <1>4 DEF StopsAt
  <2>2. i # size - 1
    BY <1>1, <2>1
  <2>3. i + 1 \in 1 .. size - 1 /\ (i + 1) - 1 = i
    BY <1>1, <2>2
  <2> QED BY <1>1, <2>3
<1>8. /\ p[m] \in Nat /\ v \in Nat /\ p[q[i + 1]] \in Nat
      /\ p[m] # v /\ p[q[i + 1]] > v
  BY <1>4, <1>6, <1>7, ListAssumption DEF StopsAt, ListTypeOK
<1>9. p[m] < v
  <2>1. CASE i = 0
    BY <1>1, <1>8, <2>1 DEF AddBetween
  <2>2. CASE i # 0
    <3>1. i - 1 \in 0 .. i - 1 /\ i \in 1 .. size - 1
      BY <1>1, <2>2
    <3>2. ~StopsAt(q[i - 1], v) /\ next[q[i - 1]] = m
      BY <1>1, <1>5, <3>1
    <3>3. m # NULL
      BY <1>6, ListAssumption
    <3> QED BY <1>8, <3>2, <3>3 DEF StopsAt
  <2> QED BY <2>1, <2>2
<1>10. ASSUME NEW j \in 0 .. size - 1, j # i PROVE next'[q[j]] = next[q[j]]
  <2>1. q[j] # m /\ q[j] # n /\ q[j] \in Nodes
    BY <1>1, <1>4, <1>6, <1>10 DEF Injective
  <2> QED BY <1>4, <1>6, <2>1 DEF ListTypeOK
<1>11. /\ next'[n] = q[i + 1] /\ next'[m] = n
       /\ next' \in [Nodes -> Nodes \cup {NULL}]
       /\ prev' \in [Nodes -> Nodes \cup {NULL}]
  BY <1>4, <1>6, <1>7 DEF ListTypeOK
<1>12. ASSUME NEW j \in 0 .. i PROVE p[q[j]] < v
  <2>1. j \in 0 .. size - 1 /\ (j < i \/ j = i)
    BY <1>1
  <2>2. j < i => p[q[j]] < p[m]
    BY <1>1, <2>1
  <2>3. p[q[j]] \in Nat
    BY <1>1, <2>1 DEF ListTypeOK
  <2> QED BY <1>8, <1>9, <2>1, <2>2, <2>3
<1>13. ASSUME NEW j \in i + 1 .. size - 1 PROVE v < p[q[j]]
  <2>1. j \in 0 .. size - 1 /\ i + 1 \in 0 .. size - 1 /\ (i + 1 < j \/ j = i + 1)
    BY <1>1
  <2>2. i + 1 < j => p[q[i + 1]] < p[q[j]]
    BY <1>1, <2>1
  <2>3. p[q[j]] \in Nat
    BY <1>1, <2>1 DEF ListTypeOK
  <2> QED BY <1>8, <2>1, <2>2, <2>3
<1> HIDE DEF m
<1>14. /\ i + 1 \in 0 .. size /\ i + 1 # 0 /\ i + 1 # size /\ (i + 1) - 1 = i
       /\ 0 .. (i + 1) - 1 = 0 .. i
  BY <1>1, <1>7
<1>15. head' = head /\ tail' = tail
  BY DEF AddBetween
<1>16. Linked(q, i + 1, n, v)
  BY <1>4, <1>10, <1>11, <1>12, <1>13, <1>14, <1>15 DEF Linked, m
<1> QED BY <1>14, <1>16

LEMMA HeadLeaves ==
  ASSUME ListTypeOK, NEW q, Chain(q), RemoveHead, use # "path",
         NEW w, w = [i \in 0 .. size - 2 |-> q[i + 1]]
  PROVE  ListTypeOK' /\ Chain(w)'
<1>1. /\ size > 0 /\ size \in Nat /\ 0 \in 0 .. size - 1
      /\ q \in [0 .. size - 1 -> Nodes] /\ Injective(q, size)
      /\ allocated = {q[i] : i \in 0 .. size - 1}
      /\ head = q[0] /\ tail = q[size - 1] /\ next[tail] = NULL
      /\ \A i \in 1 .. size - 1 : next[q[i - 1]] = q[i]
  BY DEF RemoveHead, Chain, ListTypeOK
<1>2. /\ size' = size - 1 /\ size' \in Nat /\ size' - 1 = size - 2
      /\ head' = next[head] /\ tail' = tail /\ next' = next /\ p' = p /\ use' = use
      /\ allocated' = allocated \ {q[0]}
      /\ \A i \in 0 .. size - 2 : i + 1 \in 0 .. size - 1 /\ i + 1 \in 1 .. size - 1
                                  /\ (i + 1) - 1 = i
  BY <1>1 DEF RemoveHead
<1>3. \A i \in 0 .. size - 2 : w[i] = q[i + 1] /\ q[i + 1] \in Nodes
  BY <1>1, <1>2
<1>4. head' \in Nodes \cup {NULL}
  BY <1>1, <1>2 DEF ListTypeOK
<1>5. size' # 0 => head' = w[0] /\ head' \in Nodes
  <2> SUFFICES ASSUME size' # 0 PROVE head' = w[0] /\ head' \in Nodes
    OBVIOUS
  <2>1. 0 \in 0 .. size - 2 /\ 1 \in 1 .. size - 1 /\ 1 - 1 = 0 /\ 0 + 1 = 1
    BY <1>1, <1>2
  <2>2. next[q[0]] = q[1]
    BY <1>1, <2>1
  <2> QED BY <1>1, <1>2, <1>3, <2>1, <2>2
<1>6. prev' \in [Nodes -> Nodes \cup {NULL}]
  BY <1>5 DEF RemoveHead, ListTypeOK
<1>7. ListTypeOK'
  BY <1>2, <1>4, <1>6 DEF ListTypeOK
<1>8. w \in [0 .. size - 2 -> Nodes]
  BY <1>3
<1>9. ASSUME NEW i \in 0 .. size - 2, NEW j \in 0 .. size - 2, w[i] = w[j] PROVE i = j
  <2>1. q[i + 1] = q[j + 1] /\ i + 1 \in 0 .. size - 1 /\ j + 1 \in 0 .. size - 1
    BY <1>2, <1>3, <1>9
  <2>2. i + 1 = j + 1
    BY <1>1, <2>1 DEF Injective
  <2> QED BY <2>2
<1>10. allocated' = {w[i] : i \in 0 .. size - 2}
  <2>1. ASSUME NEW i \in 0 .. size - 2 PROVE w[i] \in allocated \ {q[0]}
    <3>1. i + 1 # 0
      OBVIOUS
    <3> QED BY <1>1, <1>2, <1>3, <3>1 DEF Injective
  <2>2. ASSUME NEW x \in allocated \ {q[0]} PROVE x \in {w[i] : i \in 0 .. size - 2}
    <3>1. PICK j \in 0 .. size - 1 : x = q[j]
      BY <1>1
    <3>2. j - 1 \in 0 .. size - 2 /\ (j - 1) + 1 = j
      BY <1>1, <3>1
    <3> QED BY <1>3, <3>1, <3>2
  <2>3. allocated' = allocated \ {q[0]}
    BY <1>2
  <2> QED BY <2>1, <2>2, <2>3
<1>11. size' > 0 => tail' = w[size' - 1]
  <2>1. size' > 0 => size - 2 \in 0 .. size - 2 /\ (size - 2) + 1 = size - 1
    BY <1>1, <1>2
  <2> QED BY <1>1, <1>2, <1>3, <2>1
<1>12. ASSUME NEW i \in 1 .. size - 2 PROVE next[w[i - 1]] = w[i]
  <2>1. /\ i \in 0 .. size - 2 /\ i - 1 \in 0 .. size - 2 /\ (i - 1) + 1 = i
        /\ i + 1 \in 1 .. size - 1 /\ (i + 1) - 1 = i
    BY <1>1
  <2>2. next[q[(i + 1) - 1]] = q[i + 1]
    BY <1>1, <2>1
  <2> QED BY <1>3, <2>1, <2>2
<1>13. ASSUME use = "early", NEW i \in 0 .. size - 2, NEW j \in 0 .. size - 2, i < j
       PROVE  p[w[i]] < p[w[j]]
  <2>1. i + 1 \in 0 .. size - 1 /\ j + 1 \in 0 .. size - 1 /\ i + 1 < j + 1
    BY <1>2, <1>13
  <2> QED BY <1>3, <1>13, <2>1 DEF Chain
<1>14. Chain(w)'
  <2>1. w \in [0 .. size' - 1 -> Nodes] /\ Injective(w, size')
    BY <1>2, <1>8, <1>9 DEF Injective
  <2>2. /\ allocated' = {w[i] : i \in 0 .. size' - 1}
        /\ \A i \in 1 .. size' - 1 : next'[w[i - 1]] = w[i]
    BY <1>2, <1>10, <1>12
  <2>3. size' > 0 => head' = w[0] /\ tail' = w[size' - 1] /\ next'[tail'] = NULL
    BY <1>1, <1>2, <1>5, <1>11
  <2>4. use' = "early" => \A i, j \in 0 .. size' - 1 : i < j => p'[w[i]] < p'[w[j]]
    BY <1>2, <1>13
  <2> QED BY <1>2, <2>1, <2>2, <2>3, <2>4 DEF Chain
<1> QED BY <1>7, <1>14

LEMMA TailLeaves ==
  ASSUME ListTypeOK, NEW q, Chain(q), RemoveTail, use = "path",
         NEW w, w = [i \in 0 .. size - 2 |-> q[i]]
  PROVE  ListTypeOK' /\ Chain(w)'
<1>1. /\ size > 0 /\ size \in Nat /\ 0 \in 0 .. size - 1 /\ size - 1 \in 0 .. size - 1
      /\ q \in [0 .. size - 1 -> Nodes] /\ Injective(q, size)
      /\ allocated = {q[i] : i \in 0 .. size - 1}
      /\ head = q[0] /\ tail = q[size - 1]
      /\ \A i \in 1 .. size - 1 : next[q[i - 1]] = q[i]
      /\ \A i \in 1 .. size - 1 : prev[q[i]] = q[i - 1]
  BY DEF RemoveTail, Chain, ListTypeOK
<1>2. /\ size' = size - 1 /\ size' \in Nat /\ size' - 1 = size - 2
      /\ head' = head /\ tail' = prev[tail] /\ prev' = prev /\ p' = p /\ use' = use
      /\ allocated' = allocated \ {q[size - 1]}
      /\ next' = IF size' = 0 THEN next ELSE [next EXCEPT ![tail'] = NULL]
      /\ \A i \in 0 .. size - 2 : i \in 0 .. size - 1 /\ i # size - 1
  BY <1>1 DEF RemoveTail
<1>3. \A i \in 0 .. size - 2 : w[i] = q[i] /\ q[i] \in Nodes
  BY <1>1, <1>2
<1>4. tail' \in Nodes \cup {NULL}
  BY <1>1, <1>2 DEF ListTypeOK
<1>5. size' # 0 => tail' = w[size - 2] /\ tail' \in Nodes /\ size - 2 \in 0 .. size - 2
  <2> SUFFICES ASSUME size' # 0
               PROVE  tail' = w[size - 2] /\ tail' \in Nodes /\ size - 2 \in 0 .. size - 2
    OBVIOUS
  <2>1. size - 2 \in 0 .. size - 2 /\ size - 1 \in 1 .. size - 1 /\ (size - 1) - 1 = size - 2
    BY <1>1, <1>2
  <2>2. prev[q[size - 1]] = q[size - 2]
    BY <1>1, <2>1
  <2> QED BY <1>1, <1>2, <1>3, <2>1, <2>2
<1>6. next' \in [Nodes -> Nodes \cup {NULL}]
  BY <1>2, <1>5 DEF ListTypeOK
<1>7. ListTypeOK'
  BY <1>2, <1>4, <1>6 DEF ListTypeOK
<1>8. w \in [0 .. size - 2 -> Nodes]
  BY <1>3
<1>9. ASSUME NEW i \in 0 .. size - 2, NEW j \in 0 .. size - 2, w[i] = w[j] PROVE i = j
  BY <1>1, <1>2, <1>3, <1>9 DEF Injective
<1>10. allocated' = {w[i] : i \in 0 .. size - 2}
  <2>1. ASSUME NEW i \in 0 .. size - 2 PROVE w[i] \in allocated \ {q[size - 1]}
    BY <1>1, <1>2, <1>3 DEF Injective
  <2>2. ASSUME NEW x \in allocated \ {q[size - 1]} PROVE x \in {w[i] : i \in 0 .. size - 2}
    <3>1. PICK j \in 0 .. size - 1 : x = q[j]
      BY <1>1
    <3>2. j \in 0 .. size - 2
      BY <1>1, <3>1
    <3> QED BY <1>3, <3>1, <3>2
  <2> QED BY <1>2, <2>1, <2>2
<1>11. size' > 0 => head' = w[0] /\ tail' = w[size' - 1] /\ next'[tail'] = NULL
  <2> SUFFICES ASSUME size' > 0
               PROVE  head' = w[0] /\ tail' = w[size' - 1] /\ next'[tail'] = NULL
    OBVIOUS
  <2>1. size' # 0 /\ 0 \in 0 .. size - 2
    BY <1>1, <1>2
  <2> QED BY <1>1, <1>2, <1>3, <1>5, <2>1 DEF ListTypeOK
<1>12. ASSUME NEW i \in 1 .. size - 2 PROVE next'[w[i - 1]] = w[i]
  <2>1. /\ i \in 0 .. size - 2 /\ i - 1 \in 0 .. size - 2 /\ i \in 1 .. size - 1
        /\ i - 1 # size - 2 /\ size' # 0
    BY <1>1, <1>2
  <2>2. next[q[i - 1]] = q[i]
    BY <1>1, <2>1
  <2>3. w[i - 1] # tail'
    BY <1>5, <1>9, <2>1
  <2> QED BY <1>2, <1>3, <2>1, <2>2, <2>3 DEF ListTypeOK
<1>13. ASSUME NEW i \in 1 .. size - 2 PROVE prev[w[i]] = w[i - 1]
  <2>1. i \in 0 .. size - 2 /\ i - 1 \in 0 .. size - 2 /\ i \in 1 .. size - 1
    BY <1>1
  <2> QED BY <1>1, <1>3, <2>1
<1>14. Chain(w)'
  <2>1. w \in [0 .. size' - 1 -> Nodes] /\ Injective(w, size')
    BY <1>2, <1>8, <1>9 DEF Injective
  <2>2. /\ allocated' = {w[i] : i \in 0 .. size' - 1}
        /\ \A i \in 1 .. size' - 1 : next'[w[i - 1]] = w[i]
        /\ \A i \in 1 .. size' - 1 : prev'[w[i]] = w[i - 1]
    BY <1>2, <1>10, <1>12, <1>13
  <2> QED BY <1>2, <1>11, <2>1, <2>2 DEF Chain
<1> QED BY <1>7, <1>14

\* How a step of the lists changes their chain: a node goes in, at the end but
\* for the early packets; the head or the tail goes; or nothing happens.
LEMMA ListSteps ==
  ASSUME ListTypeOK, NEW q, Chain(q), [ListNext]_listVars
  PROVE  \/ \E v \in Values, n \in Nodes, k \in 0 .. size :
              Linked(q, k, n, v) /\ (use # "early" => k = size)
         \/ RemoveHead /\ use # "path"
         \/ RemoveTail /\ use = "path"
         \/ UNCHANGED listVars
<1>1. size \in Nat /\ size \in 0 .. size /\ 0 \in 0 .. size
  BY DEF ListTypeOK
<1>2. ASSUME NEW v \in Values, AddNode(v), use # "early"
      PROVE  \E n \in Nodes : Linked(q, size, n, v)
  <2>1. PICK n \in Nodes : AddFirst(n, v) \/ AddLast(n, v)
    BY <1>2 DEF AddNode
  <2>2. use' = use
    BY <1>2 DEF AddNode
  <2>3. CASE AddFirst(n, v)
    BY <2>2, <2>3, FirstIsLinked
  <2>4. CASE AddLast(n, v)
    BY <1>2, <2>2, <2>4, LastIsLinked
  <2> QED BY <2>1, <2>3, <2>4
<1>3. ASSUME NEW v \in Values, AddPktToList(v), use = "early"
      PROVE  (\E n \in Nodes, k \in 0 .. size : Linked(q, k, n, v)) \/ UNCHANGED listVars
  <2>1. use' = use
    BY <1>3 DEF AddPktToList
  <2>2. CASE Dropped(v)
    BY <2>1, <2>2 DEF Dropped, listVars
  <2>3. ASSUME NEW n \in Nodes,
               AddFirst(n, v) \/ AddBeforeHead(n, v) \/ AddLarger(n, v) \/ AddBetween(n, v)
        PROVE  \E k \in 0 .. size : Linked(q, k, n, v)
    <3>1. CASE AddFirst(n, v)
      BY <1>1, <2>1, <3>1, FirstIsLinked
    <3>2. CASE AddBeforeHead(n, v)
      BY <1>1, <1>3, <2>1, <3>2, HeadIsLinked
    <3>3. CASE AddLarger(n, v)
      BY <1>1, <1>3, <2>1, <3>3, LastIsLinked DEF AddLarger
    <3>4. CASE AddBetween(n, v)
      BY <1>3, <2>1, <3>4, BetweenIsLinked
    <3> QED BY <2>3, <3>1, <3>2, <3>3, <3>4
  <2> QED BY <1>3, <2>2, <2>3 DEF AddPktToList
<1> QED BY <1>1, <1>2, <1>3 DEF ListNext

LEMMA ListInvariance == ListSpec => []ListInv
<1>1. ListInit => ListInv
  <2> SUFFICES ASSUME ListInit PROVE ListInv
    OBVIOUS
  <2>1. ListTypeOK
    BY DEF ListInit, ListTypeOK
  <2> DEFINE q == [i \in 0 .. 0 - 1 |-> NULL]
  <2>2. size = 0 /\ allocated = {} /\ 0 .. 0 - 1 = {} /\ 1 .. 0 - 1 = {}
    BY DEF ListInit
  <2>3. q \in [0 .. size - 1 -> Nodes]
    BY <2>2
  <2>4. Chain(q)
    BY <2>2, <2>3 DEF Chain, Injective
  <2> QED BY <2>1, <2>3, <2>4 DEF ListInv
<1>2. ListInv /\ [ListNext]_listVars => ListInv'
  <2> SUFFICES ASSUME ListInv, [ListNext]_listVars
               PROVE  ListInv'
    OBVIOUS
  <2>1. PICK q : ListTypeOK /\ Chain(q)
    BY DEF ListInv
  <2>2. ASSUME NEW w, ListTypeOK', Chain(w)'
        PROVE  ListInv'
    BY <2>2 DEF ListInv, Chain
  <2>3. ASSUME NEW v \in Values, NEW n \in Nodes, NEW k \in 0 .. size, Linked(q, k, n, v)
        PROVE  ListInv'
    <3>1. PICK w : w = With(q, size, k, n)
      OBVIOUS
    <3> QED BY <2>1, <2>2, <2>3, <3>1, ChainGrows
  <2>4. ASSUME RemoveHead, use # "path" PROVE ListInv'
    <3>1. PICK w : w = [i \in 0 .. size - 2 |-> q[i + 1]]
      OBVIOUS
    <3> QED BY <2>1, <2>2, <2>4, <3>1, HeadLeaves
  <2>5. ASSUME RemoveTail, use = "path" PROVE ListInv'
    <3>1. PICK w : w = [i \in 0 .. size - 2 |-> q[i]]
      OBVIOUS
    <3> QED BY <2>1, <2>2, <2>5, <3>1, TailLeaves
  <2>6. ASSUME UNCHANGED listVars PROVE ListInv'
    BY <2>1, <2>2, <2>6 DEF ListTypeOK, Chain, listVars
  <2> QED BY <2>1, <2>3, <2>4, <2>5, <2>6, ListSteps
<1> QED BY <1>1, <1>2, PTL DEF ListSpec

\* In every list (the sliding window, the early packets, the path), after any
\* operations of linked_list.c and add_pkt_to_list and whatever addresses malloc
\* returns, the chain from the head is all there is: it ends at the tail, leads
\* to no freed node and has lost none.
THEOREM ChainSoundCorrect == ListSpec => []ChainSound
<1>1. ListInv => ChainSound
  <2> SUFFICES ASSUME ListInv, size > 0 PROVE ChainSound
    BY DEF ChainSound
  <2>1. PICK q : ListTypeOK /\ Chain(q)
    BY DEF ListInv
  <2>2. /\ size \in Nat /\ size - 1 \in 0 .. size - 1
        /\ Injective(q, size) /\ allocated = {q[i] : i \in 0 .. size - 1}
        /\ tail = q[size - 1] /\ next[tail] = NULL
    BY <2>1 DEF ListTypeOK, Chain
  <2>3. \A i \in 0 .. size - 1 : NodeAt(i) = q[i]
    BY <2>1, Walked DEF ChainIsWalked
  <2>4. allocated = {NodeAt(i) : i \in 0 .. size - 1}
    BY <2>2, <2>3
  <2>5. \A i \in 0 .. size - 1 : NodeAt(i) = tail <=> i = size - 1
    BY <2>2, <2>3 DEF Injective
  <2> QED BY <2>2, <2>4, <2>5 DEF ChainSound
<1> QED BY <1>1, ListInvariance, PTL

\* The path of an FTP session can be walked back from its tail, as remove_node of
\* project_2 does: prev of a node is always the node before it.
THEOREM WalksBackCorrect == ListSpec => []WalksBack
<1>1. ListInv => WalksBack
  <2> SUFFICES ASSUME ListInv, use = "path", NEW i \in 1 .. size - 1
               PROVE  prev[NodeAt(i)] = NodeAt(i - 1)
    BY DEF WalksBack
  <2>1. PICK q : ListTypeOK /\ Chain(q)
    BY DEF ListInv
  <2>2. size \in Nat /\ i \in 0 .. size - 1 /\ i - 1 \in 0 .. size - 1
    BY <2>1 DEF ListTypeOK
  <2>3. NodeAt(i) = q[i] /\ NodeAt(i - 1) = q[i - 1]
    BY <2>1, <2>2, Walked DEF ChainIsWalked
  <2> QED BY <2>1, <2>3 DEF Chain
<1> QED BY <1>1, ListInvariance, PTL

\* The values in the list, as the contents see them.
Items == [i \in 1 .. size |-> p[NodeAt(i - 1)]]

ItemsOfChain ==
  \A q : ListTypeOK /\ Chain(q) => /\ Items = [i \in 1 .. size |-> p[q[i - 1]]]
                                   /\ Items \in Seq(Nat) /\ Len(Items) = size

LEMMA ItemsWalked == ItemsOfChain
<1> SUFFICES ASSUME NEW q, ListTypeOK, Chain(q)
             PROVE  /\ Items = [i \in 1 .. size |-> p[q[i - 1]]]
                    /\ Items \in Seq(Nat) /\ Len(Items) = size
  BY DEF ItemsOfChain
<1>1. size \in Nat /\ p \in [Nodes -> Nat] /\ q \in [0 .. size - 1 -> Nodes]
  BY DEF ListTypeOK, Chain
<1>2. \A i \in 1 .. size : i - 1 \in 0 .. size - 1
  BY <1>1
<1>3. \A i \in 1 .. size : NodeAt(i - 1) = q[i - 1] /\ q[i - 1] \in Nodes
  BY <1>1, <1>2, Walked DEF ChainIsWalked
<1>4. Items = [i \in 1 .. size |-> p[q[i - 1]]]
  BY <1>3 DEF Items
<1>5. Items \in [1 .. size -> Nat]
  BY <1>1, <1>3, <1>4
<1>6. Items \in Seq(Nat) /\ Len(Items) = size
  BY <1>1, <1>5
<1> QED BY <1>4, <1>6

\* A node at place k puts its value there.
LEMMA ItemsGrow ==
  ASSUME ListTypeOK, NEW q, Chain(q), NEW n \in Nodes, NEW v \in Values, NEW k \in 0 .. size,
         Linked(q, k, n, v)
  PROVE  Items' = [i \in 1 .. Len(Items) + 1 |->
                     IF i <= k THEN Items[i] ELSE IF i = k + 1 THEN v ELSE Items[i - 1]]
<1>1. PICK w : w = With(q, size, k, n)
  OBVIOUS
<1>2. ListTypeOK' /\ Chain(w)'
  BY <1>1, ChainGrows
<1>3. ItemsOfChain'
  BY ItemsWalked, PTL
<1>4. /\ size \in Nat /\ k \in Nat /\ k <= size /\ size' = size + 1
      /\ allocated = {q[i] : i \in 0 .. size - 1} /\ q \in [0 .. size - 1 -> Nodes]
      /\ n \notin allocated /\ p' = [p EXCEPT ![n] = v] /\ p \in [Nodes -> Nat]
  BY DEF ListTypeOK, Chain, Linked, Malloc
<1>5. /\ Items = [i \in 1 .. size |-> p[q[i - 1]]] /\ Len(Items) = size
      /\ Items' = [i \in 1 .. size + 1 |-> p'[w[i - 1]]]
  BY <1>2, <1>3, <1>4, ItemsWalked DEF ItemsOfChain
<1>6. p'[n] = v /\ \A i \in 0 .. size - 1 : p'[q[i]] = p[q[i]]
  BY <1>4
<1>7. ASSUME NEW i \in 1 .. size + 1
      PROVE  p'[w[i - 1]] = IF i <= k THEN Items[i] ELSE IF i = k + 1 THEN v ELSE Items[i - 1]
  <2>1. i - 1 \in 0 .. size
    BY <1>4
  <2>2. w[i - 1] = IF i - 1 < k THEN q[i - 1] ELSE IF i - 1 = k THEN n ELSE q[(i - 1) - 1]
    BY <1>1, <2>1 DEF With
  <2>3. CASE i <= k
    <3>1. i - 1 < k /\ i - 1 \in 0 .. size - 1 /\ i \in 1 .. size
      BY <1>4, <2>3
    <3> QED BY <1>5, <1>6, <2>2, <2>3, <3>1
  <2>4. CASE i = k + 1
    BY <1>4, <1>6, <2>2, <2>4
  <2>5. CASE i > k + 1
    <3>1. /\ ~(i - 1 < k) /\ i - 1 # k /\ i - 1 \in 1 .. size /\ (i - 1) - 1 \in 0 .. size - 1
          /\ ~(i <= k) /\ i # k + 1
      BY <1>4, <2>5
    <3> QED BY <1>5, <1>6, <2>2, <3>1
  <2> QED BY <1>4, <2>3, <2>4, <2>5
<1> QED BY <1>5, <1>7

\* The lists keep their contents: with the head taken for the front, the pointers
\* of linked_list.c and add_pkt_to_list implement the queue of the sliding window,
\* the sorted queue of the early packets and the stack of a session's path.
THEOREM KeepsContentsCorrect == ListSpec => KeepsContents
<1>1. ListInit => Contents!ContentsInit
  <2> SUFFICES ASSUME ListInit PROVE Contents!ContentsInit
    OBVIOUS
  <2>1. size = 0 /\ 1 .. 0 = {}
    BY DEF ListInit
  <2> QED BY <2>1 DEF ListInit, Contents!ContentsInit
<1>2. ListInv /\ [ListNext]_listVars => [Contents!ContentsNext]_(Contents!contentsVars)
  <2> SUFFICES ASSUME ListInv, [ListNext]_listVars
               PROVE  [Contents!ContentsNext]_(Contents!contentsVars)
    OBVIOUS
  <2>1. PICK q : ListTypeOK /\ Chain(q)
    BY DEF ListInv
  <2>2. /\ size \in Nat /\ q \in [0 .. size - 1 -> Nodes]
        /\ Items = [i \in 1 .. size |-> p[q[i - 1]]]
        /\ Items \in Seq(Nat) /\ Len(Items) = size
    BY <2>1, ItemsWalked DEF ItemsOfChain, ListTypeOK, Chain
  <2>3. ItemsOfChain'
    BY ItemsWalked, PTL
  <2>4. ASSUME NEW v \in Values, NEW n \in Nodes, NEW k \in 0 .. size,
               Linked(q, k, n, v), use # "early" => k = size
        PROVE  Contents!Add(v)
    <3>1. use' = use
      BY <2>4 DEF Linked
    <3>2. Items' = [i \in 1 .. Len(Items) + 1 |->
                     IF i <= k THEN Items[i] ELSE IF i = k + 1 THEN v ELSE Items[i - 1]]
      BY <2>1, <2>4, ItemsGrow
    <3>3. CASE use # "early"
      <4>1. Items' = Append(Items, v)
        BY <2>2, <2>4, <3>2, <3>3
      <4> QED BY <3>1, <3>3, <4>1 DEF Contents!Add, Items
    <3>4. CASE use = "early"
      <4>1. \A i \in 1 .. k : Items[i] < v
        <5> SUFFICES ASSUME NEW i \in 1 .. k PROVE Items[i] < v
          OBVIOUS
        <5>1. i \in 1 .. size /\ i - 1 \in 0 .. k - 1
          BY <2>2
        <5> QED BY <2>2, <2>4, <3>4, <5>1 DEF Linked
      <4>2. \A i \in k + 1 .. Len(Items) : Items[i] > v
        <5> SUFFICES ASSUME NEW i \in k + 1 .. Len(Items) PROVE Items[i] > v
          OBVIOUS
        <5>1. i \in 1 .. size /\ i - 1 \in k .. size - 1
          BY <2>2
        <5>2. v < p[q[i - 1]] /\ Items[i] = p[q[i - 1]]
          BY <2>2, <2>4, <3>4, <5>1 DEF Linked
        <5> QED BY <5>2
      <4>3. k \in 0 .. Len(Items)
        BY <2>2
      <4>4. ~(\E i \in 1 .. Len(Items) : Items[i] = v)
        <5> SUFFICES ASSUME NEW i \in 1 .. Len(Items), Items[i] = v PROVE FALSE
          OBVIOUS
        <5>1. v \in Nat
          BY ListAssumption
        <5>2. i \in 1 .. k \/ i \in k + 1 .. Len(Items)
          BY <2>2
        <5> QED BY <4>1, <4>2, <5>1, <5>2
      <4>5. Contents!AddSorted(v)
        BY <3>2, <4>1, <4>2, <4>3, <4>4 DEF Contents!AddSorted, Items
      <4> QED BY <3>1, <3>4, <4>5 DEF Contents!Add
    <3> QED BY <3>3, <3>4
  <2>5. ASSUME RemoveHead, use # "path"
        PROVE  Contents!Remove
    <3>1. PICK w : w = [i \in 0 .. size - 2 |-> q[i + 1]]
      OBVIOUS
    <3>2. ListTypeOK' /\ Chain(w)'
      BY <2>1, <2>5, <3>1, HeadLeaves
    <3>3. size > 0 /\ size' = size - 1 /\ p' = p /\ use' = use
      BY <2>5 DEF RemoveHead
    <3>4. Items' = [i \in 1 .. size - 1 |-> p[w[i - 1]]]
      BY <2>3, <3>2, <3>3 DEF ItemsOfChain
    <3>5. ASSUME NEW i \in 1 .. size - 1 PROVE p[w[i - 1]] = Items[i + 1]
      <4>1. i - 1 \in 0 .. size - 2 /\ (i - 1) + 1 = i /\ i + 1 \in 1 .. size /\ (i + 1) - 1 = i
        BY <2>2
      <4> QED BY <2>2, <3>1, <4>1
    <3>6. Items # << >>
      BY <2>2, <3>3
    <3>7. Items' = Tail(Items)
      <4> DEFINE t == Tail(Items)
      <4>1. t \in Seq(Nat) /\ Len(t) = size - 1 /\ \A i \in 1 .. Len(t) : t[i] = Items[i + 1]
        BY <2>2, <3>6, HeadTailProperties
      <4> HIDE DEF t
      <4>2. t \in [1 .. size - 1 -> Nat]
        BY <4>1, LenProperties
      <4>3. \A i \in 1 .. size - 1 : p[w[i - 1]] = t[i]
        BY <3>5, <4>1
      <4>4. Items' = t
        BY <3>4, <4>2, <4>3
      <4> QED BY <4>4 DEF t
    <3> QED BY <2>5, <3>3, <3>6, <3>7 DEF Contents!Remove, Items
  <2>6. ASSUME RemoveTail, use = "path"
        PROVE  Contents!Remove
    <3>1. PICK w : w = [i \in 0 .. size - 2 |-> q[i]]
      OBVIOUS
    <3>2. ListTypeOK' /\ Chain(w)'
      BY <2>1, <2>6, <3>1, TailLeaves
    <3>3. size > 0 /\ size' = size - 1 /\ p' = p /\ use' = use
      BY <2>6 DEF RemoveTail
    <3>4. Items' = [i \in 1 .. size - 1 |-> p[w[i - 1]]]
      BY <2>3, <3>2, <3>3 DEF ItemsOfChain
    <3>5. ASSUME NEW i \in 1 .. size - 1 PROVE p[w[i - 1]] = Items[i]
      <4>1. i - 1 \in 0 .. size - 2 /\ i \in 1 .. size
        BY <2>2
      <4> QED BY <2>2, <3>1, <4>1
    <3>6. Items # << >>
      BY <2>2, <3>3
    <3>7. Items' = SubSeq(Items, 1, Len(Items) - 1)
      <4> DEFINE t == SubSeq(Items, 1, size - 1)
      <4>1. size - 1 \in Int /\ \A i \in 1 .. size - 1 : Items[i] \in Nat
        BY <2>2
      <4>2. /\ t \in Seq(Nat) /\ Len(t) = IF 1 <= size - 1 THEN (size - 1) - 1 + 1 ELSE 0
            /\ \A i \in 1 .. (size - 1) - 1 + 1 : t[i] = Items[1 + i - 1]
        BY <4>1, SubSeqProperties
      <4> HIDE DEF t
      <4>3. Len(t) = size - 1 /\ (size - 1) - 1 + 1 = size - 1
        BY <2>2, <3>3, <4>2
      <4>4. t \in [1 .. size - 1 -> Nat]
        BY <4>2, <4>3, LenProperties
      <4>5. \A i \in 1 .. size - 1 : p[w[i - 1]] = t[i]
        <5>1. \A i \in 1 .. size - 1 : 1 + i - 1 = i
          BY <2>2
        <5> QED BY <3>5, <4>2, <4>3, <5>1
      <4>6. Items' = t
        BY <3>4, <4>4, <4>5
      <4> QED BY <2>2, <4>6 DEF t
    <3> QED BY <2>6, <3>3, <3>6, <3>7 DEF Contents!Remove, Items
  <2>7. ASSUME UNCHANGED listVars
        PROVE  UNCHANGED Contents!contentsVars
    <3>1. ListTypeOK' /\ Chain(q)' /\ size' = size /\ p' = p /\ use' = use
      BY <2>1, <2>7 DEF listVars, ListTypeOK, Chain
    <3>2. Items' = Items
      BY <2>2, <2>3, <3>1 DEF ItemsOfChain
    <3> QED BY <3>1, <3>2 DEF Contents!contentsVars, Items
  <2> QED BY <2>1, <2>4, <2>5, <2>6, <2>7, ListSteps DEF Contents!ContentsNext
<1> QED BY <1>1, <1>2, ListInvariance, PTL DEF ListSpec, KeepsContents, Contents!ContentsSpec

------------------------------------------------------------------------------
(* The congestion window *)

\* A float below 2^n packets is at most a 2^(22-n)th of a packet away from the next.
LEMMA SpacingBound ==
  ASSUME NEW w \in Nat
  PROVE  /\ Spacing(w) \in 1 .. 128
         /\ w < 256 * One => Spacing(w) <= 64
<1> DEFINE S == {u \in {1, 2, 4, 8, 16, 32, 64, 128} : u = 1 \/ 2 * u * One <= w}
<1>1. \E u \in S : \A v \in S : v <= u
  <2>1. CASE w < 4 * One
    <3>1. S = {1}
      BY SMT, <2>1 DEF One
    <3> QED BY <3>1
  <2>2. CASE w >= 4 * One /\ w < 8 * One
    BY SMT, <2>2 DEF One
  <2>3. CASE w >= 8 * One /\ w < 16 * One
    BY SMT, <2>3 DEF One
  <2>4. CASE w >= 16 * One /\ w < 32 * One
    BY SMT, <2>4 DEF One
  <2>5. CASE w >= 32 * One /\ w < 64 * One
    BY SMT, <2>5 DEF One
  <2>6. CASE w >= 64 * One /\ w < 128 * One
    BY SMT, <2>6 DEF One
  <2>7. CASE w >= 128 * One /\ w < 256 * One
    BY SMT, <2>7 DEF One
  <2>8. CASE w >= 256 * One
    BY SMT, <2>8 DEF One
  <2> QED BY SMT, <2>1, <2>2, <2>3, <2>4, <2>5, <2>6, <2>7, <2>8 DEF One
<1>2. Spacing(w) \in S
  BY <1>1 DEF Spacing
<1>3. \A u \in S : u \in 1 .. 128 /\ (w < 256 * One => u <= 64)
  BY SMT DEF One
<1> HIDE DEF S
<1> QED BY <1>2, <1>3

\* The arithmetic of a rounded quotient: u times it is at most half of u away.
LEMMA Rounded ==
  ASSUME NEW k \in Nat \ {0}, NEW u \in Nat \ {0}, NEW h \in Nat, u <= 2 * h,
         NEW r \in Int, NEW o \in Nat,
         NEW n, n = (2 * (r * k + o) + u * k) \div (2 * u * k)
  PROVE  /\ n \in Int
         /\ k * ((u * n - r) - h) <= o
         /\ o <= k * ((u * n - r) + h)
<1>1. u * k \in Nat \ {0} /\ 2 * u * k = 2 * (u * k)
  OBVIOUS
<1>2. r * k \in Int /\ k * r = r * k
  OBVIOUS
<1>3. /\ n \in Int
      /\ 2 * (u * k) * n <= 2 * (r * k + o) + u * k
      /\ 2 * (r * k + o) + u * k < 2 * (u * k) * n + 2 * (u * k)
  <2>1. 2 * u * k \in Nat \ {0} /\ 2 * (r * k + o) + u * k \in Int
    BY <1>1, <1>2
  <2> QED BY <1>1, <2>1, Quotient
<1>4. u * k <= 2 * (k * h) /\ k * h \in Nat
  <2>1. k * u <= k * (2 * h)
    BY Product
  <2> QED BY <2>1
<1>5. u * n \in Int /\ k * (u * n) \in Int /\ 2 * (u * k) * n = 2 * (k * (u * n))
  BY <1>3
<1>6. ASSUME NEW y \in Int PROVE /\ k * ((y - r) - h) = k * y - r * k - k * h
                                 /\ k * ((y - r) + h) = k * y - r * k + k * h
  BY <1>2
<1>7. /\ k * ((u * n - r) - h) = k * (u * n) - r * k - k * h
      /\ k * ((u * n - r) + h) = k * (u * n) - r * k + k * h
  BY <1>5, <1>6
<1>8. ASSUME NEW a \in Int, NEW b \in Int, NEW c \in Nat, NEW e \in Nat,
             2 * a <= 2 * (b + o) + c, 2 * (b + o) + c < 2 * a + 2 * c, c <= 2 * e
      PROVE  a - b - e <= o /\ o <= a - b + e
  BY <1>8
<1>9. /\ 2 * (k * (u * n)) <= 2 * (r * k + o) + u * k
      /\ 2 * (r * k + o) + u * k < 2 * (k * (u * n)) + 2 * (u * k)
  BY <1>3, <1>5
<1>10. /\ k * (u * n) - r * k - k * h <= o
       /\ o <= k * (u * n) - r * k + k * h
  BY <1>1, <1>2, <1>4, <1>5, <1>8, <1>9
<1> QED BY <1>3, <1>7, <1>10

\* One addition of a fraction: off by no more than half the spacing.
LEMMA FractionStep ==
  ASSUME NEW w \in Nat, w >= One, NEW h \in Nat,
         Spacing(w + One \div Whole(w)) <= 2 * h
  PROVE  /\ PlusFraction(w) \in Int
         /\ Whole(w) * ((PlusFraction(w) - w) - h) <= One
         /\ One <= Whole(w) * ((PlusFraction(w) - w) + h)
<1>1. PICK k : k = Whole(w)
  OBVIOUS
<1>2. k \in Nat \ {0}
  BY SMT, <1>1 DEF Whole, One
<1>3. One \div k \in Nat
  BY SMT, <1>2 DEF One
<1>4. PICK u : u = Spacing(w + One \div k)
  OBVIOUS
<1>5. u \in Nat \ {0} /\ u <= 2 * h
  <2>1. w + One \div k \in Nat
    BY <1>3
  <2>2. u \in 1 .. 128
    BY <1>4, <2>1, SpacingBound
  <2> QED BY <1>1, <1>4, <2>2
<1>6. PICK r : r = w % u
  OBVIOUS
<1>7. r \in Int
  BY <1>5, <1>6
<1>8. PICK n : n = (2 * (r * k + One) + u * k) \div (2 * u * k)
  OBVIOUS
<1>9. PlusFraction(w) = (w - r) + u * n
  BY <1>1, <1>4, <1>6, <1>8 DEF PlusFraction
<1>10. One \in Nat
  BY SMT DEF One
<1>11. /\ n \in Int
       /\ k * ((u * n - r) - h) <= One
       /\ One <= k * ((u * n - r) + h)
  BY <1>2, <1>5, <1>7, <1>8, <1>10, Rounded
<1>12. u * n \in Int
  BY <1>5, <1>11
<1>13. PlusFraction(w) \in Int /\ PlusFraction(w) - w = u * n - r
  BY <1>7, <1>9, <1>12
<1> QED BY <1>1, <1>11, <1>13

LEMMA WholeOf ==
  ASSUME NEW w \in Nat
  PROVE  /\ Whole(w) \in Nat
         /\ Whole(w) * One <= w
         /\ w < (Whole(w) + 1) * One
BY SMT DEF Whole, One

\* An addition adds something, and not much more than a packet.
LEMMA StepUp ==
  ASSUME NEW w \in Nat, w >= One
  PROVE  /\ PlusFraction(w) \in Nat
         /\ PlusFraction(w) > w - 64
         /\ PlusFraction(w) <= w + One + 64
         /\ w < 1000 * One => PlusFraction(w) >= w
<1>1. PICK k : k = Whole(w)
  OBVIOUS
<1>2. k \in Nat \ {0} /\ (w < 1000 * One => k <= 1000)
  BY SMT, <1>1, WholeOf DEF Whole, One
<1>3. Spacing(w + One \div Whole(w)) <= 2 * 64
  <2>1. w + One \div k \in Nat
    BY SMT, <1>2 DEF One
  <2>2. Spacing(w + One \div k) \in 1 .. 128
    BY <2>1, SpacingBound
  <2> QED BY <1>1, <2>2
<1>4. PICK d : d = PlusFraction(w) - w
  OBVIOUS
<1>5. /\ PlusFraction(w) \in Int /\ d \in Int
      /\ k * (d - 64) <= One /\ One <= k * (d + 64)
  BY <1>1, <1>3, <1>4, FractionStep
<1>6. d > 0 - 64
  <2>1. SUFFICES ASSUME d + 64 <= 0 PROVE FALSE
    BY <1>5
  <2>2. k * (d + 64) <= k * 0
    BY <1>2, <1>5, <2>1, Product
  <2> QED BY SMT, <1>2, <1>5, <2>2 DEF One
<1>7. d <= One + 64
  <2>1. SUFFICES ASSUME One + 1 <= d - 64 PROVE FALSE
    BY SMT, <1>5 DEF One
  <2>2. k * (One + 1) <= k * (d - 64)
    BY SMT, <1>2, <1>5, <2>1, Product DEF One
  <2>3. k * (One + 1) >= One + 1
    BY SMT, <1>2 DEF One
  <2> QED BY SMT, <1>2, <1>5, <2>2, <2>3 DEF One
<1>8. ASSUME k <= 1000 PROVE d >= 0
  <2>1. SUFFICES ASSUME d + 64 <= 63 PROVE FALSE
    BY <1>5
  <2>2. k * (d + 64) <= k * 63
    BY <1>2, <1>5, <2>1, Product
  <2> QED BY SMT, <1>2, <1>5, <1>8, <2>2 DEF One
<1>9. PlusFraction(w) = w + d
  BY <1>4, <1>5
<1> QED BY SMT, <1>2, <1>5, <1>6, <1>7, <1>8, <1>9 DEF One

\* Below 202 packets the roundings are finer.
LEMMA FineStep ==
  ASSUME NEW w \in Nat, Whole(w) \in 2 .. 201
  PROVE  /\ PlusFraction(w) - w \in Int
         /\ Whole(w) * ((PlusFraction(w) - w) - 32) <= One
         /\ One <= Whole(w) * ((PlusFraction(w) - w) + 32)
<1>1. PICK k : k = Whole(w)
  OBVIOUS
<1>2. w >= One /\ w < 202 * One
  <2>1. k * One <= w /\ w < (k + 1) * One /\ k \in 2 .. 201
    BY <1>1, WholeOf
  <2> QED BY SMT, <2>1 DEF One
<1>3. One \div k \in Nat /\ One \div k <= One
  <2>1. k \in Nat \ {0}
    BY <1>1
  <2>2. One \div k \in Int /\ k * (One \div k) <= One
    BY SMT, <2>1, Quotient DEF One
  <2>3. One \div k \in Nat
    BY SMT, <2>1 DEF One
  <2>4. One \div k <= k * (One \div k)
    <3>1. (One \div k) * 1 <= (One \div k) * k
      BY <2>1, <2>3, Product
    <3> QED BY <2>1, <2>3, <3>1
  <2>5. k * (One \div k) \in Nat
    BY <2>1, <2>3
  <2> QED BY SMT, <2>2, <2>3, <2>4, <2>5 DEF One
<1>4. Spacing(w + One \div Whole(w)) <= 2 * 32
  <2>1. w + One \div k \in Nat /\ w + One \div k < 256 * One
    BY SMT, <1>2, <1>3 DEF One
  <2>2. Spacing(w + One \div k) <= 64
    BY <2>1, SpacingBound
  <2> QED BY <1>1, <2>2
<1> QED BY <1>2, <1>4, FractionStep

\* The window after n more packets, step by step.
LEMMA WindowSteps ==
  ASSUME NEW n \in Nat, window_size \in Nat, ssthresh \in 1 .. 500, InAvoidance
  PROVE  \E r \in [0 .. n -> Nat] :
           /\ r[0] = window_size
           /\ \A i \in 1 .. n : r[i] = PlusFraction(r[i - 1])
           /\ WindowAfter(n) = r[n]
<1> DEFINE S == {x \in Nat : x >= ssthresh * One}
           G == [x \in (1 .. n) \X S |-> Grown(x[2], ssthresh)]
           Solves(r) == r = [i \in 0 .. n |-> IF i = 0 THEN window_size
                                                       ELSE Grown(r[i - 1], ssthresh)]
           R == CHOOSE r : Solves(r)
<1>1. WindowAfter(n) = R[n]
  BY DEF WindowAfter
<1>2. \A x \in S : x \in Nat /\ Grown(x, ssthresh) = PlusFraction(x) /\ Grown(x, ssthresh) \in S
  <2> SUFFICES ASSUME NEW x \in S
               PROVE  Grown(x, ssthresh) = PlusFraction(x) /\ PlusFraction(x) \in S
    OBVIOUS
  <2>1. x \in Nat /\ x >= ssthresh * One /\ x >= One
    BY SMT DEF One
  <2>2. Grown(x, ssthresh) = PlusFraction(x)
    BY SMT, <2>1 DEF Grown, One
  <2>3. PlusFraction(x) \in Nat /\ PlusFraction(x) >= ssthresh * One
    BY SMT, <2>1, StepUp DEF One
  <2> QED BY <2>2, <2>3
<1>3. window_size \in S
  BY DEF InAvoidance
<1> HIDE DEF S
<1>4. Advances(n, S, G)
  BY <1>2 DEF Advances
<1>5. PICK h \in [0 .. n -> S] : h[0] = window_size /\ \A i \in 1 .. n : h[i] = G[<<i, h[i - 1]>>]
  <2> HIDE DEF G
  <2>1. \E h : Recursive(h, n, S, window_size, G)
    BY <1>3, <1>4, Recursion
  <2> QED BY <2>1 DEF Recursive
<1>6. \A i \in 1 .. n : h[i] = Grown(h[i - 1], ssthresh)
  <2>1. \A i \in 1 .. n : h[i - 1] \in S
    BY <1>5
  <2> QED BY <1>5, <2>1
<1>7. Solves(h)
  <2>1. \A i \in 0 .. n : h[i] = IF i = 0 THEN window_size ELSE Grown(h[i - 1], ssthresh)
    BY <1>5, <1>6
  <2> QED BY <1>5, <2>1
<1>8. Solves(R)
  <2> HIDE DEF Solves
  <2> QED BY <1>7
<1> HIDE DEF R
<1>9. R[0] = window_size /\ \A i \in 1 .. n : R[i] = Grown(R[i - 1], ssthresh)
  <2>1. \A i \in 0 .. n : R[i] = IF i = 0 THEN window_size ELSE Grown(R[i - 1], ssthresh)
    BY <1>8, Zenon
  <2>2. 0 \in 0 .. n /\ \A i \in 1 .. n : i \in 0 .. n /\ i # 0
    OBVIOUS
  <2> QED BY <2>1, <2>2
<1>10. \A i \in 0 .. n : R[i] \in S
  <2>1. \A i \in 1 .. n : R[i - 1] \in S => R[i] \in S
    BY <1>2, <1>9
  <2> QED BY <1>3, <1>9, <2>1, Along
<1>11. R \in [0 .. n -> Nat]
  BY <1>2, <1>8, <1>10
<1>12. \A i \in 1 .. n : R[i] = PlusFraction(R[i - 1])
  <2>1. \A i \in 1 .. n : i - 1 \in 0 .. n
    OBVIOUS
  <2> QED BY <1>2, <1>9, <1>10, <2>1
<1> QED BY <1>1, <1>9, <1>11, <1>12

\* A packet divided by a window.
Fraction(j) == One \div j

LEMMA FractionOf ==
  ASSUME NEW j \in Nat \ {0}
  PROVE  /\ Fraction(j) \in Nat
         /\ j * Fraction(j) <= One
         /\ One < j * (Fraction(j) + 1)
<1>1. PICK a : a = One \div j
  OBVIOUS
<1>2. a \in Int /\ j * a <= One /\ One < j * a + j
  BY SMT, <1>1, Quotient DEF One
<1>3. a \in Nat
  BY SMT, <1>1, <1>2 DEF One
<1>4. j * (a + 1) = j * a + j
  BY <1>2
<1> QED BY <1>1, <1>2, <1>3, <1>4 DEF Fraction

\* What an addition adds: the fraction, to within 32 units.
LEMMA StepBetween ==
  ASSUME NEW w \in Nat, NEW j \in 2 .. 201, Whole(w) = j
  PROVE  /\ PlusFraction(w) \in Int
         /\ PlusFraction(w) <= w + (Fraction(j) + 32)
         /\ PlusFraction(w) >= w + (Fraction(j) - 32)
<1>1. PICK a : a = Fraction(j)
  OBVIOUS
<1>2. j \in Nat \ {0} /\ One \in Nat
  BY SMT DEF One
<1>3. a \in Nat /\ j * a <= One /\ One < j * (a + 1)
  BY <1>1, <1>2, FractionOf
<1>5. PICK d : d = PlusFraction(w) - w
  OBVIOUS
<1>6. d \in Int /\ j * (d - 32) <= One /\ One <= j * (d + 32)
  BY <1>5, FineStep
<1>7. d - 32 <= a
  <2>1. SUFFICES ASSUME a + 1 <= d - 32 PROVE FALSE
    BY <1>3, <1>6
  <2>2. j * (a + 1) <= j * (d - 32)
    BY <1>2, <1>3, <1>6, <2>1, Product
  <2>3. j * (a + 1) \in Int /\ j * (d - 32) \in Int
    BY <1>2, <1>3, <1>6
  <2> QED BY <1>2, <1>3, <1>6, <2>2, <2>3
<1>8. a <= d + 32
  <2>1. j * a <= j * (d + 32)
    <3>1. j * a \in Int /\ j * (d + 32) \in Int
      BY <1>2, <1>3, <1>6
    <3> QED BY <1>2, <1>3, <1>6, <3>1
  <2> QED BY <1>2, <1>3, <1>6, <2>1, Cancel
<1>9. PlusFraction(w) \in Int /\ PlusFraction(w) = w + d
  <2>1. w >= One
    <3>1. j * One <= w
      BY WholeOf
    <3> QED BY SMT, <3>1 DEF One
  <2>2. PlusFraction(w) \in Int
    BY <2>1, StepUp
  <2> QED BY <1>5, <2>2
<1> QED BY <1>1, <1>3, <1>6, <1>7, <1>8, <1>9

\* The fractions of a window full of packets are less than a packet, with the
\* roundings, when all but the first are those of the next window.
LEMMA LessThanPacket ==
  ASSUME NEW k \in 2 .. 200, NEW a \in Nat, NEW b \in Nat,
         k * a <= One, (k + 1) * b <= One
  PROVE  a + (k - 1) * b + 32 * k <= One
<1>1. k \in Nat /\ k - 1 \in Nat /\ k + 1 \in Nat /\ One \in Nat
  BY SMT DEF One
<1> DEFINE m == k * (k + 1)
<1>2. m \in Nat \ {0} /\ m <= 40200
  <2>1. k * (k + 1) <= k * 201
    BY <1>1, Product
  <2> QED BY <1>1, <2>1
<1>3. (k + 1) * (k * a) <= (k + 1) * One
  BY <1>1, Product
<1>4. ((k - 1) * k) * ((k + 1) * b) <= ((k - 1) * k) * One
  <2>1. (k - 1) * k \in Nat /\ (k + 1) * b \in Int
    BY <1>1
  <2> QED BY <1>1, <2>1, Product
<1>5. (32 * k) * m <= (k - 1) * One
  <2>1. (32 * k) * m <= (32 * k) * 40200
    BY <1>1, <1>2, Product
  <2>2. k <= 2 * (k - 1)
    OBVIOUS
  <2>3. (32 * k) * m \in Int
    BY <1>1, <1>2
  <2> HIDE DEF m
  <2> QED BY SMT, <1>1, <2>1, <2>2, <2>3 DEF One
<1>6. m * (a + (k - 1) * b + 32 * k)
        = (k + 1) * (k * a) + ((k - 1) * k) * ((k + 1) * b) + (32 * k) * m
  BY <1>1
<1>7. m * One = (k + 1) * One + ((k - 1) * k) * One + (k - 1) * One - One + One
  <2>1. m = (k + 1) + (k - 1) * k + (k - 1)
    BY <1>1
  <2>2. (k - 1) * k \in Nat
    BY <1>1
  <2> HIDE DEF m
  <2> QED BY SMT, <1>1, <2>1, <2>2 DEF One
<1>8. m * (a + (k - 1) * b + 32 * k) <= m * One
  <2>1. /\ (k + 1) * (k * a) \in Int /\ ((k - 1) * k) * ((k + 1) * b) \in Int
        /\ (32 * k) * m \in Int /\ (k + 1) * One \in Int /\ ((k - 1) * k) * One \in Int
        /\ (k - 1) * One \in Int
    BY <1>1, <1>2
  <2> HIDE DEF m
  <2> QED BY <1>1, <1>3, <1>4, <1>5, <1>6, <1>7, <2>1
<1>9. a + (k - 1) * b + 32 * k \in Int
  BY <1>1
<1> HIDE DEF m
<1> QED BY <1>1, <1>2, <1>8, <1>9, Cancel

\* Those of one window full and two more are a packet at least.
LEMMA AtLeastPacket ==
  ASSUME NEW k \in 2 .. 200, NEW b \in Nat, One < (k + 1) * (b + 1)
  PROVE  One <= (k + 2) * (b - 32)
<1>1. k \in Nat /\ k + 1 \in Nat \ {0} /\ k + 2 \in Nat /\ One \in Nat
  BY SMT DEF One
<1> DEFINE m == (k + 1) * (k + 2)
<1>2. m \in Nat /\ m <= 40602
  <2>1. (k + 1) * (k + 2) <= (k + 1) * 202
    BY <1>1, Product
  <2> QED BY <1>1, <2>1
<1>3. (k + 2) * One <= (k + 2) * ((k + 1) * (b + 1))
  <2>1. (k + 1) * (b + 1) \in Int
    BY <1>1
  <2> QED BY <1>1, <2>1, Product
<1>4. (k + 1) * ((k + 2) * (b - 32)) = (k + 2) * ((k + 1) * (b + 1)) - 33 * m
  BY <1>1
<1>5. (k + 2) * One - 33 * m >= (k + 1) * One
  <2> HIDE DEF m
  <2> QED BY SMT, <1>1, <1>2 DEF One
<1>6. (k + 1) * One <= (k + 1) * ((k + 2) * (b - 32))
  <2>1. (k + 2) * ((k + 1) * (b + 1)) \in Int /\ (k + 2) * One \in Int /\ (k + 1) * One \in Int
    BY <1>1
  <2> HIDE DEF m
  <2> QED BY <1>2, <1>3, <1>4, <1>5, <2>1
<1>7. (k + 2) * (b - 32) \in Int
  BY <1>1
<1> QED BY <1>1, <1>6, <1>7, Cancel

LEMMA WholeIs ==
  ASSUME NEW w \in Nat, NEW j \in Nat, j * One <= w, w < (j + 1) * One
  PROVE  Whole(w) = j
BY SMT DEF Whole, One

\* A window full of acknowledgements moves the whole packets by one at most: the
\* first that reaches the next packet is one of Fraction(k) at most, those after
\* it are of Fraction(k + 1).
LEMMA OneMoreAtMost ==
  ASSUME NEW k \in 2 .. 200, NEW r \in [0 .. k -> Nat], Whole(r[0]) = k,
         \A i \in 1 .. k : r[i] = PlusFraction(r[i - 1])
  PROVE  Whole(r[k]) <= k + 1
<1>1. /\ k \in 2 .. 201 /\ k + 1 \in 2 .. 201 /\ k \in Nat \ {0} /\ k + 1 \in Nat \ {0}
      /\ 0 \in 0 .. k /\ k \in 0 .. k /\ (k + 1) + 1 = k + 2
      /\ \A i \in 1 .. k : i - 1 \in 0 .. k /\ i \in 0 .. k
  OBVIOUS
<1>2. PICK a, b : a = Fraction(k) /\ b = Fraction(k + 1)
  OBVIOUS
<1>3. a \in Nat /\ b \in Nat /\ k * a <= One /\ (k + 1) * b <= One
  BY <1>1, <1>2, FractionOf
<1>4. PICK d, e : d = a + 32 /\ e = b + 32
  OBVIOUS
<1>5. d \in Nat /\ e \in Nat /\ (k - 1) * e \in Nat /\ d + (k - 1) * e <= One
  <2>1. a + (k - 1) * b + 32 * k <= One
    BY <1>3, LessThanPacket
  <2>2. PICK x, y : x = (k - 1) * b /\ y = (k - 1) * e
    OBVIOUS
  <2>3. x \in Nat /\ y = x + 32 * k - 32
    BY <1>1, <1>3, <1>4, <2>2
  <2>4. a + x + 32 * k <= One /\ One \in Nat
    BY SMT, <2>1, <2>2 DEF One
  <2>5. d \in Nat /\ e \in Nat /\ y \in Nat /\ d + y <= One
    BY <1>1, <1>3, <1>4, <2>3, <2>4
  <2> QED BY <2>2, <2>5
<1>6. PICK l, m : m = k * One /\ l = (k + 1) * One
  OBVIOUS
<1>7. /\ l \in Nat /\ m \in Nat /\ l = m + One /\ l + One = (k + 2) * One
      /\ m >= One /\ l + One <= 202 * One /\ One \in Nat
  BY SMT, <1>1, <1>6 DEF One
<1> DEFINE B(i, x) == x >= m /\ (x < l \/ (i >= 1 /\ x < l + d + (i - 1) * e))
           f == [i \in 0 .. k |-> IF B(i, r[i]) THEN 1 ELSE 0]
\* what B says of the size of the window
<1>8. ASSUME NEW i \in 0 .. k, NEW x \in Nat, B(i, x)
      PROVE  x < l + One
  <2>1. CASE x < l
    BY SMT, <1>7, <2>1 DEF One
  <2>2. CASE i >= 1 /\ x < l + d + (i - 1) * e
    <3>1. i - 1 \in Nat /\ k - 1 \in Nat /\ i - 1 <= k - 1
      BY <2>2
    <3>2. e * (i - 1) <= e * (k - 1)
      BY <1>5, <3>1, Product
    <3>3. PICK y : y = (i - 1) * e
      OBVIOUS
    <3>4. y \in Int /\ y <= (k - 1) * e
      BY <1>5, <3>1, <3>2, <3>3
    <3>5. x < l + d + y
      BY <2>2, <3>3
    <3> QED BY <1>5, <1>7, <3>4, <3>5
  <2> QED BY <1>8, <2>1, <2>2
<1>9. ASSUME NEW i \in 1 .. k, NEW x \in Nat, B(i - 1, x)
      PROVE  B(i, PlusFraction(x))
  <2>1. x >= m /\ x < l + One
    BY <1>1, <1>8, <1>9
  <2>2. PICK z : z = PlusFraction(x)
    OBVIOUS
  <2>3. z \in Nat /\ z >= x
    <3>1. x >= One /\ x < 1000 * One
      BY SMT, <1>7, <2>1 DEF One
    <3> QED BY <2>2, <3>1, StepUp
  <2>4. PICK y : y = (i - 1) * e
    OBVIOUS
  <2>5. y \in Nat
    BY <1>5, <2>4
  <2>6. CASE x < l
    <3>1. Whole(x) = k
      BY <1>1, <1>6, <2>1, <2>6, WholeIs
    <3>2. z <= x + d
      BY <1>1, <1>2, <1>4, <2>2, <3>1, StepBetween
    <3>3. z < l + d + y
      BY <1>5, <1>7, <2>3, <2>5, <2>6, <3>2
    <3>4. z >= m /\ i >= 1
      BY <1>7, <2>1, <2>3
    <3> QED BY <2>2, <2>4, <3>3, <3>4
  <2>7. CASE ~(x < l)
    <3>1. PICK y0 : y0 = (i - 1 - 1) * e
      OBVIOUS
    <3>2. i - 1 >= 1 /\ x < l + d + y0
      BY <1>9, <2>7, <3>1
    <3>3. y0 + e = y /\ y0 \in Int
      BY <1>5, <2>4, <3>1
    <3>4. Whole(x) = k + 1
      <4>1. (k + 1) * One <= x /\ x < ((k + 1) + 1) * One
        BY <1>1, <1>6, <1>7, <2>1, <2>7
      <4> QED BY <1>1, <4>1, WholeIs
    <3>5. z <= x + e
      BY <1>1, <1>2, <1>4, <2>2, <3>4, StepBetween
    <3>6. z < l + d + y
      BY <1>5, <1>7, <2>3, <2>5, <3>2, <3>3, <3>5
    <3>7. z >= m /\ i >= 1
      BY <1>7, <2>1, <2>3
    <3> QED BY <2>2, <2>4, <3>6, <3>7
  <2> QED BY <2>6, <2>7
<1>10. B(0, r[0])
  <2>1. r[0] \in Nat
    BY <1>1
  <2>2. k * One <= r[0] /\ r[0] < (k + 1) * One
    BY <2>1, WholeOf
  <2> QED BY <1>6, <1>7, <2>1, <2>2
<1> HIDE DEF B
<1>11. \A i \in 0 .. k : f[i] \in {1}
  <2>1. f[0] \in {1}
    BY <1>1, <1>10
  <2>2. ASSUME NEW i \in 1 .. k, f[i - 1] \in {1} PROVE f[i] \in {1}
    <3>1. i - 1 \in 0 .. k /\ i \in 0 .. k /\ r[i] = PlusFraction(r[i - 1])
      BY <1>1
    <3>2. r[i - 1] \in Nat /\ B(i - 1, r[i - 1])
      BY <2>2, <3>1
    <3>3. B(i, r[i])
      BY <1>9, <3>1, <3>2
    <3> QED BY <3>1, <3>3
  <2> HIDE DEF f
  <2> QED BY <1>1, <2>1, <2>2, Along
<1>12. B(k, r[k]) /\ r[k] \in Nat
  BY <1>1, <1>11
<1>13. r[k] < (k + 2) * One
  BY <1>1, <1>7, <1>8, <1>12
<1> QED BY SMT, <1>1, <1>12, <1>13 DEF Whole, One

\* The numbers of the next two proofs.
LEMMA WindowNumbers ==
  ASSUME NEW k \in 2 .. 200
  PROVE  /\ k \in 2 .. 201 /\ k + 1 \in 2 .. 201 /\ k \in Nat \ {0} /\ k + 1 \in Nat \ {0}
         /\ 0 \in 0 .. k + 2 /\ k + 2 \in 0 .. k + 2 /\ k + 2 \in Nat /\ (k + 1) + 1 = k + 2
         /\ \A i \in 1 .. k + 2 : i - 1 \in 0 .. k + 2 /\ i \in 0 .. k + 2
         /\ \A i \in 1 .. k + 2 : i - 1 <= 201 /\ i - 1 \in Nat
OBVIOUS

\* A window of k to k + 2 packets.
Within(k, x) == k * One <= x /\ x < (k + 2) * One

\* No addition to such a window adds less.
LEMMA StepAtLeast ==
  ASSUME NEW k \in 2 .. 200, NEW x \in Nat, Within(k, x)
  PROVE  PlusFraction(x) \in Int /\ PlusFraction(x) >= x + (Fraction(k + 1) - 32)
<1>1. /\ k \in 2 .. 201 /\ k + 1 \in 2 .. 201 /\ k \in Nat \ {0} /\ k + 1 \in Nat \ {0}
      /\ (k + 1) + 1 = k + 2 /\ One \in Nat
  <2>1. One \in Nat
    BY SMT DEF One
  <2> QED BY <2>1
<1>2. PICK a, b : a = Fraction(k) /\ b = Fraction(k + 1)
  OBVIOUS
<1>3. a \in Nat /\ b \in Nat /\ One < k * (a + 1) /\ (k + 1) * b <= One
  BY <1>1, <1>2, FractionOf
<1>4. b <= a
  <2>1. SUFFICES ASSUME a + 1 <= b PROVE FALSE
    BY <1>3
  <2>2. k * (a + 1) <= k * b
    BY <1>1, <1>3, <2>1, Product
  <2>3. PICK u, v : u = k * b /\ v = k * (a + 1)
    OBVIOUS
  <2>4. (k + 1) * b = u + b /\ u \in Nat /\ v \in Nat
    BY <1>1, <1>3, <2>3
  <2>5. One < v /\ v <= u /\ u + b <= One
    BY <1>3, <2>2, <2>3, <2>4
  <2> QED BY <1>1, <1>3, <2>4, <2>5
<1>5. ASSUME NEW j \in 2 .. 201, Whole(x) = j
      PROVE  PlusFraction(x) \in Int /\ PlusFraction(x) >= x + (Fraction(j) - 32)
  BY <1>5, StepBetween, Zenon
<1>6. CASE Whole(x) = k
  <2>1. PlusFraction(x) \in Int /\ PlusFraction(x) >= x + (a - 32)
    BY <1>1, <1>2, <1>6, <1>5
  <2> QED BY <1>2, <1>3, <1>4, <2>1
<1>7. CASE Whole(x) = k + 1
  BY <1>1, <1>7, <1>5
<1>8. Whole(x) = k \/ Whole(x) = k + 1
  <2>1. k * One <= x /\ x < (k + 2) * One
    BY DEF Within
  <2> QED BY SMT, <1>1, <2>1 DEF Whole, One
<1> QED BY <1>6, <1>7, <1>8

\* That many acknowledgements and two more gain a packet: none adds less than
\* Fraction(k + 1) before they have.
LEMMA OneMoreAtLeast ==
  ASSUME NEW k \in 2 .. 200, NEW r \in [0 .. k + 2 -> Nat], Whole(r[0]) = k,
         \A i \in 1 .. k + 2 : r[i] = PlusFraction(r[i - 1])
  PROVE  r[k + 2] >= r[0] + One
<1>1. /\ k \in 2 .. 201 /\ k + 1 \in 2 .. 201 /\ k \in Nat \ {0} /\ k + 1 \in Nat \ {0}
      /\ 0 \in 0 .. k + 2 /\ k + 2 \in 0 .. k + 2 /\ k + 2 \in Nat /\ (k + 1) + 1 = k + 2
      /\ \A i \in 1 .. k + 2 : i - 1 \in 0 .. k + 2 /\ i \in 0 .. k + 2
      /\ \A i \in 1 .. k + 2 : i - 1 <= 201 /\ i - 1 \in Nat
  BY WindowNumbers, ZenonT(30)
<1>2. PICK b : b = Fraction(k + 1)
  OBVIOUS
<1>3. b \in Nat /\ One < (k + 1) * (b + 1)
  BY <1>1, <1>2, FractionOf
<1>4. PICK g : g = b - 32
  OBVIOUS
<1>5. g \in Int /\ One <= (k + 2) * g /\ One \in Nat
  <2>1. One <= (k + 2) * (b - 32)
    BY <1>3, AtLeastPacket
  <2> QED BY SMT, <1>3, <1>4, <2>1 DEF One
<1>6. PICK w : w = r[0]
  OBVIOUS
<1>7. PICK l, m : m = k * One /\ l = (k + 1) * One
  OBVIOUS
<1>8. /\ l \in Nat /\ m \in Nat /\ l = m + One /\ l + One = (k + 2) * One
      /\ m >= One /\ l <= 201 * One
  BY SMT, <1>1, <1>7 DEF One
<1>9. w \in Nat /\ m <= w /\ w < l
  <2>1. w \in Nat
    BY <1>1, <1>6
  <2>2. k * One <= w /\ w < (k + 1) * One
    BY <1>6, <2>1, WholeOf
  <2> QED BY <1>7, <2>1, <2>2
<1>10. ASSUME NEW x \in Nat, x >= w, x < w + One
       PROVE  PlusFraction(x) >= x + g
  <2>1. k * One <= x /\ x < (k + 2) * One
    <3>1. m <= x /\ x < l + One
      BY <1>5, <1>8, <1>9, <1>10
    <3> QED BY <1>7, <1>8, <3>1, Zenon
  <2>2. PlusFraction(x) >= x + (Fraction(k + 1) - 32)
    BY <2>1, StepAtLeast, Zenon DEF Within
  <2> QED BY <1>2, <1>4, <2>2
<1> DEFINE B(i, x) == /\ x >= w /\ x <= w + i * (One + 64)
                      /\ x >= w + One \/ x >= w + i * g
           f == [i \in 0 .. k + 2 |-> IF B(i, r[i]) THEN 1 ELSE 0]
<1>11. ASSUME NEW i \in 1 .. k + 2, NEW x \in Nat, B(i - 1, x)
       PROVE  B(i, PlusFraction(x))
  <2>1. PICK z : z = PlusFraction(x)
    OBVIOUS
  <2>2. i - 1 <= 201 /\ i - 1 \in Nat /\ x <= w + (i - 1) * (One + 64) /\ x >= w
    <3>1. i - 1 <= 201 /\ i - 1 \in Nat
      BY <1>1, Zenon
    <3>2. x <= w + (i - 1) * (One + 64) /\ x >= w
      BY <1>11, Zenon
    <3> QED BY <3>1, <3>2
  <2>3. x >= One /\ x < 1000 * One
    BY SMT, <1>8, <1>9, <2>2 DEF One
  <2>4. z \in Nat /\ z >= x /\ z <= x + One + 64
    BY <2>1, <2>3, StepUp
  <2>5. z >= w /\ z <= w + i * (One + 64)
    BY SMT, <1>9, <2>2, <2>4 DEF One
  <2>6. z >= w + One \/ z >= w + i * g
    <3>1. CASE x >= w + One
      BY <1>5, <1>9, <2>4, <3>1
    <3>2. CASE ~(x >= w + One)
      <4>1. PICK y0, y : y0 = (i - 1) * g /\ y = i * g
        OBVIOUS
      <4>2. x >= w + y0
        BY <1>11, <3>2, <4>1
      <4>3. y0 + g = y /\ y0 \in Int /\ y \in Int
        BY <1>5, <4>1
      <4>4. x < w + One
        BY <1>5, <1>9, <3>2
      <4>5. z >= x + g
        BY <1>10, <2>1, <2>2, <4>4
      <4>6. z >= w + y
        BY <1>5, <1>9, <2>4, <4>2, <4>3, <4>5
      <4> QED BY <4>1, <4>6
    <3> QED BY <3>1, <3>2
  <2> QED BY <2>1, <2>5, <2>6
<1>12. B(0, r[0])
  <2>1. 0 * g = 0 /\ 0 * (One + 64) = 0
    BY <1>5
  <2> QED BY <1>6, <1>9, <2>1
<1>13. ASSUME NEW x \in Nat, B(k + 2, x) PROVE x >= w + One
  <2>1. PICK y : y = (k + 2) * g
    OBVIOUS
  <2>2. y \in Int /\ One <= y
    BY <1>1, <1>5, <2>1
  <2>3. x >= w + One \/ x >= w + y
    BY <1>13, <2>1
  <2> QED BY <1>5, <1>9, <2>2, <2>3
<1> HIDE DEF B
<1>14. \A i \in 0 .. k + 2 : f[i] \in {1}
  <2>1. f[0] \in {1}
    BY <1>1, <1>12
  <2>2. ASSUME NEW i \in 1 .. k + 2, f[i - 1] \in {1} PROVE f[i] \in {1}
    <3>1. i - 1 \in 0 .. k + 2 /\ i \in 0 .. k + 2 /\ r[i] = PlusFraction(r[i - 1])
      BY <1>1
    <3>2. r[i - 1] \in Nat /\ B(i - 1, r[i - 1])
      BY <2>2, <3>1
    <3>3. B(i, r[i])
      BY <1>11, <3>1, <3>2
    <3> QED BY <3>1, <3>3
  <2> HIDE DEF f
  <2> QED BY <1>1, <2>1, <2>2, Along
<1>15. B(k + 2, r[k + 2]) /\ r[k + 2] \in Nat
  BY <1>1, <1>14
<1> QED BY <1>6, <1>13, <1>15

\* The inductive invariant of the window: it is of one packet, or of two and more.
WindowInv ==
  /\ window_size \in Nat
  /\ window_size = One \/ window_size >= 2 * One
  /\ window_size < (MaxWindow + 1) * One
  /\ ssthresh \in Nat \ {0}

\* From one packet the window goes to two.
LEMMA FirstFraction == PlusFraction(One) = 2 * One
<1>1. Whole(One) = 1
  BY SMT DEF Whole, One
<1>2. One \div 1 = One
  BY SMT DEF One
<1>3. Spacing(One + One) = 1
  <2> DEFINE S == {u \in {1, 2, 4, 8, 16, 32, 64, 128} : u = 1 \/ 2 * u * One <= One + One}
  <2>1. S = {1}
    BY SMT DEF One
  <2>2. Spacing(One + One) = CHOOSE u \in S : \A v \in S : v <= u
    BY DEF Spacing
  <2> HIDE DEF S
  <2> QED BY <2>1, <2>2
<1>4. PICK k, u, r : k = Whole(One) /\ u = Spacing(One + One \div k) /\ r = One % u
  OBVIOUS
<1>5. PlusFraction(One) = (One - r) + u * ((2 * (r * k + One) + u * k) \div (2 * u * k))
  BY <1>4 DEF PlusFraction
<1>6. k = 1 /\ u = 1
  BY <1>1, <1>2, <1>3, <1>4
<1>7. r = 0
  BY SMT, <1>4, <1>6 DEF One
<1> QED BY SMT, <1>5, <1>6, <1>7 DEF One

LEMMA WindowInvariance ==
  ASSUME MaxWindow <= 200
  PROVE  CCSpec => []WindowInv
<1>1. CCInit => WindowInv
  BY SMT, WindowAssumption DEF CCInit, WindowInv, One
<1>2. WindowInv /\ [CCNext]_ccVars => WindowInv'
  <2> SUFFICES ASSUME WindowInv, [CCNext]_ccVars
               PROVE  WindowInv'
    OBVIOUS
  <2>1. MaxWindow \in Nat \ {0} /\ MaxWindow <= 200
    BY WindowAssumption
  <2>2. CASE Whole(window_size) < MaxWindow /\ PacketAcked
    <3>1. window_size \in Nat /\ window_size < MaxWindow * One /\ window_size >= One
          /\ window_size < 200 * One
      <4>1. window_size \in Nat /\ window_size >= One
        BY SMT DEF WindowInv, One
      <4>2. window_size < (Whole(window_size) + 1) * One /\ Whole(window_size) \in Nat
        BY <4>1, WholeOf
      <4> QED BY SMT, <2>1, <2>2, <4>1, <4>2 DEF One
    <3>2. ssthresh' = ssthresh /\ window_size' = Grown(window_size, ssthresh)
      BY <2>2 DEF PacketAcked
    <3>3. CASE window_size < ssthresh * One
      <4>1. window_size' = window_size + One
        BY <3>2, <3>3 DEF Grown
      <4> QED BY SMT, <2>1, <3>1, <3>2, <4>1 DEF WindowInv, One
    <3>4. CASE ~(window_size < ssthresh * One)
      <4>1. window_size' = PlusFraction(window_size)
        BY <3>2, <3>4 DEF Grown
      <4>2. CASE window_size = One
        <5>1. window_size' = 2 * One
          BY <4>1, <4>2, FirstFraction
        <5>2. 2 * One < (MaxWindow + 1) * One
          BY SMT, <2>1, <3>1, <4>2 DEF One
        <5> QED BY SMT, <3>2, <5>1, <5>2 DEF WindowInv, One
      <4>3. CASE window_size >= 2 * One
        <5>1. PICK j : j = Whole(window_size)
          OBVIOUS
        <5>2. j \in 2 .. 200
          BY SMT, <3>1, <4>3, <5>1 DEF Whole, One
        <5>3. window_size' \in Nat /\ window_size' >= window_size
          BY SMT, <3>1, <4>1, StepUp DEF One
        <5>4. Fraction(j) \in Nat /\ Fraction(j) <= One - 32
          <6>1. PICK a : a = Fraction(j)
            OBVIOUS
          <6>2. a \in Nat /\ j * a <= One
            <7>1. j \in Nat \ {0}
              BY <5>2
            <7> QED BY <6>1, <7>1, FractionOf
          <6>3. a * 2 <= a * j
            BY <5>2, <6>2, Product
          <6>4. a * j = j * a /\ a * j \in Nat
            BY <5>2, <6>2
          <6> QED BY SMT, <6>1, <6>2, <6>3, <6>4 DEF One
        <5>5. window_size' <= window_size + (Fraction(j) + 32)
          <6>1. j \in 2 .. 201
            BY <5>2
          <6> QED BY <3>1, <4>1, <5>1, <6>1, StepBetween
        <5> QED BY SMT, <2>1, <3>1, <3>2, <4>3, <5>3, <5>4, <5>5 DEF WindowInv, One
      <4> QED BY <4>2, <4>3 DEF WindowInv
    <3> QED BY <3>3, <3>4
  <2>3. CASE WindowReset
    <3>1. window_size' = One /\ ssthresh' = HalfWindow(window_size)
      BY <2>3 DEF WindowReset
    <3>2. HalfWindow(window_size) \in Nat \ {0}
      BY SMT DEF HalfWindow, WindowInv, One
    <3> QED BY SMT, <2>1, <3>1, <3>2 DEF WindowInv, One
  <2>4. CASE UNCHANGED ccVars
    BY <2>4 DEF ccVars, WindowInv
  <2> QED BY <2>2, <2>3, <2>4 DEF CCNext
<1> QED BY <1>1, <1>2, PTL DEF CCSpec

\* In congestion avoidance the window of the sender keeps pace with the
\* acknowledgements (lines 244-253 of rdt_sender.c), however the float additions
\* are rounded, for every window up to 200 packets and every threshold: a window
\* full of them moves (int)window_size by at most one, and two more gain a packet.
THEOREM OnePerWindowCorrect ==
  ASSUME MaxWindow <= 200
  PROVE  CCSpec => []OnePerWindow
<1>1. WindowInv => OnePerWindow
  <2> SUFFICES ASSUME WindowInv, InAvoidance
               PROVE  /\ Whole(WindowAfter(Whole(window_size))) <= Whole(window_size) + 1
                      /\ WindowAfter(Whole(window_size) + 2) >= window_size + One
    BY DEF OnePerWindow
  <2>1. PICK k : k = Whole(window_size)
    OBVIOUS
  <2>2. /\ window_size \in Nat
        /\ window_size = One \/ window_size >= 2 * One
        /\ window_size < 201 * One
    BY SMT, WindowAssumption DEF WindowInv, One
  <2>3. k \in Nat /\ k \in 1 .. 200 /\ (k = 1 => window_size = One)
    <3>1. k \in Nat /\ k * One <= window_size /\ window_size < (k + 1) * One
      BY <2>1, <2>2, WholeOf
    <3> QED BY SMT, <2>2, <3>1 DEF One
  <2>4. ssthresh \in 1 .. 500
    BY SMT, <2>2 DEF WindowInv, InAvoidance, One
  <2>5. PICK r \in [0 .. k -> Nat] :
          /\ r[0] = window_size
          /\ \A i \in 1 .. k : r[i] = PlusFraction(r[i - 1])
          /\ WindowAfter(k) = r[k]
    BY <2>2, <2>3, <2>4, WindowSteps
  <2>6. PICK s \in [0 .. k + 2 -> Nat] :
          /\ s[0] = window_size
          /\ \A i \in 1 .. k + 2 : s[i] = PlusFraction(s[i - 1])
          /\ WindowAfter(k + 2) = s[k + 2]
    <3>1. k + 2 \in Nat
      BY <2>3
    <3> QED BY <2>2, <2>4, <3>1, WindowSteps
  <2>7. CASE k \in 2 .. 200
    <3>1. Whole(r[k]) <= k + 1
      BY <2>1, <2>5, <2>7, OneMoreAtMost
    <3>2. s[k + 2] >= s[0] + One
      BY <2>1, <2>6, <2>7, OneMoreAtLeast
    <3> QED BY <2>1, <2>5, <2>6, <3>1, <3>2
  <2>8. CASE k = 1
    <3>1. window_size = One
      BY <2>3, <2>8
    <3>2. r[1] = 2 * One
      <4>1. 1 \in 1 .. k /\ 1 - 1 = 0
        BY <2>8
      <4>2. r[1] = PlusFraction(r[0])
        BY <2>5, <4>1
      <4> QED BY <2>5, <3>1, <4>2, FirstFraction
    <3>3. Whole(r[1]) <= 2
      BY SMT, <3>2 DEF Whole, One
    <3>4. s[3] >= 2 * One
      <4>1. 1 \in 1 .. k + 2 /\ 2 \in 1 .. k + 2 /\ 3 \in 1 .. k + 2
            /\ 1 - 1 = 0 /\ 2 - 1 = 1 /\ 3 - 1 = 2 /\ 2 \in 0 .. k + 2
        BY <2>8
      <4>2. s[1] = PlusFraction(s[0]) /\ s[2] = PlusFraction(s[1]) /\ s[3] = PlusFraction(s[2])
        BY <2>6, <4>1
      <4>3. s[1] = 2 * One
        BY <2>6, <3>1, <4>2, FirstFraction
      <4>4. s[2] \in Nat /\ s[2] >= 2 * One /\ s[2] <= 4 * One
        <5>1. 2 * One \in Nat /\ 2 * One >= One /\ 2 * One < 1000 * One
          BY SMT DEF One
        <5>2. /\ PlusFraction(2 * One) \in Nat
              /\ PlusFraction(2 * One) >= 2 * One
              /\ PlusFraction(2 * One) <= 2 * One + One + 64
          BY <5>1, StepUp
        <5> QED BY SMT, <4>2, <4>3, <5>2 DEF One
      <4>5. s[2] >= One /\ s[2] < 1000 * One
        BY SMT, <4>4 DEF One
      <4>6. PlusFraction(s[2]) >= s[2] /\ PlusFraction(s[2]) \in Nat
        BY <4>4, <4>5, StepUp
      <4> QED BY SMT, <4>2, <4>4, <4>6 DEF One
    <3>5. k + 2 = 3 /\ k + 1 = 2 /\ window_size + One = 2 * One
      BY SMT, <2>8, <3>1 DEF One
    <3> QED BY <2>1, <2>5, <2>6, <2>8, <3>3, <3>4, <3>5
  <2> QED BY <2>3, <2>7, <2>8
<1> QED BY <1>1, WindowInvariance, PTL
==============================================================================
