-------------------------- MODULE ArithmeticLemmas ---------------------------
(***************************************************************************)
(* What the proofs need to know of numbers: induction, the multiples of a  *)
(* block, what NewPort computes, and what the two bytes of a PORT request  *)
(* carry.                                                                  *)
(***************************************************************************)
EXTENDS FtpPorts, WellFoundedInduction, TLAPS

\* Induction: a set of naturals with 0 and the successor of each member.
LEMMA SetInduction ==
  ASSUME NEW T, T \subseteq Nat, 0 \in T, \A n \in T : n + 1 \in T
  PROVE  T = Nat
<1>1. SUFFICES ASSUME Nat \ T # {} PROVE FALSE
  OBVIOUS
<1>2. PICK x \in Nat \ T : \A y \in Nat \ T : ~(<<y, x>> \in OpToRel(<, Nat))
  <2> DEFINE R == OpToRel(<, Nat)
  <2>1. IsWellFoundedOn(R, Nat)
    BY NatLessThanWellFounded
  <2> HIDE DEF R
  <2>2. \E x \in Nat \ T : \A y \in Nat \ T : ~(<<y, x>> \in R)
    BY <2>1, <1>1, WFMin
  <2> QED BY <2>2 DEF R
<1>3. \A y \in Nat \ T : ~(y < x)
  BY <1>2 DEF OpToRel
<1>4. x \in Nat /\ x # 0 /\ x \notin T
  OBVIOUS
<1>5. x - 1 \in Nat /\ x - 1 < x /\ (x - 1) + 1 = x
  BY <1>4
<1>6. x - 1 \in T
  BY <1>3, <1>5
<1> QED BY <1>4, <1>5, <1>6

\* Induction along a function: what holds of its first value and is handed on
\* from each value to the next holds of all.
LEMMA Along ==
  ASSUME NEW n \in Nat, NEW f, NEW S, f[0] \in S,
         \A i \in 1 .. n : f[i - 1] \in S => f[i] \in S
  PROVE  \A i \in 0 .. n : f[i] \in S
<1> DEFINE T == {i \in Nat : i <= n => f[i] \in S}
<1>1. 0 \in T
  OBVIOUS
<1>2. ASSUME NEW i \in T PROVE i + 1 \in T
  <2>1. i \in Nat /\ i + 1 \in Nat /\ (i + 1) - 1 = i
    OBVIOUS
  <2>2. ASSUME i + 1 <= n PROVE f[i + 1] \in S
    <3>1. i <= n /\ i + 1 \in 1 .. n
      BY <2>1, <2>2
    <3>2. f[(i + 1) - 1] \in S
      BY <2>1, <3>1
    <3> HIDE DEF T
    <3> QED BY <3>1, <3>2
  <2> QED BY <2>1, <2>2
<1>3. T = Nat
  <2>1. T \subseteq Nat
    OBVIOUS
  <2> HIDE DEF T
  <2> QED BY <1>1, <1>2, <2>1, SetInduction
<1>4. ASSUME NEW i \in 0 .. n PROVE f[i] \in S
  BY <1>3
<1> QED BY <1>4

\* G leads from a value in S to the next, at each number up to n.
Advances(n, S, G) == \A i \in 1 .. n : \A s \in S : G[<<i, s>>] \in S

\* h starts with a and follows G.
Recursive(h, n, S, a, G) ==
  h \in [0 .. n -> S] /\ h[0] = a /\ \A i \in 1 .. n : h[i] = G[<<i, h[i - 1]>>]

\* A recursive definition over the numbers up to n has a solution.
LEMMA Recursion ==
  ASSUME NEW n \in Nat, NEW S, NEW a \in S, NEW G, Advances(n, S, G)
  PROVE  \E h : Recursive(h, n, S, a, G)
<1> USE DEF Advances
<1> DEFINE Solves(h, m) == h[0] = a /\ \A i \in 1 .. m : h[i] = G[<<i, h[i - 1]>>]
           T == {m \in Nat : m <= n => \E h \in [0 .. m -> S] : Solves(h, m)}
<1>1. 0 \in T
  <2>1. Solves([i \in 0 .. 0 |-> a], 0)
    OBVIOUS
  <2> HIDE DEF Solves
  <2> QED BY <2>1
<1>2. ASSUME NEW m \in T PROVE m + 1 \in T
  <2>1. m \in Nat /\ m + 1 \in Nat
    OBVIOUS
  <2>2. ASSUME m + 1 <= n PROVE \E h \in [0 .. m + 1 -> S] : Solves(h, m + 1)
    <3>1. PICK h \in [0 .. m -> S] : Solves(h, m)
      BY <2>1, <2>2
    <3>2. h[m] \in S /\ m + 1 \in 1 .. n
      BY <2>1, <2>2, <3>1
    <3> DEFINE e == G[<<m + 1, h[m]>>]
               k == [i \in 0 .. m + 1 |-> IF i <= m THEN h[i] ELSE e]
    <3>3. e \in S
      BY <3>2
    <3> HIDE DEF e
    <3>4. k \in [0 .. m + 1 -> S]
      BY <2>1, <3>1, <3>3
    <3>5. k[0] = a
      BY <2>1, <3>1
    <3>6. ASSUME NEW i \in 1 .. m + 1 PROVE k[i] = G[<<i, k[i - 1]>>]
      <4>1. i \in 0 .. m + 1 /\ i - 1 \in 0 .. m + 1 /\ i - 1 <= m
        BY <2>1
      <4>2. k[i - 1] = h[i - 1]
        BY <4>1
      <4>3. CASE i <= m
        <5>1. i \in 1 .. m /\ k[i] = h[i]
          BY <4>1, <4>3, <2>1
        <5> HIDE DEF k
        <5> QED BY <3>1, <4>2, <5>1
      <4>4. CASE i = m + 1
        <5>1. i - 1 = m /\ ~(i <= m)
          BY <4>4, <2>1
        <5>2. k[i] = e
          BY <4>1, <5>1
        <5> HIDE DEF k
        <5> QED BY <4>2, <4>4, <5>1, <5>2 DEF e
      <4> QED BY <2>1, <4>3, <4>4
    <3> HIDE DEF k
    <3> QED BY <3>4, <3>5, <3>6
  <2> HIDE DEF Solves
  <2> QED BY <2>1, <2>2
<1>3. T = Nat
  <2>1. T \subseteq Nat
    OBVIOUS
  <2> HIDE DEF T
  <2> QED BY <1>1, <1>2, <2>1, SetInduction
<1>4. n \in T
  BY <1>3
<1> QED BY <1>4 DEF Recursive

\* Multiplication by a natural number keeps the order.
LEMMA Product ==
  ASSUME NEW a \in Int, NEW b \in Int, NEW c \in Nat, a <= b
  PROVE  c * a <= c * b
OBVIOUS

\* So does cancelling a positive one.
LEMMA Cancel ==
  ASSUME NEW a \in Int, NEW b \in Int, NEW c \in Nat \ {0}, c * a <= c * b
  PROVE  a <= b
<1>1. SUFFICES ASSUME a - b \in Nat \ {0} PROVE FALSE
  OBVIOUS
<1>2. c * (a - b) = c * a - c * b
  OBVIOUS
<1> DEFINE d == a - b
<1>3. d \in Nat \ {0} /\ c * d <= 0
  BY <1>1, <1>2
<1> HIDE DEF d
<1>4. c * d > 0
  BY <1>3
<1> QED BY <1>3, <1>4

\* Division by a positive number.
LEMMA Quotient ==
  ASSUME NEW a \in Int, NEW b \in Nat \ {0}
  PROVE  /\ a \div b \in Int
         /\ b * (a \div b) <= a
         /\ a < b * (a \div b) + b
OBVIOUS

\* The multiple of a block that follows another one.
LEMMA NextMultiple ==
  ASSUME NEW B \in Nat \ {0}, NEW x \in Nat, x % B = 0
  PROVE  (x + B) % B = 0
<1> DEFINE q == x \div B
           k == (x + B) \div B
           r == (x + B) % B
           d == q + 1 - k
<1>1. q \in Nat /\ k \in Nat /\ r \in 0 .. B - 1
  OBVIOUS
<1>2. x = B * q
  OBVIOUS
<1>3. x + B = B * k + r
  OBVIOUS
<1> HIDE DEF q, k, r
<1>4. r = B * (q + 1 - k) /\ q + 1 - k \in Int
  BY <1>1, <1>2, <1>3
<1> HIDE DEF d
<1>5. d \in Int /\ r = B * d
  BY <1>4 DEF d
<1>6. ~(d >= 1)
  BY <1>1, <1>5
<1>7. ~(d <= -1)
  BY <1>1, <1>5
<1>8. d = 0
  BY <1>5, <1>6, <1>7
<1> QED BY <1>1, <1>5, <1>8 DEF r

\* The numbers between two multiples of a block.
LEMMA InsideBlock ==
  ASSUME NEW B \in Nat \ {0}, NEW x \in Nat, x % B = 0, NEW m \in 0 .. B - 1
  PROVE  (x + m) % B = m
OBVIOUS

\* The unsigned shorts are 0 to 65535.
LEMMA ShortRange == PortSpace = 65536 /\ PortSpace - 1 = 65535
BY DEF PortSpace

\* Every unsigned short survives send_new_port and get_port.
THEOREM RoundTrip ==
  ASSUME NEW p \in 0 .. PortSpace - 1
  PROVE  PortOf(HighByte(p), LowByte(p)) = p
<1>1. p \in Nat /\ p < 65536
  BY ShortRange, SMTT(30)
<1>2. p \div 256 \in 0 .. 255
  BY <1>1
<1>3. p = (p \div 256) * 256 + (p % 256)
  BY <1>1
<1>4. (p \div 256) % 256 = p \div 256
  BY <1>2
<1> QED BY <1>3, <1>4 DEF PortOf, HighByte, LowByte

\* The remainder of a number is an unsigned short.
LEMMA Remainder == ASSUME NEW n \in Nat PROVE n % PortSpace \in 0 .. PortSpace - 1
<1>1. PortSpace \in Nat \ {0}
  BY ShortRange
<1> QED BY <1>1

\* What NewPort computes is an unsigned short.
LEMMA NewPortType ==
  ASSUME NEW c \in 1 .. PortSpace - 1, NEW k \in Nat
  PROVE  NewPort(c, k) \in 0 .. PortSpace - 1
<1>1. c \in Nat /\ k * k \in Nat
  BY ShortRange, SMTT(30)
<1>2. c + k * k \in Nat
  BY <1>1
<1> QED BY <1>2, Remainder DEF NewPort

\* The squares of the counters below 256 are below 65026, and strictly grow.
LEMMA Squares ==
  ASSUME NEW i \in 0 .. 255, NEW j \in 0 .. 255, i < j
  PROVE  /\ i * i \in Nat
         /\ j * j \in Nat
         /\ i * i < j * j
         /\ j * j <= 65025
<1>1. i * i \in Nat /\ j * j \in Nat
  OBVIOUS
<1>2. i * i < j * j
  OBVIOUS
<1>3. j * j <= 65025
  OBVIOUS
<1> QED BY <1>1, <1>2, <1>3

\* Two numbers less than 65536 apart differ as unsigned shorts.
LEMMA Wrap ==
  ASSUME NEW a \in Nat, NEW b \in Nat, a < b, b - a < PortSpace
  PROVE  a % PortSpace # b % PortSpace
BY ShortRange, SMTT(30)

\* Two counters below 256 give two ports, whatever the control port.
LEMMA Distinct ==
  ASSUME NEW c \in 1 .. PortSpace - 1,
         NEW i \in 0 .. 255, NEW j \in 0 .. 255, i < j
  PROVE  NewPort(c, i) # NewPort(c, j)
<1>1. /\ i * i \in Nat
      /\ j * j \in Nat
      /\ i * i < j * j
      /\ j * j <= 65025
  BY Squares
<1>2. c \in Nat
  BY ShortRange, SMTT(30)
<1> DEFINE ii == i * i
           jj == j * j
           a == c + ii
           b == c + jj
<1> HIDE DEF ii, jj
<1>3. a \in Nat /\ b \in Nat /\ a < b /\ b - a < PortSpace
  <2>1. ii \in Nat /\ jj \in Nat /\ ii < jj /\ jj <= 65025
    BY <1>1 DEF ii, jj
  <2> QED BY <2>1, <1>2, ShortRange, SMTT(30)
<1> HIDE DEF a, b
<1>4. a % PortSpace # b % PortSpace
  BY <1>3, Wrap
<1> QED BY <1>4 DEF a, b, ii, jj, NewPort

\* A counter of a transfer never gives the control port itself.
LEMMA NotControl ==
  ASSUME NEW c \in 1 .. PortSpace - 1, NEW j \in 1 .. 255
  PROVE  NewPort(c, j) # c
<1>1. NewPort(c, 0) = c
  <2>1. c \in Nat /\ c < 65536
    BY ShortRange, SMTT(30)
  <2>2. c + 0 * 0 = c /\ c % 65536 = c
    BY <2>1
  <2> QED BY <2>2, ShortRange, SMTT(30) DEF NewPort
<1>2. 0 \in 0 .. 255 /\ j \in 0 .. 255 /\ 0 < j
  OBVIOUS
<1>3. NewPort(c, 0) # NewPort(c, j)
  BY <1>2, Distinct, Zenon
<1> QED BY <1>1, <1>3
==============================================================================
