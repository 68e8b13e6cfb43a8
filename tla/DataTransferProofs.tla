-------------------------- MODULE DataTransferProofs -------------------------
(***************************************************************************)
(* Proofs about send_file and receive_file: as long as the two ends agree  *)
(* where the blocks begin, a file of any length, in blocks of any size,    *)
(* arrives as FileCopy promises.                                           *)
(*                                                                         *)
(* What is in flight is described by an automaton that runs through the    *)
(* transmission of a file unit by unit.  Its state, a cursor, says which   *)
(* unit comes next; the stream carries the units between the cursor of the *)
(* receiver and the cursor of the sender.                                  *)
(***************************************************************************)
EXTENDS DataTransfer, ArithmeticLemmas, SequenceTheorems, TLAPS

Kinds == {"high", "low", "data", "226", "complete", "zero"}
Units == [kind : Kinds, n : Int]

\* The next unit is of this kind, in the frame of the block that starts after
\* the unit block of the file; pos units of the file come before it.
Cursor(at, block, pos) == [at |-> at, block |-> block, pos |-> pos]
Cursors == [at : Kinds \cup {"end"}, block : Nat, pos : Nat]

\* What the length says of the frame that starts at a position of the file.
SizeAt(d) == IF d < FileLen THEN Least(BlockLen, FileLen - d) ELSE 2

High(d) == Cursor("high", d, d)
Low(d) == Cursor("low", d, d)
Body(d) == IF d < FileLen THEN Cursor("data", d, d) ELSE Cursor("226", d, d)
End == Cursor("end", FileLen, FileLen)

\* The unit at a cursor.
Out(c) ==
  CASE c.at \in {"high", "low"} -> Unit(c.at, SizeAt(c.block))
    [] c.at = "data" -> Unit("data", c.pos + 1)
    [] OTHER -> Unit(c.at, 0)

\* The cursor behind that unit.
After(c) ==
  CASE c.at = "high" -> Low(c.block)
    [] c.at = "low" -> Body(c.block)
    [] c.at = "data" -> IF c.pos + 1 < c.block + SizeAt(c.block)
                          THEN Cursor("data", c.block, c.pos + 1)
                          ELSE High(c.pos + 1)
    [] c.at = "226" -> Cursor("complete", c.block, c.pos)
    [] c.at = "complete" -> Cursor("zero", c.block, c.pos)
    [] OTHER -> End

\* The units s are what comes between the cursors a and b.
Carries(s, a, b) ==
  \E g \in [1 .. Len(s) + 1 -> Cursors] :
    /\ g[1] = a
    /\ g[Len(s) + 1] = b
    /\ \A i \in 1 .. Len(s) : s[i] = Out(g[i]) /\ g[i + 1] = After(g[i])

------------------------------------------------------------------------------
(* The automaton.                                                          *)

LEMMA SizeAtBounds ==
  ASSUME NEW d \in 0 .. FileLen
  PROVE  /\ SizeAt(d) \in 1 .. Huge
         /\ d < FileLen => SizeAt(d) <= BlockLen /\ d + SizeAt(d) <= FileLen
         /\ d < FileLen => \/ SizeAt(d) = BlockLen
                           \/ SizeAt(d) < BlockLen /\ d + SizeAt(d) = FileLen
         /\ d = FileLen => SizeAt(d) = 2
BY DataAssumption DEF SizeAt, Least, Huge

\* The frame of a block, unit by unit.
LEMMA Frame ==
  ASSUME NEW d \in 0 .. FileLen
  PROVE  /\ High(d) \in Cursors /\ Low(d) \in Cursors /\ Body(d) \in Cursors
         /\ Out(High(d)) = Unit("high", SizeAt(d)) /\ After(High(d)) = Low(d)
         /\ Out(Low(d)) = Unit("low", SizeAt(d)) /\ After(Low(d)) = Body(d)
<1>1. d \in Nat
  BY DataAssumption
<1>2. High(d) \in Cursors /\ Low(d) \in Cursors /\ Body(d) \in Cursors
  BY <1>1 DEF High, Low, Body, Cursor, Cursors, Kinds
<1>3. Out(High(d)) = Unit("high", SizeAt(d)) /\ After(High(d)) = Low(d)
  BY DEF High, Cursor, Out, After
<1>4. Out(Low(d)) = Unit("low", SizeAt(d)) /\ After(Low(d)) = Body(d)
  BY DEF Low, Cursor, Out, After
<1> QED BY <1>2, <1>3, <1>4

\* The units of a block.
LEMMA InsideFrame ==
  ASSUME NEW d \in 0 .. FileLen, d < FileLen, NEW e \in d .. d + SizeAt(d) - 1
  PROVE  /\ Cursor("data", d, e) \in Cursors
         /\ Out(Cursor("data", d, e)) = Unit("data", e + 1)
         /\ After(Cursor("data", d, e)) = IF e + 1 < d + SizeAt(d)
                                            THEN Cursor("data", d, e + 1)
                                            ELSE High(d + SizeAt(d))
<1>1. d \in Nat /\ SizeAt(d) \in Nat /\ e \in Nat
  BY DataAssumption, SizeAtBounds DEF Huge
<1>2. Cursor("data", d, e) \in Cursors
  BY <1>1 DEF Cursor, Cursors, Kinds
<1>3. Out(Cursor("data", d, e)) = Unit("data", e + 1)
  BY DEF Cursor, Out
<1>4. ~(e + 1 < d + SizeAt(d)) => e + 1 = d + SizeAt(d)
  BY <1>1
<1>5. After(Cursor("data", d, e)) = IF e + 1 < d + SizeAt(d)
                                      THEN Cursor("data", d, e + 1)
                                      ELSE High(e + 1)
  BY DEF Cursor, After
<1> QED BY <1>2, <1>3, <1>4, <1>5

\* The end mark and what follows it.
LEMMA MarkFrame ==
  LET m == Cursor("226", FileLen, FileLen)
      c == Cursor("complete", FileLen, FileLen)
      z == Cursor("zero", FileLen, FileLen)
  IN  /\ Body(FileLen) = m /\ m \in Cursors /\ c \in Cursors /\ z \in Cursors /\ End \in Cursors
      /\ Out(m) = Unit("226", 0) /\ After(m) = c
      /\ Out(c) = Unit("complete", 0) /\ After(c) = z
      /\ Out(z) = Padding /\ After(z) = End
<1>1. FileLen \in Nat
  BY DataAssumption
<1> QED BY <1>1 DEF Body, Cursor, Cursors, Kinds, Out, After, End, Padding

------------------------------------------------------------------------------
(* What a stream carries.                                                  *)

LEMMA CarriesNothing ==
  ASSUME NEW a \in Cursors
  PROVE  Carries(<< >>, a, a)
<1> DEFINE g == [i \in 1 .. Len(<< >>) + 1 |-> a]
<1>1. Len(<< >>) = 0
  OBVIOUS
<1>2. g \in [1 .. Len(<< >>) + 1 -> Cursors] /\ g[1] = a /\ g[Len(<< >>) + 1] = a
  BY <1>1
<1> HIDE DEF g
<1> QED BY <1>1, <1>2 DEF Carries

LEMMA CarriesOne ==
  ASSUME NEW a \in Cursors, After(a) \in Cursors
  PROVE  Carries(<<Out(a)>>, a, After(a))
<1> DEFINE s == <<Out(a)>>
           g == [i \in 1 .. Len(s) + 1 |-> IF i = 1 THEN a ELSE After(a)]
<1>1. Len(s) = 1 /\ s[1] = Out(a)
  OBVIOUS
<1>2. g \in [1 .. Len(s) + 1 -> Cursors] /\ g[1] = a /\ g[2] = After(a)
  BY <1>1
<1> HIDE DEF g, s
<1>3. \A i \in 1 .. Len(s) : s[i] = Out(g[i]) /\ g[i + 1] = After(g[i])
  BY <1>1, <1>2
<1>4. g[Len(s) + 1] = After(a)
  BY <1>1, <1>2
<1>5. Carries(s, a, After(a))
  BY <1>2, <1>3, <1>4 DEF Carries
<1> QED BY <1>5 DEF s

\* Two runs of the automaton, one after the other.
LEMMA CarriesJoin ==
  ASSUME NEW s \in Seq(Units), NEW t \in Seq(Units), NEW a, NEW b, NEW c,
         Carries(s, a, b), Carries(t, b, c)
  PROVE  Carries(s \o t, a, c)
<1> DEFINE m == Len(s)
           n == Len(t)
           u == s \o t
<1>1. /\ m \in Nat /\ n \in Nat /\ Len(u) = m + n
      /\ \A i \in 1 .. m + n : u[i] = IF i <= m THEN s[i] ELSE t[i - m]
  BY ConcatProperties, LenProperties
<1>2. PICK g \in [1 .. m + 1 -> Cursors] :
        /\ g[1] = a /\ g[m + 1] = b
        /\ \A i \in 1 .. m : s[i] = Out(g[i]) /\ g[i + 1] = After(g[i])
  BY DEF Carries
<1>3. PICK h \in [1 .. n + 1 -> Cursors] :
        /\ h[1] = b /\ h[n + 1] = c
        /\ \A i \in 1 .. n : t[i] = Out(h[i]) /\ h[i + 1] = After(h[i])
  BY DEF Carries
<1> DEFINE f == [i \in 1 .. m + n + 1 |-> IF i <= m THEN g[i] ELSE h[i - m]]
<1> HIDE DEF m, n, u
<1>4. f \in [1 .. m + n + 1 -> Cursors]
  <2>1. ASSUME NEW i \in 1 .. m + n + 1
        PROVE  (IF i <= m THEN g[i] ELSE h[i - m]) \in Cursors
    <3>1. CASE i <= m
      BY <3>1, <1>1, <1>2
    <3>2. CASE ~(i <= m)
      <4>1. i - m \in 1 .. n + 1
        BY <3>2, <1>1
      <4> QED BY <3>2, <4>1, <1>3
    <3> QED BY <3>1, <3>2
  <2> QED BY <2>1
<1>5. f[1] = a
  BY <1>1, <1>2, <1>3
<1>6. f[m + n + 1] = c
  <2>1. ~(m + n + 1 <= m) /\ m + n + 1 - m = n + 1 /\ m + n + 1 \in 1 .. m + n + 1
    BY <1>1
  <2>2. f[m + n + 1] = h[m + n + 1 - m]
    BY <2>1, <1>1
  <2> HIDE DEF f
  <2> QED BY <2>1, <2>2, <1>3
<1>7. ASSUME NEW i \in 1 .. m + n
      PROVE  u[i] = Out(f[i]) /\ f[i + 1] = After(f[i])
  <2>0. i \in 1 .. m + n + 1 /\ i + 1 \in 1 .. m + n + 1
    BY <1>1
  <2>1. CASE i < m
    <3>1. i \in 1 .. m /\ i <= m /\ i + 1 <= m
      BY <2>1, <1>1
    <3> QED BY <2>0, <3>1, <1>1, <1>2
  <2>2. CASE i = m
    <3>1. i \in 1 .. m /\ i <= m /\ ~(i + 1 <= m) /\ i + 1 - m = 1
      BY <2>2, <1>1
    <3>4. f[i] = g[i] /\ f[i + 1] = h[i + 1 - m]
      BY <2>0, <3>1, <1>1
    <3>2. f[i] = g[i] /\ f[i + 1] = h[1]
      BY <3>1, <3>4
    <3>3. g[i + 1] = h[1]
      BY <2>2, <1>2, <1>3
    <3>5. s[i] = Out(g[i]) /\ g[i + 1] = After(g[i]) /\ u[i] = s[i]
      BY <2>0, <3>1, <1>1, <1>2
    <3> HIDE DEF f
    <3> QED BY <3>2, <3>3, <3>5
  <2>3. CASE i > m
    <3>1. /\ i - m \in 1 .. n /\ ~(i <= m) /\ ~(i + 1 <= m)
          /\ (i + 1) - m = (i - m) + 1
      BY <2>3, <1>1
    <3>2. f[i] = h[i - m] /\ f[i + 1] = h[(i - m) + 1]
      BY <2>0, <3>1
    <3> QED BY <3>1, <3>2, <1>1, <1>3
  <2> QED BY <2>1, <2>2, <2>3, <1>1
<1> HIDE DEF f
<1> QED BY <1>1, <1>4, <1>5, <1>6, <1>7 DEF Carries, u

\* What a recv of n units leaves, and what it returns.
LEMMA Parts ==
  ASSUME NEW s \in Seq(Units), NEW n \in 1 .. Len(s)
  PROVE  /\ SubSeq(s, 1, n) \in Seq(Units)
         /\ Len(SubSeq(s, 1, n)) = n
         /\ \A i \in 1 .. n : SubSeq(s, 1, n)[i] = s[i]
         /\ SubSeq(s, n + 1, Len(s)) \in Seq(Units)
         /\ Len(SubSeq(s, n + 1, Len(s))) = Len(s) - n
         /\ \A i \in 1 .. Len(s) - n : SubSeq(s, n + 1, Len(s))[i] = s[n + i]
<1> DEFINE m == Len(s)
<1>1. m \in Nat /\ \A i \in 1 .. m : s[i] \in Units
  BY LenProperties, ElementOfSeq
<1> HIDE DEF m
<1>2. n \in Int /\ m \in Int /\ n + 1 \in Int /\ 1 \in Int /\ n \in 1 .. m
  BY <1>1 DEF m
<1>3. (\A i \in 1 .. n : s[i] \in Units) /\ (\A i \in n + 1 .. m : s[i] \in Units)
  BY <1>1, <1>2
<1>4. /\ SubSeq(s, 1, n) \in Seq(Units)
      /\ Len(SubSeq(s, 1, n)) = IF 1 <= n THEN n - 1 + 1 ELSE 0
      /\ \A i \in 1 .. n - 1 + 1 : SubSeq(s, 1, n)[i] = s[1 + i - 1]
  BY <1>2, <1>3, SubSeqProperties
<1>5. /\ SubSeq(s, n + 1, m) \in Seq(Units)
      /\ Len(SubSeq(s, n + 1, m)) = IF n + 1 <= m THEN m - (n + 1) + 1 ELSE 0
      /\ \A i \in 1 .. m - (n + 1) + 1 : SubSeq(s, n + 1, m)[i] = s[(n + 1) + i - 1]
  BY <1>2, <1>3, SubSeqProperties
<1>6. Len(SubSeq(s, 1, n)) = n /\ \A i \in 1 .. n : SubSeq(s, 1, n)[i] = s[i]
  <2>1. 1 <= n /\ n - 1 + 1 = n /\ \A i \in 1 .. n : 1 + i - 1 = i
    BY <1>2
  <2> QED BY <2>1, <1>4
<1>7. /\ Len(SubSeq(s, n + 1, m)) = m - n
      /\ \A i \in 1 .. m - n : SubSeq(s, n + 1, m)[i] = s[n + i]
  <2>1. /\ m - (n + 1) + 1 = m - n
        /\ ~(n + 1 <= m) => m - n = 0
        /\ \A i \in 1 .. m - n : (n + 1) + i - 1 = n + i
    BY <1>2
  <2> QED BY <2>1, <1>5
<1> QED BY <1>4, <1>5, <1>6, <1>7 DEF m

\* A recv cuts a run of the automaton in two.
LEMMA CarriesSplit ==
  ASSUME NEW s \in Seq(Units), NEW n \in 1 .. Len(s), NEW a, NEW b, Carries(s, a, b)
  PROVE  \E c \in Cursors : /\ Carries(SubSeq(s, 1, n), a, c)
                            /\ Carries(SubSeq(s, n + 1, Len(s)), c, b)
<1> DEFINE m == Len(s)
           p == SubSeq(s, 1, n)
           q == SubSeq(s, n + 1, m)
<1>1. /\ m \in Nat /\ n \in 1 .. m /\ Len(p) = n /\ Len(q) = m - n
      /\ \A i \in 1 .. n : p[i] = s[i]
      /\ \A i \in 1 .. m - n : q[i] = s[n + i]
  BY Parts, LenProperties
<1>2. PICK g \in [1 .. m + 1 -> Cursors] :
        /\ g[1] = a /\ g[m + 1] = b
        /\ \A i \in 1 .. m : s[i] = Out(g[i]) /\ g[i + 1] = After(g[i])
  BY DEF Carries
<1> HIDE DEF m, p, q
<1>3. g[n + 1] \in Cursors
  BY <1>1, <1>2
<1>4. Carries(p, a, g[n + 1])
  <2> DEFINE h == [i \in 1 .. n + 1 |-> g[i]]
  <2>1. h \in [1 .. n + 1 -> Cursors] /\ h[1] = a /\ h[n + 1] = g[n + 1]
    BY <1>1, <1>2
  <2>2. ASSUME NEW i \in 1 .. n PROVE p[i] = Out(h[i]) /\ h[i + 1] = After(h[i])
    <3>1. i \in 1 .. m /\ i \in 1 .. n + 1 /\ i + 1 \in 1 .. n + 1
      BY <1>1
    <3> QED BY <3>1, <1>1, <1>2
  <2> HIDE DEF h
  <2> QED BY <1>1, <2>1, <2>2 DEF Carries
<1>5. Carries(q, g[n + 1], b)
  <2> DEFINE h == [i \in 1 .. m - n + 1 |-> g[n + i]]
  <2>1. h \in [1 .. m - n + 1 -> Cursors]
    <3>1. \A i \in 1 .. m - n + 1 : n + i \in 1 .. m + 1
      BY <1>1
    <3> QED BY <3>1, <1>2
  <2>2. h[1] = g[n + 1] /\ h[m - n + 1] = b
    <3>1. 1 \in 1 .. m - n + 1 /\ m - n + 1 \in 1 .. m - n + 1 /\ n + (m - n + 1) = m + 1
      BY <1>1
    <3> QED BY <3>1, <1>2
  <2>3. ASSUME NEW i \in 1 .. m - n PROVE q[i] = Out(h[i]) /\ h[i + 1] = After(h[i])
    <3>1. /\ n + i \in 1 .. m /\ i \in 1 .. m - n + 1 /\ i + 1 \in 1 .. m - n + 1
          /\ n + (i + 1) = (n + i) + 1
      BY <1>1
    <3>2. h[i] = g[n + i] /\ h[i + 1] = g[(n + i) + 1]
      BY <3>1
    <3> HIDE DEF h
    <3> QED BY <3>1, <3>2, <1>1, <1>2
  <2> HIDE DEF h
  <2>4. Len(q) + 1 = m - n + 1 /\ Len(q) = m - n
    BY <1>1
  <2> QED BY <2>1, <2>2, <2>3, <2>4 DEF Carries
<1> QED BY <1>3, <1>4, <1>5 DEF p, q, m

\* The first unit is the one at the cursor of the receiver.
LEMMA CarriesFirst ==
  ASSUME NEW s \in Seq(Units), NEW a, NEW b, Carries(s, a, b), Len(s) >= 1
  PROVE  s[1] = Out(a)
<1>1. 1 \in 1 .. Len(s)
  BY LenProperties
<1> QED BY <1>1 DEF Carries

\* Two units are the one at the cursor and the one behind it.
LEMMA CarriesTwo ==
  ASSUME NEW s \in Seq(Units), NEW a, NEW b, Carries(s, a, b), Len(s) = 2
  PROVE  s = <<Out(a), Out(After(a))>> /\ b = After(After(a))
<1>1. s[1] = Out(a) /\ s[2] = Out(After(a)) /\ b = After(After(a))
  <2>1. PICK g \in [1 .. 3 -> Cursors] :
        /\ g[1] = a /\ g[3] = b
        /\ \A i \in 1 .. 2 : s[i] = Out(g[i]) /\ g[i + 1] = After(g[i])
    BY DEF Carries
  <2>2. 1 \in 1 .. 2 /\ 2 \in 1 .. 2 /\ 1 + 1 = 2 /\ 2 + 1 = 3
    OBVIOUS
  <2> QED BY <2>1, <2>2
<1> QED BY <1>1

LEMMA Pair ==
  ASSUME NEW x \in Units, NEW y \in Units
  PROVE  /\ <<x>> \in Seq(Units) /\ <<y>> \in Seq(Units) /\ <<x, y>> \in Seq(Units)
         /\ <<x, y>> = <<x>> \o <<y>>
<1>1. <<x>> \in Seq(Units) /\ <<y>> \in Seq(Units) /\ <<x, y>> \in Seq(Units)
  OBVIOUS
<1> DEFINE s == <<x>>
           t == <<y>>
           u == <<x, y>>
<1>2. /\ Len(s) = 1 /\ s[1] = x /\ Len(t) = 1 /\ t[1] = y
      /\ Len(u) = 2 /\ u[1] = x /\ u[2] = y
  OBVIOUS
<1> HIDE DEF s, t, u
<1>3. s \o t \in Seq(Units) /\ Len(s \o t) = 2
  BY <1>1, <1>2, ConcatProperties DEF s, t
<1>4. (s \o t)[1] = x /\ (s \o t)[2] = y
  <2>1. \A i \in 1 .. 2 : (s \o t)[i] = IF i <= 1 THEN s[i] ELSE t[i - 1]
    BY <1>1, <1>2, ConcatProperties DEF s, t
  <2> QED BY <2>1, <1>2
<1>5. u = s \o t
  <2>1. ASSUME NEW i \in 1 .. 2 PROVE u[i] = (s \o t)[i]
    <3>1. i = 1 \/ i = 2
      OBVIOUS
    <3> QED BY <3>1, <1>2, <1>4
  <2> QED BY <2>1, <1>1, <1>2, <1>3, SeqEqual DEF u
<1> QED BY <1>1, <1>5 DEF s, t, u

\* The frame of a block in flight.
LEMMA SendsHeader ==
  ASSUME NEW d \in 0 .. FileLen
  PROVE  Length(SizeAt(d)) \in Seq(Units) /\ Carries(Length(SizeAt(d)), High(d), Body(d))
<1>1. SizeAt(d) \in Int
  BY SizeAtBounds, DataAssumption DEF Huge
<1>2. /\ Unit("high", SizeAt(d)) \in Units /\ Unit("low", SizeAt(d)) \in Units
  BY <1>1 DEF Unit, Units, Kinds
<1>3. Carries(<<Unit("high", SizeAt(d))>>, High(d), Low(d))
  BY Frame, CarriesOne
<1>4. Carries(<<Unit("low", SizeAt(d))>>, Low(d), Body(d))
  BY Frame, CarriesOne
<1>5. /\ <<Unit("high", SizeAt(d))>> \in Seq(Units)
      /\ <<Unit("low", SizeAt(d))>> \in Seq(Units)
      /\ Length(SizeAt(d)) = <<Unit("high", SizeAt(d))>> \o <<Unit("low", SizeAt(d))>>
  BY <1>2 DEF Length
<1>6. Length(SizeAt(d)) \in Seq(Units)
  BY <1>2 DEF Length
<1> QED BY <1>3, <1>4, <1>5, <1>6, CarriesJoin

\* The data of a block in flight.
LEMMA SendsBlock ==
  ASSUME NEW d \in 0 .. FileLen, d < FileLen, NEW s \in Seq(Units), Len(s) = SizeAt(d),
         \A i \in 1 .. SizeAt(d) : s[i] = Unit("data", d + i)
  PROVE  Carries(s, Body(d), High(d + SizeAt(d)))
<1> DEFINE n == SizeAt(d)
           g == [i \in 1 .. n + 1 |-> IF i <= n THEN Cursor("data", d, d + i - 1) ELSE High(d + n)]
<1>1. n \in Nat /\ n >= 1 /\ d \in Nat /\ d + n \in 0 .. FileLen
  BY SizeAtBounds, DataAssumption DEF Huge
<1>2. Body(d) = Cursor("data", d, d)
  BY DEF Body
<1>3. ASSUME NEW i \in 1 .. n
      PROVE  /\ Cursor("data", d, d + i - 1) \in Cursors
             /\ Out(Cursor("data", d, d + i - 1)) = Unit("data", d + i)
             /\ After(Cursor("data", d, d + i - 1)) = IF i < n THEN Cursor("data", d, d + i)
                                                               ELSE High(d + n)
  <2> HIDE DEF n
  <2>1. /\ d + i - 1 \in d .. d + n - 1 /\ (d + i - 1) + 1 = d + i
        /\ (d + i < d + n) <=> (i < n)
    BY <1>1
  <2> QED BY <2>1, InsideFrame DEF n
<1>4. High(d + n) \in Cursors
  BY <1>1, Frame
<1> HIDE DEF n
<1>5. g \in [1 .. n + 1 -> Cursors]
  <2>1. ASSUME NEW i \in 1 .. n + 1
        PROVE  (IF i <= n THEN Cursor("data", d, d + i - 1) ELSE High(d + n)) \in Cursors
    <3>1. i <= n => i \in 1 .. n
      BY <1>1
    <3> QED BY <3>1, <1>3, <1>4
  <2> QED BY <2>1
<1>6. g[1] = Body(d) /\ g[n + 1] = High(d + n)
  <2>1. 1 \in 1 .. n + 1 /\ 1 <= n /\ d + 1 - 1 = d /\ n + 1 \in 1 .. n + 1 /\ ~(n + 1 <= n)
    BY <1>1
  <2> QED BY <2>1, <1>2
<1>7. ASSUME NEW i \in 1 .. n PROVE s[i] = Out(g[i]) /\ g[i + 1] = After(g[i])
  <2>1. /\ i \in 1 .. n + 1 /\ i + 1 \in 1 .. n + 1 /\ i <= n
        /\ (i + 1 <= n) <=> (i < n)
        /\ d + (i + 1) - 1 = d + i
    BY <1>1
  <2>2. g[i] = Cursor("data", d, d + i - 1)
    BY <2>1
  <2>3. g[i + 1] = IF i < n THEN Cursor("data", d, d + i) ELSE High(d + n)
    BY <2>1
  <2> HIDE DEF g
  <2> QED BY <2>2, <2>3, <1>3 DEF n
<1> HIDE DEF g
<1> QED BY <1>5, <1>6, <1>7 DEF Carries, n

\* The end mark in flight.
LEMMA SendsMark ==
  /\ Mark \in Seq(Units) /\ <<Padding>> \in Seq(Units)
  /\ Carries(Mark \o <<Padding>>, Body(FileLen), End)
<1> DEFINE m == Cursor("226", FileLen, FileLen)
           c == Cursor("complete", FileLen, FileLen)
           z == Cursor("zero", FileLen, FileLen)
           x == Unit("226", 0)
           y == Unit("complete", 0)
<1>1. /\ Body(FileLen) = m /\ m \in Cursors /\ c \in Cursors /\ z \in Cursors /\ End \in Cursors
      /\ Out(m) = x /\ After(m) = c
      /\ Out(c) = y /\ After(c) = z
      /\ Out(z) = Padding /\ After(z) = End
  BY MarkFrame
<1>2. x \in Units /\ y \in Units /\ Padding \in Units
  BY DEF Unit, Units, Kinds, Padding
<1>3. Mark = <<x, y>>
  BY DEF Mark
<1> HIDE DEF m, c, z, x, y
<1>4. Carries(<<x>>, m, c) /\ Carries(<<y>>, c, z) /\ Carries(<<Padding>>, z, End)
  BY <1>1, CarriesOne
<1>5. /\ <<x>> \in Seq(Units) /\ <<y>> \in Seq(Units) /\ <<Padding>> \in Seq(Units)
      /\ Mark \in Seq(Units)
      /\ Mark = <<x>> \o <<y>>
  BY <1>2, <1>3, Pair
<1>6. Carries(Mark, m, z)
  BY <1>4, <1>5, CarriesJoin
<1>7. Carries(Mark \o <<Padding>>, m, End)
  BY <1>4, <1>5, <1>6, CarriesJoin
<1> QED BY <1>1, <1>5, <1>7

\* A recv of two units at the start of a frame returns the length.
LEMMA TakesHeader ==
  ASSUME NEW d \in 0 .. FileLen, NEW s \in Seq(Units), NEW b,
         Carries(s, High(d), b), Len(s) = 2
  PROVE  s = Length(SizeAt(d)) /\ b = Body(d)
<1>1. s = <<Out(High(d)), Out(After(High(d)))>> /\ b = After(After(High(d)))
  BY CarriesTwo
<1> QED BY <1>1, Frame DEF Length

\* A recv of a whole block returns its part of the file.
LEMMA TakesBlock ==
  ASSUME NEW d \in 0 .. FileLen, d < FileLen, NEW s \in Seq(Units), NEW b,
         Carries(s, Body(d), b), Len(s) = SizeAt(d)
  PROVE  /\ \A i \in 1 .. SizeAt(d) : s[i] = Unit("data", d + i)
         /\ b = High(d + SizeAt(d))
<1> DEFINE n == SizeAt(d)
<1>1. n \in Nat /\ n >= 1 /\ d \in Nat
  BY SizeAtBounds, DataAssumption DEF Huge
<1>2. PICK g \in [1 .. n + 1 -> Cursors] :
        /\ g[1] = Body(d) /\ g[n + 1] = b
        /\ \A i \in 1 .. n : s[i] = Out(g[i]) /\ g[i + 1] = After(g[i])
  BY DEF Carries
<1>3. ASSUME NEW i \in 1 .. n
      PROVE  /\ Out(Cursor("data", d, d + i - 1)) = Unit("data", d + i)
             /\ After(Cursor("data", d, d + i - 1)) = IF i < n THEN Cursor("data", d, d + i)
                                                               ELSE High(d + n)
  <2> HIDE DEF n
  <2>1. /\ d + i - 1 \in d .. d + n - 1 /\ (d + i - 1) + 1 = d + i
        /\ (d + i < d + n) <=> (i < n)
    BY <1>1
  <2> QED BY <2>1, InsideFrame DEF n
<1> HIDE DEF n
<1> DEFINE T == {i \in Nat : i < n => g[i + 1] = Cursor("data", d, d + i)}
<1>4. T = Nat
  <2>1. 0 \in T
    <3>1. g[0 + 1] = Cursor("data", d, d) /\ d + 0 = d
      BY <1>1, <1>2 DEF Body
    <3> QED BY <3>1
  <2>2. ASSUME NEW i \in T PROVE i + 1 \in T
    <3>1. i \in Nat /\ i + 1 \in Nat
      OBVIOUS
    <3>2. ASSUME i + 1 < n PROVE g[(i + 1) + 1] = Cursor("data", d, d + (i + 1))
      <4>1. /\ i + 1 \in 1 .. n /\ i < n /\ d + (i + 1) - 1 = d + i
        BY <1>1, <3>1, <3>2
      <4>2. g[i + 1] = Cursor("data", d, d + (i + 1) - 1)
        BY <4>1
      <4>3. g[(i + 1) + 1] = After(g[i + 1])
        BY <1>2, <4>1
      <4> QED BY <1>3, <3>2, <4>1, <4>2, <4>3
    <3> QED BY <3>1, <3>2
  <2>3. T \subseteq Nat
    OBVIOUS
  <2> HIDE DEF T
  <2> QED BY <2>1, <2>2, <2>3, SetInduction
<1>5. ASSUME NEW i \in 1 .. n PROVE g[i] = Cursor("data", d, d + i - 1)
  <2>1. i - 1 \in Nat /\ i - 1 < n /\ (i - 1) + 1 = i /\ d + (i - 1) = d + i - 1
    BY <1>1
  <2>2. i - 1 \in T
    BY <2>1, <1>4
  <2>3. g[(i - 1) + 1] = Cursor("data", d, d + (i - 1))
    BY <2>1, <2>2
  <2> HIDE DEF T
  <2> QED BY <2>1, <2>3
<1>6. \A i \in 1 .. n : s[i] = Unit("data", d + i)
  BY <1>2, <1>3, <1>5
<1>7. b = High(d + n)
  <2>1. n \in 1 .. n /\ ~(n < n)
    BY <1>1
  <2>2. g[n + 1] = After(g[n])
    BY <1>2, <2>1
  <2> QED BY <2>1, <2>2, <1>2, <1>3, <1>5
<1> QED BY <1>6, <1>7 DEF n

\* A recv of two units at the end mark returns it.
LEMMA TakesMark ==
  ASSUME NEW s \in Seq(Units), NEW b, Carries(s, Body(FileLen), b), Len(s) = 2
  PROVE  s = Mark
<1>1. s = <<Out(Body(FileLen)), Out(After(Body(FileLen)))>>
  BY CarriesTwo
<1> QED BY <1>1, MarkFrame DEF Mark

------------------------------------------------------------------------------
(* The inductive invariant.                                                *)

SenderPlaces == {"open", "read", "length", "data", "mark", "done", "gone"}
ReceiverPlaces == {"open", "size", "block", "complete", "cut", "gone"}

\* The next unit of the sender.
Sent ==
  CASE spc \in {"open", "read"} -> High(fpos)
    [] spc = "length" -> High(fpos - bytes_read)
    [] spc = "data" -> Body(fpos - bytes_read)
    [] spc = "mark" -> Body(FileLen)
    [] OTHER -> End

\* The next unit of the receiver; a size of 0 is none.
Taken == IF rpc = "block" /\ size # 0 THEN Body(Len(received)) ELSE High(Len(received))

TypeInv ==
  /\ stream \in Seq(Units)
  /\ received \in Seq(Units)
  /\ fpos \in 0 .. FileLen
  /\ bytes_read \in Int
  /\ bytes_sent \in Int
  /\ size \in Nat

\* Blocks end at a multiple of the size of the buffer, or with the file; the
\* buffer holds what the length has announced or is going to.
SenderInv ==
  /\ spc = "open" => fpos = 0
  /\ fpos % BlockLen = 0 \/ fpos = FileLen
  /\ spc \in {"length", "data"} =>
       /\ fpos - bytes_read \in 0 .. FileLen - 1
       /\ (fpos - bytes_read) % BlockLen = 0
       /\ bytes_read = SizeAt(fpos - bytes_read)

\* The target is the start of the source, size what a length has said, and the
\* stream is what lies between the two ends; without a length nothing is left.
ReceiverInv ==
  /\ rpc = "open" => received = << >>
  /\ Len(received) <= FileLen
  /\ \A i \in 1 .. Len(received) : received[i] = Unit("data", i)
  /\ rpc = "block" =>
       \/ size = SizeAt(Len(received))
       \/ size = 0 /\ stream = << >> /\ SenderEnded
  /\ \E c \in Cursors : Carries(stream, Taken, c) /\ (spc # "gone" => c = Sent)

CopyInv ==
  /\ inStep \in BOOLEAN
  /\ spc \in SenderPlaces
  /\ rpc \in ReceiverPlaces
  /\ inStep => TypeInv /\ SenderInv
  /\ inStep /\ ~ReceiverEnded => ReceiverInv

LEMMA InitHolds == Init => CopyInv
<1> SUFFICES ASSUME Init PROVE CopyInv
  OBVIOUS
<1>1. 0 % BlockLen = 0 /\ 0 \in 0 .. FileLen
  BY DataAssumption
<1>2. TypeInv
  BY <1>1, DataAssumption DEF Init, TypeInv
<1>3. SenderInv
  BY <1>1 DEF Init, SenderInv
<1>4. ReceiverInv
  <2>1. Len(received) = 0 /\ stream = << >> /\ fpos = 0 /\ spc = "open" /\ rpc = "open"
    BY DEF Init
  <2>2. Taken = High(0) /\ Sent = High(0) /\ High(0) \in Cursors
    BY <2>1, <1>1, Frame DEF Taken, Sent
  <2>3. Carries(stream, Taken, Sent)
    BY <2>1, <2>2, CarriesNothing
  <2> QED BY <2>1, <2>2, <2>3, <1>1 DEF ReceiverInv, Init
<1> QED BY <1>2, <1>3, <1>4 DEF Init, CopyInv, SenderPlaces, ReceiverPlaces

\* The positions of the two ends are cursors.
LEMMA EndsAreCursors ==
  ASSUME TypeInv, SenderInv
  PROVE  Sent \in Cursors
<1>1. End \in Cursors
  BY MarkFrame
<1>2. FileLen \in 0 .. FileLen
  BY DataAssumption
<1>3. spc \in {"length", "data"} => fpos - bytes_read \in 0 .. FileLen
  BY DataAssumption DEF SenderInv
<1> QED BY <1>1, <1>2, <1>3, Frame DEF Sent, TypeInv

\* A step of the sender that sends nothing.
LEMMA SenderQuiet ==
  ASSUME ReceiverInv, ~SenderEnded, UNCHANGED <<stream, receiverVars>>,
         spc' = "gone" \/ Sent' = Sent
  PROVE  ReceiverInv'
<1>1. rpc' = rpc /\ size' = size /\ received' = received /\ stream' = stream
  BY DEF receiverVars
<1>2. Taken' = Taken
  BY <1>1 DEF Taken
<1>3. rpc = "block" => size = SizeAt(Len(received))
  BY DEF ReceiverInv
<1>4. \E c \in Cursors : Carries(stream', Taken', c) /\ (spc' # "gone" => c = Sent')
  BY <1>1, <1>2 DEF ReceiverInv, SenderEnded
<1> QED BY <1>1, <1>3, <1>4 DEF ReceiverInv

\* A step of the sender that sends what its cursor says.
LEMMA SenderGrows ==
  ASSUME TypeInv, ReceiverInv, ~SenderEnded, UNCHANGED receiverVars,
         NEW s \in Seq(Units), stream' = stream \o s, Carries(s, Sent, Sent'), Sent' \in Cursors
  PROVE  ReceiverInv'
<1>1. rpc' = rpc /\ size' = size /\ received' = received
  BY DEF receiverVars
<1>2. Taken' = Taken
  BY <1>1 DEF Taken
<1>3. rpc = "block" => size = SizeAt(Len(received))
  BY DEF ReceiverInv
<1>4. Carries(stream, Taken, Sent)
  BY DEF ReceiverInv, SenderEnded
<1>5. Carries(stream', Taken', Sent')
  BY <1>2, <1>4, CarriesJoin DEF TypeInv
<1> QED BY <1>1, <1>3, <1>5 DEF ReceiverInv

------------------------------------------------------------------------------
(* The steps of the sender.                                                *)

LEMMA SendOpenKeeps == CopyInv /\ SendOpen => CopyInv'
<1> SUFFICES ASSUME CopyInv, SendOpen PROVE CopyInv'
  OBVIOUS
<1>1. /\ spc = "open" /\ spc' \in {"read", "gone"} /\ ~SenderEnded
      /\ UNCHANGED <<fpos, bytes_read, bytes_sent, stream, receiverVars, inStep>>
      /\ rpc' = rpc
  BY DEF SendOpen, SenderEnded, receiverVars
<1>2. inStep => (TypeInv /\ SenderInv)'
  BY <1>1 DEF CopyInv, TypeInv, SenderInv, receiverVars
<1>3. spc' = "gone" \/ Sent' = Sent
  BY <1>1 DEF Sent
<1>4. inStep /\ ~ReceiverEnded => ReceiverInv'
  BY <1>1, <1>3, SenderQuiet DEF CopyInv
<1> QED BY <1>1, <1>2, <1>4 DEF CopyInv, SenderPlaces, ReceiverEnded

LEMMA SenderDiesKeeps == CopyInv /\ SenderDies => CopyInv'
<1> SUFFICES ASSUME CopyInv, SenderDies PROVE CopyInv'
  OBVIOUS
<1>1. /\ spc' = "gone" /\ ~SenderEnded
      /\ UNCHANGED <<fpos, bytes_read, bytes_sent, stream, receiverVars, inStep>>
      /\ rpc' = rpc
  BY DEF SenderDies, receiverVars
<1>2. inStep => (TypeInv /\ SenderInv)'
  BY <1>1 DEF CopyInv, TypeInv, SenderInv, receiverVars
<1>3. inStep /\ ~ReceiverEnded => ReceiverInv'
  BY <1>1, SenderQuiet DEF CopyInv
<1> QED BY <1>1, <1>2, <1>3 DEF CopyInv, SenderPlaces, ReceiverEnded

LEMMA ReadBlockKeeps == CopyInv /\ ReadBlock => CopyInv'
<1> SUFFICES ASSUME CopyInv, ReadBlock PROVE CopyInv'
  OBVIOUS
<1>1. /\ spc = "read" /\ spc' = "length" /\ ~SenderEnded /\ fpos < FileLen
      /\ bytes_read' = Least(BlockLen, FileLen - fpos)
      /\ fpos' = fpos + bytes_read'
      /\ UNCHANGED <<bytes_sent, stream, receiverVars, inStep>>
      /\ rpc' = rpc /\ size' = size /\ received' = received
  BY DEF ReadBlock, SenderEnded, receiverVars
<1>2. ASSUME inStep
      PROVE  TypeInv' /\ SenderInv' /\ Sent' = Sent
  <2>1. /\ fpos \in 0 .. FileLen /\ FileLen \in Nat /\ BlockLen \in Nat \ {0}
        /\ fpos % BlockLen = 0 \/ fpos = FileLen
    BY <1>2, DataAssumption DEF CopyInv, TypeInv, SenderInv
  <2>2. bytes_read' = SizeAt(fpos)
    BY <1>1 DEF SizeAt
  <2>3. /\ bytes_read' \in Nat \ {0} /\ fpos' \in 0 .. FileLen
        /\ bytes_read' = BlockLen \/ fpos' = FileLen
        /\ fpos' - bytes_read' = fpos
    BY <1>1, <2>1, <2>2, SizeAtBounds DEF Huge
  <2>4. fpos' % BlockLen = 0 \/ fpos' = FileLen
    BY <1>1, <2>1, <2>3, NextMultiple
  <2>5. TypeInv'
    BY <1>1, <1>2, <2>3 DEF CopyInv, TypeInv
  <2>6. SenderInv'
    BY <1>1, <2>1, <2>2, <2>3, <2>4 DEF SenderInv
  <2>7. Sent' = Sent
    BY <1>1, <2>3 DEF Sent
  <2> QED BY <2>5, <2>6, <2>7
<1>3. inStep /\ ~ReceiverEnded => ReceiverInv'
  BY <1>1, <1>2, SenderQuiet DEF CopyInv
<1> QED BY <1>1, <1>2, <1>3 DEF CopyInv, SenderPlaces, ReceiverEnded

LEMMA SendLengthKeeps == CopyInv /\ SendLength => CopyInv'
<1> SUFFICES ASSUME CopyInv, SendLength PROVE CopyInv'
  OBVIOUS
<1>1. /\ spc = "length" /\ spc' = "data" /\ ~SenderEnded
      /\ stream' = stream \o Length(bytes_read)
      /\ UNCHANGED <<fpos, bytes_read, bytes_sent, receiverVars, inStep>>
      /\ rpc' = rpc /\ size' = size /\ received' = received
  BY DEF SendLength, SenderEnded, receiverVars
<1>2. ASSUME inStep
      PROVE  /\ TypeInv' /\ SenderInv'
             /\ Length(bytes_read) \in Seq(Units) /\ Carries(Length(bytes_read), Sent, Sent')
             /\ Sent' \in Cursors
  <2> DEFINE d == fpos - bytes_read
  <2>1. d \in 0 .. FileLen /\ bytes_read = SizeAt(d)
    BY <1>1, <1>2, DataAssumption DEF CopyInv, SenderInv
  <2>2. Sent = High(d) /\ Sent' = Body(d)
    BY <1>1 DEF Sent
  <2> HIDE DEF d
  <2>3. Length(bytes_read) \in Seq(Units) /\ Carries(Length(bytes_read), Sent, Sent')
    BY <2>1, <2>2, SendsHeader
  <2>4. TypeInv'
    BY <1>1, <1>2, <2>3, ConcatProperties DEF CopyInv, TypeInv
  <2>5. SenderInv'
    BY <1>1, <1>2 DEF CopyInv, SenderInv
  <2> QED BY <2>1, <2>2, <2>3, <2>4, <2>5, Frame
<1>3. inStep /\ ~ReceiverEnded => ReceiverInv'
  BY <1>1, <1>2, SenderGrows DEF CopyInv
<1> QED BY <1>1, <1>2, <1>3 DEF CopyInv, SenderPlaces, ReceiverEnded

LEMMA SendMarkLengthKeeps == CopyInv /\ SendMarkLength => CopyInv'
<1> SUFFICES ASSUME CopyInv, SendMarkLength PROVE CopyInv'
  OBVIOUS
<1>1. /\ spc = "read" /\ spc' = "mark" /\ ~SenderEnded /\ fpos = FileLen
      /\ stream' = stream \o Length(2)
      /\ UNCHANGED <<fpos, bytes_read, bytes_sent, receiverVars, inStep>>
      /\ rpc' = rpc /\ size' = size /\ received' = received
  <2>1. Len(Mark) = 2
    BY DEF Mark
  <2> QED BY <2>1 DEF SendMarkLength, SenderEnded, receiverVars
<1>2. /\ SizeAt(FileLen) = 2 /\ FileLen \in 0 .. FileLen
  BY DataAssumption DEF SizeAt
<1>3. /\ Length(2) \in Seq(Units) /\ Carries(Length(2), Sent, Sent') /\ Sent' \in Cursors
  BY <1>1, <1>2, SendsHeader, Frame DEF Sent
<1>4. inStep => (TypeInv /\ SenderInv)'
  BY <1>1, <1>3, ConcatProperties DEF CopyInv, TypeInv, SenderInv
<1>5. inStep /\ ~ReceiverEnded => ReceiverInv'
  BY <1>1, <1>3, SenderGrows DEF CopyInv
<1> QED BY <1>1, <1>4, <1>5 DEF CopyInv, SenderPlaces, ReceiverEnded

LEMMA SendMarkKeeps == CopyInv /\ SendMark => CopyInv'
<1> SUFFICES ASSUME CopyInv, SendMark PROVE CopyInv'
  OBVIOUS
<1> DEFINE s == Mark \o <<Padding>>
<1>1. /\ spc = "mark" /\ spc' = "done" /\ ~SenderEnded
      /\ stream' = Append(stream \o Mark, Padding)
      /\ UNCHANGED <<fpos, bytes_read, bytes_sent, receiverVars, inStep>>
      /\ rpc' = rpc /\ size' = size /\ received' = received
  BY DEF SendMark, SenderEnded, receiverVars
<1>2. /\ s \in Seq(Units) /\ Mark \in Seq(Units) /\ <<Padding>> \in Seq(Units)
      /\ Carries(s, Sent, Sent') /\ Sent' \in Cursors
  <2>1. s \in Seq(Units)
    BY SendsMark, ConcatProperties
  <2>2. Sent = Body(FileLen) /\ Sent' = End
    BY <1>1 DEF Sent
  <2>3. End \in Cursors
    BY MarkFrame
  <2> QED BY <2>1, <2>2, <2>3, SendsMark
<1>3. Padding \in Units
  BY DEF Padding, Unit, Units, Kinds
<1>4. ASSUME inStep PROVE TypeInv' /\ SenderInv' /\ stream' = stream \o s
  <2>1. stream \in Seq(Units) /\ stream \o Mark \in Seq(Units)
    BY <1>2, <1>4, ConcatProperties DEF CopyInv, TypeInv
  <2>2. stream' = (stream \o Mark) \o <<Padding>>
    BY <1>1, <1>3, <2>1, AppendIsConcat
  <2>3. stream' = stream \o s
    BY <1>2, <2>1, <2>2, ConcatAssociative
  <2>4. stream' \in Seq(Units)
    BY <1>2, <2>1, <2>3, ConcatProperties
  <2>5. TypeInv'
    BY <1>1, <1>4, <2>4 DEF CopyInv, TypeInv
  <2>6. SenderInv'
    BY <1>1, <1>4 DEF CopyInv, SenderInv
  <2> QED BY <2>3, <2>5, <2>6
<1> HIDE DEF s
<1>5. inStep /\ ~ReceiverEnded => ReceiverInv'
  BY <1>1, <1>2, <1>4, SenderGrows DEF CopyInv
<1> QED BY <1>1, <1>4, <1>5 DEF CopyInv, SenderPlaces, ReceiverEnded

\* What the buffer holds is the block that was read.
LEMMA BufferHolds ==
  ASSUME TypeInv, SenderInv, spc = "data"
  PROVE  LET d == fpos - bytes_read
         IN  /\ d \in 0 .. FileLen - 1 /\ bytes_read = SizeAt(d)
             /\ Buffer(bytes_read) \in Seq(Units) /\ Len(Buffer(bytes_read)) = SizeAt(d)
             /\ \A i \in 1 .. SizeAt(d) : Buffer(bytes_read)[i] = Unit("data", d + i)
<1> DEFINE d == fpos - bytes_read
           m == bytes_read
<1>1. /\ d \in 0 .. FileLen - 1 /\ d % BlockLen = 0 /\ m = SizeAt(d)
      /\ BlockLen \in Nat \ {0} /\ FileLen \in Nat
  BY DataAssumption DEF SenderInv
<1>2. /\ m \in 1 .. BlockLen /\ d + m <= FileLen /\ fpos = d + m
      /\ fpos \in Nat /\ m \in Int /\ d \in Nat /\ fpos - m = d
  <2>1. d \in 0 .. FileLen /\ d < FileLen
    BY <1>1
  <2>2. SizeAt(d) \in 1 .. Huge /\ SizeAt(d) <= BlockLen /\ d + SizeAt(d) <= FileLen
    BY <2>1, SizeAtBounds
  <2>3. fpos \in 0 .. FileLen /\ bytes_read \in Int
    BY DEF TypeInv
  <2> QED BY <1>1, <2>2, <2>3 DEF Huge
<1> HIDE DEF d, m
<1>3. (IF fpos % BlockLen = 0 THEN BlockLen ELSE fpos % BlockLen) = m
  <2>1. CASE m = BlockLen
    BY <1>1, <1>2, <2>1, NextMultiple
  <2>2. CASE m # BlockLen
    <3>1. m \in 0 .. BlockLen - 1 /\ m # 0
      BY <1>1, <1>2, <2>2
    <3>2. fpos % BlockLen = m
      BY <1>1, <1>2, <3>1, InsideBlock
    <3> QED BY <3>1, <3>2
  <2> QED BY <2>1, <2>2
<1>4. Buffer(m) = [i \in 1 .. m |-> IF i <= m THEN Source[fpos - m + i] ELSE Padding]
  BY <1>3 DEF Buffer
<1>5. Buffer(m) = [i \in 1 .. m |-> Unit("data", d + i)]
  <2>1. ASSUME NEW i \in 1 .. m
        PROVE  (IF i <= m THEN Source[fpos - m + i] ELSE Padding) = Unit("data", d + i)
    <3>1. i <= m /\ fpos - m + i = d + i /\ d + i \in 1 .. FileLen
      BY <1>1, <1>2
    <3> QED BY <3>1 DEF Source
  <2> QED BY <1>4, <2>1
<1>6. \A i \in 1 .. m : Unit("data", d + i) \in Units
  BY <1>2 DEF Unit, Units, Kinds
<1>7. Buffer(m) \in Seq(Units) /\ Len(Buffer(m)) = m
  BY <1>2, <1>5, <1>6
<1>8. \A i \in 1 .. m : Buffer(m)[i] = Unit("data", d + i)
  BY <1>5
<1> QED BY <1>1, <1>7, <1>8 DEF d, m

LEMMA SendBlockKeeps == CopyInv /\ SendBlock => CopyInv'
<1> SUFFICES ASSUME CopyInv, SendBlock PROVE CopyInv'
  OBVIOUS
<1>1. /\ spc = "data" /\ ~SenderEnded /\ stream' = stream \o Buffer(bytes_read)
      /\ bytes_sent' = bytes_sent + bytes_read
      /\ bytes_read' = bytes_read - bytes_sent'
      /\ spc' = IF bytes_read' > 0 THEN "length" ELSE "read"
      /\ inStep' = (inStep /\ bytes_read' <= 0)
      /\ UNCHANGED <<fpos, receiverVars>>
      /\ rpc' = rpc /\ size' = size /\ received' = received
  BY DEF SendBlock, SenderEnded, receiverVars
<1>2. spc' \in SenderPlaces /\ inStep' \in BOOLEAN /\ rpc' \in ReceiverPlaces
  BY <1>1 DEF SenderPlaces, CopyInv
<1>3. ASSUME inStep'
      PROVE  /\ inStep /\ TypeInv' /\ SenderInv'
             /\ Buffer(bytes_read) \in Seq(Units) /\ Carries(Buffer(bytes_read), Sent, Sent')
             /\ Sent' \in Cursors
  <2> DEFINE d == fpos - bytes_read
  <2>1. inStep /\ TypeInv /\ SenderInv
    BY <1>1, <1>3 DEF CopyInv
  <2>2. /\ d \in 0 .. FileLen - 1 /\ bytes_read = SizeAt(d)
        /\ Buffer(bytes_read) \in Seq(Units) /\ Len(Buffer(bytes_read)) = SizeAt(d)
        /\ \A i \in 1 .. SizeAt(d) : Buffer(bytes_read)[i] = Unit("data", d + i)
    BY <1>1, <2>1, BufferHolds
  <2>3. bytes_sent' \in Int /\ bytes_read' \in Int /\ spc' = "read"
    <3>1. bytes_read' <= 0
      BY <1>1, <1>3
    <3>2. bytes_sent' \in Int /\ bytes_read' \in Int
      BY <1>1, <2>1 DEF TypeInv
    <3> QED BY <1>1, <3>1, <3>2
  <2>4. d + SizeAt(d) = fpos /\ d \in 0 .. FileLen /\ d < FileLen
    BY <2>1, <2>2, DataAssumption DEF TypeInv
  <2>5. Sent = Body(d) /\ Sent' = High(fpos)
    BY <1>1, <2>3 DEF Sent
  <2> HIDE DEF d
  <2>6. Carries(Buffer(bytes_read), Sent, Sent')
    BY <2>2, <2>4, <2>5, SendsBlock
  <2>7. Sent' \in Cursors
    BY <2>1, <2>5, Frame DEF TypeInv
  <2>8. TypeInv'
    BY <1>1, <2>1, <2>2, <2>3, ConcatProperties DEF TypeInv
  <2>9. SenderInv'
    BY <1>1, <2>1, <2>3 DEF SenderInv
  <2> QED BY <2>1, <2>2, <2>6, <2>7, <2>8, <2>9
<1>4. inStep' /\ ~ReceiverEnded' => ReceiverInv'
  BY <1>1, <1>3, SenderGrows DEF CopyInv, ReceiverEnded
<1> QED BY <1>2, <1>3, <1>4 DEF CopyInv

------------------------------------------------------------------------------
(* The steps of the receiver.                                              *)

\* What ntohl makes of a whole length.
LEMMA SizesOfLength == ASSUME NEW k \in 1 .. Huge PROVE Sizes(Length(k)) = {k}
<1>1. \A j \in 1 .. Huge : Length(k) = Length(j) => k = j
  BY DEF Length, Unit
<1> QED BY <1>1 DEF Sizes

\* The cursors around the n units that a recv returns.
LEMMA Taking ==
  ASSUME TypeInv, ReceiverInv, NEW n \in 1 .. Len(stream),
         stream' = SubSeq(stream, n + 1, Len(stream)), UNCHANGED senderVars
  PROVE  /\ SubSeq(stream, 1, n) \in Seq(Units) /\ Len(SubSeq(stream, 1, n)) = n
         /\ stream' \in Seq(Units)
         /\ \E b, c \in Cursors : /\ Carries(SubSeq(stream, 1, n), Taken, b)
                                  /\ Carries(stream', b, c)
                                  /\ spc' # "gone" => c = Sent'
<1>1. /\ SubSeq(stream, 1, n) \in Seq(Units) /\ Len(SubSeq(stream, 1, n)) = n
      /\ stream' \in Seq(Units)
  BY Parts DEF TypeInv
<1>2. Sent' = Sent /\ spc' = spc
  BY DEF senderVars, Sent
<1>3. PICK c \in Cursors : Carries(stream, Taken, c) /\ (spc # "gone" => c = Sent)
  BY DEF ReceiverInv
<1>4. PICK b \in Cursors : /\ Carries(SubSeq(stream, 1, n), Taken, b)
                           /\ Carries(stream', b, c)
  BY <1>3, CarriesSplit DEF TypeInv
<1> QED BY <1>1, <1>2, <1>3, <1>4

\* The first recv of a block that returns what it asked for, the rest of the
\* state being as the invariant says.
LEMMA ReceivesWholeBlock ==
  ASSUME TypeInv, ReceiverInv, rpc = "block", UNCHANGED senderVars,
         NEW n \in 1 .. Len(stream), n <= size,
         stream' = SubSeq(stream, n + 1, Len(stream))
  PROVE  LET d == Len(received)
             p == SubSeq(stream, 1, n)
         IN  /\ d \in 0 .. FileLen /\ size = SizeAt(d) /\ stream' \in Seq(Units)
             /\ p \in Seq(Units) /\ Len(p) = n
             /\ stream[1] = Out(Body(d))
             /\ n = size /\ d = FileLen => p = Mark
             /\ n = size /\ d < FileLen =>
                  /\ \A i \in 1 .. n : p[i] = Unit("data", d + i)
                  /\ \E c \in Cursors : /\ Carries(stream', High(d + n), c)
                                        /\ spc' # "gone" => c = Sent'
<1> DEFINE d == Len(received)
           p == SubSeq(stream, 1, n)
<1>1. d \in 0 .. FileLen
  BY LenProperties, DataAssumption DEF TypeInv, ReceiverInv
<1>2. stream # << >> /\ n >= 1 /\ 1 \in 1 .. Len(stream) /\ Len(stream) >= 1
  BY LenProperties DEF TypeInv
<1>3. size # 0 /\ size = SizeAt(d)
  <2>1. size # 0
    BY <1>2 DEF TypeInv
  <2> QED BY <2>1 DEF ReceiverInv
<1>4. Taken = Body(d)
  BY <1>3 DEF Taken
<1> HIDE DEF d
<1>5. PICK b, c \in Cursors : /\ Carries(p, Body(d), b)
                              /\ Carries(stream', b, c)
                              /\ spc' # "gone" => c = Sent'
  BY <1>4, Taking
<1>6. p \in Seq(Units) /\ Len(p) = n /\ stream' \in Seq(Units)
  BY Taking
<1>7. stream[1] = Out(Body(d))
  <2>1. PICK e \in Cursors : Carries(stream, Taken, e)
    BY DEF ReceiverInv
  <2> QED BY <2>1, <1>2, <1>4, CarriesFirst DEF TypeInv
<1> HIDE DEF p
<1>8. ASSUME n = size, d = FileLen PROVE p = Mark
  <2>1. Len(p) = 2
    BY <1>1, <1>3, <1>6, <1>8, SizeAtBounds
  <2> QED BY <2>1, <1>5, <1>6, <1>8, TakesMark
<1>9. ASSUME n = size, d < FileLen
      PROVE  /\ \A i \in 1 .. n : p[i] = Unit("data", d + i)
             /\ \E e \in Cursors : /\ Carries(stream', High(d + n), e)
                                   /\ spc' # "gone" => e = Sent'
  <2>1. /\ \A i \in 1 .. SizeAt(d) : p[i] = Unit("data", d + i)
        /\ b = High(d + SizeAt(d))
    BY <1>1, <1>3, <1>5, <1>6, <1>9, TakesBlock
  <2> QED BY <2>1, <1>3, <1>5, <1>9
<1> QED BY <1>1, <1>3, <1>6, <1>7, <1>8, <1>9 DEF d, p

LEMMA ReceiveOpenKeeps == CopyInv /\ ReceiveOpen => CopyInv'
<1> SUFFICES ASSUME CopyInv, ReceiveOpen PROVE CopyInv'
  OBVIOUS
<1>1. /\ rpc = "open" /\ rpc' \in {"size", "gone"}
      /\ UNCHANGED <<senderVars, stream, size, received, inStep>>
      /\ Taken' = Taken /\ Sent' = Sent /\ spc' = spc
  BY DEF ReceiveOpen, senderVars, Taken, Sent
<1>2. inStep => (TypeInv /\ SenderInv)'
  BY <1>1 DEF CopyInv, TypeInv, SenderInv, senderVars
<1>3. ASSUME inStep, rpc' = "size" PROVE ReceiverInv'
  <2>1. ReceiverInv
    BY <1>1, <1>3 DEF CopyInv, ReceiverEnded
  <2> QED BY <1>1, <1>3, <2>1 DEF ReceiverInv
<1>4. inStep' /\ ~ReceiverEnded' => ReceiverInv'
  BY <1>1, <1>3 DEF ReceiverEnded
<1> QED BY <1>1, <1>2, <1>4 DEF CopyInv, ReceiverPlaces

LEMMA ReceiveSizeKeeps == CopyInv /\ ReceiveSize => CopyInv'
<1> SUFFICES ASSUME CopyInv, ReceiveSize PROVE CopyInv'
  OBVIOUS
<1>1. PICK n \in 1 .. 2 :
        /\ n \in 1 .. Least(2, Len(stream))
        /\ stream' = SubSeq(stream, n + 1, Len(stream))
        /\ size' \in Sizes(SubSeq(stream, 1, n))
        /\ inStep' = (inStep /\ n = 2)
  BY DEF ReceiveSize, Take
<1>2. /\ rpc = "size" /\ rpc' = "block" /\ UNCHANGED <<senderVars, received>> /\ spc' = spc
  BY DEF ReceiveSize, senderVars
<1>3. inStep' \in BOOLEAN /\ spc' \in SenderPlaces /\ rpc' \in ReceiverPlaces
  BY <1>1, <1>2 DEF CopyInv, ReceiverPlaces
<1>4. ASSUME inStep' PROVE TypeInv' /\ SenderInv' /\ ReceiverInv'
  <2> DEFINE d == Len(received)
             p == SubSeq(stream, 1, 2)
  <2>1. inStep /\ n = 2 /\ TypeInv /\ SenderInv /\ ReceiverInv
    BY <1>1, <1>2, <1>4 DEF CopyInv, ReceiverEnded
  <2>2. 2 \in 1 .. Len(stream)
    BY <1>1, <2>1, LenProperties DEF Least, TypeInv
  <2>3. d \in 0 .. FileLen
    BY <2>1, LenProperties, DataAssumption DEF TypeInv, ReceiverInv
  <2>4. Taken = High(d)
    BY <1>2 DEF Taken
  <2>5. /\ p \in Seq(Units) /\ Len(p) = 2 /\ stream' \in Seq(Units)
        /\ \E b, c \in Cursors : /\ Carries(p, High(d), b)
                                 /\ Carries(stream', b, c)
                                 /\ spc' # "gone" => c = Sent'
    BY <1>1, <1>2, <2>1, <2>2, <2>4, Taking
  <2> HIDE DEF d, p
  <2>6. PICK b, c \in Cursors : /\ Carries(p, High(d), b)
                                /\ Carries(stream', b, c)
                                /\ spc' # "gone" => c = Sent'
    BY <2>5
  <2>7. p = Length(SizeAt(d)) /\ b = Body(d)
    BY <2>3, <2>5, <2>6, TakesHeader
  <2>8. size' = SizeAt(d) /\ SizeAt(d) \in 1 .. Huge
    BY <1>1, <2>1, <2>3, <2>7, SizeAtBounds, SizesOfLength DEF p
  <2>9. size' \in Nat /\ size' # 0
    BY <2>8
  <2>10. Taken' = Body(d)
    BY <1>2, <2>9 DEF Taken, d
  <2>11. TypeInv'
    BY <1>2, <2>1, <2>5, <2>9 DEF TypeInv, senderVars
  <2>12. SenderInv'
    BY <1>2, <2>1 DEF SenderInv, senderVars
  <2>13. ReceiverInv'
    BY <1>2, <2>1, <2>6, <2>7, <2>8, <2>10 DEF ReceiverInv, d
  <2> QED BY <2>11, <2>12, <2>13
<1> QED BY <1>3, <1>4 DEF CopyInv

LEMMA ReceiveNoSizeKeeps == CopyInv /\ ReceiveNoSize => CopyInv'
<1> SUFFICES ASSUME CopyInv, ReceiveNoSize PROVE CopyInv'
  OBVIOUS
<1>1. /\ rpc = "size" /\ rpc' = "block" /\ stream = << >> /\ SenderEnded /\ size' = 0
      /\ UNCHANGED <<senderVars, stream, received, inStep>>
      /\ Taken' = Taken /\ Sent' = Sent /\ spc' = spc
  BY DEF ReceiveNoSize, senderVars, Taken, Sent
<1>2. inStep => (TypeInv /\ SenderInv)'
  BY <1>1 DEF CopyInv, TypeInv, SenderInv, senderVars
<1>3. ASSUME inStep PROVE ReceiverInv'
  <2>1. ReceiverInv
    BY <1>1, <1>3 DEF CopyInv, ReceiverEnded
  <2> QED BY <1>1, <2>1 DEF ReceiverInv, SenderEnded
<1> QED BY <1>1, <1>2, <1>3 DEF CopyInv, ReceiverPlaces

LEMMA ReceiveBlockKeeps == CopyInv /\ ReceiveBlock => CopyInv'
<1> SUFFICES ASSUME CopyInv, ReceiveBlock PROVE CopyInv'
  OBVIOUS
<1>1. PICK n \in 1 .. Len(stream) :
        /\ n \in 1 .. Least(size, Len(stream))
        /\ stream' = SubSeq(stream, n + 1, Len(stream))
        /\ ~IsMark(SubSeq(stream, 1, n))
        /\ received' = received \o SubSeq(stream, 1, n)
        /\ inStep' = (inStep /\ n = size)
  BY DEF ReceiveBlock, Take
<1>2. /\ rpc = "block" /\ rpc' = "size" /\ UNCHANGED <<senderVars, size>> /\ spc' = spc
  BY DEF ReceiveBlock, senderVars
<1>3. inStep' \in BOOLEAN /\ spc' \in SenderPlaces /\ rpc' \in ReceiverPlaces
  BY <1>1, <1>2 DEF CopyInv, ReceiverPlaces
<1>4. ASSUME inStep' PROVE TypeInv' /\ SenderInv' /\ ReceiverInv'
  <2> DEFINE d == Len(received)
             p == SubSeq(stream, 1, n)
  <2>1. inStep /\ n = size /\ TypeInv /\ SenderInv /\ ReceiverInv
    BY <1>1, <1>2, <1>4 DEF CopyInv, ReceiverEnded
  <2>2. n <= size
    BY <2>1 DEF TypeInv
  <2>3. /\ d \in 0 .. FileLen /\ size = SizeAt(d) /\ stream' \in Seq(Units)
        /\ p \in Seq(Units) /\ Len(p) = n
        /\ d = FileLen => p = Mark
        /\ d < FileLen =>
             /\ \A i \in 1 .. n : p[i] = Unit("data", d + i)
             /\ \E c \in Cursors : /\ Carries(stream', High(d + n), c)
                                   /\ spc' # "gone" => c = Sent'
    BY <1>1, <1>2, <2>1, <2>2, ReceivesWholeBlock
  <2>14. ~IsMark(p) /\ received' = received \o p /\ received \in Seq(Units)
    BY <1>1, <2>1 DEF TypeInv
  <2> HIDE DEF p
  <2>4. p # Mark
    <3>1. Len(Mark) = 2
      BY DEF Mark
    <3>2. SubSeq(Mark, 1, 2) = Mark
      BY <3>1, SendsMark, SubSeqFull
    <3>3. IsMark(Mark)
      BY <3>1, <3>2 DEF IsMark
    <3> QED BY <3>3, <2>14
  <2>5. d < FileLen
    BY <2>3, <2>4, DataAssumption
  <2>6. /\ d + n <= FileLen /\ d \in Nat /\ n \in Nat
    BY <2>1, <2>3, <2>5, SizeAtBounds, DataAssumption DEF Huge
  <2>7. /\ received' \in Seq(Units) /\ Len(received') = d + n
        /\ \A i \in 1 .. d + n : received'[i] = IF i <= d THEN received[i] ELSE p[i - d]
    BY <2>14, <2>3, ConcatProperties
  <2>8. \A i \in 1 .. d : received[i] = Unit("data", i)
    BY <2>1 DEF ReceiverInv
  <2> HIDE DEF d, p
  <2>9. ASSUME NEW i \in 1 .. d + n PROVE received'[i] = Unit("data", i)
    <3>1. CASE i <= d
      BY <3>1, <2>6, <2>7, <2>8
    <3>2. CASE ~(i <= d)
      <4>1. i - d \in 1 .. n /\ d + (i - d) = i
        BY <3>2, <2>6
      <4> QED BY <3>2, <4>1, <2>3, <2>5, <2>7
    <3> QED BY <3>1, <3>2
  <2>10. TypeInv'
    BY <1>2, <2>1, <2>3, <2>7 DEF TypeInv, senderVars
  <2>11. SenderInv'
    BY <1>2, <2>1 DEF SenderInv, senderVars
  <2>12. Taken' = High(d + n)
    BY <1>2, <2>7 DEF Taken
  <2>13. ReceiverInv'
    BY <1>2, <2>3, <2>5, <2>6, <2>7, <2>9, <2>12 DEF ReceiverInv
  <2> QED BY <2>10, <2>11, <2>13
<1> QED BY <1>3, <1>4 DEF CopyInv

\* When the mark is taken in step, the target is the whole source.
LEMMA MarkEndsSource ==
  ASSUME CopyInv, ReceiveMark, inStep'
  PROVE  received = Source
<1>1. PICK n \in 1 .. Len(stream) :
        /\ n \in 1 .. Least(size, Len(stream))
        /\ stream' = SubSeq(stream, n + 1, Len(stream))
        /\ inStep' = (inStep /\ stream[1].kind # "data")
  BY DEF ReceiveMark, Take
<1>2. rpc = "block" /\ UNCHANGED senderVars
  BY DEF ReceiveMark
<1>3. inStep /\ stream[1].kind # "data" /\ TypeInv /\ ReceiverInv
  BY <1>1, <1>2 DEF CopyInv, ReceiverEnded
<1>4. n <= size
  BY <1>1, <1>3, LenProperties DEF Least, TypeInv
<1> DEFINE d == Len(received)
<1>5. d \in 0 .. FileLen /\ stream[1] = Out(Body(d))
  BY <1>1, <1>2, <1>3, <1>4, ReceivesWholeBlock
<1>6. ~(d < FileLen)
  <2>1. d < FileLen => Out(Body(d)) = Unit("data", d + 1)
    BY DEF Body, Out, Cursor
  <2> QED BY <2>1, <1>3, <1>5 DEF Unit
<1>7. d = FileLen
  BY <1>5, <1>6, DataAssumption
<1>8. /\ received \in Seq(Units) /\ \A i \in 1 .. FileLen : received[i] = Unit("data", i)
  BY <1>3, <1>7 DEF ReceiverInv, TypeInv
<1> QED BY <1>7, <1>8, LenProperties DEF Source

LEMMA ReceiveMarkKeeps == CopyInv /\ ReceiveMark => CopyInv'
<1> SUFFICES ASSUME CopyInv, ReceiveMark PROVE CopyInv'
  OBVIOUS
<1>1. PICK n \in 1 .. Len(stream) :
        /\ stream' = SubSeq(stream, n + 1, Len(stream))
        /\ inStep' = (inStep /\ stream[1].kind # "data")
  BY DEF ReceiveMark, Take
<1>2. /\ rpc = "block" /\ rpc' = "complete"
      /\ UNCHANGED <<senderVars, size, received>> /\ spc' = spc
  BY DEF ReceiveMark, senderVars
<1>3. inStep' \in BOOLEAN /\ spc' \in SenderPlaces /\ rpc' \in ReceiverPlaces /\ ReceiverEnded'
  BY <1>1, <1>2 DEF CopyInv, ReceiverPlaces, ReceiverEnded
<1>4. ASSUME inStep' PROVE TypeInv' /\ SenderInv'
  <2>1. inStep /\ TypeInv /\ SenderInv
    BY <1>1, <1>4 DEF CopyInv
  <2>2. stream' \in Seq(Units)
    BY <1>1, <2>1, Parts DEF TypeInv
  <2> QED BY <1>2, <2>1, <2>2 DEF TypeInv, SenderInv, senderVars
<1> QED BY <1>3, <1>4 DEF CopyInv

LEMMA ReceiverEndsKeeps == CopyInv /\ (ReceiveNothing \/ ReceiverDies) => CopyInv'
<1> SUFFICES ASSUME CopyInv, ReceiveNothing \/ ReceiverDies PROVE CopyInv'
  OBVIOUS
<1>1. /\ rpc' \in {"cut", "gone"}
      /\ UNCHANGED <<senderVars, stream, size, received, inStep>> /\ spc' = spc
  BY DEF ReceiveNothing, ReceiverDies, senderVars
<1> QED BY <1>1 DEF CopyInv, TypeInv, SenderInv, senderVars, ReceiverEnded, ReceiverPlaces

LEMMA StepKeeps == CopyInv /\ [Next]_vars => CopyInv'
<1> SUFFICES ASSUME CopyInv, [Next]_vars PROVE CopyInv'
  OBVIOUS
<1>1. CASE SenderStep
  BY <1>1, SendOpenKeeps, ReadBlockKeeps, SendLengthKeeps, SendBlockKeeps, SendMarkLengthKeeps,
     SendMarkKeeps DEF SenderStep
<1>2. CASE ReceiverStep
  BY <1>2, ReceiveOpenKeeps, ReceiveSizeKeeps, ReceiveNoSizeKeeps, ReceiveBlockKeeps,
     ReceiveMarkKeeps, ReceiverEndsKeeps DEF ReceiverStep
<1>3. CASE SenderDies \/ ReceiverDies
  BY <1>3, SenderDiesKeeps, ReceiverEndsKeeps
<1>4. CASE UNCHANGED vars
  BY <1>4 DEF vars, senderVars, receiverVars, CopyInv, TypeInv, SenderInv, ReceiverInv, Sent,
     Taken, SenderEnded, ReceiverEnded
<1> QED BY <1>1, <1>2, <1>3, <1>4 DEF Next, Exited

\* While the two ends are in step, the stream is the transmission of the file
\* from where the receiver is to where the sender is.
THEOREM CopyInvariance == Spec => []CopyInv
BY InitHolds, StepKeeps, PTL DEF Spec

------------------------------------------------------------------------------
(* The refinement of FileCopy.                                             *)

Copying == {"open", "size", "block"}

LEMMA InitRefines == Init => FC!Init
BY DEF Init, FC!Init

\* A step that neither writes nor ends is a stutter.
LEMMA Stutters ==
  ASSUME received' = received, (rpc \in Copying /\ rpc' \in Copying) \/ rpc' = rpc
  PROVE  UNCHANGED FC!vars
BY DEF FC!vars, Copying

LEMMA Cuts ==
  ASSUME received' = received, rpc \in Copying, rpc' \in {"cut", "gone"}
  PROVE  FC!Next
BY DEF FC!Next, FC!Cut, Copying

LEMMA ExtendRefines ==
  ASSUME CopyInv, ReceiveBlock, inStep'
  PROVE  FC!Next
<1>1. CopyInv'
  BY ReceiveBlockKeeps
<1>2. rpc = "block" /\ rpc' = "size"
  BY DEF ReceiveBlock
<1>3. PICK n \in 1 .. Len(stream) : /\ received' = received \o SubSeq(stream, 1, n)
                                    /\ inStep' = (inStep /\ n = size)
  BY DEF ReceiveBlock
<1>4. TypeInv /\ TypeInv' /\ ReceiverInv'
  BY <1>1, <1>2, <1>3 DEF CopyInv, ReceiverEnded
<1>5. /\ Len(received) \in Nat /\ Len(received') = Len(received) + n /\ n \in Nat /\ n >= 1
  BY <1>3, <1>4, Parts, ConcatProperties, LenProperties DEF TypeInv
<1>6. Len(received') \in Len(received) + 1 .. FileLen
  BY <1>4, <1>5, DataAssumption DEF ReceiverInv
<1> DEFINE m == Len(received')
<1>7. Source \in Seq(Units) /\ Len(Source) = FileLen
  <2>1. \A i \in 1 .. FileLen : Unit("data", i) \in Units
    BY DataAssumption DEF Unit, Units, Kinds
  <2> QED BY <2>1, DataAssumption DEF Source
<1>8. received' = SubSeq(Source, 1, m)
  <2>1. m \in 1 .. Len(Source)
    BY <1>5, <1>6, <1>7
  <2>2. /\ SubSeq(Source, 1, m) \in Seq(Units) /\ Len(SubSeq(Source, 1, m)) = m
        /\ \A i \in 1 .. m : SubSeq(Source, 1, m)[i] = Source[i]
    BY <2>1, <1>7, Parts
  <2>3. \A i \in 1 .. m : Source[i] = received'[i]
    <3>1. m \in 1 .. FileLen /\ FileLen \in Nat
      BY <1>5, <1>6, DataAssumption
    <3>2. \A i \in 1 .. m : received'[i] = Unit("data", i)
      BY <1>4 DEF ReceiverInv
    <3> HIDE DEF m
    <3> QED BY <3>1, <3>2 DEF Source
  <2>4. received' \in Seq(Units)
    BY <1>4 DEF TypeInv
  <2> QED BY <2>2, <2>3, <2>4, SeqEqual
<1> HIDE DEF m
<1>9. FC!Extend
  BY <1>2, <1>6, <1>7, <1>8 DEF FC!Extend, m
<1> QED BY <1>9 DEF FC!Next

LEMMA CompleteRefines ==
  ASSUME CopyInv, ReceiveMark, inStep'
  PROVE  FC!Next
<1>1. received = Source
  BY MarkEndsSource
<1> QED BY <1>1 DEF ReceiveMark, FC!Next, FC!Complete

LEMMA StepRefines == CopyInv /\ [Next]_vars => [inStep' => FC!Next]_(FC!vars)
<1> SUFFICES ASSUME CopyInv, [Next]_vars, inStep' PROVE FC!Next \/ UNCHANGED FC!vars
  OBVIOUS
<1>1. CASE SenderStep \/ SenderDies
  <2>1. received' = received /\ rpc' = rpc
    BY <1>1 DEF SenderStep, SendOpen, ReadBlock, SendLength, SendBlock, SendMarkLength, SendMark,
       SenderDies, receiverVars
  <2> QED BY <2>1, Stutters
<1>2. CASE ReceiveOpen
  <2>1. rpc = "open" /\ rpc' \in {"size", "gone"} /\ received' = received
    BY <1>2 DEF ReceiveOpen
  <2> QED BY <2>1, Stutters, Cuts DEF Copying
<1>3. CASE ReceiveSize \/ ReceiveNoSize
  <2>1. rpc = "size" /\ rpc' = "block" /\ received' = received
    BY <1>3 DEF ReceiveSize, ReceiveNoSize
  <2> QED BY <2>1, Stutters DEF Copying
<1>4. CASE ReceiveBlock
  BY <1>4, ExtendRefines
<1>5. CASE ReceiveMark
  BY <1>5, CompleteRefines
<1>6. CASE ReceiveNothing \/ ReceiverDies
  <2>1. rpc \in Copying /\ rpc' \in {"cut", "gone"} /\ received' = received
    BY <1>6 DEF ReceiveNothing, ReceiverDies, ReceiverEnded, CopyInv, ReceiverPlaces, Copying
  <2> QED BY <2>1, Cuts
<1>7. CASE UNCHANGED vars
  BY <1>7, Stutters DEF vars, receiverVars
<1> QED BY <1>1, <1>2, <1>3, <1>4, <1>5, <1>6, <1>7 DEF Next, ReceiverStep, Exited

\* Whatever the length of the file, the size of the buffer and the moment at
\* which a process dies, send_file and receive_file copy as FileCopy does while
\* they are in step.
THEOREM CopyInStepCorrect == Spec => CopyInStep
<1>1. Spec => FC!Init
  BY InitRefines DEF Spec
<1>2. Spec => [][inStep' => FC!Next]_(FC!vars)
  BY CopyInvariance, StepRefines, PTL DEF Spec
<1> QED BY <1>1, <1>2 DEF CopyInStep
==============================================================================
