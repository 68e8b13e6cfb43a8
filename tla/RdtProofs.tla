------------------------------ MODULE RdtProofs ------------------------------
(***************************************************************************)
(* Proofs about Rdt, for every file length and every packet size: IInv is  *)
(* an inductive invariant of Spec, and the safety properties follow.       *)
(***************************************************************************)
EXTENDS RdtInvariant, SequenceTheorems, TLAPS

------------------------------------------------------------------------------
(* The packets of the file.                                                *)

\* Two multiples of DataSize (DATA_SIZE) are at least DataSize apart.
LEMMA MultiplesApart ==
  ASSUME NEW j \in Nat, NEW k \in Nat, j < k
  PROVE  /\ j * DataSize \in Nat
         /\ k * DataSize \in Nat
         /\ j * DataSize + DataSize <= k * DataSize
<1>1. DataSize \in Nat
  BY FileAssumption
<1>2. PICK d \in Nat : k = j + 1 + d
  <2>1. k - j - 1 \in Nat /\ k = j + 1 + (k - j - 1)
    OBVIOUS
  <2> QED BY <2>1
<1>3. k * DataSize = j * DataSize + DataSize + d * DataSize
  BY <1>1, <1>2
<1>4. /\ d * DataSize \in Nat
      /\ j * DataSize \in Nat
      /\ k * DataSize \in Nat
  BY <1>1, <1>2
<1> QED BY <1>1, <1>3, <1>4

\* A packet that make_packet fills with len > 0 bytes read at its seqno.
LEMMA SegmentShape ==
  ASSUME NEW p \in Segments
  PROVE  \E k \in Nat :
           /\ p = Segment(k)
           /\ p.seqno = k * DataSize
           /\ p.seqno \in Bytes
           /\ p.data = p.seqno
           /\ p.data_size = IF FileLen - p.seqno < DataSize
                            THEN FileLen - p.seqno ELSE DataSize
           /\ p.data_size \in 1 .. DataSize
           /\ p.seqno < EndOf(p)
           /\ EndOf(p) <= FileLen
           /\ EndOf(p) \in Int
           /\ p \in Packet
<1>1. PICK k \in Nat : k * DataSize < FileLen /\ p = Segment(k)
  BY FileAssumption DEF Segments, Bytes
<1>2. k * DataSize \in Nat
  BY FileAssumption
<1>3. DEFINE s == k * DataSize
             n == IF FileLen - s < DataSize THEN FileLen - s ELSE DataSize
<1>4. p = [seqno |-> s, data_size |-> n, data |-> s]
  BY <1>1 DEF Segment
<1>5. s \in Nat /\ s < FileLen
  BY <1>1, <1>2
<1>6. n \in 1 .. DataSize /\ s + n <= FileLen
  <2> HIDE DEF s
  <2> QED BY <1>5, FileAssumption
<1>7. p \in Packet
  <2> HIDE DEF s, n
  <2>1. s \in Offsets /\ n \in 0 .. DataSize
    BY <1>5, <1>6, FileAssumption DEF Offsets
  <2> QED BY <1>4, <2>1 DEF Packet
<1>8. /\ p.seqno = s /\ p.data = s /\ p.data_size = n
      /\ EndOf(p) = s + n
  BY <1>4 DEF EndOf
<1>9. s \in Bytes
  BY <1>5, FileAssumption DEF Bytes
<1> HIDE DEF s
<1>10. s < s + n /\ s + n \in Int
  BY <1>5, <1>6, FileAssumption
<1> QED BY <1>1, <1>5, <1>6, <1>7, <1>8, <1>9, <1>10 DEF s

\* No two packets of the file overlap.
LEMMA SegmentsApart ==
  ASSUME NEW p \in Segments, NEW q \in Segments
  PROVE  /\ p.seqno < q.seqno => EndOf(p) <= q.seqno
         /\ p.seqno = q.seqno => p = q
<1>1. PICK j \in Nat : p = Segment(j) /\ p.seqno = j * DataSize
                       /\ p.data_size \in 1 .. DataSize
  BY SegmentShape
<1>2. PICK k \in Nat : q = Segment(k) /\ q.seqno = k * DataSize
  BY SegmentShape
<1>3. DataSize \in Nat /\ DataSize > 0
  BY FileAssumption
<1>4. CASE j < k
  <2>1. j * DataSize + DataSize <= k * DataSize
        /\ j * DataSize \in Nat /\ k * DataSize \in Nat
    BY <1>4, MultiplesApart
  <2> QED BY <1>1, <1>2, <1>3, <2>1 DEF EndOf
<1>5. CASE k < j
  <2>1. k * DataSize + DataSize <= j * DataSize
        /\ j * DataSize \in Nat /\ k * DataSize \in Nat
    BY <1>5, MultiplesApart
  <2> QED BY <1>1, <1>2, <1>3, <2>1
<1>6. CASE j = k
  <2>1. p = q
    BY <1>1, <1>2, <1>6
  <2>2. p.seqno \in Nat
    BY <1>1, <1>3
  <2> QED BY <2>1, <2>2
<1> QED BY <1>4, <1>5, <1>6

\* A packet boundary splits no packet.
LEMMA BoundaryApart ==
  ASSUME NEW b \in Boundaries, NEW p \in Segments, p.seqno < b
  PROVE  EndOf(p) <= b
<1>1. EndOf(p) <= FileLen
  BY SegmentShape
<1>2. CASE b = FileLen
  BY <1>1, <1>2
<1>3. CASE b \in {q.seqno : q \in Segments}
  BY <1>3, SegmentsApart
<1> QED BY <1>2, <1>3 DEF Boundaries

\* Packet boundaries are positions of the file.
LEMMA BoundaryType == Boundaries \subseteq Offsets
BY SegmentShape, FileAssumption DEF Boundaries, Bytes, Offsets

\* The start and the end of a packet are boundaries.
LEMMA SegmentEnds ==
  ASSUME NEW p \in Segments
  PROVE  p.seqno \in Boundaries /\ EndOf(p) \in Boundaries
<1>1. p.seqno \in Boundaries
  BY DEF Boundaries
<1>2. PICK k \in Nat :
        /\ p = Segment(k)
        /\ p.seqno = k * DataSize
        /\ p.seqno \in Bytes
        /\ p.data_size = IF FileLen - p.seqno < DataSize
                         THEN FileLen - p.seqno ELSE DataSize
        /\ EndOf(p) <= FileLen
  BY SegmentShape
<1>3. CASE FileLen - p.seqno <= DataSize
  <2>1. EndOf(p) = FileLen
    BY <1>2, <1>3, FileAssumption DEF EndOf, Bytes
  <2> QED BY <1>1, <2>1 DEF Boundaries
<1>4. CASE FileLen - p.seqno > DataSize
  <2>1. EndOf(p) = p.seqno + DataSize
    BY <1>2, <1>4, FileAssumption DEF EndOf, Bytes
  <2>2. (k + 1) * DataSize = k * DataSize + DataSize
    BY FileAssumption
  <2>3. (k + 1) * DataSize < FileLen
    BY <1>2, <1>4, <2>2, FileAssumption DEF Bytes
  <2>4. k + 1 \in Bytes
    <3>1. k + 1 <= (k + 1) * DataSize
      BY FileAssumption
    <3> QED BY <2>3, <3>1, FileAssumption DEF Bytes
  <2>5. Segment(k + 1) \in Segments
    BY <2>3, <2>4 DEF Segments
  <2>6. Segment(k + 1).seqno = EndOf(p)
    BY <1>2, <2>1, <2>2 DEF Segment
  <2> QED BY <1>1, <2>5, <2>6 DEF Boundaries
<1>5. p.seqno \in Int
  BY <1>2 DEF Bytes
<1> QED BY <1>3, <1>4, <1>5, FileAssumption

\* What the fill loop reads at a boundary is a packet of the file.
LEMMA NextSegment ==
  ASSUME NEW b \in Boundaries, b < FileLen
  PROVE  [seqno |-> b,
          data_size |-> IF FileLen - b < DataSize THEN FileLen - b ELSE DataSize,
          data |-> b] \in Segments
<1>1. PICK p \in Segments : p.seqno = b
  BY FileAssumption DEF Boundaries
<1>2. PICK k \in Nat : p = Segment(k) /\ p.seqno = k * DataSize
  BY SegmentShape
<1>3. p = [seqno |-> b,
           data_size |-> IF FileLen - b < DataSize THEN FileLen - b ELSE DataSize,
           data |-> b]
  BY <1>1, <1>2 DEF Segment
<1> QED BY <1>3

\* The first packet of a file (or its end, when it is empty) is at 0.
LEMMA ZeroBoundary == 0 \in Boundaries
<1>1. CASE FileLen = 0
  BY <1>1 DEF Boundaries
<1>2. CASE FileLen > 0
  <2>1. 0 * DataSize = 0
    BY FileAssumption
  <2>2. 0 \in Bytes
    BY <1>2, FileAssumption DEF Bytes
  <2>3. Segment(0) \in Segments
    BY <1>2, <2>1, <2>2 DEF Segments
  <2>4. Segment(0).seqno = 0
    BY <2>1 DEF Segment
  <2> QED BY <2>3, <2>4 DEF Boundaries
<1> QED BY <1>1, <1>2, FileAssumption

------------------------------------------------------------------------------
(* The congestion window.                                                  *)

\* The unit of the window is a positive number.
LEMMA OneType == One \in Nat \ {0}
BY DEF One

\* The spacing of the floats at w, and why it never exceeds w.
LEMMA SpacingShape ==
  ASSUME NEW w \in Int
  PROVE  /\ Spacing(w) \in 1 .. 128
         /\ Spacing(w) = 1 \/ 2 * Spacing(w) * One <= w
<1> DEFINE S == {u \in {1, 2, 4, 8, 16, 32, 64, 128} : u = 1 \/ 2 * u * One <= w}
<1>1. \E u \in S : \A v \in S : v <= u
  OBVIOUS
<1>2. Spacing(w) = CHOOSE u \in S : \A v \in S : v <= u
  BY DEF Spacing
<1>3. Spacing(w) \in S
  <2> HIDE DEF S
  <2> QED BY <1>1, <1>2
<1> QED BY <1>3

\* Nothing "window_size += 1.0f / (int)window_size" rounds to is below 1.
LEMMA PlusFractionType ==
  ASSUME NEW w \in Int, w >= One
  PROVE  PlusFraction(w) \in Int /\ PlusFraction(w) >= One
<1> DEFINE k == Whole(w)
           u == Spacing(w + One \div k)
           r == w % u
           q == (2 * (r * k + One) + u * k) \div (2 * u * k)
<1>1. k \in Int /\ k >= 1
  BY DEF Whole, One
<1>2. One \div k \in Int /\ One \div k <= One
  <2> HIDE DEF k
  <2> QED BY <1>1 DEF One
<1>3. /\ u \in 1 .. 128
      /\ u = 1 \/ 2 * u * One <= w + One \div k
  <2> HIDE DEF k
  <2> QED BY <1>2, SpacingShape
<1>4. r \in Int /\ 0 <= r /\ r < u
  <2> HIDE DEF u
  <2> QED BY <1>3
<1>5. w - r >= One
  <2> HIDE DEF u, r, k
  <2> QED BY <1>2, <1>3, <1>4 DEF One
<1>6. q \in Int /\ q >= 0
  <2> HIDE DEF u, r, k
  <2>1. r * k \in Int /\ r * k >= 0
    BY <1>1, <1>4
  <2>2. u * k \in Int /\ u * k >= 1
    BY <1>1, <1>3
  <2>3. 2 * u * k = 2 * (u * k)
    BY <1>1, <1>3
  <2> QED BY <2>1, <2>2, <2>3 DEF One
<1>7. u * q \in Int /\ u * q >= 0
  <2> HIDE DEF u, q
  <2> QED BY <1>3, <1>6
<1>8. PlusFraction(w) = (w - r) + u * q
  BY DEF PlusFraction
<1> HIDE DEF u, r, q
<1> QED BY <1>3, <1>4, <1>5, <1>7, <1>8 DEF One

\* The growth for one acknowledged packet never leaves less than one packet.
LEMMA GrownType ==
  ASSUME NEW w \in Int, w >= One, NEW t \in Nat
  PROVE  Grown(w, t) \in Int /\ Grown(w, t) >= One
BY PlusFractionType DEF Grown, One

\* What the alarm handler stores in ssthresh is a number (line 280).
LEMMA HalfWindowType ==
  ASSUME NEW w \in Int, w >= One
  PROVE  HalfWindow(w) \in Nat
BY DEF HalfWindow, One

------------------------------------------------------------------------------
(* IInv holds initially and every action preserves it.                     *)

\* Both programs start in the invariant.
LEMMA InitInv == Init => IInv
<1> SUFFICES ASSUME Init PROVE IInv
  OBVIOUS
<1> USE DEF Init, NetInit, SenderInit, CCInit, ReceiverInit
<1>1. TypeOK
  <2>1. /\ 0 \in Offsets
        /\ window_size \in Int /\ window_size >= One
        /\ ssthresh \in Nat
    BY FileAssumption, OneType DEF Offsets
  <2>2. sliding_window \in Seq(Node)
    BY EmptySeq
  <2>3. fp \in [Bytes -> Bytes \cup {NoByte}]
    BY DEF NoByte
  <2> QED BY <2>1, <2>2, <2>3 DEF TypeOK
<1>2. PacketsInv
  BY DEF PacketsInv
<1>3. CountersInv
  BY ZeroBoundary DEF CountersInv, WindowStart
<1>4. WindowContiguous
  BY DEF WindowContiguous
<1>5. WaitInv /\ BufferInv /\ EofInv
  BY DEF WaitInv, WindowStart, BufferInv, BufferIsEarly, EofInv
<1>6. PrefixDelivered
  BY DEF PrefixDelivered, Bytes
<1> QED BY <1>1, <1>2, <1>3, <1>4, <1>5, <1>6 DEF IInv

\* The head of a window that is not empty.
LEMMA WindowHead ==
  ASSUME TypeOK, sliding_window # << >>
  PROVE  /\ Head(sliding_window) = sliding_window[1]
         /\ Head(sliding_window) \in Node
         /\ Len(sliding_window) \in Nat \ {0}
BY DEF TypeOK

\* Sending (lines 125-160).
LEMMA SendSegmentInv ==
  ASSUME IInv, SendSegment, UNCHANGED rcvVars
  PROVE  IInv'
<1> USE DEF IInv, rcvVars, ccVars
<1> DEFINE pkt == [seqno |-> next_seqno, data_size |-> ReadLen, data |-> fpos]
           node == [p |-> pkt, is_resend |-> FALSE]
<1>1. next_seqno \in Boundaries /\ next_seqno \in Offsets /\ fpos = next_seqno
  BY DEF CountersInv, TypeOK
<1>2. next_seqno < FileLen
  BY <1>1, FileAssumption DEF SendSegment, ReadLen, Offsets
<1>3. pkt \in Segments
  BY <1>1, <1>2, NextSegment DEF ReadLen
<1>4. /\ next_seqno' = EndOf(pkt)
      /\ fpos' = next_seqno'
      /\ dataNet' = dataNet \cup {pkt}
      /\ sliding_window' = Append(sliding_window, node)
      /\ pkt.seqno = next_seqno
  BY <1>1 DEF SendSegment, EndOf
<1>5. /\ next_seqno' \in Boundaries
      /\ next_seqno' \in Offsets
      /\ next_seqno < next_seqno'
      /\ pkt \in Packet
  BY <1>3, <1>4, SegmentShape, SegmentEnds, BoundaryType
<1>6. node \in Node
  BY <1>5 DEF Node
<1> HIDE DEF pkt, node
<1>7. /\ sliding_window' \in Seq(Node)
      /\ Len(sliding_window') = Len(sliding_window) + 1
      /\ sliding_window'[Len(sliding_window) + 1] = node
      /\ \A i \in 1 .. Len(sliding_window) : sliding_window'[i] = sliding_window[i]
      /\ Len(sliding_window) \in Nat
      /\ sliding_window' # << >>
      /\ Head(sliding_window') = sliding_window'[1]
  BY <1>4, <1>6 DEF TypeOK
<1>8. node.p = pkt
  BY DEF node
<1>9. TypeOK'
  BY <1>4, <1>5, <1>7 DEF TypeOK, SendSegment
<1>10. PacketsInv'
  <2>1. \A p \in dataNet' \cup packets' : EndOf(p) <= next_seqno'
    <3>1. \A p \in dataNet \cup packets : EndOf(p) \in Int
      BY DEF TypeOK, Packet, Offsets, EndOf
    <3> QED BY <1>1, <1>4, <1>5, <3>1 DEF PacketsInv, SendSegment, Offsets
  <2>2. \A i \in 1 .. Len(sliding_window') :
          /\ sliding_window'[i].p \in Segments
          /\ EndOf(sliding_window'[i].p) <= next_seqno'
    <3>1. \A i \in 1 .. Len(sliding_window) :
            EndOf(sliding_window[i].p) \in Int
      BY SegmentShape DEF PacketsInv
    <3>2. next_seqno \in Int /\ next_seqno' \in Int
      BY <1>1, <1>5 DEF Offsets
    <3>3. EndOf(node.p) = next_seqno'
      BY <1>4, <1>8
    <3> QED BY <1>3, <1>5, <1>7, <1>8, <3>1, <3>2, <3>3 DEF PacketsInv
  <2> QED BY <1>3, <1>4, <2>1, <2>2 DEF PacketsInv, SendSegment
<1>11. WindowStart' = WindowStart
  <2>1. CASE sliding_window = << >>
    BY <1>4, <1>7, <1>8, <2>1 DEF WindowStart
  <2>2. CASE sliding_window # << >>
    BY <1>7, <2>2, WindowHead DEF WindowStart
  <2> QED BY <2>1, <2>2
<1>12. CountersInv'
  BY <1>1, <1>4, <1>5, <1>11 DEF CountersInv, SendSegment, TypeOK, Offsets
<1>13. WindowContiguous'
  BY <1>4, <1>7, <1>8 DEF WindowContiguous
<1>14. WaitInv'
  BY <1>11 DEF WaitInv, SendSegment
<1>15. BufferInv'
  BY DEF BufferInv, BufferIsEarly, SendSegment
<1>16. EofInv'
  <2>1. pkt # EofPacket
    BY <1>3, SegmentShape DEF EofPacket
  <2> QED BY <1>4, <2>1 DEF EofInv, SendSegment
<1>17. PrefixDelivered'
  BY DEF PrefixDelivered, SendSegment
<1> QED BY <1>9, <1>10, <1>12, <1>13, <1>14, <1>15, <1>16, <1>17

\* The end of the file is read (lines 130-135).
LEMMA ReadEofInv ==
  ASSUME IInv, ReadEof, UNCHANGED rcvVars
  PROVE  IInv'
<1> USE DEF IInv, rcvVars, ccVars, netVars, ReadEof
<1>1. fpos = FileLen
  BY FileAssumption DEF TypeOK, Offsets, ReadLen
<1>2. WindowStart' = WindowStart
  BY DEF WindowStart
<1>3. TypeOK' /\ PacketsInv' /\ WindowContiguous' /\ PrefixDelivered'
  BY DEF TypeOK, PacketsInv, WindowContiguous, PrefixDelivered
<1>4. CountersInv' /\ WaitInv'
  BY <1>2 DEF CountersInv, WaitInv
<1>5. BufferInv' /\ EofInv'
  BY <1>1 DEF BufferInv, BufferIsEarly, EofInv
<1> QED BY <1>3, <1>4, <1>5

\* The packet without data is sent (lines 165-174).
LEMMA SendEofInv ==
  ASSUME IInv, SendEof, UNCHANGED rcvVars
  PROVE  IInv'
<1> USE DEF IInv, rcvVars, ccVars, SendEof
<1>1. WindowStart' = WindowStart
  BY DEF WindowStart
<1>2. EofPacket \in Packet /\ EndOf(EofPacket) = 0
  BY FileAssumption DEF EofPacket, Packet, Offsets, EndOf
<1>3. TypeOK'
  BY <1>2 DEF TypeOK
<1>4. PacketsInv'
  <2>1. 0 <= next_seqno'
    BY DEF TypeOK, Offsets
  <2> QED BY <1>2, <2>1 DEF PacketsInv
<1>5. WindowContiguous' /\ PrefixDelivered'
  BY DEF WindowContiguous, PrefixDelivered
<1>6. CountersInv' /\ WaitInv'
  BY <1>1 DEF CountersInv, WaitInv
<1>7. BufferInv' /\ EofInv'
  BY DEF BufferInv, BufferIsEarly, EofInv
<1> QED BY <1>3, <1>4, <1>5, <1>6, <1>7

\* resend_packets changes nothing of the window but the mark on its head, and
\* sends a packet that is in the window.
LEMMA HandleAlarmEffect ==
  ASSUME IInv, HandleAlarm
  PROVE  /\ sliding_window' \in Seq(Node)
         /\ Len(sliding_window') = Len(sliding_window)
         /\ Len(sliding_window) \in Nat
         /\ sliding_window' = << >> <=> sliding_window = << >>
         /\ \A i \in 1 .. Len(sliding_window) :
              sliding_window'[i].p = sliding_window[i].p
         /\ sliding_window # << >> =>
              Head(sliding_window').p = Head(sliding_window).p
         /\ \A p \in dataNet' :
              \/ p \in dataNet
              \/ p \in Segments /\ p \in Packet /\ EndOf(p) <= next_seqno
         /\ window_size' = One
         /\ ssthresh' \in Nat
<1> USE DEF IInv, HandleAlarm, SendHead
<1>1. window_size' = One /\ ssthresh' \in Nat
  BY HalfWindowType DEF WindowReset, TypeOK
<1>2. CASE sliding_window = << >>
  BY <1>1, <1>2 DEF TypeOK
<1>3. CASE sliding_window # << >>
  <2>1. /\ Head(sliding_window) = sliding_window[1]
        /\ Len(sliding_window) \in Nat \ {0}
        /\ sliding_window \in Seq(Node)
    BY <1>3, WindowHead DEF TypeOK
  <2>2. sliding_window' = [sliding_window EXCEPT
                             ![1] = [sliding_window[1] EXCEPT !.is_resend = TRUE]]
    BY <1>3
  <2>3. [sliding_window[1] EXCEPT !.is_resend = TRUE] \in Node
        /\ [sliding_window[1] EXCEPT !.is_resend = TRUE].p = sliding_window[1].p
    <3>1. sliding_window[1] \in Node
      BY <2>1
    <3> QED BY <3>1 DEF Node
  <2> DEFINE marked == [sliding_window[1] EXCEPT !.is_resend = TRUE]
  <2> HIDE DEF marked, HandleAlarm, SendHead
  <2>4. /\ sliding_window' \in Seq(Node)
        /\ Len(sliding_window') = Len(sliding_window)
        /\ \A i \in 1 .. Len(sliding_window) :
             sliding_window'[i] = IF i = 1 THEN marked ELSE sliding_window[i]
    <3>1. sliding_window' = [sliding_window EXCEPT ![1] = marked]
      BY <2>2 DEF marked
    <3>2. marked \in Node /\ 1 \in 1 .. Len(sliding_window)
      BY <2>1, <2>3 DEF marked
    <3> QED BY <2>1, <3>1, <3>2, ExceptSeq
  <2>5. sliding_window' # << >> /\ Head(sliding_window') = sliding_window'[1]
    BY <2>1, <2>4
  <2>6. \A i \in 1 .. Len(sliding_window) :
          sliding_window'[i].p = sliding_window[i].p
    BY <2>3, <2>4 DEF marked
  <2>7. Head(sliding_window').p = Head(sliding_window).p
    BY <2>1, <2>5, <2>6
  <2>8. /\ Head(sliding_window).p \in Segments
        /\ EndOf(Head(sliding_window).p) <= next_seqno
    BY <2>1 DEF PacketsInv
  <2>9. Head(sliding_window).p \in Packet
    BY <2>8, SegmentShape
  <2>10. \A p \in dataNet' :
           \/ p \in dataNet
           \/ p \in Segments /\ p \in Packet /\ EndOf(p) <= next_seqno
    BY <1>3, <2>8, <2>9 DEF HandleAlarm, SendHead
  <2> QED BY <1>1, <1>3, <2>1, <2>4, <2>5, <2>6, <2>7, <2>10
<1> QED BY <1>2, <1>3

\* What the handler leaves of IInv, wherever it interrupts the sender.
LEMMA HandleAlarmInv ==
  ASSUME IInv, HandleAlarm, UNCHANGED rcvVars,
         UNCHANGED <<fpos, eof_flag, next_seqno, recv_ackno, ackNet>>
  PROVE  /\ PacketsInv' /\ CountersInv' /\ WindowContiguous'
         /\ BufferInv' /\ PrefixDelivered'
         /\ WindowStart' = WindowStart
         /\ sliding_window = << >> <=> sliding_window' = << >>
         /\ sliding_window # << >> =>
              Head(sliding_window').p = Head(sliding_window).p
         /\ EofPacket \in dataNet' => EofPacket \in dataNet
         /\ dataNet' \subseteq Packet
         /\ sliding_window' \in Seq(Node)
         /\ window_size' \in Int /\ window_size' >= One
         /\ ssthresh' \in Nat
<1> DEFINE same == \A i \in 1 .. Len(sliding_window) :
                     sliding_window'[i].p = sliding_window[i].p
<1>1. /\ sliding_window' \in Seq(Node)
      /\ Len(sliding_window') = Len(sliding_window)
      /\ Len(sliding_window) \in Nat
      /\ sliding_window' = << >> <=> sliding_window = << >>
      /\ same
      /\ sliding_window # << >> =>
           Head(sliding_window').p = Head(sliding_window).p
      /\ \A p \in dataNet' :
           \/ p \in dataNet
           \/ p \in Segments /\ p \in Packet /\ EndOf(p) <= next_seqno
      /\ window_size' = One
      /\ ssthresh' \in Nat
  BY HandleAlarmEffect
<1> USE DEF rcvVars
<1>2. WindowStart' = WindowStart
  BY <1>1 DEF WindowStart
<1>3. EofPacket \in dataNet' => EofPacket \in dataNet
  <2>1. EofPacket \notin Segments
    BY SegmentShape DEF EofPacket
  <2> QED BY <1>1, <2>1
<1>4. dataNet' \subseteq Packet
  BY <1>1 DEF IInv, TypeOK
<1>5. PacketsInv'
  BY <1>1 DEF IInv, PacketsInv
<1>6. CountersInv'
  BY <1>2 DEF IInv, CountersInv
<1>7. WindowContiguous'
  <2> SUFFICES ASSUME NEW i \in 1 .. Len(sliding_window)
               PROVE  EndOf(sliding_window'[i].p) =
                        (IF i = Len(sliding_window)
                         THEN next_seqno ELSE sliding_window'[i + 1].p.seqno)
    BY <1>1 DEF WindowContiguous
  <2>1. EndOf(sliding_window[i].p) =
          (IF i = Len(sliding_window)
           THEN next_seqno ELSE sliding_window[i + 1].p.seqno)
    BY DEF IInv, WindowContiguous
  <2>2. i # Len(sliding_window) => i + 1 \in 1 .. Len(sliding_window)
    BY <1>1
  <2> QED BY <1>1, <2>1, <2>2
<1>8. BufferInv' /\ PrefixDelivered'
  BY DEF IInv, BufferInv, BufferIsEarly, PrefixDelivered
<1>9. window_size' \in Int /\ window_size' >= One
  BY <1>1, OneType
<1> QED BY <1>1, <1>2, <1>3, <1>4, <1>5, <1>6, <1>7, <1>8, <1>9

\* The handler runs while the sender waits.
LEMMA AlarmHandledInv ==
  ASSUME IInv, AlarmHandled, UNCHANGED rcvVars
  PROVE  IInv'
<1>1. HandleAlarm /\ UNCHANGED <<fpos, eof_flag, next_seqno, recv_ackno, ackNet>>
  BY DEF AlarmHandled
<1>2. PacketsInv' /\ CountersInv' /\ WindowContiguous' /\ BufferInv'
      /\ PrefixDelivered'
  BY <1>1, HandleAlarmInv
<1>3. /\ sliding_window = << >> <=> sliding_window' = << >>
      /\ sliding_window # << >> =>
           Head(sliding_window').p = Head(sliding_window).p
      /\ EofPacket \in dataNet' => EofPacket \in dataNet
  BY <1>1, HandleAlarmInv
<1>4. TypeOK'
  <2>1. /\ dataNet' \subseteq Packet
        /\ sliding_window' \in Seq(Node)
        /\ window_size' \in Int /\ window_size' >= One
        /\ ssthresh' \in Nat
    BY <1>1, HandleAlarmInv
  <2> QED BY <2>1 DEF IInv, TypeOK, AlarmHandled, rcvVars
<1>5. WaitInv' /\ EofInv'
  BY <1>3 DEF IInv, WaitInv, EofInv, AlarmHandled, rcvVars
<1> QED BY <1>2, <1>4, <1>5 DEF IInv

\* The wait for the head begins (lines 176-183).
LEMMA StartWaitInv ==
  ASSUME IInv, StartWait, UNCHANGED rcvVars
  PROVE  IInv'
<1>1. /\ sliding_window # << >>
      /\ Head(sliding_window).p \in Segments
      /\ EndOf(Head(sliding_window).p) \in Offsets
  <2>1. sliding_window # << >>
    BY DEF StartWait
  <2>2. Head(sliding_window) = sliding_window[1]
        /\ Len(sliding_window) \in Nat \ {0}
    BY <2>1, WindowHead DEF IInv
  <2>3. Head(sliding_window).p \in Segments
    BY <2>2 DEF IInv, PacketsInv
  <2> QED BY <2>1, <2>3, SegmentEnds, BoundaryType
<1>2. CASE pending
  <2>1. HandleAlarm
        /\ UNCHANGED <<fpos, eof_flag, next_seqno, recv_ackno, ackNet>>
    BY <1>2 DEF StartWait
  <2>2. PacketsInv' /\ CountersInv' /\ WindowContiguous' /\ BufferInv'
        /\ PrefixDelivered'
    BY <2>1, HandleAlarmInv
  <2>3. /\ sliding_window' # << >>
        /\ Head(sliding_window').p = Head(sliding_window).p
        /\ EofPacket \in dataNet' => EofPacket \in dataNet
    BY <1>1, <2>1, HandleAlarmInv
  <2>4. TypeOK'
    <3>1. /\ dataNet' \subseteq Packet
          /\ sliding_window' \in Seq(Node)
          /\ window_size' \in Int /\ window_size' >= One
          /\ ssthresh' \in Nat
      BY <2>1, HandleAlarmInv
    <3> QED BY <1>1, <3>1 DEF IInv, TypeOK, StartWait, rcvVars
  <2>5. WaitInv' /\ EofInv'
    BY <1>1, <2>3 DEF IInv, WaitInv, EofInv, StartWait, rcvVars
  <2> QED BY <2>2, <2>4, <2>5 DEF IInv
<1>3. CASE ~pending
  <2> USE <1>3 DEF IInv, StartWait, rcvVars, ccVars
  <2>1. WindowStart' = WindowStart
    BY DEF WindowStart
  <2>2. TypeOK'
    BY <1>1 DEF TypeOK
  <2>3. PacketsInv' /\ WindowContiguous' /\ PrefixDelivered'
    BY DEF PacketsInv, WindowContiguous, PrefixDelivered
  <2>4. CountersInv'
    BY <2>1 DEF CountersInv
  <2>5. WaitInv' /\ EofInv' /\ BufferInv'
    BY <1>1 DEF WaitInv, EofInv, BufferInv, BufferIsEarly
  <2> QED BY <2>2, <2>3, <2>4, <2>5
<1> QED BY <1>2, <1>3

\* An acknowledgement that does not cover the head is dropped (line 212).
LEMMA IgnoreAckInv ==
  ASSUME IInv, NEW a \in ackNet, IgnoreAck(a), UNCHANGED rcvVars
  PROVE  IInv'
<1> USE DEF IInv, rcvVars, sndVars, ccVars, IgnoreAck, After
<1>1. WindowStart' = WindowStart /\ ackNet' \subseteq ackNet
  BY DEF WindowStart
<1>2. TypeOK'
  BY <1>1 DEF TypeOK
<1>3. PacketsInv' /\ WindowContiguous' /\ PrefixDelivered'
  BY DEF PacketsInv, WindowContiguous, PrefixDelivered
<1>4. CountersInv'
  BY <1>1 DEF CountersInv
<1>5. WaitInv' /\ EofInv' /\ BufferInv'
  BY DEF WaitInv, EofInv, BufferInv, BufferIsEarly
<1> QED BY <1>2, <1>3, <1>4, <1>5

\* An acknowledgement that covers the head ends the wait (lines 212-215).
LEMMA AcceptAckInv ==
  ASSUME IInv, NEW a \in ackNet, AcceptAck(a), UNCHANGED rcvVars
  PROVE  IInv'
<1> USE DEF IInv, rcvVars, ccVars, AcceptAck, After
<1>1. WindowStart' = WindowStart /\ ackNet' \subseteq ackNet
  BY DEF WindowStart
<1>2. a \in Boundaries /\ a \in Offsets /\ a <= expec_seqno
  BY DEF CountersInv, TypeOK
<1>3. TypeOK'
  BY <1>1, <1>2 DEF TypeOK
<1>4. PacketsInv' /\ WindowContiguous' /\ PrefixDelivered'
  BY DEF PacketsInv, WindowContiguous, PrefixDelivered
<1>5. CountersInv'
  BY <1>1, <1>2 DEF CountersInv
<1>6. WaitInv' /\ EofInv' /\ BufferInv'
  BY <1>2 DEF WaitInv, EofInv, BufferInv, BufferIsEarly, TypeOK, Offsets
<1> QED BY <1>3, <1>4, <1>5, <1>6

\* The head is covered by the acknowledgement and leaves (lines 224-264).
LEMMA SlideHeadInv ==
  ASSUME IInv, SlideHead, UNCHANGED rcvVars
  PROVE  IInv'
<1> USE DEF rcvVars, netVars
<1> DEFINE head == Head(sliding_window).p
<1>1. /\ sliding_window \in Seq(Node)
      /\ sliding_window # << >>
      /\ head = sliding_window[1].p
      /\ Len(sliding_window) \in Nat \ {0}
      /\ head.seqno < recv_ackno
  BY WindowHead DEF IInv, TypeOK, SlideHead, HeadAcked
<1>2. /\ sliding_window' \in Seq(Node)
      /\ Len(sliding_window') = Len(sliding_window) - 1
      /\ \A i \in 1 .. Len(sliding_window') :
           sliding_window'[i] = sliding_window[i + 1]
  BY <1>1, HeadTailProperties DEF SlideHead
<1>3. head \in Segments
  BY <1>1 DEF IInv, PacketsInv
<1>4. EndOf(head) <= recv_ackno
  BY <1>1, <1>3, BoundaryApart DEF IInv, CountersInv
<1> HIDE DEF head
<1>5. WindowStart' = EndOf(head)
  <2>1. CASE Len(sliding_window) = 1
    <3>1. sliding_window' = << >>
      BY <1>2, <2>1
    <3>2. EndOf(head) = next_seqno
      BY <1>1, <2>1 DEF IInv, WindowContiguous
    <3> QED BY <3>1, <3>2 DEF WindowStart, SlideHead
  <2>2. CASE Len(sliding_window) > 1
    <3>1. sliding_window' # << >> /\ Head(sliding_window') = sliding_window[2]
      <4>1. Len(sliding_window') >= 1
        BY <1>1, <1>2, <2>2
      <4>2. sliding_window'[1] = sliding_window[2]
        BY <1>1, <1>2, <4>1
      <4>3. sliding_window' # << >> /\ Head(sliding_window') = sliding_window'[1]
        BY <1>2, <4>1
      <4> QED BY <4>2, <4>3
    <3>2. EndOf(head) = sliding_window[2].p.seqno
      BY <1>1, <2>2 DEF IInv, WindowContiguous
    <3> QED BY <3>1, <3>2 DEF WindowStart, SlideHead
  <2>3. Len(sliding_window) = 1 \/ Len(sliding_window) > 1
    <3> DEFINE n == Len(sliding_window)
    <3>1. n \in Nat \ {0}
      BY <1>1
    <3> HIDE DEF n
    <3>2. n = 1 \/ n > 1
      BY <3>1
    <3> QED BY <3>2 DEF n
  <2> QED BY <2>1, <2>2, <2>3
<1>6. window_size' \in Int /\ window_size' >= One /\ ssthresh' \in Nat
  BY GrownType DEF IInv, TypeOK, SlideHead, PacketAcked
<1>7. TypeOK'
  BY <1>2, <1>6 DEF IInv, TypeOK, SlideHead
<1>8. PacketsInv'
  <2>1. \A i \in 1 .. Len(sliding_window') : i + 1 \in 1 .. Len(sliding_window)
    BY <1>1, <1>2
  <2> QED BY <1>2, <2>1 DEF IInv, PacketsInv, SlideHead
<1>9. CountersInv'
  <2>1. EndOf(head) <= expec_seqno
    <3>1. EndOf(head) \in Int /\ recv_ackno \in Int /\ expec_seqno \in Int
      BY <1>3, SegmentShape DEF IInv, TypeOK, Offsets
    <3> QED BY <1>4, <3>1 DEF IInv, CountersInv
  <2> QED BY <1>5, <2>1 DEF IInv, CountersInv, SlideHead
<1>10. WindowContiguous'
  <2> SUFFICES ASSUME NEW i \in 1 .. Len(sliding_window')
               PROVE  EndOf(sliding_window'[i].p) =
                        (IF i = Len(sliding_window')
                         THEN next_seqno ELSE sliding_window'[i + 1].p.seqno)
    BY DEF WindowContiguous, SlideHead
  <2>1. i + 1 \in 1 .. Len(sliding_window)
        /\ (i = Len(sliding_window') <=> i + 1 = Len(sliding_window))
    BY <1>1, <1>2
  <2>2. i # Len(sliding_window') => i + 1 \in 1 .. Len(sliding_window')
    BY <1>1, <1>2
  <2>3. EndOf(sliding_window[i + 1].p) =
          (IF i + 1 = Len(sliding_window)
           THEN next_seqno ELSE sliding_window[(i + 1) + 1].p.seqno)
    BY <2>1 DEF IInv, WindowContiguous
  <2> QED BY <1>2, <2>1, <2>2, <2>3
<1>11. WaitInv' /\ EofInv'
  BY DEF IInv, WaitInv, EofInv, SlideHead
<1>12. BufferInv' /\ PrefixDelivered'
  BY DEF IInv, BufferInv, BufferIsEarly, PrefixDelivered, SlideHead
<1> QED BY <1>7, <1>8, <1>9, <1>10, <1>11, <1>12 DEF IInv

\* Nothing more is covered: back to sending (line 224).
LEMMA SlideDoneInv ==
  ASSUME IInv, SlideDone, UNCHANGED rcvVars
  PROVE  IInv'
<1> USE DEF IInv, rcvVars, netVars, ccVars, SlideDone
<1>1. WindowStart' = WindowStart
  BY DEF WindowStart
<1>2. recv_ackno <= WindowStart
  <2>1. CASE sliding_window = << >>
    BY <2>1 DEF WindowStart, CountersInv, TypeOK, Offsets
  <2>2. CASE sliding_window # << >>
    <3>1. Head(sliding_window) = sliding_window[1]
          /\ Len(sliding_window) \in Nat \ {0}
      BY <2>2, WindowHead
    <3>2. Head(sliding_window).p \in Segments
      BY <3>1 DEF PacketsInv
    <3>3. Head(sliding_window).p.seqno \in Int
      BY <3>2, SegmentShape DEF Bytes
    <3> QED BY <2>2, <3>3 DEF WindowStart, HeadAcked, TypeOK, Offsets
  <2> QED BY <2>1, <2>2
<1>3. WindowStart \in Int
  <2>1. CASE sliding_window = << >>
    BY <2>1 DEF WindowStart, TypeOK, Offsets
  <2>2. CASE sliding_window # << >>
    <3>1. Head(sliding_window) = sliding_window[1]
          /\ Len(sliding_window) \in Nat \ {0}
      BY <2>2, WindowHead
    <3>2. Head(sliding_window).p \in Segments
      BY <3>1 DEF PacketsInv
    <3> QED BY <2>2, <3>2, SegmentShape DEF WindowStart, Bytes
  <2> QED BY <2>1, <2>2
<1>4. TypeOK' /\ PacketsInv' /\ WindowContiguous' /\ PrefixDelivered'
  BY DEF TypeOK, PacketsInv, WindowContiguous, PrefixDelivered
<1>5. CountersInv'
  BY <1>1 DEF CountersInv
<1>6. WaitInv'
  BY <1>1, <1>2, <1>3 DEF WaitInv, TypeOK, Offsets
<1>7. BufferInv' /\ EofInv'
  BY DEF BufferInv, BufferIsEarly, EofInv
<1> QED BY <1>4, <1>5, <1>6, <1>7

\* The timer expires while the signal is blocked.
LEMMA AlarmPendsInv ==
  ASSUME IInv, AlarmPends, UNCHANGED rcvVars
  PROVE  IInv'
<1> USE DEF IInv, rcvVars, netVars, ccVars, AlarmPends
<1>1. WindowStart' = WindowStart
  BY DEF WindowStart
<1>2. TypeOK' /\ PacketsInv' /\ WindowContiguous' /\ PrefixDelivered'
  BY DEF TypeOK, PacketsInv, WindowContiguous, PrefixDelivered
<1>3. CountersInv' /\ WaitInv'
  BY <1>1 DEF CountersInv, WaitInv
<1>4. BufferInv' /\ EofInv'
  BY DEF BufferInv, BufferIsEarly, EofInv
<1> QED BY <1>2, <1>3, <1>4

\* A data packet taken from the path is one of the file's.
LEMMA ReceivedShape ==
  ASSUME IInv, NEW pkt \in dataNet, Receive(pkt)
  PROVE  /\ dataNet' \subseteq dataNet
         /\ pkt.data_size = 0 => pkt = EofPacket
         /\ pkt.data_size # 0 => pkt \in Segments
         /\ EndOf(pkt) <= next_seqno
<1>1. pkt = EofPacket \/ pkt \in Segments
  BY DEF IInv, PacketsInv
<1>2. pkt \in Segments => pkt.data_size # 0
  BY SegmentShape
<1>3. EofPacket.data_size = 0
  BY DEF EofPacket
<1> QED BY <1>1, <1>2, <1>3 DEF Receive, After, IInv, PacketsInv

\* The packet without data ends the receiver's loop (lines 111-115).
LEMMA ReceiveEofInv ==
  ASSUME IInv, NEW pkt \in dataNet, ReceiveEof(pkt), UNCHANGED <<sndVars, ccVars>>
  PROVE  IInv'
<1> USE DEF IInv, sndVars, ccVars, ReceiveEof
<1>1. dataNet' \subseteq dataNet /\ EofPacket \in dataNet
  BY ReceivedShape
<1>2. WindowStart' = WindowStart
  BY DEF WindowStart
<1>3. TypeOK' /\ PacketsInv'
  BY <1>1 DEF TypeOK, PacketsInv
<1>4. WindowContiguous' /\ PrefixDelivered'
  BY DEF WindowContiguous, PrefixDelivered
<1>5. CountersInv' /\ WaitInv'
  BY <1>2 DEF CountersInv, WaitInv
<1>6. BufferInv' /\ EofInv'
  BY <1>1 DEF BufferInv, BufferIsEarly, EofInv
<1> QED BY <1>3, <1>4, <1>5, <1>6

\* A packet that joins the list is no earlier than what is expected.
LEMMA ListGrows ==
  ASSUME IInv, NEW pkt \in dataNet, Receive(pkt), pkt.data_size # 0,
         packets' = Added(packets, pkt), UNCHANGED <<expec_seqno, fp, ackNet>>,
         UNCHANGED <<sndVars, ccVars>>
  PROVE  /\ PacketsInv' /\ CountersInv' /\ WindowContiguous' /\ WaitInv'
         /\ PrefixDelivered'
         /\ packets' \subseteq packets \cup {pkt}
         /\ packets' \subseteq Packet
         /\ dataNet' \subseteq dataNet
<1> USE DEF IInv, sndVars, ccVars
<1>1. /\ dataNet' \subseteq dataNet
      /\ pkt \in Segments
      /\ EndOf(pkt) <= next_seqno
  BY ReceivedShape
<1>2. packets' \subseteq packets \cup {pkt}
  BY DEF Added
<1>3. WindowStart' = WindowStart
  BY DEF WindowStart
<1>4. packets' \subseteq Packet
  BY <1>2 DEF TypeOK
<1>5. PacketsInv'
  BY <1>1, <1>2 DEF PacketsInv
<1>6. CountersInv' /\ WaitInv'
  BY <1>3 DEF CountersInv, WaitInv
<1>7. WindowContiguous' /\ PrefixDelivered'
  BY DEF WindowContiguous, PrefixDelivered
<1> QED BY <1>1, <1>2, <1>4, <1>5, <1>6, <1>7

\* The expected packet joins the list (lines 122-124).
LEMMA ReceiveExpectedInv ==
  ASSUME IInv, NEW pkt \in dataNet, ReceiveExpected(pkt),
         UNCHANGED <<sndVars, ccVars>>
  PROVE  IInv'
<1>1. /\ Receive(pkt) /\ pkt.data_size # 0
      /\ packets' = Added(packets, pkt)
      /\ UNCHANGED <<expec_seqno, fp, ackNet>>
  BY DEF ReceiveExpected
<1>2. /\ PacketsInv' /\ CountersInv' /\ WindowContiguous' /\ WaitInv'
      /\ PrefixDelivered'
      /\ packets' \subseteq packets \cup {pkt}
      /\ packets' \subseteq Packet
      /\ dataNet' \subseteq dataNet
  BY <1>1, ListGrows
<1>3. TypeOK'
  BY <1>2 DEF IInv, TypeOK, ReceiveExpected, sndVars, ccVars
<1>4. BufferInv'
  BY <1>2 DEF IInv, BufferInv, BufferIsEarly, ReceiveExpected, TypeOK, Offsets
<1>5. EofInv'
  BY <1>2 DEF IInv, EofInv, ReceiveExpected, sndVars
<1> QED BY <1>2, <1>3, <1>4, <1>5 DEF IInv

\* An early packet joins the list (lines 130-133).
LEMMA ReceiveEarlyInv ==
  ASSUME IInv, NEW pkt \in dataNet, ReceiveEarly(pkt),
         UNCHANGED <<sndVars, ccVars>>
  PROVE  IInv'
<1>1. /\ Receive(pkt) /\ pkt.data_size # 0
      /\ packets' = Added(packets, pkt)
      /\ UNCHANGED <<expec_seqno, fp, ackNet>>
  BY DEF ReceiveEarly
<1>2. /\ PacketsInv' /\ CountersInv' /\ WindowContiguous' /\ WaitInv'
      /\ PrefixDelivered'
      /\ packets' \subseteq packets \cup {pkt}
      /\ packets' \subseteq Packet
      /\ dataNet' \subseteq dataNet
  BY <1>1, ListGrows
<1>3. TypeOK'
  BY <1>2 DEF IInv, TypeOK, ReceiveEarly, sndVars, ccVars
<1>4. BufferInv'
  <2>1. pkt.seqno \in Int /\ expec_seqno \in Int
    BY DEF IInv, TypeOK, Packet, Offsets
  <2> QED BY <1>2, <2>1 DEF IInv, BufferInv, BufferIsEarly, ReceiveEarly
<1>5. EofInv'
  BY <1>2 DEF IInv, EofInv, ReceiveEarly, sndVars
<1> QED BY <1>2, <1>3, <1>4, <1>5 DEF IInv

\* A packet of the past is acknowledged again (lines 127-129 and 135-142).
LEMMA ReceiveDuplicateInv ==
  ASSUME IInv, NEW pkt \in dataNet, ReceiveDuplicate(pkt),
         UNCHANGED <<sndVars, ccVars>>
  PROVE  IInv'
<1> USE DEF IInv, sndVars, ccVars, rcvVars, ReceiveDuplicate
<1>1. dataNet' \subseteq dataNet
  BY ReceivedShape
<1>2. WindowStart' = WindowStart
  BY DEF WindowStart
<1>3. TypeOK' /\ PacketsInv'
  BY <1>1 DEF TypeOK, PacketsInv
<1>4. WindowContiguous' /\ PrefixDelivered'
  BY DEF WindowContiguous, PrefixDelivered
<1>5. CountersInv' /\ WaitInv'
  <2>1. expec_seqno <= expec_seqno /\ expec_seqno \in Boundaries
    BY DEF TypeOK, Offsets, CountersInv
  <2>2. CountersInv'
    BY <1>2, <2>1 DEF CountersInv
  <2>3. WaitInv'
    BY <1>2 DEF WaitInv
  <2> QED BY <2>2, <2>3
<1>6. BufferInv' /\ EofInv'
  BY <1>1 DEF BufferInv, BufferIsEarly, EofInv
<1> QED BY <1>3, <1>4, <1>5, <1>6

\* The head is written and removed (lines 221-234).
LEMMA WriteHeadInv ==
  ASSUME IInv, WriteHead, UNCHANGED <<sndVars, ccVars>>
  PROVE  IInv'
<1> USE DEF sndVars, ccVars, netVars
<1>1. PICK head \in packets :
        /\ head.seqno = expec_seqno
        /\ fp' = Written(head)
        /\ expec_seqno' = EndOf(head)
        /\ packets' = packets \ {head}
  BY DEF WriteHead
<1>2. head \in Segments
  BY DEF IInv, PacketsInv
<1>3. /\ head.data = head.seqno
      /\ head.seqno < EndOf(head)
      /\ EndOf(head) <= FileLen
      /\ EndOf(head) \in Offsets
      /\ EndOf(head) \in Boundaries
      /\ EndOf(head) <= next_seqno
      /\ expec_seqno \in Offsets
      /\ EndOf(head) \in Int /\ expec_seqno \in Int
  BY <1>2, SegmentShape, SegmentEnds, BoundaryType
     DEF IInv, PacketsInv, TypeOK, Offsets
<1>4. PrefixDelivered'
  <2> SUFFICES ASSUME NEW i \in Bytes
               PROVE  (IF head.seqno <= i /\ i < EndOf(head)
                       THEN head.data + (i - head.seqno) ELSE fp[i])
                      = (IF i < EndOf(head) THEN i ELSE NoByte)
    BY <1>1 DEF PrefixDelivered, Written
  <2>1. fp[i] = IF i < expec_seqno THEN i ELSE NoByte
    BY DEF IInv, PrefixDelivered
  <2>2. i \in Int
    BY DEF Bytes
  <2>3. head.data + (i - head.seqno) = i
    BY <1>1, <1>3, <2>2
  <2>4. CASE i < expec_seqno
    BY <1>1, <1>3, <2>1, <2>2, <2>4
  <2>5. CASE expec_seqno <= i /\ i < EndOf(head)
    BY <1>1, <2>3, <2>5
  <2>6. CASE EndOf(head) <= i
    <3>1. ~(i < EndOf(head)) /\ ~(i < expec_seqno)
      BY <1>1, <1>3, <2>2, <2>6
    <3> QED BY <2>1, <3>1
  <2> QED BY <1>3, <2>2, <2>4, <2>5, <2>6
<1>5. TypeOK'
  <2>1. fp' \in [Bytes -> Bytes \cup {NoByte}]
    BY <1>4 DEF PrefixDelivered
  <2> QED BY <1>1, <1>3, <2>1 DEF IInv, TypeOK, WriteHead
<1>6. PacketsInv'
  BY <1>1 DEF IInv, PacketsInv, WriteHead
<1>7. WindowStart' = WindowStart
  BY DEF WindowStart
<1>8. CountersInv' /\ WaitInv'
  <2>1. WindowStart \in Int
    <3>1. CASE sliding_window = << >>
      BY <3>1 DEF IInv, WindowStart, TypeOK, Offsets
    <3>2. CASE sliding_window # << >>
      <4>1. Head(sliding_window) = sliding_window[1]
            /\ Len(sliding_window) \in Nat \ {0}
        BY <3>2, WindowHead DEF IInv
      <4>2. Head(sliding_window).p \in Segments
        BY <4>1 DEF IInv, PacketsInv
      <4> QED BY <3>2, <4>2, SegmentShape DEF WindowStart, Bytes
    <3> QED BY <3>1, <3>2
  <2>2. CountersInv'
    <3>1. expec_seqno < expec_seqno'
      BY <1>1, <1>3
    <3>2. /\ next_seqno' = next_seqno /\ ackNet' = ackNet
          /\ recv_ackno' = recv_ackno /\ fpos' = fpos
      BY DEF WriteHead
    <3>3. \A a \in ackNet \cup {recv_ackno, WindowStart} : a <= expec_seqno'
      <4>1. \A a \in ackNet \cup {recv_ackno, WindowStart} :
              a \in Int /\ a <= expec_seqno
        BY <2>1 DEF IInv, CountersInv, TypeOK, Offsets
      <4>2. expec_seqno' \in Int
        BY <1>1, <1>3
      <4> QED BY <1>3, <3>1, <4>1, <4>2
    <3>4. expec_seqno' \in Boundaries /\ expec_seqno' <= next_seqno
      BY <1>1, <1>3
    <3> QED BY <1>7, <3>2, <3>3, <3>4 DEF IInv, CountersInv
  <2>3. WaitInv'
    BY <1>7 DEF IInv, WaitInv
  <2> QED BY <2>2, <2>3
<1>9. WindowContiguous'
  BY DEF IInv, WindowContiguous
<1>10. BufferInv'
  <2> SUFFICES ASSUME NEW p \in packets, p # head
               PROVE  p.seqno >= EndOf(head)
    BY <1>1 DEF BufferInv, BufferIsEarly, WriteHead
  <2>1. p \in Segments /\ p.seqno \in Int
    BY SegmentShape DEF IInv, PacketsInv, Bytes
  <2>2. p.seqno >= head.seqno
    BY <1>1 DEF IInv, BufferInv
  <2>3. p.seqno # head.seqno
    BY <1>2, <2>1, SegmentsApart
  <2>4. head.seqno < p.seqno
    BY <1>1, <1>3, <2>1, <2>2, <2>3
  <2> QED BY <1>2, <1>3, <2>1, <2>4, SegmentsApart
<1>11. EofInv'
  BY DEF IInv, EofInv, WriteHead
<1> QED BY <1>4, <1>5, <1>6, <1>8, <1>9, <1>10, <1>11 DEF IInv

\* Everything contiguous is written and acknowledged (lines 224 and 135-142).
LEMMA AcknowledgeInv ==
  ASSUME IInv, Acknowledge, UNCHANGED <<sndVars, ccVars>>
  PROVE  IInv'
<1> USE DEF IInv, sndVars, ccVars, Acknowledge
<1>1. WindowStart' = WindowStart
  BY DEF WindowStart
<1>2. \A p \in packets : p.seqno > expec_seqno
  <2> SUFFICES ASSUME NEW p \in packets, ~(p.seqno > expec_seqno)
               PROVE  FALSE
    OBVIOUS
  <2>1. \A q \in packets : q.seqno \in Int /\ q.seqno >= expec_seqno
    BY DEF TypeOK, Packet, Offsets, BufferInv
  <2>2. expec_seqno \in Int
    BY DEF TypeOK, Offsets
  <2>3. p.seqno = expec_seqno
    BY <2>1, <2>2
  <2>4. IsHead(p)
    BY <2>1, <2>3 DEF IsHead
  <2> QED BY <2>3, <2>4
<1>3. TypeOK' /\ PacketsInv'
  BY DEF TypeOK, PacketsInv
<1>4. WindowContiguous' /\ PrefixDelivered'
  BY DEF WindowContiguous, PrefixDelivered
<1>5. CountersInv' /\ WaitInv'
  <2>1. expec_seqno <= expec_seqno /\ expec_seqno \in Boundaries
    BY DEF TypeOK, Offsets, CountersInv
  <2>2. CountersInv'
    BY <1>1, <2>1 DEF CountersInv
  <2>3. WaitInv'
    BY <1>1 DEF WaitInv
  <2> QED BY <2>2, <2>3
<1>6. BufferInv' /\ EofInv'
  BY <1>2 DEF BufferInv, BufferIsEarly, EofInv
<1> QED BY <1>3, <1>4, <1>5, <1>6

\* The path loses a datagram.
LEMMA NetworkInv ==
  ASSUME IInv, NetworkStep
  PROVE  IInv'
<1> USE DEF IInv, sndVars, ccVars, rcvVars, NetworkStep, LoseData, LoseAck
<1>1. dataNet' \subseteq dataNet /\ ackNet' \subseteq ackNet
  OBVIOUS
<1>2. WindowStart' = WindowStart
  BY DEF WindowStart
<1>3. TypeOK' /\ PacketsInv'
  BY <1>1 DEF TypeOK, PacketsInv
<1>4. WindowContiguous' /\ PrefixDelivered'
  BY DEF WindowContiguous, PrefixDelivered
<1>5. CountersInv' /\ WaitInv'
  BY <1>1, <1>2 DEF CountersInv, WaitInv
<1>6. BufferInv' /\ EofInv'
  BY <1>1 DEF BufferInv, BufferIsEarly, EofInv
<1> QED BY <1>3, <1>4, <1>5, <1>6

\* A step that changes nothing keeps the invariant.
LEMMA StutterInv ==
  ASSUME IInv, UNCHANGED vars
  PROVE  IInv'
<1> USE DEF IInv, vars, netVars, sndVars, ccVars, rcvVars
<1>1. WindowStart' = WindowStart
  BY DEF WindowStart
<1>2. TypeOK' /\ PacketsInv'
  BY DEF TypeOK, PacketsInv
<1>3. WindowContiguous' /\ PrefixDelivered'
  BY DEF WindowContiguous, PrefixDelivered
<1>4. CountersInv' /\ WaitInv'
  BY <1>1 DEF CountersInv, WaitInv
<1>5. BufferInv' /\ EofInv'
  BY DEF BufferInv, BufferIsEarly, EofInv
<1> QED BY <1>2, <1>3, <1>4, <1>5

\* Every step of the sender, of the receiver and of the path keeps the invariant.
LEMMA NextInv == IInv /\ [Next]_vars => IInv'
<1> SUFFICES ASSUME IInv, [Next]_vars PROVE IInv'
  OBVIOUS
<1>1. CASE SenderStep
  <2>1. SenderNext /\ UNCHANGED rcvVars
    BY <1>1 DEF SenderStep
  <2>2. CASE SendSegment
    BY <2>1, <2>2, SendSegmentInv
  <2>3. CASE ReadEof
    BY <2>1, <2>3, ReadEofInv
  <2>4. CASE SendEof
    BY <2>1, <2>4, SendEofInv
  <2>5. CASE StartWait
    BY <2>1, <2>5, StartWaitInv
  <2>6. CASE \E a \in ackNet : IgnoreAck(a) \/ AcceptAck(a)
    BY <2>1, <2>6, IgnoreAckInv, AcceptAckInv
  <2>7. CASE SlideHead
    BY <2>1, <2>7, SlideHeadInv
  <2>8. CASE SlideDone
    BY <2>1, <2>8, SlideDoneInv
  <2>9. CASE AlarmHandled
    BY <2>1, <2>9, AlarmHandledInv
  <2>10. CASE AlarmPends
    BY <2>1, <2>10, AlarmPendsInv
  <2> QED BY <2>1, <2>2, <2>3, <2>4, <2>5, <2>6, <2>7, <2>8, <2>9, <2>10
          DEF SenderNext
<1>2. CASE ReceiverStep
  <2>1. ReceiverNext /\ UNCHANGED <<sndVars, ccVars>>
    BY <1>2 DEF ReceiverStep
  <2>2. CASE \E pkt \in dataNet : ReceiveEof(pkt) \/ ReceiveExpected(pkt)
    BY <2>1, <2>2, ReceiveEofInv, ReceiveExpectedInv
  <2>3. CASE \E pkt \in dataNet : ReceiveDuplicate(pkt) \/ ReceiveEarly(pkt)
    BY <2>1, <2>3, ReceiveDuplicateInv, ReceiveEarlyInv
  <2>4. CASE WriteHead
    BY <2>1, <2>4, WriteHeadInv
  <2>5. CASE Acknowledge
    BY <2>1, <2>5, AcknowledgeInv
  <2> QED BY <2>1, <2>2, <2>3, <2>4, <2>5 DEF ReceiverNext
<1>3. CASE NetworkStep
  BY <1>3, NetworkInv
<1>4. CASE Exited
  BY <1>4, StutterInv DEF Exited
<1>5. CASE UNCHANGED vars
  BY <1>5, StutterInv
<1> QED BY <1>1, <1>2, <1>3, <1>4, <1>5 DEF Next

\* IInv holds in every state of every behaviour, whatever the length of the
\* file and the size of the packets.
THEOREM Invariance == Spec => []IInv
<1>1. Init => IInv
  BY InitInv
<1>2. IInv /\ [Next]_vars => IInv'
  BY NextInv
<1> QED BY <1>1, <1>2, PTL DEF Spec

------------------------------------------------------------------------------
(* The safety properties.                                                  *)

\* Every variable keeps the type of the C object it stands for; the window in
\* particular never falls below one packet.
THEOREM TypeCorrect == Spec => []TypeOK
<1>1. IInv => TypeOK
  BY DEF IInv
<1> QED BY <1>1, Invariance, PTL

\* The received file is always a prefix of the source file, byte for byte,
\* although datagrams are lost, duplicated and reordered.
THEOREM PrefixCorrect == Spec => []PrefixDelivered
<1>1. IInv => PrefixDelivered
  BY DEF IInv
<1> QED BY <1>1, Invariance, PTL

\* Neither program reaches its end before the whole file is delivered.
THEOREM NoTruncation == Spec => []EofAfterDelivery
<1>1. IInv => EofAfterDelivery
  <2> SUFFICES ASSUME IInv, spc = "done" PROVE expec_seqno = FileLen
    BY DEF IInv, EofInv, EofAfterDelivery
  <2>1. WindowStart = FileLen
    BY DEF IInv, EofInv, CountersInv, WindowStart
  <2>2. FileLen <= expec_seqno
    BY <2>1 DEF IInv, CountersInv
  <2> QED BY <2>2, FileAssumption DEF IInv, TypeOK, Offsets
<1> QED BY <1>1, Invariance, PTL

\* The sender forgets nothing it might have to send again.
THEOREM NothingForgotten == Spec => []ForgottenIsDelivered
<1>1. IInv => ForgottenIsDelivered
  BY DEF IInv, CountersInv, ForgottenIsDelivered
<1> QED BY <1>1, Invariance, PTL

\* write_to_file leaves nothing behind that it could have written, and nothing
\* that blocks it for ever.
THEOREM BufferCorrect == Spec => []BufferIsEarly
<1>1. IInv => BufferIsEarly
  BY DEF IInv, BufferInv
<1> QED BY <1>1, Invariance, PTL

\* get_head is never called on an empty list.
THEOREM HeadCorrect == Spec => []HeadExists
<1>1. IInv => HeadExists
  <2> SUFFICES ASSUME IInv PROVE HeadExists
    OBVIOUS
  <2>1. spc = "wait" => sliding_window # << >>
    BY DEF IInv, WaitInv
  <2>2. ASSUME sliding_window = << >> PROVE WindowOpen
    <3>1. Len(sliding_window) = 0
      BY <2>2
    <3>2. Len(sliding_window) * One = 0
      BY <3>1, OneType
    <3> QED BY <3>2, OneType DEF WindowOpen, IInv, TypeOK
  <2> QED BY <2>1, <2>2 DEF HeadExists
<1> QED BY <1>1, Invariance, PTL

\* Each wait of the sender is for more of the file than the one before.
THEOREM WaitsCorrect == Spec => WaitsAdvance
<1>1. IInv /\ [Next]_vars
        => [spc = "fill" /\ spc' = "wait" => expected_ack' > expected_ack]_vars
  <2> SUFFICES ASSUME IInv, Next, spc = "fill", spc' = "wait"
               PROVE  expected_ack' > expected_ack
    OBVIOUS
  <2>1. StartWait
    <3>1. SenderStep
      BY DEF Next, ReceiverStep, NetworkStep, Exited, sndVars, vars
    <3> QED BY <3>1 DEF SenderStep, SenderNext, SendSegment, ReadEof, SendEof,
                        IgnoreAck, AcceptAck, SlideHead, SlideDone, AlarmHandled,
                        AlarmPends
  <2>2. sliding_window # << >> /\ expected_ack' = EndOf(Head(sliding_window).p)
    BY <2>1 DEF StartWait
  <2>3. Head(sliding_window) = sliding_window[1]
        /\ Len(sliding_window) \in Nat \ {0}
    BY <2>2, WindowHead DEF IInv
  <2>4. Head(sliding_window).p \in Segments
    BY <2>3 DEF IInv, PacketsInv
  <2>5. /\ Head(sliding_window).p.seqno < expected_ack'
        /\ Head(sliding_window).p.seqno \in Int
        /\ expected_ack' \in Int
    BY <2>2, <2>4, SegmentShape DEF Bytes
  <2>6. expected_ack <= Head(sliding_window).p.seqno /\ expected_ack \in Int
    BY <2>2 DEF IInv, WaitInv, WindowStart, TypeOK, Offsets
  <2> QED BY <2>5, <2>6
<1> QED BY <1>1, Invariance, PTL DEF Spec, WaitsAdvance

------------------------------------------------------------------------------
(* The two programs implement ReliableTransfer.                            *)

\* The received bytes are the first expec_seqno bytes of the file.
OutputInv ==
  /\ Output = SubSeq(RT!File, 1, expec_seqno)
  /\ Len(Output) = expec_seqno
  /\ expec_seqno \in 0 .. FileLen
  /\ expec_seqno = FileLen => Output = RT!File

\* What has been written is what the abstract specification may have output.
LEMMA OutputShape == IInv => OutputInv
<1> SUFFICES ASSUME IInv PROVE OutputInv
  OBVIOUS
<1>1. expec_seqno \in 0 .. FileLen
  BY DEF IInv, TypeOK, Offsets
<1>2. Output = [i \in 1 .. expec_seqno |-> i - 1]
  <2> SUFFICES ASSUME NEW i \in 1 .. expec_seqno PROVE fp[i - 1] = i - 1
    BY DEF Output
  <2>1. i - 1 \in Bytes /\ i - 1 < expec_seqno
    BY <1>1, FileAssumption DEF Bytes
  <2> QED BY <2>1 DEF IInv, PrefixDelivered
<1>3. RT!File = [i \in 1 .. FileLen |-> i - 1]
  BY DEF RT!File
<1>4. SubSeq(RT!File, 1, expec_seqno) = [i \in 1 .. expec_seqno |-> i - 1]
  <2>1. SubSeq(RT!File, 1, expec_seqno)
          = [i \in 1 .. expec_seqno |-> RT!File[i]]
    BY <1>1, <1>3, FileAssumption
  <2>2. \A i \in 1 .. expec_seqno : RT!File[i] = i - 1
    BY <1>1, <1>3, FileAssumption
  <2> QED BY <2>1, <2>2
<1>5. Len(Output) = expec_seqno
  BY <1>1, <1>2
<1> QED BY <1>1, <1>2, <1>3, <1>4, <1>5 DEF OutputInv

\* Both programs start with nothing delivered.
LEMMA RefinementInit == Init => RT!Init
<1> SUFFICES ASSUME Init PROVE RT!Init
  OBVIOUS
<1>1. Output = << >>
  BY DEF Init, ReceiverInit, Output
<1>2. spc = "fill" /\ rpc = "recv"
  BY DEF Init, SenderInit, ReceiverInit
<1> QED BY <1>1, <1>2 DEF RT!Init

\* A step that keeps the received bytes and both ends is a stutter.
LEMMA MappedStutter ==
  ASSUME UNCHANGED <<fp, expec_seqno>>,
         spc' = "done" <=> spc = "done", rpc' = "closed" <=> rpc = "closed"
  PROVE  UNCHANGED RT!vars
<1>1. Output' = Output
  BY DEF Output
<1> QED BY <1>1 DEF RT!vars

\* Every step delivers more of the file, ends one of the programs, or changes
\* nothing that the abstract specification sees.
LEMMA RefinementStep == IInv /\ [Next]_vars => [RT!Next]_RT!vars
<1> SUFFICES ASSUME IInv, [Next]_vars PROVE [RT!Next]_RT!vars
  OBVIOUS
<1> USE DEF sndVars, rcvVars, ccVars, netVars
<1>1. CASE SendEof /\ UNCHANGED rcvVars
  <2>1. spc = "fill" /\ spc' = "done" /\ sliding_window = << >> /\ eof_flag
    BY <1>1 DEF SendEof
  <2>2. expec_seqno = FileLen
    <3>1. WindowStart = FileLen
      BY <2>1 DEF IInv, EofInv, CountersInv, WindowStart
    <3> QED BY <3>1, FileAssumption DEF IInv, CountersInv, TypeOK, Offsets
  <2>3. Output = RT!File /\ Output' = Output
    BY <1>1, <2>2, OutputShape DEF Output, OutputInv
  <2>4. RT!Finish
    BY <1>1, <2>1, <2>3 DEF RT!Finish
  <2> QED BY <2>4 DEF RT!Next
<1>2. CASE WriteHead /\ UNCHANGED <<sndVars, ccVars>>
  <2>1. IInv'
    BY <1>2, WriteHeadInv
  <2>2. PICK head \in packets : head.seqno = expec_seqno
                                /\ expec_seqno' = EndOf(head)
    BY <1>2 DEF WriteHead
  <2>3. expec_seqno < expec_seqno'
    BY <2>2, SegmentShape DEF IInv, PacketsInv
  <2>4. Output' = SubSeq(RT!File, 1, expec_seqno') /\ expec_seqno' \in 0 .. FileLen
    <3>1. OutputInv'
      BY <2>1, OutputShape, PTL
    <3> QED BY <3>1 DEF OutputInv, RT!File
  <2>5. expec_seqno' \in Len(Output) + 1 .. FileLen
    BY <2>3, <2>4, OutputShape DEF OutputInv
  <2>6. rpc = "write" /\ rpc' = rpc /\ spc' = spc
    BY <1>2 DEF WriteHead
  <2>7. RT!Deliver
    BY <2>4, <2>5, <2>6 DEF RT!Deliver
  <2> QED BY <2>7 DEF RT!Next
<1>3. CASE \E pkt \in dataNet : ReceiveEof(pkt) /\ UNCHANGED <<sndVars, ccVars>>
  <2>1. EofPacket \in dataNet /\ rpc = "recv" /\ rpc' = "closed" /\ spc' = spc
        /\ UNCHANGED <<fp, expec_seqno>>
    BY <1>3, ReceivedShape DEF ReceiveEof, Receive
  <2>2. spc = "done"
    BY <2>1 DEF IInv, EofInv
  <2>3. Output' = Output
    BY <2>1 DEF Output
  <2>4. RT!Close
    BY <2>1, <2>2, <2>3 DEF RT!Close
  <2> QED BY <2>4 DEF RT!Next
<1>4. CASE SenderStep /\ ~SendEof
  <2>1. UNCHANGED <<fp, expec_seqno, rpc>>
    BY <1>4 DEF SenderStep
  <2>2. spc # "done" /\ spc' # "done"
    BY <1>4 DEF SenderStep, SenderNext, SendSegment, ReadEof, StartWait,
                IgnoreAck, AcceptAck, SlideHead, SlideDone, AlarmHandled,
                AlarmPends
  <2> QED BY <2>1, <2>2, MappedStutter
<1>5. CASE ReceiverStep /\ ~WriteHead /\ ~\E pkt \in dataNet : ReceiveEof(pkt)
  <2>1. UNCHANGED spc
    BY <1>5 DEF ReceiverStep
  <2>2. UNCHANGED <<fp, expec_seqno>> /\ rpc # "closed" /\ rpc' # "closed"
    BY <1>5 DEF ReceiverStep, ReceiverNext, ReceiveExpected, ReceiveDuplicate,
                ReceiveEarly, Acknowledge, Receive
  <2> QED BY <2>1, <2>2, MappedStutter
<1>6. CASE NetworkStep \/ Exited \/ UNCHANGED vars
  <2>1. UNCHANGED <<fp, expec_seqno, spc, rpc>>
    BY <1>6 DEF NetworkStep, Exited, vars
  <2> QED BY <2>1, MappedStutter
<1> QED BY <1>1, <1>2, <1>3, <1>4, <1>5, <1>6
        DEF Next, SenderStep, ReceiverStep

\* rdt_sender and rdt_receiver over a path that loses, duplicates and reorders
\* datagrams implement a reliable transfer of the file.
THEOREM Implements == Spec => Refinement
<1>1. Init => RT!Init
  BY RefinementInit
<1>2. IInv /\ [Next]_vars => [RT!Next]_RT!vars
  BY RefinementStep
<1> QED BY <1>1, <1>2, Invariance, PTL DEF Spec, Refinement, RT!Spec

==============================================================================
