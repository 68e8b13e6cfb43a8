-------------------------- MODULE RdtHistoryProofs ---------------------------
(***************************************************************************)
(* The proof that round-trip times are sampled from packets that were sent *)
(* once, for every file length and every packet size.                      *)
(***************************************************************************)
EXTENDS RdtHistory, RdtProofs

\* The inductive invariant.
HistoryInv == IInv /\ SampleInv

\* Where the packets of the window start.
LEMMA WindowSeqno ==
  ASSUME IInv, NEW i \in 1 .. Len(sliding_window)
  PROVE  /\ sliding_window[i].p.seqno \in Offsets
         /\ sliding_window[i].p.seqno < next_seqno
         /\ sliding_window[i].p.seqno \in Int
<1>1. sliding_window[i].p \in Segments /\ EndOf(sliding_window[i].p) <= next_seqno
  BY DEF IInv, PacketsInv
<1> DEFINE p == sliding_window[i].p
<1> HIDE DEF p
<1>2. p \in Segments /\ EndOf(p) <= next_seqno
  BY <1>1 DEF p
<1>3. p \in Packet /\ p.seqno < EndOf(p) /\ EndOf(p) \in Int
  BY <1>2, SegmentShape
<1>4. p.seqno \in Offsets
  BY <1>3 DEF Packet
<1>5. p.seqno \in Int /\ next_seqno \in Int
  BY <1>4 DEF Offsets, IInv, TypeOK
<1> QED BY <1>2, <1>3, <1>4, <1>5 DEF p

\* The handler marks the head and leaves the rest of the window.
LEMMA HeadMarked ==
  ASSUME IInv, HandleAlarm, sliding_window # << >>
  PROVE  /\ Len(sliding_window') = Len(sliding_window)
         /\ Len(sliding_window) \in Nat \ {0}
         /\ Head(sliding_window) = sliding_window[1]
         /\ sliding_window'[1].is_resend
         /\ \A i \in 1 .. Len(sliding_window) :
              /\ sliding_window'[i].p = sliding_window[i].p
              /\ i # 1 => sliding_window'[i] = sliding_window[i]
<1>1. /\ Head(sliding_window) = sliding_window[1]
      /\ Len(sliding_window) \in Nat \ {0}
      /\ sliding_window \in Seq(Node)
  BY WindowHead DEF IInv, TypeOK
<1> DEFINE marked == [sliding_window[1] EXCEPT !.is_resend = TRUE]
<1>2. sliding_window' = [sliding_window EXCEPT ![1] = marked]
  BY DEF HandleAlarm, SendHead
<1>3. /\ marked \in Node
      /\ marked.is_resend = TRUE
  <2>1. sliding_window[1] \in Node
    BY <1>1
  <2> QED BY <2>1 DEF Node
<1> HIDE DEF marked
<1>4. 1 \in 1 .. Len(sliding_window)
  BY <1>1
<1>5. \A i \in 1 .. Len(sliding_window) :
        sliding_window'[i] = IF i = 1 THEN marked ELSE sliding_window[i]
  BY <1>1, <1>2, <1>3, <1>4, ExceptSeq
<1>6. sliding_window'[1].is_resend
  BY <1>3, <1>4, <1>5
<1>7. /\ Len(sliding_window') = Len(sliding_window)
      /\ \A i \in 1 .. Len(sliding_window) :
           sliding_window'[i].p = sliding_window[i].p
  BY HandleAlarmEffect
<1> QED BY <1>1, <1>5, <1>6, <1>7

\* The first sending of a packet (line 141).
LEMMA FirstSendKeeps ==
  ASSUME HistoryInv, SendSegment, RecordSends
  PROVE  SampleInv'
<1> USE DEF HistoryInv, SampleInv
<1> DEFINE pkt == [seqno |-> next_seqno, data_size |-> ReadLen, data |-> fpos]
           node == [p |-> pkt, is_resend |-> FALSE]
           n == Len(sliding_window)
<1>1. /\ sliding_window \in Seq(Node) /\ n \in Nat
      /\ next_seqno \in Offsets /\ next_seqno \in Int
  BY DEF IInv, TypeOK, Offsets
<1>2. next_seqno' # next_seqno
  <2>1. ReadLen \in Int /\ ReadLen > 0
    BY FileAssumption DEF SendSegment, ReadLen, IInv, TypeOK, Offsets
  <2> QED BY <1>1, <2>1 DEF SendSegment
<1>3. ~AlarmRuns
  BY DEF AlarmRuns, AlarmHandled, StartWait, SendSegment
<1>4. tx' = [tx EXCEPT ![next_seqno] = 1]
  BY <1>2, <1>3 DEF RecordSends
<1>5. sliding_window' = Append(sliding_window, node)
  BY DEF SendSegment
<1>6. node.p.seqno = next_seqno
  OBVIOUS
<1> HIDE DEF node
<1>7. /\ Len(sliding_window') = n + 1
      /\ \A i \in 1 .. n : sliding_window'[i] = sliding_window[i]
      /\ sliding_window'[n + 1] = node
  BY <1>1, <1>5
<1>8. \A i \in 1 .. n : /\ sliding_window[i].p.seqno \in Offsets
                        /\ sliding_window[i].p.seqno < next_seqno
                        /\ sliding_window[i].p.seqno \in Int
  BY WindowSeqno
<1>9. tx' \in [Offsets -> {0, 1, 2}]
  BY <1>1, <1>4
<1>10. \A i, j \in 1 .. n + 1 :
         i < j => sliding_window'[i].p.seqno < sliding_window'[j].p.seqno
  <2> SUFFICES ASSUME NEW i \in 1 .. n + 1, NEW j \in 1 .. n + 1, i < j
               PROVE  sliding_window'[i].p.seqno < sliding_window'[j].p.seqno
    OBVIOUS
  <2>1. i \in 1 .. n
    BY <1>1
  <2>2. CASE j = n + 1
    BY <1>6, <1>7, <1>8, <2>1, <2>2
  <2>3. CASE j \in 1 .. n
    BY <1>7, <2>1, <2>3
  <2>4. j = n + 1 \/ j \in 1 .. n
    <3>1. n \in Nat /\ j \in 1 .. n + 1
      BY <1>1
    <3> HIDE DEF n, HistoryInv, SampleInv
    <3> QED BY <3>1
  <2> QED BY <2>2, <2>3, <2>4
<1>11. \A i \in 1 .. n + 1 :
         ~sliding_window'[i].is_resend => tx'[sliding_window'[i].p.seqno] = 1
  <2> SUFFICES ASSUME NEW i \in 1 .. n + 1, ~sliding_window'[i].is_resend
               PROVE  tx'[sliding_window'[i].p.seqno] = 1
    OBVIOUS
  <2>1. CASE i = n + 1
    BY <1>1, <1>4, <1>6, <1>7, <2>1
  <2>2. CASE i \in 1 .. n
    <3>1. tx[sliding_window[i].p.seqno] = 1 /\ sliding_window[i].p.seqno # next_seqno
      BY <1>1, <1>7, <1>8, <2>2
    <3> QED BY <1>4, <1>7, <1>8, <2>2, <3>1
  <2> QED BY <1>1, <2>1, <2>2
<1> QED BY <1>7, <1>9, <1>10, <1>11

\* A packet that is sent again (line 288) is marked.
LEMMA AlarmKeeps ==
  ASSUME HistoryInv, AlarmRuns, RecordSends
  PROVE  SampleInv'
<1> USE DEF HistoryInv, SampleInv
<1>1. HandleAlarm /\ sliding_window # << >> /\ next_seqno' = next_seqno
  BY DEF AlarmRuns, AlarmHandled, StartWait, IInv, WaitInv
<1>2. tx' = [tx EXCEPT ![HeadSeqno] = 2]
  BY <1>1 DEF RecordSends
<1> DEFINE n == Len(sliding_window)
<1>3. /\ Len(sliding_window') = n /\ n \in Nat \ {0}
      /\ sliding_window'[1].is_resend
      /\ \A i \in 1 .. n : /\ sliding_window'[i].p = sliding_window[i].p
                           /\ i # 1 => sliding_window'[i] = sliding_window[i]
      /\ HeadSeqno = sliding_window[1].p.seqno
  BY <1>1, HeadMarked DEF HeadSeqno
<1>4. \A i \in 1 .. n : /\ sliding_window[i].p.seqno \in Offsets
                        /\ sliding_window[i].p.seqno \in Int
  BY WindowSeqno
<1>5. tx' \in [Offsets -> {0, 1, 2}]
  BY <1>2
<1>6. \A i, j \in 1 .. n :
        i < j => sliding_window'[i].p.seqno < sliding_window'[j].p.seqno
  BY <1>3
<1>7. ASSUME NEW i \in 1 .. n, ~sliding_window'[i].is_resend
      PROVE  tx'[sliding_window'[i].p.seqno] = 1
  <2>1. i # 1 /\ sliding_window'[i] = sliding_window[i]
    BY <1>3, <1>7
  <2>2. 1 \in 1 .. n /\ 1 < i
    BY <1>3, <2>1
  <2>3. sliding_window[1].p.seqno < sliding_window[i].p.seqno
    BY <2>2
  <2>4. sliding_window[i].p.seqno # HeadSeqno
    BY <1>3, <1>4, <2>2, <2>3
  <2>5. tx[sliding_window[i].p.seqno] = 1
    BY <1>7, <2>1
  <2> QED BY <1>2, <1>4, <2>1, <2>4, <2>5
<1> QED BY <1>3, <1>5, <1>6, <1>7

\* A packet leaves the window (line 255).
LEMMA SlideKeeps ==
  ASSUME HistoryInv, SlideHead, tx' = tx
  PROVE  SampleInv'
<1> USE DEF HistoryInv, SampleInv
<1> DEFINE n == Len(sliding_window)
<1>1. /\ sliding_window \in Seq(Node) /\ sliding_window # << >>
      /\ sliding_window' = Tail(sliding_window)
  BY DEF IInv, TypeOK, SlideHead, HeadAcked
<1>2. n \in Nat \ {0}
  BY <1>1
<1>3. /\ Len(sliding_window') = n - 1
      /\ \A i \in 1 .. n - 1 : sliding_window'[i] = sliding_window[i + 1]
  BY <1>1, <1>2
<1>4. \A i \in 1 .. n - 1 : i + 1 \in 1 .. n
  BY <1>2
<1>5. \A i, j \in 1 .. n - 1 :
        i < j => sliding_window'[i].p.seqno < sliding_window'[j].p.seqno
  <2> SUFFICES ASSUME NEW i \in 1 .. n - 1, NEW j \in 1 .. n - 1, i < j
               PROVE  sliding_window'[i].p.seqno < sliding_window'[j].p.seqno
    OBVIOUS
  <2>1. i + 1 \in 1 .. n /\ j + 1 \in 1 .. n /\ i + 1 < j + 1
    BY <1>2
  <2> QED BY <1>3, <2>1
<1>6. \A i \in 1 .. n - 1 :
        ~sliding_window'[i].is_resend => tx'[sliding_window'[i].p.seqno] = 1
  BY <1>3, <1>4
<1> QED BY <1>3, <1>5, <1>6

\* Every step of the programs and of the path.
LEMMA HistoryStep == HistoryInv /\ [HNext]_hvars => HistoryInv'
<1> SUFFICES ASSUME HistoryInv, [HNext]_hvars PROVE HistoryInv'
  OBVIOUS
<1>1. [Next]_vars
  BY DEF HNext, hvars
<1>2. IInv'
  BY <1>1, NextInv DEF HistoryInv
<1>3. CASE HNext /\ SendSegment
  BY <1>2, <1>3, FirstSendKeeps DEF HNext, HistoryInv
<1>4. CASE HNext /\ AlarmRuns
  BY <1>2, <1>4, AlarmKeeps DEF HNext, HistoryInv
<1>5. CASE HNext /\ ~SendSegment /\ ~AlarmRuns
  <2>1. next_seqno' = next_seqno
    BY <1>5 DEF HNext, Next, SenderStep, ReceiverStep, NetworkStep, Exited, SenderNext,
       ReadEof, SendEof, StartWait, IgnoreAck, AcceptAck, SlideHead, SlideDone,
       AlarmHandled, AlarmPends, sndVars, vars
  <2>2. tx' = tx
    BY <1>5, <2>1 DEF HNext, RecordSends
  <2>3. CASE SlideHead
    BY <1>2, <2>2, <2>3, SlideKeeps DEF HistoryInv
  <2>4. CASE ~SlideHead
    <3>1. sliding_window' = sliding_window
      BY <1>5, <2>4 DEF HNext, Next, SenderStep, ReceiverStep, NetworkStep, Exited,
         SenderNext, ReadEof, SendEof, StartWait, IgnoreAck, AcceptAck, SlideDone,
         AlarmRuns, AlarmPends, sndVars, vars
    <3> QED BY <1>2, <2>2, <3>1 DEF HistoryInv, SampleInv
  <2> QED BY <2>3, <2>4
<1>6. CASE UNCHANGED hvars
  BY <1>2, <1>6 DEF HistoryInv, SampleInv, hvars, histVars, vars, sndVars
<1> QED BY <1>2, <1>3, <1>4, <1>5, <1>6 DEF HistoryInv

THEOREM HistoryInvariance == HSpec => []HistoryInv
<1>1. HInit => HistoryInv
  <2> SUFFICES ASSUME HInit PROVE HistoryInv
    OBVIOUS
  <2>1. IInv
    BY InitInv DEF HInit
  <2>2. Len(sliding_window) = 0
    BY DEF HInit, Init, SenderInit
  <2>3. tx \in [Offsets -> {0, 1, 2}]
    BY DEF HInit
  <2>4. 1 .. Len(sliding_window) = {}
    BY <2>2
  <2> QED BY <2>1, <2>3, <2>4 DEF HistoryInv, SampleInv
<1> QED BY <1>1, HistoryStep, PTL DEF HSpec

\* No round-trip time is taken from a packet that was sent twice.
THEOREM SamplesCorrect == HSpec => SampleUnambiguous
<1>1. HistoryInv /\ [HNext]_hvars =>
        [SlideHead /\ ~Head(sliding_window).is_resend => tx[HeadSeqno] = 1]_hvars
  <2> SUFFICES ASSUME HistoryInv, SlideHead, ~Head(sliding_window).is_resend
               PROVE  tx[HeadSeqno] = 1
    OBVIOUS
  <2>1. /\ Head(sliding_window) = sliding_window[1]
        /\ Len(sliding_window) \in Nat \ {0}
    BY WindowHead DEF HistoryInv, IInv, SlideHead, HeadAcked
  <2>2. 1 \in 1 .. Len(sliding_window)
    BY <2>1
  <2> QED BY <2>1, <2>2 DEF HistoryInv, SampleInv, HeadSeqno
<1> QED BY <1>1, HistoryInvariance, PTL DEF HSpec, SampleUnambiguous
==============================================================================
