------------------------------ MODULE RdtSender ------------------------------
(***************************************************************************)
(* rdt_sender (project_1/code/rdt_sender.c): the main loop that fills the  *)
(* sliding window from the file, waits for a cumulative acknowledgement    *)
(* and slides the window, and the SIGALRM handler that interrupts it.      *)
(*                                                                         *)
(* spc is the place in the loop:                                           *)
(*   "fill"   the inner loop that reads and sends (lines 125-176);         *)
(*   "wait"   between start_timer and stop_timer (lines 181-218);          *)
(*   "slide"  the loop that removes acknowledged packets (lines 222-264);  *)
(*   "done"   after the loop: the process has returned.                    *)
(* SIGALRM is blocked everywhere but at "wait".  The interval timer is     *)
(* never stopped: an expiry while the signal is blocked leaves it pending. *)
(***************************************************************************)
EXTENDS RdtNetwork, CongestionControl, Sequences

VARIABLES spc,
          fpos,             \* position of the stream fp in the file
          eof_flag,
          next_seqno,
          sliding_window,   \* the nodes of the list, head first
          expected_ack,
          recv_ackno,       \* recvpkt->hdr.ackno when stop_timer is called
          armed,            \* setitimer has been called
          pending           \* a SIGALRM is waiting to be unblocked

sndVars == <<spc, fpos, eof_flag, next_seqno, sliding_window, expected_ack,
             recv_ackno, armed, pending>>

Node == [p : Packet, is_resend : BOOLEAN]

\* The number of bytes fread returns.
ReadLen == IF FileLen - fpos < DataSize THEN FileLen - fpos ELSE DataSize

\* Mutant: room for the packet is demanded after it has been added.
WindowOpenAfter == (Len(sliding_window) + 1) * One < window_size

\* The condition of the inner loop: sliding_window.size < window_size
WindowOpen == Len(sliding_window) * One < window_size

SenderInit ==
  /\ CCInit
  /\ spc = "fill"
  /\ fpos = 0
  /\ eof_flag = FALSE
  /\ next_seqno = 0
  /\ sliding_window = << >>
  /\ expected_ack = 0
  /\ recv_ackno = 0
  /\ armed = FALSE
  /\ pending = FALSE

\* Mutant: the packet that is sent again is not marked.
HandleAlarmUnmarked ==
  /\ WindowReset
  /\ UNCHANGED sliding_window
  /\ dataNet' = IF sliding_window = << >>
                THEN dataNet ELSE dataNet \cup {Head(sliding_window).p}

\* Mutant: the handler resets the window and sends nothing.
HandleAlarmSilent ==
  /\ WindowReset
  /\ UNCHANGED <<sliding_window, dataNet>>

\* send_packets for one packet that is sent again.
SendHead ==
  /\ sliding_window' = [sliding_window EXCEPT ![1].is_resend = TRUE]
  /\ dataNet' = dataNet \cup {Head(sliding_window).p}

\* resend_packets: the window is reset and the packet at the head is sent
\* again and marked.
HandleAlarm ==
  /\ WindowReset
  /\ IF sliding_window = << >>
     THEN UNCHANGED <<sliding_window, dataNet>>
     ELSE SendHead

------------------------------------------------------------------------------

\* One round of the inner loop: read, send, append to the window.
SendSegment ==
  /\ spc = "fill"
  /\ ~eof_flag
  /\ WindowOpen
  /\ ReadLen > 0
  /\ LET pkt == [seqno |-> next_seqno, data_size |-> ReadLen, data |-> fpos]
     IN  /\ dataNet' = dataNet \cup {pkt}
         /\ sliding_window' =
              Append(sliding_window, [p |-> pkt, is_resend |-> FALSE])
  /\ fpos' = fpos + ReadLen
  /\ next_seqno' = next_seqno + ReadLen
  /\ UNCHANGED <<spc, eof_flag, expected_ack, recv_ackno, armed, pending,
                 ackNet, ccVars>>

\* fread returns nothing: the inner loop is left for good.
ReadEof ==
  /\ spc = "fill"
  /\ ~eof_flag
  /\ WindowOpen
  /\ ReadLen = 0
  /\ eof_flag' = TRUE
  /\ UNCHANGED <<spc, fpos, next_seqno, sliding_window, expected_ack,
                 recv_ackno, armed, pending, netVars, ccVars>>

\* Mutant: the end is announced as soon as the file is read.
SendEofEarly ==
  /\ spc = "fill"
  /\ eof_flag
  /\ dataNet' = dataNet \cup {EofPacket}
  /\ spc' = "done"
  /\ UNCHANGED <<fpos, eof_flag, next_seqno, sliding_window, expected_ack,
                 recv_ackno, armed, pending, ackNet, ccVars>>

\* Everything is acknowledged: one packet without data ends the transfer.  It
\* joins the list, which is deleted when the process returns.
SendEof ==
  /\ spc = "fill"
  /\ eof_flag
  /\ sliding_window = << >>
  /\ dataNet' = dataNet \cup {EofPacket}
  /\ spc' = "done"
  /\ UNCHANGED <<fpos, eof_flag, next_seqno, sliding_window, expected_ack,
                 recv_ackno, armed, pending, ackNet, ccVars>>

\* The inner loop is over: get_head gives the packet to wait for, and
\* start_timer unblocks SIGALRM, which delivers a pending one, before it sets
\* the timer.
StartWait ==
  /\ spc = "fill"
  /\ eof_flag \/ ~WindowOpen
  /\ sliding_window # << >>
  /\ expected_ack' = EndOf(Head(sliding_window).p)
  /\ spc' = "wait"
  /\ armed' = TRUE
  /\ pending' = FALSE
  /\ IF pending THEN HandleAlarm
                ELSE UNCHANGED <<sliding_window, dataNet, ccVars>>
  /\ UNCHANGED <<fpos, eof_flag, next_seqno, recv_ackno, ackNet>>

\* recvfrom returns an acknowledgement that does not cover the head.
IgnoreAck(a) ==
  /\ spc = "wait"
  /\ a \in ackNet
  /\ a < expected_ack
  /\ ackNet' \in After(ackNet, a)
  /\ UNCHANGED <<sndVars, dataNet, ccVars>>

\* Mutant: any acknowledgement that is not below the head is taken.
AcceptAckOfHead(a) ==
  /\ spc = "wait"
  /\ a \in ackNet
  /\ a >= Head(sliding_window).p.seqno
  /\ ackNet' \in After(ackNet, a)
  /\ recv_ackno' = a
  /\ spc' = "slide"
  /\ UNCHANGED <<fpos, eof_flag, next_seqno, sliding_window, expected_ack,
                 armed, pending, dataNet, ccVars>>

\* recvfrom returns an acknowledgement that covers the head; stop_timer.
AcceptAck(a) ==
  /\ spc = "wait"
  /\ a \in ackNet
  /\ a >= expected_ack
  /\ ackNet' \in After(ackNet, a)
  /\ recv_ackno' = a
  /\ spc' = "slide"
  /\ UNCHANGED <<fpos, eof_flag, next_seqno, sliding_window, expected_ack,
                 armed, pending, dataNet, ccVars>>

\* Mutant: the packet the acknowledgement asks for is removed as well.
HeadAckedOrAsked ==
  /\ sliding_window # << >>
  /\ Head(sliding_window).p.seqno <= recv_ackno

\* sndpkt->hdr.seqno < recvpkt->hdr.ackno
HeadAcked ==
  /\ sliding_window # << >>
  /\ Head(sliding_window).p.seqno < recv_ackno

\* One round of the loop that removes what the acknowledgement covers.
SlideHead ==
  /\ spc = "slide"
  /\ HeadAcked
  /\ sliding_window' = Tail(sliding_window)
  /\ PacketAcked
  /\ UNCHANGED <<spc, fpos, eof_flag, next_seqno, expected_ack, recv_ackno,
                 armed, pending, netVars>>

SlideDone ==
  /\ spc = "slide"
  /\ ~HeadAcked
  /\ spc' = "fill"
  /\ UNCHANGED <<fpos, eof_flag, next_seqno, sliding_window, expected_ack,
                 recv_ackno, armed, pending, netVars, ccVars>>

\* The timer expires while recvfrom waits: the handler runs.
AlarmHandled ==
  /\ spc = "wait"
  /\ armed
  /\ HandleAlarm
  /\ UNCHANGED <<spc, fpos, eof_flag, next_seqno, expected_ack, recv_ackno,
                 armed, pending, ackNet>>

\* The timer expires while SIGALRM is blocked.
AlarmPends ==
  /\ spc \in {"fill", "slide"}
  /\ armed
  /\ ~pending
  /\ pending' = TRUE
  /\ UNCHANGED <<spc, fpos, eof_flag, next_seqno, sliding_window, expected_ack,
                 recv_ackno, armed, netVars, ccVars>>

SenderNext ==
  \/ SendSegment \/ ReadEof \/ SendEof \/ StartWait
  \/ \E a \in ackNet : IgnoreAck(a) \/ AcceptAck(a)
  \/ SlideHead \/ SlideDone
  \/ AlarmHandled \/ AlarmPends
==============================================================================
