--------------------------------- MODULE Rdt ---------------------------------
(***************************************************************************)
(* Reliable data transfer: rdt_sender and rdt_receiver over a UDP path     *)
(* that loses, duplicates and reorders datagrams.                          *)
(***************************************************************************)
EXTENDS RdtSender, RdtReceiver

vars == <<netVars, ccVars, sndVars, rcvVars>>

Init == NetInit /\ SenderInit /\ ReceiverInit

SenderStep == SenderNext /\ UNCHANGED rcvVars
ReceiverStep == ReceiverNext /\ UNCHANGED <<sndVars, ccVars>>
NetworkStep == (LoseData \/ LoseAck) /\ UNCHANGED <<sndVars, ccVars, rcvVars>>

\* The sender has returned from main; the receiver may be left waiting.
Exited == spc = "done" /\ UNCHANGED vars

Next == SenderStep \/ ReceiverStep \/ NetworkStep \/ Exited

Spec == Init /\ [][Next]_vars

(***************************************************************************)
(* Fairness.  Both processes are scheduled and their timer fires.  The     *)
(* path is lossy but not dead: a datagram that is in flight again and      *)
(* again while its addressee waits for it arrives in the end.              *)
(***************************************************************************)
Fairness ==
  /\ WF_vars((SendSegment \/ ReadEof \/ SendEof \/ StartWait
              \/ SlideHead \/ SlideDone) /\ UNCHANGED rcvVars)
  /\ WF_vars(AlarmHandled /\ UNCHANGED rcvVars)
  /\ WF_vars((WriteHead \/ Acknowledge) /\ UNCHANGED <<sndVars, ccVars>>)
  /\ \A a \in Offsets : SF_vars(AcceptAck(a) /\ UNCHANGED rcvVars)
  /\ \A pkt \in Segments \cup {EofPacket} :
       SF_vars((\/ ReceiveEof(pkt) \/ ReceiveExpected(pkt)
                \/ ReceiveDuplicate(pkt) \/ ReceiveEarly(pkt))
               /\ UNCHANGED <<sndVars, ccVars>>)

FairSpec == Spec /\ Fairness

------------------------------------------------------------------------------
(* Properties *)

\* The first byte the sender may still have to send again.
WindowStart ==
  IF sliding_window = << >> THEN next_seqno ELSE Head(sliding_window).p.seqno

\* Every variable has the type of the C object it stands for.
TypeOK ==
  /\ dataNet \subseteq Packet
  /\ ackNet \subseteq Offsets
  /\ window_size \in Int /\ window_size >= One
  /\ ssthresh \in Nat
  /\ spc \in {"fill", "wait", "slide", "done"}
  /\ fpos \in Offsets
  /\ eof_flag \in BOOLEAN
  /\ next_seqno \in Offsets
  /\ sliding_window \in Seq(Node)
  /\ expected_ack \in Offsets
  /\ recv_ackno \in Offsets
  /\ armed \in BOOLEAN
  /\ pending \in BOOLEAN
  /\ rpc \in {"recv", "write", "closed"}
  /\ expec_seqno \in Offsets
  /\ packets \subseteq Packet
  /\ fp \in [Bytes -> Bytes \cup {NoByte}]

\* The received file is at all times the prefix of the source file that ends
\* at expec_seqno, and nothing is written beyond it (write_to_file).
PrefixDelivered ==
  fp = [i \in Bytes |-> IF i < expec_seqno THEN i ELSE NoByte]

\* The end-of-file packet exists only once the receiver has written the whole
\* file, so the receiver never closes a truncated file (main of both sides).
EofAfterDelivery ==
  (spc = "done" \/ rpc = "closed") => expec_seqno = FileLen

\* A packet leaves the sliding window (remove_node) only after the receiver has written it:
\* what the sender forgets, it never has to send again.
ForgottenIsDelivered == WindowStart <= expec_seqno

\* The sliding window holds consecutive packets that end at next_seqno.
WindowContiguous ==
  \A i \in 1 .. Len(sliding_window) :
    EndOf(sliding_window[i].p) =
      (IF i = Len(sliding_window) THEN next_seqno
                                  ELSE sliding_window[i + 1].p.seqno)

\* Between two packets the receiver's list holds early packets only: a late
\* one at its head would keep write_to_file from ever writing again.
BufferIsEarly ==
  rpc = "recv" => \A p \in packets : p.seqno > expec_seqno

\* get_head never meets an empty list: when the inner loop ends with bytes left
\* to read there is a packet to wait for (line 176), and there still is one when
\* an acknowledgement ends the wait (line 222).
HeadExists ==
  /\ spc = "fill" /\ ~eof_flag /\ ~WindowOpen => sliding_window # << >>
  /\ spc = "wait" => sliding_window # << >>

\* Every acknowledgement the sender accepts covers the head of the window it
\* waited for, and each wait is for more of the file than the last one.
WaitsAdvance ==
  [][spc = "fill" /\ spc' = "wait" => expected_ack' > expected_ack]_vars

\* On every path that is not dead the sender gets the whole file across and
\* returns: no lost datagram, expired timer or spurious retransmission stops it.
SenderFinishes == <>(spc = "done")

\* The received bytes, as the abstract specification sees them.
Output == [i \in 1 .. expec_seqno |-> fp[i - 1]]

RT == INSTANCE ReliableTransfer
        WITH output <- Output,
             sender <- IF spc = "done" THEN "finished" ELSE "sending",
             receiver <- IF rpc = "closed" THEN "closed" ELSE "open"

\* The two programs implement a reliable transfer.
Refinement == RT!Spec

------------------------------------------------------------------------------
(* What the README says and the code does not do.                          *)

\* "capable of handling packet losses and retransmissions", "properly receiving
\* the exact file on the receiver": the receiver gets to close the file.
ReceiverCloses == <>(rpc = "closed")
==============================================================================
