---------------------------- MODULE RdtInvariant -----------------------------
(***************************************************************************)
(* The inductive invariant of Rdt from which its safety properties follow. *)
(***************************************************************************)
EXTENDS Rdt

\* Where one packet ends and the next begins.
Boundaries == {p.seqno : p \in Segments} \cup {FileLen}

\* Every packet anywhere is one of the file's, and was sent already.
PacketsInv ==
  /\ \A p \in dataNet : p = EofPacket \/ p \in Segments
  /\ packets \subseteq Segments
  /\ \A i \in 1 .. Len(sliding_window) :
       /\ sliding_window[i].p \in Segments
       /\ EndOf(sliding_window[i].p) <= next_seqno
  /\ \A p \in dataNet \cup packets : EndOf(p) <= next_seqno

\* The counters of both sides are packet boundaries, and in this order:
\* acknowledged <= received in order <= sent.
CountersInv ==
  /\ next_seqno \in Boundaries
  /\ expec_seqno \in Boundaries
  /\ recv_ackno \in Boundaries
  /\ ackNet \subseteq Boundaries
  /\ fpos = next_seqno
  /\ \A a \in ackNet : a <= expec_seqno
  /\ recv_ackno <= expec_seqno
  /\ expec_seqno <= next_seqno
  /\ WindowStart <= expec_seqno

\* What the sender waits for, at each place of its loop.
WaitInv ==
  /\ spc = "fill" => expected_ack <= WindowStart
  /\ spc = "wait" => /\ sliding_window # << >>
                     /\ expected_ack = EndOf(Head(sliding_window).p)
  /\ spc = "slide" => expected_ack <= recv_ackno

\* The receiver's list is ahead of what it has written.
BufferInv ==
  /\ \A p \in packets : p.seqno >= expec_seqno
  /\ BufferIsEarly

\* The end of the transfer is announced only when everything is delivered.
EofInv ==
  /\ eof_flag => fpos = FileLen
  /\ spc = "done" => eof_flag /\ sliding_window = << >>
  /\ EofPacket \in dataNet => spc = "done"
  /\ rpc = "closed" => spc = "done"

\* The inductive invariant: together with the type of the variables and the
\* contiguity of the window, these facts are preserved by every step of
\* rdt_sender, rdt_receiver and the path.
IInv ==
  /\ TypeOK
  /\ PacketsInv
  /\ CountersInv
  /\ WindowContiguous
  /\ WaitInv
  /\ BufferInv
  /\ EofInv
  /\ PrefixDelivered
==============================================================================
