----------------------------- MODULE RdtReceiver -----------------------------
(***************************************************************************)
(* rdt_receiver (project_1/code/rdt_receiver.c): the loop that receives a  *)
(* packet, buffers it when it is early, writes what has become contiguous  *)
(* to the file and acknowledges.                                           *)
(*                                                                         *)
(* rpc is the place in the loop: "recv" at recvfrom, "write" in            *)
(* write_to_file and the acknowledgement after it, "closed" after the loop.*)
(* The linked list `packets`, sorted and without duplicates, is the set of *)
(* the packets in it.                                                      *)
(***************************************************************************)
EXTENDS RdtNetwork

VARIABLES rpc,
          expec_seqno,
          packets,      \* the packets in the linked list
          fp            \* the received file: the byte at every position

rcvVars == <<rpc, expec_seqno, packets, fp>>

NoByte == -1

\* add_pkt_to_list: insert by sequence number, drop a duplicate.
Added(list, pkt) ==
  IF \E q \in list : q.seqno = pkt.seqno THEN list ELSE list \cup {pkt}

\* get_head: the list is sorted by sequence number.
IsHead(pkt) == pkt \in packets /\ \A q \in packets : pkt.seqno <= q.seqno

\* fseek to pkt.seqno, fwrite pkt.data_size bytes of its data.
Written(pkt) ==
  [i \in Bytes |-> IF pkt.seqno <= i /\ i < EndOf(pkt)
                   THEN pkt.data + (i - pkt.seqno)
                   ELSE fp[i]]

ReceiverInit ==
  /\ rpc = "recv"
  /\ expec_seqno = 0
  /\ packets = {}
  /\ fp = [i \in Bytes |-> NoByte]

\* recvfrom
Receive(pkt) ==
  /\ rpc = "recv"
  /\ pkt \in dataNet
  /\ dataNet' \in After(dataNet, pkt)

\* A packet without data: the file is closed and the list emptied.
ReceiveEof(pkt) ==
  /\ Receive(pkt)
  /\ pkt.data_size = 0
  /\ rpc' = "closed"
  /\ packets' = {}
  /\ UNCHANGED <<expec_seqno, fp, ackNet>>

\* The expected packet joins the list; write_to_file starts.
ReceiveExpected(pkt) ==
  /\ Receive(pkt)
  /\ pkt.data_size # 0
  /\ pkt.seqno = expec_seqno
  /\ packets' = Added(packets, pkt)
  /\ rpc' = "write"
  /\ UNCHANGED <<expec_seqno, fp, ackNet>>

\* A packet that has been written already is acknowledged again.
ReceiveDuplicate(pkt) ==
  /\ Receive(pkt)
  /\ pkt.data_size # 0
  /\ pkt.seqno < expec_seqno
  /\ ackNet' = ackNet \cup {expec_seqno}
  /\ UNCHANGED rcvVars

\* Mutant: an early packet is acknowledged on its own, not cumulatively.
AcknowledgeEarly(pkt) ==
  /\ Receive(pkt)
  /\ pkt.data_size # 0
  /\ pkt.seqno > expec_seqno
  /\ packets' = Added(packets, pkt)
  /\ ackNet' = ackNet \cup {EndOf(pkt)}
  /\ UNCHANGED <<rpc, expec_seqno, fp>>

\* An early packet is buffered, without an acknowledgement.
ReceiveEarly(pkt) ==
  /\ Receive(pkt)
  /\ pkt.data_size # 0
  /\ pkt.seqno > expec_seqno
  /\ packets' = Added(packets, pkt)
  /\ UNCHANGED <<rpc, expec_seqno, fp, ackNet>>

\* Mutant: the head is written whether or not it is the expected packet.
WriteAnyHead ==
  /\ rpc = "write"
  /\ \E head \in packets :
       /\ IsHead(head)
       /\ fp' = Written(head)
       /\ expec_seqno' = EndOf(head)
       /\ packets' = packets \ {head}
  /\ UNCHANGED <<rpc, netVars>>

\* One round of write_to_file: the head is the expected packet.
WriteHead ==
  /\ rpc = "write"
  /\ \E head \in packets :
       /\ IsHead(head)
       /\ head.seqno = expec_seqno
       /\ fp' = Written(head)
       /\ expec_seqno' = EndOf(head)
       /\ packets' = packets \ {head}
  /\ UNCHANGED <<rpc, netVars>>

\* Mutant: one packet is written at most.
AcknowledgeFirst ==
  /\ rpc = "write"
  /\ ackNet' = ackNet \cup {expec_seqno}
  /\ rpc' = "recv"
  /\ UNCHANGED <<expec_seqno, packets, fp, dataNet>>

\* write_to_file returns; everything written is acknowledged.
Acknowledge ==
  /\ rpc = "write"
  /\ \A head \in packets : IsHead(head) => head.seqno # expec_seqno
  /\ ackNet' = ackNet \cup {expec_seqno}
  /\ rpc' = "recv"
  /\ UNCHANGED <<expec_seqno, packets, fp, dataNet>>

ReceiverNext ==
  \/ \E pkt \in dataNet :
       \/ ReceiveEof(pkt) \/ ReceiveExpected(pkt)
       \/ ReceiveDuplicate(pkt) \/ ReceiveEarly(pkt)
  \/ WriteHead \/ Acknowledge
==============================================================================
