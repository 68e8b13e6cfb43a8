----------------------------- MODULE RdtNetwork ------------------------------
(***************************************************************************)
(* The file to transfer, the packets that carry it and the two directions  *)
(* of the UDP path between rdt_sender and rdt_receiver.                    *)
(*                                                                         *)
(* UDP may lose, duplicate, delay and reorder datagrams: a direction is    *)
(* the set of the datagrams in flight.  A receive takes any of them and    *)
(* may leave a copy behind.                                                *)
(***************************************************************************)
EXTENDS Integers

CONSTANTS FileLen,    \* number of bytes of the file
          DataSize    \* bytes of the file a full packet carries (DATA_SIZE)

ASSUME FileAssumption ==
  /\ FileLen \in Nat
  /\ DataSize \in Nat \ {0}

VARIABLES dataNet,    \* datagrams on the way to the receiver
          ackNet      \* ackno of the acknowledgements on the way back

netVars == <<dataNet, ackNet>>

\* Byte number i of the file has the value i.
Bytes == 0 .. FileLen - 1
Offsets == 0 .. FileLen

\* A packet: hdr.seqno, hdr.data_size and the position of the file its data
\* was read at, which stands for the data.
Packet == [seqno : Offsets, data_size : 0 .. DataSize, data : Offsets]

EndOf(p) == p.seqno + p.data_size

\* The packets of the file: the k-th one carries what the k-th fread returns.
Segment(k) ==
  LET start == k * DataSize
      left  == FileLen - start
  IN  [seqno     |-> start,
       data_size |-> IF left < DataSize THEN left ELSE DataSize,
       data      |-> start]

Segments == {Segment(k) : k \in {j \in Bytes : j * DataSize < FileLen}}

\* The packet without data that ends the transfer.
EofPacket == [seqno |-> 0, data_size |-> 0, data |-> 0]

NetInit ==
  /\ dataNet = {}
  /\ ackNet = {}

\* What is left of net once m has been received: a duplicate may remain.
After(net, m) == {net, net \ {m}}

LoseData ==
  \E p \in dataNet :
    /\ dataNet' = dataNet \ {p}
    /\ UNCHANGED ackNet

LoseAck ==
  \E a \in ackNet :
    /\ ackNet' = ackNet \ {a}
    /\ UNCHANGED dataNet
==============================================================================
