----------------------------- MODULE DataTransfer ----------------------------
(***************************************************************************)
(* send_file and receive_file (project_2/code/data_transfer.c) over one    *)
(* data connection.  Each block travels as a length and the data; the text *)
(* TRANSFER_COMPLETE, framed like a block, ends the file.                  *)
(*                                                                         *)
(* The connection is a sequence of units.  A unit stands for bytes that    *)
(* arrive together: half of a length, half of the end mark, or a piece of  *)
(* the file that could hold the text of the mark.  A recv returns at least *)
(* one of the units it asks for and not necessarily all.                   *)
(***************************************************************************)
EXTENDS Integers, Sequences

CONSTANTS FileLen,          \* units of the file
          BlockLen,         \* units of a buffer (1024 bytes)
          Uninitialized,    \* what bytes_sent may hold at first
          MarkedFiles       \* where a file may hold the text of the end mark

ASSUME DataAssumption ==
  /\ FileLen \in Nat
  /\ BlockLen \in Nat \ {0}
  /\ Uninitialized \subseteq Int
  /\ \A m \in MarkedFiles : m \subseteq 1 .. FileLen

VARIABLES spc,           \* place in send_file
          fpos,          \* units read from the source
          bytes_read,
          bytes_sent,
          marks,         \* the units of this file that look like the end mark
          stream,        \* what is in flight
          rpc,           \* place in receive_file
          size,
          received,      \* the units written to the target
          inStep         \* history: both ends agree where the blocks begin

senderVars == <<spc, fpos, bytes_read, bytes_sent, marks>>
receiverVars == <<rpc, size, received>>
vars == <<senderVars, stream, receiverVars, inStep>>

Least(a, b) == IF a <= b THEN a ELSE b

Unit(kind, n) == [kind |-> kind, n |-> n]
Source == [i \in 1 .. FileLen |-> Unit("data", i)]
Length(n) == <<Unit("high", n), Unit("low", n)>>
Mark == <<Unit("226", 0), Unit("complete", 0)>>
Padding == Unit("zero", 0)

\* A size larger than the buffer.
Huge == 2 * BlockLen + FileLen + 8

SenderEnded == spc \in {"done", "gone"}
ReceiverEnded == rpc \in {"complete", "cut", "gone"}

Init ==
  /\ spc = "open" /\ rpc = "open"
  /\ fpos = 0
  /\ bytes_read = 0
  /\ bytes_sent \in Uninitialized
  /\ marks \in MarkedFiles
  /\ stream = << >>
  /\ size = 0
  /\ received = << >>
  /\ inStep = TRUE

------------------------------------------------------------------------------
(* send_file                                                               *)

\* fopen; the file may have gone since its existence was checked.
SendOpen ==
  /\ spc = "open"
  /\ spc' \in {"read", "gone"}
  /\ UNCHANGED <<fpos, bytes_read, bytes_sent, marks, stream, receiverVars, inStep>>

\* fread of a block
ReadBlock ==
  /\ spc = "read"
  /\ fpos < FileLen
  /\ bytes_read' = Least(BlockLen, FileLen - fpos)
  /\ fpos' = fpos + bytes_read'
  /\ spc' = "length"
  /\ UNCHANGED <<bytes_sent, marks, stream, receiverVars, inStep>>

\* Mutant: the size of the buffer is announced.
SendBufferSize ==
  /\ spc = "length"
  /\ stream' = stream \o Length(BlockLen)
  /\ spc' = "data"
  /\ UNCHANGED <<fpos, bytes_read, bytes_sent, marks, receiverVars, inStep>>

SendLength ==
  /\ spc = "length"
  /\ stream' = stream \o Length(bytes_read)
  /\ spc' = "data"
  /\ UNCHANGED <<fpos, bytes_read, bytes_sent, marks, receiverVars, inStep>>

\* The first n units of the buffer: the block, then zeros.
Buffer(n) ==
  LET block == IF fpos % BlockLen = 0 THEN BlockLen ELSE fpos % BlockLen
  IN  [i \in 1 .. n |-> IF i <= block THEN Source[fpos - block + i] ELSE Padding]

\* One round of the do loop: send the block, and leave the loop unless
\* bytes_read - bytes_sent is still positive.
SendBlock ==
  /\ spc = "data"
  /\ stream' = stream \o Buffer(bytes_read)
  /\ bytes_sent' = bytes_sent + bytes_read
  /\ bytes_read' = bytes_read - bytes_sent'
  /\ spc' = IF bytes_read' > 0 THEN "length" ELSE "read"
  /\ inStep' = (inStep /\ bytes_read' <= 0)
  /\ UNCHANGED <<fpos, marks, receiverVars>>

\* fread returns 0: the end mark is announced
SendMarkLength ==
  /\ spc = "read"
  /\ fpos = FileLen
  /\ stream' = stream \o Length(Len(Mark))
  /\ spc' = "mark"
  /\ UNCHANGED <<fpos, bytes_read, bytes_sent, marks, receiverVars, inStep>>

\* and sent, with the rest of success_response after it.
SendMark ==
  /\ spc = "mark"
  /\ stream' = Append(stream \o Mark, Padding)
  /\ spc' = "done"
  /\ UNCHANGED <<fpos, bytes_read, bytes_sent, marks, receiverVars, inStep>>

\* The process is killed, by a send to a receiver that has ended or otherwise.
SenderDies ==
  /\ ~SenderEnded
  /\ spc' = "gone"
  /\ UNCHANGED <<fpos, bytes_read, bytes_sent, marks, stream, receiverVars, inStep>>

------------------------------------------------------------------------------
(* receive_file                                                            *)

\* fopen for writing
ReceiveOpen ==
  /\ rpc = "open"
  /\ rpc' \in {"size", "gone"}
  /\ UNCHANGED <<senderVars, stream, size, received, inStep>>

\* A recv of wanted units returns n of them.
Take(n, wanted) ==
  /\ n \in 1 .. Least(wanted, Len(stream))
  /\ stream' = SubSeq(stream, n + 1, Len(stream))

\* What ntohl makes of the units: the length, if they are its two halves.
Sizes(units) ==
  IF \E k \in 1 .. Huge : units = Length(k)
  THEN {k \in 1 .. Huge : units = Length(k)}
  ELSE {0, 1, Huge}

\* recv of a size
ReceiveSize ==
  /\ rpc = "size"
  /\ \E n \in 1 .. 2 :
       /\ Take(n, 2)
       /\ size' \in Sizes(SubSeq(stream, 1, n))
       /\ inStep' = (inStep /\ n = 2)
  /\ rpc' = "block"
  /\ UNCHANGED <<senderVars, received>>

\* The sender has closed: the size stays 0.
ReceiveNoSize ==
  /\ rpc = "size"
  /\ stream = << >> /\ SenderEnded
  /\ size' = 0
  /\ rpc' = "block"
  /\ UNCHANGED <<senderVars, stream, received, inStep>>

\* strcmp(buffer, TRANSFER_COMPLETE) == 0: the buffer starts with the text of
\* the mark and a zero.
IsMark(units) ==
  \/ Len(units) >= 2 /\ SubSeq(units, 1, 2) = Mark
  \/ units[1].kind = "data" /\ units[1].n \in marks

\* recv of a block, which is written
ReceiveBlock ==
  /\ rpc = "block"
  /\ \E n \in 1 .. Len(stream) :
       /\ Take(n, size)
       /\ ~IsMark(SubSeq(stream, 1, n))
       /\ received' = received \o SubSeq(stream, 1, n)
       /\ inStep' = (inStep /\ n = size)
  /\ rpc' = "size"
  /\ UNCHANGED <<senderVars, size>>

\* recv of the end mark
ReceiveMark ==
  /\ rpc = "block"
  /\ \E n \in 1 .. Len(stream) :
       /\ Take(n, size)
       /\ IsMark(SubSeq(stream, 1, n))
       /\ inStep' = (inStep /\ stream[1].kind # "data")
  /\ rpc' = "complete"
  /\ UNCHANGED <<senderVars, size, received>>

\* Mutant: only a failing recv ends the loop.
ReceiveNothingAgain ==
  /\ rpc = "block"
  /\ size = 0 \/ (stream = << >> /\ SenderEnded)
  /\ rpc' = "size"
  /\ UNCHANGED <<senderVars, stream, size, received, inStep>>

\* n is 0: nothing was asked for, or the sender has closed.
ReceiveNothing ==
  /\ rpc = "block"
  /\ size = 0 \/ (stream = << >> /\ SenderEnded)
  /\ rpc' = "cut"
  /\ UNCHANGED <<senderVars, stream, size, received, inStep>>

\* The process is killed; a size larger than the buffer may do that.
ReceiverDies ==
  /\ ~ReceiverEnded
  /\ rpc' = "gone"
  /\ UNCHANGED <<senderVars, stream, size, received, inStep>>

------------------------------------------------------------------------------

SenderStep ==
  \/ SendOpen \/ ReadBlock \/ SendLength \/ SendBlock
  \/ SendMarkLength \/ SendMark

ReceiverStep ==
  \/ ReceiveOpen \/ ReceiveSize \/ ReceiveNoSize
  \/ ReceiveBlock \/ ReceiveMark \/ ReceiveNothing

\* Both functions have returned.
Exited == SenderEnded /\ ReceiverEnded /\ UNCHANGED vars

Next == SenderStep \/ ReceiverStep \/ SenderDies \/ ReceiverDies \/ Exited

Spec == Init /\ [][Next]_vars

\* Both processes are scheduled, and recv returns what has arrived.
FairSpec == Spec /\ WF_vars(SenderStep) /\ WF_vars(ReceiverStep)

------------------------------------------------------------------------------
(* Properties *)

FC == INSTANCE FileCopy
        WITH target <- received,
             ending <- CASE rpc \in {"open", "size", "block"} -> "none"
                         [] rpc = "complete" -> "complete"
                         [] OTHER -> "cut"

\* The lengths, the loop that sends a block, the mark and the end of the
\* connection add up to FileCopy: whatever dies when, the target is a prefix of
\* the source and receive_file prints "226 Transfer complete" only with all of
\* it.  This holds as long as every recv returns what it asked for, no block was
\* sent twice and no block was taken for the mark.
CopyInStep == FC!Init /\ [][inStep' => FC!Next]_(FC!vars)

\* Both functions return, in step or not: no length that was read from the
\* middle of the data, no uninitialized bytes_sent and no end of the other
\* process keeps one of them in its loop.
BothEnd == <>(SenderEnded /\ ReceiverEnded)

------------------------------------------------------------------------------
(* What a text of the source says and the code does not do.                *)

\* "226 Transfer complete", which send_file prints at its end: if the receiver
\* is not killed, it has then the whole file.
Delivered ==
  spc = "done" /\ rpc \in {"complete", "cut"} => received = Source
==============================================================================
