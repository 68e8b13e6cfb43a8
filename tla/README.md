# A TLA+ model of the networks projects

The repository holds two C programs for a networks course:

* `project_1/code`: `rdt_sender` and `rdt_receiver` transfer one file over UDP
  with a sliding window, cumulative acknowledgements, one retransmission timer
  and TCP-like congestion control.
* `project_2/code`: an FTP `server` (one process per control connection, one
  more per transfer) and an interactive `client`.

This directory models both with TLA+, checks the models with TLC and proves the
properties that matter most with TLAPS.

## Inventory

| Part | State | Operations | What is hard | What makes it correct |
|---|---|---|---|---|
| `rdt_sender.c`, main | `next_seqno`, `sliding_window`, `expected_ack`, place in the loop, position in the file | fill the window, wait for a cumulative acknowledgement, slide | acknowledgements lost, late, repeated; the handler interrupts | nothing is forgotten before it is delivered; the end is announced last; it finishes |
| `rdt_sender.c`, `resend_packets` | `window_size`, `ssthresh`, blocked or pending `SIGALRM` | reset the window, resend the head | runs between any two steps of the wait; a signal left pending | a resent packet is never a round-trip sample |
| `rdt_sender.c`, congestion window | `window_size` (float), `ssthresh` (int) | grow per removed packet, halve on timeout | rounding that may always go down, truncation | about one packet per window in congestion avoidance |
| `rdt_receiver.c` | `expec_seqno`, `packets`, the file | buffer, write what is contiguous, acknowledge | early and repeated packets | the file is always a prefix of the source |
| `server.c`, `handle_user` | `auth1`, `auth2`, `username`, `path`, `port_f`, `port` | USER, PASS, PORT, STOR/RETR/LIST, CWD, PWD, QUIT | any order of requests; `parse_dir` failing half way | flags, user and path belong together; each PORT serves one transfer at most |
| `client.c`, `main`, `send_new_port` | `control_port`, `port_counter`, place in the loop | one request and one reply; two for a transfer | refusals between PORT and the command; the peer dying | lock-step; both sides start the same transfers |
| data ports | `port_counter`, `control_port` | `N + i*i` as unsigned short, two bytes and back | wrap-around, repeats | a session's ports are distinct |
| `server.c` accept loop, `handle_transfer` of both sides | descriptors, the children of each transfer, the file, `temp.txt` | accept, fork, bind, connect in a loop, send, store, `ls >> temp.txt`, `rm temp.txt` | descriptors never closed, a connect that spins, ports that collide, two LISTs or STORs at once, a client interrupted at any moment | a child that connects meets the listener of its own client; what arrives is whole unless it was shared; children wait for good only where ports collided or a client was killed |
| `data_transfer.c` | position in the file and in the stream, `bytes_read`, `bytes_sent`, `size` | length-prefixed blocks, an in-band end mark | short reads, `bytes_sent` uninitialized, the mark's text in a file, the other end dying | the target is a prefix of the source, and all of it when the mark comes; both functions return |
| linked lists of both projects | `head`, `tail`, `size`, `next` and `prev` of each node | add at the tail, insert sorted, remove at the head or the tail | `prev` of the old head is not set, `tail` dangles when the list is empty, addresses come back | the chain has `size` nodes and ends at `tail`; the lists are a queue, a sorted queue and a stack |
| round-trip estimator, plotting, logging | doubles, a CSV file | | | not modelled (see below) |

The RDT programs exchange datagrams only. In the FTP the two sides exchange
requests and replies over TCP; a transfer is handed to a forked child on each
side, and the children meet on the data port.

## Modules

### Reliable data transfer

| Module | Models |
|---|---|
| `RdtNetwork` | the file, packets, and the UDP path: a set of datagrams per direction; a receive may leave a copy, a datagram may be lost |
| `CongestionControl` | `window_size` and `ssthresh`; the float is an integer number of units of 2^-22, and `PlusFraction` rounds to the nearest float of the window's binade (windows below 512 packets) |
| `RdtSender` | the main loop and the handler. `spc` is the place in the loop: `fill` (125-176), `wait` (181-218), `slide` (222-264), `done`. `SIGALRM` is blocked outside `wait`; the interval timer is never stopped, so an expiry there becomes `pending` and `StartWait` runs the handler |
| `RdtReceiver` | the receive loop; `rpc = "write"` is inside `write_to_file`. The sorted list without duplicates is a set of packets |
| `ReliableTransfer` | the promise: the output grows as a prefix of the file, the sender finishes when all is delivered, the receiver closes after that |
| `Rdt` | composes them; safety, refinement of `ReliableTransfer`, liveness |
| `RdtHistory` | two history variables: how often a position was sent, and what had been sent when the pending signal was raised |
| `RdtInvariant`, `RdtProofs`, `RdtHistoryProofs` | the inductive invariant and the proofs |
| `MCCongestionControl` | the congestion window alone under any sequence of acknowledgements and timeouts |
| `LinkedLists` | `linked_list.c` of both projects and `add_pkt_to_list`, one pointer assignment after the other; a node is its address, `malloc` returns any free one |
| `ListContents` | what the lists are for: a queue (the window), a sorted queue without duplicates (early packets), a stack (the path of an FTP session) |
| `MCAlgorithms` | the sequential parts, one per behaviour: congestion window, data ports, lists, and the server's process of `MCFtpServer` |
| `AlgorithmProofs` | the proofs about these parts, the ports of the FTP included |

A byte of the file is its position. A packet's `data` is the position it was
read at, so a wrong write would show in `fp`. Variables have the names of the C
variables; one C loop iteration is one action (`SendSegment`, `SlideHead`,
`WriteHead`), because the handler and the other process interleave between them.

### FTP

| Module | Models |
|---|---|
| `FtpPorts` | how a data port is computed, split and joined |
| `FtpPortSequence` | the ports of one session |
| `FtpControl` | the two directions of the control connection; a `recv` takes what has arrived |
| `FtpServer` | `handle_user`: one action per branch, with `auth_user` and `auth_pass` as the set of values they may return (unreadable `users.csv` included), `parse_dir` as a recursive function over the names (`ParseDir`), `ls` as membership of the directories on the way in `Entries`; `get_path` as `Start`: an argument with a leading slash is looked up from the root while the path is empty |
| `FtpClient` | `main` and `send_new_port`: `cpc` is the reply the client waits for |
| `FtpSession` | one client with its server process; `held` says whether another process of the server (main, or the child of a transfer) still has the control connection open |
| `TransferAgreement` | the promise of the control connection: the server starts a transfer, the client starts the same one before the next |
| `MCFtpSession` | two users, the server's directory, those below it, the arguments of CWD |
| `MCFtpServer` | the server's process with any client that sends one request at a time, malformed ones included. Three history variables: the ports that were granted, those of them that are spent, and the directories entered between USER and the password |
| `FtpTransfer` | the accept loop, the sessions of one user and the children that both sides fork for each transfer, over the ports of the machine, one file and `temp.txt` |
| `MCFtpTransfer` | two sessions with control ports 40000 and 40009: the second transfer of one has the port of the first of the other |
| `DataTransfer` | `send_file` and `receive_file` over one connection. A unit stands for bytes that arrive together: half of a length, half of the mark, a piece of the file. A `recv` returns one unit or more of what it asks for. `inStep` is a history variable: every `recv` so far returned what it asked for, no block was sent twice, none was taken for the mark |
| `FileCopy` | the promise of a transfer: the target grows as a prefix of the source; complete with all of it, or cut |
| `MCDataTransfer` | `bytes_sent` below, at and above 0; the mark's text nowhere, at the start of a block or inside one |
| `FtpSessionProofs`, `FtpServerProofs`, `FtpTransferProofs`, `DataTransferProofs` | the proofs about the session, the server's process, the children of transfers and the framing |
| `ArithmeticLemmas` | division, what the ports compute, and induction for the functions of the models; used by the proofs of both programs |

How the FTP modules fit together: `FtpSession` starts transfers on both sides
and shows that they are the same ones (`SameTransfers`). `FtpTransfer` takes
this as its start: of the control connection it keeps the 150 (`replied`), with
which the server's child is forked, and the client's reading of it. It moves
whole blocks; how a block crosses the connection is `DataTransfer`. In
`FtpTransfer` a block of the file is the transfer that stored it and a line of a
listing the transfer that asked for it, so that a mixed file or listing shows.

`started` and `listening` are the transfers for which each side has forked a
child. The contents of files, the text of replies, and file names of transfers
are left out; a reply is its code. CWD takes its argument as the list of names
between slashes, and whether a slash stands before them. `Home` is the directory
the server runs in; it and `Entries` are paths from the root.

## Runs

| Run | Bounds | Shows |
|---|---|---|
| `rdt_safety` | 9 bytes in packets of 2: five packets, the last one short; 690,623 states | types, the received prefix, no premature end, nothing forgotten, the list ahead of the file, `get_head` never on an empty list, waits that advance, the invariant of the proofs, refinement of `ReliableTransfer` |
| `rdt_history` | 5 bytes in packets of 2 | only packets sent once are sampled; the sender finishes |
| `algorithms` | windows up to 72 packets, thresholds up to 64; 252 transfers, four control ports with both ends of the range; lists of up to 4 nodes, 3 values; the server's process with 2 ports and CWD on paths of less than 3 names; 882,927 states | how many acknowledgements gain a packet, with rounding; ports do not repeat; the chains of the lists are sound and refine `ListContents`; a transfer starts under the last PORT, and no transfer or refusal came in between; who is logged in stays below one directory; a CWD does what it answers |
| `ftp_session` | 2 transfers, CWD on paths of less than 3 names, control port 65515; 183,788 states | lock-step, pairing of transfers, the right port, refinement of `TransferAgreement`, no mutual wait while the server lives |
| `ftp_transfer` | 2 sessions, 2 transfers at a time, files of 2 blocks over an old one of 3; 259,347 states | a child that connects meets its own client's listener; listings and files that nobody else touched arrive whole; a transfer whose port no other has ends on both sides, but for the loop of a server's child whose client was killed; of those that collide only the ones left alone wait for good |
| `data_transfer` | a file of 3 units in blocks of 2; 218,659 states | in step it implements `FileCopy`; both functions return, in step or not |
| `rdt_receiver_closes` *(violated)* | 3 bytes | the lost end-of-file packet |
| `rdt_resend` *(violated)* | 5 bytes | a pending signal resends a fresh packet |
| `ftp_serves` *(violated)* | 1 transfer | `CWD /` leaves the client waiting |
| `data_delivered` *(violated)* | 3 units in blocks of 2, nothing uninitialized, no mark in the file | a short `recv` loses the blocks while 226 is printed |
| `ftp_listing` *(violated)* | 2 transfers, files of 1 block | two LISTs share `temp.txt` |
| `ftp_own_directory` *(violated)* | the server's process as in `algorithms` | a CWD between USER and PASS leads into another user's directory |

Why the bounds are enough. Five packets are the fewest with which a window of
more than two packets is filled, loses its head, resets and grows again while
the receiver buffers; the last packet is short, so the lengths differ. The
proofs lift every safety property of `rdt_safety` to all lengths. Three packets
suffice for liveness: a head, a buffered successor and a last one. In
`algorithms` the window passes six binades, where the rounding changes, and the
69 packets from which a window of acknowledgements and one more may fall short
of a packet; the proofs go on to 200 packets. Four nodes are a head, a tail, one
between them and a freed address that comes back, and three values give a packet
below, between and above those in the list. The session's control port makes the
second data port wrap past 65535; the proofs lift its safety properties to any
number of transfers. Paths of three names cover every case of `parse_dir`:
empty, at its minimum, below it, and with a `.` on top. Two transfers are the
most that one step relates (two LISTs, a RETR and a STOR, a listener and the
child that meets it), and the control ports of `ftp_transfer` make ports of the
two sessions equal. A file of two blocks has a full one and a short last one,
which is where `bytes_sent` and short reads bite.

`MaxWindow`, `MaxTransfers`, `MaxPath`, `LastTransfer` bound the models only, as
do `Huge` in `DataTransfer` (a length larger than anything that is in flight)
and `MaxDescriptors` where it is smaller than the table of the system. The
bound on CWD is on the request, so that no reply is cut off; the bound on
transfers is on new ones.

Deadlock is checked in every run. A step that changes nothing stands for
programs that have returned (`Exited`). In `Rdt` it is enabled as soon as the
sender has returned, since the receiver may then be left in `recvfrom`. `Stopped`
(`FtpSession`) is a client that has returned, or waits for a server that is
gone; `Idle` (`FtpTransfer`) are users who type nothing. What waits there for
ever is what the liveness properties are about.

## Fairness

`Rdt`: the sender's and the receiver's own steps and the timer are weakly fair,
for both processes are scheduled and the interval timer fires for as long as
the sender waits. Receiving is strongly fair per datagram: a datagram that is
in flight again and again while its addressee waits arrives in the end. This
is the only assumption on the path; it may lose any finite or infinite number
of copies, but not all. The end-of-file packet is sent once, so no fairness
helps it.

`FtpSession`: `ServerStep` and the client's reads are weakly fair, as both
processes are scheduled and `recv` returns what has arrived; so is the client's
empty `recv`, once no process of the server has the connection. Nothing is
assumed about typing, and no process has to end.

`FtpTransfer`: each child of each side goes on (weakly fair), and the client
forks when it has read the 150. Nobody has to type, connect or quit.
`TransfersEnd` needs no fairness of the users. It does not say that every transfer
ends, for in the code some do not: the loop of a server's child whose listener
is over or taken by another (`Loops`), an accept whose server's child has gone to
another listener (`Deserted`), and two children that met crosswise and both
receive (`BothReceive`). It says that all other children end; and that the first
is the only one of these, with a client that was killed (`LeftOver`), while no port
of a transfer is that of another session's, a port of the system or a control
port (`Apart`).

`DataTransfer`: both functions go on. A `recv` waits for the other end only,
which is not killed by assumption but may be.

## Proofs

`RdtProofs` proves for every `FileLen` and `DataSize > 0`:

* `Invariance`: `Spec => []IInv`;
* from it `TypeCorrect`, `PrefixCorrect`, `NoTruncation`, `NothingForgotten`,
  `BufferCorrect`, `HeadCorrect`, the action property `WaitsCorrect`, and
  `Implements`, the refinement of `ReliableTransfer`.

The only assumption is `FileAssumption` of `RdtNetwork`. The safety properties
are not inductive by themselves: that an acknowledgement covers only written
bytes needs every acknowledgement in flight to be at most `expec_seqno`
(`CountersInv`); that `expec_seqno` lands on the start of the next packet needs
every counter and packet to lie on the packet boundaries (`Boundaries`,
`PacketsInv`); that the slide stops at the right packet needs the window to be
contiguous; that the end-of-file packet comes last needs `EofInv`. `IInv` is
their conjunction and has one lemma per action. The arithmetic rests on
`MultiplesApart` and `SegmentsApart`: packets never overlap. The argument about
the window uses only `GrownType`: it never falls below one packet, so an empty
window is always open and `get_head` always finds a packet.

`RdtHistoryProofs` proves `SamplesCorrect`, the action property
`SampleUnambiguous`. It needs `SampleInv` besides `IInv`: a node of the window that
is not marked was sent once. That survives a timeout because only the head is
sent again and the window is sorted by `seqno`, so that no other node is at the
position the history counts.

`AlgorithmProofs` has the sequential parts.

* *Ports.* No session of up to 252 transfers repeats a port or meets its control
  port (`FreshPorts`), for every control port. The bound is sharp: with
  `port_counter` 256 the square is 0 modulo 65536 and the data port is the
  control port. That two bytes carry every port (`RoundTrip`) is in
  `ArithmeticLemmas`.
* *Lists.* `ChainSoundCorrect`, `WalksBackCorrect` and `KeepsContentsCorrect`, the
  refinement of `ListContents`, hold for any set of addresses, any values and
  lists of any length. `ChainSound` alone is not inductive: removing the tail of
  a path needs `prev` to lead back, a node put between two others needs the
  values to ascend, and a freed address that comes back needs the nodes of the
  chain to be different. `ListInv` says that there is a sequence of different
  nodes, all that are allocated, along which `next`, `prev` (path) and the
  values (early packets) are as they should be; each operation is shown to make
  a longer or a shorter one (`WithNode`, `HeadLeaves`, `TailLeaves`). `NodeAt`, the
  walk that the properties use, is that sequence by induction (`Walked`).
* *Congestion window.* `OnePerWindowCorrect` holds for every `ssthresh` and windows
  of up to 200 packets. The window is one packet or at least two (`WindowInv`),
  so that one acknowledgement in congestion avoidance adds what `Fraction` says
  for its number of whole packets, up to the rounding of one binade
  (`FineStep`, `FractionOf`). A window of k packets takes steps of the fraction of
  k until it reaches k + 1 and of k + 1 then (`OneMoreAtMost`, `OneMoreAtLeast`).
  The bound of 200 is a hypothesis because the claim ends somewhere: rounding
  always downwards, two extra acknowledgements make up for it to about 270
  packets only. One extra is enough to 68 packets, and from 69 on it is not; this
  is what the attempt to prove it for one brought to light.

`FtpSessionProofs` proves about a session, for all users, directories, control
ports and any number of transfers (from `ControlAssumption`): `TypeCorrect`,
`LockStepCorrect`, `OneMessageCorrect`, `PairedCorrect`, `SentPortCorrect`, and
`ImplementsAgreement`, the refinement of `TransferAgreement`. The inductive
invariant `SessionInv` is `LockStep` with the types. That both sides have started
the same transfers is not inductive: when the 150 is on its way the server is
one ahead, and that the client will follow with the same command and port needs
what the request said (`RequestInv`: the port it carries, or that it was
accepted), what the reply says (`ReplyInv`), and that never both are on their
way. Each reply of the server preserves it by `ReplyKeeps`, each quiet step of
the client by `QuietKeeps`; PORT needs `RoundTrip`. `path` is not in the
invariant: whatever CWD does, the two programs stay in step.

`FtpServerProofs` proves about the server's process alone, whatever is sent to it:

* `LoginCorrect`, the part of `SessionConsistent` about the flags (`LoginInv`).
* `OneTransferPerPortCorrect`: while `port_f` is set, `port` is that of the last PORT
  granted and nothing has spent it (`GrantInv`). It uses that a request waits for its
  reply alone (`WireInv`), for the history goes by the reply.
* `SessionConsistentCorrect`: the path of who is logged in starts with the user's name
  or the first directory entered before the password. `parse_dir` may stop half
  way and keeps what it has done, so this is an induction over the names: no
  step changes the first name. `PathInv` adds that before the password the path
  is what was entered since USER.
* `CwdAsAnsweredCorrect`: a path without `.` is where the reply says, since
  `parse_dir` on the rest of the names and `Resolve` on all of them take the same
  steps from the server's directory. It assumes that no user is called `..`: the
  first name of a path may be the user's, which `ls` would read as the parent
  while `parse_dir` keeps it.

`FtpTransferProofs` proves about any number of sessions, with any control ports and
files of any number of blocks (from `TransferAssumption` and `MarkAssumption`, that
the marks of the model are different values): `ReceivedIntactCorrect`,
`FileIntactCorrect`, and the action property `MeetsItsClientCorrect`. `TransferInv` is
their invariant; the last one adds `ListenInv`, that no two children listen on one
port, which `Bind` keeps and which survives `Accept` since a session without
a control port has no children. That a listing is one's own needs that whoever found `temp.txt` absent
is the only one who lists, or is known to share it (`OverlapInv`, `ListingInv`);
that a received file is whole needs that nobody stores while it is read and that
the connection holds just what has been read of it (`ReadInv`); that a stored
file is whole needs that it is as long as the child that stores it has got
(`FileInv`), and that the upload it takes is one client's blocks in order with
the mark last (`UpInv`). `LinkInv` pairs the children by their ports.

`DataTransferProofs` proves `CopyInStepCorrect`: for every length of the file and of
the buffer, every value left in `bytes_sent`, and an end that dies at any moment,
`send_file` and `receive_file` implement `FileCopy` while they are in step. The
invariant `CopyInv` reads the stream with a cursor, a place in the transmission
of the file (`Out` is the unit at it, `After` the next place): what is in flight
carries the receiver's place to the sender's, and the target is the file up to
there.

The functions of the models that are defined by recursion (`NodeAt`, `Resolve`,
`ParseDir`, `WindowAfter`) are reasoned about with `SetInduction`: a set of
naturals with 0 and the successor of each member is `Nat`. `Recursion` and
`Along` of `ArithmeticLemmas` apply it to a function over `0 .. n`.

Every invariant, action property and refinement of the passing runs is proved.
Only model-checked are the liveness properties (`SenderFinishes`,
`AnsweredWhileServed`, `TransfersEnd`, `BothEnd`): fairness and `ENABLED` are
beyond the installed provers. The hypothesis `LastTransfer <= 255` is where the claim
about ports ends, `MaxWindow <= 200` is a round number before that.

## Where the code and its texts differ

Checked, each by a run that TLC finds violated (see `findings` in
`PROJECT.json`): the end-of-file packet is sent once (`rdt_sender.c:170`); a
pending `SIGALRM` resends a packet that has not timed out (`rdt_sender.c:298`);
`CWD /` ends the server's process, and its client waits for good since main
keeps the connection (`linked_list.c:113`, `server.c:109`); a short `recv`
loses the rest of a file that was reported as complete (`data_transfer.c:35`);
two LISTs at a time share `temp.txt` (`server.c:618`); CWD is served after USER
alone, and what is entered then stays in front of the user's directory
(`server.c:274`, 280), so that a login can end in the directory of another user.

Plain from the code, without a run: the branch for three duplicate
acknowledgements is disabled (`rdt_sender.c:202`); early packets are not
acknowledged (`rdt_receiver.c:132`, the README asks for a duplicate ACK); the
window is compared as a float, not by its floor (`rdt_sender.c:125`); other
commands than USER and PASS are served after USER alone (`server.c:280`, the
comment at 286 says the user is authenticated); QUIT before USER is answered
530 (`server.c:283`); the 253rd port is the control port (`client.c:198`);
`ssthresh` can become 1, where the README of project 1 says max(CWND/2, 2)
(`rdt_sender.c:280`); `parse_dir` keeps `.` as a name of the path, so that `CWD
..` after `CWD .` is answered 200 and stays where it was, which is why
`CwdAsAnswered` speaks of paths without `.` only (`linked_list.c:121`); it leaves out
the leading slash too, while on an empty path `get_path` returns a blank and `ls`
looks from the root, so that after USER alone `CWD /docs` is answered 200 for
what `ls` found in `/docs` and the path is `docs` (`linked_list.c:76`), the other
thing `CwdAsAnswered` leaves out; a STOR empties its file while a RETR or a STOR
of the same user has it open (`data_transfer.c:16`), which `ReceivedIntact` and
`FileIntact` leave out through `shared` and `torn`; the child of one session meets
the listener of another whose port is equal (`server.c:594`); a CWD that
is refused with 501 may have moved the session (`linked_list.c:108-133`).

## What is not modelled

* The round-trip estimator: smoothing of measured times. Only which packets are
  sampled matters to the protocol. Plots, options, messages, `!LIST`, `!CWD`,
  `!PWD`. `remove_back` of project 1, which nothing calls, and the packet that a
  dropped duplicate leaks.
* Sequence numbers beyond 2^31, windows of 512 packets and more, files for which
  `bytes_sent` overflows.
* A `recv` that fails with -1 in `receive_file`, where the count `n` is a `size_t`
  and -1 passes the test `n <= 0` (`data_transfer.c:24`, 37-41): the connections of
  the model deliver or are closed.
* A CWD whose argument is a plain file, which `ls` accepts: `Entries` holds
  directories only.
* Two commands in one `recv`, or one command in two: the client sends the next
  only after the reply, and a command fits one segment.
* Handler against `printf` of the main loop: undefined in the C library. So is the
  last `fclose` of `receive_file` (`data_transfer.c:62`) after a cut or a LIST; the
  process ends right after it in any case.
* Children that have ended and are not waited for, and a process table that is
  full.

Abstractions of `FtpTransfer`: `bind` to port 2020 succeeds for every child of the
server (`SO_REUSEADDR`, and every connection has another peer); a connection to
a listener that has already accepted one, and sits in its queue, counts as
refused (in the code such a child is lost, and its own client's may then wait in
accept, which is why `TransfersEnd` leaves `Deserted` out although the model
alone would not need it); ports below 1024 and the server's own are in
`ClosedPorts`; what a child writes is in the file at once (stdio would keep part
of a block back); the client's child sends and takes its whole file in one step,
for nobody else has that file and the connection keeps what is in flight.
`SendFails` may or may not happen once the other end is gone, as the first send
after the end still succeeds. RETR finds its file: nothing removes it.

## Plan

1. `FtpTransfer` with files of several users and a STOR that fails to open.
2. Theorems about the runs that are violated: with a stream whose `recv` returns
   what it is asked for, and with one LIST at a time, what they refute holds.
3. Steps towards liveness that are safety: the measure which every step of
   `DataTransfer` and of the children in `FtpTransfer` lowers.
