----------------------------- MODULE RdtHistory ------------------------------
(***************************************************************************)
(* Rdt with two history variables, for properties that relate a step of    *)
(* the sender to earlier ones.  They never constrain the protocol.         *)
(***************************************************************************)
EXTENDS Rdt

VARIABLES tx,         \* how often the packet at a position was sent: 0, 1, 2+
          raisedAt    \* next_seqno when the pending SIGALRM was raised

histVars == <<tx, raisedAt>>
hvars == <<vars, histVars>>

HInit ==
  /\ Init
  /\ tx = [s \in Offsets |-> 0]
  /\ raisedAt = 0

HeadSeqno == Head(sliding_window).p.seqno

\* The alarm handler runs in this step.
AlarmRuns == AlarmHandled \/ (StartWait /\ pending)

RecordSends ==
  tx' = CASE next_seqno' # next_seqno -> [tx EXCEPT ![next_seqno] = 1]
          [] AlarmRuns -> [tx EXCEPT ![HeadSeqno] = 2]
          [] OTHER -> tx

RecordAlarm ==
  raisedAt' = IF pending' /\ ~pending THEN next_seqno ELSE raisedAt

HNext == Next /\ RecordSends /\ RecordAlarm

HSpec == HInit /\ [][HNext]_hvars

HFairSpec == HSpec /\ Fairness

------------------------------------------------------------------------------
(* Properties *)

\* The packets of the window are in the order of the file, and those that are
\* not marked were sent once.
SampleInv ==
  /\ tx \in [Offsets -> {0, 1, 2}]
  /\ \A i, j \in 1 .. Len(sliding_window) :
       i < j => sliding_window[i].p.seqno < sliding_window[j].p.seqno
  /\ \A i \in 1 .. Len(sliding_window) :
       ~sliding_window[i].is_resend => tx[sliding_window[i].p.seqno] = 1

\* The round-trip time is sampled (lines 227-239) only from packets that were
\* sent exactly once: the acknowledgement of a packet sent twice is ambiguous.
SampleUnambiguous ==
  [][SlideHead /\ ~Head(sliding_window).is_resend => tx[HeadSeqno] = 1]_hvars

\* A packet is sent again only if the timer expired after it was first sent
\* ("did not receive an ACK for it before the timer expired").
ResentAfterExpiry ==
  [][StartWait /\ pending => HeadSeqno < raisedAt]_hvars
==============================================================================
