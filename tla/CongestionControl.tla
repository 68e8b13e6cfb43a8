-------------------------- MODULE CongestionControl --------------------------
(***************************************************************************)
(* The congestion window of the sender (project_1/code/rdt_sender.c): slow *)
(* start, congestion avoidance and the reaction to a timeout.              *)
(*                                                                         *)
(* window_size is a C float.  It is kept as a number of units of 2^-22,    *)
(* the spacing of the floats of [2, 4), so that the rounding of each       *)
(* "window_size += 1.0f / (int)window_size" is the rounding of the code.   *)
(***************************************************************************)
EXTENDS Integers

VARIABLES window_size,   \* the congestion window, in units of 1/One packets
          ssthresh       \* the slow start threshold, in packets

ccVars == <<window_size, ssthresh>>

One == 4194304

\* (int) window_size
Whole(w) == w \div One

\* The distance between two neighbouring floats at w: it doubles at every
\* power of two (windows below 512 packets).  The floats of [1, 2) are denser
\* than the unit, but the only window the code ever stores there is 1.
Spacing(w) ==
  LET S == {u \in {1, 2, 4, 8, 16, 32, 64, 128} : u = 1 \/ 2 * u * One <= w}
  IN  CHOOSE u \in S : \A v \in S : v <= u

\* Mutant: 1 / (int)window_size is a division of ints.
PlusIntegerFraction(w) == w + One * (1 \div Whole(w))

\* The float nearest to w + 1/Whole(w).
PlusFraction(w) ==
  LET k == Whole(w)
      u == Spacing(w + One \div k)
      r == w % u
  IN  (w - r) + u * ((2 * (r * k + One) + u * k) \div (2 * u * k))

\* The growth for one packet that leaves the sliding window: slow start below
\* the threshold, congestion avoidance from there on.
Grown(w, thresh) == IF w < thresh * One THEN w + One ELSE PlusFraction(w)

\* window_size > 3 ? window_size / 2 : 2, truncated into the int ssthresh.
HalfWindow(w) == IF w > 3 * One THEN w \div (2 * One) ELSE 2

CCInit ==
  /\ window_size = One
  /\ ssthresh = 64

\* A packet has been acknowledged and removed from the sliding window.
PacketAcked ==
  /\ window_size' = Grown(window_size, ssthresh)
  /\ UNCHANGED ssthresh

\* Mutant: the window is halved, as after a fast recovery.
WindowHalved ==
  /\ ssthresh' = HalfWindow(window_size)
  /\ window_size' = window_size \div 2

\* The alarm handler resets the window.
WindowReset ==
  /\ ssthresh' = HalfWindow(window_size)
  /\ window_size' = One
==============================================================================
