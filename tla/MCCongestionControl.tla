------------------------- MODULE MCCongestionControl -------------------------
(***************************************************************************)
(* The congestion window on its own: any sequence of acknowledged packets  *)
(* and timeouts, with windows of at most MaxWindow packets.                *)
(***************************************************************************)
EXTENDS CongestionControl

CONSTANT MaxWindow    \* bound of the model, in packets

ASSUME WindowAssumption == MaxWindow \in Nat \ {0}

CCNext ==
  \/ Whole(window_size) < MaxWindow /\ PacketAcked
  \/ WindowReset

CCSpec == CCInit /\ [][CCNext]_ccVars

\* The window after n more packets have been acknowledged.
WindowAfter(n) ==
  LET W[i \in 0 .. n] ==
        IF i = 0 THEN window_size ELSE Grown(W[i - 1], ssthresh)
  IN  W[n]

InAvoidance == window_size >= ssthresh * One

\* In congestion avoidance the window keeps pace with the acknowledgements,
\* although each float addition is rounded (lines 244-253): a window full of them
\* moves (int)window_size by at most one, and two more than that are enough for
\* the window to have gained a packet.  One is needed because the fraction shrinks
\* on the way; the other because from 69 packets on the roundings, all downwards
\* for some windows, add up to more than what that one makes good.
OnePerWindow ==
  InAvoidance =>
    /\ Whole(WindowAfter(Whole(window_size))) <= Whole(window_size) + 1
    /\ WindowAfter(Whole(window_size) + 2) >= window_size + One
==============================================================================
