-------------------------- MODULE TransferAgreement --------------------------
(***************************************************************************)
(* What the control connection of project_2 is for: server and client      *)
(* start the same transfers, one after the other, each with the same       *)
(* command and port.  The server starts one; the client follows before the *)
(* next, or never because it has ended.                                    *)
(***************************************************************************)
EXTENDS Naturals, Sequences

VARIABLES offered,   \* started by the server
          taken      \* started by the client

agreementVars == <<offered, taken>>

AgreementInit == offered = << >> /\ taken = << >>

Offer ==
  /\ offered = taken
  /\ Len(offered') = Len(offered) + 1
  /\ SubSeq(offered', 1, Len(offered)) = offered
  /\ UNCHANGED taken

Follow ==
  /\ offered # taken
  /\ taken' = offered
  /\ UNCHANGED offered

AgreementNext == Offer \/ Follow

AgreementSpec == AgreementInit /\ [][AgreementNext]_agreementVars
==============================================================================
