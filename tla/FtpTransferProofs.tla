-------------------------- MODULE FtpTransferProofs --------------------------
(***************************************************************************)
(* Proofs about the data connections, for all sessions, control ports and  *)
(* file sizes and any number of transfers.                                 *)
(***************************************************************************)
EXTENDS FtpTransfer, ArithmeticLemmas, SequenceTheorems, TLAPS

------------------------------------------------------------------------------
(* The inductive invariant                                                 *)

ServerPlaces ==
  {"none", "connect", "append", "open", "send", "receive", "remove", "done", "killed"}
ClientPlaces ==
  {"none", "bind", "accept", "send", "receive", "done", "complete", "cut",
   "failed", "killed"}

\* What the file holds.
FileBlocks == Transfers \cup {Old, Hole}

TypeOK ==
  /\ session \in [Sessions -> {"new", "open", "left"}]
  /\ control_port \in [Sessions -> 0 .. PortSpace - 1]
  /\ port_counter \in [Sessions -> FirstTransfer .. LastTransfer + 1]
  /\ replied \in [Sessions -> BOOLEAN]
  /\ command \in [Transfers -> Commands \cup {None}]
  /\ spc \in [Transfers -> ServerPlaces]
  /\ cpc \in [Transfers -> ClientPlaces]
  /\ link \in [Transfers -> Transfers \cup {None}]
  /\ handle \in [Transfers -> Transfers \cup {None}]
  /\ spos \in [Transfers -> Nat]
  /\ up \in [Transfers -> Seq(Transfers \cup {End})]
  /\ down \in [Transfers -> Seq(FileBlocks \cup {End})]
  /\ file \in Seq(FileBlocks)
  /\ temp \in Transfers \cup {None}
  /\ listing \in [Transfers -> Seq(Transfers)]
  /\ shared \subseteq Transfers
  /\ torn \in BOOLEAN

\* Both programs have forked only for the transfers that the session has come to.
ForkInv ==
  /\ \A s \in Sessions :
       /\ session[s] # "new" => control_port[s] \in 1 .. PortSpace - 1
       /\ replied[s] => session[s] = "open" /\ port_counter[s] <= LastTransfer
  /\ \A t \in Transfers :
       /\ session[t[1]] = "new" => spc[t] = "none" /\ cpc[t] = "none"
       /\ session[t[1]] = "open" /\ cpc[t] # "none" => t[2] < port_counter[t[1]]
       /\ session[t[1]] = "open" /\ spc[t] # "none" =>
            t[2] < port_counter[t[1]] \/ (t[2] = port_counter[t[1]] /\ replied[t[1]])

\* A child is where its command takes it.
CommandInv ==
  \A t \in Transfers :
    /\ spc[t] # "none" => command[t] \in Commands
    /\ spc[t] \in {"append", "remove"} => command[t] = "LIST"
    /\ spc[t] \in {"send", "killed"} => command[t] \in {"LIST", "RETR"}
    /\ spc[t] = "receive" => command[t] = "STOR"
    /\ spc[t] \in {"none", "connect", "append", "open"} => spos[t] = 0

\* A child of the client is accepted by one child of the server, on one port.
LinkInv ==
  /\ \A t \in Transfers :
       /\ spc[t] \in {"none", "connect"} <=> link[t] = None
       /\ link[t] # None =>
            /\ cpc[link[t]] \notin {"none", "bind", "accept"}
            /\ PortOfTransfer(t) = PortOfTransfer(link[t])
  /\ \A t, u \in Transfers : link[t] = link[u] /\ link[t] # None => t = u

\* What a client's child has sent: its file, or a part, and the end mark.
UpInv ==
  \A c \in Transfers :
    /\ cpc[c] \in {"none", "bind", "accept", "send"} => up[c] = << >>
    /\ \A i \in 1 .. Len(up[c]) : up[c][i] = IF i <= Blocks THEN c ELSE End

\* While one child stores, the file is what it has taken.
FileInv ==
  /\ ~torn =>
       /\ \A t, u \in Storing : t = u
       /\ \A t \in Storing :
            /\ Len(file) = spos[t] /\ spos[t] <= Blocks
            /\ \A i \in 1 .. spos[t] : file[i] = link[t]
  /\ FileIntact

\* Nobody stores while a file is read, or it is known that they overlap.
ReadInv ==
  \A t \in Reading \ shared :
    /\ Storing = {} /\ ~torn
    /\ spos[t] <= Len(file)
    /\ ~ClientOver(link[t]) => down[link[t]] = SubSeq(file, 1, spos[t])

ListPlaces == {"open", "send", "remove"}

\* While temp.txt is there, somebody has still to remove it.
TempInv == temp # None => Listing # {}

\* Two children that list at the same time are known to share temp.txt.
OverlapInv ==
  \A t, u \in Transfers :
    /\ command[t] = "LIST" /\ spc[t] \in ListPlaces
    /\ command[u] = "LIST" /\ spc[u] \in ListPlaces
    /\ t # u
    => t \in shared

\* A child that does not share temp.txt finds its own listing in it.
ListingInv ==
  \A t \in Transfers :
    /\ spc[t] \in {"none", "connect", "append"} => listing[t] = << >> /\ temp # t
    /\ command[t] = "LIST" /\ spc[t] = "send" => handle[t] # None
    /\ command[t] = "LIST" /\ spc[t] \in {"open", "send"} /\ t \notin shared =>
         temp = t /\ listing[t] = <<t>>
    /\ command[t] = "LIST" /\ spc[t] = "send" /\ t \notin shared =>
         /\ handle[t] = t
         /\ spos[t] <= 1
         /\ ~ClientOver(link[t]) => down[link[t]] = SubSeq(<<t>>, 1, spos[t])

ListInv == TempInv /\ OverlapInv /\ ListingInv

\* What receive_file of client's child c has made of what t was asked for.
Intact(t, c) == IF command[t] = "LIST" THEN Got(c) = <<t>> ELSE Whole(Got(c))

\* The end mark comes last, after all of what was asked for.
EndInv ==
  /\ \A c \in Transfers : cpc[c] = "complete" => Ended(c)
  /\ \A c \in Transfers : cpc[c] \in {"none", "bind", "accept"} => down[c] = << >>
  /\ \A t \in Transfers :
       /\ spc[t] \in {"append", "open", "receive"} => down[link[t]] = << >>
       /\ command[t] = "STOR" /\ link[t] # None => down[link[t]] = << >>
       /\ spc[t] \in {"send", "killed"} => ~Ended(link[t])
       /\ spc[t] \in {"remove", "done"} /\ t \notin shared /\ Ended(link[t]) =>
            Intact(t, link[t])

TransferInv ==
  /\ TypeOK /\ ForkInv /\ CommandInv /\ LinkInv
  /\ UpInv /\ FileInv /\ ReadInv /\ ListInv /\ EndInv

------------------------------------------------------------------------------
(* What the proofs of the steps share                                      *)

LEMMA TransferShape ==
  ASSUME NEW t \in Transfers
  PROVE  /\ t[1] \in Sessions
         /\ t[2] \in FirstTransfer .. LastTransfer
         /\ t = <<t[1], t[2]>>
BY DEF Transfers

LEMMA Marks ==
  /\ None \notin Transfers /\ Old \notin Transfers /\ Hole \notin Transfers
  /\ End \notin Transfers /\ End # Old /\ End # Hole
  /\ Blocks \in Nat /\ Blocks > 0
BY MarkAssumption, TransferAssumption

LEMMA Bounds ==
  FirstTransfer = 4 /\ LastTransfer \in Nat /\ LastTransfer >= FirstTransfer
BY TransferAssumption DEF LastTransfer, FirstTransfer

\* What a step of a session or of the client's children leaves of the invariant
\* when it changes nothing else and no child that is over comes back.
LEMMA ServerQuiet ==
  ASSUME TypeOK, LinkInv, FileInv, ReadInv, ListInv,
         UNCHANGED <<command, serverVars, down, file, tempVars, historyVars>>,
         \A c \in Transfers : ClientOver(c) => ClientOver(c)'
  PROVE  FileInv' /\ ReadInv' /\ ListInv'
<1>1. \A t \in Transfers : link[t] \in Transfers \cup {None}
  BY DEF TypeOK
<1>2. /\ command' = command /\ spc' = spc /\ link' = link /\ handle' = handle
      /\ spos' = spos /\ down' = down /\ file' = file /\ temp' = temp
      /\ listing' = listing /\ shared' = shared /\ torn' = torn
  BY DEF serverVars, tempVars, historyVars
<1>3. Storing' = Storing /\ Reading' = Reading /\ Listing' = Listing
  BY <1>2 DEF Storing, Reading, Listing, Does
<1>4. FileInv'
  BY <1>2, <1>3 DEF FileInv, FileIntact, Whole
<1>5. \A t \in Transfers : link[t] # None /\ ~ClientOver(link[t])' => ~ClientOver(link[t])
  BY <1>1, <1>2 DEF ClientOver
<1>6. \A t \in Transfers : spc[t] = "send" => link[t] # None
  BY DEF LinkInv
<1>7. ReadInv'
  BY <1>2, <1>3, <1>5, <1>6 DEF ReadInv, Reading, Does
<1>8. ListingInv'
  BY <1>2, <1>5, <1>6 DEF ListInv, ListingInv
<1>9. TempInv' /\ OverlapInv'
  BY <1>2, <1>3 DEF ListInv, TempInv, OverlapInv
<1> QED BY <1>4, <1>7, <1>8, <1>9 DEF ListInv

------------------------------------------------------------------------------
(* The accept loop and the sessions                                        *)

LEMMA AcceptFailsKeeps ==
  ASSUME TransferInv, AcceptFails
  PROVE  TransferInv'
<1> USE DEF TransferInv
<1>1. TypeOK' /\ ForkInv' /\ CommandInv'
  BY DEF AcceptFails, TypeOK, ForkInv, CommandInv, serverVars, clientVars, tempVars, historyVars
<1>2. LinkInv' /\ UpInv' /\ EndInv'
  BY DEF AcceptFails, LinkInv, UpInv, EndInv, PortOfTransfer, Ended, Intact, Got, Whole,
     serverVars, clientVars, historyVars
<1>3. FileInv' /\ ReadInv' /\ ListInv'
  BY ServerQuiet DEF AcceptFails, ClientOver, clientVars
<1> QED BY <1>1, <1>2, <1>3

LEMMA PortRange ==
  ASSUME NEW q \in 1 .. PortSpace - 1
  PROVE  q \in 0 .. PortSpace - 1
<1>1. PortSpace \in Int
  BY ShortRange
<1> QED BY <1>1

\* The control port is chosen before there is any transfer.
LEMMA AcceptKeeps ==
  ASSUME TransferInv, NEW s \in Sessions, Accept(s)
  PROVE  TransferInv'
<1> USE DEF TransferInv
<1>1. PICK q \in ControlPorts[s] : control_port' = [control_port EXCEPT ![s] = q]
  BY DEF Accept
<1>2. q \in 1 .. PortSpace - 1 /\ q \in 0 .. PortSpace - 1
  <2>1. ControlPorts[s] \subseteq 1 .. PortSpace - 1
    BY TransferAssumption
  <2>2. q \in 1 .. PortSpace - 1
    BY <2>1
  <2>3. q \in 0 .. PortSpace - 1
    BY <2>2, PortRange
  <2> QED BY <2>2, <2>3
<1>3. /\ session[s] = "new"
      /\ session' = [session EXCEPT ![s] = "open"]
      /\ UNCHANGED <<port_counter, replied, command, spc, link, handle, spos, cpc, up,
                     down, file, temp, listing, shared, torn>>
  BY DEF Accept, serverVars, clientVars, tempVars, historyVars
<1>4. TypeOK'
  BY <1>1, <1>2, <1>3 DEF TypeOK
<1>5. ForkInv'
  BY <1>1, <1>2, <1>3, TransferShape DEF TypeOK, ForkInv
<1>6. CommandInv'
  BY <1>3 DEF CommandInv
<1>7. LinkInv'
  <2>1. \A t \in Transfers : link[t] # None =>
          /\ link[t] \in Transfers
          /\ t[1] # s /\ link[t][1] # s
    <3> SUFFICES ASSUME NEW t \in Transfers, link[t] # None
                 PROVE  link[t] \in Transfers /\ t[1] # s /\ link[t][1] # s
      OBVIOUS
    <3>1. link[t] \in Transfers
      BY DEF TypeOK
    <3>2. spc[t] # "none" /\ cpc[link[t]] # "none"
      BY DEF LinkInv
    <3> QED BY <1>3, <3>1, <3>2 DEF ForkInv
  <2>2. \A t \in Transfers : t[1] # s => PortOfTransfer(t)' = PortOfTransfer(t)
    BY <1>1, TransferShape DEF PortOfTransfer, TypeOK
  <2> QED BY <1>3, <2>1, <2>2 DEF LinkInv
<1>8. UpInv' /\ EndInv'
  BY <1>3 DEF UpInv, EndInv, Ended, Intact, Got, Whole
<1>9. FileInv' /\ ReadInv' /\ ListInv'
  BY <1>3, ServerQuiet DEF ClientOver, serverVars, tempVars, historyVars
<1> QED BY <1>4, <1>5, <1>6, <1>7, <1>8, <1>9

\* The transfer that a session has come to.
LEMMA CurrentShape ==
  ASSUME TypeOK, NEW s \in Sessions, port_counter[s] <= LastTransfer
  PROVE  /\ Current(s) \in Transfers
         /\ Current(s)[1] = s
         /\ Current(s)[2] = port_counter[s]
         /\ \A t \in Transfers : t[1] = s /\ t[2] = port_counter[s] <=> t = Current(s)
<1>1. port_counter[s] \in FirstTransfer .. LastTransfer
  BY Bounds DEF TypeOK
<1> QED BY <1>1, TransferShape DEF Current, Transfers

\* A transfer that was not started has not been touched.
LEMMA ServerForksKeeps ==
  ASSUME TransferInv, NEW s \in Sessions, ServerForks(s)
  PROVE  TransferInv'
<1> USE DEF TransferInv
<1> DEFINE n == Current(s)
<1>1. /\ session[s] = "open" /\ ~replied[s] /\ port_counter[s] <= LastTransfer
      /\ spc' = [spc EXCEPT ![n] = "connect"]
      /\ replied' = [replied EXCEPT ![s] = TRUE]
      /\ UNCHANGED <<session, control_port, port_counter, link, handle, spos, cpc, up,
                     down, file, temp, listing, shared, torn>>
  BY DEF ServerForks, clientVars, tempVars, historyVars
<1>2. PICK c \in Commands : command' = [command EXCEPT ![n] = c]
  BY DEF ServerForks
<1>3. /\ n \in Transfers /\ n[1] = s /\ n[2] = port_counter[s]
      /\ \A t \in Transfers : t[1] = s /\ t[2] = port_counter[s] <=> t = n
  BY <1>1, CurrentShape
<1> HIDE DEF n
<1>4. spc[n] = "none" /\ link[n] = None /\ cpc[n] = "none"
  <2>1. port_counter[s] \in Int
    BY Bounds DEF TypeOK
  <2> QED BY <1>1, <1>3, <2>1 DEF ForkInv, LinkInv
<1>5. TypeOK'
  BY <1>1, <1>2, <1>3 DEF TypeOK, ServerPlaces
<1>6. ForkInv'
  BY <1>1, <1>3, TransferShape DEF TypeOK, ForkInv
<1>7. CommandInv'
  BY <1>1, <1>2, <1>3, <1>4 DEF TypeOK, CommandInv
<1>8. LinkInv'
  BY <1>1, <1>3, <1>4 DEF TypeOK, LinkInv, PortOfTransfer
<1>9. UpInv'
  BY <1>1 DEF UpInv
<1>10. /\ Storing' = Storing /\ Reading' = Reading /\ Listing' = Listing
  BY <1>1, <1>2, <1>3, <1>4 DEF TypeOK, Storing, Reading, Listing, Does
<1>11. FileInv'
  BY <1>1, <1>10 DEF FileInv, FileIntact, Whole
<1>12. ReadInv'
  BY <1>1, <1>10 DEF ReadInv, ClientOver
<1>13. TempInv' /\ OverlapInv' /\ ListingInv'
  BY <1>1, <1>2, <1>3, <1>4, <1>10
     DEF TypeOK, ListInv, TempInv, OverlapInv, ListingInv, ListPlaces, ClientOver
<1>14. EndInv'
  BY <1>1, <1>2, <1>3, <1>4 DEF TypeOK, EndInv, Intact, Ended, Got, Whole
<1> QED BY <1>5, <1>6, <1>7, <1>8, <1>9, <1>11, <1>12, <1>13, <1>14 DEF ListInv

LEMMA ServerRefusesKeeps ==
  ASSUME TransferInv, NEW s \in Sessions, ServerRefuses(s)
  PROVE  TransferInv'
<1> USE DEF TransferInv
<1>1. /\ session[s] = "open" /\ ~replied[s] /\ port_counter[s] < LastTransfer
      /\ port_counter' = [port_counter EXCEPT ![s] = @ + 1]
      /\ UNCHANGED <<session, control_port, replied, command, spc, link, handle, spos, cpc,
                     up, down, file, temp, listing, shared, torn>>
  BY DEF ServerRefuses, serverVars, clientVars, tempVars, historyVars
<1>2. /\ port_counter \in [Sessions -> 4 .. LastTransfer + 1]
      /\ LastTransfer \in Nat
  BY Bounds DEF TypeOK
<1>3. port_counter[s] + 1 \in 4 .. LastTransfer + 1
  BY <1>1, <1>2
<1>4. TypeOK'
  BY <1>1, <1>2, <1>3, Bounds DEF TypeOK
<1>5. ForkInv'
  <2>1. \A r \in Sessions :
          /\ port_counter[r] \in Int
          /\ port_counter'[r] = IF r = s THEN port_counter[r] + 1 ELSE port_counter[r]
    BY <1>1, <1>2
  <2>2. \A t \in Transfers : t[1] \in Sessions /\ t[2] \in Int
    BY TransferShape, Bounds
  <2> QED BY <1>1, <2>1, <2>2 DEF ForkInv
<1>6. CommandInv' /\ LinkInv'
  BY <1>1 DEF CommandInv, LinkInv, PortOfTransfer
<1>7. UpInv' /\ EndInv'
  BY <1>1 DEF UpInv, EndInv, Ended, Intact, Got, Whole
<1>8. FileInv' /\ ReadInv' /\ ListInv'
  BY <1>1, ServerQuiet DEF ClientOver, serverVars, tempVars, historyVars
<1> QED BY <1>4, <1>5, <1>6, <1>7, <1>8

LEMMA ClientForksKeeps ==
  ASSUME TransferInv, NEW s \in Sessions, ClientForks(s)
  PROVE  TransferInv'
<1> USE DEF TransferInv
<1> DEFINE n == Current(s)
<1>1. /\ session[s] = "open" /\ replied[s]
      /\ cpc' = [cpc EXCEPT ![n] = "bind"]
      /\ port_counter' = [port_counter EXCEPT ![s] = @ + 1]
      /\ replied' = [replied EXCEPT ![s] = FALSE]
      /\ UNCHANGED <<session, control_port, command, spc, link, handle, spos, up,
                     down, file, temp, listing, shared, torn>>
  BY DEF ClientForks, serverVars, tempVars, historyVars
<1>2. port_counter[s] <= LastTransfer
  BY <1>1 DEF ForkInv
<1>3. /\ n \in Transfers /\ n[1] = s /\ n[2] = port_counter[s]
      /\ \A t \in Transfers : t[1] = s /\ t[2] = port_counter[s] <=> t = n
  BY <1>2, CurrentShape
<1> HIDE DEF n
<1>4. /\ port_counter \in [Sessions -> 4 .. LastTransfer + 1]
      /\ LastTransfer \in Nat
  BY Bounds DEF TypeOK
<1>5. port_counter[s] + 1 \in 4 .. LastTransfer + 1
  BY <1>2, <1>4
<1>6. cpc[n] = "none"
  BY <1>1, <1>3, <1>4 DEF ForkInv
<1>7. TypeOK'
  BY <1>1, <1>3, <1>4, <1>5, Bounds DEF TypeOK, ClientPlaces
<1>8. ForkInv'
  <2>1. \A r \in Sessions :
          /\ port_counter[r] \in Int
          /\ port_counter'[r] = IF r = s THEN port_counter[r] + 1 ELSE port_counter[r]
          /\ r = s => ~replied'[r]
          /\ r # s => (replied'[r] <=> replied[r])
    BY <1>1, <1>4 DEF TypeOK
  <2>2. \A t \in Transfers :
          /\ t[1] \in Sessions /\ t[2] \in Int
          /\ cpc'[t] = IF t = n THEN "bind" ELSE cpc[t]
    BY <1>1, TransferShape, Bounds DEF TypeOK
  <2> QED BY <1>1, <1>3, <2>1, <2>2 DEF ForkInv
<1>9. CommandInv'
  BY <1>1 DEF CommandInv
<1>10. LinkInv'
  <2>1. \A t \in Transfers : link[t] # n
    BY <1>3, <1>6, Marks DEF LinkInv
  <2> QED BY <1>1, <1>3, <2>1 DEF TypeOK, LinkInv, PortOfTransfer
<1>11. UpInv'
  BY <1>1, <1>3, <1>6 DEF TypeOK, UpInv
<1>12. EndInv'
  BY <1>1, <1>3, <1>6 DEF TypeOK, EndInv, Ended, Intact, Got, Whole
<1>13. \A c \in Transfers : ClientOver(c) => ClientOver(c)'
  BY <1>1, <1>3, <1>6 DEF TypeOK, ClientOver
<1>14. FileInv' /\ ReadInv' /\ ListInv'
  BY <1>1, <1>13, ServerQuiet DEF serverVars, tempVars, historyVars
<1> QED BY <1>7, <1>8, <1>9, <1>10, <1>11, <1>12, <1>14

LEMMA QuitKeeps ==
  ASSUME TransferInv, NEW s \in Sessions, Quit(s)
  PROVE  TransferInv'
<1> USE DEF TransferInv
<1>1. /\ session[s] = "open" /\ ~replied[s]
      /\ session' = [session EXCEPT ![s] = "left"]
      /\ UNCHANGED <<control_port, port_counter, replied, command, spc, link, handle, spos,
                     cpc, up, down, file, temp, listing, shared, torn>>
  BY DEF Quit, serverVars, clientVars, tempVars, historyVars
<1>2. TypeOK'
  BY <1>1 DEF TypeOK
<1>3. ForkInv'
  BY <1>1, TransferShape DEF TypeOK, ForkInv
<1>4. CommandInv' /\ LinkInv'
  BY <1>1 DEF CommandInv, LinkInv, PortOfTransfer
<1>5. UpInv' /\ EndInv'
  BY <1>1 DEF UpInv, EndInv, Ended, Intact, Got, Whole
<1>6. FileInv' /\ ReadInv' /\ ListInv'
  BY <1>1, ServerQuiet DEF ClientOver, serverVars, tempVars, historyVars
<1> QED BY <1>2, <1>3, <1>4, <1>5, <1>6

\* The blocks of a part of an upload.
LEMMA UploadPart ==
  ASSUME NEW t \in Transfers, NEW n \in 0 .. Blocks
  PROVE  /\ SubSeq(Upload(t), 1, n) \in Seq(Transfers)
         /\ Len(SubSeq(Upload(t), 1, n)) = n
         /\ \A i \in 1 .. n : SubSeq(Upload(t), 1, n)[i] = t
<1>1. \A i \in 1 .. n : Upload(t)[i] = t
  BY Marks DEF Upload
<1>2. n \in Int /\ 1 \in Int /\ \A i \in 1 .. n : Upload(t)[i] \in Transfers
  BY <1>1, Marks
<1>3. /\ SubSeq(Upload(t), 1, n) \in Seq(Transfers)
      /\ Len(SubSeq(Upload(t), 1, n)) = IF 1 <= n THEN n - 1 + 1 ELSE 0
      /\ \A i \in 1 .. n - 1 + 1 : SubSeq(Upload(t), 1, n)[i] = Upload(t)[1 + i - 1]
  BY <1>2, SubSeqProperties
<1> QED BY <1>1, <1>3, Marks

LEMMA InterruptKeeps ==
  ASSUME TransferInv, NEW s \in Sessions, Interrupt(s)
  PROVE  TransferInv'
<1> USE DEF TransferInv
<1>1. /\ session[s] = "open"
      /\ session' = [session EXCEPT ![s] = "left"]
      /\ replied' = [replied EXCEPT ![s] = FALSE]
      /\ cpc' = [t \in Transfers |-> IF t[1] = s /\ ~ClientOver(t) THEN "killed" ELSE cpc[t]]
      /\ UNCHANGED <<control_port, port_counter, command, spc, link, handle, spos,
                     down, file, temp, listing, shared, torn>>
  BY DEF Interrupt, serverVars, tempVars, historyVars
<1>2. PICK n \in 0 .. Blocks :
        up' = [t \in Transfers |->
                 IF t[1] = s /\ cpc[t] = "send" THEN SubSeq(Upload(t), 1, n) ELSE up[t]]
  BY DEF Interrupt
<1>3. \A t \in Transfers :
        /\ SubSeq(Upload(t), 1, n) \in Seq(Transfers \cup {End})
        /\ Len(SubSeq(Upload(t), 1, n)) = n
        /\ \A i \in 1 .. n : SubSeq(Upload(t), 1, n)[i] = t
  BY UploadPart
<1>4. TypeOK'
  <2>1. up' \in [Transfers -> Seq(Transfers \cup {End})]
    BY <1>2, <1>3 DEF TypeOK
  <2>2. cpc' \in [Transfers -> ClientPlaces]
    BY <1>1 DEF TypeOK, ClientPlaces
  <2> QED BY <1>1, <2>1, <2>2 DEF TypeOK
<1>5. ForkInv'
  BY <1>1, TransferShape DEF TypeOK, ForkInv
<1>6. CommandInv'
  BY <1>1 DEF CommandInv
<1>7. LinkInv'
  BY <1>1 DEF TypeOK, LinkInv, PortOfTransfer
<1>8. UpInv'
  <2> SUFFICES ASSUME NEW c \in Transfers
               PROVE  /\ cpc'[c] \in {"none", "bind", "accept", "send"} => up'[c] = << >>
                      /\ \A i \in 1 .. Len(up'[c]) : up'[c][i] = IF i <= Blocks THEN c ELSE End
    BY DEF UpInv
  <2>1. CASE c[1] = s /\ cpc[c] = "send"
    <3>1. up'[c] = SubSeq(Upload(c), 1, n) /\ cpc'[c] = "killed"
      BY <1>1, <1>2, <2>1 DEF ClientOver
    <3> QED BY <1>3, <3>1, Marks
  <2>2. CASE ~(c[1] = s /\ cpc[c] = "send")
    BY <1>1, <1>2, <2>2 DEF UpInv
  <2> QED BY <2>1, <2>2
<1>9. EndInv'
  BY <1>1 DEF TypeOK, EndInv, Ended, Intact, Got, Whole, ClientOver
<1>10. \A c \in Transfers : ClientOver(c) => ClientOver(c)'
  BY <1>1 DEF ClientOver
<1>11. FileInv' /\ ReadInv' /\ ListInv'
  BY <1>1, <1>10, ServerQuiet DEF serverVars, tempVars, historyVars
<1> QED BY <1>4, <1>5, <1>6, <1>7, <1>8, <1>9, <1>11

------------------------------------------------------------------------------
(* The client's children                                                   *)

LEMMA BindKeeps ==
  ASSUME TransferInv, NEW t \in Transfers, Bind(t)
  PROVE  TransferInv'
<1> USE DEF TransferInv
<1>1. /\ cpc[t] = "bind"
      /\ cpc' = [cpc EXCEPT ![t] = IF CanBind(PortOfTransfer(t)) THEN "accept" ELSE "failed"]
      /\ UNCHANGED <<session, control_port, port_counter, replied, command, spc, link, handle,
                     spos, up, down, file, temp, listing, shared, torn>>
  BY DEF Bind, sessionVars, serverVars, tempVars, historyVars
<1>2. PICK q \in {"accept", "failed"} : cpc' = [cpc EXCEPT ![t] = q]
  BY <1>1
<1>3. TypeOK' /\ ForkInv' /\ CommandInv'
  <2>1. TypeOK'
    BY <1>1, <1>2 DEF TypeOK, ClientPlaces
  <2>2. \A c \in Transfers : cpc'[c] # "none" => cpc[c] # "none"
    BY <1>1, <1>2 DEF TypeOK
  <2>3. \A c \in Transfers : cpc[c] = "none" => cpc'[c] = "none"
    BY <1>1, <1>2 DEF TypeOK
  <2>4. ForkInv' /\ CommandInv'
    BY <1>1, <2>2, <2>3 DEF ForkInv, CommandInv
  <2> QED BY <2>1, <2>4
<1>4. LinkInv' /\ UpInv'
  BY <1>1, <1>2, Marks DEF TypeOK, LinkInv, UpInv, PortOfTransfer
<1>5. EndInv'
  BY <1>1, <1>2 DEF TypeOK, EndInv, Ended, Intact, Got, Whole
<1>6. \A c \in Transfers : ClientOver(c) => ClientOver(c)'
  BY <1>1, <1>2 DEF TypeOK, ClientOver
<1>7. FileInv' /\ ReadInv' /\ ListInv'
  BY <1>1, <1>6, ServerQuiet DEF serverVars, tempVars, historyVars
<1> QED BY <1>3, <1>4, <1>5, <1>7

LEMMA ClientSendKeeps ==
  ASSUME TransferInv, NEW t \in Transfers, ClientSend(t)
  PROVE  TransferInv'
<1> USE DEF TransferInv
<1> DEFINE sent == Append(Upload(t), End)
<1>1. /\ cpc[t] = "send"
      /\ up' = [up EXCEPT ![t] = sent]
      /\ cpc' = [cpc EXCEPT ![t] = "done"]
      /\ UNCHANGED <<session, control_port, port_counter, replied, command, spc, link, handle,
                     spos, down, file, temp, listing, shared, torn>>
  BY DEF ClientSend, sessionVars, serverVars, tempVars, historyVars
<1>2. /\ sent \in Seq(Transfers \cup {End})
      /\ \A i \in 1 .. Len(sent) : sent[i] = IF i <= Blocks THEN t ELSE End
  <2>1. /\ Upload(t) \in Seq(Transfers \cup {End}) /\ Len(Upload(t)) = Blocks
        /\ \A i \in 1 .. Blocks : Upload(t)[i] = t
    BY Marks DEF Upload
  <2>2. End \in Transfers \cup {End}
    OBVIOUS
  <2>3. /\ sent \in Seq(Transfers \cup {End})
        /\ Len(sent) = Blocks + 1
        /\ \A i \in 1 .. Blocks : sent[i] = Upload(t)[i]
        /\ sent[Blocks + 1] = End
    BY <2>1, <2>2, AppendProperties
  <2> HIDE DEF sent
  <2>4. \A i \in 1 .. Blocks + 1 : i \in 1 .. Blocks \/ (i = Blocks + 1 /\ ~(i <= Blocks))
    BY Marks
  <2> QED BY <2>1, <2>3, <2>4
<1> HIDE DEF sent
<1>3. TypeOK' /\ ForkInv' /\ CommandInv'
  BY <1>1, <1>2, TransferShape DEF TypeOK, ForkInv, CommandInv, ClientPlaces
<1>4. LinkInv'
  BY <1>1, Marks DEF TypeOK, LinkInv, PortOfTransfer
<1>5. UpInv'
  <2>1. \A c \in Transfers : up'[c] = IF c = t THEN sent ELSE up[c]
    BY <1>1 DEF TypeOK
  <2>2. \A c \in Transfers : cpc'[c] = IF c = t THEN "done" ELSE cpc[c]
    BY <1>1 DEF TypeOK
  <2> QED BY <1>2, <2>1, <2>2 DEF UpInv
<1>6. EndInv'
  BY <1>1 DEF TypeOK, EndInv, Ended, Intact, Got, Whole
<1>7. \A c \in Transfers : ClientOver(c) => ClientOver(c)'
  BY <1>1 DEF TypeOK, ClientOver
<1>8. FileInv' /\ ReadInv' /\ ListInv'
  BY <1>1, <1>7, ServerQuiet DEF serverVars, tempVars, historyVars
<1> QED BY <1>3, <1>4, <1>5, <1>6, <1>8

\* A child of the client ends; it is complete only when the end mark has come.
LEMMA ClientEndKeeps ==
  ASSUME TransferInv, NEW t \in Transfers,
         ClientSendFails(t) \/ ClientComplete(t) \/ ClientCut(t)
  PROVE  TransferInv'
<1> USE DEF TransferInv
<1>1. PICK q \in {"killed", "complete", "cut"} :
        /\ cpc' = [cpc EXCEPT ![t] = q]
        /\ q = "complete" => Ended(t)
  BY DEF ClientSendFails, ClientComplete, ClientCut
<1>2. /\ cpc[t] \in {"send", "receive"}
      /\ UNCHANGED <<session, control_port, port_counter, replied, command, spc, link, handle,
                     spos, up, down, file, temp, listing, shared, torn>>
  BY DEF ClientSendFails, ClientComplete, ClientCut, sessionVars, serverVars, tempVars,
     historyVars
<1>3. TypeOK' /\ ForkInv' /\ CommandInv'
  BY <1>1, <1>2, TransferShape DEF TypeOK, ForkInv, CommandInv, ClientPlaces
<1>4. LinkInv' /\ UpInv'
  BY <1>1, <1>2, Marks DEF TypeOK, LinkInv, UpInv, PortOfTransfer
<1>5. EndInv'
  BY <1>1, <1>2 DEF TypeOK, EndInv, Ended, Intact, Got, Whole
<1>6. \A c \in Transfers : ClientOver(c) => ClientOver(c)'
  BY <1>1, <1>2 DEF TypeOK, ClientOver
<1>7. FileInv' /\ ReadInv' /\ ListInv'
  BY <1>2, <1>6, ServerQuiet DEF serverVars, tempVars, historyVars
<1> QED BY <1>3, <1>4, <1>5, <1>7

------------------------------------------------------------------------------
(* The server's children                                                   *)

\* connect and accept
LEMMA ConnectKeeps ==
  ASSUME TransferInv, NEW t \in Transfers, Connect(t)
  PROVE  TransferInv'
<1> USE DEF TransferInv
<1>1. PICK c \in Transfers : Meet(t, c)
  BY DEF Connect
<1>2. /\ spc[t] = "connect" /\ cpc[c] = "accept"
      /\ PortOfTransfer(t) = PortOfTransfer(c)
      /\ link' = [link EXCEPT ![t] = c]
      /\ spc' = [spc EXCEPT ![t] = IF command[t] = "LIST" THEN "append" ELSE "open"]
      /\ cpc' = [cpc EXCEPT ![c] = IF command[c] = "STOR" THEN "send" ELSE "receive"]
      /\ UNCHANGED <<session, control_port, port_counter, replied, command, handle,
                     spos, up, down, file, temp, listing, shared, torn>>
  BY <1>1 DEF Meet, sessionVars, tempVars, historyVars
<1>3. link[t] = None /\ down[c] = << >> /\ up[c] = << >> /\ spos[t] = 0
      /\ command[t] \in Commands
  BY <1>2 DEF LinkInv, EndInv, UpInv, CommandInv
<1>4. /\ \A u \in Transfers :
           /\ link'[u] = IF u = t THEN c ELSE link[u]
           /\ spc'[u] = IF u = t THEN (IF command[t] = "LIST" THEN "append" ELSE "open")
                                 ELSE spc[u]
           /\ cpc'[u] = IF u = c THEN (IF command[c] = "STOR" THEN "send" ELSE "receive")
                                 ELSE cpc[u]
  BY <1>2 DEF TypeOK
<1>5. \A u \in Transfers : link[u] # c
  BY <1>2, Marks DEF LinkInv
<1>6. TypeOK'
  BY <1>2 DEF TypeOK, ServerPlaces, ClientPlaces
<1>7. ForkInv'
  BY <1>2, <1>4, TransferShape DEF ForkInv
<1>8. CommandInv'
  BY <1>2, <1>3, <1>4 DEF CommandInv
<1>9. LinkInv'
  <2>1. \A u \in Transfers : link[u] \in Transfers \cup {None}
    BY DEF TypeOK
  <2>2. \A u \in Transfers :
          /\ spc'[u] \in {"none", "connect"} <=> link'[u] = None
          /\ link'[u] # None => /\ cpc'[link'[u]] \notin {"none", "bind", "accept"}
                                /\ PortOfTransfer(u) = PortOfTransfer(link'[u])
    BY <1>2, <1>3, <1>4, <2>1, Marks DEF LinkInv
  <2>3. \A u, v \in Transfers : link'[u] = link'[v] /\ link'[u] # None => u = v
    BY <1>4, <1>5 DEF LinkInv
  <2> QED BY <1>2, <2>2, <2>3 DEF LinkInv, PortOfTransfer
<1>10. UpInv'
  BY <1>2, <1>3, <1>4 DEF UpInv
<1>11. Storing' = Storing /\ Reading' = Reading /\ Listing' = Listing
  BY <1>2, <1>4 DEF Storing, Reading, Listing, Does
<1>12. FileInv'
  <2>1. \A u \in Storing : u \in Transfers /\ u # t
    BY <1>2 DEF Storing, Does
  <2> QED BY <1>2, <1>4, <1>11, <2>1 DEF FileInv, FileIntact, Whole
<1>13. \A u \in Transfers : spc[u] = "send" =>
         /\ u # t /\ link[u] \in Transfers /\ link[u] # c
         /\ ClientOver(link[u])' <=> ClientOver(link[u])
  <2>1. \A u \in Transfers : spc[u] = "send" => u # t /\ link[u] \in Transfers /\ link[u] # c
    BY <1>2, <1>5 DEF TypeOK, LinkInv
  <2> QED BY <1>4, <2>1 DEF ClientOver
<1>14. ReadInv'
  BY <1>2, <1>4, <1>11, <1>13 DEF ReadInv, Reading, Does
<1>15. TempInv' /\ OverlapInv'
  BY <1>2, <1>4, <1>11 DEF ListInv, TempInv, OverlapInv, ListPlaces
<1>16. ListingInv'
  BY <1>2, <1>4, <1>13 DEF ListInv, ListingInv
<1>17. EndInv'
  <2>1. \A u \in Transfers : cpc'[u] = "complete" => cpc[u] = "complete"
    BY <1>4
  <2>2. \A u \in Transfers :
          cpc'[u] \in {"none", "bind", "accept"} => cpc[u] \in {"none", "bind", "accept"}
    BY <1>4
  <2>3. \A u \in Transfers : u # t =>
          link'[u] = link[u] /\ spc'[u] = spc[u]
    BY <1>4
  <2>4. link'[t] = c /\ spc'[t] \in {"append", "open"} /\ ~Ended(c)
    BY <1>3, <1>4 DEF Ended
  <2>5. \A u \in Transfers : Intact(u, link'[u]) = Intact(u, link[u])' 
    BY <1>2 DEF Intact, Got, Whole
  <2> QED BY <1>2, <1>3, <2>1, <2>2, <2>3, <2>4, <2>5 DEF EndInv, Ended
<1> QED BY <1>6, <1>7, <1>8, <1>9, <1>10, <1>12, <1>14, <1>15, <1>16, <1>17 DEF ListInv

\* What a step of a child changes only in its own place, and in shared, handle
\* and spos, leaves of the sessions and of the client's children.
LEMMA ChildStep ==
  ASSUME TransferInv, NEW t \in Transfers, NEW q \in ServerPlaces,
         spc[t] \notin {"none", "connect"}, q \notin {"none", "connect"},
         spc' = [spc EXCEPT ![t] = q],
         UNCHANGED <<sessionVars, command, link, clientVars>>
  PROVE  /\ ForkInv' /\ LinkInv' /\ UpInv'
         /\ \A u \in Transfers : spc'[u] = IF u = t THEN q ELSE spc[u]
         /\ link[t] \in Transfers
         /\ \A u \in Transfers : u # t => link[u] # link[t]
         /\ \A u \in Transfers : spc[u] = "send" => link[u] \in Transfers
<1> USE DEF TransferInv
<1>1. \A u \in Transfers : spc'[u] = IF u = t THEN q ELSE spc[u]
  BY DEF TypeOK
<1>2. ForkInv'
  BY <1>1 DEF ForkInv, sessionVars, clientVars
<1>3. LinkInv'
  BY <1>1 DEF LinkInv, PortOfTransfer, sessionVars, clientVars
<1>4. UpInv'
  BY DEF UpInv, clientVars
<1>5. link[t] \in Transfers /\ \A u \in Transfers : u # t => link[u] # link[t]
  BY Marks DEF TypeOK, LinkInv
<1>6. \A u \in Transfers : spc[u] = "send" => link[u] \in Transfers
  BY Marks DEF TypeOK, LinkInv
<1> QED BY <1>1, <1>2, <1>3, <1>4, <1>5, <1>6

\* ls >> temp.txt: who finds others there shares it with them.
LEMMA AppendListingKeeps ==
  ASSUME TransferInv, NEW t \in Transfers, AppendListing(t)
  PROVE  TransferInv'
<1> USE DEF TransferInv
<1>1. /\ spc[t] = "append"
      /\ temp' = IF temp = None THEN t ELSE temp
      /\ listing' = [listing EXCEPT ![temp'] = Append(@, t)]
      /\ shared' = IF Listing = {} THEN shared ELSE shared \cup Listing \cup {t}
      /\ spc' = [spc EXCEPT ![t] = "open"]
      /\ UNCHANGED <<sessionVars, command, link, handle, spos, cpc, up, down, file, torn>>
  BY DEF AppendListing, clientVars
<1>2. command[t] = "LIST" /\ spos[t] = 0 /\ listing[t] = << >> /\ temp # t
  BY <1>1 DEF CommandInv, ListInv, ListingInv
<1>3. "open" \in ServerPlaces /\ UNCHANGED <<sessionVars, command, link, clientVars>>
  BY <1>1 DEF ServerPlaces, clientVars
<1>4. /\ ForkInv' /\ LinkInv' /\ UpInv'
      /\ \A u \in Transfers : spc'[u] = IF u = t THEN "open" ELSE spc[u]
      /\ link[t] \in Transfers
      /\ \A u \in Transfers : u # t => link[u] # link[t]
      /\ \A u \in Transfers : spc[u] = "send" => link[u] \in Transfers
  BY <1>1, <1>3, ChildStep
<1>5. temp' \in Transfers /\ Listing \subseteq Transfers
  BY <1>1 DEF TypeOK, Listing
<1>6. Append(listing[temp'], t) \in Seq(Transfers)
  BY <1>5 DEF TypeOK
<1>7. \A u \in Transfers : listing'[u] = IF u = temp' THEN Append(listing[u], t) ELSE listing[u]
  BY <1>1, <1>5 DEF TypeOK
<1>8. TypeOK'
  BY <1>1, <1>3, <1>5, <1>6 DEF TypeOK, sessionVars
<1>9. CommandInv'
  BY <1>1, <1>2, <1>4 DEF CommandInv
<1>10. Storing' = Storing /\ Reading' = Reading
  BY <1>1, <1>4 DEF Storing, Reading, Does
<1>11. FileInv'
  BY <1>1, <1>10 DEF FileInv, FileIntact, Whole
<1>12. ReadInv'
  BY <1>1, <1>10 DEF ReadInv, ClientOver
<1>13. TempInv'
  <2>1. t \in Listing'
    BY <1>1, <1>2, <1>4 DEF Listing, Does
  <2> QED BY <2>1 DEF TempInv
<1>14. \A u \in Transfers :
         /\ command[u] = "LIST" /\ spc[u] \in ListPlaces
         => u \in shared' /\ t \in shared'
  BY <1>1 DEF Listing, ListPlaces, Does
<1>15. OverlapInv'
  BY <1>1, <1>4, <1>14 DEF ListInv, OverlapInv, ListPlaces
<1>16. ListingInv'
  <2> SUFFICES ASSUME NEW u \in Transfers
               PROVE  /\ spc'[u] \in {"none", "connect", "append"} =>
                           listing'[u] = << >> /\ temp' # u
                      /\ command'[u] = "LIST" /\ spc'[u] = "send" => handle'[u] # None
                      /\ command'[u] = "LIST" /\ spc'[u] \in {"open", "send"} /\ u \notin shared' =>
                           temp' = u /\ listing'[u] = <<u>>
                      /\ command'[u] = "LIST" /\ spc'[u] = "send" /\ u \notin shared' =>
                           /\ handle'[u] = u
                           /\ spos'[u] <= 1
                           /\ ~ClientOver(link[u]) =>
                                down'[link'[u]] = SubSeq(<<u>>, 1, spos'[u])
    BY <1>1 DEF ListingInv, ClientOver
  <2>1. CASE u = t
    <3>1. ASSUME t \notin shared' PROVE temp' = t /\ listing'[t] = <<t>>
      <4>1. Listing = {}
        BY <1>1, <3>1
      <4>2. temp = None
        BY <4>1 DEF ListInv, TempInv
      <4>3. listing'[t] = Append(<< >>, t)
        BY <1>1, <1>2, <1>7, <4>2
      <4>4. \A e : Append(<< >>, e) = <<e>>
        OBVIOUS
      <4> QED BY <1>1, <4>2, <4>3, <4>4
    <3> QED BY <1>4, <2>1, <3>1
  <2>2. CASE u # t
    <3>1. spc[u] \in {"none", "connect", "append"} => listing'[u] = << >> /\ temp' # u
      BY <1>1, <1>7, <2>2 DEF ListInv, ListingInv
    <3>2. command[u] = "LIST" /\ spc[u] \in {"open", "send"} => u \in shared'
      BY <1>14 DEF ListPlaces
    <3>3. command[u] = "LIST" /\ spc[u] = "send" => handle[u] # None
      BY DEF ListInv, ListingInv
    <3> QED BY <1>1, <1>4, <2>2, <3>1, <3>2, <3>3
  <2> QED BY <2>1, <2>2
<1>17. EndInv'
  <2>1. \A u \in Transfers : u \notin shared' => u \notin shared
    BY <1>1
  <2> QED BY <1>1, <1>4, <2>1 DEF EndInv, Ended, Intact, Got, Whole
<1> QED BY <1>4, <1>8, <1>9, <1>11, <1>12, <1>13, <1>15, <1>16, <1>17 DEF ListInv

\* fopen of temp.txt
LEMMA OpenListingKeeps ==
  ASSUME TransferInv, NEW t \in Transfers, OpenListing(t)
  PROVE  TransferInv'
<1> USE DEF TransferInv
<1> DEFINE q == IF temp = None THEN "remove" ELSE "send"
<1>1. /\ command[t] = "LIST" /\ spc[t] = "open"
      /\ handle' = [handle EXCEPT ![t] = temp]
      /\ spc' = [spc EXCEPT ![t] = q]
      /\ UNCHANGED <<sessionVars, command, link, spos, cpc, up, down, file, temp, listing,
                     shared, torn>>
  BY DEF OpenListing, Does, clientVars, tempVars, historyVars
<1>2. q \in ServerPlaces /\ q \in {"remove", "send"}
      /\ UNCHANGED <<sessionVars, command, link, clientVars>>
  BY <1>1 DEF ServerPlaces, clientVars
<1>3. q = "send" <=> temp # None
  OBVIOUS
<1> HIDE DEF q
<1>4. /\ ForkInv' /\ LinkInv' /\ UpInv'
      /\ \A u \in Transfers : spc'[u] = IF u = t THEN q ELSE spc[u]
      /\ link[t] \in Transfers
      /\ \A u \in Transfers : u # t => link[u] # link[t]
      /\ \A u \in Transfers : spc[u] = "send" => link[u] \in Transfers
  BY <1>1, <1>2, ChildStep
<1>5. \A u \in Transfers : handle'[u] = IF u = t THEN temp ELSE handle[u]
  BY <1>1 DEF TypeOK
<1>6. TypeOK'
  BY <1>1, <1>2 DEF TypeOK, sessionVars
<1>7. CommandInv'
  BY <1>1, <1>2, <1>4 DEF CommandInv
<1>8. Storing' = Storing /\ Reading' = Reading /\ Listing' = Listing
  BY <1>1, <1>2, <1>4 DEF Storing, Reading, Listing, Does
<1>9. FileInv'
  BY <1>1, <1>8 DEF FileInv, FileIntact, Whole
<1>10. ReadInv'
  BY <1>1, <1>8 DEF ReadInv, ClientOver
<1>11. TempInv' /\ OverlapInv'
  BY <1>1, <1>2, <1>4, <1>8 DEF ListInv, TempInv, OverlapInv, ListPlaces
<1>12. ListingInv'
  <2>1. spos[t] = 0 /\ down[link[t]] = << >>
    BY <1>1 DEF CommandInv, EndInv
  <2>2. SubSeq(<<t>>, 1, 0) = << >>
    OBVIOUS
  <2>3. t \notin shared => temp = t /\ listing[t] = <<t>>
    BY <1>1 DEF ListInv, ListingInv
  <2>4. listing[t] = listing'[t] /\ temp' = temp /\ shared' = shared /\ command' = command
        /\ spos'[t] = 0 /\ link' = link /\ down' = down
    BY <1>1, <2>1
  <2>5. ASSUME t \notin shared', spc'[t] = "send"
        PROVE  /\ handle'[t] = t
               /\ spos'[t] <= 1
               /\ down'[link'[t]] = SubSeq(<<t>>, 1, spos'[t])
    <3>1. handle'[t] = t
      BY <1>5, <2>3, <2>4, <2>5
    <3>2. spos'[t] = 0 /\ down'[link'[t]] = << >>
      BY <2>1, <2>4
    <3>3. SubSeq(<<t>>, 1, spos'[t]) = << >>
      BY <2>2, <3>2
    <3> QED BY <3>1, <3>2, <3>3
  <2>6. spc'[t] = "send" => handle'[t] # None
    BY <1>2, <1>3, <1>4, <1>5
  <2>7. \A u \in Transfers : u # t => spc'[u] = spc[u] /\ handle'[u] = handle[u]
    BY <1>4, <1>5
  <2>8. spc'[t] = q
    BY <1>4
  <2> SUFFICES ASSUME NEW u \in Transfers
               PROVE  /\ spc'[u] \in {"none", "connect", "append"} =>
                           listing'[u] = << >> /\ temp' # u
                      /\ command'[u] = "LIST" /\ spc'[u] = "send" => handle'[u] # None
                      /\ command'[u] = "LIST" /\ spc'[u] \in {"open", "send"} /\ u \notin shared' =>
                           temp' = u /\ listing'[u] = <<u>>
                      /\ command'[u] = "LIST" /\ spc'[u] = "send" /\ u \notin shared' =>
                           /\ handle'[u] = u
                           /\ spos'[u] <= 1
                           /\ ~ClientOver(link[u]) =>
                                down'[link'[u]] = SubSeq(<<u>>, 1, spos'[u])
    BY <1>1 DEF ListingInv, ClientOver
  <2>9. CASE u = t
    BY <1>1, <1>2, <2>3, <2>4, <2>5, <2>6, <2>8, <2>9
  <2>10. CASE u # t
    BY <1>1, <2>7, <2>10 DEF ListInv, ListingInv
  <2> QED BY <2>9, <2>10
<1>13. EndInv'
  <2>1. ~Ended(link[t])
    BY <1>1 DEF EndInv, Ended
  <2> QED BY <1>1, <1>2, <1>4, <2>1 DEF EndInv, Ended, Intact, Got, Whole
<1> QED BY <1>4, <1>6, <1>7, <1>9, <1>10, <1>11, <1>12, <1>13 DEF ListInv

\* fopen of the file for reading
LEMMA OpenFileKeeps ==
  ASSUME TransferInv, NEW t \in Transfers, OpenFile(t)
  PROVE  TransferInv'
<1> USE DEF TransferInv
<1>1. /\ command[t] = "RETR" /\ spc[t] = "open"
      /\ shared' = IF torn \/ Storing # {} THEN shared \cup {t} ELSE shared
      /\ spc' = [spc EXCEPT ![t] = "send"]
      /\ UNCHANGED <<sessionVars, command, link, handle, spos, cpc, up, down, file, temp,
                     listing, torn>>
  BY DEF OpenFile, Does, clientVars, tempVars
<1>2. "send" \in ServerPlaces /\ UNCHANGED <<sessionVars, command, link, clientVars>>
  BY <1>1 DEF ServerPlaces, clientVars
<1>3. /\ ForkInv' /\ LinkInv' /\ UpInv'
      /\ \A u \in Transfers : spc'[u] = IF u = t THEN "send" ELSE spc[u]
      /\ link[t] \in Transfers
      /\ \A u \in Transfers : u # t => link[u] # link[t]
      /\ \A u \in Transfers : spc[u] = "send" => link[u] \in Transfers
  BY <1>1, <1>2, ChildStep
<1>4. TypeOK'
  BY <1>1, <1>2 DEF TypeOK, sessionVars
<1>5. CommandInv'
  BY <1>1, <1>3 DEF CommandInv
<1>6. Storing' = Storing /\ Reading' = Reading \cup {t} /\ Listing' = Listing
  BY <1>1, <1>3 DEF Storing, Reading, Listing, Does
<1>7. FileInv'
  BY <1>1, <1>6 DEF FileInv, FileIntact, Whole
<1>8. spos[t] = 0 /\ down[link[t]] = << >>
  BY <1>1 DEF CommandInv, EndInv
<1>9. ReadInv'
  <2>1. t \notin shared' => Storing = {} /\ ~torn
    BY <1>1
  <2>2. Len(file) \in Nat /\ SubSeq(file, 1, 0) = << >>
    BY DEF TypeOK
  <2>3. /\ spos[t] <= Len(file)
        /\ down[link[t]] = SubSeq(file, 1, spos[t])
    BY <1>8, <2>2
  <2> QED BY <1>1, <1>6, <2>1, <2>3 DEF ReadInv, ClientOver
<1>10. TempInv' /\ OverlapInv'
  BY <1>1, <1>3, <1>6 DEF ListInv, TempInv, OverlapInv, ListPlaces
<1>11. ListingInv'
  BY <1>1, <1>3 DEF ListInv, ListingInv, ClientOver
<1>12. EndInv'
  BY <1>1, <1>3, <1>8 DEF EndInv, Ended, Intact, Got, Whole
<1> QED BY <1>3, <1>4, <1>5, <1>7, <1>9, <1>10, <1>11, <1>12 DEF ListInv

\* fopen of the file for writing: who is reading it is known to share it.
LEMMA CreateFileKeeps ==
  ASSUME TransferInv, NEW t \in Transfers, CreateFile(t)
  PROVE  TransferInv'
<1> USE DEF TransferInv
<1>1. /\ command[t] = "STOR" /\ spc[t] = "open"
      /\ file' = << >>
      /\ shared' = shared \cup Reading
      /\ torn' = (Storing # {})
      /\ spc' = [spc EXCEPT ![t] = "receive"]
      /\ UNCHANGED <<sessionVars, command, link, handle, spos, cpc, up, down, temp, listing>>
  BY DEF CreateFile, Does, clientVars, tempVars
<1>2. "receive" \in ServerPlaces /\ UNCHANGED <<sessionVars, command, link, clientVars>>
  BY <1>1 DEF ServerPlaces, clientVars
<1>3. /\ ForkInv' /\ LinkInv' /\ UpInv'
      /\ \A u \in Transfers : spc'[u] = IF u = t THEN "receive" ELSE spc[u]
      /\ link[t] \in Transfers
      /\ \A u \in Transfers : u # t => link[u] # link[t]
      /\ \A u \in Transfers : spc[u] = "send" => link[u] \in Transfers
  BY <1>1, <1>2, ChildStep
<1>4. TypeOK'
  <2>1. file' \in Seq(FileBlocks) /\ torn' \in BOOLEAN /\ shared' \subseteq Transfers
    BY <1>1 DEF TypeOK, Reading
  <2> QED BY <1>1, <1>2, <2>1 DEF TypeOK, sessionVars
<1>5. CommandInv'
  BY <1>1, <1>3 DEF CommandInv
<1>6. Storing' = Storing \cup {t} /\ Reading' = Reading /\ Listing' = Listing
  BY <1>1, <1>3 DEF Storing, Reading, Listing, Does
<1>7. spos[t] = 0 /\ down[link[t]] = << >>
  BY <1>1 DEF CommandInv, EndInv
<1>8. FileInv'
  <2>1. ASSUME ~torn'
        PROVE  /\ \A u \in Storing' : u = t
               /\ Len(file') = spos'[t] /\ spos'[t] <= Blocks
               /\ \A i \in 1 .. spos'[t] : file'[i] = link'[t]
    <3>1. Storing = {}
      BY <1>1, <2>1
    <3>2. spos'[t] = 0 /\ Len(file') = 0
      BY <1>1, <1>7
    <3> QED BY <1>6, <3>1, <3>2, Marks
  <2>2. FileIntact'
    BY <1>6 DEF FileIntact
  <2> QED BY <2>1, <2>2 DEF FileInv
<1>9. ReadInv'
  BY <1>1, <1>6 DEF ReadInv
<1>10. TempInv' /\ OverlapInv'
  BY <1>1, <1>3, <1>6 DEF ListInv, TempInv, OverlapInv, ListPlaces
<1>11. ListingInv'
  BY <1>1, <1>3 DEF ListInv, ListingInv, ClientOver
<1>12. EndInv'
  BY <1>1, <1>3, <1>7 DEF EndInv, Ended, Intact, Got, Whole
<1> QED BY <1>3, <1>4, <1>5, <1>8, <1>9, <1>10, <1>11, <1>12 DEF ListInv

\* Who sends is linked to a child of the client that cannot be complete, and
\* sends what is in the file or in its listing.
LEMMA SenderShape ==
  ASSUME TransferInv, NEW t \in Transfers, spc[t] = "send"
  PROVE  /\ command[t] \in {"LIST", "RETR"}
         /\ link[t] \in Transfers
         /\ ~Ended(link[t])
         /\ Source(t) \in Seq(FileBlocks)
         /\ spos[t] \in Nat
<1> USE DEF TransferInv
<1>1. /\ command[t] \in {"LIST", "RETR"} /\ link[t] \in Transfers
      /\ ~Ended(link[t]) /\ spos[t] \in Nat
  BY Marks DEF CommandInv, LinkInv, EndInv, TypeOK
<1>2. CASE command[t] = "RETR"
  BY <1>1, <1>2 DEF Source, TypeOK
<1>3. CASE command[t] = "LIST"
  <2>1. handle[t] \in Transfers
    BY <1>3 DEF ListInv, ListingInv, TypeOK
  <2>2. listing[handle[t]] \in Seq(Transfers)
    BY <2>1 DEF TypeOK
  <2>3. listing[handle[t]] \in Seq(FileBlocks)
    BY <2>2, SeqMonotonic DEF FileBlocks
  <2> QED BY <1>1, <1>3, <2>3 DEF Source
<1> QED BY <1>1, <1>2, <1>3

\* A longer part of a sequence.
LEMMA NextPart ==
  ASSUME NEW S, NEW f \in Seq(S), NEW n \in Nat, n < Len(f)
  PROVE  Append(SubSeq(f, 1, n), f[n + 1]) = SubSeq(f, 1, n + 1)
<1>1. n + 1 \in 1 .. Len(f) /\ 1 \in 1 .. Len(f) /\ n + 1 \in 1 .. Len(f) /\ (n + 1) - 1 = n
  OBVIOUS
<1>2. SubSeq(f, 1, n + 1) = SubSeq(f, 1, n) \o <<f[n + 1]>>
  <2>1. 1 \in 1 .. Len(f) /\ n + 1 \in 1 .. Len(f)
    BY <1>1
  <2>2. SubSeq(f, 1, n + 1) = SubSeq(f, 1, (n + 1) - 1) \o <<f[n + 1]>>
    BY <2>1, SubSeqRecursiveSecond
  <2> QED BY <1>1, <2>2
<1>3. SubSeq(f, 1, n) \in Seq(S) /\ f[n + 1] \in S
  <2>1. \A i \in 1 .. n : f[i] \in S
    OBVIOUS
  <2>2. 1 \in Int /\ n \in Int
    OBVIOUS
  <2> QED BY <1>1, <2>1, <2>2, SubSeqProperties
<1>4. Append(SubSeq(f, 1, n), f[n + 1]) = SubSeq(f, 1, n) \o <<f[n + 1]>>
  BY <1>3, AppendIsConcat
<1> QED BY <1>2, <1>4

\* What SendDown does to the two ends.
LEMMA SendDownEffect ==
  ASSUME TransferInv, NEW t \in Transfers, spc[t] = "send",
         NEW b \in FileBlocks \cup {End}, SendDown(t, b)
  PROVE  /\ down' \in [Transfers -> Seq(FileBlocks \cup {End})]
         /\ \A c \in Transfers : c # link[t] => down'[c] = down[c]
         /\ ClientOver(link[t]) => down'[link[t]] = down[link[t]]
         /\ ~ClientOver(link[t]) =>
              /\ down'[link[t]] = Append(down[link[t]], b)
              /\ down'[link[t]] # << >>
              /\ Last(down'[link[t]]) = b
              /\ Front(down'[link[t]]) = down[link[t]]
<1> DEFINE c == link[t]
           B == FileBlocks \cup {End}
<1>1. c \in Transfers /\ down \in [Transfers -> Seq(B)]
  BY SenderShape DEF TransferInv, TypeOK
<1>2. down' = IF ClientOver(c) THEN down ELSE [down EXCEPT ![c] = Append(@, b)]
  BY DEF SendDown
<1> HIDE DEF c, B
<1>3. b \in B
  BY DEF B
<1>4. /\ Append(down[c], b) \in Seq(B)
      /\ Append(down[c], b) # << >>
      /\ Len(Append(down[c], b)) = Len(down[c]) + 1
      /\ Append(down[c], b)[Len(down[c]) + 1] = b
      /\ \A i \in 1 .. Len(down[c]) : Append(down[c], b)[i] = down[c][i]
      /\ Len(down[c]) \in Nat
  BY <1>1, <1>3, AppendProperties
<1>5. Last(Append(down[c], b)) = b
  BY <1>4 DEF Last
<1>6. Front(Append(down[c], b)) = down[c]
  <2>1. Front(Append(down[c], b)) = SubSeq(Append(down[c], b), 1, Len(down[c]))
    BY <1>4 DEF Front
  <2>2. SubSeq(Append(down[c], b), 1, Len(down[c])) = down[c]
    BY <1>1, <1>4, SubSeqFull
  <2> QED BY <2>1, <2>2
<1>7. down' \in [Transfers -> Seq(B)]
  BY <1>1, <1>2, <1>4
<1>8. CASE ClientOver(c)
  BY <1>2, <1>7, <1>8 DEF c, B
<1>9. CASE ~ClientOver(c)
  <2>1. down'[c] = Append(down[c], b) /\ \A u \in Transfers : u # c => down'[u] = down[u]
    BY <1>1, <1>2, <1>9
  <2> QED BY <1>4, <1>5, <1>6, <1>7, <1>9, <2>1 DEF c, B
<1> QED BY <1>8, <1>9

\* What a step that sends to the client of t leaves of the others' results.
LEMMA SendKeepsOthers ==
  ASSUME TransferInv, NEW t \in Transfers, spc[t] = "send",
         UNCHANGED <<command, link, cpc, file>>,
         NEW b \in FileBlocks \cup {End}, SendDown(t, b)
  PROVE  /\ \A c \in Transfers : cpc'[c] = "complete" => Ended(c)'
         /\ \A c \in Transfers : cpc'[c] \in {"none", "bind", "accept"} => down'[c] = << >>
         /\ \A u \in Transfers : u # t /\ link[u] # None =>
              /\ link[u] \in Transfers
              /\ down'[link'[u]] = down[link[u]]
              /\ Ended(link[u])' <=> Ended(link[u])
              /\ Intact(u, link[u])' <=> Intact(u, link[u])
<1>1. /\ \A c \in Transfers : c # link[t] => down'[c] = down[c]
      /\ ClientOver(link[t]) => down'[link[t]] = down[link[t]]
  BY SendDownEffect
<1>2. \A c \in Transfers : cpc'[c] = "complete" => Ended(c)'
  BY <1>1 DEF TransferInv, EndInv, Ended, ClientOver
<1>3. \A c \in Transfers : cpc'[c] \in {"none", "bind", "accept"} => down'[c] = << >>
  <2>1. cpc[link[t]] \notin {"none", "bind", "accept"}
    BY Marks, SenderShape DEF TransferInv, LinkInv
  <2> QED BY <1>1, <2>1 DEF TransferInv, EndInv
<1>4. ASSUME NEW u \in Transfers, u # t, link[u] # None
      PROVE  /\ link[u] \in Transfers
             /\ down'[link'[u]] = down[link[u]]
             /\ Ended(link[u])' <=> Ended(link[u])
             /\ Intact(u, link[u])' <=> Intact(u, link[u])
  <2>1. link[u] \in Transfers /\ link[u] # link[t] /\ link'[u] = link[u]
    BY <1>4 DEF TransferInv, TypeOK, LinkInv
  <2>2. down'[link'[u]] = down[link[u]]
    BY <1>1, <2>1
  <2> QED BY <2>1, <2>2 DEF Ended, Intact, Got, Whole
<1> QED BY <1>2, <1>3, <1>4

\* send_file: a block
LEMMA SendBlockKeeps ==
  ASSUME TransferInv, NEW t \in Transfers, SendBlock(t)
  PROVE  TransferInv'
<1> USE DEF TransferInv
<1> DEFINE b == Source(t)[spos[t] + 1]
<1>1. /\ spc[t] = "send" /\ spos[t] < Len(Source(t))
      /\ SendDown(t, b)
      /\ spos' = [spos EXCEPT ![t] = @ + 1]
      /\ UNCHANGED <<sessionVars, command, spc, link, handle, cpc, up, file, temp, listing,
                     shared, torn>>
  BY DEF SendBlock, clientVars, tempVars, historyVars
<1>2. /\ command[t] \in {"LIST", "RETR"} /\ link[t] \in Transfers /\ ~Ended(link[t])
      /\ Source(t) \in Seq(FileBlocks) /\ spos[t] \in Nat
  BY <1>1, SenderShape
<1>3. b \in FileBlocks /\ b # End
  <2>1. spos[t] + 1 \in 1 .. Len(Source(t))
    BY <1>1, <1>2
  <2>2. b \in FileBlocks
    BY <1>2, <2>1
  <2> QED BY <2>2, Marks DEF FileBlocks
<1> HIDE DEF b
<1>4. /\ down' \in [Transfers -> Seq(FileBlocks \cup {End})]
      /\ \A c \in Transfers : c # link[t] => down'[c] = down[c]
      /\ ClientOver(link[t]) => down'[link[t]] = down[link[t]]
      /\ ~ClientOver(link[t]) =>
           /\ down'[link[t]] = Append(down[link[t]], b)
           /\ Last(down'[link[t]]) = b
  BY <1>1, <1>3, SendDownEffect
<1>5. \A u \in Transfers : spos'[u] = IF u = t THEN spos[t] + 1 ELSE spos[u]
  BY <1>1 DEF TypeOK
<1>6. TypeOK'
  <2>1. spos' \in [Transfers -> Nat]
    BY <1>1, <1>2 DEF TypeOK
  <2> QED BY <1>1, <1>4, <2>1 DEF TypeOK, sessionVars
<1>7. ForkInv' /\ LinkInv' /\ UpInv'
  BY <1>1 DEF ForkInv, LinkInv, UpInv, PortOfTransfer, sessionVars
<1>8. CommandInv'
  BY <1>1, <1>5 DEF CommandInv
<1>9. Storing' = Storing /\ Reading' = Reading /\ Listing' = Listing
  BY <1>1 DEF Storing, Reading, Listing, Does
<1>10. FileInv'
  <2>1. \A u \in Storing : u \in Transfers /\ u # t
    BY <1>1 DEF Storing, Does
  <2> QED BY <1>1, <1>5, <1>9, <2>1 DEF FileInv, FileIntact, Whole
<1>11. \A u \in Transfers : u # t /\ spc[u] = "send" => down'[link[u]] = down[link[u]]
  BY <1>1, <1>4, Marks DEF LinkInv, TypeOK
<1>12. ReadInv'
  <2> SUFFICES ASSUME NEW u \in Reading \ shared
               PROVE  /\ Storing = {} /\ ~torn
                      /\ spos'[u] <= Len(file)
                      /\ ~ClientOver(link[u]) => down'[link[u]] = SubSeq(file, 1, spos'[u])
    BY <1>1, <1>9 DEF ReadInv, ClientOver
  <2>1. /\ Storing = {} /\ ~torn /\ spos[u] <= Len(file)
        /\ ~ClientOver(link[u]) => down[link[u]] = SubSeq(file, 1, spos[u])
        /\ u \in Transfers /\ spc[u] = "send" /\ command[u] = "RETR"
    BY DEF ReadInv, Reading, Does
  <2>2. CASE u # t
    BY <1>5, <1>11, <2>1, <2>2
  <2>3. CASE u = t
    <3>1. Source(t) = file /\ b = file[spos[t] + 1]
      BY <2>1, <2>3 DEF Source, b
    <3>2. Append(SubSeq(file, 1, spos[t]), file[spos[t] + 1]) = SubSeq(file, 1, spos[t] + 1)
      BY <1>1, <1>2, <3>1, NextPart
    <3>3. spos[t] + 1 <= Len(file)
      BY <1>1, <1>2, <3>1
    <3> QED BY <1>4, <1>5, <2>1, <2>3, <3>1, <3>2, <3>3
  <2> QED BY <2>2, <2>3
<1>13. TempInv' /\ OverlapInv'
  BY <1>1, <1>9 DEF ListInv, TempInv, OverlapInv
<1>14. ListingInv'
  <2>1. \A u \in Transfers :
          /\ spc[u] \in {"none", "connect", "append"} => listing[u] = << >> /\ temp # u
          /\ command[u] = "LIST" /\ spc[u] = "send" => handle[u] # None
          /\ command[u] = "LIST" /\ spc[u] \in {"open", "send"} /\ u \notin shared =>
               temp = u /\ listing[u] = <<u>>
    BY DEF ListInv, ListingInv
  <2>2. ASSUME NEW u \in Transfers, command[u] = "LIST", spc[u] = "send", u \notin shared
        PROVE  /\ handle[u] = u /\ spos'[u] <= 1
               /\ ~ClientOver(link[u]) => down'[link[u]] = SubSeq(<<u>>, 1, spos'[u])
    <3>1. /\ handle[u] = u /\ spos[u] <= 1 /\ listing[u] = <<u>>
          /\ ~ClientOver(link[u]) => down[link[u]] = SubSeq(<<u>>, 1, spos[u])
      BY <2>2 DEF ListInv, ListingInv
    <3>2. CASE u # t
      BY <1>5, <1>11, <2>2, <3>1, <3>2
    <3>3. CASE u = t
      <4>1. Source(t) = <<t>>
        BY <2>2, <3>1, <3>3 DEF Source
      <4>2. <<t>> \in Seq(Transfers) /\ Len(<<t>>) = 1
        OBVIOUS
      <4>3. spos[t] + 1 <= 1
        BY <1>1, <1>2, <4>1, <4>2
      <4>4. Append(SubSeq(<<t>>, 1, spos[t]), <<t>>[spos[t] + 1]) = SubSeq(<<t>>, 1, spos[t] + 1)
        BY <1>1, <1>2, <4>1, <4>2, NextPart
      <4>5. b = <<t>>[spos[t] + 1]
        BY <4>1 DEF b
      <4> QED BY <1>4, <1>5, <3>1, <3>3, <4>3, <4>4, <4>5
    <3> QED BY <3>2, <3>3
  <2> QED BY <1>1, <2>1, <2>2 DEF ListingInv, ClientOver
<1>15. EndInv'
  <2>1. ~Ended(link[t])'
    BY <1>1, <1>2, <1>3, <1>4 DEF Ended
  <2>2. /\ \A c \in Transfers : cpc'[c] = "complete" => Ended(c)'
        /\ \A c \in Transfers : cpc'[c] \in {"none", "bind", "accept"} => down'[c] = << >>
        /\ \A u \in Transfers : u # t /\ link[u] # None =>
             /\ down'[link'[u]] = down[link[u]]
             /\ Ended(link[u])' <=> Ended(link[u])
             /\ Intact(u, link[u])' <=> Intact(u, link[u])
    BY <1>1, <1>3, SendKeepsOthers
  <2>3. ASSUME NEW u \in Transfers
        PROVE  /\ spc'[u] \in {"append", "open", "receive"} => down'[link'[u]] = << >>
               /\ command'[u] = "STOR" /\ link'[u] # None => down'[link'[u]] = << >>
               /\ spc'[u] \in {"send", "killed"} => ~Ended(link[u])'
               /\ spc'[u] \in {"remove", "done"} /\ u \notin shared' /\ Ended(link[u])' =>
                    Intact(u, link[u])'
    <3>1. CASE u = t
      BY <1>1, <1>2, <2>1, <3>1
    <3>2. CASE u # t
      <4>1. spc[u] \notin {"none", "connect"} => link[u] # None
        BY DEF LinkInv
      <4> QED BY <1>1, <2>2, <3>2, <4>1 DEF EndInv
    <3> QED BY <3>1, <3>2
  <2> QED BY <2>2, <2>3 DEF EndInv
<1> QED BY <1>6, <1>7, <1>8, <1>10, <1>12, <1>13, <1>14, <1>15 DEF ListInv

\* What a child that has sent everything has sent is what it was asked for.
LEMMA SentAll ==
  ASSUME TransferInv, NEW t \in Transfers, spc[t] = "send",
         spos[t] >= Len(Source(t)), t \notin shared, ~ClientOver(link[t])
  PROVE  IF command[t] = "LIST" THEN down[link[t]] = <<t>> ELSE Whole(down[link[t]])
<1> USE DEF TransferInv
<1>1. command[t] \in {"LIST", "RETR"} /\ spos[t] \in Nat /\ Source(t) \in Seq(FileBlocks)
  BY SenderShape
<1>2. CASE command[t] = "RETR"
  <2>1. t \in Reading \ shared
    BY <1>2 DEF Reading, Does
  <2>2. /\ Storing = {} /\ ~torn /\ spos[t] <= Len(file)
        /\ down[link[t]] = SubSeq(file, 1, spos[t])
    BY <2>1 DEF ReadInv
  <2>3. file \in Seq(FileBlocks) /\ Source(t) = file
    BY <1>2 DEF TypeOK, Source
  <2>4. spos[t] = Len(file)
    BY <1>1, <2>2, <2>3
  <2>5. down[link[t]] = file
    BY <2>2, <2>3, <2>4, SubSeqFull
  <2> QED BY <1>2, <2>2, <2>5 DEF FileInv, FileIntact
<1>3. CASE command[t] = "LIST"
  <2>1. /\ handle[t] = t /\ spos[t] <= 1 /\ listing[t] = <<t>>
        /\ down[link[t]] = SubSeq(<<t>>, 1, spos[t])
    BY <1>3 DEF ListInv, ListingInv
  <2>2. Source(t) = <<t>>
    BY <1>3, <2>1 DEF Source
  <2>3. <<t>> \in Seq(Transfers) /\ Len(<<t>>) = 1
    OBVIOUS
  <2>4. spos[t] = Len(<<t>>)
    BY <1>1, <2>1, <2>2, <2>3
  <2>5. down[link[t]] = <<t>>
    BY <2>1, <2>3, <2>4, SubSeqFull
  <2> QED BY <1>3, <2>5
<1> QED BY <1>1, <1>2, <1>3

\* send_file: the end mark
LEMMA SendEndKeeps ==
  ASSUME TransferInv, NEW t \in Transfers, SendEnd(t)
  PROVE  TransferInv'
<1> USE DEF TransferInv
<1> DEFINE q == IF command[t] = "LIST" THEN "remove" ELSE "done"
<1>1. /\ spc[t] = "send" /\ spos[t] >= Len(Source(t))
      /\ SendDown(t, End)
      /\ spc' = [spc EXCEPT ![t] = q]
      /\ UNCHANGED <<sessionVars, command, link, handle, spos, cpc, up, file, temp, listing,
                     shared, torn>>
  BY DEF SendEnd, clientVars, tempVars, historyVars
<1>2. /\ command[t] \in {"LIST", "RETR"} /\ link[t] \in Transfers /\ ~Ended(link[t])
      /\ End \in FileBlocks \cup {End}
  BY <1>1, SenderShape
<1>3. /\ q \in ServerPlaces /\ q \in {"remove", "done"}
      /\ command[t] = "LIST" <=> q = "remove"
      /\ UNCHANGED <<sessionVars, command, link, clientVars>>
  BY <1>1 DEF ServerPlaces, clientVars
<1> HIDE DEF q
<1>4. /\ ForkInv' /\ LinkInv' /\ UpInv'
      /\ \A u \in Transfers : spc'[u] = IF u = t THEN q ELSE spc[u]
      /\ \A u \in Transfers : spc[u] = "send" => link[u] \in Transfers
  BY <1>1, <1>3, ChildStep
<1>5. /\ down' \in [Transfers -> Seq(FileBlocks \cup {End})]
      /\ \A c \in Transfers : c # link[t] => down'[c] = down[c]
      /\ ClientOver(link[t]) => down'[link[t]] = down[link[t]]
      /\ ~ClientOver(link[t]) => Front(down'[link[t]]) = down[link[t]]
  BY <1>1, <1>2, SendDownEffect
<1>6. TypeOK'
  BY <1>1, <1>3, <1>5 DEF TypeOK, sessionVars
<1>7. CommandInv'
  BY <1>1, <1>2, <1>3, <1>4 DEF CommandInv
<1>8. Storing' = Storing /\ Reading' \subseteq Reading
  BY <1>1, <1>2, <1>3, <1>4 DEF Storing, Reading, Does
<1>9. FileInv'
  BY <1>1, <1>8 DEF FileInv, FileIntact, Whole
<1>10. \A u \in Transfers : u # t /\ spc[u] = "send" =>
         /\ link[u] \in Transfers
         /\ down'[link[u]] = down[link[u]]
  BY <1>1, <1>5, Marks DEF LinkInv, TypeOK
<1>11. ReadInv'
  <2>1. \A u \in Reading' : u # t /\ u \in Reading /\ u \in Transfers /\ spc[u] = "send"
    BY <1>3, <1>4 DEF Reading, Does
  <2> QED BY <1>1, <1>8, <1>10, <2>1 DEF ReadInv, ClientOver
<1>12. TempInv'
  <2>1. Listing \subseteq Listing'
    BY <1>1, <1>3, <1>4 DEF Listing, Does
  <2> QED BY <1>1, <2>1 DEF ListInv, TempInv
<1>13. OverlapInv'
  <2>1. \A u \in Transfers : command'[u] = "LIST" /\ spc'[u] \in ListPlaces =>
                             command[u] = "LIST" /\ spc[u] \in ListPlaces
    BY <1>1, <1>2, <1>4 DEF ListPlaces
  <2> QED BY <1>1, <2>1 DEF ListInv, OverlapInv
<1>14. ListingInv'
  BY <1>1, <1>3, <1>4, <1>10 DEF ListInv, ListingInv, ClientOver
<1>15. EndInv'
  <2>1. ASSUME t \notin shared, Ended(link[t])'
        PROVE  Intact(t, link[t])'
    <3>1. ~ClientOver(link[t])
      BY <1>1, <1>2, <1>5, <2>1 DEF Ended
    <3>2. IF command[t] = "LIST" THEN down[link[t]] = <<t>> ELSE Whole(down[link[t]])
      BY <1>1, <2>1, <3>1, SentAll
    <3>3. link'[t] = link[t] /\ Front(down'[link'[t]]) = down[link[t]] /\ command'[t] = command[t]
      BY <1>1, <1>5, <3>1
    <3> QED BY <3>2, <3>3 DEF Intact, Got, Whole
  <2>2. /\ \A c \in Transfers : cpc'[c] = "complete" => Ended(c)'
        /\ \A c \in Transfers : cpc'[c] \in {"none", "bind", "accept"} => down'[c] = << >>
        /\ \A u \in Transfers : u # t /\ link[u] # None =>
             /\ down'[link'[u]] = down[link[u]]
             /\ Ended(link[u])' <=> Ended(link[u])
             /\ Intact(u, link[u])' <=> Intact(u, link[u])
    BY <1>1, <1>2, SendKeepsOthers
  <2>3. ASSUME NEW u \in Transfers
        PROVE  /\ spc'[u] \in {"append", "open", "receive"} => down'[link'[u]] = << >>
               /\ command'[u] = "STOR" /\ link'[u] # None => down'[link'[u]] = << >>
               /\ spc'[u] \in {"send", "killed"} => ~Ended(link[u])'
               /\ spc'[u] \in {"remove", "done"} /\ u \notin shared' /\ Ended(link[u])' =>
                    Intact(u, link[u])'
    <3>1. CASE u = t
      BY <1>1, <1>2, <1>3, <1>4, <2>1, <3>1
    <3>2. CASE u # t
      <4>1. spc[u] \notin {"none", "connect"} => link[u] # None
        BY DEF LinkInv
      <4> QED BY <1>1, <1>4, <2>2, <3>2, <4>1 DEF EndInv
    <3> QED BY <3>1, <3>2
  <2> QED BY <2>2, <2>3 DEF EndInv
<1> QED BY <1>4, <1>6, <1>7, <1>9, <1>11, <1>12, <1>13, <1>14, <1>15 DEF ListInv

\* A child of the server that is killed leaves what it has sent, without an end.
LEMMA SendFailsKeeps ==
  ASSUME TransferInv, NEW t \in Transfers, SendFails(t)
  PROVE  TransferInv'
<1> USE DEF TransferInv
<1>1. /\ spc[t] = "send"
      /\ spc' = [spc EXCEPT ![t] = "killed"]
      /\ UNCHANGED <<sessionVars, command, link, handle, spos, cpc, up, down, file, temp,
                     listing, shared, torn>>
  BY DEF SendFails, clientVars, tempVars, historyVars
<1>2. "killed" \in ServerPlaces /\ UNCHANGED <<sessionVars, command, link, clientVars>>
  BY <1>1 DEF ServerPlaces, clientVars
<1>3. /\ ForkInv' /\ LinkInv' /\ UpInv'
      /\ \A u \in Transfers : spc'[u] = IF u = t THEN "killed" ELSE spc[u]
  BY <1>1, <1>2, ChildStep
<1>4. TypeOK'
  BY <1>1, <1>2 DEF TypeOK, sessionVars
<1>5. CommandInv'
  BY <1>1, <1>3 DEF CommandInv
<1>6. Storing' = Storing /\ Reading' = Reading \ {t}
  BY <1>1, <1>3 DEF Storing, Reading, Does
<1>7. FileInv'
  BY <1>1, <1>6 DEF FileInv, FileIntact, Whole
<1>8. ReadInv'
  BY <1>1, <1>6 DEF ReadInv, ClientOver
<1>9. TempInv'
  <2>1. temp # None => Listing \subseteq Listing'
    BY <1>1, <1>3 DEF Listing, Does
  <2> QED BY <1>1, <2>1 DEF ListInv, TempInv
<1>10. OverlapInv' /\ ListingInv'
  BY <1>1, <1>3 DEF ListInv, OverlapInv, ListingInv, ListPlaces, ClientOver
<1>11. EndInv'
  BY <1>1, <1>3 DEF EndInv, Ended, Intact, Got, Whole
<1> QED BY <1>3, <1>4, <1>5, <1>7, <1>8, <1>9, <1>10, <1>11 DEF ListInv

\* rm temp.txt: the others that list are known to share it.
LEMMA RemoveListingKeeps ==
  ASSUME TransferInv, NEW t \in Transfers, RemoveListing(t)
  PROVE  TransferInv'
<1> USE DEF TransferInv
<1>1. /\ spc[t] = "remove"
      /\ temp' = None
      /\ spc' = [spc EXCEPT ![t] = "done"]
      /\ UNCHANGED <<sessionVars, command, link, handle, spos, cpc, up, down, file,
                     listing, shared, torn>>
  BY DEF RemoveListing, clientVars, historyVars
<1>2. command[t] = "LIST"
      /\ "done" \in ServerPlaces /\ UNCHANGED <<sessionVars, command, link, clientVars>>
  BY <1>1 DEF CommandInv, ServerPlaces, clientVars
<1>3. /\ ForkInv' /\ LinkInv' /\ UpInv'
      /\ \A u \in Transfers : spc'[u] = IF u = t THEN "done" ELSE spc[u]
  BY <1>1, <1>2, ChildStep
<1>4. TypeOK'
  BY <1>1, <1>2 DEF TypeOK, sessionVars
<1>5. CommandInv'
  BY <1>1, <1>3 DEF CommandInv
<1>6. Storing' = Storing /\ Reading' = Reading
  BY <1>1, <1>3 DEF Storing, Reading, Does
<1>7. FileInv'
  BY <1>1, <1>6 DEF FileInv, FileIntact, Whole
<1>8. ReadInv'
  BY <1>1, <1>6 DEF ReadInv, ClientOver
<1>9. TempInv' /\ OverlapInv'
  BY <1>1, <1>3 DEF ListInv, TempInv, OverlapInv, ListPlaces
<1>10. ListingInv'
  <2>1. \A u \in Transfers : command[u] = "LIST" /\ spc[u] \in {"open", "send"} => u \in shared
    BY <1>1, <1>2 DEF ListInv, OverlapInv, ListPlaces
  <2>2. \A u \in Transfers : temp' # u
    BY <1>1, Marks
  <2> QED BY <1>1, <1>3, <2>1, <2>2 DEF ListInv, ListingInv
<1>11. EndInv'
  BY <1>1, <1>3 DEF EndInv, Ended, Intact, Got, Whole
<1> QED BY <1>3, <1>4, <1>5, <1>7, <1>8, <1>9, <1>10, <1>11 DEF ListInv

\* The first unit that receive_file has not taken.
LEMMA NextUnread ==
  ASSUME TransferInv, NEW t \in Transfers, spc[t] = "receive", Unread(t) # << >>
  PROVE  /\ link[t] \in Transfers
         /\ spos[t] \in Nat
         /\ Head(Unread(t)) = IF spos[t] + 1 <= Blocks THEN link[t] ELSE End
<1> USE DEF TransferInv
<1> DEFINE u == up[link[t]]
<1>1. link[t] \in Transfers /\ spos[t] \in Nat
  BY Marks DEF TypeOK, LinkInv
<1>2. u \in Seq(Transfers \cup {End}) /\ Len(u) \in Nat
  BY <1>1 DEF TypeOK
<1>3. Unread(t) = SubSeq(u, spos[t] + 1, Len(u))
  BY DEF Unread
<1>4. \A i \in 1 .. Len(u) : u[i] = IF i <= Blocks THEN link[t] ELSE End
  BY <1>1 DEF UpInv
<1> HIDE DEF u
<1>5. spos[t] + 1 <= Len(u)
  BY <1>1, <1>2, <1>3, SubSeqEmpty
<1>6. Head(Unread(t)) = u[spos[t] + 1]
  <2>1. spos[t] + 1 \in 1 .. Len(u) /\ Len(u) \in spos[t] + 1 .. Len(u)
    BY <1>1, <1>2, <1>5
  <2> QED BY <1>2, <1>3, <2>1, HeadTailOfSubSeq
<1> QED BY <1>1, <1>2, <1>4, <1>5, <1>6

\* receive_file: a block is written after those that were taken before.
LEMMA StoreBlockKeeps ==
  ASSUME TransferInv, NEW t \in Transfers, StoreBlock(t)
  PROVE  TransferInv'
<1> USE DEF TransferInv
<1> DEFINE b == Head(Unread(t))
<1>1. /\ spc[t] = "receive" /\ Unread(t) # << >> /\ b # End
      /\ file' = WrittenAt(spos[t] + 1, b)
      /\ spos' = [spos EXCEPT ![t] = @ + 1]
      /\ UNCHANGED <<sessionVars, command, spc, link, handle, cpc, up, down, temp, listing,
                     shared, torn>>
  BY DEF StoreBlock, clientVars, tempVars, historyVars
<1>2. /\ link[t] \in Transfers /\ spos[t] \in Nat
      /\ spos[t] + 1 <= Blocks /\ b = link[t]
  BY <1>1, NextUnread
<1> HIDE DEF b
<1>3. command[t] = "STOR" /\ t \in Storing
  BY <1>1 DEF CommandInv, Storing, Does
<1>4. \A u \in Transfers : spos'[u] = IF u = t THEN spos[t] + 1 ELSE spos[u]
  BY <1>1 DEF TypeOK
<1> DEFINE n == spos[t] + 1
           m == IF n > Len(file) THEN n ELSE Len(file)
<1>5. /\ file' = [i \in 1 .. m |->
                    CASE i = n -> b [] i # n /\ i <= Len(file) -> file[i] [] OTHER -> Hole]
      /\ m \in Nat
      /\ file \in Seq(FileBlocks) /\ Len(file) \in Nat
  BY <1>1, <1>2 DEF WrittenAt, TypeOK
<1>6. file' \in Seq(FileBlocks)
  <2>1. \A i \in 1 .. m : file'[i] \in FileBlocks
    BY <1>2, <1>5 DEF FileBlocks
  <2>2. file' \in [1 .. m -> FileBlocks]
    BY <1>5, <2>1
  <2>3. m \in Nat
    BY <1>5
  <2> HIDE DEF m
  <2> QED BY <2>2, <2>3
<1>7. TypeOK'
  <2>1. spos' \in [Transfers -> Nat]
    BY <1>1, <1>2 DEF TypeOK
  <2> QED BY <1>1, <1>6, <2>1 DEF TypeOK, sessionVars
<1>8. ForkInv' /\ LinkInv' /\ UpInv'
  BY <1>1 DEF ForkInv, LinkInv, UpInv, PortOfTransfer, sessionVars
<1>9. CommandInv'
  BY <1>1, <1>4 DEF CommandInv
<1>10. Storing' = Storing /\ Reading' = Reading /\ Listing' = Listing
  BY <1>1 DEF Storing, Reading, Listing, Does
<1>11. FileInv'
  <2>1. ASSUME ~torn
        PROVE  /\ \A u \in Storing : u = t
               /\ Len(file') = n
               /\ \A i \in 1 .. n : file'[i] = link[t]
    <3>1. /\ \A u \in Storing : u = t
          /\ Len(file) = spos[t]
          /\ \A i \in 1 .. spos[t] : file[i] = link[t]
      BY <1>3, <2>1 DEF FileInv
    <3>2. m = n
      BY <1>2, <3>1
    <3>3. Len(file') = n
      BY <1>2, <1>5, <3>2
    <3>4. \A i \in 1 .. n : file'[i] = link[t]
      BY <1>2, <1>5, <3>1, <3>2
    <3> QED BY <3>1, <3>3, <3>4
  <2>2. spos'[t] = n /\ link' = link /\ torn' = torn
    BY <1>1, <1>4
  <2>3. FileIntact'
    BY <1>3, <1>10 DEF FileIntact
  <2> HIDE DEF n
  <2>4. n <= Blocks
    BY <1>2 DEF n
  <2> QED BY <1>10, <2>1, <2>2, <2>3, <2>4 DEF FileInv
<1>12. ReadInv'
  BY <1>1, <1>3, <1>10 DEF ReadInv
<1>13. TempInv' /\ OverlapInv'
  BY <1>1, <1>10 DEF ListInv, TempInv, OverlapInv
<1>14. ListingInv'
  BY <1>1, <1>4 DEF ListInv, ListingInv, ClientOver
<1>15. EndInv'
  BY <1>1 DEF EndInv, Ended, Intact, Got, Whole
<1> QED BY <1>7, <1>8, <1>9, <1>11, <1>12, <1>13, <1>14, <1>15 DEF ListInv

\* receive_file ends, with the end mark or without it.
LEMMA StoreOverKeeps ==
  ASSUME TransferInv, NEW t \in Transfers, StoreEnd(t) \/ StoreCut(t)
  PROVE  TransferInv'
<1> USE DEF TransferInv
<1>1. /\ spc[t] = "receive"
      /\ spc' = [spc EXCEPT ![t] = "done"]
      /\ \/ Unread(t) # << >> /\ Head(Unread(t)) = End /\ torn' = torn
         \/ torn' = TRUE
      /\ UNCHANGED <<sessionVars, command, link, handle, spos, cpc, up, down, file, temp,
                     listing, shared>>
  BY DEF StoreEnd, StoreCut, clientVars, tempVars, historyVars
<1>2. command[t] = "STOR" /\ t \in Storing
      /\ "done" \in ServerPlaces /\ UNCHANGED <<sessionVars, command, link, clientVars>>
  BY <1>1 DEF CommandInv, Storing, Does, ServerPlaces, clientVars
<1>3. /\ ForkInv' /\ LinkInv' /\ UpInv'
      /\ \A u \in Transfers : spc'[u] = IF u = t THEN "done" ELSE spc[u]
      /\ link[t] \in Transfers
  BY <1>1, <1>2, ChildStep
<1>4. TypeOK'
  <2>1. torn' \in BOOLEAN
    BY <1>1 DEF TypeOK
  <2> QED BY <1>1, <1>2, <2>1 DEF TypeOK, sessionVars
<1>5. CommandInv'
  BY <1>1, <1>3 DEF CommandInv
<1>6. Storing' = Storing \ {t} /\ Reading' = Reading /\ Listing' = Listing
  BY <1>1, <1>2, <1>3 DEF Storing, Reading, Listing, Does
<1>7. FileInv'
  <2>1. CASE torn'
    BY <2>1 DEF FileInv, FileIntact
  <2>2. CASE ~torn'
    <3>1. ~torn /\ Unread(t) # << >> /\ Head(Unread(t)) = End
      BY <1>1, <2>2
    <3>2. /\ \A u \in Storing : u = t
          /\ Len(file) = spos[t] /\ spos[t] <= Blocks
          /\ \A i \in 1 .. spos[t] : file[i] = link[t]
      BY <1>2, <3>1 DEF FileInv
    <3>3. spos[t] = Blocks
      BY <1>1, <3>1, <3>2, NextUnread, Marks
    <3>4. file = Upload(link[t])
      <4>1. file = [i \in 1 .. Len(file) |-> file[i]]
        BY DEF TypeOK
      <4> QED BY <3>2, <3>3, <4>1 DEF Upload
    <3>5. Whole(file)
      BY <1>3, <3>4 DEF Whole
    <3>6. Storing' = {}
      BY <1>6, <3>2
    <3> QED BY <1>1, <3>5, <3>6 DEF FileInv, FileIntact, Whole
  <2> QED BY <2>1, <2>2
<1>8. ReadInv'
  BY <1>1, <1>2, <1>6 DEF ReadInv
<1>9. TempInv' /\ OverlapInv' /\ ListingInv'
  BY <1>1, <1>3, <1>6
     DEF ListInv, TempInv, OverlapInv, ListingInv, ListPlaces, ClientOver
<1>10. EndInv'
  <2>1. ~Ended(link[t])
    BY <1>1 DEF EndInv, Ended
  <2> QED BY <1>1, <1>3, <2>1 DEF EndInv, Ended, Intact, Got, Whole
<1> QED BY <1>3, <1>4, <1>5, <1>7, <1>8, <1>9, <1>10 DEF ListInv

------------------------------------------------------------------------------
(* The theorems                                                            *)

LEMMA InitHolds == Init => TransferInv
<1> SUFFICES ASSUME Init PROVE TransferInv
  OBVIOUS
<1>1. \A t \in Transfers :
        /\ t[1] \in Sessions /\ session[t[1]] = "new" /\ ~replied[t[1]]
        /\ spc[t] = "none" /\ cpc[t] = "none" /\ link[t] = None /\ spos[t] = 0
        /\ up[t] = << >> /\ down[t] = << >> /\ listing[t] = << >>
  BY TransferShape DEF Init
<1>2. TypeOK
  <2>1. control_port \in [Sessions -> 0 .. PortSpace - 1]
    BY ShortRange DEF Init
  <2>2. port_counter \in [Sessions -> FirstTransfer .. LastTransfer + 1]
    BY Bounds DEF Init
  <2>3. file \in Seq(FileBlocks)
    <3>1. OldFile \in [1 .. Blocks + 1 -> FileBlocks] /\ Blocks + 1 \in Nat
      BY Marks DEF OldFile, FileBlocks
    <3> QED BY <3>1 DEF Init
  <2>4. /\ up \in [Transfers -> Seq(Transfers \cup {End})]
        /\ down \in [Transfers -> Seq(FileBlocks \cup {End})]
        /\ listing \in [Transfers -> Seq(Transfers)]
    BY DEF Init
  <2> QED BY <2>1, <2>2, <2>3, <2>4 DEF Init, TypeOK, ServerPlaces, ClientPlaces
<1>3. ForkInv
  BY <1>1 DEF Init, ForkInv
<1>4. CommandInv /\ LinkInv
  BY <1>1 DEF CommandInv, LinkInv
<1>5. UpInv
  BY <1>1 DEF UpInv
<1>6. Storing = {} /\ Reading = {} /\ temp = None
  BY <1>1 DEF Init, Storing, Reading, Does
<1>7. FileInv
  BY <1>6 DEF Init, FileInv, FileIntact, Whole
<1>8. ReadInv
  BY <1>6 DEF ReadInv
<1>9. ListInv
  BY <1>1, <1>6, Marks DEF ListInv, TempInv, OverlapInv, ListingInv, ListPlaces
<1>10. EndInv
  BY <1>1 DEF EndInv
<1> QED BY <1>2, <1>3, <1>4, <1>5, <1>7, <1>8, <1>9, <1>10 DEF TransferInv

LEMMA StepKeeps == TransferInv /\ [Next]_vars => TransferInv'
<1> SUFFICES ASSUME TransferInv, [Next]_vars PROVE TransferInv'
  OBVIOUS
<1>1. CASE AcceptFails
  BY <1>1, AcceptFailsKeeps
<1>2. ASSUME NEW s \in Sessions, Session(s) PROVE TransferInv'
  BY <1>2, AcceptKeeps, ServerForksKeeps, ServerRefusesKeeps, ClientForksKeeps, QuitKeeps,
     InterruptKeeps DEF Session
<1>3. ASSUME NEW t \in Transfers, ServerChild(t) PROVE TransferInv'
  BY <1>3, ConnectKeeps, AppendListingKeeps, OpenListingKeeps, OpenFileKeeps, CreateFileKeeps,
     SendBlockKeeps, SendEndKeeps, SendFailsKeeps, RemoveListingKeeps, StoreBlockKeeps,
     StoreOverKeeps DEF ServerChild
<1>4. ASSUME NEW t \in Transfers, ClientChild(t) PROVE TransferInv'
  BY <1>4, BindKeeps, ClientSendKeeps, ClientEndKeeps DEF ClientChild
<1>5. CASE UNCHANGED vars
  <2>1. /\ TypeOK' = TypeOK /\ ForkInv' = ForkInv /\ CommandInv' = CommandInv
        /\ LinkInv' = LinkInv /\ UpInv' = UpInv
    BY <1>5 DEF vars, sessionVars, serverVars, clientVars, tempVars, historyVars, TypeOK,
       ForkInv, CommandInv, LinkInv, UpInv, PortOfTransfer
  <2>2. EndInv' = EndInv
    BY <1>5 DEF vars, serverVars, clientVars, historyVars, EndInv, Ended, Intact, Got, Whole
  <2>3. FileInv' /\ ReadInv' /\ ListInv'
    BY <1>5, ServerQuiet DEF vars, clientVars, ClientOver, TransferInv
  <2> QED BY <2>1, <2>2, <2>3 DEF TransferInv
<1> QED BY <1>1, <1>2, <1>3, <1>4, <1>5 DEF Next, Idle

THEOREM TransferInvariance == Spec => []TransferInv
BY InitHolds, StepKeeps, PTL DEF Spec

\* No two children of the clients listen on one port.
ListenInv ==
  \A t, u \in Transfers :
    Listens(t) /\ Listens(u) /\ PortOfTransfer(t) = PortOfTransfer(u) => t = u

\* bind sees every child that listens; the other steps add none and move none.
LEMMA ListenKept ==
  ASSUME TransferInv, ListenInv, [Next]_vars
  PROVE  ListenInv'
<1> USE DEF TransferInv
<1>1. ASSUME control_port' = control_port, \A c \in Transfers : Listens(c)' => Listens(c)
      PROVE  ListenInv'
  BY <1>1 DEF ListenInv, PortOfTransfer
<1>2. ASSUME NEW s \in Sessions, Accept(s) PROVE ListenInv'
  <2>1. /\ session[s] = "new" /\ cpc' = cpc
        /\ \E q \in ControlPorts[s] : control_port' = [control_port EXCEPT ![s] = q]
    BY <1>2 DEF Accept, clientVars
  <2>2. \A t \in Transfers : t[1] = s => ~Listens(t)
    BY <2>1 DEF ForkInv, Listens
  <2>3. \A t \in Transfers : t[1] # s => PortOfTransfer(t)' = PortOfTransfer(t)
    BY <2>1, TransferShape DEF PortOfTransfer, TypeOK
  <2>4. \A t \in Transfers : Listens(t)' <=> Listens(t)
    BY <2>1 DEF Listens
  <2> QED BY <2>2, <2>3, <2>4 DEF ListenInv
<1>3. ASSUME NEW s \in Sessions, Session(s), ~Accept(s) PROVE ListenInv'
  <2>1. control_port' = control_port
    BY <1>3 DEF Session, ServerForks, ServerRefuses, ClientForks, Quit, Interrupt
  <2>2. \/ cpc' = cpc
        \/ cpc' = [cpc EXCEPT ![Current(s)] = "bind"]
        \/ cpc' = [t \in Transfers |-> IF t[1] = s /\ ~ClientOver(t) THEN "killed" ELSE cpc[t]]
    BY <1>3 DEF Session, ServerForks, ServerRefuses, ClientForks, Quit, Interrupt, clientVars
  <2>3. \A c \in Transfers : cpc'[c] \in {cpc[c], "bind", "killed"}
    BY <2>2 DEF TypeOK
  <2>4. \A c \in Transfers : Listens(c)' => Listens(c)
    BY <2>3 DEF Listens
  <2> QED BY <1>1, <2>1, <2>4
<1>4. ASSUME NEW t \in Transfers, Bind(t) PROVE ListenInv'
  <2>1. /\ control_port' = control_port
        /\ cpc' = [cpc EXCEPT ![t] = IF CanBind(PortOfTransfer(t)) THEN "accept" ELSE "failed"]
    BY <1>4 DEF Bind, sessionVars
  <2>2. \A c \in Transfers : c # t => (Listens(c)' <=> Listens(c))
    BY <2>1 DEF TypeOK, Listens
  <2>3. Listens(t)' => CanBind(PortOfTransfer(t))
    BY <2>1 DEF TypeOK, Listens
  <2>4. \A c \in Transfers : PortOfTransfer(c)' = PortOfTransfer(c)
    BY <2>1 DEF PortOfTransfer
  <2>5. Listens(t)' => \A c \in Transfers : Listens(c) => PortOfTransfer(c) # PortOfTransfer(t)
    BY <2>3 DEF CanBind
  <2> QED BY <2>2, <2>4, <2>5 DEF ListenInv
<1>5. ASSUME NEW t \in Transfers, ClientChild(t), ~Bind(t) PROVE ListenInv'
  <2>1. /\ control_port' = control_port
        /\ \E q \in {"done", "killed", "complete", "cut"} : cpc' = [cpc EXCEPT ![t] = q]
    BY <1>5 DEF ClientChild, ClientSend, ClientSendFails, ClientComplete, ClientCut, sessionVars
  <2>2. \A c \in Transfers : cpc'[c] \in {cpc[c], "done", "killed", "complete", "cut"}
    BY <2>1 DEF TypeOK
  <2>3. \A c \in Transfers : Listens(c)' => Listens(c)
    BY <2>2 DEF Listens
  <2> QED BY <1>1, <2>1, <2>3
<1>6. ASSUME NEW t \in Transfers, Connect(t) PROVE ListenInv'
  <2>1. PICK c \in Transfers : Meet(t, c)
    BY <1>6 DEF Connect
  <2>2. /\ control_port' = control_port /\ cpc[c] = "accept"
        /\ cpc' = [cpc EXCEPT ![c] = IF command[c] = "STOR" THEN "send" ELSE "receive"]
    BY <2>1 DEF Meet, sessionVars
  <2>3. \A d \in Transfers : Listens(d)' => Listens(d)
    BY <2>2 DEF TypeOK, Listens
  <2> QED BY <1>1, <2>2, <2>3
<1>7. CASE UNCHANGED <<sessionVars, clientVars>>
  <2>1. control_port' = control_port /\ cpc' = cpc
    BY <1>7 DEF sessionVars, clientVars
  <2>2. \A c \in Transfers : Listens(c)' => Listens(c)
    BY <2>1 DEF Listens
  <2> QED BY <1>1, <2>1, <2>2
<1>8. ASSUME NEW t \in Transfers, ServerChild(t), ~Connect(t) PROVE ListenInv'
  BY <1>7, <1>8 DEF ServerChild, AppendListing, OpenListing, OpenFile, CreateFile, SendBlock,
     SendEnd, SendFails, RemoveListing, StoreBlock, StoreEnd, StoreCut
<1>9. CASE AcceptFails
  <2>1. control_port' = control_port /\ cpc' = cpc
    BY <1>9 DEF AcceptFails, clientVars
  <2>2. \A c \in Transfers : Listens(c)' => Listens(c)
    BY <2>1 DEF Listens
  <2> QED BY <1>1, <2>1, <2>2
<1>10. CASE UNCHANGED vars
  BY <1>7, <1>10 DEF vars
<1> QED
  BY <1>2, <1>3, <1>4, <1>5, <1>6, <1>8, <1>9, <1>10 DEF Next, Idle

\* A child of the server that connects finds the child of its own client, if that
\* listens: no other listens on its port.
THEOREM MeetsItsClientCorrect == Spec => MeetsItsClient
<1>1. Init => ListenInv
  BY DEF Init, ListenInv, Listens
<1>2. TransferInv /\ ListenInv /\ [Next]_vars => ListenInv'
  BY ListenKept
<1>3. TransferInv /\ ListenInv /\ [Next]_vars =>
        \A t \in Transfers : link'[t] # link[t] /\ cpc[t] = "accept" => link'[t] = t
  <2> SUFFICES ASSUME TransferInv, ListenInv, [Next]_vars, NEW t \in Transfers,
                      link'[t] # link[t], cpc[t] = "accept"
               PROVE  link'[t] = t
    OBVIOUS
  <2>1. ASSUME link' = link PROVE FALSE
    BY <2>1
  <2>2. ASSUME NEW s \in Sessions, Session(s) PROVE FALSE
    BY <2>1, <2>2 DEF Session, Accept, ServerForks, ServerRefuses, ClientForks, Quit, Interrupt,
       serverVars
  <2>3. ASSUME NEW u \in Transfers, ClientChild(u) PROVE FALSE
    BY <2>1, <2>3 DEF ClientChild, Bind, ClientSend, ClientSendFails, ClientComplete, ClientCut,
       serverVars
  <2>4. ASSUME NEW u \in Transfers, ServerChild(u), ~Connect(u) PROVE FALSE
    BY <2>1, <2>4 DEF ServerChild, AppendListing, OpenListing, OpenFile, CreateFile, SendBlock,
       SendEnd, SendFails, RemoveListing, StoreBlock, StoreEnd, StoreCut
  <2>5. ASSUME AcceptFails \/ UNCHANGED vars PROVE FALSE
    BY <2>1, <2>5 DEF AcceptFails, serverVars, vars
  <2>6. PICK u \in Transfers : Connect(u)
    BY <2>2, <2>3, <2>4, <2>5 DEF Next, Idle
  <2>7. PICK c \in Transfers : Meet(u, c)
    BY <2>6 DEF Connect
  <2>8. /\ cpc[c] = "accept" /\ PortOfTransfer(u) = PortOfTransfer(c)
        /\ link' = [link EXCEPT ![u] = c]
    BY <2>7 DEF Meet
  <2>9. u = t /\ link'[t] = c
    BY <2>8 DEF TransferInv, TypeOK
  <2>10. c = t
    BY <2>8, <2>9 DEF ListenInv, Listens
  <2> QED BY <2>9, <2>10
<1> QED BY <1>1, <1>2, <1>3, TransferInvariance, PTL DEF Spec, MeetsItsClient

\* A complete LIST or RETR that shared nothing has brought what it was asked for.
THEOREM ReceivedIntactCorrect == Spec => []ReceivedIntact
<1>1. TransferInv => ReceivedIntact
  <2> SUFFICES ASSUME TransferInv, NEW t \in Transfers, cpc[t] = "complete", link[t] = t,
                      t \notin shared
               PROVE  IF command[t] = "LIST" THEN Got(t) = <<t>> ELSE Whole(Got(t))
    BY DEF ReceivedIntact
  <2>1. Ended(t)
    BY DEF TransferInv, EndInv
  <2>2. spc[t] \notin {"append", "open", "receive"}
    BY <2>1 DEF TransferInv, EndInv, Ended
  <2>3. spc[t] \notin {"send", "killed", "none", "connect"}
    BY <2>1, Marks DEF TransferInv, EndInv, LinkInv
  <2>4. spc[t] \in {"remove", "done"}
    BY <2>2, <2>3 DEF TransferInv, TypeOK, ServerPlaces
  <2>5. Intact(t, link[t])
    BY <2>1, <2>4 DEF TransferInv, EndInv
  <2> QED BY <2>5 DEF Intact
<1> QED BY <1>1, TransferInvariance, PTL

\* When nobody stores, the file is one client's file unless it is torn.
THEOREM FileIntactCorrect == Spec => []FileIntact
<1>1. TransferInv => FileIntact
  BY DEF TransferInv, FileInv
<1> QED BY <1>1, TransferInvariance, PTL
==============================================================================
