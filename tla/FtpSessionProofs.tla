--------------------------- MODULE FtpSessionProofs --------------------------
(***************************************************************************)
(* Proofs about FtpSession, for any users, directories and control ports   *)
(* and any number of transfers: LockStep is inductive together with the    *)
(* types of the variables, and both programs start the same transfers.     *)
(***************************************************************************)
EXTENDS FtpSession, ArithmeticLemmas, TLAPS

------------------------------------------------------------------------------
(* Sequences with at most one message.                                     *)

\* A message that is sent on an empty connection is alone on it.
LEMMA OneMessage ==
  ASSUME NEW m
  PROVE  /\ Append(<< >>, m) = <<m>>
         /\ Head(<<m>>) = m
         /\ Len(<<m>>) = 1
         /\ <<m>> # << >>
         /\ << <<m>>[1] >> = <<m>>
         /\ <<m>>[1] = m
<1> DEFINE S == {m}
<1>1. << >> \in Seq(S) /\ <<m>> \in Seq(S)
  OBVIOUS
<1> QED BY <1>1

Codes == {150, 200, 202, 220, 221, 230, 257, 331, 425, 501, 530, 550}

\* The types of what is on the connection: at most a request and a reply code.
MessageTypes ==
  /\ toServer # << >> => toServer = <<[cmd |-> Request.cmd, arg |-> Request.arg]>>
  /\ toClient # << >> => toClient = <<Code>> /\ Code \in Codes

ServerTypes ==
  /\ serving \in BOOLEAN /\ held \in BOOLEAN
  /\ auth1 \in BOOLEAN /\ auth2 \in BOOLEAN
  /\ username \in Users \cup {NoName}
  /\ port_f \in BOOLEAN
  /\ port \in 0 .. PortSpace - 1
  /\ started \in Seq(Transfer)

ClientTypes ==
  /\ cpc \in {"greeting", "prompt", "answer", "quit", "port", "transfer", "closed"}
  /\ input \in Transfers
  /\ control_port \in ControlPorts
  /\ port_counter \in FirstTransfer .. FirstTransfer + MaxTransfers
  /\ listening \in Seq(Transfer)

\* The inductive invariant.
SessionInv == MessageTypes /\ ServerTypes /\ ClientTypes /\ LockStep

\* The parts of the invariant make up the type invariant of FtpSession.
LEMMA TypesImply == SessionInv => TypeOK
<1> SUFFICES ASSUME SessionInv PROVE TypeOK
  OBVIOUS
<1>1. \A i \in 1 .. Len(toServer) : DOMAIN toServer[i] = {"cmd", "arg"}
  <2>1. CASE toServer = << >>
    <3>1. Len(toServer) = 0
      BY <2>1
    <3> QED BY <3>1
  <2>2. CASE toServer # << >>
    <3> DEFINE m == [cmd |-> Request.cmd, arg |-> Request.arg]
    <3>1. toServer = <<m>>
      BY <2>2 DEF SessionInv, MessageTypes
    <3>2. DOMAIN m = {"cmd", "arg"}
      OBVIOUS
    <3> HIDE DEF m
    <3>3. Len(toServer) = 1 /\ toServer[1] = m
      BY <3>1, OneMessage
    <3>4. \A i \in 1 .. Len(toServer) : i = 1
      BY <3>3
    <3> QED BY <3>2, <3>3, <3>4
  <2> QED BY <2>1, <2>2
<1>2. toClient \in Seq(Codes)
  <2>1. CASE toClient = << >>
    BY <2>1
  <2>2. CASE toClient # << >>
    <3>1. toClient = <<Code>> /\ Code \in Codes
      BY <2>2 DEF SessionInv, MessageTypes
    <3> QED BY <3>1
  <2> QED BY <2>1, <2>2
<1> QED BY <1>1, <1>2 DEF TypeOK, SessionInv, ServerTypes, ClientTypes, Codes

\* The port of the transfer that is being asked for is a port.
LEMMA NewPortIsPort ==
  ASSUME ClientTypes
  PROVE  new_port \in 0 .. PortSpace - 1
<1>1. control_port \in 1 .. PortSpace - 1 /\ port_counter \in Nat
  BY ControlAssumption DEF ClientTypes, FirstTransfer
<1> QED BY <1>1, NewPortType DEF new_port

\* A transfer that is started is one.
LEMMA TransferType ==
  ASSUME NEW c \in Transfers, NEW n \in 0 .. PortSpace - 1
  PROVE  [cmd |-> c, port |-> n] \in Transfer
BY DEF Transfer

------------------------------------------------------------------------------
(* The server                                                              *)

\* While a request is on its way there is no reply, and both sides agree.
LEMMA RequestAlone ==
  ASSUME LockStep, toServer # << >>, MessageTypes
  PROVE  /\ toClient = << >>
         /\ started = listening
<1>1. started = listening
  BY DEF LockStep, RequestInv
<1>2. Len(toServer) = 1
  BY OneMessage DEF MessageTypes
<1>3. ASSUME toClient # << >> PROVE FALSE
  <2>1. Len(toClient) = 1
    BY <1>3, OneMessage DEF MessageTypes
  <2> QED BY <1>2, <2>1 DEF LockStep, AtMostOneMessage
<1> QED BY <1>1, <1>3

\* A reply keeps the two sides in step if it says what the server has done.
LEMMA ReplyKeeps ==
  ASSUME SessionInv, toServer # << >>,
         NEW code \in Codes, Reply(code), UNCHANGED clientVars,
         cpc = "port" /\ code = 200 => port_f' /\ port' = new_port,
         cpc = "transfer" =>
           started' = IF code = 150 THEN Append(listening, Asked) ELSE listening,
         cpc \notin {"transfer", "closed"} => started' = listening
  PROVE  MessageTypes' /\ ClientTypes' /\ LockStep'
<1>1. toClient = << >> /\ started = listening
  BY RequestAlone DEF SessionInv
<1>2. toServer' = << >> /\ toClient' = <<code>>
  BY <1>1, OneMessage DEF Reply
<1>3. toClient' # << >> /\ Code' = code /\ Len(toClient') = 1 /\ Len(toServer') = 0
  BY <1>2, OneMessage DEF Code
<1>4. MessageTypes'
  BY <1>2, <1>3 DEF MessageTypes
<1>5. ClientTypes'
  BY DEF ClientTypes, clientVars, SessionInv
<1>6. /\ cpc' = cpc /\ input' = input /\ listening' = listening
      /\ port_counter' = port_counter /\ new_port' = new_port /\ Asked' = Asked
  BY DEF clientVars, new_port, Asked
<1>7. AtMostOneMessage'
  BY <1>3 DEF AtMostOneMessage
<1>8. RequestInv'
  BY <1>2 DEF RequestInv
<1>9. ReplyInv'
  BY <1>3, <1>6 DEF ReplyInv
<1>10. cpc # "prompt"
  BY DEF SessionInv, LockStep
<1>11. cpc \in {"port", "transfer"} => port_counter < FirstTransfer + MaxTransfers
  BY DEF SessionInv, LockStep
<1> QED BY <1>3, <1>4, <1>5, <1>6, <1>7, <1>8, <1>9, <1>10, <1>11 DEF LockStep

\* A reply that starts nothing and gives no port keeps them in step.
LEMMA RefusalKeeps ==
  ASSUME SessionInv, toServer # << >>,
         NEW code \in Codes \ {150}, Reply(code), cpc = "port" => code # 200,
         UNCHANGED <<clientVars, started>>
  PROVE  MessageTypes' /\ ClientTypes' /\ LockStep'
<1>1. started' = listening
  BY RequestAlone DEF SessionInv
<1> QED BY <1>1, ReplyKeeps

\* A command that is not PORT finds no client that waits for the port.
LEMMA OtherThanPort ==
  ASSUME SessionInv, NEW cmd, Serve(cmd), cmd # "PORT"
  PROVE  cpc # "port"
BY DEF SessionInv, LockStep, RequestInv, Serve

\* USER and PASS: whatever is found, the login has a user of users.csv or none.
LEMMA LoginKeeps ==
  ASSUME SessionInv, UNCHANGED clientVars,
         HandleUser \/ PassWithoutUser \/ PassAgain \/ PassRight \/ PassRefused
  PROVE  MessageTypes' /\ ClientTypes' /\ LockStep'
<1>1. CASE HandleUser
  <2>1. PICK found \in AuthUser(Request.arg) :
          Reply(CASE found = 1 -> 331 [] found = 0 -> 530 [] OTHER -> 501)
    BY <1>1 DEF HandleUser
  <2> DEFINE code == CASE found = 1 -> 331 [] found = 0 -> 530 [] OTHER -> 501
  <2>2. code \in Codes \ {150} /\ code # 200
    BY DEF Codes
  <2>3. toServer # << >> /\ UNCHANGED started
    BY <1>1 DEF HandleUser, Serve
  <2>4. Reply(code)
    BY <2>1
  <2> HIDE DEF code
  <2> QED BY <2>2, <2>3, <2>4, RefusalKeeps
<1>2. CASE PassRefused
  <2>1. PICK found \in AuthPass(username, Request.arg) \ {1} :
          Reply(IF found = 0 THEN 530 ELSE 501)
    BY <1>2 DEF PassRefused
  <2> DEFINE code == IF found = 0 THEN 530 ELSE 501
  <2>2. code \in Codes \ {150} /\ code # 200
    BY DEF Codes
  <2>3. toServer # << >> /\ UNCHANGED started
    BY <1>2 DEF PassRefused, Serve
  <2>4. Reply(code)
    BY <2>1
  <2> HIDE DEF code
  <2> QED BY <2>2, <2>3, <2>4, RefusalKeeps
<1>3. CASE PassWithoutUser \/ PassAgain \/ PassRight
  <2>1. toServer # << >> /\ UNCHANGED started
    BY <1>3 DEF PassWithoutUser, PassAgain, PassRight, Serve
  <2>2. PICK code \in {530, 230} : Reply(code)
    BY <1>3 DEF PassWithoutUser, PassAgain, PassRight
  <2>3. code \in Codes \ {150} /\ code # 200
    BY DEF Codes
  <2> QED BY <2>1, <2>2, <2>3, RefusalKeeps
<1> QED BY <1>1, <1>2, <1>3

\* PORT: 200 means that the server has the port the client will listen on.
LEMMA PortKeeps ==
  ASSUME SessionInv, UNCHANGED clientVars, HandlePort
  PROVE  /\ port' = new_port /\ port_f' = TRUE
         /\ MessageTypes' /\ ClientTypes' /\ LockStep'
<1>1. Request.arg = <<HighByte(new_port), LowByte(new_port)>>
  BY DEF HandlePort, ServeUser, Serve, SessionInv, LockStep, RequestInv
<1>2. PortOf(HighByte(new_port), LowByte(new_port)) = new_port
  BY NewPortIsPort, RoundTrip DEF SessionInv
<1>3. Request.arg[1] = HighByte(new_port) /\ Request.arg[2] = LowByte(new_port)
  BY <1>1
<1>4. port' = new_port /\ port_f' = TRUE
  BY <1>2, <1>3 DEF HandlePort
<1>5. toServer # << >> /\ Reply(200) /\ started' = started
  BY DEF HandlePort, ServeUser, Serve
<1>6. UNCHANGED new_port
  BY DEF clientVars, new_port
<1>7. started' = listening
  BY <1>5, RequestAlone DEF SessionInv
<1>8. 200 \in Codes /\ 200 # 150
  BY DEF Codes
<1>9. cpc # "transfer"
  BY DEF HandlePort, ServeUser, Serve, SessionInv, LockStep, RequestInv, Transfers
<1> QED BY <1>4, <1>5, <1>7, <1>8, <1>9, ReplyKeeps

\* 150: the server has started the transfer that the client asks for.
LEMMA StartKeeps ==
  ASSUME SessionInv, UNCHANGED clientVars, StartTransfer
  PROVE  /\ started = listening /\ started' = Append(listening, Asked)
         /\ MessageTypes' /\ ClientTypes' /\ LockStep'
<1>1. PICK cmd \in Transfers : ServeUser(cmd)
  BY DEF StartTransfer
<1>2. toServer # << >> /\ Request.cmd \in Transfers
  BY <1>1 DEF ServeUser, Serve
<1>3. /\ Request.cmd = input /\ port = new_port
      /\ cpc \in {"transfer", "closed"}
  BY <1>2 DEF SessionInv, LockStep, RequestInv
<1>4. started = listening
  BY <1>2, RequestAlone DEF SessionInv
<1>5. started' = Append(listening, Asked)
  BY <1>3, <1>4 DEF StartTransfer, Asked
<1>6. Reply(150) /\ 150 \in Codes
  BY DEF StartTransfer, Codes
<1> QED BY <1>2, <1>3, <1>4, <1>5, <1>6, ReplyKeeps

\* Every other answer.
LEMMA AnswerKeeps ==
  ASSUME SessionInv, UNCHANGED clientVars,
         \/ NotLoggedIn \/ BadCommand \/ BadPort \/ NoSuchFile \/ NoPort
         \/ CwdNotFound \/ HandleCwd \/ HandlePwd \/ HandleQuit
  PROVE  MessageTypes' /\ ClientTypes' /\ LockStep'
<1>1. toServer # << >> /\ UNCHANGED started
  BY DEF NotLoggedIn, BadCommand, BadPort, NoSuchFile, NoPort, CwdNotFound,
         HandleCwd, HandlePwd, HandleQuit, ServeUser, Serve, serverVars
<1>2. CASE HandleCwd
  <2>1. PICK code \in {200, 501} : Reply(code)
    BY <1>2 DEF HandleCwd
  <2>2. code \in Codes \ {150}
    BY DEF Codes
  <2>3. cpc # "port"
    BY <1>2, OtherThanPort DEF HandleCwd, ServeUser
  <2> QED BY <1>1, <2>1, <2>2, <2>3, RefusalKeeps
<1>3. CASE ~HandleCwd
  <2>1. PICK code \in {202, 221, 257, 425, 501, 530, 550} : Reply(code)
    BY <1>3 DEF NotLoggedIn, BadCommand, BadPort, NoSuchFile, NoPort, CwdNotFound,
         HandlePwd, HandleQuit
  <2>2. code \in Codes \ {150} /\ code # 200
    BY DEF Codes
  <2> QED BY <1>1, <2>1, <2>2, RefusalKeeps
<1> QED BY <1>2, <1>3

\* CWD without a name ends the process: the request is gone, and nobody answers.
LEMMA SilenceKeeps ==
  ASSUME SessionInv, UNCHANGED clientVars, CwdWithoutName
  PROVE  MessageTypes' /\ ClientTypes' /\ LockStep'
<1>1. toClient = << >> /\ started = listening
  BY RequestAlone DEF SessionInv, CwdWithoutName, ServeUser, Serve
<1>2. /\ toServer' = << >> /\ toClient' = << >> /\ started' = listening
      /\ UNCHANGED clientVars
  BY <1>1 DEF CwdWithoutName
<1>3. AtMostOneMessage' /\ RequestInv' /\ ReplyInv'
  BY <1>2 DEF AtMostOneMessage, RequestInv, ReplyInv
<1>4. LockStep'
  BY <1>2, <1>3 DEF LockStep, SessionInv, clientVars
<1> QED BY <1>2, <1>4 DEF MessageTypes, ClientTypes, SessionInv, clientVars

\* The server's variables keep their types.
LEMMA ServerTypesKept ==
  ASSUME SessionInv, ServerStep
  PROVE  ServerTypes'
<1>1. held' \in BOOLEAN
  BY DEF ServerStep, SessionInv, ServerTypes
<1> USE DEF SessionInv, ServerTypes
<1>2. CASE HandleUser
  <2>1. PICK found \in AuthUser(Request.arg) :
          /\ auth1' = (found = 1)
          /\ username' = IF found = 1 THEN Request.arg ELSE NoName
    BY <1>2 DEF HandleUser
  <2>2. auth1' \in BOOLEAN /\ username' \in Users \cup {NoName}
    BY <2>1 DEF AuthUser
  <2> QED BY <1>1, <1>2, <2>2 DEF HandleUser, portVars
<1>3. CASE PassWithoutUser \/ PassAgain \/ PassRight \/ PassRefused
  <2>1. auth1' = auth1 \/ auth1' = FALSE
    BY <1>3 DEF PassWithoutUser, PassAgain, PassRight, PassRefused
  <2>2. auth2' = auth2 \/ auth2' = FALSE \/ auth2' = TRUE
    BY <1>3 DEF PassWithoutUser, PassAgain, PassRight, PassRefused
  <2>3. username' = username \/ username' = NoName
    BY <1>3 DEF PassWithoutUser, PassAgain, PassRight, PassRefused
  <2>4. UNCHANGED <<serving, port_f, port, started>>
    BY <1>3 DEF PassWithoutUser, PassAgain, PassRight, PassRefused, portVars
  <2> QED BY <1>1, <2>1, <2>2, <2>3, <2>4
<1>4. CASE NotLoggedIn \/ BadCommand \/ NoPort \/ CwdNotFound \/ HandlePwd \/ HandleQuit
  BY <1>1, <1>4 DEF NotLoggedIn, BadCommand, NoPort, CwdNotFound, HandlePwd,
     HandleQuit, serverVars, authVars, portVars
<1>5. CASE HandlePort
  <2>1. port' = new_port /\ port_f' = TRUE
    BY <1>5, PortKeeps DEF ServerStep
  <2>2. new_port \in 0 .. PortSpace - 1
    BY NewPortIsPort
  <2> QED BY <1>1, <1>5, <2>1, <2>2 DEF HandlePort, authVars
<1>6. CASE BadPort \/ NoSuchFile
  <2>1. /\ port_f' = FALSE
        /\ UNCHANGED <<serving, authVars, port, started>>
    BY <1>6 DEF BadPort, NoSuchFile
  <2> QED BY <1>1, <2>1 DEF authVars
<1>7. CASE StartTransfer
  <2>1. PICK cmd \in Transfers : ServeUser(cmd)
    BY <1>7 DEF StartTransfer
  <2>2. [cmd |-> Request.cmd, port |-> port] \in Transfer
    BY <2>1, TransferType DEF ServeUser, Serve
  <2>3. started' \in Seq(Transfer)
    BY <1>7, <2>2 DEF StartTransfer
  <2> QED BY <1>1, <1>7, <2>3 DEF StartTransfer, authVars
<1>8. CASE HandleCwd \/ CwdWithoutName
  BY <1>1, <1>8 DEF HandleCwd, CwdWithoutName, authVars, portVars
<1> QED BY <1>2, <1>3, <1>4, <1>5, <1>6, <1>7, <1>8 DEF ServerStep, Respond

LEMMA ServerKeeps == SessionInv /\ ServerStep => SessionInv'
<1> SUFFICES ASSUME SessionInv, ServerStep PROVE SessionInv'
  OBVIOUS
<1>1. UNCHANGED clientVars
  BY DEF ServerStep
<1>2. MessageTypes' /\ ClientTypes' /\ LockStep'
  BY <1>1, LoginKeeps, PortKeeps, StartKeeps, AnswerKeeps, SilenceKeeps DEF ServerStep, Respond
<1> QED BY <1>2, ServerTypesKept DEF SessionInv

\* The ends of processes on the server's side.
LEMMA EndingKeeps ==
  ASSUME SessionInv, ServerAlone \/ ServerStops \/ OthersEnd
  PROVE  SessionInv'
<1>1. /\ UNCHANGED <<toServer, toClient, clientVars, started>>
      /\ UNCHANGED <<authVars, portVars>>
      /\ serving' \in BOOLEAN /\ held' \in BOOLEAN
  BY DEF ServerAlone, ServerCloses, ServerStops, OthersEnd, SessionInv, ServerTypes,
     wires, serverVars
<1>2. MessageTypes'
  BY <1>1 DEF MessageTypes, SessionInv, Request, Code
<1>3. ServerTypes' /\ ClientTypes'
  BY <1>1 DEF ServerTypes, ClientTypes, SessionInv, clientVars, authVars, portVars
<1>4. LockStep'
  BY <1>1 DEF LockStep, AtMostOneMessage, RequestInv, ReplyInv, SessionInv, Request,
     Code, new_port, Asked, clientVars, portVars
<1> QED BY <1>2, <1>3, <1>4 DEF SessionInv

------------------------------------------------------------------------------
(* The client                                                              *)

\* At the prompt the connection is empty and both sides agree.
LEMMA PromptIsQuiet ==
  ASSUME SessionInv, cpc = "prompt"
  PROVE  toServer = << >> /\ toClient = << >> /\ started = listening
BY DEF SessionInv, LockStep

\* A command with one request.
LEMMA AskKeeps ==
  ASSUME SessionInv, UNCHANGED <<serverVars, held>>,
         NEW cmd \in {"USER", "PASS", "CWD", "PWD", "QUIT"}, NEW arg, Ask(cmd, arg)
  PROVE  SessionInv'
<1>1. toServer = << >> /\ toClient = << >> /\ started = listening /\ cpc = "prompt"
  BY PromptIsQuiet DEF Ask
<1> DEFINE m == [cmd |-> cmd, arg |-> arg]
<1>2. toServer' = <<m>> /\ Request' = m /\ Len(toServer') = 1 /\ toServer' # << >>
  BY <1>1, OneMessage DEF Ask, Send, Request
<1>3. /\ toClient' = << >> /\ cpc' \in {"answer", "quit"}
      /\ UNCHANGED <<input, control_port, port_counter, listening>>
  BY <1>1 DEF Ask
<1>4. m.cmd = cmd /\ m = [cmd |-> m.cmd, arg |-> m.arg]
  OBVIOUS
<1> HIDE DEF m
<1>5. MessageTypes'
  BY <1>2, <1>3, <1>4 DEF MessageTypes
<1>6. ServerTypes' /\ ClientTypes'
  BY <1>3 DEF ServerTypes, ClientTypes, SessionInv, serverVars, authVars, portVars
<1>7. started' = listening'
  BY <1>1, <1>3 DEF serverVars
<1>8. AtMostOneMessage' /\ ReplyInv'
  BY <1>2, <1>3 DEF AtMostOneMessage, ReplyInv
<1>9. RequestInv'
  BY <1>2, <1>3, <1>4, <1>7 DEF RequestInv, Transfers
<1>10. LockStep'
  BY <1>3, <1>7, <1>8, <1>9 DEF LockStep
<1> QED BY <1>5, <1>6, <1>10 DEF SessionInv

\* The port of the next transfer.
LEMMA TypeTransferKeeps ==
  ASSUME SessionInv, UNCHANGED <<serverVars, held>>, TypeTransfer
  PROVE  SessionInv'
<1>1. toServer = << >> /\ toClient = << >> /\ started = listening
  BY PromptIsQuiet DEF TypeTransfer
<1> DEFINE m == [cmd |-> "PORT", arg |-> <<HighByte(new_port), LowByte(new_port)>>]
<1>2. toServer' = <<m>> /\ Request' = m /\ Len(toServer') = 1 /\ toServer' # << >>
  BY <1>1, OneMessage DEF TypeTransfer, Send, Request
<1>3. /\ toClient' = << >> /\ cpc' = "port" /\ input' \in Transfers
      /\ UNCHANGED <<control_port, port_counter, listening>>
      /\ port_counter < FirstTransfer + MaxTransfers
  BY <1>1 DEF TypeTransfer
<1>4. /\ m.cmd = "PORT" /\ m = [cmd |-> m.cmd, arg |-> m.arg]
      /\ m.arg = <<HighByte(new_port), LowByte(new_port)>>
  OBVIOUS
<1> HIDE DEF m
<1>5. MessageTypes'
  BY <1>2, <1>3, <1>4 DEF MessageTypes
<1>6. ServerTypes' /\ ClientTypes'
  BY <1>3 DEF ServerTypes, ClientTypes, SessionInv, serverVars, authVars, portVars
<1>7. started' = listening' /\ new_port' = new_port
  BY <1>1, <1>3 DEF serverVars, new_port
<1>8. AtMostOneMessage' /\ ReplyInv'
  BY <1>2, <1>3 DEF AtMostOneMessage, ReplyInv
<1>9. RequestInv'
  BY <1>2, <1>3, <1>4, <1>7 DEF RequestInv, Transfers
<1>10. LockStep'
  BY <1>3, <1>7, <1>8, <1>9 DEF LockStep
<1> QED BY <1>5, <1>6, <1>10 DEF SessionInv

\* The client dies: whatever is on the connection stays as it is.
LEMMA DyingKeeps ==
  ASSUME SessionInv, UNCHANGED <<serverVars, held>>, ClientDies
  PROVE  SessionInv'
<1>1. /\ cpc' = "closed"
      /\ UNCHANGED <<toServer, toClient, input, control_port, port_counter, listening>>
  BY DEF ClientDies, wires
<1>2. MessageTypes'
  BY <1>1 DEF MessageTypes, SessionInv, Request, Code
<1>3. ServerTypes' /\ ClientTypes'
  BY <1>1 DEF ServerTypes, ClientTypes, SessionInv, serverVars, authVars, portVars
<1>4. LockStep'
  BY <1>1 DEF LockStep, AtMostOneMessage, RequestInv, ReplyInv, SessionInv, Request,
     Code, new_port, serverVars, portVars
<1> QED BY <1>2, <1>3, <1>4 DEF SessionInv

\* While a reply is on its way there is no request.
LEMMA ReplyAlone ==
  ASSUME SessionInv, toClient # << >>
  PROVE  toServer = << >>
<1>1. Len(toClient) = 1
  BY OneMessage DEF SessionInv, MessageTypes
<1>2. toServer # << >> => Len(toServer) = 1
  BY OneMessage DEF SessionInv, MessageTypes
<1> QED BY <1>1, <1>2 DEF SessionInv, LockStep, AtMostOneMessage

\* The connection is empty and the client is at its prompt, or has ended.
LEMMA QuietKeeps ==
  ASSUME SessionInv, UNCHANGED <<serverVars, held>>,
         toServer' = << >>, toClient' = << >>, cpc' \in {"prompt", "closed"},
         cpc' = "prompt" => started' = listening',
         port_counter' \in FirstTransfer .. FirstTransfer + MaxTransfers,
         listening' \in Seq(Transfer), UNCHANGED <<input, control_port>>
  PROVE  SessionInv'
<1>1. MessageTypes'
  BY DEF MessageTypes
<1>2. ServerTypes' /\ ClientTypes'
  BY DEF ServerTypes, ClientTypes, SessionInv, serverVars, authVars, portVars
<1>3. AtMostOneMessage' /\ RequestInv' /\ ReplyInv'
  BY DEF AtMostOneMessage, RequestInv, ReplyInv
<1>4. LockStep'
  BY <1>3 DEF LockStep
<1> QED BY <1>1, <1>2, <1>4 DEF SessionInv

\* The counter stays in its bounds when a transfer is over.
LEMMA CounterType ==
  ASSUME SessionInv
  PROVE  /\ port_counter \in FirstTransfer .. FirstTransfer + MaxTransfers
         /\ cpc \in {"port", "transfer"} =>
              port_counter + 1 \in FirstTransfer .. FirstTransfer + MaxTransfers
BY ControlAssumption DEF SessionInv, ClientTypes, LockStep, FirstTransfer

\* 200: the command follows, and the server knows the port.
LEMMA ReadPortKeeps ==
  ASSUME SessionInv, UNCHANGED <<serverVars, held>>, ReadPort
  PROVE  SessionInv'
<1>1. toServer = << >> /\ toClient # << >> /\ toClient' = << >> /\ cpc = "port"
  BY ReplyAlone DEF ReadPort, Receive
<1>2. started = listening /\ started' = listening'
  BY <1>1 DEF SessionInv, LockStep, serverVars, ReadPort
<1>3. CASE Code # 200
  <2>1. /\ toServer' = << >> /\ cpc' = "prompt" /\ port_counter' = port_counter + 1
        /\ UNCHANGED <<input, control_port, listening>>
    BY <1>1, <1>3 DEF ReadPort
  <2>2. /\ port_counter' \in FirstTransfer .. FirstTransfer + MaxTransfers
        /\ listening' \in Seq(Transfer)
    BY <1>1, <2>1, CounterType DEF SessionInv, ClientTypes
  <2> QED BY <1>1, <1>2, <2>1, <2>2, QuietKeeps
<1>4. CASE Code = 200
  <2> DEFINE m == [cmd |-> input, arg |-> << >>]
  <2>1. toServer' = <<m>> /\ Request' = m /\ Len(toServer') = 1 /\ toServer' # << >>
    BY <1>1, <1>4, OneMessage DEF ReadPort, Send, Request
  <2>2. cpc' = "transfer" /\ UNCHANGED <<input, control_port, port_counter, listening>>
    BY <1>4 DEF ReadPort
  <2>3. m.cmd = input /\ m = [cmd |-> m.cmd, arg |-> m.arg]
    OBVIOUS
  <2> HIDE DEF m
  <2>4. MessageTypes'
    BY <1>1, <2>1, <2>3 DEF MessageTypes
  <2>5. ServerTypes' /\ ClientTypes'
    BY <2>2 DEF ServerTypes, ClientTypes, SessionInv, serverVars, authVars, portVars
  <2>6. port_f /\ port = new_port
    BY <1>1, <1>4 DEF SessionInv, LockStep, ReplyInv
  <2>7. port_f' /\ port' = new_port'
    BY <2>2, <2>6 DEF serverVars, portVars, new_port
  <2>8. input' = input /\ input \in Transfers /\ input # "PORT"
    BY <2>2 DEF SessionInv, ClientTypes, Transfers
  <2>9. AtMostOneMessage' /\ ReplyInv'
    BY <1>1, <2>1 DEF AtMostOneMessage, ReplyInv
  <2>10. RequestInv'
    BY <1>2, <2>1, <2>2, <2>3, <2>7, <2>8 DEF RequestInv
  <2>11. port_counter' < FirstTransfer + MaxTransfers
    BY <1>1, <2>2 DEF SessionInv, LockStep
  <2>12. LockStep'
    BY <1>1, <1>2, <2>2, <2>9, <2>10, <2>11 DEF LockStep
  <2> QED BY <2>4, <2>5, <2>12 DEF SessionInv
<1> QED BY <1>3, <1>4

\* 150: the child listens for the transfer that the server has started.
LEMMA ReadTransferKeeps ==
  ASSUME SessionInv, UNCHANGED <<serverVars, held>>, ReadTransfer
  PROVE  SessionInv' /\ listening' = started
<1>1. toServer = << >> /\ toClient # << >> /\ toClient' = << >> /\ cpc = "transfer"
  BY ReplyAlone DEF ReadTransfer, Receive
<1>2. started = IF Code = 150 THEN Append(listening, Asked) ELSE listening
  BY <1>1 DEF SessionInv, LockStep, ReplyInv
<1>3. listening' = started
  BY <1>2 DEF ReadTransfer, Asked
<1>4. /\ port_counter' \in FirstTransfer .. FirstTransfer + MaxTransfers
      /\ listening' \in Seq(Transfer)
  BY <1>1, <1>3, CounterType DEF SessionInv, ServerTypes, ReadTransfer
<1>5. /\ cpc' = "prompt" /\ UNCHANGED <<input, control_port, toServer>>
      /\ started' = listening'
  BY <1>3 DEF ReadTransfer, serverVars
<1> QED BY <1>1, <1>3, <1>4, <1>5, QuietKeeps

\* Any other reply, or none, brings the client back to its prompt or ends it.
LEMMA ReadKeeps ==
  ASSUME SessionInv, UNCHANGED <<serverVars, held>>, ReadAnswer \/ ReadQuit \/ ReadNothing
  PROVE  SessionInv'
<1>1. cpc \in {"greeting", "answer", "quit"} => started = listening
  BY DEF SessionInv, LockStep
<1>2. CASE ReadAnswer \/ ReadQuit
  <2>1. toServer' = << >> /\ toClient' = << >> /\ cpc' \in {"prompt", "closed"}
    BY <1>2, ReplyAlone DEF ReadAnswer, ReadQuit, Receive
  <2>2. /\ UNCHANGED <<input, control_port, port_counter, listening>>
        /\ cpc \in {"greeting", "answer", "quit"}
    BY <1>2 DEF ReadAnswer, ReadQuit
  <2>3. started' = listening' /\ listening' \in Seq(Transfer)
    BY <1>1, <2>2 DEF serverVars, SessionInv, ClientTypes
  <2> QED BY <2>1, <2>2, <2>3, CounterType, QuietKeeps
<1>3. CASE ReadNothing
  <2>1. /\ toServer' = << >> /\ toClient' = << >> /\ cpc' \in {"prompt", "closed"}
        /\ toClient = << >> /\ cpc \notin {"prompt", "closed"}
        /\ UNCHANGED <<input, control_port, listening>>
    BY <1>3 DEF ReadNothing
  <2>2. started = listening
    BY <2>1 DEF SessionInv, LockStep
  <2>3. started' = listening' /\ listening' \in Seq(Transfer)
    BY <2>1, <2>2 DEF serverVars, SessionInv, ClientTypes
  <2>4. port_counter' \in FirstTransfer .. FirstTransfer + MaxTransfers
    BY <1>3, CounterType DEF ReadNothing
  <2> QED BY <2>1, <2>3, <2>4, QuietKeeps
<1> QED BY <1>2, <1>3

------------------------------------------------------------------------------
(* Theorems                                                                *)

LEMMA InitialInv == Init => SessionInv
<1> SUFFICES ASSUME Init PROVE SessionInv
  OBVIOUS
<1> USE DEF Init, WiresInit, ServerInit, ClientInit
<1>1. Code = 220 /\ toClient = <<220>> /\ 220 \in Codes /\ toServer = << >>
  BY OneMessage DEF Code, Codes
<1>2. MessageTypes
  BY <1>1 DEF MessageTypes
<1>3. 0 \in 0 .. PortSpace - 1
  BY ShortRange
<1>4. ServerTypes
  <2>1. << >> \in Seq(Transfer)
    OBVIOUS
  <2>2. port \in 0 .. PortSpace - 1 /\ started \in Seq(Transfer)
    BY <1>3, <2>1
  <2>3. serving \in BOOLEAN /\ held \in BOOLEAN
    OBVIOUS
  <2>4. auth1 \in BOOLEAN /\ auth2 \in BOOLEAN /\ port_f \in BOOLEAN
    OBVIOUS
  <2>5. username \in Users \cup {NoName}
    OBVIOUS
  <2> QED BY <2>2, <2>3, <2>4, <2>5 DEF ServerTypes
<1>5. port_counter \in FirstTransfer .. FirstTransfer + MaxTransfers
  BY ControlAssumption DEF FirstTransfer
<1>6. ClientTypes
  BY <1>5 DEF ClientTypes, Transfers
<1>7. Len(toServer) = 0 /\ Len(toClient) = 1
  BY <1>1, OneMessage
<1>8. LockStep
  BY <1>1, <1>7 DEF LockStep, AtMostOneMessage, RequestInv, ReplyInv
<1> QED BY <1>2, <1>4, <1>6, <1>8 DEF SessionInv

\* A step that changes nothing.
LEMMA StutterKeeps ==
  ASSUME SessionInv, UNCHANGED vars
  PROVE  SessionInv'
<1> USE DEF vars, wires, serverVars, authVars, portVars, clientVars
<1>1. MessageTypes'
  BY DEF SessionInv, MessageTypes, Request, Code
<1>2. ServerTypes' /\ ClientTypes'
  BY DEF SessionInv, ServerTypes, ClientTypes
<1>3. LockStep'
  BY DEF SessionInv, LockStep, AtMostOneMessage, RequestInv, ReplyInv, Request, Code,
     new_port, Asked
<1> QED BY <1>1, <1>2, <1>3 DEF SessionInv

\* Every step of the client.
LEMMA ClientKeeps ==
  ASSUME SessionInv, ClientStep \/ ClientAlone
  PROVE  SessionInv'
<1>1. UNCHANGED <<serverVars, held>>
  BY DEF ClientStep, ClientAlone
<1>2. CASE TypeCommand
  <2>1. CASE TypeTransfer
    BY <1>1, <2>1, TypeTransferKeeps
  <2>2. CASE TypeUser \/ TypePass \/ TypeCwd \/ TypePwd \/ TypeQuit
    <3>1. PICK cmd \in {"USER", "PASS", "CWD", "PWD", "QUIT"} : \E arg : Ask(cmd, arg)
      BY <2>2 DEF TypeUser, TypePass, TypeCwd, TypePwd, TypeQuit
    <3>2. PICK arg : Ask(cmd, arg)
      BY <3>1
    <3> QED BY <1>1, <3>2, AskKeeps
  <2> QED BY <1>2, <2>1, <2>2 DEF TypeCommand
<1>3. CASE Read
  BY <1>1, <1>3, ReadKeeps, ReadPortKeeps, ReadTransferKeeps DEF Read
<1>4. CASE ClientDies
  BY <1>1, <1>4, DyingKeeps
<1>5. CASE ReadNothing
  BY <1>1, <1>5, ReadKeeps
<1> QED BY <1>2, <1>3, <1>4, <1>5 DEF ClientStep, ClientAlone

LEMMA NextKeeps == SessionInv /\ [Next]_vars => SessionInv'
<1> SUFFICES ASSUME SessionInv, [Next]_vars PROVE SessionInv'
  OBVIOUS
<1>1. CASE ClientStep \/ ClientAlone
  BY <1>1, ClientKeeps
<1>2. CASE ServerStep
  BY <1>2, ServerKeeps
<1>3. CASE ServerAlone \/ ServerStops \/ OthersEnd
  BY <1>3, EndingKeeps
<1>4. CASE Stopped \/ UNCHANGED vars
  BY <1>4, StutterKeeps DEF Stopped
<1> QED BY <1>1, <1>2, <1>3, <1>4 DEF Next

\* SessionInv holds of every session.
THEOREM Invariance == Spec => []SessionInv
BY InitialInv, NextKeeps, PTL DEF Spec

\* Every variable of the two processes has the type of its C object.
THEOREM TypeCorrect == Spec => []TypeOK
BY Invariance, TypesImply, PTL

\* Where the client is in its loop, the message on the control connection and
\* the transfers that were started on either side always fit together.
THEOREM LockStepCorrect == Spec => []LockStep
<1>1. SessionInv => LockStep
  BY DEF SessionInv
<1> QED BY <1>1, Invariance, PTL

\* No recv of either side ever finds two messages in its buffer.
THEOREM OneMessageCorrect == Spec => []AtMostOneMessage
<1>1. LockStep => AtMostOneMessage
  BY DEF LockStep
<1> QED BY <1>1, LockStepCorrect, PTL

\* Between two commands every transfer of the server has its client, and every
\* listening client its server.
THEOREM PairedCorrect == Spec => []TransfersPaired
<1>1. LockStep => TransfersPaired
  BY DEF LockStep, TransfersPaired
<1> QED BY <1>1, LockStepCorrect, PTL

\* A transfer command reaches the server with the port that was sent for it.
THEOREM SentPortCorrect == Spec => []TransferUsesSentPort
<1>1. LockStep => TransferUsesSentPort
  BY DEF LockStep, RequestInv, TransferUsesSentPort
<1> QED BY <1>1, LockStepCorrect, PTL

------------------------------------------------------------------------------
(* The refinement.                                                         *)

\* What Append does to a sequence of transfers.
LEMMA Appended ==
  ASSUME NEW s \in Seq(Transfer), NEW t \in Transfer
  PROVE  /\ Len(Append(s, t)) = Len(s) + 1
         /\ SubSeq(Append(s, t), 1, Len(s)) = s
         /\ Append(s, t) # s
<1>1. Len(Append(s, t)) = Len(s) + 1 /\ Append(s, t) # s
  OBVIOUS
<1>2. SubSeq(Append(s, t), 1, Len(s)) = s
  <2> DEFINE a == Append(s, t)
             b == SubSeq(a, 1, Len(s))
  <2>1. a \in Seq(Transfer) /\ Len(a) = Len(s) + 1 /\ Len(s) \in Nat
    OBVIOUS
  <2>2. \A i \in 1 .. Len(s) : a[i] = s[i]
    OBVIOUS
  <2> HIDE DEF a
  <2>3. b \in Seq(Transfer) /\ Len(b) = Len(s) /\ \A i \in 1 .. Len(s) : b[i] = a[i]
    BY <2>1
  <2> HIDE DEF b
  <2>4. b = s
    BY <2>2, <2>3
  <2> QED BY <2>4 DEF a, b
<1> QED BY <1>1, <1>2

\* A 150 is an Offer, the child that listens for it a Follow; no other step of
\* either program starts a transfer.
LEMMA StepImplements ==
  SessionInv /\ [Next]_vars => [Agreement!AgreementNext]_(Agreement!agreementVars)
<1> SUFFICES ASSUME SessionInv, [Next]_vars, ~UNCHANGED <<started, listening>>
             PROVE  Agreement!AgreementNext
  BY DEF Agreement!agreementVars
<1>1. CASE ServerStep
  <2>1. UNCHANGED clientVars /\ UNCHANGED listening
    BY <1>1 DEF ServerStep, clientVars
  <2>2. StartTransfer
    BY <1>1, <2>1 DEF ServerStep, Respond, HandleUser, PassWithoutUser, PassAgain,
       PassRight, PassRefused, NotLoggedIn, BadCommand, HandlePort, BadPort, NoSuchFile,
       NoPort, CwdNotFound, HandleCwd, CwdWithoutName, HandlePwd, HandleQuit, serverVars
  <2>3. started = listening /\ started' = Append(listening, Asked)
    BY <2>1, <2>2, StartKeeps
  <2>4. Asked \in Transfer
    BY NewPortIsPort, TransferType DEF SessionInv, ClientTypes, Asked
  <2>5. started \in Seq(Transfer)
    BY DEF SessionInv, ServerTypes
  <2>6. Agreement!Offer
    BY <2>1, <2>3, <2>4, <2>5, Appended DEF Agreement!Offer
  <2> QED BY <2>6 DEF Agreement!AgreementNext
<1>2. CASE ReadTransfer /\ UNCHANGED <<serverVars, held>>
  <2>1. listening' = started /\ started' = started
    BY <1>2, ReadTransferKeeps DEF serverVars
  <2>2. started # listening
    BY <2>1
  <2> QED BY <2>1, <2>2 DEF Agreement!AgreementNext, Agreement!Follow
<1>3. CASE ~ServerStep /\ ~(ReadTransfer /\ UNCHANGED <<serverVars, held>>)
  <2>1. \/ ClientStep /\ ~ReadTransfer
        \/ ClientAlone \/ ServerAlone \/ ServerStops \/ OthersEnd
        \/ UNCHANGED vars
    BY <1>3 DEF Next, Stopped, ClientStep
  <2>2. CASE ClientStep /\ ~ReadTransfer
    BY <2>2 DEF ClientStep, TypeCommand, TypeUser, TypePass, TypePwd, TypeCwd, TypeQuit,
       Ask, TypeTransfer, Read, ReadAnswer, ReadQuit, ReadPort, ClientDies, serverVars
  <2>3. CASE ~(ClientStep /\ ~ReadTransfer)
    BY <2>1, <2>3 DEF ClientAlone, ReadNothing, ServerAlone, ServerCloses, ServerStops,
       OthersEnd, vars, serverVars, clientVars
  <2> QED BY <2>2, <2>3
<1> QED BY <1>1, <1>2, <1>3

\* server.c and client.c start the same transfers in the same order, whatever is
\* typed, refused or interrupted.
THEOREM ImplementsAgreement == Spec => SameTransfers
<1>1. Init => Agreement!AgreementInit
  BY DEF Init, ServerInit, ClientInit, Agreement!AgreementInit
<1> QED BY <1>1, StepImplements, Invariance, PTL DEF Spec, SameTransfers, Agreement!AgreementSpec

==============================================================================
