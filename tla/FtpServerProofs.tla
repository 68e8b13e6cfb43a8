--------------------------- MODULE FtpServerProofs ---------------------------
(***************************************************************************)
(* Proofs about the process that serves one control connection, whatever   *)
(* requests it is sent and in whatever order.                              *)
(***************************************************************************)
EXTENDS MCFtpServer, ArithmeticLemmas, SequenceTheorems, TLAPS

------------------------------------------------------------------------------
(* The login, and the request.                                             *)

\* The flags of the login belong to a user of users.csv, and a request is one of
\* the client's, that waits for its reply alone.
LoginInv ==
  /\ auth2 => auth1
  /\ auth1 => username \in Users

WireInv == toServer = << >> \/ (toClient = << >> /\ \E r \in Requests : toServer = <<r>>)

\* Each answer to USER and PASS leaves flags and user that fit.
LEMMA LoginKept ==
  ASSUME LoginInv, Respond
  PROVE  LoginInv'
<1> USE DEF LoginInv
<1>1. CASE HandleUser
  <2>1. PICK found \in AuthUser(Request.arg) :
          /\ auth1' = (found = 1)
          /\ username' = IF found = 1 THEN Request.arg ELSE NoName
    BY <1>1 DEF HandleUser
  <2>2. ~auth2'
    BY <1>1 DEF HandleUser
  <2>3. CASE found = 1
    <3>1. Request.arg \in Users
      BY <2>3 DEF AuthUser
    <3>2. username' \in Users
      BY <2>1, <2>3, <3>1
    <3> QED BY <2>2, <3>2
  <2>4. CASE found # 1
    <3>1. ~auth1'
      BY <2>1, <2>4
    <3> QED BY <2>2, <3>1
  <2> QED BY <2>3, <2>4
<1>2. CASE PassWithoutUser
  BY <1>2 DEF PassWithoutUser
<1>3. CASE PassAgain
  BY <1>3 DEF PassAgain
<1>4. CASE PassRight
  BY <1>4 DEF PassRight
<1>5. CASE PassRefused
  BY <1>5 DEF PassRefused
<1>6. CASE UNCHANGED authVars
  BY <1>6 DEF authVars
<1> QED
  BY <1>1, <1>2, <1>3, <1>4, <1>5, <1>6 DEF Respond, NotLoggedIn, BadCommand, HandlePort,
     BadPort, StartTransfer, NoSuchFile, NoPort, CwdNotFound, HandleCwd, CwdWithoutName,
     HandlePwd, HandleQuit, serverVars

\* Every answer takes the request away, and sends one code to a client that waits.
LEMMA WireKept ==
  ASSUME WireInv, [ServiceNext]_serviceVars
  PROVE  WireInv'
<1>1. CASE Answer
  <2>1. toServer' = << >>
    BY <1>1 DEF Answer, Respond, Reply, HandleUser, PassWithoutUser, PassAgain, PassRight,
       PassRefused, NotLoggedIn, BadCommand, HandlePort, BadPort, StartTransfer, NoSuchFile,
       NoPort, CwdNotFound, HandleCwd, CwdWithoutName, HandlePwd, HandleQuit
  <2> QED BY <2>1 DEF WireInv
<1>2. ASSUME NEW r \in Requests, SendRequest(r) PROVE WireInv'
  BY <1>2 DEF SendRequest, WireInv
<1>3. CASE Leave
  BY <1>3 DEF Leave, WireInv
<1>4. CASE ServerCloses \/ UNCHANGED serviceVars
  BY <1>4 DEF ServerCloses, serviceVars, wires, WireInv
<1> QED BY <1>1, <1>2, <1>3, <1>4 DEF ServiceNext

LEMMA OneReply ==
  ASSUME WireInv, NEW code, toServer # << >>, Reply(code)
  PROVE  toClient' = <<code>>
<1>1. toClient = << >> /\ toClient' = Append(toClient, code)
  BY DEF WireInv, Reply
<1>2. Append(<< >>, code) = <<code>>
  OBVIOUS
<1> QED BY <1>1, <1>2

\* The steps that are no answer leave the session and its history alone.
LEMMA NoAnswer ==
  ASSUME [ServiceNext]_serviceVars, ~Answer
  PROVE  UNCHANGED <<authVars, path, portVars, started, historyVars>>
BY DEF ServiceNext, SendRequest, Leave, ServerCloses, serviceVars, serverVars

THEOREM LoginInvariance == ServiceSpec => [](LoginInv /\ WireInv)
<1>1. ServiceInit => LoginInv /\ WireInv
  BY DEF ServiceInit, WiresInit, ServerInit, LoginInv, WireInv
<1>2. LoginInv /\ [ServiceNext]_serviceVars => LoginInv'
  <2> SUFFICES ASSUME LoginInv, [ServiceNext]_serviceVars PROVE LoginInv'
    OBVIOUS
  <2>1. CASE Answer
    BY <2>1, LoginKept DEF Answer
  <2>2. CASE ~Answer
    BY <2>2, NoAnswer DEF LoginInv, authVars
  <2> QED BY <2>1, <2>2
<1>3. WireInv /\ [ServiceNext]_serviceVars => WireInv'
  BY WireKept
<1> QED BY <1>1, <1>2, <1>3, PTL DEF ServiceSpec

\* A session that is logged in has the name of a user of users.csv: no order of
\* USER and PASS, refused ones included, leaves a flag of another login behind.
THEOREM LoginCorrect == ServiceSpec => []LoginConsistent
<1>1. LoginInv => LoginConsistent
  BY DEF LoginInv, LoginConsistent
<1> QED BY <1>1, LoginInvariance, PTL

------------------------------------------------------------------------------
(* The data port.                                                          *)

\* A port that may be used is that of the last PORT, and no transfer or refusal
\* came after it.
GrantInv ==
  /\ \E S : granted \in Seq(S)
  /\ \E S : started \in Seq(S)
  /\ spent \subseteq 0 .. Len(granted)
  /\ port_f => granted # << >> /\ Len(granted) \notin spent /\ port = Last(granted)

\* What is appended to a sequence of anything makes it longer by one.
LEMMA Longer ==
  ASSUME NEW s, \E S : s \in Seq(S), NEW e
  PROVE  /\ \E S : Append(s, e) \in Seq(S)
         /\ Len(s) \in Nat /\ Len(Append(s, e)) = Len(s) + 1
         /\ Append(s, e) # << >> /\ Append(s, e) # s
         /\ Last(Append(s, e)) = e
<1>1. PICK S : s \in Seq(S)
  OBVIOUS
<1> DEFINE T == S \cup {e}
<1>2. s \in Seq(T) /\ e \in T
  <2>1. Len(s) \in Nat /\ s \in [1 .. Len(s) -> S]
    BY <1>1
  <2>2. s \in [1 .. Len(s) -> T]
    BY <2>1
  <2> QED BY <2>1, <2>2
<1> HIDE DEF T
<1>3. /\ Append(s, e) \in Seq(T) /\ Len(s) \in Nat /\ Len(Append(s, e)) = Len(s) + 1
      /\ Append(s, e)[Len(s) + 1] = e
  BY <1>2, AppendProperties, LenProperties
<1>4. Append(s, e) # << >> /\ Append(s, e) # s
  BY <1>3, EmptySeq
<1>5. Last(Append(s, e)) = e
  BY <1>3 DEF Last
<1> QED BY <1>3, <1>4, <1>5

\* PORT grants a port, every transfer and every refusal spends it.
LEMMA GrantKept ==
  ASSUME GrantInv, WireInv, Answer
  PROVE  GrantInv'
<1> DEFINE n == Len(granted)
           p == PortOf(Request.arg[1], Request.arg[2])
<1>1. /\ \E S : granted \in Seq(S)
      /\ \E S : started \in Seq(S)
      /\ spent \subseteq 0 .. n
  BY DEF GrantInv
<1>2. n \in Nat /\ spent \cup {n} \subseteq 0 .. n
  <2>1. PICK S : granted \in Seq(S)
    BY <1>1
  <2>2. n \in Nat
    BY <2>1, LenProperties
  <2> HIDE DEF n
  <2> QED BY <1>1, <2>2
<1>3. /\ granted' = IF Answered("PORT", 200) THEN Append(granted, p) ELSE granted
      /\ spent' = IF started' # started \/ Answered("PORT", 501) \/ Answered("RETR", 550)
                  THEN spent \cup {n} ELSE spent
  BY DEF Answer, GrantHistory
<1>4. CASE HandlePort
  <2>1. Request.cmd = "PORT" /\ toClient' = <<200>>
    BY <1>4, OneReply DEF HandlePort, ServeUser, Serve
  <2>2. granted' = Append(granted, p) /\ spent' = spent
    BY <1>3, <1>4, <2>1 DEF HandlePort, Answered
  <2>3. port' = p /\ started' = started
    BY <1>4 DEF HandlePort
  <2> HIDE DEF p
  <2>4. /\ \E S : granted' \in Seq(S)
        /\ Len(granted') = n + 1 /\ granted' # << >> /\ Last(granted') = p
    BY <1>1, <2>2, Longer
  <2>5. spent' \subseteq 0 .. n + 1 /\ n + 1 \notin spent'
    BY <1>1, <1>2, <2>2
  <2> HIDE DEF n
  <2> QED BY <1>1, <2>3, <2>4, <2>5 DEF GrantInv
<1>5. CASE StartTransfer \/ NoSuchFile \/ BadPort
  <2>1. ~port_f' /\ granted' = granted
    <3>1. StartTransfer => toClient' = <<150>>
      BY OneReply DEF StartTransfer, ServeUser, Serve
    <3>2. NoSuchFile => toClient' = <<550>>
      BY OneReply DEF NoSuchFile, ServeUser, Serve
    <3>3. BadPort => toClient' = <<501>>
      BY OneReply DEF BadPort, ServeUser, Serve
    <3>4. toClient' # <<200>>
      BY <1>5, <3>1, <3>2, <3>3
    <3> QED BY <1>3, <1>5, <3>4 DEF StartTransfer, NoSuchFile, BadPort, Answered
  <2>2. \E S : started' \in Seq(S)
    <3>1. started' = started \/ started' = Append(started, [cmd |-> Request.cmd, port |-> port])
      BY <1>5 DEF StartTransfer, NoSuchFile, BadPort
    <3> DEFINE e == [cmd |-> Request.cmd, port |-> port]
    <3>2. \E S : Append(started, e) \in Seq(S)
      <4> HIDE DEF e
      <4> QED BY <1>1, Longer
    <3> QED BY <1>1, <3>1, <3>2
  <2>3. spent' \subseteq 0 .. n
    BY <1>1, <1>2, <1>3
  <2> QED BY <1>1, <2>1, <2>2, <2>3 DEF GrantInv
<1> DEFINE refused == toClient' = <<530>> \/ toClient' = <<425>>
<1>6. ASSUME UNCHANGED <<portVars, started>>,
             Request.cmd \in {"PORT", "RETR"} => refused
      PROVE  GrantInv'
  <2>1. granted' = granted /\ spent' = spent
    BY <1>3, <1>6 DEF Answered
  <2> QED BY <1>6, <2>1 DEF GrantInv, portVars
<1>7. CASE NotLoggedIn \/ NoPort
  <2>1. refused
    <3>1. toServer # << >>
      BY <1>7 DEF NotLoggedIn, NoPort, ServeUser, Serve
    <3>2. Reply(530) \/ Reply(425)
      BY <1>7 DEF NotLoggedIn, NoPort
    <3> QED BY <3>1, <3>2, OneReply
  <2> QED BY <1>6, <1>7, <2>1 DEF NotLoggedIn, NoPort, serverVars
<1>8. CASE HandleUser \/ PassWithoutUser \/ PassAgain \/ PassRight \/ PassRefused
           \/ BadCommand \/ CwdNotFound \/ HandleCwd \/ CwdWithoutName \/ HandlePwd \/ HandleQuit
  <2>1. Request.cmd \notin {"PORT", "RETR"}
    BY <1>8 DEF HandleUser, PassWithoutUser, PassAgain, PassRight, PassRefused, BadCommand,
       CwdNotFound, HandleCwd, CwdWithoutName, HandlePwd, HandleQuit, ServeUser, Serve
  <2>2. UNCHANGED <<portVars, started>>
    BY <1>8 DEF HandleUser, PassWithoutUser, PassAgain, PassRight, PassRefused, BadCommand,
       CwdNotFound, HandleCwd, CwdWithoutName, HandlePwd, HandleQuit, serverVars
  <2> QED BY <1>6, <2>1, <2>2
<1> QED BY <1>4, <1>5, <1>7, <1>8 DEF Answer, Respond

\* However the requests are ordered, and whatever is refused between them, a
\* transfer starts under the last PORT and no other transfer or refusal came first.
THEOREM OneTransferPerPortCorrect == ServiceSpec => OneTransferPerPort
<1>1. ServiceInit => GrantInv
  <2> SUFFICES ASSUME ServiceInit PROVE GrantInv
    OBVIOUS
  <2>1. started = << >> /\ ~port_f /\ granted = << >> /\ spent = {}
    BY DEF ServiceInit, ServerInit
  <2>2. << >> \in Seq({})
    OBVIOUS
  <2> QED BY <2>1, <2>2 DEF GrantInv
<1>2. GrantInv /\ WireInv /\ [ServiceNext]_serviceVars => GrantInv'
  <2> SUFFICES ASSUME GrantInv, WireInv, [ServiceNext]_serviceVars PROVE GrantInv'
    OBVIOUS
  <2>1. CASE Answer
    BY <2>1, GrantKept
  <2>2. CASE ~Answer
    <3>1. UNCHANGED <<started, port_f, port, granted, spent>>
      BY <2>2, NoAnswer DEF portVars, historyVars
    <3> QED BY <3>1 DEF GrantInv
  <2> QED BY <2>1, <2>2
<1>3. ASSUME GrantInv, [ServiceNext]_serviceVars, started' # started
      PROVE  /\ granted # << >> /\ Len(granted) \notin spent
             /\ Last(started').port = Last(granted)
  <2>1. StartTransfer
    BY <1>3, NoAnswer DEF Answer, Respond, HandleUser, PassWithoutUser, PassAgain, PassRight,
       PassRefused, NotLoggedIn, BadCommand, HandlePort, BadPort, NoSuchFile, NoPort,
       CwdNotFound, HandleCwd, CwdWithoutName, HandlePwd, HandleQuit, serverVars
  <2>2. port_f /\ started' = Append(started, [cmd |-> Request.cmd, port |-> port])
    BY <2>1 DEF StartTransfer
  <2>3. Last(started') = [cmd |-> Request.cmd, port |-> port]
    BY <1>3, <2>2, Longer DEF GrantInv
  <2> QED BY <1>3, <2>2, <2>3 DEF GrantInv
<1> QED BY <1>1, <1>2, <1>3, LoginInvariance, PTL DEF ServiceSpec, OneTransferPerPort

------------------------------------------------------------------------------
(* The path of a session.                                                  *)

Paths == Seq(STRING)

LEMMA FrontOf ==
  ASSUME NEW q \in Paths, q # << >>
  PROVE  /\ Front(q) \in Paths /\ Len(Front(q)) = Len(q) - 1 /\ Len(q) \in Nat \ {0}
         /\ \A i \in 1 .. Len(q) - 1 : Front(q)[i] = q[i]
<1>1. Len(q) \in Nat \ {0} /\ \A i \in 1 .. Len(q) : q[i] \in STRING
  BY EmptySeq, ElementOfSeq DEF Paths
<1> DEFINE n == Len(q) - 1
<1>2. /\ Len(q) \in Int /\ n \in Int /\ 1 \in Int /\ n - 1 + 1 = n
      /\ \A i \in 1 .. n : i \in 1 .. Len(q) /\ 1 + i - 1 = i
  BY <1>1
<1> HIDE DEF n
<1>3. \A i \in 1 .. n : q[i] \in STRING
  BY <1>1, <1>2
<1>4. /\ SubSeq(q, 1, n) \in Seq(STRING)
      /\ Len(SubSeq(q, 1, n)) = IF 1 <= n THEN n - 1 + 1 ELSE 0
      /\ \A i \in 1 .. n - 1 + 1 : SubSeq(q, 1, n)[i] = q[1 + i - 1]
  BY <1>2, <1>3, SubSeqProperties
<1>5. ~(1 <= n) => n = 0
  BY <1>1 DEF n
<1>6. Front(q) = SubSeq(q, 1, n)
  BY DEF Front, n
<1>7. Len(SubSeq(q, 1, n)) = n /\ \A i \in 1 .. n : SubSeq(q, 1, n)[i] = q[i]
  BY <1>2, <1>4, <1>5
<1> QED BY <1>1, <1>4, <1>6, <1>7 DEF n, Paths

LEMMA SteppedType ==
  ASSUME NEW at \in Paths, NEW name \in STRING
  PROVE  Stepped(at, name) \in Paths
BY FrontOf, AppendProperties DEF Stepped, Paths

\* Where the names of a path lead from the server's directory.
LEMMA ResolveSteps ==
  ASSUME NEW q \in Paths
  PROVE  \E r \in [0 .. Len(q) -> Paths] :
           /\ r[0] = Home
           /\ \A i \in 1 .. Len(q) : r[i] = Stepped(r[i - 1], q[i])
           /\ Resolve(Home, q) = r[Len(q)]
<1> DEFINE n == Len(q)
           G == [x \in (1 .. n) \X Paths |-> Stepped(x[2], q[x[1]])]
           Solves(r) == r = [i \in 0 .. n |-> IF i = 0 THEN Home ELSE Stepped(r[i - 1], q[i])]
           R == CHOOSE r : Solves(r)
<1>1. n \in Nat /\ Home \in Paths /\ \A i \in 1 .. n : q[i] \in STRING
  BY LenProperties, ElementOfSeq, NamesAssumption DEF Paths
<1> HIDE DEF n
<1>2. Advances(n, Paths, G)
  BY <1>1, SteppedType DEF Advances
<1>3. PICK h \in [0 .. n -> Paths] : h[0] = Home /\ \A i \in 1 .. n : h[i] = G[<<i, h[i - 1]>>]
  <2> HIDE DEF G
  <2>1. \E h : Recursive(h, n, Paths, Home, G)
    BY <1>1, <1>2, Recursion
  <2> QED BY <2>1 DEF Recursive
<1>4. \A i \in 1 .. n : h[i] = Stepped(h[i - 1], q[i])
  <2>1. \A i \in 1 .. n : h[i - 1] \in Paths
    BY <1>1, <1>3
  <2> QED BY <1>3, <2>1
<1>5. Solves(h)
  <2>1. \A i \in 0 .. n : h[i] = IF i = 0 THEN Home ELSE Stepped(h[i - 1], q[i])
    BY <1>1, <1>3, <1>4
  <2> QED BY <2>1, <1>3
<1>6. Solves(R)
  <2> HIDE DEF Solves
  <2> QED BY <1>5
<1> HIDE DEF R
<1>7. R[0] = Home /\ \A i \in 1 .. n : R[i] = Stepped(R[i - 1], q[i])
  BY <1>1, <1>6
<1>8. R \in [0 .. n -> Paths]
  <2>1. \A i \in 1 .. n : R[i - 1] \in Paths => R[i] \in Paths
    BY <1>1, <1>7, SteppedType
  <2>2. \A i \in 0 .. n : R[i] \in Paths
    BY <1>1, <1>7, <2>1, Along
  <2> QED BY <2>2, <1>6
<1>9. Resolve(Home, q) = R[n]
  BY DEF Resolve, R, n
<1> QED BY <1>7, <1>8, <1>9 DEF n

LEMMA Appended ==
  ASSUME NEW s \in Paths, NEW e \in STRING
  PROVE  /\ Append(s, e) \in Paths /\ Append(s, e) # << >>
         /\ Len(s) \in Nat /\ Len(Append(s, e)) = Len(s) + 1
         /\ \A i \in 1 .. Len(s) : Append(s, e)[i] = s[i]
         /\ Append(s, e)[Len(s) + 1] = e
         /\ Front(Append(s, e)) = s
<1>1. /\ Append(s, e) \in Paths /\ Append(s, e) # << >>
      /\ Len(s) \in Nat /\ Len(Append(s, e)) = Len(s) + 1
      /\ \A i \in 1 .. Len(s) : Append(s, e)[i] = s[i]
      /\ Append(s, e)[Len(s) + 1] = e
  BY AppendProperties, LenProperties DEF Paths
<1> DEFINE t == Append(s, e)
<1> HIDE DEF t
<1>2. /\ Front(t) \in Paths /\ Len(Front(t)) = Len(t) - 1
      /\ \A i \in 1 .. Len(t) - 1 : Front(t)[i] = t[i]
  BY <1>1, FrontOf DEF t
<1>3. Len(t) - 1 = Len(s) /\ \A i \in 1 .. Len(s) : t[i] = s[i]
  BY <1>1 DEF t
<1>4. Front(t) = s
  BY <1>2, <1>3, SeqEqual DEF Paths
<1> QED BY <1>1, <1>4 DEF t

\* A path is its last name behind the rest.
LEMMA LastOf ==
  ASSUME NEW q \in Paths, q # << >>
  PROVE  q[Len(q)] \in STRING /\ q = Append(Front(q), q[Len(q)])
<1>1. /\ Front(q) \in Paths /\ Len(Front(q)) = Len(q) - 1 /\ Len(q) \in Nat \ {0}
      /\ \A i \in 1 .. Len(q) - 1 : Front(q)[i] = q[i]
  BY FrontOf
<1>2. q[Len(q)] \in STRING
  <2>1. Len(q) \in 1 .. Len(q)
    BY <1>1
  <2> QED BY <2>1, ElementOfSeq DEF Paths
<1> DEFINE b == Front(q)
           e == q[Len(q)]
           t == Append(b, e)
<1> HIDE DEF b, e
<1>6. /\ t \in Paths /\ Len(t) = Len(b) + 1
      /\ \A i \in 1 .. Len(b) : t[i] = b[i]
      /\ t[Len(b) + 1] = e
  BY <1>1, <1>2, Appended DEF b, e
<1> HIDE DEF t
<1>3. /\ t \in Paths /\ Len(t) = (Len(q) - 1) + 1
      /\ \A i \in 1 .. Len(q) - 1 : t[i] = q[i]
      /\ t[(Len(q) - 1) + 1] = q[Len(q)]
  BY <1>1, <1>6 DEF b, e
<1>4. Len(t) = Len(q) /\ \A i \in 1 .. Len(q) : t[i] = q[i]
  BY <1>1, <1>3
<1>5. t = q
  BY <1>3, <1>4, SeqEqual DEF Paths
<1> QED BY <1>2, <1>5 DEF t, b, e

\* One more name at the end of a path is one more step.
LEMMA ResolveAppend ==
  ASSUME NEW s \in Paths, NEW e \in STRING
  PROVE  Resolve(Home, s) \in Paths /\ Resolve(Home, Append(s, e)) = Stepped(Resolve(Home, s), e)
<1> DEFINE n == Len(s)
           t == Append(s, e)
<1>1. /\ n \in Nat /\ t \in Paths /\ Len(t) = n + 1 /\ t[n + 1] = e
      /\ \A i \in 1 .. n : t[i] = s[i]
  BY Appended
<1>2. PICK r \in [0 .. n -> Paths] :
        /\ r[0] = Home
        /\ \A i \in 1 .. n : r[i] = Stepped(r[i - 1], s[i])
        /\ Resolve(Home, s) = r[n]
  BY ResolveSteps
<1> HIDE DEF n, t
<1>3. PICK u \in [0 .. n + 1 -> Paths] :
        /\ u[0] = Home
        /\ \A i \in 1 .. n + 1 : u[i] = Stepped(u[i - 1], t[i])
        /\ Resolve(Home, t) = u[n + 1]
  BY <1>1, ResolveSteps
<1> DEFINE f == [i \in 0 .. n |-> IF r[i] = u[i] THEN 1 ELSE 0]
<1>4. f[0] \in {1}
  BY <1>1, <1>2, <1>3
<1>5. ASSUME NEW i \in 1 .. n, f[i - 1] \in {1} PROVE f[i] \in {1}
  <2>1. i \in 0 .. n /\ i - 1 \in 0 .. n /\ i \in 1 .. n + 1
    BY <1>1
  <2>2. r[i - 1] = u[i - 1]
    BY <1>5, <2>1
  <2>3. r[i] = u[i]
    BY <1>1, <1>2, <1>3, <2>1, <2>2
  <2> QED BY <2>1, <2>3
<1>6. f[n] \in {1}
  <2> HIDE DEF f
  <2>1. \A i \in 0 .. n : f[i] \in {1}
    BY <1>1, <1>4, <1>5, Along
  <2> QED BY <2>1, <1>1
<1>7. r[n] = u[n]
  BY <1>1, <1>6
<1>8. n + 1 \in 1 .. n + 1 /\ (n + 1) - 1 = n /\ n \in 0 .. n
  BY <1>1
<1>9. u[n + 1] = Stepped(u[n], e)
  BY <1>1, <1>3, <1>8
<1> QED BY <1>2, <1>3, <1>7, <1>8, <1>9 DEF t

------------------------------------------------------------------------------
(* parse_dir.                                                              *)

Parses == [path : Paths, ok : BOOLEAN]

LEMMA ParsedType ==
  ASSUME NEW st \in Parses, NEW name \in STRING
  PROVE  Parsed(st, name) \in Parses
<1>1. st.path \in Paths /\ st.ok \in BOOLEAN /\ Append(st.path, name) \in Paths
  BY Appended DEF Parses
<1>2. Len(st.path) > 1 => Front(st.path) \in Paths
  <2>1. Len(<< >>) = 0
    OBVIOUS
  <2> QED BY <1>1, <2>1, FrontOf
<1> QED BY <1>1, <1>2 DEF Parsed, Parses

\* What parse_dir does, one name after the other.
LEMMA ParseDirSteps ==
  ASSUME NEW names \in Paths, NEW q \in Paths
  PROVE  \E r \in [0 .. Len(q) -> Parses] :
           /\ r[0] = [path |-> names, ok |-> TRUE]
           /\ \A i \in 1 .. Len(q) : r[i] = Parsed(r[i - 1], q[i])
           /\ ParseDir(names, q) = r[Len(q)]
<1> DEFINE n == Len(q)
           a == [path |-> names, ok |-> TRUE]
           G == [x \in (1 .. n) \X Parses |-> Parsed(x[2], q[x[1]])]
           Solves(r) == r = [i \in 0 .. n |-> IF i = 0 THEN a ELSE Parsed(r[i - 1], q[i])]
           R == CHOOSE r : Solves(r)
<1>1. n \in Nat /\ a \in Parses /\ \A i \in 1 .. n : q[i] \in STRING
  BY LenProperties, ElementOfSeq DEF Paths, Parses
<1>2. ParseDir(names, q) = R[n]
  BY DEF ParseDir
<1> HIDE DEF n, a
<1>3. Advances(n, Parses, G)
  BY <1>1, ParsedType DEF Advances
<1>4. PICK h \in [0 .. n -> Parses] : h[0] = a /\ \A i \in 1 .. n : h[i] = G[<<i, h[i - 1]>>]
  <2> HIDE DEF G
  <2>1. \E h : Recursive(h, n, Parses, a, G)
    BY <1>1, <1>3, Recursion
  <2> QED BY <2>1 DEF Recursive
<1>5. \A i \in 1 .. n : h[i] = Parsed(h[i - 1], q[i])
  <2>1. \A i \in 1 .. n : h[i - 1] \in Parses
    BY <1>1, <1>4
  <2> QED BY <1>4, <2>1
<1>6. Solves(h)
  <2>1. \A i \in 0 .. n : h[i] = IF i = 0 THEN a ELSE Parsed(h[i - 1], q[i])
    BY <1>1, <1>4, <1>5
  <2> QED BY <2>1, <1>4
<1>7. Solves(R)
  <2> HIDE DEF Solves
  <2> QED BY <1>6
<1> HIDE DEF R
<1>8. R[0] = a /\ \A i \in 1 .. n : R[i] = Parsed(R[i - 1], q[i])
  BY <1>1, <1>7
<1>9. R \in [0 .. n -> Parses]
  <2>1. \A i \in 1 .. n : R[i - 1] \in Parses => R[i] \in Parses
    BY <1>1, <1>8, ParsedType
  <2>2. \A i \in 0 .. n : R[i] \in Parses
    BY <1>1, <1>8, <2>1, Along
  <2> QED BY <2>2, <1>7
<1> QED BY <1>2, <1>8, <1>9 DEF n, a

\* No name but the first is "..", and none is ".".
Plain(q) == \A i \in 2 .. Len(q) : q[i] # ".."
NoDot(q) == \A i \in 1 .. Len(q) : q[i] # "."

\* One name: the first name of the path stays, ".." is never added.
LEMMA ParsedKeeps ==
  ASSUME NEW st \in Parses, NEW name \in STRING
  PROVE  LET to == Parsed(st, name)
         IN  /\ st.path # << >> => to.path # << >> /\ to.path[1] = st.path[1]
             /\ Plain(st.path) => Plain(to.path)
             /\ NoDot(st.path) /\ name # "." => NoDot(to.path)
<1> DEFINE q == st.path
           to == Parsed(st, name)
<1>1. q \in Paths /\ Len(q) \in Nat /\ Len(<< >>) = 0 /\ (q # << >> => Len(q) >= 1)
  <2>1. q \in Paths
    BY DEF Parses
  <2> QED BY <2>1, LenProperties, EmptySeq DEF Paths
<1>2. CASE st.ok /\ name = ".." /\ Len(q) > 1
  <2>1. to.path = Front(q) /\ q # << >>
    BY <1>1, <1>2 DEF Parsed
  <2>2. /\ Front(q) \in Paths /\ Len(Front(q)) = Len(q) - 1
        /\ \A i \in 1 .. Len(q) - 1 : Front(q)[i] = q[i]
    BY <1>1, <2>1, FrontOf
  <2> HIDE DEF q, to
  <2>3. to.path # << >> /\ to.path[1] = q[1]
    BY <1>1, <1>2, <2>1, <2>2
  <2>4. Plain(q) => Plain(to.path)
    BY <1>1, <1>2, <2>1, <2>2 DEF Plain
  <2>5. NoDot(q) => NoDot(to.path)
    BY <1>1, <1>2, <2>1, <2>2 DEF NoDot
  <2> QED BY <2>3, <2>4, <2>5 DEF q, to
<1>3. CASE ~st.ok \/ (name = ".." /\ ~(Len(q) > 1))
  <2>1. to.path = q
    BY <1>3 DEF Parsed
  <2> QED BY <2>1
<1>4. CASE st.ok /\ name # ".."
  <2>1. to.path = Append(q, name)
    BY <1>4 DEF Parsed
  <2>2. /\ Append(q, name) # << >> /\ Len(Append(q, name)) = Len(q) + 1
        /\ \A i \in 1 .. Len(q) : Append(q, name)[i] = q[i]
        /\ Append(q, name)[Len(q) + 1] = name
    BY <1>1, Appended
  <2> HIDE DEF q, to
  <2>3. q # << >> => to.path # << >> /\ to.path[1] = q[1]
    BY <1>1, <2>1, <2>2
  <2>4. Plain(q) => Plain(to.path)
    <3>1. ASSUME Plain(q), NEW i \in 2 .. Len(q) + 1 PROVE Append(q, name)[i] # ".."
      <4>1. i \in 2 .. Len(q) \/ i = Len(q) + 1
        BY <1>1
      <4> QED BY <3>1, <4>1, <1>4, <2>2 DEF Plain
    <3> QED BY <3>1, <2>1, <2>2 DEF Plain
  <2>5. NoDot(q) /\ name # "." => NoDot(to.path)
    <3>1. ASSUME NoDot(q), name # ".", NEW i \in 1 .. Len(q) + 1 PROVE Append(q, name)[i] # "."
      <4>1. i \in 1 .. Len(q) \/ i = Len(q) + 1
        BY <1>1
      <4> QED BY <3>1, <4>1, <2>2 DEF NoDot
    <3> QED BY <3>1, <2>1, <2>2 DEF NoDot
  <2> QED BY <2>3, <2>4, <2>5 DEF q, to
<1> QED BY <1>2, <1>3, <1>4

\* One name: parse_dir goes where the file system goes, or stops at the user's
\* own directory.
LEMMA ParsedResolves ==
  ASSUME NEW st \in Parses, NEW name \in STRING, NEW at \in Paths,
         Plain(st.path), NoDot(st.path), name # ".",
         IF st.ok THEN Resolve(Home, st.path) = at ELSE Len(st.path) <= 1
  PROVE  LET to == Parsed(st, name)
         IN  IF to.ok THEN Resolve(Home, to.path) = Stepped(at, name) ELSE Len(to.path) <= 1
<1> DEFINE q == st.path
           to == Parsed(st, name)
<1>1. q \in Paths /\ Len(q) \in Nat /\ Len(<< >>) = 0
  <2>1. q \in Paths
    BY DEF Parses
  <2> QED BY <2>1, LenProperties DEF Paths
<1>2. CASE st.ok /\ name = ".." /\ Len(q) > 1
  <2> DEFINE b == Front(q)
             e == q[Len(q)]
  <2>1. to.ok /\ to.path = b /\ q # << >>
    BY <1>1, <1>2 DEF Parsed
  <2>2. b \in Paths /\ e \in STRING /\ q = Append(b, e)
    BY <1>1, <2>1, FrontOf, LastOf
  <2>3. e # ".." /\ e # "."
    <3>1. Len(q) \in 2 .. Len(q) /\ Len(q) \in 1 .. Len(q)
      BY <1>1, <1>2
    <3> QED BY <3>1 DEF Plain, NoDot
  <2>4. Resolve(Home, q) = at
    BY <1>2
  <2> HIDE DEF b, e, q, to
  <2>5. Resolve(Home, b) \in Paths /\ Resolve(Home, q) = Append(Resolve(Home, b), e)
    <3>1. Resolve(Home, b) \in Paths /\ Resolve(Home, Append(b, e)) = Stepped(Resolve(Home, b), e)
      BY <2>2, ResolveAppend
    <3>2. Stepped(Resolve(Home, b), e) = Append(Resolve(Home, b), e)
      BY <2>3 DEF Stepped
    <3> QED BY <2>2, <3>1, <3>2
  <2>6. at # << >> /\ Front(at) = Resolve(Home, b)
    <3> DEFINE c == Resolve(Home, b)
    <3>1. c \in Paths /\ at = Append(c, e)
      BY <2>4, <2>5
    <3> HIDE DEF c
    <3>2. Append(c, e) # << >> /\ Front(Append(c, e)) = c
      BY <2>2, <3>1, Appended
    <3> QED BY <3>1, <3>2 DEF c
  <2>7. Stepped(at, "..") = Front(at)
    BY <2>6 DEF Stepped
  <2> QED BY <1>2, <2>1, <2>6, <2>7 DEF to
<1>3. CASE ~st.ok
  BY <1>3 DEF Parsed
<1>4. CASE st.ok /\ name = ".." /\ ~(Len(q) > 1)
  <2>1. ~to.ok /\ to.path = q
    BY <1>4 DEF Parsed
  <2> QED BY <1>1, <1>4, <2>1
<1>5. CASE st.ok /\ name # ".."
  <2>1. to.ok /\ to.path = Append(q, name)
    BY <1>5 DEF Parsed
  <2>2. Resolve(Home, Append(q, name)) = Stepped(at, name)
    BY <1>1, <1>5, ResolveAppend
  <2> QED BY <2>1, <2>2
<1> QED BY <1>2, <1>3, <1>4, <1>5

\* parse_dir never takes the last directory away.
LEMMA ParseDirKeeps ==
  ASSUME NEW names \in Paths, NEW q \in Paths
  PROVE  LET to == ParseDir(names, q)
         IN  /\ to \in Parses
             /\ names # << >> => to.path # << >> /\ to.path[1] = names[1]
             /\ Plain(names) => Plain(to.path)
<1> DEFINE n == Len(q)
<1>1. PICK r \in [0 .. n -> Parses] :
           /\ r[0] = [path |-> names, ok |-> TRUE]
           /\ \A i \in 1 .. n : r[i] = Parsed(r[i - 1], q[i])
           /\ ParseDir(names, q) = r[n]
  BY ParseDirSteps
<1> DEFINE S == {st \in Parses : /\ names # << >> => st.path # << >> /\ st.path[1] = names[1]
                                 /\ Plain(names) => Plain(st.path)}
<1>2. n \in Nat /\ \A i \in 1 .. n : q[i] \in STRING
  BY LenProperties, ElementOfSeq DEF Paths
<1> HIDE DEF n
<1>3. r[0] \in S
  <2>1. 0 \in 0 .. n
    BY <1>2
  <2>3. r[0] \in Parses
    BY <1>1, <2>1
  <2>4. r[0].path = names
    BY <1>1
  <2>2. r[0] \in Parses /\ r[0].path = names
    BY <2>3, <2>4
  <2> QED BY <2>2
<1>4. ASSUME NEW i \in 1 .. n, r[i - 1] \in S PROVE r[i] \in S
  <2>1. r[i] \in Parses /\ r[i] = Parsed(r[i - 1], q[i])
    BY <1>1, <1>2
  <2> QED BY <1>2, <1>4, <2>1, ParsedKeeps
<1>5. r[n] \in S
  <2> HIDE DEF S
  <2>1. \A i \in 0 .. n : r[i] \in S
    BY <1>2, <1>3, <1>4, Along
  <2> QED BY <2>1, <1>2
<1> QED BY <1>1, <1>5

\* parse_dir takes the path where the file system takes path and argument.
LEMMA ParseDirResolves ==
  ASSUME NEW names \in Paths, NEW q \in Paths, Plain(names), NoDot(names), NoDot(q)
  PROVE  LET to == ParseDir(names, q)
         IN  IF to.ok THEN Resolve(Home, to.path) = Resolve(Home, names \o q) ELSE Len(to.path) <= 1
<1> DEFINE n == Len(q)
           Upto(i) == names \o SubSeq(q, 1, i)
<1>1. PICK r \in [0 .. n -> Parses] :
           /\ r[0] = [path |-> names, ok |-> TRUE]
           /\ \A i \in 1 .. n : r[i] = Parsed(r[i - 1], q[i])
           /\ ParseDir(names, q) = r[n]
  BY ParseDirSteps
<1>2. n \in Nat /\ \A i \in 1 .. n : q[i] \in STRING /\ q[i] # "."
  BY LenProperties, ElementOfSeq DEF Paths, NoDot
<1>3. Upto(0) = names /\ Upto(n) = names \o q
  <2>1. SubSeq(q, 1, 0) = << >> /\ SubSeq(q, 1, n) = q
    BY SubSeqEmpty, SubSeqFull DEF Paths
  <2> QED BY <2>1, ConcatEmptySeq DEF Paths
<1> HIDE DEF n
<1>4. ASSUME NEW i \in 1 .. n
      PROVE  Upto(i - 1) \in Paths /\ Upto(i) = Append(Upto(i - 1), q[i])
  <2> DEFINE s == SubSeq(q, 1, i - 1)
  <2>1. /\ i \in Int /\ 1 \in Int /\ i - 1 \in Int /\ i \in 1 .. Len(q) /\ 1 \in 1 .. Len(q)
        /\ i \in 1 .. i /\ \A j \in 1 .. i - 1 : j \in 1 .. n
    BY <1>2 DEF n
  <2>2. \A j \in 1 .. i - 1 : q[j] \in STRING
    BY <1>2, <2>1
  <2>3. s \in Paths
    BY <2>1, <2>2, SubSeqProperties DEF Paths
  <2>4. SubSeq(q, 1, i) = s \o <<q[i]>>
    BY <2>1, SubSeqRecursiveSecond DEF Paths
  <2> HIDE DEF s
  <2>5. <<q[i]>> \in Paths /\ names \o s \in Paths
    BY <1>2, <2>3, ConcatProperties DEF Paths
  <2>6. names \o (s \o <<q[i]>>) = (names \o s) \o <<q[i]>>
    BY <2>3, <2>5, ConcatAssociative DEF Paths
  <2>7. (names \o s) \o <<q[i]>> = Append(names \o s, q[i])
    BY <1>2, <2>5, AppendIsConcat DEF Paths
  <2> QED BY <2>4, <2>5, <2>6, <2>7 DEF s
<1> HIDE DEF Upto
<1> DEFINE f == [i \in 0 .. n |-> <<r[i], Resolve(Home, Upto(i))>>]
           S == {x \in Parses \X Paths :
                   /\ Plain(x[1].path) /\ NoDot(x[1].path)
                   /\ IF x[1].ok THEN Resolve(Home, x[1].path) = x[2] ELSE Len(x[1].path) <= 1}
<1>5. f[0] \in S
  <2>3. 0 \in 0 .. n
    BY <1>2
  <2>4. f[0] = <<r[0], Resolve(Home, Upto(0))>>
    BY <2>3
  <2>1. f[0] = <<[path |-> names, ok |-> TRUE], Resolve(Home, names)>>
    BY <1>1, <1>3, <2>4
  <2>2. Resolve(Home, names) \in Paths
    <3>1. PICK u \in [0 .. Len(names) -> Paths] : Resolve(Home, names) = u[Len(names)]
      BY ResolveSteps
    <3>2. Len(names) \in 0 .. Len(names)
      BY LenProperties DEF Paths
    <3> QED BY <3>1, <3>2
  <2> DEFINE a == [path |-> names, ok |-> TRUE]
  <2>5. a \in Parses /\ a.path = names /\ a.ok
    BY DEF Parses
  <2> HIDE DEF a
  <2>6. <<a, Resolve(Home, names)>> \in S
    BY <2>2, <2>5
  <2> HIDE DEF S
  <2> QED BY <2>1, <2>6 DEF a
<1>6. ASSUME NEW i \in 1 .. n, f[i - 1] \in S PROVE f[i] \in S
  <2> DEFINE st == r[i - 1]
             at == Resolve(Home, Upto(i - 1))
             to == r[i]
  <2>1. i \in 0 .. n /\ i - 1 \in 0 .. n
    BY <1>2
  <2>2. /\ st \in Parses /\ at \in Paths /\ Plain(st.path) /\ NoDot(st.path)
        /\ IF st.ok THEN Resolve(Home, st.path) = at ELSE Len(st.path) <= 1
    <3>1. <<st, at>> \in S
      BY <1>6, <2>1
    <3> HIDE DEF st, at
    <3> QED BY <3>1
  <2>3. to = Parsed(st, q[i]) /\ to \in Parses
    BY <1>1, <2>1
  <2>4. Resolve(Home, Upto(i)) = Stepped(at, q[i])
    BY <1>2, <1>4, ResolveAppend
  <2> HIDE DEF st, at, to
  <2>5. Plain(to.path) /\ NoDot(to.path)
    BY <1>2, <2>2, <2>3, ParsedKeeps
  <2>6. IF to.ok THEN Resolve(Home, to.path) = Stepped(at, q[i]) ELSE Len(to.path) <= 1
    BY <1>2, <2>2, <2>3, ParsedResolves
  <2>7. Stepped(at, q[i]) \in Paths
    BY <1>2, <2>2, SteppedType
  <2>8. <<to, Stepped(at, q[i])>> \in S
    BY <2>3, <2>5, <2>6, <2>7
  <2> HIDE DEF S
  <2> QED BY <2>1, <2>4, <2>8 DEF to
<1>7. f[n] \in S
  <2> HIDE DEF S, f
  <2>1. \A i \in 0 .. n : f[i] \in S
    BY <1>2, <1>5, <1>6, Along
  <2> QED BY <2>1, <1>2
<1>8. <<ParseDir(names, q), Resolve(Home, names \o q)>> \in S
  <2> HIDE DEF S
  <2>1. n \in 0 .. n
    BY <1>2
  <2> QED BY <1>1, <1>3, <1>7, <2>1
<1> HIDE DEF f
<1> QED BY <1>8

------------------------------------------------------------------------------
(* The directory of a session.                                             *)

\* Before the password the path is what was entered; after it, it starts with
\* the first of that or with the user's name.
PathInv ==
  /\ path \in Paths /\ entered \in Paths
  /\ auth1 /\ ~auth2 => path = entered
  /\ auth2 => path # << >> /\ Head(path) = Head(Append(entered, username))

DirInv == LoginInv /\ WireInv /\ PathInv

\* A CWD request carries names.
LEMMA CwdRequest ==
  ASSUME WireInv, ServeUser("CWD")
  PROVE  toClient = << >> /\ toServer # << >> /\ Request.arg.names \in Paths
<1>1. toServer # << >> /\ Request.cmd = "CWD"
  BY DEF ServeUser, Serve
<1>2. PICK r \in Requests : toServer = <<r>>
  BY <1>1 DEF WireInv
<1>3. Request = r
  BY <1>2 DEF Request
<1>4. r.cmd = "CWD" => r.arg \in Dirs
  BY <1>2 DEF Requests, Transfers
<1>5. r.arg \in [absolute : BOOLEAN, names : Seq(STRING)]
  BY <1>1, <1>3, <1>4, NamesAssumption
<1>6. r.arg.names \in Paths
  BY <1>5 DEF Paths
<1> QED BY <1>1, <1>3, <1>6 DEF WireInv

LEMMA FirstName ==
  ASSUME NEW q \in Paths, q # << >>
  PROVE  Head(q) = q[1] /\ Len(q) \in Nat /\ Len(q) >= 1
BY EmptySeq DEF Paths

\* parse_dir keeps the first name of a path that is not empty.
LEMMA CwdKeepsHead ==
  ASSUME PathInv, WireInv, HandleCwd
  PROVE  /\ path' \in Paths
         /\ path # << >> => path' # << >> /\ Head(path') = Head(path)
<1> DEFINE to == ParseDir(path, Request.arg.names)
<1>1. Request.arg.names \in Paths /\ path \in Paths /\ path' = to.path
  BY CwdRequest DEF HandleCwd, PathInv
<1>2. to \in Parses /\ (path # << >> => to.path # << >> /\ to.path[1] = path[1])
  BY <1>1, ParseDirKeeps
<1> HIDE DEF to
<1>3. path' \in Paths
  BY <1>1, <1>2 DEF Parses
<1>4. ASSUME path # << >> PROVE path' # << >> /\ Head(path') = Head(path)
  BY <1>1, <1>2, <1>3, <1>4, FirstName
<1> QED BY <1>3, <1>4

LEMMA PathKept ==
  ASSUME LoginInv, WireInv, PathInv, [ServiceNext]_serviceVars
  PROVE  PathInv'
<1> USE DEF PathInv
<1>0. Answer => entered' = CASE Request.cmd = "USER"          -> << >>
                             [] Request.cmd = "CWD" /\ ~auth2 -> path'
                             [] OTHER                         -> entered
  BY DEF Answer, EnteredHistory
<1>1. CASE Answer /\ HandleUser
  <2>1. ~auth2' /\ path' = << >> /\ entered' = << >>
    BY <1>0, <1>1 DEF HandleUser, Serve
  <2> QED BY <2>1, EmptySeq DEF Paths
<1>2. CASE Answer /\ (PassAgain \/ PassWithoutUser \/ PassRefused)
  <2>1. /\ ~auth1' /\ ~auth2' /\ entered' = entered
        /\ path' = path \/ path' = << >>
    BY <1>0, <1>2 DEF PassAgain, PassWithoutUser, PassRefused, Serve
  <2> QED BY <2>1, EmptySeq DEF Paths
<1>3. CASE Answer /\ PassRight
  <2>1. /\ auth1 /\ ~auth2 /\ auth2' /\ path' = Append(path, username) /\ username \in STRING
        /\ entered' = entered /\ username' = username
    BY <1>0, <1>3, NamesAssumption DEF PassRight, Serve, LoginInv
  <2>2. path' \in Paths /\ path' # << >>
    BY <2>1, Appended
  <2> QED BY <2>1, <2>2
<1>4. CASE Answer /\ HandleCwd
  <2>1. /\ Request.cmd = "CWD" /\ auth1' = auth1 /\ auth2' = auth2 /\ username' = username
        /\ auth1 \/ auth2
    BY <1>4 DEF HandleCwd, ServeUser, Serve, authVars
  <2>2. path' \in Paths /\ (path # << >> => path' # << >> /\ Head(path') = Head(path))
    BY <1>4, CwdKeepsHead
  <2>3. CASE auth2
    BY <1>0, <1>4, <2>1, <2>2, <2>3
  <2>4. CASE ~auth2
    BY <1>0, <1>4, <2>1, <2>2, <2>4
  <2> QED BY <2>3, <2>4
<1>5. CASE Answer /\ (CwdNotFound \/ CwdWithoutName)
  <2>1. UNCHANGED <<auth1, auth2, username, path>> /\ Request.cmd = "CWD" /\ (auth1 \/ auth2)
    BY <1>5 DEF CwdNotFound, CwdWithoutName, ServeUser, Serve, authVars, serverVars
  <2>2. auth2 => entered' = entered
    BY <1>0, <1>5, <2>1
  <2>3. ~auth2 => entered' = path
    BY <1>0, <1>5, <2>1
  <2> QED BY <2>1, <2>2, <2>3
<1>6. CASE Answer /\ NotLoggedIn
  <2>1. UNCHANGED <<auth1, auth2, username, path>> /\ ~auth1 /\ ~auth2
    BY <1>6 DEF NotLoggedIn, authVars, serverVars
  <2>2. entered' \in {<< >>, path, entered}
    BY <1>0, <1>6, <2>1
  <2> QED BY <2>1, <2>2, EmptySeq DEF Paths
<1>7. CASE Answer /\ (\/ BadCommand \/ HandlePort \/ BadPort \/ StartTransfer \/ NoSuchFile
                      \/ NoPort \/ HandlePwd \/ HandleQuit)
  <2>1. UNCHANGED <<auth1, auth2, username, path>>
    BY <1>7 DEF BadCommand, HandlePort, BadPort, StartTransfer, NoSuchFile, NoPort, HandlePwd,
       HandleQuit, authVars, serverVars
  <2>2. Request.cmd \notin {"USER", "CWD"}
    BY <1>7 DEF BadCommand, HandlePort, BadPort, StartTransfer, NoSuchFile, NoPort, HandlePwd,
       HandleQuit, ServeUser, Serve, Transfers
  <2>3. entered' = entered
    BY <1>0, <1>7, <2>2
  <2> QED BY <2>1, <2>3
<1>8. CASE ~Answer
  BY <1>8, NoAnswer DEF authVars, historyVars
<1> QED
  BY <1>1, <1>2, <1>3, <1>4, <1>5, <1>6, <1>7, <1>8 DEF Answer, Respond

THEOREM DirInvariance == ServiceSpec => []DirInv
<1>1. ServiceInit => PathInv
  <2> SUFFICES ASSUME ServiceInit PROVE PathInv
    OBVIOUS
  <2>1. path = << >> /\ entered = << >> /\ ~auth2
    BY DEF ServiceInit, ServerInit
  <2>2. << >> \in Paths
    BY EmptySeq DEF Paths
  <2> QED BY <2>1, <2>2 DEF PathInv
<1>2. LoginInv /\ WireInv /\ PathInv /\ [ServiceNext]_serviceVars => PathInv'
  BY PathKept
<1>3. LoginInv /\ WireInv /\ PathInv => DirInv
  BY DEF DirInv
<1> QED BY <1>1, <1>2, <1>3, LoginInvariance, PTL DEF ServiceSpec

\* Who is logged in is a user of users.csv and stays below the user's own
\* directory or the first that was entered between USER and PASS, for all users,
\* directories and orders of the requests.
THEOREM SessionConsistentCorrect == ServiceSpec => []SessionConsistent
<1>1. DirInv => SessionConsistent
  BY DEF DirInv, LoginInv, PathInv, SessionConsistent, LoginConsistent
<1> QED BY <1>1, DirInvariance, PTL

PlainPath == Plain(path)

\* The path has ".." nowhere but in front.
LEMMA PlainKept ==
  ASSUME ".." \notin Users, DirInv, Plain(path), [ServiceNext]_serviceVars
  PROVE  Plain(path')
<1>1. CASE path' = << >>
  BY <1>1 DEF Plain
<1>2. CASE PassRight
  <2>1. path' = Append(path, username) /\ username \in STRING /\ username # ".."
    BY <1>2, NamesAssumption DEF PassRight, DirInv, LoginInv
  <2>2. /\ Len(path) \in Nat /\ Len(path') = Len(path) + 1
        /\ \A i \in 1 .. Len(path) : path'[i] = path[i]
        /\ path'[Len(path) + 1] = username
    BY <2>1, Appended DEF DirInv, PathInv
  <2>3. ASSUME NEW i \in 2 .. Len(path) + 1 PROVE path'[i] # ".."
    <3>1. i \in 2 .. Len(path) \/ i = Len(path) + 1
      BY <2>2
    <3> QED BY <3>1, <2>1, <2>2 DEF Plain
  <2> QED BY <2>2, <2>3 DEF Plain
<1>3. CASE HandleCwd
  <2>1. Request.arg.names \in Paths /\ path' = ParseDir(path, Request.arg.names).path
    BY <1>3, CwdRequest DEF HandleCwd, DirInv
  <2> QED BY <2>1, ParseDirKeeps DEF DirInv, PathInv
<1>4. CASE path' = path
  BY <1>4
<1>5. CASE Answer
  BY <1>1, <1>2, <1>3, <1>4, <1>5 DEF Answer, Respond, HandleUser, PassWithoutUser, PassAgain,
     PassRefused, NotLoggedIn, BadCommand, HandlePort, BadPort, StartTransfer, NoSuchFile,
     NoPort, CwdNotFound, CwdWithoutName, HandlePwd, HandleQuit, serverVars
<1>6. CASE ~Answer
  BY <1>6, NoAnswer
<1> QED BY <1>5, <1>6

\* After a CWD the session is where its reply says, unless a user is called ".."
\* or the session is not logged in and the argument starts with a slash.
THEOREM CwdAsAnsweredCorrect ==
  ASSUME ".." \notin Users
  PROVE  ServiceSpec => CwdAsAnswered
<1>1. ServiceInit => PlainPath
  BY DEF ServiceInit, ServerInit, Plain, PlainPath
<1>2. DirInv /\ PlainPath /\ [ServiceNext]_serviceVars => PlainPath'
  BY PlainKept DEF PlainPath
<1>3. DirInv /\ PlainPath =>
        (/\ HandleCwd
         /\ path # << >> \/ ~Request.arg.absolute
         /\ ~Contains(path \o Request.arg.names, ".")
         => IF toClient' = <<200>>
            THEN Resolve(Home, path') = Target(Request.arg)
            ELSE path # << >> => path' = <<Head(path)>>)
  <2> USE DEF PlainPath
  <2> SUFFICES ASSUME DirInv, Plain(path), HandleCwd, path # << >> \/ ~Request.arg.absolute,
                      ~Contains(path \o Request.arg.names, ".")
               PROVE  IF toClient' = <<200>>
                      THEN Resolve(Home, path') = Target(Request.arg)
                      ELSE path # << >> => path' = <<Head(path)>>
    OBVIOUS
  <2> DEFINE q == Request.arg.names
             to == ParseDir(path, q)
  <2>1. q \in Paths /\ path \in Paths /\ toClient = << >>
    BY CwdRequest DEF HandleCwd, DirInv, PathInv
  <2>2. path' = to.path /\ toClient' = <<IF to.ok THEN 200 ELSE 501>>
    BY <2>1, CwdRequest, OneReply DEF HandleCwd, DirInv
  <2>8. Target(Request.arg) = Resolve(Home, path \o q)
    BY DEF Target, Start
  <2> HIDE DEF q
  <2>3. NoDot(path) /\ NoDot(q)
    <3>1. /\ Len(path) \in Nat /\ Len(q) \in Nat /\ Len(path \o q) = Len(path) + Len(q)
          /\ \A i \in 1 .. Len(path) + Len(q) :
               (path \o q)[i] = IF i <= Len(path) THEN path[i] ELSE q[i - Len(path)]
      BY <2>1, ConcatProperties, LenProperties DEF Paths
    <3>2. \A i \in 1 .. Len(path) + Len(q) : (path \o q)[i] # "."
      BY <3>1 DEF Contains, q
    <3>3. ASSUME NEW i \in 1 .. Len(path) PROVE path[i] # "."
      <4>1. i \in 1 .. Len(path) + Len(q) /\ i <= Len(path)
        BY <3>1
      <4> QED BY <3>1, <3>2, <4>1
    <3>4. ASSUME NEW i \in 1 .. Len(q) PROVE q[i] # "."
      <4>1. /\ Len(path) + i \in 1 .. Len(path) + Len(q) /\ ~(Len(path) + i <= Len(path))
            /\ (Len(path) + i) - Len(path) = i
        BY <3>1
      <4>2. (path \o q)[Len(path) + i] = q[(Len(path) + i) - Len(path)]
        BY <3>1, <4>1
      <4> QED BY <3>2, <4>1, <4>2
    <3> QED BY <3>3, <3>4 DEF NoDot
  <2>4. IF to.ok THEN Resolve(Home, to.path) = Resolve(Home, path \o q) ELSE Len(to.path) <= 1
    BY <2>1, <2>3, ParseDirResolves
  <2>5. to \in Parses /\ (path # << >> => to.path # << >> /\ to.path[1] = path[1])
    BY <2>1, ParseDirKeeps
  <2> HIDE DEF to
  <2>6. CASE to.ok
    BY <2>2, <2>4, <2>6, <2>8
  <2>7. CASE ~to.ok
    <3>1. toClient' # <<200>>
      BY <2>2, <2>7
    <3>2. ASSUME path # << >> PROVE path' = <<Head(path)>>
      <4>1. to.path \in Paths /\ to.path # << >> /\ Len(to.path) <= 1 /\ to.path[1] = path[1]
        BY <2>4, <2>5, <2>7, <3>2 DEF Parses
      <4> DEFINE n == Len(to.path)
      <4>5. n \in Nat \ {0}
        BY <4>1, EmptySeq DEF Paths
      <4>6. n <= 1
        BY <4>1
      <4>2. n = 1
        <5> HIDE DEF n
        <5> QED BY <4>5, <4>6
      <4>3. to.path = <<path[1]>>
        BY <4>1, <4>2 DEF Paths
      <4>4. Head(path) = path[1]
        BY <2>1, <3>2 DEF Paths
      <4> QED BY <2>2, <4>3, <4>4
    <3> QED BY <3>1, <3>2
  <2> QED BY <2>6, <2>7
<1> QED BY <1>1, <1>2, <1>3, DirInvariance, PTL DEF ServiceSpec, CwdAsAnswered
==============================================================================
