-------------------------- MODULE ChatClientProofs --------------------------
(***************************************************************************)
(* For any users and any number of requests and messages: the semaphore of *)
(* the client is posted once for each wait, the reader thread handles an   *)
(* answer only while the main thread waits for it, no text is skipped, and *)
(* the client implements Terminal.                                         *)
(*                                                                         *)
(* A login or a registration is at one place at a time: in the stream to   *)
(* the server, in its handler, in the stream back, in the reader thread,   *)
(* or in the semaphore; and while it is at one of them the main thread     *)
(* waits.  Stages says so, and what the answer is to be wherever it is.    *)
(***************************************************************************)
EXTENDS ChatTerminal, TLAPS, SequenceTheorems

IsAsk(t) == t.msgid \in {MsgId.LOGIN_MSG, MsgId.REG_MSG}
IsAnswer(t) == t.msgid \in {MsgId.LOGIN_MSG_ACK, MsgId.REG_MSG_ACK}

Answering == \E i \in DOMAIN toClient : IsAnswer(toClient[i])
Serving == serverPc \in {"login", "loginOk", "reg"}

\* The main thread waits for an answer of this kind, if it still runs.
Expects(login) == mainPc \in {IF login THEN "waitLogin" ELSE "waitReg", "ended"}

\* The text is the answer that verdict stands for.
Says(t) == verdict = IF t.user = None THEN "refused" ELSE t.user

AskStage ==
  \A i \in DOMAIN toServer : IsAsk(toServer[i]) =>
    /\ i = Len(toServer)
    /\ ~Serving /\ ~Answering /\ readerPc = "recv" /\ rwsem = 0
    /\ Expects(toServer[i].msgid = MsgId.LOGIN_MSG)
    /\ toServer[i].msgid = MsgId.LOGIN_MSG => verdict = None

ServeStage ==
  Serving =>
    /\ ~Answering /\ readerPc = "recv" /\ rwsem = 0
    /\ Expects(serverPc # "reg")
    /\ serverPc # "reg" => verdict = None

AnswerStage ==
  \A i \in DOMAIN toClient : IsAnswer(toClient[i]) =>
    /\ \A k \in DOMAIN toClient : IsAnswer(toClient[k]) => k = i
    /\ readerPc = "recv" /\ rwsem = 0
    /\ Expects(toClient[i].msgid = MsgId.LOGIN_MSG_ACK)
    /\ toClient[i].msgid = MsgId.LOGIN_MSG_ACK => Says(toClient[i])

ReaderStage ==
  readerPc # "recv" =>
    /\ rwsem = 0
    /\ mainPc \in Waits \cup {"ended"}
    /\ readerPc = "loginAck" => Expects(TRUE) /\ Says(text)
    /\ readerPc = "regAck" => Expects(FALSE)

PostedStage == rwsem # 0 => rwsem = 1 /\ mainPc \in Waits \cup {"ended"}

\* What the main thread finds when it looks at isLoginSuccess.
Settled ==
  /\ verdict # None
  /\ isLoginSuccess <=> verdict \in Users
  /\ isLoginSuccess => currentUser = verdict

VerdictStage ==
  /\ mainPc \notin {"waitLogin", "decide", "ended"} => verdict = None
  /\ mainPc = "waitLogin" /\ (readerPc = "post" \/ rwsem # 0) => Settled
  /\ mainPc = "decide" => Settled
  /\ mainPc = "chat" => currentUser = entered

Stages ==
  /\ TypeOK
  /\ AskStage /\ ServeStage /\ AnswerStage /\ ReaderStage /\ PostedStage /\ VerdictStage
-----------------------------------------------------------------------------
LEMMA Ids ==
  /\ MsgId.LOGIN_MSG = 1 /\ MsgId.LOGIN_MSG_ACK = 2 /\ MsgId.REG_MSG = 2
  /\ MsgId.REG_MSG_ACK = 3 /\ MsgId.ONE_CHAT_MSG = 5 /\ MsgId.GROUP_CHAT_MSG = 9
  /\ MsgId.LOGINOUT_MSG = 10
BY DEF MsgId

\* The commands ask for no answer, and no answer looks like one.
LEMMA CommandNumbers ==
  \A command \in CommandIds : MsgId[command] \in Nat /\ MsgId[command] > 3
BY DEF MsgId, CommandIds

LEMMA TextType ==
  ASSUME NEW m \in Nat, NEW u \in Users \cup {None}, NEW long \in BOOLEAN
  PROVE  \E t \in Texts : t = Text(m, u, long) /\ t.msgid = m /\ t.user = u
<1>. DEFINE t == [msgid |-> m, user |-> u, long |-> long]
<1>1. t \in Texts
  BY Zenon DEF Texts
<1>2. t.msgid = m /\ t.user = u
  OBVIOUS
<1>. QED BY <1>1, <1>2, Zenon DEF Text

LEMMA PlainText ==
  ASSUME NEW m \in Nat
  PROVE  \E t \in Texts : t = Text(m, None, FALSE) /\ t.msgid = m /\ t.user = None
<1>. DEFINE t == [msgid |-> m, user |-> None, long |-> FALSE]
<1>1. None \in Users \cup {None} /\ FALSE \in BOOLEAN
  OBVIOUS
<1>2. t \in Texts
  BY <1>1, Zenon DEF Texts
<1>3. t.msgid = m /\ t.user = None
  OBVIOUS
<1>. QED BY <1>2, <1>3, Zenon DEF Text

LEMMA TextsTyped ==
  ASSUME NEW t \in Texts
  PROVE  t.msgid \in Nat /\ t.user \in Users \cup {None} /\ t.long \in BOOLEAN
BY Zenon DEF Texts

\* Appending leaves the positions of a sequence, and taking one off shifts them.
LEMMA Appended ==
  ASSUME NEW S, NEW s \in Seq(S), NEW t \in S
  PROVE  /\ Append(s, t) \in Seq(S)
         /\ Len(Append(s, t)) = Len(s) + 1
         /\ \A i \in DOMAIN Append(s, t) :
              \/ i \in DOMAIN s /\ Append(s, t)[i] = s[i]
              \/ i = Len(s) + 1 /\ Append(s, t)[i] = t
OBVIOUS

LEMMA Taken ==
  ASSUME NEW S, NEW s \in Seq(S), s # <<>>
  PROVE  /\ Head(s) \in S /\ Head(s) = s[1] /\ 1 \in DOMAIN s
         /\ Tail(s) \in Seq(S)
         /\ Len(Tail(s)) = Len(s) - 1
         /\ \A i \in DOMAIN Tail(s) : i + 1 \in DOMAIN s /\ Tail(s)[i] = s[i + 1]
OBVIOUS

-----------------------------------------------------------------------------
(***************************************************************************)
(* Types.                                                                  *)
(***************************************************************************)
LEMMA RequestType ==
  ASSUME TypeOK, NEW m \in Nat, Request(m)
  PROVE  toServer' \in Seq(Texts) /\ requests' \in Seq(Texts)
<1>. PICK t \in Texts : t = Text(m, None, FALSE)
  BY PlainText
<1>. Append(toServer, t) \in Seq(Texts) /\ Append(requests, t) \in Seq(Texts)
  BY Appended DEF TypeOK
<1>. QED BY DEF TypeOK, Request

LEMMA WriteType ==
  ASSUME TypeOK, NEW m \in Nat, NEW u \in Users \cup {None}, NEW long \in BOOLEAN,
         Write(Text(m, u, long))
  PROVE  toClient' \in Seq(Texts) /\ written' \in Seq(Texts)
<1>. PICK t \in Texts : t = Text(m, u, long)
  BY TextType
<1>. Append(toClient, t) \in Seq(Texts) /\ Append(written, t) \in Seq(Texts)
  BY Appended DEF TypeOK
<1>. QED BY DEF Write

LEMMA MainType ==
  ASSUME TypeOK, Main \/ User
  PROVE  TypeOK'
<1>1. CASE BeginLogin \/ Leave \/ End
  BY <1>1, Zenon DEF TypeOK, BeginLogin, Leave, End, MainElse, sharedVars, readerVars, serverVars, Waits
<1>2. CASE SendLogin \/ SendReg \/ SendLoginout
  BY <1>2, RequestType, Ids DEF TypeOK, SendLogin, SendReg, SendLoginout, MainElse, sharedVars, readerVars, serverVars, Waits
<1>3. CASE SemWait
  BY <1>3 DEF TypeOK, SemWait, MainElse, readerVars, serverVars, Waits
<1>4. CASE Decide
  BY <1>4 DEF TypeOK, Decide, MainElse, sharedVars, readerVars, serverVars, Waits
<1>5. ASSUME NEW command \in Commands, SendCommand(command) PROVE TypeOK'
  BY <1>5, RequestType, CommandNumbers, ClientAssumption DEF TypeOK, SendCommand, MainElse, sharedVars, readerVars, serverVars, Waits
<1>. QED BY <1>1, <1>2, <1>3, <1>4, <1>5 DEF Main, User

LEMMA ReaderType ==
  ASSUME TypeOK, Reader
  PROVE  TypeOK'
<1>1. CASE ReadText
  BY <1>1, Taken, Appended DEF TypeOK, ReadText, ReadsOne, Take, CaseOf, ReaderElse, sharedVars, serverVars
<1>2. CASE ReadBroken \/ ReadEnd
  BY <1>2 DEF TypeOK, ReadBroken, ReadEnd, ReaderElse, sharedVars, readerVars, serverVars
<1>3. CASE DoLoginResponse
  BY <1>3, TextsTyped DEF TypeOK, DoLoginResponse, ReaderElse, serverVars
<1>4. CASE DoRegResponse \/ SemPost
  BY <1>4 DEF TypeOK, DoRegResponse, SemPost, ReaderElse, sharedVars, serverVars
<1>. QED BY <1>1, <1>2, <1>3, <1>4 DEF Reader

LEMMA ServerType ==
  ASSUME TypeOK, Server \/ Forward \/ ServerEnds
  PROVE  TypeOK'
<1>1. CASE OnMessage
  BY <1>1, Taken, Appended DEF TypeOK, OnMessage, ReadsOne, HandlerOf, ServerElse, sharedVars, readerVars
<1>2. CASE OnBrokenMessage \/ ServerEnds \/ AcceptLogin
  BY <1>2 DEF TypeOK, OnBrokenMessage, ServerEnds, AcceptLogin, ServerElse, sharedVars, readerVars
<1>3. CASE RefuseLogin \/ AnswerReg
  BY <1>3, WriteType, Ids DEF TypeOK, RefuseLogin, AnswerReg, ServerElse, sharedVars, readerVars
<1>4. CASE AnswerLogin
  BY <1>4, WriteType, Ids DEF TypeOK, AnswerLogin, ServerElse, sharedVars, readerVars
<1>5. CASE Forward
  <2>. PICK kind \in {"ONE_CHAT_MSG", "GROUP_CHAT_MSG"}, long \in BOOLEAN :
              Write(Text(MsgId[kind], None, long))
    BY <1>5, Zenon DEF Forward
  <2>. MsgId[kind] \in Nat
    BY CommandNumbers DEF CommandIds
  <2>. toClient' \in Seq(Texts) /\ written' \in Seq(Texts)
    BY WriteType
  <2>. QED BY <1>5 DEF TypeOK, Forward, ServerElse, sharedVars, readerVars, serverVars
<1>. QED BY <1>1, <1>2, <1>3, <1>4, <1>5 DEF Server

-----------------------------------------------------------------------------
(***************************************************************************)
(* Stages.                                                                 *)
(***************************************************************************)
\* Where the main thread does not wait, nothing is under way.
LEMMA NothingUnderWay ==
  ASSUME Stages, mainPc \notin Waits \cup {"ended"}
  PROVE  /\ \A i \in DOMAIN toServer : ~IsAsk(toServer[i])
         /\ ~Serving /\ ~Answering /\ readerPc = "recv" /\ rwsem = 0
BY DEF Stages, AskStage, ServeStage, AnswerStage, Answering, ReaderStage, PostedStage, Expects, Waits

LEMMA ClientEnds ==
  ASSUME Stages, mainPc' = "ended",
         UNCHANGED <<toServer, toClient, serverPc, readerPc, rwsem, verdict, text>>
  PROVE  (AskStage /\ ServeStage /\ AnswerStage /\ ReaderStage /\ PostedStage)'
BY DEF Stages, AskStage, ServeStage, AnswerStage, ReaderStage, PostedStage, Serving, Answering, Expects, Says

LEMMA MainQuiet ==
  ASSUME Stages, BeginLogin \/ Leave \/ End \/ Decide
  PROVE  (AskStage /\ ServeStage /\ AnswerStage /\ ReaderStage /\ PostedStage)'
<1>1. CASE BeginLogin \/ Leave \/ Decide
  <2>1. UNCHANGED <<toServer, toClient, serverPc, readerPc, rwsem>>
    BY <1>1, Zenon DEF BeginLogin, Leave, Decide, MainElse, sharedVars, readerVars, serverVars
  <2>2. mainPc \notin Waits \cup {"ended"}
    BY <1>1 DEF BeginLogin, Leave, Decide, Waits
  <2>. QED BY NothingUnderWay, <2>1, <2>2 DEF AskStage, ServeStage, AnswerStage, ReaderStage, PostedStage, Serving, Answering
<1>2. CASE End
  BY <1>2, ClientEnds, Zenon DEF End, MainElse, sharedVars, readerVars, serverVars
<1>. QED BY <1>1, <1>2

LEMMA MainVerdict ==
  ASSUME Stages, Main \/ User
  PROVE  VerdictStage'
<1>1. CASE BeginLogin \/ Leave \/ End
  BY <1>1 DEF Stages, VerdictStage, BeginLogin, Leave, End, MainElse, sharedVars, readerVars, serverVars
<1>2. CASE SendLogin \/ SendReg
  <2>1. readerPc = "recv" /\ rwsem = 0
    BY <1>2, NothingUnderWay DEF SendLogin, SendReg, Waits
  <2>. QED BY <1>2, <2>1 DEF Stages, VerdictStage, SendLogin, SendReg, MainElse, sharedVars, readerVars, serverVars
<1>3. CASE SemWait
  BY <1>3 DEF Stages, VerdictStage, SemWait, MainElse, readerVars, serverVars, Waits, Settled
<1>4. CASE Decide
  BY <1>4 DEF Stages, VerdictStage, Decide, MainElse, sharedVars, readerVars, serverVars
<1>5. CASE SendLoginout \/ \E command \in Commands : SendCommand(command)
  BY <1>5 DEF Stages, VerdictStage, SendLoginout, SendCommand, MainElse, sharedVars, readerVars, serverVars
<1>. QED BY <1>1, <1>2, <1>3, <1>4, <1>5 DEF Main, User

\* A request that asks for an answer becomes the only stage; another is none.
LEMMA MainAsks ==
  ASSUME Stages, SendLogin \/ SendReg
  PROVE  (AskStage /\ ServeStage /\ AnswerStage /\ ReaderStage /\ PostedStage)'
<1>1. /\ UNCHANGED <<toClient, serverPc, readerPc, rwsem, verdict, text>>
      /\ mainPc \notin Waits \cup {"ended"}
  BY DEF SendLogin, SendReg, Waits, MainElse, sharedVars, readerVars, serverVars
<1>2. /\ \A i \in DOMAIN toServer : ~IsAsk(toServer[i])
      /\ ~Serving /\ ~Answering /\ readerPc = "recv" /\ rwsem = 0
      /\ mainPc = "sendLogin" => verdict = None
  BY <1>1, NothingUnderWay DEF Stages, VerdictStage
<1>3. ASSUME NEW m \in Nat, Request(m),
             mainPc' = IF m = MsgId.LOGIN_MSG THEN "waitLogin" ELSE "waitReg",
             m = MsgId.LOGIN_MSG => verdict = None
      PROVE  AskStage'
  <2>1. PICK t \in Texts : t = Text(m, None, FALSE) /\ t.msgid = m
    BY PlainText
  <2>2. toServer \in Seq(Texts)
    BY DEF Stages, TypeOK
  <2>3. CASE toServer' = toServer
    BY <1>1, <1>2, <2>3 DEF AskStage, IsAsk
  <2>4. CASE toServer' = Append(toServer, t)
    <3>1. \A i \in DOMAIN toServer' :
            IsAsk(toServer'[i]) => i = Len(toServer') /\ toServer'[i].msgid = m
      BY <1>2, <2>1, <2>2, <2>4, Appended
    <3>. QED BY <1>1, <1>2, <1>3, <3>1 DEF AskStage, Expects, Serving, Answering
  <2>. QED BY <1>3, <2>1, <2>3, <2>4 DEF Request
<1>4. AskStage'
  <2>1. CASE SendLogin
    BY <1>2, <1>3, <2>1, Ids DEF SendLogin
  <2>2. CASE SendReg
    BY <1>2, <1>3, <2>2, Ids DEF SendReg
  <2>. QED BY <2>1, <2>2
<1>. QED BY <1>1, <1>2, <1>4 DEF ServeStage, AnswerStage, ReaderStage, PostedStage, Serving, Answering

LEMMA MainTells ==
  ASSUME Stages, SendLoginout \/ \E command \in Commands : SendCommand(command)
  PROVE  (AskStage /\ ServeStage /\ AnswerStage /\ ReaderStage /\ PostedStage)'
<1>1. /\ UNCHANGED <<toClient, serverPc, readerPc, rwsem, verdict, text>>
      /\ mainPc \notin Waits \cup {"ended"}
  BY DEF SendLoginout, SendCommand, Waits, MainElse, sharedVars, readerVars, serverVars
<1>2. /\ \A i \in DOMAIN toServer : ~IsAsk(toServer[i])
      /\ ~Serving /\ ~Answering /\ readerPc = "recv" /\ rwsem = 0
  BY <1>1, NothingUnderWay
<1>3. PICK m \in Nat : m > 3 /\ Request(m)
  BY Ids, CommandNumbers, ClientAssumption DEF SendLoginout, SendCommand
<1>4. \A i \in DOMAIN toServer' : ~IsAsk(toServer'[i])
  <2>0. PICK t \in Texts : t = Text(m, None, FALSE) /\ t.msgid = m
    BY PlainText
  <2>1. ~IsAsk(t)
    <3>. m # MsgId.LOGIN_MSG /\ m # MsgId.REG_MSG
      BY <1>3, Ids
    <3>. QED BY <2>0, Zenon DEF IsAsk
  <2>2. CASE toServer' = toServer
    BY <1>2, <2>2
  <2>3. CASE toServer' = Append(toServer, t)
    BY <1>2, <2>1, <2>3, Appended DEF Stages, TypeOK
  <2>. QED BY <1>3, <2>0, <2>2, <2>3 DEF Request
<1>. QED BY <1>1, <1>2, <1>4 DEF AskStage, ServeStage, AnswerStage, ReaderStage, PostedStage, Serving, Answering

LEMMA MainWaits ==
  ASSUME Stages, SemWait
  PROVE  (AskStage /\ ServeStage /\ AnswerStage /\ ReaderStage /\ PostedStage)'
<1>1. /\ \A i \in DOMAIN toServer : ~IsAsk(toServer[i])
      /\ ~Serving /\ ~Answering /\ readerPc = "recv" /\ rwsem' = 0
  <2>1. rwsem > 0 /\ rwsem' = rwsem - 1
    BY DEF SemWait
  <2>2. rwsem # 0 /\ rwsem = 1
    BY <2>1 DEF Stages, PostedStage, TypeOK
  <2>. QED BY <2>1, <2>2 DEF Stages, AskStage, ServeStage, AnswerStage, Answering, ReaderStage
<1>2. UNCHANGED <<toServer, toClient, serverPc, readerPc>>
  BY Zenon DEF SemWait, MainElse, readerVars, serverVars
<1>. QED BY <1>1, <1>2 DEF AskStage, ServeStage, AnswerStage, ReaderStage, PostedStage, Serving, Answering

LEMMA MainStages ==
  ASSUME Stages, Main \/ User
  PROVE  Stages'
BY MainType, MainQuiet, MainVerdict, MainAsks, MainTells, MainWaits DEF Stages, Main, User

\* The reader takes the one answer, or something else.
LEMMA ReaderReads ==
  ASSUME Stages, ReadText
  PROVE  Stages'
<1>0. toClient \in Seq(Texts) /\ toClient # <<>>
  BY DEF Stages, TypeOK, ReadText, ReadsOne
<1>1. PICK t \in Texts : t = Head(toClient) /\ t = toClient[1] /\ 1 \in DOMAIN toClient
  BY <1>0, Taken
<1>2. /\ UNCHANGED <<mainPc, rwsem, isLoginSuccess, currentUser, serverPc, toServer, verdict, entered>>
      /\ readerPc = "recv" /\ readerPc' = CaseOf(t.msgid) /\ text' = t
      /\ toClient' = Tail(toClient)
  BY <1>1, Zenon DEF ReadText, Take, ReaderElse, sharedVars, serverVars
<1>3. \A i \in DOMAIN toClient' : i + 1 \in DOMAIN toClient /\ toClient'[i] = toClient[i + 1]
  BY <1>0, <1>2, Taken
<1>4. CASE IsAnswer(t)
  <2>1. /\ \A k \in DOMAIN toClient : IsAnswer(toClient[k]) => k = 1
        /\ rwsem = 0 /\ Answering
        /\ Expects(t.msgid = MsgId.LOGIN_MSG_ACK)
        /\ t.msgid = MsgId.LOGIN_MSG_ACK => Says(t)
    BY <1>1, <1>4 DEF Stages, AnswerStage, Answering
  <2>2. \A i \in DOMAIN toClient' : ~IsAnswer(toClient'[i])
    <3>. \A i \in DOMAIN toClient' : i \in Nat /\ i # 0
      BY <1>0, <1>2, Taken
    <3>. QED BY <1>3, <2>1
  <2>3. ~Serving /\ \A i \in DOMAIN toServer : ~IsAsk(toServer[i])
    BY <2>1 DEF Stages, AskStage, ServeStage
  <2>4. ReaderStage'
    BY <1>2, <2>1, Ids DEF ReaderStage, CaseOf, Expects, Says, Waits
  <2>5. (AskStage /\ ServeStage /\ AnswerStage /\ PostedStage)'
    BY <1>2, <2>1, <2>2, <2>3 DEF AskStage, ServeStage, AnswerStage, PostedStage, Serving
  <2>6. readerPc' # "post"
    BY <1>2 DEF CaseOf
  <2>7. VerdictStage'
    BY <1>2, <2>6 DEF Stages, VerdictStage, Settled
  <2>. QED BY <2>4, <2>5, <2>7, ReaderType DEF Stages, Reader
<1>5. CASE ~IsAnswer(t)
  <2>1. readerPc' = "recv"
    BY <1>2, <1>5 DEF CaseOf, IsAnswer
  <2>2. AnswerStage'
    BY <1>2, <1>3, <2>1 DEF Stages, AnswerStage, Expects, Says
  <2>3. ~Answering => ~Answering'
    BY <1>3 DEF Answering
  <2>. QED
    BY <1>2, <2>1, <2>2, <2>3, ReaderType
    DEF Stages, AskStage, ServeStage, ReaderStage, PostedStage, VerdictStage, Settled, Serving, Expects, Reader
<1>. QED BY <1>4, <1>5

LEMMA ReaderEnds ==
  ASSUME Stages, ReadBroken \/ ReadEnd
  PROVE  Stages'
<1>1. (AskStage /\ ServeStage /\ AnswerStage /\ ReaderStage /\ PostedStage)'
  BY ClientEnds, Zenon DEF ReadBroken, ReadEnd, ReaderElse, sharedVars, readerVars, serverVars
<1>2. VerdictStage'
  BY DEF ReadBroken, ReadEnd, VerdictStage
<1>. QED BY <1>1, <1>2, ReaderType DEF Stages, Reader

\* The reader is at an answer: no other stage.
LEMMA ReaderAlone ==
  ASSUME Stages, readerPc # "recv"
  PROVE  /\ \A i \in DOMAIN toServer : ~IsAsk(toServer[i])
         /\ ~Serving /\ ~Answering /\ rwsem = 0
BY DEF Stages, AskStage, ServeStage, AnswerStage, Answering, ReaderStage

LEMMA ReaderHandles ==
  ASSUME Stages, DoLoginResponse \/ DoRegResponse \/ SemPost
  PROVE  Stages'
<1>1. /\ \A i \in DOMAIN toServer : ~IsAsk(toServer[i])
      /\ ~Serving /\ ~Answering /\ rwsem = 0
  BY ReaderAlone DEF DoLoginResponse, DoRegResponse, SemPost
<1>2. UNCHANGED <<mainPc, toServer, toClient, serverPc, verdict, entered, text>>
  BY Zenon DEF DoLoginResponse, DoRegResponse, SemPost, ReaderElse, sharedVars, serverVars
<1>3. (AskStage /\ ServeStage /\ AnswerStage)'
  BY <1>1, <1>2 DEF AskStage, ServeStage, AnswerStage, Serving, Answering
<1>4. (ReaderStage /\ PostedStage)'
  <2>1. mainPc \in Waits \cup {"ended"}
    BY DEF Stages, ReaderStage, DoLoginResponse, DoRegResponse, SemPost
  <2>2. CASE SemPost
    <3>. rwsem' = 1 /\ readerPc' = "recv"
      BY <1>1, <2>2 DEF SemPost
    <3>. QED BY <1>2, <2>1 DEF ReaderStage, PostedStage
  <2>3. CASE DoLoginResponse \/ DoRegResponse
    <3>. rwsem' = 0 /\ readerPc' = "post"
      BY <1>1, <2>3 DEF DoLoginResponse, DoRegResponse, sharedVars
    <3>. QED BY <1>2, <2>1 DEF ReaderStage, PostedStage
  <2>. QED BY <2>2, <2>3
<1>5. VerdictStage'
  <2>1. CASE DoLoginResponse
    <3>1. mainPc \in {"waitLogin", "ended"} /\ Says(text)
      BY <2>1 DEF Stages, ReaderStage, DoLoginResponse, Expects
    <3>2. Settled'
      BY <1>2, <2>1, <3>1, TextsTyped, ClientAssumption DEF Stages, TypeOK, Settled, Says, DoLoginResponse
    <3>. QED BY <1>2, <3>1, <3>2 DEF VerdictStage
  <2>2. CASE DoRegResponse
    <3>1. mainPc \in {"waitReg", "ended"}
      BY <2>2 DEF Stages, ReaderStage, DoRegResponse, Expects
    <3>. QED BY <1>2, <2>2, <3>1 DEF Stages, VerdictStage
  <2>3. CASE SemPost
    <3>1. mainPc \in Waits \cup {"ended"}
      BY <2>3 DEF Stages, ReaderStage, SemPost
    <3>. QED BY <1>2, <2>3, <3>1 DEF Stages, VerdictStage, Settled, SemPost, Waits
  <2>. QED BY <2>1, <2>2, <2>3
<1>. QED BY <1>3, <1>4, <1>5, ReaderType DEF Stages, Reader

LEMMA ReaderStages ==
  ASSUME Stages, Reader
  PROVE  Stages'
BY ReaderReads, ReaderEnds, ReaderHandles DEF Reader

\* The server takes the one request that asks, or another.
LEMMA ServerReads ==
  ASSUME Stages, OnMessage
  PROVE  Stages'
<1>0. toServer \in Seq(Texts) /\ toServer # <<>>
  BY DEF Stages, TypeOK, OnMessage, ReadsOne
<1>1. PICK t \in Texts : t = Head(toServer) /\ t = toServer[1] /\ 1 \in DOMAIN toServer
  BY <1>0, Taken
<1>2. /\ UNCHANGED <<mainPc, rwsem, isLoginSuccess, currentUser, readerPc, text, toClient, verdict, entered>>
      /\ serverPc = "idle" /\ serverPc' = HandlerOf(t.msgid)
      /\ toServer' = Tail(toServer)
  BY <1>1, Zenon DEF OnMessage, ServerElse, sharedVars, readerVars
<1>3. \A i \in DOMAIN toServer' : i + 1 \in DOMAIN toServer /\ toServer'[i] = toServer[i + 1]
  BY <1>0, <1>2, Taken
<1>4. (AnswerStage /\ ReaderStage /\ PostedStage /\ VerdictStage)'
  BY <1>2 DEF Stages, AnswerStage, ReaderStage, PostedStage, VerdictStage, Settled, Expects, Says
<1>5. CASE IsAsk(t)
  <2>1. /\ 1 = Len(toServer) /\ ~Answering /\ readerPc = "recv" /\ rwsem = 0
        /\ Expects(t.msgid = MsgId.LOGIN_MSG)
        /\ t.msgid = MsgId.LOGIN_MSG => verdict = None
    BY <1>1, <1>5 DEF Stages, AskStage
  <2>2. DOMAIN toServer' = {}
    BY <1>0, <1>2, <2>1, Taken
  <2>3. ServeStage'
    BY <1>2, <2>1, Ids DEF ServeStage, Serving, Answering, HandlerOf, Expects
  <2>. QED BY <1>4, <2>2, <2>3, ServerType DEF Stages, AskStage, Server
<1>6. CASE ~IsAsk(t)
  <2>1. serverPc' = "idle"
    BY <1>2, <1>6 DEF HandlerOf, IsAsk
  <2>2. \A i \in DOMAIN toServer' : i + 1 = Len(toServer) => i = Len(toServer')
    BY <1>0, <1>2, Taken
  <2>3. AskStage'
    BY <1>2, <1>3, <2>1, <2>2 DEF Stages, AskStage, Serving, Answering, Expects
  <2>. QED BY <1>4, <2>1, <2>3, ServerType DEF Stages, ServeStage, Serving, Server
<1>. QED BY <1>5, <1>6

LEMMA ServerMoves ==
  ASSUME Stages, OnBrokenMessage \/ AcceptLogin \/ ServerEnds
  PROVE  Stages'
<1>1. /\ UNCHANGED <<mainPc, rwsem, isLoginSuccess, currentUser, readerPc, text>>
      /\ UNCHANGED <<toServer, toClient, verdict, entered>>
      /\ serverPc' = "down" \/ (serverPc = "login" /\ serverPc' = "loginOk")
  BY DEF OnBrokenMessage, AcceptLogin, ServerEnds, ServerElse, sharedVars, readerVars
<1>2. Serving' => Serving /\ serverPc # "reg" /\ serverPc' # "reg"
  BY <1>1 DEF Serving
<1>3. (AskStage /\ ServeStage)'
  BY <1>1, <1>2 DEF Stages, AskStage, ServeStage, Answering, Expects
<1>4. (AnswerStage /\ ReaderStage /\ PostedStage /\ VerdictStage)'
  BY <1>1 DEF Stages, AnswerStage, ReaderStage, PostedStage, VerdictStage, Settled, Expects, Says
<1>. QED BY <1>3, <1>4, ServerType DEF Stages, Server

\* The handler's answer is the only one in the stream.
LEMMA ServerAnswers ==
  ASSUME Stages, RefuseLogin \/ AnswerLogin \/ AnswerReg
  PROVE  Stages'
<1>1. /\ UNCHANGED <<mainPc, rwsem, isLoginSuccess, currentUser, readerPc, text, toServer, entered>>
      /\ serverPc' = "idle" /\ Serving
  BY DEF RefuseLogin, AnswerLogin, AnswerReg, ServerElse, sharedVars, readerVars, Serving
<1>2. ~Answering /\ readerPc = "recv" /\ rwsem = 0 /\ Expects(serverPc # "reg")
  BY <1>1 DEF Stages, ServeStage
<1>3. PICK t \in Texts :
        /\ toClient' = Append(toClient, t)
        /\ \/ serverPc # "reg" /\ t.msgid = 2 /\ Says(t)'
           \/ serverPc = "reg" /\ t.msgid = 3 /\ verdict' = verdict
  <2>1. CASE RefuseLogin
    <3>. PICK t \in Texts : t = Text(2, None, FALSE) /\ t.msgid = 2 /\ t.user = None
      BY PlainText
    <3>. QED BY <2>1, Ids DEF RefuseLogin, Write, Says
  <2>2. CASE AnswerLogin
    <3>. PICK u \in Users, long \in BOOLEAN :
                Write(Text(MsgId.LOGIN_MSG_ACK, u, long)) /\ verdict' = u
      BY <2>2 DEF AnswerLogin
    <3>. PICK t \in Texts : t = Text(2, u, long) /\ t.msgid = 2 /\ t.user = u
      BY TextType
    <3>. QED BY <2>2, Ids, ClientAssumption DEF AnswerLogin, Write, Says
  <2>3. CASE AnswerReg
    <3>. PICK t \in Texts : t = Text(3, None, FALSE) /\ t.msgid = 3
      BY PlainText
    <3>. QED BY <2>3, Ids DEF AnswerReg, Write
  <2>. QED BY <2>1, <2>2, <2>3
<1>4. \A i \in DOMAIN toClient' : IsAnswer(toClient'[i]) =>
        i = Len(toClient) + 1 /\ toClient'[i] = t
  BY <1>2, <1>3, Appended DEF Answering, Stages, TypeOK
<1>5. AnswerStage'
  BY <1>1, <1>2, <1>3, <1>4, Ids DEF AnswerStage, Expects
<1>6. \A i \in DOMAIN toServer : ~IsAsk(toServer[i])
  BY <1>1 DEF Stages, AskStage
<1>7. (AskStage /\ ServeStage /\ ReaderStage /\ PostedStage)'
  BY <1>1, <1>2, <1>6 DEF AskStage, ServeStage, ReaderStage, PostedStage, Serving
<1>8. VerdictStage'
  BY <1>1, <1>2, <1>3 DEF Stages, VerdictStage, Settled, Expects
<1>. QED BY <1>5, <1>7, <1>8, ServerType DEF Stages, Server

LEMMA ServerForwards ==
  ASSUME Stages, Forward
  PROVE  Stages'
<1>1. /\ UNCHANGED <<mainPc, rwsem, isLoginSuccess, currentUser, readerPc, text>>
      /\ UNCHANGED <<toServer, serverPc, verdict, entered>>
  BY Zenon DEF Forward, ServerElse, sharedVars, readerVars, serverVars
<1>2. PICK kind \in CommandIds, long \in BOOLEAN : Write(Text(MsgId[kind], None, long))
  BY DEF Forward, CommandIds
<1>3. PICK t \in Texts : t = Text(MsgId[kind], None, long) /\ t.msgid = MsgId[kind]
  BY CommandNumbers, TextType
<1>4. ~IsAnswer(t)
  <2>. MsgId[kind] # MsgId.LOGIN_MSG_ACK /\ MsgId[kind] # MsgId.REG_MSG_ACK
    BY CommandNumbers, Ids
  <2>. QED BY <1>3, Zenon DEF IsAnswer
<1>5. \A i \in DOMAIN toClient' : IsAnswer(toClient'[i]) =>
        i \in DOMAIN toClient /\ toClient'[i] = toClient[i]
  BY <1>2, <1>3, <1>4, Appended DEF Write, Stages, TypeOK
<1>6. ~Answering => ~Answering'
  BY <1>5 DEF Answering
<1>7. AnswerStage'
  BY <1>1, <1>5 DEF Stages, AnswerStage, Expects, Says
<1>. QED
  BY <1>1, <1>6, <1>7, ServerType
  DEF Stages, AskStage, ServeStage, ReaderStage, PostedStage, VerdictStage, Settled, Serving, Expects, Says

LEMMA StagesUnchanged ==
  ASSUME Stages, UNCHANGED vars
  PROVE  Stages'
<1>1. /\ UNCHANGED <<mainPc, rwsem, isLoginSuccess, currentUser, readerPc, text, handled>>
      /\ UNCHANGED <<serverPc, served, toServer, toClient, verdict, entered, requests, written>>
  BY DEF vars, sharedVars, readerVars, serverVars
<1>2. TypeOK'
  BY <1>1 DEF Stages, TypeOK
<1>. QED
  BY <1>1, <1>2
  DEF Stages, AskStage, ServeStage, AnswerStage, ReaderStage, PostedStage, VerdictStage, Settled,
      Serving, Answering, Expects, Says

\* The inductive invariant: at most one stage, and the main thread waits for it.
THEOREM StagesCorrect == Spec => []Stages
<1>1. Init => Stages
  <2>. HAVE Init
  <2>0. NoText \in Texts
    <3>. PICK t \in Texts : t = Text(0, None, FALSE)
      BY PlainText
    <3>. QED BY Zenon DEF NoText
  <2>1. <<>> \in Seq(Texts)
    OBVIOUS
  <2>2. TypeOK
    BY <2>0, <2>1 DEF Init, TypeOK
  <2>. QED
    BY <2>2
    DEF Init, Stages, AskStage, ServeStage, AnswerStage, ReaderStage, PostedStage, VerdictStage, Serving
<1>2. Stages /\ [Next]_vars => Stages'
  BY MainStages, ReaderStages, ServerReads, ServerMoves, ServerAnswers, ServerForwards, StagesUnchanged
  DEF Next, Server
<1>. QED BY <1>1, <1>2, PTL DEF Spec

(***************************************************************************)
(* Every variable keeps its type, for any users and any bounds.            *)
(***************************************************************************)
THEOREM ClientTypes == Spec => []TypeOK
BY StagesCorrect, PTL DEF Stages

(***************************************************************************)
(* rwsem is posted exactly for the waits of the main thread (client        *)
(* main.cpp:121, 151, 351, 355), for any number of requests.               *)
(***************************************************************************)
THEOREM PostsMatchWaits == Spec => []OnePostPerWait
<1>1. Stages => OnePostPerWait
  <2>. SUFFICES ASSUME Stages, Alive PROVE OnePostPerWait
    BY DEF OnePostPerWait
  <2>1. CASE readerPc = "post"
    BY <2>1 DEF Stages, ReaderStage, OnePostPerWait, Alive
  <2>2. CASE readerPc # "post" /\ rwsem # 0
    BY <2>2 DEF Stages, PostedStage, OnePostPerWait, Alive
  <2>3. CASE readerPc # "post" /\ rwsem = 0
    BY <2>3 DEF OnePostPerWait
  <2>. QED BY <2>1, <2>2, <2>3
<1>. QED BY <1>1, StagesCorrect, PTL

(***************************************************************************)
(* The reader thread is at the globals of the client only while the main   *)
(* thread waits for that very answer (client main.cpp:350, 354).           *)
(***************************************************************************)
THEOREM ReaderExpected == Spec => []ReaderIsExpected
<1>1. Stages => ReaderIsExpected
  BY DEF Stages, ReaderStage, ReaderIsExpected, Alive, Expects
<1>. QED BY <1>1, StagesCorrect, PTL

-----------------------------------------------------------------------------
(***************************************************************************)
(* Streams.                                                                *)
(***************************************************************************)
LEMMA AppendBehind ==
  ASSUME NEW S, NEW a \in Seq(S), NEW b \in Seq(S), NEW t \in S
  PROVE  a \o Append(b, t) = Append(a \o b, t)
<1>1. Append(b, t) \in Seq(S) /\ a \o b \in Seq(S) /\ Append(a \o b, t) \in Seq(S)
      /\ a \o Append(b, t) \in Seq(S)
  BY ConcatProperties, Appended
<1>2. /\ Len(a \o Append(b, t)) = Len(a) + Len(b) + 1
      /\ Len(Append(a \o b, t)) = Len(a) + Len(b) + 1
  BY <1>1, ConcatProperties, Appended, LenProperties
<1>3. \A i \in 1 .. Len(a \o Append(b, t)) : (a \o Append(b, t))[i] = Append(a \o b, t)[i]
  <2>. TAKE i \in 1 .. Len(a \o Append(b, t))
  <2>1. CASE i <= Len(a) + Len(b)
    <3>. (a \o Append(b, t))[i] = (a \o b)[i]
      BY <1>1, <1>2, <2>1, ConcatProperties, LenProperties
    <3>. QED BY <1>1, <1>2, <2>1, ConcatProperties, LenProperties
  <2>2. CASE i = Len(a) + Len(b) + 1
    BY <1>1, <1>2, <2>2, ConcatProperties, LenProperties
  <2>. QED BY <1>2, <2>1, <2>2, LenProperties
<1>. QED BY <1>1, <1>2, <1>3, SeqEqual

LEMMA MoveOver ==
  ASSUME NEW S, NEW a \in Seq(S), NEW b \in Seq(S), b # <<>>
  PROVE  Append(a, Head(b)) \o Tail(b) = a \o b
<1>1. Head(b) \in S /\ Head(b) = b[1] /\ Tail(b) \in Seq(S) /\ Len(Tail(b)) = Len(b) - 1
      /\ \A i \in 1 .. Len(Tail(b)) : Tail(b)[i] = b[i + 1]
  BY HeadTailProperties
<1>2. Append(a, Head(b)) \in Seq(S) /\ Append(a, Head(b)) \o Tail(b) \in Seq(S) /\ a \o b \in Seq(S)
  BY <1>1, ConcatProperties, Appended
<1>3. Len(Append(a, Head(b)) \o Tail(b)) = Len(a \o b)
  BY <1>1, <1>2, ConcatProperties, Appended, LenProperties
<1>4. \A i \in 1 .. Len(a \o b) : (Append(a, Head(b)) \o Tail(b))[i] = (a \o b)[i]
  <2>. TAKE i \in 1 .. Len(a \o b)
  <2>1. CASE i <= Len(a)
    BY <1>1, <1>2, <1>3, <2>1, ConcatProperties, LenProperties
  <2>2. CASE i = Len(a) + 1
    BY <1>1, <1>2, <1>3, <2>2, ConcatProperties, LenProperties
  <2>3. CASE i > Len(a) + 1
    BY <1>1, <1>2, <1>3, <2>3, ConcatProperties, LenProperties
  <2>. QED BY <2>1, <2>2, <2>3, LenProperties, ConcatProperties
<1>. QED BY <1>2, <1>3, <1>4, SeqEqual

Streams == handled \o toClient = written /\ served \o toServer = requests

LEMMA RequestStreams ==
  ASSUME TypeOK, Streams, NEW m \in Nat, Request(m)
  PROVE  served \o toServer' = requests'
<1>1. PICK t \in Texts : t = Text(m, None, FALSE)
  BY PlainText
<1>2. served \o Append(toServer, t) = Append(served \o toServer, t)
  BY AppendBehind DEF TypeOK
<1>. QED BY <1>1, <1>2 DEF Request, Streams

LEMMA WriteStreams ==
  ASSUME TypeOK, Streams, NEW t \in Texts, Write(t)
  PROVE  handled \o toClient' = written'
<1>. handled \o Append(toClient, t) = Append(handled \o toClient, t)
  BY AppendBehind DEF TypeOK
<1>. QED BY DEF Write, Streams

LEMMA MainStreams ==
  ASSUME TypeOK, Streams, Main \/ User
  PROVE  Streams'
<1>1. UNCHANGED <<handled, toClient, written, served>>
  BY DEF Main, User, BeginLogin, SendLogin, SendReg, SemWait, Decide, SendCommand, SendLoginout,
         Leave, End, MainElse, readerVars, serverVars
<1>2. CASE BeginLogin \/ SemWait \/ Decide \/ Leave \/ End
  BY <1>1, <1>2 DEF Streams, BeginLogin, SemWait, Decide, Leave, End
<1>3. CASE SendLogin \/ SendReg \/ SendLoginout \/ \E command \in Commands : SendCommand(command)
  <2>. PICK m \in Nat : Request(m)
    BY <1>3, Ids, CommandNumbers, ClientAssumption DEF SendLogin, SendReg, SendLoginout, SendCommand
  <2>. QED BY <1>1, RequestStreams DEF Streams
<1>. QED BY <1>2, <1>3 DEF Main, User

LEMMA ReaderStreams ==
  ASSUME TypeOK, Streams, Reader
  PROVE  Streams'
<1>1. UNCHANGED <<toServer, requests, served, written>>
  BY DEF Reader, ReadText, ReadBroken, ReadEnd, DoLoginResponse, DoRegResponse, SemPost, ReaderElse,
         serverVars
<1>2. CASE ReadText
  <2>. toClient # <<>> /\ handled' = Append(handled, Head(toClient)) /\ toClient' = Tail(toClient)
    BY <1>2 DEF ReadText, ReadsOne, Take
  <2>. handled' \o toClient' = handled \o toClient
    BY MoveOver DEF TypeOK
  <2>. QED BY <1>1 DEF Streams
<1>3. CASE ~ReadText
  BY <1>1, <1>3 DEF Reader, Streams, ReadBroken, ReadEnd, DoLoginResponse, DoRegResponse, SemPost, readerVars
<1>. QED BY <1>2, <1>3

LEMMA ServerStreams ==
  ASSUME TypeOK, Streams, Server \/ Forward \/ ServerEnds
  PROVE  Streams'
<1>1. UNCHANGED <<requests, handled>>
  BY DEF Server, OnMessage, OnBrokenMessage, RefuseLogin, AcceptLogin, AnswerLogin, AnswerReg, Forward,
         ServerEnds, ServerElse, readerVars
<1>2. CASE OnMessage
  <2>. toServer # <<>> /\ served' = Append(served, Head(toServer)) /\ toServer' = Tail(toServer)
    BY <1>2 DEF OnMessage, ReadsOne
  <2>. served' \o toServer' = served \o toServer
    BY MoveOver DEF TypeOK
  <2>. QED BY <1>1, <1>2 DEF Streams, OnMessage
<1>3. CASE OnBrokenMessage \/ AcceptLogin \/ ServerEnds
  BY <1>1, <1>3 DEF Streams, OnBrokenMessage, AcceptLogin, ServerEnds
<1>4. CASE RefuseLogin \/ AnswerLogin \/ AnswerReg \/ Forward
  <2>1. PICK t \in Texts : Write(t)
    <3>1. CASE RefuseLogin \/ AnswerReg
      BY <3>1, PlainText, Ids DEF RefuseLogin, AnswerReg
    <3>2. CASE AnswerLogin
      BY <3>2, TextType, Ids DEF AnswerLogin
    <3>3. CASE Forward
      <4>1. PICK kind \in CommandIds, long \in BOOLEAN : Write(Text(MsgId[kind], None, long))
        BY <3>3 DEF Forward, CommandIds
      <4>2. PICK t \in Texts : t = Text(MsgId[kind], None, long)
        BY CommandNumbers, TextType
      <4>. QED BY <4>1, <4>2
    <3>. QED BY <1>4, <3>1, <3>2, <3>3
  <2>2. UNCHANGED <<served, toServer>>
    BY <1>4 DEF RefuseLogin, AnswerLogin, AnswerReg, Forward, serverVars
  <2>. QED BY <1>1, <2>1, <2>2, WriteStreams DEF Streams
<1>. QED BY <1>2, <1>3, <1>4 DEF Server

(***************************************************************************)
(* Whatever the network joins or splits, and however long texts are: no    *)
(* text is handled twice, in another order or not at all before a later    *)
(* one (client main.cpp:326-333, chatserver.cpp:40-41).                    *)
(***************************************************************************)
THEOREM TextsInOrder == Spec => []NothingSkipped
<1>1. Init => Streams
  BY ConcatEmptySeq DEF Init, Streams
<1>2. TypeOK /\ Streams /\ [Next]_vars => Streams'
  BY MainStreams, ReaderStreams, ServerStreams DEF Next, Streams, vars, readerVars, serverVars
<1>3. Streams => NothingSkipped
  BY DEF Streams, NothingSkipped
<1>. QED BY <1>1, <1>2, <1>3, ClientTypes, PTL DEF Spec

-----------------------------------------------------------------------------
(***************************************************************************)
(* Every step of the client is a step of Terminal or none.                 *)
(***************************************************************************)
LEMMA MainTerminal ==
  ASSUME Stages, Main \/ User
  PROVE  T!Next \/ UNCHANGED <<At, Who, verdict>>
<1>1. CASE BeginLogin
  BY <1>1 DEF BeginLogin, At, Who, T!Next, T!LogIn
<1>2. CASE SendLogin
  BY <1>2 DEF SendLogin, At, Who, sharedVars
<1>3. CASE SendReg
  BY <1>3 DEF SendReg, At, Who, sharedVars, T!Next, T!Register
<1>4. CASE SemWait
  BY <1>4 DEF SemWait, At, Who, Waits, T!Next, T!Registered
<1>5. CASE Decide
  <2>1. Settled /\ mainPc = "decide"
    BY <1>5 DEF Stages, VerdictStage, Decide
  <2>2. CASE isLoginSuccess
    <3>. At = "login" /\ At' = "chat" /\ verdict \in Users /\ Who' = verdict /\ verdict' = None
      BY <1>5, <2>1, <2>2 DEF Decide, Settled, At, Who, sharedVars
    <3>. QED BY DEF T!Next, T!Enter
  <2>3. CASE ~isLoginSuccess
    <3>. At = "login" /\ At' = "menu" /\ verdict = "refused" /\ Who' = Who /\ verdict' = None
      BY <1>5, <2>1, <2>3 DEF Decide, Settled, At, Who, sharedVars, Stages, TypeOK
    <3>. QED BY DEF T!Next, T!Refused
  <2>. QED BY <2>2, <2>3
<1>6. CASE \E command \in Commands : SendCommand(command)
  BY <1>6 DEF SendCommand, At, Who, sharedVars
<1>7. CASE SendLoginout
  BY <1>7 DEF SendLoginout, At, Who, sharedVars, Stages, VerdictStage, T!Next, T!LogOut
<1>8. CASE Leave
  BY <1>8 DEF Leave, At, Who, sharedVars, T!Next, T!Go
<1>9. CASE End
  BY <1>9 DEF End, Alive, At, Who, sharedVars, Stages, VerdictStage, T!Next, T!Go
<1>. QED BY <1>1, <1>2, <1>3, <1>4, <1>5, <1>6, <1>7, <1>8, <1>9 DEF Main, User

LEMMA ReaderTerminal ==
  ASSUME Stages, Reader
  PROVE  T!Next \/ UNCHANGED <<At, Who, verdict>>
<1>1. CASE ReadText \/ DoRegResponse \/ SemPost
  BY <1>1 DEF ReadText, DoRegResponse, SemPost, ReaderElse, At, Who, sharedVars
<1>2. CASE ReadBroken \/ ReadEnd
  BY <1>2 DEF ReadBroken, ReadEnd, ReaderElse, Alive, At, Who, sharedVars, Stages, VerdictStage, T!Next, T!Go
<1>3. CASE DoLoginResponse
  <2>. mainPc # "chat"
    BY <1>3 DEF Stages, ReaderStage, DoLoginResponse, Expects
  <2>. QED BY <1>3 DEF DoLoginResponse, ReaderElse, At, Who
<1>. QED BY <1>1, <1>2, <1>3 DEF Reader

LEMMA ServerTerminal ==
  ASSUME Stages, Server \/ Forward \/ ServerEnds
  PROVE  T!Next \/ UNCHANGED <<At, Who, verdict>>
<1>1. UNCHANGED <<At, Who>>
  BY DEF Server, OnMessage, OnBrokenMessage, RefuseLogin, AcceptLogin, AnswerLogin, AnswerReg, Forward,
         ServerEnds, ServerElse, sharedVars, At, Who
<1>2. CASE RefuseLogin \/ AnswerLogin
  <2>1. mainPc \in {"waitLogin", "ended"} /\ verdict = None
    BY <1>2 DEF Stages, ServeStage, Serving, RefuseLogin, AnswerLogin, Expects
  <2>2. verdict' \in Users \cup {"refused"}
    BY <1>2 DEF RefuseLogin, AnswerLogin
  <2>3. At \in {"login", "gone"}
    BY <2>1 DEF At
  <2>. QED BY <1>1, <2>1, <2>2, <2>3 DEF T!Next, T!Answer
<1>3. CASE ~(RefuseLogin \/ AnswerLogin)
  BY <1>1, <1>3 DEF Server, OnMessage, OnBrokenMessage, AcceptLogin, AnswerReg, Forward, ServerEnds
<1>. QED BY <1>2, <1>3

(***************************************************************************)
(* The client implements Terminal: sem_wait lets the main thread into the  *)
(* chat exactly if the server accepted the login it waited for, and as the *)
(* user of that answer (client main.cpp:121-125, 173, 260).                *)
(***************************************************************************)
THEOREM TerminalImplemented == Spec => ImplementsTerminal
<1>1. Init => T!Init
  BY DEF Init, At, Who, T!Init
<1>2. Stages /\ [Next]_vars => [T!Next]_<<At, Who, verdict>>
  BY MainTerminal, ReaderTerminal, ServerTerminal DEF Next, vars, sharedVars, At, Who
<1>. QED BY <1>1, <1>2, StagesCorrect, PTL DEF Spec, ImplementsTerminal, T!Spec
==============================================================================
