----------------------------- MODULE ChatClient -----------------------------
(***************************************************************************)
(* One ChatClient process with its two threads, its connection as two      *)
(* streams of texts, and the I/O thread of the server at the other end.    *)
(* The main thread runs the menu and sends requests; the reader thread     *)
(* handles what arrives; after a login or a registration the main thread   *)
(* waits on rwsem until the reader has handled the answer.                 *)
(*                                                                         *)
(* Nothing marks where a text ends.  The server parses all that is in its  *)
(* buffer (chatserver.cpp:40) and the client what one recv of at most 1024 *)
(* bytes returned (client main.cpp:325), as one JSON text.  json::parse    *)
(* succeeds only on exactly one complete text, so what a read may be is    *)
(* the next text alone, or something that throws.                          *)
(***************************************************************************)
EXTENDS Naturals, Sequences

CONSTANTS
  Users,        \* account ids
  Commands,     \* the commands typed, of CommandIds
  Split,        \* TRUE: the network may deliver a text in parts
  MaxRequests,  \* bound: requests sent
  MaxLetters,   \* bound: messages of others forwarded to the client
  None          \* no account

CommandIds == {"ONE_CHAT_MSG", "ADD_FRIEND_MSG", "CREATE_GROUP_MSG", "ADD_GROUP_MSG",
               "GROUP_CHAT_MSG"}

ASSUME ClientAssumption ==
  /\ Commands \subseteq CommandIds
  /\ Split \in BOOLEAN
  /\ MaxRequests \in Nat /\ MaxLetters \in Nat
  /\ None \notin Users /\ "refused" \notin Users \cup {None}

\* EnMsgType.  LOGIN_MSG_ACK and REG_MSG have the same value.
MsgId == [LOGIN_MSG |-> 1, LOGIN_MSG_ACK |-> 2, REG_MSG |-> 2, REG_MSG_ACK |-> 3,
          ONE_CHAT_MSG |-> 5, ADD_FRIEND_MSG |-> 6, CREATE_GROUP_MSG |-> 7,
          ADD_GROUP_MSG |-> 8, GROUP_CHAT_MSG |-> 9, LOGINOUT_MSG |-> 10]

VARIABLES
  mainPc,         \* the main thread
  readerPc,       \* the reader thread
  text,           \* js of the reader thread
  rwsem,          \* the semaphore
  isLoginSuccess,
  currentUser,    \* g_currentUser
  toServer,       \* texts sent to the server and not read
  toClient,       \* texts sent to the client and not read
  serverPc,       \* the I/O thread of the connection, or "down": the process ended
  verdict,        \* history: the server's answer to the login in progress
  entered,        \* history: the user of the latest chat
  requests,       \* history: all texts sent to the server,
  served,         \*   and those it has handled
  written,        \* history: all texts sent to the client,
  handled         \*   and those its reader has handled

sharedVars == <<rwsem, isLoginSuccess, currentUser>>
readerVars == <<readerPc, text, handled>>
serverVars == <<serverPc, served>>
vars == <<mainPc, sharedVars, readerVars, serverVars, toServer, toClient,
          verdict, entered, requests, written>>

\* user is that of an accepted login; long: more than 1024 bytes.
Text(msgid, user, long) == [msgid |-> msgid, user |-> user, long |-> long]
Texts == [msgid : Nat, user : Users \cup {None}, long : BOOLEAN]
NoText == Text(0, None, FALSE)

Waits == {"waitLogin", "waitReg"}

TypeOK ==
  /\ mainPc \in {"menu", "sendLogin", "decide", "chat", "leaving", "ended"} \cup Waits
  /\ readerPc \in {"recv", "loginAck", "regAck", "post"}
  /\ text \in Texts
  /\ rwsem \in Nat
  /\ isLoginSuccess \in BOOLEAN
  /\ currentUser \in Users \cup {None}
  /\ toServer \in Seq(Texts) /\ toClient \in Seq(Texts)
  /\ serverPc \in {"idle", "login", "loginOk", "reg", "down"}
  /\ verdict \in Users \cup {None, "refused"} /\ entered \in Users \cup {None}
  /\ requests \in Seq(Texts) /\ served \in Seq(Texts)
  /\ written \in Seq(Texts) /\ handled \in Seq(Texts)

\* After connect() in main, with the reader thread started.
Init ==
  /\ mainPc = "menu" /\ readerPc = "recv" /\ text = NoText
  /\ rwsem = 0 /\ isLoginSuccess = FALSE /\ currentUser = None
  /\ toServer = <<>> /\ toClient = <<>>
  /\ serverPc = "idle" /\ verdict = None /\ entered = None
  /\ requests = <<>> /\ served = <<>> /\ written = <<>> /\ handled = <<>>

Alive == mainPc # "ended"

-----------------------------------------------------------------------------
(***************************************************************************)
(* Streams.                                                                *)
(***************************************************************************)
\* The next text and nothing else; limited: by the buffer of the client.
ReadsOne(stream, limited) == stream # <<>> /\ ~(limited /\ Head(stream).long)

\* Part of a text, or more than one: what json::parse rejects.
ReadsOther(stream, limited) ==
  \/ Len(stream) > 1
  \/ stream # <<>> /\ (Split \/ (limited /\ Head(stream).long))

\* send() of the client; without a server the text is lost.
Request(msgid) ==
  /\ Len(requests) < MaxRequests
  /\ IF serverPc # "down"
     THEN /\ toServer' = Append(toServer, Text(msgid, None, FALSE))
          /\ requests' = Append(requests, Text(msgid, None, FALSE))
     ELSE UNCHANGED <<toServer, requests>>

\* TcpConnection::send.
Write(t) ==
  /\ toClient' = Append(toClient, t)
  /\ written' = Append(written, t)

-----------------------------------------------------------------------------
(***************************************************************************)
(* The main thread: the menu of main, mainMenu and its commands.           *)
(***************************************************************************)
MainElse == UNCHANGED <<readerVars, serverVars, toClient, written>>

BeginLogin ==
  /\ mainPc = "menu" /\ Len(requests) < MaxRequests
  /\ mainPc' = "sendLogin"
  /\ isLoginSuccess' = FALSE
  /\ UNCHANGED <<rwsem, currentUser, toServer, verdict, entered, requests>> /\ MainElse

SendLogin ==
  /\ mainPc = "sendLogin"
  /\ Request(MsgId.LOGIN_MSG)
  /\ mainPc' = "waitLogin"
  /\ UNCHANGED <<sharedVars, verdict, entered>> /\ MainElse

SendReg ==
  /\ mainPc = "menu"
  /\ Request(MsgId.REG_MSG)
  /\ mainPc' = "waitReg"
  /\ UNCHANGED <<sharedVars, verdict, entered>> /\ MainElse

\* Mutant: a plain counter for the semaphore, taken down without waiting.
CountWait ==
  /\ mainPc \in Waits
  /\ rwsem' = rwsem - 1
  /\ mainPc' = IF mainPc = "waitLogin" THEN "decide" ELSE "menu"
  /\ UNCHANGED <<isLoginSuccess, currentUser, toServer, verdict, entered, requests>> /\ MainElse

SemWait ==
  /\ mainPc \in Waits /\ rwsem > 0
  /\ rwsem' = rwsem - 1
  /\ mainPc' = IF mainPc = "waitLogin" THEN "decide" ELSE "menu"
  /\ UNCHANGED <<isLoginSuccess, currentUser, toServer, verdict, entered, requests>> /\ MainElse

\* The if of line 122.
Decide ==
  /\ mainPc = "decide"
  /\ mainPc' = IF isLoginSuccess THEN "chat" ELSE "menu"
  /\ verdict' = None
  /\ entered' = IF isLoginSuccess THEN currentUser ELSE entered
  /\ UNCHANGED <<sharedVars, toServer, requests>> /\ MainElse

\* chat, addfriend, creategroup, addgroup, groupchat: nothing is waited for.
SendCommand(command) ==
  /\ mainPc = "chat"
  /\ Request(MsgId[command])
  /\ UNCHANGED <<mainPc, sharedVars, verdict, entered>> /\ MainElse

SendLoginout ==
  /\ mainPc = "chat"
  /\ Request(MsgId.LOGINOUT_MSG)
  /\ mainPc' = "menu"
  /\ UNCHANGED <<sharedVars, verdict, entered>> /\ MainElse

\* Choice 3: the socket is closed, the semaphore destroyed; then exit(0).
Leave ==
  /\ mainPc = "menu"
  /\ mainPc' = "leaving"
  /\ UNCHANGED <<sharedVars, toServer, verdict, entered, requests>> /\ MainElse

\* exit(0); or the process is killed.
End ==
  /\ Alive
  /\ mainPc' = "ended"
  /\ UNCHANGED <<sharedVars, toServer, verdict, entered, requests>> /\ MainElse

-----------------------------------------------------------------------------
(***************************************************************************)
(* The reader thread: readTaskHandler.                                     *)
(***************************************************************************)
ReaderElse == UNCHANGED <<serverVars, toServer, verdict, entered, requests, written>>

\* Mutant: no break after GROUP_CHAT_MSG.
CaseOfFallThrough(msgid) ==
  CASE msgid \in {MsgId.LOGIN_MSG_ACK, MsgId.GROUP_CHAT_MSG} -> "loginAck"
    [] msgid = MsgId.REG_MSG_ACK -> "regAck"
    [] OTHER -> "recv"

\* The switch on msgid: messages are only printed.
CaseOf(msgid) ==
  CASE msgid = MsgId.LOGIN_MSG_ACK -> "loginAck"
    [] msgid = MsgId.REG_MSG_ACK -> "regAck"
    [] OTHER -> "recv"

Take(stream, pc) ==
  /\ text' = Head(stream)
  /\ handled' = Append(handled, Head(stream))
  /\ readerPc' = pc

\* close() of the main thread does not end a recv that is under way.  A text
\* without a msgid (main.cpp:335) is skipped; no server sends one.
ReadText ==
  /\ Alive /\ readerPc = "recv" /\ ReadsOne(toClient, TRUE)
  /\ Take(toClient, CaseOf(Head(toClient).msgid))
  /\ toClient' = Tail(toClient)
  /\ UNCHANGED <<mainPc, sharedVars>> /\ ReaderElse

\* Mutant: the first text of what was read is used, the rest dropped.
ReadFirst ==
  /\ Alive /\ readerPc = "recv" /\ ReadsOther(toClient, TRUE)
  /\ Take(toClient, CaseOf(Head(toClient).msgid))
  /\ toClient' = <<>>
  /\ UNCHANGED <<mainPc, sharedVars>> /\ ReaderElse

\* json::parse throws; nobody catches: the process is terminated.
ReadBroken ==
  /\ Alive /\ readerPc = "recv" /\ ReadsOther(toClient, TRUE)
  /\ mainPc' = "ended"
  /\ UNCHANGED <<sharedVars, readerVars, toClient>> /\ ReaderElse

\* recv returns 0 or -1: exit(-1).
ReadEnd ==
  /\ Alive
  /\ readerPc = "recv" /\ (serverPc = "down" \/ mainPc = "leaving")
  /\ mainPc' = "ended"
  /\ UNCHANGED <<sharedVars, readerVars, toClient>> /\ ReaderElse

\* Mutant: g_currentUser is set in main, before the login is sent, and not here.
DoLoginKeepUser ==
  /\ Alive /\ readerPc = "loginAck"
  /\ isLoginSuccess' = (text.user # None)
  /\ readerPc' = "post"
  /\ UNCHANGED <<mainPc, rwsem, currentUser, text, handled, toClient>> /\ ReaderElse

DoLoginResponse ==
  /\ Alive /\ readerPc = "loginAck"
  /\ currentUser' = IF text.user # None THEN text.user ELSE currentUser
  /\ isLoginSuccess' = (text.user # None)
  /\ readerPc' = "post"
  /\ UNCHANGED <<mainPc, rwsem, text, handled, toClient>> /\ ReaderElse

DoRegResponse ==
  /\ Alive /\ readerPc = "regAck"
  /\ readerPc' = "post"
  /\ UNCHANGED <<mainPc, sharedVars, text, handled, toClient>> /\ ReaderElse

\* Mutant: the main thread is woken by a success only.
SemPostSuccess ==
  /\ Alive /\ readerPc = "post"
  /\ rwsem' = IF isLoginSuccess THEN rwsem + 1 ELSE rwsem
  /\ readerPc' = "recv"
  /\ UNCHANGED <<mainPc, isLoginSuccess, currentUser, text, handled, toClient>> /\ ReaderElse

SemPost ==
  /\ Alive /\ readerPc = "post"
  /\ rwsem' = rwsem + 1
  /\ readerPc' = "recv"
  /\ UNCHANGED <<mainPc, isLoginSuccess, currentUser, text, handled, toClient>> /\ ReaderElse

-----------------------------------------------------------------------------
(***************************************************************************)
(* The server: onMessage in the I/O thread of the connection, the answers  *)
(* of login and reg, and messages that any thread forwards.  What the      *)
(* handlers do besides is in ChatService and ChatGroups.                   *)
(***************************************************************************)
ServerElse == UNCHANGED <<mainPc, sharedVars, readerVars, entered, requests>>

\* getMsgHandler: the handlers that answer.
HandlerOf(msgid) ==
  CASE msgid = MsgId.LOGIN_MSG -> "login"
    [] msgid = MsgId.REG_MSG -> "reg"
    [] OTHER -> "idle"

OnMessage ==
  /\ serverPc = "idle" /\ ReadsOne(toServer, FALSE)
  /\ serverPc' = HandlerOf(Head(toServer).msgid)
  /\ served' = Append(served, Head(toServer))
  /\ toServer' = Tail(toServer)
  /\ UNCHANGED <<toClient, verdict, written>> /\ ServerElse

\* json::parse throws in the I/O thread, and muduo aborts the process.
OnBrokenMessage ==
  /\ serverPc = "idle" /\ ReadsOther(toServer, FALSE)
  /\ serverPc' = "down"
  /\ UNCHANGED <<served, toServer, toClient, verdict, written>> /\ ServerElse

RefuseLogin ==
  /\ serverPc = "login"
  /\ Write(Text(MsgId.LOGIN_MSG_ACK, None, FALSE))
  /\ verdict' = "refused"
  /\ serverPc' = "idle"
  /\ UNCHANGED <<served, toServer>> /\ ServerElse

\* From line 80 on messages are sent through the entry, before the answer is.
AcceptLogin ==
  /\ serverPc = "login"
  /\ serverPc' = "loginOk"
  /\ UNCHANGED <<served, toServer, toClient, verdict, written>> /\ ServerElse

AnswerLogin ==
  /\ serverPc = "loginOk"
  /\ \E u \in Users, long \in BOOLEAN :
       /\ Write(Text(MsgId.LOGIN_MSG_ACK, u, long))
       /\ verdict' = u
  /\ serverPc' = "idle"
  /\ UNCHANGED <<served, toServer>> /\ ServerElse

\* Mutant: an error answer is followed by the usual one.
AnswerRegTwice ==
  /\ serverPc = "reg"
  /\ LET t == Text(MsgId.REG_MSG_ACK, None, FALSE) IN
       /\ toClient' = toClient \o <<t, t>>
       /\ written' = written \o <<t, t>>
  /\ serverPc' = "idle"
  /\ UNCHANGED <<served, toServer, verdict>> /\ ServerElse

AnswerReg ==
  /\ serverPc = "reg"
  /\ Write(Text(MsgId.REG_MSG_ACK, None, FALSE))
  /\ serverPc' = "idle"
  /\ UNCHANGED <<served, toServer, verdict>> /\ ServerElse

\* Whether the connection has an entry in the map, or had one until the latest
\* request: what other threads then queued in the loop is still written.
Registered ==
  \/ serverPc = "loginOk"
  \/ LET before == IF served = <<>> THEN <<>> ELSE SubSeq(served, 1, Len(served) - 1)
         Accepts(t) == t.user # None
         Leaves(t) == t.msgid = MsgId.LOGINOUT_MSG IN
     Len(SelectSeq(written, Accepts)) > Len(SelectSeq(before, Leaves))

IsLetter(t) == t.msgid \in {MsgId.ONE_CHAT_MSG, MsgId.GROUP_CHAT_MSG}

Forward ==
  /\ serverPc # "down" /\ Registered
  /\ Len(SelectSeq(written, IsLetter)) < MaxLetters
  /\ \E kind \in {"ONE_CHAT_MSG", "GROUP_CHAT_MSG"}, long \in BOOLEAN :
       Write(Text(MsgId[kind], None, long))
  /\ UNCHANGED <<serverVars, toServer, verdict>> /\ ServerElse

\* The process of the server ends for a reason of its own.
ServerEnds ==
  /\ serverPc # "down"
  /\ serverPc' = "down"
  /\ UNCHANGED <<served, toServer, toClient, verdict, written>> /\ ServerElse

-----------------------------------------------------------------------------
User ==
  \/ BeginLogin \/ SendReg \/ SendLoginout \/ Leave \/ End
  \/ \E command \in Commands : SendCommand(command)

Main == SendLogin \/ SemWait \/ Decide

Reader ==
  \/ ReadText \/ ReadBroken \/ ReadEnd
  \/ DoLoginResponse \/ DoRegResponse \/ SemPost

Server ==
  \/ OnMessage \/ OnBrokenMessage
  \/ RefuseLogin \/ AcceptLogin \/ AnswerLogin \/ AnswerReg

Next == User \/ Main \/ Reader \/ Server \/ Forward \/ ServerEnds

Spec == Init /\ [][Next]_vars

\* Both threads of the client and that of the server run.  Nothing is assumed
\* of the user, of other senders, or of the end of the server.
FairSpec == Spec /\ WF_vars(Main) /\ WF_vars(Reader) /\ WF_vars(Server)
==============================================================================
