--------------------------- MODULE ChatTerminals ---------------------------
(***************************************************************************)
(* The ChatClient processes as the servers meet them: a terminal opens one *)
(* connection, sends one request at a time and reads what the server       *)
(* wrote.  The main thread of the client waits for the answer to a login   *)
(* only; chat and loginout are sent and forgotten, so a request may wait   *)
(* in the socket while the server still works on the one before.  (Two     *)
(* requests that wait together may be read as one, which json::parse       *)
(* rejects: that belongs to the framing, not to this module.)              *)
(***************************************************************************)
EXTENDS ChatConstants, Sequences, FiniteSets

VARIABLES
  clientPc,    \* where the main thread of the client is
  clientUser,  \* g_currentUser
  request,     \* the request in the socket that the server has not read
  toClient,    \* everything the server has written to the connection
  nread,       \* how much of it the client has read
  sent         \* what users have sent, and from where, in order

terminalVars == <<clientPc, clientUser, request, nread, sent>>

NoRequest == [kind |-> "none", user |-> None, msg |-> None, password |-> None]

Requests ==
  [kind : {"none", "login", "loginout", "oneChat", "groupChat"},
   user : Users \cup {None}, msg : Msgs \cup {None},
   password : {"right", "wrong", None}]

\* What a server writes: the two login acknowledgements and a forwarded
\* message.  user is the account it is written for.
Frames == [kind : {"ok", "refused", "msg"}, user : Users, msgs : Seq(Msgs)]

Posts == [msg : Msgs, from : Users, conn : Conns]

TerminalsTypeOK ==
  /\ clientPc \in [Conns -> {"off", "menu", "waiting", "chatting", "closed"}]
  /\ clientUser \in [Conns -> Users \cup {None}]
  /\ request \in [Conns -> Requests]
  /\ nread \in [Conns -> Nat]
  /\ sent \in Seq(Posts)

TerminalsInit ==
  /\ clientPc = [c \in Conns |-> "off"]
  /\ clientUser = [c \in Conns |-> None]
  /\ request = [c \in Conns |-> NoRequest]
  /\ toClient = [c \in Conns |-> <<>>]
  /\ nread = [c \in Conns |-> 0]
  /\ sent = <<>>

IsAck(frame) == frame.kind # "msg"

LoginsAnswered(c) == Cardinality({i \in DOMAIN toClient[c] : IsAck(toClient[c][i])})

WasSent(m) == \E i \in DOMAIN sent : sent[i].msg = m

Post(c, m) ==
  /\ ~WasSent(m)
  /\ sent' = Append(sent, [msg |-> m, from |-> clientUser[c], conn |-> c])

Send(c, r) ==
  /\ request[c] = NoRequest
  /\ request' = [request EXCEPT ![c] = r]

\* connect() in main: the terminal shows the login menu.
Connect(c) ==
  /\ clientPc[c] = "off"
  /\ clientPc' = [clientPc EXCEPT ![c] = "menu"]
  /\ UNCHANGED <<clientUser, request, toClient, nread, sent>>

\* Menu choice 1: send LOGIN_MSG and wait on the semaphore.
SendLogin(c, u, p) ==
  /\ clientPc[c] = "menu"
  /\ u \in HomeOf[c]
  /\ LoginsAnswered(c) < MaxLogins[c]
  /\ Send(c, [kind |-> "login", user |-> u, msg |-> None, password |-> p])
  /\ clientPc' = [clientPc EXCEPT ![c] = "waiting"]
  /\ UNCHANGED <<clientUser, toClient, nread, sent>>

\* The reader thread reaches the answer and posts the semaphore.
ReadLoginAck(c) ==
  /\ clientPc[c] = "waiting"
  /\ \E i \in nread[c] + 1 .. Len(toClient[c]) :
       /\ IsAck(toClient[c][i])
       /\ nread' = [nread EXCEPT ![c] = i]
       /\ IF toClient[c][i].kind = "ok"
          THEN /\ clientPc' = [clientPc EXCEPT ![c] = "chatting"]
               /\ clientUser' = [clientUser EXCEPT ![c] = toClient[c][i].user]
          ELSE /\ clientPc' = [clientPc EXCEPT ![c] = "menu"]
               /\ UNCHANGED clientUser
  /\ UNCHANGED <<request, toClient, sent>>

\* Command chat.
SendChat(c, m) ==
  /\ clientPc[c] = "chatting"
  /\ m \in Chats /\ Post(c, m)
  /\ Send(c, [kind |-> "oneChat", user |-> AddresseeOf[m], msg |-> m, password |-> None])
  /\ UNCHANGED <<clientPc, clientUser, toClient, nread>>

\* Command groupchat; the request carries the sender's id.
SendGroupChat(c, m) ==
  /\ clientPc[c] = "chatting"
  /\ m \in GroupChats /\ Post(c, m)
  /\ Send(c, [kind |-> "groupChat", user |-> clientUser[c], msg |-> m, password |-> None])
  /\ UNCHANGED <<clientPc, clientUser, toClient, nread>>

\* Command loginout: back to the login menu without waiting for anything.
SendLoginout(c) ==
  /\ clientPc[c] = "chatting"
  /\ Send(c, [kind |-> "loginout", user |-> clientUser[c], msg |-> None, password |-> None])
  /\ clientPc' = [clientPc EXCEPT ![c] = "menu"]
  /\ UNCHANGED <<clientUser, toClient, nread, sent>>

\* Menu choice 3, or the client process is killed at any other moment.  The
\* last request may or may not reach the server before the end of stream.
Exit(c) ==
  /\ clientPc[c] \in {"menu", "waiting", "chatting"}
  /\ clientPc' = [clientPc EXCEPT ![c] = "closed"]
  /\ \/ UNCHANGED request
     \/ request' = [request EXCEPT ![c] = NoRequest]
  /\ UNCHANGED <<clientUser, toClient, nread, sent>>
==============================================================================
