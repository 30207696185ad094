---------------------------- MODULE ChatDelivery ----------------------------
(***************************************************************************)
(* Where the messages are.  A message that a user sent has copies: in the  *)
(* socket, in a handler, in Redis, in a loop's queue (in flight), and in   *)
(* the end in the addressee's socket or in OfflineMessage (landed).  The   *)
(* handlers decide the way of a message from a session that may change     *)
(* under them, so the promise is made for the calm case only: disturbed is *)
(* a history variable that collects the messages whose addressee's session *)
(* was between two states while they were in flight.                       *)
(***************************************************************************)
EXTENDS ChatSessions

VARIABLE disturbed

Recipients(i) ==
  IF sent[i].msg \in Chats THEN {AddresseeOf[sent[i].msg]}
  ELSE Members \ {sent[i].from}

\* Message and addressee, for everything that was sent.
Deliveries == UNION {{<<sent[i].msg, u>> : u \in Recipients(i)} : i \in DOMAIN sent}

InRequest(m) == {<<"request", c, 0>> : c \in {d \in Conns : request[d].msg = m}}

\* The handler still has to find a way for m to u.
HandledFor(l, m, u) ==
  /\ job[l].msg = m
  /\ \/ pc[l] = "groupChat"
     \/ pc[l] \in GroupChatPcs /\ u \in job[l].rest
     \/ pc[l] \in OneChatPcs \cup {"groupPublish", "groupStore"} /\ job[l].user = u

InHandler(m, u) == {<<"job", l, 0>> : l \in {k \in Loops : HandledFor(k, m, u)}}

InRedis(m, u) ==
  UNION {{<<"push", s, i>> : i \in {j \in DOMAIN push[s] :
             push[s][j] = [channel |-> u, msg |-> m]}} : s \in Servers}

InObserver(m, u) ==
  {<<"observer", s, 0>> : s \in {t \in Servers :
      observer[t] = [channel |-> u, msg |-> m]}}

\* The places of m in a sequence of frames for u: number of the frame, number
\* of the message in it.
Places(frames, m, u) ==
  UNION {{<<i, j>> : j \in {k \in DOMAIN frames[i].msgs : frames[i].msgs[k] = m}} :
           i \in {h \in DOMAIN frames : frames[h].user = u}}

InQueue(m, u) == UNION {{<<"pending", c, p>> : p \in Places(pending[c], m, u)} : c \in Conns}

InSocket(m, u) == UNION {{<<"client", c, p>> : p \in Places(toClient[c], m, u)} : c \in Conns}

InTable(m, u) ==
  {<<"table", u, i>> : i \in {j \in DOMAIN offlineMessage[u] : offlineMessage[u][j] = m}}

\* Read from the table and removed from it, on the way into the answer.
InAnswer(m, u) ==
  UNION {{<<"answer", l, i>> : i \in {j \in DOMAIN job[l].msgs : job[l].msgs[j] = m}} :
           l \in {k \in Loops : pc[k] = "loginAck" /\ job[k].user = u}}

InFlight(m, u) == InRequest(m) \cup InHandler(m, u) \cup InRedis(m, u)
                    \cup InObserver(m, u) \cup InQueue(m, u)
Landed(m, u) == InSocket(m, u) \cup InTable(m, u) \cup InAnswer(m, u)

\* The session of u is between two states: a login or the end of a session is
\* being carried out, a command for its channel is on the way to Redis, or the
\* connection its entry leads to is down.
Unsettled(u) ==
  \/ \E l \in Loops :
       /\ job[l].user = u
       /\ pc[l] \in {"loginInsert", "loginSubscribe", "loginOnline",
                     "closeUnsubscribe", "closeOffline", "closeErase"}
  \/ \E s \in Servers : \E i \in DOMAIN cmds[s] : cmds[s][i].channel = u
  \/ \E s \in Servers : userConnMap[s][u] # None /\ ~connected[userConnMap[s][u]]

DisturbedNow == {d \in Deliveries : InFlight(d[1], d[2]) # {} /\ Unsettled(d[2])}

\* The sender's process went away with the message possibly still in its socket.
Abandoned == {d \in Deliveries : \E c \in Conns :
                request[c].msg = d[1] /\ clientPc[c] # "closed" /\ clientPc'[c] = "closed"}

DeliveryInit == Init /\ disturbed = {}
DeliveryNext == Next /\ disturbed' = disturbed \cup Abandoned \cup DisturbedNow'

DeliverySpec == DeliveryInit /\ [][DeliveryNext]_<<vars, disturbed>>
FairDeliverySpec == DeliverySpec /\ Fairness

Calm == Deliveries \ disturbed

-----------------------------------------------------------------------------
(***************************************************************************)
(* oneChat, groupChat, the observer and login between them neither lose    *)
(* nor duplicate a message to an account whose session stood still while   *)
(* the message was in flight, whichever server the sender is on, and       *)
(* whatever sessions the account has after the message landed.             *)
(***************************************************************************)
CalmExactlyOnce ==
  \A d \in Calm : Cardinality(InFlight(d[1], d[2]) \cup Landed(d[1], d[2])) = 1

(***************************************************************************)
(* A message is put into OfflineMessage only while its addressee has no    *)
(* session anywhere (lines 216-224): nobody who is there has to log in     *)
(* again to read it.                                                       *)
(***************************************************************************)
StoredForTheAbsent ==
  [][\A d \in Calm :
       InTable(d[1], d[2]) = {} /\ InTable(d[1], d[2])' # {} /\ d \notin disturbed'
         => userState[d[2]] = "offline" /\ \A s \in Servers : ~Live(s, d[2])]_<<vars, disturbed>>

(***************************************************************************)
(* Messages from one connection to one account arrive in the order they    *)
(* were sent, though some come over the map, some over Redis and some out  *)
(* of the table.                                                           *)
(***************************************************************************)
Before(p, q) == p[1] < q[1] \/ (p[1] = q[1] /\ p[2] < q[2])

CalmInOrder ==
  \A i, j \in DOMAIN sent : i < j /\ sent[i].conn = sent[j].conn =>
    \A u \in Recipients(i) \cap Recipients(j), c \in Conns :
      {<<sent[i].msg, u>>, <<sent[j].msg, u>>} \subseteq Calm =>
        \A p \in Places(toClient[c], sent[i].msg, u), q \in Places(toClient[c], sent[j].msg, u) :
          Before(p, q)

(***************************************************************************)
(* A message does not stay in flight for ever.                             *)
(***************************************************************************)
MessagesLand ==
  \A m \in Msgs, u \in Users :
    (<<m, u>> \in Calm /\ InFlight(m, u) # {})
      ~> (<<m, u>> \in disturbed \/ Landed(m, u) # {})
==============================================================================
