------------------------- MODULE ChatDeliveryProofs -------------------------
(***************************************************************************)
(* Exactly one copy of every calm message.  A message m on its way to an   *)
(* account u is in one cell at a time: a socket, a handler, a connection   *)
(* to Redis, a loop's queue, the table, the answer to a login.  Each step  *)
(* leaves the cells alone or moves the copy from one to the next, provided *)
(* the way fits the session of u (OnTheWay, ReadAll), and that session     *)
(* stands still while the copy is in flight (CalmIsSettled).  What the     *)
(* sessions, the connections and the subscriptions contribute is BaseInv,  *)
(* proved in ChatConnProofs and ChatPresenceProofs.                        *)
(***************************************************************************)
EXTENDS ChatPresenceProofs, ChatDelivery, FiniteSetTheorems

-----------------------------------------------------------------------------
(***************************************************************************)
(* The places of a message, one cell for each carrier.  What a cell holds  *)
(* is a set of places in it; sets such as {0} stand for the one place of a *)
(* carrier that has room for one copy.                                     *)
(***************************************************************************)
AtRequest(c, m) == {i \in {0} : request[c].msg = m}
AtJob(l, m, u) == {i \in {0} : HandledFor(l, m, u)}
AtPush(s, m, u) == {i \in DOMAIN push[s] : push[s][i] = [channel |-> u, msg |-> m]}
AtObserver(s, m, u) == {i \in {0} : observer[s] = [channel |-> u, msg |-> m]}
AtPending(c, m, u) == Places(pending[c], m, u)
AtSocket(c, m, u) == Places(toClient[c], m, u)
AtTable(m, u) == {i \in DOMAIN offlineMessage[u] : offlineMessage[u][i] = m}
AtAnswer(l, m, u) ==
  {i \in DOMAIN job[l].msgs : pc[l] = "loginAck" /\ job[l].user = u /\ job[l].msgs[i] = m}

Cells(u) == ({"request", "pending", "client"} \X Conns) \cup ({"job", "answer"} \X Loops)
              \cup ({"push", "observer"} \X Servers) \cup {<<"table", u>>}

Content(m, u) ==
  [n \in Cells(u) |->
     IF n[1] = "request" THEN AtRequest(n[2], m)
     ELSE IF n[1] = "job" THEN AtJob(n[2], m, u)
     ELSE IF n[1] = "push" THEN AtPush(n[2], m, u)
     ELSE IF n[1] = "observer" THEN AtObserver(n[2], m, u)
     ELSE IF n[1] = "pending" THEN AtPending(n[2], m, u)
     ELSE IF n[1] = "client" THEN AtSocket(n[2], m, u)
     ELSE IF n[1] = "table" THEN AtTable(m, u)
     ELSE AtAnswer(n[2], m, u)]

\* One copy, one copy in all the cells, none in any.
One(S) == \E p \in S : S = {p}
Single(f) == \E n \in DOMAIN f : One(f[n]) /\ \A k \in DOMAIN f : k # n => f[k] = {}
Nowhere(f) == \A n \in DOMAIN f : f[n] = {}

\* The message is where it should be: nowhere before it is sent, then once.
InPlace(m, u) == IF WasSent(m) THEN Single(Content(m, u)) ELSE Nowhere(Content(m, u))

-----------------------------------------------------------------------------
\* Nothing disturbed m on its way to u; if it was sent, it is meant for u.
Followed(m, u) == WasSent(m) => <<m, u>> \in Deliveries \ disturbed

\* The way taken fits the session.
OnTheWay(m, u) ==
  /\ \A s \in Servers : AtPush(s, m, u) # {} => userConnMap[s][u] # None
  /\ \A s \in Servers : AtObserver(s, m, u) = {}
  /\ \A c \in Conns : AtPending(c, m, u) # {} => userConnMap[ConnServer(c)][u] = c
  /\ \A l \in Loops : job[l].msg = m /\ job[l].user = u =>
       /\ pc[l] \in {"oneChatPublish", "groupPublish"} => userState[u] = "online"
       /\ pc[l] \in {"oneChatStore", "groupStore"} => userState[u] = "offline"

\* Between query and remove, what login read is what is in the table.
ReadAll(m, u) ==
  \A l \in Loops : pc[l] = "loginRemoveOffline" /\ job[l].user = u =>
    AtTable(m, u) = {i \in DOMAIN job[l].msgs : job[l].msgs[i] = m}

\* A message that nothing disturbed is in place, and on a way that fits.
FollowedInv ==
  \A m \in Msgs, u \in Users : Followed(m, u) => InPlace(m, u) /\ OnTheWay(m, u) /\ ReadAll(m, u)

\* disturbed has collected every message in flight to an unsettled session.
CalmIsSettled == \A d \in Deliveries \ disturbed : InFlight(d[1], d[2]) # {} => ~Unsettled(d[2])

\* No message is sent twice; who sent m.
SentOnce == \A i, j \in DOMAIN sent : sent[i].msg = sent[j].msg => i = j
SentBy(m, u) == \E i \in DOMAIN sent : sent[i].msg = m /\ sent[i].from = u
SentFrom(m, c) == \E i \in DOMAIN sent : sent[i].msg = m /\ sent[i].conn = c

\* A request names what its kind needs, and is where it was sent.
RequestFits(c) ==
  /\ request[c].kind \in {"none", "login", "loginout"} => request[c].msg = None
  /\ request[c].kind = "oneChat" =>
       request[c].msg \in Chats /\ request[c].user = AddresseeOf[request[c].msg]
  /\ request[c].kind = "groupChat" => request[c].msg \in GroupChats /\ SentBy(request[c].msg, request[c].user)
  /\ request[c].msg # None => SentFrom(request[c].msg, c)

\* A handler's copy of it too; a login from reading the table on is the session.
JobFits(l) ==
  /\ pc[l] = "groupChat" => job[l].msg \in GroupChats /\ SentBy(job[l].msg, job[l].user)
  /\ pc[l] \in {"groupPublish", "groupStore"} => job[l].user \notin job[l].rest
  /\ pc[l] \in OneChatPcs \cup GroupChatPcs => SentFrom(job[l].msg, job[l].conn)
  /\ pc[l] \in {"loginReadOffline", "loginRemoveOffline", "loginAck"} =>
       /\ userState[job[l].user] = "online"
       /\ userConnMap[ServerOf[l]][job[l].user] = job[l].conn

TrailInv == SentOnce /\ (\A c \in Conns : RequestFits(c)) /\ (\A l \in Loops : JobFits(l))

DeliveryInv == CalmIsSettled /\ TrailInv /\ FollowedInv

-----------------------------------------------------------------------------
\* A cell changes from S to T without a copy coming or going.
Same(S, T) == (S = {} => T = {}) /\ (One(S) => One(T))

LEMMA NotOne == ASSUME NEW S, One(S) PROVE S # {}
BY DEF One

LEMMA SingleStays ==
  ASSUME NEW f, NEW g, DOMAIN g = DOMAIN f, \A n \in DOMAIN f : Same(f[n], g[n])
  PROVE  (Single(f) => Single(g)) /\ (Nowhere(f) => Nowhere(g))
<1>1. ASSUME Single(f) PROVE Single(g)
  <2>1. PICK n \in DOMAIN f : One(f[n]) /\ \A k \in DOMAIN f : k # n => f[k] = {}
    BY <1>1 DEF Single
  <2>2. n \in DOMAIN g /\ One(g[n])
    BY <2>1 DEF Same
  <2>3. \A k \in DOMAIN g : k # n => g[k] = {}
    BY <2>1 DEF Same
  <2>. QED BY <2>2, <2>3 DEF Single
<1>2. ASSUME Nowhere(f) PROVE Nowhere(g)
  BY <1>2 DEF Nowhere, Same
<1>. QED BY <1>1, <1>2

LEMMA SingleMoves ==
  ASSUME NEW f, NEW g, DOMAIN g = DOMAIN f, NEW a \in DOMAIN f, NEW b \in DOMAIN f, a # b,
         Single(f), f[a] # {},
         One(f[a]) => g[a] = {},
         f[b] = {} /\ One(f[a]) => One(g[b]),
         \A n \in DOMAIN f : n \notin {a, b} => Same(f[n], g[n])
  PROVE  Single(g)
<1>1. PICK n \in DOMAIN f : One(f[n]) /\ \A k \in DOMAIN f : k # n => f[k] = {}
  BY DEF Single
<1>2. n = a
  BY <1>1
<1>3. f[b] = {} /\ One(f[a])
  BY <1>1, <1>2
<1>4. One(g[b]) /\ g[a] = {}
  BY <1>3
<1>5. \A k \in DOMAIN g : k # b => g[k] = {}
  BY <1>1, <1>2, <1>4 DEF Same
<1>. QED BY <1>4, <1>5 DEF Single

-----------------------------------------------------------------------------
(***************************************************************************)
(* The cells.                                                              *)
(***************************************************************************)
LEMMA CellsAre ==
  ASSUME NEW u, NEW n
  PROVE  n \in Cells(u) <=>
           \/ \E c \in Conns : n = <<"request", c>> \/ n = <<"pending", c>> \/ n = <<"client", c>>
           \/ \E l \in Loops : n = <<"job", l>> \/ n = <<"answer", l>>
           \/ \E s \in Servers : n = <<"push", s>> \/ n = <<"observer", s>>
           \/ n = <<"table", u>>
BY DEF Cells

\* What Content(m, u) says of each cell.
ContentFits(m, u) ==
  /\ DOMAIN Content(m, u) = Cells(u)
  /\ \A c \in Conns : /\ Content(m, u)[<<"request", c>>] = AtRequest(c, m)
                      /\ Content(m, u)[<<"pending", c>>] = AtPending(c, m, u)
                      /\ Content(m, u)[<<"client", c>>] = AtSocket(c, m, u)
  /\ \A l \in Loops : /\ Content(m, u)[<<"job", l>>] = AtJob(l, m, u)
                      /\ Content(m, u)[<<"answer", l>>] = AtAnswer(l, m, u)
  /\ \A s \in Servers : /\ Content(m, u)[<<"push", s>>] = AtPush(s, m, u)
                        /\ Content(m, u)[<<"observer", s>>] = AtObserver(s, m, u)
  /\ Content(m, u)[<<"table", u>>] = AtTable(m, u)

LEMMA ContentIs ==
  ASSUME NEW m, NEW u
  PROVE  ContentFits(m, u) /\ ContentFits(m, u)'
<1>1. \A c \in Conns : <<"request", c>> \in Cells(u) /\ <<"pending", c>> \in Cells(u) /\ <<"client", c>> \in Cells(u)
  BY CellsAre
<1>2. \A l \in Loops : <<"job", l>> \in Cells(u) /\ <<"answer", l>> \in Cells(u)
  BY CellsAre
<1>3. \A s \in Servers : <<"push", s>> \in Cells(u) /\ <<"observer", s>> \in Cells(u)
  BY CellsAre
<1>4. <<"table", u>> \in Cells(u)
  BY CellsAre
<1>5. \A c \in Conns : /\ Content(m, u)[<<"request", c>>] = AtRequest(c, m)
                       /\ Content(m, u)[<<"pending", c>>] = AtPending(c, m, u)
                       /\ Content(m, u)[<<"client", c>>] = AtSocket(c, m, u)
  BY <1>1 DEF Content
<1>6. \A l \in Loops : /\ Content(m, u)[<<"job", l>>] = AtJob(l, m, u)
                       /\ Content(m, u)[<<"answer", l>>] = AtAnswer(l, m, u)
  BY <1>2 DEF Content
<1>7. \A s \in Servers : /\ Content(m, u)[<<"push", s>>] = AtPush(s, m, u)
                         /\ Content(m, u)[<<"observer", s>>] = AtObserver(s, m, u)
  BY <1>3 DEF Content
<1>8. Content(m, u)[<<"table", u>>] = AtTable(m, u) /\ DOMAIN Content(m, u) = Cells(u)
  BY <1>4 DEF Content
<1>10. \A c \in Conns : /\ Content(m, u)'[<<"request", c>>] = AtRequest(c, m)'
                       /\ Content(m, u)'[<<"pending", c>>] = AtPending(c, m, u)'
                       /\ Content(m, u)'[<<"client", c>>] = AtSocket(c, m, u)'
  BY <1>1 DEF Content
<1>11. \A l \in Loops : /\ Content(m, u)'[<<"job", l>>] = AtJob(l, m, u)'
                       /\ Content(m, u)'[<<"answer", l>>] = AtAnswer(l, m, u)'
  BY <1>2 DEF Content
<1>12. \A s \in Servers : /\ Content(m, u)'[<<"push", s>>] = AtPush(s, m, u)'
                         /\ Content(m, u)'[<<"observer", s>>] = AtObserver(s, m, u)'
  BY <1>3 DEF Content
<1>13. Content(m, u)'[<<"table", u>>] = AtTable(m, u)' /\ DOMAIN Content(m, u)' = Cells(u)
  BY <1>4 DEF Content
<1>14. ContentFits(m, u)
  BY <1>5, <1>6, <1>7, <1>8 DEF ContentFits
<1>15. ContentFits(m, u)'
  BY <1>10, <1>11, <1>12, <1>13 DEF ContentFits, Cells
<1>. QED BY <1>14, <1>15

\* The same, one kind of cell after the other.
SameRequests(E, m) ==
  \A c \in Conns : <<"request", c>> \notin E => Same(AtRequest(c, m), AtRequest(c, m)')
SameJobs(E, m, u) ==
  \A l \in Loops : /\ <<"job", l>> \notin E => Same(AtJob(l, m, u), AtJob(l, m, u)')
                   /\ <<"answer", l>> \notin E => Same(AtAnswer(l, m, u), AtAnswer(l, m, u)')
SameRedis(E, m, u) ==
  \A s \in Servers : <<"push", s>> \notin E => Same(AtPush(s, m, u), AtPush(s, m, u)')
SameObservers(m, u) ==
  \A s \in Servers : Same(AtObserver(s, m, u), AtObserver(s, m, u)')
SameFrames(E, m, u) ==
  \A c \in Conns : /\ <<"pending", c>> \notin E => Same(AtPending(c, m, u), AtPending(c, m, u)')
                   /\ <<"client", c>> \notin E => Same(AtSocket(c, m, u), AtSocket(c, m, u)')
SameTable(E, m, u) == <<"table", u>> \notin E => Same(AtTable(m, u), AtTable(m, u)')

\* Nothing happens to the copies of m for u outside of the cells E.
SameBut(E, m, u) ==
  /\ SameRequests(E, m) /\ SameJobs(E, m, u) /\ SameRedis(E, m, u)
  /\ SameObservers(m, u) /\ SameFrames(E, m, u) /\ SameTable(E, m, u)

LEMMA SameItself == \A S : Same(S, S)
BY DEF Same

LEMMA SameContent ==
  ASSUME NEW m, NEW u, NEW E, SameBut(E, m, u), NEW n \in Cells(u), n \notin E
  PROVE  Same(Content(m, u)[n], Content(m, u)'[n])
<1>1. CASE \E c \in Conns : n = <<"request", c>> \/ n = <<"pending", c>> \/ n = <<"client", c>>
  <2>. PICK c \in Conns : n = <<"request", c>> \/ n = <<"pending", c>> \/ n = <<"client", c>>
    BY <1>1
  <2>1. CASE n = <<"request", c>>
    BY <2>1, ContentIs DEF ContentFits, SameBut, SameRequests
  <2>2. CASE n = <<"pending", c>>
    BY <2>2, ContentIs DEF ContentFits, SameBut, SameFrames
  <2>3. CASE n = <<"client", c>>
    BY <2>3, ContentIs DEF ContentFits, SameBut, SameFrames
  <2>. QED BY <2>1, <2>2, <2>3
<1>2. CASE \E l \in Loops : n = <<"job", l>> \/ n = <<"answer", l>>
  <2>. PICK l \in Loops : n = <<"job", l>> \/ n = <<"answer", l>>
    BY <1>2
  <2>1. CASE n = <<"job", l>>
    BY <2>1, ContentIs DEF ContentFits, SameBut, SameJobs
  <2>2. CASE n = <<"answer", l>>
    BY <2>2, ContentIs DEF ContentFits, SameBut, SameJobs
  <2>. QED BY <2>1, <2>2
<1>3. CASE \E s \in Servers : n = <<"push", s>> \/ n = <<"observer", s>>
  <2>. PICK s \in Servers : n = <<"push", s>> \/ n = <<"observer", s>>
    BY <1>3
  <2>1. CASE n = <<"push", s>>
    BY <2>1, ContentIs DEF ContentFits, SameBut, SameRedis
  <2>2. CASE n = <<"observer", s>>
    BY <2>2, ContentIs DEF ContentFits, SameBut, SameObservers
  <2>. QED BY <2>1, <2>2
<1>4. CASE n = <<"table", u>>
  BY <1>4, ContentIs DEF ContentFits, SameBut, SameTable
<1>. QED BY <1>1, <1>2, <1>3, <1>4, CellsAre

\* A message whose copies stay is in place after the step.
LEMMA Stays ==
  ASSUME NEW m, NEW u, SameBut({}, m, u), InPlace(m, u), WasSent(m)' <=> WasSent(m)
  PROVE  InPlace(m, u)'
<1>. PICK f, g : f = Content(m, u) /\ g = Content(m, u)'
  OBVIOUS
<1>1. DOMAIN f = Cells(u) /\ DOMAIN g = Cells(u)
  BY ContentIs DEF ContentFits, Cells
<1>2. \A n \in DOMAIN f : Same(f[n], g[n])
  BY <1>1, SameContent
<1>3. (Single(f) => Single(g)) /\ (Nowhere(f) => Nowhere(g))
  BY <1>1, <1>2, SingleStays
<1>. QED BY <1>3 DEF InPlace

\* So is one whose copy moves from cell a to cell b.
LEMMA Moves ==
  ASSUME NEW m, NEW u, NEW a \in Cells(u), NEW b \in Cells(u), a # b,
         SameBut({a, b}, m, u), InPlace(m, u), WasSent(m)' <=> WasSent(m),
         Content(m, u)[a] # {},
         One(Content(m, u)[a]) => Content(m, u)'[a] = {},
         Content(m, u)[b] = {} /\ One(Content(m, u)[a]) => One(Content(m, u)'[b])
  PROVE  InPlace(m, u)'
<1>. PICK f, g : f = Content(m, u) /\ g = Content(m, u)'
  OBVIOUS
<1>1. DOMAIN f = Cells(u) /\ DOMAIN g = Cells(u)
  BY ContentIs DEF ContentFits, Cells
<1>2. \A n \in DOMAIN f : n \notin {a, b} => Same(f[n], g[n])
  BY <1>1, SameContent
<1>3. WasSent(m) /\ Single(f)
  BY <1>1 DEF InPlace, Nowhere
<1>4. Single(g)
  BY <1>1, <1>2, <1>3, SingleMoves
<1>. QED BY <1>3, <1>4 DEF InPlace

\* A copy is a cell and a place in it.
Copy(m, u, p) == \E n \in Cells(u) : \E i \in Content(m, u)[n] : p = <<n[1], n[2], i>>

LEMMA CopiesAre ==
  ASSUME NEW m, NEW u, NEW p
  PROVE  p \in InFlight(m, u) \cup Landed(m, u) <=> Copy(m, u, p)
<1>1. p \in InRequest(m) <=> \E c \in Conns : \E i \in AtRequest(c, m) : p = <<"request", c, i>>
  BY DEF InRequest, AtRequest
<1>2. p \in InHandler(m, u) <=> \E l \in Loops : \E i \in AtJob(l, m, u) : p = <<"job", l, i>>
  BY DEF InHandler, AtJob
<1>3. p \in InRedis(m, u) <=> \E s \in Servers : \E i \in AtPush(s, m, u) : p = <<"push", s, i>>
  BY DEF InRedis, AtPush
<1>4. p \in InObserver(m, u) <=> \E s \in Servers : \E i \in AtObserver(s, m, u) : p = <<"observer", s, i>>
  BY DEF InObserver, AtObserver
<1>5. p \in InQueue(m, u) <=> \E c \in Conns : \E i \in AtPending(c, m, u) : p = <<"pending", c, i>>
  BY DEF InQueue, AtPending
<1>6. p \in InSocket(m, u) <=> \E c \in Conns : \E i \in AtSocket(c, m, u) : p = <<"client", c, i>>
  BY DEF InSocket, AtSocket
<1>7. p \in InTable(m, u) <=> \E i \in AtTable(m, u) : p = <<"table", u, i>>
  BY DEF InTable, AtTable
<1>8. p \in InAnswer(m, u) <=> \E l \in Loops : \E i \in AtAnswer(l, m, u) : p = <<"answer", l, i>>
  BY DEF InAnswer, AtAnswer
<1>9. ASSUME p \in InFlight(m, u) \cup Landed(m, u) PROVE Copy(m, u, p)
  <2>1. CASE p \in InRequest(m)
    <3>. PICK c \in Conns : \E i \in AtRequest(c, m) : p = <<"request", c, i>>
      BY <1>1, <2>1
    <3>. PICK n : n = <<"request", c>>
      OBVIOUS
    <3>1. n \in Cells(u) /\ Content(m, u)[n] = AtRequest(c, m) /\ n[1] = "request" /\ n[2] = c
      BY CellsAre, ContentIs DEF ContentFits
    <3>2. \E i \in Content(m, u)[n] : p = <<n[1], n[2], i>>
      BY <3>1
    <3>. QED BY <3>1, <3>2 DEF Copy
  <2>2. CASE p \in InHandler(m, u)
    <3>. PICK l \in Loops : \E i \in AtJob(l, m, u) : p = <<"job", l, i>>
      BY <1>2, <2>2
    <3>. PICK n : n = <<"job", l>>
      OBVIOUS
    <3>1. n \in Cells(u) /\ Content(m, u)[n] = AtJob(l, m, u) /\ n[1] = "job" /\ n[2] = l
      BY CellsAre, ContentIs DEF ContentFits
    <3>2. \E i \in Content(m, u)[n] : p = <<n[1], n[2], i>>
      BY <3>1
    <3>. QED BY <3>1, <3>2 DEF Copy
  <2>3. CASE p \in InRedis(m, u)
    <3>. PICK s \in Servers : \E i \in AtPush(s, m, u) : p = <<"push", s, i>>
      BY <1>3, <2>3
    <3>. PICK n : n = <<"push", s>>
      OBVIOUS
    <3>1. n \in Cells(u) /\ Content(m, u)[n] = AtPush(s, m, u) /\ n[1] = "push" /\ n[2] = s
      BY CellsAre, ContentIs DEF ContentFits
    <3>2. \E i \in Content(m, u)[n] : p = <<n[1], n[2], i>>
      BY <3>1
    <3>. QED BY <3>1, <3>2 DEF Copy
  <2>4. CASE p \in InObserver(m, u)
    <3>. PICK s \in Servers : \E i \in AtObserver(s, m, u) : p = <<"observer", s, i>>
      BY <1>4, <2>4
    <3>. PICK n : n = <<"observer", s>>
      OBVIOUS
    <3>1. n \in Cells(u) /\ Content(m, u)[n] = AtObserver(s, m, u) /\ n[1] = "observer" /\ n[2] = s
      BY CellsAre, ContentIs DEF ContentFits
    <3>2. \E i \in Content(m, u)[n] : p = <<n[1], n[2], i>>
      BY <3>1
    <3>. QED BY <3>1, <3>2 DEF Copy
  <2>5. CASE p \in InQueue(m, u)
    <3>. PICK c \in Conns : \E i \in AtPending(c, m, u) : p = <<"pending", c, i>>
      BY <1>5, <2>5
    <3>. PICK n : n = <<"pending", c>>
      OBVIOUS
    <3>1. n \in Cells(u) /\ Content(m, u)[n] = AtPending(c, m, u) /\ n[1] = "pending" /\ n[2] = c
      BY CellsAre, ContentIs DEF ContentFits
    <3>2. \E i \in Content(m, u)[n] : p = <<n[1], n[2], i>>
      BY <3>1
    <3>. QED BY <3>1, <3>2 DEF Copy
  <2>6. CASE p \in InSocket(m, u)
    <3>. PICK c \in Conns : \E i \in AtSocket(c, m, u) : p = <<"client", c, i>>
      BY <1>6, <2>6
    <3>. PICK n : n = <<"client", c>>
      OBVIOUS
    <3>1. n \in Cells(u) /\ Content(m, u)[n] = AtSocket(c, m, u) /\ n[1] = "client" /\ n[2] = c
      BY CellsAre, ContentIs DEF ContentFits
    <3>2. \E i \in Content(m, u)[n] : p = <<n[1], n[2], i>>
      BY <3>1
    <3>. QED BY <3>1, <3>2 DEF Copy
  <2>7. CASE p \in InTable(m, u)
    <3>. PICK n : n = <<"table", u>>
      OBVIOUS
    <3>1. n \in Cells(u) /\ Content(m, u)[n] = AtTable(m, u) /\ n[1] = "table" /\ n[2] = u
      BY CellsAre, ContentIs DEF ContentFits
    <3>2. \E i \in Content(m, u)[n] : p = <<n[1], n[2], i>>
      BY <3>1, <1>7, <2>7
    <3>. QED BY <3>1, <3>2 DEF Copy
  <2>8. CASE p \in InAnswer(m, u)
    <3>. PICK l \in Loops : \E i \in AtAnswer(l, m, u) : p = <<"answer", l, i>>
      BY <1>8, <2>8
    <3>. PICK n : n = <<"answer", l>>
      OBVIOUS
    <3>1. n \in Cells(u) /\ Content(m, u)[n] = AtAnswer(l, m, u) /\ n[1] = "answer" /\ n[2] = l
      BY CellsAre, ContentIs DEF ContentFits
    <3>2. \E i \in Content(m, u)[n] : p = <<n[1], n[2], i>>
      BY <3>1
    <3>. QED BY <3>1, <3>2 DEF Copy
  <2>. QED BY <1>9, <2>1, <2>2, <2>3, <2>4, <2>5, <2>6, <2>7, <2>8 DEF InFlight, Landed
<1>10. ASSUME NEW n \in Cells(u), NEW i \in Content(m, u)[n], p = <<n[1], n[2], i>>
       PROVE  p \in InFlight(m, u) \cup Landed(m, u)
  <2>1. CASE \E c \in Conns : n = <<"request", c>>
    <3>. PICK c \in Conns : n = <<"request", c>>
      BY <2>1
    <3>1. i \in AtRequest(c, m) /\ p = <<"request", c, i>>
      BY <1>10, <2>1, ContentIs DEF ContentFits
    <3>2. p \in InRequest(m)
      BY <1>1, <3>1
    <3>. QED BY <3>2 DEF InFlight
  <2>2. CASE \E l \in Loops : n = <<"job", l>>
    <3>. PICK l \in Loops : n = <<"job", l>>
      BY <2>2
    <3>1. i \in AtJob(l, m, u) /\ p = <<"job", l, i>>
      BY <1>10, <2>2, ContentIs DEF ContentFits
    <3>2. p \in InHandler(m, u)
      BY <1>2, <3>1
    <3>. QED BY <3>2 DEF InFlight
  <2>3. CASE \E s \in Servers : n = <<"push", s>>
    <3>. PICK s \in Servers : n = <<"push", s>>
      BY <2>3
    <3>1. i \in AtPush(s, m, u) /\ p = <<"push", s, i>>
      BY <1>10, <2>3, ContentIs DEF ContentFits
    <3>2. p \in InRedis(m, u)
      BY <1>3, <3>1
    <3>. QED BY <3>2 DEF InFlight
  <2>4. CASE \E s \in Servers : n = <<"observer", s>>
    <3>. PICK s \in Servers : n = <<"observer", s>>
      BY <2>4
    <3>1. i \in AtObserver(s, m, u) /\ p = <<"observer", s, i>>
      BY <1>10, <2>4, ContentIs DEF ContentFits
    <3>2. p \in InObserver(m, u)
      BY <1>4, <3>1
    <3>. QED BY <3>2 DEF InFlight
  <2>5. CASE \E c \in Conns : n = <<"pending", c>>
    <3>. PICK c \in Conns : n = <<"pending", c>>
      BY <2>5
    <3>1. i \in AtPending(c, m, u) /\ p = <<"pending", c, i>>
      BY <1>10, <2>5, ContentIs DEF ContentFits
    <3>2. p \in InQueue(m, u)
      BY <1>5, <3>1
    <3>. QED BY <3>2 DEF InFlight
  <2>6. CASE \E c \in Conns : n = <<"client", c>>
    <3>. PICK c \in Conns : n = <<"client", c>>
      BY <2>6
    <3>1. i \in AtSocket(c, m, u) /\ p = <<"client", c, i>>
      BY <1>10, <2>6, ContentIs DEF ContentFits
    <3>2. p \in InSocket(m, u)
      BY <1>6, <3>1
    <3>. QED BY <3>2 DEF Landed
  <2>7. CASE n = <<"table", u>>
    <3>1. i \in AtTable(m, u) /\ p = <<"table", u, i>>
      BY <1>10, <2>7, ContentIs DEF ContentFits
    <3>2. p \in InTable(m, u)
      BY <1>7, <3>1
    <3>. QED BY <3>2 DEF Landed
  <2>8. CASE \E l \in Loops : n = <<"answer", l>>
    <3>. PICK l \in Loops : n = <<"answer", l>>
      BY <2>8
    <3>1. i \in AtAnswer(l, m, u) /\ p = <<"answer", l, i>>
      BY <1>10, <2>8, ContentIs DEF ContentFits
    <3>2. p \in InAnswer(m, u)
      BY <1>8, <3>1
    <3>. QED BY <3>2 DEF Landed
  <2>. QED BY <2>1, <2>2, <2>3, <2>4, <2>5, <2>6, <2>7, <2>8, CellsAre
<1>. QED BY <1>9, <1>10 DEF Copy

\* One copy in all the cells is what CalmExactlyOnce counts.
LEMMA SingleCopy ==
  ASSUME NEW m, NEW u, Single(Content(m, u))
  PROVE  Cardinality(InFlight(m, u) \cup Landed(m, u)) = 1
<1>. PICK f : f = Content(m, u)
  OBVIOUS
<1>0. DOMAIN f = Cells(u)
  BY ContentIs DEF ContentFits
<1>1. PICK n \in Cells(u) : One(f[n]) /\ \A k \in Cells(u) : k # n => f[k] = {}
  BY <1>0 DEF Single
<1>2. PICK i \in f[n] : f[n] = {i}
  BY <1>1 DEF One
<1>. PICK q : q = <<n[1], n[2], i>>
  OBVIOUS
<1>3. \A p : Copy(m, u, p) <=> p = q
  BY <1>1, <1>2 DEF Copy
<1>4. InFlight(m, u) \cup Landed(m, u) = {q}
  BY <1>3, CopiesAre
<1>. QED BY <1>4, FS_Singleton

\* A copy in one of these cells is in flight.
LEMMA Flying ==
  ASSUME NEW m, NEW u,
         \/ \E c \in Conns : AtRequest(c, m) # {} \/ AtPending(c, m, u) # {}
         \/ \E l \in Loops : AtJob(l, m, u) # {}
         \/ \E s \in Servers : AtPush(s, m, u) # {} \/ AtObserver(s, m, u) # {}
  PROVE  InFlight(m, u) # {}
<1>1. (\E c \in Conns : AtRequest(c, m) # {}) => InRequest(m) # {}
  BY DEF InRequest, AtRequest
<1>2. ASSUME NEW c \in Conns, NEW p \in AtPending(c, m, u) PROVE InQueue(m, u) # {}
  <2>. <<"pending", c, p>> \in InQueue(m, u)
    BY DEF InQueue, AtPending
  <2>. QED OBVIOUS
<1>3. (\E l \in Loops : AtJob(l, m, u) # {}) => InHandler(m, u) # {}
  BY DEF InHandler, AtJob
<1>4. ASSUME NEW s \in Servers, NEW i \in AtPush(s, m, u) PROVE InRedis(m, u) # {}
  <2>. <<"push", s, i>> \in InRedis(m, u)
    BY DEF InRedis, AtPush
  <2>. QED OBVIOUS
<1>5. (\E s \in Servers : AtObserver(s, m, u) # {}) => InObserver(m, u) # {}
  BY DEF InObserver, AtObserver
<1>. QED BY <1>1, <1>2, <1>3, <1>4, <1>5 DEF InFlight

-----------------------------------------------------------------------------
LEMMA Untouched ==
  ASSUME NEW m, NEW u, NEW E
  PROVE  /\ UNCHANGED request => SameRequests(E, m)
         /\ UNCHANGED <<pc, job>> => SameJobs(E, m, u)
         /\ UNCHANGED push => SameRedis(E, m, u)
         /\ UNCHANGED observer => SameObservers(m, u)
         /\ UNCHANGED <<pending, toClient>> => SameFrames(E, m, u)
         /\ UNCHANGED offlineMessage => SameTable(E, m, u)
<1>1. UNCHANGED request => SameRequests(E, m)
  BY SameItself DEF SameRequests, AtRequest
<1>2. UNCHANGED <<pc, job>> => SameJobs(E, m, u)
  BY SameItself DEF SameJobs, AtJob, AtAnswer, HandledFor
<1>3. UNCHANGED push => SameRedis(E, m, u)
  BY SameItself DEF SameRedis, AtPush
<1>4. UNCHANGED observer => SameObservers(m, u)
  BY SameItself DEF SameObservers, AtObserver
<1>5. UNCHANGED <<pending, toClient>> => SameFrames(E, m, u)
  BY SameItself DEF SameFrames, AtPending, AtSocket, Places
<1>6. UNCHANGED offlineMessage => SameTable(E, m, u)
  BY SameItself DEF SameTable, AtTable
<1>. QED BY <1>1, <1>2, <1>3, <1>4, <1>5, <1>6

(***************************************************************************)
(* The places of an element in a sequence.                                 *)
(***************************************************************************)
Spots(q, x) == {i \in DOMAIN q : q[i] = x}

LEMMA OneElement == ASSUME NEW x PROVE One({x})
BY DEF One

LEMMA SpotsAppended ==
  ASSUME NEW S, NEW q \in Seq(S), NEW e \in S, NEW x
  PROVE  /\ e # x => Spots(Append(q, e), x) = Spots(q, x)
         /\ e = x /\ Spots(q, x) = {} => One(Spots(Append(q, e), x))
<1>. PICK n \in Nat, r \in Seq(S) : n = Len(q) /\ r = Append(q, e)
  <2>1. Append(q, e) \in Seq(S) /\ Len(q) \in Nat
    OBVIOUS
  <2>. QED BY <2>1
<1>1. DOMAIN q = 1 .. n /\ DOMAIN r = 1 .. n + 1 /\ r[n + 1] = e /\ \A i \in 1 .. n : r[i] = q[i]
  OBVIOUS
<1>2. \A i : i \in 1 .. n + 1 <=> i \in 1 .. n \/ i = n + 1
  OBVIOUS
<1>3. e # x => Spots(r, x) = Spots(q, x)
  BY <1>1, <1>2 DEF Spots
<1>4. e = x /\ Spots(q, x) = {} => Spots(r, x) = {n + 1}
  BY <1>1, <1>2 DEF Spots
<1>. QED BY <1>3, <1>4, OneElement

LEMMA SpotsTaken ==
  ASSUME NEW S, NEW q \in Seq(S), q # <<>>, NEW x
  PROVE  /\ Head(q) # x => Same(Spots(q, x), Spots(Tail(q), x))
         /\ Head(q) = x => Spots(q, x) # {}
         /\ Head(q) = x /\ One(Spots(q, x)) => Spots(Tail(q), x) = {}
         /\ Spots(Tail(q), x) # {} => Spots(q, x) # {}
<1>. PICK n \in Nat, t \in Seq(S) : n = Len(q) /\ t = Tail(q)
  <2>1. Tail(q) \in Seq(S) /\ Len(q) \in Nat
    OBVIOUS
  <2>. QED BY <2>1
<1>1. /\ DOMAIN q = 1 .. n /\ 1 \in 1 .. n /\ Head(q) = q[1]
      /\ DOMAIN t = 1 .. n - 1 /\ \A i \in 1 .. n - 1 : t[i] = q[i + 1]
  OBVIOUS
<1>2. \A i \in 1 .. n - 1 : i + 1 \in 1 .. n /\ i \in Nat /\ i + 1 # 1
  OBVIOUS
<1>3. \A i \in 1 .. n : i = 1 \/ (i - 1 \in 1 .. n - 1 /\ (i - 1) + 1 = i)
  OBVIOUS
<1>4. \A i \in Spots(t, x) : i \in Nat /\ i + 1 \in Spots(q, x) /\ i + 1 # 1
  BY <1>1, <1>2 DEF Spots
<1>5. \A i \in Spots(q, x) : i = 1 \/ (i - 1 \in Spots(t, x) /\ (i - 1) + 1 = i)
  BY <1>1, <1>3 DEF Spots
<1>6. Head(q) = x <=> 1 \in Spots(q, x)
  BY <1>1 DEF Spots
<1>7. ASSUME Head(q) # x, One(Spots(q, x)) PROVE One(Spots(t, x))
  <2>1. PICK p \in Spots(q, x) : \A k \in Spots(q, x) : k = p
    BY <1>7 DEF One
  <2>2. p # 1
    BY <1>6, <1>7
  <2>. PICK r \in Spots(t, x) : r = p - 1
    BY <1>5, <2>2
  <2>3. \A k \in Spots(t, x) : k = r
    <3>. SUFFICES ASSUME NEW k \in Spots(t, x) PROVE k = r
      OBVIOUS
    <3>1. k \in Nat /\ k + 1 = p /\ r \in Nat /\ r + 1 = p
      BY <1>4, <2>1
    <3>. QED BY <3>1
  <2>. QED BY <2>3 DEF One
<1>8. ASSUME Head(q) = x, One(Spots(q, x)) PROVE Spots(t, x) = {}
  <2>1. \A k \in Spots(q, x) : k = 1
    BY <1>6, <1>8 DEF One
  <2>. QED BY <1>4, <2>1
<1>9. (Spots(q, x) = {} => Spots(t, x) = {}) /\ (Spots(t, x) # {} => Spots(q, x) # {})
  BY <1>4
<1>10. Head(q) # x => Same(Spots(q, x), Spots(t, x))
  BY <1>7, <1>9 DEF Same
<1>. QED BY <1>6, <1>8, <1>9, <1>10

LEMMA PlacesAre ==
  ASSUME NEW q, NEW m, NEW u, NEW p
  PROVE  p \in Places(q, m, u) <=>
           \E i \in DOMAIN q : q[i].user = u /\ \E k \in DOMAIN q[i].msgs : q[i].msgs[k] = m /\ p = <<i, k>>
BY DEF Places

LEMMA AppendedPlaces ==
  ASSUME NEW q \in Seq(Frames), NEW f \in Frames, NEW m, NEW u, NEW p
  PROVE  p \in Places(Append(q, f), m, u) <=>
           p \in Places(q, m, u) \/ (f.user = u /\ \E k \in Spots(f.msgs, m) : p = <<Len(q) + 1, k>>)
<1>. PICK n \in Nat, r \in Seq(Frames) : n = Len(q) /\ r = Append(q, f)
  <2>1. Append(q, f) \in Seq(Frames) /\ Len(q) \in Nat
    OBVIOUS
  <2>. QED BY <2>1
<1>1. DOMAIN q = 1 .. n /\ DOMAIN r = 1 .. n + 1 /\ r[n + 1] = f /\ \A i \in 1 .. n : r[i] = q[i]
  OBVIOUS
<1>2. \A i : i \in 1 .. n + 1 <=> i \in 1 .. n \/ i = n + 1
  OBVIOUS
<1>3. ASSUME p \in Places(r, m, u)
      PROVE  p \in Places(q, m, u) \/ (f.user = u /\ \E k \in Spots(f.msgs, m) : p = <<n + 1, k>>)
  <2>1. PICK i \in DOMAIN r : r[i].user = u /\ \E k \in DOMAIN r[i].msgs : r[i].msgs[k] = m /\ p = <<i, k>>
    BY <1>3 DEF Places
  <2>2. CASE i = n + 1
    BY <1>1, <2>1, <2>2 DEF Spots
  <2>3. CASE i \in 1 .. n
    BY <1>1, <2>1, <2>3, PlacesAre
  <2>. QED BY <1>1, <1>2, <2>2, <2>3
<1>4. ASSUME p \in Places(q, m, u) PROVE p \in Places(r, m, u)
  <2>1. PICK i \in DOMAIN q : q[i].user = u /\ \E k \in DOMAIN q[i].msgs : q[i].msgs[k] = m /\ p = <<i, k>>
    BY <1>4, PlacesAre
  <2>2. i \in DOMAIN r /\ r[i] = q[i]
    BY <1>1, <1>2
  <2>. QED BY <2>1, <2>2 DEF Places
<1>5. ASSUME f.user = u, NEW k \in Spots(f.msgs, m), p = <<n + 1, k>> PROVE p \in Places(r, m, u)
  <2>1. n + 1 \in DOMAIN r /\ k \in DOMAIN f.msgs /\ f.msgs[k] = m
    BY <1>1, <1>2 DEF Spots
  <2>. QED BY <1>1, <1>5, <2>1, PlacesAre
<1>. QED BY <1>3, <1>4, <1>5

LEMMA PlacesAppended ==
  ASSUME NEW q \in Seq(Frames), NEW f \in Frames, NEW m, NEW u
  PROVE  /\ f.user # u \/ Spots(f.msgs, m) = {} => Places(Append(q, f), m, u) = Places(q, m, u)
         /\ f.user = u /\ Places(q, m, u) = {} /\ One(Spots(f.msgs, m)) => One(Places(Append(q, f), m, u))
<1>. PICK n \in Nat, r \in Seq(Frames) : n = Len(q) /\ r = Append(q, f)
  <2>1. Append(q, f) \in Seq(Frames) /\ Len(q) \in Nat
    OBVIOUS
  <2>. QED BY <2>1
<1>1. \A p : p \in Places(r, m, u) <=>
         p \in Places(q, m, u) \/ (f.user = u /\ \E k \in Spots(f.msgs, m) : p = <<n + 1, k>>)
  BY AppendedPlaces
<1>2. ASSUME f.user = u, Places(q, m, u) = {}, One(Spots(f.msgs, m)) PROVE One(Places(r, m, u))
  <2>1. PICK k \in Spots(f.msgs, m) : Spots(f.msgs, m) = {k}
    BY <1>2 DEF One
  <2>2. Places(r, m, u) = {<<n + 1, k>>}
    BY <1>1, <1>2, <2>1
  <2>. QED BY <2>2, OneElement
<1>3. ASSUME f.user # u \/ Spots(f.msgs, m) = {} PROVE Places(r, m, u) = Places(q, m, u)
  BY <1>1, <1>3
<1>. QED BY <1>2, <1>3

LEMMA JoinedPlaces ==
  ASSUME NEW q \in Seq(Frames), NEW t \in Seq(Frames), NEW m, NEW u, NEW p
  PROVE  p \in Places(q \o t, m, u) <=>
           p \in Places(q, m, u) \/ \E o \in Places(t, m, u) : p = <<Len(q) + o[1], o[2]>>
<1>. PICK n \in Nat, k \in Nat, r \in Seq(Frames) : n = Len(q) /\ k = Len(t) /\ r = q \o t
  <2>1. q \o t \in Seq(Frames)
    OBVIOUS
  <2>. QED BY <2>1, Joined
<1>1. /\ DOMAIN q = 1 .. n /\ DOMAIN r = 1 .. n + k /\ DOMAIN t = 1 .. k
      /\ \A i \in 1 .. n : r[i] = q[i]
      /\ \A i \in n + 1 .. n + k : i - n \in 1 .. k /\ r[i] = t[i - n]
  BY Joined
<1>2. \A i \in 1 .. n + k : i \in 1 .. n \/ (i \in n + 1 .. n + k /\ i = n + (i - n))
  OBVIOUS
<1>3. \A i \in 1 .. k : n + i \in n + 1 .. n + k /\ n + i \in 1 .. n + k /\ (n + i) - n = i
  OBVIOUS
<1>4. ASSUME p \in Places(r, m, u)
      PROVE  p \in Places(q, m, u) \/ \E o \in Places(t, m, u) : p = <<n + o[1], o[2]>>
  <2>1. PICK i \in DOMAIN r : r[i].user = u /\ \E j \in DOMAIN r[i].msgs : r[i].msgs[j] = m /\ p = <<i, j>>
    BY <1>4 DEF Places
  <2>2. CASE i \in 1 .. n
    BY <1>1, <2>1, <2>2, PlacesAre
  <2>3. CASE i \in n + 1 .. n + k /\ i = n + (i - n)
    <3>. PICK h : h = i - n
      OBVIOUS
    <3>1. h \in DOMAIN t /\ r[i] = t[h] /\ i = n + h
      BY <1>1, <2>3
    <3>2. PICK j \in DOMAIN t[h].msgs : t[h].msgs[j] = m /\ p = <<i, j>>
      BY <2>1, <3>1
    <3>3. <<h, j>> \in Places(t, m, u)
      BY <2>1, <3>1, <3>2, PlacesAre
    <3>. QED BY <3>1, <3>2, <3>3
  <2>. QED BY <1>1, <1>2, <2>2, <2>3
<1>5. ASSUME p \in Places(q, m, u) PROVE p \in Places(r, m, u)
  <2>1. PICK i \in DOMAIN q : q[i].user = u /\ \E j \in DOMAIN q[i].msgs : q[i].msgs[j] = m /\ p = <<i, j>>
    BY <1>5, PlacesAre
  <2>2. i \in DOMAIN r /\ r[i] = q[i]
    BY <1>1
  <2>. QED BY <2>1, <2>2 DEF Places
<1>6. ASSUME NEW o \in Places(t, m, u), p = <<n + o[1], o[2]>> PROVE p \in Places(r, m, u)
  <2>1. PICK i \in DOMAIN t : t[i].user = u /\ \E j \in DOMAIN t[i].msgs : t[i].msgs[j] = m /\ o = <<i, j>>
    BY PlacesAre
  <2>2. PICK j \in DOMAIN t[i].msgs : t[i].msgs[j] = m /\ o = <<i, j>>
    BY <2>1
  <2>3. n + i \in DOMAIN r /\ r[n + i] = t[i] /\ p = <<n + i, j>>
    BY <1>1, <1>3, <1>6, <2>2
  <2>. QED BY <2>1, <2>2, <2>3, PlacesAre
<1>. QED BY <1>4, <1>5, <1>6

LEMMA PlacesJoined ==
  ASSUME NEW q \in Seq(Frames), NEW t \in Seq(Frames), NEW m, NEW u
  PROVE  /\ Places(t, m, u) = {} => Places(q \o t, m, u) = Places(q, m, u)
         /\ Places(q, m, u) = {} /\ One(Places(t, m, u)) => One(Places(q \o t, m, u))
<1>. PICK n \in Nat, k \in Nat, r \in Seq(Frames) : n = Len(q) /\ k = Len(t) /\ r = q \o t
  <2>1. q \o t \in Seq(Frames)
    OBVIOUS
  <2>. QED BY <2>1, Joined
<1>1. \A p : p \in Places(r, m, u) <=>
         p \in Places(q, m, u) \/ \E o \in Places(t, m, u) : p = <<n + o[1], o[2]>>
  BY JoinedPlaces
<1>2. ASSUME Places(q, m, u) = {}, One(Places(t, m, u)) PROVE One(Places(r, m, u))
  <2>1. PICK o \in Places(t, m, u) : Places(t, m, u) = {o}
    BY <1>2 DEF One
  <2>2. Places(r, m, u) = {<<n + o[1], o[2]>>}
    BY <1>1, <1>2, <2>1
  <2>. QED BY <2>2, OneElement
<1>3. ASSUME Places(t, m, u) = {} PROVE Places(r, m, u) = Places(q, m, u)
  BY <1>1, <1>3
<1>. QED BY <1>2, <1>3

-----------------------------------------------------------------------------
(***************************************************************************)
(* A session that is settled.                                              *)
(***************************************************************************)
\* What the invariants of the sessions, connections and subscriptions give.
BaseInv == PresenceInv /\ ConnInv /\ EntryListens

\* A step that leaves the session of u alone.
SameSession(u) ==
  userState'[u] = userState[u] /\ \A s \in Servers : userConnMap'[s][u] = userConnMap[s][u]

LEMMA Untyped ==
  ASSUME BaseInv
  PROVE  /\ MutexInv /\ TypeInv /\ Alone /\ OwnInv /\ OnlineIsLive /\ OneLogin /\ ConnInv /\ NoSignal
         /\ AtMostOneSession
BY DEF BaseInv, PresenceInv, MutexInv, OwnInv, Alone

\* Only a login or the end of a session changes a session, and both show first.
LEMMA SettledStays ==
  ASSUME BaseInv, StopKinds = {}, [Next]_vars, NEW u \in Users, ~Unsettled(u)
  PROVE  SameSession(u)
<1>0. MutexInv /\ Alone /\ NoSignal /\ userState \in [Users -> {"online", "offline"}]
      /\ userConnMap \in [Servers -> [Users -> Conns \cup {None}]]
  BY Untyped DEF TypeInv, TypeOK, TablesTypeOK, SessionsTypeOK
<1>1. CASE UNCHANGED <<userState, userConnMap>>
  BY <1>1 DEF SameSession
<1>2. ASSUME NEW l \in Loops, Dispatch(l) \/ Handle(l) PROVE SameSession(u)
  <2>1. CASE LoginInsert(l)
    <3>1. job[l].user # u
      BY <2>1 DEF LoginInsert, Unsettled
    <3>. QED BY <1>0, <2>1, <3>1 DEF LoginInsert, SameSession, tableVars
  <2>2. CASE LoginOnline(l) \/ CloseOffline(l)
    <3>1. job[l].user # u /\ UNCHANGED userConnMap
      BY <2>2 DEF LoginOnline, CloseOffline, Unsettled, sessionVars
    <3>2. userState'[u] = userState[u]
      BY <1>0, <2>2, <3>1 DEF LoginOnline, CloseOffline, UserUpdateState
    <3>. QED BY <3>1, <3>2 DEF SameSession
  <2>3. CASE CloseErase(l)
    <3>1. job[l].user # u
      BY <2>3 DEF CloseErase, Unsettled
    <3>. QED BY <1>0, <2>3, <3>1 DEF CloseErase, SameSession, tableVars
  <2>4. CASE LoginSubscribe(l) \/ CloseUnsubscribe(l)
    BY <1>1, <2>4 DEF LoginSubscribe, CloseUnsubscribe, sessionVars, tableVars
  <2>5. CASE RunPendingFunctors(l)
    BY <1>1, <2>5 DEF RunPendingFunctors, sessionVars, tableVars
  <2>6. CASE \E next, j : QuietMove(l, next, j)
    BY <1>1, <2>6 DEF QuietMove
  <2>. QED BY <1>0, <1>2, <2>1, <2>2, <2>3, <2>4, <2>5, <2>6, ThreadShape
<1>3. ASSUME NEW c \in Conns, Accept(c) \/ Terminal(c) \/ \E v \in Users : Login(c, v)
      PROVE  SameSession(u)
  BY <1>1, <1>3, TerminalsAside
<1>4. ASSUME NEW s \in Servers, Observe(s) \/ Redis(s) \/ Start(s) PROVE SameSession(u)
  BY <1>1, <1>4, OthersAside
<1>5. \A s \in Servers : ~Sigint(s) /\ ~Reset(s) /\ ~Crash(s)
  BY <1>0, SignalFree DEF Crash
<1>6. CASE UNCHANGED vars
  BY <1>1, <1>6 DEF vars, tableVars, sessionVars
<1>. QED BY <1>2, <1>3, <1>4, <1>5, <1>6 DEF Next

LEMMA SettledEntry ==
  ASSUME BaseInv, NEW u \in Users, ~Unsettled(u), NEW s \in Servers, userConnMap[s][u] # None
  PROVE  /\ userConnMap[s][u] \in Conns /\ connected[userConnMap[s][u]]
         /\ ConnServer(userConnMap[s][u]) = s
<1>1. userConnMap[s][u] \in Conns
  BY Untyped DEF TypeInv, TypeOK, SessionsTypeOK
<1>2. connected[userConnMap[s][u]]
  BY DEF Unsettled
<1>3. EntryOK(userConnMap[s][u])
  BY <1>1, Untyped DEF ConnInv, ConnOK
<1>. QED BY <1>1, <1>2, <1>3 DEF EntryOK

\* A message published to an online account reaches the one server it is on.
LEMMA OneSubscriber ==
  ASSUME BaseInv, NEW u \in Users, ~Unsettled(u), userState[u] = "online"
  PROVE  \E s \in Servers : subs[u] = {s} /\ userConnMap[s][u] # None
<1>1. PICK s \in Servers : Live(s, u)
  BY Untyped DEF OnlineIsLive
<1>2. \A t \in Servers : WillListen(t, u) <=> t \in subs[u]
  <2>. SUFFICES ASSUME NEW t \in Servers PROVE WillListen(t, u) <=> t \in subs[u]
    OBVIOUS
  <2>1. Own(t, u) = {}
    BY DEF Unsettled, Own
  <2>. QED BY <2>1, Listening
<1>3. WillListen(s, u)
  <2>1. Listens(s, u)
    BY <1>1, ListensIs DEF BaseInv
  <2>2. ~Turning(s, u)
    <3>. SUFFICES ASSUME NEW l \in Loops, job[l].user = u, pc[l] \in {"loginSubscribe", "closeOffline"}
                  PROVE  FALSE
      BY DEF Turning
    <3>. QED BY DEF Unsettled
  <2>3. it[s] = None /\ None # u
    BY Untyped, NoneAssumption DEF NoSignal, MutexInv, ResetOK, InReset
  <2>. QED BY <2>1, <2>2, <2>3 DEF Listens
<1>4. \A t \in Servers : WillListen(t, u) => t = s
  BY <1>1, Untyped DEF OwnInv, ListenersLive, AtMostOneSession
<1>5. subs[u] \subseteq Servers
  BY Untyped DEF TypeInv, TypeOK, RedisTypeOK
<1>6. subs[u] = {s}
  BY <1>2, <1>3, <1>4, <1>5
<1>. QED BY <1>1, <1>6 DEF Live

-----------------------------------------------------------------------------
(***************************************************************************)
(* What was sent.                                                          *)
(***************************************************************************)
\* m is sent from c.
NewMessage(c, m) == (m \in Chats /\ SendChat(c, m)) \/ (m \in GroupChats /\ SendGroupChat(c, m))

\* Redis and the servers stand still.
Aside == UNCHANGED redisVars /\ ServersIdle

LEMMA ThreadsSendNothing ==
  ASSUME NEW l \in Loops, Dispatch(l) \/ Handle(l)
  PROVE  /\ UNCHANGED <<sent, clientPc>>
         /\ UNCHANGED request \/ \E c \in Conns : OnMessage(l, c)
<1>1. CASE LoginStep(l)
  BY <1>1 DEF LoginStep, LoginRefuse, LoginAccept, LoginInsert, LoginSubscribe, LoginOnline, LoginReadOffline,
     LoginRemoveOffline, LoginAck, terminalVars
<1>2. CASE CloseStep(l)
  BY <1>2 DEF CloseStep, CloseFind, CloseNothing, CloseUnsubscribe, CloseOffline, CloseErase, terminalVars
<1>3. CASE OneChatStep(l)
  BY <1>3 DEF OneChatStep, OneChatFind, OneChatQuery, OneChatPublish, OneChatStore, terminalVars
<1>4. CASE GroupChatStep(l)
  BY <1>4 DEF GroupChatStep, GroupChatQuery, GroupChatLock, GroupChatSend, GroupChatAbsent, GroupChatPublish,
     GroupChatStore, GroupChatEnd, terminalVars
<1>5. CASE Dispatch(l)
  BY <1>5 DEF Dispatch, OnMessage, OnClose, RunPendingFunctors, terminalVars
<1>. QED BY <1>1, <1>2, <1>3, <1>4, <1>5 DEF Handle

LEMMA OthersSendNothing ==
  ASSUME NEW s \in Servers, Observe(s) \/ Redis(s) \/ Start(s)
  PROVE  UNCHANGED <<sent, clientPc, request, connected>>
BY DEF Observe, ObserverForward, ObserverStore, Redis, Start, terminalVars, SendFrame, ServersIdle, netVars

LEMMA TerminalsSend ==
  ASSUME NEW c \in Conns, Accept(c) \/ Terminal(c) \/ \E u \in Users : Login(c, u)
  PROVE  /\ UNCHANGED <<tableVars, redisVars, toClient, pending, pc, job, observer, userConnMap>>
         /\ \/ \E m \in Msgs : NewMessage(c, m)
            \/ UNCHANGED <<sent, request>>
            \/ UNCHANGED sent /\ Exit(c)
            \/ /\ UNCHANGED sent /\ request[c] = NoRequest
               /\ \E r : request' = [request EXCEPT ![c] = r] /\ r.kind \in {"login", "loginout"} /\ r.msg = None
<1>1. CASE Accept(c)
  BY <1>1 DEF Accept, Connect, threadVars, sessionVars
<1>2. ASSUME NEW u \in Users, Login(c, u)
      PROVE  /\ UNCHANGED <<sent, toClient>> /\ Aside /\ request[c] = NoRequest
             /\ \E r : request' = [request EXCEPT ![c] = r] /\ r.kind \in {"login", "loginout"} /\ r.msg = None
  <2>1. PICK p \in Passwords : SendLogin(c, u, p)
    BY <1>2 DEF Login
  <2>. PICK r : r = [kind |-> "login", user |-> u, msg |-> None, password |-> p]
    OBVIOUS
  <2>2. request' = [request EXCEPT ![c] = r] /\ r.kind = "login" /\ r.msg = None
    BY <2>1 DEF SendLogin, Send
  <2>. QED BY <1>2, <2>1, <2>2 DEF Login, SendLogin, Send, Aside
<1>3. ASSUME SendLoginout(c)
      PROVE  /\ UNCHANGED <<sent, toClient>> /\ request[c] = NoRequest
             /\ \E r : request' = [request EXCEPT ![c] = r] /\ r.kind \in {"login", "loginout"} /\ r.msg = None
  <2>. PICK r : r = [kind |-> "loginout", user |-> clientUser[c], msg |-> None, password |-> None]
    OBVIOUS
  <2>2. request' = [request EXCEPT ![c] = r] /\ r.kind = "loginout" /\ r.msg = None
    BY <1>3 DEF SendLoginout, Send
  <2>. QED BY <1>3, <2>2 DEF SendLoginout, Send
<1>4. CASE Terminal(c)
  <2>1. Aside
    BY <1>4 DEF Terminal, Aside
  <2>2. CASE ReadLoginAck(c)
    BY <2>1, <2>2 DEF ReadLoginAck, Aside, ServersIdle, threadVars, sessionVars
  <2>3. CASE SendLoginout(c)
    BY <1>3, <2>1, <2>3 DEF Aside, ServersIdle, threadVars, sessionVars
  <2>4. CASE Exit(c)
    BY <2>1, <2>4 DEF Exit, Aside, ServersIdle, threadVars, sessionVars
  <2>5. ASSUME NEW m \in Msgs, NewMessage(c, m)
        PROVE  UNCHANGED toClient
    BY <2>5 DEF NewMessage, SendChat, SendGroupChat
  <2>6. CASE \E m \in Msgs : NewMessage(c, m)
    BY <2>1, <2>5, <2>6 DEF Aside, ServersIdle, threadVars, sessionVars
  <2>. QED BY <1>4, <2>2, <2>3, <2>4, <2>6 DEF Terminal, NewMessage, Msgs
<1>. QED BY <1>1, <1>2, <1>4 DEF Aside, ServersIdle, threadVars, sessionVars

\* m was appended to what was sent, from c.
Posted(c, m) ==
  \E n : /\ n \notin DOMAIN sent /\ DOMAIN sent' = DOMAIN sent \cup {n}
         /\ sent'[n].msg = m /\ sent'[n].from = clientUser[c] /\ sent'[n].conn = c
         /\ \A i \in DOMAIN sent : sent'[i] = sent[i]

LEMMA NewMessageIs ==
  ASSUME TypeInv, NEW c \in Conns, NEW m \in Msgs, NewMessage(c, m)
  PROVE  /\ ~WasSent(m) /\ WasSent(m)' /\ request[c] = NoRequest
         /\ \E r : /\ request' = [request EXCEPT ![c] = r] /\ r.msg = m
                   /\ \/ m \in Chats /\ r.kind = "oneChat" /\ r.user = AddresseeOf[m]
                      \/ m \in GroupChats /\ r.kind = "groupChat" /\ r.user = clientUser[c]
         /\ Posted(c, m)
<1>1. Post(c, m) /\ ~WasSent(m) /\ request[c] = NoRequest /\ clientPc[c] = "chatting"
  BY DEF NewMessage, SendChat, SendGroupChat, Send, Post
<1>2. clientUser[c] \in Users /\ sent \in Seq(Posts)
  BY <1>1 DEF TypeInv, TypeOK, TerminalsTypeOK, TerminalsOK
<1>. PICK e \in Posts : e = [msg |-> m, from |-> clientUser[c], conn |-> c]
  BY <1>2 DEF Posts
<1>3. sent' = Append(sent, e) /\ e.msg = m /\ e.from = clientUser[c] /\ e.conn = c
  BY <1>1 DEF Post
<1>4. \E n : /\ n \notin DOMAIN sent /\ DOMAIN sent' = DOMAIN sent \cup {n} /\ sent'[n] = e
             /\ \A i \in DOMAIN sent : sent'[i] = sent[i]
  <2>. PICK q \in Seq(Posts) : q = sent
    BY <1>2
  <2>. PICK n : n = Len(q) + 1
    OBVIOUS
  <2>1. /\ n \notin DOMAIN q /\ DOMAIN Append(q, e) = DOMAIN q \cup {n} /\ Append(q, e)[n] = e
        /\ \A i \in DOMAIN q : Append(q, e)[i] = q[i]
    OBVIOUS
  <2>. QED BY <1>3, <2>1
<1>5. \E r : /\ request' = [request EXCEPT ![c] = r] /\ r.msg = m
             /\ \/ m \in Chats /\ r.kind = "oneChat" /\ r.user = AddresseeOf[m]
                \/ m \in GroupChats /\ r.kind = "groupChat" /\ r.user = clientUser[c]
  <2>1. CASE m \in Chats /\ SendChat(c, m)
    <3>. PICK r : r = [kind |-> "oneChat", user |-> AddresseeOf[m], msg |-> m, password |-> None]
      OBVIOUS
    <3>1. request' = [request EXCEPT ![c] = r] /\ r.msg = m /\ r.kind = "oneChat" /\ r.user = AddresseeOf[m]
      BY <2>1 DEF SendChat, Send
    <3>. QED BY <2>1, <3>1
  <2>2. CASE m \in GroupChats /\ SendGroupChat(c, m)
    <3>. PICK r : r = [kind |-> "groupChat", user |-> clientUser[c], msg |-> m, password |-> None]
      OBVIOUS
    <3>1. request' = [request EXCEPT ![c] = r] /\ r.msg = m /\ r.kind = "groupChat" /\ r.user = clientUser[c]
      BY <2>2 DEF SendGroupChat, Send
    <3>. QED BY <2>2, <3>1
  <2>. QED BY <2>1, <2>2 DEF NewMessage
<1>6. WasSent(m)'
  BY <1>3, <1>4 DEF WasSent
<1>7. Posted(c, m)
  BY <1>3, <1>4 DEF Posted
<1>. QED BY <1>1, <1>3, <1>4, <1>5, <1>6, <1>7

\* What was sent stays sent.
Grows == \A i \in DOMAIN sent : i \in DOMAIN sent' /\ sent'[i] = sent[i]

LEMMA SentGrows ==
  ASSUME BaseInv, StopKinds = {}, [Next]_vars
  PROVE  Grows /\ (UNCHANGED sent \/ \E c \in Conns, m \in Msgs : NewMessage(c, m))
<1>1. ASSUME NEW c \in Conns, Accept(c) \/ Terminal(c) \/ \E u \in Users : Login(c, u)
      PROVE  Grows /\ (UNCHANGED sent \/ \E m \in Msgs : NewMessage(c, m))
  <2>1. ASSUME NEW m \in Msgs, NewMessage(c, m) PROVE Grows
    <3>1. \E n : /\ DOMAIN sent' = DOMAIN sent \cup {n}
                 /\ \A i \in DOMAIN sent : sent'[i] = sent[i]
      BY <2>1, NewMessageIs, Untyped DEF Posted
    <3>. QED BY <3>1 DEF Grows
  <2>2. UNCHANGED sent => Grows
    BY DEF Grows
  <2>. QED BY <1>1, <2>1, <2>2, TerminalsSend
<1>2. ASSUME NEW l \in Loops, Dispatch(l) \/ Handle(l) PROVE UNCHANGED sent
  BY <1>2, ThreadsSendNothing
<1>3. ASSUME NEW s \in Servers, Observe(s) \/ Redis(s) \/ Start(s) PROVE UNCHANGED sent
  BY <1>3, OthersSendNothing
<1>4. \A s \in Servers : ~Sigint(s) /\ ~Reset(s) /\ ~Crash(s)
  BY Untyped, SignalFree DEF Crash
<1>5. UNCHANGED vars => UNCHANGED sent
  BY DEF vars, terminalVars
<1>6. UNCHANGED sent => Grows
  BY DEF Grows
<1>. QED BY <1>1, <1>2, <1>3, <1>4, <1>5, <1>6 DEF Next

-----------------------------------------------------------------------------
(***************************************************************************)
(* TrailInv is inductive.                                                  *)
(***************************************************************************)
LEMMA SentByGrows == ASSUME Grows, NEW m, NEW u, SentBy(m, u) PROVE SentBy(m, u)'
BY DEF Grows, SentBy

LEMMA SentFromGrows == ASSUME Grows, NEW m, NEW c, SentFrom(m, c) PROVE SentFrom(m, c)'
BY DEF Grows, SentFrom

LEMMA SentOnceStep ==
  ASSUME BaseInv, StopKinds = {}, SentOnce, [Next]_vars
  PROVE  SentOnce'
<1>1. CASE UNCHANGED sent
  BY <1>1 DEF SentOnce
<1>2. ASSUME NEW c \in Conns, NEW m \in Msgs, NewMessage(c, m) PROVE SentOnce'
  <2>1. PICK n : /\ n \notin DOMAIN sent /\ DOMAIN sent' = DOMAIN sent \cup {n}
                 /\ sent'[n].msg = m /\ \A i \in DOMAIN sent : sent'[i] = sent[i]
    BY <1>2, NewMessageIs, Untyped DEF Posted
  <2>2. \A i \in DOMAIN sent : sent'[i].msg # m
    BY <1>2, <2>1, NewMessageIs, Untyped DEF WasSent
  <2>. QED BY <2>1, <2>2 DEF SentOnce
<1>. QED BY <1>1, <1>2, SentGrows

LEMMA TerminalTrail ==
  ASSUME BaseInv, TrailInv, Grows, NEW c \in Conns, Accept(c) \/ Terminal(c) \/ \E u \in Users : Login(c, u)
  PROVE  (\A d \in Conns : RequestFits(d)') /\ (\A l \in Loops : JobFits(l)')
<1>1. \A l \in Loops : JobFits(l)'
  BY SentByGrows, SentFromGrows, TerminalsSend DEF TrailInv, JobFits, tableVars
<1>2. ASSUME NEW d \in Conns, request'[d] = request[d] PROVE RequestFits(d)'
  BY <1>2, SentByGrows, SentFromGrows DEF TrailInv, RequestFits
<1>3. request \in [Conns -> Requests]
  BY Untyped DEF TypeInv, TypeOK, TerminalsTypeOK
<1>4. \A d \in Conns : RequestFits(d)'
  <2>1. CASE UNCHANGED request
    BY <1>2, <2>1
  <2>2. ASSUME NEW r, request' = [request EXCEPT ![c] = r], r.kind \in {"login", "loginout"}, r.msg = None
        PROVE  \A d \in Conns : RequestFits(d)'
    <3>1. request'[c] = r /\ \A d \in Conns \ {c} : request'[d] = request[d]
      BY <1>3, <2>2
    <3>2. RequestFits(c)'
      BY <2>2, <3>1 DEF RequestFits
    <3>. QED BY <1>2, <3>1, <3>2
  <2>3. CASE Exit(c)
    <3>1. request'[c] \in {request[c], NoRequest} /\ \A d \in Conns \ {c} : request'[d] = request[d]
      BY <1>3, <2>3 DEF Exit
    <3>2. request'[c] = NoRequest => RequestFits(c)'
      BY DEF RequestFits, NoRequest
    <3>. QED BY <1>2, <3>1, <3>2
  <2>4. ASSUME NEW m \in Msgs, NewMessage(c, m) PROVE \A d \in Conns : RequestFits(d)'
    <3>1. PICK r : /\ request' = [request EXCEPT ![c] = r] /\ r.msg = m
                   /\ \/ m \in Chats /\ r.kind = "oneChat" /\ r.user = AddresseeOf[m]
                      \/ m \in GroupChats /\ r.kind = "groupChat" /\ r.user = clientUser[c]
      BY <2>4, NewMessageIs, Untyped
    <3>2. request'[c] = r /\ \A d \in Conns \ {c} : request'[d] = request[d]
      BY <1>3, <3>1
    <3>3. SentBy(m, clientUser[c])' /\ SentFrom(m, c)'
      <4>0. PICK n : /\ n \notin DOMAIN sent /\ DOMAIN sent' = DOMAIN sent \cup {n}
                     /\ sent'[n].msg = m /\ sent'[n].from = clientUser[c] /\ sent'[n].conn = c
                     /\ \A i \in DOMAIN sent : sent'[i] = sent[i]
        <5>1. Posted(c, m)
          BY <2>4, NewMessageIs, Untyped
        <5>. QED BY <5>1 DEF Posted
      <4>1. n \in DOMAIN sent'
        BY <4>0
      <4>. PICK v : v = clientUser[c]
        OBVIOUS
      <4>2. SentBy(m, v)' /\ SentFrom(m, c)'
        BY <4>0, <4>1 DEF SentBy, SentFrom
      <4>3. clientUser' = clientUser
        BY <2>4 DEF NewMessage, SendChat, SendGroupChat
      <4>. QED BY <4>2, <4>3
    <3>4. clientUser' = clientUser
      BY <2>4 DEF NewMessage, SendChat, SendGroupChat
    <3>5. RequestFits(c)'
      BY <3>1, <3>2, <3>3, <3>4 DEF RequestFits
    <3>. QED BY <1>2, <3>2, <3>5
  <2>. QED BY <2>1, <2>2, <2>3, <2>4, TerminalsSend
<1>. QED BY <1>1, <1>4

\* The session of a login that is about to be answered stays.
LEMMA LateLogin ==
  ASSUME BaseInv, TrailInv, ~DBFaults, NEW l \in Loops, Dispatch(l) \/ Handle(l),
         NEW k \in Loops, k # l, pc[k] \in {"loginReadOffline", "loginRemoveOffline", "loginAck"}
  PROVE  /\ userState'[job[k].user] = "online"
         /\ userConnMap'[ServerOf[k]][job[k].user] = job[k].conn
<1>. PICK u \in Users, c \in Conns, s \in Servers : u = job[k].user /\ c = job[k].conn /\ s = ServerOf[k]
  <2>1. JobOK(k, pc[k], job[k])
    BY Untyped DEF TypeInv, JobsOK
  <2>. QED BY <2>1, PlacementAssumption DEF JobOK, LoginPcs
<1>0. /\ userState[u] = "online" /\ userConnMap[s][u] = c /\ LoopOf[c] = k /\ c # None
      /\ userState \in [Users -> {"online", "offline"}]
      /\ userConnMap \in [Servers -> [Users -> Conns \cup {None}]]
      /\ MutexInv /\ Alone /\ OwnInv /\ NoSignal /\ AtMostOneSession
  <2>1. JobOK(k, pc[k], job[k])
    BY Untyped DEF TypeInv, JobsOK
  <2>. QED BY <2>1, Untyped, NoneAssumption DEF TrailInv, JobFits, TypeInv, TypeOK, TablesTypeOK, SessionsTypeOK, JobOK
<1>1. ASSUME NEW h \in Loops, pc[h] \in {"closeUnsubscribe", "closeOffline", "closeErase"},
             job[h].user = u, ServerOf[h] = s
      PROVE  FALSE
  <2>1. job[h].conn = c
    BY <1>0, <1>1, Standing
  <2>2. JobOK(h, pc[h], job[h])
    BY Untyped DEF TypeInv, JobsOK
  <2>. QED BY <1>0, <1>1, <2>1, <2>2 DEF JobOK
<1>2. Live(s, u)
  BY <1>0, <1>1 DEF Live, Ending, NoSignal, InReset
<1>3. CASE UNCHANGED <<userState, userConnMap>>
  BY <1>0, <1>3
<1>4. CASE LoginInsert(l)
  BY <1>0, <1>4 DEF LoginInsert, tableVars
<1>5. CASE LoginOnline(l)
  <2>1. job[l].user \in Users
    BY <1>0, <1>5, Working
  <2>. QED BY <1>0, <1>5, <2>1 DEF LoginOnline, UserUpdateState, sessionVars
<1>6. CASE CloseOffline(l)
  <2>. PICK t \in Servers, v \in Users : t = ServerOf[l] /\ v = job[l].user
    BY <1>0, <1>6, Working
  <2>1. Live(t, v) /\ UNCHANGED userConnMap
    BY <1>0, <1>6, OfflineEffect
  <2>2. v # u
    BY <1>0, <1>1, <1>2, <1>6, <2>1 DEF AtMostOneSession, CloseOffline
  <2>. QED BY <1>0, <1>6, <2>1, <2>2 DEF CloseOffline, UserUpdateState
<1>7. CASE CloseErase(l)
  <2>. PICK t \in Servers, v \in Users : t = ServerOf[l] /\ v = job[l].user
    BY <1>0, <1>7, Working
  <2>1. ~(t = s /\ v = u)
    BY <1>1, <1>7 DEF CloseErase
  <2>2. userState' = userState /\ userConnMap'[s][u] = userConnMap[s][u]
    BY <1>0, <1>7, <2>1, EraseEffect
  <2>. QED BY <1>0, <2>2
<1>8. CASE LoginSubscribe(l) \/ CloseUnsubscribe(l)
  BY <1>3, <1>8 DEF LoginSubscribe, CloseUnsubscribe, sessionVars, tableVars
<1>9. CASE RunPendingFunctors(l)
  BY <1>3, <1>9 DEF RunPendingFunctors, sessionVars, tableVars
<1>10. CASE \E next, j : QuietMove(l, next, j)
  BY <1>3, <1>10 DEF QuietMove
<1>. QED BY <1>0, <1>4, <1>5, <1>6, <1>7, <1>8, <1>9, <1>10, ThreadShape

LEMMA OtherTrail ==
  ASSUME BaseInv, TrailInv, Grows, ~DBFaults, NEW l \in Loops, Dispatch(l) \/ Handle(l),
         NEW k \in Loops, k # l, pc'[k] = pc[k], job'[k] = job[k]
  PROVE  JobFits(k)'
<1>1. JobFits(k)
  BY DEF TrailInv
<1>2. pc[k] = "groupChat" => job[k].msg \in GroupChats /\ SentBy(job[k].msg, job[k].user)'
  BY <1>1, SentByGrows DEF JobFits
<1>3. pc[k] \in {"loginReadOffline", "loginRemoveOffline", "loginAck"} =>
        /\ userState'[job[k].user] = "online"
        /\ userConnMap'[ServerOf[k]][job[k].user] = job[k].conn
  BY LateLogin
<1>4. pc[k] \in OneChatPcs \cup GroupChatPcs => SentFrom(job[k].msg, job[k].conn)'
  BY <1>1, SentFromGrows DEF JobFits
<1>. QED BY <1>1, <1>2, <1>3, <1>4 DEF JobFits

LEMMA ThreadTrail ==
  ASSUME BaseInv, TrailInv, Grows, ~DBFaults, NEW l \in Loops, Dispatch(l) \/ Handle(l)
  PROVE  (\A c \in Conns : RequestFits(c)') /\ (\A k \in Loops : JobFits(k)')
<1>0. /\ pc \in [Loops -> Pcs] /\ job \in [Loops -> Jobs] /\ request \in [Conns -> Requests]
      /\ userState \in [Users -> {"online", "offline"}]
      /\ MutexInv /\ Alone /\ OwnInv /\ NoSignal /\ JobOK(l, pc[l], job[l])
  BY Untyped DEF TypeInv, TypeOK, ThreadsTypeOK, TerminalsTypeOK, TablesTypeOK, JobsOK
<1>1. JobFits(l) /\ (\A c \in Conns : RequestFits(c))
  BY DEF TrailInv
<1>2. \A c \in Conns : RequestFits(c)'
  <2>1. ASSUME NEW c \in Conns, request'[c] = request[c] PROVE RequestFits(c)'
    BY <1>1, <2>1, SentByGrows, SentFromGrows DEF RequestFits
  <2>2. ASSUME NEW c \in Conns, OnMessage(l, c) PROVE \A d \in Conns : RequestFits(d)'
    <3>1. request'[c] = NoRequest /\ \A d \in Conns \ {c} : request'[d] = request[d]
      BY <1>0, <2>2 DEF OnMessage
    <3>2. RequestFits(c)'
      BY <3>1 DEF RequestFits, NoRequest
    <3>. QED BY <2>1, <3>1, <3>2
  <2>3. UNCHANGED request \/ \E c \in Conns : OnMessage(l, c)
    BY <1>0, ThreadsSendNothing, DistinctThreads DEF OnMessage
  <2>. QED BY <2>1, <2>2, <2>3
<1>3. ASSUME NEW next, NEW j, GotoWith(l, next, j),
             next = "groupChat" => j.msg \in GroupChats /\ SentBy(j.msg, j.user),
             next \in {"groupPublish", "groupStore"} => j.user \notin j.rest,
             next \in OneChatPcs \cup GroupChatPcs => SentFrom(j.msg, j.conn),
             next \in {"loginReadOffline", "loginRemoveOffline", "loginAck"} =>
               /\ userState'[j.user] = "online"
               /\ userConnMap'[ServerOf[l]][j.user] = j.conn
      PROVE  \A k \in Loops : JobFits(k)'
  <2>1. /\ pc'[l] = next /\ job'[l] = j
        /\ \A k \in Loops : k # l => pc'[k] = pc[k] /\ job'[k] = job[k]
    BY <1>0, <1>3, Moving
  <2>2. next = "groupChat" => j.msg \in GroupChats /\ SentBy(j.msg, j.user)'
    BY <1>3, SentByGrows
  <2>3. JobFits(l)'
    <3>. PICK v, m : v = job'[l].user /\ m = job'[l].msg
      OBVIOUS
    <3>1. next = "groupChat" => m \in GroupChats /\ SentBy(m, v)'
      BY <2>1, <2>2
    <3>. PICK c : c = job'[l].conn
      OBVIOUS
    <3>2. next \in OneChatPcs \cup GroupChatPcs => SentFrom(m, c)'
      BY <1>3, <2>1, SentFromGrows
    <3>. QED BY <1>3, <2>1, <3>1, <3>2 DEF JobFits
  <2>4. \A k \in Loops : k # l => JobFits(k)'
    BY <2>1, OtherTrail
  <2>. QED BY <2>3, <2>4
<1>4. ASSUME NEW next, NEW j, GotoWith(l, next, j),
             next \notin OneChatPcs \cup GroupChatPcs \cup {"loginReadOffline", "loginRemoveOffline", "loginAck"}
      PROVE  \A k \in Loops : JobFits(k)'
  BY <1>3, <1>4 DEF GroupChatPcs
<1>13. ASSUME NEW next, NEW j, GotoWith(l, next, j), j.msg = job[l].msg, j.conn = job[l].conn,
              pc[l] \in OneChatPcs \cup GroupChatPcs,
              next \in (OneChatPcs \cup GroupChatPcs) \ {"groupChat"},
              next \in {"groupPublish", "groupStore"} => j.user \notin j.rest
       PROVE  \A k \in Loops : JobFits(k)'
  <2>1. next \notin {"groupChat", "loginReadOffline", "loginRemoveOffline", "loginAck"}
    BY <1>13 DEF OneChatPcs, GroupChatPcs
  <2>2. SentFrom(j.msg, j.conn)
    BY <1>1, <1>13 DEF JobFits
  <2>. QED BY <1>3, <1>13, <2>1, <2>2
<1>5. ASSUME LoginStep(l) PROVE \A k \in Loops : JobFits(k)'
  <2>. USE DEF OneChatPcs, GroupChatPcs
  <2>1. CASE LoginRefuse(l) \/ LoginAck(l)
    BY <1>4, <2>1 DEF LoginRefuse, LoginAck, Finish
  <2>2. CASE LoginAccept(l)
    <3>1. GotoWith(l, "loginInsert", job[l])
      BY <1>0, <2>2, GotoIsGotoWith DEF LoginAccept
    <3>. QED BY <1>4, <3>1
  <2>3. CASE LoginInsert(l)
    <3>1. GotoWith(l, "loginSubscribe", job[l])
      BY <1>0, <2>3, GotoIsGotoWith DEF LoginInsert
    <3>. QED BY <1>4, <3>1
  <2>4. CASE LoginSubscribe(l)
    <3>1. GotoWith(l, "loginOnline", job[l])
      BY <1>0, <2>4, GotoIsGotoWith DEF LoginSubscribe
    <3>. QED BY <1>4, <3>1
  <2>5. CASE LoginOnline(l)
    <3>1. GotoWith(l, "loginReadOffline", job[l])
      BY <1>0, <2>5, GotoIsGotoWith DEF LoginOnline
    <3>2. job[l].user \in Users
      BY <1>0, <2>5, Working
    <3>3. userState'[job[l].user] = "online"
      BY <1>0, <2>5, <3>2 DEF LoginOnline, UserUpdateState
    <3>4. userConnMap'[ServerOf[l]][job[l].user] = job[l].conn
      BY <1>0, <2>5, <3>2 DEF LoginOnline, sessionVars, OwnInv, EnteringOwns, Entering
    <3>. QED BY <1>3, <3>1, <3>3, <3>4
  <2>6. CASE LoginReadOffline(l)
    <3>1. PICK rows \in OfflineQuery(job[l].user) :
            GotoWith(l, IF rows # <<>> THEN "loginRemoveOffline" ELSE "loginAck", [job[l] EXCEPT !.msgs = rows])
      BY <2>6 DEF LoginReadOffline
    <3>. PICK j : j = [job[l] EXCEPT !.msgs = rows]
      OBVIOUS
    <3>2. j.user = job[l].user /\ j.conn = job[l].conn
      BY <1>0 DEF Jobs
    <3>3. userState'[j.user] = "online" /\ userConnMap'[ServerOf[l]][j.user] = j.conn
      BY <1>1, <2>6, <3>2 DEF LoginReadOffline, JobFits, tableVars, sessionVars
    <3>. QED BY <1>3, <3>1, <3>3
  <2>7. CASE LoginRemoveOffline(l)
    <3>1. GotoWith(l, "loginAck", job[l])
      BY <1>0, <2>7, GotoIsGotoWith DEF LoginRemoveOffline
    <3>2. userState'[job[l].user] = "online" /\ userConnMap'[ServerOf[l]][job[l].user] = job[l].conn
      BY <1>1, <2>7 DEF LoginRemoveOffline, JobFits, OfflineRemove, sessionVars
    <3>. QED BY <1>3, <3>1, <3>2
  <2>. QED BY <1>5, <2>1, <2>2, <2>3, <2>4, <2>5, <2>6, <2>7 DEF LoginStep
<1>6. ASSUME CloseStep(l) PROVE \A k \in Loops : JobFits(k)'
  <2>. USE DEF OneChatPcs, GroupChatPcs
  <2>1. CASE CloseFind(l) \/ CloseNothing(l) \/ CloseErase(l)
    BY <1>4, <2>1 DEF CloseFind, CloseNothing, CloseErase, Finish
  <2>2. CASE CloseUnsubscribe(l) \/ CloseOffline(l)
    <3>1. PICK next \in {"closeOffline", "closeErase"} : Goto(l, next)
      BY <2>2 DEF CloseUnsubscribe, CloseOffline
    <3>2. GotoWith(l, next, job[l])
      BY <1>0, <3>1, GotoIsGotoWith
    <3>. QED BY <1>4, <3>2
  <2>. QED BY <1>6, <2>1, <2>2 DEF CloseStep
<1>7. ASSUME OneChatStep(l) PROVE \A k \in Loops : JobFits(k)'
  <2>1. pc[l] \in OneChatPcs /\ (Finish(l) \/ \E next \in OneChatPcs : Goto(l, next))
    BY <1>7 DEF OneChatStep, OneChatFind, OneChatQuery, OneChatPublish, OneChatStore, OneChatPcs
  <2>2. CASE Finish(l)
    BY <1>4, <2>2 DEF Finish, OneChatPcs, GroupChatPcs
  <2>3. ASSUME NEW next \in OneChatPcs, Goto(l, next) PROVE \A k \in Loops : JobFits(k)'
    <3>1. GotoWith(l, next, job[l]) /\ next \notin {"groupPublish", "groupStore", "groupChat"}
      BY <1>0, <2>3, GotoIsGotoWith DEF OneChatPcs
    <3>. QED BY <1>13, <2>1, <3>1
  <2>. QED BY <2>1, <2>2, <2>3
<1>8. ASSUME GroupChatStep(l) PROVE \A k \in Loops : JobFits(k)'
  <2>0. {"groupChat", "groupLock", "groupNext", "groupPublish", "groupStore"} = GroupChatPcs
    BY DEF GroupChatPcs
  <2>1. CASE GroupChatQuery(l)
    <3>1. PICK ids : GotoWith(l, "groupLock", [job[l] EXCEPT !.rest = ids \ {job[l].user}])
      BY <2>1 DEF GroupChatQuery
    <3>. PICK j : j = [job[l] EXCEPT !.rest = ids \ {job[l].user}]
      OBVIOUS
    <3>2. j.msg = job[l].msg /\ j.conn = job[l].conn
      BY <1>0 DEF Jobs
    <3>3. GotoWith(l, "groupLock", j) /\ pc[l] = "groupChat"
      BY <2>1, <3>1 DEF GroupChatQuery
    <3>. PICK next : next = "groupLock"
      OBVIOUS
    <3>4. next \in (OneChatPcs \cup GroupChatPcs) \ {"groupChat"} /\ next \notin {"groupPublish", "groupStore"}
      BY <2>0
    <3>. QED BY <1>13, <2>0, <3>2, <3>3, <3>4
  <2>2. CASE GroupChatLock(l) \/ GroupChatPublish(l) \/ GroupChatStore(l)
    <3>1. GotoWith(l, "groupNext", job[l]) /\ pc[l] \in GroupChatPcs
      BY <1>0, <2>0, <2>2, GotoIsGotoWith DEF GroupChatLock, GroupChatPublish, GroupChatStore
    <3>. QED BY <1>13, <2>0, <3>1
  <2>3. ASSUME NEW u \in Users, GroupChatSend(l, u) PROVE \A k \in Loops : JobFits(k)'
    <3>. PICK j : j = Without(job[l], u)
      OBVIOUS
    <3>1. j.msg = job[l].msg /\ j.conn = job[l].conn
      BY <1>0 DEF Without, Jobs
    <3>. QED BY <1>13, <2>0, <2>3, <3>1 DEF GroupChatSend
  <2>4. ASSUME NEW u \in Users, GroupChatAbsent(l, u) PROVE \A k \in Loops : JobFits(k)'
    <3>. PICK j : j = [Without(job[l], u) EXCEPT !.user = u]
      OBVIOUS
    <3>1. PICK next \in {"groupPublish", "groupStore"} : GotoWith(l, next, j)
      BY <2>4 DEF GroupChatAbsent
    <3>2. j.user = u /\ u \notin j.rest /\ j.msg = job[l].msg /\ j.conn = job[l].conn
      BY <1>0 DEF Without, Jobs
    <3>. QED BY <1>13, <2>0, <2>4, <3>1, <3>2 DEF GroupChatAbsent
  <2>5. CASE GroupChatEnd(l)
    BY <1>4, <2>5 DEF GroupChatEnd, Finish, OneChatPcs, GroupChatPcs
  <2>. QED BY <1>8, <2>1, <2>2, <2>3, <2>4, <2>5 DEF GroupChatStep
<1>9. ASSUME NEW c \in Conns, OnMessage(l, c) PROVE \A k \in Loops : JobFits(k)'
  <2>. PICK r \in Requests : r = request[c]
    BY <1>0
  <2>. PICK j : j = JobFor(c, IF r.kind = "loginout" THEN None ELSE r.user, r.msg, r.password)
    OBVIOUS
  <2>1. GotoWith(l, HandlerOf[r.kind], j) /\ r.kind # "none"
    BY <1>9, Untyped DEF OnMessage, TypeInv, RequestsOK
  <2>2. r.kind \in {"login", "loginout", "oneChat", "groupChat"}
    BY <2>1 DEF Requests
  <2>5. r.kind \in {"oneChat", "groupChat"} => SentFrom(j.msg, j.conn)
    <3>1. j.msg = r.msg /\ j.conn = c
      BY DEF JobFor
    <3>2. r.kind \in {"oneChat", "groupChat"} => r.msg # None
      BY <1>9, Untyped, NoneAssumption DEF TypeInv, RequestsOK
    <3>. QED BY <1>1, <3>1, <3>2 DEF RequestFits
  <2>3. CASE r.kind # "groupChat"
    <3>1. CASE r.kind \in {"login", "loginout"}
      <4>1. HandlerOf[r.kind] \in {"login", "close"}
        BY <3>1 DEF HandlerOf
      <4>. QED BY <1>4, <2>1, <4>1 DEF OneChatPcs, GroupChatPcs
    <3>2. CASE r.kind = "oneChat"
      <4>1. HandlerOf[r.kind] = "oneChat"
        BY <3>2 DEF HandlerOf
      <4>. QED BY <1>3, <2>1, <2>5, <3>2, <4>1
    <3>. QED BY <2>2, <2>3, <3>1, <3>2
  <2>4. CASE r.kind = "groupChat"
    <3>1. j.msg = r.msg /\ j.user = r.user /\ HandlerOf[r.kind] = "groupChat"
      BY <2>4 DEF JobFor, HandlerOf
    <3>2. j.msg \in GroupChats /\ SentBy(j.msg, j.user)
      BY <1>1, <2>4, <3>1 DEF RequestFits
    <3>. QED BY <1>3, <2>1, <2>4, <2>5, <3>1, <3>2
  <2>. QED BY <2>3, <2>4
<1>10. ASSUME NEW c \in Conns, OnClose(l, c) PROVE \A k \in Loops : JobFits(k)'
  BY <1>4, <1>10 DEF OnClose, OneChatPcs, GroupChatPcs
<1>11. ASSUME RunPendingFunctors(l) PROVE \A k \in Loops : JobFits(k)'
  <2>1. UNCHANGED <<pc, job, userState, userConnMap>>
    BY <1>11 DEF RunPendingFunctors, threadVars, tableVars, sessionVars
  <2>. QED BY <2>1, SentByGrows, SentFromGrows DEF TrailInv, JobFits
<1>12. \A k \in Loops : JobFits(k)'
  BY <1>5, <1>6, <1>7, <1>8, <1>9, <1>10, <1>11 DEF Dispatch, Handle
<1>. QED BY <1>2, <1>12

LEMMA TrailStep ==
  ASSUME BaseInv, TrailInv, ~DBFaults, StopKinds = {}, [Next]_vars
  PROVE  TrailInv'
<1>0. Grows /\ SentOnce'
  BY SentGrows, SentOnceStep DEF TrailInv
<1>1. ASSUME NEW c \in Conns, Accept(c) \/ Terminal(c) \/ \E u \in Users : Login(c, u)
      PROVE  (\A d \in Conns : RequestFits(d)') /\ (\A l \in Loops : JobFits(l)')
  BY <1>0, <1>1, TerminalTrail
<1>2. ASSUME NEW l \in Loops, Dispatch(l) \/ Handle(l)
      PROVE  (\A d \in Conns : RequestFits(d)') /\ (\A k \in Loops : JobFits(k)')
  BY <1>0, <1>2, ThreadTrail
<1>3. ASSUME UNCHANGED <<request, pc, job, userState, userConnMap>>
      PROVE  (\A d \in Conns : RequestFits(d)') /\ (\A k \in Loops : JobFits(k)')
  BY <1>0, <1>3, SentByGrows, SentFromGrows DEF TrailInv, RequestFits, JobFits
<1>4. ASSUME NEW s \in Servers, Observe(s) \/ Redis(s) \/ Start(s)
      PROVE  UNCHANGED <<request, pc, job, userState, userConnMap>>
  BY <1>4, OthersSendNothing, OthersAside
<1>5. \A s \in Servers : ~Sigint(s) /\ ~Reset(s) /\ ~Crash(s)
  BY Untyped, SignalFree DEF Crash
<1>6. UNCHANGED vars => UNCHANGED <<request, pc, job, userState, userConnMap>>
  BY DEF vars, terminalVars, threadVars, tableVars, sessionVars
<1>7. (\A d \in Conns : RequestFits(d)') /\ (\A k \in Loops : JobFits(k)')
  BY <1>1, <1>2, <1>3, <1>4, <1>5, <1>6 DEF Next
<1>. QED BY <1>0, <1>7 DEF TrailInv

-----------------------------------------------------------------------------
(***************************************************************************)
(* One message m on its way to one account u.                              *)
(***************************************************************************)
\* What the invariant says of m and u, and what is to be shown of a step.
Tracked(m, u) ==
  /\ InPlace(m, u) /\ OnTheWay(m, u) /\ ReadAll(m, u)
  /\ InFlight(m, u) # {} => ~Unsettled(u)
  /\ WasSent(m) => /\ m \in Chats => u = AddresseeOf[m]
                   /\ m \in GroupChats => u \in Members /\ ~SentBy(m, u)

Kept(m, u) == InPlace(m, u)' /\ OnTheWay(m, u)' /\ ReadAll(m, u)'

\* Where a handler is about to publish, or to store.
Publishing == {"oneChatPublish", "groupPublish"}
Storing == {"oneChatStore", "groupStore"}

\* Whoever publishes or stores m for u has been right in choosing that way.
Choice(next, j, m, u) ==
  j.msg = m /\ j.user = u =>
    /\ next \in Publishing => InFlight(m, u) # {} /\ userState[u] = "online"
    /\ next \in Storing => InFlight(m, u) # {} /\ userState[u] = "offline"
Choices(m, u) == \A l \in Loops : Choice(pc'[l], job'[l], m, u)

\* A login of u that has read the table read it before.
Reads(l, u) ==
  pc'[l] = "loginRemoveOffline" /\ job'[l].user = u =>
    pc[l] = "loginRemoveOffline" /\ job'[l] = job[l]

LEMMA Handled ==
  ASSUME NEW l \in Loops, NEW m, NEW u
  PROVE  /\ AtJob(l, m, u) # {} <=> HandledFor(l, m, u)
         /\ HandledFor(l, m, u) => One(AtJob(l, m, u)) /\ InFlight(m, u) # {}
         /\ HandledFor(l, m, u)' => One(AtJob(l, m, u)')
         /\ ~HandledFor(l, m, u)' => AtJob(l, m, u)' = {}
         /\ ~HandledFor(l, m, u) => AtJob(l, m, u) = {}
<1>1. AtJob(l, m, u) # {} <=> HandledFor(l, m, u)
  BY DEF AtJob
<1>2. HandledFor(l, m, u) => AtJob(l, m, u) = {0}
  BY DEF AtJob
<1>3. HandledFor(l, m, u)' => AtJob(l, m, u)' = {0}
  BY DEF AtJob
<1>4. ~HandledFor(l, m, u)' => AtJob(l, m, u)' = {}
  BY DEF AtJob
<1>. QED BY <1>1, <1>2, <1>3, <1>4, OneElement, Flying

LEMMA Decided ==
  ASSUME NEW m, NEW u, OnTheWay(m, u), NEW l \in Loops, job[l].msg = m, job[l].user = u
  PROVE  /\ pc[l] \in Publishing => InFlight(m, u) # {} /\ userState[u] = "online"
         /\ pc[l] \in Storing => InFlight(m, u) # {} /\ userState[u] = "offline"
<1>1. pc[l] \in Publishing \cup Storing => HandledFor(l, m, u)
  BY DEF HandledFor, Publishing, Storing, OneChatPcs
<1>. QED BY <1>1, Handled DEF OnTheWay, Publishing, Storing

LEMMA WayKept ==
  ASSUME NEW m, NEW u, OnTheWay(m, u), InFlight(m, u) # {} => SameSession(u),
         SameObservers(m, u),
         \A s \in Servers : AtPush(s, m, u)' # {} =>
           AtPush(s, m, u) # {} \/ (InFlight(m, u) # {} /\ userConnMap[s][u] # None),
         \A c \in Conns : AtPending(c, m, u)' # {} =>
           \/ AtPending(c, m, u) # {}
           \/ InFlight(m, u) # {} /\ ConnServer(c) \in Servers /\ userConnMap[ConnServer(c)][u] = c,
         Choices(m, u)
  PROVE  OnTheWay(m, u)'
<1>1. \A s \in Servers : AtPush(s, m, u)' # {} => userConnMap'[s][u] # None
  BY Flying DEF OnTheWay, SameSession
<1>2. \A s \in Servers : AtObserver(s, m, u)' = {}
  BY DEF OnTheWay, SameObservers, Same
<1>3. \A c \in Conns : AtPending(c, m, u)' # {} => userConnMap'[ConnServer(c)][u] = c
  <2>1. \A c \in Conns : ConnServer(c) \in Servers
    BY PlacementAssumption DEF ConnServer
  <2>. QED BY <2>1, Flying DEF OnTheWay, SameSession, ConnServer
<1>4. \A l \in Loops : job'[l].msg = m /\ job'[l].user = u =>
        /\ pc'[l] \in {"oneChatPublish", "groupPublish"} => userState'[u] = "online"
        /\ pc'[l] \in {"oneChatStore", "groupStore"} => userState'[u] = "offline"
  BY DEF SameSession, Publishing, Storing, Choices, Choice
<1>. QED BY <1>1, <1>2, <1>3, <1>4 DEF OnTheWay, ConnServer

LEMMA ReadKept ==
  ASSUME NEW m, NEW u, ReadAll(m, u), AtTable(m, u)' = AtTable(m, u),
         \A l \in Loops : Reads(l, u)
  PROVE  ReadAll(m, u)'
BY DEF ReadAll, Reads

\* Nothing happens to the copies of m for u.
LEMMA NothingMoves ==
  ASSUME NEW m \in Msgs, NEW u \in Users, Tracked(m, u), SameBut({}, m, u), WasSent(m)' <=> WasSent(m),
         InFlight(m, u) # {} => SameSession(u), AtTable(m, u)' = AtTable(m, u),
         Choices(m, u),
         \A l \in Loops : Reads(l, u)
  PROVE  Kept(m, u)
<1>1. InPlace(m, u)'
  BY Stays DEF Tracked
<1>2. ReadAll(m, u)'
  BY ReadKept DEF Tracked
<1>3. OnTheWay(m, u)'
  BY WayKept DEF Tracked, SameBut, SameRedis, SameFrames, Same
<1>. QED BY <1>1, <1>2, <1>3 DEF Kept

\* The threads stand still.
LEMMA ThreadsStand ==
  ASSUME NEW m, NEW u, OnTheWay(m, u), UNCHANGED <<pc, job>>
  PROVE  Choices(m, u) /\ \A l \in Loops : Reads(l, u)
BY Decided DEF Choices, Choice, Reads

\* A frame that carries no copy, and one that does.
LEMMA EmptyFrame ==
  ASSUME TypeInv, NEW m, NEW u, NEW t, NEW d \in Conns, NEW f \in Frames, SendFrame(t, d, f),
         f.user # u \/ Spots(f.msgs, m) = {}, NEW E
  PROVE  SameFrames(E, m, u)
<1>1. pending \in [Conns -> Seq(Frames)] /\ toClient \in [Conns -> Seq(Frames)]
  BY DEF TypeInv, TypeOK, NetTypeOK
<1>2. ASSUME NEW c \in Conns PROVE AtPending(c, m, u)' = AtPending(c, m, u) /\ AtSocket(c, m, u)' = AtSocket(c, m, u)
  <2>1. pending'[c] \in {pending[c], Append(pending[c], f)} /\ toClient'[c] \in {toClient[c], Append(toClient[c], f)}
    BY <1>1 DEF SendFrame
  <2>2. pending[c] \in Seq(Frames) /\ toClient[c] \in Seq(Frames)
    BY <1>1
  <2>. PICK q, s \in Seq(Frames) : q = pending[c] /\ s = toClient[c]
    BY <2>2
  <2>3. Places(Append(q, f), m, u) = Places(q, m, u) /\ Places(Append(s, f), m, u) = Places(s, m, u)
    BY PlacesAppended
  <2>4. Places(pending'[c], m, u) = Places(pending[c], m, u) /\ Places(toClient'[c], m, u) = Places(toClient[c], m, u)
    BY <2>1, <2>3
  <2>5. AtPending(c, m, u)' = Places(pending'[c], m, u) /\ AtSocket(c, m, u)' = Places(toClient'[c], m, u)
    BY DEF AtPending, AtSocket, Places
  <2>. QED BY <2>4, <2>5 DEF AtPending, AtSocket
<1>. QED BY <1>2, SameItself DEF SameFrames

LEMMA FullFrame ==
  ASSUME TypeInv, NEW m, NEW u, NEW t, NEW d \in Conns, NEW f \in Frames, SendFrame(t, d, f),
         connected[d], f.user = u, One(Spots(f.msgs, m)), NEW E
  PROVE  /\ t = LoopOf[d] => /\ <<"client", d>> \in E => SameFrames(E, m, u)
                             /\ AtSocket(d, m, u) = {} => One(AtSocket(d, m, u)')
         /\ t # LoopOf[d] => /\ <<"pending", d>> \in E => SameFrames(E, m, u)
                             /\ AtPending(d, m, u) = {} => One(AtPending(d, m, u)')
<1>1. pending \in [Conns -> Seq(Frames)] /\ toClient \in [Conns -> Seq(Frames)]
  BY DEF TypeInv, TypeOK, NetTypeOK
<1>2. pending[d] \in Seq(Frames) /\ toClient[d] \in Seq(Frames)
  BY <1>1
<1>3. \A c \in Conns : /\ pending'[c] = pending[c] => AtPending(c, m, u)' = AtPending(c, m, u)
                       /\ toClient'[c] = toClient[c] => AtSocket(c, m, u)' = AtSocket(c, m, u)
  BY DEF AtPending, AtSocket, Places
<1>4. ASSUME t = LoopOf[d]
      PROVE  /\ <<"client", d>> \in E => SameFrames(E, m, u)
             /\ AtSocket(d, m, u) = {} => One(AtSocket(d, m, u)')
  <2>1. /\ \A c \in Conns : pending'[c] = pending[c] /\ (c # d => toClient'[c] = toClient[c])
        /\ toClient'[d] = Append(toClient[d], f)
    BY <1>1, <1>4 DEF SendFrame
  <2>2. <<"client", d>> \in E => SameFrames(E, m, u)
    BY <1>3, <2>1, SameItself DEF SameFrames
  <2>3. Places(toClient[d], m, u) = {} => One(Places(toClient'[d], m, u))
    BY <1>2, <2>1, PlacesAppended
  <2>4. AtSocket(d, m, u)' = Places(toClient'[d], m, u)
    BY DEF AtSocket, Places
  <2>. QED BY <2>2, <2>3, <2>4 DEF AtSocket
<1>5. ASSUME t # LoopOf[d]
      PROVE  /\ <<"pending", d>> \in E => SameFrames(E, m, u)
             /\ AtPending(d, m, u) = {} => One(AtPending(d, m, u)')
  <2>1. /\ \A c \in Conns : toClient'[c] = toClient[c] /\ (c # d => pending'[c] = pending[c])
        /\ pending'[d] = Append(pending[d], f)
    BY <1>1, <1>5 DEF SendFrame
  <2>2. <<"pending", d>> \in E => SameFrames(E, m, u)
    BY <1>3, <2>1, SameItself DEF SameFrames
  <2>3. Places(pending[d], m, u) = {} => One(Places(pending'[d], m, u))
    BY <1>2, <2>1, PlacesAppended
  <2>4. AtPending(d, m, u)' = Places(pending'[d], m, u)
    BY DEF AtPending, Places
  <2>. QED BY <2>2, <2>3, <2>4 DEF AtPending
<1>. QED BY <1>4, <1>5

LEMMA MessageSpots ==
  ASSUME NEW v \in Users, NEW k \in Msgs, NEW m
  PROVE  /\ MsgFrame(v, k) \in Frames /\ MsgFrame(v, k).user = v
         /\ k # m => Spots(MsgFrame(v, k).msgs, m) = {}
         /\ k = m => One(Spots(MsgFrame(v, k).msgs, m))
<1>. PICK q : q = <<k>>
  OBVIOUS
<1>1. MsgFrame(v, k).msgs = q /\ MsgFrame(v, k).user = v
  BY DEF MsgFrame
<1>2. DOMAIN q = {1} /\ q[1] = k
  OBVIOUS
<1>3. k = m => Spots(q, m) = {1}
  BY <1>2 DEF Spots
<1>4. k # m => Spots(q, m) = {}
  BY <1>2 DEF Spots
<1>. QED BY <1>1, <1>3, <1>4, OneElement, MsgFrameType

-----------------------------------------------------------------------------
(***************************************************************************)
(* The threads carry the message on.                                       *)
(***************************************************************************)
\* The hypotheses of every step but the one that sends m.
Ready(m, u) ==
  /\ BaseInv /\ TrailInv /\ Tracked(m, u)
  /\ WasSent(m)' <=> WasSent(m)
  /\ InFlight(m, u) # {} => SameSession(u)

LEMMA OneCopy ==
  ASSUME NEW m, NEW u, InPlace(m, u), NEW n \in Cells(u), Content(m, u)[n] # {}
  PROVE  One(Content(m, u)[n])
<1>. PICK f : f = Content(m, u)
  OBVIOUS
<1>1. DOMAIN f = Cells(u)
  BY ContentIs DEF ContentFits
<1>. QED BY <1>1 DEF InPlace, Single, Nowhere

LEMMA JobMove ==
  ASSUME NEW m, NEW u, BaseInv, OnTheWay(m, u), NEW l \in Loops, NEW next, NEW j, GotoWith(l, next, j), NEW E,
         <<"job", l>> \in E \/ Same(AtJob(l, m, u), AtJob(l, m, u)'),
         <<"answer", l>> \in E \/ Same(AtAnswer(l, m, u), AtAnswer(l, m, u)'),
         Choice(next, j, m, u)
  PROVE  SameJobs(E, m, u) /\ SameObservers(m, u) /\ Choices(m, u)
<1>1. /\ pc'[l] = next /\ job'[l] = j
      /\ \A k \in Loops : k # l => pc'[k] = pc[k] /\ job'[k] = job[k]
  BY Moving, Untyped
<1>2. ASSUME NEW k \in Loops, k # l
      PROVE  AtJob(k, m, u)' = AtJob(k, m, u) /\ AtAnswer(k, m, u)' = AtAnswer(k, m, u)
  <2>1. pc'[k] = pc[k] /\ job'[k] = job[k]
    BY <1>1, <1>2
  <2>. QED BY <2>1 DEF AtJob, AtAnswer, HandledFor
<1>4. SameJobs(E, m, u)
  BY <1>2, SameItself DEF SameJobs
<1>5. SameObservers(m, u)
  BY Untouched DEF GotoWith
<1>6. Choices(m, u)
  BY <1>1, Decided DEF Choices, Choice
<1>. QED BY <1>4, <1>5, <1>6

LEMMA ReadsKept ==
  ASSUME NEW u, MutexInv, NEW l \in Loops, NEW next, NEW j, GotoWith(l, next, j),
         NEW k \in Loops, k # l \/ next # "loginRemoveOffline"
  PROVE  Reads(k, u)
<1>1. /\ pc'[l] = next /\ \A h \in Loops : h # l => pc'[h] = pc[h] /\ job'[h] = job[h]
  BY Moving
<1>. QED BY <1>1 DEF Reads

\* A step that leaves every copy where it is.
LEMMA ThreadRests ==
  ASSUME NEW m \in Msgs, NEW u \in Users, Ready(m, u), NEW l \in Loops, NEW next, NEW j, GotoWith(l, next, j),
         HandledFor(l, m, u)' <=> HandledFor(l, m, u),
         Same(AtAnswer(l, m, u), AtAnswer(l, m, u)'),
         Choice(next, j, m, u), next # "loginRemoveOffline",
         SameRequests({}, m), SameRedis({}, m, u), SameFrames({}, m, u), AtTable(m, u)' = AtTable(m, u)
  PROVE  Kept(m, u)
<1>1. BaseInv /\ OnTheWay(m, u) /\ Tracked(m, u)
  BY DEF Ready, Tracked
<1>. PICK E : E = {}
  OBVIOUS
<1>0. Same(AtJob(l, m, u), AtJob(l, m, u)')
  BY Handled DEF Same
<1>5. /\ <<"job", l>> \in E \/ Same(AtJob(l, m, u), AtJob(l, m, u)')
      /\ <<"answer", l>> \in E \/ Same(AtAnswer(l, m, u), AtAnswer(l, m, u)')
  BY <1>0
<1>6. SameJobs(E, m, u)
  BY <1>1, <1>5, JobMove
<1>7. SameObservers(m, u)
  BY <1>1, <1>5, JobMove
<1>8. Choices(m, u)
  BY <1>1, <1>5, JobMove
<1>9. \A k \in Loops : Reads(k, u)
  BY <1>1, Untyped, ReadsKept
<1>2. SameJobs(E, m, u) /\ SameObservers(m, u) /\ Choices(m, u) /\ \A k \in Loops : Reads(k, u)
  BY <1>6, <1>7, <1>8, <1>9
<1>3. SameBut({}, m, u)
  BY <1>2, SameItself DEF SameBut, SameTable
<1>4. (WasSent(m)' <=> WasSent(m)) /\ (InFlight(m, u) # {} => SameSession(u))
  BY DEF Ready
<1>. QED BY <1>1, <1>2, <1>3, <1>4, NothingMoves

\* A step by which the copy leaves the handler for cell b.
LEMMA LeavesHandler ==
  ASSUME NEW m \in Msgs, NEW u \in Users, Ready(m, u), NEW l \in Loops, NEW next, NEW j, GotoWith(l, next, j),
         HandledFor(l, m, u), ~HandledFor(l, m, u)',
         pc[l] # "loginAck", next \notin Publishing \cup Storing \cup {"loginAck", "loginRemoveOffline"},
         NEW b \in Cells(u), b # <<"job", l>>,
         Content(m, u)[b] = {} => One(Content(m, u)'[b]),
         SameRequests({}, m), SameRedis({b}, m, u), SameFrames({b}, m, u), SameTable({b}, m, u)
  PROVE  /\ InPlace(m, u)' /\ SameObservers(m, u) /\ Choices(m, u)
         /\ \A k \in Loops : Reads(k, u)
<1>1. BaseInv /\ OnTheWay(m, u) /\ InPlace(m, u) /\ (WasSent(m)' <=> WasSent(m))
  BY DEF Ready, Tracked
<1>. PICK a : a = <<"job", l>>
  OBVIOUS
<1>. PICK E : E = {a, b}
  OBVIOUS
<1>2. a \in Cells(u)
  BY CellsAre
<1>3. Content(m, u)[a] # {} /\ Content(m, u)'[a] = {}
  <2>1. AtJob(l, m, u) # {} /\ AtJob(l, m, u)' = {}
    BY Handled
  <2>2. Content(m, u)[a] = AtJob(l, m, u) /\ Content(m, u)'[a] = AtJob(l, m, u)'
    BY ContentIs DEF ContentFits
  <2>. QED BY <2>1, <2>2
<1>4. Same(AtAnswer(l, m, u), AtAnswer(l, m, u)')
  <2>1. pc'[l] = next
    BY <1>1, Moving, Untyped
  <2>. QED BY <2>1 DEF AtAnswer, Same
<1>5. Choice(next, j, m, u)
  BY DEF Choice
<1>6. SameJobs(E, m, u) /\ SameObservers(m, u) /\ Choices(m, u)
  BY <1>1, <1>4, <1>5, JobMove
<1>10. \A k \in Loops : Reads(k, u)
  BY <1>1, Untyped, ReadsKept
<1>7. SameRequests(E, m) /\ SameRedis(E, m, u) /\ SameFrames(E, m, u) /\ SameTable(E, m, u)
  BY DEF SameRequests, SameRedis, SameFrames, SameTable
<1>8. SameBut({a, b}, m, u)
  BY <1>6, <1>7 DEF SameBut
<1>9. InPlace(m, u)'
  BY <1>1, <1>2, <1>3, <1>8, Moves
<1>. QED BY <1>6, <1>9, <1>10

LEMMA NotHandled ==
  ASSUME NEW l, NEW m, NEW u
  PROVE  /\ pc[l] \notin OneChatPcs \cup GroupChatPcs => ~HandledFor(l, m, u)
         /\ pc'[l] \notin OneChatPcs \cup GroupChatPcs => ~HandledFor(l, m, u)'
BY DEF HandledFor, GroupChatPcs

LEMMA NoAnswer ==
  ASSUME NEW l, NEW m, NEW u, pc[l] # "loginAck", pc'[l] # "loginAck"
  PROVE  Same(AtAnswer(l, m, u), AtAnswer(l, m, u)')
BY DEF AtAnswer, Same

\* Where a handler has nothing to do with any message.
PlainPcs == Pcs \ (OneChatPcs \cup GroupChatPcs \cup {"loginAck", "loginRemoveOffline"})

\* login before it reads the table, and clientCloseException.
LEMMA PlainMove ==
  ASSUME NEW m \in Msgs, NEW u \in Users, Ready(m, u), NEW l \in Loops, NEW next \in PlainPcs, NEW j,
         GotoWith(l, next, j), pc[l] \in PlainPcs,
         UNCHANGED <<request, push, offlineMessage>>, SameFrames({}, m, u)
  PROVE  Kept(m, u)
<1>1. pc'[l] = next
  BY Moving, Untyped DEF Ready
<1>2. HandledFor(l, m, u)' <=> HandledFor(l, m, u)
  BY <1>1, NotHandled DEF PlainPcs
<1>3. Same(AtAnswer(l, m, u), AtAnswer(l, m, u)')
  BY <1>1, NoAnswer DEF PlainPcs
<1>4. Choice(next, j, m, u) /\ next # "loginRemoveOffline"
  BY DEF PlainPcs, Choice, Publishing, Storing, OneChatPcs, GroupChatPcs
<1>5. SameRequests({}, m) /\ SameRedis({}, m, u)
  BY Untouched
<1>6. AtTable(m, u)' = AtTable(m, u)
  BY DEF AtTable
<1>. QED BY <1>2, <1>3, <1>4, <1>5, <1>6, ThreadRests

LEMMA PlainSteps ==
  ASSUME NEW m \in Msgs, NEW u \in Users, Ready(m, u), NEW l \in Loops,
         \/ LoginRefuse(l) \/ LoginAccept(l) \/ LoginInsert(l) \/ LoginSubscribe(l) \/ LoginOnline(l)
         \/ CloseStep(l) \/ \E c \in Conns : OnClose(l, c)
  PROVE  Kept(m, u)
<1>0. MutexInv /\ TypeInv /\ JobOK(l, pc[l], job[l])
  BY Untyped DEF Ready, TypeInv, JobsOK
<1>1. {"idle", "login", "loginInsert", "loginSubscribe", "loginOnline", "loginReadOffline", "close",
       "closeUnsubscribe", "closeOffline", "closeErase"} \subseteq PlainPcs
  BY DEF PlainPcs, Pcs, LoginPcs, ClosePcs, OneChatPcs, GroupChatPcs
<1>2. CASE LoginRefuse(l)
  <2>. PICK none \in Seq(Msgs) : none = <<>>
    <3>1. <<>> \in Seq(Msgs)
      OBVIOUS
    <3>. QED BY <3>1
  <2>. PICK f : f = AckFrame("refused", job[l].user, none)
    OBVIOUS
  <2>1. job[l].conn \in Conns /\ job[l].user \in Users
    BY <1>0, <1>2 DEF LoginRefuse, JobOK, LoginPcs
  <2>2. f \in Frames
    BY <2>1, AckFrameType
  <2>3. Spots(f.msgs, m) = {}
    BY DEF AckFrame, Spots
  <2>4. SendFrame(l, job[l].conn, f) /\ pc[l] = "login" /\ GotoWith(l, "idle", NoJob)
        /\ UNCHANGED <<request, push, offlineMessage>>
    BY <1>2 DEF LoginRefuse, Finish, terminalVars, redisVars, tableVars
  <2>5. SameFrames({}, m, u)
    BY <1>0, <2>1, <2>2, <2>3, <2>4, EmptyFrame
  <2>. QED BY <1>1, <2>4, <2>5, PlainMove
<1>3. CASE LoginAccept(l) \/ LoginInsert(l) \/ LoginSubscribe(l) \/ LoginOnline(l)
  <2>1. PICK next \in {"loginInsert", "loginSubscribe", "loginOnline", "loginReadOffline"} :
          /\ Goto(l, next) /\ pc[l] \in {"login", "loginInsert", "loginSubscribe", "loginOnline"}
          /\ UNCHANGED <<request, push, offlineMessage, pending, toClient>>
    BY <1>3 DEF LoginAccept, LoginInsert, LoginSubscribe, LoginOnline, Subscribe, WriteCommand, UserUpdateState,
       terminalVars, redisVars, tableVars, netVars
  <2>2. GotoWith(l, next, job[l])
    BY <1>0, <2>1, GotoIsGotoWith
  <2>3. SameFrames({}, m, u)
    BY <2>1, Untouched
  <2>. QED BY <1>1, <2>1, <2>2, <2>3, PlainMove
<1>4. CASE CloseStep(l)
  <2>1. PICK next \in {"idle", "closeUnsubscribe", "closeOffline", "closeErase"} :
          /\ Goto(l, next) \/ \E j : GotoWith(l, next, j)
          /\ pc[l] \in {"close", "closeUnsubscribe", "closeOffline", "closeErase"}
          /\ UNCHANGED <<request, push, offlineMessage, pending, toClient>>
    BY <1>4 DEF CloseStep, CloseFind, CloseNothing, CloseUnsubscribe, CloseOffline, CloseErase, Finish,
       Unsubscribe, WriteCommand, UserUpdateState, terminalVars, redisVars, tableVars, netVars
  <2>2. PICK j : GotoWith(l, next, j)
    BY <1>0, <2>1, GotoIsGotoWith
  <2>3. SameFrames({}, m, u)
    BY <2>1, Untouched
  <2>. QED BY <1>1, <2>1, <2>2, <2>3, PlainMove
<1>5. ASSUME NEW c \in Conns, OnClose(l, c) PROVE Kept(m, u)
  <2>1. PICK j : GotoWith(l, "close", j) /\ pc[l] = "idle"
          /\ UNCHANGED <<request, push, offlineMessage, pending, toClient>>
    BY <1>5 DEF OnClose, terminalVars, redisVars, tableVars
  <2>2. SameFrames({}, m, u)
    BY <2>1, Untouched
  <2>. QED BY <1>1, <2>1, <2>2, PlainMove
<1>. QED BY <1>2, <1>3, <1>4, <1>5

LEMMA WaySame ==
  ASSUME NEW m, NEW u, Ready(m, u), SameObservers(m, u), Choices(m, u),
         \A s \in Servers : AtPush(s, m, u)' # {} => AtPush(s, m, u) # {},
         \A c \in Conns : AtPending(c, m, u)' # {} => AtPending(c, m, u) # {}
  PROVE  OnTheWay(m, u)'
<1>1. OnTheWay(m, u) /\ (InFlight(m, u) # {} => SameSession(u))
  BY DEF Ready, Tracked
<1>. QED BY <1>1, WayKept

\* login reads the table: what it holds is what the table holds.
LEMMA ReadStep ==
  ASSUME NEW m \in Msgs, NEW u \in Users, Ready(m, u), ~DBFaults, NEW l \in Loops, LoginReadOffline(l)
  PROVE  Kept(m, u)
<1>0. MutexInv /\ TypeInv /\ BaseInv /\ Tracked(m, u) /\ (WasSent(m)' <=> WasSent(m))
  BY Untyped DEF Ready
<1>1. job[l] \in Jobs /\ pc[l] = "loginReadOffline"
  BY <1>0 DEF TypeInv, TypeOK, ThreadsTypeOK, LoginReadOffline
<1>. PICK rows : rows = offlineMessage[job[l].user]
  OBVIOUS
<1>. PICK next : next = IF rows # <<>> THEN "loginRemoveOffline" ELSE "loginAck"
  OBVIOUS
<1>. PICK j : j = [job[l] EXCEPT !.msgs = rows]
  OBVIOUS
<1>2. GotoWith(l, next, j) /\ UNCHANGED <<request, push, offlineMessage, pending, toClient>>
  BY DEF LoginReadOffline, OfflineQuery, terminalVars, redisVars, tableVars, netVars
<1>3. j.user = job[l].user /\ j.msgs = rows
  BY <1>1 DEF Jobs
<1>4. pc'[l] = next /\ job'[l] = j
  BY <1>0, <1>2, Moving
<1>5. ~HandledFor(l, m, u) /\ ~HandledFor(l, m, u)'
  BY <1>1, <1>4, NotHandled DEF OneChatPcs, GroupChatPcs
<1>6. Same(AtJob(l, m, u), AtJob(l, m, u)')
  BY <1>5, Handled DEF Same
<1>7. Same(AtAnswer(l, m, u), AtAnswer(l, m, u)')
  <2>1. next = "loginAck" => DOMAIN j.msgs = {}
    BY <1>3
  <2>2. AtAnswer(l, m, u)' = {}
    BY <1>4, <2>1 DEF AtAnswer
  <2>. QED BY <1>1, <2>2 DEF AtAnswer, Same
<1>8. Choice(next, j, m, u)
  BY DEF Choice, Publishing, Storing
<1>. PICK E : E = {}
  OBVIOUS
<1>9. OnTheWay(m, u)
  BY <1>0 DEF Tracked
<1>10. SameJobs(E, m, u) /\ SameObservers(m, u) /\ Choices(m, u)
  BY <1>0, <1>2, <1>6, <1>7, <1>8, <1>9, JobMove
<1>11. \A k \in Loops : k # l => Reads(k, u)
  BY <1>0, <1>2, ReadsKept
<1>12. SameRequests(E, m) /\ SameRedis(E, m, u) /\ SameFrames(E, m, u) /\ SameTable(E, m, u)
  BY <1>2, Untouched
<1>13. InPlace(m, u)'
  <2>1. SameBut({}, m, u)
    BY <1>10, <1>12 DEF SameBut
  <2>. QED BY <1>0, <2>1, Stays DEF Tracked
<1>14. OnTheWay(m, u)'
  <2>1. \A s \in Servers : AtPush(s, m, u)' = AtPush(s, m, u)
    BY <1>2 DEF AtPush
  <2>2. \A c \in Conns : AtPending(c, m, u)' = AtPending(c, m, u)
    BY <1>2 DEF AtPending, Places
  <2>. QED BY <1>10, <2>1, <2>2, WaySame
<1>15. ReadAll(m, u)'
  <2>1. AtTable(m, u)' = AtTable(m, u)
    BY <1>2 DEF AtTable
  <2>2. ASSUME NEW k \in Loops, pc'[k] = "loginRemoveOffline", job'[k].user = u
        PROVE  AtTable(m, u) = {i \in DOMAIN job'[k].msgs : job'[k].msgs[i] = m}
    <3>1. CASE k = l
      BY <1>3, <1>4, <2>2, <3>1 DEF AtTable
    <3>2. CASE k # l
      BY <1>0, <1>11, <2>2, <3>2 DEF Reads, Tracked, ReadAll
    <3>. QED BY <3>1, <3>2
  <2>. QED BY <2>1, <2>2 DEF ReadAll
<1>. QED BY <1>13, <1>14, <1>15 DEF Kept

\* The rows are removed from the table, the answer carries them on.
LEMMA RemoveStep ==
  ASSUME NEW m \in Msgs, NEW u \in Users, Ready(m, u), ~DBFaults, NEW l \in Loops, LoginRemoveOffline(l)
  PROVE  Kept(m, u)
<1>0. MutexInv /\ TypeInv /\ BaseInv /\ Tracked(m, u) /\ (WasSent(m)' <=> WasSent(m)) /\ OneLogin
  BY Untyped DEF Ready
<1>1. job[l] \in Jobs /\ pc[l] = "loginRemoveOffline" /\ job[l].user \in Users
  BY <1>0 DEF TypeInv, TypeOK, ThreadsTypeOK, LoginRemoveOffline, JobsOK, JobOK, LoginPcs
<1>2. /\ GotoWith(l, "loginAck", job[l]) /\ UNCHANGED <<request, push, pending, toClient>>
      /\ offlineMessage' = [offlineMessage EXCEPT ![job[l].user] = <<>>]
  BY <1>0, GotoIsGotoWith DEF LoginRemoveOffline, OfflineRemove, terminalVars, redisVars, netVars
<1>3. pc'[l] = "loginAck" /\ job'[l] = job[l]
  BY <1>0, <1>2, Moving
<1>4. ~HandledFor(l, m, u) /\ ~HandledFor(l, m, u)'
  BY <1>1, <1>3, NotHandled DEF OneChatPcs, GroupChatPcs
<1>5. Same(AtJob(l, m, u), AtJob(l, m, u)')
  BY <1>4, Handled DEF Same
<1>6. Choice("loginAck", job[l], m, u)
  BY DEF Choice, Publishing, Storing
<1>7. OnTheWay(m, u) /\ ReadAll(m, u) /\ InPlace(m, u)
  BY <1>0 DEF Tracked
<1>8. offlineMessage \in [Users -> Seq(Msgs)]
  BY <1>0 DEF TypeInv, TypeOK, TablesTypeOK
<1>9. \A k \in Loops : Reads(k, u)
  BY <1>0, <1>2, ReadsKept
<1>10. ASSUME NEW E, <<"answer", l>> \in E \/ Same(AtAnswer(l, m, u), AtAnswer(l, m, u)'),
              <<"table", u>> \in E \/ AtTable(m, u)' = AtTable(m, u)
       PROVE  SameBut(E, m, u) /\ SameObservers(m, u) /\ Choices(m, u)
  <2>1. SameJobs(E, m, u) /\ SameObservers(m, u) /\ Choices(m, u)
    BY <1>0, <1>2, <1>5, <1>6, <1>7, <1>10, JobMove
  <2>2. SameRequests(E, m) /\ SameRedis(E, m, u) /\ SameFrames(E, m, u)
    BY <1>2, Untouched
  <2>3. SameTable(E, m, u)
    BY <1>10, SameItself DEF SameTable
  <2>. QED BY <2>1, <2>2, <2>3 DEF SameBut
<1>11. SameObservers(m, u) /\ Choices(m, u)
  <2>. PICK E : E = {<<"answer", l>>, <<"table", u>>}
    OBVIOUS
  <2>. QED BY <1>10
<1>12. OnTheWay(m, u)'
  <2>1. \A s \in Servers : AtPush(s, m, u)' = AtPush(s, m, u)
    BY <1>2 DEF AtPush
  <2>2. \A c \in Conns : AtPending(c, m, u)' = AtPending(c, m, u)
    BY <1>2 DEF AtPending, Places
  <2>. QED BY <1>11, <2>1, <2>2, WaySame
<1>13. CASE job[l].user # u
  <2>1. AtTable(m, u)' = AtTable(m, u)
    BY <1>2, <1>8, <1>13 DEF AtTable
  <2>2. AtAnswer(l, m, u) = {} /\ AtAnswer(l, m, u)' = {}
    BY <1>1, <1>3, <1>13 DEF AtAnswer
  <2>3. Same(AtAnswer(l, m, u), AtAnswer(l, m, u)')
    BY <2>2 DEF Same
  <2>4. SameBut({}, m, u)
    BY <1>10, <2>1, <2>3
  <2>5. InPlace(m, u)'
    BY <1>0, <1>7, <2>4, Stays
  <2>6. ReadAll(m, u)'
    BY <1>7, <1>9, <2>1, <2>3, ReadKept
  <2>. QED BY <1>12, <2>5, <2>6 DEF Kept
<1>14. CASE job[l].user = u
  <2>1. AtTable(m, u)' = {}
    <3>1. offlineMessage'[u] = <<>>
      BY <1>2, <1>8, <1>14
    <3>. QED BY <3>1 DEF AtTable
  <2>2. AtAnswer(l, m, u) = {} /\ AtAnswer(l, m, u)' = AtTable(m, u)
    BY <1>1, <1>3, <1>7, <1>14 DEF AtAnswer, ReadAll
  <2>3. ASSUME AtTable(m, u) = {} PROVE InPlace(m, u)'
    <3>1. Same(AtAnswer(l, m, u), AtAnswer(l, m, u)') /\ AtTable(m, u)' = AtTable(m, u)
      BY <2>1, <2>2, <2>3 DEF Same
    <3>2. SameBut({}, m, u)
      BY <1>10, <3>1
    <3>. QED BY <1>0, <1>7, <3>2, Stays
  <2>4. ASSUME AtTable(m, u) # {} PROVE InPlace(m, u)'
    <3>. PICK a, b : a = <<"table", u>> /\ b = <<"answer", l>>
      OBVIOUS
    <3>1. a \in Cells(u) /\ b \in Cells(u) /\ a # b
      BY CellsAre
    <3>2. SameBut({a, b}, m, u)
      BY <1>10
    <3>3. /\ Content(m, u)[a] = AtTable(m, u) /\ Content(m, u)'[a] = {}
          /\ Content(m, u)[b] = {} /\ Content(m, u)'[b] = AtTable(m, u)
      BY <2>1, <2>2, ContentIs DEF ContentFits
    <3>. QED BY <1>0, <1>7, <2>4, <3>1, <3>2, <3>3, Moves
  <2>5. ReadAll(m, u)'
    <3>1. ASSUME NEW k \in Loops, pc'[k] = "loginRemoveOffline", job'[k].user = u PROVE FALSE
      <4>1. k # l
        BY <1>3, <3>1
      <4>2. pc[k] = "loginRemoveOffline" /\ job[k].user = u
        BY <1>0, <1>2, <3>1, <4>1, Moving
      <4>3. LoggingIn(k, u) /\ LoggingIn(l, u)
        BY <1>1, <1>14, <4>2 DEF LoggingIn, LoginPcs
      <4>. QED BY <1>0, <4>1, <4>3 DEF OneLogin
    <3>. QED BY <3>1 DEF ReadAll
  <2>. QED BY <1>12, <2>3, <2>4, <2>5 DEF Kept
<1>. QED BY <1>13, <1>14

\* The copy moves between cells that are neither in Redis nor queued in a loop.
LEMMA WaySameBut ==
  ASSUME NEW m, NEW u, Ready(m, u), Choices(m, u), NEW E, SameBut(E, m, u),
         \A s \in Servers : <<"push", s>> \notin E,
         \A c \in Conns : <<"pending", c>> \notin E
  PROVE  OnTheWay(m, u)'
<1>1. \A s \in Servers : AtPush(s, m, u)' # {} => AtPush(s, m, u) # {}
  BY DEF SameBut, SameRedis, Same
<1>2. \A c \in Conns : AtPending(c, m, u)' # {} => AtPending(c, m, u) # {}
  BY DEF SameBut, SameFrames, Same
<1>. QED BY <1>1, <1>2, WaySame DEF SameBut

LEMMA ContentOf ==
  ASSUME NEW m, NEW u
  PROVE  /\ \A l \in Loops : /\ Content(m, u)[<<"job", l>>] = AtJob(l, m, u)
                            /\ Content(m, u)'[<<"job", l>>] = AtJob(l, m, u)'
                            /\ Content(m, u)[<<"answer", l>>] = AtAnswer(l, m, u)
                            /\ Content(m, u)'[<<"answer", l>>] = AtAnswer(l, m, u)'
         /\ \A c \in Conns : /\ Content(m, u)[<<"pending", c>>] = AtPending(c, m, u)
                            /\ Content(m, u)'[<<"pending", c>>] = AtPending(c, m, u)'
                            /\ Content(m, u)[<<"client", c>>] = AtSocket(c, m, u)
                            /\ Content(m, u)'[<<"client", c>>] = AtSocket(c, m, u)'
         /\ \A s \in Servers : /\ Content(m, u)[<<"push", s>>] = AtPush(s, m, u)
                              /\ Content(m, u)'[<<"push", s>>] = AtPush(s, m, u)'
         /\ Content(m, u)[<<"table", u>>] = AtTable(m, u)
         /\ Content(m, u)'[<<"table", u>>] = AtTable(m, u)'
BY ContentIs DEF ContentFits

LEMMA PendingCell ==
  ASSUME NEW m, NEW u, NEW c \in Conns
  PROVE  /\ Content(m, u)[<<"pending", c>>] = AtPending(c, m, u)
         /\ Content(m, u)'[<<"pending", c>>] = AtPending(c, m, u)'
BY ContentOf

LEMMA SocketCell ==
  ASSUME NEW m, NEW u, NEW c \in Conns
  PROVE  /\ Content(m, u)[<<"client", c>>] = AtSocket(c, m, u)
         /\ Content(m, u)'[<<"client", c>>] = AtSocket(c, m, u)'
BY ContentOf

LEMMA PushCell ==
  ASSUME NEW m, NEW u, NEW s \in Servers
  PROVE  /\ Content(m, u)[<<"push", s>>] = AtPush(s, m, u)
         /\ Content(m, u)'[<<"push", s>>] = AtPush(s, m, u)'
BY ContentOf

\* The answer to the login is written.
LEMMA AckStep ==
  ASSUME NEW m \in Msgs, NEW u \in Users, Ready(m, u), NEW l \in Loops, LoginAck(l)
  PROVE  Kept(m, u)
<1>0. MutexInv /\ TypeInv /\ BaseInv /\ ConnInv /\ Tracked(m, u) /\ (WasSent(m)' <=> WasSent(m))
  BY Untyped DEF Ready
<1>1. job[l] \in Jobs /\ JobOK(l, pc[l], job[l]) /\ pc[l] = "loginAck"
  BY <1>0 DEF TypeInv, TypeOK, ThreadsTypeOK, LoginAck, JobsOK
<1>2. /\ job[l].user \in Users /\ job[l].conn \in Conns /\ LoopOf[job[l].conn] = l
      /\ job[l].msgs \in Seq(Msgs)
  BY <1>1 DEF JobOK, LoginPcs, Jobs
<1>. PICK c \in Conns, v \in Users : c = job[l].conn /\ v = job[l].user
  BY <1>2
<1>. PICK ms : ms = job[l].msgs
  OBVIOUS
<1>. PICK f : f = AckFrame("ok", v, ms)
  OBVIOUS
<1>3. f \in Frames /\ f.user = v /\ f.msgs = ms
  BY <1>2, AckFrameType DEF AckFrame
<1>4. connected[c]
  BY <1>0, <1>1, <1>2 DEF ConnInv, ConnOK, LoginOK, At, LoginPcs
<1>5. GotoWith(l, "idle", NoJob) /\ SendFrame(l, c, f) /\ UNCHANGED <<request, push, offlineMessage>>
  BY DEF LoginAck, Finish, terminalVars, redisVars, tableVars
<1>6. pc'[l] = "idle"
  BY <1>0, <1>5, Moving
<1>7. ~HandledFor(l, m, u) /\ ~HandledFor(l, m, u)'
  BY <1>1, <1>6, NotHandled DEF OneChatPcs, GroupChatPcs
<1>8. AtAnswer(l, m, u)' = {}
  BY <1>6 DEF AtAnswer
<1>9. Choice("idle", NoJob, m, u)
  BY DEF Choice, Publishing, Storing
<1>10. AtTable(m, u)' = AtTable(m, u)
  BY <1>5 DEF AtTable
<1>11. CASE AtAnswer(l, m, u) = {}
  <2>1. v # u \/ Spots(ms, m) = {}
    BY <1>1, <1>11 DEF AtAnswer, Spots
  <2>2. SameFrames({}, m, u)
    BY <1>0, <1>3, <1>5, <2>1, EmptyFrame
  <2>3. SameRequests({}, m) /\ SameRedis({}, m, u)
    BY <1>5, Untouched
  <2>4. Same(AtAnswer(l, m, u), AtAnswer(l, m, u)')
    BY <1>8, <1>11 DEF Same
  <2>. QED BY <1>5, <1>7, <1>9, <1>10, <2>2, <2>3, <2>4, ThreadRests
<1>12. CASE AtAnswer(l, m, u) # {}
  <2>1. v = u /\ AtAnswer(l, m, u) = Spots(ms, m)
    BY <1>1, <1>12 DEF AtAnswer, Spots
  <2>. PICK a, b : a = <<"answer", l>> /\ b = <<"client", c>>
    OBVIOUS
  <2>. PICK E : E = {a, b}
    OBVIOUS
  <2>2. a \in Cells(u) /\ b \in Cells(u) /\ a # b
    BY CellsAre
  <2>3. /\ Content(m, u)[a] = AtAnswer(l, m, u) /\ Content(m, u)'[a] = AtAnswer(l, m, u)'
        /\ Content(m, u)[b] = AtSocket(c, m, u) /\ Content(m, u)'[b] = AtSocket(c, m, u)'
    <3>1. /\ Content(m, u)[<<"answer", l>>] = AtAnswer(l, m, u)
          /\ Content(m, u)'[<<"answer", l>>] = AtAnswer(l, m, u)'
      BY ContentOf
    <3>2. /\ Content(m, u)[<<"client", c>>] = AtSocket(c, m, u)
          /\ Content(m, u)'[<<"client", c>>] = AtSocket(c, m, u)'
      BY ContentOf
    <3>. QED BY <3>1, <3>2
  <2>4. InPlace(m, u) /\ OnTheWay(m, u) /\ ReadAll(m, u)
    BY <1>0 DEF Tracked
  <2>5. One(Spots(f.msgs, m))
    BY <1>3, <1>12, <2>1, <2>2, <2>3, <2>4, OneCopy
  <2>6. SameFrames(E, m, u) /\ (AtSocket(c, m, u) = {} => One(AtSocket(c, m, u)'))
    BY <1>0, <1>2, <1>3, <1>4, <1>5, <2>1, <2>5, FullFrame
  <2>7. Same(AtJob(l, m, u), AtJob(l, m, u)')
    BY <1>7, Handled DEF Same
  <2>8. SameJobs(E, m, u) /\ SameObservers(m, u) /\ Choices(m, u)
    BY <1>0, <1>5, <1>9, <2>4, <2>7, JobMove
  <2>9. SameRequests(E, m) /\ SameRedis(E, m, u) /\ SameTable(E, m, u)
    BY <1>5, Untouched
  <2>10. SameBut(E, m, u)
    BY <2>6, <2>8, <2>9 DEF SameBut
  <2>11. InPlace(m, u)'
    BY <1>0, <1>8, <1>12, <2>2, <2>3, <2>4, <2>6, <2>10, Moves
  <2>12. OnTheWay(m, u)'
    BY <2>8, <2>10, WaySameBut
  <2>13. \A k \in Loops : Reads(k, u)
    BY <1>0, <1>5, ReadsKept
  <2>14. ReadAll(m, u)'
    BY <1>10, <2>4, <2>13, ReadKept
  <2>. QED BY <2>11, <2>12, <2>14 DEF Kept
<1>. QED BY <1>11, <1>12

\* A handler takes its request.
LEMMA TakeStep ==
  ASSUME NEW m \in Msgs, NEW u \in Users, Ready(m, u), NEW l \in Loops, NEW c \in Conns, OnMessage(l, c)
  PROVE  Kept(m, u)
<1>0. /\ MutexInv /\ TypeInv /\ BaseInv /\ TrailInv /\ Tracked(m, u) /\ (WasSent(m)' <=> WasSent(m))
      /\ request \in [Conns -> Requests]
  BY Untyped DEF Ready, TypeInv, TypeOK, TerminalsTypeOK
<1>. PICK r \in Requests : r = request[c]
  BY <1>0
<1>. PICK j : j = JobFor(c, IF r.kind = "loginout" THEN None ELSE r.user, r.msg, r.password)
  OBVIOUS
<1>1. /\ GotoWith(l, HandlerOf[r.kind], j) /\ r.kind # "none" /\ pc[l] = "idle"
      /\ request' = [request EXCEPT ![c] = NoRequest]
      /\ UNCHANGED <<push, offlineMessage, pending, toClient>>
  BY <1>0 DEF OnMessage, TypeInv, RequestsOK, redisVars, tableVars
<1>2. r.kind \in {"login", "loginout", "oneChat", "groupChat"}
  BY <1>1 DEF Requests
<1>. PICK next \in {"login", "close", "oneChat", "groupChat"} : next = HandlerOf[r.kind]
  BY <1>2 DEF HandlerOf
<1>3. pc'[l] = next /\ job'[l] = j
  BY <1>0, <1>1, Moving
<1>4. j.msg = r.msg /\ (r.kind # "loginout" => j.user = r.user)
  BY DEF JobFor
<1>5. AtRequest(c, m)' = {} /\ \A d \in Conns \ {c} : AtRequest(d, m)' = AtRequest(d, m)
  <2>1. request'[c].msg # m
    BY <1>0, <1>1, NoneAssumption DEF NoRequest
  <2>. QED BY <1>0, <1>1, <2>1 DEF AtRequest
<1>6. ~HandledFor(l, m, u)
  BY <1>1, NotHandled DEF OneChatPcs, GroupChatPcs
<1>7. Choice(next, j, m, u)
  BY DEF Choice, Publishing, Storing
<1>8. Same(AtAnswer(l, m, u), AtAnswer(l, m, u)')
  BY <1>1, <1>3, NoAnswer
<1>9. AtTable(m, u)' = AtTable(m, u)
  BY <1>1 DEF AtTable
<1>10. CASE r.msg # m
  <2>1. AtRequest(c, m) = {}
    BY <1>10 DEF AtRequest
  <2>2. SameRequests({}, m)
    BY <1>5, <2>1, SameItself DEF SameRequests
  <2>3. ~HandledFor(l, m, u)'
    BY <1>3, <1>4, <1>10 DEF HandledFor
  <2>4. SameRedis({}, m, u) /\ SameFrames({}, m, u)
    BY <1>1, Untouched
  <2>. QED BY <1>1, <1>6, <1>7, <1>8, <1>9, <2>2, <2>3, <2>4, ThreadRests
<1>11. CASE r.msg = m
  <2>. PICK a, b : a = <<"request", c>> /\ b = <<"job", l>>
    OBVIOUS
  <2>. PICK E : E = {a, b}
    OBVIOUS
  <2>1. a \in Cells(u) /\ b \in Cells(u) /\ a # b
    BY CellsAre
  <2>2. /\ Content(m, u)[a] = AtRequest(c, m) /\ Content(m, u)'[a] = AtRequest(c, m)'
        /\ Content(m, u)'[b] = AtJob(l, m, u)'
    BY ContentIs DEF ContentFits
  <2>3. AtRequest(c, m) # {}
    BY <1>11 DEF AtRequest
  <2>4. InPlace(m, u) /\ OnTheWay(m, u) /\ ReadAll(m, u)
    BY <1>0 DEF Tracked
  <2>5. WasSent(m)
    <3>1. ~Nowhere(Content(m, u))
      <4>. PICK g : g = Content(m, u)
        OBVIOUS
      <4>1. a \in DOMAIN g /\ g[a] # {}
        BY <2>1, <2>2, <2>3, ContentIs DEF ContentFits
      <4>. QED BY <4>1 DEF Nowhere
    <3>. QED BY <2>4, <3>1 DEF InPlace
  <2>6. HandledFor(l, m, u)'
    <3>1. r.kind \in {"oneChat", "groupChat"} /\ RequestFits(c)
      BY <1>0, <1>2, <1>11, NoneAssumption DEF TrailInv, RequestFits
    <3>2. CASE r.kind = "oneChat"
      <4>1. r.user = u
        BY <1>0, <1>11, <2>5, <3>1, <3>2 DEF Tracked, RequestFits
      <4>2. job'[l].msg = m /\ pc'[l] = "oneChat" /\ job'[l].user = u
        BY <1>3, <1>4, <1>11, <3>2, <4>1 DEF HandlerOf
      <4>. QED BY <4>2 DEF HandledFor, OneChatPcs
    <3>3. CASE r.kind = "groupChat"
      <4>1. job'[l].msg = m /\ pc'[l] = "groupChat"
        BY <1>3, <1>4, <1>11, <3>3 DEF HandlerOf
      <4>. QED BY <4>1 DEF HandledFor
    <3>. QED BY <3>1, <3>2, <3>3
  <2>7. One(AtJob(l, m, u)')
    BY <2>6, Handled
  <2>8. SameJobs(E, m, u) /\ SameObservers(m, u) /\ Choices(m, u)
    BY <1>0, <1>1, <1>7, <1>8, <2>4, JobMove
  <2>9. SameRequests(E, m)
    BY <1>5, SameItself DEF SameRequests
  <2>10. SameRedis(E, m, u) /\ SameFrames(E, m, u) /\ SameTable(E, m, u)
    BY <1>1, Untouched
  <2>11. SameBut(E, m, u)
    BY <2>8, <2>9, <2>10 DEF SameBut
  <2>12. InPlace(m, u)'
    BY <1>0, <1>5, <2>1, <2>2, <2>3, <2>4, <2>7, <2>11, Moves
  <2>13. OnTheWay(m, u)'
    BY <2>8, <2>11, WaySameBut
  <2>14. \A k \in Loops : Reads(k, u)
    BY <1>0, <1>1, ReadsKept
  <2>15. ReadAll(m, u)'
    BY <1>9, <2>4, <2>14, ReadKept
  <2>. QED BY <2>12, <2>13, <2>15 DEF Kept
<1>. QED BY <1>10, <1>11

-----------------------------------------------------------------------------
(***************************************************************************)
(* The ways out of a handler: a frame, Redis, the table.                   *)
(***************************************************************************)
LEMMA Settled ==
  ASSUME NEW m, NEW u, Ready(m, u), InFlight(m, u) # {}
  PROVE  ~Unsettled(u) /\ SameSession(u)
BY DEF Ready, Tracked

LEMMA IntoFrame ==
  ASSUME NEW m \in Msgs, NEW u \in Users, Ready(m, u), NEW l \in Loops, NEW next, NEW j, GotoWith(l, next, j),
         HandledFor(l, m, u), ~HandledFor(l, m, u)',
         pc[l] # "loginAck", next \notin Publishing \cup Storing \cup {"loginAck", "loginRemoveOffline"},
         NEW d \in Conns, userConnMap[ServerOf[l]][u] = d, SendFrame(l, d, MsgFrame(u, m)),
         UNCHANGED <<request, push, offlineMessage>>
  PROVE  Kept(m, u)
<1>0. BaseInv /\ TypeInv /\ MutexInv /\ ReadAll(m, u) /\ OnTheWay(m, u) /\ ServerOf[l] \in Servers
  BY Untyped, PlacementAssumption DEF Ready, Tracked
<1>1. InFlight(m, u) # {}
  BY Handled
<1>2. connected[d] /\ ConnServer(d) \in Servers /\ userConnMap[ConnServer(d)][u] = d
  BY <1>0, <1>1, Settled, SettledEntry, NoneAssumption
<1>. PICK f : f = MsgFrame(u, m)
  OBVIOUS
<1>3. f \in Frames /\ f.user = u /\ One(Spots(f.msgs, m))
  BY MessageSpots
<1>4. SendFrame(l, d, f)
  OBVIOUS
<1>5. AtTable(m, u)' = AtTable(m, u)
  BY DEF AtTable
<1>6. ASSUME NEW b \in Cells(u), b # <<"job", l>>, Content(m, u)[b] = {} => One(Content(m, u)'[b]),
             SameFrames({b}, m, u)
      PROVE  InPlace(m, u)' /\ SameObservers(m, u) /\ Choices(m, u) /\ ReadAll(m, u)'
  <2>1. SameRequests({}, m) /\ SameRedis({b}, m, u) /\ SameTable({b}, m, u)
    BY Untouched
  <2>2. InPlace(m, u)' /\ SameObservers(m, u) /\ Choices(m, u) /\ \A k \in Loops : Reads(k, u)
    BY <1>6, <2>1, LeavesHandler
  <2>3. ReadAll(m, u)'
    BY <1>0, <1>5, <2>2, ReadKept
  <2>. QED BY <2>2, <2>3
<1>7. \A s \in Servers : AtPush(s, m, u)' = AtPush(s, m, u)
  BY DEF AtPush
<1>8. CASE l = LoopOf[d]
  <2>. PICK b : b = <<"client", d>>
    OBVIOUS
  <2>1. b \in Cells(u) /\ b # <<"job", l>>
    BY <1>2, CellsAre
  <2>2. SameFrames({b}, m, u) /\ (AtSocket(d, m, u) = {} => One(AtSocket(d, m, u)'))
    BY <1>0, <1>2, <1>3, <1>4, <1>8, FullFrame
  <2>3. Content(m, u)[<<"client", d>>] = AtSocket(d, m, u) /\ Content(m, u)'[<<"client", d>>] = AtSocket(d, m, u)'
    BY SocketCell
  <2>4. InPlace(m, u)' /\ SameObservers(m, u) /\ Choices(m, u) /\ ReadAll(m, u)'
    BY <1>6, <2>1, <2>2, <2>3
  <2>5. \A c \in Conns : AtPending(c, m, u)' # {} => AtPending(c, m, u) # {}
    BY <2>2 DEF SameFrames, Same
  <2>6. OnTheWay(m, u)'
    BY <1>7, <2>4, <2>5, WaySame
  <2>. QED BY <2>4, <2>6 DEF Kept
<1>9. CASE l # LoopOf[d]
  <2>. PICK b : b = <<"pending", d>>
    OBVIOUS
  <2>1. b \in Cells(u) /\ b # <<"job", l>>
    BY <1>2, CellsAre
  <2>2. SameFrames({b}, m, u) /\ (AtPending(d, m, u) = {} => One(AtPending(d, m, u)'))
    BY <1>0, <1>2, <1>3, <1>4, <1>9, FullFrame
  <2>3. Content(m, u)[<<"pending", d>>] = AtPending(d, m, u) /\ Content(m, u)'[<<"pending", d>>] = AtPending(d, m, u)'
    BY PendingCell
  <2>4. InPlace(m, u)' /\ SameObservers(m, u) /\ Choices(m, u) /\ ReadAll(m, u)'
    BY <1>6, <2>1, <2>2, <2>3
  <2>5. \A c \in Conns : AtPending(c, m, u)' # {} => AtPending(c, m, u) # {} \/ c = d
    BY <2>2 DEF SameFrames, Same
  <2>6. OnTheWay(m, u)'
    BY <1>0, <1>1, <1>2, <1>7, <2>4, <2>5, Settled, WayKept
  <2>. QED BY <2>4, <2>6 DEF Kept
<1>. QED BY <1>8, <1>9

\* A publication of another message, or to another account.
LEMMA OtherPublished ==
  ASSUME NEW m \in Msgs, NEW u \in Users, TypeInv, NEW k \in Msgs, NEW v \in Users, k # m \/ v # u, Publish(v, k)
  PROVE  \A s \in Servers : AtPush(s, m, u)' = AtPush(s, m, u)
<1>. PICK e, x : e = [channel |-> v, msg |-> k] /\ x = [channel |-> u, msg |-> m]
  OBVIOUS
<1>1. e \in Letters /\ e # x
  <2>1. e.channel = v /\ e.msg = k /\ x.channel = u /\ x.msg = m
    OBVIOUS
  <2>2. e \in Letters
    BY DEF Letters
  <2>. QED BY <2>1, <2>2
<1>2. push \in [Servers -> Seq(Letters)]
  BY DEF TypeInv, TypeOK, RedisTypeOK
<1>3. ASSUME NEW s \in Servers PROVE AtPush(s, m, u)' = AtPush(s, m, u)
  <2>. PICK q \in Seq(Letters) : q = push[s]
    BY <1>2
  <2>1. push'[s] \in {q, Append(q, e)}
    BY DEF Publish
  <2>2. Spots(Append(q, e), x) = Spots(q, x)
    BY <1>1, SpotsAppended
  <2>3. Spots(push'[s], x) = Spots(q, x)
    BY <2>1, <2>2
  <2>. QED BY <2>3 DEF AtPush, Spots
<1>. QED BY <1>3

LEMMA IntoRedis ==
  ASSUME NEW m \in Msgs, NEW u \in Users, Ready(m, u), NEW l \in Loops, NEW next, NEW j, GotoWith(l, next, j),
         pc[l] \in Publishing, job[l].msg = m, job[l].user = u, ~HandledFor(l, m, u)',
         next \notin Publishing \cup Storing \cup {"loginAck", "loginRemoveOffline"},
         Publish(u, m), UNCHANGED <<request, pending, toClient, offlineMessage>>
  PROVE  Kept(m, u)
<1>0. BaseInv /\ TypeInv /\ ReadAll(m, u) /\ OnTheWay(m, u)
  BY Untyped DEF Ready, Tracked
<1>1. InFlight(m, u) # {} /\ userState[u] = "online" /\ pc[l] # "loginAck"
  BY <1>0, Decided DEF Publishing
<1>2. HandledFor(l, m, u)
  BY DEF HandledFor, Publishing, OneChatPcs
<1>3. PICK s \in Servers : subs[u] = {s} /\ userConnMap[s][u] # None
  BY <1>0, <1>1, Settled, OneSubscriber
<1>. PICK x : x = [channel |-> u, msg |-> m]
  OBVIOUS
<1>4. x \in Letters /\ push \in [Servers -> Seq(Letters)]
  <2>1. push \in [Servers -> Seq(Letters)]
    BY <1>0 DEF TypeInv, TypeOK, RedisTypeOK
  <2>2. x \in Letters
    BY DEF Letters
  <2>. QED BY <2>1, <2>2
<1>5. push'[s] = Append(push[s], x) /\ \A t \in Servers \ {s} : push'[t] = push[t]
  BY <1>3 DEF Publish
<1>6. \A t \in Servers \ {s} : AtPush(t, m, u)' = AtPush(t, m, u)
  BY <1>5 DEF AtPush
<1>7. AtPush(s, m, u) = {} => One(AtPush(s, m, u)')
  <2>1. PICK q \in Seq(Letters) : q = push[s]
    BY <1>4
  <2>2. Spots(q, x) = {} => One(Spots(Append(q, x), x))
    BY <1>4, SpotsAppended
  <2>3. AtPush(s, m, u) = Spots(q, x) /\ AtPush(s, m, u)' = Spots(Append(q, x), x)
    BY <1>5, <2>1 DEF AtPush, Spots
  <2>. QED BY <2>2, <2>3
<1>. PICK b : b = <<"push", s>>
  OBVIOUS
<1>8. b \in Cells(u) /\ b # <<"job", l>>
  BY CellsAre
<1>9. Content(m, u)[<<"push", s>>] = AtPush(s, m, u) /\ Content(m, u)'[<<"push", s>>] = AtPush(s, m, u)'
  BY PushCell
<1>10. SameRequests({}, m) /\ SameFrames({b}, m, u) /\ SameTable({b}, m, u)
  BY Untouched
<1>11. SameRedis({b}, m, u)
  BY <1>6, SameItself DEF SameRedis
<1>12. InPlace(m, u)' /\ SameObservers(m, u) /\ Choices(m, u) /\ \A k \in Loops : Reads(k, u)
  BY <1>1, <1>2, <1>7, <1>8, <1>9, <1>10, <1>11, LeavesHandler
<1>13. AtTable(m, u)' = AtTable(m, u) /\ \A c \in Conns : AtPending(c, m, u)' = AtPending(c, m, u)
  BY DEF AtTable, AtPending, Places
<1>14. ReadAll(m, u)'
  BY <1>0, <1>12, <1>13, ReadKept
<1>15. OnTheWay(m, u)'
  BY <1>0, <1>1, <1>3, <1>6, <1>12, <1>13, Settled, WayKept
<1>. QED BY <1>12, <1>14, <1>15 DEF Kept

LEMMA OtherStored ==
  ASSUME NEW m \in Msgs, NEW u \in Users, TypeInv, NEW k \in Msgs, NEW v \in Users, k # m \/ v # u, OfflineInsert(v, k)
  PROVE  AtTable(m, u)' = AtTable(m, u)
<1>1. offlineMessage \in [Users -> Seq(Msgs)]
  BY DEF TypeInv, TypeOK, TablesTypeOK
<1>2. CASE offlineMessage'[u] = offlineMessage[u]
  BY <1>2 DEF AtTable
<1>3. CASE v = u /\ offlineMessage'[u] = Append(offlineMessage[u], k)
  <2>. PICK q \in Seq(Msgs) : q = offlineMessage[u]
    BY <1>1
  <2>1. Spots(Append(q, k), m) = Spots(q, m)
    BY <1>3, SpotsAppended
  <2>. QED BY <1>3, <2>1 DEF AtTable, Spots
<1>4. \/ offlineMessage'[u] = offlineMessage[u]
      \/ v = u /\ offlineMessage'[u] = Append(offlineMessage[u], k)
  BY <1>1 DEF OfflineInsert
<1>. QED BY <1>2, <1>3, <1>4

LEMMA IntoTable ==
  ASSUME NEW m \in Msgs, NEW u \in Users, Ready(m, u), ~DBFaults,
         NEW l \in Loops, NEW next, NEW j, GotoWith(l, next, j),
         pc[l] \in Storing, job[l].msg = m, job[l].user = u, ~HandledFor(l, m, u)',
         next \notin Publishing \cup Storing \cup {"loginAck", "loginRemoveOffline"},
         OfflineInsert(u, m), UNCHANGED <<request, push, pending, toClient>>
  PROVE  Kept(m, u)
<1>0. BaseInv /\ TypeInv /\ TrailInv /\ OnTheWay(m, u)
  BY Untyped DEF Ready, Tracked
<1>1. userState[u] = "offline" /\ pc[l] # "loginAck"
  BY <1>0, Decided DEF Storing
<1>2. HandledFor(l, m, u)
  BY DEF HandledFor, Storing, OneChatPcs
<1>3. AtTable(m, u) = {} => One(AtTable(m, u)')
  <2>1. offlineMessage \in [Users -> Seq(Msgs)]
    BY <1>0 DEF TypeInv, TypeOK, TablesTypeOK
  <2>. PICK q \in Seq(Msgs) : q = offlineMessage[u]
    BY <2>1
  <2>2. offlineMessage'[u] = Append(q, m)
    BY <2>1 DEF OfflineInsert
  <2>3. Spots(q, m) = {} => One(Spots(Append(q, m), m))
    BY SpotsAppended
  <2>. QED BY <2>2, <2>3 DEF AtTable, Spots
<1>. PICK b : b = <<"table", u>>
  OBVIOUS
<1>4. b \in Cells(u) /\ b # <<"job", l>>
  BY CellsAre
<1>5. Content(m, u)[<<"table", u>>] = AtTable(m, u) /\ Content(m, u)'[<<"table", u>>] = AtTable(m, u)'
  BY ContentOf
<1>6. SameRequests({}, m) /\ SameFrames({b}, m, u) /\ SameRedis({b}, m, u) /\ SameTable({b}, m, u)
  BY Untouched DEF SameTable
<1>7. InPlace(m, u)' /\ SameObservers(m, u) /\ Choices(m, u) /\ \A k \in Loops : Reads(k, u)
  BY <1>1, <1>2, <1>3, <1>4, <1>5, <1>6, LeavesHandler
<1>8. \A c \in Conns : AtPending(c, m, u)' = AtPending(c, m, u)
  BY DEF AtPending, Places
<1>9. \A s \in Servers : AtPush(s, m, u)' = AtPush(s, m, u)
  BY DEF AtPush
<1>10. OnTheWay(m, u)'
  BY <1>7, <1>8, <1>9, WaySame
<1>11. ReadAll(m, u)'
  <2>1. ASSUME NEW k \in Loops, pc'[k] = "loginRemoveOffline", job'[k].user = u PROVE FALSE
    <3>1. pc[k] = "loginRemoveOffline" /\ job[k].user = u
      BY <1>7, <2>1 DEF Reads
    <3>. QED BY <1>0, <1>1, <3>1 DEF TrailInv, JobFits
  <2>. QED BY <2>1 DEF ReadAll
<1>. QED BY <1>7, <1>10, <1>11 DEF Kept

-----------------------------------------------------------------------------
(***************************************************************************)
(* oneChat and groupChat.                                                  *)
(***************************************************************************)
\* The steps of the handlers that carry a message.
CarryPcs == OneChatPcs \cup GroupChatPcs

LEMMA ChatRests ==
  ASSUME NEW m \in Msgs, NEW u \in Users, Ready(m, u), NEW l \in Loops, NEW next, NEW j, GotoWith(l, next, j),
         HandledFor(l, m, u)' <=> HandledFor(l, m, u),
         pc[l] \in CarryPcs, next \in CarryPcs \cup {"idle"}, Choice(next, j, m, u),
         UNCHANGED request, SameFrames({}, m, u), AtTable(m, u)' = AtTable(m, u),
         \A s \in Servers : AtPush(s, m, u)' = AtPush(s, m, u)
  PROVE  Kept(m, u)
<1>1. pc'[l] = next
  BY Moving, Untyped DEF Ready
<1>2. next # "loginAck" /\ next # "loginRemoveOffline" /\ pc[l] # "loginAck"
  BY DEF CarryPcs, OneChatPcs, GroupChatPcs
<1>3. Same(AtAnswer(l, m, u), AtAnswer(l, m, u)')
  BY <1>1, <1>2, NoAnswer
<1>4. SameRequests({}, m)
  BY Untouched
<1>5. SameRedis({}, m, u)
  BY SameItself DEF SameRedis
<1>. QED BY <1>2, <1>3, <1>4, <1>5, ThreadRests

\* A frame of another message, or to another account.
LEMMA OtherFrame ==
  ASSUME TypeInv, NEW m \in Msgs, NEW u \in Users, NEW k \in Msgs, NEW v \in Users, k # m \/ v # u,
         NEW t, NEW d \in Conns, SendFrame(t, d, MsgFrame(v, k))
  PROVE  SameFrames({}, m, u)
<1>. PICK f : f = MsgFrame(v, k)
  OBVIOUS
<1>1. f \in Frames /\ f.user = v /\ (k # m => Spots(f.msgs, m) = {})
  BY MessageSpots
<1>2. SendFrame(t, d, f)
  OBVIOUS
<1>. QED BY <1>1, <1>2, EmptyFrame

LEMMA OneChatFollowed ==
  ASSUME NEW m \in Msgs, NEW u \in Users, Ready(m, u), ~DBFaults, NEW l \in Loops, OneChatStep(l)
  PROVE  Kept(m, u)
<1>0. /\ BaseInv /\ MutexInv /\ TypeInv /\ JobOK(l, pc[l], job[l]) /\ ServerOf[l] \in Servers
      /\ userConnMap \in [Servers -> [Users -> Conns \cup {None}]]
      /\ userState \in [Users -> {"online", "offline"}]
  BY Untyped, PlacementAssumption DEF Ready, TypeInv, TypeOK, JobsOK, SessionsTypeOK, TablesTypeOK
<1>1. pc[l] \in OneChatPcs /\ pc[l] \in CarryPcs
  BY DEF OneChatStep, OneChatFind, OneChatQuery, OneChatPublish, OneChatStore, OneChatPcs, CarryPcs
<1>2. PICK k \in Msgs, v \in Users : k = job[l].msg /\ v = job[l].user
  BY <1>0, <1>1 DEF JobOK
<1>3. HandledFor(l, m, u) <=> k = m /\ v = u
  BY <1>1, <1>2 DEF HandledFor, OneChatPcs, GroupChatPcs
<1>4. ASSUME NEW next, NEW j, GotoWith(l, next, j)
      PROVE  /\ next = "idle" => ~HandledFor(l, m, u)'
             /\ next \in OneChatPcs /\ j = job[l] => (HandledFor(l, m, u)' <=> HandledFor(l, m, u))
  <2>1. pc'[l] = next /\ job'[l] = j
    BY <1>0, <1>4, Moving
  <2>. QED BY <1>1, <2>1 DEF HandledFor, OneChatPcs, GroupChatPcs
<1>5. Choice("idle", NoJob, m, u)
  BY DEF Choice, Publishing, Storing
<1>6. "idle" \notin Publishing \cup Storing \cup {"loginAck", "loginRemoveOffline"}
  BY DEF Publishing, Storing
<1>7. AtTable(m, u)' = AtTable(m, u) \/ ~UNCHANGED offlineMessage
  BY DEF AtTable
<1>8. (\A s \in Servers : AtPush(s, m, u)' = AtPush(s, m, u)) \/ ~UNCHANGED push
  BY DEF AtPush
<1>9. SameFrames({}, m, u) \/ ~UNCHANGED <<pending, toClient>>
  BY Untouched
<1>10. ASSUME OneChatFind(l), userConnMap[ServerOf[l]][v] # None PROVE Kept(m, u)
  <2>1. PICK d \in Conns : d = userConnMap[ServerOf[l]][v]
    BY <1>0, <1>10
  <2>2. /\ SendFrame(l, d, MsgFrame(v, k)) /\ GotoWith(l, "idle", NoJob)
        /\ UNCHANGED <<request, push, offlineMessage>> /\ pc[l] = "oneChat"
    BY <1>2, <1>10, <2>1 DEF OneChatFind, Finish, terminalVars, redisVars, tableVars
  <2>3. CASE k = m /\ v = u
    BY <1>3, <1>4, <1>6, <2>1, <2>2, <2>3, IntoFrame
  <2>4. CASE ~(k = m /\ v = u)
    <3>1. SameFrames({}, m, u)
      BY <1>0, <2>2, <2>4, OtherFrame
    <3>. QED BY <1>1, <1>3, <1>4, <1>5, <1>7, <1>8, <2>2, <2>4, <3>1, ChatRests
  <2>. QED BY <2>3, <2>4
<1>11. ASSUME NEW next \in OneChatPcs, Goto(l, next), UNCHANGED <<request, push, offlineMessage, pending, toClient>>,
              k = m /\ v = u => Choice(next, job[l], m, u)
       PROVE  Kept(m, u)
  <2>1. GotoWith(l, next, job[l])
    BY <1>0, <1>11, GotoIsGotoWith
  <2>2. Choice(next, job[l], m, u)
    BY <1>2, <1>11 DEF Choice
  <2>3. next \in CarryPcs \cup {"idle"}
    BY DEF CarryPcs
  <2>. QED BY <1>1, <1>4, <1>7, <1>8, <1>9, <1>11, <2>1, <2>2, <2>3, ChatRests
<1>12. ASSUME OneChatFind(l), userConnMap[ServerOf[l]][v] = None PROVE Kept(m, u)
  <2>1. Goto(l, "oneChatQuery") /\ UNCHANGED <<request, push, offlineMessage, pending, toClient>>
    BY <1>2, <1>12 DEF OneChatFind, terminalVars, redisVars, tableVars, netVars
  <2>2. Choice("oneChatQuery", job[l], m, u) /\ "oneChatQuery" \in OneChatPcs
    BY DEF Choice, Publishing, Storing, OneChatPcs
  <2>. QED BY <1>11, <2>1, <2>2
<1>13. CASE OneChatQuery(l)
  <2>. PICK next : next = IF userState[v] = "online" THEN "oneChatPublish" ELSE "oneChatStore"
    OBVIOUS
  <2>1. Goto(l, next) /\ UNCHANGED <<request, push, offlineMessage, pending, toClient>>
    BY <1>2, <1>13 DEF OneChatQuery, UserQuery, terminalVars, redisVars, tableVars, netVars
  <2>2. next \in OneChatPcs
    BY DEF OneChatPcs
  <2>3. k = m /\ v = u => InFlight(m, u) # {}
    BY <1>3, Handled
  <2>4. k = m /\ v = u => Choice(next, job[l], m, u)
    BY <1>0, <2>3 DEF Choice, Publishing, Storing
  <2>. QED BY <1>11, <2>1, <2>2, <2>4
<1>14. CASE OneChatPublish(l)
  <2>1. /\ Publish(v, k) /\ GotoWith(l, "idle", NoJob) /\ pc[l] = "oneChatPublish"
        /\ UNCHANGED <<request, offlineMessage, pending, toClient>>
    BY <1>2, <1>14 DEF OneChatPublish, Finish, terminalVars, tableVars, netVars
  <2>2. CASE k = m /\ v = u
    <3>1. pc[l] \in Publishing
      BY <2>1 DEF Publishing
    <3>. QED BY <1>2, <1>4, <1>6, <2>1, <2>2, <3>1, IntoRedis
  <2>3. CASE ~(k = m /\ v = u)
    <3>1. \A s \in Servers : AtPush(s, m, u)' = AtPush(s, m, u)
      BY <1>0, <2>1, <2>3, OtherPublished
    <3>. QED BY <1>1, <1>3, <1>4, <1>5, <1>7, <1>9, <2>1, <2>3, <3>1, ChatRests
  <2>. QED BY <2>2, <2>3
<1>15. CASE OneChatStore(l)
  <2>1. /\ OfflineInsert(v, k) /\ GotoWith(l, "idle", NoJob) /\ pc[l] = "oneChatStore"
        /\ UNCHANGED <<request, push, pending, toClient>>
    BY <1>2, <1>15 DEF OneChatStore, Finish, terminalVars, redisVars, netVars
  <2>2. CASE k = m /\ v = u
    <3>1. pc[l] \in Storing
      BY <2>1 DEF Storing
    <3>. QED BY <1>2, <1>4, <1>6, <2>1, <2>2, <3>1, IntoTable
  <2>3. CASE ~(k = m /\ v = u)
    <3>1. AtTable(m, u)' = AtTable(m, u)
      BY <1>0, <2>1, <2>3, OtherStored
    <3>. QED BY <1>1, <1>3, <1>4, <1>5, <1>8, <1>9, <2>1, <2>3, <3>1, ChatRests
  <2>. QED BY <2>2, <2>3
<1>. QED BY <1>10, <1>12, <1>13, <1>14, <1>15 DEF OneChatStep

LEMMA GroupChatFollowed ==
  ASSUME NEW m \in Msgs, NEW u \in Users, Ready(m, u), ~DBFaults, NEW l \in Loops, GroupChatStep(l)
  PROVE  Kept(m, u)
<1>0. /\ BaseInv /\ MutexInv /\ TypeInv /\ JobOK(l, pc[l], job[l]) /\ JobFits(l) /\ ServerOf[l] \in Servers
      /\ userConnMap \in [Servers -> [Users -> Conns \cup {None}]]
      /\ userState \in [Users -> {"online", "offline"}] /\ job[l] \in Jobs
  BY Untyped, PlacementAssumption
     DEF Ready, TypeInv, TypeOK, JobsOK, SessionsTypeOK, TablesTypeOK, ThreadsTypeOK, TrailInv
<1>1. pc[l] \in GroupChatPcs /\ pc[l] \in CarryPcs
  BY DEF GroupChatStep, GroupChatQuery, GroupChatLock, GroupChatSend, GroupChatAbsent, GroupChatPublish,
     GroupChatStore, GroupChatEnd, GroupChatPcs, CarryPcs
<1>. PICK k \in Msgs : k = job[l].msg
  BY <1>0, <1>1 DEF JobOK
<1>2. /\ pc[l] \in {"groupLock", "groupNext"} => (HandledFor(l, m, u) <=> k = m /\ u \in job[l].rest)
      /\ pc[l] \in {"groupPublish", "groupStore"} =>
           (HandledFor(l, m, u) <=> k = m /\ (u \in job[l].rest \/ job[l].user = u))
  BY DEF HandledFor, OneChatPcs, GroupChatPcs
<1>3. ASSUME NEW next, NEW j, GotoWith(l, next, j)
      PROVE  /\ next = "idle" => ~HandledFor(l, m, u)'
             /\ next \in {"groupLock", "groupNext"} => (HandledFor(l, m, u)' <=> j.msg = m /\ u \in j.rest)
             /\ next \in {"groupPublish", "groupStore"} =>
                  (HandledFor(l, m, u)' <=> j.msg = m /\ (u \in j.rest \/ j.user = u))
  <2>1. pc'[l] = next /\ job'[l] = j
    BY <1>0, <1>3, Moving
  <2>. QED BY <2>1 DEF HandledFor, OneChatPcs, GroupChatPcs
<1>4. \A next \in {"idle", "groupLock", "groupNext"} : \A j : Choice(next, j, m, u)
  BY DEF Choice, Publishing, Storing
<1>5. "groupNext" \notin Publishing \cup Storing \cup {"loginAck", "loginRemoveOffline"}
  BY DEF Publishing, Storing
<1>6. AtTable(m, u)' = AtTable(m, u) \/ ~UNCHANGED offlineMessage
  BY DEF AtTable
<1>7. (\A s \in Servers : AtPush(s, m, u)' = AtPush(s, m, u)) \/ ~UNCHANGED push
  BY DEF AtPush
<1>8. SameFrames({}, m, u) \/ ~UNCHANGED <<pending, toClient>>
  BY Untouched
<1>9. {"idle", "groupLock", "groupNext", "groupPublish", "groupStore"} \subseteq CarryPcs \cup {"idle"}
  BY DEF CarryPcs, GroupChatPcs
<1>10. ASSUME NEW next \in {"idle", "groupLock", "groupNext", "groupPublish", "groupStore"}, NEW j,
              GotoWith(l, next, j), UNCHANGED <<request, push, offlineMessage, pending, toClient>>,
              HandledFor(l, m, u)' <=> HandledFor(l, m, u), Choice(next, j, m, u)
       PROVE  Kept(m, u)
  <2>1. next \in CarryPcs \cup {"idle"}
    BY <1>9
  <2>2. SameFrames({}, m, u) /\ AtTable(m, u)' = AtTable(m, u) /\ \A s \in Servers : AtPush(s, m, u)' = AtPush(s, m, u)
    BY <1>6, <1>7, <1>8, <1>10
  <2>. QED BY <1>1, <1>10, <2>1, <2>2, ChatRests
<1>11. CASE GroupChatQuery(l)
  <2>. PICK j : j = [job[l] EXCEPT !.rest = Members \ {job[l].user}]
    OBVIOUS
  <2>1. /\ GotoWith(l, "groupLock", j) /\ pc[l] = "groupChat"
        /\ UNCHANGED <<request, push, offlineMessage, pending, toClient>>
    BY <1>11 DEF GroupChatQuery, terminalVars, redisVars, tableVars, netVars
  <2>2. j.msg = k /\ j.rest = Members \ {job[l].user}
    BY <1>0 DEF Jobs
  <2>3. HandledFor(l, m, u) <=> k = m
    BY <2>1 DEF HandledFor, OneChatPcs
  <2>4. ASSUME k = m PROVE u \in Members /\ u # job[l].user
    <3>1. m \in GroupChats /\ SentBy(m, job[l].user)
      BY <1>0, <2>1, <2>4 DEF JobFits
    <3>2. WasSent(m)
      BY <3>1 DEF SentBy, WasSent
    <3>3. u \in Members /\ ~SentBy(m, u)
      BY <3>1, <3>2 DEF Ready, Tracked
    <3>. QED BY <3>1, <3>3
  <2>5. HandledFor(l, m, u)' <=> HandledFor(l, m, u)
    BY <1>3, <2>1, <2>2, <2>3, <2>4
  <2>. QED BY <1>4, <1>10, <2>1, <2>5
<1>12. CASE GroupChatLock(l)
  <2>1. /\ Goto(l, "groupNext") /\ pc[l] = "groupLock"
        /\ UNCHANGED <<request, push, offlineMessage, pending, toClient>>
    BY <1>12 DEF GroupChatLock, terminalVars, redisVars, tableVars, netVars
  <2>2. GotoWith(l, "groupNext", job[l])
    BY <1>0, <2>1, GotoIsGotoWith
  <2>3. HandledFor(l, m, u)' <=> HandledFor(l, m, u)
    BY <1>2, <1>3, <2>1, <2>2
  <2>. QED BY <1>4, <1>10, <2>1, <2>2, <2>3
<1>13. ASSUME NEW v \in Users, GroupChatSend(l, v) PROVE Kept(m, u)
  <2>. PICK j : j = Without(job[l], v)
    OBVIOUS
  <2>1. PICK d \in Conns : userConnMap[ServerOf[l]][v] = d
    BY <1>0, <1>13 DEF GroupChatSend
  <2>2. /\ SendFrame(l, d, MsgFrame(v, k)) /\ GotoWith(l, "groupNext", j)
        /\ UNCHANGED <<request, push, offlineMessage>> /\ pc[l] = "groupNext" /\ v \in job[l].rest
    BY <1>13, <2>1 DEF GroupChatSend, terminalVars, redisVars, tableVars
  <2>3. j.msg = k /\ j.rest = job[l].rest \ {v}
    BY <1>0 DEF Without, Jobs
  <2>4. /\ HandledFor(l, m, u) <=> k = m /\ u \in job[l].rest
        /\ HandledFor(l, m, u)' <=> k = m /\ u \in job[l].rest /\ u # v
    BY <1>2, <1>3, <2>2, <2>3
  <2>5. CASE k = m /\ v = u
    <3>1. HandledFor(l, m, u) /\ ~HandledFor(l, m, u)' /\ pc[l] # "loginAck"
      BY <2>2, <2>4, <2>5
    <3>2. userConnMap[ServerOf[l]][u] = d /\ SendFrame(l, d, MsgFrame(u, m))
      BY <2>1, <2>2, <2>5
    <3>. QED BY <1>5, <2>2, <3>1, <3>2, IntoFrame
  <2>6. CASE ~(k = m /\ v = u)
    <3>1. SameFrames({}, m, u)
      BY <1>0, <2>2, <2>6, OtherFrame
    <3>2. HandledFor(l, m, u)' <=> HandledFor(l, m, u)
      BY <2>4, <2>6
    <3>3. AtTable(m, u)' = AtTable(m, u) /\ \A s \in Servers : AtPush(s, m, u)' = AtPush(s, m, u)
      BY <1>6, <1>7, <2>2
    <3>4. "groupNext" \in CarryPcs \cup {"idle"} /\ Choice("groupNext", j, m, u)
      BY <1>4, <1>9
    <3>. QED BY <1>1, <2>2, <3>1, <3>2, <3>3, <3>4, ChatRests
  <2>. QED BY <2>5, <2>6
<1>14. ASSUME NEW v \in Users, GroupChatAbsent(l, v) PROVE Kept(m, u)
  <2>. PICK j : j = [Without(job[l], v) EXCEPT !.user = v]
    OBVIOUS
  <2>. PICK next \in {"groupPublish", "groupStore"} :
         next = IF userState[v] = "online" THEN "groupPublish" ELSE "groupStore"
    OBVIOUS
  <2>1. /\ GotoWith(l, next, j) /\ pc[l] = "groupNext" /\ v \in job[l].rest
        /\ UNCHANGED <<request, push, offlineMessage, pending, toClient>>
    BY <1>14 DEF GroupChatAbsent, UserQuery, terminalVars, redisVars, tableVars, netVars
  <2>2. j.msg = k /\ j.rest = job[l].rest \ {v} /\ j.user = v
    BY <1>0 DEF Without, Jobs
  <2>3. HandledFor(l, m, u) <=> k = m /\ u \in job[l].rest
    BY <1>2, <2>1
  <2>4. HandledFor(l, m, u)' <=> HandledFor(l, m, u)
    BY <1>3, <2>1, <2>2, <2>3
  <2>5. k = m /\ v = u => InFlight(m, u) # {}
    BY <2>1, <2>3, Handled
  <2>6. Choice(next, j, m, u)
    BY <1>0, <2>2, <2>5 DEF Choice, Publishing, Storing
  <2>. QED BY <1>10, <2>1, <2>4, <2>6
<1>15. ASSUME pc[l] \in {"groupPublish", "groupStore"}
       PROVE  job[l].user \in Users /\ job[l].user \notin job[l].rest
  BY <1>0, <1>15 DEF JobOK, JobFits
<1>16. CASE GroupChatPublish(l)
  <2>0. pc[l] = "groupPublish"
    BY <1>16 DEF GroupChatPublish
  <2>. PICK v \in Users : v = job[l].user
    BY <1>15, <2>0
  <2>1. /\ Publish(v, k) /\ Goto(l, "groupNext") /\ UNCHANGED <<request, offlineMessage, pending, toClient>>
    BY <1>16 DEF GroupChatPublish, terminalVars, tableVars, netVars
  <2>2. GotoWith(l, "groupNext", job[l])
    BY <1>0, <2>1, GotoIsGotoWith
  <2>3. /\ HandledFor(l, m, u) <=> k = m /\ (u \in job[l].rest \/ v = u)
        /\ HandledFor(l, m, u)' <=> k = m /\ u \in job[l].rest
    BY <1>2, <1>3, <2>0, <2>2
  <2>4. CASE k = m /\ v = u
    <3>1. pc[l] \in Publishing /\ ~HandledFor(l, m, u)'
      BY <1>15, <2>0, <2>3, <2>4 DEF Publishing
    <3>2. job[l].msg = m /\ job[l].user = u /\ Publish(u, m)
      BY <2>1, <2>4
    <3>. QED BY <1>5, <2>1, <2>2, <3>1, <3>2, IntoRedis
  <2>5. CASE ~(k = m /\ v = u)
    <3>1. \A s \in Servers : AtPush(s, m, u)' = AtPush(s, m, u)
      BY <1>0, <2>1, <2>5, OtherPublished
    <3>2. HandledFor(l, m, u)' <=> HandledFor(l, m, u)
      BY <2>3, <2>5
    <3>3. AtTable(m, u)' = AtTable(m, u) /\ SameFrames({}, m, u) /\ UNCHANGED request
      BY <1>6, <1>8, <2>1
    <3>4. "groupNext" \in CarryPcs \cup {"idle"} /\ Choice("groupNext", job[l], m, u)
      BY <1>4, <1>9
    <3>. QED BY <1>1, <2>2, <3>1, <3>2, <3>3, <3>4, ChatRests
  <2>. QED BY <2>4, <2>5
<1>17. CASE GroupChatStore(l)
  <2>0. pc[l] = "groupStore"
    BY <1>17 DEF GroupChatStore
  <2>. PICK v \in Users : v = job[l].user
    BY <1>15, <2>0
  <2>1. /\ OfflineInsert(v, k) /\ Goto(l, "groupNext") /\ UNCHANGED <<request, push, pending, toClient>>
    BY <1>17 DEF GroupChatStore, terminalVars, redisVars, netVars
  <2>2. GotoWith(l, "groupNext", job[l])
    BY <1>0, <2>1, GotoIsGotoWith
  <2>3. /\ HandledFor(l, m, u) <=> k = m /\ (u \in job[l].rest \/ v = u)
        /\ HandledFor(l, m, u)' <=> k = m /\ u \in job[l].rest
    BY <1>2, <1>3, <2>0, <2>2
  <2>4. CASE k = m /\ v = u
    <3>1. pc[l] \in Storing /\ ~HandledFor(l, m, u)'
      BY <1>15, <2>0, <2>3, <2>4 DEF Storing
    <3>2. job[l].msg = m /\ job[l].user = u /\ OfflineInsert(u, m)
      BY <2>1, <2>4
    <3>. QED BY <1>5, <2>1, <2>2, <3>1, <3>2, IntoTable
  <2>5. CASE ~(k = m /\ v = u)
    <3>1. AtTable(m, u)' = AtTable(m, u)
      BY <1>0, <2>1, <2>5, OtherStored
    <3>2. HandledFor(l, m, u)' <=> HandledFor(l, m, u)
      BY <2>3, <2>5
    <3>3. (\A s \in Servers : AtPush(s, m, u)' = AtPush(s, m, u)) /\ SameFrames({}, m, u) /\ UNCHANGED request
      BY <1>7, <1>8, <2>1
    <3>4. "groupNext" \in CarryPcs \cup {"idle"} /\ Choice("groupNext", job[l], m, u)
      BY <1>4, <1>9
    <3>. QED BY <1>1, <2>2, <3>1, <3>2, <3>3, <3>4, ChatRests
  <2>. QED BY <2>4, <2>5
<1>18. CASE GroupChatEnd(l)
  <2>1. /\ GotoWith(l, "idle", NoJob) /\ pc[l] = "groupNext" /\ job[l].rest = {}
        /\ UNCHANGED <<request, push, offlineMessage, pending, toClient>>
    BY <1>18 DEF GroupChatEnd, Finish, terminalVars, redisVars, tableVars, netVars
  <2>2. HandledFor(l, m, u)' <=> HandledFor(l, m, u)
    BY <1>2, <1>3, <2>1
  <2>. QED BY <1>4, <1>10, <2>1, <2>2
<1>. QED BY <1>11, <1>12, <1>13, <1>14, <1>16, <1>17, <1>18 DEF GroupChatStep

LEMMA OnlyCopy ==
  ASSUME NEW m, NEW u, InPlace(m, u), NEW n \in Cells(u), Content(m, u)[n] # {}, NEW k \in Cells(u), k # n
  PROVE  Content(m, u)[k] = {}
<1>. PICK f : f = Content(m, u)
  OBVIOUS
<1>1. DOMAIN f = Cells(u)
  BY ContentIs DEF ContentFits
<1>. QED BY <1>1 DEF InPlace, Single, Nowhere

\* A loop writes what other threads left for its connections.
LEMMA FlushStep ==
  ASSUME NEW m \in Msgs, NEW u \in Users, Ready(m, u), NEW l \in Loops, RunPendingFunctors(l)
  PROVE  Kept(m, u)
<1>0. /\ BaseInv /\ Tracked(m, u) /\ InPlace(m, u) /\ OnTheWay(m, u) /\ ReadAll(m, u)
      /\ (WasSent(m)' <=> WasSent(m)) /\ (InFlight(m, u) # {} => SameSession(u))
      /\ pending \in [Conns -> Seq(Frames)] /\ toClient \in [Conns -> Seq(Frames)]
  BY Untyped DEF Ready, Tracked, TypeInv, TypeOK, NetTypeOK
<1>1. UNCHANGED <<request, pc, job, push, observer, offlineMessage>>
  BY DEF RunPendingFunctors, tableVars, redisVars, terminalVars, threadVars
<1>2. Choices(m, u) /\ \A k \in Loops : Reads(k, u)
  BY <1>0, <1>1, ThreadsStand
<1>3. AtTable(m, u)' = AtTable(m, u)
  BY <1>1 DEF AtTable
<1>4. ASSUME NEW E
      PROVE  SameRequests(E, m) /\ SameJobs(E, m, u) /\ SameRedis(E, m, u) /\ SameObservers(m, u) /\ SameTable(E, m, u)
  BY <1>1, Untouched
<1>5. ASSUME NEW c \in Conns
      PROVE  /\ AtPending(c, m, u)' = {} \/ AtPending(c, m, u)' = AtPending(c, m, u)
             /\ LoopOf[c] # l \/ AtPending(c, m, u) = {} =>
                  AtPending(c, m, u)' = AtPending(c, m, u) /\ AtSocket(c, m, u)' = AtSocket(c, m, u)
             /\ LoopOf[c] = l /\ connected[c] /\ AtSocket(c, m, u) = {} /\ One(AtPending(c, m, u)) =>
                  One(AtSocket(c, m, u)')
             /\ LoopOf[c] = l => AtPending(c, m, u)' = {}
  <2>. PICK q, t \in Seq(Frames) : q = pending[c] /\ t = toClient[c]
    BY <1>0
  <2>1. /\ AtPending(c, m, u) = Places(q, m, u) /\ AtSocket(c, m, u) = Places(t, m, u)
        /\ AtPending(c, m, u)' = Places(pending'[c], m, u) /\ AtSocket(c, m, u)' = Places(toClient'[c], m, u)
    BY DEF AtPending, AtSocket, Places
  <2>2. Places(<<>>, m, u) = {}
    BY DEF Places
  <2>3. /\ Places(q, m, u) = {} => Places(t \o q, m, u) = Places(t, m, u)
        /\ Places(t, m, u) = {} /\ One(Places(q, m, u)) => One(Places(t \o q, m, u))
    BY PlacesJoined
  <2>4. CASE LoopOf[c] # l
    <3>1. pending'[c] = q /\ toClient'[c] = t
      BY <2>4 DEF RunPendingFunctors
    <3>. QED BY <2>1, <2>4, <3>1
  <2>5. CASE LoopOf[c] = l
    <3>1. pending'[c] = <<>> /\ toClient'[c] = IF connected[c] THEN t \o q ELSE t
      BY <2>5 DEF RunPendingFunctors
    <3>. QED BY <2>1, <2>2, <2>3, <2>5, <3>1
  <2>. QED BY <2>4, <2>5
<1>6. OnTheWay(m, u)'
  <2>1. \A c \in Conns : AtPending(c, m, u)' # {} => AtPending(c, m, u) # {}
    BY <1>5
  <2>2. \A s \in Servers : AtPush(s, m, u)' # {} => AtPush(s, m, u) # {}
    BY <1>1 DEF AtPush
  <2>. QED BY <1>0, <1>2, <1>4, <2>1, <2>2, WayKept
<1>7. ReadAll(m, u)'
  BY <1>0, <1>2, <1>3, ReadKept
<1>8. CASE \A c \in Conns : LoopOf[c] = l => AtPending(c, m, u) = {}
  <2>1. SameFrames({}, m, u)
    BY <1>5, <1>8, SameItself DEF SameFrames
  <2>2. SameBut({}, m, u)
    BY <1>4, <2>1 DEF SameBut
  <2>. QED BY <1>0, <1>6, <1>7, <2>2, Stays DEF Kept
<1>9. ASSUME NEW c \in Conns, LoopOf[c] = l, AtPending(c, m, u) # {} PROVE Kept(m, u)
  <2>. PICK a, b : a = <<"pending", c>> /\ b = <<"client", c>>
    OBVIOUS
  <2>. PICK E : E = {a, b}
    OBVIOUS
  <2>1. a \in Cells(u) /\ b \in Cells(u) /\ a # b
    BY CellsAre
  <2>2. /\ Content(m, u)[a] = AtPending(c, m, u) /\ Content(m, u)'[a] = AtPending(c, m, u)'
        /\ Content(m, u)[b] = AtSocket(c, m, u) /\ Content(m, u)'[b] = AtSocket(c, m, u)'
    BY PendingCell, SocketCell
  <2>3. connected[c]
    <3>1. ~Unsettled(u)
      BY <1>0, <1>9, Flying DEF Tracked
    <3>2. ConnServer(c) \in Servers /\ userConnMap[ConnServer(c)][u] = c
      BY <1>0, <1>9, PlacementAssumption DEF OnTheWay, ConnServer
    <3>. QED BY <1>0, <3>1, <3>2, SettledEntry, NoneAssumption
  <2>4. ASSUME NEW d \in Conns, d # c PROVE AtPending(d, m, u) = {}
    <3>. PICK k : k = <<"pending", d>>
      OBVIOUS
    <3>1. k \in Cells(u) /\ k # a /\ Content(m, u)[k] = AtPending(d, m, u)
      BY <2>4, CellsAre, PendingCell
    <3>. QED BY <1>0, <1>9, <2>1, <2>2, <3>1, OnlyCopy
  <2>5. SameFrames(E, m, u)
    BY <1>5, <2>4, SameItself DEF SameFrames
  <2>6. SameBut({a, b}, m, u)
    BY <1>4, <2>5 DEF SameBut
  <2>7. AtPending(c, m, u)' = {} /\ (AtSocket(c, m, u) = {} /\ One(AtPending(c, m, u)) => One(AtSocket(c, m, u)'))
    BY <1>5, <1>9, <2>3
  <2>8. InPlace(m, u)'
    BY <1>0, <1>9, <2>1, <2>2, <2>6, <2>7, Moves
  <2>. QED BY <1>6, <1>7, <2>8 DEF Kept
<1>. QED BY <1>8, <1>9

\* Whatever an I/O thread does.
LEMMA ThreadKept ==
  ASSUME NEW m \in Msgs, NEW u \in Users, Ready(m, u), ~DBFaults, NEW l \in Loops, Dispatch(l) \/ Handle(l)
  PROVE  Kept(m, u)
<1>1. CASE LoginStep(l)
  BY <1>1, PlainSteps, ReadStep, RemoveStep, AckStep DEF LoginStep
<1>2. CASE CloseStep(l)
  BY <1>2, PlainSteps
<1>3. CASE OneChatStep(l)
  BY <1>3, OneChatFollowed
<1>4. CASE GroupChatStep(l)
  BY <1>4, GroupChatFollowed
<1>5. CASE Dispatch(l)
  BY <1>5, PlainSteps, TakeStep, FlushStep DEF Dispatch
<1>. QED BY <1>1, <1>2, <1>3, <1>4, <1>5 DEF Handle

-----------------------------------------------------------------------------
(***************************************************************************)
(* The observer, Redis and a starting server.                              *)
(***************************************************************************)
LEMMA ObserverIdle ==
  ASSUME NEW m, NEW u, OnTheWay(m, u), \A s \in Servers : observer'[s] # [channel |-> u, msg |-> m]
  PROVE  SameObservers(m, u)
BY DEF SameObservers, OnTheWay, AtObserver, Same

\* The copies stay, and so do the threads.
LEMMA OthersRest ==
  ASSUME NEW m \in Msgs, NEW u \in Users, Ready(m, u), SameRequests({}, m), UNCHANGED <<pc, job>>,
         SameObservers(m, u), SameRedis({}, m, u), SameFrames({}, m, u), AtTable(m, u)' = AtTable(m, u)
  PROVE  Kept(m, u)
<1>1. Tracked(m, u) /\ OnTheWay(m, u) /\ (WasSent(m)' <=> WasSent(m)) /\ (InFlight(m, u) # {} => SameSession(u))
  BY DEF Ready, Tracked
<1>2. Choices(m, u) /\ \A l \in Loops : Reads(l, u)
  BY <1>1, ThreadsStand
<1>3. SameJobs({}, m, u)
  BY Untouched
<1>4. SameBut({}, m, u)
  BY <1>3, SameItself DEF SameBut, SameTable
<1>. QED BY <1>1, <1>2, <1>4, NothingMoves

\* The observer stores: it holds no letter that nothing disturbed.
LEMMA StoreKept ==
  ASSUME NEW m \in Msgs, NEW u \in Users, Ready(m, u), NEW s \in Servers, ObserverStore(s)
  PROVE  Kept(m, u)
<1>0. /\ TypeInv /\ OnTheWay(m, u) /\ observer \in [Servers -> Letters \cup {NoLetter}]
  BY Untyped DEF Ready, Tracked, TypeInv, TypeOK, SessionsTypeOK, ThreadsTypeOK
<1>1. PICK e \in Letters : e = observer[s]
  BY <1>0 DEF ObserverStore
<1>. PICK v \in Users, k \in Msgs : v = e.channel /\ k = e.msg
  BY DEF Letters
<1>2. e = [channel |-> v, msg |-> k]
  BY DEF Letters
<1>3. k # m \/ v # u
  BY <1>0, <1>1, <1>2 DEF OnTheWay, AtObserver
<1>4. AtTable(m, u)' = AtTable(m, u)
  BY <1>0, <1>1, <1>3, OtherStored DEF ObserverStore
<1>5. \A t \in Servers : observer'[t] # [channel |-> u, msg |-> m]
  <2>1. \A t \in Servers : observer[t] # [channel |-> u, msg |-> m]
    BY <1>0 DEF OnTheWay, AtObserver
  <2>2. NoLetter # [channel |-> u, msg |-> m]
    BY NoneAssumption DEF NoLetter
  <2>. QED BY <1>0, <2>1, <2>2 DEF ObserverStore
<1>6. UNCHANGED <<request, pc, job, push, pending, toClient>>
  BY DEF ObserverStore, redisVars, terminalVars, netVars
<1>7. SameRequests({}, m) /\ SameRedis({}, m, u) /\ SameFrames({}, m, u)
  BY <1>6, Untouched
<1>. QED BY <1>0, <1>4, <1>5, <1>6, <1>7, ObserverIdle, OthersRest

\* The observer forwards: a letter finds the entry it was published for.
LEMMA ForwardKept ==
  ASSUME NEW m \in Msgs, NEW u \in Users, Ready(m, u), NEW s \in Servers, ObserverForward(s)
  PROVE  Kept(m, u)
<1>0. /\ BaseInv /\ TypeInv /\ Tracked(m, u) /\ OnTheWay(m, u) /\ InPlace(m, u) /\ ReadAll(m, u)
      /\ (WasSent(m)' <=> WasSent(m))
      /\ push \in [Servers -> Seq(Letters)] /\ observer \in [Servers -> Letters \cup {NoLetter}]
      /\ userConnMap \in [Servers -> [Users -> Conns \cup {None}]]
  BY Untyped DEF Ready, Tracked, TypeInv, TypeOK, SessionsTypeOK, ThreadsTypeOK, RedisTypeOK
<1>. PICK q \in Seq(Letters) : q = push[s]
  BY <1>0
<1>1. q # <<>>
  BY DEF ObserverForward
<1>. PICK e \in Letters : e = Head(q)
  BY <1>1
<1>. PICK x : x = [channel |-> u, msg |-> m]
  OBVIOUS
<1>. PICK v \in Users, k \in Msgs : v = e.channel /\ k = e.msg
  BY DEF Letters
<1>2. e = [channel |-> v, msg |-> k]
  BY DEF Letters
<1>3. push' = [push EXCEPT ![s] = Tail(q)]
  BY DEF ObserverForward, ReadReply
<1>4. UNCHANGED <<request, pc, job, offlineMessage>>
  BY DEF ObserverForward, tableVars, terminalVars
<1>5. AtTable(m, u)' = AtTable(m, u)
  BY <1>4 DEF AtTable
<1>6. /\ AtPush(s, m, u) = Spots(q, x) /\ AtPush(s, m, u)' = Spots(Tail(q), x)
      /\ \A t \in Servers \ {s} : AtPush(t, m, u)' = AtPush(t, m, u)
  BY <1>0, <1>3 DEF AtPush, Spots
<1>7. /\ e # x => Same(Spots(q, x), Spots(Tail(q), x))
      /\ e = x => Spots(q, x) # {}
      /\ e = x /\ One(Spots(q, x)) => Spots(Tail(q), x) = {}
      /\ Spots(Tail(q), x) # {} => Spots(q, x) # {}
  BY <1>1, SpotsTaken
<1>. PICK d \in Conns \cup {None} : d = userConnMap[s][v]
  BY <1>0
<1>8. /\ d # None => SendFrame("observer", d, MsgFrame(v, k)) /\ UNCHANGED observer
      /\ d = None => observer' = [observer EXCEPT ![s] = e] /\ UNCHANGED <<pending, toClient>>
  BY DEF ObserverForward, netVars
<1>9. NoLetter # x /\ \A t \in Servers : observer[t] # x
  BY <1>0, NoneAssumption DEF OnTheWay, AtObserver, NoLetter
<1>10. CASE e # x
  <2>1. k # m \/ v # u
    BY <1>2, <1>10
  <2>2. SameRedis({}, m, u)
    BY <1>6, <1>7, <1>10, SameItself DEF SameRedis
  <2>3. \A t \in Servers : observer'[t] # x
    BY <1>0, <1>8, <1>9, <1>10
  <2>4. SameFrames({}, m, u)
    <3>1. CASE d # None
      BY <1>0, <1>8, <2>1, <3>1, OtherFrame
    <3>2. CASE d = None
      BY <1>8, <3>2, Untouched
    <3>. QED BY <3>1, <3>2
  <2>5. SameRequests({}, m)
    BY <1>4, Untouched
  <2>. QED BY <1>0, <1>4, <1>5, <2>2, <2>3, <2>4, <2>5, ObserverIdle, OthersRest
<1>11. CASE e = x
  <2>1. v = u /\ k = m /\ AtPush(s, m, u) # {}
    BY <1>2, <1>6, <1>7, <1>11
  <2>2. d # None /\ d \in Conns
    BY <1>0, <2>1 DEF OnTheWay
  <2>3. InFlight(m, u) # {}
    BY <2>1, Flying
  <2>4. ~Unsettled(u) /\ SameSession(u)
    BY <2>3, Settled
  <2>5. connected[d] /\ ConnServer(d) = s
    BY <1>0, <2>1, <2>2, <2>4, SettledEntry
  <2>6. "observer" # LoopOf[d]
    BY <2>2, NoneAssumption, PlacementAssumption DEF OtherThreads
  <2>. PICK a, b : a = <<"push", s>> /\ b = <<"pending", d>>
    OBVIOUS
  <2>. PICK E : E = {a, b}
    OBVIOUS
  <2>7. a \in Cells(u) /\ b \in Cells(u) /\ a # b
    BY <2>2, CellsAre
  <2>8. /\ Content(m, u)[a] = AtPush(s, m, u) /\ Content(m, u)'[a] = AtPush(s, m, u)'
        /\ Content(m, u)[b] = AtPending(d, m, u) /\ Content(m, u)'[b] = AtPending(d, m, u)'
    BY <2>2, PushCell, PendingCell
  <2>. PICK f \in Frames : f = MsgFrame(u, m)
    BY MessageSpots
  <2>9. f.user = u /\ One(Spots(f.msgs, m)) /\ SendFrame("observer", d, f)
    BY <1>8, <2>1, <2>2, MessageSpots
  <2>10. SameFrames(E, m, u) /\ (AtPending(d, m, u) = {} => One(AtPending(d, m, u)'))
    BY <1>0, <2>2, <2>5, <2>6, <2>9, FullFrame
  <2>11. SameObservers(m, u)
    BY <1>8, <2>2, Untouched
  <2>12. SameRedis(E, m, u)
    BY <1>6, SameItself DEF SameRedis
  <2>13. SameRequests(E, m) /\ SameJobs(E, m, u) /\ SameTable(E, m, u)
    BY <1>4, Untouched
  <2>14. SameBut({a, b}, m, u)
    BY <2>10, <2>11, <2>12, <2>13 DEF SameBut
  <2>15. InPlace(m, u)'
    BY <1>0, <1>6, <1>7, <1>11, <2>1, <2>7, <2>8, <2>10, <2>14, Moves
  <2>16. Choices(m, u) /\ \A l \in Loops : Reads(l, u)
    BY <1>0, <1>4, ThreadsStand
  <2>17. OnTheWay(m, u)'
    <3>1. \A t \in Servers : AtPush(t, m, u)' # {} => AtPush(t, m, u) # {}
      BY <1>6, <1>7
    <3>2. \A c \in Conns : c # d => (AtPending(c, m, u)' # {} => AtPending(c, m, u) # {})
      BY <2>10 DEF SameFrames, Same
    <3>3. userConnMap[ConnServer(d)][u] = d /\ ConnServer(d) \in Servers
      BY <2>1, <2>5
    <3>. QED BY <1>0, <2>3, <2>4, <2>11, <2>16, <3>1, <3>2, <3>3, WayKept
  <2>18. ReadAll(m, u)'
    BY <1>0, <1>5, <2>16, ReadKept
  <2>. QED BY <2>15, <2>17, <2>18 DEF Kept
<1>. QED BY <1>10, <1>11

LEMMA OtherKept ==
  ASSUME NEW m \in Msgs, NEW u \in Users, Ready(m, u), NEW s \in Servers, Observe(s) \/ Redis(s) \/ Start(s)
  PROVE  Kept(m, u)
<1>1. CASE Redis(s) \/ Start(s)
  <2>1. UNCHANGED <<request, pc, job, push, observer, pending, toClient, offlineMessage>>
    BY <1>1 DEF Redis, Start, RedisExecute, ServersIdle, tableVars, redisVars, terminalVars, netVars, threadVars
  <2>2. AtTable(m, u)' = AtTable(m, u)
    BY <2>1 DEF AtTable
  <2>3. SameRequests({}, m) /\ SameRedis({}, m, u) /\ SameFrames({}, m, u) /\ SameObservers(m, u)
    BY <2>1, Untouched
  <2>. QED BY <2>1, <2>2, <2>3, OthersRest
<1>. QED BY <1>1, StoreKept, ForwardKept DEF Observe

-----------------------------------------------------------------------------
(***************************************************************************)
(* The terminals.                                                          *)
(***************************************************************************)
LEMMA SentSame ==
  ASSUME TypeInv, NEW m \in Msgs,
         UNCHANGED sent \/ \E c \in Conns : \E k \in Msgs : k # m /\ NewMessage(c, k)
  PROVE  WasSent(m)' <=> WasSent(m)
<1>1. CASE UNCHANGED sent
  BY <1>1 DEF WasSent
<1>2. ASSUME NEW c \in Conns, NEW k \in Msgs, k # m, NewMessage(c, k) PROVE WasSent(m)' <=> WasSent(m)
  <2>1. PICK n : /\ n \notin DOMAIN sent /\ DOMAIN sent' = DOMAIN sent \cup {n}
                 /\ sent'[n].msg = k /\ \A i \in DOMAIN sent : sent'[i] = sent[i]
    BY <1>2, NewMessageIs DEF Posted
  <2>. QED BY <1>2, <2>1 DEF WasSent
<1>. QED BY <1>1, <1>2

\* A message is sent: it is in the socket and nowhere else.
LEMMA SendKept ==
  ASSUME NEW m \in Msgs, NEW u \in Users, BaseInv, Tracked(m, u), NEW c \in Conns, NewMessage(c, m),
         UNCHANGED <<userState, offlineMessage, push, toClient, pending, pc, job, observer, userConnMap>>
  PROVE  Kept(m, u)
<1>0. /\ InPlace(m, u) /\ OnTheWay(m, u) /\ ReadAll(m, u) /\ TypeInv
      /\ request \in [Conns -> Requests]
  BY Untyped DEF Tracked, TypeInv, TypeOK, TerminalsTypeOK
<1>1. ~WasSent(m) /\ WasSent(m)'
  BY <1>0, NewMessageIs
<1>2. PICK r : request' = [request EXCEPT ![c] = r] /\ r.msg = m
  BY <1>0, NewMessageIs
<1>. PICK n : n = <<"request", c>>
  OBVIOUS
<1>. PICK E : E = {n}
  OBVIOUS
<1>3. AtRequest(c, m)' = {0} /\ \A d \in Conns \ {c} : AtRequest(d, m)' = AtRequest(d, m)
  BY <1>0, <1>2 DEF AtRequest
<1>4. SameRequests(E, m)
  BY <1>3, SameItself DEF SameRequests
<1>5. SameBut(E, m, u)
  BY <1>4, Untouched DEF SameBut
<1>6. n \in Cells(u) /\ Content(m, u)'[n] = AtRequest(c, m)'
  BY CellsAre, ContentIs DEF ContentFits
<1>. PICK f, g : f = Content(m, u) /\ g = Content(m, u)'
  OBVIOUS
<1>7. DOMAIN f = Cells(u) /\ DOMAIN g = Cells(u)
  BY ContentIs DEF ContentFits, Cells
<1>8. \A k \in Cells(u) : f[k] = {}
  BY <1>0, <1>1, <1>7 DEF InPlace, Nowhere
<1>9. \A k \in Cells(u) : k # n => g[k] = {}
  BY <1>5, <1>8, SameContent DEF Same
<1>10. One(g[n])
  BY <1>3, <1>6, OneElement
<1>11. Single(g)
  BY <1>6, <1>7, <1>9, <1>10 DEF Single
<1>12. InPlace(m, u)'
  BY <1>1, <1>11 DEF InPlace
<1>13. OnTheWay(m, u)'
  BY <1>0 DEF OnTheWay, AtPush, AtObserver, AtPending, Places
<1>14. ReadAll(m, u)'
  BY <1>0 DEF ReadAll, AtTable
<1>. QED BY <1>12, <1>13, <1>14 DEF Kept

\* The sender's process ends with m in its socket, or about to leave it.
Leaves(m) == \E c \in Conns : request[c].msg = m /\ clientPc[c] # "closed" /\ clientPc'[c] = "closed"

LEMMA TerminalKept ==
  ASSUME NEW m \in Msgs, NEW u \in Users, BaseInv, TrailInv, Tracked(m, u),
         InFlight(m, u) # {} => SameSession(u), ~Leaves(m),
         NEW c \in Conns, Accept(c) \/ Terminal(c) \/ \E v \in Users : Login(c, v)
  PROVE  Kept(m, u)
<1>0. /\ TypeInv /\ request \in [Conns -> Requests]
      /\ UNCHANGED <<userState, offlineMessage, push, toClient, pending, pc, job, observer, userConnMap>>
  BY Untyped, TerminalsSend DEF TypeInv, TypeOK, TerminalsTypeOK, tableVars, redisVars
<1>1. AtTable(m, u)' = AtTable(m, u)
  BY <1>0 DEF AtTable
<1>2. SameRedis({}, m, u) /\ SameFrames({}, m, u) /\ SameObservers(m, u)
  BY <1>0, Untouched
<1>3. ASSUME WasSent(m)' <=> WasSent(m), SameRequests({}, m) PROVE Kept(m, u)
  <2>1. Ready(m, u)
    BY <1>3 DEF Ready
  <2>. QED BY <1>0, <1>1, <1>2, <1>3, <2>1, OthersRest
<1>4. ASSUME NEW r, request[c] = NoRequest, request' = [request EXCEPT ![c] = r], r.msg # m
      PROVE  SameRequests({}, m)
  <2>1. request[c].msg # m
    BY <1>4, NoneAssumption DEF NoRequest
  <2>2. \A d \in Conns : AtRequest(d, m)' = AtRequest(d, m)
    BY <1>0, <1>4, <2>1 DEF AtRequest
  <2>. QED BY <2>2, SameItself DEF SameRequests
<1>5. ASSUME NEW k \in Msgs, NewMessage(c, k) PROVE Kept(m, u)
  <2>1. CASE k = m
    BY <1>0, <1>5, <2>1, SendKept
  <2>2. CASE k # m
    <3>1. WasSent(m)' <=> WasSent(m)
      BY <1>0, <1>5, <2>2, SentSame
    <3>2. request[c] = NoRequest /\ \E r : request' = [request EXCEPT ![c] = r] /\ r.msg = k
      BY <1>0, <1>5, NewMessageIs
    <3>. QED BY <1>3, <1>4, <2>2, <3>1, <3>2
  <2>. QED BY <2>1, <2>2
<1>6. CASE UNCHANGED <<sent, request>>
  BY <1>0, <1>3, <1>6, SentSame, Untouched
<1>7. CASE UNCHANGED sent /\ Exit(c)
  <2>1. request[c].msg # m \/ UNCHANGED request
    BY <1>0, <1>7, Untyped DEF Exit, Leaves, TypeInv, TypeOK, TerminalsTypeOK
  <2>2. SameRequests({}, m)
    <3>1. CASE UNCHANGED request
      BY <3>1, Untouched
    <3>2. CASE request[c].msg # m /\ request' = [request EXCEPT ![c] = NoRequest]
      <4>1. NoRequest.msg # m
        BY NoneAssumption DEF NoRequest
      <4>2. \A d \in Conns : AtRequest(d, m)' = AtRequest(d, m)
        BY <1>0, <3>2, <4>1 DEF AtRequest
      <4>. QED BY <4>2, SameItself DEF SameRequests
    <3>. QED BY <1>7, <2>1, <3>1, <3>2 DEF Exit
  <2>. QED BY <1>0, <1>3, <1>7, <2>2, SentSame
<1>8. CASE /\ UNCHANGED sent /\ request[c] = NoRequest
           /\ \E r : request' = [request EXCEPT ![c] = r] /\ r.kind \in {"login", "loginout"} /\ r.msg = None
  <2>1. PICK r : request' = [request EXCEPT ![c] = r] /\ r.msg # m
    BY <1>8, NoneAssumption
  <2>. QED BY <1>0, <1>3, <1>4, <1>8, <2>1, SentSame
<1>. QED BY <1>5, <1>6, <1>7, <1>8, TerminalsSend

-----------------------------------------------------------------------------
(***************************************************************************)
(* The invariant is inductive.                                             *)
(***************************************************************************)
LEMMA FlightIsCopy ==
  ASSUME NEW m, NEW u, InFlight(m, u) # {}
  PROVE  ~Nowhere(Content(m, u))
<1>. PICK f : f = Content(m, u)
  OBVIOUS
<1>1. DOMAIN f = Cells(u)
  BY ContentIs DEF ContentFits
<1>2. \E p : Copy(m, u, p)
  BY CopiesAre
<1>3. \E n \in Cells(u) : f[n] # {}
  BY <1>2 DEF Copy
<1>. QED BY <1>1, <1>3 DEF Nowhere

\* Whom a message was sent to.
LEMMA SentTo ==
  ASSUME SentOnce, NEW m \in Msgs, NEW u, <<m, u>> \in Deliveries
  PROVE  /\ m \in Chats => u = AddresseeOf[m]
         /\ m \in GroupChats => u \in Members /\ ~SentBy(m, u)
<1>1. PICK i \in DOMAIN sent : sent[i].msg = m /\ u \in Recipients(i)
  BY DEF Deliveries
<1>2. CASE m \in Chats
  BY <1>1, <1>2, NoneAssumption DEF Recipients
<1>3. CASE m \in GroupChats
  <2>1. m \notin Chats
    BY <1>3, NoneAssumption
  <2>2. u \in Members /\ u # sent[i].from
    BY <1>1, <2>1 DEF Recipients
  <2>3. ~SentBy(m, u)
    BY <1>1, <2>2 DEF SentBy, SentOnce
  <2>. QED BY <2>1, <2>2, <2>3
<1>. QED BY <1>2, <1>3 DEF Msgs

\* DeliveryInv gives what the lemmas on single steps start from.
LEMMA TrackedIs ==
  ASSUME DeliveryInv, NEW m \in Msgs, NEW u \in Users, Followed(m, u)
  PROVE  Tracked(m, u)
<1>1. InPlace(m, u) /\ OnTheWay(m, u) /\ ReadAll(m, u)
  BY DEF DeliveryInv, FollowedInv
<1>2. ASSUME InFlight(m, u) # {} PROVE ~Unsettled(u)
  <2>1. WasSent(m)
    BY <1>1, <1>2, FlightIsCopy DEF InPlace
  <2>. PICK d : d = <<m, u>>
    OBVIOUS
  <2>2. d \in Deliveries \ disturbed /\ d[1] = m /\ d[2] = u
    BY <2>1 DEF Followed
  <2>. QED BY <1>2, <2>2 DEF DeliveryInv, CalmIsSettled
<1>3. ASSUME WasSent(m)
      PROVE  /\ m \in Chats => u = AddresseeOf[m]
             /\ m \in GroupChats => u \in Members /\ ~SentBy(m, u)
  <2>1. <<m, u>> \in Deliveries
    BY <1>3 DEF Followed
  <2>. QED BY <2>1, SentTo DEF DeliveryInv, TrailInv
<1>. QED BY <1>1, <1>2, <1>3 DEF Tracked

\* What is still followed was followed before.
LEMMA FollowedBefore ==
  ASSUME Grows, SentOnce', disturbed \subseteq disturbed',
         NEW m \in Msgs, NEW u \in Users, Followed(m, u)'
  PROVE  Followed(m, u)
<1>. SUFFICES ASSUME WasSent(m) PROVE <<m, u>> \in Deliveries \ disturbed
  BY DEF Followed
<1>1. PICK i \in DOMAIN sent : sent[i].msg = m
  BY DEF WasSent
<1>2. i \in DOMAIN sent' /\ sent'[i] = sent[i]
  BY DEF Grows
<1>3. WasSent(m)'
  BY <1>1, <1>2 DEF WasSent
<1>4. <<m, u>> \in Deliveries' /\ <<m, u>> \notin disturbed'
  BY <1>3 DEF Followed
<1>5. PICK k \in DOMAIN sent' : sent'[k].msg = m /\ u \in Recipients(k)'
  BY <1>4 DEF Deliveries
<1>6. k = i
  BY <1>1, <1>2, <1>5 DEF SentOnce
<1>7. u \in Recipients(i)
  BY <1>2, <1>5, <1>6 DEF Recipients
<1>8. <<m, u>> \in Deliveries
  BY <1>1, <1>7 DEF Deliveries
<1>. QED BY <1>4, <1>8

\* FollowedInv after a step of the system.
LEMMA FollowedStep ==
  ASSUME BaseInv, DeliveryInv, ~DBFaults, StopKinds = {}, [Next]_vars, SentOnce',
         disturbed \subseteq disturbed', Abandoned \subseteq disturbed' \/ UNCHANGED vars,
         NEW m \in Msgs, NEW u \in Users, Followed(m, u)'
  PROVE  Kept(m, u)
<1>1. Grows /\ TypeInv /\ TrailInv
  BY SentGrows, Untyped DEF DeliveryInv
<1>2. Followed(m, u)
  BY <1>1, FollowedBefore
<1>3. Tracked(m, u)
  BY <1>2, TrackedIs
<1>4. InFlight(m, u) # {} => SameSession(u)
  BY <1>3, SettledStays DEF Tracked
<1>5. ASSUME UNCHANGED sent PROVE Ready(m, u)
  <2>1. WasSent(m)' <=> WasSent(m)
    BY <1>1, <1>5, SentSame
  <2>. QED BY <1>1, <1>3, <1>4, <2>1 DEF Ready
<1>6. ASSUME NEW c \in Conns, Accept(c) \/ Terminal(c) \/ \E v \in Users : Login(c, v) PROVE Kept(m, u)
  <2>1. CASE ~Leaves(m)
    BY <1>1, <1>3, <1>4, <1>6, <2>1, TerminalKept
  <2>2. CASE Leaves(m)
    <3>1. ~UNCHANGED vars
      BY <2>2 DEF Leaves, vars, terminalVars
    <3>2. WasSent(m)
      <4>1. PICK d \in Conns : request[d].msg = m
        BY <2>2 DEF Leaves
      <4>2. AtRequest(d, m) # {}
        BY <4>1 DEF AtRequest
      <4>3. InFlight(m, u) # {}
        BY <4>2, Flying
      <4>. QED BY <1>3, <4>3, FlightIsCopy DEF Tracked, InPlace
    <3>. PICK d : d = <<m, u>>
      OBVIOUS
    <3>3. d \in Deliveries /\ d[1] = m
      BY <1>2, <3>2 DEF Followed
    <3>4. d \in Abandoned
      BY <2>2, <3>3 DEF Abandoned, Leaves
    <3>5. WasSent(m)'
      BY <1>1, <3>2 DEF WasSent, Grows
    <3>. QED BY <3>1, <3>4, <3>5 DEF Followed
  <2>. QED BY <2>1, <2>2
<1>7. ASSUME NEW l \in Loops, Dispatch(l) \/ Handle(l) PROVE Kept(m, u)
  BY <1>5, <1>7, ThreadsSendNothing, ThreadKept
<1>8. ASSUME NEW s \in Servers, Observe(s) \/ Redis(s) \/ Start(s) PROVE Kept(m, u)
  BY <1>5, <1>8, OthersSendNothing, OtherKept
<1>9. \A s \in Servers : ~Sigint(s) /\ ~Reset(s) /\ ~Crash(s)
  BY Untyped, SignalFree DEF Crash
<1>10. ASSUME UNCHANGED vars PROVE Kept(m, u)
  <2>1. UNCHANGED <<sent, request, pc, job, push, observer, pending, toClient, offlineMessage>>
    BY <1>10 DEF vars, terminalVars, threadVars, redisVars, netVars, tableVars
  <2>2. AtTable(m, u)' = AtTable(m, u)
    BY <2>1 DEF AtTable
  <2>3. SameRequests({}, m) /\ SameRedis({}, m, u) /\ SameFrames({}, m, u) /\ SameObservers(m, u)
    BY <2>1, Untouched
  <2>. QED BY <1>5, <2>1, <2>2, <2>3, OthersRest
<1>. QED BY <1>6, <1>7, <1>8, <1>9, <1>10 DEF Next

LEMMA CalmStep ==
  ASSUME BaseInv, DeliveryInv, [DeliveryNext]_<<vars, disturbed>>
  PROVE  CalmIsSettled'
<1>1. CASE DeliveryNext
  <2>1. DisturbedNow' \subseteq disturbed'
    BY <1>1 DEF DeliveryNext
  <2>. QED BY <2>1 DEF CalmIsSettled, DisturbedNow
<1>2. CASE UNCHANGED <<vars, disturbed>>
  <2>1. /\ UNCHANGED <<sent, request, pc, job, push, observer, pending, disturbed>>
        /\ UNCHANGED <<cmds, userConnMap, connected>>
    BY <1>2 DEF vars, terminalVars, threadVars, redisVars, netVars, sessionVars
  <2>2. Deliveries' = Deliveries
    BY <2>1 DEF Deliveries, Recipients
  <2>3. \A u : Unsettled(u)' <=> Unsettled(u)
    BY <2>1 DEF Unsettled
  <2>4. \A m, u : InFlight(m, u)' = InFlight(m, u)
    <3>. TAKE m, u
    <3>1. InRequest(m)' = InRequest(m)
      BY <2>1 DEF InRequest
    <3>2. InHandler(m, u)' = InHandler(m, u)
      BY <2>1 DEF InHandler, HandledFor
    <3>3. InRedis(m, u)' = InRedis(m, u)
      BY <2>1 DEF InRedis
    <3>4. InObserver(m, u)' = InObserver(m, u)
      BY <2>1 DEF InObserver
    <3>5. InQueue(m, u)' = InQueue(m, u)
      BY <2>1 DEF InQueue, Places
    <3>. QED BY <3>1, <3>2, <3>3, <3>4, <3>5 DEF InFlight
  <2>. QED BY <2>1, <2>2, <2>3, <2>4 DEF DeliveryInv, CalmIsSettled
<1>. QED BY <1>1, <1>2

LEMMA DeliveryStep ==
  ASSUME Patient, ~DBFaults, StopKinds = {}, BaseInv, DeliveryInv, [DeliveryNext]_<<vars, disturbed>>
  PROVE  BaseInv' /\ DeliveryInv'
<1>1. [Next]_vars
  BY DEF DeliveryNext
<1>2. BaseInv'
  BY <1>1, PresenceStep, ConnStep, ListensStep, Untyped DEF BaseInv
<1>3. TrailInv'
  BY <1>1, TrailStep DEF DeliveryInv
<1>4. CalmIsSettled'
  BY CalmStep
<1>5. disturbed \subseteq disturbed' /\ (Abandoned \subseteq disturbed' \/ UNCHANGED vars)
  BY DEF DeliveryNext
<1>6. SentOnce'
  BY <1>3 DEF TrailInv
<1>7. FollowedInv'
  <2>. SUFFICES ASSUME NEW m \in Msgs, NEW u \in Users, Followed(m, u)'
                PROVE  InPlace(m, u)' /\ OnTheWay(m, u)' /\ ReadAll(m, u)'
    BY DEF FollowedInv
  <2>. QED BY <1>1, <1>5, <1>6, FollowedStep DEF Kept
<1>. QED BY <1>2, <1>3, <1>4, <1>7 DEF DeliveryInv

LEMMA DeliveryBegins == DeliveryInit => BaseInv /\ DeliveryInv
<1>. SUFFICES ASSUME DeliveryInit PROVE BaseInv /\ DeliveryInv
  OBVIOUS
<1>0. Init
  BY DEF DeliveryInit
<1>1. BaseInv
  <2>1. \A s \in Servers, u \in Users : ~Live(s, u)
    BY <1>0 DEF Init, Live
  <2>. QED BY <1>0, <2>1, PresenceInit, ConnBegins DEF BaseInv, EntryListens
<1>2. /\ sent = <<>> /\ \A l \in Loops : pc[l] = "idle" /\ job[l].msg = None /\ job[l].msgs = <<>>
      /\ \A c \in Conns : request[c] = NoRequest /\ pending[c] = <<>> /\ toClient[c] = <<>>
      /\ \A s \in Servers : push[s] = <<>> /\ observer[s] = NoLetter
      /\ \A u \in Users : offlineMessage[u] = <<>>
  BY <1>0 DEF Init, TerminalsInit, RedisInit, TablesInit, NoJob, JobFor
<1>3. TrailInv
  BY <1>2 DEF TrailInv, SentOnce, RequestFits, JobFits, NoRequest, OneChatPcs, GroupChatPcs
<1>4. CalmIsSettled
  BY <1>2 DEF CalmIsSettled, Deliveries
<1>5. ASSUME NEW m \in Msgs, NEW u \in Users PROVE InPlace(m, u) /\ OnTheWay(m, u) /\ ReadAll(m, u)
  <2>1. \A c \in Conns : AtRequest(c, m) = {} /\ AtPending(c, m, u) = {} /\ AtSocket(c, m, u) = {}
    BY <1>2, NoneAssumption DEF AtRequest, AtPending, AtSocket, Places, NoRequest
  <2>2. \A l \in Loops : AtJob(l, m, u) = {} /\ AtAnswer(l, m, u) = {}
    BY <1>2, NoneAssumption DEF AtJob, AtAnswer, HandledFor
  <2>3. \A s \in Servers : AtPush(s, m, u) = {} /\ AtObserver(s, m, u) = {}
    <3>1. NoLetter # [channel |-> u, msg |-> m]
      BY NoneAssumption DEF NoLetter
    <3>2. \A s \in Servers : AtObserver(s, m, u) = {}
      BY <1>2, <3>1 DEF AtObserver
    <3>3. \A s \in Servers : AtPush(s, m, u) = {}
      <4>. TAKE s \in Servers
      <4>1. push[s] = <<>>
        BY <1>2
      <4>. PICK q : q = push[s]
        OBVIOUS
      <4>2. DOMAIN q = {}
        BY <4>1
      <4>. QED BY <4>2 DEF AtPush
    <3>. QED BY <3>2, <3>3
  <2>4. AtTable(m, u) = {}
    BY <1>2 DEF AtTable
  <2>. PICK f : f = Content(m, u)
    OBVIOUS
  <2>5. DOMAIN f = Cells(u)
    BY ContentIs DEF ContentFits
  <2>7. ASSUME NEW n \in Cells(u) PROVE f[n] = {}
    <3>1. f[n] = Content(m, u)[n] /\ n \in Cells(u)
      OBVIOUS
    <3>2. n[1] = "request" \/ n[1] = "pending" \/ n[1] = "client" => n[2] \in Conns
      BY CellsAre
    <3>3. n[1] = "job" \/ n[1] = "answer" => n[2] \in Loops
      BY CellsAre
    <3>4. n[1] = "push" \/ n[1] = "observer" => n[2] \in Servers
      BY CellsAre
    <3>5. n[1] \in {"request", "pending", "client", "job", "answer", "push", "observer", "table"}
      BY CellsAre
    <3>. QED BY <2>1, <2>2, <2>3, <2>4, <3>1, <3>2, <3>3, <3>4, <3>5 DEF Content
  <2>6. Nowhere(f) /\ ~WasSent(m)
    BY <1>2, <2>5, <2>7 DEF Nowhere, WasSent
  <2>. QED BY <1>2, <2>1, <2>3, <2>6 DEF InPlace, OnTheWay, ReadAll
<1>. QED BY <1>1, <1>3, <1>4, <1>5 DEF DeliveryInv, FollowedInv

LEMMA DeliveryAlways ==
  ASSUME Patient, ~DBFaults, StopKinds = {}
  PROVE  DeliverySpec => [](BaseInv /\ DeliveryInv)
<1>1. BaseInv /\ DeliveryInv /\ [DeliveryNext]_<<vars, disturbed>> => (BaseInv /\ DeliveryInv)'
  BY DeliveryStep
<1>. QED BY <1>1, DeliveryBegins, PTL DEF DeliverySpec

\* A calm message is one that was sent and is followed.
LEMMA CalmIs ==
  ASSUME BaseInv, NEW d \in Calm
  PROVE  d = <<d[1], d[2]>> /\ d[1] \in Msgs /\ d[2] \in Users /\ WasSent(d[1]) /\ Followed(d[1], d[2])
<1>1. d \in Deliveries \ disturbed
  BY DEF Calm
<1>2. PICK i \in DOMAIN sent : \E u \in Recipients(i) : d = <<sent[i].msg, u>>
  BY <1>1 DEF Deliveries
<1>. PICK m, u : m = sent[i].msg /\ u = d[2]
  OBVIOUS
<1>3. u \in Recipients(i) /\ d = <<m, u>>
  BY <1>2
<1>4. m \in Msgs /\ u \in Users
  <2>1. sent \in Seq(Posts)
    BY Untyped DEF TypeInv, TypeOK, TerminalsTypeOK
  <2>2. sent[i] \in Posts
    BY <2>1
  <2>3. sent[i].msg \in Msgs
    BY <2>2 DEF Posts
  <2>4. CASE m \in Chats
    BY <1>3, <2>3, <2>4, PlacementAssumption DEF Recipients
  <2>5. CASE m \notin Chats
    BY <1>3, <2>3, <2>5, PlacementAssumption DEF Recipients
  <2>. QED BY <2>4, <2>5
<1>5. WasSent(m) /\ Followed(m, u)
  BY <1>1, <1>3 DEF WasSent, Followed
<1>. QED BY <1>3, <1>4, <1>5

LEMMA CalmCopy == BaseInv /\ DeliveryInv => CalmExactlyOnce
<1>. SUFFICES ASSUME BaseInv, DeliveryInv, NEW d \in Calm
              PROVE  Cardinality(InFlight(d[1], d[2]) \cup Landed(d[1], d[2])) = 1
  BY DEF CalmExactlyOnce
<1>. PICK m, u : m = d[1] /\ u = d[2]
  OBVIOUS
<1>1. m \in Msgs /\ u \in Users /\ WasSent(m) /\ Followed(m, u)
  BY CalmIs
<1>2. Single(Content(m, u))
  BY <1>1 DEF DeliveryInv, FollowedInv, InPlace
<1>. QED BY <1>2, SingleCopy

(***************************************************************************)
(* A message whose addressee's session stood still while it was in flight  *)
(* has exactly one copy, from the sender's socket to the addressee's, or   *)
(* to the table and out of it again at the next login: over any number of  *)
(* servers, threads, connections and messages.                             *)
(***************************************************************************)
THEOREM CalmCopyIsOne ==
  ASSUME Patient, ~DBFaults, StopKinds = {}
  PROVE  DeliverySpec => []CalmExactlyOnce
<1>. QED BY DeliveryAlways, CalmCopy, PTL

-----------------------------------------------------------------------------
(***************************************************************************)
(* The table gets only what its addressee cannot be sent.                  *)
(***************************************************************************)
\* Every step but three leaves the table alone or empties rows of it.
LEMMA TableGrows ==
  ASSUME BaseInv, StopKinds = {}, [Next]_vars, NEW m \in Msgs, NEW u \in Users,
         AtTable(m, u) = {}, AtTable(m, u)' # {}
  PROVE  \/ \E l \in Loops : pc[l] \in Storing /\ job[l].msg = m /\ job[l].user = u
         \/ \E s \in Servers : observer[s] = [channel |-> u, msg |-> m]
<1>0. /\ TypeInv /\ offlineMessage \in [Users -> Seq(Msgs)]
      /\ \A l \in Loops : JobOK(l, pc[l], job[l])
      /\ observer \in [Servers -> Letters \cup {NoLetter}]
  BY Untyped DEF TypeInv, TypeOK, TablesTypeOK, SessionsTypeOK, ThreadsTypeOK, JobsOK
<1>1. ~UNCHANGED offlineMessage
  BY DEF AtTable
<1>2. ASSUME NEW v \in Users, NEW k \in Msgs, OfflineInsert(v, k) PROVE k = m /\ v = u
  BY <1>0, <1>2, OtherStored
<1>3. ASSUME NEW v \in Users, OfflineRemove(v) PROVE FALSE
  <2>1. offlineMessage'[u] = offlineMessage[u] \/ offlineMessage'[u] = <<>>
    BY <1>0, <1>3 DEF OfflineRemove
  <2>. PICK q : q = offlineMessage'[u]
    OBVIOUS
  <2>2. AtTable(m, u)' = {i \in DOMAIN q : q[i] = m}
    BY DEF AtTable
  <2>3. q = <<>> => DOMAIN q = {}
    OBVIOUS
  <2>. QED BY <2>1, <2>2, <2>3 DEF AtTable
<1>4. ASSUME NEW l \in Loops, Dispatch(l) \/ Handle(l)
      PROVE  pc[l] \in Storing /\ job[l].msg = m /\ job[l].user = u
  <2>1. CASE OneChatStore(l)
    <3>1. job[l].user \in Users /\ job[l].msg \in Msgs /\ pc[l] \in Storing
      BY <1>0, <2>1 DEF OneChatStore, JobOK, OneChatPcs, Storing
    <3>. QED BY <1>2, <2>1, <3>1 DEF OneChatStore
  <2>2. CASE GroupChatStore(l)
    <3>1. job[l].user \in Users /\ job[l].msg \in Msgs /\ pc[l] \in Storing
      BY <1>0, <2>2 DEF GroupChatStore, JobOK, GroupChatPcs, Storing
    <3>. QED BY <1>2, <2>2, <3>1 DEF GroupChatStore
  <2>3. CASE LoginRemoveOffline(l)
    <3>1. job[l].user \in Users
      BY <1>0, <2>3 DEF LoginRemoveOffline, JobOK, LoginPcs
    <3>. QED BY <1>3, <2>3, <3>1 DEF LoginRemoveOffline
  <2>4. CASE LoginStep(l) /\ ~LoginRemoveOffline(l)
    BY <1>1, <2>4
       DEF LoginStep, LoginRefuse, LoginAccept, LoginInsert, LoginSubscribe, LoginOnline, LoginReadOffline, LoginAck,
           tableVars, UserUpdateState
  <2>5. CASE CloseStep(l)
    BY <1>1, <2>5
       DEF CloseStep, CloseFind, CloseNothing, CloseUnsubscribe, CloseOffline, CloseErase, tableVars, UserUpdateState
  <2>6. CASE OneChatStep(l) /\ ~OneChatStore(l)
    BY <1>1, <2>6 DEF OneChatStep, OneChatFind, OneChatQuery, OneChatPublish, tableVars
  <2>7. CASE GroupChatStep(l) /\ ~GroupChatStore(l)
    BY <1>1, <2>7
       DEF GroupChatStep, GroupChatQuery, GroupChatLock, GroupChatSend, GroupChatAbsent, GroupChatPublish, GroupChatEnd,
           tableVars
  <2>8. CASE Dispatch(l)
    BY <1>1, <2>8 DEF Dispatch, OnMessage, OnClose, RunPendingFunctors, tableVars
  <2>. QED BY <1>4, <2>1, <2>2, <2>3, <2>4, <2>5, <2>6, <2>7, <2>8 DEF Handle
<1>5. ASSUME NEW s \in Servers, Observe(s) \/ Redis(s) \/ Start(s)
      PROVE  observer[s] = [channel |-> u, msg |-> m]
  <2>1. ObserverStore(s)
    BY <1>1, <1>5 DEF Observe, ObserverForward, Redis, Start, ServersIdle, tableVars
  <2>. PICK e \in Letters : e = observer[s]
    BY <1>0, <2>1 DEF ObserverStore
  <2>. PICK v \in Users, k \in Msgs : v = e.channel /\ k = e.msg
    BY DEF Letters
  <2>2. k = m /\ v = u
    BY <1>2, <2>1 DEF ObserverStore
  <2>3. e = [channel |-> v, msg |-> k]
    BY DEF Letters
  <2>. QED BY <2>2, <2>3
<1>6. ASSUME NEW c \in Conns, Accept(c) \/ Terminal(c) \/ \E v \in Users : Login(c, v) PROVE FALSE
  BY <1>1, <1>6, TerminalsSend DEF tableVars
<1>7. \A s \in Servers : ~Sigint(s) /\ ~Reset(s) /\ ~Crash(s)
  BY Untyped, SignalFree DEF Crash
<1>8. ~UNCHANGED vars
  BY <1>1 DEF vars, tableVars
<1>. QED BY <1>4, <1>5, <1>6, <1>7, <1>8 DEF Next

\* Between sessions and logins, an entry and User.state say the same.
LEMMA OfflineIsAbsent ==
  ASSUME BaseInv, NEW u \in Users, ~Unsettled(u), userState[u] = "offline"
  PROVE  \A s \in Servers : ~Live(s, u)
<1>1. LiveIsOnline
  BY Untyped DEF Alone
<1>2. \A l \in Loops : ~Entering(l, u)
  BY DEF Entering, Unsettled
<1>. QED BY <1>1, <1>2 DEF LiveIsOnline

LEMMA StoredStep ==
  ASSUME BaseInv, DeliveryInv, StopKinds = {}, [Next]_vars,
         NEW d \in Calm, InTable(d[1], d[2]) = {}, InTable(d[1], d[2])' # {}
  PROVE  userState[d[2]] = "offline" /\ \A s \in Servers : ~Live(s, d[2])
<1>. PICK m, u : m = d[1] /\ u = d[2]
  OBVIOUS
<1>1. m \in Msgs /\ u \in Users /\ Followed(m, u)
  BY CalmIs
<1>2. Tracked(m, u) /\ OnTheWay(m, u)
  BY <1>1, TrackedIs DEF Tracked
<1>3. AtTable(m, u) = {}
  BY DEF InTable, AtTable
<1>4. AtTable(m, u)' # {}
  BY DEF InTable, AtTable
<1>5. PICK l \in Loops : pc[l] \in Storing /\ job[l].msg = m /\ job[l].user = u
  BY <1>1, <1>2, <1>3, <1>4, TableGrows DEF OnTheWay, AtObserver
<1>6. InFlight(m, u) # {} /\ userState[u] = "offline"
  BY <1>2, <1>5, Decided
<1>7. ~Unsettled(u)
  BY <1>2, <1>6 DEF Tracked
<1>. QED BY <1>1, <1>6, <1>7, OfflineIsAbsent

(***************************************************************************)
(* oneChat, groupChat and the observer store a message only for an account *)
(* that has no session on any server (lines 216-224, 325-333): the query   *)
(* of User.state was right, though the handler let go of the mutex and     *)
(* asked another process before it wrote.                                  *)
(***************************************************************************)
THEOREM StoredOnlyForTheAbsent ==
  ASSUME Patient, ~DBFaults, StopKinds = {}
  PROVE  DeliverySpec => StoredForTheAbsent
<1>1. BaseInv /\ DeliveryInv /\ [DeliveryNext]_<<vars, disturbed>>
        => [\A d \in Calm :
              InTable(d[1], d[2]) = {} /\ InTable(d[1], d[2])' # {} /\ d \notin disturbed'
                => userState[d[2]] = "offline" /\ \A s \in Servers : ~Live(s, d[2])]_<<vars, disturbed>>
  <2>. SUFFICES ASSUME BaseInv, DeliveryInv, [DeliveryNext]_<<vars, disturbed>>,
                       NEW d \in Calm, InTable(d[1], d[2]) = {}, InTable(d[1], d[2])' # {}
                PROVE  userState[d[2]] = "offline" /\ \A s \in Servers : ~Live(s, d[2])
    OBVIOUS
  <2>1. [Next]_vars
    BY DEF DeliveryNext
  <2>. QED BY <2>1, StoredStep
<1>. QED BY <1>1, DeliveryAlways, PTL DEF DeliverySpec, StoredForTheAbsent
=============================================================================
