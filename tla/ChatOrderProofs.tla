--------------------------- MODULE ChatOrderProofs ---------------------------
(***************************************************************************)
(* Messages from one connection to one account stay in order.  On its way  *)
(* a message goes from stage to stage, and never back.  What was sent      *)
(* earlier is never at an earlier stage than what was sent later           *)
(* (NotOvertaken), and if both are in one queue, it is in front (InFront). *)
(*                                                                         *)
(* A handler, Redis and a loop's queue are different ways to the same      *)
(* socket, so a message might overtake another one that takes a longer     *)
(* way.  It does not, because the way depends on where the session of the  *)
(* addressee is, which stands still while a calm message is in flight:     *)
(* all that is under way goes the same way (Apart).                        *)
(***************************************************************************)
EXTENDS ChatDeliveryProofs

\* How far m is on its way to u.
Stage(q, m, u) ==
  \/ q = 0 /\ \E c \in Conns : AtRequest(c, m) # {}
  \/ q = 1 /\ \E l \in Loops : AtJob(l, m, u) # {}
  \/ q = 2 /\ \E s \in Servers : AtPush(s, m, u) # {}
  \/ q = 3 /\ \E c \in Conns : AtPending(c, m, u) # {}
  \/ q = 4 /\ AtTable(m, u) # {}
  \/ q = 5 /\ \E l \in Loops : AtAnswer(l, m, u) # {}
  \/ q = 6 /\ \E c \in Conns : AtSocket(c, m, u) # {}

\* The handler has not found the addressee on its own server.
ElsewherePcs == {"oneChatQuery", "oneChatPublish", "oneChatStore", "groupPublish", "groupStore"}
Elsewhere(l, m, u) == pc[l] \in ElsewherePcs /\ job[l].msg = m /\ job[l].user = u

\* A login of u is about to take what is in the table.
Collecting(l, u) == pc[l] \in {"loginReadOffline", "loginRemoveOffline"} /\ job[l].user = u

\* The ways do not mix: over Redis, or through the queue of another loop, goes
\* only what cannot go directly; what is in the table waits for a login.
Apart(m, u) ==
  /\ \A l \in Loops : Elsewhere(l, m, u) => userConnMap[ServerOf[l]][u] = None
  /\ \A c \in Conns : SentFrom(m, c) =>
       /\ \A s \in Servers : AtPush(s, m, u) # {} => s # ConnServer(c)
       /\ \A d \in Conns : AtPending(d, m, u) # {} => LoopOf[d] # LoopOf[c]
  /\ AtTable(m, u) # {} /\ userState[u] = "online" => \E l \in Loops : Collecting(l, u)

SentBefore(m, n) ==
  \E i, j \in DOMAIN sent :
    i < j /\ sent[i].msg = m /\ sent[j].msg = n /\ sent[i].conn = sent[j].conn

NotOvertaken(m, n, u) == \A r, q \in 0 .. 6 : Stage(r, m, u) /\ Stage(q, n, u) => q <= r

\* In a sequence, and in a sequence of frames.
Ahead(q, x, y) == \A i \in Spots(q, x), j \in Spots(q, y) : i < j
FramesAhead(q, m, n, u) == \A p \in Places(q, m, u), o \in Places(q, n, u) : Before(p, o)

Letter(m, u) == [channel |-> u, msg |-> m]

InFront(m, n, u) ==
  /\ \A s \in Servers : Ahead(push[s], Letter(m, u), Letter(n, u))
  /\ \A c \in Conns : FramesAhead(pending[c], m, n, u) /\ FramesAhead(toClient[c], m, n, u)
  /\ Ahead(offlineMessage[u], m, n)
  /\ \A l \in Loops : pc[l] = "loginAck" /\ job[l].user = u => Ahead(job[l].msgs, m, n)

OrderInv ==
  /\ \A m \in Msgs, u \in Users : Followed(m, u) => Apart(m, u)
  /\ \A m, n \in Msgs, u \in Users :
       Followed(m, u) /\ Followed(n, u) /\ SentBefore(m, n) => NotOvertaken(m, n, u) /\ InFront(m, n, u)

-----------------------------------------------------------------------------
(***************************************************************************)
(* Sequences: a queue keeps the order if what is put into it comes after   *)
(* what is in it.                                                          *)
(***************************************************************************)
LEMMA AheadAppended ==
  ASSUME NEW S, NEW q \in Seq(S), NEW e \in S, NEW x, NEW y, x # y, Ahead(q, x, y),
         e = x => Spots(q, y) = {}
  PROVE  Ahead(Append(q, e), x, y)
<1>. PICK n \in Nat, r \in Seq(S) : n = Len(q) /\ r = Append(q, e)
  <2>1. Append(q, e) \in Seq(S) /\ Len(q) \in Nat
    OBVIOUS
  <2>. QED BY <2>1
<1>1. DOMAIN q = 1 .. n /\ DOMAIN r = 1 .. n + 1 /\ r[n + 1] = e /\ \A i \in 1 .. n : r[i] = q[i]
  OBVIOUS
<1>2. \A z : Spots(r, z) \subseteq Spots(q, z) \cup {n + 1} /\ (e # z => n + 1 \notin Spots(r, z))
  BY <1>1 DEF Spots
<1>3. \A z : \A i \in Spots(q, z) : i \in 1 .. n
  BY <1>1 DEF Spots
<1>. SUFFICES ASSUME NEW i \in Spots(r, x), NEW j \in Spots(r, y) PROVE i < j
  BY DEF Ahead
<1>4. CASE i = n + 1
  <2>1. e = x /\ e # y
    BY <1>2, <1>4
  <2>2. j \in Spots(q, y)
    BY <1>2, <2>1
  <2>. QED BY <2>1, <2>2
<1>5. CASE i \in Spots(q, x) /\ j \in Spots(q, y)
  BY <1>5 DEF Ahead
<1>6. CASE i \in Spots(q, x) /\ j = n + 1
  BY <1>3, <1>6
<1>. QED BY <1>2, <1>4, <1>5, <1>6

LEMMA AheadTaken ==
  ASSUME NEW S, NEW q \in Seq(S), q # <<>>, NEW x, NEW y, Ahead(q, x, y)
  PROVE  Ahead(Tail(q), x, y)
<1>. PICK n \in Nat, t \in Seq(S) : n = Len(q) /\ t = Tail(q)
  <2>1. Tail(q) \in Seq(S) /\ Len(q) \in Nat
    OBVIOUS
  <2>. QED BY <2>1
<1>1. DOMAIN q = 1 .. n /\ DOMAIN t = 1 .. n - 1 /\ \A i \in 1 .. n - 1 : t[i] = q[i + 1] /\ i + 1 \in 1 .. n
  OBVIOUS
<1>2. \A z : \A i \in Spots(t, z) : i \in Nat /\ i + 1 \in Spots(q, z)
  BY <1>1 DEF Spots
<1>. SUFFICES ASSUME NEW i \in Spots(t, x), NEW j \in Spots(t, y) PROVE i < j
  BY DEF Ahead
<1>3. i + 1 < j + 1
  BY <1>2 DEF Ahead
<1>. QED BY <1>2, <1>3

LEMMA AheadEmpty ==
  ASSUME NEW m, NEW n, NEW u
  PROVE  Spots(<<>>, m) = {} /\ Ahead(<<>>, m, n) /\ FramesAhead(<<>>, m, n, u)
<1>. PICK q : q = <<>>
  OBVIOUS
<1>1. DOMAIN q = {}
  OBVIOUS
<1>2. Spots(q, m) = {} /\ Places(q, m, u) = {}
  BY <1>1 DEF Spots, Places
<1>. QED BY <1>2 DEF Ahead, FramesAhead

\* A frame with one message has no two in it.
LEMMA AheadAlone == ASSUME NEW k, NEW m, NEW n, m # n PROVE Ahead(<<k>>, m, n)
<1>. PICK q : q = <<k>>
  OBVIOUS
<1>1. \A i \in DOMAIN q : q[i] = k
  OBVIOUS
<1>. QED BY <1>1 DEF Ahead, Spots

LEMMA PlacesWithin ==
  ASSUME NEW q \in Seq(Frames), NEW m, NEW u, NEW p \in Places(q, m, u)
  PROVE  p[1] \in 1 .. Len(q) /\ p[2] \in Nat
<1>1. PICK i \in DOMAIN q : q[i].user = u /\ \E k \in DOMAIN q[i].msgs : p = <<i, k>>
  BY PlacesAre
<1>2. q[i] \in Frames
  OBVIOUS
<1>3. q[i].msgs \in Seq(Msgs)
  BY <1>2 DEF Frames
<1>. PICK t \in Seq(Msgs) : t = q[i].msgs
  BY <1>3
<1>4. DOMAIN t \subseteq Nat /\ DOMAIN q = 1 .. Len(q)
  OBVIOUS
<1>. QED BY <1>1, <1>4

LEMMA FramesAppended ==
  ASSUME NEW q \in Seq(Frames), NEW f \in Frames, NEW m, NEW n, NEW u, FramesAhead(q, m, n, u),
         f.user = u => Ahead(f.msgs, m, n),
         f.user = u /\ Spots(f.msgs, m) # {} => Places(q, n, u) = {}
  PROVE  FramesAhead(Append(q, f), m, n, u)
<1>. PICK h \in Nat : h = Len(q)
  OBVIOUS
<1>. PICK r : r = Append(q, f)
  OBVIOUS
<1>1. \A k, p : p \in Places(r, k, u) <=>
        p \in Places(q, k, u) \/ (f.user = u /\ \E i \in Spots(f.msgs, k) : p = <<h + 1, i>>)
  BY AppendedPlaces
<1>2. \A k : \A p \in Places(q, k, u) : p[1] \in 1 .. h
  BY PlacesWithin
<1>. SUFFICES ASSUME NEW p \in Places(r, m, u), NEW o \in Places(r, n, u) PROVE Before(p, o)
  BY DEF FramesAhead
<1>3. CASE p \in Places(q, m, u) /\ o \in Places(q, n, u)
  BY <1>3 DEF FramesAhead
<1>4. CASE p \in Places(q, m, u) /\ o \notin Places(q, n, u)
  <2>1. p[1] \in 1 .. h /\ o[1] = h + 1
    BY <1>1, <1>2, <1>4
  <2>. QED BY <2>1 DEF Before
<1>5. CASE p \notin Places(q, m, u)
  <2>1. f.user = u /\ \E i \in Spots(f.msgs, m) : p = <<h + 1, i>>
    BY <1>1, <1>5
  <2>2. \E j \in Spots(f.msgs, n) : o = <<h + 1, j>>
    BY <1>1, <2>1
  <2>. QED BY <2>1, <2>2 DEF Ahead, Before
<1>. QED BY <1>3, <1>4, <1>5

LEMMA FramesJoinedAhead ==
  ASSUME NEW q \in Seq(Frames), NEW t \in Seq(Frames), NEW m, NEW n, NEW u,
         FramesAhead(q, m, n, u), FramesAhead(t, m, n, u),
         Places(t, m, u) # {} => Places(q, n, u) = {}
  PROVE  FramesAhead(q \o t, m, n, u)
<1>. PICK h \in Nat : h = Len(q)
  OBVIOUS
<1>. PICK r : r = q \o t
  OBVIOUS
<1>1. \A k, p : p \in Places(r, k, u) <=>
        p \in Places(q, k, u) \/ \E o \in Places(t, k, u) : p = <<h + o[1], o[2]>>
  BY JoinedPlaces
<1>2. \A k : \A p \in Places(q, k, u) : p[1] \in 1 .. h
  BY PlacesWithin
<1>3. \A k : \A p \in Places(t, k, u) : p[1] \in Nat \ {0} /\ p[2] \in Nat
  BY PlacesWithin
<1>. SUFFICES ASSUME NEW p \in Places(r, m, u), NEW o \in Places(r, n, u) PROVE Before(p, o)
  BY DEF FramesAhead
<1>4. CASE p \in Places(q, m, u) /\ o \in Places(q, n, u)
  BY <1>4 DEF FramesAhead
<1>5. CASE p \in Places(q, m, u) /\ o \notin Places(q, n, u)
  <2>1. PICK b \in Places(t, n, u) : o = <<h + b[1], b[2]>>
    BY <1>1, <1>5
  <2>2. p[1] \in 1 .. h /\ b[1] \in Nat \ {0} /\ o[1] = h + b[1]
    BY <1>2, <1>3, <1>5, <2>1
  <2>. QED BY <2>2 DEF Before
<1>6. CASE p \notin Places(q, m, u)
  <2>1. PICK a \in Places(t, m, u) : p = <<h + a[1], a[2]>>
    BY <1>1, <1>6
  <2>2. PICK b \in Places(t, n, u) : o = <<h + b[1], b[2]>>
    BY <1>1, <2>1
  <2>3. Before(a, b) /\ a[1] \in Nat /\ b[1] \in Nat
    BY <1>3 DEF FramesAhead
  <2>. QED BY <2>1, <2>2, <2>3 DEF Before
<1>. QED BY <1>4, <1>5, <1>6
-----------------------------------------------------------------------------
(***************************************************************************)
(* Where two messages from one connection cannot be.                       *)
(***************************************************************************)
\* An account that stands still has one entry, and is online.
LEMMA OneEntry ==
  ASSUME BaseInv, NEW u \in Users, ~Unsettled(u), NEW s \in Servers, userConnMap[s][u] # None
  PROVE  userState[u] = "online" /\ \A t \in Servers : userConnMap[t][u] # None => t = s
<1>1. LiveIsOnline /\ AtMostOneSession /\ NoSignal
  BY Untyped DEF Alone
<1>2. ASSUME NEW t \in Servers, userConnMap[t][u] # None PROVE Live(t, u)
  <2>1. ~InReset(t)
    BY <1>1 DEF NoSignal, InReset
  <2>2. ~Ending(t, u)
    BY <2>1 DEF Ending, Unsettled
  <2>. QED BY <1>2, <2>2 DEF Live
<1>3. \A l \in Loops : ~Entering(l, u)
  BY DEF Entering, Unsettled
<1>. QED BY <1>1, <1>2, <1>3 DEF LiveIsOnline, AtMostOneSession

\* A login that has read the table is in the thread of the account's entry.
LEMMA LoginLoop ==
  ASSUME BaseInv, TrailInv, NEW u \in Users, ~Unsettled(u), NEW c \in Conns, NEW s \in Servers,
         userConnMap[s][u] = c, NEW l \in Loops, job[l].user = u,
         pc[l] \in {"loginReadOffline", "loginRemoveOffline", "loginAck"}
  PROVE  l = LoopOf[c]
<1>1. JobFits(l) /\ JobOK(l, pc[l], job[l])
  BY Untyped DEF TrailInv, TypeInv, JobsOK
<1>2. userConnMap[ServerOf[l]][u] = job[l].conn /\ job[l].conn \in Conns /\ LoopOf[job[l].conn] = l
  BY <1>1 DEF JobFits, JobOK
<1>3. ServerOf[l] \in Servers /\ None \notin Conns
  BY PlacementAssumption, NoneAssumption
<1>4. ServerOf[l] = s
  BY <1>2, <1>3, OneEntry
<1>. QED BY <1>2, <1>4

\* Two messages, one after the other, come from one connection.
LEMMA OneSource ==
  ASSUME BaseInv, TrailInv, NEW m, NEW n, SentBefore(m, n)
  PROVE  /\ m # n /\ WasSent(m) /\ WasSent(n)
         /\ \A c : SentFrom(m, c) <=> SentFrom(n, c)
         /\ \A c, d : SentFrom(m, c) /\ SentFrom(n, d) => c = d
<1>1. PICK i, j \in DOMAIN sent : i < j /\ sent[i].msg = m /\ sent[j].msg = n /\ sent[i].conn = sent[j].conn
  BY DEF SentBefore
<1>2. i # j
  <2>1. CASE i = j
    <3>1. i < i
      BY <1>1, <2>1
    <3>2. sent \in Seq(Posts)
      BY Untyped DEF TypeInv, TypeOK, TerminalsTypeOK
    <3>3. DOMAIN sent \subseteq Nat
      BY <3>2
    <3>. QED BY <3>1, <3>3
  <2>. QED BY <2>1
<1>. QED BY <1>1, <1>2 DEF TrailInv, SentOnce, SentFrom, WasSent

LEMMA JobSource ==
  ASSUME BaseInv, TrailInv, NEW m \in Msgs, NEW u, NEW l \in Loops, HandledFor(l, m, u)
  PROVE  job[l].conn \in Conns /\ LoopOf[job[l].conn] = l /\ SentFrom(m, job[l].conn)
<1>1. JobFits(l) /\ JobOK(l, pc[l], job[l])
  BY Untyped DEF TrailInv, TypeInv, JobsOK
<1>2. pc[l] \in OneChatPcs \cup GroupChatPcs /\ job[l].msg = m
  BY DEF HandledFor, GroupChatPcs
<1>3. pc[l] # "idle"
  BY <1>2 DEF OneChatPcs, GroupChatPcs
<1>. QED BY <1>1, <1>2, <1>3 DEF JobFits, JobOK

LEMMA NotBothHandled ==
  ASSUME BaseInv, TrailInv, NEW m \in Msgs, NEW n \in Msgs, NEW u, SentBefore(m, n),
         NEW l \in Loops, NEW k \in Loops, HandledFor(l, m, u), HandledFor(k, n, u)
  PROVE  FALSE
<1>1. /\ job[l].conn \in Conns /\ LoopOf[job[l].conn] = l /\ SentFrom(m, job[l].conn)
      /\ job[k].conn \in Conns /\ LoopOf[job[k].conn] = k /\ SentFrom(n, job[k].conn)
  BY JobSource
<1>2. m # n /\ job[l].conn = job[k].conn
  BY <1>1, OneSource
<1>3. l = k
  BY <1>1, <1>2
<1>. QED BY <1>2, <1>3 DEF HandledFor

LEMMA NotBothRequested ==
  ASSUME BaseInv, TrailInv, NEW m \in Msgs, NEW n \in Msgs, SentBefore(m, n),
         NEW c \in Conns, NEW d \in Conns, AtRequest(c, m) # {}, AtRequest(d, n) # {}
  PROVE  FALSE
<1>1. request[c].msg = m /\ request[d].msg = n
  BY DEF AtRequest
<1>2. m # None /\ n # None
  BY NoneAssumption
<1>3. SentFrom(m, c) /\ SentFrom(n, d)
  BY <1>1, <1>2 DEF TrailInv, RequestFits
<1>. QED BY <1>1, <1>3, OneSource
-----------------------------------------------------------------------------
(***************************************************************************)
(* What a step of the system does with the messages.                       *)
(***************************************************************************)
CarriersRest == UNCHANGED <<push, offlineMessage, pending, toClient>>

\* No handler gets a message that is not there yet, and no answer does.
JobsKept == \A l \in Loops, m \in Msgs, u \in Users : HandledFor(l, m, u)' => HandledFor(l, m, u)
AnswersKept ==
  \A l \in Loops : pc'[l] = "loginAck" => (pc[l] = "loginAck" /\ job'[l] = job[l]) \/ job'[l].msgs = <<>>

\* A handler sends k to the entry of v.
Hands(l, k, v, d) ==
  /\ pc[l] \in {"oneChat", "groupNext"} /\ HandledFor(l, k, v)
  /\ userConnMap[ServerOf[l]][v] = d
  /\ SendFrame(l, d, MsgFrame(v, k))
  /\ UNCHANGED <<push, offlineMessage>>

Announces(l, k, v) ==
  /\ pc[l] \in Publishing /\ job[l].msg = k /\ job[l].user = v
  /\ Publish(v, k)
  /\ UNCHANGED <<offlineMessage, pending, toClient>>

Stores(k, v) ==
  /\ \/ \E l \in Loops : pc[l] \in Storing /\ job[l].msg = k /\ job[l].user = v
     \/ \E s \in Servers : observer[s] = Letter(k, v)
  /\ OfflineInsert(v, k)
  /\ UNCHANGED <<push, pending, toClient>>

\* A step of a handler that carries messages.
Carries(l) ==
  \/ \E k \in Msgs, v \in Users, d \in Conns : Hands(l, k, v, d)
  \/ \E k \in Msgs, v \in Users : Announces(l, k, v)
  \/ \E k \in Msgs, v \in Users : Stores(k, v)
  \/ LoginRefuse(l) \/ LoginAck(l) \/ RunPendingFunctors(l)

LEMMA MoveKept ==
  ASSUME BaseInv, NEW l \in Loops, NEW next, NEW j, GotoWith(l, next, j),
         \A m \in Msgs, u \in Users : HandledFor(l, m, u)' => HandledFor(l, m, u)
  PROVE  /\ JobsKept
         /\ next # "loginAck" \/ j.msgs = <<>> => AnswersKept
<1>1. /\ pc'[l] = next /\ job'[l] = j
      /\ \A k \in Loops : k # l => pc'[k] = pc[k] /\ job'[k] = job[k]
  BY Moving, Untyped
<1>2. ASSUME NEW k \in Loops, k # l, NEW m, NEW u PROVE HandledFor(k, m, u)' <=> HandledFor(k, m, u)
  <2>1. pc'[k] = pc[k] /\ job'[k] = job[k]
    BY <1>1, <1>2
  <2>. QED BY <2>1 DEF HandledFor
<1>3. JobsKept
  BY <1>2 DEF JobsKept
<1>4. next # "loginAck" \/ j.msgs = <<>> => AnswersKept
  BY <1>1 DEF AnswersKept
<1>. QED BY <1>3, <1>4

LEMMA PlainKept ==
  ASSUME BaseInv, NEW l \in Loops, NEW next, NEW j, GotoWith(l, next, j), next \notin OneChatPcs \cup GroupChatPcs
  PROVE  /\ JobsKept
         /\ next # "loginAck" \/ j.msgs = <<>> => AnswersKept
<1>1. pc'[l] = next
  BY Moving, Untyped
<1>2. \A m \in Msgs, u \in Users : ~HandledFor(l, m, u)'
  BY <1>1, NotHandled
<1>. QED BY <1>2, MoveKept

LEMMA LoginCarries ==
  ASSUME BaseInv, ~DBFaults, NEW l \in Loops, LoginStep(l)
  PROVE  /\ JobsKept
         /\ \/ LoginRemoveOffline(l)
            \/ AnswersKept /\ (CarriersRest \/ Carries(l))
<1>. MutexInv
  BY Untyped
<1>0. {"idle", "loginInsert", "loginSubscribe", "loginOnline", "loginReadOffline", "loginRemoveOffline", "loginAck"}
        \cap (OneChatPcs \cup GroupChatPcs) = {}
  BY DEF OneChatPcs, GroupChatPcs
<1>1. CASE LoginRefuse(l) \/ LoginAck(l)
  <2>1. GotoWith(l, "idle", NoJob)
    BY <1>1 DEF LoginRefuse, LoginAck, Finish
  <2>. QED BY <1>0, <1>1, <2>1, PlainKept DEF Carries
<1>2. CASE LoginAccept(l) \/ LoginInsert(l) \/ LoginSubscribe(l) \/ LoginOnline(l)
  <2>1. \E next \in {"loginInsert", "loginSubscribe", "loginOnline", "loginReadOffline"} : Goto(l, next)
    BY <1>2 DEF LoginAccept, LoginInsert, LoginSubscribe, LoginOnline
  <2>2. CarriersRest
    BY <1>2 DEF LoginAccept, LoginInsert, LoginSubscribe, LoginOnline, CarriersRest, redisVars, netVars, tableVars,
       UserUpdateState, Subscribe, WriteCommand
  <2>. QED BY <1>0, <2>1, <2>2, GotoIsGotoWith, PlainKept
<1>3. CASE LoginReadOffline(l)
  <2>1. PICK rows : GotoWith(l, IF rows # <<>> THEN "loginRemoveOffline" ELSE "loginAck", [job[l] EXCEPT !.msgs = rows])
    BY <1>3 DEF LoginReadOffline
  <2>. PICK next, j : next = (IF rows # <<>> THEN "loginRemoveOffline" ELSE "loginAck") /\ j = [job[l] EXCEPT !.msgs = rows]
    OBVIOUS
  <2>2. job[l] \in Jobs
    BY Untyped DEF TypeInv, TypeOK, ThreadsTypeOK
  <2>3. j.msgs = rows
    BY <2>2 DEF Jobs
  <2>4. next = "loginRemoveOffline" \/ (next = "loginAck" /\ j.msgs = <<>>)
    BY <2>3
  <2>5. JobsKept /\ AnswersKept
    BY <1>0, <2>1, <2>4, PlainKept
  <2>6. CarriersRest
    BY <1>3 DEF LoginReadOffline, CarriersRest, redisVars, netVars, tableVars
  <2>. QED BY <2>5, <2>6
<1>4. CASE LoginRemoveOffline(l)
  <2>1. Goto(l, "loginAck")
    BY <1>4 DEF LoginRemoveOffline
  <2>. QED BY <1>0, <1>4, <2>1, GotoIsGotoWith, PlainKept
<1>. QED BY <1>1, <1>2, <1>3, <1>4 DEF LoginStep

LEMMA CloseCarries ==
  ASSUME BaseInv, NEW l \in Loops, CloseStep(l) \/ \E c \in Conns : OnClose(l, c)
  PROVE  JobsKept /\ AnswersKept /\ CarriersRest
<1>. MutexInv
  BY Untyped
<1>0. {"idle", "close", "closeUnsubscribe", "closeOffline", "closeErase"} \cap (OneChatPcs \cup GroupChatPcs) = {}
  BY DEF OneChatPcs, GroupChatPcs
<1>1. \E next \in {"idle", "close", "closeUnsubscribe", "closeOffline", "closeErase"} :
        Goto(l, next) \/ \E j : GotoWith(l, next, j)
  BY DEF CloseStep, CloseFind, CloseNothing, CloseUnsubscribe, CloseOffline, CloseErase, OnClose, Finish
<1>2. \E next \in {"idle", "close", "closeUnsubscribe", "closeOffline", "closeErase"} : \E j : GotoWith(l, next, j)
  BY <1>1, GotoIsGotoWith
<1>3. CarriersRest
  BY DEF CloseStep, CloseFind, CloseNothing, CloseUnsubscribe, CloseOffline, CloseErase, OnClose, CarriersRest,
     redisVars, netVars, tableVars, UserUpdateState, Unsubscribe, WriteCommand
<1>. QED BY <1>0, <1>2, <1>3, PlainKept

LEMMA OneChatCarries ==
  ASSUME BaseInv, NEW l \in Loops, OneChatStep(l)
  PROVE  JobsKept /\ AnswersKept /\ (CarriersRest \/ Carries(l))
<1>0. /\ MutexInv /\ JobOK(l, pc[l], job[l]) /\ ServerOf[l] \in Servers
      /\ userConnMap \in [Servers -> [Users -> Conns \cup {None}]]
  BY Untyped, PlacementAssumption DEF TypeInv, TypeOK, JobsOK, SessionsTypeOK
<1>1. pc[l] \in OneChatPcs
  BY DEF OneChatStep, OneChatFind, OneChatQuery, OneChatPublish, OneChatStore, OneChatPcs
<1>. PICK k \in Msgs, v \in Users : k = job[l].msg /\ v = job[l].user
  BY <1>0, <1>1 DEF JobOK
<1>2. HandledFor(l, k, v)
  BY <1>1 DEF HandledFor
<1>3. ASSUME NEW next \in {"oneChatQuery", "oneChatPublish", "oneChatStore"}, Goto(l, next)
      PROVE  JobsKept /\ AnswersKept
  <2>1. GotoWith(l, next, job[l])
    BY <1>0, <1>3, GotoIsGotoWith
  <2>2. pc'[l] = next /\ job'[l] = job[l]
    BY <1>0, <2>1, Moving
  <2>3. \A m \in Msgs, u \in Users : HandledFor(l, m, u)' => HandledFor(l, m, u)
    BY <1>1, <2>2 DEF HandledFor, OneChatPcs, GroupChatPcs
  <2>. QED BY <2>1, <2>3, MoveKept
<1>4. ASSUME GotoWith(l, "idle", NoJob) PROVE JobsKept /\ AnswersKept
  BY <1>4, PlainKept DEF OneChatPcs, GroupChatPcs
<1>5. CASE OneChatFind(l) /\ userConnMap[ServerOf[l]][v] # None
  <2>1. PICK d \in Conns : d = userConnMap[ServerOf[l]][v]
    BY <1>0, <1>5
  <2>2. Hands(l, k, v, d) /\ GotoWith(l, "idle", NoJob)
    BY <1>2, <1>5, <2>1 DEF OneChatFind, Finish, Hands, redisVars, tableVars
  <2>. QED BY <1>4, <2>2 DEF Carries
<1>6. CASE OneChatFind(l) /\ userConnMap[ServerOf[l]][v] = None
  <2>1. Goto(l, "oneChatQuery") /\ CarriersRest
    BY <1>6 DEF OneChatFind, CarriersRest, redisVars, tableVars, netVars
  <2>. QED BY <1>3, <2>1
<1>7. CASE OneChatQuery(l)
  <2>1. CarriersRest /\ \E next \in {"oneChatPublish", "oneChatStore"} : Goto(l, next)
    BY <1>7 DEF OneChatQuery, CarriersRest, redisVars, tableVars, netVars
  <2>. QED BY <1>3, <2>1
<1>8. CASE OneChatPublish(l)
  <2>1. Announces(l, k, v) /\ GotoWith(l, "idle", NoJob)
    BY <1>8 DEF OneChatPublish, Finish, Announces, Publishing, tableVars, netVars
  <2>. QED BY <1>4, <2>1 DEF Carries
<1>9. CASE OneChatStore(l)
  <2>1. Stores(k, v) /\ GotoWith(l, "idle", NoJob)
    BY <1>9 DEF OneChatStore, Finish, Stores, Storing, redisVars, netVars
  <2>. QED BY <1>4, <2>1 DEF Carries
<1>. QED BY <1>5, <1>6, <1>7, <1>8, <1>9 DEF OneChatStep

LEMMA GroupChatCarries ==
  ASSUME BaseInv, NEW l \in Loops, GroupChatStep(l)
  PROVE  JobsKept /\ AnswersKept /\ (CarriersRest \/ Carries(l))
<1>0. /\ MutexInv /\ JobOK(l, pc[l], job[l]) /\ job[l] \in Jobs /\ ServerOf[l] \in Servers
      /\ userConnMap \in [Servers -> [Users -> Conns \cup {None}]]
  BY Untyped, PlacementAssumption DEF TypeInv, TypeOK, JobsOK, SessionsTypeOK, ThreadsTypeOK
<1>1. pc[l] \in GroupChatPcs
  BY DEF GroupChatStep, GroupChatQuery, GroupChatLock, GroupChatSend, GroupChatAbsent, GroupChatPublish,
     GroupChatStore, GroupChatEnd, GroupChatPcs
<1>. PICK k \in Msgs : k = job[l].msg
  BY <1>0, <1>1 DEF JobOK
<1>2. ASSUME NEW next \in {"groupLock", "groupNext", "groupPublish", "groupStore"}, NEW j, GotoWith(l, next, j),
             j.msg = k, \A u : u \in j.rest => HandledFor(l, k, u),
             next \in {"groupPublish", "groupStore"} => HandledFor(l, k, j.user)
      PROVE  JobsKept /\ AnswersKept
  <2>1. pc'[l] = next /\ job'[l] = j
    BY <1>0, <1>2, Moving
  <2>2. ASSUME NEW m \in Msgs, NEW u \in Users, HandledFor(l, m, u)' PROVE HandledFor(l, m, u)
    <3>1. m = k /\ (u \in j.rest \/ (next \in {"groupPublish", "groupStore"} /\ j.user = u))
      BY <1>2, <2>1, <2>2 DEF HandledFor, OneChatPcs
    <3>. QED BY <1>2, <3>1
  <2>. QED BY <1>2, <2>2, MoveKept
<1>3. ASSUME GotoWith(l, "idle", NoJob) PROVE JobsKept /\ AnswersKept
  BY <1>3, PlainKept DEF OneChatPcs, GroupChatPcs
<1>4. \A u : u \in job[l].rest => HandledFor(l, k, u)
  BY <1>1 DEF HandledFor
<1>5. CASE GroupChatQuery(l)
  <2>1. PICK ids : GotoWith(l, "groupLock", [job[l] EXCEPT !.rest = ids \ {job[l].user}])
    BY <1>5 DEF GroupChatQuery
  <2>. PICK j : j = [job[l] EXCEPT !.rest = ids \ {job[l].user}]
    OBVIOUS
  <2>2. j.msg = k
    BY <1>0 DEF Jobs
  <2>3. \A u : HandledFor(l, k, u)
    BY <1>5 DEF GroupChatQuery, HandledFor
  <2>4. CarriersRest
    BY <1>5 DEF GroupChatQuery, CarriersRest, redisVars, tableVars, netVars
  <2>. QED BY <1>2, <2>1, <2>2, <2>3, <2>4
<1>6. ASSUME NEW next \in {"groupLock", "groupNext"}, Goto(l, next) PROVE JobsKept /\ AnswersKept
  <2>1. GotoWith(l, next, job[l])
    BY <1>0, <1>6, GotoIsGotoWith
  <2>. QED BY <1>2, <1>4, <2>1
<1>7. CASE GroupChatLock(l)
  <2>1. Goto(l, "groupNext") /\ CarriersRest
    BY <1>7 DEF GroupChatLock, CarriersRest, redisVars, tableVars, netVars
  <2>. QED BY <1>6, <2>1
<1>8. ASSUME NEW u \in Users
      PROVE  /\ Without(job[l], u).msg = k /\ Without(job[l], u).rest = job[l].rest \ {u}
             /\ [Without(job[l], u) EXCEPT !.user = u].msg = k
             /\ [Without(job[l], u) EXCEPT !.user = u].user = u
             /\ [Without(job[l], u) EXCEPT !.user = u].rest = job[l].rest \ {u}
  BY <1>0 DEF Jobs, Without
<1>9. ASSUME NEW u \in Users, GroupChatSend(l, u) PROVE JobsKept /\ AnswersKept /\ Carries(l)
  <2>1. PICK d \in Conns : d = userConnMap[ServerOf[l]][u]
    BY <1>0, <1>9 DEF GroupChatSend
  <2>2. Hands(l, k, u, d) /\ GotoWith(l, "groupNext", Without(job[l], u))
    BY <1>4, <1>9, <2>1 DEF GroupChatSend, Hands, redisVars, tableVars
  <2>3. JobsKept /\ AnswersKept
    BY <1>2, <1>4, <1>8, <2>2
  <2>. QED BY <2>2, <2>3 DEF Carries
<1>10. ASSUME NEW u \in Users, GroupChatAbsent(l, u) PROVE JobsKept /\ AnswersKept /\ CarriersRest
  <2>1. PICK next \in {"groupPublish", "groupStore"} : GotoWith(l, next, [Without(job[l], u) EXCEPT !.user = u])
    BY <1>10 DEF GroupChatAbsent
  <2>2. HandledFor(l, k, u)
    BY <1>4, <1>10 DEF GroupChatAbsent
  <2>. PICK j : j = [Without(job[l], u) EXCEPT !.user = u]
    OBVIOUS
  <2>3. j.msg = k /\ j.user = u /\ j.rest = job[l].rest \ {u}
    BY <1>8
  <2>4. (\A v : v \in j.rest => HandledFor(l, k, v)) /\ HandledFor(l, k, j.user)
    BY <1>4, <2>2, <2>3
  <2>5. GotoWith(l, next, j)
    BY <2>1
  <2>6. next \in {"groupLock", "groupNext", "groupPublish", "groupStore"}
    OBVIOUS
  <2>7. JobsKept /\ AnswersKept
    BY <1>2, <2>3, <2>4, <2>5, <2>6
  <2>. QED BY <1>10, <2>7 DEF GroupChatAbsent, CarriersRest, redisVars, tableVars, netVars
<1>11. pc[l] \in {"groupPublish", "groupStore"} => job[l].user \in Users
  BY <1>0 DEF JobOK
<1>12. CASE GroupChatPublish(l)
  <2>. PICK v \in Users : v = job[l].user
    BY <1>11, <1>12 DEF GroupChatPublish
  <2>1. Announces(l, k, v) /\ Goto(l, "groupNext")
    BY <1>12 DEF GroupChatPublish, Announces, Publishing, tableVars, netVars
  <2>. QED BY <1>6, <2>1 DEF Carries
<1>13. CASE GroupChatStore(l)
  <2>. PICK v \in Users : v = job[l].user
    BY <1>11, <1>13 DEF GroupChatStore
  <2>1. Stores(k, v) /\ Goto(l, "groupNext")
    BY <1>13 DEF GroupChatStore, Stores, Storing, redisVars, netVars
  <2>. QED BY <1>6, <2>1 DEF Carries
<1>14. CASE GroupChatEnd(l)
  <2>1. GotoWith(l, "idle", NoJob) /\ CarriersRest
    BY <1>14 DEF GroupChatEnd, Finish, CarriersRest, redisVars, tableVars, netVars
  <2>. QED BY <1>3, <2>1
<1>. QED BY <1>5, <1>7, <1>9, <1>10, <1>12, <1>13, <1>14 DEF GroupChatStep

\* The steps of the system, by what they carry.
Carriage ==
  \/ /\ JobsKept /\ AnswersKept
     /\ \/ CarriersRest
        \/ \E l \in Loops : Carries(l)
        \/ \E k \in Msgs, v \in Users : Stores(k, v)
        \/ \E s \in Servers : ObserverForward(s)
  \/ JobsKept /\ \E l \in Loops : LoginRemoveOffline(l)
  \/ \E l \in Loops, c \in Conns : OnMessage(l, c)

LEMMA Carriages ==
  ASSUME BaseInv, ~DBFaults, StopKinds = {}, [Next]_vars
  PROVE  Carriage
<1>1. ASSUME UNCHANGED <<pc, job>> PROVE JobsKept /\ AnswersKept
  BY <1>1 DEF JobsKept, AnswersKept, HandledFor
<1>2. ASSUME NEW c \in Conns, Accept(c) \/ Terminal(c) \/ \E u \in Users : Login(c, u) PROVE Carriage
  <2>1. UNCHANGED <<pc, job>> /\ CarriersRest
    BY <1>2, TerminalsSend DEF CarriersRest, tableVars, redisVars
  <2>. QED BY <1>1, <2>1 DEF Carriage
<1>3. ASSUME NEW l \in Loops, Handle(l) PROVE Carriage
  BY <1>3, LoginCarries, CloseCarries, OneChatCarries, GroupChatCarries DEF Handle, Carriage
<1>4. ASSUME NEW l \in Loops, Dispatch(l) PROVE Carriage
  <2>1. CASE RunPendingFunctors(l)
    <3>1. UNCHANGED <<pc, job>>
      BY <2>1 DEF RunPendingFunctors, threadVars
    <3>. QED BY <1>1, <2>1, <3>1 DEF Carriage, Carries
  <2>. QED BY <1>4, <2>1, CloseCarries DEF Dispatch, Carriage
<1>5. ASSUME NEW s \in Servers, Observe(s) \/ Redis(s) \/ Start(s) PROVE Carriage
  <2>1. JobsKept /\ AnswersKept
    BY <1>1, <1>5, OthersAside
  <2>2. CASE ObserverStore(s)
    <3>. PICK e \in Letters : e = observer[s]
      BY <2>2, Untyped DEF ObserverStore, TypeInv, TypeOK, ThreadsTypeOK
    <3>. PICK v \in Users, k \in Msgs : v = e.channel /\ k = e.msg
      BY DEF Letters
    <3>1. observer[s] = Letter(k, v)
      BY DEF Letters, Letter
    <3>2. Stores(k, v)
      BY <2>2, <3>1 DEF ObserverStore, Stores, redisVars, netVars
    <3>. QED BY <2>1, <3>2 DEF Carriage
  <2>3. CASE Redis(s) \/ Start(s)
    <3>1. CarriersRest
      BY <2>3 DEF Redis, RedisExecute, Start, ServersIdle, CarriersRest, tableVars, redisVars, netVars
    <3>. QED BY <2>1, <3>1 DEF Carriage
  <2>. QED BY <1>5, <2>1, <2>2, <2>3 DEF Observe, Carriage
<1>6. \A s \in Servers : ~Sigint(s) /\ ~Reset(s) /\ ~Crash(s)
  BY Untyped, SignalFree DEF Crash
<1>7. CASE UNCHANGED vars
  <2>1. UNCHANGED <<pc, job>> /\ CarriersRest
    BY <1>7 DEF vars, CarriersRest, tableVars, redisVars, netVars, threadVars
  <2>. QED BY <1>1, <2>1 DEF Carriage
<1>. QED BY <1>2, <1>3, <1>4, <1>5, <1>6, <1>7 DEF Next
-----------------------------------------------------------------------------
(***************************************************************************)
(* The stages in a step.                                                   *)
(***************************************************************************)
Still(q, m, u) == Stage(q, m, u)' => Stage(q, m, u)

LEMMA StageIs ==
  ASSUME NEW m, NEW u
  PROVE  /\ Stage(0, m, u) <=> \E c \in Conns : AtRequest(c, m) # {}
         /\ Stage(1, m, u) <=> \E l \in Loops : HandledFor(l, m, u)
         /\ Stage(2, m, u) <=> \E s \in Servers : AtPush(s, m, u) # {}
         /\ Stage(3, m, u) <=> \E c \in Conns : AtPending(c, m, u) # {}
         /\ Stage(4, m, u) <=> AtTable(m, u) # {}
         /\ Stage(5, m, u) <=> \E l \in Loops : AtAnswer(l, m, u) # {}
         /\ Stage(6, m, u) <=> \E c \in Conns : AtSocket(c, m, u) # {}
BY Handled DEF Stage

LEMMA StageNext ==
  ASSUME NEW m, NEW u
  PROVE  /\ Stage(0, m, u)' <=> \E c \in Conns : AtRequest(c, m)' # {}
         /\ Stage(1, m, u)' <=> \E l \in Loops : HandledFor(l, m, u)'
         /\ Stage(2, m, u)' <=> \E s \in Servers : AtPush(s, m, u)' # {}
         /\ Stage(3, m, u)' <=> \E c \in Conns : AtPending(c, m, u)' # {}
         /\ Stage(4, m, u)' <=> AtTable(m, u)' # {}
         /\ Stage(5, m, u)' <=> \E l \in Loops : AtAnswer(l, m, u)' # {}
         /\ Stage(6, m, u)' <=> \E c \in Conns : AtSocket(c, m, u)' # {}
<1>1. \A l \in Loops : AtJob(l, m, u)' # {} <=> HandledFor(l, m, u)'
  BY DEF AtJob
<1>. QED BY <1>1 DEF Stage

\* A step that changes one stage only keeps the order if the later message
\* does not get to it while the earlier one is on the way.
LEMMA OneStage ==
  ASSUME NEW m, NEW n, NEW u, NotOvertaken(m, n, u), NEW a \in 0 .. 6,
         \A q \in 0 .. 6 \ {a} : Still(q, m, u) /\ Still(q, n, u),
         Stage(a, m, u)' => \E r \in 0 .. a : Stage(r, m, u),
         Stage(a, n, u)' => Stage(a, n, u) \/ \A r \in 0 .. a - 1 : ~Stage(r, m, u)'
  PROVE  NotOvertaken(m, n, u)'
<1>. SUFFICES ASSUME NEW r \in 0 .. 6, NEW q \in 0 .. 6, Stage(r, m, u)', Stage(q, n, u)' PROVE q <= r
  BY DEF NotOvertaken
<1>1. PICK p \in 0 .. r : Stage(p, m, u)
  BY DEF Still
<1>2. CASE Stage(q, n, u)
  <2>1. q <= p
    BY <1>1, <1>2 DEF NotOvertaken
  <2>. QED BY <2>1
<1>3. CASE ~Stage(q, n, u)
  <2>1. q = a
    BY <1>3 DEF Still
  <2>2. r \notin 0 .. a - 1
    BY <1>3, <2>1
  <2>. QED BY <2>1, <2>2
<1>. QED BY <1>2, <1>3

LEMMA StillUntouched ==
  ASSUME NEW m \in Msgs, NEW u \in Users
  PROVE  /\ UNCHANGED push => Still(2, m, u)
         /\ UNCHANGED pending => Still(3, m, u)
         /\ offlineMessage'[u] = offlineMessage[u] => Still(4, m, u)
         /\ UNCHANGED toClient => Still(6, m, u)
         /\ JobsKept => Still(1, m, u)
         /\ AnswersKept => Still(5, m, u)
<1>1. UNCHANGED push => Still(2, m, u)
  <2>1. UNCHANGED push => \A s \in Servers : AtPush(s, m, u)' = AtPush(s, m, u)
    BY DEF AtPush
  <2>. QED BY <2>1, StageIs, StageNext DEF Still
<1>2. UNCHANGED pending => Still(3, m, u)
  BY StageIs, StageNext DEF Still, AtPending, Places
<1>3. offlineMessage'[u] = offlineMessage[u] => Still(4, m, u)
  BY StageIs, StageNext DEF Still, AtTable
<1>4. UNCHANGED toClient => Still(6, m, u)
  BY StageIs, StageNext DEF Still, AtSocket, Places
<1>5. JobsKept => Still(1, m, u)
  BY StageIs, StageNext DEF Still, JobsKept
<1>6. ASSUME AnswersKept, NEW l \in Loops, AtAnswer(l, m, u)' # {} PROVE AtAnswer(l, m, u) # {}
  <2>1. pc'[l] = "loginAck" /\ job'[l].msgs # <<>>
    <3>. PICK q : q = job'[l].msgs
      OBVIOUS
    <3>1. pc'[l] = "loginAck" /\ DOMAIN q # {}
      BY <1>6 DEF AtAnswer
    <3>2. q = <<>> => DOMAIN q = {}
      OBVIOUS
    <3>. QED BY <3>1, <3>2
  <2>2. pc[l] = "loginAck" /\ job'[l] = job[l]
    BY <1>6, <2>1 DEF AnswersKept
  <2>. QED BY <1>6, <2>1, <2>2 DEF AtAnswer
<1>7. AnswersKept => Still(5, m, u)
  BY <1>6, StageIs, StageNext DEF Still
<1>. QED BY <1>1, <1>2, <1>3, <1>4, <1>5, <1>7

LEMMA RequestsStill ==
  ASSUME BaseInv, StopKinds = {}, [Next]_vars, NEW m \in Msgs, NEW u, WasSent(m)' => WasSent(m)
  PROVE  Still(0, m, u)
<1>0. request \in [Conns -> Requests] /\ m # None /\ TypeInv
  BY Untyped, NoneAssumption DEF TypeInv, TypeOK, TerminalsTypeOK
<1>1. ASSUME NEW c \in Conns, NEW r, request' = [request EXCEPT ![c] = r], r.msg # m PROVE Still(0, m, u)
  <2>1. \A d \in Conns : AtRequest(d, m)' # {} => AtRequest(d, m) # {}
    BY <1>0, <1>1 DEF AtRequest
  <2>. QED BY <2>1, StageIs, StageNext DEF Still
<1>2. UNCHANGED request => Still(0, m, u)
  BY StageIs, StageNext DEF Still, AtRequest
<1>3. NoRequest.msg # m
  BY <1>0 DEF NoRequest
<1>4. ASSUME NEW c \in Conns, Accept(c) \/ Terminal(c) \/ \E v \in Users : Login(c, v) PROVE Still(0, m, u)
  <2>1. ASSUME NEW k \in Msgs, NewMessage(c, k) PROVE Still(0, m, u)
    <3>1. k # m
      BY <1>0, <2>1, NewMessageIs
    <3>2. \E r : request' = [request EXCEPT ![c] = r] /\ r.msg = k
      BY <1>0, <2>1, NewMessageIs
    <3>. QED BY <1>1, <3>1, <3>2
  <2>2. CASE Exit(c)
    <3>1. UNCHANGED request \/ request' = [request EXCEPT ![c] = NoRequest]
      BY <2>2 DEF Exit
    <3>. QED BY <1>1, <1>2, <1>3, <3>1
  <2>3. CASE \E r : request' = [request EXCEPT ![c] = r] /\ r.msg = None
    BY <1>0, <1>1, <2>3
  <2>. QED BY <1>2, <1>4, <2>1, <2>2, <2>3, TerminalsSend
<1>5. ASSUME NEW l \in Loops, Dispatch(l) \/ Handle(l) PROVE Still(0, m, u)
  <2>1. ASSUME NEW c \in Conns, OnMessage(l, c) PROVE request' = [request EXCEPT ![c] = NoRequest]
    BY <2>1 DEF OnMessage
  <2>. QED BY <1>1, <1>2, <1>3, <1>5, <2>1, ThreadsSendNothing
<1>6. ASSUME NEW s \in Servers, Observe(s) \/ Redis(s) \/ Start(s) PROVE Still(0, m, u)
  BY <1>2, <1>6, OthersSendNothing
<1>7. \A s \in Servers : ~Sigint(s) /\ ~Reset(s) /\ ~Crash(s)
  BY Untyped, SignalFree DEF Crash
<1>8. UNCHANGED vars => UNCHANGED request
  BY DEF vars, terminalVars
<1>. QED BY <1>2, <1>4, <1>5, <1>6, <1>7, <1>8 DEF Next

LEMMA FrameFrom ==
  ASSUME TypeInv, NEW m, NEW u, NEW t, NEW d \in Conns, NEW f \in Frames, SendFrame(t, d, f), NEW c \in Conns
  PROVE  /\ AtPending(c, m, u)' # {} =>
              AtPending(c, m, u) # {} \/ (t # LoopOf[d] /\ c = d /\ f.user = u /\ Spots(f.msgs, m) # {})
         /\ AtSocket(c, m, u)' # {} =>
              AtSocket(c, m, u) # {} \/ (t = LoopOf[d] /\ c = d /\ f.user = u /\ Spots(f.msgs, m) # {})
<1>1. pending \in [Conns -> Seq(Frames)] /\ toClient \in [Conns -> Seq(Frames)]
  BY DEF TypeInv, TypeOK, NetTypeOK
<1>2. /\ pending'[c] = pending[c] \/ (pending'[c] = Append(pending[c], f) /\ t # LoopOf[d] /\ c = d)
      /\ toClient'[c] = toClient[c] \/ (toClient'[c] = Append(toClient[c], f) /\ t = LoopOf[d] /\ c = d)
  BY <1>1 DEF SendFrame
<1>3. pending[c] \in Seq(Frames) /\ toClient[c] \in Seq(Frames)
  BY <1>1
<1>. PICK q, s \in Seq(Frames) : q = pending[c] /\ s = toClient[c]
  BY <1>3
<1>4. f.user # u \/ Spots(f.msgs, m) = {} =>
        Places(Append(q, f), m, u) = Places(q, m, u) /\ Places(Append(s, f), m, u) = Places(s, m, u)
  BY PlacesAppended
<1>5. AtPending(c, m, u)' = Places(pending'[c], m, u) /\ AtSocket(c, m, u)' = Places(toClient'[c], m, u)
  BY DEF AtPending, AtSocket, Places
<1>. QED BY <1>2, <1>4, <1>5 DEF AtPending, AtSocket

LEMMA FrameOrder ==
  ASSUME TypeInv, NEW m, NEW n, NEW u, NEW t, NEW d \in Conns, NEW f \in Frames, SendFrame(t, d, f),
         InFront(m, n, u), f.user = u => Ahead(f.msgs, m, n),
         f.user = u /\ Spots(f.msgs, m) # {} => AtPending(d, n, u) = {} \/ t = LoopOf[d],
         f.user = u /\ Spots(f.msgs, m) # {} => AtSocket(d, n, u) = {} \/ t # LoopOf[d]
  PROVE  \A c \in Conns : FramesAhead(pending'[c], m, n, u) /\ FramesAhead(toClient'[c], m, n, u)
<1>. TAKE c \in Conns
<1>1. pending \in [Conns -> Seq(Frames)] /\ toClient \in [Conns -> Seq(Frames)]
  BY DEF TypeInv, TypeOK, NetTypeOK
<1>2. /\ pending'[c] = pending[c] \/ (pending'[c] = Append(pending[c], f) /\ t # LoopOf[d] /\ c = d)
      /\ toClient'[c] = toClient[c] \/ (toClient'[c] = Append(toClient[c], f) /\ t = LoopOf[d] /\ c = d)
  BY <1>1 DEF SendFrame
<1>3. pending[c] \in Seq(Frames) /\ toClient[c] \in Seq(Frames)
  BY <1>1
<1>. PICK q, s \in Seq(Frames) : q = pending[c] /\ s = toClient[c]
  BY <1>3
<1>4. FramesAhead(q, m, n, u) /\ FramesAhead(s, m, n, u)
  BY DEF InFront
<1>5. AtPending(c, n, u) = Places(q, n, u) /\ AtSocket(c, n, u) = Places(s, n, u)
  BY DEF AtPending, AtSocket
<1>6. CASE t # LoopOf[d] /\ c = d
  <2>1. f.user = u /\ Spots(f.msgs, m) # {} => Places(q, n, u) = {}
    BY <1>5, <1>6
  <2>2. FramesAhead(Append(q, f), m, n, u)
    BY <1>4, <2>1, FramesAppended
  <2>. QED BY <1>2, <1>4, <1>6, <2>2
<1>7. CASE t = LoopOf[d] /\ c = d
  <2>1. f.user = u /\ Spots(f.msgs, m) # {} => Places(s, n, u) = {}
    BY <1>5, <1>7
  <2>2. FramesAhead(Append(s, f), m, n, u)
    BY <1>4, <2>1, FramesAppended
  <2>. QED BY <1>2, <1>4, <1>7, <2>2
<1>. QED BY <1>2, <1>4, <1>6, <1>7

LEMMA InFrontNext ==
  ASSUME NEW m, NEW n, NEW u, InFront(m, n, u),
         UNCHANGED push \/ \A s \in Servers : Ahead(push'[s], Letter(m, u), Letter(n, u)),
         \/ UNCHANGED <<pending, toClient>>
         \/ \A c \in Conns : FramesAhead(pending'[c], m, n, u) /\ FramesAhead(toClient'[c], m, n, u),
         offlineMessage'[u] = offlineMessage[u] \/ Ahead(offlineMessage'[u], m, n),
         AnswersKept \/ \A l \in Loops : pc'[l] = "loginAck" /\ job'[l].user = u => Ahead(job'[l].msgs, m, n)
  PROVE  InFront(m, n, u)'
<1>1. \A s \in Servers : Ahead(push'[s], Letter(m, u), Letter(n, u))
  BY DEF InFront
<1>2. \A c \in Conns : FramesAhead(pending'[c], m, n, u) /\ FramesAhead(toClient'[c], m, n, u)
  BY DEF InFront
<1>3. Ahead(offlineMessage'[u], m, n)
  BY DEF InFront
<1>4. \A l \in Loops : pc'[l] = "loginAck" /\ job'[l].user = u => Ahead(job'[l].msgs, m, n)
  BY AheadEmpty DEF InFront, AnswersKept
<1>5. \A s \in Servers : Ahead(push[s], Letter(m, u), Letter(n, u))'
  BY <1>1 DEF Ahead, Spots, Letter
<1>6. \A c \in Conns : FramesAhead(pending[c], m, n, u)' /\ FramesAhead(toClient[c], m, n, u)'
  BY <1>2 DEF FramesAhead, Places, Before
<1>7. Ahead(offlineMessage[u], m, n)'
  BY <1>3 DEF Ahead, Spots
<1>8. \A l \in Loops : pc'[l] = "loginAck" /\ job'[l].user = u => Ahead(job[l].msgs, m, n)'
  BY <1>4 DEF Ahead, Spots
<1>. QED BY <1>5, <1>6, <1>7, <1>8 DEF InFront
-----------------------------------------------------------------------------
(***************************************************************************)
(* The order of two messages.                                              *)
(***************************************************************************)
\* An earlier message m and a later one n, in a step that sends neither.
Pair(m, n, u) ==
  /\ Ready(m, u) /\ Ready(n, u) /\ Apart(m, u) /\ SentBefore(m, n)
  /\ NotOvertaken(m, n, u) /\ InFront(m, n, u)
  /\ Still(0, m, u) /\ Still(0, n, u)

InOrder(m, n, u) == NotOvertaken(m, n, u)' /\ InFront(m, n, u)'

LEMMA PairIs ==
  ASSUME NEW m \in Msgs, NEW n \in Msgs, NEW u \in Users, Pair(m, n, u)
  PROVE  /\ BaseInv /\ TrailInv /\ TypeInv /\ MutexInv /\ m # n /\ OnTheWay(m, u) /\ OnTheWay(n, u)
         /\ InFlight(m, u) # {} \/ InFlight(n, u) # {} => ~Unsettled(u)
         /\ \A r, q \in 0 .. 6 : Stage(r, m, u) /\ Stage(q, n, u) => q <= r
         /\ ~(Stage(0, m, u) /\ Stage(0, n, u)) /\ ~(Stage(1, m, u) /\ Stage(1, n, u))
         /\ Still(0, m, u) /\ Still(0, n, u) /\ Apart(m, u) /\ NotOvertaken(m, n, u) /\ InFront(m, n, u)
         /\ SentBefore(m, n)
<1>1. BaseInv /\ TrailInv /\ SentBefore(m, n)
  BY DEF Pair, Ready
<1>2. TypeInv /\ MutexInv /\ m # n
  BY <1>1, Untyped, OneSource
<1>3. ~(Stage(0, m, u) /\ Stage(0, n, u))
  BY <1>1, StageIs, NotBothRequested
<1>4. ~(Stage(1, m, u) /\ Stage(1, n, u))
  BY <1>1, StageIs, NotBothHandled
<1>5. OnTheWay(m, u) /\ OnTheWay(n, u)
  BY DEF Pair, Ready, Tracked
<1>6. InFlight(m, u) # {} \/ InFlight(n, u) # {} => ~Unsettled(u)
  BY DEF Pair, Ready, Tracked
<1>7. \A r, q \in 0 .. 6 : Stage(r, m, u) /\ Stage(q, n, u) => q <= r
  BY DEF Pair, NotOvertaken
<1>. QED BY <1>1, <1>2, <1>3, <1>4, <1>5, <1>6, <1>7 DEF Pair

LEMMA RestOrder ==
  ASSUME NEW m \in Msgs, NEW n \in Msgs, NEW u \in Users, Pair(m, n, u), JobsKept, AnswersKept, CarriersRest
  PROVE  InOrder(m, n, u)
<1>1. \A q \in 0 .. 6 : Still(q, m, u) /\ Still(q, n, u)
  <2>. TAKE q \in 0 .. 6
  <2>1. q \in {0, 1, 2, 3, 4, 5, 6}
    OBVIOUS
  <2>2. UNCHANGED <<push, pending, toClient>> /\ offlineMessage'[u] = offlineMessage[u]
    BY DEF CarriersRest
  <2>. QED BY <2>1, <2>2, PairIs, StillUntouched
<1>. PICK a \in 0 .. 6 : a = 0
  OBVIOUS
<1>2. Stage(a, m, u)' => \E r \in 0 .. a : Stage(r, m, u)
  BY <1>1 DEF Still
<1>3. Stage(a, n, u)' => Stage(a, n, u)
  BY <1>1 DEF Still
<1>4. NotOvertaken(m, n, u)'
  BY <1>1, <1>2, <1>3, PairIs, OneStage
<1>5. InFront(m, n, u)'
  BY PairIs, InFrontNext DEF CarriersRest
<1>. QED BY <1>4, <1>5 DEF InOrder

LEMMA TakeOrder ==
  ASSUME NEW m \in Msgs, NEW n \in Msgs, NEW u \in Users, Pair(m, n, u), NEW l \in Loops, NEW c \in Conns, OnMessage(l, c)
  PROVE  InOrder(m, n, u)
<1>0. MutexInv /\ TypeInv /\ request[c] \in Requests
  BY PairIs DEF TypeInv, TypeOK, TerminalsTypeOK
<1>. PICK r \in Requests : r = request[c]
  BY <1>0
<1>. PICK j : j = JobFor(c, IF r.kind = "loginout" THEN None ELSE r.user, r.msg, r.password)
  OBVIOUS
<1>1. GotoWith(l, HandlerOf[r.kind], j) /\ j.msg = r.msg /\ j.msgs = <<>> /\ CarriersRest
  BY DEF OnMessage, JobFor, CarriersRest, redisVars, tableVars
<1>2. /\ job'[l] = j
      /\ \A k \in Loops : k # l => pc'[k] = pc[k] /\ job'[k] = job[k]
  BY <1>0, <1>1, Moving
<1>3. AnswersKept
  BY <1>1, <1>2 DEF AnswersKept
<1>4. ASSUME NEW x \in Msgs, Stage(1, x, u)', ~Stage(1, x, u) PROVE Stage(0, x, u)
  <2>1. PICK k \in Loops : HandledFor(k, x, u)'
    BY <1>4, StageNext
  <2>2. k = l
    <3>1. ~HandledFor(k, x, u)
      BY <1>4, StageIs
    <3>. QED BY <1>2, <2>1, <3>1 DEF HandledFor
  <2>3. request[c].msg = x
    BY <1>1, <1>2, <2>1, <2>2 DEF HandledFor
  <2>4. AtRequest(c, x) # {}
    BY <2>3 DEF AtRequest
  <2>. QED BY <2>4, StageIs
<1>. PICK a \in 0 .. 6 : a = 1
  OBVIOUS
<1>5. \A q \in 0 .. 6 \ {a} : Still(q, m, u) /\ Still(q, n, u)
  <2>. TAKE q \in 0 .. 6 \ {a}
  <2>1. q \in {0, 2, 3, 4, 5, 6}
    OBVIOUS
  <2>2. UNCHANGED <<push, pending, toClient>> /\ offlineMessage'[u] = offlineMessage[u]
    BY <1>1 DEF CarriersRest
  <2>. QED BY <1>3, <2>1, <2>2, PairIs, StillUntouched
<1>6. Stage(a, m, u)' => \E p \in 0 .. a : Stage(p, m, u)
  BY <1>4
<1>7. Stage(a, n, u)' => Stage(a, n, u) \/ \A p \in 0 .. a - 1 : ~Stage(p, m, u)'
  BY <1>4, PairIs DEF Still
<1>8. NotOvertaken(m, n, u)'
  BY <1>5, <1>6, <1>7, PairIs, OneStage
<1>9. InFront(m, n, u)'
  BY <1>1, <1>3, PairIs, InFrontNext DEF CarriersRest
<1>. QED BY <1>8, <1>9 DEF InOrder

\* If n goes to its addressee's connection, nothing sent before is behind.
LEMMA HandsClear ==
  ASSUME NEW m \in Msgs, NEW n \in Msgs, NEW u \in Users, Pair(m, n, u), NEW l \in Loops, NEW d \in Conns,
         HandledFor(l, n, u), pc[l] \in {"oneChat", "groupNext"}, userConnMap[ServerOf[l]][u] = d
  PROVE  /\ ~Stage(0, m, u) /\ ~Stage(1, m, u) /\ ~Stage(2, m, u)
         /\ l = LoopOf[d] => ~Stage(3, m, u) /\ ~Stage(4, m, u) /\ ~Stage(5, m, u)
<1>. PICK s : s = ServerOf[l]
  OBVIOUS
<1>1. Stage(1, n, u) /\ BaseInv /\ TrailInv /\ s \in Servers /\ d # None /\ OnTheWay(m, u) /\ Apart(m, u)
  BY StageIs, PairIs, PlacementAssumption, NoneAssumption
<1>2. ~Unsettled(u)
  BY Handled, PairIs
<1>3. userState[u] = "online" /\ \A t \in Servers : userConnMap[t][u] # None => t = s
  BY <1>1, <1>2, OneEntry
<1>. PICK c \in Conns : c = job[l].conn /\ LoopOf[c] = l /\ SentFrom(n, c)
  BY <1>1, JobSource
<1>4. SentFrom(m, c) /\ ConnServer(c) = s
  BY <1>1, PairIs, OneSource DEF ConnServer
<1>5. ~Stage(0, m, u) /\ ~Stage(1, m, u)
  BY <1>1, PairIs
<1>6. ~Stage(2, m, u)
  <2>. SUFFICES ASSUME NEW t \in Servers, AtPush(t, m, u) # {} PROVE FALSE
    BY StageIs
  <2>1. t = s
    BY <1>1, <1>3 DEF OnTheWay
  <2>. QED BY <1>1, <1>4, <2>1 DEF Apart
<1>7. ASSUME l = LoopOf[d], NEW e \in Conns, AtPending(e, m, u) # {} PROVE FALSE
  <2>1. ConnServer(e) \in Servers /\ userConnMap[ConnServer(e)][u] = e /\ e # None
    BY <1>1, <1>7, PlacementAssumption, NoneAssumption DEF OnTheWay, ConnServer
  <2>2. ConnServer(e) = s
    BY <1>3, <2>1
  <2>3. e = d
    BY <2>1, <2>2
  <2>. QED BY <1>1, <1>4, <1>7, <2>3 DEF Apart
<1>8. ASSUME l = LoopOf[d], NEW k \in Loops, job[k].user = u,
             pc[k] \in {"loginReadOffline", "loginRemoveOffline", "loginAck"}
      PROVE  FALSE
  <2>1. k = l
    BY <1>1, <1>2, <1>8, LoginLoop
  <2>. QED BY <1>8, <2>1
<1>9. l = LoopOf[d] => ~Stage(3, m, u)
  BY <1>7, StageIs
<1>10. l = LoopOf[d] => ~Stage(4, m, u)
  BY <1>1, <1>3, <1>8, StageIs DEF Apart, Collecting
<1>11. l = LoopOf[d] => ~Stage(5, m, u)
  BY <1>8, StageIs DEF AtAnswer
<1>. QED BY <1>5, <1>6, <1>9, <1>10, <1>11

\* What a frame brings to the stages behind a connection.
LEMMA FrameStages ==
  ASSUME TypeInv, NEW t, NEW d \in Conns, NEW f \in Frames, SendFrame(t, d, f), NEW x, NEW u
  PROVE  /\ Stage(3, x, u)' => Stage(3, x, u) \/ (t # LoopOf[d] /\ f.user = u /\ Spots(f.msgs, x) # {})
         /\ Stage(6, x, u)' => Stage(6, x, u) \/ (t = LoopOf[d] /\ f.user = u /\ Spots(f.msgs, x) # {})
<1>1. ASSUME NEW c \in Conns
      PROVE  /\ AtPending(c, x, u)' # {} =>
                   AtPending(c, x, u) # {} \/ (t # LoopOf[d] /\ c = d /\ f.user = u /\ Spots(f.msgs, x) # {})
             /\ AtSocket(c, x, u)' # {} =>
                   AtSocket(c, x, u) # {} \/ (t = LoopOf[d] /\ c = d /\ f.user = u /\ Spots(f.msgs, x) # {})
  BY FrameFrom
<1>2. (\E c \in Conns : AtPending(c, x, u)' # {}) =>
        (\E c \in Conns : AtPending(c, x, u) # {}) \/ (t # LoopOf[d] /\ f.user = u /\ Spots(f.msgs, x) # {})
  BY <1>1
<1>3. (\E c \in Conns : AtSocket(c, x, u)' # {}) =>
        (\E c \in Conns : AtSocket(c, x, u) # {}) \/ (t = LoopOf[d] /\ f.user = u /\ Spots(f.msgs, x) # {})
  BY <1>1
<1>. QED BY <1>2, <1>3, StageIs, StageNext

LEMMA MessageFrom ==
  ASSUME TypeInv, NEW v \in Users, NEW k \in Msgs, NEW t \in Loops \cup OtherThreads, NEW d \in Conns,
         SendFrame(t, d, MsgFrame(v, k)), NEW x \in Msgs, NEW u \in Users
  PROVE  /\ Stage(3, x, u)' => Stage(3, x, u) \/ (t # LoopOf[d] /\ v = u /\ x = k)
         /\ Stage(6, x, u)' => Stage(6, x, u) \/ (t = LoopOf[d] /\ v = u /\ x = k)
<1>. PICK f \in Frames : f = MsgFrame(v, k)
  BY MessageSpots
<1>1. SendFrame(t, d, f) /\ f.user = v /\ \A y : Spots(f.msgs, y) # {} => y = k
  BY MessageSpots
<1>. QED BY <1>1, FrameStages

LEMMA HandsOrder ==
  ASSUME NEW m \in Msgs, NEW n \in Msgs, NEW u \in Users, Pair(m, n, u), JobsKept, AnswersKept,
         NEW l \in Loops, NEW k \in Msgs, NEW v \in Users, NEW d \in Conns, Hands(l, k, v, d)
  PROVE  InOrder(m, n, u)
<1>. PICK f \in Frames : f = MsgFrame(v, k)
  BY MessageSpots
<1>0. /\ TypeInv /\ SendFrame(l, d, f) /\ f.user = v /\ UNCHANGED <<push, offlineMessage>>
      /\ \A x : Spots(f.msgs, x) # {} => x = k
      /\ HandledFor(l, k, v) /\ pc[l] \in {"oneChat", "groupNext"} /\ userConnMap[ServerOf[l]][v] = d
  BY MessageSpots, PairIs DEF Hands
<1>1. ASSUME NEW x \in Msgs
      PROVE  /\ Stage(3, x, u)' => Stage(3, x, u) \/ (l # LoopOf[d] /\ v = u /\ x = k)
             /\ Stage(6, x, u)' => Stage(6, x, u) \/ (l = LoopOf[d] /\ v = u /\ x = k)
  BY <1>0, MessageFrom
<1>2. \A x \in Msgs : Still(1, x, u) /\ Still(2, x, u) /\ Still(4, x, u) /\ Still(5, x, u)
  BY <1>0, StillUntouched
<1>. PICK a \in 0 .. 6 : a = IF l = LoopOf[d] THEN 6 ELSE 3
  OBVIOUS
<1>3. \A q \in 0 .. 6 \ {a} : Still(q, m, u) /\ Still(q, n, u)
  <2>. TAKE q \in 0 .. 6 \ {a}
  <2>1. q \in {0, 1, 2, 4, 5} \/ (q = 3 /\ l = LoopOf[d]) \/ (q = 6 /\ l # LoopOf[d])
    OBVIOUS
  <2>2. (l = LoopOf[d] => Still(3, m, u) /\ Still(3, n, u)) /\ (l # LoopOf[d] => Still(6, m, u) /\ Still(6, n, u))
    BY <1>1 DEF Still
  <2>. QED BY <1>2, <2>1, <2>2, PairIs
<1>4. v = u /\ m = k => Stage(1, m, u)
  BY <1>0, StageIs
<1>5. Stage(a, m, u)' => \E r \in 0 .. a : Stage(r, m, u)
  <2>1. 1 \in 0 .. a /\ a \in 0 .. a
    OBVIOUS
  <2>. QED BY <1>1, <1>4, <2>1
<1>6. Stage(a, n, u)' => Stage(a, n, u) \/ \A r \in 0 .. a - 1 : ~Stage(r, m, u)'
  <2>. SUFFICES ASSUME Stage(a, n, u)', ~Stage(a, n, u), NEW r \in 0 .. a - 1 PROVE ~Stage(r, m, u)'
    OBVIOUS
  <2>1. v = u /\ n = k
    BY <1>1
  <2>2. /\ ~Stage(0, m, u) /\ ~Stage(1, m, u) /\ ~Stage(2, m, u)
        /\ l = LoopOf[d] => ~Stage(3, m, u) /\ ~Stage(4, m, u) /\ ~Stage(5, m, u)
    BY <1>0, <2>1, HandsClear
  <2>3. r \in {0, 1, 2} \/ (l = LoopOf[d] /\ r \in {3, 4, 5})
    OBVIOUS
  <2>4. ~Stage(r, m, u)
    BY <2>2, <2>3
  <2>5. r \in 0 .. 6 \ {a}
    OBVIOUS
  <2>. QED BY <1>3, <2>4, <2>5 DEF Still
<1>7. NotOvertaken(m, n, u)'
  BY <1>3, <1>5, <1>6, PairIs, OneStage
<1>8. Ahead(f.msgs, m, n)
  <2>1. f.msgs = <<k>>
    BY DEF MsgFrame
  <2>. QED BY <2>1, AheadAlone, PairIs
<1>9. f.user = u /\ Spots(f.msgs, m) # {} => AtPending(d, n, u) = {} /\ AtSocket(d, n, u) = {}
  <2>1. Stage(1, m, u) => ~Stage(3, n, u) /\ ~Stage(6, n, u)
    <3>1. 1 \in 0 .. 6 /\ 3 \in 0 .. 6 /\ 6 \in 0 .. 6 /\ ~(3 <= 1) /\ ~(6 <= 1)
      OBVIOUS
    <3>. QED BY <3>1, PairIs
  <2>. QED BY <1>0, <1>4, <2>1, StageIs
<1>10. \A c \in Conns : FramesAhead(pending'[c], m, n, u) /\ FramesAhead(toClient'[c], m, n, u)
  BY <1>0, <1>8, <1>9, PairIs, FrameOrder
<1>11. InFront(m, n, u)'
  BY <1>0, <1>10, PairIs, InFrontNext
<1>. QED BY <1>7, <1>11 DEF InOrder

LEMMA AnnounceOrder ==
  ASSUME NEW m \in Msgs, NEW n \in Msgs, NEW u \in Users, Pair(m, n, u), JobsKept, AnswersKept,
         NEW l \in Loops, NEW k \in Msgs, NEW v \in Users, Announces(l, k, v)
  PROVE  InOrder(m, n, u)
<1>0. TypeInv /\ Publish(v, k) /\ UNCHANGED <<offlineMessage, pending, toClient>> /\ HandledFor(l, k, v)
  BY PairIs DEF Announces, HandledFor, Publishing, OneChatPcs
<1>1. \A x \in Msgs : v = u /\ x = k => Stage(1, x, u)
  BY <1>0, StageIs
<1>2. ASSUME NEW x \in Msgs, k # x \/ v # u PROVE Still(2, x, u)
  <2>1. \A s \in Servers : AtPush(s, x, u)' = AtPush(s, x, u)
    BY <1>0, <1>2, OtherPublished
  <2>. QED BY <2>1, StageIs, StageNext DEF Still
<1>. PICK a \in 0 .. 6 : a = 2
  OBVIOUS
<1>3. \A q \in 0 .. 6 \ {a} : Still(q, m, u) /\ Still(q, n, u)
  <2>. TAKE q \in 0 .. 6 \ {a}
  <2>1. q \in {0, 1, 3, 4, 5, 6}
    OBVIOUS
  <2>. QED BY <1>0, <2>1, PairIs, StillUntouched
<1>4. Stage(a, m, u)' => \E r \in 0 .. a : Stage(r, m, u)
  <2>1. 1 \in 0 .. a /\ a \in 0 .. a
    OBVIOUS
  <2>. QED BY <1>1, <1>2, <2>1 DEF Still
<1>5. Stage(a, n, u)' => Stage(a, n, u) \/ \A r \in 0 .. a - 1 : ~Stage(r, m, u)'
  <2>. SUFFICES ASSUME Stage(a, n, u)', ~Stage(a, n, u), NEW r \in 0 .. a - 1 PROVE ~Stage(r, m, u)'
    OBVIOUS
  <2>1. Stage(1, n, u)
    BY <1>1, <1>2 DEF Still
  <2>2. r \in {0, 1} /\ r \in 0 .. 6 \ {a} /\ 0 \in 0 .. 6 /\ 1 \in 0 .. 6 /\ ~(1 <= 0)
    OBVIOUS
  <2>3. ~Stage(0, m, u) /\ ~Stage(1, m, u)
    BY <2>1, <2>2, PairIs
  <2>. QED BY <1>3, <2>2, <2>3 DEF Still
<1>6. NotOvertaken(m, n, u)'
  BY <1>3, <1>4, <1>5, PairIs, OneStage
<1>7. ASSUME NEW s \in Servers PROVE Ahead(push'[s], Letter(m, u), Letter(n, u))
  <2>1. push \in [Servers -> Seq(Letters)] /\ m # n
    BY <1>0, PairIs DEF TypeInv, TypeOK, RedisTypeOK
  <2>. PICK q \in Seq(Letters), e \in Letters : q = push[s] /\ e = Letter(k, v)
    BY <2>1 DEF Letters, Letter
  <2>2. push'[s] = q \/ push'[s] = Append(q, e)
    BY <1>0, <2>1 DEF Publish, Letter
  <2>3. Ahead(q, Letter(m, u), Letter(n, u))
    BY PairIs DEF InFront
  <2>4. Letter(m, u) # Letter(n, u) /\ (e = Letter(m, u) => k = m /\ v = u)
    BY <2>1 DEF Letter
  <2>5. e = Letter(m, u) => Spots(q, Letter(n, u)) = {}
    <3>1. Stage(1, m, u) => ~Stage(2, n, u)
      <4>1. 1 \in 0 .. 6 /\ 2 \in 0 .. 6 /\ ~(2 <= 1)
        OBVIOUS
      <4>. QED BY <4>1, PairIs
    <3>2. AtPush(s, n, u) = Spots(q, Letter(n, u))
      BY DEF AtPush, Spots, Letter
    <3>. QED BY <1>1, <2>4, <3>1, <3>2, StageIs
  <2>6. Ahead(Append(q, e), Letter(m, u), Letter(n, u))
    BY <2>3, <2>4, <2>5, AheadAppended
  <2>. QED BY <2>2, <2>3, <2>6
<1>8. InFront(m, n, u)'
  BY <1>0, <1>7, PairIs, InFrontNext
<1>. QED BY <1>6, <1>8 DEF InOrder

\* What is stored was decided to be stored.
LEMMA StoredBy ==
  ASSUME NEW x \in Msgs, NEW u \in Users, OnTheWay(x, u), Stores(x, u)
  PROVE  Stage(1, x, u) /\ InFlight(x, u) # {} /\ userState[u] = "offline"
<1>1. ASSUME NEW s \in Servers, observer[s] = Letter(x, u) PROVE FALSE
  <2>1. AtObserver(s, x, u) # {}
    BY <1>1 DEF AtObserver, Letter
  <2>. QED BY <2>1 DEF OnTheWay
<1>2. PICK l \in Loops : pc[l] \in Storing /\ job[l].msg = x /\ job[l].user = u
  BY <1>1 DEF Stores
<1>3. HandledFor(l, x, u)
  BY <1>2 DEF HandledFor, Storing, OneChatPcs
<1>4. Stage(1, x, u)
  BY <1>3, StageIs
<1>. QED BY <1>2, <1>4, Decided

LEMMA StoreOrder ==
  ASSUME NEW m \in Msgs, NEW n \in Msgs, NEW u \in Users, Pair(m, n, u), JobsKept, AnswersKept,
         NEW k \in Msgs, NEW v \in Users, Stores(k, v)
  PROVE  InOrder(m, n, u)
<1>0. TypeInv /\ OfflineInsert(v, k) /\ UNCHANGED <<push, pending, toClient>>
  BY PairIs DEF Stores
<1>1. ASSUME NEW x \in Msgs, OnTheWay(x, u), v = u, x = k
      PROVE  Stage(1, x, u) /\ InFlight(x, u) # {} /\ userState[u] = "offline"
  BY <1>1, StoredBy
<1>2. ASSUME NEW x \in Msgs, k # x \/ v # u PROVE Still(4, x, u)
  <2>1. AtTable(x, u)' = AtTable(x, u)
    BY <1>0, <1>2, OtherStored
  <2>. QED BY <2>1, StageIs, StageNext DEF Still
<1>. PICK a \in 0 .. 6 : a = 4
  OBVIOUS
<1>3. \A q \in 0 .. 6 \ {a} : Still(q, m, u) /\ Still(q, n, u)
  <2>. TAKE q \in 0 .. 6 \ {a}
  <2>1. q \in {0, 1, 2, 3, 5, 6}
    OBVIOUS
  <2>. QED BY <1>0, <2>1, PairIs, StillUntouched
<1>4. Stage(a, m, u)' => \E r \in 0 .. a : Stage(r, m, u)
  <2>1. 1 \in 0 .. a /\ a \in 0 .. a
    OBVIOUS
  <2>. QED BY <1>1, <1>2, <2>1, PairIs DEF Still
<1>5. Stage(a, n, u)' => Stage(a, n, u) \/ \A r \in 0 .. a - 1 : ~Stage(r, m, u)'
  <2>. SUFFICES ASSUME Stage(a, n, u)', ~Stage(a, n, u), NEW r \in 0 .. a - 1 PROVE ~Stage(r, m, u)'
    OBVIOUS
  <2>1. v = u /\ n = k
    BY <1>2 DEF Still
  <2>2. Stage(1, n, u) /\ ~Unsettled(u) /\ userState[u] = "offline"
    BY <1>1, <2>1, PairIs
  <2>3. BaseInv /\ userState[u] # "online"
    BY <2>2, PairIs
  <2>4. \A s \in Servers : userConnMap[s][u] = None
    BY <2>2, <2>3, OneEntry
  <2>5. ~Stage(0, m, u) /\ ~Stage(1, m, u)
    <3>1. 0 \in 0 .. 6 /\ 1 \in 0 .. 6 /\ ~(1 <= 0)
      OBVIOUS
    <3>. QED BY <2>2, <3>1, PairIs
  <2>6. ~Stage(2, m, u)
    <3>1. \A s \in Servers : AtPush(s, m, u) = {}
      BY <2>4, PairIs DEF OnTheWay
    <3>. QED BY <3>1, StageIs
  <2>7. ~Stage(3, m, u)
    <3>1. \A c \in Conns : AtPending(c, m, u) = {}
      BY <2>4, PairIs, PlacementAssumption, NoneAssumption DEF OnTheWay, ConnServer
    <3>. QED BY <3>1, StageIs
  <2>8. r \in {0, 1, 2, 3} /\ r \in 0 .. 6 \ {a}
    OBVIOUS
  <2>. QED BY <1>3, <2>5, <2>6, <2>7, <2>8 DEF Still
<1>6. NotOvertaken(m, n, u)'
  BY <1>3, <1>4, <1>5, PairIs, OneStage
<1>7. Ahead(offlineMessage'[u], m, n)
  <2>1. offlineMessage \in [Users -> Seq(Msgs)] /\ m # n
    BY <1>0, PairIs DEF TypeInv, TypeOK, TablesTypeOK
  <2>. PICK q \in Seq(Msgs) : q = offlineMessage[u]
    BY <2>1
  <2>2. Ahead(q, m, n)
    BY PairIs DEF InFront
  <2>3. offlineMessage'[u] = q \/ (v = u /\ offlineMessage'[u] = Append(q, k))
    BY <1>0, <2>1 DEF OfflineInsert
  <2>4. v = u /\ k = m => Spots(q, n) = {}
    <3>1. Stage(1, m, u) => ~Stage(4, n, u)
      <4>1. 1 \in 0 .. 6 /\ 4 \in 0 .. 6 /\ ~(4 <= 1)
        OBVIOUS
      <4>. QED BY <4>1, PairIs
    <3>2. AtTable(n, u) = Spots(q, n)
      BY DEF AtTable, Spots
    <3>. QED BY <1>1, <3>1, <3>2, PairIs, StageIs
  <2>5. v = u => Ahead(Append(q, k), m, n)
    BY <2>1, <2>2, <2>4, AheadAppended
  <2>. QED BY <2>2, <2>3, <2>5
<1>8. InFront(m, n, u)'
  BY <1>0, <1>7, PairIs, InFrontNext
<1>. QED BY <1>6, <1>8 DEF InOrder

LEMMA ForwardOrder ==
  ASSUME NEW m \in Msgs, NEW n \in Msgs, NEW u \in Users, Pair(m, n, u), JobsKept, AnswersKept,
         NEW s \in Servers, ObserverForward(s)
  PROVE  InOrder(m, n, u)
<1>0. /\ TypeInv /\ BaseInv /\ push \in [Servers -> Seq(Letters)]
      /\ userConnMap \in [Servers -> [Users -> Conns \cup {None}]] /\ None \notin Conns
  BY PairIs, NoneAssumption DEF TypeInv, TypeOK, RedisTypeOK, SessionsTypeOK
<1>. PICK q \in Seq(Letters) : q = push[s]
  BY <1>0
<1>1. q # <<>>
  BY DEF ObserverForward
<1>. PICK e \in Letters : e = Head(q)
  BY <1>1
<1>. PICK v \in Users, k \in Msgs : v = e.channel /\ k = e.msg
  BY DEF Letters
<1>2. e = Letter(k, v) /\ 1 \in Spots(q, e)
  <2>1. 1 \in DOMAIN q /\ q[1] = e
    BY <1>1
  <2>. QED BY <2>1 DEF Letters, Letter, Spots
<1>. PICK d \in Conns \cup {None} : d = userConnMap[s][v]
  BY <1>0
<1>. PICK f \in Frames : f = MsgFrame(v, k)
  BY MessageSpots
<1>3. /\ push' = [push EXCEPT ![s] = Tail(q)] /\ UNCHANGED offlineMessage
      /\ d # None => SendFrame("observer", d, f)
      /\ d = None => UNCHANGED <<pending, toClient>>
  BY DEF ObserverForward, ReadReply, tableVars, netVars
<1>4. push'[s] = Tail(q) /\ \A t \in Servers : t # s => push'[t] = push[t]
  BY <1>0, <1>3
<1>5. f.user = v /\ (\A x : Spots(f.msgs, x) # {} => x = k) /\ f.msgs = <<k>>
  BY MessageSpots DEF MsgFrame
<1>6. d # None => d \in Conns /\ "observer" # LoopOf[d]
  BY NoneAssumption, PlacementAssumption DEF OtherThreads
<1>7. \A x \in Msgs : v = u /\ x = k => Stage(2, x, u)
  <2>1. v = u => AtPush(s, k, u) # {}
    BY <1>2 DEF AtPush, Spots, Letter
  <2>. QED BY <2>1, StageIs
<1>8. ASSUME NEW x \in Msgs, OnTheWay(x, u)
      PROVE  /\ Still(2, x, u) /\ Still(6, x, u)
             /\ Stage(3, x, u)' => Stage(3, x, u) \/ (d # None /\ v = u /\ x = k)
  <2>1. Still(2, x, u)
    <3>1. \A t \in Servers : AtPush(t, x, u)' # {} => AtPush(t, x, u) # {}
      <4>. TAKE t \in Servers
      <4>1. CASE t = s
        <5>1. AtPush(s, x, u) = Spots(q, Letter(x, u)) /\ AtPush(s, x, u)' = Spots(Tail(q), Letter(x, u))
          BY <1>4 DEF AtPush, Spots, Letter
        <5>. QED BY <1>1, <4>1, <5>1, SpotsTaken
      <4>2. CASE t # s
        BY <1>4, <4>2 DEF AtPush
      <4>. QED BY <4>1, <4>2
    <3>. QED BY <3>1, StageIs, StageNext DEF Still
  <2>2. CASE d = None
    BY <1>3, <2>1, <2>2, StillUntouched DEF Still
  <2>3. CASE d # None
    <3>1. SendFrame("observer", d, MsgFrame(v, k)) /\ d \in Conns /\ "observer" # LoopOf[d] /\ TypeInv
      BY <1>0, <1>3, <1>6, <2>3
    <3>3. "observer" \in Loops \cup OtherThreads
      BY DEF OtherThreads
    <3>2. /\ Stage(3, x, u)' => Stage(3, x, u) \/ (v = u /\ x = k)
          /\ Stage(6, x, u)' => Stage(6, x, u)
      BY <3>1, <3>3, MessageFrom
    <3>. QED BY <2>1, <2>3, <3>2 DEF Still
  <2>. QED BY <2>2, <2>3
<1>. PICK a \in 0 .. 6 : a = 3
  OBVIOUS
<1>9. \A p \in 0 .. 6 \ {a} : Still(p, m, u) /\ Still(p, n, u)
  <2>. TAKE p \in 0 .. 6 \ {a}
  <2>1. p \in {0, 1, 2, 4, 5, 6}
    OBVIOUS
  <2>. QED BY <1>3, <1>8, <2>1, PairIs, StillUntouched
<1>10. Stage(a, m, u)' => \E r \in 0 .. a : Stage(r, m, u)
  <2>1. 2 \in 0 .. a /\ a \in 0 .. a
    OBVIOUS
  <2>. QED BY <1>7, <1>8, <2>1, PairIs
<1>11. Stage(a, n, u)' => Stage(a, n, u) \/ \A r \in 0 .. a - 1 : ~Stage(r, m, u)'
  <2>. SUFFICES ASSUME Stage(a, n, u)', ~Stage(a, n, u), NEW r \in 0 .. a - 1 PROVE ~Stage(r, m, u)'
    OBVIOUS
  <2>1. v = u /\ n = k /\ d # None
    BY <1>8, PairIs
  <2>2. Stage(2, n, u) /\ AtPush(s, n, u) # {}
    BY <1>2, <1>7, <2>1 DEF AtPush, Spots, Letter
  <2>3. ~Unsettled(u)
    BY <2>2, Flying, PairIs
  <2>4. \A t \in Servers : userConnMap[t][u] # None => t = s
    BY <1>0, <2>1, <2>3, OneEntry
  <2>5. ~Stage(0, m, u) /\ ~Stage(1, m, u)
    <3>1. 0 \in 0 .. 6 /\ 1 \in 0 .. 6 /\ 2 \in 0 .. 6 /\ ~(2 <= 0) /\ ~(2 <= 1)
      OBVIOUS
    <3>. QED BY <2>2, <3>1, PairIs
  <2>6. ~Stage(2, m, u)
    <3>. SUFFICES ASSUME NEW t \in Servers, AtPush(t, m, u) # {} PROVE FALSE
      BY StageIs
    <3>1. t = s
      BY <2>4, PairIs DEF OnTheWay
    <3>2. PICK i \in Spots(q, Letter(m, u)) : TRUE
      BY <3>1 DEF AtPush, Spots, Letter
    <3>3. i < 1
      BY <1>2, <2>1, <3>2, PairIs DEF InFront, Ahead
    <3>4. i \in 1 .. Len(q)
      BY <3>2 DEF Spots
    <3>. QED BY <3>3, <3>4
  <2>7. r \in {0, 1, 2} /\ r \in 0 .. 6 \ {a}
    OBVIOUS
  <2>. QED BY <1>9, <2>5, <2>6, <2>7 DEF Still
<1>12. NotOvertaken(m, n, u)'
  BY <1>9, <1>10, <1>11, PairIs, OneStage
<1>13. \/ UNCHANGED <<pending, toClient>>
       \/ \A c \in Conns : FramesAhead(pending'[c], m, n, u) /\ FramesAhead(toClient'[c], m, n, u)
  <2>1. Ahead(f.msgs, m, n)
    BY <1>5, AheadAlone, PairIs
  <2>2. Stage(2, m, u) => ~Stage(3, n, u)
    <3>1. 2 \in 0 .. 6 /\ 3 \in 0 .. 6 /\ ~(3 <= 2)
      OBVIOUS
    <3>. QED BY <3>1, PairIs
  <2>3. f.user = u /\ Spots(f.msgs, m) # {} /\ d # None => AtPending(d, n, u) = {}
    BY <1>5, <1>7, <2>2, StageIs
  <2>4. CASE d # None
    BY <1>0, <1>3, <1>6, <2>1, <2>3, <2>4, PairIs, FrameOrder
  <2>. QED BY <1>3, <2>4
<1>14. \A t \in Servers : Ahead(push'[t], Letter(m, u), Letter(n, u))
  <2>. TAKE t \in Servers
  <2>1. Ahead(push[t], Letter(m, u), Letter(n, u)) /\ Ahead(q, Letter(m, u), Letter(n, u))
    BY PairIs DEF InFront
  <2>2. Ahead(Tail(q), Letter(m, u), Letter(n, u))
    BY <1>1, <2>1, AheadTaken
  <2>. QED BY <1>4, <2>1, <2>2
<1>15. InFront(m, n, u)'
  BY <1>3, <1>13, <1>14, PairIs, InFrontNext
<1>. QED BY <1>12, <1>15 DEF InOrder

LEMMA RefuseOrder ==
  ASSUME NEW m \in Msgs, NEW n \in Msgs, NEW u \in Users, Pair(m, n, u), JobsKept, AnswersKept,
         NEW l \in Loops, LoginRefuse(l)
  PROVE  InOrder(m, n, u)
<1>0. TypeInv /\ JobOK(l, pc[l], job[l]) /\ pc[l] = "login"
  BY PairIs DEF LoginRefuse, TypeInv, JobsOK
<1>10. PICK c \in Conns, v \in Users : c = job[l].conn /\ v = job[l].user
  BY <1>0 DEF JobOK, LoginPcs
<1>. PICK f \in Frames : f = AckFrame("refused", v, <<>>)
  <2>1. <<>> \in Seq(Msgs)
    OBVIOUS
  <2>. QED BY <2>1, AckFrameType
<1>1. SendFrame(l, c, f) /\ f.msgs = <<>> /\ UNCHANGED <<push, offlineMessage>>
  BY <1>10 DEF LoginRefuse, AckFrame, redisVars, tableVars
<1>2. (\A x : Spots(f.msgs, x) = {}) /\ Ahead(f.msgs, m, n)
  BY <1>1, AheadEmpty
<1>3. ASSUME NEW x \in Msgs PROVE Still(3, x, u) /\ Still(6, x, u)
  <2>1. TypeInv /\ SendFrame(l, c, f) /\ Spots(f.msgs, x) = {}
    BY <1>0, <1>1, <1>2
  <2>2. (Stage(3, x, u)' => Stage(3, x, u)) /\ (Stage(6, x, u)' => Stage(6, x, u))
    BY <2>1, FrameStages
  <2>. QED BY <2>2 DEF Still
<1>4. \A q \in 0 .. 6 : Still(q, m, u) /\ Still(q, n, u)
  <2>. TAKE q \in 0 .. 6
  <2>1. q \in {0, 1, 2, 3, 4, 5, 6}
    OBVIOUS
  <2>. QED BY <1>1, <1>3, <2>1, PairIs, StillUntouched
<1>. PICK a \in 0 .. 6 : a = 0
  OBVIOUS
<1>5. Stage(a, m, u)' => \E r \in 0 .. a : Stage(r, m, u)
  BY <1>4 DEF Still
<1>6. Stage(a, n, u)' => Stage(a, n, u)
  BY <1>4 DEF Still
<1>7. NotOvertaken(m, n, u)'
  BY <1>4, <1>5, <1>6, PairIs, OneStage
<1>8. \A d \in Conns : FramesAhead(pending'[d], m, n, u) /\ FramesAhead(toClient'[d], m, n, u)
  BY <1>0, <1>1, <1>2, PairIs, FrameOrder
<1>9. InFront(m, n, u)'
  BY <1>1, <1>8, PairIs, InFrontNext
<1>. QED BY <1>7, <1>9 DEF InOrder

LEMMA AckOrder ==
  ASSUME NEW m \in Msgs, NEW n \in Msgs, NEW u \in Users, Pair(m, n, u), JobsKept, AnswersKept,
         NEW l \in Loops, LoginAck(l)
  PROVE  InOrder(m, n, u)
<1>0. TypeInv /\ MutexInv /\ OneLogin /\ JobOK(l, pc[l], job[l]) /\ job[l] \in Jobs /\ pc[l] = "loginAck"
  BY PairIs, Untyped DEF LoginAck, TypeInv, TypeOK, ThreadsTypeOK, JobsOK
<1>11. PICK c \in Conns, v \in Users : c = job[l].conn /\ v = job[l].user /\ LoopOf[c] = l
  BY <1>0 DEF JobOK, LoginPcs
<1>12. PICK ms \in Seq(Msgs) : ms = job[l].msgs
  BY <1>0 DEF Jobs
<1>13. PICK f \in Frames : f = AckFrame("ok", v, ms)
  BY AckFrameType
<1>1. SendFrame(l, c, f) /\ f.msgs = ms /\ f.user = v /\ UNCHANGED <<push, offlineMessage>>
  BY <1>11, <1>12, <1>13 DEF LoginAck, AckFrame, redisVars, tableVars
<1>2. pc'[l] = "idle"
  BY <1>0, Moving DEF LoginAck, Finish
<1>3. \A x : v = u /\ Spots(ms, x) # {} => Stage(5, x, u)
  <2>1. \A x : v = u => AtAnswer(l, x, u) = Spots(ms, x)
    BY <1>0, <1>11, <1>12 DEF AtAnswer, Spots
  <2>. QED BY <2>1, StageIs
<1>4. ASSUME NEW x \in Msgs
      PROVE  Still(3, x, u) /\ (Stage(6, x, u)' => Stage(6, x, u) \/ (v = u /\ Spots(ms, x) # {}))
  <2>1. TypeInv /\ SendFrame(l, c, f)
    BY <1>0, <1>1
  <2>2. /\ Stage(3, x, u)' => Stage(3, x, u) \/ (l # LoopOf[c] /\ f.user = u /\ Spots(f.msgs, x) # {})
        /\ Stage(6, x, u)' => Stage(6, x, u) \/ (l = LoopOf[c] /\ f.user = u /\ Spots(f.msgs, x) # {})
    BY <2>1, FrameStages
  <2>. QED BY <1>1, <1>11, <2>2 DEF Still
<1>. PICK a \in 0 .. 6 : a = 6
  OBVIOUS
<1>5. \A q \in 0 .. 6 \ {a} : Still(q, m, u) /\ Still(q, n, u)
  <2>. TAKE q \in 0 .. 6 \ {a}
  <2>1. q \in {0, 1, 2, 3, 4, 5}
    OBVIOUS
  <2>. QED BY <1>1, <1>4, <2>1, PairIs, StillUntouched
<1>6. Stage(a, m, u)' => \E r \in 0 .. a : Stage(r, m, u)
  <2>1. 5 \in 0 .. a /\ a \in 0 .. a
    OBVIOUS
  <2>. QED BY <1>3, <1>4, <2>1
<1>7. Stage(a, n, u)' => Stage(a, n, u) \/ \A r \in 0 .. a - 1 : ~Stage(r, m, u)'
  <2>. SUFFICES ASSUME Stage(a, n, u)', ~Stage(a, n, u), NEW r \in 0 .. a - 1 PROVE ~Stage(r, m, u)'
    OBVIOUS
  <2>1. v = u /\ Stage(5, n, u)
    BY <1>3, <1>4
  <2>2. ~Stage(5, m, u)'
    <3>. SUFFICES ASSUME NEW k \in Loops, AtAnswer(k, m, u)' # {} PROVE FALSE
      BY StageNext
    <3>1. pc'[k] = "loginAck" /\ job'[k].user = u
      BY DEF AtAnswer
    <3>2. pc[k] = "loginAck" /\ job[k].user = u /\ k # l
      BY <1>0, <1>2, <3>1, Moving DEF LoginAck, Finish
    <3>3. LoggingIn(k, u) /\ LoggingIn(l, u)
      BY <1>0, <1>11, <2>1, <3>2 DEF LoggingIn, LoginPcs
    <3>. QED BY <1>0, <3>2, <3>3 DEF OneLogin
  <2>3. CASE r # 5
    <3>1. r \in 0 .. 6 \ {a} /\ 5 \in 0 .. 6 /\ ~(5 <= r)
      BY <2>3
    <3>2. ~Stage(r, m, u)
      BY <2>1, <3>1, PairIs
    <3>. QED BY <1>5, <3>1, <3>2 DEF Still
  <2>. QED BY <2>2, <2>3
<1>8. NotOvertaken(m, n, u)'
  BY <1>5, <1>6, <1>7, PairIs, OneStage
<1>9. \A d \in Conns : FramesAhead(pending'[d], m, n, u) /\ FramesAhead(toClient'[d], m, n, u)
  <2>1. f.user = u => Ahead(f.msgs, m, n)
    BY <1>0, <1>1, <1>11, <1>12, PairIs DEF InFront
  <2>2. Stage(5, m, u) => ~Stage(6, n, u)
    <3>1. 5 \in 0 .. 6 /\ 6 \in 0 .. 6 /\ ~(6 <= 5)
      OBVIOUS
    <3>. QED BY <3>1, PairIs
  <2>3. f.user = u /\ Spots(f.msgs, m) # {} => AtSocket(c, n, u) = {}
    BY <1>1, <1>3, <2>2, StageIs
  <2>. QED BY <1>0, <1>1, <1>11, <2>1, <2>3, PairIs, FrameOrder
<1>10. InFront(m, n, u)'
  BY <1>1, <1>9, PairIs, InFrontNext
<1>. QED BY <1>8, <1>10 DEF InOrder

LEMMA FlushFrom ==
  ASSUME TypeInv, NEW l \in Loops, RunPendingFunctors(l), NEW c \in Conns, NEW x, NEW u
  PROVE  /\ AtPending(c, x, u)' # {} => AtPending(c, x, u) # {} /\ LoopOf[c] # l
         /\ AtSocket(c, x, u)' # {} => AtSocket(c, x, u) # {} \/ (LoopOf[c] = l /\ AtPending(c, x, u) # {})
<1>. PICK q, t \in Seq(Frames) : q = pending[c] /\ t = toClient[c]
  BY DEF TypeInv, TypeOK, NetTypeOK
<1>1. /\ AtPending(c, x, u) = Places(q, x, u) /\ AtSocket(c, x, u) = Places(t, x, u)
      /\ AtPending(c, x, u)' = Places(pending'[c], x, u) /\ AtSocket(c, x, u)' = Places(toClient'[c], x, u)
  BY DEF AtPending, AtSocket, Places
<1>2. Places(<<>>, x, u) = {}
  BY DEF Places
<1>3. Places(q, x, u) = {} => Places(t \o q, x, u) = Places(t, x, u)
  BY PlacesJoined
<1>4. CASE LoopOf[c] # l
  <2>1. pending'[c] = q /\ toClient'[c] = t
    BY <1>4 DEF RunPendingFunctors
  <2>. QED BY <1>1, <1>4, <2>1
<1>5. CASE LoopOf[c] = l
  <2>1. pending'[c] = <<>> /\ (toClient'[c] = t \/ toClient'[c] = t \o q)
    BY <1>5 DEF RunPendingFunctors
  <2>. QED BY <1>1, <1>2, <1>3, <1>5, <2>1
<1>. QED BY <1>4, <1>5

\* What a loop writes comes from one queue, and nothing sent before is behind.
LEMMA FlushClear ==
  ASSUME NEW m \in Msgs, NEW n \in Msgs, NEW u \in Users, Pair(m, n, u), NEW l \in Loops, pc[l] = "idle",
         NEW c \in Conns, LoopOf[c] = l, AtPending(c, n, u) # {}
  PROVE  /\ \A r \in {0, 1, 2, 4, 5} : ~Stage(r, m, u)
         /\ \A d \in Conns : AtPending(d, m, u) # {} => d = c
<1>. PICK s : s = ConnServer(c)
  OBVIOUS
<1>1. /\ BaseInv /\ TrailInv /\ s \in Servers /\ None \notin Conns /\ OnTheWay(m, u) /\ Apart(m, u)
      /\ userConnMap[s][u] = c /\ Stage(3, n, u)
  BY PairIs, PlacementAssumption, NoneAssumption, StageIs DEF OnTheWay, ConnServer
<1>2. ~Unsettled(u)
  BY Flying, PairIs
<1>3. userState[u] = "online" /\ \A t \in Servers : userConnMap[t][u] # None => t = s
  BY <1>1, <1>2, OneEntry
<1>4. ASSUME NEW k \in Loops, job[k].user = u, pc[k] \in {"loginReadOffline", "loginRemoveOffline", "loginAck"}
      PROVE  FALSE
  <2>1. k = l
    BY <1>1, <1>2, <1>4, LoginLoop
  <2>. QED BY <1>4, <2>1
<1>5. ~Stage(0, m, u) /\ ~Stage(1, m, u) /\ ~Stage(2, m, u)
  <2>1. 0 \in 0 .. 6 /\ 1 \in 0 .. 6 /\ 2 \in 0 .. 6 /\ 3 \in 0 .. 6 /\ ~(3 <= 0) /\ ~(3 <= 1) /\ ~(3 <= 2)
    OBVIOUS
  <2>. QED BY <1>1, <2>1, PairIs
<1>6. ~Stage(4, m, u)
  BY <1>1, <1>3, <1>4, StageIs DEF Apart, Collecting
<1>7. ~Stage(5, m, u)
  BY <1>4, StageIs DEF AtAnswer
<1>8. ASSUME NEW d \in Conns, AtPending(d, m, u) # {} PROVE d = c
  <2>1. ConnServer(d) \in Servers /\ userConnMap[ConnServer(d)][u] = d
    BY <1>1, <1>8, PlacementAssumption DEF OnTheWay, ConnServer
  <2>. QED BY <1>1, <1>3, <2>1
<1>. QED BY <1>5, <1>6, <1>7, <1>8

LEMMA FlushOrder ==
  ASSUME NEW m \in Msgs, NEW n \in Msgs, NEW u \in Users, Pair(m, n, u), JobsKept, AnswersKept,
         NEW l \in Loops, RunPendingFunctors(l)
  PROVE  InOrder(m, n, u)
<1>0. TypeInv /\ pc[l] = "idle" /\ UNCHANGED <<push, offlineMessage>>
  BY PairIs DEF RunPendingFunctors, redisVars, tableVars
<1>1. ASSUME NEW x \in Msgs, NEW c \in Conns
      PROVE  /\ AtPending(c, x, u)' # {} => AtPending(c, x, u) # {} /\ LoopOf[c] # l
             /\ AtSocket(c, x, u)' # {} => AtSocket(c, x, u) # {} \/ (LoopOf[c] = l /\ AtPending(c, x, u) # {})
  BY <1>0, FlushFrom
<1>2. ASSUME NEW x \in Msgs
      PROVE  /\ Still(3, x, u)
             /\ Stage(6, x, u)' => Stage(6, x, u) \/ \E c \in Conns : LoopOf[c] = l /\ AtPending(c, x, u) # {}
  BY <1>1, StageIs, StageNext DEF Still
<1>. PICK a \in 0 .. 6 : a = 6
  OBVIOUS
<1>3. \A q \in 0 .. 6 \ {a} : Still(q, m, u) /\ Still(q, n, u)
  <2>. TAKE q \in 0 .. 6 \ {a}
  <2>1. q \in {0, 1, 2, 3, 4, 5}
    OBVIOUS
  <2>. QED BY <1>0, <1>2, <2>1, PairIs, StillUntouched
<1>4. Stage(a, m, u)' => \E r \in 0 .. a : Stage(r, m, u)
  <2>1. 3 \in 0 .. a /\ a \in 0 .. a
    OBVIOUS
  <2>2. (\E c \in Conns : LoopOf[c] = l /\ AtPending(c, m, u) # {}) => Stage(3, m, u)
    BY StageIs
  <2>. QED BY <1>2, <2>1, <2>2
<1>5. Stage(a, n, u)' => Stage(a, n, u) \/ \A r \in 0 .. a - 1 : ~Stage(r, m, u)'
  <2>. SUFFICES ASSUME Stage(a, n, u)', ~Stage(a, n, u), NEW r \in 0 .. a - 1 PROVE ~Stage(r, m, u)'
    OBVIOUS
  <2>1. PICK c \in Conns : LoopOf[c] = l /\ AtPending(c, n, u) # {}
    BY <1>2
  <2>2. /\ \A p \in {0, 1, 2, 4, 5} : ~Stage(p, m, u)
        /\ \A d \in Conns : AtPending(d, m, u) # {} => d = c
    BY <1>0, <2>1, FlushClear
  <2>3. ~Stage(3, m, u)'
    BY <1>1, <2>1, <2>2, StageNext
  <2>4. r = 3 \/ r \in {0, 1, 2, 4, 5}
    OBVIOUS
  <2>5. CASE r # 3
    <3>1. ~Stage(r, m, u) /\ r \in 0 .. 6 \ {a}
      BY <2>2, <2>4, <2>5
    <3>. QED BY <1>3, <3>1 DEF Still
  <2>. QED BY <2>3, <2>5
<1>6. NotOvertaken(m, n, u)'
  BY <1>3, <1>4, <1>5, PairIs, OneStage
<1>7. ASSUME NEW c \in Conns
      PROVE  FramesAhead(pending'[c], m, n, u) /\ FramesAhead(toClient'[c], m, n, u)
  <2>. PICK q, t \in Seq(Frames) : q = pending[c] /\ t = toClient[c]
    BY <1>0 DEF TypeInv, TypeOK, NetTypeOK
  <2>1. FramesAhead(q, m, n, u) /\ FramesAhead(t, m, n, u)
    BY PairIs DEF InFront
  <2>2. /\ pending'[c] = q \/ pending'[c] = <<>>
        /\ toClient'[c] = t \/ toClient'[c] = t \o q
    BY DEF RunPendingFunctors
  <2>3. Places(q, m, u) # {} => Places(t, n, u) = {}
    <3>1. 3 \in 0 .. 6 /\ 6 \in 0 .. 6 /\ ~(6 <= 3)
      OBVIOUS
    <3>2. Stage(3, m, u) => ~Stage(6, n, u)
      BY <3>1, PairIs
    <3>. QED BY <3>2, StageIs DEF AtPending, AtSocket
  <2>4. FramesAhead(t \o q, m, n, u)
    BY <2>1, <2>3, FramesJoinedAhead
  <2>. QED BY <2>1, <2>2, <2>4, AheadEmpty
<1>8. InFront(m, n, u)'
  BY <1>0, <1>7, PairIs, InFrontNext
<1>. QED BY <1>6, <1>8 DEF InOrder

LEMMA RemoveOrder ==
  ASSUME NEW m \in Msgs, NEW n \in Msgs, NEW u \in Users, Pair(m, n, u), ~DBFaults, JobsKept,
         NEW l \in Loops, LoginRemoveOffline(l)
  PROVE  InOrder(m, n, u)
<1>0. MutexInv /\ TypeInv /\ pc[l] = "loginRemoveOffline" /\ job[l].user \in Users
  BY PairIs DEF TypeInv, LoginRemoveOffline, JobsOK, JobOK, LoginPcs
<1>1. /\ GotoWith(l, "loginAck", job[l]) /\ UNCHANGED <<push, pending, toClient>>
      /\ offlineMessage' = [offlineMessage EXCEPT ![job[l].user] = <<>>]
      /\ offlineMessage \in [Users -> Seq(Msgs)]
  <2>1. Goto(l, "loginAck") /\ UNCHANGED <<push, pending, toClient>> /\ OfflineRemove(job[l].user)
    BY DEF LoginRemoveOffline, redisVars, netVars
  <2>2. GotoWith(l, "loginAck", job[l])
    BY <1>0, <2>1, GotoIsGotoWith
  <2>. QED BY <1>0, <2>1, <2>2 DEF OfflineRemove, TypeInv, TypeOK, TablesTypeOK
<1>2. /\ pc'[l] = "loginAck" /\ job'[l] = job[l]
      /\ \A k \in Loops : k # l => pc'[k] = pc[k] /\ job'[k] = job[k]
  BY <1>0, <1>1, Moving
<1>3. /\ job[l].user = u => offlineMessage'[u] = <<>>
      /\ job[l].user # u => offlineMessage'[u] = offlineMessage[u]
  BY <1>1
<1>4. ASSUME NEW x \in {m, n}, job[l].user = u PROVE AtTable(x, u) = Spots(job[l].msgs, x)
  <2>1. ReadAll(x, u)
    BY DEF Pair, Ready, Tracked
  <2>. QED BY <1>0, <1>4, <2>1 DEF ReadAll, Spots
<1>5. job[l].user = u => AtTable(m, u)' = {} /\ AtTable(n, u)' = {}
  BY <1>3, AheadEmpty DEF AtTable, Spots
<1>6. ASSUME NEW x \in {m, n}
      PROVE  /\ Still(4, x, u)
             /\ Stage(5, x, u)' => Stage(5, x, u) \/ (job[l].user = u /\ Stage(4, x, u))
  <2>1. Still(4, x, u)
    <3>1. AtTable(x, u)' = AtTable(x, u) \/ AtTable(x, u)' = {}
      BY <1>3, <1>5 DEF AtTable
    <3>. QED BY <3>1, StageIs, StageNext DEF Still
  <2>2. ASSUME NEW k \in Loops, AtAnswer(k, x, u)' # {}, k # l PROVE AtAnswer(k, x, u) # {}
    <3>1. pc'[k] = pc[k] /\ job'[k] = job[k]
      BY <1>2, <2>2
    <3>. QED BY <2>2, <3>1 DEF AtAnswer
  <2>3. ASSUME AtAnswer(l, x, u)' # {} PROVE job[l].user = u /\ AtTable(x, u) # {}
    <3>1. job[l].user = u /\ Spots(job[l].msgs, x) # {}
      BY <1>2, <2>3 DEF AtAnswer, Spots
    <3>. QED BY <1>4, <3>1
  <2>. QED BY <2>1, <2>2, <2>3, StageIs, StageNext
<1>. PICK a \in 0 .. 6 : a = 5
  OBVIOUS
<1>7. \A q \in 0 .. 6 \ {a} : Still(q, m, u) /\ Still(q, n, u)
  <2>. TAKE q \in 0 .. 6 \ {a}
  <2>1. q \in {0, 1, 2, 3, 4, 6}
    OBVIOUS
  <2>. QED BY <1>1, <1>6, <2>1, PairIs, StillUntouched
<1>8. Stage(a, m, u)' => \E r \in 0 .. a : Stage(r, m, u)
  <2>1. 4 \in 0 .. a /\ a \in 0 .. a
    OBVIOUS
  <2>. QED BY <1>6, <2>1
<1>9. Stage(a, n, u)' => Stage(a, n, u) \/ \A r \in 0 .. a - 1 : ~Stage(r, m, u)'
  <2>. SUFFICES ASSUME Stage(a, n, u)', ~Stage(a, n, u), NEW r \in 0 .. a - 1 PROVE ~Stage(r, m, u)'
    OBVIOUS
  <2>1. job[l].user = u /\ Stage(4, n, u)
    BY <1>6
  <2>2. ~Stage(4, m, u)'
    BY <1>5, <2>1, StageNext
  <2>3. CASE r # 4
    <3>1. r \in 0 .. 6 \ {a} /\ 4 \in 0 .. 6 /\ ~(4 <= r)
      BY <2>3
    <3>2. ~Stage(r, m, u)
      BY <2>1, <3>1, PairIs
    <3>. QED BY <1>7, <3>1, <3>2 DEF Still
  <2>. QED BY <2>2, <2>3
<1>10. NotOvertaken(m, n, u)'
  BY <1>7, <1>8, <1>9, PairIs, OneStage
<1>11. Ahead(offlineMessage[u], m, n) /\ \A k \in Loops : pc[k] = "loginAck" /\ job[k].user = u => Ahead(job[k].msgs, m, n)
  BY PairIs DEF InFront
<1>12. offlineMessage'[u] = offlineMessage[u] \/ Ahead(offlineMessage'[u], m, n)
  BY <1>3, AheadEmpty
<1>13. ASSUME NEW k \in Loops, pc'[k] = "loginAck", job'[k].user = u PROVE Ahead(job'[k].msgs, m, n)
  <2>1. CASE k # l
    BY <1>2, <1>11, <1>13, <2>1
  <2>2. CASE k = l
    <3>. PICK q : q = job[l].msgs
      OBVIOUS
    <3>1. AtTable(m, u) = Spots(q, m) /\ AtTable(n, u) = Spots(q, n)
      BY <1>2, <1>4, <1>13, <2>2
    <3>2. Ahead(q, m, n)
      BY <1>11, <3>1 DEF Ahead, AtTable, Spots
    <3>. QED BY <1>2, <2>2, <3>2
  <2>. QED BY <2>1, <2>2
<1>14. InFront(m, n, u)'
  BY <1>1, <1>12, <1>13, PairIs, InFrontNext
<1>. QED BY <1>10, <1>14 DEF InOrder

\* Every step keeps the order of two messages that are both on their way.
LEMMA PairStep ==
  ASSUME ~DBFaults, StopKinds = {}, [Next]_vars, NEW m \in Msgs, NEW n \in Msgs, NEW u \in Users, Pair(m, n, u)
  PROVE  InOrder(m, n, u)
<1>1. Carriage
  BY PairIs, Carriages
<1>2. ASSUME JobsKept, AnswersKept, NEW l \in Loops, Carries(l) PROVE InOrder(m, n, u)
  <2>1. ASSUME NEW k \in Msgs, NEW v \in Users, NEW d \in Conns, Hands(l, k, v, d) PROVE InOrder(m, n, u)
    BY <1>2, <2>1, HandsOrder
  <2>2. ASSUME NEW k \in Msgs, NEW v \in Users, Announces(l, k, v) PROVE InOrder(m, n, u)
    BY <1>2, <2>2, AnnounceOrder
  <2>3. ASSUME NEW k \in Msgs, NEW v \in Users, Stores(k, v) PROVE InOrder(m, n, u)
    BY <1>2, <2>3, StoreOrder
  <2>4. CASE LoginRefuse(l)
    BY <1>2, <2>4, RefuseOrder
  <2>5. CASE LoginAck(l)
    BY <1>2, <2>5, AckOrder
  <2>6. CASE RunPendingFunctors(l)
    BY <1>2, <2>6, FlushOrder
  <2>. QED BY <1>2, <2>1, <2>2, <2>3, <2>4, <2>5, <2>6 DEF Carries
<1>3. ASSUME JobsKept, AnswersKept, NEW k \in Msgs, NEW v \in Users, Stores(k, v) PROVE InOrder(m, n, u)
  BY <1>3, StoreOrder
<1>4. ASSUME JobsKept, AnswersKept, NEW s \in Servers, ObserverForward(s) PROVE InOrder(m, n, u)
  BY <1>4, ForwardOrder
<1>5. ASSUME JobsKept, AnswersKept, CarriersRest PROVE InOrder(m, n, u)
  BY <1>5, RestOrder
<1>6. ASSUME JobsKept, NEW l \in Loops, LoginRemoveOffline(l) PROVE InOrder(m, n, u)
  BY <1>6, RemoveOrder
<1>7. ASSUME NEW l \in Loops, NEW c \in Conns, OnMessage(l, c) PROVE InOrder(m, n, u)
  BY <1>7, TakeOrder
<1>. QED BY <1>1, <1>2, <1>3, <1>4, <1>5, <1>6, <1>7 DEF Carriage

-----------------------------------------------------------------------------
(***************************************************************************)
(* The ways stay apart.                                                    *)
(***************************************************************************)
\* A handler decides for a way only when it has not found the entry.
LEMMA ChatElsewhere ==
  ASSUME BaseInv, NEW l \in Loops, OneChatStep(l) \/ GroupChatStep(l),
         NEW m \in Msgs, NEW u \in Users, Elsewhere(l, m, u)'
  PROVE  HandledFor(l, m, u) /\ (Elsewhere(l, m, u) \/ userConnMap[ServerOf[l]][u] = None)
<1>0. MutexInv /\ job[l] \in Jobs
  BY Untyped DEF TypeInv, TypeOK, ThreadsTypeOK
<1>1. pc'[l] \in ElsewherePcs /\ job'[l].msg = m /\ job'[l].user = u
  BY DEF Elsewhere
<1>2. ASSUME NEW next, next \in {"idle", "groupLock", "groupNext"}, NEW j, GotoWith(l, next, j) PROVE FALSE
  BY <1>0, <1>1, <1>2, Moving DEF ElsewherePcs
<1>3. ASSUME NEW next \in ElsewherePcs, Goto(l, next) PROVE job[l].msg = m /\ job[l].user = u
  <2>1. GotoWith(l, next, job[l])
    BY <1>0, <1>3, GotoIsGotoWith
  <2>. QED BY <1>0, <1>1, <2>1, Moving
<1>4. CASE OneChatFind(l)
  <2>1. Goto(l, "oneChatQuery") /\ userConnMap[ServerOf[l]][job[l].user] = None /\ pc[l] = "oneChat"
    BY <1>2, <1>4 DEF OneChatFind, Finish
  <2>. QED BY <1>3, <2>1 DEF ElsewherePcs, HandledFor, OneChatPcs
<1>5. CASE OneChatQuery(l)
  <2>1. pc[l] = "oneChatQuery" /\ \E next \in ElsewherePcs : Goto(l, next)
    BY <1>5 DEF OneChatQuery, ElsewherePcs
  <2>. QED BY <1>3, <2>1 DEF Elsewhere, ElsewherePcs, HandledFor, OneChatPcs
<1>6. CASE OneChatPublish(l) \/ OneChatStore(l)
  BY <1>2, <1>6 DEF OneChatPublish, OneChatStore, Finish
<1>7. ASSUME NEW next \in {"groupLock", "groupNext"}, Goto(l, next) PROVE FALSE
  <2>1. GotoWith(l, next, job[l])
    BY <1>0, <1>7, GotoIsGotoWith
  <2>. QED BY <1>2, <2>1
<1>8. CASE GroupChatQuery(l) \/ GroupChatLock(l) \/ (\E v \in Users : GroupChatSend(l, v)) \/ GroupChatEnd(l)
  BY <1>2, <1>7, <1>8 DEF GroupChatQuery, GroupChatLock, GroupChatSend, GroupChatEnd, Finish
<1>9. CASE GroupChatPublish(l) \/ GroupChatStore(l)
  BY <1>7, <1>9 DEF GroupChatPublish, GroupChatStore
<1>10. ASSUME NEW v \in Users, GroupChatAbsent(l, v)
       PROVE  HandledFor(l, m, u) /\ userConnMap[ServerOf[l]][u] = None
  <2>1. PICK next : GotoWith(l, next, [Without(job[l], v) EXCEPT !.user = v])
    BY <1>10 DEF GroupChatAbsent
  <2>2. job'[l] = [Without(job[l], v) EXCEPT !.user = v]
    BY <1>0, <2>1, Moving
  <2>3. job[l].msg = m /\ v = u
    BY <1>0, <1>1, <2>2 DEF Without, Jobs
  <2>. QED BY <1>10, <2>3 DEF GroupChatAbsent, HandledFor, GroupChatPcs
<1>. QED BY <1>4, <1>5, <1>6, <1>8, <1>9, <1>10 DEF OneChatStep, GroupChatStep

\* The other handlers do not carry messages, nor does the beginning of one.
LEMMA OtherHandlers ==
  ASSUME BaseInv, NEW l \in Loops, LoginStep(l) \/ CloseStep(l) \/ Dispatch(l)
  PROVE  pc'[l] \notin ElsewherePcs \/ (pc'[l] = pc[l] /\ job'[l] = job[l])
<1>0. MutexInv /\ TypeInv
  BY Untyped
<1>1. ASSUME NEW next \in LoginPcs \cup ClosePcs \cup {"idle", "oneChat", "groupChat"}, NEW j, GotoWith(l, next, j)
      PROVE  pc'[l] \notin ElsewherePcs
  BY <1>0, <1>1, Moving DEF ElsewherePcs, LoginPcs, ClosePcs
<1>2. ASSUME NEW next \in LoginPcs \cup ClosePcs, Goto(l, next) PROVE pc'[l] \notin ElsewherePcs
  <2>1. GotoWith(l, next, job[l])
    BY <1>0, <1>2, GotoIsGotoWith
  <2>. QED BY <1>1, <2>1
<1>3. CASE LoginStep(l)
  <2>1. \E next \in LoginPcs \cup ClosePcs \cup {"idle", "oneChat", "groupChat"} :
          \/ next \in LoginPcs \cup ClosePcs /\ Goto(l, next)
          \/ \E j : GotoWith(l, next, j)
    BY <1>3 DEF LoginStep, LoginRefuse, LoginAccept, LoginInsert, LoginSubscribe, LoginOnline, LoginReadOffline,
       LoginRemoveOffline, LoginAck, Finish, LoginPcs
  <2>. QED BY <1>1, <1>2, <2>1
<1>4. CASE CloseStep(l)
  <2>1. \E next \in LoginPcs \cup ClosePcs \cup {"idle", "oneChat", "groupChat"} :
          \/ next \in LoginPcs \cup ClosePcs /\ Goto(l, next)
          \/ \E j : GotoWith(l, next, j)
    BY <1>4 DEF CloseStep, CloseFind, CloseNothing, CloseUnsubscribe, CloseOffline, CloseErase, Finish, ClosePcs
  <2>. QED BY <1>1, <1>2, <2>1
<1>5. CASE RunPendingFunctors(l)
  BY <1>5 DEF RunPendingFunctors, threadVars
<1>6. ASSUME NEW c \in Conns, OnClose(l, c) PROVE pc'[l] \notin ElsewherePcs
  BY <1>1, <1>6 DEF OnClose, ClosePcs
<1>7. ASSUME NEW c \in Conns, OnMessage(l, c) PROVE pc'[l] \notin ElsewherePcs
  <2>1. request[c] \in Requests /\ request[c].kind # "none"
    BY <1>0, <1>7 DEF OnMessage, TypeInv, TypeOK, TerminalsTypeOK, RequestsOK
  <2>2. HandlerOf[request[c].kind] \in LoginPcs \cup ClosePcs \cup {"idle", "oneChat", "groupChat"}
    BY <2>1 DEF Requests, HandlerOf, LoginPcs, ClosePcs
  <2>. QED BY <1>1, <1>7, <2>2 DEF OnMessage
<1>. QED BY <1>3, <1>4, <1>5, <1>6, <1>7 DEF Dispatch

\* What one thread does leaves the others where they are.
LEMMA OneThread ==
  ASSUME MutexInv, NEW l \in Loops, Dispatch(l) \/ Handle(l), NEW k \in Loops, k # l
  PROVE  pc'[k] = pc[k] /\ job'[k] = job[k]
<1>1. CASE \E next, j : GotoWith(l, next, j)
  BY <1>1, Moving
<1>2. CASE \E next : Goto(l, next)
  BY <1>1, <1>2, GotoIsGotoWith
<1>3. CASE RunPendingFunctors(l)
  BY <1>3 DEF RunPendingFunctors, threadVars
<1>. QED BY <1>1, <1>2, <1>3, ThreadShape
     DEF QuietMove, LoginInsert, LoginSubscribe, LoginOnline, CloseUnsubscribe, CloseOffline, CloseErase, Finish

\* Every step of the system is one of these for the threads.
LEMMA ThreadSteps ==
  ASSUME BaseInv, StopKinds = {}, [Next]_vars
  PROVE  UNCHANGED <<pc, job>> \/ \E l \in Loops : Dispatch(l) \/ Handle(l)
<1>1. \A c \in Conns : Accept(c) \/ Terminal(c) \/ (\E u \in Users : Login(c, u)) => UNCHANGED <<pc, job>>
  BY TerminalsAside
<1>2. \A s \in Servers : Observe(s) \/ Redis(s) \/ Start(s) => UNCHANGED <<pc, job>>
  BY OthersAside
<1>3. \A s \in Servers : ~Sigint(s) /\ ~Reset(s) /\ ~Crash(s)
  BY Untyped, SignalFree DEF Crash
<1>4. UNCHANGED vars => UNCHANGED <<pc, job>>
  BY DEF vars, threadVars
<1>. QED BY <1>1, <1>2, <1>3, <1>4 DEF Next

LEMMA ElsewhereBefore ==
  ASSUME BaseInv, StopKinds = {}, [Next]_vars, NEW l \in Loops, NEW m \in Msgs, NEW u \in Users, Elsewhere(l, m, u)'
  PROVE  HandledFor(l, m, u) /\ (Elsewhere(l, m, u) \/ userConnMap[ServerOf[l]][u] = None)
<1>1. ASSUME pc'[l] = pc[l], job'[l] = job[l] PROVE HandledFor(l, m, u) /\ Elsewhere(l, m, u)
  <2>1. Elsewhere(l, m, u)
    BY <1>1 DEF Elsewhere
  <2>. QED BY <2>1 DEF Elsewhere, ElsewherePcs, HandledFor, OneChatPcs
<1>2. ASSUME NEW k \in Loops, Dispatch(k) \/ Handle(k), k # l PROVE HandledFor(l, m, u) /\ Elsewhere(l, m, u)
  BY <1>1, <1>2, OneThread, Untyped
<1>3. ASSUME LoginStep(l) \/ CloseStep(l) \/ Dispatch(l) PROVE HandledFor(l, m, u) /\ Elsewhere(l, m, u)
  BY <1>1, <1>3, OtherHandlers DEF Elsewhere
<1>. QED BY <1>1, <1>2, <1>3, ThreadSteps, ChatElsewhere DEF Handle


LEMMA SentFromBefore ==
  ASSUME Grows, SentOnce', NEW m, NEW c, WasSent(m), SentFrom(m, c)'
  PROVE  SentFrom(m, c)
<1>1. PICK i \in DOMAIN sent : sent[i].msg = m
  BY DEF WasSent
<1>2. PICK j \in DOMAIN sent' : sent'[j].msg = m /\ sent'[j].conn = c
  BY DEF SentFrom
<1>3. i \in DOMAIN sent' /\ sent'[i] = sent[i]
  BY DEF Grows
<1>4. i = j
  BY <1>1, <1>2, <1>3 DEF SentOnce
<1>. QED BY <1>1, <1>2, <1>3, <1>4 DEF SentFrom

\* Into Redis comes only what a handler publishes.
LEMMA PushFrom ==
  ASSUME TypeInv, Carriage, NEW m \in Msgs, NEW u \in Users, NEW s \in Servers, AtPush(s, m, u)' # {}
  PROVE  AtPush(s, m, u) # {} \/ \E l \in Loops : pc[l] \in Publishing /\ job[l].msg = m /\ job[l].user = u
<1>1. UNCHANGED push => AtPush(s, m, u)' = AtPush(s, m, u)
  BY DEF AtPush
<1>2. ASSUME NEW l \in Loops, NEW k \in Msgs, NEW v \in Users, Announces(l, k, v)
      PROVE  AtPush(s, m, u)' = AtPush(s, m, u) \/ (pc[l] \in Publishing /\ job[l].msg = m /\ job[l].user = u)
  <2>1. CASE k # m \/ v # u
    BY <1>2, <2>1, OtherPublished DEF Announces
  <2>2. CASE k = m /\ v = u
    BY <1>2, <2>2 DEF Announces
  <2>. QED BY <2>1, <2>2
<1>3. ASSUME NEW t \in Servers, ObserverForward(t) PROVE AtPush(s, m, u) # {}
  <2>1. push \in [Servers -> Seq(Letters)]
    BY DEF TypeInv, TypeOK, RedisTypeOK
  <2>. PICK q \in Seq(Letters) : q = push[t]
    BY <2>1
  <2>2. q # <<>> /\ push' = [push EXCEPT ![t] = Tail(q)]
    BY <1>3 DEF ObserverForward, ReadReply
  <2>3. AtPush(s, m, u) = Spots(push[s], Letter(m, u)) /\ AtPush(s, m, u)' = Spots(push'[s], Letter(m, u))
    BY DEF AtPush, Spots, Letter
  <2>4. CASE s = t
    <3>1. push'[s] = Tail(q)
      BY <2>1, <2>2, <2>4
    <3>. QED BY <2>2, <2>3, <2>4, <3>1, SpotsTaken
  <2>5. CASE s # t
    <3>1. push'[s] = push[s]
      BY <2>1, <2>2, <2>5
    <3>. QED BY <2>3, <3>1
  <2>. QED BY <2>4, <2>5
<1>4. ASSUME NEW l \in Loops, LoginRefuse(l) \/ LoginAck(l) \/ RunPendingFunctors(l) \/ LoginRemoveOffline(l)
      PROVE  UNCHANGED push
  BY <1>4 DEF LoginRefuse, LoginAck, RunPendingFunctors, LoginRemoveOffline, redisVars
<1>5. ASSUME NEW l \in Loops, NEW c \in Conns, OnMessage(l, c) PROVE UNCHANGED push
  BY <1>5 DEF OnMessage, redisVars
<1>6. \A k \in Msgs, v \in Users : Stores(k, v) => UNCHANGED push
  BY DEF Stores
<1>7. \A l \in Loops, k \in Msgs, v \in Users, d \in Conns : Hands(l, k, v, d) => UNCHANGED push
  BY DEF Hands
<1>8. CarriersRest => UNCHANGED push
  BY DEF CarriersRest
<1>. QED BY <1>1, <1>2, <1>3, <1>4, <1>5, <1>6, <1>7, <1>8 DEF Carriage, Carries

\* Into the queue of a loop comes only what another thread sends.
LEMMA PendingFrom ==
  ASSUME TypeInv, Carriage, NEW m \in Msgs, NEW u \in Users, NEW d \in Conns, AtPending(d, m, u)' # {}
  PROVE  \/ AtPending(d, m, u) # {}
         \/ \E l \in Loops : HandledFor(l, m, u) /\ l # LoopOf[d]
         \/ \E s \in Servers : AtPush(s, m, u) # {} /\ userConnMap[s][u] = d
<1>1. UNCHANGED pending => AtPending(d, m, u)' = AtPending(d, m, u)
  BY DEF AtPending, Places
<1>2. ASSUME NEW t, NEW c \in Conns, NEW k \in Msgs, NEW v \in Users, SendFrame(t, c, MsgFrame(v, k)),
             AtPending(d, m, u) = {}
      PROVE  t # LoopOf[c] /\ c = d /\ k = m /\ v = u
  <2>. PICK f \in Frames : f = MsgFrame(v, k)
    BY MessageSpots
  <2>1. SendFrame(t, c, f)
    BY <1>2
  <2>2. t # LoopOf[c] /\ d = c /\ f.user = u /\ Spots(f.msgs, m) # {}
    BY <1>2, <2>1, FrameFrom
  <2>3. f.user = v /\ (k # m => Spots(f.msgs, m) = {})
    BY MessageSpots
  <2>. QED BY <2>2, <2>3
<1>3. ASSUME NEW l \in Loops, NEW k \in Msgs, NEW v \in Users, NEW c \in Conns, Hands(l, k, v, c),
             AtPending(d, m, u) = {}
      PROVE  HandledFor(l, m, u) /\ l # LoopOf[d]
  <2>1. SendFrame(l, c, MsgFrame(v, k)) /\ HandledFor(l, k, v)
    BY <1>3 DEF Hands
  <2>2. l # LoopOf[c] /\ c = d /\ k = m /\ v = u
    BY <1>2, <1>3, <2>1
  <2>. QED BY <2>1, <2>2
<1>4. ASSUME NEW s \in Servers, ObserverForward(s), AtPending(d, m, u) = {}
      PROVE  AtPush(s, m, u) # {} /\ userConnMap[s][u] = d
  <2>1. /\ push \in [Servers -> Seq(Letters)] /\ userConnMap \in [Servers -> [Users -> Conns \cup {None}]]
    BY DEF TypeInv, TypeOK, RedisTypeOK, SessionsTypeOK
  <2>. PICK q \in Seq(Letters) : q = push[s]
    BY <2>1
  <2>2. q # <<>>
    BY <1>4 DEF ObserverForward
  <2>. PICK e \in Letters : e = Head(q)
    BY <2>2
  <2>. PICK v \in Users, k \in Msgs : v = e.channel /\ k = e.msg
    BY DEF Letters
  <2>3. userConnMap[s][v] # None /\ SendFrame("observer", userConnMap[s][v], MsgFrame(v, k))
    BY <1>1, <1>4 DEF ObserverForward, netVars
  <2>. PICK c \in Conns : c = userConnMap[s][v]
    BY <2>1, <2>3
  <2>4. c = d /\ k = m /\ v = u
    BY <1>2, <1>4, <2>3
  <2>5. 1 \in Spots(q, e) /\ e = Letter(k, v)
    <3>1. 1 \in DOMAIN q /\ q[1] = e
      BY <2>2
    <3>. QED BY <3>1 DEF Letters, Letter, Spots
  <2>6. AtPush(s, m, u) # {}
    BY <2>4, <2>5 DEF AtPush, Spots, Letter
  <2>. QED BY <2>4, <2>6
<1>5. ASSUME NEW l \in Loops, LoginRefuse(l) \/ LoginAck(l) PROVE UNCHANGED pending
  <2>1. JobOK(l, pc[l], job[l])
    BY DEF TypeInv, JobsOK
  <2>2. LoopOf[job[l].conn] = l
    BY <1>5, <2>1 DEF JobOK, LoginPcs, LoginRefuse, LoginAck
  <2>. QED BY <1>5, <2>2 DEF LoginRefuse, LoginAck, SendFrame
<1>6. ASSUME NEW l \in Loops, RunPendingFunctors(l) PROVE AtPending(d, m, u) # {}
  BY <1>6, FlushFrom
<1>7. ASSUME NEW l \in Loops, LoginRemoveOffline(l) \/ \E c \in Conns : OnMessage(l, c) PROVE UNCHANGED pending
  BY <1>7 DEF LoginRemoveOffline, OnMessage, netVars
<1>8. \A l \in Loops, k \in Msgs, v \in Users : Stores(k, v) \/ Announces(l, k, v) => UNCHANGED pending
  BY DEF Stores, Announces
<1>9. CarriersRest => UNCHANGED pending
  BY DEF CarriersRest
<1>. SUFFICES ASSUME AtPending(d, m, u) = {}
              PROVE  \/ \E l \in Loops : HandledFor(l, m, u) /\ l # LoopOf[d]
                     \/ \E s \in Servers : AtPush(s, m, u) # {} /\ userConnMap[s][u] = d
  OBVIOUS
<1>10. ASSUME NEW l \in Loops, Carries(l) PROVE \E k \in Loops : HandledFor(k, m, u) /\ k # LoopOf[d]
  BY <1>1, <1>3, <1>5, <1>6, <1>8, <1>10 DEF Carries
<1>11. ~UNCHANGED pending
  BY <1>1
<1>12. \A k \in Msgs, v \in Users : Stores(k, v) => UNCHANGED pending
  BY DEF Stores
<1>. QED BY <1>4, <1>7, <1>9, <1>10, <1>11, <1>12 DEF Carriage


\* What is in the table of an account that comes online is collected.
LEMMA ComesOnline ==
  ASSUME BaseInv, StopKinds = {}, [Next]_vars, NEW u \in Users, userState[u] # "online", userState'[u] = "online"
  PROVE  \E l \in Loops : Collecting(l, u)'
<1>0. MutexInv /\ TypeInv /\ userState \in [Users -> {"online", "offline"}]
  BY Untyped DEF TypeInv, TypeOK, TablesTypeOK
<1>1. ~UNCHANGED userState
  OBVIOUS
<1>2. ASSUME NEW l \in Loops, Dispatch(l) \/ Handle(l) PROVE Collecting(l, u)'
  <2>1. CASE LoginOnline(l)
    <3>1. userState' = [userState EXCEPT ![job[l].user] = "online"] /\ GotoWith(l, "loginReadOffline", job[l])
      BY <1>0, <1>1, <2>1, GotoIsGotoWith DEF LoginOnline, UserUpdateState
    <3>2. job[l].user = u
      BY <1>0, <3>1
    <3>3. pc'[l] = "loginReadOffline" /\ job'[l].user = u
      BY <1>0, <3>1, <3>2, Moving
    <3>. QED BY <3>3 DEF Collecting
  <2>2. CASE CloseOffline(l)
    <3>1. userState' = [userState EXCEPT ![job[l].user] = "offline"]
      BY <1>1, <2>2 DEF CloseOffline, UserUpdateState
    <3>. QED BY <1>0, <3>1
  <2>3. CASE LoginInsert(l) \/ LoginSubscribe(l) \/ CloseUnsubscribe(l) \/ CloseErase(l) \/ RunPendingFunctors(l)
    BY <1>1, <2>3 DEF LoginInsert, LoginSubscribe, CloseUnsubscribe, CloseErase, RunPendingFunctors, tableVars
  <2>4. CASE \E next, j : QuietMove(l, next, j)
    BY <1>1, <2>4 DEF QuietMove
  <2>. QED BY <1>0, <1>2, <2>1, <2>2, <2>3, <2>4, ThreadShape
<1>3. \A c \in Conns : ~(Accept(c) \/ Terminal(c) \/ \E v \in Users : Login(c, v))
  BY <1>1, TerminalsAside
<1>4. \A s \in Servers : ~(Observe(s) \/ Redis(s) \/ Start(s))
  BY <1>1, OthersAside
<1>5. \A s \in Servers : ~Sigint(s) /\ ~Reset(s) /\ ~Crash(s)
  BY Untyped, SignalFree DEF Crash
<1>6. ~UNCHANGED vars
  BY <1>1 DEF vars, tableVars
<1>. QED BY <1>2, <1>3, <1>4, <1>5, <1>6 DEF Next

\* A login takes what it finds.
LEMMA Collects ==
  ASSUME BaseInv, StopKinds = {}, ~DBFaults, [Next]_vars, NEW m \in Msgs, NEW u \in Users,
         AtTable(m, u) # {}, AtTable(m, u)' # {}, NEW l \in Loops, Collecting(l, u)
  PROVE  Collecting(l, u)'
<1>0. MutexInv /\ TypeInv /\ job[l] \in Jobs /\ offlineMessage \in [Users -> Seq(Msgs)]
  BY Untyped DEF TypeInv, TypeOK, ThreadsTypeOK, TablesTypeOK
<1>1. CASE pc'[l] = pc[l] /\ job'[l] = job[l]
  BY <1>1 DEF Collecting
<1>2. ASSUME Dispatch(l) \/ Handle(l), ~LoginReadOffline(l), ~LoginRemoveOffline(l) PROVE FALSE
  <2>1. pc[l] \notin ClosePcs \cup OneChatPcs \cup GroupChatPcs \cup {"idle"}
    BY DEF Collecting, ClosePcs, OneChatPcs, GroupChatPcs
  <2>2. ~Dispatch(l)
    BY <2>1 DEF Dispatch, OnMessage, OnClose, RunPendingFunctors
  <2>3. ~CloseStep(l)
    BY <2>1 DEF CloseStep, CloseFind, CloseNothing, CloseUnsubscribe, CloseOffline, CloseErase, ClosePcs
  <2>4. ~OneChatStep(l) /\ ~GroupChatStep(l)
    BY <2>1
       DEF OneChatStep, OneChatFind, OneChatQuery, OneChatPublish, OneChatStore, OneChatPcs, GroupChatStep, GroupChatQuery,
           GroupChatLock, GroupChatSend, GroupChatAbsent, GroupChatPublish, GroupChatStore, GroupChatEnd, GroupChatPcs
  <2>5. ~LoginStep(l)
    BY <1>2 DEF LoginStep, LoginRefuse, LoginAccept, LoginInsert, LoginSubscribe, LoginOnline, LoginAck, Collecting
  <2>. QED BY <1>2, <2>2, <2>3, <2>4, <2>5 DEF Handle
<1>3. CASE LoginReadOffline(l)
  <2>1. job[l].user = u /\ OfflineQuery(u) = {offlineMessage[u]}
    BY DEF Collecting, OfflineQuery
  <2>5. PICK rows : rows = offlineMessage[u]
    OBVIOUS
  <2>2. rows # <<>>
    <3>1. DOMAIN rows # {}
      BY <2>5 DEF AtTable
    <3>2. rows = <<>> => DOMAIN rows = {}
      OBVIOUS
    <3>. QED BY <3>1, <3>2
  <2>6. PICK j : j = [job[l] EXCEPT !.msgs = rows]
    OBVIOUS
  <2>3. GotoWith(l, "loginRemoveOffline", j) /\ j.user = u
    BY <1>0, <1>3, <2>1, <2>2, <2>5, <2>6 DEF LoginReadOffline, Jobs
  <2>4. pc'[l] = "loginRemoveOffline" /\ job'[l].user = u
    BY <1>0, <2>3, Moving
  <2>. QED BY <2>4 DEF Collecting
<1>4. CASE LoginRemoveOffline(l)
  <2>1. offlineMessage' = [offlineMessage EXCEPT ![u] = <<>>]
    BY <1>4 DEF LoginRemoveOffline, OfflineRemove, Collecting
  <2>2. offlineMessage'[u] = <<>>
    BY <1>0, <2>1
  <2>. QED BY <2>2, AheadEmpty DEF AtTable, Spots
<1>5. ASSUME NEW k \in Loops, Dispatch(k) \/ Handle(k), k # l PROVE pc'[l] = pc[l] /\ job'[l] = job[l]
  BY <1>0, <1>5, OneThread
<1>. QED BY <1>1, <1>2, <1>3, <1>4, <1>5, ThreadSteps

LEMMA ApartStep ==
  ASSUME ~DBFaults, StopKinds = {}, [Next]_vars, Grows, SentOnce', NEW m \in Msgs, NEW u \in Users,
         Ready(m, u), Apart(m, u), Kept(m, u), WasSent(m)
  PROVE  Apart(m, u)'
<1>0. /\ BaseInv /\ TrailInv /\ TypeInv /\ OnTheWay(m, u) /\ OnTheWay(m, u)' /\ SentOnce
      /\ InFlight(m, u) # {} => SameSession(u) /\ ~Unsettled(u)
  BY Untyped DEF Ready, Tracked, Kept, TrailInv
<1>1. Carriage
  BY <1>0, Carriages
<1>2. \A l \in Loops : HandledFor(l, m, u) => SameSession(u)
  BY <1>0, Handled
<1>3. \A s \in Servers : AtPush(s, m, u) # {} => ~Unsettled(u)
  BY <1>0, Flying
<1>4. ASSUME NEW l \in Loops, Elsewhere(l, m, u)' PROVE userConnMap'[ServerOf[l]][u] = None
  <2>1. HandledFor(l, m, u) /\ userConnMap[ServerOf[l]][u] = None
    BY <1>0, <1>4, ElsewhereBefore DEF Apart
  <2>. QED BY <1>2, <2>1, PlacementAssumption DEF SameSession
<1>5. ASSUME NEW c \in Conns, SentFrom(m, c)'
      PROVE  /\ \A s \in Servers : AtPush(s, m, u)' # {} => s # ConnServer(c)
             /\ \A d \in Conns : AtPending(d, m, u)' # {} => LoopOf[d] # LoopOf[c]
  <2>1. SentFrom(m, c) /\ ConnServer(c) = ServerOf[LoopOf[c]]
    BY <1>5, SentFromBefore DEF ConnServer
  <2>2. ASSUME NEW l \in Loops, HandledFor(l, m, u) PROVE LoopOf[c] = l
    <3>1. LoopOf[job[l].conn] = l /\ SentFrom(m, job[l].conn)
      BY <1>0, <2>2, JobSource
    <3>2. job[l].conn = c
      BY <1>0, <2>1, <3>1 DEF SentFrom, SentOnce
    <3>. QED BY <3>1, <3>2
  <2>3. ASSUME NEW s \in Servers, AtPush(s, m, u)' # {} PROVE s # ConnServer(c)
    <3>1. CASE AtPush(s, m, u) # {}
      BY <2>1, <3>1 DEF Apart
    <3>2. ASSUME NEW l \in Loops, pc[l] \in Publishing, job[l].msg = m, job[l].user = u PROVE s # ConnServer(c)
      <4>1. Elsewhere(l, m, u) /\ HandledFor(l, m, u)
        BY <3>2 DEF Elsewhere, ElsewherePcs, HandledFor, Publishing, OneChatPcs
      <4>2. userConnMap[ServerOf[l]][u] = None /\ l = LoopOf[c]
        BY <2>2, <4>1 DEF Apart
      <4>3. userConnMap'[s][u] # None
        BY <1>0, <2>3 DEF OnTheWay
      <4>4. userConnMap'[s][u] = userConnMap[s][u]
        BY <1>2, <4>1 DEF SameSession
      <4>. QED BY <2>1, <4>2, <4>3, <4>4
    <3>. QED BY <1>0, <1>1, <2>3, <3>1, <3>2, PushFrom
  <2>4. ASSUME NEW d \in Conns, AtPending(d, m, u)' # {} PROVE LoopOf[d] # LoopOf[c]
    <3>1. CASE AtPending(d, m, u) # {}
      BY <2>1, <3>1 DEF Apart
    <3>2. ASSUME NEW l \in Loops, HandledFor(l, m, u), l # LoopOf[d] PROVE LoopOf[d] # LoopOf[c]
      BY <2>2, <3>2
    <3>3. ASSUME NEW s \in Servers, AtPush(s, m, u) # {}, userConnMap[s][u] = d PROVE LoopOf[d] # LoopOf[c]
      <4>1. s # ConnServer(c)
        BY <2>1, <3>3 DEF Apart
      <4>2. ConnServer(d) = s
        BY <1>0, <1>3, <3>3, SettledEntry, NoneAssumption
      <4>. QED BY <2>1, <4>1, <4>2 DEF ConnServer
    <3>. QED BY <1>0, <1>1, <2>4, <3>1, <3>2, <3>3, PendingFrom
  <2>. QED BY <2>3, <2>4
<1>6. ASSUME AtTable(m, u)' # {}, userState'[u] = "online" PROVE \E l \in Loops : Collecting(l, u)'
  <2>1. AtTable(m, u) # {}
    <3>. SUFFICES ASSUME AtTable(m, u) = {} PROVE FALSE
      OBVIOUS
    <3>1. \A s \in Servers : observer[s] # [channel |-> u, msg |-> m]
      BY <1>0 DEF OnTheWay, AtObserver
    <3>2. PICK l \in Loops : pc[l] \in Storing /\ job[l].msg = m /\ job[l].user = u
      BY <1>0, <1>6, <3>1, TableGrows
    <3>3. InFlight(m, u) # {} /\ userState[u] = "offline"
      BY <1>0, <3>2, Decided
    <3>. QED BY <1>0, <1>6, <3>3 DEF SameSession
  <2>2. CASE userState[u] = "online"
    <3>1. PICK l \in Loops : Collecting(l, u)
      BY <2>1, <2>2 DEF Apart
    <3>. QED BY <1>0, <1>6, <2>1, <3>1, Collects
  <2>3. CASE userState[u] # "online"
    BY <1>0, <1>6, <2>3, ComesOnline
  <2>. QED BY <2>2, <2>3
<1>. QED BY <1>4, <1>5, <1>6 DEF Apart, ConnServer

-----------------------------------------------------------------------------
(***************************************************************************)
(* New messages.                                                           *)
(***************************************************************************)
\* No copy of m is further than the sender's socket.
Absent(m, u) ==
  /\ \A l \in Loops : AtJob(l, m, u) = {} /\ AtAnswer(l, m, u) = {}
  /\ \A s \in Servers : AtPush(s, m, u) = {}
  /\ \A c \in Conns : AtPending(c, m, u) = {} /\ AtSocket(c, m, u) = {}
  /\ AtTable(m, u) = {}

LEMMA NotYet ==
  ASSUME NEW m \in Msgs, NEW u \in Users
  PROVE  /\ InPlace(m, u) /\ ~WasSent(m) => Absent(m, u)
         /\ InPlace(m, u)' /\ ~WasSent(m)' => Absent(m, u)'
<1>1. ContentFits(m, u) /\ ContentFits(m, u)'
  BY ContentIs
<1>2. /\ \A l \in Loops : <<"job", l>> \in Cells(u) /\ <<"answer", l>> \in Cells(u)
      /\ \A s \in Servers : <<"push", s>> \in Cells(u)
      /\ \A c \in Conns : <<"pending", c>> \in Cells(u) /\ <<"client", c>> \in Cells(u)
      /\ <<"table", u>> \in Cells(u)
  BY CellsAre
<1>3. ASSUME InPlace(m, u), ~WasSent(m) PROVE Absent(m, u)
  <2>1. Nowhere(Content(m, u))
    BY <1>3 DEF InPlace
  <2>2. \A k \in Cells(u) : Content(m, u)[k] = {}
    BY <1>1, <2>1 DEF Nowhere, ContentFits
  <2>. QED BY <1>1, <1>2, <2>2 DEF Absent, ContentFits
<1>4. ASSUME InPlace(m, u)', ~WasSent(m)' PROVE Absent(m, u)'
  <2>1. Nowhere(Content(m, u))'
    BY <1>4 DEF InPlace
  <2>2. \A k \in Cells(u) : Content(m, u)'[k] = {}
    BY <1>1, <2>1 DEF Nowhere, ContentFits, Cells
  <2>. QED BY <1>1, <1>2, <2>2 DEF Absent, ContentFits
<1>. QED BY <1>3, <1>4

\* A message that is sent for the first time is in the sender's socket only.
LEMMA Sending ==
  ASSUME BaseInv, StopKinds = {}, [Next]_vars, NEW m \in Msgs, ~WasSent(m), WasSent(m)', NEW u \in Users, InPlace(m, u)
  PROVE  Absent(m, u)'
<1>1. ~UNCHANGED sent
  BY DEF WasSent
<1>2. \A l \in Loops : ~(Dispatch(l) \/ Handle(l))
  BY <1>1, ThreadsSendNothing
<1>3. \A s \in Servers : ~(Observe(s) \/ Redis(s) \/ Start(s))
  BY <1>1, OthersSendNothing
<1>4. \A s \in Servers : ~Sigint(s) /\ ~Reset(s) /\ ~Crash(s)
  BY Untyped, SignalFree DEF Crash
<1>5. ~UNCHANGED vars
  BY <1>1 DEF vars, terminalVars
<1>6. PICK d \in Conns : Accept(d) \/ Terminal(d) \/ \E v \in Users : Login(d, v)
  BY <1>2, <1>3, <1>4, <1>5 DEF Next
<1>7. UNCHANGED <<offlineMessage, push, toClient, pending, pc, job>>
  BY <1>6, TerminalsSend DEF tableVars, redisVars
<1>8. Absent(m, u)
  BY NotYet
<1>9. \A s \in Servers : AtPush(s, m, u)' = AtPush(s, m, u)
  BY <1>7 DEF AtPush
<1>10. \A c \in Conns : AtPending(c, m, u)' = AtPending(c, m, u) /\ AtSocket(c, m, u)' = AtSocket(c, m, u)
  BY <1>7 DEF AtPending, AtSocket, Places
<1>11. \A l \in Loops : AtJob(l, m, u)' = AtJob(l, m, u) /\ AtAnswer(l, m, u)' = AtAnswer(l, m, u)
  BY <1>7 DEF AtJob, AtAnswer, HandledFor
<1>12. AtTable(m, u)' = AtTable(m, u)
  BY <1>7 DEF AtTable
<1>. QED BY <1>8, <1>9, <1>10, <1>11, <1>12 DEF Absent

\* It is on no way yet, and behind everything.
LEMMA AbsentApart ==
  ASSUME NEW m \in Msgs, NEW u \in Users, Absent(m, u)'
  PROVE  Apart(m, u)'
<1>1. ASSUME NEW l \in Loops PROVE ~Elsewhere(l, m, u)'
  <2>1. AtJob(l, m, u)' = {}
    BY DEF Absent
  <2>2. ~HandledFor(l, m, u)'
    BY <2>1 DEF AtJob
  <2>. QED BY <2>2 DEF Elsewhere, ElsewherePcs, HandledFor, OneChatPcs
<1>. QED BY <1>1 DEF Apart, Absent

LEMMA AbsentBehind ==
  ASSUME NEW m \in Msgs, NEW n \in Msgs, NEW u \in Users, Absent(n, u)'
  PROVE  InOrder(m, n, u)
<1>1. ASSUME NEW r \in 0 .. 6, NEW q \in 0 .. 6, Stage(q, n, u)' PROVE q <= r
  <2>1. \A l \in Loops : ~HandledFor(l, n, u)'
    BY DEF Absent, AtJob
  <2>2. q = 0
    BY <1>1, <2>1 DEF Stage, Absent
  <2>. QED BY <2>2
<1>2. NotOvertaken(m, n, u)'
  BY <1>1 DEF NotOvertaken
<1>3. \A s \in Servers : Ahead(push'[s], Letter(m, u), Letter(n, u))
  <2>. TAKE s \in Servers
  <2>1. Spots(push'[s], Letter(n, u)) = AtPush(s, n, u)'
    BY DEF Spots, AtPush, Letter
  <2>. QED BY <2>1 DEF Absent, Ahead
<1>4. \A c \in Conns : FramesAhead(pending'[c], m, n, u) /\ FramesAhead(toClient'[c], m, n, u)
  BY DEF Absent, AtPending, AtSocket, FramesAhead
<1>5. Ahead(offlineMessage'[u], m, n)
  BY DEF Absent, AtTable, Ahead, Spots
<1>6. \A l \in Loops : pc'[l] = "loginAck" /\ job'[l].user = u => Ahead(job'[l].msgs, m, n)
  <2>. SUFFICES ASSUME NEW l \in Loops, pc'[l] = "loginAck", job'[l].user = u PROVE Ahead(job'[l].msgs, m, n)
    OBVIOUS
  <2>1. AtAnswer(l, n, u)' = Spots(job'[l].msgs, n)
    BY DEF AtAnswer, Spots
  <2>. QED BY <2>1 DEF Absent, Ahead
<1>. QED BY <1>2, <1>3, <1>4, <1>5, <1>6 DEF InOrder, InFront

\* Of two messages the later one is the one that may be new.
LEMMA BeforeThat ==
  ASSUME BaseInv, StopKinds = {}, [Next]_vars, NEW m \in Msgs, NEW n \in Msgs, SentBefore(m, n)'
  PROVE  WasSent(m) /\ WasSent(n)' /\ (WasSent(n) => SentBefore(m, n))
<1>1. PICK i, j \in DOMAIN sent' : i < j /\ sent'[i].msg = m /\ sent'[j].msg = n /\ sent'[i].conn = sent'[j].conn
  BY DEF SentBefore
<1>2. WasSent(n)'
  BY <1>1 DEF WasSent
<1>3. CASE UNCHANGED sent
  BY <1>1, <1>3 DEF WasSent, SentBefore
<1>4. ASSUME NEW c \in Conns, NEW k \in Msgs, NewMessage(c, k) PROVE WasSent(m) /\ (WasSent(n) => SentBefore(m, n))
  <2>1. TypeInv
    BY Untyped
  <2>2. ~WasSent(k) /\ clientUser[c] \in Users /\ sent \in Seq(Posts)
    <3>1. ~WasSent(k) /\ clientPc[c] = "chatting"
      BY <1>4 DEF NewMessage, SendChat, SendGroupChat, Post
    <3>. QED BY <2>1, <3>1 DEF TypeInv, TypeOK, TerminalsTypeOK, TerminalsOK
  <2>3. PICK e \in Posts : e = [msg |-> k, from |-> clientUser[c], conn |-> c]
    BY <2>2 DEF Posts
  <2>4. sent' = Append(sent, e)
    BY <1>4, <2>3 DEF NewMessage, SendChat, SendGroupChat, Post
  <2>5. PICK h \in Nat : h = Len(sent)
    BY <2>2
  <2>6. DOMAIN sent = 1 .. h /\ DOMAIN sent' = 1 .. h + 1 /\ sent'[h + 1] = e /\ \A a \in 1 .. h : sent'[a] = sent[a]
    BY <2>2, <2>4, <2>5
  <2>7. i \in 1 .. h
    BY <1>1, <2>6
  <2>8. WasSent(m)
    BY <1>1, <2>6, <2>7 DEF WasSent
  <2>9. CASE j \in 1 .. h
    BY <1>1, <2>6, <2>7, <2>8, <2>9 DEF SentBefore
  <2>10. CASE j = h + 1
    <3>1. n = k
      BY <1>1, <2>3, <2>6, <2>10
    <3>. QED BY <2>2, <2>8, <3>1
  <2>. QED BY <1>1, <2>6, <2>9, <2>10
<1>. QED BY <1>2, <1>3, <1>4, SentGrows

-----------------------------------------------------------------------------
(***************************************************************************)
(* Every step.                                                             *)
(***************************************************************************)
\* What the lemmas start from, for a message that is followed after the step.
Follows(m, u) ==
  /\ Followed(m, u) /\ Tracked(m, u) /\ Kept(m, u)
  /\ WasSent(m) => WasSent(m)' /\ Ready(m, u)

LEMMA FollowsIs ==
  ASSUME Patient, ~DBFaults, StopKinds = {}, BaseInv, DeliveryInv, DeliveryNext \/ UNCHANGED <<vars, disturbed>>,
         NEW m \in Msgs, NEW u \in Users, Followed(m, u)'
  PROVE  Follows(m, u)
<1>1. [Next]_vars /\ disturbed \subseteq disturbed' /\ (Abandoned \subseteq disturbed' \/ UNCHANGED vars)
  BY DEF DeliveryNext
<1>2. SentOnce' /\ TrailInv
  <2>1. DeliveryInv'
    BY DeliveryStep
  <2>. QED BY <2>1 DEF DeliveryInv, TrailInv
<1>3. Grows
  BY <1>1, SentGrows
<1>4. Followed(m, u)
  BY <1>1, <1>2, <1>3, FollowedBefore
<1>5. Tracked(m, u)
  BY <1>4, TrackedIs
<1>6. Kept(m, u)
  BY <1>1, <1>2, FollowedStep
<1>7. InFlight(m, u) # {} => SameSession(u)
  BY <1>1, <1>5, SettledStays DEF Tracked
<1>8. WasSent(m) => WasSent(m)'
  BY <1>3 DEF Grows, WasSent
<1>. QED BY <1>2, <1>4, <1>5, <1>6, <1>7, <1>8 DEF Follows, Ready

LEMMA ApartAlways ==
  ASSUME Patient, ~DBFaults, StopKinds = {}, BaseInv, DeliveryInv, OrderInv, DeliveryNext \/ UNCHANGED <<vars, disturbed>>,
         NEW m \in Msgs, NEW u \in Users, Followed(m, u)'
  PROVE  Apart(m, u)'
<1>1. [Next]_vars /\ Follows(m, u)
  BY FollowsIs DEF DeliveryNext
<1>2. SentOnce'
  <2>1. DeliveryInv'
    BY DeliveryStep
  <2>. QED BY <2>1 DEF DeliveryInv, TrailInv
<1>3. Grows
  BY <1>1, SentGrows
<1>4. CASE WasSent(m)
  <2>1. Ready(m, u) /\ Kept(m, u) /\ Apart(m, u)
    BY <1>1, <1>4 DEF Follows, OrderInv
  <2>. QED BY <1>1, <1>2, <1>3, <1>4, <2>1, ApartStep
<1>5. CASE ~WasSent(m) /\ ~WasSent(m)'
  <2>1. InPlace(m, u)'
    BY <1>1 DEF Follows, Kept
  <2>. QED BY <1>5, <2>1, NotYet, AbsentApart
<1>6. CASE ~WasSent(m) /\ WasSent(m)'
  <2>1. InPlace(m, u)
    BY <1>1 DEF Follows, Tracked
  <2>. QED BY <1>1, <1>6, <2>1, Sending, AbsentApart
<1>. QED BY <1>4, <1>5, <1>6

LEMMA OrderAgain ==
  ASSUME Patient, ~DBFaults, StopKinds = {}, BaseInv, DeliveryInv, OrderInv, DeliveryNext \/ UNCHANGED <<vars, disturbed>>,
         NEW m \in Msgs, NEW n \in Msgs, NEW u \in Users, Followed(m, u)', Followed(n, u)', SentBefore(m, n)'
  PROVE  InOrder(m, n, u)
<1>1. [Next]_vars /\ Follows(m, u) /\ Follows(n, u)
  BY FollowsIs DEF DeliveryNext
<1>2. WasSent(m) /\ WasSent(n)' /\ (WasSent(n) => SentBefore(m, n))
  BY <1>1, BeforeThat
<1>3. CASE WasSent(n)
  <2>1. Ready(m, u) /\ Ready(n, u) /\ SentBefore(m, n)
    BY <1>1, <1>2, <1>3 DEF Follows
  <2>2. Apart(m, u) /\ NotOvertaken(m, n, u) /\ InFront(m, n, u)
    BY <1>1, <2>1 DEF Follows, OrderInv
  <2>3. Still(0, m, u) /\ Still(0, n, u)
    BY <1>1, <1>2, <1>3, RequestsStill
  <2>4. Pair(m, n, u)
    BY <2>1, <2>2, <2>3 DEF Pair
  <2>. QED BY <1>1, <2>4, PairStep
<1>4. CASE ~WasSent(n)
  <2>1. InPlace(n, u)
    BY <1>1 DEF Follows, Tracked
  <2>2. Absent(n, u)'
    BY <1>1, <1>2, <1>4, <2>1, Sending
  <2>. QED BY <2>2, AbsentBehind
<1>. QED BY <1>3, <1>4

LEMMA OrderStep ==
  ASSUME Patient, ~DBFaults, StopKinds = {}, BaseInv, DeliveryInv, OrderInv, [DeliveryNext]_<<vars, disturbed>>
  PROVE  OrderInv'
<1>1. ASSUME NEW m \in Msgs, NEW u \in Users, Followed(m, u)' PROVE Apart(m, u)'
  BY <1>1, ApartAlways
<1>2. ASSUME NEW m \in Msgs, NEW n \in Msgs, NEW u \in Users, Followed(m, u)', Followed(n, u)', SentBefore(m, n)'
      PROVE  NotOvertaken(m, n, u)' /\ InFront(m, n, u)'
  BY <1>2, OrderAgain DEF InOrder
<1>. QED BY <1>1, <1>2 DEF OrderInv

LEMMA OrderBegins == DeliveryInit => OrderInv
<1>. SUFFICES ASSUME DeliveryInit PROVE OrderInv
  OBVIOUS
<1>1. sent = <<>> /\ DeliveryInv
  BY DeliveryBegins DEF DeliveryInit, Init, TerminalsInit
<1>2. \A m : ~WasSent(m)
  BY <1>1 DEF WasSent
<1>3. \A m, n : ~SentBefore(m, n)
  BY <1>1 DEF SentBefore
<1>4. ASSUME NEW m \in Msgs, NEW u \in Users, Followed(m, u) PROVE Apart(m, u)
  <2>1. Absent(m, u)
    BY <1>1, <1>2, <1>4, NotYet DEF DeliveryInv, FollowedInv
  <2>2. ASSUME NEW l \in Loops PROVE ~Elsewhere(l, m, u)
    <3>1. ~HandledFor(l, m, u)
      BY <2>1 DEF Absent, AtJob
    <3>. QED BY <3>1 DEF Elsewhere, ElsewherePcs, HandledFor, OneChatPcs
  <2>. QED BY <2>1, <2>2 DEF Apart, Absent
<1>. QED BY <1>3, <1>4 DEF OrderInv

LEMMA OrderAlways ==
  ASSUME Patient, ~DBFaults, StopKinds = {}
  PROVE  DeliverySpec => [](BaseInv /\ DeliveryInv /\ OrderInv)
<1>1. BaseInv /\ DeliveryInv /\ OrderInv /\ [DeliveryNext]_<<vars, disturbed>> => (BaseInv /\ DeliveryInv /\ OrderInv)'
  BY DeliveryStep, OrderStep
<1>. QED BY <1>1, DeliveryBegins, OrderBegins, PTL DEF DeliverySpec

LEMMA CalmOrder == BaseInv /\ DeliveryInv /\ OrderInv => CalmInOrder
<1>. SUFFICES ASSUME BaseInv, DeliveryInv, OrderInv, NEW i \in DOMAIN sent, NEW j \in DOMAIN sent,
                     i < j, sent[i].conn = sent[j].conn, NEW u \in Recipients(i) \cap Recipients(j), NEW c \in Conns,
                     {<<sent[i].msg, u>>, <<sent[j].msg, u>>} \subseteq Calm,
                     NEW p \in Places(toClient[c], sent[i].msg, u), NEW q \in Places(toClient[c], sent[j].msg, u)
              PROVE  Before(p, q)
  BY DEF CalmInOrder
<1>1. PICK m, n : m = sent[i].msg /\ n = sent[j].msg
  OBVIOUS
<1>2. <<m, u>> \in Calm /\ <<n, u>> \in Calm
  BY <1>1
<1>3. \A k, v : <<k, v>> \in Calm => k \in Msgs /\ v \in Users /\ Followed(k, v)
  <2>. SUFFICES ASSUME NEW k, NEW v, <<k, v>> \in Calm PROVE k \in Msgs /\ v \in Users /\ Followed(k, v)
    OBVIOUS
  <2>1. PICK d : d = <<k, v>>
    OBVIOUS
  <2>2. d[1] = k /\ d[2] = v /\ d \in Calm
    BY <2>1
  <2>. QED BY <2>2, CalmIs
<1>4. m \in Msgs /\ n \in Msgs /\ u \in Users /\ Followed(m, u) /\ Followed(n, u)
  BY <1>2, <1>3
<1>5. SentBefore(m, n)
  BY <1>1 DEF SentBefore
<1>6. FramesAhead(toClient[c], m, n, u)
  BY <1>4, <1>5 DEF OrderInv, InFront
<1>. QED BY <1>1, <1>6 DEF FramesAhead

(***************************************************************************)
(* Messages from one connection to one account, whose session stood still  *)
(* while they were in flight, are written to its socket in the order they  *)
(* were sent, although oneChat and groupChat send some to the socket, put  *)
(* some into another loop's queue, publish some and store some, which      *)
(* login reads: over any number of servers, threads, connections and       *)
(* messages.                                                               *)
(***************************************************************************)
THEOREM CalmOrderIsKept ==
  ASSUME Patient, ~DBFaults, StopKinds = {}
  PROVE  DeliverySpec => []CalmInOrder
<1>. QED BY OrderAlways, CalmOrder, PTL
=============================================================================
