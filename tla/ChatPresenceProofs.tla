------------------------- MODULE ChatPresenceProofs -------------------------
(***************************************************************************)
(* Who listens to the channel of an account, and what an online account    *)
(* means, for every number of servers, threads, terminals and accounts.    *)
(*                                                                         *)
(* Redis executes the commands of a server in order, so what it will come  *)
(* to listen to is decided by the last command written (CommandWritten,    *)
(* CommandExecuted).  A session subscribes after its entry is in the map   *)
(* and unsubscribes before it is marked ended; between these its login or  *)
(* its close handler is at a known place.                                  *)
(***************************************************************************)
EXTENDS ChatConnProofs, ChatPresence

-----------------------------------------------------------------------------
(***************************************************************************)
(* The last command decides.                                               *)
(***************************************************************************)
Own(s, u) == {i \in DOMAIN cmds[s] : cmds[s][i].channel = u}

LEMMA Listening ==
  ASSUME NEW s, NEW u
  PROVE  WillListen(s, u) <=>
           IF Own(s, u) = {} THEN s \in subs[u]
           ELSE \E i \in Own(s, u) : (\A j \in Own(s, u) : j <= i) /\ cmds[s][i].op = "SUBSCRIBE"
BY DEF WillListen, Own

LEMMA CommandAppended ==
  ASSUME NEW q \in Seq(Commands), NEW e \in Commands
  PROVE  /\ DOMAIN Append(q, e) = DOMAIN q \cup {Len(q) + 1}
         /\ Append(q, e)[Len(q) + 1] = e
         /\ \A i \in DOMAIN q : Append(q, e)[i] = q[i] /\ i \in Nat /\ i < Len(q) + 1
         /\ Len(q) + 1 \in Nat
OBVIOUS

LEMMA CommandWritten ==
  ASSUME TypeInv, NEW s \in Servers, NEW op \in {"SUBSCRIBE", "UNSUBSCRIBE"}, NEW v \in Users,
         WriteCommand(s, op, v), NEW t \in Servers, NEW u \in Users
  PROVE  WillListen(t, u)' <=> IF t = s /\ u = v THEN op = "SUBSCRIBE" ELSE WillListen(t, u)
<1>. PICK e \in Commands : e = [op |-> op, channel |-> v]
  BY DEF Commands
<1>0. e.op = op /\ e.channel = v
  OBVIOUS
<1>1. /\ cmds \in [Servers -> Seq(Commands)] /\ UNCHANGED subs
      /\ cmds' = [cmds EXCEPT ![s] = Append(cmds[s], e)]
  BY DEF TypeInv, TypeOK, RedisTypeOK, WriteCommand
<1>2. CASE t # s
  <2>1. cmds'[t] = cmds[t]
    BY <1>1, <1>2
  <2>. QED BY <1>1, <1>2, <2>1 DEF WillListen
<1>3. CASE t = s
  <2>. PICK q \in Seq(Commands), n \in Nat : q = cmds[s] /\ n = Len(q) + 1
    BY <1>1
  <2>1. /\ DOMAIN cmds'[s] = DOMAIN q \cup {n} /\ cmds'[s][n] = e
        /\ \A i \in DOMAIN q : cmds'[s][i] = q[i] /\ i \in Nat /\ i < n
    BY <1>1, CommandAppended
  <2>2. CASE u = v
    <3>1. n \in Own(s, u)' /\ \A i \in Own(s, u)' : i \in Nat /\ i <= n
      BY <1>0, <2>1, <2>2 DEF Own
    <3>2. \A i \in Own(s, u)' : n <= i => i = n
      BY <3>1
    <3>. QED BY <1>0, <1>3, <2>1, <2>2, <3>1, <3>2 DEF WillListen, Own
  <2>3. CASE u # v
    <3>1. Own(s, u)' = Own(s, u)
      BY <1>0, <2>1, <2>3 DEF Own
    <3>2. \A i \in Own(s, u) : cmds'[s][i] = cmds[s][i]
      BY <2>1 DEF Own
    <3>. QED BY <1>1, <1>3, <2>3, <3>1, <3>2 DEF WillListen, Own
  <2>. QED BY <2>2, <2>3
<1>. QED BY <1>2, <1>3

LEMMA CommandTaken ==
  ASSUME NEW q \in Seq(Commands), q # <<>>
  PROVE  /\ 1 \in DOMAIN q /\ Head(q) = q[1] /\ Head(q) \in Commands
         /\ \A i \in DOMAIN Tail(q) : i \in Nat /\ i + 1 \in DOMAIN q /\ Tail(q)[i] = q[i + 1]
         /\ \A i \in DOMAIN q : i \in Nat /\ 1 <= i
         /\ \A i \in DOMAIN q : i = 1 \/ (i - 1 \in DOMAIN Tail(q) /\ Tail(q)[i - 1] = q[i])
OBVIOUS

LEMMA CommandExecuted ==
  ASSUME TypeInv, NEW s \in Servers, RedisExecute(s), NEW t \in Servers, NEW u \in Users
  PROVE  WillListen(t, u)' <=> WillListen(t, u)
<1>1. /\ cmds \in [Servers -> Seq(Commands)] /\ subs \in [Users -> SUBSET Servers]
      /\ cmds[s] # <<>> /\ cmds' = [cmds EXCEPT ![s] = Tail(cmds[s])]
  BY DEF TypeInv, TypeOK, RedisTypeOK, RedisExecute
<1>. PICK q \in Seq(Commands) : q = cmds[s] /\ q # <<>>
  BY <1>1
<1>. PICK r, e : r = Tail(q) /\ e = Head(q) /\ e \in Commands
  BY CommandTaken
<1>2. /\ e.channel \in Users
      /\ subs' = [subs EXCEPT ![e.channel] = IF e.op = "SUBSCRIBE" THEN @ \cup {s} ELSE @ \ {s}]
  BY DEF RedisExecute, Commands
<1>3. CASE t # s
  <2>1. cmds'[t] = cmds[t] /\ (t \in subs'[u] <=> t \in subs[u])
    BY <1>1, <1>2, <1>3
  <2>. QED BY <2>1 DEF WillListen
<1>4. CASE t = s
  <2>1. /\ cmds'[s] = r /\ 1 \in DOMAIN q /\ q[1] = e
        /\ \A i \in DOMAIN r : i \in Nat /\ i + 1 \in DOMAIN q /\ r[i] = q[i + 1]
        /\ \A i \in DOMAIN q : i \in Nat /\ 1 <= i
        /\ \A i \in DOMAIN q : i = 1 \/ (i - 1 \in DOMAIN r /\ r[i - 1] = q[i])
    BY <1>1, CommandTaken
  <2>2. /\ \A i \in Own(s, u)' : i \in Nat /\ i + 1 \in Own(s, u) /\ r[i] = q[i + 1]
        /\ \A i \in Own(s, u) : i \in Nat /\ 1 <= i /\ (i = 1 \/ (i - 1 \in Own(s, u)' /\ r[i - 1] = q[i]))
        /\ 1 \in Own(s, u) <=> e.channel = u
    BY <2>1 DEF Own
  <2>3. CASE Own(s, u)' = {}
    <3>1. \A i \in Own(s, u) : i = 1
      BY <2>2, <2>3
    <3>2. CASE e.channel = u
      <4>1. WillListen(s, u) <=> e.op = "SUBSCRIBE"
        BY <2>1, <2>2, <3>1, <3>2, Listening
      <4>2. s \in subs'[u] <=> e.op = "SUBSCRIBE"
        BY <1>1, <1>2, <3>2
      <4>. QED BY <1>4, <2>3, <4>1, <4>2 DEF WillListen, Own
    <3>3. CASE e.channel # u
      <4>1. Own(s, u) = {}
        BY <2>2, <3>1, <3>3
      <4>2. s \in subs'[u] <=> s \in subs[u]
        BY <1>1, <1>2, <3>3
      <4>. QED BY <1>4, <2>3, <4>1, <4>2 DEF WillListen, Own
    <3>. QED BY <3>2, <3>3
  <2>4. CASE Own(s, u)' # {}
    <3>1. PICK k : k \in Own(s, u)' /\ k \in Nat /\ k + 1 \in Own(s, u)
      BY <2>2, <2>4
    <3>2. ASSUME WillListen(s, u) PROVE WillListen(s, u)'
      <4>1. PICK i \in Own(s, u) : (\A j \in Own(s, u) : j <= i) /\ q[i].op = "SUBSCRIBE"
        BY <3>1, <3>2, Listening
      <4>2. i # 1 /\ i - 1 \in Own(s, u)' /\ r[i - 1] = q[i]
        <5>1. k >= 1
          BY <2>1, <3>1 DEF Own
        <5>2. k + 1 <= i
          BY <3>1, <4>1
        <5>3. i \in Nat /\ i # 1
          BY <2>2, <3>1, <5>1, <5>2
        <5>. QED BY <2>2, <5>3
      <4>3. \A j \in Own(s, u)' : j <= i - 1
        BY <2>2, <4>1
      <4>. PICK m : m = i - 1
        OBVIOUS
      <4>4. m \in Own(s, u)' /\ (\A j \in Own(s, u)' : j <= m) /\ cmds'[s][m].op = "SUBSCRIBE"
        BY <2>1, <4>1, <4>2, <4>3
      <4>. QED BY <4>4 DEF WillListen, Own
    <3>3. ASSUME WillListen(s, u)' PROVE WillListen(s, u)
      <4>1. PICK i \in Own(s, u)' : (\A j \in Own(s, u)' : j <= i) /\ r[i].op = "SUBSCRIBE"
        BY <1>4, <2>1, <2>4, <3>3 DEF WillListen, Own
      <4>2. i + 1 \in Own(s, u) /\ q[i + 1].op = "SUBSCRIBE" /\ i \in Nat
        BY <2>2, <4>1
      <4>3. \A j \in Own(s, u) : j <= i + 1
        BY <2>2, <4>1, <4>2
      <4>. QED BY <4>2, <4>3, Listening
    <3>. QED BY <1>4, <3>2, <3>3
  <2>. QED BY <2>3, <2>4
<1>. QED BY <1>3, <1>4

LEMMA CommandsLost ==
  ASSUME TypeInv, NEW s \in Servers, RedisDisconnect(s), NEW t \in Servers, NEW u \in Users
  PROVE  WillListen(t, u)' <=> t # s /\ WillListen(t, u)
<1>1. /\ cmds \in [Servers -> Seq(Commands)]
      /\ cmds' = [cmds EXCEPT ![s] = <<>>]
      /\ subs' = [x \in Users |-> subs[x] \ {s}]
  BY DEF TypeInv, TypeOK, RedisTypeOK, RedisDisconnect
<1>2. CASE t # s
  <2>1. cmds'[t] = cmds[t] /\ (t \in subs'[u] <=> t \in subs[u])
    BY <1>1, <1>2
  <2>. QED BY <1>2, <2>1 DEF WillListen
<1>3. CASE t = s
  <2>1. cmds'[s] = <<>> /\ s \notin subs'[u]
    BY <1>1
  <2>. QED BY <1>3, <2>1 DEF WillListen
<1>. QED BY <1>2, <1>3

SameListeners == \A s \in Servers, u \in Users : WillListen(s, u)' <=> WillListen(s, u)

LEMMA NoCommand == ASSUME UNCHANGED <<cmds, subs>> PROVE SameListeners
BY DEF SameListeners, WillListen

-----------------------------------------------------------------------------
(***************************************************************************)
(* Most steps of the I/O threads change neither a session nor a            *)
(* subscription nor User.state; six do.                                    *)
(***************************************************************************)
QuietMove(l, next, j) ==
  /\ GotoWith(l, next, j)
  /\ UNCHANGED <<userConnMap, userState, cmds, subs, clientPc>>
  /\ pc[l] \notin {"loginInsert", "loginSubscribe", "loginOnline",
                   "closeUnsubscribe", "closeOffline", "closeErase"}
  /\ next \notin {"loginSubscribe", "loginOnline", "closeOffline", "closeErase"}

LEMMA LoginShape ==
  ASSUME TypeInv, NEW l \in Loops, LoginStep(l)
  PROVE  \/ LoginInsert(l) \/ LoginSubscribe(l) \/ LoginOnline(l)
         \/ \E next, j : QuietMove(l, next, j)
<1>1. CASE LoginRefuse(l) \/ LoginAck(l)
  <2>1. /\ GotoWith(l, "idle", NoJob) /\ pc[l] \in {"login", "loginAck"}
        /\ UNCHANGED <<userConnMap, userState, cmds, subs, clientPc>>
    BY <1>1 DEF LoginRefuse, LoginAck, Finish, sessionVars, tableVars, redisVars, terminalVars
  <2>. QED BY <2>1 DEF QuietMove
<1>2. CASE LoginAccept(l) \/ LoginRemoveOffline(l)
  <2>1. PICK next \in {"loginInsert", "loginAck"} :
          /\ Goto(l, next) /\ pc[l] \in {"login", "loginRemoveOffline"}
          /\ UNCHANGED <<userConnMap, userState, cmds, subs, clientPc>>
    BY <1>2 DEF LoginAccept, LoginRemoveOffline, OfflineRemove, sessionVars, tableVars, redisVars, terminalVars
  <2>. QED BY <2>1, GotoIs DEF QuietMove
<1>3. CASE LoginReadOffline(l)
  <2>1. PICK next, j :
          /\ next \in {"loginRemoveOffline", "loginAck"}
          /\ GotoWith(l, next, j) /\ pc[l] = "loginReadOffline"
          /\ UNCHANGED <<userConnMap, userState, cmds, subs, clientPc>>
    BY <1>3 DEF LoginReadOffline, sessionVars, tableVars, redisVars, terminalVars
  <2>. QED BY <2>1 DEF QuietMove
<1>. QED BY <1>1, <1>2, <1>3 DEF LoginStep

LEMMA CloseShape ==
  ASSUME TypeInv, NEW l \in Loops, CloseStep(l)
  PROVE  \/ CloseUnsubscribe(l) \/ CloseOffline(l) \/ CloseErase(l)
         \/ \E next, j : QuietMove(l, next, j)
<1>1. ASSUME CloseFind(l) \/ CloseNothing(l) PROVE \E next, j : QuietMove(l, next, j)
  <2>1. PICK next, j :
          /\ next \in {"closeUnsubscribe", "idle"}
          /\ GotoWith(l, next, j) /\ pc[l] = "close"
          /\ UNCHANGED <<userConnMap, userState, cmds, subs, clientPc>>
    <3>1. CASE CloseFind(l)
      BY <3>1 DEF CloseFind, tableVars, redisVars, terminalVars
    <3>2. CASE CloseNothing(l)
      BY <3>2 DEF CloseNothing, Finish, sessionVars, tableVars, redisVars, terminalVars
    <3>. QED BY <1>1, <3>1, <3>2
  <2>. QED BY <2>1 DEF QuietMove
<1>. QED BY <1>1 DEF CloseStep

LEMMA ChatShape ==
  ASSUME MutexInv, NEW l \in Loops, OneChatStep(l) \/ GroupChatStep(l)
  PROVE  \E next, j : QuietMove(l, next, j)
<1>1. PICK next, j : next \in ChatPcs \cup {"idle"} /\ GotoWith(l, next, j)
  BY ChatGoesOn DEF ChatPcs
<1>2. pc[l] \in ChatPcs /\ UNCHANGED <<userConnMap, userState, cmds, subs, clientPc>>
  <2>1. CASE OneChatStep(l)
    BY <2>1 DEF OneChatStep, OneChatFind, OneChatQuery, OneChatPublish, OneChatStore, OneChatPcs, ChatPcs,
       OfflineInsert, Publish, sessionVars, tableVars, redisVars, terminalVars
  <2>2. CASE GroupChatStep(l)
    BY <2>2 DEF GroupChatStep, GroupChatQuery, GroupChatLock, GroupChatSend, GroupChatAbsent, GroupChatPublish,
       GroupChatStore, GroupChatEnd, GroupChatPcs, ChatPcs, OfflineInsert, Publish, sessionVars,
       tableVars, redisVars, terminalVars
  <2>. QED BY <2>1, <2>2
<1>. QED BY <1>1, <1>2, ChatPcsApart DEF QuietMove, LoginPcs, ClosePcs

LEMMA BeginShape ==
  ASSUME TypeInv, NEW l \in Loops, NEW c \in Conns, OnMessage(l, c) \/ OnClose(l, c)
  PROVE  \E next, j : QuietMove(l, next, j)
<1>1. PICK next, j : next \in {"login", "close", "oneChat", "groupChat"} /\ GotoWith(l, next, j)
  <2>1. CASE OnClose(l, c)
    BY <2>1 DEF OnClose
  <2>2. CASE OnMessage(l, c)
    <3>1. request[c] \in Requests /\ request[c].kind # "none"
      BY <2>2 DEF OnMessage, TypeInv, TypeOK, TerminalsTypeOK, RequestsOK
    <3>2. HandlerOf[request[c].kind] \in {"login", "close", "oneChat", "groupChat"}
      BY <3>1 DEF Requests, HandlerOf
    <3>. QED BY <2>2, <3>2 DEF OnMessage
  <2>. QED BY <2>1, <2>2
<1>2. pc[l] = "idle" /\ UNCHANGED <<userConnMap, userState, cmds, subs, clientPc>>
  BY DEF OnMessage, OnClose, sessionVars, tableVars, redisVars, terminalVars
<1>. QED BY <1>1, <1>2 DEF QuietMove

LEMMA ThreadShape ==
  ASSUME MutexInv, NEW l \in Loops, Dispatch(l) \/ Handle(l)
  PROVE  \/ LoginInsert(l) \/ LoginSubscribe(l) \/ LoginOnline(l)
         \/ CloseUnsubscribe(l) \/ CloseOffline(l) \/ CloseErase(l)
         \/ \E next, j : QuietMove(l, next, j)
         \/ RunPendingFunctors(l)
BY LoginShape, CloseShape, ChatShape, BeginShape DEF Handle, Dispatch, MutexInv

\* What is common to the six steps and the quiet ones.
LEMMA Moving ==
  ASSUME MutexInv, NEW l \in Loops, NEW next, NEW j, GotoWith(l, next, j)
  PROVE  /\ pc'[l] = next /\ job'[l] = j
         /\ \A k \in Loops : k # l => pc'[k] = pc[k] /\ job'[k] = job[k]
         /\ UNCHANGED <<mainPc, todo, it>>
         /\ ServerOf[l] \in Servers
BY PlacementAssumption DEF GotoWith, MutexInv, TypeInv, TypeOK, ThreadsTypeOK

LEMMA MovingLive ==
  ASSUME MutexInv, NEW l \in Loops, NEW next, NEW j, GotoWith(l, next, j), UNCHANGED userConnMap,
         NEW s \in Servers, NEW u \in Users
  PROVE  /\ pc[l] # "closeErase" => (Live(s, u)' => Live(s, u))
         /\ next # "closeErase" => (Live(s, u) => Live(s, u)')
<1>1. /\ \A k \in Loops : k # l => pc'[k] = pc[k] /\ job'[k] = job[k]
      /\ pc'[l] = next /\ UNCHANGED <<mainPc, todo, it>>
  BY Moving
<1>2. pc[l] # "closeErase" => (Ending(s, u) => Ending(s, u)')
  BY <1>1 DEF Ending, InReset
<1>3. next # "closeErase" => (Ending(s, u)' => Ending(s, u))
  BY <1>1 DEF Ending, InReset
<1>. QED BY <1>2, <1>3 DEF Live

LEMMA QuietLive ==
  ASSUME MutexInv, NEW l \in Loops, NEW next, NEW j, QuietMove(l, next, j),
         NEW s \in Servers, NEW u \in Users
  PROVE  Live(s, u)' <=> Live(s, u)
BY MovingLive DEF QuietMove

\* What a handler finds and leaves.
LEMMA Working ==
  ASSUME MutexInv, NEW l \in Loops,
         \/ LoginInsert(l) \/ LoginSubscribe(l) \/ LoginOnline(l)
         \/ CloseUnsubscribe(l) \/ CloseOffline(l) \/ CloseErase(l)
  PROVE  /\ job[l].user \in Users /\ ServerOf[l] \in Servers
         /\ job[l].conn \in Conns /\ job[l].conn # None /\ LoopOf[job[l].conn] = l
<1>1. pc[l] \in LoginPcs \cup {"closeUnsubscribe", "closeOffline", "closeErase"} /\ pc[l] # "idle"
  BY DEF LoginInsert, LoginSubscribe, LoginOnline, CloseUnsubscribe, CloseOffline, CloseErase, LoginPcs
<1>2. JobOK(l, pc[l], job[l])
  BY DEF MutexInv, TypeInv, JobsOK
<1>. QED BY <1>1, <1>2, PlacementAssumption, NoneAssumption DEF JobOK

\* A handler that stands on an entry is the only one of its server that does.
LEMMA Standing ==
  ASSUME MutexInv, NEW l \in Loops, pc[l] \in {"closeUnsubscribe", "closeOffline", "closeErase"}
  PROVE  /\ userConnMap[ServerOf[l]][job[l].user] = job[l].conn
         /\ ~InReset(ServerOf[l])
         /\ \A k \in Loops :
              ServerOf[k] = ServerOf[l] /\ pc[k] \in {"closeUnsubscribe", "closeOffline", "closeErase"} => k = l
<1>1. pc[l] \in LockPcs
  BY DEF LockPcs
<1>2. \A k \in Loops : pc[k] \in {"closeUnsubscribe", "closeOffline", "closeErase"} => pc[k] \in LockPcs
  BY DEF LockPcs
<1>3. userConnMap[ServerOf[l]][job[l].user] = job[l].conn
  BY DEF MutexInv, IteratorsValid
<1>. QED BY <1>1, <1>2, <1>3, HeldLock

-----------------------------------------------------------------------------
(***************************************************************************)
(* EntryListens is inductive beside the mutex: a login is on the way to    *)
(* subscribe, a close handler has unsubscribed and is about to end the     *)
(* session, and so does reset.                                             *)
(***************************************************************************)
\* A handler of s that will change what s listens to for u, or just did.
Turning(s, u) ==
  \E l \in Loops : ServerOf[l] = s /\ job[l].user = u /\ pc[l] \in {"loginSubscribe", "closeOffline"}

Listens(s, u) == WillListen(s, u) \/ Turning(s, u) \/ it[s] = u

LEMMA ListensIs == EntryListens <=> \A s \in Servers, u \in Users : Live(s, u) => Listens(s, u)
BY Zenon DEF EntryListens, Listens, Turning

LEMMA ListensThen ==
  ASSUME \A s \in Servers, u \in Users : Live(s, u)' => Listens(s, u)'
  PROVE  EntryListens'
<1>. SUFFICES ASSUME NEW s \in Servers, NEW u \in Users, Live(s, u)'
              PROVE  \/ WillListen(s, u)'
                     \/ \E l \in Loops : /\ ServerOf[l] = s /\ job'[l].user = u
                                         /\ pc'[l] \in {"loginSubscribe", "closeOffline"}
                     \/ it'[s] = u
  BY DEF EntryListens
<1>. QED BY DEF Listens, Turning

LEMMA ListensKept ==
  ASSUME EntryListens,
         \A s \in Servers, u \in Users : Live(s, u)' => Live(s, u) /\ (Listens(s, u) => Listens(s, u)')
  PROVE  EntryListens'
BY ListensIs, ListensThen

LEMMA ThreadListens ==
  ASSUME MutexInv, EntryListens, NEW l \in Loops, Dispatch(l) \/ Handle(l)
  PROVE  EntryListens'
<1>0. TypeInv
  BY DEF MutexInv
<1>. SUFFICES ASSUME NEW s \in Servers, NEW u \in Users, Live(s, u)' PROVE Listens(s, u)'
  BY ListensThen
<1>1. ASSUME Live(s, u) PROVE Listens(s, u)
  BY <1>1, ListensIs
<1>2. ASSUME NEW next, NEW j, QuietMove(l, next, j) PROVE Listens(s, u)'
  <2>1. Live(s, u) /\ SameListeners
    BY <1>2, QuietLive, NoCommand DEF QuietMove
  <2>2. /\ pc[l] \notin {"loginSubscribe", "closeOffline"} /\ UNCHANGED it
        /\ \A k \in Loops : k # l => pc'[k] = pc[k] /\ job'[k] = job[k]
    BY <1>2, Moving DEF QuietMove
  <2>. QED BY <1>1, <2>1, <2>2 DEF Listens, Turning, SameListeners
<1>3. CASE RunPendingFunctors(l)
  <2>1. UNCHANGED <<pc, job, mainPc, todo, it, userConnMap>> /\ SameListeners
    BY <1>3, NoCommand DEF RunPendingFunctors, threadVars, sessionVars, redisVars
  <2>. QED BY <1>1, <2>1 DEF Listens, Turning, SameListeners, Live, Ending, InReset
<1>4. CASE LoginInsert(l)
  <2>1. /\ GotoWith(l, "loginSubscribe", job[l]) /\ pc[l] = "loginInsert" /\ SameListeners
        /\ userConnMap' = [userConnMap EXCEPT ![ServerOf[l]][job[l].user] = IF @ = None THEN job[l].conn ELSE @]
    BY <1>0, <1>4, GotoIs, NoCommand DEF LoginInsert, redisVars
  <2>2. /\ pc'[l] = "loginSubscribe" /\ job'[l] = job[l] /\ UNCHANGED <<mainPc, todo, it>>
        /\ \A k \in Loops : k # l => pc'[k] = pc[k] /\ job'[k] = job[k]
    BY <2>1, Moving
  <2>3. CASE ServerOf[l] = s /\ job[l].user = u
    BY <2>2, <2>3 DEF Listens, Turning
  <2>4. CASE ServerOf[l] # s \/ job[l].user # u
    <3>1. userConnMap'[s][u] = userConnMap[s][u]
      BY <1>0, <2>1, <2>4 DEF TypeInv, TypeOK, SessionsTypeOK
    <3>2. Live(s, u)
      BY <2>1, <2>2, <3>1 DEF Live, Ending, InReset
    <3>. QED BY <1>1, <2>1, <2>2, <3>2 DEF Listens, Turning, SameListeners
  <2>. QED BY <2>3, <2>4
<1>5. CASE LoginOnline(l)
  <2>1. /\ GotoWith(l, "loginReadOffline", job[l]) /\ pc[l] = "loginOnline"
        /\ UNCHANGED userConnMap /\ SameListeners
    BY <1>0, <1>5, GotoIs, NoCommand DEF LoginOnline, redisVars, sessionVars
  <2>2. Live(s, u) /\ UNCHANGED it /\ \A k \in Loops : k # l => pc'[k] = pc[k] /\ job'[k] = job[k]
    BY <2>1, Moving, MovingLive
  <2>. QED BY <1>1, <2>1, <2>2 DEF Listens, Turning, SameListeners
<1>6. CASE LoginSubscribe(l) \/ CloseUnsubscribe(l)
  <2>0. PICK v : v = job[l].user
    OBVIOUS
  <2>1. PICK op, next : /\ GotoWith(l, next, job[l]) /\ UNCHANGED userConnMap
                        /\ WriteCommand(ServerOf[l], op, v)
                        /\ \/ pc[l] = "loginSubscribe" /\ next = "loginOnline" /\ op = "SUBSCRIBE"
                           \/ pc[l] = "closeUnsubscribe" /\ next = "closeOffline" /\ op = "UNSUBSCRIBE"
    BY <1>0, <1>6, <2>0, GotoIs DEF LoginSubscribe, CloseUnsubscribe, Subscribe, Unsubscribe, sessionVars
  <2>2. /\ Live(s, u) /\ UNCHANGED it /\ pc'[l] = next /\ job'[l] = job[l]
        /\ \A k \in Loops : k # l => pc'[k] = pc[k] /\ job'[k] = job[k]
    BY <2>1, Moving, MovingLive
  <2>3. WillListen(s, u)' <=> IF s = ServerOf[l] /\ u = v THEN op = "SUBSCRIBE" ELSE WillListen(s, u)
    BY <1>0, <1>6, <2>0, <2>1, Working, CommandWritten
  <2>4. CASE s = ServerOf[l] /\ u = v
    BY <2>0, <2>1, <2>2, <2>3, <2>4 DEF Listens, Turning
  <2>5. CASE ~(s = ServerOf[l] /\ u = v)
    BY <1>1, <2>0, <2>1, <2>2, <2>3, <2>5 DEF Listens, Turning
  <2>. QED BY <2>4, <2>5
<1>7. CASE CloseOffline(l)
  <2>1. /\ GotoWith(l, "closeErase", job[l]) /\ pc[l] = "closeOffline"
        /\ UNCHANGED userConnMap /\ SameListeners
    BY <1>0, <1>7, GotoIs, NoCommand DEF CloseOffline, redisVars, sessionVars
  <2>2. /\ Live(s, u) /\ UNCHANGED it /\ pc'[l] = "closeErase" /\ job'[l] = job[l]
        /\ \A k \in Loops : k # l => pc'[k] = pc[k] /\ job'[k] = job[k]
    BY <2>1, Moving, MovingLive
  <2>3. s # ServerOf[l] \/ u # job[l].user
    BY <2>2 DEF Live, Ending
  <2>. QED BY <1>1, <2>1, <2>2, <2>3 DEF Listens, Turning, SameListeners
<1>8. CASE CloseErase(l)
  <2>1. /\ GotoWith(l, "idle", NoJob) /\ pc[l] = "closeErase" /\ SameListeners
        /\ userConnMap' = [userConnMap EXCEPT ![ServerOf[l]][job[l].user] = None]
    BY <1>8, NoCommand DEF CloseErase, Finish, redisVars
  <2>2. /\ UNCHANGED <<mainPc, todo, it>> /\ job[l].user \in Users /\ ServerOf[l] \in Servers
        /\ \A k \in Loops : k # l => pc'[k] = pc[k] /\ job'[k] = job[k]
    BY <1>8, <2>1, Moving, Working
  <2>3. (s # ServerOf[l] \/ u # job[l].user) /\ userConnMap'[s][u] = userConnMap[s][u]
    BY <1>0, <2>1, <2>2 DEF Live, TypeInv, TypeOK, SessionsTypeOK
  <2>4. Live(s, u)
    BY <2>2, <2>3 DEF Live, Ending, InReset
  <2>. QED BY <1>1, <2>1, <2>2, <2>4 DEF Listens, Turning, SameListeners
<1>. QED BY <1>2, <1>3, <1>4, <1>5, <1>6, <1>7, <1>8, ThreadShape

LEMMA ProcessEndsListens ==
  ASSUME MutexInv, EntryListens, NEW s \in Servers, ProcessEnds(s)
  PROVE  EntryListens'
<1>0. TypeInv
  BY DEF MutexInv
<1>. SUFFICES ASSUME NEW t \in Servers, NEW u \in Users, Live(t, u)'
              PROVE  Live(t, u) /\ (Listens(t, u) => Listens(t, u)')
  BY ListensKept
<1>1. /\ pc' = [l \in Loops |-> IF ServerOf[l] = s THEN "idle" ELSE pc[l]]
      /\ job' = [l \in Loops |-> IF ServerOf[l] = s THEN NoJob ELSE job[l]]
      /\ mainPc' = [mainPc EXCEPT ![s] = "loop"] /\ todo' = [todo EXCEPT ![s] = {}]
      /\ it' = [it EXCEPT ![s] = None]
      /\ userConnMap' = [userConnMap EXCEPT ![s] = [v \in Users |-> None]]
      /\ RedisDisconnect(s)
  BY DEF ProcessEnds
<1>2. /\ mainPc \in [Servers -> {"loop", "reset", "resetOffline", "exit"}]
      /\ todo \in [Servers -> SUBSET Users] /\ it \in [Servers -> Users \cup {None}]
      /\ userConnMap \in [Servers -> [Users -> Conns \cup {None}]]
  BY <1>0 DEF TypeInv, TypeOK, ThreadsTypeOK, SessionsTypeOK
<1>3. t # s
  BY <1>1, <1>2 DEF Live
<1>4. /\ UNCHANGED <<userConnMap[t], mainPc[t], todo[t], it[t]>>
      /\ \A l \in Loops : ServerOf[l] = t => pc'[l] = pc[l] /\ job'[l] = job[l]
      /\ WillListen(t, u)' <=> WillListen(t, u)
  BY <1>0, <1>1, <1>2, <1>3, CommandsLost
<1>. QED BY <1>4 DEF Listens, Turning, Live, Ending, InReset

LEMMA ResetListens ==
  ASSUME MutexInv, EntryListens, NEW s \in Servers,
         Sigint(s) \/ ResetUnsubscribe(s) \/ ResetOffline(s) \/ ResetClear(s)
  PROVE  EntryListens'
<1>0. TypeInv /\ ResetOK
  BY DEF MutexInv
<1>. SUFFICES ASSUME NEW t \in Servers, NEW u \in Users, Live(t, u)'
              PROVE  Live(t, u) /\ (Listens(t, u) => Listens(t, u)')
  BY ListensKept
<1>1. /\ mainPc \in [Servers -> {"loop", "reset", "resetOffline", "exit"}]
      /\ todo \in [Servers -> SUBSET Users] /\ it \in [Servers -> Users \cup {None}]
      /\ userConnMap \in [Servers -> [Users -> Conns \cup {None}]]
  BY <1>0 DEF TypeInv, TypeOK, ThreadsTypeOK, SessionsTypeOK
<1>2. CASE Sigint(s)
  <2>1. /\ UNCHANGED <<pc, job, it, userConnMap>> /\ SameListeners
        /\ mainPc[s] = "loop" /\ mainPc' = [mainPc EXCEPT ![s] = "reset"]
        /\ todo' = [todo EXCEPT ![s] = {v \in Users : userConnMap[s][v] # None}]
    BY <1>2, NoCommand DEF Sigint, UnchangedByReset, redisVars
  <2>2. Live(t, u)
    BY <1>1, <2>1 DEF Live, Ending, InReset
  <2>. QED BY <2>1, <2>2 DEF Listens, Turning, SameListeners
<1>3. CASE ResetUnsubscribe(s)
  <2>1. PICK v \in todo[s] : /\ it' = [it EXCEPT ![s] = v] /\ todo' = [todo EXCEPT ![s] = @ \ {v}]
                             /\ WriteCommand(s, "UNSUBSCRIBE", v)
    BY <1>3 DEF ResetUnsubscribe, Unsubscribe
  <2>2. /\ UNCHANGED <<pc, job, userConnMap>> /\ mainPc[s] = "reset" /\ it[s] = None
        /\ mainPc' = [mainPc EXCEPT ![s] = "resetOffline"]
    BY <1>0, <1>3 DEF ResetUnsubscribe, UnchangedByReset, sessionVars, ResetOK
  <2>3. Live(t, u)
    BY <1>1, <2>1, <2>2 DEF Live, Ending, InReset
  <2>4. v \in Users
    BY <1>1
  <2>5. CASE t = s /\ u = v
    BY <1>1, <2>1, <2>3, <2>5 DEF Listens
  <2>6. CASE ~(t = s /\ u = v)
    <3>1. WillListen(t, u)' <=> WillListen(t, u)
      BY <1>0, <2>1, <2>4, <2>6, CommandWritten
    <3>2. it[t] = u => it'[t] = u
      BY <1>1, <2>1, <2>2, NoneAssumption
    <3>. QED BY <2>2, <2>3, <3>1, <3>2 DEF Listens, Turning
  <2>. QED BY <2>5, <2>6
<1>4. CASE ResetOffline(s)
  <2>1. /\ UNCHANGED <<pc, job, todo, userConnMap>> /\ SameListeners
        /\ mainPc[s] = "resetOffline" /\ it[s] \notin todo[s]
        /\ mainPc' = [mainPc EXCEPT ![s] = "reset"] /\ it' = [it EXCEPT ![s] = None]
    BY <1>0, <1>4, NoCommand DEF ResetOffline, UnchangedByReset, sessionVars, redisVars, ResetOK
  <2>2. t # s \/ u # it[s]
    BY <1>1, <2>1, NoneAssumption DEF Live, Ending, InReset
  <2>3. Live(t, u)
    BY <1>1, <2>1, <2>2, NoneAssumption DEF Live, Ending, InReset
  <2>4. it[t] = u => it'[t] = u
    BY <1>1, <2>1, <2>2
  <2>. QED BY <2>1, <2>3, <2>4 DEF Listens, Turning, SameListeners
<1>5. CASE ResetClear(s)
  <2>1. /\ UNCHANGED <<pc, job, todo, it>> /\ SameListeners
        /\ mainPc' = [mainPc EXCEPT ![s] = "exit"]
        /\ userConnMap' = [userConnMap EXCEPT ![s] = [v \in Users |-> None]]
    BY <1>5, NoCommand DEF ResetClear, UnchangedByReset, redisVars
  <2>2. t # s
    BY <1>1, <2>1 DEF Live
  <2>3. Live(t, u)
    BY <1>1, <2>1, <2>2 DEF Live, Ending, InReset
  <2>. QED BY <2>1, <2>3 DEF Listens, Turning, SameListeners
<1>. QED BY <1>2, <1>3, <1>4, <1>5

LEMMA StillListens ==
  ASSUME EntryListens, UNCHANGED <<pc, job, mainPc, todo, it, userConnMap>>, SameListeners
  PROVE  EntryListens'
<1>. SUFFICES ASSUME NEW t \in Servers, NEW u \in Users, Live(t, u)'
              PROVE  Live(t, u) /\ (Listens(t, u) => Listens(t, u)')
  BY ListensKept
<1>. QED BY DEF Listens, Turning, SameListeners, Live, Ending, InReset

\* What a step of anybody but an I/O thread leaves alone.
LEMMA TerminalsAside ==
  ASSUME NEW c \in Conns, Accept(c) \/ Terminal(c) \/ \E u \in Users : Login(c, u)
  PROVE  UNCHANGED <<pc, job, mainPc, todo, it, userConnMap, userState, cmds, subs>>
BY DEF Accept, Terminal, Login, ServersIdle, threadVars, sessionVars, tableVars, redisVars

LEMMA OthersAside ==
  ASSUME NEW s \in Servers, Observe(s) \/ Redis(s) \/ Start(s)
  PROVE  /\ UNCHANGED <<pc, job, mainPc, todo, it, userConnMap, userState, clientPc>>
         /\ UNCHANGED <<cmds, subs>> \/ RedisExecute(s)
<1>1. CASE Observe(s)
  BY <1>1 DEF Observe, ObserverForward, ObserverStore, OfflineInsert, ReadReply, tableVars, redisVars, terminalVars
<1>2. CASE Redis(s) \/ Start(s)
  BY <1>2 DEF Redis, Start, ServersIdle, threadVars, sessionVars, tableVars, redisVars, terminalVars
<1>. QED BY <1>1, <1>2

LEMMA OthersListen ==
  ASSUME TypeInv, NEW s \in Servers, Observe(s) \/ Redis(s) \/ Start(s)
  PROVE  SameListeners
BY OthersAside, NoCommand, CommandExecuted DEF SameListeners

LEMMA ListensStep == MutexInv /\ EntryListens /\ [Next]_vars => EntryListens'
<1>. SUFFICES ASSUME MutexInv, EntryListens, [Next]_vars PROVE EntryListens'
  OBVIOUS
<1>1. ASSUME NEW c \in Conns, Accept(c) \/ Terminal(c) \/ \E u \in Users : Login(c, u)
      PROVE  EntryListens'
  BY <1>1, TerminalsAside, NoCommand, StillListens
<1>2. ASSUME NEW l \in Loops, Dispatch(l) \/ Handle(l) PROVE EntryListens'
  BY <1>2, ThreadListens
<1>3. ASSUME NEW s \in Servers,
             Observe(s) \/ Redis(s) \/ Sigint(s) \/ Reset(s) \/ Crash(s) \/ Start(s)
      PROVE  EntryListens'
  <2>1. CASE Observe(s) \/ Redis(s) \/ Start(s)
    BY <2>1, OthersAside, OthersListen, StillListens DEF MutexInv
  <2>2. CASE ResetExit(s) \/ Crash(s)
    BY <2>2, ProcessEndsListens DEF ResetExit, Crash
  <2>. QED BY <1>3, <2>1, <2>2, ResetListens DEF Reset
<1>4. CASE UNCHANGED vars
  BY <1>4, NoCommand, StillListens DEF vars, threadVars, sessionVars, redisVars
<1>. QED BY <1>1, <1>2, <1>3, <1>4 DEF Next

(***************************************************************************)
(* A session has its channel subscribed, or its login is about to do that, *)
(* or whoever unsubscribed it is about to mark it ended (chatservice.cpp   *)
(* 83, 193, 235): with every fault, in every order in which the servers'   *)
(* commands reach Redis.                                                   *)
(***************************************************************************)
THEOREM SessionsListen == Spec => []EntryListens
<1>1. Init => MutexInv /\ EntryListens
  <2>1. ASSUME Init PROVE EntryListens
    <3>1. \A s \in Servers, u \in Users : ~Live(s, u)
      BY <2>1 DEF Init, Live
    <3>. QED BY <3>1 DEF EntryListens
  <2>. QED BY <2>1, TypeInit, MutexInit DEF MutexInv
<1>2. MutexInv /\ EntryListens /\ [Next]_vars => (MutexInv /\ EntryListens)'
  BY MutexStep, ListensStep
<1>. QED BY <1>1, <1>2, PTL DEF Spec

-----------------------------------------------------------------------------
(***************************************************************************)
(* Nobody but sessions listens.  A login that found its account alone has  *)
(* the entry in its own name, so no close handler works on that entry      *)
(* while the login subscribes; reset would, which is why signals are left  *)
(* out here.                                                               *)
(***************************************************************************)
NoSignal == \A s \in Servers : mainPc[s] = "loop"

EnteringOwns ==
  \A l \in Loops, u \in Users : Entering(l, u) => userConnMap[ServerOf[l]][u] = job[l].conn

ListenersLive == \A s \in Servers, u \in Users : WillListen(s, u) => Live(s, u)

Unheard ==
  \A l \in Loops, u \in Users :
    pc[l] \in {"closeOffline", "closeErase"} /\ job[l].user = u => ~WillListen(ServerOf[l], u)

OwnInv == NoSignal /\ EnteringOwns /\ ListenersLive /\ Unheard

LEMMA OwnKept ==
  ASSUME OwnInv, NoSignal',
         \A l \in Loops, u \in Users : Entering(l, u)' =>
           Entering(l, u) /\ job'[l] = job[l] /\ userConnMap'[ServerOf[l]][u] = userConnMap[ServerOf[l]][u],
         \A s \in Servers, u \in Users : WillListen(s, u)' => WillListen(s, u) /\ Live(s, u)',
         \A l \in Loops : pc'[l] \in {"closeOffline", "closeErase"} =>
           pc[l] \in {"closeOffline", "closeErase"} /\ job'[l] = job[l] /\ ServerOf[l] \in Servers
  PROVE  OwnInv'
<1>1. EnteringOwns'
  BY DEF OwnInv, EnteringOwns
<1>2. ListenersLive'
  BY DEF ListenersLive
<1>3. Unheard'
  BY DEF OwnInv, Unheard
<1>. QED BY <1>1, <1>2, <1>3 DEF OwnInv

LEMMA ThreadsAside ==
  ASSUME MutexInv, NEW l \in Loops, Dispatch(l) \/ Handle(l)
  PROVE  UNCHANGED <<mainPc, todo, it>>
<1>1. \/ RunPendingFunctors(l) \/ \E next, j : QuietMove(l, next, j)
      \/ \E next : Goto(l, next)
      \/ Finish(l)
  BY ThreadShape DEF LoginInsert, LoginSubscribe, LoginOnline, CloseUnsubscribe, CloseOffline, CloseErase
<1>. QED BY <1>1 DEF RunPendingFunctors, threadVars, QuietMove, Goto, Finish, GotoWith

LEMMA SignalFree ==
  ASSUME MutexInv, NoSignal, "sigint" \notin StopKinds, [Next]_vars
  PROVE  NoSignal' /\ \A s \in Servers : ~Sigint(s) /\ ~Reset(s) /\ ~InReset(s)
<1>1. mainPc \in [Servers -> {"loop", "reset", "resetOffline", "exit"}]
  BY DEF MutexInv, TypeInv, TypeOK, ThreadsTypeOK
<1>2. \A s \in Servers : ~Sigint(s) /\ ~Reset(s) /\ ~InReset(s)
  BY DEF NoSignal, Sigint, Reset, ResetUnsubscribe, ResetOffline, ResetClear, ResetExit, InReset
<1>3. ASSUME NEW c \in Conns, Accept(c) \/ Terminal(c) \/ \E u \in Users : Login(c, u) PROVE NoSignal'
  BY <1>3, TerminalsAside DEF NoSignal
<1>4. ASSUME NEW s \in Servers, Observe(s) \/ Redis(s) \/ Start(s) PROVE NoSignal'
  BY <1>4, OthersAside DEF NoSignal
<1>5. ASSUME NEW s \in Servers, Crash(s) PROVE NoSignal'
  BY <1>1, <1>5 DEF Crash, ProcessEnds, NoSignal
<1>6. ASSUME UNCHANGED vars PROVE NoSignal'
  BY <1>6 DEF vars, threadVars, NoSignal
<1>7. ASSUME NEW l \in Loops, Dispatch(l) \/ Handle(l) PROVE NoSignal'
  BY <1>7, ThreadsAside DEF NoSignal
<1>8. ASSUME NEW s \in Servers,
             Observe(s) \/ Redis(s) \/ Sigint(s) \/ Reset(s) \/ Crash(s) \/ Start(s)
      PROVE  NoSignal'
  BY <1>2, <1>4, <1>5, <1>8
<1>9. NoSignal'
  BY <1>3, <1>6, <1>7, <1>8 DEF Next
<1>. QED BY <1>2, <1>9

\* No close handler works on the entry of a login.
LEMMA EntryOfLogin ==
  ASSUME MutexInv, EnteringOwns, NEW l \in Loops, NEW u \in Users, Entering(l, u)
  PROVE  /\ userConnMap[ServerOf[l]][u] = job[l].conn /\ job[l].conn # None
         /\ \A k \in Loops : ServerOf[k] = ServerOf[l]
              /\ pc[k] \in {"closeUnsubscribe", "closeOffline", "closeErase"} => job[k].user # u
<1>1. /\ userConnMap[ServerOf[l]][u] = job[l].conn
      /\ pc[l] \in {"loginSubscribe", "loginOnline"}
  BY DEF EnteringOwns, Entering
<1>2. \A k \in Loops : pc[k] # "idle" => job[k].conn \in Conns /\ LoopOf[job[k].conn] = k
  BY DEF MutexInv, TypeInv, JobsOK, JobOK
<1>3. ASSUME NEW k \in Loops, ServerOf[k] = ServerOf[l], job[k].user = u,
             pc[k] \in {"closeUnsubscribe", "closeOffline", "closeErase"}
      PROVE  FALSE
  <2>1. userConnMap[ServerOf[l]][u] = job[k].conn
    BY <1>3, Standing
  <2>. QED BY <1>1, <1>2, <1>3, <2>1
<1>. QED BY <1>1, <1>2, <1>3, NoneAssumption

-----------------------------------------------------------------------------
(***************************************************************************)
(* What the six steps do to the sessions.                                  *)
(***************************************************************************)
SameSessions ==
  /\ \A s \in Servers, u \in Users : Live(s, u)' <=> Live(s, u)
  /\ \A s \in Servers, u \in Users : Live(s, u) => userConnMap'[s][u] = userConnMap[s][u]

LEMMA InsertEffect ==
  ASSUME MutexInv, Alone, NEW l \in Loops, LoginInsert(l),
         NEW s \in Servers, s = ServerOf[l], NEW v \in Users, v = job[l].user
  PROVE  /\ GotoWith(l, "loginSubscribe", job[l]) /\ pc[l] = "loginInsert"
         /\ UNCHANGED <<userState, clientPc>> /\ SameListeners
         /\ userConnMap[s][v] = None /\ userConnMap'[s][v] = job[l].conn
         /\ \A t \in Servers, u \in Users :
              /\ ~(t = s /\ u = v) => userConnMap'[t][u] = userConnMap[t][u]
              /\ ~(t = s /\ u = v) => (Live(t, u)' <=> Live(t, u))
         /\ \A t \in Servers : ~Live(t, v)
<1>1. /\ GotoWith(l, "loginSubscribe", job[l]) /\ pc[l] = "loginInsert" /\ mutex[s] = None
      /\ UNCHANGED <<userState, clientPc>> /\ SameListeners
      /\ userConnMap' = [userConnMap EXCEPT ![s][v] = IF @ = None THEN job[l].conn ELSE @]
      /\ userConnMap \in [Servers -> [Users -> Conns \cup {None}]]
  BY GotoIs, NoCommand
     DEF LoginInsert, redisVars, tableVars, terminalVars, MutexInv, TypeInv, TypeOK, SessionsTypeOK
<1>2. \A t \in Servers : ~Live(t, v)
  BY <1>1 DEF Alone, NewLoginIsAlone
<1>3. userConnMap[s][v] = None
  <2>1. /\ \A k \in Loops : ServerOf[k] = s => pc[k] \notin LockPcs
        /\ ~InReset(s)
    BY <1>1, FreeLock
  <2>2. ~Ending(s, v)
    BY <2>1 DEF Ending, LockPcs
  <2>. QED BY <1>2, <2>2 DEF Live
<1>4. /\ pc'[l] = "loginSubscribe" /\ UNCHANGED <<mainPc, todo, it>>
      /\ \A k \in Loops : k # l => pc'[k] = pc[k] /\ job'[k] = job[k]
  BY <1>1, Moving
<1>5. ASSUME NEW t \in Servers, NEW u \in Users, ~(t = s /\ u = v)
      PROVE  userConnMap'[t][u] = userConnMap[t][u] /\ (Live(t, u)' <=> Live(t, u))
  <2>1. userConnMap'[t][u] = userConnMap[t][u]
    BY <1>1, <1>5
  <2>2. Ending(t, u)' <=> Ending(t, u)
    BY <1>1, <1>4 DEF Ending, InReset
  <2>. QED BY <2>1, <2>2 DEF Live
<1>. QED BY <1>1, <1>2, <1>3, <1>5

LEMMA SubscribeEffect ==
  ASSUME MutexInv, OwnInv, NEW l \in Loops, LoginSubscribe(l) \/ LoginOnline(l),
         NEW s \in Servers, s = ServerOf[l], NEW v \in Users, v = job[l].user
  PROVE  /\ Entering(l, v) /\ userConnMap[s][v] = job[l].conn /\ Live(s, v)
         /\ \A k \in Loops : ServerOf[k] = s
              /\ pc[k] \in {"closeUnsubscribe", "closeOffline", "closeErase"} => job[k].user # v
         /\ UNCHANGED <<userConnMap, clientPc>> /\ SameSessions
<1>1. PICK next : /\ GotoWith(l, next, job[l]) /\ next \in {"loginOnline", "loginReadOffline"}
                  /\ pc[l] \in {"loginSubscribe", "loginOnline"}
                  /\ UNCHANGED <<userConnMap, clientPc>>
  BY GotoIs DEF LoginSubscribe, LoginOnline, sessionVars, terminalVars, MutexInv
<1>2. SameSessions
  BY <1>1, MovingLive DEF SameSessions
<1>3. Entering(l, v)
  BY <1>1 DEF Entering
<1>4. /\ userConnMap[s][v] = job[l].conn /\ job[l].conn # None
      /\ \A k \in Loops : ServerOf[k] = s
           /\ pc[k] \in {"closeUnsubscribe", "closeOffline", "closeErase"} => job[k].user # v
  BY <1>3, EntryOfLogin DEF OwnInv
<1>5. ~Ending(s, v)
  BY <1>4 DEF OwnInv, NoSignal, Ending, InReset
<1>. QED BY <1>1, <1>2, <1>3, <1>4, <1>5 DEF Live

LEMMA OfflineEffect ==
  ASSUME MutexInv, NEW l \in Loops, CloseOffline(l),
         NEW s \in Servers, s = ServerOf[l], NEW v \in Users, v = job[l].user
  PROVE  /\ GotoWith(l, "closeErase", job[l]) /\ pc[l] = "closeOffline"
         /\ UNCHANGED <<userConnMap, clientPc>> /\ SameListeners
         /\ Live(s, v) /\ ~Live(s, v)'
         /\ \A t \in Servers, u \in Users : ~(t = s /\ u = v) => (Live(t, u)' <=> Live(t, u))
<1>1. /\ GotoWith(l, "closeErase", job[l]) /\ pc[l] = "closeOffline"
      /\ UNCHANGED <<userConnMap, clientPc>> /\ SameListeners
  BY GotoIs, NoCommand DEF CloseOffline, sessionVars, terminalVars, redisVars, MutexInv
<1>2. /\ pc'[l] = "closeErase" /\ job'[l] = job[l] /\ UNCHANGED <<mainPc, todo, it>>
      /\ \A k \in Loops : k # l => pc'[k] = pc[k] /\ job'[k] = job[k]
  BY <1>1, Moving
<1>3. /\ userConnMap[s][v] # None /\ ~InReset(s)
      /\ \A k \in Loops : ServerOf[k] = s /\ pc[k] = "closeErase" => k = l
  BY <1>1, Standing, Working
<1>4. Live(s, v) /\ ~Live(s, v)'
  BY <1>1, <1>2, <1>3 DEF Live, Ending
<1>5. \A t \in Servers, u \in Users : ~(t = s /\ u = v) => (Ending(t, u)' <=> Ending(t, u))
  BY <1>1, <1>2 DEF Ending, InReset
<1>6. \A t \in Servers, u \in Users : ~(t = s /\ u = v) => (Live(t, u)' <=> Live(t, u))
  BY <1>1, <1>5 DEF Live
<1>. QED BY <1>1, <1>4, <1>6

LEMMA EraseEffect ==
  ASSUME MutexInv, NEW l \in Loops, CloseErase(l),
         NEW s \in Servers, s = ServerOf[l], NEW v \in Users, v = job[l].user
  PROVE  /\ GotoWith(l, "idle", NoJob) /\ pc[l] = "closeErase"
         /\ UNCHANGED <<userState, clientPc>> /\ SameListeners /\ SameSessions
         /\ \A t \in Servers, u \in Users : ~(t = s /\ u = v) => userConnMap'[t][u] = userConnMap[t][u]
<1>1. /\ GotoWith(l, "idle", NoJob) /\ pc[l] = "closeErase"
      /\ UNCHANGED <<userState, clientPc>> /\ SameListeners
      /\ userConnMap' = [userConnMap EXCEPT ![s][v] = None]
      /\ userConnMap \in [Servers -> [Users -> Conns \cup {None}]]
  BY NoCommand DEF CloseErase, Finish, tableVars, terminalVars, redisVars, MutexInv, TypeInv, TypeOK, SessionsTypeOK
<1>2. /\ pc'[l] = "idle" /\ UNCHANGED <<mainPc, todo, it>>
      /\ \A k \in Loops : k # l => pc'[k] = pc[k] /\ job'[k] = job[k]
  BY <1>1, Moving
<1>3. ~Live(s, v) /\ ~Live(s, v)'
  BY <1>1 DEF Live, Ending
<1>4. ASSUME NEW t \in Servers, NEW u \in Users, ~(t = s /\ u = v)
      PROVE  userConnMap'[t][u] = userConnMap[t][u] /\ (Live(t, u)' <=> Live(t, u))
  <2>1. userConnMap'[t][u] = userConnMap[t][u]
    BY <1>1, <1>4
  <2>2. Ending(t, u)' <=> Ending(t, u)
    BY <1>1, <1>2, <1>4 DEF Ending, InReset
  <2>. QED BY <2>1, <2>2 DEF Live
<1>. QED BY <1>1, <1>3, <1>4 DEF SameSessions

\* The quiet steps, and CloseUnsubscribe as far as sessions go.
LEMMA QuietEffect ==
  ASSUME MutexInv, NEW l \in Loops, RunPendingFunctors(l) \/ \E next, j : QuietMove(l, next, j)
  PROVE  /\ SameSessions /\ SameListeners /\ UNCHANGED <<userConnMap, userState, clientPc>>
         /\ \A k \in Loops, u \in Users : Entering(k, u)' => Entering(k, u) /\ job'[k] = job[k]
         /\ \A k \in Loops : pc'[k] \in {"closeOffline", "closeErase"} => pc'[k] = pc[k] /\ job'[k] = job[k]
<1>1. CASE RunPendingFunctors(l)
  <2>1. UNCHANGED <<pc, job, mainPc, todo, it, userConnMap, userState, clientPc, cmds, subs>>
    BY <1>1 DEF RunPendingFunctors, threadVars, sessionVars, tableVars, terminalVars, redisVars
  <2>. QED BY <2>1, NoCommand DEF SameSessions, Live, Ending, InReset, Entering
<1>2. ASSUME NEW next, NEW j, QuietMove(l, next, j)
      PROVE  /\ SameSessions /\ SameListeners /\ UNCHANGED <<userConnMap, userState, clientPc>>
             /\ \A k \in Loops, u \in Users : Entering(k, u)' => Entering(k, u) /\ job'[k] = job[k]
             /\ \A k \in Loops : pc'[k] \in {"closeOffline", "closeErase"} => pc'[k] = pc[k] /\ job'[k] = job[k]
  <2>1. SameSessions /\ SameListeners
    BY <1>2, QuietLive, NoCommand DEF QuietMove, SameSessions
  <2>2. /\ pc'[l] = next /\ \A k \in Loops : k # l => pc'[k] = pc[k] /\ job'[k] = job[k]
    BY <1>2, Moving DEF QuietMove
  <2>. QED BY <1>2, <2>1, <2>2 DEF QuietMove, Entering
<1>. QED BY <1>1, <1>2

-----------------------------------------------------------------------------
(***************************************************************************)
(* OneListener.                                                            *)
(***************************************************************************)
LEMMA ThreadOwns ==
  ASSUME MutexInv, Alone, OwnInv, NoSignal', NEW l \in Loops, Dispatch(l) \/ Handle(l)
  PROVE  OwnInv'
<1>0. /\ TypeInv /\ EnteringOwns /\ ListenersLive /\ Unheard
      /\ \A k \in Loops : ServerOf[k] \in Servers
  BY PlacementAssumption DEF OwnInv, MutexInv
<1>1. CASE RunPendingFunctors(l) \/ \E next, j : QuietMove(l, next, j)
  BY <1>0, <1>1, QuietEffect, OwnKept DEF SameSessions, SameListeners, OwnInv, ListenersLive
<1>2. CASE LoginInsert(l)
  <2>. PICK s \in Servers, v \in Users : s = ServerOf[l] /\ v = job[l].user
    BY <1>2, Working
  <2>1. /\ GotoWith(l, "loginSubscribe", job[l]) /\ SameListeners
        /\ userConnMap[s][v] = None /\ userConnMap'[s][v] = job[l].conn
        /\ \A t \in Servers, u \in Users : ~(t = s /\ u = v) =>
             userConnMap'[t][u] = userConnMap[t][u] /\ (Live(t, u)' <=> Live(t, u))
        /\ ~Live(s, v) /\ pc[l] = "loginInsert"
    BY <1>2, InsertEffect
  <2>2. /\ pc'[l] = "loginSubscribe" /\ job'[l] = job[l]
        /\ \A k \in Loops : k # l => pc'[k] = pc[k] /\ job'[k] = job[k]
    BY <2>1, Moving
  <2>3. EnteringOwns'
    <3>. SUFFICES ASSUME NEW k \in Loops, NEW u \in Users, Entering(k, u)'
                  PROVE  userConnMap'[ServerOf[k]][u] = job'[k].conn
      BY DEF EnteringOwns
    <3>1. CASE k = l
      BY <2>1, <2>2, <3>1 DEF Entering
    <3>2. CASE k # l
      <4>1. Entering(k, u) /\ job'[k] = job[k]
        BY <2>2, <3>2 DEF Entering
      <4>2. userConnMap[ServerOf[k]][u] = job[k].conn /\ job[k].conn # None
        BY <1>0, <4>1, EntryOfLogin
      <4>. QED BY <2>1, <4>1, <4>2, PlacementAssumption
    <3>. QED BY <3>1, <3>2
  <2>4. ListenersLive'
    BY <1>0, <2>1 DEF ListenersLive, SameListeners
  <2>5. Unheard'
    BY <1>0, <2>1, <2>2 DEF Unheard, SameListeners
  <2>. QED BY <2>3, <2>4, <2>5 DEF OwnInv
<1>3. CASE LoginSubscribe(l)
  <2>. PICK s \in Servers, v \in Users : s = ServerOf[l] /\ v = job[l].user
    BY <1>3, Working
  <2>1. /\ Entering(l, v) /\ userConnMap[s][v] = job[l].conn /\ Live(s, v)
        /\ \A k \in Loops : ServerOf[k] = s /\ pc[k] \in {"closeOffline", "closeErase"} => job[k].user # v
        /\ UNCHANGED userConnMap /\ SameSessions
    BY <1>3, SubscribeEffect
  <2>2. /\ GotoWith(l, "loginOnline", job[l]) /\ WriteCommand(s, "SUBSCRIBE", v)
        /\ pc[l] = "loginSubscribe"
    BY <1>0, <1>3, GotoIs DEF LoginSubscribe, Subscribe
  <2>3. /\ pc'[l] = "loginOnline" /\ job'[l] = job[l]
        /\ \A k \in Loops : k # l => pc'[k] = pc[k] /\ job'[k] = job[k]
    BY <2>2, Moving
  <2>4. \A t \in Servers, u \in Users : WillListen(t, u)' => WillListen(t, u) \/ (t = s /\ u = v)
    BY <1>0, <2>2, CommandWritten
  <2>5. EnteringOwns'
    BY <1>0, <2>1, <2>2, <2>3 DEF EnteringOwns, Entering
  <2>6. ListenersLive'
    BY <1>0, <2>1, <2>4 DEF ListenersLive, SameSessions
  <2>7. Unheard'
    <3>. SUFFICES ASSUME NEW k \in Loops, NEW u \in Users,
                         pc'[k] \in {"closeOffline", "closeErase"}, job'[k].user = u
                  PROVE  ~WillListen(ServerOf[k], u)'
      BY DEF Unheard
    <3>1. k # l /\ pc'[k] = pc[k] /\ job'[k] = job[k]
      BY <2>3
    <3>2. ~WillListen(ServerOf[k], u) /\ ServerOf[k] \in Servers
      BY <1>0, <3>1 DEF Unheard
    <3>. QED BY <2>1, <2>4, <3>1, <3>2
  <2>. QED BY <2>5, <2>6, <2>7 DEF OwnInv
<1>4. CASE LoginOnline(l)
  <2>. PICK s \in Servers, v \in Users : s = ServerOf[l] /\ v = job[l].user
    BY <1>4, Working
  <2>1. UNCHANGED userConnMap /\ SameSessions
    BY <1>4, SubscribeEffect
  <2>2. GotoWith(l, "loginReadOffline", job[l]) /\ SameListeners
    BY <1>0, <1>4, GotoIs, NoCommand DEF LoginOnline, redisVars
  <2>3. /\ pc'[l] = "loginReadOffline"
        /\ \A k \in Loops : k # l => pc'[k] = pc[k] /\ job'[k] = job[k]
    BY <2>2, Moving
  <2>. QED BY <1>0, <2>1, <2>2, <2>3, OwnKept DEF Entering, SameSessions, SameListeners, ListenersLive
<1>5. CASE CloseUnsubscribe(l)
  <2>. PICK s \in Servers, v \in Users : s = ServerOf[l] /\ v = job[l].user
    BY <1>5, Working
  <2>1. /\ GotoWith(l, "closeOffline", job[l]) /\ WriteCommand(s, "UNSUBSCRIBE", v)
        /\ UNCHANGED userConnMap
    BY <1>0, <1>5, GotoIs DEF CloseUnsubscribe, Unsubscribe, sessionVars
  <2>2. /\ pc'[l] = "closeOffline" /\ job'[l] = job[l]
        /\ \A k \in Loops : k # l => pc'[k] = pc[k] /\ job'[k] = job[k]
    BY <2>1, Moving
  <2>3. \A t \in Servers, u \in Users : WillListen(t, u)' => WillListen(t, u) /\ ~(t = s /\ u = v)
    BY <1>0, <2>1, CommandWritten
  <2>4. EnteringOwns'
    BY <1>0, <2>1, <2>2 DEF EnteringOwns, Entering
  <2>5. ListenersLive'
    BY <1>0, <2>1, <2>3, MovingLive DEF ListenersLive
  <2>6. Unheard'
    <3>. SUFFICES ASSUME NEW k \in Loops, NEW u \in Users,
                         pc'[k] \in {"closeOffline", "closeErase"}, job'[k].user = u
                  PROVE  ~WillListen(ServerOf[k], u)'
      BY DEF Unheard
    <3>1. CASE k = l
      BY <2>2, <2>3, <3>1
    <3>2. CASE k # l
      BY <1>0, <2>2, <2>3, <3>2 DEF Unheard
    <3>. QED BY <3>1, <3>2
  <2>. QED BY <2>4, <2>5, <2>6 DEF OwnInv
<1>6. CASE CloseOffline(l)
  <2>. PICK s \in Servers, v \in Users : s = ServerOf[l] /\ v = job[l].user
    BY <1>6, Working
  <2>1. /\ GotoWith(l, "closeErase", job[l]) /\ pc[l] = "closeOffline"
        /\ UNCHANGED userConnMap /\ SameListeners
        /\ \A t \in Servers, u \in Users : ~(t = s /\ u = v) => (Live(t, u)' <=> Live(t, u))
    BY <1>6, OfflineEffect
  <2>2. /\ pc'[l] = "closeErase" /\ job'[l] = job[l]
        /\ \A k \in Loops : k # l => pc'[k] = pc[k] /\ job'[k] = job[k]
    BY <2>1, Moving
  <2>3. ~WillListen(s, v)
    BY <1>0, <2>1 DEF Unheard
  <2>. QED BY <1>0, <2>1, <2>2, <2>3, OwnKept DEF Entering, SameListeners, ListenersLive
<1>7. CASE CloseErase(l)
  <2>. PICK s \in Servers, v \in Users : s = ServerOf[l] /\ v = job[l].user
    BY <1>7, Working
  <2>1. /\ GotoWith(l, "idle", NoJob) /\ pc[l] = "closeErase" /\ SameListeners /\ SameSessions
        /\ \A t \in Servers, u \in Users : ~(t = s /\ u = v) => userConnMap'[t][u] = userConnMap[t][u]
    BY <1>7, EraseEffect
  <2>2. /\ pc'[l] = "idle"
        /\ \A k \in Loops : k # l => pc'[k] = pc[k] /\ job'[k] = job[k]
    BY <2>1, Moving
  <2>3. \A k \in Loops, u \in Users : Entering(k, u) => ~(ServerOf[k] = s /\ u = v) /\ ServerOf[k] \in Servers
    BY <1>0, <2>1, EntryOfLogin, PlacementAssumption
  <2>. QED BY <1>0, <2>1, <2>2, <2>3, OwnKept DEF Entering, SameListeners, SameSessions, ListenersLive
<1>. QED BY <1>1, <1>2, <1>3, <1>4, <1>5, <1>6, <1>7, ThreadShape

LEMMA ProcessEndsOwns ==
  ASSUME MutexInv, OwnInv, NoSignal', NEW s \in Servers, ProcessEnds(s)
  PROVE  OwnInv'
<1>0. /\ TypeInv /\ EnteringOwns /\ ListenersLive /\ Unheard
      /\ \A k \in Loops : ServerOf[k] \in Servers
  BY PlacementAssumption DEF OwnInv, MutexInv
<1>1. /\ pc' = [l \in Loops |-> IF ServerOf[l] = s THEN "idle" ELSE pc[l]]
      /\ job' = [l \in Loops |-> IF ServerOf[l] = s THEN NoJob ELSE job[l]]
      /\ mainPc' = [mainPc EXCEPT ![s] = "loop"] /\ todo' = [todo EXCEPT ![s] = {}]
      /\ it' = [it EXCEPT ![s] = None]
      /\ userConnMap' = [userConnMap EXCEPT ![s] = [v \in Users |-> None]]
      /\ RedisDisconnect(s)
  BY DEF ProcessEnds
<1>2. /\ mainPc \in [Servers -> {"loop", "reset", "resetOffline", "exit"}]
      /\ todo \in [Servers -> SUBSET Users] /\ it \in [Servers -> Users \cup {None}]
      /\ userConnMap \in [Servers -> [Users -> Conns \cup {None}]]
  BY <1>0 DEF TypeInv, TypeOK, ThreadsTypeOK, SessionsTypeOK
<1>3. ASSUME NEW t \in Servers, t # s
      PROVE  /\ userConnMap'[t] = userConnMap[t]
             /\ \A u \in Users : Live(t, u)' <=> Live(t, u)
  <2>1. /\ UNCHANGED <<userConnMap[t], mainPc[t], todo[t], it[t]>>
        /\ \A l \in Loops : ServerOf[l] = t => pc'[l] = pc[l] /\ job'[l] = job[l]
    BY <1>1, <1>2, <1>3
  <2>. QED BY <2>1 DEF Live, Ending, InReset
<1>4. \A t \in Servers, u \in Users : WillListen(t, u)' => t # s /\ WillListen(t, u)
  BY <1>0, <1>1, CommandsLost
<1>5. \A k \in Loops : pc'[k] # "idle" => ServerOf[k] # s /\ pc'[k] = pc[k] /\ job'[k] = job[k]
  BY <1>1
<1>6. \A k \in Loops, u \in Users : Entering(k, u)' =>
        ServerOf[k] # s /\ Entering(k, u) /\ job'[k] = job[k]
  BY <1>5 DEF Entering
<1>7. \A k \in Loops, u \in Users : Entering(k, u)' =>
        /\ Entering(k, u) /\ job'[k] = job[k]
        /\ userConnMap'[ServerOf[k]][u] = userConnMap[ServerOf[k]][u]
  BY <1>3, <1>6, PlacementAssumption
<1>8. \A t \in Servers, u \in Users : WillListen(t, u)' => WillListen(t, u) /\ Live(t, u)'
  BY <1>0, <1>3, <1>4 DEF ListenersLive
<1>. QED BY <1>0, <1>5, <1>7, <1>8, OwnKept

LEMMA StillOwns ==
  ASSUME OwnInv, NoSignal', UNCHANGED <<pc, job, mainPc, todo, it, userConnMap>>,
         SameListeners
  PROVE  OwnInv'
<1>1. EnteringOwns'
  BY DEF OwnInv, EnteringOwns, Entering
<1>2. ListenersLive'
  BY DEF OwnInv, ListenersLive, SameListeners, Live, Ending, InReset
<1>3. Unheard'
  BY PlacementAssumption DEF OwnInv, Unheard, SameListeners
<1>. QED BY <1>1, <1>2, <1>3 DEF OwnInv

LEMMA OwnStep ==
  ASSUME MutexInv, Alone, OwnInv, "sigint" \notin StopKinds, [Next]_vars
  PROVE  OwnInv'
<1>1. NoSignal' /\ \A s \in Servers : ~Sigint(s) /\ ~Reset(s)
  BY SignalFree DEF OwnInv
<1>2. ASSUME NEW c \in Conns, Accept(c) \/ Terminal(c) \/ \E u \in Users : Login(c, u)
      PROVE  OwnInv'
  BY <1>1, <1>2, TerminalsAside, NoCommand, StillOwns
<1>3. ASSUME NEW l \in Loops, Dispatch(l) \/ Handle(l) PROVE OwnInv'
  BY <1>1, <1>3, ThreadOwns
<1>4. ASSUME NEW s \in Servers,
             Observe(s) \/ Redis(s) \/ Sigint(s) \/ Reset(s) \/ Crash(s) \/ Start(s)
      PROVE  OwnInv'
  <2>1. CASE Observe(s) \/ Redis(s) \/ Start(s)
    BY <1>1, <2>1, OthersAside, OthersListen, StillOwns DEF MutexInv
  <2>2. CASE Crash(s)
    BY <1>1, <2>2, ProcessEndsOwns DEF Crash
  <2>. QED BY <1>1, <1>4, <2>1, <2>2
<1>5. CASE UNCHANGED vars
  BY <1>1, <1>5, NoCommand, StillOwns DEF vars, threadVars, sessionVars, redisVars
<1>. QED BY <1>2, <1>3, <1>4, <1>5 DEF Next

LEMMA OwnInit == Init => OwnInv
<1>. SUFFICES ASSUME Init PROVE OwnInv
  OBVIOUS
<1>1. /\ \A s \in Servers : mainPc[s] = "loop" /\ cmds[s] = <<>>
      /\ \A l \in Loops : pc[l] = "idle"
      /\ \A u \in Users : subs[u] = {}
  BY DEF Init, RedisInit
<1>2. \A s \in Servers, u \in Users : ~WillListen(s, u)
  BY <1>1 DEF WillListen
<1>. QED BY <1>1, <1>2 DEF OwnInv, NoSignal, EnteringOwns, ListenersLive, Unheard, Entering

(***************************************************************************)
(* A message published to an account (chatservice.cpp:219, 295) reaches    *)
(* one server and not two: every listener has a session of the account,    *)
(* and there is one.  Servers may crash at any moment and come back.  They *)
(* must not be interrupted by SIGINT: a login that inserted its entry just *)
(* before reset subscribes after reset has unsubscribed and marked the     *)
(* account offline, and the server goes on listening until it is gone.     *)
(***************************************************************************)
THEOREM ListenerIsAlone ==
  ASSUME Patient, ~DBFaults, "sigint" \notin StopKinds
  PROVE  Spec => []OneListener
<1> DEFINE Inv == MutexInv /\ OneLogin /\ Alone /\ OwnInv
<1>1. Init => Inv
  BY TypeInit, MutexInit, SessionInit, OwnInit DEF MutexInv
<1>2. Inv /\ [Next]_vars => Inv'
  BY MutexStep, OneLoginStep, AloneStep, OwnStep
<1>3. Inv => OneListener
  BY DEF Alone, AtMostOneSession, OwnInv, ListenersLive, OneListener
<1>. QED BY <1>1, <1>2, <1>3, PTL DEF Spec

-----------------------------------------------------------------------------
(***************************************************************************)
(* An online account has a session, when no server stops: the update of    *)
(* line 86 comes while the entry is there, and who is about to erase the   *)
(* entry has marked the account offline.                                   *)
(***************************************************************************)
OnlineIsLive == \A u \in Users : userState[u] = "online" => \E s \in Servers : Live(s, u)

LEMMA ThreadOnline ==
  ASSUME MutexInv, Alone, OwnInv, OnlineIsLive, ~DBFaults, NEW l \in Loops, Dispatch(l) \/ Handle(l)
  PROVE  OnlineIsLive'
<1>0. TypeInv /\ userState \in [Users -> {"online", "offline"}]
  BY DEF MutexInv, TypeInv, TypeOK, TablesTypeOK
<1>1. CASE RunPendingFunctors(l) \/ \E next, j : QuietMove(l, next, j)
  BY <1>1, QuietEffect DEF SameSessions, OnlineIsLive
<1>2. CASE LoginInsert(l)
  <2>. PICK s \in Servers, v \in Users : s = ServerOf[l] /\ v = job[l].user
    BY <1>2, Working
  <2>1. /\ \A t \in Servers, u \in Users : ~(t = s /\ u = v) => (Live(t, u)' <=> Live(t, u))
        /\ ~Live(s, v) /\ UNCHANGED userState
    BY <1>2, InsertEffect
  <2>. QED BY <2>1 DEF OnlineIsLive
<1>3. CASE LoginSubscribe(l) \/ LoginOnline(l)
  <2>. PICK s \in Servers, v \in Users : s = ServerOf[l] /\ v = job[l].user
    BY <1>3, Working
  <2>1. Live(s, v) /\ SameSessions
    BY <1>3, SubscribeEffect
  <2>2. UNCHANGED userState \/ userState' = [userState EXCEPT ![v] = "online"]
    BY <1>3, UpdateSucceeds DEF LoginSubscribe, LoginOnline, tableVars
  <2>. QED BY <1>0, <2>1, <2>2 DEF OnlineIsLive, SameSessions
<1>4. CASE CloseUnsubscribe(l)
  <2>1. GotoWith(l, "closeOffline", job[l]) /\ UNCHANGED <<userConnMap, userState>>
    BY <1>0, <1>4, GotoIs DEF CloseUnsubscribe, sessionVars, tableVars
  <2>. QED BY <2>1, MovingLive DEF OnlineIsLive
<1>5. CASE CloseOffline(l)
  <2>. PICK s \in Servers, v \in Users : s = ServerOf[l] /\ v = job[l].user
    BY <1>5, Working
  <2>1. \A t \in Servers, u \in Users : ~(t = s /\ u = v) => (Live(t, u)' <=> Live(t, u))
    BY <1>5, OfflineEffect
  <2>2. userState' = [userState EXCEPT ![v] = "offline"]
    BY <1>5, UpdateSucceeds DEF CloseOffline
  <2>. QED BY <1>0, <2>1, <2>2 DEF OnlineIsLive
<1>6. CASE CloseErase(l)
  <2>. PICK s \in Servers, v \in Users : s = ServerOf[l] /\ v = job[l].user
    BY <1>6, Working
  <2>1. SameSessions /\ UNCHANGED userState
    BY <1>6, EraseEffect
  <2>. QED BY <2>1 DEF OnlineIsLive, SameSessions
<1>. QED BY <1>1, <1>2, <1>3, <1>4, <1>5, <1>6, ThreadShape

LEMMA StillOnline ==
  ASSUME OnlineIsLive, UNCHANGED <<pc, job, mainPc, todo, it, userConnMap, userState>>
  PROVE  OnlineIsLive'
BY DEF OnlineIsLive, Live, Ending, InReset

LEMMA OnlineStep ==
  ASSUME MutexInv, Alone, OwnInv, OnlineIsLive, ~DBFaults, StopKinds = {}, [Next]_vars
  PROVE  OnlineIsLive'
<1>1. \A s \in Servers : ~Sigint(s) /\ ~Reset(s) /\ ~Crash(s)
  BY SignalFree DEF OwnInv, Crash
<1>2. ASSUME NEW c \in Conns, Accept(c) \/ Terminal(c) \/ \E u \in Users : Login(c, u)
      PROVE  OnlineIsLive'
  BY <1>2, TerminalsAside, StillOnline
<1>3. ASSUME NEW l \in Loops, Dispatch(l) \/ Handle(l) PROVE OnlineIsLive'
  BY <1>3, ThreadOnline
<1>4. ASSUME NEW s \in Servers,
             Observe(s) \/ Redis(s) \/ Sigint(s) \/ Reset(s) \/ Crash(s) \/ Start(s)
      PROVE  OnlineIsLive'
  BY <1>1, <1>4, OthersAside, StillOnline
<1>5. CASE UNCHANGED vars
  BY <1>5, StillOnline DEF vars, threadVars, sessionVars, tableVars
<1>. QED BY <1>2, <1>3, <1>4, <1>5 DEF Next

PresenceInv == MutexInv /\ OneLogin /\ Alone /\ OwnInv /\ OnlineIsLive

LEMMA PresenceInit == Init => PresenceInv
<1>1. Init => OnlineIsLive
  BY DEF Init, TablesInit, OnlineIsLive
<1>. QED BY <1>1, TypeInit, MutexInit, SessionInit, OwnInit DEF MutexInv, PresenceInv

LEMMA PresenceStep ==
  ASSUME Patient, ~DBFaults, StopKinds = {}, PresenceInv, [Next]_vars
  PROVE  PresenceInv'
BY MutexStep, OneLoginStep, AloneStep, OwnStep, OnlineStep DEF PresenceInv

(***************************************************************************)
(* Nobody is locked out by the test of line 67: an account that is online  *)
(* has a session whose end will mark it offline (line 195).  A crash loses *)
(* the sessions and leaves their accounts online, and a failing query or   *)
(* update does so too, so both are left out here.                          *)
(***************************************************************************)
THEOREM NobodyLockedOut ==
  ASSUME Patient, ~DBFaults, StopKinds = {}
  PROVE  Spec => []NoLockout
<1>1. PresenceInv => NoLockout
  BY DEF PresenceInv, OnlineIsLive, NoLockout, Live
<1>. QED BY <1>1, PresenceInit, PresenceStep, PTL DEF Spec

-----------------------------------------------------------------------------
(***************************************************************************)
(* The refinement of Presence.                                             *)
(***************************************************************************)
LEMMA SessionIs ==
  ASSUME MutexInv, AtMostOneSession, NEW s \in Servers, NEW u \in Users,
         userState[u] = "online", Live(s, u)
  PROVE  SessionOf(u) = userConnMap[s][u] /\ SessionOf(u) \in Conns
<1>1. userConnMap[s][u] \in Conns
  BY DEF MutexInv, TypeInv, TypeOK, SessionsTypeOK, Live
<1>2. \A t \in Servers : Live(t, u) => t = s
  BY DEF AtMostOneSession
<1>. QED BY <1>1, <1>2 DEF SessionOf

LEMMA SessionThen ==
  ASSUME AtMostOneSession', NEW s \in Servers, NEW u \in Users, NEW c \in Conns,
         userState'[u] = "online", Live(s, u)', userConnMap'[s][u] = c
  PROVE  SessionOf(u)' = c
<1>1. \A t \in Servers : Live(t, u)' => t = s
  BY DEF AtMostOneSession
<1>. QED BY <1>1 DEF SessionOf

SameSessionOf(u) ==
  /\ userState'[u] = userState[u]
  /\ \A s \in Servers : Live(s, u) => Live(s, u)' /\ userConnMap'[s][u] = userConnMap[s][u]

LEMMA SessionStays ==
  ASSUME PresenceInv, AtMostOneSession', NEW u \in Users, SameSessionOf(u)
  PROVE  SessionOf(u)' = SessionOf(u)
<1>1. CASE userState[u] # "online"
  BY <1>1 DEF SessionOf, SameSessionOf
<1>2. CASE userState[u] = "online"
  <2>1. PICK s \in Servers : Live(s, u)
    BY <1>2 DEF PresenceInv, OnlineIsLive
  <2>2. SessionOf(u) = userConnMap[s][u] /\ SessionOf(u) \in Conns
    BY <1>2, <2>1, SessionIs DEF PresenceInv, Alone
  <2>. QED BY <1>2, <2>1, <2>2, SessionThen DEF SameSessionOf
<1>. QED BY <1>1, <1>2

Sessions == [u \in Users |-> SessionOf(u)]
Gone == {c \in Conns : clientPc[c] = "closed"}

LEMMA Stutter ==
  ASSUME PresenceInv, AtMostOneSession', \A u \in Users : SameSessionOf(u), Gone' = Gone
  PROVE  UNCHANGED <<Sessions, Gone>>
<1>1. \A u \in Users : SessionOf(u)' = SessionOf(u)
  BY SessionStays
<1>. QED BY <1>1 DEF Sessions

LEMMA UpdatedSession ==
  ASSUME NEW v \in Users, NEW c, SessionOf(v)' = c,
         \A u \in Users : u # v => SessionOf(u)' = SessionOf(u)
  PROVE  Sessions' = [Sessions EXCEPT ![v] = c]
BY DEF Sessions

\* Line 86 is where an account gets its terminal.
LEMMA LoginOnlineIsLogIn ==
  ASSUME PresenceInv, ConnInv, AtMostOneSession', ~DBFaults, NEW l \in Loops, LoginOnline(l)
  PROVE  \E v \in Users, c \in Conns :
           /\ Sessions[v] = None /\ \A u \in Users : Sessions[u] # c
           /\ Sessions' = [Sessions EXCEPT ![v] = c] /\ Gone' = Gone
<1>0. MutexInv /\ OwnInv /\ userState \in [Users -> {"online", "offline"}]
  BY DEF PresenceInv, MutexInv, TypeInv, TypeOK, TablesTypeOK
<1>. PICK s \in Servers, v \in Users, c \in Conns : s = ServerOf[l] /\ v = job[l].user /\ c = job[l].conn
  BY <1>0, Working
<1>1. /\ Entering(l, v) /\ userConnMap[s][v] = c /\ Live(s, v)
      /\ UNCHANGED <<userConnMap, clientPc>> /\ SameSessions
  BY <1>0, SubscribeEffect
<1>2. userState' = [userState EXCEPT ![v] = "online"]
  BY UpdateSucceeds DEF LoginOnline
<1>3. userState[v] = "offline"
  BY <1>1 DEF PresenceInv, Alone, EnteringIsAlone
<1>4. ASSUME NEW u \in Users, SessionOf(u) = c PROVE FALSE
  <2>1. userState[u] = "online"
    BY <1>4, NoneAssumption DEF SessionOf
  <2>2. PICK t \in Servers : Live(t, u)
    BY <2>1 DEF PresenceInv, OnlineIsLive
  <2>3. userConnMap[t][u] = c
    BY <1>0, <1>4, <2>1, <2>2, SessionIs DEF PresenceInv, Alone
  <2>4. userConnMap[s][v] # None /\ userConnMap[t][u] # None
    BY <1>1, <2>3, NoneAssumption
  <2>. QED BY <1>0, <1>1, <1>3, <2>1, <2>3, <2>4, EntryFacts DEF EntryOK
<1>5. SessionOf(v)' = c
  BY <1>0, <1>1, <1>2, SessionThen DEF SameSessions
<1>6. \A u \in Users : u # v => SessionOf(u)' = SessionOf(u)
  BY <1>0, <1>1, <1>2, SessionStays DEF SameSessions, SameSessionOf
<1>7. Sessions' = [Sessions EXCEPT ![v] = c]
  BY <1>5, <1>6, UpdatedSession
<1>8. SessionOf(v) = None
  BY <1>3 DEF SessionOf
<1>. QED BY <1>1, <1>4, <1>7, <1>8 DEF Sessions, Gone

\* Line 195 is where it loses it.
LEMMA CloseOfflineIsLogOut ==
  ASSUME PresenceInv, AtMostOneSession', ~DBFaults, NEW l \in Loops, CloseOffline(l)
  PROVE  \E v \in Users :
           Sessions[v] # None /\ Sessions' = [Sessions EXCEPT ![v] = None] /\ Gone' = Gone
<1>0. MutexInv /\ OwnInv /\ userState \in [Users -> {"online", "offline"}]
  BY DEF PresenceInv, MutexInv, TypeInv, TypeOK, TablesTypeOK
<1>. PICK s \in Servers, v \in Users : s = ServerOf[l] /\ v = job[l].user
  BY <1>0, Working
<1>1. /\ UNCHANGED <<userConnMap, clientPc>> /\ Live(s, v) /\ pc[l] = "closeOffline"
      /\ \A t \in Servers, u \in Users : ~(t = s /\ u = v) => (Live(t, u)' <=> Live(t, u))
  BY <1>0, OfflineEffect
<1>2. userState' = [userState EXCEPT ![v] = "offline"]
  BY UpdateSucceeds DEF CloseOffline
<1>3. SessionOf(v)' = None
  BY <1>0, <1>2 DEF SessionOf
<1>4. \A u \in Users : u # v => SessionOf(u)' = SessionOf(u)
  BY <1>0, <1>1, <1>2, SessionStays DEF SameSessionOf
<1>5. \A k \in Loops : ServerOf[k] = s => ~Entering(k, v)
  BY <1>0, <1>1, EntryOfLogin DEF OwnInv
<1>6. userState[v] = "online"
  BY <1>1, <1>5 DEF PresenceInv, Alone, LiveIsOnline
<1>7. SessionOf(v) # None
  BY <1>0, <1>1, <1>6, SessionIs, NoneAssumption DEF PresenceInv, Alone
<1>. QED BY <1>1, <1>3, <1>4, <1>7, UpdatedSession DEF Gone, Sessions

LEMMA ThreadPresence ==
  ASSUME PresenceInv, ConnInv, AtMostOneSession', ~DBFaults, NEW l \in Loops, Dispatch(l) \/ Handle(l)
  PROVE  [P!Next]_<<Sessions, Gone>>
<1>0. MutexInv /\ TypeInv /\ Alone /\ OwnInv
  BY DEF PresenceInv, MutexInv
<1>1. CASE RunPendingFunctors(l) \/ \E next, j : QuietMove(l, next, j)
  <2>1. SameSessions /\ UNCHANGED <<userConnMap, userState, clientPc>>
    BY <1>0, <1>1, QuietEffect
  <2>. QED BY <2>1, Stutter DEF SameSessions, SameSessionOf, Gone
<1>2. CASE LoginInsert(l)
  <2>. PICK s \in Servers, v \in Users : s = ServerOf[l] /\ v = job[l].user
    BY <1>0, <1>2, Working
  <2>1. /\ UNCHANGED <<userState, clientPc>>
        /\ \A t \in Servers, u \in Users :
             /\ ~(t = s /\ u = v) => userConnMap'[t][u] = userConnMap[t][u]
             /\ ~(t = s /\ u = v) => (Live(t, u)' <=> Live(t, u))
        /\ ~Live(s, v)
    BY <1>0, <1>2, InsertEffect
  <2>. QED BY <2>1, Stutter DEF SameSessionOf, Gone
<1>3. CASE LoginSubscribe(l)
  <2>1. SameSessions /\ UNCHANGED <<userConnMap, userState, clientPc>>
    BY <1>0, <1>3, Working, SubscribeEffect DEF LoginSubscribe, tableVars
  <2>. QED BY <2>1, Stutter DEF SameSessions, SameSessionOf, Gone
<1>4. CASE LoginOnline(l)
  BY <1>4, LoginOnlineIsLogIn DEF P!Next, P!LogIn, Sessions, Gone
<1>5. CASE CloseUnsubscribe(l)
  <2>1. GotoWith(l, "closeOffline", job[l]) /\ UNCHANGED <<userConnMap, userState, clientPc>>
    BY <1>0, <1>5, GotoIs DEF CloseUnsubscribe, sessionVars, tableVars, terminalVars
  <2>2. \A s \in Servers, u \in Users : Live(s, u) => Live(s, u)'
    BY <1>0, <2>1, MovingLive
  <2>. QED BY <2>1, <2>2, Stutter DEF SameSessionOf, Gone
<1>6. CASE CloseOffline(l)
  BY <1>6, CloseOfflineIsLogOut DEF P!Next, P!LogOut, Sessions, Gone
<1>7. CASE CloseErase(l)
  <2>1. SameSessions /\ UNCHANGED <<userState, clientPc>>
    BY <1>0, <1>7, Working, EraseEffect
  <2>. QED BY <2>1, Stutter DEF SameSessions, SameSessionOf, Gone
<1>. QED BY <1>0, <1>1, <1>2, <1>3, <1>4, <1>5, <1>6, <1>7, ThreadShape

LEMMA SessionsAside ==
  ASSUME PresenceInv, AtMostOneSession',
         UNCHANGED <<pc, job, mainPc, todo, it, userConnMap, userState>>
  PROVE  UNCHANGED Sessions
<1>1. \A u \in Users : SameSessionOf(u)
  BY DEF SameSessionOf, Live, Ending, InReset
<1>. QED BY <1>1, SessionStays DEF Sessions

LEMMA TerminalPresence ==
  ASSUME PresenceInv, AtMostOneSession', NEW c \in Conns,
         Accept(c) \/ Terminal(c) \/ \E u \in Users : Login(c, u)
  PROVE  [P!Next]_<<Sessions, Gone>>
<1>1. UNCHANGED Sessions
  BY TerminalsAside, SessionsAside
<1>2. clientPc \in [Conns -> {"off", "menu", "waiting", "chatting", "closed"}]
  BY DEF PresenceInv, MutexInv, TypeInv, TypeOK, TerminalsTypeOK
<1>3. CASE Exit(c)
  <2>1. c \notin Gone /\ Gone' = Gone \cup {c}
    BY <1>2, <1>3 DEF Exit, Gone
  <2>. QED BY <1>1, <2>1 DEF P!Next, P!Leave, Sessions, Gone
<1>4. ASSUME ~Exit(c) PROVE Gone' = Gone
  <2>1. \/ UNCHANGED clientPc
        \/ \E at : at # "closed" /\ clientPc[c] # "closed" /\ clientPc' = [clientPc EXCEPT ![c] = at]
    BY <1>4 DEF Accept, Connect, Terminal, Login, ReadLoginAck, SendChat, SendGroupChat, SendLoginout, SendLogin
  <2>. QED BY <1>2, <2>1 DEF Gone
<1>. QED BY <1>1, <1>3, <1>4

LEMMA PresenceSimulation ==
  ASSUME Patient, ~DBFaults, StopKinds = {}, PresenceInv, ConnInv, [Next]_vars
  PROVE  [P!Next]_<<Sessions, Gone>>
<1>0. AtMostOneSession' /\ \A s \in Servers : ~Sigint(s) /\ ~Reset(s) /\ ~Crash(s)
  <2>1. PresenceInv'
    BY PresenceStep
  <2>. QED BY <2>1, SignalFree DEF PresenceInv, Alone, OwnInv, Crash
<1>1. ASSUME NEW c \in Conns, Accept(c) \/ Terminal(c) \/ \E u \in Users : Login(c, u)
      PROVE  [P!Next]_<<Sessions, Gone>>
  BY <1>0, <1>1, TerminalPresence
<1>2. ASSUME NEW l \in Loops, Dispatch(l) \/ Handle(l) PROVE [P!Next]_<<Sessions, Gone>>
  BY <1>0, <1>2, ThreadPresence
<1>3. ASSUME NEW s \in Servers,
             Observe(s) \/ Redis(s) \/ Sigint(s) \/ Reset(s) \/ Crash(s) \/ Start(s)
      PROVE  UNCHANGED <<Sessions, Gone>>
  BY <1>0, <1>3, OthersAside, SessionsAside DEF Gone
<1>4. CASE UNCHANGED vars
  BY <1>0, <1>4, SessionsAside DEF vars, threadVars, sessionVars, tableVars, terminalVars, Gone
<1>. QED BY <1>1, <1>2, <1>3, <1>4 DEF Next

(***************************************************************************)
(* The cluster implements Presence, for any number of servers, threads and *)
(* terminals: the update of line 86 is where an account gets its terminal, *)
(* that of line 195 where it loses it, and no other step of a handler, of  *)
(* Redis or of an observer thread shows.  An account goes to one terminal  *)
(* at a time, and a terminal carries one account at a time.                *)
(***************************************************************************)
THEOREM PresenceImplemented ==
  ASSUME Patient, ~DBFaults, StopKinds = {}
  PROVE  Spec => ImplementsPresence
<1> DEFINE Inv == PresenceInv /\ ConnInv
<1>1. Init => Inv
  BY PresenceInit, ConnBegins
<1>2. Inv /\ [Next]_vars => Inv'
  BY PresenceStep, ConnStep DEF PresenceInv
<1>3. Init => P!Init
  BY DEF Init, TablesInit, TerminalsInit, P!Init, SessionOf
<1>4. Inv /\ [Next]_vars => [P!Next]_<<Sessions, Gone>>
  BY PresenceSimulation
<1>. QED BY <1>1, <1>2, <1>3, <1>4, PTL DEF Spec, ImplementsPresence, P!Spec, Sessions, Gone
=============================================================================
