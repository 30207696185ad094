---------------------------- MODULE ChatService ----------------------------
(***************************************************************************)
(* ChatServer and ChatService: the handlers that keep the sessions and     *)
(* route the messages, on several servers that share MySQL and Redis.      *)
(*                                                                         *)
(* A step is what one thread does between two points where another thread  *)
(* may interfere: one statement in MySQL, one command to Redis, one        *)
(* critical section of _userConnMutex (or its beginning or end, when the   *)
(* section contains other steps).  A handler runs to its end in the I/O    *)
(* thread of its connection; pc and job are that thread's program counter  *)
(* and local variables.                                                    *)
(***************************************************************************)
EXTENDS ChatTables, RedisPubSub, ChatTerminals

VARIABLES
  up,           \* the server's process runs
  stops,        \* how often servers stopped
  connected,    \* TcpConnection::connected()
  served,       \* the connection had its event in this iteration of its loop
  pending,      \* frames queued in the loop by other threads
  userConnMap,  \* _userConnMap of each server, None where there is no entry
  mutex,        \* holder of _userConnMutex of each server
  pc, job,      \* per I/O thread: the handler it is in, and its locals
  observer,     \* per server: the letter the observer thread has in hand
  mainPc,       \* per server: the main thread, in its loop or in reset
  todo, it      \* per server: the entries reset has left, and the one it is at

netVars == <<connected, served, pending, toClient>>
threadVars == <<pc, job, observer, mainPc, todo, it>>
sessionVars == <<userConnMap, mutex>>
processVars == <<up, stops>>
vars == <<tableVars, redisVars, terminalVars, netVars, threadVars,
          sessionVars, processVars>>

LoginPcs == {"login", "loginInsert", "loginSubscribe", "loginOnline",
             "loginReadOffline", "loginRemoveOffline", "loginAck"}
ClosePcs == {"close", "closeUnsubscribe", "closeOffline", "closeErase"}
OneChatPcs == {"oneChat", "oneChatQuery", "oneChatPublish", "oneChatStore"}
GroupChatPcs == {"groupChat", "groupLock", "groupNext", "groupPublish", "groupStore"}
Pcs == {"idle"} \cup LoginPcs \cup ClosePcs \cup OneChatPcs \cup GroupChatPcs

JobFor(c, u, m, p) ==
  [conn |-> c, user |-> u, msg |-> m, password |-> p, rest |-> {}, msgs |-> <<>>]

NoJob == JobFor(None, None, None, None)

Jobs == [conn : Conns \cup {None}, user : Users \cup {None},
         msg : Msgs \cup {None}, password : {"right", "wrong", None},
         rest : SUBSET Users, msgs : Seq(Msgs)]

NoLetter == [channel |-> None, msg |-> None]

NetTypeOK ==
  /\ connected \in [Conns -> BOOLEAN]
  /\ served \in [Conns -> BOOLEAN]
  /\ pending \in [Conns -> Seq(Frames)]
  /\ toClient \in [Conns -> Seq(Frames)]

ThreadsTypeOK ==
  /\ pc \in [Loops -> Pcs]
  /\ job \in [Loops -> Jobs]
  /\ observer \in [Servers -> Letters \cup {NoLetter}]
  /\ mainPc \in [Servers -> {"loop", "reset", "resetOffline", "exit"}]
  /\ todo \in [Servers -> SUBSET Users]
  /\ it \in [Servers -> Users \cup {None}]

SessionsTypeOK ==
  /\ userConnMap \in [Servers -> [Users -> Conns \cup {None}]]
  /\ mutex \in [Servers -> Loops \cup OtherThreads \cup {None}]

ProcessesTypeOK ==
  /\ up \in [Servers -> BOOLEAN]
  /\ stops \in Nat

TypeOK ==
  /\ TablesTypeOK /\ RedisTypeOK /\ TerminalsTypeOK
  /\ NetTypeOK /\ ThreadsTypeOK /\ SessionsTypeOK /\ ProcessesTypeOK

Init ==
  /\ TablesInit /\ RedisInit /\ TerminalsInit
  /\ up = [s \in Servers |-> TRUE]
  /\ stops = 0
  /\ connected = [c \in Conns |-> FALSE]
  /\ served = [c \in Conns |-> FALSE]
  /\ pending = [c \in Conns |-> <<>>]
  /\ userConnMap = [s \in Servers |-> [u \in Users |-> None]]
  /\ mutex = [s \in Servers |-> None]
  /\ pc = [l \in Loops |-> "idle"]
  /\ job = [l \in Loops |-> NoJob]
  /\ observer = [s \in Servers |-> NoLetter]
  /\ mainPc = [s \in Servers |-> "loop"]
  /\ todo = [s \in Servers |-> {}]
  /\ it = [s \in Servers |-> None]

-----------------------------------------------------------------------------
(***************************************************************************)
(* Building blocks.                                                        *)
(***************************************************************************)
ConnServer(c) == ServerOf[LoopOf[c]]

Goto(l, next) ==
  /\ pc' = [pc EXCEPT ![l] = next]
  /\ UNCHANGED <<job, observer, mainPc, todo, it>>

GotoWith(l, next, j) ==
  /\ pc' = [pc EXCEPT ![l] = next]
  /\ job' = [job EXCEPT ![l] = j]
  /\ UNCHANGED <<observer, mainPc, todo, it>>

Finish(l) == GotoWith(l, "idle", NoJob)

(***************************************************************************)
(* TcpConnection::send by thread t.  In the connection's own I/O thread    *)
(* the bytes go out at once; any other thread queues a functor in that     *)
(* I/O thread.  On a connection that is down nothing is sent.              *)
(***************************************************************************)
SendFrame(t, c, f) ==
  /\ toClient' = IF connected[c] /\ t = LoopOf[c]
                 THEN [toClient EXCEPT ![c] = Append(@, f)] ELSE toClient
  /\ pending' = IF connected[c] /\ t # LoopOf[c]
                THEN [pending EXCEPT ![c] = Append(@, f)] ELSE pending
  /\ UNCHANGED <<connected, served>>

AckFrame(kind, u, msgs) == [kind |-> kind, user |-> u, msgs |-> msgs]
MsgFrame(u, m) == [kind |-> "msg", user |-> u, msgs |-> <<m>>]

Lock(s, t) ==
  /\ mutex[s] = None
  /\ mutex' = [mutex EXCEPT ![s] = t]

Unlock(s) == mutex' = [mutex EXCEPT ![s] = None]

-----------------------------------------------------------------------------
(***************************************************************************)
(* ChatServer: connections and dispatch.                                   *)
(***************************************************************************)
Accept(c) ==
  /\ up[ConnServer(c)]
  /\ Connect(c)
  /\ connected' = [connected EXCEPT ![c] = TRUE]
  /\ UNCHANGED <<tableVars, redisVars, served, pending, threadVars,
                 sessionVars, processVars>>

HandlerOf == [login |-> "login", loginout |-> "close",
              oneChat |-> "oneChat", groupChat |-> "groupChat"]

\* onMessage: read the request and call the handler getMsgHandler returns.
OnMessage(l, c) ==
  /\ pc[l] = "idle"
  /\ LoopOf[c] = l /\ connected[c] /\ ~served[c]
  /\ request[c] # NoRequest
  /\ LET r == request[c] IN
       GotoWith(l, HandlerOf[r.kind],
                JobFor(c, IF r.kind = "loginout" THEN None ELSE r.user,
                       r.msg, r.password))
  /\ request' = [request EXCEPT ![c] = NoRequest]
  /\ served' = [served EXCEPT ![c] = TRUE]
  /\ UNCHANGED <<tableVars, redisVars, clientPc, clientUser, nread, sent,
                 connected, pending, toClient, sessionVars, processVars>>

\* Mutant: onConnection shuts the connection down and tells nobody.
OnCloseUnnoticed(l, c) ==
  /\ pc[l] = "idle"
  /\ LoopOf[c] = l /\ connected[c] /\ ~served[c]
  /\ clientPc[c] = "closed" /\ request[c] = NoRequest
  /\ connected' = [connected EXCEPT ![c] = FALSE]
  /\ UNCHANGED <<tableVars, redisVars, terminalVars, served, pending, toClient,
                 threadVars, sessionVars, processVars>>

\* The end of stream: muduo marks the connection down, then onConnection
\* calls clientCloseException.
OnClose(l, c) ==
  /\ pc[l] = "idle"
  /\ LoopOf[c] = l /\ connected[c] /\ ~served[c]
  /\ clientPc[c] = "closed" /\ request[c] = NoRequest
  /\ connected' = [connected EXCEPT ![c] = FALSE]
  /\ served' = [served EXCEPT ![c] = TRUE]
  /\ GotoWith(l, "close", JobFor(c, None, None, None))
  /\ UNCHANGED <<tableVars, redisVars, terminalVars, pending, toClient,
                 sessionVars, processVars>>

\* The end of an iteration of EventLoop::loop: doPendingFunctors.
RunPendingFunctors(l) ==
  /\ pc[l] = "idle"
  /\ \E c \in Conns : LoopOf[c] = l /\ (served[c] \/ pending[c] # <<>>)
  /\ toClient' = [c \in Conns |-> IF LoopOf[c] = l /\ connected[c]
                                  THEN toClient[c] \o pending[c] ELSE toClient[c]]
  /\ pending' = [c \in Conns |-> IF LoopOf[c] = l THEN <<>> ELSE pending[c]]
  /\ served' = [c \in Conns |-> IF LoopOf[c] = l THEN FALSE ELSE served[c]]
  /\ UNCHANGED <<tableVars, redisVars, terminalVars, connected, threadVars,
                 sessionVars, processVars>>

-----------------------------------------------------------------------------
(***************************************************************************)
(* login                                                                   *)
(***************************************************************************)
\* Mutant: the refusal is not sent.
LoginRefuseSilently(l) ==
  /\ pc[l] = "login"
  /\ \E row \in UserQuery(job[l].user) :
       row = "none" \/ job[l].password # "right" \/ row = "online"
  /\ Finish(l)
  /\ UNCHANGED <<tableVars, redisVars, terminalVars, netVars, sessionVars, processVars>>

\* The answers with errno 2 (line 69) and 1 (line 148).
LoginRefuse(l) ==
  /\ pc[l] = "login"
  /\ \E row \in UserQuery(job[l].user) :
       row = "none" \/ job[l].password # "right" \/ row = "online"
  /\ SendFrame(l, job[l].conn, AckFrame("refused", job[l].user, <<>>))
  /\ Finish(l)
  /\ UNCHANGED <<tableVars, redisVars, terminalVars, sessionVars, processVars>>

\* Mutant: line 67 without the test of the state.
LoginAcceptAnyState(l) ==
  /\ pc[l] = "login"
  /\ job[l].password = "right"
  /\ Goto(l, "loginInsert")
  /\ UNCHANGED <<tableVars, redisVars, terminalVars, netVars, sessionVars, processVars>>

LoginAccept(l) ==
  /\ pc[l] = "login"
  /\ job[l].password = "right"
  /\ "offline" \in UserQuery(job[l].user)
  /\ Goto(l, "loginInsert")
  /\ UNCHANGED <<tableVars, redisVars, terminalVars, netVars, sessionVars, processVars>>

\* unordered_map::insert leaves an entry that is already there.
LoginInsert(l) ==
  LET s == ServerOf[l] IN
  /\ pc[l] = "loginInsert"
  /\ mutex[s] = None
  /\ userConnMap' = [userConnMap EXCEPT ![s][job[l].user] =
                       IF @ = None THEN job[l].conn ELSE @]
  /\ Goto(l, "loginSubscribe")
  /\ UNCHANGED <<tableVars, redisVars, terminalVars, netVars, mutex, processVars>>

\* Mutant: line 83 missing.
LoginWithoutSubscribe(l) ==
  /\ pc[l] = "loginSubscribe"
  /\ Goto(l, "loginOnline")
  /\ UNCHANGED <<tableVars, redisVars, terminalVars, netVars, sessionVars, processVars>>

LoginSubscribe(l) ==
  /\ pc[l] = "loginSubscribe"
  /\ Subscribe(ServerOf[l], job[l].user)
  /\ Goto(l, "loginOnline")
  /\ UNCHANGED <<tableVars, terminalVars, netVars, sessionVars, processVars>>

LoginOnline(l) ==
  /\ pc[l] = "loginOnline"
  /\ UserUpdateState(job[l].user, "online")
  /\ Goto(l, "loginReadOffline")
  /\ UNCHANGED <<redisVars, terminalVars, netVars, sessionVars, processVars>>

LoginReadOffline(l) ==
  /\ pc[l] = "loginReadOffline"
  /\ \E rows \in OfflineQuery(job[l].user) :
       GotoWith(l, IF rows # <<>> THEN "loginRemoveOffline" ELSE "loginAck",
                [job[l] EXCEPT !.msgs = rows])
  /\ UNCHANGED <<tableVars, redisVars, terminalVars, netVars, sessionVars, processVars>>

\* Mutant: line 98 missing.
LoginKeepOffline(l) ==
  /\ pc[l] = "loginRemoveOffline"
  /\ Goto(l, "loginAck")
  /\ UNCHANGED <<tableVars, redisVars, terminalVars, netVars, sessionVars, processVars>>

LoginRemoveOffline(l) ==
  /\ pc[l] = "loginRemoveOffline"
  /\ OfflineRemove(job[l].user)
  /\ Goto(l, "loginAck")
  /\ UNCHANGED <<redisVars, terminalVars, netVars, sessionVars, processVars>>

\* The friends and groups of the answer are read here; they change no state.
LoginAck(l) ==
  /\ pc[l] = "loginAck"
  /\ SendFrame(l, job[l].conn, AckFrame("ok", job[l].user, job[l].msgs))
  /\ Finish(l)
  /\ UNCHANGED <<tableVars, redisVars, terminalVars, sessionVars, processVars>>

-----------------------------------------------------------------------------
(***************************************************************************)
(* clientCloseException: also the handler of LOGINOUT_MSG.  It holds the   *)
(* mutex from the search of the map to the erasure of the entry.           *)
(***************************************************************************)
CloseFind(l) ==
  LET s == ServerOf[l] IN
  /\ pc[l] = "close"
  /\ \E u \in Users :
       /\ userConnMap[s][u] = job[l].conn
       /\ GotoWith(l, "closeUnsubscribe", [job[l] EXCEPT !.user = u])
  /\ Lock(s, l)
  /\ UNCHANGED <<tableVars, redisVars, terminalVars, netVars, userConnMap, processVars>>

\* Mutant: the loop is over without a match, and line 192 follows all the same.
CloseAtEnd(l) ==
  LET s == ServerOf[l] IN
  /\ pc[l] = "close"
  /\ \A u \in Users : userConnMap[s][u] # job[l].conn
  /\ Lock(s, l)
  /\ Goto(l, "closeUnsubscribe")
  /\ UNCHANGED <<tableVars, redisVars, terminalVars, netVars, userConnMap, processVars>>

CloseNothing(l) ==
  LET s == ServerOf[l] IN
  /\ pc[l] = "close"
  /\ mutex[s] = None
  /\ \A u \in Users : userConnMap[s][u] # job[l].conn
  /\ Finish(l)
  /\ UNCHANGED <<tableVars, redisVars, terminalVars, netVars, sessionVars, processVars>>

\* Mutant: line 193 missing.
CloseWithoutUnsubscribe(l) ==
  /\ pc[l] = "closeUnsubscribe"
  /\ Goto(l, "closeOffline")
  /\ UNCHANGED <<tableVars, redisVars, terminalVars, netVars, sessionVars, processVars>>

CloseUnsubscribe(l) ==
  /\ pc[l] = "closeUnsubscribe"
  /\ Unsubscribe(ServerOf[l], job[l].user)
  /\ Goto(l, "closeOffline")
  /\ UNCHANGED <<tableVars, terminalVars, netVars, sessionVars, processVars>>

\* Mutant: line 195 missing.
CloseStillOnline(l) ==
  /\ pc[l] = "closeOffline"
  /\ Goto(l, "closeErase")
  /\ UNCHANGED <<tableVars, redisVars, terminalVars, netVars, sessionVars, processVars>>

\* The row that is updated was read before line 193.  When that query failed
\* the update is for id -1 and changes no row, as when the update itself fails.
CloseOffline(l) ==
  /\ pc[l] = "closeOffline"
  /\ UserUpdateState(job[l].user, "offline")
  /\ Goto(l, "closeErase")
  /\ UNCHANGED <<redisVars, terminalVars, netVars, sessionVars, processVars>>

\* Mutant: line 196 missing.
CloseKeepEntry(l) ==
  /\ pc[l] = "closeErase"
  /\ Unlock(ServerOf[l])
  /\ Finish(l)
  /\ UNCHANGED <<tableVars, redisVars, terminalVars, netVars, userConnMap, processVars>>

CloseErase(l) ==
  LET s == ServerOf[l] IN
  /\ pc[l] = "closeErase"
  /\ userConnMap' = [userConnMap EXCEPT ![s][job[l].user] = None]
  /\ Unlock(s)
  /\ Finish(l)
  /\ UNCHANGED <<tableVars, redisVars, terminalVars, netVars, processVars>>

-----------------------------------------------------------------------------
(***************************************************************************)
(* oneChat                                                                 *)
(***************************************************************************)
OneChatFind(l) ==
  LET s == ServerOf[l]
      dest == userConnMap[s][job[l].user] IN
  /\ pc[l] = "oneChat"
  /\ mutex[s] = None
  /\ IF dest # None
     THEN /\ SendFrame(l, dest, MsgFrame(job[l].user, job[l].msg))
          /\ Finish(l)
     ELSE /\ Goto(l, "oneChatQuery")
          /\ UNCHANGED netVars
  /\ UNCHANGED <<tableVars, redisVars, terminalVars, sessionVars, processVars>>

\* Mutant: whoever is not on this server counts as offline.
OneChatQueryHereOnly(l) ==
  /\ pc[l] = "oneChatQuery"
  /\ Goto(l, "oneChatStore")
  /\ UNCHANGED <<tableVars, redisVars, terminalVars, netVars, sessionVars, processVars>>

OneChatQuery(l) ==
  /\ pc[l] = "oneChatQuery"
  /\ \E row \in UserQuery(job[l].user) :
       Goto(l, IF row = "online" THEN "oneChatPublish" ELSE "oneChatStore")
  /\ UNCHANGED <<tableVars, redisVars, terminalVars, netVars, sessionVars, processVars>>

OneChatPublish(l) ==
  /\ pc[l] = "oneChatPublish"
  /\ Publish(job[l].user, job[l].msg)
  /\ Finish(l)
  /\ UNCHANGED <<tableVars, terminalVars, netVars, sessionVars, processVars>>

\* Mutant: line 224 missing.
OneChatWithoutStore(l) ==
  /\ pc[l] = "oneChatStore"
  /\ Finish(l)
  /\ UNCHANGED <<tableVars, redisVars, terminalVars, netVars, sessionVars, processVars>>

OneChatStore(l) ==
  /\ pc[l] = "oneChatStore"
  /\ OfflineInsert(job[l].user, job[l].msg)
  /\ Finish(l)
  /\ UNCHANGED <<redisVars, terminalVars, netVars, sessionVars, processVars>>

-----------------------------------------------------------------------------
(***************************************************************************)
(* groupChat: job.rest is what is left of useridVec, without the sender;   *)
(* job.user becomes the member being served.  The mutex is held from       *)
(* GroupChatLock to GroupChatEnd.                                          *)
(***************************************************************************)
GroupChatQuery(l) ==
  /\ pc[l] = "groupChat"
  /\ \E ids \in {Members} \cup (IF DBFaults THEN {{}} ELSE {}) :
       GotoWith(l, "groupLock", [job[l] EXCEPT !.rest = ids \ {job[l].user}])
  /\ UNCHANGED <<tableVars, redisVars, terminalVars, netVars, sessionVars, processVars>>

GroupChatLock(l) ==
  /\ pc[l] = "groupLock"
  /\ Lock(ServerOf[l], l)
  /\ Goto(l, "groupNext")
  /\ UNCHANGED <<tableVars, redisVars, terminalVars, netVars, userConnMap, processVars>>

\* The loop of line 282 is through with member u.
Without(j, u) == [j EXCEPT !.rest = @ \ {u}]

GroupChatSend(l, u) ==
  LET dest == userConnMap[ServerOf[l]][u] IN
  /\ pc[l] = "groupNext" /\ u \in job[l].rest
  /\ dest # None
  /\ SendFrame(l, dest, MsgFrame(u, job[l].msg))
  /\ GotoWith(l, "groupNext", Without(job[l], u))
  /\ UNCHANGED <<tableVars, redisVars, terminalVars, sessionVars, processVars>>

GroupChatAbsent(l, u) ==
  /\ pc[l] = "groupNext" /\ u \in job[l].rest
  /\ userConnMap[ServerOf[l]][u] = None
  /\ \E row \in UserQuery(u) :
       GotoWith(l, IF row = "online" THEN "groupPublish" ELSE "groupStore",
                [Without(job[l], u) EXCEPT !.user = u])
  /\ UNCHANGED <<tableVars, redisVars, terminalVars, netVars, sessionVars, processVars>>

\* Mutant: the else of line 300 missing.
GroupChatPublishAndStore(l) ==
  /\ pc[l] = "groupPublish"
  /\ Publish(job[l].user, job[l].msg)
  /\ Goto(l, "groupStore")
  /\ UNCHANGED <<tableVars, terminalVars, netVars, sessionVars, processVars>>

GroupChatPublish(l) ==
  /\ pc[l] = "groupPublish"
  /\ Publish(job[l].user, job[l].msg)
  /\ Goto(l, "groupNext")
  /\ UNCHANGED <<tableVars, terminalVars, netVars, sessionVars, processVars>>

GroupChatStore(l) ==
  /\ pc[l] = "groupStore"
  /\ OfflineInsert(job[l].user, job[l].msg)
  /\ Goto(l, "groupNext")
  /\ UNCHANGED <<redisVars, terminalVars, netVars, sessionVars, processVars>>

\* Mutant: lock() instead of lock_guard, and no unlock().
GroupChatEndLocked(l) ==
  /\ pc[l] = "groupNext" /\ job[l].rest = {}
  /\ Finish(l)
  /\ UNCHANGED <<tableVars, redisVars, terminalVars, netVars, sessionVars, processVars>>

GroupChatEnd(l) ==
  /\ pc[l] = "groupNext" /\ job[l].rest = {}
  /\ Unlock(ServerOf[l])
  /\ Finish(l)
  /\ UNCHANGED <<tableVars, redisVars, terminalVars, netVars, userConnMap, processVars>>

-----------------------------------------------------------------------------
(***************************************************************************)
(* handleRedisSubscribeMessage, in the observer thread of server s.        *)
(***************************************************************************)
ObserverForward(s) ==
  /\ up[s] /\ observer[s] = NoLetter
  /\ push[s] # <<>> /\ mutex[s] = None
  /\ LET letter == Head(push[s])
         dest == userConnMap[s][letter.channel] IN
       IF dest # None
       THEN /\ SendFrame("observer", dest, MsgFrame(letter.channel, letter.msg))
            /\ UNCHANGED <<observer, mutex>>
       ELSE /\ observer' = [observer EXCEPT ![s] = letter]
            /\ Lock(s, "observer")
            /\ UNCHANGED netVars
  /\ ReadReply(s)
  /\ UNCHANGED <<tableVars, terminalVars, pc, job, mainPc, todo, it, userConnMap, processVars>>

ObserverStore(s) ==
  /\ observer[s] # NoLetter
  /\ OfflineInsert(observer[s].channel, observer[s].msg)
  /\ observer' = [observer EXCEPT ![s] = NoLetter]
  /\ Unlock(s)
  /\ UNCHANGED <<redisVars, terminalVars, netVars, pc, job, mainPc, todo,
                 it, userConnMap, processVars>>

-----------------------------------------------------------------------------
(***************************************************************************)
(* The process: SIGINT and reset in the main thread, its end, its start.   *)
(***************************************************************************)
UnchangedByReset == <<terminalVars, netVars, pc, job, observer, up>>

\* Mutant: line 231 missing.
SigintWithoutLock(s) ==
  /\ "sigint" \in StopKinds /\ stops < MaxStops
  /\ up[s] /\ mainPc[s] = "loop"
  /\ stops' = stops + 1
  /\ mainPc' = [mainPc EXCEPT ![s] = "reset"]
  /\ todo' = [todo EXCEPT ![s] = {u \in Users : userConnMap[s][u] # None}]
  /\ UNCHANGED <<UnchangedByReset, tableVars, redisVars, it, sessionVars>>

Sigint(s) ==
  /\ "sigint" \in StopKinds /\ stops < MaxStops
  /\ up[s] /\ mainPc[s] = "loop"
  /\ Lock(s, "main")
  /\ stops' = stops + 1
  /\ mainPc' = [mainPc EXCEPT ![s] = "reset"]
  /\ todo' = [todo EXCEPT ![s] = {u \in Users : userConnMap[s][u] # None}]
  /\ UNCHANGED <<UnchangedByReset, tableVars, redisVars, it, userConnMap>>

ResetUnsubscribe(s) ==
  /\ mainPc[s] = "reset"
  /\ \E u \in todo[s] :
       /\ Unsubscribe(s, u)
       /\ it' = [it EXCEPT ![s] = u]
       /\ todo' = [todo EXCEPT ![s] = @ \ {u}]
  /\ mainPc' = [mainPc EXCEPT ![s] = "resetOffline"]
  /\ UNCHANGED <<UnchangedByReset, tableVars, sessionVars, stops>>

ResetOffline(s) ==
  /\ mainPc[s] = "resetOffline"
  /\ UserUpdateState(it[s], "offline")
  /\ it' = [it EXCEPT ![s] = None]
  /\ mainPc' = [mainPc EXCEPT ![s] = "reset"]
  /\ UNCHANGED <<UnchangedByReset, redisVars, todo, sessionVars, stops>>

\* The end of reset.  resetHandler goes on to exit(0), but until the process
\* is gone the other threads still run.
ResetClear(s) ==
  /\ mainPc[s] = "reset" /\ todo[s] = {}
  /\ userConnMap' = [userConnMap EXCEPT ![s] = [u \in Users |-> None]]
  /\ Unlock(s)
  /\ mainPc' = [mainPc EXCEPT ![s] = "exit"]
  /\ UNCHANGED <<UnchangedByReset, tableVars, redisVars, todo, it, stops>>

\* Memory, sockets and Redis connections of the process are gone; a terminal
\* whose connection breaks exits.
ProcessEnds(s) ==
  LET own(c) == ConnServer(c) = s
      lost(c) == own(c) /\ clientPc[c] # "off" IN
  /\ up' = [up EXCEPT ![s] = FALSE]
  /\ connected' = [c \in Conns |-> connected[c] /\ ~own(c)]
  /\ clientPc' = [c \in Conns |-> IF lost(c) THEN "closed" ELSE clientPc[c]]
  /\ request' = [c \in Conns |-> IF own(c) THEN NoRequest ELSE request[c]]
  /\ pending' = [c \in Conns |-> IF own(c) THEN <<>> ELSE pending[c]]
  /\ served' = [c \in Conns |-> served[c] /\ ~own(c)]
  /\ pc' = [l \in Loops |-> IF ServerOf[l] = s THEN "idle" ELSE pc[l]]
  /\ job' = [l \in Loops |-> IF ServerOf[l] = s THEN NoJob ELSE job[l]]
  /\ observer' = [observer EXCEPT ![s] = NoLetter]
  /\ mainPc' = [mainPc EXCEPT ![s] = "loop"]
  /\ todo' = [todo EXCEPT ![s] = {}]
  /\ it' = [it EXCEPT ![s] = None]
  /\ userConnMap' = [userConnMap EXCEPT ![s] = [u \in Users |-> None]]
  /\ mutex' = [mutex EXCEPT ![s] = None]
  /\ RedisDisconnect(s)
  /\ UNCHANGED <<tableVars, clientUser, toClient, nread, sent>>

ResetExit(s) ==
  /\ mainPc[s] = "exit"
  /\ ProcessEnds(s)
  /\ UNCHANGED stops

Crash(s) ==
  /\ "crash" \in StopKinds /\ stops < MaxStops
  /\ up[s]
  /\ ProcessEnds(s)
  /\ stops' = stops + 1

Start(s) ==
  /\ ~up[s]
  /\ up' = [up EXCEPT ![s] = TRUE]
  /\ UNCHANGED <<tableVars, redisVars, terminalVars, netVars, threadVars,
                 sessionVars, stops>>

-----------------------------------------------------------------------------
(***************************************************************************)
(* The terminals and Redis, with the rest of the system standing still.    *)
(***************************************************************************)
\* A login of u is on its way to a server or being handled by one.
LoginPending(u) ==
  \/ \E c \in Conns : request[c].kind = "login" /\ request[c].user = u
  \/ \E l \in Loops : pc[l] \in LoginPcs /\ job[l].user = u

ServersIdle == UNCHANGED <<tableVars, connected, served, pending, threadVars,
                           sessionVars, processVars>>

Login(c, u) ==
  /\ Patient => ~LoginPending(u)
  /\ \E p \in Passwords : SendLogin(c, u, p)
  /\ UNCHANGED redisVars /\ ServersIdle

Terminal(c) ==
  /\ \/ ReadLoginAck(c)
     \/ \E m \in Chats : SendChat(c, m)
     \/ \E m \in GroupChats : SendGroupChat(c, m)
     \/ SendLoginout(c)
     \/ Exit(c)
  /\ UNCHANGED redisVars /\ ServersIdle

Redis(s) == RedisExecute(s) /\ UNCHANGED <<terminalVars, toClient>> /\ ServersIdle

-----------------------------------------------------------------------------
LoginStep(l) ==
  \/ LoginRefuse(l) \/ LoginAccept(l) \/ LoginInsert(l) \/ LoginSubscribe(l)
  \/ LoginOnline(l) \/ LoginReadOffline(l) \/ LoginRemoveOffline(l) \/ LoginAck(l)

CloseStep(l) ==
  \/ CloseFind(l) \/ CloseNothing(l) \/ CloseUnsubscribe(l)
  \/ CloseOffline(l) \/ CloseErase(l)

OneChatStep(l) ==
  \/ OneChatFind(l) \/ OneChatQuery(l) \/ OneChatPublish(l) \/ OneChatStore(l)

GroupChatStep(l) ==
  \/ GroupChatQuery(l) \/ GroupChatLock(l)
  \/ \E u \in Users : GroupChatSend(l, u) \/ GroupChatAbsent(l, u)
  \/ GroupChatPublish(l) \/ GroupChatStore(l) \/ GroupChatEnd(l)

\* One step of the handler thread l is in.
Handle(l) == LoginStep(l) \/ CloseStep(l) \/ OneChatStep(l) \/ GroupChatStep(l)

\* One step of the event loop of thread l between two handlers.
Dispatch(l) == \/ \E c \in Conns : OnMessage(l, c) \/ OnClose(l, c)
               \/ RunPendingFunctors(l)

Observe(s) == ObserverForward(s) \/ ObserverStore(s)

Reset(s) == ResetUnsubscribe(s) \/ ResetOffline(s) \/ ResetClear(s) \/ ResetExit(s)

Next ==
  \/ \E c \in Conns : Accept(c) \/ Terminal(c) \/ \E u \in Users : Login(c, u)
  \/ \E l \in Loops : Dispatch(l) \/ Handle(l)
  \/ \E s \in Servers : \/ Observe(s) \/ Redis(s)
                        \/ Sigint(s) \/ Reset(s) \/ Crash(s) \/ Start(s)

Spec == Init /\ [][Next]_vars

(***************************************************************************)
(* Every thread that can run does so in the end, Redis executes what it    *)
(* is sent, and the terminal's reader thread reads.  Nothing is assumed of *)
(* the users, of signals, of crashes or of restarts.  Weak fairness is     *)
(* enough where a thread waits for the mutex, because requests are         *)
(* bounded: from some moment on nobody else takes it.                      *)
(***************************************************************************)
Fairness ==
  /\ \A l \in Loops :
       /\ WF_vars(Handle(l))
       /\ WF_vars(RunPendingFunctors(l))
       /\ \A c \in Conns : WF_vars(OnMessage(l, c)) /\ WF_vars(OnClose(l, c))
  /\ \A s \in Servers : WF_vars(Observe(s)) /\ WF_vars(Redis(s)) /\ WF_vars(Reset(s))
  /\ \A c \in Conns : WF_vars(ReadLoginAck(c) /\ UNCHANGED redisVars /\ ServersIdle)

FairSpec == Spec /\ Fairness
==============================================================================
