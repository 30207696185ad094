-------------------------- MODULE ChatSessionProofs --------------------------
(***************************************************************************)
(* An account has at most one session in the cluster, for every number of  *)
(* servers, threads and terminals, also when servers stop by SIGINT or     *)
(* crash and come back: if MySQL answers, and if no login of an account is *)
(* begun while another one of it is in progress.  Both are needed, as the  *)
(* test of User.state at line 67 and its update at line 86 are two         *)
(* statements, and clientCloseException ignores a failing update.          *)
(*                                                                         *)
(* The argument: a session that nobody is ending is marked online, or its  *)
(* login is about to do that (LiveIsOnline).  So a login that finds the    *)
(* account offline finds no session of it, unless another login is between *)
(* insert and update, which OneLogin excludes.  From then on it stays the  *)
(* only one (NewLoginIsAlone, EnteringIsAlone).  Whoever marks an account  *)
(* offline has the mutex and a valid iterator (IteratorsStayValid), so the *)
(* session it ends is the only one there is.                               *)
(*                                                                         *)
(* What that rests on comes first: the type invariant, for every placement *)
(* of connections, every set of messages and every fault the parameters    *)
(* allow; and the mutex: _userConnMutex protects what its holders rely on, *)
(* so the iterators of clientCloseException and reset stay valid.          *)
(***************************************************************************)
EXTENDS ChatInvariants, TLAPS

(***************************************************************************)
(* Building blocks: what the helpers of the handlers keep typed.           *)
(***************************************************************************)
LEMMA EmptySeqType == << >> \in Seq(Msgs)
BY SMT

LEMMA JobForType ==
  ASSUME NEW c \in Conns \cup {None}, NEW u \in Users \cup {None},
         NEW m \in Msgs \cup {None}, NEW p \in {"right", "wrong", None}
  PROVE  /\ JobFor(c, u, m, p) \in Jobs
         /\ JobFor(c, u, m, p).conn = c
         /\ JobFor(c, u, m, p).user = u
         /\ JobFor(c, u, m, p).msg = m
BY EmptySeqType DEF JobFor, Jobs

LEMMA WithoutType ==
  ASSUME NEW j \in Jobs, NEW u
  PROVE  /\ Without(j, u) \in Jobs
         /\ Without(j, u).conn = j.conn
         /\ Without(j, u).user = j.user
         /\ Without(j, u).msg = j.msg
BY SMT DEF Without, Jobs

LEMMA SendFrameType ==
  ASSUME NetTypeOK, NEW t, NEW c \in Conns, NEW f \in Frames, SendFrame(t, c, f)
  PROVE  NetTypeOK'
BY SMT DEF NetTypeOK, SendFrame

LEMMA AckFrameType ==
  ASSUME NEW kind \in {"ok", "refused"}, NEW u \in Users, NEW ms \in Seq(Msgs)
  PROVE  AckFrame(kind, u, ms) \in Frames
BY DEF AckFrame, Frames

LEMMA MsgFrameType ==
  ASSUME NEW u \in Users, NEW m \in Msgs
  PROVE  MsgFrame(u, m) \in Frames
BY SMT DEF MsgFrame, Frames

LEMMA GotoWithType ==
  ASSUME ThreadsTypeOK, JobsOK, NEW l \in Loops, NEW next \in Pcs, NEW j \in Jobs,
         JobOK(l, next, j), GotoWith(l, next, j)
  PROVE  ThreadsTypeOK' /\ JobsOK'
<1>1. pc' = [pc EXCEPT ![l] = next] /\ job' = [job EXCEPT ![l] = j]
      /\ UNCHANGED <<observer, mainPc, todo, it>>
  BY DEF GotoWith
<1>2. ThreadsTypeOK'
  BY <1>1 DEF ThreadsTypeOK
<1>3. ASSUME NEW k \in Loops PROVE JobOK(k, pc'[k], job'[k])
  <2>1. CASE k = l
    BY <2>1, <1>1 DEF ThreadsTypeOK
  <2>2. CASE k # l
    BY <2>2, <1>1 DEF ThreadsTypeOK, JobsOK
  <2> QED BY <2>1, <2>2
<1> QED BY <1>2, <1>3 DEF JobsOK, JobOK

LEMMA GotoType ==
  ASSUME ThreadsTypeOK, JobsOK, NEW l \in Loops, NEW next \in Pcs,
         JobOK(l, next, job[l]), Goto(l, next)
  PROVE  ThreadsTypeOK' /\ JobsOK'
<1>1. GotoWith(l, next, job[l]) /\ job[l] \in Jobs
  BY DEF Goto, GotoWith, ThreadsTypeOK
<1> QED BY <1>1, GotoWithType

LEMMA FinishType ==
  ASSUME ThreadsTypeOK, JobsOK, NEW l \in Loops, Finish(l)
  PROVE  ThreadsTypeOK' /\ JobsOK'
<1>1. NoJob \in Jobs /\ JobOK(l, "idle", NoJob) /\ "idle" \in Pcs
  BY JobForType, SMT DEF NoJob, JobOK, Pcs, LoginPcs, ClosePcs, OneChatPcs, GroupChatPcs
<1> QED BY <1>1, GotoWithType DEF Finish

LEMMA LockType ==
  ASSUME SessionsTypeOK, NEW s \in Servers, NEW t \in Loops \cup OtherThreads,
         Lock(s, t), UNCHANGED userConnMap
  PROVE  SessionsTypeOK'
BY DEF SessionsTypeOK, Lock

LEMMA UnlockType ==
  ASSUME SessionsTypeOK, NEW s \in Servers, Unlock(s), UNCHANGED userConnMap
  PROVE  SessionsTypeOK'
BY DEF SessionsTypeOK, Unlock

LEMMA UserUpdateStateType ==
  ASSUME TablesTypeOK, NEW u \in Users, NEW state \in {"online", "offline"},
         UserUpdateState(u, state)
  PROVE  TablesTypeOK'
BY DEF TablesTypeOK, UserUpdateState

LEMMA OfflineInsertType ==
  ASSUME TablesTypeOK, NEW u \in Users, NEW m \in Msgs, OfflineInsert(u, m)
  PROVE  TablesTypeOK'
<1>1. Append(offlineMessage[u], m) \in Seq(Msgs)
  BY SMT DEF TablesTypeOK
<1>2. userState' = userState
  BY DEF OfflineInsert
<1>3. \/ offlineMessage' = [offlineMessage EXCEPT ![u] = Append(@, m)]
      \/ offlineMessage' = offlineMessage
  BY DEF OfflineInsert
<1> QED BY <1>1, <1>2, <1>3 DEF TablesTypeOK

LEMMA OfflineRemoveType ==
  ASSUME TablesTypeOK, NEW u \in Users, OfflineRemove(u)
  PROVE  TablesTypeOK'
<1>1. << >> \in Seq(Msgs)
  BY EmptySeqType
<1>2. userState' = userState
  BY DEF OfflineRemove
<1>3. \/ offlineMessage' = [offlineMessage EXCEPT ![u] = << >>]
      \/ offlineMessage' = offlineMessage
  BY DEF OfflineRemove
<1> QED BY <1>1, <1>2, <1>3 DEF TablesTypeOK

LEMMA WriteCommandType ==
  ASSUME RedisTypeOK, NEW s \in Servers, NEW op \in {"SUBSCRIBE", "UNSUBSCRIBE"},
         NEW u \in Users, WriteCommand(s, op, u)
  PROVE  RedisTypeOK'
<1>1. [op |-> op, channel |-> u] \in Commands
  BY DEF Commands
<1> QED BY <1>1, SMT DEF RedisTypeOK, WriteCommand

LEMMA PublishType ==
  ASSUME RedisTypeOK, NEW u \in Users, NEW m \in Msgs, Publish(u, m)
  PROVE  RedisTypeOK'
<1>1. [channel |-> u, msg |-> m] \in Letters
  BY DEF Letters
<1> QED BY <1>1, SMT DEF RedisTypeOK, Publish

LEMMA UnchangedTypes ==
  ASSUME TypeInv
  PROVE  /\ UNCHANGED tableVars => TablesTypeOK'
         /\ UNCHANGED redisVars => RedisTypeOK'
         /\ UNCHANGED terminalVars => TerminalsTypeOK' /\ RequestsOK' /\ TerminalsOK'
         /\ UNCHANGED netVars => NetTypeOK'
         /\ UNCHANGED threadVars => ThreadsTypeOK' /\ JobsOK'
         /\ UNCHANGED sessionVars => SessionsTypeOK'
         /\ UNCHANGED processVars => ProcessesTypeOK'
<1> USE DEF TypeInv, TypeOK
<1>1. UNCHANGED tableVars => TablesTypeOK'
  BY DEF tableVars, TablesTypeOK
<1>2. UNCHANGED redisVars => RedisTypeOK'
  BY DEF redisVars, RedisTypeOK
<1>3. UNCHANGED terminalVars => TerminalsTypeOK' /\ RequestsOK' /\ TerminalsOK'
  BY DEF terminalVars, TerminalsTypeOK, RequestsOK, TerminalsOK
<1>4. UNCHANGED netVars => NetTypeOK'
  BY DEF netVars, NetTypeOK
<1>5. UNCHANGED threadVars => ThreadsTypeOK' /\ JobsOK'
  BY DEF threadVars, ThreadsTypeOK, JobsOK, JobOK
<1>6. UNCHANGED sessionVars => SessionsTypeOK'
  BY DEF sessionVars, SessionsTypeOK
<1>7. UNCHANGED processVars => ProcessesTypeOK'
  BY DEF processVars, ProcessesTypeOK
<1> QED BY <1>1, <1>2, <1>3, <1>4, <1>5, <1>6, <1>7

-----------------------------------------------------------------------------
(***************************************************************************)
(* One lemma per group of actions.                                         *)
(***************************************************************************)
LEMMA TypeInit == Init => TypeInv
BY PlacementAssumption, NoneAssumption, SMT
   DEF Init, TypeInv, TypeOK, TablesInit, RedisInit, TerminalsInit, TablesTypeOK,
       RedisTypeOK, TerminalsTypeOK, NetTypeOK, ThreadsTypeOK, SessionsTypeOK,
       ProcessesTypeOK, RequestsOK, TerminalsOK, JobsOK, JobOK, NoRequest, Requests,
       NoJob, JobFor, Jobs, NoLetter, Pcs, LoginPcs, ClosePcs, OneChatPcs, GroupChatPcs

LEMMA LoginType ==
  ASSUME TypeInv, NEW l \in Loops, LoginStep(l)
  PROVE  TypeInv'
<1> DEFINE j == job[l]
<1> USE UnchangedTypes
<1>0. TypeOK /\ JobsOK /\ ServerOf[l] \in Servers
  BY PlacementAssumption DEF TypeInv
<1>1. pc[l] \in LoginPcs
  BY DEF LoginStep, LoginRefuse, LoginAccept, LoginInsert, LoginSubscribe, LoginOnline,
         LoginReadOffline, LoginRemoveOffline, LoginAck, LoginPcs
<1>2. j \in Jobs /\ j.conn \in Conns /\ LoopOf[j.conn] = l /\ j.user \in Users /\ j.msgs \in Seq(Msgs)
  BY <1>0, <1>1, SMT DEF TypeOK, ThreadsTypeOK, JobsOK, JobOK, Jobs, LoginPcs
<1>3. \A next \in LoginPcs : next \in Pcs /\ JobOK(l, next, j)
  BY <1>2, SMT DEF JobOK, Pcs, LoginPcs, OneChatPcs, GroupChatPcs
<1>4. CASE LoginRefuse(l)
  <2>1. AckFrame("refused", j.user, <<>>) \in Frames
    BY <1>2, EmptySeqType, AckFrameType
  <2>2. NetTypeOK'
    BY <2>1, <1>0, <1>2, <1>4, SendFrameType DEF LoginRefuse, TypeOK
  <2> QED BY <2>2, <1>0, <1>4, FinishType DEF LoginRefuse, TypeInv, TypeOK
<1>5. CASE LoginAccept(l)
  <2>1. JobOK(l, "loginInsert", j) /\ "loginInsert" \in Pcs
    BY <1>3 DEF LoginPcs
  <2> QED BY <2>1, <1>0, <1>5, GotoType DEF LoginAccept, TypeInv, TypeOK
<1>6. CASE LoginInsert(l)
  <2>1. JobOK(l, "loginSubscribe", j) /\ "loginSubscribe" \in Pcs
    BY <1>3 DEF LoginPcs
  <2>2. SessionsTypeOK'
    BY <1>0, <1>2, <1>6 DEF LoginInsert, TypeOK, SessionsTypeOK
  <2> QED BY <2>1, <2>2, <1>0, <1>6, GotoType DEF LoginInsert, TypeInv, TypeOK
<1>7. CASE LoginSubscribe(l)
  <2>1. JobOK(l, "loginOnline", j) /\ "loginOnline" \in Pcs
    BY <1>3 DEF LoginPcs
  <2>2. RedisTypeOK'
    BY <1>0, <1>2, <1>7, WriteCommandType DEF LoginSubscribe, Subscribe, TypeOK
  <2> QED BY <2>1, <2>2, <1>0, <1>7, GotoType DEF LoginSubscribe, TypeInv, TypeOK
<1>8. CASE LoginOnline(l)
  <2>1. JobOK(l, "loginReadOffline", j) /\ "loginReadOffline" \in Pcs
    BY <1>3 DEF LoginPcs
  <2>2. TablesTypeOK'
    BY <1>0, <1>2, <1>8, UserUpdateStateType DEF LoginOnline, TypeOK
  <2> QED BY <2>1, <2>2, <1>0, <1>8, GotoType DEF LoginOnline, TypeInv, TypeOK
<1>9. CASE LoginReadOffline(l)
  <2>1. PICK rows \in OfflineQuery(j.user) :
          GotoWith(l, IF rows # <<>> THEN "loginRemoveOffline" ELSE "loginAck",
                   [j EXCEPT !.msgs = rows])
    BY <1>9 DEF LoginReadOffline
  <2> DEFINE next == IF rows # <<>> THEN "loginRemoveOffline" ELSE "loginAck"
             k == [j EXCEPT !.msgs = rows]
  <2>2. rows \in Seq(Msgs)
    <3>1. rows = offlineMessage[j.user] \/ rows = <<>>
      BY DEF OfflineQuery
    <3> QED BY <3>1, <1>0, <1>2, EmptySeqType DEF TypeOK, TablesTypeOK
  <2>3. k \in Jobs
    BY <1>2, <2>2, SMT DEF Jobs
  <2>4. next \in Pcs /\ JobOK(l, next, k)
    BY <1>2, SMT DEF JobOK, Jobs, Pcs, LoginPcs, OneChatPcs, GroupChatPcs
  <2> QED BY <2>1, <2>3, <2>4, <1>0, <1>9, GotoWithType DEF LoginReadOffline, TypeInv, TypeOK
<1>10. CASE LoginRemoveOffline(l)
  <2>1. JobOK(l, "loginAck", j) /\ "loginAck" \in Pcs
    BY <1>3 DEF LoginPcs
  <2>2. TablesTypeOK'
    BY <1>0, <1>2, <1>10, OfflineRemoveType DEF LoginRemoveOffline, TypeOK
  <2> QED BY <2>1, <2>2, <1>0, <1>10, GotoType DEF LoginRemoveOffline, TypeInv, TypeOK
<1>11. CASE LoginAck(l)
  <2>1. AckFrame("ok", j.user, j.msgs) \in Frames
    BY <1>2, AckFrameType
  <2>2. NetTypeOK'
    BY <2>1, <1>0, <1>2, <1>11, SendFrameType DEF LoginAck, TypeOK
  <2> QED BY <2>2, <1>0, <1>11, FinishType DEF LoginAck, TypeInv, TypeOK
<1> QED BY <1>4, <1>5, <1>6, <1>7, <1>8, <1>9, <1>10, <1>11 DEF LoginStep

LEMMA CloseType ==
  ASSUME TypeInv, NEW l \in Loops, CloseStep(l)
  PROVE  TypeInv'
<1> DEFINE j == job[l]
<1> USE UnchangedTypes
<1>0. TypeOK /\ JobsOK /\ ServerOf[l] \in Servers
  BY PlacementAssumption DEF TypeInv
<1>1. pc[l] \in ClosePcs
  BY DEF CloseStep, CloseFind, CloseNothing, CloseUnsubscribe, CloseOffline, CloseErase, ClosePcs
<1>2. j \in Jobs /\ j.conn \in Conns /\ LoopOf[j.conn] = l
  BY <1>0, <1>1, SMT DEF TypeOK, ThreadsTypeOK, JobsOK, JobOK, Jobs, ClosePcs
<1>3. pc[l] # "close" => j.user \in Users
  BY <1>0, <1>1, SMT DEF JobsOK, JobOK, ClosePcs
<1>4. CASE CloseFind(l)
  <2>1. PICK u \in Users : GotoWith(l, "closeUnsubscribe", [j EXCEPT !.user = u])
    BY <1>4 DEF CloseFind
  <2>2. /\ [j EXCEPT !.user = u] \in Jobs /\ "closeUnsubscribe" \in Pcs
        /\ JobOK(l, "closeUnsubscribe", [j EXCEPT !.user = u])
    BY <1>2, SMT DEF Jobs, JobOK, Pcs, ClosePcs, LoginPcs, OneChatPcs, GroupChatPcs
  <2>3. ThreadsTypeOK' /\ JobsOK'
    BY <2>1, <2>2, <1>0, GotoWithType DEF TypeOK
  <2>4. SessionsTypeOK'
    BY <1>0, <1>4, LockType DEF CloseFind, TypeOK
  <2> QED BY <2>3, <2>4, <1>0, <1>4 DEF CloseFind, TypeInv, TypeOK
<1>5. CASE CloseNothing(l)
  BY <1>0, <1>5, FinishType DEF CloseNothing, TypeInv, TypeOK
<1>6. CASE CloseUnsubscribe(l)
  <2>1. j.user \in Users
    BY <1>3, <1>6 DEF CloseUnsubscribe
  <2>2. JobOK(l, "closeOffline", j) /\ "closeOffline" \in Pcs
    BY <2>1, <1>2, SMT DEF JobOK, Pcs, ClosePcs, LoginPcs, OneChatPcs, GroupChatPcs
  <2>3. RedisTypeOK'
    BY <2>1, <1>0, <1>6, WriteCommandType DEF CloseUnsubscribe, Unsubscribe, TypeOK
  <2> QED BY <2>2, <2>3, <1>0, <1>6, GotoType DEF CloseUnsubscribe, TypeInv, TypeOK
<1>7. CASE CloseOffline(l)
  <2>1. j.user \in Users
    BY <1>3, <1>7 DEF CloseOffline
  <2>2. JobOK(l, "closeErase", j) /\ "closeErase" \in Pcs
    BY <2>1, <1>2, SMT DEF JobOK, Pcs, ClosePcs, LoginPcs, OneChatPcs, GroupChatPcs
  <2>3. TablesTypeOK'
    BY <2>1, <1>0, <1>7, UserUpdateStateType DEF CloseOffline, TypeOK
  <2> QED BY <2>2, <2>3, <1>0, <1>7, GotoType DEF CloseOffline, TypeInv, TypeOK
<1>8. CASE CloseErase(l)
  <2>1. j.user \in Users
    BY <1>3, <1>8 DEF CloseErase
  <2>2. SessionsTypeOK'
    BY <2>1, <1>0, <1>8 DEF CloseErase, Unlock, TypeOK, SessionsTypeOK
  <2> QED BY <2>2, <1>0, <1>8, FinishType DEF CloseErase, TypeInv, TypeOK
<1> QED BY <1>4, <1>5, <1>6, <1>7, <1>8 DEF CloseStep

LEMMA OneChatType ==
  ASSUME TypeInv, NEW l \in Loops, OneChatStep(l)
  PROVE  TypeInv'
<1> DEFINE j == job[l]
<1> USE UnchangedTypes
<1>0. TypeOK /\ JobsOK /\ ServerOf[l] \in Servers
  BY PlacementAssumption DEF TypeInv
<1>1. pc[l] \in OneChatPcs
  BY DEF OneChatStep, OneChatFind, OneChatQuery, OneChatPublish, OneChatStore, OneChatPcs
<1>2. j \in Jobs /\ j.conn \in Conns /\ LoopOf[j.conn] = l /\ j.user \in Users /\ j.msg \in Msgs
  BY <1>0, <1>1, SMT DEF TypeOK, ThreadsTypeOK, JobsOK, JobOK, Jobs, OneChatPcs
<1>3. \A next \in OneChatPcs : next \in Pcs /\ JobOK(l, next, j)
  BY <1>2, SMT DEF JobOK, Pcs, LoginPcs, OneChatPcs, GroupChatPcs
<1>4. CASE OneChatFind(l)
  <2> DEFINE dest == userConnMap[ServerOf[l]][j.user]
  <2>1. CASE dest # None
    <3>1. dest \in Conns
      BY <2>1, <1>0, <1>2 DEF TypeOK, SessionsTypeOK
    <3>2. MsgFrame(j.user, j.msg) \in Frames
      BY <1>2, MsgFrameType
    <3>3. SendFrame(l, dest, MsgFrame(j.user, j.msg)) /\ Finish(l)
      BY <2>1, <1>4 DEF OneChatFind
    <3>4. NetTypeOK'
      BY <3>1, <3>2, <3>3, <1>0, SendFrameType DEF TypeOK
    <3> QED BY <3>3, <3>4, <1>0, <1>4, FinishType DEF OneChatFind, TypeInv, TypeOK
  <2>2. CASE dest = None
    <3>1. Goto(l, "oneChatQuery") /\ UNCHANGED netVars
      BY <2>2, <1>4 DEF OneChatFind
    <3>2. "oneChatQuery" \in Pcs /\ JobOK(l, "oneChatQuery", j)
      BY <1>3 DEF OneChatPcs
    <3> QED BY <3>1, <3>2, <1>0, <1>4, GotoType DEF OneChatFind, TypeInv, TypeOK
  <2> QED BY <2>1, <2>2
<1>5. CASE OneChatQuery(l)
  <2>1. PICK row \in UserQuery(j.user) :
          Goto(l, IF row = "online" THEN "oneChatPublish" ELSE "oneChatStore")
    BY <1>5 DEF OneChatQuery
  <2> DEFINE next == IF row = "online" THEN "oneChatPublish" ELSE "oneChatStore"
  <2>2. next \in Pcs /\ JobOK(l, next, j)
    BY <1>3 DEF OneChatPcs
  <2> QED BY <2>1, <2>2, <1>0, <1>5, GotoType DEF OneChatQuery, TypeInv, TypeOK
<1>6. CASE OneChatPublish(l)
  <2>1. RedisTypeOK'
    BY <1>0, <1>2, <1>6, PublishType DEF OneChatPublish, TypeOK
  <2> QED BY <2>1, <1>0, <1>6, FinishType DEF OneChatPublish, TypeInv, TypeOK
<1>7. CASE OneChatStore(l)
  <2>1. TablesTypeOK'
    BY <1>0, <1>2, <1>7, OfflineInsertType DEF OneChatStore, TypeOK
  <2> QED BY <2>1, <1>0, <1>7, FinishType DEF OneChatStore, TypeInv, TypeOK
<1> QED BY <1>4, <1>5, <1>6, <1>7 DEF OneChatStep

LEMMA GroupChatType ==
  ASSUME TypeInv, NEW l \in Loops, GroupChatStep(l)
  PROVE  TypeInv'
<1> DEFINE j == job[l]
<1> USE UnchangedTypes
<1>0. TypeOK /\ JobsOK /\ ServerOf[l] \in Servers
  BY PlacementAssumption DEF TypeInv
<1>1. pc[l] \in GroupChatPcs
  BY DEF GroupChatStep, GroupChatQuery, GroupChatLock, GroupChatSend, GroupChatAbsent,
         GroupChatPublish, GroupChatStore, GroupChatEnd, GroupChatPcs
<1>2. j \in Jobs /\ j.conn \in Conns /\ LoopOf[j.conn] = l /\ j.msg \in Msgs /\ j.rest \in SUBSET Users
  BY <1>0, <1>1, SMT DEF TypeOK, ThreadsTypeOK, JobsOK, JobOK, Jobs, GroupChatPcs
<1>3. \A next \in {"groupLock", "groupNext"}, k \in Jobs :
        k.conn = j.conn /\ k.msg = j.msg => next \in Pcs /\ JobOK(l, next, k)
  BY <1>2, SMT DEF JobOK, Pcs, LoginPcs, OneChatPcs, GroupChatPcs
<1>4. CASE GroupChatQuery(l)
  <2>1. PICK ids \in {Members} \cup (IF DBFaults THEN {{}} ELSE {}) :
          GotoWith(l, "groupLock", [j EXCEPT !.rest = ids \ {j.user}])
    BY <1>4 DEF GroupChatQuery
  <2>2. ids = Members \/ ids = {}
    BY <2>1
  <2>3. ids \in SUBSET Users
    BY <2>2, PlacementAssumption
  <2> DEFINE k == [j EXCEPT !.rest = ids \ {j.user}]
  <2>4. k \in Jobs /\ k.conn = j.conn /\ k.msg = j.msg
    BY <1>2, <2>3, SMT DEF Jobs
  <2>5. "groupLock" \in Pcs /\ JobOK(l, "groupLock", k)
    BY <2>4, <1>3
  <2> QED BY <2>1, <2>4, <2>5, <1>0, <1>4, GotoWithType DEF GroupChatQuery, TypeInv, TypeOK
<1>5. CASE GroupChatLock(l)
  <2>1. SessionsTypeOK'
    BY <1>0, <1>5, LockType DEF GroupChatLock, TypeOK
  <2>2. "groupNext" \in Pcs /\ JobOK(l, "groupNext", j)
    BY <1>2, <1>3
  <2> QED BY <2>1, <2>2, <1>0, <1>5, GotoType DEF GroupChatLock, TypeInv, TypeOK
<1>6. ASSUME NEW u \in Users, GroupChatSend(l, u) PROVE TypeInv'
  <2> DEFINE k == Without(j, u)
             dest == userConnMap[ServerOf[l]][u]
  <2>1. dest \in Conns /\ MsgFrame(u, j.msg) \in Frames
    BY <1>0, <1>2, <1>6, MsgFrameType DEF GroupChatSend, TypeOK, SessionsTypeOK
  <2>2. NetTypeOK'
    BY <2>1, <1>0, <1>6, SendFrameType DEF GroupChatSend, TypeOK
  <2>3. k \in Jobs /\ k.conn = j.conn /\ k.msg = j.msg
    BY <1>2, WithoutType
  <2>4. "groupNext" \in Pcs /\ JobOK(l, "groupNext", k)
    BY <2>3, <1>3
  <2> QED BY <2>2, <2>3, <2>4, <1>0, <1>6, GotoWithType DEF GroupChatSend, TypeInv, TypeOK
<1>7. ASSUME NEW u \in Users, GroupChatAbsent(l, u) PROVE TypeInv'
  <2>1. PICK row \in UserQuery(u) :
          GotoWith(l, IF row = "online" THEN "groupPublish" ELSE "groupStore",
                   [Without(j, u) EXCEPT !.user = u])
    BY <1>7 DEF GroupChatAbsent
  <2> DEFINE next == IF row = "online" THEN "groupPublish" ELSE "groupStore"
             k == [Without(j, u) EXCEPT !.user = u]
  <2>2. k \in Jobs /\ k.conn = j.conn /\ k.msg = j.msg /\ k.user = u
    <3>1. Without(j, u) \in Jobs /\ Without(j, u).conn = j.conn /\ Without(j, u).msg = j.msg
      BY <1>2, WithoutType
    <3> QED BY <3>1, SMT DEF Jobs
  <2>3. next \in Pcs /\ JobOK(l, next, k)
    BY <2>2, <1>2, SMT DEF JobOK, Pcs, LoginPcs, OneChatPcs, GroupChatPcs
  <2> QED BY <2>1, <2>2, <2>3, <1>0, <1>7, GotoWithType DEF GroupChatAbsent, TypeInv, TypeOK
<1>8. CASE GroupChatPublish(l)
  <2>1. j.user \in Users
    BY <1>0, <1>8, SMT DEF GroupChatPublish, JobsOK, JobOK
  <2>2. RedisTypeOK'
    BY <2>1, <1>0, <1>2, <1>8, PublishType DEF GroupChatPublish, TypeOK
  <2>3. "groupNext" \in Pcs /\ JobOK(l, "groupNext", j)
    BY <1>2, <1>3
  <2> QED BY <2>2, <2>3, <1>0, <1>8, GotoType DEF GroupChatPublish, TypeInv, TypeOK
<1>9. CASE GroupChatStore(l)
  <2>1. j.user \in Users
    BY <1>0, <1>9, SMT DEF GroupChatStore, JobsOK, JobOK
  <2>2. TablesTypeOK'
    BY <2>1, <1>0, <1>2, <1>9, OfflineInsertType DEF GroupChatStore, TypeOK
  <2>3. "groupNext" \in Pcs /\ JobOK(l, "groupNext", j)
    BY <1>2, <1>3
  <2> QED BY <2>2, <2>3, <1>0, <1>9, GotoType DEF GroupChatStore, TypeInv, TypeOK
<1>10. CASE GroupChatEnd(l)
  <2>1. SessionsTypeOK'
    BY <1>0, <1>10, UnlockType DEF GroupChatEnd, TypeOK
  <2> QED BY <2>1, <1>0, <1>10, FinishType DEF GroupChatEnd, TypeInv, TypeOK
<1> QED BY <1>4, <1>5, <1>6, <1>7, <1>8, <1>9, <1>10 DEF GroupChatStep

LEMMA DispatchType ==
  ASSUME TypeInv, NEW l \in Loops, Dispatch(l)
  PROVE  TypeInv'
<1> USE UnchangedTypes
<1>0. TypeOK /\ JobsOK /\ RequestsOK /\ TerminalsOK
  BY DEF TypeInv
<1>1. ASSUME NEW c \in Conns, OnMessage(l, c) PROVE TypeInv'
  <2> DEFINE r == request[c]
             k == JobFor(c, IF r.kind = "loginout" THEN None ELSE r.user, r.msg, r.password)
             next == HandlerOf[r.kind]
  <2>1. r \in Requests /\ r.kind # "none" /\ LoopOf[c] = l
    BY <1>0, <1>1, SMT DEF OnMessage, TypeOK, TerminalsTypeOK, RequestsOK
  <2>2. r.kind \in {"login", "loginout", "oneChat", "groupChat"}
    BY <2>1, SMT DEF Requests
  <2>3. r.user \in Users /\ (r.kind \in {"oneChat", "groupChat"} => r.msg \in Msgs)
    BY <2>1, <1>0 DEF RequestsOK
  <2> DEFINE who == IF r.kind = "loginout" THEN None ELSE r.user
  <2>4. /\ k \in Jobs /\ k.conn = c /\ k.msg = r.msg
        /\ r.kind # "loginout" => k.user = r.user
    <3>1. k = JobFor(c, who, r.msg, r.password)
      OBVIOUS
    <3>2. /\ who \in Users \cup {None} /\ r.msg \in Msgs \cup {None}
          /\ r.password \in {"right", "wrong", None}
      BY <2>1, <2>3 DEF Requests
    <3> HIDE DEF who
    <3>3. k \in Jobs /\ k.conn = c /\ k.msg = r.msg /\ k.user = who
      BY <3>1, <3>2, JobForType
    <3> QED BY <3>3 DEF who
  <2>5. next \in Pcs /\ JobOK(l, next, k)
    BY <2>1, <2>2, <2>3, <2>4, SMT
       DEF HandlerOf, JobOK, Pcs, LoginPcs, ClosePcs, OneChatPcs, GroupChatPcs
  <2>6. ThreadsTypeOK' /\ JobsOK'
    BY <2>4, <2>5, <1>0, <1>1, GotoWithType DEF OnMessage, TypeOK
  <2>7. NoRequest \in Requests
    BY SMT DEF NoRequest, Requests
  <2>8. TerminalsTypeOK' /\ RequestsOK' /\ TerminalsOK'
    BY <2>7, <1>0, <1>1, SMT
       DEF OnMessage, NoRequest, TypeOK, TerminalsTypeOK, RequestsOK, TerminalsOK
  <2>9. NetTypeOK'
    BY <1>0, <1>1 DEF OnMessage, TypeOK, NetTypeOK
  <2> QED BY <2>6, <2>8, <2>9, <1>1 DEF OnMessage, TypeInv, TypeOK
<1>2. ASSUME NEW c \in Conns, OnClose(l, c) PROVE TypeInv'
  <2> DEFINE k == JobFor(c, None, None, None)
  <2>1. k \in Jobs /\ k.conn = c /\ LoopOf[c] = l
    BY <1>2, JobForType DEF OnClose
  <2>2. "close" \in Pcs /\ JobOK(l, "close", k)
    BY <2>1, SMT DEF JobOK, Pcs, LoginPcs, ClosePcs, OneChatPcs, GroupChatPcs
  <2>3. ThreadsTypeOK' /\ JobsOK'
    BY <2>1, <2>2, <1>0, <1>2, GotoWithType DEF OnClose, TypeOK
  <2>4. NetTypeOK'
    BY <1>0, <1>2 DEF OnClose, TypeOK, NetTypeOK
  <2> QED BY <2>3, <2>4, <1>2 DEF OnClose, TypeInv, TypeOK
<1>3. CASE RunPendingFunctors(l)
  <2>1. \A c \in Conns : toClient[c] \in Seq(Frames) /\ pending[c] \in Seq(Frames)
    BY <1>0 DEF TypeOK, NetTypeOK
  <2>2. \A c \in Conns : toClient[c] \o pending[c] \in Seq(Frames)
    BY <2>1, SMT
  <2>3. << >> \in Seq(Frames)
    BY SMT
  <2>4. toClient' \in [Conns -> Seq(Frames)]
    BY <2>1, <2>2, <1>3 DEF RunPendingFunctors
  <2>5. pending' \in [Conns -> Seq(Frames)] /\ served' \in [Conns -> BOOLEAN]
    BY <2>1, <2>3, <1>0, <1>3 DEF RunPendingFunctors, TypeOK, NetTypeOK
  <2>6. NetTypeOK'
    BY <2>4, <2>5, <1>0, <1>3 DEF RunPendingFunctors, TypeOK, NetTypeOK
  <2> QED BY <2>6, <1>3 DEF RunPendingFunctors, TypeInv, TypeOK
<1> QED BY <1>1, <1>2, <1>3 DEF Dispatch

LEMMA ObserveType ==
  ASSUME TypeInv, NEW s \in Servers, Observe(s)
  PROVE  TypeInv'
<1> USE UnchangedTypes
<1>0. TypeOK /\ JobsOK
  BY DEF TypeInv
<1>1. CASE ObserverForward(s)
  <2> DEFINE letter == Head(push[s])
             dest == userConnMap[s][letter.channel]
  <2>1. letter \in Letters /\ Tail(push[s]) \in Seq(Letters)
    BY <1>0, <1>1, SMT DEF ObserverForward, TypeOK, RedisTypeOK
  <2>2. letter.channel \in Users /\ letter.msg \in Msgs
    BY <2>1 DEF Letters
  <2>3. RedisTypeOK'
    BY <2>1, <1>0, <1>1 DEF ObserverForward, ReadReply, TypeOK, RedisTypeOK
  <2>4. CASE dest # None
    <3>1. dest \in Conns /\ MsgFrame(letter.channel, letter.msg) \in Frames
      BY <2>2, <2>4, <1>0, MsgFrameType DEF TypeOK, SessionsTypeOK
    <3>2. SendFrame("observer", dest, MsgFrame(letter.channel, letter.msg))
          /\ UNCHANGED <<observer, mutex>>
      BY <2>4, <1>1 DEF ObserverForward
    <3>3. NetTypeOK'
      BY <3>1, <3>2, <1>0, SendFrameType DEF TypeOK
    <3>4. UNCHANGED threadVars /\ UNCHANGED sessionVars
      BY <3>2, <1>1 DEF ObserverForward, threadVars, sessionVars
    <3> QED BY <2>3, <3>3, <3>4, <1>1 DEF ObserverForward, TypeInv, TypeOK
  <2>5. CASE dest = None
    <3>1. /\ observer' = [observer EXCEPT ![s] = letter]
          /\ Lock(s, "observer") /\ UNCHANGED netVars
      BY <2>5, <1>1 DEF ObserverForward
    <3>2. UNCHANGED <<pc, job, mainPc, todo, it>> /\ UNCHANGED userConnMap
      BY <1>1 DEF ObserverForward
    <3>3. ThreadsTypeOK' /\ JobsOK'
      BY <3>1, <3>2, <2>1, <1>0 DEF TypeOK, ThreadsTypeOK, JobsOK, JobOK
    <3>4. SessionsTypeOK'
      BY <3>1, <3>2, <1>0, LockType DEF OtherThreads, TypeOK
    <3> QED BY <2>3, <3>1, <3>3, <3>4, <1>1 DEF ObserverForward, TypeInv, TypeOK
  <2> QED BY <2>4, <2>5
<1>2. CASE ObserverStore(s)
  <2>1. observer[s].channel \in Users /\ observer[s].msg \in Msgs
    BY <1>0, <1>2 DEF ObserverStore, TypeOK, ThreadsTypeOK, Letters
  <2>2. TablesTypeOK'
    BY <2>1, <1>0, <1>2, OfflineInsertType DEF ObserverStore, TypeOK
  <2>3. ThreadsTypeOK' /\ JobsOK'
    BY <1>0, <1>2 DEF ObserverStore, TypeOK, ThreadsTypeOK, JobsOK, JobOK
  <2>4. SessionsTypeOK'
    BY <1>0, <1>2, UnlockType DEF ObserverStore, TypeOK
  <2> QED BY <2>2, <2>3, <2>4, <1>2 DEF ObserverStore, TypeInv, TypeOK
<1> QED BY <1>1, <1>2 DEF Observe

LEMMA ProcessEndsType ==
  ASSUME TypeInv, NEW s \in Servers, ProcessEnds(s), stops' \in Nat
  PROVE  TypeInv'
<1> USE UnchangedTypes
<1>0. TypeOK /\ JobsOK /\ RequestsOK /\ TerminalsOK
  BY DEF TypeInv
<1>1. NoJob \in Jobs /\ NoRequest \in Requests /\ << >> \in Seq(Frames)
      /\ << >> \in Seq(Commands) /\ << >> \in Seq(Letters)
  BY JobForType, SMT DEF NoJob, NoRequest, Requests
<1>2. TablesTypeOK'
  BY DEF ProcessEnds
<1>3. RedisTypeOK'
  BY <1>0, <1>1 DEF ProcessEnds, RedisDisconnect, TypeOK, RedisTypeOK
<1>4. TerminalsTypeOK' /\ RequestsOK' /\ TerminalsOK'
  <2>1. /\ clientPc' = [c \in Conns |-> IF ConnServer(c) = s /\ clientPc[c] # "off"
                                        THEN "closed" ELSE clientPc[c]]
        /\ request' = [c \in Conns |-> IF ConnServer(c) = s THEN NoRequest ELSE request[c]]
        /\ UNCHANGED <<clientUser, nread, sent>>
    BY DEF ProcessEnds
  <2>2. TerminalsTypeOK'
    BY <2>1, <1>0, <1>1 DEF TypeOK, TerminalsTypeOK
  <2>3. RequestsOK'
    BY <2>1, <1>0, SMT DEF RequestsOK, NoRequest
  <2>4. TerminalsOK'
    BY <2>1, <1>0 DEF TerminalsOK
  <2> QED BY <2>2, <2>3, <2>4
<1>5. NetTypeOK'
  <2>1. /\ connected' \in [Conns -> BOOLEAN]
        /\ served' \in [Conns -> BOOLEAN]
        /\ UNCHANGED toClient
    BY <1>0 DEF ProcessEnds, TypeOK, NetTypeOK
  <2>2. pending' \in [Conns -> Seq(Frames)]
    BY <1>0, <1>1 DEF ProcessEnds, TypeOK, NetTypeOK
  <2> QED BY <2>1, <2>2, <1>0 DEF TypeOK, NetTypeOK
<1>6. ThreadsTypeOK' /\ JobsOK'
  <2>1. /\ pc' = [l \in Loops |-> IF ServerOf[l] = s THEN "idle" ELSE pc[l]]
        /\ job' = [l \in Loops |-> IF ServerOf[l] = s THEN NoJob ELSE job[l]]
        /\ observer' = [observer EXCEPT ![s] = NoLetter]
        /\ mainPc' = [mainPc EXCEPT ![s] = "loop"]
        /\ todo' = [todo EXCEPT ![s] = {}]
        /\ it' = [it EXCEPT ![s] = None]
    BY DEF ProcessEnds
  <2>2. "idle" \in Pcs
    BY DEF Pcs
  <2>3. ThreadsTypeOK'
    BY <2>1, <2>2, <1>0, <1>1 DEF TypeOK, ThreadsTypeOK
  <2>4. \A l \in Loops : JobOK(l, "idle", NoJob)
    BY SMT DEF JobOK, LoginPcs, OneChatPcs, GroupChatPcs
  <2>5. \A l \in Loops : JobOK(l, pc'[l], job'[l])
    BY <2>1, <2>4, <1>0 DEF JobsOK
  <2> QED BY <2>3, <2>5 DEF JobsOK, JobOK
<1>7. SessionsTypeOK'
  BY <1>0 DEF ProcessEnds, TypeOK, SessionsTypeOK
<1>8. ProcessesTypeOK'
  BY <1>0 DEF ProcessEnds, TypeOK, ProcessesTypeOK
<1> QED BY <1>2, <1>3, <1>4, <1>5, <1>6, <1>7, <1>8 DEF TypeInv, TypeOK

LEMMA ProcessType ==
  ASSUME TypeInv, NEW s \in Servers, Sigint(s) \/ Reset(s) \/ Crash(s) \/ Start(s)
  PROVE  TypeInv'
<1> USE UnchangedTypes
<1>0. TypeOK /\ JobsOK
  BY DEF TypeInv
<1>1. CASE Sigint(s)
  <2>1. ThreadsTypeOK' /\ JobsOK'
    BY <1>0, <1>1 DEF Sigint, UnchangedByReset, TypeOK, ThreadsTypeOK, JobsOK, JobOK
  <2>2. SessionsTypeOK'
    BY <1>0, <1>1, LockType DEF Sigint, OtherThreads, TypeOK
  <2>3. ProcessesTypeOK'
    BY <1>0, <1>1, SMT DEF Sigint, UnchangedByReset, TypeOK, ProcessesTypeOK
  <2> QED BY <2>1, <2>2, <2>3, <1>1 DEF Sigint, UnchangedByReset, TypeInv, TypeOK
<1>2. CASE ResetUnsubscribe(s)
  <2>1. PICK u \in todo[s] : /\ Unsubscribe(s, u)
                             /\ it' = [it EXCEPT ![s] = u]
                             /\ todo' = [todo EXCEPT ![s] = @ \ {u}]
    BY <1>2 DEF ResetUnsubscribe
  <2>2. u \in Users
    BY <1>0 DEF TypeOK, ThreadsTypeOK
  <2>3. RedisTypeOK'
    BY <2>1, <2>2, <1>0, WriteCommandType DEF Unsubscribe, TypeOK
  <2>4. ThreadsTypeOK' /\ JobsOK'
    BY <2>1, <2>2, <1>0, <1>2
       DEF ResetUnsubscribe, UnchangedByReset, TypeOK, ThreadsTypeOK, JobsOK, JobOK
  <2>5. UNCHANGED processVars
    BY <1>2 DEF ResetUnsubscribe, UnchangedByReset, processVars
  <2> QED BY <2>3, <2>4, <2>5, <1>2 DEF ResetUnsubscribe, UnchangedByReset, TypeInv, TypeOK
<1>3. CASE ResetOffline(s)
  <2>1. TablesTypeOK'
    <3>1. CASE it[s] \in Users
      BY <3>1, <1>0, <1>3, UserUpdateStateType DEF ResetOffline, TypeOK
    <3>2. CASE it[s] \notin Users
      <4>1. /\ userState' = [userState EXCEPT ![it[s]] = "offline"] \/ userState' = userState
            /\ offlineMessage' = offlineMessage
        BY <1>3 DEF ResetOffline, UserUpdateState
      <4> QED BY <4>1, <3>2, <1>0 DEF TypeOK, TablesTypeOK
    <3> QED BY <3>1, <3>2
  <2>2. ThreadsTypeOK' /\ JobsOK'
    BY <1>0, <1>3
       DEF ResetOffline, UnchangedByReset, TypeOK, ThreadsTypeOK, JobsOK, JobOK
  <2>3. UNCHANGED processVars
    BY <1>3 DEF ResetOffline, UnchangedByReset, processVars
  <2> QED BY <2>1, <2>2, <2>3, <1>3 DEF ResetOffline, UnchangedByReset, TypeInv, TypeOK
<1>4. CASE ResetClear(s)
  <2>1. ThreadsTypeOK' /\ JobsOK'
    BY <1>0, <1>4
       DEF ResetClear, UnchangedByReset, TypeOK, ThreadsTypeOK, JobsOK, JobOK
  <2>2. SessionsTypeOK'
    BY <1>0, <1>4 DEF ResetClear, Unlock, TypeOK, SessionsTypeOK
  <2>3. UNCHANGED processVars
    BY <1>4 DEF ResetClear, UnchangedByReset, processVars
  <2> QED BY <2>1, <2>2, <2>3, <1>4 DEF ResetClear, UnchangedByReset, TypeInv, TypeOK
<1>5. CASE ResetExit(s)
  BY <1>0, <1>5, ProcessEndsType DEF ResetExit, TypeOK, ProcessesTypeOK
<1>6. CASE Crash(s)
  <2>1. stops' \in Nat
    BY <1>0, <1>6, SMT DEF Crash, TypeOK, ProcessesTypeOK
  <2> QED BY <2>1, <1>6, ProcessEndsType DEF Crash
<1>7. CASE Start(s)
  <2>1. ProcessesTypeOK'
    BY <1>0, <1>7 DEF Start, TypeOK, ProcessesTypeOK
  <2> QED BY <2>1, <1>7 DEF Start, TypeInv, TypeOK
<1> QED BY <1>1, <1>2, <1>3, <1>4, <1>5, <1>6, <1>7 DEF Reset

LEMMA PostType ==
  ASSUME TypeInv, NEW c \in Conns, NEW m \in Msgs, clientPc[c] = "chatting", Post(c, m)
  PROVE  sent' \in Seq(Posts)
<1>1. clientUser[c] \in Users
  BY DEF TypeInv, TerminalsOK
<1>2. [msg |-> m, from |-> clientUser[c], conn |-> c] \in Posts
  BY <1>1 DEF Posts
<1> QED BY <1>2, SMT DEF Post, TypeInv, TypeOK, TerminalsTypeOK

\* What every step of a terminal that sends request r has in common.
LEMMA SendType ==
  ASSUME TypeInv, NEW c \in Conns, NEW r \in Requests, NEW at, Send(c, r),
         r.kind # "none", r.user \in Users,
         r.kind \in {"oneChat", "groupChat"} => r.msg \in Msgs,
         at \in {"menu", "waiting", "chatting"},
         at = "chatting" => clientPc[c] = "chatting",
         clientPc' = [clientPc EXCEPT ![c] = at],
         sent' \in Seq(Posts), UNCHANGED <<clientUser, nread>>
  PROVE  TerminalsTypeOK' /\ RequestsOK' /\ TerminalsOK'
<1>0. TypeOK /\ RequestsOK /\ TerminalsOK
  BY DEF TypeInv
<1>1. request' = [request EXCEPT ![c] = r]
  BY DEF Send
<1>2. TerminalsTypeOK'
  BY <1>0, <1>1, SMT DEF TypeOK, TerminalsTypeOK
<1>3. RequestsOK'
  BY <1>0, <1>1 DEF TypeOK, TerminalsTypeOK, RequestsOK
<1>4. TerminalsOK'
  BY <1>0, <1>1 DEF TypeOK, TerminalsTypeOK, TerminalsOK
<1> QED BY <1>2, <1>3, <1>4

LEMMA TerminalType ==
  ASSUME TypeInv, NEW c \in Conns,
         Accept(c) \/ Terminal(c) \/ \E u \in Users : Login(c, u)
  PROVE  TypeInv'
<1> USE UnchangedTypes
<1>0. TypeOK /\ RequestsOK /\ TerminalsOK
  BY DEF TypeInv
<1>1. CASE Accept(c)
  <2>1. TerminalsTypeOK' /\ RequestsOK' /\ TerminalsOK'
    BY <1>0, <1>1, SMT
       DEF Accept, Connect, TypeOK, TerminalsTypeOK, RequestsOK, TerminalsOK
  <2>2. NetTypeOK'
    BY <1>0, <1>1 DEF Accept, Connect, TypeOK, NetTypeOK
  <2> QED BY <2>1, <2>2, <1>1 DEF Accept, TypeInv, TypeOK
<1>2. ASSUME TerminalsTypeOK', RequestsOK', TerminalsOK', UNCHANGED <<redisVars, toClient>>,
             ServersIdle
      PROVE  TypeInv'
  <2>1. NetTypeOK'
    BY <1>0, <1>2 DEF ServersIdle, TypeOK, NetTypeOK
  <2> QED BY <2>1, <1>2 DEF ServersIdle, TypeInv, TypeOK
<1>3. ASSUME NEW u \in Users, Login(c, u) PROVE TypeInv'
  <2>1. PICK p \in Passwords : SendLogin(c, u, p)
    BY <1>3 DEF Login
  <2> DEFINE r == [kind |-> "login", user |-> u, msg |-> None, password |-> p]
  <2>2. r \in Requests
    BY FaultAssumption DEF Requests
  <2>3. TerminalsTypeOK' /\ RequestsOK' /\ TerminalsOK'
    <3>1. Send(c, r) /\ clientPc' = [clientPc EXCEPT ![c] = "waiting"]
          /\ UNCHANGED <<clientUser, nread, sent, toClient>>
      BY <2>1 DEF SendLogin
    <3>2. sent' \in Seq(Posts)
      BY <3>1, <1>0 DEF TypeOK, TerminalsTypeOK
    <3> QED BY <2>2, <3>1, <3>2, SendType
  <2> QED BY <2>1, <2>3, <1>2, <1>3 DEF Login, SendLogin
<1>4. ASSUME ReadLoginAck(c) PROVE TerminalsTypeOK' /\ RequestsOK' /\ TerminalsOK'
  <2>1. PICK i \in nread[c] + 1 .. Len(toClient[c]) :
          /\ nread' = [nread EXCEPT ![c] = i]
          /\ IF toClient[c][i].kind = "ok"
             THEN /\ clientPc' = [clientPc EXCEPT ![c] = "chatting"]
                  /\ clientUser' = [clientUser EXCEPT ![c] = toClient[c][i].user]
             ELSE /\ clientPc' = [clientPc EXCEPT ![c] = "menu"]
                  /\ UNCHANGED clientUser
    BY <1>4 DEF ReadLoginAck
  <2>2. UNCHANGED <<request, sent>>
    BY <1>4 DEF ReadLoginAck
  <2>3. i \in Nat /\ toClient[c][i] \in Frames
    BY <1>0, SMT DEF TypeOK, NetTypeOK, TerminalsTypeOK
  <2>4. toClient[c][i].user \in Users
    BY <2>3 DEF Frames
  <2>5. TerminalsTypeOK'
    BY <2>1, <2>2, <2>3, <2>4, <1>0 DEF TypeOK, TerminalsTypeOK
  <2>6. RequestsOK' /\ TerminalsOK'
    BY <2>1, <2>2, <2>4, <1>0 DEF TypeOK, TerminalsTypeOK, RequestsOK, TerminalsOK
  <2> QED BY <2>5, <2>6
<1>5. ASSUME NEW m \in Chats, SendChat(c, m) PROVE TerminalsTypeOK' /\ RequestsOK' /\ TerminalsOK'
  <2> DEFINE r == [kind |-> "oneChat", user |-> AddresseeOf[m], msg |-> m, password |-> None]
  <2>1. AddresseeOf[m] \in Users /\ m \in Msgs
    BY PlacementAssumption DEF Msgs
  <2>2. r \in Requests
    BY <2>1 DEF Requests
  <2>3. sent' \in Seq(Posts)
    BY <2>1, <1>5, PostType DEF SendChat
  <2>4. clientPc[c] = "chatting" /\ Send(c, r)
        /\ UNCHANGED <<clientPc, clientUser, nread>>
    BY <1>5 DEF SendChat
  <2>5. clientPc' = [clientPc EXCEPT ![c] = "chatting"]
    BY <2>4, <1>0 DEF TypeOK, TerminalsTypeOK
  <2> QED BY <2>1, <2>2, <2>3, <2>4, <2>5, SendType
<1>6. ASSUME NEW m \in GroupChats, SendGroupChat(c, m)
      PROVE  TerminalsTypeOK' /\ RequestsOK' /\ TerminalsOK'
  <2> DEFINE r == [kind |-> "groupChat", user |-> clientUser[c], msg |-> m, password |-> None]
  <2>1. clientUser[c] \in Users /\ m \in Msgs
    BY <1>0, <1>6 DEF SendGroupChat, TerminalsOK, Msgs
  <2>2. r \in Requests
    BY <2>1 DEF Requests
  <2>3. sent' \in Seq(Posts)
    BY <2>1, <1>6, PostType DEF SendGroupChat
  <2>4. clientPc[c] = "chatting" /\ Send(c, r)
        /\ UNCHANGED <<clientPc, clientUser, nread>>
    BY <1>6 DEF SendGroupChat
  <2>5. clientPc' = [clientPc EXCEPT ![c] = "chatting"]
    BY <2>4, <1>0 DEF TypeOK, TerminalsTypeOK
  <2> QED BY <2>1, <2>2, <2>3, <2>4, <2>5, SendType
<1>7. ASSUME SendLoginout(c) PROVE TerminalsTypeOK' /\ RequestsOK' /\ TerminalsOK'
  <2> DEFINE r == [kind |-> "loginout", user |-> clientUser[c], msg |-> None, password |-> None]
  <2>1. clientUser[c] \in Users
    BY <1>0, <1>7 DEF SendLoginout, TerminalsOK
  <2>2. r \in Requests
    BY <2>1 DEF Requests
  <2>3. Send(c, r) /\ clientPc' = [clientPc EXCEPT ![c] = "menu"]
        /\ UNCHANGED <<clientUser, nread, sent>>
    BY <1>7 DEF SendLoginout
  <2>4. sent' \in Seq(Posts)
    BY <2>3, <1>0 DEF TypeOK, TerminalsTypeOK
  <2> QED BY <2>1, <2>2, <2>3, <2>4, SendType
<1>8. ASSUME Exit(c) PROVE TerminalsTypeOK' /\ RequestsOK' /\ TerminalsOK'
  <2>1. NoRequest \in Requests
    BY SMT DEF NoRequest, Requests
  <2>2. /\ clientPc' = [clientPc EXCEPT ![c] = "closed"]
        /\ request' = request \/ request' = [request EXCEPT ![c] = NoRequest]
        /\ UNCHANGED <<clientUser, nread, sent>>
    BY <1>8 DEF Exit
  <2>3. TerminalsTypeOK'
    BY <2>1, <2>2, <1>0 DEF TypeOK, TerminalsTypeOK
  <2>4. RequestsOK'
    BY <2>1, <2>2, <1>0, SMT DEF TypeOK, TerminalsTypeOK, RequestsOK, NoRequest
  <2>5. TerminalsOK'
    BY <2>2, <1>0 DEF TypeOK, TerminalsTypeOK, TerminalsOK
  <2> QED BY <2>3, <2>4, <2>5
<1>9. CASE Terminal(c)
  <2>1. TerminalsTypeOK' /\ RequestsOK' /\ TerminalsOK'
    BY <1>4, <1>5, <1>6, <1>7, <1>8, <1>9 DEF Terminal
  <2>2. UNCHANGED <<redisVars, toClient>> /\ ServersIdle
    BY <1>9 DEF Terminal, ReadLoginAck, SendChat, SendGroupChat, SendLoginout, Exit
  <2> QED BY <2>1, <2>2, <1>2
<1> QED BY <1>1, <1>3, <1>9

LEMMA RedisStepType ==
  ASSUME TypeInv, NEW s \in Servers, Redis(s)
  PROVE  TypeInv'
<1> USE UnchangedTypes
<1>0. TypeOK
  BY DEF TypeInv
<1>1. cmds[s] # <<>> /\ Head(cmds[s]) \in Commands /\ Tail(cmds[s]) \in Seq(Commands)
  BY <1>0, SMT DEF Redis, RedisExecute, TypeOK, RedisTypeOK
<1>2. Head(cmds[s]).channel \in Users
  BY <1>1 DEF Commands
<1>3. RedisTypeOK'
  BY <1>0, <1>1, <1>2 DEF Redis, RedisExecute, TypeOK, RedisTypeOK
<1>4. NetTypeOK'
  BY <1>0 DEF Redis, ServersIdle, TypeOK, NetTypeOK
<1> QED BY <1>3, <1>4 DEF Redis, ServersIdle, TypeInv, TypeOK

-----------------------------------------------------------------------------
LEMMA TypeStep == TypeInv /\ [Next]_vars => TypeInv'
<1> SUFFICES ASSUME TypeInv, [Next]_vars PROVE TypeInv'
  OBVIOUS
<1>1. ASSUME NEW c \in Conns, Accept(c) \/ Terminal(c) \/ \E u \in Users : Login(c, u)
      PROVE  TypeInv'
  BY <1>1, TerminalType
<1>2. ASSUME NEW l \in Loops, Dispatch(l) \/ Handle(l) PROVE TypeInv'
  BY <1>2, DispatchType, LoginType, CloseType, OneChatType, GroupChatType DEF Handle
<1>3. ASSUME NEW s \in Servers,
             Observe(s) \/ Redis(s) \/ Sigint(s) \/ Reset(s) \/ Crash(s) \/ Start(s)
      PROVE  TypeInv'
  BY <1>3, ObserveType, RedisStepType, ProcessType
<1>4. CASE UNCHANGED vars
  BY <1>4, UnchangedTypes DEF vars, TypeInv, TypeOK
<1> QED BY <1>1, <1>2, <1>3, <1>4 DEF Next

(***************************************************************************)
(* The variables keep their types, and what the handlers take for an       *)
(* account, a message or a connection is one: no handler works with the    *)
(* None of a field that its request or its earlier steps did not fill.     *)
(***************************************************************************)
THEOREM TypeCorrect == Spec => []TypeInv
<1>1. Init => TypeInv
  BY TypeInit
<1>2. TypeInv /\ [Next]_vars => TypeInv'
  BY TypeStep
<1> QED BY <1>1, <1>2, PTL DEF Spec

(***************************************************************************)
(* Every variable of the cluster keeps its type in every behaviour.        *)
(***************************************************************************)
THEOREM TypeInvariance == Spec => []TypeOK
<1>1. TypeInv => TypeOK
  BY DEF TypeInv
<1> QED BY <1>1, TypeCorrect, PTL

-----------------------------------------------------------------------------
(***************************************************************************)
(* The mutex and the iterators.                                            *)
(***************************************************************************)
MutexInv == TypeInv /\ LockInv /\ ResetOK /\ IteratorsValid

ClosingPcs == {"closeUnsubscribe", "closeOffline", "closeErase"}

LEMMA DistinctThreads ==
  \A l \in Loops : l # None /\ l # "observer" /\ l # "main"
BY NoneAssumption DEF OtherThreads

LEMMA MutexInit == Init => LockInv /\ ResetOK /\ IteratorsValid
BY DistinctThreads, NoneAssumption, SMT
   DEF Init, LockInv, ResetOK, IteratorsValid, InReset, LockPcs, OtherThreads

(***************************************************************************)
(* A handler goes from one program counter to the next, keeping, taking or *)
(* releasing the mutex, and leaves the map alone.                          *)
(***************************************************************************)
LEMMA HandlerMoves ==
  ASSUME MutexInv, NEW l \in Loops, NEW next \in Pcs, NEW j,
         GotoWith(l, next, j), UNCHANGED userConnMap,
         \/ (pc[l] \in LockPcs <=> next \in LockPcs) /\ UNCHANGED mutex
         \/ pc[l] \notin LockPcs /\ next \in LockPcs /\ Lock(ServerOf[l], l)
         \/ pc[l] \in LockPcs /\ next \notin LockPcs /\ Unlock(ServerOf[l]),
         next \in ClosingPcs => userConnMap[ServerOf[l]][j.user] = j.conn
  PROVE  LockInv' /\ ResetOK' /\ IteratorsValid'
<1>0. TypeOK /\ LockInv /\ ResetOK /\ IteratorsValid /\ ServerOf[l] \in Servers
      /\ ServerOf \in [Loops -> Servers]
  BY PlacementAssumption DEF MutexInv, TypeInv
<1>1. pc' = [pc EXCEPT ![l] = next] /\ job' = [job EXCEPT ![l] = j]
      /\ UNCHANGED <<observer, mainPc, todo, it>>
  BY DEF GotoWith
<1>2. /\ pc \in [Loops -> Pcs] /\ job \in [Loops -> Jobs]
      /\ mutex \in [Servers -> Loops \cup OtherThreads \cup {None}]
  BY <1>0 DEF TypeOK, ThreadsTypeOK, SessionsTypeOK
<1>3. LockInv'
  <2>1. CASE (pc[l] \in LockPcs <=> next \in LockPcs) /\ UNCHANGED mutex
    BY <2>1, <1>0, <1>1, <1>2 DEF LockInv, InReset
  <2>2. CASE pc[l] \notin LockPcs /\ next \in LockPcs /\ Lock(ServerOf[l], l)
    BY <2>2, <1>0, <1>1, <1>2, DistinctThreads, NoneAssumption
       DEF LockInv, InReset, Lock, OtherThreads
  <2>3. CASE pc[l] \in LockPcs /\ next \notin LockPcs /\ Unlock(ServerOf[l])
    BY <2>3, <1>0, <1>1, <1>2, DistinctThreads, NoneAssumption
       DEF LockInv, InReset, Unlock, OtherThreads
  <2> QED BY <2>1, <2>2, <2>3
<1>4. ResetOK'
  BY <1>0, <1>1 DEF ResetOK, InReset
<1>5. IteratorsValid'
  BY <1>0, <1>1, <1>2 DEF IteratorsValid, ClosingPcs
<1> QED BY <1>3, <1>4, <1>5

LEMMA FreeLock ==
  ASSUME MutexInv, NEW s \in Servers, mutex[s] = None
  PROVE  /\ \A l \in Loops : ServerOf[l] = s => pc[l] \notin LockPcs
         /\ ~InReset(s) /\ todo[s] = {} /\ it[s] = None
BY NoneAssumption, DistinctThreads DEF MutexInv, LockInv, ResetOK, OtherThreads

LEMMA HeldLock ==
  ASSUME MutexInv, NEW l \in Loops, pc[l] \in LockPcs
  PROVE  /\ mutex[ServerOf[l]] = l
         /\ \A k \in Loops : ServerOf[k] = ServerOf[l] /\ pc[k] \in LockPcs => k = l
         /\ ~InReset(ServerOf[l]) /\ todo[ServerOf[l]] = {} /\ it[ServerOf[l]] = None
<1>1. ServerOf[l] \in Servers
  BY PlacementAssumption
<1> QED BY <1>1, NoneAssumption, DistinctThreads DEF MutexInv, LockInv, ResetOK, OtherThreads

LEMMA LoginMutex ==
  ASSUME MutexInv, NEW l \in Loops, LoginStep(l)
  PROVE  LockInv' /\ ResetOK' /\ IteratorsValid'
<1>0. TypeOK /\ LockInv /\ ResetOK /\ IteratorsValid /\ ServerOf[l] \in Servers
  BY PlacementAssumption DEF MutexInv, TypeInv
<1>1. pc[l] \in LoginPcs
  BY DEF LoginStep, LoginRefuse, LoginAccept, LoginInsert, LoginSubscribe, LoginOnline,
         LoginReadOffline, LoginRemoveOffline, LoginAck, LoginPcs
<1>2. \A at \in LoginPcs \cup {"idle"} : at \in Pcs /\ at \notin LockPcs /\ at \notin ClosingPcs
  BY SMT DEF LoginPcs, LockPcs, ClosingPcs, Pcs
<1>3. CASE LoginInsert(l)
  <2>1. /\ \A k \in Loops : ServerOf[k] = ServerOf[l] => pc[k] \notin LockPcs
        /\ ~InReset(ServerOf[l]) /\ todo[ServerOf[l]] = {} /\ it[ServerOf[l]] = None
    BY <1>0, <1>3, FreeLock DEF LoginInsert
  <2>2. /\ pc' = [pc EXCEPT ![l] = "loginSubscribe"]
        /\ UNCHANGED <<job, observer, mainPc, todo, it, mutex>>
        /\ userConnMap' = [userConnMap EXCEPT ![ServerOf[l]][job[l].user] =
                             IF @ = None THEN job[l].conn ELSE @]
    BY <1>3 DEF LoginInsert, Goto
  <2>3. /\ pc \in [Loops -> Pcs]
        /\ userConnMap \in [Servers -> [Users -> Conns \cup {None}]]
    BY <1>0 DEF TypeOK, ThreadsTypeOK, SessionsTypeOK
  <2>4. "loginSubscribe" \notin LockPcs /\ pc[l] \notin LockPcs
    BY <1>1, <1>2 DEF LoginPcs
  <2>5. LockInv'
    BY <2>2, <2>3, <2>4, <1>0 DEF LockInv, InReset
  <2>6. ResetOK'
    BY <2>2, <1>0 DEF ResetOK, InReset
  <2>7. \A k \in Loops : pc'[k] \in ClosingPcs => ServerOf[k] # ServerOf[l] /\ pc[k] \in ClosingPcs
    BY <2>1, <2>2, <2>3, <2>4 DEF ClosingPcs, LockPcs
  <2>8. \A t \in Servers : t # ServerOf[l] => userConnMap'[t] = userConnMap[t]
    BY <2>2, <2>3
  <2>9. IteratorsValid'
    <3>1. ASSUME NEW k \in Loops, pc'[k] \in ClosingPcs
          PROVE  userConnMap'[ServerOf[k]][job'[k].user] = job'[k].conn
      BY <3>1, <2>2, <2>7, <2>8, <1>0, PlacementAssumption DEF IteratorsValid, ClosingPcs
    <3>2. ASSUME NEW t \in Servers, NEW u \in (todo'[t] \cup {it'[t]}) \ {None}
          PROVE  userConnMap'[t][u] # None
      BY <3>2, <2>1, <2>2, <2>8, <1>0 DEF IteratorsValid
    <3> QED BY <3>1, <3>2 DEF IteratorsValid, ClosingPcs
  <2> QED BY <2>5, <2>6, <2>9
<1>4. CASE ~LoginInsert(l)
  <2>1. PICK next, j : /\ next \in LoginPcs \cup {"idle"} /\ GotoWith(l, next, j)
                          /\ UNCHANGED sessionVars
    <3>1. \A next : Goto(l, next) => GotoWith(l, next, job[l])
      BY <1>0 DEF Goto, GotoWith, TypeOK, ThreadsTypeOK
    <3> QED BY <3>1, <1>4 DEF LoginStep, LoginRefuse, LoginAccept, LoginSubscribe, LoginOnline,
         LoginReadOffline, LoginRemoveOffline, LoginAck, LoginPcs, Finish
  <2>2. UNCHANGED userConnMap /\ UNCHANGED mutex
    BY <2>1 DEF sessionVars
  <2> QED BY <2>1, <2>2, <1>1, <1>2, HandlerMoves
<1> QED BY <1>3, <1>4

LEMMA CloseMutex ==
  ASSUME MutexInv, NEW l \in Loops, CloseStep(l)
  PROVE  LockInv' /\ ResetOK' /\ IteratorsValid'
<1>0. TypeOK /\ LockInv /\ ResetOK /\ IteratorsValid /\ ServerOf[l] \in Servers
  BY PlacementAssumption DEF MutexInv, TypeInv
<1>1. ClosingPcs \subseteq LockPcs /\ ClosingPcs \subseteq Pcs
      /\ "close" \notin LockPcs /\ "idle" \notin LockPcs /\ "idle" \in Pcs /\ "idle" \notin ClosingPcs
  BY SMT DEF ClosingPcs, LockPcs, Pcs, ClosePcs, LoginPcs, OneChatPcs, GroupChatPcs
<1>2. job[l] \in Jobs
  BY <1>0 DEF TypeOK, ThreadsTypeOK
<1>3. CASE CloseFind(l)
  <2>1. PICK u \in Users : /\ userConnMap[ServerOf[l]][u] = job[l].conn
                           /\ GotoWith(l, "closeUnsubscribe", [job[l] EXCEPT !.user = u])
    BY <1>3 DEF CloseFind
  <2> DEFINE k == [job[l] EXCEPT !.user = u]
  <2>2. k.user = u /\ k.conn = job[l].conn
    BY <1>2, SMT DEF Jobs
  <2>3. Lock(ServerOf[l], l) /\ UNCHANGED userConnMap /\ pc[l] \notin LockPcs
    BY <1>1, <1>3 DEF CloseFind
  <2>4. "closeUnsubscribe" \in LockPcs /\ "closeUnsubscribe" \in Pcs
    BY <1>1 DEF ClosingPcs
  <2> HIDE DEF k
  <2> QED BY <2>1, <2>2, <2>3, <2>4, HandlerMoves DEF k
<1>4. CASE CloseNothing(l)
  <2>1. UNCHANGED userConnMap /\ UNCHANGED mutex /\ pc[l] \notin LockPcs
    BY <1>1, <1>4 DEF CloseNothing, sessionVars
  <2>2. GotoWith(l, "idle", NoJob)
    BY <1>4 DEF CloseNothing, Finish
  <2> QED BY <2>1, <2>2, <1>1, HandlerMoves
<1>5. CASE CloseUnsubscribe(l) \/ CloseOffline(l)
  <2>1. PICK next \in {"closeOffline", "closeErase"} : Goto(l, next)
    BY <1>5 DEF CloseUnsubscribe, CloseOffline
  <2>2. GotoWith(l, next, job[l])
    BY <2>1, <1>0 DEF Goto, GotoWith, TypeOK, ThreadsTypeOK
  <2>3. pc[l] \in ClosingPcs /\ next \in ClosingPcs
    BY <2>1, <1>5 DEF CloseUnsubscribe, CloseOffline, ClosingPcs
  <2>4. userConnMap[ServerOf[l]][job[l].user] = job[l].conn
    BY <2>3, <1>0 DEF IteratorsValid, ClosingPcs
  <2>5. UNCHANGED userConnMap /\ UNCHANGED mutex
    BY <1>5 DEF CloseUnsubscribe, CloseOffline, sessionVars
  <2>6. next \in Pcs /\ pc[l] \in LockPcs /\ next \in LockPcs
    BY <2>3, <1>1
  <2> QED BY <2>2, <2>4, <2>5, <2>6, HandlerMoves
<1>6. CASE CloseErase(l)
  <2>1. pc[l] \in LockPcs
    BY <1>6 DEF CloseErase, LockPcs
  <2>2. /\ \A k \in Loops : ServerOf[k] = ServerOf[l] /\ pc[k] \in LockPcs => k = l
        /\ todo[ServerOf[l]] = {} /\ it[ServerOf[l]] = None
    BY <2>1, HeldLock
  <2>3. /\ pc' = [pc EXCEPT ![l] = "idle"]
        /\ job' = [job EXCEPT ![l] = NoJob]
        /\ UNCHANGED <<observer, mainPc, todo, it>>
        /\ mutex' = [mutex EXCEPT ![ServerOf[l]] = None]
        /\ userConnMap' = [userConnMap EXCEPT ![ServerOf[l]][job[l].user] = None]
    BY <1>6 DEF CloseErase, Finish, GotoWith, Unlock
  <2>4. /\ pc \in [Loops -> Pcs] /\ job \in [Loops -> Jobs]
        /\ mutex \in [Servers -> Loops \cup OtherThreads \cup {None}]
        /\ userConnMap \in [Servers -> [Users -> Conns \cup {None}]]
    BY <1>0 DEF TypeOK, ThreadsTypeOK, SessionsTypeOK
  <2>5. LockInv'
    BY <2>1, <2>2, <2>3, <2>4, <1>0, <1>1, DistinctThreads, NoneAssumption
       DEF LockInv, InReset, OtherThreads
  <2>6. ResetOK'
    BY <2>3, <1>0 DEF ResetOK, InReset
  <2>7. ASSUME NEW k \in Loops, pc'[k] \in ClosingPcs
        PROVE  userConnMap'[ServerOf[k]][job'[k].user] = job'[k].conn
    <3>1. k # l /\ pc[k] \in ClosingPcs
      BY <2>7, <2>3, <2>4, <1>1
    <3>2. ServerOf[k] # ServerOf[l]
      BY <3>1, <2>2, <1>1
    <3>3. job'[k] = job[k] /\ userConnMap'[ServerOf[k]] = userConnMap[ServerOf[k]]
      BY <3>1, <3>2, <2>3, <2>4, PlacementAssumption
    <3> QED BY <3>1, <3>3, <1>0 DEF IteratorsValid, ClosingPcs
  <2>8. ASSUME NEW t \in Servers, NEW u \in (todo'[t] \cup {it'[t]}) \ {None}
        PROVE  userConnMap'[t][u] # None
    <3>1. t # ServerOf[l]
      BY <2>2, <2>3, <2>8
    <3>2. userConnMap'[t] = userConnMap[t]
      BY <3>1, <2>3, <2>4
    <3> QED BY <3>2, <2>3, <2>8, <1>0 DEF IteratorsValid
  <2>9. IteratorsValid'
    BY <2>7, <2>8 DEF IteratorsValid, ClosingPcs
  <2> QED BY <2>5, <2>6, <2>9
<1> QED BY <1>3, <1>4, <1>5, <1>6 DEF CloseStep

LEMMA ChatMutex ==
  ASSUME MutexInv, NEW l \in Loops, OneChatStep(l) \/ GroupChatStep(l)
  PROVE  LockInv' /\ ResetOK' /\ IteratorsValid'
<1> DEFINE Inside == {"groupNext", "groupPublish", "groupStore"}
<1>0. TypeOK
  BY DEF MutexInv, TypeInv
<1>1. /\ \A at \in OneChatPcs \cup {"idle", "groupChat", "groupLock"} :
            at \in Pcs /\ at \notin LockPcs /\ at \notin ClosingPcs
      /\ \A at \in Inside : at \in Pcs /\ at \in LockPcs /\ at \notin ClosingPcs
  BY SMT DEF LockPcs, ClosingPcs, Pcs, OneChatPcs, GroupChatPcs
<1>2. \A next : Goto(l, next) => GotoWith(l, next, job[l])
  BY <1>0 DEF Goto, GotoWith, TypeOK, ThreadsTypeOK
<1>3. CASE OneChatStep(l)
  <2>1. PICK next, j : next \in OneChatPcs \cup {"idle"} /\ GotoWith(l, next, j)
    BY <1>2, <1>3 DEF OneChatStep, OneChatFind, OneChatQuery, OneChatPublish, OneChatStore,
         OneChatPcs, Finish
  <2>2. pc[l] \in OneChatPcs /\ UNCHANGED userConnMap /\ UNCHANGED mutex
    BY <1>3 DEF OneChatStep, OneChatFind, OneChatQuery, OneChatPublish, OneChatStore,
         OneChatPcs, sessionVars
  <2> QED BY <2>1, <2>2, <1>1, HandlerMoves
<1>4. CASE GroupChatQuery(l)
  <2>1. PICK j : GotoWith(l, "groupLock", j)
    BY <1>4 DEF GroupChatQuery
  <2>2. pc[l] = "groupChat" /\ UNCHANGED userConnMap /\ UNCHANGED mutex
    BY <1>4 DEF GroupChatQuery, sessionVars
  <2> QED BY <2>1, <2>2, <1>1, HandlerMoves
<1>5. CASE GroupChatLock(l)
  <2>1. GotoWith(l, "groupNext", job[l]) /\ pc[l] = "groupLock"
        /\ Lock(ServerOf[l], l) /\ UNCHANGED userConnMap
    BY <1>2, <1>5 DEF GroupChatLock
  <2> QED BY <2>1, <1>1, HandlerMoves
<1>6. CASE GroupChatPublish(l) \/ GroupChatStore(l)
           \/ \E u \in Users : GroupChatSend(l, u) \/ GroupChatAbsent(l, u)
  <2>1. PICK next, j : next \in Inside /\ GotoWith(l, next, j)
    <3>1. CASE GroupChatPublish(l) \/ GroupChatStore(l)
      BY <1>2, <3>1 DEF GroupChatPublish, GroupChatStore
    <3>2. ASSUME NEW u \in Users, GroupChatSend(l, u)
          PROVE  \E next, j : next \in Inside /\ GotoWith(l, next, j)
      BY <3>2 DEF GroupChatSend
    <3>3. ASSUME NEW u \in Users, GroupChatAbsent(l, u)
          PROVE  \E next, j : next \in Inside /\ GotoWith(l, next, j)
      <4>1. PICK row \in UserQuery(u) :
              GotoWith(l, IF row = "online" THEN "groupPublish" ELSE "groupStore",
                       [Without(job[l], u) EXCEPT !.user = u])
        BY <3>3 DEF GroupChatAbsent
      <4>2. (IF row = "online" THEN "groupPublish" ELSE "groupStore") \in Inside
        OBVIOUS
      <4> QED BY <4>1, <4>2
    <3> QED BY <1>6, <3>1, <3>2, <3>3
  <2>2. pc[l] \in Inside /\ UNCHANGED userConnMap /\ UNCHANGED mutex
    BY <1>6 DEF GroupChatPublish, GroupChatStore, GroupChatSend, GroupChatAbsent, sessionVars
  <2> QED BY <2>1, <2>2, <1>1, HandlerMoves
<1>7. CASE GroupChatEnd(l)
  <2>1. GotoWith(l, "idle", NoJob) /\ pc[l] = "groupNext"
        /\ Unlock(ServerOf[l]) /\ UNCHANGED userConnMap
    BY <1>7 DEF GroupChatEnd, Finish
  <2> QED BY <2>1, <1>1, HandlerMoves
<1> QED BY <1>3, <1>4, <1>5, <1>6, <1>7 DEF GroupChatStep

LEMMA DispatchMutex ==
  ASSUME MutexInv, NEW l \in Loops, Dispatch(l)
  PROVE  LockInv' /\ ResetOK' /\ IteratorsValid'
<1>1. /\ \A at \in {"login", "close", "oneChat", "groupChat"} :
            at \in Pcs /\ at \notin LockPcs /\ at \notin ClosingPcs
      /\ "idle" \notin LockPcs
  BY SMT DEF LockPcs, ClosingPcs, Pcs, LoginPcs, ClosePcs, OneChatPcs, GroupChatPcs
<1>2. ASSUME NEW c \in Conns, OnMessage(l, c) \/ OnClose(l, c)
      PROVE  LockInv' /\ ResetOK' /\ IteratorsValid'
  <2>1. PICK next, j : /\ next \in {"login", "close", "oneChat", "groupChat"}
                          /\ GotoWith(l, next, j)
    <3>1. CASE OnClose(l, c)
      BY <3>1 DEF OnClose
    <3>2. CASE OnMessage(l, c)
      <4>1. request[c] \in Requests /\ request[c].kind # "none"
        BY <3>2, SMT DEF OnMessage, MutexInv, TypeInv, TypeOK, TerminalsTypeOK, RequestsOK
      <4>2. HandlerOf[request[c].kind] \in {"login", "close", "oneChat", "groupChat"}
        BY <4>1, SMT DEF Requests, HandlerOf
      <4> QED BY <4>2, <3>2 DEF OnMessage
    <3> QED BY <1>2, <3>1, <3>2
  <2>2. pc[l] = "idle" /\ UNCHANGED userConnMap /\ UNCHANGED mutex
    BY <1>2 DEF OnMessage, OnClose, sessionVars
  <2> QED BY <2>1, <2>2, <1>1, HandlerMoves
<1>3. CASE RunPendingFunctors(l)
  BY <1>3 DEF RunPendingFunctors, threadVars, sessionVars, MutexInv, LockInv, ResetOK,
       InReset, IteratorsValid
<1> QED BY <1>2, <1>3 DEF Dispatch

LEMMA ObserveMutex ==
  ASSUME MutexInv, NEW s \in Servers, Observe(s)
  PROVE  LockInv' /\ ResetOK' /\ IteratorsValid'
<1>0. TypeOK /\ LockInv /\ ResetOK /\ IteratorsValid
  BY DEF MutexInv, TypeInv
<1>1. /\ UNCHANGED <<pc, job, mainPc, todo, it, userConnMap>>
  BY DEF Observe, ObserverForward, ObserverStore
<1>2. ResetOK' /\ IteratorsValid'
  BY <1>0, <1>1 DEF ResetOK, IteratorsValid, InReset
<1>3. /\ mutex \in [Servers -> Loops \cup OtherThreads \cup {None}]
      /\ observer \in [Servers -> Letters \cup {NoLetter}]
  BY <1>0 DEF TypeOK, SessionsTypeOK, ThreadsTypeOK
<1>4. CASE ObserverForward(s)
  <2>1. ASSUME UNCHANGED <<observer, mutex>> PROVE LockInv'
    BY <2>1, <1>0, <1>1 DEF LockInv, InReset
  <2>2. ASSUME observer' = [observer EXCEPT ![s] = Head(push[s])],
               Lock(s, "observer")
        PROVE  LockInv'
    <3>1. Head(push[s]) \in Letters
      BY <1>0, <1>4, SMT DEF ObserverForward, TypeOK, RedisTypeOK
    <3>2. Head(push[s]) # NoLetter
      BY <3>1, NoneAssumption DEF Letters, NoLetter
    <3> QED BY <2>2, <3>2, <1>0, <1>1, <1>3, DistinctThreads, NoneAssumption
         DEF LockInv, InReset, Lock, OtherThreads
  <2>3. \/ UNCHANGED <<observer, mutex>>
        \/ observer' = [observer EXCEPT ![s] = Head(push[s])] /\ Lock(s, "observer")
    <3>1. CASE userConnMap[s][Head(push[s]).channel] # None
      BY <3>1, <1>4, Zenon DEF ObserverForward
    <3>2. CASE userConnMap[s][Head(push[s]).channel] = None
      BY <3>2, <1>4, Zenon DEF ObserverForward
    <3> QED BY <3>1, <3>2
  <2> QED BY <2>1, <2>2, <2>3, <1>2
<1>5. CASE ObserverStore(s)
  BY <1>5, <1>0, <1>1, <1>2, <1>3, DistinctThreads, NoneAssumption
     DEF ObserverStore, Unlock, LockInv, InReset, OtherThreads
<1> QED BY <1>4, <1>5 DEF Observe

LEMMA ProcessEndsMutex ==
  ASSUME MutexInv, NEW s \in Servers, ProcessEnds(s)
  PROVE  LockInv' /\ ResetOK' /\ IteratorsValid'
<1>0. TypeOK /\ LockInv /\ ResetOK /\ IteratorsValid
  BY DEF MutexInv, TypeInv
<1>1. /\ pc' = [l \in Loops |-> IF ServerOf[l] = s THEN "idle" ELSE pc[l]]
      /\ job' = [l \in Loops |-> IF ServerOf[l] = s THEN NoJob ELSE job[l]]
      /\ observer' = [observer EXCEPT ![s] = NoLetter]
      /\ mainPc' = [mainPc EXCEPT ![s] = "loop"]
      /\ todo' = [todo EXCEPT ![s] = {}]
      /\ it' = [it EXCEPT ![s] = None]
      /\ userConnMap' = [userConnMap EXCEPT ![s] = [u \in Users |-> None]]
      /\ mutex' = [mutex EXCEPT ![s] = None]
  BY DEF ProcessEnds
<1>2. /\ mutex \in [Servers -> Loops \cup OtherThreads \cup {None}]
      /\ observer \in [Servers -> Letters \cup {NoLetter}]
      /\ mainPc \in [Servers -> {"loop", "reset", "resetOffline", "exit"}]
      /\ todo \in [Servers -> SUBSET Users] /\ it \in [Servers -> Users \cup {None}]
      /\ userConnMap \in [Servers -> [Users -> Conns \cup {None}]]
  BY <1>0 DEF TypeOK, SessionsTypeOK, ThreadsTypeOK
<1>3. "idle" \notin LockPcs /\ "idle" \notin ClosingPcs
  BY SMT DEF LockPcs, ClosingPcs
<1>4. LockInv'
  BY <1>0, <1>1, <1>2, <1>3, DistinctThreads, NoneAssumption
     DEF LockInv, InReset, OtherThreads
<1>5. ResetOK'
  BY <1>0, <1>1, <1>2 DEF ResetOK, InReset
<1>6. ASSUME NEW k \in Loops, pc'[k] \in ClosingPcs
      PROVE  userConnMap'[ServerOf[k]][job'[k].user] = job'[k].conn
  <2>1. ServerOf[k] # s /\ pc[k] \in ClosingPcs /\ job'[k] = job[k]
    BY <1>6, <1>1, <1>3
  <2> QED BY <2>1, <1>0, <1>1, <1>2, PlacementAssumption DEF IteratorsValid, ClosingPcs
<1>7. ASSUME NEW t \in Servers, NEW u \in (todo'[t] \cup {it'[t]}) \ {None}
      PROVE  userConnMap'[t][u] # None
  <2>1. t # s
    BY <1>7, <1>1, <1>2
  <2> QED BY <2>1, <1>7, <1>0, <1>1, <1>2 DEF IteratorsValid
<1>8. IteratorsValid'
  BY <1>6, <1>7 DEF IteratorsValid, ClosingPcs
<1> QED BY <1>4, <1>5, <1>8

LEMMA ProcessMutex ==
  ASSUME MutexInv, NEW s \in Servers, Sigint(s) \/ Reset(s) \/ Crash(s) \/ Start(s)
  PROVE  LockInv' /\ ResetOK' /\ IteratorsValid'
<1>0. TypeOK /\ LockInv /\ ResetOK /\ IteratorsValid
  BY DEF MutexInv, TypeInv
<1>1. /\ mutex \in [Servers -> Loops \cup OtherThreads \cup {None}]
      /\ mainPc \in [Servers -> {"loop", "reset", "resetOffline", "exit"}]
      /\ todo \in [Servers -> SUBSET Users] /\ it \in [Servers -> Users \cup {None}]
      /\ userConnMap \in [Servers -> [Users -> Conns \cup {None}]]
  BY <1>0 DEF TypeOK, SessionsTypeOK, ThreadsTypeOK
<1>2. CASE Sigint(s)
  <2>1. /\ UNCHANGED <<pc, job, observer, it, userConnMap>>
        /\ Lock(s, "main") /\ mainPc[s] = "loop"
        /\ mainPc' = [mainPc EXCEPT ![s] = "reset"]
        /\ todo' = [todo EXCEPT ![s] = {u \in Users : userConnMap[s][u] # None}]
    BY <1>2 DEF Sigint, UnchangedByReset
  <2>2. it[s] = None
    BY <2>1, <1>0 DEF ResetOK, InReset
  <2>3. LockInv'
    BY <2>1, <1>0, <1>1, DistinctThreads, NoneAssumption
       DEF Lock, LockInv, InReset, OtherThreads
  <2>4. ResetOK'
    BY <2>1, <2>2, <1>0, <1>1 DEF ResetOK, InReset
  <2>5. IteratorsValid'
    BY <2>1, <2>2, <1>0, <1>1 DEF IteratorsValid
  <2> QED BY <2>3, <2>4, <2>5
<1>3. CASE ResetUnsubscribe(s)
  <2>1. PICK u \in todo[s] : it' = [it EXCEPT ![s] = u] /\ todo' = [todo EXCEPT ![s] = @ \ {u}]
    BY <1>3 DEF ResetUnsubscribe
  <2>2. /\ UNCHANGED <<pc, job, observer, userConnMap, mutex>> /\ mainPc[s] = "reset"
        /\ mainPc' = [mainPc EXCEPT ![s] = "resetOffline"]
    BY <1>3 DEF ResetUnsubscribe, UnchangedByReset, sessionVars
  <2>3. u \in Users /\ None \notin Users
    BY <1>1, NoneAssumption
  <2>4. LockInv'
    BY <2>2, <1>0, <1>1 DEF LockInv, InReset
  <2>5. ResetOK'
    BY <2>1, <2>2, <2>3, <1>0, <1>1 DEF ResetOK, InReset
  <2>6. IteratorsValid'
    BY <2>1, <2>2, <2>3, <1>0, <1>1 DEF IteratorsValid
  <2> QED BY <2>4, <2>5, <2>6
<1>4. CASE ResetOffline(s)
  <2>1. /\ UNCHANGED <<pc, job, observer, userConnMap, mutex, todo>>
        /\ mainPc[s] = "resetOffline"
        /\ mainPc' = [mainPc EXCEPT ![s] = "reset"] /\ it' = [it EXCEPT ![s] = None]
    BY <1>4 DEF ResetOffline, UnchangedByReset, sessionVars
  <2>2. LockInv'
    BY <2>1, <1>0, <1>1 DEF LockInv, InReset
  <2>3. ResetOK'
    BY <2>1, <1>0, <1>1 DEF ResetOK, InReset
  <2>4. IteratorsValid'
    BY <2>1, <1>0, <1>1 DEF IteratorsValid
  <2> QED BY <2>2, <2>3, <2>4
<1>5. CASE ResetClear(s)
  <2>1. /\ UNCHANGED <<pc, job, observer, todo, it>>
        /\ mainPc[s] = "reset" /\ todo[s] = {}
        /\ mainPc' = [mainPc EXCEPT ![s] = "exit"]
        /\ mutex' = [mutex EXCEPT ![s] = None]
        /\ userConnMap' = [userConnMap EXCEPT ![s] = [u \in Users |-> None]]
    BY <1>5 DEF ResetClear, UnchangedByReset, Unlock
  <2>2. it[s] = None /\ mutex[s] = "main"
    BY <2>1, <1>0 DEF ResetOK, LockInv, InReset
  <2>3. \A k \in Loops : ServerOf[k] = s => pc[k] \notin LockPcs
    BY <2>2, <1>0, DistinctThreads DEF LockInv
  <2>4. LockInv'
    BY <2>1, <2>2, <1>0, <1>1, DistinctThreads, NoneAssumption
       DEF LockInv, InReset, OtherThreads
  <2>5. ResetOK'
    BY <2>1, <2>2, <1>0, <1>1 DEF ResetOK, InReset
  <2>6. ASSUME NEW k \in Loops, pc'[k] \in ClosingPcs
        PROVE  userConnMap'[ServerOf[k]][job'[k].user] = job'[k].conn
    <3>1. ServerOf[k] # s /\ pc[k] \in ClosingPcs
      BY <2>6, <2>1, <2>3 DEF ClosingPcs, LockPcs
    <3> QED BY <3>1, <2>1, <1>0, <1>1, PlacementAssumption DEF IteratorsValid, ClosingPcs
  <2>7. ASSUME NEW t \in Servers, NEW u \in (todo'[t] \cup {it'[t]}) \ {None}
        PROVE  userConnMap'[t][u] # None
    <3>1. t # s
      BY <2>7, <2>1, <2>2
    <3> QED BY <3>1, <2>7, <2>1, <1>0, <1>1 DEF IteratorsValid
  <2>8. IteratorsValid'
    BY <2>6, <2>7 DEF IteratorsValid, ClosingPcs
  <2> QED BY <2>4, <2>5, <2>8
<1>6. CASE ResetExit(s) \/ Crash(s)
  BY <1>6, ProcessEndsMutex DEF ResetExit, Crash
<1>7. CASE Start(s)
  BY <1>7, <1>0 DEF Start, threadVars, sessionVars, LockInv, ResetOK, InReset, IteratorsValid
<1> QED BY <1>2, <1>3, <1>4, <1>5, <1>6, <1>7 DEF Reset

-----------------------------------------------------------------------------
LEMMA MutexStep == MutexInv /\ [Next]_vars => MutexInv'
<1> SUFFICES ASSUME MutexInv, [Next]_vars PROVE MutexInv'
  OBVIOUS
<1>1. TypeInv'
  BY TypeStep DEF MutexInv
<1>2. LockInv /\ ResetOK /\ IteratorsValid
  BY DEF MutexInv
<1>3. ASSUME UNCHANGED threadVars, UNCHANGED sessionVars
      PROVE  MutexInv'
  BY <1>1, <1>2, <1>3
     DEF threadVars, sessionVars, LockInv, ResetOK, InReset, IteratorsValid, MutexInv
<1>4. ASSUME NEW c \in Conns, Accept(c) \/ Terminal(c) \/ \E u \in Users : Login(c, u)
      PROVE  MutexInv'
  BY <1>3, <1>4 DEF Accept, Terminal, Login, ServersIdle
<1>5. ASSUME NEW l \in Loops, Dispatch(l) \/ Handle(l)
      PROVE  MutexInv'
  <2>1. LockInv' /\ ResetOK' /\ IteratorsValid'
    BY <1>5, DispatchMutex, LoginMutex, CloseMutex, ChatMutex DEF Handle
  <2> QED BY <2>1, <1>1 DEF MutexInv
<1>6. ASSUME NEW s \in Servers,
             Observe(s) \/ Redis(s) \/ Sigint(s) \/ Reset(s) \/ Crash(s) \/ Start(s)
      PROVE  MutexInv'
  <2>1. CASE Redis(s)
    BY <1>3, <2>1 DEF Redis, ServersIdle
  <2>2. CASE ~Redis(s)
    <3>1. LockInv' /\ ResetOK' /\ IteratorsValid'
      BY <1>6, <2>2, ObserveMutex, ProcessMutex
    <3> QED BY <3>1, <1>1 DEF MutexInv
  <2> QED BY <2>1, <2>2
<1>7. CASE UNCHANGED vars
  BY <1>3, <1>7 DEF vars
<1> QED BY <1>4, <1>5, <1>6, <1>7 DEF Next

(***************************************************************************)
(* The mutex of a server is held by exactly the thread that is in one of   *)
(* its critical sections: an I/O thread in clientCloseException or         *)
(* groupChat, the observer in handleRedisSubscribeMessage, the main thread *)
(* in reset.                                                               *)
(***************************************************************************)
THEOREM MutexCorrect == Spec => []MutexInv
<1>1. Init => MutexInv
  BY TypeInit, MutexInit DEF MutexInv
<1>2. MutexInv /\ [Next]_vars => MutexInv'
  BY MutexStep
<1> QED BY <1>1, <1>2, PTL DEF Spec

(***************************************************************************)
(* The iterators of clientCloseException and reset stay valid until the    *)
(* entry is erased.                                                        *)
(***************************************************************************)
THEOREM IteratorsStayValid == Spec => []IteratorsValid
<1>1. MutexInv => IteratorsValid
  BY DEF MutexInv
<1> QED BY <1>1, MutexCorrect, PTL

-----------------------------------------------------------------------------

Inserting(l, u) == pc[l] = "loginInsert" /\ job[l].user = u

Alone == LiveIsOnline /\ NewLoginIsAlone /\ EnteringIsAlone /\ AtMostOneSession

(***************************************************************************)
(* Steps that end sessions or do not touch them, and begin no login.       *)
(***************************************************************************)
LEMMA AloneKept ==
  ASSUME Alone,
         \A s \in Servers, u \in Users : Live(s, u)' => Live(s, u),
         \A l \in Loops, u \in Users : Entering(l, u)' => Entering(l, u),
         \A l \in Loops, u \in Users :
           Live(ServerOf[l], u)' /\ Entering(l, u) => Entering(l, u)',
         \A l \in Loops, u \in Users : Inserting(l, u)' => Inserting(l, u),
         UNCHANGED userState
  PROVE  Alone'
<1>1. LiveIsOnline /\ NewLoginIsAlone /\ EnteringIsAlone /\ AtMostOneSession
  BY DEF Alone
<1>2. LiveIsOnline'
  BY <1>1 DEF LiveIsOnline
<1>3. NewLoginIsAlone'
  BY <1>1 DEF NewLoginIsAlone, Inserting
<1>4. EnteringIsAlone'
  BY <1>1 DEF EnteringIsAlone
<1>5. AtMostOneSession'
  BY <1>1 DEF AtMostOneSession
<1> QED BY <1>2, <1>3, <1>4, <1>5 DEF Alone

(***************************************************************************)
(* Fewer logins are in progress than before.                               *)
(***************************************************************************)
LEMMA FewerLogins ==
  ASSUME OneLogin,
         \A c \in Conns, u \in Users : LoginRequest(c, u)' => LoginRequest(c, u),
         \A l \in Loops, u \in Users : LoggingIn(l, u)' => LoggingIn(l, u)
  PROVE  OneLogin'
BY DEF OneLogin

(***************************************************************************)
(* A handler's step that is not one of those that change who is logged in. *)
(***************************************************************************)
BusyPcs == {"loginInsert", "loginSubscribe", "loginOnline", "closeErase"}

LEMMA HandlerQuiet ==
  ASSUME MutexInv, Alone, NEW l \in Loops, NEW next \in Pcs, NEW j,
         GotoWith(l, next, j), UNCHANGED userConnMap, UNCHANGED userState,
         pc[l] \notin BusyPcs, next \notin BusyPcs
  PROVE  Alone'
<1>1. pc' = [pc EXCEPT ![l] = next] /\ job' = [job EXCEPT ![l] = j]
      /\ UNCHANGED <<observer, mainPc, todo, it>>
  BY DEF GotoWith
<1>2. pc \in [Loops -> Pcs] /\ job \in [Loops -> Jobs]
  BY DEF MutexInv, TypeInv, TypeOK, ThreadsTypeOK
<1>3. \A s \in Servers, u \in Users : Live(s, u)' => Live(s, u)
  BY <1>1, <1>2 DEF Live, Ending, InReset, BusyPcs
<1>4. \A k \in Loops, u \in Users : Entering(k, u)' <=> Entering(k, u)
  BY <1>1, <1>2 DEF Entering, BusyPcs
<1>5. \A k \in Loops, u \in Users : Inserting(k, u)' => Inserting(k, u)
  BY <1>1, <1>2 DEF Inserting, BusyPcs
<1> QED BY <1>3, <1>4, <1>5, AloneKept
-----------------------------------------------------------------------------
(***************************************************************************)
(* login.                                                                  *)
(***************************************************************************)
LEMMA UpdateSucceeds ==
  ASSUME ~DBFaults, NEW u \in Users, NEW state, UserUpdateState(u, state)
  PROVE  userState' = [userState EXCEPT ![u] = state]
BY Zenon DEF UserUpdateState

LEMMA QuerySucceeds ==
  ASSUME ~DBFaults, NEW u \in Users
  PROVE  UserQuery(u) = {userState[u]}
<1>1. (IF DBFaults THEN {"none"} ELSE {}) = {}
  BY Zenon
<1> QED BY <1>1 DEF UserQuery

LEMMA LoginAcceptAlone ==
  ASSUME MutexInv, Alone, OneLogin, ~DBFaults, NEW l \in Loops, LoginAccept(l)
  PROVE  Alone'
<1>1. /\ pc \in [Loops -> Pcs] /\ job \in [Loops -> Jobs]
      /\ pc[l] = "login" /\ pc' = [pc EXCEPT ![l] = "loginInsert"]
      /\ UNCHANGED <<job, observer, mainPc, todo, it, userConnMap, userState>>
  BY DEF LoginAccept, Goto, tableVars, sessionVars, MutexInv, TypeInv, TypeOK, ThreadsTypeOK
<1>2. job[l].user \in Users
  BY <1>1 DEF MutexInv, TypeInv, JobsOK, JobOK, LoginPcs
<1>3. userState[job[l].user] = "offline"
  BY <1>2, QuerySucceeds DEF LoginAccept
<1>4. \A s \in Servers : ~Live(s, job[l].user)
  <2> SUFFICES ASSUME NEW s \in Servers, Live(s, job[l].user) PROVE FALSE
    OBVIOUS
  <2>1. PICK k \in Loops : Entering(k, job[l].user)
    BY <1>2, <1>3 DEF Alone, LiveIsOnline
  <2>2. LoggingIn(k, job[l].user) /\ LoggingIn(l, job[l].user)
    BY <2>1, <1>1 DEF Entering, LoggingIn, LoginPcs
  <2>3. k = l
    BY <2>2, <1>2 DEF OneLogin
  <2> QED BY <2>1, <2>3, <1>1 DEF Entering
<1>5. \A s \in Servers, u \in Users : Live(s, u)' <=> Live(s, u)
  BY <1>1 DEF Live, Ending, InReset
<1>6. \A k \in Loops, u \in Users : Entering(k, u)' <=> Entering(k, u)
  BY <1>1 DEF Entering
<1>7. LiveIsOnline' /\ EnteringIsAlone' /\ AtMostOneSession'
  BY <1>1, <1>5, <1>6 DEF Alone, LiveIsOnline, EnteringIsAlone, AtMostOneSession
<1>8. NewLoginIsAlone'
  <2> SUFFICES ASSUME NEW k \in Loops, NEW u \in Users, pc'[k] = "loginInsert", job'[k].user = u
               PROVE  userState'[u] = "offline" /\ \A s \in Servers : ~Live(s, u)'
    BY DEF NewLoginIsAlone
  <2>1. CASE k = l
    BY <2>1, <1>1, <1>3, <1>4, <1>5
  <2>2. CASE k # l
    BY <2>2, <1>1, <1>5 DEF Alone, NewLoginIsAlone
  <2> QED BY <2>1, <2>2
<1> QED BY <1>7, <1>8 DEF Alone

LEMMA LoginInsertAlone ==
  ASSUME MutexInv, Alone, OneLogin, NEW l \in Loops, LoginInsert(l)
  PROVE  Alone'
<1> DEFINE s == ServerOf[l]
           v == job[l].user
<1>1. /\ pc \in [Loops -> Pcs] /\ job \in [Loops -> Jobs]
      /\ userConnMap \in [Servers -> [Users -> Conns \cup {None}]]
      /\ pc[l] = "loginInsert" /\ pc' = [pc EXCEPT ![l] = "loginSubscribe"]
      /\ UNCHANGED <<job, observer, mainPc, todo, it, userState>> /\ mutex[s] = None
  BY DEF LoginInsert, Goto, tableVars, MutexInv, TypeInv, TypeOK, ThreadsTypeOK, SessionsTypeOK
<1>2. v \in Users /\ s \in Servers
  BY <1>1, PlacementAssumption DEF MutexInv, TypeInv, JobsOK, JobOK, LoginPcs
<1>3. \A t \in Servers, u \in Users : t # s \/ u # v => userConnMap'[t][u] = userConnMap[t][u]
  BY <1>1, <1>2 DEF LoginInsert
<1>4. \A t \in Servers, u \in Users : t # s \/ u # v => (Live(t, u)' <=> Live(t, u))
  BY <1>1, <1>3 DEF Live, Ending, InReset
<1>5. userState[v] = "offline" /\ \A t \in Servers : ~Live(t, v)
  BY <1>1, <1>2 DEF Alone, NewLoginIsAlone
<1>6. \A k \in Loops, u \in Users : k # l => (Entering(k, u)' <=> Entering(k, u))
  BY <1>1 DEF Entering
<1>7. \A u \in Users : Entering(l, u)' <=> u = v
  BY <1>1, <1>2 DEF Entering
<1>8. \A k \in Loops : k # l => ~LoggingIn(k, v)
  BY <1>1, <1>2 DEF OneLogin, LoggingIn, LoginPcs
<1>9. LiveIsOnline'
  <2> SUFFICES ASSUME NEW t \in Servers, NEW u \in Users, Live(t, u)'
               PROVE  \/ userState'[u] = "online"
                      \/ \E k \in Loops : ServerOf[k] = t /\ Entering(k, u)'
    BY DEF LiveIsOnline
  <2>1. CASE t = s /\ u = v
    BY <2>1, <1>7
  <2>2. CASE t # s \/ u # v
    <3>1. \/ userState[u] = "online"
          \/ \E k \in Loops : ServerOf[k] = t /\ Entering(k, u)
      BY <2>2, <1>4 DEF Alone, LiveIsOnline
    <3>2. ~Entering(l, u)
      BY <1>1 DEF Entering
    <3> QED BY <3>1, <3>2, <1>1, <1>6
  <2> QED BY <2>1, <2>2
<1>10. NewLoginIsAlone'
  <2> SUFFICES ASSUME NEW k \in Loops, NEW u \in Users, pc'[k] = "loginInsert", job'[k].user = u
               PROVE  userState'[u] = "offline" /\ \A t \in Servers : ~Live(t, u)'
    BY DEF NewLoginIsAlone
  <2>1. k # l /\ pc[k] = "loginInsert" /\ job[k].user = u
    BY <1>1
  <2>2. u # v
    BY <2>1, <1>8 DEF LoggingIn, LoginPcs
  <2> QED BY <2>1, <2>2, <1>1, <1>4 DEF Alone, NewLoginIsAlone
<1>11. EnteringIsAlone'
  <2> SUFFICES ASSUME NEW k \in Loops, NEW u \in Users, Entering(k, u)'
               PROVE  userState'[u] = "offline" /\ \A t \in Servers : Live(t, u)' => t = ServerOf[k]
    BY DEF EnteringIsAlone
  <2>1. CASE k = l
    BY <2>1, <1>1, <1>4, <1>5, <1>7
  <2>2. CASE k # l
    <3>1. Entering(k, u)
      BY <2>2, <1>6
    <3>2. u # v
      BY <2>2, <3>1, <1>8 DEF Entering, LoggingIn, LoginPcs
    <3> QED BY <3>1, <3>2, <1>1, <1>4 DEF Alone, EnteringIsAlone
  <2> QED BY <2>1, <2>2
<1>12. AtMostOneSession'
  <2> SUFFICES ASSUME NEW u \in Users, NEW t1 \in Servers, NEW t2 \in Servers,
                      Live(t1, u)', Live(t2, u)'
               PROVE  t1 = t2
    BY DEF AtMostOneSession
  <2>1. CASE u = v
    BY <2>1, <1>4, <1>5
  <2>2. CASE u # v
    BY <2>2, <1>4 DEF Alone, AtMostOneSession
  <2> QED BY <2>1, <2>2
<1> QED BY <1>9, <1>10, <1>11, <1>12 DEF Alone

LEMMA LoginOnlineAlone ==
  ASSUME MutexInv, Alone, OneLogin, ~DBFaults, NEW l \in Loops, LoginOnline(l)
  PROVE  Alone'
<1> DEFINE v == job[l].user
<1>1. /\ pc \in [Loops -> Pcs] /\ job \in [Loops -> Jobs]
      /\ userState \in [Users -> {"online", "offline"}]
      /\ pc[l] = "loginOnline" /\ pc' = [pc EXCEPT ![l] = "loginReadOffline"]
      /\ UNCHANGED <<job, observer, mainPc, todo, it, userConnMap>>
  BY DEF LoginOnline, Goto, sessionVars, MutexInv, TypeInv, TypeOK, ThreadsTypeOK, TablesTypeOK
<1>2. v \in Users
  BY <1>1 DEF MutexInv, TypeInv, JobsOK, JobOK, LoginPcs
<1>3. userState' = [userState EXCEPT ![v] = "online"]
  BY <1>2, UpdateSucceeds DEF LoginOnline
<1>4. \A s \in Servers, u \in Users : Live(s, u)' <=> Live(s, u)
  BY <1>1 DEF Live, Ending, InReset
<1>5. \A k \in Loops, u \in Users : k # l => (Entering(k, u)' <=> Entering(k, u))
  BY <1>1 DEF Entering
<1>6. \A u \in Users : ~Entering(l, u)' /\ (Entering(l, u) <=> u = v)
  BY <1>1, <1>2 DEF Entering
<1>7. \A k \in Loops : k # l => ~LoggingIn(k, v)
  BY <1>1, <1>2 DEF OneLogin, LoggingIn, LoginPcs
<1>8. LiveIsOnline'
  BY <1>1, <1>2, <1>3, <1>4, <1>5, <1>6 DEF Alone, LiveIsOnline
<1>9. NewLoginIsAlone'
  <2> SUFFICES ASSUME NEW k \in Loops, NEW u \in Users, pc'[k] = "loginInsert", job'[k].user = u
               PROVE  userState'[u] = "offline" /\ \A s \in Servers : ~Live(s, u)'
    BY DEF NewLoginIsAlone
  <2>1. k # l /\ pc[k] = "loginInsert" /\ job[k].user = u
    BY <1>1
  <2>2. u # v
    BY <2>1, <1>7 DEF LoggingIn, LoginPcs
  <2> QED BY <2>1, <2>2, <1>1, <1>3, <1>4 DEF Alone, NewLoginIsAlone
<1>10. EnteringIsAlone'
  <2> SUFFICES ASSUME NEW k \in Loops, NEW u \in Users, Entering(k, u)'
               PROVE  userState'[u] = "offline" /\ \A s \in Servers : Live(s, u)' => s = ServerOf[k]
    BY DEF EnteringIsAlone
  <2>1. k # l /\ Entering(k, u)
    BY <1>5, <1>6
  <2>2. u # v
    BY <2>1, <1>7 DEF Entering, LoggingIn, LoginPcs
  <2> QED BY <2>1, <2>2, <1>1, <1>3, <1>4 DEF Alone, EnteringIsAlone
<1>11. AtMostOneSession'
  BY <1>4 DEF Alone, AtMostOneSession
<1> QED BY <1>8, <1>9, <1>10, <1>11 DEF Alone

LEMMA GotoIsGotoWith ==
  ASSUME MutexInv, NEW l \in Loops, NEW next, Goto(l, next)
  PROVE  GotoWith(l, next, job[l])
BY DEF Goto, GotoWith, MutexInv, TypeInv, TypeOK, ThreadsTypeOK

LEMMA LoginAlone ==
  ASSUME MutexInv, Alone, OneLogin, ~DBFaults, NEW l \in Loops, LoginStep(l)
  PROVE  Alone'
<1>1. CASE LoginAccept(l)
  BY <1>1, LoginAcceptAlone
<1>2. CASE LoginInsert(l)
  BY <1>2, LoginInsertAlone
<1>3. CASE LoginOnline(l)
  BY <1>3, LoginOnlineAlone
<1>4. CASE LoginSubscribe(l)
  <2>1. /\ pc \in [Loops -> Pcs] /\ job \in [Loops -> Jobs]
        /\ pc[l] = "loginSubscribe" /\ pc' = [pc EXCEPT ![l] = "loginOnline"]
        /\ UNCHANGED <<job, mainPc, todo, it, userConnMap, userState>>
    BY <1>4 DEF LoginSubscribe, Goto, sessionVars, tableVars, MutexInv, TypeInv, TypeOK,
                ThreadsTypeOK
  <2>2. \A s \in Servers, u \in Users : Live(s, u)' <=> Live(s, u)
    BY <2>1 DEF Live, Ending, InReset
  <2>3. \A k \in Loops, u \in Users : Entering(k, u)' <=> Entering(k, u)
    BY <2>1 DEF Entering
  <2>4. \A k \in Loops, u \in Users : Inserting(k, u)' => Inserting(k, u)
    BY <2>1 DEF Inserting
  <2> QED BY <2>1, <2>2, <2>3, <2>4, AloneKept
<1>5. CASE \/ LoginRefuse(l) \/ LoginReadOffline(l) \/ LoginRemoveOffline(l) \/ LoginAck(l)
  <2>1. PICK next, j : /\ next \in {"idle", "loginRemoveOffline", "loginAck"}
                       /\ GotoWith(l, next, j)
    <3>1. CASE LoginReadOffline(l)
      <4>1. PICK rows \in OfflineQuery(job[l].user) :
              GotoWith(l, IF rows # <<>> THEN "loginRemoveOffline" ELSE "loginAck",
                       [job[l] EXCEPT !.msgs = rows])
        BY <3>1 DEF LoginReadOffline
      <4>2. (IF rows # <<>> THEN "loginRemoveOffline" ELSE "loginAck")
              \in {"loginRemoveOffline", "loginAck"}
        OBVIOUS
      <4> QED BY <4>1, <4>2
    <3>2. CASE LoginRemoveOffline(l)
      BY <3>2, GotoIsGotoWith DEF LoginRemoveOffline
    <3>3. CASE LoginRefuse(l) \/ LoginAck(l)
      BY <3>3 DEF LoginRefuse, LoginAck, Finish
    <3> QED BY <1>5, <3>1, <3>2, <3>3
  <2>2. pc[l] \notin BusyPcs /\ UNCHANGED userConnMap /\ UNCHANGED userState
    BY <1>5 DEF LoginRefuse, LoginReadOffline, LoginRemoveOffline, LoginAck, BusyPcs,
                sessionVars, tableVars, OfflineRemove
  <2>3. next \in Pcs /\ next \notin BusyPcs
    BY <2>1, SMT DEF Pcs, LoginPcs, BusyPcs
  <2> QED BY <2>1, <2>2, <2>3, HandlerQuiet
<1> QED BY <1>1, <1>2, <1>3, <1>4, <1>5 DEF LoginStep

-----------------------------------------------------------------------------
(***************************************************************************)
(* Marking an account offline: the session it had was its only one, and    *)
(* from here on counts as ended.                                           *)
(***************************************************************************)
LEMMA OfflineMarked ==
  ASSUME MutexInv, Alone, NEW s \in Servers, NEW v \in Users,
         Live(s, v), ~Live(s, v)',
         userState' = [userState EXCEPT ![v] = "offline"],
         \A t \in Servers, u \in Users : Live(t, u)' => Live(t, u),
         \A l \in Loops, u \in Users : Entering(l, u)' <=> Entering(l, u),
         \A l \in Loops, u \in Users : Inserting(l, u)' => Inserting(l, u)
  PROVE  Alone'
<1>1. userState \in [Users -> {"online", "offline"}]
  BY DEF MutexInv, TypeInv, TypeOK, TablesTypeOK
<1>2. \A t \in Servers : ~Live(t, v)'
  BY DEF Alone, AtMostOneSession
<1>3. LiveIsOnline'
  <2> SUFFICES ASSUME NEW t \in Servers, NEW u \in Users, Live(t, u)'
               PROVE  \/ userState'[u] = "online"
                      \/ \E k \in Loops : ServerOf[k] = t /\ Entering(k, u)'
    BY DEF LiveIsOnline
  <2>1. u # v /\ Live(t, u)
    BY <1>2
  <2> QED BY <2>1, <1>1 DEF Alone, LiveIsOnline
<1>4. NewLoginIsAlone'
  BY <1>1 DEF Alone, NewLoginIsAlone, Inserting
<1>5. EnteringIsAlone'
  BY <1>1 DEF Alone, EnteringIsAlone
<1>6. AtMostOneSession'
  BY DEF Alone, AtMostOneSession
<1> QED BY <1>3, <1>4, <1>5, <1>6 DEF Alone

LEMMA CloseOfflineAlone ==
  ASSUME MutexInv, Alone, ~DBFaults, NEW l \in Loops, CloseOffline(l)
  PROVE  Alone'
<1>1. /\ pc \in [Loops -> Pcs] /\ job \in [Loops -> Jobs]
      /\ pc[l] = "closeOffline" /\ pc' = [pc EXCEPT ![l] = "closeErase"]
      /\ UNCHANGED <<job, observer, mainPc, todo, it, userConnMap>>
  BY DEF CloseOffline, Goto, sessionVars, MutexInv, TypeInv, TypeOK, ThreadsTypeOK
<1>2. PICK v \in Users, s \in Servers : v = job[l].user /\ s = ServerOf[l]
  BY <1>1, PlacementAssumption DEF MutexInv, TypeInv, JobsOK, JobOK
<1>3. userState' = [userState EXCEPT ![v] = "offline"]
  BY <1>2, UpdateSucceeds DEF CloseOffline
<1>4. pc[l] \in LockPcs /\ "closeErase" \in LockPcs
  BY <1>1 DEF LockPcs
<1>5. /\ \A k \in Loops : ServerOf[k] = s /\ pc[k] \in LockPcs => k = l
      /\ ~InReset(s)
  BY <1>2, <1>4, HeldLock
<1>6. Live(s, v)
  <2>1. userConnMap[s][v] = job[l].conn /\ job[l].conn # None
    BY <1>1, <1>2, NoneAssumption DEF MutexInv, IteratorsValid, TypeInv, JobsOK, JobOK
  <2> QED BY <2>1, <1>1, <1>2, <1>4, <1>5 DEF Live, Ending
<1>7. ~Live(s, v)'
  BY <1>1, <1>2 DEF Live, Ending
<1>8. \A t \in Servers, u \in Users : Live(t, u)' => Live(t, u)
  BY <1>1 DEF Live, Ending, InReset
<1>9. \A k \in Loops, u \in Users : Entering(k, u)' <=> Entering(k, u)
  BY <1>1 DEF Entering
<1>10. \A k \in Loops, u \in Users : Inserting(k, u)' => Inserting(k, u)
  BY <1>1 DEF Inserting
<1> QED BY <1>2, <1>3, <1>6, <1>7, <1>8, <1>9, <1>10, OfflineMarked

LEMMA CloseEraseAlone ==
  ASSUME MutexInv, Alone, NEW l \in Loops, CloseErase(l)
  PROVE  Alone'
<1> DEFINE s == ServerOf[l]
           v == job[l].user
<1>1. /\ pc \in [Loops -> Pcs] /\ job \in [Loops -> Jobs]
      /\ userConnMap \in [Servers -> [Users -> Conns \cup {None}]]
      /\ pc[l] = "closeErase" /\ pc' = [pc EXCEPT ![l] = "idle"]
      /\ job' = [job EXCEPT ![l] = NoJob]
      /\ userConnMap' = [userConnMap EXCEPT ![s][v] = None]
      /\ UNCHANGED <<observer, mainPc, todo, it, userState>>
  BY DEF CloseErase, Finish, GotoWith, tableVars, MutexInv, TypeInv, TypeOK, ThreadsTypeOK,
         SessionsTypeOK
<1>2. s \in Servers
  BY PlacementAssumption
<1>3. ASSUME NEW t \in Servers, NEW u \in Users, Live(t, u)'
      PROVE  Live(t, u)
  <2>1. t # s \/ u # v
    BY <1>1, <1>2, <1>3 DEF Live
  <2>2. userConnMap'[t][u] = userConnMap[t][u]
    BY <2>1, <1>1
  <2>3. Ending(t, u) => Ending(t, u)'
    BY <2>1, <1>1 DEF Ending, InReset
  <2> QED BY <2>2, <2>3, <1>3 DEF Live
<1>4. \A k \in Loops, u \in Users : Entering(k, u)' <=> Entering(k, u)
  BY <1>1 DEF Entering
<1>5. \A k \in Loops, u \in Users : Inserting(k, u)' => Inserting(k, u)
  BY <1>1 DEF Inserting
<1> QED BY <1>1, <1>3, <1>4, <1>5, AloneKept

LEMMA CloseAlone ==
  ASSUME MutexInv, Alone, ~DBFaults, NEW l \in Loops, CloseStep(l)
  PROVE  Alone'
<1>1. CASE CloseOffline(l)
  BY <1>1, CloseOfflineAlone
<1>2. CASE CloseErase(l)
  BY <1>2, CloseEraseAlone
<1>3. CASE CloseFind(l) \/ CloseNothing(l) \/ CloseUnsubscribe(l)
  <2>1. PICK next, j : /\ next \in {"idle", "closeUnsubscribe", "closeOffline"}
                       /\ GotoWith(l, next, j)
    <3>1. CASE CloseFind(l)
      BY <3>1 DEF CloseFind
    <3>2. CASE CloseNothing(l)
      BY <3>2 DEF CloseNothing, Finish
    <3>3. CASE CloseUnsubscribe(l)
      BY <3>3, GotoIsGotoWith DEF CloseUnsubscribe
    <3> QED BY <1>3, <3>1, <3>2, <3>3
  <2>2. pc[l] \notin BusyPcs /\ UNCHANGED userConnMap /\ UNCHANGED userState
    BY <1>3 DEF CloseFind, CloseNothing, CloseUnsubscribe, BusyPcs, sessionVars, tableVars
  <2>3. next \in Pcs /\ next \notin BusyPcs
    BY <2>1, SMT DEF Pcs, ClosePcs, BusyPcs
  <2> QED BY <2>1, <2>2, <2>3, HandlerQuiet
<1> QED BY <1>1, <1>2, <1>3 DEF CloseStep

-----------------------------------------------------------------------------
(***************************************************************************)
(* The handlers of messages, the event loop and the observer thread do not *)
(* touch a session.                                                        *)
(***************************************************************************)
LEMMA ChatGoesOn ==
  ASSUME MutexInv, NEW l \in Loops, OneChatStep(l) \/ GroupChatStep(l)
  PROVE  \E next, j : /\ next \in OneChatPcs \cup GroupChatPcs \cup {"idle"}
                     /\ GotoWith(l, next, j)
<1>1. CASE OneChatStep(l)
  BY <1>1, GotoIsGotoWith DEF OneChatStep, OneChatFind, OneChatQuery, OneChatPublish,
     OneChatStore, OneChatPcs, Finish
<1>2. CASE GroupChatQuery(l)
  BY <1>2 DEF GroupChatQuery, GroupChatPcs
<1>3. CASE GroupChatLock(l) \/ GroupChatPublish(l) \/ GroupChatStore(l) \/ GroupChatEnd(l)
  BY <1>3, GotoIsGotoWith DEF GroupChatLock, GroupChatPublish, GroupChatStore, GroupChatEnd,
     GroupChatPcs, Finish
<1>4. ASSUME NEW u \in Users, GroupChatSend(l, u)
      PROVE  \E next, j : next \in GroupChatPcs /\ GotoWith(l, next, j)
  BY <1>4 DEF GroupChatSend, GroupChatPcs
<1>5. ASSUME NEW u \in Users, GroupChatAbsent(l, u)
      PROVE  \E next, j : next \in GroupChatPcs /\ GotoWith(l, next, j)
  <2>1. PICK row \in UserQuery(u) :
          GotoWith(l, IF row = "online" THEN "groupPublish" ELSE "groupStore",
                   [Without(job[l], u) EXCEPT !.user = u])
    BY <1>5 DEF GroupChatAbsent
  <2>2. (IF row = "online" THEN "groupPublish" ELSE "groupStore") \in GroupChatPcs
    BY DEF GroupChatPcs
  <2> QED BY <2>1, <2>2
<1> QED BY <1>1, <1>2, <1>3, <1>4, <1>5 DEF GroupChatStep

LEMMA ChatAlone ==
  ASSUME MutexInv, Alone, NEW l \in Loops, OneChatStep(l) \/ GroupChatStep(l)
  PROVE  Alone'
<1>1. \A at \in OneChatPcs \cup GroupChatPcs \cup {"idle"} : at \in Pcs /\ at \notin BusyPcs
  BY SMT DEF Pcs, OneChatPcs, GroupChatPcs, BusyPcs
<1>2. PICK next, j : next \in OneChatPcs \cup GroupChatPcs \cup {"idle"} /\ GotoWith(l, next, j)
  BY ChatGoesOn
<1>3. pc[l] \in OneChatPcs \cup GroupChatPcs /\ UNCHANGED userConnMap /\ UNCHANGED userState
  <2>1. CASE OneChatStep(l)
    BY <2>1 DEF OneChatStep, OneChatFind, OneChatQuery, OneChatPublish, OneChatStore,
       OneChatPcs, OfflineInsert, sessionVars, tableVars
  <2>2. CASE GroupChatStep(l)
    BY <2>2 DEF GroupChatStep, GroupChatQuery, GroupChatLock, GroupChatSend, GroupChatAbsent,
       GroupChatPublish, GroupChatStore, GroupChatEnd, GroupChatPcs, OfflineInsert,
       sessionVars, tableVars
  <2> QED BY <2>1, <2>2
<1> QED BY <1>1, <1>2, <1>3, HandlerQuiet

LEMMA DispatchAlone ==
  ASSUME MutexInv, Alone, NEW l \in Loops, Dispatch(l)
  PROVE  Alone'
<1>1. ASSUME NEW c \in Conns, OnMessage(l, c) \/ OnClose(l, c)
      PROVE  Alone'
  <2>1. PICK next, j : /\ next \in {"login", "close", "oneChat", "groupChat"}
                       /\ GotoWith(l, next, j)
    <3>1. CASE OnClose(l, c)
      BY <3>1 DEF OnClose
    <3>2. CASE OnMessage(l, c)
      <4>1. request[c] \in Requests /\ request[c].kind # "none"
        BY <3>2, SMT DEF OnMessage, MutexInv, TypeInv, TypeOK, TerminalsTypeOK, RequestsOK
      <4>2. HandlerOf[request[c].kind] \in {"login", "close", "oneChat", "groupChat"}
        BY <4>1, SMT DEF Requests, HandlerOf
      <4> QED BY <4>2, <3>2 DEF OnMessage
    <3> QED BY <1>1, <3>1, <3>2
  <2>2. pc[l] \notin BusyPcs /\ UNCHANGED userConnMap /\ UNCHANGED userState
    BY <1>1 DEF OnMessage, OnClose, BusyPcs, sessionVars, tableVars
  <2>3. next \in Pcs /\ next \notin BusyPcs
    BY <2>1, SMT DEF Pcs, LoginPcs, ClosePcs, OneChatPcs, GroupChatPcs, BusyPcs
  <2> QED BY <2>1, <2>2, <2>3, HandlerQuiet
<1>2. CASE RunPendingFunctors(l)
  BY <1>2 DEF RunPendingFunctors, threadVars, sessionVars, tableVars, Alone, LiveIsOnline,
     NewLoginIsAlone, EnteringIsAlone, AtMostOneSession, Entering, Live, Ending, InReset
<1> QED BY <1>1, <1>2 DEF Dispatch

LEMMA SessionsUntouched ==
  ASSUME Alone, UNCHANGED <<pc, job, mainPc, todo, it, userConnMap, userState>>
  PROVE  Alone'
BY DEF Alone, LiveIsOnline, NewLoginIsAlone, EnteringIsAlone, AtMostOneSession, Entering,
   Live, Ending, InReset

LEMMA ObserveAlone ==
  ASSUME Alone, NEW s \in Servers, Observe(s)
  PROVE  Alone'
<1>1. UNCHANGED <<pc, job, mainPc, todo, it, userConnMap, userState>>
  BY DEF Observe, ObserverForward, ObserverStore, OfflineInsert, tableVars
<1> QED BY <1>1, SessionsUntouched
-----------------------------------------------------------------------------
(***************************************************************************)
(* The process: reset marks offline exactly the sessions of its own map;   *)
(* the end of the process takes its sessions and its handlers away.        *)
(***************************************************************************)
LEMMA SigintAlone ==
  ASSUME MutexInv, Alone, NEW s \in Servers, Sigint(s)
  PROVE  Alone'
<1>1. /\ UNCHANGED <<pc, job, it, userConnMap, userState>>
      /\ mainPc[s] = "loop" /\ mainPc' = [mainPc EXCEPT ![s] = "reset"]
      /\ todo' = [todo EXCEPT ![s] = {u \in Users : userConnMap[s][u] # None}]
  BY DEF Sigint, UnchangedByReset, tableVars
<1>2. /\ mainPc \in [Servers -> {"loop", "reset", "resetOffline", "exit"}]
      /\ todo \in [Servers -> SUBSET Users]
  BY DEF MutexInv, TypeInv, TypeOK, ThreadsTypeOK
<1>3. \A t \in Servers, u \in Users : Live(t, u)' => Live(t, u)
  BY <1>1, <1>2 DEF Live, Ending, InReset
<1>4. \A k \in Loops, u \in Users : Entering(k, u)' <=> Entering(k, u)
  BY <1>1 DEF Entering
<1>5. \A k \in Loops, u \in Users : Inserting(k, u)' => Inserting(k, u)
  BY <1>1 DEF Inserting
<1> QED BY <1>1, <1>3, <1>4, <1>5, AloneKept

LEMMA ResetUnsubscribeAlone ==
  ASSUME MutexInv, Alone, NEW s \in Servers, ResetUnsubscribe(s)
  PROVE  Alone'
<1>1. PICK v \in todo[s] : it' = [it EXCEPT ![s] = v] /\ todo' = [todo EXCEPT ![s] = @ \ {v}]
  BY DEF ResetUnsubscribe
<1>2. /\ UNCHANGED <<pc, job, userConnMap, userState>> /\ mainPc[s] = "reset"
      /\ mainPc' = [mainPc EXCEPT ![s] = "resetOffline"]
  BY DEF ResetUnsubscribe, UnchangedByReset, sessionVars, tableVars
<1>3. /\ mainPc \in [Servers -> {"loop", "reset", "resetOffline", "exit"}]
      /\ todo \in [Servers -> SUBSET Users] /\ it \in [Servers -> Users \cup {None}]
  BY DEF MutexInv, TypeInv, TypeOK, ThreadsTypeOK
<1>4. \A t \in Servers, u \in Users : Live(t, u)' => Live(t, u)
  BY <1>1, <1>2, <1>3 DEF Live, Ending, InReset
<1>5. \A k \in Loops, u \in Users : Entering(k, u)' <=> Entering(k, u)
  BY <1>2 DEF Entering
<1>6. \A k \in Loops, u \in Users : Inserting(k, u)' => Inserting(k, u)
  BY <1>2 DEF Inserting
<1> QED BY <1>2, <1>4, <1>5, <1>6, AloneKept

LEMMA ResetOfflineAlone ==
  ASSUME MutexInv, Alone, ~DBFaults, NEW s \in Servers, ResetOffline(s)
  PROVE  Alone'
<1>1. /\ UNCHANGED <<pc, job, todo, userConnMap>> /\ mainPc[s] = "resetOffline"
      /\ mainPc' = [mainPc EXCEPT ![s] = "reset"] /\ it' = [it EXCEPT ![s] = None]
  BY DEF ResetOffline, UnchangedByReset, sessionVars
<1>2. /\ mainPc \in [Servers -> {"loop", "reset", "resetOffline", "exit"}]
      /\ it \in [Servers -> Users \cup {None}]
  BY DEF MutexInv, TypeInv, TypeOK, ThreadsTypeOK
<1>3. PICK v \in Users : v = it[s] /\ v \notin todo[s]
  BY <1>1 DEF MutexInv, ResetOK
<1>4. userState' = [userState EXCEPT ![v] = "offline"]
  BY <1>3, UpdateSucceeds DEF ResetOffline
<1>5. \A k \in Loops : ServerOf[k] = s => pc[k] # "closeErase"
  BY <1>1, DistinctThreads DEF MutexInv, LockInv, InReset, LockPcs
<1>6. userConnMap[s][v] # None
  BY <1>3, NoneAssumption DEF MutexInv, IteratorsValid
<1>7. Live(s, v)
  BY <1>3, <1>5, <1>6 DEF Live, Ending
<1>8. ~Live(s, v)'
  BY <1>1, <1>2, <1>3, NoneAssumption DEF Live, Ending, InReset
<1>9. ASSUME NEW t \in Servers, NEW u \in Users, Live(t, u)'
      PROVE  Live(t, u)
  <2>1. userConnMap[t][u] # None
    BY <1>1, <1>9 DEF Live
  <2>2. CASE t # s
    BY <2>1, <2>2, <1>1, <1>2, <1>9 DEF Live, Ending, InReset
  <2>3. CASE t = s
    <3>1. u \in todo[s]
      BY <2>3, <1>1, <1>2, <1>9, NoneAssumption DEF Live, Ending, InReset
    <3> QED BY <3>1, <2>1, <2>3, <1>5 DEF Live, Ending
  <2> QED BY <2>2, <2>3
<1>10. \A k \in Loops, u \in Users : Entering(k, u)' <=> Entering(k, u)
  BY <1>1 DEF Entering
<1>11. \A k \in Loops, u \in Users : Inserting(k, u)' => Inserting(k, u)
  BY <1>1 DEF Inserting
<1> QED BY <1>4, <1>7, <1>8, <1>9, <1>10, <1>11, OfflineMarked

LEMMA ResetClearAlone ==
  ASSUME MutexInv, Alone, NEW s \in Servers, ResetClear(s)
  PROVE  Alone'
<1>1. /\ UNCHANGED <<pc, job, todo, it, userState>>
      /\ mainPc' = [mainPc EXCEPT ![s] = "exit"]
      /\ userConnMap' = [userConnMap EXCEPT ![s] = [u \in Users |-> None]]
  BY DEF ResetClear, UnchangedByReset, tableVars
<1>2. /\ mainPc \in [Servers -> {"loop", "reset", "resetOffline", "exit"}]
      /\ userConnMap \in [Servers -> [Users -> Conns \cup {None}]]
  BY DEF MutexInv, TypeInv, TypeOK, ThreadsTypeOK, SessionsTypeOK
<1>3. \A t \in Servers, u \in Users : Live(t, u)' => Live(t, u)
  BY <1>1, <1>2 DEF Live, Ending, InReset
<1>4. \A k \in Loops, u \in Users : Entering(k, u)' <=> Entering(k, u)
  BY <1>1 DEF Entering
<1>5. \A k \in Loops, u \in Users : Inserting(k, u)' => Inserting(k, u)
  BY <1>1 DEF Inserting
<1> QED BY <1>1, <1>3, <1>4, <1>5, AloneKept

LEMMA ProcessEndsAlone ==
  ASSUME MutexInv, Alone, NEW s \in Servers, ProcessEnds(s)
  PROVE  Alone'
<1>1. /\ pc' = [l \in Loops |-> IF ServerOf[l] = s THEN "idle" ELSE pc[l]]
      /\ job' = [l \in Loops |-> IF ServerOf[l] = s THEN NoJob ELSE job[l]]
      /\ mainPc' = [mainPc EXCEPT ![s] = "loop"]
      /\ todo' = [todo EXCEPT ![s] = {}]
      /\ it' = [it EXCEPT ![s] = None]
      /\ userConnMap' = [userConnMap EXCEPT ![s] = [u \in Users |-> None]]
      /\ UNCHANGED userState
  BY DEF ProcessEnds, tableVars
<1>2. /\ mainPc \in [Servers -> {"loop", "reset", "resetOffline", "exit"}]
      /\ todo \in [Servers -> SUBSET Users] /\ it \in [Servers -> Users \cup {None}]
      /\ userConnMap \in [Servers -> [Users -> Conns \cup {None}]]
  BY DEF MutexInv, TypeInv, TypeOK, ThreadsTypeOK, SessionsTypeOK
<1>3. \A u \in Users : ~Live(s, u)'
  BY <1>1, <1>2 DEF Live
<1>4. ASSUME NEW t \in Servers, NEW u \in Users, Live(t, u)'
      PROVE  Live(t, u)
  <2>1. t # s
    BY <1>3, <1>4
  <2> QED BY <2>1, <1>1, <1>2, <1>4 DEF Live, Ending, InReset
<1>5. \A k \in Loops, u \in Users : Entering(k, u)' <=> ServerOf[k] # s /\ Entering(k, u)
  BY <1>1 DEF Entering
<1>6. \A k \in Loops, u \in Users : Inserting(k, u)' => Inserting(k, u)
  BY <1>1 DEF Inserting
<1>7. \A k \in Loops, u \in Users : Live(ServerOf[k], u)' /\ Entering(k, u) => Entering(k, u)'
  BY <1>3, <1>5
<1> QED BY <1>1, <1>4, <1>5, <1>6, <1>7, AloneKept

LEMMA ProcessAlone ==
  ASSUME MutexInv, Alone, ~DBFaults, NEW s \in Servers,
         Sigint(s) \/ Reset(s) \/ Crash(s) \/ Start(s)
  PROVE  Alone'
<1>1. CASE Start(s)
  BY <1>1, SessionsUntouched DEF Start, threadVars, sessionVars, tableVars
<1>2. CASE ResetExit(s) \/ Crash(s)
  BY <1>2, ProcessEndsAlone DEF ResetExit, Crash
<1> QED BY <1>1, <1>2, SigintAlone, ResetUnsubscribeAlone, ResetOfflineAlone,
           ResetClearAlone DEF Reset

LEMMA AloneStep ==
  ASSUME MutexInv, Alone, OneLogin, ~DBFaults, [Next]_vars
  PROVE  Alone'
<1>1. ASSUME UNCHANGED <<tableVars, threadVars, sessionVars>>
      PROVE  Alone'
  BY <1>1, SessionsUntouched DEF tableVars, threadVars, sessionVars
<1>2. ASSUME NEW c \in Conns, Accept(c) \/ Terminal(c) \/ \E u \in Users : Login(c, u)
      PROVE  Alone'
  BY <1>1, <1>2 DEF Accept, Terminal, Login, ServersIdle
<1>3. ASSUME NEW l \in Loops, Dispatch(l) \/ Handle(l)
      PROVE  Alone'
  BY <1>3, DispatchAlone, LoginAlone, CloseAlone, ChatAlone DEF Handle
<1>4. ASSUME NEW s \in Servers,
             Observe(s) \/ Redis(s) \/ Sigint(s) \/ Reset(s) \/ Crash(s) \/ Start(s)
      PROVE  Alone'
  BY <1>1, <1>4, ObserveAlone, ProcessAlone DEF Redis, ServersIdle
<1>5. CASE UNCHANGED vars
  BY <1>1, <1>5 DEF vars
<1> QED BY <1>2, <1>3, <1>4, <1>5 DEF Next
-----------------------------------------------------------------------------
(***************************************************************************)
(* One login of an account at a time.                                      *)
(***************************************************************************)
LEMMA NoMoreLogins ==
  ASSUME MutexInv, NEW l \in Loops, NEW next, NEW j, GotoWith(l, next, j), next \notin LoginPcs
  PROVE  \A k \in Loops, u \in Users : LoggingIn(k, u)' => LoggingIn(k, u)
BY DEF LoggingIn, GotoWith, MutexInv, TypeInv, TypeOK, ThreadsTypeOK

LEMMA SameLogins ==
  ASSUME MutexInv, NEW l \in Loops, NEW next, NEW j, GotoWith(l, next, j),
         pc[l] \in LoginPcs, j.user = job[l].user
  PROVE  \A k \in Loops, u \in Users : LoggingIn(k, u)' => LoggingIn(k, u)
BY DEF LoggingIn, GotoWith, MutexInv, TypeInv, TypeOK, ThreadsTypeOK

LEMMA HandlerLogins ==
  ASSUME MutexInv, NEW l \in Loops, Handle(l)
  PROVE  \A k \in Loops, u \in Users : LoggingIn(k, u)' => LoggingIn(k, u)
<1>1. pc \in [Loops -> Pcs] /\ job \in [Loops -> Jobs]
  BY DEF MutexInv, TypeInv, TypeOK, ThreadsTypeOK
<1>2. /\ \A at \in {"idle"} \cup ClosePcs \cup OneChatPcs \cup GroupChatPcs : at \notin LoginPcs
      /\ "login" \in LoginPcs /\ "loginReadOffline" \in LoginPcs
  BY SMT DEF LoginPcs, ClosePcs, OneChatPcs, GroupChatPcs
<1>3. CASE LoginStep(l)
  <2>1. CASE LoginRefuse(l) \/ LoginAck(l)
    BY <2>1, NoMoreLogins, <1>2 DEF LoginRefuse, LoginAck, Finish
  <2>2. CASE LoginReadOffline(l)
    <3>1. PICK next, rows : GotoWith(l, next, [job[l] EXCEPT !.msgs = rows])
      BY <2>2 DEF LoginReadOffline
    <3>2. [job[l] EXCEPT !.msgs = rows].user = job[l].user
      BY <1>1, SMT DEF Jobs
    <3>3. pc[l] \in LoginPcs
      BY <2>2, <1>2 DEF LoginReadOffline
    <3> QED BY <3>1, <3>2, <3>3, SameLogins
  <2>3. CASE \/ LoginAccept(l) \/ LoginInsert(l) \/ LoginSubscribe(l) \/ LoginOnline(l)
             \/ LoginRemoveOffline(l)
    <3>1. PICK next : Goto(l, next)
      BY <2>3 DEF LoginAccept, LoginInsert, LoginSubscribe, LoginOnline, LoginRemoveOffline
    <3>2. pc[l] \in LoginPcs
      BY <2>3 DEF LoginAccept, LoginInsert, LoginSubscribe, LoginOnline, LoginRemoveOffline,
         LoginPcs
    <3> QED BY <3>1, <3>2, SameLogins, GotoIsGotoWith
  <2> QED BY <1>3, <2>1, <2>2, <2>3 DEF LoginStep
<1>4. CASE CloseStep(l)
  <2>1. PICK next, j : next \in {"idle"} \cup ClosePcs /\ GotoWith(l, next, j)
    <3>1. CASE CloseFind(l)
      BY <3>1 DEF CloseFind, ClosePcs
    <3>2. CASE CloseNothing(l) \/ CloseErase(l)
      BY <3>2 DEF CloseNothing, CloseErase, Finish
    <3>3. CASE CloseUnsubscribe(l) \/ CloseOffline(l)
      BY <3>3, GotoIsGotoWith DEF CloseUnsubscribe, CloseOffline, ClosePcs
    <3> QED BY <1>4, <3>1, <3>2, <3>3 DEF CloseStep
  <2> QED BY <2>1, NoMoreLogins, <1>2
<1>5. CASE OneChatStep(l) \/ GroupChatStep(l)
  <2>1. PICK next, j : /\ next \in OneChatPcs \cup GroupChatPcs \cup {"idle"}
                        /\ GotoWith(l, next, j)
    BY <1>5, ChatGoesOn
  <2> QED BY <2>1, NoMoreLogins, <1>2
<1> QED BY <1>3, <1>4, <1>5 DEF Handle

LEMMA HandlerRequests ==
  ASSUME NEW l \in Loops, Handle(l)
  PROVE  UNCHANGED request
<1>1. CASE LoginStep(l)
  BY <1>1 DEF LoginStep, LoginRefuse, LoginAccept, LoginInsert, LoginSubscribe, LoginOnline,
     LoginReadOffline, LoginRemoveOffline, LoginAck, terminalVars
<1>2. CASE CloseStep(l)
  BY <1>2 DEF CloseStep, CloseFind, CloseNothing, CloseUnsubscribe, CloseOffline, CloseErase,
     terminalVars
<1>3. CASE OneChatStep(l)
  BY <1>3 DEF OneChatStep, OneChatFind, OneChatQuery, OneChatPublish, OneChatStore, terminalVars
<1>4. CASE GroupChatStep(l)
  BY <1>4 DEF GroupChatStep, GroupChatQuery, GroupChatLock, GroupChatSend, GroupChatAbsent,
     GroupChatPublish, GroupChatStore, GroupChatEnd, terminalVars
<1> QED BY <1>1, <1>2, <1>3, <1>4 DEF Handle

LEMMA TerminalLogins ==
  ASSUME MutexInv, OneLogin, NEW c \in Conns, Terminal(c)
  PROVE  OneLogin'
<1>1. UNCHANGED <<pc, job>> /\ request \in [Conns -> Requests]
  BY DEF Terminal, ServersIdle, threadVars, MutexInv, TypeInv, TypeOK, TerminalsTypeOK
<1>2. \A k \in Loops, u \in Users : LoggingIn(k, u)' => LoggingIn(k, u)
  BY <1>1 DEF LoggingIn
<1>3. \/ UNCHANGED request
      \/ \E r : r.kind # "login" /\ request' = [request EXCEPT ![c] = r]
  <2>1. CASE ReadLoginAck(c)
    BY <2>1 DEF ReadLoginAck
  <2>2. CASE \E m \in Chats : SendChat(c, m)
    BY <2>2 DEF SendChat, Send
  <2>3. CASE \E m \in GroupChats : SendGroupChat(c, m)
    BY <2>3 DEF SendGroupChat, Send
  <2>4. CASE SendLoginout(c)
    BY <2>4 DEF SendLoginout, Send
  <2>5. CASE Exit(c)
    BY <2>5 DEF Exit, NoRequest
  <2> QED BY <2>1, <2>2, <2>3, <2>4, <2>5 DEF Terminal
<1>4. \A d \in Conns, u \in Users : LoginRequest(d, u)' => LoginRequest(d, u)
  BY <1>1, <1>3 DEF LoginRequest
<1> QED BY <1>2, <1>4, FewerLogins

LEMMA NewLogin ==
  ASSUME MutexInv, OneLogin, Patient, NEW c \in Conns, NEW v \in Users, Login(c, v)
  PROVE  OneLogin'
<1>1. UNCHANGED <<pc, job>> /\ request \in [Conns -> Requests]
  BY DEF Login, ServersIdle, threadVars, MutexInv, TypeInv, TypeOK, TerminalsTypeOK
<1>2. PICK r : r.user = v /\ request' = [request EXCEPT ![c] = r]
  BY DEF Login, SendLogin, Send
<1>3. ~LoginPending(v)
  BY Zenon DEF Login
<1>4. \A d \in Conns, u \in Users : LoginRequest(d, u)' => LoginRequest(d, u) \/ (d = c /\ u = v)
  BY <1>1, <1>2 DEF LoginRequest
<1>5. \A k \in Loops, u \in Users : LoggingIn(k, u)' => LoggingIn(k, u)
  BY <1>1 DEF LoggingIn
<1>6. /\ \A d \in Conns : ~LoginRequest(d, v)
      /\ \A k \in Loops : ~LoggingIn(k, v)
  BY <1>3 DEF LoginPending, LoginRequest, LoggingIn
<1> QED BY <1>4, <1>5, <1>6 DEF OneLogin

\* A login request becomes a login handler.
LEMMA DispatchLogins ==
  ASSUME MutexInv, OneLogin, NEW l \in Loops, Dispatch(l)
  PROVE  OneLogin'
<1>1. /\ request \in [Conns -> Requests]
      /\ pc \in [Loops -> Pcs] /\ job \in [Loops -> Jobs]
  BY DEF MutexInv, TypeInv, TypeOK, TerminalsTypeOK, ThreadsTypeOK
<1>2. CASE RunPendingFunctors(l)
  BY <1>2 DEF RunPendingFunctors, terminalVars, threadVars, OneLogin, LoginRequest, LoggingIn
<1>3. ASSUME NEW c \in Conns, OnClose(l, c)
      PROVE  OneLogin'
  <2>1. UNCHANGED request /\ \E j : GotoWith(l, "close", j)
    BY <1>3 DEF OnClose, terminalVars
  <2>2. "close" \notin LoginPcs
    BY SMT DEF LoginPcs
  <2>3. \A k \in Loops, u \in Users : LoggingIn(k, u)' => LoggingIn(k, u)
    BY <2>1, <2>2, NoMoreLogins
  <2>4. \A d \in Conns, u \in Users : LoginRequest(d, u)' => LoginRequest(d, u)
    BY <2>1 DEF LoginRequest
  <2> QED BY <2>3, <2>4, FewerLogins
<1>4. ASSUME NEW c \in Conns, OnMessage(l, c)
      PROVE  OneLogin'
  <2>1. request' = [request EXCEPT ![c] = NoRequest] /\ NoRequest.kind # "login"
    BY <1>4 DEF OnMessage, NoRequest
  <2>2. \A d \in Conns, u \in Users : LoginRequest(d, u)' => d # c /\ LoginRequest(d, u)
    BY <2>1, <1>1 DEF LoginRequest
  <2>3. PICK j : GotoWith(l, HandlerOf[request[c].kind], j)
                 /\ (request[c].kind # "loginout" => j.user = request[c].user)
    BY <1>4, SMT DEF OnMessage, JobFor
  <2>4. request[c].kind \in {"login", "loginout", "oneChat", "groupChat"}
    BY <1>4, <1>1, SMT DEF OnMessage, Requests, MutexInv, TypeInv, RequestsOK
  <2>5. HandlerOf[request[c].kind] \in LoginPcs => request[c].kind = "login"
    BY <2>4, SMT DEF HandlerOf, LoginPcs
  <2>6. pc' = [pc EXCEPT ![l] = HandlerOf[request[c].kind]] /\ job' = [job EXCEPT ![l] = j]
    BY <2>3 DEF GotoWith
  <2>7. \A k \in Loops, u \in Users :
          LoggingIn(k, u)' => LoggingIn(k, u) \/ (k = l /\ LoginRequest(c, u))
    BY <2>3, <2>5, <2>6, <1>1 DEF LoggingIn, LoginRequest
  <2> QED BY <2>2, <2>7 DEF OneLogin
<1> QED BY <1>2, <1>3, <1>4 DEF Dispatch

LEMMA ProcessEndsLogins ==
  ASSUME OneLogin, NEW s \in Servers, ProcessEnds(s)
  PROVE  OneLogin'
<1>1. /\ request' = [c \in Conns |-> IF ConnServer(c) = s THEN NoRequest ELSE request[c]]
      /\ pc' = [l \in Loops |-> IF ServerOf[l] = s THEN "idle" ELSE pc[l]]
      /\ job' = [l \in Loops |-> IF ServerOf[l] = s THEN NoJob ELSE job[l]]
  BY DEF ProcessEnds
<1>2. NoRequest.kind # "login" /\ "idle" \notin LoginPcs
  BY SMT DEF NoRequest, LoginPcs
<1>3. \A c \in Conns, u \in Users : LoginRequest(c, u)' => LoginRequest(c, u)
  BY <1>1, <1>2 DEF LoginRequest
<1>4. \A l \in Loops, u \in Users : LoggingIn(l, u)' => LoggingIn(l, u)
  BY <1>1, <1>2 DEF LoggingIn
<1> QED BY <1>3, <1>4, FewerLogins

LEMMA OneLoginStep ==
  ASSUME MutexInv, OneLogin, Patient, [Next]_vars
  PROVE  OneLogin'
<1>1. ASSUME UNCHANGED <<request, pc, job>>
      PROVE  OneLogin'
  BY <1>1 DEF OneLogin, LoginRequest, LoggingIn
<1>2. ASSUME NEW c \in Conns, Accept(c) \/ Terminal(c) \/ \E u \in Users : Login(c, u)
      PROVE  OneLogin'
  <2>1. CASE Accept(c)
    BY <2>1, <1>1 DEF Accept, Connect, threadVars
  <2> QED BY <1>2, <2>1, TerminalLogins, NewLogin
<1>3. ASSUME NEW l \in Loops, Dispatch(l) \/ Handle(l)
      PROVE  OneLogin'
  <2>1. CASE Dispatch(l)
    BY <2>1, DispatchLogins
  <2>2. CASE Handle(l)
    <3>1. UNCHANGED request
      BY <2>2, HandlerRequests
    <3>2. \A c \in Conns, u \in Users : LoginRequest(c, u)' => LoginRequest(c, u)
      BY <3>1 DEF LoginRequest
    <3>3. \A k \in Loops, u \in Users : LoggingIn(k, u)' => LoggingIn(k, u)
      BY <2>2, HandlerLogins
    <3> QED BY <3>2, <3>3, FewerLogins
  <2> QED BY <1>3, <2>1, <2>2
<1>4. ASSUME NEW s \in Servers,
             Observe(s) \/ Redis(s) \/ Sigint(s) \/ Reset(s) \/ Crash(s) \/ Start(s)
      PROVE  OneLogin'
  <2>1. CASE ResetExit(s) \/ Crash(s)
    BY <2>1, ProcessEndsLogins DEF ResetExit, Crash
  <2>2. CASE Observe(s) \/ Redis(s) \/ Start(s)
    BY <2>2, <1>1 DEF Observe, ObserverForward, ObserverStore, Redis, ServersIdle, Start,
       threadVars, terminalVars
  <2>3. CASE Sigint(s) \/ ResetUnsubscribe(s) \/ ResetOffline(s) \/ ResetClear(s)
    BY <2>3, <1>1 DEF Sigint, ResetUnsubscribe, ResetOffline, ResetClear, UnchangedByReset,
       terminalVars
  <2> QED BY <1>4, <2>1, <2>2, <2>3 DEF Reset
<1>5. CASE UNCHANGED vars
  BY <1>1, <1>5 DEF vars, terminalVars, threadVars
<1> QED BY <1>2, <1>3, <1>4, <1>5 DEF Next
-----------------------------------------------------------------------------
LEMMA SessionInit == Init => OneLogin /\ Alone
<1> SUFFICES ASSUME Init PROVE OneLogin /\ Alone
  OBVIOUS
<1>1. /\ \A c \in Conns : request[c].kind # "login"
      /\ \A l \in Loops : pc[l] = "idle"
      /\ \A s \in Servers, u \in Users : userConnMap[s][u] = None
  BY DEF Init, TerminalsInit, NoRequest
<1>2. "idle" \notin LoginPcs
  BY SMT DEF LoginPcs
<1>3. OneLogin
  BY <1>1, <1>2 DEF OneLogin, LoginRequest, LoggingIn
<1>4. \A s \in Servers, u \in Users : ~Live(s, u)
  BY <1>1 DEF Live
<1>5. Alone
  BY <1>1, <1>4 DEF Alone, LiveIsOnline, NewLoginIsAlone, EnteringIsAlone, AtMostOneSession,
     Entering
<1> QED BY <1>3, <1>5

(***************************************************************************)
(* "该账号已经登录，请勿重复登录！" (chatservice.cpp:72): an account has at *)
(* most one session in the cluster, with any number of servers that crash  *)
(* or are interrupted at any moment, provided MySQL answers and nobody     *)
(* logs an account in while a login of it is in progress.                  *)
(***************************************************************************)
THEOREM OneSession ==
  ASSUME Patient, ~DBFaults
  PROVE  Spec => []AtMostOneSession
<1> DEFINE Inv == MutexInv /\ OneLogin /\ Alone
<1>1. Init => Inv
  BY TypeInit, MutexInit, SessionInit DEF MutexInv
<1>2. Inv /\ [Next]_vars => Inv'
  BY MutexStep, OneLoginStep, AloneStep
<1>3. Inv => AtMostOneSession
  BY DEF Alone
<1> QED BY <1>1, <1>2, <1>3, PTL DEF Spec
==============================================================================
