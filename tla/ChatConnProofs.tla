--------------------------- MODULE ChatConnProofs ---------------------------
(***************************************************************************)
(* A connection and the map: for every number of servers, threads,         *)
(* connections and accounts, with every fault, a connection has one entry  *)
(* at most, and none once it is down and its close handler has returned.   *)
(*                                                                         *)
(* unordered_map::insert keeps what is there, so all depends on a login    *)
(* finding its connection without an entry.  That the client sends a login *)
(* only when its last session is over or being closed follows from where   *)
(* its answers are: at most one is under way, and none when it is in the   *)
(* menu or chats.                                                          *)
(*                                                                         *)
(* What is written to a connection follows: messages for the account of    *)
(* its last login only.                                                    *)
(***************************************************************************)
EXTENDS ChatSessionProofs

\* The handler in the I/O thread of c works for c and is at one of at.
At(c, at) == pc[LoopOf[c]] \in at /\ job[LoopOf[c]].conn = c

Has(c) == \E s \in Servers, u \in Users : userConnMap[s][u] = c

\* A login answer that the terminal has not read yet.
Unread(c, i) == i \in nread[c] + 1 .. Len(toClient[c]) /\ IsAck(toClient[c][i])

\* c has one entry at most, on its own server, and is up or being closed.
EntryOK(c) ==
  \A s \in Servers, u \in Users : userConnMap[s][u] = c =>
    /\ ConnServer(c) = s
    /\ connected[c] \/ At(c, ClosePcs)
    /\ \A v \in Users : userConnMap[s][v] = c => v = u

\* A login finds c without an entry, and keeps it that way up to its insert.
LoginOK(c) ==
  /\ request[c].kind = "login" => ~At(c, LoginPcs) /\ (Has(c) => At(c, ClosePcs))
  /\ At(c, LoginPcs) => connected[c]
  /\ At(c, {"login", "loginInsert"}) => ~Has(c)

NoLogin(c) == request[c].kind # "login" /\ ~At(c, LoginPcs)

\* Where the terminal is, there is a login under way, its answer, or neither.
TerminalOK(c) ==
  /\ clientPc[c] \in {"off", "menu", "chatting"} => NoLogin(c) /\ \A i \in Nat : ~Unread(c, i)
  /\ clientPc[c] = "off" => ~Has(c)
  /\ clientPc[c] = "menu" /\ Has(c) => request[c].kind = "loginout" \/ At(c, ClosePcs)
  /\ clientPc[c] = "waiting" => \A i \in Nat : Unread(c, i) =>
       /\ NoLogin(c)
       /\ \A k \in Nat : Unread(c, k) => k = i
       /\ toClient[c][i].kind = "refused" => ~Has(c)

\* Other threads queue messages only.
PendingOK(c) == \A i \in DOMAIN pending[c] : ~IsAck(pending[c][i])

ConnOK(c) == EntryOK(c) /\ LoginOK(c) /\ TerminalOK(c) /\ PendingOK(c)
ConnInv == \A c \in Conns : ConnOK(c)
-----------------------------------------------------------------------------
(***************************************************************************)
(* What a step leaves to a connection: its terminal and the answers in its *)
(* socket, its handler, its entries.                                       *)
(***************************************************************************)
QuietNet(c) ==
  /\ UNCHANGED <<clientPc[c], request[c], connected[c]>>
  /\ \A i \in Nat : Unread(c, i)' => Unread(c, i) /\ toClient'[c][i] = toClient[c][i]
  /\ PendingOK(c)'

QuietThread(c) ==
  /\ At(c, LoginPcs)' => At(c, LoginPcs)
  /\ At(c, {"login", "loginInsert"})' => At(c, {"login", "loginInsert"})

QuietMap(c) ==
  \A s \in Servers, u \in Users : userConnMap'[s][u] = c => userConnMap[s][u] = c

ClosesOn(c) == At(c, ClosePcs) => At(c, ClosePcs)' \/ ~Has(c)'

LEMMA FewerEntries == ASSUME NEW c, QuietMap(c) PROVE Has(c)' => Has(c)
BY DEF QuietMap, Has

LEMMA EntryStays ==
  ASSUME NEW c, EntryOK(c), QuietMap(c), ClosesOn(c), connected'[c] = connected[c]
  PROVE  EntryOK(c)'
<1>. SUFFICES ASSUME NEW s \in Servers, NEW u \in Users, userConnMap'[s][u] = c
              PROVE  /\ ConnServer(c) = s
                     /\ connected'[c] \/ At(c, ClosePcs)'
                     /\ \A v \in Users : userConnMap'[s][v] = c => v = u
  BY DEF EntryOK, ConnServer
<1>1. Has(c)'
  BY DEF Has
<1>. QED BY <1>1 DEF EntryOK, QuietMap, ClosesOn

LEMMA ConnStays ==
  ASSUME NEW c, ConnOK(c), QuietNet(c), QuietThread(c), QuietMap(c), ClosesOn(c)
  PROVE  ConnOK(c)'
<1>1. Has(c)' => Has(c)
  BY FewerEntries
<1>2. EntryOK(c)'
  BY EntryStays DEF ConnOK, QuietNet
<1>3. LoginOK(c)'
  BY <1>1 DEF ConnOK, LoginOK, QuietNet, QuietThread, ClosesOn
<1>4. TerminalOK(c)'
  BY <1>1 DEF ConnOK, TerminalOK, NoLogin, QuietNet, QuietThread, ClosesOn
<1>. QED BY <1>2, <1>3, <1>4 DEF ConnOK, QuietNet

-----------------------------------------------------------------------------
LEMMA SameNet ==
  ASSUME ConnInv, UNCHANGED <<terminalVars, netVars>>, NEW c \in Conns
  PROVE  QuietNet(c)
BY DEF ConnInv, ConnOK, terminalVars, netVars, QuietNet, Unread, PendingOK

LEMMA Appended ==
  ASSUME NEW s \in Seq(Frames), NEW f \in Frames
  PROVE  /\ Append(s, f) \in Seq(Frames)
         /\ Len(s) \in Nat /\ Len(Append(s, f)) = Len(s) + 1
         /\ Append(s, f)[Len(s) + 1] = f
         /\ \A i \in 1 .. Len(s) : Append(s, f)[i] = s[i]
OBVIOUS

\* Frames that are no answers, to whatever connection.
LEMMA MessageNet ==
  ASSUME TypeInv, ConnInv, UNCHANGED terminalVars, NEW t, NEW d \in Conns,
         NEW u \in Users, NEW m \in Msgs, SendFrame(t, d, MsgFrame(u, m)), NEW c \in Conns
  PROVE  QuietNet(c)
<1>. PICK f \in Frames : f = MsgFrame(u, m) /\ ~IsAck(f)
  BY MsgFrameType DEF MsgFrame, IsAck
<1>1. toClient[c] \in Seq(Frames) /\ pending[c] \in Seq(Frames)
  BY DEF TypeInv, TypeOK, NetTypeOK
<1>2. toClient'[c] \in {toClient[c], Append(toClient[c], f)}
  BY DEF TypeInv, TypeOK, NetTypeOK, SendFrame
<1>3. pending'[c] \in {pending[c], Append(pending[c], f)}
  BY DEF TypeInv, TypeOK, NetTypeOK, SendFrame
<1>4. UNCHANGED <<clientPc, request, connected, nread>>
  BY DEF terminalVars, SendFrame
<1>5. nread[c] \in Nat
  BY DEF TypeInv, TypeOK, TerminalsTypeOK
<1>6. ASSUME NEW i \in Nat, Unread(c, i)'
      PROVE  Unread(c, i) /\ toClient'[c][i] = toClient[c][i]
  <2>1. CASE toClient'[c] = toClient[c]
    BY <2>1, <1>4, <1>6 DEF Unread
  <2>2. CASE toClient'[c] = Append(toClient[c], f)
    <3>0. Len(Append(toClient[c], f)) = Len(toClient[c]) + 1
      BY ONLY <1>1, f \in Frames, Appended
    <3>1. i \in nread[c] + 1 .. Len(toClient[c]) + 1 /\ IsAck(Append(toClient[c], f)[i])
      BY <1>4, <1>6, <2>2, <3>0 DEF Unread
    <3>2. i # Len(toClient[c]) + 1
      BY <1>1, <3>1, Appended
    <3>3. i \in 1 .. Len(toClient[c]) /\ i \in nread[c] + 1 .. Len(toClient[c])
      BY <1>1, <1>5, <3>1, <3>2
    <3>. QED BY <1>1, <2>2, <3>1, <3>3, Appended DEF Unread
  <2>. QED BY <1>2, <2>1, <2>2
<1>7. PendingOK(c)'
  <2>1. PendingOK(c)
    BY DEF ConnInv, ConnOK
  <2>2. CASE pending'[c] = pending[c]
    BY <2>1, <2>2 DEF PendingOK
  <2>3. CASE pending'[c] = Append(pending[c], f)
    <3>1. \A i \in DOMAIN Append(pending[c], f) :
            i = Len(pending[c]) + 1 \/ i \in DOMAIN pending[c]
      BY ONLY <1>1, f \in Frames, Appended
    <3>. QED BY <1>1, <2>1, <2>3, <3>1, Appended DEF PendingOK
  <2>. QED BY <1>3, <2>2, <2>3
<1>. QED BY <1>4, <1>6, <1>7 DEF QuietNet

(***************************************************************************)
(* A handler goes on within login, within clientCloseException or outside  *)
(* of both; or it ends, and was not clientCloseException.                  *)
(***************************************************************************)
LEMMA Moved ==
  ASSUME TypeInv, NEW l \in Loops, NEW next, NEW j, GotoWith(l, next, j), NEW c \in Conns
  PROVE  /\ LoopOf[c] = l => pc'[LoopOf[c]] = next /\ job'[LoopOf[c]] = j
         /\ LoopOf[c] # l => pc'[LoopOf[c]] = pc[LoopOf[c]] /\ job'[LoopOf[c]] = job[LoopOf[c]]
BY PlacementAssumption DEF GotoWith, TypeInv, TypeOK, ThreadsTypeOK

GoesOn(l, next, j) ==
  /\ j.conn = job[l].conn
  /\ next \in LoginPcs => pc[l] \in LoginPcs
  /\ next \in {"login", "loginInsert"} => pc[l] \in {"login", "loginInsert"}
  /\ pc[l] \in ClosePcs => next \in ClosePcs

LEMMA HandlerGoesOn ==
  ASSUME TypeInv, NEW l \in Loops, NEW next, NEW j, GotoWith(l, next, j), GoesOn(l, next, j),
         NEW c \in Conns
  PROVE  QuietThread(c) /\ ClosesOn(c)
BY Moved DEF GoesOn, QuietThread, ClosesOn, At

LEMMA HandlerEnds ==
  ASSUME TypeInv, NEW l \in Loops, Finish(l), NEW c \in Conns
  PROVE  /\ QuietThread(c)
         /\ pc[l] \notin ClosePcs => ClosesOn(c)
         /\ \A at : LoopOf[c] = l => pc'[LoopOf[c]] = "idle"
<1>1. GotoWith(l, "idle", NoJob) /\ "idle" \notin LoginPcs
  BY DEF Finish, LoginPcs
<1>. QED BY <1>1, Moved DEF QuietThread, ClosesOn, At

LEMMA SameMap == ASSUME UNCHANGED userConnMap, NEW c PROVE QuietMap(c)
BY DEF QuietMap

LEMMA QuietStep ==
  ASSUME TypeInv, ConnInv, NEW l \in Loops, UNCHANGED userConnMap,
         \A c \in Conns : QuietNet(c),
         \/ \E next, j : GotoWith(l, next, j) /\ GoesOn(l, next, j)
         \/ Finish(l) /\ pc[l] \notin ClosePcs
  PROVE  ConnInv'
<1>. SUFFICES ASSUME NEW c \in Conns PROVE ConnOK(c)'
  BY DEF ConnInv
<1>1. QuietThread(c) /\ ClosesOn(c)
  BY HandlerGoesOn, HandlerEnds
<1>. QED BY <1>1, SameMap, ConnStays DEF ConnInv

LEMMA GotoIs ==
  ASSUME TypeInv, NEW l \in Loops, NEW next, Goto(l, next)
  PROVE  GotoWith(l, next, job[l])
BY DEF Goto, GotoWith, TypeInv, TypeOK, ThreadsTypeOK

-----------------------------------------------------------------------------
LEMMA InsertConn ==
  ASSUME TypeInv, ConnInv, NEW l \in Loops, LoginInsert(l)
  PROVE  ConnInv'
<1>. PICK d \in Conns : d = job[l].conn /\ LoopOf[d] = l
  BY DEF LoginInsert, TypeInv, JobsOK, JobOK
<1>. PICK w \in Users : w = job[l].user
  BY DEF LoginInsert, TypeInv, JobsOK, JobOK, LoginPcs
<1>. PICK s \in Servers : s = ServerOf[l]
  BY PlacementAssumption
<1>1. /\ GotoWith(l, "loginSubscribe", job[l]) /\ pc[l] = "loginInsert"
      /\ userConnMap' = [userConnMap EXCEPT ![s][w] = IF @ = None THEN d ELSE @]
      /\ UNCHANGED <<terminalVars, netVars>>
  BY GotoIs DEF LoginInsert
<1>2. userConnMap \in [Servers -> [Users -> Conns \cup {None}]]
  BY DEF TypeInv, TypeOK, SessionsTypeOK
<1>3. GoesOn(l, "loginSubscribe", job[l])
  BY <1>1 DEF GoesOn, LoginPcs, ClosePcs
<1>4. ASSUME NEW c \in Conns, c # d PROVE ConnOK(c)'
  <2>1. QuietMap(c)
    BY <1>1, <1>2, <1>4 DEF QuietMap
  <2>. QED BY <1>1, <1>3, <2>1, SameNet, HandlerGoesOn, ConnStays DEF ConnInv
<1>5. ConnOK(d)'
  <2>1. At(d, {"login", "loginInsert"}) /\ At(d, LoginPcs) /\ ConnServer(d) = s
    BY <1>1 DEF At, LoginPcs, ConnServer
  <2>2. ~Has(d) /\ connected[d] /\ ConnOK(d)
    BY <2>1 DEF ConnInv, ConnOK, LoginOK
  <2>3. \A t \in Servers, u \in Users : userConnMap'[t][u] = d => t = s /\ u = w
    BY <1>1, <1>2, <2>2 DEF Has
  <2>4. /\ ~At(d, {"login", "loginInsert"})' /\ At(d, LoginPcs)'
        /\ connected'[d] = connected[d]
    BY <1>1, Moved DEF At, LoginPcs, netVars
  <2>5. EntryOK(d)'
    BY <2>1, <2>2, <2>3, <2>4 DEF EntryOK, ConnServer
  <2>6. QuietNet(d)
    BY <1>1, SameNet
  <2>7. LoginOK(d)'
    BY <2>1, <2>2, <2>4, <2>6 DEF ConnOK, LoginOK, QuietNet
  <2>8. TerminalOK(d)'
    BY <2>1, <2>2, <2>4, <2>6 DEF ConnOK, TerminalOK, NoLogin, QuietNet
  <2>. QED BY <2>5, <2>6, <2>7, <2>8 DEF ConnOK, QuietNet
<1>. QED BY <1>4, <1>5 DEF ConnInv

\* The answer to a login, which is the only one on its way.
LEMMA AnswerConn ==
  ASSUME TypeInv, ConnInv, NEW l \in Loops, pc[l] \in LoginPcs,
         NEW f \in Frames, IsAck(f), SendFrame(l, job[l].conn, f), Finish(l),
         f.kind = "refused" => pc[l] = "login",
         UNCHANGED <<terminalVars, userConnMap>>
  PROVE  ConnInv'
<1>. PICK d \in Conns : d = job[l].conn /\ LoopOf[d] = l
  BY DEF TypeInv, JobsOK, JobOK, LoginPcs
<1>1. ConnOK(d) /\ At(d, LoginPcs) /\ connected[d]
  BY DEF ConnInv, ConnOK, LoginOK, At
<1>2. /\ toClient' = [toClient EXCEPT ![d] = Append(@, f)]
      /\ UNCHANGED <<pending, connected, clientPc, request, nread>>
  BY <1>1 DEF SendFrame, terminalVars
<1>3. /\ toClient \in [Conns -> Seq(Frames)] /\ toClient[d] \in Seq(Frames)
      /\ nread[d] \in Nat
  BY DEF TypeInv, TypeOK, NetTypeOK, TerminalsTypeOK
<1>4. pc[l] \notin ClosePcs
  BY DEF ClosePcs, LoginPcs
<1>5. ASSUME NEW c \in Conns PROVE QuietThread(c) /\ ClosesOn(c) /\ QuietMap(c)
  BY <1>4, HandlerEnds, SameMap
<1>6. ASSUME NEW c \in Conns, c # d PROVE ConnOK(c)'
  <2>1. toClient'[c] = toClient[c]
    BY <1>2, <1>3, <1>6
  <2>2. QuietNet(c)
    BY <1>2, <2>1 DEF QuietNet, Unread, PendingOK, ConnInv, ConnOK
  <2>. QED BY <1>5, <2>2, ConnStays DEF ConnInv
<1>7. ConnOK(d)'
  <2>1. ~At(d, LoginPcs)' /\ ~At(d, {"login", "loginInsert"})'
    BY HandlerEnds DEF At, LoginPcs
  <2>2. request[d].kind # "login" /\ clientPc[d] \notin {"off", "menu", "chatting"}
    BY <1>1 DEF ConnOK, LoginOK, TerminalOK, NoLogin
  <2>3. clientPc[d] = "waiting" => \A i \in Nat : ~Unread(d, i)
    BY <1>1 DEF ConnOK, TerminalOK, NoLogin
  <2>4. f.kind = "refused" => ~Has(d)
    BY <1>1 DEF ConnOK, LoginOK, At
  <2>5. Has(d)' => Has(d)
    BY <1>5, FewerEntries
  <2>6. ASSUME clientPc[d] = "waiting", NEW i \in Nat, Unread(d, i)'
        PROVE  i = Len(toClient[d]) + 1 /\ toClient'[d][i] = f
    <3>1. toClient'[d] = Append(toClient[d], f)
      BY <1>2, <1>3
    <3>2. i \in nread[d] + 1 .. Len(toClient[d]) + 1 /\ IsAck(Append(toClient[d], f)[i])
      BY <1>2, <1>3, <2>6, <3>1, Appended DEF Unread
    <3>3. ASSUME i # Len(toClient[d]) + 1 PROVE FALSE
      <4>1. i \in 1 .. Len(toClient[d]) /\ i \in nread[d] + 1 .. Len(toClient[d])
        BY <1>3, <3>2, <3>3, Appended
      <4>. QED BY <1>3, <2>3, <2>6, <3>2, <4>1, Appended DEF Unread
    <3>. QED BY <1>3, <3>1, <3>3, Appended
  <2>7. TerminalOK(d)'
    BY <1>2, <2>1, <2>2, <2>4, <2>5, <2>6 DEF TerminalOK, NoLogin
  <2>8. EntryOK(d)'
    BY <1>1, <1>2, <1>5, EntryStays DEF ConnOK
  <2>9. LoginOK(d)'
    BY <1>2, <2>1, <2>2 DEF LoginOK
  <2>. QED BY <1>1, <1>2, <2>7, <2>8, <2>9 DEF ConnOK, PendingOK
<1>. QED BY <1>6, <1>7 DEF ConnInv

LEMMA LoginConn ==
  ASSUME TypeInv, ConnInv, NEW l \in Loops, LoginStep(l)
  PROVE  ConnInv'
<1>1. CASE LoginInsert(l)
  BY <1>1, InsertConn
<1>2. CASE LoginRefuse(l) \/ LoginAck(l)
  <2>. PICK w \in Users : w = job[l].user
    BY <1>2 DEF LoginRefuse, LoginAck, TypeInv, JobsOK, JobOK, LoginPcs
  <2>1. job[l].msgs \in Seq(Msgs)
    BY DEF TypeInv, TypeOK, ThreadsTypeOK, Jobs
  <2>2. PICK kind \in {"ok", "refused"}, ms \in Seq(Msgs) :
          /\ SendFrame(l, job[l].conn, AckFrame(kind, w, ms))
          /\ kind = "refused" => pc[l] = "login"
    BY <1>2, <2>1, EmptySeqType DEF LoginRefuse, LoginAck
  <2>. PICK f \in Frames : f = AckFrame(kind, w, ms) /\ f.kind = kind /\ IsAck(f)
    BY AckFrameType DEF AckFrame, IsAck
  <2>3. pc[l] \in LoginPcs /\ Finish(l) /\ UNCHANGED <<terminalVars, userConnMap>>
    BY <1>2 DEF LoginRefuse, LoginAck, LoginPcs, sessionVars
  <2>. QED BY <2>2, <2>3, AnswerConn
<1>3. CASE LoginAccept(l) \/ LoginSubscribe(l) \/ LoginOnline(l) \/ LoginReadOffline(l) \/ LoginRemoveOffline(l)
  <2>1. UNCHANGED <<terminalVars, netVars, userConnMap>>
    BY <1>3 DEF LoginAccept, LoginSubscribe, LoginOnline, LoginReadOffline, LoginRemoveOffline, sessionVars
  <2>2. job[l] \in Jobs
    BY DEF TypeInv, TypeOK, ThreadsTypeOK
  <2>3. \E next, j : GotoWith(l, next, j) /\ GoesOn(l, next, j)
    <3>1. CASE LoginReadOffline(l)
      <4>. PICK rows, next : /\ GotoWith(l, next, [job[l] EXCEPT !.msgs = rows])
                             /\ next \in {"loginRemoveOffline", "loginAck"} /\ pc[l] = "loginReadOffline"
        BY <3>1 DEF LoginReadOffline
      <4>1. [job[l] EXCEPT !.msgs = rows].conn = job[l].conn
        BY <2>2 DEF Jobs
      <4>. QED BY <4>1 DEF GoesOn, LoginPcs, ClosePcs
    <3>2. CASE ~LoginReadOffline(l)
      BY <1>3, <3>2, GotoIs DEF LoginAccept, LoginSubscribe, LoginOnline, LoginRemoveOffline,
           GoesOn, LoginPcs, ClosePcs
    <3>. QED BY <3>1, <3>2
  <2>. QED BY <2>1, <2>3, SameNet, QuietStep
<1>. QED BY <1>1, <1>2, <1>3 DEF LoginStep

-----------------------------------------------------------------------------
\* clientCloseException returns when its connection has no entry any more.
LEMMA CloseEnds ==
  ASSUME TypeInv, ConnInv, NEW l \in Loops, pc[l] \in ClosePcs, Finish(l),
         UNCHANGED <<terminalVars, netVars>>,
         NEW d, d = job[l].conn, ~Has(d)', \A c \in Conns : QuietMap(c)
  PROVE  ConnInv'
<1>. SUFFICES ASSUME NEW c \in Conns PROVE ConnOK(c)'
  BY DEF ConnInv
<1>1. QuietNet(c) /\ QuietThread(c)
  BY SameNet, HandlerEnds
<1>2. ClosesOn(c)
  BY Moved DEF ClosesOn, At, Finish
<1>. QED BY <1>1, <1>2, ConnStays DEF ConnInv

LEMMA CloseConn ==
  ASSUME MutexInv, ConnInv, NEW l \in Loops, CloseStep(l)
  PROVE  ConnInv'
<1>. TypeInv /\ IteratorsValid
  BY DEF MutexInv
<1>. PICK d \in Conns : d = job[l].conn /\ LoopOf[d] = l
  BY DEF CloseStep, CloseFind, CloseNothing, CloseUnsubscribe, CloseOffline, CloseErase,
     TypeInv, JobsOK, JobOK
<1>. PICK s \in Servers : s = ServerOf[l] /\ s = ConnServer(d)
  BY PlacementAssumption DEF ConnServer
<1>. PICK w : w = job[l].user
  OBVIOUS
<1>0. /\ job[l] \in Jobs
      /\ userConnMap \in [Servers -> [Users -> Conns \cup {None}]]
  BY DEF TypeInv, TypeOK, ThreadsTypeOK, SessionsTypeOK
<1>1. EntryOK(d)
  BY DEF ConnInv, ConnOK
<1>2. CASE CloseFind(l) \/ CloseUnsubscribe(l) \/ CloseOffline(l)
  <2>1. UNCHANGED <<terminalVars, netVars, userConnMap>>
    BY <1>2 DEF CloseFind, CloseUnsubscribe, CloseOffline, sessionVars
  <2>2. PICK next, j : GotoWith(l, next, j) /\ next \in ClosePcs /\ j.conn = job[l].conn
    <3>1. CASE CloseFind(l)
      <4>. PICK u : GotoWith(l, "closeUnsubscribe", [job[l] EXCEPT !.user = u])
        BY <3>1 DEF CloseFind
      <4>1. [job[l] EXCEPT !.user = u].conn = job[l].conn
        BY <1>0 DEF Jobs
      <4>. QED BY <4>1 DEF ClosePcs
    <3>2. CASE ~CloseFind(l)
      BY <1>2, <3>2, GotoIs DEF CloseUnsubscribe, CloseOffline, ClosePcs
    <3>. QED BY <3>1, <3>2
  <2>3. GoesOn(l, next, j)
    BY <2>2 DEF GoesOn, ClosePcs, LoginPcs
  <2>. QED BY <2>1, <2>2, <2>3, SameNet, QuietStep
<1>3. CASE CloseNothing(l)
  <2>1. /\ Finish(l) /\ pc[l] \in ClosePcs
        /\ UNCHANGED <<terminalVars, netVars, userConnMap>>
        /\ \A u \in Users : userConnMap[s][u] # d
    BY <1>3 DEF CloseNothing, ClosePcs, sessionVars
  <2>2. \A t \in Servers, u \in Users : userConnMap'[t][u] # d
    BY <1>1, <2>1 DEF EntryOK
  <2>. QED BY <2>1, <2>2, SameMap, CloseEnds DEF Has
<1>4. CASE CloseErase(l)
  <2>1. /\ Finish(l) /\ pc[l] = "closeErase" /\ pc[l] \in ClosePcs
        /\ UNCHANGED <<terminalVars, netVars>>
        /\ userConnMap' = [userConnMap EXCEPT ![s][w] = None]
    BY <1>4 DEF CloseErase, ClosePcs
  <2>2. w \in Users /\ userConnMap[s][w] = d
    BY <2>1 DEF IteratorsValid, TypeInv, JobsOK, JobOK
  <2>3. \A c \in Conns : QuietMap(c)
    BY <1>0, <2>1, NoneAssumption DEF QuietMap
  <2>4. \A t \in Servers, u \in Users : userConnMap'[t][u] # d
    BY <1>0, <1>1, <2>1, <2>2, NoneAssumption DEF EntryOK
  <2>. QED BY <2>1, <2>3, <2>4, CloseEnds DEF Has
<1>. QED BY <1>2, <1>3, <1>4 DEF CloseStep

-----------------------------------------------------------------------------
ChatPcs == OneChatPcs \cup GroupChatPcs

LEMMA ChatPcsApart == \A at \in ChatPcs : at \notin LoginPcs /\ at \notin ClosePcs
BY DEF ChatPcs, OneChatPcs, GroupChatPcs, LoginPcs, ClosePcs

LEMMA ChatStays ==
  ASSUME NEW l \in Loops, NEW next \in ChatPcs, NEW j, pc[l] \in ChatPcs, j.conn = job[l].conn
  PROVE  GoesOn(l, next, j)
<1>1. next \notin {"login", "loginInsert"}
  BY ChatPcsApart DEF LoginPcs
<1>. QED BY <1>1, ChatPcsApart DEF GoesOn

LEMMA EntryIsConn ==
  ASSUME TypeInv, NEW s \in Servers, NEW u \in Users, userConnMap[s][u] # None
  PROVE  userConnMap[s][u] \in Conns
BY DEF TypeInv, TypeOK, SessionsTypeOK

LEMMA OneChatConn ==
  ASSUME TypeInv, ConnInv, NEW l \in Loops, OneChatStep(l)
  PROVE  ConnInv'
<1>1. /\ pc[l] \in OneChatPcs /\ pc[l] \in ChatPcs /\ pc[l] \notin ClosePcs
      /\ UNCHANGED <<terminalVars, userConnMap>>
  BY ChatPcsApart DEF OneChatStep, OneChatFind, OneChatQuery, OneChatPublish, OneChatStore, OneChatPcs,
     ChatPcs, sessionVars
<1>2. job[l].user \in Users /\ job[l].msg \in Msgs
  BY <1>1 DEF TypeInv, JobsOK, JobOK
<1>3. \/ Finish(l)
      \/ \E next \in ChatPcs : Goto(l, next)
  BY DEF OneChatStep, OneChatFind, OneChatQuery, OneChatPublish, OneChatStore, ChatPcs, OneChatPcs
<1>4. \/ UNCHANGED netVars
      \/ \E d \in Conns : SendFrame(l, d, MsgFrame(job[l].user, job[l].msg))
  <2>1. CASE OneChatFind(l)
    BY <1>2, <2>1, EntryIsConn, PlacementAssumption DEF OneChatFind
  <2>. QED BY <2>1 DEF OneChatStep, OneChatQuery, OneChatPublish, OneChatStore
<1>5. \A c \in Conns : QuietNet(c)
  BY <1>1, <1>2, <1>4, SameNet, MessageNet
<1>. QED BY <1>1, <1>3, <1>5, GotoIs, ChatStays, QuietStep

\* The loop over the members goes on, or ends.
LEMMA GroupChatGoesOn ==
  ASSUME NEW l \in Loops, job[l] \in Jobs, TypeInv, GroupChatStep(l)
  PROVE  \/ Finish(l)
         \/ \E next \in ChatPcs : \E j : GotoWith(l, next, j) /\ j.conn = job[l].conn
<1>1. CASE GroupChatQuery(l)
  <2>. PICK rest : GotoWith(l, "groupLock", [job[l] EXCEPT !.rest = rest])
    BY <1>1 DEF GroupChatQuery
  <2>1. [job[l] EXCEPT !.rest = rest].conn = job[l].conn /\ "groupLock" \in ChatPcs
    BY DEF Jobs, ChatPcs, GroupChatPcs
  <2>. QED BY <2>1
<1>2. ASSUME NEW u \in Users, GroupChatSend(l, u)
      PROVE  \E next \in ChatPcs : \E j : GotoWith(l, next, j) /\ j.conn = job[l].conn
  <2>1. "groupNext" \in ChatPcs /\ Without(job[l], u).conn = job[l].conn
    BY WithoutType DEF ChatPcs, GroupChatPcs
  <2>. QED BY <1>2, <2>1 DEF GroupChatSend
<1>3. ASSUME NEW u \in Users, GroupChatAbsent(l, u)
      PROVE  \E next \in ChatPcs : \E j : GotoWith(l, next, j) /\ j.conn = job[l].conn
  <2>. PICK k \in Jobs : k = Without(job[l], u) /\ k.conn = job[l].conn
    BY WithoutType
  <2>. PICK next : /\ next \in {"groupPublish", "groupStore"}
                   /\ GotoWith(l, next, [k EXCEPT !.user = u])
    BY <1>3 DEF GroupChatAbsent
  <2>1. next \in ChatPcs /\ [k EXCEPT !.user = u].conn = k.conn
    BY DEF ChatPcs, GroupChatPcs, Jobs
  <2>. QED BY <2>1
<1>. QED BY <1>1, <1>2, <1>3, GotoIs
     DEF GroupChatStep, GroupChatLock, GroupChatPublish, GroupChatStore, GroupChatEnd, ChatPcs, GroupChatPcs

LEMMA GroupChatConn ==
  ASSUME TypeInv, ConnInv, NEW l \in Loops, GroupChatStep(l)
  PROVE  ConnInv'
<1>1. /\ pc[l] \in GroupChatPcs /\ pc[l] \in ChatPcs /\ pc[l] \notin ClosePcs
      /\ UNCHANGED <<terminalVars, userConnMap>>
  BY ChatPcsApart DEF GroupChatStep, GroupChatQuery, GroupChatLock, GroupChatSend, GroupChatAbsent,
     GroupChatPublish, GroupChatStore, GroupChatEnd, GroupChatPcs, ChatPcs, sessionVars
<1>2. job[l].msg \in Msgs /\ job[l] \in Jobs
  BY <1>1 DEF TypeInv, TypeOK, ThreadsTypeOK, JobsOK, JobOK
<1>3. \/ Finish(l)
      \/ \E next \in ChatPcs : \E j : GotoWith(l, next, j) /\ j.conn = job[l].conn
  BY <1>2, GroupChatGoesOn
<1>4. \/ UNCHANGED netVars
      \/ \E d \in Conns, u \in Users : SendFrame(l, d, MsgFrame(u, job[l].msg))
  <2>1. ASSUME NEW u \in Users, GroupChatSend(l, u)
        PROVE  \E d \in Conns : SendFrame(l, d, MsgFrame(u, job[l].msg))
    BY <2>1, EntryIsConn, PlacementAssumption DEF GroupChatSend
  <2>. QED BY <2>1 DEF GroupChatStep, GroupChatQuery, GroupChatLock, GroupChatAbsent,
            GroupChatPublish, GroupChatStore, GroupChatEnd
<1>5. \A c \in Conns : QuietNet(c)
  BY <1>1, <1>2, <1>4, SameNet, MessageNet
<1>. QED BY <1>1, <1>3, <1>5, ChatStays, QuietStep

-----------------------------------------------------------------------------
\* Between two handlers: the next request, the end of the stream, the functors.
LEMMA FreshHandler ==
  ASSUME TypeInv, ConnInv, NEW l \in Loops, NEW c \in Conns, LoopOf[c] = l, pc[l] = "idle",
         NEW next, NEW j, GotoWith(l, next, j), j.conn = c,
         UNCHANGED userConnMap, NEW d \in Conns, d # c, QuietNet(d)
  PROVE  ConnOK(d)'
<1>1. ~At(d, ClosePcs) \/ LoopOf[d] # l
  BY DEF At, ClosePcs
<1>2. QuietThread(d) /\ ClosesOn(d)
  BY <1>1, Moved DEF QuietThread, ClosesOn, At
<1>. QED BY <1>2, SameMap, ConnStays DEF ConnInv

LEMMA MessageConn ==
  ASSUME TypeInv, ConnInv, NEW l \in Loops, NEW c \in Conns, OnMessage(l, c)
  PROVE  ConnInv'
<1>1. /\ pc[l] = "idle" /\ LoopOf[c] = l /\ connected[c]
      /\ request' = [request EXCEPT ![c] = NoRequest]
      /\ UNCHANGED <<clientPc, nread, connected, pending, toClient, userConnMap>>
  BY DEF OnMessage, sessionVars
<1>2. request \in [Conns -> Requests] /\ request[c].kind # "none"
  BY DEF OnMessage, TypeInv, TypeOK, TerminalsTypeOK, RequestsOK
<1>. PICK r \in Requests : r = request[c] /\ r.kind # "none"
  BY <1>2
<1>. PICK u \in Users \cup {None} : u = IF r.kind = "loginout" THEN None ELSE r.user
  BY DEF Requests
<1>. PICK next : next = HandlerOf[r.kind]
  OBVIOUS
<1>3. PICK j : GotoWith(l, next, j) /\ j.conn = c
  <2>1. JobFor(c, u, r.msg, r.password).conn = c
    BY DEF JobFor
  <2>. QED BY <2>1 DEF OnMessage
<1>4. \/ next = "login" /\ r.kind = "login"
      \/ next = "close" /\ r.kind = "loginout"
      \/ next \in {"oneChat", "groupChat"} /\ r.kind \notin {"login", "loginout"}
  BY DEF HandlerOf, Requests
<1>5. ASSUME NEW d \in Conns, d # c PROVE ConnOK(d)'
  <2>1. QuietNet(d)
    BY <1>1, <1>5 DEF QuietNet, Unread, PendingOK, ConnInv, ConnOK
  <2>. QED BY <1>1, <1>3, <1>5, <2>1, FreshHandler
<1>6. ConnOK(c)'
  <2>1. ConnOK(c) /\ ~At(c, ClosePcs) /\ ~At(c, LoginPcs)
    BY <1>1 DEF ConnInv, At, ClosePcs, LoginPcs
  <2>2. pc'[LoopOf[c]] = next /\ job'[LoopOf[c]].conn = c
    BY <1>1, <1>3, Moved
  <2>3. /\ At(c, LoginPcs)' => r.kind = "login"
        /\ At(c, {"login", "loginInsert"})' => r.kind = "login"
        /\ r.kind = "loginout" => At(c, ClosePcs)'
    BY <1>4, <2>2 DEF At, LoginPcs, ClosePcs
  <2>4. request'[c].kind = "none"
    BY <1>1, <1>2 DEF NoRequest
  <2>5. Has(c)' => Has(c)
    BY <1>1 DEF Has
  <2>6. EntryOK(c)'
    BY <1>1, <2>1 DEF ConnOK, EntryOK, ConnServer
  <2>7. LoginOK(c)'
    BY <1>1, <2>1, <2>3, <2>4, <2>5 DEF ConnOK, LoginOK
  <2>8. TerminalOK(c)'
    <3>1. \A i \in Nat : Unread(c, i)' <=> Unread(c, i)
      BY <1>1 DEF Unread
    <3>2. NoLogin(c) => NoLogin(c)'
      BY <2>3, <2>4 DEF NoLogin
    <3>3. clientPc[c] = "menu" /\ Has(c) => At(c, ClosePcs)'
      BY <2>1, <2>3 DEF ConnOK, TerminalOK
    <3>. QED BY <1>1, <2>1, <2>5, <3>1, <3>2, <3>3 DEF ConnOK, TerminalOK
  <2>. QED BY <1>1, <2>1, <2>6, <2>7, <2>8 DEF ConnOK, PendingOK
<1>. QED BY <1>5, <1>6 DEF ConnInv

LEMMA EndConn ==
  ASSUME TypeInv, ConnInv, NEW l \in Loops, NEW c \in Conns, OnClose(l, c)
  PROVE  ConnInv'
<1>1. /\ pc[l] = "idle" /\ LoopOf[c] = l
      /\ clientPc[c] = "closed" /\ request[c] = NoRequest
      /\ connected' = [connected EXCEPT ![c] = FALSE]
      /\ UNCHANGED <<clientPc, request, nread, pending, toClient, userConnMap>>
  BY DEF OnClose, terminalVars, sessionVars
<1>2. connected \in [Conns -> BOOLEAN]
  BY DEF TypeInv, TypeOK, NetTypeOK
<1>3. PICK j : GotoWith(l, "close", j) /\ j.conn = c
  BY JobForType DEF OnClose
<1>4. ASSUME NEW d \in Conns, d # c PROVE ConnOK(d)'
  <2>1. QuietNet(d)
    BY <1>1, <1>2, <1>4 DEF QuietNet, Unread, PendingOK, ConnInv, ConnOK
  <2>. QED BY <1>1, <1>3, <1>4, <2>1, FreshHandler
<1>5. ConnOK(c)'
  <2>1. ConnOK(c)
    BY DEF ConnInv
  <2>2. At(c, ClosePcs)' /\ ~At(c, LoginPcs)' /\ ~At(c, {"login", "loginInsert"})'
    BY <1>1, <1>3, Moved DEF At, ClosePcs, LoginPcs
  <2>3. EntryOK(c)'
    BY <1>1, <2>1, <2>2 DEF ConnOK, EntryOK, ConnServer
  <2>4. LoginOK(c)'
    BY <1>1, <2>2 DEF LoginOK, NoRequest
  <2>5. TerminalOK(c)'
    BY <1>1 DEF TerminalOK
  <2>. QED BY <1>1, <2>1, <2>3, <2>4, <2>5 DEF ConnOK, PendingOK
<1>. QED BY <1>4, <1>5 DEF ConnInv

LEMMA SameThreads == ASSUME UNCHANGED <<pc, job>>, NEW c PROVE QuietThread(c) /\ ClosesOn(c)
BY DEF QuietThread, ClosesOn, At

LEMMA Joined ==
  ASSUME NEW s \in Seq(Frames), NEW t \in Seq(Frames)
  PROVE  /\ Len(s) \in Nat /\ Len(t) \in Nat /\ Len(s \o t) = Len(s) + Len(t)
         /\ \A i \in 1 .. Len(s) : (s \o t)[i] = s[i]
         /\ \A i \in Len(s) + 1 .. Len(s) + Len(t) : (s \o t)[i] = t[i - Len(s)]
         /\ DOMAIN t = 1 .. Len(t)
OBVIOUS

\* What is queued brings no answer into the socket.
LEMMA JoinedUnread ==
  ASSUME NEW s \in Seq(Frames), NEW t \in Seq(Frames), \A k \in DOMAIN t : ~IsAck(t[k]),
         NEW m \in Nat, NEW i \in m + 1 .. Len(s \o t), IsAck((s \o t)[i])
  PROVE  i \in m + 1 .. Len(s) /\ (s \o t)[i] = s[i]
<1>1. PICK n \in Nat, k \in Nat : n = Len(s) /\ k = Len(t)
  BY Joined
<1>2. i \in m + 1 .. n + k /\ i \in Nat
  BY <1>1, Joined
<1>3. ASSUME i \in n + 1 .. n + k PROVE FALSE
  <2>1. i - n \in 1 .. k
    BY <1>1, <1>3
  <2>2. (s \o t)[i] = t[i - n]
    BY <1>1, <1>3, Joined
  <2>. QED BY <1>1, <2>1, <2>2, Joined
<1>4. i \in m + 1 .. n /\ i \in 1 .. n
  BY <1>1, <1>2, <1>3
<1>. QED BY <1>1, <1>4, Joined

LEMMA FunctorsConn ==
  ASSUME TypeInv, ConnInv, NEW l \in Loops, RunPendingFunctors(l)
  PROVE  ConnInv'
<1>. SUFFICES ASSUME NEW c \in Conns PROVE ConnOK(c)'
  BY DEF ConnInv
<1>1. /\ toClient'[c] \in {toClient[c], toClient[c] \o pending[c]}
      /\ pending'[c] \in {pending[c], <<>>}
      /\ UNCHANGED <<terminalVars, connected, threadVars, userConnMap>>
  BY DEF RunPendingFunctors, sessionVars
<1>2. toClient[c] \in Seq(Frames) /\ pending[c] \in Seq(Frames) /\ nread[c] \in Nat
  BY DEF TypeInv, TypeOK, NetTypeOK, TerminalsTypeOK
<1>3. PendingOK(c)
  BY DEF ConnInv, ConnOK
<1>4. ASSUME NEW i \in Nat, Unread(c, i)'
      PROVE  Unread(c, i) /\ toClient'[c][i] = toClient[c][i]
  <2>1. CASE toClient'[c] = toClient[c]
    BY <1>1, <1>4, <2>1 DEF Unread, terminalVars
  <2>2. CASE toClient'[c] = toClient[c] \o pending[c]
    <3>1. i \in nread[c] + 1 .. Len(toClient[c] \o pending[c]) /\ IsAck((toClient[c] \o pending[c])[i])
      BY <1>1, <1>4, <2>2 DEF Unread, terminalVars
    <3>2. \A k \in DOMAIN pending[c] : ~IsAck(pending[c][k])
      BY <1>3 DEF PendingOK
    <3>3. /\ i \in nread[c] + 1 .. Len(toClient[c])
          /\ (toClient[c] \o pending[c])[i] = toClient[c][i]
      BY <1>2, <3>1, <3>2, JoinedUnread
    <3>. QED BY <2>2, <3>1, <3>3 DEF Unread
  <2>. QED BY <1>1, <2>1, <2>2
<1>5. PendingOK(c)'
  BY <1>1, <1>3 DEF PendingOK
<1>6. QuietNet(c)
  BY <1>1, <1>4, <1>5 DEF QuietNet, terminalVars
<1>. QED BY <1>1, <1>6, SameThreads, SameMap, ConnStays DEF ConnInv, threadVars

LEMMA DispatchConn ==
  ASSUME TypeInv, ConnInv, NEW l \in Loops, Dispatch(l)
  PROVE  ConnInv'
BY MessageConn, EndConn, FunctorsConn DEF Dispatch

-----------------------------------------------------------------------------
\* Threads other than the I/O threads.
LEMMA OtherConn ==
  ASSUME ConnInv, UNCHANGED <<pc, job>>,
         \A c \in Conns : QuietNet(c) /\ QuietMap(c)
  PROVE  ConnInv'
BY SameThreads, ConnStays DEF ConnInv

LEMMA ObserveConn ==
  ASSUME TypeInv, ConnInv, NEW s \in Servers, Observe(s)
  PROVE  ConnInv'
<1>1. UNCHANGED <<pc, job, terminalVars, userConnMap>>
  BY DEF Observe, ObserverForward, ObserverStore
<1>2. \/ UNCHANGED netVars
      \/ \E d \in Conns, u \in Users, m \in Msgs : SendFrame("observer", d, MsgFrame(u, m))
  <2>1. CASE ObserverForward(s)
    <3>. PICK letter : letter = Head(push[s])
      OBVIOUS
    <3>1. letter \in Letters
      BY <2>1 DEF ObserverForward, TypeInv, TypeOK, RedisTypeOK
    <3>2. letter.channel \in Users /\ letter.msg \in Msgs
      BY <3>1 DEF Letters
    <3>. QED BY <2>1, <3>2, EntryIsConn DEF ObserverForward
  <2>. QED BY <2>1 DEF Observe, ObserverStore
<1>. QED BY <1>1, <1>2, SameNet, MessageNet, SameMap, OtherConn

LEMMA ProcessEndsConn ==
  ASSUME TypeInv, ConnInv, NEW s \in Servers, ProcessEnds(s)
  PROVE  ConnInv'
<1>. SUFFICES ASSUME NEW c \in Conns PROVE ConnOK(c)'
  BY DEF ConnInv
<1>1. ConnOK(c) /\ LoopOf[c] \in Loops
  BY PlacementAssumption DEF ConnInv
<1>2. /\ userConnMap \in [Servers -> [Users -> Conns \cup {None}]]
      /\ userConnMap' = [userConnMap EXCEPT ![s] = [u \in Users |-> None]]
      /\ UNCHANGED <<toClient, nread>>
  BY DEF TypeInv, TypeOK, SessionsTypeOK, ProcessEnds
<1>3. QuietMap(c)
  BY <1>2, NoneAssumption DEF QuietMap
<1>4. CASE ConnServer(c) # s
  <2>1. /\ pc'[LoopOf[c]] = pc[LoopOf[c]] /\ job'[LoopOf[c]] = job[LoopOf[c]]
        /\ UNCHANGED <<clientPc[c], request[c], pending[c]>>
    BY <1>1, <1>4 DEF ProcessEnds, ConnServer
  <2>2. connected'[c] = connected[c]
    BY <1>4 DEF ProcessEnds, ConnServer, TypeInv, TypeOK, NetTypeOK
  <2>3. QuietNet(c)
    BY <1>1, <1>2, <2>1, <2>2 DEF QuietNet, Unread, PendingOK, ConnOK
  <2>4. QuietThread(c) /\ ClosesOn(c)
    BY <2>1 DEF QuietThread, ClosesOn, At
  <2>. QED BY <1>1, <1>3, <2>3, <2>4, ConnStays
<1>5. CASE ConnServer(c) = s
  <2>1. /\ pc'[LoopOf[c]] = "idle"
        /\ request'[c] = NoRequest /\ pending'[c] = <<>>
        /\ clientPc'[c] = IF clientPc[c] = "off" THEN "off" ELSE "closed"
    BY <1>1, <1>5 DEF ProcessEnds, ConnServer
  <2>2. ~Has(c)'
    BY <1>1, <1>2, <1>5, NoneAssumption DEF Has, ConnOK, EntryOK
  <2>3. ~At(c, LoginPcs)' /\ ~At(c, {"login", "loginInsert"})'
    BY <2>1 DEF At, LoginPcs
  <2>4. EntryOK(c)'
    BY <2>2 DEF EntryOK, Has
  <2>5. LoginOK(c)'
    BY <2>1, <2>3 DEF LoginOK, NoRequest
  <2>6. \A i \in Nat : Unread(c, i)' <=> Unread(c, i)
    BY <1>2 DEF Unread
  <2>7. TerminalOK(c)'
    BY <1>1, <2>1, <2>2, <2>3, <2>6 DEF ConnOK, TerminalOK, NoLogin, NoRequest
  <2>. QED BY <2>1, <2>4, <2>5, <2>7 DEF ConnOK, PendingOK
<1>. QED BY <1>4, <1>5

LEMMA ProcessConn ==
  ASSUME TypeInv, ConnInv, NEW s \in Servers, Sigint(s) \/ Reset(s) \/ Crash(s) \/ Start(s)
  PROVE  ConnInv'
<1>1. CASE Crash(s) \/ ResetExit(s)
  BY <1>1, ProcessEndsConn DEF Crash, ResetExit
<1>2. CASE ResetClear(s)
  <2>1. /\ UNCHANGED <<terminalVars, netVars, pc, job>>
        /\ userConnMap \in [Servers -> [Users -> Conns \cup {None}]]
        /\ userConnMap' = [userConnMap EXCEPT ![s] = [u \in Users |-> None]]
    BY <1>2 DEF ResetClear, UnchangedByReset, TypeInv, TypeOK, SessionsTypeOK
  <2>2. \A c \in Conns : QuietMap(c)
    BY <2>1, NoneAssumption DEF QuietMap
  <2>. QED BY <2>1, <2>2, SameNet, OtherConn
<1>3. CASE Sigint(s) \/ ResetUnsubscribe(s) \/ ResetOffline(s) \/ Start(s)
  <2>1. UNCHANGED <<terminalVars, netVars, pc, job, userConnMap>>
    BY <1>3 DEF Sigint, ResetUnsubscribe, ResetOffline, Start, UnchangedByReset, sessionVars, threadVars
  <2>. QED BY <2>1, SameNet, SameMap, OtherConn
<1>. QED BY <1>1, <1>2, <1>3 DEF Reset

-----------------------------------------------------------------------------
(***************************************************************************)
(* The terminals: c does something, any other connection d is left alone.  *)
(***************************************************************************)
LEMMA OthersConn ==
  ASSUME ConnInv, NEW c \in Conns, UNCHANGED <<pc, job, userConnMap>>,
         \A d \in Conns : d # c => QuietNet(d),
         ConnOK(c)'
  PROVE  ConnInv'
BY SameThreads, SameMap, ConnStays DEF ConnInv

\* The servers stand still, and c has sent or read at most.
TerminalMoves(c) ==
  /\ UNCHANGED <<pc, job, userConnMap, connected, pending, toClient>>
  /\ \A d \in Conns : d # c => UNCHANGED <<clientPc[d], request[d], nread[d]>>

LEMMA MovesConn ==
  ASSUME ConnInv, NEW c \in Conns, TerminalMoves(c), LoginOK(c)', TerminalOK(c)'
  PROVE  ConnInv'
<1>1. \A d \in Conns : d # c => QuietNet(d)
  BY DEF TerminalMoves, QuietNet, Unread, PendingOK, ConnInv, ConnOK
<1>2. EntryOK(c)' /\ PendingOK(c)'
  BY DEF TerminalMoves, EntryOK, ConnServer, At, PendingOK, ConnInv, ConnOK
<1>. QED BY <1>1, <1>2, OthersConn DEF ConnOK, TerminalMoves

LEMMA MovesAt ==
  ASSUME NEW c, TerminalMoves(c)
  PROVE  /\ Has(c)' <=> Has(c)
         /\ At(c, LoginPcs)' <=> At(c, LoginPcs)
         /\ At(c, ClosePcs)' <=> At(c, ClosePcs)
         /\ At(c, {"login", "loginInsert"})' <=> At(c, {"login", "loginInsert"})
         /\ connected'[c] = connected[c]
         /\ nread'[c] = nread[c] => \A i \in Nat : Unread(c, i)' <=> Unread(c, i)
BY DEF TerminalMoves, Has, At, Unread

LEMMA Types ==
  ASSUME TypeInv
  PROVE  /\ clientPc \in [Conns -> {"off", "menu", "waiting", "chatting", "closed"}]
         /\ request \in [Conns -> Requests] /\ nread \in [Conns -> Nat]
         /\ connected \in [Conns -> BOOLEAN]
BY DEF TypeInv, TypeOK, TerminalsTypeOK, NetTypeOK

LEMMA AcceptConn ==
  ASSUME TypeInv, ConnInv, NEW c \in Conns, Accept(c)
  PROVE  ConnInv'
<1>1. /\ clientPc[c] = "off" /\ clientPc' = [clientPc EXCEPT ![c] = "menu"]
      /\ connected' = [connected EXCEPT ![c] = TRUE]
      /\ UNCHANGED <<request, toClient, nread, pending, pc, job, userConnMap>>
  BY DEF Accept, Connect, threadVars, sessionVars
<1>2. \A d \in Conns : d # c => QuietNet(d)
  BY <1>1, Types DEF QuietNet, Unread, PendingOK, ConnInv, ConnOK
<1>3. ConnOK(c) /\ ~Has(c) /\ NoLogin(c) /\ \A i \in Nat : ~Unread(c, i)
  BY <1>1 DEF ConnInv, ConnOK, TerminalOK
<1>4. ~Has(c)' /\ NoLogin(c)' /\ \A i \in Nat : ~Unread(c, i)'
  BY <1>1, <1>3 DEF Has, NoLogin, At, Unread
<1>5. EntryOK(c)'
  BY <1>4 DEF EntryOK, Has
<1>6. LoginOK(c)'
  BY <1>4 DEF LoginOK, NoLogin
<1>7. clientPc'[c] = "menu"
  BY <1>1, Types
<1>8. TerminalOK(c)'
  BY <1>4, <1>7 DEF TerminalOK
<1>9. PendingOK(c)'
  BY <1>1, <1>3 DEF ConnOK, PendingOK
<1>. QED BY <1>1, <1>2, <1>5, <1>6, <1>8, <1>9, OthersConn DEF ConnOK

\* Whatever is sent from the menu or the chat finds no login under way.
LEMMA SendConn ==
  ASSUME TypeInv, ConnInv, NEW c \in Conns, NEW kind, NEW at, NEW r,
         request[c] = NoRequest, request' = [request EXCEPT ![c] = r], r.kind = kind,
         clientPc' = [clientPc EXCEPT ![c] = at], UNCHANGED nread, TerminalMoves(c),
         \/ kind = "login" /\ clientPc[c] = "menu" /\ at = "waiting"
         \/ kind = "loginout" /\ clientPc[c] = "chatting" /\ at = "menu"
         \/ kind \notin {"login", "loginout"} /\ clientPc[c] = "chatting" /\ at = "chatting"
  PROVE  ConnInv'
<1>1. ConnOK(c)
  BY DEF ConnInv
<1>2. request'[c].kind = kind /\ clientPc'[c] = at /\ request[c].kind = "none"
  BY Types DEF NoRequest
<1>3. NoLogin(c) /\ (\A i \in Nat : ~Unread(c, i)) /\ \A i \in Nat : ~Unread(c, i)'
  BY <1>1, MovesAt DEF ConnOK, TerminalOK
<1>4. kind = "login" => (Has(c) => At(c, ClosePcs))
  BY <1>1, <1>2 DEF ConnOK, TerminalOK
<1>5. LoginOK(c)'
  BY <1>1, <1>2, <1>3, <1>4, MovesAt DEF ConnOK, LoginOK, NoLogin
<1>6. TerminalOK(c)'
  BY <1>2, <1>3, MovesAt DEF TerminalOK, NoLogin
<1>. QED BY <1>5, <1>6, MovesConn

LEMMA ReadConn ==
  ASSUME TypeInv, ConnInv, NEW c \in Conns, ReadLoginAck(c), TerminalMoves(c)
  PROVE  ConnInv'
<1>1. PICK i \in nread[c] + 1 .. Len(toClient[c]) :
        /\ IsAck(toClient[c][i]) /\ clientPc[c] = "waiting"
        /\ nread' = [nread EXCEPT ![c] = i] /\ UNCHANGED <<request, toClient>>
        /\ clientPc' = [clientPc EXCEPT ![c] = IF toClient[c][i].kind = "ok" THEN "chatting" ELSE "menu"]
  BY DEF ReadLoginAck
<1>2. ConnOK(c) /\ nread[c] \in Nat /\ toClient[c] \in Seq(Frames)
  BY DEF ConnInv, TypeInv, TypeOK, TerminalsTypeOK, NetTypeOK
<1>3. i \in Nat /\ i \in 1 .. Len(toClient[c]) /\ Unread(c, i)
  BY <1>1, <1>2 DEF Unread
<1>4. NoLogin(c) /\ \A k \in Nat : Unread(c, k) => k = i
  BY <1>1, <1>2, <1>3 DEF ConnOK, TerminalOK
<1>5. toClient[c][i].kind # "ok" => ~Has(c)
  <2>1. toClient[c][i] \in Frames
    BY <1>2, <1>3
  <2>2. toClient[c][i].kind \in {"ok", "refused"}
    BY <1>1, <2>1 DEF Frames, IsAck
  <2>. QED BY <1>1, <1>2, <1>3, <2>2 DEF ConnOK, TerminalOK
<1>6. \A k \in Nat : ~Unread(c, k)'
  <2>. SUFFICES ASSUME NEW k \in Nat, Unread(c, k)' PROVE FALSE
    OBVIOUS
  <2>1. nread'[c] = i
    BY <1>1, Types
  <2>2. k \in i + 1 .. Len(toClient[c]) /\ IsAck(toClient[c][k])
    BY <1>1, <2>1 DEF Unread
  <2>3. k \in nread[c] + 1 .. Len(toClient[c]) /\ k # i
    BY <1>1, <1>2, <1>3, <2>2
  <2>. QED BY <1>4, <2>2, <2>3 DEF Unread
<1>7. clientPc'[c] = IF toClient[c][i].kind = "ok" THEN "chatting" ELSE "menu"
  BY <1>1, Types
<1>8. LoginOK(c)'
  BY <1>1, <1>2, MovesAt DEF ConnOK, LoginOK
<1>9. TerminalOK(c)'
  BY <1>1, <1>4, <1>5, <1>6, <1>7, MovesAt DEF TerminalOK, NoLogin
<1>. QED BY <1>8, <1>9, MovesConn

LEMMA ExitConn ==
  ASSUME TypeInv, ConnInv, NEW c \in Conns, Exit(c), TerminalMoves(c)
  PROVE  ConnInv'
<1>1. /\ clientPc'[c] = "closed"
      /\ request'[c] \in {request[c], NoRequest}
  BY Types DEF Exit
<1>2. ConnOK(c)
  BY DEF ConnInv
<1>3. LoginOK(c)'
  BY <1>1, <1>2, MovesAt DEF ConnOK, LoginOK, NoRequest
<1>4. TerminalOK(c)'
  BY <1>1 DEF TerminalOK
<1>. QED BY <1>3, <1>4, MovesConn

LEMMA RequestKind ==
  ASSUME NEW kind, NEW u, NEW m, NEW p
  PROVE  \E r : r = [kind |-> kind, user |-> u, msg |-> m, password |-> p] /\ r.kind = kind
<1>1. [kind |-> kind, user |-> u, msg |-> m, password |-> p].kind = kind
  OBVIOUS
<1>. WITNESS [kind |-> kind, user |-> u, msg |-> m, password |-> p]
<1>. QED BY <1>1

LEMMA TerminalConn ==
  ASSUME TypeInv, ConnInv, NEW c \in Conns, Terminal(c) \/ \E u \in Users : Login(c, u)
  PROVE  ConnInv'
<1>1. TerminalMoves(c)
  BY Types DEF Terminal, Login, ReadLoginAck, SendChat, SendGroupChat, SendLoginout, SendLogin, Exit, Send,
     ServersIdle, TerminalMoves, threadVars, sessionVars
<1>2. CASE ReadLoginAck(c) \/ Exit(c)
  BY <1>1, <1>2, ReadConn, ExitConn
<1>3. ASSUME NEW u \in Users, NEW p, SendLogin(c, u, p) PROVE ConnInv'
  <2>. PICK r : r = [kind |-> "login", user |-> u, msg |-> None, password |-> p] /\ r.kind = "login"
    BY RequestKind
  <2>. QED BY <1>1, <1>3, SendConn DEF SendLogin, Send
<1>4. ASSUME NEW m \in Chats, SendChat(c, m) PROVE ConnInv'
  <2>. PICK r : /\ r = [kind |-> "oneChat", user |-> AddresseeOf[m], msg |-> m, password |-> None]
                /\ r.kind = "oneChat"
    BY RequestKind
  <2>1. clientPc' = [clientPc EXCEPT ![c] = "chatting"] /\ clientPc[c] = "chatting"
    BY <1>4, Types DEF SendChat
  <2>. QED BY <1>1, <1>4, <2>1, SendConn DEF SendChat, Send
<1>5. ASSUME NEW m \in GroupChats, SendGroupChat(c, m) PROVE ConnInv'
  <2>. PICK r : /\ r = [kind |-> "groupChat", user |-> clientUser[c], msg |-> m, password |-> None]
                /\ r.kind = "groupChat"
    BY RequestKind
  <2>1. clientPc' = [clientPc EXCEPT ![c] = "chatting"] /\ clientPc[c] = "chatting"
    BY <1>5, Types DEF SendGroupChat
  <2>. QED BY <1>1, <1>5, <2>1, SendConn DEF SendGroupChat, Send
<1>6. CASE SendLoginout(c)
  <2>. PICK r : /\ r = [kind |-> "loginout", user |-> clientUser[c], msg |-> None, password |-> None]
                /\ r.kind = "loginout"
    BY RequestKind
  <2>. QED BY <1>1, <1>6, SendConn DEF SendLoginout, Send
<1>. QED BY <1>2, <1>3, <1>4, <1>5, <1>6 DEF Terminal, Login

-----------------------------------------------------------------------------
LEMMA ConnBegins == Init => ConnInv
<1>. SUFFICES ASSUME Init, NEW c \in Conns PROVE ConnOK(c)
  BY DEF ConnInv
<1>1. LoopOf[c] \in Loops
  BY PlacementAssumption
<1>2. /\ pc[LoopOf[c]] = "idle" /\ request[c] = NoRequest /\ clientPc[c] = "off"
      /\ nread[c] = 0 /\ toClient[c] = <<>> /\ pending[c] = <<>>
      /\ \A s \in Servers, u \in Users : userConnMap[s][u] = None
  BY <1>1 DEF Init, TerminalsInit
<1>3. ~Has(c) /\ NoLogin(c) /\ ~At(c, {"login", "loginInsert"})
  BY <1>2, NoneAssumption DEF Has, NoLogin, At, LoginPcs, NoRequest
<1>4. EntryOK(c) /\ LoginOK(c)
  BY <1>3 DEF EntryOK, LoginOK, NoLogin, Has
<1>5. \A i \in Nat : ~Unread(c, i)
  BY <1>2 DEF Unread
<1>. QED BY <1>2, <1>3, <1>4, <1>5 DEF ConnOK, TerminalOK, PendingOK

LEMMA ConnStep == MutexInv /\ ConnInv /\ [Next]_vars => ConnInv'
<1>. SUFFICES ASSUME MutexInv, ConnInv, [Next]_vars PROVE ConnInv'
  OBVIOUS
<1>. TypeInv
  BY DEF MutexInv
<1>1. ASSUME NEW c \in Conns, Accept(c) \/ Terminal(c) \/ \E u \in Users : Login(c, u)
      PROVE  ConnInv'
  BY <1>1, AcceptConn, TerminalConn
<1>2. ASSUME NEW l \in Loops, Dispatch(l) \/ Handle(l) PROVE ConnInv'
  BY <1>2, DispatchConn, LoginConn, CloseConn, OneChatConn, GroupChatConn DEF Handle
<1>3. ASSUME NEW s \in Servers,
             Observe(s) \/ Redis(s) \/ Sigint(s) \/ Reset(s) \/ Crash(s) \/ Start(s)
      PROVE  ConnInv'
  <2>1. CASE Redis(s)
    <3>1. UNCHANGED <<pc, job, terminalVars, netVars, userConnMap>>
      BY <2>1 DEF Redis, ServersIdle, netVars, threadVars, sessionVars
    <3>. QED BY <3>1, SameNet, SameMap, OtherConn
  <2>. QED BY <1>3, <2>1, ObserveConn, ProcessConn
<1>4. CASE UNCHANGED vars
  <2>1. UNCHANGED <<pc, job, terminalVars, netVars, userConnMap>>
    BY <1>4 DEF vars, threadVars, sessionVars
  <2>. QED BY <2>1, SameNet, SameMap, OtherConn
<1>. QED BY <1>1, <1>2, <1>3, <1>4 DEF Next

(***************************************************************************)
(* Where the login of a connection is: for every connection and at every   *)
(* moment, at most one login request, login handler or login answer, none  *)
(* of them while the client is in the menu or chats, and no entry in a map *)
(* before a login's insert (client main.cpp:116, chatservice.cpp:78-81).   *)
(***************************************************************************)
THEOREM ConnCorrect == Spec => [](MutexInv /\ ConnInv)
<1>1. Init => MutexInv /\ ConnInv
  BY TypeInit, MutexInit, ConnBegins DEF MutexInv
<1>2. MutexInv /\ ConnInv /\ [Next]_vars => (MutexInv /\ ConnInv)'
  BY MutexStep, ConnStep
<1>. QED BY <1>1, <1>2, PTL DEF Spec

LEMMA EntryFacts ==
  ASSUME MutexInv, ConnInv, NEW s \in Servers, NEW u \in Users, userConnMap[s][u] # None
  PROVE  EntryOK(userConnMap[s][u])
BY EntryIsConn DEF MutexInv, ConnInv, ConnOK

(***************************************************************************)
(* A connection that is down is in no map, unless its close handler is on  *)
(* the way to remove it: clientCloseException finds every entry it has to  *)
(* (chatserver.cpp:31, chatservice.cpp:188), with every fault.             *)
(***************************************************************************)
THEOREM DeadEntriesGo == Spec => []NoDeadEntry
<1>1. MutexInv /\ ConnInv => NoDeadEntry
  BY EntryFacts DEF NoDeadEntry, EntryOK, At
<1>. QED BY <1>1, ConnCorrect, PTL

(***************************************************************************)
(* No connection is registered for two accounts, whatever logins and       *)
(* logouts went over it: clientCloseException may stop at the first entry  *)
(* (chatservice.cpp:197).                                                  *)
(***************************************************************************)
THEOREM SingleEntry == Spec => []OneEntryPerConnection
<1>1. MutexInv /\ ConnInv => OneEntryPerConnection
  BY EntryFacts DEF OneEntryPerConnection, EntryOK
<1>. QED BY <1>1, ConnCorrect, PTL

-----------------------------------------------------------------------------
(***************************************************************************)
(* A terminal receives messages for the account of its last login only,    *)
(* for every number of servers, threads, terminals and accounts, with      *)
(* every fault.                                                            *)
(*                                                                         *)
(* The entry is in the map before the confirmation is written.  The        *)
(* connection's own I/O thread is in login until then; what other threads  *)
(* send meanwhile is queued in its loop and written after the handler has  *)
(* returned.  What is queued for a session that ends is written at the end *)
(* of the iteration that handles the logout, before the next login of the  *)
(* connection can be read (FlushOK).                                       *)
(***************************************************************************)
\* The frames q of a connection obey FramesFollowTheirLogin.
FollowsLogin(q) ==
  \A i \in DOMAIN q : q[i].kind = "msg" =>
    \E j \in 1 .. i - 1 : /\ q[j].kind = "ok" /\ q[j].user = q[i].user
                          /\ \A k \in j + 1 .. i - 1 : q[k].kind # "ok"

\* The last login confirmed in q is one of u.
LastLogin(q, u) ==
  \E j \in DOMAIN q : /\ q[j].kind = "ok" /\ q[j].user = u
                      /\ \A k \in DOMAIN q : k > j => q[k].kind # "ok"

\* What is sent through c for u may reach the socket when the handler of c returns.
For(c, u) ==
  IF At(c, LoginPcs) THEN ~At(c, {"login", "loginInsert"}) /\ job[LoopOf[c]].user = u
  ELSE LastLogin(toClient[c], u)

\* Who has something for c between two events of c will not log in with the next.
Resting(c) ==
  /\ request[c].kind # "login"
  /\ clientPc[c] = "menu" => request[c].kind = "loginout"
  /\ clientPc[c] = "waiting" => \A i \in Nat : Unread(c, i) => toClient[c][i].kind # "refused"

BusyOK(c) == At(c, Pcs \ {"idle"}) => served[c]
FlushOK(c) == pending[c] # <<>> => clientPc[c] # "off" /\ (served[c] \/ Resting(c))
EntriesFor(c) == \A s \in Servers, u \in Users : userConnMap[s][u] = c => For(c, u)
PendingFor(c) == \A i \in DOMAIN pending[c] : For(c, pending[c][i].user)

FramesOK(c) ==
  /\ FollowsLogin(toClient[c]) /\ EntriesFor(c) /\ PendingFor(c)
  /\ BusyOK(c) /\ FlushOK(c)

FramesInv == \A c \in Conns : FramesOK(c)

-----------------------------------------------------------------------------
(***************************************************************************)
(* Sequences of frames.                                                    *)
(***************************************************************************)
LEMMA FrameAppended ==
  ASSUME NEW q \in Seq(Frames), NEW f \in Frames, FollowsLogin(q),
         f.kind = "msg" => LastLogin(q, f.user)
  PROVE  /\ FollowsLogin(Append(q, f))
         /\ f.kind = "ok" => LastLogin(Append(q, f), f.user)
         /\ f.kind # "ok" => \A u : LastLogin(q, u) => LastLogin(Append(q, f), u)
<1>. PICK n \in Nat, r \in Seq(Frames) : n = Len(q) /\ r = Append(q, f)
  BY Appended
<1>1. /\ DOMAIN q = 1 .. n /\ DOMAIN r = 1 .. n + 1 /\ r[n + 1] = f
      /\ \A i \in 1 .. n : r[i] = q[i]
  BY Appended
<1>2. f.kind = "ok" => LastLogin(r, f.user)
  BY <1>1 DEF LastLogin
<1>3. ASSUME f.kind # "ok", NEW u, LastLogin(q, u) PROVE LastLogin(r, u)
  <2>1. PICK j \in 1 .. n : /\ q[j].kind = "ok" /\ q[j].user = u
                            /\ \A k \in 1 .. n : k > j => q[k].kind # "ok"
    BY <1>1, <1>3 DEF LastLogin
  <2>2. \A k \in 1 .. n + 1 : k > j => r[k].kind # "ok"
    BY <1>1, <1>3, <2>1
  <2>. QED BY <1>1, <2>1, <2>2 DEF LastLogin
<1>4. ASSUME NEW i \in 1 .. n + 1, r[i].kind = "msg"
      PROVE  \E j \in 1 .. i - 1 : /\ r[j].kind = "ok" /\ r[j].user = r[i].user
                                   /\ \A k \in j + 1 .. i - 1 : r[k].kind # "ok"
  <2>1. CASE i = n + 1
    <3>1. PICK j \in 1 .. n : /\ q[j].kind = "ok" /\ q[j].user = f.user
                              /\ \A k \in 1 .. n : k > j => q[k].kind # "ok"
      BY <1>1, <1>4, <2>1 DEF LastLogin
    <3>. QED BY <1>1, <2>1, <3>1
  <2>2. CASE i \in 1 .. n
    <3>1. PICK j \in 1 .. i - 1 : /\ q[j].kind = "ok" /\ q[j].user = q[i].user
                                  /\ \A k \in j + 1 .. i - 1 : q[k].kind # "ok"
      BY <1>1, <1>4, <2>2 DEF FollowsLogin
    <3>. QED BY <1>1, <2>2, <3>1
  <2>. QED BY <2>1, <2>2
<1>. QED BY <1>1, <1>2, <1>3, <1>4 DEF FollowsLogin

LEMMA FramesJoined ==
  ASSUME NEW q \in Seq(Frames), NEW t \in Seq(Frames), FollowsLogin(q),
         \A k \in DOMAIN t : t[k].kind = "msg" /\ LastLogin(q, t[k].user)
  PROVE  FollowsLogin(q \o t) /\ \A u : LastLogin(q, u) => LastLogin(q \o t, u)
<1>. PICK n \in Nat, m \in Nat, r \in Seq(Frames) : n = Len(q) /\ m = Len(t) /\ r = q \o t
  <2>1. q \o t \in Seq(Frames)
    OBVIOUS
  <2>. QED BY <2>1, Joined
<1>1. /\ DOMAIN q = 1 .. n /\ DOMAIN r = 1 .. n + m /\ DOMAIN t = 1 .. m
      /\ \A i \in 1 .. n : r[i] = q[i]
      /\ \A i \in 1 .. n : i \in 1 .. n + m
      /\ \A i \in n + 1 .. n + m : i - n \in 1 .. m /\ r[i] = t[i - n]
  BY Joined
<1>2. ASSUME NEW i \in n + 1 .. n + m
      PROVE  r[i].kind = "msg" /\ \E v : v = r[i].user /\ LastLogin(q, v)
  <2>. PICK k \in DOMAIN t : r[i] = t[k]
    BY <1>1
  <2>. PICK v : v = t[k].user
    OBVIOUS
  <2>. QED OBVIOUS
<1>3. ASSUME NEW u, LastLogin(q, u) PROVE LastLogin(r, u)
  <2>0. DOMAIN q = 1 .. n
    BY <1>1
  <2>1. PICK j \in 1 .. n : /\ q[j].kind = "ok" /\ q[j].user = u
                            /\ \A k \in 1 .. n : k > j => q[k].kind # "ok"
    BY ONLY <2>0, <1>3 DEF LastLogin
  <2>2. \A k \in 1 .. n + m : k > j => r[k].kind # "ok"
    BY <1>1, <1>2, <2>1
  <2>. QED BY <1>1, <2>1, <2>2 DEF LastLogin
<1>4. ASSUME NEW i \in 1 .. n + m, r[i].kind = "msg"
      PROVE  \E j \in 1 .. i - 1 : /\ r[j].kind = "ok" /\ r[j].user = r[i].user
                                   /\ \A k \in j + 1 .. i - 1 : r[k].kind # "ok"
  <2>1. CASE i \in n + 1 .. n + m
    <3>0. PICK v : v = r[i].user /\ LastLogin(q, v)
      BY <1>2, <2>1
    <3>1. PICK j \in 1 .. n : /\ q[j].kind = "ok" /\ q[j].user = v
                              /\ \A k \in 1 .. n : k > j => q[k].kind # "ok"
      <4>1. PICK j \in DOMAIN q : /\ q[j].kind = "ok" /\ q[j].user = v
                                 /\ \A k \in DOMAIN q : k > j => q[k].kind # "ok"
        BY <3>0 DEF LastLogin
      <4>. QED BY <1>1, <4>1
    <3>2. \A k \in j + 1 .. i - 1 : r[k].kind # "ok"
      BY <1>1, <1>2, <2>1, <3>1
    <3>3. j \in 1 .. i - 1 /\ r[j] = q[j]
      BY <1>1, <2>1
    <3>. QED BY <3>0, <3>1, <3>2, <3>3
  <2>2. CASE i \in 1 .. n
    <3>1. PICK j \in 1 .. i - 1 : /\ q[j].kind = "ok" /\ q[j].user = q[i].user
                                  /\ \A k \in j + 1 .. i - 1 : q[k].kind # "ok"
      BY <1>1, <1>4, <2>2 DEF FollowsLogin
    <3>2. r[i] = q[i] /\ r[j] = q[j] /\ \A k \in j + 1 .. i - 1 : r[k] = q[k]
      BY <1>1, <2>2
    <3>3. \A k \in j + 1 .. i - 1 : r[k].kind # "ok"
      BY <3>1, <3>2
    <3>. QED BY <3>1, <3>2, <3>3
  <2>3. i \in n + 1 .. n + m \/ i \in 1 .. n
    OBVIOUS
  <2>. QED BY <2>1, <2>2, <2>3
<1>. QED BY <1>1, <1>3, <1>4 DEF FollowsLogin

-----------------------------------------------------------------------------
(***************************************************************************)
(* What a step leaves to a connection.                                     *)
(***************************************************************************)
KeepsFor(c) == \A u \in Users : For(c, u) => For(c, u)'

\* A step that sends nothing to c.
LEMMA FramesStay ==
  ASSUME NEW c, FramesOK(c), KeepsFor(c), QuietMap(c), BusyOK(c)', FlushOK(c)',
         toClient'[c] = toClient[c],
         pending'[c] \in {pending[c], <<>>}, \A i \in DOMAIN pending[c] : pending[c][i].user \in Users
  PROVE  FramesOK(c)'
<1>1. EntriesFor(c)'
  BY DEF FramesOK, EntriesFor, KeepsFor, QuietMap
<1>2. PendingFor(c)'
  BY DEF FramesOK, PendingFor, KeepsFor
<1>. QED BY <1>1, <1>2 DEF FramesOK

\* While c has an entry it is Resting, or in the event that ends it.
LEMMA EntryIsResting ==
  ASSUME NEW c, ConnOK(c), BusyOK(c), Has(c)
  PROVE  clientPc[c] # "off" /\ (served[c] \/ Resting(c))
<1>1. At(c, ClosePcs) => served[c]
  BY DEF At, ClosePcs, Pcs, BusyOK
<1>. QED BY <1>1 DEF ConnOK, LoginOK, TerminalOK, Resting

LEMMA StaysResting ==
  ASSUME NEW c, QuietNet(c), served'[c] = served[c], clientPc[c] # "off" /\ (served[c] \/ Resting(c))
  PROVE  clientPc'[c] # "off" /\ (served'[c] \/ Resting(c)')
BY DEF QuietNet, Resting

\* The handler of c stays in login, for the same account, or outside of it.
SameLogin(c) ==
  /\ At(c, LoginPcs)' <=> At(c, LoginPcs)
  /\ At(c, {"login", "loginInsert"})' => At(c, {"login", "loginInsert"})
  /\ At(c, LoginPcs) => job'[LoopOf[c]].user = job[LoopOf[c]].user

LEMMA SameFor ==
  ASSUME NEW c, SameLogin(c), toClient'[c] = toClient[c]
  PROVE  KeepsFor(c)
BY DEF SameLogin, KeepsFor, For

LEMMA FlushStays ==
  ASSUME NEW c, FlushOK(c), QuietNet(c), served'[c] = served[c], pending'[c] \in {pending[c], <<>>}
  PROVE  FlushOK(c)'
BY StaysResting DEF FlushOK

\* A handler goes on: inside login for the same account, or outside of it.
GoesOnFor(l, next, j) ==
  /\ j.conn = job[l].conn /\ pc[l] # "idle"
  /\ next \in LoginPcs <=> pc[l] \in LoginPcs
  /\ next \in {"login", "loginInsert"} => pc[l] \in {"login", "loginInsert"}
  /\ pc[l] \in LoginPcs => j.user = job[l].user

Walks(l) ==
  \/ \E next, j : GotoWith(l, next, j) /\ GoesOnFor(l, next, j)
  \/ Finish(l) /\ pc[l] \notin LoginPcs

LEMMA WalkThread ==
  ASSUME TypeInv, NEW l \in Loops, Walks(l), NEW c \in Conns, BusyOK(c), served'[c] = served[c]
  PROVE  SameLogin(c) /\ BusyOK(c)'
<1>1. CASE Finish(l) /\ pc[l] \notin LoginPcs
  <2>1. GotoWith(l, "idle", NoJob) /\ "idle" \notin LoginPcs /\ "idle" \notin {"login", "loginInsert"}
    BY <1>1 DEF Finish, LoginPcs
  <2>. QED BY <1>1, <2>1, Moved DEF SameLogin, BusyOK, At
<1>2. ASSUME NEW next, NEW j, GotoWith(l, next, j), GoesOnFor(l, next, j)
      PROVE  SameLogin(c) /\ BusyOK(c)'
  <2>1. pc[l] \in Pcs \ {"idle"}
    BY <1>2 DEF GoesOnFor, TypeInv, TypeOK, ThreadsTypeOK
  <2>. QED BY <1>2, <2>1, Moved DEF GoesOnFor, SameLogin, BusyOK, At
<1>. QED BY <1>1, <1>2 DEF Walks

LEMMA PendingUsers ==
  ASSUME TypeInv, NEW c \in Conns
  PROVE  /\ pending[c] \in Seq(Frames) /\ toClient[c] \in Seq(Frames)
         /\ \A i \in DOMAIN pending[c] : pending[c][i].user \in Users
<1>1. pending[c] \in Seq(Frames) /\ toClient[c] \in Seq(Frames)
  BY DEF TypeInv, TypeOK, NetTypeOK
<1>2. ASSUME NEW i \in DOMAIN pending[c] PROVE pending[c][i].user \in Users
  <2>1. pending[c][i] \in Frames
    BY <1>1
  <2>. QED BY <2>1 DEF Frames
<1>. QED BY <1>1, <1>2

\* A handler goes on and sends nothing.
LEMMA WalkFrames ==
  ASSUME TypeInv, ConnInv, FramesInv, NEW l \in Loops, Walks(l),
         UNCHANGED <<terminalVars, netVars>>, \A c \in Conns : QuietMap(c)
  PROVE  FramesInv'
<1>. SUFFICES ASSUME NEW c \in Conns PROVE FramesOK(c)'
  BY DEF FramesInv
<1>1. FramesOK(c) /\ BusyOK(c) /\ FlushOK(c)
  BY DEF FramesInv, FramesOK
<1>2. UNCHANGED <<toClient, pending, served>>
  BY DEF netVars
<1>3. SameLogin(c) /\ BusyOK(c)'
  BY <1>1, <1>2, WalkThread
<1>4. FlushOK(c)'
  BY <1>1, <1>2, SameNet, FlushStays
<1>. QED BY <1>1, <1>2, <1>3, <1>4, SameFor, PendingUsers, FramesStay

-----------------------------------------------------------------------------
(***************************************************************************)
(* A message for u through the entry of u, by whatever thread.             *)
(***************************************************************************)
LEMMA MessageFrames ==
  ASSUME TypeInv, ConnInv, FramesInv, UNCHANGED <<terminalVars, userConnMap>>,
         NEW t, NEW s \in Servers, NEW u \in Users, NEW m \in Msgs, NEW d \in Conns,
         userConnMap[s][u] = d, SendFrame(t, d, MsgFrame(u, m)),
         \A c \in Conns : SameLogin(c) /\ BusyOK(c)',
         t = LoopOf[d] => ~At(d, LoginPcs)
  PROVE  FramesInv'
<1>. PICK f \in Frames : f = MsgFrame(u, m) /\ f.kind = "msg" /\ f.user = u
  BY MsgFrameType DEF MsgFrame
<1>1. \A c \in Conns : FramesOK(c) /\ ConnOK(c) /\ BusyOK(c) /\ FlushOK(c)
  BY DEF FramesInv, FramesOK, ConnInv
<1>2. \A c \in Conns : QuietNet(c)
  BY MessageNet
<1>3. UNCHANGED served /\ \A c \in Conns : QuietMap(c)
  BY SameMap DEF SendFrame
<1>4. /\ toClient \in [Conns -> Seq(Frames)] /\ pending \in [Conns -> Seq(Frames)]
      /\ toClient[d] \in Seq(Frames) /\ pending[d] \in Seq(Frames)
  BY DEF TypeInv, TypeOK, NetTypeOK
<1>5. ASSUME NEW c \in Conns, toClient'[c] = toClient[c], pending'[c] = pending[c]
      PROVE  FramesOK(c)'
  <2>1. FlushOK(c)' /\ KeepsFor(c)
    BY <1>1, <1>2, <1>3, <1>5, FlushStays, SameFor
  <2>. QED BY <1>1, <1>3, <1>5, <2>1, PendingUsers, FramesStay
<1>6. ASSUME NEW c \in Conns, c # d PROVE FramesOK(c)'
  BY <1>4, <1>5, <1>6 DEF SendFrame
<1>7. For(d, u) /\ Has(d)
  BY <1>1 DEF FramesOK, EntriesFor, Has
<1>8. CASE connected[d] /\ t = LoopOf[d]
  <2>1. pending'[d] = pending[d] /\ toClient'[d] = Append(toClient[d], f)
    BY <1>4, <1>8 DEF SendFrame
  <2>2. ~At(d, LoginPcs) /\ ~At(d, LoginPcs)' /\ LastLogin(toClient[d], u)
    BY <1>7, <1>8 DEF For, SameLogin
  <2>3. /\ FollowsLogin(toClient'[d])
        /\ \A v : LastLogin(toClient[d], v) => LastLogin(toClient'[d], v)
    BY <1>1, <1>4, <2>1, <2>2, FrameAppended DEF FramesOK
  <2>4. KeepsFor(d)
    BY <2>2, <2>3 DEF KeepsFor, For
  <2>5. FlushOK(d)'
    BY <1>1, <1>2, <1>3, <2>1, FlushStays
  <2>6. EntriesFor(d)'
    BY <1>1, <2>4 DEF FramesOK, EntriesFor, KeepsFor
  <2>7. PendingFor(d)'
    BY <1>1, <2>1, <2>4, PendingUsers DEF FramesOK, PendingFor, KeepsFor
  <2>. QED BY <1>6, <2>3, <2>5, <2>6, <2>7 DEF FramesOK, FramesInv
<1>9. CASE connected[d] /\ t # LoopOf[d]
  <2>1. pending'[d] = Append(pending[d], f) /\ toClient'[d] = toClient[d]
    BY <1>4, <1>9 DEF SendFrame
  <2>2. KeepsFor(d)
    BY <2>1, SameFor
  <2>3. EntriesFor(d)' /\ FollowsLogin(toClient'[d])
    BY <1>1, <2>1, <2>2 DEF FramesOK, EntriesFor, KeepsFor
  <2>4. PendingFor(d)'
    <3>. SUFFICES ASSUME NEW i \in DOMAIN pending'[d], NEW v, v = pending'[d][i].user
                  PROVE  For(d, v)'
      BY DEF PendingFor
    <3>1. pending'[d][i] = f \/ (i \in DOMAIN pending[d] /\ pending'[d][i] = pending[d][i])
      BY <1>4, <2>1
    <3>2. CASE pending'[d][i] = f
      BY <1>7, <2>2, <3>2 DEF KeepsFor
    <3>3. CASE i \in DOMAIN pending[d] /\ pending'[d][i] = pending[d][i]
      <4>1. For(d, v) /\ v \in Users
        BY <1>1, <3>3, PendingUsers DEF FramesOK, PendingFor
      <4>. QED BY <2>2, <3>3, <4>1 DEF KeepsFor
    <3>. QED BY <3>1, <3>2, <3>3
  <2>5. FlushOK(d)'
    BY <1>1, <1>2, <1>3, <1>7, EntryIsResting, StaysResting DEF FlushOK
  <2>. QED BY <1>6, <2>3, <2>4, <2>5 DEF FramesOK, FramesInv
<1>10. CASE ~connected[d]
  BY <1>5, <1>6, <1>10 DEF SendFrame, FramesInv
<1>. QED BY <1>8, <1>9, <1>10

-----------------------------------------------------------------------------
(***************************************************************************)
(* login                                                                   *)
(***************************************************************************)
LEMMA InsertFrames ==
  ASSUME TypeInv, ConnInv, FramesInv, NEW l \in Loops, LoginInsert(l)
  PROVE  FramesInv'
<1>. PICK d \in Conns : d = job[l].conn /\ LoopOf[d] = l
  BY DEF LoginInsert, TypeInv, JobsOK, JobOK
<1>. PICK w \in Users : w = job[l].user
  BY DEF LoginInsert, TypeInv, JobsOK, JobOK, LoginPcs
<1>. PICK s \in Servers : s = ServerOf[l]
  BY PlacementAssumption
<1>1. /\ GotoWith(l, "loginSubscribe", job[l]) /\ pc[l] = "loginInsert"
      /\ userConnMap' = [userConnMap EXCEPT ![s][w] = IF @ = None THEN d ELSE @]
      /\ UNCHANGED <<terminalVars, netVars, toClient, pending, served>>
  BY GotoIs DEF LoginInsert, netVars
<1>2. userConnMap \in [Servers -> [Users -> Conns \cup {None}]]
  BY DEF TypeInv, TypeOK, SessionsTypeOK
<1>3. \A c \in Conns : FramesOK(c) /\ ConnOK(c) /\ BusyOK(c) /\ FlushOK(c)
  BY DEF FramesInv, FramesOK, ConnInv
<1>4. Walks(l)
  BY <1>1 DEF Walks, GoesOnFor, LoginPcs
<1>5. \A c \in Conns : SameLogin(c) /\ BusyOK(c)' /\ FlushOK(c)'
  BY <1>1, <1>3, <1>4, WalkThread, SameNet, FlushStays
<1>6. ASSUME NEW c \in Conns, c # d PROVE FramesOK(c)'
  <2>1. QuietMap(c)
    BY <1>1, <1>2, <1>6 DEF QuietMap
  <2>. QED BY <1>1, <1>3, <1>5, <2>1, SameFor, PendingUsers, FramesStay
<1>7. FramesOK(d)'
  <2>1. At(d, LoginPcs) /\ At(d, {"login", "loginInsert"})
    BY <1>1 DEF At, LoginPcs
  <2>2. ~Has(d) /\ \A u : ~For(d, u)
    BY <1>3, <2>1 DEF ConnOK, LoginOK, For
  <2>3. PendingFor(d)' /\ FollowsLogin(toClient'[d])
    BY <1>1, <1>3, <2>2 DEF FramesOK, PendingFor
  <2>4. \A t \in Servers, u \in Users : userConnMap'[t][u] = d => u = w
    BY <1>1, <1>2, <2>2 DEF Has
  <2>5. pc'[LoopOf[d]] = "loginSubscribe" /\ job'[LoopOf[d]] = job[l]
    BY <1>1, Moved
  <2>6. For(d, w)'
    BY <2>5 DEF For, At, LoginPcs
  <2>7. EntriesFor(d)'
    BY <2>4, <2>6 DEF EntriesFor
  <2>. QED BY <1>5, <2>3, <2>7 DEF FramesOK
<1>. QED BY <1>6, <1>7 DEF FramesInv

\* The answer to a login, after which c belongs to the account it is for.
LEMMA AnswerFrames ==
  ASSUME TypeInv, ConnInv, FramesInv, NEW l \in Loops, pc[l] \in LoginPcs,
         NEW f \in Frames, SendFrame(l, job[l].conn, f), Finish(l),
         \/ f.kind = "refused" /\ pc[l] = "login"
         \/ f.kind = "ok" /\ f.user = job[l].user,
         UNCHANGED <<terminalVars, userConnMap>>
  PROVE  FramesInv'
<1>. PICK d \in Conns : d = job[l].conn /\ LoopOf[d] = l
  BY DEF TypeInv, JobsOK, JobOK, LoginPcs
<1>1. \A c \in Conns : FramesOK(c) /\ ConnOK(c) /\ BusyOK(c) /\ FlushOK(c) /\ QuietMap(c)
  BY SameMap DEF FramesInv, FramesOK, ConnInv
<1>2. connected[d] /\ At(d, LoginPcs)
  BY <1>1 DEF ConnOK, LoginOK, At
<1>3. /\ toClient' = [toClient EXCEPT ![d] = Append(@, f)]
      /\ UNCHANGED <<pending, served, connected, clientPc, request, nread>>
  BY <1>2 DEF SendFrame, terminalVars
<1>4. toClient \in [Conns -> Seq(Frames)] /\ toClient[d] \in Seq(Frames)
  BY DEF TypeInv, TypeOK, NetTypeOK
<1>5. GotoWith(l, "idle", NoJob) /\ "idle" \notin LoginPcs
  BY DEF Finish, LoginPcs
<1>6. ASSUME NEW c \in Conns, c # d PROVE FramesOK(c)'
  <2>1. toClient'[c] = toClient[c]
    BY <1>3, <1>4, <1>6
  <2>2. QuietNet(c)
    BY <1>1, <1>3, <2>1 DEF QuietNet, Unread, PendingOK, ConnOK
  <2>3. SameLogin(c) /\ BusyOK(c)'
    <3>1. CASE LoopOf[c] = l
      <4>1. pc'[LoopOf[c]] = "idle" /\ \A at : ~At(c, at)
        BY <1>5, <1>6, <3>1, Moved DEF At
      <4>. QED BY <4>1 DEF SameLogin, BusyOK, At, LoginPcs
    <3>2. CASE LoopOf[c] # l
      BY <1>1, <1>3, <1>5, <3>2, Moved DEF SameLogin, BusyOK, At
    <3>. QED BY <3>1, <3>2
  <2>4. FlushOK(c)'
    BY <1>1, <1>3, <2>2, FlushStays
  <2>. QED BY <1>1, <1>3, <2>1, <2>3, <2>4, SameFor, PendingUsers, FramesStay
<1>7. FramesOK(d)'
  <2>1. toClient'[d] = Append(toClient[d], f)
    BY <1>3, <1>4
  <2>2. FollowsLogin(toClient'[d]) /\ (f.kind = "ok" => LastLogin(toClient'[d], f.user))
    BY <1>1, <1>4, <2>1, FrameAppended DEF FramesOK
  <2>3. pc'[LoopOf[d]] = "idle" /\ ~At(d, LoginPcs)'
    BY <1>5, Moved DEF At
  <2>4. KeepsFor(d)
    <3>1. CASE f.kind = "refused" /\ pc[l] = "login"
      BY <1>2, <3>1 DEF KeepsFor, For, At
    <3>2. CASE f.kind = "ok" /\ f.user = job[l].user
      BY <1>2, <2>2, <2>3, <3>2 DEF KeepsFor, For
    <3>. QED BY <3>1, <3>2
  <2>5. EntriesFor(d)'
    BY <1>1, <2>4 DEF FramesOK, EntriesFor, KeepsFor, QuietMap
  <2>6. PendingFor(d)'
    BY <1>1, <1>3, <2>4, PendingUsers DEF FramesOK, PendingFor, KeepsFor
  <2>7. served[d]
    BY <1>1, <1>2 DEF BusyOK, At, LoginPcs, Pcs
  <2>8. BusyOK(d)' /\ FlushOK(d)'
    BY <1>1, <1>3, <2>3, <2>7 DEF BusyOK, At, FlushOK
  <2>. QED BY <2>2, <2>5, <2>6, <2>8 DEF FramesOK
<1>. QED BY <1>6, <1>7 DEF FramesInv

LEMMA LoginFrames ==
  ASSUME TypeInv, ConnInv, FramesInv, NEW l \in Loops, LoginStep(l)
  PROVE  FramesInv'
<1>1. CASE LoginInsert(l)
  BY <1>1, InsertFrames
<1>2. CASE LoginRefuse(l) \/ LoginAck(l)
  <2>. PICK w \in Users : w = job[l].user
    BY <1>2 DEF LoginRefuse, LoginAck, TypeInv, JobsOK, JobOK, LoginPcs
  <2>1. job[l].msgs \in Seq(Msgs)
    BY DEF TypeInv, TypeOK, ThreadsTypeOK, Jobs
  <2>2. PICK kind \in {"ok", "refused"}, ms \in Seq(Msgs) :
          /\ SendFrame(l, job[l].conn, AckFrame(kind, w, ms))
          /\ kind = "refused" => pc[l] = "login"
    BY <1>2, <2>1, EmptySeqType DEF LoginRefuse, LoginAck
  <2>. PICK f \in Frames : f = AckFrame(kind, w, ms) /\ f.kind = kind /\ f.user = w
    BY AckFrameType DEF AckFrame
  <2>3. pc[l] \in LoginPcs /\ Finish(l) /\ UNCHANGED <<terminalVars, userConnMap>>
    BY <1>2 DEF LoginRefuse, LoginAck, LoginPcs, sessionVars
  <2>. QED BY <2>2, <2>3, AnswerFrames
<1>3. CASE LoginAccept(l) \/ LoginSubscribe(l) \/ LoginOnline(l) \/ LoginReadOffline(l) \/ LoginRemoveOffline(l)
  <2>1. UNCHANGED <<terminalVars, netVars, userConnMap>>
    BY <1>3 DEF LoginAccept, LoginSubscribe, LoginOnline, LoginReadOffline, LoginRemoveOffline, sessionVars
  <2>2. Walks(l)
    <3>1. CASE LoginReadOffline(l)
      <4>. PICK rows, next : /\ GotoWith(l, next, [job[l] EXCEPT !.msgs = rows])
                             /\ next \in {"loginRemoveOffline", "loginAck"} /\ pc[l] = "loginReadOffline"
        BY <3>1 DEF LoginReadOffline
      <4>. PICK j : j = [job[l] EXCEPT !.msgs = rows] /\ j.conn = job[l].conn /\ j.user = job[l].user
        <5>1. job[l] \in Jobs
          BY DEF TypeInv, TypeOK, ThreadsTypeOK
        <5>2. /\ [job[l] EXCEPT !.msgs = rows].conn = job[l].conn
              /\ [job[l] EXCEPT !.msgs = rows].user = job[l].user
          BY <5>1 DEF Jobs
        <5>. QED BY <5>2
      <4>. QED BY DEF Walks, GoesOnFor, LoginPcs
    <3>2. CASE ~LoginReadOffline(l)
      BY <1>3, <3>2, GotoIs DEF LoginAccept, LoginSubscribe, LoginOnline, LoginRemoveOffline,
           Walks, GoesOnFor, LoginPcs
    <3>. QED BY <3>1, <3>2
  <2>. QED BY <2>1, <2>2, SameMap, WalkFrames
<1>. QED BY <1>1, <1>2, <1>3 DEF LoginStep

-----------------------------------------------------------------------------
(***************************************************************************)
(* clientCloseException, oneChat, groupChat                                *)
(***************************************************************************)
LEMMA CloseFrames ==
  ASSUME TypeInv, ConnInv, FramesInv, NEW l \in Loops, CloseStep(l)
  PROVE  FramesInv'
<1>1. UNCHANGED <<terminalVars, netVars>> /\ pc[l] \in ClosePcs
  BY DEF CloseStep, CloseFind, CloseNothing, CloseUnsubscribe, CloseOffline, CloseErase, sessionVars, ClosePcs
<1>2. pc[l] \notin LoginPcs /\ pc[l] # "idle" /\ \A next \in ClosePcs : next \notin LoginPcs
  BY <1>1 DEF LoginPcs, ClosePcs
<1>3. \A c \in Conns : QuietMap(c)
  <2>1. CASE CloseErase(l)
    <3>1. userConnMap' = [userConnMap EXCEPT ![ServerOf[l]][job[l].user] = None]
      BY <2>1 DEF CloseErase
    <3>. QED BY <3>1, NoneAssumption DEF QuietMap, TypeInv, TypeOK, SessionsTypeOK
  <2>. QED BY <2>1, SameMap DEF CloseStep, CloseFind, CloseNothing, CloseUnsubscribe, CloseOffline, sessionVars
<1>4. Walks(l)
  <2>1. CASE CloseFind(l)
    <3>. PICK u : GotoWith(l, "closeUnsubscribe", [job[l] EXCEPT !.user = u])
      BY <2>1 DEF CloseFind
    <3>. PICK j : j = [job[l] EXCEPT !.user = u] /\ j.conn = job[l].conn
      <4>1. job[l] \in Jobs
        BY DEF TypeInv, TypeOK, ThreadsTypeOK
      <4>2. [job[l] EXCEPT !.user = u].conn = job[l].conn
        BY <4>1 DEF Jobs
      <4>. QED BY <4>2
    <3>. QED BY <1>2 DEF Walks, GoesOnFor, LoginPcs, ClosePcs
  <2>2. CASE CloseUnsubscribe(l) \/ CloseOffline(l)
    BY <1>2, <2>2, GotoIs DEF CloseUnsubscribe, CloseOffline, Walks, GoesOnFor, LoginPcs, ClosePcs
  <2>3. CASE CloseNothing(l) \/ CloseErase(l)
    BY <1>2, <2>3 DEF CloseNothing, CloseErase, Walks
  <2>. QED BY <2>1, <2>2, <2>3 DEF CloseStep
<1>. QED BY <1>1, <1>3, <1>4, WalkFrames

\* What a thread at chat does, it does outside of login.
LEMMA ChatFrames ==
  ASSUME TypeInv, ConnInv, FramesInv, NEW l \in Loops, pc[l] \in ChatPcs,
         UNCHANGED <<terminalVars, userConnMap>>,
         \/ Finish(l)
         \/ \E next \in ChatPcs : \E j : GotoWith(l, next, j) /\ j.conn = job[l].conn,
         \/ UNCHANGED netVars
         \/ \E s \in Servers, u \in Users, m \in Msgs : \E d \in Conns :
              userConnMap[s][u] = d /\ SendFrame(l, d, MsgFrame(u, m))
  PROVE  FramesInv'
<1>1. pc[l] \notin LoginPcs /\ pc[l] # "idle" /\ \A next \in ChatPcs : next \notin {"login", "loginInsert"}
  BY ChatPcsApart DEF LoginPcs, ChatPcs, OneChatPcs, GroupChatPcs
<1>2. Walks(l)
  BY <1>1, ChatPcsApart DEF Walks, GoesOnFor
<1>3. CASE UNCHANGED netVars
  BY <1>2, <1>3, SameMap, WalkFrames
<1>4. ASSUME NEW s \in Servers, NEW u \in Users, NEW m \in Msgs, NEW d \in Conns,
             userConnMap[s][u] = d, SendFrame(l, d, MsgFrame(u, m))
      PROVE  FramesInv'
  <2>1. \A c \in Conns : BusyOK(c) /\ served'[c] = served[c]
    BY <1>4 DEF FramesInv, FramesOK, SendFrame
  <2>2. \A c \in Conns : SameLogin(c) /\ BusyOK(c)'
    BY <1>2, <2>1, WalkThread
  <2>3. l = LoopOf[d] => ~At(d, LoginPcs)
    BY <1>1 DEF At
  <2>. QED BY <1>4, <2>2, <2>3, MessageFrames
<1>. QED BY <1>3, <1>4

LEMMA OneChatFrames ==
  ASSUME TypeInv, ConnInv, FramesInv, NEW l \in Loops, OneChatStep(l)
  PROVE  FramesInv'
<1>1. /\ pc[l] \in OneChatPcs /\ pc[l] \in ChatPcs
      /\ UNCHANGED <<terminalVars, userConnMap>>
  BY DEF OneChatStep, OneChatFind, OneChatQuery, OneChatPublish, OneChatStore, OneChatPcs,
     ChatPcs, sessionVars
<1>2. job[l].user \in Users /\ job[l].msg \in Msgs
  BY <1>1 DEF TypeInv, JobsOK, JobOK
<1>3. \/ Finish(l)
      \/ \E next \in ChatPcs : Goto(l, next)
  BY DEF OneChatStep, OneChatFind, OneChatQuery, OneChatPublish, OneChatStore, ChatPcs, OneChatPcs
<1>4. \/ Finish(l)
      \/ \E next \in ChatPcs : \E j : GotoWith(l, next, j) /\ j.conn = job[l].conn
  BY <1>3, GotoIs
<1>5. \/ UNCHANGED netVars
      \/ \E s \in Servers, u \in Users, m \in Msgs : \E d \in Conns :
           userConnMap[s][u] = d /\ SendFrame(l, d, MsgFrame(u, m))
  <2>1. CASE OneChatFind(l)
    <3>. PICK s \in Servers : s = ServerOf[l]
      BY PlacementAssumption
    <3>1. CASE userConnMap[s][job[l].user] # None
      <4>. PICK d \in Conns : d = userConnMap[s][job[l].user]
        BY <1>2, <3>1, EntryIsConn
      <4>1. SendFrame(l, d, MsgFrame(job[l].user, job[l].msg))
        BY <2>1, <3>1 DEF OneChatFind
      <4>. QED BY <1>2, <4>1
    <3>2. CASE userConnMap[s][job[l].user] = None
      BY <2>1, <3>2 DEF OneChatFind
    <3>. QED BY <3>1, <3>2
  <2>. QED BY <2>1 DEF OneChatStep, OneChatQuery, OneChatPublish, OneChatStore
<1>. QED BY <1>1, <1>4, <1>5, ChatFrames

LEMMA GroupChatFrames ==
  ASSUME TypeInv, ConnInv, FramesInv, NEW l \in Loops, GroupChatStep(l)
  PROVE  FramesInv'
<1>1. /\ pc[l] \in GroupChatPcs /\ pc[l] \in ChatPcs
      /\ UNCHANGED <<terminalVars, userConnMap>>
  BY DEF GroupChatStep, GroupChatQuery, GroupChatLock, GroupChatSend, GroupChatAbsent,
     GroupChatPublish, GroupChatStore, GroupChatEnd, GroupChatPcs, ChatPcs, sessionVars
<1>2. job[l].msg \in Msgs /\ job[l] \in Jobs
  BY <1>1 DEF TypeInv, TypeOK, ThreadsTypeOK, JobsOK, JobOK
<1>3. \/ Finish(l)
      \/ \E next \in ChatPcs : \E j : GotoWith(l, next, j) /\ j.conn = job[l].conn
  BY <1>2, GroupChatGoesOn
<1>4. \/ UNCHANGED netVars
      \/ \E s \in Servers, u \in Users, m \in Msgs : \E d \in Conns :
           userConnMap[s][u] = d /\ SendFrame(l, d, MsgFrame(u, m))
  <2>1. ASSUME NEW u \in Users, GroupChatSend(l, u)
        PROVE  \E s \in Servers, m \in Msgs : \E d \in Conns :
                 userConnMap[s][u] = d /\ SendFrame(l, d, MsgFrame(u, m))
    <3>. PICK s \in Servers : s = ServerOf[l]
      BY PlacementAssumption
    <3>. PICK d \in Conns : d = userConnMap[s][u]
      BY <2>1, EntryIsConn DEF GroupChatSend
    <3>1. SendFrame(l, d, MsgFrame(u, job[l].msg))
      BY <2>1 DEF GroupChatSend
    <3>. QED BY <1>2, <3>1
  <2>. QED BY <2>1 DEF GroupChatStep, GroupChatQuery, GroupChatLock, GroupChatAbsent,
            GroupChatPublish, GroupChatStore, GroupChatEnd
<1>. QED BY <1>1, <1>3, <1>4, ChatFrames

-----------------------------------------------------------------------------
(***************************************************************************)
(* Between two handlers.                                                   *)
(***************************************************************************)
\* c has its event; another connection d waits.
LEMMA WaitingFrames ==
  ASSUME TypeInv, ConnInv, FramesInv, NEW l \in Loops, NEW c \in Conns, pc[l] = "idle",
         NEW next, NEW j, GotoWith(l, next, j), j.conn = c,
         UNCHANGED <<userConnMap, toClient, pending>>,
         NEW d \in Conns, d # c, QuietNet(d), served'[d] = served[d]
  PROVE  FramesOK(d)'
<1>1. FramesOK(d) /\ BusyOK(d) /\ FlushOK(d)
  BY DEF FramesInv, FramesOK
<1>2. SameLogin(d) /\ BusyOK(d)'
  BY <1>1, Moved DEF SameLogin, BusyOK, At, LoginPcs
<1>3. FlushOK(d)'
  BY <1>1, FlushStays
<1>. QED BY <1>1, <1>2, <1>3, SameFor, SameMap, PendingUsers, FramesStay

LEMMA EventFrames ==
  ASSUME TypeInv, ConnInv, FramesInv, NEW l \in Loops, NEW c \in Conns,
         OnMessage(l, c) \/ OnClose(l, c)
  PROVE  FramesInv'
<1>1. /\ pc[l] = "idle" /\ LoopOf[c] = l /\ ~served[c]
      /\ served' = [served EXCEPT ![c] = TRUE]
      /\ UNCHANGED <<clientPc, nread, pending, toClient, userConnMap>>
  BY DEF OnMessage, OnClose, terminalVars, sessionVars
<1>2. /\ served \in [Conns -> BOOLEAN] /\ connected \in [Conns -> BOOLEAN]
      /\ request \in [Conns -> Requests]
  BY DEF TypeInv, TypeOK, NetTypeOK, TerminalsTypeOK
<1>3. PICK next, j : /\ GotoWith(l, next, j) /\ j.conn = c
                     /\ \/ next \notin LoginPcs
                        \/ next \in {"login", "loginInsert"} /\ request[c].kind = "login"
  <2>1. CASE OnClose(l, c)
    BY <2>1, JobForType DEF OnClose, LoginPcs
  <2>2. CASE OnMessage(l, c)
    <3>. PICK r : r = request[c]
      OBVIOUS
    <3>. PICK u : u = IF r.kind = "loginout" THEN None ELSE r.user
      OBVIOUS
    <3>1. GotoWith(l, HandlerOf[r.kind], JobFor(c, u, r.msg, r.password))
      BY <2>2 DEF OnMessage
    <3>2. JobFor(c, u, r.msg, r.password).conn = c
      BY DEF JobFor
    <3>3. r \in Requests /\ r.kind # "none"
      BY <1>2, <2>2 DEF OnMessage, TypeInv, RequestsOK
    <3>4. \/ HandlerOf[r.kind] \notin LoginPcs
          \/ HandlerOf[r.kind] = "login" /\ r.kind = "login"
      BY <3>3 DEF HandlerOf, Requests, LoginPcs
    <3>. QED BY <3>1, <3>2, <3>4
  <2>. QED BY <2>1, <2>2
<1>4. ASSUME NEW d \in Conns, d # c PROVE FramesOK(d)'
  <2>1. request'[d] = request[d] /\ connected'[d] = connected[d]
    BY <1>2, <1>4 DEF OnMessage, OnClose, terminalVars
  <2>2. QuietNet(d)
    BY <1>1, <2>1 DEF QuietNet, Unread, PendingOK, ConnInv, ConnOK
  <2>. QED BY <1>1, <1>2, <1>3, <1>4, <2>2, WaitingFrames
<1>5. FramesOK(c)'
  <2>1. FramesOK(c) /\ ConnOK(c) /\ FlushOK(c)
    BY DEF FramesInv, FramesOK, ConnInv
  <2>2. served'[c] /\ BusyOK(c)' /\ FlushOK(c)'
    BY <1>1, <1>2, <2>1 DEF BusyOK, FlushOK
  <2>3. \A at : "idle" \notin at => ~At(c, at)
    BY <1>1 DEF At
  <2>4. CASE next \notin LoginPcs
    <3>1. SameLogin(c)
      BY <1>1, <1>3, <2>3, <2>4, Moved DEF SameLogin, At, LoginPcs
    <3>. QED BY <1>1, <2>1, <2>2, <3>1, SameFor, SameMap, PendingUsers, FramesStay
  <2>5. CASE next \in {"login", "loginInsert"} /\ request[c].kind = "login"
    <3>1. pending[c] = <<>> /\ ~Has(c)
      BY <1>1, <2>1, <2>3, <2>5 DEF FlushOK, Resting, ConnOK, LoginOK, ClosePcs
    <3>2. EntriesFor(c)' /\ PendingFor(c)' /\ FollowsLogin(toClient'[c])
      BY <1>1, <2>1, <3>1 DEF FramesOK, EntriesFor, PendingFor, Has
    <3>. QED BY <2>2, <3>2 DEF FramesOK
  <2>. QED BY <1>3, <2>4, <2>5
<1>. QED BY <1>4, <1>5 DEF FramesInv

LEMMA FunctorsFrames ==
  ASSUME TypeInv, ConnInv, FramesInv, NEW l \in Loops, RunPendingFunctors(l)
  PROVE  FramesInv'
<1>. SUFFICES ASSUME NEW c \in Conns PROVE FramesOK(c)'
  BY DEF FramesInv
<1>1. FramesOK(c) /\ ConnOK(c) /\ BusyOK(c) /\ FlushOK(c) /\ QuietMap(c)
  BY SameMap DEF FramesInv, FramesOK, ConnInv, RunPendingFunctors, sessionVars
<1>2. UNCHANGED <<terminalVars, connected, pc, job>> /\ pc[l] = "idle"
  BY DEF RunPendingFunctors, threadVars
<1>3. SameLogin(c)
  BY <1>2 DEF SameLogin, At
<1>4. CASE LoopOf[c] # l
  <2>1. toClient'[c] = toClient[c] /\ pending'[c] = pending[c] /\ served'[c] = served[c]
    BY <1>4 DEF RunPendingFunctors
  <2>2. QuietNet(c)
    BY <1>1, <1>2, <2>1 DEF QuietNet, Unread, PendingOK, ConnOK, terminalVars
  <2>3. BusyOK(c)' /\ FlushOK(c)'
    BY <1>1, <1>2, <2>1, <2>2, FlushStays DEF BusyOK, At
  <2>. QED BY <1>1, <1>3, <2>1, <2>3, SameFor, PendingUsers, FramesStay
<1>5. CASE LoopOf[c] = l
  <2>1. /\ pending'[c] = <<>>
        /\ toClient'[c] = IF connected[c] THEN toClient[c] \o pending[c] ELSE toClient[c]
    BY <1>5 DEF RunPendingFunctors
  <2>2. ~At(c, LoginPcs) /\ BusyOK(c)'
    BY <1>2, <1>5 DEF At, BusyOK, LoginPcs
  <2>3. FollowsLogin(toClient'[c]) /\ \A u : LastLogin(toClient[c], u) => LastLogin(toClient'[c], u)
    <3>1. CASE ~connected[c]
      BY <1>1, <2>1, <3>1 DEF FramesOK
    <3>2. CASE connected[c]
      <4>1. ASSUME NEW k \in DOMAIN pending[c]
            PROVE  pending[c][k].kind = "msg" /\ LastLogin(toClient[c], pending[c][k].user)
        BY <1>1, <2>2 DEF FramesOK, PendingFor, For, ConnOK, PendingOK, IsAck
      <4>. QED BY <1>1, <2>1, <3>2, <4>1, PendingUsers, FramesJoined DEF FramesOK
    <3>. QED BY <3>1, <3>2
  <2>4. EntriesFor(c)'
    BY <1>1, <1>3, <2>2, <2>3 DEF FramesOK, EntriesFor, For, QuietMap, SameLogin
  <2>5. PendingFor(c)' /\ FlushOK(c)'
    BY <2>1 DEF PendingFor, FlushOK
  <2>. QED BY <2>2, <2>3, <2>4, <2>5 DEF FramesOK
<1>. QED BY <1>4, <1>5

-----------------------------------------------------------------------------
(***************************************************************************)
(* The other threads, the end of the process, the terminals.               *)
(***************************************************************************)
LEMMA OtherFrames ==
  ASSUME TypeInv, FramesInv, UNCHANGED <<pc, job, toClient, pending, served>>,
         \A c \in Conns : QuietNet(c) /\ QuietMap(c)
  PROVE  FramesInv'
<1>. SUFFICES ASSUME NEW c \in Conns PROVE FramesOK(c)'
  BY DEF FramesInv
<1>1. FramesOK(c) /\ BusyOK(c) /\ FlushOK(c)
  BY DEF FramesInv, FramesOK
<1>2. SameLogin(c) /\ BusyOK(c)'
  BY <1>1 DEF SameLogin, BusyOK, At
<1>. QED BY <1>1, <1>2, FlushStays, SameFor, PendingUsers, FramesStay

LEMMA ObserveFrames ==
  ASSUME TypeInv, ConnInv, FramesInv, NEW s \in Servers, Observe(s)
  PROVE  FramesInv'
<1>1. UNCHANGED <<pc, job, terminalVars, userConnMap>>
  BY DEF Observe, ObserverForward, ObserverStore
<1>2. CASE UNCHANGED netVars
  BY <1>1, <1>2, SameNet, SameMap, OtherFrames DEF netVars
<1>3. ASSUME NEW d \in Conns, NEW u \in Users, NEW m \in Msgs,
             userConnMap[s][u] = d, SendFrame("observer", d, MsgFrame(u, m))
      PROVE  FramesInv'
  <2>1. \A c \in Conns : SameLogin(c) /\ BusyOK(c)'
    BY <1>1, <1>3 DEF SameLogin, BusyOK, At, SendFrame, FramesInv, FramesOK
  <2>2. LoopOf[d] # "observer"
    BY PlacementAssumption, NoneAssumption DEF OtherThreads
  <2>. QED BY <1>1, <1>3, <2>1, <2>2, MessageFrames
<1>4. \/ UNCHANGED netVars
      \/ \E d \in Conns, u \in Users, m \in Msgs :
           userConnMap[s][u] = d /\ SendFrame("observer", d, MsgFrame(u, m))
  <2>1. CASE ObserverForward(s)
    <3>. PICK letter : letter = Head(push[s])
      OBVIOUS
    <3>1. letter \in Letters
      BY <2>1 DEF ObserverForward, TypeInv, TypeOK, RedisTypeOK
    <3>2. letter.channel \in Users /\ letter.msg \in Msgs
      BY <3>1 DEF Letters
    <3>. QED BY <2>1, <3>2, EntryIsConn DEF ObserverForward
  <2>. QED BY <2>1 DEF Observe, ObserverStore
<1>. QED BY <1>2, <1>3, <1>4

LEMMA ProcessEndsFrames ==
  ASSUME TypeInv, ConnInv, FramesInv, NEW s \in Servers, ProcessEnds(s)
  PROVE  FramesInv'
<1>. SUFFICES ASSUME NEW c \in Conns PROVE FramesOK(c)'
  BY DEF FramesInv
<1>1. FramesOK(c) /\ ConnOK(c) /\ BusyOK(c) /\ FlushOK(c) /\ LoopOf[c] \in Loops
  BY PlacementAssumption DEF ConnInv, FramesInv, FramesOK
<1>2. /\ userConnMap \in [Servers -> [Users -> Conns \cup {None}]]
      /\ userConnMap' = [userConnMap EXCEPT ![s] = [u \in Users |-> None]]
      /\ UNCHANGED <<toClient, nread>>
  BY DEF TypeInv, TypeOK, SessionsTypeOK, ProcessEnds
<1>3. QuietMap(c)
  BY <1>2, NoneAssumption DEF QuietMap
<1>4. CASE ConnServer(c) # s
  <2>1. /\ pc'[LoopOf[c]] = pc[LoopOf[c]] /\ job'[LoopOf[c]] = job[LoopOf[c]]
        /\ UNCHANGED <<clientPc[c], request[c], pending[c]>>
    BY <1>1, <1>4 DEF ProcessEnds, ConnServer
  <2>2. connected'[c] = connected[c] /\ served'[c] = served[c]
    BY <1>4 DEF ProcessEnds, ConnServer, TypeInv, TypeOK, NetTypeOK
  <2>3. QuietNet(c)
    BY <1>1, <1>2, <2>1, <2>2 DEF QuietNet, Unread, PendingOK, ConnOK
  <2>4. SameLogin(c) /\ BusyOK(c)'
    BY <1>1, <2>1, <2>2 DEF SameLogin, BusyOK, At
  <2>5. FlushOK(c)'
    BY <1>1, <2>1, <2>2, <2>3, FlushStays
  <2>. QED BY <1>1, <1>2, <1>3, <2>1, <2>4, <2>5, SameFor, PendingUsers, FramesStay
<1>5. CASE ConnServer(c) = s
  <2>1. pc'[LoopOf[c]] = "idle" /\ pending'[c] = <<>>
    BY <1>1, <1>5 DEF ProcessEnds, ConnServer
  <2>2. EntriesFor(c)'
    BY <1>1, <1>2, <1>5, NoneAssumption DEF EntriesFor, ConnOK, EntryOK
  <2>3. PendingFor(c)' /\ FlushOK(c)' /\ BusyOK(c)'
    BY <2>1 DEF PendingFor, FlushOK, BusyOK, At
  <2>. QED BY <1>1, <1>2, <2>2, <2>3 DEF FramesOK
<1>. QED BY <1>4, <1>5

LEMMA ProcessFrames ==
  ASSUME TypeInv, ConnInv, FramesInv, NEW s \in Servers, Sigint(s) \/ Reset(s) \/ Crash(s) \/ Start(s)
  PROVE  FramesInv'
<1>1. CASE Crash(s) \/ ResetExit(s)
  BY <1>1, ProcessEndsFrames DEF Crash, ResetExit
<1>2. CASE ~(Crash(s) \/ ResetExit(s))
  <2>1. UNCHANGED <<terminalVars, netVars, pc, job>>
    BY <1>2 DEF Reset, ResetClear, Sigint, ResetUnsubscribe, ResetOffline, Start, UnchangedByReset, threadVars
  <2>2. \A c \in Conns : QuietMap(c)
    <3>1. CASE ResetClear(s)
      <4>1. userConnMap' = [userConnMap EXCEPT ![s] = [u \in Users |-> None]]
        BY <3>1 DEF ResetClear
      <4>. QED BY <4>1, NoneAssumption DEF QuietMap, TypeInv, TypeOK, SessionsTypeOK
    <3>. QED BY <1>2, <3>1, SameMap DEF Reset, Sigint, ResetUnsubscribe, ResetOffline, Start, sessionVars
  <2>. QED BY <2>1, <2>2, SameNet, OtherFrames DEF netVars
<1>. QED BY <1>1, <1>2

LEMMA TerminalFrames ==
  ASSUME TypeInv, ConnInv, FramesInv, NEW c \in Conns,
         Accept(c) \/ Terminal(c) \/ \E u \in Users : Login(c, u)
  PROVE  FramesInv'
<1>1. /\ UNCHANGED <<pc, job, userConnMap, toClient, pending, served>>
      /\ \A d \in Conns : d # c => UNCHANGED <<clientPc[d], request[d], nread[d], connected[d]>>
  BY Types DEF Accept, Connect, Terminal, Login, ReadLoginAck, SendChat, SendGroupChat, SendLoginout,
     SendLogin, Exit, Send, ServersIdle, threadVars, sessionVars
<1>2. FramesOK(c) /\ ConnOK(c) /\ FlushOK(c) /\ BusyOK(c)
  BY DEF FramesInv, FramesOK, ConnInv
<1>3. ASSUME NEW d \in Conns, d # c PROVE FramesOK(d)'
  <2>1. FramesOK(d) /\ FlushOK(d) /\ BusyOK(d)
    BY DEF FramesInv, FramesOK
  <2>2. QuietNet(d)
    BY <1>1, <1>3 DEF QuietNet, Unread, PendingOK, ConnInv, ConnOK
  <2>3. SameLogin(d) /\ BusyOK(d)'
    BY <1>1, <2>1 DEF SameLogin, BusyOK, At
  <2>. QED BY <1>1, <2>1, <2>2, <2>3, FlushStays, SameFor, SameMap, PendingUsers, FramesStay
<1>4. FlushOK(c)'
  <2>. SUFFICES ASSUME pending[c] # <<>> PROVE clientPc'[c] # "off" /\ (served[c] \/ Resting(c)')
    BY <1>1 DEF FlushOK
  <2>1. clientPc[c] # "off" /\ (served[c] \/ Resting(c))
    BY <1>2 DEF FlushOK
  <2>2. CASE ReadLoginAck(c)
    <3>1. PICK i \in nread[c] + 1 .. Len(toClient[c]) :
            /\ IsAck(toClient[c][i]) /\ clientPc[c] = "waiting"
            /\ UNCHANGED <<request, toClient>>
            /\ clientPc' = [clientPc EXCEPT ![c] = IF toClient[c][i].kind = "ok" THEN "chatting" ELSE "menu"]
      BY <2>2 DEF ReadLoginAck
    <3>2. nread[c] \in Nat /\ toClient[c] \in Seq(Frames)
      BY Types, PendingUsers
    <3>3. i \in Nat /\ i \in 1 .. Len(toClient[c]) /\ Unread(c, i)
      BY <3>1, <3>2 DEF Unread
    <3>4. toClient[c][i].kind \in {"ok", "refused"}
      <4>1. toClient[c][i] \in Frames
        BY <3>2, <3>3
      <4>. QED BY <3>1, <4>1 DEF Frames, IsAck
    <3>5. Resting(c) => toClient[c][i].kind = "ok" /\ request[c].kind # "login"
      BY <3>1, <3>3, <3>4 DEF Resting
    <3>6. clientPc'[c] = IF toClient[c][i].kind = "ok" THEN "chatting" ELSE "menu"
      BY <3>1, Types
    <3>. QED BY <2>1, <3>1, <3>5, <3>6 DEF Resting
  <2>3. CASE Exit(c)
    <3>1. clientPc'[c] = "closed" /\ request'[c] \in {request[c], NoRequest}
      BY <2>3, Types DEF Exit
    <3>. QED BY <2>1, <3>1 DEF Resting, NoRequest
  <2>4. CASE SendLoginout(c)
    <3>1. clientPc'[c] = "menu" /\ request'[c].kind = "loginout"
      BY <2>4, Types DEF SendLoginout, Send
    <3>. QED BY <2>1, <3>1 DEF Resting
  <2>5. ASSUME NEW m \in Chats, SendChat(c, m) PROVE clientPc'[c] # "off" /\ (served[c] \/ Resting(c)')
    <3>1. clientPc'[c] = "chatting" /\ request'[c].kind = "oneChat"
      BY <2>5, Types DEF SendChat, Send
    <3>. QED BY <2>1, <3>1 DEF Resting
  <2>6. ASSUME NEW m \in GroupChats, SendGroupChat(c, m)
        PROVE  clientPc'[c] # "off" /\ (served[c] \/ Resting(c)')
    <3>1. clientPc'[c] = "chatting" /\ request'[c].kind = "groupChat"
      BY <2>6, Types DEF SendGroupChat, Send
    <3>. QED BY <2>1, <3>1 DEF Resting
  <2>7. ASSUME NEW u \in Users, Login(c, u) PROVE clientPc'[c] # "off" /\ (served[c] \/ Resting(c)')
    <3>1. clientPc'[c] = "waiting" /\ clientPc[c] = "menu" /\ request[c].kind = "none"
      BY <2>7, Types DEF Login, SendLogin, Send, NoRequest
    <3>. QED BY <2>1, <3>1 DEF Resting
  <2>8. ~Accept(c)
    BY <2>1 DEF Accept, Connect
  <2>. QED BY <2>2, <2>3, <2>4, <2>5, <2>6, <2>7, <2>8 DEF Terminal
<1>5. SameLogin(c) /\ BusyOK(c)'
  BY <1>1, <1>2 DEF SameLogin, BusyOK, At
<1>6. FramesOK(c)'
  BY <1>1, <1>2, <1>4, <1>5, SameFor, SameMap, PendingUsers, FramesStay
<1>. QED BY <1>3, <1>6 DEF FramesInv

-----------------------------------------------------------------------------
LEMMA FramesBegin == Init => FramesInv
<1>. SUFFICES ASSUME Init, NEW c \in Conns PROVE FramesOK(c)
  BY DEF FramesInv
<1>1. /\ pc[LoopOf[c]] = "idle" /\ toClient[c] = <<>> /\ pending[c] = <<>>
      /\ \A s \in Servers, u \in Users : userConnMap[s][u] = None
  BY PlacementAssumption DEF Init, TerminalsInit
<1>2. FollowsLogin(toClient[c]) /\ PendingFor(c) /\ BusyOK(c) /\ FlushOK(c)
  BY <1>1 DEF FollowsLogin, PendingFor, BusyOK, At, FlushOK
<1>3. EntriesFor(c)
  BY <1>1, NoneAssumption DEF EntriesFor
<1>. QED BY <1>2, <1>3 DEF FramesOK

LEMMA FramesStep == TypeInv /\ ConnInv /\ FramesInv /\ [Next]_vars => FramesInv'
<1>. SUFFICES ASSUME TypeInv, ConnInv, FramesInv, [Next]_vars PROVE FramesInv'
  OBVIOUS
<1>1. ASSUME NEW c \in Conns, Accept(c) \/ Terminal(c) \/ \E u \in Users : Login(c, u)
      PROVE  FramesInv'
  BY <1>1, TerminalFrames
<1>2. ASSUME NEW l \in Loops, Dispatch(l) \/ Handle(l) PROVE FramesInv'
  BY <1>2, EventFrames, FunctorsFrames, LoginFrames, CloseFrames, OneChatFrames, GroupChatFrames
     DEF Dispatch, Handle
<1>3. ASSUME NEW s \in Servers,
             Observe(s) \/ Redis(s) \/ Sigint(s) \/ Reset(s) \/ Crash(s) \/ Start(s)
      PROVE  FramesInv'
  <2>1. CASE Redis(s)
    <3>1. UNCHANGED <<pc, job, terminalVars, netVars, userConnMap>>
      BY <2>1 DEF Redis, ServersIdle, netVars, threadVars, sessionVars
    <3>. QED BY <3>1, SameNet, SameMap, OtherFrames DEF netVars
  <2>. QED BY <1>3, <2>1, ObserveFrames, ProcessFrames
<1>4. CASE UNCHANGED vars
  <2>1. UNCHANGED <<pc, job, terminalVars, netVars, userConnMap>>
    BY <1>4 DEF vars, threadVars, sessionVars
  <2>. QED BY <2>1, SameNet, SameMap, OtherFrames DEF netVars
<1>. QED BY <1>1, <1>2, <1>3, <1>4 DEF Next

(***************************************************************************)
(* A terminal never receives a message for another account than that of    *)
(* the last login the server confirmed to it, and none before the first    *)
(* confirmation, although its entry is in the map long before the          *)
(* confirmation is written (chatservice.cpp:80 and 145) and other threads  *)
(* send through it meanwhile; with every fault.                            *)
(***************************************************************************)
THEOREM FramesFollow == Spec => []FramesFollowTheirLogin
<1>1. Init => FramesInv
  BY FramesBegin
<1>2. (MutexInv /\ ConnInv) /\ FramesInv /\ [Next]_vars => FramesInv'
  BY FramesStep DEF MutexInv
<1>3. FramesInv => FramesFollowTheirLogin
  BY DEF FramesInv, FramesOK, FollowsLogin, FramesFollowTheirLogin
<1>. QED BY <1>1, <1>2, <1>3, ConnCorrect, PTL DEF Spec
=============================================================================
