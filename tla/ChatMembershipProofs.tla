------------------------ MODULE ChatMembershipProofs ------------------------
(***************************************************************************)
(* For any cluster, schema and fault: the members of a group get what is   *)
(* sent to it, and are listed to each other.                               *)
(***************************************************************************)
EXTENDS ChatGroupsProofs

(***************************************************************************)
(* For any cluster, schema and fault: whoever is a member when a message   *)
(* to a group is sent is served, by the loop of groupChat, although the    *)
(* members are read before the mutex is taken and others join meanwhile.   *)
(*                                                                         *)
(* A message is in one place, a socket or a job; what the loop has served  *)
(* and has still to serve are everyone who was a member when it was sent,  *)
(* and members only.                                                       *)
(***************************************************************************)
Once(s) == \A i, k \in DOMAIN s : s[i] = s[k] => i = k

LEMMA AppendOne ==
  ASSUME NEW s \in Seq(Nat), NEW x \in Nat
  PROVE  /\ Append(s, x) \in Seq(Nat)
         /\ Range(Append(s, x)) = Range(s) \cup {x}
         /\ Once(s) /\ x \notin Range(s) => Once(Append(s, x))
<1>1. Append(s, x) \in Seq(Nat)
  OBVIOUS
<1>2. /\ DOMAIN Append(s, x) = DOMAIN s \cup {Len(s) + 1} /\ Len(s) + 1 \notin DOMAIN s
      /\ \A i \in DOMAIN s : Append(s, x)[i] = s[i]
      /\ Append(s, x)[Len(s) + 1] = x
  OBVIOUS
<1>3. Range(Append(s, x)) = Range(s) \cup {x}
  BY <1>2 DEF Range
<1>4. Once(s) /\ x \notin Range(s) => Once(Append(s, x))
  BY <1>2 DEF Range, Once
<1>. QED BY <1>1, <1>3, <1>4

LEMMA TakeOne ==
  ASSUME NEW s \in Seq(Nat), s # <<>>
  PROVE  /\ Head(s) \in Nat /\ Tail(s) \in Seq(Nat)
         /\ Range(s) = {Head(s)} \cup Range(Tail(s))
         /\ Once(s) => Once(Tail(s)) /\ Head(s) \notin Range(Tail(s))
<1>1. /\ Head(s) \in Nat /\ Tail(s) \in Seq(Nat) /\ Head(s) = s[1]
      /\ 1 \in DOMAIN s /\ DOMAIN s \subseteq Nat
      /\ \A i \in DOMAIN Tail(s) : i \in Nat /\ i # 0 /\ i + 1 \in DOMAIN s /\ Tail(s)[i] = s[i + 1]
      /\ \A i \in DOMAIN s : i = 1 \/ (i - 1 \in DOMAIN Tail(s) /\ Tail(s)[i - 1] = s[i])
  OBVIOUS
<1>2. Range(s) = {Head(s)} \cup Range(Tail(s))
  <2>1. ASSUME NEW i \in DOMAIN s PROVE s[i] = Head(s) \/ s[i] \in Range(Tail(s))
    BY <1>1 DEF Range
  <2>2. ASSUME NEW i \in DOMAIN Tail(s) PROVE Tail(s)[i] \in Range(s)
    BY <1>1 DEF Range
  <2>3. Head(s) \in Range(s)
    BY <1>1 DEF Range
  <2>. QED BY <2>1, <2>2, <2>3 DEF Range
<1>3. ASSUME Once(s) PROVE Once(Tail(s)) /\ Head(s) \notin Range(Tail(s))
  <2>1. ASSUME NEW i \in DOMAIN Tail(s), NEW k \in DOMAIN Tail(s), Tail(s)[i] = Tail(s)[k] PROVE i = k
    <3>1. i + 1 = k + 1
      BY <1>1, <1>3, <2>1 DEF Once
    <3>. QED BY <1>1, <3>1
  <2>2. ASSUME NEW i \in DOMAIN Tail(s) PROVE Tail(s)[i] # Head(s)
    <3>1. i + 1 # 1
      BY <1>1
    <3>. QED BY <1>1, <1>3, <3>1 DEF Once
  <2>. QED BY <2>1, <2>2 DEF Once, Range
<1>. QED BY <1>1, <1>2, <1>3

KeyInv ==
  Keyed => \A i, k \in DOMAIN groupUser :
             groupUser[i].user = groupUser[k].user /\ groupUser[i].group = groupUser[k].group => i = k

LEMMA ListingsMembers ==
  ASSUME GroupTablesTypeOK, NEW g, NEW ids \in Listings(g)
  PROVE  /\ \A u : u \in Range(ids) <=> IsMember(u, g)
         /\ KeyInv /\ Keyed => Once(ids)
<1>1. PICK n \in Nat, rows \in SUBSET DOMAIN groupUser : \E order \in Bijection(1 .. n, rows) :
           /\ rows = {i \in DOMAIN groupUser : groupUser[i].group = g}
           /\ ids = [i \in 1 .. n |-> groupUser[order[i]].user]
  BY ListingsRows
<1>. PICK order \in Bijection(1 .. n, rows) : ids = [i \in 1 .. n |-> groupUser[order[i]].user]
  BY <1>1
<1>2. /\ order \in [1 .. n -> rows]
      /\ \A i, k \in 1 .. n : order[i] = order[k] => i = k
      /\ \A r \in rows : \E i \in 1 .. n : order[i] = r
  BY DEF Bijection, Injection, Surjection, IsInjective
<1>3. DOMAIN ids = 1 .. n /\ \A i \in 1 .. n : ids[i] = groupUser[order[i]].user
  OBVIOUS
<1>4. ASSUME NEW u PROVE u \in Range(ids) <=> IsMember(u, g)
  BY <1>1, <1>2, <1>3, IsMemberRow DEF Range
<1>5. ASSUME KeyInv, Keyed, NEW i \in 1 .. n, NEW k \in 1 .. n, ids[i] = ids[k] PROVE i = k
  <2>1. order[i] = order[k]
    BY <1>1, <1>2, <1>3, <1>5 DEF KeyInv
  <2>. QED BY <1>2, <2>1
<1>. QED BY <1>3, <1>4, <1>5 DEF Once

-----------------------------------------------------------------------------
\* m has been sent with request r, whose handler did not read the members yet.
Waiting(m, r) ==
  /\ reached[m] = <<>> /\ fate[m] = "sent"
  /\ \A u \in expected[m] : IsMember(u, r.id) /\ u # r.user

\* The loop has rest still before it.
Serving(m, r, rest) ==
  /\ fate[m] \in {"sent", "failed"}
  /\ fate[m] = "sent" => expected[m] \subseteq Range(reached[m]) \cup Range(rest)
  /\ r.user \notin Range(reached[m]) /\ r.user \notin expected[m]
  /\ \A u \in Range(reached[m]) \cup Range(rest) : IsMember(u, r.id)
  /\ Keyed => Once(rest) /\ Range(reached[m]) \cap Range(rest) = {}

InSocket(m, t) == request[t].msg = m
InJob(m, l) == job[l].req.msg = m

SocketOK(m) ==
  \A t \in Terminals : InSocket(m, t) =>
    /\ Waiting(m, request[t])
    /\ \A k \in Terminals : InSocket(m, k) => k = t
    /\ \A l \in Loops : ~InJob(m, l)

LoopOK(m) ==
  \A l \in Loops : InJob(m, l) =>
    /\ pc[l] = "groupChat" => Waiting(m, job[l].req)
    /\ pc[l] = "fanOut" => Serving(m, job[l].req, job[l].rest)
    /\ \A k \in Loops : InJob(m, k) => k = l

FateOK(m) ==
  /\ fate[m] = "unsent" => /\ reached[m] = <<>>
                           /\ \A t \in Terminals : ~InSocket(m, t)
                           /\ \A l \in Loops : ~InJob(m, l)
  /\ fate[m] = "done" => expected[m] \subseteq Range(reached[m])
  /\ Keyed => Once(reached[m])

Serve(m) == SocketOK(m) /\ LoopOK(m) /\ FateOK(m)

ServeInv == KeyInv /\ \A m \in Msgs : Serve(m)

-----------------------------------------------------------------------------
\* The table of members grows, and keeps its key.
LEMMA KeyGrows ==
  ASSUME TypeInv, KeyInv, NEW u \in Nat, NEW g \in Nat, NEW role \in {"creator", "normal"}, NEW result,
         MemberInsert(u, g, role, result)
  PROVE  KeyInv'
<1>1. Keyed /\ result.done => ~IsMember(u, g)
  <2>1. Keyed /\ result \in {Done, Unknown} => ~IsMember(u, g)
    BY DEF MemberInsert, Update, Done, NotDone, Unknown
  <2>2. result \in Results
    BY DEF MemberInsert, Update, Done, NotDone, Unknown, Results
  <2>3. ~NotDone.done
    BY DEF NotDone
  <2>. QED BY <2>1, <2>2, <2>3 DEF Results
<1>2. CASE ~result.done
  <2>1. groupUser' = groupUser
    BY <1>2, MembersGrow
  <2>. QED BY <2>1 DEF KeyInv
<1>3. CASE result.done
  <2>. SUFFICES ASSUME Keyed PROVE KeyInv'
    BY DEF KeyInv
  <2>1. ASSUME NEW i \in DOMAIN groupUser PROVE ~(groupUser[i].user = u /\ groupUser[i].group = g)
    BY <1>1, <1>3, IsMemberRow DEF TypeInv
  <2>2. PICK n \in DOMAIN groupUser' :
          /\ n \notin DOMAIN groupUser
          /\ \A i \in DOMAIN groupUser' : i \in DOMAIN groupUser \/ i = n
          /\ groupUser'[n].user = u /\ groupUser'[n].group = g
    BY <1>3, MembersGrow
  <2>3. \A i \in DOMAIN groupUser : groupUser'[i] = groupUser[i]
    BY MembersGrow
  <2>. QED BY <2>1, <2>2, <2>3 DEF KeyInv
<1>. QED BY <1>2, <1>3

LEMMA KeyNext ==
  ASSUME TypeInv, KeyInv, [Next]_vars
  PROVE  KeyInv' /\ \A u, g : IsMember(u, g) => IsMember(u, g)'
<1>1. CASE groupUser' = groupUser
  BY <1>1 DEF KeyInv, IsMember
<1>2. ASSUME NEW l \in Loops, AddGroup(l) PROVE KeyInv' /\ \A u, g : IsMember(u, g) => IsMember(u, g)'
  <2>. PICK v \in Nat, h \in Nat : v = job[l].req.user /\ h = job[l].req.id
    BY <1>2, JobAt, RequestTyped DEF TypeInv, AddGroup, KindsAt
  <2>1. PICK result : MemberInsert(v, h, "normal", result)
    BY <1>2 DEF AddGroup
  <2>2. KeyInv'
    BY <2>1, KeyGrows
  <2>. QED BY <2>1, <2>2, MembersGrow, MemberStays
<1>3. ASSUME NEW l \in Loops, AddCreator(l) PROVE KeyInv' /\ \A u, g : IsMember(u, g) => IsMember(u, g)'
  <2>. PICK v \in Nat, h \in Nat : v = job[l].req.user /\ h = job[l].group
    BY <1>3, JobAt, RequestTyped DEF TypeInv, JobsTyped, JobOK, AddCreator, KindsAt
  <2>1. PICK result : MemberInsert(v, h, "creator", result)
    BY <1>3 DEF AddCreator
  <2>2. KeyInv'
    BY <2>1, KeyGrows
  <2>. QED BY <2>1, <2>2, MembersGrow, MemberStays
<1>4. ASSUME NEW l \in Loops, CreateGroup(l) PROVE groupUser' = groupUser
  BY <1>4 DEF CreateGroup, GroupInsert
<1>5. ASSUME NEW s \in Servers, Crash(s) PROVE groupUser' = groupUser
  BY <1>5 DEF Crash, groupTableVars, tablesOnly
<1>6. Quiet => groupUser' = groupUser
  BY DEF Quiet
<1>. QED BY <1>1, <1>2, <1>3, <1>4, <1>5, <1>6, QuietNext

-----------------------------------------------------------------------------
\* What does not concern m: wherever it is, it stays there or is gone.
Still(m) ==
  /\ reached'[m] = reached[m] /\ expected'[m] = expected[m] /\ fate'[m] = fate[m]
  /\ \A t \in Terminals : InSocket(m, t)' => request'[t] = request[t]
  /\ \A l \in Loops : InJob(m, l)' =>
       pc'[l] = pc[l] /\ job'[l].req = job[l].req /\ job'[l].rest = job[l].rest

LEMMA StillServes ==
  ASSUME NEW m \in Msgs, Serve(m), Still(m), \A u, g : IsMember(u, g) => IsMember(u, g)'
  PROVE  Serve(m)'
<1>1. ASSUME NEW r, Waiting(m, r) PROVE Waiting(m, r)'
  BY <1>1 DEF Waiting, Still
<1>2. ASSUME NEW r, NEW rest, Serving(m, r, rest) PROVE Serving(m, r, rest)'
  BY <1>2 DEF Serving, Still
<1>3. \A t \in Terminals : InSocket(m, t)' => InSocket(m, t) /\ request'[t] = request[t]
  BY DEF Still, InSocket
<1>4. \A l \in Loops : InJob(m, l)' =>
        InJob(m, l) /\ pc'[l] = pc[l] /\ job'[l].req = job[l].req /\ job'[l].rest = job[l].rest
  BY DEF Still, InJob
<1>5. SocketOK(m)'
  <2>1. ASSUME NEW t \in Terminals, InSocket(m, t)' PROVE Waiting(m, request[t])'
    <3>. PICK r : r = request[t] /\ r = request'[t]
      BY <1>3, <2>1
    <3>1. Waiting(m, r)'
      BY <1>1, <1>3, <2>1 DEF Serve, SocketOK
    <3>. QED BY <3>1 DEF Waiting
  <2>. QED BY <1>3, <1>4, <2>1 DEF Serve, SocketOK
<1>6. LoopOK(m)'
  <2>1. ASSUME NEW l \in Loops, InJob(m, l)', pc'[l] = "groupChat" PROVE Waiting(m, job[l].req)'
    <3>. PICK r : r = job[l].req /\ r = job'[l].req
      BY <1>4, <2>1
    <3>1. Waiting(m, r)'
      BY <1>1, <1>4, <2>1 DEF Serve, LoopOK
    <3>. QED BY <3>1 DEF Waiting
  <2>2. ASSUME NEW l \in Loops, InJob(m, l)', pc'[l] = "fanOut" PROVE Serving(m, job[l].req, job[l].rest)'
    <3>. PICK r, rest : r = job[l].req /\ r = job'[l].req /\ rest = job[l].rest /\ rest = job'[l].rest
      BY <1>4, <2>2
    <3>1. Serving(m, r, rest)'
      BY <1>2, <1>4, <2>2 DEF Serve, LoopOK
    <3>. QED BY <3>1 DEF Serving
  <2>. QED BY <1>4, <2>1, <2>2 DEF Serve, LoopOK
<1>7. FateOK(m)'
  BY <1>3, <1>4 DEF Serve, FateOK, Still
<1>. QED BY <1>5, <1>6, <1>7 DEF Serve

-----------------------------------------------------------------------------
LEMMA NoMessage ==
  /\ NoRequest.msg = None /\ NoJob.req.msg = None /\ \A m \in Msgs : m # None
  /\ \A kind, user, id, name, msg :
       LET r == Request(kind, user, id, name, msg) IN r.user = user /\ r.id = id /\ r.msg = msg
BY NoJobFields, GroupsAssumption DEF NoRequest, Request

\* What a command does to the other messages.
LEMMA SendStill ==
  ASSUME TypeInv, NEW t \in Terminals, NEW r, Send(t, r), NEW m \in Msgs, r.msg # m,
         expected'[m] = expected[m], fate'[m] = fate[m]
  PROVE  Still(m)
<1>1. /\ UNCHANGED <<pc, job, reached>>
      /\ \A k \in Terminals : request'[k] = (IF k = t THEN r ELSE request[k])
  BY DEF Send, loopVars, TypeInv, ClientsTyped
<1>. QED BY <1>1 DEF Still, InSocket, InJob

LEMMA SendServes ==
  ASSUME TypeInv, NEW m \in Msgs, Serve(m), NEW t \in Terminals, NEW g, termPc[t] = "chatting",
         SendGroupChat(t, g, m)
  PROVE  Serve(m)'
<1>. PICK r : r = Request("groupChat", account[t], g, None, m)
  OBVIOUS
<1>1. r.user = account[t] /\ r.id = g /\ r.msg = m
  BY NoMessage
<1>2. /\ UNCHANGED <<pc, job, reached, groupUser, accounts>>
      /\ request'[t] = r
      /\ \A k \in Terminals \ {t} : request'[k] = request[k]
  BY DEF SendGroupChat, Send, loopVars, groupTableVars, tablesOnly, TypeInv, ClientsTyped
<1>3. /\ expected'[m] = {u \in 1 .. Len(accounts) : IsMember(u, g)} \ {account[t]}
      /\ fate[m] = "unsent" /\ fate'[m] = "sent"
  BY DEF SendGroupChat, TypeInv, HistoryTyped
<1>4. /\ reached[m] = <<>>
      /\ \A k \in Terminals : ~InSocket(m, k)
      /\ \A l \in Loops : ~InJob(m, l)
  BY <1>3 DEF Serve, FateOK
<1>5. Waiting(m, r)'
  BY <1>1, <1>2, <1>3, <1>4 DEF Waiting, IsMember
<1>6. Waiting(m, request[t])'
  BY <1>2, <1>5 DEF Waiting
<1>7. SocketOK(m)'
  BY <1>2, <1>4, <1>6 DEF SocketOK, InSocket, InJob
<1>8. LoopOK(m)'
  BY <1>2, <1>4 DEF LoopOK, InJob
<1>9. FateOK(m)'
  BY <1>2, <1>3, <1>4 DEF FateOK, Serve
<1>. QED BY <1>7, <1>8, <1>9 DEF Serve

LEMMA TypeServes ==
  ASSUME TypeInv, NEW m \in Msgs, Serve(m), NEW t \in Terminals, Type(t),
         \A u, g : IsMember(u, g) => IsMember(u, g)'
  PROVE  Serve(m)'
<1>1. ASSUME NEW name, SendReg(t, name) PROVE Serve(m)'
  <2>1. PICK r : r.msg = None /\ Send(t, r) /\ UNCHANGED <<expected, fate>>
    BY <1>1, NoMessage DEF SendReg
  <2>2. Still(m)
    BY <2>1, SendStill, NoMessage
  <2>. QED BY <2>2, StillServes
<1>2. ASSUME NEW u, SendLogin(t, u) PROVE Serve(m)'
  <2>1. PICK r : r.msg = None /\ Send(t, r) /\ UNCHANGED <<expected, fate>>
    BY <1>2, NoMessage DEF SendLogin
  <2>2. Still(m)
    BY <2>1, SendStill, NoMessage
  <2>. QED BY <2>2, StillServes
<1>3. ASSUME NEW kind, NEW u, SendCommand(t, kind, u) PROVE Serve(m)'
  <2>1. PICK r : r.msg = None /\ Send(t, r) /\ UNCHANGED <<expected, fate>>
    BY <1>3, NoMessage DEF SendCommand
  <2>2. Still(m)
    BY <2>1, SendStill, NoMessage
  <2>. QED BY <2>2, StillServes
<1>4. ASSUME NEW g, NEW n \in Msgs, SendGroupChat(t, g, n) PROVE Serve(m)'
  <2>1. CASE n = m
    BY <1>4, <2>1, SendServes DEF SendGroupChat
  <2>2. CASE n # m
    <3>1. expected'[m] = expected[m] /\ fate'[m] = fate[m]
      BY <1>4, <2>2 DEF SendGroupChat, TypeInv, HistoryTyped
    <3>2. PICK r : r.msg = n /\ Send(t, r)
      BY <1>4, NoMessage DEF SendGroupChat
    <3>3. Still(m)
      BY <2>2, <3>1, <3>2, SendStill
    <3>. QED BY <3>3, StillServes
  <2>. QED BY <2>1, <2>2
<1>. QED BY <1>1, <1>2, <1>3, <1>4 DEF Type

LEMMA OnMessageServes ==
  ASSUME TypeInv, NEW m \in Msgs, Serve(m), NEW t \in Terminals, OnMessage(t),
         \A u, g : IsMember(u, g) => IsMember(u, g)'
  PROVE  Serve(m)'
<1>. PICK l \in Loops : l = LoopOf[t]
  BY GroupsAssumption
<1>. PICK r : r = request[t]
  OBVIOUS
<1>1. /\ pc'[l] = r.kind /\ job'[l] = JobFor(t, r)
      /\ \A k \in Loops \ {l} : pc'[k] = pc[k] /\ job'[k] = job[k]
  BY GotoAt DEF TypeInv, OnMessage
<1>2. job'[l].req = r
  BY <1>1 DEF JobFor
<1>3. request'[t] = NoRequest /\ \A k \in Terminals \ {t} : request'[k] = request[k]
  BY DEF OnMessage, TypeInv, ClientsTyped
<1>4. /\ r \in Requests /\ ReqOK(r)
      /\ UNCHANGED <<groupUser, reached, expected, fate>>
  BY DEF OnMessage, TypeInv, ClientsTyped, groupTableVars, tablesOnly, historyVars
<1>5. CASE r.msg # m
  <2>1. \A k \in Terminals : InSocket(m, k)' => request'[k] = request[k]
    BY <1>3, NoMessage DEF InSocket
  <2>2. \A k \in Loops : InJob(m, k)' => pc'[k] = pc[k] /\ job'[k] = job[k]
    BY <1>1, <1>2, <1>5 DEF InJob
  <2>3. Still(m)
    BY <1>4, <2>1, <2>2 DEF Still
  <2>. QED BY <2>3, StillServes
<1>6. CASE r.msg = m
  <2>1. r.kind = "groupChat"
    BY <1>4, <1>6, NoMessage, RequestTyped
  <2>2. /\ Waiting(m, r)
        /\ \A k \in Terminals : InSocket(m, k) => k = t
        /\ \A k \in Loops : ~InJob(m, k)
    BY <1>6 DEF Serve, SocketOK, InSocket
  <2>3. /\ \A k \in Terminals : ~InSocket(m, k)'
        /\ \A k \in Loops : InJob(m, k)' => k = l
    BY <1>1, <1>3, <2>2, NoMessage DEF InSocket, InJob
  <2>4. Waiting(m, job[l].req)'
    BY <1>2, <1>4, <2>2 DEF Waiting, IsMember
  <2>5. SocketOK(m)'
    BY <2>3 DEF SocketOK
  <2>6. LoopOK(m)'
    BY <1>1, <2>1, <2>3, <2>4 DEF LoopOK
  <2>7. FateOK(m)'
    BY <1>4, <2>2 DEF Serve, FateOK, Waiting
  <2>. QED BY <2>5, <2>6, <2>7 DEF Serve
<1>. QED BY <1>5, <1>6

-----------------------------------------------------------------------------
(***************************************************************************)
(* The handlers.  Those of other requests have no message.                 *)
(***************************************************************************)
LEMMA AtLoop ==
  ASSUME NEW m \in Msgs, NEW l \in Loops, UNCHANGED <<request, reached, expected, fate>>,
         \A k \in Loops \ {l} : pc'[k] = pc[k] /\ job'[k] = job[k],
         ~InJob(m, l)'
  PROVE  Still(m)
BY DEF Still, InSocket, InJob

LEMMA FinishStill ==
  ASSUME TypeInv, NEW m \in Msgs, NEW l \in Loops, Finish(l), UNCHANGED <<request, reached, expected, fate>>
  PROVE  Still(m)
BY FinishAt, AtLoop, NoMessage DEF TypeInv, InJob

LEMMA GotoStill ==
  ASSUME TypeInv, NEW m \in Msgs, NEW l \in Loops, NEW next, NEW j, Goto(l, next, j),
         j.req = job[l].req, ~InJob(m, l), UNCHANGED <<request, reached, expected, fate>>
  PROVE  Still(m)
<1>1. ~InJob(m, l)'
  BY GotoAt DEF TypeInv, InJob
<1>. QED BY <1>1, GotoAt, AtLoop DEF TypeInv

LEMMA NotInJob ==
  ASSUME TypeInv, NEW m \in Msgs, NEW l \in Loops, pc[l] \notin {"groupChat", "fanOut"}
  PROVE  ~InJob(m, l)
<1>1. CASE pc[l] = "idle"
  BY <1>1, JobAt, NoMessage DEF TypeInv, InJob
<1>2. CASE pc[l] # "idle"
  <2>1. job[l].req.kind \in KindsAt(pc[l]) /\ job[l].req \in Requests /\ ReqOK(job[l].req)
    BY <1>2, JobAt DEF TypeInv
  <2>2. "groupChat" \notin KindsAt(pc[l])
    BY DEF KindsAt
  <2>. QED BY <2>1, <2>2, RequestTyped, NoMessage DEF InJob
<1>. QED BY <1>1, <1>2

LEMMA HandleStill ==
  ASSUME TypeInv, NEW m \in Msgs, NEW l \in Loops, Handle(l)
  PROVE  Still(m) \/ GroupChat(l) \/ FanOut(l) \/ FanOutEnd(l)
<1>1. CASE Reg(l)
  <2>1. PICK a \in Answers : Goto(l, "ack", [job[l] EXCEPT !.answer = a])
    <3>1. PICK result \in Results : Goto(l, "ack", [job[l] EXCEPT !.answer =
            Answer("reg", IF result.ok THEN InsertId(accounts) ELSE None, {})])
      BY <1>1 DEF Reg
    <3>2. InsertId(accounts) \in Nat
      BY DEF InsertId, TypeInv, GroupTablesTypeOK
    <3>. QED BY <3>1, <3>2, AnswerFields DEF Id
  <2>. QED BY <1>1, <2>1, JobAt, JobAnswer, NotInJob, GotoStill DEF Reg, TypeInv, HandlersElse, clientVars, historyVars
<1>2. CASE Ack(l)
  BY <1>2, FinishStill DEF Ack, historyVars
<1>3. CASE AddFriend(l)
  BY <1>3, FinishStill DEF AddFriend, HandlersElse, clientVars, historyVars
<1>4. CASE AddGroup(l)
  BY <1>4, FinishStill DEF AddGroup, HandlersElse, clientVars, historyVars
<1>5. CASE CreateGroup(l)
  <2>0. UNCHANGED <<request, reached, expected, fate>> /\ pc[l] = "createGroup"
    BY <1>5 DEF CreateGroup, HandlersElse, clientVars
  <2>1. CASE Finish(l)
    BY <2>0, <2>1, FinishStill
  <2>2. CASE Goto(l, "addCreator", [job[l] EXCEPT !.group = InsertId(groups)])
    <3>1. InsertId(groups) \in Id
      BY DEF InsertId, TypeInv, GroupTablesTypeOK, Id
    <3>. QED BY <2>0, <2>2, <3>1, JobAt, JobGroup, NotInJob, GotoStill DEF TypeInv
  <2>. QED BY <1>5, <2>1, <2>2 DEF CreateGroup
<1>6. CASE AddCreator(l)
  BY <1>6, FinishStill DEF AddCreator, HandlersElse, clientVars
<1>7. CASE LoginFriends(l)
  <2>1. PICK vec : Goto(l, "groups", [job[l] EXCEPT !.answer = Answer("login", job[l].req.user, vec)])
    BY <1>7 DEF LoginFriends
  <2>2. [job[l] EXCEPT !.answer = Answer("login", job[l].req.user, vec)].req = job[l].req
    BY JobAt DEF TypeInv, Jobs
  <2>. QED BY <1>7, <2>1, <2>2, NotInJob, GotoStill DEF LoginFriends, HandlersElse, clientVars, historyVars
<1>8. CASE LoginGroups(l)
  <2>1. PICK rows : Goto(l, "members", WithGroups(job[l], rows, Len(groupUser)))
    BY <1>8 DEF LoginGroups
  <2>2. WithGroups(job[l], rows, Len(groupUser)).req = job[l].req
    BY JobAt DEF TypeInv, Jobs, WithGroups
  <2>. QED BY <1>8, <2>1, <2>2, NotInJob, GotoStill DEF LoginGroups, HandlersElse, clientVars, historyVars
<1>9. CASE LoginMembers(l)
  <2>1. PICK g, vec : Goto(l, "members", WithList(job[l], g, vec))
    BY <1>9 DEF LoginMembers
  <2>2. WithList(job[l], g, vec).req = job[l].req
    BY JobAt DEF TypeInv, Jobs, WithList
  <2>. QED BY <1>9, <2>1, <2>2, NotInJob, GotoStill DEF LoginMembers, HandlersElse, clientVars, historyVars
<1>10. CASE LoginListed(l)
  BY <1>10, NotInJob, GotoStill DEF LoginListed, HandlersElse, clientVars, historyVars
<1>. QED BY <1>1, <1>2, <1>3, <1>4, <1>5, <1>6, <1>7, <1>8, <1>9, <1>10 DEF Handle

-----------------------------------------------------------------------------
(***************************************************************************)
(* The handler of the message itself: the list of members, the turns of    *)
(* the loop and its end.  At its loop, m is nowhere else.                  *)
(***************************************************************************)
LEMMA OnlyHere ==
  ASSUME NEW m \in Msgs, Serve(m), NEW l \in Loops, InJob(m, l), UNCHANGED request,
         \A k \in Loops \ {l} : pc'[k] = pc[k] /\ job'[k] = job[k]
  PROVE  /\ \A t \in Terminals : ~InSocket(m, t) /\ ~InSocket(m, t)'
         /\ \A k \in Loops : InJob(m, k)' => k = l
         /\ SocketOK(m)'
BY DEF Serve, SocketOK, LoopOK, InSocket, InJob

LEMMA WithRest ==
  ASSUME TypeInv, NEW l \in Loops, NEW rest \in Seq(Nat),
         Goto(l, "fanOut", [job[l] EXCEPT !.rest = rest])
  PROVE  /\ pc'[l] = "fanOut" /\ job'[l].req = job[l].req /\ job'[l].rest = rest
         /\ \A k \in Loops \ {l} : pc'[k] = pc[k] /\ job'[k] = job[k]
<1>. PICK j \in Jobs : j = job[l]
  BY JobAt DEF TypeInv
<1>1. [j EXCEPT !.rest = rest].req = j.req /\ [j EXCEPT !.rest = rest].rest = rest
  BY JobRest
<1>. PICK k : k = [job[l] EXCEPT !.rest = rest]
  OBVIOUS
<1>2. k.req = job[l].req /\ k.rest = rest
  BY <1>1
<1>3. /\ pc'[l] = "fanOut" /\ job'[l] = k
      /\ \A i \in Loops \ {l} : pc'[i] = pc[i] /\ job'[i] = job[i]
  BY GotoAt DEF TypeInv
<1>. QED BY <1>2, <1>3

LEMMA GroupChatServes ==
  ASSUME TypeInv, KeyInv, NEW m \in Msgs, Serve(m), NEW l \in Loops, GroupChat(l)
  PROVE  Serve(m)'
<1>. PICK r : r = job[l].req
  OBVIOUS
<1>. PICK n : n = r.msg
  OBVIOUS
<1>1. pc[l] = "groupChat" /\ UNCHANGED <<groupUser, request, reached, expected>>
  BY DEF GroupChat, HandlersElse, clientVars, tablesOnly
<1>. PICK ids \in Listings(r.id) : \E vec \in {ids, <<>>} :
        /\ Goto(l, "fanOut", [job[l] EXCEPT !.rest = vec])
        /\ fate' = IF vec = ids THEN fate ELSE [fate EXCEPT ![n] = "failed"]
  BY DEF GroupChat
<1>2. PICK vec :
        /\ vec = ids \/ vec = <<>>
        /\ Goto(l, "fanOut", [job[l] EXCEPT !.rest = vec])
        /\ fate' = IF vec = ids THEN fate ELSE [fate EXCEPT ![n] = "failed"]
  OBVIOUS
<1>3. vec \in Seq(Nat) /\ ids \in Seq(Nat)
  <2>1. ids \in Seq(Nat) /\ <<>> \in Seq(Nat)
    BY ListingsType DEF TypeInv
  <2>. QED BY <1>2, <2>1
<1>4. /\ pc'[l] = "fanOut" /\ job'[l].req = r /\ job'[l].rest = vec
      /\ \A k \in Loops \ {l} : pc'[k] = pc[k] /\ job'[k] = job[k]
  BY <1>2, <1>3, WithRest
<1>5. CASE n # m
  <2>1. fate'[m] = fate[m]
    BY <1>2, <1>5 DEF TypeInv, HistoryTyped
  <2>2. ~InJob(m, l)'
    BY <1>4, <1>5 DEF InJob
  <2>3. Still(m)
    BY <1>1, <1>4, <2>1, <2>2 DEF Still, InSocket, InJob
  <2>4. \A u, g : IsMember(u, g) => IsMember(u, g)'
    BY <1>1 DEF IsMember
  <2>. QED BY <2>3, <2>4, StillServes
<1>6. CASE n = m
  <2>1. InJob(m, l) /\ Waiting(m, r)
    BY <1>1, <1>6 DEF InJob, Serve, LoopOK
  <2>2. fate'[m] \in {"sent", "failed"} /\ (fate'[m] = "sent" => vec = ids)
    BY <1>2, <1>6, <2>1 DEF Waiting, TypeInv, HistoryTyped
  <2>3. /\ \A u : u \in Range(ids) <=> IsMember(u, r.id)
        /\ Keyed => Once(ids)
    BY <1>2, ListingsMembers DEF TypeInv
  <2>4. Range(<<>>) = {} /\ Once(<<>>)
    BY DEF Range, Once
  <2>5. reached'[m] = <<>> /\ expected'[m] = expected[m]
    BY <1>1, <2>1 DEF Waiting
  <2>6. Serving(m, r, vec)'
    <3>1. \A u \in Range(vec) : IsMember(u, r.id)'
      BY <1>1, <1>2, <2>3, <2>4 DEF IsMember
    <3>2. r.user \notin expected[m] /\ \A u \in expected[m] : u \in Range(ids)
      BY <2>1, <2>3 DEF Waiting
    <3>3. Keyed => Once(vec)
      BY <1>2, <2>3, <2>4
    <3>. QED BY <2>2, <2>4, <2>5, <3>1, <3>2, <3>3 DEF Serving
  <2>7. Serving(m, job[l].req, job[l].rest)'
    BY <1>4, <2>6 DEF Serving
  <2>8. SocketOK(m)' /\ LoopOK(m)'
    BY <1>1, <1>4, <2>1, <2>7, OnlyHere DEF LoopOK
  <2>9. FateOK(m)'
    BY <2>2, <2>4, <2>5 DEF FateOK
  <2>. QED BY <2>8, <2>9 DEF Serve
<1>. QED BY <1>5, <1>6

LEMMA FanOutServes ==
  ASSUME TypeInv, NEW m \in Msgs, Serve(m), NEW l \in Loops, FanOut(l)
  PROVE  Serve(m)'
<1>. PICK r, rest : r = job[l].req /\ rest = job[l].rest
  OBVIOUS
<1>. PICK n, id : n = r.msg /\ id = Head(rest)
  OBVIOUS
<1>1. /\ pc[l] = "fanOut" /\ rest # <<>> /\ rest \in Seq(Nat)
      /\ UNCHANGED <<groupUser, request, expected, fate>>
      /\ reached' = IF id = r.user THEN reached ELSE [reached EXCEPT ![n] = Append(@, id)]
  BY JobAt DEF FanOut, HandlersElse, clientVars, tablesOnly, groupTableVars, TypeInv
<1>2. /\ id \in Nat /\ Tail(rest) \in Seq(Nat)
      /\ Range(rest) = {id} \cup Range(Tail(rest))
      /\ Once(rest) => Once(Tail(rest)) /\ id \notin Range(Tail(rest))
  BY <1>1, TakeOne
<1>3. /\ pc'[l] = "fanOut" /\ job'[l].req = r /\ job'[l].rest = Tail(rest)
      /\ \A k \in Loops \ {l} : pc'[k] = pc[k] /\ job'[k] = job[k]
  <2>1. Goto(l, "fanOut", [job[l] EXCEPT !.rest = Tail(rest)])
    <3>1. [job[l] EXCEPT !.rest = Tail(@)] = [job[l] EXCEPT !.rest = Tail(rest)]
      OBVIOUS
    <3>. QED BY <3>1 DEF FanOut
  <2>. QED BY <1>2, <2>1, WithRest
<1>4. CASE n # m
  <2>1. reached'[m] = reached[m]
    BY <1>1, <1>4 DEF TypeInv, HistoryTyped
  <2>2. ~InJob(m, l)'
    BY <1>3, <1>4 DEF InJob
  <2>3. Still(m)
    BY <1>1, <1>3, <2>1, <2>2 DEF Still, InSocket, InJob
  <2>4. \A u, g : IsMember(u, g) => IsMember(u, g)'
    BY <1>1 DEF IsMember
  <2>. QED BY <2>3, <2>4, StillServes
<1>5. CASE n = m
  <2>1. InJob(m, l) /\ Serving(m, r, rest)
    BY <1>1, <1>5 DEF InJob, Serve, LoopOK
  <2>2. reached[m] \in Seq(Nat)
    BY DEF TypeInv, HistoryTyped
  <2>3. /\ Range(reached'[m]) = IF id = r.user THEN Range(reached[m]) ELSE Range(reached[m]) \cup {id}
        /\ Keyed => Once(reached'[m])
    <3>1. CASE id = r.user
      BY <1>1, <3>1 DEF Serve, FateOK
    <3>2. CASE id # r.user
      <4>1. reached'[m] = Append(reached[m], id)
        BY <1>1, <1>5, <3>2 DEF TypeInv, HistoryTyped
      <4>2. Keyed => Once(reached[m]) /\ id \notin Range(reached[m])
        BY <1>2, <2>1 DEF Serve, FateOK, Serving
      <4>. QED BY <1>2, <2>2, <3>2, <4>1, <4>2, AppendOne
    <3>. QED BY <3>1, <3>2
  <2>4. expected'[m] = expected[m] /\ fate'[m] = fate[m]
    BY <1>1
  <2>5. Serving(m, r, Tail(rest))'
    <3>1. \A u \in Range(reached'[m]) \cup Range(Tail(rest)) : IsMember(u, r.id)'
      BY <1>1, <1>2, <2>1, <2>3 DEF Serving, IsMember
    <3>2. fate[m] = "sent" => expected[m] \subseteq Range(reached'[m]) \cup Range(Tail(rest))
      BY <1>2, <2>1, <2>3 DEF Serving
    <3>3. r.user \notin Range(reached'[m]) /\ r.user \notin expected[m]
      BY <2>1, <2>3 DEF Serving
    <3>4. Keyed => Once(Tail(rest)) /\ Range(reached'[m]) \cap Range(Tail(rest)) = {}
      BY <1>2, <2>1, <2>3 DEF Serving
    <3>5. fate[m] \in {"sent", "failed"}
      BY <2>1 DEF Serving
    <3>. QED BY <2>4, <3>1, <3>2, <3>3, <3>4, <3>5 DEF Serving
  <2>6. Serving(m, job[l].req, job[l].rest)'
    BY <1>3, <2>5 DEF Serving
  <2>7. SocketOK(m)' /\ LoopOK(m)'
    BY <1>1, <1>3, <2>1, <2>6, OnlyHere DEF LoopOK
  <2>8. FateOK(m)'
    BY <2>1, <2>3, <2>4 DEF FateOK, Serving
  <2>. QED BY <2>7, <2>8 DEF Serve
<1>. QED BY <1>4, <1>5

LEMMA FanOutEndServes ==
  ASSUME TypeInv, NEW m \in Msgs, Serve(m), NEW l \in Loops, FanOutEnd(l)
  PROVE  Serve(m)'
<1>. PICK r, n : r = job[l].req /\ n = r.msg
  OBVIOUS
<1>1. /\ pc[l] = "fanOut" /\ job[l].rest = <<>>
      /\ UNCHANGED <<groupUser, request, reached, expected>>
      /\ fate' = [fate EXCEPT ![n] = IF @ = "sent" THEN "done" ELSE @]
  BY DEF FanOutEnd, HandlersElse, clientVars, tablesOnly, groupTableVars
<1>2. /\ ~InJob(m, l)'
      /\ \A k \in Loops \ {l} : pc'[k] = pc[k] /\ job'[k] = job[k]
  BY FinishAt, NoMessage DEF TypeInv, FanOutEnd, InJob
<1>3. CASE n # m
  <2>1. fate'[m] = fate[m]
    BY <1>1, <1>3 DEF TypeInv, HistoryTyped
  <2>2. Still(m)
    BY <1>1, <1>2, <2>1 DEF Still, InSocket, InJob
  <2>3. \A u, g : IsMember(u, g) => IsMember(u, g)'
    BY <1>1 DEF IsMember
  <2>. QED BY <2>2, <2>3, StillServes
<1>4. CASE n = m
  <2>1. InJob(m, l) /\ Serving(m, r, <<>>)
    BY <1>1, <1>4 DEF InJob, Serve, LoopOK
  <2>2. /\ fate[m] = "sent" => expected[m] \subseteq Range(reached[m])
        /\ fate[m] \in {"sent", "failed"}
    <3>1. Range(<<>>) = {}
      BY DEF Range
    <3>. QED BY <2>1, <3>1 DEF Serving
  <2>3. fate'[m] = IF fate[m] = "sent" THEN "done" ELSE fate[m]
    BY <1>1, <1>4 DEF TypeInv, HistoryTyped
  <2>4. SocketOK(m)' /\ LoopOK(m)'
    BY <1>1, <1>2, <2>1, OnlyHere DEF LoopOK
  <2>5. FateOK(m)'
    BY <1>1, <2>2, <2>3 DEF FateOK, Serve
  <2>. QED BY <2>4, <2>5 DEF Serve
<1>. QED BY <1>3, <1>4

-----------------------------------------------------------------------------
(***************************************************************************)
(* The end of a server takes the messages its sockets and threads hold.    *)
(***************************************************************************)
LEMMA CrashServes ==
  ASSUME TypeInv, NEW m \in Msgs, Serve(m), NEW s \in Servers, Crash(s)
  PROVE  Serve(m)'
<1>. DEFINE here(l) == ServerOf[l] = s
            own(t) == here(LoopOf[t])
            lost == (\E l \in Loops : here(l) /\ InJob(m, l)) \/ (\E t \in Terminals : own(t) /\ InSocket(m, t))
<1>1. /\ \A l \in Loops : IF here(l) THEN job'[l] = NoJob ELSE pc'[l] = pc[l] /\ job'[l] = job[l]
      /\ \A t \in Terminals : request'[t] = IF own(t) THEN NoRequest ELSE request[t]
      /\ fate'[m] = IF lost THEN "failed" ELSE fate[m]
      /\ UNCHANGED <<groupUser, reached, expected>>
  BY DEF Crash, groupTableVars, tablesOnly, InJob, InSocket
<1>2. /\ \A l \in Loops : InJob(m, l)' => ~here(l) /\ InJob(m, l)
      /\ \A t \in Terminals : InSocket(m, t)' => ~own(t) /\ InSocket(m, t)
  BY <1>1, NoMessage DEF InJob, InSocket
<1>3. CASE ~lost
  <2>1. \A l \in Loops : InJob(m, l)' => pc'[l] = pc[l] /\ job'[l] = job[l]
    BY <1>1, <1>2
  <2>2. \A t \in Terminals : InSocket(m, t)' => request'[t] = request[t]
    BY <1>1, <1>2
  <2>3. Still(m)
    BY <1>1, <1>3, <2>1, <2>2 DEF Still
  <2>4. \A u, g : IsMember(u, g) => IsMember(u, g)'
    BY <1>1 DEF IsMember
  <2>. QED BY <2>3, <2>4, StillServes
<1>4. CASE lost
  <2>1. /\ \A l \in Loops : ~InJob(m, l)'
        /\ \A t \in Terminals : ~InSocket(m, t)'
    BY <1>2, <1>4 DEF Serve, SocketOK, LoopOK
  <2>2. SocketOK(m)' /\ LoopOK(m)'
    BY <2>1 DEF SocketOK, LoopOK
  <2>3. FateOK(m)'
    BY <1>1, <1>4 DEF FateOK, Serve
  <2>. QED BY <2>2, <2>3 DEF Serve
<1>. QED BY <1>3, <1>4

LEMMA ServeBegins == Init => ServeInv
<1>. SUFFICES ASSUME Init PROVE ServeInv
  OBVIOUS
<1>1. KeyInv
  BY DEF Init, GroupTablesInit, KeyInv
<1>2. ASSUME NEW m \in Msgs PROVE Serve(m)
  <2>1. /\ \A t \in Terminals : ~InSocket(m, t)
        /\ \A l \in Loops : ~InJob(m, l)
    BY NoMessage DEF Init, InSocket, InJob
  <2>2. reached[m] = <<>> /\ fate[m] = "unsent"
    BY DEF Init
  <2>3. Once(<<>>)
    BY DEF Once
  <2>. QED BY <2>1, <2>2, <2>3 DEF Serve, SocketOK, LoopOK, FateOK
<1>. QED BY <1>1, <1>2 DEF ServeInv

LEMMA ServeNext == ASSUME TypeInv, ServeInv, [Next]_vars PROVE ServeInv'
<1>1. KeyInv' /\ \A u, g : IsMember(u, g) => IsMember(u, g)'
  BY KeyNext DEF ServeInv
<1>2. KeyInv
  BY DEF ServeInv
<1>3. ASSUME NEW m \in Msgs PROVE Serve(m)'
  <2>0. Serve(m)
    BY DEF ServeInv
  <2>1. ASSUME NEW t \in Terminals, Type(t) PROVE Serve(m)'
    BY <1>1, <2>0, <2>1, TypeServes
  <2>2. ASSUME NEW t \in Terminals, Logout(t) \/ ReadAnswer(t) PROVE Still(m)
    BY <2>2 DEF Logout, ReadAnswer, loopVars, historyVars, Still
  <2>3. ASSUME NEW t \in Terminals, OnMessage(t) PROVE Serve(m)'
    BY <1>1, <2>0, <2>3, OnMessageServes
  <2>4. ASSUME NEW l \in Loops, Handle(l) PROVE Still(m) \/ Serve(m)'
    BY <1>2, <2>0, <2>4, HandleStill, GroupChatServes, FanOutServes, FanOutEndServes
  <2>5. ASSUME NEW s \in Servers, Crash(s) PROVE Serve(m)'
    BY <2>0, <2>5, CrashServes
  <2>6. CASE UNCHANGED vars
    <3>1. Still(m)
      BY <2>6 DEF vars, clientVars, loopVars, historyVars, Still
    <3>. QED BY <1>1, <2>0, <3>1, StillServes
  <2>7. Still(m) => Serve(m)'
    BY <1>1, <2>0, StillServes
  <2>. QED BY <2>1, <2>2, <2>3, <2>4, <2>5, <2>6, <2>7 DEF Next
<1>. QED BY <1>1, <1>3 DEF ServeInv

(***************************************************************************)
(* groupChat serves whoever was a member when the message was sent, nobody *)
(* who is no member, not the sender, and nobody twice where the table has  *)
(* its key: the window between the query and the loop (chatservice.cpp:279 *)
(* and 284) loses nobody, however many servers insert rows in it.          *)
(***************************************************************************)
THEOREM ServedMembers == Spec => []MembersAreServed
<1>1. TypeInv /\ ServeInv => MembersAreServed
  <2>. SUFFICES ASSUME ServeInv, NEW m \in Msgs
                PROVE  /\ fate[m] = "done" => expected[m] \subseteq Range(reached[m])
                       /\ \A l \in Loops : pc[l] = "fanOut" /\ InJob(m, l) =>
                            /\ job[l].req.user \notin Range(reached[m])
                            /\ \A u \in Range(reached[m]) : IsMember(u, job[l].req.id)
                       /\ Keyed => Once(reached[m])
    BY DEF MembersAreServed, InJob, Once
  <2>. QED BY DEF ServeInv, Serve, LoopOK, FateOK, Serving
<1>2. Init => TypeInv /\ ServeInv
  BY TypesInit, ServeBegins
<1>3. TypeInv /\ ServeInv /\ [Next]_vars => (TypeInv /\ ServeInv)'
  BY TypesNext, ServeNext
<1>. QED BY <1>1, <1>2, <1>3, PTL DEF Spec

-----------------------------------------------------------------------------
(***************************************************************************)
(* For any cluster, schema and fault: the groups of a login answer come    *)
(* with everyone who was in them when the list of groups was made.         *)
(*                                                                         *)
(* The joins drop rows of users without an account, so the argument has    *)
(* two parts: every user the system works for has an account, and a list   *)
(* in the making covers the rows there were at its beginning.              *)
(***************************************************************************)
Exists(u) == u \in DOMAIN accounts

\* A request in use is that of somebody with an account.
UserExists(r) == r.kind \notin {"none", "reg"} => Exists(r.user)

\* A list is empty, or has the user and all rows up to since.
Whole(list, id, since) ==
  \/ list.members = {}
  \/ /\ id \in list.members
     /\ \A i \in 1 .. since : groupUser[i].group = list.group => groupUser[i].user \in list.members

Complete(a) ==
  /\ a.kind = "login" => Exists(a.id)
  /\ a.since <= Len(groupUser)
  /\ \A list \in a.lists : Whole(list, a.id, a.since)

\* login between its statements.
Collecting(p, j) ==
  /\ p \in {"groups", "members"} => j.answer.id = j.req.user
  /\ p = "groups" => j.answer.lists = {}
  /\ p = "members" => \A g \in j.left : IsMember(j.req.user, g)

MembersExist == \A i \in DOMAIN groupUser : Exists(groupUser[i].user)

TerminalOK(t) ==
  /\ termPc[t] = "chatting" => Exists(account[t])
  /\ UserExists(request[t])
  /\ Complete(answer[t])

ListLoopOK(l) ==
  /\ UserExists(job[l].req)
  /\ Complete(job[l].answer)
  /\ Collecting(pc[l], job[l])

ListInv ==
  /\ MembersExist
  /\ \A t \in Terminals : TerminalOK(t) /\ \A u \in KnownTo[t] : Exists(u)
  /\ \A l \in Loops : ListLoopOK(l)

-----------------------------------------------------------------------------
\* Accounts and members are only ever added.
Grow ==
  /\ DOMAIN accounts \subseteq DOMAIN accounts'
  /\ Len(groupUser) \in Nat /\ Len(groupUser)' \in Nat /\ Len(groupUser) <= Len(groupUser)'
  /\ \A i \in 1 .. Len(groupUser) : groupUser'[i] = groupUser[i]
  /\ \A u, g : IsMember(u, g) => IsMember(u, g)'

LEMMA StaysWhole ==
  ASSUME Grow, NEW a \in Answers, Complete(a)
  PROVE  Complete(a)'
<1>1. a.since \in Nat
  BY DEF Answers
<1>2. a.since <= Len(groupUser)'
  BY <1>1 DEF Grow, Complete
<1>3. ASSUME NEW i \in 1 .. a.since PROVE groupUser'[i] = groupUser[i]
  BY <1>1 DEF Grow, Complete
<1>4. ASSUME NEW list \in a.lists PROVE Whole(list, a.id, a.since)'
  BY <1>3 DEF Complete, Whole
<1>5. a.kind = "login" => Exists(a.id)'
  BY DEF Complete, Exists, Grow
<1>. QED BY <1>2, <1>4, <1>5 DEF Complete

LEMMA StaysCollecting ==
  ASSUME Grow, NEW p, NEW j, Collecting(p, j)
  PROVE  Collecting(p, j)'
BY DEF Collecting, Grow

LEMMA TerminalStays ==
  ASSUME TypeInv, Grow, NEW t \in Terminals, TerminalOK(t),
         termPc'[t] = "chatting" => termPc[t] = "chatting" /\ account'[t] = account[t],
         request'[t] = request[t] \/ request'[t] = NoRequest,
         answer'[t] = answer[t] \/ answer'[t] = NoAnswer
  PROVE  TerminalOK(t)'
<1>1. termPc'[t] = "chatting" => Exists(account[t])'
  BY DEF TerminalOK, Exists, Grow
<1>2. UserExists(request[t])'
  <2>1. NoRequest.kind = "none"
    BY DEF NoRequest, Request
  <2>. QED BY <2>1 DEF TerminalOK, UserExists, Exists, Grow
<1>3. Complete(answer[t])'
  <2>. PICK a \in Answers : a = answer[t]
    BY DEF TypeInv, ClientsTyped
  <2>1. Complete(a)'
    BY StaysWhole DEF TerminalOK
  <2>2. NoAnswer.kind = "none" /\ NoAnswer.lists = {} /\ NoAnswer.since = 0
    BY DEF NoAnswer, Answer
  <2>3. CASE answer'[t] = a
    BY <2>1, <2>3 DEF Complete
  <2>4. CASE answer'[t] = NoAnswer
    BY <2>2, <2>4 DEF Complete, Grow
  <2>. QED BY <2>3, <2>4
<1>. QED BY <1>1, <1>2, <1>3 DEF TerminalOK

LEMMA LoopStays ==
  ASSUME TypeInv, Grow, NEW l \in Loops, ListLoopOK(l), pc'[l] = pc[l], job'[l] = job[l]
  PROVE  ListLoopOK(l)'
<1>. PICK j \in Jobs : j = job[l] /\ j.answer \in Answers
  BY JobAt DEF TypeInv
<1>. PICK p : p = pc[l]
  OBVIOUS
<1>1. Collecting(p, j)' /\ Complete(j.answer)'
  BY StaysWhole, StaysCollecting DEF ListLoopOK
<1>2. UserExists(j.req)'
  BY DEF ListLoopOK, UserExists, Exists, Grow
<1>3. Collecting(pc[l], job[l])'
  BY <1>1 DEF Collecting
<1>4. Complete(job[l].answer)'
  BY <1>1 DEF Complete
<1>. QED BY <1>2, <1>3, <1>4 DEF ListLoopOK, UserExists

LEMMA LoopEnds ==
  ASSUME Grow, NEW l \in Loops, pc'[l] = "idle", job'[l] = NoJob
  PROVE  ListLoopOK(l)'
<1>1. /\ NoAnswer.kind = "none" /\ NoAnswer.lists = {} /\ NoAnswer.since = 0
      /\ NoRequest.kind = "none"
  BY DEF NoAnswer, Answer, NoRequest, Request
<1>2. UserExists(job[l].req)'
  BY <1>1, NoJobFields DEF UserExists
<1>3. Complete(job[l].answer)'
  BY <1>1, NoJobFields DEF Complete, Grow
<1>4. Collecting(pc[l], job[l])'
  BY DEF Collecting
<1>. QED BY <1>2, <1>3, <1>4 DEF ListLoopOK

-----------------------------------------------------------------------------
(***************************************************************************)
(* The tables.                                                             *)
(***************************************************************************)
LEMMA MemberAdds ==
  ASSUME TypeInv, MembersExist, NEW u \in Nat, NEW g \in Nat, NEW role \in {"creator", "normal"}, NEW result,
         MemberInsert(u, g, role, result), Exists(u), GroupTablesTypeOK'
  PROVE  Grow /\ MembersExist'
<1>1. accounts' = accounts
  BY DEF MemberInsert
<1>2. /\ DOMAIN groupUser \subseteq DOMAIN groupUser'
      /\ \A i \in DOMAIN groupUser : groupUser'[i] = groupUser[i]
      /\ \A i \in DOMAIN groupUser' : i \in DOMAIN groupUser \/ groupUser'[i].user = u
  BY MembersGrow
<1>3. /\ DOMAIN groupUser = 1 .. Len(groupUser) /\ Len(groupUser) \in Nat
      /\ DOMAIN groupUser' = 1 .. Len(groupUser') /\ Len(groupUser') \in Nat
  BY DEF TypeInv, GroupTablesTypeOK
<1>4. Len(groupUser) <= Len(groupUser')
  BY <1>2, <1>3
<1>5. \A v, h : IsMember(v, h) => IsMember(v, h)'
  BY <1>2, MemberStays
<1>6. MembersExist'
  BY <1>1, <1>2 DEF MembersExist, Exists
<1>. QED BY <1>1, <1>2, <1>3, <1>4, <1>5, <1>6 DEF Grow

LEMMA MembersSame ==
  ASSUME TypeInv, MembersExist, groupUser' = groupUser, DOMAIN accounts \subseteq DOMAIN accounts'
  PROVE  Grow /\ MembersExist'
<1>1. Len(groupUser) \in Nat
  BY Ids DEF TypeInv
<1>2. \A u, g : IsMember(u, g) => IsMember(u, g)'
  BY DEF IsMember
<1>. QED BY <1>1, <1>2 DEF Grow, MembersExist, Exists

LEMMA HandlersUser ==
  ASSUME TypeInv, ListInv, NEW l \in Loops, pc[l] \notin {"idle", "reg", "ack"}
  PROVE  Exists(job[l].req.user) /\ job[l].req.user \in Nat
<1>1. /\ job[l].req \in Requests /\ ReqOK(job[l].req)
      /\ pc[l] \in Pcs /\ job[l].req.kind \in KindsAt(pc[l])
  BY JobAt DEF TypeInv, JobsTyped
<1>2. job[l].req.kind \in {"login", "addFriend", "createGroup", "addGroup", "groupChat"}
  BY <1>1 DEF Pcs, KindsAt
<1>3. job[l].req.user \in Nat
  BY <1>1, <1>2, RequestTyped
<1>. QED BY <1>2, <1>3 DEF ListInv, ListLoopOK, UserExists

LEMMA AccountsKept ==
  ASSUME TypeInv, NEW l \in Loops, Handle(l)
  PROVE  Reg(l) \/ accounts' = accounts
<1>1. Ack(l) \/ FanOut(l) \/ FanOutEnd(l) \/ LoginListed(l) => accounts' = accounts
  BY DEF Ack, FanOut, FanOutEnd, LoginListed, groupTableVars, tablesOnly
<1>2. GroupChat(l) \/ LoginFriends(l) \/ LoginGroups(l) \/ LoginMembers(l) => accounts' = accounts
  BY DEF GroupChat, LoginFriends, LoginGroups, LoginMembers, tablesOnly
<1>3. AddFriend(l) \/ AddGroup(l) \/ CreateGroup(l) \/ AddCreator(l) => accounts' = accounts
  BY DEF AddFriend, AddGroup, CreateGroup, AddCreator, FriendInsert, MemberInsert, GroupInsert
<1>. QED BY <1>1, <1>2, <1>3 DEF Handle

LEMMA AccountsNext ==
  ASSUME TypeInv, [Next]_vars
  PROVE  DOMAIN accounts \subseteq DOMAIN accounts'
<1>1. ASSUME NEW l \in Loops, Reg(l) PROVE DOMAIN accounts \subseteq DOMAIN accounts'
  <2>1. /\ job[l].req \in Requests /\ ReqOK(job[l].req)
        /\ job[l].term \in Terminals /\ job[l].req.kind = "reg"
    BY <1>1, JobAt DEF TypeInv, Reg, KindsAt
  <2>2. job[l].req.name \in Names
    BY <2>1, RequestTyped
  <2>. PICK name \in Names, t \in Terminals : name = job[l].req.name /\ t = job[l].term
    BY <2>1, <2>2
  <2>3. PICK result : UserInsert(name, t, result)
    BY <1>1 DEF Reg
  <2>. QED BY <2>3, AccountsGrow
<1>2. ASSUME NEW t \in Terminals, Type(t) \/ Logout(t) \/ ReadAnswer(t) \/ OnMessage(t)
      PROVE  accounts' = accounts
  BY <1>2 DEF Type, SendReg, SendLogin, SendCommand, SendGroupChat, Send, Logout, ReadAnswer, OnMessage,
     groupTableVars, tablesOnly
<1>3. ASSUME NEW s \in Servers, Crash(s) PROVE accounts' = accounts
  BY <1>3 DEF Crash, groupTableVars, tablesOnly
<1>4. UNCHANGED vars => accounts' = accounts
  BY DEF vars, groupTableVars, tablesOnly
<1>. QED BY <1>1, <1>2, <1>3, <1>4, AccountsKept DEF Next

LEMMA TablesNext ==
  ASSUME TypeInv, TypeInv', ListInv, [Next]_vars
  PROVE  Grow /\ MembersExist'
<1>0. MembersExist /\ GroupTablesTypeOK'
  BY DEF ListInv, TypeInv
<1>1. groupUser' = groupUser => Grow /\ MembersExist'
  BY <1>0, AccountsNext, MembersSame
<1>2. ASSUME NEW l \in Loops, AddGroup(l) PROVE Grow /\ MembersExist'
  <2>1. pc[l] = "addGroup" /\ Exists(job[l].req.user)
    BY <1>2, HandlersUser DEF AddGroup
  <2>. PICK u \in Nat, g \in Nat : u = job[l].req.user /\ g = job[l].req.id
    BY <2>1, JobAt, RequestTyped DEF TypeInv, KindsAt
  <2>2. PICK result : MemberInsert(u, g, "normal", result)
    BY <1>2 DEF AddGroup
  <2>3. Exists(u)
    BY <2>1
  <2>. QED BY <1>0, <2>2, <2>3, MemberAdds
<1>3. ASSUME NEW l \in Loops, AddCreator(l) PROVE Grow /\ MembersExist'
  <2>1. pc[l] = "addCreator" /\ Exists(job[l].req.user)
    BY <1>3, HandlersUser DEF AddCreator
  <2>. PICK u \in Nat, g \in Nat : u = job[l].req.user /\ g = job[l].group
    BY <2>1, HandlersUser DEF TypeInv, JobsTyped, JobOK
  <2>2. PICK result : MemberInsert(u, g, "creator", result)
    BY <1>3 DEF AddCreator
  <2>3. Exists(u)
    BY <2>1
  <2>. QED BY <1>0, <2>2, <2>3, MemberAdds
<1>4. ASSUME NEW l \in Loops, CreateGroup(l) PROVE groupUser' = groupUser
  BY <1>4 DEF CreateGroup, GroupInsert
<1>5. ASSUME NEW s \in Servers, Crash(s) PROVE groupUser' = groupUser
  BY <1>5 DEF Crash, groupTableVars, tablesOnly
<1>6. Quiet => groupUser' = groupUser
  BY DEF Quiet
<1>. QED BY <1>1, <1>2, <1>3, <1>4, <1>5, <1>6, QuietNext

-----------------------------------------------------------------------------
(***************************************************************************)
(* The terminals' steps.                                                   *)
(***************************************************************************)
Clients == \A t \in Terminals : TerminalOK(t)
Threads == \A l \in Loops : ListLoopOK(l)

LEMMA ThreadsStay ==
  ASSUME TypeInv, ListInv, Grow, UNCHANGED <<pc, job>>
  PROVE  Threads'
<1>1. ASSUME NEW l \in Loops PROVE ListLoopOK(l)'
  <2>1. pc'[l] = pc[l] /\ job'[l] = job[l]
    OBVIOUS
  <2>. QED BY <2>1, LoopStays DEF ListInv
<1>. QED BY <1>1 DEF Threads

LEMMA ClientsStay ==
  ASSUME TypeInv, ListInv, Grow, UNCHANGED <<termPc, account, request, answer>>
  PROVE  Clients'
<1>1. ASSUME NEW t \in Terminals PROVE TerminalOK(t)'
  <2>1. termPc'[t] = termPc[t] /\ account'[t] = account[t] /\ request'[t] = request[t] /\ answer'[t] = answer[t]
    OBVIOUS
  <2>. QED BY <2>1, TerminalStays DEF ListInv
<1>. QED BY <1>1 DEF Clients

LEMMA SendOK ==
  ASSUME TypeInv, ListInv, Grow, NEW t \in Terminals, NEW r, Send(t, r), UserExists(r),
         account' = account, \A k \in Terminals : termPc'[k] = "chatting" => termPc[k] = "chatting"
  PROVE  Clients' /\ Threads'
<1>1. /\ answer' = answer /\ pc' = pc /\ job' = job
      /\ request'[t] = r /\ \A k \in Terminals \ {t} : request'[k] = request[k]
  BY DEF Send, loopVars, TypeInv, ClientsTyped
<1>2. ASSUME NEW k \in Terminals, k # t PROVE TerminalOK(k)'
  <2>1. account'[k] = account[k] /\ request'[k] = request[k] /\ answer'[k] = answer[k]
    BY <1>1, <1>2
  <2>. QED BY <2>1, TerminalStays DEF ListInv
<1>3. TerminalOK(t)'
  <2>1. UserExists(request[t])'
    BY <1>1 DEF UserExists, Exists, Grow
  <2>2. TerminalOK(t)
    BY DEF ListInv
  <2>3. termPc'[t] = "chatting" => Exists(account[t])'
    BY <2>2 DEF TerminalOK, Exists, Grow
  <2>4. Complete(answer[t])'
    <3>. PICK a \in Answers : a = answer[t]
      BY DEF TypeInv, ClientsTyped
    <3>1. Complete(a)'
      BY <2>2, StaysWhole DEF TerminalOK
    <3>. QED BY <1>1, <3>1 DEF Complete
  <2>. QED BY <2>1, <2>3, <2>4 DEF TerminalOK
<1>4. Threads'
  BY <1>1, ThreadsStay
<1>. QED BY <1>2, <1>3, <1>4 DEF Clients

LEMMA RequestOf ==
  ASSUME NEW kind, NEW user, NEW id, NEW name, NEW msg, kind = "reg" \/ Exists(user)
  PROVE  UserExists(Request(kind, user, id, name, msg))
BY DEF UserExists, Request

LEMMA TypingOK ==
  ASSUME TypeInv, ToldInv, ListInv, Grow, NEW t \in Terminals, Type(t)
  PROVE  Clients' /\ Threads'
<1>0. termPc[t] = "chatting" => Exists(account[t])
  BY DEF ListInv, TerminalOK
<1>1. ASSUME NEW name, SendReg(t, name) PROVE Clients' /\ Threads'
  <2>1. PICK r : Send(t, r) /\ UserExists(r)
    BY <1>1, RequestOf DEF SendReg
  <2>2. account' = account /\ \A k \in Terminals : termPc'[k] = "chatting" => termPc[k] = "chatting"
    BY <1>1 DEF SendReg, TypeInv, ClientsTyped
  <2>. QED BY <2>1, <2>2, SendOK
<1>2. ASSUME NEW u \in KnownTo[t] \cup told[t], SendLogin(t, u) PROVE Clients' /\ Threads'
  <2>1. Exists(u)
    BY DEF ListInv, ToldInv, Own, Exists
  <2>2. PICK r : Send(t, r) /\ UserExists(r)
    BY <1>2, <2>1, RequestOf DEF SendLogin
  <2>3. account' = account /\ \A k \in Terminals : termPc'[k] = "chatting" => termPc[k] = "chatting"
    BY <1>2 DEF SendLogin, TypeInv, ClientsTyped
  <2>. QED BY <2>2, <2>3, SendOK
<1>3. ASSUME NEW kind, NEW id, SendCommand(t, kind, id) PROVE Clients' /\ Threads'
  <2>1. PICK r : Send(t, r) /\ UserExists(r)
    BY <1>0, <1>3, RequestOf DEF SendCommand
  <2>. QED BY <1>3, <2>1, SendOK DEF SendCommand
<1>4. ASSUME NEW g, NEW m, SendGroupChat(t, g, m) PROVE Clients' /\ Threads'
  <2>1. PICK r : Send(t, r) /\ UserExists(r)
    BY <1>0, <1>4, RequestOf DEF SendGroupChat
  <2>. QED BY <1>4, <2>1, SendOK DEF SendGroupChat
<1>. QED BY <1>1, <1>2, <1>3, <1>4 DEF Type

LEMMA LogoutOK ==
  ASSUME TypeInv, ListInv, Grow, NEW t \in Terminals, Logout(t)
  PROVE  Clients' /\ Threads'
<1>1. /\ UNCHANGED <<account, request, answer, pc, job>>
      /\ \A k \in Terminals : termPc'[k] = "chatting" => termPc[k] = "chatting"
  BY DEF Logout, loopVars, TypeInv, ClientsTyped
<1>2. ASSUME NEW k \in Terminals PROVE TerminalOK(k)'
  <2>1. account'[k] = account[k] /\ request'[k] = request[k] /\ answer'[k] = answer[k]
    BY <1>1
  <2>. QED BY <1>1, <2>1, TerminalStays DEF ListInv
<1>. QED BY <1>1, <1>2, ThreadsStay DEF Clients

LEMMA ReadAnswerOK ==
  ASSUME TypeInv, ListInv, Grow, NEW t \in Terminals, ReadAnswer(t)
  PROVE  Clients' /\ Threads'
<1>1. /\ UNCHANGED <<request, pc, job>> /\ answer'[t] = NoAnswer
      /\ \A k \in Terminals \ {t} :
           termPc'[k] = termPc[k] /\ account'[k] = account[k] /\ answer'[k] = answer[k]
      /\ termPc'[t] = "chatting" => answer[t].kind = "login" /\ account'[t] = answer[t].id
  BY DEF ReadAnswer, loopVars, TypeInv, ClientsTyped
<1>2. ASSUME NEW k \in Terminals, k # t PROVE TerminalOK(k)'
  <2>1. request'[k] = request[k]
    BY <1>1
  <2>. QED BY <1>1, <1>2, <2>1, TerminalStays DEF ListInv
<1>3. TerminalOK(t)'
  <2>1. TerminalOK(t)
    BY DEF ListInv
  <2>2. termPc'[t] = "chatting" => Exists(account[t])'
    BY <1>1, <2>1 DEF TerminalOK, Complete, Exists, Grow
  <2>3. UserExists(request[t])'
    BY <1>1, <2>1 DEF TerminalOK, UserExists, Exists, Grow
  <2>4. NoAnswer.kind = "none" /\ NoAnswer.lists = {} /\ NoAnswer.since = 0
    BY DEF NoAnswer, Answer
  <2>5. Complete(answer[t])'
    BY <1>1, <2>4 DEF Complete, Grow
  <2>. QED BY <2>2, <2>3, <2>5 DEF TerminalOK
<1>. QED BY <1>1, <1>2, <1>3, ThreadsStay DEF Clients

LEMMA OnMessageOK ==
  ASSUME TypeInv, ListInv, Grow, NEW t \in Terminals, OnMessage(t)
  PROVE  Clients' /\ Threads'
<1>. PICK l \in Loops : l = LoopOf[t]
  BY GroupsAssumption
<1>. PICK r \in Requests : r = request[t]
  BY DEF TypeInv, ClientsTyped
<1>1. /\ pc'[l] = r.kind /\ job'[l] = JobFor(t, r)
      /\ \A k \in Loops \ {l} : pc'[k] = pc[k] /\ job'[k] = job[k]
  BY GotoAt DEF TypeInv, OnMessage
<1>2. /\ UNCHANGED <<termPc, account, answer>>
      /\ \A k \in Terminals : request'[k] = request[k] \/ request'[k] = NoRequest
  BY DEF OnMessage, TypeInv, ClientsTyped
<1>3. Clients'
  <2>1. ASSUME NEW k \in Terminals PROVE TerminalOK(k)'
    <3>1. termPc'[k] = termPc[k] /\ account'[k] = account[k] /\ answer'[k] = answer[k]
      BY <1>2
    <3>. QED BY <1>2, <3>1, TerminalStays DEF ListInv
  <2>. QED BY <2>1 DEF Clients
<1>4. ListLoopOK(l)'
  <2>1. /\ job'[l].req = r /\ job'[l].answer = NoAnswer
        /\ NoAnswer.kind = "none" /\ NoAnswer.lists = {} /\ NoAnswer.since = 0
    <3>1. JobFor(t, r).req = r /\ JobFor(t, r).answer = NoAnswer
      BY JobForFields
    <3>2. NoAnswer.kind = "none" /\ NoAnswer.lists = {} /\ NoAnswer.since = 0
      BY DEF NoAnswer, Answer
    <3>. QED BY <1>1, <3>1, <3>2
  <2>2. UserExists(r)
    BY DEF ListInv, TerminalOK
  <2>3. UserExists(job[l].req)'
    BY <2>1, <2>2 DEF UserExists, Exists, Grow
  <2>4. Complete(job[l].answer)'
    BY <2>1 DEF Complete, Grow
  <2>5. pc'[l] \notin {"groups", "members"}
    BY <1>1 DEF Requests
  <2>6. Collecting(pc[l], job[l])'
    BY <2>5 DEF Collecting
  <2>. QED BY <2>3, <2>4, <2>6 DEF ListLoopOK
<1>5. ASSUME NEW k \in Loops, k # l PROVE ListLoopOK(k)'
  BY <1>1, <1>5, LoopStays DEF ListInv
<1>. QED BY <1>3, <1>4, <1>5 DEF Threads

-----------------------------------------------------------------------------
(***************************************************************************)
(* The handlers.                                                           *)
(***************************************************************************)
LEMMA ThreadsWith ==
  ASSUME TypeInv, ListInv, Grow, NEW l \in Loops, ListLoopOK(l)',
         \A k \in Loops \ {l} : pc'[k] = pc[k] /\ job'[k] = job[k]
  PROVE  Threads'
<1>1. ASSUME NEW k \in Loops, k # l PROVE ListLoopOK(k)'
  BY <1>1, LoopStays DEF ListInv
<1>. QED BY <1>1 DEF Threads

LEMMA FinishOK ==
  ASSUME TypeInv, ListInv, Grow, NEW l \in Loops, Finish(l)
  PROVE  Threads'
<1>1. /\ pc'[l] = "idle" /\ job'[l] = NoJob
      /\ \A k \in Loops \ {l} : pc'[k] = pc[k] /\ job'[k] = job[k]
  BY FinishAt DEF TypeInv
<1>2. ListLoopOK(l)'
  BY <1>1, LoopEnds
<1>. QED BY <1>1, <1>2, ThreadsWith

\* A step that leaves the request alone.
LEMMA GotoOK ==
  ASSUME TypeInv, ListInv, Grow, NEW l \in Loops, NEW next, NEW j, Goto(l, next, j),
         j.req = job[l].req, Complete(j.answer)', Collecting(next, j)'
  PROVE  Threads'
<1>1. /\ pc'[l] = next /\ job'[l] = j
      /\ \A k \in Loops \ {l} : pc'[k] = pc[k] /\ job'[k] = job[k]
  BY GotoAt DEF TypeInv
<1>2. UserExists(job[l].req)'
  BY <1>1 DEF ListInv, ListLoopOK, UserExists, Exists, Grow
<1>3. Complete(job[l].answer)'
  BY <1>1 DEF Complete
<1>4. Collecting(pc[l], job[l])'
  BY <1>1 DEF Collecting
<1>5. ListLoopOK(l)'
  BY <1>2, <1>3, <1>4 DEF ListLoopOK
<1>. QED BY <1>1, <1>5, ThreadsWith

LEMMA AnswerStays ==
  ASSUME TypeInv, ListInv, Grow, NEW l \in Loops, NEW a, a = job[l].answer
  PROVE  Complete(a)'
<1>1. a \in Answers
  BY JobAt DEF TypeInv
<1>2. Complete(a)
  BY DEF ListInv, ListLoopOK
<1>. QED BY <1>1, <1>2, StaysWhole

LEMMA RegOK ==
  ASSUME TypeInv, ListInv, Grow, NEW l \in Loops, Reg(l)
  PROVE  Clients' /\ Threads'
<1>1. PICK id \in Id : Goto(l, "ack", [job[l] EXCEPT !.answer = Answer("reg", id, {})])
  <2>1. PICK result \in Results : Goto(l, "ack", [job[l] EXCEPT !.answer =
          Answer("reg", IF result.ok THEN InsertId(accounts) ELSE None, {})])
    BY DEF Reg
  <2>2. InsertId(accounts) \in Nat
    BY DEF InsertId, TypeInv, GroupTablesTypeOK
  <2>. QED BY <2>1, <2>2 DEF Id
<1>. PICK a \in Answers : /\ a = Answer("reg", id, {})
                          /\ a.kind = "reg" /\ a.lists = {} /\ a.since = 0
  BY AnswerFields
<1>. PICK j : j = [job[l] EXCEPT !.answer = a] /\ j.req = job[l].req /\ j.answer = a
  BY JobAt, JobAnswer DEF TypeInv
<1>2. Complete(j.answer)' /\ Collecting("ack", j)'
  BY DEF Complete, Collecting, Grow
<1>3. Threads'
  BY <1>1, <1>2, GotoOK
<1>4. Clients'
  BY ClientsStay DEF Reg, HandlersElse, clientVars
<1>. QED BY <1>3, <1>4

LEMMA AckOK ==
  ASSUME TypeInv, ListInv, Grow, NEW l \in Loops, Ack(l)
  PROVE  Clients' /\ Threads'
<1>. PICK a \in Answers : a = job[l].answer
  BY JobAt DEF TypeInv
<1>. PICK t : t = job[l].term
  OBVIOUS
<1>1. /\ UNCHANGED <<termPc, account, request>>
      /\ \A k \in Terminals : answer'[k] = IF k = t THEN a ELSE answer[k]
  BY DEF Ack, TypeInv, ClientsTyped
<1>2. Complete(a)'
  BY AnswerStays
<1>3. ASSUME NEW k \in Terminals, k # t PROVE TerminalOK(k)'
  <2>1. termPc'[k] = termPc[k] /\ account'[k] = account[k] /\ request'[k] = request[k] /\ answer'[k] = answer[k]
    BY <1>1, <1>3
  <2>. QED BY <2>1, TerminalStays DEF ListInv
<1>4. ASSUME NEW k \in Terminals, k = t PROVE TerminalOK(k)'
  <2>1. TerminalOK(k)
    BY DEF ListInv
  <2>2. Complete(answer[k])'
    BY <1>1, <1>2, <1>4 DEF Complete
  <2>3. termPc'[k] = "chatting" => Exists(account[k])'
    BY <1>1, <2>1 DEF TerminalOK, Exists, Grow
  <2>4. UserExists(request[k])'
    BY <1>1, <2>1 DEF TerminalOK, UserExists, Exists, Grow
  <2>. QED BY <2>2, <2>3, <2>4 DEF TerminalOK
<1>5. Threads'
  BY FinishOK DEF Ack
<1>. QED BY <1>3, <1>4, <1>5 DEF Clients

LEMMA LoginFriendsOK ==
  ASSUME TypeInv, ListInv, Grow, NEW l \in Loops, LoginFriends(l)
  PROVE  Threads'
<1>. PICK u \in Nat : u = job[l].req.user /\ Exists(u)
  BY HandlersUser DEF LoginFriends
<1>1. PICK vec \in SUBSET Nat : Goto(l, "groups", [job[l] EXCEPT !.answer = Answer("login", u, vec)])
  BY Ids DEF LoginFriends, TypeInv
<1>. PICK a \in Answers : /\ a = Answer("login", u, vec)
                          /\ a.id = u /\ a.lists = {} /\ a.since = 0
  BY NatIsId, AnswerFields
<1>. PICK j : j = [job[l] EXCEPT !.answer = a] /\ j.req = job[l].req /\ j.answer = a
  BY JobAt, JobAnswer DEF TypeInv
<1>2. Complete(j.answer)'
  BY DEF Complete, Exists, Grow
<1>3. Collecting("groups", j)'
  BY DEF Collecting
<1>. QED BY <1>1, <1>2, <1>3, GotoOK

\* What LoginGroups changes in its job, and what it leaves.
LEMMA GroupsWith ==
  ASSUME NEW i \in Jobs, NEW rows \in SUBSET Nat, NEW n \in Nat
  PROVE  \E j : /\ j = WithGroups(i, rows, n)
                /\ j.req = i.req /\ j.left = rows
                /\ j.answer.kind = i.answer.kind /\ j.answer.id = i.answer.id
                /\ j.answer.lists = i.answer.lists /\ j.answer.since = n
BY JobLeft

LEMMA LoginGroupsOK ==
  ASSUME TypeInv, ListInv, Grow, NEW l \in Loops, LoginGroups(l)
  PROVE  Threads'
<1>. PICK u : u = job[l].req.user
  OBVIOUS
<1>. PICK b \in Answers : b = job[l].answer
  BY JobAt DEF TypeInv
<1>. PICK n \in Nat : n = Len(groupUser)
  BY Ids DEF TypeInv
<1>1. b.id = u /\ b.lists = {} /\ Complete(b)
  BY DEF LoginGroups, ListInv, ListLoopOK, Collecting
<1>2. PICK rows \in SUBSET Nat : /\ Goto(l, "members", WithGroups(job[l], rows, n))
                                 /\ rows \subseteq GroupsOf(u)
  BY Ids DEF LoginGroups, TypeInv
<1>3. \A g \in rows : IsMember(u, g)
  BY <1>2 DEF GroupsOf
<1>4. PICK j : /\ j = WithGroups(job[l], rows, n)
               /\ j.req = job[l].req /\ j.left = rows
               /\ j.answer.kind = b.kind /\ j.answer.id = b.id /\ j.answer.lists = b.lists /\ j.answer.since = n
  <2>1. PICK i \in Jobs : i = job[l]
    BY JobAt DEF TypeInv
  <2>. QED BY <2>1, GroupsWith
<1>5. Complete(j.answer)'
  BY <1>1, <1>4 DEF Complete, Exists, Grow
<1>6. Collecting("members", j)'
  BY <1>1, <1>3, <1>4 DEF Collecting, Grow
<1>. QED BY <1>2, <1>4, <1>5, <1>6, GotoOK

\* The list of one group covers what was there when the groups were read.
LEMMA ListWhole ==
  ASSUME TypeInv, MembersExist, NEW u, NEW g, Exists(u), IsMember(u, g), NEW n \in Nat, n <= Len(groupUser)
  PROVE  /\ u \in MembersOf(g)
         /\ \A i \in 1 .. n : groupUser[i].group = g => groupUser[i].user \in MembersOf(g)
<1>1. DOMAIN groupUser = 1 .. Len(groupUser) /\ Len(groupUser) \in Nat
  BY RowFields DEF TypeInv
<1>2. u \in MembersOf(g)
  BY DEF MembersOf, Exists
<1>3. ASSUME NEW i \in 1 .. n, groupUser[i].group = g PROVE groupUser[i].user \in MembersOf(g)
  <2>. PICK v : v = groupUser[i].user
    OBVIOUS
  <2>1. i \in DOMAIN groupUser
    BY <1>1
  <2>2. IsMember(v, g)
    BY <1>3, <2>1, IsMemberRow DEF TypeInv
  <2>3. Exists(v)
    BY <2>1 DEF MembersExist
  <2>. QED BY <2>2, <2>3 DEF MembersOf, Exists
<1>. QED BY <1>2, <1>3

LEMMA LoginMembersOK ==
  ASSUME TypeInv, ListInv, Grow, NEW l \in Loops, LoginMembers(l)
  PROVE  Threads'
<1>. PICK u \in Nat : u = job[l].req.user /\ Exists(u)
  BY HandlersUser DEF LoginMembers
<1>. PICK b \in Answers : b = job[l].answer
  BY JobAt DEF TypeInv
<1>1. /\ b.id = u /\ Complete(b) /\ b.since \in Nat
      /\ \A g \in job[l].left : IsMember(u, g)
  BY DEF LoginMembers, ListInv, ListLoopOK, Collecting, Answers
<1>. PICK g \in job[l].left : \E vec \in {MembersOf(g), {}} :
       Goto(l, "members", WithList(job[l], g, vec))
  BY DEF LoginMembers
<1>2. PICK vec \in {MembersOf(g), {}} : Goto(l, "members", WithList(job[l], g, vec))
  OBVIOUS
<1>3. g \in Nat /\ vec \in SUBSET Nat
  BY JobAt, Ids DEF TypeInv
<1>. PICK list : list = [group |-> g, members |-> vec]
  OBVIOUS
<1>4. PICK j \in Jobs : /\ j = WithList(job[l], g, vec)
                        /\ j.req = job[l].req /\ j.left \subseteq job[l].left
                        /\ j.answer.kind = b.kind /\ j.answer.id = b.id /\ j.answer.since = b.since
                        /\ j.answer.lists = b.lists \cup {list}
  BY <1>3, JobAt, JobList DEF TypeInv
<1>5. Whole(list, u, b.since)
  <2>1. b.since <= Len(groupUser) /\ IsMember(u, g)
    BY <1>1 DEF Complete
  <2>2. list.group = g /\ list.members = vec
    OBVIOUS
  <2>. QED BY <1>1, <2>1, <2>2, ListWhole DEF Whole, ListInv
<1>6. Complete(j.answer)
  BY <1>1, <1>4, <1>5 DEF Complete
<1>7. Complete(j.answer)'
  <2>. PICK c \in Answers : c = j.answer
    BY DEF Jobs
  <2>. QED BY <1>6, StaysWhole
<1>8. Collecting("members", j)'
  BY <1>1, <1>4 DEF Collecting, Grow
<1>. QED BY <1>2, <1>4, <1>7, <1>8, GotoOK

LEMMA LoginListedOK ==
  ASSUME TypeInv, ListInv, Grow, NEW l \in Loops, LoginListed(l)
  PROVE  Threads'
<1>. PICK j : j = job[l]
  OBVIOUS
<1>1. Complete(j.answer)'
  BY AnswerStays
<1>2. Collecting("ack", j)'
  BY DEF Collecting
<1>. QED BY <1>1, <1>2, GotoOK DEF LoginListed

LEMMA HandleOK ==
  ASSUME TypeInv, ListInv, Grow, NEW l \in Loops, Handle(l)
  PROVE  Clients' /\ Threads'
<1>1. Ack(l) \/ UNCHANGED <<termPc, account, request, answer>>
  BY DEF Handle, Reg, AddFriend, AddGroup, CreateGroup, AddCreator, GroupChat, FanOut, FanOutEnd,
     LoginFriends, LoginGroups, LoginMembers, LoginListed, HandlersElse, clientVars
<1>2. Ack(l) \/ Clients'
  BY <1>1, ClientsStay
<1>3. CASE AddFriend(l) \/ AddGroup(l) \/ AddCreator(l) \/ FanOutEnd(l)
  <2>1. Finish(l)
    BY <1>3 DEF AddFriend, AddGroup, AddCreator, FanOutEnd
  <2>2. Threads'
    BY <2>1, FinishOK
  <2>3. ~Ack(l)
    BY <1>3 DEF AddFriend, AddGroup, AddCreator, FanOutEnd, Ack
  <2>. QED BY <1>2, <2>2, <2>3
<1>4. CASE CreateGroup(l)
  <2>0. Clients'
    BY <1>2, <1>4 DEF CreateGroup, Ack
  <2>1. CASE Finish(l)
    BY <2>0, <2>1, FinishOK
  <2>2. CASE Goto(l, "addCreator", [job[l] EXCEPT !.group = InsertId(groups)])
    <3>. PICK n \in Id : n = InsertId(groups)
      BY DEF InsertId, TypeInv, GroupTablesTypeOK, Id
    <3>1. PICK j : /\ j = [job[l] EXCEPT !.group = n]
                   /\ j.req = job[l].req /\ j.answer = job[l].answer
      BY JobAt, JobGroup DEF TypeInv
    <3>2. Complete(j.answer)' /\ Collecting("addCreator", j)'
      BY <3>1, AnswerStays DEF Collecting
    <3>. QED BY <2>0, <2>2, <3>1, <3>2, GotoOK
  <2>. QED BY <1>4, <2>1, <2>2 DEF CreateGroup
<1>5. CASE GroupChat(l) \/ FanOut(l)
  <2>0. Clients'
    BY <1>2, <1>5 DEF GroupChat, FanOut, Ack
  <2>1. PICK rest : Goto(l, "fanOut", [job[l] EXCEPT !.rest = rest])
    <3>1. CASE GroupChat(l)
      BY <3>1 DEF GroupChat
    <3>2. CASE FanOut(l)
      BY <3>2 DEF FanOut
    <3>. QED BY <1>5, <3>1, <3>2
  <2>. PICK j : j = [job[l] EXCEPT !.rest = rest]
    OBVIOUS
  <2>2. j.req = job[l].req /\ j.answer = job[l].answer
    BY JobAt DEF TypeInv, Jobs
  <2>3. Complete(j.answer)' /\ Collecting("fanOut", j)'
    BY <2>2, AnswerStays DEF Collecting
  <2>. QED BY <2>0, <2>1, <2>2, <2>3, GotoOK
<1>6. CASE LoginFriends(l) \/ LoginGroups(l) \/ LoginMembers(l) \/ LoginListed(l)
  <2>1. Clients'
    BY <1>2, <1>6 DEF LoginFriends, LoginGroups, LoginMembers, LoginListed, Ack
  <2>2. Threads'
    BY <1>6, LoginFriendsOK, LoginGroupsOK, LoginMembersOK, LoginListedOK
  <2>. QED BY <2>1, <2>2
<1>7. CASE Reg(l) \/ Ack(l)
  BY <1>7, RegOK, AckOK
<1>. QED BY <1>3, <1>4, <1>5, <1>6, <1>7 DEF Handle

LEMMA CrashOK ==
  ASSUME TypeInv, ListInv, Grow, NEW s \in Servers, Crash(s)
  PROVE  Clients' /\ Threads'
<1>1. /\ account' = account
      /\ \A t \in Terminals : /\ termPc'[t] = "chatting" => termPc[t] = "chatting"
                              /\ request'[t] = request[t] \/ request'[t] = NoRequest
                              /\ answer'[t] = answer[t] \/ answer'[t] = NoAnswer
      /\ \A l \in Loops : (pc'[l] = "idle" /\ job'[l] = NoJob) \/ (pc'[l] = pc[l] /\ job'[l] = job[l])
  BY DEF Crash
<1>2. ASSUME NEW t \in Terminals PROVE TerminalOK(t)'
  <2>1. account'[t] = account[t]
    BY <1>1
  <2>. QED BY <1>1, <2>1, TerminalStays DEF ListInv
<1>3. ASSUME NEW l \in Loops PROVE ListLoopOK(l)'
  BY <1>1, LoopStays, LoopEnds DEF ListInv
<1>. QED BY <1>2, <1>3 DEF Clients, Threads

-----------------------------------------------------------------------------
LEMMA ListBegins == Init => ListInv
<1>. SUFFICES ASSUME Init PROVE ListInv
  OBVIOUS
<1>1. MembersExist /\ Len(groupUser) = 0
  BY DEF Init, GroupTablesInit, MembersExist
<1>2. \A t \in Terminals : \A u \in KnownTo[t] : Exists(u)
  BY GroupsAssumption DEF Init, GroupTablesInit, Exists
<1>3. /\ NoAnswer.kind = "none" /\ NoAnswer.lists = {} /\ NoAnswer.since = 0
      /\ NoRequest.kind = "none"
  BY DEF NoAnswer, Answer, NoRequest, Request
<1>4. ASSUME NEW t \in Terminals PROVE TerminalOK(t)
  BY <1>1, <1>3 DEF Init, TerminalOK, UserExists, Complete
<1>5. ASSUME NEW l \in Loops PROVE ListLoopOK(l)
  BY <1>1, <1>3, NoJobFields DEF Init, ListLoopOK, UserExists, Complete, Collecting
<1>. QED BY <1>1, <1>2, <1>4, <1>5 DEF ListInv

LEMMA ListNext == ASSUME TypeInv, TypeInv', ToldInv, ListInv, [Next]_vars PROVE ListInv'
<1>1. Grow /\ MembersExist'
  BY TablesNext
<1>2. \A t \in Terminals : \A u \in KnownTo[t] : Exists(u)'
  BY <1>1 DEF ListInv, Exists, Grow
<1>3. ASSUME NEW t \in Terminals, Type(t) \/ Logout(t) \/ ReadAnswer(t) \/ OnMessage(t)
      PROVE  Clients' /\ Threads'
  BY <1>1, <1>3, TypingOK, LogoutOK, ReadAnswerOK, OnMessageOK
<1>4. ASSUME NEW l \in Loops, Handle(l) PROVE Clients' /\ Threads'
  BY <1>1, <1>4, HandleOK
<1>5. ASSUME NEW s \in Servers, Crash(s) PROVE Clients' /\ Threads'
  BY <1>1, <1>5, CrashOK
<1>6. ASSUME UNCHANGED vars PROVE Clients' /\ Threads'
  <2>1. UNCHANGED <<termPc, account, request, answer>> /\ UNCHANGED <<pc, job>>
    BY <1>6 DEF vars, clientVars, loopVars
  <2>2. Clients'
    BY <1>1, <2>1, ClientsStay
  <2>3. Threads'
    BY <1>1, <2>1, ThreadsStay
  <2>. QED BY <2>2, <2>3
<1>7. Clients' /\ Threads'
  BY <1>3, <1>4, <1>5, <1>6 DEF Next
<1>. QED BY <1>1, <1>2, <1>7 DEF ListInv, Clients, Threads

(***************************************************************************)
(* The groups in a login answer come with everyone who was in them when    *)
(* the list was made, the user included, although each list is a statement *)
(* of its own and others join meanwhile (groupmodel.cpp:44 and 61); only a *)
(* failing statement leaves a list empty.                                  *)
(***************************************************************************)
THEOREM WholeLists == Spec => []ListsAreWhole
<1>1. ListInv => ListsAreWhole
  <2>. SUFFICES ASSUME ListInv, NEW t \in Terminals, NEW list \in answer[t].lists
                PROVE  Whole(list, answer[t].id, answer[t].since)
    BY DEF ListsAreWhole, Whole
  <2>. QED BY DEF ListInv, TerminalOK, Complete
<1>2. Init => TypeInv /\ ToldInv /\ ListInv
  BY TypesInit, ToldBegins, ListBegins
<1>3. TypeInv /\ ToldInv /\ ListInv /\ [Next]_vars => (TypeInv /\ ToldInv /\ ListInv)'
  BY TypesNext, ToldNext, ListNext
<1>. QED BY <1>1, <1>2, <1>3, PTL DEF Spec
=============================================================================
