-------------------------- MODULE ChatGroupsProofs --------------------------
(***************************************************************************)
(* For any servers, threads, terminals and faults, and whether or not the  *)
(* tables have keys: creators are founders, the answers to a registration  *)
(* carry the terminal's own accounts, and a group is without its founder   *)
(* only while createGroup is between its statements or after a failure.    *)
(***************************************************************************)
EXTENDS ChatMembership, TLAPS, FiniteSetTheorems, SequenceTheorems

(***************************************************************************)
(* Types: of what is in use, beyond TypeOK.                                *)
(***************************************************************************)
ReqOK(r) ==
  /\ r.kind = "none" => r = NoRequest
  /\ r.kind = "reg" => r.name \in Names
  /\ r.kind \notin {"none", "reg"} => r.user \in Nat
  /\ r.kind \in {"addFriend", "addGroup", "groupChat"} => r.id \in Nat
  /\ IF r.kind = "groupChat" THEN r.msg \in Msgs ELSE r.msg = None

\* The handler whose steps these are.
KindsAt(p) ==
  CASE p = "ack" -> {"reg", "login"}
    [] p = "addCreator" -> {"createGroup"}
    [] p \in {"groups", "members"} -> {"login"}
    [] p = "fanOut" -> {"groupChat"}
    [] OTHER -> {p}

JobOK(p, j) ==
  /\ ReqOK(j.req)
  /\ p = "idle" => j = NoJob
  /\ p # "idle" => j.term \in Terminals /\ j.req.kind \in KindsAt(p)
  /\ p = "addCreator" => j.group \in Nat
  /\ p \in {"groups", "members"} => j.answer.kind = "login"
  /\ j.answer.kind = "login" => j.answer.id \in Nat

ClientsTyped ==
  /\ termPc \in [Terminals -> {"menu", "waitReg", "waitLogin", "chatting", "closed"}]
  /\ account \in [Terminals -> Id]
  /\ told \in [Terminals -> SUBSET Nat]
  /\ request \in [Terminals -> Requests]
  /\ answer \in [Terminals -> Answers]
  /\ asked \in [Terminals -> Nat]
  /\ \A t \in Terminals :
       /\ ReqOK(request[t])
       /\ answer[t].kind = "login" => answer[t].id \in Nat
       /\ termPc[t] = "chatting" => account[t] \in Nat

JobsTyped ==
  /\ pc \in [Loops -> Pcs] /\ job \in [Loops -> Jobs]
  /\ \A l \in Loops : JobOK(pc[l], job[l])

HistoryTyped ==
  /\ crashes \in Nat
  /\ reached \in [Msgs -> Seq(Nat)]
  /\ expected \in [Msgs -> SUBSET Nat]
  /\ fate \in [Msgs -> {"unsent", "sent", "failed", "done"}]
  /\ broken \subseteq Nat

TypeInv == GroupTablesTypeOK /\ ClientsTyped /\ JobsTyped /\ HistoryTyped

-----------------------------------------------------------------------------
LEMMA RequestFields ==
  ASSUME NEW kind \in {"none", "reg", "login", "addFriend", "createGroup", "addGroup", "groupChat"},
         NEW u \in Id, NEW id \in Id, NEW name \in Names \cup {None}, NEW m \in Msgs \cup {None}
  PROVE  LET r == Request(kind, u, id, name, m) IN
         /\ r \in Requests
         /\ r.kind = kind /\ r.user = u /\ r.id = id /\ r.name = name /\ r.msg = m
BY DEF Request, Requests

LEMMA RequestOK ==
  ASSUME NEW kind \in {"reg", "login", "addFriend", "createGroup", "addGroup", "groupChat"},
         NEW u \in Id, NEW id \in Id, NEW name \in Names \cup {None}, NEW m \in Msgs \cup {None},
         kind = "reg" => name \in Names,
         kind # "reg" => u \in Nat,
         kind \in {"addFriend", "addGroup", "groupChat"} => id \in Nat,
         IF kind = "groupChat" THEN m \in Msgs ELSE m = None
  PROVE  Request(kind, u, id, name, m) \in Requests /\ ReqOK(Request(kind, u, id, name, m))
<1>. PICK r \in Requests : /\ r = Request(kind, u, id, name, m)
                           /\ r.kind = kind /\ r.user = u /\ r.id = id /\ r.name = name /\ r.msg = m
  BY RequestFields
<1>. QED BY DEF ReqOK

LEMMA AnswerFields ==
  ASSUME NEW kind \in {"none", "reg", "login"}, NEW id \in Id, NEW vs \in SUBSET Nat
  PROVE  LET a == Answer(kind, id, vs) IN
         /\ a \in Answers
         /\ a.kind = kind /\ a.id = id /\ a.lists = {} /\ a.since = 0
BY DEF Answer, Answers

LEMMA NatIsId == Nat \subseteq Id
BY DEF Id

LEMMA NoneTyped ==
  /\ None \in Id
  /\ NoRequest \in Requests /\ NoRequest.kind = "none" /\ NoRequest.msg = None
  /\ NoAnswer \in Answers /\ NoAnswer.kind = "none" /\ NoAnswer.id = None /\ NoAnswer.lists = {}
BY DEF Id, Request, Requests, Answer, Answers, NoRequest, NoAnswer

LEMMA JobForFields ==
  ASSUME NEW t \in Terminals \cup {None}, NEW r \in Requests
  PROVE  LET j == JobFor(t, r) IN
         /\ j \in Jobs
         /\ j.term = t /\ j.req = r /\ j.rest = <<>> /\ j.answer = NoAnswer
BY NoneTyped DEF JobFor, Jobs

LEMMA JobGroup ==
  ASSUME NEW j \in Jobs, NEW g \in Id
  PROVE  LET k == [j EXCEPT !.group = g] IN
         /\ k \in Jobs
         /\ k.group = g /\ k.term = j.term /\ k.req = j.req /\ k.rest = j.rest /\ k.answer = j.answer
BY DEF Jobs

LEMMA JobRest ==
  ASSUME NEW j \in Jobs, NEW rest \in Seq(Nat)
  PROVE  LET k == [j EXCEPT !.rest = rest] IN
         /\ k \in Jobs
         /\ k.rest = rest /\ k.term = j.term /\ k.req = j.req /\ k.group = j.group /\ k.answer = j.answer
BY DEF Jobs

LEMMA JobAnswer ==
  ASSUME NEW j \in Jobs, NEW a \in Answers
  PROVE  LET k == [j EXCEPT !.answer = a] IN
         /\ k \in Jobs
         /\ k.answer = a /\ k.term = j.term /\ k.req = j.req /\ k.group = j.group /\ k.rest = j.rest
         /\ k.left = j.left
BY DEF Jobs

LEMMA AnswerSince ==
  ASSUME NEW a \in Answers, NEW n \in Nat
  PROVE  LET b == [a EXCEPT !.since = n] IN
         b \in Answers /\ b.kind = a.kind /\ b.id = a.id /\ b.lists = a.lists /\ b.since = n
BY DEF Answers

LEMMA JobLeft ==
  ASSUME NEW j \in Jobs, NEW left \in SUBSET Nat, NEW n \in Nat
  PROVE  LET k == WithGroups(j, left, n) IN
         /\ k \in Jobs
         /\ k.left = left /\ k.term = j.term /\ k.req = j.req /\ k.group = j.group /\ k.rest = j.rest
         /\ k.answer.kind = j.answer.kind /\ k.answer.id = j.answer.id
         /\ k.answer.lists = j.answer.lists /\ k.answer.since = n
<1>1. PICK a \in Answers : a = j.answer
  BY DEF Jobs
<1>2. PICK b \in Answers : /\ b = [a EXCEPT !.since = n]
                           /\ b.kind = a.kind /\ b.id = a.id /\ b.lists = a.lists /\ b.since = n
  BY AnswerSince
<1>. QED BY <1>1, <1>2 DEF Jobs, WithGroups

LEMMA AnswerLists ==
  ASSUME NEW b \in Answers, NEW lists \in SUBSET Lists
  PROVE  LET a == [b EXCEPT !.lists = lists] IN
         /\ a \in Answers
         /\ a.kind = b.kind /\ a.id = b.id /\ a.since = b.since /\ a.lists = lists
BY DEF Answers

LEMMA JobList ==
  ASSUME NEW j \in Jobs, NEW g \in Nat, NEW vec \in SUBSET Nat
  PROVE  LET k == WithList(j, g, vec) IN
         /\ k \in Jobs
         /\ k.left = j.left \ {g} /\ k.term = j.term /\ k.req = j.req /\ k.group = j.group /\ k.rest = j.rest
         /\ k.answer.kind = j.answer.kind /\ k.answer.id = j.answer.id /\ k.answer.since = j.answer.since
         /\ k.answer.lists = j.answer.lists \cup {[group |-> g, members |-> vec]}
<1>1. PICK list \in Lists : list = [group |-> g, members |-> vec]
  BY DEF Lists
<1>2. PICK a \in Answers :
        /\ a = [j.answer EXCEPT !.lists = @ \cup {list}]
        /\ a.kind = j.answer.kind /\ a.id = j.answer.id /\ a.since = j.answer.since
        /\ a.lists = j.answer.lists \cup {list}
  <2>1. PICK b \in Answers : b = j.answer
    BY DEF Jobs
  <2>2. PICK lists \in SUBSET Lists : lists = b.lists \cup {list}
    BY DEF Answers
  <2>. QED BY <2>1, <2>2, AnswerLists
<1>. QED BY <1>1, <1>2 DEF Jobs, WithList

-----------------------------------------------------------------------------
LEMMA UpdateType ==
  ASSUME NEW allowed, NEW result, faults \in Nat, Update(allowed, result)
  PROVE  faults' \in Nat
BY DEF Update, Fail

LEMMA QueryType ==
  ASSUME NEW rows, NEW nothing, NEW vec, faults \in Nat, Query(rows, nothing, vec)
  PROVE  faults' \in Nat /\ vec \in {rows, nothing}
BY DEF Query, Fail

LEMMA PutType ==
  ASSUME NEW S, NEW table \in Seq(S), NEW row \in S, NEW result
  PROVE  Put(table, row, result) \in Seq(S)
BY DEF Put

LEMMA UserInsertType ==
  ASSUME GroupTablesTypeOK, NEW name \in Names, NEW t \in Terminals, NEW result, UserInsert(name, t, result)
  PROVE  GroupTablesTypeOK'
<1>. [name |-> name, by |-> t] \in Accounts
  BY DEF Accounts
<1>. QED BY PutType, UpdateType DEF GroupTablesTypeOK, UserInsert

LEMMA GroupInsertType ==
  ASSUME GroupTablesTypeOK, NEW u \in Nat, NEW result, GroupInsert(u, result)
  PROVE  GroupTablesTypeOK'
<1>. [founder |-> u] \in Groups
  BY DEF Groups
<1>. QED BY PutType, UpdateType DEF GroupTablesTypeOK, GroupInsert

LEMMA MemberInsertType ==
  ASSUME GroupTablesTypeOK, NEW u \in Nat, NEW g \in Nat, NEW role \in {"creator", "normal"}, NEW result,
         MemberInsert(u, g, role, result)
  PROVE  GroupTablesTypeOK'
<1>. [group |-> g, user |-> u, role |-> role] \in Memberships
  BY DEF Memberships
<1>. QED BY PutType, UpdateType DEF GroupTablesTypeOK, MemberInsert

LEMMA FriendInsertType ==
  ASSUME GroupTablesTypeOK, NEW u \in Nat, NEW v \in Nat, NEW result, FriendInsert(u, v, result)
  PROVE  GroupTablesTypeOK'
<1>. [user |-> u, friend |-> v] \in Friendships
  BY DEF Friendships
<1>. QED BY PutType, UpdateType DEF GroupTablesTypeOK, FriendInsert

LEMMA TablesUnchangedType ==
  ASSUME GroupTablesTypeOK, UNCHANGED tablesOnly, faults' \in Nat
  PROVE  GroupTablesTypeOK'
BY DEF GroupTablesTypeOK, tablesOnly

LEMMA Members ==
  ASSUME NEW row \in Memberships
  PROVE  row.group \in Nat /\ row.user \in Nat
BY DEF Memberships

LEMMA RowFields ==
  ASSUME GroupTablesTypeOK
  PROVE  /\ DOMAIN groupUser = 1 .. Len(groupUser) /\ Len(groupUser) \in Nat
         /\ \A i \in DOMAIN groupUser : groupUser[i].group \in Nat /\ groupUser[i].user \in Nat
<1>1. groupUser \in Seq(Memberships)
  BY DEF GroupTablesTypeOK
<1>2. \A i \in DOMAIN groupUser : groupUser[i] \in Memberships
  BY <1>1
<1>. QED BY <1>1, <1>2, Members, LenProperties

\* The members of a group, in some order.
LEMMA ListingsRows ==
  ASSUME GroupTablesTypeOK, NEW g, NEW ids \in Listings(g)
  PROVE  \E n \in Nat, rows \in SUBSET DOMAIN groupUser : \E order \in Bijection(1 .. n, rows) :
           /\ rows = {i \in DOMAIN groupUser : groupUser[i].group = g}
           /\ ids = [i \in 1 .. n |-> groupUser[order[i]].user]
<1>1. PICK rows \in SUBSET DOMAIN groupUser : rows = {i \in DOMAIN groupUser : groupUser[i].group = g}
  OBVIOUS
<1>2. rows \subseteq 1 .. Len(groupUser) /\ Len(groupUser) \in Nat
  BY <1>1, RowFields
<1>3. Cardinality(rows) \in Nat
  <2>1. IsFiniteSet(1 .. Len(groupUser))
    BY <1>2, FS_Interval
  <2>2. IsFiniteSet(rows)
    BY <1>2, <2>1, FS_Subset, Zenon
  <2>. QED BY <2>2, FS_CardinalityType, Zenon
<1>4. PICK order \in Bijection(1 .. Cardinality(rows), rows) :
        ids = [i \in 1 .. Cardinality(rows) |-> groupUser[order[i]].user]
  BY <1>1 DEF Listings
<1>. QED BY <1>1, <1>3, <1>4

LEMMA ListingsType ==
  ASSUME GroupTablesTypeOK, NEW g, NEW ids \in Listings(g)
  PROVE  ids \in Seq(Nat)
<1>1. PICK n \in Nat, rows \in SUBSET DOMAIN groupUser : \E order \in Bijection(1 .. n, rows) :
           /\ rows = {i \in DOMAIN groupUser : groupUser[i].group = g}
           /\ ids = [i \in 1 .. n |-> groupUser[order[i]].user]
  BY ListingsRows
<1>. PICK order \in Bijection(1 .. n, rows) : ids = [i \in 1 .. n |-> groupUser[order[i]].user]
  BY <1>1
<1>2. order \in [1 .. n -> rows]
  BY DEF Bijection, Injection
<1>3. \A i \in 1 .. n : groupUser[order[i]].user \in Nat
  BY <1>1, <1>2, RowFields
<1>. QED BY <1>1, <1>3

-----------------------------------------------------------------------------
LEMMA GotoType ==
  ASSUME JobsTyped, NEW l \in Loops, NEW next \in Pcs, NEW j \in Jobs, JobOK(next, j), Goto(l, next, j)
  PROVE  /\ JobsTyped'
         /\ pc'[l] = next /\ job'[l] = j
         /\ \A k \in Loops \ {l} : pc'[k] = pc[k] /\ job'[k] = job[k]
<1>1. /\ pc' \in [Loops -> Pcs] /\ job' \in [Loops -> Jobs]
      /\ pc'[l] = next /\ job'[l] = j
      /\ \A k \in Loops \ {l} : pc'[k] = pc[k] /\ job'[k] = job[k]
  BY DEF JobsTyped, Goto
<1>2. ASSUME NEW k \in Loops PROVE JobOK(pc'[k], job'[k])
  BY <1>1 DEF JobsTyped
<1>. QED BY <1>1, <1>2 DEF JobsTyped, JobOK

LEMMA FinishType ==
  ASSUME JobsTyped, NEW l \in Loops, Finish(l)
  PROVE  /\ JobsTyped'
         /\ pc'[l] = "idle" /\ job'[l] = NoJob
         /\ \A k \in Loops \ {l} : pc'[k] = pc[k] /\ job'[k] = job[k]
<1>1. NoJob \in Jobs /\ JobOK("idle", NoJob) /\ "idle" \in Pcs
  BY JobForFields, NoneTyped DEF NoJob, JobOK, ReqOK, Pcs
<1>. QED BY <1>1, GotoType DEF Finish

LEMMA Ids ==
  ASSUME GroupTablesTypeOK, NEW u, NEW g
  PROVE  /\ FriendsOf(u) \subseteq Nat /\ GroupsOf(u) \subseteq Nat /\ MembersOf(g) \subseteq Nat
         /\ Len(groupUser) \in Nat
<1>1. \A S : \A s \in Seq(S) : DOMAIN s \subseteq Nat /\ Len(s) \in Nat
  OBVIOUS
<1>2. DOMAIN accounts \subseteq Nat /\ DOMAIN groups \subseteq Nat /\ Len(groupUser) \in Nat
  BY <1>1 DEF GroupTablesTypeOK
<1>. QED BY <1>2 DEF FriendsOf, GroupsOf, MembersOf

LEMMA JobAt ==
  ASSUME JobsTyped, NEW l \in Loops
  PROVE  /\ job[l] \in Jobs /\ job[l].req \in Requests /\ job[l].answer \in Answers
         /\ job[l].left \subseteq Nat /\ job[l].rest \in Seq(Nat) /\ job[l].group \in Id
         /\ ReqOK(job[l].req)
         /\ job[l].answer.kind = "login" => job[l].answer.id \in Nat
         /\ pc[l] = "idle" => job[l] = NoJob
         /\ pc[l] # "idle" => job[l].term \in Terminals /\ job[l].req.kind \in KindsAt(pc[l])
<1>1. job[l] \in Jobs /\ JobOK(pc[l], job[l])
  BY DEF JobsTyped
<1>. QED BY <1>1 DEF Jobs, JobOK

LEMMA RequestTyped ==
  ASSUME NEW r \in Requests, ReqOK(r)
  PROVE  /\ r.user \in Id /\ r.id \in Id /\ r.msg \in Msgs \cup {None}
         /\ r.kind \in {"none", "reg", "login", "addFriend", "createGroup", "addGroup", "groupChat"}
         /\ r.kind = "reg" => r.name \in Names
         /\ r.kind \in {"login", "addFriend", "createGroup", "addGroup", "groupChat"} => r.user \in Nat
         /\ r.kind \in {"addFriend", "addGroup", "groupChat"} => r.id \in Nat
         /\ r.kind = "groupChat" => r.msg \in Msgs
         /\ r.kind # "groupChat" => r.msg = None
BY DEF Requests, ReqOK

LEMMA ClientsUnchanged ==
  ASSUME ClientsTyped, UNCHANGED clientVars
  PROVE  ClientsTyped'
BY DEF ClientsTyped, clientVars

LEMMA JobsUnchanged ==
  ASSUME JobsTyped, UNCHANGED loopVars
  PROVE  JobsTyped'
BY DEF JobsTyped, loopVars

LEMMA TablesUnchanged ==
  ASSUME GroupTablesTypeOK, UNCHANGED groupTableVars
  PROVE  GroupTablesTypeOK'
BY DEF GroupTablesTypeOK, groupTableVars, tablesOnly

-----------------------------------------------------------------------------
LEMMA TypesInit == Init => TypeInv
<1>. SUFFICES ASSUME Init PROVE TypeInv
  OBVIOUS
<1>1. GroupTablesTypeOK
  <2>1. Known \in Seq(Names)
    BY TablesAssumption
  <2>2. \A i \in DOMAIN Known : [name |-> Known[i], by |-> None] \in Accounts
    BY <2>1 DEF Accounts
  <2>3. accounts \in Seq(Accounts)
    BY <2>1, <2>2 DEF Init, GroupTablesInit
  <2>. QED BY <2>3 DEF Init, GroupTablesInit, GroupTablesTypeOK
<1>2. ReqOK(NoRequest)
  BY NoneTyped DEF ReqOK
<1>3. ClientsTyped
  BY <1>2, NoneTyped DEF Init, ClientsTyped
<1>4. NoJob \in Jobs /\ JobOK("idle", NoJob) /\ "idle" \in Pcs
  BY <1>2, JobForFields, NoneTyped DEF NoJob, JobOK, Pcs
<1>5. JobsTyped
  BY <1>4 DEF Init, JobsTyped
<1>6. HistoryTyped
  BY DEF Init, HistoryTyped
<1>. QED BY <1>1, <1>3, <1>5, <1>6 DEF TypeInv

LEMMA SendTypes ==
  ASSUME TypeInv, NEW t \in Terminals, NEW r \in Requests, ReqOK(r), Send(t, r), HistoryTyped',
         termPc' = termPc \/ (termPc' \in [Terminals -> {"menu", "waitReg", "waitLogin", "chatting", "closed"}]
                              /\ \A u \in Terminals : termPc'[u] = "chatting" => termPc[u] = "chatting"),
         account' = account
  PROVE  TypeInv'
<1>1. GroupTablesTypeOK'
  BY TablesUnchanged DEF TypeInv, Send
<1>2. JobsTyped'
  BY JobsUnchanged DEF TypeInv, Send
<1>3. /\ request' \in [Terminals -> Requests] /\ asked' \in [Terminals -> Nat]
      /\ \A u \in Terminals : ReqOK(request'[u])
  BY DEF TypeInv, ClientsTyped, Send
<1>4. ClientsTyped'
  BY <1>3 DEF TypeInv, ClientsTyped, Send
<1>. QED BY <1>1, <1>2, <1>4 DEF TypeInv

LEMMA TypeTypes ==
  ASSUME TypeInv, NEW t \in Terminals, Type(t)
  PROVE  TypeInv'
<1>1. ASSUME NEW name \in NamesOf[t], SendReg(t, name) PROVE TypeInv'
  <2>1. name \in Names
    BY <1>1, GroupsAssumption
  <2>2. PICK r \in Requests : r = Request("reg", None, None, name, None) /\ ReqOK(r)
    BY <2>1, NoneTyped, RequestOK
  <2>3. HistoryTyped'
    BY <1>1 DEF TypeInv, HistoryTyped, SendReg, Send
  <2>. QED BY <1>1, <2>2, <2>3, SendTypes DEF SendReg, TypeInv, ClientsTyped
<1>2. ASSUME NEW u \in KnownTo[t] \cup told[t], SendLogin(t, u) PROVE TypeInv'
  <2>1. u \in Nat
    BY GroupsAssumption, TablesAssumption DEF TypeInv, ClientsTyped
  <2>2. PICK r \in Requests : r = Request("login", u, None, None, None) /\ ReqOK(r)
    BY <2>1, NatIsId, NoneTyped, RequestOK
  <2>3. HistoryTyped'
    BY <1>2 DEF TypeInv, HistoryTyped, SendLogin, Send
  <2>. QED BY <1>2, <2>2, <2>3, SendTypes DEF SendLogin, TypeInv, ClientsTyped
<1>3. ASSUME NEW kind \in {"addFriend", "createGroup", "addGroup"}, NEW id \in Id,
             kind \in {"addFriend", "addGroup"} => id \in Nat, SendCommand(t, kind, id)
      PROVE  TypeInv'
  <2>1. account[t] \in Nat
    BY <1>3 DEF SendCommand, TypeInv, ClientsTyped
  <2>2. PICK r \in Requests : r = Request(kind, account[t], id, None, None) /\ ReqOK(r)
    BY <1>3, <2>1, NatIsId, NoneTyped, RequestOK
  <2>3. HistoryTyped'
    BY <1>3 DEF TypeInv, HistoryTyped, SendCommand, Send
  <2>. QED BY <1>3, <2>2, <2>3, SendTypes DEF SendCommand
<1>4. ASSUME NEW g \in Nat, NEW m \in Msgs, SendGroupChat(t, g, m) PROVE TypeInv'
  <2>1. account[t] \in Nat
    BY <1>4 DEF SendGroupChat, TypeInv, ClientsTyped
  <2>2. PICK r \in Requests : r = Request("groupChat", account[t], g, None, m) /\ ReqOK(r)
    BY <2>1, NatIsId, NoneTyped, RequestOK
  <2>3. Len(accounts) \in Nat
    BY DEF TypeInv, GroupTablesTypeOK
  <2>4. HistoryTyped'
    BY <1>4, <2>3 DEF TypeInv, HistoryTyped, SendGroupChat, Send
  <2>. QED BY <1>4, <2>2, <2>4, SendTypes DEF SendGroupChat
<1>5. FriendIds \subseteq Nat /\ 1 .. MaxGroups \subseteq Nat /\ Nat \subseteq Id /\ None \in Id
  BY GroupsAssumption DEF Id
<1>. QED BY <1>1, <1>2, <1>3, <1>4, <1>5 DEF Type

LEMMA LogoutTypes ==
  ASSUME TypeInv, NEW t \in Terminals, Logout(t)
  PROVE  TypeInv'
<1>1. GroupTablesTypeOK' /\ JobsTyped'
  BY TablesUnchanged, JobsUnchanged DEF TypeInv, Logout
<1>2. ClientsTyped'
  BY DEF TypeInv, ClientsTyped, Logout
<1>3. HistoryTyped'
  BY DEF TypeInv, HistoryTyped, Logout, historyVars
<1>. QED BY <1>1, <1>2, <1>3 DEF TypeInv

LEMMA ReadAnswerTypes ==
  ASSUME TypeInv, NEW t \in Terminals, ReadAnswer(t)
  PROVE  TypeInv'
<1>1. GroupTablesTypeOK' /\ JobsTyped'
  BY TablesUnchanged, JobsUnchanged DEF TypeInv, ReadAnswer
<1>2. HistoryTyped'
  BY DEF TypeInv, HistoryTyped, ReadAnswer, historyVars
<1>3. answer[t] \in Answers /\ answer[t].id \in Id /\ (answer[t].kind = "login" => answer[t].id \in Nat)
  <2>1. answer[t] \in Answers /\ (answer[t].kind = "login" => answer[t].id \in Nat)
    BY DEF TypeInv, ClientsTyped
  <2>. QED BY <2>1 DEF Answers
<1>4. PICK na \in Answers : na = NoAnswer /\ na.kind = "none"
  BY NoneTyped
<1>5. CASE answer[t].kind = "login"
  <2>1. ClientsTyped'
    BY <1>3, <1>4, <1>5 DEF TypeInv, ClientsTyped, ReadAnswer
  <2>. QED BY <1>1, <1>2, <2>1 DEF TypeInv
<1>6. CASE answer[t].kind # "login"
  <2>1. {answer[t].id} \ {None} \subseteq Nat
    BY <1>3 DEF Id
  <2>2. ClientsTyped'
    BY <1>4, <1>6, <2>1 DEF TypeInv, ClientsTyped, ReadAnswer
  <2>. QED BY <1>1, <1>2, <2>2 DEF TypeInv
<1>. QED BY <1>5, <1>6

LEMMA OnMessageTypes ==
  ASSUME TypeInv, NEW t \in Terminals, OnMessage(t)
  PROVE  TypeInv'
<1>. PICK l \in Loops : l = LoopOf[t]
  BY GroupsAssumption
<1>1. GroupTablesTypeOK' /\ HistoryTyped'
  BY TablesUnchanged DEF TypeInv, HistoryTyped, OnMessage, historyVars
<1>2. PICK r \in Requests : r = request[t] /\ r # NoRequest /\ ReqOK(r)
  BY DEF TypeInv, ClientsTyped, OnMessage
<1>3. r.kind \in {"reg", "login", "addFriend", "createGroup", "addGroup", "groupChat"}
  BY <1>2 DEF Requests, ReqOK
<1>4. PICK nr \in Requests : nr = NoRequest /\ ReqOK(nr)
  BY NoneTyped DEF ReqOK
<1>5. ClientsTyped'
  BY <1>4 DEF TypeInv, ClientsTyped, OnMessage
<1>6. PICK j \in Jobs : j = JobFor(t, r) /\ j.term = t /\ j.req = r /\ j.answer.kind = "none"
  BY JobForFields, NoneTyped
<1>7. r.kind \in Pcs
  BY <1>3 DEF Pcs
<1>8. JobOK(r.kind, j)
  BY <1>2, <1>3, <1>6 DEF JobOK, KindsAt
<1>9. JobsTyped'
  BY <1>2, <1>6, <1>7, <1>8, GotoType DEF TypeInv, OnMessage
<1>. QED BY <1>1, <1>5, <1>9 DEF TypeInv

LEMMA CrashTypes ==
  ASSUME TypeInv, NEW s \in Servers, Crash(s)
  PROVE  TypeInv'
<1>1. GroupTablesTypeOK'
  BY TablesUnchanged DEF TypeInv, Crash
<1>2. PICK nr \in Requests : nr = NoRequest /\ ReqOK(nr)
  BY NoneTyped DEF ReqOK
<1>3. PICK na \in Answers : na = NoAnswer /\ na.kind = "none"
  BY NoneTyped
<1>4. ClientsTyped'
  <2>1. /\ termPc' \in [Terminals -> {"menu", "waitReg", "waitLogin", "chatting", "closed"}]
        /\ \A t \in Terminals : termPc'[t] = "chatting" => termPc[t] = "chatting"
    BY DEF TypeInv, ClientsTyped, Crash
  <2>2. request' \in [Terminals -> Requests] /\ \A t \in Terminals : ReqOK(request'[t])
    BY <1>2 DEF TypeInv, ClientsTyped, Crash
  <2>3. /\ answer' \in [Terminals -> Answers]
        /\ \A t \in Terminals : answer'[t].kind = "login" => answer'[t].id \in Nat
    BY <1>3 DEF TypeInv, ClientsTyped, Crash
  <2>. QED BY <2>1, <2>2, <2>3 DEF TypeInv, ClientsTyped, Crash
<1>5. PICK nj \in Jobs : nj = NoJob /\ JobOK("idle", nj)
  BY <1>2, JobForFields, NoneTyped DEF NoJob, JobOK
<1>6. JobsTyped'
  <2>1. pc' \in [Loops -> Pcs] /\ job' \in [Loops -> Jobs]
    BY <1>5 DEF TypeInv, JobsTyped, Crash, Pcs
  <2>2. ASSUME NEW l \in Loops PROVE JobOK(pc'[l], job'[l])
    BY <1>5 DEF TypeInv, JobsTyped, Crash
  <2>. QED BY <2>1, <2>2 DEF JobsTyped, JobOK
<1>7. HistoryTyped'
  <2>1. \A k \in Loops : pc[k] = "addCreator" => job[k].group \in Nat
    BY DEF TypeInv, JobsTyped, JobOK
  <2>2. broken' \subseteq Nat
    BY <2>1 DEF TypeInv, HistoryTyped, Crash
  <2>3. fate' \in [Msgs -> {"unsent", "sent", "failed", "done"}]
    BY DEF TypeInv, HistoryTyped, Crash
  <2>. QED BY <2>2, <2>3 DEF TypeInv, HistoryTyped, Crash
<1>. QED BY <1>1, <1>4, <1>6, <1>7 DEF TypeInv

-----------------------------------------------------------------------------
(***************************************************************************)
(* Types: the handlers.                                                    *)
(***************************************************************************)
LEMMA HandlerTypes ==
  ASSUME TypeInv, GroupTablesTypeOK', JobsTyped', HandlersElse, UNCHANGED historyVars
  PROVE  TypeInv'
BY ClientsUnchanged DEF TypeInv, HistoryTyped, HandlersElse, historyVars

LEMMA RegTypes ==
  ASSUME TypeInv, NEW l \in Loops, Reg(l)
  PROVE  TypeInv'
<1>1. /\ job[l] \in Jobs /\ job[l].req \in Requests /\ ReqOK(job[l].req)
      /\ job[l].term \in Terminals /\ job[l].req.kind = "reg"
  BY JobAt DEF TypeInv, Reg, KindsAt
<1>2. PICK result \in Results :
        /\ UserInsert(job[l].req.name, job[l].term, result)
        /\ Goto(l, "ack", [job[l] EXCEPT !.answer =
             Answer("reg", IF result.ok THEN InsertId(accounts) ELSE None, {})])
  BY DEF Reg
<1>3. job[l].req.name \in Names
  BY <1>1, RequestTyped
<1>4. GroupTablesTypeOK'
  BY <1>1, <1>2, <1>3, UserInsertType DEF TypeInv
<1>5. (IF result.ok THEN InsertId(accounts) ELSE None) \in Id
  BY DEF TypeInv, GroupTablesTypeOK, InsertId, Id
<1>6. PICK a \in Answers : /\ a = Answer("reg", IF result.ok THEN InsertId(accounts) ELSE None, {})
                           /\ a.kind = "reg"
  BY <1>5, AnswerFields
<1>7. PICK j \in Jobs : /\ j = [job[l] EXCEPT !.answer = a]
                        /\ j.answer = a /\ j.term = job[l].term /\ j.req = job[l].req
  BY <1>1, JobAnswer
<1>8. JobOK("ack", j)
  BY <1>1, <1>6, <1>7 DEF JobOK, KindsAt
<1>9. JobsTyped'
  BY <1>2, <1>6, <1>7, <1>8, GotoType DEF TypeInv, Pcs
<1>. QED BY <1>4, <1>9, HandlerTypes DEF Reg

LEMMA AckTypes ==
  ASSUME TypeInv, NEW l \in Loops, Ack(l)
  PROVE  TypeInv'
<1>1. GroupTablesTypeOK' /\ HistoryTyped'
  BY TablesUnchanged DEF TypeInv, HistoryTyped, Ack, historyVars
<1>2. JobsTyped'
  BY FinishType DEF TypeInv, Ack
<1>3. PICK a \in Answers : a = job[l].answer /\ (a.kind = "login" => a.id \in Nat)
  BY JobAt DEF TypeInv
<1>4. ClientsTyped'
  BY <1>3 DEF TypeInv, ClientsTyped, Ack
<1>. QED BY <1>1, <1>2, <1>4 DEF TypeInv

LEMMA AddFriendTypes ==
  ASSUME TypeInv, NEW l \in Loops, AddFriend(l)
  PROVE  TypeInv'
<1>1. job[l].req \in Requests /\ ReqOK(job[l].req) /\ job[l].req.kind = "addFriend"
  BY JobAt DEF TypeInv, AddFriend, KindsAt
<1>2. job[l].req.user \in Nat /\ job[l].req.id \in Nat
  BY <1>1, RequestTyped
<1>3. GroupTablesTypeOK'
  BY <1>2, FriendInsertType DEF TypeInv, AddFriend
<1>4. JobsTyped'
  BY FinishType DEF TypeInv, AddFriend
<1>. QED BY <1>3, <1>4, HandlerTypes DEF AddFriend

LEMMA AddGroupTypes ==
  ASSUME TypeInv, NEW l \in Loops, AddGroup(l)
  PROVE  TypeInv'
<1>1. job[l].req \in Requests /\ ReqOK(job[l].req) /\ job[l].req.kind = "addGroup"
  BY JobAt DEF TypeInv, AddGroup, KindsAt
<1>2. job[l].req.user \in Nat /\ job[l].req.id \in Nat
  BY <1>1, RequestTyped
<1>3. GroupTablesTypeOK'
  BY <1>2, MemberInsertType DEF TypeInv, AddGroup
<1>4. JobsTyped'
  BY FinishType DEF TypeInv, AddGroup
<1>. QED BY <1>3, <1>4, HandlerTypes DEF AddGroup

LEMMA CreateGroupTypes ==
  ASSUME TypeInv, NEW l \in Loops, CreateGroup(l)
  PROVE  TypeInv'
<1>1. /\ job[l] \in Jobs /\ job[l].req \in Requests /\ ReqOK(job[l].req)
      /\ job[l].term \in Terminals /\ job[l].req.kind = "createGroup"
      /\ job[l].answer.kind = "login" => job[l].answer.id \in Nat
  BY JobAt DEF TypeInv, CreateGroup, KindsAt
<1>2. PICK result \in Results :
        /\ GroupInsert(job[l].req.user, result)
        /\ IF result.ok
           THEN Goto(l, "addCreator", [job[l] EXCEPT !.group = InsertId(groups)])
           ELSE Finish(l)
        /\ broken' = IF result = Unknown THEN broken \cup {InsertId(groups)} ELSE broken
  BY DEF CreateGroup
<1>3. GroupTablesTypeOK'
  BY <1>1, <1>2, RequestTyped, GroupInsertType DEF TypeInv
<1>4. InsertId(groups) \in Nat
  BY DEF TypeInv, GroupTablesTypeOK, InsertId
<1>5. JobsTyped'
  <2>1. PICK j \in Jobs : /\ j = [job[l] EXCEPT !.group = InsertId(groups)]
                          /\ j.group = InsertId(groups) /\ j.term = job[l].term /\ j.req = job[l].req
                          /\ j.answer = job[l].answer
    BY <1>1, <1>4, NatIsId, JobGroup
  <2>2. JobOK("addCreator", j)
    BY <1>1, <1>4, <2>1 DEF JobOK, KindsAt
  <2>. QED BY <1>2, <2>1, <2>2, GotoType, FinishType DEF TypeInv, Pcs
<1>6. HistoryTyped'
  BY <1>2, <1>4 DEF TypeInv, HistoryTyped, CreateGroup, HandlersElse
<1>. QED BY <1>3, <1>5, <1>6, ClientsUnchanged DEF TypeInv, CreateGroup, HandlersElse

LEMMA AddCreatorTypes ==
  ASSUME TypeInv, NEW l \in Loops, AddCreator(l)
  PROVE  TypeInv'
<1>1. job[l].req \in Requests /\ ReqOK(job[l].req) /\ job[l].req.kind = "createGroup"
  BY JobAt DEF TypeInv, AddCreator, KindsAt
<1>2. job[l].req.user \in Nat /\ job[l].group \in Nat
  BY <1>1, RequestTyped DEF TypeInv, JobsTyped, JobOK, AddCreator
<1>3. GroupTablesTypeOK'
  BY <1>2, MemberInsertType DEF TypeInv, AddCreator
<1>4. JobsTyped'
  BY FinishType DEF TypeInv, AddCreator
<1>5. HistoryTyped'
  BY <1>2 DEF TypeInv, HistoryTyped, AddCreator, HandlersElse
<1>. QED BY <1>3, <1>4, <1>5, ClientsUnchanged DEF TypeInv, AddCreator, HandlersElse

LEMMA GroupChatTypes ==
  ASSUME TypeInv, NEW l \in Loops, GroupChat(l)
  PROVE  TypeInv'
<1>1. /\ job[l] \in Jobs /\ job[l].req \in Requests /\ ReqOK(job[l].req)
      /\ job[l].term \in Terminals /\ job[l].req.kind = "groupChat"
      /\ job[l].answer.kind = "login" => job[l].answer.id \in Nat
  BY JobAt DEF TypeInv, GroupChat, KindsAt
<1>2. PICK ids \in Listings(job[l].req.id) : \E vec \in {ids, <<>>} :
        /\ Query(ids, <<>>, vec)
        /\ Goto(l, "fanOut", [job[l] EXCEPT !.rest = vec])
        /\ fate' = IF vec = ids THEN fate ELSE [fate EXCEPT ![job[l].req.msg] = "failed"]
  BY DEF GroupChat
<1>. PICK vec \in {ids, <<>>} :
        /\ Query(ids, <<>>, vec)
        /\ Goto(l, "fanOut", [job[l] EXCEPT !.rest = vec])
        /\ fate' = IF vec = ids THEN fate ELSE [fate EXCEPT ![job[l].req.msg] = "failed"]
  BY <1>2
<1>3. vec \in Seq(Nat)
  <2>1. ids \in Seq(Nat)
    BY ListingsType DEF TypeInv
  <2>2. <<>> \in Seq(Nat)
    OBVIOUS
  <2>. QED BY <2>1, <2>2, Zenon
<1>4. GroupTablesTypeOK'
  <2>1. faults' \in Nat
    BY <1>2, QueryType DEF TypeInv, GroupTablesTypeOK
  <2>. QED BY <2>1, TablesUnchangedType DEF TypeInv, GroupChat
<1>5. JobsTyped'
  <2>1. PICK j \in Jobs : /\ j = [job[l] EXCEPT !.rest = vec]
                          /\ j.rest = vec /\ j.term = job[l].term /\ j.req = job[l].req
                          /\ j.answer = job[l].answer
    BY <1>1, <1>3, JobRest
  <2>2. JobOK("fanOut", j)
    BY <1>1, <2>1 DEF JobOK, KindsAt
  <2>. QED BY <1>2, <2>1, <2>2, GotoType DEF TypeInv, Pcs
<1>6. HistoryTyped'
  BY <1>2 DEF TypeInv, HistoryTyped, GroupChat, HandlersElse
<1>. QED BY <1>4, <1>5, <1>6, ClientsUnchanged DEF TypeInv, GroupChat, HandlersElse

LEMMA FanOutTypes ==
  ASSUME TypeInv, NEW l \in Loops, FanOut(l)
  PROVE  TypeInv'
<1>1. /\ job[l] \in Jobs /\ job[l].req \in Requests /\ ReqOK(job[l].req)
      /\ job[l].term \in Terminals /\ job[l].req.kind = "groupChat"
      /\ job[l].answer.kind = "login" => job[l].answer.id \in Nat
      /\ job[l].rest \in Seq(Nat) /\ job[l].rest # <<>>
  BY JobAt DEF TypeInv, FanOut, KindsAt
<1>2. Head(job[l].rest) \in Nat /\ Tail(job[l].rest) \in Seq(Nat)
  BY <1>1
<1>3. GroupTablesTypeOK'
  BY TablesUnchanged DEF TypeInv, FanOut
<1>4. JobsTyped'
  <2>1. PICK j \in Jobs : /\ j = [job[l] EXCEPT !.rest = Tail(job[l].rest)]
                          /\ j.term = job[l].term /\ j.req = job[l].req
                          /\ j.answer = job[l].answer
    BY <1>1, <1>2, JobRest
  <2>2. JobOK("fanOut", j)
    BY <1>1, <2>1 DEF JobOK, KindsAt
  <2>3. Goto(l, "fanOut", j)
    BY <2>1 DEF FanOut
  <2>. QED BY <2>2, <2>3, GotoType DEF TypeInv, Pcs
<1>5. job[l].req.msg \in Msgs
  BY <1>1, RequestTyped
<1>6. HistoryTyped'
  BY <1>2, <1>5 DEF TypeInv, HistoryTyped, FanOut, HandlersElse
<1>. QED BY <1>3, <1>4, <1>6, ClientsUnchanged DEF TypeInv, FanOut, HandlersElse

LEMMA FanOutEndTypes ==
  ASSUME TypeInv, NEW l \in Loops, FanOutEnd(l)
  PROVE  TypeInv'
<1>1. GroupTablesTypeOK'
  BY TablesUnchanged DEF TypeInv, FanOutEnd
<1>2. JobsTyped'
  BY FinishType DEF TypeInv, FanOutEnd
<1>3. HistoryTyped'
  BY DEF TypeInv, HistoryTyped, FanOutEnd, HandlersElse
<1>. QED BY <1>1, <1>2, <1>3, ClientsUnchanged DEF TypeInv, FanOutEnd, HandlersElse

LEMMA LoginFriendsTypes ==
  ASSUME TypeInv, NEW l \in Loops, LoginFriends(l)
  PROVE  TypeInv'
<1>1. /\ job[l] \in Jobs /\ job[l].req \in Requests /\ ReqOK(job[l].req)
      /\ job[l].term \in Terminals /\ job[l].req.kind = "login"
  BY JobAt DEF TypeInv, LoginFriends, KindsAt
<1>2. job[l].req.user \in Nat
  BY <1>1, RequestTyped
<1>3. PICK vec \in {FriendsOf(job[l].req.user), {}} :
        /\ Query(FriendsOf(job[l].req.user), {}, vec)
        /\ Goto(l, "groups", [job[l] EXCEPT !.answer = Answer("login", job[l].req.user, vec)])
  BY DEF LoginFriends
<1>4. GroupTablesTypeOK'
  <2>1. faults' \in Nat
    BY <1>3, QueryType DEF TypeInv, GroupTablesTypeOK
  <2>. QED BY <2>1, TablesUnchangedType DEF TypeInv, LoginFriends
<1>5. vec \in SUBSET Nat
  BY Ids DEF TypeInv
<1>6. PICK a \in Answers : /\ a = Answer("login", job[l].req.user, vec)
                           /\ a.kind = "login" /\ a.id = job[l].req.user
  BY <1>2, <1>5, NatIsId, AnswerFields
<1>7. PICK j \in Jobs : /\ j = [job[l] EXCEPT !.answer = a]
                        /\ j.answer = a /\ j.term = job[l].term /\ j.req = job[l].req
  BY <1>1, JobAnswer
<1>8. JobOK("groups", j)
  BY <1>1, <1>2, <1>6, <1>7 DEF JobOK, KindsAt
<1>9. JobsTyped'
  BY <1>3, <1>6, <1>7, <1>8, GotoType DEF TypeInv, Pcs
<1>. QED BY <1>4, <1>9, HandlerTypes DEF LoginFriends

LEMMA LoginGroupsTypes ==
  ASSUME TypeInv, NEW l \in Loops, LoginGroups(l)
  PROVE  TypeInv'
<1>1. /\ job[l] \in Jobs /\ job[l].req \in Requests /\ ReqOK(job[l].req)
      /\ job[l].term \in Terminals /\ job[l].req.kind = "login" /\ job[l].answer \in Answers
      /\ job[l].answer.kind = "login" /\ job[l].answer.id \in Nat
  BY JobAt DEF TypeInv, JobsTyped, JobOK, LoginGroups, KindsAt
<1>2. PICK rows \in {GroupsOf(job[l].req.user), {}} :
        /\ Query(GroupsOf(job[l].req.user), {}, rows)
        /\ Goto(l, "members", WithGroups(job[l], rows, Len(groupUser)))
  BY DEF LoginGroups
<1>3. GroupTablesTypeOK'
  <2>1. faults' \in Nat
    BY <1>2, QueryType DEF TypeInv, GroupTablesTypeOK
  <2>. QED BY <2>1, TablesUnchangedType DEF TypeInv, LoginGroups
<1>4. rows \in SUBSET Nat
  BY Ids DEF TypeInv
<1>. PICK n \in Nat : n = Len(groupUser)
  BY Ids DEF TypeInv
<1>5. PICK j \in Jobs : /\ j = WithGroups(job[l], rows, n)
                        /\ j.term = job[l].term /\ j.req = job[l].req
                        /\ j.answer.kind = job[l].answer.kind /\ j.answer.id = job[l].answer.id
  BY <1>1, <1>4, JobLeft
<1>6. j.answer.kind = "login" /\ j.answer.id \in Nat
  BY <1>1, <1>5
<1>7. JobOK("members", j)
  BY <1>1, <1>5, <1>6 DEF JobOK, KindsAt
<1>8. JobsTyped'
  BY <1>2, <1>5, <1>7, GotoType DEF TypeInv, Pcs
<1>. QED BY <1>3, <1>8, HandlerTypes DEF LoginGroups

LEMMA LoginMembersTypes ==
  ASSUME TypeInv, NEW l \in Loops, LoginMembers(l)
  PROVE  TypeInv'
<1>1. /\ job[l] \in Jobs /\ job[l].req \in Requests /\ ReqOK(job[l].req)
      /\ job[l].term \in Terminals /\ job[l].req.kind = "login" /\ job[l].left \subseteq Nat
      /\ job[l].answer.kind = "login" /\ job[l].answer.id \in Nat
  BY JobAt DEF TypeInv, JobsTyped, JobOK, LoginMembers, KindsAt
<1>2. PICK g \in job[l].left : \E vec \in {MembersOf(g), {}} :
        /\ Query(MembersOf(g), {}, vec)
        /\ Goto(l, "members", WithList(job[l], g, vec))
  BY DEF LoginMembers
<1>. PICK vec \in {MembersOf(g), {}} :
        /\ Query(MembersOf(g), {}, vec)
        /\ Goto(l, "members", WithList(job[l], g, vec))
  BY <1>2
<1>3. GroupTablesTypeOK'
  <2>1. faults' \in Nat
    BY <1>2, QueryType DEF TypeInv, GroupTablesTypeOK
  <2>. QED BY <2>1, TablesUnchangedType DEF TypeInv, LoginMembers
<1>4. g \in Nat /\ vec \in SUBSET Nat
  BY <1>1, Ids DEF TypeInv
<1>5. PICK j \in Jobs : /\ j = WithList(job[l], g, vec)
                        /\ j.term = job[l].term /\ j.req = job[l].req
                        /\ j.answer.kind = job[l].answer.kind /\ j.answer.id = job[l].answer.id
  BY <1>1, <1>4, JobList
<1>6. JobOK("members", j)
  BY <1>1, <1>5 DEF JobOK, KindsAt
<1>7. JobsTyped'
  BY <1>2, <1>5, <1>6, GotoType DEF TypeInv, Pcs
<1>. QED BY <1>3, <1>7, HandlerTypes DEF LoginMembers

LEMMA LoginListedTypes ==
  ASSUME TypeInv, NEW l \in Loops, LoginListed(l)
  PROVE  TypeInv'
<1>1. /\ job[l] \in Jobs /\ ReqOK(job[l].req)
      /\ job[l].term \in Terminals /\ job[l].req.kind = "login"
      /\ job[l].answer.kind = "login" /\ job[l].answer.id \in Nat
  BY JobAt DEF TypeInv, JobsTyped, JobOK, LoginListed, KindsAt
<1>2. JobOK("ack", job[l])
  BY <1>1 DEF JobOK, KindsAt
<1>3. JobsTyped'
  BY <1>1, <1>2, GotoType DEF TypeInv, LoginListed, Pcs
<1>4. GroupTablesTypeOK'
  BY TablesUnchanged DEF TypeInv, LoginListed
<1>. QED BY <1>3, <1>4, HandlerTypes DEF LoginListed

LEMMA TypesNext == TypeInv /\ [Next]_vars => TypeInv'
<1>. SUFFICES ASSUME TypeInv, [Next]_vars PROVE TypeInv'
  OBVIOUS
<1>1. ASSUME NEW t \in Terminals, Type(t) \/ Logout(t) \/ ReadAnswer(t) \/ OnMessage(t)
      PROVE  TypeInv'
  BY <1>1, TypeTypes, LogoutTypes, ReadAnswerTypes, OnMessageTypes
<1>2. ASSUME NEW l \in Loops, Handle(l) PROVE TypeInv'
  BY <1>2, RegTypes, AckTypes, AddFriendTypes, AddGroupTypes, CreateGroupTypes, AddCreatorTypes,
     GroupChatTypes, FanOutTypes, FanOutEndTypes, LoginFriendsTypes, LoginGroupsTypes,
     LoginMembersTypes, LoginListedTypes DEF Handle
<1>3. ASSUME NEW s \in Servers, Crash(s) PROVE TypeInv'
  BY <1>3, CrashTypes
<1>4. CASE UNCHANGED vars
  <2>1. UNCHANGED groupTableVars /\ UNCHANGED clientVars /\ UNCHANGED loopVars
    BY <1>4 DEF vars
  <2>2. HistoryTyped'
    BY <1>4 DEF vars, historyVars, TypeInv, HistoryTyped
  <2>. QED BY <2>1, <2>2, TablesUnchanged, ClientsUnchanged, JobsUnchanged DEF TypeInv
<1>. QED BY <1>1, <1>2, <1>3, <1>4 DEF Next

(***************************************************************************)
(* The types of what is in use hold in every reachable state: a handler    *)
(* never works with a field that its request or its earlier steps did not  *)
(* fill.                                                                   *)
(***************************************************************************)
THEOREM GroupTypesInUse == Spec => []TypeInv
<1>. QED BY TypesInit, TypesNext, PTL DEF Spec

(***************************************************************************)
(* Every variable keeps its type, for every cluster, schema and fault.     *)
(***************************************************************************)
THEOREM GroupTypes == Spec => []TypeOK
<1>1. TypeInv => TypeOK
  BY DEF TypeInv, ClientsTyped, JobsTyped, HistoryTyped, TypeOK
<1>. QED BY <1>1, GroupTypesInUse, PTL

-----------------------------------------------------------------------------
(***************************************************************************)
(* How the tables grow, and what a step does to the jobs.                  *)
(***************************************************************************)
LEMMA PutKeeps ==
  ASSUME NEW S, NEW table \in Seq(S), NEW row \in S, NEW result
  PROVE  /\ DOMAIN table \subseteq DOMAIN Put(table, row, result)
         /\ \A i \in DOMAIN table : Put(table, row, result)[i] = table[i]
         /\ InsertId(table) \notin DOMAIN table
         /\ \A i \in DOMAIN Put(table, row, result) \ DOMAIN table : i = InsertId(table)
BY DEF Put, InsertId

LEMMA PutRow ==
  ASSUME NEW S, NEW table \in Seq(S), NEW row \in S, NEW result
  PROVE  IF result.done
         THEN InsertId(table) \in DOMAIN Put(table, row, result) /\ Put(table, row, result)[InsertId(table)] = row
         ELSE Put(table, row, result) = table
BY DEF Put, InsertId

LEMMA AccountRow ==
  ASSUME NEW name \in Names, NEW t \in Terminals
  PROVE  [name |-> name, by |-> t] \in Accounts /\ [name |-> name, by |-> t].by = t
BY DEF Accounts

LEMMA GroupRow ==
  ASSUME NEW u \in Nat
  PROVE  [founder |-> u] \in Groups /\ [founder |-> u].founder = u
BY DEF Groups

LEMMA AccountsGrow ==
  ASSUME TypeInv, NEW name \in Names, NEW t \in Terminals, NEW result, UserInsert(name, t, result)
  PROVE  /\ DOMAIN accounts \subseteq DOMAIN accounts'
         /\ \A i \in DOMAIN accounts : accounts'[i] = accounts[i]
         /\ result.done => InsertId(accounts) \in DOMAIN accounts' /\ accounts'[InsertId(accounts)].by = t
<1>1. PICK row : row \in Accounts /\ row = [name |-> name, by |-> t] /\ row.by = t
  BY AccountRow
<1>2. accounts \in Seq(Accounts)
  BY DEF TypeInv, GroupTablesTypeOK
<1>3. accounts' = Put(accounts, row, result)
  BY <1>1 DEF UserInsert
<1>. QED BY <1>1, <1>2, <1>3, PutKeeps, PutRow

LEMMA GroupsGrow ==
  ASSUME TypeInv, NEW u \in Nat, NEW result, GroupInsert(u, result)
  PROVE  /\ DOMAIN groups \subseteq DOMAIN groups'
         /\ \A i \in DOMAIN groups : groups'[i] = groups[i]
         /\ \A i \in DOMAIN groups' \ DOMAIN groups : i = InsertId(groups)
         /\ InsertId(groups) \notin DOMAIN groups
         /\ IF result.done
            THEN InsertId(groups) \in DOMAIN groups' /\ groups'[InsertId(groups)].founder = u
            ELSE groups' = groups
<1>1. PICK row : row \in Groups /\ row = [founder |-> u] /\ row.founder = u
  BY GroupRow
<1>2. groups \in Seq(Groups)
  BY DEF TypeInv, GroupTablesTypeOK
<1>3. groups' = Put(groups, row, result)
  BY <1>1 DEF GroupInsert
<1>. QED BY <1>1, <1>2, <1>3, PutKeeps, PutRow

LEMMA MembersGrow ==
  ASSUME TypeInv, NEW u \in Nat, NEW g \in Nat, NEW role \in {"creator", "normal"}, NEW result,
         MemberInsert(u, g, role, result)
  PROVE  /\ DOMAIN groupUser \subseteq DOMAIN groupUser'
         /\ \A i \in DOMAIN groupUser : groupUser'[i] = groupUser[i]
         /\ IF result.done
            THEN \E n \in DOMAIN groupUser' :
                   /\ n \notin DOMAIN groupUser
                   /\ \A i \in DOMAIN groupUser' : i \in DOMAIN groupUser \/ i = n
                   /\ groupUser'[n].user = u /\ groupUser'[n].group = g /\ groupUser'[n].role = role
            ELSE groupUser' = groupUser
<1>1. PICK row : /\ row \in Memberships /\ row = [group |-> g, user |-> u, role |-> role]
                 /\ row.user = u /\ row.group = g /\ row.role = role
  <2>1. [group |-> g, user |-> u, role |-> role] \in Memberships
    BY DEF Memberships
  <2>. QED BY <2>1
<1>2. groupUser \in Seq(Memberships)
  BY DEF TypeInv, GroupTablesTypeOK
<1>3. groupUser' = Put(groupUser, row, result)
  BY <1>1 DEF MemberInsert
<1>. QED BY <1>1, <1>2, <1>3, PutKeeps, PutRow

LEMMA IsMemberRow ==
  ASSUME GroupTablesTypeOK, NEW u, NEW g
  PROVE  IsMember(u, g) <=> \E i \in DOMAIN groupUser : groupUser[i].user = u /\ groupUser[i].group = g
BY DEF IsMember, Range

LEMMA GotoAt ==
  ASSUME JobsTyped, NEW l \in Loops, NEW next, NEW j, Goto(l, next, j)
  PROVE  /\ pc'[l] = next /\ job'[l] = j
         /\ \A k \in Loops \ {l} : pc'[k] = pc[k] /\ job'[k] = job[k]
BY DEF JobsTyped, Goto

LEMMA FinishAt ==
  ASSUME JobsTyped, NEW l \in Loops, Finish(l)
  PROVE  /\ pc'[l] = "idle" /\ job'[l] = NoJob
         /\ \A k \in Loops \ {l} : pc'[k] = pc[k] /\ job'[k] = job[k]
BY GotoAt DEF Finish

LEMMA NoJobFields ==
  /\ NoJob.term = None /\ NoJob.req = NoRequest /\ NoJob.req.msg = None
  /\ NoJob.answer = NoAnswer /\ NoJob.answer.id = None /\ NoJob.answer.lists = {}
BY NoneTyped, JobForFields DEF NoJob

-----------------------------------------------------------------------------
(***************************************************************************)
(* Registration: an id on its way to a terminal, in a job, in the socket   *)
(* or read, is that of an account the terminal asked for.                  *)
(***************************************************************************)
Own(t, id) == id \in DOMAIN accounts /\ accounts[id].by = t
Due(a, t) == a.kind = "login" \/ a.id = None \/ Own(t, a.id)

ToldInv ==
  /\ \A t \in Terminals : (\A id \in told[t] : Own(t, id)) /\ Due(answer[t], t)
  /\ \A l \in Loops : Due(job[l].answer, job[l].term)

LEMMA DueNone == ASSUME NEW t PROVE Due(NoAnswer, t) /\ Due(NoJob.answer, t)
BY NoneTyped, NoJobFields DEF Due

LEMMA OwnSame ==
  ASSUME UNCHANGED accounts, NEW a, NEW t
  PROVE  (Own(t, a) => Own(t, a)') /\ (Due(a, t) => Due(a, t)')
BY DEF Own, Due

LEMMA ToldClients ==
  ASSUME ToldInv, UNCHANGED <<accounts, loopVars>>,
         \A t \in Terminals : /\ \A id \in told'[t] : id \in told[t] \/ Own(t, id)
                              /\ Due(answer'[t], t)
  PROVE  ToldInv'
<1>1. \A t \in Terminals : (\A id \in told'[t] : Own(t, id)')  /\ Due(answer[t], t)'
  BY DEF ToldInv, Own, Due
<1>2. \A l \in Loops : Due(job[l].answer, job[l].term)'
  BY DEF ToldInv, Own, Due, loopVars
<1>. QED BY <1>1, <1>2 DEF ToldInv, Own

LEMMA ToldHandler ==
  ASSUME ToldInv, UNCHANGED <<told, answer>>,
         DOMAIN accounts \subseteq DOMAIN accounts', \A i \in DOMAIN accounts : accounts'[i] = accounts[i],
         NEW l \in Loops, \A k \in Loops \ {l} : job'[k] = job[k],
         Due(job[l].answer, job[l].term)'
  PROVE  ToldInv'
<1>1. \A t \in Terminals : (\A id \in told'[t] : Own(t, id)') /\ Due(answer[t], t)'
  BY DEF ToldInv, Own, Due
<1>2. ASSUME NEW k \in Loops PROVE Due(job[k].answer, job[k].term)'
  <2>1. CASE k = l
    BY <2>1
  <2>2. CASE k # l
    BY <2>2 DEF ToldInv, Own, Due
  <2>. QED BY <2>1, <2>2
<1>. QED BY <1>1, <1>2 DEF ToldInv, Own

LEMMA ToldReg ==
  ASSUME TypeInv, ToldInv, NEW l \in Loops, Reg(l)
  PROVE  ToldInv'
<1>1. /\ job[l] \in Jobs /\ job[l].req \in Requests /\ ReqOK(job[l].req)
      /\ job[l].term \in Terminals /\ job[l].req.kind = "reg"
  BY JobAt DEF TypeInv, Reg, KindsAt
<1>2. PICK result \in Results :
        /\ UserInsert(job[l].req.name, job[l].term, result)
        /\ Goto(l, "ack", [job[l] EXCEPT !.answer =
             Answer("reg", IF result.ok THEN InsertId(accounts) ELSE None, {})])
  BY DEF Reg
<1>3. job[l].req.name \in Names
  BY <1>1, RequestTyped
<1>4. /\ DOMAIN accounts \subseteq DOMAIN accounts' /\ \A i \in DOMAIN accounts : accounts'[i] = accounts[i]
      /\ result.done => InsertId(accounts) \in DOMAIN accounts' /\ accounts'[InsertId(accounts)].by = job[l].term
  BY <1>1, <1>2, <1>3, AccountsGrow
<1>5. result.ok => result.done
  BY DEF Results, Done, NotDone, Unknown
<1>6. PICK id \in Id : /\ id = IF result.ok THEN InsertId(accounts) ELSE None
                       /\ id = None \/ (id = InsertId(accounts) /\ result.done)
  <2>1. InsertId(accounts) \in Id /\ None \in Id
    BY DEF TypeInv, GroupTablesTypeOK, InsertId, Id
  <2>2. CASE result.ok
    BY <1>5, <2>1, <2>2
  <2>3. CASE ~result.ok
    BY <2>1, <2>3
  <2>. QED BY <2>2, <2>3
<1>7. PICK a \in Answers : a = Answer("reg", id, {}) /\ a.id = id
  BY AnswerFields
<1>8. PICK j \in Jobs : /\ j = [job[l] EXCEPT !.answer = a]
                        /\ j.answer = a /\ j.term = job[l].term
  BY <1>1, JobAnswer
<1>9. job'[l] = j /\ \A k \in Loops \ {l} : job'[k] = job[k]
  BY <1>2, <1>6, <1>7, <1>8, GotoAt DEF TypeInv
<1>10. Due(job[l].answer, job[l].term)'
  BY <1>4, <1>6, <1>7, <1>8, <1>9 DEF Due, Own
<1>. QED BY <1>4, <1>9, <1>10, ToldHandler DEF Reg, HandlersElse, clientVars

\* The handlers that end, or that leave the answer as it is.
LEMMA ToldFinish ==
  ASSUME TypeInv, ToldInv, NEW l \in Loops, Finish(l), UNCHANGED <<told, answer, accounts>>
  PROVE  ToldInv'
<1>1. job'[l] = NoJob /\ \A k \in Loops \ {l} : job'[k] = job[k]
  BY FinishAt DEF TypeInv
<1>2. Due(job[l].answer, job[l].term)'
  BY <1>1, NoJobFields DEF Due
<1>. QED BY <1>1, <1>2, ToldHandler

LEMMA ToldGoto ==
  ASSUME TypeInv, ToldInv, NEW l \in Loops, NEW next, NEW j, Goto(l, next, j), UNCHANGED <<told, answer, accounts>>,
         (j.answer = job[l].answer /\ j.term = job[l].term) \/ j.answer.kind = "login"
  PROVE  ToldInv'
<1>1. job'[l] = j /\ \A k \in Loops \ {l} : job'[k] = job[k]
  BY GotoAt DEF TypeInv
<1>2. Due(job[l].answer, job[l].term)'
  BY <1>1 DEF Due, ToldInv, Own
<1>. QED BY <1>1, <1>2, ToldHandler

LEMMA ToldAck ==
  ASSUME TypeInv, ToldInv, NEW l \in Loops, Ack(l)
  PROVE  ToldInv'
<1>1. job'[l] = NoJob /\ (\A k \in Loops \ {l} : job'[k] = job[k]) /\ UNCHANGED <<accounts, told>>
  BY FinishAt DEF TypeInv, Ack, groupTableVars, tablesOnly
<1>2. \A t \in Terminals : answer'[t] = answer[t] \/ (answer'[t] = job[l].answer /\ job[l].term = t)
  BY DEF Ack, TypeInv, ClientsTyped
<1>3. ASSUME NEW t \in Terminals PROVE Due(answer[t], t)' /\ \A id \in told'[t] : Own(t, id)'
  BY <1>1, <1>2 DEF ToldInv, Own, Due
<1>4. ASSUME NEW k \in Loops PROVE Due(job[k].answer, job[k].term)'
  <2>1. CASE k = l
    BY <1>1, <2>1, NoJobFields DEF Due
  <2>2. CASE k # l
    BY <1>1, <2>2 DEF ToldInv, Own, Due
  <2>. QED BY <2>1, <2>2
<1>. QED BY <1>3, <1>4 DEF ToldInv, Own

LEMMA ToldHandle ==
  ASSUME TypeInv, ToldInv, NEW l \in Loops, Handle(l)
  PROVE  ToldInv'
<1>. DEFINE j == job[l]
<1>0. j \in Jobs /\ j.req \in Requests /\ j.answer \in Answers
  BY JobAt DEF TypeInv
<1>1. CASE Reg(l)
  BY <1>1, ToldReg
<1>2. CASE Ack(l)
  BY <1>2, ToldAck
<1>3. CASE AddFriend(l)
  BY <1>3, ToldFinish DEF AddFriend, FriendInsert, HandlersElse, clientVars
<1>4. CASE AddGroup(l)
  BY <1>4, ToldFinish DEF AddGroup, MemberInsert, HandlersElse, clientVars
<1>5. CASE CreateGroup(l)
  <2>1. UNCHANGED <<told, answer, accounts>>
    BY <1>5 DEF CreateGroup, GroupInsert, HandlersElse, clientVars
  <2>2. Finish(l) \/ Goto(l, "addCreator", [job[l] EXCEPT !.group = InsertId(groups)])
    BY <1>5 DEF CreateGroup
  <2>3. PICK k \in Jobs : /\ k = [job[l] EXCEPT !.group = InsertId(groups)]
                          /\ k.term = job[l].term /\ k.answer = job[l].answer
    <3>1. InsertId(groups) \in Id
      BY DEF TypeInv, GroupTablesTypeOK, InsertId, Id
    <3>. QED BY <1>0, <3>1, JobGroup
  <2>. QED BY <2>1, <2>2, <2>3, ToldFinish, ToldGoto
<1>6. CASE AddCreator(l)
  BY <1>6, ToldFinish DEF AddCreator, MemberInsert, HandlersElse, clientVars
<1>7. CASE GroupChat(l)
  <2>1. UNCHANGED <<told, answer, accounts>>
    BY <1>7 DEF GroupChat, tablesOnly, HandlersElse, clientVars
  <2>2. PICK vec \in Seq(Nat) : Goto(l, "fanOut", [job[l] EXCEPT !.rest = vec])
    <3>1. PICK ids \in Listings(job[l].req.id) : \E vec \in {ids, <<>>} : Goto(l, "fanOut", [job[l] EXCEPT !.rest = vec])
      BY <1>7 DEF GroupChat
    <3>2. ids \in Seq(Nat)
      BY ListingsType DEF TypeInv
    <3>3. <<>> \in Seq(Nat)
      OBVIOUS
    <3>. QED BY <3>1, <3>2, <3>3, Zenon
  <2>3. PICK k \in Jobs : /\ k = [job[l] EXCEPT !.rest = vec]
                          /\ k.term = job[l].term /\ k.answer = job[l].answer
    BY <1>0, JobRest
  <2>. QED BY <2>1, <2>2, <2>3, ToldGoto
<1>8. CASE FanOut(l)
  <2>1. UNCHANGED <<told, answer, accounts>>
    BY <1>8 DEF FanOut, groupTableVars, tablesOnly, HandlersElse, clientVars
  <2>2. Tail(job[l].rest) \in Seq(Nat)
    <3>1. job[l].rest \in Seq(Nat) /\ job[l].rest # <<>>
      BY <1>8, JobAt DEF FanOut, TypeInv
    <3>. QED BY <3>1
  <2>3. PICK k \in Jobs : /\ k = [job[l] EXCEPT !.rest = Tail(job[l].rest)]
                          /\ k.term = job[l].term /\ k.answer = job[l].answer
    BY <1>0, <2>2, JobRest
  <2>4. Goto(l, "fanOut", k)
    BY <1>8, <2>3 DEF FanOut
  <2>. QED BY <2>1, <2>3, <2>4, ToldGoto
<1>9. CASE FanOutEnd(l)
  BY <1>9, ToldFinish DEF FanOutEnd, groupTableVars, tablesOnly, HandlersElse, clientVars
<1>10. CASE LoginFriends(l)
  <2>1. UNCHANGED <<told, answer, accounts>>
    BY <1>10 DEF LoginFriends, tablesOnly, HandlersElse, clientVars
  <2>2. j.req.user \in Nat
    BY <1>0, <1>10, JobAt, RequestTyped DEF LoginFriends, KindsAt, TypeInv
  <2>3. PICK vec \in SUBSET Nat : Goto(l, "groups", [job[l] EXCEPT !.answer = Answer("login", job[l].req.user, vec)])
    BY <1>10, Ids DEF LoginFriends, TypeInv
  <2>4. PICK a \in Answers : a = Answer("login", job[l].req.user, vec) /\ a.kind = "login"
    BY <2>2, NatIsId, AnswerFields
  <2>5. PICK k \in Jobs : k = [job[l] EXCEPT !.answer = a] /\ k.answer = a
    BY <1>0, JobAnswer
  <2>. QED BY <2>1, <2>3, <2>4, <2>5, ToldGoto
<1>11. CASE LoginGroups(l)
  <2>1. UNCHANGED <<told, answer, accounts>>
    BY <1>11 DEF LoginGroups, tablesOnly, HandlersElse, clientVars
  <2>2. j.answer.kind = "login"
    BY <1>11 DEF LoginGroups, TypeInv, JobsTyped, JobOK
  <2>3. PICK rows \in SUBSET Nat : Goto(l, "members", WithGroups(job[l], rows, Len(groupUser)))
    BY <1>11, Ids DEF LoginGroups, TypeInv
  <2>. PICK n \in Nat : n = Len(groupUser)
    BY Ids DEF TypeInv
  <2>4. PICK k \in Jobs : k = WithGroups(job[l], rows, n) /\ k.answer.kind = job[l].answer.kind
    BY <1>0, JobLeft
  <2>. QED BY <2>1, <2>2, <2>3, <2>4, ToldGoto
<1>12. CASE LoginMembers(l)
  <2>1. UNCHANGED <<told, answer, accounts>>
    BY <1>12 DEF LoginMembers, tablesOnly, HandlersElse, clientVars
  <2>2. j.answer.kind = "login"
    BY <1>12 DEF LoginMembers, TypeInv, JobsTyped, JobOK
  <2>3. PICK g \in Nat : \E vec \in SUBSET Nat : Goto(l, "members", WithList(job[l], g, vec))
    BY <1>12, Ids, JobAt DEF LoginMembers, TypeInv
  <2>4. PICK vec \in SUBSET Nat : Goto(l, "members", WithList(job[l], g, vec))
    BY <2>3
  <2>5. PICK k \in Jobs : k = WithList(job[l], g, vec) /\ k.answer.kind = job[l].answer.kind
    BY <1>0, JobList
  <2>. QED BY <2>1, <2>2, <2>4, <2>5, ToldGoto
<1>13. CASE LoginListed(l)
  BY <1>13, ToldGoto DEF LoginListed, groupTableVars, tablesOnly, HandlersElse, clientVars
<1>. QED BY <1>1, <1>2, <1>3, <1>4, <1>5, <1>6, <1>7, <1>8, <1>9, <1>10, <1>11, <1>12, <1>13 DEF Handle

LEMMA ToldNext ==
  ASSUME TypeInv, ToldInv, [Next]_vars
  PROVE  ToldInv'
<1>1. ASSUME NEW t \in Terminals, Type(t) \/ Logout(t) PROVE ToldInv'
  <2>1. UNCHANGED <<accounts, loopVars, told, answer>>
    BY <1>1 DEF Type, SendReg, SendLogin, SendCommand, SendGroupChat, Send, Logout, groupTableVars, tablesOnly
  <2>. QED BY <2>1, ToldClients DEF ToldInv
<1>2. ASSUME NEW t \in Terminals, ReadAnswer(t) PROVE ToldInv'
  <2>1. UNCHANGED <<accounts, loopVars>>
    BY <1>2 DEF ReadAnswer, groupTableVars, tablesOnly
  <2>2. ASSUME NEW u \in Terminals PROVE Due(answer'[u], u)
    BY <1>2, DueNone DEF ReadAnswer, ToldInv, TypeInv, ClientsTyped
  <2>3. ASSUME NEW u \in Terminals, NEW id \in told'[u] PROVE id \in told[u] \/ Own(u, id)
    <3>1. CASE answer[t].kind = "login"
      BY <1>2, <2>3, <3>1 DEF ReadAnswer
    <3>2. CASE answer[t].kind # "login"
      <4>1. told' = [told EXCEPT ![t] = @ \cup ({answer[t].id} \ {None})]
        BY <1>2, <3>2 DEF ReadAnswer
      <4>2. id \in told[u] \/ (u = t /\ id = answer[t].id /\ id # None)
        BY <2>3, <4>1 DEF TypeInv, ClientsTyped
      <4>3. Due(answer[t], t)
        BY DEF ToldInv
      <4>. QED BY <3>2, <4>2, <4>3 DEF Due
    <3>. QED BY <3>1, <3>2
  <2>. QED BY <2>1, <2>2, <2>3, ToldClients
<1>3. ASSUME NEW t \in Terminals, OnMessage(t) PROVE ToldInv'
  <2>. PICK l \in Loops : l = LoopOf[t]
    BY GroupsAssumption
  <2>1. UNCHANGED <<accounts, told, answer>>
    BY <1>3 DEF OnMessage, groupTableVars, tablesOnly
  <2>2. job'[l].answer = NoAnswer /\ \A k \in Loops \ {l} : job'[k] = job[k]
    BY <1>3, JobForFields, GotoAt DEF OnMessage, TypeInv, ClientsTyped
  <2>3. Due(job[l].answer, job[l].term)'
    BY <2>2, NoneTyped DEF Due
  <2>. QED BY <2>1, <2>2, <2>3, ToldHandler
<1>4. ASSUME NEW l \in Loops, Handle(l) PROVE ToldInv'
  BY <1>4, ToldHandle
<1>5. ASSUME NEW s \in Servers, Crash(s) PROVE ToldInv'
  <2>1. UNCHANGED <<accounts, told>>
    BY <1>5 DEF Crash, groupTableVars, tablesOnly
  <2>2. ASSUME NEW t \in Terminals PROVE (\A id \in told'[t] : Own(t, id)') /\ Due(answer[t], t)'
    <3>1. answer'[t] = answer[t] \/ answer'[t] = NoAnswer
      BY <1>5 DEF Crash
    <3>. QED BY <2>1, <3>1, NoneTyped DEF ToldInv, Own, Due
  <2>3. ASSUME NEW l \in Loops PROVE Due(job[l].answer, job[l].term)'
    <3>1. job'[l] = job[l] \/ job'[l] = NoJob
      BY <1>5 DEF Crash
    <3>. QED BY <2>1, <3>1, NoJobFields DEF ToldInv, Own, Due
  <2>. QED BY <2>2, <2>3 DEF ToldInv, Own
<1>6. CASE UNCHANGED vars
  BY <1>6, ToldClients DEF vars, groupTableVars, tablesOnly, clientVars, ToldInv
<1>. QED BY <1>1, <1>2, <1>3, <1>4, <1>5, <1>6 DEF Next

LEMMA ToldBegins == Init => ToldInv
BY DueNone DEF Init, ToldInv

(***************************************************************************)
(* The ids of registration answers are the terminal's own accounts, for    *)
(* any number of threads and servers inserting at the same time            *)
(* (UserModel.cpp:18, chatservice.cpp:172).                                *)
(***************************************************************************)
THEOREM ToldIdsAreYours == Spec => []ToldIsYours
<1>1. TypeInv /\ ToldInv => ToldIsYours
  <2>. SUFFICES ASSUME TypeInv, ToldInv, NEW t \in Terminals,
                       NEW id \in told[t] \cup (IF answer[t].kind = "reg" THEN {answer[t].id} \ {None} ELSE {})
                PROVE  Own(t, id)
    BY DEF ToldIsYours, Own
  <2>1. CASE id \in told[t]
    BY <2>1 DEF ToldInv
  <2>2. CASE answer[t].kind = "reg" /\ id = answer[t].id /\ id # None
    BY <2>2 DEF ToldInv, Due
  <2>. QED BY <2>1, <2>2
<1>2. Init => TypeInv /\ ToldInv
  BY TypesInit, ToldBegins
<1>3. TypeInv /\ ToldInv /\ [Next]_vars => (TypeInv /\ ToldInv)'
  BY TypesNext, ToldNext
<1>. QED BY <1>1, <1>2, <1>3, PTL DEF Spec

-----------------------------------------------------------------------------
(***************************************************************************)
(* Groups and their founders.  Only four actions matter: createGroup's     *)
(* two, addGroup, and the end of a server.                                 *)
(***************************************************************************)
Quiet ==
  /\ UNCHANGED <<groups, groupUser, broken, crashes>>
  /\ faults' = 0 => faults = 0
  /\ \A l \in Loops : /\ pc'[l] = "addCreator" <=> pc[l] = "addCreator"
                      /\ pc[l] = "addCreator" => job'[l] = job[l]

LEMMA FaultsStay ==
  /\ \A allowed, result : faults \in Nat /\ Update(allowed, result) => (faults' = 0 => faults = 0)
  /\ \A rows, nothing, vec : faults \in Nat /\ Query(rows, nothing, vec) => (faults' = 0 => faults = 0)
BY DEF Update, Query, Fail

LEMMA QuietGoto ==
  ASSUME TypeInv, NEW l \in Loops, NEW next, NEW j, Goto(l, next, j), pc[l] # "addCreator", next # "addCreator",
         UNCHANGED <<groups, groupUser, broken, crashes>>, faults' = 0 => faults = 0
  PROVE  Quiet
BY GotoAt DEF TypeInv, Quiet

LEMMA QuietFinish ==
  ASSUME TypeInv, NEW l \in Loops, Finish(l), pc[l] # "addCreator",
         UNCHANGED <<groups, groupUser, broken, crashes>>, faults' = 0 => faults = 0
  PROVE  Quiet
BY QuietGoto DEF Finish

LEMMA QuietHandle ==
  ASSUME TypeInv, NEW l \in Loops, Handle(l)
  PROVE  Quiet \/ AddGroup(l) \/ CreateGroup(l) \/ AddCreator(l)
<1>0. faults \in Nat
  BY DEF TypeInv, GroupTablesTypeOK
<1>1. CASE Reg(l)
  BY <1>0, <1>1, FaultsStay, QuietGoto DEF Reg, UserInsert, HandlersElse, historyVars
<1>2. CASE Ack(l)
  BY <1>2, QuietFinish DEF Ack, groupTableVars, tablesOnly, historyVars
<1>3. CASE AddFriend(l)
  BY <1>0, <1>3, FaultsStay, QuietFinish DEF AddFriend, FriendInsert, HandlersElse, historyVars
<1>4. CASE GroupChat(l)
  BY <1>0, <1>4, FaultsStay, QuietGoto DEF GroupChat, tablesOnly, HandlersElse
<1>5. CASE FanOut(l)
  BY <1>5, QuietGoto DEF FanOut, groupTableVars, tablesOnly, HandlersElse
<1>6. CASE FanOutEnd(l)
  BY <1>6, QuietFinish DEF FanOutEnd, groupTableVars, tablesOnly, HandlersElse
<1>7. CASE LoginFriends(l)
  BY <1>0, <1>7, FaultsStay, QuietGoto DEF LoginFriends, tablesOnly, HandlersElse, historyVars
<1>8. CASE LoginGroups(l)
  BY <1>0, <1>8, FaultsStay, QuietGoto DEF LoginGroups, tablesOnly, HandlersElse, historyVars
<1>9. CASE LoginMembers(l)
  BY <1>0, <1>9, FaultsStay, QuietGoto DEF LoginMembers, tablesOnly, HandlersElse, historyVars
<1>10. CASE LoginListed(l)
  BY <1>10, QuietGoto DEF LoginListed, groupTableVars, tablesOnly, HandlersElse, historyVars
<1>. QED BY <1>1, <1>2, <1>3, <1>4, <1>5, <1>6, <1>7, <1>8, <1>9, <1>10 DEF Handle

LEMMA QuietNext ==
  ASSUME TypeInv, [Next]_vars
  PROVE  \/ Quiet
         \/ \E l \in Loops : AddGroup(l) \/ CreateGroup(l) \/ AddCreator(l)
         \/ \E s \in Servers : Crash(s)
<1>1. ASSUME NEW t \in Terminals, Type(t) \/ Logout(t) \/ ReadAnswer(t) PROVE Quiet
  BY <1>1 DEF Type, SendReg, SendLogin, SendCommand, SendGroupChat, Send, Logout, ReadAnswer,
     groupTableVars, tablesOnly, loopVars, historyVars, Quiet
<1>2. ASSUME NEW t \in Terminals, OnMessage(t) PROVE Quiet
  <2>. PICK l \in Loops : l = LoopOf[t]
    BY GroupsAssumption
  <2>1. request[t].kind # "addCreator"
    BY DEF TypeInv, ClientsTyped, Requests
  <2>. QED BY <1>2, <2>1, QuietGoto DEF OnMessage, groupTableVars, tablesOnly, historyVars
<1>3. CASE UNCHANGED vars
  BY <1>3 DEF vars, groupTableVars, tablesOnly, loopVars, historyVars, Quiet
<1>. QED BY <1>1, <1>2, <1>3, QuietHandle DEF Next

-----------------------------------------------------------------------------
CreatorRow(i, g) == groupUser[i].group = g /\ groupUser[i].role = "creator"

\* Between the two statements a thread has a group of its own, without a creator.
Creating ==
  \A l \in Loops : pc[l] = "addCreator" =>
    /\ job[l].group \in DOMAIN groups /\ groups[job[l].group].founder = job[l].req.user
    /\ \A i \in DOMAIN groupUser : ~CreatorRow(i, job[l].group)
    /\ \A k \in Loops : pc[k] = "addCreator" /\ job[k].group = job[l].group => k = l

CreatorInv == CreatorIsFounder /\ Creating

LEMMA CreatorQuiet == ASSUME CreatorInv, Quiet PROVE CreatorInv'
<1>1. CreatorIsFounder'
  BY DEF CreatorInv, CreatorIsFounder, Quiet
<1>2. Creating'
  BY DEF CreatorInv, Creating, CreatorRow, Quiet
<1>. QED BY <1>1, <1>2 DEF CreatorInv

LEMMA CreatorCrash ==
  ASSUME TypeInv, CreatorInv, NEW s \in Servers, Crash(s)
  PROVE  CreatorInv'
<1>1. UNCHANGED <<groups, groupUser>>
  BY DEF Crash, groupTableVars, tablesOnly
<1>2. \A l \in Loops : pc'[l] = "addCreator" => pc[l] = "addCreator" /\ job'[l] = job[l]
  BY DEF Crash
<1>3. CreatorIsFounder'
  BY <1>1 DEF CreatorInv, CreatorIsFounder
<1>4. Creating'
  BY <1>1, <1>2 DEF CreatorInv, Creating, CreatorRow
<1>. QED BY <1>3, <1>4 DEF CreatorInv

LEMMA CreatorAddGroup ==
  ASSUME TypeInv, CreatorInv, NEW l \in Loops, AddGroup(l)
  PROVE  CreatorInv'
<1>1. job[l].req.user \in Nat /\ job[l].req.id \in Nat
  BY JobAt, RequestTyped DEF TypeInv, AddGroup, KindsAt
<1>2. UNCHANGED groups
  BY DEF AddGroup, MemberInsert
<1>3. /\ DOMAIN groupUser \subseteq DOMAIN groupUser'
      /\ \A i \in DOMAIN groupUser : groupUser'[i] = groupUser[i]
      /\ \A i \in DOMAIN groupUser' : i \in DOMAIN groupUser \/ groupUser'[i].role = "normal"
  BY <1>1, MembersGrow DEF AddGroup
<1>4. \A k \in Loops : pc'[k] = "addCreator" => pc[k] = "addCreator" /\ job'[k] = job[k]
  BY FinishAt DEF AddGroup, TypeInv
<1>5. CreatorIsFounder'
  BY <1>2, <1>3 DEF CreatorInv, CreatorIsFounder
<1>6. Creating'
  BY <1>2, <1>3, <1>4 DEF CreatorInv, Creating, CreatorRow
<1>. QED BY <1>5, <1>6 DEF CreatorInv

LEMMA CreateGroupStep ==
  ASSUME TypeInv, NEW l \in Loops, CreateGroup(l)
  PROVE  /\ UNCHANGED <<groupUser, crashes>>
         /\ DOMAIN groups \subseteq DOMAIN groups' /\ \A i \in DOMAIN groups : groups'[i] = groups[i]
         /\ InsertId(groups) \notin DOMAIN groups
         /\ \A i \in DOMAIN groups' \ DOMAIN groups :
              i = InsertId(groups) /\ (i \in broken' \/ (pc'[l] = "addCreator" /\ job'[l].group = i))
         /\ \A k \in Loops \ {l} : pc'[k] = pc[k] /\ job'[k] = job[k]
         /\ pc[l] # "addCreator"
         /\ pc'[l] = "addCreator" =>
              /\ job'[l].group = InsertId(groups)
              /\ InsertId(groups) \in DOMAIN groups'
              /\ groups'[InsertId(groups)].founder = job'[l].req.user
         /\ broken \subseteq broken'
         /\ faults' = 0 => faults = 0 /\ broken' = broken
<1>1. /\ job[l] \in Jobs /\ job[l].req \in Requests /\ ReqOK(job[l].req)
      /\ job[l].req.kind = "createGroup"
  BY JobAt DEF TypeInv, CreateGroup, KindsAt
<1>2. PICK result \in Results :
        /\ GroupInsert(job[l].req.user, result)
        /\ IF result.ok
           THEN Goto(l, "addCreator", [job[l] EXCEPT !.group = InsertId(groups)])
           ELSE Finish(l)
        /\ broken' = IF result = Unknown THEN broken \cup {InsertId(groups)} ELSE broken
  BY DEF CreateGroup
<1>3. job[l].req.user \in Nat
  BY <1>1, RequestTyped
<1>4. /\ DOMAIN groups \subseteq DOMAIN groups' /\ \A i \in DOMAIN groups : groups'[i] = groups[i]
      /\ InsertId(groups) \notin DOMAIN groups
      /\ \A i \in DOMAIN groups' \ DOMAIN groups : i = InsertId(groups)
      /\ IF result.done
         THEN InsertId(groups) \in DOMAIN groups' /\ groups'[InsertId(groups)].founder = job[l].req.user
         ELSE groups' = groups
  BY <1>2, <1>3, GroupsGrow
<1>5. /\ result.ok => result.done
      /\ result.done => result.ok \/ result = Unknown
      /\ result = Unknown => ~result.ok
  BY DEF Results, Done, NotDone, Unknown
<1>6. faults \in Nat
  BY DEF TypeInv, GroupTablesTypeOK
<1>7. faults' = 0 => faults = 0 /\ result # Unknown
  BY <1>2, <1>6 DEF GroupInsert, Update, Fail, Done, NotDone, Unknown
<1>8. PICK j \in Jobs : /\ j = [job[l] EXCEPT !.group = InsertId(groups)]
                        /\ j.group = InsertId(groups) /\ j.req = job[l].req
  <2>1. InsertId(groups) \in Id
    BY DEF TypeInv, GroupTablesTypeOK, InsertId, Id
  <2>. QED BY <1>1, <2>1, JobGroup
<1>9. /\ \A k \in Loops \ {l} : pc'[k] = pc[k] /\ job'[k] = job[k]
      /\ result.ok => pc'[l] = "addCreator" /\ job'[l] = j
      /\ ~result.ok => pc'[l] = "idle"
  BY <1>2, <1>8, GotoAt, FinishAt DEF TypeInv
<1>10. UNCHANGED <<groupUser, crashes>> /\ pc[l] # "addCreator"
  BY <1>2 DEF GroupInsert, CreateGroup, HandlersElse
<1>11. \A i \in DOMAIN groups' \ DOMAIN groups :
              i = InsertId(groups) /\ (i \in broken' \/ (pc'[l] = "addCreator" /\ job'[l].group = i))
  BY <1>2, <1>4, <1>5, <1>8, <1>9
<1>12. pc'[l] = "addCreator" => /\ job'[l].group = InsertId(groups)
              /\ InsertId(groups) \in DOMAIN groups'
              /\ groups'[InsertId(groups)].founder = job'[l].req.user
  <2>1. CASE result.ok
    <3>1. result.done
      BY <1>5, <2>1
    <3>2. InsertId(groups) \in DOMAIN groups' /\ groups'[InsertId(groups)].founder = job[l].req.user
      BY <1>4, <3>1
    <3>3. job'[l] = j
      BY <1>9, <2>1
    <3>. QED BY <1>8, <3>2, <3>3
  <2>2. CASE ~result.ok
    BY <1>9, <2>2
  <2>. QED BY <2>1, <2>2
<1>. QED BY <1>2, <1>4, <1>7, <1>9, <1>10, <1>11, <1>12

LEMMA CreatorCreateGroup ==
  ASSUME TypeInv, CreatorInv, NEW l \in Loops, CreateGroup(l)
  PROVE  CreatorInv'
<1>1. CreatorIsFounder'
  BY CreateGroupStep DEF CreatorInv, CreatorIsFounder
<1>2. \A i \in DOMAIN groupUser : ~CreatorRow(i, InsertId(groups))
  BY CreateGroupStep DEF CreatorInv, CreatorIsFounder, CreatorRow
<1>3. ASSUME NEW m \in Loops, pc'[m] = "addCreator"
      PROVE  /\ job'[m].group \in DOMAIN groups' /\ groups'[job'[m].group].founder = job'[m].req.user
             /\ \A i \in DOMAIN groupUser' : ~CreatorRow(i, job[m].group)'
             /\ \A k \in Loops : pc'[k] = "addCreator" /\ job'[k].group = job'[m].group => k = m
  <2>1. CASE m = l
    BY <1>2, <1>3, <2>1, CreateGroupStep DEF CreatorInv, Creating, CreatorRow
  <2>2. CASE m # l
    BY <1>3, <2>2, CreateGroupStep DEF CreatorInv, Creating, CreatorRow
  <2>. QED BY <2>1, <2>2
<1>. QED BY <1>1, <1>3 DEF CreatorInv, Creating

LEMMA AddCreatorStep ==
  ASSUME TypeInv, NEW l \in Loops, AddCreator(l), NEW u, u = job[l].req.user, NEW g, g = job[l].group
  PROVE  /\ UNCHANGED <<groups, crashes>>
         /\ DOMAIN groupUser \subseteq DOMAIN groupUser'
         /\ \A i \in DOMAIN groupUser : groupUser'[i] = groupUser[i]
         /\ \/ groupUser' = groupUser
            \/ \E n \in DOMAIN groupUser' :
                   /\ n \notin DOMAIN groupUser
                   /\ \A i \in DOMAIN groupUser' : i \in DOMAIN groupUser \/ i = n
                   /\ groupUser'[n].user = u /\ groupUser'[n].group = g
                   /\ groupUser'[n].role = "creator"
         /\ pc[l] = "addCreator" /\ pc'[l] = "idle"
         /\ \A k \in Loops \ {l} : pc'[k] = pc[k] /\ job'[k] = job[k]
         /\ broken \subseteq broken'
         /\ g \in broken' \/ IsMember(u, g)'
         /\ \A h \in broken' \ broken : h = g
         /\ faults' = 0 => faults = 0 /\ IsMember(u, g)'
<1>1. u \in Nat /\ g \in Nat
  BY JobAt, RequestTyped DEF TypeInv, JobsTyped, JobOK, AddCreator, KindsAt
<1>2. PICK result \in Results :
        /\ MemberInsert(u, g, "creator", result)
        /\ broken' = broken \cup (IF result.done THEN {} ELSE {g})
  BY DEF AddCreator
<1>3. /\ DOMAIN groupUser \subseteq DOMAIN groupUser'
      /\ \A i \in DOMAIN groupUser : groupUser'[i] = groupUser[i]
      /\ IF result.done
         THEN \E n \in DOMAIN groupUser' :
                   /\ n \notin DOMAIN groupUser
                   /\ \A i \in DOMAIN groupUser' : i \in DOMAIN groupUser \/ i = n
                   /\ groupUser'[n].user = u /\ groupUser'[n].group = g
                   /\ groupUser'[n].role = "creator"
         ELSE groupUser' = groupUser
  BY <1>1, <1>2, MembersGrow
<1>4. GroupTablesTypeOK /\ GroupTablesTypeOK'
  BY AddCreatorTypes DEF TypeInv
<1>5. IsMember(u, g)' <=>
        \E i \in DOMAIN groupUser' : groupUser'[i].user = u /\ groupUser'[i].group = g
  BY DEF IsMember, Range
<1>6. result.done => IsMember(u, g)'
  BY <1>3, <1>5
<1>7. faults \in Nat
  BY <1>4 DEF GroupTablesTypeOK
<1>8. ASSUME faults' = 0 PROVE faults = 0 /\ IsMember(u, g)'
  <2>1. faults' = faults /\ result = IF (Keyed => ~IsMember(u, g)) THEN Done ELSE NotDone
    BY <1>2, <1>7, <1>8 DEF MemberInsert, Update, Fail
  <2>2. CASE Keyed => ~IsMember(u, g)
    BY <1>6, <1>8, <2>1, <2>2 DEF Done
  <2>3. CASE ~(Keyed => ~IsMember(u, g))
    <3>1. ~result.done /\ IsMember(u, g)
      BY <2>1, <2>3 DEF NotDone
    <3>. QED BY <1>3, <1>5, <1>8, <2>1, <3>1, IsMemberRow, <1>4
  <2>. QED BY <2>2, <2>3
<1>9. /\ broken \subseteq broken'
      /\ g \in broken' \/ IsMember(u, g)'
      /\ \A h \in broken' \ broken : h = g
  BY <1>2, <1>6
<1>10. UNCHANGED <<groups, crashes>> /\ pc[l] = "addCreator" /\ pc'[l] = "idle"
  BY <1>2, FinishAt DEF MemberInsert, AddCreator, HandlersElse, TypeInv
<1>11. \A k \in Loops \ {l} : pc'[k] = pc[k] /\ job'[k] = job[k]
  BY FinishAt DEF AddCreator, TypeInv
<1>. QED BY <1>3, <1>8, <1>9, <1>10, <1>11

LEMMA CreatorAddCreator ==
  ASSUME TypeInv, CreatorInv, NEW l \in Loops, AddCreator(l)
  PROVE  CreatorInv'
<1>. PICK u, g : u = job[l].req.user /\ g = job[l].group
  OBVIOUS
<1>1. CreatorIsFounder'
  BY AddCreatorStep DEF CreatorInv, CreatorIsFounder, Creating, CreatorRow
<1>2. Creating'
  BY AddCreatorStep DEF CreatorInv, Creating, CreatorRow
<1>. QED BY <1>1, <1>2 DEF CreatorInv

LEMMA CreatorNext ==
  ASSUME TypeInv, CreatorInv, [Next]_vars
  PROVE  CreatorInv'
BY QuietNext, CreatorQuiet, CreatorCrash, CreatorAddGroup, CreatorCreateGroup, CreatorAddCreator

LEMMA CreatorBegins == Init => CreatorInv
BY DEF Init, GroupTablesInit, CreatorInv, CreatorIsFounder, Creating

-----------------------------------------------------------------------------
LEMMA MemberStays ==
  ASSUME DOMAIN groupUser \subseteq DOMAIN groupUser',
         \A i \in DOMAIN groupUser : groupUser'[i] = groupUser[i],
         NEW u, NEW g, IsMember(u, g)
  PROVE  IsMember(u, g)'
BY DEF IsMember, Range

\* FounderIsMember in two parts.
Founded(g) ==
  \/ IsMember(groups[g].founder, g)
  \/ g \in broken
  \/ \E l \in Loops : pc[l] = "addCreator" /\ job[l].group = g
Sound == faults = 0 /\ crashes = 0 =>
           \A g \in broken : g \in DOMAIN groups /\ IsMember(groups[g].founder, g)

LEMMA FounderParts == FounderIsMember <=> (\A g \in DOMAIN groups : Founded(g)) /\ Sound
BY DEF FounderIsMember, Founded, Sound

LEMMA FounderQuiet == ASSUME FounderIsMember, Quiet PROVE FounderIsMember'
BY DEF FounderIsMember, Quiet, IsMember

LEMMA FounderCrash ==
  ASSUME TypeInv, FounderIsMember, NEW s \in Servers, Crash(s)
  PROVE  FounderIsMember'
<1>1. UNCHANGED <<groups, groupUser>> /\ crashes' # 0
  BY DEF Crash, groupTableVars, tablesOnly, TypeInv, HistoryTyped
<1>2. /\ broken \subseteq broken'
      /\ \A l \in Loops : pc[l] = "addCreator" =>
           (pc'[l] = "addCreator" /\ job'[l] = job[l]) \/ job[l].group \in broken'
  BY DEF Crash, TypeInv, JobsTyped
<1>3. \A g \in DOMAIN groups' : Founded(g)'
  BY <1>1, <1>2 DEF FounderIsMember, Founded, IsMember
<1>4. Sound'
  BY <1>1 DEF Sound
<1>. QED BY <1>3, <1>4 DEF FounderIsMember, Founded, Sound

LEMMA FounderAddGroup ==
  ASSUME TypeInv, FounderIsMember, NEW l \in Loops, AddGroup(l)
  PROVE  FounderIsMember'
<1>1. job[l].req.user \in Nat /\ job[l].req.id \in Nat
  BY JobAt, RequestTyped DEF TypeInv, AddGroup, KindsAt
<1>2. UNCHANGED <<groups, broken, crashes>> /\ (faults' = 0 => faults = 0)
  BY FaultsStay DEF AddGroup, MemberInsert, historyVars, HandlersElse, TypeInv, GroupTablesTypeOK
<1>3. \A u, g : IsMember(u, g) => IsMember(u, g)'
  BY <1>1, MembersGrow, MemberStays DEF AddGroup
<1>4. \A k \in Loops : pc[k] = "addCreator" => pc'[k] = "addCreator" /\ job'[k] = job[k]
  BY FinishAt DEF AddGroup, TypeInv
<1>5. \A g \in DOMAIN groups' : Founded(g)'
  BY <1>2, <1>3, <1>4 DEF FounderIsMember, Founded
<1>6. Sound'
  BY <1>2, <1>3 DEF FounderIsMember, Sound
<1>. QED BY <1>5, <1>6 DEF FounderIsMember, Founded, Sound

LEMMA FounderCreateGroup ==
  ASSUME TypeInv, FounderIsMember, NEW l \in Loops, CreateGroup(l)
  PROVE  FounderIsMember'
<1>1. \A g \in DOMAIN groups' : Founded(g)'
  <2>. SUFFICES ASSUME NEW g \in DOMAIN groups' PROVE Founded(g)'
    OBVIOUS
  <2>1. CASE g \in DOMAIN groups
    BY <2>1, CreateGroupStep DEF FounderIsMember, Founded, IsMember
  <2>2. CASE g \notin DOMAIN groups
    BY <2>2, CreateGroupStep DEF Founded
  <2>. QED BY <2>1, <2>2
<1>2. Sound'
  BY CreateGroupStep DEF FounderIsMember, Sound, IsMember
<1>. QED BY <1>1, <1>2 DEF FounderIsMember, Founded, Sound

LEMMA FounderAddCreator ==
  ASSUME TypeInv, CreatorInv, FounderIsMember, NEW l \in Loops, AddCreator(l)
  PROVE  FounderIsMember'
<1>. PICK u, g : u = job[l].req.user /\ g = job[l].group
  OBVIOUS
<1>1. \A v, h : IsMember(v, h) => IsMember(v, h)'
  BY AddCreatorStep, MemberStays
<1>2. g \in DOMAIN groups /\ groups[g].founder = u
  BY AddCreatorStep DEF CreatorInv, Creating
<1>3. UNCHANGED <<groups, crashes>>
  BY AddCreatorStep
<1>4. /\ \A k \in Loops \ {l} : pc'[k] = pc[k] /\ job'[k] = job[k]
      /\ broken \subseteq broken'
      /\ g \in broken' \/ IsMember(u, g)'
      /\ \A h \in broken' \ broken : h = g
      /\ faults' = 0 => faults = 0 /\ IsMember(u, g)'
  BY AddCreatorStep
<1>5. \A h \in DOMAIN groups' : Founded(h)'
  <2>. SUFFICES ASSUME NEW h \in DOMAIN groups' PROVE Founded(h)'
    OBVIOUS
  <2>1. CASE h = g
    BY <1>2, <1>3, <1>4, <2>1 DEF Founded
  <2>2. CASE h # g
    BY <1>1, <1>3, <1>4, <2>2 DEF FounderIsMember, Founded
  <2>. QED BY <2>1, <2>2
<1>6. Sound'
  BY <1>1, <1>2, <1>3, <1>4 DEF FounderIsMember, Sound
<1>. QED BY <1>5, <1>6 DEF FounderIsMember, Founded, Sound

LEMMA FounderNext ==
  ASSUME TypeInv, CreatorInv, FounderIsMember, [Next]_vars
  PROVE  FounderIsMember'
BY QuietNext, FounderQuiet, FounderCrash, FounderAddGroup, FounderCreateGroup, FounderAddCreator

LEMMA FounderBegins == Init => FounderIsMember
BY DEF Init, GroupTablesInit, FounderIsMember

(***************************************************************************)
(* Whoever is called creator of a group created it, and is the only one,   *)
(* with any number of threads and servers between the two statements of    *)
(* createGroup (groupmodel.cpp:15, chatservice.cpp:261).                   *)
(***************************************************************************)
THEOREM CreatorsAreFounders == Spec => []CreatorIsFounder
<1>1. Init => TypeInv /\ CreatorInv
  BY TypesInit, CreatorBegins
<1>2. TypeInv /\ CreatorInv /\ [Next]_vars => (TypeInv /\ CreatorInv)'
  BY TypesNext, CreatorNext
<1>3. CreatorInv => CreatorIsFounder
  BY DEF CreatorInv
<1>. QED BY <1>1, <1>2, <1>3, PTL DEF Spec

(***************************************************************************)
(* A group is without its founder only while createGroup is between its    *)
(* two statements, or after a failure or the end of a server               *)
(* (chatservice.cpp:257, 261).                                             *)
(***************************************************************************)
THEOREM FoundersAreMembers == Spec => []FounderIsMember
<1>1. Init => TypeInv /\ CreatorInv /\ FounderIsMember
  BY TypesInit, CreatorBegins, FounderBegins
<1>2. TypeInv /\ CreatorInv /\ FounderIsMember /\ [Next]_vars => (TypeInv /\ CreatorInv /\ FounderIsMember)'
  BY TypesNext, CreatorNext, FounderNext
<1>. QED BY <1>1, <1>2, PTL DEF Spec
==============================================================================
