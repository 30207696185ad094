----------------------------- MODULE ChatGroups -----------------------------
(***************************************************************************)
(* The handlers of ChatService that keep accounts, friends and groups:     *)
(* reg, addFriend, createGroup, addGroup, the list of members groupChat    *)
(* works through, and the lists of the login answer.  As in ChatService a  *)
(* handler runs to its end in the I/O thread of its connection, each SQL   *)
(* statement is a step, and what the handler has in hand is in job.        *)
(*                                                                         *)
(* Where a copy of a group message goes from line 288 on (connection,      *)
(* Redis or table) is the subject of ChatService; here it is enough that   *)
(* the loop has come to the member.  login begins with line 101.           *)
(***************************************************************************)
EXTENDS GroupTables

CONSTANTS
  Servers,      \* ChatServer processes
  Loops,        \* their I/O threads
  ServerOf,     \* the server of an I/O thread
  LoopOf,       \* the I/O thread of a terminal's connection
  KnownTo,      \* the account ids the user of a terminal begins with
  Msgs,         \* messages to groups
  MaxAccounts,  \* bound: no registration is sent beyond
  MaxGroups,    \* bound: no createGroup is sent beyond; ids users type
  NamesOf,      \* bound: names the user of a terminal registers with
  FriendIds,    \* bound: ids users type after addfriend
  MaxCommands,  \* bound: requests from each terminal
  MaxCrashes    \* bound: ends of servers

ASSUME GroupsAssumption ==
  /\ ServerOf \in [Loops -> Servers]
  /\ LoopOf \in [Terminals -> Loops]
  /\ KnownTo \in [Terminals -> SUBSET DOMAIN Known]
  /\ NamesOf \in [Terminals -> SUBSET Names]
  /\ FriendIds \subseteq Nat
  /\ MaxAccounts \in Nat /\ MaxGroups \in Nat
  /\ MaxCommands \in [Terminals -> Nat] /\ MaxCrashes \in Nat
  /\ None \notin Names \cup Msgs

VARIABLES
  termPc,     \* per terminal: where the main thread of the client is
  account,    \* g_currentUser of the terminal
  told,       \* ids the terminal was told by answers to a registration
  request,    \* the request in the socket of the terminal
  answer,     \* the answer in its socket that it has not read
  asked,      \* number of requests the terminal has sent
  pc, job,    \* per I/O thread: the handler it is in, and its locals
  crashes,    \* how often a server ended
  reached,    \* history: the members the loop of groupChat came to, in order
  expected,   \* history: the members when the message was sent
  fate,       \* history: how far a message is
  broken      \* history: groups whose createGroup did not get to its end

clientVars == <<termPc, account, told, request, answer, asked>>
loopVars == <<pc, job>>
historyVars == <<reached, expected, fate, broken>>
vars == <<groupTableVars, clientVars, loopVars, crashes, historyVars>>

Id == Nat \cup {None}

Request(kind, user, id, name, msg) ==
  [kind |-> kind, user |-> user, id |-> id, name |-> name, msg |-> msg]
NoRequest == Request("none", None, None, None, None)
Requests == [kind : {"none", "reg", "login", "addFriend", "createGroup", "addGroup", "groupChat"},
             user : Id, id : Id, name : Names \cup {None}, msg : Msgs \cup {None}]

\* An entry of "groups" in the login answer.
Lists == [group : Nat, members : SUBSET Nat]

Answer(kind, id, known) ==
  [kind |-> kind, id |-> id, friends |-> known, lists |-> {}, since |-> 0]
NoAnswer == Answer("none", None, {})
Answers == [kind : {"none", "reg", "login"}, id : Id, friends : SUBSET Nat,
            lists : SUBSET Lists, since : Nat]

JobFor(t, r) ==
  [term |-> t, req |-> r, group |-> None, rest |-> <<>>, left |-> {}, answer |-> NoAnswer]
NoJob == JobFor(None, NoRequest)
Jobs == [term : Terminals \cup {None}, req : Requests, group : Id, rest : Seq(Nat),
         left : SUBSET Nat, answer : Answers]

Pcs == {"idle", "reg", "login", "addFriend", "createGroup", "addGroup", "groupChat",
        "ack", "addCreator", "groups", "members", "fanOut"}

TypeOK ==
  /\ GroupTablesTypeOK
  /\ termPc \in [Terminals -> {"menu", "waitReg", "waitLogin", "chatting", "closed"}]
  /\ account \in [Terminals -> Id]
  /\ told \in [Terminals -> SUBSET Nat]
  /\ request \in [Terminals -> Requests]
  /\ answer \in [Terminals -> Answers]
  /\ asked \in [Terminals -> Nat]
  /\ pc \in [Loops -> Pcs]
  /\ job \in [Loops -> Jobs]
  /\ crashes \in Nat
  /\ reached \in [Msgs -> Seq(Nat)]
  /\ expected \in [Msgs -> SUBSET Nat]
  /\ fate \in [Msgs -> {"unsent", "sent", "failed", "done"}]
  /\ broken \subseteq Nat

Init ==
  /\ GroupTablesInit
  /\ termPc = [t \in Terminals |-> "menu"]
  /\ account = [t \in Terminals |-> None]
  /\ told = [t \in Terminals |-> {}]
  /\ request = [t \in Terminals |-> NoRequest]
  /\ answer = [t \in Terminals |-> NoAnswer]
  /\ asked = [t \in Terminals |-> 0]
  /\ pc = [l \in Loops |-> "idle"]
  /\ job = [l \in Loops |-> NoJob]
  /\ crashes = 0
  /\ reached = [m \in Msgs |-> <<>>]
  /\ expected = [m \in Msgs |-> {}]
  /\ fate = [m \in Msgs |-> "unsent"]
  /\ broken = {}

-----------------------------------------------------------------------------
(***************************************************************************)
(* The terminals, connected to their servers.  After a login or a          *)
(* registration the client waits for the answer; the commands are not      *)
(* answered, so the next request may be sent while the handler of the one  *)
(* before still works.                                                     *)
(***************************************************************************)
Send(t, r) ==
  /\ request[t] = NoRequest /\ asked[t] < MaxCommands[t]
  /\ request' = [request EXCEPT ![t] = r]
  /\ asked' = [asked EXCEPT ![t] = @ + 1]
  /\ UNCHANGED <<groupTableVars, told, answer, loopVars, crashes, reached, broken>>

SendReg(t, name) ==
  /\ termPc[t] = "menu" /\ Len(accounts) < MaxAccounts
  /\ Send(t, Request("reg", None, None, name, None))
  /\ termPc' = [termPc EXCEPT ![t] = "waitReg"]
  /\ UNCHANGED <<account, expected, fate>>

SendLogin(t, u) ==
  /\ termPc[t] = "menu"
  /\ Send(t, Request("login", u, None, None, None))
  /\ termPc' = [termPc EXCEPT ![t] = "waitLogin"]
  /\ UNCHANGED <<account, expected, fate>>

\* addfriend, creategroup and addgroup, with any id the user may type.
SendCommand(t, kind, id) ==
  /\ termPc[t] = "chatting"
  /\ kind = "createGroup" => Len(groups) < MaxGroups
  /\ Send(t, Request(kind, account[t], id, None, None))
  /\ UNCHANGED <<termPc, account, expected, fate>>

SendGroupChat(t, g, m) ==
  /\ termPc[t] = "chatting" /\ fate[m] = "unsent"
  /\ Send(t, Request("groupChat", account[t], g, None, m))
  /\ expected' = [expected EXCEPT ![m] = {u \in 1 .. Len(accounts) : IsMember(u, g)} \ {account[t]}]
  /\ fate' = [fate EXCEPT ![m] = "sent"]
  /\ UNCHANGED <<termPc, account>>

\* loginout brings the user back to the menu; what it does to the session is
\* in ChatService, and it writes to none of these tables.
Logout(t) ==
  /\ termPc[t] = "chatting" /\ request[t] = NoRequest
  /\ termPc' = [termPc EXCEPT ![t] = "menu"]
  /\ UNCHANGED <<groupTableVars, account, told, request, answer, asked, loopVars, crashes, historyVars>>

\* Mutant: no test of errno in line 272: the id of a failed registration is used.
ReadAnswerAnyId(t) ==
  /\ answer[t] # NoAnswer
  /\ answer' = [answer EXCEPT ![t] = NoAnswer]
  /\ IF answer[t].kind = "login"
     THEN /\ termPc' = [termPc EXCEPT ![t] = "chatting"]
          /\ account' = [account EXCEPT ![t] = answer[t].id]
          /\ UNCHANGED told
     ELSE /\ termPc' = [termPc EXCEPT ![t] = "menu"]
          /\ told' = [told EXCEPT ![t] = @ \cup {answer[t].id}]
          /\ UNCHANGED account
  /\ UNCHANGED <<groupTableVars, request, asked, loopVars, crashes, historyVars>>

ReadAnswer(t) ==
  /\ answer[t] # NoAnswer
  /\ answer' = [answer EXCEPT ![t] = NoAnswer]
  /\ IF answer[t].kind = "login"
     THEN /\ termPc' = [termPc EXCEPT ![t] = "chatting"]
          /\ account' = [account EXCEPT ![t] = answer[t].id]
          /\ UNCHANGED told
     ELSE /\ termPc' = [termPc EXCEPT ![t] = "menu"]
          /\ told' = [told EXCEPT ![t] = @ \cup ({answer[t].id} \ {None})]
          /\ UNCHANGED account
  /\ UNCHANGED <<groupTableVars, request, asked, loopVars, crashes, historyVars>>

-----------------------------------------------------------------------------
(***************************************************************************)
(* The handlers, in thread l.                                              *)
(***************************************************************************)
Goto(l, next, j) ==
  /\ pc' = [pc EXCEPT ![l] = next]
  /\ job' = [job EXCEPT ![l] = j]

Finish(l) == Goto(l, "idle", NoJob)

HandlersElse == UNCHANGED <<clientVars, crashes>>

OnMessage(t) ==
  LET l == LoopOf[t] IN
  /\ pc[l] = "idle" /\ request[t] # NoRequest
  /\ Goto(l, request[t].kind, JobFor(t, request[t]))
  /\ request' = [request EXCEPT ![t] = NoRequest]
  /\ UNCHANGED <<groupTableVars, termPc, account, told, answer, asked, crashes, historyVars>>

\* reg: the insert; user keeps id -1 unless it succeeds.
Reg(l) ==
  /\ pc[l] = "reg"
  /\ \E result \in Results :
       /\ UserInsert(job[l].req.name, job[l].term, result)
       /\ Goto(l, "ack", [job[l] EXCEPT !.answer =
            Answer("reg", IF result.ok THEN InsertId(accounts) ELSE None, {})])
  /\ UNCHANGED historyVars /\ HandlersElse

\* Mutant: the id is the newest of the table, asked for when the answer is written.
AckNewest(l) ==
  /\ pc[l] = "ack"
  /\ LET a == job[l].answer IN
       answer' = [answer EXCEPT ![job[l].term] =
         IF a.kind = "reg" /\ a.id # None THEN [a EXCEPT !.id = LastId(accounts)] ELSE a]
  /\ Finish(l)
  /\ UNCHANGED <<groupTableVars, termPc, account, told, request, asked, crashes, historyVars>>

\* Mutant: no else in line 175: nothing is sent when the insert failed.
AckSuccess(l) ==
  /\ pc[l] = "ack"
  /\ answer' = IF job[l].answer.id = None THEN answer
               ELSE [answer EXCEPT ![job[l].term] = job[l].answer]
  /\ Finish(l)
  /\ UNCHANGED <<groupTableVars, termPc, account, told, request, asked, crashes, historyVars>>

\* The answer of reg or of login.
Ack(l) ==
  /\ pc[l] = "ack"
  /\ answer' = [answer EXCEPT ![job[l].term] = job[l].answer]
  /\ Finish(l)
  /\ UNCHANGED <<groupTableVars, termPc, account, told, request, asked, crashes, historyVars>>

AddFriend(l) ==
  /\ pc[l] = "addFriend"
  /\ \E result \in Results : FriendInsert(job[l].req.user, job[l].req.id, result)
  /\ Finish(l)
  /\ UNCHANGED historyVars /\ HandlersElse

AddGroup(l) ==
  /\ pc[l] = "addGroup"
  /\ \E result \in Results : MemberInsert(job[l].req.user, job[l].req.id, "normal", result)
  /\ Finish(l)
  /\ UNCHANGED historyVars /\ HandlersElse

-----------------------------------------------------------------------------
\* createGroup: without success of the first insert there is no second.
CreateGroup(l) ==
  /\ pc[l] = "createGroup"
  /\ \E result \in Results :
       /\ GroupInsert(job[l].req.user, result)
       /\ IF result.ok
          THEN Goto(l, "addCreator", [job[l] EXCEPT !.group = InsertId(groups)])
          ELSE Finish(l)
       /\ broken' = IF result = Unknown THEN broken \cup {InsertId(groups)} ELSE broken
  /\ UNCHANGED <<reached, expected, fate>> /\ HandlersElse

\* Mutant: the id is the newest of the table, asked for after the insert.
AddCreatorToNewest(l) ==
  /\ pc[l] = "addCreator"
  /\ \E result \in Results :
       /\ MemberInsert(job[l].req.user, LastId(groups), "creator", result)
       /\ broken' = broken \cup (IF result.done THEN {} ELSE {job[l].group})
  /\ Finish(l)
  /\ UNCHANGED <<reached, expected, fate>> /\ HandlersElse

\* Mutant: user and group in the wrong order.
AddCreatorSwapped(l) ==
  /\ pc[l] = "addCreator"
  /\ \E result \in Results :
       /\ MemberInsert(job[l].group, job[l].req.user, "creator", result)
       /\ broken' = broken \cup (IF result.done THEN {} ELSE {job[l].group})
  /\ Finish(l)
  /\ UNCHANGED <<reached, expected, fate>> /\ HandlersElse

\* The result of the second insert is ignored.
AddCreator(l) ==
  /\ pc[l] = "addCreator"
  /\ \E result \in Results :
       /\ MemberInsert(job[l].req.user, job[l].group, "creator", result)
       /\ broken' = broken \cup (IF result.done THEN {} ELSE {job[l].group})
  /\ Finish(l)
  /\ UNCHANGED <<reached, expected, fate>> /\ HandlersElse

-----------------------------------------------------------------------------
\* groupChat: the members are read here (line 279), the mutex is taken later.
GroupChat(l) ==
  /\ pc[l] = "groupChat"
  /\ \E ids \in Listings(job[l].req.id) : \E vec \in {ids, <<>>} :
       /\ Query(ids, <<>>, vec)
       /\ Goto(l, "fanOut", [job[l] EXCEPT !.rest = vec])
       /\ fate' = IF vec = ids THEN fate ELSE [fate EXCEPT ![job[l].req.msg] = "failed"]
  /\ UNCHANGED <<tablesOnly, reached, expected, broken>> /\ HandlersElse

\* Mutant: break instead of continue in line 286.
FanOutBreak(l) ==
  LET id == Head(job[l].rest)  m == job[l].req.msg IN
  /\ pc[l] = "fanOut" /\ job[l].rest # <<>>
  /\ reached' = IF id = job[l].req.user THEN reached
                ELSE [reached EXCEPT ![m] = Append(@, id)]
  /\ Goto(l, "fanOut",
       [job[l] EXCEPT !.rest = IF id = job[l].req.user THEN <<>> ELSE Tail(@)])
  /\ UNCHANGED <<groupTableVars, expected, fate, broken>> /\ HandlersElse

\* One turn of the loop: the sender is skipped, any other member is served.
FanOut(l) ==
  LET id == Head(job[l].rest)  m == job[l].req.msg IN
  /\ pc[l] = "fanOut" /\ job[l].rest # <<>>
  /\ reached' = IF id = job[l].req.user THEN reached
                ELSE [reached EXCEPT ![m] = Append(@, id)]
  /\ Goto(l, "fanOut", [job[l] EXCEPT !.rest = Tail(@)])
  /\ UNCHANGED <<groupTableVars, expected, fate, broken>> /\ HandlersElse

FanOutEnd(l) ==
  /\ pc[l] = "fanOut" /\ job[l].rest = <<>>
  /\ fate' = [fate EXCEPT ![job[l].req.msg] = IF @ = "sent" THEN "done" ELSE @]
  /\ Finish(l)
  /\ UNCHANGED <<groupTableVars, reached, expected, broken>> /\ HandlersElse

-----------------------------------------------------------------------------
\* login: the friends (line 101), the user's groups (118, the outer statement
\* of queryGroups), then a statement for the members of each group.
LoginFriends(l) ==
  /\ pc[l] = "login"
  /\ \E vec \in {FriendsOf(job[l].req.user), {}} :
       /\ Query(FriendsOf(job[l].req.user), {}, vec)
       /\ Goto(l, "groups", [job[l] EXCEPT !.answer = Answer("login", job[l].req.user, vec)])
  /\ UNCHANGED <<tablesOnly, historyVars>> /\ HandlersElse

WithGroups(j, rows, since) == [j EXCEPT !.left = rows, !.answer.since = since]

LoginGroups(l) ==
  /\ pc[l] = "groups"
  /\ \E rows \in {GroupsOf(job[l].req.user), {}} :
       /\ Query(GroupsOf(job[l].req.user), {}, rows)
       /\ Goto(l, "members", WithGroups(job[l], rows, Len(groupUser)))
  /\ UNCHANGED <<tablesOnly, historyVars>> /\ HandlersElse

WithList(j, g, vec) ==
  LET a == [j.answer EXCEPT !.lists = @ \cup {[group |-> g, members |-> vec]}] IN
  [j EXCEPT !.left = @ \ {g}, !.answer = a]

\* Mutant: the condition of the inner join is that of the outer one.
LoginMembersSelf(l) ==
  /\ pc[l] = "members"
  /\ \E g \in job[l].left : \E vec \in {{job[l].req.user}, {}} :
       /\ Query({job[l].req.user}, {}, vec)
       /\ Goto(l, "members", WithList(job[l], g, vec))
  /\ UNCHANGED <<tablesOnly, historyVars>> /\ HandlersElse

LoginMembers(l) ==
  /\ pc[l] = "members"
  /\ \E g \in job[l].left : \E vec \in {MembersOf(g), {}} :
       /\ Query(MembersOf(g), {}, vec)
       /\ Goto(l, "members", WithList(job[l], g, vec))
  /\ UNCHANGED <<tablesOnly, historyVars>> /\ HandlersElse

LoginListed(l) ==
  /\ pc[l] = "members" /\ job[l].left = {}
  /\ Goto(l, "ack", job[l])
  /\ UNCHANGED <<groupTableVars, historyVars>> /\ HandlersElse

-----------------------------------------------------------------------------
(***************************************************************************)
(* A server process ends, with what its threads have in hand; the clients  *)
(* connected to it exit.  It is started again without them.                *)
(***************************************************************************)
Crash(s) ==
  LET here(l) == ServerOf[l] = s
      own(t) == here(LoopOf[t]) IN
  /\ crashes < MaxCrashes
  /\ crashes' = crashes + 1
  /\ broken' = broken \cup {job[l].group : l \in {k \in Loops : here(k) /\ pc[k] = "addCreator"}}
  /\ fate' = [m \in Msgs |->
       IF \/ \E l \in Loops : here(l) /\ job[l].req.msg = m
          \/ \E t \in Terminals : own(t) /\ request[t].msg = m
       THEN "failed" ELSE fate[m]]
  /\ pc' = [l \in Loops |-> IF here(l) THEN "idle" ELSE pc[l]]
  /\ job' = [l \in Loops |-> IF here(l) THEN NoJob ELSE job[l]]
  /\ termPc' = [t \in Terminals |-> IF own(t) THEN "closed" ELSE termPc[t]]
  /\ request' = [t \in Terminals |-> IF own(t) THEN NoRequest ELSE request[t]]
  /\ answer' = [t \in Terminals |-> IF own(t) THEN NoAnswer ELSE answer[t]]
  /\ UNCHANGED <<groupTableVars, account, told, asked, reached, expected>>

Handle(l) ==
  \/ Reg(l) \/ Ack(l) \/ AddFriend(l) \/ AddGroup(l) \/ CreateGroup(l) \/ AddCreator(l)
  \/ GroupChat(l) \/ FanOut(l) \/ FanOutEnd(l)
  \/ LoginFriends(l) \/ LoginGroups(l) \/ LoginMembers(l) \/ LoginListed(l)

Type(t) ==
  \/ \E name \in NamesOf[t] : SendReg(t, name)
  \/ \E u \in KnownTo[t] \cup told[t] : SendLogin(t, u)
  \/ \E u \in FriendIds : SendCommand(t, "addFriend", u)
  \/ SendCommand(t, "createGroup", None)
  \/ \E g \in 1 .. MaxGroups : \/ SendCommand(t, "addGroup", g)
                               \/ \E m \in Msgs : SendGroupChat(t, g, m)

Next ==
  \/ \E t \in Terminals : Type(t) \/ Logout(t) \/ ReadAnswer(t) \/ OnMessage(t)
  \/ \E l \in Loops : Handle(l)
  \/ \E s \in Servers : Crash(s)

Spec == Init /\ [][Next]_vars

\* Threads run and clients read; nothing is assumed of users and crashes.
FairSpec ==
  /\ Spec
  /\ \A l \in Loops : WF_vars(Handle(l))
  /\ \A t \in Terminals : WF_vars(OnMessage(t)) /\ WF_vars(ReadAnswer(t))
==============================================================================
