# chatserver: a TLA+ model of the chat cluster

The program is a cluster of chat servers. Several `ChatServer` processes run behind nginx;
each serves its TCP connections with muduo I/O threads, and the processes share one MySQL
database and one Redis. A user logs in from a console client (`ChatClient`), which nginx
connects to any of the servers. A message to a user on the same server is sent through that
server's map of sessions; a message to a user on another server is published on the
addressee's Redis channel; a message to a user who is offline is stored in MySQL and handed
out at the next login. Paths below are relative to the repository.

What can go wrong here is almost never inside one handler. It is between two of them: two
threads or two servers that test and set the same row, a message routed by a state that is
no longer true, a subscription that is still on its way to Redis, a process that stops
between two statements, two texts that meet in one buffer. That is what this project models,
checks and, for the most part, proves.


## 1. The system

| part | state | operations | talks to |
|---|---|---|---|
| `ChatServer` (`src/server/chatserver.cpp`) | the muduo connections and loops | `onConnection`, `onMessage` (parse, then call the handler of `msgid`) | calls `ChatService` in the I/O thread of the connection |
| `ChatService` sessions (`src/server/chatservice.cpp`) | `_userConnMap` and `_userConnMutex` of each process | `login`, `clientCloseException` (end of stream, and the handler of `LOGINOUT_MSG`), `reset` | UserModel, OfflineMsgModel, Redis, `TcpConnection::send` |
| `ChatService` routing | none of its own | `oneChat`, `groupChat`, `handleRedisSubscribeMessage` | the map, UserModel, OfflineMsgModel, Redis |
| `ChatService` accounts, friends, groups | none of its own | `reg`, `addFriend`, `createGroup`, `addGroup`, the lists of the login answer | UserModel, FriendModel, GroupModel |
| `Redis` (`src/server/redis/redis.cpp`) | two hiredis contexts, the detached observer thread | `publish` (waits for its reply), `subscribe` and `unsubscribe` (written, not waited for), `observer_channel_message` | calls `handleRedisSubscribeMessage` in the observer thread |
| models and `MySQL` (`src/server/model`, `src/server/mysqldb`) | the tables | one connection and one autocommitted statement for each call; errors become default values or nothing | MySQL |
| process (`src/server/main.cpp`) | – | `main`, `resetHandler` on SIGINT: `reset`, then `exit(0)` | `ChatService::reset` in the main thread |
| `ChatClient` (`src/client/main.cpp`) | `isLoginSuccess`, `g_currentUser`, `rwsem` | main thread: menu, commands, `sem_wait`; reader thread: `recv`, answers, messages, `sem_post` | one TCP connection |
| nginx | – | spreads connections over the servers | – |

What makes each part correct:

* **Sessions.** An account has one session in the whole cluster. A terminal has one account.
  The end of a connection ends its session. `User.state` says whether there is a session,
  because every other server decides by it. The iterators that `clientCloseException` and
  `reset` work through stay valid. The server that has the session listens to the account's
  channel, and no other server does.
* **Routing.** Each recipient gets each message once, in order, and it goes into the table
  only for somebody who is away.
* **Progress.** Every handler returns although four of them keep the mutex over calls to
  MySQL and Redis; every login is answered, since the client waits for it without a timeout.
* **Client.** The semaphore is posted once per wait; the reader thread touches what it shares
  with the main thread only while that waits; a chat begins only after the login it waited for
  was accepted, and as the user of that answer. No text is skipped silently.
* **Accounts and groups.** The ids worked on and told after an insert are those of one's own
  row. A group has its founder as a member. Who is a member when a group message is sent is
  served, once, and nobody else. The lists of a login answer miss no member.

Hard to test, with the line where each of them bites, are the entries under `hazards` in
`PROJECT.json`: check-then-act over two statements (lines 64 and 86, 94 and 98, 216 and 219
of `chatservice.cpp`), unordered commands to Redis (83, 193), a map shared by all threads
(80, 188), a mutex held over remote calls (281), SIGINT and crashes in the middle of all that
(230, 239), failing MySQL calls that nobody notices (195, 261), texts that arrive together or in
parts (`chatserver.cpp:41`, client `main.cpp:325`), and a semaphore that serves two kinds of
answers (`main.cpp:351`).


## 2. The modules

| module | models | from |
|---|---|---|
| `ChatConstants` | the parameters of all modules and their assumptions | – |
| `ChatTables` | `User.state` and `OfflineMessage`, an operation for each SQL statement | `UserModel.cpp`, `offlinemessagemodel.cpp` |
| `RedisPubSub` | class `Redis` and the Redis server: commands on their way, subscriptions, pushes | `redis.cpp` |
| `ChatTerminals` | the clients as a server meets them | `client/main.cpp` |
| `ChatService` | the composition: connections, dispatch, all the handlers, observer, `reset`, process | `chatservice.cpp`, `chatserver.cpp`, `main.cpp` |
| `ChatSessions` | the properties of sessions | – |
| `ChatDelivery` | where each message is, the history of disturbances, the properties of routing | – |
| `Presence` | abstract specification: who is logged in from which terminal | – |
| `ChatPresence` | the refinement mapping to `Presence` | – |
| `ChatClaims` | what comments of the code say | – |
| `GroupTables` | `User`, `ALLGroup`, `GroupUser`, `Friend`, an operation for each SQL statement, with what its caller is told | `UserModel.cpp`, `groupmodel.cpp`, `friendmodel.cpp`, `db.cpp` |
| `ChatGroups` | the handlers of accounts, friends and groups in several threads and servers, their clients, crashes | `chatservice.cpp`, `client/main.cpp` |
| `ChatMembership` | the properties of accounts and groups | – |
| `ChatClient` | one client: main thread, reader thread, semaphore; the two streams of the connection; the I/O thread at the other end | `client/main.cpp`, `chatserver.cpp`, `chatservice.cpp` |
| `Terminal` | abstract specification: what the user of a terminal may rely on | – |
| `ChatTerminal` | the properties of the client, the refinement mapping to `Terminal` | – |
| `ChatInvariants` | inductive invariants of the proofs about sessions | – |
| `ChatSessionProofs`, `ChatConnProofs` | proofs about `ChatService`: types, mutex, sessions; connections and their frames | – |
| `ChatPresenceProofs` | proofs about `ChatService`, Redis and tables together, and of the refinement of `Presence` | – |
| `ChatDeliveryProofs` | proofs about the routing of messages, on top of the invariants of the three modules above | – |
| `ChatOrderProofs` | proof that messages stay in order, on top of `ChatDeliveryProofs` | – |
| `ChatGroupsProofs`, `ChatMembershipProofs` | proofs about `ChatGroups` | – |
| `ChatClientProofs` | proofs about `ChatClient` | – |
| `MCChat`, `MCDelivery`, `MCGroups` | small clusters for TLC | – |

`ChatService` extends the three modules it composes: tables, Redis and terminals each own
their variables and the operators that change them, and the handlers call these operators
where the code calls the objects. `ChatGroups` and `ChatClient` look at two other sides of the
same program, each with only as much of the rest as it needs: the handlers of `ChatGroups`
write to tables that `ChatService` never reads (it takes the members of a group for
constant), and `ChatClient` opens up the client and the streams that are one step and
one-place buffers in the other two.

**Steps.** A step is what one thread does between two points where another thread, another
server, MySQL or Redis may come in: one SQL statement, one command to Redis, one critical
section of `_userConnMutex`, or the start or end of one that contains other steps. Handlers
run to their end in the I/O thread of the connection, as in muduo, so `pc[l]` and `job[l]`
are the program counter and the locals of thread `l`. The steps of `login`, for example, are:

| action | lines of `chatservice.cpp` |
|---|---|
| `LoginRefuse`, `LoginAccept` | 64-77 and the refusals: query the user, test password and state |
| `LoginInsert` | 78-81: insert into the map, under the mutex |
| `LoginSubscribe` | 83 |
| `LoginOnline` | 85-86 |
| `LoginReadOffline`, `LoginRemoveOffline` | 94, 98 (only if there were rows) |
| `LoginAck` | 145: the answer; the friends and groups it carries are read here and change nothing |

`clientCloseException` is `CloseFind` or `CloseNothing`, `CloseUnsubscribe`, `CloseOffline`,
`CloseErase`, with the mutex held from the first to the last; `loginout` (line 309) is never
registered (line 29 registers `clientCloseException`) and is not modelled.
`oneChat` holds the mutex only for its look into the map (`OneChatFind`); `groupChat` reads
the members, then holds it for the whole loop (`GroupChatLock` to `GroupChatEnd`), and its
members come in any order. The observer thread finds the connection and sends in one
critical section, or keeps the mutex until it has stored the message.

**muduo.** `served[c]` and `RunPendingFunctors` model one iteration of an `EventLoop`: each
connection has at most one event in it, then the functors queued by other threads run.
`TcpConnection::send` writes at once in the connection's own thread and queues a functor in
any other; on a connection that is down it does nothing. This decides the order of frames.

**Redis.** `cmds[s]` are the commands that server `s` wrote and Redis has not executed;
`PUBLISH` is executed when it is called, because `redisCommand` waits for its reply. So a
subscription can be late, and a publication meets the subscribers of that moment.

**Faults.** `DBFaults` lets each MySQL call fail by itself: a query returns its default
value, an update changes nothing. A server stops by SIGINT (`Sigint`, the steps of `reset`,
`ResetExit`; its other threads go on until the process is gone) or by `Crash`, at any
moment, and starts again with an empty map. Clients may be killed at any moment, with or
without the request they sent last.

**Data.** In `ChatService` accounts, messages and connections are model values, and a frame is
its kind, the account it is for and the messages in it; names, times and texts are left out.

**Accounts and groups.** A table is the sequence of its rows, so that the id of a row is its
place: ids are `AUTO_INCREMENT`, since the code asks for them with `mysql_insert_id`. The
schema is not in the repository; `Keyed` says whether `User.name`, `(groupid, userid)` and
`(userid, friendid)` are unique. Each call of `MySQL` has a result for the table and one for
the caller, which differ when a connection breaks after the commit: `Done`, `NotDone`,
`Unknown` (done, but `update` returns false). A failed query returns no result set, which
every caller takes for no rows. A handler is a step for each statement:

| action | statement |
|---|---|
| `Reg`, `Ack` | `UserModel::insert` with the id it got; the answer with this id or an error |
| `CreateGroup`, `AddCreator` | `GroupModel::createGroup`; then, only if it succeeded, `addGroup` for the creator |
| `AddFriend`, `AddGroup` | one insert each; nobody looks at the result |
| `GroupChat`, `FanOut`, `FanOutEnd` | `queryGroupUsers` at line 279; a turn of the loop for each member; its end |
| `LoginFriends`, `LoginGroups`, `LoginMembers`, `LoginListed` | `FriendModel::query`; the outer statement of `queryGroups`; its inner one for each group; the answer is complete |

Ids in commands are whatever the user types. History variables, which no action reads to
decide: the columns `by` and `founder` (who asked for the row), `reached`, `expected` and `fate`
of a group message, `broken` (groups whose creation was cut short).

**The client.** A stream is the sequence of texts that are on their way. Nothing marks where a
text ends, and both sides parse whatever is in their buffer as one JSON text, which
`json::parse` accepts only if it is exactly that. So a read finds the next text alone
(`ReadsOne`), or it finds something else (`ReadsOther`: several texts, a part of one, the
first 1024 bytes of a longer one), and then the exception, which nobody catches, ends the
process (`ReadBroken`, `OnBrokenMessage`). Main and reader thread interleave at their accesses to
`rwsem`, `isLoginSuccess` and `g_currentUser`. The server accepts or refuses logins as it
likes, and forwards messages from the moment line 80 has registered the connection
(`Registered`), that is, also before the answer to the login and after a logout while functors
are queued. `REG_MSG` and `LOGIN_MSG_ACK` are the same number, as in `public.hpp`.


## 3. What TLC checks

A run explores every reachable state of one small cluster. The bounds are: `MaxLogins` for each
terminal, each message sent once, `MaxStops` for the stops of servers. Connections are not
reused once closed, as in the code. `Patient` restricts the users: nobody begins
to log in an account while a login of the same account is in progress anywhere. Where it is
TRUE, the reason is the finding about two logins at a time: without it the property fails.
None of the configurations replaces a definition or prunes states.

| run | cluster | shows |
|---|---|---|
| `one_server` | 1 server, 2 threads, 2 accounts, 1 message, impatient users | `TypeOK`; a connection is registered for one account only; on a terminal that changes accounts, messages follow the login they belong to |
| `reset` | 1 server, 2 threads, 2 accounts, failing MySQL, SIGINT, impatient users | iterators stay valid; a dead connection is in the map only while its close handler is at work |
| `cluster` | 2 servers, 1 account on 2 terminals, crash or SIGINT and restart | one session in the cluster; the server that has it listens to its channel |
| `presence` | 2 servers, right and wrong passwords, fairness | the cluster implements `Presence`; the session of a terminal that is gone ends; nobody is locked out; one server listens to a channel; every login is answered |
| `delivery` | 2 servers, sender and an addressee who comes and goes, fairness | in calm, a message is in exactly one place, lands, and is stored only for somebody who is away |
| `order` | 2 servers, a direct and a group message | no duplicates, order of sending kept over map, Redis and table |
| `progress` | 1 server, 2 threads, a group message, failing MySQL, fairness | every handler returns |
| `groups` | 2 servers with a thread and a terminal each, 3 requests from each terminal, 3 names, a group message, one MySQL failure, one crash, fairness | own ids after inserts; founders are members; members are served once; lists are whole; who waits is answered |
| `client` | 1 client, 2 accounts, 5 requests, 2 forwarded messages, texts split and joined, either process may end, fairness | the semaphore is posted once per wait; the reader is where the main thread waits for it; no text is skipped; the client implements `Terminal`; every wait ends |
| `claim_*` | | the three findings below |

All passing runs set `CHECK_DEADLOCK FALSE`: when every client has exited, the system rests.
`reset` and `cluster` have 2.6 million distinct states each, `one_server` 1.4 million, `client` and
`groups` 652,380 and 419,491.

Why these bounds are enough to be interesting: two I/O threads (of one server or one each of
two) are what every race in the list of hazards needs; one account on two terminals, or two
accounts on one terminal, gives each way of mixing up sessions; two logins from one terminal
give a session after a session, hence stale entries, stale subscriptions and rows of the
table that are read or not. A third server only adds another bystander to the
channel of an account. In `groups`, three requests of each terminal are enough to register, log
in and create, join or write to a group while the other does the same; the races of interest
are between two inserts or between one reader and one writer of a table. One failing call and one crash
suffice because a handler makes two statements at most whose parts belong together. In
`client`, five requests give two logins with a registration or a command and a logout between
them, so that a post or a text left over by the first could reach the second. The five
commands are treated alike by every action, so that one kind stands for them. All actions of
`Next` occur in these runs.

**Calm.** The handlers choose the way of a message from a session that may change under
them, so no guarantee holds for every message: two findings are about that. `ChatDelivery`
says exactly when the guarantee holds. The history variable `disturbed` collects the pairs of
message and addressee for which the addressee's session was *unsettled* while the message was
in flight: a login between insert and online, an end of a session between unsubscribe and
erase, a command for the channel not yet executed, a connection that is down but registered,
or the sender's process gone with the message in its socket. For all others
(`CalmExactlyOnce`) the copies in sockets, handlers, Redis, queues, table and answers are
exactly one, at all times, whatever the account does after the message landed.

**The refinement.** `Presence` knows logins, logouts and terminals that leave, and promises
one terminal for each account, one account for each terminal, and that a session whose terminal
is gone ends; its safety (`ImplementsPresence`, also proved) and its liveness
(`AbandonedSessionsEnd`, model-checked) are two properties. In `ChatPresence` the moment of a login is the update of line 86 and that of
its end the update of line 195: the row decides *that* there is a session, the map says
*which*. Steps between map, Redis and table are stutters.
`Terminal` knows where the user of one client is and as whom: a login leads to the chat if and
only if the server accepted it, as the account it named, and otherwise back to the menu.
In `ChatTerminal` the user is at the login from the request until `main` has tested
`isLoginSuccess`; all the reader thread does is a stutter.

**Fairness.** Threads run: weak fairness on the handler of each I/O thread, on its loop and
its events, on the observer, and on `reset` once it began. Redis executes what it is sent. The
client's reader thread reads login answers. In `ChatGroups` it is the handler of each thread, its
next request and the read of an answer; in `ChatClient` the main thread between the
user's choices, the reader thread, and the thread of the server. Nothing is assumed of users (they need not log
in, send or leave), of signals, of crashes or of restarts. Weak fairness suffices for a
thread that waits for the mutex since the requests are bounded, so after some time nobody
else takes it; with unbounded traffic `std::mutex` gives no such guarantee.


## 4. What the runs found

Each is a run with `expect: violation`, whose property is what a comment of the code says.

* **Two logins at the same time** (`claim_one_session`). `login` reads the state at line 64
  and writes it at line 86. Two logins of an account that both read first are both accepted;
  line 72 says such a login is refused. The account then has two sessions, and the first to
  end marks the account offline and unsubscribes its own server only.
* **A stored message is deleted unread** (`claim_stored`). `login` queries the offline
  messages (94) and then deletes all of the account's rows (98). A row inserted in between by
  a sender that read "offline" before line 86 is lost. Line 223 says that it is sent
  when the user is back.
* **A message published to nobody** (`claim_published`). `login` writes SUBSCRIBE (83) and marks
  the account online (86) without waiting until Redis has executed the command
  (`redis.cpp:57-72`). In the run, the account logs in on one server; the handler of the other
  reads "online" (216) and publishes (219) while the SUBSCRIBE is still on its way. Redis
  drops a message without subscribers; it is not stored either. Line 219 says that the
  addressee is notified. The same holds at the end of a session: `clientCloseException`
  unsubscribes (193) before it updates the row (195), so that a handler that has read "online"
  may publish in between. TLC reports a shortest behaviour, and that one is longer: it shows when
  `PublishIsHeard` is weakened to addressees without a login or a SUBSCRIBE under way.

Seen while modelling, not claimed as findings: after a crash the accounts of that server stay
online and cannot log in again, because the call of `resetState` (line 230) and the function
itself are commented out; and a login that passed line 81 when SIGINT comes may mark its
account online after `reset` marked it offline, with the same result. The row also stays
online when the update of line 195 fails. So `NoLockout` and the refinement are checked without
stops and with a MySQL that answers. And two requests that reach a server in one read end its
whole process (`chatserver.cpp:41`), as two texts in one read end the client; `NothingSkipped` and
`WaitsEnd` allow these ends, since nothing in the repository says otherwise.


## 5. What is proved

TLAPS proves the following for every number of servers, threads, connections, accounts, names,
groups and messages, every placement of them, and every bound. The only assumptions are the
named ones of the modules: in `ChatConstants` `PlacementAssumption` (a thread has a server, a
connection has a thread), `NoneAssumption` (the value that means "nothing" is nothing else;
threads are not called "observer" or "main") and `FaultAssumption` (types of the switches);
`TablesAssumption` and `GroupsAssumption`, `ClientAssumption` likewise for the other two models.

| theorem | module | says |
|---|---|---|
| `TypeInvariance`, `TypeCorrect` | `ChatSessionProofs` | types of all variables; a handler never works with a field that no earlier step filled |
| `MutexCorrect` | `ChatSessionProofs` | the holder of `_userConnMutex` is the thread in a critical section |
| `IteratorsStayValid` | `ChatSessionProofs` | `IteratorsValid`, with all faults |
| `DeadEntriesGo` | `ChatConnProofs` | `NoDeadEntry`, with all faults |
| `SingleEntry` | `ChatConnProofs` | `OneEntryPerConnection`, with all faults |
| `FramesFollow` | `ChatConnProofs` | `FramesFollowTheirLogin`, with all faults |
| `OneSession` | `ChatSessionProofs` | `AtMostOneSession`, with crashes and SIGINT, if `Patient` and MySQL answers |
| `SessionsListen` | `ChatPresenceProofs` | `EntryListens`, with all faults |
| `ListenerIsAlone` | `ChatPresenceProofs` | `OneListener`, with crashes, if `Patient`, MySQL answers and nobody sends SIGINT |
| `NobodyLockedOut` | `ChatPresenceProofs` | `NoLockout`, if `Patient`, MySQL answers and servers do not stop |
| `PresenceImplemented` | `ChatPresenceProofs` | `ImplementsPresence`, under the same three conditions |
| `CalmCopyIsOne` | `ChatDeliveryProofs` | `CalmExactlyOnce`, under the same three conditions |
| `StoredOnlyForTheAbsent` | `ChatDeliveryProofs` | `StoredForTheAbsent`, under the same three conditions |
| `CalmOrderIsKept` | `ChatOrderProofs` | `CalmInOrder`, under the same three conditions |
| `GroupTypes`, `GroupTypesInUse` | `ChatGroupsProofs` | types of the group model, and the fields each step works with |
| `ToldIdsAreYours` | `ChatGroupsProofs` | `ToldIsYours` |
| `CreatorsAreFounders` | `ChatGroupsProofs` | `CreatorIsFounder` |
| `FoundersAreMembers` | `ChatGroupsProofs` | `FounderIsMember` |
| `ServedMembers` | `ChatMembershipProofs` | `MembersAreServed` |
| `WholeLists` | `ChatMembershipProofs` | `ListsAreWhole` |
| `ClientTypes` | `ChatClientProofs` | types of the client model |
| `PostsMatchWaits` | `ChatClientProofs` | `OnePostPerWait` |
| `ReaderExpected` | `ChatClientProofs` | `ReaderIsExpected` |
| `TextsInOrder` | `ChatClientProofs` | `NothingSkipped` |
| `TerminalImplemented` | `ChatClientProofs` | `ImplementsTerminal` |

*Types.* `TypeOK` of `ChatService` is not inductive: `None` is a legal user in a request or a job, but the
handlers index tables with it. `TypeInv` adds that a request of a kind has the fields of that
kind, that a chatting terminal knows its user, and, for each program counter, which locals
are filled (`JobOK`). `ChatGroups` needs the same.

*The mutex.* `MutexInv` is `TypeInv`, `LockInv` (holder of the mutex if and only if in one of the
critical sections, for I/O threads, observer and main thread), `ResetOK` (what `reset` has
left is empty outside it) and `IteratorsValid`. The last needs the others: an
entry under an iterator is erased only by a thread that holds the same server's mutex, that
is, by nobody else; a login's insert takes the free mutex and replaces nothing.

*Connections and entries.* The insert of line 80 replaces nothing, so both properties depend on a login
that finds its connection without an entry. `ConnInv` follows, for each connection, the login
request, its handler and its answer: there is at most one of the three, and none when
the client is in the menu or chats. After a logout the connection's own thread runs the
handler of `LOGINOUT_MSG` before it reads the next login of that connection, and `CloseErase`
removes the one entry there is: by `IteratorsValid` nobody else removed it, and by
`SingleEntry` there is no second one.

*One session.* A session is *live* from the insert into the map until its owner is marked
offline by whoever ends it. `AtMostOneSession` is inductive only with:
`LiveIsOnline` (a live session is marked online, or its login is about to do it),
`NewLoginIsAlone` and `EnteringIsAlone` (while a login is past the test, the account is
offline and no other server has a session of it), and `OneLogin` (requests and logins in progress
of an account are at most one, which is what `Patient` buys). A login that finds "offline"
finds no session, since the only one not marked online would belong to another
login. Whoever marks an account offline holds the mutex and an iterator to a live entry
(by `IteratorsStayValid` and `LockInv`), so the session it ends is the only one. Both
hypotheses are needed: `claim_one_session` is the counterexample without `Patient`, and
`clientCloseException` does not notice a failing update.

*Frames of a login.* The entry of an account is in the map when its confirmation is not yet
written, and other threads send through it. `FramesInv` says, for each connection, for whom a
frame may be on its way (`For`): while its thread is in `login` after the insert, for the account that
logs in; otherwise for the account of the last confirmation in its socket. Every entry that
leads to the connection and every frame queued in its loop is for that account
(`EntriesFor`, `PendingFor`). What other threads send during the login is written after
the handler has returned, hence after the confirmation. The delicate moment is the next login of
the same connection: the queue must be empty then. It is (`FlushOK`), because a frame is
queued only while there is an entry, the client's request at that time is not a login
(`ConnInv`), and the logout that must come first is an event of its own, at the end of whose iteration the
queue is written.

*Who listens.* What a server will listen to when Redis has caught up is decided by the last
command it wrote for the channel (`WillListen`; lemmas `CommandWritten`, `CommandExecuted`).
`EntryListens` is inductive together with `MutexInv`: between the insert and the subscription, and
between the unsubscription and the end of the session, a handler or `reset` is at a known
place, with the entry under its iterator. It needs no hypothesis.
`OneListener` follows from `OneSession` and `ListenersLive`: whoever will listen has a live session. That is
inductive with `EnteringOwns` (a login past its insert has the entry) and `Unheard` (a server
whose close handler has unsubscribed listens no longer). A SIGINT breaks it: `reset` clears the map while a login stands
before its subscription, which then outlives the entry. TLC shows that on the cluster of `presence` with
`StopKinds = {"sigint"}`, so `ListenerIsAlone` excludes SIGINT; it allows crashes, which
take the subscriptions of the server with them.

*Presence.* `PresenceInv` adds `OnlineIsLive` to the invariants above: an account marked online
has a live session. With it, `SessionOf` is a function of the state (`SessionIs`): the one entry of
the account, whose connection has no other. `LoginOnlineIsLogIn` shows that the update of line 86 is
a `LogIn` of the abstract specification, `CloseOfflineIsLogOut` that the update of line 195 is
a `LogOut`, and a terminal that closes is a `Leave`; `PresenceSimulation` that every other step is a
stutter. A crash, a SIGINT or a failing update leaves an account online without a session, so the
theorems exclude them.

*One copy.* `Content` has a cell for each carrier of a message `m` for an account `u`: each
socket, handler, queue, connection to Redis, the table, each answer to a login. `InPlace` says
that all cells are empty before `m` is sent and that afterwards one cell holds one copy; from
that, `SingleCopy` gives the cardinality in `CalmExactlyOnce`. It is inductive, for the pairs that
nothing disturbed, together with `OnTheWay` and `ReadAll`. `OnTheWay`: a letter in Redis is pushed to
a server that has an entry for `u`, a queued frame waits at the connection of the entry, the
observer stores nothing, and a handler about to publish or to store has read the state the account
still has. `ReadAll`: between the query and the removal in `login` (lines 94, 98) no row comes. Both
speak about the session at the end of the way, read at its beginning; they stay true since
the session of `u` stands still while `m` is in flight. That is `CalmIsSettled` with
`SettledStays`: only a login or a close changes a session, and it shows in `Unsettled` one
step earlier, when the pair goes to `disturbed`. Then
  - a handler that finds the entry writes or queues the frame for a connection that is up
    (`SettledEntry`, from `ConnInv`), and the loop writes the queue before the connection goes;
  - a handler that finds "online" publishes to exactly one subscriber (`OneSubscriber`: from
    `EntryListens` at least one, from `OneListener` at most one);
  - a handler that finds "offline" stores one row, and the login that empties the table is
    the one that read the same rows (`JobFits`, from `OneLogin`).

Each step is shown to leave every cell as it is (`NothingMoves`) or to move the copy from one cell
to another (`Moves`); `ThreadKept`, `OtherKept` and `TerminalKept` go through the actions.
`StoredOnlyForTheAbsent` follows: who stores read "offline", by `OnTheWay` that is still so, and in a
settled session `LiveIsOnline` leaves no live entry. Each hypothesis is needed: a failing insert
loses a message, a crash loses what is in the process, and a second login of the same account
leaves two subscribers.

*In order.* On its way a message passes stages: the sender's socket, the handler, Redis, the queue of
the addressee's loop, the table, the answer to a login, the addressee's socket (`Stage`). It skips
some, but never goes back (`DeliveryInv` gives it one copy, so it is at one stage). `OrderInv` says of every pair
that nothing disturbed, `m` sent before `n` from one connection to one account, that `n` is at no later
stage than `m` (`NotOvertaken`), and that if both are in one carrier, `m` is in front (`InFront`). For
the socket the latter is `CalmInOrder`. Alone it is not inductive: `n` might go
directly to the socket while `m` is in Redis or in a queue, or be written to a socket while `m`
is in the table. `Apart` excludes that: who publishes or stores has no
entry of the account on its server; what is in Redis is on its way to another server than
the sender's, what is in a queue was put there by another loop than the addressee's; and if the account
is online, what is in the table is about to be taken by the login that made it so (`Collecting`).
A handler of the sender's connection that sends `n` therefore finds, while `m` is in flight, the
session in the same place as the one that sent `m` (`SettledStays` once more), and takes the same way. Then
  - the two are not in the sender's socket or in handlers at the same time (`NotBothRequested`,
    `NotBothHandled`: a socket and the thread of a connection have room for one request);
  - what is appended to a carrier comes behind what is in it, and what leaves one leaves it at the front
    (`AheadAppended`, `AheadTaken`, `FramesAppended`, `FramesJoinedAhead`);
  - only the addressee's own loop writes to its socket, and that loop carries out the login
    (`LoginLoop`): when it handles a message or writes its queue, no row is left in the table of the
    account (`HandsClear`, `FlushClear`), and the answer has the rows in the table's order (`AckOrder`);
  - a message that is sent is new, so behind all others (`BeforeThat`, `AbsentBehind`).

`Carriages` says which of the seven ways of carrying each action is; one lemma per way
(`HandsOrder`, `AnnounceOrder`, `StoreOrder`, `ForwardOrder`, `AckOrder`, `FlushOrder`, `RemoveOrder`)
keeps the order, and `ApartStep` keeps `Apart`. `OrderInv` was an invariant of TLC's run on the cluster of `order`
before it was proved.

*Ids after inserts.* `ToldInv` follows an id from the insert through the handler and the answer
to the terminal: at each place the row with that id was asked for by this terminal. It
holds because rows are never changed and the id comes from the connection of the insert.
`CreatorInv` is `CreatorIsFounder` with `Creating`: while a handler stands between the two inserts of
`createGroup`, its group was founded by its user, has no creator yet, and no other
handler stands there with the same group. The second row with role "creator", or one for
somebody else's group, would contradict this.

*Founders.* `FounderIsMember` is inductive with `Creating`, by which the id the handler works on is its own group: the
second insert ends its middle alternative, and `Crash` moves the group of an ended handler to `broken`.

*Who is served.* `ServeInv` says, for each message, where it is: unsent, in at most one socket, or in at most one
loop (`Waiting`, `Serving`, `SocketOK`, `LoopOK`, `FateOK`), and for the loop that what it
reached and what it has left are disjoint, without repetition if `Keyed`, all members of the group, and
together with the sender all who are expected. `KeyInv` (unique keys, if `Keyed`) makes a listing free of
repetitions. Members who join after the list was read change nothing, since rows only come
to the table.

*Lists.* `ListInv` bounds `since`, the length of `GroupUser` when the user's groups were read, by its
present length, and says for every list collected so far that it has everyone in the first
`since` rows of its group (`Complete`). A later statement finds at least as many rows, so that
each list is complete although each may show another state of the table.

*The client.* The invariant sorts the states by the stage of the one request that is answered: in
the socket, in the handler, its answer in the other socket, in the reader thread, posted.
At each stage there is exactly one of these, the main thread is in the matching wait, and for a login
`verdict` is what the answer says. `OnePostPerWait`, `ReaderIsExpected` and the refinement follow;
each step of `Next` is shown to be a step of `Terminal` or to leave its three variables alone.

**Only model-checked.** Everything about liveness (`HandlersReturn`, `LoginsAreAnswered`,
`MessagesLand`, `WaitersAreAnswered`, `WaitsEnd`, `AbandonedSessionsEnd`), since the prover
does not handle fairness and `ENABLED`. Every safety property of the passing runs is a theorem.


## 6. What is not modelled

* hiredis contexts shared by threads without a lock (a data race inside the library), a Redis
  that is down when a server starts, restarts or loses a connection. Redis is always reachable.
* A signal handler that interrupts a thread which holds the mutex or an allocator lock, and
  the destruction of static objects in `exit(0)` under running threads.
* The order in which a `SELECT` without `ORDER BY` returns stored messages is taken to be the order
  of insertion. The order of group members is any.
* The lists of a login answer are sets. Without unique keys a membership or a friendship may be in its
  table twice; the code then lists it twice, the model once.
* The client's test for a text without `msgid` (`client/main.cpp:335-339`): every text a
  server sends has one.
* `json.hpp` (nlohmann/json, vendored). It makes up 22,875 of the repository's 24,709 lines of
  implementation; the project uses one fact of it, that `parse` accepts exactly one complete text.
  The rest of the implementation has 1,834 lines; the part of them that `map` covers says more
  than its share of all lines.
* In `ChatClient`: what a command does at the server, several clients, and the client's writes
  after the server closed (no signal is modelled: an `EPIPE` ends the client, as `End` may).
* The state of sessions in `ChatGroups` and the growth of groups in `ChatService`: a member who
  joins during a group message is a matter of the list (`ChatGroups`), the way of each copy a
  matter of sessions (`ChatService`), and neither reads the other's tables.
* How the client splits a typed command, checks its arguments and prints; names, times,
  passwords, texts. `mysql_init`, `mysql_close`. The value classes `User`, `Group`, `GroupUser`.
* nginx, which is configuration outside the repository, and the programs under `test`.


## 7. Plan

Done: tables, Redis, terminals, service, sessions, routing, accounts and groups, the client with
its threads and streams, both abstract specifications with their refinements, all runs above, and
proofs of every safety property the passing runs check. What is left: `RedisContext`, the commands
and replies on the two hiredis contexts, with a connection to Redis that ends.

How to run: `tlc -config cluster.cfg MCChat` (module and cfg of each run are in
`PROJECT.json`), `tlapm ChatSessionProofs.tla`.
