---------------------------- MODULE ChatSessions ----------------------------
(***************************************************************************)
(* What the session handlers promise: which connection an account is bound *)
(* to, what User.state says of it, and who listens to its Redis channel.   *)
(***************************************************************************)
EXTENDS ChatService

InReset(s) == mainPc[s] \in {"reset", "resetOffline"}

\* The entry is still in the map, but its owner is already marked offline by
\* the handler or the reset that is about to remove it.
Ending(s, u) ==
  \/ \E l \in Loops : ServerOf[l] = s /\ pc[l] = "closeErase" /\ job[l].user = u
  \/ InReset(s) /\ u \notin todo[s] /\ it[s] # u

\* Account u has a session on server s.
Live(s, u) == userConnMap[s][u] # None /\ ~Ending(s, u)

-----------------------------------------------------------------------------
(***************************************************************************)
(* clientCloseException works through the iterator it found until it       *)
(* erases it (chatservice.cpp:188-196), and reset iterates over the whole  *)
(* map: nobody else takes away or replaces an entry they stand on.         *)
(***************************************************************************)
IteratorsValid ==
  /\ \A l \in Loops :
       pc[l] \in {"closeUnsubscribe", "closeOffline", "closeErase"} =>
         userConnMap[ServerOf[l]][job[l].user] = job[l].conn
  /\ \A s \in Servers : \A u \in (todo[s] \cup {it[s]}) \ {None} :
       userConnMap[s][u] # None

(***************************************************************************)
(* A connection that went down is in no map, unless its own close handler  *)
(* is on the way to remove it: nothing is sent to a dead TcpConnection by  *)
(* the map once onConnection has returned.                                 *)
(***************************************************************************)
NoDeadEntry ==
  \A s \in Servers, u \in Users :
    LET c == userConnMap[s][u] IN
    c # None => /\ ConnServer(c) = s
                /\ \/ connected[c]
                   \/ pc[LoopOf[c]] \in ClosePcs /\ job[LoopOf[c]].conn = c

(***************************************************************************)
(* clientCloseException stops at the first entry of the connection (line   *)
(* 197), which is right only if no connection is registered for two        *)
(* accounts, whatever logins and logouts went over it.                     *)
(***************************************************************************)
OneEntryPerConnection ==
  \A s \in Servers, u, v \in Users :
    userConnMap[s][u] = userConnMap[s][v] /\ userConnMap[s][u] # None => u = v

(***************************************************************************)
(* A terminal that has several logins one after the other never receives a *)
(* message for another account than that of the last login the server      *)
(* confirmed to it, and no message before the first confirmation, although *)
(* the entry is in the map long before the confirmation is written (lines  *)
(* 80 and 145) and other threads send through it meanwhile.                *)
(***************************************************************************)
FramesFollowTheirLogin ==
  \A c \in Conns : \A i \in DOMAIN toClient[c] :
    toClient[c][i].kind = "msg" =>
      \E j \in 1 .. i - 1 :
        /\ toClient[c][j].kind = "ok"
        /\ toClient[c][j].user = toClient[c][i].user
        /\ \A k \in j + 1 .. i - 1 : toClient[c][k].kind # "ok"

(***************************************************************************)
(* "该账号已经登录，请勿重复登录！" (chatservice.cpp:72): an account that is *)
(* logged in is refused, so it has at most one session in the cluster.     *)
(***************************************************************************)
AtMostOneSession ==
  \A u \in Users : \A s, t \in Servers : Live(s, u) /\ Live(t, u) => s = t

(***************************************************************************)
(* Once Redis has executed what is under way, at most one server listens   *)
(* to the channel of an account: a message published to it (line 219)      *)
(* reaches one server and not two.                                         *)
(***************************************************************************)
WillListen(s, u) ==
  LET own == {i \in DOMAIN cmds[s] : cmds[s][i].channel = u} IN
  IF own = {} THEN s \in subs[u]
  ELSE \E i \in own : (\A j \in own : j <= i) /\ cmds[s][i].op = "SUBSCRIBE"

OneListener ==
  \A u \in Users : \A s, t \in Servers : WillListen(s, u) /\ WillListen(t, u) => s = t

(***************************************************************************)
(* An account with an entry that no handler is working on has its channel  *)
(* subscribed, or on the way to be: messages published to it by the other  *)
(* servers will come here.                                                 *)
(***************************************************************************)
EntryListens ==
  \A s \in Servers, u \in Users :
    Live(s, u) =>
      \/ WillListen(s, u)
      \/ \E l \in Loops : /\ ServerOf[l] = s /\ job[l].user = u
                          /\ pc[l] \in {"loginSubscribe", "closeOffline"}
      \/ it[s] = u

(***************************************************************************)
(* Nobody is locked out: an account User.state calls online, which no      *)
(* login gets past (line 67), has a session whose end will mark it         *)
(* offline again.                                                          *)
(***************************************************************************)
NoLockout ==
  \A u \in Users : userState[u] = "online" => \E s \in Servers : userConnMap[s][u] # None

-----------------------------------------------------------------------------
(***************************************************************************)
(* Every handler returns, also where several threads want the same mutex   *)
(* and one of them keeps it over calls to MySQL and Redis.                 *)
(***************************************************************************)
HandlersReturn == \A l \in Loops : pc[l] # "idle" ~> pc[l] = "idle"

(***************************************************************************)
(* A terminal that waits for its login gets an answer (client main.cpp:121 *)
(* waits on the semaphore without a timeout).                              *)
(***************************************************************************)
LoginsAreAnswered == \A c \in Conns : clientPc[c] = "waiting" ~> clientPc[c] # "waiting"
==============================================================================
