--------------------------- MODULE ChatInvariants ---------------------------
(***************************************************************************)
(* The inductive strengthenings behind the theorems on the sessions.       *)
(***************************************************************************)
EXTENDS ChatSessions

\* The program counters at which a handler holds _userConnMutex.
LockPcs == {"closeUnsubscribe", "closeOffline", "closeErase",
            "groupNext", "groupPublish", "groupStore"}

(***************************************************************************)
(* Typing of what is in use: TypeOK allows None in the fields of requests  *)
(* and locals, the handlers need more of the fields they work with.        *)
(***************************************************************************)
RequestsOK ==
  \A c \in Conns :
    /\ request[c].kind = "none" => request[c] = NoRequest
    /\ request[c].kind # "none" => request[c].user \in Users
    /\ request[c].kind \in {"oneChat", "groupChat"} => request[c].msg \in Msgs

TerminalsOK == \A c \in Conns : clientPc[c] = "chatting" => clientUser[c] \in Users

JobOK(l, at, j) ==
  /\ at # "idle" => j.conn \in Conns /\ LoopOf[j.conn] = l
  /\ at \in LoginPcs \cup OneChatPcs
             \cup {"closeUnsubscribe", "closeOffline", "closeErase",
                   "groupPublish", "groupStore"} => j.user \in Users
  /\ at \in OneChatPcs \cup GroupChatPcs => j.msg \in Msgs

JobsOK == \A l \in Loops : JobOK(l, pc[l], job[l])

TypeInv == TypeOK /\ RequestsOK /\ TerminalsOK /\ JobsOK

(***************************************************************************)
(* Who holds _userConnMutex of a server is who is in a critical section.   *)
(***************************************************************************)
LockInv ==
  \A s \in Servers :
    /\ \A l \in Loops : mutex[s] = l <=> ServerOf[l] = s /\ pc[l] \in LockPcs
    /\ mutex[s] = "observer" <=> observer[s] # NoLetter
    /\ mutex[s] = "main" <=> InReset(s)

\* The main thread has something in hand only in reset.
ResetOK ==
  \A s \in Servers :
    /\ ~InReset(s) => todo[s] = {} /\ it[s] = None
    /\ mainPc[s] = "reset" => it[s] = None
    /\ mainPc[s] = "resetOffline" => it[s] \in Users /\ it[s] \notin todo[s]

(***************************************************************************)
(* An account is being logged in once: Patient keeps a second login away.  *)
(***************************************************************************)
LoginRequest(c, u) == request[c].kind = "login" /\ request[c].user = u
LoggingIn(l, u) == pc[l] \in LoginPcs /\ job[l].user = u

OneLogin ==
  \A u \in Users :
    /\ \A c, d \in Conns : LoginRequest(c, u) /\ LoginRequest(d, u) => c = d
    /\ \A l, k \in Loops : LoggingIn(l, u) /\ LoggingIn(k, u) => l = k
    /\ \A c \in Conns, l \in Loops : ~(LoginRequest(c, u) /\ LoggingIn(l, u))

(***************************************************************************)
(* How User.state, the entries of the servers and a login in progress go   *)
(* together.                                                               *)
(***************************************************************************)
Entering(l, u) == pc[l] \in {"loginSubscribe", "loginOnline"} /\ job[l].user = u

LiveIsOnline ==
  \A s \in Servers, u \in Users :
    Live(s, u) =>
      \/ userState[u] = "online"
      \/ \E l \in Loops : ServerOf[l] = s /\ Entering(l, u)

NewLoginIsAlone ==
  \A l \in Loops, u \in Users :
    pc[l] = "loginInsert" /\ job[l].user = u =>
      userState[u] = "offline" /\ \A s \in Servers : ~Live(s, u)

EnteringIsAlone ==
  \A l \in Loops, u \in Users :
    Entering(l, u) =>
      userState[u] = "offline" /\ \A s \in Servers : Live(s, u) => s = ServerOf[l]
==============================================================================
