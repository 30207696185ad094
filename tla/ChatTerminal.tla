---------------------------- MODULE ChatTerminal ----------------------------
(***************************************************************************)
(* What the two threads of the client and the unmarked texts of the        *)
(* connection promise together.                                            *)
(***************************************************************************)
EXTENDS ChatClient

(***************************************************************************)
(* rwsem is posted once for each wait and never otherwise: no post is left *)
(* over that would let the next login pass without its answer (client      *)
(* main.cpp:121, 151, 351, 355), and none comes when the semaphore is      *)
(* destroyed (157).                                                        *)
(***************************************************************************)
OnePostPerWait ==
  Alive => (IF readerPc = "post" THEN rwsem + 1 ELSE rwsem) <= (IF mainPc \in Waits THEN 1 ELSE 0)

(***************************************************************************)
(* The reader thread writes g_currentUser and the lists (172-228) without  *)
(* a lock; the main thread reads them in its commands.  The reader is      *)
(* there only while the main thread waits for a login, and at the answer   *)
(* to a registration only while it waits for that, although REG_MSG and    *)
(* LOGIN_MSG_ACK are the same number.                                      *)
(***************************************************************************)
ReaderIsExpected ==
  Alive => /\ readerPc = "loginAck" => mainPc = "waitLogin"
           /\ readerPc = "regAck" => mainPc = "waitReg"

(***************************************************************************)
(* As long as a process runs, it has handled every text that was sent to   *)
(* it, in order, up to those still on the way: what comes together, in     *)
(* parts or too long for the buffer ends the process (main.cpp:333,        *)
(* chatserver.cpp:41) and is never skipped silently.                       *)
(***************************************************************************)
NothingSkipped ==
  /\ Alive => handled \o toClient = written
  /\ serverPc # "down" => served \o toServer = requests

\* Where the user is, and as whom.
At ==
  CASE mainPc \in {"sendLogin", "waitLogin", "decide"} -> "login"
    [] mainPc = "waitReg" -> "register"
    [] mainPc \in {"leaving", "ended"} -> "gone"
    [] OTHER -> mainPc
Who == IF mainPc = "chat" THEN currentUser ELSE entered

T == INSTANCE Terminal WITH at <- At, who <- Who

(***************************************************************************)
(* The client implements Terminal: the main thread enters the chat after   *)
(* sem_wait if and only if the server accepted the login it waited for,    *)
(* and as the user of that answer.                                         *)
(***************************************************************************)
ImplementsTerminal == T!Spec

(***************************************************************************)
(* sem_wait has no timeout, and yet no wait is for ever: the answer comes, *)
(* or a read ends one of the two processes.                                *)
(***************************************************************************)
WaitsEnd == (mainPc \in Waits) ~> (mainPc \notin Waits)
==============================================================================
