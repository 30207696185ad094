---------------------------- MODULE ChatConstants ----------------------------
(***************************************************************************)
(* The parameters every component of the chat cluster shares: who takes    *)
(* part, where a connection is served, which messages exist, and which     *)
(* faults and habits the environment is allowed.                           *)
(***************************************************************************)
EXTENDS Naturals

CONSTANTS
  Servers,      \* ChatServer processes behind nginx
  Loops,        \* muduo I/O threads (setThreadNum) of all the servers
  Conns,        \* TCP connections; an identifier is never used twice
  Users,        \* registered accounts, the channels of Redis
  Chats,        \* one-to-one messages
  GroupChats,   \* messages to the group
  ServerOf,     \* the server an I/O thread belongs to
  LoopOf,       \* the I/O thread muduo gives a connection to, for its life
  AddresseeOf,  \* the account a one-to-one message is written to
  HomeOf,       \* the accounts used from the terminal behind a connection
  Members,      \* the rows of GroupUser for the group
  None          \* no connection, no user, no message, no thread

CONSTANTS
  DBFaults,     \* TRUE: a MySQL call may fail (connect() or update() false)
  Patient,      \* TRUE: nobody logs in while a login of the same account
                \*       is still in progress somewhere
  StopKinds,    \* the ways a server may stop: "crash", "sigint"
  MaxStops,     \* bound: how many times servers stop in a behaviour
  MaxLogins,    \* bound: login attempts from each connection
  Passwords     \* what users type: "right", "wrong"

Msgs == Chats \cup GroupChats

\* Threads that may hold a server's _userConnMutex, besides its I/O threads:
\* the detached thread of Redis::connect and the main thread in resetHandler.
OtherThreads == {"observer", "main"}

ASSUME PlacementAssumption ==
  /\ ServerOf \in [Loops -> Servers]
  /\ LoopOf \in [Conns -> Loops]
  /\ AddresseeOf \in [Chats -> Users]
  /\ HomeOf \in [Conns -> SUBSET Users]
  /\ Members \subseteq Users

ASSUME NoneAssumption ==
  /\ None \notin Servers \cup Loops \cup Conns \cup Users \cup Msgs
  /\ None \notin OtherThreads
  /\ Loops \cap OtherThreads = {}
  /\ Chats \cap GroupChats = {}

ASSUME FaultAssumption ==
  /\ DBFaults \in BOOLEAN
  /\ Patient \in BOOLEAN
  /\ StopKinds \subseteq {"crash", "sigint"}
  /\ MaxStops \in Nat
  /\ MaxLogins \in [Conns -> Nat]
  /\ Passwords \subseteq {"right", "wrong"}
==============================================================================
