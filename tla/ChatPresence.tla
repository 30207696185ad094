---------------------------- MODULE ChatPresence ----------------------------
(***************************************************************************)
(* The cluster implements Presence as long as servers neither stop nor     *)
(* lose MySQL, and nobody logs an account in from two terminals at the     *)
(* same moment.  The moment of a login is its update of User.state (line   *)
(* 86), that of the end of a session the update in clientCloseException    *)
(* (line 195): between these the entry of the map says which terminal.     *)
(***************************************************************************)
EXTENDS ChatSessions

SessionOf(u) ==
  IF userState[u] = "online"
  THEN CHOOSE c \in Conns : \E s \in Servers : Live(s, u) /\ userConnMap[s][u] = c
  ELSE None

P == INSTANCE Presence WITH
       session <- [u \in Users |-> SessionOf(u)],
       gone <- {c \in Conns : clientPc[c] = "closed"}

(***************************************************************************)
(* Every step of the cluster is a login, the end of a session, a terminal  *)
(* going away, or nothing, for a user who looks from outside: the cluster  *)
(* as a whole gives an account to one terminal at a time, and a terminal   *)
(* to one account (login, clientCloseException, onConnection).             *)
(***************************************************************************)
ImplementsPresence == P!Spec

(***************************************************************************)
(* The session of a terminal that is gone ends: the end of its stream      *)
(* reaches clientCloseException, however its last login, its logout and    *)
(* the end of the stream follow each other (chatserver.cpp:31-35).         *)
(***************************************************************************)
AbandonedSessionsEnd == P!Fairness
==============================================================================
