------------------------------- MODULE MCChat -------------------------------
(***************************************************************************)
(* Small clusters for TLC.  A cfg picks the sets; the functions over them  *)
(* are defined here.                                                       *)
(***************************************************************************)
EXTENDS ChatPresence, ChatClaims, ChatInvariants

CONSTANTS s1, s2, l1, l2, c1, c2, c3, u1, u2, u3, m1, m2, g1

\* Two I/O threads of one server, or one of each of two servers.
OneServer == [l \in Loops |-> s1]
TwoServers == [l \in Loops |-> IF l = l1 THEN s1 ELSE s2]

\* c1 is served by the first thread, the other connections by the second.
Placement == [c \in Conns |-> IF c = c1 THEN l1 ELSE l2]

\* c2 is served by the second thread, the other connections by the first.
Around == [c \in Conns |-> IF c = c2 THEN l2 ELSE l1]

\* Everybody uses every terminal; everybody uses c1 but only u2 the others; or
\* only u1 uses c1 and only u2 the others.
Shared == [c \in Conns |-> Users]
Guest == [c \in Conns |-> IF c = c1 THEN Users ELSE {u2}]
Private == [c \in Conns |-> IF c = c1 THEN {u1} ELSE {u2}]

\* All messages go to one account.
ToFirst == [m \in Chats |-> u1]
ToSecond == [m \in Chats |-> u2]

\* Login attempts: one or two from every terminal, or two from
\* c1 only or c2 only.
Once == [c \in Conns |-> 1]
Twice == [c \in Conns |-> 2]
TwiceFirst == [c \in Conns |-> IF c = c1 THEN 2 ELSE 1]
TwiceSecond == [c \in Conns |-> IF c = c1 THEN 1 ELSE 2]
==============================================================================
