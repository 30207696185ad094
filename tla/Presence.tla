------------------------------ MODULE Presence ------------------------------
(***************************************************************************)
(* What a user of the chat cluster may rely on: an account is logged in    *)
(* from at most one terminal, a terminal carries at most one account, and  *)
(* the session of a terminal that is gone ends.                            *)
(***************************************************************************)
CONSTANTS Users, Conns, None

VARIABLES
  session,   \* the terminal an account is logged in from
  gone       \* the terminals that went away

PresenceTypeOK ==
  /\ session \in [Users -> Conns \cup {None}]
  /\ gone \subseteq Conns

Init ==
  /\ session = [u \in Users |-> None]
  /\ gone = {}

LogIn(u, c) ==
  /\ session[u] = None
  /\ \A v \in Users : session[v] # c
  /\ session' = [session EXCEPT ![u] = c]
  /\ UNCHANGED gone

LogOut(u) ==
  /\ session[u] # None
  /\ session' = [session EXCEPT ![u] = None]
  /\ UNCHANGED gone

Leave(c) ==
  /\ c \notin gone
  /\ gone' = gone \cup {c}
  /\ UNCHANGED session

Next ==
  \/ \E u \in Users : LogOut(u) \/ \E c \in Conns : LogIn(u, c)
  \/ \E c \in Conns : Leave(c)

Abandoned(u) == session[u] \in gone

Spec == Init /\ [][Next]_<<session, gone>>

Fairness == \A u \in Users : WF_<<session, gone>>(Abandoned(u) /\ LogOut(u))
==============================================================================
