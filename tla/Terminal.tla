------------------------------ MODULE Terminal ------------------------------
(***************************************************************************)
(* What the user of a terminal may rely on: a login leads to the chat if   *)
(* the server accepted this login, and then as the user the server named;  *)
(* otherwise back to the menu; and there is nothing to wait for for ever.  *)
(***************************************************************************)
CONSTANTS Users, None

VARIABLES
  at,        \* where the user is
  who,       \* the account of the chat
  verdict    \* what the server answered to the login in progress

Init == at = "menu" /\ who = None /\ verdict = None

LogIn == at = "menu" /\ at' = "login" /\ UNCHANGED <<who, verdict>>

Answer ==
  /\ at \in {"login", "gone"} /\ verdict = None
  /\ verdict' \in Users \cup {"refused"}
  /\ UNCHANGED <<at, who>>

Enter ==
  /\ at = "login" /\ verdict \in Users
  /\ at' = "chat" /\ who' = verdict /\ verdict' = None

Refused ==
  /\ at = "login" /\ verdict = "refused"
  /\ at' = "menu" /\ verdict' = None /\ UNCHANGED who

Register == at = "menu" /\ at' = "register" /\ UNCHANGED <<who, verdict>>
Registered == at = "register" /\ at' = "menu" /\ UNCHANGED <<who, verdict>>
LogOut == at = "chat" /\ at' = "menu" /\ UNCHANGED <<who, verdict>>
Go == at # "gone" /\ at' = "gone" /\ UNCHANGED <<who, verdict>>

Next ==
  \/ LogIn \/ Answer \/ Enter \/ Refused \/ Register \/ Registered \/ LogOut \/ Go

Spec == Init /\ [][Next]_<<at, who, verdict>>
==============================================================================
