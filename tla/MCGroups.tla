------------------------------ MODULE MCGroups ------------------------------
(***************************************************************************)
(* Two servers with one I/O thread and one terminal each; one user has an  *)
(* account, the other has to register.                                     *)
(***************************************************************************)
EXTENDS ChatMembership

CONSTANTS s1, s2, l1, l2, t1, t2, n1, n2, n3, g1

Placement == [l \in Loops |-> IF l = l1 THEN s1 ELSE s2]
Spread == [t \in Terminals |-> IF t = t1 THEN l1 ELSE l2]
OneAccount == <<n1>>
Owners == [t \in Terminals |-> IF t = t1 THEN {1} ELSE {}]
Chosen == [t \in Terminals |-> IF t = t1 THEN {n2} ELSE {n2, n3}]
Requested == [t \in Terminals |-> IF t = t1 THEN 3 ELSE 3]
==============================================================================
