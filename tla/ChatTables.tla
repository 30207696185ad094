----------------------------- MODULE ChatTables -----------------------------
(***************************************************************************)
(* The two MySQL tables whose contents decide where a message goes:        *)
(* User.state and OfflineMessage, with the operations of UserModel and     *)
(* OfflineMsgModel on them.  Every operation of the models opens its own   *)
(* MySQL connection and runs one statement in autocommit mode, so each is  *)
(* atomic and nothing ties two of them together.  When the connection or   *)
(* the statement fails (DBFaults) a query returns the default value and an *)
(* update changes nothing; no caller sees the difference, because the      *)
(* models' results are ignored or are themselves the default value.        *)
(***************************************************************************)
EXTENDS ChatConstants, Sequences

VARIABLES
  userState,       \* User.state of each account
  offlineMessage   \* rows of OfflineMessage, per userid

tableVars == <<userState, offlineMessage>>

TablesTypeOK ==
  /\ userState \in [Users -> {"online", "offline"}]
  /\ offlineMessage \in [Users -> Seq(Msgs)]

TablesInit ==
  /\ userState = [u \in Users |-> "offline"]
  /\ offlineMessage = [u \in Users |-> <<>>]

(***************************************************************************)
(* UserModel.  The result of a query is the row's state; "none" stands for *)
(* the default User(): id -1, state "offline".                             *)
(***************************************************************************)
UserQuery(id) == {userState[id]} \cup (IF DBFaults THEN {"none"} ELSE {})

UserUpdateState(id, state) ==
  /\ \/ userState' = [userState EXCEPT ![id] = state]
     \/ DBFaults /\ UNCHANGED userState
  /\ UNCHANGED offlineMessage

(***************************************************************************)
(* OfflineMsgModel.                                                        *)
(***************************************************************************)
\* Mutant: the newest row comes first in the table.
OfflineInsertFirst(id, m) ==
  /\ \/ offlineMessage' = [offlineMessage EXCEPT ![id] = <<m>> \o @]
     \/ DBFaults /\ UNCHANGED offlineMessage
  /\ UNCHANGED userState

OfflineInsert(id, m) ==
  /\ \/ offlineMessage' = [offlineMessage EXCEPT ![id] = Append(@, m)]
     \/ DBFaults /\ UNCHANGED offlineMessage
  /\ UNCHANGED userState

\* The SELECT has no ORDER BY: that its rows come in order of insertion is an
\* assumption about MySQL.
OfflineQuery(id) == {offlineMessage[id]} \cup (IF DBFaults THEN {<<>>} ELSE {})

OfflineRemove(id) ==
  /\ \/ offlineMessage' = [offlineMessage EXCEPT ![id] = <<>>]
     \/ DBFaults /\ UNCHANGED offlineMessage
  /\ UNCHANGED userState
==============================================================================
