--------------------------- MODULE ChatMembership ---------------------------
(***************************************************************************)
(* What registration, friends and groups promise although each handler     *)
(* makes several statements, nothing ties them together, nobody looks at   *)
(* the result of most of them, and other threads and servers write to the  *)
(* same tables in between.                                                 *)
(***************************************************************************)
EXTENDS ChatGroups

(***************************************************************************)
(* The id that createGroup works on after its insert (groupmodel.cpp:15,   *)
(* chatservice.cpp:261) is that of its own group, also if another server   *)
(* creates a group between the two inserts: whoever is called creator of a *)
(* group is who created it, and there is one such row at most.             *)
(***************************************************************************)
CreatorIsFounder ==
  \A i \in DOMAIN groupUser :
    LET row == groupUser[i] IN
    row.role = "creator" =>
      /\ row.group \in DOMAIN groups
      /\ groups[row.group].founder = row.user
      /\ \A k \in DOMAIN groupUser :
           groupUser[k].group = row.group /\ groupUser[k].role = "creator" => k = i

(***************************************************************************)
(* The ids of registration answers (UserModel.cpp:18, chatservice.cpp:172) *)
(* are the terminal's own accounts: nobody is told the id of an account    *)
(* that somebody else registered at the same time.                         *)
(***************************************************************************)
ToldIsYours ==
  \A t \in Terminals :
    \A id \in told[t] \cup (IF answer[t].kind = "reg" THEN {answer[t].id} \ {None} ELSE {}) :
      id \in DOMAIN accounts /\ accounts[id].by = t

(***************************************************************************)
(* createGroup inserts the group and then its creator (chatservice.cpp:257 *)
(* and 261).  Everybody may find the group in between; it is without its   *)
(* founder only until the handler is through, or for good if a statement   *)
(* failed or the server ended just then, which nobody is told.             *)
(***************************************************************************)
FounderIsMember ==
  /\ \A g \in DOMAIN groups :
       \/ IsMember(groups[g].founder, g)
       \/ g \in broken
       \/ \E l \in Loops : pc[l] = "addCreator" /\ job[l].group = g
  /\ faults = 0 /\ crashes = 0 =>
       \A g \in broken : g \in DOMAIN groups /\ IsMember(groups[g].founder, g)

(***************************************************************************)
(* groupChat reads the members before it takes the mutex                   *)
(* (chatservice.cpp:279, 281) while others join.  Whoever was a member     *)
(* when the message was sent is served, the sender is not, and nobody who  *)
(* is no member is; once each, if (groupid, userid) is a key.              *)
(***************************************************************************)
MembersAreServed ==
  \A m \in Msgs :
    /\ fate[m] = "done" => expected[m] \subseteq Range(reached[m])
    /\ \A l \in Loops : pc[l] = "fanOut" /\ job[l].req.msg = m =>
         /\ job[l].req.user \notin Range(reached[m])
         /\ \A u \in Range(reached[m]) : IsMember(u, job[l].req.id)
    /\ Keyed => \A i, k \in DOMAIN reached[m] : reached[m][i] = reached[m][k] => i = k

(***************************************************************************)
(* The groups of a login answer are collected by one statement for the     *)
(* list and one for each group (groupmodel.cpp:44 and 61), while others    *)
(* join and create: unless the second statement failed, each group comes   *)
(* with everyone who was in it when the list was made, the user himself    *)
(* among them.                                                             *)
(***************************************************************************)
ListsAreWhole ==
  \A t \in Terminals : \A list \in answer[t].lists :
    \/ list.members = {}
    \/ /\ answer[t].id \in list.members
       /\ \A i \in 1 .. answer[t].since :
            groupUser[i].group = list.group /\ groupUser[i].user \in DOMAIN accounts
              => groupUser[i].user \in list.members

(***************************************************************************)
(* A terminal that waits for its registration or its login gets an answer, *)
(* whatever MySQL says, or loses its server: client main.cpp:121 and 151   *)
(* wait without a timeout.                                                 *)
(***************************************************************************)
WaitersAreAnswered ==
  \A t \in Terminals :
    termPc[t] \in {"waitReg", "waitLogin"} ~> termPc[t] \in {"menu", "chatting", "closed"}
==============================================================================
