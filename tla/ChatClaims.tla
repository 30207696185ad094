----------------------------- MODULE ChatClaims -----------------------------
(***************************************************************************)
(* What comments of the code say of it, for the runs that compare them     *)
(* with what the handlers do.                                              *)
(***************************************************************************)
EXTENDS ChatSessions, Functions

(***************************************************************************)
(* "如果目标用户不在线，应该把消息存储到数据库中，等目标用户上线后再发送给 *)
(* 他" (chatservice.cpp:223): a row leaves OfflineMessage only when a login *)
(* that has read it is about to send it to the user.                       *)
(***************************************************************************)
StoredIsSentAtLogin ==
  [][\A u \in Users, m \in Msgs :
       (m \in Range(offlineMessage[u]) /\ m \notin Range(offlineMessage'[u]))
         => \E l \in Loops : job[l].user = u /\ m \in Range(job[l].msgs)]_vars

(***************************************************************************)
(* "将消息……发布到目标用户id对应的频道，通知目标用户有新的消息"            *)
(* (chatservice.cpp:219): the addressee, whom the branch took for online,  *)
(* hears of a message that is published to his channel.                    *)
(***************************************************************************)
PublishIsHeard ==
  [][\A l \in Loops :
       pc[l] \in {"oneChatPublish", "groupPublish"} /\ pc'[l] # pc[l] => push' # push]_vars
==============================================================================
