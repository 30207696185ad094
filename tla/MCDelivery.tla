----------------------------- MODULE MCDelivery -----------------------------
(***************************************************************************)
(* The small clusters of MCChat, with the history of the messages.         *)
(***************************************************************************)
EXTENDS MCChat, ChatDelivery
==============================================================================
