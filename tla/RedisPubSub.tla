---------------------------- MODULE RedisPubSub ----------------------------
(***************************************************************************)
(* Class Redis and the Redis server it talks to.  A server process has two *)
(* hiredis contexts.  On the subscribe context it only writes SUBSCRIBE    *)
(* and UNSUBSCRIBE (redisAppendCommand, redisBufferWrite): nothing waits   *)
(* for the reply, so a command is on its way (cmds) until Redis executes   *)
(* it.  PUBLISH goes out on the other context and redisCommand waits for   *)
(* its reply, so it is one step: Redis appends the message to what it has  *)
(* pushed (push) to every subscriber of that moment, and to nobody when    *)
(* there is none.  The observer thread reads push in order.                *)
(***************************************************************************)
EXTENDS ChatConstants, Sequences

VARIABLES
  cmds,   \* per server: commands written to Redis and not yet executed
  subs,   \* per channel: the servers Redis has subscribed
  push    \* per server: messages pushed to it and not yet read

redisVars == <<cmds, subs, push>>

Commands == [op : {"SUBSCRIBE", "UNSUBSCRIBE"}, channel : Users]
Letters == [channel : Users, msg : Msgs]

RedisTypeOK ==
  /\ cmds \in [Servers -> Seq(Commands)]
  /\ subs \in [Users -> SUBSET Servers]
  /\ push \in [Servers -> Seq(Letters)]

RedisInit ==
  /\ cmds = [s \in Servers |-> <<>>]
  /\ subs = [u \in Users |-> {}]
  /\ push = [s \in Servers |-> <<>>]

WriteCommand(s, op, u) ==
  /\ cmds' = [cmds EXCEPT ![s] = Append(@, [op |-> op, channel |-> u])]
  /\ UNCHANGED <<subs, push>>

Subscribe(s, u) == WriteCommand(s, "SUBSCRIBE", u)
Unsubscribe(s, u) == WriteCommand(s, "UNSUBSCRIBE", u)

Publish(u, m) ==
  /\ push' = [s \in Servers |->
                IF s \in subs[u]
                THEN Append(push[s], [channel |-> u, msg |-> m])
                ELSE push[s]]
  /\ UNCHANGED <<cmds, subs>>

\* Redis executes the next command of server s.
RedisExecute(s) ==
  /\ cmds[s] # <<>>
  /\ LET cmd == Head(cmds[s]) IN
       subs' = [subs EXCEPT ![cmd.channel] =
                  IF cmd.op = "SUBSCRIBE" THEN @ \cup {s} ELSE @ \ {s}]
  /\ cmds' = [cmds EXCEPT ![s] = Tail(@)]
  /\ UNCHANGED push

\* redisGetReply returns the next pushed message to s.
ReadReply(s) ==
  /\ push' = [push EXCEPT ![s] = Tail(@)]
  /\ UNCHANGED <<cmds, subs>>

\* The connections of s to Redis are gone.
RedisDisconnect(s) ==
  /\ cmds' = [cmds EXCEPT ![s] = <<>>]
  /\ subs' = [u \in Users |-> subs[u] \ {s}]
  /\ push' = [push EXCEPT ![s] = <<>>]
==============================================================================
