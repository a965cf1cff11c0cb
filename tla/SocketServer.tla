------------------------------ MODULE SocketServer ------------------------------
(* WebSocketServer: the sessions of a websocket server, each handled by a task of
   its own that sends what others put into its channel, hands messages to the
   handler and looks after the heartbeat. What the handler does with messages and
   closed sessions is in the modules that extend this one.                       *)
EXTENDS Integers, Sequences, FiniteSets

CONSTANT Session        \* the connections made, in whatever order

VARIABLES
    registered,     \* the sessions of the server
    task,           \* what the task of each session does
    open,           \* sessions whose connection the server has not closed
    client,         \* whether the other side is there
    closeSent,      \* sessions with a Close message in their channel
    drained         \* sessions clear_connections took out

socketVars == <<registered, task, open, client, closeSent, drained>>

InitSockets ==
    /\ registered = {} /\ task = [s \in Session |-> "none"] /\ open = {}
    /\ client = [s \in Session |-> "there"] /\ closeSent = {} /\ drained = {}

TaskTo(s, state) == task' = [task EXCEPT ![s] = state]

HandleConnection(s) ==
    /\ task[s] = "none" /\ TaskTo(s, "loop")
    /\ registered' = registered \cup {s} /\ open' = open \cup {s}
    /\ UNCHANGED <<client, closeSent, drained>>

(* The other side closes its connection, or is gone without a word.              *)
ClientLeaves(s, how) ==
    /\ task[s] # "none" /\ client[s] = "there"
    /\ client' = [client EXCEPT ![s] = how]
    /\ UNCHANGED <<registered, task, open, closeSent, drained>>

(* No pong for KEEP_ALIVE_TIME_OUT, or the session was closed.                   *)
HeartbeatFails(s) == client[s] = "silent" \/ s \notin open

(* The loop of the task ends.                                                    *)
LoopEnds(s) ==
    /\ task[s] = "loop"
    /\ HeartbeatFails(s) \/ client[s] = "closed" \/ s \in closeSent
    /\ TaskTo(s, "delete")
    /\ UNCHANGED <<registered, open, client, closeSent, drained>>

(* delete_session: on_close is called by whoever takes the session out. The task
   goes on there and then to the state given.                                    *)
DeleteSession(s, then) ==
    /\ open' = open \ {s} /\ registered' = registered \ {s}
    /\ TaskTo(s, IF s \in registered THEN "on_close" ELSE then)
    /\ UNCHANGED <<client, closeSent, drained>>

(* clear_connections: all sessions are taken out, then each is told to close.    *)
ClearConnections ==
    /\ registered # {}
    /\ closeSent' = closeSent \cup registered /\ drained' = drained \cup registered
    /\ registered' = {}
    /\ UNCHANGED <<task, open, client>>
===============================================================================
