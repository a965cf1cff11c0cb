------------------------------ MODULE EventServer -------------------------------
(* EventWebSocketHandler: clients of the daemon subscribe to events over their
   websocket and get every one that is notified from then on. Several blocks and
   transactions are notified at once by tasks of their own, while sessions come
   and go and the operator closes them all.

   One event is enough: subscriptions to different events do not meet. Notified
   values are numbered.                                                          *)
EXTENDS SocketServer

CONSTANT MaxNotified    \* bound: values notified

VARIABLES
    entries,        \* the sessions with an entry in events
    subscribed,     \* those whose entry has the event
    notified,       \* values notified so far
    sending,        \* per value, the cloned subscribers it is still to be sent to
    mail,           \* the channel of each session
    received,       \* the values each client got
    owed            \* the values each subscriber is to get

handlerVars == <<entries, subscribed, notified, sending, mail, received, owed>>
eventVars == <<socketVars, handlerVars>>

InitEvents ==
    /\ InitSockets
    /\ entries = {} /\ subscribed = {} /\ notified = 0
    /\ sending = [n \in 1..MaxNotified |-> {}]
    /\ mail = [s \in Session |-> <<>>] /\ received = [s \in Session |-> {}]
    /\ owed = [s \in Session |-> {}]

(* on_message runs in the task of the session; the reply goes into its channel,
   an error too.                                                                 *)
OnMessage(s) == task[s] = "loop" /\ client[s] = "there" /\ UNCHANGED socketVars

Subscribe(s) ==
    /\ OnMessage(s)
    /\ entries' = entries \cup {s} /\ subscribed' = subscribed \cup {s}
    /\ UNCHANGED <<notified, sending, mail, received, owed>>

(* An entry without events stays.                                                *)
Unsubscribe(s) ==
    /\ OnMessage(s)
    /\ entries' = entries \cup {s} /\ subscribed' = subscribed \ {s}
    /\ UNCHANGED <<notified, sending, mail, received, owed>>

(* notify: the subscriptions are cloned, then each subscriber is sent the value.  *)
Notify ==
    /\ notified < MaxNotified /\ notified' = notified + 1
    /\ sending' = [sending EXCEPT ![notified + 1] = subscribed]
    /\ owed' = [s \in Session |-> IF s \in subscribed THEN owed[s] \cup {notified + 1} ELSE owed[s]]
    /\ UNCHANGED <<socketVars, entries, subscribed, mail, received>>

Sent(n, s) ==
    IF task[s] = "over" THEN mail ELSE [mail EXCEPT ![s] = Append(@, n)]

(* A session that is over refuses the message; the others get theirs.            *)
LeftAfter(n, s) == sending[n] \ {s}

SendNotification(n, s) ==
    /\ s \in sending[n]
    /\ mail' = Sent(n, s)
    /\ sending' = [sending EXCEPT ![n] = LeftAfter(n, s)]
    /\ UNCHANGED <<socketVars, entries, subscribed, notified, received, owed>>

(* The task of the session sends what is in its channel.                         *)
SendText(s) ==
    /\ task[s] = "loop" /\ mail[s] # <<>> /\ client[s] = "there"
    /\ received' = [received EXCEPT ![s] = @ \cup {Head(mail[s])}]
    /\ mail' = [mail EXCEPT ![s] = Tail(@)]
    /\ UNCHANGED <<socketVars, entries, subscribed, notified, sending, owed>>

Delete(s) ==
    /\ task[s] = "delete" /\ DeleteSession(s, "over")
    /\ mail' = [mail EXCEPT ![s] = <<>>]
    /\ UNCHANGED <<entries, subscribed, notified, sending, received, owed>>

(* Fault: the subscriptions of a closed session are kept.                        *)
ForgottenNot(s) == UNCHANGED <<entries, subscribed>>

Forgotten(s) == entries' = entries \ {s} /\ subscribed' = subscribed \ {s}

OnClose(s) ==
    /\ task[s] = "on_close" /\ TaskTo(s, "over")
    /\ Forgotten(s)
    /\ UNCHANGED <<registered, open, client, closeSent, drained, notified, sending, mail, received, owed>>

SocketStep(s) ==
    /\ \/ HandleConnection(s) \/ LoopEnds(s)
       \/ \E how \in {"closed", "silent"} : ClientLeaves(s, how)
    /\ UNCHANGED handlerVars

NextEvents ==
    \/ ClearConnections /\ UNCHANGED handlerVars
    \/ Notify
    \/ \E n \in 1..MaxNotified, s \in Session : SendNotification(n, s)
    \/ \E s \in Session :
         SocketStep(s) \/ Subscribe(s) \/ Unsubscribe(s) \/ SendText(s) \/ Delete(s) \/ OnClose(s)

(* Every task runs: those that notify, and that of each session with each of its
   branches (select! is fair).                                                   *)
EventFairness ==
    /\ \A n \in 1..MaxNotified : \A s \in Session : WF_eventVars(SendNotification(n, s))
    /\ \A s \in Session :
         /\ WF_eventVars(LoopEnds(s) /\ UNCHANGED handlerVars)
         /\ WF_eventVars(SendText(s)) /\ WF_eventVars(Delete(s) \/ OnClose(s))

EventSpec == InitEvents /\ [][NextEvents]_eventVars

-------------------------------------------------------------------------------
(* A session that is over has no subscription left, or every block would be
   notified to it for ever. Sessions taken out by clear_connections are excepted:
   delete_session finds them gone and does not call on_close.                    *)
NoSubscriberOver == \A s \in entries : task[s] = "over" => s \in drained

(* What is notified while a client is subscribed reaches it as long as it stays,
   whoever else leaves meanwhile: in the end nobody who stays is owed a value.   *)
EventsArrive ==
    <>[](\A s \in Session :
            owed[s] \subseteq received[s] \/ client[s] # "there" \/ task[s] # "loop")

(* A client that is gone, with or without a word, is forgotten.                  *)
GoneForgotten ==
    <>[](\A s \in Session : client[s] # "there" => task[s] = "over" /\ s \notin registered)
===============================================================================
