------------------------------- MODULE MCNetwork -------------------------------
(* Three parts of the p2p layer that share no state, checked in one run: the keys of a
   connection, the connections of a node and the peers it remembers. The first state
   chooses the part that moves, the others stay as they are. What holds of every part
   alone holds here, and nothing more is claimed.                                    *)
EXTENDS PeerLifecycle

VARIABLE part

MCOrder == <<"i1", "i2">>

vars == <<part, channelVars, lifecycleVars, storedVars>>

Init ==
    /\ part \in {"channel", "lifecycle", "stored"}
    /\ InitChannel /\ InitLifecycle /\ InitStored

Next ==
    /\ UNCHANGED part
    /\ \/ part = "channel" /\ NextChannel /\ UNCHANGED <<lifecycleVars, storedVars>>
       \/ part = "lifecycle" /\ NextLifecycle /\ UNCHANGED <<channelVars, storedVars>>
       \/ part = "stored" /\ NextStored /\ UNCHANGED <<channelVars, lifecycleVars>>

Fairness == ChannelFairness /\ LifecycleFairness /\ StoredFairness

Spec == Init /\ [][Next]_vars /\ Fairness

\* A key exchange completes, the tasks of a closed connection stop, and every peer that waits for its
\* turn is tried: the three parts make progress.
NetworkProgress == Established /\ TasksStop /\ EveryoneTried
================================================================================
