------------------------------ MODULE MCServices ------------------------------
(* What a node does beside its chain: it bootstraps from a peer, hands work to
   miners and notifies the clients of its websocket. The modules share no state: the first state chooses the one that moves,
   and what holds of each alone holds here.                                        *)
EXTENDS Bootstrap, Mining, EventServer

VARIABLE part

MCAccounts == <<"k1", "k2", "k3">>
MCAssets == <<"xel">>
MCRegistered == [x \in {"xel"} |-> 0]
Both(k) == {k} \X {"nonce", "xel"}
MCWrites == [t \in 0..4 |-> CASE t = 0 -> Both("k3") [] t = 1 -> Both("k1") [] t = 2 -> Both("k2")
                              [] t = 3 -> {<<"k1", "nonce">>, <<"k3", "xel">>}
                              [] t = 4 -> {<<"k2", "xel">>}]
MCOwn == [t \in 0..4 |-> {<<"k1", "xel">>, <<"k3", "nonce">>}]

vars == <<part, bootVars, miningVars, eventVars>>

Init ==
    /\ part \in {"bootstrap", "mining", "events"}
    /\ InitBootstrap /\ InitMining /\ InitEvents
    /\ part # "bootstrap" => ours = 0

Next ==
    /\ UNCHANGED part
    /\ \/ part = "bootstrap" /\ NextBootstrap /\ UNCHANGED <<miningVars, eventVars>>
       \/ part = "mining" /\ NextMining /\ UNCHANGED <<bootVars, eventVars>>
       \/ part = "events" /\ NextEvents /\ UNCHANGED <<bootVars, miningVars>>

Fairness == BootstrapFairness /\ MiningFairness /\ EventFairness

Spec == Init /\ [][Next]_vars /\ Fairness

\* An attempt to fast synchronise ends, idle miners are fed with current work, and clients receive the
\* events they are owed until they leave and are forgotten.
ServicesProgress == AttemptEnds /\ IdleIsFed /\ Current /\ EventsArrive /\ GoneForgotten
===============================================================================
