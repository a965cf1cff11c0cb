------------------------------- MODULE MCChain -------------------------------
(* Three scenarios of Chain, of which the first state chooses one: the DAG alone,
   five blocks of two difficulties; four blocks with payments, of which some are
   taken back by a rewind; four blocks with competing transactions.            *)
EXTENDS Chain

VARIABLE scenario

\* Account a sends s0 or, in its place, r0.  s0 pays b, which can then send p0;
\* s1 follows s0.
Source   == [s0 |-> "a", r0 |-> "a", s1 |-> "a", p0 |-> "b"]
Receiver == [s0 |-> "b", r0 |-> "a", s1 |-> "a", p0 |-> "a"]
Nonce    == [s0 |-> 0, r0 |-> 0, s1 |-> 1, p0 |-> 0]
Needs    == [s0 |-> {}, r0 |-> {}, s1 |-> {"s0"}, p0 |-> {"s0"}]

NoTxs       == {<<>>}
\* Competing transactions, a chain of transactions, and blocks without any.
DoubleSpend == {<<>>, <<"s0">>, <<"r0">>, <<"s1">>, <<"s0", "s1">>}
\* A payment that opens an account, a transaction of that account, and neither.
Payments    == {<<>>, <<"s0">>, <<"p0">>}
MCPayloads  == DoubleSpend \cup Payments

Scenarios == {
    [hashes |-> 1..5, difficulties |-> {1, 3}, payloads |-> NoTxs,       rewinds |-> 0],
    [hashes |-> 1..4, difficulties |-> {1},    payloads |-> Payments,    rewinds |-> 1],
    [hashes |-> 1..4, difficulties |-> {1},    payloads |-> DoubleSpend, rewinds |-> 0]}

MCInit == Init /\ scenario \in Scenarios

MCNext ==
    /\ UNCHANGED scenario
    /\ \/ NewBlockOf(scenario.hashes, scenario.difficulties, scenario.payloads)
       \/ BlockAgain
       \/ /\ rewinds < scenario.rewinds
          /\ \E n \in 1..topoheight, stop \in BOOLEAN : Rewind(n, stop)
       \/ Restart

MCSpec == MCInit /\ [][MCNext]_<<vars, scenario>>
=============================================================================
