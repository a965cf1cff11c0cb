------------------------------ MODULE TwoNodes -------------------------------
(***************************************************************************)
(* Two nodes of a network.  Node A adds every block when it is mined.      *)
(* Node B receives the blocks from it one by one, a parent always before   *)
(* its child but otherwise in any order, and may restart or rewind its     *)
(* chain in between.  Consensus asks that nodes that know the same blocks  *)
(* agree on everything else, whatever the order in which they came.        *)
(***************************************************************************)
EXTENDS Integers

CONSTANTS
    STABLE_LIMIT, TIPS_LIMIT, Hash, Difficulty, Account, Miners, Tx, TxSource,
    TxNonce, TxReceiver, TxNeeds, Payloads, MaxRewinds

VARIABLES
    db1, height1, topoheight1, stableHeight1, stableTopo1, lru1, orphaned1, shrunk1,
    partial1,    \* node A
    db2, height2, topoheight2, stableHeight2, stableTopo2, lru2, orphaned2, shrunk2,
    partial2,    \* node B
    mined, rewinds,
    scenario     \* the instance that the first state chose

vars1 == <<db1, height1, topoheight1, stableHeight1, stableTopo1, lru1, orphaned1,
           shrunk1, partial1>>
vars2 == <<db2, height2, topoheight2, stableHeight2, stableTopo2, lru2, orphaned2,
           shrunk2, partial2>>
vars == <<vars1, vars2, mined, rewinds, scenario>>

A == INSTANCE Chain WITH
        db <- db1, height <- height1, topoheight <- topoheight1,
        stableHeight <- stableHeight1, stableTopo <- stableTopo1, lru <- lru1,
        orphaned <- orphaned1, shrunk <- shrunk1, partial <- partial1

B == INSTANCE Chain WITH
        db <- db2, height <- height2, topoheight <- topoheight2,
        stableHeight <- stableHeight2, stableTopo <- stableTopo2, lru <- lru2,
        orphaned <- orphaned2, shrunk <- shrunk2, partial <- partial2

-----------------------------------------------------------------------------
\* Two scenarios: the DAG alone, with a rewind of B, and transactions of which
\* some compete.

Scenarios == {[hashes |-> 1..4, payloads |-> {<<>>}, rewinds |-> 1],
              [hashes |-> 1..3, payloads |-> Payloads, rewinds |-> 0]}

Init == A!Init /\ B!Init /\ scenario \in Scenarios

Next ==
    /\ UNCHANGED scenario
    /\ \/ A!NewBlockOf(scenario.hashes, Difficulty, scenario.payloads) /\ UNCHANGED vars2
       \/ B!BlockAgain /\ UNCHANGED vars1
       \/ B!Restart /\ UNCHANGED vars1
       \/ /\ rewinds < scenario.rewinds
          /\ \E n \in 1..topoheight2, stop \in BOOLEAN : B!Rewind(n, stop) /\ UNCHANGED vars1

Spec == Init /\ [][Next]_vars
-----------------------------------------------------------------------------
\* Both nodes have the same blocks, and neither has the rest of a longer order.
SameBlocks == DOMAIN db1.blocks = DOMAIN db2.blocks /\ A!Regular /\ B!Regular

\* The same blocks have the same topoheights and the same cumulative difficulties,
\* although each node computed them above the bases, scores and orders it had
\* cached at that moment.
SameOrder == SameBlocks => A!Order = B!Order /\ db1.cum = db2.cum

\* The same transactions are executed, in the same blocks: what a reorganisation
\* undid and executed again in one node is what the other executed at once.  A
\* rewind of B is excepted, see LedgerFollowsOrder in Chain.
SameLedger == SameBlocks /\ rewinds = 0 => db1.executor = db2.executor

\* Two nodes that hold the same blocks agree on the order and, without rewinds, on what is executed,
\* in whatever order add_new_block received the blocks and whatever was cached in between.
Agreement == SameOrder /\ SameLedger
=============================================================================
