------------------------------ MODULE ChainSync ------------------------------
(***************************************************************************)
(* Chain synchronisation: the loop of the P2P server that picks a peer with*)
(* more cumulative difficulty, asks for its chain and handles the answer   *)
(* (chain_sync_loop to handle_chain_response in p2p/mod.rs, the validator  *)
(* of p2p/chain_validator.rs, the answer slot of p2p/peer.rs), on top of   *)
(* the node's own chain, which is an instance of Chain.  Blocks are also   *)
(* propagated to the node, and the operator may rewind it, at any time.    *)
(*                                                                         *)
(* The peers are honest and their chains do not change.  Each request may  *)
(* be answered, answered after the timeout, or lost.                       *)
(***************************************************************************)
EXTENDS Integers, Sequences, FiniteSets, TLC

CONSTANTS
    STABLE_LIMIT, TIPS_LIMIT, Account, Miners, Hash,
    Blocks,             \* the blocks of the network: hash -> header, see Chain
    Peer,
    PrioritySets,       \* the sets of peers an operator may have named as priority nodes
    PeerChain,          \* peer -> its blocks in topological order, without the genesis block
    PeerAlt,            \* peer -> its blocks on alternative tips
    Propagated,         \* the blocks that reach the node by propagation
    CHAIN_SYNC_REQUEST_EXPONENTIAL_INDEX_START,
    ResponseSize,       \* max_chain_response_size
    MaxFailures,        \* bound on lost and late answers
    MaxRewinds          \* bound on the rewinds of a behaviour

None == "none"

VARIABLES
    db, height, topoheight, stableHeight, stableTopo, lru, orphaned, mined, rewinds,
    shrunk, partial,    \* the node's chain, see Chain
    priority,    \* the priority nodes
    pc,          \* where the chain sync task is
    selected,    \* the peer it synchronises with
    previous,    \* the peer of the last round, and whether that failed
    response,    \* the chain response it handles
    popCount,    \* the blocks to rewind
    todo,        \* the blocks of the response that are left
    validated,   \* the headers that the ChainValidator has accepted, in order
    slot,        \* per peer: the sync_chain channel: "empty", "live" or "dead"
    inbox,       \* per peer: chain responses on the way
    failures, propagated, operator

NoTxs == <<>>

Node == INSTANCE Chain WITH
    Difficulty <- {1}, Tx <- {}, TxSource <- NoTxs, TxNonce <- NoTxs, TxReceiver <- NoTxs,
    TxNeeds <- NoTxs, Payloads <- {<<>>}

chain == <<db, height, topoheight, stableHeight, stableTopo, lru, orphaned, mined, rewinds,
           shrunk, partial>>
round == <<selected, previous, response, popCount, todo, validated>>
peers == <<slot, inbox>>
outside == <<failures, propagated, operator, priority>>
syncVars == <<chain, pc, round, peers, outside>>

Nothing == [common |-> 0, commonTopo |-> 0, lowest |-> 0, blocks |-> <<>>, top |-> <<>>]

InitSync ==
    /\ Node!Init
    /\ priority \in PrioritySets
    /\ pc = "select" /\ selected = None /\ previous = [peer |-> None, err |-> FALSE]
    /\ response = Nothing /\ popCount = 0 /\ todo = <<>> /\ validated = <<>>
    /\ slot = [p \in Peer |-> "empty"] /\ inbox = [p \in Peer |-> <<>>]
    /\ failures = 0 /\ propagated = {} /\ operator = FALSE

-----------------------------------------------------------------------------
(* The peers *)

HeaderOf(h) == IF h = 0 THEN Node!GenesisBlock ELSE Blocks[h]

\* The blocks of a peer by topoheight, from 0.
PeerOrder(p)  == <<0>> \o PeerChain[p]
PeerTopo(p)   == Len(PeerChain[p])
PeerHeight(p) == HeaderOf(PeerOrder(p)[PeerTopo(p) + 1]).height
PeerCumulative(p) ==
    LET add(w, h) == w + HeaderOf(h).difficulty IN Node!FoldLeft(add, 0, PeerOrder(p))

\* build_list_of_blocks_id: the topoheights the node names, ever fewer towards genesis.
BlockIds ==
    LET S == CHAIN_SYNC_REQUEST_EXPONENTIAL_INDEX_START
        steps == {i \in 0..topoheight : i < S \/ \E k \in 0..topoheight : i = (S - 1) * 2^k}
    IN {topoheight - i : i \in steps} \cup {0}

\* find_common_point in the peer: the highest block of the list that both have at the
\* same topoheight.
CommonTopo(p) ==
    LET common == {t \in BlockIds : t <= PeerTopo(p) /\ db.hashAt[t] = PeerOrder(p)[t + 1]}
    IN CHOOSE t \in common : \A u \in common : u <= t

\* handle_chain_request: the blocks from the common point on, and the alternative tips
\* if that reaches the top.  In a chain without side blocks nothing is swapped.
ChainResponse(p) ==
    LET t      == CommonTopo(p)
        last   == IF t + ResponseSize - 1 < PeerTopo(p) THEN t + ResponseSize - 1 ELSE PeerTopo(p)
        blocks == SubSeq(PeerOrder(p), t + 1, last + 1)
        near   == PeerTopo(p) - t < ResponseSize
    IN [common |-> PeerOrder(p)[t + 1], commonTopo |-> t,
        lowest |-> Node!Min({HeaderOf(h).height : h \in Node!Range(blocks)}),
        blocks |-> blocks, top |-> IF near THEN PeerAlt[p] ELSE <<>>]

-----------------------------------------------------------------------------
(* Selecting a peer and asking it *)

TopBlock == db.hashAt[topoheight]

\* select_random_best_peer: more cumulative difficulty, and higher or longer.
Better == {p \in Peer : /\ PeerCumulative(p) > db.cum[TopBlock]
                        /\ PeerHeight(p) > height \/ PeerTopo(p) > topoheight}

\* Fault: a peer that failed is left out for good, also a priority node.
CandidatesUnforgiven ==
    {p \in Better : p = previous.peer => ~(Cardinality(Better) > 1 \/ previous.err)}

\* The peer of the last round is left out if there is another one, or if it failed.
Candidates ==
    {p \in Better : p = previous.peer =>
        ~(Cardinality(Better) > 1 \/ (previous.err /\ p \notin priority))}

SelectPeer(p) ==
    /\ pc = "select" /\ p \in Candidates
    /\ selected' = p /\ pc' = "request"
    /\ UNCHANGED <<chain, previous, response, popCount, todo, validated, peers, outside>>

EndRound(err) ==
    /\ pc' = "select" /\ previous' = [peer |-> selected, err |-> err]
    /\ selected' = None /\ response' = Nothing /\ popCount' = 0 /\ todo' = <<>>
    /\ validated' = <<>>

\* request_sync_chain: the slot is replaced and the request is sent with the blocks the
\* node has now; the peer answers it, or it is lost.
Request ==
    /\ pc = "request"
    /\ slot' = [slot EXCEPT ![selected] = "live"]
    /\ \/ inbox' = [inbox EXCEPT ![selected] = Append(@, ChainResponse(selected))]
          /\ UNCHANGED failures
       \/ failures < MaxFailures /\ failures' = failures + 1 /\ UNCHANGED inbox
    /\ pc' = "wait"
    /\ UNCHANGED <<chain, round, propagated, operator, priority>>

\* The read task of the peer gives the response to whoever waits in the slot, also if
\* it answers an earlier request; a sender whose receiver is gone loses it.
ReadResponse(p) ==
    /\ inbox[p] # <<>>
    /\ inbox' = [inbox EXCEPT ![p] = Tail(@)]
    /\ slot' = [slot EXCEPT ![p] = "empty"]
    /\ IF slot[p] = "live"
       THEN response' = Head(inbox[p]) /\ pc' = "handle"
       ELSE UNCHANGED <<response, pc>>
    /\ UNCHANGED <<chain, selected, previous, popCount, todo, validated, outside>>

\* The wait ends: nothing is on the way, or the answer is late.
Timeout ==
    /\ pc = "wait"
    /\ \/ inbox[selected] = <<>> /\ UNCHANGED failures
       \/ inbox[selected] # <<>> /\ failures < MaxFailures /\ failures' = failures + 1
    /\ slot' = [slot EXCEPT ![selected] = "dead"]
    /\ EndRound(TRUE)
    /\ UNCHANGED <<chain, inbox, propagated, operator, priority>>

-----------------------------------------------------------------------------
(* handle_chain_response *)

Distance(a, b) == IF a > b THEN a - b ELSE b - a

\* The blocks to pop: all above the common point, if the answer starts at or below the
\* stable height.
PopCount(r) == IF r.lowest <= stableHeight THEN Distance(topoheight, r.commonTopo) ELSE 0

is_connected_to_a_synced_priority_node ==
    \E p \in priority : PeerTopo(p) >= topoheight \/ topoheight - PeerTopo(p) < STABLE_LIMIT

\* The peer is ahead, and no priority node that is synced says otherwise.
MayRewind(n) ==
    /\ n > 0 /\ PeerTopo(selected) > topoheight /\ PeerHeight(selected) >= height
    /\ selected \in priority \/ ~is_connected_to_a_synced_priority_node

HandleResponse ==
    LET r == response
        valid == r.common \in DOMAIN db.topoOf /\ db.topoOf[r.common] = r.commonTopo
        n == PopCount(r)
    IN /\ pc = "handle"
       /\ \/ ~valid /\ EndRound(TRUE)
          \/ /\ valid /\ MayRewind(n) /\ selected \notin priority /\ n > Len(r.blocks)
             /\ EndRound(TRUE)
          \/ /\ valid
             /\ MayRewind(n) => selected \in priority \/ n <= Len(r.blocks)
             /\ pc' = IF ~MayRewind(n) THEN "add"
                      ELSE IF selected \in priority THEN "trust" ELSE "validate"
             /\ popCount' = n /\ todo' = r.blocks \o r.top
             /\ UNCHANGED <<selected, previous, response, validated>>
       /\ UNCHANGED <<chain, peers, outside>>

\* A priority peer is believed: the chain is rewound and the round is over.
TrustedRewind ==
    /\ pc = "trust"
    /\ IF popCount <= topoheight
       THEN Node!Rewind(popCount, FALSE) /\ EndRound(FALSE)
       ELSE UNCHANGED chain /\ EndRound(TRUE)
    /\ UNCHANGED <<peers, outside>>

\* ChainValidator::insert_block.  The score of the block is asked for before the block
\* is known to the validator, so it is found only if the node has it in its cache.
Insertable(h) ==
    LET known == DOMAIN db.blocks \cup {v.hash : v \in Node!Range(validated)}
        tips  == Node!Range(HeaderOf(h).tips)
    IN tips \subseteq known

\* The storage with the validated blocks on top of the common point, as the validator
\* shows it to the algorithms of the Blockchain.
Provisional ==
    LET n == Len(validated)
        vhash(i) == validated[i].hash
        vs == {vhash(i) : i \in 1..n}
        index(h) == CHOOSE i \in 1..n : vhash(i) = h
        start == response.commonTopo + 1
    IN [db EXCEPT
          !.blocks = [h \in vs |-> HeaderOf(h)] @@
                     [h \in {x \in DOMAIN @ : ~\E v \in vs : HeaderOf(v).height = @[x].height}
                        |-> @[h]],
          !.cum    = [h \in vs |-> validated[index(h)].cum] @@ @,
          !.topoOf = [h \in vs |-> start + index(h) - 1] @@ @,
          !.hashAt = [t \in start..(start + n - 1) |-> vhash(t - start + 1)] @@
                     [t \in {x \in DOMAIN @ : x < start} |-> @[t]]]

\* The node looks whether it has the block, and asks for the header if not.
ValidateNext ==
    /\ pc = "validate" /\ todo # <<>>
    /\ IF Head(todo) \in DOMAIN db.blocks
       THEN todo' = Tail(todo) /\ UNCHANGED pc
       ELSE pc' = "header" /\ UNCHANGED todo
    /\ UNCHANGED <<chain, selected, previous, response, popCount, validated, peers, outside>>

\* The header is there.  A block that was propagated meanwhile ends the round.
ValidateHeader ==
    /\ pc = "header"
    /\ LET h == Head(todo)
           tips == Node!Range(HeaderOf(h).tips)
           base == Node!find_common_base(Provisional, lru, tips)
           fits == h \notin DOMAIN db.blocks /\ Insertable(h)
       IN /\ lru' = IF fits THEN Node!BaseCached(Provisional, lru, tips) ELSE lru
          /\ IF fits /\ <<h, base>> \in DOMAIN lru.score
             THEN /\ pc' = "validate" /\ todo' = Tail(todo)
                  /\ validated' = Append(validated, [hash |-> h, cum |-> lru.score[<<h, base>>]])
                  /\ UNCHANGED <<selected, previous, response, popCount>>
             ELSE EndRound(TRUE)
    /\ UNCHANGED <<db, height, topoheight, stableHeight, stableTopo, orphaned, mined, rewinds,
                   shrunk, partial, peers, outside>>

\* has_higher_cumulative_difficulty, under a read lock that is then released.
CompareChains ==
    /\ pc = "validate" /\ todo = <<>>
    /\ IF validated # <<>> /\ validated[Len(validated)].cum > db.cum[TopBlock]
       THEN pc' = "rewind" /\ UNCHANGED round
       ELSE EndRound(TRUE)
    /\ UNCHANGED <<chain, peers, outside>>

ValidatedRewind ==
    /\ pc = "rewind"
    /\ IF popCount <= topoheight
       THEN /\ Node!Rewind(popCount, FALSE)
            /\ pc' = "add" /\ todo' = [i \in DOMAIN validated |-> validated[i].hash]
            /\ UNCHANGED <<selected, previous, response, popCount, validated>>
       ELSE UNCHANGED chain /\ EndRound(TRUE)
    /\ UNCHANGED <<peers, outside>>

\* The blocks the node has not are asked for and added one by one.
AddNext ==
    /\ pc = "add" /\ todo # <<>>
    /\ IF Head(todo) \in DOMAIN db.blocks
       THEN todo' = Tail(todo) /\ UNCHANGED pc
       ELSE pc' = "fetch" /\ UNCHANGED todo
    /\ UNCHANGED <<chain, selected, previous, response, popCount, validated, peers, outside>>

\* The first error ends the round, also that of a block which came by propagation meanwhile.
AddFetched ==
    /\ pc = "fetch"
    /\ LET h == Head(todo)
       IN IF ~partial /\ Node!Accepts(h, HeaderOf(h))
          THEN Node!AddBlock(h, HeaderOf(h)) /\ pc' = "add" /\ todo' = Tail(todo)
               /\ UNCHANGED <<selected, previous, response, popCount, validated>>
          ELSE UNCHANGED chain /\ EndRound(TRUE)
    /\ UNCHANGED <<peers, outside>>

AddDone ==
    /\ pc = "add" /\ todo = <<>>
    /\ EndRound(FALSE)
    /\ UNCHANGED <<chain, peers, outside>>

\* A request for a header, a block or a transaction times out.
ObjectTimeout ==
    /\ pc \in {"header", "fetch"} /\ failures < MaxFailures
    /\ failures' = failures + 1
    /\ EndRound(TRUE)
    /\ UNCHANGED <<chain, peers, propagated, operator, priority>>

-----------------------------------------------------------------------------
(* What happens meanwhile *)

Propagate(h) ==
    /\ h \in Propagated \ propagated
    /\ propagated' = propagated \cup {h}
    /\ Node!AddBlock(h, HeaderOf(h))
    /\ UNCHANGED <<pc, round, peers, failures, operator, priority>>

\* The operator pops blocks once.
OperatorRewind(n) ==
    /\ ~operator /\ operator' = TRUE
    /\ Node!Rewind(n, FALSE)
    /\ UNCHANGED <<pc, round, peers, failures, propagated, priority>>

SyncTask ==
    \/ \E p \in Peer : SelectPeer(p)
    \/ Request \/ HandleResponse \/ TrustedRewind \/ ValidateNext \/ ValidateHeader
    \/ CompareChains \/ ValidatedRewind \/ AddNext \/ AddFetched \/ AddDone

NextSync ==
    \/ SyncTask \/ Timeout \/ ObjectTimeout
    \/ \E p \in Peer : ReadResponse(p)
    \/ \E h \in Hash : Propagate(h)
    \/ \E n \in 1..topoheight : OperatorRewind(n)

\* Whether it is this node that moves, see the end of the module.
VARIABLE part

\* When the task of the loop can go on: not while it sleeps without a peer or waits for
\* an answer, and not where Chain does not follow a rewind.
Runnable ==
    /\ part = "sync"
    /\ pc = "select" => Candidates # {}
    /\ pc # "wait"
    /\ pc \in {"trust", "rewind"} /\ popCount <= topoheight =>
          ~partial /\ ~shrunk /\ rewinds < MaxRewinds

\* The runtime schedules the task and the read tasks, and the timer ends every wait.
\* The first conjunct is weak fairness of SyncTask, written out with what enables it.
Fairness ==
    /\ []<>(~Runnable) \/ []<><<SyncTask>>_syncVars
    /\ WF_syncVars(Timeout)
    /\ \A p \in Peer : WF_syncVars(ReadResponse(p))

-----------------------------------------------------------------------------
(* Properties.                                                             *)

\* The caches of the Blockchain answer what would be computed anew, although the
\* ChainValidator fills them from its provisional order and rounds are cut off anywhere.
CachesAgree == Node!CachesAgree

\* The heaviest block of a peer, or one beside it.
OnChainOf(p) ==
    db.hashAt[topoheight] \in {PeerOrder(p)[PeerTopo(p) + 1]} \cup Node!Range(PeerAlt[p])

\* A node with a priority peer ends on the heaviest chain, whatever is lost or late,
\* propagated meanwhile, or rewound by the operator while an answer is handled:
\* handle_chain_response rewinds before it has the new blocks, and counts the blocks to
\* pop before it takes the lock to pop them.
Converges == \A p \in Peer : p \in priority => <>[]OnChainOf(p)

\* Only a priority node makes the node drop blocks below its stable height, as the note
\* on handle_chain_response says.  The code lets any peer do so whose headers add up to
\* more difficulty, as long as no priority node is connected and synced.
OnlyPriorityRewinds ==
    [][rewinds' # rewinds /\ operator' = operator /\ topoheight' < stableTopo
          => selected \in priority]_syncVars
-------------------------------------------------------------------------------
(* Two questions about nodes that exchange blocks, in one run: how one catches up  *)
(* with its peers, and whether two that have the same blocks agree (TwoNodes, with *)
(* states of its own). The first state chooses the part that moves.                *)
CONSTANT Parts

VARIABLES
    db1, height1, topoheight1, stableHeight1, stableTopo1, lru1, orphaned1, shrunk1, partial1,
    db2, height2, topoheight2, stableHeight2, stableTopo2, lru2, orphaned2, shrunk2, partial2,
    minedByBoth, rewindsOfB, scenario

\* Account a sends s0 or, in its place, r0, and s1 after s0.
TxsOfPair == {"s0", "r0", "s1"}
Source == [t \in TxsOfPair |-> "a"]
Nonce  == [s0 |-> 0, r0 |-> 0, s1 |-> 1]
Needs  == [s0 |-> {}, r0 |-> {}, s1 |-> {"s0"}]
DoubleSpend == {<<>>, <<"s0">>, <<"r0">>, <<"s1">>}

Pair == INSTANCE TwoNodes WITH
    Hash <- 1..4, Difficulty <- {1, 3}, MaxRewinds <- 1,
    Tx <- TxsOfPair, TxSource <- Source, TxReceiver <- Source, TxNonce <- Nonce,
    TxNeeds <- Needs, Payloads <- DoubleSpend, mined <- minedByBoth, rewinds <- rewindsOfB

pairVars ==
    <<db1, height1, topoheight1, stableHeight1, stableTopo1, lru1, orphaned1, shrunk1, partial1,
      db2, height2, topoheight2, stableHeight2, stableTopo2, lru2, orphaned2, shrunk2, partial2,
      minedByBoth, rewindsOfB, scenario>>

vars == <<part, syncVars, pairVars>>

\* A part that does not move has one first state.
Init ==
    /\ part \in Parts /\ InitSync /\ Pair!Init
    /\ part # "sync" => priority = {}
    /\ part # "pair" => scenario = CHOOSE s \in Pair!Scenarios : TRUE

Next ==
    /\ UNCHANGED part
    /\ \/ part = "sync" /\ NextSync /\ UNCHANGED pairVars
       \/ part = "pair" /\ Pair!Next /\ UNCHANGED syncVars

Spec == Init /\ [][Next]_vars /\ Fairness

\* Two nodes that hold the same blocks agree on the order and, without rewinds, on what is executed,
\* in whatever order add_new_block received the blocks and whatever was cached in between.
Agreement == Pair!Agreement
-------------------------------------------------------------------------------
\* Small instances, for the runs: the node mines 1 and 2.  P has the heaviest
\* chain, 3, 4 and 5, and 6 beside 5; Q is behind on the same branch.

On(parent, h) == [tips |-> <<parent>>, height |-> h, difficulty |-> 1, txs |-> <<>>, miner |-> "a"]

Headers == <<On(0, 1), On(1, 2), On(0, 1), On(3, 2), On(4, 3), On(4, 3)>>

Chains == [P |-> <<3, 4, 5>>, Q |-> <<3, 4>>]
Alts   == [P |-> <<6>>, Q |-> <<>>]

\* For sync_rewind: the node mines 1, 2 and 3, and P has four blocks from the genesis on.
Branches  == <<On(0, 1), On(1, 2), On(2, 3), On(0, 1), On(4, 2), On(5, 3), On(6, 4)>>
FourAhead == [P |-> <<4, 5, 6, 7>>]
NoAlts    == [P |-> <<>>]
Nobody    == {{}}

Trusted == {{"P"}, {}}
=============================================================================
