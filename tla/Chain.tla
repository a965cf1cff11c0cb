-------------------------------- MODULE Chain --------------------------------
(***************************************************************************)
(* One node's chain: Blockchain (xelis_daemon/src/core/blockchain.rs) over *)
(* its storage (core/storage/sled.rs).  The storage lock makes every       *)
(* handler atomic; what varies is which blocks arrive in which order, from *)
(* which miners, and when the operator rewinds the chain or restarts.      *)
(*                                                                         *)
(* AddBlock is add_new_block_for_storage from its checks to the update of  *)
(* the stable height: it saves the block, orders the DAG again, undoes and *)
(* executes the transactions of the blocks that move, and drops stale      *)
(* tips.  An error half way leaves what is already written.                *)
(*                                                                         *)
(* A transaction is its source, its nonce and the transactions its proofs  *)
(* are built on (TxNeeds).  The difficulty of a block is any value, the    *)
(* same for all blocks with the same tips.  Nonce versions are kept per    *)
(* topoheight; balances are what the executed transactions make of them.   *)
(***************************************************************************)
EXTENDS Integers, FiniteSets, SequencesExt

CONSTANTS
    STABLE_LIMIT,   \* heights after which a block is stable
    TIPS_LIMIT,     \* tips a block may have
    Hash,           \* hashes of the blocks that may be mined, numbers above 0
    Difficulty,     \* difficulties of blocks above height 1
    Account,        \* public keys
    Miners,         \* the accounts that mine
    Tx, TxSource, TxNonce,
    TxReceiver,     \* [Tx -> Account]
    TxNeeds,        \* [Tx -> SUBSET Tx], the transactions its proofs rely on
    Payloads,       \* the transaction lists blocks may have
    MaxRewinds      \* bound on the rewinds of a behaviour

Genesis == 0
MinimumDifficulty == 1    \* GENESIS_BLOCK_DIFFICULTY and get_minimum_difficulty

ASSUME ChainAssumption ==
    /\ Hash \subseteq Nat \ {Genesis}
    /\ Miners \subseteq Account
    /\ TxSource \in [Tx -> Account] /\ TxNonce \in [Tx -> Nat]
    /\ TxReceiver \in [Tx -> Account] /\ TxNeeds \in [Tx -> SUBSET Tx]
    /\ \A p \in Payloads : Range(p) \subseteq Tx

ASSUME LimitsAssumption == STABLE_LIMIT \in Nat \ {0} /\ TIPS_LIMIT \in Nat \ {0}

-----------------------------------------------------------------------------
\* The DAG algorithms of Blockchain and core/blockdag.rs: which blocks are sync
\* blocks, the common base of a set of tips, the work behind a tip, the best tip,
\* and the full order of the blocks above the base.
\*
\* d is the storage: d.blocks maps a hash to its header and difficulty, d.cum to
\* its cumulative difficulty, d.topoOf (tree topo_by_hash) to its topoheight, and
\* d.hashAt (tree hash_at_topo) maps a topoheight to a hash.  c holds the three
\* LRU caches of Blockchain.  Hashes are numbers: ties between equal difficulties
\* are broken by comparing hashes.

\* u64::max_value(), above every height of the instances
MaxU64 == 1000000

\* The tips of a block, its parents in the DAG.
Parents(d, h) == Range(d.blocks[h].tips)

HeightOf(d, h) == d.blocks[h].height

\* The two trees agree that h has a topoheight.
is_block_topological_ordered(d, h) ==
    /\ h \in DOMAIN d.topoOf
    /\ d.topoOf[h] \in DOMAIN d.hashAt
    /\ d.hashAt[d.topoOf[h]] = h

get_blocks_at_height(d, n) == {h \in DOMAIN d.blocks : HeightOf(d, h) = n}

set_topo_height_for_block(d, h, topo) ==
    [d EXCEPT !.topoOf = (h :> topo) @@ @, !.hashAt = (topo :> h) @@ @]

-----------------------------------------------------------------------------
(* Sync blocks and bases.                                                  *)

\* Heights whose blocks a sync block candidate at height b is compared with.
PreHeights(b) ==
    LET stable == IF b >= STABLE_LIMIT THEN b - STABLE_LIMIT ELSE STABLE_LIMIT - b
    IN {i \in 1..(b - 1) : i >= stable}

\* Stable, the only ordered block at its height, and heavier than every ordered
\* block of the heights just below it.
is_sync_block_at_height(d, h, height) ==
    LET b == HeightOf(d, h)
        OrderedAt(n) == {x \in get_blocks_at_height(d, n) :
                            is_block_topological_ordered(d, x)}
    IN \/ b = 0
       \/ /\ b + STABLE_LIMIT <= height
          /\ is_block_topological_ordered(d, h)
          /\ Cardinality(OrderedAt(b)) <= 1
          /\ \A i \in PreHeights(b) : \A x \in OrderedAt(i) : d.cum[x] < d.cum[h]

\* The bases find_tip_base collects: per block on its stack the cached base, or
\* the first tip that is a sync block, and those of the tips in front of it.
RECURSIVE TipBases(_, _, _, _)
TipBases(d, c, h, height) ==
    LET tips  == d.blocks[h].tips
        sync  == {i \in DOMAIN tips : is_sync_block_at_height(d, tips[i], height)}
        first == IF sync = {} THEN Len(tips) + 1 ELSE Min(sync)
    IN IF <<h, height>> \in DOMAIN c.base THEN {c.base[<<h, height>>]}
       ELSE IF tips = <<>> THEN {h}
       ELSE {tips[i] : i \in {first} \cap DOMAIN tips}
            \cup UNION {TipBases(d, c, tips[i], height) : i \in 1..(first - 1)}

Lowest(d, S) == CHOOSE x \in S : \A y \in S : HeightOf(d, x) <= HeightOf(d, y)

find_tip_base(d, c, h, height) == Lowest(d, TipBases(d, c, h, height))

BestHeight(d, tips) == Max({HeightOf(d, x) : x \in tips})

\* The base below all the tips.
find_common_base(d, c, tips) ==
    Lowest(d, {find_tip_base(d, c, x, BestHeight(d, tips)) : x \in tips})

\* The caches after find_common_base.
BaseCached(d, c, tips) ==
    LET best == BestHeight(d, tips)
    IN [c EXCEPT !.base = [k \in tips \X {best} |-> find_tip_base(d, c, k[1], best)] @@ @]

-----------------------------------------------------------------------------
(* Work, best tip and order.                                               *)

\* Fault: only blocks without a topoheight are ordered.
MovableUnordered(d, h, baseTopo) == ~ is_block_topological_ordered(d, h)

\* The blocks that are ordered again from a base: the ones that are not ordered
\* and the ones ordered from its topoheight on.
Movable(d, h, baseTopo) ==
    is_block_topological_ordered(d, h) => d.topoOf[h] >= baseTopo

RECURSIVE find_tip_work_score_internal(_, _, _)
find_tip_work_score_internal(d, set, baseTopo) ==
    LET new == {p \in UNION {Parents(d, x) : x \in set} \ set : Movable(d, p, baseTopo)}
    IN IF new = {} THEN set
       ELSE find_tip_work_score_internal(d, set \cup new, baseTopo)

\* The work of h: its movable past and, for the base, all the work below it.
find_tip_work_score(d, c, h, base) ==
    LET past == find_tip_work_score_internal(d, {h}, d.topoOf[base]) \cup {base}
        Work(x) == IF x = base /\ x # h THEN d.cum[x] ELSE d.blocks[x].difficulty
    IN IF <<h, base>> \in DOMAIN c.score THEN c.score[<<h, base>>]
       ELSE MapThenSumSet(Work, past)

WorkCached(d, c, tips, base) ==
    [c EXCEPT !.score = [k \in tips \X {base} |-> find_tip_work_score(d, c, k[1], base)] @@ @]

\* Order of sort_descending_by_cumulative_difficulty.
Heavier(score, a, b) == score[a] > score[b] \/ (score[a] = score[b] /\ a > b)

sort_tips(d, tips) == SetToSortSeq(tips, LAMBDA a, b : Heavier(d.cum, a, b))

find_best_tip(d, c, tips, base) ==
    LET score == [x \in tips |-> find_tip_work_score(d, c, x, base)]
    IN CHOOSE x \in tips : \A y \in tips \ {x} : Heavier(score, x, y)

\* Depth-first past of h behind what is already ordered, heaviest tip first: the
\* stack of the code visits a block again after its tips.
RECURSIVE VisitPast(_, _, _, _, _)
VisitPast(d, c, base, h, order) ==
    LET movable == {p \in Parents(d, h) : Movable(d, p, d.topoOf[base])}
        fresh(s) == SelectSeq(s, LAMBDA x : ~ Contains(order, x))
        visit(o, p) == VisitPast(d, c, base, p, o)
    IN IF Contains(order, h) THEN order
       ELSE IF <<h, base>> \in DOMAIN c.order THEN order \o fresh(c.order[<<h, base>>])
       ELSE IF h = base \/ Parents(d, h) = {} THEN Append(order, h)
       ELSE Append(FoldLeft(visit, order, sort_tips(d, movable)), h)

generate_full_order(d, c, h, base) == VisitPast(d, c, base, h, <<>>)

\* Fault: the order is cached under the base alone.
OrderCachedByBase(d, c, h, base) ==
    [c EXCEPT !.order = (<<base, base>> :> generate_full_order(d, c, h, base)) @@ @]

OrderCached(d, c, h, base) ==
    [c EXCEPT !.order = (<<h, base>> :> generate_full_order(d, c, h, base)) @@ @]

-----------------------------------------------------------------------------
(* Checks of the tips of a new block.                                      *)

calculate_height_at_tips(d, tips) ==
    IF tips = {} THEN 0 ELSE BestHeight(d, tips) + 1

\* A depth-first walk cut at 2 * STABLE_LIMIT levels.  It meets a block that is
\* not in storage only behind a rewind, and then the code returns an error.
RECURSIVE Reach(_, _, _)
Reach(d, stack, set) ==
    LET h     == Last(stack)[1]
        level == Last(stack)[2]
        next  == SelectSeq(d.blocks[h].tips, LAMBDA x : x \notin set \cup {h})
        more  == IF level >= 2 * STABLE_LIMIT \/ h \notin DOMAIN d.blocks THEN <<>>
                 ELSE [i \in DOMAIN next |-> <<next[i], level + 1>>]
    IN IF stack = <<>> THEN set ELSE Reach(d, Front(stack) \o more, set \cup {h})

build_reachability(d, h) == Reach(d, <<<<h, 0>>>>, {})

verify_non_reachability(d, tips) ==
    /\ \A a \in tips : build_reachability(d, a) \subseteq DOMAIN d.blocks
    /\ \A a, b \in tips : a # b => a \notin build_reachability(d, b)

\* The unordered blocks that are met on the way from h to the main chain.
RECURSIVE OffMainchain(_, _)
OffMainchain(d, set) ==
    LET new == {p \in UNION {Parents(d, x) : x \in set} \ set :
                    ~ is_block_topological_ordered(d, p)}
    IN IF new = {} THEN set ELSE OffMainchain(d, set \cup new)

find_lowest_height_from_mainchain(d, h) ==
    LET met == {p \in UNION {Parents(d, x) : x \in OffMainchain(d, {h})} :
                    is_block_topological_ordered(d, p)}
    IN Min({HeightOf(d, p) : p \in met} \cup {MaxU64})

calculate_distance_from_mainchain(d, h) ==
    IF is_block_topological_ordered(d, h) THEN HeightOf(d, h)
    ELSE find_lowest_height_from_mainchain(d, h)

\* Fault: the distance is compared with twice the limit.
DeviatedFar(d, h, height) ==
    height - calculate_distance_from_mainchain(d, h) >= 2 * STABLE_LIMIT

\* The block has left the main chain STABLE_LIMIT heights ago.
Deviated(d, h, height) ==
    LET distance == calculate_distance_from_mainchain(d, h)
    IN distance <= height /\ height - distance >= STABLE_LIMIT

\* Fault: the comparison of the cumulative difficulties is turned round.
LightestTips(d, tips) == {x \in tips : \A y \in tips : d.cum[x] <= d.cum[y]}

\* The candidates of find_best_tip_by_cumulative_difficulty: the first of the
\* heaviest in the iteration order of a hash set.
HeaviestTips(d, tips) == {x \in tips : \A y \in tips : d.cum[y] <= d.cum[x]}

\* At most 9% less difficulty than the best tip.
validate_tips(d, best, tip) ==
    (d.blocks[best].difficulty * 91) \div 100 < d.blocks[tip].difficulty
-----------------------------------------------------------------------------
VARIABLES
    db,           \* the storage
    height, topoheight, stableHeight, stableTopo,   \* atomics of Blockchain
    lru,          \* tip_base_cache, tip_work_score_cache, full_order_cache
    orphaned,     \* transactions the last block gave back to the mempool
    mined,        \* every block mined in the network so far
    rewinds,      \* number of rewinds so far
    shrunk,       \* history: a reorganisation ended below the topoheight
    partial       \* history: a block was abandoned half way

vars == <<db, height, topoheight, stableHeight, stableTopo, lru, orphaned, mined,
          rewinds, shrunk, partial>>

Empty == [x \in {} |-> 0]
NoCaches == [base |-> Empty, score |-> Empty, order |-> Empty]

-----------------------------------------------------------------------------
(* Nonces and transactions.                                                *)

\* The topoheights of the versions of an account's nonce up to a topoheight.
VersionsUpTo(d, a, topo) == {v \in DOMAIN d.nonces[a] : v <= topo}

has_nonce(d, a) == DOMAIN d.nonces[a] # {}

get_nonce_at_maximum_topoheight(d, a, topo) == d.nonces[a][Max(VersionsUpTo(d, a, topo))]

\* apply_with_partial_verify: the balance the proofs are built on is the one that
\* the executed transactions leave.  Funds received meanwhile do not matter.
Applies(t, done) ==
    LET own == {u \in Tx : TxSource[u] = TxSource[t]}
    IN done \cap own = TxNeeds[t] \cap own /\ TxNeeds[t] \subseteq done

\* Transactions executed in the branch of the tips, above a height.
RECURSIVE BranchAbove(_, _, _)
BranchAbove(d, set, until) ==
    LET above == {x \in set : HeightOf(d, x) > until}
        new   == UNION {Parents(d, x) : x \in above} \ set
    IN IF new = {} THEN above ELSE BranchAbove(d, set \cup new, until)

get_all_executed_txs_until_height(d, until, tips) ==
    {t \in DOMAIN d.executor : d.executor[t] \in BranchAbove(d, tips, until)}

\* Executed elsewhere, but neither stable nor in the past of the block.
SkipsVerification(d, b, t) ==
    /\ t \in DOMAIN d.executor
    /\ HeightOf(d, d.executor[t]) > stableHeight
    /\ t \notin get_all_executed_txs_until_height(d, stableHeight, Range(b.tips))

\* verify_batch of the transactions that are not executed yet.
BatchVerified(d, b) ==
    LET batch == SelectSeq(b.txs, LAMBDA t : t \notin DOMAIN d.executor)
        before(i) == {batch[j] : j \in 1..(i - 1)}
        own(i) == {u \in before(i) : TxSource[u] = TxSource[batch[i]]}
    IN \A i \in DOMAIN batch :
          LET t == batch[i]
          IN /\ VersionsUpTo(d, TxSource[t], topoheight) # {}
             /\ TxNonce[t] = Cardinality(own(i)) +
                   get_nonce_at_maximum_topoheight(d, TxSource[t], topoheight)
             /\ Applies(t, DOMAIN d.executor \cup before(i))

TransactionsVerified(d, b) ==
    /\ \A t \in Range(b.txs) \cap DOMAIN d.executor : SkipsVerification(d, b, t)
    /\ BatchVerified(d, b)

-----------------------------------------------------------------------------
(* Undoing and executing blocks.                                           *)

\* Fault: the versions the block wrote are kept.
CleanTopoKeepsNonces(d, topo) ==
    LET h == d.hashAt[topo]
        undone == {t \in DOMAIN d.executor : d.executor[t] = h /\ t \in Range(d.blocks[h].txs)}
    IN [d EXCEPT !.executor = Restrict(@, DOMAIN @ \ undone)]

\* Undo the block at a topoheight: the transactions it executed and the versions
\* it wrote.
CleanTopo(d, topo) ==
    LET h == d.hashAt[topo]
        undone == {t \in DOMAIN d.executor : d.executor[t] = h /\ t \in Range(d.blocks[h].txs)}
    IN [d EXCEPT !.executor = Restrict(@, DOMAIN @ \ undone),
                 !.nonces   = [a \in Account |-> Restrict(@[a], DOMAIN @[a] \ {topo})]]

\* What ordering works on: the storage, the nonce checker, the nonces of the
\* block's chain state, the orphaned transactions, and whether it failed.
Work(d, orphans) ==
    [d |-> d, checker |-> Empty, accounts |-> Empty, orphans |-> orphans, failed |-> FALSE]

\* NonceChecker::use_nonce: the next nonce of the source, read from storage the
\* first time.  It stays used when the transaction does not apply.
ExpectedNonce(w, a, topo) ==
    IF a \in DOMAIN w.checker THEN w.checker[a]
    ELSE get_nonce_at_maximum_topoheight(w.d, a, topo)

use_nonce(w, t, topo) ==
    LET a == TxSource[t]
        expected == ExpectedNonce(w, a, topo)
    IN [w EXCEPT !.checker = (a :> IF TxNonce[t] = expected THEN expected + 1
                                   ELSE expected) @@ @]

\* One transaction of block h at a topoheight.
ExecuteTx(w, h, topo, t) ==
    LET a == TxSource[t]
        w1 == [w EXCEPT !.d.txBlocks[t] = @ \cup {h}]
        w2 == use_nonce(w1, t, topo)
        orphan == [w2 EXCEPT !.orphans = @ \cup {t}]
        stored == get_nonce_at_maximum_topoheight(w.d, a, topo)
        account(n) == (a :> n) @@ w.accounts
    IN IF w.failed THEN w
       ELSE IF t \in DOMAIN w.d.executor THEN w1
       ELSE IF a \notin DOMAIN w.checker /\ VersionsUpTo(w.d, a, topo) = {}
         THEN [w1 EXCEPT !.failed = TRUE]
       ELSE IF ExpectedNonce(w, a, topo) # TxNonce[t] THEN orphan
       ELSE IF ~ Applies(t, DOMAIN w.d.executor)
         THEN [orphan EXCEPT !.accounts = w.accounts @@ (a :> stored)]
       ELSE [w2 EXCEPT !.accounts = account(w2.checker[a]),
                       !.d.executor = (t :> h) @@ @,
                       !.orphans = @ \ {t}]

\* reward_miner and apply_changes: the nonces of the senders, and nonce 0 for the
\* miner and the receivers that have none.
ApplyChanges(w, h, topo) ==
    LET executed == {t \in DOMAIN w.d.executor : w.d.executor[t] = h}
        funded == {w.d.blocks[h].miner} \cup {TxReceiver[t] : t \in executed}
        new == w.accounts @@ [a \in {x \in funded : ~ has_nonce(w.d, x)} |-> 0]
    IN IF w.failed THEN w
       ELSE [w EXCEPT !.d.nonces = [a \in Account |->
                         IF a \in DOMAIN new THEN (topo :> new[a]) @@ @[a] ELSE @[a]],
                      !.accounts = Empty]

\* A block whose transactions are not all in storage is an error.
ExecuteBlock(w, h, topo) ==
    LET w0 == [w EXCEPT !.d = set_topo_height_for_block(@, h, topo)]
        step(v, t) == ExecuteTx(v, h, topo, t)
    IN IF w.failed THEN w
       ELSE IF ~ Range(w.d.blocks[h].txs) \subseteq w.d.txs
         THEN [w0 EXCEPT !.failed = TRUE]
       ELSE ApplyChanges(FoldLeft(step, w0, w0.d.blocks[h].txs), h, topo)

-----------------------------------------------------------------------------
(* Ordering the DAG again.                                                 *)

\* How many blocks of the new order keep their topoheight.  From genesis on
\* everything is written again.
Kept(d, order, baseTopo) ==
    LET same(i) == /\ baseTopo + i - 1 <= topoheight
                   /\ is_block_topological_ordered(d, order[i])
                   /\ d.hashAt[baseTopo + i - 1] = order[i]
    IN IF baseTopo = 0 THEN 0
       ELSE Max({k \in 0..Len(order) : \A i \in 1..k : same(i)})

\* Fault: only the blocks of the new order are looked at.
LeftOutNone(d, order, first) == {}

\* The transactions that the blocks left out of the order had executed.
LeftOut(d, order, first) ==
    {t \in DOMAIN d.executor :
        \E topo \in first..topoheight :
            /\ d.executor[t] = d.hashAt[topo]
            /\ ~ Contains(order, d.hashAt[topo])}

\* Clean the topoheights from the first one that moves on.
Cleaned(d, first) ==
    LET clean(x, topo) == CleanTopo(x, topo)
    IN FoldLeft(clean, d, [i \in 1..(topoheight + 1 - first) |-> first + i - 1])

\* Execute the blocks that move.
ExecuteFrom(w, moved, first) ==
    LET execute(v, i) == ExecuteBlock(v, moved[i], first + i - 1)
    IN FoldLeft(execute, w, [i \in DOMAIN moved |-> i])

MoveFrom(d, moved, first) ==
    ExecuteFrom(Work(Cleaned(d, first), LeftOut(d, moved, first)), moved, first)

\* All but the kept blocks of the order o are cleaned and executed.
Reorder(o) ==
    MoveFrom(o.d, SubSeq(o.order, o.kept + 1, Len(o.order)), o.baseTopo + o.kept)

\* highest_topo: stays 0 when nothing moves.
HighestTopo(o) == IF o.kept = Len(o.order) THEN 0 ELSE o.baseTopo + Len(o.order) - 1

-----------------------------------------------------------------------------
(* Adding a block.                                                         *)

\* The checks of add_new_block_for_storage on a block b with hash h.
Accepts(h, b) ==
    LET tips == Range(b.tips)
    IN /\ h \notin DOMAIN db.blocks
       /\ Cardinality(tips) \in 1..TIPS_LIMIT
       /\ tips \subseteq DOMAIN db.blocks
       /\ b.height = calculate_height_at_tips(db, tips)
       /\ b.height >= stableHeight
       /\ verify_non_reachability(db, tips)
       /\ \A x \in tips : ~ Deviated(db, x, height)
       /\ \A x \in tips \ {b.tips[1]} : validate_tips(db, b.tips[1], x)
       /\ TransactionsVerified(db, b)

\* save_block, and the cumulative difficulty: the work above the base of the tips.
WithWork(d, c, h, base) ==
    [d |-> [d EXCEPT !.cum = (h :> find_tip_work_score(d, c, h, base)) @@ @],
     c |-> WorkCached(d, c, {h}, base)]

Scored(d, c, h) ==
    WithWork(d, BaseCached(d, c, Parents(d, h)), h, find_common_base(d, c, Parents(d, h)))

Saved(h, b) ==
    Scored([db EXCEPT !.blocks = (h :> b) @@ @, !.txs = @ \cup Range(b.txs)], lru, h)

\* The order from the base of the tips to the best of them.
Ordering(d, c, order, baseTopo) ==
    [d |-> d, c |-> c, order |-> order, baseTopo |-> baseTopo,
     kept |-> Kept(d, order, baseTopo)]

OrderTo(d, c, best, base) ==
    Ordering(d, OrderCached(d, c, best, base), generate_full_order(d, c, best, base),
             d.topoOf[base])

OrderAbove(d, c, tips, base) ==
    OrderTo(d, WorkCached(d, c, tips, base), find_best_tip(d, c, tips, base), base)

Ordered(s, tips) ==
    OrderAbove(s.d, BaseCached(s.d, s.c, tips), tips, find_common_base(s.d, s.c, tips))

\* The tips that stay: not too far from the main chain, and within 9% of the
\* difficulty of the best one.
FreshTips(d, tips) == {x \in tips : ~ Deviated(d, x, height)}
FinalTips(d, fresh, best) == {x \in fresh : x = best \/ validate_tips(d, best, x)}

\* The tips with the new block in the place of its own tips.
NewTips(h, b) == (db.tips \cup {h}) \ Range(b.tips)

\* The top height after block b.
NewHeight(b) == IF height = 0 \/ b.height > height THEN b.height ELSE height

\* The stable height is the height of the base of the tips.
StableAt(d, base) == stableHeight' = HeightOf(d, base) /\ stableTopo' = d.topoOf[base]
StableFrom(d, c, tips) ==
    StableAt(d, find_common_base(d, c, tips)) /\ lru' = BaseCached(d, c, tips)

\* An error while executing, or no tip that is left, ends the handler half way.
Abandon(o, w, fresh) ==
    /\ w.failed \/ fresh = {}
    /\ db' = w.d /\ lru' = o.c /\ orphaned' = {} /\ partial' = TRUE
    /\ UNCHANGED <<height, topoheight, stableHeight, stableTopo, shrunk>>

\* The transactions of a block that is not ordered are linked to it.
Linked(h, b, o, w) ==
    [t \in Tx |-> w.d.txBlocks[t] \cup
        {x \in {h} : Contains(b.txs, t) /\ ~ Contains(o.order, h)}]

\* The new tips, heights and stable point.
Complete(h, b, o, w, fresh) ==
    /\ ~ w.failed
    /\ topoheight' = IF height = 0 THEN HighestTopo(o) ELSE Max({topoheight, HighestTopo(o)})
    /\ height' = NewHeight(b)
    /\ \E best \in HeaviestTips(w.d, fresh) :
          db' = [w.d EXCEPT !.txBlocks = Linked(h, b, o, w), !.topTopo = topoheight',
                            !.tips = FinalTips(w.d, fresh, best), !.topHeight = height']
    /\ StableFrom(db', o.c, db'.tips)
    /\ orphaned' = w.orphans \ DOMAIN w.d.executor
    /\ shrunk' = (o.baseTopo + Len(o.order) - 1 < topoheight')
    /\ UNCHANGED partial

Settle(h, b, o, w, fresh) == Abandon(o, w, fresh) \/ Complete(h, b, o, w, fresh)

Execute(h, b, o, w) == Settle(h, b, o, w, FreshTips(w.d, NewTips(h, b)))

OrderAndExecute(h, b, o) == Execute(h, b, o, Reorder(o))

AddBlock(h, b) ==
    /\ ~ partial /\ Accepts(h, b)
    /\ mined' = (h :> b) @@ mined
    /\ OrderAndExecute(h, b, Ordered(Saved(h, b), NewTips(h, b)))
    /\ UNCHANGED rewinds

-----------------------------------------------------------------------------
(* Rewinding, restarting, and the behaviours.                              *)

\* delete_block_at_topoheight
DeleteBlock(d, topo) ==
    LET h == d.hashAt[topo]
        its == Range(d.blocks[h].txs)
    IN [d EXCEPT !.hashAt = Restrict(@, DOMAIN @ \ {topo}),
                 !.topoOf = Restrict(@, DOMAIN @ \ {h}),
                 !.blocks = Restrict(@, DOMAIN @ \ {h}),
                 !.cum = Restrict(@, DOMAIN @ \ {h}),
                 !.txs = @ \ its,
                 !.txBlocks = [t \in Tx |-> @[t] \ {h}],
                 !.executor = Restrict(@, DOMAIN @ \ its)]

\* The loop of pop_blocks: the block on top is deleted and its tips are tips
\* again.  The new height is the height of the lowest block deleted.
RECURSIVE PopBlocks(_, _)
PopBlocks(p, until) ==
    LET h == p.d.hashAt[p.topo]
        b == p.d.blocks[h]
    IN IF p.topo <= until \/ p.height = 0 THEN p
       ELSE PopBlocks([d |-> DeleteBlock(p.d, p.topo),
                       tips |-> (p.tips \ {h}) \cup Range(b.tips),
                       topo |-> p.topo - 1,
                       height |-> IF b.height < p.height THEN b.height ELSE p.height],
                      until)

\* The nonce versions up to a topoheight.
NoncesUpTo(d, topo) ==
    [a \in Account |-> Restrict(d.nonces[a], VersionsUpTo(d, a, topo))]

\* rewind_chain of n blocks; stop says whether to stop at the stable height,
\* which is compared with topoheights.  Where a topoheight is left from a longer
\* order (shrunk) the loop may meet a deleted block and fail; that is left out.
Rewind(n, stop) ==
    LET until == IF stop THEN Max({stableHeight, topoheight - n}) ELSE topoheight - n
        onlyOrdered == {x \in db.tips : is_block_topological_ordered(db, x)}
        p == PopBlocks([d |-> db, tips |-> onlyOrdered, topo |-> topoheight,
                        height |-> height], until)
    IN /\ ~ partial /\ ~ shrunk
       /\ n <= topoheight /\ rewinds < MaxRewinds
       /\ db' = [p.d EXCEPT !.nonces = NoncesUpTo(p.d, p.topo), !.tips = p.tips,
                            !.topTopo = p.topo, !.topHeight = p.height]
       /\ height' = p.height /\ topoheight' = p.topo
       /\ IF stop THEN UNCHANGED <<stableHeight, stableTopo, lru>>
                  ELSE StableFrom(db', lru, p.tips)
       /\ rewinds' = rewinds + 1 /\ orphaned' = {}
       /\ UNCHANGED <<mined, shrunk, partial>>

\* Blockchain::new on an existing storage: the caches are empty.
Restart ==
    /\ height' = db.topHeight /\ topoheight' = db.topTopo
    /\ StableFrom(db, NoCaches, db.tips)
    /\ orphaned' = {}
    /\ UNCHANGED <<db, mined, rewinds, shrunk, partial>>

\* A header with the tips in the order of sort_tips.
Header(tips, difficulty, txs, miner) ==
    [tips |-> sort_tips(db, tips), height |-> calculate_height_at_tips(db, tips),
     difficulty |-> difficulty, txs |-> txs, miner |-> miner]

\* The tips of a block template: the stored tips that are near the best one and the
\* main chain, the heaviest TIPS_LIMIT of them.
SelectedTips(best) ==
    {x \in db.tips : x = best \/ (validate_tips(db, best, x) /\ ~ Deviated(db, x, height))}
Heaviest(tips) ==
    Range(SubSeq(sort_tips(db, tips), 1, Min({TIPS_LIMIT, Cardinality(tips)})))
TemplateTips(best) == Heaviest(SelectedTips(best))

\* get_difficulty_at_tips: the minimum at height 1, then one value per tips.
DifficultyAt(tips, difficulties) ==
    LET same == {x \in DOMAIN mined : Range(mined[x].tips) = tips}
    IN IF calculate_height_at_tips(db, tips) <= 1 THEN {MinimumDifficulty}
       ELSE IF same # {} THEN {mined[x].difficulty : x \in same}
       ELSE difficulties

\* Bound: a new hash is the lowest or the highest of those that are left, so that
\* of any two blocks either one may have the higher hash.
FreshHash(hashes) ==
    LET left == hashes \ DOMAIN mined
    IN {h \in left : (\A x \in left : h <= x) \/ (\A x \in left : x <= h)}

NewBlockOf(hashes, difficulties, payloads) ==
    \E h \in FreshHash(hashes), tips \in SUBSET DOMAIN db.blocks,
       txs \in payloads, miner \in Miners :
        /\ Cardinality(tips) \in 1..TIPS_LIMIT
        /\ \E difficulty \in DifficultyAt(tips, difficulties) :
              AddBlock(h, Header(tips, difficulty, txs, miner))

NewBlock == NewBlockOf(Hash, Difficulty, Payloads)

\* A peer sends a block that a rewind removed.
BlockAgain == \E h \in DOMAIN mined : AddBlock(h, mined[h])

GenesisBlock ==
    [tips |-> <<>>, height |-> 0, difficulty |-> MinimumDifficulty, txs |-> <<>>,
     miner |-> CHOOSE a \in Miners : TRUE]

\* The state that create_genesis_block leaves.
Init ==
    /\ db = [blocks |-> (Genesis :> GenesisBlock), cum |-> (Genesis :> MinimumDifficulty),
             topoOf |-> (Genesis :> 0), hashAt |-> (0 :> Genesis), tips |-> {Genesis},
             topTopo |-> 0, topHeight |-> 0, executor |-> Empty, txs |-> {},
             txBlocks |-> [t \in Tx |-> {}],
             nonces |-> [a \in Account |->
                           IF a = GenesisBlock.miner THEN (0 :> 0) ELSE Empty]]
    /\ height = 0 /\ topoheight = 0 /\ stableHeight = 0 /\ stableTopo = 0
    /\ lru = NoCaches /\ orphaned = {} /\ mined = (Genesis :> GenesisBlock)
    /\ rewinds = 0 /\ shrunk = FALSE /\ partial = FALSE

Next ==
    \/ NewBlock
    \/ BlockAgain
    \/ \E n \in 1..topoheight, stop \in BOOLEAN : Rewind(n, stop)
    \/ Restart

Spec == Init /\ [][Next]_vars

-----------------------------------------------------------------------------
(* Properties.                                                             *)

\* Neither an abandoned block nor the rest of a longer order is in the storage.
Regular == ~ shrunk /\ ~ partial

\* The blocks with a topoheight, in order.
Order == [i \in 1..(topoheight + 1) |-> db.hashAt[i - 1]]

\* Every topoheight up to the top has a block, the tips are stored blocks, and
\* the stable point lies within the chain.
TypeOK ==
    /\ DOMAIN db.cum = DOMAIN db.blocks
    /\ DOMAIN db.topoOf \subseteq DOMAIN db.blocks
    /\ DOMAIN db.blocks \subseteq DOMAIN mined
    /\ db.tips # {} /\ db.tips \subseteq DOMAIN db.blocks
    /\ 0..topoheight \subseteq DOMAIN db.hashAt
    /\ stableTopo \in 0..topoheight /\ stableHeight \in 0..height

\* No block has two topoheights: the trees topo_by_hash and hash_at_topo, which
\* set_topo_height_for_block writes one after the other through reorganisations,
\* are inverse to each other on the chain.
TopoUnique == Regular => \A i \in 0..topoheight : db.topoOf[db.hashAt[i]] = i

\* Every block is ordered after all its tips, so what generate_full_order returns
\* and what the loops of add_new_block_for_storage leave of it is a linear
\* extension of the DAG, except where a longer order has left its end behind.
ParentsFirst ==
    Regular => \A i \in 0..topoheight : \A p \in Parents(db, db.hashAt[i]) :
                  is_block_topological_ordered(db, p) /\ db.topoOf[p] < i

SameOrderAnew(best, base) ==
    generate_full_order(db, lru, best, base) = generate_full_order(db, NoCaches, best, base)

SameBestAnew(base) ==
    LET best == find_best_tip(db, NoCaches, db.tips, base)
    IN find_best_tip(db, lru, db.tips, base) = best /\ SameOrderAnew(best, base)

\* What the caches tip_work_score_cache and full_order_cache answer for the current
\* tips is what is computed anew, although the blocks above a base were ordered
\* differently when the answer was cached.
CachesAgree == ~ partial => SameBestAnew(find_common_base(db, lru, db.tips))

\* No tip is in the past of another one: add_new_block_for_storage refuses a block
\* on such tips, and a block template takes its tips from this set.  A rewind is
\* excepted: the parents of the blocks it removes become tips, also those that a
\* block which stays has among its ancestors.
TipsAntichain == rewinds = 0 => verify_non_reachability(db, db.tips)

\* A block that is mined on the node's own template is accepted by the node.
TemplateWorks ==
    ~ partial => \A best \in HeaviestTips(db, db.tips) :
        Accepts(-1, Header(TemplateTips(best), MinimumDifficulty, <<>>, GenesisBlock.miner))

\* The order ends in a tip: find_best_tip, which ranks the tips by their work above
\* the base, and find_best_tip_by_cumulative_difficulty, which drops the light ones
\* afterwards, agree.  Only a tip of the same cumulative difficulty may replace it.
MainTipKept ==
    LET top == db.hashAt[topoheight]
    IN Regular => top \in db.tips \/ \E x \in db.tips : db.cum[x] = db.cum[top]

\* The node accepts its own template in every state in which the order ends in the
\* only heaviest tip: the tips that are kept are a valid set of tips, neither too far
\* from the main chain nor too light nor in the past of each other (before a rewind).
TemplateAccepted ==
    Regular /\ rewinds = 0 /\ HeaviestTips(db, db.tips) = {db.hashAt[topoheight]} => TemplateWorks

\* Without a rewind, a block never changes the order up to the stable topoheight,
\* whatever branch it extends: what is stable is final.
StableKept ==
    [][rewinds' = 0 /\ ~ partial' =>
          \A i \in 0..stableTopo : db'.hashAt[i] = db.hashAt[i]]_vars

\* Nothing of a popped block is left above the new top: no topoheight, no nonce
\* version, no executed transaction.
NothingAbove ==
    Regular => /\ DOMAIN db.hashAt = 0..topoheight
               /\ \A a \in Account : DOMAIN db.nonces[a] \subseteq 0..topoheight
               /\ \A t \in DOMAIN db.executor :
                     is_block_topological_ordered(db, db.executor[t])

\* The storage after executing the order again from nothing, one block at a time.
ReExecuted ==
    LET d0 == [db EXCEPT !.executor = Empty, !.nonces = [a \in Account |-> Empty]]
        execute(d, i) == ExecuteBlock(Work(d, {}), db.hashAt[i], i).d
    IN FoldLeft(execute, d0, [i \in 1..(topoheight + 1) |-> i - 1])

\* The nonce of an account at every topoheight, as a set with at most one element.
NonceAt(d, a, topo) ==
    {d.nonces[a][v] : v \in {x \in VersionsUpTo(d, a, topo) :
                                 \A y \in VersionsUpTo(d, a, topo) : y <= x}}

\* The ledger is a function of the order: which transactions are executed, where,
\* and the nonces at every topoheight are what executing the order block by block
\* gives, however many reorganisations led to it.  A rewind is excepted: it removes
\* the execution mark of a transaction that a deeper block has executed too.
LedgerFollowsOrder ==
    Regular /\ rewinds = 0 =>
        LET d == ReExecuted
        IN /\ d.executor = db.executor
           /\ \A a \in Account, topo \in 0..topoheight :
                 NonceAt(d, a, topo) = NonceAt(db, a, topo)

\* The stored nonce of an account counts its executed transactions, through
\* competing transactions and undone blocks, with the same exception.
NoncesMatch ==
    Regular /\ rewinds = 0 => \A a \in Account : has_nonce(db, a) =>
        get_nonce_at_maximum_topoheight(db, a, topoheight)
            = Cardinality({t \in DOMAIN db.executor : TxSource[t] = a})

\* A transaction that a reorganisation undoes and does not execute again is
\* handed back to the mempool.
NoTxLost ==
    [][rewinds' = rewinds /\ ~ partial' =>
          DOMAIN db.executor \ DOMAIN db'.executor \subseteq orphaned']_vars

\* The order that add_new_block_for_storage and pop_blocks leave in the storage is complete, is a
\* linear extension of the DAG with one topoheight per block, and nothing is stored above it.
OrderSound == TypeOK /\ TopoUnique /\ ParentsFirst /\ NothingAbove

\* The tips that the rules at the end of add_new_block_for_storage keep are an antichain, contain the
\* end of the order, and make a template that the node accepts itself.
TipsSound == TipsAntichain /\ MainTipKept /\ TemplateAccepted

\* Execution marks and nonces are those of executing the order once from nothing, and agree.
LedgerSound == LedgerFollowsOrder /\ NoncesMatch
=============================================================================
