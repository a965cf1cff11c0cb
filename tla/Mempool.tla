------------------------------- MODULE Mempool -------------------------------
(***************************************************************************)
(* The memory pool of the daemon (xelis_daemon/src/core/mempool.rs), the   *)
(* checks Blockchain makes before it hands a transaction to it             *)
(* (add_tx_to_mempool_with_storage_and_hash) and the verification state    *)
(* behind it (core/state/mempool_state.rs).                                *)
(*                                                                         *)
(* The pool keeps the pending transactions and, for every sender that has  *)
(* some, an AccountCache: the nonce bounds, the transactions in nonce      *)
(* order and the balances expected after all of them.  The position of a   *)
(* transaction in that order is computed from its nonce, never searched.   *)
(*                                                                         *)
(* The chain is the environment here: a block or a rewind moves the        *)
(* storage to some other state it may be in (StorageStates), then cleans   *)
(* the pool or not, and adds the transactions of orphaned blocks back one  *)
(* by one while it still holds the storage lock.                           *)
(*                                                                         *)
(* A ciphertext is represented by the amount it encrypts; a transaction's  *)
(* proof for an asset holds for exactly the balance it was built on.       *)
(***************************************************************************)
EXTENDS Integers, Sequences, FiniteSets

CONSTANTS
    PoolAccount,        \* public keys that send transactions
    Asset,          \* assets
    Tx,             \* transactions (their hashes)
    TxSource,       \* [Tx -> PoolAccount]
    TxNonce,        \* [Tx -> Nat]
    TxReference,    \* [Tx -> Nat], topoheight the transaction refers to
    TxSpend,        \* per transaction, [assets committed to -> amount]
    TxBuiltOn,      \* per transaction, the balances its proofs are built on
    StorageStates,  \* states of the ledger: [nonces, funds, executed]
    MaxPoolTopo,        \* bound on topoheights
    TrackOrphans    \* a websocket client listens to TransactionOrphaned

NoNonce == -1       \* the account has no nonce version in storage

ASSUME TxAssumption ==
    /\ TxSource \in [Tx -> PoolAccount]
    /\ TxNonce \in [Tx -> Nat]

ASSUME PoolStorageAssumption ==
    \A s \in StorageStates : /\ s.nonces \in [PoolAccount -> Nat \cup {NoNonce}]
                             /\ s.executed \in SUBSET Tx

ASSUME TopoAssumption == MaxPoolTopo \in Nat

VARIABLES
    storage,     \* the ledger, one of StorageStates
    topoheight,  \* Blockchain.topoheight
    writer,      \* holder of the storage write lock: "none", "block", "rewind"
    orphaned,    \* transactions the writer still has to add back
    newTopo,     \* topoheight a rewind stores when it has finished
    txs,         \* Mempool.txs
    caches,      \* Mempool.caches: a function on the senders with pending txs
    clean        \* history: no rewind, and no change of the storage, since
                 \* the pool was last cleaned or empty

mempoolVars == <<storage, topoheight, writer, orphaned, newTopo, txs, caches, clean>>

-----------------------------------------------------------------------------
(* Verification of transactions against the pool and the storage.          *)

\* get_nonce_at_maximum_topoheight(..).unwrap_or(0)
StoredNonce(s, a) == IF s.nonces[a] = NoNonce THEN 0 ELSE s.nonces[a]

\* The nonce a new transaction of account a must have.
internal_get_account_nonce(a) ==
    IF a \in DOMAIN caches THEN caches[a].max + 1 ELSE StoredNonce(storage, a)

\* The balances a new transaction of account a is verified against: what the
\* cache of the account holds, the storage for every other asset.
internal_get_sender_balance(a) ==
    [x \in Asset |-> IF a \in DOMAIN caches /\ x \in DOMAIN caches[a].balances
                     THEN caches[a].balances[x] ELSE storage.funds[a][x]]

\* The proof for one asset: the balance it was built on, and no overspending.
ProofHolds(t, x, balance) ==
    balance = TxBuiltOn[t][x] /\ TxSpend[t][x] <= balance

\* pre_verify of transaction t in verification state v at topoheight h.
pre_verify(v, t, h) ==
    LET current(x) == IF x \in DOMAIN v.assets THEN v.assets[x] ELSE v.base[x]
        spent      == DOMAIN TxSpend[t]
    IN [v EXCEPT
          !.ok = /\ v.ok
                 /\ TxReference[t] <= h
                 /\ TxNonce[t] = v.nonce
                 /\ \A x \in spent : ProofHolds(t, x, current(x)),
          !.nonce = v.nonce + 1,
          !.assets = [x \in DOMAIN v.assets \cup spent |->
                        IF x \in spent THEN current(x) - TxSpend[t][x]
                                       ELSE v.assets[x]]]

\* verify_batch of the transactions s of one account from a nonce and balances.
verify_batch(s, nonce, balances, h) ==
    LET init == [ok |-> TRUE, nonce |-> nonce, base |-> balances,
                 assets |-> [x \in {} |-> 0]]
        after[i \in 0..Len(s)] ==
            IF i = 0 THEN init ELSE pre_verify(after[i - 1], s[i], h)
    IN after[Len(s)]

-----------------------------------------------------------------------------
(* Adding a transaction.                                                   *)

\* Position, from 1, of the transaction with a nonce in the cache's bounds.
NonceIndex(c, nonce) == 1 + ((nonce - c.min) % (c.max + 1 - c.min))

\* The transactions has_tx_with_same_nonce returns: none or one.
has_tx_with_same_nonce(c, nonce) ==
    IF nonce < c.min \/ nonce > c.max \/ c.txs = <<>> THEN {}
    ELSE {c.txs[i] : i \in {NonceIndex(c, nonce)} \cap DOMAIN c.txs}

\* Fault: a resent nonce is let through to replace the pending transaction.
AcceptedResent(t) ==
    /\ t \notin txs
    /\ t \notin storage.executed
    /\ verify_batch(<<t>>, TxNonce[t], storage.funds[TxSource[t]], topoheight).ok
       \/ TxSource[t] \in DOMAIN caches

\* add_tx_to_mempool_with_storage_and_hash gets past all its early returns.
Accepted(t) ==
    LET a == TxSource[t]
        n == TxNonce[t]
    IN /\ t \notin txs
       /\ t \notin storage.executed
       /\ a \in DOMAIN caches =>
            /\ has_tx_with_same_nonce(caches[a], n) = {}
            /\ n <= caches[a].max + 1 /\ n >= caches[a].min
       /\ verify_batch(<<t>>, internal_get_account_nonce(a),
                       internal_get_sender_balance(a), topoheight).ok

\* IndexSet::swap_remove_index
SwapRemove(s, i) == [k \in 1..(Len(s) - 1) |-> IF k = i THEN s[Len(s)] ELSE s[k]]

\* The transaction that add_tx replaces: the one at the same nonce, if any.
Replaced(t) ==
    IF TxSource[t] \in DOMAIN caches
    THEN LET c == caches[TxSource[t]]
         IN IF TxNonce[t] \in c.min..c.max
            THEN {Append(c.txs, t)[i] :
                    i \in {NonceIndex(c, TxNonce[t])} \cap 1..(Len(c.txs) + 1)}
            ELSE {}
    ELSE {}

\* The sender's cache after add_tx: the balances are those of the assets
\* this one transaction touched.
CacheWith(t) ==
    LET a   == TxSource[t]
        n   == TxNonce[t]
        bal == verify_batch(<<t>>, internal_get_account_nonce(a),
                            internal_get_sender_balance(a), topoheight).assets
    IN IF a \notin DOMAIN caches
       THEN [min |-> n, max |-> n, txs |-> <<t>>, balances |-> bal]
       ELSE LET c == caches[a]
            IN IF n \in c.min..c.max
               THEN [c EXCEPT !.txs = IF NonceIndex(c, n) <= Len(c.txs) + 1
                                      THEN SwapRemove(Append(c.txs, t), NonceIndex(c, n))
                                      ELSE Append(c.txs, t),
                              !.balances = bal]
               ELSE [min |-> IF n < c.min THEN n ELSE c.min,
                     max |-> IF n > c.max THEN n ELSE c.max,
                     txs |-> Append(c.txs, t),
                     balances |-> bal]

\* Mempool::add_tx
add_tx(t) ==
    /\ txs' = (txs \ Replaced(t)) \cup {t}
    /\ caches' = [a \in DOMAIN caches \cup {TxSource[t]} |->
                    IF a = TxSource[t] THEN CacheWith(t) ELSE caches[a]]

-----------------------------------------------------------------------------
(* Cleaning the pool after a block.                                        *)

\* IndexSet::retain of the positions in keep, in order.
Retain(s, keep) ==
    [k \in 1..Cardinality(keep) |->
        s[CHOOSE i \in keep : Cardinality({j \in keep : j <= i}) = k]]

\* Positions of the cached transactions that the stored nonce has not passed.
Pending(c, nonce) ==
    {i \in DOMAIN c.txs : c.txs[i] \in txs /\ TxNonce[c.txs[i]] >= nonce}

\* Fault: retain drops transactions and the bounds are not updated.
TrimmedOldBounds(c, nonce) == [c EXCEPT !.txs = Retain(c.txs, Pending(c, nonce))]

\* The cache with the retained transactions and their bounds.
Trimmed(c, nonce) ==
    LET kept   == Retain(c.txs, Pending(c, nonce))
        nonces == {TxNonce[kept[i]] : i \in DOMAIN kept}
    IN [c EXCEPT !.txs = kept,
                 !.min = CHOOSE m \in nonces : \A n \in nonces : m <= n,
                 !.max = CHOOSE m \in nonces : \A n \in nonces : m >= n]

\* The retained transactions of account a, verified again from storage s.
Reverified(s, a, h) ==
    verify_batch(Trimmed(caches[a], s.nonces[a]).txs, s.nonces[a], s.funds[a], h)

\* Fault: the transactions left after retain are not verified again.
KeepsUnverified(s, a, h) ==
    /\ s.nonces[a] # NoNonce
    /\ caches[a].min <= s.nonces[a]
    /\ Pending(caches[a], s.nonces[a]) # {}

\* The account keeps a cache: it still has a nonce, no gap opened below its
\* transactions, some are left and all of these still verify.
KeepsCache(s, a, h) ==
    /\ s.nonces[a] # NoNonce
    /\ caches[a].min <= s.nonces[a]
    /\ Pending(caches[a], s.nonces[a]) # {}
    /\ Reverified(s, a, h).ok

\* Fault: a dropped cache leaves its transactions in the pool.
clean_up_ghosts(s, h) ==
    LET kept == {a \in DOMAIN caches : KeepsCache(s, a, h)}
    IN /\ caches' = [a \in kept |-> [Trimmed(caches[a], s.nonces[a])
                                       EXCEPT !.balances = Reverified(s, a, h).assets]]
       /\ txs' = txs

\* Mempool::clean_up against storage s at topoheight h
clean_up(s, h) ==
    LET kept == {a \in DOMAIN caches : KeepsCache(s, a, h)}
        new(a) == [Trimmed(caches[a], s.nonces[a])
                     EXCEPT !.balances = Reverified(s, a, h).assets]
        deleted(a) == IF a \in kept
                      THEN {caches[a].txs[i] : i \in DOMAIN caches[a].txs}
                             \ {new(a).txs[i] : i \in DOMAIN new(a).txs}
                      ELSE {caches[a].txs[i] : i \in DOMAIN caches[a].txs}
    IN /\ caches' = [a \in kept |-> new(a)]
       /\ txs' = txs \ UNION {deleted(a) : a \in DOMAIN caches}

-----------------------------------------------------------------------------
(* Actions.                                                                *)

InitMempool ==
    /\ storage \in StorageStates
    /\ topoheight \in 0..MaxPoolTopo
    /\ writer = "none"
    /\ orphaned = {}
    /\ newTopo = 0
    /\ txs = {}
    /\ caches = [a \in {} |-> 0]
    /\ clean = TRUE

\* A transaction submitted by RPC, by a peer or from the console.  The storage
\* lock is held for reading, so no block is being processed.  A rejected
\* transaction changes nothing.
AddTx(t) ==
    /\ writer = "none"
    /\ Accepted(t)
    /\ add_tx(t)
    /\ UNCHANGED <<storage, topoheight, writer, orphaned, newTopo, clean>>

\* A block has been executed: the storage is in state s and `highest` is the
\* highest topoheight of the new order.  The pool is cleaned only if the order
\* reaches the old topoheight.  `back` are the transactions of blocks that
\* lost their place in the order.
BlockExecuted(s, highest, back) ==
    /\ writer = "none"
    /\ storage' = s
    /\ topoheight' = IF highest > topoheight THEN highest ELSE topoheight
    /\ writer' = "block"
    /\ IF highest >= topoheight
       THEN /\ clean_up(s, highest)
            /\ clean' = TRUE
            /\ orphaned' = IF TrackOrphans THEN back \ (txs \ txs') ELSE back
       ELSE /\ clean' = (clean /\ s = storage)
            /\ orphaned' = back
            /\ UNCHANGED <<txs, caches>>
    /\ UNCHANGED newTopo

\* rewind_chain_for_storage after pop_blocks: the pool is not cleaned.
Rewound(s, topo, back) ==
    /\ writer = "none"
    /\ topo <= topoheight
    /\ storage' = s
    /\ writer' = "rewind"
    /\ orphaned' = back
    /\ newTopo' = topo
    /\ clean' = FALSE
    /\ UNCHANGED <<topoheight, txs, caches>>

\* The writer adds one transaction back, or drops it when it is rejected.
AddBack(t) ==
    /\ t \in orphaned
    /\ orphaned' = orphaned \ {t}
    /\ IF Accepted(t) THEN add_tx(t) ELSE UNCHANGED <<txs, caches>>
    /\ UNCHANGED <<storage, topoheight, writer, newTopo, clean>>

\* The writer releases the storage lock; a rewind stores the topoheight first.
Release ==
    /\ writer # "none"
    /\ orphaned = {}
    /\ topoheight' = IF writer = "rewind" THEN newTopo ELSE topoheight
    /\ writer' = "none"
    /\ newTopo' = 0
    /\ UNCHANGED <<storage, orphaned, txs, caches, clean>>

\* Mempool::clear, from the console or after a bootstrap sync.
Clear ==
    /\ txs' = {}
    /\ caches' = [a \in {} |-> 0]
    /\ clean' = (writer # "rewind")
    /\ UNCHANGED <<storage, topoheight, writer, orphaned, newTopo>>

NextMempool ==
    \/ \E t \in Tx : AddTx(t) \/ AddBack(t)
    \/ \E s \in StorageStates, back \in SUBSET storage.executed :
          \/ \E highest \in 0..MaxPoolTopo : BlockExecuted(s, highest, back)
          \/ \E topo \in 0..MaxPoolTopo : Rewound(s, topo, back)
    \/ Release
    \/ Clear

MempoolSpec == InitMempool /\ [][NextMempool]_mempoolVars

-----------------------------------------------------------------------------
(* Properties.                                                             *)

\* Every variable has its type; the caches belong to known accounts.
TypeOK ==
    /\ storage \in StorageStates
    /\ topoheight \in 0..MaxPoolTopo
    /\ newTopo \in 0..MaxPoolTopo
    /\ writer \in {"none", "block", "rewind"}
    /\ orphaned \in SUBSET Tx
    /\ txs \in SUBSET Tx
    /\ DOMAIN caches \in SUBSET PoolAccount
    /\ \A a \in DOMAIN caches :
          /\ DOMAIN caches[a] = {"min", "max", "txs", "balances"}
          /\ caches[a].min \in Nat /\ caches[a].max \in Nat
          /\ caches[a].txs \in Seq(Tx)
    /\ clean \in BOOLEAN

\* The comment on AccountCache: "You can get the TX at nonce N by computing
\* the index".  In every cache the i-th transaction has nonce min + i - 1 and
\* the last one has nonce max, whatever blocks, reorganisations and rewinds
\* did in between, so the computed index is the right one.
CacheIndexed ==
    \A a \in DOMAIN caches :
        LET c == caches[a]
        IN /\ Len(c.txs) = c.max - c.min + 1
           /\ \A i \in DOMAIN c.txs : /\ TxSource[c.txs[i]] = a
                                      /\ TxNonce[c.txs[i]] = c.min + i - 1

\* "Don't let ghost TXs in mempool" (clean_up): the pool holds exactly the
\* transactions of the caches, and no cache is left empty.
NoGhosts ==
    /\ txs = UNION {{caches[a].txs[i] : i \in DOMAIN caches[a].txs} :
                    a \in DOMAIN caches}
    /\ \A a \in DOMAIN caches : caches[a].txs # <<>>

\* The pool verifies the transactions of account a again, from the storage.
Replay(a) ==
    verify_batch(caches[a].txs, storage.nonces[a], storage.funds[a], topoheight)

\* AccountCache.balances "is also used to verify the validity of the TX
\* spendings": as long as the storage has not moved since the last clean_up,
\* the cached transactions of every sender verify one after the other against
\* the storage, so all of them can be put into a block.
Replayable == clean => \A a \in DOMAIN caches : Replay(a).ok

\* AccountCache.balances, "Expected balances after all txs in this cache":
\* they are the balances left once the storage has executed all of them.
ExpectedBalances ==
    clean => \A a \in DOMAIN caches : Replay(a).assets = caches[a].balances

\* "If a user want to cancel its TX, he can just resend a TX with same nonce
\* [...] This is not possible anymore": adding a transaction never removes
\* another one, so the replacement branch of add_tx is dead.
NeverReplaced ==
    [][\A t \in Tx : t \notin txs /\ t \in txs' => txs \subseteq txs']_mempoolVars

\* What add_tx verifies the next transaction of a sender against is what the sender has left: the
\* cached transactions can be executed, and executing them leaves the cached balances.
Spendable == ExpectedBalances /\ Replayable
-------------------------------------------------------------------------------
\* Small instances, for the runs.

\* PoolAccount a has a chain of transactions t0, t1, t2 and r1, which competes with
\* t1 for nonce 1; sender b has one transaction.
MCSource    == [t \in Tx |-> IF t = "u0" THEN "b" ELSE "a"]
MCNonce     == [t0 |-> 0, t1 |-> 1, t2 |-> 2, r1 |-> 1, u0 |-> 0]
MCReference == [t0 |-> 0, t1 |-> 0, t2 |-> 1, r1 |-> 0, u0 |-> 1]
Amounts1    == [t0 |-> 1, t1 |-> 1, t2 |-> 1, r1 |-> 2, u0 |-> 1]
Balance1    == [t0 |-> 3, t1 |-> 2, t2 |-> 1, r1 |-> 2, u0 |-> 1]
MCSpend     == [t \in Tx |-> [x \in {"xel"} |-> Amounts1[t]]]
MCBuiltOn   == [t \in Tx |-> [x \in {"xel"} |-> Balance1[t]]]

\* What the blocks of a chain can have executed of each sender.
RunsOfA == {{}, {"t0"}, {"t0", "t1"}, {"t0", "t1", "t2"}, {"t0", "r1"}}
FundsOf(e) == IF e = {} THEN 3 ELSE IF e = {"t0"} THEN 2
              ELSE IF e = {"t0", "t1"} THEN 1 ELSE 0

\* b is registered or not; a registered b may have sent u0.
MCStates ==
    {[nonces   |-> [a |-> Cardinality(e), b |-> n],
      funds    |-> [a |-> [x \in Asset |-> FundsOf(e)],
                    b |-> [x \in Asset |-> IF n = 0 THEN 1 ELSE 0]],
      executed |-> e \cup (IF n = 1 THEN {"u0"} ELSE {})] :
     e \in RunsOfA, n \in {NoNonce, 0, 1}}

\* Two assets: t0 and t2 spend gold as well as the native asset, t1 does not.
\* t2 ignores the gold that t0 spends.
GoldTxs      == {"t0", "t2"}
AssetsOf(t)  == IF t \in GoldTxs THEN {"xel", "gold"} ELSE {"xel"}
MCSpend2     == [t \in Tx |-> [x \in AssetsOf(t) |-> Amounts1[t]]]
MCBuiltOn2   == [t \in Tx |-> [x \in AssetsOf(t) |->
                                  IF x = "gold" THEN 3 ELSE Balance1[t]]]
=============================================================================
