------------------------------ MODULE WalletSync ------------------------------
(* A wallet and the node it is connected to: the node keeps the versions of   *)
(* the wallet's balance and chooses the one a transaction is verified against; *)
(* the wallet follows the chain through new block events and rescans, keeps    *)
(* the balances its unconfirmed transactions leave, and queues transactions.   *)
(* One account and one asset. A ciphertext is the set of the payments and      *)
(* transactions summed in it: two are equal when the same ones are.            *)
EXTENDS Naturals, FiniteSets, Sequences, SequencesExt, FiniteSetsExt

CONSTANTS MaxChain,      \* bound: blocks after genesis
          MaxTxs,       \* bound: transactions the wallet builds
          MaxLosses,    \* bound: connections lost
          MaxRescans,   \* bound: rescans
          None

ASSUME WalletAssumption ==
    MaxChain \in Nat /\ MaxTxs \in Nat /\ MaxLosses \in Nat /\ MaxRescans \in Nat

VARIABLES
    blocks,      \* node: topoheight -> [paid : BOOLEAN, txs : transactions executed]
    version,     \* node: topoheight -> version of the balance, where it changed
    mempool,     \* node: transactions of the wallet, by nonce
    events,      \* topoheight of the new block event in the channel: it holds one
    orphan,      \* transaction of the orphaned event in the channel, or None
    listening,   \* "yes", or why no event is received: "starting", "resubscribing"
    unseen,      \* history: blocks whose event was not received and that no scan has reached
    stripped,    \* history: blocks skipped because the wallet knew no asset after a rescan
    savedTxs,      \* wallet: transactions saved, with the topoheight
    changes,     \* wallet: topoheights saved as changes
    asset,       \* wallet: the asset is known
    walletBalance,     \* wallet: confirmed ciphertext, or None
    unconfirmed, \* wallet: ciphertexts left by the transactions not confirmed yet
    tx_cache,    \* wallet: nonce, reference and hash of the last transaction, or None
    nonce,       \* wallet: nonce stored
    synced,      \* wallet: synced topoheight
    syncing,     \* wallet: where the sync task is and what it holds
    builtTxs,       \* transactions built so far
    losses, rescans

node   == <<blocks, version, mempool>>
wallet == <<savedTxs, changes, asset, walletBalance, unconfirmed, tx_cache, nonce, synced>>
link   == <<events, orphan, listening, unseen, stripped>>
walletVars == <<node, wallet, link, syncing, builtTxs, losses, rescans>>

ChainTopo == 0..MaxChain
Top  == Cardinality(DOMAIN blocks) - 1
Idle == [at |-> "idle"]

Spent(t) == ToSet(blocks[t].txs)
Paid(t)  == IF blocks[t].paid THEN {<<"in", t>>} ELSE {}
Ids(txs) == {<<"tx", x.id>> : x \in txs}

-----------------------------------------------------------------------------
(* The node.                                                                   *)

VersionAt(v, t) == Max({u \in DOMAIN v : u <= t})
Outputs(v) == {u \in DOMAIN v : v[u].type # "input"}
ExecutedTxs == UNION {Spent(t) : t \in DOMAIN blocks}
NodeNonce == Cardinality(ExecutedTxs)
LastBalance == version[VersionAt(version, Top)].final

(* search_versioned_balance_for_reference and take_balance_with: the output    *)
(* balance of the last spending when the reference is below it, otherwise the  *)
(* final balance at the reference.                                             *)
SenderBalance(v, reference) ==
    LET last == Max(Outputs(v))
    IN  CASE Outputs(v) = {} -> v[VersionAt(v, reference)].final
          [] Outputs(v) # {} /\ reference < last ->
                 IF v[last].output = None THEN v[last].final ELSE v[last].output
          [] Outputs(v) # {} /\ reference >= last -> v[VersionAt(v, reference)].final

(* The transactions, in order, that verify on top of a chain with these        *)
(* versions and this nonce.                                                    *)
After(x) == x.source \cup {<<"tx", x.id>>}
Verified(v, next, txs) ==
    \A i \in 1..Len(txs) :
        /\ txs[i].nonce = next + i - 1
        /\ txs[i].source = IF i = 1 THEN SenderBalance(v, txs[1].reference) ELSE After(txs[i - 1])

(* Fault: a block that pays and spends keeps no output balance.                *)
NewVersionPlain(paid, txs) ==
    [final  |-> LastBalance \cup paid \cup Ids(ToSet(txs)),
     output |-> None,
     type   |-> IF txs = <<>> THEN "input" ELSE IF paid = {} THEN "output" ELSE "both"]


(* apply_changes: the last final balance with what the block pays and spends;  *)
(* the balance that was verified is kept as output balance when both happen.   *)
NewVersion(paid, txs) ==
    [final  |-> LastBalance \cup paid \cup Ids(ToSet(txs)),
     output |-> IF paid # {} /\ txs # <<>> THEN After(Last(txs)) ELSE None,
     type   |-> IF txs = <<>> THEN "input" ELSE IF paid = {} THEN "output" ELSE "both"]

(* The event of a block. The channel holds one event: a later one replaces it. *)
Notify(t) ==
    IF listening = "yes" THEN /\ events' = {t}
                              /\ unseen' = unseen \cup events
                         ELSE /\ UNCHANGED events
                              /\ unseen' = unseen \cup {t}

(* A block is added with the first transactions of the mempool, when they      *)
(* verify; the mempool drops the others unless all of them verify on top of it.*)
Mine(paid, count) ==
    LET txs  == SubSeq(mempool, 1, count)
        rest == SubSeq(mempool, count + 1, Len(mempool))
        t    == Top + 1
        in   == IF paid THEN {<<"in", t>>} ELSE {}
        new  == IF paid \/ txs # <<>> THEN (t :> NewVersion(in, txs)) @@ version ELSE version
        kept == Verified(new, NodeNonce + count, rest)
    IN  /\ t \in ChainTopo /\ Verified(version, NodeNonce, txs)
        /\ blocks' = (t :> [paid |-> paid, txs |-> txs]) @@ blocks
        /\ version' = new
        /\ mempool' = IF kept THEN rest ELSE <<>>
        /\ IF kept \/ listening # "yes" THEN UNCHANGED orphan
                                        ELSE \E x \in ToSet(rest) : orphan' = x.id
        /\ Notify(t)
        /\ UNCHANGED <<wallet, listening, stripped, syncing, builtTxs, losses, rescans>>

(* The mempool verifies on the balance its last transaction leaves.            *)
MempoolAccepts(x) ==
    IF mempool = <<>> THEN x.nonce = NodeNonce /\ x.source = SenderBalance(version, x.reference)
    ELSE x.nonce = Last(mempool).nonce + 1 /\ x.source = After(Last(mempool))

-----------------------------------------------------------------------------
(* The wallet's storage.                                                       *)

(* What the next transaction is built on: the nonce after the last one and the *)
(* balance it leaves, or else what is confirmed.                               *)
UnconfirmedNonce == IF tx_cache = None THEN nonce ELSE tx_cache.nonce
UnconfirmedBalance == IF unconfirmed = <<>> THEN walletBalance ELSE Last(unconfirmed)

(* Transactions and changes after the deletion of those above a topoheight.    *)
StoredUpTo(t) == {s \in savedTxs : s[2] <= t}
ChangesUpTo(t) == {c \in changes : c <= t}
HighestChangeBelow(t) == Max({0} \cup {c \in changes : c < t})

(* build_transaction: on the last unconfirmed balance and the reference of the *)
(* queue; a refused transaction clears the cache.                              *)
BuildTransaction ==
    LET x == [id        |-> builtTxs,
              nonce     |-> UnconfirmedNonce,
              reference |-> IF tx_cache = None THEN synced ELSE tx_cache.reference,
              source    |-> UnconfirmedBalance]
    IN  /\ builtTxs < MaxTxs /\ walletBalance # None
        /\ builtTxs' = builtTxs + 1
        /\ IF MempoolAccepts(x)
           THEN /\ mempool' = Append(mempool, x)
                /\ unconfirmed' = Append(unconfirmed, After(x))
                /\ tx_cache' = [nonce |-> x.nonce + 1, reference |-> x.reference, last |-> x.id]
           ELSE tx_cache' = None /\ UNCHANGED <<mempool, unconfirmed>>
        /\ UNCHANGED <<blocks, version, link, savedTxs, changes, asset, walletBalance, nonce, synced, syncing,
                       losses, rescans>>

(* set_balance_for: drop the unconfirmed balances up to the one confirmed; the *)
(* last one stays while its transaction is not processed.                      *)
Remaining(b, cache) ==
    LET hits == {i \in DOMAIN unconfirmed : unconfirmed[i] = b}
    IN  IF hits # {} THEN SubSeq(unconfirmed, Min(hits) + 1, Len(unconfirmed))
        ELSE IF cache # None /\ unconfirmed # <<>> THEN <<Last(unconfirmed)>>
        ELSE <<>>

SetBalance(b, cache) ==
    LET rest == Remaining(b, cache)
    IN  /\ walletBalance' = b
        /\ unconfirmed' = rest
        /\ tx_cache' = IF unconfirmed # <<>> /\ rest = <<>> THEN None ELSE cache

KeepBalance(cache) == tx_cache' = cache /\ UNCHANGED <<walletBalance, unconfirmed>>

(* process_block: save what is new in the block; the cache of the last         *)
(* transaction ends when it is saved. Nonce is 0 when nothing was sent.        *)
NewEntries(t) == {e \in (Paid(t) \cup Ids(Spent(t))) \X {t} : \A s \in savedTxs : s[1] # e[1]}

Process(t) ==
    LET new  == NewEntries(t)
        sent == {x \in Spent(t) : <<"tx", x.id>> \in {e[1] : e \in new}}
    IN  [stored   |-> savedTxs \cup new,
         changes  |-> changes \cup (IF new = {} THEN {} ELSE {t}),
         changed  |-> new # {},
         nonce    |-> IF sent = {} THEN 0 ELSE Max({x.nonce : x \in sent}) + 1,
         tx_cache |-> IF tx_cache # None /\ \E x \in sent : x.id = tx_cache.last
                      THEN None ELSE tx_cache]

-----------------------------------------------------------------------------
(* The sync task. Each action is what happens between two answers of the node. *)

Go(next) == syncing' = next /\ UNCHANGED <<node, builtTxs, losses, rescans>>

(* get_info, then the block of the event: the chain does not fork here, so the *)
(* synced block is still right and nothing is synced back.                     *)
SyncEvent ==
    /\ syncing.at = "idle" /\ events # {}
    /\ events' = {}
    /\ \E t \in events : Go([at |-> "event", topo |-> t, daemon |-> Top, low |-> synced])
    /\ UNCHANGED <<wallet, orphan, listening, unseen, stripped>>

(* An orphaned transaction is deleted, and the cache it is the last one of.    *)
OnOrphaned ==
    /\ syncing.at = "idle" /\ orphan # None
    /\ orphan' = None
    /\ savedTxs' = {s \in savedTxs : s[1] # <<"tx", orphan>>}
    /\ tx_cache' = IF tx_cache # None /\ tx_cache.last = orphan THEN None ELSE tx_cache
    /\ Go(syncing)
    /\ UNCHANGED <<changes, asset, walletBalance, unconfirmed, nonce, synced, events, listening, unseen,
                   stripped>>

ProcessEvent ==
    /\ syncing.at = "event"
    /\ LET p == Process(syncing.topo)
       IN  /\ savedTxs' = p.stored /\ changes' = p.changes
           /\ KeepBalance(p.tx_cache)
           /\ IF p.changed
              THEN Go([at |-> "head", daemon |-> syncing.daemon, low |-> syncing.low, new |-> FALSE,
                       nonce |-> IF p.nonce > nonce THEN p.nonce ELSE nonce])
              ELSE Go([at |-> "finish", daemon |-> syncing.daemon])
    /\ UNCHANGED <<asset, nonce, synced, link>>

(* sync_head_state: the balance as it is now, which may be of a later block.   *)
FetchHead ==
    /\ syncing.at = "head"
    /\ asset' = TRUE
    /\ Go([at |-> "apply", daemon |-> syncing.daemon, low |-> syncing.low, new |-> syncing.new,
           nonce |-> syncing.nonce, fetched |-> LastBalance])
    /\ UNCHANGED <<savedTxs, changes, walletBalance, unconfirmed, tx_cache, nonce, synced, link>>

ApplyHead ==
    /\ syncing.at = "apply"
    /\ nonce' = syncing.nonce
    /\ IF walletBalance # syncing.fetched THEN SetBalance(syncing.fetched, tx_cache) ELSE KeepBalance(tx_cache)
    /\ IF syncing.new \/ nonce # syncing.nonce \/ walletBalance # syncing.fetched
       THEN Go([at |-> "scan", daemon |-> syncing.daemon, low |-> syncing.low])
       ELSE Go([at |-> "finish", daemon |-> syncing.daemon])
    /\ UNCHANGED <<savedTxs, changes, asset, synced, link>>

(* get_balance_and_transactions of the asset, if it is known: from the last    *)
(* version down to the topoheight synced before.                               *)
ScanFrom ==
    /\ syncing.at = "scan"
    /\ LET t == VersionAt(version, Top)
       IN  IF ~asset \/ syncing.low >= t THEN Go([at |-> "finish", daemon |-> syncing.daemon])
           ELSE Go([at |-> "block", daemon |-> syncing.daemon, low |-> syncing.low, topo |-> t, top |-> t,
                    highest |-> TRUE, fetched |-> version[t].final])
    /\ UNCHANGED <<wallet, link>>

Older(t, low) == {u \in DOMAIN version : u < t /\ u > low}

ScanBlock ==
    /\ syncing.at = "block"
    /\ LET p == Process(syncing.topo)
       IN  /\ savedTxs' = p.stored /\ changes' = p.changes
           /\ IF p.changed /\ syncing.highest
              THEN /\ nonce' = IF p.nonce > nonce THEN p.nonce ELSE nonce
                   /\ IF walletBalance # syncing.fetched THEN SetBalance(syncing.fetched, p.tx_cache)
                      ELSE KeepBalance(p.tx_cache)
              ELSE KeepBalance(p.tx_cache) /\ UNCHANGED nonce
    /\ LET older == Older(syncing.topo, syncing.low)
       IN  IF older = {}
           THEN /\ Go([at |-> "finish", daemon |-> syncing.daemon])
                /\ unseen' = unseen \ ((syncing.low + 1)..syncing.top)
                /\ stripped' = stripped \ ((syncing.low + 1)..syncing.top)
           ELSE /\ Go([syncing EXCEPT !.topo = Max(older), !.highest = FALSE])
                /\ UNCHANGED <<unseen, stripped>>
    /\ UNCHANGED <<asset, synced, events, orphan, listening>>

(* The topoheight read when the sync began is stored.                          *)
Finish ==
    /\ syncing.at = "finish"
    /\ synced' = syncing.daemon
    /\ Go(Idle)
    /\ UNCHANGED <<savedTxs, changes, asset, walletBalance, unconfirmed, tx_cache, nonce, link>>

(* The events are subscribed to after the first sync, or again, by a task of*)
(* its own, once the connection is back.                                       *)
Subscribe ==
    /\ listening = "starting" => syncing.at = "idle"
    /\ listening # "yes"
    /\ listening' = "yes"
    /\ UNCHANGED <<node, wallet, events, orphan, unseen, stripped, syncing, builtTxs, losses, rescans>>

(* Events on their way are lost with the connection.                           *)
Disconnected == events' = {} /\ orphan' = None /\ unseen' = unseen \cup events

(* stop and start: the task is aborted wherever it is, and begins again.       *)
Restarted == Disconnected /\ listening' = "starting" /\ syncing' = [at |-> "locate"]

(* The connection is lost, with the events on their way, and made again: an    *)
(* idle task syncs, a syncing one fails and starts again. At topoheight 0      *)
(* everything is cleaned and fetched; above it the synced block is still       *)
(* right, so the head state is left alone and the known assets are scanned.    *)
Reconnect ==
    /\ losses < MaxLosses
    /\ losses' = losses + 1
    /\ Disconnected
    /\ listening' = IF syncing.at = "idle" /\ listening = "yes" THEN "resubscribing" ELSE "starting"
    /\ IF syncing.at = "locate" \/ (synced = 0 /\ Top # 0)
       THEN syncing' = [at |-> "locate"] /\ UNCHANGED stripped
       ELSE /\ syncing' = [at |-> "scan", daemon |-> Top, low |-> synced]
            /\ stripped' = IF asset THEN stripped ELSE stripped \cup ((synced + 1)..Top)
    /\ UNCHANGED <<node, wallet, builtTxs, rescans>>

(* rescan: the task is stopped wherever it is, balances are dropped, and it    *)
(* starts again. The nonce is asked for on the connection that stop closed, so *)
(* the default is stored.                                                      *)
Rescan(t) ==
    /\ rescans < MaxRescans /\ t <= synced
    /\ rescans' = rescans + 1
    /\ synced' = t
    /\ asset' = FALSE /\ walletBalance' = None /\ unconfirmed' = <<>> /\ tx_cache' = None
    /\ nonce' = 0
    /\ savedTxs' = IF t = 0 THEN {} ELSE StoredUpTo(t)
    /\ Restarted
    /\ UNCHANGED <<node, changes, stripped, builtTxs, losses>>

(* locate_sync_topoheight_and_clean without a known top block: the highest     *)
(* change below the synced topoheight.                                         *)
Locate ==
    /\ syncing.at = "locate"
    /\ LET low == HighestChangeBelow(synced)
       IN  /\ changes' = ChangesUpTo(low) \cup {low}
           /\ savedTxs' = IF changes # ChangesUpTo(low) THEN StoredUpTo(low) ELSE savedTxs
           /\ synced' = low
           /\ Go([at |-> "head", daemon |-> Top, low |-> low, new |-> TRUE, nonce |-> NodeNonce])
    /\ UNCHANGED <<asset, walletBalance, unconfirmed, tx_cache, nonce, link>>

-----------------------------------------------------------------------------
InitWallet ==
    /\ blocks = [t \in {0} |-> [paid |-> FALSE, txs |-> <<>>]]
    /\ version = [t \in {0} |-> [final |-> {}, output |-> None, type |-> "input"]]
    /\ mempool = <<>>
    /\ events = {} /\ orphan = None /\ listening = "yes" /\ unseen = {} /\ stripped = {}
    /\ savedTxs = {} /\ changes = {0} /\ asset = TRUE /\ walletBalance = {}
    /\ unconfirmed = <<>> /\ tx_cache = None /\ nonce = 0 /\ synced = 0
    /\ syncing = Idle /\ builtTxs = 0 /\ losses = 0 /\ rescans = 0

SyncTask ==
    SyncEvent \/ OnOrphaned \/ ProcessEvent \/ FetchHead \/ ApplyHead \/ ScanFrom \/ ScanBlock
    \/ Finish \/ Subscribe \/ Locate

NextWallet ==
    \/ \E paid \in BOOLEAN, count \in 0..Len(mempool) : Mine(paid, count)
    \/ BuildTransaction
    \/ SyncTask
    \/ Reconnect
    \/ \E t \in ChainTopo : Rescan(t)

-----------------------------------------------------------------------------
(* Types of the wallet's storage and of the sync task.                         *)
WalletTypeOK ==
    /\ DOMAIN blocks = 0..Top /\ Top \in ChainTopo
    /\ DOMAIN version \subseteq 0..Top
    /\ nonce \in 0..MaxTxs /\ synced \in 0..Top
    /\ changes \subseteq 0..Top
    /\ \A s \in savedTxs : s[2] \in 0..Top
    /\ syncing.at \in {"idle", "event", "head", "apply", "scan", "block", "finish", "locate"}
    /\ Len(unconfirmed) <= MaxTxs
    /\ events \subseteq 1..Top /\ Cardinality(events) <= 1

(* A payment above the reference was followed by a block that only spent.      *)
Buried(v, bs, reference) ==
    LET since == {u \in Outputs(v) : u > reference}
    IN  /\ since # {} /\ v[Max(since)].type = "output"
        /\ \E u \in (reference + 1)..Max(since) : bs[u].paid

Entries(ts) == UNION {Paid(t) \cup Ids(Spent(t)) : t \in ts}

(* Nothing is lost in the final balance: whatever balance a transaction was    *)
(* verified against, the last version holds every payment and every            *)
(* transaction executed, once.                                                 *)
Conservation == LastBalance = Entries(DOMAIN blocks)

(* Front running: a block drops no transaction queued in the mempool because   *)
(* of payments that arrived after its reference: wherever they and the earlier *)
(* transactions of the queue were executed, the version it is verified against *)
(* is still the one it was built on. One case is excepted, in which the queue  *)
(* can be dropped: after a payment, a block that paid nothing executed earlier *)
(* transactions of the queue. Such a version keeps no output balance, although *)
(* apply_changes means transactions of one reference to stay valid.            *)
FrontRunSafe ==
    [][\A t \in DOMAIN blocks' \ DOMAIN blocks :
          LET n == Len(blocks'[t].txs)
          IN  Len(mempool) > n /\ ~Buried(version', blocks', mempool[n + 1].reference)
              => Len(mempool') = Len(mempool) - n]_walletVars

Quiet == syncing.at = "idle" /\ listening = "yes" /\ events = {} /\ orphan = None

(* Following the chain: once the wallet is idle and no event waits, it has     *)
(* saved every transaction and payment at its topoheight, but for two kinds of *)
(* blocks: those whose event was replaced in the channel, or sent while nobody *)
(* listened, and that no scan has reached since; and those skipped because the *)
(* connection was lost between a rescan and the fetching of the assets.        *)
Complete ==
    /\ \A s \in savedTxs : s[1] \in Entries({s[2]})
    /\ Quiet => Entries(DOMAIN blocks \ (unseen \cup stripped)) \subseteq {s[1] : s \in savedTxs}

(* The balance is the balance of the chain under the same condition, when no   *)
(* connection was lost: one lost after a block was saved and before the        *)
(* balance was fetched leaves the old balance.                                 *)
BalanceFollows ==
    Quiet /\ losses = 0 /\ VersionAt(version, Top) \notin unseen => walletBalance = LastBalance

=============================================================================
