------------------------------- MODULE Bootstrap -------------------------------
(* Fast sync: a node far behind asks a peer for its stable topoheight, then page
   by page for the assets, the accounts that changed since its own topoheight,
   their nonces and balances, and at last for the blocks under the stable one.
   Peers go on meanwhile: they order new blocks and prune old ones. A step may
   time out at any point, and a later attempt, with this peer or another, starts
   from what the earlier one left in the storage.

   All peers are on one chain. An item is a nonce or the balance of one asset of
   an account; what it holds is named by the topoheight of the block that wrote
   it (negative on the branch of the client). Before its first fast sync the
   client has pruned nothing, and one channel carries the answers of a peer.      *)
EXTENDS Integers, Sequences, FiniteSets, FiniteSetsExt

CONSTANTS
    Source,         \* the peers
    Moving,         \* bound: those whose chain moves during the run
    Priority,       \* those of them that are priority nodes
    AccountOrder,   \* the accounts, as the nonces tree iterates over them
    AssetOrder,     \* the assets, as their tree iterates over them
    RegisteredAt,   \* the topoheight of each asset
    Writes,         \* the items each block of the chain of the peers writes
    OwnWrites,      \* the items each block of the branch of the client writes
    MaxTopo,        \* bound: the highest stable topoheight
    MaxOurs,        \* bound: the topoheight the client starts from
    SafetyLimit,    \* PRUNE_SAFETY_LIMIT
    PageSize,       \* MAX_ITEMS_PER_PAGE
    PrunePoints,    \* bound: the topoheights a peer prunes at
    MaxAttempts     \* bound: fast syncs

ASSUME BootstrapAssumption ==
    /\ {MaxTopo, MaxOurs, MaxAttempts} \cup PrunePoints \subseteq Nat
    /\ SafetyLimit \in Nat \ {0} /\ PageSize \in Nat \ {0}

VARIABLES
    stable,     \* the stable topoheight of each peer
    prunedTo,   \* its pruned topoheight, 0 when it keeps all
    asked,      \* the requests on their way to each peer, each with the attempt it is of
    answered,   \* the responses on their way from it
    slot,       \* Peer::bootstrap_chain: somebody waits for the next response
    ours,       \* the topoheight of the client
    shared,     \* the topoheight of the last block it shares with the peers
    ownStable,  \* its own stable topoheight
    keep,       \* its pruned topoheight
    store,      \* the versions of each item the client can reach
    assets,     \* the assets it knows
    have,       \* topoheights of the blocks of the peers it holds
    step,       \* the local variables of bootstrap_chain
    previous,   \* the peer of the last attempt and whether it failed
    attempts,
    leftover,   \* the highest topoheight an attempt that failed has written
    stranded,   \* the rewind of an attempt stopped above the shared block
    late,       \* the current attempt has taken a response to a request of an earlier one
    crossed     \* such an attempt has completed

bootVars == <<stable, prunedTo, asked, answered, slot, ours, shared, ownStable, keep,
              store, assets, have, step, previous, attempts, leftover, stranded, late, crossed>>
peerVars == <<stable, prunedTo>>
wireVars == <<asked, answered, slot>>
lateVars == <<late, crossed>>
clientVars == <<ours, shared, ownStable, keep, store, assets, have, stranded>>

Nothing == -100
NoSource == "none"
Account == {AccountOrder[i] : i \in DOMAIN AccountOrder}
Asset == {AssetOrder[i] : i \in DOMAIN AssetOrder}
Item == Account \X (Asset \cup {"nonce"})
Idle == [kind |-> "idle", with |-> NoSource, target |-> 0, page |-> 0, keys |-> <<>>, more |-> FALSE, asset |-> 0]

Newest(topos) == IF topos = {} THEN Nothing ELSE Max(topos)
TopOf(p) == stable[p] + 1

(* What the peers hold for an item at a topoheight.                             *)
ValueAt(item, t) == Newest({u \in 0..t : item \in Writes[u]})

(* The versions of a client that executed t blocks, the last t - fork of them on
   a branch of its own.                                                         *)
OwnVersions(item, t, fork) ==
    {[at |-> u, val |-> u] : u \in {x \in 0..fork : item \in Writes[x]}}
        \cup {[at |-> u, val |-> -u] : u \in {x \in (fork + 1)..t : item \in OwnWrites[x]}}

-------------------------------------------------------------------------------
InitBootstrap ==
    /\ stable = [p \in Source |-> SafetyLimit + MaxOurs] /\ prunedTo = [p \in Source |-> 0]
    /\ asked = [p \in Source |-> <<>>] /\ answered = [p \in Source |-> <<>>]
    /\ slot = [p \in Source |-> FALSE]
    /\ ours \in 0..MaxOurs /\ shared \in 0..ours /\ ownStable \in 0..ours
    /\ keep = 0
    /\ store = [item \in Item |-> OwnVersions(item, ours, shared)]
    /\ assets = {x \in Asset : RegisteredAt[x] <= shared}
    /\ have = 0..shared
    /\ step = Idle /\ previous = [peer |-> NoSource, failed |-> FALSE]
    /\ attempts = 0 /\ leftover = 0 /\ stranded = FALSE
    /\ late = FALSE /\ crossed = FALSE

(* A peer orders one more block, or prunes.                                      *)
Advance(p) ==
    /\ p \in Moving /\ stable[p] < MaxTopo
    /\ stable' = [stable EXCEPT ![p] = @ + 1]
    /\ UNCHANGED <<prunedTo, wireVars, clientVars, step, previous, attempts, leftover, lateVars>>

PrunePeer(p, t) ==
    /\ p \in Moving /\ t > prunedTo[p] /\ t + SafetyLimit <= TopOf(p)
    /\ prunedTo' = [prunedTo EXCEPT ![p] = t]
    /\ UNCHANGED <<stable, wireVars, clientVars, step, previous, attempts, leftover, lateVars>>

-------------------------------------------------------------------------------
(* The peer: handle_bootstrap_chain_request.                                     *)

(* has_key_updated_in_range: pruning moves what an account has at the pruned
   topoheight there.                                                             *)
VersionTopos(p, item) ==
    {IF u < prunedTo[p] THEN prunedTo[p] ELSE u :
        u \in {x \in 0..stable[p] : item \in Writes[x]}}

UpdatedIn(p, k, low, high) ==
    \E item \in Item : item[1] = k /\ VersionTopos(p, item) \cap low..high # {}

(* Fault: the next page starts one entry too far.                                *)
PageOfFar(list, page) ==
    SubSeq(list, page * (PageSize + 1) + 1, Min({Len(list), (page + 1) * PageSize + page}))

(* get_partial_assets, get_partial_keys: skip the earlier pages, take one.       *)
PageOf(list, page) ==
    SubSeq(list, page * PageSize + 1, Min({Len(list), (page + 1) * PageSize}))

Paged(kind, list, page) ==
    LET items == PageOf(list, page)
    IN  [kind |-> kind, items |-> items, more |-> Len(items) = PageSize]

ServedTopo(p, topo) ==
    /\ prunedTo[p] < topo /\ topo <= TopOf(p) /\ topo >= SafetyLimit
    /\ topo <= stable[p]

Response(p, q) ==
    CASE q.kind = "ChainInfo" -> [kind |-> "ChainInfo", point |-> q.point, target |-> stable[p]]
      [] q.kind = "Assets" ->
            Paged("Assets", SelectSeq(AssetOrder, LAMBDA x : RegisteredAt[x] \in q.low..q.target), q.page)
      [] q.kind = "Keys" ->
            Paged("Keys", SelectSeq(AccountOrder, LAMBDA k : UpdatedIn(p, k, q.low, q.target)), q.page)
      [] q.kind \in {"Nonces", "Balances"} ->
            [kind |-> q.kind, vals |-> [i \in DOMAIN q.keys |-> ValueAt(<<q.keys[i], q.of>>, q.target)]]
      [] q.kind = "BlocksMetadata" ->
            [kind |-> "BlocksMetadata",
             topos |-> (IF q.target - SafetyLimit <= prunedTo[p] THEN prunedTo[p] + 1
                        ELSE q.target - SafetyLimit)..q.target]

(* A request the peer refuses gets no answer.                                    *)
Serve(p) ==
    /\ asked[p] # <<>>
    /\ LET q == Head(asked[p]).request
           served == q.kind = "ChainInfo" \/ ServedTopo(p, q.target)
           answer == [of |-> Head(asked[p]).of, response |-> Response(p, q)]
       IN  answered' = [answered EXCEPT ![p] = IF served THEN Append(@, answer) ELSE @]
    /\ asked' = [asked EXCEPT ![p] = Tail(@)]
    /\ UNCHANGED <<peerVars, slot, clientVars, step, previous, attempts, leftover, lateVars>>

-------------------------------------------------------------------------------
(* The client: bootstrap_chain, one request at a time (request_boostrap_chain).  *)
Ask(p, q) ==
    /\ asked' = [asked EXCEPT ![p] = Append(@, [of |-> attempts', request |-> q])]
    /\ slot' = [slot EXCEPT ![p] = TRUE]

(* chain_sync_loop and select_random_best_peer in fast sync: far enough ahead,
   with enough blocks, and not the one that just failed.                         *)
Eligible(p) ==
    /\ TopOf(p) >= SafetyLimit /\ ours + SafetyLimit <= TopOf(p)
    /\ prunedTo[p] # 0 => TopOf(p) - prunedTo[p] >= SafetyLimit

Start(p) ==
    /\ step = Idle /\ attempts < MaxAttempts
    /\ \E far \in Source : TopOf(far) > ours + SafetyLimit
    /\ Eligible(p)
    /\ previous.peer = p => /\ {x \in Source : Eligible(x)} = {p}
                            /\ previous.failed => p \in Priority
    /\ attempts' = attempts + 1
    /\ step' = [Idle EXCEPT !.kind = "ChainInfo", !.with = p]
    /\ Ask(p, [kind |-> "ChainInfo", point |-> shared, target |-> 0])
    /\ UNCHANGED <<peerVars, answered, clientVars, previous, leftover, lateVars>>

Abort ==
    /\ step' = Idle
    /\ previous' = [peer |-> step.with, failed |-> TRUE]
    /\ leftover' = Max({leftover} \cup UNION {{v.at : v \in store[item]} : item \in Item})
    /\ late' = FALSE /\ UNCHANGED crossed

Timeout ==
    /\ step # Idle /\ Abort
    /\ UNCHANGED <<peerVars, wireVars, clientVars, attempts>>

(* The versions left after a rewind to a topoheight.                             *)
RewoundTo(t) == [item \in Item |-> {v \in store[item] : v.at <= t}]

Assets(p, page, low, target) ==
    Ask(p, [kind |-> "Assets", low |-> low, target |-> target, page |-> page])
Keys(p, page) ==
    Ask(p, [kind |-> "Keys", low |-> ours, target |-> step.target, page |-> page])

(* The chain the client shares ends below its top: it rewinds, down to its stable
   topoheight unless the peer has priority.                                      *)
OnChainInfo(p, answer) ==
    LET low == IF p \in Priority \/ ownStable < shared THEN shared ELSE ownStable
    IN  /\ ours' = low /\ store' = RewoundTo(low)
        /\ ownStable' = IF ownStable > low THEN low ELSE ownStable
        /\ stranded' = (stranded \/ low > shared)
        /\ step' = [step EXCEPT !.kind = "Assets", !.target = answer.target]
        /\ Assets(p, 0, low, answer.target)
        /\ UNCHANGED <<shared, keep, assets, have>>

NextPage(page) == page + 1

OnAssets(p, answer) ==
    /\ assets' = assets \cup {answer.items[i] : i \in DOMAIN answer.items}
    /\ IF answer.more
       THEN /\ step' = [step EXCEPT !.page = NextPage(@)]
            /\ Assets(p, NextPage(step.page), ours, step.target)
       ELSE /\ step' = [step EXCEPT !.kind = "Keys", !.page = 0]
            /\ Keys(p, 0)
    /\ UNCHANGED <<ours, shared, ownStable, keep, store, have, stranded>>

OnKeys(p, answer) ==
    /\ step' = [step EXCEPT !.kind = "Nonces", !.keys = answer.items, !.more = answer.more]
    /\ Ask(p, [kind |-> "Nonces", of |-> "nonce", target |-> step.target, keys |-> answer.items])
    /\ UNCHANGED clientVars

(* set_last_nonce_to and set_last_balance_to without a previous version: older
   ones cannot be reached any more. No value is stored for a balance the account
   does not have; a nonce it does not have is 0.                                 *)
Saved(of, vals) ==
    [item \in Item |->
        LET given == {i \in DOMAIN step.keys : item = <<step.keys[i], of>> /\ vals[i] # Nothing}
        IN  IF given = {} THEN store[item]
            ELSE {[at |-> step.target, val |-> vals[i]] : i \in given}]

KnownAssets == SelectSeq(AssetOrder, LAMBDA x : x \in assets)

(* The balances of the accounts of this page, asset after asset, then the next
   page, then the blocks.                                                        *)
AfterSaved(p) ==
    IF step.asset < Len(KnownAssets)
    THEN /\ step' = [step EXCEPT !.kind = "Balances", !.asset = @ + 1]
         /\ Ask(p, [kind |-> "Balances", of |-> KnownAssets[step.asset + 1],
                    target |-> step.target, keys |-> step.keys])
    ELSE IF step.more
    THEN /\ step' = [step EXCEPT !.kind = "Keys", !.asset = 0, !.page = NextPage(@)]
         /\ Keys(p, NextPage(step.page))
    ELSE /\ step' = [step EXCEPT !.kind = "BlocksMetadata"]
         /\ Ask(p, [kind |-> "BlocksMetadata", target |-> step.target])

OnValues(p, answer) ==
    /\ store' = Saved(IF answer.kind = "Nonces" THEN "nonce" ELSE KnownAssets[step.asset], answer.vals)
    /\ AfterSaved(p)
    /\ UNCHANGED <<ours, shared, ownStable, keep, assets, have, stranded>>

Late(p) == Head(answered[p]).of # attempts

(* Blocks already in storage are skipped, the others fetched.                    *)
Fetched(topos) == topos \ have

LowestMissing(topos) ==
    IF topos \subseteq have THEN Max(topos) ELSE Min(topos \ have)

(* Snapshot at a topoheight and deletion of what is below it.                     *)
PrunedAt(t) ==
    [item \in Item |->
        LET below == {v \in store[item] : v.at <= t}
        IN  {v \in store[item] : v.at > t}
                \cup {[v EXCEPT !.at = t] : v \in {x \in below : \A y \in below : y.at <= x.at}}]

(* The blocks are fetched and saved from the highest on; then the versions under
   the lowest are pruned, and the client is at the stable topoheight.            *)
OnBlocks(answer) ==
    LET low == LowestMissing(answer.topos)
    IN  /\ have' = have \cup Fetched(answer.topos)
        /\ store' = PrunedAt(low) /\ keep' = low
        /\ ours' = step.target /\ shared' = step.target /\ ownStable' = step.target
        /\ step' = Idle /\ previous' = [peer |-> step.with, failed |-> FALSE]
        /\ late' = FALSE /\ crossed' = (crossed \/ late \/ Late(step.with))
        /\ UNCHANGED <<assets, leftover, stranded>>

(* A block cannot be fetched in time: those above it are saved.                  *)
OnBlocksFails(answer, t) ==
    /\ t \in answer.topos \ have
    /\ have' = have \cup {u \in answer.topos : u > t}
    /\ Abort
    /\ UNCHANGED <<ours, shared, ownStable, keep, store, assets, stranded>>

Enough(answer) == Cardinality(answer.topos) = SafetyLimit + 1

(* The response a waiting step takes. It is matched by its kind alone.           *)
Answer(p) == Head(answered[p]).response
Waits(p) == answered[p] # <<>> /\ step.with = p /\ slot[p]
Taken(p) == answered' = [answered EXCEPT ![p] = Tail(@)] /\ UNCHANGED <<peerVars, attempts>>
NoMore(p) == asked' = asked /\ slot' = [slot EXCEPT ![p] = FALSE]

Receive(p) ==
    /\ Waits(p) /\ Answer(p).kind = step.kind /\ Taken(p)
    /\ CASE step.kind = "ChainInfo" -> OnChainInfo(p, Answer(p))
         [] step.kind = "Assets" -> OnAssets(p, Answer(p))
         [] step.kind = "Keys" -> OnKeys(p, Answer(p))
         [] step.kind \in {"Nonces", "Balances"} -> OnValues(p, Answer(p))
         [] OTHER -> FALSE
    /\ late' = (late \/ Late(p))
    /\ UNCHANGED <<previous, leftover, crossed>>

ReceiveBlocks(p) ==
    /\ Waits(p) /\ Answer(p).kind = "BlocksMetadata" /\ step.kind = "BlocksMetadata"
    /\ Taken(p) /\ NoMore(p) /\ Enough(Answer(p))
    /\ \/ OnBlocks(Answer(p))
       \/ \E t \in Answer(p).topos : OnBlocksFails(Answer(p), t)

(* A response to another step, or too few blocks, ends the attempt.              *)
ReceiveWrong(p) ==
    /\ Waits(p) /\ Taken(p) /\ NoMore(p)
    /\ \/ Answer(p).kind # step.kind
       \/ Answer(p).kind = "BlocksMetadata" /\ ~Enough(Answer(p))
    /\ Abort /\ UNCHANGED clientVars

(* A response that comes late finds the sender of an attempt that is over, or
   none: the read task drops it.                                                 *)
Discard(p) ==
    /\ answered[p] # <<>> /\ (step.with # p \/ ~slot[p])
    /\ Taken(p) /\ NoMore(p)
    /\ UNCHANGED <<clientVars, step, previous, leftover, lateVars>>

Progress(p) == Serve(p) \/ Receive(p) \/ ReceiveBlocks(p) \/ ReceiveWrong(p)

NextBootstrap ==
    \/ Timeout
    \/ \E p \in Source :
         \/ Advance(p) \/ Start(p) \/ Discard(p) \/ Progress(p)
         \/ \E t \in PrunePoints : PrunePeer(p, t)

(* Tasks run, and a step that waits is answered or times out.                    *)
BootstrapFairness ==
    WF_bootVars(step # Idle /\ (Timeout \/ \E p \in Source : Progress(p)))

-------------------------------------------------------------------------------
(* After a fast sync the client reads, for every account, the nonce and balances
   the peers have at that topoheight: no page of accounts is skipped or cut while
   the peer orders blocks and prunes, and nothing an attempt that failed has left
   stays visible. Three cases are excluded, where the code does not promise it: an
   earlier attempt that failed had written versions above this topoheight; a
   rewind that stopped at the stable height of the client, above the last block
   it shares with its peers; and an attempt that completed with responses to the
   requests of earlier ones, each of the kind it waited for.                     *)
Exact ==
    step = Idle /\ shared = ours /\ keep # 0 /\ leftover <= ours /\ ~stranded /\ ~crossed =>
        \A item \in Item :
            Newest({v.val : v \in {x \in store[item] : \A y \in store[item] : y.at <= x.at}})
                = ValueAt(item, ours)

(* The client holds every block between its pruned topoheight and its top, also
   when earlier attempts had saved some of them (unless responses crossed, as above). *)
Anchored == keep # 0 /\ ~crossed => keep..ours \subseteq have

(* A fast sync ends: the pages come to an end while the peer goes on.            *)
AttemptEnds == (step # Idle) ~> (step = Idle)

\* A fast synchronisation that completes has the newest value of every item at its topoheight, and the
\* blocks from the pruned topoheight to the top.
FastSyncSound == Exact /\ Anchored
===============================================================================
