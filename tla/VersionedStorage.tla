--------------------------- MODULE VersionedStorage ---------------------------
(* The versioned trees of the sled storage: a version of each balance and     *)
(* nonce per topoheight that changed it, linked to the version before, a      *)
(* pointer per account to its last version, and the registrations, under      *)
(* block execution, DAG reordering, rewind and pruning. The chain calls them  *)
(* with the storage locked for writing, so every operation is one action.     *)
(* A balance is the set of the blocks that changed it (amounts are            *)
(* ciphertexts), and the native asset is the only one the chain registers.    *)
EXTENDS Integers, FiniteSets, SequencesExt

CONSTANTS Account, Block, NoAccount,
          Miner, From, To,        \* who a block pays, who sends in it, to whom
          Genesis,                \* the block at topoheight 0
          PRUNE_SAFETY_LIMIT,     \* blocks kept above a pruned topoheight
          MaxTopo,                \* bound: highest topoheight
          ReorgDepth              \* bound: blocks below the top a reordering undoes

ASSUME StorageAssumption ==
    /\ PRUNE_SAFETY_LIMIT \in Nat /\ MaxTopo \in Nat /\ ReorgDepth \in Nat
    /\ IsFiniteSet(Account)
    /\ Genesis \in Block /\ NoAccount \notin Account
    /\ Miner \in [Block -> Account]
    /\ From \in [Block -> Account \cup {NoAccount}]
    /\ To \in [Block -> SUBSET Account]

VARIABLES
    hash_at_topo,   \* topoheight -> block, without the pruned ones
    top,            \* top topoheight
    pruned,         \* pruned topoheight, 0 when there is none
    db              \* the trees, as in EmptyDb

storageVars == <<hash_at_topo, top, pruned, db>>

NoTopo == -1
Topo == 0..MaxTopo

(* Tree::insert of the entries of new.                                         *)
Insert(tree, new) ==
    [x \in DOMAIN tree \cup DOMAIN new |-> IF x \in DOMAIN new THEN new[x] ELSE tree[x]]

(* A versioned tree: last is the tree of pointers (balances, nonces) and ver   *)
(* the tree of versions (versioned_balances, versioned_nonces).                *)
NoTree == [last |-> <<>>, ver |-> <<>>]
EmptyDb == [balances |-> NoTree, nonces |-> NoTree, accounts_count |-> 0,
            registrations |-> <<>>, registrations_prefixed |-> {}]

Versions(tree, k) == {t \in Topo : <<t, k>> \in DOMAIN tree.ver}

(* The version found from version t down the links, the first one at or below *)
(* the maximum.                                                               *)
Search(tree, k, start, maximum) ==
    LET found[t \in Versions(tree, k) \cup {NoTopo}] ==
            IF t = NoTopo \/ t <= maximum THEN t
            ELSE found[tree.ver[<<t, k>>].prev]
    IN  found[start]

(* get_balance_at_maximum_topoheight, get_nonce_at_maximum_topoheight.        *)
AtMaximum(tree, k, maximum) ==
    IF k \notin DOMAIN tree.last THEN NoTopo
    ELSE IF <<maximum, k>> \in DOMAIN tree.ver THEN maximum
    ELSE Search(tree, k, tree.last[k], maximum)

Value(tree, k, maximum, default) ==
    LET t == AtMaximum(tree, k, maximum)
    IN  IF t = NoTopo THEN default ELSE tree.ver[<<t, k>>].value

(* set_last_balance_to, set_last_nonce_to for the accounts with a new version.  *)
SetLast(tree, t, new) ==
    [last |-> Insert(tree.last, [k \in DOMAIN new |-> t]),
     ver  |-> Insert(tree.ver, [p \in {t} \X DOMAIN new |-> new[p[2]]])]

(* set_account_registration_topoheight, both trees.                           *)
Register(d, K, t) ==
    [d EXCEPT !.registrations = Insert(@, [k \in K |-> t]),
              !.registrations_prefixed =
                  (@ \ {<<d.registrations[k], k>> : k \in K \cap DOMAIN d.registrations})
                     \cup {t} \X K]

RegisteredBelow(d, k, t) ==
    /\ k \in DOMAIN d.registrations
    /\ <<d.registrations[k], k>> \in d.registrations_prefixed
    /\ d.registrations[k] < t

-----------------------------------------------------------------------------
(* Block execution: ChainState.                                               *)

(* The sender's account is created from its nonce; without one the transaction *)
(* is not executed.                                                           *)
Runs(d, t, b) == From[b] # NoAccount /\ AtMaximum(d.nonces, From[b], t) # NoTopo

NewBalance(tree, k, t, b) ==
    [value |-> Value(tree, k, t, {}) \cup {b}, prev |-> AtMaximum(tree, k, t)]

NewNonce(tree, k, t) ==
    [value |-> Value(tree, k, t, 0) + 1, prev |-> AtMaximum(tree, k, t)]

SaveNonces(d, t, new) ==
    [d EXCEPT !.nonces = SetLast(@, t, new),
              !.accounts_count = @ + Cardinality(DOMAIN new \ DOMAIN d.nonces.last)]

Touched(d, t, b) == {Miner[b]} \cup (IF Runs(d, t, b) THEN To[b] \cup {From[b]} ELSE {})

(* apply_changes: the senders' nonces, then every account with a new balance,  *)
(* which gets a nonce and a registration when it has none.                     *)
Execute(d, t, b) ==
    LET touched == Touched(d, t, b)
        senders == IF Runs(d, t, b) THEN {From[b]} ELSE {}
        sent    == SaveNonces(d, t, [k \in senders |-> NewNonce(d.nonces, k, t)])
        paid    == [sent EXCEPT !.balances =
                       SetLast(@, t, [k \in touched |-> NewBalance(d.balances, k, t, b)])]
        known   == SaveNonces(paid, t, [k \in touched \ DOMAIN paid.nonces.last |->
                                           [value |-> 0, prev |-> NoTopo]])
    IN  Register(known, {k \in touched : ~RegisteredBelow(known, k, t)}, t)

(* The blocks executed one after the other above topoheight keep.              *)
Executed(d, keep, blocks) ==
    LET at[i \in 0..Len(blocks)] ==
            IF i = 0 THEN d ELSE Execute(at[i - 1], keep + i, blocks[i])
    IN  at[Len(blocks)]

-----------------------------------------------------------------------------
(* Reordering: the versions of the topoheights that change are deleted, lowest *)
(* first, and the blocks are executed again.                                   *)

Moved(tree, t) ==
    {k \in DOMAIN tree.last : <<t, k>> \in DOMAIN tree.ver /\ tree.last[k] >= t}
Emptied(tree, t) == {k \in Moved(tree, t) : tree.ver[<<t, k>>].prev = NoTopo}

DeleteVersionsAt(tree, t) ==
    [last |-> [k \in DOMAIN tree.last \ Emptied(tree, t) |->
                  IF k \in Moved(tree, t) THEN tree.ver[<<t, k>>].prev ELSE tree.last[k]],
     ver  |-> Restrict(tree.ver, {p \in DOMAIN tree.ver : p[1] # t})]

(* Fault: the account keeps the topoheight of a registration that is deleted.  *)
DeleteRegistrationsAtPrefix(d, t) ==
    [d EXCEPT !.registrations_prefixed = {p \in @ : p[1] # t}]

DeleteRegistrationsAt(d, t) ==
    LET gone == {p \in d.registrations_prefixed : p[1] = t}
    IN  [d EXCEPT !.registrations_prefixed = @ \ gone,
                  !.registrations = Restrict(@, DOMAIN @ \ {p[2] : p \in gone})]

DeleteAt(d, t) ==
    DeleteRegistrationsAt(
        [d EXCEPT !.balances = DeleteVersionsAt(@, t),
                  !.nonces = DeleteVersionsAt(@, t),
                  !.accounts_count = @ - Cardinality(Emptied(d.nonces, t))], t)

(* The n topoheights above keep, lowest first.                                 *)
Undone(d, keep, n) ==
    LET at[i \in 0..n] == IF i = 0 THEN d ELSE DeleteAt(at[i - 1], keep + i)
    IN  at[n]

-----------------------------------------------------------------------------
(* Rewind: every pointer above the new top walks down to the version it keeps. *)

KeptBelow(tree, t) ==
    [k \in DOMAIN tree.last |->
        IF tree.last[k] <= t THEN tree.last[k] ELSE Search(tree, k, tree.last[k], t)]

RewindTree(tree, t) ==
    LET kept == KeptBelow(tree, t)
    IN  [last |-> Restrict(kept, {k \in DOMAIN kept : kept[k] # NoTopo}),
         ver  |-> Restrict(tree.ver, {p \in DOMAIN tree.ver : p[1] <= t})]

RewindDb(d, t) ==
    LET nonces == RewindTree(d.nonces, t)
        gone   == {p \in d.registrations_prefixed : p[1] > t}
    IN  [balances |-> RewindTree(d.balances, t),
         nonces   |-> nonces,
         accounts_count |-> d.accounts_count
                            - Cardinality(DOMAIN d.nonces.last \ DOMAIN nonces.last),
         registrations |-> Restrict(d.registrations,
                               DOMAIN d.registrations \ {p[2] : p \in gone}),
         registrations_prefixed |-> d.registrations_prefixed \ gone]

(* Where pop_blocks stops: count blocks below the top, but not under the safety *)
(* limit above a pruned topoheight nor under the stable topoheight.            *)
LowestTopo(count, stable) ==
    IF pruned # 0 /\ top - count <= pruned + PRUNE_SAFETY_LIMIT /\ stable # 0
    THEN pruned + PRUNE_SAFETY_LIMIT
    ELSE top - count

-----------------------------------------------------------------------------
(* Pruning: the version every account has at the topoheight is moved there.    *)

(* Fault: the snapshot takes the last version, above the topoheight or not.    *)
BumpedNewest(tree, k, t) ==
    IF Search(tree, k, tree.last[k], t) = NoTopo THEN NoTopo ELSE tree.last[k]

Bumped(tree, k, t) == Search(tree, k, tree.last[k], t)

Snapshot(tree, t) ==
    LET bumped == {k \in DOMAIN tree.last : Bumped(tree, k, t) # NoTopo}
        moved  == [p \in {t} \X bumped |->
                      [value |-> tree.ver[<<Bumped(tree, p[2], t), p[2]>>].value, prev |-> NoTopo]]
        links  == [p \in {q \in DOMAIN tree.ver : q[1] > t} |->
                      [tree.ver[p] EXCEPT !.prev = IF @ # NoTopo /\ @ <= t THEN t ELSE @]]
    IN  [last |-> [k \in DOMAIN tree.last |-> IF tree.last[k] <= t THEN t ELSE tree.last[k]],
         ver  |-> Insert(Insert(tree.ver, links), moved)]

DeleteVersionsBelow(tree, t) ==
    [tree EXCEPT !.ver = Restrict(@, {p \in DOMAIN @ : p[1] >= t})]

SnapshotRegistrations(d, t) ==
    LET old == {k \in DOMAIN d.registrations : d.registrations[k] <= t}
    IN  [d EXCEPT !.registrations = Insert(@, [k \in old |-> t]),
                  !.registrations_prefixed =
                      (@ \ {<<d.registrations[k], k>> : k \in old}) \cup {t} \X old]

DeleteRegistrationsBelow(d, t) ==
    LET gone == {k \in DOMAIN d.registrations : d.registrations[k] < t}
    IN  [d EXCEPT !.registrations = Restrict(@, DOMAIN @ \ gone),
                  !.registrations_prefixed = @ \ {<<d.registrations[k], k>> : k \in gone}]

PruneDb(d, t) ==
    DeleteRegistrationsBelow(
        SnapshotRegistrations(
            [d EXCEPT !.balances = DeleteVersionsBelow(Snapshot(@, t), t),
                      !.nonces = DeleteVersionsBelow(Snapshot(@, t), t)], t), t)

-----------------------------------------------------------------------------
InitStorage ==
    /\ hash_at_topo = [t \in {0} |-> Genesis]
    /\ top = 0
    /\ pruned = 0
    /\ db = Execute(EmptyDb, 0, Genesis)

(* A block enters the DAG and the order above topoheight keep changes: the     *)
(* old topoheights are undone and the new ones executed.                       *)
AddBlock(keep, blocks) ==
    /\ keep + ReorgDepth >= top
    /\ keep + Len(blocks) \in Topo
    /\ db' = Executed(Undone(db, keep, top - keep), keep, blocks)
    /\ hash_at_topo' = [t \in (DOMAIN hash_at_topo \ (keep + 1)..top)
                            \cup (keep + 1)..(keep + Len(blocks)) |->
                           IF t <= keep THEN hash_at_topo[t] ELSE blocks[t - keep]]
    /\ top' = keep + Len(blocks)
    /\ UNCHANGED pruned

(* pop_blocks.                                                                 *)
PopBlocks(count, stable) ==
    LET lowest == LowestTopo(count, stable)
        low    == IF lowest >= stable THEN lowest ELSE stable
        over   == pruned # 0 /\ low < pruned
        newTop == IF over THEN 0 ELSE IF low >= top THEN top ELSE low
    IN  /\ top >= count
        /\ top' = newTop
        /\ pruned' = IF over THEN 0 ELSE pruned
        /\ hash_at_topo' = Restrict(hash_at_topo, {t \in DOMAIN hash_at_topo : t <= newTop})
        /\ db' = RewindDb(db, newTop)

(* 1 keeps the genesis block.                                                  *)
LastPruned == IF pruned = 0 THEN 1 ELSE pruned

(* prune_until_topoheight_for_storage; located is the nearest sync block at or *)
(* below the topoheight asked for.                                             *)
PruneUntil(topoheight, located) ==
    /\ topoheight # 0
    /\ topoheight < top /\ top - topoheight >= PRUNE_SAFETY_LIMIT
    /\ topoheight >= LastPruned
    /\ located > LastPruned
    /\ db' = PruneDb(db, located)
    /\ hash_at_topo' = Restrict(hash_at_topo, DOMAIN hash_at_topo \ LastPruned..(located - 1))
    /\ pruned' = located
    /\ UNCHANGED top

(* The blocks that may follow topoheight keep, which is the last one the new   *)
(* order does not change.                                                      *)
Orders(keep) ==
    LET free == Block \ {hash_at_topo[t] : t \in {u \in DOMAIN hash_at_topo : u <= keep}}
    IN  {s \in SeqOf(free, ReorgDepth + 1) :
            s # <<>> /\ IsInjective(s) /\ (keep = top \/ s[1] # hash_at_topo[keep + 1])}

NextStorage ==
    \/ \E keep \in pruned..top : \E blocks \in Orders(keep) : AddBlock(keep, blocks)
    \/ \E count \in 1..MaxTopo, stable \in 0..top : PopBlocks(count, stable)
    \/ \E topoheight \in 1..MaxTopo : \E located \in 0..topoheight :
          PruneUntil(topoheight, located)

StorageSpec == InitStorage /\ [][NextStorage]_storageVars

-----------------------------------------------------------------------------
IsTree(tree, Values) ==
    /\ DOMAIN tree.last \subseteq Account
    /\ \A k \in DOMAIN tree.last : tree.last[k] \in Topo
    /\ DOMAIN tree.ver \subseteq Topo \X Account
    /\ \A p \in DOMAIN tree.ver :
          tree.ver[p].value \in Values /\ tree.ver[p].prev \in Topo \cup {NoTopo}

(* Types: topoheights, trees of versions and the cached count of accounts.     *)
StorageTypeOK ==
    /\ top \in Topo /\ pruned \in 0..top
    /\ DOMAIN hash_at_topo = {0} \cup (IF pruned = 0 THEN 1 ELSE pruned)..top
    /\ \A t \in DOMAIN hash_at_topo : hash_at_topo[t] \in Block
    /\ IsTree(db.balances, SUBSET Block)
    /\ IsTree(db.nonces, Nat)
    /\ db.accounts_count \in Nat
    /\ DOMAIN db.registrations \subseteq Account
    /\ db.registrations_prefixed \subseteq Topo \X Account

LinkedTree(tree) ==
    \A k \in Account :
        /\ k \in DOMAIN tree.last <=> Versions(tree, k) # {}
        /\ k \in DOMAIN tree.last => tree.last[k] = Max(Versions(tree, k))
        /\ \A t \in Versions(tree, k) :
              /\ t \in pruned..top
              /\ tree.ver[<<t, k>>].prev =
                    LET below == {u \in Versions(tree, k) : u < t}
                    IN  IF below = {} THEN NoTopo ELSE Max(below)

(* Links: after any mix of reordering, rewind and pruning the pointer of an    *)
(* account is its highest version and every version links to the next lower    *)
(* one that exists, so that no walk can end in a deleted version, skip one or  *)
(* loop; accounts have a nonce as soon as they have a balance, and the cached  *)
(* accounts_count is their number.                                             *)
Linked ==
    /\ LinkedTree(db.balances) /\ LinkedTree(db.nonces)
    /\ DOMAIN db.nonces.last = DOMAIN db.balances.last
    /\ db.accounts_count = Cardinality(DOMAIN db.nonces.last)

(* Registrations: an account is registered at the topoheight of the first      *)
(* balance that is stored for it, in both trees, whatever was undone, popped   *)
(* or pruned since.                                                            *)
Registered ==
    /\ DOMAIN db.registrations = DOMAIN db.balances.last
    /\ \A k \in DOMAIN db.registrations :
          db.registrations[k] = Min(Versions(db.balances, k))
    /\ db.registrations_prefixed =
          {<<db.registrations[k], k>> : k \in DOMAIN db.registrations}

(* has_key_updated_in_range: what a node that serves a fast sync looks for.    *)
FoundFrom(tree, k, start, low, high) ==
    LET t == Search(tree, k, start, high) IN t # NoTopo /\ t >= low

UpdatedInRange(k, low, high) ==
    /\ k \in DOMAIN db.nonces.last
    /\ \/ FoundFrom(db.nonces, k, db.nonces.last[k], low, high)
       \/ FoundFrom(db.balances, k, db.balances.last[k], low, high)

(* Fast sync: the keys found in a range of topoheights are exactly those with  *)
(* a version in it, so that no account that changed is left out.               *)
RangeComplete ==
    \A k \in Account :
        LET changed == Versions(db.balances, k) \cup Versions(db.nonces, k)
        IN  \A low, high \in Topo :
                low <= high => (UpdatedInRange(k, low, high) <=> changed \cap low..high # {})

(* The ledger a reader sees at every topoheight that is not pruned.            *)
ReadLedger ==
    [t \in pruned..top |-> [k \in Account |->
        [balance |-> Value(db.balances, k, t, {}), nonce |-> Value(db.nonces, k, t, -1)]]]

Promised == INSTANCE History WITH ledger <- ReadLedger

(* Implementation: what readers see through the pointers and versions is a     *)
(* history of executed blocks that only grows at its end, is cut at its end by *)
(* a reordering or a rewind and at its beginning by pruning.                   *)
Implements == Promised!Spec

\* The versions of every account are linked, registrations name the first version that is kept, and the
\* search for keys updated in a range, which follows the links, misses no version.
StorageSound == StorageTypeOK /\ Linked /\ Registered /\ RangeComplete
=============================================================================
