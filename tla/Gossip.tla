------------------------------- MODULE Gossip -------------------------------
(***************************************************************************)
(* What honest nodes tell one another once they are connected: pings with  *)
(* their height and their peers, the peers they lost, the transactions and *)
(* blocks they accepted, and the inventory of their mempool               *)
(* (p2p/mod.rs, p2p/packet/ping.rs, the shared peers of p2p/peer_list.rs).  *)
(*                                                                         *)
(* A node does not announce an object to a peer that it believes to have   *)
(* it: because they exchanged it, or because the object came from another  *)
(* peer and the two are thought to be connected (the common peers, which   *)
(* each side learns from the peer lists).  A wrong belief keeps an object  *)
(* from a node, and beliefs travel in packets that cross.                  *)
(*                                                                         *)
(* A connection is a pair of FIFO channels.  Either side may close it, and *)
(* the packets that were not read yet are lost.  The nodes are at the same *)
(* height but for a block on its way, so the distance checks of            *)
(* broadcast_tx_hash and broadcast_block stop nothing, and pings are about *)
(* the peer lists.  The directions that the object caches keep are only    *)
(* logged: a cache is a set here.                                          *)
(***************************************************************************)
EXTENDS Naturals, Sequences, FiniteSets, FiniteSetsExt

CONSTANTS
    Node,
    Links,                     \* pairs of nodes that may connect and lose their connection
    FirstLinks,                \* those that are connected at the start
    Tx, Block,                 \* sets of numbers: a mempool lists its transactions in this order
    OldTx,                     \* the transactions that every node has at the start
    P2P_PING_PEER_LIST_LIMIT,
    NOTIFY_MAX_LEN,
    MaxEvents                  \* bound on the connections opened and closed, the chain syncs, and
                               \* the transactions and blocks that come from outside

ASSUME ObjectsAssumption == Tx \intersect Block = {} /\ OldTx \subseteq Tx

\* a node does not connect to itself
ASSUME LinksAssumption == \A n \in Node : {n} \notin Links \union FirstLinks

None == "none"

VARIABLES
    conn,       \* node -> the peers of its peer list
    chan,       \* from -> to -> packets on the way
    shared,     \* node -> peer -> node -> Direction, or None: Peer::peers
    seen,       \* node -> peer -> objects: txs_cache and blocks_propagation
    awaited,    \* node -> peer -> requested_inventory
    listed,     \* node -> peers whose peer list it has read a while ago: last_peer_list
    has,        \* node -> transactions of its mempool and blocks of its chain
    casting,    \* node -> objects whose broadcast task is spawned and has not run
    pinging,    \* node -> the peers its ping loop copied, and those still to ping
    closes,     \* connections that were closed
    created,    \* transactions and blocks that came from outside
    disturbed,  \* those that met a change of the connections or a wrong belief
    blamed,     \* pairs (n, m): n counted a failure against m
    hasty,      \* those where n asked m again for what it awaited, or read two lists too close
    events

links   == <<conn, closes, disturbed, listed, hasty>>
objects == <<has, casting, created>>
vars == <<links, chan, shared, seen, awaited, objects, pinging, blamed, events>>

-----------------------------------------------------------------------------
(* The channels.  Nothing is put on the channel to a node that has closed the connection. *)
Packets(c) == {c[i] : i \in DOMAIN c}

\* send_bytes of n to the peers in the domain of to
Sent(c, n, to) ==
    [c EXCEPT ![n] = [m \in Node |-> IF m \in DOMAIN to /\ n \in conn[m] THEN @[m] \o to[m] ELSE @[m]]]

\* the read task of n takes the first packet of m
Taken(n, m) == [chan EXCEPT ![m][n] = Tail(@)]

Receives(n, m, type) == chan[m][n] # <<>> /\ Head(chan[m][n]).type = type

\* Direction::update, where None is no entry
Update(direction, new) ==
    CASE direction = None -> new
      [] {direction, new} = {"In", "Out"} -> "Both"
      [] OTHER -> direction

Updates(direction, new) == Update(direction, new) # direction

NoPing == [all |-> {}, todo |-> {}]
NobodyKnown == [p \in Node |-> None]

\* the entries of two peers that have exchanged their peer lists
Exchanged(n, m) == [p \in Node |->
    LET told  == {n, m} \in FirstLinks /\ p \notin {n, m} /\ {n, p} \in FirstLinks
        heard == {n, m} \in FirstLinks /\ p \notin {n, m} /\ {m, p} \in FirstLinks
    IN CASE told /\ heard -> "Both"
         [] told /\ ~heard -> "Out"
         [] heard /\ ~told -> "In"
         [] OTHER -> None]

\* the first nodes have been connected for a while
Init ==
    /\ conn = [n \in Node |-> {m \in Node \ {n} : {n, m} \in FirstLinks}]
    /\ shared = [n \in Node |-> [m \in Node |-> Exchanged(n, m)]]
    /\ chan = [n \in Node |-> [m \in Node |-> <<>>]]
    /\ seen = [n \in Node |-> [m \in Node |-> {}]]
    /\ awaited = [n \in Node |-> [m \in Node |-> FALSE]]
    /\ has = [n \in Node |-> OldTx] /\ casting = [n \in Node |-> {}]
    /\ pinging = [n \in Node |-> NoPing]
    /\ closes = 0 /\ events = 0
    /\ listed = conn
    /\ created = OldTx /\ disturbed = {} /\ blamed = {} /\ hasty = {}
-----------------------------------------------------------------------------
(* The connections. *)
InventoryRequest(page) == [type |-> "inventory?", page |-> page]

\* the handshake of n and m is done: each asks for the inventory of the other
Connect(n, m) ==
    /\ {n, m} \in Links
    /\ m \notin conn[n] /\ n \notin conn[m] /\ chan[n][m] = <<>> /\ chan[m][n] = <<>>
    /\ conn' = [conn EXCEPT ![n] = @ \union {m}, ![m] = @ \union {n}]
    /\ awaited' = [awaited EXCEPT ![n][m] = TRUE, ![m][n] = TRUE]
    /\ chan' = [chan EXCEPT ![n][m] = <<InventoryRequest(0)>>, ![m][n] = <<InventoryRequest(0)>>]
    /\ disturbed' = disturbed \union created
    /\ UNCHANGED <<closes, listed, shared, seen, objects, pinging, blamed, hasty>>

\* request_inventory_of, after a chain sync with m: whether or not the inventory is awaited already
request_inventory_of(n, m) ==
    /\ m \in conn[n]
    /\ awaited' = [awaited EXCEPT ![n][m] = TRUE]
    /\ chan' = Sent(chan, n, [p \in {m} |-> <<InventoryRequest(0)>>])
    /\ hasty' = IF awaited[n][m] THEN hasty \union {<<n, m>>} ELSE hasty
    /\ disturbed' = disturbed \union created
    /\ UNCHANGED <<conn, closes, listed, shared, seen, objects, pinging, blamed>>

\* the peers that n tells of the loss of m
ToldOf(n, m) == {p \in conn[n] \ {m} : shared[n][p][m] \in {"Out", "Both"}}

\* remove_peer: the connection's state goes, and those who were told of m are told of its loss
remove_peer(n, m, c) ==
    LET told == ToldOf(n, m)
    IN /\ conn' = [conn EXCEPT ![n] = @ \ {m}]
       /\ chan' = Sent(c, n, [p \in told |-> <<[type |-> "lost", addr |-> m]>>])
       /\ shared' = [shared EXCEPT ![n] = [p \in Node |->
            IF p = m THEN NobodyKnown
            ELSE IF p \in told THEN [@[p] EXCEPT ![m] = None] ELSE @[p]]]
       /\ seen' = [seen EXCEPT ![n][m] = {}]
       /\ awaited' = [awaited EXCEPT ![n][m] = FALSE]
       /\ listed' = [listed EXCEPT ![n] = @ \ {m}]
       /\ disturbed' = disturbed \union created
       /\ UNCHANGED hasty

\* n closes the connection: m reads some of what is on the way, then the end
Close(n, m) ==
    /\ {n, m} \in Links /\ m \in conn[n] /\ n \in conn[m]
    /\ closes' = closes + 1
    /\ \E k \in 0..Len(chan[n][m]) :
          remove_peer(n, m, [chan EXCEPT ![n][m] = SubSeq(@, 1, k) \o <<[type |-> "end"]>>,
                                         ![m][n] = <<>>])
    /\ UNCHANGED <<objects, pinging, blamed>>

ReadEnd(n, m) ==
    /\ Receives(n, m, "end")
    /\ remove_peer(n, m, Taken(n, m))
    /\ UNCHANGED <<closes, objects, pinging, blamed>>
-----------------------------------------------------------------------------
(* The peer lists. *)

\* the peers of a copy of the peer list that n has not shared with m yet
NewPeers(n, m, all) == {p \in all \ {m} : Updates(shared[n][m][p], "Out")}

\* peers that a ping of n would tell something; the other pings, and those into a connection that
\* the other side has closed, are left out
Uninformed(n) == {m \in conn[n] : n \in conn[m] /\ NewPeers(n, m, conn[n]) # {}}

\* the ping loop copies the peer list
PingStart(n) ==
    /\ pinging[n].todo = {} /\ Uninformed(n) # {}
    /\ pinging' = [pinging EXCEPT ![n] = [all |-> conn[n], todo |-> Uninformed(n)]]
    /\ UNCHANGED <<links, chan, shared, seen, awaited, objects, blamed>>

(* Fault: what was sent is not entered in the shared peers. *)
SharedForgotten(n, m, ps) == shared

\* n sends the addresses ps to m
SharedOut(n, m, ps) ==
    [shared EXCEPT ![n][m] = [p \in Node |-> IF p \in ps THEN Update(@[p], "Out") ELSE @[p]]]

\* and it pings the peers one after the other, with at most the limit of addresses
Ping(n, m) ==
    /\ m \in pinging[n].todo
    /\ pinging' = [pinging EXCEPT ![n] = IF @.todo = {m} THEN NoPing ELSE [all |-> @.all, todo |-> @.todo \ {m}]]
    /\ IF m \in conn[n]
       THEN LET new == NewPeers(n, m, pinging[n].all)
                limit == Min({Cardinality(new), P2P_PING_PEER_LIST_LIMIT})
            IN \E ps \in kSubset(limit, new) :
                  /\ shared' = SharedOut(n, m, ps)
                  /\ chan' = Sent(chan, n, [p \in {m} |-> <<[type |-> "ping", peers |-> ps]>>])
       ELSE UNCHANGED <<shared, chan>>
    /\ UNCHANGED <<links, seen, awaited, objects, blamed>>

\* update_peer: n receives the addresses ps from m
SharedIn(n, m, ps) ==
    [shared EXCEPT ![n][m] = [p \in Node |-> IF p \in ps THEN Update(@[p], "In") ELSE @[p]]]

\* an address that was already received is an error that leaves the rest of the list unread
HandlePing(n, m) ==
    /\ Receives(n, m, "ping")
    /\ LET ps == Head(chan[m][n]).peers
           twice == {p \in ps : ~Updates(shared[n][m][p], "In")}
       IN IF twice = {}
          THEN shared' = SharedIn(n, m, ps) /\ UNCHANGED blamed
          ELSE /\ blamed' = blamed \union {<<n, m>>}
               /\ \E read \in SUBSET (ps \ twice) : shared' = SharedIn(n, m, read)
    /\ listed' = [listed EXCEPT ![n] = @ \union {m}]
    /\ chan' = Taken(n, m)
    /\ UNCHANGED <<conn, closes, disturbed, hasty, seen, awaited, objects, pinging>>

\* PeerInvalidPeerListCountdown: the list before waited so long to be read, and this one so little,
\* that less than two thirds of the delay between two lists lie between them; it is not read
HandleEarlyPing(n, m) ==
    /\ Receives(n, m, "ping") /\ m \in listed[n]
    /\ blamed' = blamed \union {<<n, m>>}
    /\ hasty' = hasty \union {<<n, m>>}
    /\ chan' = Taken(n, m)
    /\ UNCHANGED <<conn, closes, disturbed, listed, shared, seen, awaited, objects, pinging>>

HandlePeerDisconnected(n, m) ==
    /\ Receives(n, m, "lost")
    /\ shared' = [shared EXCEPT ![n][m][Head(chan[m][n]).addr] = None]
    /\ chan' = Taken(n, m)
    /\ UNCHANGED <<links, seen, awaited, objects, pinging, blamed>>
-----------------------------------------------------------------------------
(* Transactions and blocks. *)

(* Fault: any entry counts, also a peer that n told m of. *)
get_common_peers_any(n, m) == {p \in conn[n] \ {m} : shared[n][m][p] # None}

\* peers of n that m is believed to be connected to
get_common_peers_for(n, m) == {p \in conn[n] \ {m} : shared[n][m][p] = "Both"}

\* x came from m: neither m nor a common peer is told of it again
Seen(n, m, x) ==
    LET common == get_common_peers_for(n, m)
    IN [seen EXCEPT ![n] = [p \in Node |-> IF p \in common \union {m} THEN @[p] \union {x} ELSE @[p]]]

\* what makes the common peers right, also for what is on the way, and no inventory is awaited
Truthful ==
    \A n \in Node : \A m \in conn[n] :
        /\ n \in conn[m] /\ ~awaited[n][m]
        /\ \A p \in conn[n] \ {m} :
              \/ p \in conn[m] /\ m \in conn[p]
              \/ /\ shared[n][m][p] \notin {"In", "Both"}
                 /\ \A packet \in Packets(chan[m][n]) : packet.type = "ping" => p \notin packet.peers
                 /\ p \notin pinging[m].all

\* a wallet submits a transaction to n, or a miner a block
Submit(n, x) ==
    /\ x \notin created
    /\ created' = created \union {x}
    /\ has' = [has EXCEPT ![n] = @ \union {x}]
    /\ casting' = [casting EXCEPT ![n] = @ \union {x}]
    /\ disturbed' = IF Truthful THEN disturbed ELSE disturbed \union {x}
    /\ UNCHANGED <<conn, closes, listed, hasty, chan, shared, seen, awaited, pinging, blamed>>

\* broadcast_tx_hash and broadcast_block
Broadcast(n, x) ==
    LET to == {m \in conn[n] : x \notin seen[n][m]}
    IN /\ x \in casting[n]
       /\ casting' = [casting EXCEPT ![n] = @ \ {x}]
       /\ chan' = Sent(chan, n, [m \in to |-> <<[type |-> "announce", object |-> x]>>])
       /\ seen' = [seen EXCEPT ![n] = [m \in Node |-> IF m \in to THEN @[m] \union {x} ELSE @[m]]]
       /\ UNCHANGED <<links, shared, awaited, has, created, pinging, blamed>>

\* TransactionPropagation and BlockPropagation: what n lacks is fetched from m at once (the
\* exchange is in ObjectTracker), accepted, and broadcast by a new task
HandlePropagation(n, m) ==
    /\ Receives(n, m, "announce")
    /\ LET x == Head(chan[m][n]).object
       IN /\ seen' = Seen(n, m, x)
          /\ has' = [has EXCEPT ![n] = @ \union {x}]
          /\ casting' = [casting EXCEPT ![n] = IF x \in has[n] THEN @ ELSE @ \union {x}]
    /\ chan' = Taken(n, m)
    /\ UNCHANGED <<links, shared, awaited, created, pinging, blamed>>

\* the transactions of a mempool after the first skip ones, as many as fit
PageOf(txs, skip) ==
    {x \in txs : Cardinality({y \in txs : y <= x}) \in skip + 1 .. skip + NOTIFY_MAX_LEN}

\* NotifyInventoryRequest: one page of the mempool
HandleInventoryRequest(n, m) ==
    /\ Receives(n, m, "inventory?")
    /\ LET page == Head(chan[m][n]).page
           skip == page * NOTIFY_MAX_LEN
           txs  == has[n] \intersect Tx
           part == PageOf(txs, skip)
           more == Cardinality(part) = NOTIFY_MAX_LEN /\ Cardinality(txs) > skip + NOTIFY_MAX_LEN
           answer == [type |-> "inventory", txs |-> part, next |-> IF more THEN page + 1 ELSE 0]
       IN chan' = Sent(Taken(n, m), n, [p \in {m} |-> <<answer>>])
    /\ UNCHANGED <<links, shared, seen, awaited, objects, pinging, blamed>>

\* the transactions are fetched and accepted, but not broadcast
HandleInventoryResponse(n, m) ==
    /\ Receives(n, m, "inventory")
    /\ LET packet == Head(chan[m][n])
           next == IF packet.next = 0 THEN <<>> ELSE <<InventoryRequest(packet.next)>>
       IN IF awaited[n][m]
          THEN /\ has' = [has EXCEPT ![n] = @ \union packet.txs]
               /\ awaited' = [awaited EXCEPT ![n][m] = packet.next # 0]
               /\ chan' = Sent(Taken(n, m), n, [p \in {m} |-> next])
               /\ UNCHANGED blamed
          ELSE /\ blamed' = blamed \union {<<n, m>>}
               /\ chan' = Taken(n, m)
               /\ UNCHANGED <<has, awaited>>
    /\ UNCHANGED <<links, shared, seen, casting, created, pinging>>
-----------------------------------------------------------------------------
\* what the nodes do by themselves
Run ==
    \/ \E n, m \in Node :
          \/ HandlePing(n, m) \/ HandleEarlyPing(n, m) \/ HandlePeerDisconnected(n, m) \/ ReadEnd(n, m)
          \/ HandlePropagation(n, m) \/ HandleInventoryRequest(n, m) \/ HandleInventoryResponse(n, m)
          \/ Ping(n, m)
    \/ \E n \in Node : PingStart(n) \/ \E x \in Tx \union Block : Broadcast(n, x)

\* what the users and the network do
Environment ==
    \/ \E n, m \in Node : Connect(n, m) \/ Close(n, m) \/ request_inventory_of(n, m)
    \/ \E n \in Node, x \in Tx \union Block : Submit(n, x)

Next ==
    \/ Run /\ UNCHANGED events
    \/ events < MaxEvents /\ Environment /\ events' = events + 1

\* some task of some node goes on as long as one can
Fairness == WF_vars(Run /\ UNCHANGED events)

Spec == Init /\ [][Next]_vars /\ Fairness
-----------------------------------------------------------------------------
\* every variable keeps the shape the code gives it, and a packet waits only on a connection
\* that its reader still has
TypeOK ==
    /\ \A n, m \in Node :
          /\ m \in conn[n] => m # n
          /\ shared[n][m] \in [Node -> {"In", "Out", "Both", None}]
          /\ awaited[n][m] \in BOOLEAN
          /\ chan[m][n] # <<>> => m \in conn[n]
    /\ \A n \in Node :
          /\ has[n] \subseteq created /\ casting[n] \subseteq has[n]
          /\ pinging[n].todo \subseteq pinging[n].all

\* nothing is on the way and no task has anything to do
Quiet ==
    /\ \A n, m \in Node : chan[n][m] = <<>>
    /\ \A n \in Node : casting[n] = {} /\ pinging[n] = NoPing /\ Uninformed(n) = {}

\* the nodes do not talk forever about the same things: whatever happened, they become quiet
Settles == []<>Quiet

\* as long as no connection is lost, an honest node counts a failure against another only when it
\* has itself asked again for an inventory that it awaits, or read two peer lists too close: no
\* address is shared twice, and no other inventory comes that was not asked for
HonestNotBlamed == closes = 0 => blamed \subseteq hasty

\* once the nodes are quiet, a transaction or block that was accepted by a node is known to every
\* node connected to it, unless a connection opened or closed or an inventory was asked for on the
\* way (what comes with one is not announced), or a node had a wrong belief when it was submitted
Delivered ==
    Quiet => \A x \in created \ disturbed, n \in Node : \A m \in conn[n] : x \in has[n] <=> x \in has[m]

\* as long as no connection is lost, a node ends up knowing exactly which peers it has in common
\* with a peer none of whose lists it refused
CommonPeersKnown ==
    Quiet /\ closes = 0 => \A n \in Node : \A m \in conn[n] : \A p \in Node \ {n, m} :
        <<n, m>> \in hasty \/ (shared[n][m][p] = "Both" <=> p \in conn[n] \intersect conn[m])

\* While connections last, a peer is blamed only for what the blaming node did too soon, what is
\* accepted undisturbed reaches every peer, and peers know whom they have in common, whichever way
\* pings, disconnections, chain syncs and propagations cross.
GossipSound == TypeOK /\ HonestNotBlamed /\ Delivered /\ CommonPeersKnown
=============================================================================
