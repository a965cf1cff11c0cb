----------------------------- MODULE PeerLifecycle -----------------------------
(* The connections of one node: how they come in and go out, the handshake in
   its own task, the main task that lists the new peer and spawns its two tasks,
   and the ways a connection ends: each task on its own, the operator (kick,
   blacklist, clear), a peer that misbehaves. Several of them may close the same
   connection at once, and each one does it in steps that others can cut into.

   A peer (Node) is its identity, its ip and its listening address in one; it
   opens a connection only when it holds none that works. Conn numbers the TCP
   connections of the run. Which addresses are allowed is kept by the stored
   peers at the end: until there any may be. What peers send each other about their lists is in Gossip,
   the keys of a connection after them.                                         *)
EXTENDS Naturals, Sequences, FiniteSets

CONSTANTS
    Node,
    MaxPeers,
    MaxConns,           \* bound: TCP connections
    MaxEvents           \* bound: commands of the operator, and connections that break

ASSUME LifecycleAssumption == MaxPeers \in Nat /\ MaxConns \in Nat /\ MaxEvents \in Nat

VARIABLES
    conn,       \* the connections made so far
    dialing,    \* the connection the outgoing task is waiting for, or Unlisted
    peers,      \* PeerList::peers: the connection listed for each peer, or Unlisted
    w, r, a,    \* where the write task, the read task and the operator are
    exitW, exitR,   \* an exit message waits in the receiver of that task
    events,     \* commands the operator gave and connections that broke
    overtaken,  \* closed by somebody else between the signal and the check of a closer
    displaced,  \* removed from the list by the closer of an older connection
    unheard     \* signalled before their tasks had subscribed

lifecycleVars ==
    <<conn, dialing, peers, w, r, a, exitW, exitR, events, overtaken, displaced, unheard>>
tasks == <<w, r, a, exitW, exitR, events, overtaken, displaced, unheard>>

Conn == 1..MaxConns
Unlisted == 0
Opened == DOMAIN conn
Listed == {n \in Node : peers[n] # Unlisted}
Serves(c) == c \in Opened /\ conn[c].stage = "served"
Ended(c) == Serves(c) /\ w[c] = "end" /\ r[c] = "end"

accept_new_connections == Cardinality(Listed) < MaxPeers

-------------------------------------------------------------------------------
InitLifecycle ==
    /\ conn = <<>> /\ dialing = Unlisted
    /\ peers = [n \in Node |-> Unlisted]
    /\ w = [c \in Conn |-> "none"] /\ r = [c \in Conn |-> "none"] /\ a = [c \in Conn |-> "idle"]
    /\ exitW = {} /\ exitR = {}
    /\ events = 0
    /\ overtaken = {} /\ displaced = {} /\ unheard = {}

Open(n, c) ==
    /\ c = Cardinality(Opened) + 1 /\ c <= MaxConns
    /\ conn' = [i \in Opened \cup {c} |->
                  IF i = c THEN [node |-> n, stage |-> "handshake", closed |-> FALSE, gone |-> FALSE]
                  ELSE conn[i]]

(* The other side has no connection to this node that it believes to work.      *)
Free(n) ==
    \A c \in Opened : conn[c].node = n =>
        conn[c].closed \/ conn[c].gone \/ conn[c].stage = "handshake"

(* handle_incoming_connection: the address of an incoming connection has a port
   of its own, so it is never the address of a listed peer.                     *)
Incoming(n) ==
    /\ Free(n) /\ accept_new_connections
    /\ \E c \in Conn : Open(n, c)
    /\ UNCHANGED <<dialing, peers, tasks>>

(* handle_outgoing_connections and connect_to_peer, one connection at a time,
   asked for by the task that keeps up with the seed nodes or by peerlist_loop. *)
Outgoing(n) ==
    /\ dialing = Unlisted /\ accept_new_connections /\ peers[n] = Unlisted
    /\ \E c \in Conn : Open(n, c) /\ dialing' = c
    /\ UNCHANGED <<peers, tasks>>

HandshakeOver(c, stage) ==
    /\ c \in Opened /\ conn[c].stage = "handshake"
    /\ conn' = [conn EXCEPT ![c].stage = stage, ![c].closed = (stage = "refused")]
    /\ dialing' = IF dialing = c THEN Unlisted ELSE dialing
    /\ UNCHANGED <<peers, tasks>>

(* create_verified_peer: verify_handshake refuses an id in use; any other refusal,
   or a peer that does not answer in time, ends the same way.                   *)
Handshake(c) ==
    \/ HandshakeOver(c, "refused")
    \/ peers[conn[c].node] = Unlisted /\ HandshakeOver(c, "verified")

(* add_peer, under the lock of the list.                                        *)
Accepts(n) == Cardinality(Listed) < MaxPeers /\ peers[n] = Unlisted

(* The main task: handle_new_peer lists the peer and handle_connection spawns
   its tasks; a peer that cannot be listed is closed.                           *)
NewPeer(c) ==
    LET n == conn[c].node
    IN  /\ c \in Opened /\ conn[c].stage = "verified"
        /\ IF Accepts(n)
           THEN /\ peers' = [peers EXCEPT ![n] = c]
                /\ conn' = [conn EXCEPT ![c].stage = "served"]
                /\ w' = [w EXCEPT ![c] = "spawned"] /\ r' = [r EXCEPT ![c] = "spawned"]
           ELSE /\ conn' = [conn EXCEPT ![c].stage = "refused", ![c].closed = TRUE]
                /\ UNCHANGED <<peers, w, r>>
        /\ UNCHANGED <<dialing, a, exitW, exitR, events, overtaken, displaced, unheard>>

(* A command of the operator, or the start of trouble on a connection.          *)
Event == events < MaxEvents /\ events' = events + 1

(* The other side ends the connection.                                          *)
Gone(c) ==
    /\ Event
    /\ c \in Opened /\ ~conn[c].gone /\ conn[c].stage = "served"
    /\ conn' = [conn EXCEPT ![c].gone = TRUE]
    /\ UNCHANGED <<dialing, peers, w, r, a, exitW, exitR, overtaken, displaced, unheard>>

-------------------------------------------------------------------------------
(* The steps all closers share. A message sent to exit_channel reaches the tasks
   that listen: one that has not subscribed yet never sees it.                  *)
Signal(c) ==
    /\ exitW' = IF w[c] = "loop" THEN exitW \cup {c} ELSE exitW
    /\ exitR' = IF r[c] \in {"loop", "unlist"} THEN exitR \cup {c} ELSE exitR
    /\ unheard' = IF w[c] = "spawned" /\ r[c] = "spawned" THEN unheard \cup {c} ELSE unheard

(* The same from a task that has left its loop, and listens no more.            *)
SignalOthers(c, task) ==
    /\ exitW' = IF task # "w" /\ w[c] = "loop" THEN exitW \cup {c} ELSE exitW \ {c}
    /\ exitR' = IF task # "r" /\ r[c] \in {"loop", "unlist"} THEN exitR \cup {c} ELSE exitR \ {c}
    /\ UNCHANGED unheard

(* remove_peer, by the id of the peer of c.                                     *)
remove_peer(c) ==
    LET n == conn[c].node
    IN  /\ peers' = [peers EXCEPT ![n] = Unlisted]
        /\ displaced' = IF peers[n] \in {Unlisted, c} THEN displaced
                        ELSE displaced \cup {peers[n]}

CloseConnection(c) == conn' = [conn EXCEPT ![c].closed = TRUE]

(* Fault: the connection is closed, and the list left as it is.                 *)
CloseUnremoved(c) == UNCHANGED <<peers, displaced>>

CloseRemoves(c) == remove_peer(c)

(* close_internal by whoever is at pc[c]. It signals (with the step that leads to
   it), looks whether somebody closed the connection already, and if not removes
   the peer and closes the connection.                                          *)
CloseInternal(pc, c) ==
    \/ /\ pc[c] = "check"
       /\ overtaken' = IF conn[c].closed THEN overtaken \cup {c} ELSE overtaken
       /\ UNCHANGED <<conn, peers, displaced>>
    \/ /\ pc[c] = "remove" /\ CloseRemoves(c) /\ CloseConnection(c)
       /\ UNCHANGED overtaken

Following(pc, c, back) == IF pc[c] = "check" /\ ~conn[c].closed THEN "remove" ELSE back

-------------------------------------------------------------------------------
(* handle_connection_write_side, and the end of the task in handle_connection.   *)
others == <<dialing, events, a, overtaken>>

WriteStarts(c) ==
    /\ w[c] = "spawned" /\ w' = [w EXCEPT ![c] = "loop"]
    /\ UNCHANGED <<conn, peers, exitW, exitR, displaced, r, unheard, others>>

WriteTold(c) ==
    /\ w[c] = "loop" /\ c \in exitW
    /\ CloseConnection(c)
    /\ w' = [w EXCEPT ![c] = "end"]
    /\ exitW' = exitW \ {c}
    /\ UNCHANGED <<peers, exitR, displaced, r, unheard, others>>

HeartbeatSees(c) == conn[c].closed

(* The heart beat finds the connection closed.                                   *)
WriteBeats(c) ==
    /\ w[c] = "loop" /\ c \notin exitW /\ HeartbeatSees(c)
    /\ w' = [w EXCEPT ![c] = "end"]
    /\ UNCHANGED <<conn, peers, exitW, exitR, displaced, r, unheard, others>>

(* No ping for too long, or a packet that could not be sent in time.             *)
WriteGivesUp(c) ==
    /\ w[c] = "loop" /\ c \notin exitW /\ ~conn[c].closed
    /\ Event /\ SignalOthers(c, "w")
    /\ w' = [w EXCEPT ![c] = "check"]
    /\ UNCHANGED <<conn, peers, displaced, r, dialing, a, overtaken>>

WriteCloses(c) ==
    /\ CloseInternal(w, c)
    /\ w' = [w EXCEPT ![c] = Following(w, c, "end")]
    /\ UNCHANGED <<r, exitW, exitR, unheard, dialing, events, a>>

(* handle_connection_read_side.                                                  *)
ReadStarts(c) ==
    /\ r[c] = "spawned" /\ r' = [r EXCEPT ![c] = "loop"]
    /\ UNCHANGED <<conn, peers, exitW, exitR, displaced, w, unheard, others>>

(* An exit message, the end of the write task, or the end of the stream; the
   connection is then closed if nobody did it.                                   *)
ReadTold(c) ==
    /\ r[c] = "loop" /\ (c \in exitR \/ w[c] = "end" \/ conn[c].gone)
    /\ IF conn[c].closed
       THEN exitR' = exitR \ {c} /\ UNCHANGED <<exitW, unheard>>
       ELSE SignalOthers(c, "r")
    /\ r' = [r EXCEPT ![c] = IF conn[c].closed THEN "end" ELSE "check"]
    /\ UNCHANGED <<conn, peers, displaced, w, others>>

Reads(c) == r[c] = "loop" /\ c \notin exitR /\ w[c] # "end" /\ ~conn[c].gone

(* A second handshake: the connection is closed, and the loop goes on.           *)
ReadHandshake(c) ==
    /\ Event /\ Reads(c) /\ ~conn[c].closed
    /\ CloseConnection(c)
    /\ overtaken' = overtaken \cup {c}
    /\ UNCHANGED <<peers, exitW, exitR, displaced, unheard, w, r, dialing, a>>

(* Too many failures: close_and_temp_ban signals, bans the address and removes
   the peer, then the loop goes on.                                              *)
ReadTooManyFails(c) ==
    /\ Event /\ Reads(c) /\ Signal(c)
    /\ r' = [r EXCEPT ![c] = "unlist"]
    /\ UNCHANGED <<conn, peers, overtaken, displaced, w, dialing, a>>

ReadUnlists(c) ==
    /\ r[c] = "unlist" /\ remove_peer(c)
    /\ r' = [r EXCEPT ![c] = "loop"]
    /\ UNCHANGED <<conn, exitW, exitR, unheard, w, others>>

ReadCloses(c) ==
    /\ CloseInternal(r, c)
    /\ r' = [r EXCEPT ![c] = Following(r, c, "end")]
    /\ UNCHANGED <<w, exitW, exitR, unheard, dialing, events, a>>

-------------------------------------------------------------------------------
(* The operator, one command at a time.                                         *)
Command ==
    /\ Event
    /\ \A c \in Conn : a[c] = "idle"
    /\ UNCHANGED <<conn, dialing, overtaken, displaced, w, r>>

(* Peer::close: what follows the removal.                                        *)
KickGoesOn == "tell"

(* kick_peer: Peer::close removes the peer first and signals after.             *)
Kick(n) ==
    /\ Command /\ peers[n] # Unlisted
    /\ a' = [a EXCEPT ![peers[n]] = "unlist"]
    /\ UNCHANGED <<peers, exitW, exitR, unheard>>

KickUnlists(c) ==
    /\ a[c] = "unlist" /\ remove_peer(c)
    /\ a' = [a EXCEPT ![c] = KickGoesOn]
    /\ UNCHANGED <<conn, dialing, exitW, exitR, overtaken, unheard, events, w, r>>

(* signal_exit; after a clear, close_internal follows.                            *)
SignalExit(c) ==
    /\ a[c] \in {"tell", "tell_close"} /\ Signal(c)
    /\ a' = [a EXCEPT ![c] = IF @ = "tell" THEN "idle" ELSE "check"]
    /\ UNCHANGED <<conn, dialing, peers, overtaken, displaced, events, w, r>>

(* blacklist_address closes the peer of that ip it finds in the list.            *)
Blacklist(n) ==
    /\ Command /\ peers[n] # Unlisted
    /\ Signal(peers[n])
    /\ a' = [a EXCEPT ![peers[n]] = "check"]
    /\ UNCHANGED peers

(* close_all: the list is emptied, then every peer is closed in a task.          *)
ClearConnections ==
    /\ Command
    /\ peers' = [n \in Node |-> Unlisted]
    /\ a' = [c \in Conn |-> IF \E n \in Node : peers[n] = c THEN "tell_close" ELSE a[c]]
    /\ UNCHANGED <<exitW, exitR, unheard>>

OperatorCloses(c) ==
    /\ CloseInternal(a, c)
    /\ a' = [a EXCEPT ![c] = Following(a, c, "idle")]
    /\ UNCHANGED <<exitW, exitR, unheard, dialing, events, w, r>>

-------------------------------------------------------------------------------
(* The steps the tasks of a connection take by themselves.                       *)
WriteTask(c) == WriteStarts(c) \/ WriteTold(c) \/ WriteBeats(c) \/ WriteCloses(c)
ReadTask(c) == ReadStarts(c) \/ ReadTold(c) \/ ReadUnlists(c) \/ ReadCloses(c)

NextLifecycle ==
    \/ \E n \in Node : Incoming(n) \/ Outgoing(n) \/ Kick(n) \/ Blacklist(n)
    \/ \E c \in Opened :
         \/ Handshake(c) \/ NewPeer(c) \/ Gone(c)
         \/ WriteGivesUp(c) \/ WriteTask(c)
         \/ ReadHandshake(c) \/ ReadTooManyFails(c) \/ ReadTask(c)
         \/ KickUnlists(c) \/ SignalExit(c) \/ OperatorCloses(c)
    \/ ClearConnections

LifecycleSpec == InitLifecycle /\ [][NextLifecycle]_lifecycleVars

(* The runtime keeps running the tasks it spawned: both make progress.           *)
LifecycleFairness ==
    \A c \in Conn :
        /\ WF_lifecycleVars(c \in Opened /\ WriteTask(c))
        /\ WF_lifecycleVars(c \in Opened /\ ReadTask(c))

-------------------------------------------------------------------------------
(* However many handshakes are under way at once, no more than MaxPeers peers
   are listed, each with a connection of its own that was served (add_peer).     *)
Capacity ==
    /\ Cardinality(Listed) <= MaxPeers
    /\ \A n \in Listed : Serves(peers[n]) /\ conn[peers[n]].node = n

(* A connection whose two tasks have ended is out of the list, whoever closed it
   first, but for the one case the code leaves: it was closed between the signal
   of a closer and its look at the connection (or by a second handshake).        *)
Removed ==
    \A c \in Conn : Ended(c) /\ c \notin overtaken /\ a[c] = "idle" => peers[conn[c].node] # c

(* A connection that nobody is closing is in the list, but for two cases: the
   closer of an older connection of that peer removed it by its id, or the
   operator kicked it before its tasks listened for the signal.                  *)
LiveListed ==
    \A c \in Conn :
        /\ Serves(c) /\ ~conn[c].closed /\ w[c] = "loop" /\ r[c] = "loop" /\ a[c] = "idle"
        /\ c \notin exitW \cup exitR \cup displaced \cup unheard
        => peers[conn[c].node] = c

(* Once a connection is closed, both its tasks end.                              *)
TasksStop == \A c \in Conn : (Serves(c) /\ conn[c].closed) ~> (w[c] = "end" /\ r[c] = "end")

\* The list of peers and the connections agree: no more peers than allowed, no peer whose connection has
\* ended, and every connection that is served is listed.
ListSound == Capacity /\ Removed /\ LiveListed
-------------------------------------------------------------------------------
(* The peers a node remembers (PeerList::stored_peers, the peer list file): who is
   on the white, gray or black list, how often a connection failed, who is banned
   for a time, and which one peerlist_loop tries next. A failure pushes the next
   try of a peer further away, so that the others get their turn.

   Time passes in rounds of peerlist_loop (P2P_EXTEND_PEERLIST_DELAY): "wait" is
   how many rounds remain until last_connection_try + fail_count * delay. The
   iteration order of the map is fixed but arbitrary: the constant Order.        *)

CONSTANTS
    Ip,
    Order,              \* the iteration order of the map: a sequence of all of Ip
    MaxLinks,           \* max_peers
    FailToConnectLimit, \* PEER_FAIL_TO_CONNECT_LIMIT
    ForgetLimit,        \* PEER_FAIL_LIMIT
    FailWidth,          \* values of the u8 fail_count
    MaxChanges          \* bound: commands, connections and incoming failures

ASSUME StoredAssumption ==
    /\ Order \in Seq(Ip) /\ Len(Order) = Cardinality(Ip)
    /\ \A ip \in Ip : \E i \in DOMAIN Order : Order[i] = ip
    /\ MaxLinks \in Nat /\ MaxChanges \in Nat
    /\ FailToConnectLimit \in Nat \ {0} /\ FailWidth \in Nat \ {0} /\ ForgetLimit \in 1..(FailWidth - 1)

VARIABLES
    stored,     \* the entry of each ip
    linked,     \* ips of the connected peers
    tried,      \* the ip the last round tried, or NoIp
    changes

storedVars == <<stored, linked, tried, changes>>

NoIp == "none"
States == {"unknown", "gray", "white", "black"}
Unknown == [state |-> "unknown", fails |-> 0, wait |-> 0, banned |-> FALSE, port |-> FALSE]
NewStored(state, port) == [Unknown EXCEPT !.state = state, !.port = port]
Known(ip, state, port) == IF stored[ip] = Unknown THEN NewStored(state, port) ELSE stored[ip]

is_allowed(ip) == stored[ip].state # "black" /\ ~stored[ip].banned

InitStored ==
    /\ stored = [ip \in Ip |-> Unknown] /\ linked = {} /\ tried = NoIp /\ changes = 0

(* update_peer: the peer is connected.                                           *)
Connected(ip) == [Known(ip, "gray", TRUE) EXCEPT !.fails = 0, !.wait = 0, !.port = TRUE]

(* Fault: a failed attempt is not counted.                                       *)
FailedUncounted(entry, ban) == entry

(* increase_fail_count_for_stored_peer; the last try was just now.               *)
Failed(entry, ban) ==
    IF entry.state = "white" THEN entry
    ELSE [entry EXCEPT
            !.fails = (@ + 1) % FailWidth,
            !.banned = @ \/ (ban /\ entry.fails # 0 /\ entry.fails % FailToConnectLimit = 0)]

-------------------------------------------------------------------------------
(* find_peer_to_connect: the entries that failed too often are forgotten; the
   first one of the white list that is due and not connected, or else of the
   gray list, is chosen.                                                         *)
Retain(entries) ==
    [ip \in Ip |-> IF entries[ip].state = "white" \/ entries[ip].fails < ForgetLimit
                   THEN entries[ip] ELSE Unknown]

FirstDue(entries, state) ==
    LET due == {i \in DOMAIN Order : /\ entries[Order[i]].state = state
                                     /\ entries[Order[i]].wait = 0
                                     /\ Order[i] \notin linked}
    IN  IF due = {} THEN NoIp
        ELSE Order[CHOOSE i \in due : \A j \in due : i <= j]

find_peer_to_connect(entries) ==
    IF FirstDue(entries, "white") # NoIp THEN FirstDue(entries, "white")
    ELSE FirstDue(entries, "gray")

Aged == [ip \in Ip |-> [stored[ip] EXCEPT !.wait = IF @ = 0 THEN 0 ELSE @ - 1]]

(* The attempt at ip, from the entries of this round: refused without a trace when
   the ip is not allowed, else it fails (always, when no port is known).         *)
FailedTry(entries, ip) ==
    LET entry == IF is_allowed(ip) THEN Failed(entries[ip], FALSE) ELSE entries[ip]
    IN  [entries EXCEPT ![ip] = [entry EXCEPT !.wait = entry.fails]]

(* One round of peerlist_loop, with the connection it asks for.                  *)
Round ==
    LET entries == IF Cardinality(linked) < MaxLinks THEN Retain(Aged) ELSE Aged
        ip == IF Cardinality(linked) < MaxLinks THEN find_peer_to_connect(entries) ELSE NoIp
    IN  /\ tried' = ip
        /\ stored' = IF ip = NoIp THEN entries ELSE FailedTry(entries, ip)
        /\ UNCHANGED <<linked, changes>>

-------------------------------------------------------------------------------
Change == changes < MaxChanges /\ changes' = changes + 1 /\ UNCHANGED tried

(* A peer connects, from outside or because an attempt succeeded.                *)
Connect(ip) ==
    /\ Change /\ ip \notin linked /\ Cardinality(linked) < MaxLinks /\ is_allowed(ip)
    /\ linked' = linked \cup {ip}
    /\ stored' = [stored EXCEPT ![ip] = Connected(ip)]

Disconnect(ip) ==
    /\ Change /\ ip \in linked /\ linked' = linked \ {ip} /\ UNCHANGED stored

(* An incoming connection fails in its handshake: the count moves the time of the
   next try one round on, if that time is not long past.                         *)
IncomingFails(ip) ==
    LET entry == Failed(Known(ip, "gray", FALSE), TRUE)
        waits == IF entry.state = "white" THEN {entry.wait} ELSE IF entry.fails = 0 THEN {0}
                 ELSE IF entry.wait > 0 THEN {entry.wait + 1} ELSE {0, 1}
    IN  /\ Change /\ is_allowed(ip)
        /\ \E wait \in waits : stored' = [stored EXCEPT ![ip] = [entry EXCEPT !.wait = wait]]
        /\ UNCHANGED linked

(* temp_ban_address: an ip that is not stored is only stored.                    *)
TempBan(ip) ==
    /\ Change /\ ip \in linked
    /\ stored' = [stored EXCEPT ![ip] = IF @ = Unknown THEN NewStored("gray", FALSE)
                                        ELSE [@ EXCEPT !.banned = TRUE]]
    /\ linked' = linked \ {ip}

(* The blacklist and whitelist commands: set_state_to_address, and when the ip has
   that state already set_graylist_for_peer, which deletes an entry without port. *)
SetState(ip, state) ==
    /\ Change
    /\ stored' = [stored EXCEPT
                    ![ip] = IF @.state # state THEN [Known(ip, state, FALSE) EXCEPT !.state = state]
                            ELSE IF @.port THEN [@ EXCEPT !.state = "gray"] ELSE Unknown]
    /\ linked' = IF state = "black" THEN linked \ {ip} ELSE linked

(* The node stops, close_all saves the list, and load_stored_peers reads it.     *)
Restart ==
    /\ Change /\ linked' = {}
    /\ stored' = [ip \in Ip |-> IF stored[ip].state = "white" THEN [stored[ip] EXCEPT !.fails = 0, !.wait = 0]
                                ELSE stored[ip]]

clear_peerlist ==
    /\ Change /\ stored' = [ip \in Ip |-> Unknown] /\ UNCHANGED linked

BanEnds(ip) ==
    /\ stored[ip].banned /\ stored' = [stored EXCEPT ![ip].banned = FALSE]
    /\ UNCHANGED <<linked, tried, changes>>

NextStored ==
    \/ Round \/ Restart \/ clear_peerlist
    \/ \E ip \in Ip :
         \/ Connect(ip) \/ Disconnect(ip) \/ IncomingFails(ip) \/ TempBan(ip) \/ BanEnds(ip)
         \/ \E state \in {"black", "white"} : SetState(ip, state)

(* Rounds go on, and bans end with time.                                         *)
StoredFairness ==
    /\ WF_storedVars(Round)
    /\ \A ip \in Ip : WF_storedVars(BanEnds(ip))

(* The node looks for peers, and nothing but the failures of others can be
   before this peer.                                                             *)
Waiting(ip) ==
    /\ stored[ip].state = "gray" /\ ip \notin linked /\ Cardinality(linked) < MaxLinks
    /\ \A other \in Ip : stored[other].state # "white" \/ other \in linked

(* Every peer of the gray list gets its turn: whatever the order of the map, the
   peers before it that fail, or are banned, do not keep it from being tried
   (unless a whitelisted peer is out of reach: the white list comes first).      *)
EveryoneTried == \A ip \in Ip : Waiting(ip) ~> (tried = ip \/ ~Waiting(ip))
--------------------------------------------------------------------------------
(* One TCP connection between two nodes: the exchange of the symmetric keys, the
   handshake, and the packets that follow, each encrypted with the key and the
   nonce its sender has reached. The key of a direction is replaced, in the
   stream itself, once enough bytes were sent with it.

   A key is the pair of its owner and its number; the bytes of a packet are
   counted as 1. The stream is TCP: nothing is lost or reordered in it.        *)
CONSTANTS
    RotateEvery,    \* ROTATE_EVERY_N_BYTES, in packets
    MaxPackets      \* bound: packets each side sends after the handshake

ASSUME ChannelAssumption == RotateEvery \in Nat \ {0} /\ MaxPackets \in Nat

VARIABLES
    chPc,       \* how far each side is in verify_connection
    ready,      \* Encryption::ready
    ourCipher,  \* the key and nonce the side encrypts with, or NoCipher
    peerCipher, \* the key and nonce it decrypts with, or NoCipher
    outKey,     \* Connection::bytes_out_key
    wire,       \* the stream to each side: packets sent to it and not yet read
    sent,       \* packets sent by each side after the handshake
    unreadable, \* sides that met a packet they could not decrypt or did not expect
    used        \* the key and nonce of every packet each side encrypted

channelVars == <<chPc, ready, ourCipher, peerCipher, outKey, wire, sent, unreadable, used>>

Side == {"client", "server"}
Other(s) == CHOOSE o \in Side : o # s
NoCipher == [key |-> <<"none", 0>>, nonce |-> 0]

(* Fault: the rotation goes on with the key in use.                             *)
FreshSameKey(s) == [key |-> <<s, 0>>, nonce |-> 0]

(* generate_key.                                                                *)
Fresh(s) == [key |-> <<s, IF ourCipher[s] = NoCipher THEN 0 ELSE ourCipher[s].key[2] + 1>>,
             nonce |-> 0]

is_write_ready(s) == ready[s] /\ ourCipher[s] # NoCipher
is_read_ready(s) == peerCipher[s] # NoCipher

(* What goes on the wire: the cipher it was encrypted with, NoCipher when it is
   sent in plain text.                                                          *)
Packet(cipher, id, key) == [with |-> cipher, id |-> id, key |-> key]
NoKey == NoCipher.key

NextNonce(cipher) == [cipher EXCEPT !.nonce = @ + 1]

-------------------------------------------------------------------------------
InitChannel ==
    /\ chPc = [s \in Side |-> "start"]
    /\ ready = [s \in Side |-> FALSE]
    /\ ourCipher = [s \in Side |-> NoCipher]
    /\ peerCipher = [s \in Side |-> NoCipher]
    /\ outKey = [s \in Side |-> 0]
    /\ wire = [s \in Side |-> <<>>]
    /\ sent = [s \in Side |-> 0]
    /\ unreadable = {}
    /\ used = [s \in Side |-> <<>>]

(* rotate_key_packet in the exchange: no key was in use, the new one travels in
   plain text; mark_as_ready follows.                                           *)
SendKey(s) ==
    /\ wire' = [wire EXCEPT ![Other(s)] = Append(@, Packet(NoCipher, "key", Fresh(s).key))]
    /\ ourCipher' = [ourCipher EXCEPT ![s] = Fresh(s)]
    /\ ready' = [ready EXCEPT ![s] = TRUE]

(* rotate_key_packet in the stream: the new key is encrypted with the old one,
   and the next packet is the first one under it.                               *)
Rotation(s) == Packet(NextNonce(ourCipher[s]), "key", Fresh(s).key)

(* send_bytes once the cipher is ready, under the lock of the write half: the
   packet, and the new key when the bytes sent before it had reached the limit. *)
SendBytes(s, id) ==
    LET rotate == outKey[s] > 0 /\ outKey[s] >= RotateEvery
        packet == Packet(ourCipher[s], id, NoKey)
        packets == IF rotate THEN <<packet, Rotation(s)>> ELSE <<packet>>
    IN  /\ is_write_ready(s)
        /\ wire' = [wire EXCEPT ![Other(s)] = @ \o packets]
        /\ outKey' = [outKey EXCEPT ![s] = IF rotate THEN 0 ELSE @ + 1]
        /\ ourCipher' = [ourCipher EXCEPT
                           ![s] = IF rotate THEN Fresh(s) ELSE NextNonce(@)]
        /\ used' = [used EXCEPT ![s] = @ \o [i \in DOMAIN packets |-> packets[i].with]]

(* read_all_bytes and read_packet_from_bytes: a packet that comes in is
   decrypted as soon as the side knows a key of the other one.                  *)
Readable(s, packet) ==
    packet.with = (IF is_read_ready(s) THEN peerCipher[s] ELSE NoCipher)

Decrypted(s) == IF is_read_ready(s) THEN NextNonce(peerCipher[s]) ELSE NoCipher

(* Fault: the nonce of the reader is kept when the other side changes its key.  *)
rotate_peer_key_kept_nonce(s, key) ==
    [key |-> key, nonce |-> IF is_read_ready(s) THEN Decrypted(s).nonce ELSE 0]

rotate_peer_key(s, key) == [key |-> key, nonce |-> 0]

-------------------------------------------------------------------------------
(* exchange_keys: the side that opened the connection sends its key first.      *)
ClientKey ==
    /\ chPc["client"] = "start"
    /\ SendKey("client")
    /\ chPc' = [chPc EXCEPT !["client"] = "await_key"]
    /\ UNCHANGED <<peerCipher, outKey, sent, unreadable, used>>

ServerListens ==
    /\ chPc["server"] = "start"
    /\ chPc' = [chPc EXCEPT !["server"] = "await_key"]
    /\ UNCHANGED <<ready, ourCipher, peerCipher, outKey, wire, sent, unreadable, used>>

ServerKey ==
    /\ chPc["server"] = "reply_key"
    /\ SendKey("server")
    /\ chPc' = [chPc EXCEPT !["server"] = "await_handshake"]
    /\ UNCHANGED <<peerCipher, outKey, sent, unreadable, used>>

(* send_handshake, from verify_connection.                                      *)
SendHandshake(s) ==
    /\ chPc[s] = "send_handshake"
    /\ SendBytes(s, "handshake")
    /\ chPc' = [chPc EXCEPT ![s] = IF s = "client" THEN "await_handshake" ELSE "done"]
    /\ UNCHANGED <<ready, peerCipher, sent, unreadable>>

SendPacket(s) ==
    /\ chPc[s] = "done"
    /\ sent[s] < MaxPackets
    /\ SendBytes(s, "data")
    /\ sent' = [sent EXCEPT ![s] = @ + 1]
    /\ UNCHANGED <<chPc, ready, peerCipher, unreadable>>

(* What a side expects next, and where it goes once it read it.                 *)
Expected(s) ==
    CASE chPc[s] = "await_key" -> {"key"}
      [] chPc[s] = "await_handshake" -> {"handshake"}
      [] chPc[s] = "done" -> {"key", "data"}
      [] OTHER -> {}

Continued(s) ==
    CASE chPc[s] = "await_key" -> IF s = "client" THEN "send_handshake" ELSE "reply_key"
      [] chPc[s] = "await_handshake" -> IF s = "client" THEN "done" ELSE "send_handshake"
      [] OTHER -> chPc[s]

(* read_packet, with rotate_peer_key for a key. A packet that cannot be read,
   or is not the one expected, ends the connection.                             *)
ReadPacket(s) ==
    /\ Expected(s) # {} /\ wire[s] # <<>> /\ s \notin unreadable
    /\ LET packet == Head(wire[s])
           good == Readable(s, packet) /\ packet.id \in Expected(s)
       IN  /\ wire' = [wire EXCEPT ![s] = Tail(@)]
           /\ unreadable' = IF good THEN unreadable ELSE unreadable \cup {s}
           /\ peerCipher' = [peerCipher EXCEPT
                               ![s] = IF packet.id = "key" /\ good
                                      THEN rotate_peer_key(s, packet.key) ELSE Decrypted(s)]
           /\ chPc' = IF good THEN [chPc EXCEPT ![s] = Continued(s)] ELSE chPc
    /\ UNCHANGED <<ready, ourCipher, outKey, sent, used>>

NextChannel ==
    \/ ClientKey \/ ServerListens \/ ServerKey
    \/ \E s \in Side : SendHandshake(s) \/ SendPacket(s) \/ ReadPacket(s)

(* A connection on its own.                                                     *)
ChannelSpec == InitChannel /\ [][NextChannel]_channelVars

(* The steps of verify_connection, once the client has begun it.                *)
Exchange ==
    /\ chPc["client"] # "start"
    /\ \/ ServerListens \/ ServerKey
       \/ \E s \in Side : SendHandshake(s) \/ ReadPacket(s)

(* The tasks of both sides keep running.                                        *)
ChannelFairness == WF_channelVars(Exchange)

-------------------------------------------------------------------------------
(* Both sides always can read what the other one sent: through the exchange,
   where the first packets are in plain text, and through every rotation, where
   the change of key is itself a packet of the stream.                          *)
AllReadable == unreadable = {}

(* No key and nonce encrypt two packets: a rotation takes a new key before the
   nonce starts at 0 again.                                                     *)
NonceOnce == \A s \in Side : \A i, j \in DOMAIN used[s] : used[s][i] = used[s][j] => i = j

(* Once the client has sent its key, the exchange and the handshake end on both
   sides: neither waits for what the other one sends only later.                *)
Established ==
    (chPc["client"] = "await_key") ~> (\A s \in Side : chPc[s] = "done")
================================================================================
