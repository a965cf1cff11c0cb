---------------------------- MODULE ObjectTracker ----------------------------
(***************************************************************************)
(* The object tracker of the P2P server: one ordered queue of the objects  *)
(* asked from peers.  Tasks push requests, a requester task sends them, the*)
(* read tasks of the peers hand over the answers, and a handler task       *)
(* executes them in the order of the queue, drops what timed out and wakes *)
(* the tasks that wait.  Its users are the boost mode of the chain         *)
(* synchronisation (one group of blocks) and the task that completes a     *)
(* propagated block with the transactions that are missing.                *)
(***************************************************************************)
EXTENDS Integers, Sequences, FiniteSets, Functions

CONSTANTS
    Peer,
    Block, Tx,                    \* the hashes
    Scenarios,                    \* what the tasks may have to do, see work
    SyncPeer, BlockPeer,          \* who sent the chain response and the propagated block
    Leavers,                      \* the peers whose connection may close
    REQUESTER_CHANNEL_BUFFER, HANDLER_CHANNEL_BUFFER, PEER_PACKET_CHANNEL_SIZE

Object == Block \cup Tx
None   == "none"

ASSUME TrackerAssumption ==
    /\ REQUESTER_CHANNEL_BUFFER \in Nat \ {0} /\ HANDLER_CHANNEL_BUFFER \in Nat \ {0}
    /\ PEER_PACKET_CHANNEL_SIZE \in Nat \ {0}
    /\ SyncPeer \in Peer /\ BlockPeer \in Peer
    /\ None \notin Object /\ Block \cap Tx = {}
    /\ Scenarios \subseteq [sync : Seq(Block), block : Seq(Tx), announced : [Peer -> Seq(Tx)]]

VARIABLES
    work,         \* the blocks of the chain response, the transactions of the propagated
                  \* block and those each peer announces
    queue,        \* the requests, oldest first
    ignored,      \* the objects whose answer is ignored: cancelled after they were sent
    requestChan, handlerChan,     \* the channels of the requester and of the handler task
    lock,         \* who keeps the queue locked across an await
    requester,    \* the object the requester is sending
    handler,      \* where the handler task is
    group,        \* the group of the synchronisation: "open", "failed" or "gone"
    out, inbox, closed,           \* per peer: channel to the write task, packets from it
    reader,       \* what the read task of a peer is doing
    task,         \* the two users: program counter, position and blockers they wait on
    have,         \* the objects in the chain or in the mempool
    excused,      \* history: objects that timed out, were cancelled while handed over, or
                  \* asked again while the answer to an earlier request was to be ignored
    blamed        \* history: a fail count was raised for the answer to another object

tracker == <<queue, ignored, requestChan, handlerChan, lock, requester, handler, group>>
network == <<out, inbox, closed, reader>>
history == <<excused, blamed>>
vars    == <<work, tracker, network, task, have, history>>

SyncBlocks == work.sync
BlockTxs   == work.block

Requests(q)  == Range(q)
Queued(h)    == \E r \in Requests(queue) : r.hash = h
Request(h)   == CHOOSE r \in Requests(queue) : r.hash = h
NewRequest(h, p, g) == [hash |-> h, peer |-> p, group |-> g, asked |-> "no", response |-> None]

\* Request::drop wakes every task that holds a blocker of the request.
WokenNone(hashes) == task   \* Fault: nobody is notified
Woken(hashes) == [t \in DOMAIN task |-> [task[t] EXCEPT !.blockers = @ \ hashes]]

\* A user that has nothing to ask for is not there.
Start(hashes) == [pc |-> IF hashes = <<>> THEN "done" ELSE "next", i |-> 1, blockers |-> {}]

Init ==
    /\ work \in Scenarios
    /\ queue = <<>> /\ ignored = {} /\ requestChan = <<>> /\ handlerChan = <<>>
    /\ lock = "free" /\ requester = None /\ handler = "select"
    /\ group = IF work.sync = <<>> THEN "gone" ELSE "open"
    /\ out = [p \in Peer |-> <<>>]
    /\ inbox = [p \in Peer |-> [i \in DOMAIN work.announced[p] |->
                                  [type |-> "propagation", hash |-> work.announced[p][i]]]]
    /\ closed = [p \in Peer |-> FALSE]
    /\ reader = [p \in Peer |-> [pc |-> "listen", hash |-> None, type |-> None]]
    /\ task = [sync |-> Start(work.sync), block |-> Start(work.block)]
    /\ have = {} /\ excused = {} /\ blamed = {}

-----------------------------------------------------------------------------
(* The queue *)

\* clean_queue after request f failed: everything of its group, of its peer, of a
\* closed peer or timed out goes, and the answers to what was already sent will be
\* ignored.
Stale(r, f) ==
    \/ f.group # None /\ r.group = f.group
    \/ r.peer = f.peer
    \/ closed[r.peer]
    \/ r.asked = "expired"

Handing(h) == \E p \in Peer : reader[p].pc \in {"offer", "deliver"} /\ reader[p].hash = h

Remaining(q, f) ==
    LET kept[i \in 0..Len(q)] ==
            IF i = 0 THEN <<>>
            ELSE IF Stale(q[i], f) THEN kept[i - 1] ELSE Append(kept[i - 1], q[i])
    IN  kept[Len(q)]

\* Fault: the answers of cancelled requests are not expected any more.
CleanQueueForgets(q, f) ==
    LET stale == {r \in Requests(q) : Stale(r, f)}
        gone  == {r.hash : r \in stale} \cup {f.hash}
    IN  /\ queue' = Remaining(q, f)
        /\ excused' = excused \cup {h \in gone : Handing(h)}
        /\ task' = Woken(gone)
        /\ group' = IF f.group # None /\ group = "open" THEN "failed" ELSE group
        /\ UNCHANGED ignored

CleanQueue(q, f) ==
    LET stale == {r \in Requests(q) : Stale(r, f)}
        gone  == {r.hash : r \in stale} \cup {f.hash}
    IN  /\ queue' = Remaining(q, f)
        /\ ignored' = ignored \cup {r.hash : r \in {s \in stale : s.asked # "no"}}
        /\ excused' = excused \cup {h \in gone : Handing(h)}
        /\ task' = Woken(gone)
        /\ group' = IF f.group # None /\ group = "open" THEN "failed" ELSE group

-----------------------------------------------------------------------------
(* The users of the tracker.  A request is pushed under the lock and then  *)
(* sent to the requester, which waits while the channel is full.           *)

Goto(t, pc) == task' = [task EXCEPT ![t].pc = pc]
Advance(t)  == task' = [task EXCEPT ![t].pc = "next", ![t].i = @ + 1]

\* Boost mode: before each block it looks whether the group has failed.
SyncNext ==
    /\ task.sync.pc = "next"
    /\ IF task.sync.i > Len(SyncBlocks) THEN Goto("sync", "wait")
       ELSE IF SyncBlocks[task.sync.i] \in have THEN Advance("sync")
       ELSE IF group = "failed" THEN Goto("sync", "failed")
       ELSE Goto("sync", "push")
    /\ UNCHANGED <<tracker, network, have, history>>

SyncPush ==
    LET h == SyncBlocks[task.sync.i]
        last == task.sync.i = Len(SyncBlocks)
    IN  /\ task.sync.pc = "push" /\ lock = "free"
        /\ IF Queued(h)
           THEN Advance("sync") /\ UNCHANGED queue
           ELSE /\ queue' = Append(queue, NewRequest(h, SyncPeer, "sync"))
                /\ task' = [task EXCEPT !.sync.pc = "send",
                                        !.sync.blockers = IF last THEN @ \cup {h} ELSE @]
        /\ UNCHANGED <<ignored, requestChan, handlerChan, lock, requester, handler, group,
                       network, have, history>>

SyncSend ==
    /\ task.sync.pc = "send" /\ Len(requestChan) < REQUESTER_CHANNEL_BUFFER
    /\ requestChan' = Append(requestChan, SyncBlocks[task.sync.i])
    /\ Advance("sync")
    /\ UNCHANGED <<ignored, queue, handlerChan, lock, requester, handler, group, network,
                   have, history>>

\* The select of the end: the failure of the group, or the blocker of the last block.
SyncWait ==
    /\ task.sync.pc = "wait"
    /\ \/ group = "failed" /\ Goto("sync", "failed") /\ UNCHANGED group
       \/ task.sync.blockers = {} /\ Goto("sync", "done") /\ group' = "gone"
    /\ UNCHANGED <<ignored, queue, requestChan, handlerChan, lock, requester, handler,
                   network, have, history>>

\* blocks_processing_task: a transaction of the header is awaited if it is asked
\* already, skipped if it is known, else asked.
BlockNext ==
    /\ task.block.pc = "next" /\ lock = "free"
    /\ IF task.block.i > Len(BlockTxs) THEN Goto("block", "wait")
       ELSE LET h == BlockTxs[task.block.i]
            IN IF Queued(h)
               THEN task' = [task EXCEPT !.block.i = @ + 1, !.block.blockers = @ \cup {h}]
               ELSE IF h \in have THEN Advance("block") ELSE Goto("block", "push")
    /\ UNCHANGED <<tracker, network, have, history>>

BlockPush ==
    LET h == BlockTxs[task.block.i]
    IN  /\ task.block.pc = "push" /\ lock = "free"
        /\ IF Queued(h)
           THEN Goto("block", "subscribe") /\ UNCHANGED queue
           ELSE Goto("block", "send") /\ queue' = Append(queue, NewRequest(h, BlockPeer, None))
        /\ UNCHANGED <<ignored, requestChan, handlerChan, lock, requester, handler, group,
                       network, have, history>>

BlockSend ==
    /\ task.block.pc = "send" /\ Len(requestChan) < REQUESTER_CHANNEL_BUFFER
    /\ requestChan' = Append(requestChan, BlockTxs[task.block.i])
    /\ Goto("block", "subscribe")
    /\ UNCHANGED <<ignored, queue, handlerChan, lock, requester, handler, group, network,
                   have, history>>

\* Fault: it waits although the request is gone.
BlockSubscribeAlways ==
    LET h == BlockTxs[task.block.i]
    IN  /\ task.block.pc = "subscribe" /\ lock = "free"
        /\ task' = [task EXCEPT !.block.pc = "next", !.block.i = @ + 1,
                                !.block.blockers = @ \cup {h}]
        /\ UNCHANGED <<tracker, network, have, history>>

BlockSubscribe ==
    LET h == BlockTxs[task.block.i]
    IN  /\ task.block.pc = "subscribe" /\ lock = "free"
        /\ task' = [task EXCEPT !.block.pc = "next", !.block.i = @ + 1,
                                !.block.blockers = IF Queued(h) THEN @ \cup {h} ELSE @]
        /\ UNCHANGED <<tracker, network, have, history>>

\* All blockers have answered: the block is built, or the peer is blamed for it.
BlockBuild ==
    /\ task.block.pc = "wait" /\ task.block.blockers = {}
    /\ Goto("block", IF Range(BlockTxs) \subseteq have THEN "done" ELSE "failed")
    /\ UNCHANGED <<tracker, network, have, history>>

-----------------------------------------------------------------------------
(* The requester task.  It marks the request as sent, and keeps the queue  *)
(* locked until the channel of the peer has room.                          *)

RequesterTake ==
    /\ requester = None /\ requestChan # <<>> /\ lock = "free"
    /\ LET h == Head(requestChan)
       IN /\ requestChan' = Tail(requestChan)
          /\ IF Queued(h)
             THEN /\ queue' = [i \in DOMAIN queue |-> IF queue[i].hash = h
                                 THEN [queue[i] EXCEPT !.asked = "fresh"] ELSE queue[i]]
                  /\ requester' = h /\ lock' = "requester"
                  /\ excused' = IF Request(h).asked = "no" /\ h \notin ignored
                                 THEN excused ELSE excused \cup {h}
             ELSE UNCHANGED <<queue, requester, lock, excused>>
    /\ UNCHANGED <<ignored, handlerChan, handler, group, network, task, have, blamed>>

RequesterSend ==
    LET r == Request(requester)
    IN  /\ requester # None
        /\ \/ /\ closed[r.peer]
              /\ CleanQueue(queue, r)
              /\ UNCHANGED out
           \/ /\ ~closed[r.peer] /\ Len(out[r.peer]) < PEER_PACKET_CHANNEL_SIZE
              /\ out' = [out EXCEPT ![r.peer] = Append(@, r.hash)]
              /\ UNCHANGED <<queue, ignored, task, group, excused>>
        /\ requester' = None /\ lock' = "free"
        /\ UNCHANGED <<requestChan, handlerChan, handler, inbox, closed, reader, have, blamed>>

-----------------------------------------------------------------------------
(* The handler task.  Its select is biased: a waiting answer goes before   *)
(* the tick of the interval.                                               *)

Work(q) == q # <<>> /\ (Head(q).response # None \/ Head(q).asked = "expired")

HandlerReceive ==
    /\ handler = "select" /\ handlerChan # <<>> /\ lock = "free"
    /\ LET m == Head(handlerChan)
       IN queue' = [i \in DOMAIN queue |-> IF queue[i].hash = m.hash
                      THEN [queue[i] EXCEPT !.response = m.type] ELSE queue[i]]
    /\ handlerChan' = Tail(handlerChan)
    /\ handler' = IF Work(queue') THEN "drain" ELSE "select"
    /\ UNCHANGED <<ignored, requestChan, lock, requester, group, network, task, have, history>>

\* A tick that finds nothing to do at the head of the queue changes nothing.
HandlerTick ==
    /\ handler = "select" /\ handlerChan = <<>> /\ lock = "free" /\ Work(queue)
    /\ handler' = "drain"
    /\ UNCHANGED <<ignored, queue, requestChan, handlerChan, lock, requester, group,
                   network, task, have, history>>

\* clean_queue emptied the head between the two locks: the loop over the queue ends
\* before it began.
HandlerIdle ==
    /\ handler = "drain" /\ lock = "free" /\ ~Work(queue)
    /\ handler' = "select"
    /\ UNCHANGED <<ignored, queue, requestChan, handlerChan, lock, requester, group,
                   network, task, have, history>>

Draining == handler = "drain" /\ lock \in {"free", "handler"} /\ Work(queue)
Drained  == /\ handler' = IF Work(queue') THEN "drain" ELSE "select"
            /\ lock' = IF Work(queue') THEN "handler" ELSE "free"

\* A block needs the one before it; a transaction may be refused by the mempool.
Accepts(h) ==
    \A i \in DOMAIN SyncBlocks : SyncBlocks[i] = h /\ i > 1 => SyncBlocks[i - 1] \in have

\* An answer that says "not found" is only logged.
HandlerAccept ==
    /\ Draining
    /\ \/ Head(queue).response = "object" /\ Accepts(Head(queue).hash)
          /\ have' = have \cup {Head(queue).hash}
       \/ Head(queue).response = "notfound" /\ UNCHANGED have
    /\ queue' = Tail(queue) /\ Drained
    /\ task' = Woken({Head(queue).hash})
    /\ excused' = IF Handing(Head(queue).hash) THEN excused \cup {Head(queue).hash} ELSE excused
    /\ UNCHANGED <<ignored, requestChan, handlerChan, requester, group, network, blamed>>

\* The answer is refused, or TIME_OUT passed without one.  The request is popped
\* first, so clean_queue does not see it and a late answer will not be ignored.
HandlerFail ==
    /\ Draining /\ Head(queue).response \in {"object", None}
    /\ CleanQueue(Tail(queue), Head(queue))
    /\ Drained
    /\ UNCHANGED <<requestChan, handlerChan, requester, network, have, blamed>>

-----------------------------------------------------------------------------
(* The peers: their write and read tasks *)

\* A request is written to the socket; the remote node answers each one once, in
\* order, or never.  How long the answer takes is up to ReadPacket.
WriteTask(p) ==
    /\ ~closed[p] /\ out[p] # <<>>
    /\ out' = [out EXCEPT ![p] = Tail(@)]
    /\ \/ UNCHANGED inbox
       \/ \E type \in {"object", "notfound"} :
             inbox' = [inbox EXCEPT ![p] = Append(@, [type |-> type, hash |-> Head(out[p])])]
    /\ UNCHANGED <<tracker, closed, reader, task, have, history>>

Listen == [pc |-> "listen", hash |-> None, type |-> None]

Blame(h) == blamed' = IF h \in excused THEN blamed ELSE blamed \cup {h}

\* handle_incoming_packet: an announced transaction is asked unless it is known; an
\* answer is offered to the tracker, ignored once, or counted as a failure of the peer.
ReadPacket(p) ==
    /\ ~closed[p] /\ reader[p].pc = "listen" /\ inbox[p] # <<>> /\ lock = "free"
    /\ inbox' = [inbox EXCEPT ![p] = Tail(@)]
    /\ LET m == Head(inbox[p])
           then(pc) == reader' = [reader EXCEPT ![p] = [pc |-> pc, hash |-> m.hash, type |-> m.type]]
       IN \/ /\ m.type = "propagation"
             /\ IF m.hash \in have THEN UNCHANGED reader ELSE then("push")
             /\ UNCHANGED <<ignored, blamed>>
          \/ /\ m.type # "propagation" /\ Queued(m.hash) /\ then("offer")
             /\ UNCHANGED <<ignored, blamed>>
          \/ /\ m.type # "propagation" /\ ~Queued(m.hash)
             /\ ignored' = ignored \ {m.hash}
             /\ IF m.hash \in ignored THEN UNCHANGED blamed ELSE Blame(m.hash)
             /\ UNCHANGED reader
    /\ UNCHANGED <<queue, requestChan, handlerChan, lock, requester, handler, group, out,
                   closed, task, have, excused>>

\* handle_object_response looks the request up again, under a lock of its own.
ReadOffer(p) ==
    /\ reader[p].pc = "offer" /\ lock = "free"
    /\ IF Queued(reader[p].hash)
       THEN reader' = [reader EXCEPT ![p].pc = "deliver"] /\ UNCHANGED blamed
       ELSE reader' = [reader EXCEPT ![p] = Listen] /\ Blame(reader[p].hash)
    /\ UNCHANGED <<tracker, out, inbox, closed, task, have, excused>>

ReadDeliver(p) ==
    /\ reader[p].pc = "deliver" /\ Len(handlerChan) < HANDLER_CHANNEL_BUFFER
    /\ handlerChan' = Append(handlerChan, [type |-> reader[p].type, hash |-> reader[p].hash])
    /\ reader' = [reader EXCEPT ![p] = Listen]
    /\ UNCHANGED <<ignored, queue, requestChan, lock, requester, handler, group, out,
                   inbox, closed, task, have, history>>

ReadPush(p) ==
    /\ reader[p].pc = "push" /\ lock = "free"
    /\ IF Queued(reader[p].hash)
       THEN reader' = [reader EXCEPT ![p] = Listen] /\ UNCHANGED queue
       ELSE /\ reader' = [reader EXCEPT ![p].pc = "send"]
            /\ queue' = Append(queue, NewRequest(reader[p].hash, p, None))
    /\ UNCHANGED <<ignored, requestChan, handlerChan, lock, requester, handler, group, out,
                   inbox, closed, task, have, history>>

ReadSend(p) ==
    /\ reader[p].pc = "send" /\ Len(requestChan) < REQUESTER_CHANNEL_BUFFER
    /\ requestChan' = Append(requestChan, reader[p].hash)
    /\ reader' = [reader EXCEPT ![p] = Listen]
    /\ UNCHANGED <<ignored, queue, handlerChan, lock, requester, handler, group, out,
                   inbox, closed, task, have, history>>

\* The connection closes: the write task ends, and the select of the read task drops
\* the packet it was handling, at whatever await it stood.  A send that the channel
\* had room for is not an await, so it cannot be dropped.
Close(p) ==
    /\ p \in Leavers /\ ~closed[p]
    /\ reader[p].pc = "send" => Len(requestChan) >= REQUESTER_CHANNEL_BUFFER
    /\ closed' = [closed EXCEPT ![p] = TRUE]
    /\ out' = [out EXCEPT ![p] = <<>>]
    /\ inbox' = [inbox EXCEPT ![p] = <<>>] /\ reader' = [reader EXCEPT ![p] = Listen]
    /\ UNCHANGED <<tracker, task, have, history>>

-----------------------------------------------------------------------------
(* Time *)

\* TIME_OUT has passed since the request was sent.
Expire(h) ==
    /\ \E r \in Requests(queue) : r.hash = h /\ r.asked = "fresh"
    /\ queue' = [i \in DOMAIN queue |-> IF queue[i].hash = h
                   THEN [queue[i] EXCEPT !.asked = "expired"] ELSE queue[i]]
    /\ excused' = excused \cup {h}
    /\ UNCHANGED <<ignored, requestChan, handlerChan, lock, requester, handler, group, network,
                   task, have, blamed>>

\* task_clean_cache forgets an object TIME_OUT after it was cancelled.
CleanCache(h) ==
    /\ h \in ignored /\ ignored' = ignored \ {h} /\ excused' = excused \cup {h}
    /\ UNCHANGED <<queue, requestChan, handlerChan, lock, requester, handler, group, network,
                   task, have, blamed>>

Sync      == (SyncNext \/ SyncPush \/ SyncSend \/ SyncWait) /\ UNCHANGED work
Blocks    == /\ BlockNext \/ BlockPush \/ BlockSend \/ BlockSubscribe \/ BlockBuild
             /\ UNCHANGED work
Requester == (RequesterTake \/ RequesterSend) /\ UNCHANGED work
Handler   == /\ HandlerReceive \/ HandlerTick \/ HandlerIdle \/ HandlerAccept \/ HandlerFail
             /\ UNCHANGED work
Read(p)   == /\ ReadPacket(p) \/ ReadOffer(p) \/ ReadDeliver(p) \/ ReadPush(p) \/ ReadSend(p)
             /\ UNCHANGED work
Write(p)  == WriteTask(p) /\ UNCHANGED work
Leave(p)  == Close(p) /\ UNCHANGED work
Passes(h) == Expire(h) /\ UNCHANGED work
Cleaner(h) == CleanCache(h) /\ UNCHANGED work

Next ==
    \/ Sync \/ Blocks \/ Handler \/ Requester
    \/ \E p \in Peer : Write(p) \/ Read(p) \/ Leave(p)
    \/ \E h \in Object : Passes(h) \/ Cleaner(h)

\* Every task is scheduled, and the lock of the queue and the channels are first
\* come first served, so a task that can take its turn again and again takes it.
\* Time passes.  Nothing is assumed of the peers: they may never answer.
Fairness ==
    /\ SF_vars(Sync) /\ SF_vars(Blocks) /\ WF_vars(Handler) /\ SF_vars(Requester)
    /\ \A p \in Peer : WF_vars(Write(p)) /\ SF_vars(Read(p))
    /\ \A h \in Object : WF_vars(Passes(h))

Spec == Init /\ [][Next]_vars /\ Fairness

-----------------------------------------------------------------------------
(* Properties *)

TypeOK ==
    /\ \A r \in Requests(queue) : r.hash \in Object /\ r.peer \in Peer
          /\ r.asked \in {"no", "fresh", "expired"} /\ r.response \in {None, "object", "notfound"}
    /\ ignored \subseteq Object /\ have \subseteq Object /\ requester \in Object \cup {None}
    /\ lock \in {"free", "requester", "handler"} /\ group \in {"open", "failed", "gone"}
    /\ Len(requestChan) <= REQUESTER_CHANNEL_BUFFER
    /\ Len(handlerChan) <= HANDLER_CHANNEL_BUFFER
    /\ \A p \in Peer : Len(out[p]) <= PEER_PACKET_CHANNEL_SIZE

\* No wake-up is lost: a task that waits on the blocker of an object waits on a
\* request that is still in the queue, whatever cancelled or executed the others.
WaitsOnQueued == \A t \in DOMAIN task : \A h \in task[t].blockers : Queued(h)

\* Once its group has failed, at most one more block of the chain response is asked:
\* the one for which the synchronisation had already looked at the notifier.
GroupStops == group = "failed" => Cardinality({r \in Requests(queue) : r.group # None}) <= 1

\* A peer that answers every request once has a failure counted only for an object
\* that timed out, whose request ended while an answer was handed over, or that was
\* asked again before the answer to a cancelled request had come: of two answers to
\* cancelled requests for one object only the first is ignored.
BlamedOnlyLate == blamed = {}

\* The queue moves although peers are silent, slow or gone: it becomes empty again and
\* again, so no request at its head holds up the others for ever (handler_loop: "we
\* don't want to block the queue").
QueueMoves == []<>(queue = <<>>)

\* The synchronisation and the task of the propagated blocks come to an end: the
\* channels and the lock never leave everyone waiting on everyone.
TasksEnd == <>(\A t \in DOMAIN task : task[t].pc \in {"done", "failed"})

\* A request nobody will send: the task that pushed it was waiting for room in the
\* channel of the requester when its connection closed, and was dropped there.
Orphaned ==
    \E r \in Requests(queue) :
        /\ r.asked = "no" /\ r.hash \notin Range(requestChan) /\ r.hash # requester
        /\ ~(task.sync.pc = "send" /\ SyncBlocks[task.sync.i] = r.hash)
        /\ ~(task.block.pc = "send" /\ BlockTxs[task.block.i] = r.hash)
        /\ \A p \in Peer : ~(reader[p].pc = "send" /\ reader[p].hash = r.hash)

\* The tracker asks no more than it should and blames only peers that are late: a failed group stops
\* after at most one more request, and the queue, the channels and the tasks keep their types.
TrackerSound == TypeOK /\ GroupStops /\ BlamedOnlyLate

\* Requests leave the queue and the tasks that wait for them end, also when the channel
\* of the requester is full, with one exception: a request that stays orphaned for ever.
\* It is never asked, so it never times out and holds up the queue behind it; QueueMoves
\* alone is violated by it.
TrackerProgress == []<>~Orphaned => QueueMoves /\ TasksEnd
-------------------------------------------------------------------------------
\* Small instances, for the runs.

Quiet == [p |-> <<>>, q |-> <<>>]

\* Three blocks are synchronised from p; or a propagated block of q needs two
\* transactions; or it needs one, which p announces as well; or each of the two
\* announces one, and the requests meet in the channel of the requester.
Boost     == [sync |-> <<"b1", "b2", "b3">>, block |-> <<>>, announced |-> Quiet]
Completed == [sync |-> <<>>, block |-> <<"t1", "t2">>, announced |-> Quiet]
Announced == [sync |-> <<>>, block |-> <<"t1">>, announced |-> [p |-> <<"t1">>, q |-> <<>>]]
Crowded   == [sync |-> <<>>, block |-> <<>>, announced |-> [p |-> <<"t1">>, q |-> <<"t2">>]]
All       == {Boost, Completed, Announced, Crowded}
OnlyCrowded == {Crowded}
=============================================================================
