-------------------------- MODULE ObjectTrackerProofs --------------------------
(* No task waits for an object that nobody asks for any more, a failed group asks
   for at most one more block, and no peer is blamed for an answer that came in
   time, for any peers, objects and capacities of the channels.

   A task waits on the blocker of a request, and the request leaves the queue in
   two ways: its answer is executed, or clean_queue drops it. Both wake whoever
   waits on the hashes that leave, so what has to be known of the queue is which
   hashes Remaining keeps. The requester sends a request without looking it up
   again: it is still queued because the lock is not released in between.        *)
EXTENDS ObjectTracker, FiniteSetTheorems, WellFoundedInduction, TLAPS

RequestSet == [hash : Object, peer : Peer, group : {None, "sync"},
               asked : {"no", "fresh", "expired"}, response : {None, "object", "notfound"}]
Answers == [type : {"object", "notfound"}, hash : Object]
Packets == [type : {"object", "notfound", "propagation"}, hash : Object]
Readers == [pc : {"listen", "offer", "deliver", "push", "send"}, hash : Object \cup {None},
            type : {None, "object", "notfound", "propagation"}]
Users   == [pc : {"next", "push", "send", "subscribe", "wait", "done", "failed"},
            i : Nat \ {0}, blockers : SUBSET Object]

QueueTypes ==
    /\ work \in Scenarios
    /\ queue \in Seq(RequestSet)
    /\ ignored \subseteq Object /\ have \subseteq Object
    /\ requester \in Object \cup {None}
    /\ lock \in {"free", "requester", "handler"} /\ group \in {"open", "failed", "gone"}
    /\ task \in [sync : Users, block : Users]

ChannelTypes ==
    /\ requestChan \in Seq(Object) /\ Len(requestChan) <= REQUESTER_CHANNEL_BUFFER
    /\ handlerChan \in Seq(Answers) /\ Len(handlerChan) <= HANDLER_CHANNEL_BUFFER
    /\ out \in [Peer -> Seq(Object)]
    /\ \A p \in Peer : Len(out[p]) <= PEER_PACKET_CHANNEL_SIZE
    /\ inbox \in [Peer -> Seq(Packets)]
    /\ reader \in [Peer -> Readers]
    /\ \A p \in Peer :
          /\ reader[p].pc # "listen" => reader[p].hash \in Object
          /\ reader[p].pc \in {"offer", "deliver"} => reader[p].type \in {"object", "notfound"}

\* A task that asks for an object stands at one of its own.
Placed ==
    /\ task.sync.pc \in {"push", "send"} => task.sync.i <= Len(SyncBlocks)
    /\ task.block.pc \in {"push", "send", "subscribe"} => task.block.i <= Len(BlockTxs)

\* What the requester is sending stays in the queue, which it keeps locked.
Locked == requester # None => lock = "requester" /\ Queued(requester)

\* A group that failed has at most one request left, and none while the
\* synchronisation is about to ask for the block it had already decided to ask.
Stopped ==
    group = "failed" =>
        /\ \A r1, r2 \in Requests(queue) : r1.group # None /\ r2.group # None => r1 = r2
        /\ task.sync.pc = "push" => \A r \in Requests(queue) : r.group = None

TrackerInv ==
    QueueTypes /\ ChannelTypes /\ Placed /\ Locked /\ Stopped /\ WaitsOnQueued

-------------------------------------------------------------------------------
(* Induction over the natural numbers, for a set in place of a formula.          *)
LEMMA NatSetInduction ==
  ASSUME NEW S, 0 \in S, \A n \in Nat : n \in S => n + 1 \in S
  PROVE  Nat \subseteq S
<1> DEFINE R == OpToRel(<, Nat)
           T == Nat \ S
<1>1. SUFFICES ASSUME T # {} PROVE FALSE
  OBVIOUS
<1>2. IsWellFoundedOn(R, Nat) BY NatLessThanWellFounded
<1>3. T \subseteq Nat OBVIOUS
<1> HIDE DEF R, T
<1>4. PICK x \in T : \A y \in T : ~ (<<y, x>> \in R)
  BY <1>1, <1>2, <1>3, WFMin
<1>5. \A y \in T : ~ (y < x) BY <1>3, <1>4 DEF R, OpToRel
<1>6. x \in Nat /\ x \notin S BY <1>4 DEF T
<1>7. x - 1 \in Nat /\ x - 1 < x BY <1>6
<1>8. x - 1 \in S BY <1>5, <1>7 DEF T
<1>9. (x - 1) + 1 \in S BY <1>7, <1>8
<1>10. QED BY <1>6, <1>9

(* What push adds to the queue, and what pop leaves of it.                        *)
LEMMA AppendRange ==
  ASSUME NEW S, NEW s \in Seq(S), NEW x \in S
  PROVE  Range(Append(s, x)) = Range(s) \cup {x}
<1>1. DOMAIN Append(s, x) = 1..(Len(s) + 1) /\ DOMAIN s = 1..Len(s) OBVIOUS
<1>2. \A i \in 1..Len(s) : Append(s, x)[i] = s[i] OBVIOUS
<1>3. Append(s, x)[Len(s) + 1] = x OBVIOUS
<1>4. 1..(Len(s) + 1) = 1..Len(s) \cup {Len(s) + 1} OBVIOUS
<1>5. QED BY <1>1, <1>2, <1>3, <1>4 DEF Range

LEMMA TailRange ==
  ASSUME NEW S, NEW s \in Seq(S), s # <<>>
  PROVE  Range(s) = Range(Tail(s)) \cup {Head(s)}
<1>1. Head(s) = s[1] /\ 1 \in DOMAIN s OBVIOUS
<1>2. \A i \in DOMAIN Tail(s) : Tail(s)[i] = s[i + 1] /\ i + 1 \in DOMAIN s OBVIOUS
<1>3. \A i \in DOMAIN s : i = 1 \/ (i - 1 \in DOMAIN Tail(s) /\ Tail(s)[i - 1] = s[i]) OBVIOUS
<1>4. ASSUME NEW x \in Range(s) PROVE x \in Range(Tail(s)) \cup {Head(s)}
  BY <1>1, <1>3, Zenon DEF Range
<1>5. ASSUME NEW x \in Range(Tail(s)) PROVE x \in Range(s)
  BY <1>2, Zenon DEF Range
<1>6. Head(s) \in Range(s) BY <1>1, Zenon DEF Range
<1>7. QED BY <1>4, <1>5, <1>6

(* clean_queue keeps the requests that are not stale, and no others.             *)
LEMMA RemainingRange ==
  ASSUME NEW S, NEW q \in Seq(S), NEW f
  PROVE  /\ Remaining(q, f) \in Seq(S)
         /\ Requests(Remaining(q, f)) = {r \in Requests(q) : ~Stale(r, f)}
<1> USE DEF Requests, Range
<1> DEFINE Step(g, i) == IF i = 0 THEN <<>>
                         ELSE IF Stale(q[i], f) THEN g[i - 1] ELSE Append(g[i - 1], q[i])
           Solved(g, n) == g = [i \in 0..n |-> Step(g, i)]
           kept == CHOOSE g : Solved(g, Len(q))
<1>1. Remaining(q, f) = kept[Len(q)]
  BY Zenon DEF Remaining
<1>2. \E g : Solved(g, Len(q))
  <2> DEFINE N == {n \in Nat : \E g : Solved(g, n)}
  <2>1. 0 \in N
    <3>1. Solved([i \in 0..0 |-> <<>>], 0) BY SMT
    <3>2. QED BY <3>1
  <2>2. ASSUME NEW n \in Nat, n \in N PROVE n + 1 \in N
    <3>1. PICK g : Solved(g, n) BY <2>2
    <3> DEFINE h == [i \in 0..(n + 1) |-> IF i = n + 1 THEN Step(g, i) ELSE g[i]]
    <3>2. ASSUME NEW i \in 0..(n + 1) PROVE h[i] = Step(h, i)
      <4>1. i = 0 \/ i - 1 \in 0..n OBVIOUS
      <4>2. i \in 0..n => g[i] = Step(g, i) BY <3>1
      <4>3. \A j \in 0..n : h[j] = g[j] OBVIOUS
      <4>4. Step(h, i) = Step(g, i) BY <4>1, <4>3
      <4>5. QED BY <4>2, <4>4
    <3>3. h = [i \in 0..(n + 1) |-> h[i]] OBVIOUS
    <3> HIDE DEF h, Step
    <3>4. Solved(h, n + 1) BY <3>2, <3>3
    <3>5. QED BY <3>4
  <2> HIDE DEF N
  <2>3. Nat \subseteq N BY <2>1, <2>2, NatSetInduction
  <2>4. Len(q) \in Nat OBVIOUS
  <2> HIDE DEF Solved
  <2>5. QED BY <2>3, <2>4 DEF N
<1>3. Solved(kept, Len(q))
  BY <1>2, Zenon
<1> HIDE DEF kept
<1>4. \A i \in 0..Len(q) : kept[i] = Step(kept, i)
  <2> HIDE DEF Step
  <2>1. QED BY <1>3
<1>5. /\ kept[0] = <<>>
      /\ \A i \in 1..Len(q) :
           kept[i] = IF Stale(q[i], f) THEN kept[i - 1] ELSE Append(kept[i - 1], q[i])
  <2>1. 0 \in 0..Len(q) /\ (\A i \in 1..Len(q) : i \in 0..Len(q) /\ i # 0) OBVIOUS
  <2>2. QED BY <1>4, <2>1, Zenon
<1> DEFINE Good(s, n) == /\ s \in Seq(S)
                         /\ Range(s) = {r \in {q[j] : j \in 1..n} : ~Stale(r, f)}
           N == {n \in Nat : n <= Len(q) => Good(kept[n], n)}
<1> HIDE DEF Solved, Step
<1>6. 0 \in N
  <2>1. Good(<<>>, 0) OBVIOUS
  <2> HIDE DEF Good
  <2>2. QED BY <1>5, <2>1
<1>7. ASSUME NEW n \in Nat, n \in N PROVE n + 1 \in N
  <2> HIDE DEF Good
  <2>1. SUFFICES ASSUME n + 1 <= Len(q) PROVE Good(kept[n + 1], n + 1) OBVIOUS
  <2>2. Good(kept[n], n) BY <1>7, <2>1
  <2> USE DEF Good
  <2>3. q[n + 1] \in S BY <2>1
  <2>4. {q[j] : j \in 1..(n + 1)} = {q[j] : j \in 1..n} \cup {q[n + 1]} OBVIOUS
  <2>5. CASE Stale(q[n + 1], f)
    <3>1. kept[n + 1] = kept[n] BY <1>5, <2>1, <2>5
    <3>2. QED BY <2>2, <2>4, <2>5, <3>1
  <2>6. CASE ~Stale(q[n + 1], f)
    <3>1. kept[n + 1] = Append(kept[n], q[n + 1])
      <4>1. n + 1 \in 1..Len(q) /\ (n + 1) - 1 = n BY <2>1
      <4> HIDE DEF Good
      <4>2. QED BY <1>5, <2>6, <4>1, Zenon
    <3>2. kept[n] \in Seq(S) BY <2>2
    <3>3. Range(Append(kept[n], q[n + 1])) = Range(kept[n]) \cup {q[n + 1]}
      <4> HIDE DEF Range
      <4>1. QED BY <2>3, <3>2, AppendRange
    <3>4. kept[n + 1] \in Seq(S) BY <2>3, <3>1, <3>2
    <3> HIDE DEF Range
    <3>5. QED BY <2>2, <2>4, <2>6, <3>1, <3>2, <3>3, <3>4
  <2>7. QED BY <2>5, <2>6
<1> HIDE DEF N, Good
<1>8. Nat \subseteq N BY <1>6, <1>7, NatSetInduction
<1>9. Good(kept[Len(q)], Len(q)) BY <1>8 DEF N
<1> USE DEF Good
<1>10. Range(q) = {q[j] : j \in 1..Len(q)} OBVIOUS
<1> HIDE DEF Range
<1>11. QED BY <1>1, <1>9, <1>10

-------------------------------------------------------------------------------
Hashes(q) == {r.hash : r \in Requests(q)}

(* A task keeps its shape when its place and its blockers change, and when it is
   woken.                                                                        *)
LEMMA Woke ==
  ASSUME task \in [sync : Users, block : Users], NEW gone
  PROVE  /\ Woken(gone) \in [sync : Users, block : Users]
         /\ \A t \in {"sync", "block"} :
               /\ Woken(gone)[t].pc = task[t].pc /\ Woken(gone)[t].i = task[t].i
               /\ Woken(gone)[t].blockers = task[t].blockers \ gone
<1>1. DOMAIN task = {"sync", "block"} OBVIOUS
<1>2. Woken(gone) = [sync |-> [task.sync EXCEPT !.blockers = @ \ gone],
                     block |-> [task.block EXCEPT !.blockers = @ \ gone]]
  BY <1>1, SMTT(30) DEF Woken
<1>3. QED BY <1>2 DEF Users

(* A queue starts empty, with nobody who waits.                                   *)
LEMMA TrackerStart == Init => TrackerInv
<1> SUFFICES ASSUME Init PROVE TrackerInv OBVIOUS
<1> USE DEF Init, Start
<1>1. QueueTypes BY DEF QueueTypes, Users
<1>2. ChannelTypes
  <2>1. ASSUME NEW p \in Peer PROVE inbox[p] \in Seq(Packets)
    <3>1. work.announced[p] \in Seq(Tx) BY TrackerAssumption
    <3> DEFINE n == Len(work.announced[p])
               told == [i \in 1..n |-> [type |-> "propagation", hash |-> work.announced[p][i]]]
    <3>2. n \in Nat /\ inbox[p] = told BY <3>1
    <3>3. \A i \in 1..n : told[i] \in Packets BY <3>1 DEF Packets, Object
    <3>4. told \in [1..n -> Packets] BY <3>3
    <3> HIDE DEF told, n
    <3>5. told \in Seq(Packets) BY <3>2, <3>4
    <3>6. QED BY <3>2, <3>5
  <2>2. inbox \in [Peer -> Seq(Packets)] BY <2>1
  <2>3. QED BY <2>2, TrackerAssumption DEF ChannelTypes, Readers
<1>3. Placed /\ Locked /\ Stopped /\ WaitsOnQueued
  BY DEF Placed, Locked, Stopped, WaitsOnQueued
<1>4. QED BY <1>1, <1>2, <1>3 DEF TrackerInv

-------------------------------------------------------------------------------
(* The steps. clean_queue may drop any request, and wakes who waits for it.        *)
LEMMA CleanStep ==
  ASSUME TrackerInv, NEW q \in Seq(RequestSet), NEW f \in RequestSet,
         Requests(q) \subseteq Requests(queue),
         Requests(queue) \subseteq Requests(q) \cup {f},
         CleanQueue(q, f)
  PROVE  /\ queue' \in Seq(RequestSet) /\ ignored' \subseteq Object
         /\ group' \in {"open", "failed", "gone"}
         /\ task' \in [sync : Users, block : Users]
         /\ \A t \in {"sync", "block"} : task'[t].pc = task[t].pc /\ task'[t].i = task[t].i
         /\ WaitsOnQueued' /\ Stopped'
<1> DEFINE stale == {r \in Requests(q) : Stale(r, f)}
           gone  == {r.hash : r \in stale} \cup {f.hash}
<1>1. queue' = Remaining(q, f) /\ task' = Woken(gone) BY DEF CleanQueue
<1>2. queue' \in Seq(RequestSet) /\ Requests(queue') = Requests(q) \ stale
  <2>1. /\ Remaining(q, f) \in Seq(RequestSet)
        /\ Requests(Remaining(q, f)) = {r \in Requests(q) : ~Stale(r, f)}
    BY RemainingRange
  <2>2. QED BY <1>1, <2>1
<1>3. task \in [sync : Users, block : Users] BY DEF TrackerInv, QueueTypes
<1> HIDE DEF gone
<1>4. /\ task' \in [sync : Users, block : Users]
      /\ \A t \in {"sync", "block"} :
            /\ task'[t].pc = task[t].pc /\ task'[t].i = task[t].i
            /\ task'[t].blockers = task[t].blockers \ gone
  BY <1>1, <1>3, Woke
<1>5. DOMAIN task = {"sync", "block"} /\ DOMAIN task' = {"sync", "block"} BY <1>3, <1>4
<1>6. \A r \in Requests(q) : r \in RequestSet BY DEF Requests, Range
<1>7. ignored' \subseteq Object
  BY <1>6 DEF CleanQueue, TrackerInv, QueueTypes, RequestSet
<1>8. group' \in {"open", "failed", "gone"}
  BY DEF CleanQueue, TrackerInv, QueueTypes
<1>9. WaitsOnQueued'
  <2>1. SUFFICES ASSUME NEW t \in {"sync", "block"}, NEW h \in task'[t].blockers
                 PROVE  \E r \in Requests(queue') : r.hash = h
    BY <1>5 DEF WaitsOnQueued, Queued
  <2>2. h \in task[t].blockers /\ h \notin gone BY <1>4
  <2>3. PICK r \in Requests(queue) : r.hash = h
    BY <1>5, <2>2 DEF TrackerInv, WaitsOnQueued, Queued
  <2>4. r # f /\ r \notin stale BY <2>2, <2>3 DEF gone
  <2>5. QED BY <1>2, <2>3, <2>4
<1>10. Stopped'
  <2>1. SUFFICES ASSUME group' = "failed"
                 PROVE  /\ \A r1, r2 \in Requests(queue') :
                              r1.group # None /\ r2.group # None => r1 = r2
                        /\ task'.sync.pc = "push" => \A r \in Requests(queue') : r.group = None
    BY DEF Stopped
  <2>2. CASE group = "failed"
    <3>1. Requests(queue') \subseteq Requests(queue) BY <1>2
    <3>2. task'.sync.pc = task.sync.pc BY <1>4
    <3>3. QED BY <2>2, <3>1, <3>2 DEF TrackerInv, Stopped
  <2>3. CASE group # "failed"
    <3>1. f.group # None BY <2>1, <2>3 DEF CleanQueue
    <3>2. ASSUME NEW r \in Requests(queue') PROVE r.group = None
      <4>1. r \in Requests(q) /\ ~Stale(r, f) BY <1>2
      <4>2. r.group # f.group BY <3>1, <4>1 DEF Stale
      <4>3. r.group \in {None, "sync"} /\ f.group \in {None, "sync"}
        BY <1>6, <4>1 DEF RequestSet
      <4>4. QED BY <3>1, <4>2, <4>3
    <3>3. QED BY <3>2
  <2>4. QED BY <2>2, <2>3
<1>11. QED BY <1>2, <1>4, <1>7, <1>8, <1>9, <1>10

(* A request that is marked as sent, answered or timed out keeps its hash and its
   group.                                                                        *)
LEMMA MarkStep ==
  ASSUME TrackerInv, UNCHANGED <<task, group>>,
         NEW mark \in [RequestSet -> RequestSet],
         \A r \in RequestSet : mark[r].hash = r.hash /\ mark[r].group = r.group,
         queue' = [i \in DOMAIN queue |-> mark[queue[i]]]
  PROVE  /\ queue' \in Seq(RequestSet) /\ WaitsOnQueued' /\ Stopped'
         /\ \A h : Queued(h) => Queued(h)'
<1>1. queue \in Seq(RequestSet) BY DEF TrackerInv, QueueTypes
<1>2. DOMAIN queue' = DOMAIN queue /\ DOMAIN queue = 1..Len(queue) BY <1>1
<1>3. queue' \in Seq(RequestSet)
  <2>1. \A i \in 1..Len(queue) : queue'[i] \in RequestSet BY <1>1, <1>2
  <2>2. queue' \in [1..Len(queue) -> RequestSet] BY <1>2, <2>1
  <2>3. Len(queue) \in Nat BY <1>1
  <2>4. QED BY <2>2, <2>3
<1>4. Requests(queue) \subseteq RequestSet BY <1>1 DEF Requests, Range
<1>5. Requests(queue') = {mark[r] : r \in Requests(queue)}
  <2>1. ASSUME NEW x \in Requests(queue') PROVE x \in {mark[r] : r \in Requests(queue)}
    BY <1>2 DEF Requests, Range
  <2>2. ASSUME NEW r \in Requests(queue) PROVE mark[r] \in Requests(queue')
    BY <1>2 DEF Requests, Range
  <2>3. QED BY <2>1, <2>2
<1>6. ASSUME NEW h, Queued(h) PROVE Queued(h)'
  BY <1>4, <1>5, <1>6 DEF Queued
<1>7. WaitsOnQueued' BY <1>6 DEF TrackerInv, WaitsOnQueued
<1>8. Stopped'
  BY <1>4, <1>5 DEF TrackerInv, Stopped
<1>9. QED BY <1>3, <1>6, <1>7, <1>8

(* A request is pushed at the end of the queue.                                   *)
LEMMA PushStep ==
  ASSUME TrackerInv, NEW r \in RequestSet, queue' = Append(queue, r)
  PROVE  /\ queue' \in Seq(RequestSet)
         /\ Requests(queue') = Requests(queue) \cup {r}
<1>1. queue \in Seq(RequestSet) BY DEF TrackerInv, QueueTypes
<1>2. QED BY <1>1, AppendRange DEF Requests

(* The channels and the readers of the peers are left alone.                      *)
LEMMA ChannelsKept ==
  ASSUME ChannelTypes, UNCHANGED <<requestChan, handlerChan, network>>
  PROVE  ChannelTypes'
  BY DEF ChannelTypes, network

(* A task moves on, and waits at most for what is queued.                         *)
LEMMA TaskStep ==
  ASSUME TrackerInv, UNCHANGED <<work, queue, ignored, have, requester, lock>>,
         group' = group \/ group' = "gone",
         task' \in [sync : Users, block : Users],
         \A t \in {"sync", "block"} : \A h \in task'[t].blockers :
             h \in task[t].blockers \/ Queued(h),
         task'.sync.pc = "push" => task.sync.pc = "push" \/ group # "failed"
  PROVE  QueueTypes' /\ Locked' /\ Stopped' /\ WaitsOnQueued'
<1>1. QueueTypes' BY DEF TrackerInv, QueueTypes
<1>2. Locked' BY DEF TrackerInv, Locked, Queued
<1>3. Stopped'
  <2>1. CASE group' = "gone" BY <2>1 DEF Stopped
  <2>2. CASE group' = group BY <2>2 DEF TrackerInv, Stopped
  <2>3. QED BY <2>1, <2>2
<1>4. DOMAIN task = {"sync", "block"} /\ DOMAIN task' = {"sync", "block"}
  BY DEF TrackerInv, QueueTypes
<1>5. WaitsOnQueued' BY <1>4 DEF TrackerInv, WaitsOnQueued, Queued
<1>6. QED BY <1>1, <1>2, <1>3, <1>5

(* The synchronisation asks for its blocks.                                       *)
LEMMA SyncStep == ASSUME TrackerInv, Sync PROVE TrackerInv'
<1>1. /\ task \in [sync : Users, block : Users] /\ work \in Scenarios
      /\ SyncBlocks \in Seq(Block)
  BY TrackerAssumption DEF TrackerInv, QueueTypes, SyncBlocks
<1>2. task.sync \in Users /\ task.sync.i \in Nat \ {0} BY <1>1 DEF Users
<1>3. UNCHANGED work BY DEF Sync
<1>4. CASE SyncNext
  <2>1. UNCHANGED <<queue, ignored, requestChan, handlerChan, lock, requester, group, network, have>>
    BY <1>4 DEF SyncNext, tracker
  <2>2. /\ task' \in [sync : Users, block : Users]
        /\ \A t \in {"sync", "block"} : task'[t].blockers = task[t].blockers
        /\ task'.block = task.block
        /\ task'.sync.pc \in {"push", "send"} => task'.sync.i <= Len(SyncBlocks) /\ group # "failed"
    BY <1>1, <1>2, <1>4 DEF SyncNext, Goto, Advance, Users
  <2>3. Placed' BY <1>3, <2>2 DEF TrackerInv, Placed, SyncBlocks, BlockTxs
  <2>4. ChannelTypes' BY <2>1, ChannelsKept DEF TrackerInv
  <2>5. QueueTypes' /\ Locked' /\ Stopped' /\ WaitsOnQueued' BY <1>3, <2>1, <2>2, TaskStep
  <2>6. QED BY <2>3, <2>4, <2>5 DEF TrackerInv
<1>5. CASE SyncPush
  <2> DEFINE h == SyncBlocks[task.sync.i]
             r == NewRequest(h, SyncPeer, "sync")
  <2>1. /\ UNCHANGED <<ignored, requestChan, handlerChan, lock, requester, group, network, have>>
        /\ task.sync.pc = "push" /\ lock = "free"
    BY <1>5 DEF SyncPush
  <2>2. h \in Block /\ h \in Object
    BY <1>1, <1>2, <2>1 DEF TrackerInv, Placed, Object
  <2>3. r \in RequestSet BY <2>2, TrackerAssumption DEF NewRequest, RequestSet
  <2>4. ChannelTypes' BY <2>1, ChannelsKept DEF TrackerInv
  <2>5. requester = None BY <2>1 DEF TrackerInv, Locked
  <2>6. CASE Queued(h)
    <3>1. UNCHANGED queue BY <1>5, <2>6 DEF SyncPush
    <3>2. /\ task' \in [sync : Users, block : Users]
          /\ \A t \in {"sync", "block"} : task'[t].blockers = task[t].blockers
          /\ task'.block = task.block /\ task'.sync.pc = "next"
      BY <1>1, <1>2, <1>5, <2>6 DEF SyncPush, Advance, Users
    <3>3. Placed' BY <1>3, <3>2 DEF TrackerInv, Placed, BlockTxs
    <3>4. QueueTypes' /\ Locked' /\ Stopped' /\ WaitsOnQueued' BY <1>3, <2>1, <3>1, <3>2, TaskStep
    <3>5. QED BY <2>4, <3>3, <3>4 DEF TrackerInv
  <2>7. CASE ~Queued(h)
    <3>1. queue' = Append(queue, r) BY <1>5, <2>7 DEF SyncPush
    <3> HIDE DEF r
    <3>2. queue' \in Seq(RequestSet) /\ Requests(queue') = Requests(queue) \cup {r}
      BY <2>3, <3>1, PushStep
    <3>3. /\ task' \in [sync : Users, block : Users]
          /\ task'.block = task.block
          /\ task'.sync.pc = "send" /\ task'.sync.i = task.sync.i
          /\ \A x \in task'.sync.blockers : x \in task.sync.blockers \/ x = h
      <4> HIDE DEF h
      <4>1. task' = [task EXCEPT !.sync.pc = "send",
                                 !.sync.blockers = IF task.sync.i = Len(SyncBlocks) THEN @ \cup {h} ELSE @]
        BY <1>5, <2>7 DEF SyncPush, h
      <4>2. QED BY <1>1, <1>2, <2>2, <4>1 DEF Users
    <3>4. QueueTypes' BY <1>3, <2>1, <3>2, <3>3 DEF TrackerInv, QueueTypes
    <3>5. Placed' BY <1>3, <2>1, <3>3 DEF TrackerInv, Placed, SyncBlocks, BlockTxs
    <3>6. Locked' BY <2>1, <2>5 DEF Locked
    <3>7. Stopped'
      <4>1. ASSUME group' = "failed" PROVE \A x \in Requests(queue) : x.group = None
        BY <2>1, <4>1 DEF TrackerInv, Stopped
      <4>2. QED BY <2>1, <3>2, <3>3, <4>1 DEF Stopped
    <3>8. WaitsOnQueued'
      <4>1. r.hash = h BY DEF r, NewRequest
      <4>2. DOMAIN task = {"sync", "block"} /\ DOMAIN task' = {"sync", "block"} BY <1>1, <3>3
      <4> HIDE DEF h
      <4>3. QED BY <3>2, <3>3, <4>1, <4>2 DEF TrackerInv, WaitsOnQueued, Queued
    <3>9. QED BY <2>4, <3>4, <3>5, <3>6, <3>7, <3>8 DEF TrackerInv
  <2>8. QED BY <2>6, <2>7
<1>6. CASE SyncSend
  <2>1. /\ UNCHANGED <<ignored, queue, handlerChan, lock, requester, group, network, have>>
        /\ task.sync.pc = "send"
    BY <1>6 DEF SyncSend
  <2>2. SyncBlocks[task.sync.i] \in Object
    BY <1>1, <1>2, <2>1 DEF TrackerInv, Placed, Object
  <2>3. ChannelTypes'
    <3>1. requestChan' \in Seq(Object) /\ Len(requestChan') <= REQUESTER_CHANNEL_BUFFER
      BY <1>6, <2>2, TrackerAssumption DEF SyncSend, TrackerInv, ChannelTypes
    <3>2. QED BY <2>1, <3>1 DEF TrackerInv, ChannelTypes, network
  <2>4. /\ task' \in [sync : Users, block : Users]
        /\ \A t \in {"sync", "block"} : task'[t].blockers = task[t].blockers
        /\ task'.block = task.block /\ task'.sync.pc = "next"
    BY <1>1, <1>2, <1>6 DEF SyncSend, Advance, Users
  <2>5. Placed' BY <1>3, <2>4 DEF TrackerInv, Placed, BlockTxs
  <2>6. QueueTypes' /\ Locked' /\ Stopped' /\ WaitsOnQueued' BY <1>3, <2>1, <2>4, TaskStep
  <2>7. QED BY <2>3, <2>5, <2>6 DEF TrackerInv
<1>7. CASE SyncWait
  <2>1. /\ UNCHANGED <<ignored, queue, requestChan, handlerChan, lock, requester, network, have>>
        /\ group' = group \/ group' = "gone"
    BY <1>7 DEF SyncWait
  <2>2. /\ task' \in [sync : Users, block : Users]
        /\ \A t \in {"sync", "block"} : task'[t].blockers = task[t].blockers
        /\ task'.block = task.block /\ task'.sync.pc \in {"done", "failed"}
    BY <1>1, <1>2, <1>7 DEF SyncWait, Goto, Users
  <2>3. Placed' BY <1>3, <2>2 DEF TrackerInv, Placed, BlockTxs
  <2>4. ChannelTypes' BY <2>1, ChannelsKept DEF TrackerInv
  <2>5. QueueTypes' /\ Locked' /\ Stopped' /\ WaitsOnQueued' BY <1>3, <2>1, <2>2, TaskStep
  <2>6. QED BY <2>3, <2>4, <2>5 DEF TrackerInv
<1>8. QED BY <1>4, <1>5, <1>6, <1>7 DEF Sync

(* The task of the propagated blocks asks for the transactions that are missing. It
   subscribes only to a request that it finds in the queue under the same lock.    *)
LEMMA BlockStep == ASSUME TrackerInv, Blocks PROVE TrackerInv'
<1>1. /\ task \in [sync : Users, block : Users] /\ work \in Scenarios
      /\ BlockTxs \in Seq(Tx)
  BY TrackerAssumption DEF TrackerInv, QueueTypes, BlockTxs
<1>2. task.block \in Users /\ task.block.i \in Nat \ {0} BY <1>1 DEF Users
<1>3. UNCHANGED work BY DEF Blocks
<1> DEFINE h == BlockTxs[task.block.i]
<1>4. task.block.i <= Len(BlockTxs) => h \in Tx /\ h \in Object
  BY <1>1, <1>2 DEF Object
<1> HIDE DEF h
<1>5. CASE BlockNext
  <2>1. UNCHANGED <<queue, ignored, requestChan, handlerChan, lock, requester, group, network, have>>
    BY <1>5 DEF BlockNext, tracker
  <2>2. CASE task.block.i > Len(BlockTxs) \/ ~Queued(h)
    <3>1. /\ task' \in [sync : Users, block : Users]
          /\ \A t \in {"sync", "block"} : task'[t].blockers = task[t].blockers
          /\ task'.sync = task.sync
          /\ task'.block.pc \in {"push", "send", "subscribe"} => task'.block.i <= Len(BlockTxs)
      BY <1>1, <1>2, <1>5, <2>2 DEF BlockNext, Goto, Advance, Users, h
    <3>2. Placed' BY <1>3, <3>1 DEF TrackerInv, Placed, SyncBlocks, BlockTxs
    <3>3. ChannelTypes' BY <2>1, ChannelsKept DEF TrackerInv
    <3>4. QueueTypes' /\ Locked' /\ Stopped' /\ WaitsOnQueued' BY <1>3, <2>1, <3>1, TaskStep
    <3>5. QED BY <3>2, <3>3, <3>4 DEF TrackerInv
  <2>3. CASE ~(task.block.i > Len(BlockTxs)) /\ Queued(h)
    <3>1. task' = [task EXCEPT !.block.i = @ + 1, !.block.blockers = @ \cup {h}]
      BY <1>5, <2>3 DEF BlockNext, h
    <3>2. h \in Object BY <1>1, <1>2, <1>4, <2>3
    <3>3. /\ task' \in [sync : Users, block : Users]
          /\ \A x \in task'.block.blockers : x \in task.block.blockers \/ x = h
          /\ task'.sync = task.sync /\ task'.block.pc = "next"
      <4>1. /\ task'.block = [task.block EXCEPT !.i = @ + 1, !.blockers = @ \cup {h}]
            /\ task'.sync = task.sync /\ DOMAIN task' = {"sync", "block"}
        BY <1>1, <3>1
      <4>2. task'.block.blockers = task.block.blockers \cup {h} /\ task'.block.pc = "next"
        BY <1>2, <1>5, <4>1 DEF Users, BlockNext
      <4>3. task.block.blockers \cup {h} \in SUBSET Object BY <1>2, <3>2 DEF Users
      <4>4. task'.block \in Users
        <5>1. task.block.i + 1 \in Nat \ {0} BY <1>2
        <5>2. task'.block = [pc |-> task.block.pc, i |-> task.block.i + 1,
                             blockers |-> task.block.blockers \cup {h}]
          BY <1>2, <4>1 DEF Users
        <5>3. task.block.pc \in {"next", "push", "send", "subscribe", "wait", "done", "failed"}
          BY <1>2 DEF Users
        <5>4. QED BY <4>3, <5>1, <5>2, <5>3 DEF Users
      <4>5. task' \in [sync : Users, block : Users] BY <1>1, <3>1, <4>1, <4>4
      <4>6. QED BY <4>1, <4>2, <4>5
    <3>4. \A t \in {"sync", "block"} : \A x \in task'[t].blockers :
             x \in task[t].blockers \/ Queued(x)
      BY <2>3, <3>3
    <3>5. Placed' BY <1>3, <3>3 DEF TrackerInv, Placed, SyncBlocks, BlockTxs
    <3>6. ChannelTypes' BY <2>1, ChannelsKept DEF TrackerInv
    <3>7. QueueTypes' /\ Locked' /\ Stopped' /\ WaitsOnQueued'
      BY <1>3, <2>1, <3>3, <3>4, TaskStep
    <3>8. QED BY <3>5, <3>6, <3>7 DEF TrackerInv
  <2>4. QED BY <2>2, <2>3
<1>6. CASE BlockPush
  <2>1. /\ UNCHANGED <<ignored, requestChan, handlerChan, lock, requester, group, network, have>>
        /\ task.block.pc = "push" /\ lock = "free"
    BY <1>6 DEF BlockPush
  <2>2. task.block.i <= Len(BlockTxs) /\ h \in Object
    BY <1>4, <2>1 DEF TrackerInv, Placed
  <2>3. ChannelTypes' BY <2>1, ChannelsKept DEF TrackerInv
  <2>4. requester = None BY <2>1 DEF TrackerInv, Locked
  <2>5. /\ task' \in [sync : Users, block : Users]
        /\ \A t \in {"sync", "block"} : task'[t].blockers = task[t].blockers
        /\ task'.sync = task.sync /\ task'.block.i = task.block.i
    BY <1>1, <1>2, <1>6 DEF BlockPush, Goto, Users
  <2>6. Placed' BY <1>3, <2>2, <2>5 DEF TrackerInv, Placed, SyncBlocks, BlockTxs
  <2>7. CASE Queued(h)
    <3>1. UNCHANGED queue BY <1>6, <2>7 DEF BlockPush, h
    <3>2. QueueTypes' /\ Locked' /\ Stopped' /\ WaitsOnQueued' BY <1>3, <2>1, <2>5, <3>1, TaskStep
    <3>3. QED BY <2>3, <2>6, <3>2 DEF TrackerInv
  <2>8. CASE ~Queued(h)
    <3> DEFINE r == NewRequest(h, BlockPeer, None)
    <3>1. r \in RequestSet BY <2>2, TrackerAssumption DEF NewRequest, RequestSet
    <3>2. queue' = Append(queue, r) BY <1>6, <2>8 DEF BlockPush, h
    <3>3. r.group = None BY DEF NewRequest
    <3> HIDE DEF r
    <3>4. queue' \in Seq(RequestSet) /\ Requests(queue') = Requests(queue) \cup {r}
      BY <3>1, <3>2, PushStep
    <3>5. QueueTypes' BY <1>3, <2>1, <2>5, <3>4 DEF TrackerInv, QueueTypes
    <3>6. Locked' BY <2>1, <2>4 DEF Locked
    <3>7. Stopped' BY <2>1, <2>5, <3>3, <3>4 DEF TrackerInv, Stopped
    <3>8. DOMAIN task = {"sync", "block"} /\ DOMAIN task' = {"sync", "block"} BY <1>1, <2>5
    <3>9. WaitsOnQueued' BY <2>5, <3>4, <3>8 DEF TrackerInv, WaitsOnQueued, Queued
    <3>10. QED BY <2>3, <2>6, <3>5, <3>6, <3>7, <3>9 DEF TrackerInv
  <2>9. QED BY <2>7, <2>8
<1>7. CASE BlockSend
  <2>1. /\ UNCHANGED <<ignored, queue, handlerChan, lock, requester, group, network, have>>
        /\ task.block.pc = "send"
    BY <1>7 DEF BlockSend
  <2>2. task.block.i <= Len(BlockTxs) /\ h \in Object
    BY <1>4, <2>1 DEF TrackerInv, Placed
  <2>3. ChannelTypes'
    <3>1. requestChan' \in Seq(Object) /\ Len(requestChan') <= REQUESTER_CHANNEL_BUFFER
      BY <1>7, <2>2, TrackerAssumption DEF BlockSend, TrackerInv, ChannelTypes, h
    <3>2. QED BY <2>1, <3>1 DEF TrackerInv, ChannelTypes, network
  <2>4. /\ task' \in [sync : Users, block : Users]
        /\ \A t \in {"sync", "block"} : task'[t].blockers = task[t].blockers
        /\ task'.sync = task.sync /\ task'.block.i = task.block.i
    BY <1>1, <1>2, <1>7 DEF BlockSend, Goto, Users
  <2>5. Placed' BY <1>3, <2>2, <2>4 DEF TrackerInv, Placed, SyncBlocks, BlockTxs
  <2>6. QueueTypes' /\ Locked' /\ Stopped' /\ WaitsOnQueued' BY <1>3, <2>1, <2>4, TaskStep
  <2>7. QED BY <2>3, <2>5, <2>6 DEF TrackerInv
<1>8. CASE BlockSubscribe
  <2>1. /\ UNCHANGED <<queue, ignored, requestChan, handlerChan, lock, requester, group, network, have>>
        /\ task.block.pc = "subscribe"
    BY <1>8 DEF BlockSubscribe, tracker
  <2>2. h \in Object BY <1>4, <2>1 DEF TrackerInv, Placed
  <2>3. task' = [task EXCEPT !.block.pc = "next", !.block.i = @ + 1,
                             !.block.blockers = IF Queued(h) THEN @ \cup {h} ELSE @]
    BY <1>8 DEF BlockSubscribe, h
  <2>4. /\ task' \in [sync : Users, block : Users]
        /\ \A x \in task'.block.blockers : x \in task.block.blockers \/ (x = h /\ Queued(h))
        /\ task'.sync = task.sync /\ task'.block.pc = "next"
    <3> DEFINE b == IF Queued(h) THEN task.block.blockers \cup {h} ELSE task.block.blockers
    <3>1. b \in SUBSET Object /\ (\A x \in b : x \in task.block.blockers \/ (x = h /\ Queued(h)))
      BY <1>2, <2>2 DEF Users
    <3>2. task' = [task EXCEPT !.block.pc = "next", !.block.i = @ + 1, !.block.blockers = b]
      BY <2>3
    <3> HIDE DEF b
    <3>3. /\ task'.block = [task.block EXCEPT !.pc = "next", !.i = @ + 1, !.blockers = b]
          /\ task'.sync = task.sync
      BY <1>1, <3>2
    <3>4. task'.block \in Users /\ task'.block.blockers = b /\ task'.block.pc = "next"
      <4>1. task.block.i + 1 \in Nat \ {0} BY <1>2
      <4>2. task'.block = [pc |-> "next", i |-> task.block.i + 1, blockers |-> b]
        BY <1>2, <3>3 DEF Users
      <4>3. QED BY <3>1, <4>1, <4>2 DEF Users
    <3>5. task' \in [sync : Users, block : Users] BY <1>1, <3>2, <3>3, <3>4
    <3>6. QED BY <3>1, <3>3, <3>4, <3>5
  <2>5. \A t \in {"sync", "block"} : \A x \in task'[t].blockers :
           x \in task[t].blockers \/ Queued(x)
    BY <2>4
  <2>6. Placed' BY <1>3, <2>4 DEF TrackerInv, Placed, SyncBlocks, BlockTxs
  <2>7. ChannelTypes' BY <2>1, ChannelsKept DEF TrackerInv
  <2>8. QueueTypes' /\ Locked' /\ Stopped' /\ WaitsOnQueued'
    BY <1>3, <2>1, <2>4, <2>5, TaskStep
  <2>9. QED BY <2>6, <2>7, <2>8 DEF TrackerInv
<1>9. CASE BlockBuild
  <2>1. UNCHANGED <<queue, ignored, requestChan, handlerChan, lock, requester, group, network, have>>
    BY <1>9 DEF BlockBuild, tracker
  <2>2. /\ task' \in [sync : Users, block : Users]
        /\ \A t \in {"sync", "block"} : task'[t].blockers = task[t].blockers
        /\ task'.sync = task.sync /\ task'.block.pc \in {"done", "failed"}
    BY <1>1, <1>2, <1>9 DEF BlockBuild, Goto, Users
  <2>3. Placed' BY <1>3, <2>2 DEF TrackerInv, Placed, SyncBlocks, BlockTxs
  <2>4. ChannelTypes' BY <2>1, ChannelsKept DEF TrackerInv
  <2>5. QueueTypes' /\ Locked' /\ Stopped' /\ WaitsOnQueued' BY <1>3, <2>1, <2>2, TaskStep
  <2>6. QED BY <2>3, <2>4, <2>5 DEF TrackerInv
<1>10. QED BY <1>5, <1>6, <1>7, <1>8, <1>9 DEF Blocks

(* The place of the tasks does not change.                                        *)
LEMMA PlacesKept ==
  ASSUME Placed, UNCHANGED work,
         \A t \in {"sync", "block"} : task'[t].pc = task[t].pc /\ task'[t].i = task[t].i
  PROVE  Placed'
  BY DEF Placed, SyncBlocks, BlockTxs

(* The requester takes a request, and then sends it or drops it with its peer.    *)
LEMMA RequesterStep == ASSUME TrackerInv, Requester PROVE TrackerInv'
<1>1. UNCHANGED work BY DEF Requester
<1>2. CASE RequesterTake
  <2>1. /\ UNCHANGED <<ignored, handlerChan, group, network, task, have>>
        /\ requester = None /\ requestChan # <<>> /\ requestChan' = Tail(requestChan)
    BY <1>2 DEF RequesterTake
  <2>2. Head(requestChan) \in Object /\ ChannelTypes'
    BY <2>1, TrackerAssumption DEF TrackerInv, ChannelTypes, network
  <2>3. Placed' BY <1>1, <2>1 DEF TrackerInv, Placed, SyncBlocks, BlockTxs
  <2> PICK h \in Object : h = Head(requestChan) BY <2>2
  <2>4. CASE Queued(h)
    <3> DEFINE mark == [r \in RequestSet |-> IF r.hash = h THEN [r EXCEPT !.asked = "fresh"] ELSE r]
    <3>1. /\ queue' = [i \in DOMAIN queue |-> IF queue[i].hash = h
                         THEN [queue[i] EXCEPT !.asked = "fresh"] ELSE queue[i]]
          /\ requester' = h /\ lock' = "requester"
      BY <1>2, <2>4 DEF RequesterTake
    <3>2. \A i \in DOMAIN queue : queue[i] \in RequestSet BY DEF TrackerInv, QueueTypes
    <3>3. queue' = [i \in DOMAIN queue |-> mark[queue[i]]] BY <3>1, <3>2
    <3>4. /\ mark \in [RequestSet -> RequestSet]
          /\ \A r \in RequestSet : mark[r].hash = r.hash /\ mark[r].group = r.group
      BY DEF RequestSet
    <3> HIDE DEF mark
    <3>5. /\ queue' \in Seq(RequestSet) /\ WaitsOnQueued' /\ Stopped'
          /\ \A x : Queued(x) => Queued(x)'
      BY <2>1, <3>3, <3>4, MarkStep
    <3>6. QueueTypes' BY <1>1, <2>1, <2>2, <3>1, <3>5 DEF TrackerInv, QueueTypes
    <3>7. Queued(h)' BY <2>4, <3>5
    <3>8. Locked' BY <3>1, <3>7 DEF Locked, Queued
    <3>9. QED BY <2>2, <2>3, <3>5, <3>6, <3>8 DEF TrackerInv
  <2>5. CASE ~Queued(h)
    <3>1. UNCHANGED <<queue, requester, lock>> BY <1>2, <2>5 DEF RequesterTake
    <3>2. QED BY <1>1, <2>1, <2>2, <2>3, <3>1
      DEF TrackerInv, QueueTypes, Locked, Stopped, WaitsOnQueued, Queued
  <2>6. QED BY <2>4, <2>5
<1>3. CASE RequesterSend
  <2> DEFINE r == Request(requester)
  <2>1. /\ UNCHANGED <<requestChan, handlerChan, inbox, closed, reader, have>>
        /\ requester # None /\ requester' = None /\ lock' = "free"
    BY <1>3 DEF RequesterSend
  <2>2. Queued(requester) BY <2>1 DEF TrackerInv, Locked
  <2>3. r \in Requests(queue) BY <2>2 DEF Queued, Request
  <2>4. queue \in Seq(RequestSet) /\ r \in RequestSet
    BY <2>3 DEF TrackerInv, QueueTypes, Requests, Range
  <2> HIDE DEF r
  <2>5. Locked' BY <2>1 DEF Locked
  <2>6. CASE CleanQueue(queue, r) /\ UNCHANGED out
    <3>1. /\ queue' \in Seq(RequestSet) /\ ignored' \subseteq Object
          /\ group' \in {"open", "failed", "gone"}
          /\ task' \in [sync : Users, block : Users]
          /\ \A t \in {"sync", "block"} : task'[t].pc = task[t].pc /\ task'[t].i = task[t].i
          /\ WaitsOnQueued' /\ Stopped'
      BY <2>3, <2>4, <2>6, CleanStep
    <3>2. QueueTypes' BY <1>1, <2>1, <3>1 DEF TrackerInv, QueueTypes
    <3>3. Placed' BY <1>1, <3>1, PlacesKept DEF TrackerInv
    <3>4. ChannelTypes' BY <2>1, <2>6 DEF TrackerInv, ChannelTypes
    <3>5. QED BY <2>5, <3>1, <3>2, <3>3, <3>4 DEF TrackerInv
  <2>7. CASE /\ Len(out[r.peer]) < PEER_PACKET_CHANNEL_SIZE
             /\ out' = [out EXCEPT ![r.peer] = Append(@, r.hash)]
             /\ UNCHANGED <<queue, ignored, task, group>>
    <3>1. r.peer \in Peer /\ r.hash \in Object BY <2>4 DEF RequestSet
    <3>2. out' \in [Peer -> Seq(Object)] /\ (\A p \in Peer : Len(out'[p]) <= PEER_PACKET_CHANNEL_SIZE)
      BY <2>7, <3>1, TrackerAssumption DEF TrackerInv, ChannelTypes
    <3>3. ChannelTypes' BY <2>1, <3>2 DEF TrackerInv, ChannelTypes
    <3>4. QED BY <1>1, <2>1, <2>5, <2>7, <3>3
      DEF TrackerInv, QueueTypes, Placed, Stopped, WaitsOnQueued, Queued, SyncBlocks, BlockTxs
  <2>8. QED BY <1>3, <2>6, <2>7 DEF RequesterSend, r
<1>4. QED BY <1>2, <1>3 DEF Requester

(* The handler executes what is at the head of the queue.                         *)
LEMMA HandlerStep == ASSUME TrackerInv, Handler PROVE TrackerInv'
<1>1. UNCHANGED work BY DEF Handler
<1>2. queue \in Seq(RequestSet) BY DEF TrackerInv, QueueTypes
<1>3. CASE HandlerReceive
  <2> DEFINE m == Head(handlerChan)
             mark == [r \in RequestSet |-> IF r.hash = m.hash THEN [r EXCEPT !.response = m.type] ELSE r]
  <2>1. /\ UNCHANGED <<ignored, requestChan, lock, requester, group, network, task, have>>
        /\ handlerChan # <<>> /\ handlerChan' = Tail(handlerChan) /\ lock = "free"
    BY <1>3 DEF HandlerReceive
  <2>2. m \in Answers /\ ChannelTypes'
    BY <2>1, TrackerAssumption DEF TrackerInv, ChannelTypes, network
  <2> HIDE DEF m
  <2>3. queue' = [i \in DOMAIN queue |-> IF queue[i].hash = m.hash
                    THEN [queue[i] EXCEPT !.response = m.type] ELSE queue[i]]
    BY <1>3 DEF HandlerReceive, m
  <2>4. \A i \in DOMAIN queue : queue[i] \in RequestSet BY <1>2
  <2>5. queue' = [i \in DOMAIN queue |-> mark[queue[i]]] BY <2>3, <2>4
  <2>6. /\ mark \in [RequestSet -> RequestSet]
        /\ \A r \in RequestSet : mark[r].hash = r.hash /\ mark[r].group = r.group
    BY <2>2 DEF RequestSet, Answers
  <2> HIDE DEF mark
  <2>7. /\ queue' \in Seq(RequestSet) /\ WaitsOnQueued' /\ Stopped'
        /\ \A x : Queued(x) => Queued(x)'
    BY <2>1, <2>5, <2>6, MarkStep
  <2>8. QueueTypes' BY <1>1, <2>1, <2>7 DEF TrackerInv, QueueTypes
  <2>9. Locked' BY <2>1 DEF TrackerInv, Locked
  <2>10. Placed' BY <1>1, <2>1 DEF TrackerInv, Placed, SyncBlocks, BlockTxs
  <2>11. QED BY <2>2, <2>7, <2>8, <2>9, <2>10 DEF TrackerInv
<1>4. CASE HandlerTick \/ HandlerIdle
  BY <1>1, <1>4 DEF HandlerTick, HandlerIdle, TrackerInv, QueueTypes, ChannelTypes, Placed, Locked, Stopped,
     WaitsOnQueued, Queued, SyncBlocks, BlockTxs, network
<1>5. CASE HandlerAccept
  <2>1. /\ UNCHANGED <<ignored, requestChan, handlerChan, requester, group, network>>
        /\ lock \in {"free", "handler"} /\ queue # <<>>
        /\ have' \subseteq have \cup {Head(queue).hash}
        /\ queue' = Tail(queue) /\ lock' \in {"free", "handler"}
        /\ task' = Woken({Head(queue).hash})
    BY <1>5 DEF HandlerAccept, Draining, Drained, Work
  <2>2. Requests(queue) = Requests(queue') \cup {Head(queue)}
    BY <1>2, <2>1, TailRange DEF Requests
  <2>3. queue' \in Seq(RequestSet) /\ Head(queue).hash \in Object
    <3>1. queue' \in Seq(RequestSet) /\ Head(queue) \in RequestSet BY <1>2, <2>1
    <3>2. QED BY <3>1 DEF RequestSet
  <2>4. task \in [sync : Users, block : Users] BY DEF TrackerInv, QueueTypes
  <2>5. /\ task' \in [sync : Users, block : Users]
        /\ \A t \in {"sync", "block"} :
              /\ task'[t].pc = task[t].pc /\ task'[t].i = task[t].i
              /\ task'[t].blockers = task[t].blockers \ {Head(queue).hash}
    BY <2>1, <2>4, Woke
  <2>6. QueueTypes' BY <1>1, <2>1, <2>3, <2>5 DEF TrackerInv, QueueTypes
  <2>7. ChannelTypes' BY <2>1, ChannelsKept DEF TrackerInv
  <2>8. Placed' BY <1>1, <2>5, PlacesKept DEF TrackerInv
  <2>9. Locked' BY <2>1 DEF TrackerInv, Locked
  <2>10. Stopped' BY <2>1, <2>2, <2>5 DEF TrackerInv, Stopped
  <2>11. DOMAIN task = {"sync", "block"} /\ DOMAIN task' = {"sync", "block"} BY <2>4, <2>5
  <2>12. WaitsOnQueued' BY <2>2, <2>5, <2>11 DEF TrackerInv, WaitsOnQueued, Queued
  <2>13. QED BY <2>6, <2>7, <2>8, <2>9, <2>10, <2>12 DEF TrackerInv
<1>6. CASE HandlerFail
  <2>1. /\ UNCHANGED <<requestChan, handlerChan, requester, network, have>>
        /\ lock \in {"free", "handler"} /\ queue # <<>> /\ lock' \in {"free", "handler"}
        /\ CleanQueue(Tail(queue), Head(queue))
    BY <1>6 DEF HandlerFail, Draining, Drained, Work
  <2>2. Requests(queue) = Requests(Tail(queue)) \cup {Head(queue)}
    BY <1>2, <2>1, TailRange DEF Requests
  <2>3. Tail(queue) \in Seq(RequestSet) /\ Head(queue) \in RequestSet BY <1>2, <2>1
  <2>4. /\ queue' \in Seq(RequestSet) /\ ignored' \subseteq Object
        /\ group' \in {"open", "failed", "gone"}
        /\ task' \in [sync : Users, block : Users]
        /\ \A t \in {"sync", "block"} : task'[t].pc = task[t].pc /\ task'[t].i = task[t].i
        /\ WaitsOnQueued' /\ Stopped'
    BY <2>1, <2>2, <2>3, CleanStep
  <2>5. QueueTypes' BY <1>1, <2>1, <2>4 DEF TrackerInv, QueueTypes
  <2>6. ChannelTypes' BY <2>1, ChannelsKept DEF TrackerInv
  <2>7. Placed' BY <1>1, <2>4, PlacesKept DEF TrackerInv
  <2>8. Locked' BY <2>1 DEF TrackerInv, Locked
  <2>9. QED BY <2>4, <2>5, <2>6, <2>7, <2>8 DEF TrackerInv
<1>7. QED BY <1>3, <1>4, <1>5, <1>6 DEF Handler

(* Neither the queue nor the tasks change.                                        *)
LEMMA QueueKept ==
  ASSUME TrackerInv, UNCHANGED <<work, queue, lock, requester, group, task, have>>,
         ignored' \subseteq Object, ChannelTypes'
  PROVE  TrackerInv'
  BY DEF TrackerInv, QueueTypes, Placed, Locked, Stopped, WaitsOnQueued, Queued, SyncBlocks, BlockTxs

(* A reader handles the packets of its peer, one at a time.                       *)
LEMMA ReadStep == ASSUME TrackerInv, NEW p \in Peer, Read(p) PROVE TrackerInv'
<1>1. UNCHANGED work BY DEF Read
<1>2. ChannelTypes /\ reader[p] \in Readers BY DEF TrackerInv, ChannelTypes
<1>3. ignored \subseteq Object BY DEF TrackerInv, QueueTypes
<1>4. Listen \in Readers BY DEF Listen, Readers
<1>5. CASE ReadPacket(p)
  <2>1. /\ UNCHANGED <<queue, requestChan, handlerChan, lock, requester, group, out, closed, task, have>>
        /\ inbox[p] # <<>> /\ inbox' = [inbox EXCEPT ![p] = Tail(@)]
        /\ ignored' \subseteq ignored
    BY <1>5 DEF ReadPacket
  <2>2. PICK m : m = Head(inbox[p]) OBVIOUS
  <2>3. m \in Packets /\ inbox' \in [Peer -> Seq(Packets)]
    BY <1>2, <2>1, <2>2 DEF ChannelTypes
  <2>4. PICK s \in Readers :
          /\ reader' = [reader EXCEPT ![p] = s]
          /\ s.pc # "listen" => s.hash \in Object
          /\ s.pc \in {"offer", "deliver"} => s.type \in {"object", "notfound"}
    <3>1. CASE UNCHANGED reader
      <4>1. reader' = [reader EXCEPT ![p] = reader[p]] BY <1>2, <3>1 DEF ChannelTypes
      <4>2. QED BY <1>2, <4>1 DEF ChannelTypes
    <3>2. CASE /\ m.type = "propagation"
               /\ reader' = [reader EXCEPT ![p] = [pc |-> "push", hash |-> m.hash, type |-> m.type]]
      <4>1. [pc |-> "push", hash |-> m.hash, type |-> m.type] \in Readers
        BY <2>3 DEF Packets, Readers
      <4>2. m.hash \in Object BY <2>3 DEF Packets
      <4>3. QED BY <3>2, <4>1, <4>2
    <3>3. CASE /\ m.type # "propagation"
               /\ reader' = [reader EXCEPT ![p] = [pc |-> "offer", hash |-> m.hash, type |-> m.type]]
      <4>1. [pc |-> "offer", hash |-> m.hash, type |-> m.type] \in Readers
        BY <2>3 DEF Packets, Readers
      <4>2. m.hash \in Object /\ m.type \in {"object", "notfound"} BY <2>3, <3>3 DEF Packets
      <4>3. QED BY <3>3, <4>1, <4>2
    <3>4. QED BY <1>5, <2>2, <3>1, <3>2, <3>3 DEF ReadPacket
  <2>5. ChannelTypes' BY <1>2, <2>1, <2>3, <2>4 DEF ChannelTypes
  <2>6. QED BY <1>1, <1>3, <2>1, <2>5, QueueKept
<1>6. CASE ReadOffer(p)
  <2>1. /\ UNCHANGED <<tracker, out, inbox, closed, task, have>> /\ reader[p].pc = "offer"
        /\ \/ reader' = [reader EXCEPT ![p].pc = "deliver"]
           \/ reader' = [reader EXCEPT ![p] = Listen]
    BY <1>6 DEF ReadOffer
  <2>2. CASE reader' = [reader EXCEPT ![p].pc = "deliver"]
    <3>1. [reader[p] EXCEPT !.pc = "deliver"] \in Readers BY <1>2 DEF Readers
    <3>2. /\ [reader[p] EXCEPT !.pc = "deliver"].hash = reader[p].hash
          /\ [reader[p] EXCEPT !.pc = "deliver"].type = reader[p].type
      BY <1>2 DEF Readers
    <3>3. QED BY <1>1, <1>2, <1>3, <2>1, <2>2, <3>1, <3>2, QueueKept DEF ChannelTypes, tracker
  <2>3. CASE reader' = [reader EXCEPT ![p] = Listen]
    <3>1. ChannelTypes' BY <1>2, <1>4, <2>1, <2>3 DEF ChannelTypes, Listen, tracker
    <3>2. QED BY <1>1, <1>3, <2>1, <3>1, QueueKept DEF tracker
  <2>4. QED BY <2>1, <2>2, <2>3
<1>7. CASE ReadDeliver(p)
  <2>1. /\ UNCHANGED <<ignored, queue, requestChan, lock, requester, group, out, inbox, task, have>>
        /\ reader[p].pc = "deliver" /\ Len(handlerChan) < HANDLER_CHANNEL_BUFFER
        /\ handlerChan' = Append(handlerChan, [type |-> reader[p].type, hash |-> reader[p].hash])
        /\ reader' = [reader EXCEPT ![p] = Listen]
    BY <1>7 DEF ReadDeliver
  <2>2. [type |-> reader[p].type, hash |-> reader[p].hash] \in Answers
    BY <1>2, <2>1 DEF ChannelTypes, Answers
  <2>3. handlerChan' \in Seq(Answers) /\ Len(handlerChan') <= HANDLER_CHANNEL_BUFFER
    BY <1>2, <2>1, <2>2, TrackerAssumption DEF ChannelTypes
  <2>4. ChannelTypes' BY <1>2, <1>4, <2>1, <2>3 DEF ChannelTypes, Listen
  <2>5. QED BY <1>1, <1>3, <2>1, <2>4, QueueKept
<1>8. CASE ReadPush(p)
  <2>1. /\ UNCHANGED <<ignored, requestChan, handlerChan, lock, requester, group, out, inbox, task, have>>
        /\ reader[p].pc = "push" /\ lock = "free"
    BY <1>8 DEF ReadPush
  <2>2. reader[p].hash \in Object BY <1>2, <2>1 DEF ChannelTypes
  <2>3. CASE Queued(reader[p].hash)
    <3>1. UNCHANGED queue /\ reader' = [reader EXCEPT ![p] = Listen] BY <1>8, <2>3 DEF ReadPush
    <3>2. ChannelTypes' BY <1>2, <1>4, <2>1, <3>1 DEF ChannelTypes, Listen
    <3>3. QED BY <1>1, <1>3, <2>1, <3>1, <3>2, QueueKept
  <2>4. CASE ~Queued(reader[p].hash)
    <3> DEFINE r == NewRequest(reader[p].hash, p, None)
    <3>1. queue' = Append(queue, r) /\ reader' = [reader EXCEPT ![p].pc = "send"]
      BY <1>8, <2>4 DEF ReadPush
    <3>2. r \in RequestSet /\ r.group = None BY <2>2 DEF NewRequest, RequestSet
    <3> HIDE DEF r
    <3>3. queue' \in Seq(RequestSet) /\ Requests(queue') = Requests(queue) \cup {r}
      BY <3>1, <3>2, PushStep
    <3>4. [reader[p] EXCEPT !.pc = "send"] \in Readers /\ [reader[p] EXCEPT !.pc = "send"].hash = reader[p].hash
          /\ [reader[p] EXCEPT !.pc = "send"].pc = "send"
      BY <1>2 DEF Readers
    <3>5. ChannelTypes' BY <1>2, <2>1, <2>2, <3>1, <3>4 DEF ChannelTypes
    <3>6. QueueTypes' BY <1>1, <2>1, <3>3 DEF TrackerInv, QueueTypes
    <3>7. Locked' BY <2>1 DEF TrackerInv, Locked
    <3>8. Stopped' BY <2>1, <3>2, <3>3 DEF TrackerInv, Stopped
    <3>9. WaitsOnQueued' BY <2>1, <3>3 DEF TrackerInv, WaitsOnQueued, Queued
    <3>10. Placed' BY <1>1, <2>1 DEF TrackerInv, Placed, SyncBlocks, BlockTxs
    <3>11. QED BY <3>5, <3>6, <3>7, <3>8, <3>9, <3>10 DEF TrackerInv
  <2>5. QED BY <2>3, <2>4
<1>9. CASE ReadSend(p)
  <2>1. /\ UNCHANGED <<ignored, queue, handlerChan, lock, requester, group, out, inbox, task, have>>
        /\ reader[p].pc = "send" /\ Len(requestChan) < REQUESTER_CHANNEL_BUFFER
        /\ requestChan' = Append(requestChan, reader[p].hash)
        /\ reader' = [reader EXCEPT ![p] = Listen]
    BY <1>9 DEF ReadSend
  <2>2. reader[p].hash \in Object BY <1>2, <2>1 DEF ChannelTypes
  <2>3. requestChan' \in Seq(Object) /\ Len(requestChan') <= REQUESTER_CHANNEL_BUFFER
    BY <1>2, <2>1, <2>2, TrackerAssumption DEF ChannelTypes
  <2>4. ChannelTypes' BY <1>2, <1>4, <2>1, <2>3 DEF ChannelTypes, Listen
  <2>5. QED BY <1>1, <1>3, <2>1, <2>4, QueueKept
<1>10. QED BY <1>5, <1>6, <1>7, <1>8, <1>9 DEF Read

(* Requests are written and answered, and connections close.                      *)
LEMMA PeerStep == ASSUME TrackerInv, NEW p \in Peer, Write(p) \/ Leave(p) PROVE TrackerInv'
<1>1. ChannelTypes /\ ignored \subseteq Object BY DEF TrackerInv, QueueTypes
<1>2. CASE Write(p)
  <2>1. /\ UNCHANGED <<work, tracker, reader, task, have>> /\ out[p] # <<>>
        /\ out' = [out EXCEPT ![p] = Tail(@)]
        /\ \/ UNCHANGED inbox
           \/ \E type \in {"object", "notfound"} :
                 inbox' = [inbox EXCEPT ![p] = Append(@, [type |-> type, hash |-> Head(out[p])])]
    BY <1>2 DEF Write, WriteTask
  <2>2. /\ out' \in [Peer -> Seq(Object)] /\ Head(out[p]) \in Object
        /\ \A q \in Peer : Len(out'[q]) <= PEER_PACKET_CHANNEL_SIZE
    BY <1>1, <2>1, TrackerAssumption DEF ChannelTypes
  <2>3. inbox' \in [Peer -> Seq(Packets)]
    <3>1. \A type \in {"object", "notfound"} : [type |-> type, hash |-> Head(out[p])] \in Packets
      BY <2>2 DEF Packets
    <3>2. inbox \in [Peer -> Seq(Packets)] BY <1>1 DEF ChannelTypes
    <3>3. CASE UNCHANGED inbox BY <3>2, <3>3
    <3>4. CASE \E type \in {"object", "notfound"} :
                 inbox' = [inbox EXCEPT ![p] = Append(@, [type |-> type, hash |-> Head(out[p])])]
      <4>1. PICK type \in {"object", "notfound"} :
                 inbox' = [inbox EXCEPT ![p] = Append(@, [type |-> type, hash |-> Head(out[p])])]
        BY <3>4
      <4>2. PICK m \in Packets : m = [type |-> type, hash |-> Head(out[p])] BY <3>1
      <4>3. inbox' = [inbox EXCEPT ![p] = Append(inbox[p], m)] BY <4>1, <4>2
      <4>4. Append(inbox[p], m) \in Seq(Packets) BY <3>2
      <4>5. QED BY <3>2, <4>3, <4>4
    <3>5. QED BY <2>1, <3>3, <3>4
  <2>4. ChannelTypes' BY <1>1, <2>1, <2>2, <2>3 DEF ChannelTypes, tracker
  <2>5. QED BY <1>1, <2>1, <2>4, QueueKept DEF tracker
<1>3. CASE Leave(p)
  <2>1. /\ UNCHANGED <<work, tracker, task, have>>
        /\ out' = [out EXCEPT ![p] = <<>>] /\ inbox' = [inbox EXCEPT ![p] = <<>>]
        /\ reader' = [reader EXCEPT ![p] = Listen]
    BY <1>3 DEF Leave, Close
  <2>2. Listen \in Readers BY DEF Listen, Readers
  <2>3. out' \in [Peer -> Seq(Object)] /\ (\A q \in Peer : Len(out'[q]) <= PEER_PACKET_CHANNEL_SIZE)
    BY <1>1, <2>1, TrackerAssumption DEF ChannelTypes
  <2>4. inbox' \in [Peer -> Seq(Packets)] BY <1>1, <2>1 DEF ChannelTypes
  <2>5. ChannelTypes' BY <1>1, <2>1, <2>2, <2>3, <2>4 DEF ChannelTypes, Listen, tracker
  <2>6. QED BY <1>1, <2>1, <2>5, QueueKept DEF tracker
<1>4. QED BY <1>2, <1>3

(* Requests time out, and cancelled ones are forgotten.                           *)
LEMMA TimeStep == ASSUME TrackerInv, NEW h \in Object, Passes(h) \/ Cleaner(h) PROVE TrackerInv'
<1>1. CASE Passes(h)
  <2> DEFINE mark == [r \in RequestSet |-> IF r.hash = h THEN [r EXCEPT !.asked = "expired"] ELSE r]
  <2>1. /\ UNCHANGED <<work, ignored, requestChan, handlerChan, lock, requester, group, network, task, have>>
        /\ queue' = [i \in DOMAIN queue |-> IF queue[i].hash = h
                        THEN [queue[i] EXCEPT !.asked = "expired"] ELSE queue[i]]
    BY <1>1 DEF Passes, Expire
  <2>2. \A i \in DOMAIN queue : queue[i] \in RequestSet BY DEF TrackerInv, QueueTypes
  <2>3. queue' = [i \in DOMAIN queue |-> mark[queue[i]]] BY <2>1, <2>2
  <2>4. /\ mark \in [RequestSet -> RequestSet]
        /\ \A r \in RequestSet : mark[r].hash = r.hash /\ mark[r].group = r.group
    BY DEF RequestSet
  <2> HIDE DEF mark
  <2>5. /\ queue' \in Seq(RequestSet) /\ WaitsOnQueued' /\ Stopped'
        /\ \A x : Queued(x) => Queued(x)'
    BY <2>1, <2>3, <2>4, MarkStep
  <2>6. QueueTypes' BY <2>1, <2>5 DEF TrackerInv, QueueTypes
  <2>7. PICK x : x = requester OBVIOUS
  <2>8. Locked'
    <3>1. x # None => lock = "requester" /\ Queued(x) BY <2>7 DEF TrackerInv, Locked
    <3>2. x # None => Queued(x)' BY <2>5, <3>1
    <3>3. QED BY <2>1, <2>7, <3>1, <3>2 DEF Locked, Queued
  <2>9. Placed' BY <2>1 DEF TrackerInv, Placed, SyncBlocks, BlockTxs
  <2>10. ChannelTypes' BY <2>1, ChannelsKept DEF TrackerInv
  <2>11. QED BY <2>5, <2>6, <2>8, <2>9, <2>10 DEF TrackerInv
<1>2. CASE Cleaner(h)
  <2>1. /\ UNCHANGED <<work, queue, requestChan, handlerChan, lock, requester, group, network, task, have>>
        /\ ignored' \subseteq ignored
    BY <1>2 DEF Cleaner, CleanCache
  <2>2. ignored' \subseteq Object BY <2>1 DEF TrackerInv, QueueTypes
  <2>3. ChannelTypes' BY <2>1, ChannelsKept DEF TrackerInv
  <2>4. QED BY <2>1, <2>2, <2>3, QueueKept
<1>3. QED BY <1>1, <1>2

-------------------------------------------------------------------------------
(* The inductive invariant holds in every state of the tracker.                   *)
THEOREM TrackerInvariant == Spec => []TrackerInv
<1>1. TrackerInv /\ [Next]_vars => TrackerInv'
  <2>1. SUFFICES ASSUME TrackerInv, [Next]_vars PROVE TrackerInv' OBVIOUS
  <2>2. CASE UNCHANGED vars
    <3>1. ChannelTypes' /\ ignored' \subseteq Object
      BY <2>1, <2>2, ChannelsKept DEF TrackerInv, QueueTypes, vars, tracker, network
    <3>2. QED BY <2>1, <2>2, <3>1, QueueKept DEF vars, tracker, network
  <2>3. QED BY <2>1, <2>2, SyncStep, BlockStep, HandlerStep, RequesterStep, ReadStep, PeerStep, TimeStep
    DEF Next
<1>2. QED BY TrackerStart, <1>1, PTL DEF Spec

(* No wake-up is lost: whatever times out, fails, is cancelled or closes, a task that
   waits for an object waits for a request that is still in the queue.            *)
THEOREM TrackerWaits == Spec => []WaitsOnQueued
<1>1. TrackerInv => WaitsOnQueued BY DEF TrackerInv
<1>2. QED BY TrackerInvariant, <1>1, PTL

(* The queue and the channels keep their types and their bounds.                  *)
THEOREM TrackerTypes == Spec => []TypeOK
<1>1. TrackerInv => TypeOK
  <2> SUFFICES ASSUME TrackerInv PROVE TypeOK OBVIOUS
  <2>1. \A r \in Requests(queue) : r \in RequestSet
    BY DEF TrackerInv, QueueTypes, Requests, Range
  <2>2. QED BY <2>1 DEF TrackerInv, QueueTypes, ChannelTypes, TypeOK, RequestSet
<1>2. QED BY TrackerInvariant, <1>1, PTL

(* A failed group stops: at most one more of its blocks is asked for.             *)
THEOREM TrackerGroupStops == Spec => []GroupStops
<1>1. TrackerInv => GroupStops
  <2> SUFFICES ASSUME TrackerInv, group = "failed"
               PROVE  Cardinality({r \in Requests(queue) : r.group # None}) <= 1
    BY DEF GroupStops
  <2> DEFINE left == {r \in Requests(queue) : r.group # None}
  <2>1. \A r1, r2 \in left : r1 = r2 BY DEF TrackerInv, Stopped
  <2>2. left = {} \/ (\E x : left = {x})
    <3> HIDE DEF left
    <3>1. QED BY <2>1
  <2> HIDE DEF left
  <2>3. Cardinality({}) = 0 BY FS_EmptySet
  <2>4. ASSUME NEW x, left = {x} PROVE Cardinality(left) = 1
    <3>1. Cardinality({x}) = 1 BY FS_Singleton
    <3>2. QED BY <2>4, <3>1
  <2>5. Cardinality(left) <= 1
    <3>1. CASE left = {} BY <2>3, <3>1
    <3>2. CASE \E x : left = {x}
      <4>1. Cardinality(left) = 1 BY <2>4, <3>2
      <4>2. QED BY <4>1
    <3>3. QED BY <2>2, <3>1, <3>2
  <2>6. QED BY <2>5 DEF left
<1>2. QED BY TrackerInvariant, <1>1, PTL
-------------------------------------------------------------------------------
(* Who is blamed. An object that is asked has a token: its hash is being sent,
   leaves to the peer, comes back as an answer, is handed over by a reader, or
   waits for the handler. An answer that finds no request is blamed on the peer
   unless it is to be ignored, so the tokens of an object have to be counted.     *)
Seen(s, h) == {i \in DOMAIN s : s[i] = h}
Told(s, h) == {i \in DOMAIN s : s[i].type # "propagation" /\ s[i].hash = h}

Asking(q, h)  == IF q = h THEN {<<"asking", None, 0>>} ELSE {}
Leaving(o, h) == UNION {{<<"leaving", p, i>> : i \in Seen(o[p], h)} : p \in Peer}
Coming(b, h)  == UNION {{<<"coming", p, i>> : i \in Told(b[p], h)} : p \in Peer}
Handed(r, h)  == {<<"handed", p, 0>> : p \in {x \in Peer : /\ r[x].pc \in {"offer", "deliver"}
                                                           /\ r[x].hash = h}}
Waiting(c, h) == {<<"waiting", None, i>> : i \in Told(c, h)}

TokensOf(q, o, b, r, c, h) ==
    Asking(q, h) \cup Leaving(o, h) \cup Coming(b, h) \cup Handed(r, h) \cup Waiting(c, h)

Tokens(h) == TokensOf(requester, out, inbox, reader, handlerChan, h)

\* What is known of an object that is not excused: it has at most one token; a token
\* belongs to a request that was sent or to an answer that is to be ignored, and so
\* does an answer; once it is answered it has none; its request is in the queue as
\* long as a reader hands its answer over, and has not timed out.
TokenOnce(h) ==
    /\ \A x, y \in Tokens(h) : x = y
    /\ Tokens(h) # {} => h \in ignored \/ \E r \in Requests(queue) : r.hash = h /\ r.asked = "fresh"
    /\ Handed(reader, h) # {} => Queued(h)
    /\ \A r \in Requests(queue) : r.hash = h =>
          /\ r.asked # "expired"
          /\ r.response # None => Tokens(h) = {} /\ (r.asked = "fresh" \/ h \in ignored)

\* No object is asked by two requests at a time.
Distinct == \A r1, r2 \in Requests(queue) : r1.hash = r2.hash => r1 = r2

BlameInv == Distinct /\ BlamedOnlyLate /\ \A h \in Object \ excused : TokenOnce(h)

(* Where a token may be.                                                          *)
LEMMA TokenCases ==
  ASSUME NEW q, NEW o, NEW b, NEW r, NEW c, NEW h, NEW x
  PROVE  x \in TokensOf(q, o, b, r, c, h) <=>
           \/ x = <<"asking", None, 0>> /\ q = h
           \/ \E p \in Peer : \E i \in Seen(o[p], h) : x = <<"leaving", p, i>>
           \/ \E p \in Peer : \E i \in Told(b[p], h) : x = <<"coming", p, i>>
           \/ \E p \in Peer : /\ r[p].pc \in {"offer", "deliver"} /\ r[p].hash = h
                              /\ x = <<"handed", p, 0>>
           \/ \E i \in Told(c, h) : x = <<"waiting", None, i>>
<1>1. x \in Leaving(o, h) <=> \E p \in Peer : \E i \in Seen(o[p], h) : x = <<"leaving", p, i>>
  BY SMT DEF Leaving
<1>2. x \in Coming(b, h) <=> \E p \in Peer : \E i \in Told(b[p], h) : x = <<"coming", p, i>>
  BY SMT DEF Coming
<1>3. x \in Handed(r, h) <=> \E p \in Peer : /\ r[p].pc \in {"offer", "deliver"} /\ r[p].hash = h
                                             /\ x = <<"handed", p, 0>>
  BY Zenon DEF Handed
<1>4. x \in Waiting(c, h) <=> \E i \in Told(c, h) : x = <<"waiting", None, i>>
  BY Zenon DEF Waiting
<1>5. x \in Asking(q, h) <=> x = <<"asking", None, 0>> /\ q = h
  BY Zenon DEF Asking
<1>6. QED BY <1>1, <1>2, <1>3, <1>4, <1>5, Zenon DEF TokensOf

(* A channel that is written has one place more, and one that is read has every
   place moved by one.                                                            *)
LEMMA SeenPlaces ==
  ASSUME NEW S, NEW s \in Seq(S), NEW h
  PROVE  /\ \A x \in S : \A i \in Seen(Append(s, x), h) :
               i \in Seen(s, h) \/ (x = h /\ i = Len(s) + 1)
         /\ s # <<>> => \A i \in Seen(Tail(s), h) : i + 1 \in Seen(s, h)
         /\ s # <<>> /\ Head(s) = h => 1 \in Seen(s, h)
  BY DEF Seen

LEMMA ToldPlaces ==
  ASSUME NEW S, NEW s \in Seq(S), NEW h
  PROVE  /\ \A x \in S : \A i \in Told(Append(s, x), h) :
               i \in Told(s, h) \/ (x.type # "propagation" /\ x.hash = h /\ i = Len(s) + 1)
         /\ s # <<>> => \A i \in Told(Tail(s), h) : i + 1 \in Told(s, h)
         /\ s # <<>> /\ Head(s).type # "propagation" /\ Head(s).hash = h => 1 \in Told(s, h)
  BY DEF Told

(* Tokens that move, with none that is new, leave an object with at most one.      *)
LEMMA TokenMoves ==
  ASSUME NEW h, NEW g, TokenOnce(h),
         \A x \in Tokens(h)' : \E y \in Tokens(h) : x = g[y],
         h \in ignored => h \in ignored' \/ Tokens(h)' = {},
         \A r \in Requests(queue) : r.hash = h /\ r.asked = "fresh" =>
            \/ h \in ignored' \/ Tokens(h)' = {}
            \/ \E s \in Requests(queue') : s.hash = h /\ s.asked = "fresh",
         Handed(reader', h) # {} => Queued(h)',
         \A s \in Requests(queue') : s.hash = h =>
            /\ s.asked # "expired"
            /\ s.response # None =>
                 /\ Tokens(h)' = {} \/ \E r \in Requests(queue) : r.hash = h /\ r.response # None
                 /\ s.asked = "fresh" \/ h \in ignored'
  PROVE  TokenOnce(h)'
<1>1. \A x, y \in Tokens(h)' : x = y BY DEF TokenOnce
<1>2. Tokens(h)' # {} => Tokens(h) # {} OBVIOUS
<1> HIDE DEF Tokens, Handed, Queued, Requests
<1>3. Tokens(h)' # {} => \/ h \in ignored'
                         \/ \E s \in Requests(queue') : s.hash = h /\ s.asked = "fresh"
  BY <1>2 DEF TokenOnce
<1>4. \A s \in Requests(queue') : s.hash = h /\ s.response # None => Tokens(h)' = {}
  BY <1>2 DEF TokenOnce
<1>5. QED BY <1>1, <1>3, <1>4 DEF TokenOnce

(* Nothing moves: the requests of the object may be marked as before, or go.       *)
LEMMA TokensStay ==
  ASSUME UNCHANGED <<requester, out, inbox, reader, handlerChan>>
  PROVE  \A h : Tokens(h)' = Tokens(h)
  BY DEF Tokens

(* A step that moves no token and no request.                                      *)
LEMMA BlameKept ==
  ASSUME BlameInv, UNCHANGED <<queue, ignored, excused, blamed>>,
         \A h : Tokens(h)' = Tokens(h), \A h : Handed(reader', h) = Handed(reader, h)
  PROVE  BlameInv'
<1>1. Distinct' /\ BlamedOnlyLate' BY DEF BlameInv, Distinct, BlamedOnlyLate
<1>2. ASSUME NEW h \in Object \ excused PROVE TokenOnce(h)'
  <2>1. TokenOnce(h) BY DEF BlameInv
  <2>2. Tokens(h)' = Tokens(h) /\ Handed(reader', h) = Handed(reader, h) OBVIOUS
  <2> HIDE DEF Tokens, Handed
  <2>3. QED BY <2>1, <2>2 DEF TokenOnce, Queued
<1>3. QED BY <1>1, <1>2 DEF BlameInv

(* A new request is pushed for an object that has none.                            *)
LEMMA BlamePush ==
  ASSUME TrackerInv, BlameInv, UNCHANGED <<ignored, excused, blamed>>,
         \A h : Tokens(h)' = Tokens(h), \A h : Handed(reader', h) = Handed(reader, h),
         NEW r \in RequestSet, r.asked = "no", r.response = None, ~Queued(r.hash),
         queue' = Append(queue, r)
  PROVE  BlameInv'
<1>1. Requests(queue') = Requests(queue) \cup {r} BY PushStep
<1>2. Distinct' /\ BlamedOnlyLate'
  BY <1>1 DEF BlameInv, Distinct, BlamedOnlyLate, Queued
<1>3. ASSUME NEW h \in Object \ excused PROVE TokenOnce(h)'
  <2>1. TokenOnce(h) BY DEF BlameInv
  <2>2. Tokens(h)' = Tokens(h) /\ Handed(reader', h) = Handed(reader, h) OBVIOUS
  <2> HIDE DEF Tokens, Handed
  <2>3. QED BY <1>1, <2>1, <2>2 DEF TokenOnce, Queued
<1>4. QED BY <1>2, <1>3 DEF BlameInv

(* The users push requests, and look at the queue.                                 *)
LEMMA UsersBlame == ASSUME TrackerInv, BlameInv, Sync \/ Blocks PROVE BlameInv'
<1>1. UNCHANGED <<ignored, excused, blamed, requester, out, inbox, reader, handlerChan>>
  BY DEF Sync, Blocks, SyncNext, SyncPush, SyncSend, SyncWait, BlockNext, BlockPush, BlockSend,
         BlockSubscribe, BlockBuild, tracker, network, history
<1>2. (\A h : Tokens(h)' = Tokens(h)) /\ (\A h : Handed(reader', h) = Handed(reader, h))
  BY <1>1, TokensStay
<1>3. CASE UNCHANGED queue BY <1>1, <1>2, <1>3, BlameKept
<1>4. CASE ~UNCHANGED queue
  <2>1. SyncPush \/ BlockPush
    BY <1>4 DEF Sync, Blocks, SyncNext, SyncSend, SyncWait, BlockNext, BlockSend, BlockSubscribe,
                BlockBuild, tracker
  <2>2. PICK k, p, g : ~Queued(k) /\ queue' = Append(queue, NewRequest(k, p, g))
                       /\ k \in Object /\ p \in Peer /\ g \in {None, "sync"}
    <3>1. task.sync.i \in Nat \ {0} /\ task.block.i \in Nat \ {0}
      BY DEF TrackerInv, QueueTypes, Users
    <3>2. SyncBlocks \in Seq(Block) /\ BlockTxs \in Seq(Tx)
      BY TrackerAssumption DEF TrackerInv, QueueTypes, SyncBlocks, BlockTxs
    <3>3. CASE SyncPush
      <4>1. task.sync.i \in 1..Len(SyncBlocks) BY <3>1, <3>2, <3>3 DEF SyncPush, TrackerInv, Placed
      <4>2. SyncBlocks[task.sync.i] \in Object BY <3>2, <4>1 DEF Object
      <4>3. QED BY <1>4, <3>3, <4>2, TrackerAssumption DEF SyncPush
    <3>4. CASE BlockPush
      <4>1. task.block.i \in 1..Len(BlockTxs) BY <3>1, <3>2, <3>4 DEF BlockPush, TrackerInv, Placed
      <4>2. BlockTxs[task.block.i] \in Object BY <3>2, <4>1 DEF Object
      <4>3. QED BY <1>4, <3>4, <4>2, TrackerAssumption DEF BlockPush
    <3>5. QED BY <2>1, <3>3, <3>4
  <2> DEFINE r == NewRequest(k, p, g)
  <2>3. r \in RequestSet /\ r.asked = "no" /\ r.response = None /\ r.hash = k
    BY <2>2 DEF NewRequest, RequestSet
  <2> HIDE DEF r
  <2>4. queue' = Append(queue, r) BY <2>2 DEF r
  <2>5. QED BY <1>1, <1>2, <2>2, <2>3, <2>4, BlamePush
<1>5. QED BY <1>3, <1>4

(* clean_queue: what was sent and is dropped is to be ignored, and what is handed
   over is excused. The object that failed has no token, or its request is dropped
   with the others.                                                                *)
LEMMA CleanTokens ==
  ASSUME TrackerInv, BlameInv, NEW q \in Seq(RequestSet), NEW f \in RequestSet,
         Requests(q) \subseteq Requests(queue), f \in Requests(queue),
         Requests(queue) \subseteq Requests(q) \cup {f},
         CleanQueue(q, f), UNCHANGED <<blamed, reader>>,
         f \in Requests(q) \/ f.response # None \/ f.asked = "expired",
         NEW g, NEW h \in Object \ excused',
         \A x \in Tokens(h)' : \E y \in Tokens(h) : x = g[y]
  PROVE  Distinct' /\ BlamedOnlyLate' /\ h \notin excused /\ TokenOnce(h)'
<1> DEFINE stale == {r \in Requests(q) : Stale(r, f)}
           gone  == {r.hash : r \in stale} \cup {f.hash}
<1>1. Requests(queue') = Requests(q) \ stale
  <2>1. Requests(Remaining(q, f)) = {r \in Requests(q) : ~Stale(r, f)} BY RemainingRange
  <2>2. QED BY <2>1 DEF CleanQueue
<1>2. /\ ignored' = ignored \cup {r.hash : r \in {s \in stale : s.asked # "no"}}
      /\ excused' = excused \cup {x \in gone : Handing(x)}
  BY Zenon DEF CleanQueue
<1>3. h \notin excused /\ TokenOnce(h) BY <1>2 DEF BlameInv
<1>4. Distinct' /\ BlamedOnlyLate'
  BY <1>1 DEF BlameInv, Distinct, BlamedOnlyLate
<1>5. Handed(reader', h) # {} => h \notin gone /\ Queued(h)
  <2>1. SUFFICES ASSUME Handed(reader, h) # {} PROVE h \notin gone /\ Queued(h) OBVIOUS
  <2>2. Handing(h) BY <2>1 DEF Handed, Handing
  <2> HIDE DEF gone
  <2>3. h \notin gone BY <1>2, <2>2
  <2>4. QED BY <1>3, <2>1, <2>3 DEF TokenOnce
<1>6. Handed(reader', h) # {} => Queued(h)'
  <2>1. SUFFICES ASSUME h \notin gone, Queued(h) PROVE Queued(h)' BY <1>5
  <2>2. PICK r \in Requests(queue) : r.hash = h BY <2>1 DEF Queued
  <2>3. r # f /\ r \notin stale BY <2>1, <2>2
  <2>4. QED BY <1>1, <2>2, <2>3 DEF Queued
<1>7. Requests(queue') \subseteq Requests(queue) BY <1>1
<1>8. ASSUME NEW r \in Requests(queue), r.hash = h, r.asked = "fresh"
      PROVE  \/ h \in ignored' \/ Tokens(h)' = {}
             \/ \E s \in Requests(queue') : s.hash = h /\ s.asked = "fresh"
  <2>1. CASE r \in stale BY <1>2, <1>8, <2>1
  <2>2. CASE r \in Requests(q) \ stale BY <1>1, <1>8, <2>2
  <2>3. CASE r = f /\ f.response # None
    <3>1. Tokens(h) = {} BY <1>3, <1>8, <2>3 DEF TokenOnce
    <3>2. QED BY <3>1
  <2>4. CASE r = f /\ f.asked = "expired" BY <1>8, <2>4
  <2>5. QED BY <2>1, <2>2, <2>3, <2>4
<1>9. \A s \in Requests(queue') : s.hash = h =>
            /\ s.asked # "expired"
            /\ s.response # None =>
                 /\ Tokens(h)' = {} \/ \E r \in Requests(queue) : r.hash = h /\ r.response # None
                 /\ s.asked = "fresh" \/ h \in ignored'
  <2> HIDE DEF stale, gone
  <2>1. ignored \subseteq ignored' BY <1>2
  <2>2. QED BY <1>3, <1>7, <2>1 DEF TokenOnce
<1>10. h \in ignored => h \in ignored' BY <1>2
<1> HIDE DEF stale, gone
<1>11. TokenOnce(h)' BY <1>3, <1>6, <1>8, <1>9, <1>10, TokenMoves
<1>12. QED BY <1>3, <1>4, <1>11

(* The requester gives an object its token, unless it has one or its answer is to be
   ignored, which excuses it; then the token leaves.                                *)
LEMMA RequesterBlame == ASSUME TrackerInv, BlameInv, Requester PROVE BlameInv'
<1>1. /\ queue \in Seq(RequestSet) /\ out \in [Peer -> Seq(Object)] /\ requestChan \in Seq(Object)
      /\ requester # None => Queued(requester)
  BY DEF TrackerInv, QueueTypes, ChannelTypes, Locked
<1>2. \A r \in Requests(queue) : r \in RequestSet BY <1>1 DEF Requests, Range
<1>3. \A k : Queued(k) => Request(k) \in Requests(queue) /\ Request(k).hash = k
  BY Zenon DEF Queued, Request
<1>4. CASE RequesterTake
  <2>0. PICK k : k = Head(requestChan) OBVIOUS
  <2>1. /\ UNCHANGED <<ignored, handlerChan, out, inbox, reader, blamed>>
        /\ requester = None /\ requestChan # <<>>
    BY <1>4 DEF RequesterTake, network
  <2>2. k \in Object BY <1>1, <2>0, <2>1
  <2>3. CASE ~Queued(k)
    <3>1. UNCHANGED <<queue, requester, excused>> BY <1>4, <2>0, <2>3 DEF RequesterTake
    <3>2. QED BY <2>1, <3>1, TokensStay, BlameKept
  <2>4. CASE Queued(k)
    <3>1. /\ queue' = [i \in DOMAIN queue |-> IF queue[i].hash = k
                          THEN [queue[i] EXCEPT !.asked = "fresh"] ELSE queue[i]]
          /\ requester' = k
          /\ excused' = IF Request(k).asked = "no" /\ k \notin ignored THEN excused ELSE excused \cup {k}
      BY <1>4, <2>0, <2>4 DEF RequesterTake
    <3>2. \A s \in Requests(queue') : \E r \in Requests(queue) :
             s = IF r.hash = k THEN [r EXCEPT !.asked = "fresh"] ELSE r
      BY <1>1, <3>1, Zenon DEF Requests, Range
    <3>3. \A r \in Requests(queue) :
             (IF r.hash = k THEN [r EXCEPT !.asked = "fresh"] ELSE r) \in Requests(queue')
      <4>1. ASSUME NEW i \in DOMAIN queue
            PROVE  (IF queue[i].hash = k THEN [queue[i] EXCEPT !.asked = "fresh"] ELSE queue[i])
                      \in Requests(queue')
        <5>1. i \in DOMAIN queue' /\ queue'[i] = IF queue[i].hash = k
                          THEN [queue[i] EXCEPT !.asked = "fresh"] ELSE queue[i]
          BY <3>1
        <5>2. queue'[i] \in Requests(queue') BY <5>1, Zenon DEF Requests, Range
        <5>3. QED BY <5>1, <5>2
      <4>2. QED BY <4>1, Zenon DEF Requests, Range
    <3>4. Distinct' /\ BlamedOnlyLate'
      <4>1. BlamedOnlyLate' BY <2>1 DEF BlameInv, BlamedOnlyLate
      <4>2. Distinct' BY <1>2, <3>2 DEF BlameInv, Distinct, RequestSet
      <4>3. QED BY <4>1, <4>2
    <3>5. ASSUME NEW h \in Object \ excused', h # k PROVE TokenOnce(h)'
      <4>1. TokenOnce(h) BY <3>1, <3>5 DEF BlameInv
      <4>2. Tokens(h)' = Tokens(h)
        <5>1. requester # h /\ requester' # h BY <2>1, <3>1, <3>5, TrackerAssumption
        <5>2. QED BY <2>1, <5>1 DEF Tokens, TokensOf, Asking
      <4>3. Handed(reader', h) = Handed(reader, h) BY <2>1
      <4>4. \A s : s.hash = h => (s \in Requests(queue') <=> s \in Requests(queue))
        BY <1>2, <3>2, <3>3, <3>5 DEF RequestSet
      <4> HIDE DEF Tokens, Handed
      <4>5. QED BY <2>1, <4>1, <4>2, <4>3, <4>4 DEF TokenOnce, Queued
    <3>6. ASSUME k \in Object \ excused' PROVE TokenOnce(k)'
      <4>1. TokenOnce(k) /\ k \notin ignored /\ Request(k).asked = "no"
        BY <3>1, <3>6 DEF BlameInv
      <4>2. \A r \in Requests(queue) : r.hash = k => r.asked = "no"
        BY <1>3, <2>4, <4>1 DEF BlameInv, Distinct
      <4>3. Tokens(k) = {} BY <4>1, <4>2 DEF TokenOnce
      <4>4. \A r \in Requests(queue) : r.hash = k => r.response = None
        BY <4>1, <4>2 DEF TokenOnce
      <4>5. Tokens(k)' \subseteq {<<"asking", None, 0>>}
        <5>1. SUFFICES ASSUME NEW x \in Tokens(k)', x # <<"asking", None, 0>> PROVE x \in Tokens(k)
          BY <4>3
        <5>2. x \in TokensOf(requester', out, inbox, reader, handlerChan, k) BY <2>1, <5>1 DEF Tokens
        <5>3. QED BY <5>1, <5>2, TokenCases DEF Tokens
      <4>6. \A x, y \in Tokens(k)' : x = y BY <4>5
      <4>7. Handed(reader', k) = {} BY <2>1, <4>3 DEF Tokens, TokensOf
      <4>8. \A s \in Requests(queue') : s.hash = k => s.asked = "fresh" /\ s.response = None
        BY <1>2, <3>2, <4>4 DEF RequestSet
      <4>9. \E s \in Requests(queue') : s.hash = k /\ s.asked = "fresh"
        <5>1. PICK r \in Requests(queue) : r.hash = k BY <2>4 DEF Queued
        <5>2. [r EXCEPT !.asked = "fresh"] \in Requests(queue') BY <3>3, <5>1
        <5>3. QED BY <1>2, <5>1, <5>2 DEF RequestSet
      <4> HIDE DEF Tokens, Handed
      <4>10. QED BY <4>6, <4>7, <4>8, <4>9 DEF TokenOnce
    <3>7. QED BY <2>2, <3>4, <3>5, <3>6 DEF BlameInv
  <2>5. QED BY <2>3, <2>4
<1>5. CASE RequesterSend
  <2> DEFINE r == Request(requester)
             p == r.peer
             g(h) == [y \in Tokens(h) |->
                       IF y[1] = "asking" THEN <<"leaving", p, Len(out[p]) + 1>> ELSE y]
  <2>1. /\ requester # None /\ requester' = None
        /\ UNCHANGED <<handlerChan, inbox, reader, blamed>>
    BY <1>5 DEF RequesterSend
  <2>2. r \in Requests(queue) /\ r.hash = requester /\ r \in RequestSet /\ p \in Peer
    BY <1>1, <1>2, <1>3, <2>1 DEF RequestSet
  <2> HIDE DEF r
  <2>3. CASE CleanQueue(queue, r) /\ UNCHANGED out
    <3>1. ASSUME NEW h \in Object \ excused'
          PROVE  Distinct' /\ BlamedOnlyLate' /\ TokenOnce(h)'
      <4>1. \A x \in Tokens(h)' : x \in Tokens(h)
        <5>1. requester' # h BY <2>1, TrackerAssumption
        <5>2. QED BY <2>1, <2>3, <5>1 DEF Tokens, TokensOf, Asking
      <4> DEFINE same == [y \in Tokens(h) |-> y]
      <4>2. \A x \in Tokens(h)' : \E y \in Tokens(h) : x = same[y] BY <4>1
      <4> HIDE DEF same
      <4>3. QED BY <1>1, <2>1, <2>2, <2>3, <4>2, CleanTokens
    <3>2. Distinct' /\ BlamedOnlyLate'
      <4>1. Requests(queue') \subseteq Requests(queue)
        <5>1. Requests(Remaining(queue, r)) = {s \in Requests(queue) : ~Stale(s, r)}
          BY <1>1, RemainingRange
        <5>2. QED BY <2>3, <5>1 DEF CleanQueue
      <4>2. QED BY <2>1, <4>1 DEF BlameInv, Distinct, BlamedOnlyLate
    <3>3. QED BY <3>1, <3>2 DEF BlameInv
  <2>4. CASE out' = [out EXCEPT ![p] = Append(@, r.hash)] /\ UNCHANGED <<queue, ignored, excused>>
    <3>1. Distinct' /\ BlamedOnlyLate' BY <2>1, <2>4 DEF BlameInv, Distinct, BlamedOnlyLate
    <3>2. ASSUME NEW h \in Object \ excused' PROVE TokenOnce(h)'
      <4>1. TokenOnce(h) BY <2>4, <3>2 DEF BlameInv
      <4>2. ASSUME NEW x \in Tokens(h)' PROVE \E y \in Tokens(h) : x = g(h)[y]
        <5>1. \A y \in Tokens(h) : y[1] # "asking" => g(h)[y] = y OBVIOUS
        <5> DEFINE now == <<"asking", None, 0>>
        <5>2. now \in Tokens(h) => g(h)[now] = <<"leaving", p, Len(out[p]) + 1>> OBVIOUS
        <5>3. requester = h => now \in Tokens(h) BY TokenCases DEF Tokens
        <5> HIDE DEF g, now
        <5>4. CASE \E pp \in Peer : \E i \in Seen(out'[pp], h) : x = <<"leaving", pp, i>>
          <6>0. PICK pp \in Peer : \E i \in Seen(out'[pp], h) : x = <<"leaving", pp, i>> BY <5>4
          <6>1. PICK i \in Seen(out'[pp], h) : x = <<"leaving", pp, i>> BY <6>0
          <6>2. CASE i \in Seen(out[pp], h)
            <7>1. x \in Tokens(h) BY <6>1, <6>2, TokenCases DEF Tokens
            <7>2. QED BY <5>1, <6>1, <7>1
          <6>3. CASE i \notin Seen(out[pp], h)
            <7>1. pp = p /\ out'[p] = Append(out[p], r.hash) BY <1>1, <2>2, <2>4, <6>1, <6>3
            <7>2. out[p] \in Seq(Object) /\ r.hash \in Object BY <1>1, <2>2 DEF RequestSet
            <7>3. r.hash = h /\ i = Len(out[p]) + 1 BY <6>1, <6>3, <7>1, <7>2, SeenPlaces
            <7>4. QED BY <2>2, <5>2, <5>3, <6>1, <7>1, <7>3
          <6>4. QED BY <6>2, <6>3
        <5>5. CASE \E pp \in Peer : \E i \in Told(inbox[pp], h) : x = <<"coming", pp, i>>
          BY <5>1, <5>5, TokenCases DEF Tokens
        <5>6. CASE \E pp \in Peer : /\ reader[pp].pc \in {"offer", "deliver"} /\ reader[pp].hash = h
                                    /\ x = <<"handed", pp, 0>>
          BY <5>1, <5>6, TokenCases DEF Tokens
        <5>7. CASE \E i \in Told(handlerChan, h) : x = <<"waiting", None, i>>
          BY <5>1, <5>7, TokenCases DEF Tokens
        <5>8. ~(requester' = h) BY <2>1, TrackerAssumption
        <5>9. x \in TokensOf(requester', out', inbox, reader, handlerChan, h) BY <2>1, <4>2 DEF Tokens
        <5>10. QED BY <5>4, <5>5, <5>6, <5>7, <5>8, <5>9, TokenCases
      <4> HIDE DEF g
      <4>3. Queued(h)' <=> Queued(h) BY <2>4 DEF Queued
      <4>4. QED BY <2>1, <2>4, <4>1, <4>2, <4>3, TokenMoves DEF TokenOnce
    <3>3. QED BY <3>1, <3>2 DEF BlameInv
  <2>5. QED BY <1>5, <2>3, <2>4 DEF RequesterSend, r
<1>6. QED BY <1>4, <1>5 DEF Requester

(* The handler: an answer that it receives was the token of its object, and an
   object that is executed or dropped has no token left, or is excused.             *)
LEMMA HandlerBlame == ASSUME TrackerInv, BlameInv, Handler PROVE BlameInv'
<1>1. queue \in Seq(RequestSet) /\ handlerChan \in Seq(Answers)
  BY DEF TrackerInv, QueueTypes, ChannelTypes
<1>2. \A r \in Requests(queue) : r \in RequestSet BY <1>1 DEF Requests, Range
<1>3. CASE HandlerReceive
  <2>0. PICK m : m = Head(handlerChan) OBVIOUS
  <2> DEFINE marked(r) == IF r.hash = m.hash THEN [r EXCEPT !.response = m.type] ELSE r
  <2>1. /\ UNCHANGED <<ignored, requester, out, inbox, reader, excused, blamed>>
        /\ handlerChan # <<>> /\ handlerChan' = Tail(handlerChan)
        /\ queue' = [i \in DOMAIN queue |-> marked(queue[i])]
    BY <1>3, <2>0 DEF HandlerReceive, network, history
  <2>2. m \in Answers BY <1>1, <2>0, <2>1
  <2>3. \A s \in Requests(queue') : \E r \in Requests(queue) : s = marked(r)
    <3> HIDE DEF marked
    <3>1. QED BY <2>1, Zenon DEF Requests, Range
  <2>4. \A r \in Requests(queue) : marked(r) \in Requests(queue')
    <3> HIDE DEF marked
    <3>1. ASSUME NEW i \in DOMAIN queue PROVE marked(queue[i]) \in Requests(queue')
      <4>1. i \in DOMAIN queue' /\ queue'[i] = marked(queue[i]) BY <2>1
      <4>2. queue'[i] \in Requests(queue') BY <4>1, Zenon DEF Requests, Range
      <4>3. QED BY <4>1, <4>2
    <3>2. QED BY <3>1, Zenon DEF Requests, Range
  <2>5. Distinct' BY <1>2, <2>3 DEF BlameInv, Distinct, RequestSet
  <2>6. BlamedOnlyLate' BY <2>1 DEF BlameInv, BlamedOnlyLate
  <2>7. ASSUME NEW h \in Object \ excused PROVE TokenOnce(h)'
    <3> DEFINE g == [y \in Tokens(h) |->
                       IF y[1] = "waiting" THEN <<"waiting", None, y[3] - 1>> ELSE y]
    <3>1. TokenOnce(h) BY <2>7 DEF BlameInv
    <3>2. /\ \A i \in Told(Tail(handlerChan), h) : i \in Nat \ {0} /\ i + 1 \in Told(handlerChan, h)
          /\ m.hash = h => 1 \in Told(handlerChan, h)
      <4>1. \A i \in Told(Tail(handlerChan), h) : i \in Nat \ {0} BY <1>1, <2>1 DEF Told
      <4>2. \A a \in Answers : a.type # "propagation" BY DEF Answers
      <4>3. QED BY <1>1, <2>0, <2>1, <2>2, <4>1, <4>2, ToldPlaces
    <3>3. ASSUME NEW x \in Tokens(h)'
          PROVE  \/ x \in Tokens(h) /\ x[1] # "waiting"
                 \/ \E i \in Nat \ {0} : x = <<"waiting", None, i>> /\ <<"waiting", None, i + 1>> \in Tokens(h)
      <4>1. x \in TokensOf(requester, out, inbox, reader, Tail(handlerChan), h) BY <2>1, <3>3 DEF Tokens
      <4>2. CASE \E i \in Told(Tail(handlerChan), h) : x = <<"waiting", None, i>>
        BY <3>2, <4>2, TokenCases DEF Tokens
      <4>3. CASE ~\E i \in Told(Tail(handlerChan), h) : x = <<"waiting", None, i>>
        <5>0. \/ x = <<"asking", None, 0>> /\ requester = h
              \/ \E p \in Peer : \E i \in Seen(out[p], h) : x = <<"leaving", p, i>>
              \/ \E p \in Peer : \E i \in Told(inbox[p], h) : x = <<"coming", p, i>>
              \/ \E p \in Peer : /\ reader[p].pc \in {"offer", "deliver"} /\ reader[p].hash = h
                                 /\ x = <<"handed", p, 0>>
          BY <4>1, <4>3, TokenCases
        <5>1. x \in Tokens(h) BY <5>0, TokenCases DEF Tokens
        <5>2. x[1] # "waiting" BY <5>0
        <5>3. QED BY <5>1, <5>2
      <4>4. QED BY <4>2, <4>3
    <3>4. \A x \in Tokens(h)' : \E y \in Tokens(h) : x = g[y]
      <4>1. SUFFICES ASSUME NEW x \in Tokens(h)' PROVE \E y \in Tokens(h) : x = g[y] OBVIOUS
      <4>2. CASE x \in Tokens(h) /\ x[1] # "waiting" BY <4>2
      <4>3. ASSUME NEW i \in Nat \ {0}, x = <<"waiting", None, i>>, <<"waiting", None, i + 1>> \in Tokens(h)
            PROVE  \E y \in Tokens(h) : x = g[y]
        <5>1. g[<<"waiting", None, i + 1>>] = <<"waiting", None, (i + 1) - 1>> BY <4>3
        <5>2. QED BY <4>3, <5>1
      <4> HIDE DEF g
      <4>4. QED BY <3>3, <4>2, <4>3
    <3> HIDE DEF g
    <3>5. CASE h # m.hash
      <4>1. \A s : s.hash = h => (s \in Requests(queue') <=> s \in Requests(queue))
        BY <1>2, <2>3, <2>4, <3>5 DEF RequestSet
      <4>2. Queued(h)' <=> Queued(h) BY <4>1 DEF Queued
      <4>3. QED BY <2>1, <3>1, <3>4, <4>1, <4>2, TokenMoves DEF TokenOnce
    <3>6. CASE h = m.hash
      <4>1. <<"waiting", None, 1>> \in Tokens(h) BY <3>2, <3>6, TokenCases DEF Tokens
      <4>2. Tokens(h)' = {}
        <5>1. SUFFICES ASSUME NEW x \in Tokens(h)' PROVE FALSE OBVIOUS
        <5>2. \A y \in Tokens(h) : y = <<"waiting", None, 1>> BY <3>1, <4>1 DEF TokenOnce
        <5>3. CASE x \in Tokens(h) /\ x[1] # "waiting" BY <5>2, <5>3
        <5>4. ASSUME NEW i \in Nat \ {0}, <<"waiting", None, i + 1>> \in Tokens(h) PROVE FALSE
          <6>1. <<"waiting", None, i + 1>> = <<"waiting", None, 1>> BY <5>2, <5>4
          <6>2. QED BY <5>4, <6>1
        <5>5. QED BY <3>3, <5>3, <5>4
      <4>3. Handed(reader', h) = {} BY <4>2 DEF Tokens, TokensOf
      <4>4. h \in ignored \/ \A r \in Requests(queue) : r.hash = h => r.asked = "fresh"
        BY <3>1, <4>1 DEF TokenOnce, BlameInv, Distinct
      <4>5. \A s \in Requests(queue') : s.hash = h =>
               s.asked # "expired" /\ (s.asked = "fresh" \/ h \in ignored')
        BY <1>2, <2>1, <2>3, <3>1, <4>4 DEF TokenOnce, RequestSet
      <4> HIDE DEF Tokens, Handed
      <4>6. QED BY <4>2, <4>3, <4>5 DEF TokenOnce
    <3>7. QED BY <3>5, <3>6
  <2>8. QED BY <2>1, <2>5, <2>6, <2>7 DEF BlameInv
<1>4. CASE HandlerTick \/ HandlerIdle
  <2>1. UNCHANGED <<queue, ignored, requester, out, inbox, reader, handlerChan, excused, blamed>>
    BY <1>4 DEF HandlerTick, HandlerIdle, network, history
  <2>2. QED BY <2>1, TokensStay, BlameKept
<1>5. CASE HandlerAccept
  <2>1. /\ UNCHANGED <<ignored, requester, out, inbox, reader, handlerChan, blamed>>
        /\ queue # <<>> /\ queue' = Tail(queue) /\ Head(queue).response # None
        /\ excused' = IF Handing(Head(queue).hash) THEN excused \cup {Head(queue).hash} ELSE excused
    BY <1>5 DEF HandlerAccept, Draining, Work, network, None
  <2>2. PICK f : f = Head(queue) OBVIOUS
  <2>3. Requests(queue) = Requests(queue') \cup {f} BY <1>1, <2>1, <2>2, TailRange DEF Requests
  <2>4. Distinct' /\ BlamedOnlyLate' BY <2>1, <2>3 DEF BlameInv, Distinct, BlamedOnlyLate
  <2>5. ASSUME NEW h \in Object \ excused' PROVE TokenOnce(h)'
    <3>1. TokenOnce(h) BY <2>1, <2>5 DEF BlameInv
    <3>2. Tokens(h)' = Tokens(h) /\ Handed(reader', h) = Handed(reader, h) BY <2>1, TokensStay
    <3>3. h = f.hash => Tokens(h) = {} BY <2>1, <2>2, <2>3, <3>1 DEF TokenOnce
    <3>4. Tokens(h) = {} => Handed(reader, h) = {} BY DEF Tokens, TokensOf
    <3> HIDE DEF Tokens, Handed
    <3>5. CASE h = f.hash BY <2>1, <2>3, <3>1, <3>2, <3>3, <3>4, <3>5 DEF TokenOnce
    <3>6. CASE h # f.hash BY <2>1, <2>3, <3>1, <3>2, <3>6 DEF TokenOnce, Queued
    <3>7. QED BY <3>5, <3>6
  <2>6. QED BY <2>4, <2>5 DEF BlameInv
<1>6. CASE HandlerFail
  <2>1. /\ UNCHANGED <<requester, out, inbox, reader, handlerChan, blamed>>
        /\ queue # <<>> /\ CleanQueue(Tail(queue), Head(queue))
        /\ Head(queue).response # None \/ Head(queue).asked = "expired"
    BY <1>6 DEF HandlerFail, Draining, Work, network
  <2>2. PICK f, q : f = Head(queue) /\ q = Tail(queue) OBVIOUS
  <2>3. q \in Seq(RequestSet) /\ f \in RequestSet /\ Requests(queue) = Requests(q) \cup {f}
    BY <1>1, <2>1, <2>2, TailRange DEF Requests
  <2>4. ASSUME NEW h \in Object \ excused' PROVE TokenOnce(h)'
    <3> DEFINE same == [y \in Tokens(h) |-> y]
    <3>1. Tokens(h)' = Tokens(h) BY <2>1, TokensStay
    <3>2. \A x \in Tokens(h)' : \E y \in Tokens(h) : x = same[y] BY <3>1
    <3> HIDE DEF same
    <3>3. CleanQueue(q, f) /\ (f.response # None \/ f.asked = "expired") BY <2>1, <2>2
    <3>4. QED BY <2>1, <2>3, <3>2, <3>3, CleanTokens
  <2>5. Distinct' /\ BlamedOnlyLate'
    <3>1. Requests(Remaining(q, f)) = {s \in Requests(q) : ~Stale(s, f)} BY <2>3, RemainingRange
    <3>2. Requests(queue') \subseteq Requests(queue) BY <2>1, <2>2, <2>3, <3>1 DEF CleanQueue
    <3>3. QED BY <2>1, <3>2 DEF BlameInv, Distinct, BlamedOnlyLate
  <2>6. QED BY <2>4, <2>5 DEF BlameInv
<1>7. QED BY <1>3, <1>4, <1>5, <1>6 DEF Handler

(* Tokens are lost, and nothing else changes.                                       *)
LEMMA TokensShrink ==
  ASSUME NEW h, TokenOnce(h), UNCHANGED <<queue, ignored>>,
         Tokens(h)' \subseteq Tokens(h), Handed(reader', h) \subseteq Handed(reader, h)
  PROVE  TokenOnce(h)'
<1> HIDE DEF Tokens, Handed
<1>1. QED BY DEF TokenOnce, Queued

(* The first packet of a peer is read: the token of its object is the one that is
   read, and the object has no other.                                               *)
LEMMA FirstPacket ==
  ASSUME TrackerInv, NEW p \in Peer, inbox[p] # <<>>, NEW h,
         inbox' = [inbox EXCEPT ![p] = Tail(@)],
         UNCHANGED <<requester, out, handlerChan>>,
         \A q \in Peer : reader'[q] = reader[q] \/ q = p,
         reader[p].pc = "listen", NEW x \in Tokens(h)'
  PROVE  \/ x \in Tokens(h) /\ ~(x[1] = "coming" /\ x[2] = p)
         \/ \E i \in Nat \ {0} : x = <<"coming", p, i>> /\ <<"coming", p, i + 1>> \in Tokens(h)
         \/ x = <<"handed", p, 0>> /\ reader'[p].pc \in {"offer", "deliver"} /\ reader'[p].hash = h
<1>1. inbox \in [Peer -> Seq(Packets)] BY DEF TrackerInv, ChannelTypes
<1>2. \/ x = <<"asking", None, 0>> /\ requester = h
      \/ \E q \in Peer : \E i \in Seen(out[q], h) : x = <<"leaving", q, i>>
      \/ \E q \in Peer : \E i \in Told(inbox'[q], h) : x = <<"coming", q, i>>
      \/ \E q \in Peer : /\ reader'[q].pc \in {"offer", "deliver"} /\ reader'[q].hash = h
                         /\ x = <<"handed", q, 0>>
      \/ \E i \in Told(handlerChan, h) : x = <<"waiting", None, i>>
  <2>1. PICK b, r : b = inbox' /\ r = reader' OBVIOUS
  <2>2. x \in TokensOf(requester, out, b, r, handlerChan, h) BY <2>1 DEF Tokens
  <2>3. \/ x = <<"asking", None, 0>> /\ requester = h
        \/ \E q \in Peer : \E i \in Seen(out[q], h) : x = <<"leaving", q, i>>
        \/ \E q \in Peer : \E i \in Told(b[q], h) : x = <<"coming", q, i>>
        \/ \E q \in Peer : /\ r[q].pc \in {"offer", "deliver"} /\ r[q].hash = h
                           /\ x = <<"handed", q, 0>>
        \/ \E i \in Told(handlerChan, h) : x = <<"waiting", None, i>>
    BY <2>2, TokenCases
  <2>4. QED BY <2>1, <2>3
<1>3. CASE \E q \in Peer : \E i \in Told(inbox'[q], h) : x = <<"coming", q, i>>
  <2>1. PICK q \in Peer : \E i \in Told(inbox'[q], h) : x = <<"coming", q, i>> BY <1>3
  <2>2. PICK i \in Told(inbox'[q], h) : x = <<"coming", q, i>> BY <2>1
  <2>3. CASE q = p
    <3>1. inbox'[p] = Tail(inbox[p]) /\ inbox[p] \in Seq(Packets) BY <1>1
    <3>2. i \in Nat \ {0} /\ i + 1 \in Told(inbox[p], h)
      <4>1. i \in Nat \ {0} BY <2>2, <2>3, <3>1 DEF Told
      <4>2. QED BY <2>2, <2>3, <3>1, <4>1, ToldPlaces
    <3>3. <<"coming", p, i + 1>> \in Tokens(h) BY <3>2, TokenCases DEF Tokens
    <3>4. QED BY <2>2, <2>3, <3>2, <3>3
  <2>4. CASE q # p
    <3>1. i \in Told(inbox[q], h) BY <1>1, <2>2, <2>4
    <3>2. x \in Tokens(h) BY <2>2, <3>1, TokenCases DEF Tokens
    <3>3. QED BY <2>2, <2>4, <3>2
  <2>5. QED BY <2>3, <2>4
<1>4. CASE \E q \in Peer : /\ reader'[q].pc \in {"offer", "deliver"} /\ reader'[q].hash = h
                           /\ x = <<"handed", q, 0>>
  <2>1. PICK q \in Peer : /\ reader'[q].pc \in {"offer", "deliver"} /\ reader'[q].hash = h
                          /\ x = <<"handed", q, 0>>
    BY <1>4
  <2>2. CASE q = p BY <2>1, <2>2
  <2>3. CASE q # p
    <3>1. x \in Tokens(h) BY <2>1, <2>3, TokenCases DEF Tokens
    <3>2. QED BY <2>1, <3>1
  <2>4. QED BY <2>2, <2>3
<1>5. CASE \E q \in Peer : \E i \in Seen(out[q], h) : x = <<"leaving", q, i>>
  <2>1. x \in Tokens(h) BY <1>5, TokenCases DEF Tokens
  <2>2. QED BY <1>5, <2>1
<1>6. CASE x = <<"asking", None, 0>> /\ requester = h
  <2>1. x \in Tokens(h) BY <1>6, TokenCases DEF Tokens
  <2>2. QED BY <1>6, <2>1
<1>7. CASE \E i \in Told(handlerChan, h) : x = <<"waiting", None, i>>
  <2>1. x \in Tokens(h) BY <1>7, TokenCases DEF Tokens
  <2>2. QED BY <1>7, <2>1
<1>8. QED BY <1>2, <1>3, <1>4, <1>5, <1>6, <1>7

LEMMA PacketBlame == ASSUME TrackerInv, BlameInv, NEW p \in Peer, ReadPacket(p) PROVE BlameInv'
<1>0. PICK m : m = Head(inbox[p]) OBVIOUS
<1>1. /\ inbox \in [Peer -> Seq(Packets)] /\ reader \in [Peer -> Readers]
      /\ inbox[p] # <<>> /\ reader[p].pc = "listen"
      /\ inbox' = [inbox EXCEPT ![p] = Tail(@)]
      /\ UNCHANGED <<queue, requester, out, handlerChan, excused>>
  BY DEF TrackerInv, ChannelTypes, ReadPacket
<1>2. m \in Packets /\ m.hash \in Object
  <2>1. inbox[p] \in Seq(Packets) BY <1>1
  <2>2. m \in Packets BY <1>0, <1>1, <2>1
  <2>3. QED BY <2>2 DEF Packets
<1>3. \A q \in Peer : reader'[q] = reader[q] \/ q = p
  BY <1>0, <1>1 DEF ReadPacket
<1>4. m.type # "propagation" => <<"coming", p, 1>> \in Tokens(m.hash)
  <2>1. SUFFICES ASSUME m.type # "propagation" PROVE 1 \in Told(inbox[p], m.hash)
    BY TokenCases DEF Tokens
  <2>2. inbox[p] \in Seq(Packets) BY <1>1
  <2>3. QED BY <1>0, <1>1, <2>1, <2>2, ToldPlaces
<1>5. Distinct' BY <1>1 DEF BlameInv, Distinct
<1>6. CASE m.type = "propagation" \/ Queued(m.hash)
  <2>1. UNCHANGED <<ignored, blamed>>
        /\ (m.type = "propagation" => reader' = reader \/ reader'[p].pc = "push")
        /\ (m.type # "propagation" => reader'[p].hash = m.hash)
    BY <1>0, <1>1, <1>6 DEF ReadPacket
  <2>2. ASSUME NEW h \in Object \ excused PROVE TokenOnce(h)'
    <3> DEFINE g == [y \in Tokens(h) |->
                       IF y[1] = "coming" /\ y[2] = p
                       THEN IF y[3] = 1 THEN <<"handed", p, 0>> ELSE <<"coming", p, y[3] - 1>>
                       ELSE y]
    <3>1. TokenOnce(h) BY <2>2 DEF BlameInv
    <3>2. \A q \in Peer : reader'[q].pc \in {"offer", "deliver"} /\ reader'[q].hash = h =>
             \/ reader[q].pc \in {"offer", "deliver"} /\ reader[q].hash = h
             \/ q = p /\ m.type # "propagation" /\ m.hash = h
      BY <1>1, <1>3, <2>1
    <3>3. ASSUME NEW x \in Tokens(h)' PROVE \E y \in Tokens(h) : x = g[y]
      <4>1. CASE x \in Tokens(h) /\ ~(x[1] = "coming" /\ x[2] = p) BY <4>1
      <4>2. ASSUME NEW i \in Nat \ {0}, x = <<"coming", p, i>>, <<"coming", p, i + 1>> \in Tokens(h)
            PROVE  \E y \in Tokens(h) : x = g[y]
        <5>1. i + 1 # 1 /\ (i + 1) - 1 = i BY <4>2
        <5>2. g[<<"coming", p, i + 1>>] = x BY <4>2, <5>1
        <5>3. QED BY <4>2, <5>2
      <4>3. CASE x = <<"handed", p, 0>> /\ reader'[p].pc \in {"offer", "deliver"} /\ reader'[p].hash = h
        <5>1. m.type # "propagation" /\ m.hash = h BY <1>1, <3>2, <4>3
        <5>2. <<"coming", p, 1>> \in Tokens(h) BY <1>4, <5>1
        <5>3. g[<<"coming", p, 1>>] = x BY <4>3, <5>2
        <5>4. QED BY <5>2, <5>3
      <4> HIDE DEF g
      <4>4. QED BY <1>1, <1>3, <4>1, <4>2, <4>3, FirstPacket
    <3> HIDE DEF g
    <3>4. Handed(reader', h) # {} => Queued(h)'
      <4>1. SUFFICES ASSUME Handed(reader', h) # {} PROVE Queued(h) BY <1>1 DEF Queued
      <4>2. PICK q \in Peer : reader'[q].pc \in {"offer", "deliver"} /\ reader'[q].hash = h
        BY <4>1 DEF Handed
      <4>3. CASE reader[q].pc \in {"offer", "deliver"} /\ reader[q].hash = h
        <5>1. Handed(reader, h) # {} BY <4>3 DEF Handed
        <5>2. QED BY <3>1, <5>1 DEF TokenOnce
      <4>4. QED BY <1>6, <3>2, <4>2, <4>3
    <3>5. QED BY <1>1, <2>1, <3>1, <3>3, <3>4, TokenMoves DEF TokenOnce
  <2>3. BlamedOnlyLate' BY <2>1 DEF BlameInv, BlamedOnlyLate
  <2>4. QED BY <1>1, <1>5, <2>2, <2>3 DEF BlameInv
<1>7. CASE m.type # "propagation" /\ ~Queued(m.hash)
  <2>1. /\ ignored' = ignored \ {m.hash} /\ UNCHANGED reader
        /\ m.hash \in ignored => UNCHANGED blamed
        /\ m.hash \notin ignored => Blame(m.hash)
    BY <1>0, <1>7 DEF ReadPacket
  <2>2. m.hash \in excused \/ m.hash \in ignored
    BY <1>2, <1>4, <1>7 DEF BlameInv, TokenOnce, Queued
  <2>3. BlamedOnlyLate' BY <2>1, <2>2 DEF BlameInv, BlamedOnlyLate, Blame
  <2>4. ASSUME NEW h \in Object \ excused PROVE TokenOnce(h)'
    <3> DEFINE g == [y \in Tokens(h) |->
                       IF y[1] = "coming" /\ y[2] = p THEN <<"coming", p, y[3] - 1>> ELSE y]
    <3>1. TokenOnce(h) BY <2>4 DEF BlameInv
    <3>2. ASSUME NEW x \in Tokens(h)' PROVE \E y \in Tokens(h) : x = g[y]
      <4>1. CASE x \in Tokens(h) /\ ~(x[1] = "coming" /\ x[2] = p) BY <4>1
      <4>2. ASSUME NEW i \in Nat \ {0}, x = <<"coming", p, i>>, <<"coming", p, i + 1>> \in Tokens(h)
            PROVE  \E y \in Tokens(h) : x = g[y]
        <5>1. (i + 1) - 1 = i BY <4>2
        <5>2. g[<<"coming", p, i + 1>>] = x BY <4>2, <5>1
        <5>3. QED BY <4>2, <5>2
      <4>3. reader'[p].pc \notin {"offer", "deliver"} BY <1>1, <2>1
      <4> HIDE DEF g
      <4>4. QED BY <1>1, <1>3, <4>1, <4>2, <4>3, FirstPacket
    <3> HIDE DEF g
    <3>3. h = m.hash => Tokens(h)' = {}
      <4>1. SUFFICES ASSUME h = m.hash, NEW x \in Tokens(h)' PROVE FALSE OBVIOUS
      <4>2. \A y \in Tokens(h) : y = <<"coming", p, 1>> BY <1>4, <1>7, <3>1, <4>1 DEF TokenOnce
      <4>3. CASE x \in Tokens(h) /\ ~(x[1] = "coming" /\ x[2] = p) BY <4>2, <4>3
      <4>4. ASSUME NEW i \in Nat \ {0}, <<"coming", p, i + 1>> \in Tokens(h) PROVE FALSE
        <5>1. <<"coming", p, i + 1>> = <<"coming", p, 1>> BY <4>2, <4>4
        <5>2. QED BY <4>4, <5>1
      <4>5. reader'[p].pc \notin {"offer", "deliver"} BY <1>1, <2>1
      <4>6. QED BY <1>1, <1>3, <4>1, <4>3, <4>4, <4>5, FirstPacket
    <3>4. Handed(reader', h) # {} => Queued(h)' BY <1>1, <2>1, <3>1 DEF TokenOnce, Queued
    <3>5. h = m.hash => \A s \in Requests(queue) : s.hash # h BY <1>7 DEF Queued
    <3>6. QED BY <1>1, <2>1, <3>1, <3>2, <3>3, <3>4, <3>5, TokenMoves DEF TokenOnce
  <2>5. QED BY <1>1, <1>5, <2>3, <2>4 DEF BlameInv
<1>8. QED BY <1>6, <1>7

(* The other steps of a reader: it hands over the token it has read, and what it
   hands over it finds in the queue again, or the object is excused.                *)
LEMMA ReadBlame == ASSUME TrackerInv, BlameInv, NEW p \in Peer, Read(p) PROVE BlameInv'
<1>1. /\ reader \in [Peer -> Readers] /\ handlerChan \in Seq(Answers)
      /\ reader[p].pc # "listen" => reader[p].hash \in Object
      /\ reader[p].pc \in {"offer", "deliver"} => reader[p].type \in {"object", "notfound"}
  BY DEF TrackerInv, ChannelTypes
<1>2. Listen.pc = "listen" BY DEF Listen
<1>3. CASE ReadPacket(p) BY <1>3, PacketBlame
<1>4. CASE ReadOffer(p)
  <2>0. PICK k : k = reader[p].hash OBVIOUS
  <2>1. /\ UNCHANGED <<queue, ignored, requester, out, inbox, handlerChan, excused>>
        /\ reader[p].pc = "offer" /\ k \in Object
    BY <1>1, <1>4, <2>0 DEF ReadOffer, tracker
  <2>2. \/ reader' = [reader EXCEPT ![p].pc = "deliver"] /\ UNCHANGED blamed
        \/ reader' = [reader EXCEPT ![p] = Listen] /\ ~Queued(k) /\ Blame(k)
    BY <1>4, <2>0 DEF ReadOffer
  <2>3. \A q \in Peer : reader'[q].pc \in {"offer", "deliver"} =>
           reader[q].pc \in {"offer", "deliver"} /\ reader'[q].hash = reader[q].hash
    BY <1>1, <1>2, <2>1, <2>2 DEF Readers
  <2>4. ASSUME NEW h PROVE Handed(reader', h) \subseteq Handed(reader, h)
    BY <2>3, Zenon DEF Handed
  <2>5. \A h : Tokens(h)' \subseteq Tokens(h)
    <3> HIDE DEF Handed
    <3>1. QED BY <2>1, <2>4 DEF Tokens, TokensOf
  <2>6. k \in excused \/ Queued(k)
    <3>1. Handed(reader, k) # {} BY <2>0, <2>1 DEF Handed
    <3>2. QED BY <2>1, <3>1 DEF BlameInv, TokenOnce
  <2>7. BlamedOnlyLate' BY <2>2, <2>6 DEF BlameInv, BlamedOnlyLate, Blame
  <2>8. Distinct' BY <2>1 DEF BlameInv, Distinct
  <2>9. ASSUME NEW h \in Object \ excused PROVE TokenOnce(h)'
    <3>1. TokenOnce(h) BY <2>9 DEF BlameInv
    <3>2. QED BY <2>1, <2>4, <2>5, <3>1, TokensShrink
  <2>10. QED BY <2>1, <2>7, <2>8, <2>9 DEF BlameInv
<1>5. CASE ReadDeliver(p)
  <2>0. PICK m : m = [type |-> reader[p].type, hash |-> reader[p].hash] OBVIOUS
  <2>1. /\ UNCHANGED <<queue, ignored, requester, out, inbox, excused, blamed>>
        /\ reader[p].pc = "deliver" /\ reader' = [reader EXCEPT ![p] = Listen]
        /\ handlerChan' = Append(handlerChan, m)
    BY <1>5, <2>0 DEF ReadDeliver, history
  <2>2. m \in Answers BY <1>1, <2>0, <2>1 DEF Answers
  <2>3. \A q \in Peer : reader'[q].pc \in {"offer", "deliver"} => q # p /\ reader'[q] = reader[q]
    BY <1>1, <1>2, <2>1
  <2>4. ASSUME NEW h PROVE Handed(reader', h) \subseteq Handed(reader, h)
    BY <2>3, Zenon DEF Handed
  <2>5. Distinct' /\ BlamedOnlyLate' BY <2>1 DEF BlameInv, Distinct, BlamedOnlyLate
  <2>6. ASSUME NEW h \in Object \ excused PROVE TokenOnce(h)'
    <3> DEFINE handed == <<"handed", p, 0>>
               last == <<"waiting", None, Len(handlerChan) + 1>>
               g == [y \in Tokens(h) |-> IF y = handed THEN last ELSE y]
    <3>1. TokenOnce(h) BY <2>6 DEF BlameInv
    <3>2. m.hash = h => handed \in Tokens(h)
      <4>1. m.hash = reader[p].hash BY <2>0
      <4>2. QED BY <2>1, <4>1, TokenCases DEF Tokens
    <3>3. ASSUME NEW x \in Tokens(h)'
          PROVE  (x \in Tokens(h) /\ x # handed) \/ (x = last /\ m.hash = h)
      <4>1. PICK r, c : r = reader' /\ c = handlerChan' OBVIOUS
      <4>2. x \in TokensOf(requester, out, inbox, r, c, h) BY <2>1, <4>1 DEF Tokens
      <4>3. \/ x = <<"asking", None, 0>> /\ requester = h
            \/ \E q \in Peer : \E i \in Seen(out[q], h) : x = <<"leaving", q, i>>
            \/ \E q \in Peer : \E i \in Told(inbox[q], h) : x = <<"coming", q, i>>
            \/ \E q \in Peer : /\ r[q].pc \in {"offer", "deliver"} /\ r[q].hash = h
                               /\ x = <<"handed", q, 0>>
            \/ \E i \in Told(c, h) : x = <<"waiting", None, i>>
        BY <4>2, TokenCases
      <4>4. CASE \E i \in Told(c, h) : x = <<"waiting", None, i>>
        <5>1. PICK i \in Told(c, h) : x = <<"waiting", None, i>> BY <4>4
        <5>2. i \in Told(handlerChan, h) \/ (m.hash = h /\ i = Len(handlerChan) + 1)
          <6>1. i \in Told(Append(handlerChan, m), h) BY <2>1, <4>1, <5>1
          <6>2. QED BY <1>1, <2>2, <6>1, ToldPlaces
        <5>3. CASE i \in Told(handlerChan, h)
          <6>1. x \in Tokens(h) BY <5>1, <5>3, TokenCases DEF Tokens
          <6>2. QED BY <5>1, <6>1
        <5>4. QED BY <5>1, <5>2, <5>3
      <4>5. CASE \E q \in Peer : /\ r[q].pc \in {"offer", "deliver"} /\ r[q].hash = h
                                 /\ x = <<"handed", q, 0>>
        <5>1. PICK q \in Peer : /\ r[q].pc \in {"offer", "deliver"} /\ r[q].hash = h
                                /\ x = <<"handed", q, 0>>
          BY <4>5
        <5>2. q # p /\ r[q] = reader[q] BY <2>3, <4>1, <5>1
        <5>3. x \in Tokens(h) BY <5>1, <5>2, TokenCases DEF Tokens
        <5>4. QED BY <5>1, <5>2, <5>3
      <4>6. CASE \/ x = <<"asking", None, 0>> /\ requester = h
                 \/ \E q \in Peer : \E i \in Seen(out[q], h) : x = <<"leaving", q, i>>
                 \/ \E q \in Peer : \E i \in Told(inbox[q], h) : x = <<"coming", q, i>>
        <5>1. x \in Tokens(h) BY <4>6, TokenCases DEF Tokens
        <5>2. x # handed BY <4>6
        <5>3. QED BY <5>1, <5>2
      <4>7. QED BY <4>3, <4>4, <4>5, <4>6
    <3>4. \A x \in Tokens(h)' : \E y \in Tokens(h) : x = g[y]
      <4> HIDE DEF handed, last
      <4>1. QED BY <3>2, <3>3
    <3> HIDE DEF g
    <3>5. Handed(reader', h) # {} => Queued(h)'
      <4>1. Handed(reader, h) # {} => Queued(h) BY <3>1 DEF TokenOnce
      <4>2. QED BY <2>1, <2>4, <4>1 DEF Queued
    <3>6. \A s \in Requests(queue') : s.hash = h =>
            /\ s.asked # "expired"
            /\ s.response # None => s \in Requests(queue) /\ (s.asked = "fresh" \/ h \in ignored')
      BY <2>1, <3>1 DEF TokenOnce
    <3> HIDE DEF handed, last
    <3>7. QED BY <2>1, <3>1, <3>4, <3>5, <3>6, TokenMoves
  <2>7. QED BY <2>1, <2>5, <2>6 DEF BlameInv
<1>6. CASE ReadPush(p) \/ ReadSend(p)
  <2>1. /\ UNCHANGED <<ignored, requester, out, inbox, handlerChan, excused, blamed>>
        /\ reader[p].pc \in {"push", "send"} /\ reader[p].hash \in Object
    BY <1>1, <1>6 DEF ReadPush, ReadSend, history
  <2>2. reader' = [reader EXCEPT ![p] = Listen] \/ reader' = [reader EXCEPT ![p].pc = "send"]
    BY <1>6 DEF ReadPush, ReadSend
  <2>3. \A q \in Peer : \/ reader'[q] = reader[q]
                        \/ /\ reader[q].pc \notin {"offer", "deliver"}
                           /\ reader'[q].pc \notin {"offer", "deliver"}
    BY <1>1, <1>2, <2>1, <2>2 DEF Readers
  <2>4. \A h : Handed(reader', h) = Handed(reader, h)
    <3>1. ASSUME NEW h PROVE Handed(reader', h) = Handed(reader, h)
      <4>1. {x \in Peer : reader'[x].pc \in {"offer", "deliver"} /\ reader'[x].hash = h}
            = {x \in Peer : reader[x].pc \in {"offer", "deliver"} /\ reader[x].hash = h}
        BY <2>3
      <4>2. QED BY <4>1 DEF Handed
    <3>2. QED BY <3>1
  <2>5. \A h : Tokens(h)' = Tokens(h)
    <3> HIDE DEF Handed
    <3>1. QED BY <2>1, <2>4 DEF Tokens, TokensOf
  <2>6. CASE UNCHANGED queue BY <2>1, <2>4, <2>5, <2>6, BlameKept
  <2>7. CASE ~UNCHANGED queue
    <3>1. /\ ~Queued(reader[p].hash)
          /\ queue' = Append(queue, NewRequest(reader[p].hash, p, None))
      BY <1>6, <2>7 DEF ReadPush, ReadSend
    <3>2. PICK r : r = NewRequest(reader[p].hash, p, None) OBVIOUS
    <3>3. r \in RequestSet /\ r.asked = "no" /\ r.response = None /\ r.hash = reader[p].hash
      BY <2>1, <3>2 DEF NewRequest, RequestSet
    <3>4. QED BY <2>1, <2>4, <2>5, <3>1, <3>2, <3>3, BlamePush
  <2>8. QED BY <2>6, <2>7
<1>7. QED BY <1>3, <1>4, <1>5, <1>6 DEF Read

(* A request is written to the socket and perhaps answered; a connection that closes
   loses what is on it.                                                             *)
LEMMA PeerBlame == ASSUME TrackerInv, BlameInv, NEW p \in Peer, Write(p) \/ Leave(p) PROVE BlameInv'
<1>1. /\ out \in [Peer -> Seq(Object)] /\ inbox \in [Peer -> Seq(Packets)]
      /\ reader \in [Peer -> Readers]
  BY DEF TrackerInv, ChannelTypes
<1>2. /\ UNCHANGED <<queue, ignored, requester, handlerChan, excused, blamed>>
      /\ Write(p) => UNCHANGED reader
  BY DEF Write, WriteTask, Leave, Close, tracker, history
<1>3. Distinct' /\ BlamedOnlyLate' BY <1>2 DEF BlameInv, Distinct, BlamedOnlyLate
<1>4. CASE Leave(p)
  <2>1. /\ out' = [out EXCEPT ![p] = <<>>] /\ inbox' = [inbox EXCEPT ![p] = <<>>]
        /\ reader' = [reader EXCEPT ![p] = Listen]
    BY <1>4 DEF Leave, Close
  <2>2. ASSUME NEW h
        PROVE  /\ Leaving(out', h) \subseteq Leaving(out, h) /\ Coming(inbox', h) \subseteq Coming(inbox, h)
               /\ Handed(reader', h) \subseteq Handed(reader, h)
    <3>1. \A q \in Peer : Seen(out'[q], h) \subseteq Seen(out[q], h) BY <1>1, <2>1 DEF Seen
    <3>2. \A q \in Peer : Told(inbox'[q], h) \subseteq Told(inbox[q], h) BY <1>1, <2>1 DEF Told
    <3>3. \A q \in Peer : reader'[q].pc \in {"offer", "deliver"} => reader'[q] = reader[q]
      BY <1>1, <2>1 DEF Listen
    <3>4. Leaving(out', h) \subseteq Leaving(out, h) BY <3>1, SMT DEF Leaving
    <3>5. Coming(inbox', h) \subseteq Coming(inbox, h) BY <3>2, SMT DEF Coming
    <3>6. Handed(reader', h) \subseteq Handed(reader, h) BY <3>3, Zenon DEF Handed
    <3>7. QED BY <3>4, <3>5, <3>6
  <2>3. \A h : Tokens(h)' \subseteq Tokens(h)
    <3> HIDE DEF Handed
    <3>1. QED BY <1>2, <2>2 DEF Tokens, TokensOf
  <2>4. ASSUME NEW h \in Object \ excused PROVE TokenOnce(h)'
    <3>1. TokenOnce(h) BY <2>4 DEF BlameInv
    <3>2. QED BY <1>2, <2>2, <2>3, <3>1, TokensShrink
  <2>5. QED BY <1>2, <1>3, <2>4 DEF BlameInv
<1>5. CASE Write(p)
  <2>0. PICK k : k = Head(out[p]) OBVIOUS
  <2>1. /\ out[p] # <<>> /\ out' = [out EXCEPT ![p] = Tail(@)] /\ UNCHANGED reader
        /\ \/ UNCHANGED inbox
           \/ \E type \in {"object", "notfound"} :
                inbox' = [inbox EXCEPT ![p] = Append(@, [type |-> type, hash |-> k])]
    BY <1>2, <1>5, <2>0 DEF Write, WriteTask
  <2>2. out[p] \in Seq(Object) /\ inbox[p] \in Seq(Packets) /\ k \in Object
    <3>1. out[p] \in Seq(Object) /\ inbox[p] \in Seq(Packets) BY <1>1
    <3>2. QED BY <2>0, <2>1, <3>1
  <2>3. ASSUME NEW h \in Object \ excused PROVE TokenOnce(h)'
    <3> DEFINE first == <<"leaving", p, 1>>
               answer == <<"coming", p, Len(inbox[p]) + 1>>
               g == [y \in Tokens(h) |-> IF y[1] = "leaving" /\ y[2] = p
                                         THEN IF y[3] = 1 THEN answer ELSE <<"leaving", p, y[3] - 1>>
                                         ELSE y]
    <3>1. TokenOnce(h) BY <2>3 DEF BlameInv
    <3>2. k = h => first \in Tokens(h) /\ g[first] = answer
      <4>1. SUFFICES ASSUME k = h PROVE first \in Tokens(h) OBVIOUS
      <4>2. 1 \in Seen(out[p], h) BY <2>0, <2>1, <2>2, <4>1, SeenPlaces
      <4>3. QED BY <4>2, TokenCases DEF Tokens
    <3>3. \A y \in Tokens(h) : ~(y[1] = "leaving" /\ y[2] = p) => g[y] = y OBVIOUS
    <3>4. \A i \in Nat \ {0} : <<"leaving", p, i + 1>> \in Tokens(h) =>
             g[<<"leaving", p, i + 1>>] = <<"leaving", p, i>>
      <4>1. SUFFICES ASSUME NEW i \in Nat \ {0}, <<"leaving", p, i + 1>> \in Tokens(h)
                     PROVE  g[<<"leaving", p, i + 1>>] = <<"leaving", p, i>>
        OBVIOUS
      <4>2. i + 1 # 1 /\ (i + 1) - 1 = i BY <4>1
      <4>3. QED BY <4>1, <4>2
    <3>5. ASSUME NEW x \in Tokens(h)' PROVE \E y \in Tokens(h) : x = g[y]
      <4> HIDE DEF g, first, answer
      <4>1. PICK o, b : o = out' /\ b = inbox' OBVIOUS
      <4>2. x \in TokensOf(requester, o, b, reader, handlerChan, h) BY <1>2, <2>1, <4>1, <3>5 DEF Tokens
      <4>3. \/ x = <<"asking", None, 0>> /\ requester = h
            \/ \E q \in Peer : \E i \in Seen(o[q], h) : x = <<"leaving", q, i>>
            \/ \E q \in Peer : \E i \in Told(b[q], h) : x = <<"coming", q, i>>
            \/ \E q \in Peer : /\ reader[q].pc \in {"offer", "deliver"} /\ reader[q].hash = h
                               /\ x = <<"handed", q, 0>>
            \/ \E i \in Told(handlerChan, h) : x = <<"waiting", None, i>>
        BY <4>2, TokenCases
      <4>4. CASE \E q \in Peer : \E i \in Seen(o[q], h) : x = <<"leaving", q, i>>
        <5>1. PICK q \in Peer : \E i \in Seen(o[q], h) : x = <<"leaving", q, i>> BY <4>4
        <5>2. PICK i \in Seen(o[q], h) : x = <<"leaving", q, i>> BY <5>1
        <5>3. CASE q = p
          <6>1. o[p] = Tail(out[p]) BY <1>1, <2>1, <4>1
          <6>2. i \in Nat \ {0} BY <2>1, <2>2, <5>2, <5>3, <6>1 DEF Seen
          <6>3. i + 1 \in Seen(out[p], h) BY <2>1, <2>2, <5>2, <5>3, <6>1, SeenPlaces
          <6>4. <<"leaving", p, i + 1>> \in Tokens(h) BY <6>3, TokenCases DEF Tokens
          <6>5. QED BY <3>4, <5>2, <5>3, <6>2, <6>4
        <5>4. CASE q # p
          <6>1. i \in Seen(out[q], h) BY <1>1, <2>1, <4>1, <5>2, <5>4
          <6>2. x \in Tokens(h) BY <5>2, <6>1, TokenCases DEF Tokens
          <6>3. x[2] # p BY <5>2, <5>4
          <6>4. QED BY <3>3, <6>2, <6>3
        <5>5. QED BY <5>3, <5>4
      <4>5. CASE \E q \in Peer : \E i \in Told(b[q], h) : x = <<"coming", q, i>>
        <5>1. PICK q \in Peer : \E i \in Told(b[q], h) : x = <<"coming", q, i>> BY <4>5
        <5>2. PICK i \in Told(b[q], h) : x = <<"coming", q, i>> BY <5>1
        <5>3. CASE i \in Told(inbox[q], h)
          <6>1. x \in Tokens(h) BY <5>2, <5>3, TokenCases DEF Tokens
          <6>2. x[1] # "leaving" BY <5>2
          <6>3. QED BY <3>3, <6>1, <6>2
        <5>4. CASE i \notin Told(inbox[q], h)
          <6>1. b # inbox BY <5>2, <5>4
          <6>2. PICK type \in {"object", "notfound"} :
                   b = [inbox EXCEPT ![p] = Append(@, [type |-> type, hash |-> k])]
            BY <2>1, <4>1, <6>1
          <6>3. q = p BY <1>1, <5>2, <5>4, <6>2
          <6>4. PICK m : m = [type |-> type, hash |-> k] OBVIOUS
          <6>5. m \in Packets /\ m.hash = k BY <2>2, <6>4 DEF Packets
          <6>6. b[p] = Append(inbox[p], m) BY <1>1, <6>2, <6>4
          <6>7. k = h /\ i = Len(inbox[p]) + 1 BY <2>2, <5>2, <5>4, <6>3, <6>5, <6>6, ToldPlaces
          <6>8. x = answer BY <5>2, <6>3, <6>7 DEF answer
          <6>9. QED BY <3>2, <6>7, <6>8
        <5>5. QED BY <5>3, <5>4
      <4>6. CASE \/ x = <<"asking", None, 0>> /\ requester = h
                 \/ \E q \in Peer : /\ reader[q].pc \in {"offer", "deliver"} /\ reader[q].hash = h
                                    /\ x = <<"handed", q, 0>>
                 \/ \E i \in Told(handlerChan, h) : x = <<"waiting", None, i>>
        <5>1. x \in Tokens(h) BY <4>6, TokenCases DEF Tokens
        <5>2. x[1] # "leaving" BY <4>6
        <5>3. QED BY <3>3, <5>1, <5>2
      <4>7. QED BY <4>3, <4>4, <4>5, <4>6
    <3> HIDE DEF g
    <3>6. Handed(reader', h) # {} => Queued(h)' BY <1>2, <2>1, <3>1 DEF TokenOnce, Queued
    <3>7. QED BY <1>2, <3>1, <3>5, <3>6, TokenMoves DEF TokenOnce
  <2>4. QED BY <1>2, <1>3, <2>3 DEF BlameInv
<1>6. QED BY <1>4, <1>5

(* Time: what times out and what is forgotten is excused.                           *)
LEMMA TimeBlame == ASSUME TrackerInv, BlameInv, NEW k \in Object, Passes(k) \/ Cleaner(k) PROVE BlameInv'
<1>1. queue \in Seq(RequestSet) BY DEF TrackerInv, QueueTypes
<1>2. \A r \in Requests(queue) : r \in RequestSet BY <1>1 DEF Requests, Range
<1>3. /\ UNCHANGED <<requester, out, inbox, reader, handlerChan, blamed>>
      /\ excused' = excused \cup {k} /\ ignored \ {k} \subseteq ignored'
      /\ ignored' \subseteq ignored
  BY DEF Passes, Cleaner, Expire, CleanCache, network
<1>4. \A s : s.hash # k => (s \in Requests(queue') <=> s \in Requests(queue))
  <2>1. CASE Cleaner(k) BY <2>1 DEF Cleaner, CleanCache
  <2>2. CASE Passes(k)
    <3> DEFINE marked(r) == IF r.hash = k THEN [r EXCEPT !.asked = "expired"] ELSE r
    <3>1. queue' = [i \in DOMAIN queue |-> marked(queue[i])] BY <2>2 DEF Passes, Expire
    <3>2. \A r \in Requests(queue) : marked(r).hash = r.hash /\ (r.hash # k => marked(r) = r)
      BY <1>2 DEF RequestSet
    <3> HIDE DEF marked
    <3>3. \A s \in Requests(queue') : \E r \in Requests(queue) : s = marked(r)
      BY <3>1, Zenon DEF Requests, Range
    <3>4. ASSUME NEW s \in Requests(queue), s.hash # k PROVE s \in Requests(queue')
      <4>1. PICK i \in DOMAIN queue : s = queue[i] BY Zenon DEF Requests, Range
      <4>2. i \in DOMAIN queue' /\ queue'[i] = s BY <3>1, <3>2, <3>4, <4>1
      <4>3. QED BY <4>2, Zenon DEF Requests, Range
    <3>5. QED BY <3>2, <3>3, <3>4
  <2>3. QED BY <2>1, <2>2
<1>5. Distinct'
  <2>1. CASE Cleaner(k) BY <2>1 DEF Cleaner, CleanCache, BlameInv, Distinct
  <2>2. CASE Passes(k)
    <3> DEFINE marked(r) == IF r.hash = k THEN [r EXCEPT !.asked = "expired"] ELSE r
    <3>1. queue' = [i \in DOMAIN queue |-> marked(queue[i])] BY <2>2 DEF Passes, Expire
    <3>2. \A s \in Requests(queue') : \E r \in Requests(queue) : s = marked(r)
      <4> HIDE DEF marked
      <4>1. QED BY <3>1, Zenon DEF Requests, Range
    <3>3. QED BY <1>2, <3>2 DEF BlameInv, Distinct, RequestSet
  <2>3. QED BY <2>1, <2>2
<1>6. BlamedOnlyLate' BY <1>3 DEF BlameInv, BlamedOnlyLate
<1>7. ASSUME NEW h \in Object \ excused' PROVE TokenOnce(h)'
  <2>1. TokenOnce(h) /\ h # k BY <1>3, <1>7 DEF BlameInv
  <2>2. Tokens(h)' = Tokens(h) /\ Handed(reader', h) = Handed(reader, h) BY <1>3, TokensStay
  <2>3. h \in ignored' <=> h \in ignored BY <1>3, <2>1
  <2> HIDE DEF Tokens, Handed
  <2>4. QED BY <1>4, <2>1, <2>2, <2>3 DEF TokenOnce, Queued
<1>8. QED BY <1>5, <1>6, <1>7 DEF BlameInv

(* At the start nothing is asked and nothing travels but announcements.              *)
LEMMA BlameStart == Init => BlameInv
<1> SUFFICES ASSUME Init PROVE BlameInv OBVIOUS
<1>1. Requests(queue) = {} BY DEF Init, Requests, Range
<1>2. ASSUME NEW h \in Object PROVE Tokens(h) = {}
  <2>1. SUFFICES ASSUME NEW x \in Tokens(h) PROVE FALSE OBVIOUS
  <2>2. requester # h BY TrackerAssumption DEF Init
  <2>3. \A p \in Peer : Seen(out[p], h) = {} BY DEF Init, Seen
  <2>4. \A p \in Peer : Told(inbox[p], h) = {}
    <3>1. SUFFICES ASSUME NEW p \in Peer, NEW i \in DOMAIN inbox[p] PROVE inbox[p][i].type = "propagation"
      BY DEF Told
    <3>2. inbox[p] = [j \in DOMAIN work.announced[p] |->
                         [type |-> "propagation", hash |-> work.announced[p][j]]]
      BY DEF Init
    <3>3. QED BY <3>1, <3>2
  <2>5. \A p \in Peer : reader[p].pc \notin {"offer", "deliver"} BY DEF Init
  <2>6. Told(handlerChan, h) = {} BY DEF Init, Told
  <2>7. QED BY <2>1, <2>2, <2>3, <2>4, <2>5, <2>6, TokenCases DEF Tokens
<1>3. ASSUME NEW h \in Object PROVE TokenOnce(h)
  <2>1. Handed(reader, h) = {} BY <1>2 DEF Tokens, TokensOf
  <2>2. Tokens(h) = {} BY <1>2
  <2> HIDE DEF Tokens, Handed
  <2>3. QED BY <1>1, <2>1, <2>2 DEF TokenOnce
<1>4. Distinct /\ BlamedOnlyLate BY <1>1 DEF Init, Distinct, BlamedOnlyLate
<1>5. QED BY <1>3, <1>4 DEF BlameInv

(* A peer that answers each request once is blamed for no object that is not excused. *)
THEOREM TrackerBlame == Spec => []BlameInv
<1>1. TrackerInv /\ BlameInv /\ [Next]_vars => BlameInv'
  <2>1. SUFFICES ASSUME TrackerInv, BlameInv, [Next]_vars PROVE BlameInv' OBVIOUS
  <2>2. CASE UNCHANGED vars
    <3>1. UNCHANGED <<queue, ignored, requester, out, inbox, reader, handlerChan, excused, blamed>>
      BY <2>2 DEF vars, tracker, network, history
    <3>2. QED BY <2>1, <3>1, TokensStay, BlameKept
  <2>3. QED BY <2>1, <2>2, UsersBlame, HandlerBlame, RequesterBlame, ReadBlame, PeerBlame, TimeBlame
    DEF Next
<1>2. QED BY BlameStart, <1>1, TrackerInvariant, PTL DEF Spec

(* The tracker asks no more than it should and blames only who is late: the types and
   bounds of the queue and the channels, a failed group that stops, and no failure
   counted for an answer that came in time.                                         *)
THEOREM TrackerIsSound == Spec => []TrackerSound
<1>1. BlameInv => BlamedOnlyLate BY DEF BlameInv
<1>2. TypeOK /\ GroupStops /\ BlamedOnlyLate => TrackerSound BY DEF TrackerSound
<1>3. QED BY TrackerTypes, TrackerGroupStops, TrackerBlame, <1>1, <1>2, PTL
===============================================================================
