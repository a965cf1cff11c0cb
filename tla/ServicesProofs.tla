----------------------------- MODULE ServicesProofs ------------------------------
(* What a node does beside its chain, for any number of sessions, threads and jobs.

   Events: no subscription outlives its session. The entry of a session is removed
   by on_close, which is called by whoever takes the session out of the server. What
   has to be known is that somebody does: a session whose task has not come to
   on_close is still registered, unless clear_connections took it out, and a session
   that was never accepted has no entry.

   Mining: a thread hashes what it submits, and the last job is one the server still
   keeps. What has to be known is the shape of the work of a thread that mines, since
   the nonce is written into the middle of bytes hashed before, and that a cache of
   at least one job never gives up the one put last.                               *)
EXTENDS EventServer, Mining, TLAPS

SocketTypes ==
    /\ task \in [Session -> {"none", "loop", "delete", "on_close", "over"}]
    /\ registered \subseteq Session /\ drained \subseteq Session
    /\ entries \subseteq Session

\* Until its task deletes it, a session is registered or was taken out by clear_connections.
Accounted ==
    \A s \in Session : task[s] \in {"loop", "delete"} => s \in registered \cup drained

\* Sessions that are not there yet have no entry, and none of another state is registered.
Bounded ==
    \A s \in Session :
        /\ s \in registered => task[s] \in {"loop", "delete"}
        /\ s \in entries => task[s] # "none"

EventInv == SocketTypes /\ Accounted /\ Bounded /\ NoSubscriberOver

-------------------------------------------------------------------------------
(* A server starts without sessions and without subscriptions.                    *)
LEMMA EventsStart == InitEvents => EventInv
  BY DEF InitEvents, InitSockets, EventInv, SocketTypes, Accounted, Bounded, NoSubscriberOver

(* Every step of a session, of the operator and of those who notify keeps the
   invariant. The step that matters is delete_session: a session that is not
   registered any more goes straight to its end with its entry, and then it was
   drained.                                                                       *)
LEMMA EventsStep ==
  ASSUME EventInv, [NextEvents]_eventVars
  PROVE  EventInv'
<1> USE DEF EventInv, SocketTypes, Accounted, Bounded, NoSubscriberOver
<1>1. CASE UNCHANGED eventVars
  BY <1>1 DEF eventVars, socketVars, handlerVars
<1>2. CASE ClearConnections /\ UNCHANGED handlerVars
  BY <1>2 DEF ClearConnections, handlerVars
<1>3. CASE Notify
  BY <1>3 DEF Notify, socketVars
<1>4. ASSUME NEW n \in 1..MaxNotified, NEW s \in Session, SendNotification(n, s)
      PROVE  EventInv'
  BY <1>4 DEF SendNotification, socketVars
<1>5. ASSUME NEW s \in Session, HandleConnection(s), UNCHANGED handlerVars
      PROVE  EventInv'
  BY <1>5 DEF HandleConnection, TaskTo, handlerVars
<1>6. ASSUME NEW s \in Session, LoopEnds(s), UNCHANGED handlerVars
      PROVE  EventInv'
  BY <1>6 DEF LoopEnds, TaskTo, handlerVars
<1>7. ASSUME NEW s \in Session, NEW how, ClientLeaves(s, how), UNCHANGED handlerVars
      PROVE  EventInv'
  BY <1>7 DEF ClientLeaves, handlerVars
<1>8. ASSUME NEW s \in Session, Subscribe(s) \/ Unsubscribe(s)
      PROVE  EventInv'
  BY <1>8 DEF Subscribe, Unsubscribe, OnMessage, socketVars
<1>9. ASSUME NEW s \in Session, SendText(s)
      PROVE  EventInv'
  BY <1>9 DEF SendText, socketVars
<1>10. ASSUME NEW s \in Session, Delete(s)
       PROVE  EventInv'
  <2>1. CASE s \in registered
    BY <1>10, <2>1 DEF Delete, DeleteSession, TaskTo
  <2>2. CASE s \notin registered
    <3>1. s \in drained
      BY <1>10, <2>2 DEF Delete
    <3>2. QED BY <1>10, <2>2, <3>1 DEF Delete, DeleteSession, TaskTo
  <2>3. QED BY <2>1, <2>2
<1>11. ASSUME NEW s \in Session, OnClose(s)
       PROVE  EventInv'
  BY <1>11 DEF OnClose, Forgotten, TaskTo
<1>12. QED
  BY <1>1, <1>2, <1>3, <1>4, <1>5, <1>6, <1>7, <1>8, <1>9, <1>10, <1>11
     DEF NextEvents, SocketStep

(* The inductive invariant holds of every server of events.                       *)
THEOREM EventServerInvariant == EventSpec => []EventInv
<1>1. EventInv /\ [NextEvents]_eventVars => EventInv' BY EventsStep
<1>2. QED BY EventsStart, <1>1, PTL DEF EventSpec

(* Whatever order clients subscribe, leave and are closed in, no entry of events is
   left for a session that is over, except those that clear_connections took out. *)
THEOREM EventsNoSubscriberOver == EventSpec => []NoSubscriberOver
<1>1. EventInv => NoSubscriberOver BY DEF EventInv
<1>2. QED BY EventServerInvariant, <1>1, PTL
-------------------------------------------------------------------------------
(* Mining.                                                                        *)
Header == [tip : Int, txs : Int]

MiningTypes ==
    /\ tips \in Nat /\ pool \in Nat
    /\ jobs \in Seq(Header) /\ lastJob \in Header /\ templates \subseteq Header

\* The work of a thread that mines has all its fields, and its hashed bytes are theirs.
Whole(work) ==
    /\ work.nonce \in Nat
    /\ work = [header |-> work.header, time |-> work.time, nonce |-> work.nonce,
               extra |-> work.extra, cache |-> Bytes(work)]

ThreadsWhole ==
    /\ thread = [t \in Thread |-> thread[t]]
    /\ \A t \in Thread : thread[t].does = "mine" => Whole(thread[t].work)

JobsInv == MiningTypes /\ LastJobKept
MiningInv == JobsInv /\ ThreadsWhole

(* The cache keeps a job that is put into it: with room for one job at least, what
   falls out is another one.                                                      *)
LEMMA PutKeeps ==
  ASSUME MiningTypes, NEW header \in Header
  PROVE  Put(header) \in Seq(Header) /\ header \in Range(Put(header))
<1>1. Without(header) \in Seq(Header)
  <2>1. CASE header \in Range(jobs)
    <3>1. PICK k \in DOMAIN jobs : k = CHOOSE i \in DOMAIN jobs : jobs[i] = header
      BY <2>1 DEF Range
    <3>2. k \in 1..Len(jobs) /\ Len(jobs) \in Nat
      BY <3>1 DEF MiningTypes
    <3>3. SubSeq(jobs, 1, k - 1) \in Seq(Header) /\ SubSeq(jobs, k + 1, Len(jobs)) \in Seq(Header)
      BY <3>2 DEF MiningTypes
    <3>4. Without(header) = SubSeq(jobs, 1, k - 1) \o SubSeq(jobs, k + 1, Len(jobs))
      BY <2>1, <3>1 DEF Without, RemoveAt
    <3>5. QED BY <3>3, <3>4
  <2>2. CASE header \notin Range(jobs)
    BY <2>2 DEF Without, MiningTypes
  <2>3. QED BY <2>1, <2>2
<1>2. PICK full : full = Append(Without(header), header)
  OBVIOUS
<1>3. full \in Seq(Header) /\ Len(full) = Len(Without(header)) + 1 /\ full[Len(full)] = header
  BY <1>1, <1>2
<1>4. CASE Len(full) > StableLimit
  <2>1. Put(header) = Tail(full)
    BY <1>2, <1>4 DEF Put
  <2>2. Len(full) \in Nat /\ Len(full) > 1
    BY <1>3, <1>4, MiningAssumption
  <2>3. Tail(full) \in Seq(Header) /\ Len(Tail(full)) = Len(full) - 1
    BY <1>3, <2>2
  <2>4. Len(full) - 1 \in DOMAIN Tail(full) /\ Tail(full)[Len(full) - 1] = header
    BY <1>3, <2>2, <2>3
  <2>5. QED BY <2>1, <2>3, <2>4 DEF Range
<1>5. CASE ~(Len(full) > StableLimit)
  <2>1. Put(header) = full
    BY <1>2, <1>5 DEF Put
  <2>2. Len(full) \in DOMAIN full
    BY <1>1, <1>3
  <2>3. QED BY <1>3, <2>1, <2>2 DEF Range
<1>6. QED BY <1>4, <1>5

(* A job that is saved is the last one, and kept.                                 *)
LEMMA SavedKept ==
  ASSUME MiningTypes, NEW header \in Header, SaveJob(header),
         tips' \in Nat, pool' \in Nat, templates' \subseteq Header
  PROVE  JobsInv'
  BY PutKeeps DEF JobsInv, MiningTypes, LastJobKept, SaveJob

(* A template is a header.                                                        *)
LEMMA TemplateHeader ==
  ASSUME MiningTypes
  PROVE  Template \in Header
  BY DEF MiningTypes, Template, Header

(* Before anything is connected, nothing is mined.                                *)
LEMMA MiningStart == InitMining => MiningInv
<1> SUFFICES ASSUME InitMining PROVE MiningInv
  OBVIOUS
<1>1. NoJob \in Header
  BY DEF NoJob, Header
<1>2. JobsInv
  BY <1>1 DEF InitMining, JobsInv, MiningTypes, LastJobKept
<1>3. ThreadsWhole
  BY DEF InitMining, ThreadsWhole, Waiting
<1>4. QED BY <1>2, <1>3 DEF MiningInv

(* Steps of the miner leave what the server keeps alone.                          *)
LEMMA JobsKept ==
  ASSUME JobsInv, tips' \in Nat, pool' \in Nat, templates' \subseteq Header,
         UNCHANGED <<jobs, lastJob>>
  PROVE  JobsInv'
  BY DEF JobsInv, MiningTypes, LastJobKept

(* Steps of the server leave the threads alone.                                   *)
LEMMA ThreadsKept ==
  ASSUME ThreadsWhole, UNCHANGED thread
  PROVE  ThreadsWhole'
  BY DEF ThreadsWhole, Whole, Bytes

(* A thread that turns to something keeps the others as they are.                 *)
LEMMA ThreadTurns ==
  ASSUME ThreadsWhole, NEW t \in Thread, NEW state, Does(t, state),
         state.does = "mine" => Whole(state.work)
  PROVE  ThreadsWhole'
<1>1. thread' = [x \in Thread |-> IF x = t THEN state ELSE thread[x]]
  BY DEF ThreadsWhole, Does
<1>2. ASSUME NEW x \in Thread, thread'[x].does = "mine"
      PROVE  Whole(thread'[x].work)
  <2>1. CASE x = t
    <3>1. thread'[x] = state BY <1>1, <2>1
    <3>2. QED BY <1>2, <3>1
  <2>2. CASE x # t
    <3>1. thread'[x] = thread[x] BY <1>1, <2>2
    <3>2. QED BY <1>2, <3>1 DEF ThreadsWhole
  <2>3. QED BY <2>1, <2>2
<1>3. thread' = [x \in Thread |-> thread'[x]]
  BY <1>1
<1>4. QED BY <1>2, <1>3 DEF ThreadsWhole, Whole, Bytes

(* A new job is hashed with the id of the thread in place.                        *)
LEMMA FreshWhole ==
  ASSUME NEW header, NEW t
  PROVE  Whole(Hashed(set_thread_id_u16(NewWork(header), t)))
<1>1. PICK w : w = set_thread_id_u16(NewWork(header), t)
  OBVIOUS
<1>2. w = [header |-> header, time |-> 0, nonce |-> 0, extra |-> t, cache |-> <<>>]
  BY <1>1 DEF set_thread_id_u16, NewWork
<1>3. Bytes(w) = <<header, 0, 0, t>>
  BY <1>2 DEF Bytes
<1>4. Hashed(w) = [header |-> header, time |-> 0, nonce |-> 0, extra |-> t, cache |-> <<header, 0, 0, t>>]
  BY <1>2, <1>3 DEF Hashed
<1>5. Whole(Hashed(w))
  BY <1>4 DEF Whole, Bytes
<1>6. QED BY <1>1, <1>5

(* The next nonce is written into the work and into the bytes that are hashed.    *)
LEMMA NonceWhole ==
  ASSUME NEW work, Whole(work)
  PROVE  Whole(increase_nonce(work))
<1>1. PICK h, x, n, e : h = work.header /\ x = work.time /\ n = work.nonce /\ e = work.extra
  OBVIOUS
<1>2. n \in Nat /\ work = [header |-> h, time |-> x, nonce |-> n, extra |-> e, cache |-> <<h, x, n, e>>]
  BY <1>1 DEF Whole, Bytes
<1>3. increase_nonce(work) = [header |-> h, time |-> x, nonce |-> n + 1, extra |-> e, cache |-> <<h, x, n + 1, e>>]
  <2>1. [<<h, x, n, e>> EXCEPT ![3] = n + 1] = <<h, x, n + 1, e>>
    OBVIOUS
  <2>2. increase_nonce(work) = [work EXCEPT !.nonce = n + 1, !.cache = [work.cache EXCEPT ![3] = n + 1]]
    BY <1>1, <1>2 DEF increase_nonce
  <2>3. QED BY <1>2, <2>1, <2>2
<1>4. QED BY <1>2, <1>3 DEF Whole, Bytes

(* And so is the time.                                                            *)
LEMMA TimeWhole ==
  ASSUME NEW work, Whole(work)
  PROVE  Whole(set_timestamp(work))
<1>1. PICK h, x, n, e : h = work.header /\ x = work.time /\ n = work.nonce /\ e = work.extra
  OBVIOUS
<1>2. n \in Nat /\ work = [header |-> h, time |-> x, nonce |-> n, extra |-> e, cache |-> <<h, x, n, e>>]
  BY <1>1 DEF Whole, Bytes
<1>3. set_timestamp(work) = [header |-> h, time |-> 1, nonce |-> n, extra |-> e, cache |-> <<h, 1, n, e>>]
  <2>1. [<<h, x, n, e>> EXCEPT ![2] = 1] = <<h, 1, n, e>>
    OBVIOUS
  <2>2. set_timestamp(work) = [work EXCEPT !.time = 1, !.cache = [work.cache EXCEPT ![2] = 1]]
    BY <1>2 DEF set_timestamp
  <2>3. QED BY <1>2, <2>1, <2>2
<1>4. QED BY <1>2, <1>3 DEF Whole, Bytes

(* Every step of the daemon, of the connection and of the threads.                *)
LEMMA MiningStep ==
  ASSUME MiningInv, [NextMining]_miningVars
  PROVE  MiningInv'
<1>0. JobsInv /\ ThreadsWhole /\ tips \in Nat /\ pool \in Nat /\ templates \subseteq Header
  BY DEF MiningInv, JobsInv, MiningTypes
<1>a. ASSUME UNCHANGED <<chainSide, jobs, lastJob, templates>>, ThreadsWhole'
      PROVE  MiningInv'
  BY <1>0, <1>a, JobsKept DEF MiningInv, chainSide
<1>b. ASSUME JobsInv', UNCHANGED minerVars
      PROVE  MiningInv'
  BY <1>0, <1>b, ThreadsKept DEF MiningInv, minerVars
<1>c. ASSUME UNCHANGED <<chainSide, jobs, lastJob, templates, thread>>
      PROVE  MiningInv'
  BY <1>0, <1>c, <1>a, ThreadsKept
<1>1. CASE UNCHANGED miningVars
  BY <1>1, <1>c DEF miningVars, serverVars, minerVars
<1>2. CASE NewBlock
  <2>1. JobsInv' BY <1>0, <1>2, JobsKept DEF NewBlock
  <2>2. QED BY <2>1, <1>2, <1>b DEF NewBlock
<1>3. CASE NewTx
  <2>1. JobsInv' BY <1>0, <1>3, JobsKept DEF NewTx
  <2>2. QED BY <2>1, <1>3, <1>b DEF NewTx
<1>4. CASE TimePasses
  BY <1>4, <1>c DEF TimePasses, minerVars
<1>5. CASE BuildJob
  <2>1. templates' \subseteq Header
    BY <1>0, <1>5, TemplateHeader DEF BuildJob, JobsInv
  <2>2. JobsInv' BY <1>0, <1>5, <2>1, JobsKept DEF BuildJob, chainSide
  <2>3. QED BY <2>2, <1>5, <1>b DEF BuildJob
<1>6. ASSUME NEW taken \in BOOLEAN, HandleBlock(taken)
      PROVE  MiningInv'
  <2>1. JobsInv' BY <1>0, <1>6, JobsKept DEF HandleBlock
  <2>2. QED BY <2>1, <1>6, <1>b DEF HandleBlock
<1>7. ASSUME NEW header \in templates, SendJobs(header)
      PROVE  MiningInv'
  <2>1. header \in Header /\ SaveJob(header) /\ UNCHANGED <<tips, pool>> /\ templates' \subseteq Header
    BY <1>0, <1>7 DEF SendJobs, chainSide
  <2>2. JobsInv' BY <1>0, <2>1, SavedKept DEF JobsInv
  <2>3. QED BY <2>2, <1>7, <1>b DEF SendJobs
<1>8. ASSUME NEW s \in feeds, SendNewJob(s)
      PROVE  MiningInv'
  <2>1. UNCHANGED <<tips, pool, templates>> /\ UNCHANGED minerVars
    BY <1>8 DEF SendNewJob, chainSide
  <2>2. UNCHANGED <<lastJob, jobs>> \/ SaveJob(Template)
    BY <1>8 DEF SendNewJob
  <2>3. Template \in Header
    BY <1>0, TemplateHeader DEF JobsInv
  <2>4. JobsInv'
    BY <1>0, <2>1, <2>2, <2>3, SavedKept, JobsKept DEF JobsInv
  <2>5. QED BY <2>1, <2>4, <1>b
<1>9. ASSUME NEW header \in outbox, Deliver(header)
      PROVE  MiningInv'
  BY <1>9, <1>c DEF Deliver
<1>10. ASSUME NEW s \in miners, DeleteMiner(s)
       PROVE  MiningInv'
  BY <1>10, <1>c DEF DeleteMiner, minerVars
<1>11. CASE Connect
  BY <1>11, <1>c DEF Connect, minerVars
<1>12. CASE Disconnect
  BY <1>12, <1>c DEF Disconnect
<1>13. CASE Submit
  BY <1>13, <1>c DEF Submit, serverVars
<1>14. ASSUME NEW t \in Thread, TakeLagged(t)
       PROVE  MiningInv'
  BY <1>14, <1>c DEF TakeLagged, serverVars
<1>15. ASSUME NEW t \in Thread, TakeMessage(t)
       PROVE  MiningInv'
  <2>1. PICK header : header = Head(pending[t]).header
    OBVIOUS
  <2>2. PICK state : Does(t, state)
                     /\ \/ state = [Waiting EXCEPT !.does = "closed"]
                        \/ state = [does |-> "mine", work |-> Hashed(set_thread_id_u16(NewWork(header), t))]
    BY <1>15, <2>1 DEF TakeMessage
  <2>3. state.does = "mine" => Whole(state.work)
    BY <2>2, FreshWhole DEF Waiting
  <2>4. ThreadsWhole' BY <1>0, <2>2, <2>3, ThreadTurns
  <2>5. QED BY <1>15, <1>a, <2>4 DEF TakeMessage, serverVars
<1>16. ASSUME NEW t \in Thread, Woken(t) \/ TryOthers(t) \/ Solve(t)
       PROVE  MiningInv'
  <2>1. Does(t, Waiting) /\ UNCHANGED <<chainSide, serverVars>>
    BY <1>16 DEF Woken, TryOthers, Solve
  <2>2. ThreadsWhole' BY <1>0, <2>1, ThreadTurns DEF Waiting
  <2>3. QED BY <1>a, <2>1, <2>2 DEF serverVars
<1>17. ASSUME NEW t \in Thread, TryNonce(t)
       PROVE  MiningInv'
  <2>1. PICK next : next = increase_nonce(thread[t].work)
    OBVIOUS
  <2>2. Whole(next)
    <3>1. Whole(thread[t].work) BY <1>0, <1>17 DEF ThreadsWhole, TryNonce
    <3>2. QED BY <2>1, <3>1, NonceWhole
  <2>3. PICK state : Does(t, state)
                     /\ \/ state = Waiting
                        \/ state = [does |-> "mine", work |-> set_timestamp(next)]
                        \/ state = [does |-> "mine", work |-> next]
    BY <1>17, <2>1 DEF TryNonce
  <2>4. state.does = "mine" => Whole(state.work)
    BY <2>2, <2>3, TimeWhole DEF Waiting
  <2>5. ThreadsWhole' BY <1>0, <2>3, <2>4, ThreadTurns
  <2>6. QED BY <1>17, <1>a, <2>5 DEF TryNonce, serverVars
<1>18. QED
  BY <1>1, <1>2, <1>3, <1>4, <1>5, <1>6, <1>7, <1>8, <1>9, <1>10, <1>11, <1>12, <1>13, <1>14,
     <1>15, <1>16, <1>17 DEF NextMining, ThreadStep

(* The inductive invariant holds of every daemon with its miner.                  *)
THEOREM MiningInvariant == MiningSpec => []MiningInv
<1>1. MiningInv /\ [NextMining]_miningVars => MiningInv' BY MiningStep
<1>2. QED BY MiningStart, <1>1, PTL DEF MiningSpec

(* For every number of threads, jobs, sessions and nonces, and whatever overtakes
   what: the bytes a thread hashes are those of the work it submits, and the job
   send_new_job would hand out while rate limited is still in mining_jobs.         *)
THEOREM MiningWorkSound == MiningSpec => []WorkSound
<1>1. MiningInv => WorkSound
  <2> SUFFICES ASSUME MiningInv PROVE WorkSound
    OBVIOUS
  <2>1. ASSUME NEW t \in Thread, thread[t].does = "mine"
        PROVE  thread[t].work.cache = Bytes(thread[t].work)
    <3>1. Whole(thread[t].work) BY <2>1 DEF MiningInv, ThreadsWhole
    <3>2. QED BY <3>1 DEF Whole, Bytes
  <2>2. QED BY <2>1 DEF WorkSound, HashedIsSubmitted, MiningInv, JobsInv
<1>2. QED BY MiningInvariant, <1>1, PTL
===============================================================================
