-------------------------------- MODULE Mining ---------------------------------
(* GetWork: the daemon sends mining jobs over a websocket, the miner spreads them
   to its threads over a broadcast channel and returns the work that solves one.
   Every job is sent by a task of its own, so jobs may overtake one another; the
   connection may break at any time, and the miner connects again.

   The work hash of a block template depends on its tips and transactions only: a
   header is the pair of both, counted. Which blocks of others arrive, which of
   ours the chain takes and which nonce solves a job is left open. Tasks that
   would send the same job to the same session twice are one.                    *)
EXTENDS Integers, Sequences, FiniteSets, SequencesExt

CONSTANTS
    Thread,         \* the threads of the miner
    StableLimit,    \* STABLE_LIMIT: the jobs kept
    UpdateEvery,    \* UPDATE_EVERY_NONCE
    MaxNonce,       \* bound: nonces tried for one job
    MaxTips,        \* bound: blocks added to the chain
    MaxPool,        \* bound: transactions added to the mempool
    MaxSessions     \* bound: connections of the miner

ASSUME MiningAssumption ==
    /\ IsFiniteSet(Thread) /\ Thread # {}
    /\ {StableLimit, UpdateEvery, MaxSessions} \subseteq Nat \ {0}
    /\ {MaxNonce, MaxTips, MaxPool} \subseteq Nat

VARIABLES
    tips, pool,     \* blocks of the chain and transactions of the mempool, counted
    jobs,           \* mining_jobs, the least recently added first
    lastJob,        \* last_header_hash
    limited,        \* the last notification is less than notify_rate_limit_ms ago
    miners,         \* the sessions GetWorkServer knows
    notices,        \* notify_new_job tasks that have not looked at the chain yet
    templates,      \* headers such tasks have built and not saved yet
    feeds,          \* sessions send_new_job is about to serve
    outbox,         \* jobs on their way, each sent by a task of its own
    session,        \* the current connection of the miner, 0 when there is none
    sessions,       \* connections so far
    pending,        \* the broadcast channel, as each thread has to read it
    lagged,         \* threads that missed a message
    thread,         \* what each thread does
    foundWork,      \* the mpsc channel of the blocks found
    submitted,      \* work on the wire to the daemon
    outrun          \* an older job was sent after a newer one, or a stale one

chainSide == <<tips, pool>>
serverVars == <<jobs, lastJob, limited, miners, notices, templates, feeds, outbox>>
minerVars == <<pending, lagged, thread, foundWork>>
linkVars == <<session, sessions, submitted>>
miningVars == <<chainSide, serverVars, minerVars, linkVars, outrun>>

NoJob == [tip |-> -1, txs |-> -1]
NoWork == [header |-> NoJob]
Template == [tip |-> tips, txs |-> pool]
Waiting == [does |-> "wait", work |-> NoWork]
Closing == [kind |-> "closed", header |-> NoJob]

InitMining ==
    /\ tips = 0 /\ pool = 0
    /\ jobs = <<>> /\ lastJob = NoJob /\ limited = FALSE /\ miners = {}
    /\ notices = 0 /\ templates = {} /\ feeds = {} /\ outbox = {}
    /\ session = 0 /\ sessions = 0 /\ submitted = <<>>
    /\ pending = [t \in Thread |-> <<>>] /\ lagged = {}
    /\ thread = [t \in Thread |-> Waiting] /\ foundWork = <<>>
    /\ outrun = FALSE

-------------------------------------------------------------------------------
(* The daemon.                                                                   *)

(* LruCache::put: an old entry moves to the end, the oldest falls out.           *)
Without(header) ==
    IF header \in Range(jobs) THEN RemoveAt(jobs, CHOOSE i \in DOMAIN jobs : jobs[i] = header) ELSE jobs

Put(header) ==
    LET full == Append(Without(header), header)
    IN  IF Len(full) > StableLimit THEN Tail(full) ELSE full

(* add_new_block spawns notify_new_job.                                          *)
NotifyBlock == notices' = notices + 1

(* A block of somebody else joins the chain.                                     *)
NewBlock ==
    /\ tips < MaxTips /\ tips' = tips + 1
    /\ NotifyBlock
    /\ UNCHANGED <<pool, jobs, lastJob, limited, miners, templates, feeds, outbox,
                   minerVars, linkVars, outrun>>

(* A transaction joins the mempool: notify_new_job_rate_limited.                 *)
NewTx ==
    /\ pool < MaxPool /\ pool' = pool + 1
    /\ limited' = TRUE
    /\ notices' = IF limited THEN notices ELSE notices + 1
    /\ UNCHANGED <<tips, jobs, lastJob, miners, templates, feeds, outbox, minerVars, linkVars, outrun>>

TimePasses ==
    /\ limited /\ limited' = FALSE
    /\ UNCHANGED <<chainSide, jobs, lastJob, miners, notices, templates, feeds, outbox,
                   minerVars, linkVars, outrun>>

(* notify_new_job: nothing to do without miners, else a template is built.       *)
BuildJob ==
    /\ notices > 0 /\ notices' = notices - 1
    /\ templates' = IF miners = {} THEN templates ELSE templates \cup {Template}
    /\ UNCHANGED <<chainSide, jobs, lastJob, limited, miners, feeds, outbox, minerVars, linkVars, outrun>>

SaveJob(header) == lastJob' = header /\ jobs' = Put(header)

(* Sessions that are closed are dropped, each other one gets a task.             *)
SendJobs(header) ==
    /\ header \in templates /\ templates' = templates \ {header}
    /\ SaveJob(header)
    /\ miners' = miners \cap {session}
    /\ outbox' = IF session \in miners THEN outbox \cup {header} ELSE outbox
    /\ outrun' = (outrun \/ header.tip < lastJob.tip)
    /\ UNCHANGED <<chainSide, limited, notices, feeds, minerVars, linkVars>>

(* send_new_job: the last job while rate limited, else a new one.                *)
SendNewJob(s) ==
    LET cached == limited /\ lastJob # NoJob
        header == IF cached THEN lastJob ELSE Template
    IN  /\ s \in feeds /\ feeds' = feeds \ {s}
        /\ cached => lastJob \in Range(jobs)
        /\ IF cached THEN UNCHANGED <<lastJob, jobs>> ELSE SaveJob(header)
        /\ outbox' = IF s = session THEN outbox \cup {header} ELSE outbox
        /\ outrun' = (outrun \/ header.tip < tips)
        /\ UNCHANGED <<chainSide, limited, miners, notices, templates, minerVars, linkVars>>

(* Fault: a miner whose block is rejected gets no new job.                       *)
ResendNot(s) == UNCHANGED feeds

(* The reply of a rejected block is followed by a job.                           *)
Resend(s) == feeds' = IF s \in miners THEN feeds \cup {s} ELSE feeds

(* handle_block_for: a job that is not kept any more, or a block the chain does
   not take, is rejected.                                                        *)
HandleBlock(taken) ==
    /\ submitted # <<>> /\ session # 0
    /\ submitted' = Tail(submitted)
    /\ taken => Head(submitted) \in Range(jobs) /\ tips < MaxTips
    /\ IF taken
       THEN tips' = tips + 1 /\ NotifyBlock /\ UNCHANGED feeds
       ELSE Resend(session) /\ UNCHANGED <<tips, notices>>
    /\ UNCHANGED <<pool, jobs, lastJob, limited, miners, templates, outbox, minerVars,
                   session, sessions, outrun>>

(* finished: the session of a connection that broke.                             *)
DeleteMiner(s) ==
    /\ s \in miners /\ s # session
    /\ miners' = miners \ {s}
    /\ UNCHANGED <<chainSide, jobs, lastJob, limited, notices, templates, feeds, outbox,
                   minerVars, linkVars, outrun>>

-------------------------------------------------------------------------------
(* The miner: communication_task.                                                *)
Capacity == Cardinality(Thread)

(* The broadcast channel keeps the newest messages.                              *)
Broadcast(message) ==
    /\ pending' = [t \in Thread |->
                    IF Len(pending[t]) = Capacity THEN Append(Tail(pending[t]), message)
                    ELSE Append(pending[t], message)]
    /\ lagged' = lagged \cup {t \in Thread : Len(pending[t]) = Capacity}

(* The daemon adds the session and sends it a first job.                         *)
Connect ==
    /\ session = 0 /\ sessions < MaxSessions
    /\ session' = sessions + 1 /\ sessions' = sessions + 1
    /\ miners' = miners \cup {sessions + 1} /\ feeds' = feeds \cup {sessions + 1}
    /\ UNCHANGED <<chainSide, jobs, lastJob, limited, notices, templates, outbox, minerVars,
                   submitted, outrun>>

(* The threads learn of a connection that breaks; jobs on their way are lost.     *)
Disconnect ==
    /\ session # 0
    /\ session' = 0 /\ submitted' = <<>>
    /\ Broadcast(Closing)
    /\ outbox' = {}
    /\ UNCHANGED <<chainSide, jobs, lastJob, limited, miners, notices, templates, feeds, thread, foundWork, sessions, outrun>>

(* The actor of the session writes a job out and the miner hands it to its
   threads.                                                                      *)
Deliver(header) ==
    /\ header \in outbox /\ outbox' = outbox \ {header}
    /\ Broadcast([kind |-> "job", header |-> header])
    /\ outrun' = (outrun \/ \E other \in outbox : other.tip < header.tip)
    /\ UNCHANGED <<chainSide, jobs, lastJob, limited, miners, notices, templates, feeds,
                   thread, foundWork, linkVars>>

Submit ==
    /\ session # 0 /\ foundWork # <<>>
    /\ submitted' = Append(submitted, Head(foundWork))
    /\ foundWork' = Tail(foundWork)
    /\ UNCHANGED <<chainSide, serverVars, pending, lagged, thread, session, sessions, outrun>>

-------------------------------------------------------------------------------
(* A thread: start_thread and MinerWork.                                         *)
Bytes(work) == <<work.header, work.time, work.nonce, work.extra>>

NewWork(header) == [header |-> header, time |-> 0, nonce |-> 0, extra |-> "server", cache |-> <<>>]
set_thread_id_u16(work, t) == [work EXCEPT !.extra = t]

(* get_pow_hash fills the cache once; later changes are written into it.         *)
Hashed(work) == IF work.cache = <<>> THEN [work EXCEPT !.cache = Bytes(work)] ELSE work

(* Fault: the new nonce is not written into what is hashed.                      *)
increase_nonce_uncached(work) == [work EXCEPT !.nonce = @ + 1]

increase_nonce(work) == [work EXCEPT !.nonce = @ + 1, !.cache[3] = work.nonce + 1]
set_timestamp(work) == [work EXCEPT !.time = 1, !.cache[2] = 1]

Does(t, state) == thread' = [thread EXCEPT ![t] = state]

(* A lagging thread throws all messages but the newest away.                     *)
Drained(queue) == <<Last(queue)>>

TakeLagged(t) ==
    /\ thread[t].does = "wait" /\ t \in lagged
    /\ lagged' = lagged \ {t}
    /\ pending' = [pending EXCEPT ![t] = Drained(@)]
    /\ UNCHANGED <<chainSide, serverVars, linkVars, thread, foundWork, outrun>>

TakeMessage(t) ==
    /\ thread[t].does = "wait" /\ t \notin lagged /\ pending[t] # <<>>
    /\ pending' = [pending EXCEPT ![t] = Tail(@)]
    /\ LET m == Head(pending[t])
       IN  Does(t, IF m.kind = "closed" THEN [Waiting EXCEPT !.does = "closed"]
                   ELSE [does |-> "mine", work |-> Hashed(set_thread_id_u16(NewWork(m.header), t))])
    /\ UNCHANGED <<chainSide, serverVars, linkVars, lagged, foundWork, outrun>>

(* After a broken connection: any message ends the wait.                         *)
Woken(t) ==
    /\ thread[t].does = "closed" /\ pending[t] # <<>>
    /\ Does(t, Waiting)
    /\ UNCHANGED <<chainSide, serverVars, linkVars, pending, lagged, foundWork, outrun>>

(* The hash misses the target. Now and then the thread looks for a new job.      *)
TryNonce(t) ==
    LET next == increase_nonce(thread[t].work)
        looks == next.nonce % UpdateEvery = 0
    IN  /\ thread[t].does = "mine" /\ thread[t].work.nonce < MaxNonce
        /\ Does(t, IF looks /\ pending[t] # <<>> THEN Waiting
                   ELSE [does |-> "mine", work |-> IF looks THEN set_timestamp(next) ELSE next])
        /\ UNCHANGED <<chainSide, serverVars, linkVars, pending, lagged, foundWork, outrun>>

(* Nonces above the bound, none of which solves the job.                         *)
TryOthers(t) ==
    /\ thread[t].does = "mine" /\ thread[t].work.nonce = MaxNonce /\ pending[t] # <<>>
    /\ Does(t, Waiting)
    /\ UNCHANGED <<chainSide, serverVars, linkVars, pending, lagged, foundWork, outrun>>

(* The hash meets the target: blocking_send.                                     *)
Solve(t) ==
    /\ thread[t].does = "mine" /\ Len(foundWork) < Capacity
    /\ foundWork' = Append(foundWork, thread[t].work.header)
    /\ Does(t, Waiting)
    /\ UNCHANGED <<chainSide, serverVars, linkVars, pending, lagged, outrun>>

ThreadStep(t) == TakeLagged(t) \/ TakeMessage(t) \/ Woken(t) \/ TryNonce(t) \/ TryOthers(t)

NextMining ==
    \/ NewBlock \/ NewTx \/ TimePasses
    \/ BuildJob \/ HandleBlock(FALSE) \/ HandleBlock(TRUE)
    \/ \E header \in templates : SendJobs(header)
    \/ \E s \in feeds : SendNewJob(s)
    \/ \E header \in outbox : Deliver(header)
    \/ \E s \in miners : DeleteMiner(s)
    \/ Connect \/ Disconnect \/ Submit
    \/ \E t \in Thread : ThreadStep(t) \/ Solve(t)

MiningSpec == InitMining /\ [][NextMining]_miningVars

(* Tasks and threads run. Nothing makes a block arrive, a nonce fit or a
   connection last.                                                              *)
MiningFairness ==
    /\ WF_miningVars(BuildJob) /\ WF_miningVars(\E header \in templates : SendJobs(header))
    /\ WF_miningVars(\E s \in feeds : SendNewJob(s)) /\ WF_miningVars(\E header \in outbox : Deliver(header))
    /\ WF_miningVars(HandleBlock(FALSE) \/ HandleBlock(TRUE))
    /\ WF_miningVars(Submit)
    /\ \A t \in Thread : WF_miningVars(ThreadStep(t))

-------------------------------------------------------------------------------
(* What is hashed is what is submitted when it solves the job: thread id, nonce and
   timestamp reach the cached input of the hash as well as the fields that are
   serialized.                                                                   *)
HashedIsSubmitted ==
    \A t \in Thread : thread[t].does = "mine" => thread[t].work.cache = Bytes(thread[t].work)

(* The last job is kept, whatever falls out of the cache: send_new_job would fail
   with "No mining job found! How is it possible ?" and the miner stay idle.     *)
LastJobKept == lastJob # NoJob => lastJob \in Range(jobs)

(* While the connection lasts, an idle thread gets a job: after a block of its own
   was taken or rejected, after a connection broke, and after it lagged.         *)
IdleIsFed ==
    \A t \in Thread :
        thread[t].does \in {"wait", "closed"} /\ session # 0 ~> thread[t].does = "mine" \/ session = 0

(* In the end a connected thread that mines, mines on the tips of the chain, unless
   the job it got last was outrun by an older one or taken from the cache after
   the tips had changed.                                                         *)
Current ==
    <>[](outrun \/ \A t \in Thread :
            session # 0 /\ thread[t].does = "mine" => thread[t].work.header.tip = tips)

\* The bytes a thread hashes are those of the work it submits, and the job handed to new miners is one
\* that a submission can be matched with.
WorkSound == HashedIsSubmitted /\ LastJobKept
===============================================================================
