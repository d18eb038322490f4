----------------------------- MODULE ThreadPool -----------------------------
(***************************************************************************)
(* The job queue and the worker threads of server/thread_pool.c.           *)
(*                                                                         *)
(* Actors.  The main thread is the only caller of thpool_add_work,         *)
(* delete_timeout_job and thpool_destroy, and runs one call at a time; it  *)
(* is the pc "mpc" with the local pointer "cur" (newjob or curjob).  Each  *)
(* worker w runs thpool_thread_do; it is the pc wpc[w] with its local      *)
(* job_p[w].                                                               *)
(*                                                                         *)
(* Granularity.  A critical section of the queue mutex is one step, except *)
(* the loop of delete_timeout_job, which is one step per iteration with    *)
(* the mutex held.  What the code does outside the mutex -- the sem_wait,  *)
(* the test of thpool_keepalive, the read of tail at the top of            *)
(* delete_timeout_job, the job itself and its free -- is a step of its own.*)
(*                                                                         *)
(* Memory.  A job is a heap node: live is the set of nodes that malloc has *)
(* returned and free has not taken back.  A free of a pointer that is not  *)
(* live, and a link set or followed through one, sets corrupted; the C     *)
(* program has no defined behaviour from there on and the model stops.     *)
(* The job_create_time read from such a pointer may be anything.  The next *)
(* pointers are written and never read by the code, so they are left out;  *)
(* the dereferences made to write them are kept.                           *)
(***************************************************************************)
EXTENDS Integers, Sequences, FiniteSets

CONSTANTS
    Workers,  \* the threads of thpool_t, threadsN of them
    Nodes,    \* addresses malloc may return for a thpool_job_t
    Main,     \* the main thread, as an owner of the mutex
    NULL,
    MaxSwept  \* bound: no timeout scan starts after that many deletions

\* thpool_init starts at least one thread.
ASSUME WorkersAssumption == IsFiniteSet(Workers) /\ Workers # {}
ASSUME NamesAssumption == NULL \notin Nodes \cup Workers \cup {Main} /\ Main \notin Workers
ASSUME MaxSweptAssumption == MaxSwept \in Nat

VARIABLES
    head, tail,  \* thpool_jobqueue: newest and oldest queued job
    prev,        \* thpool_job_t.prev of each node: the next newer job
    jobN,        \* thpool_jobqueue.jobN
    queueSem,    \* value of the semaphore
    live,        \* allocated nodes
    expired,     \* nodes whose job_create_time lies more than time_out back
    mutex,       \* owner of the queue mutex, NULL when free
    keepalive,   \* thpool_keepalive
    wpc, job_p,  \* control and local pointer of each worker
    mpc, cur,    \* control and local pointer of the main thread
    corrupted,   \* a dead pointer was dereferenced or freed
    order,       \* history: the queued jobs, oldest first
    swept,       \* history: how many jobs delete_timeout_job has deleted
    raced        \* history: it deleted a job that was no longer the tail

qvars == <<head, tail, prev, jobN>>
aux   == <<order, swept, raced>>
vars  == <<head, tail, prev, jobN, queueSem, live, expired, mutex, keepalive,
           wpc, job_p, mpc, cur, corrupted, order, swept, raced>>

Ptr == Nodes \cup {NULL}
WorkerPC == {"sem_wait", "woken", "lock", "run", "exited", "abandoned"}
MainPC == {"idle", "enqueue", "sweep_lock", "sweep", "post", "join", "empty", "destroyed"}

\* State after thpool_init: an empty queue, a semaphore at 0, every thread in its loop.
Init ==
    /\ head = NULL /\ tail = NULL /\ jobN = 0
    /\ prev = [n \in Nodes |-> NULL]
    /\ queueSem = 0
    /\ live = {} /\ expired = {}
    /\ mutex = NULL
    /\ keepalive = TRUE
    /\ wpc = [w \in Workers |-> "sem_wait"]
    /\ job_p = [w \in Workers |-> NULL]
    /\ mpc = "idle" /\ cur = NULL
    /\ corrupted = FALSE
    /\ order = <<>> /\ swept = 0 /\ raced = FALSE

-----------------------------------------------------------------------------
(* Memory and the queue as an abstract sequence. *)

\* free(n): the node leaves the heap; a second free corrupts it.  The contents of a freed
\* node are indeterminate; its prev is cleared because nothing reads it without setting
\* corrupted in the same step.
Free(n) ==
    /\ live' = live \ {n}
    /\ expired' = expired \ {n}
    /\ prev' = [prev EXCEPT ![n] = NULL]
    /\ corrupted' = (n \notin live)

Oldest(s) == IF s = <<>> THEN NULL ELSE Head(s)
Rest(s)   == IF s = <<>> THEN <<>> ELSE Tail(s)

-----------------------------------------------------------------------------
(* A worker: thpool_thread_do. *)

\* sem_wait returns when the semaphore is positive.
SemWait(w) ==
    /\ wpc[w] = "sem_wait"
    /\ queueSem > 0
    /\ queueSem' = queueSem - 1
    /\ wpc' = [wpc EXCEPT ![w] = "woken"]
    /\ UNCHANGED <<qvars, live, expired, mutex, keepalive, job_p, mpc, cur, corrupted, aux>>

\* if (thpool_keepalive) after the wait.
CheckKeepalive(w) ==
    /\ wpc[w] = "woken"
    /\ wpc' = [wpc EXCEPT ![w] = IF keepalive THEN "lock" ELSE "exited"]
    /\ UNCHANGED <<qvars, queueSem, live, expired, mutex, keepalive, job_p, mpc, cur,
                   corrupted, aux>>

\* Faulty variant: the last job is not unlinked as one, the tail jumps to the newest.
removelast_to_head ==
    /\ tail' = IF jobN = 1 THEN NULL ELSE head
    /\ head' = IF jobN = 1 THEN NULL ELSE head
    /\ jobN' = jobN - 1
    /\ order' = Rest(order)
    /\ UNCHANGED prev

\* thpool_jobqueue_removelast on a queue that is not empty; the default case
\* dereferences the tail and the job before it.
thpool_jobqueue_removelast ==
    /\ tail' = IF jobN = 1 THEN NULL ELSE prev[tail]
    /\ head' = IF jobN = 1 THEN NULL ELSE head
    /\ jobN' = jobN - 1
    /\ order' = Rest(order)
    /\ UNCHANGED prev

\* The critical section of a worker that finds a job: peek, removelast, unlock.
TakeJob(w) ==
    /\ wpc[w] = "lock" /\ mutex = NULL
    /\ jobN > 0
    /\ wpc' = [wpc EXCEPT ![w] = "run"]
    /\ job_p' = [job_p EXCEPT ![w] = tail]
    /\ IF jobN = 1 \/ (tail \in live /\ prev[tail] \in live)
         THEN thpool_jobqueue_removelast /\ UNCHANGED corrupted
         ELSE corrupted' = TRUE /\ UNCHANGED <<qvars, order>>
    /\ UNCHANGED <<queueSem, live, expired, mutex, keepalive, mpc, cur, swept, raced>>

\* removelast fails on an empty queue: the thread returns and keeps the mutex.
ReturnOnEmpty(w) ==
    /\ wpc[w] = "lock" /\ mutex = NULL
    /\ jobN = 0
    /\ mutex' = w
    /\ wpc' = [wpc EXCEPT ![w] = "abandoned"]
    /\ UNCHANGED <<qvars, queueSem, live, expired, keepalive, job_p, mpc, cur, corrupted, aux>>

\* Faulty variant: the job is not freed after its function.
FinishWithoutFree(w) ==
    /\ wpc[w] = "run"
    /\ job_p' = [job_p EXCEPT ![w] = NULL]
    /\ wpc' = [wpc EXCEPT ![w] = IF keepalive THEN "sem_wait" ELSE "exited"]
    /\ UNCHANGED <<qvars, queueSem, live, expired, mutex, keepalive, mpc, cur, corrupted, aux>>

\* job_p->function has returned; free(job_p) and the test of the while loop.
FinishJob(w) ==
    /\ wpc[w] = "run"
    /\ Free(job_p[w])
    /\ job_p' = [job_p EXCEPT ![w] = NULL]
    /\ wpc' = [wpc EXCEPT ![w] = IF keepalive THEN "sem_wait" ELSE "exited"]
    /\ UNCHANGED <<head, tail, jobN, queueSem, mutex, keepalive, mpc, cur, aux>>

-----------------------------------------------------------------------------
(* The main thread: thpool_add_work. *)

\* malloc of the new job; its job_create_time is the present.  (Without memory the call
\* returns and changes nothing here.)
AddWork(n) ==
    /\ mpc = "idle" /\ keepalive
    /\ n \notin live
    /\ live' = live \cup {n}
    /\ cur' = n
    /\ mpc' = "enqueue"
    /\ UNCHANGED <<qvars, queueSem, expired, mutex, keepalive, wpc, job_p, corrupted, aux>>

\* Faulty variant: emptiness is told from the head pointer instead of from jobN.
LinkByHeadPointer ==
    /\ head' = cur
    /\ tail' = IF head = NULL THEN cur ELSE tail
    /\ prev' = IF head = NULL THEN [prev EXCEPT ![cur] = NULL]
                              ELSE [prev EXCEPT ![cur] = NULL, ![head] = cur]
    /\ corrupted' = (head # NULL /\ head \notin live)

\* Faulty variant: the new job is put at the tail, where the workers take from.
LinkAtTail ==
    /\ tail' = cur
    /\ head' = IF jobN = 0 THEN cur ELSE head
    /\ prev' = [prev EXCEPT ![cur] = IF jobN = 0 THEN NULL ELSE tail]
    /\ corrupted' = FALSE

\* The links thpool_job_enqueue sets: the new job becomes the head.
LinkAtHead ==
    /\ head' = cur
    /\ tail' = IF jobN = 0 THEN cur ELSE tail
    /\ prev' = IF jobN = 0 THEN [prev EXCEPT ![cur] = NULL]
                           ELSE [prev EXCEPT ![cur] = NULL, ![head] = cur]
    /\ corrupted' = (jobN # 0 /\ head \notin live)

\* Faulty variant of the post: only the first job of an empty queue is announced.
EnqueuePostsWhenEmpty ==
    /\ mpc = "enqueue" /\ mutex = NULL
    /\ LinkAtHead
    /\ jobN' = jobN + 1
    /\ queueSem' = IF jobN = 0 THEN queueSem + 1 ELSE queueSem
    /\ order' = Append(order, cur)
    /\ mpc' = "idle" /\ cur' = NULL
    /\ UNCHANGED <<live, expired, mutex, keepalive, wpc, job_p, swept, raced>>

\* Faulty variant: the job is linked without the mutex.
EnqueueUnlocked ==
    /\ mpc = "enqueue"
    /\ LinkAtHead
    /\ jobN' = jobN + 1
    /\ queueSem' = queueSem + 1
    /\ order' = Append(order, cur)
    /\ mpc' = "idle" /\ cur' = NULL
    /\ UNCHANGED <<live, expired, mutex, keepalive, wpc, job_p, swept, raced>>

\* thpool_job_enqueue under the mutex: link, count, one sem_post.
thpool_job_enqueue ==
    /\ mpc = "enqueue" /\ mutex = NULL
    /\ LinkAtHead
    /\ jobN' = jobN + 1
    /\ queueSem' = queueSem + 1
    /\ order' = Append(order, cur)
    /\ mpc' = "idle" /\ cur' = NULL
    /\ UNCHANGED <<live, expired, mutex, keepalive, wpc, job_p, swept, raced>>

-----------------------------------------------------------------------------
(* The main thread: delete_timeout_job. *)

\* curjob = tail, read before the mutex is taken.
SweepPeek ==
    /\ mpc = "idle" /\ keepalive
    /\ swept < MaxSwept
    /\ cur' = tail
    /\ mpc' = "sweep_lock"
    /\ UNCHANGED <<qvars, queueSem, live, expired, mutex, keepalive, wpc, job_p, corrupted, aux>>

SweepLock ==
    /\ mpc = "sweep_lock" /\ mutex = NULL
    /\ mutex' = Main
    /\ mpc' = "sweep"
    /\ UNCHANGED <<qvars, queueSem, live, expired, keepalive, wpc, job_p, cur, corrupted, aux>>

\* One deletion: the tail moves to curjob->prev, curjob is freed, jobN drops by one; the
\* semaphore keeps its value.  The job_create_time read from a freed node may be anything.
SweepOne ==
    /\ mpc = "sweep"
    /\ jobN > 0 /\ cur # NULL
    /\ cur \in expired \/ cur \notin live
    /\ tail' = prev[cur] /\ cur' = prev[cur]
    /\ jobN' = jobN - 1
    /\ Free(cur)
    /\ order' = Rest(order)
    /\ swept' = swept + 1
    /\ raced' = (raced \/ cur # tail)
    /\ UNCHANGED <<head, queueSem, mutex, keepalive, wpc, job_p, mpc>>

\* The loop ends at an empty queue, a NULL curjob or a job that is not timed out.
SweepEnd ==
    /\ mpc = "sweep"
    /\ jobN = 0 \/ cur = NULL \/ cur \notin expired
    /\ mutex' = NULL
    /\ mpc' = "idle" /\ cur' = NULL
    /\ UNCHANGED <<qvars, queueSem, live, expired, keepalive, wpc, job_p, corrupted, aux>>

-----------------------------------------------------------------------------
(* The main thread: thpool_destroy. *)

\* thpool_keepalive = 0.
DestroyStop ==
    /\ mpc = "idle" /\ keepalive
    /\ keepalive' = FALSE
    /\ mpc' = "post"
    /\ UNCHANGED <<qvars, queueSem, live, expired, mutex, wpc, job_p, cur, corrupted, aux>>

\* Faulty variant: a single post for all the workers.
PostOnce ==
    /\ mpc = "post"
    /\ queueSem' = queueSem + 1
    /\ mpc' = "join"
    /\ UNCHANGED <<qvars, live, expired, mutex, keepalive, wpc, job_p, cur, corrupted, aux>>

\* One post per thread and one more.
DestroyPost ==
    /\ mpc = "post"
    /\ queueSem' = queueSem + Cardinality(Workers) + 1
    /\ mpc' = "join"
    /\ UNCHANGED <<qvars, live, expired, mutex, keepalive, wpc, job_p, cur, corrupted, aux>>

\* Every pthread_join has returned; thpool_jobqueue_empty starts at the tail.
DestroyJoin ==
    /\ mpc = "join"
    /\ \A w \in Workers : wpc[w] \in {"exited", "abandoned"}
    /\ mpc' = "empty"
    /\ cur' = tail
    /\ UNCHANGED <<qvars, queueSem, live, expired, mutex, keepalive, wpc, job_p, corrupted, aux>>

\* One iteration of thpool_jobqueue_empty: the tail is freed (curjob may be NULL only in a
\* queue whose jobN is wrong; Free reports the dereference).
EmptyOne ==
    /\ mpc = "empty" /\ jobN > 0
    /\ Free(cur)
    /\ tail' = IF cur \in Nodes THEN prev[cur] ELSE NULL
    /\ cur' = IF cur \in Nodes THEN prev[cur] ELSE NULL
    /\ jobN' = jobN - 1
    /\ order' = Rest(order)
    /\ UNCHANGED <<head, queueSem, mutex, keepalive, wpc, job_p, mpc, swept, raced>>

EmptyEnd ==
    /\ mpc = "empty" /\ jobN = 0
    /\ head' = NULL /\ tail' = NULL
    /\ mpc' = "destroyed" /\ cur' = NULL
    /\ UNCHANGED <<prev, jobN, queueSem, live, expired, mutex, keepalive, wpc, job_p,
                   corrupted, aux>>

-----------------------------------------------------------------------------
(* The clock.  Jobs time out in the order of their job_create_time: a queued job after *)
(* the ones queued before it and after the ones the workers have taken.               *)

Running == {job_p[w] : w \in {v \in Workers : wpc[v] = "run"}}
Queued  == {order[i] : i \in 1..Len(order)}

Expire(n) ==
    /\ n \in live \ expired
    /\ \/ n \in Running
       \/ /\ Running \cap live \subseteq expired
          /\ \E i \in 1..Len(order) : /\ order[i] = n
                                      /\ \A j \in 1..(i - 1) : order[j] \in expired
    /\ expired' = expired \cup {n}
    /\ UNCHANGED <<qvars, queueSem, live, mutex, keepalive, wpc, job_p, mpc, cur, corrupted, aux>>

-----------------------------------------------------------------------------

Worker(w) == \/ SemWait(w) \/ CheckKeepalive(w)
             \/ TakeJob(w) \/ ReturnOnEmpty(w)
             \/ FinishJob(w)

Sweep   == SweepPeek \/ SweepLock \/ SweepOne \/ SweepEnd
Destroy == DestroyStop \/ DestroyPost \/ DestroyJoin \/ EmptyOne \/ EmptyEnd
MainThread == (\E n \in Nodes : AddWork(n)) \/ thpool_job_enqueue \/ Sweep \/ Destroy

Next == /\ ~corrupted
        /\ \/ \E w \in Workers : Worker(w)
           \/ MainThread
           \/ \E n \in Nodes : Expire(n)

Spec == Init /\ [][Next]_vars

\* Every thread keeps running, a job's function returns, and a thread that asks for the
\* queue mutex gets it if it is released again and again (SF: between two timeout scans,
\* a minute apart, the mutex is only held for a few pointer updates).  thpool_add_work,
\* a timeout scan and thpool_destroy are called when the outside world says so: unfair.
Fairness ==
    /\ WF_vars(\E w \in Workers : SemWait(w))
    /\ \A w \in Workers : /\ WF_vars(CheckKeepalive(w))
                          /\ SF_vars(TakeJob(w) \/ ReturnOnEmpty(w))
                          /\ WF_vars(FinishJob(w))
    /\ SF_vars(thpool_job_enqueue) /\ SF_vars(SweepLock)
    /\ WF_vars(SweepOne \/ SweepEnd)
    /\ WF_vars(DestroyPost \/ DestroyJoin \/ EmptyOne \/ EmptyEnd)

FairSpec == Spec /\ Fairness

-----------------------------------------------------------------------------
(* Properties. *)

TypeOK ==
    /\ head \in Ptr /\ tail \in Ptr
    /\ prev \in [Nodes -> Ptr]
    /\ jobN \in Nat /\ queueSem \in Nat
    /\ live \in SUBSET Nodes /\ expired \in SUBSET Nodes
    /\ mutex \in Workers \cup {Main, NULL}
    /\ keepalive \in BOOLEAN
    /\ wpc \in [Workers -> WorkerPC] /\ job_p \in [Workers -> Ptr]
    /\ mpc \in MainPC /\ cur \in Ptr
    /\ corrupted \in BOOLEAN
    /\ order \in Seq(Ptr) /\ swept \in Nat /\ raced \in BOOLEAN

AtWoken == {w \in Workers : wpc[w] = "woken"}
AtLock  == {w \in Workers : wpc[w] = "lock"}

\* No lost wakeup (thpool_job_enqueue, sem_wait, removelast): while the pool runs, every
\* queued job is covered by a semaphore token or by a worker on its way to the queue, so
\* the pool cannot go to sleep over work, whatever the timeout scan deletes.
NoLostWakeup ==
    keepalive /\ ~corrupted => jobN <= queueSem + Cardinality(AtWoken \cup AtLock)

\* The early return of thpool_thread_do (line 139), which keeps the queue mutex for ever,
\* is only reached after delete_timeout_job has deleted a job: neither the workers racing
\* for the queue nor the extra posts of thpool_destroy wake a worker for nothing.
AbandonedOnlyAfterSweep ==
    (\E w \in Workers : wpc[w] = "abandoned") => swept > 0

\* The workers that have consumed a token of the semaphore and no job with it.
Pending == {w \in Workers : wpc[w] \in {"woken", "lock", "abandoned"}}

\* Tokens and jobs are conserved: a token pays for one queued job or for one that the
\* timeout scan has deleted, and once the pool is stopped the workers already past the
\* keepalive test still find a job each.
TokensConserved ==
    /\ ~corrupted /\ keepalive => jobN + swept = queueSem + Cardinality(Pending)
    /\ ~corrupted /\ swept = 0 => Cardinality(AtLock) <= jobN

\* Who may hold what in which phase of the main thread.
PhaseOK ==
    /\ mpc \in {"post", "join", "empty", "destroyed"} => ~keepalive
    /\ mpc \in {"empty", "destroyed"} =>
         \A w \in Workers : wpc[w] \in {"exited", "abandoned"}
    /\ mpc = "sweep" => mutex = Main
    /\ \A w \in Workers : wpc[w] = "abandoned" => mutex = w

\* The inductive invariant behind the two wakeup properties: sem_post, sem_wait,
\* removelast and delete_timeout_job keep tokens, jobs and waiting workers in step.
TokenInv == TokensConserved /\ PhaseOK /\ AbandonedOnlyAfterSweep

\* A worker that has found the queue empty stops the pool for good (line 139): as long as the
\* pool is kept alive, no job is added, taken or deleted any more, whoever asks for it.
AbandonedStopsTheQueue ==
    [][(\E w \in Workers : wpc[w] = "abandoned") /\ keepalive' =>
         /\ UNCHANGED <<head, tail, jobN, order>>
         /\ \A w \in Workers : wpc'[w] = "run" => wpc[w] = "run"]_vars

\* The doubly linked list is the queue, oldest job at tail and newest at head, as long as
\* no timeout scan has raced a worker: jobN counts the linked jobs, the prev links run
\* from tail to head, and tail is NULL when the queue is empty (head need not be:
\* delete_timeout_job leaves it dangling).
QueueWellFormed ==
    ~raced => /\ jobN = Len(order)
              /\ tail = Oldest(order)
              /\ order # <<>> => head = order[Len(order)] /\ prev[head] = NULL
              /\ \A i \in 1..(Len(order) - 1) : prev[order[i]] = order[i + 1]

\* No job is freed twice and no dead job is dereferenced -- not even through the head and
\* next pointers that delete_timeout_job leaves behind -- unless a scan raced a worker.
HeapIntactUnlessRaced == corrupted => raced

\* Nothing leaks and nothing is owned twice: the allocated jobs are the queued ones, the
\* ones the workers run and the one being added, all different.
EveryJobOwnedOnce ==
    ~raced =>
      LET adding == IF mpc = "enqueue" THEN {cur} ELSE {}
          busy   == {w \in Workers : wpc[w] = "run"}
      IN  /\ live = Queued \cup Running \cup adding
          /\ Cardinality(live) = Len(order) + Cardinality(busy) + Cardinality(adding)

\* thread_pool.c:124 says of sem_wait "thread block, until have data come": a worker that
\* gets past it while the pool is kept alive finds a job.
WakesToData == \A w \in Workers : wpc[w] # "abandoned"

\* thread_pool.c:20 says of the mutex "used to serialize queue access": the job that
\* delete_timeout_job works on is the tail of the queue it has locked.
QueueAccessSerialized == ~raced

\* Every queued job is taken by a worker, unless the queue is swept or the pool destroyed.
QueuedJobIsTaken ==
    \A n \in Nodes : (n \in Queued) ~> (n \notin Queued \/ swept > 0 \/ ~keepalive)

\* thpool_destroy returns: every worker leaves its loop and is joined, and the queue is
\* emptied, unless an earlier sweep made a worker keep the mutex.
DestroyReturns ==
    (~keepalive) ~> (mpc = "destroyed" \/ swept > 0)

\* The queue keeps the promise of JobQueue: jobs are taken once each and oldest first.
JQ == INSTANCE JobQueue WITH Jobs <- Nodes, queue <- order, taken <- job_p,
                             open <- keepalive, intact <- ~(raced \/ corrupted)
ImplementsJobQueue == JQ!Spec
=============================================================================
