-------------------------- MODULE ThreadPoolProofs --------------------------
(***************************************************************************)
(* Proofs about ThreadPool, for any finite set of workers, any set of heap *)
(* nodes and any number of deletions by the timeout scan.                  *)
(***************************************************************************)
EXTENDS ThreadPool, FiniteSetTheorems, TLAPS

\* Taking the oldest job off a sequence of jobs leaves a sequence of jobs, also when there
\* is none (removelast, delete_timeout_job and thpool_jobqueue_empty).
LEMMA RestType ==
  ASSUME NEW S, NEW s \in Seq(S)
  PROVE  Rest(s) \in Seq(S)
<1>1. CASE s = <<>>
  BY <1>1 DEF Rest
<1>2. CASE s # <<>>
  BY <1>2 DEF Rest
<1>3. QED
  BY <1>1, <1>2

(***************************************************************************)
(* Type correctness.                                                       *)
(***************************************************************************)

\* Every variable of the pool keeps its type (thread_pool.h:27-53).
THEOREM TypeCorrect == Spec => []TypeOK
<1> USE NamesAssumption, WorkersAssumption DEF TypeOK, Ptr, WorkerPC, MainPC
<1>1. Init => TypeOK
  <2> SUFFICES ASSUME Init
               PROVE  TypeOK
    OBVIOUS
  <2>1. order \in Seq(Ptr)
    BY DEF Init
  <2>2. prev \in [Nodes -> Ptr]
    BY DEF Init
  <2>3. wpc \in [Workers -> WorkerPC] /\ job_p \in [Workers -> Ptr]
    BY DEF Init
  <2>4. /\ head \in Ptr /\ tail \in Ptr /\ cur \in Ptr
        /\ jobN \in Nat /\ queueSem \in Nat /\ swept \in Nat
        /\ live \in SUBSET Nodes /\ expired \in SUBSET Nodes
        /\ mutex \in Workers \cup {Main, NULL} /\ mpc \in MainPC
    BY DEF Init
  <2>5. keepalive \in BOOLEAN /\ corrupted \in BOOLEAN /\ raced \in BOOLEAN
    BY DEF Init
  <2>6. QED
    BY <2>1, <2>2, <2>3, <2>4, <2>5
<1>2. TypeOK /\ [Next]_vars => TypeOK'
  <2> SUFFICES ASSUME TypeOK, [Next]_vars
               PROVE  TypeOK'
    OBVIOUS
  <2>0. Rest(order) \in Seq(Ptr)
    BY RestType
  <2>1. ASSUME NEW w \in Workers, SemWait(w)
        PROVE  TypeOK'
    BY <2>1 DEF SemWait, qvars, aux
  <2>2. ASSUME NEW w \in Workers, CheckKeepalive(w)
        PROVE  TypeOK'
    BY <2>2 DEF CheckKeepalive, qvars, aux
  <2>3. ASSUME NEW w \in Workers, TakeJob(w)
        PROVE  TypeOK'
    <3>1. CASE jobN = 1 \/ (tail \in live /\ prev[tail] \in live)
      BY <2>0, <2>3, <3>1 DEF TakeJob, thpool_jobqueue_removelast
    <3>2. CASE ~(jobN = 1 \/ (tail \in live /\ prev[tail] \in live))
      BY <2>3, <3>2 DEF TakeJob, qvars
    <3>3. QED
      BY <3>1, <3>2
  <2>4. ASSUME NEW w \in Workers, ReturnOnEmpty(w)
        PROVE  TypeOK'
    BY <2>4 DEF ReturnOnEmpty, qvars, aux
  <2>5. ASSUME NEW w \in Workers, FinishJob(w)
        PROVE  TypeOK'
    BY <2>5 DEF FinishJob, Free, aux
  <2>6. ASSUME NEW n \in Nodes, AddWork(n)
        PROVE  TypeOK'
    BY <2>6 DEF AddWork, qvars, aux
  <2>7. CASE thpool_job_enqueue
    <3>1. Append(order, cur) \in Seq(Ptr)
      OBVIOUS
    <3>2. prev' \in [Nodes -> Ptr] /\ corrupted' \in BOOLEAN
      BY <2>7 DEF thpool_job_enqueue, LinkAtHead
    <3>3. head' \in Ptr /\ tail' \in Ptr
      BY <2>7 DEF thpool_job_enqueue, LinkAtHead
    <3>4. QED
      BY <2>7, <3>1, <3>2, <3>3 DEF thpool_job_enqueue
  <2>8. CASE Sweep
    <3>1. CASE SweepPeek
      BY <3>1 DEF SweepPeek, qvars, aux
    <3>2. CASE SweepLock
      BY <3>2 DEF SweepLock, qvars, aux
    <3>3. CASE SweepOne
      BY <2>0, <3>3 DEF SweepOne, Free
    <3>4. CASE SweepEnd
      BY <3>4 DEF SweepEnd, qvars, aux
    <3>5. QED
      BY <2>8, <3>1, <3>2, <3>3, <3>4 DEF Sweep
  <2>9. CASE Destroy
    <3>1. CASE DestroyStop
      BY <3>1 DEF DestroyStop, qvars, aux
    <3>2. CASE DestroyPost
      <4>1. Cardinality(Workers) \in Nat
        BY FS_CardinalityType
      <4>2. QED
        BY <3>2, <4>1 DEF DestroyPost, qvars, aux
    <3>3. CASE DestroyJoin
      BY <3>3 DEF DestroyJoin, qvars, aux
    <3>4. CASE EmptyOne
      <4>1. tail' \in Ptr /\ cur' \in Ptr
        BY <3>4 DEF EmptyOne
      <4>2. prev' \in [Nodes -> Ptr]
        BY <3>4 DEF EmptyOne, Free
      <4>3. QED
        BY <2>0, <3>4, <4>1, <4>2 DEF EmptyOne, Free
    <3>5. CASE EmptyEnd
      BY <3>5 DEF EmptyEnd, aux
    <3>6. QED
      BY <2>9, <3>1, <3>2, <3>3, <3>4, <3>5 DEF Destroy
  <2>10. ASSUME NEW n \in Nodes, Expire(n)
         PROVE  TypeOK'
    BY <2>10 DEF Expire, qvars, aux
  <2>11. CASE UNCHANGED vars
    BY <2>11 DEF vars
  <2>12. QED
    BY <2>1, <2>2, <2>3, <2>4, <2>5, <2>6, <2>7, <2>8, <2>9, <2>10, <2>11
       DEF Next, Worker, MainThread
<1>3. QED
  BY <1>1, <1>2, PTL DEF Spec

(***************************************************************************)
(* Tokens, jobs and waiting workers.                                       *)
(***************************************************************************)

\* The sets of workers that TokenInv counts are finite, and the ones about to lock the
\* queue are among the ones that consumed a token (thpool_thread_do).
LEMMA PendingFinite ==
  /\ IsFiniteSet(Pending) /\ Cardinality(Pending) \in Nat
  /\ IsFiniteSet(AtLock) /\ Cardinality(AtLock) \in Nat
  /\ Cardinality(AtLock) <= Cardinality(Pending)
<1>1. Pending \in SUBSET Workers /\ AtLock \in SUBSET Pending
  BY DEF Pending, AtLock
<1>2. IsFiniteSet(Pending)
  BY <1>1, WorkersAssumption, FS_Subset
<1>3. IsFiniteSet(AtLock) /\ Cardinality(AtLock) <= Cardinality(Pending)
  BY <1>1, <1>2, FS_Subset
<1>4. QED
  BY <1>2, <1>3, FS_CardinalityType

\* A worker's step keeps TokenInv (thpool_thread_do).
LEMMA WorkerKeepsTokens ==
  ASSUME TypeOK, TokenInv, ~corrupted, NEW w \in Workers, Worker(w)
  PROVE  TokenInv'
<1> USE DEF TypeOK, WorkerPC, MainPC
<1>0. /\ IsFiniteSet(Pending) /\ Cardinality(Pending) \in Nat
      /\ IsFiniteSet(AtLock) /\ Cardinality(AtLock) \in Nat
      /\ Cardinality(AtLock) <= Cardinality(Pending)
  BY PendingFinite
<1>1. CASE SemWait(w)
  <2>1. Pending' = Pending \cup {w} /\ w \notin Pending /\ AtLock' = AtLock
    BY <1>1 DEF SemWait, Pending, AtLock
  <2>2. Cardinality(Pending') = Cardinality(Pending) + 1
    BY <1>0, <2>1, FS_AddElement
  <2>3. TokensConserved'
    BY <1>0, <1>1, <2>1, <2>2 DEF SemWait, TokenInv, TokensConserved, aux, qvars
  <2>4. PhaseOK' /\ AbandonedOnlyAfterSweep'
    BY <1>1 DEF SemWait, TokenInv, PhaseOK, AbandonedOnlyAfterSweep, aux
  <2>5. QED
    BY <2>3, <2>4 DEF TokenInv
<1>2. CASE CheckKeepalive(w)
  <2>1. PhaseOK' /\ AbandonedOnlyAfterSweep'
    BY <1>2 DEF CheckKeepalive, TokenInv, PhaseOK, AbandonedOnlyAfterSweep, aux
  <2>2. CASE keepalive
    <3>1. Pending' = Pending
      BY <1>2, <2>2 DEF CheckKeepalive, Pending
    <3>2. jobN' + swept' = queueSem' + Cardinality(Pending')
      BY <1>2, <2>2, <3>1 DEF CheckKeepalive, TokenInv, TokensConserved, aux, qvars
    <3>3. Cardinality(AtLock') <= Cardinality(Pending') /\ Cardinality(AtLock') \in Nat
      <4>1. AtLock' = AtLock \cup {w} /\ AtLock' \in SUBSET Pending
        BY <1>2, <2>2 DEF CheckKeepalive, AtLock, Pending
      <4>2. QED
        BY <1>0, <3>1, <4>1, FS_Subset, FS_CardinalityType
    <3>4. TokensConserved'
      BY <1>0, <1>2, <3>1, <3>2, <3>3 DEF CheckKeepalive, TokensConserved, aux, qvars
    <3>5. QED
      BY <2>1, <3>4 DEF TokenInv
  <2>3. CASE ~keepalive
    <3>1. AtLock' = AtLock
      BY <1>2, <2>3 DEF CheckKeepalive, AtLock
    <3>2. TokensConserved'
      BY <1>2, <2>3, <3>1 DEF CheckKeepalive, TokenInv, TokensConserved, aux, qvars
    <3>3. QED
      BY <2>1, <3>2 DEF TokenInv
  <2>4. QED
    BY <2>2, <2>3
<1>3. CASE TakeJob(w)
  <2>1. PhaseOK' /\ AbandonedOnlyAfterSweep'
    BY <1>3 DEF TakeJob, TokenInv, PhaseOK, AbandonedOnlyAfterSweep
  <2>2. TokensConserved'
    <3>1. CASE jobN = 1 \/ (tail \in live /\ prev[tail] \in live)
      <4>1. /\ Pending' = Pending \ {w} /\ w \in Pending
            /\ AtLock' = AtLock \ {w} /\ w \in AtLock
        BY <1>3 DEF TakeJob, Pending, AtLock
      <4>2. /\ Cardinality(Pending') = Cardinality(Pending) - 1
            /\ Cardinality(AtLock') = Cardinality(AtLock) - 1
        BY <1>0, <4>1, FS_RemoveElement
      <4>3. jobN' = jobN - 1 /\ UNCHANGED <<queueSem, swept, keepalive, corrupted>>
        BY <1>3, <3>1 DEF TakeJob, thpool_jobqueue_removelast
      <4>4. QED
        BY <1>0, <4>2, <4>3 DEF TokenInv, TokensConserved
    <3>2. CASE ~(jobN = 1 \/ (tail \in live /\ prev[tail] \in live))
      BY <1>3, <3>2 DEF TakeJob, TokensConserved
    <3>3. QED
      BY <3>1, <3>2
  <2>3. QED
    BY <2>1, <2>2 DEF TokenInv
<1>4. CASE ReturnOnEmpty(w)
  <2>1. Cardinality(AtLock) >= 1
    <3>1. w \in AtLock
      BY <1>4 DEF ReturnOnEmpty, AtLock
    <3>2. AtLock # {} /\ Cardinality(AtLock) # 0
      BY <1>0, <3>1, FS_EmptySet
    <3>3. QED
      BY <1>0, <3>2
  <2>2. swept' > 0
    BY <1>0, <1>4, <2>1 DEF ReturnOnEmpty, TokenInv, TokensConserved, aux
  <2>3. Pending' = Pending
    BY <1>4 DEF ReturnOnEmpty, Pending
  <2>4. TokensConserved'
    BY <1>4, <2>2, <2>3 DEF ReturnOnEmpty, TokenInv, TokensConserved, aux, qvars
  <2>5. PhaseOK'
    <3>1. mpc # "sweep"
      BY <1>4, NamesAssumption DEF ReturnOnEmpty, TokenInv, PhaseOK
    <3>2. \A v \in Workers : wpc[v] # "abandoned"
      BY <1>4, NamesAssumption DEF ReturnOnEmpty, TokenInv, PhaseOK
    <3>3. mpc \notin {"empty", "destroyed"}
      BY <1>4 DEF ReturnOnEmpty, TokenInv, PhaseOK
    <3>4. QED
      BY <1>4, <3>1, <3>2, <3>3 DEF ReturnOnEmpty, TokenInv, PhaseOK
  <2>6. QED
    BY <2>2, <2>4, <2>5 DEF TokenInv, AbandonedOnlyAfterSweep
<1>5. CASE FinishJob(w)
  <2>1. Pending' = Pending /\ AtLock' = AtLock
    BY <1>5 DEF FinishJob, Pending, AtLock
  <2>2. TokensConserved'
    BY <1>5, <2>1 DEF FinishJob, TokenInv, TokensConserved, aux
  <2>3. PhaseOK' /\ AbandonedOnlyAfterSweep'
    BY <1>5 DEF FinishJob, TokenInv, PhaseOK, AbandonedOnlyAfterSweep, aux
  <2>4. QED
    BY <2>2, <2>3 DEF TokenInv
<1>6. QED
  BY <1>1, <1>2, <1>3, <1>4, <1>5 DEF Worker

\* A step of the main thread or of the clock keeps TokenInv (thpool_add_work,
\* delete_timeout_job, thpool_destroy).
LEMMA MainKeepsTokens ==
  ASSUME TypeOK, TokenInv, ~corrupted, MainThread \/ \E n \in Nodes : Expire(n)
  PROVE  TokenInv'
<1> USE DEF TypeOK, WorkerPC, MainPC
<1>0. /\ Cardinality(Pending) \in Nat /\ Cardinality(AtLock) \in Nat
      /\ Cardinality(AtLock) <= Cardinality(Pending)
  BY PendingFinite
<1>1. wpc' = wpc
  BY DEF MainThread, AddWork, thpool_job_enqueue, Sweep, SweepPeek, SweepLock, SweepOne,
         SweepEnd, Destroy, DestroyStop, DestroyPost, DestroyJoin, EmptyOne, EmptyEnd, Expire
<1>2. Pending' = Pending /\ AtLock' = AtLock
  BY <1>1 DEF Pending, AtLock
<1>3. swept' \in Nat /\ swept' >= swept
  BY DEF MainThread, AddWork, thpool_job_enqueue, Sweep, SweepPeek, SweepLock, SweepOne,
         SweepEnd, Destroy, DestroyStop, DestroyPost, DestroyJoin, EmptyOne, EmptyEnd, Expire,
         aux
<1>4. AbandonedOnlyAfterSweep'
  BY <1>1, <1>3 DEF TokenInv, AbandonedOnlyAfterSweep
<1>5. SUFFICES TokensConserved' /\ PhaseOK'
  BY <1>4 DEF TokenInv
<1>6. ASSUME NEW n \in Nodes, AddWork(n)
      PROVE  TokensConserved' /\ PhaseOK'
  BY <1>2, <1>6 DEF AddWork, TokenInv, TokensConserved, PhaseOK, aux, qvars
<1>7. CASE thpool_job_enqueue
  <2>1. TokensConserved'
    <3>1. jobN' = jobN + 1 /\ queueSem' = queueSem + 1 /\ UNCHANGED <<keepalive, swept>>
      BY <1>7 DEF thpool_job_enqueue
    <3>2. QED
      BY <1>0, <1>2, <3>1 DEF TokenInv, TokensConserved
  <2>2. PhaseOK'
    BY <1>1, <1>7 DEF thpool_job_enqueue, TokenInv, PhaseOK
  <2>3. QED
    BY <2>1, <2>2
<1>8. CASE SweepPeek
  BY <1>2, <1>8 DEF SweepPeek, TokenInv, TokensConserved, PhaseOK, aux, qvars
<1>9. CASE SweepLock
  <2>1. \A w \in Workers : wpc[w] # "abandoned"
    BY <1>9, NamesAssumption DEF SweepLock, TokenInv, PhaseOK
  <2>2. QED
    BY <1>2, <1>9, <2>1 DEF SweepLock, TokenInv, TokensConserved, PhaseOK, aux, qvars
<1>10. CASE SweepOne
  <2>1. TokensConserved'
    BY <1>0, <1>2, <1>10 DEF SweepOne, TokenInv, TokensConserved
  <2>2. PhaseOK'
    BY <1>1, <1>10 DEF SweepOne, TokenInv, PhaseOK
  <2>3. QED
    BY <2>1, <2>2
<1>11. CASE SweepEnd
  <2>1. \A w \in Workers : wpc[w] # "abandoned"
    BY <1>11, NamesAssumption DEF SweepEnd, TokenInv, PhaseOK
  <2>2. QED
    BY <1>2, <1>11, <2>1 DEF SweepEnd, TokenInv, TokensConserved, PhaseOK, aux, qvars
<1>12. CASE DestroyStop
  BY <1>2, <1>12 DEF DestroyStop, TokenInv, TokensConserved, PhaseOK, aux, qvars
<1>13. CASE DestroyPost
  BY <1>2, <1>13 DEF DestroyPost, TokenInv, TokensConserved, PhaseOK, aux, qvars
<1>14. CASE DestroyJoin
  BY <1>2, <1>14 DEF DestroyJoin, TokenInv, TokensConserved, PhaseOK, aux, qvars
<1>15. CASE EmptyOne
  <2>1. AtLock = {} /\ ~keepalive
    BY <1>15 DEF EmptyOne, TokenInv, PhaseOK, AtLock
  <2>2. Cardinality(AtLock) = 0
    BY <2>1, FS_EmptySet
  <2>3. TokensConserved'
    BY <1>2, <1>15, <2>1, <2>2 DEF EmptyOne, TokensConserved
  <2>4. PhaseOK'
    BY <1>1, <1>15 DEF EmptyOne, TokenInv, PhaseOK
  <2>5. QED
    BY <2>3, <2>4
<1>16. CASE EmptyEnd
  BY <1>2, <1>16 DEF EmptyEnd, TokenInv, TokensConserved, PhaseOK, aux
<1>17. ASSUME NEW n \in Nodes, Expire(n)
       PROVE  TokensConserved' /\ PhaseOK'
  BY <1>2, <1>17 DEF Expire, TokenInv, TokensConserved, PhaseOK, aux, qvars
<1>18. QED
  BY <1>6, <1>7, <1>8, <1>9, <1>10, <1>11, <1>12, <1>13, <1>14, <1>15, <1>16, <1>17
     DEF MainThread, Sweep, Destroy

\* Tokens of the semaphore, queued jobs and workers on their way to the queue stay in
\* step whatever the interleaving of thpool_add_work, the workers and the timeout scan.
THEOREM TokensInvariant == Spec => []TokenInv
<1>1. Init => TokenInv
  <2> SUFFICES ASSUME Init
               PROVE  TokenInv
    OBVIOUS
  <2>1. Pending = {} /\ AtLock = {}
    BY DEF Init, Pending, AtLock
  <2>2. Cardinality(Pending) = 0 /\ Cardinality(AtLock) = 0
    BY <2>1, FS_EmptySet
  <2>3. QED
    BY <2>2 DEF Init, TokenInv, TokensConserved, PhaseOK, AbandonedOnlyAfterSweep
<1>2. TypeOK /\ TokenInv /\ [Next]_vars => TokenInv'
  <2> SUFFICES ASSUME TypeOK, TokenInv, [Next]_vars
               PROVE  TokenInv'
    OBVIOUS
  <2>1. CASE Next
    BY <2>1, WorkerKeepsTokens, MainKeepsTokens DEF Next
  <2>2. CASE UNCHANGED vars
    <3>1. Pending' = Pending /\ AtLock' = AtLock
      BY <2>2 DEF vars, Pending, AtLock
    <3>2. QED
      BY <2>2, <3>1 DEF vars, TokenInv, TokensConserved, PhaseOK, AbandonedOnlyAfterSweep
  <2>3. QED
    BY <2>1, <2>2
<1>3. QED
  BY <1>1, <1>2, TypeCorrect, PTL DEF Spec

\* The early return that keeps the queue mutex (thread_pool.c:139) is never reached before
\* the timeout scan has deleted a job.
THEOREM AbandonedAfterSweep == Spec => []AbandonedOnlyAfterSweep
<1>1. TokenInv => AbandonedOnlyAfterSweep
  BY DEF TokenInv
<1>2. QED
  BY <1>1, TokensInvariant, PTL

\* The pool never sleeps over a queued job: with the mutex lost to an early return there
\* is exactly one worker without a job, and the deletion that caused it pays for it.
THEOREM WakeupsNotLost == Spec => []NoLostWakeup
<1>1. TypeOK /\ TokenInv => NoLostWakeup
  <2> SUFFICES ASSUME TypeOK, TokenInv, keepalive, ~corrupted
               PROVE  jobN <= queueSem + Cardinality(AtWoken \cup AtLock)
    BY DEF NoLostWakeup
  <2> DEFINE Awake == AtWoken \cup AtLock
  <2>1. jobN \in Nat /\ queueSem \in Nat /\ swept \in Nat
    BY DEF TypeOK
  <2>2. jobN + swept = queueSem + Cardinality(Pending)
    BY DEF TokenInv, TokensConserved
  <2>3. IsFiniteSet(Awake) /\ Cardinality(Awake) \in Nat
    <3>1. Awake \in SUBSET Workers
      BY DEF AtWoken, AtLock
    <3>2. QED
      BY <3>1, WorkersAssumption, FS_Subset, FS_CardinalityType
  <2>4. CASE \E w \in Workers : wpc[w] = "abandoned"
    <3>1. PICK w \in Workers : wpc[w] = "abandoned"
      BY <2>4
    <3>2. swept >= 1
      BY <2>1, <3>1 DEF TokenInv, AbandonedOnlyAfterSweep
    <3>3. Pending = Awake \cup {w} /\ w \notin Awake
      BY <3>1 DEF Pending, AtWoken, AtLock, TokenInv, PhaseOK
    <3>4. Cardinality(Pending) = Cardinality(Awake) + 1
      BY <2>3, <3>3, FS_AddElement
    <3>5. QED
      BY <2>1, <2>2, <2>3, <3>2, <3>4
  <2>5. CASE \A w \in Workers : wpc[w] # "abandoned"
    <3>1. Pending = Awake
      BY <2>5 DEF Pending, AtWoken, AtLock
    <3>2. QED
      BY <2>1, <2>2, <2>3, <3>1
  <2>6. QED
    BY <2>4, <2>5
<1>2. QED
  BY <1>1, TypeCorrect, TokensInvariant, PTL

\* After the early return of a worker (thread_pool.c:139) the queue is dead: whoever wants it
\* waits for the mutex, and only thpool_destroy, once the pool is stopped, goes to it without.
THEOREM QueueStopsForGood == Spec => AbandonedStopsTheQueue
<1> DEFINE Frozen == /\ UNCHANGED <<head, tail, jobN, order>>
                     /\ \A w \in Workers : wpc'[w] = "run" => wpc[w] = "run"
<1>1. ASSUME TypeOK, PhaseOK, [Next]_vars, NEW v \in Workers, wpc[v] = "abandoned", keepalive'
      PROVE  Frozen
  <2> USE DEF TypeOK
  <2>1. mutex \notin {NULL, Main}
    BY <1>1, NamesAssumption DEF PhaseOK
  <2>2. ASSUME NEW w \in Workers, SemWait(w) \/ CheckKeepalive(w) PROVE Frozen
    BY <1>1, <2>2 DEF SemWait, CheckKeepalive, qvars, aux
  <2>3. ASSUME NEW w \in Workers, TakeJob(w) \/ ReturnOnEmpty(w) PROVE FALSE
    BY <2>1, <2>3 DEF TakeJob, ReturnOnEmpty
  <2>4. ASSUME NEW w \in Workers, FinishJob(w) PROVE Frozen
    BY <1>1, <2>4 DEF FinishJob, aux
  <2>5. ASSUME NEW n \in Nodes, AddWork(n) PROVE Frozen
    BY <1>1, <2>5 DEF AddWork, qvars, aux
  <2>6. ASSUME thpool_job_enqueue PROVE FALSE
    BY <2>1, <2>6 DEF thpool_job_enqueue
  <2>7. ASSUME SweepPeek PROVE Frozen
    BY <2>7 DEF SweepPeek, qvars, aux
  <2>8. ASSUME SweepLock \/ SweepOne PROVE FALSE
    BY <1>1, <2>1, <2>8 DEF SweepLock, SweepOne, PhaseOK
  <2>9. ASSUME SweepEnd PROVE Frozen
    BY <2>9 DEF SweepEnd, qvars, aux
  <2>10. ASSUME DestroyStop \/ EmptyOne \/ EmptyEnd PROVE FALSE
    BY <1>1, <2>10 DEF DestroyStop, EmptyOne, EmptyEnd, PhaseOK
  <2>11. ASSUME DestroyPost \/ DestroyJoin PROVE Frozen
    BY <2>11 DEF DestroyPost, DestroyJoin, qvars, aux
  <2>12. ASSUME NEW n \in Nodes, Expire(n) PROVE Frozen
    BY <2>12 DEF Expire, qvars, aux
  <2>13. ASSUME UNCHANGED vars PROVE Frozen
    BY <2>13 DEF vars, qvars, aux
  <2> HIDE DEF Frozen
  <2> QED BY <1>1, <2>2, <2>3, <2>4, <2>5, <2>6, <2>7, <2>8, <2>9, <2>10, <2>11, <2>12, <2>13
             DEF Next, Worker, MainThread, Sweep, Destroy
<1>2. TypeOK /\ TokenInv /\ [Next]_vars =>
        [(\E w \in Workers : wpc[w] = "abandoned") /\ keepalive' => Frozen]_vars
  BY <1>1 DEF TokenInv
<1> QED BY <1>2, TypeCorrect, TokensInvariant, PTL DEF Spec, AbandonedStopsTheQueue
=============================================================================
