----------------------------- MODULE QueueProofs -----------------------------
(***************************************************************************)
(* Proofs about the list, the heap and the promise of the job queue of     *)
(* ThreadPool, for any finite set of workers, any set of heap nodes and    *)
(* any number of deletions by the timeout scan.                            *)
(***************************************************************************)
EXTENDS ThreadPoolProofs

\* The oldest job and what is left without it (removelast, delete_timeout_job and
\* thpool_jobqueue_empty).
LEMMA RestProperties ==
  ASSUME NEW S, NEW s \in Seq(S), s # <<>>
  PROVE  /\ Oldest(s) = s[1] /\ Rest(s) \in Seq(S)
         /\ Len(s) \in Nat \ {0} /\ Len(Rest(s)) = Len(s) - 1
         /\ \A i \in 1..(Len(s) - 1) : Rest(s)[i] = s[i + 1]
         /\ Oldest(Rest(s)) = IF Len(s) = 1 THEN NULL ELSE s[2]
         /\ Rest(s) = <<>> <=> Len(s) = 1
<1>1. Oldest(s) = s[1] /\ Rest(s) = Tail(s)
  BY DEF Oldest, Rest
<1>2. /\ Tail(s) \in Seq(S) /\ Len(s) \in Nat \ {0} /\ Len(Tail(s)) = Len(s) - 1
      /\ \A i \in 1..(Len(s) - 1) : Tail(s)[i] = s[i + 1]
  OBVIOUS
<1>3. Tail(s) = <<>> <=> Len(s) = 1
  BY <1>2
<1>4. Oldest(Tail(s)) = IF Len(s) = 1 THEN NULL ELSE s[2]
  BY <1>2, <1>3 DEF Oldest
<1> QED BY <1>1, <1>2, <1>3, <1>4

(***************************************************************************)
(* The inductive invariant.                                                *)
(***************************************************************************)

\* A worker has a job only while it runs it; a job is added and a scan runs while the pool
\* is kept alive; only a scan that raced a worker corrupts the heap.
PhasesInv ==
    /\ corrupted => raced
    /\ \A w \in Workers : wpc[w] # "run" => job_p[w] = NULL
    /\ mpc \in {"enqueue", "sweep_lock", "sweep"} => keepalive

\* The list is the queue, of different allocated jobs.
ListInv ==
    /\ QueueWellFormed
    /\ \A i \in 1..Len(order) : order[i] \in live
    /\ \A i, j \in 1..Len(order) : order[i] = order[j] => i = j

\* A worker's job is allocated, no longer queued, and no other worker's.
RunningInv ==
    \A w \in Workers : wpc[w] = "run" =>
      /\ job_p[w] \in live
      /\ \A i \in 1..Len(order) : order[i] # job_p[w]
      /\ \A v \in Workers : wpc[v] = "run" /\ job_p[v] = job_p[w] => v = w

\* The job that is being added is nobody else's yet.
AddingInv ==
    mpc = "enqueue" =>
      /\ cur \in live
      /\ \A i \in 1..Len(order) : order[i] # cur
      /\ \A w \in Workers : wpc[w] = "run" => job_p[w] # cur

\* Every allocated job has an owner.
OwnedInv ==
    \A n \in live : \/ \E i \in 1..Len(order) : order[i] = n
                    \/ \E w \in Workers : wpc[w] = "run" /\ job_p[w] = n
                    \/ mpc = "enqueue" /\ n = cur

\* The jobs of an unraced pool; thpool_jobqueue_empty stands at the tail.
JobsInv ==
    /\ PhasesInv
    /\ ~raced => /\ ListInv /\ RunningInv /\ AddingInv /\ OwnedInv
                 /\ mpc = "empty" => cur = tail

\* What the steps do that touch neither list nor heap and end no job.
Untouched ==
    /\ UNCHANGED <<head, tail, prev, jobN, order, raced, corrupted>>
    /\ UNCHANGED <<live, job_p>>
    /\ \A w \in Workers : wpc'[w] = "run" <=> wpc[w] = "run"

LEMMA UntouchedKeepsJobs ==
  ASSUME TypeOK, JobsInv, Untouched,
         mpc' \in {"enqueue", "sweep_lock", "sweep"} => keepalive',
         mpc' = "enqueue" <=> mpc = "enqueue", mpc = "enqueue" => cur' = cur,
         ~raced /\ mpc' = "empty" => cur' = tail
  PROVE  JobsInv'
<1> USE DEF Untouched
<1>1. PhasesInv'
  BY DEF JobsInv, PhasesInv
<1>2. ASSUME ~raced PROVE ListInv' /\ RunningInv' /\ AddingInv' /\ OwnedInv'
  <2>1. ListInv'
    BY <1>2 DEF JobsInv, ListInv, QueueWellFormed
  <2>2. RunningInv' /\ AddingInv'
    BY <1>2 DEF JobsInv, RunningInv, AddingInv
  <2>3. OwnedInv'
    BY <1>2 DEF JobsInv, OwnedInv
  <2> QED BY <2>1, <2>2, <2>3
<1> QED BY <1>1, <1>2 DEF JobsInv

\* A worker takes the oldest job (thpool_thread_do, thpool_jobqueue_removelast).
LEMMA TakeJobKeepsJobs ==
  ASSUME TypeOK, TokenInv, JobsInv, ~corrupted, NEW w \in Workers, TakeJob(w)
  PROVE  JobsInv' /\ (~raced => order # <<>> /\ job_p'[w] = Head(order) /\ order' = Tail(order))
<1>0. raced' = raced /\ (raced => PhasesInv')
  BY DEF TakeJob, TypeOK, JobsInv, PhasesInv
<1>1. SUFFICES ASSUME ~raced
               PROVE  JobsInv' /\ order # <<>> /\ job_p'[w] = Head(order) /\ order' = Tail(order)
  BY <1>0 DEF JobsInv
<1>2. order \in Seq(Ptr) /\ order # <<>> /\ jobN = Len(order)
  BY <1>1 DEF TypeOK, JobsInv, ListInv, QueueWellFormed, TakeJob
<1>3. /\ Oldest(order) = order[1] /\ Rest(order) \in Seq(Ptr)
      /\ Len(order) \in Nat \ {0} /\ Len(Rest(order)) = Len(order) - 1
      /\ \A i \in 1..(Len(order) - 1) : Rest(order)[i] = order[i + 1]
      /\ Oldest(Rest(order)) = IF Len(order) = 1 THEN NULL ELSE order[2]
      /\ Rest(order) = <<>> <=> Len(order) = 1
  BY <1>2, RestProperties
<1>4. tail = order[1] /\ tail \in live /\ (jobN # 1 => prev[tail] = order[2] /\ order[2] \in live)
  BY <1>1, <1>2, <1>3 DEF JobsInv, ListInv, QueueWellFormed
<1>5. /\ thpool_jobqueue_removelast /\ corrupted' = corrupted
      /\ wpc' = [wpc EXCEPT ![w] = "run"] /\ job_p' = [job_p EXCEPT ![w] = tail]
      /\ UNCHANGED <<live, keepalive, mpc, cur, raced>> /\ wpc[w] = "lock"
  BY <1>4 DEF TakeJob
<1>6. order' = Rest(order) /\ order' = Tail(order) /\ Head(order) = order[1]
  BY <1>2, <1>5 DEF thpool_jobqueue_removelast, Rest
<1>7. PhasesInv'
  BY <1>5 DEF JobsInv, PhasesInv, TypeOK
<1>8. ListInv'
  <2>1. QueueWellFormed'
    <3>1. jobN' = Len(order') /\ tail' = Oldest(order')
      BY <1>2, <1>3, <1>4, <1>5, <1>6 DEF thpool_jobqueue_removelast
    <3>2. order' # <<>> => head' = order'[Len(order')] /\ prev'[head'] = NULL
      BY <1>1, <1>2, <1>3, <1>5, <1>6
         DEF thpool_jobqueue_removelast, JobsInv, ListInv, QueueWellFormed
    <3>3. \A i \in 1..(Len(order') - 1) : prev'[order'[i]] = order'[i + 1]
      BY <1>1, <1>2, <1>3, <1>5, <1>6
         DEF thpool_jobqueue_removelast, JobsInv, ListInv, QueueWellFormed
    <3> QED BY <3>1, <3>2, <3>3 DEF QueueWellFormed
  <2>2. \A i \in 1..Len(order') : order'[i] \in live'
    BY <1>1, <1>3, <1>5, <1>6 DEF JobsInv, ListInv
  <2>3. \A i, j \in 1..Len(order') : order'[i] = order'[j] => i = j
    BY <1>1, <1>3, <1>6 DEF JobsInv, ListInv
  <2> QED BY <2>1, <2>2, <2>3 DEF ListInv
<1>9. \A i \in 1..Len(order') : order'[i] # order[1] /\ \E j \in 1..Len(order) : order'[i] = order[j]
  BY <1>1, <1>3, <1>6 DEF JobsInv, ListInv
<1>10. RunningInv'
  <2>1. \A v \in Workers : wpc'[v] = "run" => v = w \/ wpc[v] = "run"
    BY <1>5 DEF TypeOK
  <2>2. job_p'[w] = order[1] /\ \A v \in Workers \ {w} : job_p'[v] = job_p[v]
    BY <1>4, <1>5 DEF TypeOK
  <2>3. \A v \in Workers : wpc[v] = "run" => job_p[v] \in live /\ \A i \in 1..Len(order) : order[i] # job_p[v]
    BY <1>1 DEF JobsInv, RunningInv
  <2>4. \A u, v \in Workers : wpc[v] = "run" /\ wpc[u] = "run" /\ job_p[v] = job_p[u] => v = u
    BY <1>1 DEF JobsInv, RunningInv
  <2>5. 1 \in 1..Len(order) /\ order[1] \in live'
    BY <1>3, <1>4, <1>5
  <2>6. ASSUME NEW v \in Workers, wpc'[v] = "run"
        PROVE  /\ job_p'[v] \in live'
               /\ \A i \in 1..Len(order') : order'[i] # job_p'[v]
               /\ \A u \in Workers : wpc'[u] = "run" /\ job_p'[u] = job_p'[v] => u = v
    BY <2>1, <2>2, <2>3, <2>4, <2>5, <2>6, <1>5, <1>9
  <2> QED BY <2>6 DEF RunningInv
<1>11. AddingInv'
  <2>1. ASSUME mpc' = "enqueue"
        PROVE  /\ cur' \in live'
               /\ \A i \in 1..Len(order') : order'[i] # cur'
               /\ \A v \in Workers : wpc'[v] = "run" => job_p'[v] # cur'
    BY <2>1, <1>1, <1>3, <1>4, <1>5, <1>9 DEF JobsInv, AddingInv, TypeOK
  <2> QED BY <2>1 DEF AddingInv
<1>12. OwnedInv'
  <2>1. ASSUME NEW n \in live', NEW i \in 1..Len(order), order[i] = n
        PROVE  (\E j \in 1..Len(order') : order'[j] = n) \/ (wpc'[w] = "run" /\ job_p'[w] = n)
    <3>1. CASE i = 1
      BY <2>1, <3>1, <1>4, <1>5 DEF TypeOK
    <3>2. CASE i # 1
      <4>1. i - 1 \in 1..Len(order') /\ order'[i - 1] = n
        BY <2>1, <3>2, <1>3, <1>6
      <4> QED BY <4>1
    <3> QED BY <3>1, <3>2
  <2>2. ASSUME NEW n \in live', NEW v \in Workers, wpc[v] = "run", job_p[v] = n
        PROVE  wpc'[v] = "run" /\ job_p'[v] = n
    BY <2>2, <1>5 DEF TypeOK
  <2> QED BY <1>1, <1>5, <2>1, <2>2 DEF JobsInv, OwnedInv
<1>13. mpc' # "empty"
  BY <1>5 DEF TokenInv, PhaseOK
<1> QED BY <1>2, <1>4, <1>5, <1>6, <1>7, <1>8, <1>10, <1>11, <1>12, <1>13 DEF JobsInv, TypeOK

\* The oldest job is unlinked and freed (delete_timeout_job at the tail, and
\* thpool_jobqueue_empty).
LEMMA DiscardKeepsJobs ==
  ASSUME TypeOK, JobsInv, ~raced, jobN > 0, cur = tail, mpc \in {"sweep", "empty"},
         tail' = prev[cur], cur' = prev[cur], jobN' = jobN - 1, Free(cur), order' = Rest(order),
         UNCHANGED <<head, keepalive, wpc, job_p, mpc, raced>>
  PROVE  JobsInv' /\ order # <<>> /\ order' = Tail(order) /\ ~corrupted'
<1>1. order \in Seq(Ptr) /\ order # <<>> /\ jobN = Len(order)
  BY DEF TypeOK, JobsInv, ListInv, QueueWellFormed
<1>2. /\ Oldest(order) = order[1] /\ Rest(order) \in Seq(Ptr)
      /\ Len(order) \in Nat \ {0} /\ Len(Rest(order)) = Len(order) - 1
      /\ \A i \in 1..(Len(order) - 1) : Rest(order)[i] = order[i + 1]
      /\ Oldest(Rest(order)) = IF Len(order) = 1 THEN NULL ELSE order[2]
      /\ Rest(order) = <<>> <=> Len(order) = 1
  BY <1>1, RestProperties
<1>3. /\ cur = order[1] /\ cur \in live /\ cur \in Nodes
      /\ prev[cur] = IF Len(order) = 1 THEN NULL ELSE order[2]
  BY <1>1, <1>2 DEF TypeOK, JobsInv, ListInv, QueueWellFormed
<1>4. live' = live \ {cur} /\ prev' = [prev EXCEPT ![cur] = NULL] /\ ~corrupted'
  BY <1>3 DEF Free
<1>5. \A i \in 1..Len(order') : order'[i] = order[i + 1] /\ i + 1 \in 1..Len(order) /\ order'[i] # cur
  BY <1>2, <1>3 DEF JobsInv, ListInv
<1>6. PhasesInv'
  BY <1>4 DEF JobsInv, PhasesInv
<1>7. ListInv'
  <2>1. jobN' = Len(order') /\ tail' = Oldest(order')
    BY <1>1, <1>2, <1>3
  <2>2. ASSUME order' # <<>> PROVE head' = order'[Len(order')] /\ prev'[head'] = NULL
    <3>1. Len(order) # 1 /\ Len(order') \in 1..Len(order') /\ head = order[Len(order)] /\ prev[head] = NULL
      BY <1>1, <1>2, <2>2 DEF JobsInv, ListInv, QueueWellFormed
    <3>2. head' = order'[Len(order')] /\ head' # cur
      BY <1>2, <1>5, <3>1
    <3> QED BY <1>4, <3>1, <3>2 DEF TypeOK
  <2>3. ASSUME NEW i \in 1..(Len(order') - 1) PROVE prev'[order'[i]] = order'[i + 1]
    <3>1. i \in 1..Len(order') /\ i + 1 \in 1..Len(order') /\ i + 1 \in 1..(Len(order) - 1)
      BY <1>2
    <3>2. prev[order[i + 1]] = order[i + 2]
      BY <3>1 DEF JobsInv, ListInv, QueueWellFormed
    <3> QED BY <1>4, <1>5, <3>1, <3>2 DEF TypeOK
  <2>4. \A i \in 1..Len(order') : order'[i] \in live'
    BY <1>4, <1>5 DEF JobsInv, ListInv
  <2>5. \A i, j \in 1..Len(order') : order'[i] = order'[j] => i = j
    BY <1>2, <1>5 DEF JobsInv, ListInv
  <2> QED BY <2>1, <2>2, <2>3, <2>4, <2>5 DEF ListInv, QueueWellFormed
<1>8. RunningInv'
  <2>1. \A w \in Workers : wpc[w] = "run" => job_p[w] # cur
    BY <1>2, <1>3 DEF JobsInv, RunningInv
  <2> QED BY <1>4, <1>5, <2>1 DEF JobsInv, RunningInv
<1>9. AddingInv' /\ (mpc' = "empty" => cur' = tail')
  BY DEF AddingInv
<1>10. OwnedInv'
  <2>1. ASSUME NEW n \in live', NEW i \in 1..Len(order), order[i] = n
        PROVE  \E j \in 1..Len(order') : order'[j] = n
    <3>1. i # 1
      BY <2>1, <1>3, <1>4
    <3>2. i - 1 \in 1..Len(order') /\ order'[i - 1] = n
      BY <2>1, <3>1, <1>2
    <3> QED BY <3>2
  <2> QED BY <1>4, <2>1 DEF JobsInv, OwnedInv
<1> QED BY <1>1, <1>4, <1>6, <1>7, <1>8, <1>9, <1>10 DEF JobsInv, Rest

\* A worker frees the job it has run (thread_pool.c:147).
LEMMA FinishJobKeepsJobs ==
  ASSUME TypeOK, JobsInv, ~corrupted, NEW w \in Workers, FinishJob(w)
  PROVE  JobsInv' /\ (~raced => job_p[w] # NULL)
<1> USE DEF FinishJob
<1>1. CASE raced
  <2>1. PhasesInv'
    BY <1>1 DEF JobsInv, PhasesInv, TypeOK, aux
  <2> QED BY <1>1, <2>1 DEF JobsInv, aux
<1>2. CASE ~raced
  <2> DEFINE n == job_p[w]
  <2>1. /\ n \in live /\ n \in Nodes /\ wpc[w] = "run" /\ job_p[w] = n
        /\ \A i \in 1..Len(order) : order[i] # n
        /\ \A v \in Workers : wpc[v] = "run" /\ job_p[v] = n => v = w
    BY <1>2 DEF JobsInv, RunningInv, TypeOK
  <2>2. /\ live' = live \ {n} /\ prev' = [prev EXCEPT ![n] = NULL] /\ corrupted' = FALSE
        /\ job_p' = [job_p EXCEPT ![w] = NULL] /\ wpc'[w] # "run"
        /\ \A v \in Workers \ {w} : wpc'[v] = wpc[v] /\ job_p'[v] = job_p[v]
        /\ UNCHANGED <<head, tail, jobN, keepalive, mpc, cur, order, raced>>
    BY <2>1 DEF Free, TypeOK, aux
  <2> HIDE DEF n
  <2>3. PhasesInv'
    BY <1>2, <2>2 DEF JobsInv, PhasesInv, TypeOK
  <2>4. ListInv'
    <3>1. \A i \in 1..Len(order) : order[i] \in live' /\ prev'[order[i]] = prev[order[i]]
      BY <1>2, <2>1, <2>2 DEF JobsInv, ListInv, TypeOK
    <3>2. order # <<>> => head = order[Len(order)] /\ Len(order) \in 1..Len(order)
      BY <1>2 DEF JobsInv, ListInv, QueueWellFormed, TypeOK
    <3>3. QueueWellFormed'
      BY <1>2, <2>2, <3>1, <3>2 DEF JobsInv, ListInv, QueueWellFormed, TypeOK
    <3> QED BY <1>2, <2>2, <3>1, <3>3 DEF JobsInv, ListInv
  <2>5. RunningInv'
    BY <1>2, <2>1, <2>2 DEF JobsInv, RunningInv
  <2>6. AddingInv'
    <3>1. mpc = "enqueue" => cur # n
      BY <1>2, <2>1 DEF JobsInv, AddingInv
    <3>2. \A v \in Workers : wpc'[v] = "run" => wpc[v] = "run" /\ job_p'[v] = job_p[v]
      BY <2>2
    <3> QED BY <1>2, <2>2, <3>1, <3>2 DEF JobsInv, AddingInv
  <2>7. OwnedInv'
    <3>1. ASSUME NEW m \in live'
          PROVE  m \in live /\ \A v \in Workers : wpc[v] = "run" /\ job_p[v] = m => wpc'[v] = "run" /\ job_p'[v] = m
      BY <3>1, <2>1, <2>2
    <3> QED BY <1>2, <2>2, <3>1 DEF JobsInv, OwnedInv
  <2>8. n # NULL
    BY <2>1, NamesAssumption
  <2> QED BY <1>2, <2>2, <2>3, <2>4, <2>5, <2>6, <2>7, <2>8 DEF JobsInv, n
<1> QED BY <1>1, <1>2

\* A new job is allocated (thpool_add_work).
LEMMA AddWorkKeepsJobs ==
  ASSUME TypeOK, JobsInv, NEW n \in Nodes, AddWork(n)
  PROVE  JobsInv'
<1> USE DEF AddWork, qvars, aux
<1>1. PhasesInv'
  BY DEF JobsInv, PhasesInv
<1>2. ASSUME ~raced PROVE ListInv' /\ RunningInv' /\ AddingInv' /\ OwnedInv'
  <2>1. ListInv'
    BY <1>2 DEF JobsInv, ListInv, QueueWellFormed
  <2>2. RunningInv'
    BY <1>2 DEF JobsInv, RunningInv
  <2>3. AddingInv'
    BY <1>2 DEF JobsInv, ListInv, RunningInv, AddingInv
  <2>4. OwnedInv'
    BY <1>2 DEF JobsInv, OwnedInv
  <2> QED BY <2>1, <2>2, <2>3, <2>4
<1> QED BY <1>1, <1>2 DEF JobsInv

\* The new job becomes the head (thpool_job_enqueue).
LEMMA EnqueueKeepsJobs ==
  ASSUME TypeOK, JobsInv, ~corrupted, thpool_job_enqueue
  PROVE  JobsInv' /\ (~raced => ~corrupted' /\ cur \in Nodes /\ keepalive
                                /\ \A i \in 1..Len(order) : order[i] # cur)
<1> USE DEF thpool_job_enqueue
<1>0. keepalive
  BY DEF JobsInv, PhasesInv
<1>1. CASE raced
  <2>1. PhasesInv'
    BY <1>1 DEF JobsInv, PhasesInv
  <2> QED BY <1>1, <2>1 DEF JobsInv
<1>2. CASE ~raced
  <2>1. /\ order \in Seq(Ptr) /\ Len(order) \in Nat /\ jobN = Len(order) /\ tail = Oldest(order)
        /\ order # <<>> => head = order[Len(order)] /\ Len(order) \in 1..Len(order)
    BY <1>2 DEF TypeOK, JobsInv, ListInv, QueueWellFormed
  <2>2. cur \in live /\ cur \in Nodes /\ \A i \in 1..Len(order) : order[i] # cur
    BY <1>2 DEF TypeOK, JobsInv, AddingInv
  <2>3. /\ order' = Append(order, cur) /\ Len(order') = Len(order) + 1 /\ order' # <<>>
        /\ order'[Len(order) + 1] = cur
        /\ \A i \in 1..Len(order) : order'[i] = order[i]
    BY <2>1, <2>2 DEF Ptr
  <2>4. order # <<>> => jobN # 0 /\ head \in live /\ head \in Nodes /\ head # cur
    BY <1>2, <2>1, <2>2 DEF TypeOK, JobsInv, ListInv
  <2>5. order = <<>> => jobN = 0
    BY <2>1
  <2>6. /\ head' = cur /\ jobN' = jobN + 1 /\ ~corrupted'
        /\ tail' = IF order = <<>> THEN cur ELSE tail
        /\ prev' = IF order = <<>> THEN [prev EXCEPT ![cur] = NULL]
                                   ELSE [prev EXCEPT ![cur] = NULL, ![head] = cur]
    BY <2>1, <2>4, <2>5 DEF LinkAtHead
  <2>7. PhasesInv'
    BY <2>6 DEF JobsInv, PhasesInv
  <2>8. ListInv'
    <3>1. jobN' = Len(order')
      BY <2>1, <2>3, <2>6
    <3>2. tail' = Oldest(order')
      <4>1. CASE order = <<>>
        BY <4>1, <2>1, <2>3, <2>6 DEF Oldest
      <4>2. CASE order # <<>>
        BY <4>2, <2>1, <2>3, <2>6 DEF Oldest
      <4> QED BY <4>1, <4>2
    <3>3. head' = order'[Len(order')] /\ prev'[head'] = NULL
      BY <2>2, <2>3, <2>4, <2>6 DEF TypeOK
    <3>4. ASSUME NEW i \in 1..(Len(order') - 1) PROVE prev'[order'[i]] = order'[i + 1]
      <4>1. i \in 1..Len(order) /\ order # <<>> /\ order'[i] = order[i] /\ order[i] # cur /\ order[i] \in Nodes
        BY <1>2, <2>1, <2>2, <2>3 DEF TypeOK, JobsInv, ListInv
      <4>2. CASE i = Len(order)
        BY <4>1, <4>2, <2>1, <2>3, <2>4, <2>6 DEF TypeOK
      <4>3. CASE i # Len(order)
        <5>1. i \in 1..(Len(order) - 1) /\ i + 1 \in 1..Len(order) /\ prev[order[i]] = order[i + 1]
          BY <1>2, <2>1, <4>1, <4>3 DEF JobsInv, ListInv, QueueWellFormed
        <5>2. order[i] # head
          BY <1>2, <2>1, <4>1, <4>3 DEF JobsInv, ListInv
        <5> QED BY <4>1, <5>1, <5>2, <2>3, <2>6 DEF TypeOK
      <4> QED BY <4>2, <4>3
    <3>5. \A i \in 1..Len(order') : order'[i] \in live'
      BY <1>2, <2>1, <2>2, <2>3 DEF JobsInv, ListInv
    <3>6. \A i, j \in 1..Len(order') : order'[i] = order'[j] => i = j
      BY <1>2, <2>1, <2>2, <2>3 DEF JobsInv, ListInv
    <3> QED BY <3>1, <3>2, <3>3, <3>4, <3>5, <3>6 DEF ListInv, QueueWellFormed
  <2>9. RunningInv'
    BY <1>2, <2>1, <2>3 DEF JobsInv, RunningInv, AddingInv
  <2>10. AddingInv'
    BY DEF AddingInv
  <2>11. OwnedInv'
    <3>1. \A n \in live : (\E i \in 1..Len(order) : order[i] = n) \/ n = cur =>
            \E i \in 1..Len(order') : order'[i] = n
      BY <2>1, <2>3
    <3> QED BY <1>2, <3>1 DEF JobsInv, OwnedInv
  <2> QED BY <1>0, <1>2, <2>2, <2>6, <2>7, <2>8, <2>9, <2>10, <2>11 DEF JobsInv
<1> QED BY <1>1, <1>2

\* One deletion of the timeout scan, at the tail or not (delete_timeout_job).
LEMMA SweepOneKeepsJobs ==
  ASSUME TypeOK, JobsInv, ~corrupted, SweepOne
  PROVE  JobsInv' /\ (~raced' => ~corrupted' /\ keepalive /\ order # <<>> /\ order' = Tail(order))
<1> USE DEF SweepOne
<1>1. CASE raced'
  <2>1. PhasesInv'
    BY <1>1 DEF JobsInv, PhasesInv
  <2> QED BY <1>1, <2>1 DEF JobsInv
<1>2. CASE ~raced'
  <2>1. ~raced /\ cur = tail /\ keepalive /\ raced' = raced
    BY <1>2 DEF TypeOK, JobsInv, PhasesInv
  <2>2. JobsInv' /\ order # <<>> /\ order' = Tail(order) /\ ~corrupted'
    BY <2>1, DiscardKeepsJobs
  <2> QED BY <2>1, <2>2
<1> QED BY <1>1, <1>2

\* One iteration of thpool_jobqueue_empty.
LEMMA EmptyOneKeepsJobs ==
  ASSUME TypeOK, TokenInv, JobsInv, ~corrupted, EmptyOne
  PROVE  JobsInv' /\ (~raced => ~corrupted' /\ order # <<>> /\ order' = Tail(order)
                                /\ \A w \in Workers : job_p[w] = NULL)
<1> USE DEF EmptyOne
<1>0. \A w \in Workers : job_p[w] = NULL
  BY DEF TokenInv, PhaseOK, JobsInv, PhasesInv
<1>1. CASE raced
  <2>1. PhasesInv'
    BY <1>1 DEF JobsInv, PhasesInv
  <2> QED BY <1>1, <2>1 DEF JobsInv
<1>2. CASE ~raced
  <2>1. cur = tail /\ cur = order[1] /\ order # <<>>
    BY <1>2 DEF JobsInv, ListInv, QueueWellFormed, Oldest, TypeOK
  <2>2. cur \in Nodes
    BY <1>2, <2>1 DEF JobsInv, ListInv, TypeOK
  <2>3. JobsInv' /\ order # <<>> /\ order' = Tail(order) /\ ~corrupted'
    BY <1>2, <2>1, <2>2, DiscardKeepsJobs
  <2> QED BY <1>0, <2>3
<1> QED BY <1>1, <1>2

\* What is left of the queue's bookkeeping at the end of thpool_jobqueue_empty.
LEMMA EmptyEndKeepsJobs ==
  ASSUME TypeOK, JobsInv, EmptyEnd
  PROVE  JobsInv'
<1> USE DEF EmptyEnd, aux
<1>1. PhasesInv'
  BY DEF JobsInv, PhasesInv
<1>2. ASSUME ~raced PROVE ListInv' /\ RunningInv' /\ AddingInv' /\ OwnedInv'
  <2>1. order = <<>>
    BY <1>2 DEF TypeOK, JobsInv, ListInv, QueueWellFormed
  <2>2. ListInv'
    BY <1>2, <2>1 DEF JobsInv, ListInv, QueueWellFormed, Oldest
  <2>3. RunningInv' /\ AddingInv'
    BY <1>2 DEF JobsInv, RunningInv, AddingInv
  <2>4. OwnedInv'
    BY <1>2 DEF JobsInv, OwnedInv
  <2> QED BY <2>2, <2>3, <2>4
<1> QED BY <1>1, <1>2 DEF JobsInv

\* The steps of a worker.
LEMMA WorkerKeepsJobs ==
  ASSUME TypeOK, TokenInv, JobsInv, ~corrupted, NEW w \in Workers, Worker(w)
  PROVE  JobsInv'
<1> USE DEF qvars, aux
<1>1. CASE SemWait(w)
  <2>1. Untouched
    BY <1>1 DEF SemWait, Untouched, TypeOK
  <2> QED BY <1>1, <2>1, UntouchedKeepsJobs DEF SemWait, JobsInv, PhasesInv
<1>2. CASE CheckKeepalive(w)
  <2>1. Untouched
    BY <1>2 DEF CheckKeepalive, Untouched, TypeOK
  <2> QED BY <1>2, <2>1, UntouchedKeepsJobs DEF CheckKeepalive, JobsInv, PhasesInv
<1>3. CASE TakeJob(w)
  BY <1>3, TakeJobKeepsJobs
<1>4. CASE ReturnOnEmpty(w)
  <2>1. Untouched
    BY <1>4 DEF ReturnOnEmpty, Untouched, TypeOK
  <2> QED BY <1>4, <2>1, UntouchedKeepsJobs DEF ReturnOnEmpty, JobsInv, PhasesInv
<1>5. CASE FinishJob(w)
  BY <1>5, FinishJobKeepsJobs
<1> QED BY <1>1, <1>2, <1>3, <1>4, <1>5 DEF Worker

\* The steps of the main thread and of the clock.
LEMMA MainKeepsJobs ==
  ASSUME TypeOK, TokenInv, JobsInv, ~corrupted, MainThread \/ \E n \in Nodes : Expire(n)
  PROVE  JobsInv'
<1> USE DEF qvars, aux
<1>1. ASSUME NEW n \in Nodes, AddWork(n)
      PROVE  JobsInv'
  BY <1>1, AddWorkKeepsJobs
<1>2. CASE thpool_job_enqueue
  BY <1>2, EnqueueKeepsJobs
<1>3. CASE SweepPeek
  BY <1>3, UntouchedKeepsJobs DEF SweepPeek, Untouched
<1>4. CASE SweepLock
  BY <1>4, UntouchedKeepsJobs DEF SweepLock, Untouched, JobsInv, PhasesInv
<1>5. CASE SweepOne
  BY <1>5, SweepOneKeepsJobs
<1>6. CASE SweepEnd
  BY <1>6, UntouchedKeepsJobs DEF SweepEnd, Untouched
<1>7. CASE DestroyStop
  BY <1>7, UntouchedKeepsJobs DEF DestroyStop, Untouched
<1>8. CASE DestroyPost
  BY <1>8, UntouchedKeepsJobs DEF DestroyPost, Untouched
<1>9. CASE DestroyJoin
  BY <1>9, UntouchedKeepsJobs DEF DestroyJoin, Untouched
<1>10. CASE EmptyOne
  BY <1>10, EmptyOneKeepsJobs
<1>11. CASE EmptyEnd
  BY <1>11, EmptyEndKeepsJobs
<1>12. ASSUME NEW n \in Nodes, Expire(n)
       PROVE  JobsInv'
  BY <1>12, UntouchedKeepsJobs DEF Expire, Untouched, JobsInv, PhasesInv
<1> QED BY <1>1, <1>2, <1>3, <1>4, <1>5, <1>6, <1>7, <1>8, <1>9, <1>10, <1>11, <1>12
           DEF MainThread, Sweep, Destroy

\* Every step of the pool keeps the invariant.
LEMMA JobsInvariant == Spec => []JobsInv
<1>1. Init => JobsInv
  <2> SUFFICES ASSUME Init PROVE JobsInv
    OBVIOUS
  <2>1. order = <<>> /\ Len(order) = 0 /\ live = {}
    BY DEF Init
  <2>2. PhasesInv
    BY DEF Init, PhasesInv
  <2>3. ListInv
    BY <2>1 DEF Init, ListInv, QueueWellFormed, Oldest
  <2>4. RunningInv /\ AddingInv /\ OwnedInv /\ mpc # "empty"
    BY <2>1 DEF Init, RunningInv, AddingInv, OwnedInv
  <2> QED BY <2>2, <2>3, <2>4 DEF JobsInv
<1>2. TypeOK /\ TokenInv /\ JobsInv /\ [Next]_vars => JobsInv'
  <2> SUFFICES ASSUME TypeOK, TokenInv, JobsInv, [Next]_vars
               PROVE  JobsInv'
    OBVIOUS
  <2>1. CASE Next
    BY <2>1, WorkerKeepsJobs, MainKeepsJobs DEF Next
  <2>2. CASE UNCHANGED vars
    BY <2>2, UntouchedKeepsJobs DEF vars, Untouched, JobsInv, PhasesInv
  <2> QED BY <2>1, <2>2
<1> QED BY <1>1, <1>2, TypeCorrect, TokensInvariant, PTL DEF Spec

(***************************************************************************)
(* The theorems.                                                           *)
(***************************************************************************)

\* The linked list of thread_pool.c is the queue in order of submission, tail to head,
\* with jobN its length, until a scan races a worker.
THEOREM QueueIsAList == Spec => []QueueWellFormed
<1>1. JobsInv => QueueWellFormed
  BY DEF JobsInv, ListInv, QueueWellFormed
<1> QED BY <1>1, JobsInvariant, PTL

\* No job is freed twice and no dead job is dereferenced, until a scan races a worker.
THEOREM HeapIntact == Spec => []HeapIntactUnlessRaced
<1>1. JobsInv => HeapIntactUnlessRaced
  BY DEF JobsInv, PhasesInv, HeapIntactUnlessRaced
<1> QED BY <1>1, JobsInvariant, PTL

\* A set that different indices name one by one has as many members as there are indices.
LEMMA ImageCardinality ==
  ASSUME NEW S, IsFiniteSet(S), NEW I, NEW f \in [S -> I],
         \A t \in I : \E x \in S : f[x] = t,
         \A x, y \in S : f[x] = f[y] => x = y
  PROVE  IsFiniteSet(I) /\ Cardinality(I) = Cardinality(S)
<1>1. f \in Bijection(S, I)
  BY DEF Bijection, Injection, Surjection, IsInjective
<1>2. ExistsBijection(S, I)
  BY <1>1 DEF ExistsBijection
<1> QED BY <1>2, FS_Bijection

\* The allocated jobs are the queued ones, the ones being run and the one being added
\* (thpool_add_work, thpool_thread_do): none leaks and none has two owners.
THEOREM JobsOwnedOnce == Spec => []EveryJobOwnedOnce
<1>1. TypeOK /\ JobsInv => EveryJobOwnedOnce
  <2> DEFINE adding == IF mpc = "enqueue" THEN {cur} ELSE {}
             busy   == {w \in Workers : wpc[w] = "run"}
  <2> SUFFICES ASSUME TypeOK, JobsInv, ~raced
               PROVE  /\ live = Queued \cup Running \cup adding
                      /\ Cardinality(live) = Len(order) + Cardinality(busy) + Cardinality(adding)
    BY DEF EveryJobOwnedOnce
  <2>1. Running = {job_p[w] : w \in busy}
    BY DEF Running
  <2>2. live = Queued \cup Running \cup adding
    <3>1. Queued \subseteq live
      BY DEF JobsInv, ListInv, Queued
    <3>2. Running \subseteq live
      BY <2>1 DEF JobsInv, RunningInv
    <3>3. adding \subseteq live
      BY DEF JobsInv, AddingInv
    <3>4. live \subseteq Queued \cup Running \cup adding
      BY <2>1 DEF JobsInv, OwnedInv, Queued
    <3> QED BY <3>1, <3>2, <3>3, <3>4
  <2>3. IsFiniteSet(Queued) /\ Cardinality(Queued) = Len(order)
    <3> DEFINE D == 1..Len(order)
    <3>1. IsFiniteSet(D) /\ Cardinality(D) = Len(order)
      BY FS_Interval DEF TypeOK
    <3> DEFINE f == [i \in D |-> order[i]]
    <3>2. /\ f \in [D -> Queued] /\ \A n \in Queued : \E i \in D : f[i] = n
          /\ \A i, j \in D : f[i] = f[j] => i = j
      BY DEF JobsInv, ListInv, Queued
    <3> HIDE DEF f, D
    <3> QED BY <3>1, <3>2, ImageCardinality
  <2>4. IsFiniteSet(busy) /\ IsFiniteSet(Running) /\ Cardinality(Running) = Cardinality(busy)
    <3> DEFINE f == [w \in busy |-> job_p[w]]
    <3>1. IsFiniteSet(busy)
      BY WorkersAssumption, FS_Subset
    <3>2. /\ f \in [busy -> Running] /\ \A n \in Running : \E w \in busy : f[w] = n
          /\ \A v, w \in busy : f[v] = f[w] => v = w
      BY <2>1 DEF JobsInv, RunningInv
    <3> HIDE DEF f, busy
    <3> QED BY <3>1, <3>2, ImageCardinality
  <2>5. IsFiniteSet(adding)
    BY FS_EmptySet, FS_Singleton
  <2>6. Queued \cap Running = {}
    BY <2>1 DEF JobsInv, RunningInv, Queued
  <2>7. (Queued \cup Running) \cap adding = {}
    BY <2>1 DEF JobsInv, AddingInv, Queued
  <2> HIDE DEF adding, busy
  <2>8. Cardinality({}) = 0 /\ Len(order) \in Nat
    BY FS_EmptySet DEF TypeOK
  <2>9. /\ IsFiniteSet(Queued \cup Running)
        /\ Cardinality(Queued \cup Running) = Len(order) + Cardinality(busy) - 0
    BY <2>3, <2>4, <2>6, <2>8, FS_Union
  <2>10. Cardinality(live) = Cardinality(Queued \cup Running) + Cardinality(adding) - 0
    BY <2>2, <2>5, <2>7, <2>8, <2>9, FS_Union
  <2>11. Cardinality(busy) \in Nat /\ Cardinality(adding) \in Nat
    BY <2>4, <2>5, FS_CardinalityType
  <2> QED BY <2>2, <2>8, <2>9, <2>10, <2>11
<1> QED BY <1>1, TypeCorrect, JobsInvariant, PTL

(***************************************************************************)
(* The pool keeps the promise of JobQueue.                                 *)
(***************************************************************************)

\* A step that neither queues, takes nor ends a job is no step of the promise.
LEMMA Stutters ==
  ASSUME UNCHANGED <<order, job_p, keepalive, raced, corrupted>>
  PROVE  UNCHANGED JQ!vars
BY DEF JQ!vars

\* A worker's steps: it takes the oldest job, or ends the one it has.
LEMMA WorkerPromise ==
  ASSUME TypeOK, TokenInv, JobsInv, ~corrupted, ~(raced \/ corrupted)', NEW w \in Workers, Worker(w)
  PROVE  JQ!Step \/ UNCHANGED JQ!vars
<1> USE DEF qvars, aux
<1>1. CASE SemWait(w) \/ CheckKeepalive(w) \/ ReturnOnEmpty(w)
  BY <1>1, Stutters DEF SemWait, CheckKeepalive, ReturnOnEmpty
<1>2. CASE TakeJob(w)
  <2>1. ~raced /\ keepalive' = keepalive /\ job_p[w] = NULL
    BY <1>2 DEF TakeJob, JobsInv, PhasesInv
  <2>2. order # <<>> /\ job_p'[w] = Head(order) /\ order' = Tail(order)
    BY <1>2, <2>1, TakeJobKeepsJobs
  <2>3. job_p' = [job_p EXCEPT ![w] = Head(order)]
    BY <1>2, <2>2 DEF TakeJob, TypeOK
  <2>4. JQ!Take(w)
    BY <2>1, <2>2, <2>3 DEF JQ!Take
  <2> QED BY <2>4 DEF JQ!Step
<1>3. CASE FinishJob(w)
  <2>1. ~raced
    BY <1>3 DEF FinishJob
  <2>2. job_p[w] # NULL
    BY <1>3, <2>1, FinishJobKeepsJobs
  <2>3. JQ!Finish(w)
    BY <1>3, <2>2 DEF FinishJob, JQ!Finish
  <2> QED BY <2>3 DEF JQ!Step
<1> QED BY <1>1, <1>2, <1>3 DEF Worker

\* The main thread submits a job, discards the oldest one or closes the queue.
LEMMA MainPromise ==
  ASSUME TypeOK, TokenInv, JobsInv, ~corrupted, ~(raced \/ corrupted)',
         MainThread \/ \E n \in Nodes : Expire(n)
  PROVE  JQ!Step \/ UNCHANGED JQ!vars
<1> USE DEF qvars, aux
<1>1. CASE \E n \in Nodes : AddWork(n) \/ Expire(n)
  BY <1>1, Stutters DEF AddWork, Expire
<1>2. CASE thpool_job_enqueue
  <2>1. ~raced /\ mpc = "enqueue"
    BY <1>2 DEF thpool_job_enqueue
  <2>2. cur \in Nodes /\ keepalive /\ \A i \in 1..Len(order) : order[i] # cur
    BY <1>2, <2>1, EnqueueKeepsJobs
  <2>3. \A w \in Workers : job_p[w] # cur
    BY <2>1, <2>2, NamesAssumption DEF JobsInv, PhasesInv, AddingInv
  <2>4. JQ!Submit(cur)
    BY <1>2, <2>2, <2>3 DEF thpool_job_enqueue, JQ!Submit, JQ!InUse
  <2> QED BY <2>2, <2>4 DEF JQ!Step
<1>3. CASE SweepPeek \/ SweepLock \/ SweepEnd
  BY <1>3, Stutters DEF SweepPeek, SweepLock, SweepEnd
<1>4. CASE SweepOne
  <2>1. keepalive /\ order # <<>> /\ order' = Tail(order)
    BY <1>4, SweepOneKeepsJobs
  <2>2. JQ!Discard
    BY <1>4, <2>1 DEF SweepOne, JQ!Discard
  <2> QED BY <2>2 DEF JQ!Step
<1>5. CASE DestroyStop
  <2>1. JQ!Close
    BY <1>5 DEF DestroyStop, JQ!Close
  <2> QED BY <2>1 DEF JQ!Step
<1>6. CASE DestroyPost \/ DestroyJoin \/ EmptyEnd
  BY <1>6, Stutters DEF DestroyPost, DestroyJoin, EmptyEnd
<1>7. CASE EmptyOne
  <2>1. ~raced
    BY <1>7 DEF EmptyOne
  <2>2. order # <<>> /\ order' = Tail(order) /\ \A w \in Workers : job_p[w] = NULL
    BY <1>7, <2>1, EmptyOneKeepsJobs
  <2>3. JQ!Discard
    BY <1>7, <2>2 DEF EmptyOne, JQ!Discard
  <2> QED BY <2>3 DEF JQ!Step
<1> QED BY <1>1, <1>2, <1>3, <1>4, <1>5, <1>6, <1>7 DEF MainThread, Sweep, Destroy

\* A scan that raced a worker is never undone.
LEMMA RacedForGood ==
  ASSUME TypeOK, Next, raced
  PROVE  raced'
<1> USE DEF aux
<1>1. ASSUME NEW w \in Workers, Worker(w) PROVE raced' = raced
  BY <1>1 DEF Worker, SemWait, CheckKeepalive, TakeJob, ReturnOnEmpty, FinishJob
<1>2. ASSUME NEW n \in Nodes, AddWork(n) \/ Expire(n) PROVE raced' = raced
  BY <1>2 DEF AddWork, Expire
<1>3. CASE thpool_job_enqueue \/ Sweep
  BY <1>3 DEF thpool_job_enqueue, Sweep, SweepPeek, SweepLock, SweepOne, SweepEnd
<1>4. CASE Destroy
  BY <1>4 DEF Destroy, DestroyStop, DestroyPost, DestroyJoin, EmptyOne, EmptyEnd
<1> QED BY <1>1, <1>2, <1>3, <1>4 DEF Next, MainThread

\* The linked list, its mutex, its semaphore and the heap implement JobQueue: a job is
\* submitted once, taken by one worker and in order, until a timeout scan races a worker.
THEOREM PoolImplementsJobQueue == Spec => ImplementsJobQueue
<1>1. Init => JQ!Init
  BY DEF Init, JQ!Init
<1>2. TypeOK /\ TokenInv /\ JobsInv /\ [Next]_vars => [JQ!Next]_(JQ!vars)
  <2> SUFFICES ASSUME TypeOK, TokenInv, JobsInv, [Next]_vars
               PROVE  JQ!Next \/ UNCHANGED JQ!vars
    OBVIOUS
  <2>1. CASE UNCHANGED vars
    BY <2>1, Stutters DEF vars
  <2>2. CASE Next /\ (raced \/ corrupted)'
    BY <2>2 DEF JQ!Next
  <2>3. CASE Next /\ ~(raced \/ corrupted)'
    <3>1. JQ!Step \/ UNCHANGED JQ!vars
      BY <2>3, WorkerPromise, MainPromise DEF Next
    <3>2. ~raced /\ ~corrupted
      BY <2>3, RacedForGood DEF Next
    <3> QED BY <2>3, <3>1, <3>2 DEF JQ!Next
  <2> QED BY <2>1, <2>2, <2>3
<1> QED BY <1>1, <1>2, TypeCorrect, TokensInvariant, JobsInvariant, PTL
        DEF Spec, ImplementsJobQueue, JQ!Spec
=============================================================================
