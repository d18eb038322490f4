------------------------------ MODULE JobQueue ------------------------------
(***************************************************************************)
(* What the job queue of thread_pool.c promises its callers: a job is      *)
(* submitted once, taken by one worker, in the order of submission, unless *)
(* it is discarded -- the oldest first -- because it timed out or because  *)
(* the pool is being destroyed.  A discard that collides with a worker     *)
(* ends the promise: intact turns FALSE and nothing is said afterwards.    *)
(***************************************************************************)
EXTENDS Naturals, Sequences

CONSTANTS Workers, Jobs, NULL

VARIABLES
    queue,   \* the submitted jobs nobody has taken, oldest first
    taken,   \* the job each worker is running, or NULL
    open,    \* the pool accepts jobs
    intact   \* the promise still holds

vars == <<queue, taken, open, intact>>

Init ==
    /\ queue = <<>>
    /\ taken = [w \in Workers |-> NULL]
    /\ open = TRUE
    /\ intact = TRUE

InUse(j) == (\E i \in 1..Len(queue) : queue[i] = j) \/ (\E w \in Workers : taken[w] = j)

Submit(j) ==
    /\ open
    /\ ~InUse(j)
    /\ queue' = Append(queue, j)
    /\ UNCHANGED <<taken, open>>

Take(w) ==
    /\ taken[w] = NULL
    /\ queue # <<>>
    /\ taken' = [taken EXCEPT ![w] = Head(queue)]
    /\ queue' = Tail(queue)
    /\ UNCHANGED open

Finish(w) ==
    /\ taken[w] # NULL
    /\ taken' = [taken EXCEPT ![w] = NULL]
    /\ UNCHANGED <<queue, open>>

\* A timed out job, or any job once the pool is closed and idle.
Discard ==
    /\ open \/ \A w \in Workers : taken[w] = NULL
    /\ queue # <<>>
    /\ queue' = Tail(queue)
    /\ UNCHANGED <<taken, open>>

Close ==
    /\ open
    /\ open' = FALSE
    /\ UNCHANGED <<queue, taken>>

Step == \/ \E j \in Jobs : Submit(j)
        \/ \E w \in Workers : Take(w) \/ Finish(w)
        \/ Discard
        \/ Close

Next == \/ intact /\ intact' /\ Step
        \/ ~intact'

Spec == Init /\ [][Next]_vars
=============================================================================
