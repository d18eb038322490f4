------------------------------ MODULE SqlPool ------------------------------
(***************************************************************************)
(* The pool of database connections of server/sql_pool.c, as threads use   *)
(* it through get_upgrade_count_from_database, while main or the signal    *)
(* handler may run sql_pool_destroy.  It is the server built with          *)
(* CONNECT_TO_SQL_SUCCESS 1; nothing calls the query in this commit.       *)
(*                                                                         *)
(* Granularity.  Every access to a node is a step: after a reconnection    *)
(* the node's mutex no longer keeps the other workers out.  A call of the  *)
(* MySQL library is a step that succeeds or fails.                         *)
(*                                                                         *)
(* The mutex.  create_connect runs pthread_mutex_init on a mutex that its  *)
(* caller holds; with the mutexes of glibc that unlocks it.  An unlock     *)
(* unlocks it too, whoever has locked it.                                  *)
(***************************************************************************)
EXTENDS Integers, FiniteSets

CONSTANTS
    Workers,    \* the threads that ask for a connection
    PoolNumber  \* pool_number

\* sql_pool_create(THREAD_POLL_SIZE): rand() % pool_number needs one node.
ASSUME PoolNumberAssumption == PoolNumber \in Nat \ {0}

VARIABLES
    locked,     \* sql_lock of each node
    sql_state,  \* DB_CONN or DB_DISCONN
    connected,  \* mysql_sock is not NULL
    wpc, index, loop_index,  \* the workers
    dpc, dindex,             \* sql_pool_destroy
    crashed,    \* mysql_ping was called with NULL
    reinit,     \* history: a worker that holds the node, or held it together with one that
                \* still does, has re-initialised its mutex
    shared      \* history: two workers have held the node at the same time

node == <<locked, sql_state, connected>>
destroy == <<dpc, dindex>>
vars == <<locked, sql_state, connected, wpc, index, loop_index, dpc, dindex, crashed, reinit, shared>>
history == <<reinit, shared>>

Nodes == 0..(PoolNumber - 1)
HeldPC == {"check", "mysql_init", "mutex_init", "connect", "connected", "failed",
           "ping", "use", "release"}
WorkerPC == HeldPC \cup {"idle", "try"}

\* sql_pool_create: a node whose database could not be reached is kept, disconnected.
Init ==
    /\ locked = [i \in Nodes |-> FALSE]
    /\ connected \in [Nodes -> BOOLEAN]
    /\ sql_state = [i \in Nodes |-> IF connected[i] THEN "DB_CONN" ELSE "DB_DISCONN"]
    /\ wpc = [w \in Workers |-> "idle"]
    /\ index = [w \in Workers |-> 0] /\ loop_index = [w \in Workers |-> 0]
    /\ dpc = "off" /\ dindex = 0
    /\ crashed = FALSE
    /\ reinit = [i \in Nodes |-> FALSE] /\ shared = [i \in Nodes |-> FALSE]

\* The workers that have locked node i and not released it.
Holders(i) == {w \in Workers : wpc[w] \in HeldPC /\ index[w] = i}

-----------------------------------------------------------------------------
(* get_db_connect_from_pool. *)

Goto(w, pc) == wpc' = [wpc EXCEPT ![w] = pc]

\* start_index = rand() % pool_number.
Get(w, start) ==
    /\ wpc[w] = "idle"
    /\ Goto(w, "try")
    /\ index' = [index EXCEPT ![w] = start]
    /\ loop_index' = [loop_index EXCEPT ![w] = 0]
    /\ UNCHANGED <<node, destroy, crashed, history>>

\* Faulty variant: the search does not go round.
NextNodeStraight(w) ==
    /\ Goto(w, "try")
    /\ index' = [index EXCEPT ![w] = @ + 1]
    /\ loop_index' = [loop_index EXCEPT ![w] = @ + 1]

\* The next turn of the loop: loop_index++ and the node after this one.
NextNode(w) ==
    /\ Goto(w, "try")
    /\ index' = [index EXCEPT ![w] = (@ + 1) % PoolNumber]
    /\ loop_index' = [loop_index EXCEPT ![w] = @ + 1]

TryLock(w) ==
    /\ wpc[w] = "try" /\ loop_index[w] < PoolNumber
    /\ ~locked[index[w]]
    /\ locked' = [locked EXCEPT ![index[w]] = TRUE]
    /\ shared' = [shared EXCEPT ![index[w]] = @ \/ Holders(index[w]) # {}]
    /\ Goto(w, "check")
    /\ UNCHANGED <<sql_state, connected, index, loop_index, destroy, crashed, reinit>>

TryFails(w) ==
    /\ wpc[w] = "try" /\ loop_index[w] < PoolNumber
    /\ locked[index[w]]
    /\ NextNode(w)
    /\ UNCHANGED <<node, destroy, crashed, history>>

\* The variables of the search are forgotten with it.
Forget(w) ==
    /\ Goto(w, "idle")
    /\ index' = [index EXCEPT ![w] = 0] /\ loop_index' = [loop_index EXCEPT ![w] = 0]

\* Every node has been tried: NULL.
GiveUp(w) ==
    /\ wpc[w] = "try" /\ loop_index[w] = PoolNumber
    /\ Forget(w)
    /\ UNCHANGED <<node, destroy, crashed, history>>

CheckState(w) ==
    /\ wpc[w] = "check"
    /\ Goto(w, IF sql_state[index[w]] = "DB_DISCONN" THEN "mysql_init" ELSE "ping")
    /\ UNCHANGED <<node, index, loop_index, destroy, crashed, history>>

\* create_connect: mysql_init fails, or the mutex is next.
MysqlInit(w) ==
    /\ wpc[w] = "mysql_init"
    /\ Goto(w, "mutex_init") \/ Goto(w, "release")
    /\ UNCHANGED <<node, index, loop_index, destroy, crashed, history>>

\* create_connect: pthread_mutex_init of the mutex this worker holds.
MutexInit(w) ==
    /\ wpc[w] = "mutex_init"
    /\ locked' = [locked EXCEPT ![index[w]] = FALSE]
    /\ reinit' = [reinit EXCEPT ![index[w]] = TRUE]
    /\ Goto(w, "connect")
    /\ UNCHANGED <<sql_state, connected, index, loop_index, destroy, crashed, shared>>

\* create_connect: mysql_sock is what mysql_real_connect returns.
Connect(w) ==
    /\ wpc[w] = "connect"
    /\ \E ok \in BOOLEAN :
         /\ connected' = [connected EXCEPT ![index[w]] = ok]
         /\ Goto(w, IF ok THEN "connected" ELSE "failed")
    /\ UNCHANGED <<locked, sql_state, index, loop_index, destroy, crashed, history>>

MarkConnected(w) ==
    /\ wpc[w] = "connected"
    /\ sql_state' = [sql_state EXCEPT ![index[w]] = "DB_CONN"]
    /\ Goto(w, "ping")
    /\ UNCHANGED <<locked, connected, index, loop_index, destroy, crashed, history>>

\* Faulty variant: create_connect returns 0 although there is no connection.
MarkFailedGoesOn(w) ==
    /\ wpc[w] = "failed"
    /\ sql_state' = [sql_state EXCEPT ![index[w]] = "DB_DISCONN"]
    /\ Goto(w, "ping")
    /\ UNCHANGED <<locked, connected, index, loop_index, destroy, crashed, history>>

MarkFailed(w) ==
    /\ wpc[w] = "failed"
    /\ sql_state' = [sql_state EXCEPT ![index[w]] = "DB_DISCONN"]
    /\ Goto(w, "release")
    /\ UNCHANGED <<locked, connected, index, loop_index, destroy, crashed, history>>

\* Faulty variant: the mutex protects the search only.
PingOkUnlocks(w) ==
    /\ wpc[w] = "ping" /\ connected[index[w]]
    /\ locked' = [locked EXCEPT ![index[w]] = FALSE]
    /\ Goto(w, "use")
    /\ UNCHANGED <<sql_state, connected, index, loop_index, destroy, crashed, history>>

PingOk(w) ==
    /\ wpc[w] = "ping" /\ connected[index[w]]
    /\ Goto(w, "use")
    /\ UNCHANGED <<node, index, loop_index, destroy, crashed, history>>

\* Faulty variant: the connection that does not answer is not given back.
PingFailsKeepsLock(w) ==
    /\ wpc[w] = "ping" /\ connected[index[w]]
    /\ sql_state' = [sql_state EXCEPT ![index[w]] = "DB_DISCONN"]
    /\ NextNode(w)
    /\ UNCHANGED <<locked, connected, destroy, crashed, history>>

\* The node is left to be reconnected by the next worker that takes it.
PingFails(w) ==
    /\ wpc[w] = "ping" /\ connected[index[w]]
    /\ sql_state' = [sql_state EXCEPT ![index[w]] = "DB_DISCONN"]
    /\ Goto(w, "release")
    /\ UNCHANGED <<locked, connected, index, loop_index, destroy, crashed, history>>

PingCrash(w) ==
    /\ wpc[w] = "ping" /\ ~connected[index[w]]
    /\ crashed' = TRUE
    /\ UNCHANGED <<node, wpc, index, loop_index, destroy, history>>

\* release_sock_to_sql_pool: an unlock, by whichever holder.  The history is over when the
\* last holder has gone.
Unlock(w) ==
    LET i == index[w]
    IN  /\ locked' = [locked EXCEPT ![i] = FALSE]
        /\ reinit' = [reinit EXCEPT ![i] = reinit[i] /\ Holders(i) # {w}]
        /\ UNCHANGED shared

\* A node that cannot be used is released and the search goes on.
ReleaseAndGoOn(w) ==
    /\ wpc[w] = "release"
    /\ Unlock(w)
    /\ NextNode(w)
    /\ UNCHANGED <<sql_state, connected, destroy, crashed>>

\* get_upgrade_count_from_database has its answer, or none, and gives the node back.
QueryDone(w) ==
    /\ wpc[w] = "use"
    /\ Unlock(w)
    /\ Forget(w)
    /\ UNCHANGED <<sql_state, connected, destroy, crashed>>

-----------------------------------------------------------------------------
(* sql_pool_destroy; it takes no mutex.  The handler runs it for every signal, main once. *)

DestroyStart ==
    /\ dpc \in {"off", "done"}
    /\ dpc' = "close" /\ dindex' = 0
    /\ UNCHANGED <<node, wpc, index, loop_index, crashed, history>>

DestroyClose ==
    /\ dpc = "close"
    /\ connected' = [connected EXCEPT ![dindex] = FALSE]
    /\ dpc' = "mark"
    /\ UNCHANGED <<locked, sql_state, wpc, index, loop_index, dindex, crashed, history>>

DestroyMark ==
    /\ dpc = "mark"
    /\ sql_state' = [sql_state EXCEPT ![dindex] = "DB_DISCONN"]
    /\ IF dindex = PoolNumber - 1
         THEN dpc' = "done" /\ UNCHANGED dindex
         ELSE dpc' = "close" /\ dindex' = dindex + 1
    /\ UNCHANGED <<locked, connected, wpc, index, loop_index, crashed, history>>

-----------------------------------------------------------------------------

Search(w) == \/ \E start \in Nodes : Get(w, start)
             \/ TryLock(w) \/ TryFails(w) \/ GiveUp(w)
             \/ CheckState(w) \/ MysqlInit(w) \/ MutexInit(w)
             \/ Connect(w) \/ MarkConnected(w) \/ MarkFailed(w)
             \/ PingOk(w) \/ PingFails(w) \/ PingCrash(w)
             \/ ReleaseAndGoOn(w)

Worker(w) == ~crashed /\ (Search(w) \/ QueryDone(w))

Destroy == ~crashed /\ (DestroyStart \/ DestroyClose \/ DestroyMark)

Next == (\E w \in Workers : Worker(w)) \/ Destroy

Spec == Init /\ [][Next]_vars

-----------------------------------------------------------------------------
(* Properties. *)

TypeOK ==
    /\ locked \in [Nodes -> BOOLEAN] /\ connected \in [Nodes -> BOOLEAN]
    /\ sql_state \in [Nodes -> {"DB_CONN", "DB_DISCONN"}]
    /\ wpc \in [Workers -> WorkerPC] /\ index \in [Workers -> Nodes]
    /\ loop_index \in [Workers -> 0..PoolNumber]
    /\ dpc \in {"off", "close", "mark", "done"} /\ dindex \in Nodes
    /\ crashed \in BOOLEAN /\ reinit \in [Nodes -> BOOLEAN] /\ shared \in [Nodes -> BOOLEAN]

\* A connection is shared only after a reconnection (sql_pool.c:40): as long as none of its
\* holders, and none of those they overlapped with, has re-initialised its mutex, one
\* worker has it and the mutex is locked.
SharedOnlyAfterReconnect ==
    \A i \in Nodes : ~reinit[i] =>
      \A w \in Holders(i) : Holders(i) = {w} /\ locked[i]

\* No connection is lost to the pool: whatever fails, and whoever has unlocked whose mutex, a
\* locked node has a holder, who will release it.
NoNodeLost == \A i \in Nodes : locked[i] => Holders(i) # {}

\* The connection a worker works on is open, so that mysql_ping does not get NULL
\* (sql_pool.c:147), unless the pool was destroyed or two workers have had the connection at
\* once: of two reconnections that overlap, one may leave mysql_sock NULL and the other the
\* node marked as connected, for good.
HeldIsConnected ==
    \A w \in Workers :
      wpc[w] \in {"ping", "use"} =>
        connected[index[w]] \/ shared[index[w]] \/ dpc # "off"
=============================================================================
