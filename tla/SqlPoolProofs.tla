--------------------------- MODULE SqlPoolProofs ---------------------------
(***************************************************************************)
(* Proofs about the pool of database connections, for any number of        *)
(* workers and of nodes.                                                   *)
(***************************************************************************)
EXTENDS SqlPool, TLAPS

USE PoolNumberAssumption DEF Nodes

\* The steps of a worker, one name for each.
LEMMA WorkerSteps ==
    ASSUME NEW w \in Workers, Worker(w)
    PROVE  \/ \E start \in Nodes : Get(w, start)
           \/ TryLock(w) \/ TryFails(w) \/ GiveUp(w) \/ CheckState(w)
           \/ MysqlInit(w) \/ MutexInit(w)
           \/ Connect(w) \/ MarkConnected(w) \/ MarkFailed(w)
           \/ PingOk(w) \/ PingFails(w) \/ PingCrash(w)
           \/ ReleaseAndGoOn(w) \/ QueryDone(w)
BY DEF Worker, Search

-----------------------------------------------------------------------------

\* A worker that holds a node has turns left when it releases it: what the types need.
SearchBound == \A w \in Workers : wpc[w] \in HeldPC => loop_index[w] < PoolNumber

\* The node after this one is in the pool.
LEMMA NextInPool == ASSUME NEW i \in Nodes PROVE (i + 1) % PoolNumber \in Nodes
OBVIOUS

\* A release leaves booleans behind.
LEMMA UnlockType ==
  ASSUME TypeOK, NEW w \in Workers, Unlock(w)
  PROVE  locked' \in [Nodes -> BOOLEAN] /\ reinit' \in [Nodes -> BOOLEAN]
<1> DEFINE last == reinit[index[w]] /\ Holders(index[w]) # {w}
<1>1. /\ locked' = [locked EXCEPT ![index[w]] = FALSE]
      /\ reinit' = [reinit EXCEPT ![index[w]] = last]
  BY DEF Unlock
<1>2. last \in BOOLEAN /\ index[w] \in Nodes
  BY DEF TypeOK
<1> HIDE DEF last
<1> QED BY <1>1, <1>2 DEF TypeOK

\* The types and the bound, by induction.
LEMMA TypeInductive == TypeOK /\ SearchBound /\ [Next]_vars => TypeOK' /\ SearchBound'
<1> SUFFICES ASSUME TypeOK, SearchBound, [Next]_vars PROVE TypeOK' /\ SearchBound'
  OBVIOUS
<1> USE DEF TypeOK, SearchBound, WorkerPC, HeldPC, Goto, node, destroy, history
<1>1. ASSUME NEW w \in Workers, Worker(w) PROVE TypeOK' /\ SearchBound'
  <2>1. ASSUME NEW start \in Nodes, Get(w, start) PROVE TypeOK' /\ SearchBound'
    BY <2>1 DEF Get
  <2>2. CASE TryLock(w)
    <3>1. index[w] \in Nodes /\ (Holders(index[w]) # {}) \in BOOLEAN
      OBVIOUS
    <3> QED BY <2>2, <3>1 DEF TryLock
  <2>3. CASE TryFails(w)
    BY <2>3 DEF TryFails, NextNode
  <2>4. CASE GiveUp(w)
    BY <2>4 DEF GiveUp, Forget
  <2>5. CASE CheckState(w) \/ MysqlInit(w) \/ MutexInit(w)
    BY <2>5 DEF CheckState, MysqlInit, MutexInit
  <2>6. CASE Connect(w)
    BY <2>6 DEF Connect
  <2>7. CASE MarkConnected(w) \/ MarkFailed(w)
    BY <2>7 DEF MarkConnected, MarkFailed
  <2>8. CASE PingOk(w) \/ PingFails(w) \/ PingCrash(w)
    BY <2>8 DEF PingOk, PingFails, PingCrash
  <2>9. CASE ReleaseAndGoOn(w)
    <3>1. locked' \in [Nodes -> BOOLEAN] /\ reinit' \in [Nodes -> BOOLEAN]
      BY <2>9, UnlockType DEF ReleaseAndGoOn
    <3>2. /\ wpc' = [wpc EXCEPT ![w] = "try"]
          /\ index' = [index EXCEPT ![w] = (index[w] + 1) % PoolNumber]
          /\ loop_index' = [loop_index EXCEPT ![w] = loop_index[w] + 1]
          /\ wpc[w] = "release"
      BY <2>9 DEF ReleaseAndGoOn, NextNode
    <3>3. index' \in [Workers -> Nodes]
      BY <3>2, NextInPool
    <3>4. loop_index' \in [Workers -> 0..PoolNumber] /\ SearchBound'
      BY <3>2
    <3> QED BY <2>9, <3>1, <3>2, <3>3, <3>4 DEF ReleaseAndGoOn, Unlock
  <2>10. CASE QueryDone(w)
    <3>1. locked' \in [Nodes -> BOOLEAN] /\ reinit' \in [Nodes -> BOOLEAN]
      BY <2>10, UnlockType DEF QueryDone
    <3> QED BY <2>10, <3>1 DEF QueryDone, Unlock, Forget
  <2> QED BY <1>1, <2>1, <2>2, <2>3, <2>4, <2>5, <2>6, <2>7, <2>8, <2>9, <2>10, WorkerSteps
<1>2. CASE DestroyStart
  BY <1>2 DEF DestroyStart
<1>3. CASE DestroyClose
  BY <1>3 DEF DestroyClose
<1>4. CASE DestroyMark
  BY <1>4 DEF DestroyMark
<1>5. CASE UNCHANGED vars
  BY <1>5 DEF vars
<1> QED BY <1>1, <1>2, <1>3, <1>4, <1>5 DEF Next, Destroy

\* The search of get_db_connect_from_pool stays inside the pool.
THEOREM TypeCorrect == Spec => []TypeOK
<1>1. Init => TypeOK /\ SearchBound
  <2> SUFFICES ASSUME Init PROVE TypeOK /\ SearchBound
    OBVIOUS
  <2>1. /\ locked \in [Nodes -> BOOLEAN] /\ connected \in [Nodes -> BOOLEAN]
        /\ reinit \in [Nodes -> BOOLEAN] /\ shared \in [Nodes -> BOOLEAN]
        /\ crashed \in BOOLEAN
    BY Zenon DEF Init
  <2>2. /\ sql_state \in [Nodes -> {"DB_CONN", "DB_DISCONN"}]
        /\ wpc \in [Workers -> WorkerPC]
        /\ dpc \in {"off", "close", "mark", "done"}
    BY DEF Init, WorkerPC
  <2>3. /\ index \in [Workers -> Nodes] /\ loop_index \in [Workers -> 0..PoolNumber]
        /\ dindex \in Nodes
    BY DEF Init
  <2>4. SearchBound
    BY DEF Init, SearchBound, HeldPC
  <2> QED BY <2>1, <2>2, <2>3, <2>4 DEF TypeOK
<1> QED BY <1>1, TypeInductive, PTL DEF Spec

-----------------------------------------------------------------------------
(***************************************************************************)
(* Who holds a node.  As far as the mutexes are concerned a step of a      *)
(* worker is one of five things.                                           *)
(***************************************************************************)

Searches(w) ==
  /\ wpc[w] \notin HeldPC /\ wpc'[w] \notin HeldPC
  /\ UNCHANGED <<locked, reinit, shared>>

Takes(w) ==
  /\ wpc[w] \notin HeldPC /\ wpc'[w] \in HeldPC /\ index'[w] = index[w]
  /\ ~locked[index[w]] /\ locked' = [locked EXCEPT ![index[w]] = TRUE]
  /\ shared' = [shared EXCEPT ![index[w]] = @ \/ Holders(index[w]) # {}]
  /\ UNCHANGED reinit

Keeps(w) ==
  /\ wpc[w] \in HeldPC /\ wpc'[w] \in HeldPC /\ index'[w] = index[w]
  /\ UNCHANGED <<locked, reinit, shared>>

Reinitialises(w) ==
  /\ wpc[w] \in HeldPC /\ wpc'[w] \in HeldPC /\ index'[w] = index[w]
  /\ locked' = [locked EXCEPT ![index[w]] = FALSE]
  /\ reinit' = [reinit EXCEPT ![index[w]] = TRUE]
  /\ UNCHANGED shared

GivesBack(w) == wpc[w] \in HeldPC /\ wpc'[w] \notin HeldPC /\ Unlock(w)

\* Nothing but these five, and nothing that concerns another worker.
LEMMA MutexSteps ==
  ASSUME TypeOK, NEW w \in Workers, Worker(w)
  PROVE  /\ \A v \in Workers \ {w} : wpc'[v] = wpc[v] /\ index'[v] = index[v]
         /\ Searches(w) \/ Takes(w) \/ Keeps(w) \/ Reinitialises(w) \/ GivesBack(w)
<1> USE DEF TypeOK, HeldPC, Goto, node, destroy, history, NextNode, Forget
<1> DEFINE Others == \A v \in Workers \ {w} : wpc'[v] = wpc[v] /\ index'[v] = index[v]
<1>1. ASSUME NEW start \in Nodes, Get(w, start) PROVE Others /\ Searches(w)
  BY <1>1 DEF Get, Searches
<1>2. CASE TryLock(w)
  BY <1>2 DEF TryLock, Takes
<1>3. CASE TryFails(w) \/ GiveUp(w)
  BY <1>3 DEF TryFails, GiveUp, Searches
<1>4. CASE CheckState(w) \/ MysqlInit(w)
  BY <1>4 DEF CheckState, MysqlInit, Keeps
<1>5. CASE MutexInit(w)
  BY <1>5 DEF MutexInit, Reinitialises
<1>6. CASE Connect(w) \/ MarkConnected(w) \/ MarkFailed(w)
  BY <1>6 DEF Connect, MarkConnected, MarkFailed, Keeps
<1>7. CASE PingOk(w) \/ PingFails(w) \/ PingCrash(w)
  BY <1>7 DEF PingOk, PingFails, PingCrash, Keeps
<1>8. CASE ReleaseAndGoOn(w) \/ QueryDone(w)
  BY <1>8 DEF ReleaseAndGoOn, QueryDone, GivesBack
<1> QED BY <1>1, <1>2, <1>3, <1>4, <1>5, <1>6, <1>7, <1>8, WorkerSteps

\* What each of the five does to the holders of a node.
LEMMA HolderChange ==
  ASSUME TypeOK, NEW w \in Workers, Worker(w), NEW i \in Nodes
  PROVE  /\ Searches(w) \/ Keeps(w) \/ Reinitialises(w) => Holders(i)' = Holders(i)
         /\ Takes(w) => Holders(i)' = IF i = index[w] THEN Holders(i) \cup {w} ELSE Holders(i)
         /\ GivesBack(w) => Holders(i)' = Holders(i) \ {w}
         /\ wpc[w] \in HeldPC => w \in Holders(index[w])
<1>1. \A v \in Workers \ {w} : wpc'[v] = wpc[v] /\ index'[v] = index[v]
  BY MutexSteps
<1> HIDE DEF Nodes
<1>2. Searches(w) \/ Keeps(w) \/ Reinitialises(w) => Holders(i)' = Holders(i)
  BY <1>1 DEF Searches, Keeps, Reinitialises, Holders
<1>3. Takes(w) => Holders(i)' = IF i = index[w] THEN Holders(i) \cup {w} ELSE Holders(i)
  BY <1>1 DEF Takes, Holders
<1>4. GivesBack(w) => Holders(i)' = Holders(i) \ {w}
  BY <1>1 DEF GivesBack, Holders
<1>5. wpc[w] \in HeldPC => w \in Holders(index[w])
  BY DEF Holders
<1> QED BY <1>2, <1>3, <1>4, <1>5

\* Every locked node has a holder, who will release it, whatever calls fail.
THEOREM NodesNotLost == Spec => []NoNodeLost
<1>1. Init => NoNodeLost
  BY DEF Init, NoNodeLost
<1>2. TypeOK /\ NoNodeLost /\ [Next]_vars => NoNodeLost'
  <2> SUFFICES ASSUME TypeOK, NoNodeLost, [Next]_vars, NEW i \in Nodes, locked'[i]
               PROVE  Holders(i)' # {}
    BY DEF NoNodeLost
  <2> USE DEF TypeOK
  <2> HIDE DEF Nodes
  <2>1. ASSUME NEW w \in Workers, Worker(w) PROVE Holders(i)' # {}
    <3>1. CASE Searches(w) \/ Keeps(w)
      BY <2>1, <3>1, HolderChange DEF NoNodeLost, Searches, Keeps
    <3>2. CASE Takes(w)
      BY <2>1, <3>2, HolderChange DEF NoNodeLost, Takes
    <3>3. CASE Reinitialises(w)
      BY <2>1, <3>3, HolderChange DEF NoNodeLost, Reinitialises
    <3>4. CASE GivesBack(w)
      <4>1. i # index[w] /\ locked[i]
        BY <3>4 DEF GivesBack, Unlock
      <4>2. w \notin Holders(i)
        BY <4>1 DEF Holders
      <4> QED BY <2>1, <3>4, <4>1, <4>2, HolderChange DEF NoNodeLost
    <3> QED BY <2>1, <3>1, <3>2, <3>3, <3>4, MutexSteps
  <2>2. CASE Destroy
    BY <2>2 DEF NoNodeLost, Destroy, DestroyStart, DestroyClose, DestroyMark, Holders, node
  <2>3. CASE UNCHANGED vars
    BY <2>3 DEF NoNodeLost, vars, Holders
  <2> QED BY <2>1, <2>2, <2>3 DEF Next
<1> QED BY <1>1, <1>2, TypeCorrect, PTL DEF Spec

\* A node has two holders only after one of them, or of those they overlapped with, has
\* re-initialised its mutex (sql_pool.c:40).
THEOREM SharingNeedsReconnection == Spec => []SharedOnlyAfterReconnect
<1>1. Init => SharedOnlyAfterReconnect
  BY DEF Init, SharedOnlyAfterReconnect, Holders, HeldPC
<1>2. TypeOK /\ SharedOnlyAfterReconnect /\ [Next]_vars => SharedOnlyAfterReconnect'
  <2> SUFFICES ASSUME TypeOK, SharedOnlyAfterReconnect, [Next]_vars, NEW i \in Nodes,
                      ~reinit'[i], NEW v \in Holders(i)'
               PROVE  Holders(i)' = {v} /\ locked'[i]
    BY DEF SharedOnlyAfterReconnect
  <2> USE DEF TypeOK
  <2> HIDE DEF Nodes
  <2>1. ASSUME NEW w \in Workers, Worker(w) PROVE Holders(i)' = {v} /\ locked'[i]
    <3>1. CASE Searches(w) \/ Keeps(w)
      BY <2>1, <3>1, HolderChange DEF SharedOnlyAfterReconnect, Searches, Keeps
    <3>2. CASE Takes(w)
      <4>0. ~reinit[i]
        BY <3>2 DEF Takes
      <4>1. CASE i = index[w]
        <5>1. ~locked[i] /\ locked'[i]
          BY <3>2, <4>1 DEF Takes
        <5>2. Holders(i) = {}
          BY <4>0, <5>1 DEF SharedOnlyAfterReconnect
        <5>3. Holders(i)' = {w}
          BY <2>1, <3>2, <4>1, <5>2, HolderChange
        <5> QED BY <5>1, <5>3
      <4>2. CASE i # index[w]
        <5>1. Holders(i)' = Holders(i) /\ locked'[i] = locked[i]
          BY <2>1, <3>2, <4>2, HolderChange DEF Takes
        <5> QED BY <4>0, <5>1 DEF SharedOnlyAfterReconnect
      <4> QED BY <4>1, <4>2
    <3>3. CASE Reinitialises(w)
      <4>1. i # index[w] /\ reinit'[i] = reinit[i] /\ locked'[i] = locked[i]
        BY <3>3 DEF Reinitialises
      <4>2. Holders(i)' = Holders(i)
        BY <2>1, <3>3, HolderChange
      <4> QED BY <4>1, <4>2 DEF SharedOnlyAfterReconnect
    <3>4. CASE GivesBack(w)
      <4>0. Holders(i)' = Holders(i) \ {w}
        BY <2>1, <3>4, HolderChange
      <4>1. i # index[w]
        <5> SUFFICES ASSUME i = index[w] PROVE FALSE
          OBVIOUS
        <5>1. ~reinit[i] \/ Holders(i) = {w}
          BY <3>4, Zenon DEF GivesBack, Unlock
        <5>2. w \in Holders(i)
          BY <2>1, <3>4, HolderChange DEF GivesBack
        <5>3. Holders(i) = {w}
          BY <5>1, <5>2 DEF SharedOnlyAfterReconnect
        <5> QED BY <4>0, <5>3
      <4>2. locked'[i] = locked[i] /\ reinit'[i] = reinit[i]
        BY <3>4, <4>1 DEF GivesBack, Unlock
      <4>3. Holders(i)' = Holders(i)
        BY <4>0, <4>1 DEF Holders
      <4> QED BY <4>2, <4>3 DEF SharedOnlyAfterReconnect
    <3> QED BY <2>1, <3>1, <3>2, <3>3, <3>4, MutexSteps
  <2>2. CASE Destroy
    BY <2>2 DEF SharedOnlyAfterReconnect, Destroy, DestroyStart, DestroyClose, DestroyMark,
                Holders, node, history
  <2>3. CASE UNCHANGED vars
    BY <2>3 DEF SharedOnlyAfterReconnect, vars, Holders
  <2> QED BY <2>1, <2>2, <2>3 DEF Next
<1> QED BY <1>1, <1>2, TypeCorrect, PTL DEF Spec

-----------------------------------------------------------------------------
(***************************************************************************)
(* An open connection.  While a node has one holder at a time and the pool *)
(* is not destroyed, its state tells the truth about its connection, and   *)
(* its holder knows it.                                                    *)
(***************************************************************************)

Reconnecting == {"mysql_init", "mutex_init", "connect", "connected", "failed"}

Undisturbed(i) == ~shared[i] /\ dpc = "off"

OneHolder(i) == \A v, w \in Holders(i) : v = w

StateIsTrue(i) ==
  /\ sql_state[i] = "DB_CONN" => connected[i]
  /\ \A w \in Holders(i) :
       /\ wpc[w] \in {"connected", "ping", "use"} => connected[i]
       /\ wpc[w] \in Reconnecting => sql_state[i] = "DB_DISCONN"

NodeInv == \A i \in Nodes : Undisturbed(i) => OneHolder(i) /\ StateIsTrue(i)

\* A worker leaves a node it does not hold as it is.
LEMMA NodeSteps ==
  ASSUME TypeOK, NEW w \in Workers, Worker(w), NEW i \in Nodes
  PROVE  /\ dpc' = dpc
         /\ ~shared'[i] => ~shared[i]
         /\ w \notin Holders(i) => connected'[i] = connected[i] /\ sql_state'[i] = sql_state[i]
<1>1. dpc' = dpc
  BY WorkerSteps DEF Get, TryLock, TryFails, GiveUp, CheckState, MysqlInit, MutexInit, Connect,
     MarkConnected, MarkFailed, PingOk, PingFails, PingCrash, ReleaseAndGoOn, QueryDone, destroy
<1>2. ~shared'[i] => ~shared[i]
  BY MutexSteps DEF Searches, Takes, Keeps, Reinitialises, GivesBack, Unlock, TypeOK
<1>3. ASSUME w \notin Holders(i)
      PROVE  connected'[i] = connected[i] /\ sql_state'[i] = sql_state[i]
  <2>1. wpc[w] \in HeldPC => i # index[w]
    BY <1>3 DEF Holders
  <2> HIDE DEF Nodes
  <2> USE DEF TypeOK, node, HeldPC
  <2>2. CASE Connect(w) \/ MarkConnected(w) \/ MarkFailed(w) \/ PingFails(w)
    BY <2>1, <2>2 DEF Connect, MarkConnected, MarkFailed, PingFails
  <2>3. CASE ~(Connect(w) \/ MarkConnected(w) \/ MarkFailed(w) \/ PingFails(w))
    <3>1. UNCHANGED <<sql_state, connected>>
      BY <2>3, WorkerSteps DEF Get, TryLock, TryFails, GiveUp, CheckState, MysqlInit, MutexInit,
         PingOk, PingCrash, ReleaseAndGoOn, QueryDone
    <3> QED BY <3>1
  <2> QED BY <2>2, <2>3
<1> QED BY <1>1, <1>2, <1>3

\* At most one holder until the history says otherwise.
LEMMA OneHolderKept ==
  ASSUME TypeOK, NEW w \in Workers, Worker(w), NEW i \in Nodes,
         OneHolder(i), ~shared'[i]
  PROVE  OneHolder(i)'
<1> HIDE DEF Nodes
<1>1. CASE Takes(w)
  <2>1. CASE i = index[w]
    <3>1. Holders(i) = {}
      BY <1>1, <2>1 DEF Takes, TypeOK
    <3>2. Holders(i)' = {w}
      BY <1>1, <2>1, <3>1, HolderChange
    <3> QED BY <3>2 DEF OneHolder
  <2>2. CASE i # index[w]
    BY <1>1, <2>2, HolderChange DEF OneHolder
  <2> QED BY <2>1, <2>2
<1>2. CASE ~Takes(w)
  BY <1>2, MutexSteps, HolderChange DEF OneHolder
<1> QED BY <1>1, <1>2

\* The holder keeps the state of its node true.
LEMMA StateKept ==
  ASSUME TypeOK, NEW w \in Workers, Worker(w), NEW i \in Nodes,
         OneHolder(i), StateIsTrue(i), OneHolder(i)'
  PROVE  StateIsTrue(i)'
<1> HIDE DEF Nodes
<1>0. \A v \in Workers \ {w} : wpc'[v] = wpc[v] /\ index'[v] = index[v]
  BY MutexSteps
<1>1. CASE w \notin Holders(i)
  <2>1. connected'[i] = connected[i] /\ sql_state'[i] = sql_state[i]
    BY <1>1, NodeSteps
  <2>2. ASSUME NEW v \in Holders(i)', v # w PROVE v \in Holders(i) /\ wpc'[v] = wpc[v]
    BY <1>0, <2>2 DEF Holders
  <2>3. ASSUME w \in Holders(i)' PROVE wpc'[w] = "check"
    <3>1. wpc[w] \notin HeldPC \/ index[w] # i
      BY <1>1 DEF Holders
    <3>2. wpc'[w] \in HeldPC /\ index'[w] = i
      BY <2>3 DEF Holders
    <3>3. TryLock(w)
      BY <3>1, <3>2, WorkerSteps
         DEF Get, TryFails, GiveUp, CheckState, MysqlInit, MutexInit, Connect, MarkConnected,
             MarkFailed, PingOk, PingFails, PingCrash, ReleaseAndGoOn, QueryDone, Goto, NextNode,
             Forget, TypeOK, HeldPC
    <3> QED BY <3>3 DEF TryLock, Goto, TypeOK
  <2> QED BY <2>1, <2>2, <2>3 DEF StateIsTrue, Reconnecting
<1>2. CASE w \in Holders(i)
  <2>1. index[w] = i /\ wpc[w] \in HeldPC /\ \A v \in Holders(i) : v = w
    BY <1>2 DEF Holders, OneHolder
  <2>2. \A v \in Holders(i)' : v = w
    BY <1>0, <2>1 DEF Holders
  <2>3. /\ sql_state[i] = "DB_CONN" => connected[i]
        /\ wpc[w] \in {"connected", "ping", "use"} => connected[i]
        /\ wpc[w] \in Reconnecting => sql_state[i] = "DB_DISCONN"
    BY <1>2 DEF StateIsTrue
  <2> DEFINE Told == /\ sql_state'[i] = "DB_CONN" => connected'[i]
                     /\ wpc'[w] \in {"connected", "ping", "use"} => connected'[i]
                     /\ wpc'[w] \in Reconnecting => sql_state'[i] = "DB_DISCONN"
  <2> USE <2>1, <2>3 DEF TypeOK, Reconnecting, Goto, node, NextNode, Forget, HeldPC
  <2>4. ASSUME CheckState(w) PROVE Told
    BY <2>4 DEF CheckState
  <2>5. ASSUME MysqlInit(w) \/ MutexInit(w) PROVE Told
    BY <2>5 DEF MysqlInit, MutexInit
  <2>6. ASSUME Connect(w) PROVE Told
    BY <2>6 DEF Connect
  <2>7. ASSUME MarkConnected(w) PROVE Told
    BY <2>7 DEF MarkConnected
  <2>8. ASSUME MarkFailed(w) \/ PingFails(w) PROVE Told
    BY <2>8 DEF MarkFailed, PingFails
  <2>9. ASSUME PingOk(w) \/ PingCrash(w) PROVE Told
    BY <2>9 DEF PingOk, PingCrash
  <2>10. ASSUME ReleaseAndGoOn(w) \/ QueryDone(w) PROVE Told
    BY <2>10 DEF ReleaseAndGoOn, QueryDone
  <2>11. ASSUME TryLock(w) \/ TryFails(w) \/ GiveUp(w) PROVE Told
    BY <2>11 DEF TryLock, TryFails, GiveUp
  <2>12. ASSUME NEW start \in Nodes, Get(w, start) PROVE FALSE
    BY <2>12 DEF Get
  <2>13. Told
    BY <2>4, <2>5, <2>6, <2>7, <2>8, <2>9, <2>10, <2>11, <2>12, WorkerSteps
  <2> QED BY <2>2, <2>13 DEF StateIsTrue
<1> QED BY <1>1, <1>2

\* The connection a worker works on is open, unless the pool was destroyed or the node was
\* held by two workers at once: mysql_ping does not get NULL otherwise (sql_pool.c:147).
THEOREM HeldConnectionsAreOpen == Spec => []HeldIsConnected
<1>1. Init => NodeInv
  BY DEF Init, NodeInv, OneHolder, StateIsTrue, Holders, HeldPC
<1>2. TypeOK /\ NodeInv /\ [Next]_vars => NodeInv'
  <2> SUFFICES ASSUME TypeOK, NodeInv, [Next]_vars, NEW i \in Nodes, Undisturbed(i)'
               PROVE  OneHolder(i)' /\ StateIsTrue(i)'
    BY DEF NodeInv
  <2> HIDE DEF Nodes
  <2>1. ASSUME NEW w \in Workers, Worker(w) PROVE OneHolder(i)' /\ StateIsTrue(i)'
    <3>1. Undisturbed(i)
      BY <2>1, NodeSteps DEF Undisturbed
    <3>2. OneHolder(i) /\ StateIsTrue(i)
      BY <3>1 DEF NodeInv
    <3>3. OneHolder(i)'
      BY <2>1, <3>2, OneHolderKept DEF Undisturbed
    <3> QED BY <2>1, <3>2, <3>3, StateKept
  <2>2. CASE Destroy
    BY <2>2 DEF Undisturbed, Destroy, DestroyStart, DestroyClose, DestroyMark
  <2>3. CASE UNCHANGED vars
    BY <2>3 DEF NodeInv, Undisturbed, OneHolder, StateIsTrue, Holders, vars
  <2> QED BY <2>1, <2>2, <2>3 DEF Next
<1>3. TypeOK /\ NodeInv => HeldIsConnected
  BY DEF TypeOK, NodeInv, HeldIsConnected, Undisturbed, StateIsTrue, Holders, HeldPC
<1> QED BY <1>1, <1>2, <1>3, TypeCorrect, PTL DEF Spec
=============================================================================
