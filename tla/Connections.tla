---------------------------- MODULE Connections ----------------------------
(***************************************************************************)
(* The life of a client connection in server/g_net_update.c, between the   *)
(* accept thread (accept_thread), the main thread (the loop of main with   *)
(* recycle_timeout_confd) and the kernel, over the table of                *)
(* server/epoll_connect.c and the counter current_connected_total.         *)
(*                                                                         *)
(* Granularity.  Each access of a thread to what the other one touches --  *)
(* the table, the counter, the descriptors -- is a step of its own; only   *)
(* what one thread does to its own data or to the kernel's state of a      *)
(* descriptor the other thread cannot name is merged into its neighbour.   *)
(*                                                                         *)
(* The kernel.  sock[f] is what the peer has left to be seen on f; epolled *)
(* is the interest list, edge the ready list of an EPOLLET descriptor.     *)
(* epoll_wait reports a ready descriptor only if an event still holds.     *)
(*                                                                         *)
(* Time.  aged is the set of slots whose field now lies more than          *)
(* SERVER_TIMEOUT back.  The scan judges them by the time read before it   *)
(* starts, so no slot ages while it runs.                                  *)
(*                                                                         *)
(* The job queue is only its length here; module ThreadPool has the rest.  *)
(***************************************************************************)
EXTENDS Integers, FiniteSets

CONSTANTS
    MaxEvents,   \* MAX_EVENTS: slots of the table, limit of the counter
    Fds,         \* descriptors accept may return
    NoFd,        \* -1
    MaxJobs,     \* bound: jobs in the queue
    MaxAddFail,  \* bound: failures of EPOLL_CTL_ADD (0 leaves them out)
    MaxDropped   \* bound: jobs deleted by the timeout scan

ASSUME MaxEventsAssumption == MaxEvents \in Nat \ {0}
ASSUME NoFdAssumption == NoFd \notin Fds
\* main sets RLIMIT_NOFILE to MAX_EVENTS, or leaves it below; the log, the listening socket
\* and epoll_fd are descriptors too.
ASSUME FdsAssumption == IsFiniteSet(Fds) /\ Cardinality(Fds) < MaxEvents
ASSUME BoundsAssumption == MaxJobs \in Nat /\ MaxAddFail \in Nat /\ MaxDropped \in Nat

VARIABLES
    connect_fd,               \* epoll_connect_client[i].connect_fd
    aged,                     \* slots past SERVER_TIMEOUT
    current_connected_total,
    sock, epolled, edge,      \* the kernel
    jobN,                     \* jobs queued in the thread pool
    apc, afd, aslot,          \* accept thread: connect_fd, epoll_connect_event_index
    mpc, mfd, mslot,          \* main thread: connect_socket_fd_temp, index
    batch,                    \* the events of this epoll_wait still to be handled
    deleted,                  \* delete_pool_job_number
    addFailed, dropped        \* history: failed EPOLL_CTL_ADDs, deleted jobs

table  == <<connect_fd, aged>>
kernel == <<sock, epolled, edge>>
accepting == <<apc, afd, aslot>>
main   == <<mpc, mfd, mslot, batch, deleted>>
past   == <<addFailed, dropped>>
vars   == <<connect_fd, aged, current_connected_total, sock, epolled, edge, jobN,
            apc, afd, aslot, mpc, mfd, mslot, batch, deleted, addFailed, dropped>>

Slots == 1..MaxEvents
Readable == {"data", "eof", "bad"}   \* EPOLLIN; "bad": recv fails, or fills BUFLEN
SockState == Readable \cup {"closed", "quiet", "err"}
AcceptPC == {"accept", "pick", "setup", "ctl", "count"}
ScanPC == {"scan", "scan_sub", "scan_close", "scan_jobs", "sub_jobs"}
MainPC == ScanPC \cup {"top", "wait", "events", "ev_free", "ev_close"}

Init ==
    /\ connect_fd = [i \in Slots |-> NoFd] /\ aged = {}
    /\ current_connected_total = 0
    /\ sock = [f \in Fds |-> "closed"] /\ epolled = {} /\ edge = {}
    /\ jobN = 0
    /\ apc = "accept" /\ afd = NoFd /\ aslot = -1
    /\ mpc = "top" /\ mfd = NoFd /\ mslot = 0
    /\ batch = {} /\ deleted = 0
    /\ addFailed = 0 /\ dropped = 0

-----------------------------------------------------------------------------
(* epoll_connect.c and the kernel. *)

Occupied == {i \in Slots : connect_fd[i] # NoFd}
Matching(f) == {i \in Slots : connect_fd[i] = f}

\* The searches of the table return the first index that fits, or -1.
FirstOf(S) == IF S = {} THEN -1 ELSE CHOOSE i \in S : \A j \in S : i <= j
get_epoll_connect_free_event_index == FirstOf(Slots \ Occupied)
get_matched_event_index_by_fd(f)   == FirstOf(Matching(f))

\* closesocket(f).  Closing removes f from the interest list; on a descriptor that is
\* already closed it does nothing.
closesocket(f) ==
    /\ sock' = [sock EXCEPT ![f] = "closed"]
    /\ epolled' = epolled \ {f}
    /\ edge' = edge \ {f}

\* Nothing happens for an index that is not one of the table.
free_event_by_index(i) ==
    connect_fd' = IF i \in Slots THEN [connect_fd EXCEPT ![i] = NoFd] ELSE connect_fd

connect_total_count_sub(n) == current_connected_total' = current_connected_total - n

-----------------------------------------------------------------------------
(* accept_thread. *)

\* The unlocked test of the counter, and accept.
Accept(f) ==
    /\ apc = "accept"
    /\ current_connected_total < MaxEvents
    /\ sock[f] = "closed"
    /\ sock' = [sock EXCEPT ![f] = "quiet"]
    /\ afd' = f
    /\ apc' = "pick"
    /\ UNCHANGED <<table, current_connected_total, epolled, edge, jobN, aslot, main, past>>

PickSlot ==
    /\ apc = "pick"
    /\ Occupied # Slots
    /\ aslot' = get_epoll_connect_free_event_index
    /\ apc' = "setup"
    /\ UNCHANGED <<table, current_connected_total, kernel, jobN, afd, main, past>>

\* Faulty variant: the connection without a slot is not closed.
RejectKeepsOpen ==
    /\ apc = "pick"
    /\ Occupied = Slots
    /\ apc' = "accept" /\ afd' = NoFd
    /\ UNCHANGED <<table, current_connected_total, kernel, jobN, aslot, main, past>>

\* No free slot: the new connection is closed.
RejectNoSlot ==
    /\ apc = "pick"
    /\ Occupied = Slots
    /\ closesocket(afd)
    /\ apc' = "accept" /\ afd' = NoFd
    /\ UNCHANGED <<table, current_connected_total, jobN, aslot, main, past>>

\* set_non_blocking or setsockopt fails.
SetupFails ==
    /\ apc = "setup"
    /\ closesocket(afd)
    /\ apc' = "accept" /\ afd' = NoFd /\ aslot' = -1
    /\ UNCHANGED <<table, current_connected_total, jobN, main, past>>

\* init_epoll_connect_by_index.
InitSlot ==
    /\ apc = "setup"
    /\ connect_fd' = [connect_fd EXCEPT ![aslot] = afd]
    /\ aged' = aged \ {aslot}
    /\ apc' = "ctl"
    /\ UNCHANGED <<current_connected_total, kernel, jobN, afd, aslot, main, past>>

\* EPOLL_CTL_ADD; a descriptor with something to see is ready at once.
CtlAdd ==
    /\ apc = "ctl"
    /\ sock[afd] # "closed"
    /\ epolled' = epolled \cup {afd}
    /\ edge' = IF sock[afd] = "quiet" THEN edge ELSE edge \cup {afd}
    /\ apc' = "count"
    /\ UNCHANGED <<table, current_connected_total, sock, jobN, afd, aslot, main, past>>

\* EPOLL_CTL_ADD fails, as it must when the scan has closed the descriptor meanwhile: the
\* descriptor is closed and its slot is left as it is.
CtlAddFails ==
    /\ apc = "ctl"
    /\ addFailed < MaxAddFail
    /\ closesocket(afd)
    /\ addFailed' = addFailed + 1
    /\ apc' = "accept" /\ afd' = NoFd /\ aslot' = -1
    /\ UNCHANGED <<table, current_connected_total, jobN, main, dropped>>

\* connect_total_count_add(1).
CountAdd ==
    /\ apc = "count"
    /\ current_connected_total' = current_connected_total + 1
    /\ apc' = "accept" /\ afd' = NoFd /\ aslot' = -1
    /\ UNCHANGED <<table, kernel, jobN, main, past>>

-----------------------------------------------------------------------------
(* main: recycle_timeout_confd. *)

\* Faulty variant: the scan starts one slot late.
ScanStartLate ==
    /\ mpc = "top"
    /\ mpc' = "scan" /\ mslot' = 2
    /\ UNCHANGED <<table, current_connected_total, kernel, jobN, accepting, mfd, batch,
                   deleted, past>>

\* SERVER_TIMEOUT has passed since the last scan.
ScanStart ==
    /\ mpc = "top"
    /\ mpc' = "scan" /\ mslot' = 1
    /\ UNCHANGED <<table, current_connected_total, kernel, jobN, accepting, mfd, batch,
                   deleted, past>>

\* A slot that is free or has been active.
ScanNext ==
    /\ mpc = "scan" /\ mslot <= MaxEvents
    /\ mslot \notin Occupied \cap aged
    /\ mslot' = mslot + 1
    /\ UNCHANGED <<table, current_connected_total, kernel, jobN, accepting, mpc, mfd, batch,
                   deleted, past>>

\* A timed out slot is freed ...
ScanFree ==
    /\ mpc = "scan" /\ mslot <= MaxEvents
    /\ mslot \in Occupied \cap aged
    /\ mfd' = connect_fd[mslot]
    /\ free_event_by_index(mslot)
    /\ mpc' = "scan_sub"
    /\ UNCHANGED <<aged, current_connected_total, kernel, jobN, accepting, mslot, batch,
                   deleted, past>>

\* ... its descriptor leaves the interest list, the counter drops ...
ScanSub ==
    /\ mpc = "scan_sub"
    /\ epolled' = epolled \ {mfd} /\ edge' = edge \ {mfd}
    /\ connect_total_count_sub(1)
    /\ mpc' = "scan_close"
    /\ UNCHANGED <<table, sock, jobN, accepting, mfd, mslot, batch, deleted, past>>

\* ... and it is closed.
ScanClose ==
    /\ mpc = "scan_close"
    /\ closesocket(mfd)
    /\ mfd' = NoFd
    /\ mslot' = mslot + 1
    /\ mpc' = "scan"
    /\ UNCHANGED <<table, current_connected_total, jobN, accepting, batch, deleted, past>>

ScanEnd ==
    /\ mpc = "scan" /\ mslot > MaxEvents
    /\ mpc' = "scan_jobs" /\ mslot' = 0
    /\ UNCHANGED <<table, current_connected_total, kernel, jobN, accepting, mfd, batch,
                   deleted, past>>

\* delete_timeout_job deletes some of the queued jobs.
DeleteJobs ==
    /\ mpc = "scan_jobs"
    /\ \E n \in 0..jobN :
          /\ dropped + n <= MaxDropped
          /\ deleted' = n
          /\ jobN' = jobN - n
    /\ mpc' = "sub_jobs"
    /\ UNCHANGED <<table, current_connected_total, kernel, accepting, mfd, mslot, batch, past>>

\* connect_total_count_sub(delete_pool_job_number).
SubJobs ==
    /\ mpc = "sub_jobs"
    /\ connect_total_count_sub(deleted)
    /\ dropped' = dropped + deleted
    /\ deleted' = 0
    /\ mpc' = "wait"
    /\ UNCHANGED <<table, kernel, jobN, accepting, mfd, mslot, batch, addFailed>>

-----------------------------------------------------------------------------
(* main: the event loop. *)

\* Fewer than SERVER_TIMEOUT seconds since the last scan.
SkipScan ==
    /\ mpc = "top"
    /\ mpc' = "wait"
    /\ UNCHANGED <<table, current_connected_total, kernel, jobN, accepting, mfd, mslot, batch,
                   deleted, past>>

EventOf(f) == IF sock[f] \in Readable THEN "in" ELSE "other"

\* epoll_wait returns every ready descriptor, or none after 2 seconds.
EpollWait ==
    /\ mpc = "wait"
    /\ batch' = {<<f, EventOf(f)>> : f \in {g \in edge : sock[g] # "quiet"}}
    /\ edge' = {}
    /\ mpc' = "events"
    /\ UNCHANGED <<table, current_connected_total, sock, epolled, jobN, accepting, mfd, mslot,
                   deleted, past>>

EventsEnd ==
    /\ mpc = "events" /\ batch = {}
    /\ mpc' = "top"
    /\ UNCHANGED <<table, current_connected_total, kernel, jobN, accepting, mfd, mslot, batch,
                   deleted, past>>

\* thpool_add_work: the slot is active again whether or not malloc finds room for the job.
AddWork(f) ==
    /\ aged' = aged \ {get_matched_event_index_by_fd(f)}
    /\ jobN' \in {jobN} \cup (IF jobN < MaxJobs THEN {jobN + 1} ELSE {})

\* Faulty variant: the loop over the events is left after the first message.
ReadAndBreak(f) ==
    /\ mpc = "events"
    /\ <<f, "in">> \in batch /\ sock[f] \in {"data", "eof"}
    /\ sock' = [sock EXCEPT ![f] = IF sock[f] = "data" THEN "quiet" ELSE "eof"]
    /\ AddWork(f)
    /\ batch' = {}
    /\ UNCHANGED <<connect_fd, current_connected_total, epolled, edge, accepting, mpc, mfd,
                   mslot, deleted, past>>

\* recv returned less than BUFLEN bytes, which drains the socket, or the end of file,
\* which is never closed here: a job is added.
Read(f) ==
    /\ mpc = "events"
    /\ <<f, "in">> \in batch /\ sock[f] \in {"data", "eof"}
    /\ sock' = [sock EXCEPT ![f] = IF sock[f] = "data" THEN "quiet" ELSE "eof"]
    /\ AddWork(f)
    /\ batch' = batch \ {<<f, "in">>}
    /\ UNCHANGED <<connect_fd, current_connected_total, epolled, edge, accepting, mpc, mfd,
                   mslot, deleted, past>>

\* Faulty variant: the connection that is about to be closed stays counted.
CloseUncounted(f) ==
    /\ mpc = "events"
    /\ \/ <<f, "in">> \in batch /\ sock[f] = "bad"
       \/ <<f, "other">> \in batch
    /\ batch' = batch \ {<<f, "in">>, <<f, "other">>}
    /\ mfd' = f
    /\ mpc' = "ev_free"
    /\ UNCHANGED <<table, current_connected_total, kernel, jobN, accepting, mslot, deleted, past>>

\* recv failed or filled its buffer, or the event is not EPOLLIN: the counter drops, ...
CloseCounted(f) ==
    /\ mpc = "events"
    /\ \/ <<f, "in">> \in batch /\ sock[f] = "bad"
       \/ <<f, "other">> \in batch
    /\ batch' = batch \ {<<f, "in">>, <<f, "other">>}
    /\ connect_total_count_sub(1)
    /\ mfd' = f
    /\ mpc' = "ev_free"
    /\ UNCHANGED <<table, kernel, jobN, accepting, mslot, deleted, past>>

\* Faulty variant: the slot is not freed.
EventKeepsSlot ==
    /\ mpc = "ev_free"
    /\ mpc' = "ev_close"
    /\ UNCHANGED <<table, current_connected_total, kernel, jobN, accepting, mfd, mslot, batch,
                   deleted, past>>

\* Faulty variant: the slot is freed and the descriptor left open.
EventKeepsOpen ==
    /\ mpc = "ev_free"
    /\ free_event_by_index(get_matched_event_index_by_fd(mfd))
    /\ mpc' = "events" /\ mfd' = NoFd
    /\ UNCHANGED <<aged, current_connected_total, kernel, jobN, accepting, mslot, batch,
                   deleted, past>>

\* ... the slot that matches the descriptor is freed ...
EventFree ==
    /\ mpc = "ev_free"
    /\ free_event_by_index(get_matched_event_index_by_fd(mfd))
    /\ mpc' = "ev_close"
    /\ UNCHANGED <<aged, current_connected_total, kernel, jobN, accepting, mfd, mslot, batch,
                   deleted, past>>

\* ... and the descriptor closed.
EventClose ==
    /\ mpc = "ev_close"
    /\ closesocket(mfd)
    /\ mfd' = NoFd
    /\ mpc' = "events"
    /\ UNCHANGED <<table, current_connected_total, jobN, accepting, mslot, batch, deleted, past>>

-----------------------------------------------------------------------------
(* The peers, the clock and the workers. *)

\* What the peer does becomes visible on f; if f is in the interest list, it is an edge.
Arrives(f, s) ==
    /\ sock' = [sock EXCEPT ![f] = s]
    /\ edge' = IF f \in epolled THEN edge \cup {f} ELSE edge
    /\ UNCHANGED <<table, current_connected_total, epolled, jobN, accepting, main, past>>

PeerSends(f)  == sock[f] \in {"quiet", "data"} /\ (Arrives(f, "data") \/ Arrives(f, "bad"))
PeerCloses(f) == sock[f] \in {"quiet", "data"} /\ Arrives(f, "eof")
PeerResets(f) == sock[f] \in {"quiet", "data", "eof", "err"} /\ Arrives(f, "bad")
SocketError(f) == sock[f] = "quiet" /\ Arrives(f, "err")
Peer == \E f \in Fds : PeerSends(f) \/ PeerCloses(f) \/ PeerResets(f) \/ SocketError(f)

\* SERVER_TIMEOUT seconds pass for slot i.  Between init_epoll_connect_by_index and
\* EPOLL_CTL_ADD that takes a step of the wall clock, which is bounded with the failure of
\* EPOLL_CTL_ADD it may lead to.
Age(i) ==
    /\ mpc \notin ScanPC
    /\ i \in Occupied \ aged
    /\ apc = "ctl" /\ i = aslot => addFailed < MaxAddFail
    /\ aged' = aged \cup {i}
    /\ UNCHANGED <<connect_fd, current_connected_total, kernel, jobN, accepting, main, past>>

\* A worker takes a job off the queue.
WorkerTakes ==
    /\ jobN > 0
    /\ jobN' = jobN - 1
    /\ UNCHANGED <<table, current_connected_total, kernel, accepting, main, past>>

-----------------------------------------------------------------------------

AcceptThread == \/ \E f \in Fds : Accept(f)
                \/ PickSlot \/ RejectNoSlot \/ SetupFails \/ InitSlot
                \/ CtlAdd \/ CtlAddFails \/ CountAdd

Scan == ScanStart \/ ScanNext \/ ScanFree \/ ScanSub \/ ScanClose \/ ScanEnd
        \/ DeleteJobs \/ SubJobs

Events == \/ SkipScan \/ EpollWait \/ EventsEnd
          \/ \E f \in Fds : Read(f) \/ CloseCounted(f)
          \/ EventFree \/ EventClose

MainThread == Scan \/ Events

Next == AcceptThread \/ MainThread \/ Peer \/ (\E i \in Slots : Age(i)) \/ WorkerTakes

Spec == Init /\ [][Next]_vars

\* The main thread keeps running.  Nothing is assumed of the peers, of accept, of the workers
\* or, here, of the accept thread and of time.
FairSpec == Spec /\ WF_vars(MainThread)

\* The accept thread keeps running, time passes for a slot that is left alone, and a scan
\* comes every SERVER_TIMEOUT seconds of a loop that turns at least every 2.
TimePasses ==
    /\ SF_vars(ScanStart)
    /\ WF_vars(PickSlot \/ RejectNoSlot \/ InitSlot \/ CtlAdd \/ CountAdd)
    /\ \A i \in Slots : SF_vars(Age(i))

-----------------------------------------------------------------------------
(* Properties. *)

TypeOK ==
    /\ connect_fd \in [Slots -> Fds \cup {NoFd}] /\ aged \in SUBSET Slots
    /\ current_connected_total \in Int
    /\ sock \in [Fds -> SockState] /\ epolled \in SUBSET Fds /\ edge \in SUBSET epolled
    /\ jobN \in Nat
    /\ apc \in AcceptPC /\ afd \in Fds \cup {NoFd} /\ aslot \in Slots \cup {-1}
    /\ mpc \in MainPC /\ mfd \in Fds \cup {NoFd} /\ mslot \in 0..(MaxEvents + 1)
    /\ batch \in SUBSET (Fds \X {"in", "other"}) /\ deleted \in Nat
    /\ addFailed \in Nat /\ dropped \in Nat

One(b) == IF b THEN 1 ELSE 0

\* current_connected_total counts the occupied slots, but for the two threads' windows
\* between changing the table and changing the counter, and for two leaks that never
\* heal: a slot left occupied by a failed EPOLL_CTL_ADD (never counted, subtracted when it
\* times out) and the jobs deleted by the scan (subtracted without a connection going).
CountLaw ==
    current_connected_total + addFailed + dropped =
      Cardinality(Occupied) + One(mpc = "scan_sub")
        - One(apc \in {"ctl", "count"}) - One(mpc = "ev_free")

\* The test of the counter before accept (line 177) never holds the accept thread back: the
\* counter never reaches MAX_EVENTS, whatever registrations fail, because every slot in
\* excess of the descriptors was left by a failure that was never counted.
NeverThrottled == current_connected_total < MaxEvents

\* A client is refused for want of a slot (line 197) only after registrations have failed
\* and left their slots behind: otherwise the descriptors run out before the slots.
RefusedOnlyAfterFailures == apc = "pick" /\ Occupied = Slots => addFailed >= 2

\* The descriptors that have passed init_epoll_connect_by_index and are open.
Settled == {f \in Fds : sock[f] # "closed" /\ ~(apc \in {"pick", "setup"} /\ f = afd)}

\* The inductive invariant behind the two: a slot goes with a settled descriptor, or was
\* left by a failed registration.
SlotLaw ==
    Cardinality(Occupied) + One(mpc \in {"scan_sub", "scan_close", "ev_close"})
      + One(apc \in {"pick", "setup"} /\ sock[afd] = "closed")
    <= Cardinality(Settled) + addFailed

\* The descriptor of a pending event has a slot and is open, so the "not find matched fd"
\* branch (lines 680-692) is dead code: nobody but the main thread closes a registered
\* descriptor, and it does so between two events.
EventHasSlot ==
    \A e \in batch : Matching(e[1]) # {} /\ sock[e[1]] # "closed" /\ e[1] \in epolled

\* The EPOLLET registration with a single recv per event loses no wakeup: what the main
\* thread has not read is on the ready list or among its events, or it is closing f.  Only
\* the end of file, which stays readable, raises no further event.
NoLostEdge ==
    \A f \in epolled : sock[f] \in {"data", "bad", "err"} =>
      \/ f \in edge
      \/ <<f, "in">> \in batch \/ <<f, "other">> \in batch
      \/ f = mfd /\ mpc \in {"scan_sub", "ev_free", "ev_close"}

\* As long as EPOLL_CTL_ADD has not failed, a slot holds an open descriptor of its own:
\* the scan and the event handlers never close or time out another client's connection.
OneSlotPerFd ==
    addFailed = 0 =>
      \A i \in Occupied :
        /\ mpc = "ev_close" => connect_fd[i] # mfd
        /\ sock[connect_fd[i]] # "closed"
        /\ \A j \in Occupied : connect_fd[i] = connect_fd[j] => i = j

\* The main thread has freed f's slot and is about to close f.
Closing(f) == f = mfd /\ mpc \in {"scan_sub", "scan_close", "ev_close"}

\* No descriptor leaks: an open one is on its way through the accept thread, registered
\* with a slot the scan will reach, or about to be closed by the main thread.
NoFdLeak ==
    \A f \in Fds : sock[f] # "closed" =>
      \/ f = afd
      \/ Closing(f)
      \/ f \in epolled /\ Matching(f) # {}

\* What the accept thread knows of its connection from one call to the next.
AcceptOK ==
    /\ IF apc = "accept" THEN afd = NoFd ELSE afd \in Fds
    /\ apc = "setup" => aslot \in Slots \ Occupied
    /\ apc \in {"pick", "setup", "ctl"} => afd \notin epolled
    /\ apc = "ctl" => sock[afd] = "closed" \/ Matching(afd) # {} \/ Closing(afd)
    /\ apc = "count" => sock[afd] = "closed" \/ afd \in epolled \/ Closing(afd)

\* What the main thread knows of its events and of the descriptor it is closing.
EventsOK ==
    /\ mpc \notin {"events", "ev_free", "ev_close"} => batch = {}
    /\ mpc \in {"ev_free", "ev_close"} => mfd \in epolled
    /\ mpc \in {"scan_sub", "scan_close"} => mfd \in Fds
    /\ mpc = "ev_free" => Matching(mfd) # {}
    /\ \A e \in batch : e[1] \in epolled /\ (mpc \in {"ev_free", "ev_close"} => e[1] # mfd)

RegisteredOK ==
    \A f \in epolled : sock[f] # "closed" /\ (Matching(f) # {} \/ Closing(f))

\* The inductive invariant behind EventHasSlot, NoFdLeak and CountLaw: which descriptor
\* each thread may name, and which slots and registrations go with it.
ConnectionInv == AcceptOK /\ EventsOK /\ RegisteredOK /\ NoFdLeak

\* g_net_update.c:29 says of current_connected_total "the connections number": when both
\* threads are between two connections, it is the number of registered connections.
CountsConnections ==
    apc = "accept" /\ mpc = "wait" => current_connected_total = Cardinality(epolled)

\* What holds instead: between two connections the counter is never above the registered
\* connections, less the jobs the scans have deleted (line 529), and never further below than
\* by the registrations that have failed (line 234).
CounterDrift ==
    apc = "accept" /\ mpc \notin {"scan_sub", "scan_close", "ev_free", "ev_close"} =>
      LET counted == Cardinality(epolled) - dropped
      IN  current_connected_total \in (counted - addFailed)..counted

\* The event loop gets to every connection: data on a registered one is read, or the
\* connection closed, however the accept thread, the scans and other peers keep it busy, and
\* without waiting for the connection to time out (nothing makes time pass).
DataIsRead ==
    \A f \in Fds : (f \in epolled /\ sock[f] = "data") ~> (sock[f] # "data")

\* A connection whose peer is gone -- closed, reset or in error -- is closed in the end: by
\* its event, or, as the end of file is taken for an empty message, by the timeout scan, as
\* long as time passes.
GoneIsClosed ==
    TimePasses =>
      \A f \in Fds : (f \in epolled /\ sock[f] \in {"eof", "bad", "err"}) ~> (sock[f] = "closed")
=============================================================================
